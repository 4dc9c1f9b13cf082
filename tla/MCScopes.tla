------------------------------ MODULE MCScopes ------------------------------
(***************************************************************************)
(* Source programs for Scopes.                                             *)
(***************************************************************************)
EXTENDS Scopes

Add(x, n) == Assign(Var(x), "+=", Num(n))
Is0(x)    == Bin("=", Var(x), Num(0))
Not0(x)   == Bin("!=", Var(x), Num(0))
Cell1(x)  == [name |-> x, size |-> 1]
X == "x"
Y == "y"
Z == "z"
I == "i"

(* Choices in a choice, both ways.                                         *)
ManyChoices ==
    Source(<<Cell1(X), Cell1(Y)>>,
        <<Proc(<<>>, <<
            Add(X, 2),
            If(Bin(">", Var(X), Num(1)),
               <<If(Is0(Y), <<Add(Y, 1)>>, <<Add(X, 1), Skip>>, Bin("=", Var(Y), Num(1)))>>,
               <<Assign(Var(Y), "-=", Num(1))>>, Bin("<", Var(X), Bin("+", Var(Y), Num(2)))),
            If(Bin("<", Var(X), Num(0)), <<>>, <<Assign(Var(X), "^=", Num(1))>>, Bin("=", Var(X), Num(9)))
        >>)>>)

(* A loop with a variable inside and one around.                           *)
Cycle ==
    Source(<<Cell1(X)>>,
        <<Proc(<<>>, <<
            Local(I, Num(0),
                <<From(Is0(I),
                       Block(<<Assign(Var(I), "+=", Num(1)),
                               Local(Y, Var(I), <<Assign(Var(X), "+=", Bin("*", Var(Y), Var(Y)))>>, Var(I))>>),
                       Block(<<>>),
                       Bin("=", Var(I), Num(2)))>>,
                Bin("+", Num(1), Num(1)))
        >>)>>)

(* A call in a branch, whose parameter has the name of a global that the   *)
(* other branch changes; both declare a variable of the same name.         *)
Branches ==
    Source(<<Cell1(X), Cell1(Y)>>,
        <<Proc(<<>>, <<
            Par(<<Block(<<Call(2, <<Y>>)>>),
                  Local(Z, Num(1), <<Assign(Var(X), "+=", Var(Z))>>, Num(1))>>)
          >>),
          Proc(<<X>>, <<Local(Z, Num(2), <<Assign(Var(X), "+=", Var(Z))>>, Num(2))>>)>>)

(* A branch chooses while another one evaluates expressions.               *)
Decider ==
    Source(<<Cell1(X), Cell1(Y)>>,
        <<Proc(<<>>, <<
            Par(<<Block(<<If(Is0(X), <<Add(X, 1)>>, <<>>, Not0(X))>>),
                  Block(<<Add(Y, 1)>>)>>)>>)>>)

(* A procedure calls itself; the parameter of the inner call is the local  *)
(* variable of the outer one.                                              *)
Recursion ==
    Source(<<Cell1(X), Cell1(Y)>>,
        <<Proc(<<>>, <<Add(Y, 2), Call(2, <<Y>>)>>),
          Proc(<<Z>>, <<
            Add(X, 1),
            If(Is0(Z), <<>>, <<Local(I, Bin("-", Var(Z), Num(1)), <<Call(2, <<I>>)>>,
                                     Bin("-", Var(Z), Num(1)))>>, Is0(Z))>>)>>)

(* Elements of an array with a computed index.                             *)
Array ==
    Source(<<Cell1(X), [name |-> "a", size |-> 2], Cell1(Y)>>,
        <<Proc(<<>>, <<
            Add(X, 1),
            Assign(Elem("a", Var(X)), "-=", Num(7)),
            Assign(Elem("a", Num(0)), "+=", Bin("/", Elem("a", Var(X)), Num(2))),
            If(Bin("=", Elem("a", Bin("-", Var(X), Num(1))), Bin("-", Num(0), Num(3))),
               <<Add(Y, 5)>>, <<>>, Not0(Y))>>)>>)

(* Two branches use a semaphore, one of them under another name.           *)
Semaphores ==
    Source(<<Cell1(X), Cell1("s")>>,
        <<Proc(<<>>, <<Par(<<Block(<<Call(2, <<"s">>)>>), Block(<<Acquire("s"), Add(X, 1), Wait("s")>>)>>)>>),
          Proc(<<"t">>, <<Acquire("t"), Add(X, 1), Wait("t")>>)>>)

Walks == {ManyChoices, Cycle, Branches, Decider, Recursion, Array, Semaphores}

(* Of the orders in which the procedures of concurrent programs may be     *)
(* exported those with main first.                                         *)
MainFirst == source = Recursion \/ file.beginmap[ProcName(1)] = 0

MCInit == InitWithValues /\ MainFirst

MCSpec == MCInit /\ [][NextWithValues]_allVars

(* A branch whose condition is a plain variable, beside another branch.    *)
StaleCondition ==
    {Source(<<Cell1(X), Cell1(Y)>>,
        <<Proc(<<>>, <<
            Par(<<Local(Z, Num(1), <<If(Var(Z), <<Add(X, 1)>>, <<>>, Var(Z))>>, Num(1)),
                  Block(<<Add(Y, 1)>>)>>)>>)>>)}

(* The smallest program with a jump that does not lead to the next line.   *)
OneChoice ==
    {Source(<<Cell1(X)>>, <<Proc(<<>>, <<If(Is0(X), <<Skip>>, <<Skip>>, Is0(X))>>)>>)}

=============================================================================
