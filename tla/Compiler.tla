------------------------------ MODULE Compiler ------------------------------
(***************************************************************************)
(* The translation of CJanus into lines of CRIL, after the actions of the  *)
(* parser (src/compiler/parser.y, from which goyacc makes parser.go): the  *)
(* order of the lines, the labels, the block numbers, the names of         *)
(* variables and those of the branches of a par.                           *)
(*                                                                         *)
(* A program is what the first pass of the parser has collected: global    *)
(* variables, and procedures with their parameters.  Types are left out,   *)
(* programs are well typed.                                                *)
(***************************************************************************)
EXTENDS Loader

-----------------------------------------------------------------------------
(* Names of variables.  $ marks a name of the current block, # a global    *)
(* one; `of` is the procedure whose parameter a call sets.                 *)

Name(pre, id, of) == [pre |-> pre, id |-> id, of |-> of]
Plain(x)      == Name("", <<x>>, <<>>)
Own(x)        == Name("$", <<x>>, <<>>)
Global(x)     == Name("#", <<x>>, <<>>)
Tmp(n)        == Name("$", <<"tmp", n>>, <<>>)
Param(x, id)  == Name("$", <<x>>, <<<<id>>>>)
Heap          == Plain("M")

(* Expressions, of the source and of the lines.  In a line the index of an *)
(* array element is a number or a variable.                                *)
Num(n)        == [k |-> "num", n |-> n]
Ref(name)     == [k |-> "ref", x |-> name]
At(name, i)   == [k |-> "at", x |-> name, i |-> i]
Bin(op, l, r) == [k |-> "bin", op |-> op, l |-> l, r |-> r]
Var(x)        == Ref(Plain(x))
Elem(x, i)    == At(Plain(x), i)

(* Statements.  A target is a variable or an array element.                *)
Skip                   == [k |-> "skip"]
Assign(target, op, e)  == [k |-> "assign", target |-> target, op |-> op, e |-> e]
Acquire(x)             == [k |-> "sem", op |-> "V", x |-> x]
Wait(x)                == [k |-> "sem", op |-> "P", x |-> x]
Block(body)            == [k |-> "block", body |-> body]
Local(x, c, body, d)   == [k |-> "local", x |-> x, c |-> c, body |-> body, d |-> d]
If(c, then, else, d)   == [k |-> "if", c |-> c, then |-> then, else |-> else, d |-> d]
From(c, do, loop, d)   == [k |-> "from", c |-> c, do |-> do, loop |-> loop, d |-> d]
Par(blocks)            == [k |-> "par", blocks |-> blocks]
Call(i, args)          == [k |-> "call", proc |-> i, args |-> args]

(* Programs: a global is a name with the number of its cells; the first    *)
(* procedure is main.                                                      *)
Proc(params, body)     == [params |-> params, body |-> body]
Source(globals, procs) == [globals |-> globals, procs |-> procs]

-----------------------------------------------------------------------------
(* The compiler's state, and the helpers at the end of parser.y.  A line   *)
(* carries the path of the block that it is in, which only properties use. *)

NewCompiler(source) ==
    [output |-> <<>>, currentproc |-> <<>>, stackdepth |-> <<-1>>,
     labelindex |-> 0, tmpindex |-> 0, procs |-> source.procs]

\* Mutant of GetNextMod: the number of the block before.
GetLastMod(c) == Last(c.stackdepth)

GetBlockId(c) == Front(c.stackdepth)

GetNextMod(c) == Last(c.stackdepth) + 1

GetCurrentMod(c) == Last(Front(c.stackdepth))

Indent(c) == [c EXCEPT !.stackdepth = Front(@) \o <<Last(@) + 1, -1>>]
Unindent(c) == [c EXCEPT !.stackdepth = Front(@)]

(* The number of the block of procedure i, collected by addProc.           *)
ProcId(i) == i - 1

BeginProc(c, name) == [c EXCEPT !.currentproc = Append(@, name), !.output = (name :> <<>>) @@ @]
EndProc(c) == [c EXCEPT !.currentproc = Front(@)]

Nowhere == Ref(Plain("none"))

(* Lines: an instruction has a target and an expression, a jump has labels *)
(* and perhaps a condition, the others have names or numbers.              *)
Instr(op, dst, e)   == [op |-> op, arg |-> <<>>, dst |-> dst, e |-> e]
Line(op, arg)       == [op |-> op, arg |-> arg, dst |-> Nowhere, e |-> Num(0)]
Goto(l)             == <<Line("goto", <<l>>)>>
Come(l)             == <<Line("come", <<l>>)>>
Branch(e, l, m)     == <<[Line("branch", <<l, m>>) EXCEPT !.e = e]>>
Join(l, m, e)       == <<[Line("join", <<l, m>>) EXCEPT !.e = e]>>

Exec(c, lines) ==
    LET at == GetBlockId(c)
        placed == [i \in DOMAIN lines |-> lines[i] @@ ("scope" :> at)]
    IN  [c EXCEPT !.output[Last(c.currentproc)] = @ \o placed]

-----------------------------------------------------------------------------
(* An expression in a record: the operand that stands for it, the lines    *)
(* that come before its use and those that come after it, in the order in  *)
(* which they are recorded.  tmpindex names the temporaries; the code      *)
(* numbers them as it parses, here a statement's own come before those of  *)
(* the statements inside.                                                  *)
Record(tmp, val, early, late) == [tmp |-> tmp, val |-> val, early |-> early, late |-> late]

RECURSIVE Expr(_, _)
Expr(tmp, e) ==
    CASE e.k \in {"num", "ref"} -> Record(tmp, e, <<>>, <<>>)
      [] e.k = "at" ->
            LET i == Expr(tmp, e.i)
            IN  [i EXCEPT !.val = At(e.x, i.val)]
      [] e.k = "bin" ->
            LET l == Expr(tmp, e.l)
                r == Expr(l.tmp, e.r)
                whole == Bin(e.op, l.val, r.val)
                t == Ref(Tmp(r.tmp))
            IN  Record(r.tmp + 1, t,
                       l.early \o r.early \o <<Instr("+=", t, whole)>>,
                       l.late \o r.late \o <<Instr("-=", t, whole)>>)

(* beginRecord to endRecord: the expressions of one statement.             *)
Recorded(c, e, d) ==
    LET first == Expr(c.tmpindex, e)
        second == Expr(first.tmp, d)
    IN  <<first, second>>

Reserve(c, recs) == [c EXCEPT !.tmpindex = Last(recs).tmp]

\* Mutant of Late: the lines that clear temporaries come in the order of the others.
LateForwards(rec) == rec.late

Early(rec) == rec.early
Late(rec) == Reverse(rec.late)

-----------------------------------------------------------------------------
(* The grammar's statements                                                *)

OpenBlock(c)  == Indent(Exec(c, <<Line("indent", <<GetNextMod(c)>>)>>))
CloseBlock(c) == Unindent(Exec(c, <<Line("unindent", <<GetCurrentMod(c)>>)>>))

RECURSIVE Statement(_, _)

Statements(c, body) == FoldLeft(LAMBDA d, s : Statement(d, s), c, body)

(* The expression of an assignment stays whole.  Of the index of a target  *)
(* only the operand is used: no line of its record is put anywhere.        *)
AssignStatement(c, s) ==
    LET target == Expr(c.tmpindex, s.target)
    IN  Exec([c EXCEPT !.tmpindex = target.tmp], <<Instr(s.op, target.val, s.e)>>)

SemStatement(c, s) == Exec(c, <<Instr(s.op, Var(s.x), Num(0))>>)

BlockStatement(c, s) == CloseBlock(Statements(OpenBlock(c), s.body))

LocalBlock(c, s) ==
    LET recs == Recorded(c, s.c, s.d)
        x == Ref(Own(s.x))
        with(i, op) == Early(recs[i]) \o <<Instr(op, x, recs[i].val)>> \o Late(recs[i])
        entered == Exec(OpenBlock(Reserve(c, recs)), with(1, "+="))
    IN  CloseBlock(Exec(Statements(entered, s.body), with(2, "-=")))

IfStatement(c, s) ==
    LET l == c.labelindex
        recs == Recorded(c, s.c, s.d)
        if == recs[1]
        fi == recs[2]
        test == Exec(Reserve([c EXCEPT !.labelindex = l + 4], recs),
                     Early(if) \o Branch(if.val, l, l + 1) \o Come(l) \o Late(if))
        then == Exec(Statements(test, s.then),
                     Early(fi) \o Goto(l + 2) \o Come(l + 1) \o Late(if))
    IN  Exec(Statements(then, s.else),
             Early(fi) \o Goto(l + 3) \o Join(l + 2, l + 3, fi.val) \o Late(fi))

LoopStatement(c, s) ==
    LET l == c.labelindex
        recs  == Recorded(c, s.c, s.d)
        from  == recs[1]
        until == recs[2]
        begun == Exec(Reserve([c EXCEPT !.labelindex = l + 5], recs),
                      Early(from) \o Goto(l) \o Join(l, l + 4, from.val) \o Late(from))
        done  == Exec(Statement(begun, s.do), Goto(l + 1) \o Come(l + 3) \o Late(until))
    IN  Exec(Statement(done, s.loop),
             Early(from) \o Goto(l + 4) \o Come(l + 1)
             \o Early(until) \o Branch(until.val, l + 2, l + 3) \o Come(l + 2) \o Late(until))

ParBlock(c, block) ==
    LET name  == Append(GetBlockId(c), GetNextMod(c))
        begun == Exec(BeginProc(c, name), <<Line("begin", name)>>)
    IN  EndProc(Exec(Statement(begun, block), <<Line("end", name)>>))

ParStatement(c, s) ==
    LET done == FoldLeft(LAMBDA d, b : ParBlock(d, b), c, s.blocks)
        names == [i \in 1..GetNextMod(done) |-> Append(GetBlockId(done), i - 1)]
    IN  Exec(done, <<Line("call", names)>>)

(* The lines of a call's record are those that pass its arguments.         *)
CallStatement(c, s) ==
    LET params == c.procs[s.proc].params
        pass(op) == [i \in DOMAIN s.args |->
                        Instr(op, Ref(Param(params[i], ProcId(s.proc))), Var(s.args[i]))]
    IN  Exec(c, pass("set") \o <<Line("call", <<ProcName(s.proc)>>)>> \o Reverse(pass("unset")))

Statement(c, s) ==
    CASE s.k = "assign" -> AssignStatement(c, s)
      [] s.k = "sem"    -> SemStatement(c, s)
      [] s.k = "skip"   -> c
      [] s.k = "block"  -> BlockStatement(c, s)
      [] s.k = "local"  -> LocalBlock(c, s)
      [] s.k = "if"     -> IfStatement(c, s)
      [] s.k = "from"   -> LoopStatement(c, s)
      [] s.k = "par"    -> ParStatement(c, s)
      [] s.k = "call"   -> CallStatement(c, s)

-----------------------------------------------------------------------------
(* A procedure; main also maps the globals to consecutive cells.  The code *)
(* takes the globals in the order of a map; the lines of different globals *)
(* do not touch the same entry.                                            *)
Procedure(c, name, setup, body, teardown) ==
    LET begun == OpenBlock(Exec(BeginProc(c, name), <<Line("begin", name)>>))
        ended == CloseBlock(Exec(Statements(Exec(begun, setup), body), teardown))
    IN  EndProc(Exec(ended, <<Line("end", name)>>))

Globals(globals, op) ==
    LET address[i \in 1..(Len(globals) + 1)] ==
            IF i = 1 THEN 0 ELSE address[i - 1] + globals[i - 1].size
    IN  [i \in DOMAIN globals |->
            Instr(op, Ref(Global(globals[i].name)), At(Heap, Num(address[i])))]

Compile(source) ==
    LET main == Procedure(NewCompiler(source), ProcName(1), Globals(source.globals, "set"),
                          source.procs[1].body, Globals(source.globals, "unset"))
        others == [i \in 1..(Len(source.procs) - 1) |-> i + 1]
    IN  FoldLeft(LAMBDA c, i : Procedure(c, ProcName(i), <<>>, source.procs[i].body, <<>>),
                 main, others).output

(* The files that `export` may write: it visits the procedures in whatever *)
(* order the map of the outputs yields them.                               *)
Export(output) ==
    {FlattenSeq([i \in DOMAIN order |-> output[order[i]]]) : order \in SetToSeqs(DOMAIN output)}

(* What the runtime may load for a program.                                *)
Files(p) == {Load(lines) : lines \in Export(Compile(p))}

=============================================================================
