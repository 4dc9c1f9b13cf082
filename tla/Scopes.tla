------------------------------- MODULE Scopes -------------------------------
(***************************************************************************)
(* BlockWalk with values: the lines are executed on the symbol table and   *)
(* the memory, so that conditions decide the way (initInstset and evalexpr *)
(* in src/runtime/runtime.go, EvalExpr in expr.y).                         *)
(*                                                                         *)
(* Beside the runtime's state there is the reference for what a name       *)
(* means: env[p] are the variables in scope where process p is, as stacks  *)
(* of cells, kept at the lines that declare and remove them, and args[p]   *)
(* are those that it passes to the procedure that it is about to call.     *)
(***************************************************************************)
EXTENDS BlockWalk, SymbolTable, SourceMeaning

VARIABLES
    tab,   \* alloctable and alclimit
    val,   \* varmem and heapmem: cells that were never written are absent
    ctx,   \* the package's variable p: the process that evaluated the last expression
    env,   \* variables in scope
    args   \* parameters set and not yet unset

memory == <<tab, val, ctx>>
bindings == <<env, args>>
allVars == <<vars, memory, bindings>>

Nobody == -1

ValueOf(v, cell) == IF cell \in DOMAIN v THEN v[cell] ELSE 0

-----------------------------------------------------------------------------
(* What the next line reads.  A condition is read in the scope of the      *)
(* process that has evaluated the last expression: EvalVarOrConst passes   *)
(* on not its parameter, but the package's variable.                       *)

RECURSIVE Names(_)
Names(e) ==
    CASE e.k = "num" -> <<>>
      [] e.k = "ref" -> <<e.x>>
      [] e.k = "at"  -> IF e.x = Heap THEN <<>> ELSE Append(Names(e.i), e.x)
      [] e.k = "bin" -> Names(e.l) \o Names(e.r)

Assignments == {"+=", "-=", "^="}
Conditions  == {"branch", "join"}

Reads(p) ==
    IF Is(p, Assignments) THEN Names(Current(p).e) \o Names(Current(p).dst)
    ELSE IF Is(p, {"V", "P"}) THEN Names(Current(p).dst)
    ELSE IF Is(p, Conditions \cup {"set", "unset"}) THEN Names(Current(p).e)
    ELSE <<>>

Reader(p) == IF Is(p, Conditions) THEN ctx ELSE p

Readable(p) ==
    \/ Reads(p) = <<>>
    \/ /\ Reader(p) # Nobody
       /\ \A x \in ToSet(Reads(p)) : ~Unknown(tab, x, stackdepth[Reader(p)])

(* The table after these names were looked up.                             *)
TableAfter(p) == FoldLeft(LAMBDA t, x : Look(t, x, stackdepth[Reader(p)]), tab, Reads(p))

RECURSIVE Eval(_, _, _)

Address(t, e, stack) ==
    IF e.k = "ref" THEN GetAddr(t, e.x, stack)
    ELSE LET base == IF e.x = Heap THEN Addr(TRUE, 0) ELSE GetAddr(t, e.x, stack)
         IN  Addr(base[1], base[2] + Eval(t, e.i, stack))

Eval(t, e, stack) ==
    CASE e.k = "num"           -> e.n
      [] e.k \in {"ref", "at"} -> ValueOf(val, Address(t, e, stack))
      [] e.k = "bin"           -> Apply(e.op, Eval(t, e.l, stack), Eval(t, e.r, stack))

Value(p, e)  == IF e.k = "num" THEN e.n ELSE Eval(TableAfter(p), e, stackdepth[Reader(p)])
CellAt(p, e) == Address(TableAfter(p), e, stackdepth[Reader(p)])

-----------------------------------------------------------------------------
(* Scopes of the reference: stacks of cells.                               *)

CellsOf(scopes, id) == IF id \in DOMAIN scopes THEN scopes[id] ELSE <<>>

Bind(scopes, id, cell) == (id :> Append(CellsOf(scopes, id), cell)) @@ scopes

Unbind(scopes, id) ==
    IF CellsOf(scopes, id) # <<>> THEN [scopes EXCEPT ![id] = Front(@)] ELSE scopes

Changes(scopes, id, cell, opens) == IF opens THEN Bind(scopes, id, cell) ELSE Unbind(scopes, id)

(* A line with $ in front begins the scope of its variable, or ends it.    *)
Declares(p) == Is(p, Assignments) /\ Current(p).dst.x.pre = "$"
Opens(p) == Declares(p) /\ (Current(p).op = "+=") # rev

-----------------------------------------------------------------------------
(* What a line does to values and scopes; the guards are in Refused.       *)

\* Mutant of Operation: undoing an assignment carries it out again.
OperationAgain(t) == t.op

Operation(t) == IF rev THEN Opposite(t.op) ELSE t.op

DoAssign(p) ==
    LET t == Current(p)
        cell == CellAt(p, t.dst)
    IN  /\ Is(p, Assignments)
        /\ ctx' = p
        /\ tab' = TableAfter(p)
        /\ val' = (cell :> Update(Operation(t), ValueOf(val, cell), Value(p, t.e))) @@ val
        /\ env' = IF Declares(p)
                  THEN [env EXCEPT ![p] = Changes(@, t.dst.x.id, cell, Opens(p))] ELSE env
        /\ UNCHANGED args

(* set, and unset backwards: a global of main, or a parameter of a call.   *)
Sets(p) == (Current(p).op = "set") # rev

DoSet(p) ==
    LET s == stackdepth[p]
        dst == Current(p).dst.x
        cell == CellAt(p, Current(p).e)
        changed(scopes) == [scopes EXCEPT ![p] = Changes(@, dst.id, cell, Sets(p))]
    IN  /\ Is(p, {"set", "unset"})
        /\ tab' = IF Sets(p) THEN SetSym(TableAfter(p), dst, cell, s) ELSE UnsetSym(TableAfter(p), dst, s)
        /\ env'  = IF dst.pre = "#" THEN changed(env) ELSE env
        /\ args' = IF dst.pre = "$" THEN changed(args) ELSE args
        /\ UNCHANGED <<val, ctx>>

(* V takes the semaphore from 0 to 1 and P from 1 to 0.                    *)
Expected(p) == Truth((Current(p).op = "P") # rev)

DoSem(p) ==
    LET cell == CellAt(p, Current(p).dst)
    IN  /\ Is(p, {"V", "P"})
        /\ IF ValueOf(val, cell) = Expected(p)
           THEN at'[p] # "sem" /\ val' = (cell :> 1 - Expected(p)) @@ val
           ELSE at'[p] = "sem" /\ UNCHANGED val
        /\ UNCHANGED <<tab, ctx, bindings>>

(* Children see what their caller sees, and the parameters.                *)
DoCall(p) ==
    LET ids    == DOMAIN env[p] \cup DOMAIN args[p]
        passed == [id \in ids |-> CellsOf(env[p], id) \o CellsOf(args[p], id)]
    IN  /\ Is(p, {"call"})
        /\ env' = IF at[p] = "call" THEN env
                  ELSE [q \in Pid |-> IF q \in ToSet(callpids'[CallNode(p)]) THEN passed ELSE env[q]]
        /\ UNCHANGED <<memory, args>>

(* A condition that is read may be allocated, whether or not its value is  *)
(* used.                                                                   *)
DoNothing(p) ==
    /\ ~Is(p, Instructions \cup {"V", "P", "call"})
    /\ tab' = TableAfter(p)
    /\ UNCHANGED <<val, ctx, bindings>>

(* Lines that make the runtime panic: a name that is unknown, a parameter  *)
(* or global that is set twice or is unset from another cell.              *)
Refused(p) ==
    \/ ~Readable(p)
    \/ /\ Is(p, {"set", "unset"})
       /\ LET dst == Current(p).dst.x
          IN  IF Sets(p) THEN SetFails(tab, dst, stackdepth[p])
                         ELSE UnsetFails(tab, dst, CellAt(p, Current(p).e), stackdepth[p])

Panic(p) ==
    /\ at[p] \in {"first", "rest", "sem"}
    /\ err' = IF Readable(p) THEN "assertion fail" ELSE "unknown variable"
    /\ UNCHANGED <<code, rev, turns, npcs, callpids, place, at, insts, exmap, was, memory, bindings>>

-----------------------------------------------------------------------------
(* BlockWalk's steps with values: the condition decides which label a      *)
(* branch jumps to, and backwards a join.                                  *)

Chosen(p) ==
    IF Is(p, Conditions) /\ Value(p, Current(p).e) = 0 THEN Current(p).arg[2] ELSE Current(p).arg[1]

ExecuteWithValues(p) ==
    /\ \/ Step(p)
       \/ at[p] \in {"first", "rest"} /\ (Leave(p, Chosen(p)) \/ Return(p, Chosen(p)))
    /\ DoAssign(p) \/ DoSet(p) \/ DoSem(p) \/ DoCall(p) \/ DoNothing(p)
    /\ UNCHANGED <<code, rev, turns, pc, exmap, was>>

InitWithValues ==
    /\ Init
    /\ tab = NewSymtab
    /\ val = <<>>
    /\ ctx = Nobody
    /\ env = [p \in Pid |-> <<>>]
    /\ args = [p \in Pid |-> <<>>]

WalkWithValues(p) ==
    /\ err = "none"
    /\ \/ (BeginBlock(p) \/ FinishBlock(p)) /\ UNCHANGED <<memory, bindings>>
       \/ IF Refused(p) THEN Panic(p) ELSE ExecuteWithValues(p)

NextWithValues ==
    \/ \E p \in Pid : WalkWithValues(p)
    \/ ((err = "none" /\ Turn) \/ Halted) /\ UNCHANGED <<memory, bindings>>

SpecWithValues == InitWithValues /\ [][NextWithValues]_allVars

-----------------------------------------------------------------------------
(* Properties.  Those of BlockWalk hold again, now that conditions decide. *)

TypeWithValues ==
    /\ TypeOK
    /\ tab.alclimit \in Nat
    /\ \A key \in DOMAIN tab.alloctable : tab.alloctable[key] \in BOOLEAN \X Nat
    /\ \A cell \in DOMAIN val : cell \in BOOLEAN \X Nat /\ val[cell] \in Int
    /\ ctx \in Pid \cup {Nobody}

(* Wherever a process is, the names of the next line lead to the cells of  *)
(* the variables that are declared there: symtab.go:269 finds them by the  *)
(* numbers of the open blocks only.  Of a condition this is asked where it *)
(* decides.                                                                *)
NamesMeanTheirDeclarations ==
    \A p \in Pid :
        at[p] \in {"first", "rest"} /\ Readable(p) /\ ~Is(p, {IF rev THEN "branch" ELSE "join"})
            => \A x \in ToSet(Reads(p)) :
                   (Opens(p) /\ x = Current(p).dst.x) \/
                   /\ CellsOf(env[p], x.id) # <<>>
                   /\ Last(env[p][x.id]) = GetAddr(TableAfter(p), x, stackdepth[Reader(p)])

(* The cell in which a block's variable or a temporary begins belongs to   *)
(* no variable in scope of a process that runs, and is 0: symtab.go keeps  *)
(* an entry when its block is left and never clears the cell.              *)
LocalsStartClean ==
    \A p \in Pid :
        at[p] \in {"first", "rest"} /\ Opens(p)
            => LET cell == CellAt(p, Current(p).dst)
               IN  /\ ValueOf(val, cell) = 0
                   /\ \A q \in Pid : at[q] \notin {"none", "stopped"}
                          => \A id \in DOMAIN env[q] : cell \notin ToSet(env[q][id])

(* At either end of main no parameter or global has an address, and no     *)
(* variable of a block a value.                                            *)
NothingLeft ==
    at[0] = "stopped" =>
        \A addr \in Range(tab.alloctable) : addr # Local0 => ~addr[1] /\ ValueOf(val, addr) = 0

(* When main has ended, memory holds what the program means; undone, zeros.*)
ComputesSource ==
    at[0] = "stopped" =>
        LET result == Result(source)
        IN  \A i \in DOMAIN result :
                ValueOf(val, Addr(TRUE, i - 1)) = IF pc[0] = 0 THEN 0 ELSE result[i]

(* Every step is one of BlockWalk: a condition sends a process back the    *)
(* way that it came.                                                       *)
FollowsBlockWalk == Spec

=============================================================================
