------------------------------ MODULE Monitor ------------------------------
(***************************************************************************)
(* What V and P of src/runtime/runtime.go are meant to be: operations of a *)
(* monitor with the mutex exmut and one condition for each name.  A        *)
(* process whose semaphore has the wrong value gives up the mutex and      *)
(* sleeps, in one step; one that carries out its operation wakes the first *)
(* sleeper, which then competes for the mutex like everybody else.         *)
(***************************************************************************)
EXTENDS Integers, Sequences

CONSTANTS
    Proc,   \* the processes
    Names,  \* the names of semaphores
    CellOf, \* name -> its cell; a sync parameter is a second name of a cell
    Ops     \* process -> its operations in the order of the program

Cells == {CellOf[n] : n \in Names}

VARIABLES
    rev,   \* the direction
    val,   \* the semaphores' values
    pos,   \* operations carried out
    owner, \* a set: the process that has the mutex
    queue  \* name -> processes that sleep

vars == <<rev, val, pos, owner, queue>>

-----------------------------------------------------------------------------
(* The next operation; backwards the last one is undone first.             *)
Finished(p) == pos[p] = Len(Ops[p])

Operation(p) == Ops[p][IF rev THEN Len(Ops[p]) - pos[p] ELSE pos[p] + 1]

(* V takes its semaphore from 0 to 1, P from 1 to 0, and undone the other  *)
(* way.                                                                    *)
Expected(p) == IF (Operation(p).op = "P") # rev THEN 1 ELSE 0

Cell(p) == CellOf[Operation(p).name]

Passes(p) == val[Cell(p)] = Expected(p)

Sleeping(p) == \E n \in Names : \E i \in DOMAIN queue[n] : queue[n][i] = p

(* Signal wakes the first one that sleeps, whatever it waits for.          *)
Rest(sleepers) == IF sleepers = <<>> THEN <<>> ELSE Tail(sleepers)

Init ==
    /\ rev \in BOOLEAN
    /\ val = [c \in Cells |-> 0]
    /\ pos = [p \in Proc |-> 0]
    /\ owner = {}
    /\ queue = [n \in Names |-> <<>>]

Enter(p) ==
    /\ owner = {}
    /\ ~Finished(p)
    /\ ~Sleeping(p)
    /\ owner' = {p}
    /\ UNCHANGED <<rev, val, pos, queue>>

Pass(p) ==
    /\ owner = {p}
    /\ Passes(p)
    /\ val' = [val EXCEPT ![Cell(p)] = 1 - Expected(p)]
    /\ pos' = [pos EXCEPT ![p] = @ + 1]
    /\ queue' = [queue EXCEPT ![Operation(p).name] = Rest(@)]
    /\ owner' = {}
    /\ UNCHANGED rev

Sleep(p) ==
    /\ owner = {p}
    /\ ~Passes(p)
    /\ queue' = [queue EXCEPT ![Operation(p).name] = Append(@, p)]
    /\ owner' = {}
    /\ UNCHANGED <<rev, val, pos>>

Next == \E p \in Proc : Enter(p) \/ Pass(p) \/ Sleep(p)

Spec == Init /\ [][Next]_vars

=============================================================================
