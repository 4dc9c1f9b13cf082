------------------------------ MODULE SemWait ------------------------------
(***************************************************************************)
(* V and P with the locks and goroutines that carry them out: the loops in *)
(* src/runtime/runtime.go and NotifySem and WaitSem in symtab.go.  A wait  *)
(* starts a helper goroutine, which calls Wait of the condition, so that   *)
(* the process can listen to runclose and rundoner at the same time.       *)
(*                                                                         *)
(* A process is a sequence of blocks with one operation each.  Processes   *)
(* and helpers hand exmut to each other; the mutex does not know who has   *)
(* locked it, and unlocking it while it is not locked ends the program.    *)
(***************************************************************************)
EXTENDS Integers, Sequences, FiniteSets

CONSTANTS
    Proc, Names, CellOf, Ops, \* see Monitor
    MaxLeft                   \* bound on the waits that a process leaves

Cells == {CellOf[n] : n \in Names}

ASSUME SemWaitAssumption ==
    /\ CellOf \in [Names -> Cells]
    /\ Ops \in [Proc -> Seq([op : {"V", "P"}, name : Names])]
    /\ MaxLeft \in Nat

(* A helper: whose it is, the name it waits for, and the count of `left`.  *)
Helper == Proc \X Names \X (0..MaxLeft)

VARIABLES
    rev,    \* the direction
    val,    \* the semaphores' values
    pos,    \* operations carried out
    at,     \* where each process is
    helper, \* where its helpers are
    left,   \* waits that it has left without the mutex
    queue,  \* name -> helpers in the condition's list
    locked, \* exmut
    stop,   \* there is a token in runclose or rundoner
    err     \* the error that ended the program

vars == <<rev, val, pos, at, helper, left, queue, locked, stop, err>>

-----------------------------------------------------------------------------
Finished(p) == pos[p] = Len(Ops[p])

Operation(p) == Ops[p][IF rev THEN Len(Ops[p]) - pos[p] ELSE pos[p] + 1]

Expected(p) == IF (Operation(p).op = "P") # rev THEN 1 ELSE 0

Cell(p) == CellOf[Operation(p).name]

Passes(p) == val[Cell(p)] = Expected(p)

Unlock ==
    /\ locked' = FALSE
    /\ err' = IF locked THEN err ELSE "unlock of unlocked mutex"

(* The goroutine that listens for the current wait.                        *)
Current(p) == <<p, Operation(p).name, left[p]>>

-----------------------------------------------------------------------------
(* executeBlock takes the mutex.                                           *)
Lock(p) ==
    /\ at[p] = "outside"
    /\ ~Finished(p)
    /\ ~locked
    /\ locked' = TRUE
    /\ at' = [at EXCEPT ![p] = "inside"]
    /\ UNCHANGED <<rev, val, pos, helper, left, queue, stop, err>>

\* Mutants of Signal: nobody is woken, everybody is woken.
SignalNobody(name) == UNCHANGED <<queue, helper>>
SignalAll(name) ==
    /\ helper' = [h \in Helper |-> IF \E i \in DOMAIN queue[name] : queue[name][i] = h
                                   THEN "woken" ELSE helper[h]]
    /\ queue' = [queue EXCEPT ![name] = <<>>]

(* NotifySem                                                               *)
Signal(name) ==
    IF queue[name] = <<>> THEN UNCHANGED <<queue, helper>>
    ELSE /\ helper' = [helper EXCEPT ![Head(queue[name])] = "woken"]
         /\ queue' = [queue EXCEPT ![name] = Tail(@)]

(* The value is right: the end of V or P, and of the block.                *)
Pass(p) ==
    /\ at[p] = "inside"
    /\ Passes(p)
    /\ val' = [val EXCEPT ![Cell(p)] = 1 - Expected(p)]
    /\ Signal(Operation(p).name)
    /\ pos' = [pos EXCEPT ![p] = @ + 1]
    /\ at' = [at EXCEPT ![p] = "outside"]
    /\ Unlock
    /\ UNCHANGED <<rev, left, stop>>

(* It is wrong: WaitSem up to its select.                                  *)
WaitSem(p) ==
    /\ at[p] = "inside"
    /\ ~Passes(p)
    /\ at' = [at EXCEPT ![p] = "select"]
    /\ helper' = [helper EXCEPT ![Current(p)] = "new"]
    /\ UNCHANGED <<rev, val, pos, left, queue, locked, stop, err>>

(* Wait of the condition, called by the helper: it enters the list, then   *)
(* unlocks; when it is woken it locks again.                               *)
HelperWaits(h) ==
    /\ helper[h] = "new"
    /\ helper' = [helper EXCEPT ![h] = "waiting"]
    /\ queue' = [queue EXCEPT ![h[2]] = Append(@, h)]
    /\ Unlock
    /\ UNCHANGED <<rev, val, pos, at, left, stop>>

\* Mutant of HelperLocks: a woken helper does not wait for the mutex.
HelperGoesOn(h) ==
    /\ helper[h] = "woken"
    /\ locked' = TRUE
    /\ helper' = [helper EXCEPT ![h] = "holding"]
    /\ UNCHANGED <<rev, val, pos, at, left, queue, stop, err>>

HelperLocks(h) ==
    /\ helper[h] = "woken"
    /\ ~locked
    /\ locked' = TRUE
    /\ helper' = [helper EXCEPT ![h] = "holding"]
    /\ UNCHANGED <<rev, val, pos, at, left, queue, stop, err>>

(* The process receives from semtolisten, returns from WaitSem and reads   *)
(* the value again.  The mutex is its own now.                             *)
Listen(p) ==
    /\ at[p] = "select"
    /\ helper[Current(p)] = "holding"
    /\ helper' = [helper EXCEPT ![Current(p)] = "none"]
    /\ at' = [at EXCEPT ![p] = "inside"]
    /\ UNCHANGED <<rev, val, pos, left, queue, locked, stop, err>>

Init ==
    /\ rev \in BOOLEAN
    /\ val = [c \in Cells |-> 0]
    /\ pos = [p \in Proc |-> 0]
    /\ at = [p \in Proc |-> "outside"]
    /\ helper = [h \in Helper |-> "none"]
    /\ left = [p \in Proc |-> 0]
    /\ queue = [n \in Names |-> <<>>]
    /\ locked = FALSE
    /\ stop = FALSE
    /\ err = "none"

(* The steps of a process and its helpers.                                 *)
Step(p) ==
    \/ Lock(p)
    \/ Pass(p)
    \/ WaitSem(p)
    \/ Listen(p)
    \/ \E h \in {p} \X Names \X (0..MaxLeft) : HelperWaits(h) \/ HelperLocks(h)

Halted == (\A p \in Proc : Finished(p)) /\ UNCHANGED vars

Next == (err = "none" /\ \E p \in Proc : Step(p)) \/ Halted

Spec == Init /\ [][Next]_vars

(* The Go scheduler runs a goroutine that can go on.                       *)
FairSpec == Spec /\ \A p \in Proc : WF_vars(err = "none" /\ Step(p))

-----------------------------------------------------------------------------
(* The user stops the run, or a step of the debugger ends: runclose or     *)
(* rundoner has a token from then on.  WaitSem returns false, which V and  *)
(* P ignore.                                                               *)
Stop ==
    /\ ~stop
    /\ stop' = TRUE
    /\ UNCHANGED <<rev, val, pos, at, helper, left, queue, locked, err>>

LeaveWait(p) ==
    /\ at[p] = "select"
    /\ stop
    /\ left[p] < MaxLeft
    /\ left' = [left EXCEPT ![p] = @ + 1]
    /\ at' = [at EXCEPT ![p] = "inside"]
    /\ UNCHANGED <<rev, val, pos, helper, queue, locked, stop, err>>

NextWithStop ==
    \/ Next
    \/ err = "none" /\ (Stop \/ \E p \in Proc : LeaveWait(p))

SpecWithStop == Init /\ [][NextWithStop]_vars

-----------------------------------------------------------------------------
TypeOK ==
    /\ rev \in BOOLEAN
    /\ val \in [Cells -> {0, 1}]
    /\ pos \in [Proc -> Nat]
    /\ \A p \in Proc : pos[p] <= Len(Ops[p])
    /\ at \in [Proc -> {"outside", "inside", "select"}]
    /\ helper \in [Helper -> {"none", "new", "waiting", "woken", "holding"}]
    /\ left \in [Proc -> 0..MaxLeft]
    /\ queue \in [Names -> Seq(Helper)]
    /\ locked \in BOOLEAN
    /\ stop \in BOOLEAN

(* A process has exmut in the middle of a block, unless it waits; while it *)
(* waits its helper has the mutex before and after it sleeps.              *)
Holds(p) ==
    \/ at[p] = "inside"
    \/ at[p] = "select" /\ helper[Current(p)] \in {"new", "holding"}

Owner == {p \in Proc : Holds(p)}

(* exmut is locked exactly while one process has it, though it is locked   *)
(* and unlocked by different goroutines (symtab.go:97-101, pc.go:114).     *)
MutexHasOneOwner ==
    /\ \A p, q \in Owner : p = q
    /\ locked <=> Owner # {}

(* No goroutine unlocks the mutex while it is not locked, which Go answers *)
(* with a fatal error.                                                     *)
NoFatalError == err = "none"

(* The processes whose helpers are in a condition's list.                  *)
Sleepers == [n \in Names |-> [i \in DOMAIN queue[n] |-> queue[n][i][1]]]

M == INSTANCE Monitor WITH owner <- Owner, queue <- Sleepers

(* WaitSem with its goroutine and its channel is a wait in a monitor.      *)
WaitSemIsMonitorWait == M!Spec

(* Every process comes to the end of its operations: nobody sleeps for     *)
(* ever where the V and the P of the program match (symtab.go:90).         *)
EverybodyFinishes == <>(\A p \in Proc : Finished(p))

=============================================================================
