------------------------- MODULE StepControlProofs -------------------------
(***************************************************************************)
(* Steps for any number of branches, in any number of calls.               *)
(*                                                                         *)
(* The first part holds wherever the focus is: at most two requests are    *)
(* under way.  Only a new step adds one, and only where none is with a     *)
(* process.                                                                *)
(*                                                                         *)
(* The second part is about sessions that leave the focus on main and do   *)
(* not turn: no branch stops half way, and blocks are executed and undone  *)
(* in causal order.  Of the goroutines only the branches' own and the      *)
(* debugger's for main are ever used.  The argument does not depend on how *)
(* many requests there are, nor on how many goroutines of the debugger     *)
(* wait for the mutex or to return: a branch is alive during its call      *)
(* only, it is gone when it is at its end, and what isRunnable has allowed *)
(* one branch no block of another takes back.                              *)
(***************************************************************************)
EXTENDS StepControl, FiniteSetTheorems, TLAPS

\* Where the debugger's goroutine in a block of main is.
Main == gor[Step(0)]

KidState  == {"none", "select", "got", "pass", "wait", "back", "lock", "block", "done"}
CallState == {"spawn", "call", "relock"}
MainState == {"none"} \cup CallState
Holding   == {"got", "pass", "lock", "block", "done"}

Typed ==
    /\ rev \in BOOLEAN /\ rundone \in BOOLEAN
    /\ runonce \in {<<>>, <<TRUE>>, <<FALSE>>}
    /\ waiting \in [Proc -> Nat]
    /\ newproc \subseteq Kid /\ spawned \subseteq Kid
    /\ gor \in [Goroutine -> KidState \cup CallState]
    /\ lrev \in [Goroutine -> BOOLEAN]
    /\ At(Own(0), "none")
    /\ \A p \in Kid : gor[Own(p)] \in KidState

-----------------------------------------------------------------------------
(* Goroutines, and how many of them have a request *)

Hands == Cardinality({p \in Proc : gor[Own(p)] \in Holding})

LEMMA Numbers ==
  /\ N \in Nat /\ N >= 1 /\ 0 \in Proc /\ \A p \in Kid : p \in Proc /\ p # 0
  /\ \A p \in Proc : p # 0 => p \in Kid
  /\ MainBlocks \in Nat
  /\ \A p \in Kid : /\ KidBlocks[p] \in Nat /\ KidBlocks[p] >= 1 /\ Blocks(p) = KidBlocks[p]
                   /\ CalledAt[p] \in Nat /\ CalledAt[p] >= 1 /\ CalledAt[p] + 2 <= MainBlocks
  /\ Blocks(0) = MainBlocks
BY StepAssumption DEF Proc, Kid, Blocks

LEMMA Goroutines ==
  /\ \A p \in Proc : Own(p) \in Goroutine /\ Step(p) \in Goroutine
  /\ \A p, q \in Proc : Own(p) # Step(q)
  /\ \A p, q \in Proc : p # q => Own(p) # Own(q) /\ Step(p) # Step(q)
  /\ \A p \in Proc : /\ Own(p)[1] = "own" /\ Own(p)[2] = p
                     /\ Step(p)[1] = "step" /\ Step(p)[2] = p
  /\ \A g \in Goroutine : \E p \in Proc : g = Own(p) \/ g = Step(p)
BY DEF Goroutine, Own, Step

LEMMA HandsFinite ==
  ASSUME NEW f
  PROVE  LET H == {p \in Proc : f[Own(p)] \in Holding}
         IN  IsFiniteSet(H) /\ Cardinality(H) \in Nat
<1>1. IsFiniteSet(Proc)
  BY Numbers, FS_Interval DEF Proc
<1>2. {p \in Proc : f[Own(p)] \in Holding} \in SUBSET Proc
  OBVIOUS
<1>3. IsFiniteSet({p \in Proc : f[Own(p)] \in Holding})
  BY <1>1, <1>2, FS_Subset
<1> QED  BY <1>3, FS_CardinalityType

\* A request more or less in the hands of processes when the goroutine of one
\* of them moves.
LEMMA HandsMove ==
  ASSUME NEW p \in Proc, \A q \in Proc : q # p => gor'[Own(q)] = gor[Own(q)]
  PROVE  /\ Hands \in Nat /\ Hands' \in Nat
         /\ Hands' = Hands - (IF gor[Own(p)] \in Holding THEN 1 ELSE 0)
                           + (IF gor'[Own(p)] \in Holding THEN 1 ELSE 0)
<1> DEFINE H == {q \in Proc : gor[Own(q)] \in Holding}
           J == {q \in Proc : gor'[Own(q)] \in Holding}
<1>1. /\ IsFiniteSet(H) /\ Cardinality(H) \in Nat /\ Hands = Cardinality(H)
      /\ IsFiniteSet(J) /\ Cardinality(J) \in Nat /\ Hands' = Cardinality(J)
  BY HandsFinite DEF Hands
<1>2. (p \in H <=> gor[Own(p)] \in Holding) /\ (p \in J <=> gor'[Own(p)] \in Holding)
  OBVIOUS
<1>3. CASE gor'[Own(p)] \in Holding
  <2>1. J = H \cup {p}
    BY <1>3
  <2> HIDE DEF H, J
  <2>2. Cardinality(J) = IF p \in H THEN Cardinality(H) ELSE Cardinality(H) + 1
    BY <1>1, <2>1, FS_AddElement
  <2> QED  BY <1>1, <1>2, <1>3, <2>2
<1>4. CASE gor'[Own(p)] \notin Holding
  <2>1. J = H \ {p}
    BY <1>4
  <2> HIDE DEF H, J
  <2>2. Cardinality(J) = IF p \in H THEN Cardinality(H) - 1 ELSE Cardinality(H)
    BY <1>1, <2>1, FS_RemoveElement
  <2> QED  BY <1>1, <1>2, <1>4, <2>2
<1> QED  BY <1>3, <1>4

LEMMA HandsStay ==
  ASSUME \A q \in Proc : gor'[Own(q)] = gor[Own(q)]
  PROVE  Hands \in Nat /\ Hands' = Hands
BY HandsFinite DEF Hands

\* The request in runonce, that in rundone, and that of the debugger.
Queued   == IF runonce = <<>> THEN 0 ELSE 1
Answered == IF rundone THEN 1 ELSE 0
DebuggerHolds ==
    IF dbg \in {"start", "unclog", "doner", "look", "inner", "ask", "send"} THEN 1 ELSE 0

\* A step adds one request to those that the step before has left, of which
\* there is one at most.
Counted ==
    /\ Queued + Hands + Answered + DebuggerHolds <= 2
    /\ dbg = "begin" => Queued + Hands <= 1

LEMMA Counts ==
  /\ Queued \in Int /\ 0 <= Queued /\ Queued <= 1
  /\ Answered \in Int /\ 0 <= Answered /\ Answered <= 1
  /\ DebuggerHolds \in Int /\ 0 <= DebuggerHolds /\ DebuggerHolds <= 1
  /\ Hands \in Int /\ 0 <= Hands
<1>1. Hands \in Nat
  BY HandsFinite DEF Hands
<1> QED  BY <1>1 DEF Queued, Answered, DebuggerHolds

LEMMA CountsNext ==
  /\ Queued' \in Int /\ 0 <= Queued' /\ Queued' <= 1
  /\ Answered' \in Int /\ 0 <= Answered' /\ Answered' <= 1
  /\ DebuggerHolds' \in Int /\ 0 <= DebuggerHolds' /\ DebuggerHolds' <= 1
  /\ Hands' \in Int /\ 0 <= Hands'
<1>1. Hands' \in Nat
  BY HandsFinite DEF Hands
<1> QED  BY <1>1 DEF Queued, Answered, DebuggerHolds

\* The counts after a step, by names of their own.
LEMMA CountedFrom ==
  ASSUME \A q, h, a, d \in Int :
            q = Queued' /\ h = Hands' /\ a = Answered' /\ d = DebuggerHolds'
            => q + h + a + d <= 2 /\ (dbg' = "begin" => q + h <= 1)
  PROVE  Counted'
<1>1. Queued' \in Int /\ Hands' \in Int /\ Answered' \in Int /\ DebuggerHolds' \in Int
  BY CountsNext
<1>2. /\ Queued' + Hands' + Answered' + DebuggerHolds' <= 2
      /\ dbg' = "begin" => Queued' + Hands' <= 1
  BY <1>1, Zenon
<1> QED  BY <1>2, Zenon DEF Counted

LEMMA RequestsAre ==
  ASSUME Typed
  PROVE  Requests = Queued + Hands + Answered + DebuggerHolds
<1>1. Len(runonce) = Queued
  <2>1. Len(<<>>) = 0
    OBVIOUS
  <2>2. \A d : Len(<<d>>) = 1 /\ <<d>> # <<>>
    OBVIOUS
  <2>3. CASE runonce = <<>>
    BY <2>1, <2>3 DEF Queued
  <2>4. CASE runonce = <<TRUE>>
    BY <2>2, <2>4, Zenon DEF Queued
  <2>5. CASE runonce = <<FALSE>>
    BY <2>2, <2>5, Zenon DEF Queued
  <2> QED  BY <2>3, <2>4, <2>5 DEF Typed
<1>2. Requests = Queued + Answered + Hands + DebuggerHolds
  BY <1>1, Zenon DEF Requests, Hands, Holding, DebuggerHolds, Answered
<1> QED  BY <1>2, Counts

-----------------------------------------------------------------------------
(* What a step changes *)

\* Nothing but the debugger's own state, the channels and the births.
Aside ==
    /\ UNCHANGED <<rev, gor, pc, spawned, chain, broken>>
    /\ newproc' \subseteq newproc

\* The goroutine of branch p goes to s.
BranchGoes(p, s) ==
    /\ gor[Own(p)] # "none" /\ s \in KidState
    /\ gor' = [gor EXCEPT ![Own(p)] = s]
    /\ \A g \in Goroutine : g # Own(p) => lrev'[g] = lrev[g]
    /\ UNCHANGED <<rev, dbg, focus, waiting, newproc, spawned, broken>>

\* It waits for a request, hands it on, or answers it.
BranchWaits(p, s) ==
    /\ BranchGoes(p, s)
    /\ UNCHANGED <<pc, chain>>

\* It executes a block.
BranchExecutes(p, s) ==
    /\ BranchGoes(p, s) /\ s \in {"done", "block"}
    /\ At(Own(p), "lock") /\ ~AtEnd(p, lrev[Own(p)])
    /\ Advance(p, lrev[Own(p)])
    /\ UNCHANGED <<runonce, rundone, lrev>>

\* The goroutine of the debugger in a block of p goes to s, and births nobody.
StepperGoes(p, s) ==
    /\ s \in CallState \cup {"none", "block"}
    /\ gor' = [gor EXCEPT ![Step(p)] = s]
    /\ waiting' \in [Proc -> Nat]
    /\ UNCHANGED <<rev, dbg, focus, runonce, rundone, newproc, lrev, broken>>

\* A process that is in no goroutine of its own does nothing.
LEMMA MainHasNone ==
  ASSUME Typed
  PROVE  ~ProcStep(0)
<1>1. Own(0) = <<"own", 0>> /\ gor[Own(0)] = "none" /\ Own(0)[1] = "own"
  BY DEF Own, Typed, At
<1>2. ~ExecuteBlock(Own(0))
  BY <1>1 DEF ExecuteBlock, Exec, ExecLast, Release, ExecAstray, ExecOverlap, CallBegin, Spawn,
              CallUnlock, Join, CallEnd, Lock, At
<1> QED  BY <1>1, <1>2 DEF ProcStep, TakeOnce, Ask, PassOnce, TakeDoner, PassDoner, Done, At

LEMMA BlockOfBranch ==
  ASSUME Typed, NEW p \in Kid, ExecuteBlock(Own(p))
  PROVE  \/ (\E s : BranchExecutes(p, s))
         \/ Release(Own(p))
         \/ ExecAstray(Own(p))
<1>1. /\ Own(p) \in Goroutine /\ Own(p)[2] = p /\ Own(p)[1] = "own" /\ p # 0
      /\ gor[Own(p)] \in KidState
  BY Numbers, Goroutines DEF Typed
<1>2. ~Spawn(Own(p)) /\ ~CallUnlock(Own(p)) /\ ~Join(Own(p)) /\ ~CallEnd(Own(p))
      /\ ~ExecOverlap(Own(p)) /\ ~CallBegin(Own(p))
  BY <1>1 DEF Spawn, CallUnlock, Join, CallEnd, ExecOverlap, CallBegin, IsCall, At, KidState
<1>3. ASSUME Exec(Own(p)) PROVE BranchExecutes(p, "done")
  <2>1. /\ At(Own(p), "lock") /\ Advance(p, lrev[Own(p)]) /\ ~AtEnd(p, lrev[Own(p)])
        /\ gor' = [gor EXCEPT ![Own(p)] = "done"] /\ waiting' = waiting
        /\ UNCHANGED <<debugger, requests, births, lrev, broken>> /\ spawned' = spawned
    BY <1>1, <1>3 DEF Exec, Lock, At, Goto, After
  <2> QED  BY <2>1 DEF BranchExecutes, BranchGoes, KidState, At, debugger, requests, births
<1>4. ASSUME ExecLast(Own(p)) PROVE BranchExecutes(p, "block")
  <2>1. /\ At(Own(p), "lock") /\ Advance(p, lrev[Own(p)]) /\ ~AtEnd(p, lrev[Own(p)])
        /\ gor' = [gor EXCEPT ![Own(p)] = "block"] /\ waiting' = waiting
        /\ UNCHANGED <<debugger, requests, births, lrev, broken>> /\ spawned' = spawned
    BY <1>1, <1>4 DEF ExecLast, Lock, At, Goto
  <2> QED  BY <2>1 DEF BranchExecutes, BranchGoes, KidState, At, debugger, requests, births
<1> QED  BY <1>2, <1>3, <1>4 DEF ExecuteBlock

LEMMA BlockOfStepper ==
  ASSUME Typed, NEW p \in Proc, StepperStep(p)
  PROVE  \/ (\E s : StepperGoes(p, s) /\ spawned' \subseteq Kid)
         \/ Spawn(Step(p))
         \/ ExecAstray(Step(p)) \/ ExecOverlap(Step(p))
<1>1. /\ Step(p) \in Goroutine /\ Step(p)[1] = "step" /\ Step(p)[2] = p
      /\ waiting \in [Proc -> Nat] /\ spawned \subseteq Kid
  BY Goroutines DEF Typed
<1>2. ASSUME Lock(Step(p)) PROVE waiting' \in [Proc -> Nat]
  <2>1. waiting' = [waiting EXCEPT ![p] = @ - 1] /\ waiting[p] > 0 /\ waiting[p] \in Nat
    BY <1>1, <1>2 DEF Lock
  <2> QED  BY <1>1, <2>1
<1>3. ASSUME Exec(Step(p)) PROVE StepperGoes(p, "none") /\ spawned' = spawned
  BY <1>1, <1>2, <1>3 DEF Exec, Goto, After, StepperGoes, debugger, requests, births
<1>4. ASSUME ExecLast(Step(p)) PROVE StepperGoes(p, "block") /\ spawned' = spawned
  BY <1>1, <1>2, <1>4 DEF ExecLast, Goto, StepperGoes, debugger, requests, births
<1>5. ASSUME Release(Step(p)) PROVE StepperGoes(p, "none") /\ spawned' = spawned
  BY <1>1, <1>5 DEF Release, Goto, After, StepperGoes, debugger, requests, program
<1>6. ASSUME CallBegin(Step(p)) PROVE StepperGoes(p, "spawn") /\ spawned' = {}
  BY <1>1, <1>2, <1>6 DEF CallBegin, Goto, StepperGoes, CallState, debugger, requests, births
<1>7. ASSUME CallUnlock(Step(p)) PROVE StepperGoes(p, "call") /\ spawned' = spawned
  BY <1>1, <1>7 DEF CallUnlock, Goto, StepperGoes, CallState, debugger, requests, steppers, births,
     program
<1>8. ASSUME Join(Step(p)) PROVE StepperGoes(p, "relock") /\ spawned' = spawned
  BY <1>1, <1>8 DEF Join, Goto, StepperGoes, CallState, debugger, requests, steppers, births, program
<1>9. ASSUME CallEnd(Step(p)) PROVE StepperGoes(p, "none") /\ spawned' = spawned
  BY <1>1, <1>9 DEF CallEnd, Goto, After, StepperGoes, debugger, requests, births
<1> QED  BY <1>1, <1>3, <1>4, <1>5, <1>6, <1>7, <1>8, <1>9 DEF ExecuteBlock, StepperStep

\* Every step of the debugger and the user leaves the goroutines where they are.
LEMMA DebuggerAside ==
  ASSUME Typed, DbgStep \/ Return
  PROVE  /\ Aside /\ Typed'
         /\ UNCHANGED <<target, exmut>>
<1>1. CASE Look
  <2>1. /\ waiting' = waiting \/ waiting' = [waiting EXCEPT ![focus] = @ + 1]
        /\ lrev' = lrev \/ lrev' = [lrev EXCEPT ![Step(focus)] = rev]
        /\ UNCHANGED <<rev, target, requests, births, exmut, gor, program, broken>>
    BY <1>1 DEF Look
  <2>2. waiting' \in [Proc -> Nat] /\ lrev' \in [Goroutine -> BOOLEAN]
    BY <2>1 DEF Typed
  <2> QED  BY <2>1, <2>2 DEF Typed, Aside, requests, births, program, At
<1>2. CASE UnclogDone \/ SendDone \/ TakeDone \/ UnclogDoner \/ SendDoner \/ TakeReturn
           \/ SeeChild \/ UnclogOnce \/ Return
  BY <1>2 DEF UnclogDone, SendDone, TakeDone, UnclogDoner, SendDoner, TakeReturn, SeeChild,
              UnclogOnce, Return, Typed, Aside, debugger, requests, steppers, births, program, At
<1>3. CASE SendOnce
  BY <1>3 DEF SendOnce, Typed, Aside, steppers, births, program, At
<1>4. CASE \E p \in Proc : TakeNewproc(p) \/ TakeTermproc(p)
  BY <1>4 DEF TakeNewproc, TakeTermproc, Typed, Aside, requests, steppers, program, At
<1> QED  BY <1>1, <1>2, <1>3, <1>4 DEF DbgStep

LEMMA UserAside ==
  ASSUME Typed, User
  PROVE  /\ UNCHANGED <<requests, steppers, births, exmut, gor, lrev, program, broken, focus>>
         /\ Typed'
<1>1. UNCHANGED <<requests, steppers, births, exmut, gor, lrev, program, broken, focus>>
      /\ rev' \in BOOLEAN
  BY DEF User, StepCmd, FocusCmd, Turn, Typed
<1> QED  BY <1>1 DEF Typed, requests, steppers, births, program, At

\* How a branch moves without a block.
LEMMA BranchMoves ==
  ASSUME Typed, NEW p \in Kid,
         \/ TakeOnce(p) \/ Ask(p) \/ PassOnce(p) \/ TakeDoner(p) \/ PassDoner(p) \/ Done(p)
         \/ Release(Own(p))
  PROVE  \E s : BranchWaits(p, s)
<1>1. Own(p) \in Goroutine /\ Own(p)[1] = "own"
  BY Numbers, Goroutines
<1>2. CASE TakeOnce(p)
  <2>1. BranchWaits(p, "got")
    BY <1>1, <1>2 DEF TakeOnce, Goto, At, BranchWaits, BranchGoes, KidState, Typed, debugger,
                      steppers, births, program
  <2> QED  BY <2>1
<1>3. CASE Ask(p)
  <2>1. BranchWaits(p, "lock") \/ BranchWaits(p, "pass")
    BY <1>1, <1>3 DEF Ask, Goto, At, BranchWaits, BranchGoes, KidState, debugger,
                      steppers, births, program
  <2> QED  BY <2>1
<1>4. CASE PassOnce(p)
  <2>1. BranchWaits(p, "wait")
    BY <1>1, <1>4 DEF PassOnce, Goto, At, BranchWaits, BranchGoes, KidState, debugger,
                      steppers, births, program
  <2> QED  BY <2>1
<1>5. CASE TakeDoner(p)
  <2>1. BranchWaits(p, "back")
    BY <1>1, <1>5 DEF TakeDoner, Goto, At, BranchWaits, BranchGoes, KidState, debugger,
                      steppers, births, program
  <2> QED  BY <2>1
<1>6. CASE PassDoner(p)
  <2>1. BranchWaits(p, "select")
    BY <1>1, <1>6 DEF PassDoner, Goto, At, BranchWaits, BranchGoes, KidState, debugger,
                      steppers, births, program
  <2> QED  BY <2>1
<1>7. CASE Done(p)
  <2>1. BranchWaits(p, "none") \/ BranchWaits(p, "select")
    BY <1>1, <1>7 DEF Done, Goto, At, BranchWaits, BranchGoes, KidState, debugger,
                      steppers, births, program
  <2> QED  BY <2>1
<1>8. CASE Release(Own(p))
  <2>1. BranchWaits(p, "done")
    BY <1>1, <1>8 DEF Release, After, Goto, At, BranchWaits, BranchGoes, KidState, debugger,
                      program
  <2> QED  BY <2>1
<1> QED  BY <1>2, <1>3, <1>4, <1>5, <1>6, <1>7, <1>8

LEMMA BranchGoesEffect ==
  ASSUME Typed, NEW p \in Kid, NEW s, BranchGoes(p, s)
  PROVE  /\ p \in Proc /\ Own(p) \in Goroutine /\ gor'[Own(p)] = s
         /\ gor' \in [Goroutine -> KidState \cup CallState]
         /\ gor'[Own(0)] = gor[Own(0)]
         /\ \A q \in Proc : gor'[Step(q)] = gor[Step(q)]
         /\ \A q \in Proc : q # p => gor'[Own(q)] = gor[Own(q)]
<1>1. p \in Proc /\ p # 0 /\ 0 \in Proc /\ Own(p) \in Goroutine
  BY Numbers, Goroutines
<1>2. /\ gor'[Own(p)] = s /\ \A h \in Goroutine : h # Own(p) => gor'[h] = gor[h]
      /\ gor' \in [Goroutine -> KidState \cup CallState]
  BY <1>1 DEF Typed, BranchGoes
<1>3. /\ \A q \in Proc : Step(q) # Own(p) /\ Step(q) \in Goroutine /\ Own(q) \in Goroutine
      /\ \A q \in Proc : q # p => Own(q) # Own(p)
  BY <1>1, Goroutines
<1> QED  BY <1>1, <1>2, <1>3

LEMMA StepperGoesEffect ==
  ASSUME Typed, NEW p \in Proc, NEW s, StepperGoes(p, s)
  PROVE  /\ Step(p) \in Goroutine /\ gor'[Step(p)] = s
         /\ gor' \in [Goroutine -> KidState \cup CallState]
         /\ \A q \in Proc : gor'[Own(q)] = gor[Own(q)]
         /\ \A q \in Proc : q # p => gor'[Step(q)] = gor[Step(q)]
<1>1. Step(p) \in Goroutine /\ s \in KidState \cup CallState
  BY Goroutines DEF StepperGoes, KidState
<1>2. /\ gor'[Step(p)] = s /\ \A h \in Goroutine : h # Step(p) => gor'[h] = gor[h]
      /\ gor' \in [Goroutine -> KidState \cup CallState]
  BY <1>1 DEF Typed, StepperGoes
<1>3. /\ \A q \in Proc : Own(q) # Step(p) /\ Step(q) \in Goroutine /\ Own(q) \in Goroutine
      /\ \A q \in Proc : q # p => Step(q) # Step(p)
  BY Goroutines
<1> QED  BY <1>1, <1>2, <1>3

\* A branch is born.
LEMMA SpawnEffect ==
  ASSUME Typed, NEW p \in Proc, Spawn(Step(p))
  PROVE  /\ gor[Step(p)] = "spawn"
         /\ UNCHANGED <<debugger, requests, steppers, termproc, exmut, lrev, pc, chain>>
         /\ \E q \in Kid :
               /\ q \in Called(pc[0]) /\ q \notin spawned
               /\ spawned' = spawned \cup {q} /\ newproc' = newproc \cup {q}
               /\ gor' = [gor EXCEPT ![Own(q)] = "select"]
               /\ gor' \in [Goroutine -> KidState \cup CallState]
               /\ gor'[Own(q)] = "select"
               /\ \A r \in Proc : gor'[Step(r)] = gor[Step(r)]
               /\ \A r \in Proc : r # q => gor'[Own(r)] = gor[Own(r)]
<1>1. PICK q \in Called(pc[0]) \ spawned :
        /\ At(Step(p), "spawn")
        /\ spawned' = spawned \cup {q} /\ newproc' = newproc \cup {q}
        /\ Goto(Own(q), "select")
        /\ UNCHANGED <<debugger, requests, steppers, termproc, exmut, lrev, pc, chain>>
  BY DEF Spawn
<1>2. q \in Kid /\ q \in Proc /\ Own(q) \in Goroutine /\ gor' = [gor EXCEPT ![Own(q)] = "select"]
  BY <1>1, Numbers, Goroutines DEF Called, Goto
<1>3. /\ gor'[Own(q)] = "select" /\ \A h \in Goroutine : h # Own(q) => gor'[h] = gor[h]
      /\ gor' \in [Goroutine -> KidState \cup CallState]
  BY <1>2 DEF Typed, KidState
<1>4. /\ \A r \in Proc : Step(r) # Own(q) /\ Step(r) \in Goroutine /\ Own(r) \in Goroutine
      /\ \A r \in Proc : r # q => Own(r) # Own(q)
  BY <1>2, Goroutines
<1> QED  BY <1>1, <1>2, <1>3, <1>4 DEF At

\* A goroutine that breaks the session goes nowhere.
LEMMA BreakEffect ==
  ASSUME Typed, NEW g, ExecAstray(g) \/ ExecOverlap(g)
  PROVE  /\ UNCHANGED <<debugger, requests, births, gor, lrev, program>>
         /\ g[2] \in Proc => waiting' \in [Proc -> Nat]
         /\ g[1] = "own" => waiting' = waiting
<1>1. CASE ExecOverlap(g)
  BY <1>1 DEF ExecOverlap, steppers, Typed
<1>2. CASE ExecAstray(g)
  <2>1. UNCHANGED <<debugger, requests, births, gor, lrev, program>>
    BY <1>2 DEF ExecAstray
  <2>2. g[2] \in Proc => waiting' \in [Proc -> Nat]
    <3>1. \/ waiting' = waiting
          \/ waiting' = [waiting EXCEPT ![g[2]] = @ - 1] /\ waiting[g[2]] > 0
      BY <1>2 DEF ExecAstray, Lock
    <3>2. waiting \in [Proc -> Nat]
      BY DEF Typed
    <3> QED  BY <3>1, <3>2
  <2>3. g[1] = "own" => waiting' = waiting
    BY <1>2 DEF ExecAstray, Lock
  <2> QED  BY <2>1, <2>2, <2>3
<1> QED  BY <1>1, <1>2

\* All the kinds of steps.
LEMMA Kinds ==
  ASSUME Typed, [Next]_vars
  PROVE  \/ UNCHANGED vars
         \/ DbgStep \/ Return
         \/ User
         \/ \E p \in Kid :
               \/ TakeOnce(p) \/ Ask(p) \/ PassOnce(p) \/ TakeDoner(p) \/ PassDoner(p) \/ Done(p)
               \/ Release(Own(p)) \/ ExecAstray(Own(p))
               \/ \E s : BranchExecutes(p, s)
         \/ \E p \in Proc : StepperStep(p)
<1>1. ASSUME NEW p \in Proc, ProcStep(p)
      PROVE  p \in Kid /\ \/ TakeOnce(p) \/ Ask(p) \/ PassOnce(p) \/ TakeDoner(p) \/ PassDoner(p)
                          \/ Done(p) \/ Release(Own(p)) \/ ExecAstray(Own(p))
                          \/ \E s : BranchExecutes(p, s)
  <2>1. p \in Kid
    BY <1>1, MainHasNone, Numbers
  <2> QED  BY <1>1, <2>1, BlockOfBranch DEF ProcStep
<1> QED  BY <1>1 DEF Next, System, Idle, Broken

LEMMA TypedStep ==
  ASSUME Typed, [Next]_vars
  PROVE  Typed'
<1>1. ASSUME UNCHANGED vars PROVE Typed'
  BY <1>1 DEF Typed, vars, debugger, requests, steppers, births, program, At
<1>2. ASSUME NEW p \in Kid, NEW s, BranchGoes(p, s), rundone' \in BOOLEAN,
             runonce' \in {<<>>, <<TRUE>>, <<FALSE>>}, lrev' \in [Goroutine -> BOOLEAN]
      PROVE  Typed'
  <2>1. /\ gor' \in [Goroutine -> KidState \cup CallState]
        /\ gor'[Own(0)] = "none" /\ \A q \in Kid : gor'[Own(q)] \in KidState
    BY <1>2, BranchGoesEffect, Numbers DEF BranchGoes, Typed, At
  <2> QED  BY <1>2, <2>1 DEF Typed, BranchGoes, At
<1>3. ASSUME NEW p \in Kid, NEW s, BranchExecutes(p, s) PROVE Typed'
  BY <1>2, <1>3 DEF BranchExecutes, Typed
<1>4. ASSUME NEW p \in Kid,
             \/ TakeOnce(p) \/ Ask(p) \/ PassOnce(p) \/ TakeDoner(p) \/ PassDoner(p) \/ Done(p)
             \/ Release(Own(p))
      PROVE  Typed'
  <2>1. PICK s : BranchWaits(p, s)
    BY <1>4, BranchMoves
  <2>2. Own(p) \in Goroutine
    BY Numbers, Goroutines
  <2>3. /\ rundone' \in BOOLEAN
        /\ lrev' = lrev \/ (lrev' = [lrev EXCEPT ![Own(p)] = Head(runonce)] /\ runonce # <<>>)
        /\ runonce' = runonce \/ runonce' = <<>> \/ runonce' = <<lrev[Own(p)]>>
    <3>1. rundone \in BOOLEAN
      BY DEF Typed
    <3>2. CASE TakeOnce(p)
      BY <3>1, <3>2 DEF TakeOnce
    <3>3. CASE Ask(p) \/ TakeDoner(p) \/ PassDoner(p)
      BY <3>1, <3>3 DEF Ask, TakeDoner, PassDoner, requests
    <3>4. CASE PassOnce(p)
      BY <3>1, <3>4 DEF PassOnce
    <3>5. CASE Done(p) \/ Release(Own(p))
      BY <3>1, <3>5 DEF Done, Release, After, requests
    <3> QED  BY <1>4, <3>2, <3>3, <3>4, <3>5
  <2>4. runonce # <<>> => Head(runonce) \in BOOLEAN
    <3>1. \A d : Head(<<d>>) = d
      OBVIOUS
    <3>3. CASE runonce = <<TRUE>>
      BY <3>1, <3>3, Zenon
    <3>4. CASE runonce = <<FALSE>>
      BY <3>1, <3>4, Zenon
    <3> QED  BY <3>3, <3>4 DEF Typed
  <2>5. lrev' \in [Goroutine -> BOOLEAN]
    BY <2>3, <2>4 DEF Typed
  <2>6. runonce' \in {<<>>, <<TRUE>>, <<FALSE>>}
    BY <2>2, <2>3 DEF Typed
  <2> QED  BY <1>2, <2>1, <2>3, <2>5, <2>6 DEF BranchWaits
<1>5. ASSUME NEW p \in Proc, NEW s, StepperGoes(p, s), spawned' \subseteq Kid PROVE Typed'
  <2>1. /\ gor' \in [Goroutine -> KidState \cup CallState]
        /\ \A q \in Proc : gor'[Own(q)] = gor[Own(q)]
    BY <1>5, StepperGoesEffect
  <2> QED  BY <1>5, <2>1, Numbers DEF Typed, StepperGoes, At
<1>6. ASSUME NEW p \in Proc, Spawn(Step(p)) PROVE Typed'
  <2>1. PICK q \in Kid :
          /\ spawned' = spawned \cup {q} /\ newproc' = newproc \cup {q}
          /\ gor' \in [Goroutine -> KidState \cup CallState]
          /\ gor'[Own(q)] = "select"
          /\ \A r \in Proc : r # q => gor'[Own(r)] = gor[Own(r)]
    BY <1>6, SpawnEffect
  <2>2. UNCHANGED <<debugger, requests, steppers, lrev>>
    BY <1>6, SpawnEffect
  <2>3. gor'[Own(0)] = gor[Own(0)] /\ \A r \in Kid : gor'[Own(r)] \in KidState
    BY <2>1, Numbers DEF Typed, KidState
  <2> QED  BY <2>1, <2>2, <2>3 DEF Typed, At, debugger, requests, steppers
<1>7. ASSUME NEW p \in Proc, NEW g \in {Own(p), Step(p)}, ExecAstray(g) \/ ExecOverlap(g)
      PROVE  Typed'
  <2>1. g[2] \in Proc
    BY Goroutines
  <2> QED  BY <1>7, <2>1, BreakEffect DEF Typed, At, debugger, requests, births, program
<1>8. \A p \in Kid : p \in Proc
  BY Numbers
<1> QED  BY <1>1, <1>3, <1>4, <1>5, <1>6, <1>7, <1>8, Kinds, DebuggerAside, UserAside, BlockOfStepper

-----------------------------------------------------------------------------
(* How many requests are under way *)

LEMMA CountOfBranch ==
  ASSUME Typed, Counted, NEW p \in Kid, NEW s, BranchGoes(p, s),
         \/ UNCHANGED <<runonce, rundone>> /\ (s \in Holding => gor[Own(p)] \in Holding)
         \/ gor[Own(p)] \notin Holding /\ runonce # <<>> /\ runonce' = <<>> /\ rundone' = rundone
         \/ gor[Own(p)] \in Holding /\ s \notin Holding /\ runonce = <<>> /\ rundone' = rundone
         \/ gor[Own(p)] \in Holding /\ s \notin Holding /\ ~rundone /\ runonce' = runonce
  PROVE  Counted'
<1>0. SUFFICES ASSUME NEW qn \in Int, NEW hn \in Int, NEW an \in Int, NEW dn \in Int,
                      qn = Queued', hn = Hands', an = Answered', dn = DebuggerHolds'
               PROVE  qn + hn + an + dn <= 2 /\ (dbg' = "begin" => qn + hn <= 1)
  BY CountedFrom, Zenon
<1> DEFINE a == IF gor[Own(p)] \in Holding THEN 1 ELSE 0
           b == IF s \in Holding THEN 1 ELSE 0
<1>1. hn = Hands - a + b
  BY <1>0, BranchGoesEffect, HandsMove
<1>2. a \in Int /\ b \in Int /\ 0 <= a /\ 0 <= b /\ a <= 1 /\ b <= 1
  OBVIOUS
<1>3. dbg' = dbg /\ dn = DebuggerHolds
  BY <1>0 DEF BranchGoes, DebuggerHolds
<1>4. 0 <= an /\ an <= 1 /\ 0 <= qn /\ qn <= 1
  <2>1. 0 <= an /\ an <= 1
    BY <1>0, CountsNext
  <2>2. 0 <= qn /\ qn <= 1
    BY <1>0, CountsNext
  <2> QED  BY <2>1, <2>2
<1>5. \/ (b = 1 => a = 1) /\ qn = Queued /\ an = Answered
      \/ Queued = 1 /\ qn = 0 /\ an = Answered
      \/ a = 1 /\ b = 0 /\ Queued = 0 /\ an = Answered
      \/ a = 1 /\ b = 0 /\ qn = Queued /\ Answered = 0
  BY <1>0 DEF Queued, Answered
<1> HIDE DEF a, b
<1>6. qn + hn <= Queued + Hands /\ qn + hn + an <= Queued + Hands + Answered
  BY <1>1, <1>2, <1>4, <1>5, Counts
<1> QED  BY <1>3, <1>6, Counts DEF Counted

\* Goroutines that neither take nor give back a request.
LEMMA CountKept ==
  ASSUME Counted, UNCHANGED <<runonce, rundone, dbg>>,
         \/ \A q \in Proc : gor'[Own(q)] = gor[Own(q)]
         \/ \E p \in Proc : /\ \A q \in Proc : q # p => gor'[Own(q)] = gor[Own(q)]
                           /\ gor'[Own(p)] \notin Holding
  PROVE  Counted'
<1>0. SUFFICES ASSUME NEW qn \in Int, NEW hn \in Int, NEW an \in Int, NEW dn \in Int,
                      qn = Queued', hn = Hands', an = Answered', dn = DebuggerHolds'
               PROVE  qn + hn + an + dn <= 2 /\ (dbg' = "begin" => qn + hn <= 1)
  BY CountedFrom, Zenon
<1>1. hn <= Hands
  <2>1. CASE \A q \in Proc : gor'[Own(q)] = gor[Own(q)]
    BY <1>0, <2>1, HandsStay
  <2>2. ASSUME NEW p \in Proc, \A q \in Proc : q # p => gor'[Own(q)] = gor[Own(q)],
               gor'[Own(p)] \notin Holding
        PROVE  hn <= Hands
    <3>1. hn = Hands - (IF gor[Own(p)] \in Holding THEN 1 ELSE 0) + 0
      BY <1>0, <2>2, HandsMove
    <3> QED  BY <3>1, Counts
  <2> QED  BY <2>1, <2>2
<1>2. qn = Queued /\ an = Answered /\ dn = DebuggerHolds
  BY <1>0 DEF Queued, Answered, DebuggerHolds
<1>3. dbg' = dbg
  OBVIOUS
<1> QED  BY <1>1, <1>2, <1>3, Counts DEF Counted

LEMMA CountOfDebugger ==
  ASSUME Typed, Counted, DbgStep \/ Return
  PROVE  Counted'
<1>0. SUFFICES ASSUME NEW qn \in Int, NEW hn \in Int, NEW an \in Int, NEW dn \in Int,
                      qn = Queued', hn = Hands', an = Answered', dn = DebuggerHolds'
               PROVE  qn + hn + an + dn <= 2 /\ (dbg' = "begin" => qn + hn <= 1)
  BY CountedFrom, Zenon
<1>1. hn = Hands
  BY <1>0, DebuggerAside, HandsStay DEF Aside
<1>2. ASSUME qn <= Queued, an + dn <= Answered + DebuggerHolds, dbg' # "begin"
      PROVE  qn + hn + an + dn <= 2 /\ (dbg' = "begin" => qn + hn <= 1)
  BY <1>1, <1>2, Counts DEF Counted
<1>3. CASE UnclogDone
  <2>1. an = 0 /\ qn = Queued /\ dbg = "begin"
    BY <1>0, <1>3 DEF UnclogDone, Answered, Queued
  <2>2. dn <= 1
    BY <1>0, CountsNext
  <2> QED  BY <1>1, <2>1, <2>2, Counts DEF Counted
<1>4. CASE SendDone
  <2>1. /\ Answered = 0 /\ an = 1 /\ DebuggerHolds = 1 /\ dn = 0 /\ dbg' # "begin" /\ qn = Queued
    BY <1>0, <1>4 DEF SendDone, DebuggerHolds, Answered, Queued
  <2> QED  BY <1>2, <2>1, Counts
<1>5. CASE TakeDone
  <2>1. /\ Answered = 1 /\ an = 0 /\ DebuggerHolds = 0 /\ dn = 1 /\ dbg' # "begin" /\ qn = Queued
    BY <1>0, <1>5 DEF TakeDone, DebuggerHolds, Answered, Queued
  <2> QED  BY <1>2, <2>1, Counts
<1>6. CASE UnclogDoner \/ SendDoner \/ Look \/ SeeChild
  <2>1. an = Answered /\ DebuggerHolds = 1 /\ dbg' # "begin" /\ qn = Queued
    BY <1>0, <1>6 DEF UnclogDoner, SendDoner, Look, SeeChild, DebuggerHolds, Answered, Queued, requests
  <2>2. dn <= 1
    BY <1>0, CountsNext
  <2> QED  BY <1>2, <2>1, <2>2, Counts
<1>7. CASE TakeReturn
  <2>1. an = Answered /\ dn = 0 /\ dbg' # "begin" /\ qn = Queued
    BY <1>0, <1>7 DEF TakeReturn, DebuggerHolds, Answered, Queued, requests
  <2> QED  BY <1>2, <2>1, Counts
<1>8. CASE Return \/ \E p \in Proc : TakeNewproc(p) \/ TakeTermproc(p)
  <2>1. UNCHANGED <<runonce, rundone, dbg>>
    BY <1>8 DEF Return, TakeNewproc, TakeTermproc, requests, debugger
  <2>2. qn = Queued /\ an = Answered /\ dn = DebuggerHolds
    BY <1>0, <2>1 DEF Queued, Answered, DebuggerHolds
  <2>3. dbg' = dbg
    BY <2>1
  <2> QED  BY <1>1, <2>2, <2>3, Counts DEF Counted
<1>9. CASE UnclogOnce
  <2>1. an = Answered /\ DebuggerHolds = 1 /\ dbg' # "begin" /\ qn = 0
    BY <1>0, <1>9 DEF UnclogOnce, DebuggerHolds, Answered, Queued
  <2>2. dn <= 1
    BY <1>0, CountsNext
  <2> QED  BY <1>2, <2>1, <2>2, Counts
<1>10. CASE SendOnce
  <2>1. an = Answered /\ DebuggerHolds = 1 /\ dn = 0 /\ dbg' # "begin" /\ Queued = 0
    BY <1>0, <1>10 DEF SendOnce, DebuggerHolds, Answered, Queued
  <2>2. qn <= 1
    BY <1>0, CountsNext
  <2> QED  BY <1>1, <2>1, <2>2, Counts DEF Counted
<1> QED  BY <1>3, <1>4, <1>5, <1>6, <1>7, <1>8, <1>9, <1>10 DEF DbgStep

LEMMA CountOfUser ==
  ASSUME Typed, Counted, User
  PROVE  Counted'
<1>0. SUFFICES ASSUME NEW qn \in Int, NEW hn \in Int, NEW an \in Int, NEW dn \in Int,
                      qn = Queued', hn = Hands', an = Answered', dn = DebuggerHolds'
               PROVE  qn + hn + an + dn <= 2 /\ (dbg' = "begin" => qn + hn <= 1)
  BY CountedFrom, Zenon
<1>1. UNCHANGED <<runonce, rundone>> /\ hn = Hands
  BY <1>0, UserAside, HandsStay DEF requests
<1>2. dbg = "stopped" /\ dbg' \in {"begin", "stopped"}
  BY DEF User, StepCmd, FocusCmd, Turn, Command
<1>3. DebuggerHolds = 0 /\ dn = 0 /\ qn = Queued /\ an = Answered
  BY <1>0, <1>1, <1>2 DEF DebuggerHolds, Queued, Answered
\* A command to step comes where no process has a request.
<1>4. dbg' = "begin" => Hands = 0
  <2> SUFFICES ASSUME StepCmd PROVE Hands = 0
    BY <1>2 DEF User, FocusCmd, Turn
  <2>1. \A p \in Proc : gor[Own(p)] \in {"none", "call", "select", "wait", "back"}
    BY Goroutines DEF StepCmd, Settled, At
  <2>2. {p \in Proc : gor[Own(p)] \in Holding} = {}
    BY <2>1 DEF Holding
  <2> QED  BY <2>2, FS_EmptySet DEF Hands
<1>5. qn <= 1
  BY <1>0, CountsNext
<1> QED  BY <1>1, <1>3, <1>4, <1>5, Counts DEF Counted

LEMMA CountedStep ==
  ASSUME Typed, Counted, [Next]_vars
  PROVE  Counted'
<1>1. CASE UNCHANGED vars
  BY <1>1, CountKept DEF vars, debugger, requests
<1>2. ASSUME NEW p \in Kid, NEW s, BranchExecutes(p, s) PROVE Counted'
  BY <1>2, CountOfBranch DEF BranchExecutes, At, Holding
<1>3. ASSUME NEW p \in Kid,
             \/ TakeOnce(p) \/ Ask(p) \/ PassOnce(p) \/ TakeDoner(p) \/ PassDoner(p) \/ Done(p)
             \/ Release(Own(p))
      PROVE  Counted'
  <2>1. PICK s : BranchGoes(p, s)
    BY <1>3, BranchMoves DEF BranchWaits
  <2>2. gor'[Own(p)] = s /\ Own(p)[1] = "own" /\ Own(p) \in Goroutine
    BY <2>1, BranchGoesEffect, Goroutines
  <2>3. CASE TakeOnce(p)
    BY <2>1, <2>2, <2>3, CountOfBranch DEF TakeOnce, At, Holding
  <2>4. CASE PassOnce(p)
    BY <2>1, <2>2, <2>4, CountOfBranch DEF PassOnce, At, Goto, Holding, Typed
  <2>5. CASE Done(p)
    BY <2>1, <2>2, <2>5, CountOfBranch DEF Done, At, Goto, Holding, Typed
  <2>6. CASE Ask(p)
    BY <2>1, <2>2, <2>6, CountOfBranch DEF Ask, At, Holding, requests
  <2>7. CASE TakeDoner(p) \/ PassDoner(p)
    BY <2>1, <2>2, <2>7, CountOfBranch DEF TakeDoner, PassDoner, At, Goto, Holding, Typed
  <2>8. CASE Release(Own(p))
    BY <2>1, <2>2, <2>8, CountOfBranch DEF Release, After, At, Holding, requests
  <2> QED  BY <1>3, <2>3, <2>4, <2>5, <2>6, <2>7, <2>8
<1>4. ASSUME NEW g, ExecAstray(g) \/ ExecOverlap(g) PROVE Counted'
  BY <1>4, BreakEffect, CountKept DEF requests, debugger
<1>5. ASSUME NEW p \in Proc, NEW s, StepperGoes(p, s) PROVE Counted'
  BY <1>5, StepperGoesEffect, CountKept DEF StepperGoes
<1>6. ASSUME NEW p \in Proc, Spawn(Step(p)) PROVE Counted'
  <2>1. UNCHANGED <<runonce, rundone, dbg>>
    BY <1>6, SpawnEffect DEF requests, debugger
  <2>2. \E q \in Proc : /\ \A r \in Proc : r # q => gor'[Own(r)] = gor[Own(r)]
                       /\ gor'[Own(q)] \notin Holding
    BY <1>6, SpawnEffect, Numbers DEF Holding
  <2> QED  BY <2>1, <2>2, CountKept
<1> QED  BY <1>1, <1>2, <1>3, <1>4, <1>5, <1>6, Kinds, CountOfDebugger, CountOfUser, BlockOfStepper

LEMMA TypedHolds == Spec => [](Typed /\ Counted)
<1>1. Init => Typed /\ Counted
  <2> SUFFICES ASSUME Init PROVE Typed /\ Counted
    OBVIOUS
  <2>1. Typed
    BY Numbers, Goroutines DEF Init, Typed, At, KidState
  <2>2. \A p \in Proc : gor[Own(p)] = "none"
    BY Goroutines DEF Init
  <2>3. {p \in Proc : gor[Own(p)] \in Holding} = {}
    BY <2>2 DEF Holding
  <2>4. Hands = 0
    BY <2>3, FS_EmptySet DEF Hands
  <2>5. dbg = "stopped" /\ ~rundone
    BY DEF Init
  <2>6. DebuggerHolds = 0 /\ Answered = 0
    BY <2>5 DEF DebuggerHolds, Answered
  <2> QED  BY <2>1, <2>4, <2>6, Counts DEF Counted
<1>2. Typed /\ Counted /\ [Next]_vars => (Typed /\ Counted)'
  BY TypedStep, CountedStep
<1> QED  BY <1>1, <1>2, PTL DEF Spec

\* At most two requests are under way, wherever the focus is (TakeOnce, PassOnce
\* and Done are pc.go:44-65, the debugger is runtime.go:178-252), for any number
\* of branches in any number of calls.
THEOREM TwoRequestsHold == Spec => []TwoRequests
<1>1. Typed /\ Counted => TwoRequests
  BY RequestsAre DEF Counted, TwoRequests
<1> QED  BY <1>1, TypedHolds, PTL

-----------------------------------------------------------------------------
(* The session that leaves the focus on main and does not turn             *)

Ranges ==
    /\ pc \in [Proc -> Int] /\ \A p \in Proc : pc[p] \in 0..Blocks(p)
    /\ chain \in Seq(Node)

\* Nobody but the branches and the debugger for main executes anything, and
\* all in the direction of the session.
Places ==
    /\ focus = 0
    /\ Main \in MainState
    /\ \A p \in Kid : At(Step(p), "none") /\ waiting[p] = 0
    /\ runonce \in {<<>>, <<rev>>}
    /\ \A p \in Kid : gor[Own(p)] \notin {"none", "select"} => lrev[Own(p)] = rev
    /\ waiting[0] > 0 \/ Main # "none" => lrev[Step(0)] = rev

\* The branches are there during their call only.
Branches ==
    /\ \A p \in Kid : ~At(Own(p), "none") => Main \in {"spawn", "call"} /\ p \in spawned
    /\ Main \in CallState => spawned \subseteq Called(pc[0]) /\ Called(pc[0]) # {}
    /\ Main \in {"call", "relock"} => Called(pc[0]) \subseteq spawned

InCall(p) == Main \in CallState /\ p \in spawned

\* Backwards the counter of main is set back where the call begins.
Past(p) == CalledAt[p] < pc[0] \/ (rev /\ Main \in CallState /\ CalledAt[p] = pc[0])

\* A branch that is not in its call is whole.  One that is in its call is not
\* asked beyond its end, and has ended where it is gone; where it waits for the
\* mutex, the answer of isRunnable still holds.
CountersOfBranches ==
    \A p \in Kid :
        /\ ~InCall(p) => pc[p] = IF Past(p) THEN KidBlocks[p] ELSE 0
        /\ InCall(p) /\ At(Own(p), "none") => AtEnd(p, rev)
        /\ gor[Own(p)] \in {"select", "got", "pass", "wait", "back", "lock"} => ~AtEnd(p, rev)
        /\ At(Own(p), "lock") => IsRunnable(p, rev)

\* The DAG holds all blocks of the branches, or those that have been executed.
Chain ==
    \/ \A n \in Node : \E i \in DOMAIN chain : chain[i] = n
    \/ ~rev /\ \A i \in DOMAIN chain : Executed(chain[i])

OnMain == Ranges /\ Places /\ Branches /\ CountersOfBranches /\ Chain

Inv == Typed /\ (target = 0 => OnMain)

\* No block of a branch is executed or undone.
BranchesStay == chain' = chain /\ \A q \in Kid : pc'[q] = pc[q]

LEMMA ChainInNode ==
  ASSUME Ranges
  PROVE  /\ \A i \in DOMAIN chain : chain[i] \in Node
         /\ \A i \in 2..Len(chain) : i \in DOMAIN chain /\ i - 1 \in DOMAIN chain
         /\ Len(chain) \in Nat /\ DOMAIN chain = 1..Len(chain)
BY DEF Ranges

\* A node is a block of a branch.
LEMMA NodeIs ==
  ASSUME NEW n
  PROVE  n \in Node <=> /\ n = <<n[1], n[2]>> /\ n[1] \in Kid
                        /\ n[2] \in Int /\ 0 <= n[2] /\ n[2] < KidBlocks[n[1]]
<1>1. n \in Node <=> \E q \in Kid : n \in {q} \X (0..(KidBlocks[q] - 1))
  BY DEF Node
<1>2. ASSUME NEW q \in Kid
      PROVE  n \in {q} \X (0..(KidBlocks[q] - 1))
             <=> /\ n = <<n[1], n[2]>> /\ n[1] = q
                 /\ n[2] \in Int /\ 0 <= n[2] /\ n[2] < KidBlocks[q]
  <2>1. KidBlocks[q] \in Nat
    BY Numbers
  <2> QED  BY <2>1
<1> QED  BY <1>1, <1>2

LEMMA NodeParts ==
  \A n \in Node : /\ n = <<n[1], n[2]>> /\ n[1] \in Kid /\ n[1] \in Proc
                  /\ n[2] \in Int
BY NodeIs, Numbers

\* What the answers depend on does not change where no branch executes a block.
LEMMA BranchesStayEffect ==
  ASSUME Ranges, rev' = rev, BranchesStay
  PROVE  /\ \A n \in Node : Executed(n)' <=> Executed(n)
         /\ \A p \in Kid : /\ AtEnd(p, rev)' <=> AtEnd(p, rev)
                           /\ IsRunnable(p, rev)' <=> IsRunnable(p, rev)
         /\ Chain => Chain'
<1>1. \A n \in Node : Executed(n)' <=> Executed(n)
  BY NodeParts DEF Executed, BranchesStay
<1>2. ASSUME NEW p \in Kid
      PROVE  /\ AtEnd(p, rev)' <=> AtEnd(p, rev)
             /\ IsRunnable(p, rev)' <=> IsRunnable(p, rev)
  <2>1. pc'[p] = pc[p] /\ chain' = chain
    BY DEF BranchesStay
  <2>2. AtEnd(p, rev)' <=> AtEnd(p, rev)
    BY <2>1 DEF AtEnd, Blocks
  <2>3. NextBlock(p, rev)' = NextBlock(p, rev)
    BY <2>1 DEF NextBlock
  <2>4. \A i \in 2..Len(chain) : /\ Executed(chain[i])' <=> Executed(chain[i])
                                 /\ Executed(chain[i - 1])' <=> Executed(chain[i - 1])
    BY <1>1, <2>1, ChainInNode
  <2>5. IsRunnable(p, rev)' <=> IsRunnable(p, rev)
    BY <2>1, <2>3, <2>4 DEF IsRunnable
  <2> QED  BY <2>2, <2>5
<1>3. Chain => Chain'
  <2>1. \A i \in DOMAIN chain : Executed(chain[i])' <=> Executed(chain[i])
    BY <1>1, ChainInNode DEF BranchesStay
  <2> QED  BY <2>1 DEF Chain, BranchesStay
<1> QED  BY <1>1, <1>2, <1>3

\* Outside of calls nobody is there but main.
LEMMA Outside ==
  ASSUME OnMain, Main = "none"
  PROVE  /\ \A p \in Kid : At(Own(p), "none") /\ ~InCall(p)
         /\ \A p \in Kid : pc[p] = IF CalledAt[p] < pc[0] THEN KidBlocks[p] ELSE 0
BY DEF OnMain, Branches, CountersOfBranches, InCall, Past, CallState

\* A branch that is there is in its call.
LEMMA DuringCall ==
  ASSUME OnMain, NEW p \in Kid, ~At(Own(p), "none")
  PROVE  InCall(p) /\ Main \in {"spawn", "call"} /\ p \in spawned
BY DEF OnMain, Branches, InCall, CallState

-----------------------------------------------------------------------------
(* The debugger, the user, and goroutines that break the session           *)

LEMMA AsideSafe ==
  ASSUME Typed, OnMain, UNCHANGED <<rev, gor, pc, spawned, chain>>, Places'
  PROVE  OnMain' /\ BranchesStay
<1>1. /\ rev' = rev /\ gor' = gor /\ pc' = pc /\ spawned' = spawned /\ chain' = chain
      /\ Main' = Main /\ BranchesStay
  BY DEF Main, BranchesStay
<1>2. Ranges'
  BY <1>1 DEF OnMain, Ranges
<1>3. Branches'
  BY <1>1 DEF OnMain, Branches, At, Called
<1>4. \A p \in Kid : (InCall(p)' <=> InCall(p)) /\ (Past(p)' <=> Past(p))
  BY <1>1 DEF InCall, Past
<1>5. CountersOfBranches'
  BY <1>1, <1>4, BranchesStayEffect DEF OnMain, CountersOfBranches, At
<1>6. Chain'
  BY <1>1, BranchesStayEffect DEF OnMain
<1> QED  BY <1>1, <1>2, <1>3, <1>5, <1>6 DEF OnMain

LEMMA DebuggerSafe ==
  ASSUME Typed, OnMain, target = 0, DbgStep \/ Return
  PROVE  OnMain' /\ BranchesStay
<1>1. /\ UNCHANGED <<rev, gor, pc, spawned, chain>> /\ Main' = Main
  BY DebuggerAside DEF Aside, Main
<1>2. Places /\ waiting \in [Proc -> Nat] /\ lrev \in [Goroutine -> BOOLEAN]
  BY DEF OnMain, Typed
<1>3. ASSUME focus' = 0, runonce' \in {<<>>, <<rev>>}, waiting' = waiting, lrev' = lrev
      PROVE  Places'
  BY <1>1, <1>2, <1>3 DEF Places, At
<1>4. ASSUME \/ UnclogDone \/ SendDone \/ TakeDone \/ UnclogDoner \/ SendDoner \/ TakeReturn
             \/ SeeChild \/ UnclogOnce \/ Return
      PROVE  Places'
  <2>1. focus' = 0 /\ runonce' \in {<<>>, <<rev>>} /\ waiting' = waiting /\ lrev' = lrev
    BY <1>2, <1>4 DEF UnclogDone, SendDone, TakeDone, UnclogDoner, SendDoner, TakeReturn, SeeChild,
                  UnclogOnce, Return, Places, debugger, requests, steppers
  <2> QED  BY <1>3, <2>1
<1>5. ASSUME SendOnce PROVE Places'
  <2>1. focus' = 0 /\ runonce' \in {<<>>, <<rev>>} /\ waiting' = waiting /\ lrev' = lrev
    BY <1>2, <1>5 DEF SendOnce, Places, steppers
  <2> QED  BY <1>3, <2>1
<1>6. ASSUME NEW p \in Proc, TakeNewproc(p) \/ TakeTermproc(p) PROVE Places'
  <2>1. focus' = 0 /\ runonce' \in {<<>>, <<rev>>} /\ waiting' = waiting /\ lrev' = lrev
    BY <1>2, <1>6 DEF TakeNewproc, TakeTermproc, Places, requests, steppers
  <2> QED  BY <1>3, <2>1
<1>7. ASSUME Look PROVE Places'
  <2>1. /\ focus' = 0 /\ focus = 0 /\ runonce' = runonce
        /\ \/ waiting' = [waiting EXCEPT ![0] = @ + 1] /\ lrev' = [lrev EXCEPT ![Step(0)] = rev]
           \/ waiting' = waiting /\ lrev' = lrev
    BY <1>2, <1>7 DEF Look, Places, requests
  <2>2. /\ \A p \in Kid : waiting'[p] = waiting[p] /\ lrev'[Own(p)] = lrev[Own(p)]
        /\ lrev'[Step(0)] = rev \/ (lrev' = lrev /\ waiting' = waiting)
    <3>1. /\ 0 \in Proc /\ Step(0) \in Goroutine
          /\ \A p \in Kid : p \in Proc /\ p # 0 /\ Own(p) \in Goroutine /\ Own(p) # Step(0)
      BY Numbers, Goroutines
    <3> QED  BY <1>2, <2>1, <3>1
  <2> QED  BY <1>1, <1>2, <2>1, <2>2 DEF Places, At
<1>8. Places'
  BY <1>4, <1>5, <1>6, <1>7 DEF DbgStep
<1> QED  BY <1>1, <1>8, AsideSafe

LEMMA UserSafe ==
  ASSUME Typed, OnMain, Turning = FALSE, target' = 0, User
  PROVE  OnMain' /\ BranchesStay
<1>1. rev' = rev
  BY StepAssumption DEF User, StepCmd, FocusCmd, Turn
<1>2. UNCHANGED <<runonce, waiting, gor, lrev, pc, spawned, chain, focus>> /\ Main' = Main
  BY UserAside DEF requests, steppers, program, Main
<1>3. Places'
  BY <1>1, <1>2 DEF OnMain, Places, At
<1> QED  BY <1>1, <1>2, <1>3, AsideSafe

LEMMA BreakSafe ==
  ASSUME Typed, OnMain, NEW g \in Goroutine, ExecAstray(g) \/ ExecOverlap(g)
  PROVE  OnMain' /\ BranchesStay
<1>1. UNCHANGED <<rev, focus, runonce, gor, lrev, pc, spawned, chain>> /\ Main' = Main
  BY BreakEffect DEF requests, debugger, program, Main
<1>2. \A p \in Proc : waiting'[p] \in Nat /\ (waiting'[p] > 0 => waiting[p] > 0)
  <2>1. waiting \in [Proc -> Nat]
    BY DEF Typed
  <2>2. waiting' = waiting \/ (waiting' = [waiting EXCEPT ![g[2]] = @ - 1] /\ waiting[g[2]] > 0)
    BY DEF ExecAstray, ExecOverlap, Lock, steppers
  <2>3. g[2] \in Proc
    BY Goroutines
  <2> QED  BY <2>1, <2>2, <2>3
<1>3. \A p \in Kid : waiting'[p] = 0
  BY <1>2, Numbers DEF OnMain, Places, Typed
<1>4. Places'
  BY <1>1, <1>2, <1>3, Numbers DEF OnMain, Places, At
<1> QED  BY <1>1, <1>4, AsideSafe

-----------------------------------------------------------------------------
(* Branches between two blocks                                             *)

LEMMA BranchKeepsPlaces ==
  ASSUME Typed, OnMain, NEW p \in Kid, NEW s, BranchGoes(p, s), runonce' \in {<<>>, <<rev>>},
         s \in {"none", "select"} \/ lrev'[Own(p)] = rev, pc'[0] = pc[0]
  PROVE  /\ Places' /\ Branches' /\ Main' = Main
         /\ \A q \in Kid : (InCall(q)' <=> InCall(q)) /\ (Past(q)' <=> Past(q))
<1>1. /\ p \in Proc /\ gor'[Own(p)] = s
      /\ \A q \in Kid : gor'[Step(q)] = gor[Step(q)]
      /\ \A q \in Kid : q # p => gor'[Own(q)] = gor[Own(q)]
      /\ gor'[Step(0)] = gor[Step(0)]
      /\ UNCHANGED <<rev, focus, waiting, spawned>>
  BY BranchGoesEffect, Numbers DEF BranchGoes
<1>2. Main' = Main
  BY <1>1 DEF Main
<1>3. /\ Step(0) \in Goroutine /\ Step(0) # Own(p)
      /\ \A q \in Kid : q # p => Own(q) \in Goroutine /\ Own(q) # Own(p)
  BY Goroutines, Numbers
<1>4. /\ lrev'[Step(0)] = lrev[Step(0)]
      /\ \A q \in Kid : q # p => lrev'[Own(q)] = lrev[Own(q)]
  BY <1>3 DEF BranchGoes
<1>5. Places'
  BY <1>1, <1>2, <1>4 DEF OnMain, Places, At
<1>6. ~At(Own(p), "none")
  BY DEF BranchGoes, At
<1>7. Branches'
  BY <1>1, <1>2, <1>6 DEF OnMain, Branches, At, Called
<1>8. \A q \in Kid : (InCall(q)' <=> InCall(q)) /\ (Past(q)' <=> Past(q))
  BY <1>1, <1>2 DEF InCall, Past
<1> QED  BY <1>2, <1>5, <1>7, <1>8

LEMMA BranchWaitsSafe ==
  ASSUME Typed, OnMain, NEW p \in Kid, NEW s, BranchWaits(p, s), runonce' \in {<<>>, <<rev>>},
         s \in {"none", "select"} \/ lrev'[Own(p)] = rev,
         s = "none" => AtEnd(p, rev),
         s \in {"none", "block", "done"} \/ ~AtEnd(p, rev),
         s = "lock" => IsRunnable(p, rev)
  PROVE  OnMain' /\ BranchesStay
<1>1. BranchGoes(p, s) /\ pc' = pc /\ chain' = chain /\ BranchesStay /\ rev' = rev
  BY DEF BranchWaits, BranchGoes, BranchesStay
<1>2. /\ Places' /\ Branches'
      /\ \A q \in Kid : (InCall(q)' <=> InCall(q)) /\ (Past(q)' <=> Past(q))
  BY <1>1, BranchKeepsPlaces
<1>3. /\ gor'[Own(p)] = s
      /\ \A q \in Kid : q # p => gor'[Own(q)] = gor[Own(q)]
  BY <1>1, BranchGoesEffect, Numbers
<1>4. Ranges'
  BY <1>1 DEF OnMain, Ranges
<1>5. /\ Chain'
      /\ \A q \in Kid : /\ AtEnd(q, rev)' <=> AtEnd(q, rev)
                        /\ IsRunnable(q, rev)' <=> IsRunnable(q, rev)
  BY <1>1, BranchesStayEffect DEF OnMain
<1>6. InCall(p)
  BY <1>1, DuringCall DEF BranchGoes, At
<1>7. CountersOfBranches'
  <2> SUFFICES ASSUME NEW q \in Kid
               PROVE  (/\ ~InCall(q) => pc[q] = IF Past(q) THEN KidBlocks[q] ELSE 0
                       /\ InCall(q) /\ At(Own(q), "none") => AtEnd(q, rev)
                       /\ gor[Own(q)] \in {"select", "got", "pass", "wait", "back", "lock"}
                            => ~AtEnd(q, rev)
                       /\ At(Own(q), "lock") => IsRunnable(q, rev))'
    BY DEF CountersOfBranches
  <2>1. CASE q = p
    BY <1>2, <1>3, <1>5, <1>6, <2>1 DEF At
  <2>2. CASE q # p
    BY <1>1, <1>2, <1>3, <1>5, <2>2 DEF At, OnMain, CountersOfBranches
  <2> QED  BY <2>1, <2>2
<1> QED  BY <1>1, <1>2, <1>4, <1>5, <1>7 DEF OnMain

LEMMA BranchMovesSafe ==
  ASSUME Typed, OnMain, NEW p \in Kid,
         \/ TakeOnce(p) \/ Ask(p) \/ PassOnce(p) \/ TakeDoner(p) \/ PassDoner(p) \/ Done(p)
         \/ Release(Own(p))
  PROVE  OnMain' /\ BranchesStay
<1>1. PICK s : BranchWaits(p, s)
  BY BranchMoves
<1>2. /\ gor'[Own(p)] = s /\ gor[Own(p)] # "none" /\ Own(p) \in Goroutine /\ Own(p)[1] = "own"
      /\ lrev \in [Goroutine -> BOOLEAN]
  BY <1>1, BranchGoesEffect, Goroutines DEF BranchWaits, BranchGoes, Typed
<1>3. /\ runonce \in {<<>>, <<rev>>}
      /\ gor[Own(p)] # "select" => lrev[Own(p)] = rev
  BY <1>2 DEF OnMain, Places
<1>4. gor \in [Goroutine -> KidState \cup CallState]
  BY DEF Typed
<1>5. CASE TakeOnce(p)
  <2>1. s = "got" /\ runonce' = <<>> /\ ~AtEnd(p, rev)
    BY <1>2, <1>4, <1>5 DEF TakeOnce, Goto, At, OnMain, CountersOfBranches
  <2>2. Head(<<rev>>) = rev
    OBVIOUS
  <2>3. lrev'[Own(p)] = rev
    <3>1. lrev' = [lrev EXCEPT ![Own(p)] = Head(runonce)] /\ runonce = <<rev>>
      BY <1>3, <1>5 DEF TakeOnce
    <3>2. Head(runonce) = rev
      BY <2>2, <3>1, Zenon
    <3> QED  BY <1>2, <3>1, <3>2
  <2> QED  BY <1>1, <2>1, <2>3, BranchWaitsSafe
<1>6. CASE Ask(p)
  <2>1. /\ lrev' = lrev /\ runonce' = runonce /\ lrev[Own(p)] = rev /\ ~AtEnd(p, rev)
        /\ (s = "lock" /\ IsRunnable(p, rev)) \/ s = "pass"
    BY <1>2, <1>3, <1>4, <1>6 DEF Ask, Goto, At, OnMain, CountersOfBranches, requests
  <2> QED  BY <1>1, <1>3, <2>1, BranchWaitsSafe
<1>7. CASE PassOnce(p)
  <2>1. /\ lrev' = lrev /\ lrev[Own(p)] = rev /\ runonce' = <<rev>> /\ ~AtEnd(p, rev) /\ s = "wait"
    BY <1>2, <1>3, <1>4, <1>7 DEF PassOnce, Goto, At, OnMain, CountersOfBranches
  <2> QED  BY <1>1, <2>1, BranchWaitsSafe
<1>8. CASE TakeDoner(p) \/ PassDoner(p)
  <2>1. /\ lrev' = lrev /\ runonce' = runonce /\ lrev[Own(p)] = rev /\ ~AtEnd(p, rev)
        /\ s \in {"back", "select"}
    BY <1>2, <1>3, <1>4, <1>8 DEF TakeDoner, PassDoner, Goto, At, OnMain, CountersOfBranches
  <2> QED  BY <1>1, <1>3, <2>1, BranchWaitsSafe
<1>9. CASE Done(p)
  <2>1. /\ lrev' = lrev /\ runonce' = runonce /\ lrev[Own(p)] = rev
        /\ (s = "none" /\ AtEnd(p, rev)) \/ (s = "select" /\ ~AtEnd(p, rev))
    BY <1>2, <1>3, <1>4, <1>9 DEF Done, Goto, At
  <2> QED  BY <1>1, <1>3, <2>1, BranchWaitsSafe
<1>10. CASE Release(Own(p))
  <2>1. /\ lrev' = lrev /\ runonce' = runonce /\ lrev[Own(p)] = rev /\ s = "done"
    BY <1>2, <1>3, <1>4, <1>10 DEF Release, After, Goto, At, requests
  <2> QED  BY <1>1, <1>3, <2>1, BranchWaitsSafe
<1> QED  BY <1>5, <1>6, <1>7, <1>8, <1>9, <1>10

-----------------------------------------------------------------------------
(* Blocks of branches                                                      *)

LEMMA BranchAdvances ==
  ASSUME OnMain, NEW p \in Kid, NEW s, BranchExecutes(p, s), NEW r, r = rev
  PROVE  /\ Advance(p, r) /\ lrev[Own(p)] = r /\ rev' = r
         /\ ~AtEnd(p, r) /\ IsRunnable(p, r) /\ InCall(p)
         /\ pc' \in [Proc -> Int] /\ \A q \in Proc : pc'[q] \in 0..Blocks(q)
         /\ pc'[p] = IF r THEN pc[p] - 1 ELSE pc[p] + 1
         /\ \A q \in Proc : q # p => pc'[q] = pc[q]
         /\ pc[p] \in Int
         /\ NextBlock(p, r) \in Node
         /\ chain' \in Seq(Node)
<1>1. /\ p \in Proc /\ p # 0 /\ Blocks(p) = KidBlocks[p] /\ KidBlocks[p] \in Nat
  BY Numbers
<1>2. At(Own(p), "lock") /\ BranchGoes(p, s) /\ Advance(p, lrev[Own(p)])
  BY DEF BranchExecutes
<1>3. /\ lrev[Own(p)] = r /\ Advance(p, r) /\ rev' = r /\ IsRunnable(p, r) /\ ~AtEnd(p, r)
  BY <1>2 DEF OnMain, Places, CountersOfBranches, At, BranchGoes
<1>4. InCall(p)
  BY <1>2, DuringCall DEF At
<1>5. pc \in [Proc -> Int] /\ \A q \in Proc : pc[q] \in 0..Blocks(q)
  BY DEF OnMain, Ranges
<1>6. pc[p] \in 0..KidBlocks[p] /\ (IF r THEN pc[p] # 0 ELSE pc[p] # KidBlocks[p])
  BY <1>1, <1>3, <1>5 DEF AtEnd
<1>7. /\ pc' \in [Proc -> Int]
      /\ pc'[p] = IF r THEN pc[p] - 1 ELSE pc[p] + 1
      /\ \A q \in Proc : q # p => pc'[q] = pc[q]
  BY <1>1, <1>3, <1>5 DEF Advance
<1>8. \A q \in Proc : pc'[q] \in 0..Blocks(q)
  BY <1>1, <1>5, <1>6, <1>7
<1>9. NextBlock(p, r) \in Node
  <2>1. /\ NextBlock(p, r)[1] = p /\ NextBlock(p, r)[2] = (IF r THEN pc[p] - 1 ELSE pc[p])
        /\ NextBlock(p, r) = <<NextBlock(p, r)[1], NextBlock(p, r)[2]>>
    BY DEF NextBlock
  <2> QED  BY <1>1, <1>6, <2>1, NodeIs
<1>10. chain' \in Seq(Node)
  BY <1>3, <1>9 DEF OnMain, Ranges, Advance
<1> QED  BY <1>1, <1>3, <1>4, <1>5, <1>7, <1>8, <1>9, <1>10

\* What the chain is after a block, for each direction.
LEMMA ChainAdvances ==
  ASSUME OnMain, NEW p \in Kid, NEW s, BranchExecutes(p, s), NEW n, n = NextBlock(p, rev)
  PROVE  /\ rev => chain' = chain
         /\ chain' = chain \/ (chain' = Append(chain, n) /\ ~\E i \in DOMAIN chain : chain[i] = n)
         /\ ~rev => \E i \in DOMAIN chain' : chain'[i] = n
<1>1. Advance(p, rev) /\ p # 0 /\ chain \in Seq(Node)
  BY BranchAdvances, Numbers DEF OnMain, Ranges
<1>2. chain' = IF rev \/ \E i \in DOMAIN chain : chain[i] = n THEN chain ELSE Append(chain, n)
  BY <1>1 DEF Advance
<1>3. /\ DOMAIN Append(chain, n) = 1..(Len(chain) + 1) /\ Append(chain, n)[Len(chain) + 1] = n
      /\ Len(chain) \in Nat
  BY <1>1
<1> QED  BY <1>2, <1>3

\* Forwards a block more is executed, backwards one less.
ExecutedThen(d) == d[2] < pc'[d[1]]

LEMMA ExecutedNext ==
  ASSUME OnMain, NEW p \in Kid, NEW s, BranchExecutes(p, s), NEW n, n = NextBlock(p, rev)
  PROVE  /\ n \in Node /\ n[1] = p
         /\ rev  => Executed(n) /\ ~ExecutedThen(n)
         /\ ~rev => ~Executed(n) /\ ExecutedThen(n)
         /\ \A d \in Node : d # n => (ExecutedThen(d) <=> Executed(d))
<1>1. /\ pc'[p] = IF rev THEN pc[p] - 1 ELSE pc[p] + 1
      /\ \A q \in Proc : q # p => pc'[q] = pc[q]
      /\ n \in Node /\ pc[p] \in Int
  BY BranchAdvances
<1>2. n[1] = p /\ n[2] = IF rev THEN pc[p] - 1 ELSE pc[p]
  BY DEF NextBlock
<1>3. /\ rev  => Executed(n) /\ ~ExecutedThen(n)
      /\ ~rev => ~Executed(n) /\ ExecutedThen(n)
  BY <1>1, <1>2 DEF Executed, ExecutedThen
<1>4. ASSUME NEW d \in Node, d # n PROVE ExecutedThen(d) <=> Executed(d)
  <2>1. d = <<d[1], d[2]>> /\ n = <<n[1], n[2]>> /\ d[1] \in Proc /\ d[2] \in Int
    BY <1>1, NodeParts
  <2>2. CASE d[1] # p
    BY <1>1, <2>1, <2>2 DEF Executed, ExecutedThen
  <2>3. CASE d[1] = p
    <3>1. d[2] # n[2]
      BY <1>2, <1>4, <2>1, <2>3
    <3> QED  BY <1>1, <1>2, <2>1, <2>3, <3>1 DEF Executed, ExecutedThen
  <2> QED  BY <2>2, <2>3
<1> QED  BY <1>1, <1>2, <1>3, <1>4

\* What isRunnable has allowed one branch no block of another takes back.
LEMMA OthersStayRunnable ==
  ASSUME OnMain, NEW p \in Kid, NEW s, BranchExecutes(p, s),
         NEW q \in Kid, q # p, IsRunnable(q, rev)
  PROVE  IsRunnable(q, rev)'
<1> SUFFICES ASSUME NEW n, n = NextBlock(p, rev), NEW m, m = NextBlock(q, rev)
             PROVE  IsRunnable(q, rev)'
  OBVIOUS
<1>1. rev' = rev /\ pc'[q] = pc[q] /\ m = NextBlock(q, rev)'
  BY BranchAdvances, Numbers DEF NextBlock
<1>2. /\ rev  => ~ExecutedThen(n)
      /\ ~rev => ExecutedThen(n)
      /\ \A d \in Node : d # n => (ExecutedThen(d) <=> Executed(d))
      /\ n[1] = p
  BY ExecutedNext
<1>3. /\ rev => chain' = chain
      /\ chain' = chain \/ chain' = Append(chain, n)
  BY ChainAdvances
<1>4. chain \in Seq(Node)
  BY DEF OnMain, Ranges
<1>5. m # n
  <2>1. m[1] = q
    BY DEF NextBlock
  <2> QED  BY <1>2, <2>1
<1>6. CASE rev
  <2>1. pc[q] > 0 /\ \A i \in 2..Len(chain) : chain[i - 1] = m => ~Executed(chain[i])
    BY <1>6 DEF IsRunnable
  <2>2. \A i \in 2..Len(chain) : chain[i] \in Node
    BY <1>4
  <2>3. \A i \in 2..Len(chain) : chain[i - 1] = m => ~ExecutedThen(chain[i])
    BY <1>2, <1>6, <2>1, <2>2
  <2>4. chain' = chain
    BY <1>3, <1>6
  <2> QED  BY <1>1, <1>6, <2>1, <2>3, <2>4 DEF IsRunnable, Executed, ExecutedThen
<1>7. CASE ~rev
  <2>1. \A i \in 2..Len(chain) : chain[i] = m => Executed(chain[i - 1])
    BY <1>7 DEF IsRunnable
  <2>2. ASSUME NEW i \in 2..Len(chain'), chain'[i] = m PROVE ExecutedThen(chain'[i - 1])
    <3>1. i \in 2..Len(chain) /\ chain'[i] = chain[i] /\ chain'[i - 1] = chain[i - 1]
      BY <1>3, <1>4, <1>5, <2>2
    <3>2. Executed(chain[i - 1]) /\ chain[i - 1] \in Node
      BY <1>4, <2>1, <2>2, <3>1
    <3>3. ExecutedThen(chain[i - 1])
      BY <1>2, <1>7, <3>2
    <3> QED  BY <3>1, <3>3
  <2> QED  BY <1>1, <1>7, <2>2 DEF IsRunnable, Executed, ExecutedThen
<1> QED  BY <1>6, <1>7

LEMMA BranchExecutesSafe ==
  ASSUME Typed, OnMain, NEW p \in Kid, NEW s, BranchExecutes(p, s)
  PROVE  OnMain'
<1> SUFFICES ASSUME NEW n, n = NextBlock(p, rev)
             PROVE  OnMain'
  OBVIOUS
<1>1. /\ BranchGoes(p, s) /\ s \in {"done", "block"} /\ runonce' = runonce /\ lrev' = lrev
  BY DEF BranchExecutes
<1>2. /\ lrev[Own(p)] = rev /\ rev' = rev /\ InCall(p)
      /\ pc' \in [Proc -> Int] /\ \A q \in Proc : pc'[q] \in 0..Blocks(q)
      /\ \A q \in Proc : q # p => pc'[q] = pc[q]
      /\ chain' \in Seq(Node)
  BY BranchAdvances
<1>3. /\ gor'[Own(p)] = s
      /\ \A q \in Kid : q # p => gor'[Own(q)] = gor[Own(q)]
  BY <1>1, BranchGoesEffect, Numbers
<1>4. pc'[0] = pc[0]
  BY <1>2, Numbers
<1>5. /\ Places' /\ Branches'
      /\ \A q \in Kid : (InCall(q)' <=> InCall(q)) /\ (Past(q)' <=> Past(q))
  BY <1>1, <1>2, <1>4, BranchKeepsPlaces DEF OnMain, Places
<1>6. Ranges'
  BY <1>2 DEF Ranges
<1>7. CountersOfBranches'
  <2> SUFFICES ASSUME NEW q \in Kid
               PROVE  (/\ ~InCall(q) => pc[q] = IF Past(q) THEN KidBlocks[q] ELSE 0
                       /\ InCall(q) /\ At(Own(q), "none") => AtEnd(q, rev)
                       /\ gor[Own(q)] \in {"select", "got", "pass", "wait", "back", "lock"}
                            => ~AtEnd(q, rev)
                       /\ At(Own(q), "lock") => IsRunnable(q, rev))'
    BY DEF CountersOfBranches
  <2>1. CASE q = p
    BY <1>1, <1>2, <1>3, <1>5, <2>1 DEF At
  <2>2. CASE q # p
    <3>1. pc'[q] = pc[q] /\ gor'[Own(q)] = gor[Own(q)]
      BY <1>2, <1>3, <2>2, Numbers
    <3>2. AtEnd(q, rev)' <=> AtEnd(q, rev)
      BY <1>2, <3>1 DEF AtEnd, Blocks
    <3>3. IsRunnable(q, rev) => IsRunnable(q, rev)'
      BY <2>2, OthersStayRunnable
    <3> QED  BY <1>5, <3>1, <3>2, <3>3 DEF At, OnMain, CountersOfBranches
  <2> QED  BY <2>1, <2>2
<1>8. Chain'
  <2>1. chain' = chain \/ (chain' = Append(chain, n) /\ ~\E i \in DOMAIN chain : chain[i] = n)
    BY ChainAdvances
  <2>2. n \in Node /\ (~rev => ExecutedThen(n))
        /\ \A d \in Node : d # n => (ExecutedThen(d) <=> Executed(d))
    BY ExecutedNext
  <2>3. chain \in Seq(Node)
    BY DEF OnMain, Ranges
  <2>4. CASE \A d \in Node : \E i \in DOMAIN chain : chain[i] = d
    <3>1. chain' = chain
      BY <2>1, <2>2, <2>4
    <3> QED  BY <2>4, <3>1 DEF Chain
  <2>5. CASE ~rev /\ \A i \in DOMAIN chain : Executed(chain[i])
    <3>1. ASSUME NEW i \in DOMAIN chain' PROVE ExecutedThen(chain'[i])
      <4>1. chain'[i] = n \/ (i \in DOMAIN chain /\ chain'[i] = chain[i] /\ chain[i] \in Node)
        BY <2>1, <2>3
      <4> QED  BY <2>2, <2>5, <4>1
    <3> QED  BY <1>2, <2>5, <3>1 DEF Chain, Executed, ExecutedThen
  <2> QED  BY <2>4, <2>5 DEF OnMain, Chain
<1> QED  BY <1>5, <1>6, <1>7, <1>8 DEF OnMain

-----------------------------------------------------------------------------
(* The debugger's goroutine in a block of main                             *)

LEMMA MainMoves ==
  ASSUME Typed, OnMain, NEW s \in MainState, StepperGoes(0, s),
         chain' = chain, pc' \in [Proc -> Int], pc'[0] \in 0..MainBlocks,
         \A q \in Kid : pc'[q] = pc[q],
         waiting' = waiting \/ (waiting' = [waiting EXCEPT ![0] = @ - 1] /\ waiting[0] > 0),
         waiting[0] > 0 \/ Main # "none"
  PROVE  /\ Ranges' /\ Places' /\ Chain' /\ BranchesStay /\ rev' = rev
         /\ Main' = s /\ \A q \in Kid : gor'[Own(q)] = gor[Own(q)]
         /\ \A q \in Kid : /\ AtEnd(q, rev)' <=> AtEnd(q, rev)
                           /\ IsRunnable(q, rev)' <=> IsRunnable(q, rev)
<1>0. 0 \in Proc /\ \A q \in Kid : q \in Proc /\ q # 0
  BY Numbers
<1>1. /\ gor'[Step(0)] = s /\ \A q \in Kid : gor'[Own(q)] = gor[Own(q)]
      /\ \A q \in Kid : gor'[Step(q)] = gor[Step(q)]
  BY <1>0, StepperGoesEffect
<1>2. Main' = s
  BY <1>1 DEF Main
<1>3. rev' = rev /\ focus' = focus /\ runonce' = runonce /\ lrev' = lrev
  BY DEF StepperGoes
<1>4. BranchesStay
  BY DEF BranchesStay
<1>5. Ranges'
  <2>1. \A q \in Proc : pc'[q] \in 0..Blocks(q)
    BY Numbers DEF OnMain, Ranges
  <2> QED  BY <2>1 DEF OnMain, Ranges
<1>6. /\ Chain'
      /\ \A q \in Kid : /\ AtEnd(q, rev)' <=> AtEnd(q, rev)
                        /\ IsRunnable(q, rev)' <=> IsRunnable(q, rev)
  BY <1>3, <1>4, BranchesStayEffect DEF OnMain
<1>7. \A q \in Kid : waiting'[q] = waiting[q]
  BY <1>0 DEF Typed
<1>8. Places'
  BY <1>1, <1>2, <1>3, <1>7 DEF OnMain, Places, At
<1> QED  BY <1>1, <1>2, <1>3, <1>4, <1>5, <1>6, <1>8

\* The branches are as they were, and those that were in their call still are.
LEMMA BranchesAsBefore ==
  ASSUME OnMain, rev' = rev, BranchesStay, \A q \in Kid : gor'[Own(q)] = gor[Own(q)],
         \A q \in Kid : /\ AtEnd(q, rev)' <=> AtEnd(q, rev)
                        /\ IsRunnable(q, rev)' <=> IsRunnable(q, rev),
         \A q \in Kid : ~InCall(q)' => ~InCall(q) /\ (Past(q)' <=> Past(q)),
         \A q \in Kid : InCall(q)' => InCall(q)
  PROVE  CountersOfBranches'
<1> SUFFICES ASSUME NEW q \in Kid
             PROVE  (/\ ~InCall(q) => pc[q] = IF Past(q) THEN KidBlocks[q] ELSE 0
                     /\ InCall(q) /\ At(Own(q), "none") => AtEnd(q, rev)
                     /\ gor[Own(q)] \in {"select", "got", "pass", "wait", "back", "lock"}
                          => ~AtEnd(q, rev)
                     /\ At(Own(q), "lock") => IsRunnable(q, rev))'
  BY DEF CountersOfBranches
<1> QED  BY DEF OnMain, CountersOfBranches, At, BranchesStay

\* A block of main that is no call.
LEMMA MainExecSafe ==
  ASSUME Typed, OnMain, Exec(Step(0))
  PROVE  OnMain' /\ BranchesStay
<1>0. Step(0) \in Goroutine /\ Step(0)[2] = 0 /\ Step(0)[1] = "step" /\ 0 \in Proc
      /\ Own(0) # Step(0)
  BY Numbers, Goroutines
<1>1. Main = "none" /\ waiting[0] > 0 /\ waiting' = [waiting EXCEPT ![0] = @ - 1]
  BY <1>0 DEF Exec, Lock, At, Main
<1>2. lrev[Step(0)] = rev
  BY <1>1 DEF OnMain, Places
<1>3. /\ ~IsCall(0, rev) /\ ~AtEnd(0, rev)
      /\ pc' = [pc EXCEPT ![0] = IF rev THEN @ - 1 ELSE @ + 1] /\ chain' = chain
      /\ spawned' = spawned
  BY <1>0, <1>2 DEF Exec, Advance
<1>4. pc \in [Proc -> Int] /\ pc[0] \in 0..MainBlocks /\ Blocks(0) = MainBlocks
      /\ MainBlocks \in Nat
  BY <1>0, Numbers DEF OnMain, Ranges
<1>5. /\ pc' \in [Proc -> Int] /\ \A q \in Kid : pc'[q] = pc[q]
      /\ pc'[0] = IF rev THEN pc[0] - 1 ELSE pc[0] + 1
  BY <1>0, <1>3, <1>4, Numbers
<1>6. pc'[0] \in 0..MainBlocks
  BY <1>3, <1>4, <1>5 DEF AtEnd
<1>7. StepperGoes(0, "none")
  <2>1. waiting' \in [Proc -> Nat]
    BY <1>0, <1>1 DEF Typed
  <2> QED  BY <1>0, <2>1 DEF Exec, After, Goto, StepperGoes, debugger, requests, births
<1>8. /\ Ranges' /\ Places' /\ Chain' /\ BranchesStay /\ rev' = rev
      /\ Main' = "none" /\ \A q \in Kid : gor'[Own(q)] = gor[Own(q)]
      /\ \A q \in Kid : /\ AtEnd(q, rev)' <=> AtEnd(q, rev)
                        /\ IsRunnable(q, rev)' <=> IsRunnable(q, rev)
  <2>1. "none" \in MainState
    BY DEF MainState
  <2> QED  BY <1>1, <1>3, <1>5, <1>6, <1>7, <2>1, MainMoves
<1>9. \A q \in Kid : /\ CalledAt[q] # (IF rev THEN pc[0] - 1 ELSE pc[0])
                     /\ CalledAt[q] \in Nat
  BY <1>3, Numbers DEF IsCall, NextBlock, Called
<1>10. \A q \in Kid : ~InCall(q) /\ ~InCall(q)' /\ (Past(q)' <=> Past(q))
  <2>1. \A q \in Kid : CalledAt[q] < pc'[0] <=> CalledAt[q] < pc[0]
    BY <1>4, <1>5, <1>9
  <2> QED  BY <1>1, <1>8, <2>1 DEF InCall, Past, CallState
<1>11. CountersOfBranches'
  BY <1>8, <1>10, BranchesAsBefore
<1>12. Branches'
  BY <1>1, <1>8, Outside DEF Branches, At, CallState
<1> QED  BY <1>8, <1>11, <1>12 DEF OnMain

LEMMA CallBeginSafe ==
  ASSUME Typed, OnMain, CallBegin(Step(0))
  PROVE  OnMain' /\ BranchesStay
<1>0. Step(0) \in Goroutine /\ Step(0)[2] = 0 /\ Step(0)[1] = "step" /\ 0 \in Proc
  BY Numbers, Goroutines
<1>1. Main = "none" /\ waiting[0] > 0 /\ waiting' = [waiting EXCEPT ![0] = @ - 1]
  BY <1>0 DEF CallBegin, Lock, At, Main
<1>2. lrev[Step(0)] = rev
  BY <1>1 DEF OnMain, Places
<1>3. /\ IsCall(0, rev) /\ spawned' = {} /\ chain' = chain
      /\ pc' = [pc EXCEPT ![0] = IF rev THEN @ - 1 ELSE @]
  BY <1>0, <1>2 DEF CallBegin
<1>4. pc \in [Proc -> Int] /\ pc[0] \in 0..MainBlocks /\ MainBlocks \in Nat
  BY <1>0, Numbers DEF OnMain, Ranges
<1>5. /\ pc' \in [Proc -> Int] /\ \A q \in Kid : pc'[q] = pc[q]
      /\ pc'[0] = IF rev THEN pc[0] - 1 ELSE pc[0]
  BY <1>0, <1>3, <1>4, Numbers
<1>6. Called(pc'[0]) # {} /\ pc'[0] \in 0..MainBlocks
  <2>1. Called(pc'[0]) # {}
    BY <1>3, <1>5 DEF IsCall, NextBlock
  <2>2. PICK q \in Kid : CalledAt[q] = pc'[0]
    BY <2>1 DEF Called
  <2> QED  BY <2>1, <2>2, Numbers
<1>7. StepperGoes(0, "spawn")
  <2>1. waiting' \in [Proc -> Nat]
    BY <1>0, <1>1 DEF Typed
  <2> QED  BY <1>0, <2>1 DEF CallBegin, Goto, StepperGoes, CallState, debugger, requests, births
<1>8. /\ Ranges' /\ Places' /\ Chain' /\ BranchesStay /\ rev' = rev
      /\ Main' = "spawn" /\ \A q \in Kid : gor'[Own(q)] = gor[Own(q)]
      /\ \A q \in Kid : /\ AtEnd(q, rev)' <=> AtEnd(q, rev)
                        /\ IsRunnable(q, rev)' <=> IsRunnable(q, rev)
  <2>1. "spawn" \in MainState
    BY DEF MainState, CallState
  <2> QED  BY <1>1, <1>3, <1>5, <1>6, <1>7, <2>1, MainMoves
<1>9. \A q \in Kid : ~InCall(q) /\ ~InCall(q)' /\ (Past(q)' <=> Past(q))
  <2>1. \A q \in Kid : CalledAt[q] \in Nat
    BY Numbers
  <2>2. \A q \in Kid : (CalledAt[q] < pc'[0] \/ (rev /\ CalledAt[q] = pc'[0])) <=> CalledAt[q] < pc[0]
    BY <1>4, <1>5, <2>1
  <2> QED  BY <1>1, <1>3, <1>8, <2>2 DEF InCall, Past, CallState
<1>10. CountersOfBranches'
  BY <1>8, <1>9, BranchesAsBefore
<1>11. Branches'
  BY <1>1, <1>3, <1>6, <1>8, Outside DEF Branches, At, CallState, Called
<1> QED  BY <1>8, <1>10, <1>11 DEF OnMain

LEMMA CallGoesOnSafe ==
  ASSUME Typed, OnMain, CallUnlock(Step(0)) \/ Join(Step(0))
  PROVE  OnMain' /\ BranchesStay
<1> SUFFICES ASSUME NEW s, s = IF CallUnlock(Step(0)) THEN "call" ELSE "relock"
             PROVE  OnMain' /\ BranchesStay
  OBVIOUS
<1>1. /\ Main \in CallState /\ s \in CallState
      /\ UNCHANGED <<pc, chain, spawned, waiting>>
      /\ gor' = [gor EXCEPT ![Step(0)] = s]
      /\ UNCHANGED <<rev, dbg, focus, runonce, rundone, newproc, lrev, broken>>
      /\ s = "call" => Main = "spawn" /\ spawned = Called(pc[0])
      /\ s = "relock" => Main = "call" /\ \A q \in spawned : At(Own(q), "none")
  <2>1. CASE CallUnlock(Step(0))
    BY <2>1 DEF CallUnlock, Goto, At, Main, CallState, debugger, requests, steppers, births, program
  <2>2. CASE ~CallUnlock(Step(0)) /\ Join(Step(0))
    BY <2>2 DEF Join, Goto, At, Main, CallState, debugger, requests, steppers, births, program
  <2> QED  BY <2>1, <2>2
<1>2. StepperGoes(0, s) /\ s \in MainState
  BY <1>1 DEF StepperGoes, Typed, MainState
<1>3. /\ pc' \in [Proc -> Int] /\ pc'[0] \in 0..MainBlocks /\ \A q \in Kid : pc'[q] = pc[q]
  BY <1>1, Numbers DEF OnMain, Ranges
<1>4. /\ Ranges' /\ Places' /\ Chain' /\ BranchesStay /\ rev' = rev
      /\ Main' = s /\ \A q \in Kid : gor'[Own(q)] = gor[Own(q)]
      /\ \A q \in Kid : /\ AtEnd(q, rev)' <=> AtEnd(q, rev)
                        /\ IsRunnable(q, rev)' <=> IsRunnable(q, rev)
  <2>1. Main # "none"
    BY <1>1 DEF CallState
  <2> QED  BY <1>1, <1>2, <1>3, <2>1, MainMoves
<1>5. \A q \in Kid : (InCall(q)' <=> InCall(q)) /\ (Past(q)' <=> Past(q))
  BY <1>1, <1>4 DEF InCall, Past
<1>6. CountersOfBranches'
  BY <1>4, <1>5, BranchesAsBefore
<1>7. Branches'
  <2>1. /\ Main \in CallState /\ spawned' = spawned /\ Called(pc[0])' = Called(pc[0])
        /\ spawned \subseteq Called(pc[0]) /\ Called(pc[0]) # {}
        /\ Called(pc[0]) \subseteq spawned
    BY <1>1 DEF OnMain, Branches, Called, CallState
  <2>2. \A q \in Kid : ~At(Own(q), "none")' => Main' \in {"spawn", "call"} /\ q \in spawned'
    <3>1. CASE s = "call"
      BY <1>1, <1>4, <3>1 DEF OnMain, Branches, At
    <3>2. CASE s = "relock"
      BY <1>1, <1>4, <3>2 DEF OnMain, Branches, At
    <3> QED  BY <1>1, <3>1, <3>2 DEF CallState
  <2> QED  BY <2>1, <2>2 DEF Branches
<1> QED  BY <1>4, <1>6, <1>7 DEF OnMain

\* The call is over: its branches are at their end.
LEMMA CallEndSafe ==
  ASSUME Typed, OnMain, CallEnd(Step(0))
  PROVE  OnMain' /\ BranchesStay
<1>0. Step(0) \in Goroutine /\ Step(0)[2] = 0 /\ Step(0)[1] = "step" /\ 0 \in Proc
  BY Numbers, Goroutines
<1>1. /\ Main = "relock" /\ waiting' = waiting /\ spawned' = spawned /\ chain' = chain
  BY DEF CallEnd, At, Main
<1>2. lrev[Step(0)] = rev
  BY <1>1 DEF OnMain, Places
<1>3. pc' = [pc EXCEPT ![0] = IF rev THEN @ ELSE @ + 1]
  BY <1>2 DEF CallEnd
<1>4. pc \in [Proc -> Int] /\ pc[0] \in 0..MainBlocks /\ MainBlocks \in Nat
  BY <1>0, Numbers DEF OnMain, Ranges
<1>5. /\ pc' \in [Proc -> Int] /\ \A q \in Kid : pc'[q] = pc[q]
      /\ pc'[0] = IF rev THEN pc[0] ELSE pc[0] + 1
  BY <1>0, <1>3, <1>4, Numbers
<1>6. /\ spawned = Called(pc[0]) /\ Called(pc[0]) # {}
      /\ \A q \in Kid : At(Own(q), "none")
  BY <1>1 DEF OnMain, Branches, CallState
<1>7. pc'[0] \in 0..MainBlocks
  <2>1. PICK q \in Kid : CalledAt[q] = pc[0]
    BY <1>6 DEF Called
  <2> QED  BY <1>4, <1>5, <2>1, Numbers
<1>8. StepperGoes(0, "none")
  BY <1>0, <1>1 DEF CallEnd, After, Goto, StepperGoes, Typed, debugger, requests, births
<1>9. /\ Ranges' /\ Places' /\ Chain' /\ BranchesStay /\ rev' = rev
      /\ Main' = "none" /\ \A q \in Kid : gor'[Own(q)] = gor[Own(q)]
      /\ \A q \in Kid : /\ AtEnd(q, rev)' <=> AtEnd(q, rev)
                        /\ IsRunnable(q, rev)' <=> IsRunnable(q, rev)
  <2>1. "none" \in MainState /\ Main # "none"
    BY <1>1 DEF MainState
  <2> QED  BY <1>1, <1>5, <1>7, <1>8, <2>1, MainMoves
<1>10. Branches'
  BY <1>6, <1>9 DEF Branches, At, CallState
<1>11. CountersOfBranches'
  <2> SUFFICES ASSUME NEW q \in Kid
               PROVE  pc'[q] = IF CalledAt[q] < pc'[0] THEN KidBlocks[q] ELSE 0
    BY <1>6, <1>9 DEF CountersOfBranches, At, InCall, Past, CallState
  <2>1. CalledAt[q] \in Nat /\ Blocks(q) = KidBlocks[q]
    BY Numbers
  <2>2. CASE q \in spawned
    <3>1. CalledAt[q] = pc[0] /\ AtEnd(q, rev)
      BY <1>1, <1>6, <2>2 DEF Called, InCall, CallState, OnMain, CountersOfBranches
    <3> QED  BY <1>4, <1>5, <2>1, <3>1 DEF AtEnd
  <2>3. CASE q \notin spawned
    <3>1. CalledAt[q] # pc[0]
      BY <1>6, <2>3 DEF Called
    <3>2. pc[q] = IF CalledAt[q] < pc[0] THEN KidBlocks[q] ELSE 0
      BY <2>3, <3>1 DEF InCall, Past, OnMain, CountersOfBranches
    <3>3. CalledAt[q] < pc'[0] <=> CalledAt[q] < pc[0]
      BY <1>4, <1>5, <2>1, <3>1
    <3> QED  BY <1>5, <3>2, <3>3
  <2> QED  BY <2>2, <2>3
<1> QED  BY <1>9, <1>10, <1>11 DEF OnMain

\* A branch is born whole, with all of its blocks to come.
LEMMA SpawnSafe ==
  ASSUME Typed, OnMain, Spawn(Step(0))
  PROVE  OnMain' /\ BranchesStay
<1>0. 0 \in Proc
  BY Numbers
<1>1. /\ Main = "spawn" /\ BranchesStay
      /\ UNCHANGED <<rev, focus, runonce, waiting, lrev, pc, chain>>
  BY <1>0, SpawnEffect DEF Main, BranchesStay, debugger, requests, steppers
<1>2. PICK p \in Kid :
        /\ p \in Called(pc[0]) /\ p \notin spawned
        /\ spawned' = spawned \cup {p}
        /\ gor'[Own(p)] = "select"
        /\ \A r \in Proc : gor'[Step(r)] = gor[Step(r)]
        /\ \A r \in Proc : r # p => gor'[Own(r)] = gor[Own(r)]
  BY <1>0, SpawnEffect
<1>3. /\ Main' = "spawn" /\ \A q \in Kid : gor'[Step(q)] = gor[Step(q)]
      /\ \A q \in Kid : q # p => gor'[Own(q)] = gor[Own(q)]
  BY <1>0, <1>1, <1>2, Numbers DEF Main
<1>4. Ranges'
  BY <1>1 DEF OnMain, Ranges
<1>5. Places'
  BY <1>1, <1>2, <1>3 DEF OnMain, Places, At
<1>6. Branches'
  BY <1>1, <1>2, <1>3 DEF OnMain, Branches, At, CallState, Called
<1>7. /\ Chain'
      /\ \A q \in Kid : /\ AtEnd(q, rev)' <=> AtEnd(q, rev)
                        /\ IsRunnable(q, rev)' <=> IsRunnable(q, rev)
  BY <1>1, BranchesStayEffect DEF OnMain
<1>8. ~AtEnd(p, rev)
  <2>1. CalledAt[p] = pc[0] /\ ~InCall(p) /\ (Past(p) <=> rev)
    BY <1>1, <1>2, Numbers DEF Called, InCall, Past, CallState, Typed, OnMain, Ranges
  <2>2. pc[p] = IF rev THEN KidBlocks[p] ELSE 0
    BY <2>1 DEF OnMain, CountersOfBranches
  <2> QED  BY <2>2, Numbers DEF AtEnd
<1>9. CountersOfBranches'
  <2> SUFFICES ASSUME NEW q \in Kid
               PROVE  (/\ ~InCall(q) => pc[q] = IF Past(q) THEN KidBlocks[q] ELSE 0
                       /\ InCall(q) /\ At(Own(q), "none") => AtEnd(q, rev)
                       /\ gor[Own(q)] \in {"select", "got", "pass", "wait", "back", "lock"}
                            => ~AtEnd(q, rev)
                       /\ At(Own(q), "lock") => IsRunnable(q, rev))'
    BY DEF CountersOfBranches
  <2>1. CASE q = p
    BY <1>1, <1>2, <1>3, <1>7, <1>8, <2>1 DEF At, InCall, CallState
  <2>2. CASE q # p
    <3>1. /\ gor'[Own(q)] = gor[Own(q)] /\ pc'[q] = pc[q]
          /\ (InCall(q)' <=> InCall(q)) /\ (Past(q)' <=> Past(q))
      BY <1>1, <1>2, <1>3, <2>2 DEF InCall, Past
    <3> QED  BY <1>7, <3>1 DEF At, OnMain, CountersOfBranches
  <2> QED  BY <2>1, <2>2
<1> QED  BY <1>1, <1>4, <1>5, <1>6, <1>7, <1>9 DEF OnMain

LEMMA StepperSafe ==
  ASSUME Typed, OnMain, NEW p \in Proc, StepperStep(p)
  PROVE  OnMain' /\ BranchesStay
<1>1. /\ Step(p) \in Goroutine /\ Step(p)[1] = "step" /\ Step(p)[2] = p
  BY Goroutines
<1>2. CASE p = 0
  <2>1. Main \in MainState
    BY DEF OnMain, Places
  <2>2. ~ExecLast(Step(0)) /\ ~Release(Step(0))
    BY <1>1, <1>2, <2>1 DEF ExecLast, Release, IsLastOfKid, At, Main, MainState, CallState
  <2> QED  BY <1>1, <1>2, <2>2, MainExecSafe, CallBeginSafe, SpawnSafe, CallGoesOnSafe, CallEndSafe,
              BreakSafe DEF StepperStep, ExecuteBlock
<1>3. CASE p # 0
  <2>1. gor[Step(p)] = "none" /\ ~(waiting[p] > 0)
    BY <1>3, Numbers DEF OnMain, Places, At
  <2> QED  BY <1>1, <2>1 DEF StepperStep, ExecuteBlock, Exec, ExecLast, Release, ExecAstray,
              ExecOverlap, CallBegin, Spawn, CallUnlock, Join, CallEnd, Lock, At
<1> QED  BY <1>2, <1>3

LEMMA StepSafe ==
  ASSUME Typed, OnMain, target = 0, target' = 0, Turning = FALSE, [Next]_vars
  PROVE  /\ OnMain'
         /\ BranchesStay \/ \E p \in Kid : \E s : BranchExecutes(p, s)
<1>1. ASSUME UNCHANGED vars PROVE OnMain' /\ BranchesStay
  <2>1. /\ UNCHANGED <<rev, gor, pc, spawned, chain, focus, runonce, waiting, lrev>>
        /\ Main' = Main
    BY <1>1 DEF vars, debugger, requests, steppers, program, Main
  <2>2. Places'
    BY <2>1 DEF OnMain, Places, At
  <2> QED  BY <2>1, <2>2, AsideSafe
<1>2. \A p \in Kid : Own(p) \in Goroutine
  BY Goroutines, Numbers
<1> QED  BY <1>1, <1>2, Kinds, DebuggerSafe, UserSafe, BranchMovesSafe, BreakSafe,
            BranchExecutesSafe, StepperSafe

\* The focus never comes back to main, and it moves where nothing else does.
LEMMA FocusMoves ==
  ASSUME [Next]_vars
  PROVE  target' = target \/ (target' # 0 /\ BranchesStay)
<1>1. User => target' = target \/ (target' # 0 /\ program' = program)
  BY StepAssumption DEF User, StepCmd, FocusCmd, Turn
<1>2. program' = program => BranchesStay
  BY DEF program, BranchesStay
<1> QED
  BY <1>1, <1>2 DEF vars, debugger, Next, System, DbgStep, UnclogDone, SendDone, TakeDone, UnclogDoner,
         SendDoner, Look, TakeReturn, SeeChild, UnclogOnce, SendOnce, TakeNewproc, TakeTermproc,
         Return, ProcStep, StepperStep, TakeOnce, Ask, PassOnce, TakeDoner, PassDoner, Done,
         ExecuteBlock, Exec, ExecLast, Release, ExecAstray, ExecOverlap, CallBegin, Spawn,
         CallUnlock, Join, CallEnd, Idle, Broken

-----------------------------------------------------------------------------
(* The session begins as the invariant says.                               *)

LEMMA NodesFinite == IsFiniteSet(Node)
<1> DEFINE Of == [q \in Kid |-> {q} \X (0..(KidBlocks[q] - 1))]
           All == {Of[q] : q \in Kid}
<1>1. IsFiniteSet(Kid)
  BY Numbers, FS_Interval DEF Kid
<1>2. Of \in Surjection(Kid, All)
  BY DEF Surjection
<1>3. IsFiniteSet(All)
  <2> HIDE DEF Of, All
  <2> QED  BY <1>1, <1>2, FS_Surjection
<1>4. ASSUME NEW q \in Kid PROVE IsFiniteSet(Of[q])
  <2>1. IsFiniteSet(0..(KidBlocks[q] - 1))
    <3>1. 0 \in Int /\ KidBlocks[q] - 1 \in Int
      BY Numbers
    <3> QED  BY <3>1, FS_Interval
  <2>2. IsFiniteSet({q} \X (0..(KidBlocks[q] - 1)))
    BY <2>1, FS_Singleton, FS_Product
  <2> QED  BY <2>2
<1>5. \A S \in All : IsFiniteSet(S)
  BY <1>4
<1>6. IsFiniteSet(UNION All)
  <2> HIDE DEF Of, All
  <2> QED  BY <1>3, <1>5, FS_UNION
<1>7. Node = UNION All
  BY DEF Node
<1> QED  BY <1>6, <1>7

\* An order of all blocks leaves none out.
LEMMA OrdersAreFull ==
  ASSUME NEW o \in Orders
  PROVE  o \in Seq(Node) /\ \A n \in Node : \E i \in DOMAIN o : o[i] = n
<1> DEFINE c == Cardinality(Node)
<1>1. IsFiniteSet(Node)
  BY NodesFinite
<1>2. c \in Nat
  BY <1>1, FS_CardinalityType
<1>3. /\ o \in [1..c -> Node]
      /\ \A i, j \in 1..c : i < j => o[i] # o[j]
  BY DEF Orders
<1> HIDE DEF c
<1>4. o \in Seq(Node)
  BY <1>2, <1>3
<1>5. \A i, j \in 1..c : o[i] = o[j] => i = j
  BY <1>2, <1>3
<1>6. o \in Injection(1..c, Node)
  BY <1>3, <1>5 DEF Injection, IsInjective
<1>7. Cardinality(1..c) = c
  BY <1>2, FS_Interval
<1>8. o \in Surjection(1..c, Node)
  BY <1>1, <1>6, <1>7, FS_Injection DEF c
<1> QED  BY <1>3, <1>4, <1>8 DEF Surjection

LEMMA InitSafe ==
  ASSUME Init
  PROVE  OnMain
<1>1. gor = [g \in Goroutine |-> "none"]
      /\ pc = [p \in Proc |-> IF rev THEN Blocks(p) ELSE 0] /\ rev \in BOOLEAN
      /\ spawned = {} /\ focus = 0 /\ runonce = <<>> /\ waiting = [p \in Proc |-> 0]
  BY DEF Init
<1>2. /\ Main = "none" /\ \A p \in Proc : gor[Own(p)] = "none" /\ gor[Step(p)] = "none"
  BY <1>1, Goroutines, Numbers DEF Main
<1>3. chain \in Orders \/ (~rev /\ chain = <<>>)
  BY <1>1 DEF Init
<1>4. Chain /\ chain \in Seq(Node)
  <2>1. CASE chain \in Orders
    BY <2>1, OrdersAreFull DEF Chain
  <2>2. CASE ~rev /\ chain = <<>>
    BY <2>2 DEF Chain
  <2> QED  BY <1>3, <2>1, <2>2
<1>5. \A p \in Proc : Blocks(p) \in Nat
  BY Numbers DEF Blocks
<1>6. Ranges
  BY <1>1, <1>4, <1>5 DEF Ranges
<1>7. Places
  BY <1>1, <1>2, Numbers DEF Places, At, MainState
<1>8. Branches
  BY <1>2, Numbers DEF Branches, At, CallState
<1>9. CountersOfBranches
  <2> SUFFICES ASSUME NEW p \in Kid
               PROVE  pc[p] = IF CalledAt[p] < pc[0] THEN KidBlocks[p] ELSE 0
    BY <1>2, Numbers DEF CountersOfBranches, At, InCall, Past, CallState
  <2> QED  BY <1>1, Numbers
<1> QED  BY <1>4, <1>6, <1>7, <1>8, <1>9 DEF OnMain

-----------------------------------------------------------------------------
(* What follows from the invariant                                         *)

LEMMA InvHolds ==
  ASSUME Turning = FALSE
  PROVE  Spec => []Inv
<1>1. Init => Inv
  <2> SUFFICES ASSUME Init PROVE Inv
    OBVIOUS
  <2>1. Typed
    BY Numbers, Goroutines DEF Init, Typed, At, KidState
  <2> QED  BY <2>1, InitSafe DEF Inv
<1>2. Inv /\ [Next]_vars => Inv'
  BY TypedStep, FocusMoves, StepSafe DEF Inv
<1> QED  BY <1>1, <1>2, PTL DEF Spec

\* While the focus is on main and the session does not turn, no branch stops
\* half way (pc.go:46 and runtime.go:598), for any number of branches in any
\* number of calls, and whatever requests and results earlier steps have left.
THEOREM BranchesStayWhole ==
  ASSUME Turning = FALSE
  PROVE  Spec => []BranchesWhole
<1>1. Inv => BranchesWhole
  BY Outside DEF Inv, BranchesWhole, Main, At
<1> QED  BY <1>1, InvHolds, PTL

-----------------------------------------------------------------------------
(* Steps in causal order                                                   *)

Executeds == {n \in Node : Executed(n)}
Uses      == {<<chain[i], chain[i - 1]>> : i \in 2..Len(chain)}

LEMMA BranchesStayCausally ==
  ASSUME BranchesStay
  PROVE  UNCHANGED Causal!vars
<1>1. \A n \in Node : n[1] \in Kid /\ pc'[n[1]] = pc[n[1]]
  BY NodeParts DEF BranchesStay
<1>2. Executeds' = Executeds
  BY <1>1 DEF Executeds, Executed
<1>3. Uses' = Uses
  BY DEF BranchesStay, Uses
<1> QED  BY <1>2, <1>3 DEF Causal!vars, Executeds, Uses

\* A block is executed after all that its DAG edges lead to, and undone before.
LEMMA BranchExecutesCausally ==
  ASSUME OnMain, NEW p \in Kid, NEW s, BranchExecutes(p, s)
  PROVE  Causal!Next
<1> SUFFICES ASSUME NEW n, n = NextBlock(p, rev)
             PROVE  Causal!Next
  OBVIOUS
<1>1. /\ IsRunnable(p, rev) /\ pc[p] \in Int
      /\ pc'[p] = IF rev THEN pc[p] - 1 ELSE pc[p] + 1
  BY BranchAdvances
<1>2. /\ n \in Node /\ n[1] = p
      /\ rev  => Executed(n) /\ ~ExecutedThen(n)
      /\ ~rev => ~Executed(n) /\ ExecutedThen(n)
      /\ \A d \in Node : d # n => (ExecutedThen(d) <=> Executed(d))
  BY ExecutedNext
<1>3. /\ rev => chain' = chain
      /\ chain' = chain \/ (chain' = Append(chain, n) /\ ~\E i \in DOMAIN chain : chain[i] = n)
  BY ChainAdvances
<1>4. chain \in Seq(Node) /\ Chain
  BY DEF OnMain, Ranges
<1>5. n[2] = IF rev THEN pc[p] - 1 ELSE pc[p]
  BY DEF NextBlock
<1>6. /\ \A d \in Node : d \in Executeds <=> Executed(d)
      /\ \A d \in Node : d \in Executeds' <=> ExecutedThen(d)
      /\ Executeds \subseteq Node /\ Executeds' \subseteq Node
  BY DEF Executeds, Executed, ExecutedThen
<1>7. CASE rev
  <2>1. n \in Executeds /\ Executeds' = Executeds \ {n}
    BY <1>2, <1>6, <1>7
  <2>2. \A d \in Node : d[1] = n[1] /\ d[2] > n[2] => d \notin Executeds
    <3> SUFFICES ASSUME NEW d \in Node, d[1] = n[1], d[2] > n[2] PROVE ~Executed(d)
      BY <1>6
    <3>1. d[2] \in Int
      BY NodeParts
    <3> QED  BY <1>1, <1>2, <1>5, <1>7, <3>1 DEF Executed
  <2>3. \A d \in Executeds : <<d, n>> \notin Uses
    <3>1. \A i \in 2..Len(chain) : chain[i - 1] = n => ~Executed(chain[i])
      BY <1>1, <1>7 DEF IsRunnable
    <3> QED  BY <3>1 DEF Uses, Executeds
  <2>4. Uses' = Uses
    BY <1>3, <1>7 DEF Uses
  <2>5. Causal!Undo(n)
    BY <2>1, <2>2, <2>3, <2>4 DEF Causal!Undo, Causal!Later, Executeds, Uses
  <2> QED  BY <1>2, <2>5 DEF Causal!Next
<1>8. CASE ~rev
  <2>1. n \notin Executeds /\ Executeds' = Executeds \cup {n}
    BY <1>2, <1>6, <1>8
  <2>2. \A d \in Node : d[1] = n[1] /\ d[2] < n[2] => d \in Executeds
    <3> SUFFICES ASSUME NEW d \in Node, d[1] = n[1], d[2] < n[2] PROVE Executed(d)
      BY <1>6
    <3> QED  BY <1>2, <1>5, <1>8 DEF Executed
  <2>3. /\ Uses \subseteq Uses'
        /\ \A u \in Uses' : u \in Uses \/ \E d \in Executeds : u = <<n, d>>
        /\ \A d \in Node : <<n, d>> \in Uses' => d \in Executeds
    <3>1. \A i \in 2..Len(chain) : /\ i \in DOMAIN chain /\ i - 1 \in DOMAIN chain
                                   /\ chain[i] \in Node /\ chain[i - 1] \in Node
      BY <1>4
    <3>2. CASE chain' = chain
      <4>1. Uses' = Uses
        BY <3>2 DEF Uses
      <4>2. \A i \in 2..Len(chain) : chain[i] = n => Executed(chain[i - 1])
        BY <1>1, <1>8 DEF IsRunnable
      <4>3. \A d \in Node : <<n, d>> \in Uses => d \in Executeds
        BY <4>2, <3>1 DEF Uses, Executeds
      <4> QED  BY <4>1, <4>3
    <3>3. CASE chain' = Append(chain, n) /\ ~\E i \in DOMAIN chain : chain[i] = n
      <4>1. \A i \in DOMAIN chain : Executed(chain[i])
        BY <1>2, <1>4, <3>3 DEF Chain
      <4>2. /\ \A i \in DOMAIN chain : chain'[i] = chain[i]
            /\ Len(chain') = Len(chain) + 1 /\ chain'[Len(chain')] = n
            /\ Len(chain) \in Nat /\ DOMAIN chain = 1..Len(chain)
        BY <1>2, <1>4, <3>3
      <4>3. Uses \subseteq Uses'
        <5> SUFFICES ASSUME NEW i \in 2..Len(chain)
                     PROVE  <<chain[i], chain[i - 1]>> \in Uses'
          BY DEF Uses
        <5>1. i \in 2..Len(chain') /\ chain'[i] = chain[i] /\ chain'[i - 1] = chain[i - 1]
          BY <3>1, <4>2
        <5>2. <<chain'[i], chain'[i - 1]>> \in Uses'
          BY <5>1 DEF Uses
        <5> QED  BY <5>1, <5>2
      <4>4. ASSUME NEW i \in 2..Len(chain')
            PROVE  \/ <<chain'[i], chain'[i - 1]>> \in Uses /\ chain'[i] # n
                   \/ chain'[i] = n /\ chain'[i - 1] \in Executeds
        <5>1. CASE i \in 2..Len(chain)
          <6>1. chain'[i] = chain[i] /\ chain'[i - 1] = chain[i - 1] /\ chain[i] # n
            BY <3>1, <3>3, <4>2, <5>1
          <6>2. <<chain[i], chain[i - 1]>> \in Uses
            BY <5>1 DEF Uses
          <6> QED  BY <6>1, <6>2
        <5>2. CASE i = Len(chain')
          <6>1. i - 1 \in DOMAIN chain
            BY <4>2, <5>2
          <6>2. chain'[i - 1] = chain[i - 1] /\ chain[i - 1] \in Node
            BY <1>4, <4>2, <6>1
          <6>3. chain[i - 1] \in Executeds
            BY <4>1, <6>1, <6>2 DEF Executeds
          <6> QED  BY <4>2, <5>2, <6>2, <6>3
        <5> QED  BY <4>2, <5>1, <5>2
      <4>5. \A u \in Uses' : \E i \in 2..Len(chain') : u = <<chain'[i], chain'[i - 1]>>
        BY DEF Uses
      <4>6. \A u \in Uses' : u \in Uses \/ \E d \in Executeds : u = <<n, d>>
        BY <4>4, <4>5
      <4>7. \A d \in Node : <<n, d>> \in Uses' => d \in Executeds
        BY <4>4, <4>5
      <4> QED  BY <4>3, <4>6, <4>7
    <3> QED  BY <1>3, <3>2, <3>3
  <2>4. Causal!Observe(n)
    BY <2>1, <2>2, <2>3 DEF Causal!Observe, Causal!Earlier, Executeds, Uses
  <2>5. Causal!Do(n)
    BY <2>1, <2>3, <2>4 DEF Causal!Do, Causal!UsedBy, Executeds, Uses
  <2> QED  BY <1>2, <2>5 DEF Causal!Next
<1> QED  BY <1>7, <1>8

\* While the focus is on main and the session does not turn, every step executes
\* or undoes a block as CausalExecution allows, or none.  isRunnable is asked
\* without the mutex (pc.go:46), and other branches, which a request left behind
\* has reached, may execute blocks before the mutex is got.
THEOREM StepsAreCausal ==
  ASSUME Turning = FALSE
  PROVE  Spec => StepsFollowCausalOrder
<1>1. Inv /\ [Next]_vars => [target = 0 => Causal!Next]_Causal!vars
  <2> SUFFICES ASSUME Inv, [Next]_vars, target = 0
               PROVE  Causal!Next \/ UNCHANGED Causal!vars
    OBVIOUS
  <2>1. CASE target' = 0
    BY <2>1, StepSafe, BranchesStayCausally, BranchExecutesCausally DEF Inv
  <2>2. CASE target' # 0
    BY <2>2, FocusMoves, BranchesStayCausally
  <2> QED  BY <2>1, <2>2
<1> QED  BY <1>1, InvHolds, PTL DEF Spec, StepsFollowCausalOrder

=============================================================================
