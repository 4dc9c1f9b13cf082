-------------------------- MODULE CrilReplayProofs --------------------------
(***************************************************************************)
(* Theorems about the values: a block that is undone puts back what it had *)
(* found, a block that is replayed computes what it had computed and       *)
(* annotates the edges it had annotated, for every program in which        *)
(*                                                                         *)
(*   - no assignment reads the variable it changes (Reversible): x += x    *)
(*     has no inverse, and the compiler does not reject it;                *)
(*   - readers precede those who overwrite what they have read             *)
(*     (ReadersPrecede): the DAG has no edge that would say so.            *)
(*                                                                         *)
(* Two invariants carry the proofs.  Recorded says where the recorded      *)
(* nodes are, those that were executed at some time: nothing new is        *)
(* executed before the whole record has been replayed.  Told says what the *)
(* edges of recorded nodes tell: the writers they come from are those      *)
(* whose values the first execution has found.                             *)
(***************************************************************************)
EXTENDS CrilDagProofs, CrilHistory

Reversible ==
    \A f \in ProcName : \A b \in 1..Len(Code[f]) :
        Code[f][b].op \in {"+=", "-="} => Code[f][b].src # Code[f][b].dst

\* The nodes that were executed at some time.
Rec == {n \in Node : hist[n] # <<>>}

InstrAt(n) == Code[proc[n[1]]][n[2] + 1]

Before(n) == hist[n][1]
After(n)  == hist[n][2]

-----------------------------------------------------------------------------
(* Where the recorded nodes are                                            *)

Values == [Var -> Int]

HistoryType == hist \in [Node -> {<<>>} \cup (Values \X Values)]

\* The record of a process is a beginning of its procedure, and contains what
\* was executed and not undone.
RecordFits ==
    /\ \A n \in Node : Executed(n) => n \in Rec
    /\ \A n \in Rec :
          /\ Created(n[1]) /\ n[2] < CodeLen(n[1])
          /\ \A d \in Node : d[1] = n[1] /\ d[2] < n[2] => d \in Rec

\* The children of a recorded call are recorded to their ends.
RecordedCalls ==
    \A n \in Rec :
        /\ OpAt(n) = "call" => callpids[n] # <<>>
        /\ \A d \in Node : d[1] \in Kids(n) /\ d[2] < CodeLen(d[1]) => d \in Rec

\* A call that is not recorded has children only while it waits for them, in its
\* first execution: what is recorded of them has just been executed.
FirstCalls ==
    \A n \in Node \ Rec : callpids[n] # <<>> =>
        /\ ~rev /\ Calling(n)
        /\ \A d \in Rec : d[1] \in Kids(n) => Executed(d)

Recorded == HistoryType /\ RecordFits /\ RecordedCalls /\ FirstCalls

-----------------------------------------------------------------------------
(* What the edges of recorded nodes tell                                   *)

\* The value that node s left in x, and that of the start.
Left(s, x) == IF s \in Rec /\ x \in WrittenAt(s) THEN After(s)[x] ELSE 0

\* Node n has read x where s had left it; s wrote it, or nobody had.
Source(n, x, s) ==
    /\ s \in Node \cup {Bot}
    /\ HasEdge(mem, ReadEdge(s, x), n)
    /\ x \in WrittenAt(n) => s \in Overwritten(mem, n, x)
    /\ s = InitLast(x) \/ (s \in Rec /\ x \in WrittenAt(s))
    /\ Before(n)[x] = Left(s, x)

\* A node has overwritten something once it was executed, if it writes.
WritersRecorded ==
    \A n \in Node : \A x \in Var :
        Overwritten(mem, n, x) # {} <=> n \in Rec /\ x \in WrittenAt(n)

\* What was executed and not undone forms the chains, and whatever was undone
\* has not overwritten the same.
RecordChained == \A x \in Var : Chained(mem, Done, x) /\ OneEach(mem, Rec, x)

SourcesRecorded == \A n \in Rec : \A x \in ReadAt(n) : \E s : Source(n, x, s)

\* What a recorded node has made of the values it found.
EffectsRecorded ==
    \A n \in Rec : \A x \in WrittenAt(n) :
        /\ OpAt(n) \in {"+=", "-=", "<=>"} =>
              After(n)[x] = Effect(InstrAt(n), FALSE, Before(n), x)
        /\ OpAt(n) \in {"V", "P"} => Before(n)[x] = 1 - LeftBy(n) /\ After(n)[x] = LeftBy(n)

\* The store holds what the last writers left.
StoreIsLeft == \A x \in Var : mem.val[x] = Left(mem.last[x], x)

Waits(p) == status[p] \in {"wait", "woken"}

\* Only new V and P wait, and nothing else that is not recorded has edges.
OnlyNewWait ==
    /\ \A p \in Pid : Waits(p) => ~rev /\ <<p, pc[p]>> \notin Rec
    /\ \A n \in Node \ Rec : mem.inc[n] # <<>> => n[2] = pc[n[1]] /\ Waits(n[1])

Told ==
    turns <= 2 =>
        /\ WritersRecorded
        /\ RecordChained
        /\ SourcesRecorded
        /\ EffectsRecorded
        /\ StoreIsLeft
        /\ OnlyNewWait

-----------------------------------------------------------------------------
(* What a step does to the calls                                           *)

\* Children once recorded stay.  They are recorded when a call begins for the
\* first time, and a call goes on until it was executed or undone.
CallsOfStep ==
    /\ \A p \in Pid : Created(p) => Created(p)' /\ proc'[p] = proc[p]
    /\ \A n \in Node : callpids[n] # <<>> => callpids'[n] = callpids[n]
    /\ \A n \in Node : callpids[n] = <<>> /\ callpids'[n] # <<>> =>
          /\ Created(n[1]) /\ OpAt(n) = "call" /\ Calling(n)'
          /\ rev' = rev /\ (rev => Executed(n))
          /\ \A k \in Kids(n)' : ~Created(k)
    /\ \A n \in Node : Calling(n) => rev' = rev /\ (Calling(n)' \/ rev \/ Executed(n)')
    /\ ~rev /\ rev' = rev => \A n \in Node : Executed(n) => Executed(n)'

\* Only a process that waits is woken.
LEMMA NotifiedWait ==
  ASSUME Ind, NEW p \in Pid, SemTake(p), NEW q \in NotifySem(CurrentInstr(p).dst)
  PROVE  status[q] = "wait" /\ q \in Pid
<1> DEFINE x == CurrentInstr(p).dst
<1>1. x \in Var
  BY CurrentNodeFits DEF SemTake, Inside, WellFormed
<1>2. waitq[x] \in Seq(Pid)
  BY <1>1 DEF Ind, TypeOK
<1>3. waitq[x] # <<>> => /\ 1 \in DOMAIN waitq[x] /\ Head(waitq[x]) = waitq[x][1]
                         /\ Head(waitq[x]) \in Pid
  BY <1>2
<1>4. QED BY <1>1, <1>3 DEF NotifySem, Ind, Structure, QueuesHoldWaiters

\* A block of p that leaves the processes and their children alone.
LEMMA BlockCalls ==
  ASSUME Ind, NEW p \in Pid, Busy(p), NEW n, n = CurrentNode(p),
         \/ pc' = [pc EXCEPT ![p] = IF rev THEN n[2] ELSE n[2] + 1]
         \/ status[p] # "call" /\ pc' = [pc EXCEPT ![p] = n[2]],
         \A q \in Pid \ {p} : status[q] = "call" => status'[q] = "call",
         UNCHANGED <<rev, npcs, proc, callpids>>
  PROVE  CallsOfStep
<1>1. /\ n \in Node /\ n[1] = p /\ n[2] \in Nat
      /\ ~rev => n[2] = pc[p]
  BY BusyNode, NodeType
<1>2. pc \in [Pid -> 0..MaxPc] /\ rev \in BOOLEAN
  BY DEF Ind, TypeOK
<1>3. ASSUME NEW d \in Node
      PROVE  /\ d[1] \in Pid /\ d[2] \in Nat /\ pc[d[1]] \in Nat
             /\ d[1] # p => pc'[d[1]] = pc[d[1]]
             /\ ~rev => pc'[d[1]] \in {pc[d[1]], pc[d[1]] + 1}
             /\ ~rev /\ d[1] = p /\ status[p] = "call" => pc'[p] = pc[p] + 1
  BY <1>1, <1>2, NodeType
<1>4. ASSUME ~rev, NEW d \in Node, Executed(d)
      PROVE  Executed(d)'
  BY <1>3, <1>4 DEF Executed
<1>5. ASSUME NEW d \in Node, Calling(d)
      PROVE  Calling(d)' \/ rev \/ Executed(d)'
  <2>1. CASE d[1] # p
    BY <1>3, <1>5, <2>1 DEF Calling
  <2>2. CASE d[1] = p
    BY <1>3, <1>5, <2>2 DEF Calling, Executed
  <2>3. QED BY <2>1, <2>2
<1>6. QED BY <1>4, <1>5 DEF CallsOfStep, Created

LEMMA CallBeginCalls ==
  ASSUME Ind, NEW p \in Pid, CallBegin(p), NEW n, n = CurrentNode(p),
         NEW kids, kids = CallPids(n, Len(CurrentInstr(p).names))
  PROVE  CallsOfStep
<1>1. /\ Busy(p) /\ status[p] = "ready" /\ pc' = [pc EXCEPT ![p] = n[2]]
      /\ callpids' = [callpids EXCEPT ![n] = kids]
      /\ status' = [q \in Pid |-> IF \E j \in DOMAIN kids : kids[j] = q THEN "run"
                                  ELSE IF q = p THEN "call" ELSE status[q]]
      /\ rev' = rev /\ CurrentInstr(p).op = "call"
  BY DEF CallBegin, Busy
<1>2. /\ n \in Node /\ n = <<p, n[2]>> /\ n[1] = p /\ n[2] \in Nat /\ Created(p)
      /\ OpAt(n) = CurrentInstr(p).op
      /\ ~rev => n[2] = pc[p]
      /\ rev => Executed(n)
  BY <1>1, BusyNode, NodeType
<1>3. Startable(n, kids)
  BY OldChildrenStartable, NewChildrenStartable
<1>4. callpids[n] # <<>> => kids = callpids[n]
  BY DEF CallPids
<1>5. callpids[n] = <<>> => \A j \in DOMAIN kids : ~Created(kids[j])
  <2> SUFFICES ASSUME callpids[n] = <<>>, NEW j \in DOMAIN kids
               PROVE  ~Created(kids[j])
    OBVIOUS
  <2>1. /\ kids = [l \in 1..Len(CurrentInstr(p).names) |-> npcs + l - 1]
        /\ npcs \in Nat
    BY DEF CallPids, Ind, TypeOK
  <2>2. kids[j] >= npcs
    BY <2>1
  <2>3. QED BY <2>1, <2>2 DEF Created
<1>6. /\ callpids \in [Node -> Seq(Pid)] /\ pc \in [Pid -> 0..MaxPc] /\ rev \in BOOLEAN
  BY DEF Ind, TypeOK
<1>7. \A q \in Pid : Created(q) => Created(q)' /\ proc'[q] = proc[q]
  BY <1>3 DEF Startable
<1>8. \A d \in Node : callpids'[d] = IF d = n THEN kids ELSE callpids[d]
  BY <1>1, <1>2, <1>6
<1>9. \A j \in DOMAIN kids : /\ kids[j] # p
                             /\ status[kids[j]] \in {"done", "none"}
  BY <1>1, <1>2, <1>3 DEF Startable, Range
<1>10. Calling(n)'
  BY <1>1, <1>2, <1>6, <1>9 DEF Calling
<1>11. Kids(n)' = {kids[j] : j \in DOMAIN kids}
  BY <1>2, <1>8 DEF Kids
<1>12. ASSUME NEW d \in Node, Calling(d)
       PROVE  Calling(d)'
  <2>1. d[1] # p /\ d[1] \in Pid
    BY <1>1, <1>12, NodeType DEF Calling
  <2>2. QED BY <1>1, <1>6, <1>9, <1>12, <2>1 DEF Calling
<1>13. ASSUME ~rev, NEW d \in Node, Executed(d)
       PROVE  Executed(d)'
  BY <1>1, <1>2, <1>6, <1>13, NodeType DEF Executed
<1>14. \A d \in Node : callpids[d] = <<>> /\ callpids'[d] # <<>> => d = n
  BY <1>8
<1>15. \A d \in Node : callpids[d] # <<>> => callpids'[d] = callpids[d]
  BY <1>4, <1>8
<1>16. callpids[n] = <<>> => \A k \in Kids(n)' : ~Created(k)
  BY <1>5, <1>11
<1>17. QED
  BY <1>1, <1>2, <1>7, <1>10, <1>12, <1>13, <1>14, <1>15, <1>16 DEF CallsOfStep

LEMMA StepCalls ==
  ASSUME Ind, [Next]_vars
  PROVE  CallsOfStep
<1>1. ASSUME NEW p \in Pid, Exec(p) \/ SemTake(p) \/ SemWait(p) \/ CallEnd(p)
      PROVE  CallsOfStep
  <2> DEFINE n == CurrentNode(p)
  <2>1. Busy(p) /\ UNCHANGED <<rev, npcs, proc, callpids>>
    BY <1>1 DEF Exec, SemTake, SemWait, CallEnd, Busy, Inside
  <2>2. \/ pc' = [pc EXCEPT ![p] = IF rev THEN n[2] ELSE n[2] + 1]
        \/ status[p] # "call" /\ pc' = [pc EXCEPT ![p] = n[2]]
    <3>1. n[1] = p
      BY <2>1, BusyNode
    <3>2. QED BY <1>1, <3>1 DEF Exec, SemTake, SemWait, CallEnd, FinishBlock
  <2>3. \A q \in Pid \ {p} : status[q] = "call" => status'[q] = "call"
    <3>1. CASE Exec(p) \/ SemWait(p) \/ CallEnd(p)
      BY <3>1 DEF Exec, SemWait, CallEnd, Ind, TypeOK
    <3>2. CASE SemTake(p)
      <4> DEFINE x == CurrentInstr(p).dst
      <4>1. status' = [q \in Pid |-> IF q = p THEN AfterBlock(n)
                                     ELSE IF q \in NotifySem(x) THEN "woken"
                                     ELSE status[q]]
        BY <3>2 DEF SemTake
      <4>2. \A q \in NotifySem(x) : status[q] = "wait"
        BY <3>2, NotifiedWait
      <4>3. QED BY <4>1, <4>2
    <3>3. QED BY <1>1, <3>1, <3>2
  <2> HIDE DEF n
  <2>4. QED BY <2>1, <2>2, <2>3, BlockCalls DEF n
<1>2. ASSUME (\E p \in Pid : Check(p)) \/ Suspend \/ Resume \/ UNCHANGED vars
      PROVE  CallsOfStep
  <2>1. UNCHANGED <<npcs, proc, pc, callpids>>
    BY <1>2 DEF Check, Suspend, Resume, vars
  <2>2. ASSUME NEW n \in Node, Calling(n)
        PROVE  rev' = rev /\ Calling(n)'
    <3>1. n[1] \in Pid /\ status \in [Pid -> Status] /\ status[n[1]] = "call"
      BY <2>2, NodeType DEF Calling, Ind, TypeOK
    <3>2. CASE (\E p \in Pid : Check(p)) \/ Suspend \/ UNCHANGED vars
      BY <2>1, <2>2, <3>1, <3>2 DEF Check, Suspend, vars, Calling
    <3>3. CASE Resume
      <4>1. n[1] = 0
        BY <3>1, <3>3, IndImpliesQuiescent DEF Resume, Quiescent, Active
      <4>2. QED BY <3>1, <3>3, <4>1 DEF Resume
    <3>4. QED BY <1>2, <3>2, <3>3
  <2>3. QED BY <2>1, <2>2 DEF CallsOfStep, Created, Executed
<1>3. ASSUME NEW p \in Pid, ProcStep(p)
      PROVE  CallsOfStep
  BY <1>1, <1>2, <1>3, CallBeginCalls DEF ProcStep
<1>4. QED BY <1>2, <1>3 DEF Next, Idle, Crashed

-----------------------------------------------------------------------------
(* The record                                                              *)

\* A step adds to the record the node that it executes for the first time.
LEMMA RecordGrows ==
  ASSUME Ind, Ind', HistoryType, [HistNext]_hvars
  PROVE  /\ HistoryType'
         /\ [Next]_vars
         /\ \A n \in Node : n \in Rec' <=> n \in Rec \/ Does(n)
         /\ \A n \in Rec : hist'[n] = hist[n]
         /\ \A n \in Node \ Rec : Does(n) => Before(n)' = mem.val /\ After(n)' = mem'.val
<1>1. mem.val \in Values /\ mem'.val \in Values
  BY DEF Ind, TypeOK, Store, Values
<1>2. CASE HistNext
  <2> DEFINE T == <<mem.val, mem'.val>>
  <2>1. T \in Values \X Values /\ T # <<>> /\ T[1] = mem.val /\ T[2] = mem'.val
    BY <1>1
  <2>2. hist' = [n \in Node |-> IF Does(n) /\ hist[n] = <<>> THEN T ELSE hist[n]]
    BY <1>2 DEF HistNext
  <2> HIDE DEF T
  <2>3. HistoryType'
    BY <2>1, <2>2 DEF HistoryType
  <2>4. \A n \in Node : hist'[n] = IF Does(n) /\ hist[n] = <<>> THEN T ELSE hist[n]
    BY <2>2
  <2>5. QED BY <1>2, <2>1, <2>3, <2>4 DEF HistNext, Rec, Before, After
<1>3. CASE UNCHANGED hvars
  <2>1. UNCHANGED vars /\ hist' = hist /\ \A n : ~Does(n)
    BY <1>3 DEF hvars, vars, Does, Executed
  <2>2. QED BY <2>1 DEF HistoryType, Rec
<1>4. QED BY <1>2, <1>3

LEMMA RecordedPreserved ==
  ASSUME Ind, Ind', Recorded, [HistNext]_hvars
  PROVE  Recorded'
<1>1. /\ HistoryType' /\ [Next]_vars
      /\ \A n \in Node : n \in Rec' <=> n \in Rec \/ Does(n)
  BY RecordGrows DEF Recorded
<1>2. /\ \A p \in Pid : Created(p) => Created(p)' /\ proc'[p] = proc[p]
      /\ \A n \in Node : callpids[n] # <<>> => callpids'[n] = callpids[n]
      /\ \A n \in Node : callpids[n] = <<>> /\ callpids'[n] # <<>> =>
            /\ Created(n[1]) /\ OpAt(n) = "call" /\ Calling(n)'
            /\ rev' = rev /\ (rev => Executed(n))
            /\ \A k \in Kids(n)' : ~Created(k)
      /\ \A n \in Node : Calling(n) => rev' = rev /\ (Calling(n)' \/ rev \/ Executed(n)')
      /\ ~rev /\ rev' = rev => \A n \in Node : Executed(n) => Executed(n)'
  BY <1>1, StepCalls DEF CallsOfStep
<1>3. RecordFits /\ RecordedCalls /\ FirstCalls
  BY DEF Recorded
<1>4. \A n : n \in Rec => n \in Node
  BY DEF Rec
<1>5. ASSUME NEW n \in Node, Does(n)
      PROVE  Executed(n)' /\ Created(n[1])' /\ n[2] < CodeLen(n[1])' /\ n[1] \in Pid /\ n[2] \in Nat
  <2>1. n[1] \in Pid /\ n[2] \in Nat /\ Executed(n)' /\ pc'[n[1]] \in Nat
    BY <1>5, NodeType DEF Does, Ind, TypeOK
  <2>2. Created(n[1])'
    BY <2>1 DEF Ind, Structure, ProcessesExist, Executed
  <2>3. pc'[n[1]] <= CodeLen(n[1])' /\ CodeLen(n[1])' \in Nat
    <3>1. proc'[n[1]] \in ProcName /\ pc'[n[1]] <= CodeLen(n[1])'
      BY <2>1, <2>2 DEF Ind, Structure, ProcessesExist
    <3>2. QED BY <3>1, CodeFacts DEF CodeLen
  <2>4. QED BY <2>1, <2>2, <2>3 DEF Executed
<1>6. RecordFits'
  <2>1. ASSUME NEW n \in Node, Executed(n)'
        PROVE  n \in Rec'
    BY <1>1, <1>3, <2>1 DEF RecordFits, Does
  <2>2. ASSUME NEW n \in Rec', Executed(n)'
        PROVE  \A d \in Node : d[1] = n[1] /\ d[2] < n[2] => d \in Rec'
    <3>1. n[2] \in Nat /\ pc'[n[1]] \in Nat
      BY NodeType DEF Rec, Ind, TypeOK
    <3>2. \A d \in Node : d[1] = n[1] /\ d[2] < n[2] => Executed(d)'
      BY <2>2, <3>1, NodeType DEF Executed
    <3>3. QED BY <2>1, <3>2
  <2>3. ASSUME NEW n \in Rec', Does(n)
        PROVE  /\ Created(n[1])' /\ n[2] < CodeLen(n[1])'
               /\ \A d \in Node : d[1] = n[1] /\ d[2] < n[2] => d \in Rec'
    BY <1>5, <2>2, <2>3 DEF Rec
  <2>4. ASSUME NEW n \in Rec
        PROVE  /\ Created(n[1])' /\ n[2] < CodeLen(n[1])'
               /\ \A d \in Node : d[1] = n[1] /\ d[2] < n[2] => d \in Rec'
    BY <1>1, <1>2, <1>3, <1>4, NodeType DEF RecordFits, CodeLen
  <2>5. QED BY <1>1, <2>1, <2>3, <2>4 DEF RecordFits, Rec
<1>7. ASSUME NEW n \in Rec
      PROVE  /\ OpAt(n)' = "call" => callpids'[n] # <<>>
             /\ Kids(n)' = Kids(n)
             /\ \A k \in Kids(n) : CodeLen(k)' = CodeLen(k)
  <2>1. n \in Node /\ Created(n[1]) /\ n[1] \in Pid
    BY <1>3, <1>4, NodeType DEF RecordFits
  <2>2. OpAt(n)' = OpAt(n)
    BY <1>2, <2>1 DEF OpAt
  <2>3. callpids'[n] = callpids[n] /\ (OpAt(n) = "call" => callpids[n] # <<>>)
    BY <1>2, <1>3, <2>1 DEF RecordedCalls
  <2>4. QED BY <1>2, <2>1, <2>2, <2>3, KidsFacts DEF Kids, CodeLen
<1>8. RecordedCalls'
  <2>1. ASSUME NEW n \in Rec
        PROVE  /\ OpAt(n)' = "call" => callpids'[n] # <<>>
               /\ \A d \in Node : d[1] \in Kids(n)' /\ d[2] < CodeLen(d[1])' => d \in Rec'
    BY <1>1, <1>3, <1>7 DEF RecordedCalls
  <2>2. ASSUME NEW n \in Node, Does(n)
        PROVE  /\ OpAt(n)' = "call" => callpids'[n] # <<>>
               /\ \A d \in Node : d[1] \in Kids(n)' /\ d[2] < CodeLen(d[1])' => d \in Rec'
    <3>1. Created(n[1])' /\ Executed(n)' /\ n[2] \in Nat /\ n[1] \in Pid /\ pc'[n[1]] \in Nat
      BY <1>5, <2>2, NodeType DEF Ind, TypeOK
    <3>2. OpAt(n)' = "call" => callpids'[n] # <<>>
      BY <3>1 DEF Ind, Structure, ExecutedCallsRecorded, OpAt
    <3>3. ~Calling(n)'
      BY <3>1 DEF Calling, Executed
    <3>4. \A k \in Kids(n)' : pc'[k] = CodeLen(k)'
      BY <3>1, <3>3 DEF Ind, Structure, CallsJoin
    <3>5. \A d \in Node : d[1] \in Kids(n)' /\ d[2] < CodeLen(d[1])' => Executed(d)'
      BY <3>4 DEF Executed
    <3>6. QED BY <1>6, <3>2, <3>5 DEF RecordFits
  <2>3. QED BY <1>1, <2>1, <2>2 DEF RecordedCalls, Rec
<1>9. FirstCalls'
  <2> SUFFICES ASSUME NEW n \in Node, n \notin Rec, ~Does(n), callpids'[n] # <<>>
               PROVE  /\ ~rev' /\ Calling(n)'
                      /\ \A d \in Rec' : d[1] \in Kids(n)' => Executed(d)'
    BY <1>1 DEF FirstCalls
  <2>1. ~Executed(n) /\ ~Executed(n)'
    BY <1>3 DEF RecordFits, Does
  <2>2. CASE callpids[n] = <<>>
    <3>1. Calling(n)' /\ rev' = rev /\ ~rev /\ \A k \in Kids(n)' : ~Created(k)
      BY <1>2, <2>1, <2>2
    <3>2. \A d \in Rec : d[1] \notin Kids(n)'
      BY <1>3, <3>1 DEF RecordFits
    <3>3. \A d \in Node : Does(d) => Executed(d)'
      BY DEF Does
    <3>4. QED BY <1>1, <3>1, <3>2, <3>3 DEF Rec
  <2>3. CASE callpids[n] # <<>>
    <3>1. /\ ~rev /\ Calling(n) /\ Kids(n)' = Kids(n)
          /\ \A d \in Rec : d[1] \in Kids(n) => Executed(d)
      BY <1>2, <1>3, <2>3 DEF FirstCalls, Kids
    <3>2. rev' = rev /\ Calling(n)' /\ \A d \in Node : Executed(d) => Executed(d)'
      BY <1>2, <2>1, <3>1
    <3>3. \A d \in Node : Does(d) => Executed(d)'
      BY DEF Does
    <3>4. QED BY <1>1, <1>4, <3>1, <3>2, <3>3 DEF Rec
  <2>4. QED BY <2>2, <2>3
<1>10. QED BY <1>1, <1>6, <1>8, <1>9 DEF Recorded

LEMMA InitImpliesRecorded ==
  ASSUME HistInit
  PROVE  Recorded
<1>1. hist = [n \in Node |-> <<>>] /\ Rec = {}
  BY DEF HistInit, Rec
<1>2. \A n \in Node : ~Executed(n) /\ callpids[n] = <<>>
  BY NodeType DEF HistInit, Init, Executed
<1>3. QED BY <1>1, <1>2 DEF Recorded, HistoryType, RecordFits, RecordedCalls, FirstCalls

\* A history of the first executions adds nothing to what the program may do.
LEMMA HistSpecIsSpec == HistSpec => Spec
<1>1. HistInit => Init
  BY DEF HistInit
<1>2. [HistNext]_hvars => [Next]_vars
  BY DEF HistNext, hvars
<1>3. QED BY <1>1, <1>2, PTL DEF HistSpec, Spec

LEMMA RecordedHolds == HistSpec => []Recorded
<1>1. HistInit => Recorded
  BY InitImpliesRecorded
<1>2. Ind /\ Ind' /\ Recorded /\ [HistNext]_hvars => Recorded'
  BY RecordedPreserved
<1>3. QED BY <1>1, <1>2, HistSpecIsSpec, Invariance, PTL DEF HistSpec

-----------------------------------------------------------------------------
(* The whole record is replayed before anything new is executed            *)

NewAfterReplay ==
    \A p \in Pid : ~rev /\ Busy(p) /\ CurrentNode(p) \notin Rec => Rec \subseteq Done

\* While main is at a recorded block, so is every process that is at work.
LEMMA AllAtRecorded ==
  ASSUME Ind, Recorded, ~rev, NEW p \in Pid, Active(p), pc[p] < CodeLen(p),
         <<p, pc[p]>> \notin Rec
  PROVE  <<0, pc[0]>> \notin Rec
<1> DEFINE A == {q \in Pid : Active(q) /\ pc[q] < CodeLen(q) /\ <<q, pc[q]>> \notin Rec}
<1>1. A \subseteq Nat /\ A # {}
  BY DEF Pid
<1>2. PICK a \in A : \A b \in A : a <= b
  <2> HIDE DEF A
  <2> QED BY <1>1, LeastNatural
<1>3. a \in Pid /\ Active(a) /\ pc[a] < CodeLen(a) /\ <<a, pc[a]>> \notin Rec /\ Created(a)
  BY <1>2, ActiveIsCreated DEF Active
<1>4. CASE a = 0
  BY <1>3, <1>4
<1>5. CASE a # 0
  <2>1. PICK n \in Node : a \in Kids(n)
    BY <1>3, <1>5 DEF Ind, Structure, HaveParents
  <2>2. Calling(n) /\ n[1] < a /\ n[1] \in Pid /\ n = <<n[1], pc[n[1]]>>
    <3>1. Calling(n)
      BY <1>3, <2>1 DEF Ind, Structure, CallsJoin, Active
    <3>2. n = <<n[1], n[2]>>
      BY DEF Node
    <3>3. QED BY <2>1, <3>1, <3>2, KidsFacts DEF Calling
  <2>3. n \notin Rec
    <3>1. <<a, pc[a]>> \in Node /\ a = <<a, pc[a]>>[1] /\ pc[a] = <<a, pc[a]>>[2]
      BY <1>3 DEF Node, Ind, TypeOK
    <3>2. QED BY <1>3, <2>1, <3>1 DEF Recorded, RecordedCalls
  <2>4. Active(n[1]) /\ pc[n[1]] < CodeLen(n[1])
    BY <2>2 DEF Calling, Active, Inside, Ind, Structure, PositionsFit
  <2>5. n[1] \in A
    BY <2>2, <2>3, <2>4
  <2>6. a <= n[1] /\ a \in Nat /\ n[1] \in Nat
    BY <1>1, <1>2, <2>5
  <2>7. QED BY <2>2, <2>6
<1>6. QED BY <1>4, <1>5

\* If a recorded block is still to be replayed, main is at a recorded block.
LEMMA MainAtRecorded ==
  ASSUME Ind, Recorded, NEW d \in Rec, d \notin Done
  PROVE  <<0, pc[0]>> \in Rec
<1> DEFINE A == {n[1] : n \in Rec \ Done}
<1>1. A \subseteq Nat /\ A # {}
  BY NodeType DEF Pid, Rec
<1>2. PICK a \in A : \A b \in A : a <= b
  <2> HIDE DEF A
  <2> QED BY <1>1, LeastNatural
<1>3. PICK n \in Rec \ Done : a = n[1]
  BY <1>2
<1>4. /\ n \in Node /\ n[1] \in Pid /\ n[2] \in Nat /\ Created(n[1]) /\ n[2] < CodeLen(n[1])
      /\ ~Executed(n)
      /\ \A e \in Node : e[1] = n[1] /\ e[2] < n[2] => e \in Rec
  BY NodeType DEF Rec, Done, Recorded, RecordFits
<1>5. CASE a = 0
  <2>1. pc[0] \in Nat /\ pc[0] <= n[2]
    BY <1>3, <1>4, <1>5 DEF Executed, Ind, TypeOK
  <2>2. <<0, pc[0]>> \in Node
    BY <1>3, <1>4, <1>5 DEF Node, Ind, TypeOK
  <2>3. CASE pc[0] < n[2]
    BY <1>3, <1>4, <1>5, <2>2, <2>3
  <2>4. CASE pc[0] = n[2]
    <3>1. n = <<n[1], n[2]>>
      BY <1>4 DEF Node
    <3>2. QED BY <1>3, <1>5, <2>4, <3>1
  <2>5. QED BY <1>4, <2>1, <2>3, <2>4
<1>6. CASE a # 0
  <2>1. PICK c \in Node : n[1] \in Kids(c)
    BY <1>3, <1>4, <1>6 DEF Ind, Structure, HaveParents
  <2>2. callpids[c] # <<>> /\ c[1] < a /\ c[1] \in Pid
    BY <1>3, <2>1, KidsFacts
  <2>3. c \in Rec
    BY <1>4, <2>1, <2>2 DEF Recorded, FirstCalls
  <2>4. ~Executed(c)
    <3> SUFFICES ASSUME Executed(c)
                 PROVE  FALSE
      OBVIOUS
    <3>1. ~Calling(c)
      <4>1. c[2] \in Nat /\ pc[c[1]] \in Nat
        BY <2>2, NodeType DEF Ind, TypeOK
      <4>2. QED BY <4>1 DEF Calling, Executed
    <3>2. pc[n[1]] = CodeLen(n[1])
      BY <2>1, <3>1 DEF Ind, Structure, CallsJoin
    <3>3. QED BY <1>4, <3>2 DEF Executed
  <2>5. c[1] \in A
    BY <2>3, <2>4 DEF Done
  <2>6. a <= c[1] /\ a \in Nat /\ c[1] \in Nat
    BY <1>1, <1>2, <2>5
  <2>7. QED BY <2>2, <2>6
<1>7. QED BY <1>5, <1>6

LEMMA CaughtUp ==
  ASSUME Ind, Recorded, ~rev, NEW p \in Pid, Busy(p), <<p, pc[p]>> \notin Rec
  PROVE  Rec \subseteq Done
<1>1. Active(p) /\ pc[p] < CodeLen(p)
  BY BusyNode DEF Busy, Active, Inside
<1>2. <<0, pc[0]>> \notin Rec
  BY <1>1, AllAtRecorded
<1>3. QED BY <1>2, MainAtRecorded

\* Nothing new is executed before the whole record has been replayed: when a
\* process begins a block that was never executed, every block that was
\* undone, of any process, has been executed again.
THEOREM NewWorkAfterReplay == HistSpec => []NewAfterReplay
<1>1. Ind /\ Recorded => NewAfterReplay
  <2> SUFFICES ASSUME Ind, Recorded, ~rev, NEW p \in Pid, Busy(p), CurrentNode(p) \notin Rec
               PROVE  Rec \subseteq Done
    BY DEF NewAfterReplay
  <2>1. CurrentNode(p) = <<p, pc[p]>>
    BY DEF CurrentNode
  <2>2. QED BY <2>1, CaughtUp
<1>2. QED BY <1>1, HistSpecIsSpec, Invariance, RecordedHolds, PTL

-----------------------------------------------------------------------------
(* Values                                                                  *)

\* What an instruction makes of the values depends on what it reads.
LEMMA EffectOfReads ==
  ASSUME NEW i \in Instr, WellFormed(i), i.op \in {"+=", "-=", "<=>"}, NEW back \in BOOLEAN,
         NEW v, NEW w, \A y \in ReadBy(i) : v[y] = w[y], NEW x \in WrittenBy(i)
  PROVE  Effect(i, back, v, x) = Effect(i, back, w, x)
<1>1. CASE i.op = "<=>"
  BY <1>1 DEF Effect, ReadBy, WrittenBy
<1>2. CASE i.op \in {"+=", "-="}
  <2>1. x \in ReadBy(i) /\ Operand(i, v) = Operand(i, w)
    BY <1>2 DEF ReadBy, WrittenBy, Operand
  <2>2. QED BY <1>2, <2>1 DEF Effect
<1>3. QED BY <1>1, <1>2

\* If it does not read the one variable it changes, it can be undone.
LEMMA EffectUndone ==
  ASSUME NEW i \in Instr, WellFormed(i), i.op \in {"+=", "-=", "<=>"},
         i.op \in {"+=", "-="} => i.src # i.dst,
         NEW v \in Values, NEW w \in Values,
         \A y \in WrittenBy(i) : w[y] = Effect(i, FALSE, v, y),
         \A y \in ReadBy(i) \ WrittenBy(i) : w[y] = v[y],
         NEW x \in WrittenBy(i)
  PROVE  Effect(i, TRUE, w, x) = v[x]
<1>1. CASE i.op = "<=>"
  BY <1>1 DEF Effect, WrittenBy
<1>2. CASE i.op \in {"+=", "-="}
  <2>1. /\ x = i.dst /\ x \in Var /\ i.src \in Var \cup {NoVar} /\ i.k \in Int
        /\ i.src # NoVar => i.src \in ReadBy(i) \ WrittenBy(i)
    BY <1>2 DEF WrittenBy, ReadBy, WellFormed, Instr
  <2>2. Operand(i, w) = Operand(i, v) /\ Operand(i, v) \in Int
    BY <2>1 DEF Operand, Values
  <2>3. v[x] \in Int /\ w[x] = Effect(i, FALSE, v, x)
    BY <2>1 DEF Values
  <2>4. CASE i.op = "+="
    BY <2>2, <2>3, <2>4 DEF Effect
  <2>5. CASE i.op = "-="
    BY <2>2, <2>3, <2>5 DEF Effect
  <2>6. QED BY <1>2, <2>4, <2>5
<1>3. QED BY <1>1, <1>2

LEMMA NodeInstr ==
  ASSUME Ind, NEW n \in Node, Created(n[1]), n[2] < CodeLen(n[1])
  PROVE  /\ InstrAt(n) \in Instr /\ WellFormed(InstrAt(n))
         /\ OpAt(n) = InstrAt(n).op
         /\ WrittenAt(n) = WrittenBy(InstrAt(n)) /\ ReadAt(n) = ReadBy(InstrAt(n))
         /\ WrittenAt(n) \subseteq ReadAt(n) /\ ReadAt(n) \in SUBSET Var
         /\ OpAt(n) = "call" => ReadAt(n) = {}
         /\ OpAt(n) \in {"V", "P"} => WrittenAt(n) = ReadAt(n) /\ ReadAt(n) = {InstrAt(n).dst}
         /\ WrittenAt(n) # {} => OpAt(n) \in {"V", "P", "+=", "-=", "<=>"}
         /\ Reversible => (OpAt(n) \in {"+=", "-="} => InstrAt(n).src # InstrAt(n).dst)
<1>1. n[1] \in Pid /\ n[2] \in Nat /\ proc[n[1]] \in ProcName /\ CodeLen(n[1]) \in Nat
  BY NodeType, CodeLenType
<1>2. n[2] + 1 \in 1..Len(Code[proc[n[1]]])
  BY <1>1 DEF CodeLen
<1> DEFINE i == InstrAt(n)
<1>3. i \in Instr /\ WellFormed(i)
  BY <1>1, <1>2, CodeFacts DEF InstrAt
<1>4. OpAt(n) = i.op /\ WrittenAt(n) = WrittenBy(i) /\ ReadAt(n) = ReadBy(i)
  BY DEF OpAt, WrittenAt, ReadAt, InstrAt
<1>5. Reversible => (i.op \in {"+=", "-="} => i.src # i.dst)
  BY <1>1, <1>2 DEF Reversible, InstrAt
<1> HIDE DEF i
<1>6. WrittenBy(i) \subseteq ReadBy(i) /\ ReadBy(i) \in SUBSET Var
  BY <1>3, ReadByType
<1>7. /\ i.op = "call" => ReadBy(i) = {}
      /\ i.op \in {"V", "P"} => WrittenBy(i) = ReadBy(i) /\ ReadBy(i) = {i.dst}
      /\ WrittenBy(i) # {} => i.op \in {"V", "P", "+=", "-=", "<=>"}
  BY DEF ReadBy, WrittenBy
<1>8. QED BY <1>3, <1>4, <1>5, <1>6, <1>7 DEF i

\* The node from which heap cells seem to come writes nothing.
LEMMA RootWritesNothing ==
  ASSUME Ind
  PROVE  WrittenAt(<<0, 0>>) = {}
<1>1. proc[0] = Main /\ Code[proc[0]][0 + 1].op = "skip"
  BY CodeAssumption DEF Ind, Structure, ProcessesExist
<1>2. QED BY <1>1 DEF WrittenAt, WrittenBy

LEMMA RecordedNode ==
  ASSUME Ind, Recorded, NEW n \in Rec
  PROVE  /\ n \in Node /\ n # Bot /\ Created(n[1]) /\ n[2] < CodeLen(n[1])
         /\ n[1] \in Pid /\ n[2] \in Nat /\ n = <<n[1], n[2]>>
         /\ Before(n) \in Values /\ After(n) \in Values
<1>1. n \in Node /\ hist[n] # <<>>
  BY DEF Rec
<1>2. hist[n] \in Values \X Values
  BY <1>1 DEF Recorded, HistoryType
<1>3. Before(n) \in Values /\ After(n) \in Values
  BY <1>2 DEF Before, After
<1>4. n = <<n[1], n[2]>>
  BY <1>1 DEF Node
<1>5. QED BY <1>1, <1>3, <1>4, NodeType DEF Recorded, RecordFits

-----------------------------------------------------------------------------
(* What a block finds when it is replayed or undone                        *)

\* A source that nobody has overwritten is the last writer, and the store has
\* what it left.
LEMMA SourceIsLast ==
  ASSUME Ind, Recorded, turns <= 2, Told, NEW n \in Rec, NEW x \in Var, NEW s,
         Source(n, x, s), s = Bot \/ Executed(s),
         \A d \in Done : s \notin Overwritten(mem, d, x)
  PROVE  mem.last[x] = s /\ mem.val[x] = Before(n)[x]
<1>1. WritersRecorded /\ Chained(mem, Done, x) /\ StoreIsLeft
  BY DEF Told, RecordChained
<1>2. s = InitLast(x) \/ s \in WritersIn(mem, Done, x)
  <2>1. CASE s = InitLast(x)
    BY <2>1
  <2>2. CASE s \in Rec /\ x \in WrittenAt(s)
    <3>1. s \in Node /\ s # Bot
      BY <2>2, RecordedNode
    <3>2. Overwritten(mem, s, x) # {} /\ s \in Done
      BY <1>1, <2>2, <3>1 DEF WritersRecorded, Done
    <3>3. QED BY <3>2 DEF WritersIn
  <2>3. QED BY <2>1, <2>2 DEF Source
<1>3. mem.last[x] = s
  BY <1>1, <1>2, ChainEnd
<1>4. QED BY <1>1, <1>3 DEF StoreIsLeft, Source

LEMMA ReplayFindsSources ==
  ASSUME Ind, Recorded, turns <= 2, Told, ReadersFirst(mem, DagNodes),
         NEW n \in Rec, n \notin Done,
         \A i \in DOMAIN mem.inc[n] : mem.inc[n][i].src = Bot \/ Executed(mem.inc[n][i].src),
         NEW x \in ReadAt(n)
  PROVE  /\ Source(n, x, mem.last[x])
         /\ mem.val[x] = Before(n)[x]
<1>1. /\ WritersRecorded /\ SourcesRecorded /\ OnlyNewWait
      /\ \A y \in Var : OneEach(mem, Rec, y)
  BY DEF Told, RecordChained
<1>2. /\ n \in Node /\ Created(n[1]) /\ n[2] < CodeLen(n[1]) /\ n[1] \in Pid
      /\ n = <<n[1], n[2]>>
  BY RecordedNode
<1>3. x \in Var /\ (OpAt(n) = "call" => ReadAt(n) = {})
  BY <1>2, NodeInstr
<1>4. PICK s : Source(n, x, s)
  BY <1>1 DEF SourcesRecorded
<1>5. s = Bot \/ Executed(s)
  BY <1>4 DEF Source, HasEdge, ReadEdge
<1>6. ASSUME NEW d \in Done, s \in Overwritten(mem, d, x)
      PROVE  FALSE
  <2>1. d \in Rec /\ d # n /\ d \in DagNodes
    BY DEF Done, Recorded, RecordFits, DagNodes, InDag
  <2>2. CASE x \in WrittenAt(n)
    BY <1>1, <1>3, <1>4, <1>6, <2>1, <2>2 DEF Source, OneEach
  <2>3. CASE x \notin WrittenAt(n)
    <3>1. Overwritten(mem, n, x) = {}
      BY <1>1, <1>2, <1>3, <2>3 DEF WritersRecorded
    <3>2. InDag(n)
      BY <1>2, <1>3, <1>4, <1>6, <2>1, <3>1 DEF ReadersFirst, Source, DagNodes
    <3>3. n[2] = pc[n[1]] /\ Inside(n[1]) /\ n = <<n[1], pc[n[1]]>>
      BY <1>2, <3>2 DEF InDag, Done
    <3>4. status[n[1]] = "call"
      BY <1>1, <1>2, <3>3 DEF OnlyNewWait, Waits, Inside
    <3>5. callpids[n] # <<>>
      BY <1>2, <3>3, <3>4 DEF Ind, Structure, PositionsFit
    <3>6. OpAt(n) = "call"
      BY <1>2, <3>5 DEF Ind, Structure, CallsRecorded, OpAt
    <3>7. QED BY <1>3, <3>6
  <2>4. QED BY <2>2, <2>3
<1>7. mem.last[x] = s /\ mem.val[x] = Before(n)[x]
  BY <1>3, <1>4, <1>5, <1>6, SourceIsLast
<1>8. QED BY <1>4, <1>7

\* Backwards: an executed node that nobody uses is the last writer of what it
\* writes, and the store has what it has left.
LEMMA UndoFindsResults ==
  ASSUME Ind, History, Recorded, turns <= 2, Told, rev, NEW n \in Done, mem.ctr[n] = 0,
         NEW x \in WrittenAt(n)
  PROVE  x \in Var /\ mem.last[x] = n /\ mem.val[x] = After(n)[x]
<1>1. n \in Rec /\ n \in Node
  BY DEF Done, Recorded, RecordFits
<1>2. x \in Var
  BY <1>1, RecordedNode, NodeInstr
<1>3. WritersRecorded /\ Chained(mem, Done, x) /\ StoreIsLeft
  BY <1>2 DEF Told, RecordChained
<1>4. \A d \in Done : n \notin Overwritten(mem, d, x)
  <2>1. \A d \in Done : d \in DagNodes
    BY DEF Done, DagNodes, InDag
  <2>2. QED BY <1>1, <1>2, <2>1, UnusedNode
<1>5. mem.last[x] = n
  BY <1>1, <1>2, <1>3, <1>4, UnusedIsLast DEF WritersRecorded
<1>6. QED BY <1>1, <1>2, <1>3, <1>5 DEF StoreIsLeft, Left

\* What it has only read is still what it has read, if readers precede.
LEMMA UndoFindsSources ==
  ASSUME Ind, History, Recorded, turns <= 2, Told, NEW n \in Done,
         ReadersFirst(mem, DagNodes \ {n}), NEW x \in ReadAt(n) \ WrittenAt(n)
  PROVE  mem.val[x] = Before(n)[x]
<1>1. n \in Rec /\ n \in Node /\ n \in DagNodes
  BY DEF Done, Recorded, RecordFits, DagNodes, InDag
<1>2. x \in Var
  BY <1>1, RecordedNode, NodeInstr
<1>3. WritersRecorded /\ SourcesRecorded /\ SourcesExecuted
  BY PhaseFacts DEF Told
<1>4. PICK s : Source(n, x, s)
  BY <1>1, <1>3 DEF SourcesRecorded
<1>5. s = Bot \/ Executed(s)
  BY <1>1, <1>3, <1>4 DEF Source, HasEdge, ReadEdge, SourcesExecuted
<1>6. Overwritten(mem, n, x) = {}
  BY <1>1, <1>2, <1>3 DEF WritersRecorded
<1>7. ASSUME NEW d \in Done, s \in Overwritten(mem, d, x)
      PROVE  FALSE
  <2>1. d # n /\ d \in DagNodes
    BY <1>6, <1>7 DEF Done, DagNodes, InDag
  <2>2. QED BY <1>1, <1>2, <1>4, <1>6, <1>7, <2>1 DEF ReadersFirst, Source
<1>8. QED BY <1>1, <1>2, <1>4, <1>5, <1>7, SourceIsLast

-----------------------------------------------------------------------------
(* What a step leaves as it was                                            *)

\* What is known of a step when Told is to be shown after it.
Context ==
    /\ Ind /\ Ind' /\ CheckStillHolds /\ History /\ Recorded /\ Recorded'
    /\ turns <= 2 /\ Told /\ ReadersPrecede /\ ReadersPrecede'
    /\ [HistNext]_hvars

LEMMA ReadersFirstNow ==
  ASSUME Context
  PROVE  ReadersFirst(mem, DagNodes) /\ ReadersFirst(mem', DagNodes')
<1>1. mem \in Store /\ mem' \in Store
  BY DEF Context, Ind, TypeOK
<1>2. DagNodes \in SUBSET Node /\ DagNodes' \in SUBSET Node
  BY DEF DagNodes
<1>3. ReadersFirst(mem, DagNodes)
  BY <1>1, <1>2, ReadersFirstByEdges DEF Context, ReadersPrecede, Writers, DagNodes
<1>4. ReadersFirst(mem', DagNodes')
  <2>1. \A x \in Var : \A d \in {c \in DagNodes' : WriteEdges(mem', x, c) # {}} :
           \A i \in WriteEdges(mem', x, d) : \A n \in Node :
              WriteEdges(mem', x, n) = {}
              /\ HasEdge(mem', [mem'.inc[d][i] EXCEPT !.wt = FALSE], n) => n \in DagNodes'
    BY DEF Context, ReadersPrecede, Writers, DagNodes
  <2>2. QED BY <1>1, <1>2, <2>1, ReadersFirstByEdges
<1>5. QED BY <1>3, <1>4

LEMMA StepFacts ==
  ASSUME Context
  PROVE  /\ [Next]_vars /\ StepKind
         /\ \A n \in Node : n \in Rec' <=> n \in Rec \/ Does(n)
         /\ \A n \in Rec : Before(n)' = Before(n) /\ After(n)' = After(n)
         /\ \A n \in Node \ Rec : Does(n) => Before(n)' = mem.val /\ After(n)' = mem'.val
         /\ \A n \in Node : Created(n[1]) =>
               /\ WrittenAt(n)' = WrittenAt(n) /\ ReadAt(n)' = ReadAt(n)
               /\ OpAt(n)' = OpAt(n) /\ InstrAt(n)' = InstrAt(n) /\ LeftBy(n)' = LeftBy(n)
         /\ \A n \in Node : Executed(n) => n \in Rec
         /\ Rec \subseteq Node
<1>1. /\ Ind /\ Ind' /\ Recorded /\ HistoryType /\ RecordFits /\ [HistNext]_hvars
      /\ CheckStillHolds /\ History /\ turns <= 2
  BY DEF Context, Recorded
<1>2. /\ [Next]_vars
      /\ \A n \in Node : n \in Rec' <=> n \in Rec \/ Does(n)
      /\ \A n \in Rec : hist'[n] = hist[n]
      /\ \A n \in Node \ Rec : Does(n) => Before(n)' = mem.val /\ After(n)' = mem'.val
  BY <1>1, RecordGrows
<1>3. StepKind
  BY <1>1, <1>2, StepKinds
<1>4. \A p \in Pid : Created(p) => proc'[p] = proc[p]
  BY <1>1, <1>2, StepCalls DEF CallsOfStep
<1>5. \A n \in Node : Created(n[1]) =>
         /\ WrittenAt(n)' = WrittenAt(n) /\ ReadAt(n)' = ReadAt(n)
         /\ OpAt(n)' = OpAt(n) /\ InstrAt(n)' = InstrAt(n) /\ LeftBy(n)' = LeftBy(n)
  BY <1>4, NodeType DEF WrittenAt, ReadAt, OpAt, InstrAt, LeftBy
<1>6. QED BY <1>1, <1>2, <1>3, <1>5 DEF Before, After, RecordFits, Rec

\* What a recorded node, or the start, has left stays what it was.
LEMMA LeftStays ==
  ASSUME Context, NEW x \in Var, NEW s, s \in Rec \/ s = InitLast(x)
  PROVE  Left(s, x)' = Left(s, x)
<1>1. CASE s \in Rec
  <2>1. s \in Node /\ Created(s[1]) /\ s \in Rec'
    BY <1>1, RecordedNode, StepFacts DEF Context
  <2>2. QED BY <1>1, <2>1, StepFacts DEF Left
<1>2. CASE s \notin Rec
  <2>1. s = Bot \/ s = <<0, 0>>
    BY <1>2 DEF InitLast
  <2>2. CASE s = Bot
    BY <2>2, NodeType DEF Left, Rec
  <2>3. CASE s = <<0, 0>>
    <3>1. WrittenAt(s) = {} /\ WrittenAt(s)' = {}
      <4>1. WrittenAt(<<0, 0>>) = {}
        BY RootWritesNothing DEF Context
      <4>2. <<0, 0>> \in Node /\ Created(<<0, 0>>[1])
        BY MainFacts, BoundsAssumption DEF Context, Node
      <4>3. QED BY <2>3, <4>1, <4>2, StepFacts
    <3>2. QED BY <3>1 DEF Left
  <2>4. QED BY <2>1, <2>2, <2>3
<1>3. QED BY <1>1, <1>2

LEMMA SourceStays ==
  ASSUME Context, NEW n \in Rec, mem'.inc[n] = mem.inc[n], NEW x \in Var, NEW s, Source(n, x, s)
  PROVE  Source(n, x, s)'
<1>1. n \in Node /\ Created(n[1]) /\ n \in Rec'
  BY RecordedNode, StepFacts DEF Context
<1>2. /\ s \in Node \cup {Bot} /\ HasEdge(mem, ReadEdge(s, x), n)
      /\ x \in WrittenAt(n) => s \in Overwritten(mem, n, x)
      /\ s = InitLast(x) \/ (s \in Rec /\ x \in WrittenAt(s))
      /\ Before(n)[x] = Left(s, x)
  BY DEF Source
<1>3. HasEdge(mem', ReadEdge(s, x), n) /\ Overwritten(mem', n, x) = Overwritten(mem, n, x)
  BY <1>2 DEF HasEdge, Overwritten
<1>4. WrittenAt(n)' = WrittenAt(n) /\ Before(n)' = Before(n)
  BY <1>1, StepFacts
<1>5. Left(s, x)' = Left(s, x)
  BY <1>2, LeftStays
<1>6. s \in Rec => s \in Rec' /\ WrittenAt(s)' = WrittenAt(s)
  BY RecordedNode, StepFacts DEF Context
<1>7. QED BY <1>2, <1>3, <1>4, <1>5, <1>6 DEF Source

LEMMA RecordStays ==
  ASSUME Context, \A n \in Rec : mem'.inc[n] = mem.inc[n], NEW n \in Rec
  PROVE  /\ \A x \in ReadAt(n)' : \E s : Source(n, x, s)'
         /\ \A x \in WrittenAt(n)' :
               /\ OpAt(n)' \in {"+=", "-=", "<=>"} =>
                     After(n)'[x] = Effect(InstrAt(n)', FALSE, Before(n)', x)
               /\ OpAt(n)' \in {"V", "P"} =>
                     Before(n)'[x] = 1 - LeftBy(n)' /\ After(n)'[x] = LeftBy(n)'
<1>1. SourcesRecorded /\ EffectsRecorded
  BY DEF Context, Told
<1>2. n \in Node /\ Created(n[1]) /\ n[2] < CodeLen(n[1])
  BY RecordedNode DEF Context
<1>3. /\ WrittenAt(n)' = WrittenAt(n) /\ ReadAt(n)' = ReadAt(n)
      /\ OpAt(n)' = OpAt(n) /\ InstrAt(n)' = InstrAt(n) /\ LeftBy(n)' = LeftBy(n)
      /\ Before(n)' = Before(n) /\ After(n)' = After(n)
  BY <1>2, StepFacts
<1>4. ReadAt(n) \in SUBSET Var
  BY <1>2, NodeInstr DEF Context
<1>5. \A x \in ReadAt(n)' : \E s : Source(n, x, s)'
  BY <1>1, <1>3, <1>4, SourceStays DEF SourcesRecorded
<1>6. QED BY <1>1, <1>3, <1>5 DEF EffectsRecorded, InstrAt

-----------------------------------------------------------------------------
(* Who waits for a semaphore                                               *)

\* Only SemWait makes a process wait; whoever waits does so until it has executed
\* its block, and nobody turns around meanwhile.
LEMMA WaitersMove ==
  ASSUME Ind, [Next]_vars, NEW p \in Pid
  PROVE  /\ Waits(p)' => (Waits(p) /\ pc'[p] = pc[p] /\ rev' = rev) \/ SemWait(p)
         /\ Waits(p) => (Waits(p)' /\ pc'[p] = pc[p]) \/ rev \/ pc[p] < pc'[p]
<1>1. /\ status \in [Pid -> Status] /\ pc \in [Pid -> 0..MaxPc] /\ rev \in BOOLEAN
      /\ waitq \in [Var -> Seq(Pid)]
  BY DEF Ind, TypeOK
<1>2. Waits(p) => Active(p) /\ Inside(p) /\ Busy(p)
  BY DEF Waits, Active, Inside, Busy
<1>3. \A n : n = CurrentNode(p) => n[1] = p /\ (Waits(p) => n = <<p, pc[p]>>)
  BY DEF CurrentNode, Waits
<1> DEFINE Stays == Waits(p) /\ pc'[p] = pc[p] /\ rev' = rev
           Goes  == (Waits(p)' /\ pc'[p] = pc[p]) \/ rev \/ pc[p] < pc'[p]
           Thus  == (Waits(p)' => Stays \/ SemWait(p)) /\ (Waits(p) => Goes)
<1>4. ASSUME NEW q \in Pid, Check(q) \/ Exec(q) \/ CallEnd(q)
      PROVE  Thus
  <2>1. status[q] \in {"run", "ready", "call"} /\ ~Waits(q) /\ rev' = rev
    BY <1>4 DEF Check, Exec, CallEnd, Waits
  <2>2. p = q => ~Waits(p)'
    BY <1>1, <1>4 DEF Check, Exec, CallEnd, Waits, AfterBlock
  <2>3. CurrentNode(q)[1] = q
    BY DEF CurrentNode
  <2>4. p # q => status'[p] = status[p] /\ pc'[p] = pc[p]
    BY <1>1, <1>4, <2>3 DEF Check, Exec, CallEnd, FinishBlock
  <2>5. QED BY <2>1, <2>2, <2>4 DEF Waits
<1>5. ASSUME NEW q \in Pid, SemTake(q)
      PROVE  Thus
  <2> DEFINE n == CurrentNode(q)
             x == CurrentInstr(q).dst
  <2>1. /\ rev' = rev
        /\ pc' = [pc EXCEPT ![n[1]] = IF rev THEN n[2] ELSE n[2] + 1]
        /\ status' = [r \in Pid |-> IF r = q THEN AfterBlock(n)
                                    ELSE IF r \in NotifySem(x) THEN "woken"
                                    ELSE status[r]]
    BY <1>5 DEF SemTake, FinishBlock
  <2>2. n[1] = q /\ (Waits(q) => n[2] = pc[q])
    BY DEF CurrentNode, Waits
  <2>3. \A r \in NotifySem(x) : status[r] = "wait"
    BY <1>5, NotifiedWait
  <2> HIDE DEF n, x
  <2>4. CASE p = q
    <3>1. ~Waits(p)'
      BY <2>1, <2>4 DEF Waits, AfterBlock
    <3>2. ASSUME Waits(p), ~rev
          PROVE  pc[p] < pc'[p]
      <4>1. pc'[p] = pc[p] + 1 /\ pc[p] \in Nat
        BY <1>1, <2>1, <2>2, <2>4, <3>2
      <4>2. QED BY <4>1
    <3>3. QED BY <3>1, <3>2
  <2>5. CASE p # q
    <3>1. pc'[p] = pc[p]
      BY <1>1, <2>1, <2>2, <2>5
    <3>2. Waits(p)' <=> Waits(p)
      BY <2>1, <2>3, <2>5 DEF Waits
    <3>3. QED BY <2>1, <3>1, <3>2
  <2>6. QED BY <2>4, <2>5
<1>6. ASSUME NEW q \in Pid, SemWait(q)
      PROVE  Thus
  <2> DEFINE n == CurrentNode(q)
  <2>1. /\ rev' = rev /\ pc' = [pc EXCEPT ![q] = n[2]]
        /\ status' = [status EXCEPT ![q] = "wait"]
    BY <1>6 DEF SemWait
  <2>2. Waits(q) => n[2] = pc[q]
    BY DEF CurrentNode, Waits
  <2> HIDE DEF n
  <2>3. CASE p = q
    BY <1>1, <1>6, <2>1, <2>2, <2>3 DEF Waits
  <2>4. CASE p # q
    BY <1>1, <2>1, <2>4 DEF Waits
  <2>5. QED BY <2>3, <2>4
<1>7. ASSUME NEW q \in Pid, CallBegin(q)
      PROVE  Thus
  <2> DEFINE n == CurrentNode(q)
             kids == CallPids(n, Len(CurrentInstr(q).names))
  <2>1. /\ Busy(q) /\ status[q] = "ready" /\ rev' = rev /\ pc' = [pc EXCEPT ![q] = n[2]]
        /\ status' = [r \in Pid |-> IF \E j \in DOMAIN kids : kids[j] = r THEN "run"
                                    ELSE IF r = q THEN "call" ELSE status[r]]
    BY <1>7 DEF CallBegin, Busy
  <2>2. Startable(n, kids)
    BY <1>7, OldChildrenStartable, NewChildrenStartable
  <2>3. \A j \in DOMAIN kids : status[kids[j]] \in {"done", "none"}
    <3> HIDE DEF n, kids
    <3> QED BY <2>2 DEF Startable, Range
  <2> HIDE DEF n, kids
  <2>4. Waits(p) => p # q /\ ~\E j \in DOMAIN kids : kids[j] = p
    BY <2>1, <2>3 DEF Waits
  <2>5. Waits(p)' <=> Waits(p)
    BY <2>1, <2>4 DEF Waits
  <2>6. Waits(p) => pc'[p] = pc[p]
    BY <1>1, <2>1, <2>4
  <2>7. QED BY <2>1, <2>5, <2>6
<1>8. CASE Suspend \/ Resume
  <2>1. status[0] \in {"run", "done"} /\ pc' = pc
    BY <1>8 DEF Suspend, Resume
  <2>2. ~Waits(p)
    BY <2>1, IndImpliesQuiescent DEF Quiescent, Waits, Active
  <2>3. ~Waits(p)'
    BY <1>1, <1>8, <2>2 DEF Suspend, Resume, Waits
  <2>4. QED BY <2>2, <2>3
<1>9. CASE UNCHANGED vars
  BY <1>9 DEF vars, Waits
<1>10. Thus
  <2>1. ASSUME NEW q \in Pid, ProcStep(q)
        PROVE  Thus
    <3> HIDE DEF Thus
    <3> QED BY <1>4, <1>5, <1>6, <1>7, <2>1 DEF ProcStep
  <2>2. (\E q \in Pid : ProcStep(q)) \/ Suspend \/ Resume \/ UNCHANGED vars
    BY DEF Next, Idle, Crashed
  <2>3. CASE \E q \in Pid : ProcStep(q)
    BY <2>1, <2>3
  <2>4. QED BY <1>8, <1>9, <2>2, <2>3
<1>11. QED BY <1>10

\* What a V or P finds when it has to wait.
LEMMA SemWaitFinds ==
  ASSUME Ind, NEW p \in Pid, SemWait(p), NEW n, n = CurrentNode(p)
  PROVE  /\ Busy(p) /\ rev' = rev /\ pc'[p] = n[2]
         /\ n \in Node /\ Created(n[1]) /\ n[2] < CodeLen(n[1]) /\ OpAt(n) \in {"V", "P"}
         /\ \E x \in WrittenAt(n) :
               x \in Var /\ mem.val[x] # IF rev THEN LeftBy(n) ELSE 1 - LeftBy(n)
<1> DEFINE i == CurrentInstr(p)
<1>1. /\ Busy(p) /\ i.op \in {"V", "P"} /\ mem.val[i.dst] # SemFrom(i)
      /\ pc' = [pc EXCEPT ![p] = n[2]] /\ rev' = rev
  BY DEF SemWait, SemFree, Busy, Inside
<1>2. /\ n \in Node /\ n[1] = p /\ Created(p) /\ n[2] < CodeLen(p) /\ WellFormed(i)
      /\ WrittenAt(n) = WrittenBy(i) /\ OpAt(n) = i.op
  BY <1>1, BusyNode
<1>3. rev \in BOOLEAN /\ pc \in [Pid -> 0..MaxPc]
  BY DEF Ind, TypeOK
<1>4. SemFrom(i) = IF rev THEN LeftBy(n) ELSE 1 - LeftBy(n)
  <2>1. LeftBy(n) = IF i.op = "V" THEN 1 ELSE 0
    BY <1>2 DEF LeftBy, OpAt
  <2>2. QED BY <1>1, <1>3, <2>1 DEF SemFrom
<1> HIDE DEF i
<1>5. i.dst \in WrittenAt(n) /\ i.dst \in Var
  BY <1>1, <1>2 DEF WrittenBy, WellFormed
<1>6. QED BY <1>1, <1>2, <1>3, <1>4, <1>5

\* A V or P that is replayed, or that may be undone, finds the value it needs.
LEMMA ReplayFindsSem ==
  ASSUME Context, ~rev, NEW n \in Rec, n \notin Done, OpAt(n) \in {"V", "P"},
         \A i \in DOMAIN mem.inc[n] : mem.inc[n][i].src = Bot \/ Executed(mem.inc[n][i].src),
         NEW x \in WrittenAt(n)
  PROVE  mem.val[x] = 1 - LeftBy(n)
<1>1. Created(n[1]) /\ n[2] < CodeLen(n[1]) /\ n \in Node
  BY RecordedNode DEF Context
<1>2. x \in ReadAt(n)
  BY <1>1, NodeInstr DEF Context
<1>3. mem.val[x] = Before(n)[x]
  BY <1>2, ReadersFirstNow, ReplayFindsSources DEF Context
<1>4. QED BY <1>3 DEF Context, Told, EffectsRecorded

LEMMA UndoFindsSem ==
  ASSUME Context, rev, NEW n \in Done, mem.ctr[n] = 0, OpAt(n) \in {"V", "P"},
         NEW x \in WrittenAt(n)
  PROVE  mem.val[x] = LeftBy(n)
<1>1. mem.val[x] = After(n)[x]
  BY UndoFindsResults DEF Context
<1>2. n \in Rec
  BY DEF Context, Recorded, RecordFits, Done
<1>3. QED BY <1>1, <1>2 DEF Context, Told, EffectsRecorded

LEMMA OnlyNewBegin ==
  ASSUME Context, NEW p \in Pid, SemWait(p)
  PROVE  ~rev /\ CurrentNode(p) \notin Rec
<1> DEFINE n == CurrentNode(p)
<1>1. Ind /\ CheckStillHolds /\ History /\ turns <= 2 /\ OnlyNewWait
  BY DEF Context, Told
<1>2. /\ Busy(p) /\ n \in Node /\ OpAt(n) \in {"V", "P"}
      /\ \E x \in WrittenAt(n) : mem.val[x] # IF rev THEN LeftBy(n) ELSE 1 - LeftBy(n)
  BY <1>1, SemWaitFinds
<1>3. ASSUME rev
      PROVE  FALSE
  <2>1. status[p] = "ready"
    BY <1>1, <1>3 DEF SemWait, OnlyNewWait, Waits
  <2>2. Executed(n) /\ mem.ctr[n] = 0
    BY <1>1, <1>2, <1>3, <2>1, BusyNode, BackwardNode
  <2> HIDE DEF n
  <2>3. QED BY <1>2, <1>3, <2>2, UndoFindsSem DEF Done
<1>4. ASSUME ~rev, n \in Rec
      PROVE  FALSE
  <2>1. /\ ~Executed(n)
        /\ \A i \in DOMAIN mem.inc[n] : mem.inc[n][i].src = Bot \/ Executed(mem.inc[n][i].src)
    BY <1>1, <1>2, <1>4, BusyNode, ForwardNode
  <2> HIDE DEF n
  <2>2. n \notin Done
    BY <2>1 DEF Done
  <2>3. QED BY <1>2, <1>4, <2>1, <2>2, ReplayFindsSem
<1>5. QED BY <1>3, <1>4

\* The edges of a node change only when it goes forward.
LEMMA NewEdges ==
  ASSUME Context, NEW d \in Node, mem'.inc[d] # mem.inc[d]
  PROVE  \E R \in SUBSET Var : Forward(d, R, TRUE) \/ Forward(d, R, FALSE)
<1>1. StepKind /\ mem \in Store
  BY StepFacts DEF Context, Ind, TypeOK
<1>2. ASSUME NEW n \in Node, NEW R \in SUBSET Var, Forward(n, R, TRUE) \/ Forward(n, R, FALSE)
      PROVE  d = n
  BY <1>2 DEF Forward, Records
<1>3. ASSUME NEW n \in Node, Backward(n)
      PROVE  FALSE
  <2>1. PICK m : Forgets(mem, m, n, WrittenAt(n)) /\ mem' = RunModifyDagRev(m, n)
    BY <1>3 DEF Backward
  <2>2. mem'.inc = mem.inc
    BY <2>1, RunModifyDagRevEffect DEF Forgets
  <2>3. QED BY <2>2
<1>4. QED BY <1>1, <1>2, <1>3 DEF StepKind, BeginsUndo, Quiet, TurnsAround

LEMMA WaitersStayNew ==
  ASSUME Context
  PROVE  OnlyNewWait'
<1>1. /\ Ind /\ [Next]_vars /\ OnlyNewWait /\ Recorded'
      /\ \A n \in Node : n \in Rec' <=> n \in Rec \/ Does(n)
  BY StepFacts DEF Context, Told
<1>2. pc \in [Pid -> 0..MaxPc] /\ pc' \in [Pid -> 0..MaxPc]
  BY DEF Context, Ind, TypeOK
<1>3. ASSUME NEW p \in Pid, Waits(p)'
      PROVE  ~rev' /\ <<p, pc'[p]>> \notin Rec'
  <2> DEFINE n == <<p, pc'[p]>>
  <2>1. ~rev /\ rev' = rev /\ n \notin Rec
    <3>1. CASE Waits(p) /\ pc'[p] = pc[p] /\ rev' = rev
      BY <1>1, <3>1 DEF OnlyNewWait
    <3>2. CASE SemWait(p)
      <4> DEFINE c == CurrentNode(p)
      <4>1. rev' = rev /\ pc'[p] = c[2] /\ c[1] = p /\ c \in Node
        BY <1>1, <3>2, SemWaitFinds, BusyNode
      <4>2. c = <<p, pc'[p]>>
        BY <4>1 DEF Node
      <4>3. QED BY <3>2, <4>1, <4>2, OnlyNewBegin
    <3>3. QED BY <1>1, <1>3, <3>1, <3>2, WaitersMove
  <2>2. ASSUME NEW d, d = n
        PROVE  ~Does(d)
    BY <1>2, <2>2 DEF Does, Executed
  <2>3. n \in Node
    BY <1>2 DEF Node
  <2>4. QED BY <1>1, <2>1, <2>2, <2>3
<1>4. ASSUME NEW n \in Node, n \notin Rec', mem'.inc[n] # <<>>
      PROVE  n[2] = pc'[n[1]] /\ Waits(n[1])'
  <2>1. n \notin Rec /\ ~Does(n) /\ n[1] \in Pid /\ ~Executed(n)'
    BY <1>1, <1>4, NodeType DEF Recorded, RecordFits
  <2>2. CASE mem'.inc[n] = mem.inc[n]
    <3>1. n[2] = pc[n[1]] /\ Waits(n[1]) /\ ~rev
      BY <1>1, <1>4, <2>1, <2>2 DEF OnlyNewWait
    <3>2. (Waits(n[1])' /\ pc'[n[1]] = pc[n[1]]) \/ rev \/ pc[n[1]] < pc'[n[1]]
      BY <1>1, <2>1, <3>1, WaitersMove
    <3>3. QED BY <2>1, <3>1, <3>2 DEF Executed
  <2>3. CASE mem'.inc[n] # mem.inc[n]
    <3>1. PICK R \in SUBSET Var : Forward(n, R, TRUE) \/ Forward(n, R, FALSE)
      BY <2>3, NewEdges
    <3>2. Forward(n, R, FALSE)
      BY <2>1, <3>1 DEF Forward
    <3>3. Pauses(n) /\ Created(n[1]) /\ n[2] < CodeLen(n[1]) /\ R = ReadAt(n)
      BY <3>2 DEF Forward
    <3>4. OpAt(n) # "call"
      <4>1. OpAt(n) = "call" => R = {}
        BY <1>1, <3>3, NodeInstr
      <4>2. R = {} => Repeats(mem, n, R, WrittenIf(n, FALSE))
        BY DEF Repeats, WrittenIf
      <4>3. QED BY <2>3, <3>2, <4>1, <4>2 DEF Forward, Records
    <3>5. QED BY <3>3, <3>4 DEF Pauses, Waits
  <2>4. QED BY <2>2, <2>3
<1>5. QED BY <1>3, <1>4 DEF OnlyNewWait


-----------------------------------------------------------------------------
(* Steps that leave the record or the store as they were                   *)

LEMMA LastIsDone ==
  ASSUME Context, NEW x \in Var
  PROVE  \/ mem.last[x] = InitLast(x)
         \/ mem.last[x] \in Done /\ mem.last[x] \in Rec /\ x \in WrittenAt(mem.last[x])
<1> DEFINE s == mem.last[x]
<1>1. WritersRecorded /\ Chained(mem, Done, x)
  BY DEF Context, Told, RecordChained
<1>2. s = InitLast(x) \/ (s \in Done /\ Overwritten(mem, s, x) # {})
  BY <1>1 DEF Chained, EndsAtLast, WritersIn
<1>3. s \in Done => s \in Node
  BY DEF Done
<1>4. QED BY <1>1, <1>2, <1>3 DEF WritersRecorded

LEMMA RecordKept ==
  ASSUME Context, Rec' = Rec, \A n \in Rec : mem'.inc[n] = mem.inc[n],
         \A n \in Node : \A x \in Var : Overwritten(mem', n, x) = Overwritten(mem, n, x)
  PROVE  /\ WritersRecorded' /\ SourcesRecorded' /\ EffectsRecorded'
         /\ \A x \in Var : OneEach(mem', Rec', x)
<1>1. \A n \in Rec : n \in Node /\ Created(n[1]) /\ WrittenAt(n)' = WrittenAt(n)
  BY RecordedNode, StepFacts DEF Context
<1>2. WritersRecorded /\ \A x \in Var : OneEach(mem, Rec, x)
  BY DEF Context, Told, RecordChained
<1>3. WritersRecorded'
  BY <1>1, <1>2 DEF WritersRecorded
<1>4. \A x \in Var : OneEach(mem', Rec', x)
  BY <1>1, <1>2 DEF OneEach
<1>5. SourcesRecorded' /\ EffectsRecorded'
  BY RecordStays DEF SourcesRecorded, EffectsRecorded, InstrAt
<1>6. QED BY <1>3, <1>4, <1>5

\* What Told says besides OnlyNewWait.
Says ==
    WritersRecorded /\ RecordChained /\ SourcesRecorded /\ EffectsRecorded /\ StoreIsLeft

\* Nothing is recorded, and nothing is undone but what has written nothing.
LEMMA SaysKept ==
  ASSUME Context, Rec' = Rec, \A n \in Rec : mem'.inc[n] = mem.inc[n],
         \A n \in Node : \A x \in Var : Overwritten(mem', n, x) = Overwritten(mem, n, x),
         \A x \in Var : mem'.val[x] = mem.val[x] /\ mem'.last[x] = mem.last[x],
         Done' \subseteq Done, \A n \in Done \ Done' : WrittenAt(n) = {}
  PROVE  Says'
<1>1. /\ WritersRecorded' /\ SourcesRecorded' /\ EffectsRecorded'
      /\ \A x \in Var : OneEach(mem', Rec', x)
  BY RecordKept
<1>2. ASSUME NEW x \in Var
      PROVE  Chained(mem', Done', x)
  <2>1. Chained(mem, Done, x) /\ WritersRecorded
    BY DEF Context, Told, RecordChained
  <2>2. \A n \in Done : n \in Node
    BY DEF Done
  <2>3. \A n \in Done' : Overwritten(mem', n, x) = IF n \in Done THEN Overwritten(mem, n, x) ELSE {}
    BY <2>2
  <2>4. \A n \in Done \ Done' : Overwritten(mem, n, x) = {}
    BY <2>1, <2>2 DEF WritersRecorded
  <2>5. QED BY <2>1, <2>3, <2>4, ChainUntouched
<1>3. ASSUME NEW x \in Var, NEW s, s = mem.last[x]
      PROVE  mem'.val[x] = Left(s, x)'
  <2>1. mem.val[x] = Left(s, x) /\ (s \in Rec \/ s = InitLast(x))
    BY <1>3, LastIsDone DEF Context, Told, StoreIsLeft
  <2>2. QED BY <2>1, LeftStays
<1>4. StoreIsLeft'
  <2>1. ASSUME NEW x \in Var, NEW s, s = mem'.last[x]
        PROVE  mem'.val[x] = Left(s, x)'
    BY <1>3, <2>1
  <2>2. QED BY <2>1 DEF StoreIsLeft, Left, WrittenAt, After, Rec
<1>5. QED BY <1>1, <1>2, <1>4 DEF Says, RecordChained


-----------------------------------------------------------------------------
(* A block is executed for the first time                                  *)

\* Node n, which reads R, goes forward: it writes W, and the nodes E are executed,
\* n or none.
Goes(n, R, W, E) ==
    /\ ~rev /\ n \notin Done /\ n # Bot
    /\ R = ReadAt(n) /\ W \subseteq R /\ W \subseteq WrittenAt(n)
    /\ Created(n[1]) /\ n[2] < CodeLen(n[1]) /\ n[1] \in Pid
    /\ Busy(n[1]) /\ n = <<n[1], pc[n[1]]>>
    /\ \A i \in DOMAIN mem.inc[n] : mem.inc[n][i].src = Bot \/ Executed(mem.inc[n][i].src)
    /\ \A d \in Node : Does(d) <=> d \in E
    /\ Done' = Done \cup E
    /\ \A x \in R : mem.last[x] # n
    /\ \A d \in DagNodes : \A x \in Var : n \notin Overwritten(mem, d, x)
    /\ Records(mem, mem', n, R, W)
    /\ \A d \in Node \ {n} : \A x \in Var : Overwritten(mem', d, x) = Overwritten(mem, d, x)

LEMMA ForwardGoes ==
  ASSUME Context, NEW n \in Node, NEW R \in SUBSET Var, NEW fin \in BOOLEAN, Forward(n, R, fin),
         NEW W, W = WrittenIf(n, fin), NEW E, E = IF fin THEN {n} ELSE {}
  PROVE  Goes(n, R, W, E)
<1>1. /\ Ind /\ History /\ turns <= 2
  BY DEF Context
<1>2. /\ ~rev /\ R = ReadAt(n) /\ Created(n[1]) /\ n[2] = pc[n[1]] /\ n[2] < CodeLen(n[1])
      /\ Busy(n[1]) /\ Records(mem, mem', n, R, W)
      /\ \A i \in DOMAIN mem.inc[n] : mem.inc[n][i].src = Bot \/ Executed(mem.inc[n][i].src)
      /\ \A d \in Node : Executed(d)' <=> Executed(d) \/ (fin /\ d = n)
  BY DEF Forward
<1>3. n[1] \in Pid /\ n[2] \in Nat /\ n # Bot /\ n = <<n[1], n[2]>>
  BY NodeType DEF Node
<1>4. ~Executed(n) /\ n \notin Done
  BY <1>2, <1>3 DEF Executed, Done
<1>5. \A d \in Node : Does(d) <=> d \in E
  BY <1>2, <1>4 DEF Does
<1>6. Done' = Done \cup E
  BY <1>2 DEF Done
<1>7. \A d \in DagNodes : \A x \in Var : n \notin Overwritten(mem, d, x)
  <2>1. SourcesExecuted
    BY <1>1, PhaseFacts
  <2>2. QED BY <1>3, <1>4, <2>1 DEF SourcesExecuted, Overwritten, HasEdge, WriteEdge
<1>8. \A d \in Node \ {n} : \A x \in Var : Overwritten(mem', d, x) = Overwritten(mem, d, x)
  BY <1>2 DEF Records, Overwritten, HasEdge
<1>9. W \subseteq R /\ W \subseteq WrittenAt(n)
  BY <1>1, <1>2, NodeInstr DEF WrittenIf
<1>10. \A x \in R : mem.last[x] # n
  BY <1>1, LastIsNotNext
<1>11. n = <<n[1], pc[n[1]]>>
  BY <1>2, <1>3
<1>12. QED
  BY <1>2, <1>3, <1>4, <1>5, <1>6, <1>7, <1>8, <1>9, <1>10, <1>11 DEF Goes

LEMMA EndGoes ==
  ASSUME Context, NEW n \in Node, NEW R \in SUBSET Var, Forward(n, R, TRUE)
  PROVE  Goes(n, R, WrittenAt(n), {n})
<1>1. PICK fin \in BOOLEAN : fin = TRUE
  OBVIOUS
<1>2. PICK W, E : W = WrittenIf(n, fin) /\ E = IF fin THEN {n} ELSE {}
  OBVIOUS
<1>3. Goes(n, R, W, E)
  BY <1>1, <1>2, ForwardGoes
<1>4. W = WrittenAt(n) /\ E = {n}
  BY <1>1, <1>2 DEF WrittenIf
<1>5. QED BY <1>3, <1>4

LEMMA PauseGoes ==
  ASSUME Context, NEW n \in Node, NEW R \in SUBSET Var, Forward(n, R, FALSE)
  PROVE  Goes(n, R, {}, {})
<1>1. PICK fin \in BOOLEAN : fin = FALSE
  OBVIOUS
<1>2. PICK W, E : W = WrittenIf(n, fin) /\ E = IF fin THEN {n} ELSE {}
  OBVIOUS
<1>3. Goes(n, R, W, E)
  BY <1>1, <1>2, ForwardGoes
<1>4. W = {} /\ E = {}
  BY <1>1, <1>2 DEF WrittenIf
<1>5. QED BY <1>3, <1>4

\* Then it has overwritten nothing so far, and overwrites the last writers.
LEMMA NewOverwrites ==
  ASSUME Context, NEW n \in Node, NEW R \in SUBSET Var, NEW W, NEW E, Goes(n, R, W, E),
         n \notin Rec, NEW x \in Var
  PROVE  /\ Overwritten(mem, n, x) = {}
         /\ Overwritten(mem', n, x) = IF x \in W THEN {mem.last[x]} ELSE {}
<1>1. Overwritten(mem, n, x) = {}
  BY DEF Context, Told, WritersRecorded
<1>2. \A s \in Node \cup {Bot} : ~HasEdge(mem, WriteEdge(s, x), n)
  BY <1>1 DEF Overwritten
<1>3. \A s : HasEdge(mem', WriteEdge(s, x), n) <=>
                \/ HasEdge(mem, WriteEdge(s, x), n)
                \/ \E y \in R : mem.last[y] # n
                      /\ WriteEdge(s, x) = [src |-> mem.last[y], var |-> y, wt |-> FALSE]
                \/ \E y \in W : mem.last[y] # n /\ WriteEdge(s, x) = WriteEdge(mem.last[y], y)
  BY DEF Goes, Records
<1>4. \A s, y, t : /\ WriteEdge(s, x) # [src |-> t, var |-> y, wt |-> FALSE]
                   /\ WriteEdge(s, x) = WriteEdge(t, y) <=> s = t /\ x = y
  BY DEF WriteEdge
<1>5. x \in W => mem.last[x] # n
  BY DEF Goes
<1>6. mem.last[x] \in Node \cup {Bot}
  BY DEF Context, Ind, TypeOK, Store
<1>7. \A s \in Node \cup {Bot} :
         HasEdge(mem', WriteEdge(s, x), n) <=> x \in W /\ s = mem.last[x]
  BY <1>2, <1>3, <1>4, <1>5
<1>8. QED BY <1>1, <1>6, <1>7 DEF Overwritten

LEMMA NewPauseSays ==
  ASSUME Context, NEW n \in Node, NEW R \in SUBSET Var, Forward(n, R, FALSE), n \notin Rec
  PROVE  Says'
<1>1. Goes(n, R, {}, {})
  BY PauseGoes
<1>2. /\ \A d \in Node : ~Does(d)
      /\ Done' = Done
      /\ \A d \in Node \ {n} : mem'.inc[d] = mem.inc[d]
      /\ \A d \in Node \ {n} : \A x \in Var : Overwritten(mem', d, x) = Overwritten(mem, d, x)
      /\ \A x \in Var : mem'.last[x] = mem.last[x] /\ mem'.val[x] = mem.val[x]
  BY <1>1 DEF Goes, Records
<1>3. \A x \in Var : Overwritten(mem', n, x) = Overwritten(mem, n, x)
  BY <1>1, NewOverwrites
<1>4. Rec' = Rec /\ Rec \subseteq Node
  BY <1>2, StepFacts DEF Rec
<1>5. QED BY <1>2, <1>3, <1>4, SaysKept

LEMMA NewBlockSays ==
  ASSUME Context, NEW n \in Node, NEW R \in SUBSET Var, Forward(n, R, TRUE), n \notin Rec
  PROVE  Says'
<1>1. Goes(n, R, WrittenAt(n), {n})
  BY EndGoes
<1>2. /\ ~rev /\ rev = FALSE /\ n \notin Done /\ n # Bot /\ R = ReadAt(n)
      /\ Created(n[1]) /\ n[2] < CodeLen(n[1]) /\ n[1] \in Pid /\ Busy(n[1])
      /\ n = <<n[1], pc[n[1]]>>
      /\ \A d \in Node : Does(d) <=> d = n
      /\ Done' = Done \cup {n}
      /\ \A d \in DagNodes : \A x \in Var : n \notin Overwritten(mem, d, x)
      /\ \A d \in Node \ {n} : mem'.inc[d] = mem.inc[d]
      /\ \A d \in Node \ {n} : \A x \in Var : Overwritten(mem', d, x) = Overwritten(mem, d, x)
      /\ \A x \in Var : /\ mem'.last[x] = IF x \in WrittenAt(n) THEN n ELSE mem.last[x]
                        /\ x \notin WrittenAt(n) => mem'.val[x] = mem.val[x]
      /\ WrittenAt(n) \subseteq R
      /\ \A x \in R : mem.last[x] # n
  BY <1>1 DEF Goes, Records, Context, Ind, TypeOK
<1>3. \A x \in Var : /\ Overwritten(mem, n, x) = {}
                     /\ Overwritten(mem', n, x) =
                           IF x \in WrittenAt(n) THEN {mem.last[x]} ELSE {}
  BY <1>1, NewOverwrites
<1>5. Rec = Done
  <2>1. Rec \subseteq Done
    BY <1>2, CaughtUp DEF Context
  <2>2. Done \subseteq Rec
    BY DEF Context, Recorded, RecordFits, Done
  <2>3. QED BY <2>1, <2>2
<1>6. Rec' = Rec \cup {n} /\ Rec \subseteq Node /\ Rec' = Done'
  <2>1. \A d \in Node : d \in Rec' <=> d \in Rec \/ d = n
    BY <1>2, StepFacts
  <2>2. Rec \subseteq Node /\ Rec' \subseteq Node
    BY DEF Rec
  <2>3. QED BY <1>2, <1>5, <2>1, <2>2
<1>7. /\ WritersRecorded /\ StoreIsLeft /\ Says
      /\ \A x \in Var : Chained(mem, Done, x)
  BY DEF Context, Told, RecordChained, Says
<1>8. /\ \A d \in Rec' : WrittenAt(d)' = WrittenAt(d)
      /\ ReadAt(n)' = ReadAt(n) /\ OpAt(n)' = OpAt(n) /\ InstrAt(n)' = InstrAt(n)
      /\ LeftBy(n)' = LeftBy(n) /\ WrittenAt(n)' = WrittenAt(n)
      /\ Before(n)' = mem.val /\ After(n)' = mem'.val
  <2>1. \A d \in Rec : d \in Node /\ Created(d[1])
    BY RecordedNode DEF Context
  <2>2. QED BY <1>2, <1>6, <2>1, StepFacts
<1>9. \A d \in Rec : d # n /\ mem'.inc[d] = mem.inc[d] /\ d \in Node
  BY <1>2, <1>5, <1>6
<1>10. WritersRecorded'
  <2> SUFFICES ASSUME NEW d \in Node, NEW x \in Var
               PROVE  Overwritten(mem', d, x) # {} <=> d \in Rec' /\ x \in WrittenAt(d)'
    BY DEF WritersRecorded
  <2>1. CASE d = n
    BY <1>3, <1>6, <1>8, <2>1
  <2>2. CASE d # n
    BY <1>2, <1>6, <1>7, <1>8, <2>2 DEF WritersRecorded
  <2>3. QED BY <2>1, <2>2
<1>11. ASSUME NEW x \in Var
       PROVE  Chained(mem', Done', x) /\ OneEach(mem', Rec', x)
  <2>1. \A d \in Done : d \in DagNodes /\ d \in Node
    BY DEF Done, DagNodes, InDag
  <2>2. CASE x \in WrittenAt(n)
    <3>1. /\ n # mem.last[x] /\ mem'.last[x] = n /\ Overwritten(mem', n, x) = {mem.last[x]}
          /\ \A d \in Done \ {n} : Overwritten(mem', d, x) = Overwritten(mem, d, x)
          /\ \A d \in Done : n \notin Overwritten(mem, d, x)
      BY <1>2, <1>3, <2>1, <2>2
    <3>2. Chained(mem', Done \cup {n}, x)
      BY <1>3, <1>7, <3>1, ChainExtended
    <3>3. QED BY <1>2, <1>6, <3>2 DEF Chained
  <2>3. CASE x \notin WrittenAt(n)
    <3>1. /\ mem'.last[x] = mem.last[x]
          /\ \A d \in Done' : Overwritten(mem', d, x) =
                                 IF d \in Done THEN Overwritten(mem, d, x) ELSE {}
          /\ Done \ Done' = {}
      BY <1>2, <1>3, <2>1, <2>3
    <3>2. Chained(mem', Done', x)
      BY <1>7, <3>1, ChainUntouched
    <3>3. QED BY <1>6, <3>2 DEF Chained
  <2>4. QED BY <2>2, <2>3
<1>12. ASSUME NEW x \in R, NEW s, s = mem.last[x]
       PROVE  Source(n, x, s)'
  <2>1. x \in Var /\ s # n /\ s \in Node \cup {Bot}
    BY <1>2, <1>12 DEF Context, Ind, TypeOK, Store
  <2>2. HasEdge(mem', ReadEdge(s, x), n)
    BY <1>12, <2>1 DEF Forward, Records, ReadEdge
  <2>3. x \in WrittenAt(n)' => s \in Overwritten(mem', n, x)
    BY <1>3, <1>8, <1>12, <2>1
  <2>4. s = InitLast(x) \/ (s \in Rec /\ x \in WrittenAt(s))
    BY <1>12, <2>1, LastIsDone
  <2>5. s \in Rec => s \in Rec' /\ WrittenAt(s)' = WrittenAt(s)
    BY <1>6, <1>8
  <2>6. Before(n)'[x] = Left(s, x)'
    <3>1. mem.val[x] = Left(s, x)
      BY <1>7, <1>12, <2>1 DEF StoreIsLeft
    <3>2. Left(s, x)' = Left(s, x)
      BY <2>1, <2>4, LeftStays
    <3>3. QED BY <1>8, <3>1, <3>2
  <2>7. QED BY <2>1, <2>2, <2>3, <2>4, <2>5, <2>6 DEF Source
<1>13. ASSUME NEW d \in Rec
       PROVE  /\ \A x \in ReadAt(d)' : \E s : Source(d, x, s)'
              /\ \A x \in WrittenAt(d)' :
                    /\ OpAt(d)' \in {"+=", "-=", "<=>"} =>
                          After(d)'[x] = Effect(InstrAt(d)', FALSE, Before(d)', x)
                    /\ OpAt(d)' \in {"V", "P"} =>
                          Before(d)'[x] = 1 - LeftBy(d)' /\ After(d)'[x] = LeftBy(d)'
  BY <1>9, RecordStays
<1>14. SourcesRecorded'
  <2>1. ASSUME NEW d \in Rec', NEW x \in ReadAt(d)'
        PROVE  \E s : Source(d, x, s)'
    <3>1. CASE d \in Rec
      BY <1>13, <3>1
    <3>2. CASE d = n
      <4>1. x \in R
        BY <1>2, <1>8, <3>2
      <4>2. QED BY <1>12, <3>2, <4>1
    <3>3. QED BY <1>6, <3>1, <3>2
  <2>2. QED BY <2>1 DEF SourcesRecorded, ReadAt
<1>15. EffectsRecorded'
  <2>1. ASSUME NEW x \in WrittenAt(n)
        PROVE  /\ OpAt(n) \in {"+=", "-=", "<=>"} =>
                     mem'.val[x] = Effect(InstrAt(n), FALSE, mem.val, x)
               /\ OpAt(n) \in {"V", "P"} =>
                     mem.val[x] = 1 - LeftBy(n) /\ mem'.val[x] = LeftBy(n)
    BY <1>2 DEF Forward, Flips, Computes, InstrAt
  <2>2. ASSUME NEW d \in Rec', NEW x \in WrittenAt(d)'
        PROVE  /\ OpAt(d)' \in {"+=", "-=", "<=>"} =>
                     After(d)'[x] = Effect(InstrAt(d)', FALSE, Before(d)', x)
               /\ OpAt(d)' \in {"V", "P"} =>
                     Before(d)'[x] = 1 - LeftBy(d)' /\ After(d)'[x] = LeftBy(d)'
    <3>1. CASE d \in Rec
      BY <1>13, <3>1
    <3>2. CASE d = n
      BY <1>8, <2>1, <3>2
    <3>3. QED BY <1>6, <3>1, <3>2
  <2>3. QED BY <2>2 DEF EffectsRecorded, InstrAt
<1>16. StoreIsLeft'
  <2>1. ASSUME NEW x \in Var, NEW s, s = mem'.last[x]
        PROVE  mem'.val[x] = Left(s, x)'
    <3>1. CASE x \in WrittenAt(n)
      BY <1>2, <1>6, <1>8, <2>1, <3>1 DEF Left
    <3>2. CASE x \notin WrittenAt(n)
      <4>1. s = mem.last[x] /\ mem'.val[x] = mem.val[x] /\ mem.val[x] = Left(s, x)
        BY <1>2, <1>7, <2>1, <3>2 DEF StoreIsLeft
      <4>2. s \in Rec \/ s = InitLast(x)
        BY <4>1, LastIsDone
      <4>3. QED BY <4>1, <4>2, LeftStays
    <3>3. QED BY <3>1, <3>2
  <2>2. QED BY <2>1 DEF StoreIsLeft, Left, WrittenAt, After, Rec
<1>17. QED BY <1>10, <1>11, <1>14, <1>15, <1>16 DEF Says, RecordChained


-----------------------------------------------------------------------------
(* A block is replayed                                                     *)

\* It has all the edges it would get, from the last writers of what it reads, and
\* the store has the values it had found.
LEMMA ReplayRepeats ==
  ASSUME Context, NEW n \in Rec, NEW R \in SUBSET Var, NEW W, NEW E, Goes(n, R, W, E)
  PROVE  /\ mem'.inc = mem.inc
         /\ \A x \in R : Source(n, x, mem.last[x]) /\ mem.val[x] = Before(n)[x]
<1>1. /\ R = ReadAt(n) /\ W \subseteq R /\ W \subseteq WrittenAt(n)
      /\ n \notin Done /\ Created(n[1]) /\ n[2] < CodeLen(n[1])
      /\ \A i \in DOMAIN mem.inc[n] : mem.inc[n][i].src = Bot \/ Executed(mem.inc[n][i].src)
      /\ Records(mem, mem', n, R, W)
  BY DEF Goes
<1>2. ASSUME NEW x \in R
      PROVE  Source(n, x, mem.last[x]) /\ mem.val[x] = Before(n)[x]
  BY <1>1, ReadersFirstNow, ReplayFindsSources DEF Context
<1>3. \A x \in R : HasEdge(mem, ReadEdge(mem.last[x], x), n)
  BY <1>2 DEF Source
<1>4. \A x \in W : HasEdge(mem, WriteEdge(mem.last[x], x), n)
  BY <1>1, <1>2 DEF Source, Overwritten
<1>5. mem'.inc = mem.inc
  BY <1>1, <1>3, <1>4 DEF Records, Repeats
<1>6. QED BY <1>2, <1>5


LEMMA ReplayPauseSays ==
  ASSUME Context, NEW n \in Rec, NEW R \in SUBSET Var, Forward(n, R, FALSE)
  PROVE  Says'
<1>1. Goes(n, R, {}, {}) /\ mem'.inc = mem.inc
  BY PauseGoes, ReplayRepeats DEF Rec
<1>2. /\ \A d \in Node : ~Does(d)
      /\ Done' = Done
      /\ \A x \in Var : mem'.last[x] = mem.last[x] /\ mem'.val[x] = mem.val[x]
  BY <1>1 DEF Goes, Records
<1>3. \A d \in Node : \A x \in Var : Overwritten(mem', d, x) = Overwritten(mem, d, x)
  BY <1>1 DEF Overwritten, HasEdge
<1>4. Rec' = Rec /\ Rec \subseteq Node
  BY <1>2, StepFacts DEF Rec
<1>5. QED BY <1>1, <1>2, <1>3, <1>4, SaysKept

\* A block that is replayed to its end gives what it writes the values that the
\* first execution gave it.
LEMMA ReplayGivesAfter ==
  ASSUME Context, NEW n \in Rec, NEW R \in SUBSET Var, Forward(n, R, TRUE),
         NEW x \in WrittenAt(n)
  PROVE  mem'.val[x] = After(n)[x]
<1>1. Goes(n, R, WrittenAt(n), {n}) /\ Flips(n) /\ Computes(n) /\ R = ReadAt(n) /\ ~rev
  BY EndGoes DEF Forward, Rec
<1>2. /\ n \in Node /\ Created(n[1]) /\ n[2] < CodeLen(n[1])
      /\ rev = FALSE
  BY <1>1, RecordedNode DEF Context, Ind, TypeOK
<1>3. /\ InstrAt(n) \in Instr /\ WellFormed(InstrAt(n)) /\ OpAt(n) = InstrAt(n).op
      /\ WrittenAt(n) = WrittenBy(InstrAt(n)) /\ ReadAt(n) = ReadBy(InstrAt(n))
      /\ OpAt(n) \in {"V", "P", "+=", "-=", "<=>"}
  BY <1>2, NodeInstr DEF Context
<1>4. EffectsRecorded
  BY DEF Context, Told
<1>5. CASE OpAt(n) \in {"V", "P"}
  BY <1>1, <1>2, <1>4, <1>5 DEF Flips, EffectsRecorded
<1>6. CASE OpAt(n) \in {"+=", "-=", "<=>"}
  <2>1. \A y \in ReadBy(InstrAt(n)) : mem.val[y] = Before(n)[y]
    BY <1>1, <1>3, ReplayRepeats
  <2>2. /\ mem'.val[x] = Effect(InstrAt(n), FALSE, mem.val, x)
        /\ After(n)[x] = Effect(InstrAt(n), FALSE, Before(n), x)
    BY <1>1, <1>2, <1>4, <1>6 DEF Computes, EffectsRecorded, InstrAt
  <2>3. Effect(InstrAt(n), FALSE, mem.val, x) = Effect(InstrAt(n), FALSE, Before(n), x)
    BY <1>3, <1>6, <2>1, EffectOfReads
  <2>4. QED BY <2>2, <2>3
<1>7. QED BY <1>3, <1>5, <1>6

LEMMA ReplayBlockSays ==
  ASSUME Context, NEW n \in Rec, NEW R \in SUBSET Var, Forward(n, R, TRUE)
  PROVE  Says'
<1>1. /\ Goes(n, R, WrittenAt(n), {n}) /\ mem'.inc = mem.inc /\ n \in Node
      /\ \A x \in R : Source(n, x, mem.last[x])
  BY EndGoes, ReplayRepeats DEF Rec
<1>2. /\ n \notin Done /\ WrittenAt(n) \subseteq R
      /\ \A d \in Node : Does(d) <=> d = n
      /\ Done' = Done \cup {n}
      /\ \A d \in DagNodes : \A x \in Var : n \notin Overwritten(mem, d, x)
      /\ \A x \in Var : /\ mem'.last[x] = IF x \in WrittenAt(n) THEN n ELSE mem.last[x]
                        /\ x \notin WrittenAt(n) => mem'.val[x] = mem.val[x]
      /\ \A x \in R : mem.last[x] # n
  BY <1>1 DEF Goes, Records
<1>3. \A d \in Node : \A x \in Var : Overwritten(mem', d, x) = Overwritten(mem, d, x)
  BY <1>1 DEF Overwritten, HasEdge
<1>4. Rec' = Rec /\ Rec \subseteq Node
  BY <1>2, StepFacts DEF Rec
<1>5. /\ WritersRecorded' /\ SourcesRecorded' /\ EffectsRecorded'
      /\ \A x \in Var : OneEach(mem', Rec', x)
  BY <1>1, <1>3, <1>4, RecordKept
<1>6. /\ WritersRecorded /\ StoreIsLeft
      /\ \A x \in Var : Chained(mem, Done, x) /\ OneEach(mem, Rec, x)
  BY DEF Context, Told, RecordChained
<1>7. ASSUME NEW x \in Var
      PROVE  Chained(mem', Done', x)
  <2>1. \A d \in Done : d \in DagNodes /\ d \in Node
    BY DEF Done, DagNodes, InDag
  <2>2. CASE x \in WrittenAt(n)
    <3>1. mem.last[x] \in Overwritten(mem, n, x)
      BY <1>1, <1>2, <2>2 DEF Source
    <3>2. Overwritten(mem, n, x) = {mem.last[x]}
      BY <1>6, <3>1 DEF OneEach
    <3>3. /\ n # mem.last[x] /\ mem'.last[x] = n /\ Overwritten(mem', n, x) = {mem.last[x]}
          /\ \A d \in Done \ {n} : Overwritten(mem', d, x) = Overwritten(mem, d, x)
          /\ \A d \in Done : n \notin Overwritten(mem, d, x)
      BY <1>1, <1>2, <1>3, <2>1, <2>2, <3>2
    <3>4. QED BY <1>2, <1>6, <3>3, ChainExtended
  <2>3. CASE x \notin WrittenAt(n)
    <3>1. Overwritten(mem, n, x) = {}
      BY <1>1, <1>6, <2>3 DEF WritersRecorded
    <3>2. /\ mem'.last[x] = mem.last[x]
          /\ \A d \in Done' : Overwritten(mem', d, x) =
                                 IF d \in Done THEN Overwritten(mem, d, x) ELSE {}
          /\ Done \ Done' = {}
      BY <1>1, <1>2, <1>3, <2>1, <2>3, <3>1
    <3>3. QED BY <1>6, <3>2, ChainUntouched
  <2>4. QED BY <2>2, <2>3
<1>8. StoreIsLeft'
  <2>1. ASSUME NEW x \in Var, NEW s, s = mem'.last[x]
        PROVE  mem'.val[x] = Left(s, x)'
    <3>1. CASE x \in WrittenAt(n)
      <4>1. s = n /\ Left(n, x) = After(n)[x]
        BY <1>2, <2>1, <3>1 DEF Left
      <4>2. QED BY <3>1, <4>1, LeftStays, ReplayGivesAfter
    <3>2. CASE x \notin WrittenAt(n)
      <4>1. s = mem.last[x] /\ mem'.val[x] = mem.val[x] /\ mem.val[x] = Left(s, x)
        BY <1>2, <1>6, <2>1, <3>2 DEF StoreIsLeft
      <4>2. s \in Rec \/ s = InitLast(x)
        BY <4>1, LastIsDone
      <4>3. QED BY <4>1, <4>2, LeftStays
    <3>3. QED BY <3>1, <3>2
  <2>2. QED BY <2>1 DEF StoreIsLeft, Left, WrittenAt, After, Rec
<1>9. QED BY <1>5, <1>7, <1>8 DEF Says, RecordChained


-----------------------------------------------------------------------------
(* A block is undone                                                       *)

\* A block that has given up the mutex on the way back is a call: it has
\* written nothing.
LEMMA OnlyCallsInside ==
  ASSUME Context, rev, NEW n \in Node, InDag(n), ~Executed(n)
  PROVE  WrittenAt(n) = {}
<1>1. n[2] = pc[n[1]] /\ Inside(n[1]) /\ n[1] \in Pid /\ n = <<n[1], n[2]>>
  BY NodeType DEF InDag, Node
<1>2. status[n[1]] = "call"
  BY <1>1 DEF Context, Told, OnlyNewWait, Waits, Inside
<1>3. callpids[n] # <<>>
  BY <1>1, <1>2 DEF Context, Ind, Structure, PositionsFit
<1>4. OpAt(n) = "call" /\ Created(n[1]) /\ n[2] < CodeLen(n[1])
  BY <1>3 DEF Context, Ind, Structure, CallsRecorded, OpAt, CodeLen
<1>5. QED BY <1>4, NodeInstr DEF Context

LEMMA BackwardFacts ==
  ASSUME Context, NEW n \in Node, Backward(n)
  PROVE  /\ rev /\ rev = TRUE /\ mem.ctr[n] = 0 /\ Flips(n) /\ Computes(n)
         /\ mem'.inc = mem.inc
         /\ \A x \in Var :
               /\ mem'.last[x] = IF x \in WrittenAt(n) THEN GetLastDag(mem, x, n) ELSE mem.last[x]
               /\ x \notin WrittenAt(n) => mem'.val[x] = mem.val[x]
         /\ \A d \in Node : ~Does(d)
         /\ Done' = Done \ {n} /\ DagNodes' = DagNodes \ {n}
<1>1. PICK m : Forgets(mem, m, n, WrittenAt(n)) /\ mem' = RunModifyDagRev(m, n)
  BY DEF Backward
<1>2. mem'.inc = mem.inc /\ mem'.last = m.last /\ mem'.val = m.val
  BY <1>1, RunModifyDagRevEffect DEF Forgets
<1>3. \A x \in Var :
         /\ mem'.last[x] = IF x \in WrittenAt(n) THEN GetLastDag(mem, x, n) ELSE mem.last[x]
         /\ x \notin WrittenAt(n) => mem'.val[x] = mem.val[x]
  BY <1>1, <1>2 DEF Forgets
<1>4. /\ rev /\ rev = TRUE /\ mem.ctr[n] = 0 /\ Flips(n) /\ Computes(n)
      /\ \A d \in Node : /\ InDag(d)' <=> InDag(d) /\ d # n
                         /\ Executed(d)' <=> Executed(d) /\ d # n
  BY DEF Backward, Context, Ind, TypeOK
<1>5. /\ \A d \in Node : ~Does(d)
      /\ Done' = Done \ {n} /\ DagNodes' = DagNodes \ {n}
  BY <1>4 DEF Does, Done, DagNodes
<1>6. QED BY <1>2, <1>3, <1>4, <1>5

\* A block that is undone gives what it has written the values it had found.
LEMMA UndoGivesBefore ==
  ASSUME Reversible, Context, NEW n \in Done, Backward(n), NEW x \in WrittenAt(n)
  PROVE  mem'.val[x] = Before(n)[x]
<1>1. /\ n \in Node /\ n \in Rec
  BY DEF Done, Context, Recorded, RecordFits
<1>2. /\ rev /\ rev = TRUE /\ mem.ctr[n] = 0 /\ Flips(n) /\ Computes(n)
      /\ mem'.inc = mem.inc /\ DagNodes' = DagNodes \ {n}
  BY <1>1, BackwardFacts
<1>3. /\ InstrAt(n) \in Instr /\ WellFormed(InstrAt(n)) /\ OpAt(n) = InstrAt(n).op
      /\ WrittenAt(n) = WrittenBy(InstrAt(n)) /\ ReadAt(n) = ReadBy(InstrAt(n))
      /\ OpAt(n) \in {"V", "P", "+=", "-=", "<=>"}
      /\ OpAt(n) \in {"+=", "-="} => InstrAt(n).src # InstrAt(n).dst
      /\ Before(n) \in Values
  BY <1>1, RecordedNode, NodeInstr DEF Context
<1>4. EffectsRecorded /\ mem.val \in Values
  BY DEF Context, Told, Ind, TypeOK, Store, Values
<1>5. CASE OpAt(n) \in {"V", "P"}
  BY <1>1, <1>2, <1>4, <1>5 DEF Flips, EffectsRecorded
<1>6. CASE OpAt(n) \in {"+=", "-=", "<=>"}
  <2>1. ReadersFirst(mem, DagNodes \ {n})
    <3>1. ReadersFirst(mem', DagNodes \ {n})
      BY <1>2, ReadersFirstNow
    <3>2. QED BY <1>2, <3>1 DEF ReadersFirst, Overwritten, HasEdge
  <2>2. \A y \in WrittenBy(InstrAt(n)) :
           mem.val[y] = Effect(InstrAt(n), FALSE, Before(n), y)
    <3>1. \A y \in WrittenAt(n) : mem.val[y] = After(n)[y]
      BY <1>2, UndoFindsResults DEF Context
    <3>2. QED BY <1>1, <1>3, <1>4, <1>6, <3>1 DEF EffectsRecorded
  <2>3. \A y \in ReadBy(InstrAt(n)) \ WrittenBy(InstrAt(n)) : mem.val[y] = Before(n)[y]
    BY <1>3, <2>1, UndoFindsSources DEF Context
  <2>4. mem'.val[x] = Effect(InstrAt(n), TRUE, mem.val, x)
    BY <1>2, <1>6 DEF Computes, InstrAt
  <2>5. Effect(InstrAt(n), TRUE, mem.val, x) = Before(n)[x]
    BY <1>3, <1>4, <1>6, <2>2, <2>3, EffectUndone
  <2>6. QED BY <2>4, <2>5
<1>7. QED BY <1>3, <1>5, <1>6

LEMMA BackwardSays ==
  ASSUME Reversible, Context, NEW n \in Node, Backward(n)
  PROVE  Says'
<1>1. /\ rev /\ mem.ctr[n] = 0
      /\ mem'.inc = mem.inc
      /\ \A x \in Var :
            /\ mem'.last[x] = IF x \in WrittenAt(n) THEN GetLastDag(mem, x, n) ELSE mem.last[x]
            /\ x \notin WrittenAt(n) => mem'.val[x] = mem.val[x]
      /\ \A d \in Node : ~Does(d)
      /\ Done' = Done \ {n}
  BY BackwardFacts
<1>2. \A d \in Node : \A x \in Var : Overwritten(mem', d, x) = Overwritten(mem, d, x)
  BY <1>1 DEF Overwritten, HasEdge
<1>3. Rec' = Rec /\ Rec \subseteq Node
  BY <1>1, StepFacts DEF Rec
<1>4. CASE n \notin Done
  <2>1. WrittenAt(n) = {}
    BY <1>1, <1>4, OnlyCallsInside DEF Backward, Done
  <2>2. QED BY <1>1, <1>2, <1>3, <1>4, <2>1, SaysKept
<1>5. CASE n \in Done
  <2>1. /\ WritersRecorded' /\ SourcesRecorded' /\ EffectsRecorded'
        /\ \A x \in Var : OneEach(mem', Rec', x)
    BY <1>1, <1>2, <1>3, RecordKept
  <2>2. /\ WritersRecorded /\ StoreIsLeft /\ SourcesRecorded /\ n \in Rec /\ mem \in Store
        /\ \A x \in Var : Chained(mem, Done, x) /\ OneEach(mem, Rec, x)
    BY <1>5 DEF Context, Told, RecordChained, Recorded, RecordFits, Done, Ind, TypeOK
  <2>3. ASSUME NEW x \in Var, x \in WrittenAt(n)
        PROVE  mem'.last[x] \in Overwritten(mem, n, x)
    <3>1. Overwritten(mem, n, x) # {}
      BY <2>2, <2>3 DEF WritersRecorded
    <3>2. QED BY <1>1, <2>2, <2>3, <3>1, GetLastDagFinds
  <2>4. \A d \in Done : d \in Node /\ d \in DagNodes
    BY DEF Done, DagNodes, InDag
  <2>5. ASSUME NEW x \in Var
        PROVE  Chained(mem', Done', x)
    <3>1. CASE x \in WrittenAt(n)
      <4>1. \A d \in Done : n \notin Overwritten(mem, d, x)
        BY <1>1, <2>4, UnusedNode DEF Context
      <4>2. QED BY <1>1, <1>2, <1>5, <2>2, <2>3, <2>4, <3>1, <4>1, ChainShortened
    <3>2. CASE x \notin WrittenAt(n)
      <4>1. Overwritten(mem, n, x) = {}
        BY <2>2, <3>2 DEF WritersRecorded
      <4>2. /\ mem'.last[x] = mem.last[x]
            /\ \A d \in Done' : Overwritten(mem', d, x) =
                                   IF d \in Done THEN Overwritten(mem, d, x) ELSE {}
            /\ \A d \in Done \ Done' : Overwritten(mem, d, x) = {}
        BY <1>1, <1>2, <2>4, <3>2, <4>1
      <4>3. QED BY <2>2, <4>2, ChainUntouched
    <3>3. QED BY <3>1, <3>2
  <2>6. ASSUME NEW x \in Var, NEW s, s = mem'.last[x]
        PROVE  mem'.val[x] = Left(s, x)'
    <3>1. CASE x \in WrittenAt(n)
      <4>1. x \in ReadAt(n)
        BY <2>2, <3>1, RecordedNode, NodeInstr DEF Context
      <4>2. PICK t : Source(n, x, t)
        BY <2>2, <4>1 DEF SourcesRecorded
      <4>3. s = t
        BY <2>2, <2>3, <2>6, <3>1, <4>2 DEF Source, OneEach
      <4>4. Before(n)[x] = Left(s, x) /\ (s = InitLast(x) \/ s \in Rec)
        BY <4>2, <4>3 DEF Source
      <4>5. mem'.val[x] = Before(n)[x]
        BY <1>5, <3>1, UndoGivesBefore
      <4>6. QED BY <4>4, <4>5, LeftStays
    <3>2. CASE x \notin WrittenAt(n)
      <4>1. s = mem.last[x] /\ mem'.val[x] = mem.val[x] /\ mem.val[x] = Left(s, x)
        BY <1>1, <2>2, <2>6, <3>2 DEF StoreIsLeft
      <4>2. s \in Rec \/ s = InitLast(x)
        BY <4>1, LastIsDone
      <4>3. QED BY <4>1, <4>2, LeftStays
    <3>3. QED BY <3>1, <3>2
  <2>7. StoreIsLeft'
    BY <2>6 DEF StoreIsLeft, Left, WrittenAt, After, Rec
  <2>8. QED BY <2>1, <2>5, <2>7 DEF Says, RecordChained
<1>6. QED BY <1>4, <1>5


\* A block that begins to be undone and gives up the mutex is a call.
LEMMA OnlyCallsBegin ==
  ASSUME Context, NEW n \in Done, BeginsUndo(n)
  PROVE  WrittenAt(n) = {}
<1>1. rev /\ mem.ctr[n] = 0 /\ Pauses(n)
  BY DEF BeginsUndo
<1>2. n \in Rec /\ n \in Node /\ Created(n[1]) /\ n[2] < CodeLen(n[1])
  BY RecordedNode DEF Context, Recorded, RecordFits, Done
<1>3. /\ OpAt(n) = "call" => ReadAt(n) = {}
      /\ WrittenAt(n) \subseteq ReadAt(n)
  BY <1>2, NodeInstr DEF Context
<1>4. ASSUME OpAt(n) \in {"V", "P"}, NEW x \in WrittenAt(n),
             mem.val[x] # IF rev THEN LeftBy(n) ELSE 1 - LeftBy(n)
      PROVE  FALSE
  BY <1>1, <1>4, UndoFindsSem
<1>5. QED BY <1>1, <1>3, <1>4 DEF Pauses

LEMMA StoreKeptSays ==
  ASSUME Context, Quiet \/ TurnsAround \/ \E n \in Node : BeginsUndo(n)
  PROVE  Says'
<1>1. mem' = mem /\ \A d \in Node : ~Does(d)
  BY DEF Quiet, TurnsAround, BeginsUndo, Does
<1>2. Rec' = Rec /\ Rec \subseteq Node
  BY <1>1, StepFacts DEF Rec
<1>3. /\ \A d \in Rec : mem'.inc[d] = mem.inc[d]
      /\ \A d \in Node : \A x \in Var : Overwritten(mem', d, x) = Overwritten(mem, d, x)
      /\ \A x \in Var : mem'.val[x] = mem.val[x] /\ mem'.last[x] = mem.last[x]
  BY <1>1
<1>4. Done' \subseteq Done /\ \A d \in Done \ Done' : WrittenAt(d) = {}
  <2>1. CASE Quiet \/ TurnsAround
    BY <2>1 DEF Quiet, TurnsAround, Done
  <2>2. ASSUME NEW n \in Node, BeginsUndo(n)
        PROVE  Done' \subseteq Done /\ \A d \in Done \ Done' : WrittenAt(d) = {}
    <3>1. \A d \in Node : Executed(d)' <=> Executed(d) /\ d # n
      BY <2>2 DEF BeginsUndo
    <3>2. Done' \subseteq Done /\ \A d \in Done \ Done' : d = n
      BY <3>1 DEF Done
    <3>3. QED BY <2>2, <3>2, OnlyCallsBegin
  <2>3. QED BY <2>1, <2>2
<1>5. QED BY <1>2, <1>3, <1>4, SaysKept

LEMMA ToldPreserved ==
  ASSUME Reversible, Ind, Ind', CheckStillHolds, History, Recorded, Recorded',
         ReadersPrecede, ReadersPrecede', [HistNext]_hvars, Told
  PROVE  Told'
<1> SUFFICES ASSUME turns' <= 2
             PROVE  Says' /\ OnlyNewWait'
  BY DEF Told, Says
<1>1. turns <= 2
  <2>1. [Next]_vars
    BY DEF HistNext, hvars
  <2>2. turns' = turns \/ turns' = turns + 1
    BY <2>1 DEF Next, ProcStep, Check, Exec, SemTake, SemWait, CallBegin, CallEnd, Suspend,
                Resume, Idle, Crashed, vars
  <2>3. QED BY <2>2, TurnsAssumption DEF Ind, TypeOK
<1>2. Context
  BY <1>1 DEF Context
<1>3. StepKind
  BY <1>2, StepFacts
<1>4. ASSUME NEW n \in Node, NEW R \in SUBSET Var, Forward(n, R, TRUE) \/ Forward(n, R, FALSE)
      PROVE  Says'
  BY <1>2, <1>4, NewPauseSays, NewBlockSays, ReplayPauseSays, ReplayBlockSays
<1>5. Says'
  BY <1>2, <1>3, <1>4, BackwardSays, StoreKeptSays DEF StepKind
<1>6. QED BY <1>2, <1>5, WaitersStayNew

LEMMA InitImpliesTold ==
  ASSUME HistInit
  PROVE  Told
<1>1. /\ Init /\ mem = EmptyStore /\ Rec = {}
      /\ \A p \in Pid : ~Waits(p)
  BY DEF HistInit, Init, Rec, Waits
<1>2. \A n \in Node : mem.inc[n] = <<>> /\ ~Executed(n)
  BY <1>1, NodeType DEF Init, EmptyStore, Mem, Executed
<1>3. Done = {}
  BY <1>2 DEF Done
<1>4. \A x \in Var : mem.val[x] = 0 /\ mem.last[x] = InitLast(x)
  BY <1>1 DEF EmptyStore, Mem
<1>5. \A n \in Node : \A x \in Var : Overwritten(mem, n, x) = {}
  BY <1>2 DEF Overwritten, HasEdge
<1>6. WritersRecorded /\ SourcesRecorded /\ EffectsRecorded /\ OnlyNewWait
  BY <1>1, <1>2, <1>5 DEF WritersRecorded, SourcesRecorded, EffectsRecorded, OnlyNewWait
<1>7. RecordChained
  BY <1>1, <1>3, <1>4 DEF RecordChained, Chained, OneEach, EndsAtLast, BeginsAtStart, WritersIn
<1>8. StoreIsLeft
  BY <1>1, <1>4 DEF StoreIsLeft, Left
<1>9. QED BY <1>6, <1>7, <1>8 DEF Told

\* Along the first run, its rollback and the first replay every recorded block is
\* told by the DAG what it has found and what it has left, in a program in which
\* no assignment reads what it changes, as long as readers precede.
THEOREM ToldHolds == ASSUME Reversible PROVE HistSpec /\ []ReadersPrecede => []Told
<1>1. HistInit => Told
  BY InitImpliesTold
<1>2. /\ Ind /\ Ind' /\ CheckStillHolds /\ History /\ Recorded /\ Recorded'
      /\ ReadersPrecede /\ ReadersPrecede' /\ [HistNext]_hvars /\ Told
      => Told'
  BY ToldPreserved
<1>3. QED BY <1>1, <1>2, HistSpecIsSpec, Invariance, CheckHolds, HistoryHolds, RecordedHolds, PTL
          DEF HistSpec


-----------------------------------------------------------------------------
(* What the runs check about the values                                    *)

LEMMA WrittenByEdges ==
  ASSUME NEW m \in Store, NEW n \in Node, NEW x \in Var, WriteEdges(m, x, n) # {}
  PROVE  Overwritten(m, n, x) # {}
<1>1. PICK i \in DOMAIN m.inc[n] : m.inc[n][i].wt /\ m.inc[n][i].var = x
  BY DEF WriteEdges
<1>2. m.inc[n][i] \in Edge
  BY DEF Store
<1>3. /\ m.inc[n][i].src \in Node \cup {Bot}
      /\ m.inc[n][i] = WriteEdge(m.inc[n][i].src, x)
  BY <1>1, <1>2 DEF Edge, WriteEdge
<1>4. QED BY <1>3 DEF Overwritten, HasEdge

\* The variables that a recorded node has written, as the runs see them.
LEMMA WrittenOfRecorded ==
  ASSUME Context, NEW n \in Rec, mem'.inc[n] = mem.inc[n], NEW x \in Written(n)
  PROVE  x \in WrittenAt(n)
<1>1. n \in Node /\ x \in Var /\ WriteEdges(mem, x, n) # {}
  BY DEF Rec, Written, WriteEdges
<1>2. Overwritten(mem, n, x) # {}
  BY <1>1, WrittenByEdges DEF Context, Ind, TypeOK
<1>3. QED BY <1>1, <1>2 DEF Context, Told, WritersRecorded

LEMMA StepRestores ==
  ASSUME Reversible, Context, NEW n \in Rec, Undoes(n), NEW x \in Written(n)
  PROVE  mem'.val[x] = Before(n)[x]
<1>1. n \in Node /\ n \in Done /\ ~Executed(n)' /\ StepKind
  BY StepFacts DEF Rec, Undoes, Done
<1>2. ASSUME NEW d \in Node, Backward(d) \/ BeginsUndo(d)
      PROVE  d = n
  BY <1>1, <1>2 DEF Backward, BeginsUndo, Undoes
<1>3. Backward(n) \/ BeginsUndo(n)
  BY <1>1, <1>2 DEF StepKind, Forward, Quiet, TurnsAround, Undoes
<1>4. CASE Backward(n)
  <2>1. x \in WrittenAt(n)
    BY <1>1, <1>4, BackwardFacts, WrittenOfRecorded
  <2>2. QED BY <1>1, <1>4, <2>1, UndoGivesBefore
<1>5. CASE BeginsUndo(n)
  BY <1>1, <1>5, OnlyCallsBegin, WrittenOfRecorded DEF BeginsUndo
<1>6. QED BY <1>3, <1>4, <1>5

LEMMA StepRecomputes ==
  ASSUME Context, NEW n \in Rec, Does(n), NEW x \in Written(n)
  PROVE  mem'.val[x] = After(n)[x]
<1>1. n \in Node /\ ~Executed(n) /\ Executed(n)' /\ StepKind
  BY StepFacts DEF Rec, Does
<1>2. PICK R \in SUBSET Var : Forward(n, R, TRUE)
  BY <1>1 DEF StepKind, Forward, Backward, BeginsUndo, Quiet, TurnsAround
<1>3. mem'.inc[n] = mem.inc[n]
  BY <1>2, EndGoes, ReplayRepeats DEF Rec
<1>4. QED BY <1>2, <1>3, WrittenOfRecorded, ReplayGivesAfter

LEMMA StepRepeatsDag ==
  ASSUME Context, NEW n \in Node, mem.inc[n] # <<>>, ~Inside(n[1])
  PROVE  mem'.inc[n] = mem.inc[n]
<1>1. n \in Rec
  BY DEF Context, Told, OnlyNewWait, Waits, Inside
<1>2. ASSUME NEW R \in SUBSET Var, Forward(n, R, TRUE) \/ Forward(n, R, FALSE)
      PROVE  mem'.inc = mem.inc
  BY <1>1, <1>2, EndGoes, PauseGoes, ReplayRepeats
<1>3. QED BY <1>2, NewEdges

\* Undoing a block, in whatever order the processes are undone, gives each
\* variable it has written the value that the block had found in it.
THEOREM UndoPutsBack ==
  ASSUME Reversible
  PROVE  HistSpec /\ []ReadersPrecede /\ [](turns <= 2) => UndoRestores
<1>1. Context => \A n \in Node : Undoes(n) /\ hist[n] # <<>> =>
                    \A x \in Written(n) : mem'.val[x] = hist[n][1][x]
  BY StepRestores DEF Rec, Before
<1>2. /\ Ind /\ Ind' /\ CheckStillHolds /\ History /\ Recorded /\ Recorded'
      /\ turns <= 2 /\ Told /\ ReadersPrecede /\ ReadersPrecede' /\ [HistNext]_hvars
      => Context
  BY DEF Context
<1>3. QED BY <1>1, <1>2, HistSpecIsSpec, Invariance, CheckHolds, HistoryHolds, RecordedHolds,
             ToldHolds, PTL DEF HistSpec, UndoRestores

\* Executing a block again, in whatever order the processes are replayed, gives
\* each variable it writes the value that the first execution gave it.
THEOREM ReplayComputesAgain ==
  ASSUME Reversible
  PROVE  HistSpec /\ []ReadersPrecede /\ [](turns <= 2) => ReplayRecomputes
<1>1. Context => \A n \in Node : Does(n) /\ hist[n] # <<>> =>
                    \A x \in Written(n) : mem'.val[x] = hist[n][2][x]
  BY StepRecomputes DEF Rec, After
<1>2. /\ Ind /\ Ind' /\ CheckStillHolds /\ History /\ Recorded /\ Recorded'
      /\ turns <= 2 /\ Told /\ ReadersPrecede /\ ReadersPrecede' /\ [HistNext]_hvars
      => Context
  BY DEF Context
<1>3. QED BY <1>1, <1>2, HistSpecIsSpec, Invariance, CheckHolds, HistoryHolds, RecordedHolds,
             ToldHolds, PTL DEF HistSpec, ReplayRecomputes

\* In a replay a block annotates exactly the edges that it annotated in its first
\* execution: it reads and overwrites what the same nodes have produced.
THEOREM ReplayAnnotatesTheSame ==
  ASSUME Reversible
  PROVE  HistSpec /\ []ReadersPrecede /\ [](turns <= 2) => ReplayRepeatsDag
<1>1. Context => (turns >= 2 => \A n \in Node :
                    mem.inc[n] # <<>> /\ ~Inside(n[1]) => mem'.inc[n] = mem.inc[n])
  BY StepRepeatsDag
<1>2. /\ Ind /\ Ind' /\ CheckStillHolds /\ History /\ Recorded /\ Recorded'
      /\ turns <= 2 /\ Told /\ ReadersPrecede /\ ReadersPrecede' /\ [HistNext]_hvars
      => Context
  BY DEF Context
<1>3. QED BY <1>1, <1>2, HistSpecIsSpec, Invariance, CheckHolds, HistoryHolds, RecordedHolds,
             ToldHolds, PTL DEF HistSpec, ReplayRepeatsDag

\* When main has not executed anything, nobody has.
LEMMA NothingExecuted ==
  ASSUME Ind, status[0] = "done", pc[0] = 0
  PROVE  Done = {}
<1> SUFFICES ASSUME Done # {}
             PROVE  FALSE
  OBVIOUS
<1> DEFINE A == {n[1] : n \in Done}
<1>1. A \subseteq Nat /\ A # {}
  BY NodeType DEF Pid, Done
<1>2. PICK a \in A : \A b \in A : a <= b
  <2> HIDE DEF A
  <2> QED BY <1>1, LeastNatural
<1>3. PICK n \in Done : a = n[1]
  BY <1>2
<1>4. n[1] \in Pid /\ n[2] \in Nat /\ pc[a] \in Nat /\ n[2] < pc[a]
  BY <1>3, NodeType DEF Done, Executed, Ind, TypeOK
<1>5. Created(a) /\ a # 0 /\ a \in Pid
  BY <1>3, <1>4 DEF Ind, Structure, ProcessesExist
<1>6. PICK c \in Node : a \in Kids(c)
  BY <1>5 DEF Ind, Structure, HaveParents
<1>7. c[1] < a /\ c[1] \in Pid
  BY <1>6, KidsFacts
<1>8. c[1] \in A
  <2>1. ~Calling(c)
    <3>1. status[c[1]] = "call" => c[1] # 0 /\ Active(c[1])
      BY DEF Active
    <3>2. QED BY <1>7, <3>1, IndImpliesQuiescent DEF Quiescent, Calling
  <2>2. Executed(c)
    BY <1>4, <1>6, <2>1 DEF Ind, Structure, CallsJoin
  <2>3. QED BY <2>2 DEF Done
<1>9. a <= c[1] /\ a \in Nat /\ c[1] \in Nat
  BY <1>1, <1>2, <1>8
<1>10. QED BY <1>7, <1>9

\* After a complete rollback every variable has its initial value.
THEOREM RollbackIsComplete ==
  ASSUME Reversible
  PROVE  HistSpec /\ []ReadersPrecede /\ [](turns <= 2) => []RollbackRestoresStore
<1>1. Ind /\ Told /\ turns <= 2 => RollbackRestoresStore
  <2> SUFFICES ASSUME Ind, Told, turns <= 2, status[0] = "done", pc[0] = 0, NEW x \in Var
               PROVE  mem.val[x] = 0
    BY DEF RollbackRestoresStore
  <2>1. Done = {}
    BY NothingExecuted
  <2>2. mem.last[x] = InitLast(x)
    BY <2>1 DEF Told, RecordChained, Chained, EndsAtLast, WritersIn
  <2>3. mem.val[x] = Left(InitLast(x), x)
    BY <2>2 DEF Told, StoreIsLeft
  <2>4. Left(InitLast(x), x) = 0
    <3>1. Bot \notin Rec
      BY NodeType DEF Rec
    <3>2. QED BY <3>1, RootWritesNothing DEF Left, InitLast
  <2>5. QED BY <2>3, <2>4
<1>2. QED BY <1>1, HistSpecIsSpec, Invariance, ToldHolds, PTL


=============================================================================
