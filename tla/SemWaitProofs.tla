--------------------------- MODULE SemWaitProofs ---------------------------
(***************************************************************************)
(* SemWait as long as nothing is stopped: for any number of processes and  *)
(* any programs the mutex has one owner, nothing unlocks it in vain, and   *)
(* WaitSem is the wait of the monitor.                                     *)
(***************************************************************************)
EXTENDS SemWait, SequenceTheorems, TLAPS

(* A helper belongs to the wait that its process is in, and a process that *)
(* is in the middle of a block has an operation to carry out.              *)
HelpersListen ==
    /\ \A p \in Proc : left[p] = 0
    /\ \A p \in Proc : at[p] # "outside" => ~Finished(p)
    /\ \A h \in Helper : helper[h] # "none" => at[h[1]] = "select" /\ h = Current(h[1])

(* The lists of the conditions hold the helpers that wait, each once.      *)
ListsHoldWaiting ==
    \A n \in Names : \A i \in DOMAIN queue[n] :
        /\ helper[queue[n][i]] = "waiting"
        /\ queue[n][i][2] = n
        /\ \A j \in DOMAIN queue[n] : queue[n][i] = queue[n][j] => i = j

(* Between the look at the value and the wait nobody changes it.           *)
NewHelpersWait == \A p \in Proc : at[p] = "select" /\ helper[Current(p)] = "new" => ~Passes(p)

IInv ==
    /\ TypeOK
    /\ NoFatalError
    /\ HelpersListen
    /\ ListsHoldWaiting
    /\ NewHelpersWait
    /\ MutexHasOneOwner

-----------------------------------------------------------------------------
(* The operation that is next has a name and works on a cell.              *)
LEMMA OperationType ==
    ASSUME TypeOK, NEW p \in Proc, ~Finished(p)
    PROVE  /\ Operation(p).op \in {"V", "P"}
           /\ Operation(p).name \in Names
           /\ Cell(p) \in Cells
           /\ Expected(p) \in {0, 1}
<1> DEFINE k == IF rev THEN Len(Ops[p]) - pos[p] ELSE pos[p] + 1
           S == [op : {"V", "P"}, name : Names]
<1>1. Ops[p] \in Seq(S)
  BY SemWaitAssumption
<1>2. Len(Ops[p]) \in Nat /\ pos[p] \in Nat /\ pos[p] < Len(Ops[p])
  BY <1>1 DEF TypeOK, Finished
<1>3. k \in 1..Len(Ops[p])
  BY <1>2 DEF TypeOK
<1>4. Ops[p][k] \in S
  <2> HIDE DEF k, S
  <2> QED
    BY <1>1, <1>3, ElementOfSeq
<1>5. Operation(p) \in S
  BY <1>4 DEF Operation
<1>6. Operation(p).op \in {"V", "P"} /\ Operation(p).name \in Names
  BY <1>5
<1>7. Cell(p) \in Cells
  BY <1>6 DEF Cell, Cells
<1>8. Expected(p) \in {0, 1}
  BY DEF Expected
<1> QED
  BY <1>6, <1>7, <1>8

(* The helper of a process's current wait is a helper.                     *)
LEMMA CurrentType ==
    ASSUME TypeOK, NEW p \in Proc, ~Finished(p)
    PROVE  Current(p) \in Helper /\ Current(p)[1] = p /\ Current(p)[2] = Operation(p).name
BY OperationType DEF Current, Helper, TypeOK

(* The owner, when there is one, holds the mutex.                          *)
LEMMA OwnerHasLocked ==
    ASSUME IInv, NEW p \in Proc, Holds(p)
    PROVE  locked /\ \A q \in Proc : Holds(q) => q = p
BY DEF IInv, MutexHasOneOwner, Owner

-----------------------------------------------------------------------------
(* Initially.                                                              *)
LEMMA InitIInv == Init => IInv
<1> SUFFICES ASSUME Init PROVE IInv
  OBVIOUS
<1>1. TypeOK
  <2>1. 0 \in 0..MaxLeft
    BY SemWaitAssumption
  <2>2. \A p \in Proc : Ops[p] \in Seq([op : {"V", "P"}, name : Names])
    BY SemWaitAssumption
  <2>3. \A p \in Proc : Len(Ops[p]) \in Nat
    BY <2>2
  <2>4. val \in [Cells -> {0, 1}] /\ pos \in [Proc -> Nat] /\ queue \in [Names -> Seq(Helper)]
    BY DEF Init
  <2>5. \A p \in Proc : pos[p] <= Len(Ops[p])
    BY <2>3 DEF Init
  <2>6. /\ rev \in BOOLEAN /\ locked \in BOOLEAN /\ stop \in BOOLEAN
        /\ at \in [Proc -> {"outside", "inside", "select"}]
        /\ helper \in [Helper -> {"none", "new", "waiting", "woken", "holding"}]
        /\ left \in [Proc -> 0..MaxLeft]
    BY <2>1 DEF Init
  <2> QED
    BY <2>4, <2>5, <2>6 DEF TypeOK
<1>2. Owner = {} /\ MutexHasOneOwner
  BY DEF Init, MutexHasOneOwner, Owner, Holds
<1>3. HelpersListen
  BY DEF Init, HelpersListen
<1>4. ListsHoldWaiting
  <2>1. \A n \in Names : DOMAIN queue[n] = {}
    BY DEF Init
  <2> QED
    BY <2>1 DEF ListsHoldWaiting
<1>5. NewHelpersWait
  BY DEF Init, NewHelpersWait
<1> QED
  BY <1>1, <1>2, <1>3, <1>4, <1>5 DEF Init, IInv, NoFatalError

-----------------------------------------------------------------------------
(* Signal wakes a helper that waits, or nobody.                            *)
LEMMA SignalWakesWaiting ==
    ASSUME TypeOK, ListsHoldWaiting, NEW n \in Names, Signal(n)
    PROVE  /\ helper' \in [Helper -> {"none", "new", "waiting", "woken", "holding"}]
           /\ queue' \in [Names -> Seq(Helper)]
           /\ \A h \in Helper : helper'[h] # helper[h] => helper[h] = "waiting" /\ helper'[h] = "woken"
           /\ ListsHoldWaiting'
<1>1. CASE queue[n] = <<>>
  BY <1>1 DEF Signal, TypeOK, ListsHoldWaiting
<1>2. CASE queue[n] # <<>>
  <2> DEFINE h == Head(queue[n])
  <2>1. queue[n] \in Seq(Helper) /\ 1 \in DOMAIN queue[n] /\ h = queue[n][1] /\ h \in Helper
    BY <1>2 DEF TypeOK
  <2>2. helper' = [helper EXCEPT ![h] = "woken"] /\ queue' = [queue EXCEPT ![n] = Tail(queue[n])]
    BY <1>2 DEF Signal
  <2>3. helper[h] = "waiting" /\ h[2] = n
    BY <2>1 DEF ListsHoldWaiting
  <2>4. Tail(queue[n]) \in Seq(Helper) /\ DOMAIN Tail(queue[n]) = 1..(Len(queue[n]) - 1)
        /\ \A i \in DOMAIN Tail(queue[n]) : Tail(queue[n])[i] = queue[n][i + 1] /\ i + 1 \in DOMAIN queue[n]
    BY <1>2, <2>1
  <2>5. ListsHoldWaiting'
    <3> SUFFICES ASSUME NEW m \in Names, NEW i \in DOMAIN queue'[m]
                 PROVE  /\ helper'[queue'[m][i]] = "waiting"
                        /\ queue'[m][i][2] = m
                        /\ \A j \in DOMAIN queue'[m] : queue'[m][i] = queue'[m][j] => i = j
      BY DEF ListsHoldWaiting
    <3>1. CASE m = n
      <4>1. queue'[m] = Tail(queue[n])
        BY <2>2, <3>1 DEF TypeOK
      <4>2. i + 1 \in DOMAIN queue[n] /\ queue'[m][i] = queue[n][i + 1]
        BY <2>4, <4>1
      <4>3. i \in Nat /\ i + 1 # 1
        BY <2>4, <4>1
      <4>4. queue[n][i + 1] # h
        BY <2>1, <4>2, <4>3 DEF ListsHoldWaiting
      <4>5. helper'[queue[n][i + 1]] = "waiting" /\ queue[n][i + 1][2] = n
        BY <2>2, <4>2, <4>4 DEF ListsHoldWaiting, TypeOK
      <4>6. ASSUME NEW j \in DOMAIN queue'[m], queue'[m][i] = queue'[m][j] PROVE i = j
        <5>1. j + 1 \in DOMAIN queue[n] /\ queue[n][i + 1] = queue[n][j + 1] /\ j \in Nat
          BY <2>4, <4>1, <4>2, <4>6
        <5>2. i + 1 = j + 1
          BY <4>2, <5>1 DEF ListsHoldWaiting
        <5> QED
          BY <4>3, <5>1, <5>2
      <4> QED
        BY <3>1, <4>2, <4>5, <4>6
    <3>2. CASE m # n
      <4>1. queue'[m] = queue[m]
        BY <2>2, <3>2 DEF TypeOK
      <4>2. queue[m][i] # h
        BY <2>3, <3>2, <4>1 DEF ListsHoldWaiting
      <4> QED
        BY <2>2, <4>1, <4>2 DEF ListsHoldWaiting, TypeOK
    <3> QED
      BY <3>1, <3>2
  <2> QED
    BY <2>1, <2>2, <2>3, <2>4, <2>5 DEF TypeOK
<1> QED
  BY <1>1, <1>2

(* What a wait depends on.                                                 *)
LEMMA SameWaits ==
    ASSUME UNCHANGED <<rev, val, pos, left>>
    PROVE  \A p \in Proc : /\ Current(p)' = Current(p)
                           /\ Finished(p)' <=> Finished(p)
                           /\ Passes(p)' <=> Passes(p)
BY DEF Current, Finished, Passes, Operation, Expected, Cell

-----------------------------------------------------------------------------
(* Every action preserves the invariant.                                   *)
LEMMA LockIInv ==
    ASSUME IInv, NEW p \in Proc, Lock(p)
    PROVE  IInv'
<1> USE DEF IInv
<1>1. TypeOK' /\ NoFatalError'
  BY DEF Lock, TypeOK, NoFatalError
<1>2. HelpersListen' /\ ListsHoldWaiting' /\ NewHelpersWait'
  BY SameWaits DEF Lock, HelpersListen, ListsHoldWaiting, NewHelpersWait, TypeOK, Helper
<1>3. \A q \in Proc : Holds(q)' <=> q = p
  <2>1. \A q \in Proc : ~Holds(q)
    BY DEF Lock, MutexHasOneOwner, Owner
  <2>2. \A q \in Proc : at'[q] = IF q = p THEN "inside" ELSE at[q]
    BY DEF Lock, TypeOK
  <2> QED
    BY <2>1, <2>2, SameWaits DEF Holds, Lock
<1>4. MutexHasOneOwner'
  BY <1>3 DEF MutexHasOneOwner, Owner, Lock
<1> QED
  BY <1>1, <1>2, <1>4

LEMMA PassIInv ==
    ASSUME IInv, NEW p \in Proc, Pass(p)
    PROVE  IInv'
<1> USE DEF IInv
<1>1. ~Finished(p) /\ Operation(p).name \in Names /\ Cell(p) \in Cells /\ Expected(p) \in {0, 1}
  BY OperationType DEF Pass, HelpersListen
<1>2. Holds(p) /\ locked
  BY OwnerHasLocked DEF Pass, Holds
<1>3. /\ helper' \in [Helper -> {"none", "new", "waiting", "woken", "holding"}]
      /\ queue' \in [Names -> Seq(Helper)]
      /\ \A h \in Helper : helper'[h] # helper[h] => helper[h] = "waiting" /\ helper'[h] = "woken"
      /\ ListsHoldWaiting'
  BY <1>1, SignalWakesWaiting DEF Pass
<1>4. TypeOK'
  <2>1. pos[p] < Len(Ops[p]) /\ pos[p] \in Nat /\ Len(Ops[p]) \in Nat
    BY <1>1, SemWaitAssumption DEF TypeOK, Finished
  <2>2. pos' \in [Proc -> Nat] /\ \A q \in Proc : pos'[q] <= Len(Ops[q])
    BY <2>1 DEF Pass, TypeOK
  <2>3. val' \in [Cells -> {0, 1}]
    BY <1>1 DEF Pass, TypeOK
  <2> QED
    BY <1>3, <2>2, <2>3 DEF Pass, Unlock, TypeOK
<1>5. NoFatalError'
  BY <1>2 DEF Pass, Unlock, NoFatalError
<1>6. \A q \in Proc : q # p => /\ Current(q)' = Current(q)
                               /\ Finished(q)' <=> Finished(q)
                               /\ at'[q] = at[q]
  BY DEF Pass, TypeOK, Current, Operation, Finished
<1>7. at'[p] = "outside"
  BY DEF Pass, TypeOK
<1>8. \A h \in Helper : helper[h] # "none" => h[1] # p /\ h[1] \in Proc
  BY DEF Pass, HelpersListen, Helper
<1>9. HelpersListen'
  <2>1. \A q \in Proc : left'[q] = 0
    BY DEF Pass, HelpersListen
  <2>2. \A q \in Proc : at'[q] # "outside" => ~Finished(q)'
    BY <1>6, <1>7 DEF HelpersListen
  <2>3. \A h \in Helper : helper'[h] # "none" => at'[h[1]] = "select" /\ h = Current(h[1])'
    BY <1>3, <1>6, <1>8 DEF HelpersListen
  <2> QED
    BY <2>1, <2>2, <2>3 DEF HelpersListen
<1>10. \A q \in Proc : ~Holds(q)'
  <2>1. \A q \in Proc : q # p => ~Holds(q)
    BY <1>2, OwnerHasLocked
  <2>2. ASSUME NEW q \in Proc, q # p PROVE ~Holds(q)'
    <3>1. CASE at[q] = "select"
      <4>1. Current(q) \in Helper
        BY <3>1, CurrentType DEF HelpersListen
      <4>2. helper[Current(q)] \notin {"new", "holding"}
        BY <2>1, <2>2, <3>1 DEF Holds
      <4> QED
        BY <1>3, <1>6, <2>2, <3>1, <4>1, <4>2 DEF Holds
    <3>2. CASE at[q] # "select"
      BY <1>6, <2>1, <2>2, <3>2 DEF Holds
    <3> QED
      BY <3>1, <3>2
  <2> QED
    BY <1>7, <2>2 DEF Holds
<1>11. NewHelpersWait'
  BY <1>10 DEF NewHelpersWait, Holds
<1>12. MutexHasOneOwner'
  BY <1>10 DEF MutexHasOneOwner, Owner, Pass, Unlock
<1> QED
  BY <1>3, <1>4, <1>5, <1>9, <1>11, <1>12

LEMMA WaitSemIInv ==
    ASSUME IInv, NEW p \in Proc, WaitSem(p)
    PROVE  IInv'
<1> USE DEF IInv
<1>1. ~Finished(p) /\ Current(p) \in Helper /\ Current(p)[1] = p
  BY CurrentType DEF WaitSem, HelpersListen
<1>2. locked /\ \A q \in Proc : Holds(q) => q = p
  BY OwnerHasLocked DEF WaitSem, Holds
<1>3. TypeOK' /\ NoFatalError'
  BY <1>1 DEF WaitSem, TypeOK, NoFatalError
<1>4. \A q \in Proc : at'[q] = IF q = p THEN "select" ELSE at[q]
  BY DEF WaitSem, TypeOK
<1>5. \A h \in Helper : helper'[h] = IF h = Current(p) THEN "new" ELSE helper[h]
  BY <1>1 DEF WaitSem, TypeOK
<1>6. \A q \in Proc : /\ Current(q)' = Current(q)
                      /\ Finished(q)' <=> Finished(q)
                      /\ Passes(q)' <=> Passes(q)
  BY SameWaits DEF WaitSem
<1>7. HelpersListen'
  <2>1. \A h \in Helper : helper'[h] # "none" => at'[h[1]] = "select" /\ h = Current(h[1])'
    <3> TAKE h \in Helper
    <3>1. h[1] \in Proc
      BY DEF Helper
    <3> QED
      BY <1>1, <1>4, <1>5, <1>6, <3>1 DEF HelpersListen
  <2>2. \A q \in Proc : left'[q] = 0 /\ (at'[q] # "outside" => ~Finished(q)')
    BY <1>1, <1>4, <1>6 DEF HelpersListen, WaitSem
  <2> QED
    BY <2>1, <2>2 DEF HelpersListen
<1>8. ListsHoldWaiting'
  <2>1. helper[Current(p)] # "waiting"
    BY <1>1 DEF WaitSem, HelpersListen
  <2>2. \A n \in Names : \A i \in DOMAIN queue[n] : queue[n][i] \in Helper
    BY DEF TypeOK
  <2> QED
    BY <1>5, <2>1, <2>2 DEF ListsHoldWaiting, WaitSem
<1>9. \A q \in Proc : q # p => (Holds(q)' <=> Holds(q))
                             /\ (at[q] = "select" => helper'[Current(q)] = helper[Current(q)])
  <2> TAKE q \in Proc
  <2> SUFFICES ASSUME q # p
               PROVE  (Holds(q)' <=> Holds(q)) /\ (at[q] = "select" => helper'[Current(q)] = helper[Current(q)])
    OBVIOUS
  <2>1. at[q] = "select" => Current(q) \in Helper /\ Current(q)[1] = q
    BY CurrentType DEF HelpersListen
  <2> QED
    BY <1>1, <1>4, <1>5, <1>6, <2>1 DEF Holds
<1>10. Holds(p)'
  BY <1>1, <1>4, <1>5, <1>6 DEF Holds
<1>11. NewHelpersWait'
  <2>1. ~Passes(p)
    BY DEF WaitSem
  <2> QED
    BY <1>4, <1>6, <1>9, <2>1 DEF NewHelpersWait
<1>12. MutexHasOneOwner'
  BY <1>2, <1>9, <1>10 DEF MutexHasOneOwner, Owner, WaitSem
<1> QED
  BY <1>3, <1>7, <1>8, <1>11, <1>12

(* A helper that is not gone belongs to the process that waits.            *)
LEMMA HelperOfWait ==
    ASSUME IInv, NEW h \in Helper, helper[h] # "none"
    PROVE  /\ h[1] \in Proc /\ h[2] \in Names
           /\ at[h[1]] = "select"
           /\ h = Current(h[1])
           /\ h[2] = Operation(h[1]).name
           /\ ~Finished(h[1])
<1>1. h[1] \in Proc /\ h[2] \in Names
  BY DEF Helper
<1>2. at[h[1]] = "select" /\ h = Current(h[1])
  BY DEF IInv, HelpersListen
<1> QED
  BY <1>1, <1>2 DEF IInv, HelpersListen, Current

(* A change of one helper leaves the waits of the other processes alone.   *)
LEMMA OtherWaits ==
    ASSUME IInv, NEW h \in Helper, helper[h] # "none",
           UNCHANGED <<rev, val, pos, left>>,
           \A g \in Helper : g # h => helper'[g] = helper[g],
           \A q \in Proc : q # h[1] => at'[q] = at[q]
    PROVE  \A q \in Proc : q # h[1] =>
              /\ Holds(q)' <=> Holds(q)
              /\ at[q] = "select" => helper'[Current(q)] = helper[Current(q)]
<1> TAKE q \in Proc
<1> SUFFICES ASSUME q # h[1]
             PROVE  (Holds(q)' <=> Holds(q)) /\ (at[q] = "select" => helper'[Current(q)] = helper[Current(q)])
  OBVIOUS
<1>1. at[q] = "select" => Current(q) \in Helper /\ Current(q) # h
  BY CurrentType DEF HelpersListen, IInv
<1>2. Current(q)' = Current(q)
  BY SameWaits
<1> QED
  BY <1>1, <1>2 DEF Holds

LEMMA HelperWaitsIInv ==
    ASSUME IInv, NEW h \in Helper, HelperWaits(h)
    PROVE  IInv'
<1> DEFINE p == h[1]
<1>1. p \in Proc /\ h[2] \in Names /\ at[p] = "select" /\ h = Current(p) /\ ~Finished(p)
  BY HelperOfWait DEF HelperWaits
<1> USE DEF IInv
<1>2. locked /\ \A q \in Proc : Holds(q) => q = p
  BY <1>1, OwnerHasLocked DEF HelperWaits, Holds
<1>3. \A g \in Helper : helper'[g] = IF g = h THEN "waiting" ELSE helper[g]
  BY DEF HelperWaits, TypeOK
<1>4. TypeOK' /\ NoFatalError'
  <2>1. Append(queue[h[2]], h) \in Seq(Helper)
    BY <1>1, AppendProperties DEF TypeOK
  <2>2. queue' \in [Names -> Seq(Helper)]
    <3> DEFINE s == Append(queue[h[2]], h)
    <3> HIDE DEF s
    <3>1. queue' = [queue EXCEPT ![h[2]] = s] /\ s \in Seq(Helper)
      BY <2>1 DEF HelperWaits, s
    <3> QED
      BY <3>1 DEF TypeOK
  <2>3. helper' \in [Helper -> {"none", "new", "waiting", "woken", "holding"}]
    BY DEF HelperWaits, TypeOK
  <2>4. locked' = FALSE /\ err' = err
    BY <1>2 DEF HelperWaits, Unlock
  <2> QED
    BY <2>2, <2>3, <2>4 DEF HelperWaits, TypeOK, NoFatalError
<1>5. \A q \in Proc : /\ Current(q)' = Current(q)
                      /\ Finished(q)' <=> Finished(q)
                      /\ Passes(q)' <=> Passes(q)
  BY SameWaits DEF HelperWaits
<1>6. HelpersListen'
  BY <1>1, <1>3, <1>5 DEF HelpersListen, HelperWaits, Helper
<1>7. ListsHoldWaiting'
  <2> SUFFICES ASSUME NEW n \in Names, NEW i \in DOMAIN queue'[n]
               PROVE  /\ helper'[queue'[n][i]] = "waiting"
                      /\ queue'[n][i][2] = n
                      /\ \A j \in DOMAIN queue'[n] : queue'[n][i] = queue'[n][j] => i = j
    BY DEF ListsHoldWaiting
  <2>1. \A m \in Names : \A k \in DOMAIN queue[m] : queue[m][k] \in Helper /\ queue[m][k] # h
    BY DEF TypeOK, ListsHoldWaiting, HelperWaits
  <2>2. CASE n # h[2]
    BY <1>3, <2>1, <2>2 DEF HelperWaits, TypeOK, ListsHoldWaiting
  <2>3. CASE n = h[2]
    <3>1. queue[n] \in Seq(Helper) /\ queue'[n] = Append(queue[n], h)
      BY <1>1, <2>3 DEF HelperWaits, TypeOK
    <3>2. /\ DOMAIN queue'[n] = 1..(Len(queue[n]) + 1)
          /\ queue'[n][Len(queue[n]) + 1] = h
          /\ \A k \in DOMAIN queue[n] : queue'[n][k] = queue[n][k]
          /\ DOMAIN queue[n] = 1..Len(queue[n])
          /\ Len(queue[n]) \in Nat
      BY <3>1
    <3>3. CASE i \in DOMAIN queue[n]
      BY <1>3, <2>1, <3>2, <3>3 DEF ListsHoldWaiting
    <3>4. CASE i = Len(queue[n]) + 1
      BY <1>3, <2>1, <2>3, <3>2, <3>4
    <3> QED
      BY <3>2, <3>3, <3>4
  <2> QED
    BY <2>2, <2>3
<1>8. \A q \in Proc : ~Holds(q)'
  <2>1. \A q \in Proc : q # p => (Holds(q)' <=> Holds(q))
    BY <1>3, OtherWaits DEF HelperWaits
  <2>2. ~Holds(p)'
    BY <1>1, <1>3, <1>5 DEF Holds, HelperWaits
  <2> QED
    BY <1>2, <2>1, <2>2
<1>9. NewHelpersWait'
  BY <1>8 DEF NewHelpersWait, Holds
<1>10. MutexHasOneOwner'
  BY <1>8 DEF MutexHasOneOwner, Owner, HelperWaits, Unlock
<1> QED
  BY <1>4, <1>6, <1>7, <1>9, <1>10

LEMMA HelperLocksIInv ==
    ASSUME IInv, NEW h \in Helper, HelperLocks(h)
    PROVE  IInv'
<1> DEFINE p == h[1]
<1>1. p \in Proc /\ at[p] = "select" /\ h = Current(p) /\ ~Finished(p)
  BY HelperOfWait DEF HelperLocks
<1> USE DEF IInv
<1>2. \A q \in Proc : ~Holds(q)
  BY DEF HelperLocks, MutexHasOneOwner, Owner
<1>3. \A g \in Helper : helper'[g] = IF g = h THEN "holding" ELSE helper[g]
  BY DEF HelperLocks, TypeOK
<1>4. TypeOK' /\ NoFatalError'
  BY DEF HelperLocks, TypeOK, NoFatalError
<1>5. \A q \in Proc : /\ Current(q)' = Current(q)
                      /\ Finished(q)' <=> Finished(q)
                      /\ Passes(q)' <=> Passes(q)
  BY SameWaits DEF HelperLocks
<1>6. HelpersListen'
  BY <1>1, <1>3, <1>5 DEF HelpersListen, HelperLocks, Helper
<1>7. ListsHoldWaiting'
  <2>1. \A m \in Names : \A k \in DOMAIN queue[m] : queue[m][k] \in Helper /\ queue[m][k] # h
    BY DEF TypeOK, ListsHoldWaiting, HelperLocks
  <2> QED
    BY <1>3, <2>1 DEF ListsHoldWaiting, HelperLocks
<1>8. \A q \in Proc : q # p => /\ Holds(q)' <=> Holds(q)
                               /\ at[q] = "select" => helper'[Current(q)] = helper[Current(q)]
  BY <1>3, OtherWaits DEF HelperLocks
<1>9. Holds(p)' /\ helper'[Current(p)] = "holding"
  BY <1>1, <1>3, <1>5 DEF Holds, HelperLocks
<1>10. NewHelpersWait'
  <2> SUFFICES ASSUME NEW q \in Proc, at'[q] = "select", helper'[Current(q)'] = "new" PROVE FALSE
    BY DEF NewHelpersWait
  <2>1. q # p
    BY <1>5, <1>9
  <2> QED
    BY <1>2, <1>8, <2>1 DEF Holds
<1>11. MutexHasOneOwner'
  BY <1>1, <1>2, <1>8, <1>9 DEF MutexHasOneOwner, Owner, HelperLocks
<1> QED
  BY <1>4, <1>6, <1>7, <1>10, <1>11

LEMMA ListenIInv ==
    ASSUME IInv, NEW p \in Proc, Listen(p)
    PROVE  IInv'
<1> USE DEF IInv
<1>1. ~Finished(p) /\ Current(p) \in Helper /\ Current(p)[1] = p
  BY CurrentType DEF Listen, HelpersListen
<1>2. locked /\ \A q \in Proc : Holds(q) => q = p
  BY OwnerHasLocked DEF Listen, Holds
<1>3. TypeOK' /\ NoFatalError'
  BY <1>1 DEF Listen, TypeOK, NoFatalError
<1>4. \A q \in Proc : at'[q] = IF q = p THEN "inside" ELSE at[q]
  BY DEF Listen, TypeOK
<1>5. \A h \in Helper : helper'[h] = IF h = Current(p) THEN "none" ELSE helper[h]
  BY <1>1 DEF Listen, TypeOK
<1>6. \A q \in Proc : /\ Current(q)' = Current(q)
                      /\ Finished(q)' <=> Finished(q)
                      /\ Passes(q)' <=> Passes(q)
  BY SameWaits DEF Listen
<1>7. HelpersListen'
  <2>1. ASSUME NEW h \in Helper, helper'[h] # "none"
        PROVE  at'[h[1]] = "select" /\ h = Current(h[1])'
    <3>1. h # Current(p) /\ helper[h] # "none"
      BY <1>5, <2>1
    <3>2. h[1] \in Proc /\ at[h[1]] = "select" /\ h = Current(h[1])
      BY <3>1, HelperOfWait
    <3>3. h[1] # p
      BY <3>1, <3>2
    <3> QED
      BY <1>4, <1>6, <3>2, <3>3
  <2>2. \A q \in Proc : left'[q] = 0 /\ (at'[q] # "outside" => ~Finished(q)')
    BY <1>1, <1>4, <1>6 DEF HelpersListen, Listen
  <2> QED
    BY <2>1, <2>2 DEF HelpersListen
<1>8. ListsHoldWaiting'
  <2>1. \A m \in Names : \A k \in DOMAIN queue[m] : queue[m][k] \in Helper /\ queue[m][k] # Current(p)
    BY DEF TypeOK, ListsHoldWaiting, Listen
  <2> QED
    BY <1>5, <2>1 DEF ListsHoldWaiting, Listen
<1>9. \A q \in Proc : q # p => /\ Holds(q)' <=> Holds(q)
                               /\ at[q] = "select" => helper'[Current(q)] = helper[Current(q)]
  BY <1>1, <1>4, <1>5, OtherWaits DEF Listen
<1>10. Holds(p)'
  BY <1>4 DEF Holds
<1>11. NewHelpersWait'
  BY <1>2, <1>4, <1>6, <1>9 DEF NewHelpersWait, Holds
<1>12. MutexHasOneOwner'
  BY <1>2, <1>9, <1>10 DEF MutexHasOneOwner, Owner, Listen
<1> QED
  BY <1>3, <1>7, <1>8, <1>11, <1>12

-----------------------------------------------------------------------------
LEMMA StepIInv ==
    ASSUME IInv, [Next]_vars
    PROVE  IInv'
<1>1. CASE UNCHANGED vars
  <2>1. \A p \in Proc : /\ Current(p)' = Current(p)
                        /\ Finished(p)' <=> Finished(p)
                        /\ Passes(p)' <=> Passes(p)
    BY <1>1, SameWaits DEF vars
  <2>2. TypeOK' /\ NoFatalError' /\ ListsHoldWaiting'
    BY <1>1 DEF vars, IInv, TypeOK, NoFatalError, ListsHoldWaiting
  <2>3. HelpersListen'
    BY <1>1, <2>1 DEF vars, IInv, HelpersListen, Helper
  <2>4. NewHelpersWait'
    BY <1>1, <2>1 DEF vars, IInv, NewHelpersWait
  <2>5. MutexHasOneOwner'
    BY <1>1, <2>1 DEF vars, IInv, MutexHasOneOwner, Owner, Holds
  <2> QED
    BY <2>2, <2>3, <2>4, <2>5 DEF IInv
<1>2. CASE \E p \in Proc : Step(p)
  <2>1. PICK p \in Proc : Step(p)
    BY <1>2
  <2>2. CASE \E h \in {p} \X Names \X (0..MaxLeft) : HelperWaits(h) \/ HelperLocks(h)
    <3>1. PICK h \in {p} \X Names \X (0..MaxLeft) : HelperWaits(h) \/ HelperLocks(h)
      BY <2>2
    <3>2. h \in Helper
      BY <3>1 DEF Helper
    <3> QED
      BY <3>1, <3>2, HelperWaitsIInv, HelperLocksIInv
  <2> QED
    BY <2>1, <2>2, LockIInv, PassIInv, WaitSemIInv, ListenIInv DEF Step
<1> QED
  BY <1>1, <1>2 DEF Next, Halted

THEOREM Invariance == Spec => []IInv
<1>1. IInv /\ [Next]_vars => IInv'
  BY StepIInv
<1> QED
  BY <1>1, InitIInv, PTL DEF Spec

(* The state keeps its type; the bound on left is never used up.           *)
THEOREM TypeCorrect == Spec => []TypeOK
<1>1. IInv => TypeOK
  BY DEF IInv
<1> QED
  BY <1>1, Invariance, PTL

(* Unless a run is stopped, exmut is locked exactly while one process has  *)
(* it, through all the waits of all the processes (symtab.go:97-101).      *)
THEOREM AlwaysOneOwner == Spec => []MutexHasOneOwner
<1>1. IInv => MutexHasOneOwner
  BY DEF IInv
<1> QED
  BY <1>1, Invariance, PTL

(* Unless a run is stopped, no helper unlocks a mutex that is not locked.  *)
THEOREM NeverUnlocksInVain == Spec => []NoFatalError
<1>1. IInv => NoFatalError
  BY DEF IInv
<1> QED
  BY <1>1, Invariance, PTL

-----------------------------------------------------------------------------
(* The sleepers of a condition are the processes of the helpers in it.     *)
LEMMA SleepersType ==
    ASSUME IInv, NEW n \in Names
    PROVE  /\ Sleepers[n] \in Seq(Proc)
           /\ Len(Sleepers[n]) = Len(queue[n])
           /\ \A i \in 1..Len(queue[n]) : Sleepers[n][i] = queue[n][i][1]
<1>1. queue[n] \in Seq(Helper)
  BY DEF IInv, TypeOK
<1>2. Len(queue[n]) \in Nat /\ DOMAIN queue[n] = 1..Len(queue[n])
  BY <1>1
<1>3. \A i \in 1..Len(queue[n]) : queue[n][i][1] \in Proc
  BY <1>1, ElementOfSeq DEF Helper
<1>4. Sleepers[n] = [i \in 1..Len(queue[n]) |-> queue[n][i][1]]
  BY <1>2 DEF Sleepers
<1> QED
  BY <1>2, <1>3, <1>4

LEMMA SameSleepers ==
    ASSUME UNCHANGED queue
    PROVE  UNCHANGED Sleepers
BY DEF Sleepers

(* A process sleeps in the monitor while its helper is in a list.          *)
LEMMA SleepingWaits ==
    ASSUME IInv, NEW p \in Proc, M!Sleeping(p)
    PROVE  at[p] = "select" /\ helper[Current(p)] = "waiting"
<1>1. PICK n \in Names : \E i \in DOMAIN Sleepers[n] : Sleepers[n][i] = p
  BY DEF M!Sleeping
<1>2. PICK i \in DOMAIN Sleepers[n] : Sleepers[n][i] = p
  BY <1>1
<1>3. i \in DOMAIN queue[n] /\ queue[n][i][1] = p
  BY <1>2 DEF Sleepers
<1>4. queue[n][i] \in Helper /\ helper[queue[n][i]] = "waiting"
  BY <1>3 DEF IInv, TypeOK, ListsHoldWaiting
<1> QED
  BY <1>3, <1>4, HelperOfWait

(* The monitor's operations are those of the program.                      *)
LEMMA SameOperations ==
    \A p \in Proc : /\ M!Finished(p) <=> Finished(p)
                    /\ M!Operation(p) = Operation(p)
                    /\ M!Expected(p) = Expected(p)
                    /\ M!Cell(p) = Cell(p)
                    /\ M!Passes(p) <=> Passes(p)
BY DEF M!Finished, Finished, M!Operation, Operation, M!Expected, Expected, M!Cell, Cell, M!Passes, Passes

(* Who has the mutex.                                                      *)
LEMMA OneOwner ==
    ASSUME IInv
    PROVE  /\ \A p \in Proc : Holds(p) => Owner = {p}
           /\ ~locked => Owner = {}
BY DEF IInv, MutexHasOneOwner, Owner

-----------------------------------------------------------------------------
LEMMA InitMonitor == Init => M!Init
<1> SUFFICES ASSUME Init PROVE M!Init
  OBVIOUS
<1>1. Owner = {}
  BY DEF Init, Owner, Holds
<1>2. IInv
  BY InitIInv
<1>3. ASSUME NEW n \in Names PROVE Sleepers[n] = <<>>
  <2>1. Len(queue[n]) = 0 /\ <<>> \in Seq(Proc) /\ Len(<<>>) = 0
    BY DEF Init
  <2> QED
    BY <1>2, <2>1, SleepersType, SeqEqual
<1>4. Sleepers = [n \in Names |-> <<>>]
  BY <1>3 DEF Sleepers
<1>5. M!Cells = Cells
  BY DEF M!Cells, Cells
<1> QED
  BY <1>1, <1>4, <1>5 DEF Init, M!Init

(* To take the mutex, at first or after a wait, is to enter the monitor.   *)
LEMMA EnterMonitor ==
    ASSUME IInv, IInv', NEW p \in Proc, ~locked, Holds(p)', ~Finished(p),
           at[p] # "select" \/ helper[Current(p)] # "waiting",
           UNCHANGED <<rev, val, pos, queue>>
    PROVE  M!Enter(p)
<1>1. Owner = {} /\ Owner' = {p}
  BY OneOwner DEF IInv, MutexHasOneOwner, Owner
<1>2. ~M!Sleeping(p)
  BY SleepingWaits
<1> QED
  BY <1>1, <1>2, SameSleepers, SameOperations DEF M!Enter

LEMMA PassMonitor ==
    ASSUME IInv, IInv', NEW p \in Proc, Pass(p)
    PROVE  M!Pass(p)
<1> DEFINE n == Operation(p).name
<1>1. n \in Names
  BY OperationType DEF Pass, IInv, HelpersListen
<1>2. Owner = {p}
  BY OneOwner DEF Pass, Holds
<1>3. Owner' = {}
  BY DEF Pass, Unlock, IInv, MutexHasOneOwner
<1>4. queue' = [queue EXCEPT ![n] = IF queue[n] = <<>> THEN queue[n] ELSE Tail(queue[n])]
  BY <1>1 DEF Pass, Signal, IInv, TypeOK
<1>5. Sleepers'[n] = M!Rest(Sleepers[n])
  <2>1. queue[n] \in Seq(Helper) /\ Len(queue[n]) \in Nat
    BY <1>1 DEF IInv, TypeOK
  <2>2. /\ Sleepers[n] \in Seq(Proc) /\ Len(Sleepers[n]) = Len(queue[n])
        /\ \A i \in 1..Len(queue[n]) : Sleepers[n][i] = queue[n][i][1]
    BY <1>1, SleepersType
  <2>3. CASE queue[n] = <<>>
    <3>1. queue'[n] = queue[n]
      BY <1>1, <1>4, <2>3 DEF IInv, TypeOK
    <3>2. Sleepers'[n] = Sleepers[n]
      BY <1>1, <3>1 DEF Sleepers
    <3>3. Sleepers[n] = <<>>
      BY <2>2, <2>3
    <3> QED
      BY <3>2, <3>3 DEF M!Rest
  <2>4. CASE queue[n] # <<>>
    <3>1. queue'[n] = Tail(queue[n])
      BY <1>1, <1>4, <2>4 DEF IInv, TypeOK
    <3>2. /\ Sleepers[n] # <<>> /\ Tail(Sleepers[n]) \in Seq(Proc)
          /\ Len(Tail(Sleepers[n])) = Len(queue[n]) - 1
          /\ \A i \in 1..(Len(queue[n]) - 1) : Tail(Sleepers[n])[i] = Sleepers[n][i + 1]
      BY <2>1, <2>2, <2>4
    <3>3. /\ DOMAIN Tail(queue[n]) = 1..(Len(queue[n]) - 1)
          /\ \A i \in 1..(Len(queue[n]) - 1) : Tail(queue[n])[i] = queue[n][i + 1]
      BY <2>1, <2>4
    <3>4. Sleepers'[n] = [i \in 1..(Len(queue[n]) - 1) |-> queue[n][i + 1][1]]
      BY <1>1, <3>1, <3>3 DEF Sleepers
    <3>5. \A i \in 1..(Len(queue[n]) - 1) : i + 1 \in 1..Len(queue[n])
      BY <2>1
    <3>6. DOMAIN Tail(Sleepers[n]) = 1..(Len(queue[n]) - 1)
      BY <3>2
    <3>7. Tail(Sleepers[n]) = [i \in 1..(Len(queue[n]) - 1) |-> queue[n][i + 1][1]]
      <4>1. Tail(Sleepers[n]) = [i \in 1..(Len(queue[n]) - 1) |-> Tail(Sleepers[n])[i]]
        BY <3>2, <3>6, LenProperties
      <4>2. \A i \in 1..(Len(queue[n]) - 1) : Tail(Sleepers[n])[i] = queue[n][i + 1][1]
        BY <2>2, <3>2, <3>5
      <4> QED
        BY <4>1, <4>2
    <3> QED
      BY <3>2, <3>4, <3>7 DEF M!Rest
  <2> QED
    BY <2>3, <2>4
<1>6. \A m \in Names : m # n => Sleepers'[m] = Sleepers[m]
  BY <1>4 DEF Sleepers, IInv, TypeOK
<1>7. Sleepers' = [Sleepers EXCEPT ![n] = M!Rest(Sleepers[n])]
  BY <1>1, <1>5, <1>6 DEF Sleepers
<1> QED
  BY <1>2, <1>3, <1>7, SameOperations DEF Pass, M!Pass

LEMMA SleepMonitor ==
    ASSUME IInv, IInv', NEW h \in Helper, HelperWaits(h)
    PROVE  M!Sleep(h[1])
<1> DEFINE p == h[1]
           n == h[2]
<1>1. p \in Proc /\ n \in Names /\ at[p] = "select" /\ h = Current(p) /\ n = Operation(p).name
  BY HelperOfWait DEF HelperWaits
<1>2. ~Passes(p)
  BY <1>1 DEF IInv, NewHelpersWait, HelperWaits
<1>3. Owner = {p}
  BY <1>1, OneOwner DEF HelperWaits, Holds
<1>4. Owner' = {}
  BY DEF HelperWaits, Unlock, IInv, MutexHasOneOwner
<1>5. queue[n] \in Seq(Helper) /\ queue'[n] = Append(queue[n], h)
  BY <1>1 DEF HelperWaits, IInv, TypeOK
<1>6. Sleepers'[n] = Append(Sleepers[n], p)
  <2>1. /\ Sleepers[n] \in Seq(Proc) /\ Len(Sleepers[n]) = Len(queue[n])
        /\ \A i \in 1..Len(queue[n]) : Sleepers[n][i] = queue[n][i][1]
    BY <1>1, SleepersType
  <2> DEFINE k == Len(queue[n])
  <2>2. /\ k \in Nat
        /\ DOMAIN queue'[n] = 1..(k + 1)
        /\ \A i \in 1..(k + 1) : queue'[n][i] = IF i = k + 1 THEN h ELSE queue[n][i]
    BY <1>5
  <2>3. Sleepers'[n] = [i \in 1..(k + 1) |-> queue'[n][i][1]]
    BY <1>1, <2>2 DEF Sleepers
  <2>4. Append(Sleepers[n], p) = [i \in 1..(k + 1) |-> IF i = k + 1 THEN p ELSE Sleepers[n][i]]
    BY <1>1, <2>1, <2>2
  <2> HIDE DEF k
  <2>5. \A i \in 1..(k + 1) : queue'[n][i][1] = IF i = k + 1 THEN p ELSE Sleepers[n][i]
    <3> TAKE i \in 1..(k + 1)
    <3>1. i # k + 1 => i \in 1..k
      BY <2>2
    <3> QED
      BY <2>1, <2>2, <3>1 DEF k
  <2> QED
    BY <2>3, <2>4, <2>5
<1>7. \A m \in Names : m # n => Sleepers'[m] = Sleepers[m]
  BY DEF HelperWaits, Sleepers, IInv, TypeOK
<1>8. Sleepers' = [Sleepers EXCEPT ![n] = Append(Sleepers[n], p)]
  BY <1>1, <1>6, <1>7 DEF Sleepers
<1> QED
  BY <1>1, <1>2, <1>3, <1>4, <1>8, SameOperations DEF HelperWaits, M!Sleep

(* The mutex goes from the process to its helper and back: nothing that    *)
(* the monitor sees.                                                       *)
LEMMA HandOver ==
    ASSUME IInv, IInv', NEW p \in Proc, WaitSem(p) \/ Listen(p)
    PROVE  UNCHANGED M!vars
<1>1. Holds(p)
  BY DEF WaitSem, Listen, Holds
<1>2. Current(p)' = Current(p) /\ ~Finished(p) /\ Current(p) \in Helper
  BY SameWaits, CurrentType DEF WaitSem, Listen, IInv, HelpersListen
<1>3. Holds(p)'
  BY <1>2 DEF WaitSem, Listen, Holds, IInv, TypeOK
<1>4. Owner = {p} /\ Owner' = {p}
  BY <1>1, <1>3 DEF IInv, MutexHasOneOwner, Owner
<1>5. UNCHANGED <<rev, val, pos, queue>>
  BY DEF WaitSem, Listen
<1> QED
  BY <1>4, <1>5, SameSleepers DEF M!vars

LEMMA StepMonitor ==
    ASSUME IInv, IInv', [Next]_vars
    PROVE  [M!Next]_M!vars
<1>1. CASE UNCHANGED vars
  <2>1. UNCHANGED Owner
    BY <1>1 DEF vars, Owner, Holds, Current, Operation
  <2> QED
    BY <1>1, <2>1, SameSleepers DEF vars, M!vars
<1>2. CASE \E p \in Proc : Step(p)
  <2>1. PICK p \in Proc : Step(p)
    BY <1>2
  <2>2. CASE Lock(p)
    <3>1. Holds(p)'
      BY <2>2 DEF Lock, Holds, IInv, TypeOK
    <3>2. M!Enter(p)
      BY <2>2, <3>1, EnterMonitor DEF Lock
    <3> QED
      BY <3>2 DEF M!Next
  <2>3. CASE Pass(p)
    BY <2>3, PassMonitor DEF M!Next
  <2>4. CASE WaitSem(p) \/ Listen(p)
    BY <2>4, HandOver
  <2>5. CASE \E h \in {p} \X Names \X (0..MaxLeft) : HelperWaits(h) \/ HelperLocks(h)
    <3>1. PICK h \in {p} \X Names \X (0..MaxLeft) : HelperWaits(h) \/ HelperLocks(h)
      BY <2>5
    <3>2. h \in Helper /\ h[1] = p
      BY <3>1 DEF Helper
    <3>3. CASE HelperWaits(h)
      BY <3>2, <3>3, SleepMonitor DEF M!Next
    <3>4. CASE HelperLocks(h)
      <4>1. at[p] = "select" /\ h = Current(p) /\ ~Finished(p)
        BY <3>2, <3>4, HelperOfWait DEF HelperLocks
      <4>2. Holds(p)'
        BY <3>2, <3>4, <4>1, SameWaits DEF HelperLocks, Holds, IInv, TypeOK
      <4>3. M!Enter(p)
        BY <3>4, <4>1, <4>2, EnterMonitor DEF HelperLocks
      <4> QED
        BY <4>3 DEF M!Next
    <3> QED
      BY <3>1, <3>3, <3>4
  <2> QED
    BY <2>1, <2>2, <2>3, <2>4, <2>5 DEF Step
<1> QED
  BY <1>1, <1>2 DEF Next, Halted

(* For every program of V and P: as long as nothing is stopped, processes  *)
(* that wait through WaitSem and are woken through NotifySem behave as in  *)
(* the monitor, in which to wait is one step.                              *)
THEOREM Refinement == Spec => WaitSemIsMonitorWait
<1>1. IInv /\ IInv' /\ [Next]_vars => [M!Next]_M!vars
  BY StepMonitor
<1> QED
  BY <1>1, InitMonitor, Invariance, PTL DEF Spec, WaitSemIsMonitorWait, M!Spec

=============================================================================
