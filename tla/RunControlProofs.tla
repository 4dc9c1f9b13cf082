-------------------------- MODULE RunControlProofs --------------------------
(***************************************************************************)
(* What holds in a session of the debugger, however many branches the call *)
(* forks and however many blocks they have.                                *)
(*                                                                         *)
(* Whatever the user does, the broadcast channels never fill up, if the    *)
(* program has at most Cap - 2 branches at a time.  They have no more      *)
(* tokens, those in somebody's hands included, than there are goroutines:  *)
(* who creates a token has seen the channel empty before, so that all      *)
(* other tokens were in hands, one per goroutine.                          *)
(*                                                                         *)
(* In an orderly session, one without the habits, a process never has two  *)
(* goroutines, all goroutines go in one direction, a goroutine at rest has *)
(* given the mutex back, a waiting goroutine has a wakeup to come, and the *)
(* blocks are executed and undone in causal order.  The invariant that     *)
(* carries this, Orderly, says where the goroutines can be while the       *)
(* debugger is in each of its states, and how far each has come.           *)
(***************************************************************************)
EXTENDS RunControl, FiniteSetTheorems, TLAPS

\* What the arithmetic needs to know of the types.
ChannelsTyped ==
    /\ runever \in Seq(BOOLEAN)
    /\ runclose \in Nat
    /\ dagupdate \in Nat
    /\ gor \in [Proc -> GorState]
    /\ lrev \in [Proc -> BOOLEAN]
    /\ rev \in BOOLEAN
    /\ dbg \in DbgState
    /\ spawned \in 0..N

Inv == ChannelsTyped /\ TokensCounted

-----------------------------------------------------------------------------
(* Counting the goroutines at some places *)

LEMMA HoldersFinite ==
  ASSUME NEW f, NEW S
  PROVE  /\ IsFiniteSet(Holders(f, S))
         /\ Cardinality(Holders(f, S)) \in 0..(N + 1)
<1>1. IsFiniteSet(0..N) /\ Cardinality(0..N) = N + 1
  BY RunAssumption, FS_Interval
<1>2. Holders(f, S) \subseteq 0..N
  BY DEF Holders, Proc
<1>3. /\ IsFiniteSet(Holders(f, S))
      /\ Cardinality(Holders(f, S)) <= N + 1
  BY <1>1, <1>2, FS_Subset
<1>4. Cardinality(Holders(f, S)) \in Nat
  BY <1>3, FS_CardinalityType
<1> QED  BY <1>3, <1>4, RunAssumption

\* 1 if p is counted in Holders(f, S).
Counted(f, p, S) == IF f[p] \in S THEN 1 ELSE 0

\* One goroutine moves: it leaves its place and arrives at another.
LEMMA HoldersMove ==
  ASSUME NEW f, NEW g, NEW p \in Proc, NEW S,
         \A q \in Proc : q # p => g[q] = f[q]
  PROVE  Cardinality(Holders(g, S))
            = Cardinality(Holders(f, S)) - Counted(f, p, S) + Counted(g, p, S)
<1>1. IsFiniteSet(Holders(f, S)) /\ Cardinality(Holders(f, S)) \in Nat
  BY HoldersFinite
<1>2. p \in Holders(f, S) <=> f[p] \in S
  BY DEF Holders
<1>3. Counted(f, p, S) = IF p \in Holders(f, S) THEN 1 ELSE 0
  BY <1>2 DEF Counted
<1>4. CASE g[p] \in S
  <2>1. Holders(g, S) = Holders(f, S) \cup {p}
    BY <1>4 DEF Holders
  <2>2. Cardinality(Holders(g, S)) = IF p \in Holders(f, S) THEN Cardinality(Holders(f, S))
                                     ELSE Cardinality(Holders(f, S)) + 1
    BY <1>1, <2>1, FS_AddElement
  <2>3. Counted(g, p, S) = 1
    BY <1>4 DEF Counted
  <2> QED  BY <1>1, <1>3, <2>2, <2>3
<1>5. CASE g[p] \notin S
  <2>1. Holders(g, S) = Holders(f, S) \ {p}
    BY <1>5 DEF Holders
  <2>2. Cardinality(Holders(g, S)) = IF p \in Holders(f, S) THEN Cardinality(Holders(f, S)) - 1
                                     ELSE Cardinality(Holders(f, S))
    BY <1>1, <2>1, FS_RemoveElement
  <2>3. Counted(g, p, S) = 0
    BY <1>5 DEF Counted
  <2> QED  BY <1>1, <1>3, <2>2, <2>3
<1> QED  BY <1>4, <1>5

LEMMA HolderCounted ==
  ASSUME NEW f, NEW S, NEW p \in Proc, f[p] \in S
  PROVE  Cardinality(Holders(f, S)) >= 1
<1>1. IsFiniteSet(Holders(f, S)) /\ Cardinality(Holders(f, S)) \in Nat
  BY HoldersFinite
<1>2. Holders(f, S) # {}
  BY DEF Holders
<1> QED  BY <1>1, <1>2, FS_EmptySet

LEMMA HandsBounded ==
  /\ UpdateHands \in 0..(N + 1)
  /\ CloseHands \in 0..(N + 1)
  /\ RunHands \in 0..(N + 1)
BY HoldersFinite DEF UpdateHands, CloseHands, RunHands

LEMMA HandsBoundedNext ==
  /\ UpdateHands' \in 0..(N + 1)
  /\ CloseHands' \in 0..(N + 1)
  /\ RunHands' \in 0..(N + 1)
BY HoldersFinite DEF UpdateHands, CloseHands, RunHands

\* The three counts when only p moves.
LEMMA CountsMove ==
  ASSUME NEW p \in Proc, \A q \in Proc : q # p => gor'[q] = gor[q], NEW S
  PROVE  Cardinality(Holders(gor', S))
            = Cardinality(Holders(gor, S)) - Counted(gor, p, S) + Counted(gor', p, S)
BY HoldersMove

LEMMA HandsMove ==
  ASSUME NEW p \in Proc, \A q \in Proc : q # p => gor'[q] = gor[q]
  PROVE  /\ UpdateHands' = UpdateHands - Counted(gor, p, {"pass", "update"})
                                       + Counted(gor', p, {"pass", "update"})
         /\ CloseHands' = CloseHands - Counted(gor, p, {"closing", "eof"})
                                     + Counted(gor', p, {"closing", "eof"})
         /\ RunHands' = RunHands - Counted(gor, p, {"got"}) + Counted(gor', p, {"got"})
<1>1. UpdateHands' = UpdateHands - Counted(gor, p, {"pass", "update"})
                                 + Counted(gor', p, {"pass", "update"})
  BY CountsMove DEF UpdateHands
<1>2. CloseHands' = CloseHands - Counted(gor, p, {"closing", "eof"})
                               + Counted(gor', p, {"closing", "eof"})
  BY CountsMove DEF CloseHands
<1>3. RunHands' = RunHands - Counted(gor, p, {"got"}) + Counted(gor', p, {"got"})
  BY CountsMove DEF RunHands
<1> QED  BY <1>1, <1>2, <1>3

\* The move of p from where it is to s.
LEMMA Moved ==
  ASSUME ChannelsTyped, NEW p \in Proc, NEW s \in GorState, Goto(p, s)
  PROVE  /\ gor' \in [Proc -> GorState]
         /\ UpdateHands' = UpdateHands - (IF gor[p] \in {"pass", "update"} THEN 1 ELSE 0)
                                       + (IF s \in {"pass", "update"} THEN 1 ELSE 0)
         /\ CloseHands' = CloseHands - (IF gor[p] \in {"closing", "eof"} THEN 1 ELSE 0)
                                     + (IF s \in {"closing", "eof"} THEN 1 ELSE 0)
         /\ RunHands' = RunHands - (IF gor[p] = "got" THEN 1 ELSE 0)
                                 + (IF s = "got" THEN 1 ELSE 0)
<1>1. gor \in [Proc -> GorState]
  BY DEF ChannelsTyped
<1>2. gor' \in [Proc -> GorState] /\ gor'[p] = s /\ \A q \in Proc : q # p => gor'[q] = gor[q]
  BY <1>1 DEF Goto
<1>3. /\ UpdateHands' = UpdateHands - Counted(gor, p, {"pass", "update"})
                                    + Counted(gor', p, {"pass", "update"})
      /\ CloseHands' = CloseHands - Counted(gor, p, {"closing", "eof"})
                                  + Counted(gor', p, {"closing", "eof"})
      /\ RunHands' = RunHands - Counted(gor, p, {"got"}) + Counted(gor', p, {"got"})
  BY <1>2, HandsMove
<1> QED  BY <1>2, <1>3 DEF Counted

-----------------------------------------------------------------------------
(* The steps of a goroutine *)


\* Tokens and hands as numbers.
LEMMA Numbers ==
  ASSUME ChannelsTyped
  PROVE  /\ N \in Nat
         /\ dagupdate \in Nat /\ runclose \in Nat /\ Len(runever) \in Nat
         /\ UpdateHands \in Nat /\ CloseHands \in Nat /\ RunHands \in Nat
         /\ UpdateHands <= N + 1 /\ CloseHands <= N + 1 /\ RunHands <= N + 1
         /\ UpdateHands' <= N + 1 /\ CloseHands' <= N + 1 /\ RunHands' <= N + 1
BY HandsBounded, HandsBoundedNext, RunAssumption DEF ChannelsTyped

\* Enough for a step in which the debugger does nothing.
LEMMA SumsKept ==
  ASSUME Inv, dbg' = dbg,
         (dagupdate + UpdateHands)' <= dagupdate + UpdateHands,
         (runclose + CloseHands)' <= runclose + CloseHands,
         (Len(runever) + RunHands)' <= Len(runever) + RunHands,
         (dagupdate + UpdateHands)' \in Nat,
         (runclose + CloseHands)' \in Nat,
         (Len(runever) + RunHands)' \in Nat
  PROVE  TokensCounted'
<1>1. ChannelsTyped
  BY DEF Inv
<1>2. (dagupdate + UpdateHands <= N + 1)'
  BY <1>1, Numbers DEF Inv, TokensCounted
<1>3. (runclose + CloseHands + One(dbg \in {"again", "stop2", "stop3"}) <= N + 2)'
  BY <1>1, Numbers DEF Inv, TokensCounted, One
<1>4. (Len(runever) + RunHands + One(dbg = "run3") <= N + 2)'
  BY <1>1, Numbers DEF Inv, TokensCounted, One
<1> QED  BY <1>2, <1>3, <1>4 DEF TokensCounted

\* p moves between places where it holds nothing, and no channel changes.
LEMMA MoveHoldingNothing ==
  ASSUME Inv, NEW p \in Proc, NEW s \in GorState, Goto(p, s),
         gor[p] \notin {"pass", "update", "closing", "eof", "got"},
         s \notin {"pass", "update", "closing", "eof", "got"},
         UNCHANGED <<dbg, runever, runclose, dagupdate>>
  PROVE  gor' \in [Proc -> GorState] /\ TokensCounted'
BY Moved, HandsBounded, RunAssumption DEF Inv, ChannelsTyped, TokensCounted, One

-----------------------------------------------------------------------------
(* The steps of a goroutine *)

\* What a step of a goroutine leaves of the types and the counts.
Kept == gor' \in [Proc -> GorState] /\ TokensCounted'

\* The steps that take a token from a channel or put one back.
LEMMA TokenStepCounted ==
  ASSUME Inv, NEW p \in Proc,
         \/ TakeRun(p) \/ PassRun(p) \/ TakeClose(p) \/ PassClose(p)
         \/ TakeUpdate(p) \/ PassUpdate(p) \/ Update(p) \/ Eof(p)
  PROVE  Kept
<1>1. ChannelsTyped
  BY DEF Inv
<1>2. CASE TakeRun(p)
  <2>1. Goto(p, "got") /\ gor[p] = "select"
    BY <1>2 DEF TakeRun, At
  <2>2. /\ gor' \in [Proc -> GorState]
        /\ UpdateHands' = UpdateHands /\ CloseHands' = CloseHands /\ RunHands' = RunHands + 1
    BY <1>1, <2>1, Moved, Numbers DEF GorState
  <2>3. Len(runever') = Len(runever) - 1 /\ Len(runever) \in Nat \ {0}
    BY <1>1, <1>2 DEF TakeRun, ChannelsTyped
  <2>4. dbg' = dbg /\ runclose' = runclose /\ dagupdate' = dagupdate
    BY <1>2 DEF TakeRun
  <2> QED  BY <1>1, <2>2, <2>3, <2>4, Numbers, SumsKept DEF Kept
<1>3. CASE PassRun(p)
  <2>1. Goto(p, "loop") /\ gor[p] = "got"
    BY <1>3 DEF PassRun, At
  <2>2. /\ gor' \in [Proc -> GorState]
        /\ UpdateHands' = UpdateHands /\ CloseHands' = CloseHands /\ RunHands' = RunHands - 1
    BY <1>1, <2>1, Moved, Numbers DEF GorState
  <2>3. Len(runever') = Len(runever) + 1
    BY <1>1, <1>3 DEF PassRun, ChannelsTyped
  <2>4. dbg' = dbg /\ runclose' = runclose /\ dagupdate' = dagupdate
    BY <1>3 DEF PassRun
  <2> QED  BY <1>1, <2>2, <2>3, <2>4, Numbers, SumsKept DEF Kept
<1>4. CASE TakeClose(p)
  <2>1. Goto(p, "closing") /\ gor[p] \in {"select", "loop", "wait"}
    BY <1>4 DEF TakeClose
  <2>2. /\ gor' \in [Proc -> GorState]
        /\ UpdateHands' = UpdateHands /\ CloseHands' = CloseHands + 1 /\ RunHands' = RunHands
    BY <1>1, <2>1, Moved, Numbers DEF GorState
  <2>3. dbg' = dbg /\ runever' = runever /\ dagupdate' = dagupdate
        /\ runclose' = runclose - 1 /\ runclose > 0
    BY <1>4 DEF TakeClose
  <2> QED  BY <1>1, <2>2, <2>3, Numbers, SumsKept DEF Kept
<1>5. CASE PassClose(p)
  <2>1. Goto(p, "none") /\ gor[p] = "closing"
    BY <1>5 DEF PassClose, At
  <2>2. /\ gor' \in [Proc -> GorState]
        /\ UpdateHands' = UpdateHands /\ CloseHands' = CloseHands - 1 /\ RunHands' = RunHands
    BY <1>1, <2>1, Moved, Numbers DEF GorState
  <2>3. dbg' = dbg /\ runever' = runever /\ dagupdate' = dagupdate /\ runclose' = runclose + 1
    BY <1>5 DEF PassClose
  <2> QED  BY <1>1, <2>2, <2>3, Numbers, SumsKept DEF Kept
<1>6. CASE TakeUpdate(p)
  <2>1. Goto(p, "pass") /\ gor[p] = "wait"
    BY <1>6 DEF TakeUpdate, At
  <2>2. /\ gor' \in [Proc -> GorState]
        /\ UpdateHands' = UpdateHands + 1 /\ CloseHands' = CloseHands /\ RunHands' = RunHands
    BY <1>1, <2>1, Moved, Numbers DEF GorState
  <2>3. dbg' = dbg /\ runever' = runever /\ runclose' = runclose
        /\ dagupdate' = dagupdate - 1 /\ dagupdate > 0
    BY <1>6 DEF TakeUpdate
  <2> QED  BY <1>1, <2>2, <2>3, Numbers, SumsKept DEF Kept
<1>7. CASE PassUpdate(p)
  <2>1. Goto(p, "loop") /\ gor[p] = "pass"
    BY <1>7 DEF PassUpdate, At
  <2>2. /\ gor' \in [Proc -> GorState]
        /\ UpdateHands' = UpdateHands - 1 /\ CloseHands' = CloseHands /\ RunHands' = RunHands
    BY <1>1, <2>1, Moved, Numbers DEF GorState
  <2>3. dbg' = dbg /\ runever' = runever /\ runclose' = runclose /\ dagupdate' = dagupdate + 1
    BY <1>7 DEF PassUpdate
  <2> QED  BY <1>1, <2>2, <2>3, Numbers, SumsKept DEF Kept
<1>8. CASE Update(p)
  <2>1. PICK s \in {"loop", "eofunclog", "term"} : Goto(p, s)
    BY <1>8 DEF Update
  <2>2. gor[p] = "update"
    BY <1>8 DEF Update, At
  <2>3. /\ gor' \in [Proc -> GorState]
        /\ UpdateHands' = UpdateHands - 1 /\ CloseHands' = CloseHands /\ RunHands' = RunHands
    BY <1>1, <2>1, <2>2, Moved, Numbers DEF GorState
  <2>4. dbg' = dbg /\ runever' = runever /\ runclose' = runclose /\ dagupdate' = dagupdate + 1
    BY <1>8 DEF Update
  <2> QED  BY <1>1, <2>3, <2>4, Numbers, SumsKept DEF Kept
<1>9. CASE Eof(p)
  <2>1. Goto(p, "none") /\ gor[p] = "eof"
    BY <1>9 DEF Eof, At
  <2>2. /\ gor' \in [Proc -> GorState]
        /\ UpdateHands' = UpdateHands /\ CloseHands' = CloseHands - 1 /\ RunHands' = RunHands
    BY <1>1, <2>1, Moved, Numbers DEF GorState
  <2>3. dbg' = dbg /\ runever' = runever /\ dagupdate' = dagupdate /\ runclose' = runclose + 1
    BY <1>9 DEF Eof
  <2> QED  BY <1>1, <2>2, <2>3, Numbers, SumsKept DEF Kept
<1> QED  BY <1>2, <1>3, <1>4, <1>5, <1>6, <1>7, <1>8, <1>9

\* The steps that empty a channel: once it is empty, what there may be of its
\* tokens is in hands, at most one per goroutine.
LEMMA DrainStepCounted ==
  ASSUME Inv, NEW p \in Proc, Unclog(p) \/ EofUnclog(p)
  PROVE  Kept
<1>1. ChannelsTyped
  BY DEF Inv
<1>2. CASE Unclog(p)
  <2>1. dbg' = dbg /\ runever' = runever /\ runclose' = runclose /\ gor[p] = "unclog"
    BY <1>2 DEF Unclog, At
  <2>2. CASE dagupdate > 0
    <3>1. dagupdate' = dagupdate - 1 /\ gor' = gor
      BY <1>2, <2>2 DEF Unclog
    <3>2. UpdateHands' = UpdateHands /\ CloseHands' = CloseHands /\ RunHands' = RunHands
      BY <3>1 DEF UpdateHands, CloseHands, RunHands
    <3> QED  BY <1>1, <2>1, <2>2, <3>1, <3>2, Numbers, SumsKept DEF Kept, ChannelsTyped
  <2>3. CASE ~(dagupdate > 0)
    <3>1. dagupdate' = dagupdate /\ Goto(p, "update")
      BY <1>2, <2>3 DEF Unclog
    <3>2. /\ gor' \in [Proc -> GorState]
          /\ UpdateHands' = UpdateHands + 1 /\ CloseHands' = CloseHands /\ RunHands' = RunHands
      BY <1>1, <2>1, <3>1, Moved, Numbers DEF GorState
    <3>3. (dagupdate + UpdateHands <= N + 1)'
      BY <1>1, <2>3, <3>1, <3>2, Numbers
    <3> QED  BY <2>1, <3>2, <3>3 DEF Kept, Inv, TokensCounted, One
  <2> QED  BY <2>2, <2>3
<1>3. CASE EofUnclog(p)
  <2>1. dbg' = dbg /\ runever' = runever /\ dagupdate' = dagupdate /\ gor[p] = "eofunclog"
    BY <1>3 DEF EofUnclog, At
  <2>2. CASE runclose > 0
    <3>1. runclose' = runclose - 1 /\ gor' = gor
      BY <1>3, <2>2 DEF EofUnclog
    <3>2. UpdateHands' = UpdateHands /\ CloseHands' = CloseHands /\ RunHands' = RunHands
      BY <3>1 DEF UpdateHands, CloseHands, RunHands
    <3> QED  BY <1>1, <2>1, <2>2, <3>1, <3>2, Numbers, SumsKept DEF Kept, ChannelsTyped
  <2>3. CASE ~(runclose > 0)
    <3>1. runclose' = runclose /\ Goto(p, "eof")
      BY <1>3, <2>3 DEF EofUnclog
    <3>2. /\ gor' \in [Proc -> GorState]
          /\ UpdateHands' = UpdateHands /\ CloseHands' = CloseHands + 1 /\ RunHands' = RunHands
      BY <1>1, <2>1, <3>1, Moved, Numbers DEF GorState
    <3>3. (runclose + CloseHands + One(dbg \in {"again", "stop2", "stop3"}) <= N + 2)'
      BY <1>1, <2>3, <3>1, <3>2, Numbers DEF One
    <3> QED  BY <2>1, <3>2, <3>3 DEF Kept, Inv, TokensCounted, One
  <2> QED  BY <2>2, <2>3
<1> QED  BY <1>2, <1>3

\* The other steps of a goroutine leave the counted channels alone.
LEMMA BlockStepCounted ==
  ASSUME Inv, NEW p \in Proc,
         \/ Ask(p) \/ Exec(p) \/ ExecLast(p) \/ Release(p) \/ ExecEof(p)
         \/ CallUnlock(p) \/ Join(p) \/ CallEnd(p) \/ CallBegin(p) \/ Terminate(p)
  PROVE  Kept
<1>1. /\ UNCHANGED <<dbg, runever, runclose, dagupdate>>
      /\ gor[p] \in {"loop", "lock", "block", "spawn", "call", "relock", "term"}
      /\ \E s \in {"lock", "wait", "unclog", "block", "call", "relock", "spawn", "none"} : Goto(p, s)
  BY DEF Ask, Exec, ExecLast, Release, ExecEof, CallUnlock, Join, CallEnd, CallBegin,
         Terminate, At, chans
<1>2. PICK s \in {"lock", "wait", "unclog", "block", "call", "relock", "spawn", "none"} : Goto(p, s)
  BY <1>1
<1> QED  BY <1>1, <1>2, MoveHoldingNothing DEF Kept, GorState

\* A process that is started holds no token, even if it had a goroutine already.
LEMMA StartCounted ==
  ASSUME Inv, NEW p \in Proc, Start(p), dbg' \in {dbg, "running"},
         UNCHANGED <<runever, runclose, dagupdate>>
  PROVE  Kept
<1>1. ChannelsTyped /\ Goto(p, "select")
  BY DEF Inv, Start, Goto
<1>2. /\ gor' \in [Proc -> GorState]
      /\ UpdateHands' <= UpdateHands /\ CloseHands' <= CloseHands /\ RunHands' <= RunHands
      /\ UpdateHands' \in Int /\ CloseHands' \in Int /\ RunHands' \in Int
  BY <1>1, Moved, Numbers DEF GorState
<1>3. (dagupdate + UpdateHands <= N + 1)'
  BY <1>1, <1>2, Numbers DEF Inv, TokensCounted
<1>4. (runclose + CloseHands + One(dbg \in {"again", "stop2", "stop3"}) <= N + 2)'
  BY <1>1, <1>2, Numbers DEF Inv, TokensCounted, One
<1>5. (Len(runever) + RunHands + One(dbg = "run3") <= N + 2)'
  BY <1>1, <1>2, Numbers DEF Inv, TokensCounted, One
<1> QED  BY <1>2, <1>3, <1>4, <1>5 DEF Kept, TokensCounted

LEMMA GorStepCounted ==
  ASSUME Inv, NEW p \in Proc, GorStep(p)
  PROVE  Kept
<1>1. CASE \/ TakeRun(p) \/ PassRun(p) \/ TakeClose(p) \/ PassClose(p)
           \/ TakeUpdate(p) \/ PassUpdate(p) \/ Update(p) \/ Eof(p)
  BY <1>1, TokenStepCounted
<1>2. CASE Unclog(p) \/ EofUnclog(p)
  BY <1>2, DrainStepCounted
<1>3. CASE \/ Ask(p) \/ Exec(p) \/ ExecLast(p) \/ Release(p) \/ ExecEof(p)
           \/ CallUnlock(p) \/ Join(p) \/ CallEnd(p) \/ CallBegin(p) \/ Terminate(p)
  BY <1>3, BlockStepCounted
<1>4. CASE ExecAstray(p)
  <2>1. UNCHANGED <<gor, dbg, runever, runclose, dagupdate>>
    BY <1>4 DEF ExecAstray, chans
  <2> QED  BY <2>1 DEF Kept, Inv, ChannelsTyped, TokensCounted, UpdateHands, CloseHands, RunHands
<1>5. CASE Spawn(p)
  <2>1. spawned + 1 \in Proc
    BY <1>5, RunAssumption DEF Spawn, Inv, ChannelsTyped, Proc
  <2>2. Start(spawned + 1) /\ UNCHANGED <<dbg, runever, runclose, dagupdate>>
    BY <1>5 DEF Spawn
  <2> QED  BY <2>1, <2>2, StartCounted
<1> QED  BY <1>1, <1>2, <1>3, <1>4, <1>5 DEF GorStep

\* The types of the rest.
LEMMA GorStepTyped ==
  ASSUME Inv, NEW p \in Proc, GorStep(p)
  PROVE  ChannelsTyped'
<1>1. gor' \in [Proc -> GorState]
  BY GorStepCounted DEF Kept
<1>2. rev' = rev /\ dbg' = dbg
  BY DEF GorStep, TakeRun, PassRun, TakeClose, PassClose, Ask, TakeUpdate, PassUpdate,
         Exec, ExecLast, Release, ExecEof, ExecAstray, CallBegin, Spawn, CallUnlock,
         Join, CallEnd, Unclog, Update, Terminate, EofUnclog, Eof
<1>3. runever' \in Seq(BOOLEAN) /\ lrev' \in [Proc -> BOOLEAN]
  <2>1. CASE TakeRun(p)
    BY <2>1 DEF TakeRun, Inv, ChannelsTyped
  <2>2. CASE PassRun(p)
    BY <2>2 DEF PassRun, Inv, ChannelsTyped, local
  <2>3. CASE ~TakeRun(p) /\ ~PassRun(p)
    <3>1. runever' = runever /\ lrev' = lrev
      BY <2>3 DEF GorStep, TakeClose, PassClose, Ask, TakeUpdate, PassUpdate,
             Exec, ExecLast, Release, ExecEof, ExecAstray, CallBegin, Spawn, CallUnlock,
             Join, CallEnd, Unclog, Update, Terminate, EofUnclog, Eof, chans, local
    <3> QED  BY <3>1 DEF Inv, ChannelsTyped
  <2> QED  BY <2>1, <2>2, <2>3
<1>4. runclose' \in Nat /\ dagupdate' \in Nat
  <2>1. runclose' \in {runclose, runclose + 1} \/ (runclose > 0 /\ runclose' = runclose - 1)
    BY DEF GorStep, TakeRun, PassRun, TakeClose, PassClose, Ask, TakeUpdate, PassUpdate,
           Exec, ExecLast, Release, ExecEof, ExecAstray, CallBegin, Spawn, CallUnlock,
           Join, CallEnd, Unclog, Update, Terminate, EofUnclog, Eof, chans
  <2>2. dagupdate' \in {dagupdate, dagupdate + 1} \/ (dagupdate > 0 /\ dagupdate' = dagupdate - 1)
    BY DEF GorStep, TakeRun, PassRun, TakeClose, PassClose, Ask, TakeUpdate, PassUpdate,
           Exec, ExecLast, Release, ExecEof, ExecAstray, CallBegin, Spawn, CallUnlock,
           Join, CallEnd, Unclog, Update, Terminate, EofUnclog, Eof, chans
  <2> QED  BY <2>1, <2>2 DEF Inv, ChannelsTyped
<1>5. spawned' \in 0..N
  <2>1. spawned' \in {spawned, 0} \/ (spawned < N /\ spawned' = spawned + 1)
    BY DEF GorStep, TakeRun, PassRun, TakeClose, PassClose, Ask, TakeUpdate, PassUpdate,
           Exec, ExecLast, Release, ExecEof, ExecAstray, CallBegin, Spawn, CallUnlock,
           Join, CallEnd, Unclog, Update, Terminate, EofUnclog, Eof, local
  <2> QED  BY <2>1, RunAssumption DEF Inv, ChannelsTyped
<1> QED  BY <1>1, <1>2, <1>3, <1>4, <1>5 DEF ChannelsTyped, Inv

-----------------------------------------------------------------------------
(* The steps of the debugger and of the user *)

LEMMA HandsUnchanged ==
  ASSUME gor' = gor
  PROVE  UpdateHands' = UpdateHands /\ CloseHands' = CloseHands /\ RunHands' = RunHands
BY DEF UpdateHands, CloseHands, RunHands

LEMMA DbgStepCounted ==
  ASSUME Inv, DbgStep
  PROVE  Inv'
<1>1. ChannelsTyped
  BY DEF Inv
<1>2. CASE TakeNewproc \/ TakeTermproc
  <2>1. UNCHANGED <<gor, dbg, runever, runclose, dagupdate, lrev, rev, spawned>>
    BY <1>2 DEF TakeNewproc, TakeTermproc, local
  <2> QED  BY <2>1, HandsUnchanged DEF Inv, ChannelsTyped, TokensCounted
<1>3. CASE SeeClose \/ SendClose
  <2>1. UNCHANGED <<gor, runever, dagupdate, lrev, rev, spawned>>
    BY <1>3 DEF SeeClose, SendClose, local
  <2>2. \/ dbg = "running" /\ dbg' = "again" /\ runclose > 0 /\ runclose' = runclose - 1
        \/ dbg \in {"again", "stop3"} /\ dbg' = "stopped" /\ runclose' = runclose + 1
    BY <1>3 DEF SeeClose, SendClose
  <2>3. (runclose + CloseHands + One(dbg \in {"again", "stop2", "stop3"}) <= N + 2)'
    BY <1>1, <2>1, <2>2, HandsUnchanged, Numbers DEF Inv, TokensCounted, One
  <2>4. (Len(runever) + RunHands + One(dbg = "run3") <= N + 2)'
    BY <1>1, <2>1, <2>2, HandsUnchanged, Numbers DEF Inv, TokensCounted, One
  <2> QED  BY <2>1, <2>2, <2>3, <2>4, HandsUnchanged
           DEF Inv, ChannelsTyped, TokensCounted, DbgState
<1>4. CASE UnclogClose
  <2>1. UNCHANGED <<gor, runever, dagupdate, lrev, rev, spawned>>
    BY <1>4 DEF UnclogClose, local
  <2>2. /\ dbg \in {"stop1", "run1"}
        /\ \/ runclose > 0 /\ runclose' = runclose - 1 /\ dbg' = dbg
           \/ ~(runclose > 0) /\ runclose' = runclose /\ dbg' \in {"stop2", "run2"}
    BY <1>4 DEF UnclogClose
  <2>3. (runclose + CloseHands + One(dbg \in {"again", "stop2", "stop3"}) <= N + 2)'
    BY <1>1, <2>1, <2>2, HandsUnchanged, Numbers DEF Inv, TokensCounted, One
  <2>4. (Len(runever) + RunHands + One(dbg = "run3") <= N + 2)'
    BY <1>1, <2>1, <2>2, HandsUnchanged, Numbers DEF Inv, TokensCounted, One
  <2>5. runclose' \in Nat /\ dbg' \in DbgState
    BY <1>1, <2>2 DEF ChannelsTyped, DbgState
  <2> QED  BY <2>1, <2>3, <2>4, <2>5, HandsUnchanged DEF Inv, ChannelsTyped, TokensCounted
<1>5. CASE UnclogEver
  <2>1. UNCHANGED <<gor, runclose, dagupdate, lrev, rev, spawned>>
    BY <1>5 DEF UnclogEver, local
  <2>2. /\ dbg \in {"stop2", "run2"}
        /\ \/ runever # <<>> /\ runever' = Tail(runever) /\ dbg' = dbg
           \/ runever = <<>> /\ runever' = runever /\ dbg' = (IF dbg = "stop2" THEN "stop3" ELSE "run3")
    BY <1>5 DEF UnclogEver
  <2>3. runever' \in Seq(BOOLEAN) /\ dbg' \in DbgState
    BY <1>1, <2>2 DEF ChannelsTyped, DbgState
  <2>4. runever # <<>> => Len(runever') = Len(runever) - 1
    BY <1>1, <2>2 DEF ChannelsTyped
  <2>5. (runclose + CloseHands + One(dbg \in {"again", "stop2", "stop3"}) <= N + 2)'
    BY <1>1, <2>1, <2>2, HandsUnchanged, Numbers DEF Inv, TokensCounted, One
  <2>6. (Len(runever) + RunHands + One(dbg = "run3") <= N + 2)'
    <3>1. CASE runever # <<>>
      BY <1>1, <2>1, <2>2, <2>4, <3>1, HandsUnchanged, Numbers DEF Inv, TokensCounted, One
    <3>2. CASE runever = <<>>
      <4>1. Len(runever') = 0
        BY <2>2, <3>2
      <4> QED  BY <1>1, <2>1, <4>1, HandsUnchanged, Numbers DEF One
    <3> QED  BY <3>1, <3>2
  <2> QED  BY <2>1, <2>3, <2>5, <2>6, HandsUnchanged DEF Inv, ChannelsTyped, TokensCounted
<1>6. CASE SendRun
  <2>1. UNCHANGED <<gor, runclose, dagupdate, lrev, rev, spawned>>
    BY <1>6 DEF SendRun, local
  <2>2. dbg = "run3" /\ dbg' = "run4" /\ runever' = Append(runever, rev)
    BY <1>6 DEF SendRun
  <2>3. runever' \in Seq(BOOLEAN) /\ Len(runever') = Len(runever) + 1
    BY <1>1, <2>2 DEF ChannelsTyped
  <2>4. (runclose + CloseHands + One(dbg \in {"again", "stop2", "stop3"}) <= N + 2)'
    BY <1>1, <2>1, <2>2, HandsUnchanged, Numbers DEF Inv, TokensCounted, One
  <2>5. (Len(runever) + RunHands + One(dbg = "run3") <= N + 2)'
    BY <1>1, <2>1, <2>2, <2>3, HandsUnchanged, Numbers DEF Inv, TokensCounted, One
  <2> QED  BY <2>1, <2>2, <2>3, <2>4, <2>5, HandsUnchanged
           DEF Inv, ChannelsTyped, TokensCounted, DbgState
<1>7. CASE RunMain
  <2>1. /\ UNCHANGED <<runever, runclose, dagupdate, lrev, rev, spawned>>
        /\ dbg' = "running" /\ Start(0)
    BY <1>7 DEF RunMain
  <2>2. 0 \in Proc
    BY RunAssumption DEF Proc
  <2>3. Kept
    BY <2>1, <2>2, StartCounted
  <2> QED  BY <2>1, <2>3 DEF Kept, Inv, ChannelsTyped, DbgState
<1> QED  BY <1>2, <1>3, <1>4, <1>5, <1>6, <1>7 DEF DbgStep

LEMMA UserCounted ==
  ASSUME Inv, User
  PROVE  Inv'
<1>1. UNCHANGED <<gor, runever, runclose, dagupdate, lrev, spawned>>
  BY DEF User, Stop, Turn, RunCmd, chans, local
<1>2. rev' \in BOOLEAN /\ dbg' \in DbgState
  BY DEF User, Stop, Turn, RunCmd, Inv, ChannelsTyped, DbgState
<1>3. dbg' = dbg \/ dbg' \in {"stop1", "run1"}
  BY DEF User, Stop, Turn, RunCmd
<1>4. (runclose + CloseHands + One(dbg \in {"again", "stop2", "stop3"}) <= N + 2)'
  BY <1>1, <1>3, HandsUnchanged, Numbers DEF Inv, TokensCounted, One
<1>5. (Len(runever) + RunHands + One(dbg = "run3") <= N + 2)'
  BY <1>1, <1>3, HandsUnchanged, Numbers DEF Inv, TokensCounted, One
<1> QED  BY <1>1, <1>2, <1>4, <1>5, HandsUnchanged DEF Inv, ChannelsTyped, TokensCounted

-----------------------------------------------------------------------------
(* The theorems *)

LEMMA InvInit == Init => Inv
<1> SUFFICES ASSUME Init PROVE Inv
  OBVIOUS
<1>1. ChannelsTyped
  <2>1. runever \in Seq(BOOLEAN)
    BY DEF Init
  <2>2. gor \in [Proc -> GorState] /\ lrev \in [Proc -> BOOLEAN]
    BY DEF Init, GorState
  <2>3. spawned \in 0..N /\ dbg \in DbgState
    BY RunAssumption DEF Init, DbgState
  <2> QED  BY <2>1, <2>2, <2>3 DEF Init, ChannelsTyped
<1>2. /\ Holders(gor, {"pass", "update"}) = {}
      /\ Holders(gor, {"closing", "eof"}) = {}
      /\ Holders(gor, {"got"}) = {}
  BY DEF Init, Holders
<1>3. UpdateHands = 0 /\ CloseHands = 0 /\ RunHands = 0
  BY <1>2, FS_EmptySet DEF UpdateHands, CloseHands, RunHands
<1>4. dagupdate = 0 /\ runclose = 0 /\ Len(runever) = 1 /\ dbg = "running"
  BY DEF Init
<1> QED  BY <1>1, <1>3, <1>4, RunAssumption DEF Inv, TokensCounted, One

LEMMA InvStep == Inv /\ [Next]_vars => Inv'
<1> SUFFICES ASSUME Inv, [Next]_vars PROVE Inv'
  OBVIOUS
<1>1. CASE DbgStep
  BY <1>1, DbgStepCounted
<1>2. ASSUME NEW p \in Proc, GorStep(p) PROVE Inv'
  BY <1>2, GorStepCounted, GorStepTyped DEF Kept, Inv
<1>3. CASE User
  BY <1>3, UserCounted
<1>4. CASE UNCHANGED vars
  <2>1. UNCHANGED <<gor, runever, runclose, dagupdate, lrev, rev, dbg, spawned>>
    BY <1>4 DEF vars, chans
  <2> QED  BY <2>1, HandsUnchanged DEF Inv, ChannelsTyped, TokensCounted
<1> QED  BY <1>1, <1>2, <1>3, <1>4 DEF Next, System, Idle, Broken

\* Whatever the user does, the tokens of runever, runclose and dagupdate that are
\* in a channel or in hands are not more than the goroutines and the debugger.
THEOREM TokensBounded == Spec => []TokensCounted
<1>1. Inv => TokensCounted
  BY DEF Inv
<1> QED  BY <1>1, InvInit, InvStep, PTL DEF Spec

\* With at most Cap - 2 branches nobody waits to broadcast on runever, runclose
\* or dagupdate: the channels "will be queued to not block caller".
THEOREM RoomForAll ==
  ASSUME N + 2 <= Cap
  PROVE  Spec => []BroadcastNeverBlocks
<1>1. ASSUME Inv PROVE BroadcastNeverBlocks
  <2>1. ChannelsTyped
    BY <1>1 DEF Inv
  <2>2. ASSUME NEW p \in Proc, gor[p] \in {"update", "pass"} PROVE dagupdate < Cap
    <3>1. UpdateHands >= 1
      BY <2>2, HolderCounted DEF UpdateHands
    <3> QED  BY <1>1, <2>1, <3>1, Numbers, RunAssumption DEF Inv, TokensCounted
  <2>3. ASSUME NEW p \in Proc, gor[p] \in {"eof", "closing"} PROVE runclose < Cap
    <3>1. CloseHands >= 1
      BY <2>3, HolderCounted DEF CloseHands
    <3> QED  BY <1>1, <2>1, <3>1, Numbers, RunAssumption DEF Inv, TokensCounted, One
  <2>4. ASSUME NEW p \in Proc, At(p, "got") PROVE Len(runever) < Cap
    <3>1. RunHands >= 1
      BY <2>4, HolderCounted DEF RunHands, At
    <3> QED  BY <1>1, <2>1, <3>1, Numbers, RunAssumption DEF Inv, TokensCounted, One
  <2>5. dbg \in {"again", "stop3"} => runclose < Cap
    BY <1>1, <2>1, Numbers, RunAssumption DEF Inv, TokensCounted, One
  <2>6. dbg = "run3" => Len(runever) < Cap
    BY <1>1, <2>1, Numbers, RunAssumption DEF Inv, TokensCounted, One
  <2> QED  BY <2>2, <2>3, <2>4, <2>5, <2>6 DEF BroadcastNeverBlocks
<1> QED  BY <1>1, InvInit, InvStep, PTL DEF Spec

-----------------------------------------------------------------------------
(* Types *)

\* The rest of TypeOK; the counter of a branch stays within the branch, so that
\* what is appended to the chain is a block, and only main calls.
RestTyped ==
    /\ exmut \in BOOLEAN /\ suspended \in BOOLEAN
    /\ cmds \in 0..MaxCmds
    /\ Len(runever) <= Cap
    /\ runclose <= Cap /\ dagupdate <= Cap
    /\ newproc \in 0..Cap /\ termproc \in 0..Cap
    /\ pc \in [Proc -> Int] /\ \A q \in Kid : pc[q] \in 0..KidBlocks
    /\ chain \in Seq(Node)
    /\ broken \in {"none", "twice", "astray"}
    /\ \A q \in Kid : gor[q] \notin {"spawn", "call", "relock"}

LEMMA RestTypedInit == Init => RestTyped
<1> SUFFICES ASSUME Init PROVE RestTyped
  OBVIOUS
<1>1. pc \in [Proc -> Int] /\ \A q \in Kid : pc[q] \in 0..KidBlocks
  BY RunAssumption DEF Init, Kid, Proc
<1>2. Len(runever) <= Cap /\ cmds \in 0..MaxCmds /\ chain \in Seq(Node)
  BY RunAssumption DEF Init
<1>3. newproc \in 0..Cap /\ termproc \in 0..Cap /\ runclose <= Cap /\ dagupdate <= Cap
  BY RunAssumption DEF Init
<1>4. \A q \in Kid : gor[q] \notin {"spawn", "call", "relock"}
  BY RunAssumption DEF Init, Kid, Proc
<1> QED  BY <1>1, <1>2, <1>3, <1>4 DEF Init, RestTyped

\* An executed block moves the counter within the process.
LEMMA AdvanceTyped ==
  ASSUME RestTyped, ChannelsTyped, NEW p \in Proc, Advance(p),
         IsLastOfKid(p) \/ ~AtEnd(p)
  PROVE  /\ pc' \in [Proc -> Int] /\ \A q \in Kid : pc'[q] \in 0..KidBlocks
         /\ chain' \in Seq(Node)
<1> DEFINE n == NextBlock(p, lrev[p])
<1>1. /\ pc' = [pc EXCEPT ![p] = IF lrev[p] THEN @ - 1 ELSE @ + 1]
      /\ chain' = chain \/ (p # 0 /\ ~lrev[p] /\ chain' = Append(chain, n))
  BY DEF Advance
<1>2. pc \in [Proc -> Int] /\ (\A q \in Kid : pc[q] \in 0..KidBlocks) /\ chain \in Seq(Node)
      /\ lrev[p] \in BOOLEAN
  BY DEF RestTyped, ChannelsTyped
<1>3. p # 0 => p \in Kid /\ (IF lrev[p] THEN pc[p] # 0 ELSE pc[p] # KidBlocks)
  <2>1. p # 0 => p \in Kid
    BY RunAssumption DEF Proc, Kid
  <2>2. n = <<p, IF lrev[p] THEN pc[p] - 1 ELSE pc[p]>>
    BY DEF NextBlock
  <2>3. CASE IsLastOfKid(p)
    <3>1. n[2] = IF lrev[p] THEN 0 ELSE KidBlocks - 1
      BY <2>3 DEF IsLastOfKid
    <3> QED  BY <1>2, <2>1, <2>2, <3>1, RunAssumption
  <2>4. CASE ~AtEnd(p)
    BY <2>1, <2>4 DEF AtEnd, Blocks
  <2> QED  BY <2>3, <2>4
<1>4. pc' \in [Proc -> Int]
  BY <1>1, <1>2
<1>5. ASSUME NEW q \in Kid PROVE pc'[q] \in 0..KidBlocks
  <2>1. q \in Proc /\ q # 0
    BY RunAssumption DEF Kid, Proc
  <2>2. CASE q # p
    BY <1>1, <1>2, <2>1, <2>2
  <2>3. CASE q = p
    <3>1. pc'[q] = IF lrev[p] THEN pc[p] - 1 ELSE pc[p] + 1
      BY <1>1, <1>2, <2>3
    <3>2. pc[p] \in 0..KidBlocks /\ (IF lrev[p] THEN pc[p] # 0 ELSE pc[p] # KidBlocks)
      BY <1>2, <1>3, <2>1, <2>3
    <3> QED  BY <3>1, <3>2, RunAssumption
  <2> QED  BY <2>2, <2>3
<1>6. p # 0 /\ ~lrev[p] => n \in Node
  BY <1>2, <1>3, RunAssumption DEF NextBlock, Node
<1>7. chain' \in Seq(Node)
  <2> HIDE DEF n
  <2> QED  BY <1>1, <1>2, <1>6
<1> QED  BY <1>4, <1>5, <1>7

LEMMA GorStepRest ==
  ASSUME Inv, RestTyped, NEW p \in Proc, GorStep(p)
  PROVE  RestTyped'
<1>1. ChannelsTyped
  BY DEF Inv
<1>2. cmds' = cmds
  BY DEF GorStep, TakeRun, PassRun, TakeClose, PassClose, Ask, TakeUpdate, PassUpdate,
         Exec, ExecLast, Release, ExecEof, ExecAstray, CallBegin, Spawn, CallUnlock,
         Join, CallEnd, Unclog, Update, Terminate, EofUnclog, Eof
<1>3. exmut' \in BOOLEAN /\ suspended' \in BOOLEAN /\ broken' \in {"none", "twice", "astray"}
  <2>1. exmut' \in {exmut, TRUE, FALSE} /\ broken' \in {broken, "twice", "astray"}
    BY DEF GorStep, TakeRun, PassRun, TakeClose, PassClose, Ask, TakeUpdate, PassUpdate,
           Exec, ExecLast, Release, ExecEof, ExecAstray, CallBegin, Spawn, CallUnlock,
           Join, CallEnd, Unclog, Update, Terminate, EofUnclog, Eof, local, Start
  <2>2. suspended' \in {suspended, FALSE, suspended \/ p # 0}
    BY DEF GorStep, TakeRun, PassRun, TakeClose, PassClose, Ask, TakeUpdate, PassUpdate,
           Exec, ExecLast, Release, ExecEof, ExecAstray, CallBegin, Spawn, CallUnlock,
           Join, CallEnd, Unclog, Update, Terminate, EofUnclog, Eof, local
  <2> QED  BY <2>1, <2>2 DEF RestTyped
<1>4. Len(runever') <= Cap
  <2>1. CASE TakeRun(p)
    BY <1>1, <2>1, RunAssumption DEF TakeRun, RestTyped, ChannelsTyped
  <2>2. CASE PassRun(p)
    BY <1>1, <2>2, RunAssumption DEF PassRun, ChannelsTyped
  <2>3. CASE ~TakeRun(p) /\ ~PassRun(p)
    <3>1. runever' = runever
      BY <2>3 DEF GorStep, TakeClose, PassClose, Ask, TakeUpdate, PassUpdate,
             Exec, ExecLast, Release, ExecEof, ExecAstray, CallBegin, Spawn, CallUnlock,
             Join, CallEnd, Unclog, Update, Terminate, EofUnclog, Eof, chans
    <3> QED  BY <3>1 DEF RestTyped
  <2> QED  BY <2>1, <2>2, <2>3
<1>5. runclose' <= Cap /\ dagupdate' <= Cap
  <2>1. runclose' = runclose \/ (runclose < Cap /\ runclose' = runclose + 1)
        \/ (runclose > 0 /\ runclose' = runclose - 1)
    BY DEF GorStep, TakeRun, PassRun, TakeClose, PassClose, Ask, TakeUpdate, PassUpdate,
           Exec, ExecLast, Release, ExecEof, ExecAstray, CallBegin, Spawn, CallUnlock,
           Join, CallEnd, Unclog, Update, Terminate, EofUnclog, Eof, chans
  <2>2. dagupdate' = dagupdate \/ (dagupdate < Cap /\ dagupdate' = dagupdate + 1)
        \/ (dagupdate > 0 /\ dagupdate' = dagupdate - 1)
    BY DEF GorStep, TakeRun, PassRun, TakeClose, PassClose, Ask, TakeUpdate, PassUpdate,
           Exec, ExecLast, Release, ExecEof, ExecAstray, CallBegin, Spawn, CallUnlock,
           Join, CallEnd, Unclog, Update, Terminate, EofUnclog, Eof, chans
  <2> QED  BY <1>1, <2>1, <2>2, RunAssumption DEF ChannelsTyped, RestTyped
<1>6. newproc' \in 0..Cap /\ termproc' \in 0..Cap
  <2>1. newproc' = newproc \/ (newproc < Cap /\ newproc' = newproc + 1)
    BY DEF GorStep, TakeRun, PassRun, TakeClose, PassClose, Ask, TakeUpdate, PassUpdate,
           Exec, ExecLast, Release, ExecEof, ExecAstray, CallBegin, Spawn, CallUnlock,
           Join, CallEnd, Unclog, Update, Terminate, EofUnclog, Eof, chans
  <2>2. termproc' = termproc \/ (termproc < Cap /\ termproc' = termproc + 1)
    BY DEF GorStep, TakeRun, PassRun, TakeClose, PassClose, Ask, TakeUpdate, PassUpdate,
           Exec, ExecLast, Release, ExecEof, ExecAstray, CallBegin, Spawn, CallUnlock,
           Join, CallEnd, Unclog, Update, Terminate, EofUnclog, Eof, chans
  <2> QED  BY <2>1, <2>2, RunAssumption DEF RestTyped
<1>7. p \in Kid => ~CallBegin(p) /\ ~Spawn(p) /\ ~CallUnlock(p) /\ ~Join(p) /\ ~CallEnd(p)
  BY RunAssumption DEF CallBegin, IsCall, Spawn, CallUnlock, Join, CallEnd, RestTyped, At, Kid
<1>8. /\ pc' \in [Proc -> Int] /\ \A q \in Kid : pc'[q] \in 0..KidBlocks
      /\ chain' \in Seq(Node)
  <2>1. CASE Exec(p) \/ ExecLast(p)
    BY <1>1, <2>1, AdvanceTyped DEF Exec, ExecLast
  <2>2. CASE CallBegin(p) \/ CallEnd(p)
    <3>1. p = 0
      BY <1>7, <2>2, RunAssumption DEF Proc, Kid
    <3>2. chain' = chain /\ pc \in [Proc -> Int]
      BY <2>2 DEF CallBegin, CallEnd, RestTyped
    <3>3. pc' = pc \/ pc' = [pc EXCEPT ![0] = pc[0] - 1] \/ pc' = [pc EXCEPT ![0] = pc[0] + 1]
      BY <2>2, <3>1, <3>2 DEF CallBegin, CallEnd, Proc
    <3>4. 0 \in Proc /\ 0 \notin Kid /\ Kid \subseteq Proc
      BY RunAssumption DEF Proc, Kid
    <3> QED  BY <3>2, <3>3, <3>4 DEF RestTyped
  <2>3. CASE ~Exec(p) /\ ~ExecLast(p) /\ ~CallBegin(p) /\ ~CallEnd(p)
    <3>1. pc' = pc /\ chain' = chain
      BY <2>3 DEF GorStep, TakeRun, PassRun, TakeClose, PassClose, Ask, TakeUpdate, PassUpdate,
             Release, ExecEof, ExecAstray, Spawn, CallUnlock,
             Join, Unclog, Update, Terminate, EofUnclog, Eof, local
    <3> QED  BY <3>1 DEF RestTyped
  <2> QED  BY <2>1, <2>2, <2>3
<1>9. \A q \in Kid : gor'[q] \notin {"spawn", "call", "relock"}
  <2>1. CASE Spawn(p)
    BY <1>1, <2>1 DEF Spawn, Start, RestTyped, ChannelsTyped
  <2>2. CASE CallBegin(p) \/ CallUnlock(p) \/ Join(p) \/ CallEnd(p)
    <3>1. p \notin Kid
      BY <1>7, <2>2
    <3>2. \E s : Goto(p, s)
      BY <2>2 DEF CallBegin, CallUnlock, Join, CallEnd
    <3>3. \A q \in Kid : gor'[q] = gor[q]
      BY <1>1, <3>1, <3>2, RunAssumption DEF Goto, ChannelsTyped, Kid, Proc
    <3> QED  BY <3>3 DEF RestTyped
  <2>3. CASE ~Spawn(p) /\ ~CallBegin(p) /\ ~CallUnlock(p) /\ ~Join(p) /\ ~CallEnd(p)
    <3>1. gor' = gor \/ \E s \in GorState \ {"spawn", "call", "relock"} : Goto(p, s)
      BY <2>3 DEF GorStep, TakeRun, PassRun, TakeClose, PassClose, Ask, TakeUpdate, PassUpdate,
             Exec, ExecLast, Release, ExecEof, ExecAstray,
             Unclog, Update, Terminate, EofUnclog, Eof, GorState
    <3>2. CASE gor' = gor
      BY <3>2 DEF RestTyped
    <3>3. ASSUME NEW s \in GorState \ {"spawn", "call", "relock"}, Goto(p, s)
          PROVE  \A q \in Kid : gor'[q] \notin {"spawn", "call", "relock"}
      BY <1>1, <3>3, RunAssumption DEF Goto, RestTyped, ChannelsTyped, Kid, Proc
    <3> QED  BY <3>1, <3>2, <3>3
  <2> QED  BY <2>1, <2>2, <2>3
<1> QED  BY <1>2, <1>3, <1>4, <1>5, <1>6, <1>8, <1>9 DEF RestTyped

LEMMA OtherStepRest ==
  ASSUME Inv, RestTyped, DbgStep \/ User
  PROVE  RestTyped'
<1>1. ChannelsTyped
  BY DEF Inv
<1>2. UNCHANGED <<exmut, pc, chain, suspended>>
  BY DEF DbgStep, TakeNewproc, TakeTermproc, SeeClose, SendClose, UnclogClose, UnclogEver,
         SendRun, RunMain, User, Stop, Turn, RunCmd, local
<1>3. cmds' = cmds \/ (cmds < MaxCmds /\ cmds' = cmds + 1)
  BY DEF DbgStep, TakeNewproc, TakeTermproc, SeeClose, SendClose, UnclogClose, UnclogEver,
         SendRun, RunMain, User, Stop, Turn, RunCmd, Command
<1>4. Len(runever') <= Cap
  <2>1. \/ runever' = runever
        \/ runever # <<>> /\ runever' = Tail(runever)
        \/ Len(runever) < Cap /\ runever' = Append(runever, rev)
    BY DEF DbgStep, TakeNewproc, TakeTermproc, SeeClose, SendClose, UnclogClose, UnclogEver,
         SendRun, RunMain, User, Stop, Turn, RunCmd, chans
  <2> QED  BY <1>1, <2>1, RunAssumption DEF ChannelsTyped, RestTyped
<1>5. runclose' <= Cap /\ dagupdate' <= Cap /\ newproc' \in 0..Cap /\ termproc' \in 0..Cap
  <2>1. /\ dagupdate' = dagupdate
        /\ \/ runclose' = runclose
           \/ runclose > 0 /\ runclose' = runclose - 1
           \/ runclose < Cap /\ runclose' = runclose + 1
    BY DEF DbgStep, TakeNewproc, TakeTermproc, SeeClose, SendClose, UnclogClose, UnclogEver,
         SendRun, RunMain, User, Stop, Turn, RunCmd, chans
  <2>2. /\ \/ newproc' = newproc
           \/ newproc > 0 /\ newproc' = newproc - 1
           \/ newproc < Cap /\ newproc' = newproc + 1
        /\ \/ termproc' = termproc
           \/ termproc > 0 /\ termproc' = termproc - 1
    BY DEF DbgStep, TakeNewproc, TakeTermproc, SeeClose, SendClose, UnclogClose, UnclogEver,
         SendRun, RunMain, User, Stop, Turn, RunCmd, chans
  <2> QED  BY <1>1, <2>1, <2>2, RunAssumption DEF ChannelsTyped, RestTyped
<1>6. broken' \in {broken, "twice"} /\ (gor' = gor \/ Start(0))
  BY DEF DbgStep, TakeNewproc, TakeTermproc, SeeClose, SendClose, UnclogClose, UnclogEver,
         SendRun, RunMain, User, Stop, Turn, RunCmd, local, Start
<1>7. \A q \in Kid : gor'[q] = gor[q]
  BY <1>1, <1>6, RunAssumption DEF Start, Kid, Proc, ChannelsTyped
<1>8. cmds' \in 0..MaxCmds
  BY <1>3, RunAssumption DEF RestTyped
<1> QED  BY <1>2, <1>4, <1>5, <1>6, <1>7, <1>8 DEF RestTyped

LEMMA RestStep == Inv /\ RestTyped /\ [Next]_vars => RestTyped'
<1> SUFFICES ASSUME Inv, RestTyped, [Next]_vars PROVE RestTyped'
  OBVIOUS
<1>1. CASE DbgStep \/ User
  BY <1>1, OtherStepRest
<1>2. ASSUME NEW p \in Proc, GorStep(p) PROVE RestTyped'
  BY <1>2, GorStepRest
<1>3. CASE UNCHANGED vars
  BY <1>3 DEF vars, chans, RestTyped
<1> QED  BY <1>1, <1>2, <1>3 DEF Next, System, Idle, Broken

\* Whatever the user does, every variable keeps its type: no channel exceeds its
\* capacity, and the counters of the branches stay within their blocks.
THEOREM TypeCorrect == Spec => []TypeOK
<1>1. Inv /\ RestTyped => TypeOK
  <2> SUFFICES ASSUME Inv, RestTyped PROVE TypeOK
    OBVIOUS
  <2>1. ChannelsTyped
    BY DEF Inv
  <2>2. runclose \in 0..Cap /\ dagupdate \in 0..Cap
    BY <2>1, RunAssumption DEF RestTyped, ChannelsTyped
  <2> QED  BY <2>1, <2>2 DEF RestTyped, ChannelsTyped, TypeOK
<1> QED  BY <1>1, InvInit, InvStep, RestTypedInit, RestStep, PTL DEF Spec

-----------------------------------------------------------------------------
(* An orderly session                                                      *)
(*                                                                         *)
(* The user waits until the processes have come to rest, stops a run only  *)
(* when the call is over, and does not run on past the end.  Then a token  *)
(* of runclose and a call do not meet: the tokens of an earlier run are    *)
(* removed while nobody is there to take them, and new ones are sent only  *)
(* when no call is left in the direction of the run.  So the branches run  *)
(* to their ends, the counters of the branches follow from that of main,   *)
(* and everybody goes in the direction that is set.                        *)

During == gor[0] \in {"spawn", "call", "relock"}

\* About to execute a block, or waiting for it to become runnable.
Going == {"select", "got", "loop", "lock", "wait", "pass"}

KidState  == {"none", "select", "got", "loop", "lock", "block", "unclog", "update", "term",
              "wait", "pass"}
MainState == {"none", "select", "got", "loop", "lock", "spawn", "call", "relock", "unclog",
              "update", "eofunclog", "eof", "closing"}

\* Main calls, the branches exist during the call only, and none is suspended.
Places ==
    /\ gor[0] \in MainState
    /\ \A q \in Kid : gor[q] \in KidState
    /\ \A q \in Kid : gor[q] # "none" => gor[0] \in {"spawn", "call"} /\ q <= spawned
    /\ gor[0] \in {"call", "relock"} => spawned = N
    /\ During => ~suspended

\* Main executes its blocks in the direction of the run and not beyond its end.
CounterOfMain ==
    /\ pc[0] \in 0..MainBlocks
    /\ During => pc[0] = CallAt
    /\ gor[0] \in {"select", "got", "loop", "lock"} => ~ProgramEnd
    /\ gor[0] \in {"eofunclog", "eof"} => ProgramEnd
    /\ dbg \in {"run1", "run2", "run3", "run4"} => AllGone /\ ~ProgramEnd

\* The branches are at their beginnings before the call and at their ends after.
CountersOfBranches ==
    /\ ~During => \A q \in Kid : pc[q] = (IF pc[0] <= CallAt THEN 0 ELSE KidBlocks)
    /\ During => \A q \in Kid :
                     At(q, "none") => pc[q] = (IF rev <=> q <= spawned THEN 0 ELSE KidBlocks)
    /\ \A q \in Kid :
           /\ gor[q] \in Going => pc[q] # (IF rev THEN 0 ELSE KidBlocks)
           /\ At(q, "term") => pc[q] = (IF rev THEN 0 ELSE KidBlocks)

Directions ==
    /\ DirectionsAgree
    /\ dbg \notin {"stopped", "run1", "run2"} \/ ~AllGone =>
           \A i \in DOMAIN runever : runever[i] = rev

\* No stop meets a call.
NoStopInCall ==
    CallLeft =>
        /\ dbg \notin {"again", "stop1", "stop2", "stop3"}
        /\ gor[0] \notin {"closing", "eofunclog", "eof"}
        /\ dbg \in {"stopped", "run1"} => AllGone
        /\ runclose > 0 => dbg \in {"stopped", "run1"}

\* Who holds the mutex.
Mutex ==
    /\ exmut <=> At(0, "spawn") \/ \E q \in Kid : At(q, "block")
    /\ At(0, "spawn") => \A q \in Kid : ~At(q, "block")
    /\ \A q, r \in Kid : At(q, "block") /\ At(r, "block") => q = r

\* Once a block has been executed, a token of dagupdate is there or about to be.
TokenLives ==
    pc[0] # 0 => dagupdate > 0 \/ \E p \in Proc : gor[p] \in {"unclog", "update", "pass"}

\* The DAG holds the blocks that have been executed, and after the first run
\* all; who waits for the mutex has still the answer of isRunnable.
Full == \A n \in Node : \E i \in DOMAIN chain : chain[i] = n

ChainKept ==
    /\ \A n \in Node : Executed(n) => \E i \in DOMAIN chain : chain[i] = n
    /\ Full \/ /\ ~rev /\ dbg \notin {"stopped", "run1", "run2", "run3", "run4"}
               /\ \A i \in DOMAIN chain : Executed(chain[i])
    /\ \A q \in Kid : At(q, "lock") => IsRunnable(q, rev)

Orderly ==
    /\ broken = "none"
    /\ Inv /\ RestTyped
    /\ Places /\ CounterOfMain /\ CountersOfBranches
    /\ Directions /\ NoStopInCall /\ Mutex /\ TokenLives /\ ChainKept


LEMMA Processes ==
  /\ 0 \in Proc /\ 0 \notin Kid /\ Kid \subseteq Proc
  /\ \A p \in Proc : p = 0 \/ p \in Kid
  /\ \A q \in Kid : q \in Nat /\ q >= 1 /\ q <= N
BY RunAssumption DEF Proc, Kid

LEMMA Constants ==
  /\ N \in Nat /\ N >= 1 /\ KidBlocks \in Nat /\ KidBlocks >= 1
  /\ MainBlocks \in Nat /\ CallAt \in Nat /\ CallAt >= 1 /\ CallAt + 2 <= MainBlocks
BY RunAssumption

\* The values the invariant speaks of.
LEMMA OrderlyTyped ==
  ASSUME Orderly
  PROVE  /\ gor \in [Proc -> GorState] /\ lrev \in [Proc -> BOOLEAN] /\ pc \in [Proc -> Int]
         /\ rev \in BOOLEAN /\ dbg \in DbgState /\ runever \in Seq(BOOLEAN)
         /\ runclose \in Nat /\ dagupdate \in Nat /\ spawned \in 0..N
         /\ exmut \in BOOLEAN /\ suspended \in BOOLEAN /\ chain \in Seq(Node)
         /\ pc[0] \in 0..MainBlocks
         /\ \A q \in Kid : pc[q] \in 0..KidBlocks
BY DEF Orderly, Inv, ChannelsTyped, RestTyped, CounterOfMain

LEMMA GoesTo ==
  ASSUME Orderly, NEW p \in Proc, NEW s, Goto(p, s)
  PROVE  gor'[p] = s /\ \A q \in Proc : q # p => gor'[q] = gor[q]
BY OrderlyTyped DEF Goto

\* While a branch lives the call is under way, and nobody stops the run.
LEMMA BranchInCall ==
  ASSUME Orderly, NEW q \in Kid, gor[q] # "none"
  PROVE  /\ gor[0] \in {"spawn", "call"} /\ During /\ CallLeft /\ ~AllGone
         /\ q <= spawned
         /\ pc[0] = CallAt /\ dbg = "running" /\ runclose = 0
         /\ gor[q] \in KidState
<1>1. gor[0] \in {"spawn", "call"} /\ During /\ CallLeft /\ q <= spawned /\ gor[q] \in KidState
  BY DEF Orderly, Places, During, CallLeft
<1>2. ~AllGone
  BY Processes DEF AllGone, At
<1>3. pc[0] = CallAt
  BY <1>1 DEF Orderly, CounterOfMain
<1>4. dbg = "running"
  BY <1>1, <1>2, OrderlyTyped DEF Orderly, CounterOfMain, NoStopInCall, DbgState
<1>5. runclose = 0
  BY <1>1, <1>4, OrderlyTyped DEF Orderly, NoStopInCall
<1> QED  BY <1>1, <1>2, <1>3, <1>4, <1>5

\* A step of a branch that moves no counter.
LEMMA BranchMoves ==
  ASSUME Orderly, Inv', RestTyped', NEW p \in Kid, NEW s \in KidState, gor[p] # "none", Goto(p, s),
         UNCHANGED <<rev, dbg, runclose, pc, spawned, suspended, chain, broken>>,
         s # "block",
         exmut' = (IF At(p, "block") THEN FALSE ELSE exmut),
         s \in Going => pc[p] # (IF rev THEN 0 ELSE KidBlocks),
         s \in {"term", "none"} => pc[p] = (IF rev THEN 0 ELSE KidBlocks),
         s = "lock" => IsRunnable(p, rev),
         s \notin {"none", "select"} => lrev'[p] = rev,
         \A q \in Proc : q # p => lrev'[q] = lrev[q],
         \A i \in DOMAIN runever' : runever'[i] = rev,
         dagupdate' = dagupdate \/ dagupdate' > 0 \/ s \in {"unclog", "update", "pass"},
         gor[p] \in {"unclog", "update", "pass"} =>
             dagupdate' > 0 \/ s \in {"unclog", "update", "pass"}
  PROVE  Orderly'
<1>1. gor'[p] = s /\ \A q \in Proc : q # p => gor'[q] = gor[q]
  BY GoesTo, Processes
<1>2. gor'[0] = gor[0] /\ p \in Proc /\ p # 0
  BY <1>1, Processes
<1>3. /\ gor[0] \in {"spawn", "call"} /\ During /\ CallLeft /\ ~AllGone
      /\ p <= spawned
      /\ pc[0] = CallAt /\ dbg = "running" /\ runclose = 0
      /\ gor[p] \in KidState
  BY BranchInCall
<1>4. ~AllGone' /\ (During' <=> During) /\ (CallLeft' <=> CallLeft) /\ (ProgramEnd' <=> ProgramEnd)
  BY <1>2, <1>3, Processes DEF AllGone, At, During, CallLeft, ProgramEnd
<1>5. Places'
  BY <1>1, <1>2, <1>3, <1>4, Processes DEF Orderly, Places
<1>6. CounterOfMain'
  BY <1>2, <1>3, <1>4 DEF Orderly, CounterOfMain, ProgramEnd
<1>7. CountersOfBranches'
  <2>1. ASSUME NEW q \in Kid, At(q, "none")'
        PROVE  pc[q] = (IF rev <=> q <= spawned THEN 0 ELSE KidBlocks)
    <3>1. CASE q = p
      BY <1>1, <1>3, <2>1, <3>1, OrderlyTyped DEF At
    <3>2. CASE q # p
      BY <1>1, <1>3, <2>1, <3>2, Processes DEF At, Orderly, CountersOfBranches
    <3> QED  BY <3>1, <3>2
  <2>2. ASSUME NEW q \in Kid
        PROVE  /\ gor'[q] \in Going => pc[q] # (IF rev THEN 0 ELSE KidBlocks)
               /\ gor'[q] = "term" => pc[q] = (IF rev THEN 0 ELSE KidBlocks)
    BY <1>1, Processes DEF At, Orderly, CountersOfBranches
  <2> QED  BY <1>3, <1>4, <2>1, <2>2 DEF CountersOfBranches, At
<1>8. Directions'
  BY <1>1, <1>2 DEF Orderly, Directions, DirectionsAgree
<1>9. NoStopInCall'
  BY <1>2, <1>3, <1>4 DEF Orderly, NoStopInCall
<1>10. Mutex'
  BY <1>1, <1>2, Processes, OrderlyTyped DEF Orderly, Mutex, At
<1>11. TokenLives'
  BY <1>1, <1>2, Processes DEF Orderly, TokenLives
<1>12. ChainKept'
  <2>1. \A n \in Node : Executed(n)' <=> Executed(n)
    BY DEF Executed
  <2>2. Full' <=> Full
    BY DEF Full
  <2>3. \A q \in Kid : IsRunnable(q, rev)' <=> IsRunnable(q, rev)
    BY DEF IsRunnable, NextBlock, Executed
  <2>4. \A q \in Kid : At(q, "lock")' => IsRunnable(q, rev)'
    BY <1>1, <2>3, Processes DEF At, Orderly, ChainKept
  <2>5. \A n \in Node : Executed(n)' => \E i \in DOMAIN chain' : chain'[i] = n
    BY <2>1 DEF Orderly, ChainKept
  <2>6. \/ Full'
        \/ /\ ~rev' /\ dbg' \notin {"stopped", "run1", "run2", "run3", "run4"}
           /\ \A i \in DOMAIN chain' : Executed(chain[i])'
    BY <2>2 DEF Orderly, ChainKept, Executed
  <2> QED  BY <2>4, <2>5, <2>6 DEF ChainKept
<1> QED  BY <1>5, <1>6, <1>7, <1>8, <1>9, <1>10, <1>11, <1>12 DEF Orderly

\* The directions that p reads and has.
LEMMA OwnDirection ==
  ASSUME Orderly, NEW p \in Proc, gor[p] \notin {"none", "select", "closing"}
  PROVE  lrev[p] = rev
BY DEF Orderly, Directions, DirectionsAgree

\* Who takes part in a run reads its direction.
LEMMA DirectionRead ==
  ASSUME Orderly, NEW p \in Proc, gor[p] # "none"
  PROVE  \A i \in DOMAIN runever : runever[i] = rev
BY DEF Orderly, Directions, AllGone, At

\* What is left in runever, and what is put back.
LEMMA DirectionsLeft ==
  ASSUME NEW s \in Seq(BOOLEAN), NEW r \in BOOLEAN, \A i \in DOMAIN s : s[i] = r
  PROVE  /\ s # <<>> => Head(s) = r /\ \A i \in DOMAIN Tail(s) : Tail(s)[i] = r
         /\ \A i \in DOMAIN Append(s, r) : Append(s, r)[i] = r
<1>1. ASSUME s # <<>> PROVE Head(s) = r /\ \A i \in DOMAIN Tail(s) : Tail(s)[i] = r
  <2>1. DOMAIN s = 1..Len(s) /\ Len(s) \in Nat /\ Len(s) >= 1
    BY <1>1
  <2>2. Head(s) = s[1] /\ 1 \in DOMAIN s
    BY <1>1, <2>1
  <2>3. \A i \in DOMAIN Tail(s) : Tail(s)[i] = s[i + 1] /\ i + 1 \in DOMAIN s
    BY <1>1, <2>1
  <2> QED  BY <2>2, <2>3
<1>2. \A i \in DOMAIN Append(s, r) : Append(s, r)[i] = r
  OBVIOUS
<1> QED  BY <1>1, <1>2

\* The steps of a branch that are not executions.
LEMMA BranchStep ==
  ASSUME Orderly, Inv', RestTyped', NEW p \in Kid,
         \/ TakeRun(p) \/ PassRun(p) \/ Ask(p) \/ TakeUpdate(p) \/ PassUpdate(p)
         \/ Release(p) \/ Unclog(p) \/ Update(p) \/ Terminate(p)
  PROVE  Orderly'
<1>0. p \in Proc /\ p # 0
  BY Processes
<1>1. UNCHANGED <<rev, dbg, runclose, pc, spawned, suspended, chain, broken>>
  BY DEF TakeRun, PassRun, Ask, TakeUpdate, PassUpdate, Release, Unclog, Update, Terminate,
         chans, local
<1>2. gor[p] # "none"
  BY DEF TakeRun, PassRun, Ask, TakeUpdate, PassUpdate, Release, Unclog, Update, Terminate, At
<1>3. \A i \in DOMAIN runever : runever[i] = rev
  BY <1>0, <1>2, DirectionRead
<1>4. gor[p] \in Going => pc[p] # (IF rev THEN 0 ELSE KidBlocks)
  BY DEF Orderly, CountersOfBranches
<1>5. runever \in Seq(BOOLEAN) /\ rev \in BOOLEAN /\ dagupdate \in Nat /\ exmut \in BOOLEAN
      /\ lrev \in [Proc -> BOOLEAN]
  BY OrderlyTyped
<1>6. CASE TakeRun(p)
  <2>1. At(p, "select") /\ Goto(p, "got") /\ runever # <<>> /\ runever' = Tail(runever)
        /\ lrev' = [lrev EXCEPT ![p] = Head(runever)] /\ UNCHANGED <<dagupdate, exmut>>
    BY <1>6 DEF TakeRun
  <2>2. Head(runever) = rev /\ \A i \in DOMAIN runever' : runever'[i] = rev
    BY <1>3, <1>5, <2>1, DirectionsLeft
  <2>3. lrev'[p] = rev /\ \A q \in Proc : q # p => lrev'[q] = lrev[q]
    BY <1>0, <1>5, <2>1, <2>2
  <2>4. pc[p] # (IF rev THEN 0 ELSE KidBlocks)
    BY <1>4, <2>1 DEF At, Going
  <2> QED  BY <1>1, <1>2, <2>1, <2>2, <2>3, <2>4, BranchMoves DEF At, KidState
<1>7. CASE PassRun(p)
  <2>1. At(p, "got") /\ Goto(p, "loop") /\ runever' = Append(runever, lrev[p])
        /\ UNCHANGED <<lrev, dagupdate, exmut>>
    BY <1>7 DEF PassRun, local
  <2>2. lrev[p] = rev
    BY <1>0, <2>1, OwnDirection DEF At
  <2>3. \A i \in DOMAIN runever' : runever'[i] = rev
    BY <1>3, <1>5, <2>1, <2>2, DirectionsLeft
  <2>4. pc[p] # (IF rev THEN 0 ELSE KidBlocks)
    BY <1>4, <2>1 DEF At, Going
  <2> QED  BY <1>1, <1>2, <2>1, <2>2, <2>3, <2>4, BranchMoves DEF At, KidState
<1>8. CASE Ask(p) \/ TakeUpdate(p) \/ PassUpdate(p)
  <2>1. PICK s \in {"lock", "wait", "pass", "loop"} :
          /\ Goto(p, s)
          /\ s = "lock" => IsRunnable(p, lrev[p])
          /\ \/ At(p, "loop") /\ s # "pass" /\ dagupdate' = dagupdate
             \/ At(p, "wait") /\ s = "pass"
             \/ At(p, "pass") /\ dagupdate' = dagupdate + 1
    BY <1>8 DEF Ask, TakeUpdate, PassUpdate, chans
  <2>2. UNCHANGED <<lrev, exmut, runever>>
    BY <1>8 DEF Ask, TakeUpdate, PassUpdate, chans, local
  <2>3. lrev[p] = rev
    BY <1>0, <2>1, OwnDirection DEF At
  <2>4. pc[p] # (IF rev THEN 0 ELSE KidBlocks)
    BY <1>4, <2>1 DEF At, Going
  <2>5. dagupdate' = dagupdate \/ dagupdate' > 0 \/ s = "pass"
    BY <1>5, <2>1
  <2>6. gor[p] \in {"unclog", "update", "pass"} => dagupdate' > 0
    BY <1>5, <2>1 DEF At
  <2>7. s \in KidState /\ s \notin {"block", "term", "none"} /\ ~At(p, "block")
    BY <2>1 DEF At, KidState
  <2> QED  BY <1>1, <1>2, <1>3, <2>1, <2>2, <2>3, <2>4, <2>5, <2>6, <2>7, BranchMoves
<1>9. CASE Release(p)
  <2>1. At(p, "block") /\ Goto(p, "unclog") /\ exmut' = FALSE
        /\ UNCHANGED <<lrev, dagupdate, runever>>
    BY <1>9 DEF Release, local
  <2>2. lrev[p] = rev
    BY <1>0, <2>1, OwnDirection DEF At
  <2> QED  BY <1>1, <1>2, <1>3, <2>1, <2>2, BranchMoves DEF At, KidState, Going
<1>10. CASE Unclog(p)
  <2>1. At(p, "unclog") /\ UNCHANGED <<lrev, exmut, runever>>
    BY <1>10 DEF Unclog, local
  <2>2. lrev[p] = rev
    BY <1>0, <2>1, OwnDirection DEF At
  <2>3. \/ Goto(p, "unclog")
        \/ Goto(p, "update") /\ dagupdate' = dagupdate
    <3>1. gor' = gor => Goto(p, "unclog")
      BY <1>0, <2>1, OrderlyTyped DEF Goto, At
    <3> QED  BY <1>10, <3>1 DEF Unclog
  <2> QED  BY <1>1, <1>2, <1>3, <2>1, <2>2, <2>3, BranchMoves DEF At, KidState, Going
<1>11. CASE Update(p)
  <2>1. At(p, "update") /\ dagupdate' = dagupdate + 1 /\ UNCHANGED <<lrev, exmut, runever>>
        /\ Goto(p, IF ~AtEnd(p) THEN "loop" ELSE "term")
    BY <1>0, <1>11 DEF Update, local
  <2>2. lrev[p] = rev
    BY <1>0, <2>1, OwnDirection DEF At
  <2>3. AtEnd(p) <=> pc[p] = (IF rev THEN 0 ELSE KidBlocks)
    BY <1>0, <1>5, <2>2 DEF AtEnd, Blocks
  <2>4. dagupdate' > 0
    BY <1>5, <2>1
  <2> QED  BY <1>1, <1>2, <1>3, <2>1, <2>2, <2>3, <2>4, BranchMoves DEF At, KidState, Going
<1>12. CASE Terminate(p)
  <2>1. At(p, "term") /\ Goto(p, "none") /\ UNCHANGED <<lrev, dagupdate, exmut, runever>>
    BY <1>12 DEF Terminate, local
  <2>2. pc[p] = (IF rev THEN 0 ELSE KidBlocks)
    BY <2>1 DEF Orderly, CountersOfBranches
  <2> QED  BY <1>1, <1>2, <1>3, <2>1, <2>2, BranchMoves DEF At, KidState, Going
<1> QED  BY <1>6, <1>7, <1>8, <1>9, <1>10, <1>11, <1>12

\* The block that a branch executes is the next in the direction of the run, and
\* runnable.
LEMMA BranchAdvances ==
  ASSUME Orderly, NEW p \in Kid, At(p, "lock"), Advance(p)
  PROVE  /\ lrev[p] = rev /\ p \in Proc /\ p # 0
         /\ IsRunnable(p, rev)
         /\ pc' = [pc EXCEPT ![p] = IF rev THEN pc[p] - 1 ELSE pc[p] + 1]
         /\ rev => pc[p] > 0 /\ chain' = chain
         /\ ~rev => /\ pc[p] < KidBlocks
                    /\ <<p, pc[p]>> \in Node
                    /\ IF \E i \in DOMAIN chain : chain[i] = <<p, pc[p]>>
                       THEN chain' = chain ELSE chain' = Append(chain, <<p, pc[p]>>)
<1>1. p \in Proc /\ p # 0 /\ gor[p] = "lock"
  BY Processes DEF At
<1>2. lrev[p] = rev
  BY <1>1, OwnDirection
<1>3. IsRunnable(p, rev)
  BY <1>1 DEF Orderly, ChainKept, At
<1>4. pc' = [pc EXCEPT ![p] = IF rev THEN pc[p] - 1 ELSE pc[p] + 1]
  BY <1>1, <1>2, OrderlyTyped DEF Advance
<1>5. pc[p] # (IF rev THEN 0 ELSE KidBlocks)
  BY <1>1 DEF Orderly, CountersOfBranches, Going
<1>6. rev => pc[p] > 0 /\ chain' = chain
  BY <1>2, <1>5, OrderlyTyped DEF Advance
<1>7. ASSUME ~rev
      PROVE  /\ pc[p] < KidBlocks
             /\ <<p, pc[p]>> \in Node
             /\ IF \E i \in DOMAIN chain : chain[i] = <<p, pc[p]>>
                THEN chain' = chain ELSE chain' = Append(chain, <<p, pc[p]>>)
  <2>1. pc[p] \in 0..(KidBlocks - 1)
    BY <1>5, <1>7, OrderlyTyped, Constants
  <2>2. NextBlock(p, lrev[p]) = <<p, pc[p]>>
    BY <1>2, <1>7 DEF NextBlock
  <2>3. IF \E i \in DOMAIN chain : chain[i] = <<p, pc[p]>>
        THEN chain' = chain ELSE chain' = Append(chain, <<p, pc[p]>>)
    BY <1>1, <1>2, <1>7, <2>2 DEF Advance
  <2> QED  BY <2>1, <2>3, Constants DEF Node
<1> QED  BY <1>1, <1>2, <1>3, <1>4, <1>6, <1>7


\* What the step of the counter does to the blocks that are executed.
LEMMA BranchBlocks ==
  ASSUME Orderly, NEW p \in Kid, At(p, "lock"), Advance(p)
  PROVE  /\ ~rev => /\ ~Executed(<<p, pc[p]>>)
                    /\ \A n \in Node : Executed(n)' <=> Executed(n) \/ n = <<p, pc[p]>>
         /\ rev => /\ <<p, pc[p] - 1>> \in Node
                   /\ Executed(<<p, pc[p] - 1>>)
                   /\ \A n \in Node : Executed(n)' <=> Executed(n) /\ n # <<p, pc[p] - 1>>
<1>1. /\ pc' = [pc EXCEPT ![p] = IF rev THEN pc[p] - 1 ELSE pc[p] + 1]
      /\ rev => pc[p] > 0
      /\ pc \in [Proc -> Int] /\ pc[p] \in 0..KidBlocks /\ p \in Proc /\ p # 0
  BY BranchAdvances, OrderlyTyped
<1>2. \A n \in Node : /\ n[1] \in Proc /\ n[2] \in Int /\ n = <<n[1], n[2]>>
  BY Processes, Constants DEF Node
<1>3. \A n \in Node : n[1] # p => pc'[n[1]] = pc[n[1]]
  BY <1>1, <1>2
<1>4. pc'[p] = IF rev THEN pc[p] - 1 ELSE pc[p] + 1
  BY <1>1
<1>5. ASSUME ~rev, NEW n \in Node
      PROVE  n[2] < pc'[n[1]] <=> n[2] < pc[n[1]] \/ n = <<p, pc[p]>>
  <2>1. CASE n[1] = p
    <3>1. n = <<p, pc[p]>> <=> n[2] = pc[p]
      BY <1>2, <2>1
    <3> QED  BY <1>1, <1>2, <1>4, <1>5, <2>1, <3>1
  <2>2. CASE n[1] # p
    <3>1. n # <<p, pc[p]>>
      BY <2>2
    <3> QED  BY <1>3, <2>2, <3>1
  <2> QED  BY <2>1, <2>2
<1>6. ASSUME rev, NEW n \in Node
      PROVE  n[2] < pc'[n[1]] <=> n[2] < pc[n[1]] /\ n # <<p, pc[p] - 1>>
  <2>1. CASE n[1] = p
    <3>1. n = <<p, pc[p] - 1>> <=> n[2] = pc[p] - 1
      BY <1>2, <2>1
    <3> QED  BY <1>1, <1>2, <1>4, <1>6, <2>1, <3>1
  <2>2. CASE n[1] # p
    <3>1. n # <<p, pc[p] - 1>>
      BY <2>2
    <3> QED  BY <1>3, <2>2, <3>1
  <2> QED  BY <2>1, <2>2
<1>7. rev => <<p, pc[p] - 1>> \in Node /\ pc[p] - 1 < pc[p]
  BY <1>1, Constants DEF Node
<1>8. ~(pc[p] < pc[p])
  BY <1>1
<1> QED  BY <1>5, <1>6, <1>7, <1>8 DEF Executed

\* The next block of another branch is as runnable as before: everybody goes in
\* the same direction.
LEMMA StillRunnable ==
  ASSUME Orderly, NEW p \in Kid, At(p, "lock"), Advance(p),
         NEW q \in Kid, q # p, IsRunnable(q, rev), rev' = rev
  PROVE  IsRunnable(q, rev)'
<1>1. /\ chain \in Seq(Node) /\ pc'[q] = pc[q] /\ pc[q] \in 0..KidBlocks
  BY BranchAdvances, OrderlyTyped, Processes
<1>2. \A i \in 1..Len(chain) : chain[i] \in Node
  BY <1>1
<1>3. CASE rev
  <2>1. chain' = chain /\ \A n \in Node : Executed(n)' => Executed(n)
    BY <1>3, BranchAdvances, BranchBlocks
  <2>2. pc[q] > 0 /\ \A i \in 2..Len(chain) : chain[i - 1] = <<q, pc[q] - 1>> => ~Executed(chain[i])
    BY <1>3 DEF IsRunnable, NextBlock
  <2>3. \A i \in 2..Len(chain) : ~Executed(chain[i]) => ~Executed(chain[i])'
    <3> SUFFICES ASSUME NEW i \in 2..Len(chain), ~Executed(chain[i])
                 PROVE  ~Executed(chain[i])'
      OBVIOUS
    <3>1. chain[i] \in Node
      BY <1>1, <1>2
    <3>2. chain'[i] = chain[i]
      BY <2>1
    <3> QED  BY <2>1, <3>1, <3>2 DEF Executed
  <2>4. \A i \in 2..Len(chain') : chain'[i - 1] = <<q, pc'[q] - 1>> => ~Executed(chain[i])'
    BY <1>1, <2>1, <2>2, <2>3
  <2> QED  BY <1>1, <1>3, <2>2, <2>4 DEF IsRunnable, NextBlock
<1>4. CASE ~rev
  <2>1. \A n \in Node : Executed(n) => Executed(n)'
    BY <1>4, BranchBlocks
  <2>2. \A i \in 2..Len(chain) : chain[i] = <<q, pc[q]>> => Executed(chain[i - 1])
    BY <1>4 DEF IsRunnable, NextBlock
  <2>3. chain' = chain \/ chain' = Append(chain, <<p, pc[p]>>)
    BY <1>4, BranchAdvances
  <2>4. \A i \in 2..Len(chain') : chain'[i] = <<q, pc[q]>> =>
            i \in 2..Len(chain) /\ chain'[i] = chain[i] /\ chain'[i - 1] = chain[i - 1]
    <3>1. CASE chain' = chain
      BY <3>1
    <3>2. CASE chain' = Append(chain, <<p, pc[p]>>)
      <4>1. <<p, pc[p]>> # <<q, pc[q]>>
        OBVIOUS
      <4> DEFINE new == <<p, pc[p]>>
      <4>2. chain' = Append(chain, new) /\ new # <<q, pc[q]>> /\ new \in Node
        BY <1>4, <3>2, <4>1, BranchAdvances
      <4> HIDE DEF new
      <4>3. Len(chain') = Len(chain) + 1 /\ Len(chain) \in Nat /\ chain'[Len(chain) + 1] = new
            /\ \A i \in 1..Len(chain) : chain'[i] = chain[i]
        BY <1>1, <4>2
      <4> SUFFICES ASSUME NEW i \in 2..Len(chain'), chain'[i] = <<q, pc[q]>>
                   PROVE  /\ i \in 2..Len(chain)
                          /\ chain'[i] = chain[i] /\ chain'[i - 1] = chain[i - 1]
        OBVIOUS
      <4>4. i # Len(chain) + 1
        BY <4>2, <4>3
      <4> QED  BY <4>3, <4>4
    <3> QED  BY <2>3, <3>1, <3>2
  <2>5. ASSUME NEW i \in 2..Len(chain'), chain'[i] = <<q, pc'[q]>>
        PROVE  Executed(chain[i - 1])'
    <3>1. i \in 2..Len(chain) /\ chain'[i] = chain[i] /\ chain'[i - 1] = chain[i - 1]
      BY <1>1, <2>4, <2>5
    <3>2. Executed(chain[i - 1]) /\ i - 1 \in 1..Len(chain)
      BY <1>1, <2>2, <2>5, <3>1
    <3>3. chain[i - 1] \in Node
      BY <1>2, <3>2
    <3> QED  BY <2>1, <3>1, <3>2, <3>3 DEF Executed
  <2> QED  BY <1>4, <2>5 DEF IsRunnable, NextBlock
<1> QED  BY <1>3, <1>4

LEMMA ChainGrows ==
  ASSUME Orderly, NEW p \in Kid, At(p, "lock"), Advance(p), UNCHANGED <<rev, dbg>>,
         ~At(p, "lock")', \A q \in Proc : q # p => gor'[q] = gor[q]
  PROVE  ChainKept'
<1>1. chain \in Seq(Node) /\ rev \in BOOLEAN
  BY OrderlyTyped
<1>2. ChainKept
  BY DEF Orderly
<1>3. \A i \in DOMAIN chain : i \in DOMAIN chain' /\ chain'[i] = chain[i]
  <2>1. chain' = chain \/ \E n \in Node : chain' = Append(chain, n)
    BY <1>1, BranchAdvances
  <2> QED  BY <1>1, <2>1
<1>4. ASSUME NEW n \in Node, Executed(n)' PROVE \E i \in DOMAIN chain' : chain'[i] = n
  <2>1. CASE Executed(n)
    <3>1. PICK i \in DOMAIN chain : chain[i] = n
      BY <1>2, <2>1 DEF ChainKept
    <3> QED  BY <1>3, <3>1
  <2>2. CASE ~Executed(n)
    <3>1. ~rev /\ n = <<p, pc[p]>>
      BY <1>1, <1>4, <2>2, BranchBlocks
    <3>2. CASE \E i \in DOMAIN chain : chain[i] = n
      BY <1>3, <3>2
    <3>3. CASE ~\E i \in DOMAIN chain : chain[i] = n
      <4>1. chain' = Append(chain, n)
        BY <3>1, <3>3, BranchAdvances
      <4>2. Len(chain) + 1 \in DOMAIN chain' /\ chain'[Len(chain) + 1] = n
        BY <1>1, <4>1
      <4> QED  BY <4>2
    <3> QED  BY <3>2, <3>3
  <2> QED  BY <2>1, <2>2
<1>5. \/ Full'
      \/ /\ ~rev' /\ dbg' \notin {"stopped", "run1", "run2", "run3", "run4"}
         /\ \A i \in DOMAIN chain' : Executed(chain[i])'
  <2>1. CASE Full
    <3>1. \A n \in Node : \E i \in DOMAIN chain' : chain'[i] = n
      BY <1>3, <2>1 DEF Full
    <3> QED  BY <3>1 DEF Full
  <2>2. CASE ~Full
    <3>1. /\ ~rev /\ dbg \notin {"stopped", "run1", "run2", "run3", "run4"}
          /\ \A i \in DOMAIN chain : Executed(chain[i])
      BY <1>2, <2>2 DEF ChainKept
    <3>2. <<p, pc[p]>> \in Node /\ (chain' = chain \/ chain' = Append(chain, <<p, pc[p]>>))
      BY <3>1, BranchAdvances
    <3>3. \A n \in Node : Executed(n) \/ n = <<p, pc[p]>> => Executed(n)'
      BY <3>1, BranchBlocks
    <3>4. ASSUME NEW i \in DOMAIN chain' PROVE Executed(chain[i])'
      <4>1. chain'[i] \in Node
        BY <1>1, <3>2
      <4>2. Executed(chain'[i]) \/ chain'[i] = <<p, pc[p]>>
        BY <1>1, <3>1, <3>2
      <4> QED  BY <3>3, <4>1, <4>2 DEF Executed
    <3> QED  BY <3>1, <3>4
  <2> QED  BY <2>1, <2>2
<1>6. ASSUME NEW q \in Kid, At(q, "lock")' PROVE IsRunnable(q, rev)'
  <2>1. q # p /\ At(q, "lock")
    BY <1>6, Processes DEF At
  <2>2. IsRunnable(q, rev)
    BY <1>2, <2>1 DEF ChainKept
  <2> QED  BY <2>1, <2>2, StillRunnable
<1> QED  BY <1>4, <1>5, <1>6 DEF ChainKept

LEMMA BranchExecutes ==
  ASSUME Orderly, Inv', RestTyped', NEW p \in Kid, Exec(p) \/ ExecLast(p)
  PROVE  Orderly'
<1>1. /\ At(p, "lock") /\ ~exmut /\ Advance(p)
      /\ UNCHANGED <<rev, dbg, runever, runclose, dagupdate, lrev, spawned, suspended, broken>>
  BY DEF Exec, ExecLast, chans
<1>2. PICK s \in {"unclog", "block"} : Goto(p, s) /\ exmut' = (s = "block")
  BY OrderlyTyped DEF Exec, ExecLast
<1>3. gor'[p] = s /\ \A q \in Proc : q # p => gor'[q] = gor[q]
  BY <1>2, GoesTo, Processes
<1>4. gor'[0] = gor[0] /\ p \in Proc /\ p # 0
  BY <1>3, Processes
<1>5. /\ gor[0] \in {"spawn", "call"} /\ During /\ CallLeft /\ ~AllGone
      /\ p <= spawned
      /\ pc[0] = CallAt /\ dbg = "running" /\ runclose = 0
  BY <1>1, BranchInCall DEF At
<1>6. \A q \in Proc : q # p => pc'[q] = pc[q]
  BY <1>1, BranchAdvances, OrderlyTyped
<1>7. pc'[0] = pc[0]
  BY <1>4, <1>6, Processes
<1>8. ~AllGone' /\ (During' <=> During) /\ (CallLeft' <=> CallLeft) /\ (ProgramEnd' <=> ProgramEnd)
  BY <1>1, <1>4, <1>5, <1>7, Processes DEF AllGone, At, During, CallLeft, ProgramEnd
<1>9. Places'
  BY <1>1, <1>3, <1>4, <1>5, <1>8, Processes DEF Orderly, Places, KidState
<1>10. CounterOfMain'
  BY <1>1, <1>4, <1>5, <1>7, <1>8 DEF Orderly, CounterOfMain
<1>11. CountersOfBranches'
  <2>1. ASSUME NEW q \in Kid, At(q, "none")'
        PROVE  pc'[q] = (IF rev <=> q <= spawned THEN 0 ELSE KidBlocks)
    <3>1. q # p /\ At(q, "none")
      BY <1>2, <1>3, <2>1, Processes DEF At
    <3> QED  BY <1>5, <1>6, <3>1, Processes DEF Orderly, CountersOfBranches
  <2>2. ASSUME NEW q \in Kid
        PROVE  /\ gor'[q] \in Going => pc'[q] # (IF rev THEN 0 ELSE KidBlocks)
               /\ gor'[q] = "term" => pc'[q] = (IF rev THEN 0 ELSE KidBlocks)
    BY <1>2, <1>3, <1>6, Processes DEF At, Orderly, CountersOfBranches, Going
  <2> QED  BY <1>1, <1>5, <1>8, <2>1, <2>2 DEF CountersOfBranches, At
<1>12. Directions'
  BY <1>1, <1>3, <1>4 DEF Orderly, Directions, DirectionsAgree, At, AllGone
<1>13. NoStopInCall'
  BY <1>1, <1>4, <1>5, <1>8 DEF Orderly, NoStopInCall
<1>14. Mutex'
  BY <1>1, <1>2, <1>3, <1>4, Processes, OrderlyTyped DEF Orderly, Mutex, At
<1>15. TokenLives'
  BY <1>1, <1>3, <1>4, <1>7, Processes DEF Orderly, TokenLives, At
<1>16. ChainKept'
  BY <1>1, <1>2, <1>3, ChainGrows DEF At
<1>17. broken' = "none"
  BY <1>1 DEF Orderly
<1> QED  BY <1>9, <1>10, <1>11, <1>12, <1>13, <1>14, <1>15, <1>16, <1>17 DEF Orderly


\* Blocks are executed by branches only.
LEMMA ChainSame ==
  ASSUME Orderly, UNCHANGED <<rev, chain>>, \A q \in Kid : pc'[q] = pc[q],
         \A q \in Kid : At(q, "lock")' => At(q, "lock"),
         Full \/ dbg' \notin {"stopped", "run1", "run2", "run3", "run4"}
  PROVE  ChainKept'
<1>1. ChainKept /\ chain \in Seq(Node)
  BY OrderlyTyped DEF Orderly
<1>2. \A n \in Node : n[1] \in Kid
  BY DEF Node
<1>3. \A n \in Node : Executed(n)' <=> Executed(n)
  BY <1>2 DEF Executed
<1>4. \A i \in 1..Len(chain) : chain[i] \in Node /\ (Executed(chain[i])' <=> Executed(chain[i]))
  <2> SUFFICES ASSUME NEW i \in 1..Len(chain)
               PROVE  chain[i] \in Node /\ (Executed(chain[i])' <=> Executed(chain[i]))
    OBVIOUS
  <2>1. chain[i] \in Node /\ chain'[i] = chain[i]
    BY <1>1
  <2> QED  BY <1>3, <2>1 DEF Executed
<1>5. \A n \in Node : Executed(n)' => \E i \in DOMAIN chain' : chain'[i] = n
  BY <1>1, <1>3 DEF ChainKept
<1>6. \/ Full'
      \/ /\ ~rev' /\ dbg' \notin {"stopped", "run1", "run2", "run3", "run4"}
         /\ \A i \in DOMAIN chain' : Executed(chain[i])'
  <2>1. Full' <=> Full
    BY DEF Full
  <2>2. DOMAIN chain = 1..Len(chain)
    BY <1>1
  <2> QED  BY <1>1, <1>4, <2>1, <2>2 DEF ChainKept
<1>7. ASSUME NEW q \in Kid, At(q, "lock")' PROVE IsRunnable(q, rev)'
  <2>1. IsRunnable(q, rev) /\ pc'[q] = pc[q]
    BY <1>1, <1>7 DEF ChainKept
  <2>2. \A i \in 2..Len(chain) : i \in 1..Len(chain) /\ i - 1 \in 1..Len(chain)
    BY <1>1
  <2>3. \A i \in 2..Len(chain) : /\ Executed(chain[i])' <=> Executed(chain[i])
                                 /\ Executed(chain[i - 1])' <=> Executed(chain[i - 1])
    BY <1>4, <2>2
  <2> QED  BY <2>1, <2>3 DEF IsRunnable, NextBlock
<1> QED  BY <1>5, <1>6, <1>7 DEF ChainKept

\* A step of main outside the call that moves no counter.
LEMMA MainMoves ==
  ASSUME Orderly, Inv', RestTyped',
         NEW s \in {"got", "loop", "lock", "unclog", "update", "eofunclog", "eof", "closing", "none"},
         gor[0] \notin {"none", "spawn", "call", "relock"}, Goto(0, s),
         UNCHANGED <<rev, dbg, pc, spawned, chain, broken, exmut>>,
         s \in {"got", "loop", "lock"} => ~ProgramEnd,
         s \in {"eofunclog", "eof"} => ProgramEnd,
         s \in {"closing", "eofunclog", "eof"} \/ runclose' > runclose => ~CallLeft,
         s \notin {"none", "closing"} => lrev'[0] = rev,
         \A q \in Kid : lrev'[q] = lrev[q],
         \A i \in DOMAIN runever' : runever'[i] = rev,
         dagupdate' = dagupdate \/ dagupdate' > 0 \/ s \in {"unclog", "update", "pass"},
         gor[0] \in {"unclog", "update", "pass"} =>
             dagupdate' > 0 \/ s \in {"unclog", "update", "pass"}
  PROVE  Orderly'
<1>1. gor'[0] = s /\ \A q \in Kid : gor'[q] = gor[q]
  BY GoesTo, Processes
<1>2. ~AllGone /\ ~During /\ ~During' /\ \A q \in Kid : gor[q] = "none"
  BY <1>1, Processes DEF AllGone, At, During, Orderly, Places
<1>3. (CallLeft' <=> CallLeft) /\ (ProgramEnd' <=> ProgramEnd)
  BY <1>1, <1>2 DEF During, CallLeft, ProgramEnd
<1>4. dbg \notin {"run1", "run2", "run3", "run4"}
  BY <1>2 DEF Orderly, CounterOfMain
<1>5. Places'
  BY <1>1, <1>2 DEF Orderly, Places, During, MainState, KidState
<1>6. CounterOfMain'
  BY <1>1, <1>2, <1>3, <1>4 DEF Orderly, CounterOfMain
<1>7. CountersOfBranches'
  BY <1>1, <1>2 DEF Orderly, CountersOfBranches, At, Going
<1>8. Directions'
  BY <1>1, Processes DEF Orderly, Directions, DirectionsAgree
<1>9. NoStopInCall'
  <2>1. CallLeft => dbg \notin {"again", "stop1", "stop2", "stop3", "stopped", "run1"} /\ runclose = 0
    BY <1>2, OrderlyTyped DEF Orderly, NoStopInCall
  <2>2. runclose' \in Nat
    BY DEF Inv, ChannelsTyped
  <2>3. CallLeft => ~(runclose' > 0)
    BY <2>1, <2>2
  <2> QED  BY <1>1, <1>3, <2>1, <2>3 DEF NoStopInCall
<1>10. Mutex'
  BY <1>1, <1>2 DEF Orderly, Mutex, At, During
<1>11. TokenLives'
  BY <1>1, Processes DEF Orderly, TokenLives
<1>12. ChainKept'
  <2>1. Full \/ dbg' \notin {"stopped", "run1", "run2", "run3", "run4"}
    BY DEF Orderly, ChainKept
  <2> QED  BY <1>1, <2>1, ChainSame DEF At
<1>13. broken' = "none"
  BY DEF Orderly
<1> QED  BY <1>5, <1>6, <1>7, <1>8, <1>9, <1>10, <1>11, <1>12, <1>13 DEF Orderly

\* Outside the call main never waits.
LEMMA MainRunnable ==
  ASSUME Orderly, gor[0] = "loop"
  PROVE  IsRunnable(0, lrev[0])
<1>1. lrev[0] = rev /\ ~ProgramEnd /\ pc[0] \in 0..MainBlocks /\ chain \in Seq(Node) /\ rev \in BOOLEAN
  BY Processes, OwnDirection, OrderlyTyped DEF Orderly, CounterOfMain
<1>2. rev => pc[0] > 0
  BY <1>1, Constants DEF ProgramEnd
<1>3. \A i \in 1..Len(chain) : chain[i][1] # 0
  BY <1>1, Processes DEF Node
<1>4. \A i \in 2..Len(chain) : i \in 1..Len(chain) /\ i - 1 \in 1..Len(chain)
  BY <1>1
<1>5. \A x : <<0, x>>[1] = 0
  OBVIOUS
<1> QED  BY <1>1, <1>2, <1>3, <1>4, <1>5 DEF IsRunnable, NextBlock

\* The steps of main that are not executions.
LEMMA MainStep ==
  ASSUME Orderly, Inv', RestTyped',
         \/ TakeRun(0) \/ PassRun(0) \/ TakeClose(0) \/ PassClose(0) \/ Ask(0)
         \/ Unclog(0) \/ Update(0) \/ EofUnclog(0) \/ Eof(0)
  PROVE  Orderly'
<1>0. 0 \in Proc /\ \A q \in Kid : q \in Proc /\ q # 0
  BY Processes
<1>1. UNCHANGED <<rev, dbg, pc, spawned, chain, broken, exmut>>
  BY DEF TakeRun, PassRun, TakeClose, PassClose, Ask, Unclog, Update, EofUnclog, Eof, chans, local
<1>2. gor[0] \notin {"none", "spawn", "call", "relock"}
  BY DEF TakeRun, PassRun, TakeClose, PassClose, Ask, Unclog, Update, EofUnclog, Eof, At
<1>3. \A i \in DOMAIN runever : runever[i] = rev
  BY <1>0, <1>2, DirectionRead
<1>4. runever \in Seq(BOOLEAN) /\ rev \in BOOLEAN /\ dagupdate \in Nat /\ runclose \in Nat
      /\ lrev \in [Proc -> BOOLEAN] /\ pc[0] \in 0..MainBlocks
  BY OrderlyTyped
<1>5. ~(runclose > runclose)
  BY <1>4
<1>6. gor[0] \in {"select", "got", "loop"} => ~ProgramEnd
  BY DEF Orderly, CounterOfMain
<1>7. ProgramEnd => ~CallLeft
  BY <1>2, <1>4, Constants DEF ProgramEnd, CallLeft
<1>8. CASE TakeRun(0)
  <2>1. At(0, "select") /\ Goto(0, "got") /\ runever # <<>> /\ runever' = Tail(runever)
        /\ lrev' = [lrev EXCEPT ![0] = Head(runever)] /\ UNCHANGED <<dagupdate, runclose>>
    BY <1>8 DEF TakeRun
  <2>2. Head(runever) = rev /\ \A i \in DOMAIN runever' : runever'[i] = rev
    BY <1>3, <1>4, <2>1, DirectionsLeft
  <2>3. lrev'[0] = rev /\ \A q \in Kid : lrev'[q] = lrev[q]
    BY <1>0, <1>4, <2>1, <2>2
  <2> QED  BY <1>1, <1>2, <1>5, <1>6, <2>1, <2>2, <2>3, MainMoves DEF At
<1>9. CASE PassRun(0)
  <2>1. At(0, "got") /\ Goto(0, "loop") /\ runever' = Append(runever, lrev[0])
        /\ UNCHANGED <<lrev, dagupdate, runclose>>
    BY <1>9 DEF PassRun, local
  <2>2. lrev[0] = rev
    BY <1>0, <2>1, OwnDirection DEF At
  <2>3. \A i \in DOMAIN runever' : runever'[i] = rev
    BY <1>3, <1>4, <2>1, <2>2, DirectionsLeft
  <2> QED  BY <1>1, <1>2, <1>5, <1>6, <2>1, <2>2, <2>3, MainMoves DEF At
<1>10. CASE TakeClose(0)
  <2>1. Goto(0, "closing") /\ runclose > 0 /\ runclose' = runclose - 1
        /\ gor[0] \in {"select", "loop", "wait"} /\ UNCHANGED <<lrev, runever, dagupdate>>
    BY <1>10 DEF TakeClose, local
  <2>2. ~CallLeft
    <3>1. ~AllGone
      BY <1>0, <1>2 DEF AllGone, At
    <3> QED  BY <2>1, <3>1 DEF Orderly, NoStopInCall
  <2> QED  BY <1>1, <1>2, <1>3, <2>1, <2>2, MainMoves
<1>11. CASE PassClose(0)
  <2>1. At(0, "closing") /\ Goto(0, "none") /\ runclose' = runclose + 1
        /\ UNCHANGED <<lrev, runever, dagupdate>>
    BY <1>11 DEF PassClose
  <2>2. ~CallLeft
    BY <2>1 DEF Orderly, NoStopInCall, At
  <2> QED  BY <1>1, <1>2, <1>3, <2>1, <2>2, MainMoves DEF At
<1>12. CASE Ask(0)
  <2>1. At(0, "loop") /\ UNCHANGED <<lrev, runever, dagupdate, runclose>>
        /\ Goto(0, IF IsRunnable(0, lrev[0]) THEN "lock" ELSE "wait")
    BY <1>12 DEF Ask, chans, local
  <2>2. Goto(0, "lock")
    BY <2>1, MainRunnable DEF At
  <2>3. lrev[0] = rev
    BY <1>0, <2>1, OwnDirection DEF At
  <2> QED  BY <1>1, <1>2, <1>3, <1>5, <1>6, <2>1, <2>2, <2>3, MainMoves DEF At
<1>13. CASE Unclog(0)
  <2>1. At(0, "unclog") /\ UNCHANGED <<lrev, runclose, runever>>
    BY <1>13 DEF Unclog, local
  <2>2. lrev[0] = rev
    BY <1>0, <2>1, OwnDirection DEF At
  <2>3. \/ Goto(0, "unclog")
        \/ Goto(0, "update") /\ dagupdate' = dagupdate
    <3>1. gor' = gor => Goto(0, "unclog")
      BY <1>0, <2>1, OrderlyTyped DEF Goto, At
    <3> QED  BY <1>13, <3>1 DEF Unclog
  <2> QED  BY <1>1, <1>2, <1>3, <1>5, <2>1, <2>2, <2>3, MainMoves DEF At
<1>14. CASE Update(0)
  <2>1. At(0, "update") /\ dagupdate' = dagupdate + 1 /\ UNCHANGED <<lrev, runclose, runever>>
        /\ Goto(0, IF ~AtEnd(0) THEN "loop" ELSE "eofunclog")
    BY <1>14 DEF Update, local
  <2>2. lrev[0] = rev
    BY <1>0, <2>1, OwnDirection DEF At
  <2>3. AtEnd(0) <=> ProgramEnd
    BY <2>2 DEF AtEnd, Blocks, ProgramEnd
  <2>4. dagupdate' > 0
    BY <1>4, <2>1
  <2> QED  BY <1>1, <1>2, <1>3, <1>5, <1>7, <2>1, <2>2, <2>3, <2>4, MainMoves DEF At
<1>15. CASE EofUnclog(0)
  <2>1. At(0, "eofunclog") /\ UNCHANGED <<lrev, dagupdate, runever>>
    BY <1>15 DEF EofUnclog, local
  <2>2. lrev[0] = rev /\ ProgramEnd
    BY <1>0, <2>1, OwnDirection DEF At, Orderly, CounterOfMain
  <2>3. Goto(0, "eofunclog") \/ Goto(0, "eof")
    <3>1. gor' = gor => Goto(0, "eofunclog")
      BY <1>0, <2>1, OrderlyTyped DEF Goto, At
    <3> QED  BY <1>15, <3>1 DEF EofUnclog
  <2> QED  BY <1>1, <1>2, <1>3, <1>7, <2>1, <2>2, <2>3, MainMoves DEF At
<1>16. CASE Eof(0)
  <2>1. At(0, "eof") /\ Goto(0, "none") /\ UNCHANGED <<lrev, dagupdate, runever>>
    BY <1>16 DEF Eof, local
  <2>2. ProgramEnd
    BY <2>1 DEF At, Orderly, CounterOfMain
  <2> QED  BY <1>1, <1>2, <1>3, <1>7, <2>1, <2>2, MainMoves DEF At
<1> QED  BY <1>8, <1>9, <1>10, <1>11, <1>12, <1>13, <1>14, <1>15, <1>16


\* A block of main other than the call moves its counter on the same side of the
\* call.
LEMMA MainExecutes ==
  ASSUME Orderly, Inv', RestTyped', Exec(0)
  PROVE  Orderly'
<1>0. 0 \in Proc /\ \A q \in Kid : q \in Proc /\ q # 0
  BY Processes
<1>1. /\ At(0, "lock") /\ Goto(0, "unclog") /\ Advance(0) /\ ~IsCall(0) /\ ~AtEnd(0)
      /\ UNCHANGED <<rev, dbg, runever, runclose, dagupdate, exmut, lrev, spawned, broken>>
  BY DEF Exec, chans
<1>2. gor'[0] = "unclog" /\ \A q \in Kid : gor'[q] = gor[q]
  BY <1>0, <1>1, GoesTo
<1>3. ~AllGone /\ ~AllGone' /\ ~During /\ ~During' /\ \A q \in Kid : gor[q] = "none"
  BY <1>0, <1>1, <1>2 DEF AllGone, At, During, Orderly, Places
<1>4. lrev[0] = rev /\ rev \in BOOLEAN /\ pc \in [Proc -> Int] /\ pc[0] \in 0..MainBlocks
  BY <1>0, <1>1, OwnDirection, OrderlyTyped DEF At
<1>5. pc' = [pc EXCEPT ![0] = IF rev THEN pc[0] - 1 ELSE pc[0] + 1] /\ chain' = chain
  BY <1>1, <1>4 DEF Advance
<1>6. pc'[0] = (IF rev THEN pc[0] - 1 ELSE pc[0] + 1) /\ \A q \in Kid : pc'[q] = pc[q]
  BY <1>0, <1>4, <1>5
<1>7. /\ (IF rev THEN pc[0] - 1 ELSE pc[0]) # CallAt
      /\ pc[0] # (IF rev THEN 0 ELSE MainBlocks)
  <2>1. NextBlock(0, rev)[2] = (IF rev THEN pc[0] - 1 ELSE pc[0])
    BY DEF NextBlock
  <2> QED  BY <1>1, <1>4, <2>1 DEF IsCall, AtEnd, Blocks
<1>8. pc'[0] \in 0..MainBlocks /\ (pc'[0] <= CallAt <=> pc[0] <= CallAt)
      /\ (rev => (pc'[0] > CallAt <=> pc[0] > CallAt))
  BY <1>4, <1>6, <1>7, Constants
<1>9. CallLeft' <=> CallLeft
  BY <1>1, <1>2, <1>3, <1>8 DEF CallLeft, During
<1>10. dbg \notin {"run1", "run2", "run3", "run4"}
  BY <1>3 DEF Orderly, CounterOfMain
<1>11. Places'
  BY <1>1, <1>2, <1>3 DEF Orderly, Places, During, MainState, KidState
<1>12. CounterOfMain'
  BY <1>1, <1>2, <1>3, <1>8, <1>10 DEF CounterOfMain
<1>13. CountersOfBranches'
  BY <1>1, <1>2, <1>3, <1>6, <1>8 DEF Orderly, CountersOfBranches, At, Going
<1>14. Directions'
  BY <1>0, <1>1, <1>2, <1>3, <1>4, Processes DEF Orderly, Directions, DirectionsAgree, At
<1>15. NoStopInCall'
  BY <1>1, <1>2, <1>3, <1>9 DEF Orderly, NoStopInCall, At
<1>16. Mutex'
  BY <1>1, <1>2, <1>3 DEF Orderly, Mutex, At, During
<1>17. TokenLives'
  BY <1>0, <1>2 DEF TokenLives
<1>18. ChainKept'
  <2>1. Full \/ dbg' \notin {"stopped", "run1", "run2", "run3", "run4"}
    BY <1>1 DEF Orderly, ChainKept
  <2> QED  BY <1>1, <1>2, <1>5, <1>6, <2>1, ChainSame DEF At
<1>19. broken' = "none"
  BY <1>1 DEF Orderly
<1> QED  BY <1>11, <1>12, <1>13, <1>14, <1>15, <1>16, <1>17, <1>18, <1>19 DEF Orderly

LEMMA CallBeginOrderly ==
  ASSUME Orderly, Inv', RestTyped', CallBegin(0)
  PROVE  Orderly'
<1>0. 0 \in Proc /\ \A q \in Kid : q \in Proc /\ q # 0 /\ q \in Nat /\ q >= 1
  BY Processes
<1>1. /\ At(0, "lock") /\ ~exmut /\ Goto(0, "spawn") /\ IsCall(0) /\ exmut'
      /\ pc' = [pc EXCEPT ![0] = IF lrev[0] THEN @ - 1 ELSE @]
      /\ spawned' = 0 /\ suspended' = FALSE
      /\ UNCHANGED <<rev, dbg, runever, runclose, dagupdate, lrev, chain, broken>>
  BY DEF CallBegin, chans
<1>2. gor'[0] = "spawn" /\ \A q \in Kid : gor'[q] = gor[q]
  BY <1>0, <1>1, GoesTo
<1>3. ~AllGone /\ ~AllGone' /\ ~During /\ During' /\ \A q \in Kid : gor[q] = "none"
  BY <1>0, <1>1, <1>2 DEF AllGone, At, During, Orderly, Places
<1>4. lrev[0] = rev /\ rev \in BOOLEAN /\ pc \in [Proc -> Int] /\ pc[0] \in 0..MainBlocks
  BY <1>0, <1>1, OwnDirection, OrderlyTyped DEF At
<1>5. pc'[0] = (IF rev THEN pc[0] - 1 ELSE pc[0]) /\ \A q \in Kid : pc'[q] = pc[q]
  BY <1>0, <1>1, <1>4
<1>6. pc'[0] = CallAt
  <2>1. NextBlock(0, rev)[2] = (IF rev THEN pc[0] - 1 ELSE pc[0])
    BY DEF NextBlock
  <2> QED  BY <1>1, <1>4, <1>5, <2>1 DEF IsCall
<1>7. CallLeft /\ CallLeft' /\ (pc[0] <= CallAt <=> ~rev)
  BY <1>1, <1>2, <1>4, <1>5, <1>6, Constants DEF CallLeft
<1>8. dbg \notin {"run1", "run2", "run3", "run4"}
  BY <1>3 DEF Orderly, CounterOfMain
<1>9. Places'
  BY <1>1, <1>2, <1>3 DEF Orderly, Places, During, MainState, KidState
<1>10. CounterOfMain'
  BY <1>1, <1>2, <1>3, <1>6, <1>8, Constants DEF CounterOfMain
<1>11. CountersOfBranches'
  <2>1. \A q \in Kid : pc'[q] = (IF rev THEN KidBlocks ELSE 0) /\ ~(q <= spawned')
    BY <1>0, <1>1, <1>3, <1>5, <1>7 DEF Orderly, CountersOfBranches
  <2> QED  BY <1>1, <1>2, <1>3, <1>4, <2>1 DEF CountersOfBranches, At, Going
<1>12. Directions'
  BY <1>0, <1>1, <1>2, <1>3, <1>4, Processes DEF Orderly, Directions, DirectionsAgree, At
<1>13. NoStopInCall'
  BY <1>1, <1>2, <1>3, <1>7 DEF Orderly, NoStopInCall, At
<1>14. Mutex'
  BY <1>1, <1>2, <1>3 DEF Mutex, At
<1>15. TokenLives'
  <2>1. pc[0] # 0
    BY <1>4, <1>5, <1>6, Constants
  <2> QED  BY <1>0, <1>1, <1>2, <2>1, Processes DEF Orderly, TokenLives, At
<1>16. ChainKept'
  <2>1. Full \/ dbg' \notin {"stopped", "run1", "run2", "run3", "run4"}
    BY <1>1 DEF Orderly, ChainKept
  <2> QED  BY <1>1, <1>2, <1>5, <2>1, ChainSame DEF At
<1>17. broken' = "none"
  BY <1>1 DEF Orderly
<1> QED  BY <1>9, <1>10, <1>11, <1>12, <1>13, <1>14, <1>15, <1>16, <1>17 DEF Orderly

\* The child that is started has no goroutine, and the whole branch before it.
LEMMA SpawnOrderly ==
  ASSUME Orderly, Inv', RestTyped', Spawn(0)
  PROVE  Orderly'
<1> DEFINE k == spawned + 1
<1>1. /\ At(0, "spawn") /\ spawned < N /\ spawned' = k /\ Start(k)
      /\ UNCHANGED <<rev, dbg, runever, runclose, dagupdate, exmut, lrev, pc, suspended, chain>>
  BY DEF Spawn
<1>2. k \in Kid /\ k \in Proc /\ k # 0 /\ spawned \in Nat
  BY <1>1, OrderlyTyped, Constants DEF Kid, Proc
<1>3. ~(k <= spawned) /\ \A q \in Kid : q # k => (q <= k <=> q <= spawned)
  BY <1>2, Processes
<1>4. gor[k] = "none"
  BY <1>2, <1>3 DEF Orderly, Places
<1>5. broken' = "none"
  BY <1>1, <1>4 DEF Start, Orderly
<1>6. k <= k
  BY <1>2
<1> HIDE DEF k
<1>7. gor'[k] = "select" /\ gor'[0] = gor[0] /\ \A q \in Proc : q # k => gor'[q] = gor[q]
  BY <1>1, <1>2, OrderlyTyped, Processes DEF Start
<1>8. /\ During /\ During' /\ ~AllGone /\ ~AllGone'
      /\ CallLeft /\ CallLeft' /\ pc[0] = CallAt
  BY <1>1, <1>7, Processes DEF AllGone, At, During, CallLeft, Orderly, CounterOfMain
<1>9. dbg \notin {"run1", "run2", "run3", "run4"}
  BY <1>8 DEF Orderly, CounterOfMain
<1>10. pc[k] # (IF rev THEN 0 ELSE KidBlocks)
  BY <1>2, <1>3, <1>4, <1>8, OrderlyTyped, Constants DEF Orderly, CountersOfBranches, At
<1>11. Places'
  BY <1>1, <1>2, <1>3, <1>6, <1>7, <1>8, Processes DEF Orderly, Places, KidState, At, During
<1>12. CounterOfMain'
  BY <1>1, <1>7, <1>8, <1>9 DEF Orderly, CounterOfMain, ProgramEnd, At
<1>13. CountersOfBranches'
  <2>1. ASSUME NEW q \in Kid, At(q, "none")'
        PROVE  pc[q] = (IF rev <=> q <= k THEN 0 ELSE KidBlocks)
    <3>1. q # k /\ At(q, "none")
      BY <1>7, <2>1, Processes DEF At
    <3>2. pc[q] = (IF rev <=> q <= spawned THEN 0 ELSE KidBlocks)
      BY <1>8, <3>1 DEF Orderly, CountersOfBranches
    <3> QED  BY <1>3, <3>1, <3>2
  <2>2. ASSUME NEW q \in Kid
        PROVE  /\ gor'[q] \in Going => pc[q] # (IF rev THEN 0 ELSE KidBlocks)
               /\ gor'[q] = "term" => pc[q] = (IF rev THEN 0 ELSE KidBlocks)
    BY <1>7, <1>10, Processes DEF At, Orderly, CountersOfBranches
  <2> QED  BY <1>1, <1>8, <2>1, <2>2 DEF CountersOfBranches, At
<1>14. Directions'
  BY <1>1, <1>7, <1>8 DEF Orderly, Directions, DirectionsAgree, At
<1>15. NoStopInCall'
  BY <1>1, <1>7, <1>8 DEF Orderly, NoStopInCall, At
<1>16. Mutex'
  BY <1>1, <1>4, <1>7, Processes DEF Orderly, Mutex, At
<1>17. TokenLives'
  BY <1>1, <1>4, <1>7 DEF Orderly, TokenLives, At
<1>18. ChainKept'
  <2>1. Full \/ dbg' \notin {"stopped", "run1", "run2", "run3", "run4"}
    BY <1>1 DEF Orderly, ChainKept
  <2> QED  BY <1>1, <1>7, <2>1, ChainSame, Processes DEF At
<1> QED  BY <1>5, <1>11, <1>12, <1>13, <1>14, <1>15, <1>16, <1>17, <1>18 DEF Orderly

\* The end of the spawning, and the end of the waiting for the children.
LEMMA CallStepOrderly ==
  ASSUME Orderly, Inv', RestTyped', CallUnlock(0) \/ Join(0)
  PROVE  Orderly'
<1>1. PICK s \in {"call", "relock"} :
        /\ Goto(0, s) /\ gor[0] \in {"spawn", "call"}
        /\ IF s = "call" THEN At(0, "spawn") /\ spawned = N /\ ~exmut'
                         ELSE At(0, "call") /\ exmut' = exmut /\ \A q \in Kid : At(q, "none")
  BY DEF CallUnlock, Join, At
<1>2. UNCHANGED <<rev, dbg, runever, runclose, dagupdate, lrev, pc, spawned, suspended, chain, broken>>
  BY DEF CallUnlock, Join, chans, local
<1>3. gor'[0] = s /\ \A q \in Kid : gor'[q] = gor[q]
  BY <1>1, GoesTo, Processes
<1>4. During /\ During' /\ ~AllGone /\ ~AllGone' /\ CallLeft /\ CallLeft'
  BY <1>1, <1>3, Processes DEF AllGone, At, During, CallLeft
<1>5. dbg \notin {"run1", "run2", "run3", "run4"}
  BY <1>4 DEF Orderly, CounterOfMain
<1>6. Places'
  BY <1>1, <1>2, <1>3, <1>4 DEF Orderly, Places, MainState, At
<1>7. CounterOfMain'
  BY <1>1, <1>2, <1>3, <1>4, <1>5 DEF Orderly, CounterOfMain
<1>8. CountersOfBranches'
  BY <1>2, <1>3, <1>4 DEF Orderly, CountersOfBranches, At
<1>9. Directions'
  BY <1>1, <1>2, <1>3, <1>4, Processes DEF Orderly, Directions, DirectionsAgree
<1>10. NoStopInCall'
  BY <1>1, <1>2, <1>3, <1>4 DEF Orderly, NoStopInCall
<1>11. Mutex'
  BY <1>1, <1>3 DEF Orderly, Mutex, At
<1>12. TokenLives'
  BY <1>1, <1>2, <1>3, Processes DEF Orderly, TokenLives
<1>13. ChainKept'
  <2>1. Full \/ dbg' \notin {"stopped", "run1", "run2", "run3", "run4"}
    BY <1>2 DEF Orderly, ChainKept
  <2> QED  BY <1>2, <1>3, <2>1, ChainSame DEF At
<1>14. broken' = "none"
  BY <1>2 DEF Orderly
<1> QED  BY <1>6, <1>7, <1>8, <1>9, <1>10, <1>11, <1>12, <1>13, <1>14 DEF Orderly

\* When the children have returned, all branches are at the end in the direction
\* of the run.
LEMMA CallEndOrderly ==
  ASSUME Orderly, Inv', RestTyped', CallEnd(0)
  PROVE  Orderly'
<1>0. 0 \in Proc /\ \A q \in Kid : q \in Proc /\ q # 0 /\ q <= N
  BY Processes
<1>1. /\ At(0, "relock") /\ ~suspended
      /\ UNCHANGED <<rev, dbg, runever, runclose, dagupdate, lrev, chain, broken>>
  BY DEF CallEnd, chans, Orderly, Places, During, At
<1>2. /\ Goto(0, "unclog")
      /\ pc' = [pc EXCEPT ![0] = IF lrev[0] THEN @ ELSE @ + 1]
      /\ UNCHANGED <<exmut, spawned, suspended>>
  BY <1>1 DEF CallEnd
<1>3. gor'[0] = "unclog" /\ \A q \in Kid : gor'[q] = gor[q]
  BY <1>0, <1>2, GoesTo
<1>4. /\ ~AllGone /\ ~AllGone' /\ During /\ ~During' /\ spawned = N
      /\ \A q \in Kid : gor[q] = "none"
  BY <1>0, <1>1, <1>3 DEF AllGone, At, During, Orderly, Places
<1>5. lrev[0] = rev /\ rev \in BOOLEAN /\ pc \in [Proc -> Int] /\ pc[0] = CallAt
  BY <1>0, <1>1, <1>4, OwnDirection, OrderlyTyped DEF At, Orderly, CounterOfMain
<1>6. pc'[0] = (IF rev THEN CallAt ELSE CallAt + 1) /\ \A q \in Kid : pc'[q] = pc[q]
  BY <1>0, <1>2, <1>5
<1>7. ~CallLeft'
  BY <1>1, <1>3, <1>6, Constants DEF CallLeft
<1>8. dbg \notin {"run1", "run2", "run3", "run4"}
  BY <1>4 DEF Orderly, CounterOfMain
<1>9. Places'
  BY <1>1, <1>3, <1>4 DEF Places, MainState, KidState, During
<1>10. CounterOfMain'
  BY <1>1, <1>3, <1>4, <1>6, <1>8, Constants DEF CounterOfMain
<1>11. CountersOfBranches'
  <2>1. \A q \in Kid : pc'[q] = (IF rev THEN 0 ELSE KidBlocks)
    BY <1>0, <1>4, <1>5, <1>6 DEF Orderly, CountersOfBranches, At
  <2>2. pc'[0] <= CallAt <=> rev
    BY <1>5, <1>6, Constants
  <2> QED  BY <1>3, <1>4, <2>1, <2>2 DEF CountersOfBranches, At, Going
<1>12. Directions'
  BY <1>0, <1>1, <1>3, <1>4, <1>5, Processes DEF Orderly, Directions, DirectionsAgree, At
<1>13. NoStopInCall'
  BY <1>7 DEF NoStopInCall
<1>14. Mutex'
  BY <1>1, <1>2, <1>3, <1>4 DEF Orderly, Mutex, At
<1>15. TokenLives'
  BY <1>0, <1>3 DEF TokenLives
<1>16. ChainKept'
  <2>1. Full \/ dbg' \notin {"stopped", "run1", "run2", "run3", "run4"}
    BY <1>1 DEF Orderly, ChainKept
  <2> QED  BY <1>1, <1>3, <1>6, <2>1, ChainSame DEF At
<1>17. broken' = "none"
  BY <1>1 DEF Orderly
<1> QED  BY <1>9, <1>10, <1>11, <1>12, <1>13, <1>14, <1>15, <1>16, <1>17 DEF Orderly


\* Nobody executes past the end of a process.
LEMMA NobodyPastTheEnd ==
  ASSUME Orderly, NEW p \in Proc, At(p, "lock")
  PROVE  ~AtEnd(p)
<1>1. lrev[p] = rev
  BY OwnDirection DEF At
<1>2. CASE p = 0
  <2>1. ~ProgramEnd
    BY <1>2 DEF At, Orderly, CounterOfMain
  <2> QED  BY <1>1, <1>2, <2>1 DEF AtEnd, Blocks, ProgramEnd
<1>3. CASE p \in Kid
  <2>1. pc[p] # (IF rev THEN 0 ELSE KidBlocks) /\ p # 0
    BY <1>3, Processes DEF At, Orderly, CountersOfBranches, Going
  <2> QED  BY <1>1, <2>1 DEF AtEnd, Blocks
<1> QED  BY <1>2, <1>3, Processes

LEMMA GorStepOrderly ==
  ASSUME Orderly, Inv', RestTyped', NEW p \in Proc, GorStep(p)
  PROVE  Orderly'
<1>1. ~ExecEof(p) /\ ~ExecAstray(p)
  BY NobodyPastTheEnd DEF ExecEof, ExecAstray
<1>2. CASE p \in Kid
  <2>1. p # 0 /\ gor[p] \in KidState
    BY <1>2, Processes DEF Orderly, Places
  <2>2. ~TakeClose(p)
    BY <1>2, BranchInCall, OrderlyTyped DEF TakeClose
  <2>3. /\ ~PassClose(p) /\ ~CallBegin(p) /\ ~Spawn(p) /\ ~CallUnlock(p) /\ ~Join(p)
        /\ ~CallEnd(p) /\ ~EofUnclog(p) /\ ~Eof(p)
    BY <2>1 DEF PassClose, CallBegin, IsCall, Spawn, CallUnlock, Join, CallEnd, EofUnclog, Eof,
                At, KidState
  <2>4. CASE Exec(p) \/ ExecLast(p)
    BY <1>2, <2>4, BranchExecutes
  <2>5. CASE \/ TakeRun(p) \/ PassRun(p) \/ Ask(p) \/ TakeUpdate(p) \/ PassUpdate(p)
             \/ Release(p) \/ Unclog(p) \/ Update(p) \/ Terminate(p)
    BY <1>2, <2>5, BranchStep
  <2> QED  BY <1>1, <2>2, <2>3, <2>4, <2>5 DEF GorStep
<1>3. CASE p = 0
  <2>1. gor[0] \in MainState
    BY DEF Orderly, Places
  <2>2. ~ExecLast(p) /\ ~TakeUpdate(p) /\ ~PassUpdate(p) /\ ~Release(p) /\ ~Terminate(p)
    BY <1>3, <2>1 DEF ExecLast, IsLastOfKid, TakeUpdate, PassUpdate, Release, Terminate,
                      At, MainState
  <2>3. CASE \/ TakeRun(p) \/ PassRun(p) \/ TakeClose(p) \/ PassClose(p) \/ Ask(p)
             \/ Unclog(p) \/ Update(p) \/ EofUnclog(p) \/ Eof(p)
    BY <1>3, <2>3, MainStep
  <2>4. CASE Exec(p)
    BY <1>3, <2>4, MainExecutes
  <2>5. CASE CallBegin(p) \/ Spawn(p)
    BY <1>3, <2>5, CallBeginOrderly, SpawnOrderly
  <2>6. CASE CallUnlock(p) \/ Join(p) \/ CallEnd(p)
    BY <1>3, <2>6, CallStepOrderly, CallEndOrderly
  <2> QED  BY <1>1, <2>2, <2>3, <2>4, <2>5, <2>6 DEF GorStep
<1> QED  BY <1>2, <1>3, Processes

\* A step of the debugger or the user that starts no goroutine and leaves the
\* direction.
LEMMA DebuggerMoves ==
  ASSUME Orderly, Inv', RestTyped',
         UNCHANGED <<rev, dagupdate, exmut, gor, local>>,
         dbg' \in {"run1", "run2", "run3", "run4"} => AllGone /\ ~ProgramEnd,
         dbg' \notin {"stopped", "run1", "run2"} \/ ~AllGone =>
             \A i \in DOMAIN runever' : runever'[i] = rev,
         CallLeft => /\ dbg' \notin {"again", "stop1", "stop2", "stop3"}
                     /\ dbg' \in {"stopped", "run1"} => AllGone
                     /\ runclose' > 0 => dbg' \in {"stopped", "run1"},
         Full \/ dbg' \notin {"stopped", "run1", "run2", "run3", "run4"}
  PROVE  Orderly'
<1>1. UNCHANGED <<rev, dagupdate, exmut, gor, lrev, pc, spawned, suspended, chain, broken>>
  BY DEF local
<1>2. /\ AllGone' <=> AllGone
      /\ CallLeft' <=> CallLeft
      /\ ProgramEnd' <=> ProgramEnd
      /\ During' <=> During
  BY <1>1 DEF AllGone, At, CallLeft, ProgramEnd, During
<1>3. Places'
  BY <1>1, <1>2 DEF Orderly, Places
<1>4. CounterOfMain'
  BY <1>1, <1>2 DEF Orderly, CounterOfMain
<1>5. CountersOfBranches'
  BY <1>1, <1>2 DEF Orderly, CountersOfBranches, At
<1>6. Directions'
  BY <1>1, <1>2 DEF Orderly, Directions, DirectionsAgree
<1>7. NoStopInCall'
  BY <1>1, <1>2 DEF Orderly, NoStopInCall
<1>8. Mutex'
  BY <1>1 DEF Orderly, Mutex, At
<1>9. TokenLives'
  BY <1>1 DEF Orderly, TokenLives
<1>10. ChainKept'
  BY <1>1, ChainSame DEF At
<1>11. broken' = "none"
  BY <1>1 DEF Orderly
<1> QED  BY <1>3, <1>4, <1>5, <1>6, <1>7, <1>8, <1>9, <1>10, <1>11 DEF Orderly

\* When no call is left ahead, all blocks have been executed.
LEMMA FullAfterCall ==
  ASSUME Orderly, ~CallLeft
  PROVE  Full
<1>1. CASE ~rev
  <2>1. pc[0] > CallAt /\ ~During
    BY <1>1, OrderlyTyped, Constants DEF CallLeft, During
  <2>2. \A q \in Kid : pc[q] = KidBlocks
    BY <2>1, OrderlyTyped, Constants DEF Orderly, CountersOfBranches
  <2>3. ASSUME NEW n \in Node PROVE Executed(n)
    <3>1. n[1] \in Kid /\ n[2] < KidBlocks
      BY Constants DEF Node
    <3> QED  BY <2>2, <3>1 DEF Executed
  <2> QED  BY <2>3 DEF Orderly, ChainKept, Full
<1>2. CASE rev
  BY <1>2 DEF Orderly, ChainKept
<1> QED  BY <1>1, <1>2

\* Main is started when it has no goroutine, and not past its end.
LEMMA RunMainOrderly ==
  ASSUME Orderly, Inv', RestTyped', RunMain
  PROVE  Orderly'
<1>1. /\ dbg = "run4" /\ dbg' = "running" /\ Start(0)
      /\ UNCHANGED <<rev, runever, runclose, dagupdate, exmut, lrev, pc, spawned, suspended, chain>>
  BY DEF RunMain
<1>2. AllGone /\ ~ProgramEnd
  BY <1>1 DEF Orderly, CounterOfMain
<1>3. gor[0] = "none" /\ \A q \in Kid : gor[q] = "none"
  BY <1>2, Processes DEF AllGone, At
<1>4. gor'[0] = "select" /\ \A q \in Kid : gor'[q] = gor[q]
  BY <1>1, OrderlyTyped, Processes DEF Start
<1>5. broken' = "none"
  BY <1>1, <1>3 DEF Start, Orderly
<1>6. ~During /\ ~During' /\ ~AllGone' /\ (ProgramEnd' <=> ProgramEnd) /\ (CallLeft' <=> CallLeft)
  BY <1>1, <1>3, <1>4, Processes DEF During, AllGone, At, ProgramEnd, CallLeft
<1>7. Places'
  BY <1>3, <1>4, <1>6 DEF Places, MainState, KidState
<1>8. CounterOfMain'
  BY <1>1, <1>2, <1>4, <1>6 DEF Orderly, CounterOfMain
<1>9. CountersOfBranches'
  BY <1>1, <1>3, <1>4, <1>6 DEF Orderly, CountersOfBranches, At, Going
<1>10. Directions'
  BY <1>1, <1>3, <1>4, Processes DEF Orderly, Directions, DirectionsAgree
<1>11. NoStopInCall'
  BY <1>1, <1>4, <1>6 DEF Orderly, NoStopInCall
<1>12. Mutex'
  BY <1>1, <1>3, <1>4 DEF Orderly, Mutex, At
<1>13. TokenLives'
  BY <1>1, <1>3, <1>4, Processes DEF Orderly, TokenLives
<1>14. ChainKept'
  BY <1>1, <1>4, ChainSame DEF At
<1> QED  BY <1>5, <1>7, <1>8, <1>9, <1>10, <1>11, <1>12, <1>13, <1>14 DEF Orderly

LEMMA DbgStepOrderly ==
  ASSUME Orderly, Inv', RestTyped', DbgStep
  PROVE  Orderly'
<1>1. /\ runever \in Seq(BOOLEAN) /\ rev \in BOOLEAN /\ runclose \in Nat /\ dbg \in DbgState
      /\ runclose' \in Nat
  BY OrderlyTyped DEF Inv, ChannelsTyped
<1>2. /\ dbg \in {"run1", "run2", "run3", "run4"} => AllGone /\ ~ProgramEnd
      /\ dbg \notin {"stopped", "run1", "run2"} \/ ~AllGone =>
             \A i \in DOMAIN runever : runever[i] = rev
      /\ CallLeft => /\ dbg \notin {"again", "stop1", "stop2", "stop3"}
                     /\ dbg \in {"stopped", "run1"} => AllGone
                     /\ runclose > 0 => dbg \in {"stopped", "run1"}
      /\ Full \/ dbg \notin {"stopped", "run1", "run2", "run3", "run4"}
  BY DEF Orderly, CounterOfMain, Directions, NoStopInCall, ChainKept
<1>3. CASE TakeNewproc \/ TakeTermproc
  <2>1. UNCHANGED <<rev, dagupdate, exmut, gor, local, dbg, runever, runclose>>
    BY <1>3 DEF TakeNewproc, TakeTermproc
  <2> QED  BY <1>2, <2>1, DebuggerMoves
<1>4. CASE SeeClose
  <2>1. UNCHANGED <<rev, dagupdate, exmut, gor, local, runever>>
        /\ dbg = "running" /\ runclose > 0 /\ dbg' = "again"
    BY <1>4, <1>1 DEF SeeClose
  <2> QED  BY <1>2, <2>1, DebuggerMoves
<1>5. CASE SendClose
  <2>1. UNCHANGED <<rev, dagupdate, exmut, gor, local, runever>>
        /\ dbg \in {"again", "stop3"} /\ dbg' = "stopped"
    BY <1>5 DEF SendClose
  <2>2. ~CallLeft
    BY <1>2, <2>1
  <2> QED  BY <1>2, <2>1, <2>2, DebuggerMoves, FullAfterCall
<1>6. CASE UnclogClose
  <2>1. UNCHANGED <<rev, dagupdate, exmut, gor, local, runever>>
        /\ \/ dbg \in {"stop1", "run1"} /\ runclose > 0 /\ dbg' = dbg /\ runclose' = runclose - 1
           \/ dbg = "stop1" /\ ~(runclose > 0) /\ dbg' = "stop2" /\ runclose' = runclose
           \/ dbg = "run1" /\ ~(runclose > 0) /\ dbg' = "run2" /\ runclose' = runclose
    BY <1>6 DEF UnclogClose
  <2> QED  BY <1>2, <2>1, DebuggerMoves
<1>7. CASE UnclogEver
  <2>1. UNCHANGED <<rev, dagupdate, exmut, gor, local, runclose>>
        /\ \/ dbg \in {"stop2", "run2"} /\ runever # <<>> /\ dbg' = dbg /\ runever' = Tail(runever)
           \/ dbg = "stop2" /\ runever = <<>> /\ dbg' = "stop3" /\ runever' = runever
           \/ dbg = "run2" /\ runever = <<>> /\ dbg' = "run3" /\ runever' = runever
    BY <1>7 DEF UnclogEver
  <2>2. dbg' \notin {"stopped", "run1", "run2"} \/ ~AllGone =>
            \A i \in DOMAIN runever' : runever'[i] = rev
    <3>1. CASE runever # <<>>
      BY <1>1, <1>2, <2>1, <3>1, DirectionsLeft
    <3>2. CASE runever = <<>>
      BY <2>1, <3>2
    <3> QED  BY <3>1, <3>2
  <2> QED  BY <1>2, <2>1, <2>2, DebuggerMoves
<1>8. CASE SendRun
  <2>1. UNCHANGED <<rev, dagupdate, exmut, gor, local, runclose>>
        /\ dbg = "run3" /\ dbg' = "run4" /\ runever' = Append(runever, rev)
    BY <1>8 DEF SendRun
  <2>2. \A i \in DOMAIN runever' : runever'[i] = rev
    BY <1>1, <1>2, <2>1, DirectionsLeft
  <2> QED  BY <1>2, <2>1, <2>2, DebuggerMoves
<1>9. CASE RunMain
  BY <1>9, RunMainOrderly
<1> QED  BY <1>3, <1>4, <1>5, <1>6, <1>7, <1>8, <1>9 DEF DbgStep

\* The user turns when all goroutines are gone.
LEMMA TurnOrderly ==
  ASSUME Habits = {}, Orderly, Inv', RestTyped', Turn
  PROVE  Orderly'
<1>1. /\ dbg = "stopped" /\ AllGone /\ rev' = ~rev
      /\ UNCHANGED <<dbg, runever, runclose, dagupdate, exmut, gor, lrev, pc, spawned, suspended,
                     chain, broken>>
  BY DEF Turn, chans, local
<1>2. \A p \in Proc : gor[p] = "none"
  BY <1>1 DEF AllGone, At
<1>3. gor[0] = "none" /\ \A q \in Kid : gor[q] = "none"
  BY <1>2, Processes
<1>4. ~During /\ ~During' /\ AllGone'
  BY <1>1, <1>3 DEF During, AllGone, At
<1>5. Places'
  BY <1>1, <1>3, <1>4 DEF Places, MainState, KidState
<1>6. CounterOfMain'
  BY <1>1, <1>3, <1>4 DEF Orderly, CounterOfMain
<1>7. CountersOfBranches'
  BY <1>1, <1>3, <1>4 DEF Orderly, CountersOfBranches, At, Going
<1>8. Directions'
  BY <1>1, <1>2, <1>4 DEF Directions, DirectionsAgree
<1>9. NoStopInCall'
  BY <1>1, <1>3, <1>4 DEF NoStopInCall
<1>10. Mutex'
  BY <1>1, <1>3 DEF Orderly, Mutex, At
<1>11. TokenLives'
  BY <1>1 DEF Orderly, TokenLives
<1>12. ChainKept'
  <2>1. Full /\ Full'
    BY <1>1 DEF Orderly, ChainKept, Full
  <2>2. \A n \in Node : Executed(n)' => \E i \in DOMAIN chain' : chain'[i] = n
    BY <2>1 DEF Full
  <2> QED  BY <1>1, <1>3, <2>1, <2>2 DEF ChainKept, At
<1>13. broken' = "none"
  BY <1>1 DEF Orderly
<1> QED  BY <1>5, <1>6, <1>7, <1>8, <1>9, <1>10, <1>11, <1>12, <1>13 DEF Orderly

LEMMA UserOrderly ==
  ASSUME Habits = {}, Orderly, Inv', RestTyped', User
  PROVE  Orderly'
<1>1. /\ dbg \notin {"stopped", "run1", "run2"} \/ ~AllGone =>
             \A i \in DOMAIN runever : runever[i] = rev
      /\ CallLeft => (runclose > 0 => dbg \in {"stopped", "run1"})
      /\ Full \/ dbg \notin {"stopped", "run1", "run2", "run3", "run4"}
  BY DEF Orderly, CounterOfMain, Directions, NoStopInCall, ChainKept
<1>2. CASE Stop
  <2>1. UNCHANGED <<rev, dagupdate, exmut, gor, local, runever, runclose>>
        /\ dbg = "running" /\ dbg' = "stop1" /\ ~CallLeft
    BY <1>2 DEF Stop, chans
  <2> QED  BY <1>1, <2>1, DebuggerMoves
<1>3. CASE Turn
  BY <1>3, TurnOrderly
<1>4. CASE RunCmd
  <2>1. UNCHANGED <<rev, dagupdate, exmut, gor, local, runever, runclose>>
        /\ dbg = "stopped" /\ dbg' = "run1" /\ AllGone /\ ~ProgramEnd
    BY <1>4 DEF RunCmd, chans
  <2> QED  BY <1>1, <2>1, DebuggerMoves
<1> QED  BY <1>2, <1>3, <1>4 DEF User

LEMMA OrderlyInit == Init => Orderly
<1> SUFFICES ASSUME Init PROVE Orderly
  OBVIOUS
<1>1. Inv /\ RestTyped
  BY InvInit, RestTypedInit
<1>2. gor[0] = "select" /\ (\A q \in Kid : gor[q] = "none") /\ \A p \in Proc : pc[p] = 0
  BY Processes DEF Init
<1>3. pc[0] = 0 /\ \A q \in Kid : pc[q] = 0
  BY <1>2, Processes
<1>4. ~During /\ ~AllGone
  BY <1>2, Processes DEF During, AllGone, At
<1>5. Places
  BY <1>2, <1>4 DEF Places, MainState, KidState
<1>6. CounterOfMain
  BY <1>2, <1>3, <1>4, Constants DEF Init, CounterOfMain, ProgramEnd
<1>7. CountersOfBranches
  BY <1>2, <1>3, <1>4, Constants DEF CountersOfBranches, At, Going
<1>8. Directions
  BY <1>2, Processes DEF Init, Directions, DirectionsAgree
<1>9. NoStopInCall
  BY <1>2 DEF Init, NoStopInCall
<1>10. Mutex
  BY <1>2 DEF Init, Mutex, At
<1>11. TokenLives
  BY <1>3 DEF TokenLives
<1>12. ChainKept
  <2>1. ASSUME NEW n \in Node PROVE ~Executed(n)
    <3>1. n[1] \in Kid /\ n[2] >= 0
      BY Constants DEF Node
    <3> QED  BY <1>3, <3>1, Constants DEF Executed, Node
  <2> QED  BY <1>2, <2>1 DEF Init, ChainKept, At
<1>13. broken = "none"
  BY DEF Init
<1> QED  BY <1>1, <1>5, <1>6, <1>7, <1>8, <1>9, <1>10, <1>11, <1>12, <1>13 DEF Orderly

LEMMA OrderlyStep ==
  ASSUME Habits = {}
  PROVE  Orderly /\ [Next]_vars => Orderly'
<1> SUFFICES ASSUME Orderly, [Next]_vars PROVE Orderly'
  OBVIOUS
<1>1. Inv' /\ RestTyped'
  BY InvStep, RestStep DEF Orderly
<1>2. CASE DbgStep
  BY <1>1, <1>2, DbgStepOrderly
<1>3. ASSUME NEW p \in Proc, GorStep(p) PROVE Orderly'
  BY <1>1, <1>3, GorStepOrderly
<1>4. CASE User
  BY <1>1, <1>4, UserOrderly
<1>5. CASE UNCHANGED vars
  <2>1. UNCHANGED <<rev, dagupdate, exmut, gor, local, dbg, runever, runclose>>
    BY <1>5 DEF vars, chans, local
  <2>2. /\ dbg \in {"run1", "run2", "run3", "run4"} => AllGone /\ ~ProgramEnd
        /\ dbg \notin {"stopped", "run1", "run2"} \/ ~AllGone =>
               \A i \in DOMAIN runever : runever[i] = rev
        /\ CallLeft => /\ dbg \notin {"again", "stop1", "stop2", "stop3"}
                       /\ dbg \in {"stopped", "run1"} => AllGone
                       /\ runclose > 0 => dbg \in {"stopped", "run1"}
        /\ Full \/ dbg \notin {"stopped", "run1", "run2", "run3", "run4"}
    BY DEF Orderly, CounterOfMain, Directions, NoStopInCall, ChainKept
  <2> QED  BY <1>1, <2>1, <2>2, DebuggerMoves
<1> QED  BY <1>2, <1>3, <1>4, <1>5 DEF Next, System, Idle, Broken


LEMMA OrderlyHolds ==
  ASSUME Habits = {}
  PROVE  Spec => []Orderly
<1>1. Init => Orderly
  BY OrderlyInit
<1>2. Orderly /\ [Next]_vars => Orderly'
  BY OrderlyStep
<1> QED  BY <1>1, <1>2, PTL DEF Spec

-----------------------------------------------------------------------------
(* What an orderly session has of the invariant                            *)

\* In an orderly session no process is executed by two goroutines, though `run`
\* starts main and main its children without looking for an earlier goroutine
\* (runtime.go:258, runtime.go:593).
THEOREM NeverTwoGoroutines ==
  ASSUME Habits = {}
  PROVE  Spec => []OneGoroutine
<1>1. Orderly => OneGoroutine
  BY DEF Orderly, OneGoroutine
<1> QED  BY <1>1, OrderlyHolds, PTL

\* In an orderly session every goroutine executes in the direction that is set,
\* though a token of runever may be left over from the run before.
THEOREM OneDirection ==
  ASSUME Habits = {}
  PROVE  Spec => []DirectionsAgree
<1>1. Orderly => DirectionsAgree
  BY DEF Orderly, Directions
<1> QED  BY <1>1, OrderlyHolds, PTL

\* An orderly session never leaves the mutex locked, though executeBlock returns
\* past the end of the file without unlocking it (pc.go:125).
THEOREM MutexReturned ==
  ASSUME Habits = {}
  PROVE  Spec => []MutexFreeAtRest
<1>1. ASSUME Orderly, AllGone PROVE ~exmut
  <2>1. gor[0] = "none" /\ \A q \in Kid : gor[q] = "none"
    BY <1>1, Processes DEF AllGone, At
  <2> QED  BY <1>1, <2>1 DEF Orderly, Mutex, At
<1> QED  BY <1>1, OrderlyHolds, PTL DEF MutexFreeAtRest

\* In an orderly session nobody waits for dagupdate unless a token is there or
\* somebody is left who goes on: only branches wait, so main has executed a
\* block, and whoever empties the channel puts a token into it.
THEOREM WakeupComes ==
  ASSUME Habits = {}
  PROVE  Spec => []WakeupPending
<1>1. ASSUME Orderly, NEW p \in Proc, At(p, "wait")
      PROVE  dagupdate > 0 \/ \E q \in Proc : gor[q] \notin {"none", "wait", "call"}
  <2>1. p \in Kid /\ gor[p] # "none"
    BY <1>1, Processes DEF At, Orderly, Places, MainState
  <2>2. pc[0] # 0
    BY <1>1, <2>1, BranchInCall, Constants
  <2>3. dagupdate > 0 \/ \E q \in Proc : gor[q] \in {"unclog", "update", "pass"}
    BY <1>1, <2>2 DEF Orderly, TokenLives
  <2> QED  BY <2>3
<1>2. Orderly => WakeupPending
  BY <1>1 DEF WakeupPending
<1> QED  BY <1>2, OrderlyHolds, PTL

-----------------------------------------------------------------------------
(* Blocks in causal order                                                  *)

Executeds == {n \in Node : Executed(n)}
Uses      == {<<chain[i], chain[i - 1]>> : i \in 2..Len(chain)}

\* A step that moves no branch's counter changes nothing of the DAG.
BranchesStay == chain' = chain /\ \A q \in Kid : pc'[q] = pc[q]

LEMMA StaysCausally ==
  ASSUME BranchesStay
  PROVE  UNCHANGED Causal!vars
<1>1. \A n \in Node : n[1] \in Kid
  BY DEF Node
<1>2. Executeds' = Executeds
  BY <1>1 DEF Executeds, Executed, BranchesStay
<1>3. Uses' = Uses
  BY DEF BranchesStay, Uses
<1> QED  BY <1>2, <1>3 DEF Causal!vars, Executeds, Uses

\* What a block uses when it is executed is executed, and remembered.
LEMMA UsesGrow ==
  ASSUME Orderly, NEW p \in Kid, At(p, "lock"), Advance(p), ~rev, NEW n, n = <<p, pc[p]>>
  PROVE  /\ Uses \subseteq Uses'
         /\ \A u \in Uses' : u \in Uses \/ \E d \in Executeds : u = <<n, d>>
         /\ \A d \in Node : <<n, d>> \in Uses' => d \in Executeds
<1>1. chain \in Seq(Node) /\ n \in Node /\ ~Executed(n)
      /\ IF \E i \in DOMAIN chain : chain[i] = n THEN chain' = chain ELSE chain' = Append(chain, n)
  BY BranchAdvances, BranchBlocks, OrderlyTyped
<1>2. \A i \in 2..Len(chain) : chain[i] = n => Executed(chain[i - 1])
  BY BranchAdvances DEF IsRunnable, NextBlock
<1>3. \A i \in 2..Len(chain) : /\ i \in DOMAIN chain /\ i - 1 \in DOMAIN chain
                               /\ chain[i] \in Node /\ chain[i - 1] \in Node
  BY <1>1
<1>4. CASE chain' = chain
  <2>1. Uses' = Uses
    BY <1>4 DEF Uses
  <2>2. \A d \in Node : <<n, d>> \in Uses => d \in Executeds
    BY <1>2, <1>3 DEF Uses, Executeds
  <2> QED  BY <2>1, <2>2
<1>5. CASE chain' = Append(chain, n) /\ ~\E i \in DOMAIN chain : chain[i] = n
  <2>1. \A i \in DOMAIN chain : Executed(chain[i])
    BY <1>1, <1>5 DEF Orderly, ChainKept, Full
  <2>2. /\ \A i \in DOMAIN chain : chain'[i] = chain[i]
        /\ Len(chain') = Len(chain) + 1 /\ chain'[Len(chain')] = n
        /\ Len(chain) \in Nat /\ DOMAIN chain = 1..Len(chain)
    BY <1>1, <1>5
  <2>3. Uses \subseteq Uses'
    <3> SUFFICES ASSUME NEW i \in 2..Len(chain)
                 PROVE  <<chain[i], chain[i - 1]>> \in Uses'
      BY DEF Uses
    <3>1. i \in 2..Len(chain') /\ chain'[i] = chain[i] /\ chain'[i - 1] = chain[i - 1]
      BY <1>3, <2>2
    <3>2. <<chain'[i], chain'[i - 1]>> \in Uses'
      BY <3>1 DEF Uses
    <3> QED  BY <3>1, <3>2
  <2>4. ASSUME NEW i \in 2..Len(chain')
        PROVE  \/ <<chain'[i], chain'[i - 1]>> \in Uses /\ chain'[i] # n
               \/ chain'[i] = n /\ chain'[i - 1] \in Executeds
    <3>1. CASE i \in 2..Len(chain)
      <4>1. chain'[i] = chain[i] /\ chain'[i - 1] = chain[i - 1] /\ chain[i] # n
        BY <1>3, <1>5, <2>2, <3>1
      <4>2. <<chain[i], chain[i - 1]>> \in Uses
        BY <3>1 DEF Uses
      <4> QED  BY <4>1, <4>2
    <3>2. CASE i = Len(chain')
      <4>1. i - 1 \in DOMAIN chain
        BY <2>2, <3>2
      <4>2. chain'[i - 1] = chain[i - 1] /\ chain[i - 1] \in Node
        BY <1>1, <2>2, <4>1
      <4>3. chain[i - 1] \in Executeds
        BY <2>1, <4>1, <4>2 DEF Executeds
      <4> QED  BY <2>2, <3>2, <4>2, <4>3
    <3> QED  BY <2>2, <3>1, <3>2
  <2>5. \A u \in Uses' : \E i \in 2..Len(chain') : u = <<chain'[i], chain'[i - 1]>>
    BY DEF Uses
  <2>6. \A u \in Uses' : u \in Uses \/ \E d \in Executeds : u = <<n, d>>
    BY <2>4, <2>5
  <2>7. \A d \in Node : <<n, d>> \in Uses' => d \in Executeds
    BY <2>4, <2>5
  <2> QED  BY <2>3, <2>6, <2>7
<1> QED  BY <1>1, <1>4, <1>5

\* A block is executed after all that its DAG edges lead to, and undone before.
LEMMA ExecutesCausally ==
  ASSUME Orderly, NEW p \in Kid, At(p, "lock"), Advance(p)
  PROVE  Causal!Next
<1> SUFFICES ASSUME NEW n, n = <<p, IF rev THEN pc[p] - 1 ELSE pc[p]>>
             PROVE  Causal!Next
  OBVIOUS
<1>1. n[1] = p /\ n[2] = (IF rev THEN pc[p] - 1 ELSE pc[p]) /\ pc[p] \in Int
  BY OrderlyTyped
<1>2. /\ \A d \in Node : d \in Executeds <=> d[2] < pc[d[1]]
      /\ Executeds \subseteq Node /\ Executeds' \subseteq Node
      /\ \A d \in Node : d \in Executeds' <=> Executed(d)'
      /\ \A d \in Node : d \in Executeds <=> Executed(d)
      /\ \A d \in Node : d[2] \in Int
  BY Constants DEF Executeds, Executed, Node
<1>3. CASE rev
  <2>1. n \in Node /\ n \in Executeds /\ Executeds' = Executeds \ {n}
    <3>1. /\ n \in Node /\ Executed(n)
          /\ \A d \in Node : Executed(d)' <=> Executed(d) /\ d # n
      BY <1>3, BranchBlocks
    <3> QED  BY <1>2, <3>1
  <2>2. \A d \in Node : d[1] = n[1] /\ d[2] > n[2] => d \notin Executeds
    BY <1>1, <1>2, <1>3
  <2>3. \A d \in Executeds : <<d, n>> \notin Uses
    <3>1. \A i \in 2..Len(chain) : chain[i - 1] = n => ~Executed(chain[i])
      BY <1>3, BranchAdvances DEF IsRunnable, NextBlock
    <3> QED  BY <3>1 DEF Uses, Executeds
  <2>4. Uses' = Uses
    BY <1>3, BranchAdvances DEF Uses
  <2>5. Causal!Undo(n)
    BY <2>1, <2>2, <2>3, <2>4 DEF Causal!Undo, Causal!Later, Executeds, Uses
  <2> QED  BY <2>1, <2>5 DEF Causal!Next
<1>4. CASE ~rev
  <2>1. n = <<p, pc[p]>> /\ n \in Node /\ n \notin Executeds /\ Executeds' = Executeds \cup {n}
    <3>1. /\ n = <<p, pc[p]>> /\ n \in Node /\ ~Executed(n)
          /\ \A d \in Node : Executed(d)' <=> Executed(d) \/ d = n
      BY <1>4, BranchAdvances, BranchBlocks
    <3> QED  BY <1>2, <3>1
  <2>2. \A d \in Node : d[1] = n[1] /\ d[2] < n[2] => d \in Executeds
    BY <1>1, <1>2, <1>4
  <2>3. /\ Uses \subseteq Uses'
        /\ \A u \in Uses' : u \in Uses \/ \E d \in Executeds : u = <<n, d>>
        /\ \A d \in Node : <<n, d>> \in Uses' => d \in Executeds
    BY <1>4, <2>1, UsesGrow
  <2>4. Causal!Observe(n)
    BY <2>1, <2>2, <2>3 DEF Causal!Observe, Causal!Earlier, Executeds, Uses
  <2>5. Causal!Do(n)
    BY <2>1, <2>3, <2>4 DEF Causal!Do, Causal!UsedBy, Executeds, Uses
  <2> QED  BY <2>1, <2>5 DEF Causal!Next
<1> QED  BY <1>3, <1>4

LEMMA StepCausal ==
  ASSUME Orderly, [Next]_vars
  PROVE  [Causal!Next]_Causal!vars
<1>1. ASSUME NEW p \in Kid, Exec(p) \/ ExecLast(p) PROVE Causal!Next
  BY <1>1, ExecutesCausally DEF Exec, ExecLast
<1>2. ASSUME NEW p \in Proc, GorStep(p), ~(p \in Kid /\ (Exec(p) \/ ExecLast(p)))
      PROVE  BranchesStay
  <2>1. CASE Exec(p) \/ ExecLast(p) \/ CallBegin(p) \/ CallEnd(p)
    <3>1. p = 0
      <4>1. p \in Kid => ~CallBegin(p) /\ ~CallEnd(p)
        BY Processes DEF CallBegin, CallEnd, At, IsCall, Orderly, RestTyped
      <4>2. p \in Kid => gor[p] \in KidState /\ p # 0
        BY Processes DEF Orderly, Places
      <4> QED  BY <1>2, <2>1, <4>1, <4>2, Processes
    <3>2. chain' = chain /\ pc' = [pc EXCEPT ![0] = pc'[0]]
      BY <2>1, <3>1, OrderlyTyped, Processes
         DEF Exec, ExecLast, CallBegin, CallEnd, Advance
    <3>3. \A q \in Kid : pc'[q] = pc[q]
      BY <3>2, OrderlyTyped, Processes
    <3> QED  BY <3>2, <3>3 DEF BranchesStay
  <2>2. CASE ~Exec(p) /\ ~ExecLast(p) /\ ~CallBegin(p) /\ ~CallEnd(p)
    <3>1. chain' = chain /\ pc' = pc
      BY <1>2, <2>2 DEF GorStep, TakeRun, PassRun, TakeClose, PassClose, Ask, TakeUpdate,
         PassUpdate, Release, ExecEof, ExecAstray, Spawn, CallUnlock, Join, Unclog, Update,
         Terminate, EofUnclog, Eof, local
    <3> QED  BY <3>1 DEF BranchesStay
  <2> QED  BY <2>1, <2>2
<1>3. ASSUME DbgStep \/ User \/ UNCHANGED vars PROVE BranchesStay
  BY <1>3 DEF DbgStep, TakeNewproc, TakeTermproc, SeeClose, SendClose, UnclogClose, UnclogEver,
         SendRun, RunMain, User, Stop, Turn, RunCmd, local, vars, BranchesStay
<1>4. (\E p \in Kid : Exec(p) \/ ExecLast(p)) \/ BranchesStay
  BY <1>2, <1>3 DEF Next, System, Idle, Broken
<1> QED  BY <1>1, <1>4, StaysCausally

\* An orderly session, any number of runs and turns long, implements
\* CausalExecution for any number of branches: isRunnable is asked without the
\* mutex (pc.go:76), but as all go in one direction its answer stays true.
THEOREM RunsAreCausal ==
  ASSUME Habits = {}
  PROVE  Spec => BlocksFollowCausalOrder
<1>1. Init => Causal!Init
  <2> SUFFICES ASSUME Init PROVE Causal!Init
    OBVIOUS
  <2>1. \A n \in Node : ~Executed(n)
    <3> SUFFICES ASSUME NEW n \in Node PROVE ~(n[2] < pc[n[1]])
      BY DEF Executed
    <3>1. n[1] \in Proc /\ n[2] \in Int /\ n[2] >= 0
      BY Constants, Processes DEF Node
    <3> QED  BY <3>1 DEF Init
  <2>2. Len(chain) = 0 /\ 2..0 = {}
    BY DEF Init
  <2> QED  BY <2>1, <2>2 DEF Causal!Init
<1>2. Orderly /\ [Next]_vars => [Causal!Next]_Causal!vars
  BY StepCausal
<1> QED  BY <1>1, <1>2, OrderlyHolds, PTL DEF Spec, BlocksFollowCausalOrder, Causal!Spec


=============================================================================
