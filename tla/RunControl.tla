----------------------------- MODULE RunControl -----------------------------
(***************************************************************************)
(* How the debugger runs, stops and turns a program: the goroutines of the *)
(* processes (execute in src/runtime/pc.go), the goroutine of the debugger *)
(* (debug in src/runtime/runtime.go) and the channels between them.        *)
(*                                                                         *)
(* A channel on which something is broadcast holds tokens; who takes one   *)
(* puts it back for the next.  A send waits while the channel is full.     *)
(*                                                                         *)
(* The program is main (process 0), which in block CallAt calls branches   *)
(* 1..N, each of KidBlocks blocks that all update one shared variable.  Of *)
(* the DAG that leaves the chain of the blocks in the order in which they  *)
(* were first executed.  A block is one step under the mutex except for    *)
(* the call and for the last block of a branch, which sends on a channel   *)
(* while it holds the mutex.                                               *)
(***************************************************************************)
EXTENDS Integers, Sequences, FiniteSets

CONSTANTS
    N,          \* the branches are 1..N
    MainBlocks, \* blocks of main
    CallAt,     \* the block of main that calls
    KidBlocks,  \* blocks of a branch
    Cap,        \* capacity of the channels, 8 in the program
    MaxCmds,    \* bound on the user's commands
    Habits      \* what the user does besides an orderly session, see the end

ASSUME RunAssumption ==
    /\ N \in Nat \ {0}
    /\ MainBlocks \in Nat
    /\ CallAt \in 1..(MainBlocks - 2)
    /\ KidBlocks \in Nat \ {0}
    /\ Cap \in Nat \ {0}
    /\ MaxCmds \in Nat
    /\ Habits \subseteq {"impatient", "stopInCall", "rerun"}

Kid  == 1..N
Proc == 0..N
Node == Kid \X (0..(KidBlocks - 1))

VARIABLES
    rev,       \* the global rev: the direction set by fwd and bwd
    cmds,      \* commands given so far
    dbg,       \* where the debugger is
    runever,   \* channel of directions
    runclose,  \* tokens in a channel
    dagupdate, \* tokens in a channel
    newproc,   \* messages to the debugger, of which only the number matters here
    termproc,  \* likewise
    exmut,     \* the mutex is locked
    gor,       \* where the goroutine of a process is, "none" if it has none
    lrev,      \* the direction that the goroutine got from runever
    pc,        \* the counter pc.pc
    spawned,   \* children that the loop in `call` has started
    suspended, \* suspendproc holds something
    chain,     \* the blocks of the branches in the order of their first execution
    broken     \* what went wrong with a goroutine; the model ends there

chans == <<runever, runclose, dagupdate, newproc, termproc>>
vars  == <<rev, cmds, dbg, chans, exmut, gor, lrev, pc, spawned, suspended, chain, broken>>

GorState ==
    {"none", "select", "got", "loop", "lock", "block", "spawn", "call", "relock",
     "unclog", "update", "term", "eofunclog", "eof", "wait", "pass", "closing"}

DbgState ==
    {"stopped", "run1", "run2", "run3", "run4", "running", "again",
     "stop1", "stop2", "stop3"}

-----------------------------------------------------------------------------
(* Processes *)

Blocks(p) == IF p = 0 THEN MainBlocks ELSE KidBlocks

Executed(n) == n[2] < pc[n[1]]

\* The block that p executes or undoes next, going in direction r.
NextBlock(p, r) == <<p, IF r THEN pc[p] - 1 ELSE pc[p]>>

\* Mutant of IsRunnable: backwards the counter is not looked at.
IsRunnableAnyUndo(p, r) ==
    LET n == NextBlock(p, r)
    IN  IF r
        THEN pc[p] > 0
        ELSE \A i \in 2..Len(chain) : chain[i] = n => Executed(chain[i - 1])

\* isRunnable on a DAG that is one chain.
IsRunnable(p, r) ==
    LET n == NextBlock(p, r)
    IN  IF r
        THEN /\ pc[p] > 0
             /\ \A i \in 2..Len(chain) : chain[i - 1] = n => ~Executed(chain[i])
        ELSE \A i \in 2..Len(chain) : chain[i] = n => Executed(chain[i - 1])

\* p has no more blocks in the direction it goes.
AtEnd(p) == IF lrev[p] THEN pc[p] = 0 ELSE pc[p] = Blocks(p)

IsCall(p) == p = 0 /\ NextBlock(p, lrev[p])[2] = CallAt

\* The next block is the one with `end` (backwards: `begin`) of a branch.
IsLastOfKid(p) ==
    p # 0 /\ NextBlock(p, lrev[p])[2] = (IF lrev[p] THEN 0 ELSE KidBlocks - 1)

\* `go execute`: p gets a goroutine, whether it has one or not.
Start(p) ==
    /\ gor' = [gor EXCEPT ![p] = "select"]
    /\ broken' = IF gor[p] = "none" THEN broken ELSE "twice"

At(p, s)   == gor[p] = s
Goto(p, s) == gor' = [gor EXCEPT ![p] = s]

local == <<lrev, pc, spawned, suspended, chain, broken>>

-----------------------------------------------------------------------------
(* The goroutine of a process: the outer select of execute, without the    *)
(* requests of the step mode.                                              *)

TakeRun(p) ==
    /\ At(p, "select") /\ runever # <<>>
    /\ lrev' = [lrev EXCEPT ![p] = Head(runever)]
    /\ runever' = Tail(runever)
    /\ Goto(p, "got")
    /\ UNCHANGED <<rev, cmds, dbg, runclose, dagupdate, newproc, termproc, exmut,
                   pc, spawned, suspended, chain, broken>>

PassRun(p) ==
    /\ At(p, "got") /\ Len(runever) < Cap
    /\ runever' = Append(runever, lrev[p])
    /\ Goto(p, "loop")
    /\ UNCHANGED <<rev, cmds, dbg, runclose, dagupdate, newproc, termproc, exmut, local>>

\* Mutant of TakeClose: the run loop does not look at runclose.
TakeCloseOutside(p) ==
    /\ At(p, "select") /\ runclose > 0
    /\ runclose' = runclose - 1
    /\ Goto(p, "closing")
    /\ UNCHANGED <<rev, cmds, dbg, runever, dagupdate, newproc, termproc, exmut, local>>

\* Each of the three selects may take a token of runclose.
TakeClose(p) ==
    /\ gor[p] \in {"select", "loop", "wait"} /\ runclose > 0
    /\ runclose' = runclose - 1
    /\ Goto(p, "closing")
    /\ UNCHANGED <<rev, cmds, dbg, runever, dagupdate, newproc, termproc, exmut, local>>

\* The goroutine puts the token back and returns 0; that of a branch reports
\* to its caller that it was suspended, on a channel of sufficient capacity.
PassClose(p) ==
    /\ At(p, "closing") /\ runclose < Cap
    /\ runclose' = runclose + 1
    /\ Goto(p, "none")
    /\ suspended' = (suspended \/ p # 0)
    /\ UNCHANGED <<rev, cmds, dbg, runever, dagupdate, newproc, termproc, exmut,
                   lrev, pc, spawned, chain, broken>>

\* The run loop: no token of runclose, so isRunnable is asked.
Ask(p) ==
    /\ At(p, "loop") /\ runclose = 0
    /\ Goto(p, IF IsRunnable(p, lrev[p]) THEN "lock" ELSE "wait")
    /\ UNCHANGED <<rev, cmds, dbg, chans, exmut, local>>

TakeUpdate(p) ==
    /\ At(p, "wait") /\ dagupdate > 0
    /\ dagupdate' = dagupdate - 1
    /\ Goto(p, "pass")
    /\ UNCHANGED <<rev, cmds, dbg, runever, runclose, newproc, termproc, exmut, local>>

PassUpdate(p) ==
    /\ At(p, "pass") /\ dagupdate < Cap
    /\ dagupdate' = dagupdate + 1
    /\ Goto(p, "loop")
    /\ UNCHANGED <<rev, cmds, dbg, runever, runclose, newproc, termproc, exmut, local>>

-----------------------------------------------------------------------------
(* executeBlock *)

\* The counter moves, and the first execution of a block of a branch hangs it
\* below the last writer of the shared variable.
Advance(p) ==
    LET n == NextBlock(p, lrev[p])
    IN  /\ pc' = [pc EXCEPT ![p] = IF lrev[p] THEN @ - 1 ELSE @ + 1]
        /\ chain' = IF p = 0 \/ lrev[p] \/ \E i \in DOMAIN chain : chain[i] = n
                    THEN chain ELSE Append(chain, n)

\* Mutant of Exec: the last block of main returns before the mutex is unlocked.
ExecKeepsMutex(p) ==
    /\ At(p, "lock") /\ ~exmut
    /\ ~IsCall(p) /\ ~IsLastOfKid(p) /\ ~AtEnd(p)
    /\ Advance(p)
    /\ exmut' = (pc'[0] \in {0, MainBlocks} /\ p = 0)
    /\ Goto(p, "unclog")
    /\ UNCHANGED <<rev, cmds, dbg, chans, lrev, spawned, suspended, broken>>

Exec(p) ==
    /\ At(p, "lock") /\ ~exmut
    /\ ~IsCall(p) /\ ~IsLastOfKid(p) /\ ~AtEnd(p)
    /\ Advance(p)
    /\ Goto(p, "unclog")
    /\ UNCHANGED <<rev, cmds, dbg, chans, exmut, lrev, spawned, suspended, broken>>

\* The last block of a branch ends with a message on termproc.
ExecLast(p) ==
    /\ At(p, "lock") /\ ~exmut
    /\ IsLastOfKid(p)
    /\ exmut' = TRUE
    /\ Advance(p)
    /\ Goto(p, "block")
    /\ UNCHANGED <<rev, cmds, dbg, chans, lrev, spawned, suspended, broken>>

Release(p) ==
    /\ At(p, "block") /\ termproc < Cap
    /\ termproc' = termproc + 1
    /\ exmut' = FALSE
    /\ Goto(p, "unclog")
    /\ UNCHANGED <<rev, cmds, dbg, runever, runclose, dagupdate, newproc, local>>

\* A block past the end of the file: executeOnce reports EOF at the first line
\* and executeBlock returns at once, with the mutex locked.
ExecEof(p) ==
    /\ At(p, "lock") /\ ~exmut
    /\ AtEnd(p) /\ p = 0
    /\ exmut' = TRUE
    /\ Goto(p, "unclog")
    /\ UNCHANGED <<rev, cmds, dbg, chans, local>>

\* A branch that ended and was started again executes the procedure that comes
\* next in the file.
ExecAstray(p) ==
    /\ At(p, "lock") /\ ~exmut
    /\ AtEnd(p) /\ p # 0
    /\ broken' = "astray"
    /\ UNCHANGED <<rev, cmds, dbg, chans, exmut, gor, lrev, pc, spawned, suspended, chain>>

-----------------------------------------------------------------------------
(* call *)

\* Backwards the counter is decremented at the start of the block.
CallBegin(p) ==
    /\ At(p, "lock") /\ ~exmut
    /\ IsCall(p)
    /\ exmut' = TRUE
    /\ pc' = [pc EXCEPT ![p] = IF lrev[p] THEN @ - 1 ELSE @]
    /\ spawned' = 0
    /\ suspended' = FALSE
    /\ Goto(p, "spawn")
    /\ UNCHANGED <<rev, cmds, dbg, chans, lrev, chain, broken>>

\* Mutants of Spawn: one child too many, or the first child every time.
SpawnOneMore(p) ==
    /\ At(p, "spawn") /\ spawned <= N /\ newproc < Cap
    /\ newproc' = newproc + 1
    /\ spawned' = spawned + 1
    /\ gor' = [q \in Proc |-> IF q = spawned + 1 THEN "select" ELSE gor[q]]
    /\ UNCHANGED <<rev, cmds, dbg, runever, runclose, dagupdate, termproc, exmut,
                   lrev, pc, suspended, chain, broken>>

SpawnFirst(p) ==
    /\ At(p, "spawn") /\ spawned < N /\ newproc < Cap
    /\ newproc' = newproc + 1
    /\ spawned' = spawned + 1
    /\ Start(1)
    /\ UNCHANGED <<rev, cmds, dbg, runever, runclose, dagupdate, termproc, exmut,
                   lrev, pc, suspended, chain>>

\* addRunPCCall: the debugger is told of the child, and its goroutine starts.
Spawn(p) ==
    /\ At(p, "spawn") /\ spawned < N /\ newproc < Cap
    /\ newproc' = newproc + 1
    /\ spawned' = spawned + 1
    /\ Start(spawned + 1)
    /\ UNCHANGED <<rev, cmds, dbg, runever, runclose, dagupdate, termproc, exmut,
                   lrev, pc, suspended, chain>>

CallUnlock(p) ==
    /\ At(p, "spawn") /\ spawned = N
    /\ exmut' = FALSE
    /\ Goto(p, "call")
    /\ UNCHANGED <<rev, cmds, dbg, chans, local>>

\* wg.Wait returns when every child has.
Join(p) ==
    /\ At(p, "call") /\ \A q \in Kid : At(q, "none")
    /\ Goto(p, "relock")
    /\ UNCHANGED <<rev, cmds, dbg, chans, exmut, local>>

\* If a child was suspended, the call answers 3, of which executeOnce makes 0
\* without moving head, so that executeBlock executes the call again at once.
CallEnd(p) ==
    /\ At(p, "relock") /\ ~exmut
    /\ IF suspended
       THEN /\ exmut' = TRUE
            /\ spawned' = 0
            /\ suspended' = FALSE
            /\ Goto(p, "spawn")
            /\ UNCHANGED pc
       ELSE /\ pc' = [pc EXCEPT ![p] = IF lrev[p] THEN @ ELSE @ + 1]
            /\ Goto(p, "unclog")
            /\ UNCHANGED <<exmut, spawned, suspended>>
    /\ UNCHANGED <<rev, cmds, dbg, chans, lrev, chain, broken>>

-----------------------------------------------------------------------------
(* After a block *)

\* Mutant of Unclog: nothing is removed.
UnclogNothing(p) ==
    /\ At(p, "unclog")
    /\ Goto(p, "update")
    /\ UNCHANGED <<rev, cmds, dbg, chans, exmut, local>>

\* Unclog(r.dagupdate) receives until it finds the channel empty.
Unclog(p) ==
    /\ At(p, "unclog")
    /\ IF dagupdate > 0
       THEN dagupdate' = dagupdate - 1 /\ UNCHANGED gor
       ELSE Goto(p, "update") /\ UNCHANGED dagupdate
    /\ UNCHANGED <<rev, cmds, dbg, runever, runclose, newproc, termproc, exmut, local>>

\* Mutant of Update: the token is not sent.
UpdateNobody(p) ==
    /\ At(p, "update")
    /\ Goto(p, IF ~AtEnd(p) THEN "loop" ELSE IF p = 0 THEN "eofunclog" ELSE "term")
    /\ UNCHANGED <<rev, cmds, dbg, chans, exmut, local>>

Update(p) ==
    /\ At(p, "update") /\ dagupdate < Cap
    /\ dagupdate' = dagupdate + 1
    /\ Goto(p, IF ~AtEnd(p) THEN "loop" ELSE IF p = 0 THEN "eofunclog" ELSE "term")
    /\ UNCHANGED <<rev, cmds, dbg, runever, runclose, newproc, termproc, exmut, local>>

\* A branch returns 2.
Terminate(p) ==
    /\ At(p, "term") /\ termproc < Cap
    /\ termproc' = termproc + 1
    /\ Goto(p, "none")
    /\ UNCHANGED <<rev, cmds, dbg, runever, runclose, dagupdate, newproc, exmut, local>>

\* main closes the run and returns 1.
EofUnclog(p) ==
    /\ At(p, "eofunclog")
    /\ IF runclose > 0
       THEN runclose' = runclose - 1 /\ UNCHANGED gor
       ELSE Goto(p, "eof") /\ UNCHANGED runclose
    /\ UNCHANGED <<rev, cmds, dbg, runever, dagupdate, newproc, termproc, exmut, local>>

Eof(p) ==
    /\ At(p, "eof") /\ runclose < Cap
    /\ runclose' = runclose + 1
    /\ Goto(p, "none")
    /\ UNCHANGED <<rev, cmds, dbg, runever, dagupdate, newproc, termproc, exmut, local>>

GorStep(p) ==
    \/ TakeRun(p) \/ PassRun(p)
    \/ TakeClose(p) \/ PassClose(p)
    \/ Ask(p) \/ TakeUpdate(p) \/ PassUpdate(p)
    \/ Exec(p) \/ ExecLast(p) \/ Release(p) \/ ExecEof(p) \/ ExecAstray(p)
    \/ CallBegin(p) \/ Spawn(p) \/ CallUnlock(p) \/ Join(p) \/ CallEnd(p)
    \/ Unclog(p) \/ Update(p) \/ Terminate(p) \/ EofUnclog(p) \/ Eof(p)

-----------------------------------------------------------------------------
(* The debugger *)

AllGone == \A p \in Proc : At(p, "none")

\* Its two selects take what processes tell of their birth and death.
TakeNewproc ==
    /\ dbg \in {"running", "stopped"} /\ newproc > 0
    /\ newproc' = newproc - 1
    /\ UNCHANGED <<rev, cmds, dbg, runever, runclose, dagupdate, termproc, exmut, gor, local>>

TakeTermproc ==
    /\ dbg \in {"running", "stopped"} /\ termproc > 0
    /\ termproc' = termproc - 1
    /\ UNCHANGED <<rev, cmds, dbg, runever, runclose, dagupdate, newproc, exmut, gor, local>>

\* "Execution finished"
SeeClose ==
    /\ dbg = "running" /\ runclose > 0
    /\ runclose' = runclose - 1
    /\ dbg' = "again"
    /\ UNCHANGED <<rev, cmds, runever, dagupdate, newproc, termproc, exmut, gor, local>>

\* A token of runclose is sent: the one seen, or that of the user's stop.
SendClose ==
    /\ dbg \in {"again", "stop3"} /\ runclose < Cap
    /\ runclose' = runclose + 1
    /\ dbg' = "stopped"
    /\ UNCHANGED <<rev, cmds, runever, dagupdate, newproc, termproc, exmut, gor, local>>

\* Unclog(r.runclose), before the user's stop and before `run`.
UnclogClose ==
    /\ dbg \in {"stop1", "run1"}
    /\ IF runclose > 0
       THEN runclose' = runclose - 1 /\ UNCHANGED dbg
       ELSE dbg' = (IF dbg = "stop1" THEN "stop2" ELSE "run2") /\ UNCHANGED runclose
    /\ UNCHANGED <<rev, cmds, runever, dagupdate, newproc, termproc, exmut, gor, local>>

\* Mutant of UnclogEver: the old direction stays in the channel.
UnclogEverNot ==
    /\ dbg \in {"stop2", "run2"}
    /\ dbg' = (IF dbg = "stop2" THEN "stop3" ELSE "run3")
    /\ UNCHANGED <<rev, cmds, chans, exmut, gor, local>>

\* Unclog(r.runever), likewise.
UnclogEver ==
    /\ dbg \in {"stop2", "run2"}
    /\ IF runever # <<>>
       THEN runever' = Tail(runever) /\ UNCHANGED dbg
       ELSE dbg' = (IF dbg = "stop2" THEN "stop3" ELSE "run3") /\ UNCHANGED runever
    /\ UNCHANGED <<rev, cmds, runclose, dagupdate, newproc, termproc, exmut, gor, local>>

SendRun ==
    /\ dbg = "run3" /\ Len(runever) < Cap
    /\ runever' = Append(runever, rev)
    /\ dbg' = "run4"
    /\ UNCHANGED <<rev, cmds, runclose, dagupdate, newproc, termproc, exmut, gor, local>>

\* addrunPC(0, ...): the debugger sends on a channel that only it receives from.
RunMain ==
    /\ dbg = "run4" /\ newproc < Cap
    /\ newproc' = newproc + 1
    /\ dbg' = "running"
    /\ Start(0)
    /\ UNCHANGED <<rev, cmds, runever, runclose, dagupdate, termproc, exmut,
                   lrev, pc, spawned, suspended, chain>>

DbgStep ==
    \/ TakeNewproc \/ TakeTermproc
    \/ SeeClose \/ SendClose \/ UnclogClose
    \/ UnclogEver \/ SendRun \/ RunMain

-----------------------------------------------------------------------------
(* The user.  In an orderly session the user                               *)
(*   - types a command only when the processes have come to rest (else     *)
(*     "impatient"),                                                       *)
(*   - stops a run only when no call is under way or ahead ("stopInCall"), *)
(*   - does not run on past the end of the program ("rerun").              *)

CallLeft ==
    \/ gor[0] \in {"spawn", "call", "relock"}
    \/ IF rev THEN pc[0] > CallAt ELSE pc[0] <= CallAt

ProgramEnd == IF rev THEN pc[0] = 0 ELSE pc[0] = MainBlocks

Command ==
    /\ cmds < MaxCmds
    /\ cmds' = cmds + 1

\* Return while the program runs.
Stop ==
    /\ Command
    /\ dbg = "running"
    /\ "stopInCall" \notin Habits => ~CallLeft
    /\ dbg' = "stop1"
    /\ UNCHANGED <<rev, chans, exmut, gor, local>>

\* fwd or bwd, whichever changes the direction.
Turn ==
    /\ Command
    /\ dbg = "stopped"
    /\ "impatient" \notin Habits => AllGone
    /\ rev' = ~rev
    /\ UNCHANGED <<dbg, chans, exmut, gor, local>>

RunCmd ==
    /\ Command
    /\ dbg = "stopped"
    /\ "impatient" \notin Habits => AllGone
    /\ "rerun" \notin Habits => ~ProgramEnd
    /\ dbg' = "run1"
    /\ UNCHANGED <<rev, chans, exmut, gor, local>>

User == Stop \/ Turn \/ RunCmd

\* The user leaves the debugger alone.
Idle == dbg = "stopped" /\ AllGone /\ UNCHANGED vars

\* The model says nothing of what a broken session does next.
Broken == broken # "none" /\ UNCHANGED vars

-----------------------------------------------------------------------------

\* The debugger has started main and sent the direction.
Init ==
    /\ rev = FALSE
    /\ cmds = 0
    /\ dbg = "running"
    /\ runever = <<FALSE>>
    /\ runclose = 0 /\ dagupdate = 0 /\ termproc = 0
    /\ newproc = 1
    /\ exmut = FALSE
    /\ gor = [p \in Proc |-> IF p = 0 THEN "select" ELSE "none"]
    /\ lrev = [p \in Proc |-> FALSE]
    /\ pc = [p \in Proc |-> 0]
    /\ spawned = 0
    /\ suspended = FALSE
    /\ chain = <<>>
    /\ broken = "none"

System == broken = "none" /\ (DbgStep \/ \E p \in Proc : GorStep(p))

Next ==
    \/ System
    \/ broken = "none" /\ User
    \/ Idle
    \/ Broken

Spec == Init /\ [][Next]_vars

\* Every goroutine is scheduled; a goroutine that waits for the mutex gets it
\* although others compete for it.  Nothing is assumed of the user.
FairSpec ==
    /\ Spec
    /\ WF_vars(broken = "none" /\ DbgStep)
    /\ \A p \in Proc : SF_vars(broken = "none" /\ GorStep(p))

-----------------------------------------------------------------------------
(* The abstract specification: the blocks of the branches as its events *)

Causal == INSTANCE CausalExecution WITH
    Event <- Node,
    done  <- {n \in Node : Executed(n)},
    uses  <- {<<chain[i], chain[i - 1]>> : i \in 2..Len(chain)}

\* Though isRunnable is asked before the mutex is taken, and the waiting
\* processes learn of changes by tokens, blocks follow the causal order.
BlocksFollowCausalOrder == Causal!Spec

-----------------------------------------------------------------------------
(* What run control must guarantee *)

\* Every variable holds a value of its type; no channel exceeds its capacity.
TypeOK ==
    /\ rev \in BOOLEAN /\ exmut \in BOOLEAN /\ suspended \in BOOLEAN
    /\ cmds \in 0..MaxCmds
    /\ dbg \in DbgState
    /\ runever \in Seq(BOOLEAN) /\ Len(runever) <= Cap
    /\ runclose \in 0..Cap /\ dagupdate \in 0..Cap
    /\ newproc \in 0..Cap /\ termproc \in 0..Cap
    /\ gor \in [Proc -> GorState]
    /\ lrev \in [Proc -> BOOLEAN]
    /\ pc \in [Proc -> Int]
    /\ spawned \in 0..N
    /\ chain \in Seq(Node)
    /\ broken \in {"none", "twice", "astray"}

\* `run` revives main and main its children; no process has a goroutine already
\* when it is given one, so none is executed by two.
OneGoroutine == broken # "twice"

\* A goroutine goes in the direction that is set: the blocks it chooses by the
\* direction it was started with are annotated by the global one.
DirectionsAgree ==
    \A p \in Proc :
        gor[p] \notin {"none", "select", "closing"} => lrev[p] = rev

\* Whoever broadcasts on a channel finds room ("queued to not block caller").
BroadcastNeverBlocks ==
    /\ \A p \in Proc :
          /\ gor[p] \in {"update", "pass"} => dagupdate < Cap
          /\ gor[p] \in {"eof", "closing"} => runclose < Cap
          /\ At(p, "got") => Len(runever) < Cap
    /\ dbg \in {"again", "stop3"} => runclose < Cap
    /\ dbg = "run3" => Len(runever) < Cap

\* Goroutines that hold a token of a channel or are about to create one.
Holders(f, S) == {p \in Proc : f[p] \in S}
One(b)        == IF b THEN 1 ELSE 0

UpdateHands == Cardinality(Holders(gor, {"pass", "update"}))
CloseHands  == Cardinality(Holders(gor, {"closing", "eof"}))
RunHands    == Cardinality(Holders(gor, {"got"}))

\* A channel is emptied before somebody adds a token to it, and whoever takes a
\* token puts it back: whatever the user does, the tokens of a channel and of
\* those who hold one are not more than there are goroutines.
TokensCounted ==
    /\ dagupdate + UpdateHands <= N + 1
    /\ runclose + CloseHands + One(dbg \in {"again", "stop2", "stop3"}) <= N + 2
    /\ Len(runever) + RunHands + One(dbg = "run3") <= N + 2

\* When all goroutines are gone, nobody has left the mutex locked.
MutexFreeAtRest == AllGone => ~exmut

\* A process that is stuck waiting has reason to: if everybody that is left
\* waits for dagupdate, there is a token.
WakeupPending ==
    (\E p \in Proc : At(p, "wait")) =>
        \/ dagupdate > 0
        \/ \E p \in Proc : gor[p] \notin {"none", "wait", "call"}
        \/ runclose > 0

\* A run ends, forwards and backwards.
EveryRunEnds == (dbg = "running") ~> (dbg = "stopped")

\* A stop ends all processes.
EveryStopEnds == (dbg = "stop3") ~> AllGone

=============================================================================
