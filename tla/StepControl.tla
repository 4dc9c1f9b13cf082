---------------------------- MODULE StepControl ----------------------------
(***************************************************************************)
(* One step of the focused process: the step mode of debug in              *)
(* src/runtime/runtime.go and the request runonce of execute in pc.go.     *)
(*                                                                         *)
(* The debugger executes a block of the focused process itself, in a       *)
(* goroutine of its own.  If that is a call, or if the DAG does not allow  *)
(* it yet, one of the other processes is asked to execute a block: the     *)
(* request runonce is taken by any of them, which executes its block and   *)
(* answers on rundone, or hands the request on and waits for rundoner.     *)
(*                                                                         *)
(* The debugger's goroutine of an earlier block may still have its result  *)
(* to send, and a request may be left in runonce, when the next ones come. *)
(*                                                                         *)
(* The program is like that of RunControl, with any number of calls: block *)
(* CalledAt[q] of main calls branch q, and the blocks of all branches      *)
(* update one variable and therefore form a chain in the DAG.  The session *)
(* begins where nobody runs: at the start of the program, or at its end    *)
(* after `bwd`.  The user types a command when the processes have come to  *)
(* rest.                                                                   *)
(***************************************************************************)
EXTENDS Integers, Sequences, FiniteSets

CONSTANTS
    N,          \* the branches are 1..N
    MainBlocks, \* blocks of main
    CalledAt,   \* the blocks of main that call the branches
    KidBlocks,  \* blocks of each branch
    MaxCmds,    \* bound on the user's commands
    FocusOn,    \* the branches that the user focuses on; he does not come back to main
    Turning     \* the user also turns, outside of calls

ASSUME StepAssumption ==
    /\ N \in Nat \ {0}
    /\ MainBlocks \in Nat
    /\ CalledAt \in [1..N -> 1..(MainBlocks - 2)]
    /\ KidBlocks \in [1..N -> Nat \ {0}]
    /\ MaxCmds \in Nat
    /\ FocusOn \subseteq 1..N
    /\ Turning \in BOOLEAN

Kid  == 1..N
Proc == 0..N
Node == UNION {{q} \X (0..(KidBlocks[q] - 1)) : q \in Kid}

(* The goroutines: a process has its own, in which execute runs.  The      *)
(* debugger starts one for each block of the focused process: Step(p) is   *)
(* the one that is in a block of p.  Those before the mutex and those that *)
(* have a result to return are only counted.                               *)
Own(p)  == <<"own", p>>
Step(p) == <<"step", p>>
Goroutine == {"own", "step"} \X Proc

VARIABLES
    rev,       \* the global rev
    cmds,      \* commands given so far
    dbg,       \* where the debugger is
    target,    \* focus_tgt
    focus,     \* focus_now
    runonce,   \* the request, a sequence of at most one direction
    rundone,   \* whether there is a token
    rundoner,  \* likewise
    stepexret, \* likewise
    waiting,   \* how many goroutines of the debugger are before the mutex, by process
    returning, \* how many have a result to send on stepexret
    newproc,   \* pids
    termproc,  \* pids
    exmut,     \* the mutex is locked
    gor,       \* where a goroutine is
    lrev,      \* the direction it executes
    pc,        \* the counter pc.pc
    spawned,   \* children that the last `call` has started
    chain,     \* the blocks of branches in the order of their first execution
    broken     \* what went wrong with a goroutine; the model ends there

debugger == <<rev, cmds, dbg, target, focus>>
requests == <<runonce, rundone, rundoner>>
steppers == <<stepexret, waiting, returning>>
births   == <<newproc, termproc>>
program  == <<pc, spawned, chain>>
vars == <<debugger, requests, steppers, births, exmut, gor, lrev, program, broken>>

-----------------------------------------------------------------------------
(* Processes *)

Blocks(p) == IF p = 0 THEN MainBlocks ELSE KidBlocks[p]

Executed(n) == n[2] < pc[n[1]]

NextBlock(p, r) == <<p, IF r THEN pc[p] - 1 ELSE pc[p]>>

\* Mutant of IsRunnable: backwards the counter is not looked at.
IsRunnableAnyUndo(p, r) ==
    IF r THEN pc[p] > 0
    ELSE \A i \in 2..Len(chain) : chain[i] = NextBlock(p, r) => Executed(chain[i - 1])

\* isRunnable on a DAG that is one chain.
IsRunnable(p, r) ==
    IF r THEN /\ pc[p] > 0
              /\ \A i \in 2..Len(chain) : chain[i - 1] = NextBlock(p, r) => ~Executed(chain[i])
    ELSE \A i \in 2..Len(chain) : chain[i] = NextBlock(p, r) => Executed(chain[i - 1])

AtEnd(p, r) == IF r THEN pc[p] = 0 ELSE pc[p] = Blocks(p)

Called(b) == {q \in Kid : CalledAt[q] = b}

IsCall(p, r) == p = 0 /\ Called(NextBlock(p, r)[2]) # {}

IsLastOfKid(p, r) == p # 0 /\ NextBlock(p, r)[2] = (IF r THEN 0 ELSE KidBlocks[p] - 1)

At(g, s)   == gor[g] = s
Goto(g, s) == gor' = [gor EXCEPT ![g] = s]

\* The flag p.executing; a block that is one step is never seen half done.
Executing(p) == \E g \in Goroutine : g[2] = p /\ gor[g] \in {"block", "spawn", "call", "relock"}

-----------------------------------------------------------------------------
(* A goroutine of a process waits for a request.                           *)

\* Mutant of TakeOnce: the request stays in the channel.
TakeOnceKeeps(p) ==
    /\ At(Own(p), "select") /\ runonce # <<>>
    /\ lrev' = [lrev EXCEPT ![Own(p)] = Head(runonce)]
    /\ Goto(Own(p), "got")
    /\ UNCHANGED <<debugger, requests, steppers, births, exmut, program, broken>>

TakeOnce(p) ==
    /\ At(Own(p), "select") /\ runonce # <<>>
    /\ lrev' = [lrev EXCEPT ![Own(p)] = Head(runonce)]
    /\ runonce' = <<>>
    /\ Goto(Own(p), "got")
    /\ UNCHANGED <<debugger, rundone, rundoner, steppers, births, exmut, program, broken>>

\* isRunnable is asked without the mutex.
Ask(p) ==
    /\ At(Own(p), "got")
    /\ Goto(Own(p), IF IsRunnable(p, lrev[Own(p)]) /\ ~Executing(p) THEN "lock" ELSE "pass")
    /\ UNCHANGED <<debugger, requests, steppers, births, exmut, lrev, program, broken>>

PassOnce(p) ==
    /\ At(Own(p), "pass") /\ runonce = <<>>
    /\ runonce' = <<lrev[Own(p)]>>
    /\ Goto(Own(p), "wait")
    /\ UNCHANGED <<debugger, rundone, rundoner, steppers, births, exmut, lrev, program, broken>>

TakeDoner(p) ==
    /\ At(Own(p), "wait") /\ rundoner
    /\ rundoner' = FALSE
    /\ Goto(Own(p), "back")
    /\ UNCHANGED <<debugger, runonce, rundone, steppers, births, exmut, lrev, program, broken>>

PassDoner(p) ==
    /\ At(Own(p), "back") /\ ~rundoner
    /\ rundoner' = TRUE
    /\ Goto(Own(p), "select")
    /\ UNCHANGED <<debugger, runonce, rundone, steppers, births, exmut, lrev, program, broken>>

\* Mutant of Done: a branch that ends does not tell the debugger.
DoneUnlessEnd(p) ==
    /\ At(Own(p), "done") /\ ~rundone
    /\ rundone' = ~AtEnd(p, lrev[Own(p)])
    /\ Goto(Own(p), IF AtEnd(p, lrev[Own(p)]) THEN "none" ELSE "select")
    /\ UNCHANGED <<debugger, runonce, rundoner, steppers, births, exmut, lrev, program, broken>>

\* The block is done: rundone, and the end of a branch returns 2.
Done(p) ==
    /\ At(Own(p), "done") /\ ~rundone
    /\ rundone' = TRUE
    /\ Goto(Own(p), IF AtEnd(p, lrev[Own(p)]) THEN "none" ELSE "select")
    /\ UNCHANGED <<debugger, runonce, rundoner, steppers, births, exmut, lrev, program, broken>>

-----------------------------------------------------------------------------
(* executeBlock, in either kind of goroutine *)

\* The goroutine gets the mutex, and the process is in no other block.
Lock(g) ==
    /\ ~exmut
    /\ IF g[1] = "own"
       THEN At(g, "lock") /\ UNCHANGED waiting
       ELSE /\ At(g, "none") /\ waiting[g[2]] > 0
            /\ waiting' = [waiting EXCEPT ![g[2]] = @ - 1]

\* After the block a process answers, the debugger's goroutine returns.
After(g) ==
    /\ Goto(g, IF g[1] = "own" THEN "done" ELSE "none")
    /\ returning' = IF g[1] = "own" THEN returning ELSE returning + 1
    /\ UNCHANGED <<requests, stepexret>>

Advance(p, r) ==
    LET n == NextBlock(p, r)
    IN  /\ pc' = [pc EXCEPT ![p] = IF r THEN @ - 1 ELSE @ + 1]
        /\ chain' = IF p = 0 \/ r \/ \E i \in DOMAIN chain : chain[i] = n
                    THEN chain ELSE Append(chain, n)

Exec(g) ==
    LET p == g[2]
        r == lrev[g]
    IN  /\ Lock(g)
        /\ ~IsCall(p, r) /\ ~IsLastOfKid(p, r) /\ ~AtEnd(p, r)
        /\ Advance(p, r)
        /\ After(g)
        /\ UNCHANGED <<debugger, births, exmut, lrev, spawned, broken>>

\* The last block of a branch tells the debugger of the end.
ExecLast(g) ==
    LET p == g[2]
        r == lrev[g]
    IN  /\ Lock(g)
        /\ IsLastOfKid(p, r) /\ ~AtEnd(p, r)
        /\ Advance(p, r)
        /\ exmut' = TRUE
        /\ Goto(g, "block")
        /\ UNCHANGED <<debugger, requests, stepexret, returning, births,
                       lrev, spawned, broken>>

Release(g) ==
    /\ At(g, "block")
    /\ termproc' = termproc \cup {g[2]}
    /\ exmut' = FALSE
    /\ After(g)
    /\ UNCHANGED <<debugger, waiting, newproc, lrev, program, broken>>

\* A process that is asked beyond its end executes the next procedure in the
\* file, or returns with the mutex locked where there is none.
ExecAstray(g) ==
    /\ Lock(g)
    /\ AtEnd(g[2], lrev[g])
    /\ broken' = "astray"
    /\ UNCHANGED <<debugger, requests, stepexret, returning, births, exmut,
                   gor, lrev, program>>

\* A goroutine of the debugger gets the mutex that the call of another one has
\* given up, and executes lines from the middle of the call on.
ExecOverlap(g) ==
    /\ ~exmut /\ gor[g] \in {"call", "relock"} /\ waiting[g[2]] > 0
    /\ broken' = "overlap"
    /\ UNCHANGED <<debugger, requests, steppers, births, exmut, gor, lrev, program>>

\* call
CallBegin(g) ==
    LET r == lrev[g]
    IN  /\ Lock(g)
        /\ IsCall(g[2], r)
        /\ exmut' = TRUE
        /\ pc' = [pc EXCEPT ![0] = IF r THEN @ - 1 ELSE @]
        /\ spawned' = {}
        /\ Goto(g, "spawn")
        /\ UNCHANGED <<debugger, requests, stepexret, returning, births,
                       lrev, chain, broken>>

\* The children are started in the order of their pids.
Spawn(g) ==
    \E q \in Called(pc[0]) \ spawned :
        /\ At(g, "spawn") /\ \A o \in Called(pc[0]) \ spawned : q <= o
        /\ spawned' = spawned \cup {q}
        /\ newproc' = newproc \cup {q}
        /\ Goto(Own(q), "select")
        /\ broken' = IF At(Own(q), "none") THEN broken ELSE "twice"
        /\ UNCHANGED <<debugger, requests, steppers, termproc, exmut, lrev, pc, chain>>

CallUnlock(g) ==
    /\ At(g, "spawn") /\ spawned = Called(pc[0])
    /\ exmut' = FALSE
    /\ Goto(g, "call")
    /\ UNCHANGED <<debugger, requests, steppers, births, lrev, program, broken>>

\* Mutant of Join: the call waits for the first of its children only.
JoinFirst(g) ==
    /\ At(g, "call") /\ \E q \in spawned : At(Own(q), "none")
    /\ Goto(g, "relock")
    /\ UNCHANGED <<debugger, requests, steppers, births, exmut, lrev, program, broken>>

Join(g) ==
    /\ At(g, "call") /\ \A q \in spawned : At(Own(q), "none")
    /\ Goto(g, "relock")
    /\ UNCHANGED <<debugger, requests, steppers, births, exmut, lrev, program, broken>>

CallEnd(g) ==
    /\ At(g, "relock") /\ ~exmut
    /\ pc' = [pc EXCEPT ![0] = IF lrev[g] THEN @ ELSE @ + 1]
    /\ After(g)
    /\ UNCHANGED <<debugger, waiting, births, exmut, lrev, spawned, chain, broken>>

ExecuteBlock(g) ==
    \/ Exec(g) \/ ExecLast(g) \/ Release(g) \/ ExecAstray(g) \/ ExecOverlap(g)
    \/ CallBegin(g) \/ Spawn(g) \/ CallUnlock(g) \/ Join(g) \/ CallEnd(g)

ProcStep(p) ==
    \/ TakeOnce(p) \/ Ask(p) \/ PassOnce(p) \/ TakeDoner(p) \/ PassDoner(p) \/ Done(p)
    \/ ExecuteBlock(Own(p))

\* A goroutine of the debugger returns its result.
Return ==
    /\ returning > 0 /\ ~stepexret
    /\ stepexret' = TRUE
    /\ returning' = returning - 1
    /\ UNCHANGED <<debugger, requests, waiting, births, exmut, gor, lrev,
                   program, broken>>

StepperStep(p) == ExecuteBlock(Step(p))

-----------------------------------------------------------------------------
(* The debugger in its step mode (running = 2) *)

\* rundone is emptied, and its token starts the round.
UnclogDone ==
    /\ dbg = "begin"
    /\ rundone' = FALSE
    /\ dbg' = IF rundone THEN "begin" ELSE "start"
    /\ UNCHANGED <<rev, cmds, target, focus, runonce, rundoner, steppers, births,
                   exmut, gor, lrev, program, broken>>

SendDone ==
    /\ dbg = "start" /\ ~rundone
    /\ rundone' = TRUE
    /\ dbg' = "stepping"
    /\ UNCHANGED <<rev, cmds, target, focus, runonce, rundoner, steppers, births,
                   exmut, gor, lrev, program, broken>>

TakeDone ==
    /\ dbg = "stepping" /\ rundone
    /\ rundone' = FALSE
    /\ dbg' = "unclog"
    /\ UNCHANGED <<rev, cmds, target, focus, runonce, rundoner, steppers, births,
                   exmut, gor, lrev, program, broken>>

UnclogDoner ==
    /\ dbg = "unclog"
    /\ rundoner' = FALSE
    /\ dbg' = IF rundoner THEN "unclog" ELSE "doner"
    /\ UNCHANGED <<rev, cmds, target, focus, runonce, rundone, steppers, births,
                   exmut, gor, lrev, program, broken>>

\* This send waits for room, which need not come.
SendDoner ==
    /\ dbg = "doner" /\ ~rundoner
    /\ rundoner' = TRUE
    /\ dbg' = "look"
    /\ UNCHANGED <<rev, cmds, target, focus, runonce, rundone, steppers, births,
                   exmut, gor, lrev, program, broken>>

\* Can the focused process go on?  A goroutine for it is started, whether or not
\* an earlier one has got the mutex or returned.
Look ==
    /\ dbg = "look"
    /\ IF IsRunnable(focus, rev) /\ ~Executing(focus)
       THEN /\ stepexret' = FALSE
            /\ waiting' = [waiting EXCEPT ![focus] = @ + 1]
            /\ lrev' = [lrev EXCEPT ![Step(focus)] = rev]
            /\ dbg' = "inner"
       ELSE dbg' = "ask" /\ UNCHANGED <<stepexret, waiting, lrev>>
    /\ UNCHANGED <<rev, cmds, target, focus, requests, returning, births,
                   exmut, gor, program, broken>>

\* The end of the step, in either select.
TakeReturn ==
    /\ dbg \in {"stepping", "inner"} /\ stepexret
    /\ stepexret' = FALSE
    /\ dbg' = "stopped"
    /\ UNCHANGED <<rev, cmds, target, focus, requests, waiting, returning, births,
                   exmut, gor, lrev, program, broken>>

\* A child is born first: the step is a call.  The message is sent again.
SeeChild ==
    /\ dbg = "inner" /\ newproc # {}
    /\ dbg' = "ask"
    /\ UNCHANGED <<rev, cmds, target, focus, requests, steppers, births, exmut, gor, lrev, program, broken>>

UnclogOnce ==
    /\ dbg = "ask"
    /\ runonce' = <<>>
    /\ dbg' = IF runonce # <<>> THEN "ask" ELSE "send"
    /\ UNCHANGED <<rev, cmds, target, focus, rundone, rundoner, steppers, births,
                   exmut, gor, lrev, program, broken>>

SendOnce ==
    /\ dbg = "send" /\ runonce = <<>>
    /\ runonce' = <<rev>>
    /\ dbg' = "stepping"
    /\ UNCHANGED <<rev, cmds, target, focus, rundone, rundoner, steppers, births,
                   exmut, gor, lrev, program, broken>>

\* The focus follows births and deaths.
TakeNewproc(p) ==
    /\ dbg \in {"stepping", "stopped"} /\ p \in newproc
    /\ newproc' = newproc \ {p}
    /\ focus' = IF p = target THEN p ELSE focus
    /\ UNCHANGED <<rev, cmds, dbg, target, requests, steppers, termproc, exmut, gor, lrev, program, broken>>

TakeTermproc(p) ==
    /\ dbg \in {"stepping", "stopped"} /\ p \in termproc
    /\ termproc' = termproc \ {p}
    /\ focus' = IF p = focus THEN 0 ELSE focus
    /\ UNCHANGED <<rev, cmds, dbg, target, requests, steppers, newproc, exmut, gor, lrev, program, broken>>

DbgStep ==
    \/ UnclogDone \/ SendDone \/ TakeDone \/ UnclogDoner \/ SendDoner
    \/ Look \/ TakeReturn \/ SeeChild \/ UnclogOnce \/ SendOnce
    \/ \E p \in Proc : TakeNewproc(p) \/ TakeTermproc(p)

-----------------------------------------------------------------------------
(* The user *)

Command ==
    /\ cmds < MaxCmds
    /\ cmds' = cmds + 1
    /\ dbg = "stopped"

NoneWaits == \A p \in Proc : waiting[p] = 0

\* Nobody goes on by himself.  Main may be in a call that the last step has
\* begun, and a branch may still wait for a token of rundoner or for room to put
\* it back; the model ends where one is left waiting for room in runonce.
Settled ==
    /\ NoneWaits
    /\ \A g \in Goroutine : \/ gor[g] \in {"none", "call"}
                            \/ At(g, "select") /\ runonce = <<>>
                            \/ At(g, "wait") /\ ~rundoner
                            \/ At(g, "back") /\ rundoner

\* Return, but not at the end of the program.
StepCmd ==
    /\ Command /\ Settled
    /\ ~AtEnd(0, rev)
    /\ dbg' = "begin"
    /\ UNCHANGED <<rev, target, focus, requests, steppers, births, exmut, gor, lrev, program, broken>>

FocusCmd(p) ==
    /\ Command
    /\ p # target
    /\ target' = p
    /\ UNCHANGED <<rev, dbg, focus, requests, steppers, births, exmut, gor, lrev, program, broken>>

\* fwd or bwd, whichever changes the direction.
Turn ==
    /\ Command /\ Turning /\ NoneWaits
    /\ \A g \in Goroutine : At(g, "none")
    /\ rev' = ~rev
    /\ UNCHANGED <<dbg, target, focus, requests, steppers, births, exmut, gor, lrev, program, broken>>

User == StepCmd \/ Turn \/ \E p \in FocusOn : FocusCmd(p)

Idle == dbg = "stopped" /\ UNCHANGED vars

\* The model says nothing of what a broken session does next.
Broken == broken # "none" /\ UNCHANGED vars

(* The orders in which the blocks of the branches may have been executed.  *)
Orders ==
    {o \in [1..Cardinality(Node) -> Node] :
        \A i, j \in DOMAIN o : i < j =>
            /\ CalledAt[o[i][1]] <= CalledAt[o[j][1]]
            /\ o[i] # o[j] /\ (o[i][1] = o[j][1] => o[i][2] < o[j][2])}

Init ==
    /\ rev \in BOOLEAN
    /\ cmds = 0
    /\ dbg = "stopped"
    /\ target = 0 /\ focus = 0
    /\ runonce = <<>>
    /\ rundone = FALSE /\ rundoner = FALSE /\ stepexret = FALSE
    /\ waiting = [p \in Proc |-> 0] /\ returning = 0
    /\ newproc = {} /\ termproc = {}
    /\ exmut = FALSE
    /\ gor = [g \in Goroutine |-> "none"]
    /\ lrev = [g \in Goroutine |-> FALSE]
    /\ pc = [p \in Proc |-> IF rev THEN Blocks(p) ELSE 0]
    /\ spawned = {}
    /\ chain \in IF rev THEN Orders ELSE Orders \cup {<<>>}
    /\ broken = "none"

System ==
    broken = "none" /\ (DbgStep \/ Return \/ \E p \in Proc : ProcStep(p) \/ StepperStep(p))

Next ==
    \/ System
    \/ broken = "none" /\ User
    \/ Idle
    \/ Broken

Spec == Init /\ [][Next]_vars

\* Every goroutine is scheduled, and a process that is ready for a request again
\* and again gets one: a channel serves those who wait for it in turn, and the
\* mutex too.
FairSpec ==
    /\ Spec
    /\ WF_vars(broken = "none" /\ DbgStep)
    /\ WF_vars(broken = "none" /\ Return)
    /\ WF_vars(broken = "none" /\ \E p \in Proc : StepperStep(p))
    /\ \A p \in Kid : SF_vars(broken = "none" /\ ProcStep(p))

-----------------------------------------------------------------------------
\* A request is in a channel, with a process that has taken it or has an
\* answer to give, or with the debugger.
Requests ==
    Len(runonce) + (IF rundone THEN 1 ELSE 0)
    + Cardinality({p \in Proc : gor[Own(p)] \in {"got", "pass", "lock", "block", "done"}})
    + (IF dbg \in {"start", "unclog", "doner", "look", "inner", "ask", "send"} THEN 1 ELSE 0)

\* At most two requests are under way, however many calls and branches there
\* are: that of the step, and one that an earlier step has left in runonce
\* (runtime.go:217) and that the branches of a later call take.  They multiply
\* no further, although each branch may hand one on, and although the debugger
\* sends another when a child is born (pc.go:62 and runtime.go:208).
TwoRequests == Requests <= 2

\* Where the focus has always been on main, no branch stops half way: unless
\* main is in a call, every branch has gone through all of its blocks if main
\* is past the call, and through none if main is before it.  A branch that is
\* asked for one block too many by a request left behind, or not waited for,
\* violates it (pc.go:46 and runtime.go:598).
BranchesWhole ==
    target = 0 /\ At(Step(0), "none") =>
        \A q \in Kid : /\ At(Own(q), "none")
                       /\ pc[q] = IF CalledAt[q] < pc[0] THEN KidBlocks[q] ELSE 0

Causal == INSTANCE CausalExecution WITH
    Event <- Node,
    done  <- {n \in Node : Executed(n)},
    uses  <- {<<chain[i], chain[i - 1]>> : i \in 2..Len(chain)}

\* Stepping with the focus on main executes and undoes blocks in the order that
\* the DAG allows, whichever process takes the request (pc.go:46).
StepsFollowCausalOrder == [][target = 0 => Causal!Next]_Causal!vars

\* Stepping follows the causal order wherever the focus is, as runtime.go:109
\* has it: "if any of the connected node is inactive, it cannot run".
EveryStepIsCausal == [][Causal!Next]_Causal!vars

\* Somebody waits for room in a channel that only he would make: rundoner has
\* been filled again before a process could put its token back, or runonce
\* before it could hand its request on.
Clogged ==
    \/ rundoner /\ (dbg = "doner" \/ \E p \in Proc : At(Own(p), "back"))
    \/ runonce # <<>> /\ \E p \in Proc : At(Own(p), "pass")

\* A step with the focus on main ends, unless it takes main past its end or
\* executes it twice at once (runtime.go:190 to 201), or somebody waits for room
\* in rundoner or runonce for ever, although runtime.go:114 says that "all
\* channels that broadcast will be queued to not block caller".  Nothing else
\* makes it hang: no request is lost, no branch is forgotten, and a stale token
\* lets nobody spin for ever (pc.go:61-65).
OnlyTheRaceBlocks ==
    (dbg = "begin" /\ target = 0) ~> (dbg = "stopped" \/ broken # "none" \/ (Clogged /\ ~ENABLED System))

=============================================================================
