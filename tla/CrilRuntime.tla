---------------------------- MODULE CrilRuntime ----------------------------
(***************************************************************************)
(* The reversible execution of a CRIL program: the processes (execute in   *)
(* its run mode, executeBlock and executeOnce in src/runtime/pc.go), the   *)
(* instructions (initInstset in src/runtime/runtime.go) and the annotation *)
(* DAG, which decides who may take its next block, forwards or backwards.  *)
(*                                                                         *)
(* The mutex exmut is held from the start of a block to its end, so a      *)
(* block is one action, except where the code gives the mutex up: `call`   *)
(* waits for its children, V and P wait for the semaphore.  The question   *)
(* isRunnable is asked BEFORE the mutex is taken and never again under it, *)
(* so it is an action of its own (Check) and any other process may run     *)
(* between the question and the block.                                     *)
(*                                                                         *)
(* Programs are straight-line: a process executes blocks 0, 1, 2, ... of   *)
(* its procedure, and every jump that ends a block leads to the next one,  *)
(* as the labels do that the loader inserts between instructions.          *)
(*                                                                         *)
(* The user is modelled where the debugger's session is orderly: execution *)
(* is suspended only while main is the only process and is between blocks, *)
(* or has finished, and resumed in the opposite direction.                 *)
(***************************************************************************)
EXTENDS AnnotationDag

CONSTANTS
    ProcName,  \* names of procedures and par branches
    Main,      \* the procedure process 0 runs
    Code,      \* Code[name]: the blocks of a procedure, one instruction each
    NoVar,     \* an operand that is absent
    NoProc,    \* the procedure of a process that was not created
    MaxTurns   \* bound on the user's changes of direction

VARIABLES
    rev,       \* the global rev set by the debugger: TRUE = backwards
    turns,     \* how often the direction was changed
    npcs,      \* len(r.pcs)
    proc,      \* the procedure of a process (where pc.head starts), fixed when created
    pc,        \* the counter pc.pc: blocks executed and not undone
    status,    \* what the goroutine of a process is doing
    mem,       \* store and DAG, see AnnotationDag
    waitq,     \* per semaphore the goroutines in its sync.Cond, oldest first
    callpids   \* dag.callpids: node of a call -> pids of its children

vars == <<rev, turns, npcs, proc, pc, status, mem, waitq, callpids>>

-----------------------------------------------------------------------------
(* Instructions *)

Op == {"skip", "print", "+=", "-=", "<=>", "V", "P", "call"}

Instr == [op : Op, dst : Var \cup {NoVar}, src : Var \cup {NoVar},
          k : Int, names : Seq(ProcName)]

WellFormed(i) ==
    /\ i.op \in {"print", "+=", "-=", "<=>", "V", "P"} => i.dst \in Var
    /\ i.op = "<=>" => i.src \in Var
    /\ i.op = "call" => i.names # <<>>

ASSUME CodeAssumption ==
    /\ NoVar \notin Var
    /\ NoProc \notin ProcName
    /\ Main \in ProcName
    /\ Code \in [ProcName -> Seq(Instr)]
    /\ \A f \in ProcName :
          /\ Len(Code[f]) \in 1..MaxPc
          /\ \A b \in 1..Len(Code[f]) : WellFormed(Code[f][b])
    /\ Code[Main][1].op = "skip"  \* `indent`, with which a procedure begins

ASSUME TurnsAssumption == MaxTurns \in Nat

\* Values of the variables of an instruction and of the constant part of its
\* expression.
ExprValue(m, i) == (IF i.src = NoVar THEN 0 ELSE m.val[i.src]) + i.k

\* x += e and x -= e: the expression is evaluated, then x is read and written.
ExecAssign(m, i, n) ==
    LET m1 == IF i.src = NoVar THEN m ELSE ReadAddr(m, i.src, rev, n)
        m2 == ReadAddr(m1, i.dst, rev, n)
        v  == IF (i.op = "+=") = (~rev)
              THEN m.val[i.dst] + ExprValue(m, i)
              ELSE m.val[i.dst] - ExprValue(m, i)
    IN  WriteAddr(m2, i.dst, v, rev, n)

\* x <=> y
ExecSwap(m, i, n) ==
    LET m1 == ReadAddr(m, i.dst, rev, n)
        m2 == ReadAddr(m1, i.src, rev, n)
        m3 == WriteAddr(m2, i.dst, m.val[i.src], rev, n)
    IN  WriteAddr(m3, i.src, m.val[i.dst], rev, n)

\* The instructions that run to their end under the mutex.
ExecPlain(m, i, n) ==
    CASE i.op = "skip"         -> m
      [] i.op = "print"        -> ReadAddr(m, i.dst, rev, n)
      [] i.op \in {"+=", "-="} -> ExecAssign(m, i, n)
      [] i.op = "<=>"          -> ExecSwap(m, i, n)

\* V goes from 0 to 1 and P from 1 to 0; backwards each is the other.
SemFrom(i) == IF (i.op = "V") = (~rev) THEN 0 ELSE 1
SemTo(i)   == 1 - SemFrom(i)

\* Mutant of SemFree: a process that was woken takes the semaphore unseen.
SemFreeOnceWoken(p, i) == mem.val[i.dst] = SemFrom(i) \/ status[p] = "woken"

\* The loop around WaitSem looks at the value again whenever p is woken.
SemFree(p, i) == mem.val[i.dst] = SemFrom(i)

\* Signal wakes the goroutine that has waited longest.
NotifySem(x) == IF waitq[x] = <<>> THEN {} ELSE {Head(waitq[x])}

-----------------------------------------------------------------------------
(* Processes *)

Status == {"none", "run", "ready", "wait", "woken", "call", "done"}

\* getPC finds a process once it was created; it is never removed.
Created(p) == p < npcs

\* In the middle of a block that has given up the mutex.
Inside(p) == status[p] \in {"wait", "woken", "call"}

\* The node a process is executing or about to execute.  Backwards, pc is
\* decremented when the block starts.
CurrentNode(p) ==
    <<p, IF rev /\ status[p] \in {"run", "ready"} THEN pc[p] - 1 ELSE pc[p]>>

CurrentInstr(p) == Code[proc[p]][CurrentNode(p)[2] + 1]

\* Mutants of IsRunnable: backwards it does not look at the counter; forwards
\* it does not look at the edges.
IsRunnableAnyUndo(p) ==
    IF rev
    THEN pc[p] > 0
    ELSE LET in == mem.inc[<<p, pc[p]>>]
         IN  \A i \in DOMAIN in :
                in[i].src # Bot /\ Created(in[i].src[1])
                    => in[i].src[2] < pc[in[i].src[1]]

IsRunnableAnyReplay(p) == rev => pc[p] > 0 /\ mem.ctr[<<p, pc[p] - 1>>] = 0

\* isRunnable.  Backwards: no other node uses what the last block produced.
\* Forwards: every node a recorded edge comes from has been executed again.
IsRunnable(p) ==
    IF rev
    THEN pc[p] > 0 /\ mem.ctr[<<p, pc[p] - 1>>] = 0
    ELSE LET in == mem.inc[<<p, pc[p]>>]
         IN  \A i \in DOMAIN in :
                in[i].src # Bot /\ Created(in[i].src[1])
                    => in[i].src[2] < pc[in[i].src[1]]

\* The end of a block: backwards the DAG counters are given back, forwards pc
\* grows.  A process that reached the end (the start) of its procedure returns.
AfterBlock(n) ==
    IF rev THEN IF n[2] = 0 THEN "done" ELSE "run"
           ELSE IF n[2] + 1 = Len(Code[proc[n[1]]]) THEN "done" ELSE "run"

FinishBlock(m, n) ==
    /\ mem' = IF rev THEN RunModifyDagRev(m, n) ELSE m
    /\ pc' = [pc EXCEPT ![n[1]] = IF rev THEN n[2] ELSE n[2] + 1]

-----------------------------------------------------------------------------
(* Actions of a process *)

Check(p) ==
    /\ status[p] = "run"
    /\ IsRunnable(p)
    /\ status' = [status EXCEPT ![p] = "ready"]
    /\ UNCHANGED <<rev, turns, npcs, proc, pc, mem, waitq, callpids>>

Exec(p) ==
    LET n == CurrentNode(p)
    IN  /\ status[p] = "ready"
        /\ CurrentInstr(p).op \notin {"V", "P", "call"}
        /\ FinishBlock(ExecPlain(mem, CurrentInstr(p), n), n)
        /\ status' = [status EXCEPT ![p] = AfterBlock(n)]
        /\ UNCHANGED <<rev, turns, npcs, proc, waitq, callpids>>

\* V and P when the semaphore has the value they need: it is flipped and the
\* oldest waiter of the condition variable, whatever it waits for, is signalled.
SemTake(p) ==
    LET n == CurrentNode(p)
        i == CurrentInstr(p)
        m == WriteAddr(ReadAddr(mem, i.dst, rev, n), i.dst, SemTo(i), rev, n)
    IN  /\ status[p] \in {"ready", "woken"}
        /\ i.op \in {"V", "P"}
        /\ SemFree(p, i)
        /\ FinishBlock(m, n)
        /\ status' = [q \in Pid |-> IF q = p THEN AfterBlock(n)
                                    ELSE IF q \in NotifySem(i.dst) THEN "woken"
                                    ELSE status[q]]
        /\ waitq' = [waitq EXCEPT ![i.dst] =
                         IF NotifySem(i.dst) = {} THEN @ ELSE Tail(@)]
        /\ UNCHANGED <<rev, turns, npcs, proc, callpids>>

\* V and P when it has not: the value has been read (and annotated), the
\* process joins the waiters and gives up the mutex inside its block.
SemWait(p) ==
    LET n == CurrentNode(p)
        i == CurrentInstr(p)
    IN  /\ status[p] \in {"ready", "woken"}
        /\ i.op \in {"V", "P"}
        /\ ~SemFree(p, i)
        /\ mem' = ReadAddr(mem, i.dst, rev, n)
        /\ pc' = [pc EXCEPT ![p] = n[2]]
        /\ status' = [status EXCEPT ![p] = "wait"]
        /\ waitq' = [waitq EXCEPT ![i.dst] = Append(waitq[i.dst], p)]
        /\ UNCHANGED <<rev, turns, npcs, proc, callpids>>

\* Mutant of CallPids: a call that is replayed gets new children.
CallPidsFresh(n, size) == [j \in 1..size |-> npcs + j - 1]

\* The pids a call gives its children: the recorded ones if the node was
\* executed before, else the next unused ones.
CallPids(n, size) ==
    IF callpids[n] # <<>> THEN callpids[n]
    ELSE [j \in 1..size |-> npcs + j - 1]

\* call starts its children and waits for them without the mutex.  A child
\* that exists already keeps its procedure and its counter.
CallBegin(p) ==
    LET n    == CurrentNode(p)
        i    == CurrentInstr(p)
        kids == CallPids(n, Len(i.names))
        child(q) == \E j \in DOMAIN kids : kids[j] = q
    IN  /\ status[p] = "ready"
        /\ i.op = "call"
        /\ callpids[n] = <<>> => npcs + Len(i.names) <= MaxPid + 1
        /\ callpids' = [callpids EXCEPT ![n] = kids]
        /\ npcs' = IF callpids[n] = <<>> THEN npcs + Len(i.names) ELSE npcs
        /\ proc' = [q \in Pid |-> IF child(q) /\ ~Created(q)
                                  THEN i.names[q - npcs + 1] ELSE proc[q]]
        /\ status' = [q \in Pid |-> IF child(q) THEN "run"
                                    ELSE IF q = p THEN "call" ELSE status[q]]
        /\ pc' = [pc EXCEPT ![p] = n[2]]
        /\ UNCHANGED <<rev, turns, mem, waitq>>

\* Mutant of Joined: the call goes on when one child is done.
JoinedByOne(n) == \E j \in DOMAIN callpids[n] : status[callpids[n][j]] = "done"

\* wg.Wait returns when every child has.
Joined(n) == \A j \in DOMAIN callpids[n] : status[callpids[n][j]] = "done"

CallEnd(p) ==
    LET n == CurrentNode(p)
    IN  /\ status[p] = "call"
        /\ Joined(n)
        /\ FinishBlock(mem, n)
        /\ status' = [status EXCEPT ![p] = AfterBlock(n)]
        /\ UNCHANGED <<rev, turns, npcs, proc, waitq, callpids>>

ProcStep(p) ==
    \/ Check(p)
    \/ Exec(p)
    \/ SemTake(p)
    \/ SemWait(p)
    \/ CallBegin(p)
    \/ CallEnd(p)

-----------------------------------------------------------------------------
(* The user at the debugger *)

\* Main is stopped between two blocks of its own; it is the only process then.
Suspend ==
    /\ turns < MaxTurns
    /\ status[0] = "run"
    /\ pc[0] \in 1..(Len(Code[Main]) - 1)
    /\ status' = [status EXCEPT ![0] = "done"]
    /\ UNCHANGED <<rev, turns, npcs, proc, pc, mem, waitq, callpids>>

\* "bwd" or "fwd" followed by "run": main gets a goroutine again.
Resume ==
    /\ turns < MaxTurns
    /\ status[0] = "done"
    /\ rev' = ~rev
    /\ turns' = turns + 1
    /\ status' = [status EXCEPT ![0] = "run"]
    /\ UNCHANGED <<npcs, proc, pc, mem, waitq, callpids>>

\* The debugger waits for a command that never comes.
Idle ==
    /\ turns = MaxTurns
    /\ status[0] = "done"
    /\ UNCHANGED vars

\* A panic in any goroutine ends the program.
Crashed ==
    /\ mem.err # "none"
    /\ UNCHANGED vars

-----------------------------------------------------------------------------

Init ==
    /\ rev = FALSE
    /\ turns = 0
    /\ npcs = 1
    /\ proc = [p \in Pid |-> IF p = 0 THEN Main ELSE NoProc]
    /\ pc = [p \in Pid |-> 0]
    /\ status = [p \in Pid |-> IF p = 0 THEN "run" ELSE "none"]
    /\ mem = EmptyStore
    /\ waitq = [x \in Var |-> <<>>]
    /\ callpids = [n \in Node |-> <<>>]

Next ==
    \/ mem.err = "none" /\ \E p \in Pid : ProcStep(p)
    \/ mem.err = "none" /\ (Suspend \/ Resume \/ Idle)
    \/ Crashed

Spec == Init /\ [][Next]_vars

-----------------------------------------------------------------------------
(* The abstract specification *)

Executed(n) == n[2] < pc[n[1]]

\* The blocks of all processes as the events of CausalExecution, and the
\* incoming edges of a node as what it uses.
Causal == INSTANCE CausalExecution WITH
    Event <- Node,
    done  <- {n \in Node : Executed(n)},
    uses  <- {e \in Node \X Node :
                 \E i \in DOMAIN mem.inc[e[1]] : mem.inc[e[1]][i].src = e[2]}

\* The runtime executes and undoes blocks only as the causal order allows.
FollowsCausalOrder == Causal!Spec

-----------------------------------------------------------------------------
(* What the runtime must guarantee *)

\* Every variable holds a value of its type.
TypeOK ==
    /\ rev \in BOOLEAN
    /\ turns \in 0..MaxTurns
    /\ npcs \in 1..(MaxPid + 1)
    /\ proc \in [Pid -> ProcName \cup {NoProc}]
    /\ pc \in [Pid -> 0..MaxPc]
    /\ status \in [Pid -> Status]
    /\ mem \in Store
    /\ waitq \in [Var -> Seq(Pid)]
    /\ callpids \in [Node -> Seq(Pid)]

\* No goroutine has panicked: runModifyDagRev never finds a counter below zero
\* ("BUG") and addEdge never an edge from a later block of the same process
\* ("It should not happen").
NoPanic == mem.err = "none"

\* The first run and the first rollback.  A block that is executed again after
\* a rollback finds its old edges, and addEdge counts an edge only when it is
\* new: from the third phase on the counters are too low.
FirstRoundTrip == turns <= 1 /\ mem.err = "none"

\* The nodes whose incoming edges count: executed and not undone, or begun.
InDag(n) == Executed(n) \/ (n[2] = pc[n[1]] /\ Inside(n[1]))

OutEdges(s) ==
    UNION {{<<n, i>> : i \in {j \in DOMAIN mem.inc[n] : mem.inc[n][j].src = s}} :
              n \in {x \in Node : InDag(x)}}

\* outedgectr[s] is exactly the number of edges from s to nodes of the DAG: the
\* number that isRunnable compares with zero is what the edge lists say.
CounterMatchesDag ==
    FirstRoundTrip => \A s \in Node : mem.ctr[s] = Cardinality(OutEdges(s))

\* The answer of isRunnable, obtained without the mutex, is still right when
\* the process gets the mutex and executes its block.
CheckStillHolds ==
    mem.err = "none" => \A p \in Pid : status[p] = "ready" => IsRunnable(p)

\* The nodes of the DAG that wrote x, and those that overwrote what s wrote.
Writers(x) == {n \in Node : InDag(n) /\ WriteEdges(mem, x, n) # {}}
Overwriters(x, s) ==
    {n \in Writers(x) : \E i \in WriteEdges(mem, x, n) : mem.inc[n][i].src = s}

\* The writers of a variable form one chain and lastupdatepid/lastupdatepc
\* names its end, forwards and after any part of it was undone.
WritersFormChain ==
    FirstRoundTrip =>
        \A x \in Var :
            /\ Overwriters(x, mem.last[x]) = {}
            /\ Writers(x) # {} => mem.last[x] \in Writers(x)
            /\ \A n \in Writers(x) \ {mem.last[x]} :
                  Cardinality(Overwriters(x, n)) = 1

\* Backwards no process ever waits for a semaphore: once the DAG lets a V or P
\* be undone, the semaphore has the value that the operation left.
UndoNeverWaits ==
    FirstRoundTrip /\ rev =>
        \A p \in Pid : status[p] \notin {"wait", "woken"}

\* Between V and P of x: of the first k blocks of procedure f one takes x and
\* none after it releases x.
Takes(i, x)    == i.op = "V" /\ i.dst = x
Releases(i, x) == i.op = "P" /\ i.dst = x
InSection(f, k, x) ==
    \E b \in 1..k : /\ Takes(Code[f][b], x)
                    /\ \A c \in (b + 1)..k : ~Releases(Code[f][c], x)

\* The program uses x as a lock: in every procedure V begins a section of x and
\* P ends it, and nothing else changes x.
IsLock(x) ==
    \A f \in ProcName : \A b \in 1..Len(Code[f]) :
        LET i == Code[f][b]
        IN  /\ Takes(i, x) => ~InSection(f, b - 1, x)
            /\ Releases(i, x) => InSection(f, b - 1, x)
            /\ i.op \in {"+=", "-=", "<=>"} => i.dst # x
            /\ i.op = "<=>" => i.src # x

\* How many blocks p has executed and not undone.  Backwards a block in the
\* middle of which p waits is not undone yet.
Position(p) == IF rev /\ Inside(p) THEN pc[p] + 1 ELSE pc[p]
Holds(p, x) == InSection(proc[p], Position(p), x)

\* A lock is 1 when one process is in its section, and else 0 with nobody there:
\* at most one process is between V and P, when the program runs, when it is
\* undone, and when it is replayed.
LockExclusion ==
    \A x \in Var : IsLock(x) =>
        /\ mem.val[x] \in {0, 1}
        /\ mem.val[x] = 1 <=> \E p \in Pid : Holds(p, x)
        /\ \A p, q \in Pid : Holds(p, x) /\ Holds(q, x) => p = q

\* In a replay a block that was executed before annotates exactly the edges it
\* annotated then: it reads and overwrites what the same nodes produced.  (A
\* V or P that waits is in its first execution and still collecting edges.)
ReplayRepeatsDag ==
    [][turns >= 2 => \A n \in Node :
            mem.inc[n] # <<>> /\ ~Inside(n[1]) => mem'.inc[n] = mem.inc[n]]_vars

\* Whoever has read what a node left in a variable, without writing it, is in
\* the DAG while the node that overwrote it is.  No edge leads from the one to
\* the other (see the run reader_rollback): the program has to order them.
ReadersPrecede ==
    \A x \in Var : \A d \in Writers(x) : \A i \in WriteEdges(mem, x, d) :
        \A n \in Node :
            WriteEdges(mem, x, n) = {}
            /\ HasEdge(mem, [mem.inc[d][i] EXCEPT !.wt = FALSE], n) => InDag(n)

\* After a complete rollback every variable has its initial value.
RollbackRestoresStore ==
    rev /\ status[0] = "done" /\ pc[0] = 0 /\ mem.err = "none" =>
        \A x \in Var : mem.val[x] = 0

=============================================================================
