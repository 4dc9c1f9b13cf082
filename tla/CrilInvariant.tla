--------------------------- MODULE CrilInvariant ---------------------------
(***************************************************************************)
(* The inductive invariant of CrilRuntime: how the processes, their calls  *)
(* and their queues hang together in every reachable state, for any        *)
(* program and any number of changes of direction.                         *)
(***************************************************************************)
EXTENDS CrilRuntime

Active(p)  == status[p] \in {"run", "ready", "wait", "woken", "call"}
CodeLen(p) == Len(Code[proc[p]])
Kids(n)    == {callpids[n][j] : j \in DOMAIN callpids[n]}

\* Node n is a call that is waiting for its children.
Calling(n) == status[n[1]] = "call" /\ pc[n[1]] = n[2]

\* The processes with a pid below npcs, and no others, exist.
ProcessesExist ==
    /\ proc[0] = Main
    /\ \A p \in Pid :
          IF Created(p)
          THEN proc[p] \in ProcName /\ status[p] # "none" /\ pc[p] <= CodeLen(p)
          ELSE proc[p] = NoProc /\ status[p] = "none" /\ pc[p] = 0

\* A running process has a block to execute or to undo, and one that is inside
\* a block is inside one of the right kind.
PositionsFit ==
    \A p \in Pid :
        /\ status[p] \in {"run", "ready"} =>
              IF rev THEN pc[p] > 0 ELSE pc[p] < CodeLen(p)
        /\ Inside(p) => pc[p] < CodeLen(p)
        /\ status[p] = "call" => callpids[<<p, pc[p]>>] # <<>>

\* When main is stopped the other direction has something to do.
MainCanTurn ==
    status[0] = "done" => IF rev THEN pc[0] < CodeLen(0) ELSE pc[0] > 0

\* The recorded children of a node: it is a call, they are younger than its
\* process and no other node's children.
CallsRecorded ==
    \A n \in Node : callpids[n] # <<>> =>
        /\ Created(n[1])
        /\ n[2] < CodeLen(n[1])
        /\ Code[proc[n[1]]][n[2] + 1].op = "call"
        /\ \A k \in Kids(n) : n[1] < k /\ Created(k)
        /\ \A m \in Node : m # n => Kids(m) \cap Kids(n) = {}

\* A call that was executed has recorded its children.
ExecutedCallsRecorded ==
    \A n \in Node :
        Created(n[1]) /\ Executed(n) /\ Code[proc[n[1]]][n[2] + 1].op = "call"
            => callpids[n] # <<>>

\* Every process but main is the child of a call.
HaveParents == \A p \in Pid \ {0} : Created(p) => \E n \in Node : p \in Kids(n)

\* Children are at work only while the call waits for them.  Otherwise they are
\* at their end if the call was executed and at their beginning if it was not.
CallsJoin ==
    \A n \in Node : \A k \in Kids(n) :
        IF Calling(n)
        THEN status[k] = "done" => pc[k] = IF rev THEN 0 ELSE CodeLen(k)
        ELSE /\ status[k] = "done"
             /\ pc[k] = IF Executed(n) THEN CodeLen(k) ELSE 0

\* The queues hold processes that wait, each of them once.
QueuesHoldWaiters ==
    \A x \in Var : \A i \in DOMAIN waitq[x] :
        /\ status[waitq[x][i]] = "wait"
        /\ \A y \in Var : \A j \in DOMAIN waitq[y] :
              waitq[x][i] = waitq[y][j] => x = y /\ i = j

\* The store and the DAG refer to processes that exist.
EdgesFromProcesses == RefersTo(mem, {n \in Node : Created(n[1])})

Structure ==
    /\ ProcessesExist
    /\ PositionsFit
    /\ MainCanTurn
    /\ CallsRecorded
    /\ ExecutedCallsRecorded
    /\ HaveParents
    /\ CallsJoin
    /\ QueuesHoldWaiters
    /\ EdgesFromProcesses

\* While main does not wait in a call no other process is at work: the states
\* in which the user may turn around are quiescent.
Quiescent == status[0] # "call" => \A p \in Pid \ {0} : ~Active(p)

=============================================================================
