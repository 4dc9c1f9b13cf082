--------------------------- MODULE AnnotationDag ---------------------------
(***************************************************************************)
(* The annotation DAG of the CRIL runtime (src/runtime/dag.go) and the     *)
(* store whose reads and writes feed it (ReadAddr, WriteAddr, GetLastDag   *)
(* in src/runtime/symtab.go), as operators on a record                     *)
(*                                                                         *)
(*    m.val[x]   the value of variable x        (varmem / heapmem)         *)
(*    m.last[x]  the node that last wrote x     (lastupdatepid, heapuppid) *)
(*    m.inc[n]   the incoming edges of node n   (dag.incedges)             *)
(*    m.ctr[n]   its outgoing edge counter      (dag.outedgectr)           *)
(*    m.err      the panic that killed the program, or "none"              *)
(*                                                                         *)
(* A node <<pid, pc>> is the pc-th block executed by process pid.  The     *)
(* slices of the program grow on demand; here they are total functions,    *)
(* an entry that does not exist yet being empty or 0, as the code reads it.*)
(* A variable is an address: how a scoped name finds its address is the    *)
(* symbol table's business, and no two names alias.                        *)
(***************************************************************************)
EXTENDS Integers, Sequences, FiniteSets

CONSTANTS
    MaxPid,   \* bound on process ids (the program's slice r.pcs is unbounded)
    MaxPc,    \* bound on the blocks one process executes
    Var,      \* the variables
    Heap      \* those that are declared globally and live in M[...]

ASSUME BoundsAssumption == MaxPid \in Nat /\ MaxPc \in Nat \ {0}
ASSUME HeapAssumption == Heap \subseteq Var

Pid  == 0..MaxPid
Node == Pid \X (0..MaxPc)

\* The pair (-1,-1): "never written", the root of the DAG.
Bot == <<-1, -1>>

Edge == [src : Node \cup {Bot}, var : Var, wt : BOOLEAN]

\* varmem entries start at (-1,-1); the maps heapuppid and heapuppc are never
\* initialised, so a heap cell starts at their zero value, node (0,0).
InitLast(x) == IF x \in Heap THEN <<0, 0>> ELSE Bot

Mem(val, last, inc, ctr, err) ==
    [val |-> val, last |-> last, inc |-> inc, ctr |-> ctr, err |-> err]

EmptyStore ==
    Mem([x \in Var |-> 0],
        [x \in Var |-> InitLast(x)],
        [n \in Node |-> <<>>],
        [n \in Node |-> 0],
        "none")

Store ==
    [val  : [Var -> Int],
     last : [Var -> Node \cup {Bot}],
     inc  : [Node -> Seq(Edge)],
     ctr  : [Node -> Int],
     err  : {"none", "BUG", "order"}]

\* Everything that store m and its DAG refer to is Bot or a node of S.
RefersTo(m, S) ==
    /\ \A x \in Var : m.last[x] \in S \cup {Bot}
    /\ \A n \in Node : \A i \in DOMAIN m.inc[n] : m.inc[n][i].src \in S \cup {Bot}

HasEdge(m, e, dst) == \E i \in DOMAIN m.inc[dst] : m.inc[dst][i] = e

\* Record that node dst uses the value of x that node src produced.  An edge
\* that is already there is left alone, and so is the counter of its source.
AddEdge(m, src, x, wt, dst) ==
    LET e == [src |-> src, var |-> x, wt |-> wt]
    IN  IF src[1] = dst[1] /\ src[2] > dst[2]
        THEN Mem(m.val, m.last, m.inc, m.ctr, "order")
        ELSE IF src = dst \/ HasEdge(m, e, dst)
        THEN m
        ELSE Mem(m.val, m.last,
                 [m.inc EXCEPT ![dst] = Append(@, e)],
                 IF src = Bot THEN m.ctr ELSE [m.ctr EXCEPT ![src] = @ + 1],
                 m.err)

\* The edges through which node n overwrote x.
WriteEdges(m, x, n) ==
    {i \in DOMAIN m.inc[n] : m.inc[n][i].wt /\ m.inc[n][i].var = x}

\* Mutant of GetLastDag: it looks at the node after n, as if pc had not been
\* decremented yet.
GetLastDagOfNext(m, x, n) ==
    LET d == <<n[1], n[2] + 1>>
        W == WriteEdges(m, x, d)
    IN  IF W = {} THEN Bot
        ELSE m.inc[d][CHOOSE i \in W : \A j \in W : j <= i].src

\* The writer that node n had overwritten: the last matching edge wins.
GetLastDag(m, x, n) ==
    LET W == WriteEdges(m, x, n)
    IN  IF W = {} THEN Bot
        ELSE m.inc[n][CHOOSE i \in W : \A j \in W : j <= i].src

ReadAddr(m, x, rev, n) ==
    IF rev THEN m ELSE AddEdge(m, m.last[x], x, FALSE, n)

WriteAddr(m, x, v, rev, n) ==
    LET m1 == IF rev THEN m ELSE AddEdge(m, m.last[x], x, TRUE, n)
    IN  Mem([m1.val EXCEPT ![x] = v],
            [m1.last EXCEPT ![x] = IF rev THEN GetLastDag(m, x, n) ELSE n],
            m1.inc, m1.ctr, m1.err)

\* Mutants of EdgesFrom: a source gets one count back however many edges it
\* has, or all nodes of its process get the counts back.
EdgesFromOnce(m, src, n) == IF \E i \in DOMAIN m.inc[n] : m.inc[n][i].src = src THEN 1 ELSE 0
EdgesFromProcess(m, src, n) ==
    Cardinality({i \in DOMAIN m.inc[n] : m.inc[n][i].src[1] = src[1]})

\* How many incoming edges of n come from src.
EdgesFrom(m, src, n) == Cardinality({i \in DOMAIN m.inc[n] : m.inc[n][i].src = src})

\* Undoing node n gives every source of its incoming edges one count back per
\* edge.  The edges themselves stay, as the record a replay has to follow.
RunModifyDagRev(m, n) ==
    LET c == [s \in Node |-> m.ctr[s] - EdgesFrom(m, s, n)]
    IN  Mem(m.val, m.last, m.inc, c,
            IF \E s \in Node : c[s] < 0 THEN "BUG" ELSE m.err)

=============================================================================
