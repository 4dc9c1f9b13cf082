------------------------- MODULE CrilRuntimeProofs -------------------------
(***************************************************************************)
(* Theorems about CrilRuntime, for every program and every bound.          *)
(*                                                                         *)
(* Ind, the conjunction of the type invariant and of CrilInvariant's       *)
(* Structure, is inductive.  It is stated about all processes at once, but *)
(* an action disturbs little of it: LocalStep covers every step in which   *)
(* one process moves inside its own procedure, and leaves CallBegin and    *)
(* the user's Suspend and Resume to be looked at by themselves.            *)
(***************************************************************************)
EXTENDS CrilInvariant, FiniteSetTheorems, WellFoundedInduction, TLAPS

-----------------------------------------------------------------------------
(* The store of AnnotationDag                                              *)

\* A nonempty set of natural numbers has a least element.
LEMMA LeastNatural ==
  ASSUME NEW T, T \subseteq Nat, T # {}
  PROVE  \E a \in T : \A b \in T : a <= b
<1> DEFINE R == {ss \in Nat \X Nat : ss[1] < ss[2]}
<1>1. IsWellFoundedOn(R, Nat)
  BY NatLessThanWellFounded DEF OpToRel
<1>2. PICK a \in T : \A b \in T : ~(<<b, a>> \in R)
  <2> HIDE DEF R
  <2> QED BY <1>1, WFMin
<1>3. \A b \in T : ~(b < a)
  BY <1>2
<1>4. QED BY <1>3

\* The indices of a sequence that satisfy a condition have a largest one.
LEMMA LargestIndex ==
  ASSUME NEW L \in Nat, NEW W, W \subseteq 1..L, W # {}
  PROVE  \E i \in W : \A j \in W : j <= i
<1> DEFINE T == {L - i : i \in W}
<1>1. T \subseteq Nat /\ T # {}
  <2>1. \A i \in W : i \in 1..L /\ L - i \in Nat
    OBVIOUS
  <2>2. QED BY <2>1
<1>2. PICK a \in T : \A b \in T : a <= b
  <2> HIDE DEF T
  <2> QED BY <1>1, LeastNatural
<1>3. PICK i \in W : a = L - i
  BY <1>2
<1>4. \A j \in W : L - i <= L - j
  BY <1>2, <1>3
<1>5. QED BY <1>4

LEMMA NodeType == Bot \notin Node /\ \A n \in Node : n[1] \in Pid /\ n[2] \in 0..MaxPc
BY BoundsAssumption DEF Node, Bot, Pid

\* The store with which a program starts.
LEMMA EmptyStoreType == EmptyStore \in Store
<1>1. \A x \in Var : InitLast(x) \in Node \cup {Bot}
  BY BoundsAssumption DEF InitLast, Node, Pid
<1>2. <<>> \in Seq(Edge)
  OBVIOUS
<1>3. QED BY <1>1, <1>2 DEF EmptyStore, Store, Mem

-----------------------------------------------------------------------------

\* What executing (r = FALSE) or undoing (r = TRUE) an instruction of node n
\* may do to a store: it stays well typed and refers to n besides what it
\* referred to before; other nodes keep their edges; undoing changes no edge,
\* no counter and raises nothing.
Annotates(m, m1, r, n) ==
    /\ m1 \in Store
    /\ \A S \in SUBSET Node : n \in S /\ RefersTo(m, S) => RefersTo(m1, S)
    /\ \A d \in Node : d # n => m1.inc[d] = m.inc[d]
    /\ r => m1.inc = m.inc /\ m1.ctr = m.ctr /\ m1.err = m.err

LEMMA AnnotatesItself ==
  ASSUME NEW m \in Store, NEW r \in BOOLEAN, NEW n \in Node
  PROVE  Annotates(m, m, r, n)
BY DEF Annotates

LEMMA AnnotatesTransitive ==
  ASSUME NEW m \in Store, NEW m1, NEW m2, NEW r \in BOOLEAN, NEW n \in Node,
         Annotates(m, m1, r, n), Annotates(m1, m2, r, n)
  PROVE  Annotates(m, m2, r, n)
BY DEF Annotates

\* addEdge keeps the types, adds one edge at most and that to its own node.
LEMMA AddEdgeType ==
  ASSUME NEW m \in Store, NEW src \in Node \cup {Bot}, NEW x \in Var,
         NEW wt \in BOOLEAN, NEW dst \in Node
  PROVE  AddEdge(m, src, x, wt, dst) \in Store
<1> DEFINE e == [src |-> src, var |-> x, wt |-> wt]
<1>1. e \in Edge
  BY DEF Edge
<1>2. Append(m.inc[dst], e) \in Seq(Edge)
  BY <1>1 DEF Store
<1>3. [m.inc EXCEPT ![dst] = Append(m.inc[dst], e)] \in [Node -> Seq(Edge)]
  BY <1>2 DEF Store
<1>4. src # Bot => [m.ctr EXCEPT ![src] = m.ctr[src] + 1] \in [Node -> Int]
  BY DEF Store
<1>5. QED
  BY <1>3, <1>4 DEF AddEdge, Store, Mem

LEMMA AddEdgeFrame ==
  ASSUME NEW m \in Store, NEW src \in Node \cup {Bot}, NEW x \in Var,
         NEW wt \in BOOLEAN, NEW dst \in Node
  PROVE  LET m1 == AddEdge(m, src, x, wt, dst)
         IN  /\ m1.last = m.last
             /\ \A d \in Node : d # dst => m1.inc[d] = m.inc[d]
             /\ \A i \in DOMAIN m1.inc[dst] :
                   \/ i \in DOMAIN m.inc[dst] /\ m1.inc[dst][i] = m.inc[dst][i]
                   \/ m1.inc[dst][i].src = src
BY DEF AddEdge, Store, Mem

LEMMA GetLastDagType ==
  ASSUME NEW m \in Store, NEW x \in Var, NEW n \in Node
  PROVE  /\ GetLastDag(m, x, n) \in Node \cup {Bot}
         /\ \A S \in SUBSET Node : RefersTo(m, S) => GetLastDag(m, x, n) \in S \cup {Bot}
<1> DEFINE W == WriteEdges(m, x, n)
<1>1. CASE W = {}
  BY <1>1 DEF GetLastDag
<1>2. CASE W # {}
  <2>1. m.inc[n] \in Seq(Edge)
    BY DEF Store
  <2>2. W \subseteq 1..Len(m.inc[n]) /\ Len(m.inc[n]) \in Nat
    BY <2>1 DEF WriteEdges
  <2>3. \E i \in W : \A j \in W : j <= i
    <3> HIDE DEF W
    <3> QED BY <1>2, <2>2, LargestIndex
  <2>4. PICK i \in W : GetLastDag(m, x, n) = m.inc[n][i].src
    <3>1. (CHOOSE i \in W : \A j \in W : j <= i) \in W
      BY <2>3
    <3>2. QED BY <1>2, <3>1 DEF GetLastDag
  <2>5. i \in DOMAIN m.inc[n] /\ m.inc[n][i] \in Edge
    BY <2>1, <2>2
  <2>6. m.inc[n][i].src \in Node \cup {Bot}
    BY <2>5 DEF Edge
  <2>7. QED BY <2>4, <2>5, <2>6 DEF RefersTo
<1>3. QED BY <1>1, <1>2

\* Reading and writing through the symbol table: what they may do to the store.
LEMMA AddEdgeAnnotates ==
  ASSUME NEW m \in Store, NEW src \in Node \cup {Bot}, NEW x \in Var,
         NEW wt \in BOOLEAN, NEW n \in Node, src = m.last[x]
  PROVE  Annotates(m, AddEdge(m, src, x, wt, n), FALSE, n)
<1> DEFINE m1 == AddEdge(m, src, x, wt, n)
<1>1. m1 \in Store
  BY AddEdgeType
<1>2. /\ m1.last = m.last
      /\ \A d \in Node : d # n => m1.inc[d] = m.inc[d]
      /\ \A i \in DOMAIN m1.inc[n] :
            \/ i \in DOMAIN m.inc[n] /\ m1.inc[n][i] = m.inc[n][i]
            \/ m1.inc[n][i].src = src
  BY AddEdgeFrame
<1>3. ASSUME NEW S \in SUBSET Node, n \in S, RefersTo(m, S)
      PROVE  RefersTo(m1, S)
  <2> HIDE DEF m1
  <2>1. src \in S \cup {Bot}
    BY <1>3 DEF RefersTo
  <2>2. ASSUME NEW d \in Node, NEW i \in DOMAIN m1.inc[d]
        PROVE  m1.inc[d][i].src \in S \cup {Bot}
    <3>1. CASE d = n
      BY <1>2, <1>3, <2>1, <3>1 DEF RefersTo
    <3>2. CASE d # n
      BY <1>2, <1>3, <3>2 DEF RefersTo
    <3>3. QED BY <3>1, <3>2
  <2>3. \A y \in Var : m1.last[y] \in S \cup {Bot}
    BY <1>2, <1>3 DEF RefersTo
  <2>4. QED BY <2>2, <2>3 DEF RefersTo
<1>4. QED BY <1>1, <1>2, <1>3 DEF Annotates

LEMMA ReadAnnotates ==
  ASSUME NEW m \in Store, NEW x \in Var, NEW r \in BOOLEAN, NEW n \in Node
  PROVE  Annotates(m, ReadAddr(m, x, r, n), r, n)
<1>1. CASE r
  BY <1>1, AnnotatesItself DEF ReadAddr
<1>2. CASE ~r
  <2>1. m.last[x] \in Node \cup {Bot}
    BY DEF Store
  <2>2. Annotates(m, AddEdge(m, m.last[x], x, FALSE, n), FALSE, n)
    BY <2>1, AddEdgeAnnotates
  <2>3. QED BY <1>2, <2>2 DEF ReadAddr
<1>3. QED BY <1>1, <1>2

LEMMA ReadKeepsValues ==
  ASSUME NEW m \in Store, NEW x \in Var, NEW r \in BOOLEAN, NEW n \in Node
  PROVE  ReadAddr(m, x, r, n).val = m.val
BY DEF ReadAddr, AddEdge, Mem, Store

LEMMA WriteAnnotates ==
  ASSUME NEW m \in Store, NEW x \in Var, NEW v \in Int, NEW r \in BOOLEAN,
         NEW n \in Node
  PROVE  Annotates(m, WriteAddr(m, x, v, r, n), r, n)
<1> DEFINE m0 == IF r THEN m ELSE AddEdge(m, m.last[x], x, TRUE, n)
           l  == IF r THEN GetLastDag(m, x, n) ELSE n
           m1 == WriteAddr(m, x, v, r, n)
<1>1. Annotates(m, m0, r, n)
  <2>1. m.last[x] \in Node \cup {Bot}
    BY DEF Store
  <2>2. CASE r
    BY <2>2, AnnotatesItself
  <2>3. CASE ~r
    BY <2>1, <2>3, AddEdgeAnnotates
  <2>4. QED BY <2>2, <2>3
<1>2. /\ l \in Node \cup {Bot}
      /\ \A S \in SUBSET Node : n \in S /\ RefersTo(m, S) => l \in S \cup {Bot}
  BY GetLastDagType
<1>3. /\ m1.val = [m0.val EXCEPT ![x] = v]
      /\ m1.last = [m0.last EXCEPT ![x] = l]
      /\ m1.inc = m0.inc /\ m1.ctr = m0.ctr /\ m1.err = m0.err
      /\ m1 = Mem(m1.val, m1.last, m1.inc, m1.ctr, m1.err)
  BY DEF WriteAddr, Mem
<1> HIDE DEF m0, l, m1
<1>4. m0 \in Store
  BY <1>1 DEF Annotates
<1>5. m1 \in Store
  <2>1. m1.val \in [Var -> Int] /\ m1.last \in [Var -> Node \cup {Bot}]
    BY <1>2, <1>3, <1>4 DEF Store
  <2>2. m1.inc \in [Node -> Seq(Edge)] /\ m1.ctr \in [Node -> Int]
        /\ m1.err \in {"none", "BUG", "order"}
    BY <1>3, <1>4 DEF Store
  <2>3. QED BY <1>3, <2>1, <2>2 DEF Store, Mem
<1>6. ASSUME NEW S \in SUBSET Node, n \in S, RefersTo(m, S)
      PROVE  RefersTo(m1, S)
  <2>1. RefersTo(m0, S)
    BY <1>1, <1>6 DEF Annotates
  <2>2. m0.last \in [Var -> Node \cup {Bot}]
    BY <1>4 DEF Store
  <2>3. QED BY <1>2, <1>3, <1>6, <2>1, <2>2 DEF RefersTo
<1>7. QED BY <1>1, <1>3, <1>5, <1>6 DEF Annotates, m1

-----------------------------------------------------------------------------

LEMMA EdgesFromType ==
  ASSUME NEW m \in Store, NEW src, NEW n \in Node
  PROVE  EdgesFrom(m, src, n) \in Nat
<1> DEFINE T == {i \in DOMAIN m.inc[n] : m.inc[n][i].src = src}
<1>1. m.inc[n] \in Seq(Edge)
  BY DEF Store
<1>2. Len(m.inc[n]) \in Nat /\ T \in SUBSET (1..Len(m.inc[n]))
  BY <1>1
<1>3. IsFiniteSet(T)
  <2>1. IsFiniteSet(1..Len(m.inc[n]))
    BY <1>2, FS_Interval
  <2> HIDE DEF T
  <2>2. QED BY <1>2, <2>1, FS_Subset
<1>4. Cardinality(T) \in Nat
  <2> HIDE DEF T
  <2> QED BY <1>3, FS_CardinalityType
<1>5. QED BY <1>4 DEF EdgesFrom

\* Undoing a block only lowers counters, and notices when one is below zero.
LEMMA RunModifyDagRevEffect ==
  ASSUME NEW m \in Store, NEW n \in Node
  PROVE  LET m1 == RunModifyDagRev(m, n)
         IN  /\ m1 \in Store
             /\ m1.val = m.val /\ m1.last = m.last /\ m1.inc = m.inc
             /\ \A s \in Node : m1.ctr[s] = m.ctr[s] - EdgesFrom(m, s, n)
             /\ \A s \in Node : m1.ctr[s] <= m.ctr[s]
             /\ m1.err = "none" => \A s \in Node : m1.ctr[s] >= 0
<1> DEFINE c == [s \in Node |-> m.ctr[s] - EdgesFrom(m, s, n)]
           m1 == RunModifyDagRev(m, n)
<1>1. \A s \in Node : EdgesFrom(m, s, n) \in Nat /\ m.ctr[s] \in Int
  BY EdgesFromType DEF Store
<1>2. /\ m1 = Mem(m.val, m.last, m.inc, c,
                  IF \E s \in Node : c[s] < 0 THEN "BUG" ELSE m.err)
      /\ c \in [Node -> Int]
      /\ \A s \in Node : c[s] = m.ctr[s] - EdgesFrom(m, s, n)
  BY <1>1 DEF RunModifyDagRev
<1> HIDE DEF c, m1
<1>3. m1 \in Store
  BY <1>2 DEF Store, Mem
<1>4. \A s \in Node : m1.ctr[s] <= m.ctr[s]
  BY <1>1, <1>2 DEF Mem
<1>5. m1.err = "none" => \A s \in Node : m1.ctr[s] >= 0
  BY <1>2 DEF Mem
<1>6. QED BY <1>2, <1>3, <1>4, <1>5 DEF Mem, m1

-----------------------------------------------------------------------------
(* The inductive invariant                                                 *)

Ind == TypeOK /\ Structure

-----------------------------------------------------------------------------
(* Programs and nodes *)

\* A procedure has between one and MaxPc blocks, each a well-formed one.
LEMMA CodeFacts ==
  ASSUME NEW f \in ProcName
  PROVE  /\ Len(Code[f]) \in 1..MaxPc
         /\ \A b \in 1..Len(Code[f]) : Code[f][b] \in Instr /\ WellFormed(Code[f][b])
BY CodeAssumption

LEMMA CodeLenType ==
  ASSUME Ind, NEW p \in Pid, Created(p)
  PROVE  proc[p] \in ProcName /\ CodeLen(p) \in 1..MaxPc
BY CodeFacts DEF Ind, Structure, ProcessesExist, CodeLen

LEMMA ActiveIsCreated ==
  ASSUME Ind, NEW p \in Pid, status[p] # "none"
  PROVE  Created(p)
BY DEF Ind, Structure, ProcessesExist

\* The node of a process that is executing a block is a block of its procedure.
LEMMA CurrentNodeFits ==
  ASSUME Ind, NEW p \in Pid, status[p] = "ready" \/ Inside(p)
  PROVE  /\ CurrentNode(p) \in Node
         /\ CurrentNode(p)[1] = p
         /\ CurrentNode(p)[2] \in 0..(CodeLen(p) - 1)
         /\ CurrentNode(p)[2] =
               IF rev /\ status[p] = "ready" THEN pc[p] - 1 ELSE pc[p]
         /\ CurrentInstr(p) \in Instr
         /\ WellFormed(CurrentInstr(p))
<1> DEFINE n == CurrentNode(p)
<1>1. Created(p) /\ proc[p] \in ProcName /\ CodeLen(p) \in 1..MaxPc
  BY ActiveIsCreated, CodeLenType DEF Inside
<1>2. pc[p] \in 0..MaxPc /\ pc[p] <= CodeLen(p)
  BY <1>1 DEF Ind, TypeOK, Structure, ProcessesExist
<1>3. n = <<p, IF rev /\ status[p] = "ready" THEN pc[p] - 1 ELSE pc[p]>>
  BY DEF CurrentNode, Inside
<1>4. n[1] = p /\ n[2] \in 0..(CodeLen(p) - 1)
  <2>1. /\ status[p] = "ready" => IF rev THEN pc[p] > 0 ELSE pc[p] < CodeLen(p)
        /\ Inside(p) => pc[p] < CodeLen(p)
    BY DEF Ind, Structure, PositionsFit
  <2>2. CodeLen(p) \in Nat /\ pc[p] \in Nat
    BY <1>1, <1>2
  <2> HIDE DEF n
  <2>3. n[1] = p /\ n[2] = IF rev /\ status[p] = "ready" THEN pc[p] - 1 ELSE pc[p]
    BY <1>3
  <2>4. QED BY <1>2, <2>1, <2>2, <2>3
<1>5. n \in Node
  BY <1>1, <1>3, <1>4, BoundsAssumption DEF Node
<1>6. CurrentInstr(p) \in Instr /\ WellFormed(CurrentInstr(p))
  <2> HIDE DEF n
  <2>1. n[2] + 1 \in 1..Len(Code[proc[p]])
    BY <1>1, <1>4 DEF CodeLen
  <2>2. QED BY <1>1, <2>1, CodeFacts DEF CurrentInstr, n
<1>7. QED BY <1>3, <1>4, <1>5, <1>6

-----------------------------------------------------------------------------
(* Instructions and the end of a block *)

LEMMA AnnotatesStore ==
  ASSUME NEW m, NEW m1, NEW r, NEW n, Annotates(m, m1, r, n)
  PROVE  m1 \in Store
BY DEF Annotates

\* An instruction that runs under the mutex only annotates its own node.
LEMMA ExecPlainAnnotates ==
  ASSUME NEW m \in Store, rev \in BOOLEAN, NEW n \in Node, NEW i \in Instr,
         WellFormed(i), i.op \notin {"V", "P", "call"}
  PROVE  Annotates(m, ExecPlain(m, i, n), rev, n)
<1>1. CASE i.op = "skip"
  BY <1>1, AnnotatesItself DEF ExecPlain
<1>2. CASE i.op = "print"
  <2>1. i.dst \in Var
    BY <1>2 DEF WellFormed
  <2>2. ExecPlain(m, i, n) = ReadAddr(m, i.dst, rev, n)
    BY <1>2 DEF ExecPlain
  <2>3. QED BY <2>1, <2>2, ReadAnnotates
<1>3. CASE i.op \in {"+=", "-="}
  <2> DEFINE m1 == IF i.src = NoVar THEN m ELSE ReadAddr(m, i.src, rev, n)
             m2 == ReadAddr(m1, i.dst, rev, n)
             v  == IF (i.op = "+=") = (~rev)
                   THEN m.val[i.dst] + ExprValue(m, i)
                   ELSE m.val[i.dst] - ExprValue(m, i)
  <2>1. i.dst \in Var /\ i.src \in Var \cup {NoVar} /\ i.k \in Int
    BY <1>3 DEF WellFormed, Instr
  <2>2. v \in Int
    <3>1. m.val \in [Var -> Int]
      BY DEF Store
    <3>2. ExprValue(m, i) \in Int /\ m.val[i.dst] \in Int
      BY <2>1, <3>1 DEF ExprValue
    <3>3. QED BY <3>2
  <2>3. ExecPlain(m, i, n) = WriteAddr(m2, i.dst, v, rev, n)
    BY <1>3 DEF ExecPlain, ExecAssign
  <2>4. Annotates(m, m1, rev, n)
    BY <2>1, AnnotatesItself, ReadAnnotates
  <2> HIDE DEF m1, v
  <2>5. m1 \in Store
    BY <2>4, AnnotatesStore
  <2>6. Annotates(m1, m2, rev, n)
    BY <2>1, <2>5, ReadAnnotates
  <2> HIDE DEF m2
  <2>7. m2 \in Store
    BY <2>6, AnnotatesStore
  <2>8. Annotates(m2, WriteAddr(m2, i.dst, v, rev, n), rev, n)
    BY <2>1, <2>2, <2>7, WriteAnnotates
  <2>9. QED
    BY <2>3, <2>4, <2>5, <2>6, <2>7, <2>8, AnnotatesTransitive
<1>4. CASE i.op = "<=>"
  <2> DEFINE m1 == ReadAddr(m, i.dst, rev, n)
             m2 == ReadAddr(m1, i.src, rev, n)
             m3 == WriteAddr(m2, i.dst, m.val[i.src], rev, n)
             m4 == WriteAddr(m3, i.src, m.val[i.dst], rev, n)
  <2>1. i.dst \in Var /\ i.src \in Var
    BY <1>4 DEF WellFormed
  <2>2. m.val[i.src] \in Int /\ m.val[i.dst] \in Int
    BY <2>1 DEF Store
  <2>3. ExecPlain(m, i, n) = m4
    BY <1>4 DEF ExecPlain, ExecSwap
  <2>4. Annotates(m, m1, rev, n) /\ m1 \in Store
    BY <2>1, ReadAnnotates, AnnotatesStore
  <2> HIDE DEF m1
  <2>5. Annotates(m1, m2, rev, n) /\ m2 \in Store
    BY <2>1, <2>4, ReadAnnotates, AnnotatesStore
  <2> HIDE DEF m2
  <2>6. Annotates(m2, m3, rev, n) /\ m3 \in Store
    BY <2>1, <2>2, <2>5, WriteAnnotates, AnnotatesStore
  <2> HIDE DEF m3
  <2>7. Annotates(m3, m4, rev, n)
    BY <2>1, <2>2, <2>6, WriteAnnotates
  <2> HIDE DEF m4
  <2>8. QED
    BY <2>3, <2>4, <2>5, <2>6, <2>7, AnnotatesTransitive
<1>5. QED BY <1>1, <1>2, <1>3, <1>4 DEF Instr, Op

\* Taking a semaphore: a read and a write of its variable.
LEMMA SemTakeAnnotates ==
  ASSUME NEW m \in Store, rev \in BOOLEAN, NEW n \in Node, NEW x \in Var,
         NEW v \in Int
  PROVE  Annotates(m, WriteAddr(ReadAddr(m, x, rev, n), x, v, rev, n), rev, n)
<1> DEFINE m1 == ReadAddr(m, x, rev, n)
<1>1. Annotates(m, m1, rev, n) /\ m1 \in Store
  BY ReadAnnotates, AnnotatesStore
<1> HIDE DEF m1
<1>2. Annotates(m1, WriteAddr(m1, x, v, rev, n), rev, n)
  BY <1>1, WriteAnnotates
<1>3. QED BY <1>1, <1>2, AnnotatesTransitive DEF m1

\* The whole effect of a block on the store: the types hold, nothing new is
\* referred to but the block's node, edges of other nodes do not change, and
\* undoing a block leaves every edge and raises no counter.
BlockEffect(n) ==
    /\ mem' \in Store
    /\ \A S \in SUBSET Node : n \in S /\ RefersTo(mem, S) => RefersTo(mem', S)
    /\ \A d \in Node : d # n => mem'.inc[d] = mem.inc[d]
    /\ rev => /\ mem'.inc = mem.inc
              /\ \A s \in Node : mem'.ctr[s] <= mem.ctr[s]
              /\ \A s \in Node : mem'.err = "none" /\ mem.ctr[s] = 0 => mem'.ctr[s] = 0

LEMMA FinishBlockEffect ==
  ASSUME mem \in Store, rev \in BOOLEAN, NEW n \in Node, NEW m,
         Annotates(mem, m, rev, n), FinishBlock(m, n)
  PROVE  BlockEffect(n)
<1>1. m \in Store
  BY AnnotatesStore
<1>2. CASE ~rev
  BY <1>2 DEF FinishBlock, BlockEffect, Annotates
<1>3. CASE rev
  <2>1. mem' = RunModifyDagRev(m, n)
    BY <1>3 DEF FinishBlock
  <2>2. /\ mem' \in Store
        /\ mem'.last = m.last /\ mem'.inc = m.inc
        /\ \A s \in Node : mem'.ctr[s] <= m.ctr[s]
        /\ mem'.err = "none" => \A s \in Node : mem'.ctr[s] >= 0
    BY <1>1, <2>1, RunModifyDagRevEffect
  <2>3. \A s \in Node : mem'.ctr[s] \in Int
    BY <2>2 DEF Store
  <2>4. m.inc = mem.inc /\ m.ctr = mem.ctr
    BY <1>3 DEF Annotates
  <2>5. ASSUME NEW S \in SUBSET Node, n \in S, RefersTo(mem, S)
        PROVE  RefersTo(mem', S)
    BY <2>2, <2>5 DEF Annotates, RefersTo
  <2>6. QED BY <1>3, <2>2, <2>3, <2>4, <2>5 DEF BlockEffect
<1>4. QED BY <1>2, <1>3

-----------------------------------------------------------------------------
(* Steps inside one procedure *)

Processes == ProcessesExist /\ PositionsFit /\ MainCanTurn
Calls     == CallsRecorded /\ ExecutedCallsRecorded /\ HaveParents /\ CallsJoin

\* Process p moves to counter c and status s; others may be woken.
Moves(p, c, s) ==
    /\ UNCHANGED <<rev, turns, npcs, proc, callpids>>
    /\ pc' = [pc EXCEPT ![p] = c]
    /\ status' \in [Pid -> Status]
    /\ status'[p] = s
    /\ \A q \in Pid \ {p} :
          \/ status'[q] = status[q]
          \/ status[q] = "wait" /\ status'[q] = "woken"

\* The calls of p before position c have recorded their children.
RecordedBefore(p, c) ==
    \A n \in Node :
        n[1] = p /\ n[2] < c /\ Code[proc[p]][n[2] + 1].op = "call" => callpids[n] # <<>>

\* Where a process may move to: it has something to do, or is at its end; and
\* the calls it leaves behind are those that were executed.
FitsAt(p, c, s) ==
    /\ c \in 0..CodeLen(p)
    /\ s \in {"run", "ready", "wait", "woken", "done"}
    /\ s \in {"run", "ready"} => IF rev THEN c > 0 ELSE c < CodeLen(p)
    /\ s \in {"wait", "woken"} => c < CodeLen(p)
    /\ s = "done" => c = IF rev THEN 0 ELSE CodeLen(p)
    /\ \A n \in Node : n[1] = p =>
          \A k \in Kids(n) : /\ status[k] = "done"
                             /\ pc[k] = IF n[2] < c THEN CodeLen(k) ELSE 0
    /\ RecordedBefore(p, c)

LEMMA LocalStepProcesses ==
  ASSUME Ind, NEW p \in Pid, Active(p), NEW c, NEW s, Moves(p, c, s), FitsAt(p, c, s)
  PROVE  Processes'
<1>1. Created(p) /\ CodeLen(p) \in 1..MaxPc /\ proc[p] \in ProcName
  BY ActiveIsCreated, CodeLenType DEF Active
<1>2. /\ proc' = proc /\ npcs' = npcs /\ callpids' = callpids /\ rev' = rev
      /\ pc'[p] = c /\ \A q \in Pid : q # p => pc'[q] = pc[q]
      /\ status'[p] = s
      /\ \A q \in Pid : CodeLen(q)' = CodeLen(q)
  BY DEF Moves, CodeLen, Ind, TypeOK
<1>3. ProcessesExist'
  <2>1. ASSUME NEW q \in Pid, q # p
        PROVE  status'[q] = "none" <=> status[q] = "none"
    BY <2>1 DEF Moves
  <2>2. ProcessesExist
    BY DEF Ind, Structure
  <2>3. QED
    BY <1>1, <1>2, <2>1, <2>2 DEF ProcessesExist, FitsAt, Created
<1>4. PositionsFit'
  <2>1. PositionsFit
    BY DEF Ind, Structure
  <2>2. ASSUME NEW q \in Pid
        PROVE  /\ status'[q] \in {"run", "ready"} =>
                     IF rev' THEN pc'[q] > 0 ELSE pc'[q] < CodeLen(q)'
               /\ Inside(q)' => pc'[q] < CodeLen(q)'
               /\ status'[q] = "call" => callpids'[<<q, pc'[q]>>] # <<>>
    <3>1. CASE q = p
      BY <1>2, <3>1 DEF FitsAt, Inside
    <3>2. CASE q # p
      BY <1>2, <2>1, <3>2 DEF Moves, PositionsFit, Inside
    <3>3. QED BY <3>1, <3>2
  <2>3. QED BY <2>2 DEF PositionsFit
<1>5. MainCanTurn'
  <2>1. MainCanTurn
    BY DEF Ind, Structure
  <2>2. 0 \in Pid
    BY BoundsAssumption DEF Pid
  <2>3. CASE p = 0
    BY <1>1, <1>2, <2>3 DEF FitsAt, MainCanTurn
  <2>4. CASE p # 0
    BY <1>2, <2>1, <2>2, <2>4 DEF Moves, MainCanTurn
  <2>5. QED BY <2>3, <2>4
<1>6. QED BY <1>3, <1>4, <1>5 DEF Processes

LEMMA LocalStepCalls ==
  ASSUME Ind, NEW p \in Pid, Active(p), NEW c, NEW s, Moves(p, c, s), FitsAt(p, c, s)
  PROVE  Calls'
<1>1. Created(p) /\ CodeLen(p) \in 1..MaxPc
  BY ActiveIsCreated, CodeLenType DEF Active
<1>2. /\ proc' = proc /\ npcs' = npcs /\ callpids' = callpids /\ rev' = rev
      /\ pc'[p] = c /\ \A q \in Pid : q # p => pc'[q] = pc[q]
      /\ status'[p] = s
      /\ \A q \in Pid : CodeLen(q)' = CodeLen(q)
      /\ \A n \in Node : Kids(n)' = Kids(n)
  BY DEF Moves, CodeLen, Kids, Ind, TypeOK
<1>3. CallsRecorded /\ ExecutedCallsRecorded /\ HaveParents /\ CallsJoin
  BY DEF Ind, Structure
<1>4. CallsRecorded' /\ ExecutedCallsRecorded' /\ HaveParents'
  <2>1. \A n \in Node : n[1] \in Pid
    BY NodeType
  <2>2. ExecutedCallsRecorded'
    <3>1. RecordedBefore(p, c)
      BY DEF FitsAt
    <3>2. \A n \in Node : Executed(n)' <=> IF n[1] = p THEN n[2] < c ELSE Executed(n)
      BY <1>2, <2>1 DEF Executed
    <3>3. QED
      BY <1>2, <1>3, <3>1, <3>2 DEF ExecutedCallsRecorded, RecordedBefore, Created
  <2>3. QED BY <1>2, <1>3, <2>1, <2>2 DEF CallsRecorded, HaveParents, Created
<1>5. CallsJoin'
  <2> SUFFICES ASSUME NEW n \in Node, NEW k \in Kids(n)
               PROVE  IF Calling(n)'
                      THEN status'[k] = "done" =>
                              pc'[k] = IF rev' THEN 0 ELSE CodeLen(k)'
                      ELSE /\ status'[k] = "done"
                           /\ pc'[k] = IF Executed(n)' THEN CodeLen(k)' ELSE 0
    BY <1>2 DEF CallsJoin
  <2>1. n[1] \in Pid /\ k \in Pid /\ n[1] < k
    <3>1. n[1] \in Pid /\ callpids[n] \in Seq(Pid)
      BY NodeType DEF Ind, TypeOK
    <3>2. callpids[n] # <<>>
      BY <3>1 DEF Kids
    <3>3. QED BY <1>3, <3>1, <3>2 DEF CallsRecorded, Kids
  <2>2. IF Calling(n)
        THEN status[k] = "done" => pc[k] = IF rev THEN 0 ELSE CodeLen(k)
        ELSE status[k] = "done" /\ pc[k] = IF Executed(n) THEN CodeLen(k) ELSE 0
    BY <1>3 DEF CallsJoin
  <2>3. CASE n[1] = p
    <3>1. k # p
      BY <2>1, <2>3 DEF Pid
    <3>2. status[k] = "done" /\ pc[k] = IF n[2] < c THEN CodeLen(k) ELSE 0
      BY <2>3 DEF FitsAt
    <3>3. status'[k] = "done" /\ pc'[k] = pc[k]
      BY <1>2, <2>1, <3>1, <3>2 DEF Moves
    <3>4. ~Calling(n)'
      BY <1>2, <2>3 DEF Calling, FitsAt
    <3>5. QED BY <1>2, <2>1, <2>3, <3>2, <3>3, <3>4 DEF Executed
  <2>4. CASE n[1] # p
    <3>1. Calling(n)' <=> Calling(n)
      BY <1>2, <2>1, <2>4 DEF Calling, Moves
    <3>2. Executed(n)' <=> Executed(n)
      BY <1>2, <2>1, <2>4 DEF Executed
    <3>3. CASE k = p
      <4>1. Calling(n)
        BY <2>2, <3>3 DEF Active
      <4>2. QED BY <1>2, <3>1, <3>3, <4>1 DEF FitsAt
    <3>4. CASE k # p
      <4>1. pc'[k] = pc[k] /\ (status'[k] = "done" <=> status[k] = "done")
        BY <1>2, <2>1, <3>4 DEF Moves
      <4>2. QED BY <1>2, <2>1, <2>2, <3>1, <3>2, <4>1
    <3>5. QED BY <3>3, <3>4
  <2>5. QED BY <2>3, <2>4
<1>6. QED BY <1>4, <1>5 DEF Calls

-----------------------------------------------------------------------------
(* Queues and edges *)

LEMMA QueuesKept ==
  ASSUME Ind, waitq' = waitq,
         \A q \in Pid : status[q] = "wait" => status'[q] = "wait"
  PROVE  QueuesHoldWaiters'
<1>1. \A x \in Var : waitq[x] \in Seq(Pid)
  BY DEF Ind, TypeOK
<1>2. \A x \in Var : \A i \in DOMAIN waitq[x] : waitq[x][i] \in Pid
  BY <1>1
<1>3. QED BY <1>2 DEF Ind, Structure, QueuesHoldWaiters

\* A process that starts to wait is in no queue yet.
LEMMA QueuesExtended ==
  ASSUME Ind, NEW p \in Pid, NEW x \in Var, status[p] # "wait",
         waitq' = [waitq EXCEPT ![x] = Append(@, p)],
         status' = [status EXCEPT ![p] = "wait"]
  PROVE  QueuesHoldWaiters'
<1>1. \A y \in Var : waitq[y] \in Seq(Pid) /\ \A i \in DOMAIN waitq[y] : waitq[y][i] \in Pid
  BY DEF Ind, TypeOK
<1>2. status \in [Pid -> Status] /\ waitq \in [Var -> Seq(Pid)]
  BY DEF Ind, TypeOK
<1>3. QueuesHoldWaiters
  BY DEF Ind, Structure
<1>4. \A y \in Var : \A i \in DOMAIN waitq[y] : waitq[y][i] # p
  BY <1>3 DEF QueuesHoldWaiters
<1>5. \A y \in Var : \A i \in DOMAIN waitq'[y] :
         \/ i \in DOMAIN waitq[y] /\ waitq'[y][i] = waitq[y][i]
         \/ y = x /\ i = Len(waitq[x]) + 1 /\ waitq'[y][i] = p
  BY <1>1, <1>2
<1>6. \A y \in Var : \A i \in DOMAIN waitq'[y] :
         \/ i \in DOMAIN waitq[y] /\ waitq'[y][i] = waitq[y][i] /\ waitq'[y][i] # p
         \/ y = x /\ i = Len(waitq[x]) + 1 /\ waitq'[y][i] = p
  BY <1>4, <1>5
<1>7. ASSUME NEW y \in Var, NEW i \in DOMAIN waitq'[y]
      PROVE  status'[waitq'[y][i]] = "wait"
  BY <1>1, <1>2, <1>3, <1>6 DEF QueuesHoldWaiters
<1>8. ASSUME NEW y \in Var, NEW i \in DOMAIN waitq'[y],
             NEW z \in Var, NEW j \in DOMAIN waitq'[z], waitq'[y][i] = waitq'[z][j]
      PROVE  y = z /\ i = j
  <2>1. CASE waitq'[y][i] = p
    BY <1>6, <1>8, <2>1
  <2>2. CASE waitq'[y][i] # p
    BY <1>3, <1>6, <1>8, <2>2 DEF QueuesHoldWaiters
  <2>3. QED BY <2>1, <2>2
<1>9. QED BY <1>7, <1>8 DEF QueuesHoldWaiters

\* The process that is woken leaves the queue, and it was nowhere else.
LEMMA QueuesShortened ==
  ASSUME Ind, NEW x \in Var, waitq[x] # <<>>,
         waitq' = [waitq EXCEPT ![x] = Tail(@)],
         \A q \in Pid : status[q] = "wait" /\ q # Head(waitq[x]) => status'[q] = "wait"
  PROVE  QueuesHoldWaiters'
<1>1. /\ waitq \in [Var -> Seq(Pid)]
      /\ \A y \in Var : \A i \in DOMAIN waitq[y] : waitq[y][i] \in Pid
  BY DEF Ind, TypeOK
<1>2. QueuesHoldWaiters
  BY DEF Ind, Structure
<1> DEFINE Old(y, i) == IF y = x THEN i + 1 ELSE i
<1>3. /\ Len(waitq[x]) \in Nat \ {0} /\ Head(waitq[x]) = waitq[x][1]
      /\ waitq'[x] = Tail(waitq[x])
      /\ Len(Tail(waitq[x])) = Len(waitq[x]) - 1
      /\ \A i \in 1..(Len(waitq[x]) - 1) : Tail(waitq[x])[i] = waitq[x][i + 1]
  BY <1>1
<1>4. ASSUME NEW y \in Var, NEW i \in DOMAIN waitq'[y]
      PROVE  /\ i \in Nat \ {0} /\ Old(y, i) \in DOMAIN waitq[y]
             /\ waitq'[y][i] = waitq[y][Old(y, i)]
             /\ y = x => Old(y, i) # 1
  <2>1. CASE y = x
    <3>1. DOMAIN waitq'[x] = 1..(Len(waitq[x]) - 1)
      BY <1>1, <1>3
    <3>2. i \in 1..(Len(waitq[x]) - 1)
      BY <1>4, <2>1, <3>1
    <3>3. i + 1 \in 1..Len(waitq[x]) /\ i + 1 # 1 /\ i \in Nat \ {0}
      BY <1>3, <3>2
    <3>4. DOMAIN waitq[x] = 1..Len(waitq[x])
      BY <1>1
    <3>5. QED BY <1>3, <2>1, <3>2, <3>3, <3>4
  <2>2. CASE y # x
    <3>1. waitq'[y] = waitq[y] /\ DOMAIN waitq[y] = 1..Len(waitq[y])
      BY <1>1, <2>2
    <3>2. QED BY <1>1, <1>4, <2>2, <3>1
  <2>3. QED BY <2>1, <2>2
<1> HIDE DEF Old
<1>5. 1 \in DOMAIN waitq[x]
  BY <1>1, <1>3
<1>6. ASSUME NEW y \in Var, NEW i \in DOMAIN waitq'[y]
      PROVE  status'[waitq'[y][i]] = "wait"
  <2>1. waitq'[y][i] # Head(waitq[x])
    BY <1>2, <1>3, <1>4, <1>5 DEF QueuesHoldWaiters
  <2>2. QED BY <1>1, <1>2, <1>4, <2>1 DEF QueuesHoldWaiters
<1>7. ASSUME NEW y \in Var, NEW i \in DOMAIN waitq'[y],
             NEW z \in Var, NEW j \in DOMAIN waitq'[z], waitq'[y][i] = waitq'[z][j]
      PROVE  y = z /\ i = j
  <2>1. y = z /\ Old(y, i) = Old(z, j)
    BY <1>2, <1>4, <1>7 DEF QueuesHoldWaiters
  <2>2. QED BY <1>4, <2>1 DEF Old
<1>8. QED BY <1>6, <1>7 DEF QueuesHoldWaiters

LEMMA RefersToMore ==
  ASSUME NEW m, NEW S, NEW T, S \subseteq T, RefersTo(m, S)
  PROVE  RefersTo(m, T)
BY DEF RefersTo

\* A block of an existing process lets the store refer to existing processes.
LEMMA BlockKeepsEdges ==
  ASSUME Ind, NEW n \in Node, Created(n[1]), npcs' = npcs,
         \A S \in SUBSET Node : n \in S /\ RefersTo(mem, S) => RefersTo(mem', S)
  PROVE  EdgesFromProcesses'
BY DEF EdgesFromProcesses, Created, Ind, Structure

-----------------------------------------------------------------------------
(* The actions of a process *)

LEMMA StructureParts ==
  ASSUME Processes', Calls', QueuesHoldWaiters', EdgesFromProcesses'
  PROVE  Structure'
BY DEF Processes, Calls, Structure

\* The calls of a process that does not wait in one are as CallsJoin says.
LEMMA CallsOfMover ==
  ASSUME Ind, NEW p \in Pid, status[p] # "call", NEW n \in Node, n[1] = p,
         NEW k \in Kids(n)
  PROVE  status[k] = "done" /\ pc[k] = IF n[2] < pc[p] THEN CodeLen(k) ELSE 0
BY DEF Ind, Structure, CallsJoin, Calling, Executed

LEMMA RecordedSoFar ==
  ASSUME Ind, NEW p \in Pid, Created(p)
  PROVE  RecordedBefore(p, pc[p])
BY DEF Ind, Structure, ExecutedCallsRecorded, RecordedBefore, Executed

\* A node whose instruction is not a call has no children.
LEMMA OnlyCallsHaveKids ==
  ASSUME Ind, NEW n \in Node, Code[proc[n[1]]][n[2] + 1].op # "call"
  PROVE  Kids(n) = {}
<1>1. callpids[n] = <<>>
  BY DEF Ind, Structure, CallsRecorded
<1>2. QED BY <1>1 DEF Kids

LEMMA CheckPreserves ==
  ASSUME Ind, NEW p \in Pid, Check(p)
  PROVE  Ind'
<1>1. Active(p) /\ Created(p) /\ CodeLen(p) \in 1..MaxPc
  BY ActiveIsCreated, CodeLenType DEF Check, Active
<1>2. status \in [Pid -> Status] /\ pc \in [Pid -> 0..MaxPc]
  BY DEF Ind, TypeOK
<1>3. Moves(p, pc[p], "ready")
  BY <1>2 DEF Check, Moves, Status
<1>4. FitsAt(p, pc[p], "ready")
  <2>1. pc[p] \in 0..CodeLen(p)
    BY <1>1, <1>2 DEF Ind, Structure, ProcessesExist
  <2>2. IF rev THEN pc[p] > 0 ELSE pc[p] < CodeLen(p)
    BY DEF Check, Ind, Structure, PositionsFit
  <2>3. \A n \in Node : n[1] = p => \A k \in Kids(n) :
           status[k] = "done" /\ pc[k] = IF n[2] < pc[p] THEN CodeLen(k) ELSE 0
    BY CallsOfMover DEF Check
  <2>4. QED BY <1>1, <2>1, <2>2, <2>3, RecordedSoFar DEF FitsAt
<1>5. Processes' /\ Calls'
  BY <1>1, <1>3, <1>4, LocalStepProcesses, LocalStepCalls
<1>6. QueuesHoldWaiters'
  BY <1>2, QueuesKept DEF Check
<1>7. EdgesFromProcesses'
  BY DEF Check, EdgesFromProcesses, Created, Ind, Structure
<1>8. TypeOK'
  BY <1>2 DEF Check, Ind, TypeOK, Status
<1>9. QED BY <1>5, <1>6, <1>7, <1>8, StructureParts DEF Ind

\* The end of a block that is not a call: where the process is afterwards.
LEMMA BlockEndFits ==
  ASSUME Ind, NEW p \in Pid, status[p] \in {"ready", "woken"},
         CurrentInstr(p).op # "call"
  PROVE  LET n == CurrentNode(p)
         IN  FitsAt(p, IF rev THEN n[2] ELSE n[2] + 1, AfterBlock(n))
<1> DEFINE n == CurrentNode(p)
           c == IF rev THEN n[2] ELSE n[2] + 1
<1>1. /\ n \in Node /\ n[1] = p /\ n[2] \in 0..(CodeLen(p) - 1)
      /\ n[2] = IF rev /\ status[p] = "ready" THEN pc[p] - 1 ELSE pc[p]
  BY CurrentNodeFits DEF Inside
<1>2. CodeLen(p) \in 1..MaxPc /\ pc[p] \in 0..MaxPc
  BY ActiveIsCreated, CodeLenType DEF Ind, TypeOK
<1>3. AfterBlock(n) = IF c = (IF rev THEN 0 ELSE CodeLen(p)) THEN "done" ELSE "run"
  BY <1>1 DEF AfterBlock, CodeLen
<1>4. Kids(n) = {}
  BY <1>1, OnlyCallsHaveKids DEF CurrentInstr
<1>5. ASSUME NEW m \in Node, m[1] = p, NEW k \in Kids(m)
      PROVE  status[k] = "done" /\ pc[k] = IF m[2] < c THEN CodeLen(k) ELSE 0
  <2>1. status[k] = "done" /\ pc[k] = IF m[2] < pc[p] THEN CodeLen(k) ELSE 0
    BY <1>5, CallsOfMover
  <2>2. m[2] # n[2]
    <3>1. m # n
      BY <1>4, <1>5
    <3>2. m = <<m[1], m[2]>> /\ n = <<n[1], n[2]>>
      BY <1>1 DEF Node
    <3>3. QED BY <1>1, <1>5, <3>1, <3>2
  <2>3. m[2] \in Nat
    BY NodeType
  <2> HIDE DEF n
  <2>4. m[2] < c <=> m[2] < pc[p]
    BY <1>1, <1>2, <2>2, <2>3
  <2>5. QED BY <2>1, <2>4
<1>6. RecordedBefore(p, c)
  <2>1. RecordedBefore(p, pc[p])
    BY RecordedSoFar, ActiveIsCreated
  <2>2. Code[proc[p]][n[2] + 1].op # "call"
    BY DEF CurrentInstr
  <2> HIDE DEF n
  <2>3. ASSUME NEW m \in Node, m[2] < c, m[2] # n[2]
        PROVE  m[2] < pc[p]
    BY <1>1, <1>2, <2>3, NodeType
  <2>4. QED BY <2>1, <2>2, <2>3 DEF RecordedBefore
<1> HIDE DEF n
<1>7. QED BY <1>1, <1>2, <1>3, <1>5, <1>6 DEF FitsAt, n

LEMMA ExecPreserves ==
  ASSUME Ind, NEW p \in Pid, Exec(p)
  PROVE  Ind'
<1> DEFINE n == CurrentNode(p)
           i == CurrentInstr(p)
           c == IF rev THEN n[2] ELSE n[2] + 1
<1>1. Active(p) /\ Created(p) /\ CodeLen(p) \in 1..MaxPc
  BY ActiveIsCreated, CodeLenType DEF Exec, Active
<1>2. /\ status \in [Pid -> Status] /\ pc \in [Pid -> 0..MaxPc]
      /\ mem \in Store /\ rev \in BOOLEAN
  BY DEF Ind, TypeOK
<1>3. n \in Node /\ n[1] = p /\ i \in Instr /\ WellFormed(i)
  BY CurrentNodeFits DEF Exec
<1>4. BlockEffect(n)
  <2>1. Annotates(mem, ExecPlain(mem, i, n), rev, n)
    BY <1>2, <1>3, ExecPlainAnnotates DEF Exec
  <2>2. FinishBlock(ExecPlain(mem, i, n), n)
    BY DEF Exec
  <2> HIDE DEF n, i
  <2>3. QED BY <1>2, <1>3, <2>1, <2>2, FinishBlockEffect
<1>5. Moves(p, c, AfterBlock(n))
  <2>1. AfterBlock(n) \in Status
    BY DEF AfterBlock, Status
  <2>2. QED BY <1>2, <1>3, <2>1 DEF Exec, Moves, FinishBlock
<1>6. FitsAt(p, c, AfterBlock(n))
  BY BlockEndFits DEF Exec
<1>7. Processes' /\ Calls'
  <2> HIDE DEF n, c
  <2> QED BY <1>1, <1>5, <1>6, LocalStepProcesses, LocalStepCalls
<1>8. QueuesHoldWaiters'
  BY <1>2, QueuesKept DEF Exec
<1>9. EdgesFromProcesses'
  <2> HIDE DEF n
  <2> QED BY <1>1, <1>3, <1>4, BlockKeepsEdges DEF Exec, BlockEffect
<1>10. TypeOK'
  <2>1. mem' \in Store
    BY <1>4 DEF BlockEffect
  <2>2. pc' \in [Pid -> 0..MaxPc] /\ status' \in [Pid -> Status]
    <3>1. c \in 0..MaxPc
      <4> HIDE DEF c, n
      <4>1. c \in 0..CodeLen(p)
        BY <1>6 DEF FitsAt
      <4>2. QED BY <1>1, <4>1, BoundsAssumption
    <3>2. pc' = [pc EXCEPT ![p] = c] /\ status' \in [Pid -> Status]
      BY <1>5 DEF Moves
    <3> HIDE DEF c
    <3>3. QED BY <1>2, <3>1, <3>2
  <2>3. QED BY <2>1, <2>2 DEF Exec, Ind, TypeOK
<1>11. QED BY <1>7, <1>8, <1>9, <1>10, StructureParts DEF Ind

LEMMA SemTakePreserves ==
  ASSUME Ind, NEW p \in Pid, SemTake(p)
  PROVE  Ind'
<1> DEFINE n == CurrentNode(p)
           i == CurrentInstr(p)
           c == IF rev THEN n[2] ELSE n[2] + 1
           m == WriteAddr(ReadAddr(mem, i.dst, rev, n), i.dst, SemTo(i), rev, n)
<1>1. /\ Active(p) /\ Created(p) /\ CodeLen(p) \in 1..MaxPc
      /\ status[p] \in {"ready", "woken"} /\ i.op \in {"V", "P"}
  BY ActiveIsCreated, CodeLenType DEF SemTake, Active
<1>2. /\ status \in [Pid -> Status] /\ pc \in [Pid -> 0..MaxPc]
      /\ waitq \in [Var -> Seq(Pid)] /\ mem \in Store /\ rev \in BOOLEAN
  BY DEF Ind, TypeOK
<1>3. n \in Node /\ n[1] = p /\ i \in Instr /\ WellFormed(i)
  BY <1>1, CurrentNodeFits DEF Inside
<1>4. i.dst \in Var /\ SemTo(i) \in Int
  BY <1>1, <1>3 DEF WellFormed, SemTo, SemFrom
<1>5. /\ FinishBlock(m, n)
      /\ status' = [q \in Pid |-> IF q = p THEN AfterBlock(n)
                                  ELSE IF q \in NotifySem(i.dst) THEN "woken"
                                  ELSE status[q]]
      /\ waitq' = [waitq EXCEPT ![i.dst] = IF NotifySem(i.dst) = {} THEN @ ELSE Tail(@)]
      /\ UNCHANGED <<rev, turns, npcs, proc, callpids>>
  BY DEF SemTake
<1>6. NotifySem(i.dst) = IF waitq[i.dst] = <<>> THEN {} ELSE {Head(waitq[i.dst])}
  BY DEF NotifySem
<1>7. waitq[i.dst] # <<>> =>
         /\ Head(waitq[i.dst]) \in Pid
         /\ status[Head(waitq[i.dst])] = "wait"
         /\ Head(waitq[i.dst]) # p
  <2> SUFFICES ASSUME waitq[i.dst] # <<>>
               PROVE  /\ Head(waitq[i.dst]) \in Pid
                      /\ status[Head(waitq[i.dst])] = "wait"
                      /\ Head(waitq[i.dst]) # p
    OBVIOUS
  <2> HIDE DEF i
  <2>1. waitq[i.dst] \in Seq(Pid)
    BY <1>2, <1>4
  <2>2. 1 \in DOMAIN waitq[i.dst] /\ Head(waitq[i.dst]) = waitq[i.dst][1]
        /\ Head(waitq[i.dst]) \in Pid
    BY <2>1
  <2>3. status[waitq[i.dst][1]] = "wait"
    BY <1>4, <2>2 DEF Ind, Structure, QueuesHoldWaiters
  <2>4. QED BY <1>1, <2>2, <2>3
<1>8. BlockEffect(n)
  <2> HIDE DEF n, i
  <2>1. Annotates(mem, m, rev, n)
    BY <1>2, <1>3, <1>4, SemTakeAnnotates
  <2>2. FinishBlock(m, n)
    BY <1>5
  <2> HIDE DEF m
  <2>3. QED BY <1>2, <1>3, <2>1, <2>2, FinishBlockEffect
<1>9. AfterBlock(n) \in {"run", "done"}
  BY DEF AfterBlock
<1>10. Moves(p, c, AfterBlock(n))
  <2>1. pc' = [pc EXCEPT ![p] = c]
    BY <1>3, <1>5 DEF FinishBlock
  <2> HIDE DEF n, i, c, m
  <2>2. status' \in [Pid -> Status] /\ status'[p] = AfterBlock(n)
    BY <1>2, <1>5, <1>9 DEF Status
  <2>3. ASSUME NEW q \in Pid \ {p}
        PROVE  \/ status'[q] = status[q]
               \/ status[q] = "wait" /\ status'[q] = "woken"
    BY <1>5, <1>6, <1>7
  <2>4. QED BY <1>5, <2>1, <2>2, <2>3 DEF Moves
<1>11. FitsAt(p, c, AfterBlock(n))
  BY <1>1, BlockEndFits
<1>12. Processes' /\ Calls'
  <2> HIDE DEF n, c
  <2> QED BY <1>1, <1>10, <1>11, LocalStepProcesses, LocalStepCalls
<1>13. QueuesHoldWaiters'
  <2> HIDE DEF n, i
  <2>1. CASE waitq[i.dst] = <<>>
    <3>1. waitq' = waitq
      BY <1>2, <1>4, <1>5, <1>6, <2>1
    <3>2. \A q \in Pid : status[q] = "wait" => status'[q] = "wait"
      BY <1>1, <1>5, <1>6, <2>1
    <3>3. QED BY <3>1, <3>2, QueuesKept
  <2>2. CASE waitq[i.dst] # <<>>
    <3>1. waitq' = [waitq EXCEPT ![i.dst] = Tail(@)]
      BY <1>5, <1>6, <2>2
    <3>2. \A q \in Pid : status[q] = "wait" /\ q # Head(waitq[i.dst])
             => status'[q] = "wait"
      BY <1>1, <1>5, <1>6, <2>2
    <3>3. QED BY <1>4, <2>2, <3>1, <3>2, QueuesShortened
  <2>3. QED BY <2>1, <2>2
<1>14. EdgesFromProcesses'
  <2> HIDE DEF n
  <2> QED BY <1>1, <1>3, <1>5, <1>8, BlockKeepsEdges DEF BlockEffect
<1>15. TypeOK'
  <2> HIDE DEF n, i, m, c
  <2>1. mem' \in Store
    BY <1>8 DEF BlockEffect
  <2>2. pc' \in [Pid -> 0..MaxPc] /\ status' \in [Pid -> Status]
    <3>1. c \in 0..CodeLen(p)
      BY <1>11 DEF FitsAt
    <3>2. c \in 0..MaxPc
      BY <1>1, <3>1, BoundsAssumption
    <3>3. QED BY <1>2, <1>10, <3>2 DEF Moves
  <2>3. waitq' \in [Var -> Seq(Pid)]
    <3>1. waitq[i.dst] # <<>> => Tail(waitq[i.dst]) \in Seq(Pid)
      BY <1>2, <1>4
    <3>2. QED BY <1>2, <1>4, <1>5, <1>6, <3>1
  <2>4. QED BY <1>5, <2>1, <2>2, <2>3 DEF Ind, TypeOK
<1>16. QED BY <1>12, <1>13, <1>14, <1>15, StructureParts DEF Ind

LEMMA SemWaitPreserves ==
  ASSUME Ind, NEW p \in Pid, SemWait(p)
  PROVE  Ind'
<1> DEFINE n == CurrentNode(p)
           i == CurrentInstr(p)
<1>1. /\ Active(p) /\ Created(p) /\ CodeLen(p) \in 1..MaxPc
      /\ status[p] \in {"ready", "woken"} /\ i.op \in {"V", "P"}
  BY ActiveIsCreated, CodeLenType DEF SemWait, Active
<1>2. /\ status \in [Pid -> Status] /\ pc \in [Pid -> 0..MaxPc]
      /\ waitq \in [Var -> Seq(Pid)] /\ mem \in Store /\ rev \in BOOLEAN
  BY DEF Ind, TypeOK
<1>3. /\ n \in Node /\ n[1] = p /\ i \in Instr /\ WellFormed(i)
      /\ n[2] \in 0..(CodeLen(p) - 1)
      /\ n[2] = IF rev /\ status[p] = "ready" THEN pc[p] - 1 ELSE pc[p]
  BY <1>1, CurrentNodeFits DEF Inside
<1>4. i.dst \in Var
  BY <1>1, <1>3 DEF WellFormed
<1>5. /\ mem' = ReadAddr(mem, i.dst, rev, n)
      /\ pc' = [pc EXCEPT ![p] = n[2]]
      /\ status' = [status EXCEPT ![p] = "wait"]
      /\ waitq' = [waitq EXCEPT ![i.dst] = Append(@, p)]
      /\ UNCHANGED <<rev, turns, npcs, proc, callpids>>
  BY DEF SemWait
<1>6. Kids(n) = {}
  BY <1>1, <1>3, OnlyCallsHaveKids DEF CurrentInstr
<1>7. n = <<p, n[2]>>
  BY <1>3 DEF Node
<1> HIDE DEF n, i
<1>8. Annotates(mem, mem', rev, n)
  BY <1>2, <1>3, <1>4, <1>5, ReadAnnotates
<1>9. Moves(p, n[2], "wait")
  BY <1>2, <1>5 DEF Moves, Status
<1>10. FitsAt(p, n[2], "wait")
  <2>1. ASSUME NEW d \in Node, d[1] = p, NEW k \in Kids(d)
        PROVE  status[k] = "done" /\ pc[k] = IF d[2] < n[2] THEN CodeLen(k) ELSE 0
    <3>1. status[k] = "done" /\ pc[k] = IF d[2] < pc[p] THEN CodeLen(k) ELSE 0
      BY <1>1, <2>1, CallsOfMover
    <3>2. d[2] # n[2]
      BY <1>6, <1>7, <2>1 DEF Node
    <3>3. d[2] \in Nat
      BY NodeType
    <3>4. d[2] < n[2] <=> d[2] < pc[p]
      BY <1>2, <1>3, <3>2, <3>3
    <3>5. QED BY <3>1, <3>4
  <2>2. n[2] \in 0..CodeLen(p) /\ n[2] < CodeLen(p)
    BY <1>1, <1>3
  <2>3. RecordedBefore(p, n[2])
    <3>1. RecordedBefore(p, pc[p])
      BY <1>1, RecordedSoFar
    <3>2. ASSUME NEW d \in Node, d[2] < n[2]
          PROVE  d[2] < pc[p]
      BY <1>2, <1>3, <3>2, NodeType
    <3>3. QED BY <3>1, <3>2 DEF RecordedBefore
  <2>4. QED BY <2>1, <2>2, <2>3 DEF FitsAt
<1>11. Processes' /\ Calls'
  BY <1>1, <1>9, <1>10, LocalStepProcesses, LocalStepCalls
<1>12. QueuesHoldWaiters'
  BY <1>1, <1>4, <1>5, QueuesExtended
<1>13. EdgesFromProcesses'
  BY <1>1, <1>3, <1>5, <1>8, BlockKeepsEdges DEF Annotates
<1>14. TypeOK'
  <2>1. mem' \in Store
    BY <1>8, AnnotatesStore
  <2>2. n[2] \in 0..MaxPc
    BY <1>1, <1>3, BoundsAssumption
  <2>3. pc' \in [Pid -> 0..MaxPc] /\ status' \in [Pid -> Status]
    BY <1>2, <1>5, <2>2 DEF Status
  <2>4. waitq' \in [Var -> Seq(Pid)]
    <3>1. Append(waitq[i.dst], p) \in Seq(Pid)
      BY <1>2, <1>4
    <3>2. QED BY <1>2, <1>4, <1>5, <3>1
  <2>5. QED BY <1>5, <2>1, <2>3, <2>4 DEF Ind, TypeOK
<1>15. QED BY <1>11, <1>12, <1>13, <1>14, StructureParts DEF Ind

LEMMA CallEndPreserves ==
  ASSUME Ind, NEW p \in Pid, CallEnd(p)
  PROVE  Ind'
<1> DEFINE n == CurrentNode(p)
           c == IF rev THEN n[2] ELSE n[2] + 1
<1>1. /\ Active(p) /\ Inside(p) /\ Created(p) /\ CodeLen(p) \in 1..MaxPc
      /\ status[p] = "call"
  BY ActiveIsCreated, CodeLenType DEF CallEnd, Active, Inside
<1>2. /\ status \in [Pid -> Status] /\ pc \in [Pid -> 0..MaxPc]
      /\ mem \in Store /\ rev \in BOOLEAN
  BY DEF Ind, TypeOK
<1>3. /\ n \in Node /\ n[1] = p /\ n[2] \in 0..(CodeLen(p) - 1) /\ n[2] = pc[p]
      /\ n = <<p, pc[p]>>
  BY <1>1, CurrentNodeFits DEF CurrentNode
<1>4. /\ \A j \in DOMAIN callpids[n] : status[callpids[n][j]] = "done"
      /\ FinishBlock(mem, n)
      /\ status' = [status EXCEPT ![p] = AfterBlock(n)]
      /\ UNCHANGED <<rev, turns, npcs, proc, waitq, callpids>>
  BY DEF CallEnd, Joined
<1>5. AfterBlock(n) = IF c = (IF rev THEN 0 ELSE CodeLen(p)) THEN "done" ELSE "run"
  BY <1>3 DEF AfterBlock, CodeLen
<1> HIDE DEF n
<1>6. BlockEffect(n)
  BY <1>2, <1>3, <1>4, AnnotatesItself, FinishBlockEffect
<1>7. Moves(p, c, AfterBlock(n))
  BY <1>2, <1>3, <1>4, <1>5 DEF Moves, FinishBlock, Status
<1>8. ASSUME NEW d \in Node, d[1] = p, NEW k \in Kids(d)
      PROVE  status[k] = "done" /\ pc[k] = IF d[2] < c THEN CodeLen(k) ELSE 0
  <2>1. IF Calling(d)
        THEN status[k] = "done" => pc[k] = IF rev THEN 0 ELSE CodeLen(k)
        ELSE status[k] = "done" /\ pc[k] = IF Executed(d) THEN CodeLen(k) ELSE 0
    BY DEF Ind, Structure, CallsJoin
  <2>2. CASE d = n
    <3>1. status[k] = "done"
      BY <1>4, <1>8, <2>2 DEF Kids
    <3>2. pc[k] = IF rev THEN 0 ELSE CodeLen(k)
      BY <1>1, <1>3, <2>1, <2>2, <3>1 DEF Calling
    <3>3. n[2] < c <=> ~rev
      BY <1>3
    <3>4. QED BY <2>2, <3>1, <3>2, <3>3
  <2>3. CASE d # n
    <3>1. d[2] # pc[p] /\ d[2] \in Nat
      BY <1>3, <1>8, <2>3, NodeType DEF Node
    <3>2. status[k] = "done" /\ pc[k] = IF d[2] < pc[p] THEN CodeLen(k) ELSE 0
      BY <1>8, <2>1, <3>1 DEF Calling, Executed
    <3>3. d[2] < c <=> d[2] < pc[p]
      BY <1>2, <1>3, <3>1
    <3>4. QED BY <3>2, <3>3
  <2>4. QED BY <2>2, <2>3
<1>9. RecordedBefore(p, c)
  <2>1. RecordedBefore(p, pc[p])
    BY <1>1, RecordedSoFar
  <2>2. callpids[n] # <<>>
    BY <1>1, <1>3 DEF Ind, Structure, PositionsFit
  <2>3. ASSUME NEW d \in Node, d[1] = p, d[2] < c
        PROVE  d[2] < pc[p] \/ d = n
    BY <1>2, <1>3, <2>3, NodeType DEF Node
  <2>4. QED BY <2>1, <2>2, <2>3 DEF RecordedBefore
<1>10. FitsAt(p, c, AfterBlock(n))
  <2>1. c \in 0..CodeLen(p)
    BY <1>1, <1>3
  <2>2. IF rev THEN c >= 0 ELSE c <= CodeLen(p)
    BY <1>1, <1>3
  <2>3. AfterBlock(n) = "run" => IF rev THEN c > 0 ELSE c < CodeLen(p)
    BY <1>1, <1>3, <1>5
  <2>4. AfterBlock(n) = "done" => c = IF rev THEN 0 ELSE CodeLen(p)
    BY <1>5
  <2>5. AfterBlock(n) \in {"run", "done"}
    BY DEF AfterBlock
  <2> HIDE DEF c
  <2>6. QED BY <1>8, <1>9, <2>1, <2>3, <2>4, <2>5 DEF FitsAt
<1>11. Processes' /\ Calls'
  <2> HIDE DEF c
  <2> QED BY <1>1, <1>7, <1>10, LocalStepProcesses, LocalStepCalls
<1>12. QueuesHoldWaiters'
  BY <1>1, <1>2, <1>4, QueuesKept
<1>13. EdgesFromProcesses'
  BY <1>1, <1>3, <1>4, <1>6, BlockKeepsEdges DEF BlockEffect
<1>14. TypeOK'
  <2>1. mem' \in Store
    BY <1>6 DEF BlockEffect
  <2>2. c \in 0..MaxPc
    BY <1>1, <1>3, BoundsAssumption
  <2>3. pc' \in [Pid -> 0..MaxPc] /\ status' \in [Pid -> Status]
    <3> HIDE DEF c
    <3> QED BY <1>2, <1>7, <2>2 DEF Moves
  <2>4. QED BY <1>4, <2>1, <2>3 DEF Ind, TypeOK
<1>15. QED BY <1>11, <1>12, <1>13, <1>14, StructureParts DEF Ind

-----------------------------------------------------------------------------
(* The user *)

\* While main is not in a call nobody else is at work: of the youngest pids at
\* work, the parent would be at work too.
LEMMA IndImpliesQuiescent ==
  ASSUME Ind
  PROVE  Quiescent
<1> SUFFICES ASSUME status[0] # "call", NEW q \in Pid \ {0}, Active(q)
             PROVE  FALSE
  BY DEF Quiescent
<1> DEFINE A == {p \in Pid \ {0} : Active(p)}
<1>1. A \subseteq Nat /\ A # {}
  BY DEF Pid
<1>2. PICK a \in A : \A b \in A : a <= b
  <2> HIDE DEF A
  <2> QED BY <1>1, LeastNatural
<1>3. a \in Pid \ {0} /\ Active(a) /\ Created(a)
  BY <1>2, ActiveIsCreated DEF Active
<1>4. PICK n \in Node : a \in Kids(n)
  BY <1>3 DEF Ind, Structure, HaveParents
<1>5. Calling(n)
  BY <1>3, <1>4 DEF Ind, Structure, CallsJoin, Active
<1>6. n[1] < a
  <2>1. callpids[n] # <<>>
    BY <1>4 DEF Kids
  <2>2. QED BY <1>4, <2>1 DEF Ind, Structure, CallsRecorded
<1>7. n[1] \in Pid /\ n[1] # 0 /\ Active(n[1])
  BY <1>5, NodeType DEF Calling, Active
<1>8. n[1] \in A
  BY <1>7
<1>9. a <= n[1] /\ a \in Nat /\ n[1] \in Nat
  BY <1>1, <1>2, <1>8
<1>10. QED BY <1>6, <1>9

\* Pids of children are not 0, and children exist.
LEMMA KidsFacts ==
  ASSUME Ind, NEW n \in Node, NEW k \in Kids(n)
  PROVE  /\ callpids[n] # <<>>
         /\ n[1] \in Pid /\ k \in Pid /\ n[1] < k /\ k # 0 /\ k # n[1]
         /\ Created(n[1]) /\ Created(k)
<1>1. n[1] \in Pid /\ callpids[n] \in Seq(Pid)
  BY NodeType DEF Ind, TypeOK
<1>2. callpids[n] # <<>> /\ k \in Pid
  BY <1>1 DEF Kids
<1>3. n[1] < k /\ Created(n[1]) /\ Created(k)
  BY <1>2 DEF Ind, Structure, CallsRecorded
<1>4. QED BY <1>1, <1>2, <1>3 DEF Pid

\* Main starts or stops working, possibly in the other direction, while no
\* other process is at work.
LEMMA UserStepPreserves ==
  ASSUME Ind, NEW s, s \in {"run", "done"}, status[0] \in {"run", "done"},
         \A p \in Pid \ {0} : ~Active(p),
         status' = [status EXCEPT ![0] = s],
         UNCHANGED <<npcs, proc, pc, mem, waitq, callpids>>,
         s = "run" => IF rev' THEN pc[0] > 0 ELSE pc[0] < CodeLen(0),
         s = "done" => IF rev' THEN pc[0] < CodeLen(0) ELSE pc[0] > 0
  PROVE  Structure'
<1>1. 0 \in Pid /\ status \in [Pid -> Status]
  BY BoundsAssumption DEF Pid, Ind, TypeOK
<1>2. /\ \A q \in Pid : CodeLen(q)' = CodeLen(q)
      /\ \A n \in Node : Kids(n)' = Kids(n) /\ Executed(n)' = Executed(n)
      /\ \A q \in Pid \ {0} : status'[q] = status[q]
      /\ status'[0] = s
      /\ npcs' = npcs /\ proc' = proc /\ pc' = pc /\ mem' = mem
      /\ waitq' = waitq /\ callpids' = callpids
  BY <1>1 DEF CodeLen, Kids, Executed
<1>3. \A n \in Node : ~Calling(n) /\ ~Calling(n)'
  <2>1. \A n \in Node : n[1] \in Pid
    BY NodeType
  <2>2. \A q \in Pid : status[q] # "call" /\ status'[q] # "call"
    BY <1>2 DEF Active
  <2>3. QED BY <2>1, <2>2 DEF Calling
<1>4. ProcessesExist'
  BY <1>2, ActiveIsCreated DEF Ind, Structure, ProcessesExist, Created
<1>5. PositionsFit'
  BY <1>2 DEF PositionsFit, Active, Inside
<1>6. MainCanTurn'
  BY <1>1, <1>2 DEF MainCanTurn
<1>7. CallsRecorded' /\ ExecutedCallsRecorded' /\ HaveParents'
  <2>1. \A n \in Node : n[1] \in Pid
    BY NodeType
  <2>2. CallsRecorded /\ ExecutedCallsRecorded /\ HaveParents
    BY DEF Ind, Structure
  <2>3. QED
    BY <1>2, <2>1, <2>2
       DEF CallsRecorded, ExecutedCallsRecorded, HaveParents, Created
<1>8. CallsJoin'
  <2> SUFFICES ASSUME NEW n \in Node, NEW k \in Kids(n)
               PROVE  /\ status'[k] = "done"
                      /\ pc'[k] = IF Executed(n)' THEN CodeLen(k)' ELSE 0
    BY <1>2, <1>3 DEF CallsJoin
  <2>1. status[k] = "done" /\ pc[k] = IF Executed(n) THEN CodeLen(k) ELSE 0
    BY <1>3 DEF Ind, Structure, CallsJoin
  <2>2. QED BY <1>2, <2>1, KidsFacts
<1>9. QueuesHoldWaiters'
  BY <1>1, <1>2, QueuesKept
<1>10. EdgesFromProcesses'
  BY <1>2 DEF Ind, Structure, EdgesFromProcesses, Created
<1>11. QED BY <1>4, <1>5, <1>6, <1>7, <1>8, <1>9, <1>10 DEF Structure

LEMMA MainFacts ==
  ASSUME Ind
  PROVE  0 \in Pid /\ Created(0) /\ CodeLen(0) = Len(Code[Main]) /\ CodeLen(0) \in 1..MaxPc
<1>1. 0 \in Pid /\ Created(0)
  BY BoundsAssumption DEF Pid, Created, Ind, TypeOK
<1>2. QED BY <1>1, CodeLenType DEF Ind, Structure, ProcessesExist, CodeLen

LEMMA SuspendPreserves ==
  ASSUME Ind, Suspend
  PROVE  Ind'
<1>1. \A p \in Pid \ {0} : ~Active(p)
  BY IndImpliesQuiescent DEF Quiescent, Suspend
<1>2. pc[0] > 0 /\ pc[0] < CodeLen(0)
  BY MainFacts DEF Suspend
<1>3. Structure'
  <2>1. /\ status[0] = "run" /\ status' = [status EXCEPT ![0] = "done"]
        /\ UNCHANGED <<npcs, proc, pc, mem, waitq, callpids>>
    BY DEF Suspend
  <2>2. QED BY <1>1, <1>2, <2>1, UserStepPreserves
<1>4. TypeOK'
  BY MainFacts DEF Suspend, Ind, TypeOK, Status
<1>5. QED BY <1>3, <1>4 DEF Ind

LEMMA ResumePreserves ==
  ASSUME Ind, Resume
  PROVE  Ind'
<1>1. \A p \in Pid \ {0} : ~Active(p)
  BY IndImpliesQuiescent DEF Quiescent, Resume
<1>2. IF rev' THEN pc[0] > 0 ELSE pc[0] < CodeLen(0)
  BY DEF Resume, Ind, TypeOK, Structure, MainCanTurn
<1>3. Structure'
  BY <1>1, <1>2, UserStepPreserves DEF Resume
<1>4. TypeOK'
  <2>1. turns' \in 0..MaxTurns
    BY TurnsAssumption DEF Resume, Ind, TypeOK
  <2>2. QED BY <2>1, MainFacts DEF Resume, Ind, TypeOK, Status
<1>5. QED BY <1>3, <1>4 DEF Ind

\* The pids that a call is about to start: at rest, at the beginning of what
\* they will execute or undo, younger than the caller, and no other node's.
Startable(n, kids) ==
    /\ kids \in Seq(Pid) /\ kids # <<>>
    /\ npcs' \in npcs..(MaxPid + 1)
    /\ \A q \in Pid : Created(q)' <=> Created(q) \/ q \in Range(kids)
    /\ \A q \in Pid : Created(q) => proc'[q] = proc[q]
    /\ \A q \in Pid : ~Created(q) =>
          IF q \in Range(kids) THEN proc'[q] \in ProcName ELSE proc'[q] = proc[q]
    /\ \A k \in Range(kids) :
          /\ n[1] < k
          /\ status[k] \in {"done", "none"}
          /\ pc[k] = IF rev THEN CodeLen(k)' ELSE 0
    /\ \A m \in Node \ {n} : Kids(m) \cap Range(kids) = {}
    /\ Kids(n) \subseteq Range(kids)

\* The children of a node that called before.
LEMMA OldChildrenStartable ==
  ASSUME Ind, NEW p \in Pid, CallBegin(p), callpids[CurrentNode(p)] # <<>>
  PROVE  Startable(CurrentNode(p), CallPids(CurrentNode(p), Len(CurrentInstr(p).names)))
<1> DEFINE n == CurrentNode(p)
           kids == CallPids(n, Len(CurrentInstr(p).names))
<1>1. /\ n \in Node /\ n[1] = p /\ status[p] = "ready"
      /\ n[2] = IF rev THEN pc[p] - 1 ELSE pc[p]
  BY CurrentNodeFits DEF CallBegin
<1>2. kids = callpids[n] /\ npcs' = npcs
  BY DEF CallPids, CallBegin
<1> HIDE DEF n
<1>3. callpids[n] \in Seq(Pid) /\ npcs \in 1..(MaxPid + 1) /\ pc[p] \in 0..MaxPc
  BY <1>1 DEF Ind, TypeOK
<1>4. Range(kids) = Kids(n)
  BY <1>2 DEF Range, Kids
<1>5. \A k \in Kids(n) : k \in Pid /\ n[1] < k /\ Created(k)
  BY <1>1, KidsFacts
<1>6. \A q \in Pid : proc'[q] = proc[q]
  <2>1. \A q \in Pid : q \in Range(kids) => Created(q)
    BY <1>4, <1>5
  <2>2. proc' = [q \in Pid |-> IF (\E j \in DOMAIN kids : kids[j] = q) /\ ~Created(q)
                               THEN CurrentInstr(p).names[q - npcs + 1] ELSE proc[q]]
    BY DEF CallBegin, n
  <2> HIDE DEF kids
  <2>3. QED BY <2>1, <2>2 DEF Range
<1>7. ASSUME NEW k \in Kids(n)
      PROVE  status[k] = "done" /\ pc[k] = IF rev THEN CodeLen(k)' ELSE 0
  <2>1. status[k] = "done" /\ pc[k] = IF n[2] < pc[p] THEN CodeLen(k) ELSE 0
    BY <1>1, <1>7, CallsOfMover
  <2>2. n[2] < pc[p] <=> rev
    BY <1>1, <1>3
  <2>3. CodeLen(k)' = CodeLen(k)
    BY <1>5, <1>6, <1>7 DEF CodeLen
  <2>4. QED BY <2>1, <2>2, <2>3
<1>8. \A m \in Node \ {n} : Kids(m) \cap Kids(n) = {}
  BY <1>1, <1>2 DEF Ind, Structure, CallsRecorded, n
<1>9. \A q \in Pid : Created(q)' <=> Created(q)
  BY <1>2 DEF Created
<1>10. kids # <<>> /\ npcs' \in npcs..(MaxPid + 1)
  BY <1>2, <1>3, BoundsAssumption DEF n
<1> HIDE DEF kids
<1>11. Startable(n, kids)
  BY <1>2, <1>3, <1>4, <1>5, <1>6, <1>7, <1>8, <1>9, <1>10 DEF Startable
<1>12. QED BY <1>11 DEF n, kids

\* The children of a node that calls for the first time: it does so forwards,
\* since a call that was executed has recorded them.
LEMMA NewChildrenStartable ==
  ASSUME Ind, NEW p \in Pid, CallBegin(p), callpids[CurrentNode(p)] = <<>>
  PROVE  Startable(CurrentNode(p), CallPids(CurrentNode(p), Len(CurrentInstr(p).names)))
<1> DEFINE n == CurrentNode(p)
           i == CurrentInstr(p)
           size == Len(i.names)
           kids == CallPids(n, size)
<1>1. /\ n \in Node /\ n[1] = p /\ status[p] = "ready" /\ Created(p)
      /\ n[2] = IF rev THEN pc[p] - 1 ELSE pc[p]
      /\ i \in Instr /\ WellFormed(i) /\ i.op = "call"
  BY CurrentNodeFits, ActiveIsCreated DEF CallBegin
<1>2. /\ kids = [j \in 1..size |-> npcs + j - 1]
      /\ npcs' = npcs + size /\ npcs + size <= MaxPid + 1
  BY DEF CallPids, CallBegin
<1>3. i.names \in Seq(ProcName) /\ i.names # <<>>
  BY <1>1 DEF Instr, WellFormed
<1>4. callpids[n] = <<>> /\ Code[proc[p]][n[2] + 1].op = "call"
  BY <1>1 DEF CurrentInstr
<1>5. proc' = [q \in Pid |-> IF (\E j \in DOMAIN kids : kids[j] = q) /\ ~Created(q)
                             THEN i.names[q - npcs + 1] ELSE proc[q]]
  BY DEF CallBegin
<1> HIDE DEF n, i
<1>6. size \in Nat \ {0} /\ \A j \in 1..size : i.names[j] \in ProcName
  BY <1>3
<1>7. npcs \in 1..(MaxPid + 1) /\ pc[p] \in 0..MaxPc /\ npcs \in Nat /\ MaxPid \in Nat
  BY BoundsAssumption DEF Ind, TypeOK
<1> HIDE DEF size
<1>8. ~rev
  <2>1. ~Executed(n)
    BY <1>1, <1>4 DEF Ind, Structure, ExecutedCallsRecorded
  <2>2. QED BY <1>1, <1>7, <2>1 DEF Executed
<1>9. Range(kids) = npcs..(npcs + size - 1) /\ kids # <<>>
  <2>1. Range(kids) = {npcs + j - 1 : j \in 1..size}
    BY <1>2 DEF Range
  <2>2. \A q \in npcs..(npcs + size - 1) : q - npcs + 1 \in 1..size
                                      /\ q = npcs + (q - npcs + 1) - 1
    BY <1>6, <1>7
  <2>3. \A j \in 1..size : npcs + j - 1 \in npcs..(npcs + size - 1)
    BY <1>6, <1>7
  <2>4. 1 \in DOMAIN kids
    BY <1>2, <1>6
  <2>5. QED BY <2>1, <2>2, <2>3, <2>4
<1>10. kids \in Seq(Pid)
  <2>1. \A j \in 1..size : npcs + j - 1 \in Pid
    BY <1>2, <1>6, <1>7 DEF Pid
  <2>2. QED BY <1>2, <1>6, <2>1
<1>11. \A k \in Range(kids) : k \in Pid /\ ~Created(k)
  BY <1>2, <1>6, <1>7, <1>9 DEF Created, Pid
<1> HIDE DEF kids
<1>12. \A k \in Range(kids) : status[k] = "none" /\ pc[k] = 0 /\ n[1] < k
  <2>1. \A k \in Range(kids) : p < k
    BY <1>1, <1>2, <1>6, <1>7, <1>9 DEF Created, Pid
  <2>2. QED BY <1>1, <1>11, <2>1 DEF Ind, Structure, ProcessesExist
<1>13. \A q \in Pid : Created(q)' <=> Created(q) \/ q \in Range(kids)
  BY <1>2, <1>6, <1>7, <1>9 DEF Created, Pid
<1>14. \A q \in Pid : proc'[q] = IF q \in Range(kids) THEN i.names[q - npcs + 1] ELSE proc[q]
  BY <1>5, <1>11 DEF Range
<1>15. \A q \in Range(kids) : i.names[q - npcs + 1] \in ProcName
  <2>1. \A q \in Range(kids) : q - npcs + 1 \in 1..size
    BY <1>6, <1>7, <1>9
  <2>2. QED BY <1>6, <2>1
<1>16. \A m \in Node : Kids(m) \cap Range(kids) = {}
  BY <1>11, KidsFacts
<1>17. Kids(n) = {}
  BY <1>4 DEF Kids
<1>18. npcs' \in npcs..(MaxPid + 1)
  BY <1>2, <1>6, <1>7
<1>19. Startable(n, kids)
  BY <1>8, <1>9, <1>10, <1>11, <1>12, <1>13, <1>14, <1>15, <1>16, <1>17, <1>18
     DEF Startable
<1>20. QED BY <1>19 DEF n, kids, size, i

LEMMA CallBeginPreserves ==
  ASSUME Ind, NEW p \in Pid, CallBegin(p)
  PROVE  Ind'
<1> DEFINE n == CurrentNode(p)
           kids == CallPids(n, Len(CurrentInstr(p).names))
           K == Range(kids)
<1>1. /\ n \in Node /\ n[1] = p /\ n[2] \in 0..(CodeLen(p) - 1)
      /\ n[2] = IF rev THEN pc[p] - 1 ELSE pc[p]
      /\ n = <<p, n[2]>>
      /\ Code[proc[p]][n[2] + 1].op = "call"
      /\ Created(p) /\ CodeLen(p) \in 1..MaxPc /\ status[p] = "ready"
  <2>1. status[p] = "ready" /\ CurrentInstr(p).op = "call"
    BY DEF CallBegin
  <2>2. QED BY <2>1, CurrentNodeFits, ActiveIsCreated, CodeLenType
            DEF CurrentInstr, CurrentNode
<1>2. Startable(n, kids)
  BY OldChildrenStartable, NewChildrenStartable
<1>3. /\ callpids' = [callpids EXCEPT ![n] = kids]
      /\ pc' = [pc EXCEPT ![p] = n[2]]
      /\ status' = [q \in Pid |-> IF \E j \in DOMAIN kids : kids[j] = q THEN "run"
                                  ELSE IF q = p THEN "call" ELSE status[q]]
      /\ proc' = [q \in Pid |-> IF (\E j \in DOMAIN kids : kids[j] = q) /\ ~Created(q)
                                THEN CurrentInstr(p).names[q - npcs + 1] ELSE proc[q]]
      /\ UNCHANGED <<rev, turns, mem, waitq>>
  BY DEF CallBegin
<1> HIDE DEF n, kids
<1>4. /\ status \in [Pid -> Status] /\ pc \in [Pid -> 0..MaxPc] /\ mem \in Store
      /\ rev \in BOOLEAN /\ callpids \in [Node -> Seq(Pid)] /\ npcs \in 1..(MaxPid + 1)
  BY DEF Ind, TypeOK
<1>5. /\ K \subseteq Pid /\ p \notin K /\ 0 \notin K
      /\ \A k \in K : /\ p < k
                      /\ status[k] \in {"done", "none"}
                      /\ pc[k] = IF rev THEN CodeLen(k)' ELSE 0
  <2>1. K \subseteq Pid
    BY <1>2 DEF Startable, Range
  <2>2. \A k \in K : p < k /\ status[k] \in {"done", "none"}
    BY <1>1, <1>2 DEF Startable
  <2>3. 0 \notin K /\ p \notin K
    BY <2>2 DEF Pid
  <2>4. QED BY <1>2, <2>1, <2>2, <2>3 DEF Startable
<1>6. status' = [q \in Pid |-> IF q \in K THEN "run" ELSE IF q = p THEN "call" ELSE status[q]]
  BY <1>3 DEF Range
<1>7. \A q \in Pid : pc'[q] = IF q = p THEN n[2] ELSE pc[q]
  BY <1>3, <1>4
<1>8. \A q \in Pid : Created(q)' <=> Created(q) \/ q \in K
  BY <1>2 DEF Startable
<1>9. \A q \in Pid : Created(q) => proc'[q] = proc[q] /\ CodeLen(q)' = CodeLen(q)
  BY <1>2 DEF Startable, CodeLen
<1>10. \A q \in Pid : Created(q)' => proc'[q] \in ProcName /\ CodeLen(q)' \in 1..MaxPc
  <2>1. \A q \in Pid : Created(q)' => proc'[q] \in ProcName
    BY <1>2, <1>8 DEF Startable, Ind, Structure, ProcessesExist
  <2>2. QED BY <2>1, CodeFacts DEF CodeLen
<1>11. \A m \in Node : Kids(m)' = IF m = n THEN K ELSE Kids(m)
  <2>1. \A m \in Node : callpids'[m] = IF m = n THEN kids ELSE callpids[m]
    BY <1>3, <1>4
  <2>2. QED BY <2>1 DEF Kids, Range
<1>12. \A m \in Node : m # n => /\ m[1] \in Pid
                                /\ Executed(m)' <=> Executed(m)
                                /\ callpids'[m] = callpids[m]
                                /\ Kids(m) \cap K = {}
  <2> SUFFICES ASSUME NEW m \in Node, m # n
               PROVE  /\ m[1] \in Pid
                      /\ Executed(m)' <=> Executed(m)
                      /\ callpids'[m] = callpids[m]
                      /\ Kids(m) \cap K = {}
    OBVIOUS
  <2>1. m[1] \in Pid /\ m[2] \in Nat
    BY NodeType
  <2>2. m[1] = p => m[2] # n[2]
    BY <1>1 DEF Node
  <2>3. m[2] < pc'[m[1]] <=> m[2] < pc[m[1]]
    BY <1>1, <1>4, <1>7, <2>1, <2>2
  <2>4. QED BY <1>2, <1>3, <1>4, <2>1, <2>3 DEF Executed, Startable
<1>13. callpids'[n] = kids /\ kids # <<>> /\ kids \in Seq(Pid)
  BY <1>1, <1>2, <1>3, <1>4 DEF Startable
<1>14. CallsRecorded /\ ExecutedCallsRecorded /\ HaveParents /\ CallsJoin
  BY DEF Ind, Structure
<1> HIDE DEF K
<1>15. ProcessesExist'
  <2>1. ProcessesExist
    BY DEF Ind, Structure
  <2>2. proc'[0] = Main
    BY <1>9, <2>1, MainFacts DEF ProcessesExist
  <2>3. ASSUME NEW q \in Pid, Created(q)'
        PROVE  proc'[q] \in ProcName /\ status'[q] # "none" /\ pc'[q] <= CodeLen(q)'
    <3>1. CASE q = p
      BY <1>1, <1>5, <1>6, <1>7, <1>9, <1>10, <2>3, <3>1
    <3>2. CASE q \in K
      BY <1>5, <1>6, <1>7, <1>10, <2>3, <3>2
    <3>3. CASE q # p /\ q \notin K
      BY <1>6, <1>7, <1>8, <1>9, <1>10, <2>1, <2>3, <3>3 DEF ProcessesExist
    <3>4. QED BY <3>1, <3>2, <3>3
  <2>4. ASSUME NEW q \in Pid, ~Created(q)'
        PROVE  proc'[q] = NoProc /\ status'[q] = "none" /\ pc'[q] = 0
    <3>1. ~Created(q) /\ q \notin K /\ q # p
      BY <1>1, <1>8, <2>4
    <3>2. proc'[q] = proc[q]
      BY <1>2, <3>1 DEF Startable, K
    <3>3. QED BY <1>6, <1>7, <2>1, <3>1, <3>2 DEF ProcessesExist
  <2>5. QED BY <2>2, <2>3, <2>4 DEF ProcessesExist
<1>16. PositionsFit'
  <2> SUFFICES ASSUME NEW q \in Pid
               PROVE  /\ status'[q] \in {"run", "ready"} =>
                            IF rev' THEN pc'[q] > 0 ELSE pc'[q] < CodeLen(q)'
                      /\ Inside(q)' => pc'[q] < CodeLen(q)'
                      /\ status'[q] = "call" => callpids'[<<q, pc'[q]>>] # <<>>
    BY DEF PositionsFit
  <2>1. CASE q = p
    <3>1. status'[p] = "call" /\ pc'[p] = n[2] /\ CodeLen(p)' = CodeLen(p)
      BY <1>1, <1>5, <1>6, <1>7, <1>9
    <3>2. n[2] < CodeLen(p)
      BY <1>1
    <3>3. callpids'[<<p, n[2]>>] # <<>>
      BY <1>1, <1>13
    <3>4. QED BY <2>1, <3>1, <3>2, <3>3 DEF Inside
  <2>2. CASE q \in K
    BY <1>3, <1>5, <1>6, <1>7, <1>8, <1>10, <2>2 DEF Inside
  <2>3. CASE q # p /\ q \notin K
    <3>1. status'[q] = status[q] /\ pc'[q] = pc[q]
      BY <1>6, <1>7, <2>3
    <3>2. CASE status[q] = "none"
      BY <3>1, <3>2 DEF Inside
    <3>3. CASE status[q] # "none"
      <4>1. CodeLen(q)' = CodeLen(q)
        BY <1>9, <3>3, ActiveIsCreated
      <4>2. <<q, pc[q]>> \in Node /\ <<q, pc[q]>> # n
        BY <1>1, <1>4, <2>3 DEF Node
      <4>3. callpids'[<<q, pc[q]>>] = callpids[<<q, pc[q]>>]
        BY <1>12, <4>2
      <4>4. QED BY <1>3, <3>1, <4>1, <4>3 DEF Ind, Structure, PositionsFit, Inside
    <3>4. QED BY <3>2, <3>3
  <2>4. QED BY <2>1, <2>2, <2>3
<1>17. MainCanTurn'
  <2>1. MainCanTurn
    BY DEF Ind, Structure
  <2>2. CASE p = 0
    BY <1>5, <1>6, <2>2, MainFacts DEF MainCanTurn
  <2>3. CASE p # 0
    BY <1>3, <1>5, <1>6, <1>7, <1>9, <2>1, <2>3, MainFacts DEF MainCanTurn
  <2>4. QED BY <2>2, <2>3
<1>18. CallsRecorded'
  <2> SUFFICES ASSUME NEW m \in Node, callpids'[m] # <<>>
               PROVE  /\ Created(m[1])'
                      /\ m[2] < CodeLen(m[1])'
                      /\ Code[proc'[m[1]]][m[2] + 1].op = "call"
                      /\ \A k \in Kids(m)' : m[1] < k /\ Created(k)'
                      /\ \A d \in Node : d # m => Kids(d)' \cap Kids(m)' = {}
    BY DEF CallsRecorded
  <2>1. CASE m = n
    <3>1. Created(p)' /\ proc'[p] = proc[p] /\ CodeLen(p)' = CodeLen(p)
      BY <1>1, <1>8, <1>9
    <3>2. n[2] < CodeLen(p)
      BY <1>1
    <3>3. QED BY <1>1, <1>5, <1>8, <1>11, <1>12, <2>1, <3>1, <3>2
  <2>2. CASE m # n
    <3>1. callpids[m] # <<>> /\ Kids(m)' = Kids(m) /\ m[1] \in Pid
      BY <1>11, <1>12, <2>2
    <3>2. /\ Created(m[1]) /\ m[2] < CodeLen(m[1])
          /\ Code[proc[m[1]]][m[2] + 1].op = "call"
          /\ \A k \in Kids(m) : m[1] < k /\ Created(k)
          /\ \A d \in Node : d # m => Kids(d) \cap Kids(m) = {}
      BY <1>14, <3>1 DEF CallsRecorded
    <3>3. \A k \in Kids(m) : k \in Pid
      BY KidsFacts
    <3>4. \A d \in Node : d # m => Kids(d)' \cap Kids(m) = {}
      BY <1>11, <1>12, <2>2, <3>2
    <3>5. QED BY <1>8, <1>9, <3>1, <3>2, <3>3, <3>4
  <2>3. QED BY <2>1, <2>2
<1>19. ExecutedCallsRecorded'
  <2> SUFFICES ASSUME NEW m \in Node, Created(m[1])', Executed(m)',
                      Code[proc'[m[1]]][m[2] + 1].op = "call"
               PROVE  callpids'[m] # <<>>
    BY DEF ExecutedCallsRecorded
  <2>1. CASE m = n
    BY <1>13, <2>1
  <2>2. CASE m # n
    <3>1. m[1] \in Pid /\ m[2] \in Nat
      BY NodeType
    <3>2. Executed(m)
      BY <1>12, <2>2
    <3>3. Created(m[1])
      BY <3>1, <3>2 DEF Executed, Ind, Structure, ProcessesExist
    <3>4. QED BY <1>9, <1>12, <1>14, <2>2, <3>1, <3>2, <3>3 DEF ExecutedCallsRecorded
  <2>3. QED BY <2>1, <2>2
<1>20. HaveParents'
  <2> SUFFICES ASSUME NEW q \in Pid \ {0}, Created(q)'
               PROVE  \E m \in Node : q \in Kids(m)'
    BY DEF HaveParents
  <2>1. CASE q \in K
    BY <1>1, <1>11, <2>1
  <2>2. CASE q \notin K
    <3>1. PICK m \in Node : q \in Kids(m)
      BY <1>8, <1>14, <2>2 DEF HaveParents
    <3>2. m # n
      BY <1>2, <2>2, <3>1 DEF Startable, K
    <3>3. QED BY <1>11, <3>1, <3>2
  <2>3. QED BY <2>1, <2>2
<1>21. CallsJoin'
  <2> SUFFICES ASSUME NEW m \in Node, NEW k \in Kids(m)'
               PROVE  IF Calling(m)'
                      THEN status'[k] = "done" =>
                              pc'[k] = IF rev' THEN 0 ELSE CodeLen(k)'
                      ELSE /\ status'[k] = "done"
                           /\ pc'[k] = IF Executed(m)' THEN CodeLen(k)' ELSE 0
    BY DEF CallsJoin
  <2>1. CASE m = n
    <3>1. k \in K /\ status'[k] = "run"
      BY <1>5, <1>6, <1>11, <2>1
    <3>2. Calling(m)'
      BY <1>1, <1>5, <1>6, <1>7, <2>1 DEF Calling
    <3>3. QED BY <3>1, <3>2
  <2>2. CASE m # n
    <3>1. k \in Kids(m) /\ k \notin K
      BY <1>11, <1>12, <2>2
    <3>2. k \in Pid /\ Created(k) /\ m[1] \in Pid
      BY <3>1, KidsFacts
    <3>3. Calling(m)' <=> Calling(m)
      <4>1. CASE m[1] = p
        <5>1. m[2] # n[2]
          BY <1>1, <2>2, <4>1 DEF Node
        <5>2. QED BY <1>1, <1>7, <4>1, <5>1 DEF Calling
      <4>2. CASE m[1] # p
        BY <1>5, <1>6, <1>7, <3>2, <4>2 DEF Calling
      <4>3. QED BY <4>1, <4>2
    <3>4. IF Calling(m)
          THEN status[k] = "done" => pc[k] = IF rev THEN 0 ELSE CodeLen(k)
          ELSE status[k] = "done" /\ pc[k] = IF Executed(m) THEN CodeLen(k) ELSE 0
      BY <1>14, <3>1 DEF CallsJoin
    <3>5. CASE k = p
      BY <1>1, <1>6, <3>1, <3>3, <3>4, <3>5
    <3>6. CASE k # p
      <4>1. status'[k] = status[k] /\ pc'[k] = pc[k] /\ CodeLen(k)' = CodeLen(k)
        BY <1>6, <1>7, <1>9, <3>1, <3>2, <3>6
      <4>2. QED BY <1>3, <1>12, <2>2, <3>3, <3>4, <4>1
    <3>7. QED BY <3>5, <3>6
  <2>3. QED BY <2>1, <2>2
<1>22. QueuesHoldWaiters'
  <2>1. \A q \in Pid : status[q] = "wait" => status'[q] = "wait"
    BY <1>1, <1>5, <1>6
  <2>2. QED BY <1>3, <2>1, QueuesKept
<1>23. EdgesFromProcesses'
  <2>1. {d \in Node : Created(d[1])} \subseteq {d \in Node : Created(d[1])'}
    BY <1>8, NodeType
  <2>2. RefersTo(mem, {d \in Node : Created(d[1])})
    BY DEF Ind, Structure, EdgesFromProcesses
  <2>3. RefersTo(mem, {d \in Node : Created(d[1])'})
    BY <2>1, <2>2, RefersToMore
  <2>4. QED BY <1>3, <2>3 DEF EdgesFromProcesses, Created
<1>24. TypeOK'
  <2>1. npcs' \in 1..(MaxPid + 1)
    BY <1>2, <1>4, BoundsAssumption DEF Startable
  <2>2. proc' \in [Pid -> ProcName \cup {NoProc}]
    <3>1. \A q \in Pid : proc'[q] \in ProcName \cup {NoProc}
      BY <1>10, <1>15 DEF ProcessesExist
    <3>2. QED BY <1>3, <3>1
  <2>3. n[2] \in 0..MaxPc
    BY <1>1, BoundsAssumption
  <2>4. pc' \in [Pid -> 0..MaxPc] /\ status' \in [Pid -> Status]
    BY <1>3, <1>4, <1>6, <2>3 DEF Status
  <2>5. callpids' \in [Node -> Seq(Pid)]
    BY <1>3, <1>4, <1>13
  <2>6. QED BY <1>3, <2>1, <2>2, <2>4, <2>5 DEF Ind, TypeOK
<1>25. Processes' /\ Calls'
  BY <1>15, <1>16, <1>17, <1>18, <1>19, <1>20, <1>21 DEF Processes, Calls
<1>26. QED BY <1>22, <1>23, <1>24, <1>25, StructureParts DEF Ind

-----------------------------------------------------------------------------
(* The invariants *)

LEMMA InitImpliesInd ==
  ASSUME Init
  PROVE  Ind
<1>1. 0 \in Pid /\ MaxPid \in Nat /\ MaxPc \in Nat \ {0}
  BY BoundsAssumption DEF Pid
<1>2. EmptyStore \in Store
  BY EmptyStoreType
<1>3. TypeOK
  <2>1. rev \in BOOLEAN /\ turns \in 0..MaxTurns /\ npcs \in 1..(MaxPid + 1)
    BY <1>1, TurnsAssumption DEF Init
  <2>2. /\ proc \in [Pid -> ProcName \cup {NoProc}]
        /\ pc \in [Pid -> 0..MaxPc]
        /\ status \in [Pid -> Status]
    BY <1>1, CodeAssumption DEF Init, Status
  <2>3. waitq \in [Var -> Seq(Pid)] /\ callpids \in [Node -> Seq(Pid)]
    BY DEF Init
  <2>4. QED BY <1>2, <2>1, <2>2, <2>3 DEF Init, TypeOK
<1>4. Main \in ProcName /\ Len(Code[Main]) \in 1..MaxPc
  BY CodeAssumption, CodeFacts
<1>5. \A q \in Pid : Created(q) <=> q = 0
  BY DEF Init, Created, Pid
<1>6. \A m \in Node : m[1] \in Pid /\ callpids[m] = <<>> /\ Kids(m) = {}
  BY NodeType DEF Init, Kids
<1>7. ProcessesExist /\ PositionsFit /\ MainCanTurn
  BY <1>1, <1>4, <1>5
     DEF Init, ProcessesExist, PositionsFit, MainCanTurn, CodeLen, Inside
<1>8. CallsRecorded /\ HaveParents /\ CallsJoin
  BY <1>5, <1>6 DEF CallsRecorded, HaveParents, CallsJoin
<1>9. ExecutedCallsRecorded
  <2>1. \A m \in Node : ~Executed(m)
    BY NodeType DEF Init, Executed
  <2>2. QED BY <2>1 DEF ExecutedCallsRecorded
<1>10. QueuesHoldWaiters
  BY DEF Init, QueuesHoldWaiters
<1>11. EdgesFromProcesses
  <2>1. <<0, 0>> \in {d \in Node : Created(d[1])}
    BY <1>1, <1>5 DEF Node
  <2>2. \A x \in Var : EmptyStore.last[x] \in {<<0, 0>>, Bot}
    BY DEF EmptyStore, Mem, InitLast
  <2>3. \A d \in Node : EmptyStore.inc[d] = <<>>
    BY DEF EmptyStore, Mem
  <2>4. QED BY <2>1, <2>2, <2>3 DEF Init, EdgesFromProcesses, RefersTo
<1>12. QED BY <1>3, <1>7, <1>8, <1>9, <1>10, <1>11 DEF Ind, Structure

LEMMA StutterPreserves ==
  ASSUME Ind, UNCHANGED vars
  PROVE  Ind'
<1>1. /\ rev' = rev /\ turns' = turns /\ npcs' = npcs /\ proc' = proc /\ pc' = pc
      /\ status' = status /\ mem' = mem /\ waitq' = waitq /\ callpids' = callpids
  BY DEF vars
<1>2. /\ \A q \in Pid : Created(q)' = Created(q) /\ CodeLen(q)' = CodeLen(q)
      /\ \A m \in Node : /\ Kids(m)' = Kids(m)
                         /\ Executed(m)' = Executed(m)
                         /\ Calling(m)' = Calling(m)
  BY <1>1 DEF Created, CodeLen, Kids, Executed, Calling
<1>3. TypeOK'
  BY <1>1 DEF Ind, TypeOK
<1>4. ProcessesExist' /\ PositionsFit' /\ MainCanTurn'
  BY <1>1, <1>2, MainFacts
     DEF Ind, Structure, ProcessesExist, PositionsFit, MainCanTurn, Inside
<1>5. CallsRecorded' /\ ExecutedCallsRecorded' /\ HaveParents'
  BY <1>1, <1>2, NodeType
     DEF Ind, Structure, CallsRecorded, ExecutedCallsRecorded, HaveParents, Created
<1>6. CallsJoin'
  BY <1>1 DEF Ind, Structure, CallsJoin, Kids, Executed, Calling, CodeLen
<1>7. QueuesHoldWaiters'
  BY <1>1, QueuesKept
<1>8. EdgesFromProcesses'
  BY <1>1 DEF Ind, Structure, EdgesFromProcesses, Created
<1>9. QED BY <1>3, <1>4, <1>5, <1>6, <1>7, <1>8 DEF Ind, Structure

LEMMA NextPreserves ==
  ASSUME Ind, [Next]_vars
  PROVE  Ind'
<1>1. ASSUME NEW p \in Pid, ProcStep(p)
      PROVE  Ind'
  BY <1>1, CheckPreserves, ExecPreserves, SemTakePreserves, SemWaitPreserves,
     CallBeginPreserves, CallEndPreserves DEF ProcStep
<1>2. CASE Suspend \/ Resume
  BY <1>2, SuspendPreserves, ResumePreserves
<1>3. CASE Idle \/ Crashed \/ UNCHANGED vars
  BY <1>3, StutterPreserves DEF Idle, Crashed
<1>4. QED BY <1>1, <1>2, <1>3 DEF Next

\* Ind holds in every reachable state.
THEOREM Invariance == Spec => []Ind
<1>1. Init => Ind
  BY InitImpliesInd
<1>2. Ind /\ [Next]_vars => Ind'
  BY NextPreserves
<1>3. QED BY <1>1, <1>2, PTL DEF Spec

\* Whatever the program and however often the user turns around, the variables
\* keep their types: no pid, counter or node leaves the slices of the runtime.
THEOREM TypeCorrect == Spec => []TypeOK
<1>1. Ind => TypeOK
  BY DEF Ind
<1>2. QED BY <1>1, Invariance, PTL

\* The processes, their calls and the queues of the semaphores hang together as
\* CrilInvariant says: a call returns when its children are at their end
\* (backwards at their beginning), and only waiting processes are queued.
THEOREM StructureHolds == Spec => []Structure
<1>1. Ind => Structure
  BY DEF Ind
<1>2. QED BY <1>1, Invariance, PTL

\* A user who stops main outside a call has stopped the whole program.
THEOREM TurnsAreQuiescent == Spec => []Quiescent
<1>1. Ind => Quiescent
  BY IndImpliesQuiescent
<1>2. QED BY <1>1, Invariance, PTL

-----------------------------------------------------------------------------
(* The answer of isRunnable outlives its question *)

\* A step of process q, as seen by the others: the store changes as by a block
\* of q, nobody else moves or becomes ready, and forwards q does not go back.
QuietFor(q) ==
    /\ rev' = rev
    /\ \E n \in Node : n[1] = q /\ BlockEffect(n)
    /\ status'[q] # "ready"
    /\ \A p \in Pid \ {q} :
          /\ pc'[p] = pc[p]
          /\ status'[p] = "ready" => status[p] = "ready"
    /\ ~rev => pc'[q] \in Int /\ pc'[q] >= pc[q]

LEMMA AnnotatesIsBlockEffect ==
  ASSUME NEW n \in Node, Annotates(mem, mem', rev, n), rev \in BOOLEAN, mem \in Store
  PROVE  BlockEffect(n)
BY DEF Annotates, BlockEffect, Store

LEMMA ExecIsQuiet ==
  ASSUME Ind, NEW q \in Pid, Exec(q)
  PROVE  QuietFor(q)
<1> DEFINE n == CurrentNode(q)
           i == CurrentInstr(q)
<1>1. /\ status \in [Pid -> Status] /\ pc \in [Pid -> 0..MaxPc]
      /\ mem \in Store /\ rev \in BOOLEAN
  BY DEF Ind, TypeOK
<1>2. /\ n \in Node /\ n[1] = q /\ i \in Instr /\ WellFormed(i)
      /\ ~rev => n[2] = pc[q]
  BY CurrentNodeFits DEF Exec
<1>3. /\ FinishBlock(ExecPlain(mem, i, n), n) /\ rev' = rev
      /\ status' = [status EXCEPT ![q] = AfterBlock(n)]
  BY DEF Exec
<1>4. Annotates(mem, ExecPlain(mem, i, n), rev, n)
  BY <1>1, <1>2, ExecPlainAnnotates DEF Exec
<1> HIDE DEF n, i
<1>5. BlockEffect(n)
  BY <1>1, <1>2, <1>3, <1>4, FinishBlockEffect
<1>6. QED BY <1>1, <1>2, <1>3, <1>5 DEF QuietFor, FinishBlock, AfterBlock

LEMMA SemTakeIsQuiet ==
  ASSUME Ind, NEW q \in Pid, SemTake(q)
  PROVE  QuietFor(q)
<1> DEFINE n == CurrentNode(q)
           i == CurrentInstr(q)
           m == WriteAddr(ReadAddr(mem, i.dst, rev, n), i.dst, SemTo(i), rev, n)
<1>1. /\ status \in [Pid -> Status] /\ pc \in [Pid -> 0..MaxPc]
      /\ mem \in Store /\ rev \in BOOLEAN
  BY DEF Ind, TypeOK
<1>2. /\ n \in Node /\ n[1] = q /\ i \in Instr /\ WellFormed(i)
      /\ ~rev => n[2] = pc[q]
  BY CurrentNodeFits DEF SemTake, Inside
<1>3. i.dst \in Var /\ SemTo(i) \in Int
  BY <1>2 DEF SemTake, WellFormed, SemTo, SemFrom
<1>4. /\ FinishBlock(m, n) /\ rev' = rev
      /\ status' = [p \in Pid |-> IF p = q THEN AfterBlock(n)
                                  ELSE IF p \in NotifySem(i.dst) THEN "woken"
                                  ELSE status[p]]
  BY DEF SemTake
<1> HIDE DEF n, i
<1>5. Annotates(mem, m, rev, n)
  BY <1>1, <1>2, <1>3, SemTakeAnnotates
<1> HIDE DEF m
<1>6. BlockEffect(n)
  BY <1>1, <1>2, <1>4, <1>5, FinishBlockEffect
<1>7. QED BY <1>1, <1>2, <1>4, <1>6 DEF QuietFor, FinishBlock, AfterBlock

LEMMA SemWaitIsQuiet ==
  ASSUME Ind, NEW q \in Pid, SemWait(q)
  PROVE  QuietFor(q)
<1> DEFINE n == CurrentNode(q)
           i == CurrentInstr(q)
<1>1. /\ status \in [Pid -> Status] /\ pc \in [Pid -> 0..MaxPc]
      /\ mem \in Store /\ rev \in BOOLEAN
  BY DEF Ind, TypeOK
<1>2. /\ n \in Node /\ n[1] = q /\ WellFormed(i)
      /\ ~rev => n[2] = pc[q]
  BY CurrentNodeFits DEF SemWait, Inside
<1>3. i.dst \in Var
  BY <1>2 DEF SemWait, WellFormed
<1>4. /\ mem' = ReadAddr(mem, i.dst, rev, n) /\ rev' = rev
      /\ pc' = [pc EXCEPT ![q] = n[2]]
      /\ status' = [status EXCEPT ![q] = "wait"]
  BY DEF SemWait
<1> HIDE DEF n, i
<1>5. BlockEffect(n)
  BY <1>1, <1>2, <1>3, <1>4, ReadAnnotates, AnnotatesIsBlockEffect
<1>6. QED BY <1>1, <1>2, <1>4, <1>5 DEF QuietFor

LEMMA CallBeginIsQuiet ==
  ASSUME Ind, NEW q \in Pid, CallBegin(q)
  PROVE  QuietFor(q)
<1> DEFINE n == CurrentNode(q)
           kids == CallPids(n, Len(CurrentInstr(q).names))
<1>1. /\ status \in [Pid -> Status] /\ pc \in [Pid -> 0..MaxPc]
      /\ mem \in Store /\ rev \in BOOLEAN
  BY DEF Ind, TypeOK
<1>2. n \in Node /\ n[1] = q /\ (~rev => n[2] = pc[q])
  BY CurrentNodeFits DEF CallBegin
<1>3. /\ mem' = mem /\ rev' = rev
      /\ pc' = [pc EXCEPT ![q] = n[2]]
      /\ status' = [p \in Pid |-> IF \E j \in DOMAIN kids : kids[j] = p THEN "run"
                                  ELSE IF p = q THEN "call" ELSE status[p]]
  BY DEF CallBegin
<1> HIDE DEF n, kids
<1>4. BlockEffect(n)
  BY <1>1, <1>2, <1>3, AnnotatesItself, AnnotatesIsBlockEffect
<1>5. QED BY <1>1, <1>2, <1>3, <1>4 DEF QuietFor

LEMMA CallEndIsQuiet ==
  ASSUME Ind, NEW q \in Pid, CallEnd(q)
  PROVE  QuietFor(q)
<1> DEFINE n == CurrentNode(q)
<1>1. /\ status \in [Pid -> Status] /\ pc \in [Pid -> 0..MaxPc]
      /\ mem \in Store /\ rev \in BOOLEAN
  BY DEF Ind, TypeOK
<1>2. n \in Node /\ n[1] = q /\ (~rev => n[2] = pc[q])
  BY CurrentNodeFits DEF CallEnd, Inside
<1>3. /\ FinishBlock(mem, n) /\ rev' = rev
      /\ status' = [status EXCEPT ![q] = AfterBlock(n)]
  BY DEF CallEnd
<1> HIDE DEF n
<1>4. BlockEffect(n)
  BY <1>1, <1>2, <1>3, AnnotatesItself, FinishBlockEffect
<1>5. QED BY <1>1, <1>2, <1>3, <1>4 DEF QuietFor, FinishBlock, AfterBlock

\* Forwards the edges of p's next block do not change and their sources stay
\* executed; backwards nobody can come to use what p's last block produced.
LEMMA QuietStepKeepsAnswer ==
  ASSUME Ind, NEW q \in Pid, QuietFor(q), mem'.err = "none",
         NEW p \in Pid, p # q, IsRunnable(p)
  PROVE  IsRunnable(p)'
<1>1. PICK n \in Node : n[1] = q /\ BlockEffect(n)
  BY DEF QuietFor
<1>2. pc'[p] = pc[p] /\ rev' = rev
  BY DEF QuietFor
<1>3. pc \in [Pid -> 0..MaxPc] /\ mem \in Store /\ mem' \in Store
  BY <1>1 DEF Ind, TypeOK, BlockEffect
<1>4. CASE rev
  <2>1. pc[p] > 0 /\ mem.ctr[<<p, pc[p] - 1>>] = 0
    BY <1>4 DEF IsRunnable
  <2>2. <<p, pc[p] - 1>> \in Node
    BY <1>3, <2>1, BoundsAssumption DEF Node
  <2>3. mem'.ctr[<<p, pc[p] - 1>>] = 0
    BY <1>1, <1>4, <2>1, <2>2 DEF BlockEffect
  <2>4. QED BY <1>2, <1>4, <2>1, <2>3 DEF IsRunnable
<1>5. CASE ~rev
  <2> DEFINE d == <<p, pc[p]>>
             in == mem.inc[d]
  <2>1. d \in Node /\ d # n
    BY <1>1, <1>3, BoundsAssumption DEF Node
  <2>2. mem'.inc[d] = in
    BY <1>1, <2>1 DEF BlockEffect
  <2>3. \A i \in DOMAIN in : in[i].src # Bot /\ Created(in[i].src[1])
                                => in[i].src[2] < pc[in[i].src[1]]
    BY <1>5 DEF IsRunnable
  <2>4. ASSUME NEW i \in DOMAIN in, in[i].src # Bot
        PROVE  in[i].src[2] < pc'[in[i].src[1]]
    <3> DEFINE s == in[i].src
    <3>1. s \in Node /\ Created(s[1])
      BY <2>1, <2>4 DEF Ind, Structure, EdgesFromProcesses, RefersTo
    <3>2. s[2] < pc[s[1]]
      BY <2>3, <2>4, <3>1
    <3> HIDE DEF s
    <3>3. s[1] \in Pid /\ s[2] \in Nat
      BY <3>1, NodeType
    <3>4. pc'[s[1]] >= pc[s[1]] /\ pc'[s[1]] \in Int /\ pc[s[1]] \in Int
      <4>1. CASE s[1] = q
        BY <1>3, <1>5, <4>1 DEF QuietFor
      <4>2. CASE s[1] # q
        BY <1>3, <3>3, <4>2 DEF QuietFor
      <4>3. QED BY <4>1, <4>2
    <3>5. s[2] < pc'[s[1]]
      BY <3>2, <3>3, <3>4
    <3>6. QED BY <3>5 DEF s
  <2>5. QED BY <1>2, <1>5, <2>2, <2>4 DEF IsRunnable
<1>6. QED BY <1>4, <1>5

LEMMA CheckStillHoldsPreserved ==
  ASSUME Ind, CheckStillHolds, [Next]_vars
  PROVE  CheckStillHolds'
<1>1. ASSUME mem.err = "none", NEW q \in Pid, ProcStep(q)
      PROVE  CheckStillHolds'
  <2>1. CASE Check(q)
    <3>1. /\ IsRunnable(q) /\ rev' = rev /\ pc' = pc /\ mem' = mem /\ npcs' = npcs
          /\ \A p \in Pid : p # q => status'[p] = status[p]
      BY <2>1 DEF Check, Ind, TypeOK
    <3>2. \A p \in Pid : IsRunnable(p)' <=> IsRunnable(p)
      BY <3>1 DEF IsRunnable, Created
    <3>3. QED BY <1>1, <3>1, <3>2 DEF CheckStillHolds
  <2>2. CASE ~Check(q)
    <3>1. QuietFor(q)
      BY <1>1, <2>2, ExecIsQuiet, SemTakeIsQuiet, SemWaitIsQuiet,
         CallBeginIsQuiet, CallEndIsQuiet DEF ProcStep
    <3>2. ASSUME mem'.err = "none", NEW p \in Pid, status'[p] = "ready"
          PROVE  IsRunnable(p)'
      <4>1. p # q /\ status[p] = "ready"
        BY <3>1, <3>2 DEF QuietFor
      <4>2. IsRunnable(p)
        BY <1>1, <4>1 DEF CheckStillHolds
      <4>3. QED BY <3>1, <3>2, <4>1, <4>2, QuietStepKeepsAnswer
    <3>3. QED BY <3>2 DEF CheckStillHolds
  <2>3. QED BY <2>1, <2>2
<1>2. CASE Suspend
  <2>1. /\ rev' = rev /\ pc' = pc /\ mem' = mem /\ npcs' = npcs
        /\ \A p \in Pid : status'[p] = "ready" => status[p] = "ready"
    BY <1>2 DEF Suspend, Ind, TypeOK
  <2>2. \A p \in Pid : IsRunnable(p)' <=> IsRunnable(p)
    BY <2>1 DEF IsRunnable, Created
  <2>3. QED BY <2>1, <2>2 DEF CheckStillHolds
<1>3. CASE Resume
  <2>1. \A p \in Pid : status'[p] # "ready"
    <3>1. \A p \in Pid \ {0} : ~Active(p)
      BY <1>3, IndImpliesQuiescent DEF Quiescent, Resume
    <3>2. QED BY <1>3, <3>1, MainFacts DEF Resume, Active, Ind, TypeOK
  <2>2. QED BY <2>1 DEF CheckStillHolds
<1>4. CASE UNCHANGED vars
  <2>1. /\ rev' = rev /\ pc' = pc /\ mem' = mem /\ npcs' = npcs /\ status' = status
    BY <1>4 DEF vars
  <2>2. \A p \in Pid : IsRunnable(p)' <=> IsRunnable(p)
    BY <2>1 DEF IsRunnable, Created
  <2>3. QED BY <2>1, <2>2 DEF CheckStillHolds
<1>5. QED BY <1>1, <1>2, <1>3, <1>4 DEF Next, Idle, Crashed

\* The runtime asks isRunnable without the mutex and never again: whatever the
\* other processes do in between, the block it then executes or undoes is still
\* one the DAG allows, in every program and after any number of turns.
THEOREM CheckHolds == Spec => []CheckStillHolds
<1>1. Init => CheckStillHolds
  BY DEF Init, CheckStillHolds
<1>2. Ind /\ CheckStillHolds /\ [Next]_vars => CheckStillHolds'
  BY CheckStillHoldsPreserved
<1>3. QED BY <1>1, <1>2, Invariance, PTL DEF Spec

=============================================================================
