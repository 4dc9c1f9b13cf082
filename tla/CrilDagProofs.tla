--------------------------- MODULE CrilDagProofs ---------------------------
(***************************************************************************)
(* Theorems about what the annotation DAG says, for every program: the     *)
(* counters, the chains of writers, the panics, and the causal order.      *)
(*                                                                         *)
(* The invariant History speaks of the first run, of its rollback and of   *)
(* the first replay; from the second rollback on it is false.  Whatever a  *)
(* process does is a step of one of five kinds as far as the DAG is        *)
(* concerned (StepKinds), and each kind keeps History and is a step of     *)
(* CausalExecution.  What V and P do to a lock is proved from the          *)
(* processes alone, for any number of turns.                               *)
(***************************************************************************)
EXTENDS CrilRuntimeProofs

-----------------------------------------------------------------------------
(* Stores of AnnotationDag: m is a store and D the set of the nodes in its *)
(* DAG.                                                                    *)

\* The edge through which a node overwrites the x that s wrote.
WriteEdge(s, x) == [src |-> s, var |-> x, wt |-> TRUE]

\* The edge through which a node reads the x that s wrote.
ReadEdge(s, x) == [src |-> s, var |-> x, wt |-> FALSE]

\* The nodes whose x node n has overwritten.
Overwritten(m, n, x) == {s \in Node \cup {Bot} : HasEdge(m, WriteEdge(s, x), n)}

\* addEdge records an edge once.
NoDuplicates(m) ==
    \A n \in Node : \A i, j \in DOMAIN m.inc[n] : m.inc[n][i] = m.inc[n][j] => i = j

\* The edges from s to nodes of D, and the counters that agree with them.
Out(m, D, s) ==
    UNION {{<<n, i>> : i \in {j \in DOMAIN m.inc[n] : m.inc[n][j].src = s}} : n \in D}

Counted(m, D) ==
    \A s \in Node : IsFiniteSet(Out(m, D, s)) /\ m.ctr[s] = Cardinality(Out(m, D, s))

-----------------------------------------------------------------------------
(* The writers of x form one chain, of which last[x] is the end.           *)

WritersIn(m, D, x) == {n \in D : Overwritten(m, n, x) # {}}

\* A node overwrites what one node wrote, and is overwritten by one node.
OneEach(m, D, x) ==
    /\ \A n \in D : \A s, t \in Overwritten(m, n, x) : s = t
    /\ \A n, d \in D : \A s \in Overwritten(m, n, x) \cap Overwritten(m, d, x) : n = d

\* Every writer but the last is overwritten, by a writer.
EndsAtLast(m, D, x) ==
    /\ m.last[x] \in WritersIn(m, D, x) \cup {InitLast(x)}
    /\ WritersIn(m, D, x) # {} => m.last[x] \in WritersIn(m, D, x)
    /\ \A n \in D : m.last[x] \notin Overwritten(m, n, x)
    /\ \A n \in WritersIn(m, D, x) \ {m.last[x]} : \E d \in D : n \in Overwritten(m, d, x)

\* Nothing is overwritten but what writers and the start have left, and there
\* is no circle of writers: the chain begins at the start.
BeginsAtStart(m, D, x) ==
    /\ \A n \in D : Overwritten(m, n, x) \subseteq WritersIn(m, D, x) \cup {InitLast(x)}
    /\ \A S \in SUBSET WritersIn(m, D, x) :
          (\A n \in S : Overwritten(m, n, x) \subseteq S) => S = {}

Chained(m, D, x) == OneEach(m, D, x) /\ EndsAtLast(m, D, x) /\ BeginsAtStart(m, D, x)

-----------------------------------------------------------------------------
(* Edges and counters                                                      *)

\* The edges of a set of nodes, as pairs of a node and a place in its list.
LEMMA OutMember ==
  ASSUME NEW m, NEW D, NEW s, NEW p
  PROVE  p \in Out(m, D, s) <=>
            \E n \in D : \E i \in DOMAIN m.inc[n] : m.inc[n][i].src = s /\ p = <<n, i>>
BY DEF Out

\* addEdge raises the counter of the source by the one edge it adds.
LEMMA AddEdgeCounts ==
  ASSUME NEW m \in Store, NEW src \in Node \cup {Bot}, NEW x \in Var,
         NEW wt \in BOOLEAN, NEW n \in Node, NEW D \in SUBSET Node, n \in D,
         Counted(m, D), ~(src[1] = n[1] /\ src[2] > n[2])
  PROVE  Counted(AddEdge(m, src, x, wt, n), D)
<1> DEFINE e  == [src |-> src, var |-> x, wt |-> wt]
           m1 == AddEdge(m, src, x, wt, n)
           p  == <<n, Len(m.inc[n]) + 1>>
<1>1. CASE src = n \/ HasEdge(m, e, n)
  <2>1. m1 = m
    BY <1>1 DEF AddEdge
  <2>2. QED BY <2>1
<1>2. CASE ~(src = n \/ HasEdge(m, e, n))
  <2>1. /\ m1.inc = [m.inc EXCEPT ![n] = Append(@, e)]
        /\ m1.ctr = IF src = Bot THEN m.ctr ELSE [m.ctr EXCEPT ![src] = @ + 1]
    BY <1>2 DEF AddEdge, Mem
  <2>2. m.inc \in [Node -> Seq(Edge)] /\ m.ctr \in [Node -> Int]
    BY DEF Store
  <2>3. /\ \A d \in Node \ {n} : m1.inc[d] = m.inc[d]
        /\ DOMAIN m1.inc[n] = (DOMAIN m.inc[n]) \cup {Len(m.inc[n]) + 1}
        /\ Len(m.inc[n]) + 1 \notin DOMAIN m.inc[n]
        /\ m1.inc[n][Len(m.inc[n]) + 1] = e
        /\ \A i \in DOMAIN m.inc[n] : m1.inc[n][i] = m.inc[n][i]
    <3>1. m.inc[n] \in Seq(Edge) /\ e \in Edge
      BY <2>2 DEF Edge
    <3>2. m1.inc[n] = Append(m.inc[n], e)
      BY <2>1, <2>2
    <3> HIDE DEF m1, e
    <3>3. QED BY <2>1, <2>2, <3>1, <3>2
  <2>4. e.src = src
    OBVIOUS
  <2> HIDE DEF m1, e
  <2>5. ASSUME NEW s \in Node
        PROVE  Out(m1, D, s) = IF s = src THEN Out(m, D, s) \cup {p} ELSE Out(m, D, s)
    <3>1. ASSUME NEW q
          PROVE  q \in Out(m1, D, s) <=> q \in Out(m, D, s) \/ (s = src /\ q = p)
      BY <2>3, <2>4, OutMember
    <3>2. QED BY <3>1
  <2>6. p \notin Out(m, D, src)
    BY <2>3, OutMember
  <2>7. ASSUME NEW s \in Node
        PROVE  IsFiniteSet(Out(m1, D, s)) /\ m1.ctr[s] = Cardinality(Out(m1, D, s))
    <3>1. IsFiniteSet(Out(m, D, s)) /\ m.ctr[s] = Cardinality(Out(m, D, s))
      BY DEF Counted
    <3>2. CASE s = src
      <4>1. /\ IsFiniteSet(Out(m1, D, s))
            /\ Cardinality(Out(m1, D, s)) = Cardinality(Out(m, D, s)) + 1
        BY <2>5, <2>6, <3>1, <3>2, FS_AddElement
      <4>2. m1.ctr[s] = m.ctr[s] + 1
        BY <2>1, <2>2, <3>2, NodeType
      <4>3. QED BY <3>1, <4>1, <4>2
    <3>3. CASE s # src
      BY <2>1, <2>2, <2>5, <3>1, <3>3
    <3>4. QED BY <3>2, <3>3
  <2>8. QED BY <2>7 DEF Counted, m1
<1>3. QED BY <1>1, <1>2

\* What addEdge does when it does not panic.
LEMMA AddEdgeEffect ==
  ASSUME NEW m \in Store, NEW src \in Node \cup {Bot}, NEW x \in Var,
         NEW wt \in BOOLEAN, NEW n \in Node, ~(src[1] = n[1] /\ src[2] > n[2])
  PROVE  LET m1 == AddEdge(m, src, x, wt, n)
         IN  /\ m1 \in Store
             /\ m1.val = m.val /\ m1.last = m.last /\ m1.err = m.err
             /\ \A d \in Node \ {n} : m1.inc[d] = m.inc[d]
             /\ \A a : HasEdge(m1, a, n) <=>
                   \/ HasEdge(m, a, n)
                   \/ src # n /\ a = [src |-> src, var |-> x, wt |-> wt]
             /\ NoDuplicates(m) => NoDuplicates(m1)
             /\ src = n \/ HasEdge(m, [src |-> src, var |-> x, wt |-> wt], n) => m1 = m
<1> DEFINE e  == [src |-> src, var |-> x, wt |-> wt]
           m1 == AddEdge(m, src, x, wt, n)
<1>1. m1 \in Store
  BY AddEdgeType
<1>2. CASE src = n \/ HasEdge(m, e, n)
  <2>1. m1 = m
    BY <1>2 DEF AddEdge
  <2>2. QED BY <1>1, <1>2, <2>1
<1>3. CASE ~(src = n \/ HasEdge(m, e, n))
  <2>1. /\ m1.inc = [m.inc EXCEPT ![n] = Append(@, e)]
        /\ m1.val = m.val /\ m1.last = m.last /\ m1.err = m.err
    BY <1>3 DEF AddEdge, Mem
  <2>2. m.inc \in [Node -> Seq(Edge)]
    BY DEF Store
  <2>3. /\ \A d \in Node \ {n} : m1.inc[d] = m.inc[d]
        /\ DOMAIN m1.inc[n] = (DOMAIN m.inc[n]) \cup {Len(m.inc[n]) + 1}
        /\ Len(m.inc[n]) + 1 \notin DOMAIN m.inc[n]
        /\ m1.inc[n][Len(m.inc[n]) + 1] = e
        /\ \A i \in DOMAIN m.inc[n] : m1.inc[n][i] = m.inc[n][i]
    <3>1. m.inc[n] \in Seq(Edge) /\ e \in Edge
      BY <2>2 DEF Edge
    <3>2. m1.inc[n] = Append(m.inc[n], e)
      BY <2>1, <2>2
    <3> HIDE DEF m1, e
    <3>3. QED BY <2>1, <2>2, <3>1, <3>2
  <2> HIDE DEF m1, e
  <2>4. \A a : HasEdge(m1, a, n) <=> HasEdge(m, a, n) \/ a = e
    BY <2>3 DEF HasEdge
  <2>5. NoDuplicates(m) => NoDuplicates(m1)
    BY <1>3, <2>3 DEF NoDuplicates, HasEdge
  <2>6. QED BY <1>1, <1>3, <2>1, <2>3, <2>4, <2>5 DEF m1, e
<1>4. QED BY <1>2, <1>3

\* No node of n's process that is later than n is a last writer: the case in
\* which addEdge panics ("It should not happen") does not arise for n.
NothingLater(m, n) == \A y \in Var : ~(m.last[y][1] = n[1] /\ m.last[y][2] > n[2])

\* Node n has all the edges that reading R and writing W would give it.
Repeats(m, n, R, W) ==
    /\ \A y \in R : m.last[y] = n \/ HasEdge(m, ReadEdge(m.last[y], y), n)
    /\ \A y \in W : m.last[y] = n \/ HasEdge(m, WriteEdge(m.last[y], y), n)

\* Executed forwards, node n reads the variables R and then writes those of W:
\* it gets an edge from the last writer of each of them, unless that is n, and
\* becomes the last writer of W.
Records(m, m1, n, R, W) ==
    /\ m1 \in Store /\ m1.err = m.err /\ NothingLater(m1, n)
    /\ \A d \in Node \ {n} : m1.inc[d] = m.inc[d]
    /\ Repeats(m, n, R, W) => m1.inc = m.inc
    /\ \A a : HasEdge(m1, a, n) <=>
          \/ HasEdge(m, a, n)
          \/ \E y \in R : m.last[y] # n /\ a = [src |-> m.last[y], var |-> y, wt |-> FALSE]
          \/ \E y \in W : m.last[y] # n /\ a = WriteEdge(m.last[y], y)
    /\ \A y \in Var : m1.last[y] = IF y \in W THEN n ELSE m.last[y]
    /\ \A y \in Var \ W : m1.val[y] = m.val[y]
    /\ NoDuplicates(m) => NoDuplicates(m1)
    /\ \A D \in SUBSET Node : n \in D /\ Counted(m, D) => Counted(m1, D)

\* Executed backwards, it makes the nodes it had overwritten the last writers.
Forgets(m, m1, n, W) ==
    /\ m1 \in Store /\ m1.inc = m.inc /\ m1.ctr = m.ctr /\ m1.err = m.err
    /\ \A y \in Var : m1.last[y] = IF y \in W THEN GetLastDag(m, y, n) ELSE m.last[y]
    /\ \A y \in Var \ W : m1.val[y] = m.val[y]

LEMMA RecordsItself ==
  ASSUME NEW m \in Store, NEW n \in Node, NothingLater(m, n)
  PROVE  Records(m, m, n, {}, {})
BY DEF Records

LEMMA ReadRecords ==
  ASSUME NEW m \in Store, NEW n \in Node, NothingLater(m, n), NEW x \in Var
  PROVE  Records(m, ReadAddr(m, x, FALSE, n), n, {x}, {})
<1>0. PICK wt \in BOOLEAN : wt = FALSE
  OBVIOUS
<1> DEFINE m1 == AddEdge(m, m.last[x], x, wt, n)
<1>1. ReadAddr(m, x, FALSE, n) = m1
  BY <1>0 DEF ReadAddr
<1>2. m.last[x] \in Node \cup {Bot} /\ ~(m.last[x][1] = n[1] /\ m.last[x][2] > n[2])
  BY DEF Store, NothingLater
<1>3. /\ m1 \in Store
      /\ m1.val = m.val /\ m1.last = m.last /\ m1.err = m.err
      /\ \A d \in Node \ {n} : m1.inc[d] = m.inc[d]
      /\ \A a : HasEdge(m1, a, n) <=>
            \/ HasEdge(m, a, n)
            \/ m.last[x] # n /\ a = [src |-> m.last[x], var |-> x, wt |-> wt]
      /\ NoDuplicates(m) => NoDuplicates(m1)
      /\ m.last[x] = n \/ HasEdge(m, [src |-> m.last[x], var |-> x, wt |-> wt], n) => m1 = m
  <2> HIDE DEF m1
  <2> QED BY <1>2, AddEdgeEffect DEF m1
<1>4. \A D \in SUBSET Node : n \in D /\ Counted(m, D) => Counted(m1, D)
  BY <1>2, AddEdgeCounts
<1> HIDE DEF m1
<1>5. NothingLater(m1, n)
  BY <1>3 DEF NothingLater
<1>6. Repeats(m, n, {x}, {}) => m1.inc = m.inc
  BY <1>0, <1>3 DEF Repeats, ReadEdge
<1>7. QED BY <1>0, <1>1, <1>3, <1>4, <1>5, <1>6 DEF Records

LEMMA WriteRecords ==
  ASSUME NEW m \in Store, NEW n \in Node, NothingLater(m, n), NEW x \in Var, NEW v \in Int
  PROVE  Records(m, WriteAddr(m, x, v, FALSE, n), n, {}, {x})
<1>0. PICK wt \in BOOLEAN : wt = TRUE
  OBVIOUS
<1> DEFINE m0 == AddEdge(m, m.last[x], x, wt, n)
           m1 == WriteAddr(m, x, v, FALSE, n)
<1>1. /\ m1.val = [m0.val EXCEPT ![x] = v] /\ m1.last = [m0.last EXCEPT ![x] = n]
      /\ m1.inc = m0.inc /\ m1.ctr = m0.ctr /\ m1.err = m0.err
  BY <1>0 DEF WriteAddr, Mem
<1>2. m.last[x] \in Node \cup {Bot} /\ ~(m.last[x][1] = n[1] /\ m.last[x][2] > n[2])
  BY DEF Store, NothingLater
<1>3. /\ m0 \in Store
      /\ m0.val = m.val /\ m0.last = m.last /\ m0.err = m.err
      /\ \A d \in Node \ {n} : m0.inc[d] = m.inc[d]
      /\ \A a : HasEdge(m0, a, n) <=>
            \/ HasEdge(m, a, n)
            \/ m.last[x] # n /\ a = [src |-> m.last[x], var |-> x, wt |-> wt]
      /\ NoDuplicates(m) => NoDuplicates(m0)
      /\ m.last[x] = n \/ HasEdge(m, [src |-> m.last[x], var |-> x, wt |-> wt], n) => m0 = m
  <2> HIDE DEF m0
  <2> QED BY <1>2, AddEdgeEffect DEF m0
<1>4. \A D \in SUBSET Node : n \in D /\ Counted(m, D) => Counted(m0, D)
  BY <1>2, AddEdgeCounts
<1>5. m1 \in Store
  BY WriteAnnotates DEF Annotates
<1> HIDE DEF m0, m1
<1>6. \A a : HasEdge(m1, a, n) <=> HasEdge(m0, a, n)
  BY <1>1 DEF HasEdge
<1>7. /\ NoDuplicates(m0) => NoDuplicates(m1)
      /\ \A D \in SUBSET Node : Counted(m0, D) => Counted(m1, D)
  BY <1>1 DEF NoDuplicates, Counted, Out
<1>8. /\ \A y \in Var : m1.last[y] = IF y = x THEN n ELSE m.last[y]
      /\ \A y \in Var \ {x} : m1.val[y] = m.val[y]
  BY <1>1, <1>3 DEF Store
<1>9. NothingLater(m1, n)
  BY <1>8, NodeType DEF NothingLater
<1>10. Repeats(m, n, {}, {x}) => m1.inc = m.inc
  BY <1>0, <1>1, <1>3 DEF Repeats, WriteEdge
<1>11. QED
  BY <1>0, <1>1, <1>3, <1>4, <1>5, <1>6, <1>7, <1>8, <1>9, <1>10 DEF Records, m1, WriteEdge

\* Reads follow reads, and writes follow anything.
LEMMA RecordsTransitive ==
  ASSUME NEW m \in Store, NEW m1, NEW m2, NEW n \in Node, NEW R \in SUBSET Var,
         NEW R2 \in SUBSET Var, NEW W \in SUBSET Var, NEW W2 \in SUBSET Var,
         Records(m, m1, n, R, W), Records(m1, m2, n, R2, W2), W = {} \/ R2 = {}
  PROVE  Records(m, m2, n, R \cup R2, W \cup W2)
<1>1. \A a : HasEdge(m2, a, n) <=>
          \/ HasEdge(m, a, n)
          \/ \E y \in R \cup R2 :
                m.last[y] # n /\ a = [src |-> m.last[y], var |-> y, wt |-> FALSE]
          \/ \E y \in W \cup W2 : m.last[y] # n /\ a = WriteEdge(m.last[y], y)
  BY DEF Records
<1>2. \A y \in Var : m2.last[y] = IF y \in W \cup W2 THEN n ELSE m.last[y]
  BY DEF Records
<1>3. Repeats(m, n, R \cup R2, W \cup W2) => m2.inc = m.inc
  <2> SUFFICES ASSUME Repeats(m, n, R \cup R2, W \cup W2)
               PROVE  m2.inc = m.inc
    OBVIOUS
  <2>1. m1.inc = m.inc
    BY DEF Records, Repeats
  <2>2. \A a : HasEdge(m1, a, n) <=> HasEdge(m, a, n)
    BY <2>1 DEF HasEdge
  <2>3. \A y \in R2 \cup W2 : m1.last[y] = n \/ m1.last[y] = m.last[y]
    BY DEF Records
  <2>4. Repeats(m1, n, R2, W2)
    BY <2>2, <2>3 DEF Repeats
  <2>5. QED BY <2>1, <2>4 DEF Records
<1>4. QED BY <1>1, <1>2, <1>3 DEF Records

LEMMA WriteForgets ==
  ASSUME NEW m \in Store, NEW n \in Node, NEW x \in Var, NEW v \in Int
  PROVE  Forgets(m, WriteAddr(m, x, v, TRUE, n), n, {x})
<1> DEFINE m1 == WriteAddr(m, x, v, TRUE, n)
<1>1. m1 \in Store
  BY WriteAnnotates DEF Annotates
<1>2. /\ m1.val = [m.val EXCEPT ![x] = v]
      /\ m1.last = [m.last EXCEPT ![x] = GetLastDag(m, x, n)]
      /\ m1.inc = m.inc /\ m1.ctr = m.ctr /\ m1.err = m.err
  BY DEF WriteAddr, Mem
<1>3. m.val \in [Var -> Int] /\ m.last \in [Var -> Node \cup {Bot}]
  BY DEF Store
<1> HIDE DEF m1
<1>4. QED BY <1>1, <1>2, <1>3 DEF Forgets, m1

LEMMA ForgetsTransitive ==
  ASSUME NEW m \in Store, NEW m1, NEW m2, NEW n \in Node, NEW W, NEW W2,
         Forgets(m, m1, n, W), Forgets(m1, m2, n, W2)
  PROVE  Forgets(m, m2, n, W \cup W2)
<1>1. \A y : GetLastDag(m1, y, n) = GetLastDag(m, y, n)
  BY DEF Forgets, GetLastDag, WriteEdges
<1>2. QED BY <1>1 DEF Forgets

\* GetLastDag finds the node whose value was overwritten, if there is one.
LEMMA GetLastDagFinds ==
  ASSUME NEW m \in Store, NEW x \in Var, NEW n \in Node
  PROVE  IF Overwritten(m, n, x) = {} THEN GetLastDag(m, x, n) = Bot
         ELSE GetLastDag(m, x, n) \in Overwritten(m, n, x)
<1> DEFINE W == WriteEdges(m, x, n)
<1>1. m.inc[n] \in Seq(Edge)
  BY DEF Store
<1>2. ASSUME NEW i \in DOMAIN m.inc[n]
      PROVE  /\ m.inc[n][i] \in Edge
             /\ m.inc[n][i].src \in Node \cup {Bot}
             /\ i \in W => m.inc[n][i] = WriteEdge(m.inc[n][i].src, x)
  <2>1. m.inc[n][i] \in Edge
    BY <1>1
  <2>2. QED BY <2>1 DEF Edge, WriteEdge, WriteEdges
<1>3. ASSUME NEW i \in W
      PROVE  m.inc[n][i].src \in Overwritten(m, n, x)
  <2>1. i \in DOMAIN m.inc[n]
    BY DEF WriteEdges
  <2>2. QED BY <1>2, <2>1 DEF Overwritten, HasEdge
<1>4. ASSUME NEW s \in Overwritten(m, n, x)
      PROVE  W # {}
  BY DEF Overwritten, HasEdge, WriteEdge, WriteEdges
<1>5. CASE W = {}
  BY <1>4, <1>5 DEF GetLastDag
<1>6. CASE W # {}
  <2>1. W \subseteq 1..Len(m.inc[n]) /\ Len(m.inc[n]) \in Nat
    BY <1>1 DEF WriteEdges
  <2>2. \E i \in W : \A j \in W : j <= i
    <3> HIDE DEF W
    <3> QED BY <1>6, <2>1, LargestIndex
  <2>3. (CHOOSE i \in W : \A j \in W : j <= i) \in W
    BY <2>2
  <2>4. GetLastDag(m, x, n) \in Overwritten(m, n, x)
    BY <1>3, <1>6, <2>3 DEF GetLastDag
  <2>5. QED BY <2>4
<1>7. QED BY <1>5, <1>6

\* Taking node n out of the DAG gives its sources their counts back.
LEMMA UndoCounts ==
  ASSUME NEW m \in Store, NEW D \in SUBSET Node, NEW n \in D, Counted(m, D)
  PROVE  LET m1 == RunModifyDagRev(m, n)
         IN  m1.err = m.err /\ Counted(m1, D \ {n})
<1> DEFINE m1 == RunModifyDagRev(m, n)
           T(s) == {i \in DOMAIN m.inc[n] : m.inc[n][i].src = s}
           G(s) == {<<n, i>> : i \in T(s)}
<1>1. m.inc[n] \in Seq(Edge) /\ n \in Node
  BY DEF Store
<1>2. ASSUME NEW s \in Node
      PROVE  IsFiniteSet(G(s)) /\ Cardinality(G(s)) = EdgesFrom(m, s, n)
  <2>1. IsFiniteSet(T(s))
    <3>1. T(s) \in SUBSET (1..Len(m.inc[n]))
      BY <1>1
    <3>2. Len(m.inc[n]) \in Nat
      BY <1>1
    <3> HIDE DEF m1
    <3>3. IsFiniteSet(1..Len(m.inc[n]))
      BY <3>2, FS_Interval
    <3> HIDE DEF T
    <3>4. QED BY <3>1, <3>3, FS_Subset
  <2> DEFINE b == [i \in T(s) |-> <<n, i>>]
  <2>2. b \in Bijection(T(s), G(s))
    <3>1. b \in [T(s) -> G(s)] /\ \A i, j \in T(s) : b[i] = b[j] => i = j
      OBVIOUS
    <3>2. \A t \in G(s) : \E i \in T(s) : b[i] = t
      OBVIOUS
    <3> HIDE DEF b, G, T
    <3>3. QED BY <3>1, <3>2 DEF Bijection, Injection, Surjection, IsInjective
  <2> HIDE DEF b, G
  <2>3. ExistsBijection(T(s), G(s))
    BY <2>2 DEF ExistsBijection
  <2>4. IsFiniteSet(G(s)) /\ Cardinality(G(s)) = Cardinality(T(s))
    <3> HIDE DEF T
    <3> QED BY <2>1, <2>3, FS_Bijection
  <2>5. QED BY <2>4 DEF EdgesFrom
<1>3. ASSUME NEW s \in Node
      PROVE  /\ IsFiniteSet(Out(m, D \ {n}, s))
             /\ Cardinality(Out(m, D \ {n}, s)) = m.ctr[s] - EdgesFrom(m, s, n)
             /\ Cardinality(Out(m, D \ {n}, s)) \in Nat
  <2>1. IsFiniteSet(Out(m, D, s)) /\ m.ctr[s] = Cardinality(Out(m, D, s))
    BY DEF Counted
  <2>2. Out(m, D, s) = Out(m, D \ {n}, s) \cup G(s)
    <3>1. ASSUME NEW q
          PROVE  q \in Out(m, D, s) <=> q \in Out(m, D \ {n}, s) \/ q \in G(s)
      BY OutMember
    <3> HIDE DEF G
    <3>2. QED BY <3>1
  <2>3. Out(m, D \ {n}, s) \cap G(s) = {}
    <3>1. ASSUME NEW q \in Out(m, D \ {n}, s)
          PROVE  q \notin G(s)
      BY OutMember
    <3> HIDE DEF G
    <3>2. QED BY <3>1
  <2> HIDE DEF G
  <2>4. IsFiniteSet(Out(m, D \ {n}, s)) /\ Cardinality(Out(m, D \ {n}, s)) \in Nat
    <3>1. Out(m, D \ {n}, s) \in SUBSET Out(m, D, s)
      BY <2>2
    <3>2. QED BY <2>1, <3>1, FS_Subset, FS_CardinalityType
  <2>5. Cardinality(Out(m, D \ {n}, s) \cup G(s)) =
           Cardinality(Out(m, D \ {n}, s)) + Cardinality(G(s))
           - Cardinality(Out(m, D \ {n}, s) \cap G(s))
    BY <1>2, <2>4, FS_Union
  <2>6. Cardinality(Out(m, D, s)) =
           Cardinality(Out(m, D \ {n}, s)) + Cardinality(G(s)) - Cardinality({})
    BY <2>2, <2>3, <2>5
  <2>7. EdgesFrom(m, s, n) \in Nat
    BY <1>1, EdgesFromType
  <2>8. QED BY <1>2, <2>1, <2>4, <2>6, <2>7, FS_EmptySet
<1> HIDE DEF T, G
<1>4. /\ m1.inc = m.inc
      /\ \A s \in Node : m1.ctr[s] = m.ctr[s] - EdgesFrom(m, s, n)
  BY <1>1, RunModifyDagRevEffect
<1>5. m1.err = m.err
  <2>1. \A s \in Node : m.ctr[s] - EdgesFrom(m, s, n) >= 0
    BY <1>3
  <2> DEFINE c == [s \in Node |-> m.ctr[s] - EdgesFrom(m, s, n)]
  <2>2. ~\E s \in Node : c[s] < 0
    <3>1. \A s \in Node : EdgesFrom(m, s, n) \in Nat /\ m.ctr[s] \in Int
      BY <1>1, EdgesFromType DEF Store
    <3>2. QED BY <2>1, <3>1
  <2> HIDE DEF c
  <2>3. m1 = Mem(m.val, m.last, m.inc, c,
                 IF \E s \in Node : c[s] < 0 THEN "BUG" ELSE m.err)
    BY DEF RunModifyDagRev, c
  <2>4. QED BY <2>2, <2>3 DEF Mem
<1>6. \A s \in Node : Out(m1, D \ {n}, s) = Out(m, D \ {n}, s)
  BY <1>4 DEF Out
<1> HIDE DEF m1
<1>7. Counted(m1, D \ {n})
  BY <1>3, <1>4, <1>6 DEF Counted
<1>8. QED BY <1>5, <1>7 DEF m1

\* A counter at zero says that no node of the DAG uses what s produced.
LEMMA ZeroMeansUnused ==
  ASSUME NEW m \in Store, NEW D \in SUBSET Node, Counted(m, D), NEW s \in Node,
         m.ctr[s] = 0, NEW n \in D, NEW i \in DOMAIN m.inc[n]
  PROVE  m.inc[n][i].src # s
<1>1. Out(m, D, s) = {}
  BY FS_EmptySet DEF Counted
<1>2. m.inc[n][i].src = s => <<n, i>> \in Out(m, D, s)
  BY OutMember
<1>3. QED BY <1>1, <1>2

-----------------------------------------------------------------------------
(* Chains of writers                                                       *)

\* A step that neither writes x nor undoes a writer of it.
LEMMA ChainUntouched ==
  ASSUME NEW m, NEW m1, NEW D, NEW D1, NEW x, Chained(m, D, x),
         m1.last[x] = m.last[x],
         \A n \in D1 : Overwritten(m1, n, x) = IF n \in D THEN Overwritten(m, n, x) ELSE {},
         \A n \in D \ D1 : Overwritten(m, n, x) = {}
  PROVE  Chained(m1, D1, x)
<1>1. WritersIn(m1, D1, x) = WritersIn(m, D, x)
  BY DEF WritersIn
<1>2. \A n \in D1 : \A s \in Overwritten(m1, n, x) : n \in D /\ s \in Overwritten(m, n, x)
  OBVIOUS
<1>3. OneEach(m1, D1, x)
  BY <1>2 DEF Chained, OneEach
<1>4. EndsAtLast(m1, D1, x)
  <2>1. ASSUME NEW n \in WritersIn(m1, D1, x) \ {m1.last[x]}
        PROVE  \E d \in D1 : n \in Overwritten(m1, d, x)
    <3>1. PICK d \in D : n \in Overwritten(m, d, x)
      BY <1>1 DEF Chained, EndsAtLast
    <3>2. d \in D1
      BY <3>1
    <3>3. QED BY <3>1, <3>2
  <2>2. QED BY <1>1, <1>2, <2>1 DEF Chained, EndsAtLast
<1>5. BeginsAtStart(m1, D1, x)
  <2>1. \A n \in WritersIn(m, D, x) : Overwritten(m1, n, x) = Overwritten(m, n, x)
    <3>1. \A n \in WritersIn(m, D, x) : n \in D1 /\ n \in D
      BY <1>1 DEF WritersIn
    <3>2. QED BY <3>1
  <2>2. QED BY <1>1, <1>2, <2>1 DEF Chained, BeginsAtStart
<1>6. QED BY <1>3, <1>4, <1>5 DEF Chained

\* A node that writes x for the first time becomes the end of the chain.
LEMMA ChainExtended ==
  ASSUME NEW m, NEW m1, NEW D, NEW n, NEW x, Chained(m, D, x),
         m1.last[x] = n, n # m.last[x],
         Overwritten(m1, n, x) = {m.last[x]},
         n \in D => Overwritten(m, n, x) = {},
         \A d \in D \ {n} : Overwritten(m1, d, x) = Overwritten(m, d, x),
         \A d \in D : n \notin Overwritten(m, d, x)
  PROVE  Chained(m1, D \cup {n}, x)
<1> DEFINE W == WritersIn(m, D, x)
           D1 == D \cup {n}
<1>1. WritersIn(m1, D1, x) = W \cup {n} /\ n \notin W
  BY DEF WritersIn
<1>2. OneEach(m, D, x) /\ EndsAtLast(m, D, x) /\ BeginsAtStart(m, D, x)
  BY DEF Chained
<1>3. \A d \in D \ {n} : Overwritten(m1, d, x) = Overwritten(m, d, x)
  OBVIOUS
<1>4. \A d \in W : d \in D /\ d # n /\ Overwritten(m1, d, x) = Overwritten(m, d, x)
  BY <1>1 DEF WritersIn
<1> HIDE DEF W
<1>5. OneEach(m1, D1, x)
  <2>1. \A d \in D1 : \A s, t \in Overwritten(m1, d, x) : s = t
    BY <1>2, <1>3 DEF OneEach
  <2>2. ASSUME NEW a \in D1, NEW d \in D1,
               NEW s \in Overwritten(m1, a, x) \cap Overwritten(m1, d, x)
        PROVE  a = d
    <3>1. CASE a # n /\ d # n
      BY <1>2, <1>3, <2>2, <3>1 DEF OneEach
    <3>2. CASE a = n \/ d = n
      BY <1>2, <1>3, <2>2, <3>2 DEF EndsAtLast
    <3>3. QED BY <3>1, <3>2
  <2>3. QED BY <2>1, <2>2 DEF OneEach
<1>6. EndsAtLast(m1, D1, x)
  <2>1. \A d \in D1 : m1.last[x] \notin Overwritten(m1, d, x)
    BY <1>3
  <2>2. ASSUME NEW a \in WritersIn(m1, D1, x) \ {m1.last[x]}
        PROVE  \E d \in D1 : a \in Overwritten(m1, d, x)
    <3>1. a \in W
      BY <1>1
    <3>2. CASE a = m.last[x]
      BY <3>2
    <3>3. CASE a # m.last[x]
      <4>1. PICK d \in D : a \in Overwritten(m, d, x)
        BY <1>2, <3>1, <3>3 DEF EndsAtLast, W
      <4>2. d # n
        BY <4>1
      <4>3. QED BY <1>3, <4>1, <4>2
    <3>4. QED BY <3>2, <3>3
  <2>3. QED BY <1>1, <2>1, <2>2 DEF EndsAtLast
<1>7. BeginsAtStart(m1, D1, x)
  <2>1. \A d \in D1 : Overwritten(m1, d, x) \subseteq (W \cup {n}) \cup {InitLast(x)}
    <3>1. m.last[x] \in W \cup {InitLast(x)}
      BY <1>2 DEF EndsAtLast, W
    <3>2. \A d \in D : Overwritten(m, d, x) \subseteq W \cup {InitLast(x)}
      BY <1>2 DEF BeginsAtStart, W
    <3>3. QED BY <1>3, <3>1, <3>2
  <2>2. ASSUME NEW S \in SUBSET (W \cup {n}),
               \A d \in S : Overwritten(m1, d, x) \subseteq S
        PROVE  S = {}
    <3>1. S \ {n} \in SUBSET W
      OBVIOUS
    <3>2. \A d \in S \ {n} : Overwritten(m, d, x) \subseteq S \ {n}
      BY <1>4, <2>2
    <3>3. S \ {n} = {}
      BY <1>2, <3>1, <3>2 DEF BeginsAtStart, W
    <3>4. n \notin S
      BY <2>2, <3>3
    <3>5. QED BY <3>3, <3>4
  <2>3. QED BY <1>1, <2>1, <2>2 DEF BeginsAtStart
<1>8. QED BY <1>5, <1>6, <1>7 DEF Chained

\* A writer that nobody has overwritten is the end of the chain.
LEMMA UnusedIsLast ==
  ASSUME NEW m, NEW D, NEW n \in D, NEW x, Chained(m, D, x),
         Overwritten(m, n, x) # {}, \A d \in D : n \notin Overwritten(m, d, x)
  PROVE  n = m.last[x]
BY DEF Chained, EndsAtLast, WritersIn

\* So is the start, or a writer, whatever node that nobody has overwritten.
LEMMA ChainEnd ==
  ASSUME NEW m, NEW D, NEW x, Chained(m, D, x), NEW s,
         s = InitLast(x) \/ s \in WritersIn(m, D, x),
         \A d \in D : s \notin Overwritten(m, d, x)
  PROVE  m.last[x] = s
<1> DEFINE W == WritersIn(m, D, x)
<1>1. EndsAtLast(m, D, x) /\ BeginsAtStart(m, D, x)
  BY DEF Chained
<1>2. CASE s \in W
  BY <1>1, <1>2 DEF EndsAtLast
<1>3. CASE s \notin W
  <2>1. s = InitLast(x) /\ \A n \in W : n \in D
    BY <1>3 DEF WritersIn
  <2> HIDE DEF W
  <2>2. \A n \in W : Overwritten(m, n, x) \subseteq W
    BY <1>1, <2>1 DEF BeginsAtStart, W
  <2>3. W = {}
    BY <1>1, <2>2 DEF BeginsAtStart, W
  <2>4. QED BY <1>1, <2>1, <2>3 DEF EndsAtLast, W
<1>4. QED BY <1>2, <1>3

\* Readers are in the set D while the nodes that overwrote what they read are.
ReadersFirst(m, D) ==
    \A x \in Var : \A d \in D : \A s \in Overwritten(m, d, x) : \A n \in Node :
        HasEdge(m, ReadEdge(s, x), n) /\ Overwritten(m, n, x) = {} => n \in D

LEMMA ReadersFirstByEdges ==
  ASSUME NEW m \in Store, NEW D \in SUBSET Node,
         \A x \in Var : \A d \in {c \in D : WriteEdges(m, x, c) # {}} :
            \A i \in WriteEdges(m, x, d) : \A n \in Node :
               WriteEdges(m, x, n) = {} /\ HasEdge(m, [m.inc[d][i] EXCEPT !.wt = FALSE], n)
                  => n \in D
  PROVE  ReadersFirst(m, D)
<1> SUFFICES ASSUME NEW x \in Var, NEW d \in D, NEW s \in Overwritten(m, d, x), NEW n \in Node,
                    HasEdge(m, ReadEdge(s, x), n), Overwritten(m, n, x) = {}
             PROVE  n \in D
  BY DEF ReadersFirst
<1>1. PICK i \in DOMAIN m.inc[d] : m.inc[d][i] = WriteEdge(s, x)
  BY DEF Overwritten, HasEdge
<1>2. i \in WriteEdges(m, x, d) /\ [m.inc[d][i] EXCEPT !.wt = FALSE] = ReadEdge(s, x)
  <2>1. [WriteEdge(s, x) EXCEPT !.wt = FALSE] = ReadEdge(s, x)
    <3> DEFINE T == [src : {s}, var : {x}, wt : BOOLEAN]
               a == WriteEdge(s, x)
               b == ReadEdge(s, x)
               c == [a EXCEPT !.wt = FALSE]
    <3>1. a \in T /\ a.src = s /\ a.var = x
      BY DEF WriteEdge
    <3>2. c \in T /\ c.src = s /\ c.var = x /\ c.wt = FALSE
      BY <3>1
    <3>3. b \in T /\ b.src = s /\ b.var = x /\ b.wt = FALSE
      BY DEF ReadEdge
    <3> HIDE DEF a, b, c
    <3>4. c = b
      BY <3>2, <3>3
    <3>5. QED BY <3>4 DEF a, b, c
  <2>2. i \in WriteEdges(m, x, d)
    BY <1>1 DEF WriteEdges, WriteEdge
  <2>3. QED BY <1>1, <2>1, <2>2
<1>3. WriteEdges(m, x, n) = {}
  <2> SUFFICES ASSUME NEW j \in WriteEdges(m, x, n)
               PROVE  FALSE
    OBVIOUS
  <2>1. j \in DOMAIN m.inc[n] /\ m.inc[n][j] \in Edge
    BY DEF WriteEdges, Store
  <2>2. /\ m.inc[n][j].src \in Node \cup {Bot}
        /\ m.inc[n][j] = WriteEdge(m.inc[n][j].src, x)
    BY <2>1 DEF WriteEdges, Edge, WriteEdge
  <2>3. QED BY <2>1, <2>2 DEF Overwritten, HasEdge
<1>4. QED BY <1>2, <1>3

\* If it is undone, the node it had overwritten becomes the end: a writer, or
\* the start if there is no writer left.
LEMMA ChainShortened ==
  ASSUME NEW m, NEW m1, NEW D, NEW n \in D, NEW x, Chained(m, D, x),
         m1.last[x] \in Overwritten(m, n, x),
         \A d \in D : Overwritten(m1, d, x) = Overwritten(m, d, x),
         \A d \in D : n \notin Overwritten(m, d, x)
  PROVE  Chained(m1, D \ {n}, x)
<1> DEFINE W == WritersIn(m, D, x)
           D1 == D \ {n}
           s == m1.last[x]
<1>1. n \in W /\ n = m.last[x]
  BY UnusedIsLast DEF WritersIn
<1>2. WritersIn(m1, D1, x) = W \ {n}
  BY DEF WritersIn
<1>3. OneEach(m, D, x) /\ EndsAtLast(m, D, x) /\ BeginsAtStart(m, D, x)
  BY DEF Chained
<1>4. \A d \in D1 : d \in D /\ d # n /\ Overwritten(m1, d, x) = Overwritten(m, d, x)
  OBVIOUS
<1>5. s # n /\ s \in W \cup {InitLast(x)}
  BY <1>3 DEF BeginsAtStart
<1>6. \A d \in W : d \in D
  BY DEF WritersIn
<1>7. \A d \in D1 : s \notin Overwritten(m, d, x)
  BY <1>3, <1>4 DEF OneEach
<1> HIDE DEF W, D1
<1>8. W \ {n} # {} => s \in W \ {n}
  <2> SUFFICES ASSUME s \notin W
               PROVE  W \ {n} = {}
    BY <1>5
  <2>1. s = InitLast(x)
    BY <1>5
  <2>2. ASSUME NEW d \in W \ {n}
        PROVE  Overwritten(m, d, x) \subseteq W \ {n}
    <3>1. Overwritten(m, d, x) \subseteq W \cup {InitLast(x)}
      BY <1>3, <1>6 DEF BeginsAtStart, W
    <3>2. s \notin Overwritten(m, d, x)
      BY <1>6, <1>7 DEF D1
    <3>3. n \notin Overwritten(m, d, x)
      BY <1>6
    <3>4. QED BY <2>1, <3>1, <3>2, <3>3
  <2>3. QED BY <1>3, <2>2 DEF BeginsAtStart, W
<1>9. OneEach(m1, D1, x)
  BY <1>3, <1>4 DEF OneEach
<1>10. EndsAtLast(m1, D1, x)
  <2>1. ASSUME NEW a \in (W \ {n}) \ {s}
        PROVE  \E d \in D1 : a \in Overwritten(m1, d, x)
    <3>1. PICK d \in D : a \in Overwritten(m, d, x)
      BY <1>1, <1>3 DEF EndsAtLast, W
    <3>2. d # n
      BY <1>3, <3>1 DEF OneEach
    <3>3. d \in D1
      BY <3>1, <3>2 DEF D1
    <3>4. QED BY <1>4, <3>1, <3>3
  <2>2. QED BY <1>2, <1>4, <1>5, <1>7, <1>8, <2>1 DEF EndsAtLast
<1>11. BeginsAtStart(m1, D1, x)
  <2>1. \A d \in D1 : Overwritten(m1, d, x) \subseteq (W \ {n}) \cup {InitLast(x)}
    <3>1. \A d \in D : Overwritten(m, d, x) \subseteq W \cup {InitLast(x)}
      BY <1>3 DEF BeginsAtStart, W
    <3>2. QED BY <1>4, <3>1
  <2>2. ASSUME NEW S \in SUBSET (W \ {n}), \A d \in S : Overwritten(m1, d, x) \subseteq S
        PROVE  S = {}
    <3>1. \A d \in S : Overwritten(m, d, x) \subseteq S
      BY <1>6, <2>2
    <3>2. QED BY <1>3, <3>1 DEF BeginsAtStart, W
  <2>3. QED BY <1>2, <2>1, <2>2 DEF BeginsAtStart
<1>12. QED BY <1>9, <1>10, <1>11 DEF Chained, D1

-----------------------------------------------------------------------------
(* What the DAG says, up to the end of the first replay.                   *)

DagNodes == {n \in Node : InDag(n)}

\* The variables that an instruction, or a node, writes.
WrittenBy(i) ==
    IF i.op \in {"V", "P", "+=", "-="} THEN {i.dst}
    ELSE IF i.op = "<=>" THEN {i.dst, i.src}
    ELSE {}

\* The variables that it reads: whatever it writes, and what else it needs.
ReadBy(i) ==
    IF i.op \in {"+=", "-="} THEN {i.dst} \cup (IF i.src = NoVar THEN {} ELSE {i.src})
    ELSE IF i.op = "print" THEN {i.dst}
    ELSE WrittenBy(i)

WrittenAt(n) == WrittenBy(Code[proc[n[1]]][n[2] + 1])
ReadAt(n)    == ReadBy(Code[proc[n[1]]][n[2] + 1])
OpAt(n)      == Code[proc[n[1]]][n[2] + 1].op

\* Whatever a node of the DAG has used was executed and not undone.
SourcesExecuted ==
    \A n \in DagNodes : \A i \in DOMAIN mem.inc[n] :
        mem.inc[n][i].src = Bot \/ Executed(mem.inc[n][i].src)

\* A node is used, and named as the last writer, for what it writes.
SourcesWrite ==
    \A n \in Node : \A i \in DOMAIN mem.inc[n] :
        LET e == mem.inc[n][i]
        IN  e.src \in {Bot, InitLast(e.var)} \/ e.var \in WrittenAt(e.src)

LastWriters ==
    \A x \in Var :
        \/ mem.last[x] \in {Bot, InitLast(x)}
        \/ /\ x \in WrittenAt(mem.last[x])
           /\ IF rev THEN InDag(mem.last[x]) ELSE Executed(mem.last[x])

\* In the first run a node that is not in the DAG has no edges.
FreshNodes == turns = 0 => \A n \in Node \ DagNodes : mem.inc[n] = <<>>

\* A block has recorded what it overwrites when it was executed, not before.
WritesRecorded ==
    \A n \in DagNodes : \A x \in Var :
        Overwritten(mem, n, x) # {} <=> x \in WrittenAt(n) /\ (rev \/ Executed(n))

\* Nobody uses what a block that is being undone has produced.
UndoneUnused == rev => \A p \in Pid : Inside(p) => mem.ctr[<<p, pc[p]>>] = 0

FirstTrip ==
    /\ NoDuplicates(mem)
    /\ Counted(mem, DagNodes)
    /\ FreshNodes
    /\ WritesRecorded
    /\ UndoneUnused
    /\ \A x \in Var : Chained(mem, DagNodes, x)

History ==
    turns <= 2 =>
        /\ mem.err = "none"
        /\ rev = (turns = 1)
        /\ SourcesExecuted
        /\ SourcesWrite
        /\ LastWriters
        /\ turns <= 1 => FirstTrip

-----------------------------------------------------------------------------
(* Programs that change a semaphore by V and P only.                       *)

Semaphore(x) ==
    \E f \in ProcName : \E b \in 1..Len(Code[f]) :
        Code[f][b].op \in {"V", "P"} /\ Code[f][b].dst = x

SemaphoresApart ==
    \A f \in ProcName : \A b \in 1..Len(Code[f]) :
        \A x \in WrittenBy(Code[f][b]) : Semaphore(x) => Code[f][b].op \in {"V", "P"}

\* The value of a semaphore is the one its last writer left, and V follows upon
\* P or the start, P upon V.
LeftBy(n) == IF n \in Node /\ Code[proc[n[1]]][n[2] + 1].op = "V" THEN 1 ELSE 0

Alternate ==
    \A x \in Var : Semaphore(x) =>
        /\ mem.val[x] = LeftBy(mem.last[x])
        /\ \A n \in DagNodes : \A s \in Overwritten(mem, n, x) :
              LeftBy(s) = IF LeftBy(n) = 1 THEN 0 ELSE 1

\* Along one round trip the semaphores alternate, and no process waits for one
\* on the way back.
SemaphoreHistory ==
    SemaphoresApart /\ turns <= 1 =>
        /\ Alternate
        /\ rev => \A p \in Pid : status[p] \notin {"wait", "woken"}

-----------------------------------------------------------------------------
(* Instructions                                                            *)

LEMMA WrittenByType ==
  ASSUME NEW i \in Instr, WellFormed(i)
  PROVE  WrittenBy(i) \in SUBSET Var
BY DEF WrittenBy, WellFormed

\* It reads whatever it writes.
LEMMA ReadByType ==
  ASSUME NEW i \in Instr, WellFormed(i)
  PROVE  ReadBy(i) \in SUBSET Var /\ WrittenBy(i) \subseteq ReadBy(i)
BY DEF ReadBy, WrittenBy, WellFormed, Instr

\* An instruction that is executed under the mutex records its reads and its
\* writes, whatever it is.
LEMMA ExecPlainRecords ==
  ASSUME NEW m \in Store, rev = FALSE, NEW n \in Node, NothingLater(m, n),
         NEW i \in Instr, WellFormed(i), i.op \notin {"V", "P", "call"}
  PROVE  Records(m, ExecPlain(m, i, n), n, ReadBy(i), WrittenBy(i))
<1>1. CASE i.op = "skip"
  BY <1>1, RecordsItself DEF ExecPlain, ReadBy, WrittenBy
<1>2. CASE i.op = "print"
  <2>1. i.dst \in Var
    BY <1>2 DEF WellFormed
  <2>2. ExecPlain(m, i, n) = ReadAddr(m, i.dst, FALSE, n)
    BY <1>2 DEF ExecPlain
  <2>3. Records(m, ExecPlain(m, i, n), n, {i.dst}, {})
    BY <2>1, <2>2, ReadRecords
  <2>4. QED BY <1>2, <2>1, <2>3 DEF ReadBy, WrittenBy
<1>3. CASE i.op \in {"+=", "-="}
  <2> DEFINE R0 == IF i.src = NoVar THEN {} ELSE {i.src}
             m1 == IF i.src = NoVar THEN m ELSE ReadAddr(m, i.src, FALSE, n)
             m2 == ReadAddr(m1, i.dst, FALSE, n)
             v  == IF i.op = "+="
                   THEN m.val[i.dst] + ExprValue(m, i)
                   ELSE m.val[i.dst] - ExprValue(m, i)
  <2>1. i.dst \in Var /\ i.src \in Var \cup {NoVar} /\ i.k \in Int
    BY <1>3 DEF WellFormed, Instr
  <2>2. v \in Int
    <3>1. m.val \in [Var -> Int]
      BY DEF Store
    <3>2. ExprValue(m, i) \in Int /\ m.val[i.dst] \in Int
      BY <2>1, <3>1 DEF ExprValue
    <3>3. QED BY <3>2
  <2>3. ExecPlain(m, i, n) = WriteAddr(m2, i.dst, v, FALSE, n)
    BY <1>3 DEF ExecPlain, ExecAssign
  <2>4. WrittenBy(i) = {i.dst} /\ ReadBy(i) = R0 \cup {i.dst}
    BY <1>3 DEF WrittenBy, ReadBy
  <2>5. R0 \in SUBSET Var /\ Records(m, m1, n, R0, {})
    BY <2>1, RecordsItself, ReadRecords
  <2> HIDE DEF m1, v, R0
  <2>6. m1 \in Store /\ NothingLater(m1, n)
    BY <2>5 DEF Records
  <2>7. Records(m1, m2, n, {i.dst}, {})
    BY <2>1, <2>6, ReadRecords
  <2> DEFINE R1 == R0 \cup {i.dst}
  <2>8. Records(m, m2, n, R1, {})
    <3>1. Records(m, m2, n, R0 \cup {i.dst}, {} \cup {})
      BY <2>1, <2>5, <2>7, RecordsTransitive
    <3>2. {} \cup {} = {}
      OBVIOUS
    <3> HIDE DEF m2
    <3>3. QED BY <3>1, <3>2
  <2>9. R1 \in SUBSET Var /\ R1 = ReadBy(i)
    BY <2>1, <2>4, <2>5
  <2> HIDE DEF m2, R1
  <2>10. m2 \in Store /\ NothingLater(m2, n)
    BY <2>8 DEF Records
  <2>11. Records(m2, ExecPlain(m, i, n), n, {}, {i.dst})
    BY <2>1, <2>2, <2>3, <2>10, WriteRecords
  <2>12. Records(m, ExecPlain(m, i, n), n, R1 \cup {}, {} \cup {i.dst})
    BY <2>1, <2>8, <2>9, <2>11, RecordsTransitive
  <2>13. R1 \cup {} = R1 /\ {} \cup {i.dst} = {i.dst}
    OBVIOUS
  <2>14. QED BY <1>3, <2>4, <2>9, <2>12, <2>13
<1>4. CASE i.op = "<=>"
  <2> DEFINE m1 == ReadAddr(m, i.dst, FALSE, n)
             m2 == ReadAddr(m1, i.src, FALSE, n)
             m3 == WriteAddr(m2, i.dst, m.val[i.src], FALSE, n)
             m4 == WriteAddr(m3, i.src, m.val[i.dst], FALSE, n)
  <2>1. i.dst \in Var /\ i.src \in Var
    BY <1>4 DEF WellFormed
  <2>2. m.val[i.src] \in Int /\ m.val[i.dst] \in Int
    BY <2>1 DEF Store
  <2>3. ExecPlain(m, i, n) = m4
    BY <1>4 DEF ExecPlain, ExecSwap
  <2>4. Records(m, m1, n, {i.dst}, {})
    BY <2>1, ReadRecords
  <2> HIDE DEF m1
  <2>5. m1 \in Store /\ NothingLater(m1, n)
    BY <2>4 DEF Records
  <2>6. Records(m1, m2, n, {i.src}, {})
    BY <2>1, <2>5, ReadRecords
  <2> HIDE DEF m2
  <2>7. m2 \in Store /\ NothingLater(m2, n)
    BY <2>6 DEF Records
  <2>8. Records(m2, m3, n, {}, {i.dst})
    BY <2>1, <2>2, <2>7, WriteRecords
  <2> HIDE DEF m3
  <2>9. m3 \in Store /\ NothingLater(m3, n)
    BY <2>8 DEF Records
  <2>10. Records(m3, m4, n, {}, {i.src})
    BY <2>1, <2>2, <2>9, WriteRecords
  <2> HIDE DEF m4
  <2>11. Records(m, m2, n, {i.dst} \cup {i.src}, {} \cup {})
    BY <2>1, <2>4, <2>6, RecordsTransitive
  <2>12. Records(m2, m4, n, {} \cup {}, {i.dst} \cup {i.src})
    BY <2>1, <2>7, <2>8, <2>10, RecordsTransitive
  <2>13. Records(m, m4, n, ({i.dst} \cup {i.src}) \cup ({} \cup {}),
                 ({} \cup {}) \cup ({i.dst} \cup {i.src}))
    BY <2>1, <2>11, <2>12, RecordsTransitive
  <2>14. /\ ({} \cup {}) \cup ({i.dst} \cup {i.src}) = WrittenBy(i)
         /\ ({i.dst} \cup {i.src}) \cup ({} \cup {}) = ReadBy(i)
    BY <1>4 DEF WrittenBy, ReadBy
  <2>15. QED BY <1>4, <2>1, <2>3, <2>13, <2>14
<1>5. QED BY <1>1, <1>2, <1>3, <1>4 DEF Instr, Op

\* Taking a semaphore: a read and a write of its variable.
LEMMA SemTakeRecords ==
  ASSUME NEW m \in Store, NEW n \in Node, NothingLater(m, n), NEW x \in Var, NEW v \in Int
  PROVE  Records(m, WriteAddr(ReadAddr(m, x, FALSE, n), x, v, FALSE, n), n, {x}, {x})
<1> DEFINE m1 == ReadAddr(m, x, FALSE, n)
           m2 == WriteAddr(m1, x, v, FALSE, n)
<1>1. Records(m, m1, n, {x}, {})
  BY ReadRecords
<1> HIDE DEF m1
<1>2. m1 \in Store /\ NothingLater(m1, n)
  BY <1>1 DEF Records
<1>3. Records(m1, m2, n, {}, {x})
  BY <1>2, WriteRecords
<1> HIDE DEF m2
<1>4. Records(m, m2, n, {x} \cup {}, {} \cup {x})
  BY <1>1, <1>3, RecordsTransitive
<1>5. {x} \cup {} = {x} /\ {} \cup {x} = {x}
  OBVIOUS
<1>6. QED BY <1>4, <1>5 DEF m1, m2

\* Backwards nothing is read, and what was written is given back to the node
\* that had written it before.
LEMMA ForgetsNothing ==
  ASSUME NEW m \in Store, NEW n \in Node
  PROVE  Forgets(m, m, n, {})
BY DEF Forgets

LEMMA ExecPlainForgets ==
  ASSUME NEW m \in Store, rev = TRUE, NEW n \in Node, NEW i \in Instr,
         WellFormed(i), i.op \notin {"V", "P", "call"}
  PROVE  Forgets(m, ExecPlain(m, i, n), n, WrittenBy(i))
<1>1. CASE i.op \in {"skip", "print"}
  <2>1. ExecPlain(m, i, n) = m /\ WrittenBy(i) = {}
    BY <1>1 DEF ExecPlain, ReadAddr, WrittenBy
  <2>2. QED BY <2>1, ForgetsNothing
<1>2. CASE i.op \in {"+=", "-="}
  <2> DEFINE v == IF i.op = "+="
                  THEN m.val[i.dst] - ExprValue(m, i)
                  ELSE m.val[i.dst] + ExprValue(m, i)
  <2>1. i.dst \in Var /\ i.src \in Var \cup {NoVar} /\ i.k \in Int
    BY <1>2 DEF WellFormed, Instr
  <2>2. v \in Int
    <3>1. m.val \in [Var -> Int]
      BY DEF Store
    <3>2. ExprValue(m, i) \in Int /\ m.val[i.dst] \in Int
      BY <2>1, <3>1 DEF ExprValue
    <3>3. QED BY <3>2
  <2>3. ExecPlain(m, i, n) = WriteAddr(m, i.dst, v, TRUE, n)
    BY <1>2 DEF ExecPlain, ExecAssign, ReadAddr
  <2> HIDE DEF v
  <2>4. QED BY <1>2, <2>1, <2>2, <2>3, WriteForgets DEF WrittenBy
<1>3. CASE i.op = "<=>"
  <2> DEFINE m3 == WriteAddr(m, i.dst, m.val[i.src], TRUE, n)
             m4 == WriteAddr(m3, i.src, m.val[i.dst], TRUE, n)
  <2>1. i.dst \in Var /\ i.src \in Var
    BY <1>3 DEF WellFormed
  <2>2. m.val[i.src] \in Int /\ m.val[i.dst] \in Int
    BY <2>1 DEF Store
  <2>3. ExecPlain(m, i, n) = m4
    BY <1>3 DEF ExecPlain, ExecSwap, ReadAddr
  <2>4. Forgets(m, m3, n, {i.dst})
    BY <2>1, <2>2, WriteForgets
  <2> HIDE DEF m3
  <2>5. m3 \in Store
    BY <2>4 DEF Forgets
  <2>6. Forgets(m3, m4, n, {i.src})
    BY <2>1, <2>2, <2>5, WriteForgets
  <2> HIDE DEF m4
  <2>7. Forgets(m, m4, n, {i.dst} \cup {i.src})
    BY <2>4, <2>6, ForgetsTransitive
  <2>8. WrittenBy(i) = {i.dst} \cup {i.src}
    BY <1>3 DEF WrittenBy
  <2>9. QED BY <2>3, <2>7, <2>8
<1>4. QED BY <1>1, <1>2, <1>3 DEF Instr, Op

-----------------------------------------------------------------------------
(* Where the processes are                                                 *)

Busy(p) == status[p] = "ready" \/ Inside(p)

\* The nodes of the DAG are blocks of processes that exist.
LEMMA DagNodesExist ==
  ASSUME Ind, NEW n \in Node, InDag(n)
  PROVE  Created(n[1])
<1>1. n[1] \in Pid /\ n[2] \in Nat
  BY NodeType
<1>2. CASE Executed(n)
  BY <1>1, <1>2 DEF Executed, Ind, Structure, ProcessesExist
<1>3. CASE Inside(n[1])
  BY <1>1, <1>3, ActiveIsCreated DEF Inside
<1>4. QED BY <1>2, <1>3 DEF InDag

\* The node of a busy process: its next block, or the last one backwards.
LEMMA BusyNode ==
  ASSUME Ind, NEW p \in Pid, Busy(p)
  PROVE  LET n == CurrentNode(p)
         IN  /\ n \in Node /\ n = <<p, n[2]>> /\ n[1] = p /\ Created(p)
             /\ CurrentInstr(p) \in Instr /\ WellFormed(CurrentInstr(p))
             /\ WrittenAt(n) = WrittenBy(CurrentInstr(p))
             /\ ReadAt(n) = ReadBy(CurrentInstr(p)) /\ OpAt(n) = CurrentInstr(p).op
             /\ n[2] < CodeLen(p)
             /\ ~rev => n[2] = pc[p] /\ ~Executed(n)
             /\ rev => InDag(n)
             /\ rev /\ status[p] = "ready" => Executed(n) /\ n[2] = pc[p] - 1
             /\ Inside(p) => n[2] = pc[p] /\ InDag(n) /\ ~Executed(n)
<1> DEFINE n == CurrentNode(p)
<1>1. /\ n \in Node /\ n[1] = p
      /\ n[2] = IF rev /\ status[p] = "ready" THEN pc[p] - 1 ELSE pc[p]
      /\ CurrentInstr(p) \in Instr /\ WellFormed(CurrentInstr(p))
      /\ n[2] \in 0..(CodeLen(p) - 1)
  BY CurrentNodeFits DEF Busy
<1>2. n = <<p, n[2]>>
  BY DEF CurrentNode
<1>3. Created(p) /\ pc[p] \in Nat /\ CodeLen(p) \in Nat
  BY ActiveIsCreated, CodeLenType DEF Busy, Inside, Ind, TypeOK
<1>4. /\ WrittenAt(n) = WrittenBy(CurrentInstr(p))
      /\ ReadAt(n) = ReadBy(CurrentInstr(p)) /\ OpAt(n) = CurrentInstr(p).op
  BY <1>1 DEF WrittenAt, ReadAt, OpAt, CurrentInstr
<1>5. Inside(p) => status[p] # "ready"
  BY DEF Inside
<1> HIDE DEF n
<1>6. Executed(n) <=> n[2] < pc[p]
  BY <1>1 DEF Executed
<1>7. QED BY <1>1, <1>2, <1>3, <1>4, <1>5, <1>6 DEF InDag, Busy, n

OthersStay(p) == \A q \in Pid \ {p} : Inside(q)' <=> Inside(q)

\* A block that begins and gives the mutex up: it is in the DAG, not executed.
LEMMA BlockBegins ==
  ASSUME Ind, NEW p \in Pid, Busy(p), NEW n, n = CurrentNode(p),
         pc' = [pc EXCEPT ![p] = n[2]], Inside(p)', OthersStay(p)
  PROVE  \A d \in Node : /\ InDag(d)' <=> InDag(d) \/ d = n
                         /\ Executed(d)' <=> Executed(d) /\ d # n
<1>1. /\ n \in Node /\ n = <<p, n[2]>> /\ n[2] \in Nat
      /\ n[2] = IF rev /\ status[p] = "ready" THEN pc[p] - 1 ELSE pc[p]
  BY CurrentNodeFits, BusyNode, NodeType DEF Busy
<1>2. pc \in [Pid -> 0..MaxPc] /\ (status[p] = "ready" => ~Inside(p))
  BY DEF Ind, TypeOK, Inside
<1>3. ASSUME NEW d \in Node
      PROVE  /\ d[1] \in Pid /\ d[2] \in Nat /\ pc[d[1]] \in Nat
             /\ d = n <=> d[1] = p /\ d[2] = n[2]
             /\ pc'[d[1]] = IF d[1] = p THEN n[2] ELSE pc[d[1]]
  <2>1. d = <<d[1], d[2]>> /\ d[1] \in Pid /\ d[2] \in Nat
    BY NodeType DEF Node
  <2>2. QED BY <1>1, <1>2, <2>1
<1>4. ASSUME NEW d \in Node
      PROVE  Executed(d)' <=> Executed(d) /\ d # n
  <2>1. CASE d[1] # p
    BY <1>3, <2>1 DEF Executed
  <2>2. CASE d[1] = p
    BY <1>1, <1>2, <1>3, <2>2 DEF Executed
  <2>3. QED BY <2>1, <2>2
<1>5. ASSUME NEW d \in Node
      PROVE  InDag(d)' <=> InDag(d) \/ d = n
  <2>1. CASE d[1] # p
    BY <1>3, <1>4, <2>1 DEF InDag, OthersStay
  <2>2. CASE d[1] = p
    BY <1>1, <1>2, <1>3, <1>4, <2>2 DEF InDag, Executed, Busy
  <2>3. QED BY <2>1, <2>2
<1>6. QED BY <1>4, <1>5

\* A block that ends.
LEMMA BlockEnds ==
  ASSUME Ind, NEW p \in Pid, Busy(p), NEW n, n = CurrentNode(p),
         pc' = [pc EXCEPT ![p] = IF rev THEN n[2] ELSE n[2] + 1],
         ~Inside(p)', OthersStay(p)
  PROVE  \A d \in Node :
            /\ InDag(d)' <=> IF rev THEN InDag(d) /\ d # n ELSE InDag(d) \/ d = n
            /\ Executed(d)' <=> IF rev THEN Executed(d) /\ d # n ELSE Executed(d) \/ d = n
<1>1. /\ n \in Node /\ n = <<p, n[2]>> /\ n[2] \in Nat
      /\ n[2] = IF rev /\ status[p] = "ready" THEN pc[p] - 1 ELSE pc[p]
  BY CurrentNodeFits, BusyNode, NodeType DEF Busy
<1>2. pc \in [Pid -> 0..MaxPc] /\ rev \in BOOLEAN /\ (status[p] = "ready" => ~Inside(p))
  BY DEF Ind, TypeOK, Inside
<1>3. ASSUME NEW d \in Node
      PROVE  /\ d[1] \in Pid /\ d[2] \in Nat /\ pc[d[1]] \in Nat
             /\ d = n <=> d[1] = p /\ d[2] = n[2]
             /\ pc'[d[1]] = IF d[1] = p THEN IF rev THEN n[2] ELSE n[2] + 1 ELSE pc[d[1]]
  <2>1. d = <<d[1], d[2]>> /\ d[1] \in Pid /\ d[2] \in Nat
    BY NodeType DEF Node
  <2>2. QED BY <1>1, <1>2, <2>1
<1>4. ASSUME NEW d \in Node
      PROVE  Executed(d)' <=> IF rev THEN Executed(d) /\ d # n ELSE Executed(d) \/ d = n
  <2>1. CASE d[1] # p
    BY <1>3, <2>1 DEF Executed
  <2>2. CASE d[1] = p
    BY <1>1, <1>2, <1>3, <2>2 DEF Executed
  <2>3. QED BY <2>1, <2>2
<1>5. ASSUME NEW d \in Node
      PROVE  InDag(d)' <=> IF rev THEN InDag(d) /\ d # n ELSE InDag(d) \/ d = n
  <2>1. CASE d[1] # p
    BY <1>3, <1>4, <2>1 DEF InDag, OthersStay
  <2>2. CASE d[1] = p
    BY <1>1, <1>2, <1>3, <1>4, <2>2 DEF InDag, Executed, Busy
  <2>3. QED BY <2>1, <2>2
<1>6. QED BY <1>4, <1>5

\* A process has something to read or to write only when main has executed its
\* first block, the node that heap cells name as their writer at the start.
LEMMA RootExecuted ==
  ASSUME Ind, ~rev, NEW p \in Pid, Busy(p), CurrentInstr(p).op # "skip"
  PROVE  Executed(<<0, 0>>)
<1> SUFFICES ASSUME pc[0] = 0
             PROVE  FALSE
  BY MainFacts DEF Executed, Ind, TypeOK
<1>1. proc[0] = Main /\ Code[proc[0]][1].op = "skip"
  BY CodeAssumption DEF Ind, Structure, ProcessesExist
<1>2. CASE p = 0
  BY <1>1, <1>2 DEF CurrentInstr, CurrentNode
<1>3. CASE p # 0
  <2>1. status[0] = "call"
    BY <1>3, IndImpliesQuiescent DEF Quiescent, Busy, Inside, Active
  <2>2. callpids[<<0, 0>>] # <<>> /\ <<0, 0>> \in Node
    BY <2>1, MainFacts, BoundsAssumption DEF Ind, Structure, PositionsFit, Node
  <2>3. Code[proc[0]][0 + 1].op = "call"
    BY <2>2 DEF Ind, Structure, CallsRecorded
  <2>4. QED BY <1>1, <2>3
<1>4. QED BY <1>2, <1>3

-----------------------------------------------------------------------------
(* The five kinds of steps                                                 *)

\* Nothing turns around, and no process changes its procedure.
SamePhase ==
    /\ rev' = rev /\ turns' = turns
    /\ \A p \in Pid : Created(p) => proc'[p] = proc[p]

\* What node n has written when it has ended, or has not.
WrittenIf(n, fin) == IF fin THEN WrittenAt(n) ELSE {}

\* A V or P that ends has found the one value of its semaphore and left the other.
Flips(n) ==
    OpAt(n) \in {"V", "P"} => \A x \in WrittenAt(n) :
        IF rev THEN mem.val[x] = LeftBy(n) /\ mem'.val[x] = 1 - LeftBy(n)
               ELSE mem.val[x] = 1 - LeftBy(n) /\ mem'.val[x] = LeftBy(n)

\* What instruction i makes of x, which it writes, out of the values v; back is
\* TRUE when it is undone.
Operand(i, v) == (IF i.src = NoVar THEN 0 ELSE v[i.src]) + i.k

Effect(i, back, v, x) ==
    IF i.op = "<=>" THEN IF x = i.src THEN v[i.dst] ELSE v[i.src]
    ELSE IF i.op = (IF back THEN "-=" ELSE "+=") THEN v[x] + Operand(i, v)
    ELSE v[x] - Operand(i, v)

\* An assignment or a swap that ends has done its work on the values.
Computes(n) ==
    OpAt(n) \in {"+=", "-=", "<=>"} => \A x \in WrittenAt(n) :
        mem'.val[x] = Effect(Code[proc[n[1]]][n[2] + 1], rev, mem.val, x)

\* A block that does not end yet: a call, or a V or P whose semaphore has not
\* got the value it needs.
Pauses(n) ==
    \/ OpAt(n) = "call"
    \/ /\ OpAt(n) \in {"V", "P"}
       /\ status'[n[1]] = "wait" /\ pc'[n[1]] = n[2]
       /\ \A x \in WrittenAt(n) :
             mem.val[x] # IF rev THEN LeftBy(n) ELSE 1 - LeftBy(n)

\* Node n, the next block of its process, reads R; if it ends (fin), it has
\* written what it writes, and is executed.
Forward(n, R, fin) ==
    /\ SamePhase /\ ~rev
    /\ n \in Node /\ Created(n[1]) /\ n[2] = pc[n[1]] /\ n[2] < CodeLen(n[1])
    /\ Busy(n[1])
    /\ WrittenAt(n) \in SUBSET Var
    /\ R = ReadAt(n)
    /\ fin => Flips(n) /\ Computes(n)
    /\ ~fin => Pauses(n)
    /\ \A i \in DOMAIN mem.inc[n] : mem.inc[n][i].src = Bot \/ Executed(mem.inc[n][i].src)
    /\ Records(mem, mem', n, R, WrittenIf(n, fin))
    /\ R \cup WrittenIf(n, fin) # {} => Executed(<<0, 0>>)
    /\ \A d \in Node : /\ InDag(d)' <=> InDag(d) \/ d = n
                       /\ Executed(d)' <=> Executed(d) \/ (fin /\ d = n)

\* Node n, which nobody uses, is undone and leaves the DAG.
Backward(n) ==
    /\ SamePhase /\ rev
    /\ n \in Node /\ InDag(n) /\ mem.ctr[n] = 0
    /\ Executed(n) => n[2] = pc[n[1]] - 1
    /\ Flips(n) /\ Computes(n)
    /\ \E m : Forgets(mem, m, n, WrittenAt(n)) /\ mem' = RunModifyDagRev(m, n)
    /\ \A p \in Pid : Inside(p)' => Inside(p) /\ pc'[p] = pc[p] /\ pc[p] \in Nat
    /\ \A d \in Node : /\ InDag(d)' <=> InDag(d) /\ d # n
                       /\ Executed(d)' <=> Executed(d) /\ d # n

\* Node n, which nobody uses, begins to be undone and stays in the DAG.
BeginsUndo(n) ==
    /\ SamePhase /\ rev
    /\ n \in Node /\ InDag(n) /\ mem.ctr[n] = 0
    /\ Executed(n) => n[2] = pc[n[1]] - 1
    /\ Pauses(n)
    /\ mem' = mem
    /\ \A p \in Pid : Inside(p)' => \/ Inside(p) /\ pc'[p] = pc[p]
                                    \/ <<p, pc'[p]>> = n
    /\ \A d \in Node : /\ InDag(d)' <=> InDag(d)
                       /\ Executed(d)' <=> Executed(d) /\ d # n

\* Nothing is executed or undone.
Quiet ==
    /\ SamePhase
    /\ mem' = mem
    /\ \A p \in Pid : Inside(p)' => Inside(p) /\ pc'[p] = pc[p]
    /\ \A d \in Node : /\ InDag(d)' <=> InDag(d)
                       /\ Executed(d)' <=> Executed(d)

\* The user turns around: every block of the DAG is executed.
TurnsAround ==
    /\ rev' = ~rev /\ turns' = turns + 1
    /\ mem' = mem /\ proc' = proc
    /\ \A p \in Pid : ~Inside(p)'
    /\ \A d \in Node : /\ InDag(d)' <=> InDag(d)
                       /\ Executed(d)' <=> Executed(d)
                       /\ InDag(d) <=> Executed(d)

LEMMA PhaseFacts ==
  ASSUME Ind, History, turns <= 2
  PROVE  /\ turns \in Nat /\ rev \in BOOLEAN /\ mem \in Store /\ mem.err = "none"
         /\ rev => turns = 1 /\ FirstTrip
         /\ ~rev => turns # 1 /\ (turns <= 1 => turns = 0 /\ FirstTrip)
         /\ SourcesExecuted /\ SourcesWrite /\ LastWriters
<1>1. turns \in Nat /\ rev \in BOOLEAN /\ mem \in Store
  BY TurnsAssumption DEF Ind, TypeOK
<1>2. /\ mem.err = "none" /\ rev = (turns = 1) /\ (turns <= 1 => FirstTrip)
      /\ SourcesExecuted /\ SourcesWrite /\ LastWriters
  BY DEF History
<1>3. rev => turns = 1
  BY <1>2
<1>4. ~rev => turns # 1
  BY <1>2
<1>5. QED BY <1>1, <1>2, <1>3, <1>4

\* What the history says of the node that a process executes or undoes.
LEMMA ForwardNode ==
  ASSUME Ind, CheckStillHolds, History, turns <= 2, ~rev, NEW p \in Pid, Busy(p)
  PROVE  LET n == CurrentNode(p)
         IN  /\ NothingLater(mem, n)
             /\ \A i \in DOMAIN mem.inc[n] :
                   mem.inc[n][i].src = Bot \/ Executed(mem.inc[n][i].src)
<1> DEFINE n == CurrentNode(p)
<1>1. /\ n \in Node /\ n = <<p, n[2]>> /\ n[1] = p /\ n[2] \in Nat /\ n[2] = pc[p]
      /\ Inside(p) => InDag(n)
  BY BusyNode, NodeType
<1>2. /\ mem.err = "none" /\ SourcesExecuted /\ LastWriters
      /\ mem \in Store
  BY DEF History, Ind, TypeOK
<1> HIDE DEF n
<1>3. NothingLater(mem, n)
  <2> SUFFICES ASSUME NEW y \in Var
               PROVE  ~(mem.last[y][1] = p /\ mem.last[y][2] > n[2])
    BY <1>1 DEF NothingLater
  <2>1. CASE mem.last[y] = Bot
    BY <2>1, <1>1, BoundsAssumption DEF Bot, Pid
  <2>2. CASE mem.last[y] = <<0, 0>>
    BY <2>2, <1>1
  <2>3. CASE mem.last[y] # Bot /\ mem.last[y] # <<0, 0>>
    <3>1. Executed(mem.last[y]) /\ mem.last[y] \in Node
      BY <1>2, <2>3 DEF LastWriters, InitLast, Store
    <3>2. mem.last[y][2] \in Nat
      BY <3>1, NodeType
    <3>3. QED BY <1>1, <3>1, <3>2 DEF Executed
  <2>4. QED BY <2>1, <2>2, <2>3
<1>4. ASSUME NEW i \in DOMAIN mem.inc[n], mem.inc[n][i].src # Bot
      PROVE  Executed(mem.inc[n][i].src)
  <2>1. CASE Inside(p)
    BY <1>1, <1>2, <1>4, <2>1 DEF SourcesExecuted, DagNodes
  <2>2. CASE status[p] = "ready"
    <3>1. IsRunnable(p)
      BY <1>2, <2>2 DEF CheckStillHolds
    <3>2. Created(mem.inc[n][i].src[1])
      BY <1>1, <1>4 DEF Ind, Structure, EdgesFromProcesses, RefersTo
    <3>3. n = <<p, pc[p]>>
      BY <1>1
    <3>4. QED BY <1>4, <3>1, <3>2, <3>3 DEF IsRunnable, Executed
  <2>3. QED BY <2>1, <2>2 DEF Busy
<1>5. QED BY <1>3, <1>4 DEF n

LEMMA BackwardNode ==
  ASSUME Ind, CheckStillHolds, History, turns <= 2, rev, NEW p \in Pid, Busy(p)
  PROVE  LET n == CurrentNode(p)
         IN  turns <= 1 /\ mem.ctr[n] = 0 /\ (Executed(n) => n[2] = pc[n[1]] - 1)
<1> DEFINE n == CurrentNode(p)
<1>1. /\ n = <<p, n[2]>> /\ n[1] = p
      /\ status[p] = "ready" => n[2] = pc[p] - 1
      /\ Inside(p) => n[2] = pc[p] /\ ~Executed(n)
  BY BusyNode
<1>2. mem.err = "none" /\ turns <= 1 /\ UndoneUnused
  BY PhaseFacts DEF FirstTrip
<1> HIDE DEF n
<1>3. CASE Inside(p)
  <2>1. n = <<p, pc[p]>>
    BY <1>1, <1>3
  <2>2. QED BY <1>1, <1>2, <1>3, <2>1 DEF UndoneUnused, n
<1>4. CASE status[p] = "ready"
  <2>1. IsRunnable(p)
    BY <1>2, <1>4 DEF CheckStillHolds
  <2>2. n = <<p, pc[p] - 1>>
    BY <1>1, <1>4
  <2>3. QED BY <1>1, <1>2, <1>4, <2>1, <2>2 DEF IsRunnable, n
<1>5. QED BY <1>3, <1>4 DEF Busy


-----------------------------------------------------------------------------
(* Every step is of one of these kinds                                     *)

StepKind ==
    \/ \E n \in Node : \E R \in SUBSET Var : Forward(n, R, TRUE) \/ Forward(n, R, FALSE)
    \/ \E n \in Node : Backward(n) \/ BeginsUndo(n)
    \/ Quiet
    \/ TurnsAround

\* A block that ends under the mutex: its instruction has turned the store into
\* m, and nobody else has begun or ended one.
LEMMA EndOfBlock ==
  ASSUME Ind, CheckStillHolds, History, turns <= 2,
         NEW p \in Pid, Busy(p), NEW n, n = CurrentNode(p), NEW m,
         IF rev THEN Forgets(mem, m, n, WrittenAt(n))
         ELSE Records(mem, m, n, ReadAt(n), WrittenAt(n)),
         FinishBlock(m, n), status'[p] = AfterBlock(n), OthersStay(p),
         Flips(n), Computes(n),
         UNCHANGED <<rev, turns, proc>>
  PROVE  StepKind
<1>1. /\ n \in Node /\ n[1] = p /\ Created(p) /\ n[2] < CodeLen(n[1])
      /\ ~rev => n[2] = pc[p]
      /\ rev => InDag(n)
      /\ WrittenAt(n) = WrittenBy(CurrentInstr(p)) /\ WrittenAt(n) \in SUBSET Var
      /\ ReadAt(n) = ReadBy(CurrentInstr(p)) /\ ReadAt(n) \in SUBSET Var
  BY BusyNode, WrittenByType, ReadByType
<1>2. pc' = [pc EXCEPT ![p] = IF rev THEN n[2] ELSE n[2] + 1]
  BY <1>1 DEF FinishBlock
<1>3. ~Inside(p)' /\ SamePhase /\ pc \in [Pid -> 0..MaxPc]
  BY DEF Inside, AfterBlock, SamePhase, Ind, TypeOK
<1>4. \A d \in Node :
         /\ InDag(d)' <=> IF rev THEN InDag(d) /\ d # n ELSE InDag(d) \/ d = n
         /\ Executed(d)' <=> IF rev THEN Executed(d) /\ d # n ELSE Executed(d) \/ d = n
  BY <1>2, <1>3, BlockEnds
<1>5. CASE ~rev
  <2>1. mem' = m
    BY <1>5 DEF FinishBlock
  <2>2. \A i \in DOMAIN mem.inc[n] : mem.inc[n][i].src = Bot \/ Executed(mem.inc[n][i].src)
    BY <1>5, ForwardNode
  <2>3. ReadAt(n) # {} \/ WrittenAt(n) # {} => Executed(<<0, 0>>)
    <3>1. CurrentInstr(p).op = "skip" => ReadAt(n) = {} /\ WrittenAt(n) = {}
      BY <1>1 DEF ReadBy, WrittenBy
    <3>2. QED BY <1>5, <3>1, RootExecuted
  <2>4. Forward(n, ReadAt(n), TRUE)
    BY <1>1, <1>3, <1>4, <1>5, <2>1, <2>2, <2>3 DEF Forward, WrittenIf
  <2>5. QED BY <1>1, <2>4 DEF StepKind
<1>6. CASE rev
  <2>1. mem' = RunModifyDagRev(m, n)
    BY <1>6 DEF FinishBlock
  <2>2. mem.ctr[n] = 0 /\ (Executed(n) => n[2] = pc[n[1]] - 1)
    BY <1>6, BackwardNode
  <2>3. \A q \in Pid : Inside(q)' => Inside(q) /\ pc'[q] = pc[q] /\ pc[q] \in Nat
    BY <1>2, <1>3 DEF OthersStay
  <2>4. Backward(n)
    BY <1>1, <1>3, <1>4, <1>6, <2>1, <2>2, <2>3 DEF Backward
  <2>5. QED BY <1>1, <2>4 DEF StepKind
<1>7. QED BY <1>5, <1>6

\* A block that begins and gives the mutex up.
LEMMA BeginOfBlock ==
  ASSUME Ind, CheckStillHolds, History, turns <= 2,
         NEW p \in Pid, Busy(p), NEW n, n = CurrentNode(p),
         IF rev THEN mem' = mem ELSE Records(mem, mem', n, ReadAt(n), {}),
         pc' = [pc EXCEPT ![p] = n[2]], Inside(p)', OthersStay(p), SamePhase, Pauses(n)
  PROVE  StepKind
<1>1. /\ n \in Node /\ n = <<p, n[2]>> /\ n[1] = p /\ Created(p) /\ n[2] < CodeLen(n[1])
      /\ ~rev => n[2] = pc[p] /\ ~Executed(n)
      /\ rev => InDag(n)
      /\ WrittenAt(n) \in SUBSET Var
      /\ ReadAt(n) = ReadBy(CurrentInstr(p)) /\ ReadAt(n) \in SUBSET Var
  BY BusyNode, WrittenByType, ReadByType
<1>2. pc \in [Pid -> 0..MaxPc]
  BY DEF Ind, TypeOK
<1>3. \A d \in Node : /\ InDag(d)' <=> InDag(d) \/ d = n
                      /\ Executed(d)' <=> Executed(d) /\ d # n
  BY BlockBegins
<1>4. CASE ~rev
  <2>1. \A i \in DOMAIN mem.inc[n] : mem.inc[n][i].src = Bot \/ Executed(mem.inc[n][i].src)
    BY <1>4, ForwardNode
  <2>2. ReadAt(n) # {} => Executed(<<0, 0>>)
    <3>1. CurrentInstr(p).op = "skip" => ReadAt(n) = {}
      BY <1>1 DEF ReadBy, WrittenBy
    <3>2. QED BY <1>4, <3>1, RootExecuted
  <2>3. Forward(n, ReadAt(n), FALSE)
    BY <1>1, <1>3, <1>4, <2>1, <2>2 DEF Forward, WrittenIf
  <2>4. QED BY <1>1, <2>3 DEF StepKind
<1>5. CASE rev
  <2>1. mem.ctr[n] = 0 /\ (Executed(n) => n[2] = pc[n[1]] - 1)
    BY <1>5, BackwardNode
  <2>2. \A q \in Pid : Inside(q)' => \/ Inside(q) /\ pc'[q] = pc[q]
                                     \/ <<q, pc'[q]>> = n
    <3>1. pc'[p] = n[2]
      BY <1>2
    <3>2. QED BY <1>1, <1>2, <3>1 DEF OthersStay
  <2>3. BeginsUndo(n)
    BY <1>1, <1>3, <1>5, <2>1, <2>2 DEF BeginsUndo
  <2>4. QED BY <1>1, <2>3 DEF StepKind
<1>6. QED BY <1>4, <1>5

LEMMA WriteValue ==
  ASSUME NEW m, NEW x, NEW v, NEW r, NEW n
  PROVE  WriteAddr(m, x, v, r, n).val = [m.val EXCEPT ![x] = v]
<1>1. AddEdge(m, m.last[x], x, TRUE, n).val = m.val
  BY DEF AddEdge, Mem
<1>2. QED BY <1>1 DEF WriteAddr, Mem

LEMMA ReadValue ==
  ASSUME NEW m, NEW x, NEW r, NEW n
  PROVE  ReadAddr(m, x, r, n).val = m.val
BY DEF ReadAddr, AddEdge, Mem

LEMMA ExecPlainValues ==
  ASSUME NEW m \in Store, rev \in BOOLEAN, NEW n \in Node, NEW i \in Instr, WellFormed(i),
         i.op \in {"+=", "-=", "<=>"}, NEW x \in WrittenBy(i)
  PROVE  ExecPlain(m, i, n).val[x] = Effect(i, rev, m.val, x)
<1>1. m.val \in [Var -> Int] /\ i.dst \in Var
  BY DEF Store, WellFormed
<1>2. CASE i.op \in {"+=", "-="}
  <2> DEFINE m1 == IF i.src = NoVar THEN m ELSE ReadAddr(m, i.src, rev, n)
             m2 == ReadAddr(m1, i.dst, rev, n)
             v  == IF (i.op = "+=") = (~rev)
                   THEN m.val[i.dst] + ExprValue(m, i)
                   ELSE m.val[i.dst] - ExprValue(m, i)
  <2>1. ExecPlain(m, i, n) = WriteAddr(m2, i.dst, v, rev, n)
    BY <1>2 DEF ExecPlain, ExecAssign
  <2>2. m2.val = m.val
    <3>1. m1.val = m.val
      BY ReadValue
    <3> HIDE DEF m1
    <3>2. QED BY <3>1, ReadValue
  <2>3. x = i.dst
    BY <1>2 DEF WrittenBy
  <2>4. v = Effect(i, rev, m.val, x)
    <3>1. CASE rev
      BY <1>2, <2>3, <3>1 DEF Effect, ExprValue, Operand
    <3>2. CASE ~rev
      BY <1>2, <2>3, <3>2 DEF Effect, ExprValue, Operand
    <3>3. QED BY <3>1, <3>2
  <2> HIDE DEF m2, v
  <2>5. WriteAddr(m2, i.dst, v, rev, n).val = [m2.val EXCEPT ![i.dst] = v]
    BY WriteValue
  <2>6. QED BY <1>1, <2>1, <2>2, <2>3, <2>4, <2>5
<1>3. CASE i.op = "<=>"
  <2> DEFINE m1 == ReadAddr(m, i.dst, rev, n)
             m2 == ReadAddr(m1, i.src, rev, n)
             m3 == WriteAddr(m2, i.dst, m.val[i.src], rev, n)
             m4 == WriteAddr(m3, i.src, m.val[i.dst], rev, n)
  <2>1. ExecPlain(m, i, n) = m4
    BY <1>3 DEF ExecPlain, ExecSwap
  <2>2. m2.val = m.val
    <3>1. m1.val = m.val
      BY ReadValue
    <3> HIDE DEF m1
    <3>2. QED BY <3>1, ReadValue
  <2> HIDE DEF m2
  <2>3. m3.val = [m.val EXCEPT ![i.dst] = m.val[i.src]]
    BY <2>2, WriteValue
  <2> HIDE DEF m3
  <2> DEFINE v == m.val[i.dst]
  <2> HIDE DEF v
  <2>4. WriteAddr(m3, i.src, v, rev, n).val = [m3.val EXCEPT ![i.src] = v]
    BY WriteValue
  <2>5. i.src \in Var /\ x \in {i.dst, i.src}
    BY <1>3 DEF WellFormed, WrittenBy
  <2>6. ExecPlain(m, i, n).val = [m3.val EXCEPT ![i.src] = v]
    BY <2>1, <2>4 DEF v
  <2>7. QED BY <1>1, <1>3, <2>3, <2>5, <2>6 DEF Effect, v
<1>4. QED BY <1>2, <1>3

LEMMA ExecKind ==
  ASSUME Ind, CheckStillHolds, History, turns <= 2, NEW p \in Pid, Exec(p)
  PROVE  StepKind
<1> DEFINE n == CurrentNode(p)
           i == CurrentInstr(p)
           m == ExecPlain(mem, i, n)
<1>1. /\ Busy(p) /\ i.op \notin {"V", "P", "call"} /\ FinishBlock(m, n)
      /\ status' = [status EXCEPT ![p] = AfterBlock(n)]
      /\ UNCHANGED <<rev, turns, proc>>
  BY DEF Exec, Busy
<1>2. /\ n \in Node /\ i \in Instr /\ WellFormed(i)
      /\ WrittenAt(n) = WrittenBy(i)
      /\ ReadAt(n) = ReadBy(i) /\ OpAt(n) = i.op
  BY <1>1, BusyNode
<1>3. mem \in Store /\ rev \in BOOLEAN /\ status \in [Pid -> Status]
  BY DEF Ind, TypeOK
<1>4. status'[p] = AfterBlock(n) /\ OthersStay(p)
  BY <1>1, <1>3 DEF OthersStay, Inside
<1>5. IF rev THEN Forgets(mem, m, n, WrittenAt(n))
      ELSE Records(mem, m, n, ReadAt(n), WrittenAt(n))
  <2>1. CASE rev
    BY <1>1, <1>2, <1>3, <2>1, ExecPlainForgets
  <2>2. CASE ~rev
    <3>1. NothingLater(mem, n) /\ rev = FALSE
      BY <1>1, <1>3, <2>2, ForwardNode
    <3> HIDE DEF n, i
    <3>2. QED BY <1>1, <1>2, <1>3, <3>1, ExecPlainRecords
  <2>3. QED BY <2>1, <2>2
<1>6. Flips(n)
  BY <1>1, <1>2 DEF Flips
<1>7. Computes(n)
  <2>1. Code[proc[n[1]]][n[2] + 1] = i
    BY <1>1, BusyNode DEF CurrentInstr
  <2> HIDE DEF n, i
  <2>2. mem'.val = m.val
    BY <1>1 DEF FinishBlock, RunModifyDagRev, Mem
  <2>3. QED BY <1>2, <1>3, <2>1, <2>2, ExecPlainValues DEF Computes
<1> HIDE DEF n, m
<1>8. QED BY <1>1, <1>4, <1>5, <1>6, <1>7, EndOfBlock DEF n

LEMMA SemTakeKind ==
  ASSUME Ind, CheckStillHolds, History, turns <= 2, NEW p \in Pid, SemTake(p)
  PROVE  StepKind
<1> DEFINE n == CurrentNode(p)
           i == CurrentInstr(p)
           m == WriteAddr(ReadAddr(mem, i.dst, rev, n), i.dst, SemTo(i), rev, n)
<1>1. /\ Busy(p) /\ status[p] \in {"ready", "woken"} /\ i.op \in {"V", "P"}
      /\ FinishBlock(m, n)
      /\ status' = [q \in Pid |-> IF q = p THEN AfterBlock(n)
                                  ELSE IF q \in NotifySem(i.dst) THEN "woken"
                                  ELSE status[q]]
      /\ UNCHANGED <<rev, turns, proc>>
  BY DEF SemTake, Busy, Inside
<1>2. /\ n \in Node /\ i \in Instr /\ WellFormed(i)
      /\ WrittenAt(n) = WrittenBy(i)
      /\ ReadAt(n) = ReadBy(i) /\ OpAt(n) = i.op
  BY <1>1, BusyNode
<1>3. mem \in Store /\ rev \in BOOLEAN /\ waitq \in [Var -> Seq(Pid)]
  BY DEF Ind, TypeOK
<1>4. i.dst \in Var /\ SemTo(i) \in Int /\ WrittenAt(n) = {i.dst} /\ ReadAt(n) = {i.dst}
  BY <1>1, <1>2 DEF WellFormed, SemTo, SemFrom, WrittenBy, ReadBy
<1>5. \A q \in NotifySem(i.dst) : status[q] = "wait"
  <2>1. waitq[i.dst] # <<>> => /\ 1 \in DOMAIN waitq[i.dst]
                               /\ Head(waitq[i.dst]) = waitq[i.dst][1]
    BY <1>3, <1>4
  <2>2. QED BY <1>4, <2>1 DEF NotifySem, Ind, Structure, QueuesHoldWaiters
<1>6. status'[p] = AfterBlock(n) /\ OthersStay(p)
  BY <1>1, <1>5 DEF OthersStay, Inside
<1>7. IF rev THEN Forgets(mem, m, n, WrittenAt(n))
      ELSE Records(mem, m, n, ReadAt(n), WrittenAt(n))
  <2>1. CASE rev
    <3>1. m = WriteAddr(mem, i.dst, SemTo(i), TRUE, n)
      BY <1>3, <2>1 DEF ReadAddr
    <3>2. Forgets(mem, m, n, {i.dst})
      BY <1>2, <1>3, <1>4, <3>1, WriteForgets
    <3>3. QED BY <1>4, <2>1, <3>2
  <2>2. CASE ~rev
    <3>1. NothingLater(mem, n) /\ rev = FALSE
      BY <1>1, <1>3, <2>2, ForwardNode
    <3>2. m = WriteAddr(ReadAddr(mem, i.dst, FALSE, n), i.dst, SemTo(i), FALSE, n)
      BY <3>1
    <3>3. Records(mem, m, n, {i.dst}, {i.dst})
      <4> HIDE DEF n, i
      <4> QED BY <1>2, <1>3, <1>4, <3>1, <3>2, SemTakeRecords
    <3>4. QED BY <1>4, <2>2, <3>3
  <2>3. QED BY <2>1, <2>2
<1>8. Computes(n)
  BY <1>1, <1>2 DEF Computes
<1>9. Flips(n)
  <2>1. mem.val[i.dst] = SemFrom(i) /\ n[1] = p
    BY <1>1, BusyNode DEF SemTake, SemFree
  <2>2. m \in Store /\ m.val[i.dst] = SemTo(i)
    <3>1. m \in Store
      BY <1>2, <1>3, <1>4, SemTakeAnnotates DEF Annotates
    <3>2. ReadAddr(mem, i.dst, rev, n) \in Store
      BY <1>2, <1>3, <1>4, ReadAnnotates DEF Annotates
    <3> DEFINE m0 == ReadAddr(mem, i.dst, rev, n)
    <3> HIDE DEF m0, n, i
    <3>3. WriteAddr(m0, i.dst, SemTo(i), rev, n).val = [m0.val EXCEPT ![i.dst] = SemTo(i)]
      BY WriteValue
    <3>4. QED BY <1>4, <3>1, <3>2, <3>3 DEF m0, Store
  <2>3. mem'.val[i.dst] = SemTo(i)
    <3>1. RunModifyDagRev(m, n).val = m.val
      BY DEF RunModifyDagRev, Mem
    <3>2. QED BY <1>1, <2>2, <3>1 DEF FinishBlock
  <2>4. OpAt(n) = i.op /\ LeftBy(n) = IF i.op = "V" THEN 1 ELSE 0
    BY <1>2, <2>1 DEF OpAt, LeftBy, CurrentInstr
  <2> HIDE DEF n, m
  <2>5. CASE rev
    <3>1. SemFrom(i) = (IF i.op = "V" THEN 1 ELSE 0) /\ SemTo(i) = 1 - SemFrom(i)
      BY <1>1, <1>3, <2>5 DEF SemFrom, SemTo
    <3>2. QED BY <1>1, <1>4, <2>1, <2>3, <2>4, <2>5, <3>1 DEF Flips
  <2>6. CASE ~rev
    <3>1. SemFrom(i) = (IF i.op = "V" THEN 0 ELSE 1) /\ SemTo(i) = 1 - SemFrom(i)
      BY <1>1, <1>3, <2>6 DEF SemFrom, SemTo
    <3>2. QED BY <1>1, <1>4, <2>1, <2>3, <2>4, <2>6, <3>1 DEF Flips
  <2>7. QED BY <2>5, <2>6
<1> HIDE DEF n, m
<1>10. QED BY <1>1, <1>6, <1>7, <1>8, <1>9, EndOfBlock DEF n

LEMMA SemWaitKind ==
  ASSUME Ind, CheckStillHolds, History, turns <= 2, NEW p \in Pid, SemWait(p)
  PROVE  StepKind
<1> DEFINE n == CurrentNode(p)
           i == CurrentInstr(p)
<1>1. /\ Busy(p) /\ i.op \in {"V", "P"}
      /\ mem' = ReadAddr(mem, i.dst, rev, n)
      /\ pc' = [pc EXCEPT ![p] = n[2]]
      /\ status' = [status EXCEPT ![p] = "wait"]
      /\ UNCHANGED <<rev, turns, proc>>
  BY DEF SemWait, Busy, Inside
<1>2. /\ n \in Node /\ n[1] = p /\ i \in Instr /\ WellFormed(i)
      /\ WrittenAt(n) = WrittenBy(i) /\ ReadAt(n) = ReadBy(i) /\ OpAt(n) = i.op
  BY <1>1, BusyNode
<1>3. mem \in Store /\ rev \in BOOLEAN /\ status \in [Pid -> Status]
  BY DEF Ind, TypeOK
<1>4. WrittenAt(n) = {i.dst} /\ ReadAt(n) = {i.dst} /\ i.dst \in Var
  BY <1>1, <1>2 DEF WellFormed, WrittenBy, ReadBy
<1>5. Inside(p)' /\ OthersStay(p) /\ SamePhase
  BY <1>1, <1>3 DEF OthersStay, Inside, SamePhase
<1>6. IF rev THEN mem' = mem ELSE Records(mem, mem', n, ReadAt(n), {})
  <2>1. CASE rev
    BY <1>1, <2>1 DEF ReadAddr
  <2>2. CASE ~rev
    <3>1. NothingLater(mem, n) /\ rev = FALSE
      BY <1>1, <1>3, <2>2, ForwardNode
    <3> HIDE DEF n, i
    <3>2. QED BY <1>1, <1>2, <1>3, <1>4, <2>2, <3>1, ReadRecords
  <2>3. QED BY <2>1, <2>2
<1>7. Pauses(n)
  <2>1. mem.val[i.dst] # SemFrom(i)
    BY DEF SemWait, SemFree
  <2>2. SemFrom(i) = IF rev THEN LeftBy(n) ELSE 1 - LeftBy(n)
    <3>1. LeftBy(n) = IF i.op = "V" THEN 1 ELSE 0
      BY <1>2 DEF LeftBy, OpAt
    <3>2. QED BY <1>1, <1>3, <3>1 DEF SemFrom
  <2>3. status'[p] = "wait" /\ pc'[p] = n[2]
    BY <1>1, <1>2, <1>3 DEF Ind, TypeOK
  <2> HIDE DEF n, i
  <2>4. QED BY <1>1, <1>2, <1>4, <2>1, <2>2, <2>3 DEF Pauses
<1> HIDE DEF n
<1>8. QED BY <1>1, <1>5, <1>6, <1>7, BeginOfBlock DEF n

LEMMA CallBeginKind ==
  ASSUME Ind, CheckStillHolds, History, turns <= 2, NEW p \in Pid, CallBegin(p)
  PROVE  StepKind
<1> DEFINE n == CurrentNode(p)
           kids == CallPids(n, Len(CurrentInstr(p).names))
<1>1. /\ Busy(p) /\ pc' = [pc EXCEPT ![p] = n[2]] /\ mem' = mem
      /\ status' = [q \in Pid |-> IF \E j \in DOMAIN kids : kids[j] = q THEN "run"
                                  ELSE IF q = p THEN "call" ELSE status[q]]
      /\ UNCHANGED <<rev, turns>>
  BY DEF CallBegin, Busy
<1>2. n \in Node /\ n[1] = p /\ OpAt(n) = "call" /\ ReadAt(n) = {}
  BY <1>1, BusyNode DEF CallBegin, ReadBy, WrittenBy
<1>3. Startable(n, kids)
  BY OldChildrenStartable, NewChildrenStartable
<1> HIDE DEF n, kids
<1>4. SamePhase
  BY <1>1, <1>3 DEF SamePhase, Startable
<1>5. \A j \in DOMAIN kids : kids[j] # p /\ status[kids[j]] \in {"done", "none"}
  BY <1>2, <1>3, <1>1 DEF Startable, Range, Busy, Inside
<1>6. Inside(p)' /\ OthersStay(p)
  BY <1>1, <1>5 DEF Inside, OthersStay
<1>7. IF rev THEN mem' = mem ELSE Records(mem, mem', n, ReadAt(n), {})
  <2>1. CASE ~rev
    <3>1. NothingLater(mem, n) /\ mem \in Store
      BY <1>1, <2>1, ForwardNode DEF n, Ind, TypeOK
    <3>2. QED BY <1>1, <1>2, <2>1, <3>1, RecordsItself
  <2>2. QED BY <1>1, <2>1
<1>8. Pauses(n)
  BY <1>2 DEF Pauses
<1>9. QED BY <1>1, <1>4, <1>6, <1>7, <1>8, BeginOfBlock DEF n

LEMMA CallEndKind ==
  ASSUME Ind, CheckStillHolds, History, turns <= 2, NEW p \in Pid, CallEnd(p)
  PROVE  StepKind
<1> DEFINE n == CurrentNode(p)
<1>1. /\ Busy(p) /\ status[p] = "call" /\ FinishBlock(mem, n)
      /\ status' = [status EXCEPT ![p] = AfterBlock(n)]
      /\ UNCHANGED <<rev, turns, proc>>
  BY DEF CallEnd, Busy, Inside
<1>2. n \in Node /\ WrittenAt(n) = {} /\ ReadAt(n) = {} /\ n[1] = p /\ OpAt(n) = "call"
  <2>1. /\ n \in Node /\ n = <<p, n[2]>> /\ n[1] = p /\ n[2] = pc[p]
        /\ WrittenAt(n) = WrittenBy(CurrentInstr(p)) /\ ReadAt(n) = ReadBy(CurrentInstr(p))
        /\ OpAt(n) = CurrentInstr(p).op
    BY <1>1, BusyNode DEF Inside
  <2>2. callpids[n] # <<>>
    BY <1>1, <2>1 DEF Ind, Structure, PositionsFit
  <2>3. CurrentInstr(p).op = "call"
    BY <2>1, <2>2 DEF Ind, Structure, CallsRecorded, CurrentInstr
  <2>4. QED BY <2>1, <2>3 DEF WrittenBy, ReadBy
<1>3. status \in [Pid -> Status] /\ mem \in Store
  BY DEF Ind, TypeOK
<1>4. status'[p] = AfterBlock(n) /\ OthersStay(p)
  BY <1>1, <1>3 DEF OthersStay, Inside
<1>5. IF rev THEN Forgets(mem, mem, n, WrittenAt(n))
      ELSE Records(mem, mem, n, ReadAt(n), WrittenAt(n))
  <2>1. CASE rev
    BY <1>2, <1>3, <2>1, ForgetsNothing
  <2>2. CASE ~rev
    <3>1. NothingLater(mem, n)
      BY <1>1, <2>2, ForwardNode
    <3>2. QED BY <1>2, <1>3, <2>2, <3>1, RecordsItself
  <2>3. QED BY <2>1, <2>2
<1>6. Computes(n)
  BY <1>2 DEF Computes
<1>7. Flips(n)
  BY <1>2 DEF Flips
<1> HIDE DEF n
<1>8. QED BY <1>1, <1>4, <1>5, <1>6, <1>7, EndOfBlock DEF n

LEMMA QuietKinds ==
  ASSUME Ind, (\E p \in Pid : Check(p)) \/ Suspend \/ UNCHANGED vars
  PROVE  StepKind
<1>1. /\ UNCHANGED <<rev, turns, proc, pc, mem>>
      /\ \A p \in Pid : Inside(p)' <=> Inside(p)
  BY DEF Check, Suspend, vars, Inside, Ind, TypeOK
<1>2. \A d \in Node : (InDag(d)' <=> InDag(d)) /\ (Executed(d)' <=> Executed(d))
  BY <1>1, NodeType DEF InDag, Executed
<1>3. QED BY <1>1, <1>2 DEF Quiet, SamePhase, StepKind

LEMMA ResumeKind ==
  ASSUME Ind, Resume
  PROVE  StepKind
<1>1. \A p \in Pid : ~Inside(p)
  BY IndImpliesQuiescent DEF Resume, Quiescent, Active, Inside
<1>2. /\ rev' = ~rev /\ turns' = turns + 1 /\ mem' = mem /\ proc' = proc /\ pc' = pc
      /\ \A p \in Pid : ~Inside(p)'
  BY <1>1 DEF Resume, Inside, Ind, TypeOK
<1>3. \A d \in Node : /\ InDag(d)' <=> InDag(d)
                      /\ Executed(d)' <=> Executed(d)
                      /\ InDag(d) <=> Executed(d)
  BY <1>1, <1>2, NodeType DEF InDag, Executed
<1>4. QED BY <1>2, <1>3 DEF TurnsAround, StepKind

LEMMA StepKinds ==
  ASSUME Ind, CheckStillHolds, History, turns <= 2, [Next]_vars
  PROVE  StepKind
<1>1. ASSUME NEW p \in Pid, ProcStep(p)
      PROVE  StepKind
  BY <1>1, ExecKind, SemTakeKind, SemWaitKind, CallBeginKind, CallEndKind, QuietKinds
     DEF ProcStep
<1>2. QED BY <1>1, QuietKinds, ResumeKind DEF Next, Idle, Crashed


-----------------------------------------------------------------------------
(* Every kind of step keeps the history                                    *)

\* What a node writes does not change once its process exists.
LEMMA WrittenAtStable ==
  ASSUME SamePhase \/ proc' = proc, NEW n \in Node, Created(n[1])
  PROVE  WrittenAt(n)' = WrittenAt(n)
BY NodeType DEF SamePhase, WrittenAt

LEMMA SourcesExist ==
  ASSUME Ind
  PROVE  /\ \A x \in Var : mem.last[x] = Bot \/ (mem.last[x] \in Node /\ Created(mem.last[x][1]))
         /\ \A n \in Node : \A i \in DOMAIN mem.inc[n] :
               LET e == mem.inc[n][i]
               IN  /\ e \in Edge
                   /\ e.src = Bot \/ (e.src \in Node /\ Created(e.src[1]))
<1>1. \A n \in Node : \A i \in DOMAIN mem.inc[n] : mem.inc[n][i] \in Edge
  BY DEF Ind, TypeOK, Store
<1>2. QED BY <1>1 DEF Ind, Structure, EdgesFromProcesses, RefersTo

\* The last writer of a variable is not the node that is about to use it.
LEMMA LastIsNotNext ==
  ASSUME Ind, History, turns <= 2, NEW n \in Node, NEW R, NEW fin \in BOOLEAN,
         Forward(n, R, fin), NEW x \in R \cup WrittenIf(n, fin), x \in Var
  PROVE  /\ mem.last[x] # n
         /\ mem.last[x] = Bot \/ Executed(mem.last[x])
         /\ mem.last[x] \in {Bot, InitLast(x)} \/ x \in WrittenAt(mem.last[x])
<1>1. LastWriters /\ Executed(<<0, 0>>) /\ ~rev /\ n[2] = pc[n[1]]
  BY PhaseFacts DEF Forward
<1>2. ~Executed(n) /\ n # Bot
  <2>1. n[2] \in Nat
    BY NodeType
  <2>2. QED BY <1>1, <2>1, NodeType DEF Executed
<1>3. QED BY <1>1, <1>2 DEF LastWriters, InitLast

\* The edges after a forward step: the old ones, and those of n to the last
\* writers of what it reads and writes.
LEMMA ForwardEdges ==
  ASSUME Ind, History, turns <= 2, NEW n \in Node, NEW R \in SUBSET Var, NEW fin \in BOOLEAN,
         Forward(n, R, fin), NEW d \in Node, NEW i \in DOMAIN mem'.inc[d]
  PROVE  \/ \E j \in DOMAIN mem.inc[d] : mem'.inc[d][i] = mem.inc[d][j]
         \/ /\ d = n
            /\ \E x \in R \cup WrittenIf(n, fin) :
                  /\ x \in Var
                  /\ mem'.inc[d][i].src = mem.last[x] /\ mem'.inc[d][i].var = x
<1> DEFINE W == WrittenIf(n, fin)
           a == mem'.inc[d][i]
<1>1. CASE d # n
  BY <1>1 DEF Forward, Records
<1>2. CASE d = n
  <2>1. HasEdge(mem', a, n)
    BY <1>2 DEF HasEdge
  <2>2. \/ HasEdge(mem, a, n)
        \/ \E y \in R : a = [src |-> mem.last[y], var |-> y, wt |-> FALSE]
        \/ \E y \in W : a = WriteEdge(mem.last[y], y)
    <3>1. Records(mem, mem', n, R, W)
      BY DEF Forward
    <3>2. \A b : HasEdge(mem', b, n) =>
             \/ HasEdge(mem, b, n)
             \/ \E y \in R : b = [src |-> mem.last[y], var |-> y, wt |-> FALSE]
             \/ \E y \in W : b = WriteEdge(mem.last[y], y)
      BY <3>1 DEF Records
    <3> HIDE DEF a
    <3>3. QED BY <2>1, <3>2
  <2>3. W \in SUBSET Var
    BY DEF Forward, WrittenIf
  <2> HIDE DEF a, W
  <2>4. CASE HasEdge(mem, a, n)
    BY <1>2, <2>4 DEF HasEdge, a
  <2>5. CASE \E y \in R : a = [src |-> mem.last[y], var |-> y, wt |-> FALSE]
    BY <1>2, <2>5 DEF a
  <2>6. CASE \E y \in W : a = WriteEdge(mem.last[y], y)
    BY <1>2, <2>3, <2>6 DEF a, W, WriteEdge
  <2>7. QED BY <2>2, <2>4, <2>5, <2>6
<1>3. QED BY <1>1, <1>2

LEMMA ForwardKeepsSources ==
  ASSUME Ind, History, turns <= 2, NEW n \in Node, NEW R \in SUBSET Var, NEW fin \in BOOLEAN,
         Forward(n, R, fin)
  PROVE  SourcesExecuted' /\ SourcesWrite' /\ LastWriters'
<1> DEFINE W == WrittenIf(n, fin)
<1>1. /\ SourcesExecuted /\ SourcesWrite /\ LastWriters /\ mem \in Store
  BY PhaseFacts
<1>2. /\ ~rev /\ ~rev' /\ SamePhase
      /\ \A d \in Node : /\ InDag(d)' <=> InDag(d) \/ d = n
                         /\ Executed(d)' <=> Executed(d) \/ (fin /\ d = n)
      /\ \A i \in DOMAIN mem.inc[n] : mem.inc[n][i].src = Bot \/ Executed(mem.inc[n][i].src)
      /\ mem' \in Store /\ Created(n[1])
      /\ \A y \in Var : mem'.last[y] = IF y \in W THEN n ELSE mem.last[y]
  BY DEF Forward, Records, SamePhase
<1>3. \A s \in Node : Created(s[1]) => WrittenAt(s)' = WrittenAt(s)
  BY <1>2, WrittenAtStable
<1> HIDE DEF W
<1>4. ASSUME NEW d \in Node, NEW i \in DOMAIN mem'.inc[d]
      PROVE  \/ \E j \in DOMAIN mem.inc[d] : mem'.inc[d][i] = mem.inc[d][j]
             \/ /\ d = n
                /\ \E x \in R \cup W :
                      /\ x \in Var
                      /\ mem'.inc[d][i].src = mem.last[x] /\ mem'.inc[d][i].var = x
  BY <1>4, ForwardEdges DEF W
<1>5. ASSUME NEW x \in R \cup W, x \in Var
      PROVE  /\ mem.last[x] = Bot \/ Executed(mem.last[x])
             /\ mem.last[x] \in {Bot, InitLast(x)} \/ x \in WrittenAt(mem.last[x])
  BY <1>5, LastIsNotNext DEF W
<1>6. /\ \A x \in Var : mem.last[x] = Bot \/ (mem.last[x] \in Node /\ Created(mem.last[x][1]))
      /\ \A d \in Node : \A i \in DOMAIN mem.inc[d] :
            /\ mem.inc[d][i] \in Edge
            /\ mem.inc[d][i].src = Bot
               \/ (mem.inc[d][i].src \in Node /\ Created(mem.inc[d][i].src[1]))
  BY SourcesExist
<1>7. SourcesExecuted'
  <2> SUFFICES ASSUME NEW d \in Node, InDag(d)', NEW i \in DOMAIN mem'.inc[d],
                      NEW s, s = mem'.inc[d][i].src, s # Bot
               PROVE  Executed(s)'
    BY DEF SourcesExecuted, DagNodes, Executed
  <2>1. s \in Node /\ Executed(s)
    <3>1. CASE \E j \in DOMAIN mem.inc[d] : mem'.inc[d][i] = mem.inc[d][j]
      <4>1. PICK j \in DOMAIN mem.inc[d] : mem'.inc[d][i] = mem.inc[d][j]
        BY <3>1
      <4>2. CASE d = n
        BY <1>2, <1>6, <4>1, <4>2
      <4>3. CASE d # n
        <5>1. d \in DagNodes
          BY <1>2, <4>3 DEF DagNodes
        <5>2. QED BY <1>1, <1>6, <4>1, <5>1 DEF SourcesExecuted
      <4>4. QED BY <4>2, <4>3
    <3>2. CASE ~\E j \in DOMAIN mem.inc[d] : mem'.inc[d][i] = mem.inc[d][j]
      BY <1>4, <1>5, <1>6, <3>2
    <3>3. QED BY <3>1, <3>2
  <2>2. QED BY <1>2, <2>1
<1>8. SourcesWrite'
  <2> SUFFICES ASSUME NEW d \in Node, NEW i \in DOMAIN mem'.inc[d],
                      NEW e, e = mem'.inc[d][i]
               PROVE  e.src \in {Bot, InitLast(e.var)} \/ e.var \in WrittenAt(e.src)'
    BY DEF SourcesWrite, WrittenAt
  <2>1. e.src \in {Bot, InitLast(e.var)} \/ e.var \in WrittenAt(e.src)
    <3>1. CASE \E j \in DOMAIN mem.inc[d] : e = mem.inc[d][j]
      BY <1>1, <3>1 DEF SourcesWrite
    <3>2. CASE ~\E j \in DOMAIN mem.inc[d] : e = mem.inc[d][j]
      BY <1>4, <1>5, <3>2
    <3>3. QED BY <3>1, <3>2
  <2>2. e.src = Bot \/ (e.src \in Node /\ Created(e.src[1]))
    <3>1. CASE \E j \in DOMAIN mem.inc[d] : e = mem.inc[d][j]
      BY <1>6, <3>1
    <3>2. CASE ~\E j \in DOMAIN mem.inc[d] : e = mem.inc[d][j]
      BY <1>4, <1>6, <3>2
    <3>3. QED BY <3>1, <3>2
  <2>3. QED BY <1>3, <2>1, <2>2
<1>9. LastWriters'
  <2> SUFFICES ASSUME NEW x \in Var, NEW s, s = mem'.last[x], s \notin {Bot, InitLast(x)}
               PROVE  x \in WrittenAt(s)' /\ Executed(s)'
    BY <1>2 DEF LastWriters, WrittenAt, Executed
  <2>1. CASE x \in W
    <3>1. s = n /\ fin /\ x \in WrittenAt(n)
      BY <1>2, <2>1 DEF W, WrittenIf
    <3>2. QED BY <1>2, <1>3, <3>1
  <2>2. CASE x \notin W
    <3>1. s = mem.last[x] /\ s \in Node /\ Created(s[1])
      BY <1>2, <1>6, <2>2
    <3>2. x \in WrittenAt(s) /\ Executed(s)
      BY <1>1, <1>2, <3>1 DEF LastWriters
    <3>3. QED BY <1>2, <1>3, <3>1, <3>2
  <2>3. QED BY <2>1, <2>2
<1>10. QED BY <1>7, <1>8, <1>9


\* In the first run a node has not written anything before, and then overwrites
\* the last writers of what it writes.
LEMMA ForwardOverwrites ==
  ASSUME Ind, History, turns <= 1, NEW n \in Node, NEW R \in SUBSET Var, NEW fin \in BOOLEAN,
         Forward(n, R, fin)
  PROVE  /\ \A x \in Var : /\ Overwritten(mem, n, x) = {}
                           /\ Overwritten(mem', n, x) =
                                 IF x \in WrittenIf(n, fin) THEN {mem.last[x]} ELSE {}
         /\ \A d \in Node \ {n} : \A x \in Var :
               Overwritten(mem', d, x) = Overwritten(mem, d, x)
<1> DEFINE W == WrittenIf(n, fin)
<1>1. /\ turns <= 2 /\ turns = 0 /\ ~rev /\ mem \in Store /\ FreshNodes /\ WritesRecorded
  <2>1. turns \in Nat /\ turns <= 2 /\ ~rev
    BY TurnsAssumption DEF Ind, TypeOK, Forward
  <2>2. QED BY <2>1, PhaseFacts DEF FirstTrip
<1>2. ~Executed(n) /\ Records(mem, mem', n, R, W)
  BY NodeType DEF Forward, Executed
<1>3. \A x \in Var : Overwritten(mem, n, x) = {}
  <2>1. CASE n \in DagNodes
    BY <1>1, <1>2, <2>1 DEF WritesRecorded
  <2>2. CASE n \notin DagNodes
    BY <1>1, <2>2 DEF FreshNodes, Overwritten, HasEdge
  <2>3. QED BY <2>1, <2>2
<1>4. ASSUME NEW x \in Var
      PROVE  Overwritten(mem', n, x) = IF x \in W THEN {mem.last[x]} ELSE {}
  <2>1. \A s \in Node \cup {Bot} : ~HasEdge(mem, WriteEdge(s, x), n)
    BY <1>3 DEF Overwritten
  <2>2. \A s : HasEdge(mem', WriteEdge(s, x), n) <=>
                  \/ HasEdge(mem, WriteEdge(s, x), n)
                  \/ \E y \in R : mem.last[y] # n
                        /\ WriteEdge(s, x) = [src |-> mem.last[y], var |-> y, wt |-> FALSE]
                  \/ \E y \in W : mem.last[y] # n /\ WriteEdge(s, x) = WriteEdge(mem.last[y], y)
    BY <1>2 DEF Records
  <2>3. \A s, y, t : /\ WriteEdge(s, x) # [src |-> t, var |-> y, wt |-> FALSE]
                     /\ WriteEdge(s, x) = WriteEdge(t, y) <=> s = t /\ x = y
    BY DEF WriteEdge
  <2>4. x \in W => mem.last[x] # n
    BY <1>1, LastIsNotNext
  <2>5. mem.last[x] \in Node \cup {Bot}
    BY <1>1 DEF Store
  <2> HIDE DEF W
  <2>6. \A s \in Node \cup {Bot} :
           HasEdge(mem', WriteEdge(s, x), n) <=> x \in W /\ s = mem.last[x]
    BY <2>1, <2>2, <2>3, <2>4
  <2>7. QED BY <2>5, <2>6 DEF Overwritten
<1>5. \A d \in Node \ {n} : \A x \in Var : Overwritten(mem', d, x) = Overwritten(mem, d, x)
  BY <1>2 DEF Records, Overwritten, HasEdge
<1>6. QED BY <1>3, <1>4, <1>5

LEMMA ForwardKeepsTrip ==
  ASSUME Ind, History, turns <= 1, NEW n \in Node, NEW R \in SUBSET Var, NEW fin \in BOOLEAN,
         Forward(n, R, fin)
  PROVE  FirstTrip'
<1> DEFINE W == WrittenIf(n, fin)
           D == DagNodes
<1>1. /\ turns \in Nat /\ turns <= 2 /\ turns = 0 /\ ~rev /\ rev \in BOOLEAN
      /\ SourcesExecuted /\ mem \in Store
      /\ NoDuplicates(mem) /\ Counted(mem, D) /\ FreshNodes /\ WritesRecorded
      /\ \A x \in Var : Chained(mem, D, x)
  <2>1. turns \in Nat /\ turns <= 2
    BY TurnsAssumption DEF Ind, TypeOK
  <2>2. ~rev
    BY DEF Forward
  <2>3. QED BY <2>1, <2>2, PhaseFacts DEF FirstTrip
<1>2. /\ rev' = rev /\ turns' = turns /\ SamePhase /\ ~Executed(n) /\ Created(n[1])
      /\ \A d \in Node : /\ InDag(d)' <=> InDag(d) \/ d = n
                         /\ Executed(d)' <=> Executed(d) \/ (fin /\ d = n)
      /\ Records(mem, mem', n, R, W)
  BY NodeType DEF Forward, SamePhase, Executed
<1>3. DagNodes' = D \cup {n} /\ D \in SUBSET Node
  BY <1>2 DEF DagNodes
<1>4. \A x \in Var : Overwritten(mem, n, x) = {}
  BY ForwardOverwrites
<1>5. \A x \in Var : Overwritten(mem', n, x) = IF x \in W THEN {mem.last[x]} ELSE {}
  BY ForwardOverwrites
<1>6. \A d \in Node \ {n} : \A x \in Var : Overwritten(mem', d, x) = Overwritten(mem, d, x)
  BY ForwardOverwrites
<1>7. \A d \in D : \A x \in Var : n \notin Overwritten(mem, d, x)
  BY <1>1, <1>2, NodeType DEF SourcesExecuted, Overwritten, HasEdge, WriteEdge
<1>8. NoDuplicates(mem')
  BY <1>1, <1>2 DEF Records
<1>9. Counted(mem', DagNodes')
  <2>1. Counted(mem, D \cup {n})
    <3>1. CASE n \in D
      <4>1. D \cup {n} = D
        BY <3>1
      <4>2. QED BY <1>1, <4>1
    <3>2. CASE n \notin D
      <4>1. DOMAIN mem.inc[n] = {}
        BY <1>1, <3>2 DEF FreshNodes
      <4>2. \A s \in Node : Out(mem, D \cup {n}, s) = Out(mem, D, s)
        BY <4>1 DEF Out
      <4>3. QED BY <1>1, <4>2 DEF Counted
    <3>3. QED BY <3>1, <3>2
  <2>2. D \cup {n} \in SUBSET Node /\ n \in D \cup {n}
    BY <1>3
  <2> HIDE DEF D
  <2>3. QED BY <1>2, <1>3, <2>1, <2>2 DEF Records
<1>10. FreshNodes'
  BY <1>1, <1>2, <1>3 DEF FreshNodes, Records
<1>11. WritesRecorded'
  <2> SUFFICES ASSUME NEW d \in D \cup {n}, NEW x \in Var
               PROVE  Overwritten(mem', d, x) # {} <=> x \in WrittenAt(d)' /\ Executed(d)'
    BY <1>1, <1>2, <1>3 DEF WritesRecorded
  <2>1. d \in Node /\ Created(d[1])
    BY <1>2, DagNodesExist DEF DagNodes
  <2>2. WrittenAt(d)' = WrittenAt(d)
    BY <1>2, <2>1, WrittenAtStable
  <2>3. CASE d = n
    BY <1>2, <1>5, <2>2, <2>3 DEF WrittenIf
  <2>4. CASE d # n
    BY <1>1, <1>2, <1>6, <2>1, <2>2, <2>4 DEF WritesRecorded
  <2>5. QED BY <2>3, <2>4
<1>12. UndoneUnused'
  BY <1>1, <1>2 DEF UndoneUnused
<1>13. ASSUME NEW x \in Var
       PROVE  Chained(mem', DagNodes', x)
  <2>1. mem'.last[x] = IF x \in W THEN n ELSE mem.last[x]
    BY <1>2 DEF Records
  <2>2. Chained(mem, D, x)
    BY <1>1
  <2>3. CASE x \in W
    <3>1. mem.last[x] # n
      BY <1>1, <2>3, LastIsNotNext
    <3> HIDE DEF D, W
    <3>2. Chained(mem', D \cup {n}, x)
      BY <1>3, <1>4, <1>5, <1>6, <1>7, <2>1, <2>2, <2>3, <3>1, ChainExtended
    <3>3. QED BY <1>3, <3>2
  <2>4. CASE x \notin W
    <3> HIDE DEF D, W
    <3>1. \A d \in D \cup {n} :
             Overwritten(mem', d, x) = IF d \in D THEN Overwritten(mem, d, x) ELSE {}
      BY <1>3, <1>4, <1>5, <1>6, <2>4
    <3>2. D \ (D \cup {n}) = {}
      OBVIOUS
    <3>3. Chained(mem', D \cup {n}, x)
      BY <2>1, <2>2, <2>4, <3>1, <3>2, ChainUntouched
    <3>4. QED BY <1>3, <3>3
  <2>5. QED BY <2>3, <2>4
<1>14. QED BY <1>8, <1>9, <1>10, <1>11, <1>12, <1>13 DEF FirstTrip

\* Backwards: nobody uses a node whose counter is at zero.
LEMMA UnusedNode ==
  ASSUME Ind, History, turns <= 2, rev, NEW n \in Node, mem.ctr[n] = 0, NEW d \in DagNodes
  PROVE  /\ \A i \in DOMAIN mem.inc[d] : mem.inc[d][i].src # n
         /\ \A x \in Var : n \notin Overwritten(mem, d, x)
<1>1. mem \in Store /\ Counted(mem, DagNodes) /\ DagNodes \in SUBSET Node
  BY PhaseFacts DEF FirstTrip, DagNodes
<1>2. \A i \in DOMAIN mem.inc[d] : mem.inc[d][i].src # n
  BY <1>1, ZeroMeansUnused
<1>3. QED BY <1>2 DEF Overwritten, HasEdge, WriteEdge

LEMMA BackwardKeeps ==
  ASSUME Ind, History, turns <= 2, NEW n \in Node, Backward(n)
  PROVE  History'
<1> DEFINE W == WrittenAt(n)
           D == DagNodes
<1>1. /\ turns \in Nat /\ turns = 1 /\ rev /\ rev \in BOOLEAN /\ mem \in Store
      /\ mem.err = "none"
      /\ SourcesExecuted /\ SourcesWrite /\ LastWriters
      /\ NoDuplicates(mem) /\ Counted(mem, D) /\ WritesRecorded /\ UndoneUnused
      /\ \A x \in Var : Chained(mem, D, x)
  <2>1. rev
    BY DEF Backward
  <2>2. QED BY <2>1, PhaseFacts DEF FirstTrip
<1>2. PICK m : Forgets(mem, m, n, W) /\ mem' = RunModifyDagRev(m, n)
  BY DEF Backward
<1>3. /\ rev' = rev /\ turns' = turns /\ SamePhase /\ mem.ctr[n] = 0 /\ n \in D
      /\ \A p \in Pid : Inside(p)' => Inside(p) /\ pc'[p] = pc[p] /\ pc[p] \in Nat
      /\ \A d \in Node : /\ InDag(d)' <=> InDag(d) /\ d # n
                         /\ Executed(d)' <=> Executed(d) /\ d # n
  BY DEF Backward, SamePhase, DagNodes
<1>4. DagNodes' = D \ {n} /\ D \in SUBSET Node
  BY <1>3 DEF DagNodes
<1>5. /\ m \in Store /\ m.inc = mem.inc /\ m.ctr = mem.ctr /\ m.err = mem.err
      /\ \A y \in Var : m.last[y] = IF y \in W THEN GetLastDag(mem, y, n) ELSE mem.last[y]
  BY <1>2 DEF Forgets
<1>6. Counted(m, D)
  BY <1>1, <1>5 DEF Counted, Out
<1> HIDE DEF D
<1>7. mem'.err = "none" /\ Counted(mem', D \ {n})
  BY <1>1, <1>2, <1>3, <1>4, <1>5, <1>6, UndoCounts
<1>8. /\ mem'.inc = mem.inc /\ mem'.last = m.last /\ mem' \in Store
      /\ \A s \in Node : mem'.ctr[s] <= mem.ctr[s] /\ mem'.ctr[s] >= 0
  BY <1>2, <1>5, <1>7, RunModifyDagRevEffect
<1>9. \A d \in D : \A x \in Var : Overwritten(mem', d, x) = Overwritten(mem, d, x)
  BY <1>8 DEF Overwritten, HasEdge
<1>10. \A d \in D : /\ \A i \in DOMAIN mem.inc[d] : mem.inc[d][i].src # n
                    /\ \A x \in Var : n \notin Overwritten(mem, d, x)
  BY <1>1, <1>3, UnusedNode DEF D
<1>11. \A d \in D : d \in Node /\ Created(d[1]) /\ WrittenAt(d)' = WrittenAt(d)
  BY <1>3, DagNodesExist, WrittenAtStable DEF D, DagNodes
<1>12. ASSUME NEW x \in W, x \in Var
       PROVE  /\ mem'.last[x] \in Overwritten(mem, n, x)
              /\ mem'.last[x] = InitLast(x) \/
                    (mem'.last[x] \in D \ {n} /\ x \in WrittenAt(mem'.last[x]))
  <2>1. mem'.last[x] = GetLastDag(mem, x, n)
    BY <1>5, <1>8, <1>12
  <2>2. Overwritten(mem, n, x) # {}
    BY <1>1, <1>3, <1>12 DEF WritesRecorded, D
  <2>3. mem'.last[x] \in Overwritten(mem, n, x)
    BY <1>1, <1>12, <2>1, <2>2, GetLastDagFinds
  <2>4. mem'.last[x] \in WritersIn(mem, D, x) \cup {InitLast(x)}
    BY <1>1, <1>3, <1>12, <2>3 DEF Chained, BeginsAtStart
  <2>5. mem'.last[x] # n
    BY <1>3, <1>10, <1>12, <2>3
  <2>6. mem'.last[x] \in WritersIn(mem, D, x) =>
           mem'.last[x] \in D /\ x \in WrittenAt(mem'.last[x])
    BY <1>1, <1>12 DEF WritersIn, WritesRecorded, D
  <2>7. QED BY <2>3, <2>4, <2>5, <2>6
<1>13. SourcesExecuted'
  <2> SUFFICES ASSUME NEW d \in D \ {n}, NEW i \in DOMAIN mem.inc[d],
                      NEW s, s = mem.inc[d][i].src, s # Bot
               PROVE  Executed(s)'
    BY <1>4, <1>8 DEF SourcesExecuted, Executed
  <2>1. Executed(s) /\ s # n
    BY <1>1, <1>10 DEF SourcesExecuted, D
  <2>2. s \in Node
    BY <1>11, SourcesExist
  <2>3. QED BY <1>3, <2>1, <2>2
<1>14. SourcesWrite'
  <2> SUFFICES ASSUME NEW d \in Node, NEW i \in DOMAIN mem.inc[d],
                      NEW e, e = mem.inc[d][i]
               PROVE  e.src \in {Bot, InitLast(e.var)} \/ e.var \in WrittenAt(e.src)'
    BY <1>8 DEF SourcesWrite, WrittenAt
  <2>1. e.src \in {Bot, InitLast(e.var)} \/ e.var \in WrittenAt(e.src)
    BY <1>1 DEF SourcesWrite
  <2>2. e.src = Bot \/ (e.src \in Node /\ Created(e.src[1]))
    BY SourcesExist
  <2>3. QED BY <1>3, <2>1, <2>2, WrittenAtStable
<1>15. LastWriters'
  <2> SUFFICES ASSUME NEW x \in Var, NEW s, s = mem'.last[x], s \notin {Bot, InitLast(x)}
               PROVE  x \in WrittenAt(s)' /\ InDag(s)'
    BY <1>1, <1>3 DEF LastWriters, WrittenAt, InDag, Executed, Inside
  <2>1. s \in D \ {n} /\ x \in WrittenAt(s)
    <3>1. CASE x \in W
      BY <1>12, <3>1
    <3>2. CASE x \notin W
      <4>1. s = mem.last[x]
        BY <1>5, <1>8, <3>2
      <4>2. x \in WrittenAt(s) /\ InDag(s)
        BY <1>1, <4>1 DEF LastWriters
      <4>3. s \in Node
        BY <1>1, <4>1 DEF Store
      <4>4. QED BY <3>2, <4>2, <4>3 DEF D, DagNodes
    <3>3. QED BY <3>1, <3>2
  <2>2. QED BY <1>3, <1>11, <2>1 DEF D, DagNodes
<1>16. FirstTrip'
  <2>1. NoDuplicates(mem') /\ FreshNodes'
    BY <1>1, <1>3, <1>8 DEF NoDuplicates, FreshNodes
  <2>2. WritesRecorded'
    <3> SUFFICES ASSUME NEW d \in D \ {n}, NEW x \in Var
                 PROVE  Overwritten(mem', d, x) # {} <=> x \in WrittenAt(d)'
      BY <1>1, <1>3, <1>4 DEF WritesRecorded
    <3>1. QED BY <1>1, <1>9, <1>11 DEF WritesRecorded, D
  <2>3. UndoneUnused'
    <3> SUFFICES ASSUME NEW p \in Pid, Inside(p)'
                 PROVE  mem'.ctr[<<p, pc'[p]>>] = 0
      BY DEF UndoneUnused
    <3>1. Inside(p) /\ pc'[p] = pc[p]
      BY <1>3
    <3>2. mem.ctr[<<p, pc[p]>>] = 0 /\ <<p, pc[p]>> \in Node
      BY <1>1, <3>1 DEF UndoneUnused, Node, Ind, TypeOK
    <3>3. mem'.ctr[<<p, pc[p]>>] \in Int
      BY <1>8, <3>2 DEF Store
    <3>4. QED BY <1>8, <3>1, <3>2, <3>3
  <2>4. ASSUME NEW x \in Var
        PROVE  Chained(mem', D \ {n}, x)
    <3>1. Chained(mem, D, x)
      BY <1>1
    <3>2. CASE x \in W
      BY <1>3, <1>9, <1>10, <1>12, <3>1, <3>2, ChainShortened
    <3>3. CASE x \notin W
      <4>1. Overwritten(mem, n, x) = {}
        BY <1>1, <1>3, <3>3 DEF WritesRecorded, D
      <4>2. mem'.last[x] = mem.last[x]
        BY <1>5, <1>8, <3>3
      <4>3. \A d \in D \ {n} :
               Overwritten(mem', d, x) = IF d \in D THEN Overwritten(mem, d, x) ELSE {}
        BY <1>9
      <4>4. \A d \in D \ (D \ {n}) : Overwritten(mem, d, x) = {}
        BY <4>1
      <4>5. QED BY <3>1, <4>2, <4>3, <4>4, ChainUntouched
    <3>4. QED BY <3>2, <3>3
  <2>5. QED BY <1>4, <1>7, <2>1, <2>2, <2>3, <2>4 DEF FirstTrip
<1>17. rev' = (turns' = 1)
  BY <1>1, <1>3
<1>18. QED BY <1>7, <1>13, <1>14, <1>15, <1>16, <1>17 DEF History


\* A step that leaves the store alone and executes nothing: from BeginsUndo and
\* Quiet.
LEMMA StoreKept ==
  ASSUME Ind, History, turns <= 2, SamePhase, mem' = mem, NEW n,
         rev \/ n \notin Node,
         \A d \in DagNodes : \A i \in DOMAIN mem.inc[d] :
            mem.inc[d][i].src # Bot => mem.inc[d][i].src # n,
         \A p \in Pid : Inside(p)' => \/ Inside(p) /\ pc'[p] = pc[p]
                                      \/ rev /\ mem.ctr[<<p, pc'[p]>>] = 0,
         \A d \in Node : /\ InDag(d)' <=> InDag(d)
                         /\ Executed(d)' <=> Executed(d) /\ d # n
  PROVE  History'
<1>1. /\ turns \in Nat /\ rev \in BOOLEAN /\ mem \in Store /\ mem.err = "none"
      /\ SourcesExecuted /\ SourcesWrite /\ LastWriters
      /\ rev = (turns = 1)
      /\ turns <= 1 => FirstTrip
  BY PhaseFacts DEF History
<1>2. DagNodes' = DagNodes /\ DagNodes \in SUBSET Node /\ rev' = rev /\ turns' = turns
  BY DEF DagNodes, SamePhase
<1>3. \A d \in Node : Created(d[1]) => WrittenAt(d)' = WrittenAt(d)
  BY WrittenAtStable
<1>4. SourcesExecuted'
  <2> SUFFICES ASSUME NEW d \in DagNodes, NEW i \in DOMAIN mem.inc[d],
                      NEW s, s = mem.inc[d][i].src, s # Bot
               PROVE  Executed(s)'
    BY <1>2 DEF SourcesExecuted, Executed
  <2>1. Executed(s) /\ s # n
    BY <1>1 DEF SourcesExecuted
  <2>2. s \in Node
    BY <1>2, SourcesExist
  <2>3. QED BY <2>1, <2>2
<1>5. SourcesWrite'
  <2> SUFFICES ASSUME NEW d \in Node, NEW i \in DOMAIN mem.inc[d],
                      NEW e, e = mem.inc[d][i]
               PROVE  e.src \in {Bot, InitLast(e.var)} \/ e.var \in WrittenAt(e.src)'
    BY DEF SourcesWrite, WrittenAt
  <2>1. e.src \in {Bot, InitLast(e.var)} \/ e.var \in WrittenAt(e.src)
    BY <1>1 DEF SourcesWrite
  <2>2. e.src = Bot \/ (e.src \in Node /\ Created(e.src[1]))
    BY SourcesExist
  <2>3. QED BY <1>3, <2>1, <2>2
<1>6. LastWriters'
  <2> SUFFICES ASSUME NEW x \in Var, NEW s, s = mem.last[x], s \notin {Bot, InitLast(x)}
               PROVE  x \in WrittenAt(s)' /\ IF rev THEN InDag(s)' ELSE Executed(s)'
    BY <1>2 DEF LastWriters, WrittenAt, InDag, Executed, Inside
  <2>1. x \in WrittenAt(s) /\ IF rev THEN InDag(s) ELSE Executed(s)
    BY <1>1 DEF LastWriters
  <2>2. s \in Node /\ Created(s[1])
    BY SourcesExist
  <2>3. QED BY <1>3, <2>1, <2>2
<1>7. ASSUME turns <= 1
      PROVE  FirstTrip'
  <2>1. /\ NoDuplicates(mem) /\ Counted(mem, DagNodes) /\ FreshNodes
        /\ WritesRecorded /\ UndoneUnused
        /\ \A x \in Var : Chained(mem, DagNodes, x)
    BY <1>1, <1>7 DEF FirstTrip
  <2>2. NoDuplicates(mem') /\ Counted(mem', DagNodes') /\ FreshNodes'
    BY <1>2, <2>1 DEF FreshNodes
  <2>3. WritesRecorded'
    <3> SUFFICES ASSUME NEW d \in DagNodes, NEW x \in Var
                 PROVE  Overwritten(mem, d, x) # {} <=>
                           x \in WrittenAt(d)' /\ (rev \/ Executed(d)')
      BY <1>2 DEF WritesRecorded
    <3>1. d \in Node /\ Created(d[1])
      BY DagNodesExist DEF DagNodes
    <3>2. Overwritten(mem, d, x) # {} <=> x \in WrittenAt(d) /\ (rev \/ Executed(d))
      BY <2>1 DEF WritesRecorded
    <3>3. QED BY <1>3, <3>1, <3>2
  <2>4. UndoneUnused'
    <3> SUFFICES ASSUME rev, NEW p \in Pid, Inside(p)'
                 PROVE  mem.ctr[<<p, pc'[p]>>] = 0
      BY <1>2 DEF UndoneUnused
    <3>1. QED BY <2>1 DEF UndoneUnused
  <2>5. \A x \in Var : Chained(mem', DagNodes', x)
    BY <1>2, <2>1
  <2>6. QED BY <2>2, <2>3, <2>4, <2>5 DEF FirstTrip
<1>8. mem'.err = "none" /\ rev' = (turns' = 1) /\ (turns' <= 1 => turns <= 1)
  BY <1>1, <1>2
<1>9. QED BY <1>4, <1>5, <1>6, <1>7, <1>8 DEF History

LEMMA ForwardKeeps ==
  ASSUME Ind, History, turns <= 2, NEW n \in Node, NEW R \in SUBSET Var, NEW fin \in BOOLEAN,
         Forward(n, R, fin)
  PROVE  History'
<1>1. SourcesExecuted' /\ SourcesWrite' /\ LastWriters'
  BY ForwardKeepsSources
<1>2. rev' = rev /\ turns' = turns /\ mem'.err = mem.err
  BY DEF Forward, SamePhase, Records
<1>3. turns <= 1 => FirstTrip'
  BY ForwardKeepsTrip
<1>4. mem.err = "none" /\ rev = (turns = 1)
  BY DEF History
<1>5. mem'.err = "none" /\ rev' = (turns' = 1) /\ (turns' <= 1 => turns <= 1)
  BY <1>2, <1>4
<1>6. QED BY <1>1, <1>3, <1>5 DEF History

LEMMA BeginsUndoKeeps ==
  ASSUME Ind, History, turns <= 2, NEW n \in Node, BeginsUndo(n)
  PROVE  History'
<1>1. /\ SamePhase /\ mem' = mem /\ rev /\ mem.ctr[n] = 0
      /\ \A p \in Pid : Inside(p)' => \/ Inside(p) /\ pc'[p] = pc[p]
                                      \/ rev /\ mem.ctr[<<p, pc'[p]>>] = 0
      /\ \A d \in Node : /\ InDag(d)' <=> InDag(d)
                         /\ Executed(d)' <=> Executed(d) /\ d # n
  BY DEF BeginsUndo
<1>2. \A d \in DagNodes : \A i \in DOMAIN mem.inc[d] : mem.inc[d][i].src # n
  BY <1>1, UnusedNode
<1>3. QED BY <1>1, <1>2, StoreKept

LEMMA QuietKeeps ==
  ASSUME Ind, History, turns <= 2, Quiet
  PROVE  History'
<1>1. \A d \in Node : d # Bot
  BY NodeType
<1>2. /\ SamePhase /\ mem' = mem
      /\ \A p \in Pid : Inside(p)' => Inside(p) /\ pc'[p] = pc[p]
      /\ \A d \in Node : (InDag(d)' <=> InDag(d)) /\ (Executed(d)' <=> Executed(d))
  BY DEF Quiet
<1>3. QED BY <1>1, <1>2, StoreKept

LEMMA TurnKeeps ==
  ASSUME Ind, History, TurnsAround
  PROVE  History'
<1> SUFFICES ASSUME turns' <= 2
             PROVE  /\ mem'.err = "none" /\ rev' = (turns' = 1)
                    /\ SourcesExecuted' /\ SourcesWrite' /\ LastWriters'
                    /\ turns' <= 1 => FirstTrip'
  BY DEF History
<1>1. /\ rev' = ~rev /\ turns' = turns + 1 /\ mem' = mem /\ proc' = proc
      /\ \A p \in Pid : ~Inside(p)'
      /\ \A d \in Node : /\ InDag(d)' <=> InDag(d)
                         /\ Executed(d)' <=> Executed(d)
                         /\ InDag(d) <=> Executed(d)
  BY DEF TurnsAround
<1>2. turns \in Nat /\ rev \in BOOLEAN
  BY TurnsAssumption DEF Ind, TypeOK
<1>3. turns <= 1 /\ turns <= 2
  BY <1>1, <1>2
<1>4. /\ mem \in Store /\ mem.err = "none"
      /\ SourcesExecuted /\ SourcesWrite /\ LastWriters
      /\ rev => turns = 1
      /\ FirstTrip
      /\ ~rev => turns = 0
  BY <1>3, PhaseFacts
<1>5. DagNodes' = DagNodes /\ DagNodes \in SUBSET Node
  BY <1>1 DEF DagNodes
<1>6. \A d : WrittenAt(d)' = WrittenAt(d)
  BY <1>1 DEF WrittenAt
<1>7. rev' = (turns' = 1)
  BY <1>1, <1>2, <1>4
<1>8. SourcesExecuted'
  <2> SUFFICES ASSUME NEW d \in DagNodes, NEW i \in DOMAIN mem.inc[d],
                      NEW s, s = mem.inc[d][i].src, s # Bot
               PROVE  Executed(s)'
    BY <1>1, <1>5 DEF SourcesExecuted, Executed
  <2>1. Executed(s) /\ s \in Node
    BY <1>4, <1>5, SourcesExist DEF SourcesExecuted
  <2>2. QED BY <1>1, <2>1
<1>9. SourcesWrite'
  BY <1>1, <1>4, <1>6 DEF SourcesWrite, WrittenAt
<1>10. LastWriters'
  <2> SUFFICES ASSUME NEW x \in Var, NEW s, s = mem.last[x], s \notin {Bot, InitLast(x)}
               PROVE  x \in WrittenAt(s)' /\ IF rev' THEN InDag(s)' ELSE Executed(s)'
    BY <1>1 DEF LastWriters, WrittenAt, InDag, Executed, Inside
  <2>1. x \in WrittenAt(s) /\ IF rev THEN InDag(s) ELSE Executed(s)
    BY <1>4 DEF LastWriters
  <2>2. s \in Node
    BY SourcesExist
  <2>3. QED BY <1>1, <1>6, <2>1, <2>2
<1>11. ASSUME turns' <= 1
       PROVE  FirstTrip'
  <2>1. ~rev /\ turns = 0
    BY <1>1, <1>2, <1>4, <1>11
  <2>2. /\ NoDuplicates(mem) /\ Counted(mem, DagNodes) /\ WritesRecorded
        /\ \A x \in Var : Chained(mem, DagNodes, x)
    BY <1>4 DEF FirstTrip
  <2>3. WritesRecorded'
    <3> SUFFICES ASSUME NEW d \in DagNodes, NEW x \in Var
                 PROVE  Overwritten(mem, d, x) # {} <=> x \in WrittenAt(d)'
      BY <1>1, <1>5, <2>1 DEF WritesRecorded
    <3>1. Executed(d)
      BY <1>1 DEF DagNodes
    <3>2. Overwritten(mem, d, x) # {} <=> x \in WrittenAt(d)
      BY <2>2, <3>1 DEF WritesRecorded
    <3>3. QED BY <1>6, <3>2
  <2>4. FreshNodes' /\ UndoneUnused'
    BY <1>1, <2>1 DEF FreshNodes, UndoneUnused
  <2>5. QED BY <1>1, <1>5, <2>2, <2>3, <2>4 DEF FirstTrip
<1>12. QED BY <1>1, <1>4, <1>7, <1>8, <1>9, <1>10, <1>11

LEMMA HistoryPreserved ==
  ASSUME Ind, CheckStillHolds, History, [Next]_vars
  PROVE  History'
<1>1. CASE turns <= 2
  <2>1. StepKind
    BY <1>1, StepKinds
  <2>2. TRUE \in BOOLEAN /\ FALSE \in BOOLEAN
    OBVIOUS
  <2>3. QED BY <1>1, <2>1, <2>2, ForwardKeeps, BackwardKeeps, BeginsUndoKeeps,
               QuietKeeps, TurnKeeps DEF StepKind
<1>2. CASE ~(turns <= 2)
  <2>1. turns' = turns \/ turns' = turns + 1
    BY DEF Next, ProcStep, Check, Exec, SemTake, SemWait, CallBegin, CallEnd, Suspend,
           Resume, Idle, Crashed, vars
  <2>2. turns \in Nat
    BY TurnsAssumption DEF Ind, TypeOK
  <2>3. ~(turns' <= 2)
    BY <1>2, <2>1, <2>2
  <2>4. QED BY <2>3 DEF History
<1>3. QED BY <1>1, <1>2

LEMMA InitImpliesHistory ==
  ASSUME Init
  PROVE  History
<1>1. /\ rev = FALSE /\ turns = 0 /\ mem = EmptyStore
      /\ pc = [p \in Pid |-> 0]
      /\ \A p \in Pid : ~Inside(p)
  BY DEF Init, Inside
<1>2. DagNodes = {}
  BY <1>1, NodeType DEF DagNodes, InDag, Executed
<1>3. /\ mem.err = "none"
      /\ \A d \in Node : mem.inc[d] = <<>> /\ mem.ctr[d] = 0
      /\ \A x \in Var : mem.last[x] = InitLast(x)
  BY <1>1 DEF EmptyStore, Mem
<1>4. \A s \in Node : Out(mem, {}, s) = {}
  BY OutMember
<1>5. Counted(mem, DagNodes)
  BY <1>2, <1>3, <1>4, FS_EmptySet DEF Counted
<1>6. \A x \in Var : Chained(mem, {}, x)
  BY <1>3 DEF Chained, OneEach, EndsAtLast, BeginsAtStart, WritersIn
<1>7. FirstTrip
  BY <1>1, <1>2, <1>3, <1>5, <1>6
     DEF FirstTrip, NoDuplicates, FreshNodes, WritesRecorded, UndoneUnused
<1>8. SourcesExecuted /\ SourcesWrite /\ LastWriters
  BY <1>2, <1>3 DEF SourcesExecuted, SourcesWrite, LastWriters
<1>9. rev = (turns = 1)
  <2>1. ~(turns = 1)
    BY <1>1
  <2>2. (turns = 1) = FALSE
    BY <2>1, Zenon
  <2>3. QED BY <1>1, <2>2, Zenon
<1>10. QED BY <1>3, <1>7, <1>8, <1>9 DEF History

\* Along the first run, its rollback and the first replay the DAG tells the
\* history of the execution, whatever the program and the schedule.
THEOREM HistoryHolds == Spec => []History
<1>1. Init => History
  BY InitImpliesHistory
<1>2. Ind /\ CheckStillHolds /\ History /\ [Next]_vars => History'
  BY HistoryPreserved
<1>3. QED BY <1>1, <1>2, Invariance, CheckHolds, PTL DEF Spec


-----------------------------------------------------------------------------
(* What the runs check about the DAG                                       *)

\* Along one round trip and the replay that follows it no goroutine panics:
\* runModifyDagRev finds no counter below zero, addEdge no edge from the future.
\* (From the second rollback on it does: the run second_rollback.)
THEOREM NoPanicInTwoTurns == Spec => [](turns <= 2 => NoPanic)
<1>1. History => (turns <= 2 => NoPanic)
  BY DEF History, NoPanic
<1>2. QED BY <1>1, HistoryHolds, PTL

\* Along the first run and its rollback the counter that isRunnable compares
\* with zero is the number of edges to blocks that are in the DAG.
THEOREM CountersMatch == Spec => []CounterMatchesDag
<1>1. Ind /\ History => CounterMatchesDag
  <2> SUFFICES ASSUME Ind, History, turns <= 1, NEW s \in Node
               PROVE  mem.ctr[s] = Cardinality(OutEdges(s))
    BY DEF CounterMatchesDag, FirstRoundTrip
  <2>1. turns <= 2
    BY TurnsAssumption DEF Ind, TypeOK
  <2>2. Counted(mem, DagNodes)
    BY <2>1 DEF History, FirstTrip
  <2>3. OutEdges(s) = Out(mem, DagNodes, s)
    BY DEF OutEdges, Out, DagNodes
  <2>4. QED BY <2>2, <2>3 DEF Counted
<1>2. QED BY <1>1, Invariance, HistoryHolds, PTL

\* The writers of the chain, and those of CrilRuntime.
LEMMA SameWriters ==
  ASSUME mem \in Store, NEW x \in Var
  PROVE  /\ Writers(x) = WritersIn(mem, DagNodes, x)
         /\ \A s \in Node \cup {Bot} :
               Overwriters(x, s) = {n \in DagNodes : s \in Overwritten(mem, n, x)}
<1>1. ASSUME NEW n \in Node, NEW i \in DOMAIN mem.inc[n]
      PROVE  /\ mem.inc[n][i].src \in Node \cup {Bot}
             /\ i \in WriteEdges(mem, x, n) =>
                   mem.inc[n][i] = WriteEdge(mem.inc[n][i].src, x)
  <2>1. mem.inc[n][i] \in Edge
    BY DEF Store
  <2>2. QED BY <2>1 DEF Edge, WriteEdge, WriteEdges
<1>2. ASSUME NEW n \in Node, NEW s \in Node \cup {Bot}
      PROVE  (\E i \in WriteEdges(mem, x, n) : mem.inc[n][i].src = s)
                <=> s \in Overwritten(mem, n, x)
  <2>1. ASSUME NEW i \in WriteEdges(mem, x, n), mem.inc[n][i].src = s
        PROVE  s \in Overwritten(mem, n, x)
    BY <1>1, <2>1 DEF WriteEdges, Overwritten, HasEdge
  <2>2. ASSUME s \in Overwritten(mem, n, x)
        PROVE  \E i \in WriteEdges(mem, x, n) : mem.inc[n][i].src = s
    <3>1. PICK i \in DOMAIN mem.inc[n] : mem.inc[n][i] = WriteEdge(s, x)
      BY <2>2 DEF Overwritten, HasEdge
    <3>2. QED BY <3>1 DEF WriteEdge, WriteEdges
  <2>3. QED BY <2>1, <2>2
<1>3. ASSUME NEW n \in Node
      PROVE  WriteEdges(mem, x, n) # {} <=> Overwritten(mem, n, x) # {}
  <2>1. \A i \in WriteEdges(mem, x, n) : mem.inc[n][i].src \in Node \cup {Bot}
    BY <1>1 DEF WriteEdges
  <2>2. \A s \in Overwritten(mem, n, x) : s \in Node \cup {Bot}
    BY DEF Overwritten
  <2>3. QED BY <1>2, <2>1, <2>2
<1>4. Writers(x) = WritersIn(mem, DagNodes, x)
  BY <1>3 DEF Writers, WritersIn, DagNodes
<1>5. ASSUME NEW s \in Node \cup {Bot}
      PROVE  Overwriters(x, s) = {n \in DagNodes : s \in Overwritten(mem, n, x)}
  <2>1. \A n \in Writers(x) : n \in DagNodes /\ n \in Node
    BY DEF Writers, DagNodes
  <2>2. \A n \in DagNodes : s \in Overwritten(mem, n, x) => n \in Writers(x) /\ n \in Node
    BY <1>3 DEF Writers, DagNodes
  <2>3. QED BY <1>2, <2>1, <2>2 DEF Overwriters
<1>6. QED BY <1>4, <1>5

\* The writers of a variable form one chain that ends at its last writer, and
\* undoing its end brings back the writer before: GetLastDag finds the right one.
THEOREM OneChainOfWriters == Spec => []WritersFormChain
<1>1. Ind /\ History => WritersFormChain
  <2> SUFFICES ASSUME Ind, History, turns <= 1, NEW x \in Var
               PROVE  /\ Overwriters(x, mem.last[x]) = {}
                      /\ Writers(x) # {} => mem.last[x] \in Writers(x)
                      /\ \A n \in Writers(x) \ {mem.last[x]} :
                            Cardinality(Overwriters(x, n)) = 1
    BY DEF WritersFormChain, FirstRoundTrip
  <2>1. mem \in Store /\ mem.last[x] \in Node \cup {Bot}
    BY DEF Ind, TypeOK, Store
  <2>2. turns <= 2
    BY TurnsAssumption DEF Ind, TypeOK
  <2>3. OneEach(mem, DagNodes, x) /\ EndsAtLast(mem, DagNodes, x)
    BY <2>2 DEF History, FirstTrip, Chained
  <2>4. /\ Writers(x) = WritersIn(mem, DagNodes, x)
        /\ \A s \in Node \cup {Bot} :
              Overwriters(x, s) = {n \in DagNodes : s \in Overwritten(mem, n, x)}
    BY <2>1, SameWriters
  <2>5. Overwriters(x, mem.last[x]) = {}
    BY <2>1, <2>3, <2>4 DEF EndsAtLast
  <2>6. Writers(x) # {} => mem.last[x] \in Writers(x)
    BY <2>3, <2>4 DEF EndsAtLast
  <2>7. ASSUME NEW n \in Writers(x) \ {mem.last[x]}
        PROVE  Cardinality(Overwriters(x, n)) = 1
    <3>1. PICK d \in DagNodes : n \in Overwritten(mem, d, x)
      BY <2>3, <2>4 DEF EndsAtLast
    <3>2. n \in Node
      BY DEF Writers
    <3>3. Overwriters(x, n) = {d}
      <4>1. \A e \in DagNodes : n \in Overwritten(mem, e, x) => e = d
        BY <2>3, <3>1 DEF OneEach
      <4>2. QED BY <2>4, <3>1, <3>2, <4>1
    <3>4. QED BY <3>3, FS_Singleton
  <2>8. QED BY <2>5, <2>6, <2>7
<1>2. QED BY <1>1, Invariance, HistoryHolds, PTL

-----------------------------------------------------------------------------
(* The runtime implements CausalExecution                                  *)

Done == {n \in Node : Executed(n)}
Uses == {e \in Node \X Node : \E i \in DOMAIN mem.inc[e[1]] : mem.inc[e[1]][i].src = e[2]}

LEMMA ForwardIsCausal ==
  ASSUME Ind, History, turns <= 2, NEW n \in Node, NEW R \in SUBSET Var, NEW fin \in BOOLEAN,
         Forward(n, R, fin)
  PROVE  Causal!Next
<1> DEFINE W == WrittenIf(n, fin)
<1>1. /\ n \in Node /\ n[2] = pc[n[1]] /\ ~Executed(n)
      /\ \A i \in DOMAIN mem.inc[n] : mem.inc[n][i].src = Bot \/ Executed(mem.inc[n][i].src)
      /\ \A d \in Node : Executed(d)' <=> Executed(d) \/ (fin /\ d = n)
      /\ \A d \in Node \ {n} : mem'.inc[d] = mem.inc[d]
      /\ \A a : HasEdge(mem, a, n) => HasEdge(mem', a, n)
  BY NodeType DEF Forward, Executed, Records
<1>2. Done' = IF fin THEN Done \cup {n} ELSE Done
  BY <1>1 DEF Done
<1>3. n \notin Done /\ \A d \in Node : d[1] = n[1] /\ d[2] < n[2] => d \in Done
  BY <1>1 DEF Done, Executed
<1>4. Uses \subseteq Uses'
  <2> SUFFICES ASSUME NEW d \in Node, NEW s \in Node, NEW i \in DOMAIN mem.inc[d],
                      mem.inc[d][i].src = s
               PROVE  \E j \in DOMAIN mem'.inc[d] : mem'.inc[d][j].src = s
    BY DEF Uses
  <2>1. CASE d # n
    BY <1>1, <2>1
  <2>2. CASE d = n
    <3>1. HasEdge(mem', mem.inc[d][i], d)
      BY <1>1, <2>2 DEF HasEdge
    <3>2. QED BY <3>1 DEF HasEdge
  <2>3. QED BY <2>1, <2>2
<1>5. ASSUME NEW d \in Node, NEW s \in Node, <<d, s>> \in Uses', <<d, s>> \notin Uses
      PROVE  d = n /\ s \in Done
  <2>1. PICK i \in DOMAIN mem'.inc[d] : mem'.inc[d][i].src = s
    BY <1>5 DEF Uses
  <2>2. ~\E j \in DOMAIN mem.inc[d] : mem'.inc[d][i] = mem.inc[d][j]
    BY <1>5, <2>1 DEF Uses
  <2>3. /\ d = n
        /\ \E x \in R \cup WrittenIf(n, fin) : /\ x \in Var
                                             /\ mem'.inc[d][i].src = mem.last[x]
    BY <2>2, ForwardEdges
  <2>4. s = Bot \/ Executed(s)
    BY <2>1, <2>3, LastIsNotNext
  <2>5. QED BY <2>3, <2>4, NodeType DEF Done
<1>6. \A s \in Node : <<n, s>> \in Uses => s \in Done
  BY <1>1, NodeType DEF Uses, Done
<1>7. Uses \in SUBSET (Node \X Node) /\ Uses' \in SUBSET (Node \X Node)
  BY DEF Uses
<1>8. Uses' \ Uses \subseteq {n} \X Done
  <2>1. \A e \in Uses' : e = <<e[1], e[2]>> /\ e[1] \in Node /\ e[2] \in Node
    BY <1>7
  <2>2. QED BY <1>5, <2>1
<1>9. Causal!Observe(n)
  BY <1>3, <1>4, <1>8 DEF Causal!Observe, Causal!Earlier, Done, Uses
<1>10. CASE fin
  <2>1. \A s \in Node : <<n, s>> \in Uses' => s \in Done
    BY <1>5, <1>6
  <2>2. Causal!Do(n)
    BY <1>2, <1>9, <1>10, <2>1 DEF Causal!Do, Causal!UsedBy, Done, Uses
  <2>3. QED BY <2>2 DEF Causal!Next
<1>11. CASE ~fin
  <2>1. Done' = Done
    BY <1>2, <1>11
  <2>2. QED BY <1>9, <2>1 DEF Causal!Next, Done
<1>12. QED BY <1>10, <1>11

\* A node that nobody uses is undone, or was not executed at all.
LEMMA UndoIsCausal ==
  ASSUME Ind, History, turns <= 2, rev, NEW n \in Node, mem.ctr[n] = 0,
         Executed(n) => n[2] = pc[n[1]] - 1, mem'.inc = mem.inc,
         \A d \in Node : Executed(d)' <=> Executed(d) /\ d # n
  PROVE  [Causal!Next]_<<Done, Uses>>
<1>1. Uses' = Uses
  BY DEF Uses
<1>2. CASE ~Executed(n)
  <2>1. Done' = Done
    BY <1>2 DEF Done
  <2>2. QED BY <1>1, <2>1
<1>3. CASE Executed(n)
  <2>1. Done' = Done \ {n} /\ n \in Done
    BY <1>3 DEF Done
  <2>2. \A d \in Done : ~(d[1] = n[1] /\ d[2] > n[2])
    BY <1>3, NodeType DEF Done, Executed, Ind, TypeOK
  <2>3. ASSUME NEW d \in Done
        PROVE  <<d, n>> \notin Uses
    <3>1. d \in DagNodes
      BY DEF Done, DagNodes, InDag
    <3>2. \A i \in DOMAIN mem.inc[d] : mem.inc[d][i].src # n
      BY <3>1, UnusedNode
    <3>3. QED BY <3>2 DEF Uses
  <2>4. Causal!Undo(n)
    BY <1>1, <2>1, <2>2, <2>3 DEF Causal!Undo, Causal!Later, Done, Uses
  <2>5. QED BY <2>4 DEF Causal!Next
<1>4. QED BY <1>2, <1>3

LEMMA StepIsCausal ==
  ASSUME Ind, CheckStillHolds, History, turns <= 2, [Next]_vars
  PROVE  [Causal!Next]_<<Done, Uses>>
<1>1. StepKind
  BY StepKinds
<1>2. ASSUME NEW n \in Node, NEW R \in SUBSET Var, Forward(n, R, TRUE) \/ Forward(n, R, FALSE)
      PROVE  Causal!Next
  BY <1>2, ForwardIsCausal
<1>3. ASSUME NEW n \in Node, Backward(n)
      PROVE  [Causal!Next]_<<Done, Uses>>
  <2>1. PICK m : Forgets(mem, m, n, WrittenAt(n)) /\ mem' = RunModifyDagRev(m, n)
    BY <1>3 DEF Backward
  <2>2. mem'.inc = mem.inc
    BY <2>1, RunModifyDagRevEffect DEF Forgets
  <2>3. QED BY <1>3, <2>2, UndoIsCausal DEF Backward
<1>4. ASSUME NEW n \in Node, BeginsUndo(n)
      PROVE  [Causal!Next]_<<Done, Uses>>
  BY <1>4, UndoIsCausal DEF BeginsUndo
<1>5. ASSUME Quiet \/ TurnsAround
      PROVE  Done' = Done /\ Uses' = Uses
  BY <1>5 DEF Quiet, TurnsAround, Done, Uses
<1>6. QED BY <1>1, <1>2, <1>3, <1>4, <1>5 DEF StepKind

\* The runtime implements the abstract specification: up to the end of the
\* first replay blocks are executed only when what they use was executed, and
\* undone only when no executed block uses them.
THEOREM ImplementsCausalOrder == Spec /\ [](turns <= 2) => FollowsCausalOrder
<1>1. Init => Causal!Init
  <2> SUFFICES ASSUME Init
               PROVE  Done = {} /\ Uses = {}
    BY DEF Causal!Init, Done, Uses
  <2>1. \A d \in Node : mem.inc[d] = <<>> /\ ~Executed(d)
    BY NodeType DEF Init, EmptyStore, Mem, Executed
  <2>2. QED BY <2>1 DEF Done, Uses
<1>2. Ind /\ CheckStillHolds /\ History /\ turns <= 2 /\ [Next]_vars => [Causal!Next]_Causal!vars
  BY StepIsCausal DEF Causal!vars, Done, Uses
<1>3. QED BY <1>1, <1>2, Invariance, CheckHolds, HistoryHolds, PTL
          DEF Spec, FollowsCausalOrder, Causal!Spec


-----------------------------------------------------------------------------
(* Semaphores                                                              *)

\* In a program that changes its semaphores by V and P only, a node that writes
\* a semaphore is a V or a P.
LEMMA SemaphoreWriter ==
  ASSUME Ind, SemaphoresApart, NEW n \in Node, Created(n[1]), n[2] < CodeLen(n[1]),
         NEW x \in WrittenAt(n), Semaphore(x)
  PROVE  OpAt(n) \in {"V", "P"}
<1>1. proc[n[1]] \in ProcName /\ CodeLen(n[1]) \in Nat /\ n[2] \in Nat
  BY NodeType, CodeLenType
<1>2. n[2] + 1 \in 1..Len(Code[proc[n[1]]])
  BY <1>1 DEF CodeLen
<1>3. QED BY <1>1, <1>2 DEF SemaphoresApart, WrittenAt, OpAt

LEMMA LeftByType == \A n : LeftBy(n) \in {0, 1}
BY DEF LeftBy

LEMMA LeftByStable ==
  ASSUME SamePhase \/ proc' = proc, NEW n, n \notin Node \/ Created(n[1])
  PROVE  LeftBy(n)' = LeftBy(n)
BY NodeType DEF SamePhase, LeftBy

\* The nodes that edges of the DAG and last writers refer to leave what they left.
LEMMA OverwrittenExist ==
  ASSUME Ind, NEW n \in Node, NEW x \in Var, NEW s \in Overwritten(mem, n, x)
  PROVE  s \notin Node \/ Created(s[1])
<1>1. PICK i \in DOMAIN mem.inc[n] : mem.inc[n][i] = WriteEdge(s, x)
  BY DEF Overwritten, HasEdge
<1>2. mem.inc[n][i].src = s
  BY <1>1 DEF WriteEdge
<1>3. QED BY <1>2, SourcesExist, NodeType

LEMMA DagNodesFit ==
  ASSUME Ind, NEW n \in DagNodes
  PROVE  n \in Node /\ Created(n[1]) /\ n[2] < CodeLen(n[1])
<1>1. n \in Node /\ Created(n[1]) /\ InDag(n) /\ n[1] \in Pid /\ n[2] \in Nat
  BY DagNodesExist, NodeType DEF DagNodes
<1>2. CodeLen(n[1]) \in Nat /\ pc[n[1]] \in Nat /\ pc[n[1]] <= CodeLen(n[1])
  BY <1>1, CodeLenType DEF Ind, TypeOK, Structure, ProcessesExist
<1>3. Inside(n[1]) => pc[n[1]] < CodeLen(n[1])
  BY <1>1 DEF Ind, Structure, PositionsFit
<1>4. QED BY <1>1, <1>2, <1>3 DEF InDag, Executed

\* What Alternate says of one semaphore.
AlternateAt(x) ==
    /\ mem.val[x] = LeftBy(mem.last[x])
    /\ \A n \in DagNodes : \A s \in Overwritten(mem, n, x) :
          LeftBy(s) = IF LeftBy(n) = 1 THEN 0 ELSE 1

\* A step that does not change x and adds no writer of it.
LEMMA AlternateKept ==
  ASSUME Ind, SamePhase \/ proc' = proc, NEW x \in Var, AlternateAt(x),
         mem'.val[x] = mem.val[x], mem'.last[x] = mem.last[x],
         \A n \in DagNodes' : \A s \in Overwritten(mem', n, x) :
            n \in DagNodes /\ s \in Overwritten(mem, n, x)
  PROVE  AlternateAt(x)'
<1>1. ASSUME NEW l, l = mem'.last[x]
      PROVE  mem'.val[x] = LeftBy(l)'
  <2>1. l \notin Node \/ Created(l[1])
    BY <1>1, SourcesExist, NodeType
  <2>2. QED BY <1>1, <2>1, LeftByStable DEF AlternateAt
<1>2. ASSUME NEW n \in DagNodes', NEW s \in Overwritten(mem', n, x)
      PROVE  LeftBy(s)' = IF LeftBy(n)' = 1 THEN 0 ELSE 1
  <2>1. n \in DagNodes /\ n \in Node /\ Created(n[1]) /\ s \in Overwritten(mem, n, x)
    BY DagNodesExist DEF DagNodes
  <2>2. LeftBy(n)' = LeftBy(n) /\ LeftBy(s)' = LeftBy(s)
    BY <2>1, LeftByStable, OverwrittenExist
  <2>3. QED BY <2>1, <2>2 DEF AlternateAt
<1>3. QED BY <1>1, <1>2 DEF AlternateAt, LeftBy

LEMMA ForwardAlternates ==
  ASSUME Ind, History, turns <= 1, SemaphoresApart, Alternate,
         NEW n \in Node, NEW R \in SUBSET Var, NEW fin \in BOOLEAN, Forward(n, R, fin)
  PROVE  Alternate'
<1> SUFFICES ASSUME NEW x \in Var, Semaphore(x)
             PROVE  AlternateAt(x)'
  BY DEF Alternate, AlternateAt, LeftBy
<1>1. /\ SamePhase /\ ~rev /\ Created(n[1]) /\ n[2] < CodeLen(n[1]) /\ (fin => Flips(n))
      /\ DagNodes' = DagNodes \cup {n}
      /\ mem'.last[x] = IF x \in WrittenIf(n, fin) THEN n ELSE mem.last[x]
      /\ x \notin WrittenIf(n, fin) => mem'.val[x] = mem.val[x]
  BY DEF Forward, Records, DagNodes
<1>2. /\ Overwritten(mem', n, x) = IF x \in WrittenIf(n, fin) THEN {mem.last[x]} ELSE {}
      /\ \A d \in Node \ {n} : Overwritten(mem', d, x) = Overwritten(mem, d, x)
  BY ForwardOverwrites
<1>3. AlternateAt(x)
  BY DEF Alternate, AlternateAt
<1>4. \A d \in DagNodes : d \in Node /\ Created(d[1])
  BY DagNodesExist DEF DagNodes
<1>5. CASE x \notin WrittenIf(n, fin)
  BY <1>1, <1>2, <1>3, <1>4, <1>5, AlternateKept
<1>6. CASE x \in WrittenIf(n, fin)
  <2>1. fin /\ x \in WrittenAt(n) /\ OpAt(n) \in {"V", "P"}
    BY <1>1, <1>6, SemaphoreWriter DEF WrittenIf
  <2>2. mem.val[x] = 1 - LeftBy(n) /\ mem'.val[x] = LeftBy(n)
    BY <1>1, <2>1 DEF Flips
  <2>3. LeftBy(mem.last[x]) = 1 - LeftBy(n) /\ LeftBy(n) \in {0, 1}
    BY <1>3, <2>2, LeftByType DEF AlternateAt
  <2>4. LeftBy(n)' = LeftBy(n)
    BY <1>1, LeftByStable
  <2>5. ASSUME NEW l, l = mem'.last[x]
        PROVE  mem'.val[x] = LeftBy(l)'
    BY <1>1, <1>6, <2>2, <2>4, <2>5
  <2>6. ASSUME NEW d \in DagNodes', NEW s \in Overwritten(mem', d, x)
        PROVE  LeftBy(s)' = IF LeftBy(d)' = 1 THEN 0 ELSE 1
    <3>1. CASE d = n
      <4>1. s = mem.last[x]
        BY <1>2, <1>6, <2>6, <3>1
      <4>2. LeftBy(s)' = LeftBy(s)
        BY <1>1, <4>1, SourcesExist, NodeType, LeftByStable
      <4>3. QED BY <2>3, <2>4, <3>1, <4>1, <4>2
    <3>2. CASE d # n
      <4>1. d \in DagNodes /\ s \in Overwritten(mem, d, x)
        BY <1>1, <1>2, <1>4, <2>6, <3>2
      <4>2. LeftBy(d)' = LeftBy(d) /\ LeftBy(s)' = LeftBy(s)
        BY <1>1, <1>4, <4>1, LeftByStable, OverwrittenExist
      <4>3. QED BY <1>3, <4>1, <4>2 DEF AlternateAt
    <3>3. QED BY <3>1, <3>2
  <2>7. QED BY <2>5, <2>6 DEF AlternateAt, LeftBy
<1>7. QED BY <1>5, <1>6

LEMMA BackwardAlternates ==
  ASSUME Ind, History, turns <= 1, SemaphoresApart, Alternate, NEW n \in Node, Backward(n)
  PROVE  Alternate'
<1> SUFFICES ASSUME NEW x \in Var, Semaphore(x)
             PROVE  AlternateAt(x)'
  BY DEF Alternate, AlternateAt, LeftBy
<1>1. PICK m : Forgets(mem, m, n, WrittenAt(n)) /\ mem' = RunModifyDagRev(m, n)
  BY DEF Backward
<1>2. /\ SamePhase /\ rev /\ n \in DagNodes /\ Flips(n) /\ DagNodes' = DagNodes \ {n}
  BY DEF Backward, DagNodes
<1>3. mem'.inc = mem.inc /\ mem'.last = m.last /\ mem'.val = m.val
  BY <1>1, RunModifyDagRevEffect DEF Forgets
<1>4. /\ mem'.last[x] = IF x \in WrittenAt(n) THEN GetLastDag(mem, x, n) ELSE mem.last[x]
      /\ x \notin WrittenAt(n) => mem'.val[x] = mem.val[x]
  BY <1>1, <1>3 DEF Forgets
<1>5. AlternateAt(x)
  BY DEF Alternate, AlternateAt
<1>6. \A d \in Node : Overwritten(mem', d, x) = Overwritten(mem, d, x)
  BY <1>3 DEF Overwritten, HasEdge
<1>7. \A d \in DagNodes' : d \in DagNodes /\ d \in Node
  BY <1>2 DEF DagNodes
<1>8. CASE x \notin WrittenAt(n)
  BY <1>2, <1>4, <1>5, <1>6, <1>7, <1>8, AlternateKept
<1>9. CASE x \in WrittenAt(n)
  <2>1. OpAt(n) \in {"V", "P"}
    BY <1>2, <1>9, SemaphoreWriter, DagNodesFit
  <2>2. mem.val[x] = LeftBy(n) /\ mem'.val[x] = 1 - LeftBy(n)
    BY <1>2, <1>9, <2>1 DEF Flips
  <2>3. mem'.last[x] \in Overwritten(mem, n, x)
    <3>1. WritesRecorded /\ mem \in Store
      <4>1. turns <= 2
        BY TurnsAssumption DEF Ind, TypeOK
      <4>2. QED BY <1>2, <4>1, PhaseFacts DEF FirstTrip
    <3>2. Overwritten(mem, n, x) # {}
      BY <1>2, <1>9, <3>1 DEF WritesRecorded
    <3>3. QED BY <1>4, <1>9, <3>1, <3>2, GetLastDagFinds
  <2>4. \A l : l = mem'.last[x] => LeftBy(l) = 1 - LeftBy(n)
    BY <1>2, <1>5, <2>3, LeftByType DEF AlternateAt
  <2>5. ASSUME NEW l, l = mem'.last[x]
        PROVE  mem'.val[x] = LeftBy(l)'
    BY <1>2, <2>2, <2>3, <2>4, <2>5, LeftByStable, OverwrittenExist
  <2>6. ASSUME NEW d \in DagNodes', NEW s \in Overwritten(mem', d, x)
        PROVE  LeftBy(s)' = IF LeftBy(d)' = 1 THEN 0 ELSE 1
    <3>1. d \in DagNodes /\ d \in Node /\ s \in Overwritten(mem, d, x)
      BY <1>6, <1>7, <2>6
    <3>2. LeftBy(d)' = LeftBy(d) /\ LeftBy(s)' = LeftBy(s)
      BY <1>2, <3>1, DagNodesFit, LeftByStable, OverwrittenExist
    <3>3. QED BY <1>5, <3>1, <3>2 DEF AlternateAt
  <2>7. QED BY <2>5, <2>6 DEF AlternateAt, LeftBy
<1>10. QED BY <1>8, <1>9

LEMMA OtherStepsAlternate ==
  ASSUME Ind, Alternate, Quiet \/ TurnsAround \/ \E n \in Node : BeginsUndo(n)
  PROVE  Alternate'
<1> SUFFICES ASSUME NEW x \in Var, Semaphore(x)
             PROVE  AlternateAt(x)'
  BY DEF Alternate, AlternateAt, LeftBy
<1>1. AlternateAt(x)
  BY DEF Alternate, AlternateAt
<1>2. mem' = mem /\ DagNodes' = DagNodes /\ (SamePhase \/ proc' = proc)
  BY DEF Quiet, TurnsAround, BeginsUndo, DagNodes
<1>3. QED BY <1>1, <1>2, AlternateKept

\* Backwards a V or P that may be undone finds the value it has left: nobody
\* has overwritten it, so it is the last writer of its semaphore.
LEMMA NoWaitBackwards ==
  ASSUME Ind, CheckStillHolds, History, turns <= 1, SemaphoresApart, Alternate, rev,
         NEW p \in Pid, SemWait(p)
  PROVE  FALSE
<1> DEFINE n == CurrentNode(p)
           i == CurrentInstr(p)
           x == i.dst
<1>1. Busy(p) /\ i.op \in {"V", "P"} /\ mem.val[x] # SemFrom(i)
  BY DEF SemWait, Busy, Inside, SemFree
<1>2. turns <= 2 /\ rev \in BOOLEAN
  BY TurnsAssumption DEF Ind, TypeOK
<1>3. /\ n \in Node /\ n[1] = p /\ n \in DagNodes /\ mem.ctr[n] = 0
      /\ n[2] < CodeLen(n[1]) /\ i \in Instr /\ WellFormed(i)
      /\ WrittenAt(n) = WrittenBy(i)
  BY <1>1, <1>2, BusyNode, BackwardNode DEF DagNodes
<1>4. x \in WrittenAt(n) /\ x \in Var
  BY <1>1, <1>3 DEF WrittenBy, WellFormed
<1>5. OpAt(n) = i.op /\ Semaphore(x)
  <2>1. OpAt(n) = i.op
    BY <1>3 DEF OpAt, CurrentInstr
  <2>2. n[2] + 1 \in 1..Len(Code[proc[p]]) /\ proc[p] \in ProcName
    BY <1>3, NodeType, DagNodesFit, CodeLenType DEF CodeLen
  <2>3. QED BY <1>1, <2>1, <2>2 DEF Semaphore, CurrentInstr, n
<1> HIDE DEF n, x
<1>6. Overwritten(mem, n, x) # {} /\ Chained(mem, DagNodes, x)
  BY <1>2, <1>3, <1>4, PhaseFacts DEF FirstTrip, WritesRecorded
<1>7. n = mem.last[x]
  <2>1. \A d \in DagNodes : n \notin Overwritten(mem, d, x)
    BY <1>2, <1>3, <1>4, UnusedNode
  <2>2. QED BY <1>3, <1>6, <2>1, UnusedIsLast
<1>8. mem.val[x] = LeftBy(n)
  BY <1>4, <1>5, <1>7 DEF Alternate
<1>9. LeftBy(n) = SemFrom(i)
  BY <1>1, <1>2, <1>3, <1>5 DEF LeftBy, SemFrom, OpAt
<1>10. QED BY <1>1, <1>8, <1>9 DEF x

NobodyWaits == \A p \in Pid : status[p] \notin {"wait", "woken"}

\* Only SemWait makes a process wait, and only one that waits is woken.
LEMMA WaitingBegins ==
  ASSUME Ind, [Next]_vars, NobodyWaits, ~NobodyWaits'
  PROVE  \E p \in Pid : SemWait(p)
<1> SUFFICES ASSUME \A p \in Pid : ~SemWait(p)
             PROVE  NobodyWaits'
  OBVIOUS
<1>1. status \in [Pid -> Status] /\ waitq \in [Var -> Seq(Pid)]
  BY DEF Ind, TypeOK
<1>2. ASSUME NEW p \in Pid, Check(p) \/ Exec(p) \/ CallBegin(p) \/ CallEnd(p)
      PROVE  NobodyWaits'
  BY <1>1, <1>2 DEF NobodyWaits, Check, Exec, CallBegin, CallEnd, AfterBlock
<1>3. ASSUME NEW p \in Pid, SemTake(p)
      PROVE  NobodyWaits'
  <2> DEFINE x == CurrentInstr(p).dst
  <2>1. status' = [q \in Pid |-> IF q = p THEN AfterBlock(CurrentNode(p))
                                 ELSE IF q \in NotifySem(x) THEN "woken"
                                 ELSE status[q]]
    BY <1>3 DEF SemTake
  <2>2. x \in Var
    BY <1>3, CurrentNodeFits DEF SemTake, Inside, WellFormed
  <2> HIDE DEF x
  <2>3. \A q \in NotifySem(x) : status[q] = "wait" /\ q \in Pid
    <3>1. waitq[x] # <<>> => /\ 1 \in DOMAIN waitq[x] /\ Head(waitq[x]) = waitq[x][1]
                             /\ Head(waitq[x]) \in Pid
      BY <1>1, <2>2
    <3>2. QED BY <2>2, <3>1 DEF NotifySem, Ind, Structure, QueuesHoldWaiters
  <2>4. NotifySem(x) = {}
    BY <2>3 DEF NobodyWaits
  <2>5. QED BY <2>1, <2>4 DEF NobodyWaits, AfterBlock
<1>4. CASE Suspend \/ Resume
  BY <1>1, <1>4 DEF NobodyWaits, Suspend, Resume
<1>5. CASE UNCHANGED vars
  BY <1>5 DEF NobodyWaits, vars
<1>6. QED BY <1>2, <1>3, <1>4, <1>5 DEF Next, ProcStep, Idle, Crashed

LEMMA SemaphoreHistoryPreserved ==
  ASSUME Ind, CheckStillHolds, History, SemaphoreHistory, [Next]_vars
  PROVE  SemaphoreHistory'
<1> SUFFICES ASSUME SemaphoresApart, turns' <= 1
             PROVE  Alternate' /\ (rev' => NobodyWaits')
  BY DEF SemaphoreHistory, NobodyWaits
<1>1. turns \in Nat /\ turns <= turns' /\ turns' \in Nat
  <2>1. turns' = turns \/ turns' = turns + 1
    BY DEF Next, ProcStep, Check, Exec, SemTake, SemWait, CallBegin, CallEnd, Suspend,
           Resume, Idle, Crashed, vars
  <2>2. QED BY <2>1, TurnsAssumption DEF Ind, TypeOK
<1>2. turns <= 1 /\ turns <= 2
  BY <1>1
<1>3. Alternate /\ (rev => NobodyWaits)
  BY <1>2 DEF SemaphoreHistory, NobodyWaits
<1>4. StepKind
  BY <1>2, StepKinds
<1>5. Alternate'
  <2>1. TRUE \in BOOLEAN /\ FALSE \in BOOLEAN
    OBVIOUS
  <2>2. QED BY <1>2, <1>3, <1>4, <2>1, ForwardAlternates, BackwardAlternates,
               OtherStepsAlternate DEF StepKind
<1>6. ASSUME rev'
      PROVE  NobodyWaits'
  <2>1. CASE rev
    BY <1>2, <1>3, <2>1, WaitingBegins, NoWaitBackwards
  <2>2. CASE ~rev
    <3>1. Resume
      BY <1>6, <2>2 DEF Next, ProcStep, Check, Exec, SemTake, SemWait, CallBegin, CallEnd,
                        Suspend, Idle, Crashed, vars
    <3>2. \A p \in Pid : status'[p] \notin {"wait", "woken"}
      <4>1. \A p \in Pid : ~Inside(p)
        BY <3>1, IndImpliesQuiescent DEF Resume, Quiescent, Active, Inside
      <4>2. QED BY <3>1, <4>1 DEF Resume, Inside, Ind, TypeOK
    <3>3. QED BY <3>2 DEF NobodyWaits
  <2>3. QED BY <2>1, <2>2
<1>7. QED BY <1>5, <1>6

LEMMA InitImpliesSemaphoreHistory ==
  ASSUME Init
  PROVE  SemaphoreHistory
<1>1. rev = FALSE
  BY DEF Init
<1>2. DagNodes = {}
  BY NodeType DEF Init, DagNodes, InDag, Executed, Inside
<1>3. ASSUME NEW x \in Var
      PROVE  mem.val[x] = LeftBy(mem.last[x])
  <2>1. mem.val[x] = 0 /\ mem.last[x] \in {Bot, <<0, 0>>}
    BY DEF Init, EmptyStore, Mem, InitLast
  <2>2. proc[0] = Main /\ Code[Main][0 + 1].op = "skip"
    BY CodeAssumption, BoundsAssumption DEF Init, Pid
  <2>3. LeftBy(Bot) = 0 /\ LeftBy(<<0, 0>>) = 0
    BY <2>2, NodeType DEF LeftBy
  <2>4. QED BY <2>1, <2>3
<1>4. QED BY <1>1, <1>2, <1>3 DEF SemaphoreHistory, Alternate

\* Along the first run and its rollback the values of a semaphore alternate along
\* its chain of writers, V upon P and P upon V, in a program that changes its
\* semaphores by them only; so on the way back no V and no P has to wait.
THEOREM SemaphoresAlternate == Spec => []SemaphoreHistory
<1>1. Init => SemaphoreHistory
  BY InitImpliesSemaphoreHistory
<1>2. Ind /\ CheckStillHolds /\ History /\ SemaphoreHistory /\ [Next]_vars
         => SemaphoreHistory'
  BY SemaphoreHistoryPreserved
<1>3. QED BY <1>1, <1>2, Invariance, CheckHolds, HistoryHolds, PTL DEF Spec

\* In a program that changes its semaphores by V and P only, no process waits
\* for a semaphore during the first rollback: once the DAG allows a V or P to
\* be undone, the semaphore has the value that the operation left.
THEOREM RollbackNeverWaits == ASSUME SemaphoresApart PROVE Spec => []UndoNeverWaits
<1>1. SemaphoreHistory => UndoNeverWaits
  BY DEF SemaphoreHistory, UndoNeverWaits, FirstRoundTrip
<1>2. QED BY <1>1, SemaphoresAlternate, PTL

-----------------------------------------------------------------------------
(* Locks                                                                   *)

\* What LockExclusion says of one lock.
LockAt(x) ==
    /\ mem.val[x] \in {0, 1}
    /\ mem.val[x] = 1 <=> \E p \in Pid : Holds(p, x)
    /\ \A p, q \in Pid : Holds(p, x) /\ Holds(q, x) => p = q

\* A section goes on from one block to the next, but for its V and its P.
LEMMA SectionStep ==
  ASSUME NEW f, NEW x, NEW b \in Nat \ {0}
  PROVE  InSection(f, b, x) <=> \/ Takes(Code[f][b], x)
                                \/ InSection(f, b - 1, x) /\ ~Releases(Code[f][b], x)
<1>1. 1..b = (1..(b - 1)) \cup {b}
  OBVIOUS
<1>2. \A a \in 1..(b - 1) : (a + 1)..b = ((a + 1)..(b - 1)) \cup {b}
  OBVIOUS
<1>3. (b + 1)..b = {}
  OBVIOUS
<1>4. Takes(Code[f][b], x) => InSection(f, b, x)
  BY <1>1, <1>3 DEF InSection
<1>5. InSection(f, b - 1, x) /\ ~Releases(Code[f][b], x) => InSection(f, b, x)
  BY <1>1, <1>2 DEF InSection
<1>6. InSection(f, b, x) /\ ~Takes(Code[f][b], x)
         => InSection(f, b - 1, x) /\ ~Releases(Code[f][b], x)
  BY <1>1, <1>2 DEF InSection
<1>7. QED BY <1>4, <1>5, <1>6

\* Where a busy process is: before its block, or backwards after it.
LEMMA BusyPosition ==
  ASSUME Ind, NEW p \in Pid, Busy(p), NEW b, b = CurrentNode(p)[2] + 1
  PROVE  /\ proc[p] \in ProcName /\ b \in 1..Len(Code[proc[p]])
         /\ CurrentInstr(p) = Code[proc[p]][b]
         /\ Position(p) = IF rev THEN b ELSE b - 1
<1>1. /\ CurrentNode(p)[2] \in 0..(CodeLen(p) - 1)
      /\ CurrentNode(p)[2] = IF rev /\ status[p] = "ready" THEN pc[p] - 1 ELSE pc[p]
  BY CurrentNodeFits DEF Busy
<1>2. proc[p] \in ProcName /\ CodeLen(p) \in Nat /\ pc[p] \in Nat
  BY CodeLenType, ActiveIsCreated DEF Busy, Inside, Ind, TypeOK
<1>3. CurrentInstr(p) = Code[proc[p]][b]
  BY DEF CurrentInstr
<1>4. status[p] = "ready" => ~Inside(p)
  BY DEF Inside
<1>5. QED BY <1>1, <1>2, <1>3, <1>4 DEF CodeLen, Position, Busy

\* Whoever is at a V or a P of a lock holds it exactly if the operation expects
\* the value 1, and when the block has ended exactly if it leaves the value 1.
\* Other blocks leave the lock with whom it was.
LEMMA LockBlock ==
  ASSUME Ind, NEW p \in Pid, Busy(p), NEW n, n = CurrentNode(p),
         NEW x \in Var, IsLock(x), NEW i, i = CurrentInstr(p),
         pc' = [pc EXCEPT ![p] = IF rev THEN n[2] ELSE n[2] + 1],
         ~Inside(p)', OthersStay(p), rev' = rev, proc' = proc
  PROVE  /\ \A q \in Pid \ {p} : Holds(q, x)' <=> Holds(q, x)
         /\ IF Takes(i, x) \/ Releases(i, x)
            THEN (Holds(p, x) <=> SemFrom(i) = 1) /\ (Holds(p, x)' <=> SemTo(i) = 1)
            ELSE Holds(p, x)' <=> Holds(p, x)
<1>1. PICK b : b = n[2] + 1
  OBVIOUS
<1>2. /\ b \in 1..Len(Code[proc[p]]) /\ proc[p] \in ProcName /\ i = Code[proc[p]][b]
      /\ Position(p) = IF rev THEN b ELSE b - 1
  BY <1>1, BusyPosition
<1>3. pc \in [Pid -> 0..MaxPc] /\ rev \in BOOLEAN /\ n[2] \in Nat
  BY NodeType, BusyNode DEF Ind, TypeOK
<1>4. Position(p)' = IF rev THEN b - 1 ELSE b
  BY <1>1, <1>3 DEF Position
<1>5. \A q \in Pid \ {p} : Position(q)' = Position(q)
  BY <1>3 DEF Position, OthersStay
<1>6. /\ Holds(p, x)  <=> InSection(proc[p], IF rev THEN b ELSE b - 1, x)
      /\ Holds(p, x)' <=> InSection(proc[p], IF rev THEN b - 1 ELSE b, x)
  BY <1>2, <1>4 DEF Holds, InSection
<1>7. InSection(proc[p], b, x) <=> \/ Takes(i, x)
                                   \/ InSection(proc[p], b - 1, x) /\ ~Releases(i, x)
  BY <1>2, SectionStep
<1>8. /\ Takes(i, x) => ~InSection(proc[p], b - 1, x)
      /\ Releases(i, x) => InSection(proc[p], b - 1, x)
  BY <1>2 DEF IsLock
<1>9. /\ Takes(i, x) => SemFrom(i) = (IF rev THEN 1 ELSE 0) /\ ~Releases(i, x)
      /\ Releases(i, x) => SemFrom(i) = (IF rev THEN 0 ELSE 1)
      /\ SemTo(i) = 1 - SemFrom(i)
  BY <1>3 DEF Takes, Releases, SemFrom, SemTo
<1>10. \A q \in Pid \ {p} : Holds(q, x)' <=> Holds(q, x)
  BY <1>5 DEF Holds, InSection
<1>11. IF Takes(i, x) \/ Releases(i, x)
       THEN (Holds(p, x) <=> SemFrom(i) = 1) /\ (Holds(p, x)' <=> SemTo(i) = 1)
       ELSE Holds(p, x)' <=> Holds(p, x)
  <2>1. CASE rev
    BY <1>6, <1>7, <1>8, <1>9, <2>1
  <2>2. CASE ~rev
    BY <1>6, <1>7, <1>8, <1>9, <2>2
  <2>3. QED BY <2>1, <2>2
<1>12. QED BY <1>10, <1>11

\* A block that begins and gives the mutex up has not moved its process.
LEMMA LockPause ==
  ASSUME Ind, NEW p \in Pid, Busy(p), NEW n, n = CurrentNode(p), NEW x \in Var,
         pc' = [pc EXCEPT ![p] = n[2]], Inside(p)', OthersStay(p), rev' = rev,
         \A q \in Pid : Created(q) => proc'[q] = proc[q]
  PROVE  \A q \in Pid : Holds(q, x)' <=> Holds(q, x)
<1>1. pc \in [Pid -> 0..MaxPc] /\ rev \in BOOLEAN /\ n[2] \in Nat
  BY NodeType, BusyNode DEF Ind, TypeOK
<1>2. Position(p) = IF rev THEN n[2] + 1 ELSE n[2]
  BY <1>1, BusyPosition
<1>3. \A q \in Pid : Position(q)' = Position(q)
  BY <1>1, <1>2 DEF Position, OthersStay
<1>4. ASSUME NEW q \in Pid, ~Created(q)
      PROVE  ~Holds(q, x) /\ ~Holds(q, x)'
  <2>1. Position(q) = 0
    BY <1>4 DEF Position, Inside, Ind, Structure, ProcessesExist
  <2>2. QED BY <1>3, <2>1 DEF Holds, InSection
<1>5. QED BY <1>3, <1>4 DEF Holds, InSection

\* An instruction under the mutex changes the values it writes and no other.
LEMMA ExecPlainElsewhere ==
  ASSUME NEW m \in Store, NEW n \in Node, NEW i \in Instr, WellFormed(i),
         i.op \notin {"V", "P", "call"}, NEW x \in Var, x \notin WrittenBy(i)
  PROVE  ExecPlain(m, i, n).val[x] = m.val[x]
<1>1. m.val \in [Var -> Int]
  BY DEF Store
<1>2. CASE i.op = "skip"
  BY <1>2 DEF ExecPlain
<1>3. CASE i.op = "print"
  BY <1>3, ReadValue DEF ExecPlain
<1>4. CASE i.op \in {"+=", "-="}
  <2> DEFINE m1 == IF i.src = NoVar THEN m ELSE ReadAddr(m, i.src, rev, n)
             m2 == ReadAddr(m1, i.dst, rev, n)
             v  == IF (i.op = "+=") = (~rev)
                   THEN m.val[i.dst] + ExprValue(m, i)
                   ELSE m.val[i.dst] - ExprValue(m, i)
  <2>1. ExecPlain(m, i, n) = WriteAddr(m2, i.dst, v, rev, n)
    BY <1>4 DEF ExecPlain, ExecAssign
  <2>2. m2.val = m.val
    <3>1. m1.val = m.val
      BY ReadValue
    <3> HIDE DEF m1
    <3>2. QED BY <3>1, ReadValue
  <2> HIDE DEF m2, v
  <2>3. WriteAddr(m2, i.dst, v, rev, n).val = [m2.val EXCEPT ![i.dst] = v]
    BY WriteValue
  <2>4. x # i.dst
    BY <1>4 DEF WrittenBy
  <2>5. QED BY <1>1, <2>1, <2>2, <2>3, <2>4
<1>5. CASE i.op = "<=>"
  <2> DEFINE m1 == ReadAddr(m, i.dst, rev, n)
             m2 == ReadAddr(m1, i.src, rev, n)
             m3 == WriteAddr(m2, i.dst, m.val[i.src], rev, n)
  <2>1. ExecPlain(m, i, n) = WriteAddr(m3, i.src, m.val[i.dst], rev, n)
    BY <1>5 DEF ExecPlain, ExecSwap
  <2>2. m2.val = m.val
    <3>1. m1.val = m.val
      BY ReadValue
    <3> HIDE DEF m1
    <3>2. QED BY <3>1, ReadValue
  <2> HIDE DEF m2
  <2>3. m3.val = [m.val EXCEPT ![i.dst] = m.val[i.src]]
    BY <2>2, WriteValue
  <2> HIDE DEF m3
  <2>4. ExecPlain(m, i, n).val = [m3.val EXCEPT ![i.src] = m.val[i.dst]]
    BY <2>1, WriteValue
  <2>5. x # i.dst /\ x # i.src
    BY <1>5 DEF WrittenBy
  <2>6. QED BY <1>1, <2>3, <2>4, <2>5
<1>6. QED BY <1>2, <1>3, <1>4, <1>5 DEF Instr, Op

\* Undoing its edges does not change the values a block has left.
LEMMA FinishBlockValues ==
  ASSUME NEW m \in Store, NEW n, FinishBlock(m, n)
  PROVE  mem'.val = m.val
BY DEF FinishBlock, RunModifyDagRev, Mem

LEMMA ExecKeepsLock ==
  ASSUME Ind, NEW p \in Pid, Exec(p), NEW x \in Var, IsLock(x), LockAt(x)
  PROVE  LockAt(x)'
<1> DEFINE n == CurrentNode(p)
           i == CurrentInstr(p)
           m == ExecPlain(mem, i, n)
<1>1. /\ Busy(p) /\ i.op \notin {"V", "P", "call"} /\ FinishBlock(m, n)
      /\ status' = [status EXCEPT ![p] = AfterBlock(n)] /\ UNCHANGED <<rev, proc>>
  BY DEF Exec, Busy
<1>2. n \in Node /\ i \in Instr /\ WellFormed(i) /\ x \notin WrittenBy(i)
  <2>1. n \in Node /\ i \in Instr /\ WellFormed(i)
    BY <1>1, BusyNode
  <2>2. PICK b \in 1..Len(Code[proc[p]]) : proc[p] \in ProcName /\ i = Code[proc[p]][b]
    BY <1>1, BusyPosition
  <2>3. QED BY <1>1, <2>1, <2>2 DEF IsLock, WrittenBy
<1>3. mem \in Store /\ rev \in BOOLEAN /\ status \in [Pid -> Status]
  BY DEF Ind, TypeOK
<1>4. ~Inside(p)' /\ OthersStay(p)
  BY <1>1, <1>3 DEF OthersStay, Inside, AfterBlock
<1>5. pc' = [pc EXCEPT ![p] = IF rev THEN n[2] ELSE n[2] + 1]
  BY <1>1, BusyNode DEF FinishBlock
<1>6. mem'.val[x] = mem.val[x]
  <2>1. m \in Store
    BY <1>1, <1>2, <1>3, ExecPlainAnnotates DEF Annotates
  <2>2. m.val[x] = mem.val[x]
    BY <1>1, <1>2, <1>3, ExecPlainElsewhere
  <2>3. QED BY <1>1, <2>1, <2>2, FinishBlockValues
<1>7. \A q \in Pid : Holds(q, x)' <=> Holds(q, x)
  <2>1. ~Takes(i, x) /\ ~Releases(i, x)
    BY <1>1 DEF Takes, Releases
  <2> HIDE DEF n, i
  <2>2. QED BY <1>1, <1>4, <1>5, <2>1, LockBlock DEF n, i
<1>8. QED BY <1>6, <1>7 DEF LockAt

LEMMA SemTakeKeepsLock ==
  ASSUME Ind, NEW p \in Pid, SemTake(p), NEW x \in Var, IsLock(x), LockAt(x)
  PROVE  LockAt(x)'
<1> DEFINE n == CurrentNode(p)
           i == CurrentInstr(p)
           m == WriteAddr(ReadAddr(mem, i.dst, rev, n), i.dst, SemTo(i), rev, n)
<1>1. /\ Busy(p) /\ i.op \in {"V", "P"} /\ FinishBlock(m, n) /\ mem.val[i.dst] = SemFrom(i)
      /\ status' = [q \in Pid |-> IF q = p THEN AfterBlock(n)
                                  ELSE IF q \in NotifySem(i.dst) THEN "woken"
                                  ELSE status[q]]
      /\ UNCHANGED <<rev, proc>>
  BY DEF SemTake, SemFree, Busy, Inside
<1>2. n \in Node /\ i \in Instr /\ i.dst \in Var
  BY <1>1, BusyNode DEF WellFormed
<1>3. mem \in Store /\ rev \in BOOLEAN /\ waitq \in [Var -> Seq(Pid)]
  BY DEF Ind, TypeOK
<1>4. SemFrom(i) \in {0, 1} /\ SemTo(i) = 1 - SemFrom(i)
  BY DEF SemFrom, SemTo
<1>5. \A q \in NotifySem(i.dst) : status[q] = "wait"
  <2>1. waitq[i.dst] # <<>> => /\ 1 \in DOMAIN waitq[i.dst]
                               /\ Head(waitq[i.dst]) = waitq[i.dst][1]
    BY <1>2, <1>3
  <2>2. QED BY <1>2, <2>1 DEF NotifySem, Ind, Structure, QueuesHoldWaiters
<1>6. ~Inside(p)' /\ OthersStay(p)
  BY <1>1, <1>5 DEF OthersStay, Inside, AfterBlock
<1>7. pc' = [pc EXCEPT ![p] = IF rev THEN n[2] ELSE n[2] + 1]
  BY <1>1, BusyNode DEF FinishBlock
<1>8. mem'.val = [mem.val EXCEPT ![i.dst] = SemTo(i)]
  <2>1. m \in Store
    BY <1>2, <1>3, <1>4, SemTakeAnnotates DEF Annotates
  <2>2. m.val = [mem.val EXCEPT ![i.dst] = SemTo(i)]
    BY ReadValue, WriteValue
  <2>3. QED BY <1>1, <2>1, <2>2, FinishBlockValues
<1> HIDE DEF n, i
<1>9. /\ \A q \in Pid \ {p} : Holds(q, x)' <=> Holds(q, x)
      /\ IF x = i.dst
         THEN (Holds(p, x) <=> SemFrom(i) = 1) /\ (Holds(p, x)' <=> SemTo(i) = 1)
         ELSE Holds(p, x)' <=> Holds(p, x)
  <2>1. Takes(i, x) \/ Releases(i, x) <=> x = i.dst
    BY <1>1 DEF Takes, Releases
  <2>2. QED BY <1>1, <1>6, <1>7, <2>1, LockBlock DEF n, i
<1>10. mem.val \in [Var -> Int]
  BY <1>3 DEF Store
<1>11. CASE x # i.dst
  <2>1. mem'.val[x] = mem.val[x] /\ \A q \in Pid : Holds(q, x)' <=> Holds(q, x)
    BY <1>2, <1>8, <1>9, <1>10, <1>11
  <2>2. QED BY <2>1 DEF LockAt
<1>12. CASE x = i.dst /\ SemFrom(i) = 1
  <2>1. mem'.val[x] = 0
    BY <1>2, <1>4, <1>8, <1>10, <1>12
  <2>2. \A q \in Pid : ~Holds(q, x)'
    BY <1>4, <1>9, <1>12 DEF LockAt
  <2>3. QED BY <2>1, <2>2 DEF LockAt
<1>13. CASE x = i.dst /\ SemFrom(i) = 0
  <2>1. mem'.val[x] = 1
    BY <1>2, <1>4, <1>8, <1>10, <1>13
  <2>2. \A q \in Pid : Holds(q, x)' <=> q = p
    BY <1>1, <1>4, <1>9, <1>13 DEF LockAt
  <2>3. QED BY <2>1, <2>2 DEF LockAt
<1>14. QED BY <1>4, <1>11, <1>12, <1>13

LEMMA SemWaitKeepsLock ==
  ASSUME Ind, NEW p \in Pid, SemWait(p), NEW x \in Var, LockAt(x)
  PROVE  LockAt(x)'
<1> DEFINE n == CurrentNode(p)
<1>1. /\ Busy(p) /\ pc' = [pc EXCEPT ![p] = n[2]]
      /\ status' = [status EXCEPT ![p] = "wait"]
      /\ mem' = ReadAddr(mem, CurrentInstr(p).dst, rev, n)
      /\ UNCHANGED <<rev, proc>>
  BY DEF SemWait, Busy, Inside
<1>2. Inside(p)' /\ OthersStay(p)
  BY <1>1 DEF OthersStay, Inside, Ind, TypeOK
<1>3. mem'.val = mem.val
  BY <1>1, ReadValue
<1> HIDE DEF n
<1>4. \A q \in Pid : Holds(q, x)' <=> Holds(q, x)
  BY <1>1, <1>2, LockPause DEF n
<1>5. QED BY <1>3, <1>4 DEF LockAt

LEMMA CallBeginKeepsLock ==
  ASSUME Ind, NEW p \in Pid, CallBegin(p), NEW x \in Var, LockAt(x)
  PROVE  LockAt(x)'
<1> DEFINE n == CurrentNode(p)
           kids == CallPids(n, Len(CurrentInstr(p).names))
<1>1. /\ Busy(p) /\ pc' = [pc EXCEPT ![p] = n[2]] /\ mem' = mem
      /\ status' = [q \in Pid |-> IF \E j \in DOMAIN kids : kids[j] = q THEN "run"
                                  ELSE IF q = p THEN "call" ELSE status[q]]
      /\ rev' = rev /\ n[1] = p
  BY BusyNode DEF CallBegin, Busy
<1>2. Startable(n, kids)
  BY OldChildrenStartable, NewChildrenStartable
<1> HIDE DEF n, kids
<1>3. \A j \in DOMAIN kids : kids[j] # p /\ status[kids[j]] \in {"done", "none"}
  BY <1>1, <1>2 DEF Startable, Range, Busy, Inside
<1>4. Inside(p)' /\ OthersStay(p)
  BY <1>1, <1>3 DEF Inside, OthersStay
<1>5. \A q \in Pid : Created(q) => proc'[q] = proc[q]
  BY <1>2 DEF Startable
<1>6. \A q \in Pid : Holds(q, x)' <=> Holds(q, x)
  BY <1>1, <1>4, <1>5, LockPause DEF n
<1>7. QED BY <1>1, <1>6 DEF LockAt

LEMMA CallEndKeepsLock ==
  ASSUME Ind, NEW p \in Pid, CallEnd(p), NEW x \in Var, IsLock(x), LockAt(x)
  PROVE  LockAt(x)'
<1> DEFINE n == CurrentNode(p)
           i == CurrentInstr(p)
<1>1. /\ Busy(p) /\ Inside(p) /\ status[p] = "call" /\ FinishBlock(mem, n)
      /\ status' = [status EXCEPT ![p] = AfterBlock(n)]
      /\ UNCHANGED <<rev, proc>>
  BY DEF CallEnd, Busy, Inside
<1>2. i.op = "call"
  <2>1. n \in Node /\ n = <<p, n[2]>> /\ n[1] = p /\ n[2] = pc[p]
    BY <1>1, BusyNode
  <2>2. callpids[n] # <<>>
    BY <1>1, <2>1 DEF Ind, Structure, PositionsFit
  <2>3. QED BY <2>1, <2>2 DEF Ind, Structure, CallsRecorded, CurrentInstr
<1>3. ~Inside(p)' /\ OthersStay(p)
  BY <1>1 DEF OthersStay, Inside, AfterBlock, Ind, TypeOK
<1>4. mem'.val = mem.val
  BY <1>1, FinishBlockValues DEF Ind, TypeOK
<1>5. pc' = [pc EXCEPT ![p] = IF rev THEN n[2] ELSE n[2] + 1]
  BY <1>1, BusyNode DEF FinishBlock
<1>6. ~Takes(i, x) /\ ~Releases(i, x)
  BY <1>2 DEF Takes, Releases
<1> HIDE DEF n, i
<1>7. \A q \in Pid : Holds(q, x)' <=> Holds(q, x)
  BY <1>1, <1>3, <1>5, <1>6, LockBlock DEF n, i
<1>8. QED BY <1>4, <1>7 DEF LockAt

\* A question to isRunnable and a command of the user move no process.
LEMMA OthersKeepLock ==
  ASSUME Ind, NEW x \in Var, LockAt(x),
         (\E p \in Pid : Check(p)) \/ Suspend \/ Resume \/ UNCHANGED vars
  PROVE  LockAt(x)'
<1>1. mem' = mem /\ pc' = pc /\ proc' = proc
  BY DEF Check, Suspend, Resume, vars
<1>2. \A q \in Pid : Position(q)' = Position(q)
  <2>1. CASE Resume
    <3>1. \A q \in Pid : ~Inside(q)
      BY <2>1, IndImpliesQuiescent DEF Resume, Quiescent, Active, Inside
    <3>2. \A q \in Pid : ~Inside(q)'
      BY <2>1, <3>1 DEF Resume, Inside, Ind, TypeOK
    <3>3. QED BY <1>1, <3>1, <3>2 DEF Position
  <2>2. CASE ~Resume
    <3>1. rev' = rev /\ \A q \in Pid : Inside(q)' <=> Inside(q)
      BY <2>2 DEF Check, Suspend, vars, Inside, Ind, TypeOK
    <3>2. QED BY <1>1, <3>1 DEF Position
  <2>3. QED BY <2>1, <2>2
<1>3. QED BY <1>1, <1>2 DEF LockAt, Holds, InSection

\* In every program a variable that is used as a lock, changed by V at the
\* beginning of a section and by P at its end only, is 1 exactly when a process
\* is in its section, and then only one is: in the first run, on the way back,
\* where P is the operation that takes the lock, and in every replay.
THEOREM LocksExclude == Spec => []LockExclusion
<1>1. LockExclusion <=> \A x \in Var : IsLock(x) => LockAt(x)
  BY DEF LockExclusion, LockAt
<1>2. Init => LockExclusion
  <2> SUFFICES ASSUME Init, NEW x \in Var
               PROVE  LockAt(x)
    BY <1>1
  <2>1. mem.val[x] = 0
    BY DEF Init, EmptyStore, Mem
  <2>2. \A p \in Pid : ~Holds(p, x)
    BY DEF Init, Holds, InSection, Position
  <2>3. QED BY <2>1, <2>2 DEF LockAt
<1>3. Ind /\ LockExclusion /\ [Next]_vars => LockExclusion'
  <2> SUFFICES ASSUME Ind, [Next]_vars, NEW x \in Var, IsLock(x), LockAt(x)
               PROVE  LockAt(x)'
    <3>1. LockExclusion' <=> \A x \in Var : IsLock(x) => LockAt(x)'
      BY DEF LockExclusion, LockAt
    <3>2. QED BY <1>1, <3>1
  <2>1. ASSUME NEW p \in Pid, ProcStep(p)
        PROVE  LockAt(x)'
    BY <2>1, ExecKeepsLock, SemTakeKeepsLock, SemWaitKeepsLock, CallBeginKeepsLock,
       CallEndKeepsLock, OthersKeepLock DEF ProcStep
  <2>2. QED BY <2>1, OthersKeepLock DEF Next, Idle, Crashed
<1>4. QED BY <1>2, <1>3, Invariance, PTL DEF Spec

=============================================================================
