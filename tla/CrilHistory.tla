---------------------------- MODULE CrilHistory ----------------------------
(***************************************************************************)
(* CrilRuntime with a history variable: the values of the variables just   *)
(* before and just after the first execution of every block.  It makes the *)
(* purpose of the DAG a property: a block that is undone puts back what it *)
(* had found, a block that is replayed computes what it had computed.      *)
(***************************************************************************)
EXTENDS CrilRuntime

VARIABLE hist   \* per node <<>>, or <<values before, values after>>

hvars == <<vars, hist>>

Does(n)   == ~Executed(n) /\ Executed(n)'
Undoes(n) == Executed(n) /\ ~Executed(n)'

HistInit == Init /\ hist = [n \in Node |-> <<>>]

HistNext ==
    /\ Next
    /\ hist' = [n \in Node |-> IF Does(n) /\ hist[n] = <<>>
                               THEN <<mem.val, mem'.val>> ELSE hist[n]]

HistSpec == HistInit /\ [][HistNext]_hvars

\* The variables that node n writes, by the edges it left in the DAG.
Written(n) == {x \in Var : WriteEdges(mem', x, n) # {}}

\* Undoing a block gives each variable it had written the value that the block
\* had found in it, in whatever order the processes are undone.
UndoRestores ==
    [][\A n \in Node : Undoes(n) /\ hist[n] # <<>> =>
          \A x \in Written(n) : mem'.val[x] = hist[n][1][x]]_hvars

\* Executing a block again gives each variable it writes the value that the
\* first execution gave it, in whatever order the processes are replayed.
ReplayRecomputes ==
    [][\A n \in Node : Does(n) /\ hist[n] # <<>> =>
          \A x \in Written(n) : mem'.val[x] = hist[n][2][x]]_hvars

=============================================================================
