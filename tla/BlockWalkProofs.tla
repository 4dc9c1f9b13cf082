-------------------------- MODULE BlockWalkProofs ---------------------------
(***************************************************************************)
(* The way of a process through a loaded file and back, for every file     *)
(* that is well built: no assertion of the runtime fails, the stack of     *)
(* block numbers is that of the next line, and a block that is undone      *)
(* leaves what it found.                                                   *)
(*                                                                         *)
(* The invariant describes a process by the blocks that it has executed.   *)
(* Each of them has been entered through a label that its predecessor      *)
(* jumps to, and between two of them stand the stack and the trail that    *)
(* the first has left and the second has found.  In the middle of a block, *)
(* done or undone, a process is d lines after its start, with the stack    *)
(* that these lines make of the one that the block has found.  That the    *)
(* children of a call are where the call needs them follows from whether   *)
(* its line is among the lines executed.                                   *)
(***************************************************************************)
EXTENDS BlockWalk, WellFoundedInduction, TLAPS

Stacks == Seq(Seq(Nat))
Label  == DOMAIN file.gotomap
Ways   == {<<>>} \cup {<<l>> : l \in Label}
Starts == {i \in Lines : i % 3 = 0}
State  == {"none", "loop", "first", "rest", "end", "last", "call", "sem", "stopped"}

Typed ==
    /\ rev \in BOOLEAN
    /\ turns \in 0..MaxTurns
    /\ npcs \in 1..(MaxPid + 1)
    /\ head \in [Pid -> 0..Len(file.f)]
    /\ pc \in [Pid -> 0..MaxBlocks]
    /\ stackdepth \in [Pid -> Stacks]
    /\ at \in [Pid -> State]
    /\ insts \in [Pid -> Seq(Int)]
    /\ via \in [Pid -> Seq(Label)]
    /\ trail \in [Pid -> Seq(Label)]
    /\ exmap \in [Pid -> Seq(Seq(Int))]
    /\ was \in [Pid -> Seq(Stacks \X Seq(Label))]
    /\ \A p \in Pid : Len(via[p]) <= 1 /\ Len(exmap[p]) <= MaxBlocks /\ Len(was[p]) <= MaxBlocks
    /\ DOMAIN callpids \subseteq Pid \X (0..MaxBlocks)
    /\ \A n \in DOMAIN callpids : callpids[n] \in Seq(Pid)

-----------------------------------------------------------------------------
(* Lines and blocks                                                        *)

\* The stack after line i, forwards.
Ahead(stack, i) ==
    LET t == LineAt(i)
    IN  CASE t.op = "begin"    -> Enter(t.arg, stack)
          [] t.op = "end"      -> Exit(t.arg, stack)
          [] t.op = "indent"   -> Append(Front(stack), Append(Last(stack), t.arg[1]))
          [] t.op = "unindent" -> Append(Front(stack), Front(Last(stack)))
          [] OTHER             -> stack

\* The stack after d lines of the block that starts at s.
Stack(stack, s, d) ==
    CASE d = 0 -> stack
      [] d = 1 -> Ahead(stack, s)
      [] d = 2 -> Ahead(Ahead(stack, s), s + 1)
      [] d = 3 -> Ahead(Ahead(Ahead(stack, s), s + 1), s + 2)

\* The trail after the entry at s, reached by the labels v.
Trail(labels, s, v) == IF LineAt(s).op = "join" THEN labels \o v ELSE labels

\* The stack is that of line i, unless a procedure begins there.
Fits(stack, i) ==
    \/ LineAt(i).op = "begin" /\ ~IsBranch(LineAt(i).arg)
    \/ stack # <<>> /\ Last(stack) = LineAt(i).scope

\* n lines of the block that starts at s, done or undone.
Forwards(lines, s, n)  == Len(lines) = n /\ \A i \in 1..n : lines[i] = s + i - 1
Backwards(lines, s, n) == Len(lines) = n /\ \A i \in 1..n : lines[i] = s + 3 - i

\* The last line of p's block j.
ExitOf(p, j) == exmap[p][j][1] + 2

\* p's block j starts at s, where it is led by the labels v.
EnteredBy(p, j, s, v) ==
    /\ s \in Starts
    /\ IF j = 1 THEN LineAt(s).op = "begin" /\ v = <<>>
       ELSE \E l \in Label : v = <<l>> /\ Leads(l, ExitOf(p, j - 1), s)

-----------------------------------------------------------------------------
(* A process                                                               *)

Active(p)  == at[p] \notin {"none", "stopped"}
InBlock(p) == at[p] \in {"first", "rest", "end", "last", "call", "sem"}

\* What p's block j has found, or will find.
Found(p, j) == IF j = pc[p] + 1 /\ ~InBlock(p) THEN <<stackdepth[p], trail[p]>> ELSE was[p][j]

Passed(p, j) ==
    LET s == exmap[p][j][1]
    IN  /\ Forwards(exmap[p][j], s, 3)
        /\ Fits(was[p][j][1], s)
        /\ \E v \in Ways :
              /\ EnteredBy(p, j, s, v)
              /\ Found(p, j + 1) = <<Stack(was[p][j][1], s, 3), Trail(was[p][j][2], s, v)>>

Past(p) ==
    /\ Len(exmap[p]) >= pc[p] /\ Len(was[p]) >= pc[p]
    /\ \A j \in 1..pc[p] : Passed(p, j)

\* Between blocks: before the next one, or behind the last one.
Before(p) == EnteredBy(p, pc[p] + 1, head[p], via[p]) /\ Fits(stackdepth[p], head[p])

Behind(p) ==
    /\ pc[p] > 0 /\ head[p] = ExitOf(p, pc[p]) + 1
    /\ IF IsEnd(LineAt(ExitOf(p, pc[p]))) THEN via[p] = <<>>
       ELSE \E l \in Label : via[p] = <<l>> /\ Leads(l, ExitOf(p, pc[p]), file.comemap[l])

AtBegin(p) == pc[p] = 0 /\ Before(p)
AtEnd(p)   == Behind(p) /\ IsEnd(LineAt(ExitOf(p, pc[p])))

Resting(p) ==
    /\ insts[p] = <<>>
    /\ at[p] = "loop" => IF rev THEN Behind(p) ELSE Before(p)
    /\ at[p] = "stopped" => AtBegin(p) \/ AtEnd(p)
    /\ at[p] = "none" => pc[p] = 0 /\ via[p] = <<>>

\* In the block that starts at s, with d of its lines done.
Doing(p, s, v, d) ==
    /\ Forwards(insts[p], s, d)
    /\ d < 3 => head[p] = s + d
    /\ d = 0 => via[p] = v
    /\ at[p] = "first" => d = 0
    /\ at[p] = "rest" => d \in {1, 2}
    /\ at[p] = "sem" => d = 1 /\ LineAt(s + 1).op \in {"V", "P"}
    /\ at[p] = "call" => d = 1 /\ LineAt(s + 1).op = "call"
    /\ at[p] = "last" => d = 3 /\ IsEnd(LineAt(s + 2)) /\ head[p] = s + 3 /\ via[p] = <<>>
    /\ at[p] = "end" => d = 3 /\ \E l \in Label : via[p] = <<l>> /\ Leads(l, s + 2, head[p])

Undoing(p, s, v, d) ==
    /\ Len(exmap[p]) > pc[p] /\ Forwards(exmap[p][pc[p] + 1], s, 3)
    /\ Backwards(insts[p], s, 3 - d)
    /\ d > 0 => head[p] = s + d
    /\ at[p] = "first" => d = 3
    /\ at[p] = "rest" => d \in {1, 2}
    /\ at[p] = "sem" => d = 2 /\ LineAt(s + 1).op \in {"V", "P"}
    /\ at[p] = "call" => d = 2 /\ LineAt(s + 1).op = "call"
    /\ at[p] = "last" => d = 0 /\ LineAt(s).op = "begin" /\ head[p] = s /\ via[p] = <<>>
    /\ at[p] = "end" => d = 0 /\ LineAt(s).op # "begin" /\ head[p] = ExitOf(p, pc[p]) + 1 /\ via[p] = v

Within(p, s, v, d) ==
    /\ EnteredBy(p, pc[p] + 1, s, v)
    /\ pc[p] < MaxBlocks /\ Len(was[p]) > pc[p]
    /\ LET found == was[p][pc[p] + 1]
       IN  /\ Fits(found[1], s)
           /\ stackdepth[p] = Stack(found[1], s, d)
           /\ trail[p] = IF d = 0 THEN found[2] ELSE Trail(found[2], s, v)
    /\ IF rev THEN Undoing(p, s, v, d) ELSE Doing(p, s, v, d)

OnItsWay(p) ==
    /\ Past(p)
    /\ IF InBlock(p)
       THEN \E s \in Starts, v \in Ways, d \in 0..3 : Within(p, s, v, d)
       ELSE Resting(p)

-----------------------------------------------------------------------------
(* Calls and children                                                      *)

Kids(p, k) == IF <<p, k>> \in DOMAIN callpids THEN ToSet(callpids[<<p, k>>]) ELSE {}

\* The call in the block after k others of p is executed and not undone.
CallDone(p, k) ==
    \/ k < pc[p] /\ LineAt(exmap[p][k + 1][2]).op = "call"
    \/ /\ k = pc[p] /\ InBlock(p)
       /\ IF rev THEN Len(insts[p]) < 2 /\ LineAt(exmap[p][k + 1][2]).op = "call"
                 ELSE Len(insts[p]) >= 2 /\ LineAt(insts[p][2]).op = "call"

Calling(p, k) == at[p] = "call" /\ k = pc[p]

Done(q) == at[q] = "stopped" => IF rev THEN AtBegin(q) ELSE AtEnd(q)

Born == \A p \in Pid : at[p] = "none" <=> p >= npcs

\* The children of the call in the block after k others of p.
Linked(p, k) ==
    /\ \A q \in Kids(p, k) : p < q /\ q < npcs
    /\ CallDone(p, k) \/ Calling(p, k) => <<p, k>> \in DOMAIN callpids
    /\ \A q \in Kids(p, k) :
          IF Calling(p, k) THEN Done(q)
          ELSE at[q] = "stopped" /\ IF CallDone(p, k) THEN AtEnd(q) ELSE AtBegin(q)

Apart ==
    \A p, a \in Pid, k, b \in 0..MaxBlocks :
        Kids(p, k) \cap Kids(a, b) # {} => p = a /\ k = b

Called == \A q \in Pid \ {0} : Active(q) => \E p \in Pid : at[p] = "call" /\ q \in Kids(p, pc[p])

Family == Born /\ (\A p \in Pid, k \in 0..MaxBlocks : Linked(p, k)) /\ Apart /\ Called /\ Done(0)

Ind == WellBuilt /\ err = "none" /\ Typed /\ (\A p \in Pid : OnItsWay(p)) /\ Family

-----------------------------------------------------------------------------
(* Sequences                                                               *)

LEMMA EndOfSequence ==
  ASSUME NEW S, NEW x \in Seq(S), x # <<>>
  PROVE  Front(x) \in Seq(S) /\ Last(x) \in S /\ Append(Front(x), Last(x)) = x
<1>1. Len(x) \in Nat \ {0} /\ DOMAIN x = 1..Len(x)
  OBVIOUS
<1>2. /\ Front(x) \in Seq(S) /\ Len(Front(x)) = Len(x) - 1
      /\ \A i \in 1..(Len(x) - 1) : Front(x)[i] = x[i]
  BY <1>1 DEF Front
<1>3. Last(x) \in S
  BY <1>1 DEF Last
<1>4. Append(Front(x), Last(x)) = x
  <2>1. x \in Seq(S) /\ x[Len(x)] = Last(x) /\ Append(Front(x), Last(x)) \in Seq(S)
    BY <1>2, <1>3 DEF Last
  <2>2. Len(Append(Front(x), Last(x))) = Len(x)
    <3>1. Len(Append(Front(x), Last(x))) = Len(Front(x)) + 1
      BY <1>2, <1>3
    <3>2. QED BY <1>1, <1>2, <3>1
  <2>3. \A i \in 1..Len(x) : Append(Front(x), Last(x))[i] = x[i]
    BY <1>1, <1>2, <1>3, <2>1
  <2>4. QED BY <2>1, <2>2, <2>3
<1>5. QED BY <1>2, <1>3, <1>4

LEMMA OneMore ==
  ASSUME NEW S, NEW x \in Seq(S), NEW e \in S
  PROVE  x \o <<e>> = Append(x, e)
OBVIOUS

LEMMA EndOfAppend ==
  ASSUME NEW S, NEW x \in Seq(S), NEW e \in S
  PROVE  /\ Append(x, e) \in Seq(S) /\ Append(x, e) # <<>>
         /\ Front(Append(x, e)) = x /\ Last(Append(x, e)) = e
<1>1. /\ Append(x, e) \in Seq(S) /\ Len(Append(x, e)) = Len(x) + 1 /\ Len(x) \in Nat
      /\ Append(x, e)[Len(x) + 1] = e /\ \A i \in 1..Len(x) : Append(x, e)[i] = x[i]
  OBVIOUS
<1>2. Append(x, e) # <<>> /\ Last(Append(x, e)) = e
  BY <1>1 DEF Last
<1>3. Front(Append(x, e)) = x
  <2>1. Front(Append(x, e)) \in Seq(S) /\ Len(Front(Append(x, e))) = Len(x)
    BY <1>1 DEF Front
  <2>2. \A i \in 1..Len(x) : Front(Append(x, e))[i] = x[i]
    BY <1>1 DEF Front
  <2>3. QED BY <2>1, <2>2
<1>4. QED BY <1>1, <1>2, <1>3

-----------------------------------------------------------------------------
(* Lines                                                                   *)

LEMMA Threes ==
  ASSUME NEW n \in Nat, n % 3 = 0, NEW s \in 0..(n - 1), s % 3 = 0
  PROVE  s \in Nat /\ (s + 1) % 3 = 1 /\ (s + 2) % 3 = 2 /\ (s + 3) % 3 = 0 /\ s + 2 < n
OBVIOUS

LEMMA LineFacts ==
  ASSUME WellBuilt, NEW i \in Lines
  PROVE  /\ i \in Nat /\ LineAt(i).arg \in Seq(ToSet(LineAt(i).arg)) /\ LineAt(i).scope \in Seq(Nat)
         /\ i % 3 = 0 => LineAt(i).op \in {"begin", "come", "join"}
         /\ i % 3 = 1 => LineAt(i).op \in Middles
         /\ i % 3 = 2 => LineAt(i).op \in {"end", "goto", "branch"}
<1>1. Len(file.f) \in Nat
  BY DEF WellBuilt, InThrees
<1>2. i \in Nat
  BY <1>1 DEF Lines
<1>3. QED BY <1>2 DEF WellBuilt, InThrees, IsEntry, Ends, IsExit, IsEnd

LEMMA BlockFacts ==
  ASSUME WellBuilt, NEW s \in Starts
  PROVE  /\ s \in Nat /\ s % 3 = 0 /\ s \in Lines /\ s + 1 \in Lines /\ s + 2 \in Lines
         /\ LineAt(s).op \in {"begin", "come", "join"}
         /\ LineAt(s + 1).op \in Middles
         /\ LineAt(s + 2).op \in {"end", "goto", "branch"}
<1>1. Len(file.f) \in Nat /\ Len(file.f) % 3 = 0
  <2>1. Len(file.f) \in Nat
    BY DEF WellBuilt, InThrees
  <2>2. Len(file.f) % 3 = 0
    BY Zenon DEF WellBuilt, InThrees
  <2>3. QED BY <2>1, <2>2
<1>2. s \in 0..(Len(file.f) - 1) /\ s % 3 = 0
  BY DEF Starts, Lines
<1>3. s \in Nat /\ (s + 1) % 3 = 1 /\ (s + 2) % 3 = 2 /\ s + 2 < Len(file.f)
  BY <1>1, <1>2, Threes
<1>4. s \in Lines /\ s + 1 \in Lines /\ s + 2 \in Lines
  BY <1>1, <1>3 DEF Lines
<1>5. QED BY <1>2, <1>3, <1>4, LineFacts

LEMMA LeadsFacts ==
  ASSUME WellBuilt, NEW l, NEW i, NEW j, Leads(l, i, j)
  PROVE  /\ l \in Label /\ i \in Lines /\ j \in Starts /\ i % 3 = 2
         /\ LineAt(i).op \in {"goto", "branch"} /\ LineAt(j).op \in {"come", "join"}
         /\ LineAt(i).scope = LineAt(j).scope
         /\ file.gotomap[l] = i /\ file.comemap[l] = j
         /\ l \in ToSet(LineAt(j).arg)
<1>1. /\ l \in Label /\ i \in Lines /\ j \in Lines
      /\ LineAt(i).op \in {"goto", "branch"} /\ LineAt(j).op \in {"come", "join"}
      /\ LineAt(i).scope = LineAt(j).scope
      /\ file.gotomap[l] = i /\ file.comemap[l] = j
      /\ l \in ToSet(LineAt(j).arg)
  BY DEF Leads, Label, IsExit, IsEntry
<1>2. i \in Nat /\ j \in Nat /\ i % 3 \in 0..2 /\ j % 3 \in 0..2
  <2>1. i \in Nat /\ j \in Nat
    BY <1>1, LineFacts
  <2>2. QED BY <2>1
<1>3. i % 3 # 0 /\ i % 3 # 1 /\ j % 3 # 1 /\ j % 3 # 2
  BY <1>1, LineFacts DEF Middles, Instructions
<1>4. i % 3 = 2 /\ j % 3 = 0
  BY <1>2, <1>3
<1>5. QED BY <1>1, <1>4 DEF Starts

LEMMA ScopeFacts ==
  ASSUME WellBuilt, NEW i \in Lines
  PROVE  /\ LineAt(i).op \in {"indent", "unindent"} => LineAt(i).arg[1] \in Nat
         /\ LineAt(i).op \in {"begin", "end"} /\ ~IsBranch(LineAt(i).arg) => LineAt(i).scope = <<>>
         /\ LineAt(i).op = "end" /\ i + 1 \in Lines => LineAt(i + 1).op = "begin"
         /\ i + 1 \in Lines /\ LineAt(i).op # "end" =>
               /\ LineAt(i).op = "indent" =>
                     LineAt(i + 1).scope = Append(LineAt(i).scope, LineAt(i).arg[1])
               /\ LineAt(i).op = "unindent" =>
                     LineAt(i).scope = Append(LineAt(i + 1).scope, LineAt(i).arg[1])
               /\ LineAt(i).op \notin {"indent", "unindent"} => LineAt(i + 1).scope = LineAt(i).scope
<1>1. ScopesFit /\ InThrees
  BY DEF WellBuilt
<1>2. LineAt(i).op \in {"indent", "unindent"} => LineAt(i).arg[1] \in Nat
  BY <1>1 DEF ScopesFit
<1>3. LineAt(i).op \in {"begin", "end"} /\ ~IsBranch(LineAt(i).arg) => LineAt(i).scope = <<>>
  BY <1>1 DEF ScopesFit
<1>4. LineAt(i).op = "end" /\ i + 1 \in Lines => LineAt(i + 1).op = "begin"
  BY <1>1 DEF InThrees, IsEnd
<1>5. ASSUME i + 1 \in Lines, LineAt(i).op # "end"
      PROVE  /\ LineAt(i).op = "indent" =>
                   LineAt(i + 1).scope = Append(LineAt(i).scope, LineAt(i).arg[1])
             /\ LineAt(i).op = "unindent" =>
                   LineAt(i).scope = Append(LineAt(i + 1).scope, LineAt(i).arg[1])
             /\ LineAt(i).op \notin {"indent", "unindent"} => LineAt(i + 1).scope = LineAt(i).scope
  BY <1>1, <1>5 DEF ScopesFit, IsEnd
<1>6. QED BY <1>2, <1>3, <1>4, <1>5

-----------------------------------------------------------------------------
(* Stacks                                                                  *)

\* What stands on the stack that fits.
LEMMA FitsFacts ==
  ASSUME WellBuilt, NEW i \in Lines, NEW x \in Stacks, Fits(x, i)
  PROVE  \/ LineAt(i).op = "begin" /\ ~IsBranch(LineAt(i).arg)
         \/ /\ x # <<>> /\ Last(x) = LineAt(i).scope /\ LineAt(i).scope \in Seq(Nat)
            /\ Front(x) \in Stacks /\ Append(Front(x), Last(x)) = x
<1>1. LineAt(i).scope \in Seq(Nat)
  BY LineFacts
<1>2. x # <<>> => Front(x) \in Stacks /\ Append(Front(x), Last(x)) = x
  BY EndOfSequence DEF Stacks
<1>3. QED BY <1>1, <1>2 DEF Fits

\* Blocks of the source open and close, and lines of other kinds keep the
\* stack; all this can be taken back.
LEMMA AheadAndBack ==
  ASSUME WellBuilt, NEW i \in Lines, NEW x \in Stacks, Fits(x, i),
         i % 3 = 1 => i + 1 \in Lines
  PROVE  /\ Ahead(x, i) \in Stacks
         /\ LineAt(i).op = "begin" =>
               Ahead(x, i) = Enter(LineAt(i).arg, x) /\ Exit(LineAt(i).arg, Ahead(x, i)) = x
         /\ LineAt(i).op = "end" =>
               Ahead(x, i) = Exit(LineAt(i).arg, x) /\ Enter(LineAt(i).arg, Ahead(x, i)) = x
         /\ LineAt(i).op = "indent" =>
               /\ Ahead(x, i) = Append(Front(x), Append(Last(x), LineAt(i).arg[1]))
               /\ Last(Ahead(x, i)) # <<>> /\ Last(Last(Ahead(x, i))) = LineAt(i).arg[1]
               /\ Append(Front(Ahead(x, i)), Front(Last(Ahead(x, i)))) = x
         /\ LineAt(i).op = "unindent" =>
               /\ Last(x) # <<>> /\ Last(Last(x)) = LineAt(i).arg[1]
               /\ Ahead(x, i) = Append(Front(x), Front(Last(x)))
               /\ Append(Front(Ahead(x, i)), Append(Last(Ahead(x, i)), LineAt(i).arg[1])) = x
         /\ LineAt(i).op \notin {"begin", "end", "indent", "unindent"} => Ahead(x, i) = x
<1>1. LineAt(i).scope \in Seq(Nat) /\ i % 3 \in 0..2
  <2>1. i \in Nat
    BY LineFacts
  <2>2. QED BY <2>1, LineFacts
<1>2. CASE LineAt(i).op = "begin"
  <2>1. Ahead(x, i) = Enter(LineAt(i).arg, x)
    BY <1>2 DEF Ahead
  <2>2. CASE IsBranch(LineAt(i).arg)
    BY <1>2, <2>1, <2>2 DEF Enter, Exit
  <2>3. CASE ~IsBranch(LineAt(i).arg)
    <3>1. Ahead(x, i) = Append(x, <<>>) /\ <<>> \in Seq(Nat)
      BY <2>1, <2>3 DEF Enter
    <3>2. Append(x, <<>>) \in Stacks /\ Front(Append(x, <<>>)) = x
      BY <3>1, EndOfAppend DEF Stacks
    <3>3. QED BY <1>2, <2>1, <2>3, <3>1, <3>2 DEF Exit
  <2>4. QED BY <2>2, <2>3
<1>3. CASE LineAt(i).op # "begin"
  <2>1. /\ x # <<>> /\ Last(x) = LineAt(i).scope
        /\ Front(x) \in Stacks /\ Append(Front(x), Last(x)) = x
    BY <1>3, FitsFacts
  <2>2. CASE LineAt(i).op = "end"
    <3>1. Ahead(x, i) = Exit(LineAt(i).arg, x)
      BY <2>2 DEF Ahead
    <3>2. ~IsBranch(LineAt(i).arg) => Last(x) = <<>>
      BY <2>1, <2>2, ScopeFacts
    <3>3. QED BY <2>1, <2>2, <3>1, <3>2 DEF Exit, Enter
  <2>3. CASE LineAt(i).op = "indent"
    <3> DEFINE n == LineAt(i).arg[1]
               top == Append(Last(x), n)
    <3>1. n \in Nat /\ Last(x) \in Seq(Nat)
      BY <1>1, <2>1, <2>3, ScopeFacts
    <3>2. top \in Seq(Nat) /\ top # <<>> /\ Front(top) = Last(x) /\ Last(top) = n
      BY <3>1, EndOfAppend
    <3>3. Ahead(x, i) = Append(Front(x), top)
      BY <2>3 DEF Ahead
    <3> HIDE DEF top, n
    <3>4. Ahead(x, i) \in Stacks /\ Last(Ahead(x, i)) = top /\ Front(Ahead(x, i)) = Front(x)
      BY <2>1, <3>2, <3>3, EndOfAppend DEF Stacks
    <3>5. QED BY <2>1, <2>3, <3>2, <3>3, <3>4 DEF top, n
  <2>4. CASE LineAt(i).op = "unindent"
    <3> DEFINE n == LineAt(i).arg[1]
    <3>1. i + 1 \in Lines
      <4>1. i % 3 = 1
        BY <1>1, <2>4, LineFacts
      <4>2. QED BY <4>1
    <3>2. n \in Nat /\ LineAt(i + 1).scope \in Seq(Nat)
      BY <2>4, <3>1, ScopeFacts, LineFacts
    <3>3. Last(x) = Append(LineAt(i + 1).scope, n)
      BY <2>1, <2>4, <3>1, ScopeFacts
    <3>4. /\ Last(x) # <<>> /\ Last(x) \in Seq(Nat) /\ Last(Last(x)) = n
          /\ Front(Last(x)) \in Seq(Nat) /\ Append(Front(Last(x)), n) = Last(x)
      BY <3>2, <3>3, EndOfAppend
    <3>5. Ahead(x, i) = Append(Front(x), Front(Last(x)))
      BY <2>4 DEF Ahead
    <3> HIDE DEF n
    <3>6. /\ Ahead(x, i) \in Stacks /\ Last(Ahead(x, i)) = Front(Last(x))
          /\ Front(Ahead(x, i)) = Front(x)
      BY <2>1, <3>4, <3>5, EndOfAppend DEF Stacks
    <3>7. QED BY <2>1, <2>4, <3>4, <3>5, <3>6 DEF n
  <2>5. CASE LineAt(i).op \notin {"end", "indent", "unindent"}
    <3>1. Ahead(x, i) = x
      BY <1>3, <2>5 DEF Ahead
    <3>2. QED BY <1>3, <2>5, <3>1
  <2>6. QED BY <2>2, <2>3, <2>4, <2>5
<1>4. QED BY <1>2, <1>3

\* After a line the stack is that of the next one, and after a jump that of
\* the line to which it leads.
LEMMA Onward ==
  ASSUME WellBuilt, NEW i \in Lines, NEW x \in Stacks, Fits(x, i),
         i % 3 = 1 => i + 1 \in Lines
  PROVE  /\ i + 1 \in Lines /\ LineAt(i).op # "end" =>
               Ahead(x, i) # <<>> /\ Last(Ahead(x, i)) = LineAt(i + 1).scope
         /\ \A l, j : Leads(l, i, j) => Fits(Ahead(x, i), j)
<1>1. /\ i % 3 \in 0..2 /\ LineAt(i).scope \in Seq(Nat)
  <2>1. i \in Nat
    BY LineFacts
  <2>2. QED BY <2>1, LineFacts
<1>2. ASSUME i + 1 \in Lines, LineAt(i).op # "end"
      PROVE  Ahead(x, i) # <<>> /\ Last(Ahead(x, i)) = LineAt(i + 1).scope
  <2>1. CASE LineAt(i).op = "begin"
    <3>1. LineAt(i + 1).scope = LineAt(i).scope
      BY <1>2, <2>1, ScopeFacts
    <3>2. Ahead(x, i) = Enter(LineAt(i).arg, x)
      BY <2>1, AheadAndBack
    <3>3. CASE IsBranch(LineAt(i).arg)
      BY <3>1, <3>2, <3>3, FitsFacts DEF Enter
    <3>4. CASE ~IsBranch(LineAt(i).arg)
      <4>1. Ahead(x, i) = Append(x, <<>>) /\ <<>> \in Seq(Nat)
        BY <3>2, <3>4 DEF Enter
      <4>2. Append(x, <<>>) # <<>> /\ Last(Append(x, <<>>)) = <<>>
        BY <4>1, EndOfAppend DEF Stacks
      <4>3. LineAt(i).scope = <<>>
        BY <2>1, <3>4, ScopeFacts
      <4>4. QED BY <3>1, <4>1, <4>2, <4>3
    <3>5. QED BY <3>3, <3>4
  <2>2. CASE LineAt(i).op # "begin"
    <3>1. /\ x # <<>> /\ Last(x) = LineAt(i).scope
          /\ Front(x) \in Stacks /\ Append(Front(x), Last(x)) = x
      BY <2>2, FitsFacts
    <3>2. CASE LineAt(i).op = "indent"
      <4> DEFINE top == Append(Last(x), LineAt(i).arg[1])
      <4>1. top \in Seq(Nat)
        BY <1>1, <3>1, <3>2, ScopeFacts
      <4>2. Ahead(x, i) = Append(Front(x), top) /\ LineAt(i + 1).scope = top
        BY <1>2, <3>1, <3>2, ScopeFacts, AheadAndBack
      <4> HIDE DEF top
      <4>3. QED BY <3>1, <4>1, <4>2, EndOfAppend DEF Stacks
    <3>3. CASE LineAt(i).op = "unindent"
      <4> DEFINE n == LineAt(i).arg[1]
      <4>1. n \in Nat /\ LineAt(i + 1).scope \in Seq(Nat)
        BY <1>2, <3>3, ScopeFacts, LineFacts
      <4>2. Last(x) = Append(LineAt(i + 1).scope, n)
        BY <1>2, <3>1, <3>3, ScopeFacts
      <4>3. Front(Last(x)) = LineAt(i + 1).scope
        BY <4>1, <4>2, EndOfAppend
      <4>4. Ahead(x, i) = Append(Front(x), LineAt(i + 1).scope)
        BY <3>3, <4>3, AheadAndBack
      <4>5. /\ Append(Front(x), LineAt(i + 1).scope) # <<>>
            /\ Last(Append(Front(x), LineAt(i + 1).scope)) = LineAt(i + 1).scope
        BY <3>1, <4>1, EndOfAppend DEF Stacks
      <4>6. QED BY <4>4, <4>5
    <3>4. CASE LineAt(i).op \notin {"indent", "unindent"}
      BY <1>2, <2>2, <3>1, <3>4, ScopeFacts, AheadAndBack
    <3>5. QED BY <3>2, <3>3, <3>4
  <2>3. QED BY <2>1, <2>2
<1>3. ASSUME NEW l, NEW j, Leads(l, i, j)
      PROVE  Fits(Ahead(x, i), j)
  <2>1. LineAt(i).op \in {"goto", "branch"} /\ LineAt(i).scope = LineAt(j).scope
    BY <1>3, LeadsFacts
  <2>2. Ahead(x, i) = x
    BY <2>1, AheadAndBack
  <2>3. x # <<>> /\ Last(x) = LineAt(i).scope
    BY <2>1, FitsFacts
  <2>4. QED BY <2>1, <2>2, <2>3 DEF Fits
<1>4. QED BY <1>2, <1>3

\* The stack on the way through a block.
LEMMA StackInBlock ==
  ASSUME WellBuilt, NEW s \in Starts, NEW x \in Stacks, Fits(x, s)
  PROVE  /\ Stack(x, s, 0) = x /\ \A d \in 0..2 : Stack(x, s, d + 1) = Ahead(Stack(x, s, d), s + d)
         /\ \A d \in 0..3 : Stack(x, s, d) \in Stacks
         /\ \A d \in 0..2 : Fits(Stack(x, s, d), s + d)
         /\ \A d \in 1..2 : Last(Stack(x, s, d)) = LineAt(s + d).scope
         /\ \A l, j : Leads(l, s + 2, j) => Fits(Stack(x, s, 3), j)
         /\ s + 3 \in Lines /\ LineAt(s + 2).op # "end" =>
               Last(Stack(x, s, 3)) = LineAt(s + 3).scope
<1>1. /\ s \in Nat /\ s % 3 = 0 /\ s \in Lines /\ s + 1 \in Lines /\ s + 2 \in Lines
      /\ LineAt(s).op # "end" /\ LineAt(s + 1).op # "end"
  BY BlockFacts DEF Middles, Instructions
<1>2. /\ Stack(x, s, 0) = x /\ Stack(x, s, 1) = Ahead(x, s)
      /\ Stack(x, s, 2) = Ahead(Stack(x, s, 1), s + 1)
      /\ Stack(x, s, 3) = Ahead(Stack(x, s, 2), s + 2)
  BY DEF Stack
<1>3. s % 3 # 1 /\ (s + 2) % 3 # 1 /\ s + 1 + 1 = s + 2 /\ s + 2 + 1 = s + 3
  BY <1>1
<1>4. /\ Stack(x, s, 1) \in Stacks /\ Fits(Stack(x, s, 1), s + 1)
      /\ Last(Stack(x, s, 1)) = LineAt(s + 1).scope
  BY <1>1, <1>2, <1>3, AheadAndBack, Onward DEF Fits
<1>5. /\ Stack(x, s, 2) \in Stacks /\ Fits(Stack(x, s, 2), s + 2)
      /\ Last(Stack(x, s, 2)) = LineAt(s + 2).scope
  <2>1. Stack(x, s, 2) \in Stacks
    BY <1>1, <1>2, <1>3, <1>4, AheadAndBack
  <2>2. Stack(x, s, 2) # <<>> /\ Last(Stack(x, s, 2)) = LineAt(s + 1 + 1).scope
    BY <1>1, <1>2, <1>3, <1>4, Onward
  <2>3. QED BY <1>3, <2>1, <2>2 DEF Fits
<1>6. /\ Stack(x, s, 3) \in Stacks
      /\ \A l, j : Leads(l, s + 2, j) => Fits(Stack(x, s, 3), j)
  BY <1>1, <1>2, <1>3, <1>5, AheadAndBack, Onward
<1>7. s + 3 \in Lines /\ LineAt(s + 2).op # "end" => Last(Stack(x, s, 3)) = LineAt(s + 3).scope
  <2>1. s + 2 + 1 \in Lines /\ LineAt(s + 2).op # "end" =>
            Last(Stack(x, s, 3)) = LineAt(s + 2 + 1).scope
    BY <1>1, <1>2, <1>3, <1>5, Onward
  <2>2. QED BY <1>3, <2>1
<1>8. \A d \in 0..2 : Stack(x, s, d + 1) = Ahead(Stack(x, s, d), s + d)
  <2>1. SUFFICES ASSUME NEW d \in {0, 1, 2} PROVE Stack(x, s, d + 1) = Ahead(Stack(x, s, d), s + d)
    OBVIOUS
  <2>2. CASE d = 0
    BY <1>1, <1>2, <2>2
  <2>3. CASE d = 1
    BY <1>1, <1>2, <2>3
  <2>4. CASE d = 2
    BY <1>1, <1>2, <2>4
  <2>5. QED BY <2>1, <2>2, <2>3, <2>4
<1>9. \A d \in 0..3 : Stack(x, s, d) \in Stacks
  <2>1. \A d \in {0, 1, 2, 3} : Stack(x, s, d) \in Stacks
    BY <1>2, <1>4, <1>5, <1>6
  <2>2. QED BY <2>1
<1>10. \A d \in 0..2 : Fits(Stack(x, s, d), s + d)
  <2>1. SUFFICES ASSUME NEW d \in {0, 1, 2} PROVE Fits(Stack(x, s, d), s + d)
    OBVIOUS
  <2>2. CASE d = 0
    BY <1>1, <1>2, <2>2
  <2>3. CASE d = 1
    BY <1>4, <2>3
  <2>4. CASE d = 2
    BY <1>5, <2>4
  <2>5. QED BY <2>1, <2>2, <2>3, <2>4
<1>11. \A d \in 1..2 : Last(Stack(x, s, d)) = LineAt(s + d).scope
  <2>1. SUFFICES ASSUME NEW d \in {1, 2} PROVE Last(Stack(x, s, d)) = LineAt(s + d).scope
    OBVIOUS
  <2>2. QED BY <1>4, <1>5
<1>12. QED BY <1>2, <1>6, <1>7, <1>8, <1>9, <1>10, <1>11

-----------------------------------------------------------------------------
(* What a step leaves alone                                                *)

\* Nothing of q changes.
Stays(q) ==
    /\ file' = file /\ rev' = rev
    /\ head'[q] = head[q] /\ pc'[q] = pc[q] /\ stackdepth'[q] = stackdepth[q] /\ at'[q] = at[q]
    /\ insts'[q] = insts[q] /\ via'[q] = via[q] /\ trail'[q] = trail[q]
    /\ exmap'[q] = exmap[q] /\ was'[q] = was[q]

LEMMA FileStays ==
  ASSUME file' = file
  PROVE  /\ Lines' = Lines /\ Starts' = Starts /\ Label' = Label /\ Ways' = Ways /\ WellBuilt' = WellBuilt
         /\ \A i : LineAt(i)' = LineAt(i)
         /\ \A l, i, j : Leads(l, i, j)' = Leads(l, i, j)
         /\ \A x, i : Fits(x, i)' = Fits(x, i)
         /\ \A x, s, d : Stack(x, s, d)' = Stack(x, s, d)
         /\ \A x, s, v : Trail(x, s, v)' = Trail(x, s, v)
<1>1. Lines' = Lines /\ \A i : LineAt(i)' = LineAt(i)
  BY DEF Lines, LineAt
<1>2. Starts' = Starts /\ Label' = Label /\ Ways' = Ways
  BY <1>1 DEF Starts, Label, Ways
<1>3. \A l, i, j : Leads(l, i, j)' = Leads(l, i, j)
  BY <1>1 DEF Leads, LineAt, Lines
<1>4. \A x, i : Fits(x, i)' = Fits(x, i)
  BY DEF Fits, LineAt
<1>5. \A x, s, d : Stack(x, s, d)' = Stack(x, s, d)
  BY DEF Stack, Ahead, LineAt
<1>6. \A x, s, v : Trail(x, s, v)' = Trail(x, s, v)
  BY DEF Trail, LineAt
<1>7. WellBuilt' = WellBuilt
  BY DEF WellBuilt, InThrees, JumpsMeet, ScopesFit, CallsArrive, Begins, Leads, LineAt, Lines
<1>8. QED BY <1>1, <1>2, <1>3, <1>4, <1>5, <1>6, <1>7

LEMMA ProcessStays ==
  ASSUME NEW q, Stays(q)
  PROVE  /\ OnItsWay(q)' = OnItsWay(q) /\ AtBegin(q)' = AtBegin(q) /\ AtEnd(q)' = AtEnd(q)
         /\ Done(q)' = Done(q) /\ Active(q)' = Active(q)
         /\ \A k : CallDone(q, k)' = CallDone(q, k)
         /\ \A k : Calling(q, k)' = Calling(q, k)
<1>1. file' = file
  BY DEF Stays
<1>2. \A j : ExitOf(q, j)' = ExitOf(q, j)
  BY DEF ExitOf, Stays
<1>3. \A j, s, v : EnteredBy(q, j, s, v)' = EnteredBy(q, j, s, v)
  BY <1>1, <1>2, FileStays DEF EnteredBy
<1>4. \A j : Passed(q, j)' = Passed(q, j)
  BY <1>1, <1>3, FileStays DEF Passed, Found, InBlock, Stays
<1>5. Past(q)' = Past(q)
  BY <1>4 DEF Past, Stays
<1>6. Before(q)' = Before(q)
  BY <1>1, <1>3, FileStays DEF Before, Stays
<1>7. Behind(q)' = Behind(q)
  BY <1>1, <1>2, FileStays DEF Behind, Stays, IsEnd
<1>8. AtBegin(q)' = AtBegin(q) /\ AtEnd(q)' = AtEnd(q)
  BY <1>1, <1>2, <1>6, <1>7, FileStays DEF AtBegin, AtEnd, Stays, IsEnd
<1>9. Resting(q)' = Resting(q)
  BY <1>6, <1>7, <1>8 DEF Resting, Stays
<1>10. \A s, v, d : Within(q, s, v, d)' = Within(q, s, v, d)
  <2>1. \A s, v, d : Doing(q, s, v, d)' = Doing(q, s, v, d)
    BY <1>1, FileStays DEF Doing, Stays, Forwards, IsEnd
  <2>2. \A s, v, d : Undoing(q, s, v, d)' = Undoing(q, s, v, d)
    BY <1>1, <1>2, FileStays DEF Undoing, Stays, Forwards, Backwards
  <2>3. QED BY <1>1, <1>3, <2>1, <2>2, FileStays DEF Within, Stays
<1>11. OnItsWay(q)' = OnItsWay(q)
  BY <1>1, <1>5, <1>9, <1>10, FileStays DEF OnItsWay, InBlock, Stays
<1>12. Done(q)' = Done(q) /\ Active(q)' = Active(q)
  BY <1>8 DEF Done, Active, Stays
<1>13. /\ \A k : CallDone(q, k)' = CallDone(q, k)
       /\ \A k : Calling(q, k)' = Calling(q, k)
  BY <1>1, FileStays DEF CallDone, Calling, InBlock, Stays
<1>14. QED BY <1>8, <1>11, <1>12, <1>13

-----------------------------------------------------------------------------
(* Lines executed and undone                                               *)

LEMMA NextLine ==
  ASSUME NEW s \in Int, NEW x \in Seq(Int)
  PROVE  /\ \A n \in Nat : Forwards(x, s, n) => Forwards(Append(x, s + n), s, n + 1)
         /\ \A n \in Nat : Backwards(x, s, n) => Backwards(Append(x, s + 2 - n), s, n + 1)
         /\ \A y \in Seq(Int) : Forwards(y, s, 3) /\ Backwards(x, s, 3) => Reverse(x) = y
<1>1. ASSUME NEW n \in Nat, Forwards(x, s, n)
      PROVE  Forwards(Append(x, s + n), s, n + 1)
  BY <1>1 DEF Forwards
<1>2. ASSUME NEW n \in Nat, Backwards(x, s, n)
      PROVE  Backwards(Append(x, s + 2 - n), s, n + 1)
  BY <1>2 DEF Backwards
<1>3. ASSUME NEW y \in Seq(Int), Forwards(y, s, 3), Backwards(x, s, 3)
      PROVE  Reverse(x) = y
  <2>1. Reverse(x) = [i \in 1..3 |-> x[(3 - i) + 1]]
    BY <1>3 DEF Reverse, Backwards
  <2>2. \A i \in 1..3 : x[(3 - i) + 1] = y[i]
    BY <1>3 DEF Forwards, Backwards
  <2>3. y = [i \in 1..3 |-> y[i]]
    BY <1>3 DEF Forwards
  <2>4. QED BY <2>1, <2>2, <2>3
<1>4. QED BY <1>1, <1>2, <1>3

LEMMA PastStays ==
  ASSUME NEW p, file' = file, pc'[p] = pc[p], exmap'[p] = exmap[p], was'[p] = was[p],
         InBlock(p), InBlock(p)'
  PROVE  Past(p)' = Past(p) /\ \A j, s, v : EnteredBy(p, j, s, v)' = EnteredBy(p, j, s, v)
<1>1. \A j : ExitOf(p, j)' = ExitOf(p, j)
  BY DEF ExitOf
<1>2. \A j, s, v : EnteredBy(p, j, s, v)' = EnteredBy(p, j, s, v)
  BY <1>1, FileStays DEF EnteredBy
<1>3. \A j : Found(p, j)' = Found(p, j)
  BY DEF Found
<1>4. \A j : Passed(p, j)' = Passed(p, j)
  BY <1>2, <1>3, FileStays DEF Passed
<1>5. QED BY <1>2, <1>4 DEF Past

\* What a process in the middle of a block has found.
LEMMA WithinFacts ==
  ASSUME WellBuilt, Typed, NEW p \in Pid,
         NEW s \in Starts, NEW v \in Ways, NEW d \in 0..3, Within(p, s, v, d)
  PROVE  /\ was[p][pc[p] + 1] \in Stacks \X Seq(Label)
         /\ was[p][pc[p] + 1][1] \in Stacks /\ was[p][pc[p] + 1][2] \in Seq(Label)
         /\ Fits(was[p][pc[p] + 1][1], s)
         /\ stackdepth[p] = Stack(was[p][pc[p] + 1][1], s, d)
<1>1. was[p] \in Seq(Stacks \X Seq(Label)) /\ Len(was[p]) > pc[p] /\ pc[p] \in Nat
  BY DEF Typed, Within
<1>2. was[p][pc[p] + 1] \in Stacks \X Seq(Label)
  BY <1>1
<1>3. QED BY <1>2 DEF Within

\* Line d of the block is executed, or undone.
LineForwards(p, s, v, d) ==
    /\ insts'[p] = Append(insts[p], s + d)
    /\ stackdepth'[p] = Ahead(stackdepth[p], s + d)
    /\ trail'[p] = IF d = 0 THEN Trail(trail[p], s, v) ELSE trail[p]
    /\ \/ d < 2 /\ head'[p] = s + d + 1 /\ at'[p] = "rest"
       \/ /\ d = 2 /\ at'[p] = "last"
          /\ IsEnd(LineAt(s + 2)) /\ head'[p] = s + 3 /\ via'[p] = <<>>
       \/ /\ d = 2 /\ at'[p] = "end"
          /\ \E l \in Label : via'[p] = <<l>> /\ Leads(l, s + 2, head'[p])

LineBackwards(p, s, v, d) ==
    /\ insts'[p] = Append(insts[p], s + d - 1)
    /\ stackdepth'[p] = Stack(was[p][pc[p] + 1][1], s, d - 1)
    /\ trail'[p] = IF d = 1 THEN was[p][pc[p] + 1][2] ELSE trail[p]
    /\ \/ d > 1 /\ head'[p] = s + d - 1 /\ at'[p] = "rest"
       \/ /\ d = 1 /\ at'[p] = "last"
          /\ LineAt(s).op = "begin" /\ head'[p] = s /\ via'[p] = <<>>
       \/ /\ d = 1 /\ at'[p] = "end"
          /\ LineAt(s).op # "begin" /\ head'[p] = ExitOf(p, pc[p]) + 1 /\ via'[p] = v

\* What executeOnce leaves alone.
InSameBlock(p) ==
    file' = file /\ rev' = rev /\ pc'[p] = pc[p] /\ exmap'[p] = exmap[p] /\ was'[p] = was[p]

LEMMA LineDone ==
  ASSUME WellBuilt, Typed, NEW p \in Pid,
         NEW s \in Starts, NEW v \in Ways, NEW d \in 0..2, Within(p, s, v, d),
         Past(p), InBlock(p), ~rev, InSameBlock(p), LineForwards(p, s, v, d)
  PROVE  OnItsWay(p)' /\ InBlock(p)' /\ Within(p, s, v, d + 1)'
<1> USE DEF InSameBlock, LineForwards, LineBackwards
<1>1. InBlock(p)'
  BY DEF InBlock
<1>2. Past(p)' /\ EnteredBy(p, pc[p] + 1, s, v)'
  BY <1>1, PastStays DEF Within
<1>3. d + 1 \in 1..3 /\ s \in Int /\ d + 1 # 0
  BY BlockFacts
<1>4. LET found == was[p][pc[p] + 1]
      IN  /\ Fits(found[1], s)'
          /\ stackdepth'[p] = Stack(found[1], s, d + 1)'
          /\ trail'[p] = Trail(found[2], s, v)'
  <2> DEFINE found == was[p][pc[p] + 1]
  <2>1. Fits(found[1], s) /\ stackdepth'[p] = Stack(found[1], s, d + 1)
    BY WithinFacts, StackInBlock
  <2>2. trail'[p] = Trail(found[2], s, v)
    BY <1>3 DEF Within
  <2>3. QED BY <2>1, <2>2, FileStays
<1>5. Doing(p, s, v, d + 1)'
  <2>1. insts[p] \in Seq(Int) /\ Forwards(insts[p], s, d)
    BY DEF Typed, Within, Doing
  <2>2. Forwards(insts'[p], s, d + 1)
    <3>1. d \in Nat /\ s \in Int
      BY <1>3
    <3>2. Forwards(Append(insts[p], s + d), s, d + 1)
      BY <2>1, <3>1, NextLine
    <3>3. QED BY <3>2
  <2>3. CASE d < 2
    BY <1>3, <2>2, <2>3 DEF Doing, Forwards
  <2>4. CASE d = 2
    BY <1>3, <2>2, <2>4, FileStays DEF Doing, Forwards, IsEnd
  <2>5. QED BY <2>3, <2>4
<1>6. Within(p, s, v, d + 1)'
  BY <1>2, <1>3, <1>4, <1>5 DEF Within
<1>7. QED BY <1>1, <1>2, <1>3, <1>6, FileStays DEF OnItsWay

LEMMA LineUndone ==
  ASSUME WellBuilt, Typed, NEW p \in Pid,
         NEW s \in Starts, NEW v \in Ways, NEW d \in 1..3, Within(p, s, v, d),
         Past(p), InBlock(p), rev, InSameBlock(p), LineBackwards(p, s, v, d)
  PROVE  OnItsWay(p)' /\ InBlock(p)' /\ Within(p, s, v, d - 1)'
<1> USE DEF InSameBlock, LineForwards, LineBackwards
<1>1. InBlock(p)'
  BY DEF InBlock
<1>2. Past(p)' /\ EnteredBy(p, pc[p] + 1, s, v)'
  BY <1>1, PastStays DEF Within
<1>3. d - 1 \in 0..2 /\ s \in Int /\ (d - 1 = 0 <=> d = 1)
  BY BlockFacts
<1>4. LET found == was[p][pc[p] + 1]
      IN  /\ Fits(found[1], s)'
          /\ stackdepth'[p] = Stack(found[1], s, d - 1)'
          /\ trail'[p] = (IF d - 1 = 0 THEN found[2] ELSE Trail(found[2], s, v))'
  <2> DEFINE found == was[p][pc[p] + 1]
  <2>1. Fits(found[1], s)
    BY WithinFacts
  <2>2. trail'[p] = IF d - 1 = 0 THEN found[2] ELSE Trail(found[2], s, v)
    BY <1>3 DEF Within
  <2>3. QED BY <2>1, <2>2, FileStays
<1>5. Undoing(p, s, v, d - 1)'
  <2>1. insts[p] \in Seq(Int) /\ Backwards(insts[p], s, 3 - d)
    BY DEF Typed, Within, Undoing
  <2>2. s + 2 - (3 - d) = s + d - 1 /\ (3 - d) + 1 = 3 - (d - 1) /\ 3 - d \in Nat
    BY <1>3
  <2>3. Backwards(insts'[p], s, 3 - (d - 1))
    BY <1>3, <2>1, <2>2, NextLine
  <2>4. Len(exmap[p]) > pc[p] /\ Forwards(exmap[p][pc[p] + 1], s, 3)
    BY DEF Within, Undoing
  <2>5. QED BY <1>3, <2>3, <2>4, FileStays DEF Undoing, Forwards, Backwards, ExitOf
<1>6. Within(p, s, v, d - 1)'
  BY <1>2, <1>3, <1>4, <1>5 DEF Within
<1>7. QED BY <1>1, <1>2, <1>3, <1>6, FileStays DEF OnItsWay

\* Where a process is that has a line to execute.
LEMMA NextForwards ==
  ASSUME WellBuilt, Typed, NEW p \in Pid, ~rev, at[p] \in {"first", "rest", "sem", "call"},
         NEW s \in Starts, NEW v \in Ways, NEW d \in 0..3, Within(p, s, v, d)
  PROVE  /\ d \in 0..2 /\ head[p] = s + d /\ Index(p) = s + d /\ Current(p) = LineAt(s + d)
         /\ s + d \in Lines /\ s \in Nat
         /\ d = 0 => Current(p).op \in {"begin", "come", "join"}
         /\ d = 1 => Current(p).op \in Middles
         /\ d = 2 => Current(p).op \in {"end", "goto", "branch"}
         /\ stackdepth[p] \in Stacks /\ Fits(stackdepth[p], s + d)
<1>1. d \in 0..2 /\ head[p] = s + d
  BY DEF Within, Doing
<1>2. Index(p) = s + d /\ Current(p) = LineAt(s + d)
  BY <1>1 DEF Index, Current
<1>3. stackdepth[p] \in Stacks /\ Fits(stackdepth[p], s + d)
  BY <1>1, WithinFacts, StackInBlock
<1>4. s \in Nat /\ s + 0 = s
  BY BlockFacts
<1>5. CASE d = 0
  BY <1>1, <1>2, <1>3, <1>4, <1>5, BlockFacts
<1>6. CASE d = 1
  BY <1>1, <1>2, <1>3, <1>4, <1>6, BlockFacts
<1>7. CASE d = 2
  BY <1>1, <1>2, <1>3, <1>4, <1>7, BlockFacts
<1>8. QED BY <1>1, <1>5, <1>6, <1>7

LEMMA NextBackwards ==
  ASSUME WellBuilt, Typed, NEW p \in Pid, rev, at[p] \in {"first", "rest", "sem", "call"},
         NEW s \in Starts, NEW v \in Ways, NEW d \in 0..3, Within(p, s, v, d)
  PROVE  /\ d \in 1..3 /\ head[p] = s + d /\ Index(p) = s + d - 1 /\ Current(p) = LineAt(s + d - 1)
         /\ s + d - 1 \in Lines /\ s \in Nat
         /\ d = 1 => Current(p).op \in {"begin", "come", "join"}
         /\ d = 2 => Current(p).op \in Middles
         /\ d = 3 => Current(p).op \in {"end", "goto", "branch"}
<1>1. d \in 1..3 /\ head[p] = s + d
  BY DEF Within, Undoing
<1>2. Index(p) = s + d - 1 /\ Current(p) = LineAt(s + d - 1)
  <2>1. Index(p) = head[p] - 1
    BY DEF Index
  <2>2. Index(p) = s + d - 1
    BY <1>1, <2>1, BlockFacts
  <2>3. QED BY <2>2 DEF Current
<1>3. s \in Nat /\ s + 1 - 1 = s /\ s + 2 - 1 = s + 1 /\ s + 3 - 1 = s + 2
  BY BlockFacts
<1>4. CASE d = 1
  BY <1>1, <1>2, <1>3, <1>4, BlockFacts
<1>5. CASE d = 2
  BY <1>1, <1>2, <1>3, <1>5, BlockFacts
<1>6. CASE d = 3
  BY <1>1, <1>2, <1>3, <1>6, BlockFacts
<1>7. QED BY <1>1, <1>4, <1>5, <1>6

LEMMA SequencesOfP ==
  ASSUME Typed, NEW p \in Pid
  PROVE  /\ p \in DOMAIN head /\ p \in DOMAIN insts /\ p \in DOMAIN at /\ p \in DOMAIN stackdepth
         /\ p \in DOMAIN via /\ p \in DOMAIN trail /\ p \in DOMAIN pc /\ p \in DOMAIN exmap /\ p \in DOMAIN was
BY DEF Typed

\* head falls to the next line.
LEMMA FallsForwards ==
  ASSUME WellBuilt, Typed, NEW p \in Pid, ~rev, at[p] \in {"first", "rest", "sem", "call"},
         NEW s \in Starts, NEW v \in Ways, NEW d \in 0..1, Within(p, s, v, d), Falls(p)
  PROVE  head'[p] = s + d + 1 /\ at'[p] = "rest" /\ insts'[p] = Append(insts[p], s + d)
<1>1. head[p] = s + d /\ Index(p) = s + d /\ s \in Nat /\ s % 3 = 0
  <2>1. d \in 0..3
    OBVIOUS
  <2>2. QED BY <2>1, NextForwards, BlockFacts
<1>2. head'[p] = s + d + 1 /\ insts'[p] = Append(insts[p], s + d)
  BY <1>1, SequencesOfP DEF Falls, Executed
<1>3. at'[p] = IF (s + d + 1) % 3 = 0 THEN "end" ELSE "rest"
  BY <1>1, SequencesOfP DEF Falls, Executed
<1>4. (s + d + 1) % 3 # 0
  BY <1>1
<1>5. QED BY <1>2, <1>3, <1>4

LEMMA FallsBackwards ==
  ASSUME WellBuilt, Typed, NEW p \in Pid, rev, at[p] \in {"first", "rest", "sem", "call"},
         NEW s \in Starts, NEW v \in Ways, NEW d \in 2..3, Within(p, s, v, d), Falls(p)
  PROVE  head'[p] = s + d - 1 /\ at'[p] = "rest" /\ insts'[p] = Append(insts[p], s + d - 1)
<1>1. head[p] = s + d /\ Index(p) = s + d - 1 /\ s \in Nat /\ s % 3 = 0
  BY NextBackwards, BlockFacts
<1>2. head'[p] = s + d - 1 /\ insts'[p] = Append(insts[p], s + d - 1)
  BY <1>1, SequencesOfP DEF Falls, Executed
<1>3. at'[p] = IF (s + d - 1) % 3 = 0 THEN "end" ELSE "rest"
  BY <1>1, SequencesOfP DEF Falls, Executed
<1>4. (s + d - 1) % 3 # 0
  BY <1>1
<1>5. QED BY <1>2, <1>3, <1>4

LEMMA InstructionForwards ==
  ASSUME WellBuilt, Typed, NEW p \in Pid, ~rev, at[p] \in {"first", "rest", "sem", "call"},
         NEW s \in Starts, NEW v \in Ways, NEW d \in 0..3, Within(p, s, v, d), Instruction(p)
  PROVE  /\ d \in 0..1 /\ LineForwards(p, s, v, d) /\ err' = err
         /\ d = 1 => LineAt(s + 1).op # "call"
<1>1. /\ d \in 0..2 /\ Current(p) = LineAt(s + d) /\ s + d \in Lines /\ s \in Nat
      /\ Current(p).op \in Instructions \cup {"V", "P", "skip", "come"}
  BY NextForwards DEF Instruction, Is
<1>2. d \in 0..1
  BY <1>1, NextForwards DEF Instructions
<1>3. LineAt(s + d).op \notin {"begin", "end", "indent", "unindent", "join", "call"}
  BY <1>1 DEF Instructions
<1>4. Ahead(stackdepth[p], s + d) = stackdepth[p]
  BY <1>3 DEF Ahead
<1>5. trail'[p] = IF d = 0 THEN Trail(trail[p], s, v) ELSE trail[p]
  BY <1>1, <1>3 DEF Instruction, Trail
<1>6. stackdepth'[p] = Ahead(stackdepth[p], s + d) /\ err' = err
  BY <1>4 DEF Instruction
<1>7. head'[p] = s + d + 1 /\ at'[p] = "rest" /\ insts'[p] = Append(insts[p], s + d)
  BY <1>2, FallsForwards DEF Instruction
<1>8. QED BY <1>2, <1>3, <1>5, <1>6, <1>7 DEF LineForwards

LEMMA InstructionBackwards ==
  ASSUME WellBuilt, Typed, NEW p \in Pid, rev, at[p] \in {"first", "rest", "sem", "call"},
         NEW s \in Starts, NEW v \in Ways, NEW d \in 0..3, Within(p, s, v, d), Instruction(p)
  PROVE  /\ d \in 2..3 /\ LineBackwards(p, s, v, d) /\ err' = err
         /\ d = 2 => LineAt(s + 1).op # "call"
<1>1. /\ d \in 1..3 /\ Current(p) = LineAt(s + d - 1) /\ s + d - 1 \in Lines /\ s \in Nat
      /\ Current(p).op \in Instructions \cup {"V", "P", "skip", "goto", "branch"}
  BY NextBackwards DEF Instruction, Is
<1>2. d \in 2..3
  BY <1>1, NextBackwards DEF Instructions
<1>3. LineAt(s + d - 1).op \notin {"begin", "end", "indent", "unindent", "call"}
  BY <1>1 DEF Instructions
<1>4. stackdepth'[p] = Stack(was[p][pc[p] + 1][1], s, d - 1)
  <2> DEFINE w == was[p][pc[p] + 1][1]
  <2>1. w \in Stacks /\ Fits(w, s) /\ stackdepth[p] = Stack(w, s, d)
    BY WithinFacts
  <2>2. d - 1 \in 0..2 /\ d - 1 + 1 = d /\ s + (d - 1) = s + d - 1
    BY <1>1
  <2>3. Stack(w, s, d) = Ahead(Stack(w, s, d - 1), s + (d - 1))
    BY <2>1, <2>2, StackInBlock
  <2>4. Stack(w, s, d) = Stack(w, s, d - 1)
    BY <1>3, <2>2, <2>3 DEF Ahead
  <2>5. QED BY <2>1, <2>4 DEF Instruction
<1>5. head'[p] = s + d - 1 /\ at'[p] = "rest" /\ insts'[p] = Append(insts[p], s + d - 1)
  BY <1>2, FallsBackwards DEF Instruction
<1>6. d = 2 => LineAt(s + 1).op # "call"
  BY <1>1, <1>3
<1>7. QED BY <1>2, <1>4, <1>5, <1>6 DEF LineBackwards, Instruction

\* The stack before the line that is undone.
LEMMA StackBefore ==
  ASSUME WellBuilt, Typed, NEW p \in Pid,
         NEW s \in Starts, NEW v \in Ways, NEW d \in 1..3, Within(p, s, v, d)
  PROVE  LET x == Stack(was[p][pc[p] + 1][1], s, d - 1)
         IN  x \in Stacks /\ Fits(x, s + d - 1) /\ stackdepth[p] = Ahead(x, s + d - 1)
<1> DEFINE w == was[p][pc[p] + 1][1]
<1>1. w \in Stacks /\ Fits(w, s) /\ stackdepth[p] = Stack(w, s, d)
  BY WithinFacts
<1>2. d - 1 \in 0..2 /\ d - 1 \in 0..3 /\ d - 1 + 1 = d /\ s + (d - 1) = s + d - 1
  BY BlockFacts
<1>3. Stack(w, s, d) = Ahead(Stack(w, s, d - 1), s + (d - 1))
  BY <1>1, <1>2, StackInBlock
<1>4. Stack(w, s, d - 1) \in Stacks /\ Fits(Stack(w, s, d - 1), s + (d - 1))
  BY <1>1, <1>2, StackInBlock
<1>5. QED BY <1>1, <1>2, <1>3, <1>4

LEMMA PassJoinForwards ==
  ASSUME WellBuilt, Typed, NEW p \in Pid, ~rev, at[p] \in {"first", "rest"},
         NEW s \in Starts, NEW v \in Ways, NEW d \in 0..3, Within(p, s, v, d), PassJoin(p)
  PROVE  d = 0 /\ LineForwards(p, s, v, d) /\ err' = err
<1>1. /\ d \in 0..2 /\ Current(p) = LineAt(s + d) /\ s \in Nat /\ LineAt(s + d).op = "join"
  BY NextForwards DEF PassJoin, Is
<1>2. d = 0 /\ s + d = s
  BY <1>1, NextForwards DEF Middles, Instructions
<1>3. stackdepth'[p] = Ahead(stackdepth[p], s + d) /\ err' = err
  BY <1>1 DEF PassJoin, Ahead
<1>4. trail'[p] = Trail(trail[p], s, v)
  <2>1. via[p] = v
    BY <1>2 DEF Within, Doing
  <2>2. trail'[p] = trail[p] \o via[p]
    BY SequencesOfP DEF PassJoin
  <2>3. QED BY <1>1, <1>2, <2>1, <2>2 DEF Trail
<1>5. head'[p] = s + d + 1 /\ at'[p] = "rest" /\ insts'[p] = Append(insts[p], s + d)
  BY <1>2, FallsForwards DEF PassJoin
<1>6. QED BY <1>2, <1>3, <1>4, <1>5 DEF LineForwards

LEMMA ChangeDepthFacts ==
  ASSUME Typed, NEW p \in Pid, ChangeDepth(p)
  PROVE  /\ Current(p).op \in {"indent", "unindent"} /\ Falls(p) /\ trail' = trail
         /\ (Current(p).op = "indent" /\ ~rev) \/ (Current(p).op = "unindent" /\ rev) =>
               /\ stackdepth'[p] = Append(Front(stackdepth[p]), Append(Last(stackdepth[p]), Current(p).arg[1]))
               /\ err' = err
         /\ (Current(p).op = "indent" /\ rev) \/ (Current(p).op = "unindent" /\ ~rev) =>
               ((/\ Last(stackdepth[p]) # <<>>
                 /\ Last(Last(stackdepth[p])) = Current(p).arg[1]) =>
                   (/\ stackdepth'[p] = Append(Front(stackdepth[p]), Front(Last(stackdepth[p])))
                    /\ err' = err))
<1>1. Current(p).op \in {"indent", "unindent"} /\ Falls(p) /\ trail' = trail
  BY DEF ChangeDepth, Is
<1>2. ASSUME (Current(p).op = "indent") # rev
      PROVE  /\ stackdepth'[p] = Append(Front(stackdepth[p]), Append(Last(stackdepth[p]), Current(p).arg[1]))
             /\ err' = err
  <2>1. /\ stackdepth' = [stackdepth EXCEPT ![p] =
                              Append(Front(@), Append(Last(stackdepth[p]), Current(p).arg[1]))]
        /\ err' = err
    BY <1>2 DEF ChangeDepth
  <2>2. QED BY <2>1, SequencesOfP
<1>3. ASSUME (Current(p).op = "indent") = rev, Last(stackdepth[p]) # <<>>,
             Last(Last(stackdepth[p])) = Current(p).arg[1]
      PROVE  /\ stackdepth'[p] = Append(Front(stackdepth[p]), Front(Last(stackdepth[p])))
             /\ err' = err
  <2>1. /\ stackdepth' = [stackdepth EXCEPT ![p] = Append(Front(@), Front(Last(stackdepth[p])))]
        /\ err' = err
    BY <1>3 DEF ChangeDepth, Fail
  <2>2. QED BY <2>1, SequencesOfP
<1>4. rev \in BOOLEAN
  BY DEF Typed
<1>5. QED BY <1>1, <1>2, <1>3, <1>4

LEMMA ChangeDepthForwards ==
  ASSUME WellBuilt, Typed, NEW p \in Pid, ~rev, at[p] \in {"first", "rest"},
         NEW s \in Starts, NEW v \in Ways, NEW d \in 0..3, Within(p, s, v, d), ChangeDepth(p)
  PROVE  d = 1 /\ LineForwards(p, s, v, d) /\ err' = err /\ LineAt(s + 1).op # "call"
<1> DEFINE x == stackdepth[p]
<1>1. /\ d \in 0..2 /\ Current(p) = LineAt(s + d) /\ s \in Nat /\ s + d \in Lines
      /\ x \in Stacks /\ Fits(x, s + d)
  BY NextForwards
<1>2. Current(p).op \in {"indent", "unindent"} /\ Falls(p) /\ trail' = trail
  BY ChangeDepthFacts
<1>3. d = 1 /\ s + d = s + 1
  <2>1. Current(p).op \notin {"begin", "come", "join", "end", "goto", "branch"}
    BY <1>2
  <2>2. d = 1
    BY <1>1, <2>1, NextForwards
  <2>3. QED BY <2>2
<1>4. (s + 1) % 3 = 1 => s + 1 + 1 \in Lines
  BY <1>1, BlockFacts
<1>5. stackdepth'[p] = Ahead(x, s + 1) /\ err' = err
  <2>1. s + 1 \in Lines /\ Fits(x, s + 1) /\ Current(p) = LineAt(s + 1)
    BY <1>1, <1>3
  <2>2. CASE LineAt(s + 1).op = "indent"
    <3>1. Ahead(x, s + 1) = Append(Front(x), Append(Last(x), LineAt(s + 1).arg[1]))
      BY <1>1, <1>4, <2>1, <2>2, AheadAndBack
    <3>2. QED BY <2>1, <2>2, <3>1, ChangeDepthFacts
  <2>3. CASE LineAt(s + 1).op = "unindent"
    <3>1. /\ Last(x) # <<>> /\ Last(Last(x)) = LineAt(s + 1).arg[1]
          /\ Ahead(x, s + 1) = Append(Front(x), Front(Last(x)))
      BY <1>1, <1>4, <2>1, <2>3, AheadAndBack
    <3>2. QED BY <2>1, <2>3, <3>1, ChangeDepthFacts
  <2>4. QED BY <1>2, <2>1, <2>2, <2>3
<1>6. head'[p] = s + d + 1 /\ at'[p] = "rest" /\ insts'[p] = Append(insts[p], s + d)
  <2>1. d \in 0..1 /\ at[p] \in {"first", "rest", "sem", "call"}
    BY <1>3
  <2>2. QED BY <1>2, <2>1, FallsForwards
<1>7. LineAt(s + 1).op # "call"
  BY <1>1, <1>2, <1>3
<1>8. LineForwards(p, s, v, d)
  BY <1>2, <1>3, <1>5, <1>6 DEF LineForwards
<1>9. QED BY <1>3, <1>5, <1>7, <1>8

LEMMA ChangeDepthBackwards ==
  ASSUME WellBuilt, Typed, NEW p \in Pid, rev, at[p] \in {"first", "rest"},
         NEW s \in Starts, NEW v \in Ways, NEW d \in 0..3, Within(p, s, v, d), ChangeDepth(p)
  PROVE  d = 2 /\ LineBackwards(p, s, v, d) /\ err' = err /\ LineAt(s + 1).op # "call"
<1> DEFINE y == stackdepth[p]
           x == Stack(was[p][pc[p] + 1][1], s, d - 1)
<1>1. d \in 1..3 /\ Current(p) = LineAt(s + d - 1) /\ s \in Nat /\ s + d - 1 \in Lines
  BY NextBackwards
<1>2. Current(p).op \in {"indent", "unindent"} /\ Falls(p) /\ trail' = trail
  BY ChangeDepthFacts
<1>3. d = 2 /\ s + d - 1 = s + 1
  <2>1. Current(p).op \notin {"begin", "come", "join", "end", "goto", "branch"}
    BY <1>2
  <2>2. d = 2
    BY <1>1, <2>1, NextBackwards
  <2>3. QED BY <1>1, <2>2
<1>4. (s + 1) % 3 = 1 => s + 1 + 1 \in Lines
  BY <1>1, BlockFacts
<1>5. x \in Stacks /\ Fits(x, s + 1) /\ y = Ahead(x, s + 1)
  BY <1>1, <1>3, StackBefore
<1>6. stackdepth'[p] = x /\ err' = err
  <2> HIDE DEF x
  <2>1. s + 1 \in Lines /\ Current(p) = LineAt(s + 1)
    BY <1>1, <1>3
  <2>2. CASE LineAt(s + 1).op = "unindent"
    <3>1. x = Append(Front(y), Append(Last(y), LineAt(s + 1).arg[1]))
      BY <1>4, <1>5, <2>1, <2>2, AheadAndBack
    <3>2. QED BY <2>1, <2>2, <3>1, ChangeDepthFacts
  <2>3. CASE LineAt(s + 1).op = "indent"
    <3>1. /\ Last(y) # <<>> /\ Last(Last(y)) = LineAt(s + 1).arg[1]
          /\ Append(Front(y), Front(Last(y))) = x
      BY <1>4, <1>5, <2>1, <2>3, AheadAndBack
    <3>2. QED BY <2>1, <2>3, <3>1, ChangeDepthFacts
  <2>4. QED BY <1>2, <2>1, <2>2, <2>3
<1>7. head'[p] = s + d - 1 /\ at'[p] = "rest" /\ insts'[p] = Append(insts[p], s + d - 1)
  <2>1. d \in 2..3 /\ at[p] \in {"first", "rest", "sem", "call"}
    BY <1>3
  <2>2. QED BY <1>2, <2>1, FallsBackwards
<1>8. LineAt(s + 1).op # "call"
  BY <1>1, <1>2, <1>3
<1>9. LineBackwards(p, s, v, d)
  BY <1>2, <1>3, <1>6, <1>7 DEF LineBackwards
<1>10. QED BY <1>3, <1>6, <1>8, <1>9

LEMMA BoundaryFacts ==
  ASSUME Typed, NEW p \in Pid, Boundary(p)
  PROVE  /\ Current(p).op \in {"begin", "end"} /\ trail' = trail /\ err' = err
         /\ head'[p] = (IF rev THEN head[p] - 1 ELSE head[p] + 1)
         /\ insts'[p] = Append(insts[p], Index(p))
         /\ EndsProcess(p) => /\ stackdepth'[p] = Exit(Current(p).arg, stackdepth[p])
                              /\ at'[p] = "last" /\ via'[p] = <<>>
         /\ ~EndsProcess(p) => /\ stackdepth'[p] = Enter(Current(p).arg, stackdepth[p])
                               /\ at'[p] = IF head'[p] % 3 = 0 THEN "end" ELSE "rest"
<1>1. Current(p).op \in {"begin", "end"} /\ trail' = trail /\ err' = err
  BY DEF Boundary, Is
<1>2. /\ head'[p] = (IF rev THEN head[p] - 1 ELSE head[p] + 1)
      /\ insts'[p] = Append(insts[p], Index(p))
  BY SequencesOfP DEF Boundary
<1>3. /\ EndsProcess(p) => stackdepth'[p] = Exit(Current(p).arg, stackdepth[p])
      /\ ~EndsProcess(p) => stackdepth'[p] = Enter(Current(p).arg, stackdepth[p])
  BY SequencesOfP DEF Boundary
<1>4. /\ EndsProcess(p) => at'[p] = "last" /\ via'[p] = <<>>
      /\ ~EndsProcess(p) => at'[p] = IF head'[p] % 3 = 0 THEN "end" ELSE "rest"
  BY SequencesOfP DEF Boundary
<1>5. QED BY <1>1, <1>2, <1>3, <1>4

LEMMA BoundaryForwards ==
  ASSUME WellBuilt, Typed, NEW p \in Pid, ~rev, at[p] \in {"first", "rest"},
         NEW s \in Starts, NEW v \in Ways, NEW d \in 0..3, Within(p, s, v, d), Boundary(p)
  PROVE  d \in {0, 2} /\ LineForwards(p, s, v, d) /\ err' = err
<1> DEFINE x == stackdepth[p]
<1>1. /\ d \in 0..2 /\ Current(p) = LineAt(s + d) /\ s \in Nat /\ s + d \in Lines
      /\ x \in Stacks /\ Fits(x, s + d) /\ head[p] = s + d /\ Index(p) = s + d
  BY NextForwards
<1>2. d \in {0, 2} /\ LineAt(s + d).op = IF d = 0 THEN "begin" ELSE "end"
  <2>1. Current(p).op \in {"begin", "end"}
    BY BoundaryFacts
  <2>2. d # 1
    BY <2>1, NextForwards DEF Middles, Instructions
  <2>3. QED BY <1>1, <2>1, <2>2, NextForwards
<1>3. EndsProcess(p) <=> d = 2
  BY <1>1, <1>2 DEF EndsProcess
<1>4. stackdepth'[p] = Ahead(x, s + d)
  BY <1>1, <1>2, <1>3, BoundaryFacts DEF Ahead
<1>5. head'[p] = s + d + 1 /\ insts'[p] = Append(insts[p], s + d)
  BY <1>1, BoundaryFacts
<1>6. CASE d = 0
  <2>1. LineAt(s).op = "begin" /\ (s + 1) % 3 # 0 /\ head'[p] = s + 1
    BY <1>1, <1>2, <1>5, <1>6, BlockFacts
  <2>2. at'[p] = "rest"
    BY <1>3, <1>6, <2>1, BoundaryFacts
  <2>3. trail'[p] = Trail(trail[p], s, v)
    BY <2>1, BoundaryFacts DEF Trail
  <2>4. QED BY <1>4, <1>5, <1>6, <2>2, <2>3, BoundaryFacts DEF LineForwards
<1>7. CASE d = 2
  <2>1. IsEnd(LineAt(s + 2)) /\ head'[p] = s + 3
    BY <1>1, <1>2, <1>5, <1>7 DEF IsEnd
  <2>2. at'[p] = "last" /\ via'[p] = <<>>
    BY <1>3, <1>7, BoundaryFacts
  <2>3. QED BY <1>4, <1>5, <1>7, <2>1, <2>2, BoundaryFacts DEF LineForwards
<1>8. QED BY <1>2, <1>6, <1>7, BoundaryFacts

LEMMA BoundaryBackwards ==
  ASSUME WellBuilt, Typed, NEW p \in Pid, rev, at[p] \in {"first", "rest"},
         NEW s \in Starts, NEW v \in Ways, NEW d \in 0..3, Within(p, s, v, d), Boundary(p)
  PROVE  d \in {1, 3} /\ LineBackwards(p, s, v, d) /\ err' = err
<1> DEFINE y == stackdepth[p]
           x == Stack(was[p][pc[p] + 1][1], s, d - 1)
<1>1. /\ d \in 1..3 /\ Current(p) = LineAt(s + d - 1) /\ s \in Nat /\ s + d - 1 \in Lines
      /\ head[p] = s + d /\ Index(p) = s + d - 1
  BY NextBackwards
<1>2. d \in {1, 3} /\ LineAt(s + d - 1).op = IF d = 1 THEN "begin" ELSE "end"
  <2>1. Current(p).op \in {"begin", "end"}
    BY BoundaryFacts
  <2>2. d # 2
    BY <2>1, NextBackwards DEF Middles, Instructions
  <2>3. QED BY <1>1, <2>1, <2>2, NextBackwards
<1>3. EndsProcess(p) <=> d = 1
  BY <1>1, <1>2 DEF EndsProcess
<1>4. x \in Stacks /\ Fits(x, s + d - 1) /\ y = Ahead(x, s + d - 1)
  BY <1>1, StackBefore
<1>5. (s + d - 1) % 3 # 1
  BY <1>1, <1>2, BlockFacts
<1>6. stackdepth'[p] = x
  <2> HIDE DEF x
  <2>1. stackdepth'[p] = IF d = 1 THEN Exit(LineAt(s + d - 1).arg, y) ELSE Enter(LineAt(s + d - 1).arg, y)
    BY <1>1, <1>3, BoundaryFacts
  <2>2. QED BY <1>1, <1>2, <1>4, <1>5, <2>1, AheadAndBack
<1>7. head'[p] = s + d - 1 /\ insts'[p] = Append(insts[p], s + d - 1)
  BY <1>1, BoundaryFacts
<1>8. CASE d = 3
  <2>1. head'[p] = s + 2 /\ (s + 2) % 3 # 0
    <3>1. s \in Nat /\ s % 3 = 0
      BY BlockFacts
    <3>2. (s + 2) % 3 # 0 /\ s + d - 1 = s + 2
      BY <1>8, <3>1
    <3>3. QED BY <1>7, <3>2
  <2>2. at'[p] = "rest"
    BY <1>3, <1>8, <2>1, BoundaryFacts
  <2>3. QED BY <1>6, <1>7, <1>8, <2>2, BoundaryFacts DEF LineBackwards
<1>9. CASE d = 1
  <2>1. LineAt(s).op = "begin" /\ head'[p] = s
    BY <1>1, <1>2, <1>7, <1>9
  <2>2. at'[p] = "last" /\ via'[p] = <<>>
    BY <1>3, <1>9, BoundaryFacts
  <2>3. trail'[p] = was[p][pc[p] + 1][2]
    <3>1. trail[p] = Trail(was[p][pc[p] + 1][2], s, v)
      BY <1>9 DEF Within
    <3>2. trail' = trail
      BY BoundaryFacts
    <3>3. QED BY <2>1, <3>1, <3>2 DEF Trail
  <2>4. QED BY <1>6, <1>7, <1>9, <2>1, <2>2, <2>3, BoundaryFacts DEF LineBackwards
<1>10. QED BY <1>2, <1>8, <1>9, BoundaryFacts

LEMMA CallEndForwards ==
  ASSUME WellBuilt, Typed, NEW p \in Pid, ~rev, at[p] = "call",
         NEW s \in Starts, NEW v \in Ways, NEW d \in 0..3, Within(p, s, v, d), CallEnd(p)
  PROVE  d = 1 /\ LineForwards(p, s, v, d) /\ err' = err /\ LineAt(s + 1).op = "call"
<1>1. d = 1 /\ LineAt(s + 1).op = "call"
  BY DEF Within, Doing
<1>2. head'[p] = s + d + 1 /\ at'[p] = "rest" /\ insts'[p] = Append(insts[p], s + d)
  <2>1. d \in 0..1 /\ at[p] \in {"first", "rest", "sem", "call"}
    BY <1>1
  <2>2. QED BY <2>1, FallsForwards DEF CallEnd
<1>3. stackdepth'[p] = Ahead(stackdepth[p], s + d) /\ trail' = trail /\ err' = err
  BY <1>1 DEF CallEnd, Ahead
<1>4. QED BY <1>1, <1>2, <1>3 DEF LineForwards

LEMMA CallEndBackwards ==
  ASSUME WellBuilt, Typed, NEW p \in Pid, rev, at[p] = "call",
         NEW s \in Starts, NEW v \in Ways, NEW d \in 0..3, Within(p, s, v, d), CallEnd(p)
  PROVE  d = 2 /\ LineBackwards(p, s, v, d) /\ err' = err /\ LineAt(s + 1).op = "call"
<1> DEFINE x == Stack(was[p][pc[p] + 1][1], s, d - 1)
<1>1. d = 2 /\ LineAt(s + 1).op = "call"
  BY DEF Within, Undoing
<1>2. head'[p] = s + d - 1 /\ at'[p] = "rest" /\ insts'[p] = Append(insts[p], s + d - 1)
  <2>1. d \in 2..3 /\ at[p] \in {"first", "rest", "sem", "call"}
    BY <1>1
  <2>2. QED BY <2>1, FallsBackwards DEF CallEnd
<1>3. stackdepth'[p] = x /\ trail' = trail /\ err' = err
  <2>1. d \in 1..3 /\ s + d - 1 = s + 1
    BY <1>1, BlockFacts
  <2>2. stackdepth[p] = Ahead(x, s + 1)
    BY <2>1, StackBefore
  <2> HIDE DEF x
  <2>3. stackdepth[p] = x
    BY <1>1, <2>2 DEF Ahead
  <2>4. QED BY <2>3 DEF CallEnd
<1>4. QED BY <1>1, <1>2, <1>3 DEF LineBackwards

\* The process waits where it is.
LEMMA WaitsInBlock ==
  ASSUME WellBuilt, Typed, NEW p \in Pid, at[p] \in {"first", "rest"}, InSameBlock(p), Past(p),
         NEW s \in Starts, NEW v \in Ways, NEW d \in 0..3, Within(p, s, v, d),
         \/ Current(p).op \in {"V", "P"} /\ at'[p] = "sem"
         \/ Current(p).op = "call" /\ at'[p] = "call",
         head'[p] = head[p], insts'[p] = insts[p], stackdepth'[p] = stackdepth[p],
         via'[p] = via[p], trail'[p] = trail[p]
  PROVE  OnItsWay(p)' /\ InBlock(p)' /\ Within(p, s, v, d)' /\ d = (IF rev THEN 2 ELSE 1)
         /\ Current(p) = LineAt(s + 1)
<1> USE DEF InSameBlock
<1>1. InBlock(p)' /\ InBlock(p)
  BY DEF InBlock
<1>2. Past(p)' /\ EnteredBy(p, pc[p] + 1, s, v)'
  BY <1>1, PastStays DEF Within
<1>3. d = (IF rev THEN 2 ELSE 1) /\ Current(p) = LineAt(s + 1)
  <2>1. Current(p).op \notin {"begin", "come", "join", "end", "goto", "branch"} /\ s \in Nat
    BY BlockFacts
  <2>2. CASE rev
    <3>1. d \in 1..3 /\ d # 1 /\ d # 3
      BY <2>1, <2>2, NextBackwards
    <3>2. d = 2 /\ s + d - 1 = s + 1
      BY <2>1, <3>1
    <3>3. QED BY <2>2, <3>2, NextBackwards
  <2>3. CASE ~rev
    <3>1. d \in 0..2 /\ d # 0 /\ d # 2
      BY <2>1, <2>3, NextForwards
    <3>2. d = 1
      BY <3>1
    <3>3. QED BY <2>3, <3>2, NextForwards
  <2>4. QED BY <2>2, <2>3
<1>4. CASE rev
  <2>1. Undoing(p, s, v, d)
    BY <1>4 DEF Within
  <2>2. Undoing(p, s, v, d)'
    BY <1>3, <1>4, <2>1, FileStays DEF Undoing, Forwards, Backwards
  <2>3. Within(p, s, v, d)'
    BY <1>2, <1>4, <2>2, FileStays DEF Within
  <2>4. QED BY <1>1, <1>2, <1>3, <2>3, FileStays DEF OnItsWay
<1>5. CASE ~rev
  <2>1. Doing(p, s, v, d)
    BY <1>5 DEF Within
  <2>2. Doing(p, s, v, d)'
    BY <1>3, <1>5, <2>1, FileStays DEF Doing, Forwards
  <2>3. Within(p, s, v, d)'
    BY <1>2, <1>5, <2>2, FileStays DEF Within
  <2>4. QED BY <1>1, <1>2, <1>3, <2>3, FileStays DEF OnItsWay
<1>6. QED BY <1>4, <1>5

\* The label of a jump and the one by which it is undone.
LEMMA JumpFacts ==
  ASSUME Typed, NEW p \in Pid, NEW labels, NEW l \in DOMAIN labels, Jump(p, labels, l)
  PROVE  /\ err' = err /\ via'[p] = <<l>> /\ stackdepth' = stackdepth
         /\ head'[p] = Landing(labels[l]) /\ insts'[p] = Append(insts[p], Index(p))
         /\ Landing(labels[l]) % 3 = 0 => at'[p] = "end"
BY SequencesOfP DEF Jump, Executed, Fail

LEMMA LeaveForwards ==
  ASSUME WellBuilt, Typed, NEW p \in Pid, ~rev, at[p] \in {"first", "rest"},
         NEW s \in Starts, NEW v \in Ways, NEW d \in 0..3, Within(p, s, v, d),
         NEW l, Leave(p, l)
  PROVE  d = 2 /\ LineForwards(p, s, v, d) /\ err' = err
<1>1. /\ d \in 0..2 /\ Current(p) = LineAt(s + d) /\ s \in Nat /\ s + d \in Lines
      /\ Index(p) = s + d
  BY NextForwards
<1>2. /\ Current(p).op \in {"goto", "branch"} /\ l \in ToSet(Current(p).arg)
      /\ Jump(p, file.comemap, l) /\ trail' = trail
  BY DEF Leave, Is
<1>3. d = 2
  <2>1. d # 0 /\ d # 1
    BY <1>2, NextForwards DEF Middles, Instructions
  <2>2. QED BY <1>1, <2>1
<1>4. Leads(l, s + 2, file.comemap[l])
  BY <1>1, <1>2, <1>3 DEF WellBuilt, JumpsMeet, IsExit
<1>5. l \in DOMAIN file.comemap /\ l \in Label /\ file.comemap[l] \in Starts
  BY <1>4, LeadsFacts DEF Leads
<1>6. /\ err' = err /\ via'[p] = <<l>> /\ stackdepth' = stackdepth
      /\ head'[p] = file.comemap[l] /\ insts'[p] = Append(insts[p], s + d) /\ at'[p] = "end"
  <2>1. Landing(file.comemap[l]) = file.comemap[l] /\ file.comemap[l] % 3 = 0
    BY <1>5 DEF Landing, Starts
  <2>2. QED BY <1>1, <1>2, <1>5, <2>1, JumpFacts
<1>7. stackdepth'[p] = Ahead(stackdepth[p], s + d)
  BY <1>1, <1>2, <1>6 DEF Ahead
<1>8. QED BY <1>2, <1>3, <1>4, <1>5, <1>6, <1>7 DEF LineForwards

LEMMA EntryCases ==
  ASSUME NEW p, NEW j \in Nat, NEW s, NEW v, EnteredBy(p, j + 1, s, v)
  PROVE  IF j = 0 THEN LineAt(s).op = "begin" /\ v = <<>>
         ELSE \E l \in Label : v = <<l>> /\ Leads(l, ExitOf(p, j), s)
<1>1. j + 1 - 1 = j /\ (j + 1 = 1 <=> j = 0)
  OBVIOUS
<1>2. EnteredBy(p, j + 1, s, v) <=>
        s \in Starts /\ IF j = 0 THEN LineAt(s).op = "begin" /\ v = <<>>
                        ELSE \E l \in Label : v = <<l>> /\ Leads(l, ExitOf(p, j), s)
  BY <1>1 DEF EnteredBy
<1>3. QED BY <1>2

\* A block that does not begin a procedure has been jumped to.
LEMMA EntryFacts ==
  ASSUME NEW p, NEW j \in Nat, NEW s, NEW v, EnteredBy(p, j + 1, s, v), LineAt(s).op # "begin"
  PROVE  j # 0 /\ \E l \in Label : v = <<l>> /\ Leads(l, ExitOf(p, j), s)
BY EntryCases

LEMMA ReturnBackwards ==
  ASSUME WellBuilt, Typed, NEW p \in Pid, rev, at[p] \in {"first", "rest"},
         NEW s \in Starts, NEW v \in Ways, NEW d \in 0..3, Within(p, s, v, d),
         NEW l \in CameBy(p), Return(p, l)
  PROVE  d = 1 /\ LineBackwards(p, s, v, d) /\ err' = err
<1> DEFINE found == was[p][pc[p] + 1]
<1>1. /\ d \in 1..3 /\ Current(p) = LineAt(s + d - 1) /\ s \in Nat /\ s + d - 1 \in Lines
      /\ Index(p) = s + d - 1 /\ pc[p] \in Nat
  <2>1. pc[p] \in Nat
    BY DEF Typed
  <2>2. QED BY <2>1, NextBackwards
<1>2. /\ Current(p).op \in {"come", "join"} /\ l \in ToSet(Current(p).arg)
      /\ Jump(p, file.gotomap, l)
  BY DEF Return, Is
<1>3. d = 1 /\ s + d - 1 = s
  <2>1. d # 2 /\ d # 3
    BY <1>2, NextBackwards DEF Middles, Instructions
  <2>2. QED BY <1>1, <2>1
<1>4. PICK m \in Label : v = <<m>> /\ Leads(m, ExitOf(p, pc[p]), s)
  <2>1. EnteredBy(p, pc[p] + 1, s, v)
    BY DEF Within
  <2>2. LineAt(s).op # "begin"
    BY <1>1, <1>2, <1>3
  <2>3. QED BY <1>1, <2>1, <2>2, EntryFacts
<1>5. found[2] \in Seq(Label) /\ trail[p] = Trail(found[2], s, v)
  <2>1. found[2] \in Seq(Label)
    BY WithinFacts
  <2>2. trail[p] = IF d = 0 THEN found[2] ELSE Trail(found[2], s, v)
    BY DEF Within
  <2>3. d # 0
    BY <1>3
  <2>4. QED BY <2>1, <2>2, <2>3
<1>6. /\ LineAt(s).op = "join" =>
            trail[p] = Append(found[2], m) /\ trail[p] # <<>> /\ Last(trail[p]) = m
            /\ Front(trail[p]) = found[2]
      /\ LineAt(s).op # "join" => trail[p] = found[2]
  <2>1. found[2] \o <<m>> = Append(found[2], m)
    BY <1>5, OneMore
  <2>2. /\ Append(found[2], m) # <<>> /\ Last(Append(found[2], m)) = m
        /\ Front(Append(found[2], m)) = found[2]
    BY <1>5, EndOfAppend
  <2>3. trail[p] = IF LineAt(s).op = "join" THEN found[2] \o v ELSE found[2]
    BY <1>5 DEF Trail
  <2>4. QED BY <1>4, <2>1, <2>2, <2>3
<1>7. l = m
  <2>1. CASE LineAt(s).op = "join"
    <3>1. Is(p, {"join"})
      BY <1>1, <1>2, <1>3, <2>1 DEF Return, Is
    <3>2. QED BY <1>6, <2>1, <3>1 DEF CameBy
  <2>2. CASE LineAt(s).op = "come"
    <3>1. Len(LineAt(s).arg) = 1 /\ m \in ToSet(LineAt(s).arg) /\ l \in ToSet(LineAt(s).arg)
      BY <1>1, <1>2, <1>3, <1>4, <2>2, LeadsFacts DEF WellBuilt, JumpsMeet
    <3>2. LineAt(s).arg \in Seq(ToSet(LineAt(s).arg))
      BY <1>1, <1>3, LineFacts
    <3>3. QED BY <3>1, <3>2 DEF ToSet
  <2>3. QED BY <1>1, <1>2, <1>3, <2>1, <2>2
<1>8. /\ m \in DOMAIN file.gotomap /\ file.gotomap[m] = ExitOf(p, pc[p])
      /\ ExitOf(p, pc[p]) \in Nat /\ ExitOf(p, pc[p]) % 3 = 2
  BY <1>4, LeadsFacts, LineFacts DEF Label
<1>9. /\ err' = err /\ via'[p] = v /\ stackdepth' = stackdepth
      /\ head'[p] = ExitOf(p, pc[p]) + 1 /\ insts'[p] = Append(insts[p], s + d - 1) /\ at'[p] = "end"
  <2>1. Landing(file.gotomap[m]) = ExitOf(p, pc[p]) + 1
    BY <1>8 DEF Landing
  <2>2. (ExitOf(p, pc[p]) + 1) % 3 = 0
    BY <1>8
  <2>3. QED BY <1>1, <1>2, <1>4, <1>7, <1>8, <2>1, <2>2, JumpFacts
<1>10. trail'[p] = found[2]
  <2>1. trail'[p] = IF Is(p, {"join"}) /\ trail[p] # <<>> THEN Front(trail[p]) ELSE trail[p]
    BY SequencesOfP DEF Return
  <2>2. Is(p, {"join"}) <=> LineAt(s).op = "join"
    BY <1>1, <1>2, <1>3 DEF Return, Is
  <2>3. QED BY <1>6, <2>1, <2>2
<1>11. stackdepth'[p] = Stack(found[1], s, d - 1)
  <2>1. d \in 1..3
    BY <1>1
  <2>2. stackdepth[p] = Ahead(Stack(found[1], s, d - 1), s + d - 1)
    BY <2>1, StackBefore
  <2>3. Ahead(Stack(found[1], s, d - 1), s + d - 1) = Stack(found[1], s, d - 1)
    BY <1>1, <1>2 DEF Ahead
  <2>4. QED BY <1>9, <2>2, <2>3
<1>12. LineAt(s).op # "begin"
  BY <1>1, <1>2, <1>3
<1>13. QED BY <1>3, <1>9, <1>10, <1>11, <1>12 DEF LineBackwards

-----------------------------------------------------------------------------
(* Which calls are executed                                                *)

LEMMA SecondLine ==
  ASSUME NEW s \in Nat, NEW x
  PROVE  /\ \A n \in 2..3 : Forwards(x, s, n) => x[2] = s + 1
         /\ \A n \in 0..3 : Forwards(x, s, n) => Len(x) = n
         /\ \A n \in 0..3 : Backwards(x, s, n) => Len(x) = n
<1>1. ASSUME NEW n \in 2..3, Forwards(x, s, n) PROVE x[2] = s + 1
  <2>1. 2 \in 1..n /\ s + 2 - 1 = s + 1
    BY <1>1
  <2>2. x[2] = s + 2 - 1
    BY <1>1, <2>1 DEF Forwards
  <2>3. QED BY <2>1, <2>2
<1>2. QED BY <1>1 DEF Forwards, Backwards

LEMMA CallWithin ==
  ASSUME NEW p, pc[p] \in Nat, InBlock(p), NEW s \in Nat, NEW v, NEW d \in 0..3, Within(p, s, v, d)
  PROVE  CallDone(p, pc[p]) <=> d >= 2 /\ LineAt(s + 1).op = "call"
<1>1. CASE rev
  <2>1. Undoing(p, s, v, d) /\ 3 - d \in 0..3
    BY <1>1 DEF Within
  <2>2. Len(insts[p]) = 3 - d /\ exmap[p][pc[p] + 1][2] = s + 1
    BY <2>1, SecondLine DEF Undoing, Forwards, Backwards
  <2>3. QED BY <1>1, <2>2 DEF CallDone
<1>2. CASE ~rev
  <2>1. Doing(p, s, v, d)
    BY <1>2 DEF Within
  <2>2. Len(insts[p]) = d /\ (d >= 2 => insts[p][2] = s + 1)
    BY <2>1, SecondLine DEF Doing, Forwards
  <2>3. QED BY <1>2, <2>2 DEF CallDone
<1>3. QED BY <1>1, <1>2

LEMMA CallWithinNext ==
  ASSUME NEW p, pc'[p] \in Nat, InBlock(p)', NEW s \in Nat, NEW v, NEW d \in 0..3, Within(p, s, v, d)'
  PROVE  CallDone(p, pc[p])' <=> d >= 2 /\ LineAt(s + 1)'.op = "call"
<1>1. CASE rev'
  <2>1. Undoing(p, s, v, d)' /\ 3 - d \in 0..3
    BY <1>1 DEF Within
  <2>2. Len(insts'[p]) = 3 - d /\ exmap'[p][pc'[p] + 1][2] = s + 1
    BY <2>1, SecondLine DEF Undoing, Forwards, Backwards
  <2>3. QED BY <1>1, <2>2 DEF CallDone
<1>2. CASE ~rev'
  <2>1. Doing(p, s, v, d)'
    BY <1>2 DEF Within
  <2>2. Len(insts'[p]) = d /\ (d >= 2 => insts'[p][2] = s + 1)
    BY <2>1, SecondLine DEF Doing, Forwards
  <2>3. QED BY <1>2, <2>2 DEF CallDone
<1>3. QED BY <1>1, <1>2

\* A line of the block is executed or undone: the other calls are untouched,
\* and so is that of this block, unless it is its line.
LEMMA CallsOfBlock ==
  ASSUME Typed, NEW p \in Pid, InBlock(p), InBlock(p)', InSameBlock(p),
         NEW s \in Nat, NEW v, NEW d \in 0..3, NEW e \in 0..3, Within(p, s, v, d), Within(p, s, v, e)'
  PROVE  /\ \A k \in 0..MaxBlocks : k # pc[p] => (CallDone(p, k)' <=> CallDone(p, k))
         /\ CallDone(p, pc[p])' <=> e >= 2 /\ LineAt(s + 1).op = "call"
         /\ CallDone(p, pc[p]) <=> d >= 2 /\ LineAt(s + 1).op = "call"
<1>1. pc[p] \in Nat /\ pc'[p] = pc[p] /\ file' = file
  BY DEF Typed, InSameBlock
<1>2. \A k \in 0..MaxBlocks : k # pc[p] => (CallDone(p, k)' <=> CallDone(p, k))
  BY <1>1, FileStays DEF CallDone, InSameBlock
<1>3. CallDone(p, pc[p]) <=> d >= 2 /\ LineAt(s + 1).op = "call"
  BY <1>1, CallWithin
<1>4. CallDone(p, pc[p])' <=> e >= 2 /\ LineAt(s + 1).op = "call"
  BY <1>1, CallWithinNext, FileStays
<1>5. QED BY <1>2, <1>3, <1>4

LEMMA SameCalls ==
  ASSUME Typed, NEW p \in Pid, InBlock(p), InBlock(p)', InSameBlock(p),
         NEW s \in Nat, NEW v, NEW d \in 0..3, NEW e \in 0..3, Within(p, s, v, d), Within(p, s, v, e)',
         (d >= 2 <=> e >= 2) \/ LineAt(s + 1).op # "call"
  PROVE  \A k \in 0..MaxBlocks : CallDone(p, k)' <=> CallDone(p, k)
<1>1. \A k \in 0..MaxBlocks : k # pc[p] => (CallDone(p, k)' <=> CallDone(p, k))
  BY CallsOfBlock
<1>2. CallDone(p, pc[p])' <=> e >= 2 /\ LineAt(s + 1).op = "call"
  BY CallsOfBlock
<1>3. CallDone(p, pc[p]) <=> d >= 2 /\ LineAt(s + 1).op = "call"
  BY CallsOfBlock
<1>4. pc[p] \in 0..MaxBlocks
  BY DEF Typed
<1>5. PICK n \in 0..MaxBlocks : n = pc[p] /\ n = pc'[p]
  BY <1>4 DEF InSameBlock
<1>6. CallDone(p, n)' <=> CallDone(p, n)
  BY <1>2, <1>3, <1>5
<1>7. QED BY <1>1, <1>5, <1>6

-----------------------------------------------------------------------------
(* The beginning of a block                                                *)

LEMMA BeginForwards ==
  ASSUME WellBuilt, Typed, NEW p \in Pid, ~rev, OnItsWay(p), BeginBlock(p)
  PROVE  /\ OnItsWay(p)' /\ at[p] = "loop" /\ at'[p] = "first" /\ err' = err
         /\ \A k \in 0..MaxBlocks : CallDone(p, k)' <=> CallDone(p, k)
<1> DEFINE s == head[p]
           v == via[p]
           n == pc[p]
           found == <<stackdepth[p], trail[p]>>
<1>1. /\ at[p] = "loop" /\ at'[p] = "first" /\ ~InBlock(p) /\ InBlock(p)'
      /\ file' = file /\ rev' = rev /\ exmap' = exmap /\ insts' = insts /\ head' = head /\ via' = via
      /\ stackdepth' = stackdepth /\ trail' = trail /\ pc' = pc /\ err' = err
      /\ n < MaxBlocks /\ was'[p] = Append(SubSeq(was[p], 1, n), found)
  BY SequencesOfP DEF BeginBlock, InBlock, code
<1>2. /\ n \in 0..MaxBlocks /\ n \in Nat /\ was[p] \in Seq(Stacks \X Seq(Label))
      /\ found \in Stacks \X Seq(Label)
  BY DEF Typed
<1>3. Past(p) /\ Resting(p) /\ Before(p) /\ insts[p] = <<>>
  BY <1>1 DEF OnItsWay, Resting
<1>4. /\ Len(was'[p]) = n + 1 /\ was'[p][n + 1] = found
      /\ \A j \in 1..n : was'[p][j] = was[p][j]
  <2>1. Len(was[p]) >= n
    BY <1>3 DEF Past
  <2>2. /\ SubSeq(was[p], 1, n) \in Seq(Stacks \X Seq(Label)) /\ Len(SubSeq(was[p], 1, n)) = n
        /\ \A j \in 1..n : SubSeq(was[p], 1, n)[j] = was[p][j]
    BY <1>2, <2>1
  <2> HIDE DEF found, n
  <2>3. QED BY <1>1, <1>2, <2>2
<1>5. \A j : ExitOf(p, j)' = ExitOf(p, j)
  BY <1>1 DEF ExitOf
<1>6. \A j, t, w : EnteredBy(p, j, t, w)' <=> EnteredBy(p, j, t, w)
  BY <1>1, <1>5, FileStays DEF EnteredBy
<1>7. Past(p)'
  <2>1. \A j \in 1..n : Found(p, j + 1)' = Found(p, j + 1)
    <3> SUFFICES ASSUME NEW j \in 1..n PROVE Found(p, j + 1)' = Found(p, j + 1)
      OBVIOUS
    <3>1. CASE j = n
      BY <1>1, <1>4, <3>1 DEF Found
    <3>2. CASE j # n
      <4>1. j + 1 \in 1..n /\ j + 1 # n + 1
        BY <1>2, <3>2
      <4>2. QED BY <1>1, <1>4, <4>1 DEF Found
    <3>3. QED BY <3>1, <3>2
  <2>2. \A j \in 1..n : Passed(p, j)'
    <3> SUFFICES ASSUME NEW j \in 1..n PROVE Passed(p, j)'
      OBVIOUS
    <3>1. Passed(p, j)
      BY <1>3 DEF Past
    <3>2. Found(p, j + 1)' = Found(p, j + 1) /\ was'[p][j] = was[p][j] /\ exmap' = exmap
      BY <1>1, <1>4, <2>1
    <3>3. file' = file
      BY <1>1
    <3>4. QED BY <1>6, <3>1, <3>2, <3>3, FileStays DEF Passed
  <2>3. QED BY <1>1, <1>2, <1>3, <1>4, <2>2 DEF Past
<1>8. s \in Starts /\ v \in Ways /\ EnteredBy(p, n + 1, s, v) /\ Fits(stackdepth[p], s)
  BY <1>3 DEF Before, EnteredBy, Ways
<1>9. Within(p, s, v, 0)'
  <2>1. Fits(stackdepth[p], s)' /\ EnteredBy(p, n + 1, s, v)'
    BY <1>1, <1>6, <1>8, FileStays
  <2>2. \A x, t : Stack(x, t, 0)' = x
    BY DEF Stack
  <2>3. Doing(p, s, v, 0)'
    <3>1. s \in Nat
      BY <1>8, BlockFacts
    <3>2. Forwards(insts'[p], s, 0) /\ head'[p] = s + 0
      BY <1>1, <1>3, <3>1 DEF Forwards
    <3>3. QED BY <1>1, <3>2 DEF Doing, Forwards
  <2>4. was'[p][n + 1][1] = stackdepth[p] /\ was'[p][n + 1][2] = trail[p]
    BY <1>4
  <2> HIDE DEF s, v, found
  <2>5. QED BY <1>1, <1>2, <1>4, <2>1, <2>2, <2>3, <2>4 DEF Within
<1>10. OnItsWay(p)'
  <2>1. s \in Starts' /\ v \in Ways' /\ 0 \in 0..3
    BY <1>1, <1>8, FileStays
  <2>2. QED BY <1>1, <1>7, <1>9, <2>1 DEF OnItsWay
<1>11. \A k \in 0..MaxBlocks : CallDone(p, k)' <=> CallDone(p, k)
  <2>1. Len(insts'[p]) = 0 /\ ~rev'
    BY <1>1, <1>3
  <2>2. QED BY <1>1, <2>1, FileStays DEF CallDone
<1>12. QED BY <1>1, <1>10, <1>11

LEMMA BeginBackwards ==
  ASSUME WellBuilt, Typed, NEW p \in Pid, rev, OnItsWay(p), BeginBlock(p)
  PROVE  /\ OnItsWay(p)' /\ at[p] = "loop" /\ at'[p] = "first" /\ err' = err
         /\ \A k \in 0..MaxBlocks : CallDone(p, k)' <=> CallDone(p, k)
<1>0. PICK n, s, found : n = pc[p] /\ s = exmap[p][n][1] /\ found = was[p][n]
  OBVIOUS
<1>1. /\ at[p] = "loop" /\ at'[p] = "first" /\ ~InBlock(p) /\ InBlock(p)'
      /\ file' = file /\ rev' = rev /\ exmap' = exmap /\ insts' = insts /\ head' = head /\ via' = via
      /\ stackdepth' = stackdepth /\ trail' = trail /\ was' = was /\ err' = err
      /\ n > 0 /\ pc'[p] = n - 1
  BY <1>0, SequencesOfP DEF BeginBlock, InBlock, code
<1>2. /\ n \in 1..MaxBlocks /\ n \in Nat /\ n - 1 \in Nat /\ n - 1 + 1 = n /\ MaxBlocks \in Nat
      /\ insts[p] = <<>> /\ Past(p) /\ Behind(p)
  <2>1. n \in 0..MaxBlocks
    BY <1>0 DEF Typed
  <2>2. n \in 1..MaxBlocks /\ n \in Nat /\ n - 1 \in Nat /\ n - 1 + 1 = n
    BY <1>1, <2>1
  <2>3. QED BY <1>0, <1>1, <2>2, WalkAssumption DEF OnItsWay, Resting
<1>3. Len(exmap[p]) >= n /\ Len(was[p]) >= n /\ Passed(p, n)
  BY <1>0, <1>2 DEF Past
<1>4. PICK v \in Ways :
         /\ EnteredBy(p, n, s, v)
         /\ Found(p, n + 1) = <<Stack(found[1], s, 3), Trail(found[2], s, v)>>
  BY <1>0, <1>3 DEF Passed
<1>5. /\ Forwards(exmap[p][n], s, 3) /\ Fits(found[1], s)
      /\ stackdepth[p] = Stack(found[1], s, 3) /\ trail[p] = Trail(found[2], s, v)
  <2>1. Found(p, n + 1) = <<stackdepth[p], trail[p]>>
    BY <1>0, <1>1 DEF Found
  <2>2. QED BY <1>0, <1>3, <1>4, <2>1 DEF Passed
<1>6. s \in Starts /\ s \in Nat /\ head[p] = s + 3
  <2>1. s \in Starts /\ s \in Nat
    BY <1>4, BlockFacts DEF EnteredBy
  <2>2. head[p] = s + 2 + 1
    BY <1>0, <1>2 DEF Behind, ExitOf
  <2>3. QED BY <2>1, <2>2
<1>7. \A j : ExitOf(p, j)' = ExitOf(p, j)
  BY <1>1 DEF ExitOf
<1>8. \A j, t, w : EnteredBy(p, j, t, w)' <=> EnteredBy(p, j, t, w)
  BY <1>1, <1>7, FileStays DEF EnteredBy
<1>9. Past(p)'
  <2>1. \A j \in 1..(n - 1) : Passed(p, j)'
    <3> SUFFICES ASSUME NEW j \in 1..(n - 1) PROVE Passed(p, j)'
      OBVIOUS
    <3>1. Passed(p, j)
      BY <1>0, <1>2 DEF Past
    <3>2. Found(p, j + 1)' = Found(p, j + 1)
      <4>1. j + 1 # n + 1
        BY <1>2
      <4>2. QED BY <1>0, <1>1, <4>1 DEF Found
    <3>3. file' = file /\ was' = was /\ exmap' = exmap
      BY <1>1
    <3>4. QED BY <1>8, <3>1, <3>2, <3>3, FileStays DEF Passed
  <2>2. Len(exmap[p]) >= n - 1 /\ Len(was[p]) >= n - 1
    <3>1. Len(exmap[p]) \in Nat /\ Len(was[p]) \in Nat
      BY DEF Typed
    <3>2. QED BY <1>2, <1>3, <3>1
  <2>3. QED BY <1>1, <2>1, <2>2 DEF Past
<1>10. Within(p, s, v, 3)'
  <2>1. Fits(found[1], s)' /\ EnteredBy(p, n, s, v)'
    BY <1>1, <1>4, <1>5, <1>8, FileStays
  <2>2. stackdepth[p] = Stack(found[1], s, 3)' /\ trail[p] = Trail(found[2], s, v)'
    BY <1>1, <1>5, FileStays
  <2>3. Len(exmap[p]) > n - 1 /\ Len(was[p]) > n - 1 /\ n - 1 < MaxBlocks
    <3>1. Len(exmap[p]) \in Nat /\ Len(was[p]) \in Nat
      BY DEF Typed
    <3>2. QED BY <1>2, <1>3, <3>1
  <2>4. Undoing(p, s, v, 3)'
    <3>1. Backwards(insts'[p], s, 3 - 3) /\ Forwards(exmap'[p][n], s, 3)
      BY <1>1, <1>2, <1>5 DEF Backwards
    <3>2. QED BY <1>1, <1>2, <1>6, <2>3, <3>1 DEF Undoing, Forwards, Backwards
  <2>5. /\ was'[p][pc'[p] + 1] = found /\ EnteredBy(p, pc[p] + 1, s, v)'
        /\ pc'[p] < MaxBlocks /\ Len(was'[p]) > pc'[p] /\ rev'
    <3>1. pc'[p] + 1 = n
      BY <1>1, <1>2
    <3>2. QED BY <1>0, <1>1, <2>1, <2>3, <3>1
  <2>6. stackdepth'[p] = Stack(found[1], s, 3)' /\ trail'[p] = Trail(found[2], s, v)'
    BY <1>1, <2>2
  <2>7. QED BY <2>1, <2>4, <2>5, <2>6 DEF Within
<1>11. OnItsWay(p)'
  <2>1. s \in Starts' /\ v \in Ways' /\ 3 \in 0..3
    BY <1>1, <1>6, FileStays
  <2>2. QED BY <1>1, <1>9, <1>10, <2>1 DEF OnItsWay
<1>12. ASSUME NEW k \in 0..MaxBlocks
       PROVE  CallDone(p, k)' <=> CallDone(p, k)
  <2>1. Len(insts'[p]) = 0 /\ rev'
    BY <1>1, <1>2
  <2>2. CallDone(p, k) <=> k < n /\ LineAt(exmap[p][k + 1][2]).op = "call"
    BY <1>0, <1>1 DEF CallDone
  <2>3. CallDone(p, k)' <=> (k < n - 1 \/ k = n - 1) /\ LineAt(exmap[p][k + 1][2]).op = "call"
    BY <1>1, <2>1, FileStays DEF CallDone
  <2>4. QED BY <1>2, <2>2, <2>3
<1>13. QED BY <1>1, <1>11, <1>12

-----------------------------------------------------------------------------
(* The end of a block                                                      *)

LEMMA FinishForwards ==
  ASSUME WellBuilt, Typed, NEW p \in Pid, ~rev, OnItsWay(p), FinishBlock(p)
  PROVE  /\ OnItsWay(p)' /\ at[p] \in {"end", "last"} /\ at'[p] \in {"loop", "stopped"}
         /\ err' = err /\ Done(p)' /\ pc[p] < MaxBlocks
         /\ \A k \in 0..MaxBlocks : CallDone(p, k)' <=> CallDone(p, k)
<1>0. PICK n, found, lines : n = pc[p] /\ found = was[p][n + 1] /\ lines = insts[p]
  OBVIOUS
<1>1. /\ at[p] \in {"end", "last"} /\ InBlock(p) /\ ~InBlock(p)'
      /\ at'[p] = (IF at[p] = "last" THEN "stopped" ELSE "loop")
      /\ file' = file /\ rev' = rev /\ head' = head /\ via' = via
      /\ stackdepth' = stackdepth /\ trail' = trail /\ was' = was /\ err' = err
      /\ insts'[p] = <<>> /\ pc'[p] = n + 1 /\ exmap'[p] = Append(SubSeq(exmap[p], 1, n), lines)
  BY <1>0, SequencesOfP DEF FinishBlock, InBlock, code
<1>2. PICK s \in Starts, v \in Ways, d \in 0..3 : Within(p, s, v, d)
  BY <1>1 DEF OnItsWay
<1>3. /\ n \in Nat /\ n < MaxBlocks /\ s \in Nat /\ Past(p)
      /\ d = 3 /\ Doing(p, s, v, 3) /\ Forwards(lines, s, 3)
  <2>1. n \in Nat /\ s \in Nat /\ n < MaxBlocks /\ Past(p)
    BY <1>0, <1>2, BlockFacts DEF Typed, Within, OnItsWay
  <2>2. Doing(p, s, v, d)
    BY <1>2 DEF Within
  <2>3. d = 3
    BY <1>1, <2>2 DEF Doing
  <2>4. QED BY <1>0, <2>1, <2>2, <2>3 DEF Doing
<1>4. /\ lines[1] = s /\ lines[2] = s + 1 /\ Len(lines) = 3 /\ lines \in Seq(Int)
      /\ found \in Stacks \X Seq(Label) /\ found[1] \in Stacks /\ Fits(found[1], s)
      /\ stackdepth[p] = Stack(found[1], s, 3) /\ trail[p] = Trail(found[2], s, v)
      /\ EnteredBy(p, n + 1, s, v) /\ Len(was[p]) > n
  <2>1. lines[1] = s /\ lines[2] = s + 1 /\ Len(lines) = 3
    BY <1>3 DEF Forwards
  <2>2. lines \in Seq(Int)
    BY <1>0 DEF Typed
  <2>3. /\ found \in Stacks \X Seq(Label) /\ found[1] \in Stacks /\ Fits(found[1], s)
        /\ stackdepth[p] = Stack(found[1], s, 3)
    BY <1>0, <1>2, <1>3, WithinFacts
  <2>4. trail[p] = Trail(found[2], s, v) /\ EnteredBy(p, n + 1, s, v) /\ Len(was[p]) > n
    BY <1>0, <1>2, <1>3 DEF Within
  <2>5. QED BY <2>1, <2>2, <2>3, <2>4
<1>5. /\ Len(exmap'[p]) = n + 1 /\ exmap'[p][n + 1] = lines
      /\ \A j \in 1..n : exmap'[p][j] = exmap[p][j]
  <2>1. Len(exmap[p]) >= n /\ exmap[p] \in Seq(Seq(Int))
    BY <1>0, <1>3 DEF Past, Typed
  <2>2. /\ SubSeq(exmap[p], 1, n) \in Seq(Seq(Int)) /\ Len(SubSeq(exmap[p], 1, n)) = n
        /\ \A j \in 1..n : SubSeq(exmap[p], 1, n)[j] = exmap[p][j]
    BY <1>3, <2>1
  <2>3. QED BY <1>1, <1>3, <1>4, <2>2
<1>6. \A j \in 1..n : ExitOf(p, j)' = ExitOf(p, j)
  BY <1>5 DEF ExitOf
<1>7. ExitOf(p, n + 1)' = s + 2
  BY <1>4, <1>5 DEF ExitOf
<1>8. \A j \in 1..(n + 1) : \A t, w : EnteredBy(p, j, t, w)' <=> EnteredBy(p, j, t, w)
  <2> SUFFICES ASSUME NEW j \in 1..(n + 1), NEW t, NEW w
               PROVE  EnteredBy(p, j, t, w)' <=> EnteredBy(p, j, t, w)
    OBVIOUS
  <2>1. j # 1 => j - 1 \in 1..n
    BY <1>3
  <2>2. j # 1 => ExitOf(p, j - 1)' = ExitOf(p, j - 1)
    BY <1>6, <2>1
  <2>3. QED BY <1>1, <2>2, FileStays DEF EnteredBy
<1>9. Past(p)'
  <2>1. ASSUME NEW j \in 1..n PROVE Passed(p, j)'
    <3>1. Passed(p, j)
      BY <1>0, <1>3 DEF Past
    <3>2. Found(p, j + 1)' = Found(p, j + 1)
      <4>1. j + 1 # n + 1 + 1
        BY <1>3
      <4>2. QED BY <1>0, <1>1, <4>1 DEF Found
    <3>3. file' = file /\ was' = was /\ exmap'[p][j] = exmap[p][j] /\ j \in 1..(n + 1)
      BY <1>1, <1>3, <1>5
    <3>4. QED BY <1>8, <3>1, <3>2, <3>3, FileStays DEF Passed
  <2>2. Passed(p, n + 1)'
    <3>1. Found(p, n + 1 + 1)' = <<Stack(found[1], s, 3)', Trail(found[2], s, v)'>>
      BY <1>1, <1>4, FileStays DEF Found
    <3>2. EnteredBy(p, n + 1, s, v)' /\ v \in Ways' /\ Fits(found[1], s)'
      <4>1. n + 1 \in 1..(n + 1)
        BY <1>3
      <4>2. QED BY <1>1, <1>4, <1>8, <4>1, FileStays
    <3>3. exmap'[p][n + 1][1] = s /\ Forwards(exmap'[p][n + 1], s, 3) /\ was'[p][n + 1] = found
      BY <1>0, <1>1, <1>3, <1>4, <1>5
    <3>4. QED BY <3>1, <3>2, <3>3 DEF Passed, Forwards
  <2>3. \A j \in 1..(n + 1) : Passed(p, j)'
    <3>1. \A j \in 1..(n + 1) : j \in 1..n \/ j = n + 1
      BY <1>3
    <3>2. QED BY <2>1, <2>2, <3>1
  <2>4. Len(was[p]) >= n + 1
    <3>1. Len(was[p]) \in Nat
      BY DEF Typed
    <3>2. QED BY <1>3, <1>4, <3>1
  <2>5. QED BY <1>1, <1>3, <1>5, <2>3, <2>4 DEF Past
<1>10. ASSUME at[p] = "last"
       PROVE  OnItsWay(p)' /\ Done(p)'
  <2>1. IsEnd(LineAt(s + 2)) /\ head[p] = s + 3 /\ via[p] = <<>> /\ at'[p] = "stopped"
    BY <1>1, <1>3, <1>10 DEF Doing
  <2>2. Behind(p)' /\ AtEnd(p)'
    <3>1. pc'[p] > 0 /\ head'[p] = ExitOf(p, pc[p])' + 1 /\ IsEnd(LineAt(ExitOf(p, pc[p])))'
      BY <1>1, <1>3, <1>7, <2>1, FileStays DEF IsEnd
    <3>2. QED BY <1>1, <2>1, <3>1 DEF Behind, AtEnd, IsEnd
  <2>3. Resting(p)' /\ Done(p)'
    BY <1>1, <2>1, <2>2 DEF Resting, Done
  <2>4. QED BY <1>1, <1>9, <2>3 DEF OnItsWay
<1>11. ASSUME at[p] = "end"
       PROVE  OnItsWay(p)' /\ Done(p)'
  <2>1. PICK l \in Label : via[p] = <<l>> /\ Leads(l, s + 2, head[p])
    BY <1>3, <1>11 DEF Doing
  <2>2. head[p] \in Starts /\ Fits(stackdepth[p], head[p])
    BY <1>4, <2>1, LeadsFacts, StackInBlock
  <2>3. EnteredBy(p, pc[p] + 1, head[p], via[p])'
    <3>1. pc'[p] + 1 # 1 /\ pc'[p] + 1 - 1 = n + 1
      BY <1>1, <1>3
    <3>2. Leads(l, ExitOf(p, pc[p] + 1 - 1), head[p])' /\ l \in Label' /\ head'[p] \in Starts'
      BY <1>1, <1>7, <2>1, <2>2, <3>1, FileStays
    <3>3. \E m \in Label' : via'[p] = <<m>> /\ Leads(m, ExitOf(p, pc[p] + 1 - 1), head[p])'
      BY <1>1, <2>1, <3>2
    <3>4. pc'[p] \in Nat
      BY <1>1, <1>3
    <3>5. QED BY <3>1, <3>2, <3>3, <3>4 DEF EnteredBy
  <2>4. Before(p)'
    BY <1>1, <2>2, <2>3, FileStays DEF Before
  <2>5. Resting(p)' /\ Done(p)'
    BY <1>1, <1>11, <2>4 DEF Resting, Done
  <2>6. QED BY <1>1, <1>9, <2>5 DEF OnItsWay
<1>12. ASSUME NEW k \in 0..MaxBlocks
       PROVE  CallDone(p, k)' <=> CallDone(p, k)
  <2>1. k < n => k + 1 \in 1..n
    BY <1>3
  <2>2. k < n + 1 <=> k < n \/ k = n
    BY <1>3
  <2>3. CallDone(p, k)' <=> k < n + 1 /\ LineAt(exmap'[p][k + 1][2]).op = "call"
    BY <1>1, FileStays DEF CallDone
  <2>4. CallDone(p, k) <=> \/ k < n /\ LineAt(exmap[p][k + 1][2]).op = "call"
                           \/ k = n /\ LineAt(lines[2]).op = "call"
    BY <1>0, <1>1, <1>4 DEF CallDone
  <2>5. QED BY <1>5, <2>1, <2>2, <2>3, <2>4
<1>13. QED BY <1>0, <1>1, <1>3, <1>10, <1>11, <1>12

LEMMA FinishBackwards ==
  ASSUME WellBuilt, Typed, NEW p \in Pid, rev, OnItsWay(p), FinishBlock(p)
  PROVE  /\ OnItsWay(p)' /\ at[p] \in {"end", "last"} /\ at'[p] \in {"loop", "stopped"}
         /\ err' = err /\ Done(p)'
         /\ \A k \in 0..MaxBlocks : CallDone(p, k)' <=> CallDone(p, k)
<1>0. PICK n, found : n = pc[p] /\ found = was[p][n + 1]
  OBVIOUS
<1>1. /\ at[p] \in {"end", "last"} /\ InBlock(p) /\ ~InBlock(p)'
      /\ at'[p] = (IF at[p] = "last" THEN "stopped" ELSE "loop")
      /\ file' = file /\ rev' = rev /\ head' = head /\ via' = via
      /\ stackdepth' = stackdepth /\ trail' = trail /\ was' = was /\ exmap' = exmap /\ pc' = pc
      /\ insts'[p] = <<>>
      /\ Fail(n \in 0..(Len(exmap[p]) - 1) /\ Reverse(insts[p]) = exmap[p][n + 1], "Unmatched execution")
  BY <1>0, SequencesOfP DEF FinishBlock, InBlock, code
<1>2. PICK s \in Starts, v \in Ways, d \in 0..3 : Within(p, s, v, d)
  BY <1>1 DEF OnItsWay
<1>3. /\ n \in Nat /\ s \in Nat /\ Past(p) /\ d = 0 /\ Undoing(p, s, v, 0)
  <2>1. n \in Nat /\ s \in Nat /\ Past(p)
    BY <1>0, <1>2, BlockFacts DEF Typed, OnItsWay
  <2>2. Undoing(p, s, v, d)
    BY <1>2 DEF Within
  <2>3. d = 0
    BY <1>1, <2>2 DEF Undoing
  <2>4. QED BY <2>1, <2>2, <2>3
<1>4. /\ found \in Stacks \X Seq(Label) /\ found[1] \in Stacks /\ Fits(found[1], s)
      /\ stackdepth[p] = found[1] /\ trail[p] = found[2]
      /\ EnteredBy(p, n + 1, s, v) /\ Len(was[p]) > n
  <2>1. /\ found \in Stacks \X Seq(Label) /\ found[1] \in Stacks /\ Fits(found[1], s)
        /\ stackdepth[p] = Stack(found[1], s, d)
    BY <1>0, <1>2, WithinFacts
  <2>2. stackdepth[p] = found[1]
    BY <1>3, <2>1 DEF Stack
  <2>3. trail[p] = found[2] /\ EnteredBy(p, n + 1, s, v) /\ Len(was[p]) > n
    BY <1>0, <1>2, <1>3 DEF Within
  <2>4. QED BY <2>1, <2>2, <2>3
<1>5. Len(insts[p]) = 3 /\ err' = err
  <2>1. /\ Len(exmap[p]) > n /\ Forwards(exmap[p][n + 1], s, 3) /\ Backwards(insts[p], s, 3)
        /\ exmap[p] \in Seq(Seq(Int)) /\ insts[p] \in Seq(Int)
    BY <1>0, <1>3 DEF Undoing, Typed
  <2>2. exmap[p][n + 1] \in Seq(Int) /\ n \in 0..(Len(exmap[p]) - 1)
    BY <1>3, <2>1
  <2>3. Reverse(insts[p]) = exmap[p][n + 1]
    <3>1. s \in Int
      BY <1>3
    <3>2. \A y \in Seq(Int) : Forwards(y, s, 3) /\ Backwards(insts[p], s, 3) => Reverse(insts[p]) = y
      BY <2>1, <3>1, NextLine
    <3>3. QED BY <2>1, <2>2, <3>2
  <2>4. QED BY <1>1, <2>1, <2>2, <2>3 DEF Fail, Backwards
<1>6. \A j : ExitOf(p, j)' = ExitOf(p, j)
  BY <1>1 DEF ExitOf
<1>7. \A j, t, w : EnteredBy(p, j, t, w)' <=> EnteredBy(p, j, t, w)
  BY <1>1, <1>6, FileStays DEF EnteredBy
<1>8. Past(p)'
  <2>1. \A j \in 1..n : Passed(p, j)'
    <3> SUFFICES ASSUME NEW j \in 1..n PROVE Passed(p, j)'
      OBVIOUS
    <3>1. Passed(p, j)
      BY <1>0, <1>3 DEF Past
    <3>2. Found(p, j + 1)' = Found(p, j + 1)
      <4>1. CASE j = n
        <5>1. found = <<found[1], found[2]>>
          BY <1>4
        <5>2. QED BY <1>0, <1>1, <1>4, <4>1, <5>1 DEF Found
      <4>2. CASE j # n
        <5>1. j + 1 # n + 1
          BY <1>3, <4>2
        <5>2. QED BY <1>0, <1>1, <5>1 DEF Found
      <4>3. QED BY <4>1, <4>2
    <3>3. file' = file /\ was' = was /\ exmap' = exmap
      BY <1>1
    <3>4. QED BY <1>7, <3>1, <3>2, <3>3, FileStays DEF Passed
  <2>2. QED BY <1>0, <1>1, <1>3, <2>1 DEF Past
<1>9. ASSUME at[p] = "last"
      PROVE  OnItsWay(p)' /\ Done(p)'
  <2>1. LineAt(s).op = "begin" /\ head[p] = s /\ via[p] = <<>> /\ at'[p] = "stopped"
    BY <1>1, <1>3, <1>9 DEF Undoing
  <2>2. n = 0 /\ v = <<>>
    <3>1. n = 0
      <4>1. n # 0 => \E l \in Label : Leads(l, ExitOf(p, n), s)
        BY <1>3, <1>4, EntryCases
      <4>2. \A l, i : ~Leads(l, i, s)
        BY <2>1, LeadsFacts
      <4>3. QED BY <4>1, <4>2
    <3>2. QED BY <1>4, <3>1 DEF EnteredBy
  <2>3. AtBegin(p)'
    <3>1. EnteredBy(p, pc[p] + 1, head[p], via[p])'
      BY <1>0, <1>1, <1>4, <1>7, <2>1, <2>2
    <3>2. Fits(stackdepth[p], head[p])'
      BY <1>1, <1>4, <2>1, FileStays
    <3>3. QED BY <1>0, <1>1, <2>2, <3>1, <3>2 DEF AtBegin, Before
  <2>4. Resting(p)' /\ Done(p)'
    BY <1>1, <2>1, <2>3 DEF Resting, Done
  <2>5. QED BY <1>1, <1>8, <2>4 DEF OnItsWay
<1>10. ASSUME at[p] = "end"
       PROVE  OnItsWay(p)' /\ Done(p)'
  <2>1. LineAt(s).op # "begin" /\ head[p] = ExitOf(p, n) + 1 /\ via[p] = v
    BY <1>0, <1>3, <1>10 DEF Undoing
  <2>2. n # 0 /\ \E l \in Label : v = <<l>> /\ Leads(l, ExitOf(p, n), s)
    BY <1>3, <1>4, <2>1, EntryFacts
  <2>3. PICK l \in Label : via[p] = <<l>> /\ Leads(l, ExitOf(p, n), s)
    BY <2>1, <2>2
  <2>4. /\ file.comemap[l] = s /\ LineAt(ExitOf(p, n)).op \in {"goto", "branch"}
    BY <2>3, LeadsFacts
  <2>5. Behind(p)'
    <3>1. pc'[p] > 0 /\ head'[p] = ExitOf(p, pc[p])' + 1
      <4>1. n > 0 /\ pc'[p] = n /\ head'[p] = head[p]
        <5>1. n \in Nat /\ n # 0
          BY <1>3, <2>2
        <5>2. n > 0
          BY <5>1
        <5>3. QED BY <1>0, <1>1, <5>2
      <4>2. ExitOf(p, pc[p])' = ExitOf(p, n)
        BY <1>6, <4>1
      <4>3. QED BY <2>1, <4>1, <4>2
    <3>2. ~IsEnd(LineAt(ExitOf(p, pc[p])))'
      BY <1>0, <1>1, <1>6, <2>4, FileStays DEF IsEnd
    <3>3. l \in Label' /\ via'[p] = <<l>> /\ Leads(l, ExitOf(p, pc[p]), file.comemap[l])'
      BY <1>0, <1>1, <1>6, <2>3, <2>4, FileStays
    <3>4. QED BY <3>1, <3>2, <3>3 DEF Behind
  <2>6. Resting(p)' /\ Done(p)'
    BY <1>1, <1>10, <2>5 DEF Resting, Done
  <2>7. QED BY <1>1, <1>8, <2>6 DEF OnItsWay
<1>11. ASSUME NEW k \in 0..MaxBlocks
       PROVE  CallDone(p, k)' <=> CallDone(p, k)
  <2>1. CallDone(p, k)' <=> k < n /\ LineAt(exmap[p][k + 1][2]).op = "call"
    BY <1>0, <1>1, FileStays DEF CallDone
  <2>2. CallDone(p, k) <=> k < n /\ LineAt(exmap[p][k + 1][2]).op = "call"
    <3>1. ~(Len(insts[p]) < 2)
      BY <1>5
    <3>2. QED BY <1>0, <3>1, Zenon DEF CallDone
  <2>3. QED BY <2>1, <2>2
<1>12. QED BY <1>1, <1>5, <1>9, <1>10, <1>11

-----------------------------------------------------------------------------
(* A line that is no call                                                  *)

Line(p) ==
    \/ /\ at[p] \in {"first", "rest", "sem"}
       /\ Instruction(p)
    \/ /\ at[p] \in {"first", "rest"}
       /\ \/ SemWait(p)
          \/ PassJoin(p)
          \/ Boundary(p)
          \/ ChangeDepth(p)
          \/ \E l \in ToSet(Current(p).arg) : Leave(p, l)
          \/ \E l \in CameBy(p) : Return(p, l)

\* Who does this is left with its calls as they were.
Moves(p) ==
    /\ OnItsWay(p)' /\ err' = err
    /\ at[p] \notin {"none", "stopped", "call"} /\ at'[p] \notin {"none", "call"}
    /\ Done(p)'
    /\ \A k \in 0..MaxBlocks : CallDone(p, k)' <=> CallDone(p, k)

LEMMA WaitMoves ==
  ASSUME WellBuilt, Typed, NEW p \in Pid, Past(p), at[p] \in {"first", "rest"},
         NEW s \in Starts, NEW v \in Ways, NEW d \in 0..3, Within(p, s, v, d),
         SemWait(p), InSameBlock(p)
  PROVE  Moves(p) /\ InBlock(p)'
<1>1. /\ Current(p).op \in {"V", "P"} /\ at'[p] = "sem" /\ err' = err
      /\ head'[p] = head[p] /\ insts'[p] = insts[p] /\ stackdepth'[p] = stackdepth[p]
      /\ via'[p] = via[p] /\ trail'[p] = trail[p]
  BY SequencesOfP DEF SemWait, Is
<1>2. OnItsWay(p)' /\ InBlock(p)' /\ Within(p, s, v, d)'
  BY <1>1, WaitsInBlock
<1>3. InBlock(p) /\ s \in Nat
  BY BlockFacts DEF InBlock
<1>4. \A k \in 0..MaxBlocks : CallDone(p, k)' <=> CallDone(p, k)
  BY <1>2, <1>3, SameCalls
<1>5. QED BY <1>1, <1>2, <1>4 DEF Moves, Done

LEMMA LineMoves ==
  ASSUME WellBuilt, Typed, NEW p \in Pid, OnItsWay(p), Line(p), InSameBlock(p)
  PROVE  Moves(p) /\ InBlock(p)'
<1>1. InBlock(p) /\ Past(p) /\ at[p] \in {"first", "rest", "sem"}
  BY DEF Line, InBlock, OnItsWay
<1>2. PICK s \in Starts, v \in Ways, d \in 0..3 : Within(p, s, v, d)
  BY <1>1 DEF OnItsWay
<1>3. s \in Nat /\ at[p] \in {"first", "rest", "sem", "call"}
  BY <1>1, BlockFacts
<1>4. CASE ~rev
  <2>1. ASSUME d \in 0..2, LineForwards(p, s, v, d), err' = err, d = 1 => LineAt(s + 1).op # "call"
        PROVE  Moves(p) /\ InBlock(p)'
    <3>1. OnItsWay(p)' /\ InBlock(p)' /\ Within(p, s, v, d + 1)'
      BY <1>1, <1>2, <1>4, <2>1, LineDone
    <3>2. d + 1 \in 0..3 /\ (d # 1 => (d >= 2 <=> d + 1 >= 2))
      BY <2>1
    <3>3. \A k \in 0..MaxBlocks : CallDone(p, k)' <=> CallDone(p, k)
      BY <1>1, <1>2, <1>3, <2>1, <3>1, <3>2, SameCalls
    <3>4. at'[p] \in {"rest", "last", "end"}
      BY <2>1 DEF LineForwards
    <3>5. QED BY <1>1, <2>1, <3>1, <3>3, <3>4 DEF Moves, Done
  <2>2. CASE Instruction(p)
    <3>1. d \in 0..1 /\ LineForwards(p, s, v, d) /\ err' = err /\ (d = 1 => LineAt(s + 1).op # "call")
      BY <1>2, <1>3, <1>4, <2>2, InstructionForwards
    <3>2. QED BY <2>1, <3>1
  <2>3. CASE at[p] \in {"first", "rest"} /\ PassJoin(p)
    BY <1>2, <1>4, <2>1, <2>3, PassJoinForwards
  <2>4. CASE at[p] \in {"first", "rest"} /\ Boundary(p)
    <3>1. d \in {0, 2} /\ LineForwards(p, s, v, d) /\ err' = err
      BY <1>2, <1>4, <2>4, BoundaryForwards
    <3>2. QED BY <2>1, <3>1
  <2>5. CASE at[p] \in {"first", "rest"} /\ ChangeDepth(p)
    <3>1. d = 1 /\ LineForwards(p, s, v, d) /\ err' = err /\ LineAt(s + 1).op # "call"
      BY <1>2, <1>4, <2>5, ChangeDepthForwards
    <3>2. QED BY <2>1, <3>1
  <2>6. ASSUME at[p] \in {"first", "rest"}, NEW l, Leave(p, l)
        PROVE  Moves(p) /\ InBlock(p)'
    <3>1. d = 2 /\ LineForwards(p, s, v, d) /\ err' = err
      BY <1>2, <1>4, <2>6, LeaveForwards
    <3>2. QED BY <2>1, <3>1
  <2>7. ~\E l \in CameBy(p) : Return(p, l)
    BY <1>4 DEF Return
  <2>8. CASE at[p] \in {"first", "rest"} /\ SemWait(p)
    BY <1>1, <1>2, <1>3, <2>8, WaitMoves
  <2>9. QED BY <2>2, <2>3, <2>4, <2>5, <2>6, <2>7, <2>8 DEF Line
<1>5. CASE rev
  <2>1. ASSUME d \in 1..3, LineBackwards(p, s, v, d), err' = err, d = 2 => LineAt(s + 1).op # "call"
        PROVE  Moves(p) /\ InBlock(p)'
    <3>1. OnItsWay(p)' /\ InBlock(p)' /\ Within(p, s, v, d - 1)'
      BY <1>1, <1>2, <1>5, <2>1, LineUndone
    <3>2. d - 1 \in 0..3 /\ (d # 2 => (d >= 2 <=> d - 1 >= 2))
      BY <2>1
    <3>3. \A k \in 0..MaxBlocks : CallDone(p, k)' <=> CallDone(p, k)
      BY <1>1, <1>2, <1>3, <2>1, <3>1, <3>2, SameCalls
    <3>4. at'[p] \in {"rest", "last", "end"}
      BY <2>1 DEF LineBackwards
    <3>5. QED BY <1>1, <2>1, <3>1, <3>3, <3>4 DEF Moves, Done
  <2>2. CASE Instruction(p)
    <3>1. d \in 2..3 /\ LineBackwards(p, s, v, d) /\ err' = err /\ (d = 2 => LineAt(s + 1).op # "call")
      BY <1>2, <1>3, <1>5, <2>2, InstructionBackwards
    <3>2. QED BY <2>1, <3>1
  <2>3. ~PassJoin(p) /\ ~\E l : Leave(p, l)
    BY <1>5 DEF PassJoin, Leave
  <2>4. CASE at[p] \in {"first", "rest"} /\ Boundary(p)
    <3>1. d \in {1, 3} /\ LineBackwards(p, s, v, d) /\ err' = err
      BY <1>2, <1>5, <2>4, BoundaryBackwards
    <3>2. QED BY <2>1, <3>1
  <2>5. CASE at[p] \in {"first", "rest"} /\ ChangeDepth(p)
    <3>1. d = 2 /\ LineBackwards(p, s, v, d) /\ err' = err /\ LineAt(s + 1).op # "call"
      BY <1>2, <1>5, <2>5, ChangeDepthBackwards
    <3>2. QED BY <2>1, <3>1
  <2>6. ASSUME at[p] \in {"first", "rest"}, NEW l \in CameBy(p), Return(p, l)
        PROVE  Moves(p) /\ InBlock(p)'
    <3>1. d = 1 /\ LineBackwards(p, s, v, d) /\ err' = err
      BY <1>2, <1>5, <2>6, ReturnBackwards
    <3>2. QED BY <2>1, <3>1
  <2>7. CASE at[p] \in {"first", "rest"} /\ SemWait(p)
    BY <1>1, <1>2, <1>3, <2>7, WaitMoves
  <2>8. QED BY <2>2, <2>3, <2>4, <2>5, <2>6, <2>7 DEF Line
<1>6. QED BY <1>4, <1>5

LEMMA BlockMoves ==
  ASSUME WellBuilt, Typed, NEW p \in Pid, OnItsWay(p), BeginBlock(p) \/ FinishBlock(p)
  PROVE  Moves(p)
<1>1. CASE BeginBlock(p)
  BY <1>1, BeginForwards, BeginBackwards DEF Moves, Done
<1>2. CASE FinishBlock(p)
  BY <1>2, FinishForwards, FinishBackwards DEF Moves
<1>3. QED BY <1>1, <1>2

-----------------------------------------------------------------------------
(* Parents and children                                                    *)

LEMMA KidsExist ==
  ASSUME Typed, NEW a, NEW k, NEW q \in Kids(a, k)
  PROVE  q \in Pid
<1>1. <<a, k>> \in DOMAIN callpids /\ q \in ToSet(callpids[<<a, k>>])
  BY DEF Kids
<1>2. callpids[<<a, k>>] \in Seq(Pid)
  BY <1>1 DEF Typed
<1>3. QED BY <1>1, <1>2 DEF ToSet

LEMMA FamilyMoves ==
  ASSUME Typed, Family, NEW p \in Pid, Moves(p), \A q \in Pid \ {p} : Stays(q),
         npcs' = npcs, callpids' = callpids
  PROVE  Family'
<1>1. \A a, k : Kids(a, k)' = Kids(a, k)
  BY DEF Kids
<1>2. \A q \in Pid \ {p} :
         /\ at'[q] = at[q] /\ Done(q)' = Done(q) /\ Active(q)' = Active(q) /\ pc'[q] = pc[q]
         /\ AtBegin(q)' = AtBegin(q) /\ AtEnd(q)' = AtEnd(q)
         /\ \A k : CallDone(q, k)' = CallDone(q, k) /\ Calling(q, k)' = Calling(q, k)
  BY ProcessStays DEF Stays
<1>3. \A k : ~Calling(p, k) /\ ~Calling(p, k)'
  BY DEF Calling, Moves
<1>4. \A a \in Pid, k \in 0..MaxBlocks :
         (CallDone(a, k)' <=> CallDone(a, k)) /\ (Calling(a, k)' <=> Calling(a, k))
  BY <1>2, <1>3 DEF Moves
<1>5. Born'
  BY <1>2 DEF Family, Born, Moves
<1>6. ASSUME NEW a \in Pid, NEW k \in 0..MaxBlocks
      PROVE  Linked(a, k)'
  <2>1. Linked(a, k)
    BY DEF Family
  <2>2. ASSUME NEW q \in Kids(a, k)
        PROVE  IF Calling(a, k)' THEN Done(q)'
               ELSE at'[q] = "stopped" /\ IF CallDone(a, k)' THEN AtEnd(q)' ELSE AtBegin(q)'
    <3>1. IF Calling(a, k) THEN Done(q)
          ELSE at[q] = "stopped" /\ IF CallDone(a, k) THEN AtEnd(q) ELSE AtBegin(q)
      BY <2>1, <2>2 DEF Linked
    <3>2. CASE q = p
      <4>1. Calling(a, k) /\ Calling(a, k)'
        BY <1>4, <3>1, <3>2 DEF Moves
      <4>2. QED BY <3>2, <4>1 DEF Moves
    <3>3. CASE q # p
      <4>1. q \in Pid
        BY <2>1, <2>2, KidsExist
      <4>2. QED BY <1>2, <1>4, <3>1, <3>3, <4>1
    <3>4. QED BY <3>2, <3>3
  <2>3. QED BY <1>1, <1>4, <2>1, <2>2 DEF Linked
<1>7. Apart'
  BY <1>1 DEF Family, Apart
<1>8. Called'
  <2> SUFFICES ASSUME NEW q \in Pid \ {0}, Active(q)'
               PROVE  \E a \in Pid : at'[a] = "call" /\ q \in Kids(a, pc[a])'
    BY DEF Called
  <2>1. Active(q)
    BY <1>2 DEF Active, Moves
  <2>2. PICK a \in Pid : at[a] = "call" /\ q \in Kids(a, pc[a])
    BY <2>1 DEF Family, Called
  <2>3. a # p
    BY <2>2 DEF Moves
  <2>4. QED BY <1>1, <1>2, <2>2, <2>3
<1>9. Done(0)'
  BY <1>2, WalkAssumption DEF Family, Moves, Pid
<1>10. QED BY <1>5, <1>6, <1>7, <1>8, <1>9 DEF Family

\* A call that is done, or undone: its children have stopped where they
\* should.
LEMMA CallEndMoves ==
  ASSUME WellBuilt, Typed, Family, NEW p \in Pid, OnItsWay(p), at[p] = "call", CallEnd(p),
         InSameBlock(p), \A q \in Pid \ {p} : Stays(q)
  PROVE  OnItsWay(p)' /\ err' = err /\ at'[p] = "rest" /\ Family'
<1>1. InBlock(p) /\ Past(p) /\ pc[p] \in 0..MaxBlocks /\ at[p] \in {"first", "rest", "sem", "call"}
  BY DEF InBlock, OnItsWay, Typed
<1>2. PICK s \in Starts, v \in Ways, d \in 0..3 : Within(p, s, v, d)
  BY <1>1 DEF OnItsWay
<1>3. PICK n \in 0..MaxBlocks : n = pc[p] /\ n = pc'[p]
  BY <1>1 DEF InSameBlock
<1>4. /\ OnItsWay(p)' /\ err' = err /\ at'[p] = "rest"
      /\ CallDone(p, n)' <=> ~rev
      /\ \A k \in 0..MaxBlocks : k # n => (CallDone(p, k)' <=> CallDone(p, k))
  <2>1. s \in Nat
    BY BlockFacts
  <2>2. CASE ~rev
    <3>1. d = 1 /\ LineForwards(p, s, v, d) /\ err' = err /\ LineAt(s + 1).op = "call"
      BY <1>2, <2>2, CallEndForwards
    <3>2. OnItsWay(p)' /\ InBlock(p)' /\ Within(p, s, v, d + 1)'
      BY <1>1, <1>2, <2>2, <3>1, LineDone
    <3>3. d + 1 \in 0..3 /\ d + 1 >= 2
      BY <3>1
    <3>4. /\ CallDone(p, pc[p])' <=> d + 1 >= 2 /\ LineAt(s + 1).op = "call"
          /\ \A k \in 0..MaxBlocks : k # pc[p] => (CallDone(p, k)' <=> CallDone(p, k))
      BY <1>1, <1>2, <2>1, <3>2, <3>3, CallsOfBlock
    <3>5. at'[p] = "rest"
      BY <3>1 DEF LineForwards
    <3>6. QED BY <1>3, <2>2, <3>1, <3>2, <3>3, <3>4, <3>5
  <2>3. CASE rev
    <3>1. d = 2 /\ LineBackwards(p, s, v, d) /\ err' = err /\ LineAt(s + 1).op = "call"
      BY <1>2, <2>3, CallEndBackwards
    <3>2. OnItsWay(p)' /\ InBlock(p)' /\ Within(p, s, v, d - 1)'
      <4>1. d \in 1..3
        BY <3>1
      <4>2. QED BY <1>1, <1>2, <2>3, <3>1, <4>1, LineUndone
    <3>3. d - 1 \in 0..3 /\ ~(d - 1 >= 2)
      BY <3>1
    <3>4. /\ CallDone(p, pc[p])' <=> d - 1 >= 2 /\ LineAt(s + 1).op = "call"
          /\ \A k \in 0..MaxBlocks : k # pc[p] => (CallDone(p, k)' <=> CallDone(p, k))
      BY <1>1, <1>2, <2>1, <3>2, <3>3, CallsOfBlock
    <3>5. at'[p] = "rest"
      BY <3>1 DEF LineBackwards
    <3>6. QED BY <1>3, <2>3, <3>1, <3>2, <3>3, <3>4, <3>5
  <2>4. QED BY <2>2, <2>3
<1>5. \A a, k : Kids(a, k)' = Kids(a, k)
  BY DEF Kids, CallEnd
<1>6. \A q \in Pid \ {p} :
         /\ at'[q] = at[q] /\ Done(q)' = Done(q) /\ Active(q)' = Active(q) /\ pc'[q] = pc[q]
         /\ AtBegin(q)' = AtBegin(q) /\ AtEnd(q)' = AtEnd(q)
         /\ \A k : CallDone(q, k)' = CallDone(q, k) /\ Calling(q, k)' = Calling(q, k)
  BY ProcessStays DEF Stays
<1>7. /\ npcs' = npcs /\ callpids' = callpids /\ rev' = rev
      /\ \A q \in Kids(p, n) : at[q] = "stopped"
  <2>1. <<p, n>> \in DOMAIN callpids
    BY <1>3 DEF Family, Linked, Calling
  <2>2. Kids(p, n) = Children(p)
    BY <1>3, <2>1 DEF Kids, Children, CallNode
  <2>3. QED BY <2>2 DEF CallEnd, Joined, InSameBlock
<1>8. /\ Calling(p, n) /\ \A k : ~Calling(p, k)'
      /\ \A k : k # n => ~Calling(p, k)
  BY <1>3, <1>4 DEF Calling
<1>9. ASSUME NEW a \in Pid, NEW k \in 0..MaxBlocks
      PROVE  Linked(a, k)'
  <2>1. Linked(a, k)
    BY DEF Family
  <2>2. ASSUME NEW q \in Kids(a, k)
        PROVE  IF Calling(a, k)' THEN Done(q)'
               ELSE at'[q] = "stopped" /\ IF CallDone(a, k)' THEN AtEnd(q)' ELSE AtBegin(q)'
    <3>1. IF Calling(a, k) THEN Done(q)
          ELSE at[q] = "stopped" /\ IF CallDone(a, k) THEN AtEnd(q) ELSE AtBegin(q)
      BY <2>1, <2>2 DEF Linked
    <3>2. q \in Pid /\ a # q
      BY <2>1, <2>2, KidsExist DEF Linked, Pid
    <3>3. CASE q = p
      <4>1. Calling(a, k)
        BY <3>1, <3>3
      <4>2. Calling(a, k)' /\ Done(q)'
        BY <1>4, <1>6, <3>2, <3>3, <4>1 DEF Done
      <4>3. QED BY <4>2
    <3>4. CASE q # p /\ a # p
      BY <1>6, <3>1, <3>2, <3>4
    <3>5. CASE a = p /\ k # n
      BY <1>4, <1>6, <1>8, <3>1, <3>2, <3>5
    <3>6. CASE a = p /\ k = n
      <4>1. at[q] = "stopped" /\ Done(q)
        BY <1>7, <1>8, <2>2, <3>1, <3>6
      <4>2. IF rev THEN AtBegin(q) ELSE AtEnd(q)
        BY <4>1 DEF Done
      <4>3. QED BY <1>4, <1>6, <1>8, <3>2, <3>6, <4>1, <4>2
    <3>7. QED BY <3>3, <3>4, <3>5, <3>6
  <2>3. CallDone(a, k)' \/ Calling(a, k)' => <<a, k>> \in DOMAIN callpids
    <3>1. CASE a = p /\ k = n
      BY <1>8, <2>1, <3>1 DEF Linked
    <3>2. CASE a # p \/ k # n
      BY <1>4, <1>6, <1>8, <2>1, <3>2 DEF Linked
    <3>3. QED BY <3>1, <3>2
  <2>4. QED BY <1>5, <1>7, <2>1, <2>2, <2>3 DEF Linked
<1>10. Called'
  <2> SUFFICES ASSUME NEW q \in Pid \ {0}, Active(q)'
               PROVE  \E a \in Pid : at'[a] = "call" /\ q \in Kids(a, pc[a])'
    BY DEF Called
  <2>1. Active(q)
    BY <1>6 DEF Active
  <2>2. PICK a \in Pid : at[a] = "call" /\ q \in Kids(a, pc[a])
    BY <2>1 DEF Family, Called
  <2>3. a # p
    BY <1>3, <1>7, <2>1, <2>2 DEF Active
  <2>4. QED BY <1>5, <1>6, <2>2, <2>3
<1>11. Born' /\ Apart' /\ Done(0)'
  <2>1. Born'
    BY <1>4, <1>6, <1>7 DEF Family, Born
  <2>2. Apart'
    BY <1>5 DEF Family, Apart
  <2>3. Done(0)'
    BY <1>4, <1>6, WalkAssumption DEF Family, Done, Pid
  <2>4. QED BY <2>1, <2>2, <2>3
<1>12. QED BY <1>4, <1>9, <1>10, <1>11 DEF Family

-----------------------------------------------------------------------------
(* A call                                                                  *)

Known(p) == CallNode(p) \in DOMAIN callpids

\* The children that p's call starts.
Started(p) == IF Known(p) THEN Children(p) ELSE npcs..(npcs + Len(Current(p).arg) - 1)

LEMMA CallChildrenFacts ==
  ASSUME WellBuilt, Typed, NEW p \in Pid, NEW s \in Starts, Current(p) = LineAt(s + 1), CallChildren(p)
  PROVE  /\ Current(p).op = "call" /\ err' = err
         /\ npcs' = (IF Known(p) THEN npcs ELSE npcs + Len(Current(p).arg))
         /\ DOMAIN callpids' = DOMAIN callpids \cup {CallNode(p)}
         /\ callpids'[CallNode(p)] \in Seq(Pid) /\ ToSet(callpids'[CallNode(p)]) = Started(p)
         /\ \A n \in DOMAIN callpids : n # CallNode(p) => callpids'[n] = callpids[n]
         /\ insts' = insts /\ via' = via /\ trail' = trail
         /\ head' = [q \in Pid |-> head'[q]] /\ stackdepth' = [q \in Pid |-> stackdepth'[q]]
         /\ at' = [q \in Pid |-> at'[q]] /\ npcs' \in 1..(MaxPid + 1)
         /\ p \notin Started(p) => at'[p] = "call"
         /\ \A q \in Pid : q # p =>
               at'[q] = IF q \in Started(p) THEN "loop" ELSE at[q]
         /\ \A q \in Pid : q < npcs \/ q \notin Started(p) \/ Known(p) =>
               head'[q] = head[q] /\ stackdepth'[q] = stackdepth[q]
         /\ ~rev => \A q \in Pid : q \in Started(p) /\ ~Known(p) =>
               /\ stackdepth'[q] = stackdepth[p]
               /\ \E name \in ToSet(LineAt(s + 1).arg) : head'[q] = file.beginmap[name]
<1> DEFINE names == Current(p).arg
           labels == IF rev THEN file.endmap ELSE file.beginmap
           kids == IF Known(p) THEN callpids[CallNode(p)] ELSE [i \in DOMAIN names |-> npcs + i - 1]
<1>1. Current(p).op = "call" /\ s + 1 \in Lines
  BY BlockFacts DEF CallChildren, Is
<1>2. ToSet(names) \subseteq DOMAIN labels
  BY <1>1 DEF WellBuilt, CallsArrive, Begins
<1>3. names \in Seq(ToSet(names)) /\ npcs \in 1..(MaxPid + 1) /\ npcs \in Nat /\ MaxPid \in Nat
  BY <1>1, LineFacts, WalkAssumption DEF Typed
<1>4. Len(names) \in Nat /\ DOMAIN names = 1..Len(names)
  BY <1>3
<1>5. /\ err' = err
      /\ ~Known(p) => npcs + Len(names) <= MaxPid + 1
      /\ callpids' = [n \in DOMAIN callpids \cup {CallNode(p)} |->
                         IF n = CallNode(p) THEN kids ELSE callpids[n]]
      /\ npcs' = IF Known(p) THEN npcs ELSE npcs + Len(names)
      /\ at' = [q \in Pid |-> IF q = p THEN "call"
                              ELSE IF q \in ToSet(kids) THEN "loop" ELSE at[q]]
      /\ head' = [q \in Pid |-> IF q \in npcs..(npcs' - 1) /\ err' = err
                                THEN labels[names[q - npcs + 1]] ELSE head[q]]
      /\ stackdepth' = [q \in Pid |-> IF q \in npcs..(npcs' - 1)
                                      THEN stackdepth[p] ELSE stackdepth[q]]
      /\ insts' = insts /\ via' = via /\ trail' = trail
  BY <1>2 DEF CallChildren, Known, Fail
<1>6. kids \in Seq(Pid) /\ ToSet(kids) = Started(p)
  <2>1. CASE Known(p)
    BY <2>1 DEF Typed, Known, Started, Children
  <2>2. CASE ~Known(p)
    <3>1. kids = [i \in 1..Len(names) |-> npcs + i - 1]
      BY <1>4, <2>2
    <3>2. \A i \in 1..Len(names) : npcs + i - 1 \in Pid
      BY <1>3, <1>4, <1>5, <2>2 DEF Pid
    <3>3. kids \in Seq(Pid) /\ DOMAIN kids = 1..Len(names)
      BY <1>4, <3>1, <3>2
    <3>4. \A q \in npcs..(npcs + Len(names) - 1) : q - npcs + 1 \in 1..Len(names) /\ npcs + (q - npcs + 1) - 1 = q
      BY <1>3, <1>4
    <3>5. \A i \in 1..Len(names) : npcs + i - 1 \in npcs..(npcs + Len(names) - 1)
      BY <1>3, <1>4
    <3>6. ToSet(kids) = npcs..(npcs + Len(names) - 1)
      <4>1. ToSet(kids) = {kids[i] : i \in 1..Len(names)}
        BY <3>3 DEF ToSet
      <4>2. \A i \in 1..Len(names) : kids[i] = npcs + i - 1
        BY <3>1
      <4> HIDE DEF kids, names
      <4>3. \A i \in 1..Len(names) : kids[i] \in npcs..(npcs + Len(names) - 1)
        BY <3>5, <4>2
      <4>4. \A q \in npcs..(npcs + Len(names) - 1) : \E i \in 1..Len(names) : kids[i] = q
        <5> TAKE q \in npcs..(npcs + Len(names) - 1)
        <5>1. q - npcs + 1 \in 1..Len(names) /\ npcs + (q - npcs + 1) - 1 = q
          BY <3>4
        <5>2. kids[q - npcs + 1] = q
          BY <4>2, <5>1
        <5>3. QED BY <5>1, <5>2
      <4>5. QED BY <4>1, <4>3, <4>4
    <3>7. QED BY <2>2, <3>3, <3>6 DEF Started
  <2>3. QED BY <2>1, <2>2
<1> HIDE DEF kids
<1>7. /\ DOMAIN callpids' = DOMAIN callpids \cup {CallNode(p)} /\ callpids'[CallNode(p)] = kids
      /\ \A n \in DOMAIN callpids : n # CallNode(p) => callpids'[n] = callpids[n]
  BY <1>5
<1>8. npcs..(npcs' - 1) = IF Known(p) THEN {} ELSE Started(p)
  <2>1. CASE Known(p)
    BY <1>3, <1>5, <2>1
  <2>2. CASE ~Known(p)
    <3>1. npcs' = npcs + Len(names)
      BY <1>5, <2>2
    <3>2. npcs' - 1 = npcs + Len(names) - 1
      BY <1>3, <1>4, <3>1
    <3>3. Started(p) = npcs..(npcs + Len(names) - 1)
      BY <2>2 DEF Started
    <3> HIDE DEF names
    <3>4. QED BY <2>2, <3>2, <3>3
  <2>3. QED BY <2>1, <2>2
<1>9. ASSUME ~rev, NEW q \in Pid, q \in Started(p), ~Known(p)
      PROVE  /\ stackdepth'[q] = stackdepth[p]
             /\ \E name \in ToSet(LineAt(s + 1).arg) : head'[q] = file.beginmap[name]
  <2>1. q \in npcs..(npcs' - 1)
    BY <1>8, <1>9
  <2>2. stackdepth'[q] = stackdepth[p] /\ head'[q] = file.beginmap[names[q - npcs + 1]]
    BY <1>5, <1>9, <2>1
  <2>3. q - npcs + 1 \in 1..Len(names)
    BY <1>3, <1>4, <1>9 DEF Started, Pid
  <2>4. names[q - npcs + 1] \in ToSet(names)
    BY <1>4, <2>3 DEF ToSet
  <2>5. QED BY <2>2, <2>4
<1>10. \A q \in Pid : q < npcs \/ q \notin Started(p) \/ Known(p) =>
          head'[q] = head[q] /\ stackdepth'[q] = stackdepth[q]
  <2> SUFFICES ASSUME NEW q \in Pid, q < npcs \/ q \notin Started(p) \/ Known(p)
               PROVE  head'[q] = head[q] /\ stackdepth'[q] = stackdepth[q]
    OBVIOUS
  <2>1. q \notin npcs..(npcs' - 1)
    <3>1. q < npcs => q \notin npcs..(npcs' - 1)
      BY <1>3 DEF Pid
    <3>2. QED BY <1>8, <3>1
  <2>2. QED BY <1>5, <2>1
<1>11. /\ head' = [q \in Pid |-> head'[q]] /\ stackdepth' = [q \in Pid |-> stackdepth'[q]]
       /\ at' = [q \in Pid |-> at'[q]]
  BY <1>5
<1>12. npcs' \in 1..(MaxPid + 1)
  BY <1>3, <1>4, <1>5
<1>13. QED BY <1>1, <1>5, <1>6, <1>7, <1>9, <1>10, <1>11, <1>12

\* The caller stands still, and every child is where the call needs it.
LEMMA CallStarts ==
  ASSUME WellBuilt, Typed, Family, NEW p \in Pid, OnItsWay(p), at[p] \in {"first", "rest"},
         CallChildren(p), InSameBlock(p)
  PROVE  /\ OnItsWay(p)' /\ at'[p] = "call" /\ err' = err /\ p \notin Started(p)
         /\ \A k \in 0..MaxBlocks : CallDone(p, k)' <=> CallDone(p, k)
         /\ Known(p) => \A q \in Started(p) : at[q] = "stopped" /\ IF rev THEN AtEnd(q) ELSE AtBegin(q)
         /\ ~Known(p) => ~rev /\ \A q \in Started(p) : at[q] = "none"
         /\ \A q \in Started(p) : q \in Pid /\ p < q /\ q < npcs'
         /\ \E s \in Starts : /\ s + 1 \in Lines /\ Current(p) = LineAt(s + 1)
                              /\ ~rev => stackdepth[p] \in Stacks /\ Fits(stackdepth[p], s + 1)
<1>1. InBlock(p) /\ Past(p) /\ pc[p] \in 0..MaxBlocks /\ at[p] \in {"first", "rest", "sem", "call"}
  BY DEF InBlock, OnItsWay, Typed
<1>2. PICK s \in Starts, v \in Ways, d \in 0..3 : Within(p, s, v, d)
  BY <1>1 DEF OnItsWay
<1>3. s \in Nat /\ s + 1 \in Lines
  BY BlockFacts
<1>4. Current(p).op = "call"
  BY DEF CallChildren, Is
<1>5. d = (IF rev THEN 2 ELSE 1) /\ Current(p) = LineAt(s + 1)
  <2>1. Current(p).op \notin {"begin", "come", "join", "end", "goto", "branch"}
    BY <1>4
  <2>2. CASE rev
    <3>1. d \in 1..3 /\ d # 1 /\ d # 3
      BY <1>1, <1>2, <2>1, <2>2, NextBackwards
    <3>2. d = 2 /\ s + d - 1 = s + 1
      BY <1>3, <3>1
    <3>3. QED BY <1>1, <1>2, <2>2, <3>2, NextBackwards
  <2>3. CASE ~rev
    <3>1. d \in 0..2 /\ d # 0 /\ d # 2
      BY <1>1, <1>2, <2>1, <2>3, NextForwards
    <3>2. d = 1
      BY <3>1
    <3>3. QED BY <1>1, <1>2, <2>3, <3>2, NextForwards
  <2>4. QED BY <2>2, <2>3
<1>6. ~rev => stackdepth[p] \in Stacks /\ Fits(stackdepth[p], s + 1)
  <2>1. ~rev => d = 1
    BY <1>5
  <2>2. QED BY <1>1, <1>2, <2>1, NextForwards
<1>7. CallDone(p, pc[p]) <=> rev
  <2>1. CallDone(p, pc[p]) <=> d >= 2 /\ LineAt(s + 1).op = "call"
    <3>1. pc[p] \in Nat
      BY <1>1
    <3>2. QED BY <1>1, <1>2, <1>3, <3>1, CallWithin
  <2>2. QED BY <1>4, <1>5, <2>1
<1>8. Linked(p, pc[p]) /\ ~Calling(p, pc[p]) /\ npcs \in 1..(MaxPid + 1) /\ MaxPid \in Nat
  BY <1>1, WalkAssumption DEF Family, Calling, Typed
<1>9. /\ Known(p) => Started(p) = Kids(p, pc[p])
      /\ ~Known(p) => ~rev
  BY <1>7, <1>8 DEF Known, Started, Children, CallNode, Kids, Linked
<1>10. \A q \in Started(p) : q \in Pid /\ p < q /\ q < npcs'
  <2> SUFFICES ASSUME NEW q \in Started(p) PROVE q \in Pid /\ p < q /\ q < npcs'
    OBVIOUS
  <2>1. npcs' = IF Known(p) THEN npcs ELSE npcs + Len(Current(p).arg)
    BY <1>5, CallChildrenFacts
  <2>2. CASE Known(p)
    BY <1>8, <1>9, <2>1, <2>2, KidsExist DEF Linked
  <2>3. CASE ~Known(p)
    <3>1. q \in npcs..(npcs + Len(Current(p).arg) - 1) /\ npcs + Len(Current(p).arg) <= MaxPid + 1
      BY <2>3 DEF Started, CallChildren, Known
    <3>2. Len(Current(p).arg) \in Nat
      BY <1>3, <1>5, LineFacts
    <3>3. p < npcs
      BY <1>1, <1>8 DEF Family, Born, Pid
    <3>4. QED BY <1>8, <2>1, <2>3, <3>1, <3>2, <3>3 DEF Pid
  <2>4. QED BY <2>2, <2>3
<1>11. p \notin Started(p)
  BY <1>10 DEF Pid
<1>12. /\ at'[p] = "call" /\ err' = err /\ head'[p] = head[p] /\ insts'[p] = insts[p]
       /\ stackdepth'[p] = stackdepth[p] /\ via'[p] = via[p] /\ trail'[p] = trail[p]
  BY <1>5, <1>11, CallChildrenFacts
<1>13. OnItsWay(p)' /\ InBlock(p)' /\ Within(p, s, v, d)'
  BY <1>1, <1>2, <1>4, <1>12, WaitsInBlock
<1>14. \A k \in 0..MaxBlocks : CallDone(p, k)' <=> CallDone(p, k)
  BY <1>1, <1>2, <1>3, <1>13, SameCalls
<1>15. Known(p) => \A q \in Started(p) : at[q] = "stopped" /\ IF rev THEN AtEnd(q) ELSE AtBegin(q)
  BY <1>7, <1>8, <1>9 DEF Linked
<1>16. ~Known(p) => \A q \in Started(p) : at[q] = "none"
  <2> SUFFICES ASSUME ~Known(p), NEW q \in Started(p) PROVE at[q] = "none"
    OBVIOUS
  <2>1. q >= npcs /\ q \in Pid
    <3>1. q \in npcs..(npcs + Len(Current(p).arg) - 1) /\ Len(Current(p).arg) \in Nat
      BY <1>3, <1>5, LineFacts DEF Started
    <3>2. QED BY <1>8, <1>10, <3>1
  <2>2. QED BY <2>1 DEF Family, Born
<1>17. QED BY <1>3, <1>5, <1>6, <1>9, <1>10, <1>11, <1>12, <1>13, <1>14, <1>15, <1>16

\* Whose line begins, is found at the start of its procedure.
LEMMA BeginningFacts ==
  ASSUME WellBuilt, NEW i \in Lines, LineAt(i).op = "call", NEW name \in ToSet(LineAt(i).arg),
         NEW x \in Stacks, Fits(x, i)
  PROVE  /\ file.beginmap[name] \in Starts /\ LineAt(file.beginmap[name]).op = "begin"
         /\ Fits(x, file.beginmap[name])
<1> DEFINE b == file.beginmap[name]
<1>1. /\ b \in Lines /\ LineAt(b).op = "begin" /\ LineAt(b).arg = name
      /\ IsBranch(name) => LineAt(b).scope = LineAt(i).scope
  BY DEF WellBuilt, CallsArrive, Begins
<1>2. b \in Starts
  <2>1. b \in Nat /\ b % 3 \in 0..2 /\ b % 3 # 1 /\ b % 3 # 2
    <3>1. b \in Nat
      BY <1>1, LineFacts
    <3>2. b % 3 # 1 /\ b % 3 # 2
      BY <1>1, LineFacts DEF Middles, Instructions
    <3>3. QED BY <3>1, <3>2
  <2>2. QED BY <1>1, <2>1 DEF Starts
<1>3. Fits(x, b)
  <2>1. x # <<>> /\ Last(x) = LineAt(i).scope
    BY FitsFacts
  <2>2. QED BY <1>1, <2>1 DEF Fits
<1>4. QED BY <1>1, <1>2, <1>3

LEMMA ChildStarts ==
  ASSUME WellBuilt, Typed, Family, NEW p \in Pid, OnItsWay(p), at[p] \in {"first", "rest"},
         CallChildren(p), InSameBlock(p), pc' = pc, exmap' = exmap, was' = was,
         NEW q \in Started(p), OnItsWay(q)
  PROVE  /\ OnItsWay(q)' /\ at'[q] = "loop" /\ at[q] \in {"none", "stopped"}
         /\ \A k \in 0..MaxBlocks : CallDone(q, k)' <=> CallDone(q, k)
<1>1. PICK s \in Starts : /\ s + 1 \in Lines /\ Current(p) = LineAt(s + 1)
                          /\ ~rev => stackdepth[p] \in Stacks /\ Fits(stackdepth[p], s + 1)
  BY CallStarts
<1>2. q \in Pid /\ q # p
  BY CallStarts
<1>3. /\ at'[q] = "loop" /\ insts' = insts /\ via' = via /\ trail' = trail /\ file' = file /\ rev' = rev
      /\ Known(p) => head'[q] = head[q] /\ stackdepth'[q] = stackdepth[q]
      /\ Current(p).op = "call"
  BY <1>1, <1>2, CallChildrenFacts DEF InSameBlock
<1>4. /\ Known(p) => at[q] = "stopped" /\ IF rev THEN AtEnd(q) ELSE AtBegin(q)
      /\ ~Known(p) => ~rev /\ at[q] = "none"
  BY CallStarts
<1>5. ~InBlock(q) /\ ~InBlock(q)' /\ Past(q) /\ Resting(q) /\ insts[q] = <<>> /\ pc[q] \in Nat
  <2>1. ~InBlock(q) /\ ~InBlock(q)'
    BY <1>3, <1>4 DEF InBlock
  <2>2. pc[q] \in Nat
    BY <1>2 DEF Typed
  <2>3. QED BY <2>1, <2>2 DEF OnItsWay, Resting
<1>6. \A j : ExitOf(q, j)' = ExitOf(q, j)
  BY DEF ExitOf
<1>7. \A j, t, w : EnteredBy(q, j, t, w)' <=> EnteredBy(q, j, t, w)
  BY <1>3, <1>6, FileStays DEF EnteredBy
<1>8. \A k \in 0..MaxBlocks : CallDone(q, k)' <=> CallDone(q, k)
  BY <1>3, <1>5, FileStays DEF CallDone
<1>9. CASE Known(p)
  <2>1. \A j : Passed(q, j)' = Passed(q, j)
    <3>1. \A j : Found(q, j)' = Found(q, j)
      BY <1>3, <1>5, <1>9 DEF Found
    <3>2. QED BY <1>3, <1>7, <3>1, FileStays DEF Passed
  <2>2. Past(q)'
    BY <1>5, <2>1 DEF Past
  <2>3. CASE rev
    <3>1. Behind(q)
      BY <1>4, <1>9, <2>3 DEF AtEnd
    <3>2. Behind(q)'
      BY <1>3, <1>6, <1>9, <3>1, FileStays DEF Behind, IsEnd
    <3>3. Resting(q)'
      BY <1>3, <1>5, <2>3, <3>2 DEF Resting
    <3>4. QED BY <1>3, <1>4, <1>5, <1>8, <1>9, <2>2, <3>3 DEF OnItsWay
  <2>4. CASE ~rev
    <3>1. Before(q)
      BY <1>4, <1>9, <2>4 DEF AtBegin
    <3>2. Before(q)'
      BY <1>3, <1>7, <1>9, <3>1, FileStays DEF Before
    <3>3. Resting(q)'
      BY <1>3, <1>5, <2>4, <3>2 DEF Resting
    <3>4. QED BY <1>3, <1>4, <1>5, <1>8, <1>9, <2>2, <3>3 DEF OnItsWay
  <2>5. QED BY <2>3, <2>4
<1>10. CASE ~Known(p)
  <2>1. ~rev /\ at[q] = "none" /\ pc[q] = 0 /\ via[q] = <<>>
    BY <1>4, <1>5, <1>10 DEF Resting
  <2>2. PICK name \in ToSet(LineAt(s + 1).arg) : head'[q] = file.beginmap[name]
    <3>1. \A c \in Pid : c \in Started(p) /\ ~Known(p) =>
             /\ stackdepth'[c] = stackdepth[p]
             /\ \E name \in ToSet(LineAt(s + 1).arg) : head'[c] = file.beginmap[name]
      BY <1>1, <2>1, CallChildrenFacts
    <3>2. QED BY <1>2, <1>10, <3>1
  <2>3. stackdepth'[q] = stackdepth[p]
    BY <1>1, <1>2, <1>10, <2>1, CallChildrenFacts
  <2>4. head'[q] \in Starts /\ LineAt(head'[q]).op = "begin" /\ Fits(stackdepth'[q], head'[q])
    BY <1>1, <1>3, <2>1, <2>2, <2>3, BeginningFacts
  <2>5. Past(q)'
    BY <1>5, <2>1 DEF Past
  <2>6. Before(q)'
    <3>1. EnteredBy(q, 1, head'[q], <<>>)
      BY <2>4 DEF EnteredBy
    <3>2. EnteredBy(q, pc[q] + 1, head[q], via[q])'
      <4>1. pc'[q] + 1 = 1 /\ via'[q] = <<>>
        BY <1>3, <2>1
      <4>2. QED BY <1>7, <3>1, <4>1
    <3>3. Fits(stackdepth[q], head[q])'
      BY <1>3, <2>4, FileStays
    <3>4. QED BY <3>2, <3>3 DEF Before
  <2>7. Resting(q)'
    BY <1>3, <1>5, <2>1, <2>6 DEF Resting
  <2>8. QED BY <1>3, <1>5, <1>8, <2>1, <2>5, <2>7 DEF OnItsWay
<1>11. QED BY <1>9, <1>10

LEMMA CallMoves ==
  ASSUME WellBuilt, Typed, Family, NEW p \in Pid, \A q \in Pid : OnItsWay(q),
         at[p] \in {"first", "rest"}, CallChildren(p), InSameBlock(p),
         pc' = pc, exmap' = exmap, was' = was
  PROVE  (\A q \in Pid : OnItsWay(q)') /\ err' = err /\ Family'
<1> DEFINE n == pc[p]
           kids == Started(p)
<1>1. /\ OnItsWay(p)' /\ at'[p] = "call" /\ err' = err /\ p \notin kids
      /\ \A k \in 0..MaxBlocks : CallDone(p, k)' <=> CallDone(p, k)
      /\ \A q \in kids : q \in Pid /\ p < q /\ q < npcs'
      /\ Known(p) => \A q \in kids : at[q] = "stopped"
      /\ ~Known(p) => \A q \in kids : at[q] = "none"
  BY CallStarts
<1>2. PICK s \in Starts : s + 1 \in Lines /\ Current(p) = LineAt(s + 1)
  BY CallStarts
<1>3. /\ npcs' = (IF Known(p) THEN npcs ELSE npcs + Len(Current(p).arg))
      /\ DOMAIN callpids' = DOMAIN callpids \cup {<<p, n>>} /\ ToSet(callpids'[<<p, n>>]) = kids
      /\ \A m \in DOMAIN callpids : m # <<p, n>> => callpids'[m] = callpids[m]
      /\ insts' = insts /\ via' = via /\ trail' = trail
      /\ \A q \in Pid : q # p => at'[q] = IF q \in kids THEN "loop" ELSE at[q]
      /\ \A q \in Pid : q \notin kids => head'[q] = head[q] /\ stackdepth'[q] = stackdepth[q]
  BY <1>1, <1>2, CallChildrenFacts DEF CallNode
<1>4. \A q \in kids : /\ OnItsWay(q)' /\ at'[q] = "loop" /\ at[q] \in {"none", "stopped"}
                      /\ \A k \in 0..MaxBlocks : CallDone(q, k)' <=> CallDone(q, k)
  BY <1>1, ChildStarts
<1> HIDE DEF kids
<1>5. \A q \in Pid : q # p /\ q \notin kids => Stays(q)
  BY <1>3 DEF Stays, InSameBlock
<1>6. \A q \in Pid : q # p /\ q \notin kids =>
         /\ OnItsWay(q)' = OnItsWay(q) /\ Done(q)' = Done(q) /\ Active(q)' = Active(q)
         /\ AtBegin(q)' = AtBegin(q) /\ AtEnd(q)' = AtEnd(q)
         /\ \A k : CallDone(q, k)' = CallDone(q, k)
  BY <1>5, ProcessStays
<1>7. \A q \in Pid : OnItsWay(q)'
  BY <1>1, <1>4, <1>6
<1>8. \A a \in Pid, k \in 0..MaxBlocks : CallDone(a, k)' <=> CallDone(a, k)
  BY <1>1, <1>4, <1>6
<1>9. n \in 0..MaxBlocks /\ npcs \in Nat /\ Len(Current(p).arg) \in Nat /\ npcs' >= npcs
  <2>1. n \in 0..MaxBlocks /\ npcs \in Nat
    BY DEF Typed
  <2>2. Len(Current(p).arg) \in Nat
    BY <1>2, LineFacts
  <2>3. QED BY <1>3, <2>1, <2>2
<1>10. /\ \A a, k : <<a, k>> # <<p, n>> => Kids(a, k)' = Kids(a, k)
       /\ Kids(p, n)' = kids
       /\ Known(p) => kids = Kids(p, n)
       /\ ~Known(p) => Kids(p, n) = {}
  <2>1. \A a, k : <<a, k>> # <<p, n>> => Kids(a, k)' = Kids(a, k)
    <3> SUFFICES ASSUME NEW a, NEW k, <<a, k>> # <<p, n>> PROVE Kids(a, k)' = Kids(a, k)
      OBVIOUS
    <3>1. <<a, k>> \in DOMAIN callpids' <=> <<a, k>> \in DOMAIN callpids
      BY <1>3
    <3>2. <<a, k>> \in DOMAIN callpids => callpids'[<<a, k>>] = callpids[<<a, k>>]
      BY <1>3
    <3> HIDE DEF n
    <3>3. QED BY <3>1, <3>2 DEF Kids
  <2>2. Kids(p, n)' = kids
    <3>1. n' = n
      OBVIOUS
    <3>2. QED BY <1>3, <3>1 DEF Kids
  <2>3. /\ Known(p) => kids = Kids(p, n)
        /\ ~Known(p) => Kids(p, n) = {}
    BY DEF kids, Started, Known, Children, CallNode, Kids
  <2>4. QED BY <2>1, <2>2, <2>3
<1>11. \A a \in Pid, k \in 0..MaxBlocks : \A q \in Kids(a, k) : q \in Pid /\ a < q /\ q < npcs
  BY KidsExist DEF Family, Linked
<1>12. \A a \in Pid, k \in 0..MaxBlocks : <<a, k>> # <<p, n>> => Kids(a, k) \cap kids = {}
  <2> SUFFICES ASSUME NEW a \in Pid, NEW k \in 0..MaxBlocks, <<a, k>> # <<p, n>>,
                      NEW q \in Kids(a, k), q \in kids
               PROVE  FALSE
    OBVIOUS
  <2>1. CASE Known(p)
    <3>1. q \in Kids(p, n)
      BY <1>10, <2>1
    <3>2. QED BY <1>9, <3>1 DEF Family, Apart
  <2>2. CASE ~Known(p)
    <3>1. at[q] = "none" /\ q \in Pid /\ q < npcs
      BY <1>1, <1>11, <2>2
    <3>2. npcs \in Nat /\ q \in Nat /\ ~(q >= npcs)
      BY <1>9, <3>1 DEF Pid
    <3>3. QED BY <3>1, <3>2 DEF Family, Born
  <2>3. QED BY <2>1, <2>2
<1>13. /\ \A a \in Pid : a # p => (at'[a] = "call" <=> at[a] = "call")
       /\ at[p] # "call" /\ pc' = pc
  BY <1>3, <1>4
<1>14. ASSUME NEW a \in Pid, NEW k \in 0..MaxBlocks
       PROVE  Linked(a, k)'
  <2>1. CASE <<a, k>> = <<p, n>>
    <3>1. Kids(a, k)' = kids /\ <<a, k>> \in DOMAIN callpids' /\ Calling(a, k)'
      BY <1>1, <1>3, <1>10, <2>1 DEF Calling
    <3>2. \A q \in kids : Done(q)'
      BY <1>4 DEF Done
    <3>3. QED BY <1>1, <2>1, <3>1, <3>2 DEF Linked
  <2>2. CASE <<a, k>> # <<p, n>>
    <3>1. Linked(a, k) /\ Kids(a, k)' = Kids(a, k) /\ (CallDone(a, k)' <=> CallDone(a, k))
      BY <1>8, <1>10, <2>2 DEF Family
    <3>2. Calling(a, k)' <=> Calling(a, k)
      <4>1. CASE a = p
        BY <1>13, <2>2, <4>1 DEF Calling
      <4>2. CASE a # p
        BY <1>13, <4>2 DEF Calling
      <4>3. QED BY <4>1, <4>2
    <3>3. ASSUME NEW q \in Kids(a, k)
          PROVE  /\ a < q /\ q < npcs'
                 /\ IF Calling(a, k)' THEN Done(q)'
                    ELSE at'[q] = "stopped" /\ IF CallDone(a, k)' THEN AtEnd(q)' ELSE AtBegin(q)'
      <4>1. q \in Pid /\ a < q /\ q < npcs' /\ q \notin kids
        <5>1. q \in Pid /\ a < q /\ q < npcs /\ q \notin kids
          BY <1>11, <1>12, <2>2, <3>3
        <5>2. npcs' \in Nat /\ q \in Nat
          BY <1>3, <1>9, <5>1 DEF Pid
        <5>3. q < npcs'
          BY <1>9, <5>1, <5>2
        <5>4. QED BY <5>1, <5>3
      <4>2. IF Calling(a, k) THEN Done(q)
            ELSE at[q] = "stopped" /\ IF CallDone(a, k) THEN AtEnd(q) ELSE AtBegin(q)
        BY <3>1, <3>3 DEF Linked
      <4>3. CASE q = p
        <5>1. Calling(a, k)
          BY <4>2, <4>3
        <5>2. Done(q)'
          BY <1>1, <4>3 DEF Done
        <5>3. QED BY <3>2, <4>1, <5>1, <5>2
      <4>4. CASE q # p
        BY <1>3, <1>6, <3>1, <3>2, <4>1, <4>2, <4>4
      <4>5. QED BY <4>3, <4>4
    <3>4. CallDone(a, k)' \/ Calling(a, k)' => <<a, k>> \in DOMAIN callpids'
      BY <1>3, <3>1, <3>2 DEF Linked
    <3>5. QED BY <3>1, <3>3, <3>4 DEF Linked
  <2>3. QED BY <2>1, <2>2
<1>15. Born'
  <2> SUFFICES ASSUME NEW q \in Pid PROVE at'[q] = "none" <=> q >= npcs'
    BY DEF Born
  <2>1. /\ at[q] = "none" <=> q >= npcs
        /\ q \in Nat /\ npcs \in Nat /\ npcs' \in Nat
    BY <1>3, <1>9 DEF Family, Born, Pid
  <2>2. CASE q = p
    <3>1. at[q] # "none" /\ at'[q] # "none"
      BY <1>1, <2>2
    <3>2. QED BY <1>9, <2>1, <3>1
  <2>3. CASE q \in kids
    <3>1. at'[q] = "loop" /\ q < npcs'
      BY <1>1, <1>4, <2>3
    <3>2. QED BY <2>1, <3>1
  <2>4. CASE q # p /\ q \notin kids
    <3>1. at'[q] = at[q]
      BY <1>3, <2>4
    <3>2. CASE Known(p)
      BY <1>3, <2>1, <3>1, <3>2
    <3>3. CASE ~Known(p)
      <4>1. q \notin npcs..(npcs + Len(Current(p).arg) - 1)
        BY <2>4, <3>3 DEF kids, Started
      <4>2. npcs' = npcs + Len(Current(p).arg)
        BY <1>3, <3>3
      <4>3. q >= npcs <=> q >= npcs'
        BY <1>9, <2>1, <4>1, <4>2
      <4>4. QED BY <2>1, <3>1, <4>3
    <3>4. QED BY <3>2, <3>3
  <2>5. QED BY <2>2, <2>3, <2>4
<1>16. Apart'
  <2> SUFFICES ASSUME NEW a \in Pid, NEW b \in Pid, NEW k \in 0..MaxBlocks, NEW m \in 0..MaxBlocks,
                      NEW q \in Kids(a, k)', q \in Kids(b, m)'
               PROVE  a = b /\ k = m
    BY DEF Apart
  <2>1. CASE <<a, k>> # <<p, n>> /\ <<b, m>> # <<p, n>>
    <3>1. q \in Kids(a, k) /\ q \in Kids(b, m)
      BY <1>10, <2>1
    <3>2. QED BY <3>1 DEF Family, Apart
  <2>2. CASE <<a, k>> = <<p, n>> /\ <<b, m>> # <<p, n>>
    <3>1. q \in kids /\ q \in Kids(b, m)
      BY <1>10, <2>2
    <3>2. QED BY <1>12, <2>2, <3>1
  <2>3. CASE <<a, k>> # <<p, n>> /\ <<b, m>> = <<p, n>>
    <3>1. q \in kids /\ q \in Kids(a, k)
      BY <1>10, <2>3
    <3>2. QED BY <1>12, <2>3, <3>1
  <2>4. CASE <<a, k>> = <<p, n>> /\ <<b, m>> = <<p, n>>
    BY <2>4
  <2>5. QED BY <2>1, <2>2, <2>3, <2>4
<1>17. Called'
  <2> SUFFICES ASSUME NEW q \in Pid \ {0}, Active(q)'
               PROVE  \E a \in Pid : at'[a] = "call" /\ q \in Kids(a, pc[a])'
    BY DEF Called
  <2>1. CASE q \in kids
    <3>1. Kids(p, pc[p])' = kids
      BY <1>10
    <3>2. QED BY <1>1, <2>1, <3>1
  <2>2. CASE q \notin kids
    <3>1. Active(q)
      <4>1. CASE q = p
        BY <4>1 DEF Active
      <4>2. CASE q # p
        BY <1>6, <2>2, <4>2
      <4>3. QED BY <4>1, <4>2
    <3>2. PICK a \in Pid : at[a] = "call" /\ q \in Kids(a, pc[a])
      BY <3>1 DEF Family, Called
    <3>3. a # p /\ at'[a] = "call"
      BY <1>13, <3>2
    <3>4. Kids(a, pc[a])' = Kids(a, pc[a])
      BY <1>10, <1>13, <3>3
    <3>5. QED BY <3>2, <3>3, <3>4
  <2>3. QED BY <2>1, <2>2
<1>18. Done(0)'
  <2>1. 0 \in Pid /\ 0 \notin kids
    <3>1. \A q \in kids : q \in Pid /\ p < q
      BY <1>1
    <3>2. QED BY <3>1, WalkAssumption DEF Pid
  <2>2. CASE p = 0
    BY <1>1, <2>2 DEF Done
  <2>3. CASE p # 0
    BY <1>6, <2>1, <2>3 DEF Family
  <2>4. QED BY <2>2, <2>3
<1>19. QED BY <1>1, <1>7, <1>14, <1>15, <1>16, <1>17, <1>18 DEF Family

-----------------------------------------------------------------------------
(* The user turns                                                          *)

LEMMA LeastOfNaturals ==
  ASSUME NEW T, T \subseteq Nat, T # {}
  PROVE  \E a \in T : \A b \in T : a <= b
<1> DEFINE R == {ss \in Nat \X Nat : ss[1] < ss[2]}
<1>1. IsWellFoundedOn(R, Nat)
  BY NatLessThanWellFounded DEF OpToRel
<1>2. PICK a \in T : \A b \in T : ~(<<b, a>> \in R)
  <2> HIDE DEF R
  <2> QED BY <1>1, WFMin
<1>3. \A b \in T : ~(b < a)
  BY <1>2
<1>4. QED BY <1>3

\* While main is not in a call nobody else is at work: the one with the least
\* number would be in a call of somebody who is.
LEMMA OthersAtRest ==
  ASSUME Typed, Family, at[0] # "call", NEW p \in Pid \ {0}
  PROVE  ~Active(p)
<1> SUFFICES ASSUME Active(p) PROVE FALSE
  OBVIOUS
<1> DEFINE T == {q \in Pid \ {0} : Active(q)}
<1>1. T \subseteq Nat /\ T # {}
  BY DEF Pid
<1>2. PICK q \in T : \A b \in T : q <= b
  <2> HIDE DEF T
  <2> QED BY <1>1, LeastOfNaturals
<1>3. PICK a \in Pid : at[a] = "call" /\ q \in Kids(a, pc[a])
  BY <1>2 DEF Family, Called
<1>4. a < q /\ a # 0 /\ Active(a)
  <2>1. pc[a] \in 0..MaxBlocks
    BY <1>3 DEF Typed
  <2>2. QED BY <1>3, <2>1 DEF Family, Linked, Active
<1>5. q <= a /\ a \in Nat /\ q \in Nat
  BY <1>1, <1>2, <1>3, <1>4 DEF Pid
<1>6. QED BY <1>4, <1>5

\* At the end of main, or where its last jump has led to the next line, what
\* is behind it backwards is before it forwards, and the other way round.
LEMMA TurnsRound ==
  ASSUME WellBuilt, Typed, NEW p \in Pid, OnItsWay(p), at[p] = "loop", via[p] # <<>>, JumpedToNext(p)
  PROVE  IF rev THEN Before(p) ELSE Behind(p)
<1>1. pc[p] \in Nat /\ ~InBlock(p) /\ Past(p) /\ stackdepth[p] \in Stacks
  BY DEF Typed, InBlock, OnItsWay
<1>2. \A l : via[p] = <<l>> => file.comemap[l] = file.gotomap[l] + 1
  <2> SUFFICES ASSUME NEW l, via[p] = <<l>> PROVE file.comemap[l] = file.gotomap[l] + 1
    OBVIOUS
  <2>1. 1 \in DOMAIN via[p] /\ via[p][1] = l
    OBVIOUS
  <2>2. QED BY <2>1 DEF JumpedToNext
<1>3. CASE rev
  <2>1. Behind(p)
    BY <1>1, <1>3 DEF OnItsWay, Resting
  <2>2. pc[p] > 0 /\ Passed(p, pc[p]) /\ pc[p] # 0
    BY <1>1, <2>1 DEF Behind, Past
  <2>3. PICK l \in Label : via[p] = <<l>> /\ Leads(l, ExitOf(p, pc[p]), file.comemap[l])
    BY <2>1 DEF Behind
  <2>4. head[p] = file.comemap[l]
    BY <1>2, <2>1, <2>3, LeadsFacts DEF Behind
  <2>5. Leads(l, ExitOf(p, pc[p]), head[p]) /\ head[p] \in Starts
    BY <2>3, <2>4, LeadsFacts
  <2>6. EnteredBy(p, pc[p] + 1, head[p], via[p])
    <3>1. pc[p] + 1 # 1 /\ pc[p] + 1 - 1 = pc[p]
      BY <1>1, <2>2
    <3>2. QED BY <1>1, <2>3, <2>5, <3>1 DEF EnteredBy
  <2>7. Fits(stackdepth[p], head[p])
    <3> DEFINE s == exmap[p][pc[p]][1]
               x == was[p][pc[p]][1]
    <3>1. Found(p, pc[p] + 1) = <<stackdepth[p], trail[p]>>
      BY <1>1 DEF Found
    <3>2. PICK v \in Ways : /\ EnteredBy(p, pc[p], s, v)
                            /\ Found(p, pc[p] + 1) = <<Stack(x, s, 3), Trail(was[p][pc[p]][2], s, v)>>
      BY <2>2 DEF Passed
    <3>3. s \in Starts /\ Fits(x, s) /\ stackdepth[p] = Stack(x, s, 3)
      BY <2>2, <3>1, <3>2 DEF EnteredBy, Passed
    <3>4. x \in Stacks
      <4>1. was[p] \in Seq(Stacks \X Seq(Label)) /\ Len(was[p]) >= pc[p]
        BY <1>1 DEF Typed, Past
      <4>2. was[p][pc[p]] \in Stacks \X Seq(Label)
        BY <1>1, <2>2, <4>1
      <4>3. QED BY <4>2
    <3>5. ExitOf(p, pc[p]) = s + 2
      BY DEF ExitOf
    <3> HIDE DEF s, x
    <3>6. QED BY <2>5, <3>3, <3>4, <3>5, StackInBlock
  <2>8. QED BY <1>3, <2>6, <2>7 DEF Before
<1>4. CASE ~rev
  <2>1. Before(p)
    BY <1>1, <1>4 DEF OnItsWay, Resting
  <2>2. pc[p] # 0 /\ \E l \in Label : via[p] = <<l>> /\ Leads(l, ExitOf(p, pc[p]), head[p])
    BY <1>1, <2>1, EntryCases DEF Before
  <2>3. PICK l \in Label : via[p] = <<l>> /\ Leads(l, ExitOf(p, pc[p]), head[p])
    BY <2>2
  <2>4. /\ file.comemap[l] = head[p] /\ file.gotomap[l] = ExitOf(p, pc[p])
        /\ ~IsEnd(LineAt(ExitOf(p, pc[p])))
    BY <2>3, LeadsFacts DEF IsEnd
  <2>5. head[p] = ExitOf(p, pc[p]) + 1
    BY <1>2, <2>3, <2>4
  <2>6. QED BY <1>1, <1>4, <2>2, <2>3, <2>4, <2>5 DEF Behind
<1>5. QED BY <1>3, <1>4

LEMMA TurnMoves ==
  ASSUME WellBuilt, Typed, Family, \A q \in Pid : OnItsWay(q), Turn, TurnAtJump = FALSE
  PROVE  (\A q \in Pid : OnItsWay(q)') /\ Family'
<1>1. /\ at[0] \in {"loop", "stopped"} /\ rev' = ~rev /\ at' = [at EXCEPT ![0] = "loop"]
      /\ file' = file /\ npcs' = npcs /\ callpids' = callpids
      /\ head' = head /\ pc' = pc /\ stackdepth' = stackdepth /\ via' = via /\ trail' = trail
      /\ insts' = insts /\ exmap' = exmap /\ was' = was
      /\ at[0] = "loop" => via[0] # <<>> /\ JumpedToNext(0)
  BY DEF Turn, code, place
<1>2. /\ 0 \in Pid /\ at'[0] = "loop" /\ rev \in BOOLEAN
      /\ \A p \in Pid \ {0} : at'[p] = at[p] /\ at[p] \in {"none", "stopped"}
  <2>1. \A p \in Pid \ {0} : ~Active(p)
    BY <1>1, OthersAtRest
  <2>2. 0 \in Pid /\ rev \in BOOLEAN /\ at \in [Pid -> State]
    BY WalkAssumption DEF Pid, Typed
  <2>3. QED BY <1>1, <2>1, <2>2 DEF Active
<1>3. \A p \in Pid : ~InBlock(p) /\ ~InBlock(p)'
  BY <1>1, <1>2 DEF InBlock
<1>4. \A p, j : ExitOf(p, j)' = ExitOf(p, j)
  BY <1>1 DEF ExitOf
<1>5. \A p, j, s, v : EnteredBy(p, j, s, v)' <=> EnteredBy(p, j, s, v)
  BY <1>1, <1>4, FileStays DEF EnteredBy
<1>6. \A p \in Pid : /\ Before(p)' <=> Before(p)
                     /\ Behind(p)' <=> Behind(p)
                     /\ Past(p)' <=> Past(p)
  <2> SUFFICES ASSUME NEW p \in Pid
               PROVE  (Before(p)' <=> Before(p)) /\ (Behind(p)' <=> Behind(p)) /\ (Past(p)' <=> Past(p))
    OBVIOUS
  <2>1. Before(p)' <=> Before(p)
    BY <1>1, <1>5, FileStays DEF Before
  <2>2. Behind(p)' <=> Behind(p)
    BY <1>1, <1>4, FileStays DEF Behind, IsEnd
  <2>3. \A j : Found(p, j)' = Found(p, j)
    BY <1>1, <1>3 DEF Found
  <2>4. \A j : Passed(p, j)' <=> Passed(p, j)
    BY <1>1, <1>5, <2>3, FileStays DEF Passed
  <2>5. QED BY <1>1, <2>1, <2>2, <2>4 DEF Past
<1>7. \A p \in Pid : (AtBegin(p)' <=> AtBegin(p)) /\ (AtEnd(p)' <=> AtEnd(p))
  BY <1>1, <1>4, <1>6, FileStays DEF AtBegin, AtEnd, IsEnd
<1>8. OnItsWay(0)'
  <2>1. IF rev THEN Before(0) ELSE Behind(0)
    <3>1. CASE at[0] = "stopped"
      BY <3>1 DEF Family, Done, AtBegin, AtEnd
    <3>2. CASE at[0] = "loop"
      BY <1>1, <1>2, <3>2, TurnsRound
    <3>3. QED BY <1>1, <3>1, <3>2
  <2>2. insts[0] = <<>> /\ Past(0)
    BY <1>2, <1>3 DEF OnItsWay, Resting
  <2>3. Resting(0)'
    BY <1>1, <1>2, <1>6, <2>1, <2>2 DEF Resting
  <2>4. QED BY <1>2, <1>3, <1>6, <2>2, <2>3 DEF OnItsWay
<1>9. ASSUME NEW p \in Pid \ {0} PROVE OnItsWay(p)'
  <2>1. Resting(p) /\ Past(p)
    BY <1>3 DEF OnItsWay
  <2>2. Resting(p)'
    BY <1>1, <1>2, <1>7, <2>1 DEF Resting
  <2>3. QED BY <1>3, <1>6, <2>1, <2>2 DEF OnItsWay
<1>10. \A p, k : Kids(p, k)' = Kids(p, k)
  BY <1>1 DEF Kids
<1>11. \A p \in Pid, k \in 0..MaxBlocks :
          /\ CallDone(p, k)' <=> CallDone(p, k)
          /\ ~Calling(p, k) /\ ~Calling(p, k)'
  BY <1>1, <1>2, <1>3, FileStays DEF CallDone, Calling
<1>12. ASSUME NEW p \in Pid, NEW k \in 0..MaxBlocks
       PROVE  Linked(p, k)'
  <2>1. Linked(p, k)
    BY DEF Family
  <2>2. \A q \in Kids(p, k) : q \in Pid /\ q # 0
    BY <2>1, KidsExist, WalkAssumption DEF Linked, Pid
  <2>3. QED BY <1>1, <1>2, <1>7, <1>10, <1>11, <2>1, <2>2 DEF Linked
<1>13. Born' /\ Apart' /\ Called' /\ Done(0)'
  <2>1. Born'
    BY <1>1, <1>2 DEF Family, Born
  <2>2. Apart'
    BY <1>10 DEF Family, Apart
  <2>3. Called'
    BY <1>2 DEF Called, Active
  <2>4. Done(0)'
    BY <1>2 DEF Done
  <2>5. QED BY <2>1, <2>2, <2>3, <2>4
<1>14. QED BY <1>8, <1>9, <1>12, <1>13 DEF Family

-----------------------------------------------------------------------------
(* Types                                                                   *)

\* Nothing but p's place, and what it has executed of its block, changes.
OnlyPlaceOf(p) ==
    /\ head' = [head EXCEPT ![p] = head'[p]] /\ stackdepth' = [stackdepth EXCEPT ![p] = stackdepth'[p]]
    /\ at' = [at EXCEPT ![p] = at'[p]] /\ insts' = [insts EXCEPT ![p] = insts'[p]]
    /\ via' = [via EXCEPT ![p] = via'[p]] /\ trail' = [trail EXCEPT ![p] = trail'[p]]
    /\ npcs' = npcs /\ callpids' = callpids
    /\ insts'[p] \in Seq(Int) /\ via'[p] \in Seq(Label) /\ Len(via'[p]) <= 1

LEMMA FallsKeepsOthers ==
  ASSUME Typed, NEW p \in Pid, Falls(p)
  PROVE  /\ head' = [head EXCEPT ![p] = head'[p]] /\ at' = [at EXCEPT ![p] = at'[p]]
         /\ insts' = [insts EXCEPT ![p] = insts'[p]] /\ insts'[p] \in Seq(Int)
<1>1. Index(p) \in Int /\ insts[p] \in Seq(Int)
  BY DEF Index, Typed
<1>2. insts'[p] = Append(insts[p], Index(p))
  BY SequencesOfP DEF Falls, Executed
<1>3. head' = [head EXCEPT ![p] = head'[p]]
  BY SequencesOfP DEF Falls, Executed
<1>4. at' = [at EXCEPT ![p] = at'[p]]
  BY SequencesOfP DEF Falls, Executed
<1>5. insts' = [insts EXCEPT ![p] = insts'[p]]
  BY SequencesOfP DEF Falls, Executed
<1>6. QED BY <1>1, <1>2, <1>3, <1>4, <1>5

LEMMA UnchangedExcept ==
  ASSUME Typed, NEW p \in Pid
  PROVE  /\ head = [head EXCEPT ![p] = head[p]] /\ stackdepth = [stackdepth EXCEPT ![p] = stackdepth[p]]
         /\ insts = [insts EXCEPT ![p] = insts[p]] /\ via = [via EXCEPT ![p] = via[p]]
         /\ trail = [trail EXCEPT ![p] = trail[p]]
         /\ insts[p] \in Seq(Int) /\ via[p] \in Seq(Label) /\ Len(via[p]) <= 1
BY DEF Typed

\* A jump is through a label that leads somewhere.
LEMMA JumpKeepsOthers ==
  ASSUME WellBuilt, Typed, NEW p \in Pid, NEW l,
         \/ Leave(p, l)
         \/ Return(p, l)
  PROVE  OnlyPlaceOf(p)
<1>1. l \in Label
  <2>1. CASE Leave(p, l)
    <3>1. Index(p) \in Lines /\ IsExit(LineAt(Index(p))) /\ l \in ToSet(LineAt(Index(p)).arg)
      BY <2>1 DEF Leave, Is, Current, Lines, IsExit
    <3>2. Leads(l, Index(p), file.comemap[l])
      BY <3>1 DEF WellBuilt, JumpsMeet
    <3>3. QED BY <3>2, LeadsFacts
  <2>2. CASE Return(p, l)
    <3>1. Index(p) \in Lines /\ IsEntry(LineAt(Index(p))) /\ l \in ToSet(LineAt(Index(p)).arg)
      BY <2>2 DEF Return, Is, Current, Lines, IsEntry
    <3>2. Leads(l, file.gotomap[l], Index(p))
      BY <3>1 DEF WellBuilt, JumpsMeet
    <3>3. QED BY <3>2, LeadsFacts
  <2>3. QED BY <2>1, <2>2
<1>2. <<l>> \in Seq(Label) /\ Len(<<l>>) <= 1
  BY <1>1
<1>3. Index(p) \in Int /\ insts[p] \in Seq(Int)
  BY DEF Index, Typed
<1>4. PICK labels : Jump(p, labels, l)
  BY DEF Leave, Return
<1>5. /\ head' = [head EXCEPT ![p] = head'[p]] /\ at' = [at EXCEPT ![p] = at'[p]]
      /\ insts' = [insts EXCEPT ![p] = insts'[p]] /\ via' = [via EXCEPT ![p] = via'[p]]
      /\ stackdepth' = stackdepth /\ npcs' = npcs /\ callpids' = callpids
      /\ insts'[p] = Append(insts[p], Index(p)) /\ via'[p] = <<l>>
  BY <1>4, SequencesOfP DEF Jump, Executed
<1>6. trail' = [trail EXCEPT ![p] = trail'[p]]
  BY SequencesOfP, UnchangedExcept DEF Leave, Return
<1>7. QED BY <1>2, <1>3, <1>5, <1>6, UnchangedExcept DEF OnlyPlaceOf

LEMMA LineKeepsOthers ==
  ASSUME WellBuilt, Typed, NEW p \in Pid, Line(p) \/ CallEnd(p)
  PROVE  OnlyPlaceOf(p)
<1>1. CASE Instruction(p) \/ CallEnd(p)
  BY <1>1, FallsKeepsOthers, UnchangedExcept DEF Instruction, CallEnd, OnlyPlaceOf
<1>2. CASE SemWait(p)
  <2>1. at' = [at EXCEPT ![p] = at'[p]]
    BY <1>2, SequencesOfP DEF SemWait
  <2>2. QED BY <1>2, <2>1, UnchangedExcept DEF SemWait, OnlyPlaceOf
<1>3. CASE PassJoin(p)
  <2>1. trail' = [trail EXCEPT ![p] = trail'[p]]
    BY <1>3, SequencesOfP DEF PassJoin
  <2>2. QED BY <1>3, <2>1, FallsKeepsOthers, UnchangedExcept DEF PassJoin, OnlyPlaceOf
<1>4. CASE Boundary(p)
  <2>1. Index(p) \in Int /\ insts[p] \in Seq(Int)
    BY DEF Index, Typed
  <2>2. /\ head' = [head EXCEPT ![p] = head'[p]] /\ stackdepth' = [stackdepth EXCEPT ![p] = stackdepth'[p]]
        /\ at' = [at EXCEPT ![p] = at'[p]] /\ insts' = [insts EXCEPT ![p] = insts'[p]]
        /\ via' = [via EXCEPT ![p] = via'[p]] /\ trail' = trail /\ npcs' = npcs /\ callpids' = callpids
        /\ insts'[p] = Append(insts[p], Index(p)) /\ via'[p] \in {<<>>, via[p]}
    BY <1>4, SequencesOfP DEF Boundary
  <2>3. insts'[p] \in Seq(Int) /\ via'[p] \in Seq(Label) /\ Len(via'[p]) <= 1
    <3>1. <<>> \in Seq(Label) /\ Len(<<>>) <= 1
      OBVIOUS
    <3>2. via'[p] \in Seq(Label) /\ Len(via'[p]) <= 1
      <4>1. CASE via'[p] = <<>>
        BY <3>1, <4>1
      <4>2. CASE via'[p] = via[p]
        BY <4>2, UnchangedExcept
      <4>3. QED BY <2>2, <4>1, <4>2
    <3>3. insts'[p] \in Seq(Int)
      BY <2>1, <2>2
    <3>4. QED BY <3>2, <3>3
  <2>4. QED BY <2>2, <2>3, UnchangedExcept DEF OnlyPlaceOf
<1>5. CASE ChangeDepth(p)
  <2>1. stackdepth' = [stackdepth EXCEPT ![p] = stackdepth'[p]]
    BY <1>5, SequencesOfP DEF ChangeDepth
  <2>2. QED BY <1>5, <2>1, FallsKeepsOthers, UnchangedExcept DEF ChangeDepth, OnlyPlaceOf
<1>6. QED BY <1>1, <1>2, <1>3, <1>4, <1>5, JumpKeepsOthers DEF Line

\* In the middle of a block the place of a process is one of the file.
LEMMA PlaceNext ==
  ASSUME WellBuilt, Typed, NEW p \in Pid, InSameBlock(p), OnItsWay(p)', InBlock(p)'
  PROVE  head'[p] \in 0..Len(file.f) /\ stackdepth'[p] \in Stacks /\ trail'[p] \in Seq(Label)
         /\ at'[p] \in State
<1>1. file' = file /\ rev' = rev /\ pc'[p] = pc[p] /\ was'[p] = was[p] /\ exmap'[p] = exmap[p]
  BY DEF InSameBlock
<1>2. PICK s \in Starts, v \in Ways, d \in 0..3 : Within(p, s, v, d)'
  <2>1. \E s \in Starts', v \in Ways', d \in 0..3 : Within(p, s, v, d)'
    BY DEF OnItsWay
  <2>2. QED BY <1>1, <2>1, FileStays
<1> DEFINE found == was[p][pc[p] + 1]
<1>3. found \in Stacks \X Seq(Label)
  <2>1. was[p] \in Seq(Stacks \X Seq(Label)) /\ pc[p] \in Nat
    BY DEF Typed
  <2>2. Len(was[p]) > pc[p]
    BY <1>1, <1>2 DEF Within
  <2>3. QED BY <2>1, <2>2
<1>4. /\ Fits(found[1], s) /\ stackdepth'[p] = Stack(found[1], s, d)
      /\ trail'[p] = IF d = 0 THEN found[2] ELSE Trail(found[2], s, v)
      /\ EnteredBy(p, pc[p] + 1, s, v)'
  BY <1>1, <1>2, FileStays DEF Within
<1> HIDE DEF found
<1>5. stackdepth'[p] \in Stacks
  BY <1>3, <1>4, StackInBlock
<1>6. trail'[p] \in Seq(Label)
  <2>1. found[2] \o v \in Seq(Label)
    <3>1. found[2] \in Seq(Label)
      BY <1>3
    <3>2. CASE v = <<>>
      BY <3>1, <3>2
    <3>3. CASE v # <<>>
      <4>1. PICK l \in Label : v = <<l>>
        BY <3>3 DEF Ways
      <4>2. <<l>> \in Seq(Label)
        BY <4>1
      <4>3. QED BY <3>1, <4>1, <4>2
    <3>4. QED BY <3>2, <3>3
  <2>2. QED BY <1>3, <1>4, <2>1 DEF Trail
<1>7. Len(file.f) \in Nat /\ s \in Nat /\ s + 2 < Len(file.f)
  <2>1. Len(file.f) \in Nat
    BY DEF WellBuilt, InThrees
  <2>2. s \in Nat /\ s + 2 \in Lines
    BY BlockFacts
  <2>3. QED BY <2>1, <2>2 DEF Lines
<1>8. head'[p] \in 0..Len(file.f)
  <2>1. \A e \in 0..3 : s + e \in 0..Len(file.f)
    BY <1>7
  <2>2. CASE ~rev
    <3>1. Doing(p, s, v, d)'
      BY <1>1, <1>2, <2>2 DEF Within
    <3>2. CASE d < 3
      BY <2>1, <3>1, <3>2 DEF Doing
    <3>3. CASE d = 3
      <4>1. at'[p] \in {"last", "end"}
        BY <3>1, <3>3 DEF Doing, InBlock
      <4>2. CASE at'[p] = "last"
        BY <2>1, <3>1, <4>2 DEF Doing
      <4>3. CASE at'[p] = "end"
        <5>1. PICK l : Leads(l, s + 2, head'[p])
          BY <1>1, <3>1, <4>3, FileStays DEF Doing
        <5>2. QED BY <1>7, <5>1, LeadsFacts DEF Starts, Lines
      <4>4. QED BY <4>1, <4>2, <4>3
    <3>4. QED BY <3>2, <3>3
  <2>3. CASE rev
    <3>1. Undoing(p, s, v, d)'
      BY <1>1, <1>2, <2>3 DEF Within
    <3>2. CASE d > 0
      BY <2>1, <3>1, <3>2 DEF Undoing
    <3>3. CASE d = 0
      <4>1. at'[p] \in {"last", "end"}
        BY <3>1, <3>3 DEF Undoing, InBlock
      <4>2. CASE at'[p] = "last"
        BY <2>1, <3>1, <4>2, <1>7 DEF Undoing
      <4>3. CASE at'[p] = "end"
        <5>1. LineAt(s).op # "begin" /\ head'[p] = ExitOf(p, pc[p])' + 1
          BY <1>1, <3>1, <4>3, FileStays DEF Undoing
        <5>2. ExitOf(p, pc[p])' = ExitOf(p, pc[p])
          BY <1>1 DEF ExitOf
        <5>3. EnteredBy(p, pc[p] + 1, s, v)
          BY <1>1, <1>4, FileStays DEF EnteredBy, ExitOf
        <5>4. pc[p] \in Nat
          BY DEF Typed
        <5>5. PICK l : Leads(l, ExitOf(p, pc[p]), s)
          BY <5>1, <5>3, <5>4, EntryFacts
        <5>6. ExitOf(p, pc[p]) \in Lines
          BY <5>5, LeadsFacts
        <5>7. QED BY <1>7, <5>1, <5>2, <5>6 DEF Lines
      <4>4. QED BY <4>1, <4>2, <4>3
    <3>4. QED BY <3>2, <3>3
  <2>4. QED BY <2>2, <2>3
<1>9. at'[p] \in State
  BY DEF InBlock, State
<1>10. QED BY <1>5, <1>6, <1>8, <1>9

LEMMA LineTyped ==
  ASSUME WellBuilt, Typed, NEW p \in Pid, OnlyPlaceOf(p), OnItsWay(p)', InBlock(p)',
         UNCHANGED <<file, rev, turns, pc, exmap, was>>
  PROVE  Typed' /\ \A q \in Pid \ {p} : Stays(q)
<1>1. head'[p] \in 0..Len(file.f) /\ stackdepth'[p] \in Stacks /\ trail'[p] \in Seq(Label)
      /\ at'[p] \in State
  BY PlaceNext DEF InSameBlock
<1>2. Label' = Label
  BY FileStays
<1>3. head' \in [Pid -> 0..Len(file.f)] /\ stackdepth' \in [Pid -> Stacks] /\ at' \in [Pid -> State]
  BY <1>1 DEF Typed, OnlyPlaceOf
<1>4. insts' \in [Pid -> Seq(Int)] /\ via' \in [Pid -> Seq(Label)] /\ trail' \in [Pid -> Seq(Label)]
  BY <1>1 DEF Typed, OnlyPlaceOf
<1>5. \A q \in Pid \ {p} : Stays(q)
  BY DEF OnlyPlaceOf, Stays, Typed
<1>6. \A q \in Pid : Len(via'[q]) <= 1
  BY <1>5 DEF Typed, OnlyPlaceOf, Stays
<1>7. Typed'
  BY <1>2, <1>3, <1>4, <1>6 DEF Typed, OnlyPlaceOf
<1>8. QED BY <1>5, <1>7

LEMMA Prefix ==
  ASSUME NEW S, NEW x \in Seq(S), NEW n \in Nat, n <= Len(x), NEW e \in S
  PROVE  Append(SubSeq(x, 1, n), e) \in Seq(S) /\ Len(Append(SubSeq(x, 1, n), e)) = n + 1
<1>1. SubSeq(x, 1, n) \in Seq(S) /\ Len(SubSeq(x, 1, n)) = n
  <2>1. Len(x) \in Nat
    OBVIOUS
  <2>2. \A i \in 1..n : x[i] \in S
    BY <2>1
  <2>3. SubSeq(x, 1, n) \in Seq(S)
    BY <2>1, <2>2
  <2>4. QED BY <2>1, <2>3
<1>2. QED BY <1>1

LEMMA BeginTyped ==
  ASSUME WellBuilt, Typed, NEW p \in Pid, OnItsWay(p), BeginBlock(p)
  PROVE  Typed' /\ (\A q \in Pid \ {p} : Stays(q)) /\ npcs' = npcs /\ callpids' = callpids
<1>1. /\ file' = file /\ rev' = rev /\ turns' = turns /\ npcs' = npcs /\ callpids' = callpids
      /\ head' = head /\ stackdepth' = stackdepth /\ insts' = insts /\ via' = via /\ trail' = trail
      /\ exmap' = exmap /\ at' = [at EXCEPT ![p] = "first"]
  BY DEF BeginBlock, code
<1>2. Label' = Label
  BY <1>1, FileStays
<1>3. at' \in [Pid -> State]
  BY <1>1 DEF Typed, State
<1>4. pc[p] \in 0..MaxBlocks /\ MaxBlocks \in Nat /\ pc[p] \in Nat
  BY WalkAssumption DEF Typed
<1>5. CASE rev
  <2>1. was' = was /\ pc[p] > 0 /\ pc' = [pc EXCEPT ![p] = @ - 1]
    BY <1>5 DEF BeginBlock
  <2>2. pc[p] - 1 \in 0..MaxBlocks
    BY <1>4, <2>1
  <2>3. pc' \in [Pid -> 0..MaxBlocks]
    BY <2>1, <2>2 DEF Typed
  <2>4. Typed'
    BY <1>1, <1>2, <1>3, <2>1, <2>3 DEF Typed
  <2>5. \A q \in Pid \ {p} : Stays(q)
    BY <1>1, <2>1 DEF Stays, Typed
  <2>6. QED BY <1>1, <2>4, <2>5
<1>6. CASE ~rev
  <2> DEFINE found == <<stackdepth[p], trail[p]>>
             more == Append(SubSeq(was[p], 1, pc[p]), found)
  <2>1. pc' = pc /\ pc[p] < MaxBlocks /\ was' = [was EXCEPT ![p] = more]
    BY <1>6, SequencesOfP DEF BeginBlock
  <2>2. found \in Stacks \X Seq(Label) /\ was[p] \in Seq(Stacks \X Seq(Label))
    BY DEF Typed
  <2>3. pc[p] <= Len(was[p])
    <3>1. Past(p)
      BY DEF OnItsWay
    <3>2. Len(was[p]) \in Nat
      BY <2>2
    <3>3. QED BY <1>4, <3>1, <3>2 DEF Past
  <2>4. more \in Seq(Stacks \X Seq(Label)) /\ Len(more) = pc[p] + 1
    BY <1>4, <2>2, <2>3, Prefix
  <2>5. Len(more) <= MaxBlocks
    BY <1>4, <2>1, <2>4
  <2> HIDE DEF more
  <2>6. was' \in [Pid -> Seq(Stacks \X Seq(Label))] /\ \A q \in Pid : Len(was'[q]) <= MaxBlocks
    BY <2>1, <2>4, <2>5 DEF Typed
  <2>7. Typed'
    BY <1>1, <1>2, <1>3, <2>1, <2>6 DEF Typed
  <2>8. \A q \in Pid \ {p} : Stays(q)
    BY <1>1, <2>1 DEF Stays, Typed
  <2>9. QED BY <1>1, <2>7, <2>8
<1>7. QED BY <1>5, <1>6

LEMMA FinishTyped ==
  ASSUME WellBuilt, Typed, NEW p \in Pid, OnItsWay(p), FinishBlock(p)
  PROVE  Typed' /\ (\A q \in Pid \ {p} : Stays(q)) /\ npcs' = npcs /\ callpids' = callpids
<1>1. /\ file' = file /\ rev' = rev /\ turns' = turns /\ npcs' = npcs /\ callpids' = callpids
      /\ head' = head /\ stackdepth' = stackdepth /\ via' = via /\ trail' = trail /\ was' = was
      /\ at' = [at EXCEPT ![p] = IF @ = "last" THEN "stopped" ELSE "loop"]
      /\ insts' = [insts EXCEPT ![p] = <<>>]
  BY DEF FinishBlock, code
<1>2. Label' = Label
  BY <1>1, FileStays
<1>3. at' \in [Pid -> State] /\ insts' \in [Pid -> Seq(Int)]
  BY <1>1 DEF Typed, State
<1>4. pc[p] \in 0..MaxBlocks /\ MaxBlocks \in Nat /\ pc[p] \in Nat
  BY WalkAssumption DEF Typed
<1>5. CASE rev
  <2>1. exmap' = exmap /\ pc' = pc
    BY <1>5 DEF FinishBlock
  <2>2. Typed'
    BY <1>1, <1>2, <1>3, <2>1 DEF Typed
  <2>3. \A q \in Pid \ {p} : Stays(q)
    BY <1>1, <2>1 DEF Stays, Typed
  <2>4. QED BY <1>1, <2>2, <2>3
<1>6. CASE ~rev
  <2> DEFINE more == Append(SubSeq(exmap[p], 1, pc[p]), insts[p])
  <2>1. pc' = [pc EXCEPT ![p] = @ + 1] /\ exmap' = [exmap EXCEPT ![p] = more] /\ pc[p] < MaxBlocks
    BY <1>6, SequencesOfP, FinishForwards DEF FinishBlock
  <2>2. insts[p] \in Seq(Int) /\ exmap[p] \in Seq(Seq(Int))
    BY DEF Typed
  <2>3. pc[p] <= Len(exmap[p])
    <3>1. Past(p)
      BY DEF OnItsWay
    <3>2. Len(exmap[p]) \in Nat
      BY <2>2
    <3>3. QED BY <1>4, <3>1, <3>2 DEF Past
  <2>4. more \in Seq(Seq(Int)) /\ Len(more) = pc[p] + 1
    BY <1>4, <2>2, <2>3, Prefix
  <2>5. Len(more) <= MaxBlocks /\ pc[p] + 1 \in 0..MaxBlocks
    BY <1>4, <2>1, <2>4
  <2> HIDE DEF more
  <2>6. /\ exmap' \in [Pid -> Seq(Seq(Int))] /\ \A q \in Pid : Len(exmap'[q]) <= MaxBlocks
        /\ pc' \in [Pid -> 0..MaxBlocks]
    BY <2>1, <2>4, <2>5 DEF Typed
  <2>7. Typed'
    BY <1>1, <1>2, <1>3, <2>6 DEF Typed
  <2>8. \A q \in Pid \ {p} : Stays(q)
    BY <1>1, <2>1 DEF Stays, Typed
  <2>9. QED BY <1>1, <2>7, <2>8
<1>7. QED BY <1>5, <1>6

LEMMA CallTyped ==
  ASSUME WellBuilt, Typed, Family, NEW p \in Pid, OnItsWay(p), at[p] \in {"first", "rest"},
         CallChildren(p), UNCHANGED <<code, rev, turns, pc, exmap, was>>
  PROVE  Typed'
<1>1. file' = file /\ rev' = rev /\ turns' = turns /\ pc' = pc /\ exmap' = exmap /\ was' = was
  BY DEF code
<1>2. Label' = Label /\ InSameBlock(p)
  BY <1>1, FileStays DEF InSameBlock
<1>3. PICK s \in Starts : /\ s + 1 \in Lines /\ Current(p) = LineAt(s + 1)
                          /\ ~rev => stackdepth[p] \in Stacks /\ Fits(stackdepth[p], s + 1)
  BY <1>2, CallStarts
<1>4. /\ p \notin Started(p) /\ at'[p] = "call"
      /\ ~Known(p) => ~rev
  BY <1>2, CallStarts
<1>5. /\ Current(p).op = "call" /\ npcs' \in 1..(MaxPid + 1)
      /\ DOMAIN callpids' = DOMAIN callpids \cup {CallNode(p)}
      /\ callpids'[CallNode(p)] \in Seq(Pid)
      /\ \A n \in DOMAIN callpids : n # CallNode(p) => callpids'[n] = callpids[n]
      /\ insts' = insts /\ via' = via /\ trail' = trail
      /\ head' = [q \in Pid |-> head'[q]] /\ stackdepth' = [q \in Pid |-> stackdepth'[q]]
      /\ at' = [q \in Pid |-> at'[q]]
      /\ \A q \in Pid : q # p => at'[q] = IF q \in Started(p) THEN "loop" ELSE at[q]
      /\ \A q \in Pid : q \notin Started(p) \/ Known(p) =>
            head'[q] = head[q] /\ stackdepth'[q] = stackdepth[q]
      /\ ~rev => \A q \in Pid : q \in Started(p) /\ ~Known(p) =>
            /\ stackdepth'[q] = stackdepth[p]
            /\ \E name \in ToSet(LineAt(s + 1).arg) : head'[q] = file.beginmap[name]
  BY <1>3, CallChildrenFacts
<1>6. \A q \in Pid : head'[q] \in 0..Len(file.f) /\ stackdepth'[q] \in Stacks
  <2> SUFFICES ASSUME NEW q \in Pid PROVE head'[q] \in 0..Len(file.f) /\ stackdepth'[q] \in Stacks
    OBVIOUS
  <2>1. CASE q \notin Started(p) \/ Known(p)
    BY <1>5, <2>1 DEF Typed
  <2>2. CASE q \in Started(p) /\ ~Known(p)
    <3>1. ~rev /\ stackdepth[p] \in Stacks /\ Fits(stackdepth[p], s + 1)
      BY <1>3, <1>4, <2>2
    <3>2. PICK name \in ToSet(LineAt(s + 1).arg) : head'[q] = file.beginmap[name]
      BY <1>5, <2>2, <3>1
    <3>3. head'[q] \in Lines
      BY <1>3, <1>5, <3>1, <3>2, BeginningFacts DEF Starts
    <3>4. Len(file.f) \in Nat
      BY DEF WellBuilt, InThrees
    <3>5. head'[q] \in 0..Len(file.f)
      BY <3>3, <3>4 DEF Lines
    <3>6. QED BY <1>5, <2>2, <3>1, <3>5
  <2>3. QED BY <2>1, <2>2
<1>7. \A q \in Pid : at'[q] \in State
  BY <1>4, <1>5 DEF Typed, State
<1>8. /\ head' \in [Pid -> 0..Len(file.f)] /\ stackdepth' \in [Pid -> Stacks] /\ at' \in [Pid -> State]
  BY <1>5, <1>6, <1>7
<1>9. DOMAIN callpids' \subseteq Pid \X (0..MaxBlocks)
  BY <1>5 DEF Typed, CallNode
<1>10. \A n \in DOMAIN callpids' : callpids'[n] \in Seq(Pid)
  BY <1>5 DEF Typed
<1>11. QED BY <1>1, <1>2, <1>5, <1>8, <1>9, <1>10 DEF Typed

LEMMA TurnTyped ==
  ASSUME Typed, Turn
  PROVE  Typed'
<1>1. /\ file' = file /\ rev' = ~rev /\ turns' = turns + 1 /\ turns < MaxTurns
      /\ npcs' = npcs /\ callpids' = callpids /\ at' = [at EXCEPT ![0] = "loop"]
      /\ head' = head /\ pc' = pc /\ stackdepth' = stackdepth /\ via' = via /\ trail' = trail
      /\ insts' = insts /\ exmap' = exmap /\ was' = was
  BY DEF Turn, code, place
<1>2. Label' = Label
  BY <1>1, FileStays
<1>3. at' \in [Pid -> State]
  BY <1>1 DEF Typed, State
<1>4. turns' \in 0..MaxTurns
  BY <1>1, WalkAssumption DEF Typed
<1>5. rev' \in BOOLEAN
  BY <1>1
<1>6. QED BY <1>1, <1>2, <1>3, <1>4, <1>5 DEF Typed

-----------------------------------------------------------------------------
(* The invariant                                                           *)

LEMMA StartsRight ==
  ASSUME WellBuilt, Init
  PROVE  Ind
<1> DEFINE b == file.beginmap[ProcName(1)]
<1>1. /\ rev = FALSE /\ turns = 0 /\ npcs = 1 /\ callpids = <<>> /\ err = "none"
      /\ head = [p \in Pid |-> b] /\ pc = [p \in Pid |-> 0] /\ stackdepth = [p \in Pid |-> <<>>]
      /\ at = [p \in Pid |-> IF p = 0 THEN "loop" ELSE "none"] /\ insts = [p \in Pid |-> <<>>]
      /\ via = [p \in Pid |-> <<>>] /\ trail = [p \in Pid |-> <<>>] /\ exmap = [p \in Pid |-> <<>>]
      /\ was = [p \in Pid |-> <<>>]
  BY DEF Init
<1>2. /\ b \in Lines /\ LineAt(b).op = "begin" /\ ~IsBranch(LineAt(b).arg)
  BY DEF WellBuilt, CallsArrive, Begins
<1>3. b \in Starts
  <2>1. b \in Nat /\ b % 3 # 1 /\ b % 3 # 2
    BY <1>2, LineFacts DEF Middles, Instructions
  <2>2. b % 3 = 0
    BY <2>1
  <2>3. QED BY <1>2, <2>2 DEF Starts
<1>4. b \in 0..Len(file.f) /\ Len(file.f) \in Nat
  <2>1. Len(file.f) \in Nat
    BY DEF WellBuilt, InThrees
  <2>2. QED BY <1>2, <2>1 DEF Lines
<1>5. DOMAIN callpids = {}
  BY <1>1
<1>6. Typed
  <2> HIDE DEF b
  <2>1. turns \in 0..MaxTurns /\ npcs \in 1..(MaxPid + 1) /\ 0 \in 0..MaxBlocks
    BY <1>1, WalkAssumption
  <2>2. <<>> \in Stacks /\ <<>> \in Seq(Int) /\ <<>> \in Seq(Label) /\ <<>> \in Seq(Seq(Int))
        /\ <<>> \in Seq(Stacks \X Seq(Label)) /\ Len(<<>>) = 0
    BY DEF Stacks
  <2>3. \A p \in Pid : Len(via[p]) <= 1 /\ Len(exmap[p]) <= MaxBlocks /\ Len(was[p]) <= MaxBlocks
    BY <1>1, <2>2, WalkAssumption
  <2>4. head \in [Pid -> 0..Len(file.f)] /\ pc \in [Pid -> 0..MaxBlocks] /\ at \in [Pid -> State]
    BY <1>1, <1>4, <2>1 DEF State
  <2>5. /\ stackdepth \in [Pid -> Stacks] /\ insts \in [Pid -> Seq(Int)] /\ via \in [Pid -> Seq(Label)]
        /\ trail \in [Pid -> Seq(Label)] /\ exmap \in [Pid -> Seq(Seq(Int))]
        /\ was \in [Pid -> Seq(Stacks \X Seq(Label))]
    BY <1>1, <2>2
  <2>6. QED BY <1>1, <1>5, <2>1, <2>3, <2>4, <2>5 DEF Typed
<1>7. \A p \in Pid : pc[p] = 0 /\ at[p] \in {"loop", "none"} /\ ~InBlock(p)
  BY <1>1 DEF InBlock
<1>8. ASSUME NEW p \in Pid PROVE OnItsWay(p)
  <2>1. Past(p)
    <3>1. Len(exmap[p]) = 0 /\ Len(was[p]) = 0 /\ 1..0 = {}
      BY <1>1
    <3>2. QED BY <1>7, <3>1 DEF Past
  <2>2. Before(p)
    <3>1. head[p] = b /\ via[p] = <<>> /\ pc[p] + 1 = 1
      BY <1>1
    <3>2. EnteredBy(p, pc[p] + 1, head[p], via[p])
      BY <1>2, <1>3, <3>1 DEF EnteredBy
    <3>3. Fits(stackdepth[p], head[p])
      BY <1>2, <3>1 DEF Fits
    <3>4. QED BY <3>2, <3>3 DEF Before
  <2>3. Resting(p)
    BY <1>1, <1>7, <2>2 DEF Resting
  <2>4. QED BY <1>7, <2>1, <2>3 DEF OnItsWay
<1>9. \A p, k : Kids(p, k) = {}
  BY <1>5 DEF Kids
<1>10. Born
  BY <1>1 DEF Born, Pid
<1>11. ASSUME NEW p \in Pid, NEW k \in 0..MaxBlocks
       PROVE  Linked(p, k)
  <2>1. ~CallDone(p, k) /\ ~Calling(p, k)
    <3>1. ~(k < pc[p])
      BY <1>7, WalkAssumption
    <3>2. QED BY <1>7, <3>1 DEF CallDone, Calling
  <2>2. QED BY <1>9, <2>1 DEF Linked
<1>12. Apart /\ Called /\ Done(0)
  BY <1>1, <1>7, <1>9, WalkAssumption DEF Apart, Called, Done, Active, Pid
<1>13. QED BY <1>1, <1>6, <1>8, <1>10, <1>11, <1>12 DEF Ind, Family

\* Who moves alone keeps the others and the families as they are.
LEMMA OneMoves ==
  ASSUME Ind, NEW p \in Pid, Moves(p), Typed', \A q \in Pid \ {p} : Stays(q), file' = file,
         npcs' = npcs, callpids' = callpids
  PROVE  Ind'
<1>1. \A q \in Pid : OnItsWay(q)'
  BY ProcessStays DEF Ind, Moves
<1>2. Family'
  BY FamilyMoves DEF Ind
<1>3. WellBuilt' /\ err' = "none"
  BY FileStays DEF Ind, Moves
<1>4. QED BY <1>1, <1>2, <1>3 DEF Ind

LEMMA ExecuteOnceKeeps ==
  ASSUME Ind, NEW p \in Pid, ExecuteOnce(p)
  PROVE  Ind'
<1>1. UNCHANGED <<code, rev, turns, pc, exmap, was>>
  BY DEF ExecuteOnce
<1>2. /\ file' = file /\ rev' = rev /\ turns' = turns /\ pc' = pc /\ exmap' = exmap /\ was' = was
      /\ UNCHANGED <<file, rev, turns, pc, exmap, was>> /\ InSameBlock(p)
  BY <1>1 DEF code, InSameBlock
<1>3. WellBuilt /\ Typed /\ Family /\ OnItsWay(p) /\ err = "none" /\ \A q \in Pid : OnItsWay(q)
  BY DEF Ind
<1>4. CASE Line(p)
  <2>1. Moves(p) /\ InBlock(p)'
    BY <1>2, <1>3, <1>4, LineMoves
  <2>2. OnlyPlaceOf(p)
    BY <1>3, <1>4, LineKeepsOthers
  <2>3. Typed' /\ \A q \in Pid \ {p} : Stays(q)
    BY <1>2, <1>3, <2>1, <2>2, LineTyped DEF Moves
  <2>4. QED BY <1>2, <2>1, <2>2, <2>3, OneMoves DEF OnlyPlaceOf
<1>5. CASE at[p] = "call" /\ CallEnd(p)
  <2>1. OnlyPlaceOf(p)
    BY <1>3, <1>5, LineKeepsOthers
  <2>2. \A q \in Pid \ {p} : Stays(q)
    BY <1>2, <1>3, <2>1 DEF OnlyPlaceOf, Stays, Typed
  <2>3. OnItsWay(p)' /\ err' = err /\ at'[p] = "rest" /\ Family'
    BY <1>2, <1>3, <1>5, <2>2, CallEndMoves
  <2>4. InBlock(p)'
    BY <2>3 DEF InBlock
  <2>5. Typed'
    BY <1>2, <1>3, <2>1, <2>3, <2>4, LineTyped
  <2>6. \A q \in Pid : OnItsWay(q)'
    BY <1>3, <2>2, <2>3, ProcessStays
  <2>7. WellBuilt' /\ err' = "none"
    BY <1>2, <1>3, <2>3, FileStays
  <2>8. QED BY <2>3, <2>5, <2>6, <2>7 DEF Ind
<1>6. CASE at[p] \in {"first", "rest"} /\ CallChildren(p)
  <2>1. (\A q \in Pid : OnItsWay(q)') /\ err' = err /\ Family'
    BY <1>2, <1>3, <1>6, CallMoves
  <2>2. Typed'
    BY <1>1, <1>3, <1>6, CallTyped
  <2>3. WellBuilt' /\ err' = "none"
    BY <1>2, <1>3, <2>1, FileStays
  <2>4. QED BY <2>1, <2>2, <2>3 DEF Ind
<1>7. QED BY <1>4, <1>5, <1>6 DEF ExecuteOnce, Step, Line

LEMMA StepKeeps ==
  ASSUME Ind, [Next]_vars, TurnAtJump = FALSE
  PROVE  Ind'
<1>1. WellBuilt /\ Typed /\ Family /\ err = "none" /\ \A q \in Pid : OnItsWay(q)
  BY DEF Ind
<1>2. ASSUME NEW p \in Pid, BeginBlock(p) \/ FinishBlock(p)
      PROVE  Ind'
  <2>1. Moves(p)
    BY <1>1, <1>2, BlockMoves
  <2>2. Typed' /\ (\A q \in Pid \ {p} : Stays(q)) /\ npcs' = npcs /\ callpids' = callpids
    BY <1>1, <1>2, BeginTyped, FinishTyped
  <2>3. file' = file
    BY <1>2 DEF BeginBlock, FinishBlock, code
  <2>4. QED BY <2>1, <2>2, <2>3, OneMoves
<1>3. CASE Turn
  <2>1. file' = file /\ err' = err
    BY <1>3 DEF Turn, code
  <2>2. WellBuilt'
    BY <1>1, <2>1, FileStays
  <2>3. Typed' /\ (\A q \in Pid : OnItsWay(q)') /\ Family'
    BY <1>1, <1>3, TurnTyped, TurnMoves
  <2>4. QED BY <1>1, <2>1, <2>2, <2>3 DEF Ind
<1>4. CASE UNCHANGED vars
  <2>1. /\ file' = file /\ rev' = rev /\ turns' = turns /\ npcs' = npcs /\ callpids' = callpids
        /\ head' = head /\ pc' = pc /\ stackdepth' = stackdepth /\ via' = via /\ trail' = trail
        /\ at' = at /\ insts' = insts /\ exmap' = exmap /\ was' = was /\ err' = err
    BY <1>4 DEF vars, code, place
  <2>2. WellBuilt' /\ Label' = Label
    BY <1>1, <2>1, FileStays
  <2>3. Typed'
    BY <1>1, <2>1, <2>2 DEF Typed
  <2>4. \A q \in Pid : Stays(q)
    BY <2>1 DEF Stays
  <2>5. \A q \in Pid : /\ OnItsWay(q)' /\ Done(q)' = Done(q) /\ Active(q)' = Active(q)
                       /\ AtBegin(q)' = AtBegin(q) /\ AtEnd(q)' = AtEnd(q)
                       /\ \A k : CallDone(q, k)' = CallDone(q, k) /\ Calling(q, k)' = Calling(q, k)
    BY <1>1, <2>4, ProcessStays
  <2>6. \A p, k : Kids(p, k)' = Kids(p, k)
    BY <2>1 DEF Kids
  <2>7. Born' /\ Apart' /\ Called' /\ Done(0)'
    BY <1>1, <2>1, <2>5, <2>6, WalkAssumption DEF Family, Born, Apart, Called, Pid
  <2>8. ASSUME NEW p \in Pid, NEW k \in 0..MaxBlocks PROVE Linked(p, k)'
    <3>1. Linked(p, k) /\ \A q \in Kids(p, k) : q \in Pid
      BY <1>1, KidsExist DEF Family
    <3>2. QED BY <2>1, <2>5, <2>6, <3>1 DEF Linked
  <2>9. QED BY <1>1, <2>1, <2>2, <2>3, <2>5, <2>7, <2>8 DEF Ind, Family
<1>5. QED BY <1>2, <1>3, <1>4, ExecuteOnceKeeps DEF Next, Walk, Halted

LEMMA WayIsInvariant ==
  ASSUME TurnAtJump = FALSE
  PROVE  Spec /\ WellBuilt => []Ind
<1>1. Init /\ WellBuilt => Ind
  BY StartsRight
<1>2. Ind /\ [Next]_vars => Ind'
  BY StepKeeps
<1>3. QED BY <1>1, <1>2, PTL DEF Spec

-----------------------------------------------------------------------------
(* What follows from it                                                    *)

LEMMA TypesFollow ==
  ASSUME Typed
  PROVE  TypeOK
<1>1. \A n \in DOMAIN callpids : n \in Pid \X (0..MaxBlocks) /\ ToSet(callpids[n]) \subseteq Pid
  <2> SUFFICES ASSUME NEW n \in DOMAIN callpids
               PROVE  n \in Pid \X (0..MaxBlocks) /\ ToSet(callpids[n]) \subseteq Pid
    OBVIOUS
  <2>1. n \in Pid \X (0..MaxBlocks) /\ callpids[n] \in Seq(Pid)
    BY DEF Typed
  <2>2. ToSet(callpids[n]) \subseteq Pid
    BY <2>1 DEF ToSet
  <2>3. QED BY <2>1, <2>2
<1>2. \A p \in Pid : \A i \in DOMAIN stackdepth[p] : stackdepth[p][i] \in Seq(Nat)
  BY DEF Typed, Stacks
<1>3. at \in [Pid -> {"none", "loop", "first", "rest", "end", "last", "call", "sem", "stopped"}]
  BY DEF Typed, State
<1>4. QED BY <1>1, <1>2, <1>3 DEF Typed, TypeOK

LEMMA ScopeFollows ==
  ASSUME Ind
  PROVE  InScope
<1>1. WellBuilt /\ Typed
  BY DEF Ind
<1> SUFFICES ASSUME NEW p \in Pid, at[p] \in {"loop", "rest", "call", "sem"},
                    head[p] < Len(file.f), LineAt(head[p]).op # "begin"
             PROVE  Last(stackdepth[p]) = LineAt(head[p]).scope
  BY DEF InScope
<1>2. /\ OnItsWay(p) /\ pc[p] \in Nat /\ stackdepth[p] \in Stacks /\ head[p] \in Nat
      /\ head[p] \in Lines
  <2>1. Len(file.f) \in Nat /\ head[p] \in 0..Len(file.f)
    BY <1>1 DEF WellBuilt, InThrees, Typed
  <2>2. head[p] \in Lines
    BY <2>1 DEF Lines
  <2>3. QED BY <2>1, <2>2 DEF Ind, Typed
<1>3. CASE at[p] = "loop" /\ ~rev
  BY <1>2, <1>3 DEF OnItsWay, InBlock, Resting, Before, Fits
<1>4. CASE at[p] = "loop" /\ rev
  <2>1. Behind(p) /\ Past(p) /\ ~InBlock(p)
    BY <1>2, <1>4 DEF OnItsWay, InBlock, Resting
  <2>2. pc[p] # 0 /\ Passed(p, pc[p])
    BY <1>2, <2>1 DEF Behind, Past
  <2> DEFINE s == exmap[p][pc[p]][1]
             x == was[p][pc[p]][1]
  <2>3. Found(p, pc[p] + 1) = <<stackdepth[p], trail[p]>>
    BY <2>1 DEF Found
  <2>4. s \in Starts /\ Fits(x, s) /\ stackdepth[p] = Stack(x, s, 3)
    BY <2>2, <2>3 DEF EnteredBy, Passed
  <2>5. x \in Stacks
    <3>1. was[p] \in Seq(Stacks \X Seq(Label)) /\ Len(was[p]) >= pc[p]
      BY <1>1, <2>1 DEF Typed, Past
    <3>2. was[p][pc[p]] \in Stacks \X Seq(Label)
      BY <1>2, <2>2, <3>1
    <3>3. QED BY <3>2
  <2>6. s \in Nat /\ s + 2 \in Lines /\ head[p] = s + 3 /\ s + 2 + 1 = s + 3
    <3>1. s \in Nat /\ s + 2 \in Lines
      BY <1>1, <2>4, BlockFacts
    <3>2. head[p] = s + 2 + 1
      BY <2>1 DEF Behind, ExitOf
    <3>3. QED BY <3>1, <3>2
  <2> HIDE DEF s, x
  <2>7. LineAt(s + 2).op # "end"
    BY <1>1, <1>2, <2>6, ScopeFacts
  <2>8. QED BY <1>1, <1>2, <2>4, <2>5, <2>6, <2>7, StackInBlock
<1>5. CASE at[p] \in {"rest", "call", "sem"}
  <2>1. PICK s \in Starts, v \in Ways, d \in 0..3 : Within(p, s, v, d)
    BY <1>2, <1>5 DEF OnItsWay, InBlock
  <2> DEFINE x == was[p][pc[p] + 1][1]
  <2>2. x \in Stacks /\ Fits(x, s) /\ stackdepth[p] = Stack(x, s, d)
    BY <1>1, <2>1, WithinFacts
  <2> HIDE DEF x
  <2>3. d \in 1..2 /\ head[p] = s + d
    <3>1. CASE rev
      <4>1. Undoing(p, s, v, d)
        BY <2>1, <3>1 DEF Within
      <4>2. QED BY <1>5, <4>1 DEF Undoing
    <3>2. CASE ~rev
      <4>1. Doing(p, s, v, d)
        BY <2>1, <3>2 DEF Within
      <4>2. QED BY <1>5, <4>1 DEF Doing
    <3>3. QED BY <3>1, <3>2
  <2>4. QED BY <1>1, <2>2, <2>3, StackInBlock
<1>6. QED BY <1>3, <1>4, <1>5

LEMMA RetracingFollows ==
  ASSUME Ind
  PROVE  UndoRetraces
<1> SUFFICES ASSUME NEW p \in Pid, at[p] \in {"end", "last"}, rev
             PROVE  was[p][pc[p] + 1] = <<stackdepth[p], trail[p]>>
  BY DEF UndoRetraces
<1>1. WellBuilt /\ Typed /\ OnItsWay(p)
  BY DEF Ind
<1>2. PICK s \in Starts, v \in Ways, d \in 0..3 : Within(p, s, v, d)
  BY <1>1 DEF OnItsWay, InBlock
<1> DEFINE found == was[p][pc[p] + 1]
<1>3. /\ found \in Stacks \X Seq(Label) /\ found[1] \in Stacks /\ Fits(found[1], s)
      /\ stackdepth[p] = Stack(found[1], s, d)
  BY <1>1, <1>2, WithinFacts
<1>4. d = 0
  BY <1>2 DEF Within, Undoing
<1>5. trail[p] = found[2] /\ stackdepth[p] = found[1]
  BY <1>1, <1>2, <1>3, <1>4, StackInBlock DEF Within
<1>6. QED BY <1>3, <1>5

\* The variables of the walk keep their types in every well-built file.
THEOREM WalkTypes ==
  ASSUME TurnAtJump = FALSE
  PROVE  Spec /\ WellBuilt => []TypeOK
<1>1. Ind => TypeOK
  BY TypesFollow DEF Ind
<1>2. QED BY <1>1, WayIsInvariant, PTL

\* In a well-built file no assertion of the runtime fails, whatever the order
\* in which the processes go, what their conditions say and how often the user
\* turns, if only where the next line is the one that is written next: every label that is jumped to exists (label.go:26), blocks close as
\* they were opened (runtime.go:652 and 668), and flag -e finds a block that is
\* undone to be the one that was executed (pc.go:156).
THEOREM NeverPanics ==
  ASSUME TurnAtJump = FALSE
  PROVE  Spec /\ WellBuilt => []NoPanic
<1>1. Ind => NoPanic
  BY DEF Ind, NoPanic
<1>2. QED BY <1>1, WayIsInvariant, PTL

\* The innermost numbers on the stack of a process, with which symtab.go:336
\* resolves names, are those of the block of the source that its next line was
\* written in, forwards and backwards.
THEOREM StaysInScope ==
  ASSUME TurnAtJump = FALSE
  PROVE  Spec /\ WellBuilt => []InScope
BY ScopeFollows, WayIsInvariant, PTL

\* A block that has been undone leaves the stack and the joins behind that it
\* had found: the process goes back by the way that it had come.
THEOREM UndoingRetraces ==
  ASSUME TurnAtJump = FALSE
  PROVE  Spec /\ WellBuilt => []UndoRetraces
BY RetracingFollows, WayIsInvariant, PTL

\* While main is not in a call no other process is on its way: the user finds
\* all of them at rest when he turns, so that setting the direction of main is
\* enough (runtime.go:260).
THEOREM TurnsFindRest ==
  ASSUME TurnAtJump = FALSE
  PROVE  Spec /\ WellBuilt => [](at[0] # "call" => \A p \in Pid \ {0} : ~Active(p))
<1>1. Ind => (at[0] # "call" => \A p \in Pid \ {0} : ~Active(p))
  BY OthersAtRest DEF Ind
<1>2. QED BY <1>1, WayIsInvariant, PTL

=============================================================================
