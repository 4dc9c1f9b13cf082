------------------------------- MODULE Loader -------------------------------
(***************************************************************************)
(* How the runtime reads a CRIL file (debug in src/runtime/debugger.go):   *)
(* it registers the labels and pads the lines so that each three of them   *)
(* are a block, with an entry, an instruction and an exit.  Line numbers   *)
(* start at 0, as in the code.                                             *)
(***************************************************************************)
EXTENDS Integers, SequencesExt

(* Names in `begin`, `end` and `call`: procedure i is <<-i>>, a branch is  *)
(* named by the path of its block.                                         *)
ProcName(i) == <<-i>>

\* Mutant of IsBranch: the blocks of main are forgotten.
IsBranchElsewhere(name) == name[1] > 0

IsBranch(name) == name[1] >= 0

\* Mutant of Ends: the end of a procedure is taken for an instruction.
EndsByJump(t) == t.op \in {"goto", "branch"}

IsExit(t) == t.op \in {"goto", "branch"}

IsEntry(t) == t.op \in {"come", "join"}

IsEnd(t) == t.op = "end"

Ends(t) == IsExit(t) \/ IsEnd(t)

(* Generated labels are told from those of the program by their sign; here *)
(* they are numbered by the line that they are registered for.             *)
RegisterNewLabel(lineno) == -(lineno + 1)

(* What is put before line t when the file has lineno lines so far: a line *)
(* that ends a block and would be its second gets a skip; one that does    *)
(* not and would be the third gets a jump to itself.                       *)
Padding(lineno, t) ==
    LET pad(op, arg) == [t EXCEPT !.op = op, !.arg = arg]
        l == RegisterNewLabel(lineno)
    IN  CASE lineno % 3 = 1 /\ Ends(t)  -> <<pad("skip", <<>>)>>
          [] lineno % 3 = 2 /\ ~Ends(t) -> <<pad("goto", <<l>>), pad("come", <<l>>)>>
          [] OTHER -> <<>>

(* The length of the file when line i of the input is scanned.             *)
Lineno(lines) ==
    LET after(n, t) == n + Len(Padding(n, t)) + 1
        at[i \in 0..Len(lines)] == IF i = 0 THEN 0 ELSE after(at[i - 1], lines[i])
    IN  [i \in DOMAIN lines |-> at[i - 1]]

(* The labels of a line are registered for the length that the file has    *)
(* before the line is padded; generated ones for the lines that they are   *)
(* put on.                                                                 *)
Labels(names, lineno) ==
    LET named(l) == {i \in DOMAIN names : l \in names[i]}
    IN  [l \in UNION Range(names) |-> lineno[Max(named(l))]]

Load(lines) ==
    LET lineno  == Lineno(lines)
        padding == [i \in DOMAIN lines |-> Padding(lineno[i], lines[i])]
        jumps   == {lineno[i] : i \in {j \in DOMAIN lines : Len(padding[j]) = 2}}
        namedBy(P(_), Names(_)) ==
            Labels([i \in DOMAIN lines |-> IF P(lines[i]) THEN Names(lines[i]) ELSE {}], lineno)
        each(t)  == ToSet(t.arg)
        whole(t) == {t.arg}
        new(k)   == [l \in {RegisterNewLabel(n) : n \in jumps} |-> k - l - 1]
    IN  [f        |-> FlattenSeq([i \in DOMAIN lines |-> Append(padding[i], lines[i])]),
         gotomap  |-> namedBy(IsExit, each) @@ new(0),
         comemap  |-> namedBy(IsEntry, each) @@ new(1),
         beginmap |-> namedBy(LAMBDA t : t.op = "begin", whole),
         endmap   |-> namedBy(IsEnd, whole)]

=============================================================================
