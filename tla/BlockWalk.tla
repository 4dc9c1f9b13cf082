----------------------------- MODULE BlockWalk ------------------------------
(***************************************************************************)
(* The processes on their way through a loaded CRIL file, forwards and     *)
(* backwards: executeBlock and executeOnce in src/runtime/pc.go and the    *)
(* instructions that move `head` or the stack of block numbers.            *)
(*                                                                         *)
(* Values are abstracted: a branch goes either way, and a join that is     *)
(* undone goes back to where it was entered from, which is what the        *)
(* condition written there asserts; Scopes puts the values in.  Whether    *)
(* the DAG lets a process run belongs to CrilRuntime: here any of them may *)
(* run, forwards and backwards.                                            *)
(***************************************************************************)
EXTENDS Loader

CONSTANTS
    Programs,  \* source programs
    Loaded(_), \* the files that a program may be loaded from: those that Compiler yields
    MaxPid,    \* processes are 0..MaxPid
    MaxBlocks, \* bound on the blocks that a process executes
    MaxTurns,  \* bound on the changes of direction
    TurnAtJump \* the user also turns where the last jump led elsewhere than to the next line

ASSUME WalkAssumption ==
    /\ MaxPid \in Nat
    /\ MaxBlocks \in Nat
    /\ MaxTurns \in Nat
    /\ TurnAtJump \in BOOLEAN

VARIABLES
    source,     \* the program
    file,       \* the loaded file with its labels
    rev,        \* the direction
    turns,      \* how often it has changed
    npcs,       \* len(r.pcs): the processes below it exist
    callpids,   \* dag.callpids: node of a call -> pids of its children
    head,       \* the line that is executed next forwards; backwards it is the one before
    pc,         \* the counter pc.pc
    stackdepth, \* the numbers of the open blocks, per procedure
    at,         \* where in execute and executeBlock the process is
    insts,      \* lines executed so far in the current block
    via,        \* label of the last jump, as a sequence of one; empty at an end of the procedure
    trail,      \* labels through which the joins that are passed were entered
    exmap,      \* the lines of each block executed forwards and not undone
    was,        \* stackdepth and trail before each of these
    err         \* the panic that ended the program

place == <<head, pc, stackdepth, via, trail>>
code  == <<source, file>>
vars  == <<code, rev, turns, npcs, callpids, place, at, insts, exmap, was, err>>

Pid == 0..MaxPid

-----------------------------------------------------------------------------
(* The line that executeOnce executes                                      *)

Index(p)   == IF rev THEN head[p] - 1 ELSE head[p]
LineAt(i)  == file.f[i + 1]
Current(p) == LineAt(Index(p))

Is(p, ops) == Index(p) \in 0..(Len(file.f) - 1) /\ Current(p).op \in ops

(* What the compiler and the loader see to, and the runtime never checks   *)
(* before it stumbles over it.  Blocks have an entry, an instruction and   *)
(* an exit; what follows an end is another procedure.                      *)
Lines == 0..(Len(file.f) - 1)

Instructions == {"+=", "-=", "^=", "set", "unset"}
Middles == Instructions \cup {"call", "V", "P", "skip", "indent", "unindent"}

InThrees ==
    /\ file.f \in Seq(ToSet(file.f))
    /\ Len(file.f) % 3 = 0
    /\ \A i \in Lines :
          LET t == LineAt(i)
          IN  /\ t.arg \in Seq(ToSet(t.arg)) /\ t.scope \in Seq(Nat)
              /\ i % 3 = 0 => t.op = "begin" \/ IsEntry(t)
              /\ i % 3 = 1 => t.op \in Middles
              /\ i % 3 = 2 => Ends(t)
              /\ IsEnd(t) /\ i + 1 \in Lines => LineAt(i + 1).op = "begin"

(* A label leads from one exit to one entry of the same block of the       *)
(* source, and back; a come has one label.                                 *)
Leads(l, i, j) ==
    /\ l \in DOMAIN file.gotomap /\ file.gotomap[l] = i /\ i \in Lines
    /\ l \in DOMAIN file.comemap /\ file.comemap[l] = j /\ j \in Lines
    /\ IsExit(LineAt(i)) /\ l \in ToSet(LineAt(i).arg)
    /\ IsEntry(LineAt(j)) /\ l \in ToSet(LineAt(j).arg)
    /\ LineAt(i).scope = LineAt(j).scope

JumpsMeet ==
    \A i \in Lines :
        /\ IsExit(LineAt(i)) => \A l \in ToSet(LineAt(i).arg) : Leads(l, i, file.comemap[l])
        /\ IsEntry(LineAt(i)) => \A l \in ToSet(LineAt(i).arg) : Leads(l, file.gotomap[l], i)
        /\ LineAt(i).op = "come" => Len(LineAt(i).arg) = 1

(* Neighbouring lines are in the same block, unless one of them opens it,  *)
(* closes it, or begins or ends a procedure.                               *)
ScopesFit ==
    \A i \in Lines :
        LET t == LineAt(i)
        IN  /\ t.op \in {"indent", "unindent"} => t.arg # <<>> /\ t.arg[1] \in Nat
            /\ t.op \in {"begin", "end"} /\ ~IsBranch(t.arg) => t.scope = <<>>
            /\ i + 1 \in Lines /\ ~IsEnd(t) =>
                  CASE t.op = "indent"   -> LineAt(i + 1).scope = Append(t.scope, t.arg[1])
                    [] t.op = "unindent" -> t.scope = Append(LineAt(i + 1).scope, t.arg[1])
                    [] OTHER             -> LineAt(i + 1).scope = t.scope

(* Who is called begins somewhere and has an end, a branch in the block of *)
(* its call; and so does main.                                             *)
Begins(name) ==
    /\ name \in DOMAIN file.beginmap /\ name \in DOMAIN file.endmap
    /\ file.beginmap[name] \in Lines
    /\ LineAt(file.beginmap[name]).op = "begin" /\ LineAt(file.beginmap[name]).arg = name

CallsArrive ==
    /\ Begins(ProcName(1)) /\ ~IsBranch(ProcName(1))
    /\ \A i \in Lines : LineAt(i).op = "call" =>
          \A name \in ToSet(LineAt(i).arg) :
              Begins(name) /\ (IsBranch(name) => LineAt(file.beginmap[name]).scope = LineAt(i).scope)

WellBuilt == InThrees /\ JumpsMeet /\ ScopesFit /\ CallsArrive

-----------------------------------------------------------------------------
(* exmut is held by the process in the middle of a block, unless it waits  *)
(* for its children or for a semaphore.                                    *)
Working(p) == at[p] \in {"first", "rest", "end", "last"}
Free == \A p \in Pid : ~Working(p)

Fail(condition, panic) == err' = IF condition THEN err ELSE panic

(* Its return value is 0, or that of `begin` and `end`, which ends the     *)
(* process.  The block goes on until head is a multiple of three.          *)
Executed(p, h) ==
    /\ head' = [head EXCEPT ![p] = h]
    /\ insts' = [insts EXCEPT ![p] = Append(@, Index(p))]
    /\ at' = [at EXCEPT ![p] = IF h % 3 = 0 THEN "end" ELSE "rest"]

Falls(p) == Executed(p, IF rev THEN head[p] - 1 ELSE head[p] + 1)

Instruction(p) ==
    /\ Is(p, Instructions \cup {"V", "P", "skip"}
             \cup (IF rev THEN {"goto", "branch"} ELSE {"come"}))
    /\ Falls(p)
    /\ UNCHANGED <<npcs, callpids, stackdepth, via, trail, err>>

(* V and P give up the mutex while the semaphore has the wrong value.      *)
SemWait(p) ==
    /\ Is(p, {"V", "P"})
    /\ at' = [at EXCEPT ![p] = "sem"]
    /\ UNCHANGED <<npcs, callpids, head, insts, stackdepth, via, trail, err>>

Landing(lineno) == IF rev THEN lineno + 1 ELSE lineno

(* A jump: an exit forwards, an entry backwards.                           *)
Jump(p, labels, l) ==
    /\ Fail(l \in DOMAIN labels, "Label not found")
    /\ Executed(p, IF l \in DOMAIN labels THEN Landing(labels[l]) ELSE head[p])
    /\ via' = [via EXCEPT ![p] = <<l>>]
    /\ UNCHANGED <<npcs, callpids, stackdepth>>

Leave(p, l) ==
    /\ ~rev
    /\ Is(p, {"goto", "branch"})
    /\ l \in ToSet(Current(p).arg)
    /\ Jump(p, file.comemap, l)
    /\ UNCHANGED trail

PassJoin(p) ==
    /\ ~rev
    /\ Is(p, {"join"})
    /\ Falls(p)
    /\ trail' = [trail EXCEPT ![p] = @ \o via[p]]
    /\ UNCHANGED <<npcs, callpids, stackdepth, via, err>>

(* The label by which the entry was reached, or that a join was reached by *)
(* when it was passed.                                                     *)
CameBy(p) ==
    IF Is(p, {"join"}) /\ trail[p] # <<>> THEN {Last(trail[p])} ELSE ToSet(Current(p).arg)

Return(p, l) ==
    /\ rev
    /\ Is(p, {"come", "join"})
    /\ l \in ToSet(Current(p).arg)
    /\ Jump(p, file.gotomap, l)
    /\ trail' = [trail EXCEPT ![p] = IF Is(p, {"join"}) /\ @ # <<>> THEN Front(@) ELSE @]

\* Mutant of Exit: the numbers of the procedure stay on the stack.
ExitLeaving(name, stack) == stack

(* begin and end: those of a branch leave the stack alone.                 *)
Enter(name, stack) == IF IsBranch(name) THEN stack ELSE Append(stack, <<>>)

Exit(name, stack) == IF IsBranch(name) THEN stack ELSE Front(stack)

EndsProcess(p) == Current(p).op = IF rev THEN "begin" ELSE "end"

Boundary(p) ==
    /\ Is(p, {"begin", "end"})
    /\ stackdepth' = [stackdepth EXCEPT ![p] =
                          IF EndsProcess(p) THEN Exit(Current(p).arg, @) ELSE Enter(Current(p).arg, @)]
    /\ insts' = [insts EXCEPT ![p] = Append(@, Index(p))]
    /\ head' = [head EXCEPT ![p] = IF rev THEN @ - 1 ELSE @ + 1]
    /\ at' = [at EXCEPT ![p] = IF EndsProcess(p) THEN "last"
                               ELSE IF head'[p] % 3 = 0 THEN "end" ELSE "rest"]
    /\ via' = [via EXCEPT ![p] = IF EndsProcess(p) THEN <<>> ELSE @]
    /\ UNCHANGED <<npcs, callpids, trail, err>>

(* call starts its children and gives up the mutex.  The first time they   *)
(* are new; later they go on from where they had ended.                    *)
CallNode(p) == <<p, pc[p]>>

Children(p) == ToSet(callpids[CallNode(p)])

CallChildren(p) ==
    LET labels == IF rev THEN file.endmap ELSE file.beginmap
        names  == Current(p).arg
        known  == CallNode(p) \in DOMAIN callpids
        kids   == IF known THEN callpids[CallNode(p)]
                  ELSE [i \in DOMAIN names |-> npcs + i - 1]
    IN  /\ Is(p, {"call"})
        /\ ~known => npcs + Len(names) <= MaxPid + 1
        /\ Fail(ToSet(names) \subseteq DOMAIN labels, "Label not found")
        /\ callpids' = [n \in DOMAIN callpids \cup {CallNode(p)} |->
                           IF n = CallNode(p) THEN kids ELSE callpids[n]]
        /\ npcs' = IF known THEN npcs ELSE npcs + Len(names)
        /\ at' = [q \in Pid |-> IF q = p THEN "call"
                                ELSE IF q \in ToSet(kids) THEN "loop" ELSE at[q]]
        /\ head' = [q \in Pid |-> IF q \in npcs..(npcs' - 1) /\ err' = err
                                  THEN labels[names[q - npcs + 1]] ELSE head[q]]
        /\ stackdepth' = [q \in Pid |-> IF q \in npcs..(npcs' - 1)
                                        THEN stackdepth[p] ELSE stackdepth[q]]
        /\ UNCHANGED <<insts, via, trail>>

\* Mutant of Joined: the call goes on when one child is done.
JoinedByOne(p) == \E q \in Children(p) : at[q] = "stopped"

Joined(p) == \A q \in Children(p) : at[q] = "stopped"

CallEnd(p) ==
    /\ Joined(p)
    /\ Falls(p)
    /\ UNCHANGED <<npcs, callpids, stackdepth, via, trail, err>>

(* indent and unindent.  Leaving a block checks that it is the innermost.  *)
ChangeDepth(p) ==
    /\ Is(p, {"indent", "unindent"})
    /\ Falls(p)
    /\ LET top == Last(stackdepth[p])
           n   == Current(p).arg[1]
           put(numbers) == stackdepth' = [stackdepth EXCEPT ![p] = Append(Front(@), numbers)]
       IN  IF (Current(p).op = "indent") # rev
           THEN /\ put(Append(top, n))
                /\ UNCHANGED err
           ELSE /\ put(IF top = <<>> THEN top ELSE Front(top))
                /\ Fail(top # <<>> /\ Last(top) = n, "Indent conflict")
    /\ UNCHANGED <<npcs, callpids, via, trail>>

-----------------------------------------------------------------------------
Init ==
    /\ source \in Programs
    /\ file \in Loaded(source)
    /\ rev = FALSE
    /\ turns = 0
    /\ npcs = 1
    /\ callpids = <<>>
    /\ head = [p \in Pid |-> file.beginmap[ProcName(1)]]
    /\ pc = [p \in Pid |-> 0]
    /\ stackdepth = [p \in Pid |-> <<>>]
    /\ at = [p \in Pid |-> IF p = 0 THEN "loop" ELSE "none"]
    /\ insts = [p \in Pid |-> <<>>]
    /\ via = [p \in Pid |-> <<>>]
    /\ trail = [p \in Pid |-> <<>>]
    /\ exmap = [p \in Pid |-> <<>>]
    /\ was = [p \in Pid |-> <<>>]
    /\ err = "none"

(* executeBlock up to the first executeOnce                                *)
BeginBlock(p) ==
    /\ at[p] = "loop"
    /\ Free
    /\ IF rev
       THEN /\ pc[p] > 0
            /\ pc' = [pc EXCEPT ![p] = @ - 1]
            /\ UNCHANGED was
       ELSE /\ pc[p] < MaxBlocks
            /\ was' = [was EXCEPT ![p] = Append(SubSeq(@, 1, pc[p]), <<stackdepth[p], trail[p]>>)]
            /\ UNCHANGED pc
    /\ at' = [at EXCEPT ![p] = "first"]
    /\ UNCHANGED <<code, rev, turns, npcs, callpids, head, stackdepth, insts, via, trail, exmap, err>>

(* One line.  A process in a call or at a semaphore has to get the mutex   *)
(* again.                                                                  *)
Step(p) ==
    \/ /\ at[p] \in {"first", "rest"}
       /\ \/ Instruction(p)
          \/ SemWait(p)
          \/ PassJoin(p)
          \/ Boundary(p)
          \/ CallChildren(p)
          \/ ChangeDepth(p)
    \/ at[p] = "sem" /\ Free /\ Instruction(p)
    \/ at[p] = "call" /\ Free /\ CallEnd(p)

ExecuteOnce(p) ==
    /\ \/ Step(p)
       \/ /\ at[p] \in {"first", "rest"}
          /\ \/ \E l \in ToSet(Current(p).arg) : Leave(p, l)
             \/ \E l \in CameBy(p) : Return(p, l)
    /\ UNCHANGED <<code, rev, turns, pc, exmap, was>>

(* executeBlock after the last executeOnce: what was executed is           *)
(* remembered, or compared with what is remembered (flag -e).              *)
FinishBlock(p) ==
    /\ at[p] \in {"end", "last"}
    /\ IF rev
       THEN /\ Fail(pc[p] \in 0..(Len(exmap[p]) - 1) /\ Reverse(insts[p]) = exmap[p][pc[p] + 1],
                    "Unmatched execution")
            /\ UNCHANGED <<exmap, pc>>
       ELSE /\ exmap' = [exmap EXCEPT ![p] = Append(SubSeq(@, 1, pc[p]), insts[p])]
            /\ pc' = [pc EXCEPT ![p] = @ + 1]
            /\ UNCHANGED err
    /\ at' = [at EXCEPT ![p] = IF @ = "last" THEN "stopped" ELSE "loop"]
    /\ insts' = [insts EXCEPT ![p] = <<>>]
    /\ UNCHANGED <<code, rev, turns, npcs, callpids, head, stackdepth, via, trail, was>>

(* The user stops main between two blocks, when it is the only process, or *)
(* finds it at its end, and sets the other direction.                      *)
JumpedToNext(p) == \A i \in DOMAIN via[p] : file.comemap[via[p][i]] = file.gotomap[via[p][i]] + 1

Turn ==
    /\ turns < MaxTurns
    /\ at[0] = "stopped" \/ (at[0] = "loop" /\ via[0] # <<>> /\ (JumpedToNext(0) \/ TurnAtJump))
    /\ rev' = ~rev
    /\ turns' = turns + 1
    /\ at' = [at EXCEPT ![0] = "loop"]
    /\ UNCHANGED <<code, npcs, callpids, place, insts, exmap, was, err>>

(* Nothing is left to do, or only beyond the bounds.                       *)
Halted ==
    /\ \/ at[0] = "stopped"
       \/ \E p \in Pid : at[p] = "loop" /\ ~rev /\ pc[p] = MaxBlocks
       \/ err # "none"
    /\ UNCHANGED vars

Walk(p) == err = "none" /\ (BeginBlock(p) \/ ExecuteOnce(p) \/ FinishBlock(p))
Next == (\E p \in Pid : Walk(p)) \/ (err = "none" /\ Turn) \/ Halted

Spec == Init /\ [][Next]_vars

-----------------------------------------------------------------------------
TypeOK ==
    /\ rev \in BOOLEAN
    /\ turns \in 0..MaxTurns
    /\ npcs \in 1..(MaxPid + 1)
    /\ \A n \in DOMAIN callpids : n \in Pid \X (0..MaxBlocks) /\ ToSet(callpids[n]) \subseteq Pid
    /\ head \in [Pid -> 0..Len(file.f)]
    /\ pc \in [Pid -> 0..MaxBlocks]
    /\ at \in [Pid -> {"none", "loop", "first", "rest", "end", "last", "call", "sem", "stopped"}]
    /\ \A p \in Pid : \A i \in DOMAIN stackdepth[p] : stackdepth[p][i] \in Seq(Nat)
    /\ \A p \in Pid : Len(via[p]) <= 1 /\ Len(was[p]) <= MaxBlocks /\ Len(exmap[p]) <= MaxBlocks

(* No assertion of the runtime fails (label.go:26, runtime.go:652 and 668, *)
(* and with flag -e pc.go:156): every label that a process needs exists,   *)
(* blocks are closed in the order in which they were opened, and undoing   *)
(* goes back through the very lines that were executed.                    *)
NoPanic == err = "none"

(* Whatever way a process has come, the block numbers that it has on its   *)
(* stack are those of the source block that the next line was written in:  *)
(* symtab.go:336 resolves names with them.                                 *)
InScope ==
    \A p \in Pid :
        at[p] \in {"loop", "rest", "call", "sem"} /\ head[p] < Len(file.f) /\ LineAt(head[p]).op # "begin"
            => Last(stackdepth[p]) = LineAt(head[p]).scope

(* Undoing a block restores the stack of block numbers, and the joins that *)
(* lie behind are those that lay behind before it was executed.            *)
UndoRetraces ==
    \A p \in Pid :
        at[p] \in {"end", "last"} /\ rev => was[p][pc[p] + 1] = <<stackdepth[p], trail[p]>>

=============================================================================
