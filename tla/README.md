# A TLA+ model of the CRIL runtime

CJanus is a reversible, concurrent language; its compiler emits CRIL, an intermediate code of
labelled blocks, and the runtime under `src/runtime` executes CRIL forwards and backwards. Processes
are goroutines. While a program runs forwards the runtime records an *annotation DAG*: a node
`(pid, pc)` is a block that a process has executed, and an edge says that a block used or overwrote
a value that another one produced. The DAG decides in which order blocks may be undone and in which
order undone blocks may be executed again. This directory models that machinery, checks it on small
programs with TLC and proves some of it for every program with TLAPS.

## 1. Inventory

| Component | Source | State it keeps | Operations |
|---|---|---|---|
| Annotation DAG | `runtime/dag.go` | `incedges`, `outedgectr`, `callpids` | `addEdge`, `runModifyDagRev`, `isRunnable`, `addOrGetCallPid` |
| Store | `runtime/symtab.go:139-246` | `varmem`, `heapmem`, the last writer of each cell | `ReadAddr`, `WriteAddr`, `GetLastDag` |
| Processes and blocks | `runtime/pc.go`, the instructions in `runtime/runtime.go:388-791` | `pcs` (head, pc, executing), `exmut` | `execute`, `executeBlock`, `executeOnce`, `call` |
| Semaphores | `runtime/symtab.go:81-113`, `runtime.go:705-790` | one `sync.Cond` per name | `V`, `P`, `NotifySem`, `WaitSem` |
| Run control | `runtime/runtime.go:131-287`, `pc.go:66-109` | `rev`, channels `runever`, `runclose`, `dagupdate`, `newproc`, `termproc` | `run`, stop, `fwd`, `bwd`, end of the program |
| Block walk | `pc.go:113-233`, `runtime.go:464-686` | `head`, `stackdepth`, `exmap` | jumps, joins, `begin`, `end`, `indent`, `unindent` |
| Loader | `runtime/debugger.go:61-133`, `runtime/label.go` | label tables, the aligned program | line scan, `RegisterNewLabel` |
| Compiler | `compiler/parser.y`, and `parser.go`, which goyacc makes from it | output, block numbers, labels | translation of CJanus |
| Step control | `runtime/runtime.go:178-252`, `pc.go:44-65` | focus, channels `runonce`, `rundone`, `rundoner` | one step of the focused process |
| Symbol table | `runtime/symtab.go:114-360` | `alloctable`, `alclimit` | `convert`, `cut`, `GetAllocName`, `AllocSym`, `SetSym`, `UnsetSym` |
| Expressions | `runtime/expr.y`, and `expr.go`, which goyacc makes from it; `runtime.go:314-386` | the package's `p`, the process that evaluates | `EvalExpr`, `evalexpr`, `EvalVarOrConst` |
| Output and input | `PrintDag`, `PrintSym`, `readstdin`, `handlesig` | none | I/O |

How they interact. The compiler writes a file of lines; the loader aligns it into blocks of three
lines, an entry, an instruction and an exit. The debugger goroutine (`debug`) starts process 0 and
sends the direction on `runever`. A process asks the DAG (`isRunnable`) whether its next block may
be executed or undone, *without* the mutex; if so, `executeBlock` takes `exmut`, executes up to
three lines, and gives the mutex back. Instructions read and write the store, and forwards each
access calls `addEdge`. `call` starts a goroutine per child, releases `exmut`, and waits for all of
them. `V` and `P` wait on a condition variable whose lock is `exmut`. A process that may not run
waits for a token on `dagupdate`, which every finished block sends.

What is hard: the check of `isRunnable` is not under the mutex; backwards, processes undo blocks in
any order that the counters allow; a replay is scheduled anew and must still meet the same values;
calls and semaphores give up the mutex in the middle of a block; the user stops and turns around;
channels are emptied and refilled by several goroutines; and all of that repeats. What makes each
component correct:

* DAG: counters agree with edges; the writers of a variable form one chain whose end is known.
* Store: undoing a block restores what it found; replaying it computes what it computed.
* Processes: blocks are undone and redone in causal order; a call ends after its children; an
  answer of `isRunnable` is still right when it is used.
* Semaphores: mutual exclusion in both directions; no lost wakeup; no waiting while undoing.
* Run control: a command ends; a stop stops everybody; one goroutine per process; no broadcast
  blocks; nobody waits for a token that nobody will send.
* Block walk, loader, compiler: every block is three lines; every label leads to a block; a process
  goes back the way it came; the block numbers of the runtime are those of the source.
* Step control: requests do not multiply, although processes hand them on and steps leave them behind;
  no branch is left half way; blocks follow the causal order; and the step ends.
* Symbol table: the names of a line lead to the variables that the source declares there; a block
  begins with clean cells and leaves none behind.
* Expressions and the whole chain from source to memory: the program computes what its source means,
  and undone it leaves zeros.

`PROJECT.json` lists the hazards with their lines and the properties that cover them.

## 2. Plan

1. *(done)* The core: `AnnotationDag`, `CrilRuntime`, their abstract specification
   `CausalExecution`, the history variable in `CrilHistory`, the inductive invariant in
   `CrilInvariant`, and proofs.
2. *(done)* `RunControl`: the goroutines apart from the processes, and the channels; proofs of what
   its channels hold.
3. *(done)* `Compiler`, `Loader` and `BlockWalk`: from a source program to the way of its processes
   through the lines, in both directions.
4. *(done)* `SymbolTable`, `Expressions` and `Scopes`: the walk with values, names resolved by the
   stack of block numbers, several processes that share the table; `SourceMeaning`, the meaning of
   the source, as the reference.
5. *(done)* `SemWait`: the helper goroutine of `WaitSem` and its ownership of the mutex; its
   abstract specification `Monitor`, and the proof that one implements the other.
6. *(done)* `StepControl`: the `runonce` / `rundone` / `rundoner` protocol and the focus.
7. *(done)* Proofs about the DAG: `History`, and with it the counters, the chains of writers and the
   refinement of `CausalExecution` by `CrilRuntime`; about an orderly session and about stepping,
   and their refinements of `CausalExecution`.
8. *(done)* Proofs about values: what is undone is restored and what is replayed is computed again,
   for programs in which readers precede those who overwrite what they have read; the exclusion of a
   lock.
9. *(done)* Proofs about the walk, for every file that is well built.
10. Proofs that remain: the values along the walk, see *Only model-checked* below.

## 3. Modules

| Module | Content |
|---|---|
| `AnnotationDag` | the store and the DAG as a record `m`, and the operators that `dag.go` and `symtab.go` apply to it |
| `CrilRuntime` | processes, instructions, calls, semaphores, the user: the state machine, its properties |
| `CausalExecution` | the abstract specification: events that are executed, undone and executed again in causal order |
| `CrilHistory` | `CrilRuntime` with a history of the values each block found and left |
| `CrilInvariant` | the inductive invariant `Structure`, as a conjunction of named parts |
| `MCCril`, `MCCrilHistory` | small programs for TLC |
| `Monitor` | the abstract specification of V and P: a monitor with one condition for each name |
| `SemWait`, `MCSemWait` | V and P with the helper goroutines, `exmut` as it is handed about, and a stop during a wait |
| `RunControl`, `MCRunControl` | goroutines, the debugger's loop and the channels between them, for one program of fixed shape |
| `StepControl`, `MCStepControl` | the debugger's step mode and the focus, for such programs with any number of calls |
| `Compiler` | CJanus statements to lines of CRIL |
| `Loader` | lines to blocks of three, and the label tables |
| `BlockWalk` | the processes on their way through a loaded file |
| `SymbolTable`, `Expressions` | the operators of `symtab.go` on names and addresses, and of `expr.y` on numbers |
| `Scopes` | `BlockWalk` with the symbol table, the memory and the values |
| `SourceMeaning` | what a source program computes, without compiler and runtime |
| `MCScopes` | source programs for TLC |
| `CrilRuntimeProofs`, `CrilDagProofs`, `CrilReplayProofs`, `CausalExecutionProofs`, `RunControlProofs`, `StepControlProofs`, `SemWaitProofs`, `BlockWalkProofs` | theorems and proofs |

How they fit. `CrilRuntime` says *what* processes do to the DAG, the store and the semaphores, with
the user and the channels reduced to when a process may run. `RunControl` and `StepControl` say *how*
processes are started, stopped, stepped and turned, with the DAG reduced to one chain; all three
implement `CausalExecution`. `SemWait` says how the wait that is one step in `CrilRuntime` is carried
out. `BlockWalk` says along which lines the processes go, whatever the values, and `Scopes` along
which they go with the values; the order that the DAG imposes is left to `CrilRuntime`.

### `CrilRuntime`

| Variable | Code |
|---|---|
| `rev`, `turns` | the global `rev` (`runtime.go:14`); how often it was changed, to bound it |
| `npcs` | `len(r.pcs)`; the pids below it exist, and none is ever removed |
| `proc[p]`, `pc[p]` | where `head` starts, and the counter `pc`; in a straight-line program they determine `head` |
| `status[p]` | where the goroutine is: `run` in the loop of `execute`, `ready` after `isRunnable` said yes and before it has the mutex, `wait` and `woken` inside V or P, `call` in `wg.Wait`, `done` when `execute` has returned, `none` before the process exists |
| `mem.val`, `mem.last` | the values of `varmem` / `heapmem`, and `lastupdatepid`,`lastupdatepc` / `heapuppid`,`heapuppc` |
| `mem.inc`, `mem.ctr` | `incedges`, `outedgectr`; entries that the slices do not have yet are empty or 0, which is how the code reads them |
| `mem.err` | the panic that ended the program |
| `waitq[x]` | the goroutines waiting in the `sync.Cond` of a semaphore |
| `callpids[n]` | `dag.callpids` |

| Action | Code |
|---|---|
| `Check` | `isRunnable` in `execute`, without the mutex |
| `Exec` | `executeBlock` around an instruction that does not wait |
| `SemTake`, `SemWait` | V and P: one turn of their loop that ends, or that waits |
| `CallBegin`, `CallEnd` | `call` up to `wg.Wait`, and after it |
| `Suspend`, `Resume` | stop; `fwd` or `bwd` followed by `run` |
| `Idle`, `Crashed` | the debugger waits for input; a goroutine has panicked |

Abstractions, and why they lose nothing that the properties see:

* *A block is one step.* `executeBlock` holds `exmut` from its first to its last line, so other
  blocks cannot interleave. Only `isRunnable` looks at the DAG without the mutex. Forwards a block
  makes its process count as past it with `pc++`, its last write; backwards counters are
  decremented after the values were restored. So what an unlocked `isRunnable` sees in the middle
  of another block is what it would have seen before or after that block.
* *`dagupdate`.* A process that may not run waits for a token and then asks again. The model lets
  it ask again whenever the answer is yes; that the token comes is `WakeupPending` of `RunControl`.
* *The helper goroutine of a wait* is not there: theorem `Refinement` of `SemWaitProofs` says that a
  wait with it is a wait without it, as long as no stop cuts it short.
* *The user.* The model stops and turns only where main is the only process, between blocks, or
  when it has finished. `TurnsAreQuiescent` proves that this is the same as "main is not in a
  call". A stop while children run belongs to `RunControl`.
* *Programs* are straight-line, a block is one instruction, and labels, `set`, `unset`, `indent`
  and `begin` / `end` are `skip`: they touch neither the store nor the DAG. A variable is an
  address; an expression is a variable plus a constant, since the DAG sees only which variables are
  read.
* *A heap cell starts with last writer (0,0)*, the zero value of Go's maps, and not (-1,-1). That
  node is the first block of main, which the compiler makes an `indent`; hence the assumption
  `Code[Main][1].op = "skip"`.

### `SemWait` and `Monitor`

A process executes V and P of names one after the other, forwards or, with `rev`, backwards. `at[p]`
is `outside` of a block, `inside` with the mutex, or in the `select` of `WaitSem`. A helper is
`new`, `waiting` in the condition's list (`queue`), `woken` and on its way to the mutex, or
`holding` it until the process `Listen`s. `locked` is all that a `sync.Mutex` knows. `CellOf` maps
names to cells, since the condition variables are kept by name and the values by cell.
`SpecWithStop` adds a token of `runclose` or `rundoner`, which ends waits; helpers are then numbered
by the waits that the process has left.

`Monitor` has one `owner` and processes that sleep themselves. The refinement maps the owner to the
process for which somebody holds the mutex, and the list of helpers to the list of their processes.

### `RunControl`

A goroutine (`gor[p]`) stands at one of the places where `execute`, `executeBlock` or `call` can
wait or be overtaken: in the outer select, with a token of `runever` in its hand (`got`), in the run
loop, before the mutex (`lock`, `relock`), in the loop that starts children (`spawn`), in
`wg.Wait` (`call`), between a block and its broadcast (`unclog`, `update`), waiting for
`dagupdate`, with a token in its hand (`pass`, `closing`), or sending its last messages (`block`,
`term`, `eofunclog`, `eof`). The debugger (`dbg`) is in one of its two selects (`stopped`,
`running`) or between the channel operations of `run` (`run1` to `run4`), of a stop (`stop1` to
`stop3`) or of the end it has seen (`again`). Every channel operation is a step of its own, and a
send waits for room, so the interleavings of `Unclog` with sends and receives are all there.

The program has a fixed shape: main calls `N` branches once, and all blocks of branches update one
variable. Its DAG is one chain, which is the case with the most waiting. A block without a call
that sends nothing is one step, by the argument above.

What a user may do is bounded by `MaxCmds`, and `Habits` says what the user does besides an orderly
session, in which commands are typed when the processes have come to rest, a stop comes before or
after a call and not during it, and `run` is not repeated at the end of the program. An orderly
session is not what the code enforces: it is where it works. What each habit leads to is under
*More observations* below.

### `StepControl`

A program of the same kind with several calls: block `CalledAt[q]` of main calls branch `q`. To it
come the step mode of `debug` (`running = 2`) and the case `runonce` of `execute`.

| Variable | Code |
|---|---|
| `gor[Own(p)]` | the goroutine in which `execute` of a process runs: in the select, with a request in its hand (`got`), handing it on (`pass`), waiting for `rundoner` (`wait`) or putting its token back (`back`), before the mutex (`lock`), at the last message of a branch (`block`), before its answer (`done`) |
| `waiting[p]`, `gor[Step(p)]`, `returning` | the goroutines that the debugger starts at `runtime.go:196` for blocks of `p`: those that are before the mutex, the one that is in a block or a call, and those that have their result to send on `stepexret`. The debugger starts one whenever the focused process is not executing, so there may be any number before the mutex and any number after the block, and they are counted |
| `dbg` | the debugger is in the select (`stopped`, `stepping`), in the inner one (`inner`), between two channel operations (`begin`, `start`, `unclog`, `doner`, `ask`, `send`), or about to ask for the focused process (`look`) |
| `runonce`, `rundone`, `rundoner`, `stepexret` | a direction, and tokens; all with the capacity 1 of the code |
| `newproc`, `termproc` | sets, as the code sends to the first again from a goroutine without an order; two messages about the same pid are one |
| `spawned` | the children of the call of main that is under way, or was the last |
| `target`, `focus` | `focus_tgt`, `focus_now` |
| `chain` | the DAG: in a first run it grows, in a replay or a rollback it is any order the blocks of branches may have had |
| `broken` | what a goroutine did of which the model says no more, see below |

A session begins where nobody runs: at the start of the program, for the first time or after a
rollback, or at its end after `bwd`. The user steps until main's end, may set the focus to a branch
of `FocusOn`, without coming back to main, and with `Turning` may turn while no goroutine is there.
A Return is typed when the processes have settled (`Settled`): nobody goes on by himself. A call
may be under way, a request may be left in `runonce`, a token in `rundone` or `rundoner`, and a
result may be on its way to `stepexret`. What the user cannot know, and the model leaves out, is a
step that ended while a process was left waiting for room in `runonce`: see *More observations*.

`broken` ends a session in three cases: `astray`, a process is asked for a block beyond its end, where
it executes the next procedure in the file; `overlap`, a goroutine gets the mutex in the middle of
main's call and executes the lines from there a second time; `twice`, a branch is started while it
still runs. None of them is excluded by a guard.

### `Compiler`, `Loader`, `BlockWalk`, `Scopes`

A source program is a tree of statements and expressions with its globals and procedures. `Compile`
follows the parser's actions and yields the lines of each procedure; each operator of a condition or
of a local variable's value is a line before its use and a line after it. `Export` puts the
procedures in any order, since the code ranges over a map; `Load` pads the lines and registers
labels for the line number that the file has *before* padding, as the code does. Recursion over the
tree makes `Compiler` a module for TLC only. `BlockWalk` can be reasoned about since it does not use
it: which files a program may be loaded from is its constant `Loaded(_)`, and the runs of the walk set
`Loaded <- Files`, which is what `Compiler` and `Loader` yield.

In `BlockWalk`, `BeginBlock`, `ExecuteOnce` (once per line) and `FinishBlock` are `executeBlock`;
one action per kind of line stands for the entries of `instset`. `head`, `pc`, `stackdepth`,
`callpids` and `exmap` are the code's. `via`, `trail` and `was` are not in the code: `trail`
remembers through which label each join was entered, since that is what the value of the join's
condition says backwards, and `was` is history for a property. `WellBuilt` is what the runtime takes
for granted of a file and never checks: every three lines are an entry, an instruction and an exit
(`InThrees`); a label leads from one exit to one entry of the same block of the source (`JumpsMeet`);
neighbouring lines are in the same block but for `indent` and `unindent` (`ScopesFit`); who is called
begins somewhere, and a branch in the block of its call (`CallsArrive`).

`Scopes` adds `tab` (`alloctable`, `alclimit`), `val` (`varmem`, `heapmem`, one map from addresses)
and `ctx`, the package's variable `p` that `EvalExpr` sets and `EvalVarOrConst` reads. A name is a
record of its prefix, its identifier and the procedure whose parameter it is; a key of the table is an
identifier with a path of numbers and separators, which `cut` shortens from the right. `env` and
`args` are not in the code: the variables in scope of each process by the lines that declare and
remove them, and the parameters that it is about to pass. They are the reference for what a name
means, as `SourceMeaning` is for what the program computes.

The programs are those in which no exit follows its entry at once, a `par` is the first block of the
block it is in, and no variable is declared with itself as its value; otherwise see *More
observations* below.

## 4. Properties

*Core.* `NoPanic`: no `panic("BUG")` and no "It should not happen". `CounterMatchesDag`:
`outedgectr` of a node is the number of edges from it to blocks that are executed or begun.
`WritersFormChain`: each writer of a variable but the last is overwritten exactly once, and the
store knows the last. `CheckStillHolds`: the unlocked answer of `isRunnable` does not go stale.
`UndoNeverWaits`: a rollback never waits for a semaphore. `RollbackRestoresStore`: after a complete
rollback the store is the initial one. `LockExclusion`: a variable that the program uses as a lock,
changed by V at the beginning of a section and by P at its end only, is 1 exactly when a process is
in its section, and then only one is. Backwards P takes the lock, and a process holds it until the V
before is undone. `ReadersPrecede`: whoever only reads what a block left is executed before the block
that overwrites it and undone after it; no edge of the DAG says so, and the finding `reader_rollback`
is a program in which it is false. It is what the theorems on values assume, so `work` checks that
its program, with locks and calls, fulfils the assumption. As
action properties, `ReplayRepeatsDag`: a block that is executed again leaves its edges as they were;
`UndoRestores`, `ReplayRecomputes`: the values before and after a block are those of its first
execution, in whatever order the processes undo and redo.

*Semaphores.* `MutexHasOneOwner`: the mutex is locked exactly while one process has it, in its own
hands or its helper's. `WaitSemIsMonitorWait`: the refinement of `Monitor`. `EverybodyFinishes`.

*Run control.* `OneGoroutine`; `DirectionsAgree`: who executes goes the direction that is set, by
which its blocks are annotated; `BroadcastNeverBlocks` and `TokensCounted`: there is room in a
channel for whoever sends, because emptying before adding keeps the tokens below the number of
goroutines; `MutexFreeAtRest`; `WakeupPending`: not everybody waits for `dagupdate` when it is empty.
`EveryRunEnds`, `EveryStopEnds`.

*Step control.* `TwoRequests`: a request may be left in `runonce` when a step ends, and the branches of
the next call take it beside that of their own step; there are never more than those two, in channels,
in hands and with the debugger, wherever the focus is. `BranchesWhole`: with the focus on main,
whenever main is not in a call each branch has gone through all of its blocks or through none, and its
goroutine is gone; so a call joins all of its children, and no request, however old, takes a branch too
far. It holds also between two blocks of main that are executed in one step. `OnlyTheRaceBlocks`: a
step ends unless main is broken (`broken`) or somebody waits for ever for room in `rundoner` or
`runonce` (`Clogged`); the hangs are real, see below.

*Walk.* `WellBuilt`: what compiler and loader yield is what the runtime takes for granted.
`NoPanic`: names and labels exist, blocks are closed innermost first, and the lines undone are the
lines executed; `InScope`: the block numbers on the stack are those of the source block of the next
line; `UndoRetraces`: undoing a block restores the stack and the joins behind it.

*Values.* `NamesMeanTheirDeclarations`: the table leads each name of the next line to the cell of the
variable that is declared there; `LocalsStartClean`: where a block's variable or a temporary begins,
its cell is 0 and no variable in anybody's scope has it; `NothingLeft`: at either end of main no
parameter or global has an address and no local a value; `ComputesSource`: memory ends as
`SourceMeaning` says, and as zeros when undone.

*Refinement.* `FollowsCausalOrder` (`CrilRuntime`), `BlocksFollowCausalOrder` (`RunControl`) and
`StepsFollowCausalOrder` (`StepControl`) are the specification of `CausalExecution`, with the blocks
as events and the edges of the DAG as "uses"; `WaitSemIsMonitorWait` is that of `Monitor`;
`FollowsBlockWalk` says that with values each step is one of `BlockWalk`, whose joins go back the way
they were entered: the source's assertions at joins hold and the conditions are recomputed rightly.

*Liveness and fairness.* `EverybodyFinishes` in `SemWait`, under weak fairness of every process with
its helpers: the Go scheduler runs a goroutine that can go on. `EveryRunEnds` and `EveryStopEnds` in
`RunControl`, and `OnlyTheRaceBlocks` in `StepControl`, under weak fairness of the debugger and
strong fairness of every goroutine: a goroutine that is enabled again and again because others take
the mutex or a token in between gets its turn, which `sync.Mutex` promises to a waiter that starves
and a channel to its queue of receivers. Nothing is assumed of the user. `CrilRuntime` and `Scopes`
are checked for deadlock instead: nobody is stuck, forwards or backwards. Every step there takes a
process further through its program, or back to a wait from which only somebody's V or P wakes it.

Some properties of the core say `FirstRoundTrip` (at most one change of direction): after it the
counters of the DAG are too low, which is the finding of run `second_rollback`.

## 5. Runs

| Run | What is run | States | What it shows |
|---|---|---|---|
| `work` | four processes and main: a lock that three of them take (after `progs/sieve.cj`), and updates and swaps without it in a branch that calls two others | 38,645 | the DAG is exact; execution, rollback and replay follow it; values are restored and recomputed; the lock excludes; rollbacks do not wait; nobody is stuck |
| `semaphores` | three processes, two locks, in both directions | 1,248 | the helper goroutines implement a monitor; everybody finishes |
| `session` | run control, orderly user, four commands | 104,000 | every property of run control, and that runs and stops end |
| `rough_session` | run control, every habit, capacity scaled to the program | 177,749 | the tokens are bounded whatever the user does |
| `steps` | step control: a call of one branch and a call of two, one of which has two blocks; three commands, the focus on main or moved to branch 2 | 494,748 | every property of step control |
| `walk` | seven source programs: nested choices, a loop, branches that call, choose and use a semaphore, a recursive procedure, an array | 230,846 | every property of the walk and of the values |
| `second_rollback` | a reader and a writer of one variable, three turns | | *violated:* `NoPanic` |
| `reader_rollback` | a reader and a writer of one variable | | *violated:* `RollbackRestoresStore` |
| `stale_condition` | a branch that decides by its own variable, beside another | | *violated:* `NoPanic` |
| `lost_wakeup` | two V and two P, one per process | | *violated:* `EverybodyFinishes` |
| `stop_in_wait` | two processes with a lock, a stop | | *violated:* `NoFatalError` |
| `focused_step` | step control, the focus on a branch | | *violated:* `EveryStepIsCausal` |

Every property of a passing run has a mutant: a plausible mistake in one operator of the model
(defined just before the operator, and named in `PROJECT.json`) under which TLC finds the property
violated.

*Bounds.* In the core, `MaxPid` and `MaxPc` are exactly the processes and blocks of the program, so
they never cut a behaviour short: the guard of `CallBegin` never disables a call, since a call that
is repeated reuses its pids. `MaxTurns = 2` is run, rollback, replay, each interruptible where main
is alone; 3 adds the second rollback. Values are unbounded integers. Two processes suffice for a
conflict between unlocked accesses; three for a wakeup that a third process overtakes; a call inside
a branch for children that outlive others.

In `semaphores` three processes contend for one lock, so that a waiter is overtaken by a third one,
and one of them comes twice; `MaxLeft = 0` says that no wait is cut short, and `MaxLeft = 1` in
`stop_in_wait` suffices for a second helper.

In run control two branches contend for mutex and tokens while main waits; four commands are a run
that is stopped, turned and run to its end. `session` has the code's capacity of 8. In
`rough_session` the capacity is 4, which is `N + 2`, the least that theorem `RoomForAll` admits.

In step control the first call has one branch, the second two, one of them with a block that is not
its last: so one branch may have to wait for the other and hand the request on, and a request that
the first call leaves in `runonce` meets the branches of the second. Three commands are three steps,
which go through both calls, or a change of focus before, between or after two of them. `Turning` is
FALSE: see *A turn while a request is left*.

In the walk, `MaxBlocks = 40` executes every program to its end: the longest is that with the loop,
whose main has 36 blocks to execute, and the nested choices have 23. `MaxTurns = 2` executes, undoes
and executes again. Conditions without, with one and with two operators put the lines after them in
every position of a block. `TurnAtJump = FALSE` keeps the user from turning after a jump that led
elsewhere than to the next line. The exports of concurrent programs are those with main first, to
bound the states; of the others, all.

### Findings

* `second_rollback`: `addEdge` (`dag.go:69-73`) returns before it counts an edge that is recorded
  already, and every undo counts it back (`dag.go:125`). Run, `bwd`, `run`, `fwd`, `run`, `bwd`,
  `run` ends in `panic("BUG")`.
* `reader_rollback`: no edge leads from a read to the next write. If `y += x` of one branch is
  followed by `x += 1` of another, no edge orders the two, and a rollback may undo either first.
  Undone while `x` still has the later value, `y += x` takes back another value than it added.
  `runtime.go:104` says that any order the DAG allows is good.
* `stale_condition`: `EvalVarOrConst` (`runtime.go:314-321`) has a parameter `pc` and does not use
  it: it reads the name for `p`, the package's variable, which `EvalExpr` sets when an assignment is
  evaluated. A branch or join whose condition is a plain variable is decided in the scope of the
  process that made the last assignment. There the name may be unknown (`symtab.go:289`), or another
  variable. A condition with an operator is safe, since its temporary is assigned in the block before
  and read as the next line of the same process (`NamesMeanTheirDeclarations` in `walk`), except that
  the read it leaves behind may be annotated as the other process's.
* `lost_wakeup`: `NotifySem` wakes one waiter, and those of V and of P share the condition variable.
  The comment at `symtab.go:90` says that only a program with more V than P can wait for ever.
* `stop_in_wait`: `WaitSem` returns false when the run is stopped or a step ends, of which the
  comment at `symtab.go:91` says "terminated"; V and P (`runtime.go:718`) ignore it and wait again.
  The second helper unlocks a mutex that the first has unlocked, a fatal error, or one that somebody
  else has locked.
* `focused_step`: with the focus on branch 1, the debugger may come to the inner select before it has
  received the birth of branch 2 (Go's select picks any case that is ready, and the message waits as
  long as it likes). There it takes that birth for a call (`runtime.go:208`). A second request goes out
  while the debugger's goroutine for branch 1 is before the mutex; the goroutine of branch 1 takes it
  too and has its answer of `isRunnable` before the other moves `pc`. The second of them executes the
  next block, whose predecessor in the DAG is not executed.

### More observations

Each can be seen by changing the constants named.

* *A stop in a call* (`session` with `Habits = {"stopInCall"}`, `EveryStopEnds` fails). A stop that
  reaches the children of a call makes `call` return 3. `executeOnce` turns 3 into 0 and leaves
  `head` where it is (`pc.go:204` and `218`), so the loop at `pc.go:128` executes the call again at
  once and the test for 3 at `pc.go:130` is never true. The stop never ends, against
  `runtime.go:125`.
* *A run at the end* (`session` with `Habits = {"rerun"}`, `MutexFreeAtRest` fails). `run` at the end
  of the program executes a block past the end of the file, and `executeBlock` returns at `pc.go:125`
  with the mutex locked. The next run waits for ever. (If another procedure follows main in the file,
  main goes on into that one instead.)
* *Quick restart* (`Habits = {"impatient"}`, `DirectionsAgree` and `OneGoroutine` fail). A
  `run` typed before main has seen the stop empties `runclose` (`runtime.go:254`), so main never
  stops, and `addrunPC` starts a second goroutine of process 0 (`runtime.go:258`).
* *Many branches* (`N = 9`). All may find `dagupdate` emptied before any of them sends to it; the
  ninth send waits in a channel of capacity 8 (`runtime.go:114`). This is where the assumption
  `N + 2 <= Cap` of theorem `RoomForAll` comes from.
* *A turn at a jump* (`walk` with `TurnAtJump = TRUE` and `Programs <- OneChoice`, `NoPanic` fails).
  `head` means the next line forwards and the line after the previous one backwards. The two agree
  where the last jump led to the next line, and nothing adjusts `head` when the direction changes.
  After the jump to an `else`, at the end of a `then` or in a loop, a process that is stopped and
  turned undoes the block that is *written* before the one it jumped to (`pc.go:186`).
* *A block without an instruction.* Where an exit follows its entry at once, its labels are
  registered one line before the line where the padding puts it (`debugger.go:89` and `109`), and
  undoing runs two blocks in one. `from`-loops whose `until` is a plain variable are compiled to
  such a block.
* *A par after another block.* The call that `par` emits lists the blocks 0 to n of the enclosing
  block (`parser.y:444`). With a nested block or a loop before it, block 0 is no branch and the
  call panics; with another `par` before it, its branches are called again.
* *Two names for one semaphore* (`SemWait` with `CellOf` constant). Conditions are kept by the name
  as it is written. A process that waits for a semaphore under the name of a sync parameter is not
  woken by one that uses the global's name; two processes with `V; P` suffice.
* *A step that hangs* (`steps`, `OnlyTheRaceBlocks` without `Clogged`). A process takes the token
  of `rundoner` (`pc.go:63`); the debugger, which has had `rundone` from another one, empties the
  channel and sends (`runtime.go:188-189`); now the process cannot put its token back (`pc.go:64`),
  or, the other way round, the debugger cannot send. It happens in replays and rollbacks, where
  processes hand the request on.
* *A request that is left* (`steps`). When the last branch of a call has answered, the debugger sends
  one more request (`runtime.go:217`) if it comes round before main has returned, and nobody takes it.
  Nothing empties `runonce` when a step begins. The branches of a later call take it, and with that of
  their own step two are under way. A branch may then want to hand one on (`pc.go:62`) when the
  debugger has just filled `runonce` and no other branch is left to take it: the step hangs, against
  `runtime.go:114`. If a result that is still on its way to `stepexret` ends that step nevertheless, the
  user may step on with a process waiting at `pc.go:62`, and a third request gets under way. This
  takes three calls (four branches, six blocks of main, and `Settled` without what it says of
  `runonce`); it is what `Settled` excludes.
* *Two blocks in one step* (`steps`). When the debugger finds the focused process not executing it
  starts a goroutine for it, also when an earlier one has executed its block and not yet sent its
  result (`runtime.go:190-201`). One Return then executes two blocks of main, against the comment at
  `runtime.go:245`; the result of the first may end the step while the second is at work. At the end
  of the program the second executes a block beyond it (`astray`), and if main is in a call when it
  gets the mutex it executes the call's lines from the middle on (`overlap`).
* *A turn while a request is left* (`Turning = TRUE`, `BranchesWhole` still holds). A request that was
  left in `runonce` has the old direction, and after `bwd` it takes a branch of the call that is undone
  beyond its end (`astray`): `fwd` and `bwd` do not empty `runonce` (`runtime.go:260-265`).
* *The end of a focused branch.* The debugger executes its last block, so the branch's own goroutine
  does not learn that it has ended, against `pc.go:179`: the call never joins it, or it takes another
  request and executes the next procedure in the file (`ExecAstray`).
* *The first run with a focus.* `runtime.go:107` says that the other processes go as far as they can
  before the focused one; the code executes the focused one as soon as it may run.
* *`local int x = x`* finds the cell of the inner `x` where the block was executed before
  (`symtab.go:276`). Procedures see the variables of their caller, not of the place they are written
  in.
* *The compiler.* In the tables of the lexer `^||` and `^|` match nothing, so that `||` and `|` are
  never tokens; the action of OR undoes with `exec` what it should with `unexec` (`parser.y:519`).
  The lines that compute the index of an array that is assigned to are never emitted
  (`parser.go:1358`).

## 6. Proofs

What TLC checks for a small instance TLAPS proves for every value of the constants: every program,
every number of processes, blocks and branches, and sessions of any length, within the hypotheses
that a theorem names.

### The runtime (`CrilRuntimeProofs`)

* `TypeCorrect`: `Spec => []TypeOK` of `CrilRuntime`.
* `StructureHolds`: `Spec => []Structure`. `TypeOK` is not inductive: that `CurrentNode(p)` is a
  node needs positions to fit the procedure (`PositionsFit`); that a call finds its children at rest
  needs `CallsJoin`, which needs each child to have one parent (`CallsRecorded`); that a waiter that
  is signalled is really waiting needs `QueuesHoldWaiters`; that a replayed call reuses recorded
  children needs `ExecutedCallsRecorded`. `Ind == TypeOK /\ Structure` is inductive.
* `TurnsAreQuiescent`: while main is not in a call no other process is at work. Of the youngest pids
  at work the parent, which is younger, would be at work too (`LeastNatural`).
* `CheckHolds`: `Spec => []CheckStillHolds`. A block of another process changes no edges of p's
  node (`BlockEffect`); forwards sources only advance, and no edge comes from a process that does
  not exist yet (`EdgesFromProcesses`); backwards no counter rises, and with no panic none leaves
  zero.

### What the DAG says (`CrilDagProofs`)

`HistoryHolds` is `Spec => []History`: with `Ind` and `CheckStillHolds` the invariant `History` is
inductive. For three phases it says that what a node has used is executed (`SourcesExecuted`) and
that nodes are used and named as last writers for what they write (`SourcesWrite`, `LastWriters`);
for the first two, in which the DAG is exact, also (`FirstTrip`) that edges are recorded once, that a
counter is the number of edges to nodes of the DAG, that a write is recorded when the block is
executed (`WritesRecorded`) and that the writers of each variable are one chain from the initial
value to the last writer (`Chained`; `BeginsAtStart` excludes a circle of writers beside it, without
which undoing the end could not be shown to leave a chain). In the third phase the counters are too
low (finding `second_rollback`), so nothing is said of them, and after it the invariant says nothing.

As far as the DAG is concerned every action is of one of five kinds (`StepKinds`): it executes a block
or begins one that waits (`Forward`), undoes a block (`Backward`), begins to undo one that waits
(`BeginsUndo`), turns around, or leaves the DAG alone (`Quiet`). `Records` describes what all instructions have in common forwards, one
after the other reads and writes; undoing restores the last writer of each variable written and takes
back the counts. Each kind keeps `History`, and each is a step of `CausalExecution`.

* `NoPanicInTwoTurns`: `Spec => [](turns <= 2 => NoPanic)`. The bound is the finding.
* `CountersMatch`, `OneChainOfWriters`: `Spec => []CounterMatchesDag` and `Spec => []WritersFormChain`.
* `ImplementsCausalOrder`: `Spec /\ [](turns <= 2) => FollowsCausalOrder`. A block is begun when
  `isRunnable` has answered (and `CheckHolds` says the answer is still true), so what it has used is
  executed; what it uses now for the first time is a last writer, which is executed; it is undone when
  its counter is 0, so by `Counted` no block of the DAG uses it.
* `SemaphoresAlternate`, `RollbackNeverWaits`: `SemaphoresApart => (Spec => []UndoNeverWaits)`.
  `SemaphoresApart`: a variable that some block changes by `V` or `P` is changed by nothing else. `V` and
  `P` insist on a `sync` variable (`runtime.go:709`), and nothing but assignments would break the
  hypothesis, which no type rule of the compiler forbids; the program of `work` fulfils it. Then
  along the chain of its writers a semaphore is 1 after `V` and 0 after `P` in turn; the DAG lets only
  the end of the chain be undone, and that finds the value it left.
* `LocksExclude`: `Spec => []LockExclusion`, for any number of turns and without hypotheses: which
  variables are locks is part of the property. `LockExclusion` is inductive beside `Ind`; the DAG does
  not enter. A process at a V or P of a lock holds it exactly if the operation expects the value 1, in
  both directions, and when the block has ended exactly if it leaves the value 1 (`LockBlock`). What
  has to be looked at is where a process *is* (`Position`): a block is begun before it waits, and
  backwards `pc` has gone down then although nothing is undone.

### What replays compute (`CrilReplayProofs`)

`CrilHistory` remembers of each block, in the history variable `hist`, which values it found and left
in its first execution; it restricts nothing (`HistSpecIsSpec`). The nodes that have such an entry are
the record `Rec`.

* `NewWorkAfterReplay`, without hypotheses: a block is executed for the first time only when the whole
  record is executed again. `isRunnable` does not ask for that. It holds since a process with new work
  is new, or is main, or is the child of a call that has new work (`AllAtRecorded`): by the time main
  is past its record every call in the record has been joined. The invariant is `Recorded`.
* `ToldHolds`: the invariant `Told`. For each variable that a recorded block reads, its edges name the
  block whose value it found (`Source`); no two recorded blocks have overwritten the same value
  (`RecordChained`); blocks leave what their instruction makes of what they found; and the store holds
  what the last writers of the DAG have left (`StoreIsLeft`).
* `UndoPutsBack` (`UndoRestores`): the DAG lets a block be undone only at the end of the chain of each
  variable it has written, so these hold what it left; what it only reads must have the value it had
  read, and that is where `ReadersPrecede` enters.
* `ReplayComputesAgain` (`ReplayRecomputes`) and `ReplayAnnotatesTheSame` (`ReplayRepeatsDag`): when
  `isRunnable` lets a block be replayed the sources of its edges are executed; none of them is
  overwritten yet, since only the block itself has overwritten them, or, where the block only reads,
  since `ReadersPrecede` keeps those who did out of the DAG. So it finds what it found, and meets the
  edges it has.
* `RollbackIsComplete` (`[]RollbackRestoresStore`): when main is at its beginning nobody else is past
  his, so no variable has a writer in the DAG.

The last four say `Reversible` and `HistSpec /\ []ReadersPrecede /\ [](turns <= 2) => ...`. Each
hypothesis is there because the code fails without it. `ReadersPrecede` is false in `reader_rollback`
and then so are the conclusions; it speaks of the order of blocks only and not of values, and a program
ensures it by what it does: by locks around reads and writes, by a call between them, or since those
who read a variable also write it. `turns <= 2` is run, rollback and replay; then comes
the finding `second_rollback`. `Reversible` excludes `x += x`, whose undoing computes `x - x`: the
grammar of the compiler does not look at the right side (`parser.y:195-225`). Waits
(`OnlyNewWait`) need no hypothesis on semaphores: a V or P that is replayed finds the value it found.

### The walk (`BlockWalkProofs`)

`WalkTypes`, `NeverPanics`, `StaysInScope` and `UndoingRetraces`: if `TurnAtJump = FALSE`, then
`Spec /\ WellBuilt => []TypeOK`, and likewise for `NoPanic`, `InScope` and `UndoRetraces`. They hold for
every well-built file, any number of processes, whatever the conditions say and in whatever order the
processes go, and however often the user turns. Both hypotheses are needed: a turn at a jump and an
exit that follows its entry at once, which leaves a file that is not well built, lead to a panic (see
*More observations*). `WellBuilt` speaks of the file alone, which never changes; run `walk` checks that
it holds of what `Compiler` and `Loader` make of its programs, and that those runs are walks
(`FollowsBlockWalk`).

The properties speak of the next line, of the stack and of one block. What makes them inductive is
the whole way of a process (`OnItsWay`):

* Every block executed and not undone (`Past`) is three lines from a start; it was entered by a label
  that its predecessor's exit leads to, or at the beginning of a procedure (`EnteredBy`); the stack it
  found fits its first line (`Fits`); and the next block has found the stack that its three lines make
  of that (`Stack`), and the trail with the label it was entered by, if it starts with a join.
* Between blocks, forwards, `head` is at a start that the last exit leads to (`Before`), and backwards
  behind the exit of the last block (`Behind`). The first is what `FinishBlock` leaves forwards and
  the second what it leaves backwards; `TurnsRound` shows that they agree where the last jump led to
  the next line. Elsewhere they do not, and that is the hypothesis on `TurnAtJump`.
* In a block (`Within`) there are d of its lines done, counted from the start in both directions; the
  stack is `Stack(found, s, d)`, forwards because d lines were executed and backwards because 3 - d
  were undone. `AheadAndBack` is the reason: what a line does to a stack that fits, its undoing takes
  back. The lines executed are `s .. s + d - 1`, those undone `s + 2 .. s + d`, so the comparison that
  flag `-e` makes succeeds (`FinishBackwards`).
* Whether a join's condition sends the process back the right way is the question that `trail` answers:
  its last label is the one by which the block was entered (`ReturnBackwards`).

Calls need the processes together (`Family`). The children of a call have numbers above the caller's,
belong to it alone (`Apart`), and, unless the call is under way, stand at their end if it was executed
and at their beginning if it was not (`Linked`): so a call that is undone finds them where their last
block can be undone, and one that is executed again where their first one can be executed. A process
other than main is only active below a call (`Called`); hence nobody else is active when main may turn
(`TurnsFindRest`: the active process with the least number would have an active caller).

### Run control (`RunControlProofs`)

Whatever the user does:

* `TypeCorrect`: `Spec => []TypeOK`. The strengthening is that a branch's counter stays within its
  blocks and that only main is in a call.
* `TokensBounded`: `Spec => []TokensCounted`. The inductive invariant is `TokensCounted` with the
  types of the channels. A token in a channel, in a hand or about to be created is counted once; an
  action moves a goroutine into or out of the set of hands, and `HoldersMove` says what that does to
  its cardinality. A sum grows only when somebody has just found the channel empty, and then the hands
  are all that is left.
* `RoomForAll`: `N + 2 <= Cap => (Spec => []BroadcastNeverBlocks)`. A goroutine that is about to
  send is itself among the hands, so the channel holds fewer than `Cap`.

In an orderly session, `Habits = {}`: `NeverTwoGoroutines` (`[]OneGoroutine`), `OneDirection`
(`[]DirectionsAgree`), `MutexReturned` (`[]MutexFreeAtRest`), `WakeupComes` (`[]WakeupPending`) and
`RunsAreCausal` (`Spec => BlocksFollowCausalOrder`). For users with other habits the
first three fail (see *More observations*). All rest on the invariant `Orderly`. Its
core is `NoStopInCall`: as long as a call is under way or ahead in the direction of the run, the
debugger is not stopping, nobody has a token of `runclose` in hand, and there is none in the channel
unless all goroutines are gone and `run` will empty it first. Hence no branch is ever suspended, the
branches run to their ends (`Places`), their counters follow from main's (`CountersOfBranches`), main
comes to its end exactly where its counter says (`CounterOfMain`), and nobody executes past an end.
`TokenLives` says that from the first block of main on a token of `dagupdate` exists or is about to;
only branches wait, and main has executed a block before it calls. `ChainKept` says that the DAG
holds all blocks that were executed, and that the answer of `isRunnable` stays true on the way to the
mutex since all goroutines go in one direction (`Directions`); before the first run has been stopped
the DAG grows, and the first stop comes after the call, when it is complete.

### Step control (`StepControlProofs`)

For any number of branches, calls and blocks, and sessions of any length:

* `TwoRequestsHold`: `Spec => []TwoRequests`, wherever the focus is and whether or not the user turns.
  The invariant (`Typed`, `Counted`) adds to the property that at the beginning of a step at most one
  request is in `runonce` and in hands together. It rests on `Settled`: when a step ends two may be
  under way, but the user types when no process has one, and that in `rundone` is emptied. From
  there every step of the protocol passes a request on or drops one: who takes it from `runonce`
  answers on `rundone` or puts it back, and the debugger makes one of each answer (`CountOfBranch`,
  `CountOfDebugger`). Hands are counted by cardinality (`HandsMove`), as the tokens of run control are.
* `BranchesStayWhole` (`Spec => []BranchesWhole`) and `StepsAreCausal`
  (`Spec => StepsFollowCausalOrder`), if `Turning = FALSE`. Both speak of the time in which the focus
  has been on main: with it on a branch the second fails (finding `focused_step`), and the debugger
  executes a branch's last block itself. With turns a request of the old direction is left, see *More
  observations*.

The invariant of the second part, `OnMain`, does not count requests. It says that only main is executed
by the debugger's goroutines, and in one direction with everybody else (`Places`); that a branch has a
goroutine only if main is in its call and has started it, and that it is at its end, or about to tell
so, just when it has no block left (`Branches`); that the other branches' counters follow from main's
(`CountersOfBranches`); and that the chain holds the blocks that were executed, and whom `isRunnable` has
let go on may still go on (`Chain`). The last is what two requests under way would seem to endanger:
another branch may execute its block between the answer and the mutex. But all go in one direction, so
blocks that were executed stay so, or those that were undone (`OthersStayRunnable`); and a branch has
one goroutine only, so its own next block stays the next. A second block of main in one step is harmless
for the same reason: the first is over, or in a call, and then the session ends as `overlap`.

### Semaphores and the abstract specification

* `AlwaysOneOwner`, `NeverUnlocksInVain` (`SemWaitProofs`): `Spec => []MutexHasOneOwner` and
  `Spec => []NoFatalError` of `SemWait`. The invariant adds to `MutexHasOneOwner` that a process has
  at most the helper of its current wait, that one that is not in a wait has none, that the list of a
  condition holds helpers that are `waiting` for its name, each once, and that nobody changes the
  semaphore between the look at its value and the wait.
* `Refinement`: `Spec => WaitSemIsMonitorWait`. `Lock`, `Pass` and the helper's `Wait` are the
  monitor's `Enter`, `Pass` and `Sleep`; that a woken helper takes the mutex is `Enter`, since the
  process no longer sleeps; the start of a helper and `Listen` stutter.
* `AlwaysClosed` (`CausalExecutionProofs`): in the abstract specification what an executed event has
  used is executed; and with the three refinements above so it is in the runtime, run control and step
  control.

### Assumptions and limits

`CrilRuntime`: the bounds are naturals, heap variables are variables, and `CodeAssumption`: every
procedure has between one and `MaxPc` well-formed blocks and main begins with `indent`.
`RunControl` and `StepControl`: `RunAssumption` and `StepAssumption`, the shape of the program.
`SemWait`: `SemWaitAssumption`, the types of its constants. TLC evaluates all of them.

The proofs have one lemma per action or group of actions; in `CrilRuntimeProofs`, `LocalStepProcesses`
and `LocalStepCalls` treat all actions in which one process moves within its procedure, and
`Startable` describes the children a call may start; in `RunControlProofs`, `BranchMoves`, `MainMoves`
and `DebuggerMoves` treat the steps that move no counter. The lemmas on the operators of
`AnnotationDag` are at the start of `CrilRuntimeProofs` (types) and of `CrilDagProofs` (edges, counters,
chains). The invariants were checked by TLC before they were proved.

Only model-checked:

* `ReadersPrecede`, which depends on the program: that of `work` has it, that of `reader_rollback` has
  not.
* Liveness (`EverybodyFinishes`, `EveryRunEnds`, `EveryStopEnds`, `OnlyTheRaceBlocks`) and the absence
  of deadlock: fairness and `ENABLED` are out of the prover's reach.
* That the compiler yields well-built files (`WellBuilt`), and the values along the walk
  (`TypeWithValues`, `NamesMeanTheirDeclarations`, `LocalsStartClean`, `NothingLeft`,
  `ComputesSource`, `FollowsBlockWalk` of `Scopes`). `Compiler` is recursive, as the grammar is,
  `Loader` folds over the lines of a file, and `Expressions` takes the bitwise operators from
  `Bitwise`. The prover takes neither `RECURSIVE` operators nor `Bitwise`, and what recursion over a
  source program or a file computes needs induction over data.

## 7. Not modelled

* Of step control: `run` or a stop between steps, a change of direction during a call, and the
  return of the focus to main. After a stop in a call main's goroutine is still in its run mode, and
  a request of the old direction may be left in `runonce`; what follows is no orderly session in the
  sense above. A command that is typed before the processes have settled, or after a step that left
  a process waiting at `pc.go:62`.
* Of the compiler: its lexer, the first pass, types and their errors. Of the runtime: types, the text
  of lines and the regular expressions that read it, and `evalexpr`'s own operators
  (`runtime.go:324-384`), which compiled programs never reach: their conditions are operands.
* Drawing, printing, standard input and signals are I/O.
* Data races on `pcs` and the DAG's slices between the unlocked `isRunnable` and a block are taken to
  be atomic word accesses, which is what the build's slices of ints amount to; a race on the growth
  of a slice is not modelled. `executing` is taken to be set with the mutex, as it is.
* Values stay far from the limits of an `int`; overflow would be the same forwards and backwards.
