# A TLA+ verification of rushfind

`rushfind` (`rfd`) is a `find` that can walk a tree with several threads. This
directory holds TLA+ models of its engines, of the road from a command line to
the actions of one entry, of the sinks that carry the actions out, of the pure
matchers and of an entry's cached metadata; TLC configurations that check them on
small instances; and proofs, checked by TLAPS, about the scheduler, the three
engines, the action sinks and the entry context. Paths below are relative to
`src/src/`.

## The system

| part | state it keeps | operations | what makes it correct |
|---|---|---|---|
| scheduler (`parallel/control.rs`, `parallel/scheduler.rs`, loop of `parallel/worker.rs`) | three flags, the task counter, an injector, a FIFO deque per worker, a condition variable | push, pop, steal, wait with a 10 ms timeout, count off, stop | no task lost or run twice; workers leave exactly when nothing is left; all return |
| parallel pre-order (`parallel/worker.rs` 315-485, `parallel/chunking.rs`) | per task a stack of pending entries and a chunk accumulator | load, evaluate, list, split, publish | each entry once, parents first; quit and errors end or do not end the walk as documented |
| parallel post-order (`parallel/worker.rs` 488-833, `parallel/postorder.rs`) | nested calls, the barrier table | begin a barrier, run a batch, publish chunks, notify, resume | each entry once, after everything below it |
| ordered engine (`walker.rs`, `ordered/engine.rs`, queue of `runtime_pipeline.rs`) | a stack of frames; two channels, evaluator threads, a reorder queue | walk, number, evaluate, commit | entries and actions in the order of the recursive walk |
| command (`parser.rs`, `planner.rs`, `optimizer.rs`, `traversal_control.rs`, `runtime_policy.rs`) | cursor; planning state | parse, lower, sort tests, project for the `-prune` pre-pass, choose engine and order | the text is refused or means what it says, whatever is sorted or suspended |
| evaluation (`runtime_pipeline.rs`, `eval.rs`) | continuations | evaluate, suspend at an action, resume with its outcome | all ways to evaluate agree |
| output and actions (`output.rs`, `file_output.rs`, `exec/`, `parallel/batch.rs`, `parallel/engine.rs`) | broker thread and channel, file locks, pending batches, the prompt's lock, one result per worker | print, record, run, enqueue, flush, confirm, delete, collect | records whole, every path executed once, failures told |
| entries (`entry.rs`) | cached facts of one path | read each fact when first asked | one answer per fact; own reads unseen; the directory that is entered is the one that was checked, as long as the path is not exchanged in between |
| matchers and formats (`pattern/`, `numeric.rs`, `size.rs`, `time.rs`, `literal_time.rs`, `perm.rs`, `file_flags.rs`, `printf.rs`, `regex_match/`) | none | compile an operand, match a value, render a field | the operand means what it says, edges included |
| platform back ends, accounts, mounts, entry point (`platform/`, `account.rs`, `runner.rs`, `lib.rs`) | (mostly none) | system calls | |

`runner.rs` picks an engine. The parallel engine (`parallel/engine.rs`) injects
one task per start path, starts the workers in one scope, receives one result
from each, joins them, closes the broker's channel and joins it. Workers share
the flags and the counter (atomics), the queues (crossbeam), the barrier table
(a mutex) and the channels to the broker and to the main thread. The ordered
engine runs in the main thread; without an action whose effect matters to later
entries it hands the evaluation to other threads and commits in order.

The hard behaviours, listed line by line in `PROJECT.json` under `hazards`:

- termination detection by a counter while tasks move between queues, and a
  wait that can miss every notification;
- `-quit` and fatal stops, each of them two stores to two flags of which
  different places of the code read different ones;
- barriers whose counts must match the work on every path (leaf, error, empty
  or unreadable directory, nested directory, resumed directory);
- failures of one entry, one directory or one worker in the middle of the rest;
- results that come back out of order;
- a broker that stops while workers still send to it, a worker that panics, and
  paths that wait in a batch while their worker fails, quits or leaves;
- tests sorted between actions, `-prune` decided by a pass of its own, and an
  evaluation that stops at each action and goes on elsewhere;
- a file that changes between two reads of its metadata;
- digits, days, sizes and field widths at the edges of their ranges.

## Modules

```
Scheduler ------------- MCScheduler          WalkTree      Traversal (abstract)
   |  \                                        | | |            ^   ^   ^
   |   SchedulerProofs                         | | |            |   |   |
   +-- PreOrderEngine  ------------------------+ | | -----------+   |   |
   |      MCPreOrder, PreOrderProofs             | |                |   |
   +-- PostOrderEngine --------------------------+ | ---------------+   |
          MCPostOrder, PostOrderProofs,            |                    |
          PostOrderWalkProofs                      |                    |
       OrderedEngine ------------------------------+ -------------------+
          MCOrdered, OrderedEngineProofs

CommandLine <- CommandPlan <- CommandText <- EntryEvaluation <- MCCommand
ExecBatch <- ActionRun <- MCActionRun, ActionRunProofs
NumericTests <- LiteralTime <- Matchers <- MCMatchers
                                  +-- INSTANCE Glob, ModeTests, PrintfProgram,
                                      RegexMeaning -> GnuRegex
EntryContext <- MCEntryContext, EntryContextProofs

WalkTreeProofs <- OrderedEngineProofs, and, with INSTANCE SchedulerProofs,
                  PreOrderProofs and PostOrderProofs <- PostOrderWalkProofs
```

The modules whose names end in `Proofs` hold theorems, `WalkTreeProofs` the lemmas the
engines share: induction over numbers and over the tree, what the recursive functions
`Reached` and `Ancestors` are, and what is in a sequence or a chunk. The proofs about
depth mode are in two modules: `PostOrderProofs` has the types, the scheduler, the
counts and the places a node can be at; `PostOrderWalkProofs` builds on it with what
becomes of the nodes, and the verdict.

The engines leave open what an evaluation does; `EntryEvaluation` says it for one
entry, `ActionRun` what an action does to the world, and `EntryContext` and
`Matchers` what a test reads and answers.

**Scheduler.** The variables `accept`, `quit`, `fatal`, `outstanding` are the
atomics of `GlobalControl`; `injector` and `deque` the queues; `pc`, `task`,
`pub`, `victim` the locals of each worker; `woken` stands for the condition
variable. One action is one access to shared state: `BeginPush`, `CountTask`
and `PushTask` are the three lines of `push_local`; `StoreQuit` and
`StopAfterQuit` the two of `request_quit`; `Admit` is the test at the head of
the loop; `LeaveLoop`/`GoToSleep` the exit test; `StealInjector` takes any batch
length, since crossbeam does not promise one. A steal may fail without cause
(`Steal::Retry` is treated like `Empty` in the code). `StartWait` gives the
window between the exit test and the wait. Roots are pushed before the workers
start, so `SchedInit` has them in the injector. What a task does is left open
(`TaskBody`); the engines fill it in through `INSTANCE`.

**WalkTree.** The tree as the walkers see it: nodes are occurrences of a path,
directories have an identity and a device. `DescendDecision` is
`should_descend_directory` with its early returns in their order. What can fail
is a set each: start paths without metadata (`Missing`), a failing `-prune`
pre-pass (`ControlError`), unreadable identities (`Opaque`), a directory item
that is an error (`BadItem`), and directories that `read_dir` may fail to open
(`Unreadable`, a choice at each opening; they are empty otherwise, so what a
walk owes does not depend on the choice). `PreOrderEntries` and `PostOrderEntries` say declaratively
which entries a complete walk evaluates.

**PreOrderEngine.** `Scheduler` with the task body of
`run_preorder_pending_batch`. `job[w].step` is where the body of worker `w`
stands; the accumulator's two thresholds (32 in the code) are constants. Reads
of the flags are made where the code makes them: at the head of the loop, at each
child, before publishing, and after the listing. `EvalOk`, `EvalQuits` and
`EvalFails` are the outcomes of `process_entry_preorder_fast_path`.

**PostOrderEngine.** The same for depth mode. The recursion of
`run_postorder_pending_batch` and `run_postorder_pending_root` is a stack of
frames. `barriers` and `nextBarrier` are the `BarrierTable`; its methods hold a
mutex and are single steps. The id is drawn just before the record is stored;
nobody else knows the id in between, so both are one step. The fields of `PendingPath`
that carry the same barrier twice (`ancestor_barriers`) are left out: nothing reads them.
`UnitsOf(b)` counts the places of whatever will report to barrier `b`: records, queued
tasks, nodes and chunks of nested calls, and workers.

**OrderedEngine.** The main thread's stack walk, and either inline evaluation
or the pipeline: `work` and `ready` are the channels, `evaluator` the threads,
`buffered` and `nextReady` the `OrderedReadyQueue`. A dropped channel end is a
flag (`workOpen`, `readyOpen`), since that is what the other side sees. `Entries` are
what it must evaluate, and `Precedes` is the order of the sequential walk, said without
a walk: where the ways to two nodes part, the one that is listed earlier comes first;
otherwise one is above the other. An `ASSUME` of `MCOrdered` has TLC compare both with
the recursive definition of the walk (`OrderOf`).

**Traversal.** The promise of any walk: `Evaluate` an entry at most once and
after the entries it comes after; `End` complete, stopped by an evaluated
`-quit`, or failed by an evaluation or a directory that may fail to open. `TravSafety`
is this without fairness; `TravSpec` adds weak fairness: a walk ends. Each
engine's `ImplementsTraversal` (`ImplementsOrderedTraversal`) is the refinement,
with `Before` the ancestors (pre-order), the descendants (depth mode) or all
predecessors in the sequential walk (ordered).

**CommandLine, CommandPlan.** The recursive descent of `parser.rs` over tokens,
with every word it knows (`ParseOr`, `OrRest`, `ParseAnd`, `AndRest`, `ParseNot`,
`ParsePrimary`, `ParseAtom`); then lowering with the planning state threaded from
left to right, the sort of read-only tests between things that may not move
(`OptimizeItems`), the projection for the pre-pass, and the choice of engine and
order. A leaf keeps the position it has in the text; options become barriers.
Operands are words of a small set; which of them a lookup rejects is the constant
`BadOperands`, and what the platform supports the constants `Support` and
`NativeOutput` (the output contract of Windows, where `-printf` has SIDs and no block
counts and `-ls` no mode bits; the run has the other one).

**CommandText.** What the same tokens mean without a tree: they are cut at the
loosest operator outside parentheses and run from left to right. It is the
reference for the other two and takes from them only how long one predicate is.

**EntryEvaluation.** A command line is planned (`Plan`), an entry with any
verdict of each test begins (`Begin`: `begin_entry_eval` after the walker's
pre-pass), and each action returns one of the answers it can have (`Resume`).
`StepExpr` and `Finish` are `step_expr` and `finish_with_outcome` with the stack
of their continuations.

**ExecBatch, ActionRun.** Batches with their keys, sizes and limit; then the
workers of a parallel run, or the one thread of an ordered run, carrying out one
action for each entry of a scenario. `Send`/`Broker` are the channel to
`broker_loop`; `WriteFirst`/`WriteRest` the locked record of a file output, in two
writes; `Ask`/`Reply`/`Confirmed` the prompt under its lock;
`FlushFull`/`Enqueue`/`FlushNext`/`Spawn` the batches and children;
`Collect`/`Finish` are `run_parallel_v2` after its workers. Every step that can
fail may fail: rendering, a write to the terminal or to a file, starting a child,
waiting for it, asking, deleting. `Panic` ends a worker in the middle of an
action. Scheduling is reduced to a set of entries that are handed out in any order
and the test that nobody is busy; `Scheduler` has the real one.

**EntryContext.** `cache` are the `OnceLock`s of `EntryData`. A getter is an
operator that yields a value, an error or the next fact it needs; `Load` reads it.
Between two steps another process may exchange the path or what it links to
(`Change`), and the program's own reading of a directory moves its access time.
`ReadChildren` is `fs::read_dir`, which goes by the path as it is by then: between the
look that gave the identity and this one the window stays open, and a path that becomes
a link in it is followed. `EntersWhatWasChecked` says what the code does ensure, that
outside this window no stale hint or view lets it enter anything but what it compared
with the ancestors and the device. One context is modelled; another one of the same
directory may see the access time that the first one's reading has left.

**Glob, NumericTests, LiteralTime, ModeTests, PrintfProgram, Matchers.** Each
operand's parser and matcher with its control kept: the bracket that does not
close and becomes literal, the backtracking of the glob program, the
decimal digits that are rounded up at one end of a window and down at the other,
the borrow of a fraction before 1970, chmod clauses as bit sets, the pieces of a
`-printf` format and its fields. `Matchers` asks each one question per behaviour;
what an operand means as it is written is in each module next to the program that
reads it (`Denotes`, `AgeIs`, `On`, `Reading`, `FieldHolds`). `-used` is asked on
platforms that refuse equal times (OpenBSD) and on others.

**GnuRegex, RegexMeaning.** The three GNU dialects: `LexFrom` with a token action per
dialect, the recursive descent of `TokenParser`, the validation of references and
bounds, the choice of an engine and the text written for it. A byte is a one-byte
string and an escape that is written is one glyph, so only what a sign means is kept
and not how a text is put together. `RegexMeaning` has the other side, three readings
that share nothing with that road: how a list of tokens is spelled in each dialect
(so that each dialect's lexer is held against the others), which tree it is by its
brackets alone, and how an engine reads the written text back. The last is stated for
`regex` and PCRE2 from the syntax they are given; the libraries are not in `src/`.

Definitions preceded by a comment that starts with "Mutant:" are not used by
the models: each is a plausible bug in the definition that follows or uses it,
and shows that the property named in `PROJECT.json` would notice.

## Runs

| run | what it shows | instance |
|---|---|---|
| `scheduler` | the counter is exact (`OutstandingExact`), leaving is sound (`NobodyLeavesEarly`), no task lost or copied (`EachTaskInOnePlace`), zero is final, all workers return | 2 workers, 2 roots, 2 more tasks to publish; any task may quit, fail or publish any unpublished task |
| `preorder` | refinement of `Traversal`; nothing evaluated that must not be; each failure reported; no publishing once quit was observed | 2 workers, 9 nodes, split threshold 1, chunk size 2 |
| `preorder_unreadable` | *finding*: an unreadable directory is fatal | as `preorder` |
| `postorder` | refinement of `Traversal` with descendants first; barriers count exactly what will report; no report finds its barrier gone | 2 workers, 8 nodes, split threshold 1, chunk size 2 |
| `postorder_quit_publish` | *finding*: chunks published after quit was observed | as `postorder` |
| `ordered_inline` | depth mode, `-xdev`, `-quit`, order of the walk, the same entries as the parallel engines (`SameEntriesAsParallel`) | 15 nodes |
| `ordered_pipeline` | pre-order, `-prune`, `-mindepth 1`: commits in order, no number lost | 15 nodes, 2 evaluators |
| `command` | the parser accepts exactly well-formed text; the suspended evaluation of the sorted plan does what the text says after every answer its actions can have, a failed batch included; `-prune` reaches as far as the text does; options speak for what follows them | 9193 command lines: up to 4 pieces of operators, tests and actions, groups in groups, up to 3 pieces of options and the tests they influence |
| `sinks` | accepted paths run exactly once; no child gets too long a list; prompts and records do not interleave; the outcome tells the truth; the run ends | 2 workers or the ordered thread, 8 scenarios of 3 entries, a limit that 2 short paths fill exactly |
| `worker_panic` | *finding*: a panic is not reported, the run hangs | 2 workers, a rendering that may panic beside two other actions |
| `matchers` | globs, numbers, sizes, ages, modes, flags, dates, regular expressions and formats mean what they say | 146894 questions: all short arrangements of the bytes each syntax tells apart |
| `entry` | answers follow the link mode and do not change; own reads stay unseen; the walk enters the directory whose identity it has checked unless the path was exchanged after that look | 3 questions to one context, 1 change by another process between any two reads |

Bounds. Two workers already give every pairwise interleaving: stealing from a
peer, losing a race, one dying or quitting while the other publishes or sleeps.
The trees hold a node of each kind the decision distinguishes. Split threshold 1
and chunk size 2 make a directory of four children use the local batch, a full
chunk and a partial chunk. `scheduler` runs `OnceSpec`, in which no task is published
twice, so that the four tasks can be told apart; that also bounds the counter. No other counter is bounded: the walks end by
themselves. These runs check for deadlock; the last state of an ended run stutters.

The other four do not: an evaluation that is complete, a question that has been
answered and a run that has ended stop there (`RunEnds` says that a run of the
sinks does end). Pieces of command lines are chosen so that two of them already
make every pair of adjacent constructs, and four a group with an operator on each
side; the deeper nestings are listed (`Groups`). An entry has a test of each
verdict including an error. The format of `-printf` is one directive there, since
only the platform feature it needs is asked. In `sinks` three entries for two
workers let one be at work while another fails, and the paths of sizes 2, 3 and 5
under a limit of 5 with a fixed part of 1 fit exactly, fit alone and fit not at
all. In `matchers` integers are scaled down so that their edges are within reach: a
day has 12 seconds, a minute 5, a second 10 ticks, an `i64` ends at 60, a `u64` at
40, a `usize` at 99 and a `u32` of a count at 9; calendars and the zone with its skipped and
repeated hour are the real ones. Regular expressions are all texts of three bytes out
of ten in each dialect, five pieces of groups, alternatives, references and stars,
classes of up to four bytes or three pieces, and all counts of up to three bytes. In `entry` one change is enough to separate any
two reads, and three questions to have a first, a second and a repeated one.

Fairness. Each worker, evaluator and the main thread is a thread that keeps
running (weak fairness). Steals have strong fairness: a crossbeam steal returns
`Retry` only if another operation on that queue succeeded meanwhile, and there
are finitely many tasks. In `Scheduler` alone a task's return is strongly fair
because a task publishes finitely many chunks; in the engines nothing of the
kind is assumed: that tasks return follows from their bodies. No fairness is
given to notifications: `AllWorkersReturn` rests on the timeout, as the mutant
without it shows. In `sinks` threads are scheduled, children end and users answer (weak fairness of
each worker, the broker and the engine); a lock is given back by a step of its
holder, so nothing stronger is needed; no panic is forced to happen.

## What is proved

All proofs hold for every value of the constants that the named assumptions admit;
TLC evaluates the assumptions in every run. Each theorem below has the name it has in
its module.

**Scheduler** (`SchedulerProofs`, from `SchedulerAssumption`): the types, so the counter
never goes below zero (`TypesKept`); the counter equals `Cardinality(Slots)`
(`CounterIsExact`); who leaves leaves nothing behind (`TerminationIsSound`); the counter
never rises from zero (`ZeroStaysZero`). `OutstandingExact` is not inductive by itself:
a decrement could go below zero, and a pushed value could be no task. `SchedInv`
(`SchedulerInvariant`) adds the types, that a worker whose `pc` says it holds a task does
hold one, that the slots are finitely many, and that a worker which has left found the
counter at zero. `Slots` gives each task in a queue, in a hand, or counted and not yet
pushed a place of its own, so that each step is a statement about sets; the library's
theorems on finite sets turn that into arithmetic on the counter. The stolen batch is the
hard case: one place of the injector becomes the hand, the others places at the end of a
deque, by a bijection. `TasksKeepApart` says that no task is lost or copied; it is about
`OnceSpec` and start paths that differ (`RootsDiffer`), since two equal tasks cannot be
told apart.

**Pre-order engine** (`PreOrderProofs`, from `PreOrderAssumption` and
`WalkTreeAssumption`). `EngineIsAScheduler` shows each step of the engine to be a step of
the scheduler, so the theorems above carry over (`NoChunkIsLeftBehind`). On that rest:

- `EngineTypesKept`, `OnlyEntriesAreEvaluated`, and the action property
  `AncestorsComeFirst`: whatever is in a chunk, a stack or an accumulator is ready, its
  ancestors evaluated;
- `NothingPublishedAfterQuitSeen`: a body that has seen `-quit` spills nothing;
- `CompleteWalksAreComplete` and `FailuresAreReported`: until a stop, each entry not yet
  evaluated, and each faulty node not yet reported, is in a queue, a hand or a body
  or below something there (`NothingLost`);
- `NothingIsEvaluatedTwice`: until a stop each node is at one place of the whole engine.
  A place is a slot of the scheduler or a part of a body, and counts that stop at two
  (`Mult`) make it inductive;
- `EngineKeepsThePromise`: the refinement of `Traversal`, step by step.

**Post-order engine** (`PostOrderProofs` and `PostOrderWalkProofs`, from
`PostOrderAssumption` and `WalkTreeAssumption`):

- `EngineTypesKept`, `EngineIsAScheduler` and `NoTaskIsLeftBehind`, as in pre-order;
- `BarriersCountExactly`: until a stop, each barrier waits for exactly the units that will
  report to it. `BarrierCountsExact` is not inductive: it says nothing of ids that are not
  in the table, so a report to a missing one could be lost, and nothing after a stop.
  `CountsInv` says of every id other than `NoBarrier` that what is on its way is at most
  what its record waits for (nothing, if there is no record), and exactly that until a
  stop. Each step is an equation between four counts and a number of the table before
  and after (`Settles`), an inequality where a stop makes a body drop what it holds. It
  rests on `BodiesKnown` (a worker without a task has an empty job; new work is refused
  only after a `-quit` or a failure) and on the scheduler's lemmas about which tasks are
  unstarted (`LoopKeepsUnstarted`, `AdmitStartsTask`, `PushMakesUnstarted`): a theft moves
  units and makes none;
- `ReportsFindTheirBarrier`: from the inequality, also while a stop unwinds the calls;
- `NothingIsEvaluatedTwice`, `DirectoriesWait`, `CompleteWalksAreComplete`,
  `FailuresAreReported` and, from these, `EngineKeepsThePromise`: the refinement of
  `Traversal`, step by step. They share the inductive invariant `WalkInv`.

`WalkInv` follows the nodes. `Held` says where a node is (in a task, in a record, with
the body at work on it, in a batch or a chunk of a nested call), to which barrier it will
be reported, and how far it got: new, listed, waiting or ready. Its parts, and why each:

- a node is at one place (`OnePlace`) and what is held was not evaluated (`AtMostOnce`).
  That needs `Untouched`, since children come to places of their own when a directory is
  split: below a node that is new or being listed, nothing is held or evaluated. It
  survives each split because two children have nothing below them in common;
- a ready node has everything below it handled, and a node whose listing is over is
  reported if it failed (`Prepared`, with `ListingsKnown`). This is what a barrier is for.
  When the last unit of a directory is reported, `CountsInv` has nothing on its way to
  that barrier; so what it still owed must be finished, which is `Covered`: each child of a
  waiting directory is finished, or it is somewhere on its way to the barrier or to one
  of its batches (`Under`). It is claimed only while nothing the barrier counts
  was dropped (`Owed`, `Whole`): a stop makes a body drop its calls, and then the count of
  the record never falls to zero, so the directory is never released. That is why
  `DirectoriesWait` holds also while `-quit` or a failure unwinds the walk;
- a chunk reports to a directory, and so does a batch (`ChunksNest`, `BatchesNest`), which
  makes the ways to a barrier at most two reports long; and a record reports to an
  older one (`ParentsOlder`);
- only nodes that may be reported were (`ErrorsKnown`).

At the end of a complete walk no task is left (`TerminationIsSound`, through the
refinement of the scheduler) and no body is at work. A record that is left would wait for at
least one unit, which could only be a younger record; the ids have a greatest, so there is
none. Nothing being held, `Covered` has the start paths finished, with all that is below
them.

**Ordered engine** (`OrderedEngineProofs`, from `OrderedAssumption` and
`WalkTreeAssumption`), both ways to evaluate and both orders at once:

- `OrderedTypesKept`, `EveryNumberIsKept`: a number is at one place of the channels,
  evaluators and queue, with one node (`Carries`, `OnePlaceEach`, `NoneLost`);
- `ActionsFollowTheWalk`: what was emitted is in the order of the sequential walk,
  everything the stack leads to comes after it, and an earlier frame leads to earlier
  nodes (`EmittedInOrder`, `StackComesLater`, `StackInOrder`). Every step of the walk but
  a visit replaces the first frame by frames that lead to the same entries in their order
  (`WalkReplaces`), so the stack's part is proved once for all of them (`ReplaceStep`).
  That `Precedes` is a strict order is `PrecedesIsStrict`;
- `OrderedRunsAreComplete`, `OrderedFailuresReported`: an entry is emitted, or a frame
  still owes it, until the run fails or quits (`NoEntryForgotten`, `ReportsInv`);
- `OrderedEngineKeepsThePromise`: the refinement of `Traversal`.

**Action sinks** (`ActionRunProofs`, from `ActionRunAssumption` and
`ExecBatchAssumption`): `RunTypesKept`; `LocksKeepTogether` (who is between two halves
holds the lock, and the last line of the terminal or file is theirs); `BatchesAlwaysFit`
(the size that is kept is the size of the command line, `Measured`); `OutcomeIsTrue` (the
results that were sent, and the flags, agree with what happened); `AcceptedPathsRun` (an
accepted path is in one batch or one child's list, or has run, or an error is known).

**Entry context** (`EntryContextProofs`, from `EntryContextAssumption`):
`ContextsAnswerOnce`, `ReadsAreNeverSeen`, `WalkEntersWhatItChecked`. The cached views are
what was read at some moment, and an answer that was reached is not changed by anything
that is read later (`AnswersStay`). A directory's identity is that of the active view
(`DirectoryEntered`), and as long as the views still show what is there, this view is of
the file that the path leads to (`ActiveAsSeen`); so the action property
`EntersWhatWasChecked` follows for each step.

Assumptions that are not types. `WalkTreeAssumption` says that the nodes are the
occurrences of paths below the start paths: a node has one parent, nothing is listed
twice, no node is below itself (in every set of nodes one is a child of none). It is a
finite tree unrolled by path, so the code justifies it whatever links there are: a loop
through links is a node whose `DescendDecision` is "error". `MayQuit` is empty in the
ordered pipeline since `-quit` is an action that makes a run inline.

Statements that proofs corrected. Two failure reports were true of the trees TLC was
given and false in general: a pruned directory whose listing would have a bad item is
not read, and an unreadable directory that is also missing is reported for that. They now
say exactly which nodes are reported (`FaultyNodes` in the ordered and the post-order
engine, `FatalNodes` and `EveryFailureReported` in pre-order). `Traversal` let a walk fail only after an
evaluation had failed; in pre-order a directory that cannot be opened may do it before any
entry was evaluated, which `Fail` admits now.

Induction. The library's induction theorems take an operator as a parameter, which no
installed prover instantiates; `WalkTreeProofs` (and, for batches, `ActionRunProofs`) has
induction over numbers and over the tree with sets instead (`NatSetInduction`, `TreeInduction`), which
is enough for `Reached`, `Ancestors`, `Length` of a batch and `GoodItems`.

Only model-checked:

- liveness: `AllWorkersReturn`, `RunEnds`, and the part of `ImplementsTraversal` and
  `ImplementsOrderedTraversal` that says that a walk ends (fairness and ENABLED are out
  of the prover's reach; the rest of the two is proved);
- the parser, the plan and the evaluation (the properties of `command`) and the matchers
  and formats (those of `matchers`): they are recursive operators over trees and texts,
  which the prover does not unfold, and what they compute for every text would be an
  induction over the text.

## Findings

1. `parallel/worker.rs:467`: in parallel pre-order an unreadable directory ends
   the run as a fatal error; depth mode and the ordered engine report it and go on.
2. `parallel/worker.rs:732`: in depth mode a worker can publish chunks after it
   has observed `-quit`, against `README.md:61` of the repository.

3. `parallel/engine.rs:105`: the error for a worker that panicked cannot appear.
   The engine first receives one result from every worker; a worker that panics
   sends none and never counts its task off, so the others wake up for ever and
   the run hangs. A field width above `isize::MAX` in `-printf` is a way to panic.

Also seen while modelling, and built into the statements or left as remarks:

- an entry whose identity cannot be read is evaluated by parallel pre-order
  (`worker.rs:411-438`) and only reported by the ordered engine
  (`walker.rs:225-231`); `SameEntriesAsParallel` excepts it;
- a path too large for an empty batch ends a parallel run (`parallel/batch.rs:49`)
  and is a diagnostic in an ordered one; `Enqueue` has both;
- sorting tests may move the error of a test across a false one (`EvaluatesTheText`
  and `PrunesWhatTheTextReaches` except errors when tests have moved);
- an age of more seconds than an `i64` holds counts as older than everything;
- an exact window of time that ends within a tick of the clock leaves that tick out
  (`time.rs:319` rounds down), so an age in it is neither in the window nor beyond it
  (`AgeIs` says so);
- a literal time with a fraction but no seconds (`12:00.5`) is refused;
- on BSD and macOS `%-0Ns` pads a string with zeros on its right
  (`printf.rs:651-665`), which `ZeroPadsStrings` allows for and no run sets;
- `%Y` looks behind a link at each rendering and keeps nothing (`entry.rs:424`),
  unlike every other fact; `AnswersFollowTheLinks` excepts it;
- `-printf %F` reads the mount table like `-fstype` (`mountSnapshot`);
- where the engine takes the written text of a regular expression for more than is
  meant (`Blurred`): a quantifier behind a quantifier (`a+?`, a lazy one there), a
  digit behind a reference, a quantifier behind `\<` or `\>`, and in a class for `regex`
  a bare `[`, a doubled `&` or `~`, and a range that begins or ends with `-`
  (`gnu.rs:869-889` quote none of these);
- in the basic and Emacs dialects a `*` behind a reference is a byte, because
  `can_repeat_atom` (`gnu.rs:236`) leaves references out; in the basic dialect `^` and
  `$` are anchors everywhere;
- a reference to a group that is still open is accepted once a later group has been
  closed (`gnu.rs:114` compares with the highest number closed), as `AcceptedRightly`
  says;
- neither engine is told to let `.` match a newline (`regex_match/backend.rs:17-50`).

## Not modelled

- What the platform answers: accounts, SIDs, mount tables, the conversion of one
  `stat`, the Windows back end. These are system calls and tables; the models take
  their answers as constants or choices.
- Text: argument templates of `-exec`, which replies count as yes, `-ls` lines and
  the calendar texts of `printf_time.rs`, wording of diagnostics.
- The two engines behind regular expressions, and patterns written in their own
  syntax, which are passed on as they are; bytes outside printable ASCII, which are
  written in hexadecimal.
- Exit codes, startup warnings, the `PATH` check of `-execdir`, the version line.
- `exec/parallel.rs`: no engine uses that sink.
- How the ancestry of a pending entry travels with it. `WalkTree` takes the ancestors
  from the tree, so a chunk or a theft that lost them would not show.
- A failing write of a diagnostic in the ordered engine's own walk, and a file
  system that changes during a walk (it changes under one entry, in `entry`).
- `eval.rs`'s direct recursion has no module: what it computes is `RunCommand` on
  the text.

## Plan

The engines, the sinks and the entry context are modelled, checked and proved as far as
the prover reaches. Left are more configurations of the parallel engines for TLC
(`-mindepth`, `-maxdepth`, `-xdev` and `ControlError`, which the proofs cover
already), and direct models of the argument templates of `-exec` and of the calendar
texts of `printf_time.rs`.
