-------------------------- MODULE PostOrderEngine --------------------------
(***************************************************************************)
(* The parallel engine in depth mode (-depth, -delete): the scheduler of   *)
(* Scheduler.tla with the post-order task bodies of                        *)
(* src/src/parallel/worker.rs and the barriers of                          *)
(* src/src/parallel/postorder.rs.                                          *)
(*                                                                         *)
(* A directory is evaluated after everything below it.  Its barrier counts *)
(* the units its children were split into (the local batch and the spilled *)
(* chunks); a batch of several nodes has a barrier of its own.  Whoever    *)
(* finishes the last unit publishes a task that evaluates the directory.   *)
(***************************************************************************)
EXTENDS WalkTree, SequencesExt, FiniteSetsExt

CONSTANTS
  NWorkers,
  SplitThreshold,  \* DEFAULT_SPLIT_CHILD_THRESHOLD, 32 in the code
  ChunkSize,       \* DEFAULT_SPILL_CHUNK_SIZE, 32 in the code
  NoNode,
  NoTask,
  MayQuit,         \* nodes whose evaluation may execute -quit
  MayFail          \* nodes whose evaluation may return Err

ASSUME PostOrderAssumption ==
  /\ NWorkers \in Nat \ {0}
  /\ SplitThreshold \in Nat
  /\ ChunkSize \in Nat \ {0}
  /\ NoNode \notin Node
  /\ NoTask \notin [nodes : Seq(Node), barrier : Nat, resume : BOOLEAN]
  /\ MayQuit \subseteq Node
  /\ MayFail \subseteq Node

VARIABLES
  accept, quit, fatal, outstanding, injector, deque, pc, task, pub, victim,
  woken, failed, spawned, finished,    \* the scheduler's
  job,          \* the local state of each worker's task body
  barriers,     \* BarrierTable.records: a function from the live ids
  nextBarrier,  \* BarrierTable.next_id
  evals,        \* how often each node was evaluated
  errors        \* the nodes an error was reported for

NoBarrier == 0
Barrier == Nat

(* PreOrderRoot and SiblingChunk carry pending nodes and the barrier their   *)
(* completion is reported to; PostOrderResume carries one directory.         *)
ChunkTask(nodes, barrier) == [nodes |-> nodes, barrier |-> barrier, resume |-> FALSE]
ResumeTask(node, barrier) == [nodes |-> <<node>>, barrier |-> barrier, resume |-> TRUE]
EngineTask == [nodes : Seq(Node), barrier : Barrier, resume : BOOLEAN]

S == INSTANCE Scheduler WITH
       Task <- EngineTask,
       Roots <- [i \in 1..Len(StartPaths) |-> ChunkTask(<<StartPaths[i]>>, NoBarrier)]

schedVars == <<accept, quit, fatal, outstanding, injector, deque, pc, task, pub,
               victim, woken, failed, spawned, finished>>
treeVars == <<evals, errors>>
barrierVars == <<barriers, nextBarrier>>
vars == <<schedVars, job, barriers, nextBarrier, evals, errors>>

Worker == S!Worker

(* frames: the active calls, innermost first.  A batch frame is a call of     *)
(* run_postorder_pending_batch (nodes left, barrier its nodes report to); a   *)
(* dir frame is run_postorder_pending_root waiting for its local batch (its   *)
(* barrier, the chunks it still has to publish).                              *)
BatchFrame(nodes, barrier) == [kind |-> "batch", nodes |-> nodes, barrier |-> barrier, chunks |-> <<>>]
DirFrame(barrier, chunks) == [kind |-> "dir", nodes |-> <<>>, barrier |-> barrier, chunks |-> chunks]

(* at: the node being visited; notify: the barrier to report to; items,      *)
(* local, buffer, spilled: as in PreOrderEngine; resume: the task is a        *)
(* PostOrderResume; sawQuit: history, the body has read quit_seen as true.    *)
NoJob == [step |-> "idle", frames |-> <<>>, at |-> NoNode, notify |-> NoBarrier,
          items |-> <<>>, local |-> <<>>, buffer |-> <<>>, spilled |-> <<>>,
          resume |-> FALSE, sawQuit |-> FALSE]

Init ==
  /\ S!SchedInit
  /\ job = [w \in Worker |-> NoJob]
  /\ barriers = <<>> /\ nextBarrier = 1
  /\ evals = [n \in Node |-> 0]
  /\ errors = {}

At(w, step) == pc[w] = "run" /\ job[w].step = step
Update(w, j) == job' = [job EXCEPT ![w] = j]
Stopping == quit \/ fatal

-----------------------------------------------------------------------------
(* BarrierTable *)

DirectoryRecord(n, units, parent) == [entry |-> n, remaining |-> units, parent |-> parent]
BatchRecord(units, parent) == [entry |-> NoNode, remaining |-> units, parent |-> parent]
Insert(table, id, record) ==
  [b \in DOMAIN table \cup {id} |-> IF b = id THEN record ELSE table[b]]

(* Mutant: begin_batch is forgotten; every node reports to the parent. *)
NoBatchNeeded(nodes, barrier) == FALSE

(* begin_batch for the nodes of a batch that reports to "barrier": only a     *)
(* batch of several nodes under some barrier gets a record of its own.  The   *)
(* id is not known to any other worker yet.                                   *)
NeedsBatch(nodes, barrier) == barrier # NoBarrier /\ Len(nodes) > 1

(* The frame of a new batch, and the table after it, when id is the next id. *)
BatchFor(nodes, barrier, id) ==
  BatchFrame(nodes, IF NeedsBatch(nodes, barrier) THEN id ELSE barrier)
AddBatch(table, nodes, barrier, id) ==
  IF NeedsBatch(nodes, barrier)
  THEN Insert(table, id, BatchRecord(Len(nodes), barrier)) ELSE table
IdsUsed(nodes, barrier) == IF NeedsBatch(nodes, barrier) THEN 1 ELSE 0

-----------------------------------------------------------------------------
StartChunk(w) == LET t == task[w] IN
  /\ At(w, "idle") /\ ~t.resume
  /\ Update(w, [NoJob EXCEPT !.step = "next",
                             !.frames = <<BatchFor(t.nodes, t.barrier, nextBarrier)>>])
  /\ barriers' = AddBatch(barriers, t.nodes, t.barrier, nextBarrier)
  /\ nextBarrier' = nextBarrier + IdsUsed(t.nodes, t.barrier)
  /\ UNCHANGED <<schedVars, treeVars>>

(* run_postorder_resume evaluates the directory, from -mindepth on. *)
StartResume(w) == LET t == task[w] IN
  /\ At(w, "idle") /\ t.resume
  /\ Update(w, [NoJob EXCEPT !.step = IF IsEvaluatedAt(t.nodes[1]) THEN "eval" ELSE "notify",
                             !.at = t.nodes[1], !.notify = t.barrier, !.resume = TRUE])
  /\ UNCHANGED <<schedVars, barrierVars, treeVars>>

EndTask(w) ==
  /\ At(w, "next") /\ job[w].frames = <<>>
  /\ Update(w, NoJob)
  /\ S!TaskReturns(w, TRUE)
  /\ UNCHANGED <<barrierVars, treeVars>>

(* The innermost batch is done, or abandoned because a stop was seen. *)
EndBatch(w) == LET j == job[w] IN
  /\ At(w, "next") /\ j.frames # <<>>
  /\ Head(j.frames).kind = "batch"
  /\ Head(j.frames).nodes = <<>> \/ Stopping
  /\ Update(w, [j EXCEPT !.frames = Tail(@),
                         !.sawQuit = @ \/ (quit /\ Head(j.frames).nodes # <<>>)])
  /\ UNCHANGED <<schedVars, barrierVars, treeVars>>

(* What run_postorder_pending_root does with a node before it evaluates or   *)
(* lists it; the identity is asked for before should_descend_directory.      *)
Visit(n) ==
  IF ~Loads(n) \/ ~Controlled(n) \/ n \in Opaque THEN "error"
  ELSE IF n \notin Dir THEN "complete"
  ELSE CASE DescendDecision(n) = "error" -> "error"
         [] DescendDecision(n) = "no" -> "complete"
         [] DescendDecision(n) = "yes" -> "list"

(* complete_postorder_entry: evaluate from -mindepth on, then notify. *)
CompleteStep(n) == IF IsEvaluatedAt(n) THEN "eval" ELSE "notify"

VisitNext(w) == LET j == job[w]
                    f == Head(j.frames)
                    n == Head(f.nodes) IN
  /\ At(w, "next") /\ j.frames # <<>>
  /\ f.kind = "batch" /\ f.nodes # <<>> /\ ~Stopping
  /\ Update(w, [j EXCEPT
       !.frames = <<[f EXCEPT !.nodes = Tail(@)]>> \o Tail(@),
       !.at = n, !.notify = f.barrier, !.items = Items[n],
       !.step = CASE Visit(n) = "error" -> "notify"
                  [] Visit(n) = "complete" -> CompleteStep(n)
                  [] Visit(n) = "list" -> "open"])
  /\ errors' = IF Visit(n) = "error" THEN errors \cup {n} ELSE errors
  /\ UNCHANGED <<schedVars, barrierVars, evals>>

OpenDirectory(w) ==
  /\ At(w, "open")
  /\ Update(w, [job[w] EXCEPT !.step = "list"])
  /\ UNCHANGED <<schedVars, barrierVars, treeVars>>

(* visit_children fails: reported, and the directory completes as a leaf. *)
OpenFails(w) == LET n == job[w].at IN
  /\ At(w, "open") /\ n \in Unreadable
  /\ Update(w, [job[w] EXCEPT !.step = CompleteStep(n), !.items = <<>>])
  /\ errors' = errors \cup {n}
  /\ UNCHANGED <<schedVars, barrierVars, evals>>

-----------------------------------------------------------------------------
(* ChunkAccumulator::push *)
Accumulate(j, child, maySplit) ==
  IF ~maySplit \/ Len(j.local) < SplitThreshold
  THEN [j EXCEPT !.local = Append(@, child)]
  ELSE LET full == Append(j.buffer, child) IN
       IF Len(full) >= ChunkSize
       THEN [j EXCEPT !.buffer = <<>>, !.spilled = Append(@, full)]
       ELSE [j EXCEPT !.buffer = full]

(* Mutant: the error is dropped. *)
SkipBadItem(w) == LET j == job[w] IN
  /\ At(w, "list") /\ j.items # <<>> /\ Head(j.items) = BadItem
  /\ Update(w, [j EXCEPT !.items = Tail(@)])
  /\ UNCHANGED <<schedVars, barrierVars, treeVars>>

ListBadItem(w) == LET j == job[w] IN
  /\ At(w, "list") /\ j.items # <<>> /\ Head(j.items) = BadItem
  /\ Update(w, [j EXCEPT !.items = Tail(@)])
  /\ errors' = errors \cup {j.at}
  /\ UNCHANGED <<schedVars, barrierVars, evals>>

ListChild(w) == LET j == job[w] IN
  /\ At(w, "list") /\ j.items # <<>> /\ Head(j.items) # BadItem
  /\ Update(w, Accumulate([j EXCEPT !.items = Tail(@)], Head(j.items), accept))
  /\ UNCHANGED <<schedVars, barrierVars, treeVars>>

FinishChunks(j) ==
  IF j.buffer = <<>> THEN j.spilled ELSE Append(j.spilled, j.buffer)

AfterListing(j) == [j EXCEPT !.at = NoNode, !.notify = NoBarrier, !.local = <<>>,
                       !.buffer = <<>>, !.spilled = <<>>, !.items = <<>>]

(* A stop was seen: the directory is dropped, its parent never told. *)
AbandonListing(w) == LET j == job[w] IN
  /\ At(w, "list") /\ j.items = <<>> /\ Stopping
  /\ Update(w, [AfterListing(j) EXCEPT !.step = "next", !.sawQuit = @ \/ quit])
  /\ UNCHANGED <<schedVars, barrierVars, treeVars>>

ListedEmpty(w) == LET j == job[w] IN
  /\ At(w, "list") /\ j.items = <<>> /\ ~Stopping
  /\ j.local = <<>> /\ FinishChunks(j) = <<>>
  /\ Update(w, [j EXCEPT !.step = CompleteStep(j.at)])
  /\ UNCHANGED <<schedVars, barrierVars, treeVars>>

(* begin_directory with one unit per chunk and one for the local batch, which *)
(* this worker runs at once, inside the call.                                 *)
BeginDirectory(w) == LET j == job[w]
                         chunks == FinishChunks(j)
                         units == Len(chunks) + (IF j.local = <<>> THEN 0 ELSE 1)
                         id == nextBarrier
                         table == Insert(barriers, id, DirectoryRecord(j.at, units, j.notify))
                         dir == <<DirFrame(id, chunks)>> \o j.frames IN
  /\ At(w, "list") /\ j.items = <<>> /\ ~Stopping /\ units > 0
  /\ barriers' = IF j.local = <<>> THEN table ELSE AddBatch(table, j.local, id, id + 1)
  /\ nextBarrier' = id + 1 + IdsUsed(j.local, id)
  /\ Update(w, [AfterListing(j) EXCEPT
       !.step = "next",
       !.frames = IF j.local = <<>> THEN dir
                  ELSE <<BatchFor(j.local, id, id + 1)>> \o dir])
  /\ UNCHANGED <<schedVars, treeVars>>

(* The local batch returned: give up if new work is refused, else publish.   *)
LeaveDirectory(w) == LET j == job[w] IN
  /\ At(w, "next") /\ j.frames # <<>> /\ Head(j.frames).kind = "dir"
  /\ ~accept
  /\ Update(w, [j EXCEPT !.frames = Tail(@)])
  /\ UNCHANGED <<schedVars, barrierVars, treeVars>>

PublishRest(w) == LET j == job[w] IN
  /\ At(w, "next") /\ j.frames # <<>> /\ Head(j.frames).kind = "dir"
  /\ accept
  /\ Update(w, [j EXCEPT !.step = "publish"])
  /\ UNCHANGED <<schedVars, barrierVars, treeVars>>

PublishChunk(w) == LET j == job[w]
                       f == Head(j.frames) IN
  /\ At(w, "publish") /\ f.chunks # <<>>
  /\ S!BeginPush(w, ChunkTask(Head(f.chunks), f.barrier))
  /\ Update(w, [j EXCEPT !.frames = <<[f EXCEPT !.chunks = Tail(@)]>> \o Tail(@)])
  /\ UNCHANGED <<barrierVars, treeVars>>

PublishDone(w) == LET j == job[w] IN
  /\ At(w, "publish") /\ Head(j.frames).chunks = <<>>
  /\ Update(w, [j EXCEPT !.step = "next", !.frames = Tail(@)])
  /\ UNCHANGED <<schedVars, barrierVars, treeVars>>

-----------------------------------------------------------------------------
CountEval(w) == evals' = [evals EXCEPT ![job[w].at] = @ + 1]

EvalOk(w) ==
  /\ At(w, "eval")
  /\ CountEval(w)
  /\ Update(w, [job[w] EXCEPT !.step = "notify"])
  /\ UNCHANGED <<schedVars, barrierVars, errors>>

(* -quit: the stop status unwinds every active call, and nothing is notified, *)
(* except that a resume task still notifies its parent.                       *)
EvalQuits(w) ==
  /\ At(w, "eval") /\ job[w].at \in MayQuit
  /\ CountEval(w)
  /\ S!StoreQuit(w)
  /\ Update(w, [job[w] EXCEPT !.step = IF job[w].resume THEN "notify" ELSE "leave"])
  /\ UNCHANGED <<barrierVars, errors>>

LeaveAfterQuit(w) ==
  /\ At(w, "leave")
  /\ Update(w, NoJob)
  /\ S!TaskReturns(w, TRUE)
  /\ UNCHANGED <<barrierVars, treeVars>>

EvalFails(w) ==
  /\ At(w, "eval") /\ job[w].at \in MayFail
  /\ CountEval(w)
  /\ Update(w, NoJob)
  /\ S!TaskReturns(w, FALSE)
  /\ UNCHANGED <<barrierVars, errors>>

-----------------------------------------------------------------------------
(* notify_parent_barrier: a loop of finish_spilled_chunk, each under the      *)
(* table's mutex.                                                             *)
Notified(j) == [j EXCEPT !.step = "next", !.at = NoNode, !.notify = NoBarrier]

NotifyEnds(w) ==
  /\ At(w, "notify")
  /\ job[w].notify \notin DOMAIN barriers   \* no parent, or an unknown id
  /\ Update(w, Notified(job[w]))
  /\ UNCHANGED <<schedVars, barrierVars, treeVars>>

(* Mutant: the count may go down to zero. *)
FinishUnitToZero(w) == LET b == job[w].notify IN
  /\ At(w, "notify") /\ b \in DOMAIN barriers /\ barriers[b].remaining > 0
  /\ barriers' = [barriers EXCEPT ![b].remaining = @ - 1]
  /\ Update(w, Notified(job[w]))
  /\ UNCHANGED <<schedVars, nextBarrier, treeVars>>

FinishUnit(w) == LET b == job[w].notify IN
  /\ At(w, "notify") /\ b \in DOMAIN barriers /\ barriers[b].remaining > 1
  /\ barriers' = [barriers EXCEPT ![b].remaining = @ - 1]
  /\ Update(w, Notified(job[w]))
  /\ UNCHANGED <<schedVars, nextBarrier, treeVars>>

(* Mutant: released when one unit is still out. *)
FinishLastUnitEarly(w) == LET b == job[w].notify IN
  /\ At(w, "notify") /\ b \in DOMAIN barriers /\ barriers[b].remaining <= 2
  /\ barriers' = [c \in DOMAIN barriers \ {b} |-> barriers[c]]
  /\ Update(w, IF barriers[b].entry = NoNode
               THEN [job[w] EXCEPT !.notify = barriers[b].parent]
               ELSE [job[w] EXCEPT !.step = "release", !.at = barriers[b].entry,
                                   !.notify = barriers[b].parent])
  /\ UNCHANGED <<schedVars, nextBarrier, treeVars>>

(* The last unit: the record goes; a batch passes the notification on, a     *)
(* directory is released.                                                    *)
FinishLastUnit(w) == LET b == job[w].notify IN
  /\ At(w, "notify") /\ b \in DOMAIN barriers /\ barriers[b].remaining <= 1
  /\ barriers' = [c \in DOMAIN barriers \ {b} |-> barriers[c]]
  /\ Update(w, IF barriers[b].entry = NoNode
               THEN [job[w] EXCEPT !.notify = barriers[b].parent]
               ELSE [job[w] EXCEPT !.step = "release", !.at = barriers[b].entry,
                                   !.notify = barriers[b].parent])
  /\ UNCHANGED <<schedVars, nextBarrier, treeVars>>

(* Mutant: the released directory forgets its own parent barrier. *)
ReleaseOrphan(w) == LET j == job[w] IN
  /\ At(w, "release")
  /\ S!BeginPush(w, ResumeTask(j.at, NoBarrier))
  /\ Update(w, Notified(j))
  /\ UNCHANGED <<barrierVars, treeVars>>

ReleaseDirectory(w) == LET j == job[w] IN
  /\ At(w, "release")
  /\ S!BeginPush(w, ResumeTask(j.at, j.notify))
  /\ Update(w, Notified(j))
  /\ UNCHANGED <<barrierVars, treeVars>>

-----------------------------------------------------------------------------
TaskStep(w) ==
  \/ StartChunk(w) \/ StartResume(w) \/ EndTask(w) \/ EndBatch(w) \/ VisitNext(w)
  \/ OpenDirectory(w) \/ OpenFails(w)
  \/ ListBadItem(w) \/ ListChild(w) \/ AbandonListing(w) \/ ListedEmpty(w)
  \/ BeginDirectory(w)
  \/ LeaveDirectory(w) \/ PublishRest(w) \/ PublishChunk(w) \/ PublishDone(w)
  \/ EvalOk(w) \/ EvalQuits(w) \/ LeaveAfterQuit(w) \/ EvalFails(w)
  \/ NotifyEnds(w) \/ FinishUnit(w) \/ FinishLastUnit(w) \/ ReleaseDirectory(w)

LoopStep(w) == S!WorkerLoop(w) /\ UNCHANGED <<job, barrierVars, treeVars>>

Next ==
  \/ \E w \in Worker : LoopStep(w) \/ TaskStep(w)
  \/ S!AllReturned /\ UNCHANGED vars

Fairness == \A w \in Worker :
  /\ WF_vars(LoopStep(w))
  /\ WF_vars(TaskStep(w))
  /\ SF_vars(S!StealInjector(w) /\ UNCHANGED <<job, barrierVars, treeVars>>)
  /\ SF_vars(S!StealPeer(w) /\ UNCHANGED <<job, barrierVars, treeVars>>)

Spec == Init /\ [][Next]_vars /\ Fairness

-----------------------------------------------------------------------------
(* Properties *)

Frame == [kind : {"batch", "dir"}, nodes : Seq(Node), barrier : Barrier, chunks : Seq(Seq(Node))]

TypeOK ==
  /\ S!TypeOK
  /\ job \in [Worker -> [step : {"idle", "next", "open", "list", "publish", "eval",
                                 "leave", "notify", "release"},
                         frames : Seq(Frame), at : Node \cup {NoNode}, notify : Barrier,
                         items : Seq(Node \cup {BadItem}), local : Seq(Node),
                         buffer : Seq(Node), spilled : Seq(Seq(Node)),
                         resume : BOOLEAN, sawQuit : BOOLEAN]]
  /\ nextBarrier \in Nat
  /\ DOMAIN barriers \subseteq 1..(nextBarrier - 1)
  /\ \A b \in DOMAIN barriers :
       barriers[b] \in [entry : Node \cup {NoNode}, remaining : Nat \ {0}, parent : Barrier]
  /\ evals \in [Node -> Nat]
  /\ errors \subseteq Node

(* How the walk looks from outside. *)
Verdict ==
  IF ~S!AllReturned THEN "running"
  ELSE IF \E w \in Worker : pc[w] = "dead" THEN "failed"
  ELSE IF quit THEN "stopped" ELSE "complete"

(* Depth mode: an entry comes after every entry below it. *)
DescendantsBefore ==
  [n \in PostOrderEntries |-> {d \in PostOrderEntries : n \in Ancestors[d]}]

Abstract == INSTANCE Traversal WITH
  Entry <- PostOrderEntries, Before <- DescendantsBefore, verdict <- Verdict,
  evals <- [n \in PostOrderEntries |-> evals[n]],
  MayQuit <- MayQuit \cap PostOrderEntries, MayFail <- MayFail \cap PostOrderEntries

(* README.md:73, "preserves descendant-before-parent completion": every entry *)
(* is evaluated exactly once and after every entry below it, whichever        *)
(* workers ran the chunks, and also when -quit or a failed evaluation stops   *)
(* the walk half way; without a stop none is left out; and the walk ends.     *)
ImplementsTraversal == Abstract!TravSpec

(* What will still report to barrier b: records below it; tasks no worker has *)
(* started; nodes of running batches and chunks not yet published (by worker, *)
(* call, and place from the end); and what a worker is busy with.             *)
RecordsBelow(b) == {c \in DOMAIN barriers : barriers[c].parent = b}

Unstarted == S!SlotsOf(injector, deque, {w \in Worker : pc[w] = "got"},
                       {w \in Worker : pc[w] \in {"count", "push"}})
TasksFor(b) == {s \in Unstarted : S!TaskIn(s).barrier = b}

Call(w, h) == job[w].frames[Len(job[w].frames) + 1 - h]   \* 1 is the outermost
CallsFor(w, b) == {h \in 1..Len(job[w].frames) : Call(w, h).barrier = b}
HeldFor(b) ==
  UNION {UNION {{<<w, h, k>> : k \in 1..(Len(Call(w, h).nodes) + Len(Call(w, h).chunks))} :
                h \in CallsFor(w, b)} : w \in Worker}

BusyFor(b) == {w \in Worker : \/ At(w, "idle") /\ task[w].barrier = b
                              \/ job[w].notify = b}

UnitsOf(b) == Cardinality(RecordsBelow(b)) + Cardinality(TasksFor(b))
                + Cardinality(HeldFor(b)) + Cardinality(BusyFor(b))

(* While nothing stops the walk, each barrier counts exactly the units that   *)
(* will report to it: a count too high would leave the directory waiting for  *)
(* ever and silently unevaluated, a count too low would release it early.     *)
BarrierCountsExact ==
  (~quit /\ failed = {}) =>
    \A b \in DOMAIN barriers : barriers[b].remaining = UnitsOf(b)

(* finish_spilled_chunk's "unknown barrier" answer (postorder.rs:83) is never *)
(* needed: whoever reports to a barrier finds its record.                     *)
NotifyFindsBarrier ==
  \A w \in Worker : job[w].step = "notify" /\ job[w].notify # NoBarrier =>
                      job[w].notify \in DOMAIN barriers

(* The reached nodes that could not be loaded, checked, identified, entered, *)
(* or listed to the end.                                                     *)
FaultyNodes ==
  {n \in Node : /\ Reached[n]
                /\ Visit(n) = "error" \/ (Visit(n) = "list" /\ BadItem \in RangeOf(Items[n]))}

(* Every failure is reported, and none is fatal: when nothing stopped the    *)
(* walk, an error was reported for each of these nodes, and otherwise only   *)
(* for directories that could not be opened.                                 *)
EveryFailureReported ==
  Verdict = "complete" =>
    /\ FaultyNodes \subseteq errors
    /\ errors \ FaultyNodes \subseteq {n \in Unreadable : Reached[n] /\ Visit(n) = "list"}

(* README.md:61: no new subtree tasks are published after -quit is observed.  *)
NoPublishAfterQuitSeen ==
  \A w \in Worker : job[w].sawQuit => pc[w] \notin {"count", "push"}
=============================================================================
