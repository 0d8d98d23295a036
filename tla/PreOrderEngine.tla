--------------------------- MODULE PreOrderEngine ---------------------------
(***************************************************************************)
(* The parallel engine in pre-order: the scheduler of Scheduler.tla with   *)
(* the task body run_preorder_pending_batch of src/src/parallel/worker.rs  *)
(* and the child splitting of src/src/parallel/chunking.rs.                *)
(*                                                                         *)
(* A task is a chunk of siblings.  Its body keeps a stack of pending       *)
(* nodes; for each it evaluates the expression, then lists the directory,  *)
(* keeps the first SplitThreshold children for itself and publishes the    *)
(* others in chunks of ChunkSize for other workers to steal.               *)
(***************************************************************************)
EXTENDS WalkTree, SequencesExt

CONSTANTS
  NWorkers,
  SplitThreshold,  \* DEFAULT_SPLIT_CHILD_THRESHOLD, 32 in the code
  ChunkSize,       \* DEFAULT_SPILL_CHUNK_SIZE, 32 in the code
  NoNode,
  MayQuit,         \* nodes whose evaluation may execute -quit
  MayFail          \* nodes whose evaluation may return Err

ASSUME PreOrderAssumption ==
  /\ NWorkers \in Nat \ {0}
  /\ SplitThreshold \in Nat
  /\ ChunkSize \in Nat \ {0}
  /\ NoNode \notin Node
  /\ MayQuit \subseteq Node
  /\ MayFail \subseteq Node

VARIABLES
  accept, quit, fatal, outstanding, injector, deque, pc, task, pub, victim,
  woken, failed, spawned, finished,    \* the scheduler's
  job,      \* the local state of each worker's task body
  evals,    \* how often each node was evaluated
  errors    \* the nodes an error was reported for

(* A task is the sequence of its pending nodes; "no task" is the empty one. *)
S == INSTANCE Scheduler WITH
       Task <- Seq(Node) \ {<<>>}, NoTask <- <<>>,
       Roots <- [i \in 1..Len(StartPaths) |-> <<StartPaths[i]>>]

schedVars == <<accept, quit, fatal, outstanding, injector, deque, pc, task, pub,
               victim, woken, failed, spawned, finished>>
vars == <<schedVars, job, evals, errors>>

Worker == S!Worker

(* stack: the pending nodes, the next one first.  items: what is left of the *)
(* listing of "at".  local, buffer, spilled: the ChunkAccumulator.  outbox:  *)
(* the chunks being published, after which the body goes on at "then".       *)
(* sawQuit: history, the body has read quit_seen as true.                    *)
NoJob == [step |-> "idle", stack |-> <<>>, at |-> NoNode, items |-> <<>>,
          local |-> <<>>, buffer |-> <<>>, spilled |-> <<>>, outbox |-> <<>>,
          then |-> "idle", sawQuit |-> FALSE]

Init ==
  /\ S!SchedInit
  /\ job = [w \in Worker |-> NoJob]
  /\ evals = [n \in Node |-> 0]
  /\ errors = {}

(* Worker w's body stands at a step, and its task may proceed. *)
At(w, step) == pc[w] = "run" /\ job[w].step = step

Update(w, j) == job' = [job EXCEPT ![w] = j]

Stopping == quit \/ fatal

-----------------------------------------------------------------------------
(* The task starts with its pending nodes on the stack. *)
StartBatch(w) ==
  /\ At(w, "idle")
  /\ Update(w, [NoJob EXCEPT !.step = "next", !.stack = task[w]])
  /\ UNCHANGED <<schedVars, evals, errors>>

(* The batch is done, or is abandoned because a stop was seen. *)
EndBatch(w) ==
  /\ At(w, "next")
  /\ job[w].stack = <<>> \/ Stopping
  /\ Update(w, NoJob)
  /\ S!TaskReturns(w, TRUE)
  /\ UNCHANGED <<evals, errors>>

(* Mutant: the failure is skipped without a report. *)
LoadNextSilently(w) ==
  /\ At(w, "next")
  /\ job[w].stack # <<>> /\ ~Stopping
  /\ LET n == Head(job[w].stack)
         popped == [job[w] EXCEPT !.stack = Tail(@)]
     IN Update(w, IF Loads(n) /\ Controlled(n)
                  THEN [popped EXCEPT !.at = n,
                          !.step = IF IsEvaluatedAt(n) THEN "eval" ELSE "descend"]
                  ELSE popped)
  /\ UNCHANGED <<schedVars, evals, errors>>

(* Pop a node and load it; a node that fails to load, or fails the -prune  *)
(* pre-pass, is reported and skipped.                                      *)
LoadNext(w) ==
  /\ At(w, "next")
  /\ job[w].stack # <<>> /\ ~Stopping
  /\ LET n == Head(job[w].stack)
         popped == [job[w] EXCEPT !.stack = Tail(@)]
     IN IF Loads(n) /\ Controlled(n)
        THEN /\ Update(w, [popped EXCEPT !.at = n,
                             !.step = IF IsEvaluatedAt(n) THEN "eval" ELSE "descend"])
             /\ UNCHANGED errors
        ELSE /\ Update(w, popped)
             /\ errors' = errors \cup {n}
  /\ UNCHANGED <<schedVars, evals>>

CountEval(w) == evals' = [evals EXCEPT ![job[w].at] = @ + 1]

EvalOk(w) ==
  /\ At(w, "eval")
  /\ CountEval(w)
  /\ Update(w, [job[w] EXCEPT !.step = "descend"])
  /\ UNCHANGED <<schedVars, errors>>

(* -quit: request_quit inside the evaluation, then break and return. *)
EvalQuits(w) ==
  /\ At(w, "eval") /\ job[w].at \in MayQuit
  /\ CountEval(w)
  /\ S!StoreQuit(w)
  /\ Update(w, [job[w] EXCEPT !.step = "leave"])
  /\ UNCHANGED errors

LeaveAfterQuit(w) ==
  /\ At(w, "leave")
  /\ Update(w, NoJob)
  /\ S!TaskReturns(w, TRUE)
  /\ UNCHANGED <<evals, errors>>

EvalFails(w) ==
  /\ At(w, "eval") /\ job[w].at \in MayFail
  /\ CountEval(w)
  /\ Update(w, NoJob)
  /\ S!TaskReturns(w, FALSE)
  /\ UNCHANGED errors

(* Not a directory to enter, or an error in finding out: next node. *)
DoNotDescend(w) == LET n == job[w].at IN
  /\ At(w, "descend") /\ DescendDecision(n) # "yes"
  /\ Update(w, [job[w] EXCEPT !.step = "next", !.at = NoNode])
  /\ errors' = IF DescendDecision(n) = "error" THEN errors \cup {n} ELSE errors
  /\ UNCHANGED <<schedVars, evals>>

(* Mutant: the pre-pass's -prune is forgotten. *)
OpenPruned(w) == LET n == job[w].at IN
  /\ At(w, "descend") /\ (DescendDecision(n) = "yes" \/ n \in Prune)
  /\ Update(w, [job[w] EXCEPT !.step = "list", !.items = Items[n]])
  /\ UNCHANGED <<schedVars, evals, errors>>

OpenDirectory(w) == LET n == job[w].at IN
  /\ At(w, "descend") /\ DescendDecision(n) = "yes"
  /\ Update(w, [job[w] EXCEPT !.step = "list", !.items = Items[n]])
  /\ UNCHANGED <<schedVars, evals, errors>>

(* visit_children(...)?: the error leaves the task body. *)
OpenFails(w) == LET n == job[w].at IN
  /\ At(w, "descend") /\ DescendDecision(n) = "yes" /\ n \in Unreadable
  /\ Update(w, NoJob)
  /\ S!TaskReturns(w, FALSE)
  /\ UNCHANGED <<evals, errors>>

-----------------------------------------------------------------------------
(* ChunkAccumulator::push *)
Accumulate(j, child, maySplit) ==
  IF ~maySplit \/ Len(j.local) < SplitThreshold
  THEN [j EXCEPT !.local = Append(@, child)]
  ELSE LET full == Append(j.buffer, child) IN
       IF Len(full) >= ChunkSize
       THEN [j EXCEPT !.buffer = <<>>, !.spilled = Append(@, full)]
       ELSE [j EXCEPT !.buffer = full]

ListBadItem(w) == LET j == job[w] IN
  /\ At(w, "list") /\ j.items # <<>> /\ Head(j.items) = BadItem
  /\ Update(w, [j EXCEPT !.items = Tail(@)])
  /\ errors' = errors \cup {j.at}
  /\ UNCHANGED <<schedVars, evals>>

(* Mutant: a failed item is taken for a child. *)
ListAnyItem(w) == LET j == job[w] IN
  /\ At(w, "list") /\ j.items # <<>>
  /\ LET k == Accumulate([j EXCEPT !.items = Tail(@)], Head(j.items), accept)
     IN Update(w, [k EXCEPT !.step = IF k.spilled = <<>> THEN "list" ELSE "spill"])
  /\ UNCHANGED <<schedVars, evals, errors>>

(* One child; the flag is read once for push and, when that spilled a chunk, *)
(* once more (SpillNow) before publishing.                                   *)
ListChild(w) == LET j == job[w] IN
  /\ At(w, "list") /\ j.items # <<>> /\ Head(j.items) # BadItem
  /\ LET k == Accumulate([j EXCEPT !.items = Tail(@)], Head(j.items), accept)
     IN Update(w, [k EXCEPT !.step = IF k.spilled = <<>> THEN "list" ELSE "spill"])
  /\ UNCHANGED <<schedVars, evals, errors>>

SpillNow(w) == LET j == job[w] IN
  /\ At(w, "spill")
  /\ Update(w, IF accept
               THEN [j EXCEPT !.step = "publish", !.outbox = j.spilled,
                              !.spilled = <<>>, !.then = "list"]
               ELSE [j EXCEPT !.step = "list"])
  /\ UNCHANGED <<schedVars, evals, errors>>

(* Mutant: the chunks that spilled before -quit was seen are kept for others. *)
ObserveNothing(j) == j

(* observe_quit keeps everything local once -quit was seen. *)
ObserveQuit(j) ==
  IF quit THEN [j EXCEPT !.local = @ \o FlattenSeq(j.spilled) \o j.buffer,
                         !.spilled = <<>>, !.buffer = <<>>]
          ELSE j

(* Mutant: a chunk that is not full is forgotten. *)
FullChunksOnly(j) == j.spilled

(* finish: the rest of the buffer is a chunk too. *)
FinishChunks(j) ==
  IF j.buffer = <<>> THEN j.spilled ELSE Append(j.spilled, j.buffer)

(* The listing is complete: publish what spilled, go on with the local nodes. *)
EndListing(w) == LET j == ObserveQuit(job[w]) IN
  /\ At(w, "list") /\ job[w].items = <<>>
  /\ Update(w, [NoJob EXCEPT !.step = "publish", !.outbox = FinishChunks(j),
                             !.then = "next", !.stack = j.local \o j.stack,
                             !.sawQuit = quit])
  /\ UNCHANGED <<schedVars, evals, errors>>

(* publish_preorder_sibling_chunks: push_local for each chunk in turn. *)
PublishChunk(w) == LET j == job[w] IN
  /\ At(w, "publish") /\ j.outbox # <<>>
  /\ S!BeginPush(w, Head(j.outbox))
  /\ Update(w, [j EXCEPT !.outbox = Tail(@)])
  /\ UNCHANGED <<evals, errors>>

PublishDone(w) == LET j == job[w] IN
  /\ At(w, "publish") /\ j.outbox = <<>>
  /\ Update(w, [j EXCEPT !.step = j.then])
  /\ UNCHANGED <<schedVars, evals, errors>>

-----------------------------------------------------------------------------
TaskStep(w) ==
  \/ StartBatch(w) \/ EndBatch(w) \/ LoadNext(w)
  \/ EvalOk(w) \/ EvalQuits(w) \/ LeaveAfterQuit(w) \/ EvalFails(w)
  \/ DoNotDescend(w) \/ OpenDirectory(w) \/ OpenFails(w)
  \/ ListBadItem(w) \/ ListChild(w) \/ SpillNow(w) \/ EndListing(w)
  \/ PublishChunk(w) \/ PublishDone(w)

LoopStep(w) == S!WorkerLoop(w) /\ UNCHANGED <<job, evals, errors>>

Next ==
  \/ \E w \in Worker : LoopStep(w) \/ TaskStep(w)
  \/ S!AllReturned /\ UNCHANGED vars

Fairness == \A w \in Worker :
  /\ WF_vars(LoopStep(w))
  /\ WF_vars(TaskStep(w))
  /\ SF_vars(S!StealInjector(w) /\ UNCHANGED <<job, evals, errors>>)
  /\ SF_vars(S!StealPeer(w) /\ UNCHANGED <<job, evals, errors>>)

Spec == Init /\ [][Next]_vars /\ Fairness

-----------------------------------------------------------------------------
(* Properties *)

TypeOK ==
  /\ S!TypeOK
  /\ job \in [Worker -> [step : {"idle", "next", "eval", "descend", "list",
                                 "spill", "publish", "leave"},
                         stack : Seq(Node), at : Node \cup {NoNode},
                         items : Seq(Node \cup {BadItem}), local : Seq(Node),
                         buffer : Seq(Node), spilled : Seq(Seq(Node)),
                         outbox : Seq(Seq(Node)), then : {"idle", "list", "next"},
                         sawQuit : BOOLEAN]]
  /\ evals \in [Node -> Nat]
  /\ errors \subseteq Node

(* How the walk looks from outside. *)
Verdict ==
  IF ~S!AllReturned THEN "running"
  ELSE IF \E w \in Worker : pc[w] = "dead" THEN "failed"
  ELSE IF quit THEN "stopped" ELSE "complete"

(* The nodes that may end the walk with an error. *)
FatalNodes ==
  (MayFail \cap PreOrderEntries) \cup {n \in Unreadable \cap Node : Reached[n] /\ Opens(n)}

(* Pre-order: an entry comes after all its ancestors. *)
ParentsBefore == [n \in PreOrderEntries |-> Ancestors[n] \cap PreOrderEntries]

Abstract == INSTANCE Traversal WITH
  Entry <- PreOrderEntries, Before <- ParentsBefore, verdict <- Verdict,
  evals <- [n \in PreOrderEntries |-> evals[n]],
  MayQuit <- MayQuit \cap PreOrderEntries, MayFail <- FatalNodes

(* The engine implements the promise of Traversal.tla: whatever the workers *)
(* steal from each other, every entry is evaluated exactly once, after its  *)
(* ancestors, unless -quit, a failed evaluation or an unreadable directory  *)
(* stops the walk; and the walk ends.                                       *)
ImplementsTraversal == Abstract!TravSpec

(* Nothing that must not be evaluated is: entries above -mindepth, below a  *)
(* pruned, unreadable or looping directory, or on another file system.      *)
OnlyEntriesEvaluated == \A n \in Node : evals[n] > 0 => n \in PreOrderEntries

(* README.md:61: no new subtree tasks are published after -quit is observed. *)
(* A worker that has seen the flag gives no chunk away any more, although    *)
(* the other flag, which push_local reads, may still be up.                  *)
NoPublishAfterQuitSeen ==
  \A w \in Worker : job[w].sawQuit => pc[w] \notin {"count", "push"}

(* A walk fails only because an evaluation failed: an unreadable directory   *)
(* is reported and the walk goes on, as in the other engine and in GNU find. *)
OnlyEvaluationsAreFatal ==
  Verdict = "failed" => \E n \in MayFail : evals[n] > 0

(* The reached nodes that could not be loaded, checked, identified, entered, *)
(* or listed to the end.                                                     *)
FaultyNodes ==
  {n \in Node : /\ Reached[n]
                /\ \/ ~Loads(n) \/ ~Controlled(n)
                   \/ DescendDecision(n) = "error"
                   \/ Opens(n) /\ BadItem \in RangeOf(Items[n])}

(* When every worker returned, nobody failed and nobody quit, an error was   *)
(* reported for each of these nodes and for no other.                        *)
EveryFailureReported == Verdict = "complete" => errors = FaultyNodes
=============================================================================
