--------------------------- MODULE OrderedEngine ---------------------------
(***************************************************************************)
(* The ordered engine: the stack walk of src/src/walker.rs                 *)
(* (walk_ordered_with_backend) driving either run_ordered_inline or        *)
(* run_ordered_pipeline of src/src/ordered/engine.rs.                      *)
(*                                                                         *)
(* Inline, the walking thread evaluates each entry as it finds it.  In the *)
(* pipeline it numbers the entries and hands them to evaluator threads;    *)
(* after the walk it performs the actions of the evaluated entries in the  *)
(* order of their numbers, whatever order they come back in.               *)
(***************************************************************************)
EXTENDS WalkTree, SequencesExt

CONSTANTS
  PostOrder,     \* TraversalOrder::DepthFirstPostOrder
  Inline,        \* contains_commit_sensitive_action
  NEvaluators,   \* ordered_evaluator_workers
  MayQuit,       \* nodes whose evaluation may execute -quit
  MayFail        \* nodes whose evaluation may return Err

ASSUME OrderedAssumption ==
  /\ PostOrder \in BOOLEAN /\ Inline \in BOOLEAN
  /\ NEvaluators \in Nat \ {0}
  /\ MayQuit \subseteq Node /\ (Inline \/ MayQuit = {})
  /\ MayFail \subseteq Node

Evaluator == 1..NEvaluators

VARIABLES
  main,     \* where the main thread is
  stack,    \* its OrderedFrames, the next one first
  work,     \* work channel: <<sequence, node>>
  workOpen, \* work_tx has not been dropped
  nextSeq,  \* the number of the next entry handed out
  evaluator,\* what each evaluator is doing
  ready,    \* ready channel: <<sequence, node, ok>>
  readyOpen,\* ready_rx has not been dropped
  buffered, \* OrderedReadyQueue.buffered
  nextReady,\* OrderedReadyQueue.next_sequence
  commits,  \* the nodes whose actions were performed, in order
  quit,     \* the walk was stopped by -quit
  errors    \* the nodes an error was reported for

walkVars == <<stack, errors, quit>>
pipeVars == <<work, workOpen, nextSeq, evaluator, ready, readyOpen>>
queueVars == <<buffered, nextReady>>
vars == <<main, stack, work, workOpen, nextSeq, evaluator, ready, readyOpen,
          buffered, nextReady, commits, quit, errors>>

Visit(n) == [node |-> n, complete |-> FALSE]
Complete(n) == [node |-> n, complete |-> TRUE]
Frame == [node : Node, complete : BOOLEAN]

(* What an evaluator holds: nothing, <<sequence, node>>, or it has returned. *)
Idle == <<"idle">>
Gone == <<"gone">>
Holding == {e \in Evaluator : evaluator[e] \notin {Idle, Gone}}

Init ==
  /\ main = "walk"
  /\ stack = [i \in 1..Len(StartPaths) |-> Visit(StartPaths[i])]
  /\ work = <<>> /\ workOpen = TRUE /\ nextSeq = 0
  /\ evaluator = [e \in Evaluator |-> IF Inline THEN Gone ELSE Idle]
  /\ ready = <<>> /\ readyOpen = TRUE
  /\ buffered = {} /\ nextReady = 0
  /\ commits = <<>> /\ quit = FALSE /\ errors = {}

-----------------------------------------------------------------------------
(* The consumer of the walk's events: what "emit" does with an entry, after  *)
(* which the walk goes on at "then".                                         *)

(* run_ordered_inline evaluates at once; -quit stops the walk. *)
EvaluateInline(n, then) ==
  /\ commits' = Append(commits, n)
  /\ \/ main' = then /\ UNCHANGED quit
     \/ n \in MayQuit /\ main' = "flush" /\ quit' = TRUE
     \/ n \in MayFail /\ main' = "failed" /\ UNCHANGED quit
  /\ UNCHANGED <<work, nextSeq>>

(* run_ordered_pipeline numbers it and sends it to the evaluators. *)
SendToEvaluators(n, then) ==
  /\ work' = Append(work, <<nextSeq, n>>)
  /\ nextSeq' = nextSeq + 1
  /\ main' = then
  /\ UNCHANGED <<commits, quit>>

NoEmit == UNCHANGED <<work, nextSeq, commits, quit>>

EmitEntry(n, then) ==
  IF ~IsEvaluatedAt(n) THEN main' = then /\ NoEmit
  ELSE IF Inline THEN EvaluateInline(n, then) ELSE SendToEvaluators(n, then)

-----------------------------------------------------------------------------
(* walk_ordered_with_backend: one frame at a time. *)

Top == Head(stack)
(* Mutant: the identity is not asked for. *)
FailsToLoad(n) == ~Loads(n) \/ ~Controlled(n)

Fails(n) == ~Loads(n) \/ ~Controlled(n) \/ n \in Opaque

(* A directory whose children have all been walked. *)
PopComplete ==
  /\ main = "walk" /\ stack # <<>> /\ Top.complete
  /\ EmitEntry(Top.node, "walk")
  /\ stack' = Tail(stack)
  /\ UNCHANGED <<workOpen, evaluator, ready, readyOpen, queueVars, errors>>

(* Mutant: skipped without a report. *)
SkipFailing ==
  /\ main = "walk" /\ stack # <<>> /\ ~Top.complete /\ Fails(Top.node)
  /\ stack' = Tail(stack)
  /\ NoEmit
  /\ UNCHANGED <<main, workOpen, evaluator, ready, readyOpen, queueVars, errors>>

(* An entry that cannot be loaded, checked or identified: report, go on. *)
PopFailing ==
  /\ main = "walk" /\ stack # <<>> /\ ~Top.complete /\ Fails(Top.node)
  /\ errors' = errors \cup {Top.node}
  /\ stack' = Tail(stack)
  /\ NoEmit
  /\ UNCHANGED <<main, workOpen, evaluator, ready, readyOpen, queueVars>>

(* Pre-order emits every entry first, post-order only what is no directory. *)
EmittedFirst(n) == ~PostOrder \/ n \notin Dir

VisitEntry ==
  /\ main = "walk" /\ stack # <<>> /\ ~Top.complete /\ ~Fails(Top.node)
  /\ IF EmittedFirst(Top.node) THEN EmitEntry(Top.node, "emitted")
     ELSE main' = "emitted" /\ NoEmit
  /\ UNCHANGED <<stack, workOpen, evaluator, ready, readyOpen, queueVars, errors>>

(* The rest of the loop body works on the frame that was just emitted.       *)
Descending == main = "emitted" /\ stack # <<>> /\ ~Top.complete

(* Mutant: a directory that is not entered never completes. *)
LeaveWithoutCompleting(reported) ==
  /\ stack' = Tail(stack)
  /\ errors' = errors \cup reported
  /\ main' = "walk"

(* In post-order a directory that is not entered completes at once: its      *)
(* Complete frame takes its place on the stack.                              *)
LeaveEntry(reported) == LET n == Top.node IN
  /\ stack' = (IF PostOrder /\ n \in Dir THEN <<Complete(n)>> ELSE <<>>) \o Tail(stack)
  /\ errors' = errors \cup reported
  /\ main' = "walk"

DoNotDescend ==
  /\ Descending /\ DescendDecision(Top.node) = "no"
  /\ LeaveEntry({})
  /\ NoEmit /\ UNCHANGED <<workOpen, evaluator, ready, readyOpen, queueVars>>

(* A loop is only reported; the directory does not complete. *)
RefuseLoop ==
  /\ Descending /\ DescendDecision(Top.node) = "error"
  /\ stack' = Tail(stack)
  /\ errors' = errors \cup {Top.node}
  /\ main' = "walk"
  /\ NoEmit /\ UNCHANGED <<workOpen, evaluator, ready, readyOpen, queueVars>>

ReadFails ==
  /\ Descending /\ DescendDecision(Top.node) = "yes" /\ Top.node \in Unreadable
  /\ LeaveEntry({Top.node})
  /\ NoEmit /\ UNCHANGED <<workOpen, evaluator, ready, readyOpen, queueVars>>

(* Mutant: failed items are pushed like children. *)
AllItems(n) == Items[n]

(* read_children: the children in the order they are listed. *)
GoodItems(n) ==
  LET good[k \in 0..Len(Items[n])] ==
        IF k = 0 THEN <<>>
        ELSE IF Items[n][k] = BadItem THEN good[k - 1]
        ELSE Append(good[k - 1], Items[n][k])
  IN good[Len(Items[n])]

Reports(n) == IF BadItem \in RangeOf(Items[n]) THEN {n} ELSE {}

(* Mutant: the Complete frame is pushed after the children. *)
DescendAfterCompleting == LET n == Top.node
                              kids == [i \in 1..Len(GoodItems(n)) |-> Visit(GoodItems(n)[i])]
                              own == IF PostOrder THEN <<Complete(n)>> ELSE <<>> IN
  /\ Descending /\ DescendDecision(n) = "yes"
  /\ stack' = own \o kids \o Tail(stack)
  /\ errors' = errors \cup Reports(n)
  /\ main' = "walk"
  /\ NoEmit /\ UNCHANGED <<workOpen, evaluator, ready, readyOpen, queueVars>>

Descend == LET n == Top.node
               kids == [i \in 1..Len(GoodItems(n)) |-> Visit(GoodItems(n)[i])]
               own == IF PostOrder THEN <<Complete(n)>> ELSE <<>> IN
  /\ Descending /\ DescendDecision(n) = "yes"
  /\ stack' = kids \o own \o Tail(stack)
  /\ errors' = errors \cup Reports(n)
  /\ main' = "walk"
  /\ NoEmit /\ UNCHANGED <<workOpen, evaluator, ready, readyOpen, queueVars>>

EndWalk ==
  /\ main = "walk" /\ stack = <<>>
  /\ main' = IF Inline THEN "flush" ELSE "drain"
  /\ workOpen' = FALSE
  /\ UNCHANGED <<walkVars, work, nextSeq, evaluator, ready, readyOpen, queueVars, commits>>

-----------------------------------------------------------------------------
(* The evaluator threads. *)

Receive(e) ==
  /\ evaluator[e] = Idle /\ work # <<>>
  /\ evaluator' = [evaluator EXCEPT ![e] = Head(work)]
  /\ work' = Tail(work)
  /\ UNCHANGED <<main, walkVars, workOpen, nextSeq, ready, readyOpen, queueVars, commits>>

(* begin_entry_eval, then send its result. *)
Deliver(e) == \E ok \in BOOLEAN :
  /\ e \in Holding /\ readyOpen
  /\ ok \/ evaluator[e][2] \in MayFail
  /\ ready' = Append(ready, <<evaluator[e][1], evaluator[e][2], ok>>)
  /\ evaluator' = [evaluator EXCEPT ![e] = Idle]
  /\ UNCHANGED <<main, walkVars, work, workOpen, nextSeq, readyOpen, queueVars, commits>>

(* The channel the evaluator waits for, or sends to, has been dropped. *)
Leave(e) ==
  /\ \/ evaluator[e] = Idle /\ work = <<>> /\ ~workOpen
     \/ e \in Holding /\ ~readyOpen
  /\ evaluator' = [evaluator EXCEPT ![e] = Gone]
  /\ UNCHANGED <<main, walkVars, work, workOpen, nextSeq, ready, readyOpen, queueVars, commits>>

AllGone == \A e \in Evaluator : evaluator[e] = Gone

-----------------------------------------------------------------------------
(* The main thread commits in order. *)

(* Mutant: the queue has room for one result. *)
CollectOne ==
  /\ main = "drain" /\ ready # <<>>
  /\ buffered' = {Head(ready)}
  /\ ready' = Tail(ready)
  /\ main' = "commit"
  /\ UNCHANGED <<walkVars, work, workOpen, nextSeq, evaluator, readyOpen, nextReady, commits>>

Collect ==
  /\ main = "drain" /\ ready # <<>>
  /\ buffered' = buffered \cup {Head(ready)}
  /\ ready' = Tail(ready)
  /\ main' = "commit"
  /\ UNCHANGED <<walkVars, work, workOpen, nextSeq, evaluator, readyOpen, nextReady, commits>>

(* Mutant: results are committed as they come. *)
CommitAny == \E item \in buffered :
  /\ main = "commit"
  /\ buffered' = buffered \ {item}
  /\ nextReady' = nextReady + 1
  /\ commits' = Append(commits, item[2])
  /\ \/ item[3] /\ UNCHANGED main
     \/ item[2] \in MayFail /\ main' = "failed"
  /\ UNCHANGED <<walkVars, pipeVars>>

(* pop_next, then the entry's actions; an evaluation that failed, or fails   *)
(* in an action, ends the run.                                               *)
CommitNext == \E item \in buffered :
  /\ main = "commit" /\ item[1] = nextReady
  /\ buffered' = buffered \ {item}
  /\ nextReady' = nextReady + 1
  /\ commits' = Append(commits, item[2])
  /\ \/ item[3] /\ UNCHANGED main
     \/ item[2] \in MayFail /\ main' = "failed"
  /\ UNCHANGED <<walkVars, pipeVars>>

NothingNext ==
  /\ main = "commit" /\ \A item \in buffered : item[1] # nextReady
  /\ main' = "drain"
  /\ UNCHANGED <<walkVars, pipeVars, queueVars, commits>>

EndDrain ==
  /\ main = "drain" /\ ready = <<>> /\ AllGone
  /\ main' = "flush"
  /\ UNCHANGED <<walkVars, pipeVars, queueVars, commits>>

Finish ==
  /\ main = "flush"
  /\ main' = "done"
  /\ UNCHANGED <<walkVars, pipeVars, queueVars, commits>>

(* An early return drops both channels; the scope still joins the threads.   *)
DropChannels ==
  /\ main = "failed"
  /\ main' = "unwind"
  /\ workOpen' = FALSE /\ readyOpen' = FALSE
  /\ ready' = <<>>
  /\ UNCHANGED <<walkVars, work, nextSeq, evaluator, queueVars, commits>>

JoinAndFail ==
  /\ main = "unwind" /\ AllGone
  /\ main' = "error"
  /\ UNCHANGED <<walkVars, pipeVars, queueVars, commits>>

-----------------------------------------------------------------------------
Ended == main \in {"done", "error"}

MainStep ==
  \/ PopComplete \/ PopFailing \/ VisitEntry
  \/ DoNotDescend \/ RefuseLoop \/ ReadFails \/ Descend \/ EndWalk
  \/ Collect \/ CommitNext \/ NothingNext \/ EndDrain \/ Finish
  \/ DropChannels \/ JoinAndFail

EvaluatorStep(e) == Receive(e) \/ Deliver(e) \/ Leave(e)

Next ==
  \/ MainStep
  \/ \E e \in Evaluator : EvaluatorStep(e)
  \/ Ended /\ UNCHANGED vars

(* Every thread keeps running. *)
Fairness == WF_vars(MainStep) /\ \A e \in Evaluator : WF_vars(EvaluatorStep(e))

Spec == Init /\ [][Next]_vars /\ Fairness

-----------------------------------------------------------------------------
(* Properties *)

Item == {<<s, n>> : s \in 0..nextSeq, n \in Node}
Result == {<<s, n, ok>> : s \in 0..nextSeq, n \in Node, ok \in BOOLEAN}

TypeOK ==
  /\ main \in {"walk", "emitted", "flush", "drain", "commit", "failed", "unwind", "done", "error"}
  /\ stack \in Seq(Frame)
  /\ work \in Seq(Item) /\ workOpen \in BOOLEAN /\ nextSeq \in Nat
  /\ evaluator \in [Evaluator -> Item \cup {Idle, Gone}]
  /\ ready \in Seq(Result) /\ readyOpen \in BOOLEAN
  /\ buffered \subseteq Result /\ nextReady \in 0..nextSeq
  /\ commits \in Seq(Node) /\ quit \in BOOLEAN /\ errors \subseteq Node

(* What the ordered engine evaluates: what a parallel run of the same command *)
(* does (ImplementsTraversal of the parallel engines), but for the entries    *)
(* whose identity cannot be read, which only pre-order parallel evaluates.    *)
Entries == IF PostOrder THEN PostOrderEntries ELSE PreOrderEntries \ Opaque

(* The order of the sequential walk: what is given, or listed, earlier comes  *)
(* first with all it holds; a directory comes before, or in depth mode after, *)
(* what it holds.                                                             *)
WayTo(n) == Ancestors[n] \cup {n}

ListedBefore(s, c, d) == \E i, k \in 1..Len(s) : i < k /\ s[i] = c /\ s[k] = d

Earlier(c, d) ==
  ListedBefore(StartPaths, c, d) \/ \E p \in Node : ListedBefore(Items[p], c, d)

Precedes(m, n) ==
  \/ \E c \in WayTo(m), d \in WayTo(n) : Earlier(c, d)
  \/ IF PostOrder THEN n \in Ancestors[m] ELSE m \in Ancestors[n]

Predecessors == [n \in Entries |-> {m \in Entries : Precedes(m, n)}]

Verdict ==
  IF main = "done" THEN (IF quit THEN "stopped" ELSE "complete")
  ELSE IF main = "error" THEN "failed" ELSE "running"

Abstract == INSTANCE Traversal WITH
  Entry <- Entries,
  Before <- Predecessors,
  verdict <- Verdict,
  evals <- [n \in Entries |-> Cardinality({i \in 1..Len(commits) : commits[i] = n})],
  MayQuit <- MayQuit \cap Entries,
  MayFail <- MayFail \cap Entries

(* README.md:166, "keeps traversal/output close to GNU ordering": the actions *)
(* of the entries are performed once each and in the order of the sequential  *)
(* walk, although evaluators finish in any order; without -quit or a failure  *)
(* all of them are; and the run ends, its threads joined.                     *)
ImplementsOrderedTraversal == Abstract!TravSpec

(* A complete ordered run has evaluated the entries that a parallel run of    *)
(* the same command evaluates, and nothing else.                              *)
SameEntriesAsParallel == Verdict = "complete" => RangeOf(commits) = Entries

(* Numbers are neither lost nor used twice between the walk and the commits.  *)
InFlight ==
  {work[i][1] : i \in 1..Len(work)} \cup {ready[i][1] : i \in 1..Len(ready)}
    \cup {evaluator[e][1] : e \in Holding}
    \cup {item[1] : item \in buffered}

EveryNumberInFlight ==
  (~Inline /\ main \notin {"failed", "unwind", "error"}) =>
    InFlight = nextReady..(nextSeq - 1)

(* The reached nodes that could not be loaded, checked, identified, entered,  *)
(* or listed to the end.                                                      *)
FaultyNodes ==
  {n \in Node : /\ Reached[n]
                /\ \/ Fails(n) \/ DescendDecision(n) = "error"
                   \/ Opens(n) /\ BadItem \in RangeOf(Items[n])}

(* When the walk ended well, an error was reported for each of these nodes,   *)
(* and for no other but directories that could not be opened.                 *)
EveryFailureReported ==
  Verdict = "complete" =>
    /\ FaultyNodes \subseteq errors
    /\ errors \subseteq FaultyNodes \cup {n \in Unreadable : Reached[n] /\ Opens(n)}
=============================================================================
