--------------------------- MODULE PostOrderProofs ---------------------------
(***************************************************************************)
(* Proofs about PostOrderEngine, for every tree, every number of workers   *)
(* and every size of a chunk.                                              *)
(***************************************************************************)
EXTENDS PostOrderEngine, WalkTreeProofs, FiniteSetTheorems

(* What is proved about the scheduler, for the engine's tasks. *)
RootTasks == [i \in 1..Len(StartPaths) |-> ChunkTask(<<StartPaths[i]>>, NoBarrier)]

SP == INSTANCE SchedulerProofs WITH Task <- EngineTask, Roots <- RootTasks

-----------------------------------------------------------------------------
(* What the queues, the workers and the table hold                         *)

(* The nodes a walk gets to, and what is made of them. *)
Walked == {n \in Node : Reached[n]}
Chunk == Seq(Walked) \ {<<>>}

(* A resume task carries a directory that was listed. *)
WalkTask == {t \in [nodes : Chunk, barrier : Barrier, resume : BOOLEAN] :
               t.resume => Visit(t.nodes[1]) = "list"}

WalkFrame == [kind : {"batch"}, nodes : Seq(Walked), barrier : Barrier, chunks : {<<>>}]
               \cup [kind : {"dir"}, nodes : {<<>>}, barrier : Barrier, chunks : Seq(Chunk)]

WalkJob ==
  [step : {"idle", "next", "open", "list", "publish", "eval", "leave", "notify", "release"},
   frames : Seq(WalkFrame), at : Node \cup {NoNode}, notify : Barrier,
   items : Seq(Node \cup {BadItem}), local : Seq(Walked), buffer : Seq(Walked),
   spilled : Seq(Chunk), resume : BOOLEAN, sawQuit : BOOLEAN]

(* The node a body is at has passed what comes before the step it is at. *)
AtNode(j) ==
  /\ j.step \in {"open", "list", "eval", "release"} => j.at \in Walked /\ Visit(j.at) # "error"
  /\ j.step \in {"open", "list", "release"} => Visit(j.at) = "list"
  /\ j.step \in {"open", "list"} => j.items \in Seq(Walked \cup {BadItem})
  /\ j.step = "eval" => IsEvaluatedAt(j.at)
  /\ j.step = "publish" => j.frames # <<>> /\ Head(j.frames).kind = "dir"
  /\ j.step = "idle" => j = NoJob

JobFits(j) == j \in WalkJob /\ AtNode(j)
JobsFit == job \in [Worker -> WalkJob] /\ \A w \in Worker : AtNode(job[w])

QueuesFit ==
  /\ injector \in Seq(WalkTask)
  /\ deque \in [Worker -> Seq(WalkTask)]
  /\ \A w \in Worker :
       /\ pc[w] \in {"got", "run", "count", "push", "quit", "finish"} => task[w] \in WalkTask
       /\ pc[w] \in {"count", "push"} => pub[w] \in WalkTask

WalkRecord ==
  {r \in [entry : Walked \cup {NoNode}, remaining : Nat \ {0}, parent : Barrier] :
     r.entry # NoNode => Visit(r.entry) = "list"}

TableFits ==
  /\ nextBarrier \in Nat \ {0}
  /\ DOMAIN barriers \subseteq 1..(nextBarrier - 1)
  /\ \A b \in DOMAIN barriers : barriers[b] \in WalkRecord

-----------------------------------------------------------------------------
(* The engine is the scheduler                                             *)

LEMMA WalkTasksAreTasks == WalkTask \subseteq EngineTask
<1>1. Seq(Walked) \subseteq Seq(Node)
  BY SeqMonotonic DEF Walked
<1> QED
  BY <1>1 DEF WalkTask, EngineTask, Chunk

(* The root tasks hold one start path each. *)
LEMMA RootsAreTasks ==
  /\ NWorkers \in Nat \ {0}
  /\ NoTask \notin EngineTask
  /\ RootTasks \in Seq(WalkTask) /\ RootTasks \in Seq(EngineTask)
<1>1. StartPaths \in Seq(Node)
  BY WalkTreeAssumption
<1>2. Len(StartPaths) \in Nat /\ \A i \in 1..Len(StartPaths) : StartPaths[i] \in Walked
  <2>1. Root \subseteq Walked
    BY RootsAreNodes, ReachedIs DEF Walked
  <2> QED
    BY <1>1, <2>1 DEF Root, RangeOf
<1>3. \A i \in 1..Len(StartPaths) : <<StartPaths[i]>> \in Chunk
  BY <1>2 DEF Chunk
<1>4. \A i \in 1..Len(StartPaths) : ChunkTask(<<StartPaths[i]>>, NoBarrier) \in WalkTask
  BY <1>3 DEF ChunkTask, WalkTask, NoBarrier, Barrier
<1>5. RootTasks \in Seq(WalkTask)
  BY <1>2, <1>4 DEF RootTasks
<1> QED
  BY ZenonT(120), <1>5, WalkTasksAreTasks, SeqMonotonic, PostOrderAssumption DEF EngineTask, Barrier

LEMMA SameLoop == \A w : S!WorkerLoop(w) <=> SP!WorkerLoop(w)
BY DEF S!PopLocal, SP!PopLocal, S!LocalEmpty, SP!LocalEmpty, S!StealInjector, SP!StealInjector, S!InjectorMissed, SP!InjectorMissed, S!StealPeer, SP!StealPeer, S!PeerMissed, SP!PeerMissed, S!NothingFound, SP!NothingFound, S!LeaveLoop, SP!LeaveLoop, S!GoToSleep, SP!GoToSleep, S!StartWait, SP!StartWait, S!Notified, SP!Notified, S!TimesOut, SP!TimesOut, S!Admit, SP!Admit, S!TaskFinished, SP!TaskFinished, S!NotifyAtZero, SP!NotifyAtZero, S!StoreFatal, SP!StoreFatal, S!StopAfterFatal, SP!StopAfterFatal, S!Die, SP!Die, S!FlushAndReport, SP!FlushAndReport, S!CountTask, SP!CountTask, S!PushTask, SP!PushTask, S!StopAfterQuit, SP!StopAfterQuit, S!NotifySleepers, SP!NotifySleepers, S!Worker, SP!Worker, S!Goto, SP!Goto, S!control, SP!control, S!queues, SP!queues, S!history, SP!history, S!WorkerLoop, SP!WorkerLoop

-----------------------------------------------------------------------------
(* Every step of a task body leaves a job and a table of the types above   *)

LEMMA NoJobFits == JobFits(NoJob)
BY DEF NoJob, JobFits, WalkJob, AtNode, NoBarrier, Barrier

LEMMA VisitIs ==
  ASSUME NEW n
  PROVE  /\ Visit(n) \in {"error", "complete", "list"}
         /\ Visit(n) = "error" <=>
              \/ ~Loads(n) \/ ~Controlled(n) \/ n \in Opaque
              \/ n \in Dir /\ DescendDecision(n) = "error"
         /\ Visit(n) = "list" <=> Opens(n)
<1>1. DescendDecision(n) \in {"no", "error", "yes"}
  BY DEF DescendDecision
<1>2. DescendDecision(n) = "yes" => n \in Dir /\ n \notin Opaque
  BY DEF DescendDecision
<1> QED
  BY <1>1, <1>2 DEF Visit, Opens

(* The children of a directory that is listed are walked. *)
LEMMA ListedChildren ==
  ASSUME NEW n \in Walked, Visit(n) = "list"
  PROVE  Items[n] \in Seq(Walked \cup {BadItem})
<1>1. n \in Node /\ Reached[n] /\ Opens(n)
  BY VisitIs DEF Walked
<1>2. Children(n) \subseteq Walked
  <2> SUFFICES ASSUME NEW c \in Children(n) PROVE c \in Walked
    OBVIOUS
  <2>1. c \in Node \ Root /\ Parent(c) = n
    BY <1>1, ParentOfChild
  <2> QED
    BY <1>1, <2>1, ReachedIs DEF Walked
<1>3. Items[n] \in Seq(Node \cup {BadItem})
  BY <1>1, WalkTreeAssumption
<1>4. \A i \in 1..Len(Items[n]) : Items[n][i] \in Walked \cup {BadItem}
  BY <1>2 DEF Children, RangeOf
<1> QED
  BY <1>3, <1>4

(* Splitting the children keeps the types. *)
LEMMA AccumulateFits ==
  ASSUME NEW j \in WalkJob, NEW child \in Walked, NEW maySplit
  PROVE  LET k == Accumulate(j, child, maySplit) IN
         /\ k \in WalkJob
         /\ k.step = j.step /\ k.frames = j.frames /\ k.at = j.at /\ k.notify = j.notify
         /\ k.items = j.items /\ k.resume = j.resume /\ k.sawQuit = j.sawQuit
<1>0. j.local \in Seq(Walked) /\ j.buffer \in Seq(Walked) /\ j.spilled \in Seq(Chunk)
  BY DEF WalkJob
<1>1. Append(j.local, child) \in Seq(Walked) /\ Append(j.buffer, child) \in Chunk
  BY <1>0, AppendProperties DEF Chunk
<1>2. Append(j.spilled, Append(j.buffer, child)) \in Seq(Chunk)
  BY <1>0, <1>1, AppendProperties
<1>3. <<>> \in Seq(Walked)
  OBVIOUS
<1> QED
  BY <1>1, <1>2, <1>3 DEF Accumulate, WalkJob, Chunk

LEMMA FinishedChunks ==
  ASSUME NEW j \in WalkJob
  PROVE  FinishChunks(j) \in Seq(Chunk)
<1>1. j.buffer \in Seq(Walked) /\ j.spilled \in Seq(Chunk)
  BY DEF WalkJob
<1>2. j.buffer # <<>> => Append(j.spilled, j.buffer) \in Seq(Chunk)
  BY <1>1, AppendProperties DEF Chunk
<1> QED
  BY <1>1, <1>2 DEF FinishChunks

(* One more call. *)
LEMMA CallAdded ==
  ASSUME NEW f \in WalkFrame, NEW s \in Seq(WalkFrame)
  PROVE  <<f>> \o s \in Seq(WalkFrame) /\ <<f>> \o s # <<>>
<1>1. <<f>> \in Seq(WalkFrame) /\ Len(<<f>>) = 1
  OBVIOUS
<1>2. <<f>> \o s \in Seq(WalkFrame) /\ Len(<<f>> \o s) = 1 + Len(s) /\ Len(s) \in Nat
  BY <1>1, ConcatProperties, LenProperties
<1> QED
  BY <1>2, EmptySeq

LEMMA BatchFits ==
  ASSUME NEW nodes \in Seq(Walked), NEW b \in Barrier, NEW id \in Barrier
  PROVE  BatchFor(nodes, b, id) \in WalkFrame
BY DEF BatchFor, BatchFrame, WalkFrame

LEMMA BatchTableFits ==
  ASSUME NEW nodes \in Seq(Walked), NEW b \in Barrier, NEW id \in Nat \ {0}, NEW table,
         DOMAIN table \subseteq 1..(id - 1), \A c \in DOMAIN table : table[c] \in WalkRecord
  PROVE  LET t == AddBatch(table, nodes, b, id) IN
         /\ DOMAIN t \subseteq 1..(id + IdsUsed(nodes, b) - 1)
         /\ \A c \in DOMAIN t : t[c] \in WalkRecord
<1>1. Len(nodes) \in Nat
  BY LenProperties
<1>2. CASE NeedsBatch(nodes, b)
  <2> DEFINE t == Insert(table, id, BatchRecord(Len(nodes), b))
  <2>1. DOMAIN t = {id} \cup DOMAIN table
        /\ \A c \in DOMAIN t : t[c] = IF c = id THEN BatchRecord(Len(nodes), b) ELSE table[c]
    BY DEF Insert
  <2>2. BatchRecord(Len(nodes), b) \in WalkRecord
    BY <1>1, <1>2 DEF NeedsBatch, BatchRecord, WalkRecord
  <2> QED
    BY <1>2, <2>1, <2>2 DEF AddBatch, IdsUsed
<1>3. CASE ~NeedsBatch(nodes, b)
  BY <1>3 DEF AddBatch, IdsUsed
<1> QED
  BY <1>2, <1>3

(* What a step of w's task body makes of its local state. *)
LEMMA TaskStepFits ==
  ASSUME NEW w \in Worker, TaskStep(w), JobsFit, QueuesFit, TableFits
  PROVE  \E j : JobFits(j) /\ Update(w, j)
<1> DEFINE j0 == job[w]
           s0 == j0.frames
<1>0. j0 \in WalkJob /\ AtNode(j0)
  BY DEF JobsFit
<1>a. /\ s0 \in Seq(WalkFrame) /\ j0.items \in Seq(Node \cup {BadItem})
      /\ j0.local \in Seq(Walked) /\ j0.notify \in Barrier
      /\ j0.resume \in BOOLEAN /\ j0.sawQuit \in BOOLEAN
  BY <1>0 DEF WalkJob
<1>b. /\ s0 # <<>> => Head(s0) \in WalkFrame /\ Tail(s0) \in Seq(WalkFrame)
      /\ <<>> \in Seq(WalkFrame) /\ <<>> \in Seq(Walked) /\ <<>> \in Seq(Chunk)
      /\ <<>> \in Seq(Node \cup {BadItem})
  BY <1>a, HeadTailProperties
<1>1. CASE StartChunk(w)
  <2>1. task[w].nodes \in Seq(Walked) /\ task[w].barrier \in Barrier
    BY <1>1 DEF StartChunk, At, QueuesFit, WalkTask, Chunk
  <2> DEFINE f == BatchFor(task[w].nodes, task[w].barrier, nextBarrier)
             j == [NoJob EXCEPT !.step = "next", !.frames = <<f>>]
  <2>2. f \in WalkFrame
    BY <2>1, BatchFits DEF TableFits, Barrier
  <2> HIDE DEF f
  <2>3. JobFits(j)
    <3>1. <<f>> \in Seq(WalkFrame)
      BY <2>2
    <3> QED
      BY <3>1, NoJobFits DEF NoJob, JobFits, WalkJob, AtNode
  <2> QED
    BY <1>1, <2>3 DEF StartChunk, f
<1>2. CASE StartResume(w)
  <2> DEFINE n == task[w].nodes[1]
             j(s) == [NoJob EXCEPT !.step = s, !.at = n, !.notify = task[w].barrier,
                                   !.resume = TRUE]
  <2>1. task[w] \in WalkTask /\ task[w].resume
    BY <1>2 DEF StartResume, At, QueuesFit
  <2>2. n \in Walked /\ task[w].barrier \in Barrier /\ Visit(n) = "list"
    BY <2>1, EmptySeq DEF WalkTask, Chunk
  <2>3. (IsEvaluatedAt(n) => JobFits(j("eval"))) /\ JobFits(j("notify"))
    BY <2>2, NoJobFits DEF NoJob, JobFits, WalkJob, AtNode, Walked
  <2> QED
    BY <1>2, <2>3 DEF StartResume
<1>3. CASE EndTask(w) \/ LeaveAfterQuit(w) \/ EvalFails(w)
  BY <1>3, NoJobFits DEF EndTask, LeaveAfterQuit, EvalFails
<1>4. CASE EndBatch(w)
  <2> DEFINE j == [j0 EXCEPT !.frames = Tail(@),
                             !.sawQuit = @ \/ (quit /\ Head(s0).nodes # <<>>)]
  <2>1. (j0.sawQuit \/ (quit /\ Head(s0).nodes # <<>>)) \in BOOLEAN
    OBVIOUS
  <2>2. Tail(s0) \in Seq(WalkFrame) /\ j0.step = "next"
    BY <1>4, <1>b DEF EndBatch, At
  <2>3. JobFits(j)
    BY <1>0, <2>1, <2>2 DEF JobFits, WalkJob, AtNode
  <2> QED
    BY <1>4, <2>3 DEF EndBatch
<1>5. CASE VisitNext(w)
  <2> DEFINE f == Head(s0)
             n == Head(f.nodes)
             g == [f EXCEPT !.nodes = Tail(@)]
             j(s) == [j0 EXCEPT !.frames = <<g>> \o Tail(@), !.at = n, !.notify = f.barrier,
                                !.items = Items[n], !.step = s]
  <2>1. f \in WalkFrame /\ f.nodes # <<>> /\ Tail(s0) \in Seq(WalkFrame)
    BY <1>5, <1>b DEF VisitNext
  <2>2. /\ f.nodes \in Seq(Walked) /\ f.barrier \in Barrier /\ f.chunks = <<>> /\ f.kind = "batch"
        /\ f = BatchFrame(f.nodes, f.barrier)
    BY <2>1 DEF WalkFrame, BatchFrame
  <2>3. n \in Walked /\ Tail(f.nodes) \in Seq(Walked)
    BY <2>1, <2>2, HeadTailProperties
  <2>4. g \in WalkFrame
    BY <2>2, <2>3 DEF WalkFrame, BatchFrame
  <2>5. <<g>> \o Tail(s0) \in Seq(WalkFrame)
    BY <2>1, <2>4, CallAdded
  <2>6. Items[n] \in Seq(Node \cup {BadItem})
    BY <2>3, WalkTreeAssumption DEF Walked
  <2> HIDE DEF g, f, n
  <2>7. \A s \in {"open", "eval", "notify"} : j(s) \in WalkJob
    BY <1>0, <2>2, <2>3, <2>5, <2>6 DEF WalkJob, Walked
  <2>8. /\ j("notify") \in WalkJob /\ AtNode(j("notify"))
        /\ Visit(n) # "error" /\ IsEvaluatedAt(n) => AtNode(j("eval"))
    BY SMTT(90), <1>0, <2>3, <2>7 DEF AtNode, WalkJob
  <2>9. Visit(n) = "list" => AtNode(j("open"))
    BY <1>0, <2>3, <2>7, ListedChildren DEF AtNode, WalkJob
  <2>10. job' = [job EXCEPT ![w] =
           j(CASE Visit(n) = "error" -> "notify"
               [] Visit(n) = "complete" -> CompleteStep(n)
               [] Visit(n) = "list" -> "open")]
    BY <1>5 DEF VisitNext, Update, f, n, g
  <2>11. Visit(n) \in {"error", "complete", "list"}
    BY VisitIs
  <2>12. CASE Visit(n) = "error"
    <3>1. Update(w, j("notify"))
      BY <2>10, <2>12 DEF Update
    <3> QED
      BY <2>7, <2>8, <3>1 DEF JobFits
  <2>13. CASE Visit(n) = "complete"
    <3>1. Update(w, j(CompleteStep(n)))
      BY <2>10, <2>13 DEF Update
    <3> QED
      BY <2>7, <2>8, <2>13, <3>1 DEF JobFits, CompleteStep
  <2>14. CASE Visit(n) = "list"
    <3>1. Update(w, j("open"))
      BY <2>10, <2>14 DEF Update
    <3> QED
      BY <2>7, <2>9, <2>14, <3>1 DEF JobFits
  <2> QED
    BY <2>11, <2>12, <2>13, <2>14
<1>6. CASE OpenDirectory(w)
  <2>1. JobFits([j0 EXCEPT !.step = "list"])
    BY <1>0, <1>6 DEF OpenDirectory, At, JobFits, WalkJob, AtNode
  <2> QED
    BY <1>6, <2>1 DEF OpenDirectory
<1>7. CASE OpenFails(w)
  <2> DEFINE j == [j0 EXCEPT !.step = CompleteStep(j0.at), !.items = <<>>]
  <2>1. JobFits(j)
    BY <1>0, <1>7, <1>b DEF OpenFails, At, JobFits, WalkJob, AtNode, CompleteStep
  <2> QED
    BY <1>7, <2>1 DEF OpenFails
<1>8. CASE ListBadItem(w)
  <2> DEFINE j == [j0 EXCEPT !.items = Tail(@)]
  <2>1. /\ j0.items \in Seq(Walked \cup {BadItem}) /\ j0.items # <<>> /\ j0.step = "list"
    BY <1>0, <1>8 DEF ListBadItem, At, AtNode
  <2>2. Tail(j0.items) \in Seq(Walked \cup {BadItem}) /\ Tail(j0.items) \in Seq(Node \cup {BadItem})
    BY <1>a, <2>1, HeadTailProperties
  <2>3. JobFits(j)
    BY <1>0, <2>1, <2>2 DEF JobFits, WalkJob, AtNode
  <2> QED
    BY <1>8, <2>3 DEF ListBadItem
<1>9. CASE ListChild(w)
  <2> DEFINE popped == [j0 EXCEPT !.items = Tail(@)]
             k == Accumulate(popped, Head(j0.items), accept)
  <2>1. /\ j0.items \in Seq(Walked \cup {BadItem}) /\ j0.items # <<>> /\ j0.step = "list"
        /\ Head(j0.items) # BadItem
    BY <1>0, <1>9 DEF ListChild, At, AtNode
  <2>2. /\ Tail(j0.items) \in Seq(Walked \cup {BadItem}) /\ Tail(j0.items) \in Seq(Node \cup {BadItem})
        /\ Head(j0.items) \in Walked
    BY <1>a, <2>1, HeadTailProperties
  <2>3. JobFits(popped) /\ popped.step = "list"
    BY <1>0, <2>1, <2>2 DEF JobFits, WalkJob, AtNode
  <2> HIDE DEF popped
  <2>4. /\ k \in WalkJob /\ k.step = popped.step /\ k.at = popped.at /\ k.items = popped.items
        /\ k.frames = popped.frames
    BY <2>2, <2>3, AccumulateFits DEF JobFits
  <2> HIDE DEF k
  <2>5. JobFits(k)
    BY <2>3, <2>4 DEF JobFits, AtNode
  <2> QED
    BY <1>9, <2>5 DEF ListChild, k, popped
<1>10. CASE AbandonListing(w)
  <2> DEFINE j == [AfterListing(j0) EXCEPT !.step = "next", !.sawQuit = @ \/ quit]
  <2>1. (j0.sawQuit \/ quit) \in BOOLEAN
    OBVIOUS
  <2>2. JobFits(j)
    BY <1>0, <1>b, <2>1 DEF AfterListing, JobFits, WalkJob, AtNode, NoBarrier, Barrier
  <2> QED
    BY <1>10, <2>2 DEF AbandonListing
<1>11. CASE ListedEmpty(w)
  <2>1. JobFits([j0 EXCEPT !.step = CompleteStep(j0.at)])
    BY <1>0, <1>11 DEF ListedEmpty, At, JobFits, WalkJob, AtNode, CompleteStep
  <2> QED
    BY <1>11, <2>1 DEF ListedEmpty
<1>12. CASE BeginDirectory(w)
  <2> DEFINE d == DirFrame(nextBarrier, FinishChunks(j0))
             b == BatchFor(j0.local, nextBarrier, nextBarrier + 1)
             frames == IF j0.local = <<>> THEN <<d>> \o s0 ELSE <<b>> \o (<<d>> \o s0)
             j == [AfterListing(j0) EXCEPT !.step = "next", !.frames = frames]
  <2>1. d \in WalkFrame
    BY <1>0, FinishedChunks DEF DirFrame, WalkFrame, TableFits, Barrier
  <2>2. b \in WalkFrame
    BY <1>a, BatchFits DEF TableFits, Barrier
  <2> HIDE DEF d, b
  <2>3. frames \in Seq(WalkFrame)
    BY <1>a, <2>1, <2>2, CallAdded
  <2>4. job' = [job EXCEPT ![w] = j]
    BY <1>12 DEF BeginDirectory, Update, d, b
  <2> HIDE DEF frames
  <2>5. JobFits(j)
    BY <1>0, <1>b, <2>3 DEF AfterListing, JobFits, WalkJob, AtNode, NoBarrier, Barrier
  <2> QED
    BY <2>4, <2>5 DEF Update
<1>13. CASE LeaveDirectory(w) \/ PublishDone(w)
  <2>1. s0 # <<>>
    BY <1>0, <1>13 DEF LeaveDirectory, PublishDone, At, AtNode
  <2>2. JobFits([j0 EXCEPT !.frames = Tail(@)]) \/ j0.step = "publish"
    BY <1>0, <1>13, <1>b, <2>1 DEF LeaveDirectory, PublishDone, At, JobFits, WalkJob, AtNode
  <2>3. JobFits([j0 EXCEPT !.step = "next", !.frames = Tail(@)])
    BY <1>0, <1>b, <2>1 DEF JobFits, WalkJob, AtNode
  <2> QED
    BY <1>13, <2>2, <2>3 DEF LeaveDirectory, PublishDone, At
<1>14. CASE PublishRest(w)
  <2>1. JobFits([j0 EXCEPT !.step = "publish"])
    BY <1>0, <1>14 DEF PublishRest, At, JobFits, WalkJob, AtNode
  <2> QED
    BY <1>14, <2>1 DEF PublishRest
<1>15. CASE PublishChunk(w)
  <2> DEFINE f == Head(s0)
             g == [f EXCEPT !.chunks = Tail(@)]
             j == [j0 EXCEPT !.frames = <<g>> \o Tail(@)]
  <2>1. /\ f \in WalkFrame /\ f.chunks # <<>> /\ Tail(s0) \in Seq(WalkFrame)
        /\ f.kind = "dir" /\ j0.step = "publish"
    BY <1>0, <1>15, <1>b DEF PublishChunk, At, AtNode
  <2>2. /\ f.nodes = <<>> /\ f.barrier \in Barrier /\ f.chunks \in Seq(Chunk)
        /\ f = DirFrame(f.barrier, f.chunks)
    BY <2>1 DEF WalkFrame, DirFrame
  <2>3. Tail(f.chunks) \in Seq(Chunk)
    BY <2>1, <2>2, HeadTailProperties
  <2>4. g \in WalkFrame /\ g.kind = "dir"
    BY <2>1, <2>2, <2>3 DEF WalkFrame, DirFrame
  <2>5. /\ <<g>> \o Tail(s0) \in Seq(WalkFrame)
        /\ <<g>> \o Tail(s0) # <<>> /\ Head(<<g>> \o Tail(s0)) = g
    BY <2>1, <2>4, CallAdded, HeadTailProperties
  <2> HIDE DEF g, f
  <2>6. JobFits(j)
    BY <1>0, <2>1, <2>4, <2>5 DEF JobFits, WalkJob, AtNode
  <2> QED
    BY <1>15, <2>6 DEF PublishChunk, f, g
<1>16. CASE EvalOk(w) \/ EvalQuits(w)
  <2>1. \A s \in {"notify", "leave"} : JobFits([j0 EXCEPT !.step = s])
    BY <1>0 DEF JobFits, WalkJob, AtNode
  <2> QED
    BY <1>16, <2>1 DEF EvalOk, EvalQuits
<1>17. CASE NotifyEnds(w) \/ FinishUnit(w) \/ ReleaseDirectory(w)
  <2>1. JobFits(Notified(j0))
    BY <1>0 DEF Notified, JobFits, WalkJob, AtNode, NoBarrier, Barrier
  <2> QED
    BY <1>17, <2>1 DEF NotifyEnds, FinishUnit, ReleaseDirectory
<1>18. CASE FinishLastUnit(w)
  <2> DEFINE r == barriers[j0.notify]
             j == [j0 EXCEPT !.notify = r.parent]
             k == [j0 EXCEPT !.step = "release", !.at = r.entry, !.notify = r.parent]
  <2>1. r \in WalkRecord /\ j0.step = "notify"
    BY <1>18 DEF FinishLastUnit, At, TableFits
  <2>2. JobFits(j)
    BY <1>0, <2>1 DEF JobFits, WalkJob, AtNode, WalkRecord
  <2>3. r.entry # NoNode => JobFits(k)
    BY <1>0, <2>1 DEF JobFits, WalkJob, AtNode, WalkRecord, Walked
  <2> QED
    BY <1>18, <2>2, <2>3 DEF FinishLastUnit
<1> QED
  BY <1>1, <1>2, <1>3, <1>4, <1>5, <1>6, <1>7, <1>8, <1>9, <1>10, <1>11, <1>12, <1>13,
     <1>14, <1>15, <1>16, <1>17, <1>18 DEF TaskStep

LEMMA TableStepFits ==
  ASSUME NEW w \in Worker, TaskStep(w), JobsFit, QueuesFit, TableFits
  PROVE  TableFits'
<1> DEFINE j0 == job[w]
<1>0. j0 \in WalkJob /\ AtNode(j0)
  BY DEF JobsFit
<1>1. CASE StartChunk(w)
  <2>1. task[w].nodes \in Seq(Walked) /\ task[w].barrier \in Barrier
    BY <1>1 DEF StartChunk, At, QueuesFit, WalkTask, Chunk
  <2>2. PICK nodes, b, id, table : /\ nodes = task[w].nodes /\ b = task[w].barrier
                                   /\ id = nextBarrier /\ table = barriers
    OBVIOUS
  <2>3. barriers' = AddBatch(table, nodes, b, id) /\ nextBarrier' = id + IdsUsed(nodes, b)
    BY <1>1, <2>2 DEF StartChunk
  <2>4. /\ DOMAIN barriers' \subseteq 1..(id + IdsUsed(nodes, b) - 1)
        /\ \A c \in DOMAIN barriers' : barriers'[c] \in WalkRecord
    BY <2>1, <2>2, <2>3, BatchTableFits DEF TableFits
  <2> QED
    BY <2>2, <2>3, <2>4 DEF TableFits, IdsUsed
<1>2. CASE BeginDirectory(w)
  <2>1. PICK n, parent, id, local, units :
          /\ n = j0.at /\ parent = j0.notify /\ id = nextBarrier /\ local = j0.local
          /\ units = Len(FinishChunks(j0)) + (IF j0.local = <<>> THEN 0 ELSE 1)
    OBVIOUS
  <2>2. /\ n \in Walked /\ Visit(n) = "list" /\ parent \in Barrier /\ id \in Nat \ {0}
        /\ local \in Seq(Walked) /\ units \in Nat \ {0}
    <3>1. Len(FinishChunks(j0)) \in Nat
      BY <1>0, FinishedChunks, LenProperties
    <3>2. units \in Nat
      BY <2>1, <3>1
    <3>3. units > 0 /\ j0.step = "list"
      BY <1>2, <2>1 DEF BeginDirectory, At
    <3> QED
      BY <1>0, <2>1, <3>2, <3>3 DEF AtNode, WalkJob, TableFits
  <2>3. PICK table : table = Insert(barriers, id, DirectoryRecord(n, units, parent))
    OBVIOUS
  <2>4. /\ DOMAIN table \subseteq 1..((id + 1) - 1)
        /\ \A c \in DOMAIN table : table[c] \in WalkRecord
    <3>1. DirectoryRecord(n, units, parent) \in WalkRecord
      BY <2>2 DEF DirectoryRecord, WalkRecord
    <3> QED
      BY <2>1, <2>2, <2>3, <3>1 DEF Insert, TableFits
  <2>5. /\ barriers' = IF local = <<>> THEN table ELSE AddBatch(table, local, id, id + 1)
        /\ nextBarrier' = id + 1 + IdsUsed(local, id)
    BY <1>2, <2>1, <2>3 DEF BeginDirectory
  <2>6. CASE local # <<>>
    <3>1. /\ DOMAIN barriers' \subseteq 1..((id + 1) + IdsUsed(local, id) - 1)
          /\ \A c \in DOMAIN barriers' : barriers'[c] \in WalkRecord
      BY <2>2, <2>4, <2>5, <2>6, BatchTableFits DEF Barrier
    <3> QED
      BY <2>2, <2>5, <3>1 DEF TableFits, IdsUsed
  <2>7. CASE local = <<>>
    BY <2>2, <2>4, <2>5, <2>7 DEF TableFits, IdsUsed, NeedsBatch
  <2> QED
    BY <2>6, <2>7
<1>3. CASE FinishUnit(w)
  <2>1. PICK b : b = j0.notify
    OBVIOUS
  <2>2. /\ b \in DOMAIN barriers /\ barriers[b].remaining > 1
        /\ barriers' = [barriers EXCEPT ![b].remaining = @ - 1] /\ nextBarrier' = nextBarrier
    BY <1>3, <2>1 DEF FinishUnit
  <2>3. barriers'[b] \in WalkRecord /\ DOMAIN barriers' = DOMAIN barriers
    BY <2>2 DEF WalkRecord, TableFits
  <2> QED
    BY <2>2, <2>3 DEF TableFits
<1>4. CASE FinishLastUnit(w)
  BY <1>4 DEF FinishLastUnit, TableFits
<1>5. CASE UNCHANGED barrierVars
  BY ZenonT(120), <1>5 DEF barrierVars, TableFits
<1> QED
  BY <1>1, <1>2, <1>3, <1>4, <1>5
     DEF TaskStep, StartResume, EndTask, EndBatch, VisitNext, OpenDirectory, OpenFails,
         ListBadItem, ListChild, AbandonListing, ListedEmpty, LeaveDirectory, PublishRest,
         PublishChunk, PublishDone, EvalOk, EvalQuits, LeaveAfterQuit, EvalFails, NotifyEnds,
         ReleaseDirectory, barrierVars

-----------------------------------------------------------------------------
(* What a task body does to the scheduler                                  *)

TaskEffect(w) ==
  \/ UNCHANGED schedVars
  \/ \E t \in WalkTask : S!BeginPush(w, t)
  \/ S!StoreQuit(w)
  \/ \E ok \in BOOLEAN : S!TaskReturns(w, ok)

LEMMA TaskStepEffect ==
  ASSUME NEW w \in Worker, TaskStep(w), JobsFit
  PROVE  TaskEffect(w)
<1>0. job[w] \in WalkJob /\ AtNode(job[w])
  BY DEF JobsFit
<1>1. CASE PublishChunk(w)
  <2> DEFINE f == Head(job[w].frames)
  <2>1. job[w].frames \in Seq(WalkFrame) /\ job[w].frames # <<>>
    BY <1>0, <1>1 DEF PublishChunk, At, AtNode, WalkJob
  <2>2. f \in WalkFrame /\ f.chunks # <<>>
    BY <1>1, <2>1, HeadTailProperties DEF PublishChunk
  <2>3. f.chunks \in Seq(Chunk) /\ f.barrier \in Barrier
    BY <2>2 DEF WalkFrame
  <2>4. ChunkTask(Head(f.chunks), f.barrier) \in WalkTask
    BY <2>2, <2>3, HeadTailProperties DEF ChunkTask, WalkTask
  <2> QED
    BY <1>1, <2>4 DEF PublishChunk, TaskEffect
<1>2. CASE ReleaseDirectory(w)
  <2>1. job[w].at \in Walked /\ job[w].notify \in Barrier /\ Visit(job[w].at) = "list"
    BY <1>0, <1>2 DEF ReleaseDirectory, At, AtNode, WalkJob
  <2>2. ResumeTask(job[w].at, job[w].notify) \in WalkTask
    BY <2>1 DEF ResumeTask, WalkTask, Chunk
  <2> QED
    BY <1>2, <2>2 DEF ReleaseDirectory, TaskEffect
<1>3. CASE EvalQuits(w)
  BY <1>3 DEF EvalQuits, TaskEffect
<1>4. CASE EndTask(w) \/ LeaveAfterQuit(w) \/ EvalFails(w)
  BY <1>4 DEF EndTask, LeaveAfterQuit, EvalFails, TaskEffect
<1> QED
  BY <1>1, <1>2, <1>3, <1>4
     DEF TaskEffect, TaskStep, StartChunk, StartResume, EndBatch, VisitNext, OpenDirectory,
         OpenFails, ListBadItem, ListChild, AbandonListing, ListedEmpty, BeginDirectory,
         LeaveDirectory, PublishRest, PublishDone, EvalOk, NotifyEnds, FinishUnit, FinishLastUnit

LEMMA TaskEffectFits ==
  ASSUME NEW w \in Worker, TaskEffect(w), S!TypeOK, QueuesFit
  PROVE  QueuesFit'
<1> USE DEF QueuesFit
<1>0. pc \in [Worker -> S!Location] /\ pub \in [Worker -> EngineTask \cup {NoTask}]
  BY DEF S!TypeOK, Worker
<1>1. CASE UNCHANGED schedVars
  BY <1>1 DEF schedVars
<1>2. CASE \E t \in WalkTask : S!BeginPush(w, t)
  BY <1>0, <1>2 DEF S!BeginPush, S!control, S!queues, S!history
<1>3. CASE S!StoreQuit(w)
  BY <1>0, <1>3 DEF S!StoreQuit, S!Goto, S!queues, S!history
<1>4. CASE \E ok \in BOOLEAN : S!TaskReturns(w, ok)
  BY <1>0, <1>4 DEF S!TaskReturns, S!Goto, S!control, S!queues, S!history
<1> QED
  BY <1>1, <1>2, <1>3, <1>4 DEF TaskEffect

LEMMA LoopFits ==
  ASSUME NEW w \in Worker, S!WorkerLoop(w), S!TypeOK, QueuesFit
  PROVE  QueuesFit'
<1> USE DEF QueuesFit
<1>0. /\ pc \in [Worker -> S!Location]
      /\ task \in [Worker -> EngineTask \cup {NoTask}]
      /\ pub \in [Worker -> EngineTask \cup {NoTask}]
  BY DEF S!TypeOK, Worker
<1>1. CASE S!PopLocal(w)
  <2>1. Head(deque[w]) \in WalkTask /\ Tail(deque[w]) \in Seq(WalkTask)
    BY <1>1, HeadTailProperties DEF S!PopLocal
  <2> QED
    BY <1>0, <1>1, <2>1 DEF S!PopLocal, S!Goto, S!control, S!history
<1>2. CASE S!StealInjector(w)
  <2> PICK k \in 1..Len(injector) :
        /\ S!Goto(w, "inject", "got")
        /\ task' = [task EXCEPT ![w] = injector[1]]
        /\ deque' = [deque EXCEPT ![w] = @ \o SubSeq(injector, 2, k)]
        /\ injector' = SubSeq(injector, k + 1, Len(injector))
        /\ UNCHANGED <<S!control, outstanding, pub, victim, woken, failed, S!history>>
    BY <1>2 DEF S!StealInjector
  <2>1. /\ Len(injector) \in Nat /\ injector[1] \in WalkTask
        /\ \A i \in 1..Len(injector) : injector[i] \in WalkTask
    BY LenProperties, ElementOfSeq
  <2>2. SubSeq(injector, 2, k) \in Seq(WalkTask) /\ injector' \in Seq(WalkTask)
    BY <2>1, SubSeqProperties
  <2>3. deque[w] \o SubSeq(injector, 2, k) \in Seq(WalkTask)
    BY <2>2, ConcatProperties
  <2> QED
    BY <1>0, <2>1, <2>2, <2>3 DEF S!Goto, S!control, S!history
<1>3. CASE S!StealPeer(w)
  <2> DEFINE v == victim[w]
  <2>1. v \in Worker /\ Head(deque[v]) \in WalkTask /\ Tail(deque[v]) \in Seq(WalkTask)
    BY <1>3, HeadTailProperties DEF S!StealPeer, Worker
  <2> QED
    BY <1>0, <1>3, <2>1 DEF S!StealPeer, S!Goto, S!control, S!history
<1>4. CASE S!PushTask(w)
  <2>1. Append(deque[w], pub[w]) \in Seq(WalkTask)
    BY <1>4, AppendProperties DEF S!PushTask, S!Goto
  <2> QED
    BY <1>0, <1>4, <2>1 DEF S!PushTask, S!Goto, S!control, S!history
<1>5. CASE S!TaskFinished(w)
  BY <1>0, <1>5 DEF S!TaskFinished, S!Goto, S!control, S!queues
<1>6. CASE S!Admit(w) \/ S!CountTask(w) \/ S!StopAfterQuit(w)
  BY <1>0, <1>6 DEF S!Admit, S!CountTask, S!StopAfterQuit, S!Goto, S!control, S!queues, S!history
<1>7. CASE \/ S!LocalEmpty(w) \/ S!InjectorMissed(w) \/ S!PeerMissed(w) \/ S!NothingFound(w)
           \/ S!LeaveLoop(w) \/ S!GoToSleep(w) \/ S!StartWait(w) \/ S!Notified(w) \/ S!TimesOut(w)
           \/ S!NotifyAtZero(w) \/ S!StoreFatal(w) \/ S!StopAfterFatal(w) \/ S!Die(w)
           \/ S!FlushAndReport(w)
  <2>1. /\ UNCHANGED <<injector, deque, task, pub>>
        /\ \/ pc' = pc
           \/ \E l \in {"inject", "steal", "check", "flush", "enter", "asleep", "local",
                        "fatal", "stop", "alert", "dead", "exit"} :
                pc' = [pc EXCEPT ![w] = l]
    BY <1>7 DEF S!LocalEmpty, S!InjectorMissed, S!PeerMissed, S!NothingFound, S!LeaveLoop,
                S!GoToSleep, S!StartWait, S!Notified, S!TimesOut, S!NotifyAtZero,
                S!StoreFatal, S!StopAfterFatal, S!Die, S!FlushAndReport,
                S!Goto, S!control, S!queues, S!history
  <2> QED
    BY <1>0, <2>1
<1> QED
  BY <1>1, <1>2, <1>3, <1>4, <1>5, <1>6, <1>7 DEF S!WorkerLoop

-----------------------------------------------------------------------------
(* The engine is an instance of the scheduler                              *)

LEMMA StepIsScheduled ==
  ASSUME JobsFit, [Next]_vars
  PROVE  [SP!SchedNext]_(SP!schedVars)
<1> USE DEF SP!schedVars, schedVars
<1>1. CASE UNCHANGED vars
  BY <1>1 DEF vars
<1>2. ASSUME NEW w \in Worker, LoopStep(w)
      PROVE  SP!SchedNext
  <2>1. w \in SP!Worker /\ SP!WorkerLoop(w)
    BY <1>2, SameLoop DEF LoopStep, Worker, S!Worker, SP!Worker
  <2> QED
    BY <2>1 DEF SP!SchedNext
<1>3. ASSUME NEW w \in Worker, TaskStep(w)
      PROVE  SP!SchedNext \/ UNCHANGED schedVars
  <2>1. TaskEffect(w)
    BY <1>3, TaskStepEffect
  <2>2. \A t : S!BeginPush(w, t) <=> SP!BeginPush(w, t)
    BY DEF S!BeginPush, SP!BeginPush, S!control, SP!control, S!queues, SP!queues,
           S!history, SP!history
  <2>3. S!StoreQuit(w) <=> SP!StoreQuit(w)
    BY DEF S!StoreQuit, SP!StoreQuit, S!Goto, SP!Goto, S!queues, SP!queues,
           S!history, SP!history
  <2>4. \A ok : S!TaskReturns(w, ok) <=> SP!TaskReturns(w, ok)
    BY DEF S!TaskReturns, SP!TaskReturns, S!Goto, SP!Goto, S!control, SP!control,
           S!queues, SP!queues, S!history, SP!history
  <2>5. WalkTask \subseteq EngineTask
    BY WalkTasksAreTasks
  <2>6. UNCHANGED schedVars \/ SP!TaskBody(w)
    BY <2>1, <2>2, <2>3, <2>4, <2>5 DEF TaskEffect, SP!TaskBody
  <2>7. w \in SP!Worker
    BY DEF Worker, S!Worker, SP!Worker
  <2> QED
    BY <2>6, <2>7 DEF SP!SchedNext
<1>4. CASE S!AllReturned /\ UNCHANGED vars
  BY <1>4 DEF vars
<1> QED
  BY <1>1, <1>2, <1>3, <1>4 DEF Next

LEMMA InitIsScheduled == Init => SP!SchedInit
BY DEF Init, S!SchedInit, SP!SchedInit, S!Worker, SP!Worker, RootTasks

LEMMA SameTypes == SP!TypeOK => S!TypeOK
BY DEF S!TypeOK, SP!TypeOK, S!Worker, SP!Worker, S!Location, SP!Location

(* The types, with what the scheduler's proofs say of its variables. *)
EngineInv ==
  /\ SP!SchedInv
  /\ JobsFit
  /\ QueuesFit
  /\ TableFits
  /\ evals \in [Node -> Nat]
  /\ errors \subseteq Node

LEMMA SchedulerTypes == EngineInv => S!TypeOK /\ SP!TypeOK
BY SameTypes DEF EngineInv, SP!SchedInv

LEMMA EngineInit == Init => EngineInv
<1> SUFFICES ASSUME Init PROVE EngineInv
  OBVIOUS
<1>1. SP!SchedInv
  BY InitIsScheduled, SP!InitTypes, SP!InitSlots, RootsAreTasks DEF SP!SchedInit, SP!SchedInv, SP!LeftAtZero
<1>2. JobsFit
  BY NoJobFits DEF Init, JobsFit, JobFits
<1>3. QueuesFit
  <2>1. <<>> \in Seq(WalkTask)
    OBVIOUS
  <2> QED
    BY <2>1, RootsAreTasks DEF Init, S!SchedInit, QueuesFit, RootTasks, Worker
<1>4. TableFits
  BY DEF Init, TableFits
<1> QED
  BY <1>1, <1>2, <1>3, <1>4 DEF Init, EngineInv

LEMMA EngineStep == EngineInv /\ [Next]_vars => EngineInv'
<1> SUFFICES ASSUME EngineInv, [Next]_vars PROVE EngineInv'
  OBVIOUS
<1> USE DEF EngineInv
<1>1. SP!SchedInv'
  BY StepIsScheduled, RootsAreTasks, SP!StepTypes, SP!StepSlots, SP!StepLeftAtZero DEF SP!SchedInv
<1>2. CASE UNCHANGED vars
  BY <1>1, <1>2 DEF vars, schedVars, JobsFit, QueuesFit, TableFits
<1>3. ASSUME NEW w \in Worker, LoopStep(w)
      PROVE  EngineInv'
  <2>1. QueuesFit'
    BY <1>3, LoopFits, SchedulerTypes DEF LoopStep
  <2> QED
    BY <1>1, <1>3, <2>1 DEF LoopStep, JobsFit, TableFits, barrierVars, treeVars
<1>4. ASSUME NEW w \in Worker, TaskStep(w)
      PROVE  EngineInv'
  <2>1. PICK j : JobFits(j) /\ Update(w, j)
    BY <1>4, TaskStepFits
  <2>2. JobsFit'
    BY <2>1 DEF JobsFit, JobFits, Update
  <2>3. QueuesFit'
    BY <1>4, TaskStepEffect, TaskEffectFits, SchedulerTypes
  <2>4. TableFits'
    BY ZenonT(120), <1>4, TableStepFits
  <2>5. errors' \subseteq Node
    <3>1. CASE VisitNext(w)
      <4>1. job[w].frames \in Seq(WalkFrame) /\ job[w].frames # <<>>
        BY ZenonT(120), <3>1 DEF JobsFit, WalkJob, VisitNext
      <4>2. Head(job[w].frames) \in WalkFrame /\ Head(job[w].frames).nodes # <<>>
        BY <3>1, <4>1, HeadTailProperties DEF VisitNext
      <4>3. Head(job[w].frames).nodes \in Seq(Walked)
        BY <4>2 DEF WalkFrame
      <4>4. Head(Head(job[w].frames).nodes) \in Node
        BY <4>2, <4>3, HeadTailProperties DEF Walked
      <4> QED
        BY <3>1, <4>4 DEF VisitNext
    <3>2. CASE OpenFails(w) \/ ListBadItem(w)
      <4>1. job[w].at \in Node
        BY <3>2 DEF OpenFails, ListBadItem, At, JobsFit, AtNode, Walked
      <4> QED
        BY <3>2, <4>1 DEF OpenFails, ListBadItem
    <3> QED
      BY <1>4, <3>1, <3>2 DEF TaskStep, StartChunk, StartResume, EndTask, EndBatch, OpenDirectory,
         ListChild, AbandonListing, ListedEmpty, BeginDirectory, LeaveDirectory, PublishRest,
         PublishChunk, PublishDone, EvalOk, EvalQuits, LeaveAfterQuit, EvalFails, NotifyEnds,
         FinishUnit, FinishLastUnit, ReleaseDirectory, treeVars
  <2>6. evals' = evals \/ CountEval(w)
    BY ZenonT(120), <1>4 DEF TaskStep, StartChunk, StartResume, EndTask, EndBatch, VisitNext, OpenDirectory,
         OpenFails, ListBadItem, ListChild, AbandonListing, ListedEmpty, BeginDirectory,
         LeaveDirectory, PublishRest, PublishChunk, PublishDone, EvalOk, EvalQuits, LeaveAfterQuit,
         EvalFails, NotifyEnds, FinishUnit, FinishLastUnit, ReleaseDirectory, treeVars
  <2>7. evals' \in [Node -> Nat]
    BY <2>6 DEF CountEval
  <2> QED
    BY <1>1, <2>2, <2>3, <2>4, <2>5, <2>7
<1> QED
  BY <1>2, <1>3, <1>4 DEF Next

(* In every state the invariant above holds. *)
LEMMA EngineInvariant == Spec => []EngineInv
BY EngineInit, EngineStep, PTL DEF Spec

(* Types: whatever tree is walked and however many workers share it, the     *)
(* bodies of the tasks keep nodes of the tree and nothing else, and every    *)
(* record of the barrier table waits for at least one unit.                  *)
THEOREM EngineTypesKept == Spec => []TypeOK
<1>1. EngineInv => TypeOK
  <2> SUFFICES ASSUME EngineInv PROVE TypeOK
    OBVIOUS
  <2>1. S!TypeOK /\ evals \in [Node -> Nat] /\ errors \subseteq Node
    BY SchedulerTypes DEF EngineInv
  <2>2. Seq(Walked) \subseteq Seq(Node) /\ <<>> \in Seq(Node) /\ <<>> \in Seq(Seq(Node))
    BY SeqMonotonic DEF Walked
  <2>3. Chunk \subseteq Seq(Node)
    BY <2>2 DEF Chunk
  <2>4. Seq(Chunk) \subseteq Seq(Seq(Node))
    BY <2>3, SeqMonotonic
  <2>5. WalkFrame \subseteq Frame
    BY <2>2, <2>4 DEF WalkFrame, Frame
  <2>6. Seq(WalkFrame) \subseteq Seq(Frame)
    BY <2>5, SeqMonotonic
  <2>7. WalkJob \subseteq
          [step : {"idle", "next", "open", "list", "publish", "eval",
                   "leave", "notify", "release"},
           frames : Seq(Frame), at : Node \cup {NoNode}, notify : Barrier,
           items : Seq(Node \cup {BadItem}), local : Seq(Node),
           buffer : Seq(Node), spilled : Seq(Seq(Node)),
           resume : BOOLEAN, sawQuit : BOOLEAN]
    BY <2>2, <2>4, <2>6 DEF WalkJob
  <2>8. WalkRecord \subseteq [entry : Node \cup {NoNode}, remaining : Nat \ {0}, parent : Barrier]
    BY DEF WalkRecord, Walked
  <2>9. /\ nextBarrier \in Nat /\ DOMAIN barriers \subseteq 1..(nextBarrier - 1)
        /\ \A b \in DOMAIN barriers : barriers[b] \in WalkRecord
    BY DEF EngineInv, TableFits
  <2>10. job \in [Worker -> WalkJob]
    BY DEF EngineInv, JobsFit
  <2> QED
    BY <2>1, <2>7, <2>8, <2>9, <2>10 DEF TypeOK
<1> QED
  BY <1>1, EngineInvariant, PTL

(* The engine is one of the schedulers of Scheduler.tla: its task bodies do  *)
(* to the queues, the flags and the counter only what a task may do.         *)
THEOREM EngineIsAScheduler == Spec => SP!SchedSpec
<1>1. EngineInv /\ [Next]_vars => [SP!SchedNext]_(SP!schedVars)
  BY StepIsScheduled DEF EngineInv
<1> QED
  BY <1>1, InitIsScheduled, EngineInvariant, PTL DEF Spec, SP!SchedSpec

(* So pop_blocking's exit test is sound for the depth-mode walk too: a       *)
(* worker that has left found no chunk and no released directory anywhere,   *)
(* and none comes up later.                                                  *)
THEOREM NoTaskIsLeftBehind == Spec => [](S!OutstandingExact /\ S!NobodyLeavesEarly)
<1>1. SP!OutstandingExact => S!OutstandingExact
  <2>1. SP!Slots = S!Slots
    BY DEF SP!Slots, S!Slots, SP!SlotsOf, S!SlotsOf, SP!InHand, S!InHand,
           SP!Counted, S!Counted, SP!Worker, S!Worker
  <2> QED
    BY <2>1 DEF SP!OutstandingExact, S!OutstandingExact, SP!Cardinality, S!Cardinality
<1>2. SP!NobodyLeavesEarly => S!NobodyLeavesEarly
  BY DEF SP!NobodyLeavesEarly, S!NobodyLeavesEarly, SP!Slots, S!Slots, SP!SlotsOf, S!SlotsOf,
         SP!InHand, S!InHand, SP!Counted, S!Counted, SP!Worker, S!Worker
<1>3. Spec => []SP!OutstandingExact /\ []SP!NobodyLeavesEarly
  BY EngineIsAScheduler, RootsAreTasks, SP!CounterIsExact, SP!TerminationIsSound
<1> QED
  BY <1>1, <1>2, <1>3, PTL

-----------------------------------------------------------------------------
(* Counting                                                                *)

Bit(p) == IF p THEN 1 ELSE 0

LEMMA SameCounting ==
  \A X : (SP!IsFiniteSet(X) <=> IsFiniteSet(X)) /\ SP!Cardinality(X) = Cardinality(X)
BY DEF SP!IsFiniteSet, IsFiniteSet, SP!Cardinality, Cardinality

(* Two sets that differ in one element at most. *)
LEMMA OneChanged ==
  ASSUME NEW X, NEW Y, NEW e, IsFiniteSet(X), \A x : x # e => (x \in X <=> x \in Y)
  PROVE  /\ IsFiniteSet(Y) /\ Cardinality(X) \in Nat /\ Cardinality(Y) \in Nat
         /\ Cardinality(Y) + Bit(e \in X) = Cardinality(X) + Bit(e \in Y)
<1>1. CASE e \in X /\ e \in Y
  <2>1. X = Y
    BY <1>1
  <2> QED
    BY <1>1, <2>1, FS_CardinalityType DEF Bit
<1>2. CASE e \notin X /\ e \notin Y
  <2>1. X = Y
    BY <1>2
  <2> QED
    BY <1>2, <2>1, FS_CardinalityType DEF Bit
<1>3. CASE e \in X /\ e \notin Y
  <2>1. Y = X \ {e}
    BY <1>3
  <2>2. IsFiniteSet(Y) /\ Cardinality(Y) = Cardinality(X) - 1
    BY <1>3, <2>1, FS_RemoveElement
  <2>3. Cardinality(X) \in Nat /\ Cardinality(Y) \in Nat
    BY <2>2, FS_CardinalityType
  <2> QED
    BY <1>3, <2>2, <2>3 DEF Bit
<1>4. CASE e \notin X /\ e \in Y
  <2>1. Y = X \cup {e}
    BY <1>4
  <2>2. IsFiniteSet(Y) /\ Cardinality(Y) = Cardinality(X) + 1
    BY <1>4, <2>1, FS_AddElement
  <2>3. Cardinality(X) \in Nat /\ Cardinality(Y) \in Nat
    BY <2>2, FS_CardinalityType
  <2> QED
    BY <1>4, <2>2, <2>3 DEF Bit
<1> QED
  BY <1>1, <1>2, <1>3, <1>4

-----------------------------------------------------------------------------
(* The nodes and chunks of the active calls                                *)

Amount(f) == Len(f.nodes) + Len(f.chunks)
Share(f, b) == IF f.barrier = b THEN Amount(f) ELSE 0

(* Place k of call h, counted from the outermost. *)
PlaceIn(s, b, h, k) ==
  /\ h \in 1..Len(s)
  /\ s[Len(s) + 1 - h].barrier = b
  /\ k \in 1..Amount(s[Len(s) + 1 - h])

(* HeldFor, of the jobs J. *)
HeldIn(J, b) ==
  UNION {UNION {{<<w, h, k>> : k \in 1..(Len(J[w].frames[Len(J[w].frames) + 1 - h].nodes)
                                         + Len(J[w].frames[Len(J[w].frames) + 1 - h].chunks))} :
                h \in {h \in 1..Len(J[w].frames) :
                         J[w].frames[Len(J[w].frames) + 1 - h].barrier = b}} : w \in Worker}

LEMMA HeldIs == \A b : HeldFor(b) = HeldIn(job, b)
BY DEF HeldFor, HeldIn, Call, CallsFor

LEMMA HeldPlaces ==
  ASSUME NEW J, NEW b, NEW x
  PROVE  x \in HeldIn(J, b) <=>
           \E w, h, k : x = <<w, h, k>> /\ w \in Worker /\ PlaceIn(J[w].frames, b, h, k)
<1> DEFINE top(w, h) == J[w].frames[Len(J[w].frames) + 1 - h]
           calls(w) == {h \in 1..Len(J[w].frames) : top(w, h).barrier = b}
           places(w, h) == {<<w, h, k>> : k \in 1..(Len(top(w, h).nodes) + Len(top(w, h).chunks))}
<1>1. \A w, h : x \in places(w, h) <=> \E k \in 1..Amount(top(w, h)) : x = <<w, h, k>>
  BY DEF Amount
<1>2. \A w, h : h \in calls(w) <=> h \in 1..Len(J[w].frames) /\ top(w, h).barrier = b
  OBVIOUS
<1>3. \A w, h, k : PlaceIn(J[w].frames, b, h, k) <=> h \in calls(w) /\ k \in 1..Amount(top(w, h))
  BY DEF PlaceIn
<1>4. HeldIn(J, b) = UNION {UNION {places(w, h) : h \in calls(w)} : w \in Worker}
  BY DEF HeldIn
<1> HIDE DEF calls, places, top
<1>5. x \in HeldIn(J, b) <=> \E w \in Worker : \E h \in calls(w) : x \in places(w, h)
  BY <1>4
<1>6. ASSUME x \in HeldIn(J, b)
      PROVE  \E w, h, k : x = <<w, h, k>> /\ w \in Worker /\ PlaceIn(J[w].frames, b, h, k)
  <2>1. PICK w \in Worker : \E h \in calls(w) : x \in places(w, h)
    BY <1>5, <1>6
  <2>2. PICK h \in calls(w) : x \in places(w, h)
    BY <2>1
  <2>3. PICK k \in 1..Amount(top(w, h)) : x = <<w, h, k>>
    BY <1>1, <2>2
  <2> QED
    BY <1>3, <2>3
<1>7. ASSUME NEW w, NEW h, NEW k, x = <<w, h, k>>, w \in Worker, PlaceIn(J[w].frames, b, h, k)
      PROVE  x \in HeldIn(J, b)
  <2>1. h \in calls(w) /\ k \in 1..Amount(top(w, h))
    BY <1>3, <1>7
  <2>2. x \in places(w, h)
    BY <1>1, <1>7, <2>1
  <2> QED
    BY <1>5, <1>7, <2>1, <2>2
<1> QED
  BY <1>6, <1>7

LEMMA FrameAmounts ==
  ASSUME NEW f \in WalkFrame
  PROVE  Len(f.nodes) \in Nat /\ Len(f.chunks) \in Nat /\ Amount(f) \in Nat
         /\ f.barrier \in Nat /\ \A b : Share(f, b) \in Nat
<1>1. CASE f.nodes \in Seq(Walked) /\ f.chunks = <<>>
  BY <1>1, LenProperties DEF Amount, Share, WalkFrame, Barrier
<1>2. CASE f.nodes = <<>> /\ f.chunks \in Seq(Chunk)
  BY <1>2, LenProperties DEF Amount, Share, WalkFrame, Barrier
<1> QED
  BY <1>1, <1>2 DEF WalkFrame

LEMMA CallPlaces ==
  ASSUME NEW f \in WalkFrame, NEW s, s \in Seq(WalkFrame), NEW b, NEW h, NEW k
  PROVE  PlaceIn(<<f>> \o s, b, h, k) <=>
           \/ PlaceIn(s, b, h, k)
           \/ h = Len(s) + 1 /\ f.barrier = b /\ k \in 1..Amount(f)
<1> DEFINE s2 == <<f>> \o s
<1>1. Len(s) \in Nat /\ Len(s2) = Len(s) + 1 /\ s2[1] = f
      /\ \A i \in 1..Len(s) : s2[i + 1] = s[i]
  <2>1. <<f>> \in Seq(WalkFrame) /\ Len(<<f>>) = 1 /\ <<f>>[1] = f
    OBVIOUS
  <2>2. Len(s) \in Nat /\ Len(s2) = 1 + Len(s)
    BY <2>1, ConcatProperties, LenProperties
  <2>3. s2[1] = f
    BY <2>1, <2>2, ConcatProperties
  <2>4. ASSUME NEW i \in 1..Len(s) PROVE s2[i + 1] = s[i]
    <3>1. s2[1 + i] = s[i]
      BY <2>1, <2>2, ConcatProperties
    <3> QED
      BY <2>2, <3>1
  <2> QED
    BY <2>2, <2>3, <2>4
<1> HIDE DEF s2
<1>2. CASE h \in 1..Len(s)
  <2>1. PICK i : i = Len(s) + 1 - h
    OBVIOUS
  <2>2. i \in 1..Len(s) /\ Len(s2) + 1 - h = i + 1 /\ h \in 1..Len(s2) /\ h # Len(s) + 1
    BY <1>1, <1>2, <2>1
  <2>3. s2[Len(s2) + 1 - h] = s[Len(s) + 1 - h]
    BY <1>1, <2>1, <2>2
  <2> QED
    BY <1>2, <2>2, <2>3 DEF PlaceIn, s2
<1>3. CASE h = Len(s) + 1
  <2>1. h \in 1..Len(s2) /\ Len(s2) + 1 - h = 1 /\ h \notin 1..Len(s)
    BY <1>1, <1>3
  <2> QED
    BY <1>1, <1>3, <2>1 DEF PlaceIn, s2
<1>4. CASE h \notin 1..Len(s) /\ h # Len(s) + 1
  <2>1. h \notin 1..Len(s2)
    BY <1>1, <1>4
  <2> QED
    BY <1>4, <2>1 DEF PlaceIn, s2
<1> QED
  BY <1>2, <1>3, <1>4

PlacesOf(w, h, n) == {<<w, h, k>> : k \in 1..n}

LEMMA PlacesOfCall ==
  ASSUME NEW w, NEW h, NEW n \in Nat
  PROVE  IsFiniteSet(PlacesOf(w, h, n)) /\ Cardinality(PlacesOf(w, h, n)) = n
<1> DEFINE A == 1..n
           B == {<<w, h, k>> : k \in 1..n}
           f == [k \in A |-> <<w, h, k>>]
           g == [x \in B |-> x[3]]
<1>1. IsFiniteSet(A) /\ Cardinality(A) = n
  <2>1. IsFiniteSet(1..n) /\ Cardinality(1..n) = IF 1 > n THEN 0 ELSE n - 1 + 1
    BY FS_Interval
  <2> QED
    BY <2>1
<1>2. f \in [A -> B] /\ g \in [B -> A] /\ \A k \in A : g[f[k]] = k /\ \A x \in B : f[g[x]] = x
  OBVIOUS
<1> HIDE DEF A, B, f, g
<1>3. IsFiniteSet(B) /\ Cardinality(B) = Cardinality(A)
  <2>1. SP!IsFiniteSet(B) /\ SP!Cardinality(B) = SP!Cardinality(A)
    BY <1>1, <1>2, SP!SameSize, SameCounting, RootsAreTasks
  <2> QED
    BY <2>1, SameCounting
<1> QED
  BY <1>1, <1>3 DEF B, PlacesOf

(* K is J with one more call of w. *)
CallMade(J, K, w, f) ==
  /\ f \in WalkFrame
  /\ J[w].frames \in Seq(WalkFrame) /\ K[w].frames = <<f>> \o J[w].frames
  /\ \A v \in Worker \ {w} : K[v].frames = J[v].frames

LEMMA HeldCallPlaces ==
  ASSUME NEW J, NEW K, NEW w \in Worker, NEW f, NEW b, CallMade(J, K, w, f)
  PROVE  \E N : /\ HeldIn(K, b) = HeldIn(J, b) \cup N /\ HeldIn(J, b) \cap N = {}
                /\ IsFiniteSet(N) /\ Cardinality(N) = Share(f, b)
<1> USE DEF CallMade
<1>1. PICK s : s = J[w].frames /\ s \in Seq(WalkFrame)
  OBVIOUS
<1> DEFINE h0 == Len(s) + 1
           N == IF f.barrier = b THEN {<<w, h0, k>> : k \in 1..Amount(f)} ELSE {}
<1>2. ASSUME NEW x
      PROVE  x \in HeldIn(K, b) <=> x \in HeldIn(J, b) \/ x \in N
  <2>1. \A h, k : PlaceIn(K[w].frames, b, h, k) <=>
          PlaceIn(J[w].frames, b, h, k) \/ (h = h0 /\ f.barrier = b /\ k \in 1..Amount(f))
    BY <1>1, CallPlaces
  <2>2. \A v \in Worker \ {w} : \A h, k :
          PlaceIn(K[v].frames, b, h, k) <=> PlaceIn(J[v].frames, b, h, k)
    OBVIOUS
  <2>3. x \in N <=> \E k : x = <<w, h0, k>> /\ f.barrier = b /\ k \in 1..Amount(f)
    OBVIOUS
  <2> HIDE DEF N, h0
  <2>4. x \in HeldIn(K, b) => x \in HeldIn(J, b) \/ x \in N
    <3> SUFFICES ASSUME x \in HeldIn(K, b) PROVE x \in HeldIn(J, b) \/ x \in N
      OBVIOUS
    <3>1. PICK v, h, k : x = <<v, h, k>> /\ v \in Worker /\ PlaceIn(K[v].frames, b, h, k)
      BY HeldPlaces
    <3>2. PlaceIn(J[v].frames, b, h, k) \/ (v = w /\ h = h0 /\ f.barrier = b /\ k \in 1..Amount(f))
      BY <2>1, <2>2, <3>1
    <3> QED
      BY <2>3, <3>1, <3>2, HeldPlaces
  <2>5. x \in HeldIn(J, b) => x \in HeldIn(K, b)
    <3> SUFFICES ASSUME x \in HeldIn(J, b) PROVE x \in HeldIn(K, b)
      OBVIOUS
    <3>1. PICK v, h, k : x = <<v, h, k>> /\ v \in Worker /\ PlaceIn(J[v].frames, b, h, k)
      BY HeldPlaces
    <3>2. PlaceIn(K[v].frames, b, h, k)
      BY <2>1, <2>2, <3>1
    <3> QED
      BY <3>1, <3>2, HeldPlaces
  <2>6. x \in N => x \in HeldIn(K, b)
    BY <2>1, <2>3, HeldPlaces
  <2> QED
    BY <2>4, <2>5, <2>6
<1>3. \A x \in N : x \notin HeldIn(J, b)
  <2> SUFFICES ASSUME NEW x \in N, x \in HeldIn(J, b) PROVE FALSE
    OBVIOUS
  <2>1. PICK v, h, k : x = <<v, h, k>> /\ v \in Worker /\ PlaceIn(J[v].frames, b, h, k)
    BY HeldPlaces
  <2>2. PICK i : x = <<w, h0, i>>
    OBVIOUS
  <2>3. v = w /\ h = Len(s) + 1
    BY <2>1, <2>2
  <2>4. h \in 1..Len(s) /\ Len(s) \in Nat
    BY <1>1, <2>1, <2>3, LenProperties DEF PlaceIn
  <2> QED
    BY <2>3, <2>4
<1>4. IsFiniteSet(N) /\ Cardinality(N) = Share(f, b)
  <2>1. CASE f.barrier = b
    <3>1. PICK h, n : h = h0 /\ n = Amount(f) /\ n \in Nat
      BY FrameAmounts
    <3>2. IsFiniteSet(PlacesOf(w, h, n)) /\ Cardinality(PlacesOf(w, h, n)) = n
      BY <3>1, PlacesOfCall
    <3>3. N = PlacesOf(w, h, n)
      BY <2>1, <3>1 DEF PlacesOf
    <3> QED
      BY <2>1, <3>1, <3>2, <3>3 DEF Share
  <2>2. CASE f.barrier # b
    BY <2>2, FS_EmptySet DEF Share
  <2> QED
    BY <2>1, <2>2
<1> HIDE DEF N
<1>5. HeldIn(K, b) = HeldIn(J, b) \cup N /\ HeldIn(J, b) \cap N = {}
  BY <1>2, <1>3
<1> QED
  BY <1>4, <1>5

LEMMA HeldCallMade ==
  ASSUME NEW J, NEW K, NEW w \in Worker, NEW f, NEW b, CallMade(J, K, w, f),
         IsFiniteSet(HeldIn(J, b)) \/ IsFiniteSet(HeldIn(K, b))
  PROVE  /\ IsFiniteSet(HeldIn(J, b)) /\ IsFiniteSet(HeldIn(K, b))
         /\ Cardinality(HeldIn(J, b)) \in Nat /\ Cardinality(HeldIn(K, b)) \in Nat
         /\ Cardinality(HeldIn(K, b)) = Cardinality(HeldIn(J, b)) + Share(f, b)
<1>1. PICK N : /\ HeldIn(K, b) = HeldIn(J, b) \cup N /\ HeldIn(J, b) \cap N = {}
               /\ IsFiniteSet(N) /\ Cardinality(N) = Share(f, b)
  BY HeldCallPlaces
<1>2. PICK X, Y : X = HeldIn(J, b) /\ Y = HeldIn(K, b)
  OBVIOUS
<1>3. Y = X \cup N /\ X \cap N = {} /\ X \subseteq Y
  BY <1>1, <1>2
<1>4. IsFiniteSet(X)
  BY <1>2, <1>3, FS_Subset
<1>5. IsFiniteSet(Y) /\ Cardinality(Y) = Cardinality(X) + Cardinality(N) - Cardinality(X \cap N)
  BY <1>1, <1>3, <1>4, FS_Union
<1>6. /\ Cardinality(X \cap N) = 0 /\ Cardinality(X) \in Nat /\ Cardinality(N) \in Nat
      /\ Cardinality(Y) \in Nat
  BY <1>1, <1>3, <1>4, <1>5, FS_EmptySet, FS_CardinalityType
<1> QED
  BY <1>1, <1>2, <1>4, <1>5, <1>6

(* The innermost call of w is over. *)
LEMMA HeldCallEnded ==
  ASSUME NEW J, NEW K, NEW w \in Worker, NEW b,
         J[w].frames \in Seq(WalkFrame), J[w].frames # <<>>, K[w].frames = Tail(J[w].frames),
         \A v \in Worker \ {w} : K[v].frames = J[v].frames,
         IsFiniteSet(HeldIn(J, b))
  PROVE  /\ IsFiniteSet(HeldIn(K, b)) /\ Cardinality(HeldIn(K, b)) \in Nat
         /\ Cardinality(HeldIn(J, b)) = Cardinality(HeldIn(K, b)) + Share(Head(J[w].frames), b)
<1>1. PICK f : f = Head(J[w].frames)
  OBVIOUS
<1>2. f \in WalkFrame /\ K[w].frames \in Seq(WalkFrame) /\ J[w].frames = <<f>> \o K[w].frames
  BY <1>1, HeadTailProperties
<1>3. CallMade(K, J, w, f)
  BY <1>2 DEF CallMade
<1>4. /\ IsFiniteSet(HeldIn(K, b)) /\ Cardinality(HeldIn(K, b)) \in Nat
      /\ Cardinality(HeldIn(J, b)) = Cardinality(HeldIn(K, b)) + Share(f, b)
  BY <1>3, HeldCallMade
<1> QED
  BY <1>1, <1>4

(* The innermost call of w changes. *)
CallChanged(J, K, w, f, g) ==
  /\ J[w].frames \in Seq(WalkFrame) /\ J[w].frames # <<>> /\ f = Head(J[w].frames)
  /\ g \in WalkFrame /\ K[w].frames = <<g>> \o Tail(J[w].frames)
  /\ \A v \in Worker \ {w} : K[v].frames = J[v].frames

LEMMA HeldCallChanged ==
  ASSUME NEW J, NEW K, NEW w \in Worker, NEW b, NEW f, NEW g, CallChanged(J, K, w, f, g),
         IsFiniteSet(HeldIn(J, b))
  PROVE  /\ IsFiniteSet(HeldIn(K, b)) /\ Cardinality(HeldIn(K, b)) \in Nat
         /\ Cardinality(HeldIn(J, b)) \in Nat
         /\ Cardinality(HeldIn(K, b)) + Share(f, b) = Cardinality(HeldIn(J, b)) + Share(g, b)
<1> USE DEF CallChanged
<1>1. PICK I : I = [v \in Worker |-> IF v = w THEN [frames |-> Tail(J[w].frames)] ELSE J[v]]
  OBVIOUS
<1>2. I[w].frames = Tail(J[w].frames) /\ \A v \in Worker \ {w} : I[v].frames = J[v].frames
  BY <1>1
<1>3. Head(J[w].frames) \in WalkFrame /\ I[w].frames \in Seq(WalkFrame)
  BY <1>2, HeadTailProperties
<1>4. /\ IsFiniteSet(HeldIn(I, b)) /\ Cardinality(HeldIn(I, b)) \in Nat
      /\ Cardinality(HeldIn(J, b)) \in Nat
      /\ Cardinality(HeldIn(J, b)) = Cardinality(HeldIn(I, b)) + Share(Head(J[w].frames), b)
  <2>1. CallMade(I, J, w, Head(J[w].frames))
    BY <1>2, <1>3, HeadTailProperties DEF CallMade
  <2> QED
    BY <2>1, HeldCallMade
<1>5. /\ IsFiniteSet(HeldIn(K, b)) /\ Cardinality(HeldIn(K, b)) \in Nat
      /\ Cardinality(HeldIn(K, b)) = Cardinality(HeldIn(I, b)) + Share(g, b)
  <2>1. CallMade(I, K, w, g)
    BY <1>2, <1>3 DEF CallMade
  <2> QED
    BY <1>4, <2>1, HeldCallMade
<1> QED
  BY SMTT(90), <1>3, <1>4, <1>5, FrameAmounts

LEMMA HeldSame ==
  ASSUME NEW J, NEW K, NEW b, \A v \in Worker : K[v].frames = J[v].frames
  PROVE  HeldIn(K, b) = HeldIn(J, b)
<1>1. ASSUME NEW x PROVE x \in HeldIn(K, b) <=> x \in HeldIn(J, b)
  <2>1. x \in HeldIn(K, b) <=>
          \E w, h, k : x = <<w, h, k>> /\ w \in Worker /\ PlaceIn(K[w].frames, b, h, k)
    BY HeldPlaces
  <2>2. x \in HeldIn(J, b) <=>
          \E w, h, k : x = <<w, h, k>> /\ w \in Worker /\ PlaceIn(J[w].frames, b, h, k)
    BY HeldPlaces
  <2> QED
    BY <2>1, <2>2
<1> QED
  BY <1>1

-----------------------------------------------------------------------------
(* The records below a barrier, and what a barrier waits for               *)

BelowIn(table, b) == {c \in DOMAIN table : table[c].parent = b}
DueIn(table, b) == IF b \in DOMAIN table THEN table[b].remaining ELSE 0

(* What one more record r under id changes for barrier b. *)
OneMoreRecord(table, t, id, r, b) ==
  /\ DOMAIN t = DOMAIN table \cup {id}
  /\ IsFiniteSet(BelowIn(t, b))
  /\ Cardinality(BelowIn(t, b)) \in Nat /\ Cardinality(BelowIn(table, b)) \in Nat
  /\ Cardinality(BelowIn(t, b)) = Cardinality(BelowIn(table, b)) + Bit(r.parent = b)
  /\ DueIn(t, b) = IF b = id THEN r.remaining ELSE DueIn(table, b)

LEMMA RecordInserted ==
  ASSUME NEW table, NEW id, NEW r, NEW b, id \notin DOMAIN table, IsFiniteSet(BelowIn(table, b))
  PROVE  OneMoreRecord(table, Insert(table, id, r), id, r, b)
<1>0. PICK t : t = Insert(table, id, r)
  OBVIOUS
<1>1. DOMAIN t = DOMAIN table \cup {id}
      /\ \A c \in DOMAIN t : t[c] = IF c = id THEN r ELSE table[c]
  BY <1>0 DEF Insert
<1>2. \A c : c # id => (c \in BelowIn(table, b) <=> c \in BelowIn(t, b))
  BY <1>1 DEF BelowIn
<1>3. id \notin BelowIn(table, b) /\ (id \in BelowIn(t, b) <=> r.parent = b)
  BY <1>1 DEF BelowIn
<1>4. PICK X, Y : X = BelowIn(table, b) /\ Y = BelowIn(t, b)
  OBVIOUS
<1>5. /\ IsFiniteSet(Y) /\ Cardinality(X) \in Nat /\ Cardinality(Y) \in Nat
      /\ Cardinality(Y) + Bit(id \in X) = Cardinality(X) + Bit(id \in Y)
  BY <1>2, <1>4, OneChanged
<1>6. DueIn(t, b) = IF b = id THEN r.remaining ELSE DueIn(table, b)
  BY <1>1 DEF DueIn
<1> QED
  BY <1>0, <1>1, <1>3, <1>4, <1>5, <1>6 DEF Bit, OneMoreRecord

(* The units of a batch that starts: its record's, and one for its parent.   *)
BatchBegun(table, t, f, p, b) ==
  /\ IsFiniteSet(BelowIn(t, b))
  /\ Cardinality(BelowIn(t, b)) \in Nat /\ Cardinality(BelowIn(table, b)) \in Nat
  /\ Cardinality(BelowIn(t, b)) + Share(f, b) + DueIn(table, b)
       = Cardinality(BelowIn(table, b)) + Bit(p = b) + DueIn(t, b)

LEMMA BatchStarted ==
  ASSUME NEW table, NEW nodes, nodes \in Chunk, NEW p, NEW id, id \notin DOMAIN table,
         NEW b, b # 0, IsFiniteSet(BelowIn(table, b))
  PROVE  BatchBegun(table, AddBatch(table, nodes, p, id), BatchFor(nodes, p, id), p, b)
<1> USE DEF BatchBegun
<1>1. Len(nodes) \in Nat /\ Len(nodes) >= 1
  BY LenProperties, EmptySeq DEF Chunk
<1>2. CASE NeedsBatch(nodes, p)
  <2>0. PICK r : r = BatchRecord(Len(nodes), p)
    OBVIOUS
  <2>1. r.parent = p /\ r.remaining = Len(nodes)
    BY <2>0 DEF BatchRecord
  <2>2. Share(BatchFor(nodes, p, id), b) = IF b = id THEN Len(nodes) ELSE 0
    BY <1>1, <1>2 DEF BatchFor, BatchFrame, Share, Amount
  <2>3. b = id => DueIn(table, b) = 0
    BY DEF DueIn
  <2>4. AddBatch(table, nodes, p, id) = Insert(table, id, r)
    BY <1>2, <2>0 DEF AddBatch
  <2>5. PICK t : t = Insert(table, id, r)
    OBVIOUS
  <2>6. /\ IsFiniteSet(BelowIn(t, b))
        /\ Cardinality(BelowIn(t, b)) \in Nat /\ Cardinality(BelowIn(table, b)) \in Nat
        /\ Cardinality(BelowIn(t, b)) = Cardinality(BelowIn(table, b)) + Bit(r.parent = b)
        /\ DueIn(t, b) = IF b = id THEN r.remaining ELSE DueIn(table, b)
    <3>1. OneMoreRecord(table, Insert(table, id, r), id, r, b)
      BY RecordInserted
    <3> QED
      BY <2>5, <3>1 DEF OneMoreRecord
  <2>7. CASE b = id
    <3>1. DueIn(t, b) = Len(nodes) /\ DueIn(table, b) = 0 /\ Share(BatchFor(nodes, p, id), b) = Len(nodes)
      BY <2>1, <2>2, <2>3, <2>6, <2>7
    <3>2. Cardinality(BelowIn(t, b)) = Cardinality(BelowIn(table, b)) + Bit(p = b)
      BY <2>1, <2>6
    <3>3. Bit(p = b) \in Nat
      BY DEF Bit
    <3> QED
      BY <1>1, <2>4, <2>5, <2>6, <3>1, <3>2, <3>3
  <2>8. CASE b # id
    <3>1. DueIn(t, b) = DueIn(table, b) /\ Share(BatchFor(nodes, p, id), b) = 0
      BY <2>2, <2>6, <2>8
    <3>2. Cardinality(BelowIn(t, b)) = Cardinality(BelowIn(table, b)) + Bit(p = b)
      BY <2>1, <2>6
    <3>3. Cardinality(BelowIn(t, b)) + 0 = Cardinality(BelowIn(t, b))
      BY <2>6
    <3> QED
      BY <2>4, <2>5, <2>6, <3>1, <3>2, <3>3
  <2> QED
    BY <2>7, <2>8
<1>3. CASE ~NeedsBatch(nodes, p)
  <2>1. AddBatch(table, nodes, p, id) = table
    BY <1>3 DEF AddBatch
  <2>2. PICK n : n = Len(nodes) /\ n \in Nat /\ n >= 1
    BY <1>1
  <2>3. p = 0 \/ n = 1
    BY <1>3, <2>2 DEF NeedsBatch, NoBarrier
  <2>a. BatchFor(nodes, p, id) = BatchFrame(nodes, p)
    BY <1>3 DEF BatchFor
  <2>b. Share(BatchFrame(nodes, p), b) = IF p = b THEN n ELSE 0
    BY <2>2 DEF BatchFrame, Share, Amount
  <2>5. Share(BatchFor(nodes, p, id), b) = Bit(p = b)
    BY <2>2, <2>3, <2>a, <2>b DEF Bit
  <2>4. Cardinality(BelowIn(table, b)) \in Nat
    BY FS_CardinalityType
  <2> QED
    BY <2>1, <2>4, <2>5
<1> QED
  BY <1>2, <1>3

-----------------------------------------------------------------------------
(* The tasks that report to a barrier                                      *)

TasksTo(b) == {t \in WalkTask : t.barrier = b}

TasksAreUnstarted == QueuesFit => \A b : TasksFor(b) = SP!UnstartedIn(TasksTo(b))

LEMMA TasksForIs == TasksAreUnstarted
<1> SUFFICES ASSUME QueuesFit, NEW b PROVE TasksFor(b) = SP!UnstartedIn(TasksTo(b))
  BY DEF TasksAreUnstarted
<1> DEFINE got == {w \in Worker : pc[w] = "got"}
           out == {w \in Worker : pc[w] \in {"count", "push"}}
<1>1. Unstarted = SP!SlotsOf(injector, deque, got, out)
  BY DEF Unstarted, SP!SlotsOf, S!SlotsOf, SP!Worker, S!Worker
<1>2. SP!Got = got /\ SP!Publishing = out
  BY DEF SP!Got, SP!Publishing, SP!Worker, S!Worker, Worker
<1>3. ASSUME NEW s \in SP!SlotsOf(injector, deque, got, out)
      PROVE  S!TaskIn(s) \in WalkTask
  <2>1. PICK q, i : /\ s = <<q, i>>
                    /\ \/ q = 0 /\ i \in 1..Len(injector)
                       \/ q \in SP!Worker /\ i \in 1..Len(deque[q])
                       \/ q \in got /\ i = 0
                       \/ q \in out /\ i = -1
    BY SP!SlotMembership, RootsAreTasks
  <2>2. SP!Worker = Worker /\ \A w \in Worker : w # 0
    BY DEF SP!Worker, Worker, S!Worker
  <2>3. s[1] = q /\ s[2] = i
    BY <2>1
  <2>4. CASE q = 0 /\ i \in 1..Len(injector)
    BY <2>3, <2>4, ElementOfSeq DEF QueuesFit, S!TaskIn
  <2>5. CASE q \in Worker /\ i \in 1..Len(deque[q])
    <3>1. deque[q] \in Seq(WalkTask)
      BY <2>5 DEF QueuesFit
    <3>2. deque[q][i] \in WalkTask /\ i # 0 /\ i # -1
      BY <2>5, <3>1, LenProperties, ElementOfSeq
    <3> QED
      BY <2>2, <2>3, <2>5, <3>2 DEF S!TaskIn
  <2>6. CASE q \in got /\ i = 0
    BY <2>2, <2>3, <2>6 DEF QueuesFit, S!TaskIn
  <2>7. CASE q \in out /\ i = -1
    BY <2>2, <2>3, <2>7 DEF QueuesFit, S!TaskIn
  <2> QED
    BY <2>1, <2>2, <2>4, <2>5, <2>6, <2>7
<1>4. SP!UnstartedIn(TasksTo(b)) = {s \in SP!SlotsOf(injector, deque, got, out) : S!TaskIn(s) \in TasksTo(b)}
  BY <1>2 DEF SP!UnstartedIn, SP!UnstartedOf, S!TaskIn
<1> QED
  BY <1>1, <1>3, <1>4 DEF TasksFor, TasksTo

LEMMA TasksForIsNext == TasksAreUnstarted'
BY TasksForIs, PTL

LEMMA TasksPushed ==
  ASSUME NEW w \in Worker, NEW t \in WalkTask, S!BeginPush(w, t), SP!TypeOK,
         QueuesFit, QueuesFit', NEW b, IsFiniteSet(TasksFor(b))
  PROVE  /\ IsFiniteSet(TasksFor(b)')
         /\ Cardinality(TasksFor(b)) \in Nat /\ Cardinality(TasksFor(b)') \in Nat
         /\ Cardinality(TasksFor(b)') = Cardinality(TasksFor(b)) + Bit(accept /\ t.barrier = b)
<1>1. SP!BeginPush(w, t) /\ w \in SP!Worker
  BY DEF S!BeginPush, SP!BeginPush, S!control, SP!control, S!queues, SP!queues,
         S!history, SP!history, SP!Worker, Worker, S!Worker
<1>2. PICK U : U = TasksTo(b)
  OBVIOUS
<1>3. TasksTo(b)' = TasksTo(b)
  BY DEF TasksTo
<1>4. /\ SP!UnstartedIn(U)' = (IF accept /\ t \in U THEN SP!UnstartedIn(U) \cup {<<w, -1>>}
                               ELSE SP!UnstartedIn(U))
      /\ <<w, -1>> \notin SP!UnstartedIn(U)
  BY <1>1, SP!PushMakesUnstarted, RootsAreTasks
<1>5. TasksFor(b) = SP!UnstartedIn(U) /\ TasksFor(b)' = SP!UnstartedIn(U)'
  <2>1. TasksFor(b) = SP!UnstartedIn(TasksTo(b))
    BY TasksForIs DEF TasksAreUnstarted
  <2>2. TasksFor(b)' = SP!UnstartedIn(TasksTo(b))'
    BY TasksForIsNext DEF TasksAreUnstarted
  <2> QED
    BY <1>2, <1>3, <2>1, <2>2
<1>6. PICK X, Y : X = TasksFor(b) /\ Y = TasksFor(b)'
  OBVIOUS
<1>7. \A s : s # <<w, -1>> => (s \in X <=> s \in Y)
  BY <1>4, <1>5, <1>6
<1>8. <<w, -1>> \notin X /\ (<<w, -1>> \in Y <=> accept /\ t.barrier = b)
  BY <1>2, <1>4, <1>5, <1>6 DEF TasksTo
<1>9. /\ IsFiniteSet(Y) /\ Cardinality(X) \in Nat /\ Cardinality(Y) \in Nat
      /\ Cardinality(Y) + Bit(<<w, -1>> \in X) = Cardinality(X) + Bit(<<w, -1>> \in Y)
  BY <1>6, <1>7, OneChanged
<1> QED
  BY <1>6, <1>8, <1>9 DEF Bit

-----------------------------------------------------------------------------
(* Bodies, stops and failures                                              *)

(* A worker without a task has no job, and one that publishes or quits has   *)
(* begun; between two nodes nothing is to be reported.  New work is refused  *)
(* only after a -quit or a failure.                                          *)
BodiesKnown ==
  /\ \A w \in Worker :
       /\ pc[w] \notin {"run", "count", "push", "quit"} => job[w] = NoJob
       /\ pc[w] \in {"count", "push", "quit"} => job[w].step # "idle"
       /\ job[w].step \in {"next", "publish"} => job[w].notify = NoBarrier
       /\ pc[w] = "quit" \/ job[w].step = "leave" => quit
       /\ pc[w] \in {"fatal", "stop", "alert", "dead"} => failed # {}
  /\ ~accept => quit \/ failed # {}
  /\ fatal => failed # {}

LEMMA BodiesInit == Init => BodiesKnown
BY DEF Init, S!SchedInit, BodiesKnown, NoJob, Worker

(* What LoopMoves says, for the scheduler of the engine. *)
LEMMA EngineLoopMoves ==
  ASSUME EngineInv, NEW w \in Worker, LoopStep(w)
  PROVE  /\ \E b \in S!Location : pc' = [pc EXCEPT ![w] = b] /\ SP!LoopMove(w, pc[w], b)
         /\ UNCHANGED <<quit, failed>>
         /\ accept' = accept \/ (pc[w] \in {"stop", "quit"} /\ accept' = FALSE)
         /\ fatal' = fatal \/ pc[w] = "fatal"
         /\ UNCHANGED <<job, barriers, nextBarrier, evals, errors>>
<1>1. w \in SP!Worker /\ SP!TypeOK /\ SP!WorkerLoop(w)
  BY SameLoop DEF Worker, S!Worker, SP!Worker, EngineInv, SP!SchedInv, LoopStep
<1>2. S!Location = SP!Location
  BY DEF S!Location, SP!Location
<1> QED
  BY <1>1, <1>2, SP!LoopMoves, RootsAreTasks DEF LoopStep, barrierVars, treeVars

(* What a step of a task body does to the scheduler, for short. *)
LEMMA TaskMoves ==
  ASSUME EngineInv, NEW w \in Worker, TaskStep(w)
  PROVE  /\ pc[w] = "run" /\ \A u \in Worker \ {w} : pc'[u] = pc[u] /\ pub'[u] = pub[u]
         /\ UNCHANGED <<accept, fatal, injector, deque, task>>
         /\ \/ UNCHANGED schedVars
            \/ /\ PublishChunk(w) \/ ReleaseDirectory(w)
               /\ pc'[w] = (IF accept THEN "count" ELSE "run")
               /\ failed' = failed /\ quit' = quit
            \/ EvalQuits(w) /\ pc'[w] = "quit" /\ pub' = pub /\ failed' = failed /\ quit'
            \/ /\ EndTask(w) \/ LeaveAfterQuit(w)
               /\ pc'[w] = "finish" /\ pub' = pub /\ failed' = failed /\ quit' = quit
            \/ /\ EvalFails(w)
               /\ pc'[w] = "finish" /\ pub' = pub /\ failed' = failed \cup {w} /\ quit' = quit
<1>0. pc \in [Worker -> S!Location] /\ pub \in [Worker -> EngineTask \cup {NoTask}]
  BY SchedulerTypes DEF S!TypeOK, Worker
<1>1. CASE PublishChunk(w)
  BY <1>0, <1>1 DEF PublishChunk, At, S!BeginPush, S!control, S!queues
<1>2. CASE EvalQuits(w)
  BY <1>0, <1>2 DEF EvalQuits, At, S!StoreQuit, S!Goto, S!queues
<1>3. CASE EndTask(w)
  BY <1>0, <1>3 DEF EndTask, At, S!TaskReturns, S!Goto, S!control, S!queues
<1>4. CASE LeaveAfterQuit(w)
  BY <1>0, <1>4 DEF LeaveAfterQuit, At, S!TaskReturns, S!Goto, S!control, S!queues
<1>5. CASE EvalFails(w)
  BY <1>0, <1>5 DEF EvalFails, At, S!TaskReturns, S!Goto, S!control, S!queues
<1>6. CASE ReleaseDirectory(w)
  BY <1>0, <1>6 DEF ReleaseDirectory, At, S!BeginPush, S!control, S!queues
<1>7. CASE pc[w] = "run" /\ UNCHANGED schedVars
  BY ZenonT(120), <1>7 DEF schedVars
<1>8. \/ PublishChunk(w) \/ EvalQuits(w) \/ EndTask(w) \/ LeaveAfterQuit(w) \/ EvalFails(w)
      \/ ReleaseDirectory(w)
      \/ pc[w] = "run" /\ UNCHANGED schedVars
  BY ZenonT(120) DEF TaskStep, StartChunk, StartResume, EndBatch, VisitNext, OpenDirectory,
         OpenFails, ListBadItem, ListChild, AbandonListing, ListedEmpty, BeginDirectory,
         LeaveDirectory, PublishRest, PublishDone, EvalOk, NotifyEnds, FinishUnit,
         FinishLastUnit, At
<1> QED
  BY <1>1, <1>2, <1>3, <1>4, <1>5, <1>6, <1>7, <1>8

LEMMA OnlyOwnJob ==
  ASSUME NEW w \in Worker, TaskStep(w), JobsFit
  PROVE  \A u \in Worker \ {w} : job'[u] = job[u]
<1>1. job \in [Worker -> WalkJob]
  BY DEF JobsFit
<1>2. \A j : Update(w, j) => \A u \in Worker \ {w} : job'[u] = job[u]
  BY <1>1 DEF Update
<1> QED
  BY ZenonT(120), <1>2 DEF TaskStep, StartChunk, StartResume, EndTask, EndBatch, VisitNext, OpenDirectory,
         OpenFails, ListBadItem, ListChild, AbandonListing, ListedEmpty, BeginDirectory,
         LeaveDirectory, PublishRest, PublishChunk, PublishDone, EvalOk, EvalQuits,
         LeaveAfterQuit, EvalFails, NotifyEnds, FinishUnit, FinishLastUnit, ReleaseDirectory

(* Where a body goes on. *)
LEMMA JobMoves ==
  ASSUME NEW w \in Worker, TaskStep(w), JobsFit, QueuesFit, TableFits, BodiesKnown
  PROVE  /\ job[w] \in WalkJob
         /\ EndTask(w) \/ LeaveAfterQuit(w) \/ EvalFails(w) => job'[w] = NoJob
         /\ job'[w].step = "idle" => EndTask(w) \/ LeaveAfterQuit(w) \/ EvalFails(w)
         /\ job'[w].step \in {"next", "publish"} => job'[w].notify = NoBarrier
         /\ job'[w].step = "leave" => EvalQuits(w)
<1>a. job \in [Worker -> WalkJob] /\ job[w] \in WalkJob
  BY DEF JobsFit
<1>b. \A j : Update(w, j) => job'[w] = j
  BY <1>a DEF Update
<1>c. /\ EndTask(w) \/ LeaveAfterQuit(w) \/ EvalFails(w) => job'[w] = NoJob
      /\ NoJob.step = "idle" /\ NoJob.notify = NoBarrier
  BY <1>b DEF EndTask, LeaveAfterQuit, EvalFails, NoJob
<1>1. CASE StartChunk(w) \/ StartResume(w)
  <2>1. job[w].step = "idle"
    BY <1>1 DEF StartChunk, StartResume, At
  <2>2. ASSUME StartChunk(w) PROVE job'[w].step = "next" /\ job'[w].notify = NoBarrier
    <3>1. PICK fr : job'[w] = [NoJob EXCEPT !.step = "next", !.frames = fr]
      BY <1>b, <2>2 DEF StartChunk
    <3> QED
      BY <3>1 DEF NoJob
  <2>3. ASSUME StartResume(w) PROVE job'[w].step \in {"eval", "notify"}
    <3>1. PICK s, n, p : /\ s = IF IsEvaluatedAt(task[w].nodes[1]) THEN "eval" ELSE "notify"
                         /\ n = task[w].nodes[1] /\ p = task[w].barrier
      OBVIOUS
    <3>2. job'[w] = [NoJob EXCEPT !.step = s, !.at = n, !.notify = p, !.resume = TRUE]
      BY <1>b, <2>3, <3>1 DEF StartResume
    <3>3. job'[w].step = s
      BY <3>2 DEF NoJob
    <3> QED
      BY <3>1, <3>3
  <2> QED
    BY <1>1, <1>a, <1>c, <2>1, <2>2, <2>3
<1>2. CASE EndTask(w) \/ LeaveAfterQuit(w) \/ EvalFails(w)
  BY <1>2, <1>a, <1>c
<1>3. CASE EndBatch(w) \/ LeaveDirectory(w) \/ PublishRest(w) \/ PublishChunk(w) \/ PublishDone(w)
  <2>1. job[w].step \in {"next", "publish"} /\ job[w].notify = NoBarrier
    BY <1>3 DEF EndBatch, LeaveDirectory, PublishRest, PublishChunk, PublishDone, At, BodiesKnown
  <2>2. /\ job'[w].step \in {"next", "publish"} /\ job'[w].notify = job[w].notify
    BY <1>3, <1>a, <1>b, <2>1 DEF EndBatch, LeaveDirectory, PublishRest, PublishChunk, PublishDone,
       WalkJob, At
  <2> QED
    BY <1>a, <2>1, <2>2, <1>3 DEF EndBatch, LeaveDirectory, PublishRest, PublishChunk, PublishDone,
       EndTask, LeaveAfterQuit, EvalFails, At
<1>4. CASE VisitNext(w)
  <2>1. job'[w].step \in {"notify", "open", "eval"}
    BY ZenonT(120), <1>4, <1>a, <1>b, VisitIs DEF VisitNext, CompleteStep, WalkJob
  <2> QED
    BY <1>a, <1>4, <2>1 DEF VisitNext, EndTask, LeaveAfterQuit, EvalFails, At
<1>5. CASE OpenDirectory(w) \/ OpenFails(w) \/ ListBadItem(w)
  BY ZenonT(120), <1>5, <1>a, <1>b DEF OpenDirectory, OpenFails, ListBadItem, CompleteStep, WalkJob, At,
     EndTask, LeaveAfterQuit, EvalFails
<1>6. CASE ListChild(w)
  <2>1. job'[w].step = "list"
    BY <1>6, <1>a, <1>b DEF ListChild, Accumulate, At, WalkJob
  <2> QED
    BY <1>a, <1>6, <2>1 DEF ListChild, At, EndTask, LeaveAfterQuit, EvalFails
<1>7. CASE AbandonListing(w) \/ ListedEmpty(w) \/ BeginDirectory(w)
  <2>1. job[w].step = "list"
    BY <1>7 DEF AbandonListing, ListedEmpty, BeginDirectory, At
  <2>2. CASE ListedEmpty(w)
    <3>1. job'[w].step \in {"eval", "notify"}
      BY <1>a, <1>b, <2>2 DEF ListedEmpty, CompleteStep, WalkJob
    <3> QED
      BY <1>a, <2>1, <3>1 DEF At, EndTask, LeaveAfterQuit, EvalFails
  <2>3. CASE AbandonListing(w) \/ BeginDirectory(w)
    <3>1. job'[w].step = "next" /\ job'[w].notify = NoBarrier
      BY ZenonT(120), <1>a, <1>b, <2>3 DEF AbandonListing, BeginDirectory, AfterListing, WalkJob
    <3> QED
      BY <1>a, <2>1, <3>1 DEF At, EndTask, LeaveAfterQuit, EvalFails
  <2> QED
    BY <1>7, <2>2, <2>3
<1>8. CASE EvalOk(w) \/ EvalQuits(w)
  <2>1. job'[w].step \in {"notify", "leave"} /\ (EvalOk(w) => job'[w].step = "notify")
    BY <1>8, <1>a, <1>b DEF EvalOk, EvalQuits, WalkJob
  <2>2. job[w].step = "eval"
    BY <1>8 DEF EvalOk, EvalQuits, At
  <2> QED
    BY <1>a, <1>c, <1>8, <2>1, <2>2
<1>9. CASE NotifyEnds(w) \/ FinishUnit(w) \/ ReleaseDirectory(w)
  <2>1. job'[w].step = "next" /\ job'[w].notify = NoBarrier
    <3>1. job'[w] = Notified(job[w])
      BY <1>9, <1>b DEF NotifyEnds, FinishUnit, ReleaseDirectory
    <3> QED
      BY <1>a, <3>1 DEF Notified, WalkJob
  <2>2. job[w].step \in {"notify", "release"}
    BY <1>9 DEF NotifyEnds, FinishUnit, ReleaseDirectory, At
  <2> QED
    BY <1>a, <2>1, <2>2 DEF At, EndTask, LeaveAfterQuit, EvalFails
<1>10. CASE FinishLastUnit(w)
  <2>1. job[w].step = "notify"
    BY <1>10 DEF FinishLastUnit, At
  <2>2. PICK n, p : \/ job'[w] = [job[w] EXCEPT !.notify = p]
                    \/ job'[w] = [job[w] EXCEPT !.step = "release", !.at = n, !.notify = p]
    BY <1>10, <1>b DEF FinishLastUnit
  <2>3. job'[w].step \in {"notify", "release"}
    BY <1>a, <2>1, <2>2 DEF WalkJob
  <2> QED
    BY <1>a, <2>1, <2>3 DEF At, EndTask, LeaveAfterQuit, EvalFails
<1> QED
  BY <1>1, <1>2, <1>3, <1>4, <1>5, <1>6, <1>7, <1>8, <1>9, <1>10 DEF TaskStep

LEMMA BodiesStep == EngineInv /\ BodiesKnown /\ [Next]_vars => BodiesKnown'
<1> SUFFICES ASSUME EngineInv, BodiesKnown, [Next]_vars PROVE BodiesKnown'
  OBVIOUS
<1>0. /\ pc \in [Worker -> S!Location] /\ failed \subseteq Worker
      /\ accept \in BOOLEAN /\ quit \in BOOLEAN /\ fatal \in BOOLEAN
      /\ JobsFit /\ QueuesFit /\ TableFits /\ NoJob.step = "idle" /\ NoJob.notify = NoBarrier
  BY SchedulerTypes DEF S!TypeOK, EngineInv, Worker, NoJob
<1>1. CASE UNCHANGED vars
  BY <1>1 DEF vars, schedVars, BodiesKnown
<1>2. ASSUME NEW w \in Worker, LoopStep(w)
      PROVE  BodiesKnown'
  <2>1. PICK b \in S!Location : pc' = [pc EXCEPT ![w] = b] /\ SP!LoopMove(w, pc[w], b)
    BY <1>2, EngineLoopMoves
  <2>2. /\ UNCHANGED <<quit, failed, job>>
        /\ accept' = accept \/ pc[w] \in {"stop", "quit"}
        /\ fatal' = fatal \/ pc[w] = "fatal"
    BY <1>2, EngineLoopMoves
  <2>3. /\ b \in {"fatal", "stop", "alert", "dead"} => failed # {}
        /\ b = "quit" => pc[w] = "quit"
        /\ b \in {"count", "push"} => pc[w] \in {"count", "push"}
        /\ b \notin {"run", "count", "push", "quit"} =>
             pc[w] \notin {"run", "count", "push", "quit"}
    <3>1. /\ b = "quit" => pc[w] = "quit"
          /\ b \in {"count", "push"} => pc[w] \in {"count", "push"}
          /\ b \notin {"run", "count", "push", "quit"} =>
               pc[w] \notin {"run", "count", "push", "quit"}
      BY <2>1 DEF SP!LoopMove, SP!Searching
    <3>2. b \in {"fatal", "stop", "alert", "dead"} =>
            w \in failed \/ pc[w] \in {"fatal", "stop", "alert", "dead"}
      BY <2>1 DEF SP!LoopMove, SP!Searching
    <3> QED
      BY <3>1, <3>2 DEF BodiesKnown
  <2> QED
    BY <1>0, <2>1, <2>2, <2>3 DEF BodiesKnown
<1>3. ASSUME NEW w \in Worker, TaskStep(w)
      PROVE  BodiesKnown'
  <2>1. /\ \A u \in Worker \ {w} : job'[u] = job[u] /\ pc'[u] = pc[u]
        /\ accept' = accept /\ fatal' = fatal /\ (quit => quit')
        /\ failed \subseteq failed' /\ pc[w] = "run"
    BY <1>3, <1>0, TaskMoves, OnlyOwnJob DEF schedVars
  <2>2. \/ pc'[w] = "run" /\ ~EndTask(w) /\ ~LeaveAfterQuit(w) /\ ~EvalFails(w)
        \/ pc'[w] = "count" /\ (PublishChunk(w) \/ ReleaseDirectory(w))
        \/ pc'[w] = "quit" /\ EvalQuits(w)
        \/ pc'[w] = "finish" /\ (EndTask(w) \/ LeaveAfterQuit(w) \/ EvalFails(w))
    <3>1. EndTask(w) \/ LeaveAfterQuit(w) \/ EvalFails(w) => pc'[w] = "finish"
      BY <1>0 DEF EndTask, LeaveAfterQuit, EvalFails, S!TaskReturns, S!Goto
    <3> QED
      BY <1>3, <3>1, TaskMoves DEF schedVars
  <2>3. /\ EndTask(w) \/ LeaveAfterQuit(w) \/ EvalFails(w) => job'[w] = NoJob
        /\ job'[w].step = "idle" => EndTask(w) \/ LeaveAfterQuit(w) \/ EvalFails(w)
        /\ job'[w].step \in {"next", "publish"} => job'[w].notify = NoBarrier
        /\ job'[w].step = "leave" => EvalQuits(w)
    BY <1>0, <1>3, JobMoves
  <2>4. EvalQuits(w) => quit'
    BY DEF EvalQuits, S!StoreQuit
  <2>5. ~(PublishChunk(w) /\ (EndTask(w) \/ LeaveAfterQuit(w) \/ EvalFails(w)))
        /\ ~(ReleaseDirectory(w) /\ (EndTask(w) \/ LeaveAfterQuit(w) \/ EvalFails(w)))
        /\ ~(EvalQuits(w) /\ (EndTask(w) \/ LeaveAfterQuit(w)))
    BY DEF PublishChunk, ReleaseDirectory, EndTask, LeaveAfterQuit, EvalFails, EvalQuits, At
  <2>6. EvalQuits(w) => job'[w].step # "idle"
    BY <1>0 DEF EvalQuits, Update, JobsFit, WalkJob
  <2> QED
    BY <1>0, <2>1, <2>2, <2>3, <2>4, <2>5, <2>6 DEF BodiesKnown
<1> QED
  BY <1>1, <1>2, <1>3 DEF Next

-----------------------------------------------------------------------------
(* What is on its way to a barrier                                         *)

IsBusy(w, b) == (At(w, "idle") /\ task[w].barrier = b) \/ job[w].notify = b

LEMMA BusyChanges ==
  ASSUME NEW b, NEW w \in Worker,
         \A v \in Worker \ {w} : pc'[v] = pc[v] /\ task'[v] = task[v] /\ job'[v] = job[v]
  PROVE  /\ Cardinality(BusyFor(b)) \in Nat /\ Cardinality(BusyFor(b)') \in Nat
         /\ Cardinality(BusyFor(b)') + Bit(IsBusy(w, b)) = Cardinality(BusyFor(b)) + Bit(IsBusy(w, b)')
         /\ IsBusy(w, b) => Cardinality(BusyFor(b)) >= 1
<1>1. PICK X, Y : X = BusyFor(b) /\ Y = BusyFor(b)'
  OBVIOUS
<1>2. X = {v \in Worker : IsBusy(v, b)} /\ Y = {v \in Worker : IsBusy(v, b)'}
  BY <1>1 DEF BusyFor, IsBusy
<1>3. \A v \in Worker \ {w} : IsBusy(v, b)' <=> IsBusy(v, b)
  BY DEF IsBusy, At
<1>4. \A v : v # w => (v \in X <=> v \in Y)
  BY <1>2, <1>3
<1>5. (w \in X <=> IsBusy(w, b)) /\ (w \in Y <=> IsBusy(w, b)')
  BY <1>2
<1>6. IsFiniteSet(X)
  <2>1. NWorkers \in Nat
    BY PostOrderAssumption
  <2>2. IsFiniteSet(1..NWorkers)
    BY <2>1, FS_Interval
  <2>3. X \subseteq 1..NWorkers
    BY <1>2 DEF Worker, S!Worker
  <2> QED
    BY <2>2, <2>3, FS_Subset
<1>7. /\ Cardinality(X) \in Nat /\ Cardinality(Y) \in Nat
      /\ Cardinality(Y) + Bit(w \in X) = Cardinality(X) + Bit(w \in Y)
  BY <1>4, <1>6, OneChanged
<1>8. IsBusy(w, b) => Cardinality(X) >= 1
  <2> SUFFICES ASSUME IsBusy(w, b) PROVE Cardinality(X) >= 1
    OBVIOUS
  <2>1. X # {}
    BY <1>5
  <2> QED
    BY <1>6, <1>7, <2>1, FS_EmptySet
<1> QED
  BY <1>1, <1>5, <1>7, <1>8 DEF Bit

(* A step of a task body changes what its worker is busy with. *)
LEMMA TaskBusy ==
  ASSUME NEW b, NEW w \in Worker, TaskStep(w), EngineInv, BodiesKnown
  PROVE  /\ Cardinality(BusyFor(b)) \in Nat /\ Cardinality(BusyFor(b)') \in Nat
         /\ Cardinality(BusyFor(b)')
              + Bit((job[w].step = "idle" /\ task[w].barrier = b) \/ job[w].notify = b)
              = Cardinality(BusyFor(b)) + Bit(job'[w].notify = b)
         /\ job[w].notify = b => Cardinality(BusyFor(b)) >= 1
<1>0. JobsFit /\ QueuesFit /\ TableFits
  BY DEF EngineInv
<1>1. /\ pc[w] = "run" /\ task' = task
      /\ \A v \in Worker \ {w} : pc'[v] = pc[v] /\ task'[v] = task[v] /\ job'[v] = job[v]
  BY <1>0, TaskMoves, OnlyOwnJob
<1>2. job'[w].step = "idle" => pc'[w] # "run"
  <2>1. job'[w].step = "idle" => EndTask(w) \/ LeaveAfterQuit(w) \/ EvalFails(w)
    BY <1>0, JobMoves
  <2>2. pc \in [Worker -> S!Location]
    BY SchedulerTypes DEF S!TypeOK, Worker
  <2>3. EndTask(w) \/ LeaveAfterQuit(w) \/ EvalFails(w) => pc'[w] = "finish"
    BY <2>2 DEF EndTask, LeaveAfterQuit, EvalFails, S!TaskReturns, S!Goto
  <2> QED
    BY <2>1, <2>3
<1>3. /\ IsBusy(w, b) <=> (job[w].step = "idle" /\ task[w].barrier = b) \/ job[w].notify = b
      /\ IsBusy(w, b)' <=> job'[w].notify = b
  BY <1>1, <1>2 DEF IsBusy, At
<1>4. /\ Cardinality(BusyFor(b)) \in Nat /\ Cardinality(BusyFor(b)') \in Nat
      /\ Cardinality(BusyFor(b)') + Bit(IsBusy(w, b)) = Cardinality(BusyFor(b)) + Bit(IsBusy(w, b)')
      /\ IsBusy(w, b) => Cardinality(BusyFor(b)) >= 1
  BY <1>1, BusyChanges
<1> QED
  BY <1>3, <1>4 DEF Bit

LEMMA TasksSame ==
  ASSUME NEW w \in Worker, NEW b, EngineInv, EngineInv',
         \/ UNCHANGED schedVars
         \/ S!StoreQuit(w)
         \/ \E ok \in BOOLEAN : S!TaskReturns(w, ok)
  PROVE  TasksFor(b)' = TasksFor(b)
<1>1. CASE UNCHANGED schedVars
  BY <1>1 DEF schedVars, TasksFor, Unstarted, S!SlotsOf, S!TaskIn
<1>2. CASE S!StoreQuit(w) \/ \E ok \in BOOLEAN : S!TaskReturns(w, ok)
  <2>1. SP!StoreQuit(w) \/ \E ok \in BOOLEAN : SP!TaskReturns(w, ok)
    BY <1>2 DEF S!StoreQuit, SP!StoreQuit, S!TaskReturns, SP!TaskReturns, S!Goto, SP!Goto,
         S!control, SP!control, S!queues, SP!queues, S!history, SP!history
  <2>2. w \in SP!Worker /\ SP!TypeOK
    BY SchedulerTypes DEF Worker, S!Worker, SP!Worker
  <2>3. PICK U : U = TasksTo(b)
    OBVIOUS
  <2>4. SP!UnstartedIn(U)' = SP!UnstartedIn(U)
    BY <2>1, <2>2, SP!BodyKeepsUnstarted, RootsAreTasks
  <2>5. TasksTo(b)' = TasksTo(b)
    BY DEF TasksTo
  <2>6. TasksFor(b) = SP!UnstartedIn(TasksTo(b)) /\ TasksFor(b)' = SP!UnstartedIn(TasksTo(b))'
    BY TasksForIs, TasksForIsNext DEF TasksAreUnstarted, EngineInv
  <2> QED
    BY <2>3, <2>4, <2>5, <2>6
<1> QED
  BY <1>1, <1>2

-----------------------------------------------------------------------------
(* The account of a barrier                                                *)

Finite(b) == IsFiniteSet(RecordsBelow(b)) /\ IsFiniteSet(TasksFor(b)) /\ IsFiniteSet(HeldFor(b))

(* What is on its way is what the barrier waits for; after a stop, some of   *)
(* it never comes.                                                           *)
Balanced(b) ==
  /\ Finite(b)
  /\ UnitsOf(b) <= DueIn(barriers, b)
  /\ ~quit /\ failed = {} => UnitsOf(b) = DueIn(barriers, b)

CountsInv == \A b \in Nat \ {0} : Balanced(b)

(* Each step moves units, and drops them only when the walk is stopped. *)
Settles(b) ==
  /\ Finite(b)'
  /\ \/ UnitsOf(b)' + DueIn(barriers, b) = UnitsOf(b) + DueIn(barriers, b)'
     \/ /\ UnitsOf(b)' + DueIn(barriers, b) <= UnitsOf(b) + DueIn(barriers, b)'
        /\ quit' \/ failed' # {}

LEMMA NumbersAre ==
  ASSUME NEW b, EngineInv, Finite(b)
  PROVE  /\ Cardinality(RecordsBelow(b)) \in Nat /\ Cardinality(TasksFor(b)) \in Nat
         /\ Cardinality(HeldFor(b)) \in Nat /\ Cardinality(BusyFor(b)) \in Nat
         /\ UnitsOf(b) \in Nat /\ DueIn(barriers, b) \in Nat
         /\ UnitsOf(b) >= Cardinality(BusyFor(b))
<1>1. /\ Cardinality(RecordsBelow(b)) \in Nat /\ Cardinality(TasksFor(b)) \in Nat
      /\ Cardinality(HeldFor(b)) \in Nat
  BY FS_CardinalityType DEF Finite
<1>2. Cardinality(BusyFor(b)) \in Nat
  <2>1. NWorkers \in Nat
    BY PostOrderAssumption
  <2>2. IsFiniteSet(1..NWorkers)
    BY <2>1, FS_Interval
  <2>3. BusyFor(b) \subseteq 1..NWorkers
    BY DEF BusyFor, Worker, S!Worker
  <2> QED
    BY <2>2, <2>3, FS_Subset, FS_CardinalityType
<1>3. DueIn(barriers, b) \in Nat
  BY DEF DueIn, EngineInv, TableFits, WalkRecord
<1> QED
  BY <1>1, <1>2, <1>3 DEF UnitsOf

NumbersOf(b) == EngineInv /\ Finite(b) => UnitsOf(b) \in Nat /\ DueIn(barriers, b) \in Nat
NumbersFit == \A b : NumbersOf(b)

LEMMA NumbersFitNow == NumbersFit
BY NumbersAre DEF NumbersFit, NumbersOf

LEMMA NumbersFitNext == NumbersFit'
BY NumbersFitNow, PTL

LEMMA BalanceKept ==
  ASSUME NEW b, Balanced(b), EngineInv, EngineInv', Settles(b), quit => quit', failed \subseteq failed'
  PROVE  Balanced(b)'
<1>1. UnitsOf(b) \in Nat /\ DueIn(barriers, b) \in Nat
  BY NumbersFitNow DEF NumbersFit, NumbersOf, Balanced
<1>2. UnitsOf(b)' \in Nat /\ DueIn(barriers, b)' \in Nat
  BY NumbersFitNext DEF NumbersFit, NumbersOf, Settles
<1>3. PICK U, V, D, E : /\ U = UnitsOf(b) /\ V = UnitsOf(b)'
                        /\ D = DueIn(barriers, b) /\ E = DueIn(barriers, b)'
  OBVIOUS
<1>4. /\ U \in Nat /\ V \in Nat /\ D \in Nat /\ E \in Nat
      /\ U <= D /\ (~quit /\ failed = {} => U = D)
      /\ V + D = U + E \/ (V + D <= U + E /\ (quit' \/ failed' # {}))
  BY <1>1, <1>2, <1>3 DEF Balanced, Settles
<1>5. V <= E /\ (~quit' /\ failed' = {} => V = E)
  <2>1. ~quit' /\ failed' = {} => ~quit /\ failed = {}
    OBVIOUS
  <2>2. CASE V + D = U + E
    BY <1>4, <2>1, <2>2
  <2>3. CASE V + D <= U + E /\ (quit' \/ failed' # {})
    BY <1>4, <2>3
  <2> QED
    BY <1>4, <2>2, <2>3
<1> QED
  BY <1>3, <1>5 DEF Balanced, Settles

-----------------------------------------------------------------------------
(* Every step of a task body settles                                       *)

Stock(b) == Cardinality(BelowIn(barriers, b)) + Cardinality(TasksFor(b)) + Cardinality(HeldIn(job, b))
Stored(b) == IsFiniteSet(BelowIn(barriers, b)) /\ IsFiniteSet(TasksFor(b)) /\ IsFiniteSet(HeldIn(job, b))

(* Worker w's own unit, before and after a step of its body. *)
Had(w, b) == (job[w].step = "idle" /\ task[w].barrier = b) \/ job[w].notify = b
Has(w, b) == job'[w].notify = b

LEMMA StoredIs == \A b : Stored(b) <=> Finite(b)
BY HeldIs DEF Stored, Finite, RecordsBelow, BelowIn

LEMMA StoredIsNext ==
  ASSUME NEW b
  PROVE  /\ Stored(b)' <=> Finite(b)'
         /\ UnitsOf(b)' = Stock(b)' + Cardinality(BusyFor(b)')
         /\ UnitsOf(b) = Stock(b) + Cardinality(BusyFor(b))
<1>1. HeldFor(b) = HeldIn(job, b) /\ HeldFor(b)' = HeldIn(job', b)
  BY DEF HeldFor, HeldIn, Call, CallsFor
<1>2. RecordsBelow(b) = BelowIn(barriers, b) /\ RecordsBelow(b)' = BelowIn(barriers', b)
  BY DEF RecordsBelow, BelowIn
<1> QED
  BY <1>1, <1>2 DEF Stored, Finite, Stock, UnitsOf

LEMMA TaskSettles ==
  ASSUME NEW b, NEW w \in Worker, TaskStep(w), EngineInv, EngineInv', BodiesKnown, Finite(b),
         Stored(b)',
         \/ Stock(b)' + Bit(Has(w, b)) + DueIn(barriers, b)
              = Stock(b) + Bit(Had(w, b)) + DueIn(barriers', b)
         \/ /\ Stock(b)' + Bit(Has(w, b)) + DueIn(barriers, b)
                 <= Stock(b) + Bit(Had(w, b)) + DueIn(barriers', b)
            /\ quit' \/ failed' # {}
  PROVE  Settles(b)
<1>1. PICK X, Y, x, y, B, C, D, E : /\ X = Stock(b) /\ Y = Stock(b)'
                                    /\ x = Bit(Had(w, b)) /\ y = Bit(Has(w, b))
                                    /\ B = Cardinality(BusyFor(b)) /\ C = Cardinality(BusyFor(b)')
                                    /\ D = DueIn(barriers, b) /\ E = DueIn(barriers', b)
  OBVIOUS
<1>2. B \in Nat /\ C \in Nat /\ C + x = B + y
  BY <1>1, TaskBusy DEF Had, Has
<1>3. x \in Nat /\ y \in Nat
  BY <1>1 DEF Bit
<1>4. X \in Nat /\ Y \in Nat
  <2>1. /\ Cardinality(BelowIn(barriers, b)) \in Nat /\ Cardinality(TasksFor(b)) \in Nat
        /\ Cardinality(HeldIn(job, b)) \in Nat
    BY StoredIs, FS_CardinalityType DEF Stored
  <2>2. /\ Cardinality(BelowIn(barriers', b)) \in Nat /\ Cardinality(TasksFor(b)') \in Nat
        /\ Cardinality(HeldIn(job', b)) \in Nat
    BY FS_CardinalityType DEF Stored
  <2> QED
    BY <1>1, <2>1, <2>2 DEF Stock
<1>5. D \in Nat /\ E \in Nat
  BY <1>1 DEF DueIn, EngineInv, TableFits, WalkRecord
<1>6. \/ Y + y + D = X + x + E
      \/ Y + y + D <= X + x + E /\ (quit' \/ failed' # {})
  BY <1>1
<1>7. UnitsOf(b) = X + B /\ UnitsOf(b)' = Y + C
  BY <1>1, StoredIsNext
<1>8. DueIn(barriers, b)' = E
  BY <1>1 DEF DueIn
<1>9. \/ (Y + C) + D = (X + B) + E
      \/ (Y + C) + D <= (X + B) + E /\ (quit' \/ failed' # {})
  BY <1>2, <1>3, <1>4, <1>5, <1>6
<1>10. Finite(b)'
  BY StoredIsNext
<1> QED
  BY <1>1, <1>7, <1>8, <1>9, <1>10 DEF Settles

(* Steps that touch neither the calls nor the table nor the queues. *)
QuietStep(w) ==
  \/ StartResume(w) \/ EndTask(w) \/ OpenDirectory(w) \/ OpenFails(w) \/ ListBadItem(w)
  \/ ListChild(w) \/ AbandonListing(w) \/ ListedEmpty(w) \/ PublishRest(w)
  \/ EvalOk(w) \/ EvalQuits(w) \/ NotifyEnds(w)

LEMMA ResumeStarts ==
  ASSUME NEW w \in Worker, StartResume(w), JobsFit
  PROVE  /\ job[w] = NoJob /\ job[w].notify = NoBarrier /\ job[w].step = "idle"
         /\ job'[w].frames = job[w].frames /\ job'[w].notify = task[w].barrier
<1>1. job \in [Worker -> WalkJob] /\ AtNode(job[w])
  BY DEF JobsFit
<1>2. job[w] = NoJob
  BY <1>1 DEF StartResume, At, AtNode
<1>3. PICK s, n, p : /\ s = IF IsEvaluatedAt(task[w].nodes[1]) THEN "eval" ELSE "notify"
                     /\ n = task[w].nodes[1] /\ p = task[w].barrier
  OBVIOUS
<1>4. job'[w] = [NoJob EXCEPT !.step = s, !.at = n, !.notify = p, !.resume = TRUE]
  BY <1>1, <1>3 DEF StartResume, Update
<1> QED
  BY <1>2, <1>3, <1>4 DEF NoJob

LEMMA QuietJobs ==
  ASSUME NEW w \in Worker, QuietStep(w), EngineInv
  PROVE  /\ \A v \in Worker : job'[v].frames = job[v].frames
         /\ barriers' = barriers
<1>a. job \in [Worker -> WalkJob] /\ job[w] \in WalkJob /\ AtNode(job[w])
  BY DEF EngineInv, JobsFit
<1>b. \A j : Update(w, j) => job'[w] = j
  BY <1>a DEF Update
<1>1. \A v \in Worker \ {w} : job'[v] = job[v]
  BY OnlyOwnJob DEF EngineInv, QuietStep, TaskStep
<1>2. barriers' = barriers
  BY DEF QuietStep, StartResume, EndTask, OpenDirectory, OpenFails, ListBadItem, ListChild,
         AbandonListing, ListedEmpty, PublishRest, EvalOk, EvalQuits, NotifyEnds, barrierVars
<1>3. job'[w].frames = job[w].frames
  <2>1. CASE StartResume(w)
    BY <2>1, ResumeStarts DEF EngineInv
  <2>2. CASE EndTask(w)
    BY <1>b, <2>2 DEF EndTask, NoJob
  <2>3. CASE OpenDirectory(w) \/ OpenFails(w) \/ ListBadItem(w)
    BY <1>a, <1>b, <2>3 DEF OpenDirectory, OpenFails, ListBadItem, WalkJob
  <2>4. CASE ListChild(w)
    BY <1>a, <1>b, <2>4 DEF ListChild, Accumulate, WalkJob
  <2>5. CASE AbandonListing(w) \/ ListedEmpty(w)
    BY ZenonT(120), <1>a, <1>b, <2>5 DEF AbandonListing, AfterListing, ListedEmpty, WalkJob
  <2>6. CASE PublishRest(w) \/ EvalOk(w) \/ EvalQuits(w)
    BY <1>a, <1>b, <2>6 DEF PublishRest, EvalOk, EvalQuits, WalkJob
  <2>7. CASE NotifyEnds(w)
    BY <1>a, <1>b, <2>7 DEF NotifyEnds, Notified, WalkJob
  <2> QED
    BY <2>1, <2>2, <2>3, <2>4, <2>5, <2>6, <2>7 DEF QuietStep
<1> QED
  BY <1>1, <1>2, <1>3

LEMMA QuietSettles ==
  ASSUME NEW b \in Nat \ {0}, NEW w \in Worker, QuietStep(w), EngineInv, EngineInv', BodiesKnown,
         Balanced(b)
  PROVE  Settles(b)
<1>0. TaskStep(w)
  BY DEF QuietStep, TaskStep
<1>a. /\ job \in [Worker -> WalkJob] /\ job[w] \in WalkJob /\ AtNode(job[w])
      /\ JobsFit /\ QueuesFit /\ TableFits
  BY DEF EngineInv, JobsFit
<1>b. \A j : Update(w, j) => job'[w] = j
  BY <1>a DEF Update
<1>1. (\A v \in Worker : job'[v].frames = job[v].frames) /\ barriers' = barriers
  BY QuietJobs
<1>2. TasksFor(b)' = TasksFor(b)
  <2>1. UNCHANGED schedVars \/ S!StoreQuit(w) \/ \E ok \in BOOLEAN : S!TaskReturns(w, ok)
    BY DEF QuietStep, StartResume, EndTask, OpenDirectory, OpenFails, ListBadItem, ListChild,
         AbandonListing, ListedEmpty, PublishRest, EvalOk, EvalQuits, NotifyEnds
  <2> QED
    BY <2>1, TasksSame
<1>3. HeldIn(job', b) = HeldIn(job, b)
  <2>1. PICK J, K : J = job /\ K = job'
    OBVIOUS
  <2> QED
    BY <1>1, <2>1, HeldSame
<1>4. Finite(b) /\ Stored(b)
  BY StoredIs DEF Balanced
<1>5. Stored(b)' /\ Stock(b)' = Stock(b)
  BY <1>1, <1>2, <1>3, <1>4 DEF Stored, Stock
<1>6. \/ Has(w, b) <=> Had(w, b)
      \/ ~Has(w, b) /\ (quit' \/ failed' # {})
  <2>1. CASE StartResume(w)
    BY <1>a, <2>1, ResumeStarts DEF Has, Had, NoBarrier
  <2>2. CASE EndTask(w) \/ PublishRest(w)
    <3>1. job[w].step = "next" /\ job[w].notify = NoBarrier
      BY <2>2 DEF EndTask, PublishRest, At, BodiesKnown
    <3>2. job'[w].notify = NoBarrier
      <4>1. CASE EndTask(w)
        BY <1>b, <4>1 DEF EndTask, NoJob
      <4>2. CASE PublishRest(w)
        BY <1>a, <1>b, <3>1, <4>2 DEF PublishRest, WalkJob
      <4> QED
        BY <2>2, <4>1, <4>2
    <3> QED
      BY <3>1, <3>2 DEF Has, Had, NoBarrier
  <2>3. CASE \/ OpenDirectory(w) \/ OpenFails(w) \/ ListBadItem(w) \/ ListChild(w)
             \/ ListedEmpty(w) \/ EvalOk(w) \/ EvalQuits(w)
    <3>1. job[w].step # "idle"
      BY <2>3 DEF OpenDirectory, OpenFails, ListBadItem, ListChild, ListedEmpty, EvalOk, EvalQuits, At
    <3>2. job'[w].notify = job[w].notify
      <4>1. CASE ListChild(w)
        BY <1>a, <1>b, <4>1 DEF ListChild, Accumulate, WalkJob
      <4>2. CASE OpenDirectory(w) \/ OpenFails(w) \/ ListBadItem(w)
        BY <1>a, <1>b, <4>2 DEF OpenDirectory, OpenFails, ListBadItem, WalkJob
      <4>3. CASE ListedEmpty(w) \/ EvalOk(w) \/ EvalQuits(w)
        BY <1>a, <1>b, <4>3 DEF ListedEmpty, EvalOk, EvalQuits, WalkJob
      <4> QED
        BY <2>3, <4>1, <4>2, <4>3
    <3> QED
      BY <3>1, <3>2 DEF Has, Had
  <2>4. CASE AbandonListing(w)
    <3>1. job'[w].notify = NoBarrier
      BY <1>a, <1>b, <2>4 DEF AbandonListing, AfterListing, WalkJob
    <3>2. quit' \/ failed' # {}
      BY <2>4 DEF AbandonListing, Stopping, BodiesKnown, schedVars
    <3> QED
      BY <3>1, <3>2 DEF Has, NoBarrier
  <2>5. CASE NotifyEnds(w)
    <3>1. job'[w].notify = NoBarrier /\ job[w].step = "notify" /\ job[w].notify \notin DOMAIN barriers
      BY <1>a, <1>b, <2>5 DEF NotifyEnds, Notified, WalkJob, At
    <3>2. job[w].notify # b
      <4> SUFFICES ASSUME job[w].notify = b PROVE FALSE
        OBVIOUS
      <4>1. DueIn(barriers, b) = 0
        BY <3>1 DEF DueIn
      <4>2. Cardinality(BusyFor(b)) >= 1
        BY <1>0, TaskBusy
      <4>3. UnitsOf(b) >= Cardinality(BusyFor(b)) /\ UnitsOf(b) \in Nat
            /\ Cardinality(BusyFor(b)) \in Nat
        BY <1>4, NumbersAre
      <4> QED
        BY <4>1, <4>2, <4>3 DEF Balanced
    <3> QED
      BY <3>1, <3>2 DEF Has, Had, NoBarrier
  <2> QED
    BY <2>1, <2>2, <2>3, <2>4, <2>5 DEF QuietStep
<1>7. Stock(b) \in Nat /\ DueIn(barriers, b) \in Nat
  <2>1. /\ Cardinality(BelowIn(barriers, b)) \in Nat /\ Cardinality(TasksFor(b)) \in Nat
        /\ Cardinality(HeldIn(job, b)) \in Nat
    BY <1>4, FS_CardinalityType DEF Stored
  <2> QED
    BY <1>4, <2>1, NumbersAre DEF Stock
<1>8. \/ Bit(Has(w, b)) = Bit(Had(w, b))
      \/ Bit(Has(w, b)) <= Bit(Had(w, b)) /\ (quit' \/ failed' # {})
  BY <1>6 DEF Bit
<1>9. Bit(Has(w, b)) \in Nat /\ Bit(Had(w, b)) \in Nat
  BY DEF Bit
<1>10. \/ Stock(b)' + Bit(Has(w, b)) + DueIn(barriers, b)
            = Stock(b) + Bit(Had(w, b)) + DueIn(barriers', b)
       \/ /\ Stock(b)' + Bit(Has(w, b)) + DueIn(barriers, b)
               <= Stock(b) + Bit(Had(w, b)) + DueIn(barriers', b)
          /\ quit' \/ failed' # {}
  BY <1>1, <1>5, <1>7, <1>8, <1>9
<1> QED
  BY <1>0, <1>4, <1>5, <1>10, TaskSettles

(* The amounts, as numbers. *)
Amounts(b, B, T, H, D) ==
  /\ B = Cardinality(BelowIn(barriers, b)) /\ B \in Nat /\ IsFiniteSet(BelowIn(barriers, b))
  /\ T = Cardinality(TasksFor(b)) /\ T \in Nat /\ IsFiniteSet(TasksFor(b))
  /\ H = Cardinality(HeldIn(job, b)) /\ H \in Nat /\ IsFiniteSet(HeldIn(job, b))
  /\ D = DueIn(barriers, b) /\ D \in Nat

AmountsAfter(b, B, T, H, D) ==
  /\ B = Cardinality(BelowIn(barriers', b)) /\ B \in Nat /\ IsFiniteSet(BelowIn(barriers', b))
  /\ T = Cardinality(TasksFor(b)') /\ T \in Nat /\ IsFiniteSet(TasksFor(b)')
  /\ H = Cardinality(HeldIn(job', b)) /\ H \in Nat /\ IsFiniteSet(HeldIn(job', b))
  /\ D = DueIn(barriers', b)

LEMMA AmountsAre ==
  ASSUME NEW b, EngineInv, Finite(b)
  PROVE  \E B, T, H, D : Amounts(b, B, T, H, D)
<1>1. Stored(b)
  BY StoredIs
<1>2. /\ Cardinality(BelowIn(barriers, b)) \in Nat /\ Cardinality(TasksFor(b)) \in Nat
      /\ Cardinality(HeldIn(job, b)) \in Nat
  BY <1>1, FS_CardinalityType DEF Stored
<1>3. DueIn(barriers, b) \in Nat
  BY NumbersAre
<1> QED
  BY <1>1, <1>2, <1>3 DEF Amounts, Stored

LEMMA AccountSettles ==
  ASSUME NEW b, NEW w \in Worker, TaskStep(w), EngineInv, EngineInv', BodiesKnown, Finite(b),
         NEW B, NEW T, NEW H, NEW D, Amounts(b, B, T, H, D),
         NEW B2, NEW T2, NEW H2, NEW D2, AmountsAfter(b, B2, T2, H2, D2),
         \/ B2 + T2 + H2 + Bit(Has(w, b)) + D = B + T + H + Bit(Had(w, b)) + D2
         \/ /\ B2 + T2 + H2 + Bit(Has(w, b)) + D <= B + T + H + Bit(Had(w, b)) + D2
            /\ quit' \/ failed' # {}
  PROVE  Settles(b)
<1>1. Stored(b)'
  BY DEF Stored, AmountsAfter
<1>2. Stock(b) = B + T + H /\ Stock(b)' = B2 + T2 + H2
  BY DEF Stock, Amounts, AmountsAfter
<1>3. DueIn(barriers, b) = D /\ DueIn(barriers', b) = D2
  BY DEF Amounts, AmountsAfter
<1> QED
  BY <1>1, <1>2, <1>3, TaskSettles

LEMMA StartSettles ==
  ASSUME NEW b \in Nat \ {0}, NEW w \in Worker, StartChunk(w), EngineInv, EngineInv', BodiesKnown,
         Balanced(b)
  PROVE  Settles(b)
<1>1. PICK B, T, H, D : Amounts(b, B, T, H, D)
  BY AmountsAre DEF Balanced
<1>2. PICK J, K, nodes, p, id, f, table :
        /\ J = job /\ K = job' /\ nodes = task[w].nodes /\ p = task[w].barrier
        /\ id = nextBarrier /\ f = BatchFor(nodes, p, id) /\ table = barriers
  OBVIOUS
<1>3. nodes \in Chunk /\ nodes \in Seq(Walked) /\ p \in Barrier /\ f \in WalkFrame
      /\ id \notin DOMAIN table
  <2>1. task[w] \in WalkTask
    BY DEF StartChunk, At, EngineInv, QueuesFit
  <2>2. nodes \in Chunk /\ nodes \in Seq(Walked) /\ p \in Barrier
    BY <1>2, <2>1 DEF WalkTask, Chunk
  <2>3. id \in Nat \ {0} /\ id \notin DOMAIN table
    BY <1>2 DEF EngineInv, TableFits
  <2> QED
    BY <1>2, <2>2, <2>3, BatchFits DEF Barrier
<1>4. job \in [Worker -> WalkJob] /\ job[w] = NoJob
      /\ job' = [job EXCEPT ![w] = [NoJob EXCEPT !.step = "next", !.frames = <<f>>]]
  BY <1>2 DEF EngineInv, JobsFit, AtNode, StartChunk, At, Update
<1>5. CallMade(J, K, w, f)
  <2>1. J[w].frames = <<>> /\ K[w].frames = <<f>> /\ \A v \in Worker \ {w} : K[v].frames = J[v].frames
    BY <1>2, <1>4 DEF NoJob
  <2>2. <<f>> = <<f>> \o <<>> /\ <<>> \in Seq(WalkFrame)
    OBVIOUS
  <2> QED
    BY <1>3, <2>1, <2>2 DEF CallMade
<1>6. /\ IsFiniteSet(HeldIn(J, b)) /\ IsFiniteSet(HeldIn(K, b))
      /\ Cardinality(HeldIn(K, b)) \in Nat
      /\ Cardinality(HeldIn(K, b)) = Cardinality(HeldIn(J, b)) + Share(f, b)
  <2>1. IsFiniteSet(HeldIn(J, b))
    BY <1>1, <1>2 DEF Amounts
  <2> QED
    BY <1>5, <2>1, HeldCallMade
<1>7. PICK t : t = AddBatch(table, nodes, p, id) /\ t = barriers'
  BY <1>2 DEF StartChunk
<1>8. /\ IsFiniteSet(BelowIn(t, b))
      /\ Cardinality(BelowIn(t, b)) \in Nat /\ Cardinality(BelowIn(table, b)) \in Nat
      /\ Cardinality(BelowIn(t, b)) + Share(f, b) + DueIn(table, b)
           = Cardinality(BelowIn(table, b)) + Bit(p = b) + DueIn(t, b)
  <2>1. IsFiniteSet(BelowIn(table, b)) /\ b # 0
    BY <1>1, <1>2 DEF Amounts
  <2> QED
    <3>1. BatchBegun(table, AddBatch(table, nodes, p, id), BatchFor(nodes, p, id), p, b)
      BY <1>3, <2>1, BatchStarted
    <3> QED
      BY <1>2, <1>7, <3>1 DEF BatchBegun
<1>9. TasksFor(b)' = TasksFor(b)
  BY TasksSame DEF StartChunk
<1>10. PICK B2, H2, D2 : /\ B2 = Cardinality(BelowIn(t, b)) /\ H2 = Cardinality(HeldIn(K, b))
                         /\ D2 = DueIn(t, b)
  OBVIOUS
<1>11. AmountsAfter(b, B2, T, H2, D2)
  BY <1>1, <1>2, <1>6, <1>7, <1>8, <1>9, <1>10 DEF Amounts, AmountsAfter
<1>12. Had(w, b) <=> p = b
  BY <1>2, <1>4 DEF Had, NoJob, NoBarrier
<1>13. ~Has(w, b)
  BY <1>4 DEF Has, NoJob, NoBarrier
<1>14. B2 + T + H2 + Bit(Has(w, b)) + D = B + T + H + Bit(Had(w, b)) + D2
  <2>1. PICK s, x : s = Share(f, b) /\ x = Bit(p = b)
    OBVIOUS
  <2>2. H2 = H + s /\ B2 + s + D = B + x + D2
    BY <1>1, <1>2, <1>6, <1>8, <1>10, <2>1 DEF Amounts
  <2>3. s \in Nat /\ x \in Nat /\ Bit(Has(w, b)) = 0 /\ Bit(Had(w, b)) = x
    BY <1>3, <1>12, <1>13, <2>1, FrameAmounts DEF Bit
  <2>4. B2 \in Nat /\ T \in Nat /\ D \in Nat /\ H \in Nat /\ B \in Nat /\ D2 \in Nat
    <3>1. D2 \in Nat
      BY <1>7, <1>10 DEF DueIn, EngineInv, TableFits, WalkRecord
    <3> QED
      BY <1>1, <1>11, <3>1 DEF Amounts, AmountsAfter
  <2> QED
    BY <2>2, <2>3, <2>4
<1> QED
  BY <1>1, <1>11, <1>14, AccountSettles DEF TaskStep, Balanced

(* A call that is over, or given up. *)
LEMMA EndSettles ==
  ASSUME NEW b \in Nat \ {0}, NEW w \in Worker,
         EndBatch(w) \/ LeaveDirectory(w) \/ PublishDone(w),
         EngineInv, EngineInv', BodiesKnown, Balanced(b)
  PROVE  Settles(b)
<1>1. PICK B, T, H, D : Amounts(b, B, T, H, D)
  BY AmountsAre DEF Balanced
<1>2. PICK J, K, s, f : J = job /\ K = job' /\ s = job[w].frames /\ f = Head(s)
  OBVIOUS
<1>a. /\ job \in [Worker -> WalkJob] /\ job[w] \in WalkJob /\ AtNode(job[w])
  BY DEF EngineInv, JobsFit
<1>b. \A j : Update(w, j) => job'[w] = j
  BY <1>a DEF Update
<1>3. s \in Seq(WalkFrame) /\ s # <<>>
  BY <1>a, <1>2 DEF EndBatch, LeaveDirectory, PublishDone, At, AtNode, WalkJob
<1>4. f \in WalkFrame
  BY <1>2, <1>3, HeadTailProperties
<1>5. K[w].frames = Tail(s) /\ job'[w].notify = job[w].notify
  <2>1. CASE EndBatch(w)
    <3>1. PICK q : job'[w] = [job[w] EXCEPT !.frames = Tail(@), !.sawQuit = q]
      BY <1>b, <2>1 DEF EndBatch
    <3> QED
      BY <1>a, <1>2, <3>1 DEF WalkJob
  <2>2. CASE LeaveDirectory(w)
    BY <1>a, <1>b, <1>2, <2>2 DEF LeaveDirectory, WalkJob
  <2>3. CASE PublishDone(w)
    BY <1>a, <1>b, <1>2, <2>3 DEF PublishDone, WalkJob
  <2> QED
    BY <2>1, <2>2, <2>3
<1>6. /\ IsFiniteSet(HeldIn(K, b)) /\ Cardinality(HeldIn(K, b)) \in Nat
      /\ Cardinality(HeldIn(J, b)) = Cardinality(HeldIn(K, b)) + Share(f, b)
  <2>1. \A v \in Worker \ {w} : K[v].frames = J[v].frames
    BY <1>2, OnlyOwnJob DEF TaskStep, EngineInv
  <2>2. IsFiniteSet(HeldIn(J, b))
    BY <1>1, <1>2 DEF Amounts
  <2>3. J[w].frames \in Seq(WalkFrame) /\ J[w].frames # <<>> /\ K[w].frames = Tail(J[w].frames)
        /\ f = Head(J[w].frames)
    BY <1>2, <1>3, <1>5
  <2> QED
    BY SMTT(90), <2>1, <2>2, <2>3, HeldCallEnded
<1>7. TasksFor(b)' = TasksFor(b) /\ barriers' = barriers
  BY TasksSame DEF EndBatch, LeaveDirectory, PublishDone, barrierVars
<1>8. PICK H2 : H2 = Cardinality(HeldIn(K, b))
  OBVIOUS
<1>9. AmountsAfter(b, B, T, H2, D)
  BY <1>1, <1>2, <1>6, <1>7, <1>8 DEF Amounts, AmountsAfter
<1>10. Has(w, b) <=> Had(w, b)
  BY <1>5 DEF Has, Had, EndBatch, LeaveDirectory, PublishDone, At
<1>11. Share(f, b) = 0 \/ quit' \/ failed' # {}
  <2>1. CASE EndBatch(w)
    <3>1. f.kind = "batch" /\ (f.nodes = <<>> \/ quit \/ failed # {})
      BY <1>2, <2>1 DEF EndBatch, Stopping, BodiesKnown
    <3>2. f.chunks = <<>>
      BY <1>4, <3>1 DEF WalkFrame
    <3>3. UNCHANGED <<quit, failed>>
      BY <2>1 DEF EndBatch, schedVars
    <3> QED
      BY <3>1, <3>2, <3>3 DEF Share, Amount
  <2>2. CASE LeaveDirectory(w)
    BY <2>2 DEF LeaveDirectory, BodiesKnown, schedVars
  <2>3. CASE PublishDone(w)
    <3>1. f.kind = "dir" /\ f.chunks = <<>>
      BY <1>2, <1>a, <2>3 DEF PublishDone, At, AtNode
    <3>2. f.nodes = <<>>
      BY <1>4, <3>1 DEF WalkFrame
    <3> QED
      BY <3>1, <3>2 DEF Share, Amount
  <2> QED
    BY <2>1, <2>2, <2>3
<1>12. \/ B + T + H2 + Bit(Has(w, b)) + D = B + T + H + Bit(Had(w, b)) + D
       \/ /\ B + T + H2 + Bit(Has(w, b)) + D <= B + T + H + Bit(Had(w, b)) + D
          /\ quit' \/ failed' # {}
  <2>1. PICK z, x : z = Share(f, b) /\ x = Bit(Had(w, b))
    OBVIOUS
  <2>2. H = H2 + z /\ z \in Nat /\ x \in Nat /\ x = Bit(Has(w, b))
    BY <1>1, <1>2, <1>4, <1>6, <1>8, <1>10, <2>1, FrameAmounts DEF Amounts, Bit
  <2>3. B \in Nat /\ T \in Nat /\ H \in Nat /\ H2 \in Nat /\ D \in Nat
    BY <1>1, <1>9 DEF Amounts, AmountsAfter
  <2>4. z = 0 \/ quit' \/ failed' # {}
    BY <1>11, <2>1
  <2> QED
    BY <2>1, <2>2, <2>3, <2>4
<1> QED
  BY <1>1, <1>9, <1>12, AccountSettles DEF TaskStep, Balanced

(* The next node of a batch: the unit it was becomes what w is busy with. *)
LEMMA VisitSettles ==
  ASSUME NEW b \in Nat \ {0}, NEW w \in Worker, VisitNext(w), EngineInv, EngineInv', BodiesKnown,
         Balanced(b)
  PROVE  Settles(b)
<1>1. PICK B, T, H, D : Amounts(b, B, T, H, D)
  BY AmountsAre DEF Balanced
<1>2. PICK J, K, s, f, g : J = job /\ K = job' /\ s = job[w].frames /\ f = Head(s)
                           /\ g = [f EXCEPT !.nodes = Tail(@)]
  OBVIOUS
<1>a. /\ job \in [Worker -> WalkJob] /\ job[w] \in WalkJob
  BY DEF EngineInv, JobsFit
<1>3. s \in Seq(WalkFrame) /\ s # <<>>
  BY <1>a, <1>2 DEF VisitNext, WalkJob
<1>4. f \in WalkFrame /\ f.kind = "batch" /\ f.nodes # <<>>
  BY <1>2, <1>3, HeadTailProperties DEF VisitNext
<1>5. /\ f.nodes \in Seq(Walked) /\ Tail(f.nodes) \in Seq(Walked) /\ f.chunks = <<>>
      /\ Len(f.nodes) \in Nat /\ Len(Tail(f.nodes)) \in Nat /\ Len(f.nodes) = Len(Tail(f.nodes)) + 1
  <2>1. f.nodes \in Seq(Walked) /\ f.chunks = <<>>
    BY <1>4 DEF WalkFrame
  <2>2. Tail(f.nodes) \in Seq(Walked) /\ Len(Tail(f.nodes)) = Len(f.nodes) - 1
    BY <1>4, <2>1, HeadTailProperties
  <2>3. Len(f.nodes) \in Nat /\ Len(Tail(f.nodes)) \in Nat
    BY <2>1, <2>2, LenProperties
  <2> QED
    BY <2>1, <2>2, <2>3
<1>6. g \in WalkFrame /\ g.barrier = f.barrier /\ g.chunks = <<>> /\ g.nodes = Tail(f.nodes)
  BY <1>2, <1>4, <1>5 DEF WalkFrame
<1>7. Share(f, b) = Share(g, b) + Bit(f.barrier = b) /\ Share(g, b) \in Nat
  BY <1>5, <1>6 DEF Share, Amount, Bit
<1>8. K[w].frames = <<g>> \o Tail(s) /\ job'[w].notify = f.barrier
  <2>1. PICK n, i, step : job'[w] = [job[w] EXCEPT !.frames = <<g>> \o Tail(@), !.at = n,
                                                   !.notify = f.barrier, !.items = i, !.step = step]
    BY ZenonT(120), <1>a, <1>2 DEF VisitNext, Update
  <2> QED
    BY ZenonT(120), <1>a, <1>2, <2>1 DEF WalkJob
<1>9. /\ IsFiniteSet(HeldIn(K, b)) /\ Cardinality(HeldIn(K, b)) \in Nat
      /\ Cardinality(HeldIn(K, b)) + Share(f, b) = Cardinality(HeldIn(J, b)) + Share(g, b)
  <2>1. \A v \in Worker \ {w} : K[v].frames = J[v].frames
    BY <1>2, OnlyOwnJob DEF TaskStep, EngineInv
  <2>2. IsFiniteSet(HeldIn(J, b))
    BY <1>1, <1>2 DEF Amounts
  <2>3. J[w].frames \in Seq(WalkFrame) /\ J[w].frames # <<>>
        /\ K[w].frames = <<g>> \o Tail(J[w].frames) /\ f = Head(J[w].frames)
    BY <1>2, <1>3, <1>8
  <2>4. CallChanged(J, K, w, f, g)
    BY ZenonT(120), <1>6, <2>1, <2>3 DEF CallChanged
  <2> QED
    BY <2>2, <2>4, HeldCallChanged
<1>10. TasksFor(b)' = TasksFor(b) /\ barriers' = barriers
  BY TasksSame DEF VisitNext, barrierVars
<1>11. PICK H2 : H2 = Cardinality(HeldIn(K, b))
  OBVIOUS
<1>12. AmountsAfter(b, B, T, H2, D)
  BY ZenonT(120), <1>1, <1>2, <1>9, <1>10, <1>11 DEF Amounts, AmountsAfter
<1>13. ~Had(w, b) /\ (Has(w, b) <=> f.barrier = b)
  BY <1>8 DEF Had, Has, VisitNext, At, BodiesKnown, NoBarrier
<1>14. B + T + H2 + Bit(Has(w, b)) + D = B + T + H + Bit(Had(w, b)) + D
  <2>1. PICK y, z, x : y = Share(f, b) /\ z = Share(g, b) /\ x = Bit(f.barrier = b)
    OBVIOUS
  <2>2. /\ H2 + y = H + z /\ y = z + x /\ z \in Nat
        /\ x = Bit(Has(w, b)) /\ x \in Nat /\ Bit(Had(w, b)) = 0
    BY <1>1, <1>2, <1>7, <1>9, <1>11, <1>13, <2>1 DEF Amounts, Bit
  <2>3. B \in Nat /\ T \in Nat /\ H \in Nat /\ H2 \in Nat /\ D \in Nat
    BY <1>1, <1>12 DEF Amounts, AmountsAfter
  <2> QED
    BY <2>2, <2>3
<1> QED
  BY <1>1, <1>12, <1>14, AccountSettles DEF TaskStep, Balanced

(* A chunk that is published becomes a task, unless new work is refused. *)
LEMMA PublishSettles ==
  ASSUME NEW b \in Nat \ {0}, NEW w \in Worker, PublishChunk(w), EngineInv, EngineInv', BodiesKnown,
         Balanced(b)
  PROVE  Settles(b)
<1>1. PICK B, T, H, D : Amounts(b, B, T, H, D)
  BY AmountsAre DEF Balanced
<1>2. PICK J, K, s, f, g, t :
        /\ J = job /\ K = job' /\ s = job[w].frames /\ f = Head(s)
        /\ g = [f EXCEPT !.chunks = Tail(@)] /\ t = ChunkTask(Head(f.chunks), f.barrier)
  OBVIOUS
<1>a. /\ job \in [Worker -> WalkJob] /\ job[w] \in WalkJob /\ AtNode(job[w])
  BY DEF EngineInv, JobsFit
<1>3. s \in Seq(WalkFrame) /\ s # <<>>
  BY <1>a, <1>2 DEF PublishChunk, At, AtNode, WalkJob
<1>4. f \in WalkFrame /\ f.kind = "dir" /\ f.chunks # <<>>
  BY <1>a, <1>2, <1>3, HeadTailProperties DEF PublishChunk, At, AtNode
<1>5. /\ f.chunks \in Seq(Chunk) /\ Tail(f.chunks) \in Seq(Chunk) /\ f.nodes = <<>>
      /\ Head(f.chunks) \in Chunk /\ f.barrier \in Barrier
      /\ Len(f.chunks) \in Nat /\ Len(Tail(f.chunks)) \in Nat
      /\ Len(f.chunks) = Len(Tail(f.chunks)) + 1
  <2>1. f.chunks \in Seq(Chunk) /\ f.nodes = <<>> /\ f.barrier \in Barrier
    BY <1>4 DEF WalkFrame
  <2>2. /\ Tail(f.chunks) \in Seq(Chunk) /\ Len(Tail(f.chunks)) = Len(f.chunks) - 1
        /\ Head(f.chunks) \in Chunk
    BY <1>4, <2>1, HeadTailProperties
  <2>3. Len(f.chunks) \in Nat /\ Len(Tail(f.chunks)) \in Nat
    BY ZenonT(120), <2>1, <2>2, LenProperties
  <2> QED
    BY <2>1, <2>2, <2>3
<1>6. g \in WalkFrame /\ g.barrier = f.barrier /\ g.nodes = <<>> /\ g.chunks = Tail(f.chunks)
  BY <1>2, <1>4, <1>5 DEF WalkFrame
<1>7. Share(f, b) = Share(g, b) + Bit(f.barrier = b) /\ Share(g, b) \in Nat
  BY <1>5, <1>6 DEF Share, Amount, Bit
<1>8. t \in WalkTask /\ t.barrier = f.barrier /\ S!BeginPush(w, t)
  BY ZenonT(120), <1>2, <1>5 DEF ChunkTask, WalkTask, PublishChunk
<1>9. K[w].frames = <<g>> \o Tail(s) /\ job'[w].notify = job[w].notify
  BY <1>a, <1>2 DEF PublishChunk, Update, WalkJob
<1>10. /\ IsFiniteSet(HeldIn(K, b)) /\ Cardinality(HeldIn(K, b)) \in Nat
       /\ Cardinality(HeldIn(K, b)) + Share(f, b) = Cardinality(HeldIn(J, b)) + Share(g, b)
  <2>1. \A v \in Worker \ {w} : K[v].frames = J[v].frames
    BY <1>2, OnlyOwnJob DEF TaskStep, EngineInv
  <2>2. IsFiniteSet(HeldIn(J, b))
    BY ZenonT(120), <1>1, <1>2 DEF Amounts
  <2>3. J[w].frames \in Seq(WalkFrame) /\ J[w].frames # <<>>
        /\ K[w].frames = <<g>> \o Tail(J[w].frames) /\ f = Head(J[w].frames)
    BY <1>2, <1>3, <1>9
  <2>4. CallChanged(J, K, w, f, g)
    BY <1>6, <2>1, <2>3 DEF CallChanged
  <2> QED
    BY <2>2, <2>4, HeldCallChanged
<1>11. /\ IsFiniteSet(TasksFor(b)') /\ Cardinality(TasksFor(b)') \in Nat
       /\ Cardinality(TasksFor(b)') = Cardinality(TasksFor(b)) + Bit(accept /\ t.barrier = b)
  <2>1. SP!TypeOK /\ QueuesFit /\ QueuesFit' /\ IsFiniteSet(TasksFor(b))
    BY <1>1, SchedulerTypes DEF EngineInv, Amounts
  <2> QED
    BY <1>8, <2>1, TasksPushed
<1>12. barriers' = barriers
  BY DEF PublishChunk, barrierVars
<1>13. PICK H2, T2 : H2 = Cardinality(HeldIn(K, b)) /\ T2 = Cardinality(TasksFor(b)')
  BY ZenonT(120)
<1>14. AmountsAfter(b, B, T2, H2, D)
  BY ZenonT(120), <1>1, <1>2, <1>10, <1>11, <1>12, <1>13 DEF Amounts, AmountsAfter
<1>15. ~Had(w, b) /\ ~Has(w, b)
  BY <1>9 DEF Had, Has, PublishChunk, At, BodiesKnown, NoBarrier
<1>16. ~accept => quit' \/ failed' # {}
  BY DEF BodiesKnown, PublishChunk, S!BeginPush, S!control
<1>17. \/ B + T2 + H2 + Bit(Has(w, b)) + D = B + T + H + Bit(Had(w, b)) + D
       \/ /\ B + T2 + H2 + Bit(Has(w, b)) + D <= B + T + H + Bit(Had(w, b)) + D
          /\ quit' \/ failed' # {}
  <2>1. PICK y, z, x, q : /\ y = Share(f, b) /\ z = Share(g, b) /\ x = Bit(f.barrier = b)
                          /\ q = Bit(accept /\ t.barrier = b)
    BY ZenonT(120)
  <2>2. /\ H2 + y = H + z /\ y = z + x /\ z \in Nat /\ T2 = T + q
        /\ x \in Nat /\ q \in Nat /\ Bit(Had(w, b)) = 0 /\ Bit(Has(w, b)) = 0
    BY <1>1, <1>2, <1>7, <1>10, <1>11, <1>13, <1>15, <2>1 DEF Amounts, Bit
  <2>3. q = x \/ (q <= x /\ (quit' \/ failed' # {}))
    BY <1>8, <1>16, <2>1 DEF Bit
  <2>4. B \in Nat /\ T \in Nat /\ H \in Nat /\ H2 \in Nat /\ D \in Nat /\ T2 \in Nat
    BY <1>1, <1>14 DEF Amounts, AmountsAfter
  <2> QED
    BY <2>2, <2>3, <2>4
<1> QED
  BY <1>1, <1>14, <1>17, AccountSettles DEF TaskStep, Balanced

(* A released directory becomes a task that reports to its own parent. *)
LEMMA ReleaseSettles ==
  ASSUME NEW b \in Nat \ {0}, NEW w \in Worker, ReleaseDirectory(w), EngineInv, EngineInv',
         BodiesKnown, Balanced(b)
  PROVE  Settles(b)
<1>1. PICK B, T, H, D : Amounts(b, B, T, H, D)
  BY AmountsAre DEF Balanced
<1>2. PICK J, K, t : J = job /\ K = job' /\ t = ResumeTask(job[w].at, job[w].notify)
  OBVIOUS
<1>a. /\ job \in [Worker -> WalkJob] /\ job[w] \in WalkJob /\ AtNode(job[w])
  BY DEF EngineInv, JobsFit
<1>3. t \in WalkTask /\ t.barrier = job[w].notify /\ S!BeginPush(w, t)
  <2>1. job[w].at \in Walked /\ job[w].notify \in Barrier /\ Visit(job[w].at) = "list"
    BY <1>a DEF ReleaseDirectory, At, AtNode, WalkJob
  <2>2. ResumeTask(job[w].at, job[w].notify) \in WalkTask
    BY <2>1 DEF ResumeTask, WalkTask, Chunk
  <2> QED
    BY <1>2, <2>2 DEF ReleaseDirectory, ResumeTask
<1>4. job'[w].frames = job[w].frames /\ job'[w].notify = NoBarrier
  BY <1>a DEF ReleaseDirectory, Update, Notified, WalkJob
<1>5. HeldIn(K, b) = HeldIn(J, b)
  <2>1. \A v \in Worker : K[v].frames = J[v].frames
    BY <1>2, <1>4, OnlyOwnJob DEF TaskStep, EngineInv
  <2> QED
    BY <2>1, HeldSame
<1>6. /\ IsFiniteSet(TasksFor(b)') /\ Cardinality(TasksFor(b)') \in Nat
      /\ Cardinality(TasksFor(b)') = Cardinality(TasksFor(b)) + Bit(accept /\ t.barrier = b)
  <2>1. SP!TypeOK /\ QueuesFit /\ QueuesFit' /\ IsFiniteSet(TasksFor(b))
    BY <1>1, SchedulerTypes DEF EngineInv, Amounts
  <2> QED
    BY <1>3, <2>1, TasksPushed
<1>7. barriers' = barriers
  BY DEF ReleaseDirectory, barrierVars
<1>8. PICK T2 : T2 = Cardinality(TasksFor(b)')
  OBVIOUS
<1>9. AmountsAfter(b, B, T2, H, D)
  BY <1>1, <1>2, <1>5, <1>6, <1>7, <1>8 DEF Amounts, AmountsAfter
<1>10. (Had(w, b) <=> job[w].notify = b) /\ ~Has(w, b)
  BY <1>4 DEF Had, Has, ReleaseDirectory, At, NoBarrier
<1>11. ~accept => quit' \/ failed' # {}
  BY DEF BodiesKnown, ReleaseDirectory, S!BeginPush, S!control
<1>12. \/ B + T2 + H + Bit(Has(w, b)) + D = B + T + H + Bit(Had(w, b)) + D
       \/ /\ B + T2 + H + Bit(Has(w, b)) + D <= B + T + H + Bit(Had(w, b)) + D
          /\ quit' \/ failed' # {}
  <2>1. PICK x, q : x = Bit(job[w].notify = b) /\ q = Bit(accept /\ t.barrier = b)
    OBVIOUS
  <2>2. /\ T2 = T + q /\ x \in Nat /\ q \in Nat /\ Bit(Had(w, b)) = x /\ Bit(Has(w, b)) = 0
    BY <1>1, <1>6, <1>8, <1>10, <2>1 DEF Amounts, Bit
  <2>3. q = x \/ (q <= x /\ (quit' \/ failed' # {}))
    BY <1>3, <1>11, <2>1 DEF Bit
  <2>4. B \in Nat /\ T \in Nat /\ H \in Nat /\ D \in Nat /\ T2 \in Nat
    BY <1>1, <1>9 DEF Amounts, AmountsAfter
  <2> QED
    BY <2>2, <2>3, <2>4
<1> QED
  BY <1>1, <1>9, <1>12, AccountSettles DEF TaskStep, Balanced

(* A body that is given up drops what it holds. *)
LEMMA DropSettles ==
  ASSUME NEW b \in Nat \ {0}, NEW w \in Worker, LeaveAfterQuit(w) \/ EvalFails(w),
         EngineInv, EngineInv', BodiesKnown, Balanced(b)
  PROVE  Settles(b)
<1>1. PICK B, T, H, D : Amounts(b, B, T, H, D)
  BY AmountsAre DEF Balanced
<1>2. PICK J, K : J = job /\ K = job'
  OBVIOUS
<1>3. job'[w] = NoJob /\ \A v \in Worker \ {w} : K[v].frames = J[v].frames
  <2>1. job \in [Worker -> WalkJob]
    BY DEF EngineInv, JobsFit
  <2>2. job'[w] = NoJob
    BY <2>1 DEF LeaveAfterQuit, EvalFails, Update
  <2> QED
    BY <1>2, <2>2, OnlyOwnJob DEF TaskStep, EngineInv
<1>4. HeldIn(K, b) \subseteq HeldIn(J, b)
  <2> SUFFICES ASSUME NEW x, x \in HeldIn(K, b) PROVE x \in HeldIn(J, b)
    OBVIOUS
  <2>1. PICK v, h, k : x = <<v, h, k>> /\ v \in Worker /\ PlaceIn(K[v].frames, b, h, k)
    BY HeldPlaces
  <2>2. v # w
    <3> SUFFICES ASSUME v = w PROVE FALSE
      OBVIOUS
    <3>1. K[w].frames = <<>>
      BY <1>2, <1>3 DEF NoJob
    <3> QED
      BY <2>1, <3>1 DEF PlaceIn
  <2>3. PlaceIn(J[v].frames, b, h, k)
    BY <1>3, <2>1, <2>2
  <2> QED
    BY <2>1, <2>3, HeldPlaces
<1>5. PICK H2 : H2 = Cardinality(HeldIn(K, b))
  OBVIOUS
<1>6. IsFiniteSet(HeldIn(K, b)) /\ H2 \in Nat /\ H2 <= H
  <2>1. IsFiniteSet(HeldIn(J, b)) /\ H = Cardinality(HeldIn(J, b))
    BY <1>1, <1>2 DEF Amounts
  <2>2. IsFiniteSet(HeldIn(K, b)) /\ Cardinality(HeldIn(K, b)) <= Cardinality(HeldIn(J, b))
    BY <1>4, <2>1, FS_Subset
  <2> QED
    BY <1>5, <2>1, <2>2, FS_CardinalityType
<1>7. barriers' = barriers /\ TasksFor(b)' = TasksFor(b)
  <2>1. \E ok \in BOOLEAN : S!TaskReturns(w, ok)
    BY DEF LeaveAfterQuit, EvalFails
  <2> QED
    BY <2>1, TasksSame DEF LeaveAfterQuit, EvalFails, barrierVars
<1>8. AmountsAfter(b, B, T, H2, D)
  BY <1>1, <1>2, <1>5, <1>6, <1>7 DEF Amounts, AmountsAfter
<1>9. ~Has(w, b)
  BY <1>3 DEF Has, NoJob, NoBarrier
<1>10. quit' \/ failed' # {}
  <2>1. CASE LeaveAfterQuit(w)
    BY <2>1 DEF LeaveAfterQuit, At, BodiesKnown, S!TaskReturns, S!control
  <2>2. CASE EvalFails(w)
    BY <2>2 DEF EvalFails, S!TaskReturns
  <2> QED
    BY <2>1, <2>2
<1>11. B + T + H2 + Bit(Has(w, b)) + D <= B + T + H + Bit(Had(w, b)) + D
  <2>1. PICK x : x = Bit(Had(w, b))
    OBVIOUS
  <2>2. x \in Nat /\ Bit(Has(w, b)) = 0
    BY <1>9, <2>1 DEF Bit
  <2>3. B \in Nat /\ T \in Nat /\ H \in Nat /\ H2 \in Nat /\ D \in Nat
    BY <1>1, <1>8 DEF Amounts, AmountsAfter
  <2> QED
    BY <1>6, <2>1, <2>2, <2>3
<1> QED
  BY <1>1, <1>8, <1>10, <1>11, AccountSettles DEF TaskStep, Balanced

(* A unit is reported: the barrier waits for one less. *)
LEMMA UnitSettles ==
  ASSUME NEW b \in Nat \ {0}, NEW w \in Worker, FinishUnit(w),
         EngineInv, EngineInv', BodiesKnown, Balanced(b)
  PROVE  Settles(b)
<1>1. PICK B, T, H, D : Amounts(b, B, T, H, D)
  BY AmountsAre DEF Balanced
<1>2. PICK J, K, c, t, u : J = job /\ K = job' /\ c = job[w].notify /\ t = barriers /\ u = barriers'
  OBVIOUS
<1>a. job \in [Worker -> WalkJob] /\ job[w] \in WalkJob
  BY DEF EngineInv, JobsFit
<1>3. /\ c \in DOMAIN t /\ u = [t EXCEPT ![c].remaining = @ - 1]
      /\ t[c] \in WalkRecord /\ t[c].remaining \in Nat
  BY <1>2 DEF FinishUnit, EngineInv, TableFits, WalkRecord
<1>4. /\ DOMAIN u = DOMAIN t /\ u[c].remaining = t[c].remaining - 1 /\ u[c].parent = t[c].parent
      /\ \A d \in DOMAIN t \ {c} : u[d] = t[d]
  BY <1>3 DEF WalkRecord
<1>5. BelowIn(u, b) = BelowIn(t, b)
  BY <1>4 DEF BelowIn
<1>6. DueIn(u, b) = IF c = b THEN DueIn(t, b) - 1 ELSE DueIn(t, b)
  BY <1>3, <1>4 DEF DueIn
<1>7. job'[w].frames = job[w].frames /\ job'[w].notify = NoBarrier
  BY <1>a DEF FinishUnit, Update, Notified, WalkJob
<1>8. HeldIn(K, b) = HeldIn(J, b)
  <2>1. \A v \in Worker : K[v].frames = J[v].frames
    BY <1>2, <1>7, OnlyOwnJob DEF TaskStep, EngineInv
  <2> QED
    BY <2>1, HeldSame
<1>9. TasksFor(b)' = TasksFor(b)
  BY TasksSame DEF FinishUnit
<1>10. PICK D2 : D2 = DueIn(u, b)
  OBVIOUS
<1>11. AmountsAfter(b, B, T, H, D2)
  BY <1>1, <1>2, <1>5, <1>8, <1>9, <1>10 DEF Amounts, AmountsAfter
<1>12. (Had(w, b) <=> c = b) /\ ~Has(w, b)
  BY <1>2, <1>7 DEF Had, Has, FinishUnit, At, NoBarrier
<1>13. B + T + H + Bit(Has(w, b)) + D = B + T + H + Bit(Had(w, b)) + D2
  <2>1. PICK x : x = Bit(c = b)
    OBVIOUS
  <2>2. x \in {0, 1} /\ Bit(Had(w, b)) = x /\ Bit(Has(w, b)) = 0 /\ D2 = D - x
    BY <1>1, <1>2, <1>6, <1>10, <1>12, <2>1 DEF Amounts, Bit
  <2>3. B \in Nat /\ T \in Nat /\ H \in Nat /\ D \in Nat
    BY <1>1 DEF Amounts
  <2> QED
    BY <2>2, <2>3
<1> QED
  BY <1>1, <1>11, <1>13, AccountSettles DEF TaskStep, Balanced

(* The last unit: the record goes, and w reports to its parent instead. *)
LEMMA LastUnitSettles ==
  ASSUME NEW b \in Nat \ {0}, NEW w \in Worker, FinishLastUnit(w),
         EngineInv, EngineInv', BodiesKnown, Balanced(b)
  PROVE  Settles(b)
<1>1. PICK B, T, H, D : Amounts(b, B, T, H, D)
  BY AmountsAre DEF Balanced
<1>2. PICK J, K, c, t, u, p : /\ J = job /\ K = job' /\ c = job[w].notify /\ t = barriers
                              /\ u = barriers' /\ p = barriers[c].parent
  OBVIOUS
<1>a. job \in [Worker -> WalkJob] /\ job[w] \in WalkJob
  BY DEF EngineInv, JobsFit
<1>3. /\ c \in DOMAIN t /\ u = [d \in DOMAIN t \ {c} |-> t[d]]
      /\ t[c].remaining = 1 /\ p = t[c].parent
  <2>1. c \in DOMAIN t /\ u = [d \in DOMAIN t \ {c} |-> t[d]] /\ t[c].remaining <= 1
    BY <1>2 DEF FinishLastUnit
  <2>2. t[c].remaining \in Nat \ {0}
    BY <1>2, <2>1 DEF EngineInv, TableFits, WalkRecord
  <2> QED
    BY <1>2, <2>1, <2>2
<1>4. DOMAIN u = DOMAIN t \ {c} /\ \A d \in DOMAIN u : u[d] = t[d]
  BY <1>3
<1>5. /\ \A x : x # c => (x \in BelowIn(t, b) <=> x \in BelowIn(u, b))
      /\ (c \in BelowIn(t, b) <=> p = b) /\ c \notin BelowIn(u, b)
  BY <1>3, <1>4 DEF BelowIn
<1>6. PICK X, Y, B2 : X = BelowIn(t, b) /\ Y = BelowIn(u, b) /\ B2 = Cardinality(Y)
  OBVIOUS
<1>7. IsFiniteSet(Y) /\ B2 \in Nat /\ B2 + Bit(p = b) = B
  <2>1. IsFiniteSet(X) /\ B = Cardinality(X) /\ \A x : x # c => (x \in X <=> x \in Y)
    BY <1>1, <1>2, <1>5, <1>6 DEF Amounts
  <2>2. /\ IsFiniteSet(Y) /\ Cardinality(X) \in Nat /\ Cardinality(Y) \in Nat
        /\ Cardinality(Y) + Bit(c \in X) = Cardinality(X) + Bit(c \in Y)
    BY <2>1, OneChanged
  <2>3. Bit(c \in X) = Bit(p = b) /\ Bit(c \in Y) = 0
    BY <1>5, <1>6 DEF Bit
  <2> QED
    BY <1>6, <2>1, <2>2, <2>3
<1>8. DueIn(t, b) = DueIn(u, b) + Bit(c = b) /\ DueIn(u, b) \in Nat
  <2>1. CASE c = b
    BY <1>3, <1>4, <2>1 DEF DueIn, Bit
  <2>2. CASE c # b
    <3>1. DueIn(u, b) = DueIn(t, b)
      BY <1>4, <2>2 DEF DueIn
    <3>2. DueIn(t, b) \in Nat
      BY <1>1, <1>2 DEF Amounts
    <3> QED
      BY <2>2, <3>1, <3>2 DEF Bit
  <2> QED
    BY <2>1, <2>2
<1>9. job'[w].frames = job[w].frames /\ job'[w].notify = p
  <2>1. PICK n : \/ job'[w] = [job[w] EXCEPT !.notify = p]
                 \/ job'[w] = [job[w] EXCEPT !.step = "release", !.at = n, !.notify = p]
    BY <1>a, <1>2 DEF FinishLastUnit, Update
  <2> QED
    BY <1>a, <2>1 DEF WalkJob
<1>10. HeldIn(K, b) = HeldIn(J, b)
  <2>1. \A v \in Worker : K[v].frames = J[v].frames
    BY <1>2, <1>9, OnlyOwnJob DEF TaskStep, EngineInv
  <2> QED
    BY <2>1, HeldSame
<1>11. TasksFor(b)' = TasksFor(b)
  BY TasksSame DEF FinishLastUnit
<1>12. PICK D2 : D2 = DueIn(u, b)
  OBVIOUS
<1>13. AmountsAfter(b, B2, T, H, D2)
  BY <1>1, <1>2, <1>6, <1>7, <1>10, <1>11, <1>12 DEF Amounts, AmountsAfter
<1>14. (Had(w, b) <=> c = b) /\ (Has(w, b) <=> p = b)
  BY <1>2, <1>9 DEF Had, Has, FinishLastUnit, At
<1>15. B2 + T + H + Bit(Has(w, b)) + D = B + T + H + Bit(Had(w, b)) + D2
  <2>1. PICK x, y : x = Bit(c = b) /\ y = Bit(p = b)
    OBVIOUS
  <2>2. /\ x \in Nat /\ y \in Nat /\ Bit(Had(w, b)) = x /\ Bit(Has(w, b)) = y
        /\ B2 + y = B /\ D = D2 + x /\ D2 \in Nat
    BY <1>1, <1>2, <1>7, <1>8, <1>12, <1>14, <2>1 DEF Amounts, Bit
  <2>3. B \in Nat /\ T \in Nat /\ H \in Nat /\ D \in Nat /\ B2 \in Nat
    BY <1>1, <1>7 DEF Amounts
  <2> QED
    BY <2>2, <2>3
<1> QED
  BY <1>1, <1>13, <1>15, AccountSettles DEF TaskStep, Balanced

(* A directory is split: a record that waits for its chunks and its local    *)
(* batch, and the calls that hold them.                                      *)
LEMMA BeginSettles ==
  ASSUME NEW b \in Nat \ {0}, NEW w \in Worker, BeginDirectory(w),
         EngineInv, EngineInv', BodiesKnown, Balanced(b)
  PROVE  Settles(b)
<1>1. PICK B, T, H, D : Amounts(b, B, T, H, D)
  BY AmountsAre DEF Balanced
<1>a. job \in [Worker -> WalkJob] /\ job[w] \in WalkJob
  BY DEF EngineInv, JobsFit
<1>2. PICK J, K, s, local, chunks, p, id, table, units, r, dir :
        /\ J = job /\ K = job' /\ s = job[w].frames /\ local = job[w].local
        /\ chunks = FinishChunks(job[w]) /\ p = job[w].notify
        /\ id = nextBarrier /\ table = barriers
        /\ units = Len(chunks) + (IF local = <<>> THEN 0 ELSE 1)
        /\ r = DirectoryRecord(job[w].at, units, p) /\ dir = DirFrame(id, chunks)
  OBVIOUS
<1>3. /\ s \in Seq(WalkFrame) /\ local \in Seq(Walked) /\ chunks \in Seq(Chunk)
      /\ id \in Nat \ {0} /\ id \notin DOMAIN table /\ Len(chunks) \in Nat
  <2>1. chunks \in Seq(Chunk)
    BY <1>a, <1>2, FinishedChunks
  <2>2. id \in Nat \ {0} /\ id \notin DOMAIN table
    BY <1>2 DEF EngineInv, TableFits
  <2> QED
    BY <1>a, <1>2, <2>1, <2>2, LenProperties DEF WalkJob
<1>4. r.remaining = units /\ r.parent = p /\ dir \in WalkFrame
      /\ Share(dir, b) = IF id = b THEN Len(chunks) ELSE 0
  <2>1. dir \in WalkFrame
    BY <1>2, <1>3 DEF DirFrame, WalkFrame, Barrier
  <2>2. Share(dir, b) = IF id = b THEN Len(chunks) ELSE 0
    BY <1>2, <1>3 DEF DirFrame, Share, Amount
  <2> QED
    BY <1>2, <2>1, <2>2 DEF DirectoryRecord
<1>5. PICK t : t = Insert(table, id, r)
  OBVIOUS
<1>6. /\ DOMAIN t = DOMAIN table \cup {id} /\ IsFiniteSet(BelowIn(t, b))
      /\ Cardinality(BelowIn(t, b)) \in Nat
      /\ Cardinality(BelowIn(t, b)) = B + Bit(p = b)
      /\ DueIn(t, b) = IF b = id THEN units ELSE D
      /\ b = id => D = 0
  <2>1. IsFiniteSet(BelowIn(table, b)) /\ B = Cardinality(BelowIn(table, b)) /\ D = DueIn(table, b)
    BY <1>1, <1>2 DEF Amounts
  <2>2. OneMoreRecord(table, Insert(table, id, r), id, r, b)
    BY <1>3, <2>1, RecordInserted
  <2>3. b = id => D = 0
    BY <1>3, <2>1 DEF DueIn
  <2> QED
    BY <1>4, <1>5, <2>1, <2>2, <2>3 DEF OneMoreRecord
<1>7. PICK I : I = [v \in Worker |-> IF v = w THEN [frames |-> <<dir>> \o s] ELSE J[v]]
  OBVIOUS
<1>8. I[w].frames = <<dir>> \o s /\ \A v \in Worker \ {w} : I[v].frames = J[v].frames
  BY <1>7
<1>9. /\ IsFiniteSet(HeldIn(I, b)) /\ Cardinality(HeldIn(I, b)) \in Nat
      /\ Cardinality(HeldIn(I, b)) = H + Share(dir, b)
  <2>1. IsFiniteSet(HeldIn(J, b)) /\ H = Cardinality(HeldIn(J, b))
    BY <1>1, <1>2 DEF Amounts
  <2>2. J[w].frames = s
    BY <1>2
  <2>3. CallMade(J, I, w, dir)
    BY <1>3, <1>4, <1>8, <2>2 DEF CallMade
  <2> QED
    BY <2>1, <2>3, HeldCallMade
<1>10. \A v \in Worker \ {w} : K[v].frames = J[v].frames
  BY <1>2, OnlyOwnJob DEF TaskStep, EngineInv
<1>11. PICK fr : fr = (IF local = <<>> THEN <<dir>> \o s
                       ELSE <<BatchFor(local, id, id + 1)>> \o (<<dir>> \o s))
  OBVIOUS
<1>12. job'[w].frames = fr /\ job'[w].notify = NoBarrier
  <2>1. job'[w] = [AfterListing(job[w]) EXCEPT !.step = "next", !.frames = fr]
    BY <1>a, <1>2, <1>11 DEF BeginDirectory, Update
  <2> QED
    BY <1>a, <2>1 DEF AfterListing, WalkJob
<1>13. \E u, e, z : /\ e \in Nat /\ z \in Nat /\ u = barriers'
                    /\ IsFiniteSet(BelowIn(u, b)) /\ Cardinality(BelowIn(u, b)) \in Nat
                    /\ IsFiniteSet(HeldIn(K, b)) /\ Cardinality(HeldIn(K, b)) \in Nat
                    /\ Cardinality(HeldIn(K, b)) = H + Share(dir, b) + z
                    /\ Cardinality(BelowIn(u, b)) + z + DueIn(t, b) = B + Bit(p = b) + e + DueIn(u, b)
                    /\ DueIn(t, b) = D + Share(dir, b) + e
  <2>0. H \in Nat /\ B \in Nat /\ D \in Nat /\ Share(dir, b) \in Nat /\ Bit(p = b) \in Nat
    BY <1>1, <1>4, FrameAmounts DEF Amounts, Bit
  <2>1. CASE local = <<>>
    <3>1. barriers' = t
      BY <1>2, <1>5, <2>1 DEF BeginDirectory
    <3>2. K[w].frames = I[w].frames
      BY <1>2, <1>8, <1>11, <1>12, <2>1
    <3>3. HeldIn(K, b) = HeldIn(I, b)
      <4>1. \A v \in Worker : K[v].frames = I[v].frames
        BY <1>8, <1>10, <3>2
      <4> QED
        BY <4>1, HeldSame
    <3>4. units = Len(chunks)
      BY <1>2, <1>3, <2>1
    <3>5. DueIn(t, b) = D + Share(dir, b) /\ DueIn(t, b) \in Nat
      <4>1. CASE b = id
        BY <1>3, <1>4, <1>6, <3>4, <4>1
      <4>2. CASE b # id
        BY <2>0, <1>4, <1>6, <4>2
      <4> QED
        BY <4>1, <4>2
    <3>6. /\ Cardinality(HeldIn(K, b)) = H + Share(dir, b) + 0
          /\ Cardinality(BelowIn(t, b)) + 0 + DueIn(t, b) = B + Bit(p = b) + 0 + DueIn(t, b)
          /\ DueIn(t, b) = D + Share(dir, b) + 0
      BY <1>6, <1>9, <2>0, <3>3, <3>5
    <3> WITNESS t, 0, 0
    <3> QED
      BY <1>6, <1>9, <3>1, <3>3, <3>6
  <2>2. CASE local # <<>>
    <3>1. PICK u, f, i2 : i2 = id + 1 /\ u = AddBatch(t, local, id, i2) /\ f = BatchFor(local, id, i2)
      OBVIOUS
    <3>2. barriers' = u
      BY <1>2, <1>5, <2>2, <3>1 DEF BeginDirectory
    <3>3. f \in WalkFrame /\ local \in Chunk /\ i2 \notin DOMAIN t
      <4>1. f \in WalkFrame
        BY <1>3, <3>1, BatchFits DEF Barrier
      <4>2. i2 \notin DOMAIN t
        BY <1>2, <1>3, <1>6, <3>1 DEF EngineInv, TableFits
      <4> QED
        BY <1>3, <2>2, <4>1, <4>2 DEF Chunk
    <3>4. /\ IsFiniteSet(BelowIn(u, b)) /\ Cardinality(BelowIn(u, b)) \in Nat
          /\ Cardinality(BelowIn(u, b)) + Share(f, b) + DueIn(t, b)
               = B + Bit(p = b) + Bit(id = b) + DueIn(u, b)
      <4>1. BatchBegun(t, AddBatch(t, local, id, i2), BatchFor(local, id, i2), id, b)
        BY <1>6, <3>3, BatchStarted
      <4> QED
        BY <1>6, <3>1, <4>1 DEF BatchBegun
    <3>5. /\ IsFiniteSet(HeldIn(K, b)) /\ Cardinality(HeldIn(K, b)) \in Nat
          /\ Cardinality(HeldIn(K, b)) = H + Share(dir, b) + Share(f, b)
      <4>1. I[w].frames \in Seq(WalkFrame)
        BY <1>3, <1>4, <1>8, CallAdded
      <4>2. K[w].frames = <<f>> \o I[w].frames
        BY <1>2, <1>8, <1>11, <1>12, <2>2, <3>1
      <4>3. CallMade(I, K, w, f)
        BY <1>8, <1>10, <3>3, <4>1, <4>2 DEF CallMade
      <4>4. /\ IsFiniteSet(HeldIn(K, b)) /\ Cardinality(HeldIn(K, b)) \in Nat
            /\ Cardinality(HeldIn(K, b)) = Cardinality(HeldIn(I, b)) + Share(f, b)
        BY <1>9, <4>3, HeldCallMade
      <4> QED
        BY <1>9, <4>4
    <3>6. units = Len(chunks) + 1
      BY <1>2, <2>2
    <3>7. DueIn(t, b) = D + Share(dir, b) + Bit(id = b)
      <4>1. CASE b = id
        BY <1>3, <1>4, <1>6, <3>6, <4>1 DEF Bit
      <4>2. CASE b # id
        BY <2>0, <1>4, <1>6, <4>2 DEF Bit
      <4> QED
        BY <4>1, <4>2
    <3>8. Bit(id = b) \in Nat /\ Share(f, b) \in Nat
      BY <3>3, FrameAmounts DEF Bit
    <3> WITNESS u, Bit(id = b), Share(f, b)
    <3> QED
      BY <3>2, <3>4, <3>5, <3>7, <3>8
  <2> QED
    BY <2>1, <2>2
<1>14. PICK u, e, z : /\ e \in Nat /\ z \in Nat /\ u = barriers'
                    /\ IsFiniteSet(BelowIn(u, b)) /\ Cardinality(BelowIn(u, b)) \in Nat
                    /\ IsFiniteSet(HeldIn(K, b)) /\ Cardinality(HeldIn(K, b)) \in Nat
                    /\ Cardinality(HeldIn(K, b)) = H + Share(dir, b) + z
                    /\ Cardinality(BelowIn(u, b)) + z + DueIn(t, b) = B + Bit(p = b) + e + DueIn(u, b)
                    /\ DueIn(t, b) = D + Share(dir, b) + e
  BY <1>13
<1>15. TasksFor(b)' = TasksFor(b)
  BY TasksSame DEF BeginDirectory
<1>16. PICK B2, H2, D2 : /\ B2 = Cardinality(BelowIn(u, b)) /\ H2 = Cardinality(HeldIn(K, b))
                         /\ D2 = DueIn(u, b)
  OBVIOUS
<1>17. AmountsAfter(b, B2, T, H2, D2)
  BY <1>1, <1>2, <1>14, <1>15, <1>16 DEF Amounts, AmountsAfter
<1>18. (Had(w, b) <=> p = b) /\ ~Has(w, b)
  BY <1>2, <1>12 DEF Had, Has, BeginDirectory, At, NoBarrier
<1>19. B2 + T + H2 + Bit(Has(w, b)) + D = B + T + H + Bit(Had(w, b)) + D2
  <2>1. PICK x, y : x = Bit(p = b) /\ y = Share(dir, b)
    OBVIOUS
  <2>2. /\ x \in Nat /\ y \in Nat /\ Bit(Had(w, b)) = x /\ Bit(Has(w, b)) = 0
        /\ H2 = H + y + z /\ B2 + z + (D + y + e) = B + x + e + D2
    BY <1>4, <1>14, <1>16, <1>18, <2>1, FrameAmounts DEF Bit
  <2>3. B \in Nat /\ T \in Nat /\ H \in Nat /\ D \in Nat /\ B2 \in Nat /\ H2 \in Nat /\ D2 \in Nat
    <3>1. D2 \in Nat
      BY <1>14, <1>16 DEF DueIn, EngineInv, TableFits, WalkRecord
    <3> QED
      BY <1>1, <1>17, <3>1 DEF Amounts, AmountsAfter
  <2> QED
    BY <1>14, <2>2, <2>3
<1> QED
  BY <1>1, <1>17, <1>19, AccountSettles DEF TaskStep, Balanced

(* What the loop around the bodies does: it moves tasks from queue to queue, *)
(* and a task it starts is what its worker is busy with.                     *)
LEMMA LoopMovesUnits ==
  ASSUME NEW b \in Nat \ {0}, NEW w \in Worker, LoopStep(w), EngineInv, EngineInv', BodiesKnown,
         IsFiniteSet(TasksFor(b))
  PROVE  /\ IsFiniteSet(TasksFor(b)')
         /\ Cardinality(TasksFor(b)) \in Nat /\ Cardinality(TasksFor(b)') \in Nat
         /\ \/ /\ IsBusy(w, b)' <=> IsBusy(w, b)
               /\ Cardinality(TasksFor(b)') = Cardinality(TasksFor(b))
            \/ /\ ~IsBusy(w, b)
               /\ Cardinality(TasksFor(b)') + Bit(IsBusy(w, b)') = Cardinality(TasksFor(b))
            \/ /\ ~IsBusy(w, b) /\ ~IsBusy(w, b)' /\ (quit' \/ failed' # {})
               /\ Cardinality(TasksFor(b)') <= Cardinality(TasksFor(b))
<1>0. /\ SP!TypeOK /\ SP!WorkerLoop(w) /\ w \in SP!Worker
      /\ pc \in [Worker -> S!Location] /\ JobsFit /\ QueuesFit /\ QueuesFit'
  BY SchedulerTypes, SameLoop DEF EngineInv, LoopStep, S!TypeOK, Worker, S!Worker, SP!Worker
<1>a. UNCHANGED <<quit, failed, job>>
  BY EngineLoopMoves
<1>1. PICK U : U = TasksTo(b)
  OBVIOUS
<1>2. TasksFor(b) = SP!UnstartedIn(U) /\ TasksFor(b)' = SP!UnstartedIn(U)'
  <2>1. TasksFor(b) = SP!UnstartedIn(TasksTo(b))
    BY <1>0, TasksForIs DEF TasksAreUnstarted
  <2>2. TasksFor(b)' = SP!UnstartedIn(TasksTo(b))'
    BY <1>0, TasksForIsNext DEF TasksAreUnstarted
  <2>3. TasksTo(b)' = TasksTo(b)
    BY DEF TasksTo
  <2> QED
    BY <1>1, <2>1, <2>2, <2>3
<1>3. PICK X, Y : X = TasksFor(b) /\ Y = TasksFor(b)'
  OBVIOUS
<1>4. CASE ~SP!Admit(w)
  <2>1. IsFiniteSet(Y) /\ Cardinality(Y) = Cardinality(X)
    <3>1. IsFiniteSet(SP!UnstartedIn(U))
      BY <1>2
    <3>2. /\ SP!IsFiniteSet(SP!UnstartedIn(U)')
          /\ SP!Cardinality(SP!UnstartedIn(U)') = SP!Cardinality(SP!UnstartedIn(U))
      BY <1>0, <1>4, <3>1, SP!LoopKeepsUnstarted, SameCounting, RootsAreTasks
    <3> QED
      BY <1>2, <1>3, <3>2, SameCounting
  <2>2. Cardinality(X) \in Nat
    BY <1>3, FS_CardinalityType
  <2>3. IsBusy(w, b)' <=> IsBusy(w, b)
    <3>1. PICK c \in S!Location : pc' = [pc EXCEPT ![w] = c] /\ SP!LoopMove(w, pc[w], c)
      BY EngineLoopMoves
    <3>2. pc[w] # "run" /\ pc[w] # "got"
      BY <1>0, <1>4 DEF SP!WorkerLoop, SP!PopLocal, SP!LocalEmpty, SP!StealInjector, SP!InjectorMissed,
         SP!StealPeer, SP!PeerMissed, SP!NothingFound, SP!LeaveLoop, SP!GoToSleep, SP!StartWait,
         SP!Notified, SP!TimesOut, SP!TaskFinished, SP!NotifyAtZero, SP!StoreFatal, SP!StopAfterFatal,
         SP!Die, SP!FlushAndReport, SP!CountTask, SP!PushTask, SP!StopAfterQuit, SP!NotifySleepers, SP!Goto
    <3>3. ~At(w, "idle") /\ ~At(w, "idle")'
      <4>1. c = "run" => pc[w] \in {"count", "push", "quit"}
        BY <3>1, <3>2 DEF SP!LoopMove, SP!Searching
      <4>2. pc[w] \in {"count", "push", "quit"} => job[w].step # "idle"
        BY DEF BodiesKnown
      <4>3. pc'[w] = c
        BY <1>0, <3>1
      <4> QED
        BY <1>4, <1>a, <3>2, <4>1, <4>2, <4>3 DEF At
    <3> QED
      BY <1>a, <3>3 DEF IsBusy
  <2> QED
    BY <1>3, <2>1, <2>2, <2>3
<1>5. CASE SP!Admit(w)
  <2>1. /\ SP!UnstartedIn(U)' = SP!UnstartedIn(U) \ {<<w, 0>>}
        /\ <<w, 0>> \in SP!UnstartedIn(U) <=> task[w] \in U
    BY <1>0, <1>5, SP!AdmitStartsTask, RootsAreTasks
  <2>2. /\ pc[w] = "got" /\ task' = task
        /\ pc'[w] = (IF accept THEN "run" ELSE "finish")
    BY <1>0, <1>5 DEF SP!Admit, SP!Goto, SP!queues
  <2>3. task[w] \in U <=> task[w].barrier = b
    BY <1>0, <1>1, <2>2 DEF QueuesFit, TasksTo
  <2>4. job[w] = NoJob /\ job'[w] = NoJob
    BY <1>a, <2>2 DEF BodiesKnown
  <2>5. ~IsBusy(w, b)
    BY <2>2, <2>4 DEF IsBusy, At, NoJob, NoBarrier
  <2>6. IsBusy(w, b)' <=> accept /\ task[w].barrier = b
    BY <2>2, <2>4 DEF IsBusy, At, NoJob, NoBarrier
  <2>7. \A x : x # <<w, 0>> => (x \in X <=> x \in Y)
    BY <1>2, <1>3, <2>1
  <2>8. (<<w, 0>> \in X <=> task[w].barrier = b) /\ <<w, 0>> \notin Y
    BY <1>2, <1>3, <2>1, <2>3
  <2>9. /\ IsFiniteSet(Y) /\ Cardinality(X) \in Nat /\ Cardinality(Y) \in Nat
        /\ Cardinality(Y) + Bit(<<w, 0>> \in X) = Cardinality(X) + Bit(<<w, 0>> \in Y)
    BY <1>3, <2>7, OneChanged
  <2>10. Cardinality(Y) + Bit(task[w].barrier = b) = Cardinality(X)
    BY <2>8, <2>9 DEF Bit
  <2>11. ~accept => quit' \/ failed' # {}
    BY <1>a DEF BodiesKnown
  <2>12. CASE accept
    <3>1. Bit(IsBusy(w, b)') = Bit(task[w].barrier = b)
      BY <2>6, <2>12 DEF Bit
    <3> QED
      BY <1>3, <2>5, <2>9, <2>10, <3>1
  <2>13. CASE ~accept
    <3>1. Cardinality(Y) <= Cardinality(X) /\ ~IsBusy(w, b)'
      BY <2>6, <2>9, <2>10, <2>13 DEF Bit
    <3> QED
      BY <1>3, <2>5, <2>9, <2>11, <2>13, <3>1
  <2> QED
    BY <2>12, <2>13
<1> QED
  BY <1>4, <1>5

LEMMA OthersKeepTasks ==
  ASSUME NEW w \in Worker, LoopStep(w), EngineInv
  PROVE  \A v \in Worker \ {w} : pc'[v] = pc[v] /\ task'[v] = task[v] /\ job'[v] = job[v]
<1>1. /\ pc \in [Worker -> S!Location] /\ task \in [Worker -> EngineTask \cup {NoTask}]
      /\ SP!WorkerLoop(w)
  BY SchedulerTypes, SameLoop DEF S!TypeOK, Worker, S!Worker, LoopStep
<1>2. \/ task' = task
      \/ \E t : task' = [task EXCEPT ![w] = t]
  BY <1>1 DEF SP!WorkerLoop, SP!PopLocal, SP!LocalEmpty, SP!StealInjector, SP!InjectorMissed,
     SP!StealPeer, SP!PeerMissed, SP!NothingFound, SP!LeaveLoop, SP!GoToSleep, SP!StartWait,
     SP!Notified, SP!TimesOut, SP!Admit, SP!TaskFinished, SP!NotifyAtZero, SP!StoreFatal,
     SP!StopAfterFatal, SP!Die, SP!FlushAndReport, SP!CountTask, SP!PushTask,
     SP!StopAfterQuit, SP!NotifySleepers, SP!queues
<1>3. \E c \in S!Location : pc' = [pc EXCEPT ![w] = c]
  BY EngineLoopMoves
<1>4. job' = job
  BY EngineLoopMoves
<1>5. \A v \in Worker \ {w} : pc'[v] = pc[v]
  BY <1>1, <1>3
<1>6. \A v \in Worker \ {w} : task'[v] = task[v]
  BY <1>1, <1>2
<1> QED
  BY <1>4, <1>5, <1>6

LEMMA LoopSettles ==
  ASSUME NEW b \in Nat \ {0}, NEW w \in Worker, LoopStep(w), EngineInv, EngineInv', BodiesKnown,
         Balanced(b)
  PROVE  Settles(b)
<1>1. PICK B, T, H, D : Amounts(b, B, T, H, D)
  BY AmountsAre DEF Balanced
<1>2. UNCHANGED <<job, barriers>>
  BY EngineLoopMoves
<1>3. PICK T2, C, E, x, y :
        /\ T2 = Cardinality(TasksFor(b)') /\ C = Cardinality(BusyFor(b)) /\ E = Cardinality(BusyFor(b)')
        /\ x = Bit(IsBusy(w, b)) /\ y = Bit(IsBusy(w, b)')
  OBVIOUS
<1>4. C \in Nat /\ E \in Nat /\ E + x = C + y
  <2>1. \A v \in Worker \ {w} : pc'[v] = pc[v] /\ task'[v] = task[v] /\ job'[v] = job[v]
    BY OthersKeepTasks
  <2>2. /\ Cardinality(BusyFor(b)) \in Nat /\ Cardinality(BusyFor(b)') \in Nat
        /\ Cardinality(BusyFor(b)') + Bit(IsBusy(w, b)) = Cardinality(BusyFor(b)) + Bit(IsBusy(w, b)')
    BY <2>1, BusyChanges
  <2> QED
    BY <1>3, <2>2
<1>5. /\ IsFiniteSet(TasksFor(b)') /\ T \in Nat /\ T2 \in Nat
      /\ \/ x = y /\ T2 = T
         \/ x = 0 /\ T2 + y = T
         \/ x = 0 /\ y = 0 /\ (quit' \/ failed' # {}) /\ T2 <= T
  <2>1. IsFiniteSet(TasksFor(b)) /\ T = Cardinality(TasksFor(b))
    BY <1>1 DEF Amounts
  <2>2. /\ IsFiniteSet(TasksFor(b)')
        /\ Cardinality(TasksFor(b)) \in Nat /\ Cardinality(TasksFor(b)') \in Nat
        /\ \/ /\ IsBusy(w, b)' <=> IsBusy(w, b)
              /\ Cardinality(TasksFor(b)') = Cardinality(TasksFor(b))
           \/ /\ ~IsBusy(w, b)
              /\ Cardinality(TasksFor(b)') + Bit(IsBusy(w, b)') = Cardinality(TasksFor(b))
           \/ /\ ~IsBusy(w, b) /\ ~IsBusy(w, b)' /\ (quit' \/ failed' # {})
              /\ Cardinality(TasksFor(b)') <= Cardinality(TasksFor(b))
    BY <2>1, LoopMovesUnits
  <2> QED
    BY <1>3, <2>1, <2>2 DEF Bit
<1>6. x \in Nat /\ y \in Nat
  BY <1>3 DEF Bit
<1>7. HeldIn(job', b) = HeldIn(job, b) /\ BelowIn(barriers', b) = BelowIn(barriers, b)
      /\ DueIn(barriers', b) = D
  BY <1>1, <1>2 DEF Amounts
<1>8. AmountsAfter(b, B, T2, H, D)
  BY <1>1, <1>3, <1>5, <1>7 DEF Amounts, AmountsAfter
<1>9. Finite(b)'
  <2>1. Stored(b)'
    BY <1>8 DEF AmountsAfter, Stored
  <2> QED
    BY <2>1, StoredIsNext
<1>10. UnitsOf(b) = (B + T + H) + C /\ UnitsOf(b)' = (B + T2 + H) + E
  BY <1>1, <1>3, <1>8, StoredIsNext DEF Stock, Amounts, AmountsAfter
<1>11. DueIn(barriers, b) = D /\ DueIn(barriers, b)' = D
  BY <1>1, <1>7 DEF Amounts, DueIn
<1>12. \/ (B + T2 + H) + E + D = (B + T + H) + C + D
       \/ /\ (B + T2 + H) + E + D <= (B + T + H) + C + D
          /\ quit' \/ failed' # {}
  <2>1. B \in Nat /\ H \in Nat /\ D \in Nat
    BY <1>1 DEF Amounts
  <2> QED
    BY <1>4, <1>5, <1>6, <2>1
<1> QED
  BY <1>9, <1>10, <1>11, <1>12 DEF Settles

-----------------------------------------------------------------------------
(* The counts are exact                                                    *)

LEMMA CountsInit == Init => CountsInv
<1> SUFFICES ASSUME Init, NEW b \in Nat \ {0} PROVE Balanced(b)
  BY DEF CountsInv
<1>1. EngineInv
  BY EngineInit
<1>2. RecordsBelow(b) = {} /\ DueIn(barriers, b) = 0
  BY DEF Init, RecordsBelow, DueIn
<1>3. BusyFor(b) = {}
  BY DEF Init, S!SchedInit, BusyFor, At, NoJob, NoBarrier, Worker
<1>4. HeldFor(b) = {}
  <2>1. \A w \in Worker : job[w].frames = <<>>
    BY DEF Init, NoJob
  <2>2. \A x : x \notin HeldIn(job, b)
    BY <2>1, HeldPlaces DEF PlaceIn
  <2> QED
    BY <2>2, HeldIs
<1>5. TasksFor(b) = {}
  <2>1. TasksFor(b) = SP!UnstartedIn(TasksTo(b))
    BY <1>1, TasksForIs DEF TasksAreUnstarted, EngineInv
  <2> SUFFICES ASSUME NEW x \in SP!UnstartedIn(TasksTo(b)) PROVE FALSE
    BY <2>1
  <2>2. \A w \in Worker : pc[w] = "local" /\ deque[w] = <<>>
    BY DEF Init, S!SchedInit, Worker
  <2>3. SP!Got = {} /\ SP!Publishing = {} /\ SP!Worker = Worker
    BY <2>2 DEF SP!Got, SP!Publishing, SP!Worker, Worker, S!Worker
  <2>4. PICK q, i : /\ x = <<q, i>>
                    /\ \E t \in TasksTo(b) : SP!WaitsAt(injector, deque, SP!Got, SP!Publishing,
                                                        task, pub, t, q, i)
    BY <2>3, SP!UnstartedPlaces, RootsAreTasks DEF SP!UnstartedIn
  <2>5. injector = RootTasks
    BY DEF Init, S!SchedInit, RootTasks
  <2>6. \A j \in 1..Len(RootTasks) : RootTasks[j] \notin TasksTo(b)
    <3>1. Len(RootTasks) = Len(StartPaths) /\ \A j \in 1..Len(StartPaths) : RootTasks[j].barrier = 0
      <4>1. Len(StartPaths) \in Nat
        BY WalkTreeAssumption, LenProperties
      <4> QED
        BY <4>1 DEF RootTasks, ChunkTask, NoBarrier
    <3> QED
      BY <3>1 DEF TasksTo
  <2> QED
    BY <2>2, <2>3, <2>4, <2>5, <2>6 DEF SP!WaitsAt
<1>6. UnitsOf(b) = 0 /\ Finite(b)
  BY <1>2, <1>3, <1>4, <1>5, FS_EmptySet DEF UnitsOf, Finite
<1> QED
  BY <1>2, <1>6 DEF Balanced

LEMMA CountsStep == EngineInv /\ EngineInv' /\ BodiesKnown /\ CountsInv /\ [Next]_vars => CountsInv'
<1> SUFFICES ASSUME EngineInv, EngineInv', BodiesKnown, CountsInv, [Next]_vars,
                    NEW b \in Nat \ {0}
             PROVE  Balanced(b)'
  BY DEF CountsInv
<1>1. Balanced(b)
  BY DEF CountsInv
<1>2. CASE UNCHANGED vars
  <2>1. /\ RecordsBelow(b)' = RecordsBelow(b) /\ TasksFor(b)' = TasksFor(b)
        /\ HeldFor(b)' = HeldFor(b) /\ BusyFor(b)' = BusyFor(b)
        /\ DueIn(barriers, b)' = DueIn(barriers, b) /\ UNCHANGED <<quit, failed>>
    BY <1>2 DEF vars, schedVars, RecordsBelow, TasksFor, Unstarted, S!SlotsOf, S!TaskIn, HeldFor,
       Call, CallsFor, BusyFor, At, DueIn
  <2> QED
    BY <1>1, <2>1 DEF Balanced, Finite, UnitsOf
<1>3. ASSUME NEW w \in Worker, LoopStep(w) PROVE Balanced(b)'
  <2>1. UNCHANGED <<quit, failed>>
    BY <1>3, EngineLoopMoves
  <2>2. Settles(b)
    BY <1>1, <1>3, LoopSettles
  <2> QED
    BY <1>1, <2>1, <2>2, BalanceKept
<1>4. ASSUME NEW w \in Worker, TaskStep(w) PROVE Balanced(b)'
  <2>1. (quit => quit') /\ failed \subseteq failed'
    BY <1>4, TaskMoves DEF schedVars
  <2>2. CASE QuietStep(w)
    BY <1>1, <2>1, <2>2, QuietSettles, BalanceKept
  <2>3. CASE StartChunk(w)
    BY <1>1, <2>1, <2>3, StartSettles, BalanceKept
  <2>4. CASE EndBatch(w) \/ LeaveDirectory(w) \/ PublishDone(w)
    BY <1>1, <2>1, <2>4, EndSettles, BalanceKept
  <2>5. CASE VisitNext(w)
    BY <1>1, <2>1, <2>5, VisitSettles, BalanceKept
  <2>6. CASE BeginDirectory(w)
    BY <1>1, <2>1, <2>6, BeginSettles, BalanceKept
  <2>7. CASE PublishChunk(w)
    BY <1>1, <2>1, <2>7, PublishSettles, BalanceKept
  <2>8. CASE LeaveAfterQuit(w) \/ EvalFails(w)
    BY <1>1, <2>1, <2>8, DropSettles, BalanceKept
  <2>9. CASE FinishUnit(w)
    BY <1>1, <2>1, <2>9, UnitSettles, BalanceKept
  <2>10. CASE FinishLastUnit(w)
    BY <1>1, <2>1, <2>10, LastUnitSettles, BalanceKept
  <2>11. CASE ReleaseDirectory(w)
    BY <1>1, <2>1, <2>11, ReleaseSettles, BalanceKept
  <2> QED
    BY <1>4, <2>2, <2>3, <2>4, <2>5, <2>6, <2>7, <2>8, <2>9, <2>10, <2>11 DEF TaskStep, QuietStep
<1> QED
  BY <1>2, <1>3, <1>4 DEF Next, vars, schedVars

LEMMA CountsInvariant == Spec => [](EngineInv /\ BodiesKnown /\ CountsInv)
<1>1. Init => EngineInv /\ BodiesKnown /\ CountsInv
  BY EngineInit, BodiesInit, CountsInit
<1>2. EngineInv /\ BodiesKnown /\ CountsInv /\ [Next]_vars => (EngineInv /\ BodiesKnown /\ CountsInv)'
  BY EngineStep, BodiesStep, CountsStep
<1> QED
  BY <1>1, <1>2, PTL DEF Spec

(* Unless the walk is stopped, a directory's barrier waits for exactly what   *)
(* will report to it: its child batches, the tasks with its chunks, the nodes *)
(* and chunks its workers still hold, and what they are about to report.  It  *)
(* waits for no more, so it is released, and for no less, so it is not        *)
(* released early, however the chunks were split, stolen and reported.        *)
THEOREM BarriersCountExactly == Spec => []BarrierCountsExact
<1>1. EngineInv /\ BodiesKnown /\ CountsInv => BarrierCountsExact
  <2> SUFFICES ASSUME EngineInv, CountsInv, ~quit, failed = {}, NEW b \in DOMAIN barriers
               PROVE  barriers[b].remaining = UnitsOf(b)
    BY DEF BarrierCountsExact
  <2>1. b \in Nat \ {0}
    BY DEF EngineInv, TableFits
  <2>2. UnitsOf(b) = DueIn(barriers, b)
    BY <2>1 DEF CountsInv, Balanced
  <2> QED
    BY <2>2 DEF DueIn
<1> QED
  BY <1>1, CountsInvariant, PTL

(* Whoever reports a unit finds the record it reports to, also while a -quit  *)
(* or a failure is unwinding the walk: the barrier waits for the units on     *)
(* their way to it, so the table's "unknown barrier" answer is never given.   *)
THEOREM ReportsFindTheirBarrier == Spec => []NotifyFindsBarrier
<1>1. EngineInv /\ BodiesKnown /\ CountsInv => NotifyFindsBarrier
  <2> SUFFICES ASSUME EngineInv, CountsInv, NEW w \in Worker, job[w].notify # NoBarrier
               PROVE  job[w].notify \in DOMAIN barriers
    BY DEF NotifyFindsBarrier
  <2>1. PICK b : b = job[w].notify
    OBVIOUS
  <2>2. b \in Nat \ {0}
    BY <2>1 DEF EngineInv, JobsFit, WalkJob, Barrier, NoBarrier
  <2>3. Finite(b) /\ UnitsOf(b) <= DueIn(barriers, b)
    BY <2>2 DEF CountsInv, Balanced
  <2>4. /\ UnitsOf(b) \in Nat /\ DueIn(barriers, b) \in Nat
        /\ Cardinality(BusyFor(b)) \in Nat /\ UnitsOf(b) >= Cardinality(BusyFor(b))
    BY <2>3, NumbersAre
  <2>5. Cardinality(BusyFor(b)) # 0
    <3>1. w \in BusyFor(b) /\ BusyFor(b) \subseteq 1..NWorkers
      BY <2>1 DEF BusyFor, Worker, S!Worker
    <3>2. IsFiniteSet(BusyFor(b))
      BY <3>1, PostOrderAssumption, FS_Interval, FS_Subset
    <3> QED
      BY <3>1, <3>2, FS_EmptySet
  <2>6. DueIn(barriers, b) # 0
    BY <2>3, <2>4, <2>5
  <2> QED
    BY <2>1, <2>6 DEF DueIn
<1> QED
  BY <1>1, CountsInvariant, PTL

-----------------------------------------------------------------------------
(* Who holds a node                                                        *)

(* e is the k-th of s from the end: what is taken from, or put at, the head  *)
(* of s leaves the others where they are.                                    *)
AtEnd(s, e, k) == k \in 1..Len(s) /\ s[Len(s) + 1 - k] = e

(* A node of a batch, or a node of a chunk still to be published. *)
InFrame(f, n, k, l) ==
  \/ l = 0 /\ AtEnd(f.nodes, n, k)
  \/ \E c : AtEnd(f.chunks, c, k) /\ AtEnd(c, n, l)

InCalls(fs, n, t, h, k, l) == \E f : AtEnd(fs, f, h) /\ f.barrier = t /\ InFrame(f, n, k, l)

(* A node is "new" until it is visited, "listed" while its children are      *)
(* read, "waiting" while it has a record, and "ready" when only its          *)
(* evaluation is left.                                                       *)
BusyWith(j, n, t, s) ==
  /\ j.step \in {"open", "list", "eval", "release"}
  /\ j.at = n /\ j.notify = t
  /\ s = IF j.step \in {"open", "list"} THEN "listed" ELSE "ready"

InTask(u, n, t, s, k) ==
  /\ u.barrier = t
  /\ IF u.resume THEN s = "ready" /\ k = 1 /\ n = u.nodes[1] ELSE s = "new" /\ AtEnd(u.nodes, n, k)

(* A task that waits, or that its worker has not looked at. *)
WaitsAt(u, q, i) == SP!TaskAt(u, q, i) /\ (i = 0 => pc[q] = "got" \/ At(q, "idle"))

TaskHeld(q, i, x, n, t, s) == \E u, k : WaitsAt(u, q, i) /\ InTask(u, n, t, s, k) /\ x = <<0, k, 0>>
BusyHeld(q, i, x, n, t, s) == q \in Worker /\ i = -2 /\ x = <<0, 0, 0>> /\ BusyWith(job[q], n, t, s)
RecordHeld(q, i, x, n, t, s) ==
  /\ q \in DOMAIN barriers /\ i = -3 /\ x = <<0, 0, 0>>
  /\ n = barriers[q].entry /\ n # NoNode /\ t = barriers[q].parent /\ s = "waiting"
CallHeld(q, i, x, n, t, s) ==
  q \in Worker /\ i = -4 /\ s = "new" /\ \E h, k, l : x = <<h, k, l>> /\ InCalls(job[q].frames, n, t, h, k, l)

(* Node n is at place x of (q, i), is to be reported to t, and got so far. *)
Held(q, i, x, n, t, s) ==
  \/ TaskHeld(q, i, x, n, t, s) \/ BusyHeld(q, i, x, n, t, s)
  \/ RecordHeld(q, i, x, n, t, s) \/ CallHeld(q, i, x, n, t, s)

LEMMA EndPushed ==
  ASSUME NEW R, NEW f \in R, NEW s \in Seq(R), NEW e, NEW k
  PROVE  AtEnd(<<f>> \o s, e, k) <=> AtEnd(s, e, k) \/ (k = Len(s) + 1 /\ e = f)
<1> DEFINE s2 == <<f>> \o s
<1>1. Len(s) \in Nat /\ Len(s2) = Len(s) + 1 /\ s2[1] = f
      /\ \A i \in 1..Len(s) : s2[i + 1] = s[i]
  <2>1. <<f>> \in Seq(R) /\ Len(<<f>>) = 1 /\ <<f>>[1] = f
    OBVIOUS
  <2>2. Len(s) \in Nat /\ Len(s2) = 1 + Len(s)
    BY <2>1, ConcatProperties, LenProperties
  <2>3. s2[1] = f
    BY <2>1, <2>2, ConcatProperties
  <2>4. ASSUME NEW i \in 1..Len(s) PROVE s2[i + 1] = s[i]
    <3>1. s2[1 + i] = s[i]
      BY <2>1, <2>2, ConcatProperties
    <3> QED
      BY <2>2, <3>1
  <2> QED
    BY <2>2, <2>3, <2>4
<1> HIDE DEF s2
<1>2. CASE k \in 1..Len(s)
  <2>1. PICK i : i = Len(s) + 1 - k
    OBVIOUS
  <2>2. i \in 1..Len(s) /\ Len(s2) + 1 - k = i + 1 /\ k \in 1..Len(s2) /\ k # Len(s) + 1
    BY <1>1, <1>2, <2>1
  <2>3. s2[Len(s2) + 1 - k] = s[Len(s) + 1 - k]
    BY <1>1, <2>1, <2>2
  <2> QED
    BY <1>2, <2>2, <2>3 DEF AtEnd, s2
<1>3. CASE k = Len(s) + 1
  <2>1. k \in 1..Len(s2) /\ Len(s2) + 1 - k = 1 /\ k \notin 1..Len(s)
    BY <1>1, <1>3
  <2> QED
    BY <1>1, <1>3, <2>1 DEF AtEnd, s2
<1>4. CASE k \notin 1..Len(s) /\ k # Len(s) + 1
  <2>1. k \notin 1..Len(s2)
    BY <1>1, <1>4
  <2> QED
    BY <1>4, <2>1 DEF AtEnd, s2
<1> QED
  BY <1>2, <1>3, <1>4

LEMMA HeadAndTail ==
  ASSUME NEW R, NEW s \in Seq(R), s # <<>>
  PROVE  s = <<Head(s)>> \o Tail(s) /\ Head(s) \in R /\ Tail(s) \in Seq(R) /\ Len(Tail(s)) + 1 = Len(s)
<1>1. Head(s) \in R /\ Tail(s) \in Seq(R) /\ Len(Tail(s)) = Len(s) - 1 /\ Len(s) \in Nat
  BY HeadTailProperties, LenProperties, EmptySeq
<1>2. s = <<Head(s)>> \o Tail(s)
  OBVIOUS
<1> QED
  BY <1>1, <1>2

LEMMA EndTail ==
  ASSUME NEW R, NEW s \in Seq(R), s # <<>>, NEW e, NEW k
  PROVE  /\ AtEnd(s, e, k) <=> AtEnd(Tail(s), e, k) \/ (k = Len(s) /\ e = Head(s))
         /\ AtEnd(Tail(s), e, k) => k # Len(s)
<1>1. s = <<Head(s)>> \o Tail(s) /\ Head(s) \in R /\ Tail(s) \in Seq(R) /\ Len(Tail(s)) + 1 = Len(s)
  BY HeadAndTail
<1>2. AtEnd(<<Head(s)>> \o Tail(s), e, k)
        <=> AtEnd(Tail(s), e, k) \/ (k = Len(Tail(s)) + 1 /\ e = Head(s))
  BY <1>1, EndPushed
<1>3. AtEnd(Tail(s), e, k) => k # Len(s)
  <2>1. PICK r : r = Tail(s)
    OBVIOUS
  <2>2. Len(r) \in Nat /\ Len(s) = Len(r) + 1
    BY <1>1, <2>1, LenProperties
  <2>3. AtEnd(r, e, k) => k # Len(s)
    BY <2>2 DEF AtEnd
  <2> QED
    BY <2>1, <2>3
<1> QED
  BY <1>1, <1>2, <1>3

LEMMA EndIs ==
  ASSUME NEW R, NEW s \in Seq(R), NEW e, NEW k, AtEnd(s, e, k)
  PROVE  e \in R /\ k \in Nat \ {0}
<1>1. Len(s) \in Nat /\ k \in 1..Len(s) /\ e = s[Len(s) + 1 - k]
  BY LenProperties DEF AtEnd
<1>2. Len(s) + 1 - k \in 1..Len(s) /\ k \in Nat \ {0}
  BY <1>1
<1> QED
  BY <1>1, <1>2, ElementOfSeq

(* Listed somewhere is at some place from the end. *)
LEMMA EndListed ==
  ASSUME NEW R, NEW s \in Seq(R), NEW e
  PROVE  Listed(s, e) <=> \E k : AtEnd(s, e, k)
<1>1. Len(s) \in Nat
  BY LenProperties
<1>2. ASSUME NEW i \in 1..Len(s), s[i] = e PROVE \E k : AtEnd(s, e, k)
  <2>1. PICK k : k = Len(s) + 1 - i
    OBVIOUS
  <2>2. k \in 1..Len(s) /\ Len(s) + 1 - k = i
    BY <1>1, <2>1
  <2> QED
    BY <1>2, <2>2 DEF AtEnd
<1>3. ASSUME NEW k, AtEnd(s, e, k) PROVE Listed(s, e)
  <2>1. Len(s) + 1 - k \in 1..Len(s) /\ s[Len(s) + 1 - k] = e
    BY <1>1, <1>3 DEF AtEnd
  <2> QED
    BY <2>1 DEF Listed
<1> QED
  BY <1>2, <1>3 DEF Listed

LEMMA EndRepeated ==
  ASSUME NEW R, NEW s \in Seq(R), NEW e, NEW k, NEW l, AtEnd(s, e, k), AtEnd(s, e, l), k # l
  PROVE  Repeated(s, e)
<1>1. Len(s) \in Nat
  BY LenProperties
<1>2. PICK a, b : a = Len(s) + 1 - k /\ b = Len(s) + 1 - l
  OBVIOUS
<1>3. a \in 1..Len(s) /\ b \in 1..Len(s) /\ a # b /\ s[a] = e /\ s[b] = e
  BY <1>1, <1>2 DEF AtEnd
<1> QED
  BY <1>3 DEF Repeated

LEMMA NothingAtEnd == \A e, k : ~AtEnd(<<>>, e, k)
  BY DEF AtEnd

LEMMA FrameParts ==
  ASSUME NEW f \in WalkFrame
  PROVE  /\ f.nodes \in Seq(Walked) /\ f.chunks \in Seq(Chunk) /\ f.barrier \in Nat
         /\ f.kind = "batch" => f.chunks = <<>>
         /\ f.kind = "dir" => f.nodes = <<>>
<1>1. CASE f \in [kind : {"batch"}, nodes : Seq(Walked), barrier : Barrier, chunks : {<<>>}]
  <2>1. f.kind = "batch" /\ f.nodes \in Seq(Walked) /\ f.barrier \in Barrier /\ f.chunks = <<>>
    BY <1>1
  <2> QED
    BY <2>1, EmptySeq DEF Barrier
<1>2. CASE f \in [kind : {"dir"}, nodes : {<<>>}, barrier : Barrier, chunks : Seq(Chunk)]
  <2>1. f.kind = "dir" /\ f.nodes = <<>> /\ f.barrier \in Barrier /\ f.chunks \in Seq(Chunk)
    BY <1>2
  <2> QED
    BY <2>1, EmptySeq DEF Barrier
<1> QED
  BY <1>1, <1>2 DEF WalkFrame

LEMMA InFrameIs ==
  ASSUME NEW f \in WalkFrame, NEW n, NEW k, NEW l, InFrame(f, n, k, l)
  PROVE  /\ n \in Walked /\ k \in Nat \ {0}
         /\ l = 0 => f.kind = "batch"
         /\ l # 0 => f.kind = "dir" /\ l \in Nat \ {0}
<1>1. /\ f.nodes \in Seq(Walked) /\ f.chunks \in Seq(Chunk) /\ f.kind \in {"batch", "dir"}
      /\ f.kind = "batch" => f.chunks = <<>>
      /\ f.kind = "dir" => f.nodes = <<>>
  BY FrameParts DEF WalkFrame
<1>2. CASE l = 0 /\ AtEnd(f.nodes, n, k)
  BY <1>1, <1>2, EndIs, NothingAtEnd
<1>3. ASSUME NEW c, AtEnd(f.chunks, c, k), AtEnd(c, n, l)
      PROVE  n \in Walked /\ k \in Nat \ {0} /\ l \in Nat \ {0} /\ f.kind = "dir"
  <2>1. c \in Chunk /\ k \in Nat \ {0} /\ f.kind = "dir"
    BY <1>1, <1>3, EndIs, NothingAtEnd
  <2>2. c \in Seq(Walked)
    BY <2>1 DEF Chunk
  <2> QED
    BY <1>3, <2>1, <2>2, EndIs
<1> QED
  BY <1>2, <1>3 DEF InFrame

LEMMA CallsPushed ==
  ASSUME NEW f \in WalkFrame, NEW fs \in Seq(WalkFrame), NEW n, NEW t, NEW h, NEW k, NEW l
  PROVE  InCalls(<<f>> \o fs, n, t, h, k, l)
           <=> InCalls(fs, n, t, h, k, l)
               \/ (h = Len(fs) + 1 /\ f.barrier = t /\ InFrame(f, n, k, l))
<1>1. \A g : AtEnd(<<f>> \o fs, g, h) <=> AtEnd(fs, g, h) \/ (h = Len(fs) + 1 /\ g = f)
  BY EndPushed
<1> QED
  BY <1>1 DEF InCalls

LEMMA CallsTail ==
  ASSUME NEW fs \in Seq(WalkFrame), fs # <<>>, NEW n, NEW t, NEW h, NEW k, NEW l
  PROVE  /\ InCalls(fs, n, t, h, k, l)
              <=> InCalls(Tail(fs), n, t, h, k, l)
                  \/ (h = Len(fs) /\ Head(fs).barrier = t /\ InFrame(Head(fs), n, k, l))
         /\ InCalls(Tail(fs), n, t, h, k, l) => h # Len(fs)
<1>1. \A g : /\ AtEnd(fs, g, h) <=> AtEnd(Tail(fs), g, h) \/ (h = Len(fs) /\ g = Head(fs))
             /\ AtEnd(Tail(fs), g, h) => h # Len(fs)
  BY EndTail
<1> QED
  BY <1>1 DEF InCalls

LEMMA CallIs ==
  ASSUME NEW fs \in Seq(WalkFrame), NEW n, NEW t, NEW h, NEW k, NEW l, InCalls(fs, n, t, h, k, l)
  PROVE  /\ fs # <<>> /\ n \in Walked /\ t \in Nat /\ h \in Nat \ {0} /\ k \in Nat \ {0} /\ l \in Nat
         /\ h \in 1..Len(fs)
<1>1. PICK f : AtEnd(fs, f, h) /\ f.barrier = t /\ InFrame(f, n, k, l)
  BY DEF InCalls
<1>2. f \in WalkFrame /\ h \in Nat \ {0} /\ h \in 1..Len(fs)
  BY <1>1, EndIs DEF AtEnd
<1>3. t \in Nat /\ n \in Walked /\ k \in Nat \ {0} /\ l \in Nat
  BY <1>1, <1>2, FrameParts, InFrameIs
<1>4. fs # <<>>
  BY <1>1, NothingAtEnd
<1> QED
  BY <1>2, <1>3, <1>4

LEMMA NoCalls == \A n, t, h, k, l : ~InCalls(<<>>, n, t, h, k, l)
  BY NothingAtEnd DEF InCalls

(* The next node of a batch is taken, or the next chunk to be published. *)
NodeLess(fs, gs) == gs = <<[Head(fs) EXCEPT !.nodes = Tail(@)]>> \o Tail(fs)
ChunkLess(fs, gs) == gs = <<[Head(fs) EXCEPT !.chunks = Tail(@)]>> \o Tail(fs)

LEMMA NodeTaken ==
  ASSUME NEW fs \in Seq(WalkFrame), fs # <<>>, Head(fs).kind = "batch", Head(fs).nodes # <<>>,
         NEW gs, NodeLess(fs, gs),
         NEW n, NEW t, NEW h, NEW k, NEW l
  PROVE  /\ InCalls(fs, n, t, h, k, l)
              <=> InCalls(gs, n, t, h, k, l)
                  \/ (/\ h = Len(fs) /\ k = Len(Head(fs).nodes) /\ l = 0
                      /\ t = Head(fs).barrier /\ n = Head(Head(fs).nodes))
         /\ InCalls(gs, n, t, h, k, l) => ~(h = Len(fs) /\ k = Len(Head(fs).nodes) /\ l = 0)
<1>1. PICK f, r : f = Head(fs) /\ r = Tail(fs)
  OBVIOUS
<1>2. f \in WalkFrame /\ r \in Seq(WalkFrame) /\ Len(r) + 1 = Len(fs)
  BY <1>1, HeadAndTail
<1>3. f.nodes \in Seq(Walked) /\ f.nodes # <<>> /\ f.kind = "batch" /\ f.chunks = <<>>
  BY <1>1, <1>2, FrameParts
<1>4. PICK g : g = [f EXCEPT !.nodes = Tail(@)]
  OBVIOUS
<1>5. g \in WalkFrame /\ g.nodes = Tail(f.nodes) /\ g.barrier = f.barrier /\ g.chunks = <<>>
  <2>1. Tail(f.nodes) \in Seq(Walked)
    BY <1>3, HeadAndTail
  <2> QED
    BY <1>2, <1>3, <1>4, <2>1 DEF WalkFrame
<1>6. gs = <<g>> \o r
  BY <1>1, <1>4 DEF NodeLess
<1>7. /\ InFrame(f, n, k, l) <=> l = 0 /\ AtEnd(f.nodes, n, k)
      /\ InFrame(g, n, k, l) <=> l = 0 /\ AtEnd(g.nodes, n, k)
  BY <1>3, <1>5, NothingAtEnd DEF InFrame
<1>8. /\ AtEnd(f.nodes, n, k) <=> AtEnd(g.nodes, n, k) \/ (k = Len(f.nodes) /\ n = Head(f.nodes))
      /\ AtEnd(g.nodes, n, k) => k # Len(f.nodes)
  BY <1>3, <1>5, EndTail
<1>9. /\ InCalls(fs, n, t, h, k, l)
           <=> InCalls(r, n, t, h, k, l) \/ (h = Len(fs) /\ f.barrier = t /\ InFrame(f, n, k, l))
      /\ InCalls(r, n, t, h, k, l) => h # Len(fs)
  BY <1>1, CallsTail
<1>10. InCalls(gs, n, t, h, k, l)
         <=> InCalls(r, n, t, h, k, l) \/ (h = Len(fs) /\ g.barrier = t /\ InFrame(g, n, k, l))
  <2>1. InCalls(<<g>> \o r, n, t, h, k, l)
          <=> InCalls(r, n, t, h, k, l) \/ (h = Len(r) + 1 /\ g.barrier = t /\ InFrame(g, n, k, l))
    BY <1>2, <1>5, CallsPushed
  <2> QED
    BY <1>2, <1>6, <2>1
<1> QED
  BY <1>1, <1>5, <1>7, <1>8, <1>9, <1>10

LEMMA ChunkTaken ==
  ASSUME NEW fs \in Seq(WalkFrame), fs # <<>>, Head(fs).kind = "dir", Head(fs).chunks # <<>>,
         NEW gs, ChunkLess(fs, gs),
         NEW n, NEW t, NEW h, NEW k, NEW l
  PROVE  /\ InCalls(fs, n, t, h, k, l)
              <=> InCalls(gs, n, t, h, k, l)
                  \/ (/\ h = Len(fs) /\ k = Len(Head(fs).chunks)
                      /\ t = Head(fs).barrier /\ AtEnd(Head(Head(fs).chunks), n, l))
         /\ InCalls(gs, n, t, h, k, l) => ~(h = Len(fs) /\ k = Len(Head(fs).chunks))
<1>1. PICK f, r : f = Head(fs) /\ r = Tail(fs)
  OBVIOUS
<1>2. f \in WalkFrame /\ r \in Seq(WalkFrame) /\ Len(r) + 1 = Len(fs)
  BY <1>1, HeadAndTail
<1>3. f.chunks \in Seq(Chunk) /\ f.chunks # <<>> /\ f.kind = "dir" /\ f.nodes = <<>>
  BY <1>1, <1>2, FrameParts
<1>4. PICK g : g = [f EXCEPT !.chunks = Tail(@)]
  OBVIOUS
<1>5. g \in WalkFrame /\ g.chunks = Tail(f.chunks) /\ g.barrier = f.barrier /\ g.nodes = <<>>
  <2>1. Tail(f.chunks) \in Seq(Chunk)
    BY <1>3, HeadAndTail
  <2> QED
    BY <1>2, <1>3, <1>4, <2>1 DEF WalkFrame
<1>6. gs = <<g>> \o r
  BY <1>1, <1>4 DEF ChunkLess
<1>7. /\ InFrame(f, n, k, l) <=> \E c : AtEnd(f.chunks, c, k) /\ AtEnd(c, n, l)
      /\ InFrame(g, n, k, l) <=> \E c : AtEnd(g.chunks, c, k) /\ AtEnd(c, n, l)
  BY <1>3, <1>5, NothingAtEnd DEF InFrame
<1>8. \A c : /\ AtEnd(f.chunks, c, k) <=> AtEnd(g.chunks, c, k) \/ (k = Len(f.chunks) /\ c = Head(f.chunks))
             /\ AtEnd(g.chunks, c, k) => k # Len(f.chunks)
  BY <1>3, <1>5, EndTail
<1>9. /\ InCalls(fs, n, t, h, k, l)
           <=> InCalls(r, n, t, h, k, l) \/ (h = Len(fs) /\ f.barrier = t /\ InFrame(f, n, k, l))
      /\ InCalls(r, n, t, h, k, l) => h # Len(fs)
  BY <1>1, CallsTail
<1>10. InCalls(gs, n, t, h, k, l)
         <=> InCalls(r, n, t, h, k, l) \/ (h = Len(fs) /\ g.barrier = t /\ InFrame(g, n, k, l))
  <2>1. InCalls(<<g>> \o r, n, t, h, k, l)
          <=> InCalls(r, n, t, h, k, l) \/ (h = Len(r) + 1 /\ g.barrier = t /\ InFrame(g, n, k, l))
    BY ZenonT(120), <1>2, <1>5, CallsPushed
  <2> QED
    BY <1>2, <1>6, <2>1
<1> QED
  BY <1>1, <1>5, <1>7, <1>8, <1>9, <1>10

(* What a step of w's body makes of the calls, and of the node w is at. *)
SameNode(j, k) == k.frames = j.frames /\ k.at = j.at /\ k.notify = j.notify

BodyAfter(w, j, k) ==
  /\ StartChunk(w) =>
       /\ j = NoJob /\ k.step = "next"
       /\ k.frames = <<BatchFor(task[w].nodes, task[w].barrier, nextBarrier)>>
  /\ StartResume(w) =>
       /\ j = NoJob /\ k.frames = <<>> /\ k.at = task[w].nodes[1] /\ k.notify = task[w].barrier
       /\ k.step = CompleteStep(k.at)
  /\ EndTask(w) => j.step = "next" /\ j.frames = <<>> /\ k = NoJob
  /\ EndBatch(w) \/ LeaveDirectory(w) =>
       j.step = "next" /\ j.frames # <<>> /\ k.step = "next" /\ k.frames = Tail(j.frames)
  /\ PublishDone(w) => j.step = "publish" /\ k.step = "next" /\ k.frames = Tail(j.frames)
  /\ VisitNext(w) =>
       /\ j.step = "next" /\ j.frames # <<>> /\ Head(j.frames).kind = "batch" /\ Head(j.frames).nodes # <<>>
       /\ k.frames = <<[Head(j.frames) EXCEPT !.nodes = Tail(@)]>> \o Tail(j.frames)
       /\ k.at = Head(Head(j.frames).nodes) /\ k.notify = Head(j.frames).barrier
       /\ k.items = Items[k.at] /\ k.local = j.local /\ k.buffer = j.buffer /\ k.spilled = j.spilled
       /\ Visit(k.at) = "error" => k.step = "notify"
       /\ Visit(k.at) = "complete" => k.step = CompleteStep(k.at)
       /\ Visit(k.at) = "list" => k.step = "open"
  /\ OpenDirectory(w) => j.step = "open" /\ k.step = "list" /\ SameNode(j, k)
  /\ OpenFails(w) => j.step = "open" /\ k.step = CompleteStep(j.at) /\ SameNode(j, k)
  /\ ListBadItem(w) \/ ListChild(w) => j.step = "list" /\ k.step = "list" /\ SameNode(j, k)
  /\ AbandonListing(w) => j.step = "list" /\ k.step = "next" /\ k.frames = j.frames
  /\ ListedEmpty(w) => j.step = "list" /\ k.step = CompleteStep(j.at) /\ SameNode(j, k)
  /\ BeginDirectory(w) =>
       /\ j.step = "list" /\ k.step = "next"
       /\ LET dir == <<DirFrame(nextBarrier, FinishChunks(j))>> \o j.frames IN
            k.frames = IF j.local = <<>> THEN dir
                       ELSE <<BatchFor(j.local, nextBarrier, nextBarrier + 1)>> \o dir
  /\ PublishRest(w) => j.step = "next" /\ k.step = "publish" /\ k.frames = j.frames
  /\ PublishChunk(w) =>
       /\ j.step = "publish" /\ k.step = "publish" /\ Head(j.frames).chunks # <<>>
       /\ k.frames = <<[Head(j.frames) EXCEPT !.chunks = Tail(@)]>> \o Tail(j.frames)
  /\ EvalOk(w) \/ EvalQuits(w) =>
       j.step = "eval" /\ k.step \in {"notify", "leave"} /\ SameNode(j, k)
  /\ LeaveAfterQuit(w) => j.step = "leave" /\ k = NoJob
  /\ EvalFails(w) => j.step = "eval" /\ k = NoJob
  /\ NotifyEnds(w) \/ FinishUnit(w) => j.step = "notify" /\ k.step = "next" /\ k.frames = j.frames
  /\ FinishLastUnit(w) =>
       /\ j.step = "notify" /\ k.frames = j.frames /\ k.notify = barriers[j.notify].parent
       /\ IF barriers[j.notify].entry = NoNode THEN k.step = "notify"
          ELSE k.step = "release" /\ k.at = barriers[j.notify].entry
  /\ ReleaseDirectory(w) => j.step = "release" /\ k.step = "next" /\ k.frames = j.frames

LEMMA BodyChanges ==
  ASSUME NEW w \in Worker, EngineInv, BodiesKnown
  PROVE  BodyAfter(w, job[w], job'[w])
<1> DEFINE j == job[w]
           k == job'[w]
<1>1. job \in [Worker -> WalkJob] /\ j \in WalkJob
  BY DEF EngineInv, JobsFit
<1>a. \A z : Update(w, z) => k = z
  BY <1>1 DEF Update
<1>b. j.step = "idle" => j = NoJob
  BY DEF EngineInv, JobsFit, AtNode
<1>2. ASSUME StartChunk(w)
      PROVE  /\ j = NoJob /\ k.step = "next"
             /\ k.frames = <<BatchFor(task[w].nodes, task[w].barrier, nextBarrier)>>
  BY <1>2, <1>a, <1>b DEF StartChunk, At, NoJob
<1>3. ASSUME StartResume(w)
      PROVE  /\ j = NoJob /\ k.frames = <<>> /\ k.at = task[w].nodes[1] /\ k.notify = task[w].barrier
             /\ k.step = CompleteStep(k.at)
  <2>1. PICK s, n, b : s = CompleteStep(task[w].nodes[1]) /\ n = task[w].nodes[1] /\ b = task[w].barrier
    OBVIOUS
  <2>2. /\ j.step = "idle"
        /\ Update(w, [NoJob EXCEPT !.step = s, !.at = n, !.notify = b, !.resume = TRUE])
    BY <1>3, <2>1 DEF StartResume, At, CompleteStep
  <2>3. k.frames = <<>> /\ k.at = n /\ k.notify = b /\ k.step = s
    BY <1>a, <2>2 DEF NoJob
  <2> QED
    BY <1>b, <2>1, <2>2, <2>3
<1>4. ASSUME EndTask(w) PROVE j.step = "next" /\ j.frames = <<>> /\ k = NoJob
  BY <1>4, <1>a DEF EndTask, At
<1>5. ASSUME EndBatch(w) \/ LeaveDirectory(w)
      PROVE  j.step = "next" /\ j.frames # <<>> /\ k.step = "next" /\ k.frames = Tail(j.frames)
  <2>1. CASE EndBatch(w)
    BY <1>1, <1>a, <2>1 DEF EndBatch, At, WalkJob
  <2>2. CASE LeaveDirectory(w)
    BY <1>1, <1>a, <2>2 DEF LeaveDirectory, At, WalkJob
  <2> QED
    BY <1>5, <2>1, <2>2
<1>6. ASSUME PublishDone(w) PROVE j.step = "publish" /\ k.step = "next" /\ k.frames = Tail(j.frames)
  BY <1>6, <1>1, <1>a DEF PublishDone, At, WalkJob
<1>7. ASSUME VisitNext(w)
      PROVE  /\ j.step = "next" /\ j.frames # <<>> /\ Head(j.frames).kind = "batch"
             /\ Head(j.frames).nodes # <<>>
             /\ k.frames = <<[Head(j.frames) EXCEPT !.nodes = Tail(@)]>> \o Tail(j.frames)
             /\ k.at = Head(Head(j.frames).nodes) /\ k.notify = Head(j.frames).barrier
             /\ k.items = Items[k.at] /\ k.local = j.local /\ k.buffer = j.buffer /\ k.spilled = j.spilled
             /\ Visit(k.at) = "error" => k.step = "notify"
             /\ Visit(k.at) = "complete" => k.step = CompleteStep(k.at)
             /\ Visit(k.at) = "list" => k.step = "open"
  <2> DEFINE f == Head(j.frames)
             n == Head(f.nodes)
             st == CASE Visit(n) = "error" -> "notify"
                     [] Visit(n) = "complete" -> CompleteStep(n)
                     [] Visit(n) = "list" -> "open"
  <2>1. /\ Visit(n) = "error" => st = "notify"
        /\ Visit(n) = "complete" => st = CompleteStep(n)
        /\ Visit(n) = "list" => st = "open"
    BY ZenonT(120)
  <2>2. /\ j.step = "next" /\ j.frames # <<>> /\ f.kind = "batch" /\ f.nodes # <<>>
        /\ Update(w, [j EXCEPT !.frames = <<[f EXCEPT !.nodes = Tail(@)]>> \o Tail(@),
                               !.at = n, !.notify = f.barrier, !.items = Items[n], !.step = st])
    BY <1>7 DEF VisitNext, At
  <2>3. PICK g, s, it : g = <<[f EXCEPT !.nodes = Tail(@)]>> \o Tail(j.frames) /\ s = st /\ it = Items[n]
    OBVIOUS
  <2> HIDE DEF st
  <2>4. Update(w, [j EXCEPT !.frames = g, !.at = n, !.notify = f.barrier, !.items = it, !.step = s])
    BY <2>2, <2>3
  <2>5. k = [j EXCEPT !.frames = g, !.at = n, !.notify = f.barrier, !.items = it, !.step = s]
    BY <1>a, <2>4
  <2>6. /\ k.frames = g /\ k.at = n /\ k.notify = f.barrier /\ k.items = it /\ k.step = s
        /\ k.local = j.local /\ k.buffer = j.buffer /\ k.spilled = j.spilled
    BY <1>1, <2>5 DEF WalkJob
  <2> QED
    BY ZenonT(120), <2>1, <2>2, <2>3, <2>6
<1>8. ASSUME OpenDirectory(w) PROVE j.step = "open" /\ k.step = "list" /\ SameNode(j, k)
  BY <1>8, <1>1, <1>a DEF OpenDirectory, At, SameNode, WalkJob
<1>9. ASSUME OpenFails(w) PROVE j.step = "open" /\ k.step = CompleteStep(j.at) /\ SameNode(j, k)
  BY <1>9, <1>1, <1>a DEF OpenFails, At, SameNode, WalkJob
<1>10. ASSUME ListBadItem(w) \/ ListChild(w)
       PROVE  j.step = "list" /\ k.step = "list" /\ SameNode(j, k)
  <2>1. CASE ListBadItem(w)
    BY <1>1, <1>a, <2>1 DEF ListBadItem, At, SameNode, WalkJob
  <2>2. CASE ListChild(w)
    <3>1. j.step = "list" /\ k = Accumulate([j EXCEPT !.items = Tail(@)], Head(j.items), accept)
      BY <1>a, <2>2 DEF ListChild, At
    <3>2. PICK z : z = [j EXCEPT !.items = Tail(@)]
      OBVIOUS
    <3>3. /\ z.step = j.step /\ z.frames = j.frames /\ z.at = j.at /\ z.notify = j.notify
      BY <1>1, <3>2 DEF WalkJob
    <3>4. PICK c : c = Head(j.items)
      OBVIOUS
    <3>5. \A a, b, d : /\ [z EXCEPT !.local = a].step = z.step /\ SameNode(z, [z EXCEPT !.local = a])
                       /\ [z EXCEPT !.buffer = b].step = z.step /\ SameNode(z, [z EXCEPT !.buffer = b])
                       /\ [z EXCEPT !.buffer = b, !.spilled = d].step = z.step
                       /\ SameNode(z, [z EXCEPT !.buffer = b, !.spilled = d])
      BY <1>1, <3>2 DEF WalkJob, SameNode
    <3>6. Accumulate(z, c, accept).step = z.step /\ SameNode(z, Accumulate(z, c, accept))
      BY <3>5 DEF Accumulate
    <3> QED
      BY <3>1, <3>2, <3>3, <3>4, <3>6 DEF SameNode
  <2> QED
    BY <1>10, <2>1, <2>2
<1>11. ASSUME AbandonListing(w) PROVE j.step = "list" /\ k.step = "next" /\ k.frames = j.frames
  BY ZenonT(90), <1>11, <1>1, <1>a DEF AbandonListing, AfterListing, At, WalkJob
<1>12. ASSUME ListedEmpty(w) PROVE j.step = "list" /\ k.step = CompleteStep(j.at) /\ SameNode(j, k)
  BY <1>12, <1>1, <1>a DEF ListedEmpty, At, SameNode, WalkJob
<1>13. ASSUME BeginDirectory(w)
       PROVE  /\ j.step = "list" /\ k.step = "next"
              /\ LET dir == <<DirFrame(nextBarrier, FinishChunks(j))>> \o j.frames IN
                   k.frames = IF j.local = <<>> THEN dir
                              ELSE <<BatchFor(j.local, nextBarrier, nextBarrier + 1)>> \o dir
  <2>1. PICK fs : fs = (LET dir == <<DirFrame(nextBarrier, FinishChunks(j))>> \o j.frames IN
                          IF j.local = <<>> THEN dir
                          ELSE <<BatchFor(j.local, nextBarrier, nextBarrier + 1)>> \o dir)
    OBVIOUS
  <2>2. j.step = "list" /\ Update(w, [AfterListing(j) EXCEPT !.step = "next", !.frames = fs])
    BY <1>13, <2>1 DEF BeginDirectory, At
  <2>3. k.step = "next" /\ k.frames = fs
    BY <1>1, <1>a, <2>2 DEF AfterListing, WalkJob
  <2> QED
    BY <2>1, <2>2, <2>3
<1>14. ASSUME PublishRest(w) PROVE j.step = "next" /\ k.step = "publish" /\ k.frames = j.frames
  BY <1>14, <1>1, <1>a DEF PublishRest, At, WalkJob
<1>15. ASSUME PublishChunk(w)
       PROVE  /\ j.step = "publish" /\ k.step = "publish" /\ Head(j.frames).chunks # <<>>
              /\ k.frames = <<[Head(j.frames) EXCEPT !.chunks = Tail(@)]>> \o Tail(j.frames)
  <2>1. PICK g : g = <<[Head(j.frames) EXCEPT !.chunks = Tail(@)]>> \o Tail(j.frames)
    OBVIOUS
  <2>2. /\ j.step = "publish" /\ Head(j.frames).chunks # <<>>
        /\ Update(w, [j EXCEPT !.frames = g])
    BY <1>15, <2>1 DEF PublishChunk, At
  <2>3. k.step = "publish" /\ k.frames = g
    BY <1>1, <1>a, <2>2 DEF WalkJob
  <2> QED
    BY <2>1, <2>2, <2>3
<1>16. ASSUME EvalOk(w) \/ EvalQuits(w)
       PROVE  j.step = "eval" /\ k.step \in {"notify", "leave"} /\ SameNode(j, k)
  <2>1. CASE EvalOk(w)
    BY <1>1, <1>a, <2>1 DEF EvalOk, At, SameNode, WalkJob
  <2>2. CASE EvalQuits(w)
    <3>1. PICK s : s = IF j.resume THEN "notify" ELSE "leave"
      OBVIOUS
    <3>2. j.step = "eval" /\ Update(w, [j EXCEPT !.step = s])
      BY <2>2, <3>1 DEF EvalQuits, At
    <3> QED
      BY <1>1, <1>a, <3>1, <3>2 DEF SameNode, WalkJob
  <2> QED
    BY <1>16, <2>1, <2>2
<1>17. ASSUME LeaveAfterQuit(w) PROVE j.step = "leave" /\ k = NoJob
  BY <1>17, <1>a DEF LeaveAfterQuit, At
<1>18. ASSUME EvalFails(w) PROVE j.step = "eval" /\ k = NoJob
  BY <1>18, <1>a DEF EvalFails, At
<1>19. ASSUME NotifyEnds(w) \/ FinishUnit(w)
       PROVE  j.step = "notify" /\ k.step = "next" /\ k.frames = j.frames
  <2>1. j.step = "notify" /\ Update(w, Notified(j))
    BY <1>19 DEF NotifyEnds, FinishUnit, At
  <2> QED
    BY <1>1, <1>a, <2>1 DEF Notified, WalkJob
<1>20. ASSUME FinishLastUnit(w)
       PROVE  /\ j.step = "notify" /\ k.frames = j.frames /\ k.notify = barriers[j.notify].parent
              /\ IF barriers[j.notify].entry = NoNode THEN k.step = "notify"
                 ELSE k.step = "release" /\ k.at = barriers[j.notify].entry
  <2>1. PICK p, e : p = barriers[j.notify].parent /\ e = barriers[j.notify].entry
    OBVIOUS
  <2>2. j.step = "notify" /\ Update(w, IF e = NoNode THEN [j EXCEPT !.notify = p]
                                        ELSE [j EXCEPT !.step = "release", !.at = e, !.notify = p])
    BY <1>20, <2>1 DEF FinishLastUnit, At
  <2>3. CASE e = NoNode
    BY <1>1, <1>a, <2>1, <2>2, <2>3 DEF WalkJob
  <2>4. CASE e # NoNode
    BY ZenonT(90), <1>1, <1>a, <2>1, <2>2, <2>4 DEF WalkJob
  <2> QED
    BY <2>3, <2>4
<1>21. ASSUME ReleaseDirectory(w) PROVE j.step = "release" /\ k.step = "next" /\ k.frames = j.frames
  BY <1>21, <1>1, <1>a DEF ReleaseDirectory, Notified, At, WalkJob
<1> QED
  BY <1>2, <1>3, <1>4, <1>5, <1>6, <1>7, <1>8, <1>9, <1>10, <1>11, <1>12, <1>13, <1>14, <1>15,
     <1>16, <1>17, <1>18, <1>19, <1>20, <1>21 DEF BodyAfter

-----------------------------------------------------------------------------
(* While a directory is listed, each child is in one place                 *)

LEMMA RepeatedAppend ==
  ASSUME NEW R, NEW s \in Seq(R), NEW e \in R, NEW n, Repeated(Append(s, e), n)
  PROVE  Repeated(s, n) \/ (Listed(s, n) /\ e = n)
<1>1. PICK a, b : a = Mult(Append(s, e), n) /\ b = Mult(s, n)
  OBVIOUS
<1>2. /\ a \in {0, 1, 2} /\ b \in {0, 1, 2} /\ a > 1
      /\ b > 0 <=> Listed(s, n)
      /\ b > 1 <=> Repeated(s, n)
  BY <1>1, MultIs
<1>3. a <= b + One(e = n)
  BY <1>1, MultAppend
<1> QED
  BY <1>2, <1>3 DEF One

LEMMA RepeatedTail ==
  ASSUME NEW R, NEW s \in Seq(R), s # <<>>, NEW n, ~Repeated(s, n)
  PROVE  ~Repeated(Tail(s), n) /\ ~(Head(s) = n /\ Listed(Tail(s), n))
<1>1. PICK a, b : a = Mult(s, n) /\ b = Mult(Tail(s), n)
  OBVIOUS
<1>2. /\ a \in {0, 1, 2} /\ b \in {0, 1, 2} /\ a <= 1
      /\ b > 0 <=> Listed(Tail(s), n)
      /\ b > 1 <=> Repeated(Tail(s), n)
  BY <1>1, MultIs
<1>3. b + One(Head(s) = n) <= a
  BY <1>1, <1>2, MultTail
<1> QED
  BY <1>2, <1>3 DEF One

LEMMA ChunksRepeatAppend ==
  ASSUME NEW R, NEW s \in Seq(R), NEW e \in R, NEW n, ChunksRepeat(Append(s, e), n)
  PROVE  ChunksRepeat(s, n) \/ Repeated(e, n) \/ (ChunksHold(s, n) /\ Listed(e, n))
<1>1. PICK a, b, c : a = ChunkMult(Append(s, e), n) /\ b = ChunkMult(s, n) /\ c = Mult(e, n)
  OBVIOUS
<1>2. /\ a \in {0, 1, 2} /\ b \in {0, 1, 2} /\ c \in {0, 1, 2} /\ a > 1
      /\ b > 0 <=> ChunksHold(s, n)
      /\ b > 1 <=> ChunksRepeat(s, n)
      /\ c > 0 <=> Listed(e, n)
      /\ c > 1 <=> Repeated(e, n)
  BY <1>1, MultIs, ChunkMultIs
<1>3. a <= b + c
  BY <1>1, ChunkMultAppend
<1> QED
  BY <1>2, <1>3

(* The pieces of a listing: what is still to come, the local batch, the      *)
(* chunk being filled, the full chunks.                                      *)
InPieces(j, n) ==
  Listed(j.items, n) \/ Listed(j.local, n) \/ Listed(j.buffer, n) \/ ChunksHold(j.spilled, n)
InOnePiece(j, n) ==
  /\ ~Repeated(j.items, n) /\ ~Repeated(j.local, n) /\ ~Repeated(j.buffer, n)
  /\ ~ChunksRepeat(j.spilled, n)
  /\ Listed(j.items, n) => ~Listed(j.local, n) /\ ~Listed(j.buffer, n) /\ ~ChunksHold(j.spilled, n)
  /\ Listed(j.local, n) => ~Listed(j.buffer, n) /\ ~ChunksHold(j.spilled, n)
  /\ Listed(j.buffer, n) => ~ChunksHold(j.spilled, n)

NothingSplit(j) == j.local = <<>> /\ j.buffer = <<>> /\ j.spilled = <<>>

(* What is known of a job that lists a directory; E are the errors.          *)
Listing(j, E) ==
  /\ j.step # "list" => NothingSplit(j)
  /\ j.step = "open" => j.items = Items[j.at]
  /\ j.step = "list" =>
       /\ \A n \in Node : InOnePiece(j, n) /\ (InPieces(j, n) <=> n \in Children(j.at))
       /\ Listed(Items[j.at], BadItem) => Listed(j.items, BadItem) \/ j.at \in E

ListingsKnown == \A w \in Worker : Listing(job[w], errors)

LEMMA ListingStarts ==
  ASSUME NEW j, NothingSplit(j), j.at \in Node, j.items = Items[j.at], NEW n \in Node
  PROVE  InOnePiece(j, n) /\ (InPieces(j, n) <=> n \in Children(j.at))
<1>1. \A e : ~Listed(<<>>, e) /\ ~ChunksHold(<<>>, e) /\ ~Repeated(<<>>, e) /\ ~ChunksRepeat(<<>>, e)
  BY NothingListed DEF Repeated, ChunksRepeat
<1>2. Listed(Items[j.at], n) <=> n \in Children(j.at)
  BY WalkTreeAssumption DEF Children, RangeOf, Listed
<1>3. ~Repeated(Items[j.at], n)
  <2>1. /\ n # BadItem
        /\ \A i, k \in 1..Len(Items[j.at]) :
             Items[j.at][i] = Items[j.at][k] => i = k \/ Items[j.at][i] = BadItem
    BY WalkTreeAssumption
  <2> QED
    BY <2>1 DEF Repeated
<1> QED
  BY <1>1, <1>2, <1>3 DEF InOnePiece, InPieces, NothingSplit

LEMMA BadItemTaken ==
  ASSUME NEW j \in WalkJob, j.items # <<>>, Head(j.items) = BadItem, NEW k,
         k = [j EXCEPT !.items = Tail(@)], NEW n \in Node, InOnePiece(j, n)
  PROVE  InOnePiece(k, n) /\ (InPieces(k, n) <=> InPieces(j, n))
<1>1. j.items \in Seq(Node \cup {BadItem}) /\ n # BadItem
  BY WalkTreeAssumption DEF WalkJob
<1>2. /\ Listed(j.items, n) <=> Listed(Tail(j.items), n)
      /\ ~Repeated(Tail(j.items), n)
  BY <1>1, ListedTail, RepeatedTail DEF InOnePiece
<1>3. k.items = Tail(j.items) /\ k.local = j.local /\ k.buffer = j.buffer /\ k.spilled = j.spilled
  BY DEF WalkJob
<1> QED
  BY <1>2, <1>3 DEF InOnePiece, InPieces

LEMMA ChildTaken ==
  ASSUME NEW j \in WalkJob, j.items # <<>>, NEW c \in Walked, Head(j.items) = c, NEW maySplit, NEW k,
         k = Accumulate([j EXCEPT !.items = Tail(@)], c, maySplit), NEW n \in Node, InOnePiece(j, n)
  PROVE  InOnePiece(k, n) /\ (InPieces(k, n) <=> InPieces(j, n)) /\ k.items = Tail(j.items)
<1>1. /\ j.items \in Seq(Node \cup {BadItem}) /\ j.local \in Seq(Walked) /\ j.buffer \in Seq(Walked)
      /\ j.spilled \in Seq(Chunk)
  BY DEF WalkJob
<1>2. /\ Listed(j.items, n) <=> n = c \/ Listed(Tail(j.items), n)
      /\ ~Repeated(Tail(j.items), n)
      /\ ~(c = n /\ Listed(Tail(j.items), n))
  BY <1>1, ListedTail, RepeatedTail DEF InOnePiece
<1> DEFINE full == Append(j.buffer, c)
<1>3. full \in Chunk
  BY <1>1, AppendProperties DEF Chunk
<1>4. PICK z : z = [j EXCEPT !.items = Tail(@)]
  OBVIOUS
<1>5. z.items = Tail(j.items) /\ z.local = j.local /\ z.buffer = j.buffer /\ z.spilled = j.spilled
      /\ z \in WalkJob
  <2>1. Tail(j.items) \in Seq(Node \cup {BadItem})
    BY <1>1, HeadAndTail
  <2> QED
    BY <1>4, <2>1 DEF WalkJob
<1>6. /\ Listed(Append(j.local, c), n) <=> Listed(j.local, n) \/ n = c
      /\ Listed(full, n) <=> Listed(j.buffer, n) \/ n = c
      /\ ChunksHold(Append(j.spilled, full), n) <=> ChunksHold(j.spilled, n) \/ Listed(full, n)
  BY <1>1, <1>3, ListedAppend, ChunksAppend
<1>7. /\ Repeated(Append(j.local, c), n) => Repeated(j.local, n) \/ (Listed(j.local, n) /\ c = n)
      /\ Repeated(full, n) => Repeated(j.buffer, n) \/ (Listed(j.buffer, n) /\ c = n)
  BY <1>1, RepeatedAppend
<1>8. ChunksRepeat(Append(j.spilled, full), n) =>
        ChunksRepeat(j.spilled, n) \/ Repeated(full, n) \/ (ChunksHold(j.spilled, n) /\ Listed(full, n))
  BY <1>1, <1>3, ChunksRepeatAppend
<1>9. ~Listed(<<>>, n) /\ ~Repeated(<<>>, n)
  BY NothingListed DEF Repeated
<1> HIDE DEF full
<1>10. CASE ~maySplit \/ Len(z.local) < SplitThreshold
  <2>1. k = [z EXCEPT !.local = Append(j.local, c)]
    BY <1>4, <1>5, <1>10 DEF Accumulate
  <2>2. k.items = z.items /\ k.local = Append(j.local, c) /\ k.buffer = j.buffer /\ k.spilled = j.spilled
    BY <1>5, <2>1 DEF WalkJob
  <2> QED
    BY <1>2, <1>5, <1>6, <1>7, <2>2 DEF InOnePiece, InPieces
<1>11. CASE ~(~maySplit \/ Len(z.local) < SplitThreshold) /\ Len(full) >= ChunkSize
  <2>1. k = [z EXCEPT !.buffer = <<>>, !.spilled = Append(j.spilled, full)]
    BY <1>4, <1>5, <1>11 DEF Accumulate, full
  <2>2. k.items = z.items /\ k.local = j.local /\ k.buffer = <<>> /\ k.spilled = Append(j.spilled, full)
    BY <1>5, <2>1 DEF WalkJob
  <2> QED
    BY <1>2, <1>5, <1>6, <1>7, <1>8, <1>9, <2>2 DEF InOnePiece, InPieces
<1>12. CASE ~(~maySplit \/ Len(z.local) < SplitThreshold) /\ ~(Len(full) >= ChunkSize)
  <2>1. k = [z EXCEPT !.buffer = full]
    BY <1>4, <1>5, <1>12 DEF Accumulate, full
  <2>2. k.items = z.items /\ k.local = j.local /\ k.buffer = full /\ k.spilled = j.spilled
    BY <1>5, <2>1 DEF WalkJob
  <2> QED
    BY <1>2, <1>5, <1>6, <1>7, <2>2 DEF InOnePiece, InPieces
<1> QED
  BY <1>10, <1>11, <1>12

LEMMA ListsAfter ==
  ASSUME NEW w \in Worker, TaskStep(w), EngineInv, BodiesKnown
  PROVE  \/ OpenDirectory(w) \/ ListBadItem(w) \/ ListChild(w)
         \/ /\ job'[w].step # "list"
            /\ Listing(job[w], errors) => NothingSplit(job'[w])
<1> DEFINE j == job[w]
           k == job'[w]
<1>1. job \in [Worker -> WalkJob] /\ j \in WalkJob
  BY DEF EngineInv, JobsFit
<1>a. \A z : Update(w, z) => k = z
  BY <1>1 DEF Update
<1>b. BodyAfter(w, j, k)
  BY BodyChanges
<1>c. NothingSplit(NoJob) /\ NoJob.step = "idle"
  BY DEF NothingSplit, NoJob
<1>d. \A n : CompleteStep(n) \in {"eval", "notify"}
  BY DEF CompleteStep
<1>e. j.step # "list" /\ Listing(j, errors) => NothingSplit(j)
  BY DEF Listing
<1>2. ASSUME StartChunk(w) \/ StartResume(w) PROVE k.step # "list" /\ NothingSplit(k)
  <2>1. CASE StartChunk(w)
    BY <1>a, <2>1 DEF StartChunk, NothingSplit, NoJob
  <2>2. CASE StartResume(w)
    <3>1. k.step \in {"eval", "notify"}
      BY <1>b, <1>d, <2>2 DEF BodyAfter
    <3>2. PICK s, n, b : k = [NoJob EXCEPT !.step = s, !.at = n, !.notify = b, !.resume = TRUE]
      BY <1>a, <2>2 DEF StartResume
    <3> QED
      BY <3>1, <3>2 DEF NothingSplit, NoJob
  <2> QED
    BY <1>2, <2>1, <2>2
<1>3. ASSUME EndTask(w) \/ LeaveAfterQuit(w) \/ EvalFails(w) PROVE k.step # "list" /\ NothingSplit(k)
  BY <1>3, <1>b, <1>c DEF BodyAfter
<1>4. ASSUME AbandonListing(w) \/ BeginDirectory(w) PROVE k.step # "list" /\ NothingSplit(k)
  <2>1. k.step = "next"
    BY <1>4, <1>b DEF BodyAfter
  <2>2. \E fs, q : k = [AfterListing(j) EXCEPT !.step = "next", !.frames = fs, !.sawQuit = q]
    <3>1. CASE AbandonListing(w)
      <4>1. k = [AfterListing(j) EXCEPT !.step = "next", !.sawQuit = @ \/ quit]
        BY <1>a, <3>1 DEF AbandonListing
      <4>2. k = [AfterListing(j) EXCEPT !.step = "next", !.frames = j.frames, !.sawQuit = @ \/ quit]
        BY <1>1, <4>1 DEF AfterListing, WalkJob
      <4> QED
        BY <4>2
    <3>2. CASE BeginDirectory(w)
      <4>1. \E fs : k = [AfterListing(j) EXCEPT !.step = "next", !.frames = fs]
        BY <1>a, <3>2 DEF BeginDirectory
      <4>2. PICK fs : k = [AfterListing(j) EXCEPT !.step = "next", !.frames = fs]
        BY <4>1
      <4>3. k = [AfterListing(j) EXCEPT !.step = "next", !.frames = fs, !.sawQuit = j.sawQuit]
        BY <1>1, <4>2 DEF AfterListing, WalkJob
      <4> QED
        BY <4>3
    <3> QED
      BY <1>4, <3>1, <3>2
  <2> QED
    BY ZenonT(120), <1>1, <2>1, <2>2 DEF AfterListing, NothingSplit, WalkJob
<1>5. ASSUME EndBatch(w) \/ LeaveDirectory(w) \/ PublishDone(w) \/ PublishRest(w) \/ PublishChunk(w)
      PROVE  k.step # "list" /\ (Listing(j, errors) => NothingSplit(k))
  <2>1. /\ j.step # "list" /\ k.step # "list"
    BY <1>5, <1>b DEF BodyAfter, PublishChunk, At
  <2>2. k.local = j.local /\ k.buffer = j.buffer /\ k.spilled = j.spilled
    <3>1. CASE EndBatch(w)
      BY <1>1, <1>a, <3>1 DEF EndBatch, WalkJob
    <3>2. CASE LeaveDirectory(w)
      BY <1>1, <1>a, <3>2 DEF LeaveDirectory, WalkJob
    <3>3. CASE PublishDone(w)
      BY <1>1, <1>a, <3>3 DEF PublishDone, WalkJob
    <3>4. CASE PublishRest(w)
      BY <1>1, <1>a, <3>4 DEF PublishRest, WalkJob
    <3>5. CASE PublishChunk(w)
      <4>1. PICK fs : k = [j EXCEPT !.frames = fs]
        BY <1>a, <3>5 DEF PublishChunk
      <4> QED
        BY <1>1, <4>1 DEF WalkJob
    <3> QED
      BY <1>5, <3>1, <3>2, <3>3, <3>4, <3>5
  <2> QED
    BY <1>e, <2>1, <2>2 DEF NothingSplit
<1>6. ASSUME VisitNext(w) PROVE k.step # "list" /\ (Listing(j, errors) => NothingSplit(k))
  <2>1. /\ j.step = "next" /\ k.local = j.local /\ k.buffer = j.buffer /\ k.spilled = j.spilled
        /\ k.step \in {"notify", "eval", "open"}
    BY <1>6, <1>b, <1>d, VisitIs DEF BodyAfter
  <2> QED
    BY <1>e, <2>1 DEF NothingSplit
<1>7. ASSUME OpenFails(w) \/ EvalOk(w) \/ EvalQuits(w) \/ NotifyEnds(w) \/ FinishUnit(w)
             \/ ReleaseDirectory(w)
      PROVE  k.step # "list" /\ (Listing(j, errors) => NothingSplit(k))
  <2>1. j.step # "list" /\ k.step # "list"
    BY <1>7, <1>b, <1>d DEF BodyAfter
  <2>2. k.local = j.local /\ k.buffer = j.buffer /\ k.spilled = j.spilled
    <3>1. CASE OpenFails(w)
      <4>1. PICK s : s = CompleteStep(j.at)
        OBVIOUS
      <4>2. k = [j EXCEPT !.step = s, !.items = <<>>]
        BY <1>a, <3>1, <4>1 DEF OpenFails
      <4> QED
        BY <1>1, <4>2 DEF WalkJob
    <3>2. CASE EvalOk(w)
      BY <1>1, <1>a, <3>2 DEF EvalOk, WalkJob
    <3>3. CASE EvalQuits(w)
      <4>1. PICK s : k = [j EXCEPT !.step = s]
        BY <1>a, <3>3 DEF EvalQuits
      <4> QED
        BY <1>1, <4>1 DEF WalkJob
    <3>4. CASE NotifyEnds(w) \/ FinishUnit(w) \/ ReleaseDirectory(w)
      <4>1. k = Notified(j)
        BY <1>a, <3>4 DEF NotifyEnds, FinishUnit, ReleaseDirectory
      <4> QED
        BY <1>1, <4>1 DEF WalkJob, Notified
    <3> QED
      BY <1>7, <3>1, <3>2, <3>3, <3>4
  <2> QED
    BY <1>e, <2>1, <2>2 DEF NothingSplit
<1>8. ASSUME ListedEmpty(w) PROVE k.step # "list" /\ NothingSplit(k)
  <2>1. j.local = <<>> /\ FinishChunks(j) = <<>>
    BY <1>8 DEF ListedEmpty
  <2>2. j.buffer = <<>> /\ j.spilled = <<>>
    <3>1. j.spilled \in Seq(Chunk) /\ j.buffer \in Seq(Walked)
      BY <1>1 DEF WalkJob
    <3>2. j.buffer # <<>> => Append(j.spilled, j.buffer) # <<>>
      BY <3>1, AppendProperties DEF Chunk
    <3> QED
      BY <2>1, <3>2 DEF FinishChunks
  <2>3. PICK s : s = CompleteStep(j.at)
    OBVIOUS
  <2>4. k = [j EXCEPT !.step = s]
    BY <1>8, <1>a, <2>3 DEF ListedEmpty
  <2> QED
    BY <1>1, <1>d, <2>1, <2>2, <2>3, <2>4 DEF WalkJob, NothingSplit
<1>9. ASSUME FinishLastUnit(w) PROVE k.step # "list" /\ (Listing(j, errors) => NothingSplit(k))
  <2>1. PICK p, e : p = barriers[j.notify].parent /\ e = barriers[j.notify].entry
    OBVIOUS
  <2>2. j.step = "notify" /\ Update(w, IF e = NoNode THEN [j EXCEPT !.notify = p]
                                        ELSE [j EXCEPT !.step = "release", !.at = e, !.notify = p])
    BY <1>9, <2>1 DEF FinishLastUnit, At
  <2>3. k.local = j.local /\ k.buffer = j.buffer /\ k.spilled = j.spilled /\ k.step # "list"
    <3>1. CASE e = NoNode
      BY <1>1, <1>a, <2>2, <3>1 DEF WalkJob
    <3>2. CASE e # NoNode
      BY ZenonT(90), <1>1, <1>a, <2>2, <3>2 DEF WalkJob
    <3> QED
      BY <3>1, <3>2
  <2> QED
    BY <1>e, <2>2, <2>3 DEF NothingSplit
<1> QED
  BY <1>2, <1>3, <1>4, <1>5, <1>6, <1>7, <1>8, <1>9 DEF TaskStep

LEMMA ListingsInit == Init => ListingsKnown
  BY DEF Init, ListingsKnown, Listing, NothingSplit, NoJob

LEMMA ListingsGrow ==
  ASSUME NEW j, NEW E, NEW F, Listing(j, E), E \subseteq F
  PROVE  Listing(j, F)
  BY ZenonT(120) DEF Listing

(* Reported errors stay, and reports are about the node a body is at. *)
LEMMA ErrorsGrow ==
  ASSUME NEW w \in Worker, TaskStep(w)
  PROVE  /\ errors \subseteq errors'
         /\ ListBadItem(w) \/ OpenFails(w) => errors' = errors \cup {job[w].at}
         /\ VisitNext(w) => LET n == Head(Head(job[w].frames).nodes) IN
              errors' = IF Visit(n) = "error" THEN errors \cup {n} ELSE errors
         /\ ~ListBadItem(w) /\ ~OpenFails(w) /\ ~VisitNext(w) => errors' = errors
  BY ZenonT(120) DEF TaskStep, StartChunk, StartResume, EndTask, EndBatch, VisitNext, OpenDirectory, OpenFails,
         ListBadItem, ListChild, AbandonListing, ListedEmpty, BeginDirectory, LeaveDirectory, PublishRest,
         PublishChunk, PublishDone, EvalOk, EvalQuits, LeaveAfterQuit, EvalFails, NotifyEnds, FinishUnit,
         FinishLastUnit, ReleaseDirectory, At, treeVars

LEMMA OwnListingKept ==
  ASSUME NEW w \in Worker, TaskStep(w), EngineInv, BodiesKnown, ListingsKnown
  PROVE  Listing(job'[w], errors')
<1> DEFINE j == job[w]
           k == job'[w]
<1>1. job \in [Worker -> WalkJob] /\ j \in WalkJob
  BY DEF EngineInv, JobsFit
<1>a. \A z : Update(w, z) => k = z
  BY <1>1 DEF Update
<1>b. BodyAfter(w, j, k)
  BY BodyChanges
<1>c. Listing(j, errors) /\ errors \subseteq errors'
  BY ErrorsGrow DEF ListingsKnown
<1>d. j.step \in {"open", "list"} => j.at \in Node
  BY DEF EngineInv, JobsFit, AtNode, Walked
<1>2. CASE OpenDirectory(w)
  <2>1. j.step = "open" /\ k = [j EXCEPT !.step = "list"]
    BY <1>2, <1>a DEF OpenDirectory, At
  <2>2. /\ k.step = "list" /\ k.at = j.at /\ k.items = j.items /\ k.local = j.local
        /\ k.buffer = j.buffer /\ k.spilled = j.spilled
    BY <1>1, <2>1 DEF WalkJob
  <2>3. k.at \in Node /\ k.items = Items[k.at] /\ NothingSplit(k)
    BY <1>c, <1>d, <2>1, <2>2 DEF Listing, NothingSplit
  <2>4. \A n \in Node : InOnePiece(k, n) /\ (InPieces(k, n) <=> n \in Children(k.at))
    BY <2>3, ListingStarts
  <2> QED
    BY <2>2, <2>3, <2>4 DEF Listing
<1>3. CASE ListBadItem(w)
  <2>1. j.step = "list" /\ j.items # <<>> /\ Head(j.items) = BadItem /\ k = [j EXCEPT !.items = Tail(@)]
    BY <1>3, <1>a DEF ListBadItem, At
  <2>2. k.step = "list" /\ k.at = j.at
    BY <1>1, <2>1 DEF WalkJob
  <2>3. \A n \in Node : InOnePiece(j, n) /\ (InPieces(j, n) <=> n \in Children(j.at))
    BY <1>c, <2>1 DEF Listing
  <2>4. \A n \in Node : InOnePiece(k, n) /\ (InPieces(k, n) <=> n \in Children(k.at))
    BY <1>1, <2>1, <2>2, <2>3, BadItemTaken
  <2>5. k.at \in errors'
    BY <1>3, <2>2, ErrorsGrow
  <2> QED
    BY <2>2, <2>4, <2>5 DEF Listing
<1>4. CASE ListChild(w)
  <2>1. PICK c : c = Head(j.items)
    OBVIOUS
  <2>2. j.step = "list" /\ j.items # <<>> /\ c # BadItem
        /\ k = Accumulate([j EXCEPT !.items = Tail(@)], c, accept)
    BY <1>4, <1>a, <2>1 DEF ListChild, At
  <2>3. c \in Walked
    <3>1. j.items \in Seq(Walked \cup {BadItem})
      BY <2>2 DEF EngineInv, JobsFit, AtNode
    <3> QED
      BY <2>1, <2>2, <3>1, HeadAndTail
  <2>4. k.step = "list" /\ k.at = j.at
    BY <1>4, <1>b DEF BodyAfter, SameNode
  <2>5. \A n \in Node : InOnePiece(j, n) /\ (InPieces(j, n) <=> n \in Children(j.at))
    BY <1>c, <2>2 DEF Listing
  <2>6. \A n \in Node : /\ InOnePiece(k, n) /\ (InPieces(k, n) <=> n \in Children(k.at))
                        /\ k.items = Tail(j.items)
    BY SMTT(120), <1>1, <2>1, <2>2, <2>3, <2>4, <2>5, ChildTaken
  <2>7. k.items = Tail(j.items)
    BY <2>3, <2>6 DEF Walked
  <2>8. Listed(j.items, BadItem) => Listed(k.items, BadItem)
    <3>1. j.items \in Seq(Node \cup {BadItem})
      BY <1>1 DEF WalkJob
    <3> QED
      BY <2>1, <2>2, <2>7, <3>1, ListedTail
  <2> QED
    BY <1>c, <2>2, <2>4, <2>6, <2>8 DEF Listing
<1>5. CASE ~OpenDirectory(w) /\ ~ListBadItem(w) /\ ~ListChild(w)
  <2>1. k.step # "list" /\ NothingSplit(k)
    BY <1>5, <1>c, ListsAfter
  <2>2. k.step = "open" => k.items = Items[k.at]
    <3>1. k.step = "open" => VisitNext(w)
      BY <1>b, <1>5 DEF BodyAfter, TaskStep, CompleteStep, NoJob
    <3> QED
      BY <1>b, <3>1 DEF BodyAfter
  <2> QED
    BY <2>1, <2>2 DEF Listing
<1> QED
  BY <1>2, <1>3, <1>4, <1>5

LEMMA ListingsStep == EngineInv /\ BodiesKnown /\ ListingsKnown /\ [Next]_vars => ListingsKnown'
<1> SUFFICES ASSUME EngineInv, BodiesKnown, ListingsKnown, [Next]_vars PROVE ListingsKnown'
  OBVIOUS
<1>1. ASSUME NEW w \in Worker, TaskStep(w) PROVE ListingsKnown'
  <2>1. Listing(job'[w], errors')
    BY <1>1, OwnListingKept
  <2>2. \A u \in Worker \ {w} : job'[u] = job[u]
    BY <1>1, OnlyOwnJob DEF EngineInv
  <2>3. errors \subseteq errors'
    BY <1>1, ErrorsGrow
  <2>4. \A u \in Worker : Listing(job[u], errors')
    BY <2>3, ListingsGrow DEF ListingsKnown
  <2>5. \A u \in Worker : Listing(job'[u], errors')
    BY <2>1, <2>2, <2>4
  <2> QED
    BY <2>5 DEF ListingsKnown, Worker, S!Worker
<1>2. ASSUME UNCHANGED <<job, errors>> PROVE ListingsKnown'
  BY <1>2 DEF ListingsKnown, Worker, S!Worker
<1> QED
  BY <1>1, <1>2 DEF Next, vars, LoopStep, treeVars

LEMMA ChunkPlaces ==
  ASSUME NEW cs \in Seq(Chunk), NEW n
  PROVE  ChunksHold(cs, n) <=> \E c, k, l : AtEnd(cs, c, k) /\ AtEnd(c, n, l)
<1>1. \A c \in Chunk : c \in Seq(Walked)
  BY DEF Chunk
<1>2. Len(cs) \in Nat /\ \A i \in 1..Len(cs) : cs[i] \in Chunk
  BY LenProperties, ElementOfSeq
<1>3. ASSUME NEW i \in 1..Len(cs), Listed(cs[i], n)
      PROVE  \E c, k, l : AtEnd(cs, c, k) /\ AtEnd(c, n, l)
  <2>1. Listed(cs, cs[i])
    BY DEF Listed
  <2>2. PICK k : AtEnd(cs, cs[i], k)
    BY <2>1, EndListed
  <2>3. PICK l : AtEnd(cs[i], n, l)
    BY <1>1, <1>2, <1>3, EndListed
  <2> QED
    BY <2>2, <2>3
<1>4. ASSUME NEW c, NEW k, NEW l, AtEnd(cs, c, k), AtEnd(c, n, l)
      PROVE  ChunksHold(cs, n)
  <2>1. Listed(cs, c) /\ c \in Seq(Walked)
    BY <1>1, <1>4, EndListed, EndIs
  <2>2. Listed(c, n)
    BY <1>4, <2>1, EndListed
  <2> QED
    BY <2>1, <2>2 DEF Listed, ChunksHold
<1> QED
  BY <1>3, <1>4 DEF ChunksHold

LEMMA OneChunkPlace ==
  ASSUME NEW cs \in Seq(Chunk), NEW n, ~ChunksRepeat(cs, n),
         NEW c, NEW k, NEW l, AtEnd(cs, c, k), AtEnd(c, n, l),
         NEW d, NEW k2, NEW l2, AtEnd(cs, d, k2), AtEnd(d, n, l2)
  PROVE  k = k2 /\ l = l2
<1>1. c \in Seq(Walked) /\ d \in Seq(Walked) /\ Len(cs) \in Nat
  BY EndIs, LenProperties DEF Chunk
<1>2. PICK a, b : a = Len(cs) + 1 - k /\ b = Len(cs) + 1 - k2
  OBVIOUS
<1>3. a \in 1..Len(cs) /\ b \in 1..Len(cs) /\ cs[a] = c /\ cs[b] = d /\ (a = b => k = k2)
  BY <1>1, <1>2 DEF AtEnd
<1>4. Listed(c, n) /\ Listed(d, n)
  BY <1>1, EndListed
<1>5. k = k2
  BY <1>3, <1>4 DEF ChunksRepeat
<1>6. c = d
  BY <1>5 DEF AtEnd
<1>7. ~Repeated(c, n)
  BY <1>3 DEF ChunksRepeat
<1>8. l = l2
  BY <1>1, <1>6, <1>7, EndRepeated
<1> QED
  BY <1>5, <1>8

(* The children in the chunks and in the local batch when a listing ends.    *)
LEMMA SplitWell ==
  ASSUME NEW j \in WalkJob, NEW n, InOnePiece(j, n)
  PROVE  /\ FinishChunks(j) \in Seq(Chunk)
         /\ ~ChunksRepeat(FinishChunks(j), n)
         /\ ChunksHold(FinishChunks(j), n) <=> Listed(j.buffer, n) \/ ChunksHold(j.spilled, n)
<1>1. j.buffer \in Seq(Walked) /\ j.spilled \in Seq(Chunk)
  BY DEF WalkJob
<1>2. CASE j.buffer = <<>>
  <2>1. FinishChunks(j) = j.spilled /\ ~Listed(j.buffer, n)
    BY <1>2, NothingListed DEF FinishChunks
  <2> QED
    BY <1>1, <2>1 DEF InOnePiece
<1>3. CASE j.buffer # <<>>
  <2>1. FinishChunks(j) = Append(j.spilled, j.buffer) /\ j.buffer \in Chunk
    BY <1>1, <1>3 DEF FinishChunks, Chunk
  <2>2. ChunksHold(Append(j.spilled, j.buffer), n) <=> ChunksHold(j.spilled, n) \/ Listed(j.buffer, n)
    BY <1>1, <2>1, ChunksAppend
  <2>3. ~ChunksRepeat(Append(j.spilled, j.buffer), n)
    BY <1>1, <2>1, ChunksRepeatAppend DEF InOnePiece
  <2>4. Append(j.spilled, j.buffer) \in Seq(Chunk)
    BY <1>1, <2>1, AppendProperties
  <2> QED
    BY <2>1, <2>2, <2>3, <2>4
<1> QED
  BY <1>2, <1>3

(* Place <<h, k, l>>, of barrier t, of the calls that a listing begins.      *)
Begun(j, id, n, t, h, k, l) ==
  \/ h = Len(j.frames) + 1 /\ t = id /\ \E c : AtEnd(FinishChunks(j), c, k) /\ AtEnd(c, n, l)
  \/ /\ h = Len(j.frames) + 2 /\ l = 0 /\ AtEnd(j.local, n, k)
     /\ t = IF Len(j.local) > 1 THEN id + 1 ELSE id

LEMMA BegunIs ==
  ASSUME NEW w \in Worker, BeginDirectory(w), EngineInv, BodiesKnown,
         NEW n, NEW t, NEW h, NEW k, NEW l
  PROVE  /\ InCalls(job'[w].frames, n, t, h, k, l)
              <=> InCalls(job[w].frames, n, t, h, k, l) \/ Begun(job[w], nextBarrier, n, t, h, k, l)
         /\ Begun(job[w], nextBarrier, n, t, h, k, l) => ~InCalls(job[w].frames, n, t, h, k, l)
<1> DEFINE j == job[w]
           id == nextBarrier
<1>1. j \in WalkJob /\ id \in Nat \ {0} /\ j.frames \in Seq(WalkFrame) /\ j.local \in Seq(Walked)
  BY DEF EngineInv, JobsFit, TableFits, WalkJob
<1>2. FinishChunks(j) \in Seq(Chunk) /\ Len(j.frames) \in Nat
  BY <1>1, FinishedChunks, LenProperties
<1>3. PICK f : f = DirFrame(id, FinishChunks(j))
  OBVIOUS
<1>4. f \in WalkFrame /\ f.nodes = <<>> /\ f.chunks = FinishChunks(j) /\ f.barrier = id
  BY <1>1, <1>2, <1>3 DEF DirFrame, WalkFrame, Barrier
<1>5. PICK g : g = BatchFor(j.local, id, id + 1)
  OBVIOUS
<1>6. /\ g \in WalkFrame /\ g.nodes = j.local /\ g.chunks = <<>>
      /\ g.barrier = (IF Len(j.local) > 1 THEN id + 1 ELSE id)
  <2>1. id \in Barrier /\ id + 1 \in Barrier /\ id # NoBarrier
    BY <1>1 DEF Barrier, NoBarrier
  <2> QED
    BY <1>1, <1>5, <2>1, BatchFits DEF BatchFor, BatchFrame, NeedsBatch
<1>7. PICK dir : dir = <<f>> \o j.frames
  OBVIOUS
<1>8. dir \in Seq(WalkFrame) /\ Len(dir) = Len(j.frames) + 1
  <2>1. <<f>> \in Seq(WalkFrame) /\ Len(<<f>>) = 1
    BY <1>4
  <2>2. Len(<<f>> \o j.frames) = 1 + Len(j.frames)
    BY ZenonT(120), <1>1, <2>1, ConcatProperties
  <2> QED
    BY <1>1, <1>2, <1>4, <1>7, <2>2, CallAdded
<1>9. job'[w].frames = IF j.local = <<>> THEN dir ELSE <<g>> \o dir
  BY <1>3, <1>5, <1>7, BodyChanges DEF BodyAfter
<1>10. InFrame(f, n, k, l) <=> \E c : AtEnd(FinishChunks(j), c, k) /\ AtEnd(c, n, l)
  BY <1>4, NothingAtEnd DEF InFrame
<1>11. InFrame(g, n, k, l) <=> l = 0 /\ AtEnd(j.local, n, k)
  BY <1>6, NothingAtEnd DEF InFrame
<1>12. InCalls(dir, n, t, h, k, l)
         <=> InCalls(j.frames, n, t, h, k, l)
             \/ (h = Len(j.frames) + 1 /\ f.barrier = t /\ InFrame(f, n, k, l))
  BY <1>1, <1>4, <1>7, CallsPushed
<1>13. InCalls(<<g>> \o dir, n, t, h, k, l)
         <=> InCalls(dir, n, t, h, k, l) \/ (h = Len(dir) + 1 /\ g.barrier = t /\ InFrame(g, n, k, l))
  BY <1>6, <1>8, CallsPushed
<1>14. h = Len(dir) + 1 <=> h = Len(j.frames) + 2
  BY <1>2, <1>8
<1>15. InCalls(job'[w].frames, n, t, h, k, l)
         <=> InCalls(j.frames, n, t, h, k, l) \/ Begun(j, id, n, t, h, k, l)
  <2>1. CASE j.local = <<>>
    BY <1>4, <1>9, <1>10, <1>12, <2>1, NothingAtEnd DEF Begun
  <2>2. CASE j.local # <<>>
    BY <1>4, <1>6, <1>9, <1>10, <1>11, <1>12, <1>13, <1>14, <2>2 DEF Begun
  <2> QED
    BY <2>1, <2>2
<1>16. ASSUME Begun(j, id, n, t, h, k, l), InCalls(j.frames, n, t, h, k, l) PROVE FALSE
  <2>1. h \in 1..Len(j.frames)
    BY <1>1, <1>16, CallIs
  <2>2. h = Len(j.frames) + 1 \/ h = Len(j.frames) + 2
    BY <1>16 DEF Begun
  <2> QED
    BY <1>2, <2>1, <2>2
<1> QED
  BY <1>15, <1>16

(* The calls a listing begins hold each child once, and nothing else. *)
LEMMA BegunHolds ==
  ASSUME NEW w \in Worker, BeginDirectory(w), EngineInv, ListingsKnown, NEW n
  PROVE  /\ n \in Children(job[w].at) => \E t, h, k, l : Begun(job[w], nextBarrier, n, t, h, k, l)
         /\ \A t, h, k, l : Begun(job[w], nextBarrier, n, t, h, k, l) => n \in Children(job[w].at)
         /\ \A t, h, k, l, t2, h2, k2, l2 :
              /\ Begun(job[w], nextBarrier, n, t, h, k, l)
              /\ Begun(job[w], nextBarrier, n, t2, h2, k2, l2)
              => h = h2 /\ k = k2 /\ l = l2
<1> DEFINE j == job[w]
           id == nextBarrier
           cs == FinishChunks(j)
<1>1. j \in WalkJob /\ j.local \in Seq(Walked) /\ j.step = "list" /\ j.items = <<>> /\ j.at \in Node
  BY DEF EngineInv, JobsFit, WalkJob, BeginDirectory, At, AtNode, Walked
<1>2. cs \in Seq(Chunk)
  BY <1>1, FinishedChunks
<1>3. \A m \in Node : InOnePiece(j, m) /\ (InPieces(j, m) <=> m \in Children(j.at))
  BY <1>1 DEF ListingsKnown, Listing
<1>4. Children(j.at) \subseteq Node
  BY <1>1, ChildrenAreNodes
<1>5. \A t, h, k, l : Begun(j, id, n, t, h, k, l) => n \in Node
  <2> SUFFICES ASSUME NEW t, NEW h, NEW k, NEW l, Begun(j, id, n, t, h, k, l) PROVE n \in Walked
    BY DEF Walked
  <2>1. ASSUME NEW c, AtEnd(cs, c, k), AtEnd(c, n, l) PROVE n \in Walked
    <3>1. c \in Seq(Walked)
      BY <1>2, <2>1, EndIs DEF Chunk
    <3> QED
      BY <2>1, <3>1, EndIs
  <2>2. AtEnd(j.local, n, k) => n \in Walked
    BY <1>1, EndIs
  <2> QED
    BY <2>1, <2>2 DEF Begun
<1> SUFFICES ASSUME n \in Node
             PROVE  /\ n \in Children(j.at) => \E t, h, k, l : Begun(j, id, n, t, h, k, l)
                    /\ \A t, h, k, l : Begun(j, id, n, t, h, k, l) => n \in Children(j.at)
                    /\ \A t, h, k, l, t2, h2, k2, l2 :
                         Begun(j, id, n, t, h, k, l) /\ Begun(j, id, n, t2, h2, k2, l2)
                         => h = h2 /\ k = k2 /\ l = l2
  BY <1>4, <1>5
<1>6. InOnePiece(j, n) /\ (InPieces(j, n) <=> n \in Children(j.at)) /\ ~Listed(j.items, n)
  BY <1>1, <1>3, NothingListed
<1>7. /\ ~ChunksRepeat(cs, n)
      /\ ChunksHold(cs, n) <=> Listed(j.buffer, n) \/ ChunksHold(j.spilled, n)
  BY <1>1, <1>6, SplitWell
<1>8. ChunksHold(cs, n) <=> \E c, k, l : AtEnd(cs, c, k) /\ AtEnd(c, n, l)
  BY <1>2, ChunkPlaces
<1>9. Listed(j.local, n) <=> \E k : AtEnd(j.local, n, k)
  BY <1>1, EndListed
<1>10. n \in Children(j.at) <=> Listed(j.local, n) \/ ChunksHold(cs, n)
  BY <1>6, <1>7 DEF InPieces
<1>11. ~Repeated(j.local, n) /\ ~(Listed(j.local, n) /\ ChunksHold(cs, n))
  BY <1>6, <1>7 DEF InOnePiece
<1>12. n \in Children(j.at) => \E t, h, k, l : Begun(j, id, n, t, h, k, l)
  <2>1. ASSUME NEW c, NEW k, NEW l, AtEnd(cs, c, k), AtEnd(c, n, l)
        PROVE  Begun(j, id, n, id, Len(j.frames) + 1, k, l)
    BY <2>1 DEF Begun
  <2>2. ASSUME NEW k, AtEnd(j.local, n, k)
        PROVE  Begun(j, id, n, IF Len(j.local) > 1 THEN id + 1 ELSE id, Len(j.frames) + 2, k, 0)
    BY <2>2 DEF Begun
  <2> QED
    BY <1>8, <1>9, <1>10, <2>1, <2>2
<1>13. \A t, h, k, l : Begun(j, id, n, t, h, k, l) => n \in Children(j.at)
  BY <1>8, <1>9, <1>10 DEF Begun
<1>14. ASSUME NEW t, NEW h, NEW k, NEW l, NEW t2, NEW h2, NEW k2, NEW l2,
              Begun(j, id, n, t, h, k, l), Begun(j, id, n, t2, h2, k2, l2)
       PROVE  h = h2 /\ k = k2 /\ l = l2
  <2>1. CASE Listed(j.local, n)
    <3>1. ~(\E c, a, b : AtEnd(cs, c, a) /\ AtEnd(c, n, b))
      BY <1>8, <1>11, <2>1
    <3>2. /\ h = Len(j.frames) + 2 /\ l = 0 /\ AtEnd(j.local, n, k)
          /\ h2 = Len(j.frames) + 2 /\ l2 = 0 /\ AtEnd(j.local, n, k2)
      BY <1>14, <3>1 DEF Begun
    <3> QED
      BY <1>1, <1>11, <3>2, EndRepeated
  <2>2. CASE ~Listed(j.local, n)
    <3>1. ~(\E a : AtEnd(j.local, n, a))
      BY <1>9, <2>2
    <3>2. h = Len(j.frames) + 1 /\ h2 = Len(j.frames) + 1
      BY <1>14, <3>1 DEF Begun
    <3>3. PICK c : AtEnd(cs, c, k) /\ AtEnd(c, n, l)
      BY <1>14, <3>1 DEF Begun
    <3>4. PICK d : AtEnd(cs, d, k2) /\ AtEnd(d, n, l2)
      BY <1>14, <3>1 DEF Begun
    <3>5. k = k2 /\ l = l2
      BY <1>2, <1>7, <3>3, <3>4, OneChunkPlace
    <3> QED
      BY <3>2, <3>5
  <2> QED
    BY <2>1, <2>2
<1> QED
  BY <1>12, <1>13, <1>14
=============================================================================
