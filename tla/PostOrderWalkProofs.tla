------------------------ MODULE PostOrderWalkProofs ------------------------
(***************************************************************************)
(* Proofs about the walk of PostOrderEngine: where its nodes are, in which *)
(* order they are evaluated, and that none is lost, for every tree, every  *)
(* number of workers and every size of a chunk.                            *)
(***************************************************************************)
EXTENDS PostOrderProofs

-----------------------------------------------------------------------------
(* Where what is held comes from, and where it goes, in a step of a body   *)

(* The task w begins to publish. *)
Publishes(w, u) ==
  /\ accept
  /\ \/ PublishChunk(w) /\ u = ChunkTask(Head(Head(job[w].frames).chunks), Head(job[w].frames).barrier)
     \/ ReleaseDirectory(w) /\ u = ResumeTask(job[w].at, job[w].notify)

LEMMA WaitsAfter ==
  ASSUME EngineInv, EngineInv', BodiesKnown, NEW w \in Worker, TaskStep(w), NEW u, NEW q, NEW i
  PROVE  WaitsAt(u, q, i)' <=> \/ WaitsAt(u, q, i) /\ ~(q = w /\ i = 0)
                               \/ q = w /\ i = -1 /\ Publishes(w, u)
<1>0. /\ S!TypeOK /\ SP!Worker = Worker /\ Worker \subseteq Nat \ {0}
      /\ Len(injector) \in Nat /\ \A v \in Worker : Len(deque[v]) \in Nat
      /\ pub \in [Worker -> EngineTask \cup {NoTask}] /\ pc \in [Worker -> S!Location]
  BY SMTT(120), SchedulerTypes DEF S!TypeOK, Worker, S!Worker, SP!Worker
<1>1. /\ pc[w] = "run" /\ \A v \in Worker \ {w} : pc'[v] = pc[v] /\ pub'[v] = pub[v] /\ job'[v] = job[v]
      /\ UNCHANGED <<accept, injector, deque, task>>
  BY TaskMoves, OnlyOwnJob DEF EngineInv
<1>2. /\ pc'[w] \in {"run", "count", "quit", "finish"}
      /\ pc'[w] = "run" \/ pc'[w] = "quit" \/ pc'[w] = "count" => job'[w].step # "idle"
      /\ pc'[w] = "count" <=> accept /\ (PublishChunk(w) \/ ReleaseDirectory(w))
  <2>1. \/ UNCHANGED schedVars
        \/ (PublishChunk(w) \/ ReleaseDirectory(w)) /\ pc'[w] = (IF accept THEN "count" ELSE "run")
        \/ EvalQuits(w) /\ pc'[w] = "quit"
        \/ (EndTask(w) \/ LeaveAfterQuit(w) \/ EvalFails(w)) /\ pc'[w] = "finish"
    BY TaskMoves
  <2>2. EndTask(w) \/ LeaveAfterQuit(w) \/ EvalFails(w) => pc'[w] = "finish"
    BY <1>0 DEF EndTask, LeaveAfterQuit, EvalFails, S!TaskReturns, S!Goto
  <2>3. PublishChunk(w) \/ ReleaseDirectory(w) => pc'[w] = (IF accept THEN "count" ELSE "run")
    BY <1>0, <1>1 DEF PublishChunk, ReleaseDirectory, S!BeginPush
  <2>4. job'[w].step = "idle" => EndTask(w) \/ LeaveAfterQuit(w) \/ EvalFails(w)
    BY JobMoves DEF EngineInv
  <2>5. UNCHANGED schedVars => pc'[w] = "run"
    BY <1>1 DEF schedVars
  <2> QED
    BY <2>1, <2>2, <2>3, <2>4, <2>5
<1>3. /\ PublishChunk(w) /\ accept =>
           pub'[w] = ChunkTask(Head(Head(job[w].frames).chunks), Head(job[w].frames).barrier)
      /\ ReleaseDirectory(w) /\ accept => pub'[w] = ResumeTask(job[w].at, job[w].notify)
      /\ ~(PublishChunk(w) /\ ReleaseDirectory(w))
  <2>1. PICK t1, t2 : /\ t1 = ChunkTask(Head(Head(job[w].frames).chunks), Head(job[w].frames).barrier)
                      /\ t2 = ResumeTask(job[w].at, job[w].notify)
    OBVIOUS
  <2>2. /\ PublishChunk(w) => S!BeginPush(w, t1) /\ job[w].step = "publish"
        /\ ReleaseDirectory(w) => S!BeginPush(w, t2) /\ job[w].step = "release"
    BY <2>1 DEF PublishChunk, ReleaseDirectory, At
  <2> QED
    BY <1>0, <2>1, <2>2 DEF S!BeginPush
<1>4. Publishes(w, u) <=> pc'[w] = "count" /\ u = pub'[w]
  BY <1>2, <1>3 DEF Publishes
<1>5. SP!TaskAt(u, q, i)' <=>
        \/ q = 0 /\ i \in 1..Len(injector) /\ u = injector[i]
        \/ q \in Worker /\ i \in 1..Len(deque[q]) /\ u = deque[q][i]
        \/ q \in Worker /\ pc'[q] \in {"got", "run", "count", "push", "quit", "finish"} /\ i = 0 /\ u = task[q]
        \/ q \in Worker /\ pc'[q] \in {"count", "push"} /\ i = -1 /\ u = pub'[q]
  BY <1>0, <1>1 DEF SP!TaskAt, SP!InHand, SP!Publishing, Worker, S!Worker, SP!Worker
<1>6. SP!TaskAt(u, q, i) <=>
        \/ q = 0 /\ i \in 1..Len(injector) /\ u = injector[i]
        \/ q \in Worker /\ i \in 1..Len(deque[q]) /\ u = deque[q][i]
        \/ q \in Worker /\ pc[q] \in {"got", "run", "count", "push", "quit", "finish"} /\ i = 0 /\ u = task[q]
        \/ q \in Worker /\ pc[q] \in {"count", "push"} /\ i = -1 /\ u = pub[q]
  BY <1>0 DEF SP!TaskAt, SP!InHand, SP!Publishing
<1>7. CASE q = w /\ i = 0
  <2>1. ~WaitsAt(u, q, i)'
    BY <1>0, <1>2, <1>7 DEF WaitsAt, At
  <2> QED
    BY <1>7, <2>1
<1>8. CASE q = w /\ i = -1
  <2>1. ~WaitsAt(u, q, i)
    BY <1>0, <1>1, <1>6, <1>8 DEF WaitsAt
  <2>2. WaitsAt(u, q, i)' <=> pc'[w] = "count" /\ u = pub'[w]
    BY <1>0, <1>2, <1>5, <1>8 DEF WaitsAt
  <2> QED
    BY <1>4, <1>8, <2>1, <2>2
<1>9. CASE ~(q = w /\ i = 0) /\ ~(q = w /\ i = -1)
  <2>1. SP!TaskAt(u, q, i)' <=> SP!TaskAt(u, q, i)
    BY <1>0, <1>1, <1>5, <1>6, <1>9
  <2>2. i = 0 => (SP!TaskAt(u, q, i) => q \in Worker \ {w})
    BY <1>0, <1>6, <1>9
  <2>3. i = 0 /\ q \in Worker \ {w} => ((pc[q] = "got" \/ At(q, "idle"))' <=> pc[q] = "got" \/ At(q, "idle"))
    BY <1>1 DEF At
  <2> QED
    BY <1>9, <2>1, <2>2, <2>3 DEF WaitsAt
<1> QED
  BY <1>7, <1>8, <1>9

(* The steps that give up nodes; new work is then refused, or a stop was seen. *)
GivesUp(w) ==
  \/ EndBatch(w) /\ Head(job[w].frames).nodes # <<>>
  \/ LeaveDirectory(w) \/ AbandonListing(w) \/ LeaveAfterQuit(w) \/ EvalFails(w)
  \/ ~accept /\ (PublishChunk(w) \/ ReleaseDirectory(w))

(* The place of the node, and of the chunk, that is taken from w's calls. *)
TakenNode(w, h, k, l) ==
  VisitNext(w) /\ h = Len(job[w].frames) /\ k = Len(Head(job[w].frames).nodes) /\ l = 0
TakenChunk(w, h, k) ==
  PublishChunk(w) /\ h = Len(job[w].frames) /\ k = Len(Head(job[w].frames).chunks)
StartedNode(w, n, t, h, k, l) ==
  /\ StartChunk(w) /\ h = 1 /\ l = 0 /\ AtEnd(task[w].nodes, n, k)
  /\ t = IF NeedsBatch(task[w].nodes, task[w].barrier) THEN nextBarrier ELSE task[w].barrier

CallsChange(w, n, t, h, k, l) ==
  LET before == InCalls(job[w].frames, n, t, h, k, l)
      after == InCalls(job'[w].frames, n, t, h, k, l) IN
  /\ after => \/ before /\ ~TakenNode(w, h, k, l) /\ ~TakenChunk(w, h, k)
              \/ StartedNode(w, n, t, h, k, l)
              \/ BeginDirectory(w) /\ Begun(job[w], nextBarrier, n, t, h, k, l)
  /\ before => after \/ TakenNode(w, h, k, l) \/ TakenChunk(w, h, k) \/ GivesUp(w)
  /\ StartedNode(w, n, t, h, k, l) => after
  /\ BeginDirectory(w) /\ Begun(job[w], nextBarrier, n, t, h, k, l) => after

LEMMA CallsAfter ==
  ASSUME NEW w \in Worker, TaskStep(w), EngineInv, BodiesKnown,
         NEW n, NEW t, NEW h, NEW k, NEW l
  PROVE  CallsChange(w, n, t, h, k, l)
<1> DEFINE j == job[w]
           jj == job'[w]
           before == InCalls(j.frames, n, t, h, k, l)
           after == InCalls(jj.frames, n, t, h, k, l)
<1>0. j \in WalkJob /\ j.frames \in Seq(WalkFrame)
  BY DEF EngineInv, JobsFit, WalkJob
<1>b. BodyAfter(w, j, jj)
  BY BodyChanges
<1>c. NoJob.frames = <<>>
  BY ZenonT(120) DEF NoJob
<1>d. VisitNext(w) => j.step = "next"
  BY DEF VisitNext, At
<1>e. PublishChunk(w) => j.step = "publish"
  BY DEF PublishChunk, At
<1>f. StartChunk(w) => j.step = "idle"
  BY DEF StartChunk, At
<1>g. BeginDirectory(w) => j.step = "list"
  BY DEF BeginDirectory, At
<1>1. CASE StartChunk(w)
  <2>1. PICK nodes, p : nodes = task[w].nodes /\ p = task[w].barrier
    OBVIOUS
  <2>2. nodes \in Seq(Walked) /\ p \in Nat /\ nextBarrier \in Nat
    <3>1. task[w] \in WalkTask
      BY <1>1 DEF StartChunk, At, EngineInv, QueuesFit
    <3> QED
      BY <2>1, <3>1 DEF WalkTask, Chunk, Barrier, EngineInv, TableFits
  <2>3. PICK f : f = BatchFor(nodes, p, nextBarrier)
    OBVIOUS
  <2>4. /\ f \in WalkFrame /\ f.nodes = nodes /\ f.chunks = <<>>
        /\ f.barrier = (IF NeedsBatch(nodes, p) THEN nextBarrier ELSE p)
    BY <2>2, <2>3, BatchFits DEF BatchFor, BatchFrame, Barrier
  <2>5. j = NoJob /\ jj.frames = <<f>>
    BY <1>1, <1>b, <2>1, <2>3 DEF BodyAfter
  <2>6. <<f>> = <<f>> \o <<>> /\ <<>> \in Seq(WalkFrame) /\ Len(<<>>) = 0
    BY <2>4
  <2>7. after <=> h = 1 /\ f.barrier = t /\ InFrame(f, n, k, l)
    <3>1. InCalls(<<f>> \o <<>>, n, t, h, k, l)
            <=> InCalls(<<>>, n, t, h, k, l) \/ (h = Len(<<>>) + 1 /\ f.barrier = t /\ InFrame(f, n, k, l))
      BY <2>4, <2>6, CallsPushed
    <3> QED
      BY <2>5, <2>6, <3>1, NoCalls
  <2>8. InFrame(f, n, k, l) <=> l = 0 /\ AtEnd(nodes, n, k)
    BY <2>4, NothingAtEnd DEF InFrame
  <2>9. after <=> StartedNode(w, n, t, h, k, l)
    BY <1>1, <2>1, <2>4, <2>7, <2>8 DEF StartedNode
  <2>10. ~before
    BY <1>c, <2>5, NoCalls
  <2> QED
    BY <1>1, <1>f, <1>g, <2>9, <2>10 DEF CallsChange
<1>2. CASE BeginDirectory(w)
  <2>1. after <=> before \/ Begun(j, nextBarrier, n, t, h, k, l)
    BY <1>2, BegunIs
  <2>2. ~TakenNode(w, h, k, l) /\ ~TakenChunk(w, h, k) /\ ~StartedNode(w, n, t, h, k, l)
    BY <1>2, <1>d, <1>e, <1>f, <1>g DEF TakenNode, TakenChunk, StartedNode
  <2> QED
    BY <1>2, <2>1, <2>2 DEF CallsChange
<1>3. CASE VisitNext(w)
  <2>1. /\ before <=> after \/ (/\ h = Len(j.frames) /\ k = Len(Head(j.frames).nodes) /\ l = 0
                                /\ t = Head(j.frames).barrier /\ n = Head(Head(j.frames).nodes))
        /\ after => ~(h = Len(j.frames) /\ k = Len(Head(j.frames).nodes) /\ l = 0)
    <3>1. /\ j.frames # <<>> /\ Head(j.frames).kind = "batch" /\ Head(j.frames).nodes # <<>>
          /\ jj.frames = <<[Head(j.frames) EXCEPT !.nodes = Tail(@)]>> \o Tail(j.frames)
      BY <1>3, <1>b DEF BodyAfter
    <3>2. PICK fs, gs : fs = j.frames /\ gs = jj.frames
      OBVIOUS
    <3>3. /\ fs \in Seq(WalkFrame) /\ fs # <<>> /\ Head(fs).kind = "batch" /\ Head(fs).nodes # <<>>
          /\ NodeLess(fs, gs)
      BY <1>0, <3>1, <3>2 DEF NodeLess
    <3>4. /\ InCalls(fs, n, t, h, k, l)
               <=> InCalls(gs, n, t, h, k, l)
                   \/ (/\ h = Len(fs) /\ k = Len(Head(fs).nodes) /\ l = 0
                       /\ t = Head(fs).barrier /\ n = Head(Head(fs).nodes))
          /\ InCalls(gs, n, t, h, k, l) => ~(h = Len(fs) /\ k = Len(Head(fs).nodes) /\ l = 0)
      BY <3>3, NodeTaken
    <3> QED
      BY ZenonT(120), <3>2, <3>4
  <2>2. ~TakenChunk(w, h, k) /\ ~StartedNode(w, n, t, h, k, l) /\ ~BeginDirectory(w)
    BY <1>3, <1>d, <1>e, <1>f, <1>g DEF TakenChunk, StartedNode
  <2>3. TakenNode(w, h, k, l) <=> h = Len(j.frames) /\ k = Len(Head(j.frames).nodes) /\ l = 0
    BY <1>3 DEF TakenNode
  <2> HIDE DEF before, after
  <2>4. /\ after => before /\ ~TakenNode(w, h, k, l)
        /\ before => after \/ TakenNode(w, h, k, l)
    BY <2>1, <2>3
  <2> QED
    BY <2>2, <2>4 DEF CallsChange, before, after
<1>4. CASE PublishChunk(w)
  <2>1. /\ before <=> after \/ (/\ h = Len(j.frames) /\ k = Len(Head(j.frames).chunks)
                                /\ t = Head(j.frames).barrier /\ AtEnd(Head(Head(j.frames).chunks), n, l))
        /\ after => ~(h = Len(j.frames) /\ k = Len(Head(j.frames).chunks))
    <3>1. /\ j.step = "publish" /\ Head(j.frames).chunks # <<>>
          /\ jj.frames = <<[Head(j.frames) EXCEPT !.chunks = Tail(@)]>> \o Tail(j.frames)
      BY <1>4, <1>b DEF BodyAfter
    <3>2. j.frames # <<>> /\ Head(j.frames).kind = "dir"
      BY <3>1 DEF EngineInv, JobsFit, AtNode
    <3>3. PICK fs, gs : fs = j.frames /\ gs = jj.frames
      OBVIOUS
    <3>4. /\ fs \in Seq(WalkFrame) /\ fs # <<>> /\ Head(fs).kind = "dir" /\ Head(fs).chunks # <<>>
          /\ ChunkLess(fs, gs)
      BY <1>0, <3>1, <3>2, <3>3 DEF ChunkLess
    <3>5. /\ InCalls(fs, n, t, h, k, l)
               <=> InCalls(gs, n, t, h, k, l)
                   \/ (/\ h = Len(fs) /\ k = Len(Head(fs).chunks)
                       /\ t = Head(fs).barrier /\ AtEnd(Head(Head(fs).chunks), n, l))
          /\ InCalls(gs, n, t, h, k, l) => ~(h = Len(fs) /\ k = Len(Head(fs).chunks))
      BY <3>4, ChunkTaken
    <3> QED
      BY <3>3, <3>5
  <2>2. ~TakenNode(w, h, k, l) /\ ~StartedNode(w, n, t, h, k, l) /\ ~BeginDirectory(w)
    BY <1>4, <1>d, <1>e, <1>f, <1>g DEF TakenNode, StartedNode
  <2>3. TakenChunk(w, h, k) <=> h = Len(j.frames) /\ k = Len(Head(j.frames).chunks)
    BY <1>4 DEF TakenChunk
  <2> HIDE DEF before, after
  <2>4. /\ after => before /\ ~TakenChunk(w, h, k)
        /\ before => after \/ TakenChunk(w, h, k)
    BY <2>1, <2>3
  <2> QED
    BY <2>2, <2>4 DEF CallsChange, before, after
<1>5. ASSUME ~StartChunk(w), ~BeginDirectory(w), ~VisitNext(w), ~PublishChunk(w),
             after => before, before => after \/ GivesUp(w)
      PROVE  CallsChange(w, n, t, h, k, l)
  BY <1>5 DEF CallsChange, TakenNode, TakenChunk, StartedNode
<1>6. CASE EndBatch(w) \/ LeaveDirectory(w) \/ PublishDone(w)
  <2>1. jj.frames = Tail(j.frames) /\ j.step \in {"next", "publish"} /\ j.frames # <<>>
    <3>1. PublishDone(w) => j.step = "publish" /\ j.frames # <<>>
      BY DEF PublishDone, At, EngineInv, JobsFit, AtNode
    <3> QED
      BY <1>6, <1>b, <3>1 DEF BodyAfter
  <2>2. before <=> after \/ (h = Len(j.frames) /\ Head(j.frames).barrier = t /\ InFrame(Head(j.frames), n, k, l))
    BY <1>0, <2>1, CallsTail
  <2>3. ~StartChunk(w) /\ ~BeginDirectory(w) /\ ~VisitNext(w) /\ ~PublishChunk(w)
    <3>1. EndBatch(w) => ~VisitNext(w)
      BY DEF EndBatch, VisitNext
    <3>2. LeaveDirectory(w) => ~VisitNext(w)
      BY DEF LeaveDirectory, VisitNext
    <3>3. PublishDone(w) => j.step = "publish" /\ ~PublishChunk(w)
      BY DEF PublishDone, PublishChunk, At
    <3>4. EndBatch(w) \/ LeaveDirectory(w) => j.step = "next"
      BY DEF EndBatch, LeaveDirectory, At
    <3> QED
      BY ZenonT(120), <1>6, <1>d, <1>e, <1>f, <1>g, <3>1, <3>2, <3>3, <3>4
  <2>4. InFrame(Head(j.frames), n, k, l) => GivesUp(w)
    <3>1. PICK f : f = Head(j.frames)
      OBVIOUS
    <3>2. f \in WalkFrame
      BY <1>0, <2>1, <3>1, HeadAndTail
    <3>3. ASSUME EndBatch(w), f.nodes = <<>> PROVE ~InFrame(f, n, k, l)
      <4>1. f.kind = "batch" /\ f.chunks = <<>>
        BY <3>1, <3>2, <3>3, FrameParts DEF EndBatch
      <4> QED
        BY <3>3, <4>1, NothingAtEnd DEF InFrame
    <3>4. ASSUME PublishDone(w) PROVE ~InFrame(f, n, k, l)
      <4>1. f.chunks = <<>> /\ f.kind = "dir" /\ f.nodes = <<>>
        BY <3>1, <3>2, <3>4, FrameParts DEF PublishDone, At, EngineInv, JobsFit, AtNode
      <4> QED
        BY <4>1, NothingAtEnd DEF InFrame
    <3> QED
      BY <1>6, <3>1, <3>3, <3>4 DEF GivesUp
  <2> QED
    BY <1>5, <2>2, <2>3, <2>4
<1>7. CASE EndTask(w) \/ LeaveAfterQuit(w) \/ EvalFails(w)
  <2>1. jj.frames = <<>> /\ j.step \in {"next", "leave", "eval"}
    BY <1>7, <1>b, <1>c DEF BodyAfter
  <2>2. ~StartChunk(w) /\ ~BeginDirectory(w) /\ ~VisitNext(w) /\ ~PublishChunk(w)
    <3>1. EndTask(w) => j.frames = <<>>
      BY ZenonT(120) DEF EndTask
    <3>2. VisitNext(w) => j.frames # <<>>
      BY DEF VisitNext
    <3>3. LeaveAfterQuit(w) \/ EvalFails(w) => j.step \in {"leave", "eval"}
      BY DEF LeaveAfterQuit, EvalFails, At
    <3> QED
      BY <1>7, <1>d, <1>e, <1>f, <1>g, <2>1, <3>1, <3>2, <3>3
  <2>3. EndTask(w) => ~before
    BY NoCalls DEF EndTask
  <2>4. ~after
    BY <2>1, NoCalls
  <2> QED
    BY <1>5, <1>7, <2>2, <2>3, <2>4 DEF GivesUp
<1>8. CASE \/ StartResume(w) \/ OpenDirectory(w) \/ OpenFails(w) \/ ListBadItem(w) \/ ListChild(w)
           \/ AbandonListing(w) \/ ListedEmpty(w) \/ PublishRest(w) \/ EvalOk(w) \/ EvalQuits(w)
           \/ NotifyEnds(w) \/ FinishUnit(w) \/ FinishLastUnit(w) \/ ReleaseDirectory(w)
  <2>1. jj.frames = j.frames
    BY <1>8, <1>b, <1>c DEF BodyAfter, SameNode
  <2>2. ~StartChunk(w) /\ ~BeginDirectory(w) /\ ~VisitNext(w) /\ ~PublishChunk(w)
    <3>1. StartResume(w) => ~StartChunk(w) /\ j.step = "idle"
      BY DEF StartResume, StartChunk, At
    <3>2. AbandonListing(w) \/ ListedEmpty(w) => ~BeginDirectory(w) /\ j.step = "list"
      <4>1. AbandonListing(w) => ~BeginDirectory(w)
        BY DEF AbandonListing, BeginDirectory
      <4>2. ListedEmpty(w) => ~BeginDirectory(w)
        BY DEF ListedEmpty, BeginDirectory
      <4> QED
        BY <1>b, <4>1, <4>2 DEF BodyAfter
    <3>3. ListBadItem(w) \/ ListChild(w) => ~BeginDirectory(w) /\ j.step = "list"
      BY DEF ListBadItem, ListChild, BeginDirectory, At
    <3>4. PublishRest(w) => ~VisitNext(w) /\ j.step = "next"
      BY DEF PublishRest, VisitNext, At
    <3>5. \/ OpenDirectory(w) \/ OpenFails(w) \/ EvalOk(w) \/ EvalQuits(w)
          \/ NotifyEnds(w) \/ FinishUnit(w) \/ FinishLastUnit(w) \/ ReleaseDirectory(w)
          => j.step \in {"open", "eval", "notify", "release"}
      BY <1>b DEF BodyAfter
    <3> QED
      BY <1>8, <1>d, <1>e, <1>f, <1>g, <3>1, <3>2, <3>3, <3>4, <3>5
  <2> QED
    BY <1>5, <2>1, <2>2
<1> QED
  BY <1>1, <1>2, <1>3, <1>4, <1>6, <1>7, <1>8 DEF TaskStep

(* Records keep their entry and their parent as long as they are there. *)
SameRecord(c) ==
  /\ c \in DOMAIN barriers' /\ barriers'[c].entry = barriers[c].entry
  /\ barriers'[c].parent = barriers[c].parent

NewRecord(w, c) ==
  \/ /\ StartChunk(w) /\ NeedsBatch(task[w].nodes, task[w].barrier) /\ c = nextBarrier
     /\ barriers'[c].entry = NoNode /\ barriers'[c].parent = task[w].barrier
  \/ /\ BeginDirectory(w) /\ c = nextBarrier
     /\ barriers'[c].entry = job[w].at /\ barriers'[c].parent = job[w].notify
  \/ /\ BeginDirectory(w) /\ Len(job[w].local) > 1 /\ c = nextBarrier + 1
     /\ barriers'[c].entry = NoNode /\ barriers'[c].parent = nextBarrier

TableChange(w) ==
  /\ \A c \in DOMAIN barriers : SameRecord(c) \/ (FinishLastUnit(w) /\ c = job[w].notify)
  /\ \A c \in DOMAIN barriers' : c \in DOMAIN barriers \/ NewRecord(w, c)
  /\ FinishLastUnit(w) => job[w].notify \in DOMAIN barriers /\ job[w].notify \notin DOMAIN barriers'
  /\ StartChunk(w) /\ NeedsBatch(task[w].nodes, task[w].barrier) =>
       nextBarrier \in DOMAIN barriers' /\ NewRecord(w, nextBarrier)
  /\ BeginDirectory(w) =>
       /\ nextBarrier \in DOMAIN barriers' /\ barriers'[nextBarrier].entry = job[w].at
       /\ barriers'[nextBarrier].parent = job[w].notify
       /\ Len(job[w].local) > 1 =>
            /\ nextBarrier + 1 \in DOMAIN barriers' /\ barriers'[nextBarrier + 1].entry = NoNode
            /\ barriers'[nextBarrier + 1].parent = nextBarrier

LEMMA TableChanges ==
  ASSUME NEW w \in Worker, TaskStep(w), EngineInv
  PROVE  TableChange(w)
<1>0. /\ nextBarrier \in Nat \ {0} /\ DOMAIN barriers \subseteq 1..(nextBarrier - 1)
      /\ nextBarrier \notin DOMAIN barriers /\ nextBarrier + 1 \notin DOMAIN barriers
      /\ \A c \in DOMAIN barriers :
           barriers[c] \in [entry : Walked \cup {NoNode}, remaining : Nat \ {0}, parent : Barrier]
  <2>1. nextBarrier \in Nat \ {0} /\ DOMAIN barriers \subseteq 1..(nextBarrier - 1)
    BY DEF EngineInv, TableFits
  <2> QED
    BY <2>1 DEF EngineInv, TableFits, WalkRecord
<1>1. ASSUME StartChunk(w) PROVE TableChange(w)
  <2>1. ~FinishLastUnit(w) /\ ~BeginDirectory(w)
    BY <1>1 DEF StartChunk, FinishLastUnit, BeginDirectory, At
  <2>2. PICK nodes, p : nodes = task[w].nodes /\ p = task[w].barrier
    OBVIOUS
  <2>3. barriers' = AddBatch(barriers, nodes, p, nextBarrier)
    BY <1>1, <2>2 DEF StartChunk
  <2>4. CASE NeedsBatch(nodes, p)
    <3>1. PICK r : r = BatchRecord(Len(nodes), p)
      OBVIOUS
    <3>2. barriers' = [b \in DOMAIN barriers \cup {nextBarrier} |-> IF b = nextBarrier THEN r ELSE barriers[b]]
      BY <2>3, <2>4, <3>1 DEF AddBatch, Insert
    <3>3. r.entry = NoNode /\ r.parent = p
      BY <3>1 DEF BatchRecord
    <3>4. /\ \A c \in DOMAIN barriers : SameRecord(c)
          /\ \A c \in DOMAIN barriers' : c \in DOMAIN barriers \/ c = nextBarrier
          /\ nextBarrier \in DOMAIN barriers' /\ NewRecord(w, nextBarrier)
      BY <1>0, <1>1, <2>2, <2>4, <3>2, <3>3 DEF SameRecord, NewRecord
    <3> QED
      BY <2>1, <2>2, <2>4, <3>4 DEF TableChange
  <2>5. CASE ~NeedsBatch(nodes, p)
    <3>1. barriers' = barriers
      BY <2>3, <2>5 DEF AddBatch
    <3> QED
      BY <2>1, <2>2, <2>5, <3>1 DEF TableChange, SameRecord
  <2> QED
    BY <2>4, <2>5
<1>2. ASSUME BeginDirectory(w) PROVE TableChange(w)
  <2>1. ~FinishLastUnit(w) /\ ~StartChunk(w)
    BY <1>2 DEF StartChunk, FinishLastUnit, BeginDirectory, At
  <2>2. PICK j, id : j = job[w] /\ id = nextBarrier
    OBVIOUS
  <2>3. PICK units : barriers' =
          IF j.local = <<>> THEN Insert(barriers, id, DirectoryRecord(j.at, units, j.notify))
          ELSE AddBatch(Insert(barriers, id, DirectoryRecord(j.at, units, j.notify)), j.local, id, id + 1)
    BY <1>2, <2>2 DEF BeginDirectory
  <2>4. PICK table : table = Insert(barriers, id, DirectoryRecord(j.at, units, j.notify))
    OBVIOUS
  <2>5. /\ DOMAIN table = DOMAIN barriers \cup {id}
        /\ \A c \in DOMAIN barriers : c # id => table[c] = barriers[c]
        /\ table[id].entry = j.at /\ table[id].parent = j.notify
    <3>1. PICK r : r = DirectoryRecord(j.at, units, j.notify)
      OBVIOUS
    <3>2. r.entry = j.at /\ r.parent = j.notify
      BY <3>1 DEF DirectoryRecord
    <3>3. table = [b \in DOMAIN barriers \cup {id} |-> IF b = id THEN r ELSE barriers[b]]
      BY <2>4, <3>1 DEF Insert
    <3> QED
      BY <3>2, <3>3
  <2>6. j.local \in Seq(Walked)
    BY <2>2 DEF EngineInv, JobsFit, WalkJob
  <2>7. NeedsBatch(j.local, id) <=> Len(j.local) > 1
    BY <1>0, <2>2 DEF NeedsBatch, NoBarrier
  <2>8. CASE Len(j.local) > 1
    <3>1. j.local # <<>>
      BY <2>8
    <3>2. PICK r : r = BatchRecord(Len(j.local), id)
      OBVIOUS
    <3>3. barriers' = [b \in DOMAIN table \cup {id + 1} |-> IF b = id + 1 THEN r ELSE table[b]]
      BY <2>3, <2>4, <2>7, <2>8, <3>1, <3>2 DEF AddBatch, Insert
    <3>4. r.entry = NoNode /\ r.parent = id
      BY <3>2 DEF BatchRecord
    <3>5. /\ \A c \in DOMAIN barriers : c \in DOMAIN barriers' /\ barriers'[c] = barriers[c]
          /\ DOMAIN barriers' = DOMAIN barriers \cup {id, id + 1}
          /\ barriers'[id] = table[id] /\ barriers'[id + 1] = r
      BY <1>0, <2>2, <2>5, <3>3
    <3> QED
      BY <1>2, <2>1, <2>2, <2>5, <2>8, <3>4, <3>5 DEF TableChange, SameRecord, NewRecord
  <2>9. CASE ~(Len(j.local) > 1)
    <3>1. barriers' = table
      BY <2>3, <2>4, <2>7, <2>9 DEF AddBatch
    <3>2. /\ \A c \in DOMAIN barriers : c \in DOMAIN barriers' /\ barriers'[c] = barriers[c]
          /\ DOMAIN barriers' = DOMAIN barriers \cup {id}
          /\ barriers'[id] = table[id]
      BY <1>0, <2>2, <2>5, <3>1
    <3> QED
      BY <1>2, <2>1, <2>2, <2>5, <2>9, <3>2 DEF TableChange, SameRecord, NewRecord
  <2> QED
    BY <2>8, <2>9
<1>3. ASSUME FinishUnit(w) PROVE TableChange(w)
  <2>1. ~FinishLastUnit(w) /\ ~StartChunk(w) /\ ~BeginDirectory(w)
    <3>1. FinishUnit(w) => ~FinishLastUnit(w)
      <4>1. ASSUME FinishUnit(w), FinishLastUnit(w) PROVE FALSE
        <5>1. PICK b : b = job[w].notify
          OBVIOUS
        <5>2. b \in DOMAIN barriers /\ barriers[b].remaining > 1 /\ barriers[b].remaining <= 1
          BY <4>1, <5>1 DEF FinishUnit, FinishLastUnit
        <5> QED
          BY <1>0, <5>2
      <4> QED
        BY <4>1
    <3> QED
      BY <1>3, <3>1 DEF FinishUnit, StartChunk, BeginDirectory, At
  <2>2. PICK b : b = job[w].notify
    OBVIOUS
  <2>3. b \in DOMAIN barriers /\ barriers' = [barriers EXCEPT ![b].remaining = @ - 1]
    BY <1>3, <2>2 DEF FinishUnit
  <2>4. DOMAIN barriers' = DOMAIN barriers
        /\ \A c \in DOMAIN barriers : c # b => barriers'[c] = barriers[c]
    BY <2>3
  <2>5. barriers'[b].entry = barriers[b].entry /\ barriers'[b].parent = barriers[b].parent
    BY <1>0, <2>3
  <2>6. \A c \in DOMAIN barriers : SameRecord(c)
    BY <2>4, <2>5 DEF SameRecord
  <2> QED
    BY <2>1, <2>4, <2>6 DEF TableChange
<1>4. ASSUME FinishLastUnit(w) PROVE TableChange(w)
  <2>1. ~StartChunk(w) /\ ~BeginDirectory(w)
    BY <1>4 DEF FinishLastUnit, StartChunk, BeginDirectory, At
  <2>2. PICK b : b = job[w].notify
    OBVIOUS
  <2>3. b \in DOMAIN barriers /\ barriers' = [c \in DOMAIN barriers \ {b} |-> barriers[c]]
    BY <1>4, <2>2 DEF FinishLastUnit
  <2> QED
    BY <1>4, <2>1, <2>2, <2>3 DEF TableChange, SameRecord
<1>5. ASSUME barriers' = barriers, ~StartChunk(w), ~BeginDirectory(w), ~FinishLastUnit(w)
      PROVE  TableChange(w)
  BY ZenonT(120), <1>5 DEF TableChange, SameRecord
<1>6. \/ StartChunk(w) \/ BeginDirectory(w) \/ FinishUnit(w) \/ FinishLastUnit(w)
      \/ barriers' = barriers
  BY DEF TaskStep, StartResume, EndTask, EndBatch, VisitNext, OpenDirectory, OpenFails, ListBadItem,
         ListChild, AbandonListing, ListedEmpty, LeaveDirectory, PublishRest, PublishChunk, PublishDone,
         EvalOk, EvalQuits, LeaveAfterQuit, EvalFails, NotifyEnds, ReleaseDirectory, barrierVars
<1> QED
  BY <1>1, <1>2, <1>3, <1>4, <1>5, <1>6

LEMMA RecordsAfter ==
  ASSUME NEW w \in Worker, TaskStep(w), EngineInv, NEW q, NEW i, NEW x, NEW n, NEW t, NEW s
  PROVE  /\ RecordHeld(q, i, x, n, t, s)' =>
              \/ RecordHeld(q, i, x, n, t, s) /\ ~(FinishLastUnit(w) /\ q = job[w].notify)
              \/ /\ BeginDirectory(w) /\ q = nextBarrier /\ i = -3 /\ x = <<0, 0, 0>>
                 /\ n = job[w].at /\ t = job[w].notify /\ s = "waiting"
         /\ RecordHeld(q, i, x, n, t, s) =>
              RecordHeld(q, i, x, n, t, s)' \/ (FinishLastUnit(w) /\ q = job[w].notify)
         /\ BeginDirectory(w) /\ q = nextBarrier /\ i = -3 /\ x = <<0, 0, 0>>
              /\ n = job[w].at /\ t = job[w].notify /\ s = "waiting"
              => RecordHeld(q, i, x, n, t, s)'
<1>1. TableChange(w)
  BY TableChanges
<1>2. BeginDirectory(w) => job[w].at # NoNode
  <2>1. BeginDirectory(w) => job[w].at \in Node
    BY DEF BeginDirectory, At, EngineInv, JobsFit, AtNode, Walked
  <2> QED
    BY <2>1, PostOrderAssumption
<1>3. PICK p : p = barriers'
  OBVIOUS
<1>4. RecordHeld(q, i, x, n, t, s)' <=>
        /\ q \in DOMAIN p /\ i = -3 /\ x = <<0, 0, 0>>
        /\ n = p[q].entry /\ n # NoNode /\ t = p[q].parent /\ s = "waiting"
  BY <1>3 DEF RecordHeld
<1>5. ASSUME RecordHeld(q, i, x, n, t, s)'
      PROVE  \/ RecordHeld(q, i, x, n, t, s) /\ ~(FinishLastUnit(w) /\ q = job[w].notify)
             \/ /\ BeginDirectory(w) /\ q = nextBarrier /\ i = -3 /\ x = <<0, 0, 0>>
                /\ n = job[w].at /\ t = job[w].notify /\ s = "waiting"
  <2>1. CASE q \in DOMAIN barriers
    <3>1. ~(FinishLastUnit(w) /\ q = job[w].notify)
      BY <1>1, <1>3, <1>4, <1>5 DEF TableChange
    <3>2. SameRecord(q)
      BY <1>1, <2>1, <3>1 DEF TableChange
    <3> QED
      BY <1>3, <1>4, <1>5, <2>1, <3>1, <3>2 DEF SameRecord, RecordHeld
  <2>2. CASE q \notin DOMAIN barriers
    <3>1. NewRecord(w, q)
      BY <1>1, <1>3, <1>4, <1>5, <2>2 DEF TableChange
    <3> QED
      BY <1>3, <1>4, <1>5, <3>1 DEF NewRecord
  <2> QED
    BY <2>1, <2>2
<1>6. ASSUME RecordHeld(q, i, x, n, t, s)
      PROVE  RecordHeld(q, i, x, n, t, s)' \/ (FinishLastUnit(w) /\ q = job[w].notify)
  <2>1. q \in DOMAIN barriers
    BY <1>6 DEF RecordHeld
  <2>2. SameRecord(q) \/ (FinishLastUnit(w) /\ q = job[w].notify)
    BY <1>1, <2>1 DEF TableChange
  <2> QED
    BY <1>3, <1>4, <1>6, <2>2 DEF SameRecord, RecordHeld
<1>7. ASSUME BeginDirectory(w), q = nextBarrier, i = -3, x = <<0, 0, 0>>,
             n = job[w].at, t = job[w].notify, s = "waiting"
      PROVE  RecordHeld(q, i, x, n, t, s)'
  BY ZenonT(120), <1>1, <1>2, <1>3, <1>4, <1>7 DEF TableChange
<1> QED
  BY <1>5, <1>6, <1>7

(* The step each action of a body starts from, and goes to. *)
LEMMA ActionKinds ==
  ASSUME NEW w \in Worker, TaskStep(w), EngineInv, BodiesKnown
  PROVE  /\ StartChunk(w) => job[w].step = "idle" /\ ~task[w].resume
         /\ StartResume(w) => job[w].step = "idle" /\ task[w].resume
         /\ VisitNext(w) => job[w].step = "next"
         /\ PublishChunk(w) => job[w].step = "publish"
         /\ ReleaseDirectory(w) => job[w].step = "release"
         /\ BeginDirectory(w) => job[w].step = "list" /\ job'[w].step = "next"
         /\ OpenFails(w) => job[w].step = "open" /\ job'[w].step \in {"eval", "notify"}
         /\ ListedEmpty(w) => job[w].step = "list" /\ job'[w].step \in {"eval", "notify"}
         /\ FinishLastUnit(w) => job[w].step = "notify"
<1>1. BodyAfter(w, job[w], job'[w])
  BY BodyChanges
<1>2. \A n : CompleteStep(n) \in {"eval", "notify"}
  BY DEF CompleteStep
<1>3. /\ BeginDirectory(w) => job'[w].step = "next"
      /\ OpenFails(w) \/ ListedEmpty(w) => job'[w].step \in {"eval", "notify"}
  BY <1>1, <1>2 DEF BodyAfter
<1> QED
  BY <1>3 DEF StartChunk, StartResume, VisitNext, PublishChunk, ReleaseDirectory, BeginDirectory,
     OpenFails, ListedEmpty, FinishLastUnit, At

NoPlace == <<0, 0, 0>>

(* The places a step of w's body takes nodes from. *)
Leaves(w, p, j, y) ==
  \/ (StartChunk(w) \/ StartResume(w)) /\ p = w /\ j = 0
  \/ VisitNext(w) /\ p = w /\ j = -4 /\ y = <<Len(job[w].frames), Len(Head(job[w].frames).nodes), 0>>
  \/ PublishChunk(w) /\ p = w /\ j = -4
       /\ \E l : y = <<Len(job[w].frames), Len(Head(job[w].frames).chunks), l>>
  \/ (ReleaseDirectory(w) \/ BeginDirectory(w) \/ OpenFails(w) \/ ListedEmpty(w)) /\ p = w /\ j = -2
  \/ FinishLastUnit(w) /\ p = job[w].notify /\ j = -3

(* Node n goes from (p, j, y), where it was to be reported to u and was an   *)
(* r node, to (q, i, x), where it is an s node that is to be reported to t.  *)
Goes(w, n, p, j, y, u, r, q, i, x, t, s) ==
  \/ /\ StartChunk(w) /\ p = w /\ j = 0 /\ q = w /\ i = -4 /\ r = "new" /\ s = "new"
     /\ \E k : y = <<0, k, 0>> /\ x = <<1, k, 0>>
     /\ u = task[w].barrier
     /\ t = IF NeedsBatch(task[w].nodes, u) THEN nextBarrier ELSE u
  \/ /\ StartResume(w) /\ p = w /\ j = 0 /\ y = <<0, 1, 0>> /\ q = w /\ i = -2 /\ x = NoPlace
     /\ r = "ready" /\ s = "ready" /\ t = u
  \/ /\ VisitNext(w) /\ p = w /\ j = -4 /\ y = <<Len(job[w].frames), Len(Head(job[w].frames).nodes), 0>>
     /\ q = w /\ i = -2 /\ x = NoPlace /\ r = "new" /\ t = u
     /\ Visit(n) # "error" /\ s = IF Visit(n) = "list" THEN "listed" ELSE "ready"
  \/ /\ PublishChunk(w) /\ p = w /\ j = -4 /\ q = w /\ i = -1 /\ r = "new" /\ s = "new" /\ t = u
     /\ \E l : y = <<Len(job[w].frames), Len(Head(job[w].frames).chunks), l>> /\ x = <<0, l, 0>> /\ l # 0
  \/ /\ ReleaseDirectory(w) /\ p = w /\ j = -2 /\ y = NoPlace /\ q = w /\ i = -1 /\ x = <<0, 1, 0>>
     /\ r = "ready" /\ s = "ready" /\ t = u
  \/ /\ BeginDirectory(w) /\ p = w /\ j = -2 /\ y = NoPlace /\ q = nextBarrier /\ i = -3 /\ x = NoPlace
     /\ n = job[w].at /\ r = "listed" /\ s = "waiting" /\ t = u
  \/ /\ FinishLastUnit(w) /\ p = job[w].notify /\ j = -3 /\ y = NoPlace /\ q = w /\ i = -2 /\ x = NoPlace
     /\ n = barriers[p].entry /\ r = "waiting" /\ s = "ready" /\ t = u
  \/ /\ OpenFails(w) \/ ListedEmpty(w)
     /\ p = w /\ j = -2 /\ y = NoPlace /\ q = w /\ i = -2 /\ x = NoPlace
     /\ n = job[w].at /\ r = "listed" /\ s = "ready" /\ t = u

(* A node stays where it was, or goes. *)
Moves(w, n, p, j, y, u, r, q, i, x, t, s) ==
  \/ p = q /\ j = i /\ y = x /\ u = t /\ r = s /\ ~Leaves(w, p, j, y)
  \/ Goes(w, n, p, j, y, u, r, q, i, x, t, s)

(* Where it was. *)
ComesFrom(w, q, i, x, n, t, s) ==
  \E p, j, y, u, r : Held(p, j, y, n, u, r) /\ Moves(w, n, p, j, y, u, r, q, i, x, t, s)

(* The children of a directory that was split are new. *)
Begins(w, q, i, x, n, t, s) ==
  /\ BeginDirectory(w) /\ q = w /\ i = -4 /\ s = "new"
  /\ \E h, k, l : x = <<h, k, l>> /\ Begun(job[w], nextBarrier, n, t, h, k, l)

LEMMA GoesLeaves ==
  ASSUME NEW w, NEW n, NEW p, NEW j, NEW y, NEW u, NEW r, NEW q, NEW i, NEW x, NEW t, NEW s,
         Goes(w, n, p, j, y, u, r, q, i, x, t, s)
  PROVE  Leaves(w, p, j, y)
BY DEF Goes, Leaves

(* From one place a node goes to one place. *)
LEMMA GoesToOnePlace ==
  ASSUME NEW w \in Worker, TaskStep(w), EngineInv, BodiesKnown,
         NEW n, NEW p, NEW j, NEW y, NEW u, NEW r, NEW q1, NEW i1, NEW x1, NEW t1, NEW s1,
         NEW v, NEW r2, NEW q2, NEW i2, NEW x2, NEW t2, NEW s2,
         Moves(w, n, p, j, y, u, r, q1, i1, x1, t1, s1),
         Moves(w, n, p, j, y, v, r2, q2, i2, x2, t2, s2)
  PROVE  q1 = q2 /\ i1 = i2 /\ x1 = x2
<1>1. CASE ~Leaves(w, p, j, y)
  BY <1>1, GoesLeaves DEF Moves
<1>2. CASE Leaves(w, p, j, y)
  <2>1. /\ Goes(w, n, p, j, y, u, r, q1, i1, x1, t1, s1)
        /\ Goes(w, n, p, j, y, v, r2, q2, i2, x2, t2, s2)
    BY <1>2 DEF Moves
  <2>2. PICK st, st2 : st = job[w].step /\ st2 = job'[w].step
    OBVIOUS
  <2>k. /\ StartChunk(w) => st = "idle" /\ ~task[w].resume
        /\ StartResume(w) => st = "idle" /\ task[w].resume
        /\ VisitNext(w) => st = "next"
        /\ PublishChunk(w) => st = "publish"
        /\ ReleaseDirectory(w) => st = "release"
        /\ BeginDirectory(w) => st = "list" /\ st2 = "next"
        /\ OpenFails(w) => st = "open"
        /\ ListedEmpty(w) => st = "list" /\ st2 \in {"eval", "notify"}
        /\ FinishLastUnit(w) => st = "notify"
    BY <2>2, ActionKinds
  <2>3. CASE StartChunk(w)
    <3>1. \E k : y = <<0, k, 0>> /\ x1 = <<1, k, 0>> /\ q1 = w /\ i1 = -4
      BY <2>1, <2>k, <2>3 DEF Goes
    <3>2. \E k : y = <<0, k, 0>> /\ x2 = <<1, k, 0>> /\ q2 = w /\ i2 = -4
      BY <2>1, <2>k, <2>3 DEF Goes
    <3> QED
      BY <3>1, <3>2
  <2>4. CASE PublishChunk(w)
    <3>1. \E l : y = <<Len(job[w].frames), Len(Head(job[w].frames).chunks), l>> /\ x1 = <<0, l, 0>>
                 /\ q1 = w /\ i1 = -1
      BY <2>1, <2>k, <2>4 DEF Goes
    <3>2. \E l : y = <<Len(job[w].frames), Len(Head(job[w].frames).chunks), l>> /\ x2 = <<0, l, 0>>
                 /\ q2 = w /\ i2 = -1
      BY <2>1, <2>k, <2>4 DEF Goes
    <3> QED
      BY <3>1, <3>2
  <2>5. CASE ~StartChunk(w) /\ ~PublishChunk(w)
    <3>1. /\ StartResume(w) => q1 = w /\ i1 = -2 /\ x1 = NoPlace
          /\ VisitNext(w) => q1 = w /\ i1 = -2 /\ x1 = NoPlace
          /\ ReleaseDirectory(w) => q1 = w /\ i1 = -1 /\ x1 = <<0, 1, 0>>
          /\ BeginDirectory(w) => q1 = nextBarrier /\ i1 = -3 /\ x1 = NoPlace
          /\ FinishLastUnit(w) \/ OpenFails(w) \/ ListedEmpty(w) => q1 = w /\ i1 = -2 /\ x1 = NoPlace
          /\ StartResume(w) \/ VisitNext(w) \/ ReleaseDirectory(w) \/ BeginDirectory(w)
             \/ FinishLastUnit(w) \/ OpenFails(w) \/ ListedEmpty(w)
      BY <2>1, <2>k, <2>5 DEF Goes
    <3>2. /\ StartResume(w) => q2 = w /\ i2 = -2 /\ x2 = NoPlace
          /\ VisitNext(w) => q2 = w /\ i2 = -2 /\ x2 = NoPlace
          /\ ReleaseDirectory(w) => q2 = w /\ i2 = -1 /\ x2 = <<0, 1, 0>>
          /\ BeginDirectory(w) => q2 = nextBarrier /\ i2 = -3 /\ x2 = NoPlace
          /\ FinishLastUnit(w) \/ OpenFails(w) \/ ListedEmpty(w) => q2 = w /\ i2 = -2 /\ x2 = NoPlace
      BY <2>1, <2>k, <2>5 DEF Goes
    <3> QED
      BY <3>1, <3>2
  <2> QED
    BY <2>3, <2>4, <2>5
<1> QED
  BY <1>1, <1>2

(* A task after the step was one before it, or is the one w publishes. *)
LEMMA TaskComesFrom ==
  ASSUME EngineInv, EngineInv', BodiesKnown, NEW w \in Worker, TaskStep(w),
         NEW q, NEW i, NEW x, NEW n, NEW t, NEW s, TaskHeld(q, i, x, n, t, s)'
  PROVE  ComesFrom(w, q, i, x, n, t, s)
<1>1. PICK u, k : WaitsAt(u, q, i)' /\ InTask(u, n, t, s, k) /\ x = <<0, k, 0>>
  BY DEF TaskHeld, InTask
<1>2. CASE WaitsAt(u, q, i) /\ ~(q = w /\ i = 0)
  <2>1. Held(q, i, x, n, t, s)
    BY <1>1, <1>2 DEF TaskHeld, Held
  <2>2. i # -2 /\ i # -3 /\ i # -4
    <3>1. Len(injector) \in Nat /\ \A v \in Worker : Len(deque[v]) \in Nat
      BY SchedulerTypes DEF S!TypeOK, Worker
    <3> QED
      BY <1>2, <3>1 DEF WaitsAt, SP!TaskAt, SP!Worker, S!Worker, Worker
  <2>3. ~Leaves(w, q, i, x)
    BY <1>2, <2>2 DEF Leaves
  <2> QED
    BY <2>1, <2>3 DEF ComesFrom, Moves
<1>3. CASE q = w /\ i = -1 /\ Publishes(w, u)
  <2>1. PICK j : j = job[w]
    OBVIOUS
  <2>2. j \in WalkJob /\ j.frames \in Seq(WalkFrame) /\ AtNode(j)
    BY ZenonT(120), <2>1 DEF EngineInv, JobsFit, WalkJob
  <2>3. CASE PublishChunk(w) /\ u = ChunkTask(Head(Head(j.frames).chunks), Head(j.frames).barrier)
    <3>1. j.frames # <<>> /\ Head(j.frames).kind = "dir" /\ Head(j.frames).chunks # <<>>
      BY <2>1, <2>2, <2>3 DEF PublishChunk, At, AtNode
    <3>2. t = Head(j.frames).barrier /\ s = "new" /\ AtEnd(Head(Head(j.frames).chunks), n, k)
      BY <1>1, <2>3 DEF InTask, ChunkTask
    <3>3. PICK gs : ChunkLess(j.frames, gs)
      BY DEF ChunkLess
    <3>4. InCalls(j.frames, n, t, Len(j.frames), Len(Head(j.frames).chunks), k)
      BY SMTT(120), <2>2, <3>1, <3>2, <3>3, ChunkTaken
    <3>5. PICK y : y = <<Len(j.frames), Len(Head(j.frames).chunks), k>>
      OBVIOUS
    <3>6. CallHeld(w, -4, y, n, t, "new")
      BY <2>1, <3>4, <3>5 DEF CallHeld
    <3>7. k # 0
      BY SMTT(120), <3>2 DEF AtEnd
    <3>8. Goes(w, n, w, -4, y, t, "new", q, i, x, t, s)
      BY <1>1, <1>3, <2>1, <2>3, <3>2, <3>5, <3>7 DEF Goes
    <3> QED
      BY <3>6, <3>8 DEF Held, ComesFrom, Moves
  <2>4. CASE ReleaseDirectory(w) /\ u = ResumeTask(j.at, j.notify)
    <3>1. j.step = "release"
      BY <2>1, <2>4 DEF ReleaseDirectory, At
    <3>2. t = j.notify /\ s = "ready" /\ k = 1 /\ n = j.at
      BY <1>1, <2>4 DEF InTask, ResumeTask
    <3>3. BusyHeld(w, -2, NoPlace, n, t, "ready")
      BY <2>1, <3>1, <3>2 DEF BusyHeld, BusyWith, NoPlace
    <3>4. Goes(w, n, w, -2, NoPlace, t, "ready", q, i, x, t, s)
      BY <1>1, <1>3, <2>4, <3>2 DEF Goes
    <3> QED
      BY <3>3, <3>4 DEF Held, ComesFrom, Moves
  <2> QED
    BY <1>3, <2>1, <2>3, <2>4 DEF Publishes
<1> QED
  BY <1>1, <1>2, <1>3, WaitsAfter

(* So for what a worker is busy with... *)
LEMMA BusyComesFrom ==
  ASSUME EngineInv, BodiesKnown, NEW w \in Worker, TaskStep(w),
         NEW q, NEW i, NEW x, NEW n, NEW t, NEW s, BusyHeld(q, i, x, n, t, s)'
  PROVE  ComesFrom(w, q, i, x, n, t, s)
<1>0. q \in Worker /\ i = -2 /\ x = NoPlace /\ BusyWith(job'[q], n, t, s)
  BY DEF BusyHeld, BusyWith, NoPlace
<1>1. CASE q # w
  <2>1. job'[q] = job[q]
    BY <1>0, <1>1, OnlyOwnJob DEF EngineInv
  <2>2. Held(q, i, x, n, t, s)
    BY <1>0, <2>1 DEF BusyHeld, Held, NoPlace
  <2>3. ~Leaves(w, q, i, x)
    BY <1>0, <1>1 DEF Leaves
  <2> QED
    BY <2>2, <2>3 DEF ComesFrom, Moves
<1>2. CASE q = w
  <2>1. PICK j, k : j = job[w] /\ k = job'[w]
    OBVIOUS
  <2>2. j \in WalkJob /\ j.frames \in Seq(WalkFrame) /\ AtNode(j) /\ BodyAfter(w, j, k)
    BY <2>1, BodyChanges DEF EngineInv, JobsFit, WalkJob
  <2>3. /\ k.step \in {"open", "list", "eval", "release"} /\ n = k.at /\ t = k.notify
        /\ s = IF k.step \in {"open", "list"} THEN "listed" ELSE "ready"
    BY <1>0, <1>2, <2>1 DEF BusyWith
  <2>4. NoJob.step = "idle" /\ \A m : CompleteStep(m) \in {"eval", "notify"}
    BY DEF NoJob, CompleteStep
  <2>5. CASE StartResume(w)
    <3>1. k.at = task[w].nodes[1] /\ k.notify = task[w].barrier /\ k.step \in {"eval", "notify"}
      BY <2>2, <2>4, <2>5 DEF BodyAfter
    <3>2. s = "ready"
      BY <2>3, <3>1
    <3>3. WaitsAt(task[w], w, 0) /\ InTask(task[w], n, t, "ready", 1)
      BY <2>3, <2>5, <3>1 DEF StartResume, At, WaitsAt, SP!TaskAt, SP!InHand, InTask, Worker, S!Worker, SP!Worker
    <3>4. Held(w, 0, <<0, 1, 0>>, n, t, "ready")
      BY <3>3 DEF TaskHeld, Held
    <3>5. Goes(w, n, w, 0, <<0, 1, 0>>, t, "ready", q, i, x, t, s)
      BY <1>0, <1>2, <2>5, <3>2 DEF Goes
    <3> QED
      BY <3>4, <3>5 DEF ComesFrom, Moves
  <2>6. CASE VisitNext(w)
    <3>1. /\ j.frames # <<>> /\ Head(j.frames).kind = "batch" /\ Head(j.frames).nodes # <<>>
          /\ k.at = Head(Head(j.frames).nodes) /\ k.notify = Head(j.frames).barrier
          /\ Visit(k.at) = "error" => k.step = "notify"
          /\ Visit(k.at) = "complete" => k.step \in {"eval", "notify"}
          /\ Visit(k.at) = "list" => k.step = "open"
      BY <2>2, <2>4, <2>6 DEF BodyAfter
    <3>2. PICK gs : NodeLess(j.frames, gs)
      BY DEF NodeLess
    <3>3. InCalls(j.frames, n, t, Len(j.frames), Len(Head(j.frames).nodes), 0)
      BY <2>2, <2>3, <3>1, <3>2, NodeTaken
    <3>4. PICK y : y = <<Len(j.frames), Len(Head(j.frames).nodes), 0>>
      OBVIOUS
    <3>5. Held(w, -4, y, n, t, "new")
      BY <2>1, <3>3, <3>4 DEF CallHeld, Held
    <3>6. Visit(n) # "error" /\ s = IF Visit(n) = "list" THEN "listed" ELSE "ready"
      BY <2>3, <3>1, VisitIs
    <3>7. Goes(w, n, w, -4, y, t, "new", q, i, x, t, s)
      BY <1>0, <1>2, <2>1, <2>6, <3>4, <3>6 DEF Goes
    <3> QED
      BY <3>5, <3>7 DEF ComesFrom, Moves
  <2>7. CASE OpenDirectory(w) \/ ListBadItem(w) \/ ListChild(w)
    <3>1. /\ j.step \in {"open", "list"} /\ k.step = "list" /\ SameNode(j, k)
      BY <2>2, <2>7 DEF BodyAfter
    <3>2. BusyWith(j, n, t, s)
      BY <2>3, <3>1 DEF BusyWith, SameNode
    <3>3. Held(q, i, x, n, t, s)
      BY <1>0, <1>2, <2>1, <3>2 DEF BusyHeld, Held, NoPlace
    <3>4. ~Leaves(w, q, i, x)
      <4>1. ~ReleaseDirectory(w) /\ ~BeginDirectory(w) /\ ~OpenFails(w) /\ ~ListedEmpty(w)
        BY <2>1, <2>7, <3>1, ActionKinds
      <4> QED
        BY <1>0, <4>1 DEF Leaves
    <3> QED
      BY <3>3, <3>4 DEF ComesFrom, Moves
  <2>8. CASE OpenFails(w) \/ ListedEmpty(w)
    <3>1. /\ j.step \in {"open", "list"} /\ k.step \in {"eval", "notify"} /\ SameNode(j, k)
      BY <2>2, <2>4, <2>8 DEF BodyAfter
    <3>2. s = "ready" /\ n = j.at /\ t = j.notify
      BY <2>3, <3>1 DEF SameNode
    <3>3. Held(w, -2, NoPlace, n, t, "listed")
      BY <2>1, <3>1, <3>2 DEF BusyHeld, BusyWith, Held, NoPlace
    <3>4. Goes(w, n, w, -2, NoPlace, t, "listed", q, i, x, t, s)
      BY <1>0, <1>2, <2>1, <2>8, <3>2 DEF Goes
    <3> QED
      BY <3>3, <3>4 DEF ComesFrom, Moves
  <2>9. CASE FinishLastUnit(w)
    <3>1. /\ j.step = "notify" /\ k.notify = barriers[j.notify].parent
          /\ IF barriers[j.notify].entry = NoNode THEN k.step = "notify"
             ELSE k.step = "release" /\ k.at = barriers[j.notify].entry
      BY <2>2, <2>9 DEF BodyAfter
    <3>2. /\ barriers[j.notify].entry # NoNode /\ s = "ready"
          /\ n = barriers[j.notify].entry /\ t = barriers[j.notify].parent
      BY <2>3, <3>1
    <3>3. j.notify \in DOMAIN barriers
      BY <2>1, <2>9 DEF FinishLastUnit
    <3>4. Held(j.notify, -3, NoPlace, n, t, "waiting")
      BY <3>2, <3>3 DEF RecordHeld, Held, NoPlace
    <3>5. Goes(w, n, j.notify, -3, NoPlace, t, "waiting", q, i, x, t, s)
      BY <1>0, <1>2, <2>1, <2>9, <3>2 DEF Goes
    <3> QED
      BY <3>4, <3>5 DEF ComesFrom, Moves
  <2>10. CASE ~(\/ StartResume(w) \/ VisitNext(w) \/ OpenDirectory(w) \/ ListBadItem(w) \/ ListChild(w)
                \/ OpenFails(w) \/ ListedEmpty(w) \/ FinishLastUnit(w))
    <3>1. k.step \in {"next", "idle", "publish", "notify", "leave"}
      <4>1. \/ StartChunk(w) \/ EndTask(w) \/ EndBatch(w) \/ AbandonListing(w) \/ BeginDirectory(w)
            \/ LeaveDirectory(w) \/ PublishRest(w) \/ PublishChunk(w) \/ PublishDone(w)
            \/ EvalOk(w) \/ EvalQuits(w) \/ LeaveAfterQuit(w) \/ EvalFails(w)
            \/ NotifyEnds(w) \/ FinishUnit(w) \/ ReleaseDirectory(w)
        BY <2>10 DEF TaskStep
      <4> QED
        BY <2>2, <2>4, <4>1 DEF BodyAfter
    <3> QED
      BY <2>3, <3>1
  <2> QED
    BY <2>5, <2>6, <2>7, <2>8, <2>9, <2>10
<1> QED
  BY <1>1, <1>2

(* ... and for the records of the directories that wait. *)
LEMMA RecordComesFrom ==
  ASSUME EngineInv, BodiesKnown, NEW w \in Worker, TaskStep(w),
         NEW q, NEW i, NEW x, NEW n, NEW t, NEW s, RecordHeld(q, i, x, n, t, s)'
  PROVE  ComesFrom(w, q, i, x, n, t, s)
<1>1. CASE RecordHeld(q, i, x, n, t, s) /\ ~(FinishLastUnit(w) /\ q = job[w].notify)
  <2>1. i = -3
    BY <1>1 DEF RecordHeld
  <2>2. ~Leaves(w, q, i, x)
    BY <1>1, <2>1 DEF Leaves
  <2> QED
    BY <1>1, <2>2 DEF Held, ComesFrom, Moves
<1>2. CASE /\ BeginDirectory(w) /\ q = nextBarrier /\ i = -3 /\ x = <<0, 0, 0>>
           /\ n = job[w].at /\ t = job[w].notify /\ s = "waiting"
  <2>1. job[w].step = "list"
    BY <1>2, ActionKinds
  <2>2. Held(w, -2, NoPlace, n, t, "listed")
    BY <1>2, <2>1 DEF BusyHeld, BusyWith, Held, NoPlace
  <2>3. Goes(w, n, w, -2, NoPlace, t, "listed", q, i, x, t, s)
    BY <1>2 DEF Goes, NoPlace
  <2> QED
    BY <2>2, <2>3 DEF ComesFrom, Moves
<1> QED
  BY <1>1, <1>2, RecordsAfter

LEMMA CallComesFrom ==
  ASSUME EngineInv, BodiesKnown, NEW w \in Worker, TaskStep(w),
         NEW q, NEW i, NEW x, NEW n, NEW t, NEW s, CallHeld(q, i, x, n, t, s)'
  PROVE  ComesFrom(w, q, i, x, n, t, s) \/ Begins(w, q, i, x, n, t, s)
<1>1. PICK h, k, l : x = <<h, k, l>> /\ InCalls(job'[q].frames, n, t, h, k, l)
  BY DEF CallHeld, InCalls
<1>0. q \in Worker /\ i = -4 /\ s = "new"
  BY DEF CallHeld
<1>2. CASE q # w
  <2>1. job'[q] = job[q]
    BY <1>0, <1>2, OnlyOwnJob DEF EngineInv
  <2>2. Held(q, i, x, n, t, s)
    BY <1>0, <1>1, <2>1 DEF CallHeld, Held
  <2>3. ~Leaves(w, q, i, x)
    BY <1>0, <1>2 DEF Leaves
  <2> QED
    BY <2>2, <2>3 DEF ComesFrom, Moves
<1>3. CASE q = w
  <2>1. CallsChange(w, n, t, h, k, l)
    BY CallsAfter
  <2>2. CASE InCalls(job[w].frames, n, t, h, k, l) /\ ~TakenNode(w, h, k, l) /\ ~TakenChunk(w, h, k)
    <3>1. Held(q, i, x, n, t, s)
      BY <1>0, <1>1, <1>3, <2>2 DEF CallHeld, Held
    <3>2. ~Leaves(w, q, i, x)
      <4>1. VisitNext(w) => x # <<Len(job[w].frames), Len(Head(job[w].frames).nodes), 0>>
        BY <1>1, <2>2 DEF TakenNode
      <4>2. PublishChunk(w) => \A m : x # <<Len(job[w].frames), Len(Head(job[w].frames).chunks), m>>
        BY <1>1, <2>2 DEF TakenChunk
      <4> QED
        BY <1>0, <4>1, <4>2 DEF Leaves
    <3> QED
      BY <3>1, <3>2 DEF ComesFrom, Moves
  <2>3. CASE StartedNode(w, n, t, h, k, l)
    <3>1. /\ StartChunk(w) /\ h = 1 /\ l = 0 /\ AtEnd(task[w].nodes, n, k)
          /\ t = IF NeedsBatch(task[w].nodes, task[w].barrier) THEN nextBarrier ELSE task[w].barrier
      BY <2>3 DEF StartedNode
    <3>2. PICK u : u = task[w].barrier
      OBVIOUS
    <3>3. WaitsAt(task[w], w, 0) /\ InTask(task[w], n, u, "new", k)
      BY <3>1, <3>2 DEF StartChunk, At, WaitsAt, SP!TaskAt, SP!InHand, InTask, Worker, S!Worker, SP!Worker
    <3>4. Held(w, 0, <<0, k, 0>>, n, u, "new")
      BY <3>3 DEF TaskHeld, Held
    <3>5. Goes(w, n, w, 0, <<0, k, 0>>, u, "new", q, i, x, t, s)
      BY <1>0, <1>1, <1>3, <3>1, <3>2 DEF Goes
    <3> QED
      BY <3>4, <3>5 DEF ComesFrom, Moves
  <2>4. CASE BeginDirectory(w) /\ Begun(job[w], nextBarrier, n, t, h, k, l)
    BY <1>0, <1>1, <1>3, <2>4 DEF Begins
  <2> QED
    BY <1>1, <1>3, <2>1, <2>2, <2>3, <2>4 DEF CallsChange
<1> QED
  BY <1>2, <1>3

(* Where every node comes from. *)
LEMMA TaskOrigins ==
  ASSUME EngineInv, EngineInv', BodiesKnown, NEW w \in Worker, TaskStep(w),
         NEW q, NEW i, NEW x, NEW n, NEW t, NEW s, Held(q, i, x, n, t, s)'
  PROVE  ComesFrom(w, q, i, x, n, t, s) \/ Begins(w, q, i, x, n, t, s)
<1>1. \/ TaskHeld(q, i, x, n, t, s)' \/ BusyHeld(q, i, x, n, t, s)'
      \/ RecordHeld(q, i, x, n, t, s)' \/ CallHeld(q, i, x, n, t, s)'
  BY DEF Held
<1> QED
  BY <1>1, TaskComesFrom, BusyComesFrom, RecordComesFrom, CallComesFrom

-----------------------------------------------------------------------------
(* The loop around the bodies moves tasks, and nothing else                *)

(* Tasks, bodies, records and calls are at different places. *)
LEMMA TaskPlaces ==
  ASSUME S!TypeOK, NEW t, NEW q, NEW i, SP!TaskAt(t, q, i)
  PROVE  i \notin {-2, -3, -4} /\ (i \in {-1, 0} => q \in Worker)
<1>1. /\ Len(injector) \in Nat
      /\ \A u \in Worker : Len(deque[u]) \in Nat
  BY DEF S!TypeOK, Worker
<1>2. SP!Worker = Worker
  BY DEF SP!Worker, S!Worker, Worker
<1> QED
  BY <1>1, <1>2 DEF SP!TaskAt, SP!InHand, SP!Publishing

(* A task that waits after a step of the loop waited before it. *)
LEMMA WaitedBefore ==
  ASSUME EngineInv, EngineInv', BodiesKnown, NEW w \in Worker, LoopStep(w),
         NEW u, NEW r, NEW j, WaitsAt(u, r, j)', NEW q, NEW i, SP!TaskAt(u, q, i),
         i = 0 => q = r /\ j = 0
  PROVE  WaitsAt(u, q, i)
<1>0. /\ pc \in [Worker -> S!Location] /\ S!TypeOK /\ SP!Worker = Worker
  BY SchedulerTypes DEF S!TypeOK, Worker, S!Worker, SP!Worker
<1>1. job' = job
  BY EngineLoopMoves
<1>2. ASSUME i = 0 PROVE pc[q] = "got" \/ At(q, "idle")
  <2>1. q = r /\ j = 0 /\ q \in Worker /\ (pc'[q] = "got" \/ At(q, "idle")')
    BY <1>0, <1>2, TaskPlaces DEF WaitsAt
  <2>2. PICK b \in S!Location : pc' = [pc EXCEPT ![w] = b] /\ SP!LoopMove(w, pc[w], b)
    BY EngineLoopMoves
  <2>3. CASE q # w
    <3>1. pc'[q] = pc[q]
      BY <1>0, <2>1, <2>2, <2>3
    <3> QED
      BY <1>1, <2>1, <3>1 DEF At
  <2>4. CASE q = w
    <3>1. pc'[w] = b /\ b \in {"got", "run"}
      BY <1>0, <2>1, <2>2, <2>4 DEF At
    <3>2. pc[w] \in {"got", "run", "count", "push", "quit", "finish"}
      BY <1>0, <1>2, <2>4 DEF SP!TaskAt, SP!InHand, SP!Publishing, Worker, S!Worker
    <3>3. CASE b = "got"
      BY <2>2, <2>4, <3>2, <3>3 DEF SP!LoopMove, SP!Searching
    <3>4. CASE b = "run"
      <4>1. job[w].step = "idle"
        BY <1>1, <2>1, <2>4, <3>1, <3>4 DEF At
      <4>2. pc[w] \notin {"push", "quit"}
        BY <4>1 DEF BodiesKnown
      <4>3. pc[w] \in {"got", "run"}
        BY <2>2, <3>2, <3>4, <4>2 DEF SP!LoopMove, SP!Searching
      <4> QED
        BY <2>4, <4>1, <4>3 DEF At
    <3> QED
      BY <3>1, <3>3, <3>4
  <2> QED
    BY <2>3, <2>4
<1> QED
  BY <1>2 DEF WaitsAt

(* What is not a task stays where it is. *)
LEMMA LoopKeepsBodies ==
  ASSUME EngineInv, NEW w \in Worker, LoopStep(w),
         NEW q, NEW i, NEW x, NEW n, NEW t, NEW s
  PROVE  /\ BusyHeld(q, i, x, n, t, s)' <=> BusyHeld(q, i, x, n, t, s)
         /\ RecordHeld(q, i, x, n, t, s)' <=> RecordHeld(q, i, x, n, t, s)
         /\ CallHeld(q, i, x, n, t, s)' <=> CallHeld(q, i, x, n, t, s)
<1>1. job' = job /\ barriers' = barriers
  BY EngineLoopMoves
<1> QED
  BY <1>1 DEF BusyHeld, RecordHeld, CallHeld

LEMMA HeldAt ==
  ASSUME S!TypeOK, NEW q, NEW i, NEW x, NEW n, NEW t, NEW s
  PROVE  /\ TaskHeld(q, i, x, n, t, s) => i \notin {-2, -3, -4}
         /\ BusyHeld(q, i, x, n, t, s) \/ RecordHeld(q, i, x, n, t, s) \/ CallHeld(q, i, x, n, t, s)
              => i \in {-2, -3, -4}
BY TaskPlaces DEF TaskHeld, WaitsAt, BusyHeld, RecordHeld, CallHeld

(* Two places after a step of the loop are two places before it. *)
LEMMA LoopOrigins ==
  ASSUME EngineInv, EngineInv', BodiesKnown, NEW w \in Worker, LoopStep(w), NEW n,
         NEW q1, NEW i1, NEW x1, NEW t1, NEW s1, Held(q1, i1, x1, n, t1, s1)',
         NEW q2, NEW i2, NEW x2, NEW t2, NEW s2, Held(q2, i2, x2, n, t2, s2)'
  PROVE  \E p1, j1, p2, j2 :
            /\ Held(p1, j1, x1, n, t1, s1) /\ Held(p2, j2, x2, n, t2, s2)
            /\ p1 = p2 /\ j1 = j2 => q1 = q2 /\ i1 = i2
<1>0. /\ S!TypeOK /\ SP!TypeOK /\ SP!WorkerLoop(w) /\ SP!Worker = Worker
  BY SchedulerTypes, SameLoop DEF LoopStep, Worker, S!Worker, SP!Worker
<1>a. S!TypeOK'
  BY SchedulerTypes, PTL
<1>1. ASSUME NEW u, NEW q, NEW i, NEW x, NEW t, NEW s, NEW r, NEW j, WaitsAt(u, r, j)',
             SP!TaskAt(u, q, i), i = 0 => q = r /\ j = 0,
             NEW k, InTask(u, n, t, s, k), x = <<0, k, 0>>
      PROVE  Held(q, i, x, n, t, s) /\ i \notin {-2, -3, -4}
  <2>1. WaitsAt(u, q, i)
    BY <1>1, WaitedBefore
  <2> QED
    BY <1>0, <1>1, <2>1, TaskPlaces DEF Held, TaskHeld
<1>2. ASSUME NEW q, NEW i, NEW x, NEW t, NEW s, Held(q, i, x, n, t, s)', ~TaskHeld(q, i, x, n, t, s)'
      PROVE  Held(q, i, x, n, t, s) /\ i \in {-2, -3, -4}
  <2>1. BusyHeld(q, i, x, n, t, s) \/ RecordHeld(q, i, x, n, t, s) \/ CallHeld(q, i, x, n, t, s)
    BY <1>2, LoopKeepsBodies DEF Held
  <2> QED
    BY <1>0, <2>1, HeldAt DEF Held
<1>3. ASSUME NEW q, NEW i, NEW x, NEW t, NEW s, TaskHeld(q, i, x, n, t, s)'
      PROVE  \E p, j : Held(p, j, x, n, t, s) /\ j \notin {-2, -3, -4}
  <2>1. PICK u, k : WaitsAt(u, q, i)' /\ InTask(u, n, t, s, k) /\ x = <<0, k, 0>>
    BY <1>3 DEF TaskHeld, InTask
  <2>2. SP!TaskAt(u, q, i)'
    BY <2>1 DEF WaitsAt
  <2>3. PICK p, j : SP!TaskAt(u, p, j) /\ (j = 0 => p = q /\ i = 0)
    BY <1>0, <2>2, SP!TasksComeFrom, RootsAreTasks
  <2> QED
    BY <1>1, <2>1, <2>3
<1>4. CASE TaskHeld(q1, i1, x1, n, t1, s1)' /\ TaskHeld(q2, i2, x2, n, t2, s2)'
  <2>1. PICK u1, k1 : WaitsAt(u1, q1, i1)' /\ InTask(u1, n, t1, s1, k1) /\ x1 = <<0, k1, 0>>
    BY <1>4 DEF TaskHeld, InTask
  <2>2. PICK u2, k2 : WaitsAt(u2, q2, i2)' /\ InTask(u2, n, t2, s2, k2) /\ x2 = <<0, k2, 0>>
    BY <1>4 DEF TaskHeld, InTask
  <2>3. SP!TaskAt(u1, q1, i1)' /\ SP!TaskAt(u2, q2, i2)'
    BY <2>1, <2>2 DEF WaitsAt
  <2>4. PICK p1, j1, p2, j2 :
           /\ SP!TaskAt(u1, p1, j1) /\ (j1 = 0 => p1 = q1 /\ i1 = 0)
           /\ SP!TaskAt(u2, p2, j2) /\ (j2 = 0 => p2 = q2 /\ i2 = 0)
           /\ p1 = p2 /\ j1 = j2 => q1 = q2 /\ i1 = i2
    BY <1>0, <2>3, SP!TasksComeFrom, RootsAreTasks
  <2>5. Held(p1, j1, x1, n, t1, s1) /\ Held(p2, j2, x2, n, t2, s2)
    BY <1>1, <2>1, <2>2, <2>4
  <2> QED
    BY <2>4, <2>5
<1>5. CASE TaskHeld(q1, i1, x1, n, t1, s1)' /\ ~TaskHeld(q2, i2, x2, n, t2, s2)'
  BY <1>2, <1>3, <1>5
<1>6. CASE ~TaskHeld(q1, i1, x1, n, t1, s1)' /\ TaskHeld(q2, i2, x2, n, t2, s2)'
  BY <1>2, <1>3, <1>6
<1>7. CASE ~TaskHeld(q1, i1, x1, n, t1, s1)' /\ ~TaskHeld(q2, i2, x2, n, t2, s2)'
  BY <1>2, <1>7
<1> QED
  BY <1>4, <1>5, <1>6, <1>7

-----------------------------------------------------------------------------
(* What is dropped is missed                                               *)

(* Something that was on its way to b no longer is, and b still waits. *)
Loses(b) == UnitsOf(b)' < DueIn(barriers, b)'

LEMMA AccountLoses ==
  ASSUME NEW b, NEW w \in Worker, TaskStep(w), EngineInv, EngineInv', BodiesKnown, Balanced(b),
         NEW B, NEW T, NEW H, NEW D, Amounts(b, B, T, H, D),
         NEW H2 \in Nat, AmountsAfter(b, B, T, H2, D),
         H2 + Bit(Has(w, b)) < H + Bit(Had(w, b))
  PROVE  Loses(b)
<1>1. PICK X, Y, x, y : X = Cardinality(BusyFor(b)) /\ Y = Cardinality(BusyFor(b)')
                        /\ x = Bit(Had(w, b)) /\ y = Bit(Has(w, b))
  OBVIOUS
<1>2. X \in Nat /\ Y \in Nat /\ Y + x = X + y /\ x \in Nat /\ y \in Nat
  <2>1. x \in Nat /\ y \in Nat
    BY <1>1 DEF Bit
  <2> QED
    BY <1>1, <2>1, TaskBusy DEF Had, Has
<1>3. UnitsOf(b) = (B + T + H) + X /\ UnitsOf(b)' = (B + T + H2) + Y
  BY <1>1, StoredIsNext DEF Stock, Amounts, AmountsAfter
<1>4. DueIn(barriers, b) = D /\ DueIn(barriers, b)' = D
  BY DEF Amounts, AmountsAfter, DueIn
<1>5. B \in Nat /\ T \in Nat /\ H \in Nat /\ D \in Nat
  BY DEF Amounts
<1>6. (B + T + H) + X <= D
  BY <1>3, <1>4 DEF Balanced
<1>7. (B + T + H2) + Y < D
  BY <1>1, <1>2, <1>5, <1>6
<1> QED
  BY <1>3, <1>4, <1>7 DEF Loses

(* A node or a chunk of a call is one of the units the call holds. *)
LEMMA PlaceOfCall ==
  ASSUME NEW fs \in Seq(WalkFrame), NEW n, NEW t, NEW h, NEW k, NEW l, InCalls(fs, n, t, h, k, l)
  PROVE  PlaceIn(fs, t, h, k)
<1>1. PICK f : AtEnd(fs, f, h) /\ f.barrier = t /\ InFrame(f, n, k, l)
  BY DEF InCalls
<1>2. f \in WalkFrame
  BY <1>1, EndIs
<1>3. Len(f.nodes) \in Nat /\ Len(f.chunks) \in Nat
  BY <1>2, FrameAmounts
<1>4. k \in 1..Len(f.nodes) \/ k \in 1..Len(f.chunks)
  BY <1>1 DEF InFrame, AtEnd
<1>5. k \in 1..Amount(f)
  <2>1. PICK a \in Nat, c \in Nat : a = Len(f.nodes) /\ c = Len(f.chunks)
    BY <1>3
  <2>2. k \in 1..a \/ k \in 1..c
    BY <1>4, <2>1
  <2>3. k \in Int /\ k >= 1 /\ (k <= a \/ k <= c)
    BY <2>2
  <2>4. k \in 1..(a + c)
    BY <2>3
  <2> QED
    BY <2>1, <2>4 DEF Amount
<1> QED
  BY <1>1, <1>5 DEF PlaceIn, AtEnd

(* The steps that may drop what a call holds. *)
LEMMA CallDropped ==
  ASSUME NEW b \in Nat \ {0}, NEW w \in Worker, EngineInv, EngineInv', BodiesKnown, Balanced(b),
         \/ EndBatch(w) \/ LeaveDirectory(w) \/ LeaveAfterQuit(w) \/ EvalFails(w)
         \/ ~accept /\ PublishChunk(w),
         NEW n, NEW h, NEW k, NEW l,
         InCalls(job[w].frames, n, b, h, k, l), ~InCalls(job'[w].frames, n, b, h, k, l)
  PROVE  Loses(b)
<1>0. TaskStep(w)
  BY DEF TaskStep
<1>1. PICK B, T, H, D : Amounts(b, B, T, H, D)
  BY AmountsAre DEF Balanced
<1>2. PICK J, K, s, r : J = job /\ K = job' /\ s = job[w].frames /\ r = job'[w].frames
  OBVIOUS
<1>a. /\ job \in [Worker -> WalkJob] /\ job[w] \in WalkJob /\ AtNode(job[w])
      /\ job' \in [Worker -> WalkJob] /\ BodyAfter(w, job[w], job'[w])
      /\ s \in Seq(WalkFrame) /\ r \in Seq(WalkFrame)
  <2>1. JobsFit /\ JobsFit'
    BY DEF EngineInv
  <2>2. job \in [Worker -> WalkJob] /\ job' \in [Worker -> WalkJob] /\ AtNode(job[w])
    BY <2>1 DEF JobsFit
  <2>3. job[w] \in WalkJob /\ job'[w] \in WalkJob
    BY <2>2
  <2> QED
    BY <1>2, <2>2, <2>3, <1>0, BodyChanges DEF WalkJob
<1>b. s # <<>>
  BY <1>2, <1>a, CallIs
<1>3. \A c, d : PlaceIn(r, b, c, d) => PlaceIn(s, b, c, d) /\ ~(c = h /\ d = k)
  <2> SUFFICES ASSUME NEW c, NEW d, PlaceIn(r, b, c, d) PROVE PlaceIn(s, b, c, d) /\ ~(c = h /\ d = k)
    OBVIOUS
  <2>1. CASE EndBatch(w) \/ LeaveDirectory(w)
    <3>1. r = Tail(s)
      BY <1>2, <1>a, <2>1 DEF BodyAfter
    <3>2. s = <<Head(s)>> \o Tail(s) /\ Head(s) \in WalkFrame /\ Tail(s) \in Seq(WalkFrame)
          /\ Len(Tail(s)) + 1 = Len(s)
      BY <1>a, <1>b, HeadAndTail
    <3>3. PlaceIn(<<Head(s)>> \o Tail(s), b, c, d)
      BY <2>1, <3>1, <3>2, CallPlaces
    <3>4. h = Len(s)
      BY <1>2, <1>a, <1>b, <3>1, CallsTail
    <3>5. c # Len(s)
      <4>1. c \in 1..Len(r) /\ Len(r) \in Nat /\ Len(r) + 1 = Len(s)
        BY <1>a, <3>1, <3>2, LenProperties DEF PlaceIn
      <4> QED
        BY <4>1
    <3> QED
      BY <3>2, <3>3, <3>4, <3>5
  <2>2. CASE LeaveAfterQuit(w) \/ EvalFails(w)
    <3>1. r = <<>>
      BY <1>2, <1>a, <2>2 DEF BodyAfter, NoJob
    <3> QED
      BY <3>1 DEF PlaceIn
  <2>3. CASE PublishChunk(w)
    <3>1. /\ Head(s).chunks # <<>> /\ Head(s).kind = "dir"
          /\ r = <<[Head(s) EXCEPT !.chunks = Tail(@)]>> \o Tail(s)
      BY <1>2, <1>a, <2>3 DEF BodyAfter, AtNode
    <3>2. s = <<Head(s)>> \o Tail(s) /\ Head(s) \in WalkFrame /\ Tail(s) \in Seq(WalkFrame)
          /\ Len(Tail(s)) + 1 = Len(s)
      BY <1>a, <1>b, HeadAndTail
    <3>3. PICK f, g : f = Head(s) /\ g = [f EXCEPT !.chunks = Tail(@)]
      OBVIOUS
    <3>4. /\ f.nodes = <<>> /\ f.chunks \in Seq(Chunk) /\ f.chunks # <<>>
          /\ Tail(f.chunks) \in Seq(Chunk) /\ Len(Tail(f.chunks)) + 1 = Len(f.chunks)
      <4>1. f.nodes = <<>> /\ f.chunks \in Seq(Chunk) /\ f.chunks # <<>>
        BY <3>1, <3>2, <3>3, FrameParts
      <4> QED
        BY <4>1, HeadAndTail
    <3>5. g \in WalkFrame /\ g.barrier = f.barrier /\ g.nodes = f.nodes /\ g.chunks = Tail(f.chunks)
      BY <3>1, <3>2, <3>3, <3>4 DEF WalkFrame
    <3>6. Len(Tail(f.chunks)) \in Nat /\ Amount(f) = Len(f.chunks) /\ Amount(g) = Len(Tail(f.chunks))
      BY <3>4, <3>5, LenProperties DEF Amount
    <3>7. \/ PlaceIn(Tail(s), b, c, d)
          \/ c = Len(Tail(s)) + 1 /\ g.barrier = b /\ d \in 1..Amount(g)
      <4>1. PlaceIn(<<g>> \o Tail(s), b, c, d)
        BY <3>1, <3>3
      <4> QED
        BY <3>2, <3>5, <4>1, CallPlaces
    <3>8. PlaceIn(<<f>> \o Tail(s), b, c, d)
      <4>1. d \in 1..Amount(g) => d \in 1..Amount(f)
        BY <3>4, <3>6
      <4> QED
        BY <3>2, <3>3, <3>5, <3>7, <4>1, CallPlaces
    <3>9. h = Len(s) /\ k = Len(f.chunks)
      <4>1. ChunkLess(s, r)
        BY <3>1 DEF ChunkLess
      <4>2. InCalls(s, n, b, h, k, l) /\ ~InCalls(r, n, b, h, k, l)
        BY <1>2
      <4> QED
        BY <1>a, <1>b, <3>1, <3>3, <4>1, <4>2, ChunkTaken
    <3>10. ~(c = h /\ d = k)
      <4> SUFFICES ASSUME c = h, d = k PROVE FALSE
        OBVIOUS
      <4>1. ~PlaceIn(Tail(s), b, c, d)
        <5>1. c = Len(Tail(s)) + 1 /\ Len(Tail(s)) \in Nat
          BY <3>2, <3>9, LenProperties
        <5> QED
          BY <5>1 DEF PlaceIn
      <4>2. d \notin 1..Amount(g)
        BY <3>4, <3>6, <3>9
      <4> QED
        BY <3>7, <4>1, <4>2
    <3> QED
      BY <3>2, <3>3, <3>8, <3>10
  <2> QED
    BY <2>1, <2>2, <2>3
<1>4. PlaceIn(s, b, h, k)
  BY <1>2, <1>a, PlaceOfCall
<1>5. HeldIn(K, b) \subseteq HeldIn(J, b) \ {<<w, h, k>>} /\ <<w, h, k>> \in HeldIn(J, b)
  <2>1. \A v \in Worker \ {w} : K[v].frames = J[v].frames
    BY <1>0, <1>2, OnlyOwnJob DEF EngineInv
  <2>2. ASSUME NEW x, x \in HeldIn(K, b) PROVE x \in HeldIn(J, b) \ {<<w, h, k>>}
    <3>1. PICK v, c, d : x = <<v, c, d>> /\ v \in Worker /\ PlaceIn(K[v].frames, b, c, d)
      BY <2>2, HeldPlaces
    <3>2. PlaceIn(J[v].frames, b, c, d) /\ ~(v = w /\ c = h /\ d = k)
      BY <1>2, <1>3, <2>1, <3>1
    <3>3. x \in HeldIn(J, b)
      BY <3>1, <3>2, HeldPlaces
    <3> QED
      BY <3>1, <3>2, <3>3
  <2>3. <<w, h, k>> \in HeldIn(J, b)
    BY <1>2, <1>4, HeldPlaces
  <2> QED
    BY <2>2, <2>3
<1>6. PICK H2 : H2 = Cardinality(HeldIn(K, b))
  OBVIOUS
<1>7. IsFiniteSet(HeldIn(K, b)) /\ H2 \in Nat /\ H2 < H
  <2>1. IsFiniteSet(HeldIn(J, b)) /\ H = Cardinality(HeldIn(J, b)) /\ H \in Nat
    BY <1>1, <1>2 DEF Amounts
  <2>2. /\ IsFiniteSet(HeldIn(J, b) \ {<<w, h, k>>})
        /\ Cardinality(HeldIn(J, b) \ {<<w, h, k>>}) = H - 1
    BY <1>5, <2>1, FS_RemoveElement
  <2>3. IsFiniteSet(HeldIn(K, b)) /\ Cardinality(HeldIn(K, b)) <= H - 1 /\ Cardinality(HeldIn(K, b)) \in Nat
    BY <1>5, <2>2, FS_Subset, FS_CardinalityType
  <2> QED
    BY <1>6, <2>1, <2>3
<1>8. IsFiniteSet(TasksFor(b)') /\ Cardinality(TasksFor(b)') = T
  <2>1. IsFiniteSet(TasksFor(b)) /\ T = Cardinality(TasksFor(b)) /\ T \in Nat
    BY <1>1 DEF Amounts
  <2>2. CASE EndBatch(w) \/ LeaveDirectory(w) \/ LeaveAfterQuit(w) \/ EvalFails(w)
    <3>1. UNCHANGED schedVars \/ \E ok \in BOOLEAN : S!TaskReturns(w, ok)
      BY <2>2 DEF EndBatch, LeaveDirectory, LeaveAfterQuit, EvalFails
    <3> QED
      BY <2>1, <3>1, TasksSame
  <2>3. CASE ~accept /\ PublishChunk(w)
    <3>1. PICK t : t = ChunkTask(Head(Head(s).chunks), Head(s).barrier)
      BY ZenonT(120)
    <3>2. S!BeginPush(w, t)
      BY <1>2, <2>3, <3>1 DEF PublishChunk
    <3>3. t \in WalkTask
      <4>1. Head(s).kind = "dir" /\ Head(s).chunks # <<>> /\ Head(s) \in WalkFrame
        BY <1>2, <1>a, <1>b, <2>3, HeadTailProperties DEF PublishChunk, At, AtNode
      <4>2. Head(s).chunks \in Seq(Chunk) /\ Head(s).barrier \in Nat
        BY <4>1, FrameParts
      <4>3. Head(Head(s).chunks) \in Chunk
        BY <4>1, <4>2, HeadTailProperties
      <4> QED
        BY <3>1, <4>2, <4>3 DEF ChunkTask, WalkTask, Barrier
    <3>4. SP!TypeOK /\ QueuesFit /\ QueuesFit'
      BY SchedulerTypes DEF EngineInv
    <3>5. /\ IsFiniteSet(TasksFor(b)') /\ Cardinality(TasksFor(b)') \in Nat
          /\ Cardinality(TasksFor(b)') = Cardinality(TasksFor(b)) + Bit(accept /\ t.barrier = b)
      BY <2>1, <3>2, <3>3, <3>4, TasksPushed
    <3> QED
      BY <2>1, <2>3, <3>5 DEF Bit
  <2> QED
    BY <2>2, <2>3
<1>9. barriers' = barriers
  BY DEF EndBatch, LeaveDirectory, LeaveAfterQuit, EvalFails, PublishChunk, barrierVars
<1>10. AmountsAfter(b, B, T, H2, D)
  <2>1. T = Cardinality(TasksFor(b)') /\ T \in Nat /\ IsFiniteSet(TasksFor(b)')
    BY <1>1, <1>8 DEF Amounts
  <2>2. H2 = Cardinality(HeldIn(job', b)) /\ H2 \in Nat /\ IsFiniteSet(HeldIn(job', b))
    BY <1>2, <1>6, <1>7
  <2> QED
    BY <1>1, <1>9, <2>1, <2>2 DEF Amounts, AmountsAfter
<1>11. Has(w, b) => Had(w, b)
  <2>1. CASE EndBatch(w) \/ LeaveDirectory(w)
    BY <1>0, <1>a, <2>1, JobMoves DEF Has, BodyAfter, EngineInv, NoBarrier
  <2>2. CASE LeaveAfterQuit(w) \/ EvalFails(w)
    BY <1>a, <2>2 DEF Has, BodyAfter, NoJob, NoBarrier
  <2>3. CASE PublishChunk(w)
    BY <1>0, <1>a, <2>3, JobMoves DEF Has, BodyAfter, EngineInv, NoBarrier
  <2> QED
    BY <2>1, <2>2, <2>3
<1>12. H2 + Bit(Has(w, b)) < H + Bit(Had(w, b))
  <2>1. H \in Nat
    BY <1>1 DEF Amounts
  <2> QED
    BY <1>7, <1>11, <2>1 DEF Bit
<1> QED
  BY <1>0, <1>1, <1>7, <1>10, <1>12, AccountLoses

(* A listing that is abandoned, a directory that is not published. *)
LEMMA BusyDropped ==
  ASSUME NEW b \in Nat \ {0}, NEW w \in Worker, EngineInv, EngineInv', BodiesKnown, Balanced(b),
         AbandonListing(w) \/ (~accept /\ ReleaseDirectory(w)), job[w].notify = b
  PROVE  Loses(b)
<1>0. TaskStep(w)
  BY DEF TaskStep
<1>1. PICK B, T, H, D : Amounts(b, B, T, H, D)
  BY AmountsAre DEF Balanced
<1>a. /\ job \in [Worker -> WalkJob] /\ job[w] \in WalkJob /\ AtNode(job[w])
      /\ BodyAfter(w, job[w], job'[w])
  BY <1>0, BodyChanges DEF EngineInv, JobsFit
<1>2. job'[w].frames = job[w].frames /\ job'[w].step = "next"
  BY <1>a DEF BodyAfter
<1>3. job'[w].notify = NoBarrier
  BY <1>0, <1>2, JobMoves DEF EngineInv
<1>4. HeldIn(job', b) = HeldIn(job, b)
  <2>1. PICK J, K : J = job /\ K = job'
    OBVIOUS
  <2>2. \A v \in Worker : K[v].frames = J[v].frames
    BY <1>0, <1>2, <2>1, OnlyOwnJob DEF EngineInv
  <2> QED
    BY <2>1, <2>2, HeldSame
<1>5. IsFiniteSet(TasksFor(b)') /\ Cardinality(TasksFor(b)') = T
  <2>1. IsFiniteSet(TasksFor(b)) /\ T = Cardinality(TasksFor(b)) /\ T \in Nat
    BY <1>1 DEF Amounts
  <2>2. CASE AbandonListing(w)
    <3>1. UNCHANGED schedVars
      BY <2>2 DEF AbandonListing
    <3> QED
      BY <2>1, <3>1, TasksSame
  <2>3. CASE ~accept /\ ReleaseDirectory(w)
    <3>1. PICK t : t = ResumeTask(job[w].at, job[w].notify)
      OBVIOUS
    <3>2. S!BeginPush(w, t)
      BY <2>3, <3>1 DEF ReleaseDirectory
    <3>3. t \in WalkTask
      <4>1. job[w].at \in Walked /\ job[w].notify \in Barrier /\ Visit(job[w].at) = "list"
        BY <1>a, <2>3 DEF ReleaseDirectory, At, AtNode, WalkJob
      <4> QED
        BY <3>1, <4>1 DEF ResumeTask, WalkTask, Chunk
    <3>4. SP!TypeOK /\ QueuesFit /\ QueuesFit'
      BY SchedulerTypes DEF EngineInv
    <3>5. /\ IsFiniteSet(TasksFor(b)') /\ Cardinality(TasksFor(b)') \in Nat
          /\ Cardinality(TasksFor(b)') = Cardinality(TasksFor(b)) + Bit(accept /\ t.barrier = b)
      BY <2>1, <3>2, <3>3, <3>4, TasksPushed
    <3> QED
      BY <2>1, <2>3, <3>5 DEF Bit
  <2> QED
    BY <2>2, <2>3
<1>6. barriers' = barriers
  BY DEF AbandonListing, ReleaseDirectory, barrierVars
<1>7. AmountsAfter(b, B, T, H, D)
  <2>1. T = Cardinality(TasksFor(b)') /\ T \in Nat /\ IsFiniteSet(TasksFor(b)')
    BY <1>1, <1>5 DEF Amounts
  <2> QED
    BY <1>1, <1>4, <1>6, <2>1 DEF Amounts, AmountsAfter
<1>8. H \in Nat /\ H + Bit(Has(w, b)) < H + Bit(Had(w, b))
  <2>1. H \in Nat /\ ~Has(w, b) /\ Had(w, b)
    BY <1>1, <1>3 DEF Amounts, Has, Had, NoBarrier
  <2> QED
    BY <2>1 DEF Bit
<1> QED
  BY <1>0, <1>1, <1>7, <1>8, AccountLoses

(* A task that is taken after a stop, and not run. *)
LEMMA TaskDropped ==
  ASSUME NEW b \in Nat \ {0}, NEW w \in Worker, LoopStep(w), EngineInv, EngineInv', BodiesKnown,
         Balanced(b), pc[w] = "got", pc'[w] = "finish", task[w].barrier = b
  PROVE  Loses(b)
<1>0. /\ SP!TypeOK /\ SP!WorkerLoop(w) /\ w \in SP!Worker
      /\ pc \in [Worker -> S!Location] /\ JobsFit /\ QueuesFit /\ QueuesFit'
  BY SchedulerTypes, SameLoop DEF EngineInv, LoopStep, S!TypeOK, Worker, S!Worker, SP!Worker
<1>a. UNCHANGED <<quit, failed, job, barriers>>
  BY EngineLoopMoves
<1>1. PICK B, T, H, D : Amounts(b, B, T, H, D)
  BY AmountsAre DEF Balanced
<1>2. SP!Admit(w)
  BY <1>0 DEF SP!WorkerLoop, SP!PopLocal, SP!LocalEmpty, SP!StealInjector, SP!InjectorMissed,
     SP!StealPeer, SP!PeerMissed, SP!NothingFound, SP!LeaveLoop, SP!GoToSleep, SP!StartWait,
     SP!Notified, SP!TimesOut, SP!TaskFinished, SP!NotifyAtZero, SP!StoreFatal, SP!StopAfterFatal,
     SP!Die, SP!FlushAndReport, SP!CountTask, SP!PushTask, SP!StopAfterQuit, SP!NotifySleepers, SP!Goto
<1>3. PICK U, X, Y : U = TasksTo(b) /\ X = TasksFor(b) /\ Y = TasksFor(b)'
  OBVIOUS
<1>4. X = SP!UnstartedIn(U) /\ Y = SP!UnstartedIn(U)'
  <2>1. TasksFor(b) = SP!UnstartedIn(TasksTo(b))
    BY <1>0, TasksForIs DEF TasksAreUnstarted
  <2>2. TasksFor(b)' = SP!UnstartedIn(TasksTo(b))'
    BY <1>0, TasksForIsNext DEF TasksAreUnstarted
  <2>3. TasksTo(b)' = TasksTo(b)
    BY DEF TasksTo
  <2> QED
    BY <1>3, <2>1, <2>2, <2>3
<1>5. /\ SP!UnstartedIn(U)' = SP!UnstartedIn(U) \ {<<w, 0>>}
      /\ <<w, 0>> \in SP!UnstartedIn(U) <=> task[w] \in U
  BY <1>0, <1>2, SP!AdmitStartsTask, RootsAreTasks
<1>6. task[w] \in U
  BY <1>0, <1>3 DEF QueuesFit, TasksTo
<1>7. IsFiniteSet(Y) /\ Cardinality(Y) \in Nat /\ Cardinality(Y) + 1 = T /\ T \in Nat
  <2>1. IsFiniteSet(X) /\ T = Cardinality(X) /\ T \in Nat
    BY <1>1, <1>3 DEF Amounts
  <2>2. Y = X \ {<<w, 0>>} /\ <<w, 0>> \in X
    BY <1>4, <1>5, <1>6
  <2>3. IsFiniteSet(Y) /\ Cardinality(Y) = Cardinality(X) - 1
    BY <2>1, <2>2, FS_RemoveElement
  <2> QED
    BY <2>1, <2>3, FS_CardinalityType
<1>8. job[w] = NoJob /\ task' = task
  BY <1>2 DEF BodiesKnown, SP!Admit, SP!queues
<1>9. ~IsBusy(w, b) /\ ~IsBusy(w, b)'
  BY <1>a, <1>8 DEF IsBusy, At, NoJob, NoBarrier
<1>10. PICK C, E, T2 : C = Cardinality(BusyFor(b)) /\ E = Cardinality(BusyFor(b)') /\ T2 = Cardinality(Y)
  OBVIOUS
<1>11. C \in Nat /\ E = C
  <2>1. \A v \in Worker \ {w} : pc'[v] = pc[v] /\ task'[v] = task[v] /\ job'[v] = job[v]
    BY OthersKeepTasks
  <2>2. /\ Cardinality(BusyFor(b)) \in Nat /\ Cardinality(BusyFor(b)') \in Nat
        /\ Cardinality(BusyFor(b)') + Bit(IsBusy(w, b)) = Cardinality(BusyFor(b)) + Bit(IsBusy(w, b)')
    BY <2>1, BusyChanges
  <2> QED
    BY <1>9, <1>10, <2>2 DEF Bit
<1>12. HeldIn(job', b) = HeldIn(job, b) /\ BelowIn(barriers', b) = BelowIn(barriers, b)
       /\ DueIn(barriers', b) = D
  BY <1>1, <1>a DEF Amounts
<1>13. AmountsAfter(b, B, T2, H, D)
  BY <1>1, <1>3, <1>7, <1>10, <1>12 DEF Amounts, AmountsAfter
<1>14. UnitsOf(b) = (B + T + H) + C /\ UnitsOf(b)' = (B + T2 + H) + E
  BY <1>1, <1>10, <1>13, StoredIsNext DEF Stock, Amounts, AmountsAfter
<1>15. DueIn(barriers, b) = D /\ DueIn(barriers, b)' = D
  BY <1>1, <1>12 DEF Amounts, DueIn
<1>16. (B + T + H) + C <= D
  BY <1>14, <1>15 DEF Balanced
<1>17. (B + T2 + H) + E < D
  <2>1. B \in Nat /\ H \in Nat /\ D \in Nat /\ T2 \in Nat /\ T2 + 1 = T
    BY <1>1, <1>7, <1>10 DEF Amounts
  <2> QED
    BY <1>11, <1>16, <2>1
<1> QED
  BY <1>14, <1>15, <1>17 DEF Loses

(* The nodes a worker gives up because of a stop were on their way to t. *)
Dropped(t) == (t # NoBarrier => Loses(t)) /\ (quit' \/ failed' # {})

-----------------------------------------------------------------------------
(* What is owed for a node                                                 *)

(* Its evaluation, if it is an entry, and the report of its failure. *)
Handled(d) == (d \in PostOrderEntries => evals[d] > 0) /\ (d \in FaultyNodes => d \in errors)
Below(n) == {d \in Walked : n \in Ancestors[d]}
Finished(n) == Handled(n) /\ \A d \in Below(n) : Handled(d)

(* A node is evaluated after what is below it; a failure was reported when   *)
(* the listing was over.                                                     *)
Prepared ==
  \A q, i, x, n, t, s : Held(q, i, x, n, t, s) =>
    /\ s = "ready" => \A d \in Below(n) : Handled(d)
    /\ s \in {"ready", "waiting"} /\ n \in FaultyNodes => n \in errors

LEMMA NothingBelow ==
  ASSUME NEW n \in Node, Visit(n) # "list" \/ Children(n) = {}
  PROVE  Below(n) = {}
<1> SUFFICES ASSUME NEW d \in Below(n) PROVE FALSE
  OBVIOUS
<1>1. d \in Node /\ Reached[d] /\ n \in Ancestors[d]
  BY DEF Below, Walked
<1>2. Opens(n)
  BY <1>1, ReachedThrough
<1>3. Visit(n) = "list"
  BY <1>2, VisitIs
<1>4. \E c \in Children(n) : TRUE
  BY <1>1, WayDown
<1> QED
  BY <1>3, <1>4

LEMMA FaultyWhen ==
  ASSUME NEW n \in Walked
  PROVE  n \in FaultyNodes <=> Visit(n) = "error" \/ (Visit(n) = "list" /\ Listed(Items[n], BadItem))
<1>1. Listed(Items[n], BadItem) <=> BadItem \in RangeOf(Items[n])
  BY DEF Listed, RangeOf
<1> QED
  BY <1>1 DEF FaultyNodes, Walked

LEMMA EntriesAre ==
  ASSUME NEW n \in Node
  PROVE  n \in PostOrderEntries <=> Reached[n] /\ Visit(n) # "error" /\ IsEvaluatedAt(n)
BY ZenonT(120), VisitIs DEF PostOrderEntries, PreOrderEntries

(* Only evaluations count, and they count the node the body is at. *)
Evaluates(w) == EvalOk(w) \/ EvalQuits(w) \/ EvalFails(w)

LEMMA EvalsGrow ==
  ASSUME NEW w \in Worker, TaskStep(w)
  PROVE  /\ Evaluates(w) => evals' = [evals EXCEPT ![job[w].at] = @ + 1] /\ job[w].step = "eval"
         /\ ~Evaluates(w) => evals' = evals
BY ZenonT(120) DEF TaskStep, Evaluates, CountEval, EvalOk, EvalQuits, EvalFails, At, StartChunk,
   StartResume, EndTask, EndBatch, VisitNext, OpenDirectory, OpenFails, ListBadItem, ListChild, AbandonListing, ListedEmpty,
   BeginDirectory, LeaveDirectory, PublishRest, PublishChunk, PublishDone, LeaveAfterQuit,
   NotifyEnds, FinishUnit, FinishLastUnit, ReleaseDirectory, treeVars

(* What is handled stays handled. *)
LEMMA HandledStays ==
  ASSUME EngineInv, NEW w \in Worker, TaskStep(w)
  PROVE  /\ \A d \in Node : evals'[d] >= evals[d] /\ evals'[d] \in Nat
         /\ \A d : Handled(d) => Handled(d)'
<1>1. evals \in [Node -> Nat]
  BY DEF EngineInv
<1>2. \A d \in Node : evals'[d] >= evals[d] /\ evals'[d] \in Nat
  <2>1. CASE Evaluates(w)
    BY <1>1, <2>1, EvalsGrow
  <2>2. CASE ~Evaluates(w)
    BY <1>1, <2>2, EvalsGrow
  <2> QED
    BY <2>1, <2>2
<1>3. errors \subseteq errors'
  BY ErrorsGrow
<1>4. PostOrderEntries \subseteq Node
  BY DEF PostOrderEntries, PreOrderEntries
<1>5. ASSUME NEW d, Handled(d) PROVE Handled(d)'
  <2>1. d \in PostOrderEntries => evals'[d] > 0
    <3> SUFFICES ASSUME d \in PostOrderEntries PROVE evals'[d] > 0
      OBVIOUS
    <3>1. d \in Node /\ evals[d] > 0
      BY <1>4, <1>5 DEF Handled
    <3>2. PICK a \in Nat, c \in Nat : a = evals[d] /\ c = evals'[d]
      BY <1>1, <1>2, <3>1
    <3> QED
      BY <1>2, <3>1, <3>2
  <2>2. d \in FaultyNodes => d \in errors'
    BY <1>3, <1>5 DEF Handled
  <2>3. PostOrderEntries' = PostOrderEntries /\ FaultyNodes' = FaultyNodes
    BY DEF PostOrderEntries, FaultyNodes, PreOrderEntries
  <2> QED
    BY <2>1, <2>2, <2>3 DEF Handled
<1> QED
  BY <1>2, <1>5

LEMMA FinishedStays ==
  ASSUME EngineInv, NEW w \in Worker, TaskStep(w), NEW n, Finished(n)
  PROVE  Finished(n)'
<1>1. Below(n)' = Below(n)
  BY DEF Below, Walked
<1> QED
  BY <1>1, HandledStays DEF Finished

(* A node with nothing to evaluate and nothing left below it is finished. *)
LEMMA NowFinished ==
  ASSUME EngineInv, NEW w \in Worker, TaskStep(w), NEW n \in Walked,
         n \in PostOrderEntries => evals'[n] > 0, n \in FaultyNodes => n \in errors',
         \A d \in Below(n) : Handled(d)
  PROVE  Finished(n)'
<1>1. Below(n)' = Below(n) /\ PostOrderEntries' = PostOrderEntries /\ FaultyNodes' = FaultyNodes
  BY DEF Below, Walked, PostOrderEntries, FaultyNodes, PreOrderEntries
<1>2. Handled(n)'
  BY <1>1 DEF Handled
<1> QED
  BY <1>1, <1>2, HandledStays DEF Finished

-----------------------------------------------------------------------------
(* What becomes of a node in a step: it is still held, it is finished, or a  *)
(* stop made a worker give it up.                                            *)
BatchBelow(t, u) == t \in DOMAIN barriers /\ barriers[t].entry = NoNode /\ barriers[t].parent = u

GoesOn(n, u) == \E q, i, x, t, s : Held(q, i, x, n, t, s)' /\ (t = u \/ BatchBelow(t, u)')
Outcome(n, u) == GoesOn(n, u) \/ Finished(n)' \/ Dropped(u)

LEMMA StopsKnown ==
  ASSUME EngineInv, BodiesKnown, NEW w \in Worker, TaskStep(w) \/ LoopStep(w),
         ~accept \/ quit \/ fatal \/ failed # {}
  PROVE  quit' \/ failed' # {}
<1>1. quit \/ failed # {}
  BY DEF BodiesKnown
<1>2. CASE TaskStep(w)
  <2>1. (quit => quit') /\ failed \subseteq failed'
    BY <1>2, TaskMoves DEF schedVars
  <2> QED
    BY <1>1, <2>1
<1>3. CASE LoopStep(w)
  BY <1>1, <1>3, EngineLoopMoves
<1> QED
  BY <1>2, <1>3

LEMMA TaskGoesOn ==
  ASSUME EngineInv, EngineInv', BodiesKnown, Prepared, NEW w \in Worker, TaskStep(w),
         NEW q, NEW i, NEW x, NEW n, NEW t, NEW s, TaskHeld(q, i, x, n, t, s)
  PROVE  GoesOn(n, t) \/ Finished(n)'
<1>1. PICK u, k : WaitsAt(u, q, i) /\ InTask(u, n, t, s, k) /\ x = <<0, k, 0>>
  BY DEF TaskHeld, InTask
<1>2. CASE ~(q = w /\ i = 0)
  <2>1. WaitsAt(u, q, i)'
    BY <1>1, <1>2, WaitsAfter
  <2>2. TaskHeld(q, i, x, n, t, s)'
    BY <1>1, <2>1 DEF TaskHeld, InTask, AtEnd
  <2> QED
    BY <2>2 DEF GoesOn, Held
<1>3. CASE q = w /\ i = 0
  <2>1. pc[w] = "run"
    BY TaskMoves
  <2>2. job[w].step = "idle" /\ u = task[w]
    <3>1. pc[w] = "got" \/ At(w, "idle")
      BY <1>1, <1>3 DEF WaitsAt
    <3>2. Worker \subseteq Nat \ {0} /\ Len(injector) \in Nat /\ \A v \in Worker : Len(deque[v]) \in Nat
      BY SchedulerTypes DEF S!TypeOK, Worker, S!Worker
    <3> QED
      BY <1>1, <1>3, <2>1, <3>1, <3>2 DEF WaitsAt, SP!TaskAt, SP!InHand, At
  <2>3. task[w] \in WalkTask
    BY <2>1 DEF EngineInv, QueuesFit
  <2>4. StartChunk(w) \/ StartResume(w)
    <3>1. /\ job[w].step = "idle"
          /\ ~EndTask(w) /\ ~EndBatch(w) /\ ~VisitNext(w) /\ ~OpenDirectory(w) /\ ~OpenFails(w)
          /\ ~ListBadItem(w) /\ ~ListChild(w) /\ ~AbandonListing(w) /\ ~ListedEmpty(w)
          /\ ~BeginDirectory(w) /\ ~LeaveDirectory(w) /\ ~PublishRest(w) /\ ~PublishChunk(w)
          /\ ~PublishDone(w) /\ ~EvalOk(w) /\ ~EvalQuits(w) /\ ~LeaveAfterQuit(w) /\ ~EvalFails(w)
          /\ ~NotifyEnds(w) /\ ~FinishUnit(w) /\ ~FinishLastUnit(w) /\ ~ReleaseDirectory(w)
      BY <2>2 DEF At, EndTask, EndBatch, VisitNext, OpenDirectory, OpenFails, ListBadItem, ListChild,
         AbandonListing, ListedEmpty, BeginDirectory, LeaveDirectory, PublishRest, PublishChunk,
         PublishDone, EvalOk, EvalQuits, LeaveAfterQuit, EvalFails, NotifyEnds, FinishUnit,
         FinishLastUnit, ReleaseDirectory
    <3> QED
      BY <3>1 DEF TaskStep
  <2>5. BodyAfter(w, job[w], job'[w])
    BY BodyChanges
  <2>6. CASE StartChunk(w)
    <3>1. AtEnd(task[w].nodes, n, k) /\ t = task[w].barrier
      BY <1>1, <2>2, <2>6 DEF InTask, StartChunk
    <3>2. PICK v : v = IF NeedsBatch(task[w].nodes, task[w].barrier) THEN nextBarrier ELSE task[w].barrier
      OBVIOUS
    <3>3. StartedNode(w, n, v, 1, k, 0)
      BY <2>6, <3>1, <3>2 DEF StartedNode
    <3>4. InCalls(job'[w].frames, n, v, 1, k, 0)
      BY <3>3, CallsAfter DEF CallsChange
    <3>5. PICK y : y = <<1, k, 0>>
      OBVIOUS
    <3>6. Held(w, -4, y, n, v, "new")'
      BY <3>4, <3>5 DEF CallHeld, Held
    <3>7. v = t \/ BatchBelow(v, t)'
      <4>1. TableChange(w)
        BY TableChanges
      <4>2. StartChunk(w) => job[w].step = "idle"
        BY DEF StartChunk, At
      <4>3. ~BeginDirectory(w)
        BY <2>2 DEF BeginDirectory, At
      <4>4. PICK p : p = barriers'
        OBVIOUS
      <4>5. CASE NeedsBatch(task[w].nodes, task[w].barrier)
        <5>1. nextBarrier \in DOMAIN p /\ p[nextBarrier].entry = NoNode
              /\ p[nextBarrier].parent = task[w].barrier
          BY <2>6, <4>1, <4>3, <4>4, <4>5 DEF TableChange, NewRecord
        <5> QED
          BY <3>1, <3>2, <4>4, <4>5, <5>1 DEF BatchBelow
      <4>6. CASE ~NeedsBatch(task[w].nodes, task[w].barrier)
        BY <3>1, <3>2, <4>6
      <4> QED
        BY <4>5, <4>6
    <3> QED
      BY <3>6, <3>7 DEF GoesOn
  <2>7. CASE StartResume(w)
    <3>1. t = task[w].barrier /\ s = "ready" /\ n = task[w].nodes[1]
      BY <1>1, <2>2, <2>7 DEF InTask, StartResume
    <3>2. job'[w].at = n /\ job'[w].notify = t /\ job'[w].step = CompleteStep(n)
      BY <2>5, <2>7, <3>1 DEF BodyAfter
    <3>3. n \in Walked
      BY <2>3, <2>7, <3>1 DEF WalkTask, Chunk
    <3>4. CASE IsEvaluatedAt(n)
      <4>1. BusyHeld(w, -2, <<0, 0, 0>>, n, t, "ready")'
        BY <3>2, <3>4 DEF BusyHeld, BusyWith, CompleteStep
      <4> QED
        BY <4>1 DEF GoesOn, Held
    <3>5. CASE ~IsEvaluatedAt(n)
      <4>1. Held(q, i, x, n, t, s)
        BY DEF Held
      <4>2. (\A d \in Below(n) : Handled(d)) /\ (n \in FaultyNodes => n \in errors)
        BY <3>1, <4>1 DEF Prepared
      <4>3. n \notin PostOrderEntries
        BY <3>3, <3>5, EntriesAre DEF Walked
      <4>4. errors \subseteq errors'
        BY ErrorsGrow
      <4> QED
        BY <3>3, <4>2, <4>3, <4>4, NowFinished
    <3> QED
      BY <3>4, <3>5
  <2> QED
    BY <2>4, <2>6, <2>7
<1> QED
  BY <1>2, <1>3

LEMMA RecordGoesOn ==
  ASSUME EngineInv, EngineInv', BodiesKnown, NEW w \in Worker, TaskStep(w),
         NEW q, NEW i, NEW x, NEW n, NEW t, NEW s, RecordHeld(q, i, x, n, t, s)
  PROVE  GoesOn(n, t)
<1>1. CASE RecordHeld(q, i, x, n, t, s)'
  BY <1>1 DEF GoesOn, Held
<1>2. CASE FinishLastUnit(w) /\ q = job[w].notify
  <2>1. BodyAfter(w, job[w], job'[w])
    BY BodyChanges
  <2>2. n = barriers[q].entry /\ n # NoNode /\ t = barriers[q].parent
    BY ZenonT(120) DEF RecordHeld
  <2>3. job'[w].step = "release" /\ job'[w].at = n /\ job'[w].notify = t
    BY <1>2, <2>1, <2>2 DEF BodyAfter
  <2>4. BusyHeld(w, -2, <<0, 0, 0>>, n, t, "ready")'
    BY <2>3 DEF BusyHeld, BusyWith
  <2> QED
    BY <2>4 DEF GoesOn, Held
<1> QED
  BY <1>1, <1>2, RecordsAfter

(* Nothing is below a directory that had no children, or could not be opened. *)
LEMMA LeafListed ==
  ASSUME EngineInv, EngineInv', BodiesKnown, ListingsKnown, NEW w \in Worker,
         OpenFails(w) \/ ListedEmpty(w)
  PROVE  /\ job[w].at \in Walked /\ Below(job[w].at) = {}
         /\ job[w].at \in FaultyNodes => job[w].at \in errors
<1>0. TaskStep(w)
  BY DEF TaskStep
<1>1. PICK j, n : j = job[w] /\ n = job[w].at
  OBVIOUS
<1>2. j \in WalkJob /\ AtNode(j) /\ Listing(j, errors)
  BY <1>1 DEF EngineInv, JobsFit, ListingsKnown
<1>3. n \in Walked /\ n \in Node /\ Visit(n) = "list"
  BY <1>1, <1>2 DEF OpenFails, ListedEmpty, At, AtNode, Walked
<1>4. CASE OpenFails(w)
  <2>1. Items[n] = <<>>
    BY <1>1, <1>4, WalkTreeAssumption DEF OpenFails
  <2>2. Children(n) = {} /\ ~Listed(Items[n], BadItem)
    BY <2>1 DEF Children, RangeOf, Listed
  <2> QED
    BY <1>1, <1>3, <2>2, NothingBelow, FaultyWhen
<1>5. CASE ListedEmpty(w)
  <2>1. j.step = "list" /\ j.items = <<>> /\ j.local = <<>> /\ FinishChunks(j) = <<>>
    BY <1>1, <1>5 DEF ListedEmpty, At
  <2>2. j.buffer = <<>> /\ j.spilled = <<>>
    <3>1. j.spilled \in Seq(Chunk)
      BY <1>2 DEF WalkJob
    <3>2. Append(j.spilled, j.buffer) # <<>>
      <4>1. Len(j.spilled) \in Nat
        BY <3>1, LenProperties
      <4>2. Len(Append(j.spilled, j.buffer)) = Len(j.spilled) + 1
        BY <3>1
      <4>3. PICK a \in Nat : a = Len(j.spilled)
        BY <4>1
      <4> QED
        BY <4>2, <4>3
    <3> QED
      BY <2>1, <3>2 DEF FinishChunks
  <2>3. \A m \in Node : m \notin Children(n)
    BY <1>1, <1>2, <2>1, <2>2, NothingListed DEF Listing, InPieces
  <2>4. Children(n) = {}
    BY <1>3, <2>3, ChildrenAreNodes
  <2>5. Listed(Items[n], BadItem) => n \in errors
    BY <1>1, <1>2, <2>1, NothingListed DEF Listing
  <2> QED
    BY <1>1, <1>3, <2>4, <2>5, NothingBelow, FaultyWhen
<1> QED
  BY <1>4, <1>5

LEMMA BusyGoesOn ==
  ASSUME EngineInv, EngineInv', BodiesKnown, CountsInv, ListingsKnown, Prepared,
         NEW w \in Worker, TaskStep(w),
         NEW q, NEW i, NEW x, NEW n, NEW t, NEW s, BusyHeld(q, i, x, n, t, s)
  PROVE  Outcome(n, t)
<1>0. q \in Worker /\ i = -2 /\ x = <<0, 0, 0>> /\ BusyWith(job[q], n, t, s)
  BY DEF BusyHeld, BusyWith
<1>1. CASE q # w
  <2>1. job'[q] = job[q]
    BY <1>0, <1>1, OnlyOwnJob DEF EngineInv
  <2>2. BusyHeld(q, i, x, n, t, s)'
    BY <1>0, <2>1 DEF BusyHeld
  <2> QED
    BY <2>2 DEF Outcome, GoesOn, Held
<1>2. CASE q = w
  <2>1. PICK j, k : j = job[w] /\ k = job'[w]
    OBVIOUS
  <2>2. j \in WalkJob /\ AtNode(j) /\ BodyAfter(w, j, k)
    BY <2>1, BodyChanges DEF EngineInv, JobsFit
  <2>3. /\ j.step \in {"open", "list", "eval", "release"} /\ n = j.at /\ t = j.notify
        /\ s = IF j.step \in {"open", "list"} THEN "listed" ELSE "ready"
    BY <1>0, <1>2, <2>1 DEF BusyWith
  <2>4. n \in Walked /\ n \in Node /\ t \in Nat
    BY <2>2, <2>3 DEF AtNode, WalkJob, Barrier, Walked
  <2>5. ASSUME k.step \in {"open", "list", "eval", "release"}, k.at = n, k.notify = t PROVE Outcome(n, t)
    <3>1. PICK r : r = IF k.step \in {"open", "list"} THEN "listed" ELSE "ready"
      OBVIOUS
    <3>2. BusyHeld(w, -2, <<0, 0, 0>>, n, t, r)'
      BY <2>1, <2>5, <3>1 DEF BusyHeld, BusyWith
    <3> QED
      BY <3>2 DEF Outcome, GoesOn, Held
  <2>6. CASE OpenDirectory(w) \/ ListBadItem(w) \/ ListChild(w)
    BY <2>2, <2>3, <2>5, <2>6 DEF BodyAfter, SameNode
  <2>7. CASE OpenFails(w) \/ ListedEmpty(w)
    <3>1. k.step = CompleteStep(n) /\ k.at = n /\ k.notify = t
      BY <2>2, <2>3, <2>7 DEF BodyAfter, SameNode
    <3>2. CASE IsEvaluatedAt(n)
      BY <2>5, <3>1, <3>2 DEF CompleteStep
    <3>3. CASE ~IsEvaluatedAt(n)
      <4>1. Below(n) = {} /\ (n \in FaultyNodes => n \in errors)
        BY <2>1, <2>3, <2>7, LeafListed
      <4>2. n \notin PostOrderEntries
        BY <2>4, <3>3, EntriesAre
      <4>3. errors \subseteq errors'
        BY ErrorsGrow
      <4>4. Finished(n)'
        BY <2>4, <4>1, <4>2, <4>3, NowFinished
      <4> QED
        BY <4>4 DEF Outcome
    <3> QED
      BY <3>2, <3>3
  <2>8. CASE AbandonListing(w)
    <3>1. quit' \/ failed' # {}
      <4>1. quit \/ fatal
        BY <2>8 DEF AbandonListing, Stopping
      <4> QED
        BY <4>1, StopsKnown
    <3>2. t # NoBarrier => Loses(t)
      <4> SUFFICES ASSUME t # NoBarrier PROVE Loses(t)
        OBVIOUS
      <4>1. t \in Nat \ {0} /\ Balanced(t)
        BY <2>4 DEF CountsInv, NoBarrier
      <4> QED
        BY <2>1, <2>3, <2>8, <4>1, BusyDropped
    <3> QED
      BY <3>1, <3>2 DEF Outcome, Dropped
  <2>9. CASE BeginDirectory(w)
    <3>1. PICK b, c, y, r : b = nextBarrier /\ c = -3 /\ y = <<0, 0, 0>> /\ r = "waiting"
      OBVIOUS
    <3>2. n = job[w].at /\ t = job[w].notify
      BY <2>1, <2>3
    <3>3. RecordHeld(b, c, y, n, t, r)'
      BY <2>9, <3>1, <3>2, RecordsAfter
    <3> QED
      BY <3>3 DEF Outcome, GoesOn, Held
  <2>10. CASE Evaluates(w)
    <3>1. j.step = "eval" /\ evals' = [evals EXCEPT ![n] = @ + 1]
      BY <2>1, <2>3, <2>10, EvalsGrow
    <3>2. evals'[n] > 0
      BY <2>4, <3>1 DEF EngineInv
    <3>3. s = "ready"
      BY <2>3, <3>1
    <3>4. (\A d \in Below(n) : Handled(d)) /\ (n \in FaultyNodes => n \in errors)
      BY <3>3 DEF Prepared, Held
    <3>5. errors \subseteq errors'
      BY ErrorsGrow
    <3>6. Finished(n)'
      BY <2>4, <3>2, <3>4, <3>5, NowFinished
    <3> QED
      BY <3>6 DEF Outcome
  <2>11. CASE ReleaseDirectory(w)
    <3>1. CASE accept
      <4>1. PICK u : u = ResumeTask(n, t)
        OBVIOUS
      <4>2. WaitsAt(u, w, -1)'
        <5>1. Publishes(w, u)
          BY <2>1, <2>3, <2>11, <3>1, <4>1 DEF Publishes
        <5> QED
          BY <5>1, WaitsAfter
      <4>3. InTask(u, n, t, "ready", 1)
        BY <4>1 DEF InTask, ResumeTask
      <4>4. TaskHeld(w, -1, <<0, 1, 0>>, n, t, "ready")'
        BY <4>2, <4>3 DEF TaskHeld, InTask
      <4> QED
        BY <4>4 DEF Outcome, GoesOn, Held
    <3>2. CASE ~accept
      <4>1. quit' \/ failed' # {}
        BY <3>2, StopsKnown
      <4>2. t # NoBarrier => Loses(t)
        <5> SUFFICES ASSUME t # NoBarrier PROVE Loses(t)
          OBVIOUS
        <5>1. t \in Nat \ {0} /\ Balanced(t)
          BY <2>4 DEF CountsInv, NoBarrier
        <5> QED
          BY <2>1, <2>3, <2>11, <3>2, <5>1, BusyDropped
      <4> QED
        BY <4>1, <4>2 DEF Outcome, Dropped
    <3> QED
      BY <3>1, <3>2
  <2>12. CASE ~(\/ OpenDirectory(w) \/ ListBadItem(w) \/ ListChild(w) \/ OpenFails(w) \/ ListedEmpty(w)
                \/ AbandonListing(w) \/ BeginDirectory(w) \/ Evaluates(w) \/ ReleaseDirectory(w))
    <3>1. \/ StartChunk(w) \/ StartResume(w) \/ EndTask(w) \/ EndBatch(w) \/ VisitNext(w)
          \/ LeaveDirectory(w) \/ PublishRest(w) \/ PublishChunk(w) \/ PublishDone(w)
          \/ LeaveAfterQuit(w) \/ NotifyEnds(w) \/ FinishUnit(w) \/ FinishLastUnit(w)
      BY ZenonT(120), <2>12 DEF TaskStep, Evaluates
    <3>2. j.step \notin {"open", "list", "eval", "release"}
      BY <2>1, <3>1 DEF At, StartChunk, StartResume, EndTask, EndBatch, VisitNext, LeaveDirectory,
         PublishRest, PublishChunk, PublishDone, LeaveAfterQuit, NotifyEnds, FinishUnit, FinishLastUnit
    <3> QED
      BY <2>3, <3>2
  <2> QED
    BY <2>6, <2>7, <2>8, <2>9, <2>10, <2>11, <2>12
<1> QED
  BY <1>1, <1>2

LEMMA CallGoesOn ==
  ASSUME EngineInv, EngineInv', BodiesKnown, CountsInv, NEW w \in Worker, TaskStep(w),
         NEW q, NEW i, NEW x, NEW n, NEW t, NEW s, CallHeld(q, i, x, n, t, s)
  PROVE  Outcome(n, t)
<1>0. PICK h, k, l : x = <<h, k, l>> /\ InCalls(job[q].frames, n, t, h, k, l)
  BY DEF CallHeld, InCalls
<1>a. q \in Worker /\ i = -4 /\ s = "new"
  BY DEF CallHeld
<1>1. CASE InCalls(job'[q].frames, n, t, h, k, l)
  <2>1. CallHeld(q, i, x, n, t, s)'
    BY <1>0, <1>a, <1>1 DEF CallHeld
  <2> QED
    BY <2>1 DEF Outcome, GoesOn, Held
<1>2. CASE ~InCalls(job'[q].frames, n, t, h, k, l)
  <2>1. q = w
    BY <1>0, <1>a, <1>2, OnlyOwnJob DEF EngineInv
  <2>2. CallsChange(w, n, t, h, k, l)
    BY CallsAfter
  <2>3. PICK j, jj : j = job[w] /\ jj = job'[w]
    OBVIOUS
  <2>4. j \in WalkJob /\ j.frames \in Seq(WalkFrame) /\ AtNode(j) /\ BodyAfter(w, j, jj)
    BY <2>3, BodyChanges DEF EngineInv, JobsFit, WalkJob
  <2>5. n \in Walked /\ n \in Node /\ t \in Nat
    BY <1>0, <2>1, <2>3, <2>4, CallIs DEF Walked
  <2>6. CASE TakenNode(w, h, k, l)
    <3>1. VisitNext(w) /\ h = Len(j.frames) /\ k = Len(Head(j.frames).nodes) /\ l = 0
      BY <2>3, <2>6 DEF TakenNode
    <3>2. /\ j.frames # <<>> /\ Head(j.frames).kind = "batch" /\ Head(j.frames).nodes # <<>>
          /\ jj.frames = <<[Head(j.frames) EXCEPT !.nodes = Tail(@)]>> \o Tail(j.frames)
          /\ jj.at = Head(Head(j.frames).nodes) /\ jj.notify = Head(j.frames).barrier
          /\ Visit(jj.at) = "error" => jj.step = "notify"
          /\ Visit(jj.at) = "complete" => jj.step = CompleteStep(jj.at)
          /\ Visit(jj.at) = "list" => jj.step = "open"
      BY <2>4, <3>1 DEF BodyAfter
    <3>3. n = jj.at /\ t = jj.notify
      <4>1. NodeLess(j.frames, jj.frames)
        BY <3>2 DEF NodeLess
      <4> QED
        BY SMTT(120), <1>0, <1>2, <2>1, <2>3, <2>4, <3>2, <4>1, NodeTaken
    <3>4. ASSUME jj.step \in {"open", "eval"} PROVE Outcome(n, t)
      <4>1. PICK r : r = IF jj.step \in {"open", "list"} THEN "listed" ELSE "ready"
        OBVIOUS
      <4>2. BusyHeld(w, -2, <<0, 0, 0>>, n, t, r)'
        BY <2>3, <3>3, <3>4, <4>1 DEF BusyHeld, BusyWith
      <4> QED
        BY <4>2 DEF Outcome, GoesOn, Held
    <3>5. CASE Visit(n) = "list"
      BY <3>2, <3>3, <3>4, <3>5
    <3>6. CASE Visit(n) = "complete" /\ IsEvaluatedAt(n)
      BY <3>2, <3>3, <3>4, <3>6 DEF CompleteStep
    <3>7. CASE Visit(n) = "error" \/ (Visit(n) = "complete" /\ ~IsEvaluatedAt(n))
      <4>1. Below(n) = {} /\ n \notin PostOrderEntries
        BY <2>5, <3>7, NothingBelow, EntriesAre
      <4>2. n \in FaultyNodes => n \in errors'
        <5>1. n \in FaultyNodes => Visit(n) = "error"
          BY ZenonT(120), <2>5, <3>7, FaultyWhen
        <5>2. n = Head(Head(job[w].frames).nodes)
          BY <2>3, <3>2, <3>3
        <5>3. Visit(n) = "error" => errors' = errors \cup {n}
          BY <3>1, <5>2, ErrorsGrow
        <5> QED
          BY <5>1, <5>3
      <4>3. Finished(n)'
        BY <2>5, <4>1, <4>2, NowFinished
      <4> QED
        BY <4>3 DEF Outcome
    <3> QED
      BY <3>5, <3>6, <3>7, VisitIs
  <2>7. ASSUME EndBatch(w) \/ LeaveDirectory(w) \/ LeaveAfterQuit(w) \/ EvalFails(w)
               \/ (~accept /\ PublishChunk(w)),
               quit' \/ failed' # {}
        PROVE  Outcome(n, t)
    <3>1. t # NoBarrier => Loses(t)
      <4> SUFFICES ASSUME t # NoBarrier PROVE Loses(t)
        OBVIOUS
      <4>1. t \in Nat \ {0} /\ Balanced(t)
        BY <2>5 DEF CountsInv, NoBarrier
      <4> QED
        BY <1>0, <1>2, <2>1, <2>7, <4>1, CallDropped
    <3> QED
      BY <2>7, <3>1 DEF Outcome, Dropped
  <2>8. CASE TakenChunk(w, h, k)
    <3>1. PublishChunk(w) /\ h = Len(j.frames) /\ k = Len(Head(j.frames).chunks)
      BY <2>3, <2>8 DEF TakenChunk
    <3>2. CASE accept
      <4>1. /\ j.frames # <<>> /\ Head(j.frames).kind = "dir" /\ Head(j.frames).chunks # <<>>
            /\ jj.frames = <<[Head(j.frames) EXCEPT !.chunks = Tail(@)]>> \o Tail(j.frames)
        BY <2>4, <3>1 DEF BodyAfter, AtNode
      <4>2. t = Head(j.frames).barrier /\ AtEnd(Head(Head(j.frames).chunks), n, l)
        <5>1. PICK fs, gs : fs = j.frames /\ gs = jj.frames
          OBVIOUS
        <5>2. /\ fs \in Seq(WalkFrame) /\ fs # <<>> /\ Head(fs).kind = "dir" /\ Head(fs).chunks # <<>>
              /\ ChunkLess(fs, gs)
          BY <2>4, <4>1, <5>1 DEF ChunkLess
        <5>3. InCalls(fs, n, t, h, k, l) /\ ~InCalls(gs, n, t, h, k, l)
          BY <1>0, <1>2, <2>1, <2>3, <5>1
        <5>4. t = Head(fs).barrier /\ AtEnd(Head(Head(fs).chunks), n, l)
          BY <5>2, <5>3, ChunkTaken
        <5> QED
          BY <5>1, <5>4
      <4>3. PICK u : u = ChunkTask(Head(Head(j.frames).chunks), Head(j.frames).barrier)
        OBVIOUS
      <4>4. WaitsAt(u, w, -1)'
        <5>1. Publishes(w, u)
          BY <2>3, <3>1, <3>2, <4>3 DEF Publishes
        <5> QED
          BY <5>1, WaitsAfter
      <4>5. InTask(u, n, t, "new", l)
        BY <4>2, <4>3 DEF InTask, ChunkTask
      <4>6. PICK y : y = <<0, l, 0>>
        OBVIOUS
      <4>7. TaskHeld(w, -1, y, n, t, "new")'
        BY <4>4, <4>5, <4>6 DEF TaskHeld, InTask, AtEnd
      <4> QED
        BY <4>7 DEF Outcome, GoesOn, Held
    <3>3. CASE ~accept
      BY <2>7, <3>1, <3>3, StopsKnown
    <3> QED
      BY <3>2, <3>3
  <2>9. CASE GivesUp(w) /\ ~TakenChunk(w, h, k)
    <3>1. CASE EndBatch(w) /\ Head(job[w].frames).nodes # <<>>
      <4>1. quit \/ fatal
        BY <3>1 DEF EndBatch, Stopping
      <4> QED
        BY <2>7, <3>1, <4>1, StopsKnown
    <3>2. CASE LeaveDirectory(w)
      <4>1. ~accept
        BY <3>2 DEF LeaveDirectory
      <4> QED
        BY <2>7, <3>2, <4>1, StopsKnown
    <3>3. CASE LeaveAfterQuit(w)
      <4>1. quit
        BY <3>3 DEF LeaveAfterQuit, At, BodiesKnown
      <4> QED
        BY <2>7, <3>3, <4>1, StopsKnown
    <3>4. CASE EvalFails(w)
      <4>1. failed' # {}
        BY <3>4 DEF EvalFails, S!TaskReturns
      <4> QED
        BY <2>7, <3>4, <4>1
    <3>5. CASE AbandonListing(w) \/ ReleaseDirectory(w)
      <4>1. jj.frames = j.frames
        BY <2>4, <3>5 DEF BodyAfter
      <4> QED
        BY <1>0, <1>2, <2>1, <2>3, <4>1
    <3>6. CASE ~accept /\ PublishChunk(w)
      BY <2>7, <3>6, StopsKnown
    <3> QED
      BY <2>9, <3>1, <3>2, <3>3, <3>4, <3>5, <3>6 DEF GivesUp
  <2> QED
    BY <1>0, <1>2, <2>1, <2>2, <2>6, <2>8, <2>9 DEF CallsChange
<1> QED
  BY <1>1, <1>2

(* The loop keeps the tasks; one that is taken after a stop is dropped. *)
LEMMA LoopGoesOn ==
  ASSUME EngineInv, EngineInv', BodiesKnown, CountsInv, NEW w \in Worker, LoopStep(w),
         NEW q, NEW i, NEW x, NEW n, NEW t, NEW s, Held(q, i, x, n, t, s)
  PROVE  (\E r, j : Held(r, j, x, n, t, s)') \/ Dropped(t)
<1>0. /\ S!TypeOK /\ SP!TypeOK /\ SP!WorkerLoop(w) /\ SP!Worker = Worker
      /\ pc \in [Worker -> S!Location] /\ QueuesFit
  BY SchedulerTypes, SameLoop DEF LoopStep, Worker, S!Worker, SP!Worker, S!TypeOK, EngineInv
<1>a. job' = job
  BY EngineLoopMoves
<1>1. CASE ~TaskHeld(q, i, x, n, t, s)
  <2>1. BusyHeld(q, i, x, n, t, s)' \/ RecordHeld(q, i, x, n, t, s)' \/ CallHeld(q, i, x, n, t, s)'
    BY <1>1, LoopKeepsBodies DEF Held
  <2>2. Held(q, i, x, n, t, s)'
    BY <2>1 DEF Held
  <2> QED
    BY <2>2
<1>2. CASE TaskHeld(q, i, x, n, t, s)
  <2>1. PICK u, k : WaitsAt(u, q, i) /\ InTask(u, n, t, s, k) /\ x = <<0, k, 0>>
    BY <1>2 DEF TaskHeld, InTask
  <2>2. SP!TaskAt(u, q, i) /\ (i = 0 => pc[q] = "got" \/ At(q, "idle"))
    BY <2>1 DEF WaitsAt
  <2>3. ASSUME NEW r, NEW j, WaitsAt(u, r, j)' PROVE Held(r, j, x, n, t, s)'
    <3>1. TaskHeld(r, j, x, n, t, s)'
      BY <2>1, <2>3 DEF TaskHeld, InTask, AtEnd
    <3> QED
      BY <3>1 DEF Held
  <2>4. \/ \E r, j : SP!TaskAt(u, r, j)' /\ (j = 0 => (q = r /\ i = 0) \/ pc'[r] = "got")
        \/ q = w /\ i = 0 /\ pc[w] = "finish"
    BY <1>0, <2>2, SP!TasksStay, RootsAreTasks
  <2>5. ~(q = w /\ i = 0 /\ pc[w] = "finish")
    BY <2>2 DEF At
  <2>6. PICK r, j : SP!TaskAt(u, r, j)' /\ (j = 0 => (q = r /\ i = 0) \/ pc'[r] = "got")
    BY <2>4, <2>5
  <2>7. CASE j = 0 /\ pc'[r] # "got"
    <3>1. q = r /\ i = 0 /\ q \in Worker
      BY <1>0, <2>2, <2>6, <2>7, TaskPlaces
    <3>2. PICK b \in S!Location : pc' = [pc EXCEPT ![w] = b] /\ SP!LoopMove(w, pc[w], b)
      BY EngineLoopMoves
    <3>3. CASE q # w
      <4>1. pc'[q] = pc[q]
        BY <1>0, <3>1, <3>2, <3>3
      <4>2. WaitsAt(u, r, j)'
        BY <1>a, <2>2, <2>6, <3>1, <4>1 DEF WaitsAt, At
      <4> QED
        BY <2>3, <4>2
    <3>4. CASE q = w
      <4>1. pc'[w] = b /\ pc[w] \in {"got", "run"}
        BY <1>0, <2>2, <3>1, <3>2, <3>4 DEF At
      <4>2. b \in {"got", "run"} \/ (pc[w] = "got" /\ b = "finish" /\ ~accept)
        BY <3>2, <4>1 DEF SP!LoopMove, SP!Searching
      <4>3. CASE b \in {"got", "run"}
        <5>1. job[w].step = "idle"
          BY <2>2, <3>1, <3>4 DEF At, BodiesKnown, NoJob
        <5>2. pc'[r] = "got" \/ At(r, "idle")'
          BY <1>a, <3>1, <3>4, <4>1, <4>3, <5>1 DEF At
        <5>3. WaitsAt(u, r, j)'
          BY <2>6, <5>2 DEF WaitsAt
        <5> QED
          BY <2>3, <5>3
      <4>4. CASE pc[w] = "got" /\ b = "finish" /\ ~accept
        <5>1. quit' \/ failed' # {}
          BY <4>4, StopsKnown
        <5>2. u = task[w] /\ u \in WalkTask /\ u.barrier = t
          <6>1. Worker \subseteq Nat \ {0} /\ Len(injector) \in Nat /\ \A v \in Worker : Len(deque[v]) \in Nat
            BY <1>0 DEF S!TypeOK, Worker, S!Worker
          <6>2. u = task[w]
            BY <2>2, <3>1, <3>4, <6>1 DEF SP!TaskAt
          <6> QED
            BY <1>0, <2>1, <4>4, <6>2 DEF InTask, QueuesFit
        <5>3. t # NoBarrier => Loses(t)
          <6> SUFFICES ASSUME t # NoBarrier PROVE Loses(t)
            OBVIOUS
          <6>1. t \in Nat \ {0} /\ Balanced(t)
            BY <5>2 DEF WalkTask, Barrier, CountsInv, NoBarrier
          <6> QED
            BY <4>1, <4>4, <5>2, <6>1, TaskDropped
        <5> QED
          BY <5>1, <5>3 DEF Dropped
      <4> QED
        BY <4>2, <4>3, <4>4
    <3> QED
      BY <3>3, <3>4
  <2>8. CASE ~(j = 0 /\ pc'[r] # "got")
    <3>1. WaitsAt(u, r, j)'
      BY <2>6, <2>8 DEF WaitsAt
    <3> QED
      BY <2>3, <3>1
  <2> QED
    BY <2>7, <2>8
<1> QED
  BY <1>1, <1>2

-----------------------------------------------------------------------------
(* What is held is on its way to a barrier                                 *)

LEMMA TaskKnown ==
  ASSUME EngineInv, NEW u, NEW q, NEW i, SP!TaskAt(u, q, i)
  PROVE  u \in WalkTask
<1>0. /\ QueuesFit /\ SP!Worker = Worker
      /\ pc \in [Worker -> S!Location]
  BY SchedulerTypes DEF EngineInv, S!TypeOK, SP!Worker, S!Worker, Worker
<1>1. CASE q = 0 /\ i \in 1..Len(injector) /\ u = injector[i]
  BY <1>0, <1>1, ElementOfSeq DEF QueuesFit
<1>2. CASE q \in Worker /\ i \in 1..Len(deque[q]) /\ u = deque[q][i]
  <2>1. deque[q] \in Seq(WalkTask)
    BY <1>0, <1>2 DEF QueuesFit
  <2> QED
    BY <1>2, <2>1, ElementOfSeq
<1>3. CASE q \in SP!InHand /\ i = 0 /\ u = task[q]
  BY <1>0, <1>3 DEF QueuesFit, SP!InHand
<1>4. CASE q \in SP!Publishing /\ i = -1 /\ u = pub[q]
  BY <1>0, <1>4 DEF QueuesFit, SP!Publishing
<1> QED
  BY <1>0, <1>1, <1>2, <1>3, <1>4 DEF SP!TaskAt

(* One task at each place. *)
LEMMA OneTaskAt ==
  ASSUME EngineInv, NEW u, NEW v, NEW q, NEW i, SP!TaskAt(u, q, i), SP!TaskAt(v, q, i)
  PROVE  u = v
<1>1. SP!Worker = Worker /\ 0 \notin Worker /\ Len(injector) \in Nat /\ \A p \in Worker : Len(deque[p]) \in Nat
  BY SchedulerTypes DEF S!TypeOK, SP!Worker, S!Worker, Worker
<1>2. SP!InHand \subseteq Worker /\ SP!Publishing \subseteq Worker
  BY <1>1 DEF SP!InHand, SP!Publishing
<1> QED
  BY <1>1, <1>2 DEF SP!TaskAt

(* What is held is a node the walk gets to. *)
LEMMA HeldKnown ==
  ASSUME EngineInv, NEW q, NEW i, NEW x, NEW n, NEW t, NEW s, Held(q, i, x, n, t, s)
  PROVE  n \in Walked /\ n \in Node /\ t \in Nat /\ s \in {"new", "listed", "waiting", "ready"}
<1>1. CASE TaskHeld(q, i, x, n, t, s)
  <2>1. PICK u, k : WaitsAt(u, q, i) /\ InTask(u, n, t, s, k)
    BY <1>1 DEF TaskHeld
  <2>2. u \in WalkTask
    BY <2>1, TaskKnown DEF WaitsAt
  <2>3. u.nodes \in Seq(Walked) /\ u.nodes # <<>> /\ u.barrier \in Nat
    BY <2>2 DEF WalkTask, Chunk, Barrier
  <2>4. n \in Walked
    <3>1. CASE u.resume
      <4>1. Len(u.nodes) \in Nat \ {0}
        BY <2>3, LenProperties, EmptySeq
      <4> QED
        BY <2>1, <2>3, <3>1, <4>1 DEF InTask
    <3>2. CASE ~u.resume
      BY <2>1, <2>3, <3>2, EndIs DEF InTask
    <3> QED
      BY <3>1, <3>2
  <2>5. t = u.barrier /\ s \in {"new", "ready"}
    BY <2>1 DEF InTask
  <2> QED
    BY <2>3, <2>4, <2>5 DEF Walked
<1>2. CASE BusyHeld(q, i, x, n, t, s)
  <2>1. PICK j : j = job[q]
    OBVIOUS
  <2>2. j \in WalkJob /\ AtNode(j) /\ BusyWith(j, n, t, s)
    BY <1>2, <2>1 DEF BusyHeld, EngineInv, JobsFit
  <2> QED
    BY <2>2 DEF BusyWith, AtNode, WalkJob, Barrier, Walked
<1>3. CASE RecordHeld(q, i, x, n, t, s)
  <2>1. barriers[q] \in WalkRecord
    BY <1>3 DEF RecordHeld, EngineInv, TableFits
  <2> QED
    BY <1>3, <2>1 DEF RecordHeld, WalkRecord, Barrier, Walked
<1>4. CASE CallHeld(q, i, x, n, t, s)
  <2>1. PICK h, k, l : q \in Worker /\ s = "new" /\ InCalls(job[q].frames, n, t, h, k, l)
    BY <1>4 DEF CallHeld
  <2>2. job[q].frames \in Seq(WalkFrame)
    BY <2>1 DEF EngineInv, JobsFit, WalkJob
  <2> QED
    BY <2>1, <2>2, CallIs DEF Walked
<1> QED
  BY <1>1, <1>2, <1>3, <1>4 DEF Held

(* The place says what a node is to be reported to, and how far it got. *)
LEMMA PlaceFixes ==
  ASSUME EngineInv, NEW q, NEW i, NEW x, NEW n, NEW t, NEW s, NEW v, NEW r,
         Held(q, i, x, n, t, s), Held(q, i, x, n, v, r)
  PROVE  t = v /\ s = r
<1>0. S!TypeOK
  BY SchedulerTypes
<1>1. CASE TaskHeld(q, i, x, n, t, s)
  <2>1. TaskHeld(q, i, x, n, v, r)
    BY <1>0, <1>1, HeldAt DEF Held
  <2>2. PICK u1, k1 : WaitsAt(u1, q, i) /\ InTask(u1, n, t, s, k1)
    BY <1>1 DEF TaskHeld
  <2>3. PICK u2, k2 : WaitsAt(u2, q, i) /\ InTask(u2, n, v, r, k2)
    BY <2>1 DEF TaskHeld
  <2>4. u1 = u2
    BY <2>2, <2>3, OneTaskAt DEF WaitsAt
  <2> QED
    BY <2>2, <2>3, <2>4 DEF InTask
<1>2. CASE BusyHeld(q, i, x, n, t, s)
  <2>1. BusyHeld(q, i, x, n, v, r)
    BY <1>0, <1>2, HeldAt DEF Held, BusyHeld, RecordHeld, CallHeld
  <2> QED
    BY <1>2, <2>1 DEF BusyHeld, BusyWith
<1>3. CASE RecordHeld(q, i, x, n, t, s)
  <2>1. RecordHeld(q, i, x, n, v, r)
    BY <1>0, <1>3, HeldAt DEF Held, BusyHeld, RecordHeld, CallHeld
  <2> QED
    BY <1>3, <2>1 DEF RecordHeld
<1>4. CASE CallHeld(q, i, x, n, t, s)
  <2>1. CallHeld(q, i, x, n, v, r)
    BY <1>0, <1>4, HeldAt DEF Held, BusyHeld, RecordHeld, CallHeld
  <2>2. PICK fs : fs = job[q].frames
    OBVIOUS
  <2>3. PICK h1, k1, l1 : x = <<h1, k1, l1>> /\ InCalls(fs, n, t, h1, k1, l1)
    BY <1>4, <2>2 DEF CallHeld
  <2>4. PICK h2, k2, l2 : x = <<h2, k2, l2>> /\ InCalls(fs, n, v, h2, k2, l2)
    BY <2>1, <2>2 DEF CallHeld
  <2>5. h1 = h2
    BY <2>3, <2>4
  <2>6. t = v
    BY <2>3, <2>4, <2>5 DEF InCalls, AtEnd
  <2> QED
    BY <1>4, <2>1, <2>6 DEF CallHeld
<1> QED
  BY <1>1, <1>2, <1>3, <1>4 DEF Held

(* What is on its way to t: a record, a task, what a call holds, or what a   *)
(* worker that is not reporting is busy with.                                *)
OnItsWay(t) ==
  RecordsBelow(t) # {} \/ TasksFor(t) # {} \/ HeldFor(t) # {} \/ \E v \in BusyFor(t) : job[v].step # "notify"

LEMMA TaskIsUnstarted ==
  ASSUME EngineInv, NEW u, NEW q, NEW i, SP!TaskAt(u, q, i), i = 0 => pc[q] = "got"
  PROVE  TasksFor(u.barrier) # {}
<1>1. /\ SP!Worker = Worker /\ 0 \notin Worker /\ QueuesFit
      /\ Len(injector) \in Nat /\ \A p \in Worker : Len(deque[p]) \in Nat
  BY SchedulerTypes DEF EngineInv, S!TypeOK, SP!Worker, S!Worker, Worker
<1>2. u \in WalkTask
  BY TaskKnown
<1>3. PICK U : U = TasksTo(u.barrier)
  OBVIOUS
<1>4. u \in U
  BY <1>2, <1>3 DEF TasksTo
<1>5. PICK e : e = <<q, i>>
  OBVIOUS
<1>6. e \in SP!SlotsOf(injector, deque, SP!Got, SP!Publishing)
  <2>1. CASE q = 0 /\ i \in 1..Len(injector)
    BY <1>5, <2>1, SP!SlotMembership, RootsAreTasks
  <2>2. CASE q \in Worker /\ i \in 1..Len(deque[q])
    BY <1>1, <1>5, <2>2, SP!SlotMembership, RootsAreTasks
  <2>3. CASE q \in SP!InHand /\ i = 0
    <3>1. q \in SP!Got
      BY <2>3 DEF SP!InHand, SP!Got
    <3> QED
      BY <1>5, <2>3, <3>1, SP!SlotMembership, RootsAreTasks
  <2>4. CASE q \in SP!Publishing /\ i = -1
    BY <1>5, <2>4, SP!SlotMembership, RootsAreTasks
  <2> QED
    BY <1>1, <2>1, <2>2, <2>3, <2>4 DEF SP!TaskAt
<1>7. (IF e[1] = 0 THEN injector[e[2]]
       ELSE IF e[2] = 0 THEN task[e[1]]
       ELSE IF e[2] = -1 THEN pub[e[1]] ELSE deque[e[1]][e[2]]) = u
  <2>1. e[1] = q /\ e[2] = i
    BY <1>5
  <2>2. SP!InHand \subseteq Worker /\ SP!Publishing \subseteq Worker
    BY <1>1 DEF SP!InHand, SP!Publishing
  <2>3. CASE q = 0
    BY <1>1, <2>1, <2>2, <2>3 DEF SP!TaskAt
  <2>4. CASE q # 0
    <3>1. q \in Worker /\ Len(deque[q]) \in Nat
      BY <1>1, <2>2, <2>4 DEF SP!TaskAt
    <3> QED
      BY <1>1, <2>1, <2>2, <2>4, <3>1 DEF SP!TaskAt
  <2> QED
    BY <2>3, <2>4
<1>8. e \in SP!UnstartedIn(U)
  BY <1>4, <1>6, <1>7 DEF SP!UnstartedIn, SP!UnstartedOf
<1>9. TasksFor(u.barrier) = SP!UnstartedIn(U)
  BY <1>1, <1>3, TasksForIs DEF TasksAreUnstarted
<1> QED
  BY <1>8, <1>9

LEMMA HeldIsOnItsWay ==
  ASSUME EngineInv, NEW q, NEW i, NEW x, NEW n, NEW t, NEW s, Held(q, i, x, n, t, s)
  PROVE  OnItsWay(t)
<1>0. S!TypeOK
  BY SchedulerTypes
<1>1. CASE TaskHeld(q, i, x, n, t, s)
  <2>1. PICK u, k : WaitsAt(u, q, i) /\ InTask(u, n, t, s, k)
    BY <1>1 DEF TaskHeld
  <2>2. SP!TaskAt(u, q, i) /\ (i = 0 => pc[q] = "got" \/ At(q, "idle")) /\ u.barrier = t
    BY <2>1 DEF WaitsAt, InTask
  <2>3. CASE i = 0 => pc[q] = "got"
    <3>1. TasksFor(u.barrier) # {}
      BY <2>2, <2>3, TaskIsUnstarted
    <3> QED
      BY <2>2, <3>1 DEF OnItsWay
  <2>4. CASE i = 0 /\ At(q, "idle")
    <3>1. q \in Worker /\ Worker \subseteq Nat \ {0} /\ Len(injector) \in Nat
          /\ \A v \in Worker : Len(deque[v]) \in Nat
      BY SMTT(120), <1>0, <2>2, <2>4, TaskPlaces DEF S!TypeOK, Worker, S!Worker
    <3>2. u = task[q]
      BY <2>2, <2>4, <3>1 DEF SP!TaskAt
    <3>3. q \in BusyFor(t) /\ job[q].step # "notify"
      BY <2>2, <2>4, <3>1, <3>2 DEF BusyFor, At
    <3> QED
      BY <3>3 DEF OnItsWay
  <2> QED
    BY <2>2, <2>3, <2>4
<1>2. CASE BusyHeld(q, i, x, n, t, s)
  <2>1. q \in BusyFor(t) /\ job[q].step # "notify"
    BY <1>2 DEF BusyHeld, BusyWith, BusyFor
  <2> QED
    BY <2>1 DEF OnItsWay
<1>3. CASE RecordHeld(q, i, x, n, t, s)
  <2>1. q \in RecordsBelow(t)
    BY <1>3 DEF RecordHeld, RecordsBelow
  <2> QED
    BY <2>1 DEF OnItsWay
<1>4. CASE CallHeld(q, i, x, n, t, s)
  <2>1. PICK h, k, l : q \in Worker /\ InCalls(job[q].frames, n, t, h, k, l)
    BY <1>4 DEF CallHeld
  <2>2. job[q].frames \in Seq(WalkFrame)
    BY <2>1 DEF EngineInv, JobsFit, WalkJob
  <2>3. PlaceIn(job[q].frames, t, h, k)
    BY <2>1, <2>2, PlaceOfCall
  <2>4. PICK e : e = <<q, h, k>>
    OBVIOUS
  <2>5. e \in HeldIn(job, t)
    BY <2>1, <2>3, <2>4, HeldPlaces
  <2> QED
    BY <2>5, HeldIs DEF OnItsWay
<1> QED
  BY <1>1, <1>2, <1>3, <1>4 DEF Held

(* So a barrier that something is on its way to waits, and waits for one more *)
(* when a unit is just being reported to it.                                 *)
LEMMA OnItsWayCounts ==
  ASSUME EngineInv, CountsInv, NEW t \in Nat \ {0}, OnItsWay(t)
  PROVE  /\ t \in DOMAIN barriers /\ DueIn(barriers, t) \in Nat /\ DueIn(barriers, t) >= 1
         /\ \A w \in Worker : job[w].step = "notify" /\ job[w].notify = t => DueIn(barriers, t) >= 2
<1>1. Finite(t) /\ UnitsOf(t) <= DueIn(barriers, t)
  BY DEF CountsInv, Balanced
<1>2. PICK B, T, H, C, D :
        /\ B = Cardinality(RecordsBelow(t)) /\ T = Cardinality(TasksFor(t))
        /\ H = Cardinality(HeldFor(t)) /\ C = Cardinality(BusyFor(t)) /\ D = DueIn(barriers, t)
  OBVIOUS
<1>3. /\ B \in Nat /\ T \in Nat /\ H \in Nat /\ C \in Nat /\ D \in Nat
      /\ UnitsOf(t) = B + T + H + C
  BY <1>1, <1>2, NumbersAre DEF UnitsOf
<1>4. B + T + H + C <= D
  BY <1>1, <1>2, <1>3
<1>5. IsFiniteSet(BusyFor(t))
  <2>1. BusyFor(t) \subseteq 1..NWorkers
    BY DEF BusyFor, Worker, S!Worker
  <2>2. NWorkers \in Int
    BY PostOrderAssumption
  <2>3. IsFiniteSet(1..NWorkers)
    BY <2>2, FS_Interval
  <2> QED
    BY <2>1, <2>3, FS_Subset
<1>6. CASE RecordsBelow(t) # {} \/ TasksFor(t) # {} \/ HeldFor(t) # {}
  <2>1. B # 0 \/ T # 0 \/ H # 0
    BY <1>1, <1>2, <1>6, FS_EmptySet DEF Finite
  <2>2. D >= 1
    BY <1>3, <1>4, <2>1
  <2>3. ASSUME NEW w \in Worker, job[w].step = "notify", job[w].notify = t PROVE D >= 2
    <3>1. w \in BusyFor(t)
      BY <2>3 DEF BusyFor
    <3>2. C # 0
      BY <1>2, <1>5, <3>1, FS_EmptySet
    <3> QED
      BY <1>3, <1>4, <2>1, <3>2
  <2> QED
    BY <1>2, <1>3, <2>2, <2>3 DEF DueIn
<1>7. ASSUME NEW v \in BusyFor(t), job[v].step # "notify"
      PROVE  /\ D >= 1
             /\ \A w \in Worker : job[w].step = "notify" /\ job[w].notify = t => D >= 2
  <2>1. C # 0
    BY <1>2, <1>5, <1>7, FS_EmptySet
  <2>2. ASSUME NEW w \in Worker, job[w].step = "notify", job[w].notify = t PROVE D >= 2
    <3>1. w \in BusyFor(t) /\ w # v
      BY <1>7, <2>2 DEF BusyFor
    <3>2. IsFiniteSet(BusyFor(t) \ {w}) /\ Cardinality(BusyFor(t) \ {w}) = C - 1
      BY <1>2, <1>5, <3>1, FS_RemoveElement
    <3>3. v \in BusyFor(t) \ {w}
      BY <1>7, <3>1
    <3>4. C - 1 # 0
      BY <3>2, <3>3, FS_EmptySet
    <3> QED
      BY <1>3, <1>4, <2>1, <3>4
  <2> QED
    BY <1>3, <1>4, <2>1, <2>2
<1>8. CASE \E v \in BusyFor(t) : job[v].step # "notify"
  BY <1>2, <1>3, <1>7, <1>8 DEF DueIn
<1> QED
  BY <1>6, <1>8 DEF OnItsWay

(* What is said above of what is held. *)
HeldFits == \A q, i, x, n, t, s : Held(q, i, x, n, t, s) =>
  /\ n \in Walked /\ n \in Node /\ t \in Nat /\ s \in {"new", "listed", "waiting", "ready"}
  /\ t # NoBarrier => t \in DOMAIN barriers
PlacesFix == \A q, i, x, n, t, s, v, r :
  Held(q, i, x, n, t, s) /\ Held(q, i, x, n, v, r) => t = v /\ s = r

LEMMA HeldIsFixed == EngineInv /\ CountsInv => HeldFits /\ PlacesFix
<1> SUFFICES ASSUME EngineInv, CountsInv PROVE HeldFits /\ PlacesFix
  OBVIOUS
<1>1. PlacesFix
  BY PlaceFixes DEF PlacesFix
<1>2. HeldFits
  <2> SUFFICES ASSUME NEW q, NEW i, NEW x, NEW n, NEW t, NEW s, Held(q, i, x, n, t, s)
               PROVE  /\ n \in Walked /\ n \in Node /\ t \in Nat /\ s \in {"new", "listed", "waiting", "ready"}
                      /\ t # NoBarrier => t \in DOMAIN barriers
    BY DEF HeldFits
  <2>1. n \in Walked /\ n \in Node /\ t \in Nat /\ s \in {"new", "listed", "waiting", "ready"}
    BY HeldKnown
  <2>2. OnItsWay(t)
    BY HeldIsOnItsWay
  <2>3. t # NoBarrier => t \in DOMAIN barriers
    BY <2>1, <2>2, OnItsWayCounts DEF NoBarrier
  <2> QED
    BY <2>1, <2>3
<1> QED
  BY <1>1, <1>2

LEMMA TaskOutcome ==
  ASSUME EngineInv, EngineInv', BodiesKnown, CountsInv, ListingsKnown, Prepared,
         NEW w \in Worker, TaskStep(w),
         NEW q, NEW i, NEW x, NEW n, NEW t, NEW s, Held(q, i, x, n, t, s)
  PROVE  Outcome(n, t)
<1>1. CASE TaskHeld(q, i, x, n, t, s)
  BY <1>1, TaskGoesOn DEF Outcome
<1>2. CASE BusyHeld(q, i, x, n, t, s)
  BY <1>2, BusyGoesOn
<1>3. CASE RecordHeld(q, i, x, n, t, s)
  BY <1>3, RecordGoesOn DEF Outcome
<1>4. CASE CallHeld(q, i, x, n, t, s)
  BY <1>4, CallGoesOn
<1> QED
  BY <1>1, <1>2, <1>3, <1>4 DEF Held

-----------------------------------------------------------------------------
(* Every node is in one place, and is evaluated once                       *)

OnePlace ==
  \A n, q1, i1, x1, t1, s1, q2, i2, x2, t2, s2 :
    Held(q1, i1, x1, n, t1, s1) /\ Held(q2, i2, x2, n, t2, s2) => q1 = q2 /\ i1 = i2 /\ x1 = x2

(* What is held was not evaluated yet. *)
AtMostOnce ==
  /\ \A n \in Node : evals[n] \in {0, 1}
  /\ \A q, i, x, n, t, s : Held(q, i, x, n, t, s) => evals[n] = 0

(* Below a node that was not split, nothing is held and nothing was evaluated. *)
Untouched ==
  \A q, i, x, n, t, s, d :
    Held(q, i, x, n, t, s) /\ s \in {"new", "listed"} /\ d \in Below(n) =>
      evals[d] = 0 /\ \A p, j, y, u, r : ~Held(p, j, y, d, u, r)

LEMMA MovesFromNew ==
  ASSUME NEW w, NEW n, NEW p, NEW j, NEW y, NEW u, NEW r, NEW q, NEW i, NEW x, NEW t, NEW s,
         Moves(w, n, p, j, y, u, r, q, i, x, t, s), s \in {"new", "listed"}
  PROVE  r \in {"new", "listed"}
BY DEF Moves, Goes

(* The directory that is split, and its children. *)
LEMMA BegunChild ==
  ASSUME EngineInv, ListingsKnown, NEW w \in Worker, NEW q, NEW i, NEW x, NEW n, NEW t, NEW s,
         Begins(w, q, i, x, n, t, s)
  PROVE  /\ n \in Children(job[w].at) /\ Parent(n) = job[w].at /\ n \in Node /\ job[w].at \in Node
         /\ Ancestors[n] = Ancestors[job[w].at] \cup {job[w].at}
         /\ n \in Below(job[w].at)
         /\ Held(w, -2, NoPlace, job[w].at, job[w].notify, "listed")
<1>1. BeginDirectory(w) /\ \E h, k, l : Begun(job[w], nextBarrier, n, t, h, k, l)
  BY DEF Begins
<1>2. PICK a : a = job[w].at
  OBVIOUS
<1>3. job[w].step = "list" /\ a \in Walked /\ Visit(a) = "list"
  <2>1. job[w].step = "list" /\ AtNode(job[w])
    BY <1>1 DEF BeginDirectory, At, EngineInv, JobsFit
  <2> QED
    BY <1>2, <2>1 DEF AtNode
<1>4. n \in Children(a) /\ a \in Node
  BY <1>1, <1>2, <1>3, BegunHolds DEF Walked
<1>5. n \in Node \ Root /\ Parent(n) = a
  BY <1>4, ParentOfChild
<1>6. Ancestors[n] = Ancestors[a] \cup {a}
  BY <1>5, AncestorsAre
<1>7. n \in Walked
  BY <1>3, <1>5, ReachedIs, VisitIs DEF Walked
<1>8. n \in Below(a)
  BY <1>6, <1>7 DEF Below
<1>9. BusyHeld(w, -2, NoPlace, a, job[w].notify, "listed")
  BY <1>2, <1>3 DEF BusyHeld, BusyWith, NoPlace
<1> QED
  BY <1>2, <1>4, <1>5, <1>6, <1>8, <1>9 DEF Held

LEMMA EvaluatedIsHeld ==
  ASSUME EngineInv, NEW w \in Worker, TaskStep(w), Evaluates(w)
  PROVE  job[w].at \in Walked /\ Held(w, -2, NoPlace, job[w].at, job[w].notify, "ready")
<1>1. job[w].step = "eval"
  BY EvalsGrow
<1>2. AtNode(job[w])
  BY DEF EngineInv, JobsFit
<1>3. BusyHeld(w, -2, NoPlace, job[w].at, job[w].notify, "ready")
  BY <1>1 DEF BusyHeld, BusyWith, NoPlace
<1> QED
  BY <1>1, <1>2, <1>3 DEF AtNode, Held

LEMMA OnePlaceAfter ==
  ASSUME EngineInv, EngineInv', BodiesKnown, ListingsKnown, OnePlace, Untouched, CountsInv,
         NEW w \in Worker, TaskStep(w)
  PROVE  OnePlace'
<1> SUFFICES ASSUME NEW n, NEW q1, NEW i1, NEW x1, NEW t1, NEW s1, NEW q2, NEW i2, NEW x2, NEW t2, NEW s2,
                    Held(q1, i1, x1, n, t1, s1)', Held(q2, i2, x2, n, t2, s2)'
             PROVE  q1 = q2 /\ i1 = i2 /\ x1 = x2
  BY DEF OnePlace
<1>1. ASSUME NEW q, NEW i, NEW x, NEW t, NEW s, ComesFrom(w, q, i, x, n, t, s),
             NEW p, NEW j, NEW y, NEW u, NEW r, Begins(w, p, j, y, n, u, r)
      PROVE  FALSE
  <2>1. n \in Below(job[w].at) /\ Held(w, -2, NoPlace, job[w].at, job[w].notify, "listed")
    BY <1>1, BegunChild
  <2>2. \A p1, j1, y1, u1, r1 : ~Held(p1, j1, y1, n, u1, r1)
    BY <2>1 DEF Untouched
  <2> QED
    BY <1>1, <2>2 DEF ComesFrom
<1>2. CASE ComesFrom(w, q1, i1, x1, n, t1, s1) /\ ComesFrom(w, q2, i2, x2, n, t2, s2)
  <2>1. PICK p, j, y, u, r : Held(p, j, y, n, u, r) /\ Moves(w, n, p, j, y, u, r, q1, i1, x1, t1, s1)
    BY <1>2 DEF ComesFrom
  <2>2. PICK p2, j2, y2, v, r2 : Held(p2, j2, y2, n, v, r2) /\ Moves(w, n, p2, j2, y2, v, r2, q2, i2, x2, t2, s2)
    BY <1>2 DEF ComesFrom
  <2>3. p = p2 /\ j = j2 /\ y = y2
    BY <2>1, <2>2 DEF OnePlace
  <2> QED
    BY <2>1, <2>2, <2>3, GoesToOnePlace
<1>3. CASE Begins(w, q1, i1, x1, n, t1, s1) /\ Begins(w, q2, i2, x2, n, t2, s2)
  <2>1. BeginDirectory(w) /\ q1 = w /\ i1 = -4 /\ q2 = w /\ i2 = -4
    BY <1>3 DEF Begins
  <2>2. PICK h, k, l : x1 = <<h, k, l>> /\ Begun(job[w], nextBarrier, n, t1, h, k, l)
    BY <1>3 DEF Begins
  <2>3. PICK h2, k2, l2 : x2 = <<h2, k2, l2>> /\ Begun(job[w], nextBarrier, n, t2, h2, k2, l2)
    BY <1>3 DEF Begins
  <2>4. h = h2 /\ k = k2 /\ l = l2
    BY <2>1, <2>2, <2>3, BegunHolds
  <2> QED
    BY <2>1, <2>2, <2>3, <2>4
<1>4. ComesFrom(w, q1, i1, x1, n, t1, s1) \/ Begins(w, q1, i1, x1, n, t1, s1)
  BY TaskOrigins
<1>5. ComesFrom(w, q2, i2, x2, n, t2, s2) \/ Begins(w, q2, i2, x2, n, t2, s2)
  BY TaskOrigins
<1> QED
  BY <1>1, <1>2, <1>3, <1>4, <1>5

LEMMA UntouchedAfter ==
  ASSUME EngineInv, EngineInv', BodiesKnown, ListingsKnown, CountsInv, CountsInv', OnePlace, OnePlace',
         Untouched, NEW w \in Worker, TaskStep(w)
  PROVE  Untouched'
<1> SUFFICES ASSUME NEW q, NEW i, NEW x, NEW n, NEW t, NEW s, NEW d,
                    Held(q, i, x, n, t, s)', s \in {"new", "listed"}, d \in Below(n)
             PROVE  evals'[d] = 0 /\ \A p, j, y, u, r : ~Held(p, j, y, d, u, r)'
  <2>1. \A m : Below(m)' = Below(m)
    BY DEF Below, Walked
  <2> QED
    BY <2>1 DEF Untouched
<1>0. d \in Node /\ d \in Walked /\ n \in Ancestors[d]
  BY DEF Below, Walked
<1>1. evals[d] = 0 /\ \A p, j, y, u, r : ~Held(p, j, y, d, u, r)
  <2>1. CASE ComesFrom(w, q, i, x, n, t, s)
    <3>1. PICK p, j, y, u, r : Held(p, j, y, n, u, r) /\ Moves(w, n, p, j, y, u, r, q, i, x, t, s)
      BY <2>1 DEF ComesFrom
    <3>2. r \in {"new", "listed"}
      BY <3>1, MovesFromNew
    <3> QED
      BY <3>1, <3>2 DEF Untouched
  <2>2. CASE Begins(w, q, i, x, n, t, s)
    <3>1. /\ job[w].at \in Ancestors[n] /\ Held(w, -2, NoPlace, job[w].at, job[w].notify, "listed")
      BY <2>2, BegunChild
    <3>2. d \in Below(job[w].at)
      BY <1>0, <3>1, AncestorsNest DEF Below
    <3> QED
      BY <3>1, <3>2 DEF Untouched
  <2> QED
    BY <2>1, <2>2, TaskOrigins
<1>2. evals'[d] = 0
  <2>1. CASE Evaluates(w)
    <3>1. d # job[w].at
      BY <1>1, <2>1, EvaluatedIsHeld
    <3> QED
      BY <1>0, <1>1, <2>1, <3>1, EvalsGrow DEF EngineInv
  <2>2. CASE ~Evaluates(w)
    BY <1>1, <2>2, EvalsGrow
  <2> QED
    BY <2>1, <2>2
<1>3. ASSUME NEW p, NEW j, NEW y, NEW u, NEW r, Held(p, j, y, d, u, r)' PROVE FALSE
  <2>1. ~ComesFrom(w, p, j, y, d, u, r)
    BY <1>1 DEF ComesFrom
  <2>2. Begins(w, p, j, y, d, u, r)
    BY <1>3, <2>1, TaskOrigins
  <2>3. PICK a : a = job[w].at
    OBVIOUS
  <2>4. /\ Ancestors[d] = Ancestors[a] \cup {a} /\ a \in Node /\ d \in Children(a)
        /\ Held(w, -2, NoPlace, a, job[w].notify, "listed") /\ BeginDirectory(w)
    <3>1. BeginDirectory(w)
      BY <2>2 DEF Begins
    <3>2. /\ d \in Children(job[w].at) /\ job[w].at \in Node
          /\ Ancestors[d] = Ancestors[job[w].at] \cup {job[w].at}
          /\ Held(w, -2, NoPlace, job[w].at, job[w].notify, "listed")
      BY <2>2, BegunChild
    <3> QED
      BY <2>3, <3>1, <3>2
  <2>5. CASE n = a
    <3>1. PICK b, c, z, v, o : b = nextBarrier /\ c = -3 /\ z = <<0, 0, 0>> /\ v = job[w].notify /\ o = "waiting"
      OBVIOUS
    <3>2. RecordHeld(b, c, z, a, v, o)'
      BY <2>3, <2>4, <3>1, RecordsAfter
    <3>3. Held(b, c, z, n, v, o)'
      BY <2>5, <3>2 DEF Held
    <3>4. b = q /\ c = i /\ z = x
      BY <3>3 DEF OnePlace
    <3>5. PlacesFix'
      BY HeldIsFixed, PTL
    <3>6. o = s
      BY <3>3, <3>4, <3>5 DEF PlacesFix
    <3> QED
      BY <3>1, <3>6
  <2>6. CASE n \in Ancestors[a]
    <3>1. CASE ComesFrom(w, q, i, x, n, t, s)
      <4>1. PICK p1, j1, y1, u1, r1 : /\ Held(p1, j1, y1, n, u1, r1)
                                      /\ Moves(w, n, p1, j1, y1, u1, r1, q, i, x, t, s)
        BY <3>1 DEF ComesFrom
      <4>2. r1 \in {"new", "listed"}
        BY <4>1, MovesFromNew
      <4>3. a \in Walked
        BY <2>4, HeldKnown
      <4>4. a \in Below(n)
        BY <2>6, <4>3 DEF Below
      <4> QED
        BY <2>4, <4>1, <4>2, <4>4 DEF Untouched
    <3>2. CASE Begins(w, q, i, x, n, t, s)
      <4>1. a \in Ancestors[n]
        BY <2>3, <3>2, BegunChild
      <4>2. Ancestors[n] \subseteq Ancestors[a]
        BY <2>4, <2>6, AncestorsNest
      <4> QED
        BY <2>4, <4>1, <4>2, NoLoops
    <3> QED
      BY <3>1, <3>2, TaskOrigins
  <2> QED
    BY <1>0, <2>4, <2>5, <2>6
<1> QED
  BY <1>2, <1>3

PlacesApart == \A q, i, x, n, t, s : TaskHeld(q, i, x, n, t, s) => i \notin {-2, -3, -4}

LEMMA PlacesAreApart == EngineInv => PlacesApart
BY SchedulerTypes, HeldAt DEF PlacesApart

LEMMA AtMostOnceAfter ==
  ASSUME EngineInv, EngineInv', BodiesKnown, ListingsKnown, OnePlace, AtMostOnce, Untouched,
         NEW w \in Worker, TaskStep(w)
  PROVE  AtMostOnce'
<1>0. evals \in [Node -> Nat]
  BY DEF EngineInv
<1>1. ASSUME NEW n \in Node PROVE evals'[n] \in {0, 1}
  <2>1. CASE Evaluates(w) /\ n = job[w].at
    <3>1. evals[n] = 0
      BY <2>1, EvaluatedIsHeld DEF AtMostOnce
    <3>2. evals'[n] = evals[n] + 1
      BY <1>0, <2>1, EvalsGrow
    <3> QED
      BY <3>1, <3>2
  <2>2. CASE ~(Evaluates(w) /\ n = job[w].at)
    <3>1. evals'[n] = evals[n]
      BY <1>0, <2>2, EvalsGrow
    <3> QED
      BY <3>1 DEF AtMostOnce
  <2> QED
    BY <2>1, <2>2
<1>2. ASSUME NEW q, NEW i, NEW x, NEW n, NEW t, NEW s, Held(q, i, x, n, t, s)' PROVE evals'[n] = 0
  <2>1. CASE Begins(w, q, i, x, n, t, s)
    <3>1. n \in Below(job[w].at) /\ Held(w, -2, NoPlace, job[w].at, job[w].notify, "listed") /\ BeginDirectory(w)
      BY <2>1, BegunChild DEF Begins
    <3>2. evals[n] = 0
      BY <3>1 DEF Untouched
    <3>3. ~Evaluates(w)
      <4>1. job[w].step = "list"
        BY <3>1 DEF BeginDirectory, At
      <4> QED
        BY <4>1, EvalsGrow
    <3> QED
      BY <3>2, <3>3, EvalsGrow
  <2>2. CASE ComesFrom(w, q, i, x, n, t, s)
    <3>1. PICK p, j, y, u, r : Held(p, j, y, n, u, r) /\ Moves(w, n, p, j, y, u, r, q, i, x, t, s)
      BY <2>2 DEF ComesFrom
    <3>2. evals[n] = 0 /\ n \in Node
      BY <3>1, HeldKnown DEF AtMostOnce
    <3>3. ~(Evaluates(w) /\ n = job[w].at)
      <4> SUFFICES ASSUME Evaluates(w), n = job[w].at PROVE FALSE
        OBVIOUS
      <4>1. Held(w, -2, NoPlace, n, job[w].notify, "ready") /\ job[w].step = "eval"
        BY EvaluatedIsHeld, EvalsGrow
      <4>2. p = w /\ j = -2 /\ y = NoPlace
        BY <3>1, <4>1 DEF OnePlace
      <4>3. ~Goes(w, n, p, j, y, u, r, q, i, x, t, s)
        BY <4>1, <4>2, ActionKinds DEF Goes
      <4>4. q = w /\ i = -2
        BY <3>1, <4>2, <4>3 DEF Moves
      <4>5. BusyHeld(q, i, x, n, t, s)'
        <5>1. PlacesApart'
          BY PlacesAreApart, PTL
        <5>2. i = -2 => ~TaskHeld(q, i, x, n, t, s)'
          BY <5>1 DEF PlacesApart
        <5> QED
          BY <1>2, <4>4, <5>2 DEF Held, RecordHeld, CallHeld
      <4>6. job'[w].step \in {"open", "list", "eval", "release"}
        BY ZenonT(120), <4>4, <4>5 DEF BusyHeld, BusyWith
      <4>7. job'[w].step \in {"notify", "leave"} \/ job'[w] = NoJob
        BY BodyChanges DEF BodyAfter, Evaluates
      <4> QED
        BY <4>6, <4>7 DEF NoJob
    <3> QED
      BY <1>0, <3>2, <3>3, EvalsGrow
  <2> QED
    BY <1>2, <2>1, <2>2, TaskOrigins
<1> QED
  BY <1>1, <1>2 DEF AtMostOnce

(* At the start, the queue holds the start paths. *)
LEMMA HeldAtFirst ==
  ASSUME Init, NEW q, NEW i, NEW x, NEW n, NEW t, NEW s
  PROVE  Held(q, i, x, n, t, s) <=>
           /\ q = 0 /\ i \in 1..Len(StartPaths) /\ x = <<0, 1, 0>>
           /\ n = StartPaths[i] /\ t = NoBarrier /\ s = "new"
<1>0. /\ \A w \in Worker : pc[w] = "local" /\ deque[w] = <<>> /\ job[w] = NoJob
      /\ injector = RootTasks /\ DOMAIN barriers = {} /\ Len(StartPaths) \in Nat
  BY WalkTreeAssumption, LenProperties DEF Init, S!SchedInit, RootTasks, Worker
<1>1. Len(RootTasks) = Len(StartPaths)
      /\ \A j \in 1..Len(StartPaths) : RootTasks[j] = ChunkTask(<<StartPaths[j]>>, NoBarrier)
  BY <1>0 DEF RootTasks
<1>2. ~BusyHeld(q, i, x, n, t, s)
  BY <1>0 DEF BusyHeld, BusyWith, NoJob
<1>3. ~RecordHeld(q, i, x, n, t, s)
  BY <1>0 DEF RecordHeld
<1>4. ~CallHeld(q, i, x, n, t, s)
  BY <1>0, NoCalls DEF CallHeld, NoJob
<1>5. SP!Worker = Worker /\ 0 \notin Worker /\ SP!InHand = {} /\ SP!Publishing = {}
  BY <1>0 DEF SP!Worker, S!Worker, Worker, SP!InHand, SP!Publishing
<1>6. \A u : WaitsAt(u, q, i) <=> q = 0 /\ i \in 1..Len(StartPaths) /\ u = ChunkTask(<<StartPaths[i]>>, NoBarrier)
  BY <1>0, <1>1, <1>5 DEF WaitsAt, SP!TaskAt
<1>7. \A m, k : InTask(ChunkTask(<<m>>, NoBarrier), n, t, s, k) <=> k = 1 /\ n = m /\ t = NoBarrier /\ s = "new"
  <2> SUFFICES ASSUME NEW m, NEW k
               PROVE  InTask(ChunkTask(<<m>>, NoBarrier), n, t, s, k)
                        <=> k = 1 /\ n = m /\ t = NoBarrier /\ s = "new"
    OBVIOUS
  <2>1. Len(<<m>>) = 1 /\ <<m>>[1] = m
    OBVIOUS
  <2>2. AtEnd(<<m>>, n, k) <=> k = 1 /\ n = m
    BY <2>1 DEF AtEnd
  <2> QED
    BY <2>2 DEF InTask, ChunkTask
<1>8. TaskHeld(q, i, x, n, t, s) <=>
        /\ q = 0 /\ i \in 1..Len(StartPaths) /\ x = <<0, 1, 0>>
        /\ n = StartPaths[i] /\ t = NoBarrier /\ s = "new"
  BY SMTT(120), <1>6, <1>7 DEF TaskHeld
<1> QED
  BY <1>2, <1>3, <1>4, <1>8 DEF Held

LEMMA PlacesInit == Init => OnePlace /\ AtMostOnce /\ Untouched /\ Prepared
<1> SUFFICES ASSUME Init PROVE OnePlace /\ AtMostOnce /\ Untouched /\ Prepared
  OBVIOUS
<1>1. OnePlace
  <2>1. \A k, l \in 1..Len(StartPaths) : StartPaths[k] = StartPaths[l] => k = l
    BY WalkTreeAssumption
  <2> QED
    BY <2>1, HeldAtFirst DEF OnePlace
<1>2. evals = [n \in Node |-> 0]
  BY DEF Init
<1>3. ASSUME NEW q, NEW i, NEW x, NEW n, NEW t, NEW s, Held(q, i, x, n, t, s)
      PROVE  n \in Root /\ n \in Node /\ s = "new"
  <2>1. n = StartPaths[i] /\ i \in 1..Len(StartPaths) /\ s = "new"
    BY <1>3, HeldAtFirst
  <2> QED
    BY <2>1, RootsAreNodes DEF Root, RangeOf
<1>4. AtMostOnce
  BY <1>2, <1>3 DEF AtMostOnce
<1>5. Untouched
  <2> SUFFICES ASSUME NEW q, NEW i, NEW x, NEW n, NEW t, NEW s, NEW d, Held(q, i, x, n, t, s), d \in Below(n)
               PROVE  evals[d] = 0 /\ \A p, j, y, u, r : ~Held(p, j, y, d, u, r)
    BY DEF Untouched
  <2>1. d \in Node /\ Ancestors[d] # {}
    BY DEF Below, Walked
  <2>2. d \notin Root
    BY <2>1, AncestorsAre
  <2> QED
    BY <1>2, <1>3, <2>1, <2>2
<1>6. Prepared
  BY <1>3 DEF Prepared
<1> QED
  BY <1>1, <1>4, <1>5, <1>6

(* The loop around the bodies moves what is held, and changes nothing of it. *)
LEMMA LoopKeepsHeld ==
  ASSUME EngineInv, EngineInv', BodiesKnown, NEW w \in Worker, LoopStep(w),
         NEW q, NEW i, NEW x, NEW n, NEW t, NEW s, Held(q, i, x, n, t, s)'
  PROVE  \E p, j : Held(p, j, x, n, t, s)
BY LoopOrigins

LEMMA LoopKeepsPlaces ==
  ASSUME EngineInv, EngineInv', BodiesKnown, OnePlace, AtMostOnce, Untouched, Prepared,
         NEW w \in Worker, LoopStep(w)
  PROVE  OnePlace' /\ AtMostOnce' /\ Untouched' /\ Prepared'
<1>0. evals' = evals /\ errors' = errors /\ \A n : Below(n)' = Below(n) /\ (Handled(n)' <=> Handled(n))
  <2>1. evals' = evals /\ errors' = errors
    BY EngineLoopMoves
  <2>2. \A n : Below(n)' = Below(n)
    BY DEF Below, Walked
  <2>3. PostOrderEntries' = PostOrderEntries /\ FaultyNodes' = FaultyNodes
    BY DEF PostOrderEntries, FaultyNodes, PreOrderEntries
  <2> QED
    BY <2>1, <2>2, <2>3 DEF Handled
<1>a. FaultyNodes' = FaultyNodes
  BY DEF FaultyNodes
<1>1. OnePlace'
  <2> SUFFICES ASSUME NEW n, NEW q1, NEW i1, NEW x1, NEW t1, NEW s1, NEW q2, NEW i2, NEW x2, NEW t2, NEW s2,
                      Held(q1, i1, x1, n, t1, s1)', Held(q2, i2, x2, n, t2, s2)'
               PROVE  q1 = q2 /\ i1 = i2 /\ x1 = x2
    BY DEF OnePlace
  <2>1. PICK p1, j1, p2, j2 :
           /\ Held(p1, j1, x1, n, t1, s1) /\ Held(p2, j2, x2, n, t2, s2)
           /\ p1 = p2 /\ j1 = j2 => q1 = q2 /\ i1 = i2
    BY LoopOrigins
  <2>2. p1 = p2 /\ j1 = j2 /\ x1 = x2
    BY <2>1 DEF OnePlace
  <2> QED
    BY <2>1, <2>2
<1>2. AtMostOnce'
  BY <1>0, LoopKeepsHeld DEF AtMostOnce
<1>3. Untouched'
  <2> SUFFICES ASSUME NEW q, NEW i, NEW x, NEW n, NEW t, NEW s, NEW d,
                      Held(q, i, x, n, t, s)', s \in {"new", "listed"}, d \in Below(n)
               PROVE  evals'[d] = 0 /\ \A p, j, y, u, r : ~Held(p, j, y, d, u, r)'
    BY <1>0 DEF Untouched
  <2>1. evals[d] = 0 /\ \A p, j, y, u, r : ~Held(p, j, y, d, u, r)
    BY LoopKeepsHeld DEF Untouched
  <2>2. ASSUME NEW p, NEW j, NEW y, NEW u, NEW r, Held(p, j, y, d, u, r)' PROVE FALSE
    BY <2>1, <2>2, LoopKeepsHeld
  <2> QED
    BY <1>0, <2>1, <2>2
<1>4. Prepared'
  <2> SUFFICES ASSUME NEW q, NEW i, NEW x, NEW n, NEW t, NEW s, Held(q, i, x, n, t, s)'
               PROVE  /\ s = "ready" => \A d \in Below(n) : Handled(d)
                      /\ s \in {"ready", "waiting"} /\ n \in FaultyNodes => n \in errors
    BY <1>0, <1>a DEF Prepared
  <2> QED
    BY LoopKeepsHeld DEF Prepared
<1> QED
  BY <1>1, <1>2, <1>3, <1>4

-----------------------------------------------------------------------------
(* Batches report to directories                                           *)

ParentsLive ==
  \A c \in DOMAIN barriers : barriers[c].parent # NoBarrier => barriers[c].parent \in DOMAIN barriers

LEMMA ParentsAreLive == EngineInv /\ CountsInv => ParentsLive
<1> SUFFICES ASSUME EngineInv, CountsInv, NEW c \in DOMAIN barriers, NEW p, p = barriers[c].parent, p # NoBarrier
             PROVE  p \in DOMAIN barriers
  BY DEF ParentsLive
<1>1. p \in Nat \ {0}
  BY DEF EngineInv, TableFits, WalkRecord, Barrier, NoBarrier
<1>2. OnItsWay(p)
  BY DEF OnItsWay, RecordsBelow
<1> QED
  BY <1>1, <1>2, OnItsWayCounts

(* A record that stays keeps its entry and its parent. *)
LEMMA RecordKept ==
  ASSUME EngineInv, NEW w \in Worker, TaskStep(w) \/ LoopStep(w),
         NEW b \in DOMAIN barriers, b \in DOMAIN barriers'
  PROVE  barriers'[b].entry = barriers[b].entry /\ barriers'[b].parent = barriers[b].parent
<1>1. CASE TaskStep(w)
  BY <1>1, TableChanges DEF TableChange, SameRecord
<1>2. CASE LoopStep(w)
  BY <1>2, EngineLoopMoves
<1> QED
  BY <1>1, <1>2

(* A chunk, in a task or still in a call, reports to a directory, and so does *)
(* a batch.                                                                  *)
ChunksNest ==
  \A q, i, x, n, t, s :
    Held(q, i, x, n, t, s) /\ s = "new" /\ t # NoBarrier /\ (x[1] = 0 \/ x[3] # 0) =>
      t \in DOMAIN barriers /\ barriers[t].entry # NoNode
BatchesNest ==
  \A c \in DOMAIN barriers : barriers[c].entry = NoNode =>
    barriers[c].parent \in DOMAIN barriers /\ barriers[barriers[c].parent].entry # NoNode

LEMMA ChunksNestAfter ==
  ASSUME EngineInv, EngineInv', BodiesKnown, ListingsKnown, CountsInv, CountsInv', ChunksNest,
         NEW w \in Worker, TaskStep(w)
  PROVE  ChunksNest'
<1> SUFFICES ASSUME NEW q, NEW i, NEW x, NEW n, NEW t, NEW s, Held(q, i, x, n, t, s)', s = "new",
                    t # NoBarrier, x[1] = 0 \/ x[3] # 0
             PROVE  t \in DOMAIN barriers' /\ barriers'[t].entry # NoNode
  BY DEF ChunksNest
<1>1. t \in DOMAIN barriers'
  <2>1. HeldFits'
    BY HeldIsFixed, PTL
  <2> QED
    BY <2>1 DEF HeldFits
<1>2. CASE ComesFrom(w, q, i, x, n, t, s)
  <2>1. PICK p, j, y, u, r : Held(p, j, y, n, u, r) /\ Moves(w, n, p, j, y, u, r, q, i, x, t, s)
    BY <1>2 DEF ComesFrom
  <2>2. u = t /\ r = "new" /\ (y[1] = 0 \/ y[3] # 0)
    <3>1. CASE ~Goes(w, n, p, j, y, u, r, q, i, x, t, s)
      BY <2>1, <3>1 DEF Moves
    <3>2. CASE Goes(w, n, p, j, y, u, r, q, i, x, t, s)
      <4>1. \/ \E k : x = <<1, k, 0>>
            \/ u = t /\ r = "new" /\ \E l : y = <<Len(job[w].frames), Len(Head(job[w].frames).chunks), l>> /\ l # 0
        BY <3>2 DEF Goes
      <4>2. ~(\E k : x = <<1, k, 0>>)
        OBVIOUS
      <4>3. u = t /\ r = "new" /\ \E l : y = <<Len(job[w].frames), Len(Head(job[w].frames).chunks), l>> /\ l # 0
        BY <4>1, <4>2
      <4> QED
        BY <4>3
    <3> QED
      BY <3>1, <3>2
  <2>3. t \in DOMAIN barriers /\ barriers[t].entry # NoNode
    BY <2>1, <2>2 DEF ChunksNest
  <2> QED
    BY <1>1, <2>3, RecordKept
<1>3. CASE Begins(w, q, i, x, n, t, s)
  <2>1. PICK h, k, l : x = <<h, k, l>> /\ Begun(job[w], nextBarrier, n, t, h, k, l)
    BY <1>3 DEF Begins
  <2>2. BeginDirectory(w) /\ job[w].frames \in Seq(WalkFrame) /\ job[w].at \in Node
    BY <1>3, BegunChild DEF Begins, EngineInv, JobsFit, WalkJob
  <2>3. h # 0
    <3>1. Len(job[w].frames) \in Nat
      BY <2>2, LenProperties
    <3> QED
      BY <2>1, <3>1 DEF Begun
  <2>4. l # 0
    BY <2>1, <2>3
  <2>5. t = nextBarrier
    BY <2>1, <2>4 DEF Begun
  <2>6. barriers'[nextBarrier].entry = job[w].at
    BY <2>2, TableChanges DEF TableChange
  <2> QED
    BY <1>1, <2>2, <2>5, <2>6, PostOrderAssumption
<1> QED
  BY <1>2, <1>3, TaskOrigins

(* The task w starts is held, by its last node. *)
LEMMA StartedIsHeld ==
  ASSUME EngineInv, NEW w \in Worker, StartChunk(w)
  PROVE  \E n, k : Held(w, 0, <<0, k, 0>>, n, task[w].barrier, "new")
<1>0. pc[w] = "run" /\ job[w].step = "idle" /\ ~task[w].resume
  BY DEF StartChunk, At
<1>1. PICK u : u = task[w]
  OBVIOUS
<1>2. u.nodes \in Seq(Walked) /\ u.nodes # <<>>
  BY <1>0, <1>1 DEF EngineInv, QueuesFit, WalkTask, Chunk
<1>3. SP!TaskAt(u, w, 0)
  <2>1. w \in SP!InHand
    BY <1>0 DEF SP!InHand, SP!Worker, S!Worker, Worker
  <2> QED
    BY <1>1, <2>1 DEF SP!TaskAt
<1>4. WaitsAt(u, w, 0)
  BY <1>0, <1>3 DEF WaitsAt, At
<1>5. AtEnd(u.nodes, u.nodes[Len(u.nodes)], 1)
  <2>1. Len(u.nodes) \in Nat \ {0}
    BY <1>2, LenProperties, EmptySeq
  <2>2. PICK a \in Nat \ {0} : a = Len(u.nodes)
    BY <2>1
  <2>3. 1 \in 1..a /\ a + 1 - 1 = a
    BY <2>2
  <2> QED
    BY <2>2, <2>3 DEF AtEnd
<1>6. InTask(u, u.nodes[Len(u.nodes)], u.barrier, "new", 1)
  BY <1>0, <1>1, <1>5 DEF InTask
<1>7. TaskHeld(w, 0, <<0, 1, 0>>, u.nodes[Len(u.nodes)], u.barrier, "new")
  BY <1>4, <1>6 DEF TaskHeld
<1> QED
  BY <1>1, <1>7 DEF Held

LEMMA BatchesNestAfter ==
  ASSUME EngineInv, EngineInv', BodiesKnown, CountsInv, CountsInv', ChunksNest, BatchesNest,
         NEW w \in Worker, TaskStep(w)
  PROVE  BatchesNest'
<1> SUFFICES ASSUME NEW c \in DOMAIN barriers', barriers'[c].entry = NoNode
             PROVE  /\ barriers'[c].parent \in DOMAIN barriers'
                    /\ barriers'[barriers'[c].parent].entry # NoNode
  BY DEF BatchesNest
<1>0. ParentsLive'
  BY ParentsAreLive, PTL
<1>1. TableChange(w)
  BY TableChanges
<1>a. 0 \notin DOMAIN barriers
  BY DEF EngineInv, TableFits
<1>2. CASE c \in DOMAIN barriers
  <2>1. PICK p : p = barriers[c].parent
    OBVIOUS
  <2>2. barriers'[c].parent = p /\ barriers[c].entry = NoNode
    BY <1>2, <2>1, RecordKept
  <2>3. p \in DOMAIN barriers /\ barriers[p].entry # NoNode
    BY <1>2, <2>1, <2>2 DEF BatchesNest
  <2>4. p \in DOMAIN barriers'
    BY <1>0, <1>a, <2>2, <2>3 DEF ParentsLive, NoBarrier
  <2>5. barriers'[p].entry # NoNode
    BY <2>3, <2>4, RecordKept
  <2> QED
    BY <2>2, <2>4, <2>5
<1>3. CASE c \notin DOMAIN barriers
  <2>1. NewRecord(w, c)
    BY <1>1, <1>3 DEF TableChange
  <2>2. CASE StartChunk(w)
    <3>1. ~BeginDirectory(w)
      BY <2>2 DEF StartChunk, BeginDirectory, At
    <3>2. NeedsBatch(task[w].nodes, task[w].barrier) /\ barriers'[c].parent = task[w].barrier
      BY <2>1, <3>1 DEF NewRecord
    <3>3. PICK n, k : Held(w, 0, <<0, k, 0>>, n, task[w].barrier, "new")
      BY <2>2, StartedIsHeld
    <3>4. PICK x : x = <<0, k, 0>>
      OBVIOUS
    <3>5. Held(w, 0, x, n, task[w].barrier, "new") /\ x[1] = 0
      BY <3>3, <3>4
    <3>6. PICK p : p = task[w].barrier
      OBVIOUS
    <3>7. p \in DOMAIN barriers /\ barriers[p].entry # NoNode /\ p # NoBarrier
      BY <3>2, <3>5, <3>6 DEF ChunksNest, NeedsBatch
    <3>8. p \in DOMAIN barriers'
      BY <1>0, <3>2, <3>6, <3>7 DEF ParentsLive
    <3>9. barriers'[p].entry # NoNode
      BY <3>7, <3>8, RecordKept
    <3> QED
      BY <3>2, <3>6, <3>8, <3>9
  <2>3. CASE BeginDirectory(w)
    <3>1. job[w].at \in Node /\ job[w].step = "list"
      BY <2>3 DEF BeginDirectory, At, EngineInv, JobsFit, AtNode, Walked
    <3>2. ~StartChunk(w)
      BY <3>1 DEF StartChunk, At
    <3>3. job[w].at # NoNode
      BY <3>1, PostOrderAssumption
    <3>4. nextBarrier \in DOMAIN barriers' /\ barriers'[nextBarrier].entry = job[w].at
      BY <1>1, <2>3 DEF TableChange
    <3>5. barriers'[c].parent = nextBarrier
      BY <2>1, <3>2, <3>3 DEF NewRecord
    <3> QED
      BY <3>3, <3>4, <3>5
  <2> QED
    BY <2>1, <2>2, <2>3 DEF NewRecord
<1> QED
  BY <1>2, <1>3

LEMMA LoopKeepsNesting ==
  ASSUME EngineInv, EngineInv', BodiesKnown, ChunksNest, BatchesNest, NEW w \in Worker, LoopStep(w)
  PROVE  ChunksNest' /\ BatchesNest'
<1>1. barriers' = barriers
  BY EngineLoopMoves
<1>2. BatchesNest'
  BY <1>1 DEF BatchesNest
<1>3. ChunksNest'
  <2> SUFFICES ASSUME NEW q, NEW i, NEW x, NEW n, NEW t, NEW s, Held(q, i, x, n, t, s)', s = "new",
                      t # NoBarrier, x[1] = 0 \/ x[3] # 0
               PROVE  t \in DOMAIN barriers /\ barriers[t].entry # NoNode
    BY <1>1 DEF ChunksNest
  <2>1. PICK p, j : Held(p, j, x, n, t, s)
    BY LoopKeepsHeld
  <2> QED
    BY <2>1 DEF ChunksNest
<1> QED
  BY <1>2, <1>3

LEMMA NestingInit == Init => ChunksNest /\ BatchesNest
<1> SUFFICES ASSUME Init PROVE ChunksNest /\ BatchesNest
  OBVIOUS
<1>1. DOMAIN barriers = {}
  BY DEF Init
<1>2. ChunksNest
  BY HeldAtFirst DEF ChunksNest
<1> QED
  BY <1>1, <1>2 DEF BatchesNest

-----------------------------------------------------------------------------
(* No other errors are reported                                            *)

(* What is still to come of a listing is what the directory listed. *)
ItemsKnown ==
  \A w \in Worker : job[w].step \in {"open", "list"} /\ Listed(job[w].items, BadItem) =>
                      Listed(Items[job[w].at], BadItem)
MayReport == FaultyNodes \cup {n \in Unreadable : Reached[n] /\ Visit(n) = "list"}
ErrorsKnown == ItemsKnown /\ errors \subseteq MayReport

LEMMA ItemsAfter ==
  ASSUME EngineInv, BodiesKnown, ItemsKnown, NEW w \in Worker, TaskStep(w),
         job'[w].step \in {"open", "list"}, Listed(job'[w].items, BadItem)
  PROVE  Listed(Items[job'[w].at], BadItem)
<1>1. PICK j, k : j = job[w] /\ k = job'[w]
  OBVIOUS
<1>2. BodyAfter(w, j, k) /\ j \in WalkJob /\ job \in [Worker -> WalkJob]
  BY <1>1, BodyChanges DEF EngineInv, JobsFit
<1>3. VisitNext(w) \/ OpenDirectory(w) \/ ListBadItem(w) \/ ListChild(w)
  BY <1>1, <1>2 DEF BodyAfter, TaskStep, CompleteStep, NoJob
<1>4. CASE VisitNext(w)
  BY <1>1, <1>2, <1>4 DEF BodyAfter
<1>5. ASSUME OpenDirectory(w) \/ ListBadItem(w) \/ ListChild(w),
             k.items = j.items \/ (j.items # <<>> /\ k.items = Tail(j.items))
      PROVE  Listed(Items[job'[w].at], BadItem)
  <2>1. j.step \in {"open", "list"} /\ k.at = j.at
    BY <1>2, <1>5 DEF BodyAfter, SameNode
  <2>2. j.items \in Seq(Node \cup {BadItem})
    BY <1>2 DEF WalkJob
  <2>3. Listed(j.items, BadItem)
    BY <1>1, <1>5, <2>2, ListedTail
  <2> QED
    BY <1>1, <2>1, <2>3 DEF ItemsKnown
<1>6. CASE OpenDirectory(w)
  <2>1. k.items = j.items
    BY <1>1, <1>2, <1>6 DEF OpenDirectory, Update
  <2> QED
    BY <1>5, <1>6, <2>1
<1>7. CASE ListBadItem(w)
  <2>1. j.items # <<>> /\ k.items = Tail(j.items)
    BY <1>1, <1>2, <1>7 DEF ListBadItem, Update, WalkJob
  <2> QED
    BY <1>5, <1>7, <2>1
<1>8. CASE ListChild(w)
  <2>1. PICK c : c = Head(j.items)
    OBVIOUS
  <2>2. j.items # <<>> /\ k = Accumulate([j EXCEPT !.items = Tail(@)], c, accept)
    BY <1>1, <1>2, <1>8, <2>1 DEF ListChild, Update
  <2>3. k.items = Tail(j.items)
    <3>1. PICK m : m = [j EXCEPT !.items = Tail(@)]
      OBVIOUS
    <3>2. m.items = Tail(j.items)
      BY <1>2, <3>1 DEF WalkJob
    <3>3. k = Accumulate(m, c, accept)
      BY <2>2, <3>1
    <3>4. m \in [step : {m.step}, frames : {m.frames}, at : {m.at}, notify : {m.notify}, items : {m.items},
                 local : {m.local}, buffer : {m.buffer}, spilled : {m.spilled},
                 resume : {m.resume}, sawQuit : {m.sawQuit}]
      BY <1>2, <3>1 DEF WalkJob
    <3>5. k.items = m.items
      BY <3>3, <3>4 DEF Accumulate
    <3> QED
      BY <3>2, <3>5
  <2> QED
    BY <1>5, <1>8, <2>2, <2>3
<1> QED
  BY <1>3, <1>4, <1>6, <1>7, <1>8

LEMMA ErrorsKnownAfter ==
  ASSUME EngineInv, BodiesKnown, ErrorsKnown, NEW w \in Worker, TaskStep(w)
  PROVE  ErrorsKnown'
<1>1. ItemsKnown'
  <2> SUFFICES ASSUME NEW v \in Worker, job'[v].step \in {"open", "list"}, Listed(job'[v].items, BadItem)
               PROVE  Listed(Items[job'[v].at], BadItem)
    BY DEF ItemsKnown, Worker, S!Worker
  <2>1. CASE v = w
    <3>1. ItemsKnown
      BY DEF ErrorsKnown
    <3> QED
      BY <2>1, <3>1, ItemsAfter
  <2>2. CASE v # w
    <3>1. job'[v] = job[v]
      BY <2>2, OnlyOwnJob DEF EngineInv
    <3> QED
      BY <3>1 DEF ErrorsKnown, ItemsKnown
  <2> QED
    BY <2>1, <2>2
<1>2. MayReport' = MayReport
  BY DEF MayReport, FaultyNodes
<1>3. PICK j, n : j = job[w] /\ n = job[w].at
  OBVIOUS
<1>4. j \in WalkJob /\ AtNode(j)
  BY <1>3 DEF EngineInv, JobsFit
<1>5. errors' \subseteq MayReport
  <2>1. CASE ListBadItem(w)
    <3>1. j.step = "list" /\ j.items # <<>> /\ Head(j.items) = BadItem
      BY <1>3, <2>1 DEF ListBadItem, At
    <3>2. n \in Walked /\ Visit(n) = "list"
      BY <1>3, <1>4, <3>1 DEF AtNode
    <3>3. Listed(j.items, BadItem)
      <4>1. j.items \in Seq(Node \cup {BadItem})
        BY <1>4 DEF WalkJob
      <4> QED
        BY <3>1, <4>1, ListedTail
    <3>4. Listed(Items[n], BadItem)
      BY <1>3, <3>1, <3>3 DEF ErrorsKnown, ItemsKnown
    <3>5. n \in FaultyNodes
      BY <3>2, <3>4, FaultyWhen
    <3> QED
      BY <1>3, <2>1, <3>5, ErrorsGrow DEF ErrorsKnown, MayReport
  <2>2. CASE OpenFails(w)
    <3>1. j.step = "open" /\ n \in Unreadable
      BY <1>3, <2>2 DEF OpenFails, At
    <3>2. n \in Walked /\ Visit(n) = "list"
      BY <1>3, <1>4, <3>1 DEF AtNode
    <3>3. n \in MayReport
      BY <3>1, <3>2 DEF MayReport, Walked
    <3> QED
      BY <1>3, <2>2, <3>3, ErrorsGrow DEF ErrorsKnown
  <2>3. CASE VisitNext(w)
    <3>1. PICK m : m = Head(Head(job[w].frames).nodes)
      OBVIOUS
    <3>2. m \in Walked
      <4>1. j.frames \in Seq(WalkFrame) /\ j.frames # <<>> /\ Head(j.frames).nodes # <<>>
        BY <1>3, <1>4, <2>3 DEF VisitNext, WalkJob
      <4>2. Head(j.frames) \in WalkFrame
        BY <4>1, HeadAndTail
      <4>3. Head(j.frames).nodes \in Seq(Walked)
        BY <4>2, FrameParts
      <4> QED
        BY ZenonT(120), <1>3, <3>1, <4>1, <4>3, HeadAndTail
    <3>3. errors' = IF Visit(m) = "error" THEN errors \cup {m} ELSE errors
      BY <2>3, <3>1, ErrorsGrow
    <3>4. Visit(m) = "error" => m \in MayReport
      BY <3>2, FaultyWhen DEF MayReport
    <3> QED
      BY <3>3, <3>4 DEF ErrorsKnown
  <2>4. CASE ~ListBadItem(w) /\ ~OpenFails(w) /\ ~VisitNext(w)
    BY <2>4, ErrorsGrow DEF ErrorsKnown
  <2> QED
    BY <2>1, <2>2, <2>3, <2>4
<1> QED
  BY <1>1, <1>2, <1>5 DEF ErrorsKnown

LEMMA ErrorsKnownInit == Init => ErrorsKnown
BY DEF Init, ErrorsKnown, ItemsKnown, NoJob

LEMMA LoopKeepsErrors ==
  ASSUME EngineInv, ErrorsKnown, NEW w \in Worker, LoopStep(w)
  PROVE  ErrorsKnown'
<1>1. job' = job /\ errors' = errors
  BY EngineLoopMoves
<1> QED
  BY <1>1 DEF ErrorsKnown, ItemsKnown, MayReport, FaultyNodes, Worker, S!Worker

-----------------------------------------------------------------------------
(* What is below a directory that waits is finished, or on its way         *)

(* Nothing that a barrier counts was dropped. *)
Whole(b) == UnitsOf(b) = DueIn(barriers, b)

Under(m, b) == \E q, i, x, t, s : Held(q, i, x, m, t, s) /\ (t = b \/ BatchBelow(t, b))

(* The start paths are owed unless the walk is stopped, and the children of a *)
(* directory that waits unless some of them was dropped.                     *)
Owed(b) ==
  \/ b = NoBarrier /\ ~quit /\ failed = {}
  \/ /\ b \in DOMAIN barriers /\ barriers[b].entry # NoNode
     /\ Whole(b) /\ \A c : BatchBelow(c, b) => Whole(c)
Kids(b) == IF b = NoBarrier THEN Root ELSE Children(barriers[b].entry)
Covered == \A b : Owed(b) => \A m \in Kids(b) : Finished(m) \/ Under(m, b)

LEMMA StepSettles ==
  ASSUME EngineInv, EngineInv', BodiesKnown, CountsInv, NEW w \in Worker, TaskStep(w) \/ LoopStep(w),
         NEW b \in Nat \ {0}
  PROVE  Settles(b)
<1>1. Balanced(b)
  BY DEF CountsInv
<1>2. CASE LoopStep(w)
  BY <1>1, <1>2, LoopSettles
<1>3. CASE QuietStep(w)
  BY <1>1, <1>3, QuietSettles
<1>4. CASE StartChunk(w)
  BY <1>1, <1>4, StartSettles
<1>5. CASE EndBatch(w) \/ LeaveDirectory(w) \/ PublishDone(w)
  BY <1>1, <1>5, EndSettles
<1>6. CASE VisitNext(w)
  BY <1>1, <1>6, VisitSettles
<1>7. CASE BeginDirectory(w)
  BY <1>1, <1>7, BeginSettles
<1>8. CASE PublishChunk(w)
  BY <1>1, <1>8, PublishSettles
<1>9. CASE LeaveAfterQuit(w) \/ EvalFails(w)
  BY <1>1, <1>9, DropSettles
<1>10. CASE FinishUnit(w)
  BY <1>1, <1>10, UnitSettles
<1>11. CASE FinishLastUnit(w)
  BY <1>1, <1>11, LastUnitSettles
<1>12. CASE ReleaseDirectory(w)
  BY <1>1, <1>12, ReleaseSettles
<1> QED
  BY <1>2, <1>3, <1>4, <1>5, <1>6, <1>7, <1>8, <1>9, <1>10, <1>11, <1>12 DEF TaskStep, QuietStep

(* What is whole was whole: nothing makes up for what is dropped. *)
LEMMA WholeBefore ==
  ASSUME EngineInv, EngineInv', BodiesKnown, CountsInv, NEW w \in Worker, TaskStep(w) \/ LoopStep(w),
         NEW b \in Nat \ {0}, Whole(b)'
  PROVE  Whole(b)
<1>1. Settles(b)
  BY StepSettles
<1>2. Finite(b) /\ UnitsOf(b) <= DueIn(barriers, b)
  BY DEF CountsInv, Balanced
<1>3. UnitsOf(b) \in Nat /\ DueIn(barriers, b) \in Nat
  BY <1>2, NumbersAre
<1>4. UnitsOf(b)' \in Nat /\ DueIn(barriers, b)' \in Nat
  BY <1>1, NumbersFitNext DEF NumbersFit, NumbersOf, Settles
<1>5. PICK u \in Nat, d \in Nat, v \in Nat, e \in Nat :
        u = UnitsOf(b) /\ d = DueIn(barriers, b) /\ v = UnitsOf(b)' /\ e = DueIn(barriers, b)'
  BY <1>3, <1>4
<1>6. v = e /\ u <= d /\ (v + d = u + e \/ v + d <= u + e)
  BY <1>1, <1>2, <1>5 DEF Settles, Whole
<1>7. u = d
  BY <1>5, <1>6
<1> QED
  BY <1>5, <1>7 DEF Whole

(* A record that is gone dropped nothing. *)
LEMMA GoneIsWhole ==
  ASSUME EngineInv, CountsInv, NEW b \in Nat \ {0}, b \notin DOMAIN barriers
  PROVE  Whole(b)
<1>1. Finite(b) /\ UnitsOf(b) <= DueIn(barriers, b)
  BY DEF CountsInv, Balanced
<1>2. UnitsOf(b) \in Nat /\ DueIn(barriers, b) = 0
  BY <1>1, NumbersAre DEF DueIn
<1> QED
  BY <1>1, <1>2 DEF Whole

GoneAreWhole == \A b \in Nat \ {0} : b \notin DOMAIN barriers => Whole(b)

LEMMA GoneAreWholeNext == EngineInv' /\ CountsInv' => GoneAreWhole'
<1>1. EngineInv /\ CountsInv => GoneAreWhole
  BY GoneIsWhole DEF GoneAreWhole
<1> QED
  BY <1>1, PTL

(* What is owed after a step was owed before it, unless it is new. *)
LEMMA OwedBefore ==
  ASSUME EngineInv, EngineInv', BodiesKnown, CountsInv, CountsInv',
         NEW w \in Worker, TaskStep(w) \/ LoopStep(w),
         NEW b, Owed(b)', b = NoBarrier \/ b \in DOMAIN barriers
  PROVE  Owed(b) /\ Kids(b)' = Kids(b)
<1>0. DOMAIN barriers \subseteq Nat \ {0}
  BY DEF EngineInv, TableFits
<1>1. CASE b = NoBarrier
  <2>1. ~quit' /\ failed' = {}
    <3>1. DOMAIN barriers' \subseteq Nat \ {0}
      BY DEF EngineInv, TableFits
    <3> QED
      BY <1>1, <3>1 DEF Owed, NoBarrier
  <2>2. ~quit /\ failed = {}
    BY <2>1, StopsKnown
  <2> QED
    BY <1>1, <2>2 DEF Owed, Kids
<1>2. CASE b # NoBarrier
  <2>1. b \in DOMAIN barriers /\ b \in Nat \ {0}
    BY <1>0, <1>2
  <2>2. b \in DOMAIN barriers' /\ barriers'[b].entry # NoNode /\ Whole(b)' /\ \A c : BatchBelow(c, b)' => Whole(c)'
    BY <1>2 DEF Owed
  <2>3. barriers'[b].entry = barriers[b].entry
    BY <2>1, <2>2, RecordKept
  <2>4. Whole(b)
    BY <2>1, <2>2, WholeBefore
  <2>5. ASSUME NEW c, BatchBelow(c, b) PROVE Whole(c)
    <3>1. c \in DOMAIN barriers /\ c \in Nat \ {0} /\ barriers[c].entry = NoNode /\ barriers[c].parent = b
      BY <1>0, <2>5 DEF BatchBelow
    <3>2. CASE c \in DOMAIN barriers'
      <4>1. BatchBelow(c, b)'
        BY <3>1, <3>2, RecordKept DEF BatchBelow
      <4> QED
        BY <2>2, <3>1, <4>1, WholeBefore
    <3>3. CASE c \notin DOMAIN barriers'
      <4>1. Whole(c)'
        BY <3>1, <3>3, GoneAreWholeNext DEF GoneAreWhole
      <4> QED
        BY <3>1, <4>1, WholeBefore
    <3> QED
      BY <3>2, <3>3
  <2> QED
    BY <1>2, <2>1, <2>2, <2>3, <2>4, <2>5 DEF Owed, Kids
<1> QED
  BY <1>1, <1>2

(* What is owed is not dropped. *)
LEMMA OwedIsNotDropped ==
  ASSUME EngineInv, EngineInv', BodiesKnown, CountsInv, CountsInv', NEW w \in Worker, TaskStep(w) \/ LoopStep(w),
         BatchesNest, NEW b, Owed(b)', NEW t, t = b \/ BatchBelow(t, b), Dropped(t)
  PROVE  FALSE
<1>0. DOMAIN barriers \subseteq Nat \ {0} /\ DOMAIN barriers' \subseteq Nat \ {0}
  BY DEF EngineInv, TableFits
<1>1. CASE b = NoBarrier
  <2>1. ~quit' /\ failed' = {}
    BY <1>0, <1>1 DEF Owed, NoBarrier
  <2> QED
    BY <2>1 DEF Dropped
<1>2. CASE b # NoBarrier
  <2>1. b \in DOMAIN barriers' /\ Whole(b)' /\ \A c : BatchBelow(c, b)' => Whole(c)'
    BY <1>2 DEF Owed
  <2>2. t \in Nat \ {0}
    BY <1>0, <2>1 DEF BatchBelow
  <2>3. Whole(t)'
    <3>1. CASE t = b
      BY <2>1, <3>1
    <3>2. CASE BatchBelow(t, b) /\ t \in DOMAIN barriers'
      <4>1. BatchBelow(t, b)'
        BY <3>2, RecordKept DEF BatchBelow
      <4> QED
        BY <2>1, <4>1
    <3>3. CASE BatchBelow(t, b) /\ t \notin DOMAIN barriers'
      BY <2>2, <3>3, GoneAreWholeNext DEF GoneAreWhole
    <3> QED
      BY <3>1, <3>2, <3>3
  <2>4. UnitsOf(t)' < DueIn(barriers, t)'
    BY <2>2 DEF Dropped, Loses, NoBarrier
  <2>5. UnitsOf(t)' = DueIn(barriers, t)'
    BY <2>3 DEF Whole
  <2>6. Finite(t)'
    BY <2>2 DEF CountsInv, Balanced
  <2>7. UnitsOf(t)' \in Nat /\ DueIn(barriers, t)' \in Nat
    BY <2>6, NumbersFitNext DEF NumbersFit, NumbersOf
  <2>8. PICK c \in Nat, d \in Nat : c = UnitsOf(t)' /\ d = DueIn(barriers, t)'
    BY <2>7
  <2> QED
    BY <2>4, <2>5, <2>8
<1> QED
  BY <1>1, <1>2

LEMMA UnderAfter ==
  ASSUME EngineInv, EngineInv', BodiesKnown, CountsInv, CountsInv', ListingsKnown, Prepared,
         BatchesNest, BatchesNest', NEW w \in Worker, TaskStep(w),
         NEW b, Owed(b)', NEW m, Under(m, b)
  PROVE  Finished(m)' \/ Under(m, b)'
<1>1. PICK q, i, x, t, s : Held(q, i, x, m, t, s) /\ (t = b \/ BatchBelow(t, b))
  BY DEF Under
<1>2. Outcome(m, t)
  BY <1>1, TaskOutcome
<1>3. ~Dropped(t)
  BY <1>1, OwedIsNotDropped
<1>4. ASSUME GoesOn(m, t) PROVE Under(m, b)'
  <2>1. PICK q2, i2, x2, u, s2 : Held(q2, i2, x2, m, u, s2)' /\ (u = t \/ BatchBelow(u, t)')
    BY <1>4 DEF GoesOn
  <2>2. CASE t = b
    BY <2>1, <2>2 DEF Under
  <2>3. CASE BatchBelow(t, b)
    <3>1. t \in DOMAIN barriers /\ barriers[t].entry = NoNode /\ t # NoBarrier
      BY <2>3 DEF BatchBelow, EngineInv, TableFits, NoBarrier
    <3>2. CASE u = t
      <4>1. HeldFits'
        BY HeldIsFixed, PTL
      <4>2. t \in DOMAIN barriers'
        BY <2>1, <3>1, <3>2, <4>1 DEF HeldFits
      <4>3. BatchBelow(t, b)'
        BY <2>3, <4>2, RecordKept DEF BatchBelow
      <4> QED
        BY <2>1, <3>2, <4>3 DEF Under
    <3>3. CASE BatchBelow(u, t)'
      <4>1. t \in DOMAIN barriers' /\ barriers'[t].entry # NoNode
        BY <3>3 DEF BatchBelow, BatchesNest
      <4> QED
        BY <3>1, <4>1, RecordKept
    <3> QED
      BY <2>1, <3>2, <3>3
  <2> QED
    BY <1>1, <2>2, <2>3
<1> QED
  BY <1>2, <1>3, <1>4 DEF Outcome

LEMMA UnderAfterLoop ==
  ASSUME EngineInv, EngineInv', BodiesKnown, CountsInv, CountsInv', BatchesNest, NEW w \in Worker, LoopStep(w),
         NEW b, Owed(b)', NEW m, Under(m, b)
  PROVE  Under(m, b)'
<1>1. PICK q, i, x, t, s : Held(q, i, x, m, t, s) /\ (t = b \/ BatchBelow(t, b))
  BY DEF Under
<1>2. ~Dropped(t)
  BY <1>1, OwedIsNotDropped
<1>3. PICK r, j : Held(r, j, x, m, t, s)'
  BY <1>1, <1>2, LoopGoesOn
<1>4. barriers' = barriers
  BY EngineLoopMoves
<1> QED
  BY <1>1, <1>3, <1>4 DEF Under, BatchBelow

(* A directory that begins to wait has its children in its calls. *)
LEMMA BegunIsCovered ==
  ASSUME EngineInv, EngineInv', BodiesKnown, ListingsKnown, NEW w \in Worker, TaskStep(w),
         NEW b, Owed(b)', b # NoBarrier, b \notin DOMAIN barriers, NEW m \in Kids(b)'
  PROVE  Under(m, b)'
<1>1. b \in DOMAIN barriers' /\ barriers'[b].entry # NoNode
  BY DEF Owed
<1>2. NewRecord(w, b)
  BY <1>1, TableChanges DEF TableChange
<1>3. BeginDirectory(w) /\ b = nextBarrier /\ barriers'[b].entry = job[w].at
  BY <1>1, <1>2 DEF NewRecord
<1>4. m \in Children(job[w].at)
  BY <1>3 DEF Kids
<1>5. PICK t, h, k, l : Begun(job[w], nextBarrier, m, t, h, k, l)
  BY <1>3, <1>4, BegunHolds
<1>6. InCalls(job'[w].frames, m, t, h, k, l)
  BY <1>3, <1>5, CallsAfter DEF CallsChange
<1>7. PICK x : x = <<h, k, l>>
  OBVIOUS
<1>8. Held(w, -4, x, m, t, "new")'
  BY <1>6, <1>7 DEF CallHeld, Held
<1>9. t = b \/ BatchBelow(t, b)'
  <2>1. TableChange(w)
    BY TableChanges
  <2>2. CASE Len(job[w].local) > 1 /\ t = nextBarrier + 1
    BY <1>3, <2>1, <2>2 DEF TableChange, BatchBelow
  <2>3. t = nextBarrier \/ (Len(job[w].local) > 1 /\ t = nextBarrier + 1)
    BY <1>5 DEF Begun
  <2> QED
    BY <1>3, <2>2, <2>3
<1> QED
  BY <1>8, <1>9 DEF Under

LEMMA CoveredAfter ==
  ASSUME EngineInv, EngineInv', BodiesKnown, CountsInv, CountsInv', ListingsKnown, Prepared,
         BatchesNest, BatchesNest', Covered, NEW w \in Worker, TaskStep(w)
  PROVE  Covered'
<1> SUFFICES ASSUME NEW b, Owed(b)', NEW m \in Kids(b)' PROVE Finished(m)' \/ Under(m, b)'
  BY DEF Covered
<1>1. CASE b = NoBarrier \/ b \in DOMAIN barriers
  <2>1. Owed(b) /\ m \in Kids(b)
    BY <1>1, OwedBefore
  <2>2. Finished(m) \/ Under(m, b)
    BY <2>1 DEF Covered
  <2> QED
    BY <2>2, FinishedStays, UnderAfter
<1>2. CASE ~(b = NoBarrier \/ b \in DOMAIN barriers)
  BY <1>2, BegunIsCovered
<1> QED
  BY <1>1, <1>2

LEMMA LoopKeepsCovered ==
  ASSUME EngineInv, EngineInv', BodiesKnown, CountsInv, CountsInv', BatchesNest, Covered,
         NEW w \in Worker, LoopStep(w)
  PROVE  Covered'
<1> SUFFICES ASSUME NEW b, Owed(b)', NEW m \in Kids(b)' PROVE Finished(m)' \/ Under(m, b)'
  BY DEF Covered
<1>1. evals' = evals /\ errors' = errors /\ barriers' = barriers
  BY EngineLoopMoves
<1>2. b = NoBarrier \/ b \in DOMAIN barriers
  BY <1>1 DEF Owed
<1>3. Owed(b) /\ m \in Kids(b)
  BY <1>2, OwedBefore
<1>4. Finished(m) \/ Under(m, b)
  BY <1>3 DEF Covered
<1>5. Finished(m) => Finished(m)'
  <2>1. \A n : Below(n)' = Below(n)
    BY DEF Below, Walked
  <2>2. PostOrderEntries' = PostOrderEntries /\ FaultyNodes' = FaultyNodes
    BY DEF PostOrderEntries, FaultyNodes, PreOrderEntries
  <2> QED
    BY <1>1, <2>1, <2>2 DEF Finished, Handled
<1> QED
  BY <1>3, <1>4, <1>5, UnderAfterLoop

LEMMA CoveredInit == Init => Covered
<1> SUFFICES ASSUME Init, NEW b, Owed(b), NEW m \in Kids(b) PROVE Under(m, b)
  BY DEF Covered
<1>1. DOMAIN barriers = {}
  BY DEF Init
<1>2. b = NoBarrier
  BY <1>1 DEF Owed
<1>3. PICK i \in 1..Len(StartPaths) : m = StartPaths[i]
  BY <1>2 DEF Kids, Root, RangeOf
<1>4. Held(0, i, <<0, 1, 0>>, m, NoBarrier, "new")
  BY <1>3, HeldAtFirst
<1> QED
  BY <1>2, <1>4 DEF Under

(* When the last unit is reported, all that is below the directory is done. *)
LEMMA LastUnitFinished ==
  ASSUME EngineInv, CountsInv, Covered, NEW w \in Worker, FinishLastUnit(w),
         NEW b, b = job[w].notify, barriers[b].entry # NoNode,
         NEW d \in Below(barriers[b].entry)
  PROVE  Handled(d)
<1>1. job[w].step = "notify" /\ b \in DOMAIN barriers /\ barriers[b].remaining <= 1
  BY DEF FinishLastUnit, At
<1>2. b \in Nat \ {0} /\ barriers[b].remaining \in Nat /\ barriers[b].entry \in Walked
  BY <1>1 DEF EngineInv, TableFits, WalkRecord
<1>3. DueIn(barriers, b) = barriers[b].remaining
  BY <1>1 DEF DueIn
<1>4. ~OnItsWay(b)
  <2> SUFFICES ASSUME OnItsWay(b) PROVE FALSE
    OBVIOUS
  <2>1. DueIn(barriers, b) >= 2
    BY <1>1, <1>2, OnItsWayCounts
  <2> QED
    BY <1>1, <1>2, <1>3, <2>1
<1>5. \A c : ~BatchBelow(c, b)
  <2> SUFFICES ASSUME NEW c, BatchBelow(c, b) PROVE FALSE
    OBVIOUS
  <2>1. c \in RecordsBelow(b)
    BY DEF BatchBelow, RecordsBelow
  <2> QED
    BY <1>4, <2>1 DEF OnItsWay
<1>6. Whole(b)
  <2>1. Finite(b) /\ UnitsOf(b) <= DueIn(barriers, b)
    BY <1>2 DEF CountsInv, Balanced
  <2>2. UnitsOf(b) \in Nat /\ Cardinality(BusyFor(b)) \in Nat /\ UnitsOf(b) >= Cardinality(BusyFor(b))
    BY <2>1, NumbersAre
  <2>3. Cardinality(BusyFor(b)) # 0
    <3>1. w \in BusyFor(b) /\ BusyFor(b) \subseteq 1..NWorkers
      BY DEF BusyFor, Worker, S!Worker
    <3>2. IsFiniteSet(BusyFor(b))
      BY <3>1, PostOrderAssumption, FS_Interval, FS_Subset
    <3> QED
      BY <3>1, <3>2, FS_EmptySet
  <2>4. PICK u \in Nat, c \in Nat, r \in Nat :
          u = UnitsOf(b) /\ c = Cardinality(BusyFor(b)) /\ r = barriers[b].remaining
    BY <1>2, <2>2
  <2>5. u <= r /\ r <= 1 /\ u >= c /\ c # 0
    BY <1>1, <1>3, <2>1, <2>2, <2>3, <2>4
  <2>6. u = r
    BY <2>4, <2>5
  <2> QED
    BY <1>3, <2>4, <2>6 DEF Whole
<1>7. Owed(b)
  BY <1>1, <1>5, <1>6 DEF Owed
<1>8. ASSUME NEW m \in Children(barriers[b].entry) PROVE Finished(m)
  <2>1. m \in Kids(b)
    BY <1>2, <1>8 DEF Kids, NoBarrier
  <2>2. Finished(m) \/ Under(m, b)
    BY <1>7, <2>1 DEF Covered
  <2>3. ~Under(m, b)
    BY <1>4, <1>5, HeldIsOnItsWay DEF Under
  <2> QED
    BY <2>2, <2>3
<1>9. d \in Node /\ d \in Walked /\ barriers[b].entry \in Ancestors[d]
  BY DEF Below, Walked
<1>10. PICK c \in Children(barriers[b].entry) : c \in Ancestors[d] \cup {d}
  BY <1>9, WayDown
<1>11. Finished(c)
  BY <1>8, <1>10
<1>12. CASE c = d
  BY <1>11, <1>12 DEF Finished
<1>13. CASE c \in Ancestors[d]
  BY <1>9, <1>11, <1>13 DEF Finished, Below
<1> QED
  BY <1>10, <1>12, <1>13

LEMMA PreparedAfter ==
  ASSUME EngineInv, EngineInv', BodiesKnown, CountsInv, ListingsKnown, Prepared, Covered,
         NEW w \in Worker, TaskStep(w)
  PROVE  Prepared'
<1> SUFFICES ASSUME NEW q, NEW i, NEW x, NEW n, NEW t, NEW s, Held(q, i, x, n, t, s)'
             PROVE  /\ s = "ready" => \A d \in Below(n) : Handled(d)'
                    /\ s \in {"ready", "waiting"} /\ n \in FaultyNodes => n \in errors'
  <2>1. FaultyNodes' = FaultyNodes /\ \A m : Below(m)' = Below(m)
    BY DEF Below, Walked, FaultyNodes
  <2> QED
    BY <2>1 DEF Prepared
<1>0. errors \subseteq errors' /\ \A d : Handled(d) => Handled(d)'
  BY ErrorsGrow, HandledStays
<1>1. CASE Begins(w, q, i, x, n, t, s)
  BY <1>1 DEF Begins
<1>2. CASE ComesFrom(w, q, i, x, n, t, s)
  <2>1. PICK p, j, y, u, r : Held(p, j, y, n, u, r) /\ Moves(w, n, p, j, y, u, r, q, i, x, t, s)
    BY <1>2 DEF ComesFrom
  <2>2. n \in Walked /\ n \in Node
    BY <2>1, HeldKnown
  <2>3. /\ r = "ready" => \A d \in Below(n) : Handled(d)
        /\ r \in {"ready", "waiting"} /\ n \in FaultyNodes => n \in errors
    BY <2>1 DEF Prepared
  <2>4. CASE r = s
    BY <1>0, <2>3, <2>4
  <2>5. CASE Goes(w, n, p, j, y, u, r, q, i, x, t, s) /\ r # s
    <3>1. CASE VisitNext(w)
      <4>1. VisitNext(w) => job[w].step = "next"
        BY ActionKinds
      <4>2. Visit(n) # "error" /\ s = IF Visit(n) = "list" THEN "listed" ELSE "ready"
        BY <2>5, <3>1, <4>1, ActionKinds DEF Goes
      <4>3. CASE Visit(n) = "list"
        BY <4>2, <4>3
      <4>4. CASE Visit(n) # "list"
        <5>1. Below(n) = {} /\ n \notin FaultyNodes
          BY <2>2, <4>2, <4>4, NothingBelow, FaultyWhen
        <5> QED
          BY <5>1
      <4> QED
        BY <4>3, <4>4
    <3>2. CASE OpenFails(w) \/ ListedEmpty(w)
      <4>1. n = job[w].at
        BY <2>5, <3>2, ActionKinds DEF Goes
      <4>2. Below(n) = {} /\ (n \in FaultyNodes => n \in errors)
        BY <3>2, <4>1, LeafListed
      <4> QED
        BY <1>0, <4>2
    <3>3. CASE BeginDirectory(w)
      <4>1. n = job[w].at /\ s = "waiting"
        BY <2>5, <3>3, ActionKinds DEF Goes
      <4>2. n \in FaultyNodes => n \in errors
        <5>1. PICK k : k = job[w]
          OBVIOUS
        <5>2. k.step = "list" /\ k.items = <<>> /\ AtNode(k) /\ Listing(k, errors) /\ n = k.at
          BY <3>3, <4>1, <5>1 DEF BeginDirectory, At, EngineInv, JobsFit, ListingsKnown
        <5>3. Visit(n) = "list"
          BY <5>2 DEF AtNode
        <5>4. Listed(Items[n], BadItem) => n \in errors
          BY <5>2, NothingListed DEF Listing
        <5> QED
          BY <2>2, <5>3, <5>4, FaultyWhen
      <4> QED
        BY <1>0, <4>1, <4>2
    <3>4. CASE FinishLastUnit(w)
      <4>1. n = barriers[job[w].notify].entry /\ r = "waiting" /\ p = job[w].notify
        BY <2>5, <3>4, ActionKinds DEF Goes
      <4>2. n # NoNode
        BY <2>2, PostOrderAssumption
      <4>3. \A d \in Below(n) : Handled(d)
        BY <3>4, <4>1, <4>2, LastUnitFinished
      <4> QED
        BY <1>0, <2>3, <4>1, <4>3
    <3> QED
      BY <2>5, <3>1, <3>2, <3>3, <3>4 DEF Goes
  <2> QED
    BY <2>1, <2>4, <2>5 DEF Moves
<1> QED
  BY <1>1, <1>2, TaskOrigins

-----------------------------------------------------------------------------
(* The invariant of the walk                                               *)

(* A record is younger than the record it reports to. *)
ParentsOlder == \A c \in DOMAIN barriers : barriers[c].parent < c

LEMMA ParentsOlderAfter ==
  ASSUME EngineInv, CountsInv, ParentsOlder, NEW w \in Worker, TaskStep(w)
  PROVE  ParentsOlder'
<1> SUFFICES ASSUME NEW c \in DOMAIN barriers' PROVE barriers'[c].parent < c
  BY DEF ParentsOlder
<1>1. TableChange(w)
  BY TableChanges
<1>2. /\ nextBarrier \in Nat \ {0} /\ DOMAIN barriers \subseteq 1..(nextBarrier - 1)
      /\ \A b \in DOMAIN barriers : b < nextBarrier
  BY DEF EngineInv, TableFits
<1>3. CASE c \in DOMAIN barriers
  BY <1>1, <1>3, RecordKept DEF ParentsOlder
<1>4. CASE c \notin DOMAIN barriers
  <2>1. NewRecord(w, c)
    BY <1>1, <1>4 DEF TableChange
  <2>2. HeldFits
    BY HeldIsFixed
  <2>3. ASSUME StartChunk(w), c = nextBarrier, barriers'[c].parent = task[w].barrier
        PROVE  barriers'[c].parent < c
    <3>1. PICK n, k : Held(w, 0, <<0, k, 0>>, n, task[w].barrier, "new")
      BY <2>3, StartedIsHeld
    <3>2. PICK t : t = task[w].barrier
      OBVIOUS
    <3>3. t = NoBarrier \/ t \in DOMAIN barriers
      BY <2>2, <3>1, <3>2 DEF HeldFits
    <3> QED
      BY <1>2, <2>3, <3>2, <3>3 DEF NoBarrier
  <2>4. ASSUME BeginDirectory(w), c = nextBarrier, barriers'[c].parent = job[w].notify
        PROVE  barriers'[c].parent < c
    <3>1. PICK n, t : n = job[w].at /\ t = job[w].notify
      OBVIOUS
    <3>2. Held(w, -2, <<0, 0, 0>>, n, t, "listed")
      BY <2>4, <3>1 DEF BeginDirectory, At, Held, BusyHeld, BusyWith
    <3>3. t = NoBarrier \/ t \in DOMAIN barriers
      BY <2>2, <3>2 DEF HeldFits
    <3> QED
      BY <1>2, <2>4, <3>1, <3>3 DEF NoBarrier
  <2>5. ASSUME c = nextBarrier + 1, barriers'[c].parent = nextBarrier
        PROVE  barriers'[c].parent < c
    BY <1>2, <2>5
  <2> QED
    BY <2>1, <2>3, <2>4, <2>5 DEF NewRecord
<1> QED
  BY <1>3, <1>4

(* What a directory's barrier waits for, and so when it is released; where   *)
(* every node is, and that it is there once; and what was reported.          *)
WalkInv ==
  /\ EngineInv /\ BodiesKnown /\ CountsInv /\ ListingsKnown
  /\ OnePlace /\ AtMostOnce /\ Untouched /\ Prepared
  /\ ChunksNest /\ BatchesNest /\ ParentsOlder
  /\ ErrorsKnown /\ Covered

LEMMA WalkInit == Init => WalkInv
<1>1. Init => ParentsOlder
  BY DEF Init, ParentsOlder
<1> QED
  BY <1>1, EngineInit, BodiesInit, CountsInit, ListingsInit, PlacesInit, NestingInit,
     ErrorsKnownInit, CoveredInit DEF WalkInv

LEMMA WalkTaskStep ==
  ASSUME WalkInv, EngineInv', BodiesKnown', CountsInv', ListingsKnown', NEW w \in Worker, TaskStep(w)
  PROVE  WalkInv'
<1> USE DEF WalkInv
<1>1. OnePlace'
  BY OnePlaceAfter
<1>2. Untouched'
  BY <1>1, UntouchedAfter
<1>3. AtMostOnce'
  BY AtMostOnceAfter
<1>4. ChunksNest' /\ BatchesNest'
  BY ChunksNestAfter, BatchesNestAfter
<1>5. Covered'
  BY <1>4, CoveredAfter
<1>6. Prepared'
  BY PreparedAfter
<1>7. ErrorsKnown' /\ ParentsOlder'
  BY ErrorsKnownAfter, ParentsOlderAfter
<1> QED
  BY <1>1, <1>2, <1>3, <1>4, <1>5, <1>6, <1>7

LEMMA WalkLoopStep ==
  ASSUME WalkInv, EngineInv', BodiesKnown', CountsInv', ListingsKnown', NEW w \in Worker, LoopStep(w)
  PROVE  WalkInv'
<1> USE DEF WalkInv
<1>1. ParentsOlder'
  BY DEF LoopStep, barrierVars, ParentsOlder
<1> QED
  BY <1>1, LoopKeepsPlaces, LoopKeepsNesting, LoopKeepsCovered, LoopKeepsErrors

(* All workers have returned: nothing changes any more. *)
LEMMA WalkStutters ==
  ASSUME WalkInv, EngineInv', BodiesKnown', CountsInv', ListingsKnown', UNCHANGED vars
  PROVE  WalkInv'
<1>1. UNCHANGED <<accept, quit, fatal, outstanding, injector, deque, pc, task, pub, victim,
                  woken, failed, spawned, finished, job, barriers, nextBarrier, evals, errors>>
  BY DEF vars, schedVars
<1>2. \A u, q, i : WaitsAt(u, q, i)' <=> WaitsAt(u, q, i)
  BY <1>1 DEF WaitsAt, SP!TaskAt, SP!InHand, SP!Publishing, At
<1>3. \A q, i, x, n, t, s : Held(q, i, x, n, t, s)' <=> Held(q, i, x, n, t, s)
  BY <1>1, <1>2 DEF Held, TaskHeld, BusyHeld, RecordHeld, CallHeld
<1>4. \A d : Handled(d)' <=> Handled(d)
  BY <1>1 DEF Handled
<1>5. \A d : Finished(d)' <=> Finished(d)
  BY <1>4 DEF Finished
<1>6. OnePlace' /\ AtMostOnce' /\ Untouched' /\ Prepared'
  BY <1>1, <1>3, <1>4 DEF WalkInv, OnePlace, AtMostOnce, Untouched, Prepared
<1>7. ChunksNest' /\ BatchesNest' /\ ParentsOlder' /\ ErrorsKnown'
  BY <1>1, <1>3 DEF WalkInv, ChunksNest, BatchesNest, ParentsOlder, ErrorsKnown, ItemsKnown
<1>8. Covered'
  <2>1. \A b : UnitsOf(b)' = UnitsOf(b) /\ DueIn(barriers, b)' = DueIn(barriers, b)
    BY <1>1 DEF UnitsOf, RecordsBelow, TasksFor, Unstarted, S!SlotsOf, S!TaskIn, HeldFor, Call,
       CallsFor, BusyFor, At, DueIn
  <2>2. \A b : Whole(b)' <=> Whole(b)
    BY <2>1 DEF Whole
  <2>3. \A c, b : BatchBelow(c, b)' <=> BatchBelow(c, b)
    BY <1>1 DEF BatchBelow
  <2>4. \A b : (Owed(b)' <=> Owed(b)) /\ Kids(b)' = Kids(b)
    BY <1>1, <2>2, <2>3 DEF Owed, Kids
  <2>5. \A m, b : Under(m, b) => Under(m, b)'
    BY <1>3, <2>3 DEF Under
  <2> QED
    BY <1>5, <2>4, <2>5 DEF WalkInv, Covered
<1> QED
  BY <1>6, <1>7, <1>8 DEF WalkInv

LEMMA WalkStep == WalkInv /\ [Next]_vars => WalkInv'
<1> SUFFICES ASSUME WalkInv, [Next]_vars PROVE WalkInv'
  OBVIOUS
<1>1. EngineInv' /\ BodiesKnown' /\ ListingsKnown'
  BY EngineStep, BodiesStep, ListingsStep DEF WalkInv
<1>2. CountsInv'
  BY <1>1, CountsStep DEF WalkInv
<1>3. CASE UNCHANGED vars
  BY <1>1, <1>2, <1>3, WalkStutters
<1>4. ASSUME NEW w \in Worker, LoopStep(w) PROVE WalkInv'
  BY <1>1, <1>2, <1>4, WalkLoopStep
<1>5. ASSUME NEW w \in Worker, TaskStep(w) PROVE WalkInv'
  BY <1>1, <1>2, <1>5, WalkTaskStep
<1> QED
  BY <1>3, <1>4, <1>5 DEF Next

(* In every state of every walk. *)
LEMMA WalkInvariant == Spec => []WalkInv
BY WalkInit, WalkStep, PTL DEF Spec

-----------------------------------------------------------------------------
(* How a walk ends                                                         *)

(* What was evaluated. *)
Done == {n \in Node : evals[n] > 0}

(* Who failed is on its way out, and a stop has a cause that was evaluated. *)
StopsExplained ==
  /\ \A w \in failed : pc[w] \in {"finish", "notify", "fatal", "stop", "alert", "dead"}
  /\ quit => \E n \in MayQuit \cap PostOrderEntries : n \in Done
  /\ failed # {} => \E n \in MayFail \cap PostOrderEntries : n \in Done

(* Only entries are evaluated. *)
LEMMA EvaluatesAnEntry ==
  ASSUME EngineInv, NEW w \in Worker, TaskStep(w), Evaluates(w), NEW n, n = job[w].at
  PROVE  /\ n \in PostOrderEntries /\ n \in Node
         /\ evals[n] \in Nat /\ evals' = [evals EXCEPT ![n] = @ + 1] /\ evals'[n] = evals[n] + 1
<1>1. job[w].step = "eval" /\ evals' = [evals EXCEPT ![n] = @ + 1]
  BY EvalsGrow
<1>2. n \in Walked /\ Visit(n) # "error" /\ IsEvaluatedAt(n)
  BY <1>1 DEF EngineInv, JobsFit, AtNode
<1>3. n \in Node /\ Reached[n]
  BY <1>2 DEF Walked
<1>4. n \in PostOrderEntries
  BY <1>2, <1>3, EntriesAre
<1>5. evals \in [Node -> Nat]
  BY DEF EngineInv
<1> QED
  BY <1>1, <1>3, <1>4, <1>5

LEMMA StopsExplainedStep == EngineInv /\ StopsExplained /\ [Next]_vars => StopsExplained'
<1> SUFFICES ASSUME EngineInv, StopsExplained, [Next]_vars PROVE StopsExplained'
  OBVIOUS
<1>0. pc \in [Worker -> S!Location] /\ failed \subseteq Worker
  BY SchedulerTypes DEF S!TypeOK, Worker
<1>1. CASE UNCHANGED vars
  BY <1>1 DEF vars, schedVars, StopsExplained, Done
<1>2. ASSUME NEW w \in Worker, LoopStep(w) PROVE StopsExplained'
  <2>1. PICK b \in S!Location : pc' = [pc EXCEPT ![w] = b] /\ SP!LoopMove(w, pc[w], b)
    BY <1>2, EngineLoopMoves
  <2>2. UNCHANGED <<quit, failed, evals>>
    BY <1>2, EngineLoopMoves
  <2>3. w \in failed => b \in {"finish", "notify", "fatal", "stop", "alert", "dead"}
    BY <2>1 DEF StopsExplained, SP!LoopMove, SP!Searching
  <2> QED
    BY <1>0, <2>1, <2>2, <2>3 DEF StopsExplained, Done
<1>3. ASSUME NEW w \in Worker, TaskStep(w) PROVE StopsExplained'
  <2>1. pc[w] = "run" /\ \A u \in Worker \ {w} : pc'[u] = pc[u]
    BY <1>3, TaskMoves
  <2>2. w \notin failed
    BY <2>1 DEF StopsExplained
  <2>3. Done \subseteq Done'
    <3>1. \A d \in Node : evals[d] \in Nat /\ evals'[d] \in Nat /\ evals'[d] >= evals[d]
      BY <1>3, HandledStays DEF EngineInv
    <3> QED
      BY <3>1 DEF Done
  <2>4. ASSUME Evaluates(w), NEW n, n = job[w].at PROVE n \in Done' /\ n \in PostOrderEntries
    BY <1>3, <2>4, EvaluatesAnEntry DEF Done
  <2>5. CASE quit' = quit /\ failed' = failed
    BY <1>0, <2>1, <2>2, <2>3, <2>5 DEF StopsExplained
  <2>6. CASE EvalQuits(w)
    <3>1. PICK n : n = job[w].at
      OBVIOUS
    <3>2. n \in MayQuit /\ failed' = failed
      BY <2>6, <3>1 DEF EvalQuits, S!StoreQuit
    <3>3. n \in Done' /\ n \in PostOrderEntries
      BY <2>4, <2>6, <3>1 DEF Evaluates
    <3> QED
      BY <1>0, <2>1, <2>2, <2>3, <3>2, <3>3 DEF StopsExplained
  <2>7. CASE EvalFails(w)
    <3>1. PICK n : n = job[w].at
      OBVIOUS
    <3>2. n \in MayFail /\ failed' = failed \cup {w} /\ quit' = quit /\ pc'[w] = "finish"
      BY <1>0, <2>7, <3>1 DEF EvalFails, S!TaskReturns, S!Goto, S!control
    <3>3. n \in Done' /\ n \in PostOrderEntries
      BY <2>4, <2>7, <3>1 DEF Evaluates
    <3> QED
      BY <1>0, <2>1, <2>2, <2>3, <3>2, <3>3 DEF StopsExplained
  <2> QED
    BY <1>3, <2>5, <2>6, <2>7, TaskMoves DEF schedVars
<1> QED
  BY <1>1, <1>2, <1>3 DEF Next

LEMMA StopsExplainedAlways == Spec => []StopsExplained
<1>1. Init => StopsExplained
  BY DEF Init, S!SchedInit, StopsExplained
<1> QED
  BY <1>1, StopsExplainedStep, EngineInvariant, PTL DEF Spec

(* A set of numbers up to k that has, with a number, a greater one is empty. *)
LEMMA NoneIsGreatest ==
  ASSUME NEW k \in Nat, NEW X \in SUBSET (1..k), \A b \in X : \E c \in X : c > b
  PROVE  X = {}
<1> SUFFICES ASSUME X # {} PROVE FALSE
  OBVIOUS
<1>1. PICK D : D = {k - b : b \in X}
  OBVIOUS
<1>2. D \in SUBSET Nat /\ D # {}
  <2>1. \A b \in X : b \in 1..k /\ k - b \in Nat
    OBVIOUS
  <2> QED
    BY <1>1, <2>1
<1>3. PICK m \in D : \A n \in D : m <= n
  BY <1>2, LeastNumber
<1>4. PICK b \in X : m = k - b
  BY <1>1, <1>3
<1>5. PICK c \in X : c > b
  OBVIOUS
<1>6. k - c \in D
  BY <1>1
<1> QED
  BY <1>3, <1>4, <1>5, <1>6

(* At the end of a walk that was not stopped, nothing is on its way. *)
LEMMA NothingIsLeft ==
  ASSUME WalkInv, StopsExplained, S!NobodyLeavesEarly, Verdict = "complete"
  PROVE  ~quit /\ failed = {} /\ \A q, i, x, n, t, s : ~Held(q, i, x, n, t, s)
<1> USE DEF WalkInv
<1>1. ~quit /\ \A w \in Worker : pc[w] = "exit"
  BY DEF Verdict, S!AllReturned, Worker
<1>2. failed = {}
  <2>1. failed \subseteq Worker
    BY SchedulerTypes DEF S!TypeOK, Worker
  <2> QED
    BY <1>1, <2>1 DEF StopsExplained
<1>3. S!Slots = {}
  <2>1. 1 \in S!Worker
    BY PostOrderAssumption DEF S!Worker
  <2> QED
    BY <1>1, <2>1 DEF S!NobodyLeavesEarly, Worker
<1>4. \A w \in Worker : job[w] = NoJob
  BY <1>1 DEF BodiesKnown
<1>5. \A u, q, i : ~SP!TaskAt(u, q, i)
  <2> SUFFICES ASSUME NEW u, NEW q, NEW i, SP!TaskAt(u, q, i) PROVE FALSE
    OBVIOUS
  <2>1. ~(q = 0 /\ i \in 1..Len(injector))
    BY <1>3 DEF S!Slots, S!SlotsOf
  <2>2. ~(q \in Worker /\ i \in 1..Len(deque[q]))
    <3> SUFFICES ASSUME q \in Worker, i \in 1..Len(deque[q]) PROVE FALSE
      OBVIOUS
    <3>1. <<q, i>> \in {<<q, k>> : k \in 1..Len(deque[q])}
      OBVIOUS
    <3>2. {<<q, k>> : k \in 1..Len(deque[q])} \subseteq S!Slots
      BY DEF S!Slots, S!SlotsOf, Worker
    <3> QED
      BY <1>3, <3>1, <3>2
  <2>3. q \in Worker /\ (i = 0 \/ q \in SP!Publishing)
    BY <2>1, <2>2, RootsAreTasks DEF SP!TaskAt, SP!InHand, SP!Publishing, SP!Worker, S!Worker, Worker
  <2> QED
    BY <1>1, <2>3, RootsAreTasks DEF SP!Publishing, SP!Worker, S!Worker, Worker, SP!TaskAt, SP!InHand
<1>6. ASSUME NEW b \in DOMAIN barriers PROVE \E c \in DOMAIN barriers : c > b
  <2>1. b \in Nat \ {0} /\ barriers[b].remaining \in Nat \ {0}
    BY DEF EngineInv, TableFits, WalkRecord
  <2>2. UnitsOf(b) = DueIn(barriers, b)
    BY <1>1, <1>2, <2>1 DEF CountsInv, Balanced
  <2>3. UnitsOf(b) # 0
    BY <2>1, <2>2 DEF DueIn
  <2>4. BusyFor(b) = {}
    BY <1>1, <1>4, <2>1 DEF BusyFor, At, NoJob, NoBarrier
  <2>5. HeldFor(b) = {}
    <3>1. \A w \in Worker : job[w].frames = <<>>
      BY <1>4 DEF NoJob
    <3>2. \A x : x \notin HeldIn(job, b)
      BY <3>1, HeldPlaces DEF PlaceIn
    <3> QED
      BY <3>2, HeldIs
  <2>6. TasksFor(b) = {}
    <3>1. Unstarted \subseteq S!Slots
      BY <1>1 DEF Unstarted, S!Slots, S!SlotsOf, Worker
    <3> QED
      BY <1>3, <3>1 DEF TasksFor
  <2>7. RecordsBelow(b) # {}
    BY <2>3, <2>4, <2>5, <2>6, FS_EmptySet DEF UnitsOf
  <2>8. PICK c \in DOMAIN barriers : barriers[c].parent = b
    BY <2>7 DEF RecordsBelow
  <2> QED
    BY <2>8 DEF ParentsOlder
<1>7. DOMAIN barriers = {}
  <2>1. PICK k \in Nat : DOMAIN barriers \subseteq 1..k
    BY DEF EngineInv, TableFits
  <2> QED
    BY <1>6, <2>1, NoneIsGreatest
<1>8. \A q, i, x, n, t, s : ~Held(q, i, x, n, t, s)
  BY <1>4, <1>5, <1>7, NoCalls DEF Held, TaskHeld, WaitsAt, BusyHeld, BusyWith, RecordHeld, CallHeld, NoJob
<1> QED
  BY <1>1, <1>2, <1>8

(* So every node the walk gets to has been dealt with. *)
LEMMA CompleteIsHandled ==
  ASSUME WalkInv, StopsExplained, S!NobodyLeavesEarly, Verdict = "complete", NEW n \in Node, Reached[n]
  PROVE  Handled(n)
<1>1. ~quit /\ failed = {} /\ \A q, i, x, m, t, s : ~Held(q, i, x, m, t, s)
  BY NothingIsLeft
<1>2. \A m \in Root : Finished(m)
  <2>1. Owed(NoBarrier) /\ Kids(NoBarrier) = Root
    BY <1>1 DEF Owed, Kids
  <2>2. \A m : ~Under(m, NoBarrier)
    BY <1>1 DEF Under
  <2> QED
    BY <2>1, <2>2 DEF WalkInv, Covered
<1>3. PICK a \in Ancestors[n] \cup {n} : a \in Root
  BY RootAbove
<1> QED
  BY <1>2, <1>3 DEF Finished, Below, Walked

-----------------------------------------------------------------------------
(* The theorems about the walk                                             *)

(* The walk's invariant, why it stops, and that no task is left at the end. *)
EndInv == WalkInv /\ StopsExplained /\ S!NobodyLeavesEarly

LEMMA EndInvariant == Spec => []EndInv
<1>1. WalkInv /\ StopsExplained /\ (S!OutstandingExact /\ S!NobodyLeavesEarly) => EndInv
  BY DEF EndInv
<1> QED
  BY <1>1, WalkInvariant, StopsExplainedAlways, NoTaskIsLeftBehind, PTL

(* A depth-mode walk that ends without -quit or a failure has evaluated      *)
(* every entry: no node, chunk or waiting directory is lost on its way       *)
(* through the batches, the queues, the thefts and the barriers, and every   *)
(* barrier was released in the end.                                          *)
THEOREM CompleteWalksAreComplete == Spec => [](Verdict = "complete" => PostOrderEntries \subseteq Done)
<1>1. EndInv => (Verdict = "complete" => PostOrderEntries \subseteq Done)
  BY CompleteIsHandled DEF EndInv, PostOrderEntries, PreOrderEntries, Done, Handled
<1> QED
  BY <1>1, EndInvariant, PTL

(* Such a walk has reported the nodes that could not be loaded, checked,     *)
(* identified, entered or listed to the end, and besides them only           *)
(* directories that could not be opened.                                     *)
THEOREM FailuresAreReported == Spec => []EveryFailureReported
<1>1. EndInv => EveryFailureReported
  <2> SUFFICES ASSUME EndInv, Verdict = "complete"
               PROVE  /\ FaultyNodes \subseteq errors
                      /\ errors \ FaultyNodes \subseteq {n \in Unreadable : Reached[n] /\ Visit(n) = "list"}
    BY DEF EveryFailureReported
  <2>1. FaultyNodes \subseteq errors
    BY CompleteIsHandled DEF EndInv, FaultyNodes, Handled
  <2>2. errors \subseteq MayReport
    BY DEF EndInv, WalkInv, ErrorsKnown
  <2> QED
    BY <2>1, <2>2 DEF MayReport
<1> QED
  BY <1>1, EndInvariant, PTL

(* Who is about to evaluate a node. *)
Evaluating(w, n) == job[w].step = "eval" /\ job[w].at = n

(* No node is evaluated twice, and no two workers are about to evaluate the  *)
(* same one, also after -quit and failures: a directory is released once, by *)
(* the one worker that reports its last unit.                                *)
EvaluatesOnce == \A n \in Node :
  /\ evals[n] <= 1
  /\ \A w \in Worker : Evaluating(w, n) =>
       evals[n] = 0 /\ \A v \in Worker : Evaluating(v, n) => v = w

THEOREM NothingIsEvaluatedTwice == Spec => []EvaluatesOnce
<1>1. WalkInv => EvaluatesOnce
  <2> SUFFICES ASSUME WalkInv, NEW n \in Node
               PROVE  /\ evals[n] <= 1
                      /\ \A w \in Worker : Evaluating(w, n) =>
                           evals[n] = 0 /\ \A v \in Worker : Evaluating(v, n) => v = w
    BY DEF EvaluatesOnce
  <2>1. \A w \in Worker : Evaluating(w, n) => \E t : Held(w, -2, NoPlace, n, t, "ready")
    BY DEF Evaluating, Held, BusyHeld, BusyWith, NoPlace
  <2>2. \A w \in Worker : Evaluating(w, n) => evals[n] = 0
    BY <2>1 DEF WalkInv, AtMostOnce
  <2>3. \A w, v \in Worker : Evaluating(w, n) /\ Evaluating(v, n) => v = w
    BY <2>1 DEF WalkInv, OnePlace
  <2>4. evals[n] \in {0, 1}
    BY DEF WalkInv, AtMostOnce
  <2> QED
    BY <2>2, <2>3, <2>4
<1> QED
  BY <1>1, WalkInvariant, PTL

(* A directory is released, and evaluated, only when each entry below it has *)
(* been evaluated, whichever workers ran its chunks, and also while a -quit  *)
(* or a failure unwinds the walk: then it is not released at all.            *)
DescendantsFirst == \A w \in Worker : job[w].step \in {"release", "eval"} =>
  \A d \in PostOrderEntries : job[w].at \in Ancestors[d] => evals[d] = 1

LEMMA ReadyIsOver ==
  ASSUME WalkInv, NEW w \in Worker, job[w].step \in {"release", "eval"},
         NEW d \in PostOrderEntries, job[w].at \in Ancestors[d]
  PROVE  evals[d] = 1
<1>1. PICK n, t : n = job[w].at /\ t = job[w].notify
  OBVIOUS
<1>2. Held(w, -2, NoPlace, n, t, "ready")
  BY <1>1 DEF Held, BusyHeld, BusyWith, NoPlace
<1>3. d \in Node /\ d \in Below(n)
  BY <1>1 DEF PostOrderEntries, PreOrderEntries, Below, Walked
<1>4. Handled(d)
  BY <1>2, <1>3 DEF WalkInv, Prepared
<1> QED
  BY <1>3, <1>4 DEF WalkInv, AtMostOnce, Handled

THEOREM DirectoriesWait == Spec => []DescendantsFirst
<1>1. WalkInv => DescendantsFirst
  BY ReadyIsOver DEF DescendantsFirst
<1> QED
  BY <1>1, WalkInvariant, PTL
-----------------------------------------------------------------------------
(* The engine keeps the promise of Traversal.tla                             *)

(* The verdict tells what was evaluated. *)
VerdictKnown ==
  /\ Verdict = "complete" => PostOrderEntries \subseteq Done
  /\ Verdict = "stopped" => \E n \in MayQuit \cap PostOrderEntries : n \in Done
  /\ Verdict = "failed" => \E n \in MayFail \cap PostOrderEntries : n \in Done

LEMMA VerdictInvariant == Spec => []VerdictKnown
<1>1. EndInv => VerdictKnown
  <2> SUFFICES ASSUME EndInv PROVE VerdictKnown
    OBVIOUS
  <2>1. Verdict = "complete" => PostOrderEntries \subseteq Done
    BY CompleteIsHandled DEF EndInv, PostOrderEntries, PreOrderEntries, Done, Handled
  <2>2. Verdict = "failed" => failed # {}
    BY DEF EndInv, WalkInv, BodiesKnown, Verdict
  <2>3. Verdict = "stopped" => quit
    BY DEF Verdict
  <2> QED
    BY <2>1, <2>2, <2>3 DEF EndInv, StopsExplained, VerdictKnown
<1> QED
  BY <1>1, EndInvariant, PTL

(* What the promise sees of the counts. *)
Seen == [n \in PostOrderEntries |-> evals[n]]

LEMMA PromiseInit == Init => Abstract!TravInit
<1> SUFFICES ASSUME Init PROVE Abstract!TravInit
  OBVIOUS
<1>1. [n \in PostOrderEntries |-> evals[n]] = [n \in PostOrderEntries |-> 0]
  BY DEF Init, PostOrderEntries, PreOrderEntries
<1>2. Verdict = "running"
  <2>1. 1 \in S!Worker
    BY PostOrderAssumption DEF S!Worker
  <2>2. pc[1] = "local"
    BY <2>1 DEF Init, S!SchedInit
  <2> QED
    BY <2>1, <2>2 DEF Verdict, S!AllReturned
<1> QED
  BY <1>1, <1>2 DEF Abstract!TravInit

LEMMA DoneIsEvaluated == Abstract!Evaluated = Done \cap PostOrderEntries
BY DEF Abstract!Evaluated, Done, PostOrderEntries, PreOrderEntries

(* A step of the loop can only end the walk. *)
LEMMA LoopKeepsThePromise ==
  ASSUME EngineInv, VerdictKnown', NEW w \in Worker, LoopStep(w)
  PROVE  Abstract!TravNext \/ UNCHANGED <<Seen, Verdict>>
<1>0. pc \in [Worker -> S!Location] /\ S!Worker = Worker
  BY SchedulerTypes DEF S!TypeOK, Worker
<1>1. UNCHANGED <<quit, evals>>
  BY EngineLoopMoves
<1>2. Seen' = Seen /\ Done' = Done
  BY <1>1 DEF Seen, Done
<1>3. CASE Verdict' = Verdict
  BY <1>2, <1>3
<1>4. CASE Verdict' # Verdict
  <2>1. Verdict = "running"
    <3> SUFFICES ASSUME S!AllReturned PROVE Verdict' = Verdict
      BY <1>4 DEF Verdict
    <3>1. pc' = pc
      <4>1. PICK b \in S!Location : pc' = [pc EXCEPT ![w] = b] /\ SP!LoopMove(w, pc[w], b)
        BY EngineLoopMoves
      <4>2. pc[w] \in {"exit", "dead"}
        BY <1>0 DEF S!AllReturned
      <4>3. b = pc[w]
        BY <4>1, <4>2 DEF SP!LoopMove, SP!Searching
      <4> QED
        BY <1>0, <4>1, <4>3
    <3> QED
      BY <1>1, <3>1 DEF Verdict, S!AllReturned
  <2>2. Verdict' \in {"complete", "stopped", "failed"}
    BY <1>4, <2>1 DEF Verdict
  <2>3. /\ Verdict' = "complete" => PostOrderEntries \subseteq Done
        /\ Verdict' = "stopped" => \E n \in MayQuit \cap PostOrderEntries : n \in Done
        /\ Verdict' = "failed" => \E n \in MayFail \cap PostOrderEntries : n \in Done
    BY <1>2 DEF VerdictKnown
  <2>4. Abstract!Complete \/ Abstract!Stop \/ Abstract!Fail
    BY <2>2, <2>3, DoneIsEvaluated DEF Abstract!Complete, Abstract!Stop, Abstract!Fail
  <2> QED
    BY <1>2, <2>1, <2>4 DEF Abstract!TravNext, Abstract!End, Seen
<1> QED
  BY <1>3, <1>4

(* A step of a body evaluates an entry that is ready, or nothing. *)
LEMMA TaskKeepsThePromise ==
  ASSUME WalkInv, NEW w \in Worker, TaskStep(w)
  PROVE  Abstract!TravNext \/ UNCHANGED <<Seen, Verdict>>
<1> USE DEF WalkInv
<1>0. pc \in [Worker -> S!Location] /\ evals \in [Node -> Nat] /\ S!Worker = Worker
  BY SchedulerTypes DEF EngineInv, S!TypeOK, Worker
<1>1. pc[w] = "run" /\ pc'[w] \in {"run", "count", "quit", "finish"}
  BY TaskMoves DEF schedVars
<1>2. Verdict = "running" /\ Verdict' = "running"
  BY <1>0, <1>1 DEF Verdict, S!AllReturned
<1>3. CASE ~Evaluates(w)
  BY <1>2, <1>3, EvalsGrow DEF Seen
<1>4. CASE Evaluates(w)
  <2>1. PICK n : n = job[w].at
    OBVIOUS
  <2>2. /\ n \in PostOrderEntries /\ n \in Node
        /\ evals' = [evals EXCEPT ![n] = @ + 1] /\ evals'[n] = evals[n] + 1
    BY <1>4, <2>1, EvaluatesAnEntry
  <2>3. PICK t : Held(w, -2, NoPlace, n, t, "ready")
    BY <1>4, <2>1, EvaluatedIsHeld
  <2>4. evals[n] = 0
    BY <2>3 DEF AtMostOnce
  <2>5. Seen' = [Seen EXCEPT ![n] = 1] /\ Seen[n] = 0
    BY <1>0, <2>2, <2>4 DEF Seen, PostOrderEntries, PreOrderEntries
  <2>6. DescendantsBefore[n] \subseteq Abstract!Evaluated
    <3> SUFFICES ASSUME NEW d \in PostOrderEntries, n \in Ancestors[d] PROVE d \in Done
      BY <2>2, DoneIsEvaluated DEF DescendantsBefore
    <3>1. job[w].step = "eval"
      BY <1>4, EvalsGrow
    <3>2. evals[d] = 1 /\ d \in Node
      BY <2>1, <3>1, ReadyIsOver DEF PostOrderEntries, PreOrderEntries
    <3> QED
      BY <3>2 DEF Done
  <2>7. PICK m \in PostOrderEntries : m = n
    BY <2>2
  <2>8. Abstract!Evaluate(m)
    BY <1>2, <2>5, <2>6, <2>7 DEF Abstract!Evaluate, Seen
  <2> QED
    BY <2>7, <2>8 DEF Abstract!TravNext
<1> QED
  BY <1>3, <1>4

LEMMA PromiseStep ==
  ASSUME WalkInv, VerdictKnown', [Next]_vars
  PROVE  Abstract!TravNext \/ UNCHANGED <<Seen, Verdict>>
<1>1. CASE UNCHANGED vars
  <2>1. UNCHANGED Seen /\ UNCHANGED Verdict
    BY <1>1 DEF vars, schedVars, Seen, Verdict, S!AllReturned
  <2> QED
    BY <2>1
<1>2. CASE \E w \in Worker : LoopStep(w)
  BY <1>2, LoopKeepsThePromise DEF WalkInv
<1>3. CASE \E w \in Worker : TaskStep(w)
  BY <1>3, TaskKeepsThePromise
<1> QED
  BY <1>1, <1>2, <1>3 DEF Next

(* The depth-mode engine implements the promise, but for its fairness: every *)
(* entry is evaluated at most once and after every entry below it, and the   *)
(* walk ends complete only with every entry evaluated, stopped only after a  *)
(* -quit, failed only after a failed evaluation.                             *)
THEOREM EngineKeepsThePromise == Spec => Abstract!TravSafety
<1>1. WalkInv /\ VerdictKnown' /\ [Next]_vars => [Abstract!TravNext]_<<Seen, Verdict>>
  BY PromiseStep
<1>2. [Abstract!TravNext]_<<Seen, Verdict>> => [Abstract!TravNext]_(Abstract!travVars)
  BY DEF Seen, Abstract!travVars
<1> QED
  BY <1>1, <1>2, PromiseInit, WalkInvariant, VerdictInvariant, PTL DEF Spec, Abstract!TravSafety
=============================================================================
