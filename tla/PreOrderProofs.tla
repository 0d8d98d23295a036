--------------------------- MODULE PreOrderProofs ---------------------------
(***************************************************************************)
(* Proofs about PreOrderEngine, for every tree, every number of workers    *)
(* and every size of a chunk.                                              *)
(***************************************************************************)
EXTENDS PreOrderEngine, WalkTreeProofs

Chunk(R) == Seq(R) \ {<<>>}

(* What is proved about the scheduler, for the engine's tasks. *)
SP == INSTANCE SchedulerProofs WITH
        Task <- Seq(Node) \ {<<>>}, NoTask <- <<>>,
        Roots <- [i \in 1..Len(StartPaths) |-> <<StartPaths[i]>>]

-----------------------------------------------------------------------------
(* The engine is the scheduler                                             *)

(* The root tasks are chunks of one start path each. *)
LEMMA RootsAreTasks ==
  /\ NWorkers \in Nat \ {0}
  /\ <<>> \notin Seq(Node) \ {<<>>}
  /\ [i \in 1..Len(StartPaths) |-> <<StartPaths[i]>>] \in Seq(Seq(Node) \ {<<>>})
<1>1. StartPaths \in Seq(Node)
  BY WalkTreeAssumption
<1>2. Len(StartPaths) \in Nat /\ \A i \in 1..Len(StartPaths) : StartPaths[i] \in Node
  BY <1>1
<1>3. \A i \in 1..Len(StartPaths) : <<StartPaths[i]>> \in Seq(Node) \ {<<>>}
  BY <1>2
<1> QED
  BY <1>2, <1>3, PreOrderAssumption

LEMMA SameLoop == \A w : S!WorkerLoop(w) <=> SP!WorkerLoop(w)
BY DEF S!PopLocal, SP!PopLocal, S!LocalEmpty, SP!LocalEmpty, S!StealInjector, SP!StealInjector, S!InjectorMissed, SP!InjectorMissed, S!StealPeer, SP!StealPeer, S!PeerMissed, SP!PeerMissed, S!NothingFound, SP!NothingFound, S!LeaveLoop, SP!LeaveLoop, S!GoToSleep, SP!GoToSleep, S!StartWait, SP!StartWait, S!Notified, SP!Notified, S!TimesOut, SP!TimesOut, S!Admit, SP!Admit, S!TaskFinished, SP!TaskFinished, S!NotifyAtZero, SP!NotifyAtZero, S!StoreFatal, SP!StoreFatal, S!StopAfterFatal, SP!StopAfterFatal, S!Die, SP!Die, S!FlushAndReport, SP!FlushAndReport, S!CountTask, SP!CountTask, S!PushTask, SP!PushTask, S!StopAfterQuit, SP!StopAfterQuit, S!NotifySleepers, SP!NotifySleepers, S!Worker, SP!Worker, S!Goto, SP!Goto, S!control, SP!control, S!queues, SP!queues, S!history, SP!history, S!WorkerLoop, SP!WorkerLoop

-----------------------------------------------------------------------------
(* What the workers hold                                                   *)

(* Joining the chunks of a sequence gives a sequence of what they hold. *)
LEMMA FlattenSeqType ==
  ASSUME NEW R, NEW s \in Seq(Seq(R))
  PROVE  FlattenSeq(s) \in Seq(R)
<1> DEFINE step(f) == [i \in 1..Len(s) |-> IF i = 1 THEN s[i] ELSE f[i - 1] \o s[i]]
           flatten == CHOOSE f : f = step(f)
           Good(m, f) == \A i \in 1..m : /\ f[i] \in Seq(R)
                                         /\ f[i] = IF i = 1 THEN s[i] ELSE f[i - 1] \o s[i]
           T == {m \in Nat : m <= Len(s) => \E f : Good(m, f)}
<1>0. Len(s) \in Nat /\ \A i \in 1..Len(s) : s[i] \in Seq(R)
  BY LenProperties, ElementOfSeq
<1>1. 0 \in T
  OBVIOUS
<1>2. ASSUME NEW m \in Nat, m \in T
      PROVE  m + 1 \in T
  <2> SUFFICES ASSUME m + 1 <= Len(s) PROVE \E f : Good(m + 1, f)
    <3> HIDE DEF Good
    <3> QED
      OBVIOUS
  <2>1. PICK f : Good(m, f)
    <3> HIDE DEF Good
    <3> QED
      BY <1>0, <1>2
  <2> DEFINE g == [i \in 1..(m + 1) |-> IF i = m + 1 /\ m # 0 THEN f[m] \o s[m + 1]
                                        ELSE IF i = m + 1 THEN s[i] ELSE f[i]]
  <2>2. s[m + 1] \in Seq(R)
    BY <1>0
  <2>3. m # 0 => f[m] \in Seq(R) /\ f[m] \o s[m + 1] \in Seq(R)
    BY <2>1, <2>2, ConcatProperties
  <2>4. Good(m + 1, g)
    <3> SUFFICES ASSUME NEW i \in 1..(m + 1)
                 PROVE  /\ g[i] \in Seq(R)
                        /\ g[i] = IF i = 1 THEN s[i] ELSE g[i - 1] \o s[i]
      OBVIOUS
    <3>1. CASE i = m + 1
      BY <2>2, <2>3, <3>1
    <3>2. CASE i # m + 1
      <4>1. i \in 1..m /\ g[i] = f[i] /\ (i # 1 => i - 1 \in 1..m /\ g[i - 1] = f[i - 1])
        BY <3>2
      <4> QED
        BY <2>1, <4>1
    <3> QED
      BY <3>1, <3>2
  <2> QED
    <3> HIDE DEF Good, g
    <3> QED
      BY <2>4
<1>3. Nat \subseteq T
  <2> HIDE DEF T
  <2> QED
    BY <1>1, <1>2, NatSetInduction
<1>4. PICK f : Good(Len(s), f)
  <2> HIDE DEF Good
  <2> QED
    BY <1>0, <1>3
<1>5. [i \in 1..Len(s) |-> f[i]] = step([i \in 1..Len(s) |-> f[i]])
  BY <1>0, <1>4
<1>6. flatten = step(flatten)
  <2> HIDE DEF step
  <2> QED
    BY <1>5
<1> HIDE DEF flatten
<1>6a. \A i \in 1..Len(s) : flatten[i] = IF i = 1 THEN s[i] ELSE flatten[i - 1] \o s[i]
  BY <1>6
<1> DEFINE U == {m \in Nat : \A i \in 1..m : i <= Len(s) => flatten[i] \in Seq(R)}
<1>7. 0 \in U
  OBVIOUS
<1>8. ASSUME NEW m \in Nat, m \in U
      PROVE  m + 1 \in U
  <2> SUFFICES ASSUME m + 1 <= Len(s) PROVE flatten[m + 1] \in Seq(R)
    BY <1>8
  <2>1. flatten[m + 1] = IF m + 1 = 1 THEN s[m + 1] ELSE flatten[m] \o s[m + 1]
    BY <1>0, <1>6a
  <2>2. s[m + 1] \in Seq(R)
    BY <1>0
  <2>3. m # 0 => flatten[m] \in Seq(R)
    BY <1>0, <1>8
  <2> QED
    BY <2>1, <2>2, <2>3, ConcatProperties
<1>9. Nat \subseteq U
  <2> HIDE DEF U
  <2> QED
    BY <1>7, <1>8, NatSetInduction
<1>10. Len(s) # 0 => flatten[Len(s)] \in Seq(R)
  <2>1. Len(s) \in U
    <3> HIDE DEF U
    <3> QED
      BY <1>0, <1>9
  <2>2. \A i \in 1..Len(s) : i <= Len(s) => flatten[i] \in Seq(R)
    BY <2>1
  <2> QED
    BY <1>0, <2>2
<1>11. Len(s) = 0 => s = <<>>
  BY EmptySeq
<1> QED
  BY <1>10, <1>11 DEF FlattenSeq, flatten

(* The local state of a task body that handles nodes of R only. *)
JobOver(R) ==
  [step : {"idle", "next", "eval", "descend", "list", "spill", "publish", "leave"},
   stack : Seq(R), at : Node \cup {NoNode}, items : Seq(R \cup {BadItem}),
   local : Seq(R), buffer : Seq(R), spilled : Seq(Chunk(R)), outbox : Seq(Chunk(R)),
   then : {"idle", "list", "next"}, sawQuit : BOOLEAN]

(* The node a body is at has passed what comes before the step it is at. *)
AtNode(j, R) ==
  /\ j.step \in {"eval", "leave", "descend", "list", "spill"} => j.at \in R
  /\ j.step = "publish" /\ j.then = "list" => j.at \in R
  /\ j.step \in {"eval", "leave", "descend"} => Loads(j.at) /\ Controlled(j.at)
  /\ j.step \in {"eval", "leave"} => IsEvaluatedAt(j.at)
  /\ j.step = "publish" => j.then \in {"list", "next"}

JobFits(j, R) == j \in JobOver(R) /\ AtNode(j, R)
JobsFit(R) == job \in [Worker -> JobOver(R)] /\ \A w \in Worker : AtNode(job[w], R)

(* The queues and the hands of the workers hold chunks of nodes of R only. *)
QueuesFit(R) ==
  /\ quit \in BOOLEAN
  /\ injector \in Seq(Chunk(R))
  /\ deque \in [Worker -> Seq(Chunk(R))]
  /\ \A w \in Worker :
       /\ pc[w] \in {"got", "run", "count", "push", "quit", "finish"} => task[w] \in Chunk(R)
       /\ pc[w] \in {"count", "push"} => pub[w] \in Chunk(R)

LEMMA NoJobFits == \A R : JobFits(NoJob, R)
BY DEF NoJob, JobFits, JobOver, AtNode

(* Splitting the children keeps the job over R. *)
LEMMA AccumulateFits ==
  ASSUME NEW R, NEW j \in JobOver(R), NEW child \in R, NEW maySplit
  PROVE  /\ Accumulate(j, child, maySplit) \in JobOver(R)
         /\ Accumulate(j, child, maySplit).at = j.at
         /\ Accumulate(j, child, maySplit).sawQuit = j.sawQuit
<1>0. j.local \in Seq(R) /\ j.buffer \in Seq(R)
  BY DEF JobOver
<1>1. Append(j.local, child) \in Seq(R) /\ Append(j.buffer, child) \in Chunk(R)
  BY <1>0, AppendProperties DEF Chunk
<1>2. Append(j.spilled, Append(j.buffer, child)) \in Seq(Chunk(R))
  BY <1>1, AppendProperties DEF JobOver
<1>3. <<>> \in Seq(R)
  OBVIOUS
<1> QED
  BY <1>1, <1>2, <1>3 DEF Accumulate, JobOver, Chunk

LEMMA ChildListed ==
  ASSUME NEW R, NEW w \in Worker, ListChild(w), job \in [Worker -> JobOver(R)]
  PROVE  /\ job'[w].step \in {"list", "spill"}
         /\ job'[w].at = job[w].at /\ job'[w].sawQuit = job[w].sawQuit
<1> DEFINE j0 == job[w]
           popped == [j0 EXCEPT !.items = Tail(@)]
           k == Accumulate(popped, Head(j0.items), accept)
<1>1. j0 \in JobOver(R)
  OBVIOUS
<1>2. j0.items \in Seq(R \cup {BadItem}) /\ j0.items # <<>> /\ Head(j0.items) # BadItem
  BY <1>1 DEF ListChild, JobOver
<1>3. Tail(j0.items) \in Seq(R \cup {BadItem}) /\ Head(j0.items) \in R
  BY <1>2, HeadTailProperties
<1>4. popped \in JobOver(R) /\ popped.at = j0.at /\ popped.sawQuit = j0.sawQuit
  BY <1>1, <1>3 DEF JobOver
<1> HIDE DEF popped
<1>5. k \in JobOver(R) /\ k.at = popped.at /\ k.sawQuit = popped.sawQuit
  BY <1>3, <1>4, AccumulateFits
<1> HIDE DEF k
<1>6. job' = [job EXCEPT ![w] = [k EXCEPT !.step = IF k.spilled = <<>> THEN "list" ELSE "spill"]]
  BY DEF ListChild, Update, k, popped
<1> QED
  BY <1>4, <1>5, <1>6 DEF JobOver

LEMMA ObserveFits ==
  ASSUME NEW R, NEW j \in JobOver(R)
  PROVE  LET k == ObserveQuit(j) IN
         /\ k.local \in Seq(R) /\ k.stack \in Seq(R)
         /\ FinishChunks(k) \in Seq(Chunk(R))
         /\ quit => FinishChunks(k) = <<>>
<1>1. /\ j.local \in Seq(R) /\ j.stack \in Seq(R) /\ j.buffer \in Seq(R)
      /\ j.spilled \in Seq(Chunk(R))
  BY DEF JobOver
<1>2. FlattenSeq(j.spilled) \in Seq(R)
  <2>1. j.spilled \in Seq(Seq(R))
    BY <1>1, SeqMonotonic DEF Chunk
  <2> QED
    BY <2>1, FlattenSeqType
<1>3. j.local \o FlattenSeq(j.spilled) \o j.buffer \in Seq(R)
  <2>1. j.local \o FlattenSeq(j.spilled) \in Seq(R)
    BY <1>1, <1>2, ConcatProperties
  <2> QED
    BY <1>1, <2>1, ConcatProperties
<1>4. j.buffer # <<>> => Append(j.spilled, j.buffer) \in Seq(Chunk(R))
  BY <1>1, AppendProperties DEF Chunk
<1>5. DOMAIN j = {"step", "stack", "at", "items", "local", "buffer", "spilled",
                  "outbox", "then", "sawQuit"}
  BY DEF JobOver
<1>6. CASE quit
  <2> DEFINE k == ObserveQuit(j)
  <2>1. /\ k.local = j.local \o FlattenSeq(j.spilled) \o j.buffer
        /\ k.stack = j.stack /\ k.spilled = <<>> /\ k.buffer = <<>>
    BY <1>5, <1>6 DEF ObserveQuit
  <2> QED
    BY <1>1, <1>3, <2>1 DEF FinishChunks
<1>7. CASE ~quit
  BY <1>1, <1>4, <1>7 DEF ObserveQuit, FinishChunks
<1> QED
  BY <1>6, <1>7

(* Every step of a task body leaves a job over R, if the directories it may *)
(* open next have their children in R.                                      *)
LEMMA TaskStepFits ==
  ASSUME NEW R \in SUBSET Node, NEW w \in Worker, TaskStep(w), JobsFit(R), QueuesFit(R),
         job[w].step = "descend" /\ Opens(job[w].at) => Children(job[w].at) \subseteq R
  PROVE  \E j : JobFits(j, R) /\ Update(w, j)
<1> USE DEF JobFits
<1>0. job[w] \in JobOver(R) /\ AtNode(job[w], R)
  BY DEF JobsFit
<1> DEFINE j0 == job[w]
<1>a. /\ j0.stack \in Seq(R) /\ j0.items \in Seq(R \cup {BadItem})
      /\ j0.outbox \in Seq(Chunk(R)) /\ j0.spilled \in Seq(Chunk(R))
      /\ j0.at \in Node \cup {NoNode} /\ j0.then \in {"idle", "list", "next"}
  BY <1>0 DEF JobOver
<1>b. /\ j0.stack # <<>> => Head(j0.stack) \in R /\ Tail(j0.stack) \in Seq(R)
      /\ j0.items # <<>> => /\ Head(j0.items) \in R \cup {BadItem}
                            /\ Tail(j0.items) \in Seq(R \cup {BadItem})
      /\ j0.outbox # <<>> => Tail(j0.outbox) \in Seq(Chunk(R))
  BY <1>a, HeadTailProperties
<1>c. <<>> \in Seq(R) /\ <<>> \in Seq(Chunk(R)) /\ <<>> \in Seq(R \cup {BadItem})
  OBVIOUS
<1>1. CASE StartBatch(w)
  <2>1. task[w] \in Seq(R)
    BY <1>1 DEF StartBatch, At, QueuesFit, Chunk
  <2> DEFINE j == [NoJob EXCEPT !.step = "next", !.stack = task[w]]
  <2>2. JobFits(j, R)
    BY <2>1, NoJobFits DEF NoJob, JobOver, AtNode
  <2> QED
    BY <1>1, <2>2 DEF StartBatch
<1>2. CASE EndBatch(w) \/ LeaveAfterQuit(w) \/ EvalFails(w) \/ OpenFails(w)
  BY <1>2, NoJobFits DEF EndBatch, LeaveAfterQuit, EvalFails, OpenFails
<1>3. CASE LoadNext(w)
  <2> DEFINE n == Head(j0.stack)
             popped == [j0 EXCEPT !.stack = Tail(@)]
             j == [popped EXCEPT !.at = n, !.step = IF IsEvaluatedAt(n) THEN "eval" ELSE "descend"]
  <2>1. n \in R /\ Tail(j0.stack) \in Seq(R) /\ j0.step = "next"
    BY <1>3, <1>b DEF LoadNext, At
  <2>2. JobFits(popped, R)
    BY <1>0, <2>1 DEF JobOver, AtNode
  <2>3. Loads(n) /\ Controlled(n) => JobFits(j, R)
    BY <1>0, <2>1 DEF JobOver, AtNode
  <2> QED
    BY <1>3, <2>2, <2>3 DEF LoadNext
<1>4. CASE EvalOk(w) \/ EvalQuits(w)
  <2> DEFINE j(s) == [j0 EXCEPT !.step = s]
  <2>1. JobFits(j("descend"), R) /\ JobFits(j("leave"), R)
    BY <1>0, <1>4 DEF EvalOk, EvalQuits, At, JobOver, AtNode
  <2> QED
    BY <1>4, <2>1 DEF EvalOk, EvalQuits
<1>5. CASE DoNotDescend(w)
  <2> DEFINE j == [j0 EXCEPT !.step = "next", !.at = NoNode]
  <2>1. JobFits(j, R)
    BY <1>0, <1>5 DEF JobOver, AtNode
  <2> QED
    BY <1>5, <2>1 DEF DoNotDescend
<1>6. CASE OpenDirectory(w)
  <2> DEFINE n == j0.at
             j == [j0 EXCEPT !.step = "list", !.items = Items[n]]
  <2>1. n \in R /\ Opens(n) /\ j0.step = "descend"
    BY <1>0, <1>6 DEF OpenDirectory, At, AtNode, Opens
  <2>2. Items[n] \in Seq(R \cup {BadItem})
    <3>1. Items[n] \in Seq(Node \cup {BadItem})
      BY <2>1, WalkTreeAssumption
    <3>2. \A i \in 1..Len(Items[n]) : Items[n][i] \in R \cup {BadItem}
      BY <2>1 DEF Children, RangeOf
    <3> QED
      BY <3>1, <3>2
  <2>3. JobFits(j, R)
    BY <1>0, <2>1, <2>2 DEF JobOver, AtNode
  <2> QED
    BY <1>6, <2>3 DEF OpenDirectory
<1>7. CASE ListBadItem(w)
  <2> DEFINE j == [j0 EXCEPT !.items = Tail(@)]
  <2>1. JobFits(j, R)
    BY <1>0, <1>7, <1>b DEF ListBadItem, At, JobOver, AtNode
  <2> QED
    BY <1>7, <2>1 DEF ListBadItem
<1>8. CASE ListChild(w)
  <2> DEFINE popped == [j0 EXCEPT !.items = Tail(@)]
             k == Accumulate(popped, Head(j0.items), accept)
             j == [k EXCEPT !.step = IF k.spilled = <<>> THEN "list" ELSE "spill"]
  <2>1. /\ popped \in JobOver(R) /\ Head(j0.items) \in R /\ j0.step = "list"
        /\ popped.at = j0.at
    BY <1>0, <1>8, <1>b DEF ListChild, At, JobOver
  <2> HIDE DEF popped
  <2>2. k \in JobOver(R) /\ k.at = j0.at
    BY <2>1, AccumulateFits
  <2> HIDE DEF k
  <2>3. JobFits(j, R)
    <3>1. PICK st : /\ st \in {"list", "spill"}
                    /\ st = IF k.spilled = <<>> THEN "list" ELSE "spill"
      OBVIOUS
    <3>2. [k EXCEPT !.step = st] \in JobOver(R)
      BY <2>2, <3>1 DEF JobOver
    <3>3. [k EXCEPT !.step = st].at = j0.at /\ [k EXCEPT !.step = st].step = st
      BY <2>2 DEF JobOver
    <3> QED
      BY <1>0, <2>1, <3>1, <3>2, <3>3 DEF AtNode, JobFits
  <2> QED
    BY <1>8, <2>3 DEF ListChild, k, popped
<1>9. CASE SpillNow(w)
  <2> DEFINE j == [j0 EXCEPT !.step = "publish", !.outbox = j0.spilled,
                             !.spilled = <<>>, !.then = "list"]
             k == [j0 EXCEPT !.step = "list"]
  <2>1. JobFits(j, R)
    BY <1>0, <1>9, <1>a, <1>c DEF SpillNow, At, JobOver, AtNode
  <2>2. JobFits(k, R)
    BY <1>0, <1>9 DEF SpillNow, At, JobOver, AtNode
  <2> QED
    BY <1>9, <2>1, <2>2 DEF SpillNow
<1>10. CASE EndListing(w)
  <2> DEFINE k == ObserveQuit(j0)
             j == [NoJob EXCEPT !.step = "publish", !.outbox = FinishChunks(k),
                                !.then = "next", !.stack = k.local \o k.stack,
                                !.sawQuit = quit]
  <2>1. k.local \in Seq(R) /\ k.stack \in Seq(R) /\ FinishChunks(k) \in Seq(Chunk(R))
    BY <1>0, ObserveFits
  <2>2. k.local \o k.stack \in Seq(R)
    BY <2>1, ConcatProperties
  <2>3. quit \in BOOLEAN
    BY DEF QueuesFit
  <2> HIDE DEF k
  <2>4. JobFits(j, R)
    BY <2>1, <2>2, <2>3, <1>c DEF NoJob, JobOver, AtNode
  <2> QED
    BY <1>10, <2>4 DEF EndListing, k
<1>11. CASE PublishChunk(w)
  <2> DEFINE j == [j0 EXCEPT !.outbox = Tail(@)]
  <2>1. JobFits(j, R)
    BY <1>0, <1>11, <1>b DEF PublishChunk, At, JobOver, AtNode
  <2> QED
    BY <1>11, <2>1 DEF PublishChunk
<1>12. CASE PublishDone(w)
  <2> DEFINE j == [j0 EXCEPT !.step = j0.then]
  <2>1. JobFits(j, R)
    BY <1>0, <1>12, <1>a DEF PublishDone, At, JobOver, AtNode
  <2> QED
    BY <1>12, <2>1 DEF PublishDone
<1> QED
  BY <1>1, <1>2, <1>3, <1>4, <1>5, <1>6, <1>7, <1>8, <1>9, <1>10, <1>11, <1>12 DEF TaskStep

-----------------------------------------------------------------------------
(* What the queues hold                                                    *)

(* What a task body does to the scheduler: a task it publishes is a chunk of *)
(* the nodes it holds.                                                       *)
TaskEffect(w, R) ==
  \/ UNCHANGED schedVars
  \/ \E t \in Chunk(R) : S!BeginPush(w, t)
  \/ S!StoreQuit(w)
  \/ \E ok \in BOOLEAN : S!TaskReturns(w, ok)

LEMMA TaskStepEffect ==
  ASSUME NEW R, NEW w \in Worker, TaskStep(w), JobsFit(R)
  PROVE  TaskEffect(w, R)
<1>1. CASE PublishChunk(w)
  <2>1. job[w].outbox \in Seq(Chunk(R))
    BY DEF JobsFit, JobOver
  <2>2. Head(job[w].outbox) \in Chunk(R)
    BY <1>1, <2>1, HeadTailProperties DEF PublishChunk
  <2> QED
    BY <1>1, <2>2 DEF PublishChunk, TaskEffect
<1>2. CASE EvalQuits(w)
  BY <1>2 DEF EvalQuits, TaskEffect
<1>3. CASE EndBatch(w) \/ LeaveAfterQuit(w)
  BY <1>3 DEF EndBatch, LeaveAfterQuit, TaskEffect
<1>4. CASE EvalFails(w) \/ OpenFails(w)
  BY <1>4 DEF EvalFails, OpenFails, TaskEffect
<1>5. CASE \/ StartBatch(w) \/ LoadNext(w) \/ EvalOk(w) \/ DoNotDescend(w)
           \/ OpenDirectory(w) \/ ListBadItem(w) \/ ListChild(w) \/ SpillNow(w)
           \/ EndListing(w) \/ PublishDone(w)
  BY <1>5 DEF StartBatch, LoadNext, EvalOk, DoNotDescend, OpenDirectory, ListBadItem,
              ListChild, SpillNow, EndListing, PublishDone, TaskEffect
<1> QED
  BY <1>1, <1>2, <1>3, <1>4, <1>5 DEF TaskStep

LEMMA TaskEffectFits ==
  ASSUME NEW R, NEW w \in Worker, TaskEffect(w, R), S!TypeOK, QueuesFit(R)
  PROVE  QueuesFit(R)'
<1> USE DEF QueuesFit
<1>0. pc \in [Worker -> S!Location] /\ pub \in [Worker -> (Seq(Node) \ {<<>>}) \cup {<<>>}]
  BY DEF S!TypeOK, Worker
<1>1. CASE UNCHANGED schedVars
  BY <1>1 DEF schedVars
<1>2. CASE \E t \in Chunk(R) : S!BeginPush(w, t)
  BY <1>0, <1>2 DEF S!BeginPush, S!control, S!queues, S!history
<1>3. CASE S!StoreQuit(w)
  BY <1>0, <1>3 DEF S!StoreQuit, S!Goto, S!queues, S!history
<1>4. CASE \E ok \in BOOLEAN : S!TaskReturns(w, ok)
  BY <1>0, <1>4 DEF S!TaskReturns, S!Goto, S!control, S!queues, S!history
<1> QED
  BY <1>1, <1>2, <1>3, <1>4 DEF TaskEffect

LEMMA LoopFits ==
  ASSUME NEW R, NEW w \in Worker, S!WorkerLoop(w), S!TypeOK, QueuesFit(R)
  PROVE  QueuesFit(R)'
<1> USE DEF QueuesFit
<1>0. /\ pc \in [Worker -> S!Location]
      /\ task \in [Worker -> (Seq(Node) \ {<<>>}) \cup {<<>>}]
      /\ pub \in [Worker -> (Seq(Node) \ {<<>>}) \cup {<<>>}]
  BY DEF S!TypeOK, Worker
<1>1. CASE S!PopLocal(w)
  <2>1. Head(deque[w]) \in Chunk(R) /\ Tail(deque[w]) \in Seq(Chunk(R))
    BY <1>1, HeadTailProperties DEF S!PopLocal
  <2> QED
    BY <1>0, <1>1, <2>1 DEF S!PopLocal, S!Goto, S!control, S!history
<1>2. CASE S!StealInjector(w)
  <2> PICK k \in 1..Len(injector) :
        /\ S!Goto(w, "inject", "got")
        /\ task' = [task EXCEPT ![w] = injector[1]]
        /\ deque' = [deque EXCEPT ![w] = @ \o SubSeq(injector, 2, k)]
        /\ injector' = SubSeq(injector, k + 1, Len(injector))
        /\ UNCHANGED <<S!control, outstanding, pub, victim, woken, failed, S!history>>
    BY <1>2 DEF S!StealInjector
  <2>1. /\ Len(injector) \in Nat /\ injector[1] \in Chunk(R)
        /\ \A i \in 1..Len(injector) : injector[i] \in Chunk(R)
    BY LenProperties, ElementOfSeq
  <2>2. SubSeq(injector, 2, k) \in Seq(Chunk(R)) /\ injector' \in Seq(Chunk(R))
    BY <2>1, SubSeqProperties
  <2>3. deque[w] \o SubSeq(injector, 2, k) \in Seq(Chunk(R))
    BY <2>2, ConcatProperties
  <2> QED
    BY <1>0, <2>1, <2>2, <2>3 DEF S!Goto, S!control, S!history
<1>3. CASE S!StealPeer(w)
  <2> DEFINE v == victim[w]
  <2>1. v \in Worker /\ Head(deque[v]) \in Chunk(R) /\ Tail(deque[v]) \in Seq(Chunk(R))
    BY <1>3, HeadTailProperties DEF S!StealPeer, Worker
  <2> QED
    BY <1>0, <1>3, <2>1 DEF S!StealPeer, S!Goto, S!control, S!history
<1>4. CASE S!PushTask(w)
  <2>1. Append(deque[w], pub[w]) \in Seq(Chunk(R))
    BY <1>4, AppendProperties DEF S!PushTask, S!Goto
  <2> QED
    BY <1>0, <1>4, <2>1 DEF S!PushTask, S!Goto, S!control, S!history
<1>5. CASE S!TaskFinished(w)
  BY <1>0, <1>5 DEF S!TaskFinished, S!Goto, S!control, S!queues
<1>6. CASE S!Admit(w) \/ S!CountTask(w) \/ S!StopAfterQuit(w)
  BY <1>0, <1>6 DEF S!Admit, S!CountTask, S!StopAfterQuit, S!Goto, S!control, S!queues, S!history
<1>7. CASE \/ S!LocalEmpty(w) \/ S!InjectorMissed(w) \/ S!PeerMissed(w) \/ S!NothingFound(w)
           \/ S!LeaveLoop(w) \/ S!GoToSleep(w) \/ S!StartWait(w) \/ S!Notified(w) \/ S!TimesOut(w)
           \/ S!NotifyAtZero(w) \/ S!StoreFatal(w) \/ S!StopAfterFatal(w) \/ S!Die(w)
           \/ S!FlushAndReport(w)
  <2>1. /\ UNCHANGED <<quit, injector, deque, task, pub>>
        /\ \/ pc' = pc
           \/ \E l \in {"inject", "steal", "check", "flush", "enter", "asleep", "local",
                        "fatal", "stop", "alert", "dead", "exit"} :
                pc' = [pc EXCEPT ![w] = l]
    BY <1>7 DEF S!LocalEmpty, S!InjectorMissed, S!PeerMissed, S!NothingFound, S!LeaveLoop,
                S!GoToSleep, S!StartWait, S!Notified, S!TimesOut, S!NotifyAtZero,
                S!StoreFatal, S!StopAfterFatal, S!Die, S!FlushAndReport,
                S!Goto, S!control, S!queues, S!history
  <2> QED
    BY <1>0, <2>1
<1> QED
  BY <1>1, <1>2, <1>3, <1>4, <1>5, <1>6, <1>7 DEF S!WorkerLoop

-----------------------------------------------------------------------------
(* The engine is an instance of the scheduler                              *)

LEMMA StepIsScheduled ==
  ASSUME JobsFit(Node), [Next]_vars
  PROVE  [SP!SchedNext]_(SP!schedVars)
<1> USE DEF SP!schedVars, schedVars
<1>1. CASE UNCHANGED vars
  BY <1>1 DEF vars
<1>2. ASSUME NEW w \in Worker, LoopStep(w)
      PROVE  SP!SchedNext
  <2>1. w \in SP!Worker /\ SP!WorkerLoop(w)
    BY <1>2, SameLoop DEF LoopStep, Worker, S!Worker, SP!Worker
  <2> QED
    BY <2>1 DEF SP!SchedNext
<1>3. ASSUME NEW w \in Worker, TaskStep(w)
      PROVE  SP!SchedNext \/ UNCHANGED schedVars
  <2>1. TaskEffect(w, Node)
    BY <1>3, TaskStepEffect
  <2>2. \A t : S!BeginPush(w, t) <=> SP!BeginPush(w, t)
    BY DEF S!BeginPush, SP!BeginPush, S!control, SP!control, S!queues, SP!queues,
           S!history, SP!history
  <2>3. S!StoreQuit(w) <=> SP!StoreQuit(w)
    BY DEF S!StoreQuit, SP!StoreQuit, S!Goto, SP!Goto, S!queues, SP!queues,
           S!history, SP!history
  <2>4. \A ok : S!TaskReturns(w, ok) <=> SP!TaskReturns(w, ok)
    BY DEF S!TaskReturns, SP!TaskReturns, S!Goto, SP!Goto, S!control, SP!control,
           S!queues, SP!queues, S!history, SP!history
  <2>5. UNCHANGED schedVars \/ SP!TaskBody(w)
    BY <2>1, <2>2, <2>3, <2>4 DEF TaskEffect, SP!TaskBody, Chunk
  <2>6. w \in SP!Worker
    BY DEF Worker, S!Worker, SP!Worker
  <2> QED
    BY <2>5, <2>6 DEF SP!SchedNext
<1>4. CASE S!AllReturned /\ UNCHANGED vars
  BY <1>4 DEF vars
<1> QED
  BY <1>1, <1>2, <1>3, <1>4 DEF Next

LEMMA InitIsScheduled == Init => SP!SchedInit
BY DEF Init, S!SchedInit, SP!SchedInit, S!Worker, SP!Worker

LEMMA SameTypes == SP!TypeOK => S!TypeOK
BY DEF S!TypeOK, SP!TypeOK, S!Worker, SP!Worker, S!Location, SP!Location

(* The types, with what the scheduler's proofs say of its variables. *)
EngineInv ==
  /\ SP!SchedInv
  /\ JobsFit(Node)
  /\ evals \in [Node -> Nat]
  /\ errors \subseteq Node

LEMMA EngineQueuesFit == EngineInv => S!TypeOK /\ QueuesFit(Node)
<1> SUFFICES ASSUME EngineInv PROVE S!TypeOK /\ QueuesFit(Node)
  OBVIOUS
<1>1. SP!TypeOK /\ SP!HandsHoldTasks
  BY DEF EngineInv, SP!SchedInv
<1> QED
  BY <1>1, SameTypes DEF SP!TypeOK, SP!HandsHoldTasks, SP!InHand, QueuesFit, Chunk,
                         Worker, S!Worker, SP!Worker

LEMMA EngineInit == Init => EngineInv
<1> SUFFICES ASSUME Init PROVE EngineInv
  OBVIOUS
<1>1. SP!SchedInv
  BY InitIsScheduled, SP!InitTypes, SP!InitSlots, RootsAreTasks DEF SP!SchedInit, SP!SchedInv, SP!LeftAtZero
<1>2. JobsFit(Node)
  BY NoJobFits DEF Init, JobsFit, JobFits
<1> QED
  BY <1>1, <1>2 DEF Init, EngineInv

LEMMA EngineStep == EngineInv /\ [Next]_vars => EngineInv'
<1> SUFFICES ASSUME EngineInv, [Next]_vars PROVE EngineInv'
  OBVIOUS
<1> USE DEF EngineInv
<1>1. SP!SchedInv'
  BY StepIsScheduled, RootsAreTasks, SP!StepTypes, SP!StepSlots, SP!StepLeftAtZero DEF SP!SchedInv
<1>2. CASE UNCHANGED vars
  BY <1>1, <1>2 DEF vars, JobsFit
<1>3. ASSUME NEW w \in Worker, LoopStep(w)
      PROVE  EngineInv'
  BY <1>1, <1>3 DEF LoopStep, JobsFit
<1>4. ASSUME NEW w \in Worker, TaskStep(w)
      PROVE  EngineInv'
  <2>1. job[w].step = "descend" /\ Opens(job[w].at) => Children(job[w].at) \subseteq Node
    BY ChildrenAreNodes DEF JobsFit, AtNode
  <2>2. PICK j : JobFits(j, Node) /\ Update(w, j)
    BY <1>4, <2>1, TaskStepFits, EngineQueuesFit
  <2>3. JobsFit(Node)'
    BY <2>2 DEF JobsFit, JobFits, Update
  <2>4. /\ job[w].step \in {"eval", "descend", "list"} => job[w].at \in Node
        /\ job[w].stack # <<>> => Head(job[w].stack) \in Node
    BY HeadTailProperties DEF JobsFit, JobOver, AtNode
  <2>5. errors' \subseteq Node
    BY <1>4, <2>4 DEF TaskStep, At, StartBatch, EndBatch, LoadNext, EvalOk, EvalQuits, LeaveAfterQuit,
         EvalFails, DoNotDescend, OpenDirectory, OpenFails, ListBadItem, ListChild, SpillNow,
         EndListing, PublishChunk, PublishDone
  <2>6. evals' = evals \/ CountEval(w)
    BY <1>4 DEF TaskStep, StartBatch, EndBatch, LoadNext, EvalOk, EvalQuits, LeaveAfterQuit,
         EvalFails, DoNotDescend, OpenDirectory, OpenFails, ListBadItem, ListChild, SpillNow,
         EndListing, PublishChunk, PublishDone
  <2>7. evals' \in [Node -> Nat]
    BY <2>6 DEF CountEval
  <2> QED
    BY <1>1, <2>3, <2>5, <2>7
<1> QED
  BY <1>2, <1>3, <1>4 DEF Next, vars, JobsFit

(* In every state the invariant above holds. *)
LEMMA EngineInvariant == Spec => []EngineInv
BY EngineInit, EngineStep, PTL DEF Spec

(* Types: whatever tree is walked and however many workers share it, the     *)
(* bodies of the tasks keep nodes of the tree and nothing else, and publish  *)
(* chunks that are not empty.                                                *)
THEOREM EngineTypesKept == Spec => []TypeOK
<1>1. EngineInv => TypeOK
  <2> SUFFICES ASSUME EngineInv PROVE TypeOK
    OBVIOUS
  <2>1. S!TypeOK /\ evals \in [Node -> Nat] /\ errors \subseteq Node
    BY EngineQueuesFit DEF EngineInv
  <2>2. Seq(Chunk(Node)) \subseteq Seq(Seq(Node))
    BY SeqMonotonic DEF Chunk
  <2>3. JobOver(Node) \subseteq
          [step : {"idle", "next", "eval", "descend", "list", "spill", "publish", "leave"},
           stack : Seq(Node), at : Node \cup {NoNode}, items : Seq(Node \cup {BadItem}),
           local : Seq(Node), buffer : Seq(Node), spilled : Seq(Seq(Node)),
           outbox : Seq(Seq(Node)), then : {"idle", "list", "next"}, sawQuit : BOOLEAN]
    BY <2>2 DEF JobOver
  <2> QED
    BY <2>1, <2>3 DEF EngineInv, JobsFit, TypeOK
<1> QED
  BY <1>1, EngineInvariant, PTL

(* The engine is one of the schedulers of Scheduler.tla: its task bodies do  *)
(* to the queues, the flags and the counter only what a task may do.         *)
THEOREM EngineIsAScheduler == Spec => SP!SchedSpec
<1>1. EngineInv /\ [Next]_vars => [SP!SchedNext]_(SP!schedVars)
  BY StepIsScheduled DEF EngineInv
<1> QED
  BY <1>1, InitIsScheduled, EngineInvariant, PTL DEF Spec, SP!SchedSpec

(* So pop_blocking's exit test is sound for the pre-order walk: a worker     *)
(* that has left found no chunk anywhere, and none comes up later.           *)
THEOREM NoChunkIsLeftBehind == Spec => [](S!OutstandingExact /\ S!NobodyLeavesEarly)
<1>1. SP!OutstandingExact => S!OutstandingExact
  <2>1. SP!Slots = S!Slots
    BY DEF SP!Slots, S!Slots, SP!SlotsOf, S!SlotsOf, SP!InHand, S!InHand,
           SP!Counted, S!Counted, SP!Worker, S!Worker
  <2> QED
    BY <2>1 DEF SP!OutstandingExact, S!OutstandingExact, SP!Cardinality, S!Cardinality
<1>2. SP!NobodyLeavesEarly => S!NobodyLeavesEarly
  BY DEF SP!NobodyLeavesEarly, S!NobodyLeavesEarly, SP!Slots, S!Slots, SP!SlotsOf, S!SlotsOf,
         SP!InHand, S!InHand, SP!Counted, S!Counted, SP!Worker, S!Worker
<1>3. Spec => []SP!OutstandingExact /\ []SP!NobodyLeavesEarly
  BY EngineIsAScheduler, RootsAreTasks, SP!CounterIsExact, SP!TerminationIsSound
<1> QED
  BY <1>1, <1>2, <1>3, PTL

-----------------------------------------------------------------------------
(* Entries come after their ancestors                                      *)

Done == {n \in Node : evals[n] > 0}

(* A body that looks whether to descend has evaluated the node, if it is to  *)
(* be evaluated at all.                                                      *)
EvaluatedFirst(w) ==
  job[w].step = "descend" /\ IsEvaluatedAt(job[w].at) => evals[job[w].at] > 0

(* All that is queued or held comes after nothing that is still to be        *)
(* evaluated; what was evaluated did so too.                                 *)
OrderInv ==
  /\ JobsFit(ReadyAfter(Done)) /\ QueuesFit(ReadyAfter(Done))
  /\ \A w \in Worker : EvaluatedFirst(w)
  /\ Done \subseteq PreOrderEntries \cap ReadyAfter(Done)

(* What is over R is over every larger set. *)
LEMMA FitsMore ==
  ASSUME NEW R, NEW Q, R \subseteq Q
  PROVE  /\ JobsFit(R) => JobsFit(Q)
         /\ QueuesFit(R) => QueuesFit(Q)
         /\ JobsFit(R)' => JobsFit(Q)'
         /\ QueuesFit(R)' => QueuesFit(Q)'
<1>1. Seq(R) \subseteq Seq(Q) /\ Chunk(R) \subseteq Chunk(Q)
  BY SeqMonotonic DEF Chunk
<1>2. /\ Seq(Chunk(R)) \subseteq Seq(Chunk(Q))
      /\ Seq(R \cup {BadItem}) \subseteq Seq(Q \cup {BadItem})
  BY <1>1, SeqMonotonic
<1>3. JobOver(R) \subseteq JobOver(Q)
  BY <1>1, <1>2 DEF JobOver
<1>4. (JobsFit(R) => JobsFit(Q)) /\ (JobsFit(R)' => JobsFit(Q)')
  BY <1>3 DEF JobsFit, AtNode
<1>5. (QueuesFit(R) => QueuesFit(Q)) /\ (QueuesFit(R)' => QueuesFit(Q)')
  BY <1>1, <1>2 DEF QueuesFit
<1> QED
  BY <1>4, <1>5

LEMMA ReadyGrows ==
  ASSUME NEW d, NEW e, d \subseteq e
  PROVE  ReadyAfter(d) \subseteq ReadyAfter(e)
BY DEF ReadyAfter

LEMMA OrderInit == Init => OrderInv
<1> SUFFICES ASSUME Init PROVE OrderInv
  OBVIOUS
<1>1. JobsFit(ReadyAfter(Done))
  BY NoJobFits DEF Init, JobsFit, JobFits
<1>2. QueuesFit(ReadyAfter(Done))
  <2>1. StartPaths \in Seq(Node) /\ Len(StartPaths) \in Nat
    BY WalkTreeAssumption
  <2>2. \A i \in 1..Len(StartPaths) : StartPaths[i] \in ReadyAfter(Done)
    BY <2>1, RootsAreReady DEF Root, RangeOf
  <2> HIDE DEF Done
  <2>3. \A i \in 1..Len(StartPaths) : <<StartPaths[i]>> \in Chunk(ReadyAfter(Done))
    BY <2>2 DEF Chunk
  <2>4. [i \in 1..Len(StartPaths) |-> <<StartPaths[i]>>] \in Seq(Chunk(ReadyAfter(Done)))
    BY <2>1, <2>3
  <2>5. <<>> \in Seq(Chunk(ReadyAfter(Done)))
    OBVIOUS
  <2> QED
    BY <2>4, <2>5 DEF Init, S!SchedInit, QueuesFit, Worker
<1>3. Done = {}
  BY DEF Init, Done
<1> QED
  BY <1>1, <1>2, <1>3 DEF OrderInv, EvaluatedFirst, Init, NoJob

(* What a step evaluates is an entry whose ancestors were evaluated before. *)
LEMMA StepEvaluates ==
  ASSUME EngineInv, OrderInv, [Next]_vars
  PROVE  /\ Done \subseteq Done'
         /\ Done' \ Done \subseteq PreOrderEntries \cap ReadyAfter(Done)
<1> USE DEF Done
<1>0. evals \in [Node -> Nat]
  BY DEF EngineInv
<1>1. CASE UNCHANGED evals
  BY <1>1
<1>2. ASSUME NEW w \in Worker, TaskStep(w), ~UNCHANGED evals
      PROVE  /\ Done \subseteq Done'
             /\ Done' \ Done \subseteq PreOrderEntries \cap ReadyAfter(Done)
  <2>1. job[w].step = "eval" /\ CountEval(w)
    BY <1>2 DEF TaskStep, At, StartBatch, EndBatch, LoadNext, EvalOk, EvalQuits, LeaveAfterQuit,
         EvalFails, DoNotDescend, OpenDirectory, OpenFails, ListBadItem, ListChild, SpillNow,
         EndListing, PublishChunk, PublishDone
  <2> DEFINE n == job[w].at
  <2>2. n \in ReadyAfter(Done) /\ Loads(n) /\ Controlled(n) /\ IsEvaluatedAt(n)
    BY <2>1 DEF OrderInv, JobsFit, AtNode
  <2>3. n \in PreOrderEntries
    BY <2>2 DEF ReadyAfter, PreOrderEntries
  <2>4. evals' = [evals EXCEPT ![n] = @ + 1]
    BY <2>1 DEF CountEval
  <2>5. Done' = Done \cup {n}
    <3> HIDE DEF n
    <3>1. n \in Node
      BY <2>2 DEF ReadyAfter
    <3> QED
      BY <1>0, <2>4, <3>1
  <2> QED
    BY <2>2, <2>3, <2>5
<1>3. CASE UNCHANGED vars
  BY <1>1, <1>3 DEF vars
<1> QED
  BY <1>1, <1>2, <1>3 DEF Next, LoopStep

LEMMA OrderStep == EngineInv /\ OrderInv /\ [Next]_vars => OrderInv'
<1> SUFFICES ASSUME EngineInv, OrderInv, [Next]_vars PROVE OrderInv'
  OBVIOUS
<1>1. PICK R : R = ReadyAfter(Done)
  OBVIOUS
<1>2. R \subseteq Node /\ JobsFit(R) /\ QueuesFit(R)
  BY <1>1 DEF OrderInv, ReadyAfter
<1>3. S!TypeOK
  BY EngineQueuesFit
<1>4. JobsFit(R)' /\ QueuesFit(R)' /\ \A w \in Worker : EvaluatedFirst(w)'
  <2>1. CASE UNCHANGED vars
    BY <1>2, <2>1 DEF vars, schedVars, JobsFit, QueuesFit, OrderInv, EvaluatedFirst
  <2>2. ASSUME NEW w \in Worker, LoopStep(w)
        PROVE  JobsFit(R)' /\ QueuesFit(R)' /\ \A u \in Worker : EvaluatedFirst(u)'
    <3>1. QueuesFit(R)'
      BY <1>2, <1>3, <2>2, LoopFits DEF LoopStep
    <3> QED
      BY <1>2, <2>2, <3>1 DEF LoopStep, JobsFit, OrderInv, EvaluatedFirst
  <2>3. ASSUME NEW w \in Worker, TaskStep(w)
        PROVE  JobsFit(R)' /\ QueuesFit(R)' /\ \A u \in Worker : EvaluatedFirst(u)'
    <3>1. job[w].step = "descend" /\ Opens(job[w].at) => Children(job[w].at) \subseteq R
      <4> SUFFICES ASSUME job[w].step = "descend", Opens(job[w].at)
                   PROVE  Children(job[w].at) \subseteq R
        OBVIOUS
      <4>1. job[w].at \in R
        BY <1>2 DEF JobsFit, AtNode
      <4>2. IsEvaluatedAt(job[w].at) => job[w].at \in Done
        BY <1>1, <4>1 DEF OrderInv, EvaluatedFirst, Done, ReadyAfter
      <4> QED
        BY <1>1, <4>1, <4>2, ChildrenAreReady
    <3>2. PICK new : JobFits(new, R) /\ Update(w, new)
      BY <1>2, <2>3, <3>1, TaskStepFits
    <3>3. JobsFit(R)'
      BY <1>2, <3>2 DEF JobsFit, JobFits, Update
    <3>4. QueuesFit(R)'
      BY <1>2, <1>3, <2>3, TaskStepEffect, TaskEffectFits
    <3>5. \A u \in Worker : job[u].step = "descend" => job[u].at \in Node
      BY <1>2 DEF JobsFit, AtNode
    <3>6. \A n \in Node : evals[n] > 0 => evals'[n] > 0
      BY StepEvaluates DEF Done
    <3>7. ASSUME NEW u \in Worker, u # w
          PROVE  EvaluatedFirst(u)'
      <4>1. job'[u] = job[u]
        BY <1>2, <3>2, <3>7 DEF JobsFit, Update
      <4> QED
        BY <3>5, <3>6, <4>1 DEF OrderInv, EvaluatedFirst
    <3>8. EvaluatedFirst(w)'
      <4> SUFFICES ASSUME job'[w].step = "descend", IsEvaluatedAt(job'[w].at)
                   PROVE  evals'[job'[w].at] > 0
        BY DEF EvaluatedFirst
      <4>0. job[w] \in JobOver(R) /\ w \in DOMAIN job
        BY <1>2 DEF JobsFit
      <4>1. EvalOk(w) \/ LoadNext(w)
        <5>1. CASE ListChild(w)
          <6>1. job'[w].step \in {"list", "spill"}
            BY <1>2, <5>1, ChildListed DEF JobsFit
          <6> QED
            BY <6>1
        <5>2. CASE PublishDone(w)
          <6>1. job'[w].step \in {"list", "next"}
            BY <1>2, <4>0, <5>2 DEF PublishDone, Update, At, JobsFit, AtNode, JobOver
          <6> QED
            BY <6>1
        <5>3. CASE EndBatch(w) \/ LeaveAfterQuit(w) \/ EvalFails(w) \/ OpenFails(w)
          <6>1. job' = [job EXCEPT ![w] = NoJob] /\ NoJob.step = "idle"
            BY <5>3 DEF EndBatch, LeaveAfterQuit, EvalFails, OpenFails, Update, NoJob
          <6> QED
            BY <4>0, <6>1
        <5>7. CASE StartBatch(w)
          <6> DEFINE j == [NoJob EXCEPT !.step = "next", !.stack = task[w]]
          <6>1. job' = [job EXCEPT ![w] = j] /\ j.step = "next"
            BY <5>7 DEF StartBatch, Update, NoJob
          <6> QED
            BY <4>0, <6>1
        <5>4. CASE EvalQuits(w) \/ DoNotDescend(w) \/ OpenDirectory(w) \/ SpillNow(w)
          <6>1. CASE EvalQuits(w)
            <7>1. job'[w].step = "leave"
              BY <4>0, <6>1 DEF EvalQuits, Update, JobOver
            <7> QED
              BY <7>1
          <6>2. CASE DoNotDescend(w)
            <7>1. job'[w].step = "next"
              BY <4>0, <6>2 DEF DoNotDescend, Update, JobOver
            <7> QED
              BY <7>1
          <6>3. CASE OpenDirectory(w)
            <7>1. job'[w].step = "list"
              BY <4>0, <6>3 DEF OpenDirectory, Update, JobOver
            <7> QED
              BY <7>1
          <6>4. CASE SpillNow(w)
            <7>1. job'[w].step \in {"publish", "list"}
              BY <4>0, <6>4 DEF SpillNow, Update, JobOver
            <7> QED
              BY <7>1
          <6> QED
            BY <5>4, <6>1, <6>2, <6>3, <6>4
        <5>5. CASE ListBadItem(w) \/ PublishChunk(w)
          <6>1. job'[w].step \in {"list", "publish"}
            BY <4>0, <5>5 DEF ListBadItem, PublishChunk, At, Update, JobOver
          <6> QED
            BY <6>1
        <5>6. CASE EndListing(w)
          <6> DEFINE k == ObserveQuit(job[w])
                     j == [NoJob EXCEPT !.step = "publish", !.outbox = FinishChunks(k),
                                        !.then = "next", !.stack = k.local \o k.stack,
                                        !.sawQuit = quit]
          <6>1. job' = [job EXCEPT ![w] = j]
            BY <5>6 DEF EndListing, Update
          <6> HIDE DEF k
          <6>2. j.step = "publish"
            BY DEF NoJob
          <6> QED
            BY <4>0, <6>1, <6>2
        <5> QED
          BY <2>3, <5>1, <5>2, <5>3, <5>4, <5>5, <5>6, <5>7 DEF TaskStep
      <4>2. CASE EvalOk(w)
        <5>1. job'[w].at = job[w].at /\ job[w].at \in Node
          BY <1>2, <4>0, <4>2 DEF EvalOk, Update, At, JobsFit, AtNode, JobOver
        <5> QED
          BY <4>2, <5>1 DEF EvalOk, CountEval, EngineInv
      <4>3. CASE LoadNext(w)
        <5> DEFINE n == Head(job[w].stack)
        <5>1. CASE Loads(n) /\ Controlled(n)
          <6>1. /\ job'[w].at = n
                /\ job'[w].step = IF IsEvaluatedAt(n) THEN "eval" ELSE "descend"
            BY <4>0, <4>3, <5>1 DEF LoadNext, Update, JobOver
          <6> QED
            BY <6>1
        <5>2. CASE ~(Loads(n) /\ Controlled(n))
          <6>1. job'[w].step = "next"
            BY <4>0, <4>3, <5>2 DEF LoadNext, Update, At, JobOver
          <6> QED
            BY <6>1
        <5> QED
          BY <5>1, <5>2
      <4> QED
        BY <4>1, <4>2, <4>3
    <3> QED
      BY <3>3, <3>4, <3>7, <3>8
  <2> QED
    BY <2>1, <2>2, <2>3 DEF Next
<1>5. R \subseteq ReadyAfter(Done')
  BY <1>1, StepEvaluates, ReadyGrows
<1>6. JobsFit(ReadyAfter(Done))' /\ QueuesFit(ReadyAfter(Done))'
  <2>1. PICK Q : Q = ReadyAfter(Done')
    OBVIOUS
  <2>2. JobsFit(Q)' /\ QueuesFit(Q)'
    BY <1>4, <1>5, <2>1, FitsMore
  <2> QED
    BY <2>1, <2>2
<1>7. Done' \subseteq PreOrderEntries \cap ReadyAfter(Done')
  BY <1>1, <1>5, StepEvaluates DEF OrderInv
<1> QED
  BY <1>4, <1>6, <1>7 DEF OrderInv

LEMMA OrderInvariant == Spec => [](EngineInv /\ OrderInv)
<1>1. Init => EngineInv /\ OrderInv
  BY EngineInit, OrderInit
<1>2. EngineInv /\ OrderInv /\ [Next]_vars => (EngineInv /\ OrderInv)'
  BY EngineStep, OrderStep
<1> QED
  BY <1>1, <1>2, PTL DEF Spec

(* Nothing above -mindepth, below a pruned, looping or unreadable directory, *)
(* or on another file system is ever evaluated, whoever steals the chunk it  *)
(* is in.                                                                    *)
THEOREM OnlyEntriesAreEvaluated == Spec => []OnlyEntriesEvaluated
<1>1. EngineInv /\ OrderInv => OnlyEntriesEvaluated
  BY DEF OrderInv, Done, OnlyEntriesEvaluated
<1> QED
  BY <1>1, OrderInvariant, PTL

(* Pre-order: no step evaluates an entry before all the entries above it     *)
(* were evaluated, by this worker or by the ones its ancestors' chunks went  *)
(* to. (What the promise of Traversal.tla asks of Before.)                   *)
AncestorsFirst ==
  [][\A n \in Node : evals'[n] # evals[n] => Ancestors[n] \cap PreOrderEntries \subseteq Done]_vars

THEOREM AncestorsComeFirst == Spec => AncestorsFirst
<1>1. EngineInv /\ OrderInv /\ [Next]_vars =>
        [\A n \in Node : evals'[n] # evals[n] => Ancestors[n] \cap PreOrderEntries \subseteq Done]_vars
  <2> SUFFICES ASSUME EngineInv, OrderInv, [Next]_vars, NEW n \in Node, evals'[n] # evals[n]
               PROVE  n \in ReadyAfter(Done)
    BY DEF ReadyAfter
  <2>1. CASE n \in Done
    BY <2>1 DEF OrderInv
  <2>2. CASE n \notin Done
    <3>1. evals \in [Node -> Nat] /\ evals' \in [Node -> Nat]
      BY EngineStep DEF EngineInv
    <3>2. n \in Done'
      BY <2>2, <3>1 DEF Done
    <3> QED
      BY <2>2, <3>2, StepEvaluates
  <2> QED
    BY <2>1, <2>2
<1> QED
  BY <1>1, OrderInvariant, PTL DEF Spec, AncestorsFirst

-----------------------------------------------------------------------------
(* -quit                                                                   *)

(* A body that has seen the flag has nothing left to publish, and is on its  *)
(* way to the end of its batch.                                              *)
QuitSeen(w) ==
  job[w].sawQuit => /\ quit /\ job[w].outbox = <<>>
                    /\ \/ job[w].step = "publish" /\ job[w].then = "next"
                       \/ job[w].step = "next"
                    /\ pc[w] \notin {"count", "push"}

LEMMA QuitSeenStep ==
  ASSUME EngineInv, [Next]_vars, \A w \in Worker : QuitSeen(w)
  PROVE  \A w \in Worker : QuitSeen(w)'
<1>0. /\ pc \in [Worker -> S!Location] /\ quit \in BOOLEAN
      /\ job \in [Worker -> JobOver(Node)]
  BY EngineQueuesFit DEF S!TypeOK, Worker, EngineInv, JobsFit
<1>1. CASE UNCHANGED vars
  BY <1>1 DEF vars, schedVars, QuitSeen
<1>2. ASSUME NEW w \in Worker, LoopStep(w), NEW u \in Worker
      PROVE  QuitSeen(u)'
  <2>1. quit' = quit /\ job' = job
    BY <1>2 DEF LoopStep, S!WorkerLoop, S!PopLocal, S!LocalEmpty, S!StealInjector,
         S!InjectorMissed, S!StealPeer, S!PeerMissed, S!NothingFound, S!LeaveLoop, S!GoToSleep,
         S!StartWait, S!Notified, S!TimesOut, S!Admit, S!TaskFinished, S!NotifyAtZero,
         S!StoreFatal, S!StopAfterFatal, S!Die, S!FlushAndReport, S!CountTask, S!PushTask,
         S!StopAfterQuit, S!control
  <2>2. pc'[u] \in {"count", "push"} => pc[u] \in {"count", "push"}
    <3>1. \/ pc' = pc
          \/ S!CountTask(w)
          \/ \E l \in S!Location \ {"count", "push"} : pc' = [pc EXCEPT ![w] = l]
      BY <1>2 DEF LoopStep, S!WorkerLoop, S!PopLocal, S!LocalEmpty, S!StealInjector,
           S!InjectorMissed, S!StealPeer, S!PeerMissed, S!NothingFound, S!LeaveLoop, S!GoToSleep,
           S!StartWait, S!Notified, S!TimesOut, S!Admit, S!TaskFinished, S!NotifyAtZero,
           S!StoreFatal, S!StopAfterFatal, S!Die, S!FlushAndReport, S!PushTask,
           S!StopAfterQuit, S!Goto, S!Location
    <3>2. CASE S!CountTask(w)
      BY <1>0, <3>2 DEF S!CountTask, S!Goto
    <3> QED
      BY <1>0, <3>1, <3>2
  <2> QED
    BY <2>1, <2>2 DEF QuitSeen
<1>3. ASSUME NEW w \in Worker, TaskStep(w), NEW u \in Worker
      PROVE  QuitSeen(u)'
  <2>1. quit => quit'
    <3>1. TaskEffect(w, Node)
      BY <1>3, TaskStepEffect DEF EngineInv
    <3> QED
      BY <3>1 DEF TaskEffect, schedVars, S!BeginPush, S!StoreQuit, S!TaskReturns, S!control
  <2>2. CASE u # w
    <3>1. job'[u] = job[u]
      <4>1. \E j : Update(w, j)
        <5>1. job[w].step = "descend" /\ Opens(job[w].at) => Children(job[w].at) \subseteq Node
          BY ChildrenAreNodes DEF EngineInv, JobsFit, AtNode
        <5> QED
          BY <1>3, <5>1, TaskStepFits, EngineQueuesFit DEF EngineInv
      <4> QED
        BY <1>0, <2>2, <4>1 DEF Update
    <3>2. pc'[u] = pc[u]
      <4>1. TaskEffect(w, Node)
        BY <1>3, TaskStepEffect DEF EngineInv
      <4> QED
        BY <1>0, <2>2, <4>1 DEF TaskEffect, schedVars, S!BeginPush, S!StoreQuit, S!TaskReturns, S!Goto
    <3> QED
      BY <2>1, <3>1, <3>2 DEF QuitSeen
  <2>3. CASE u = w
    <3> DEFINE j0 == job[w]
    <3>0. j0 \in JobOver(Node) /\ QuitSeen(w) /\ w \in DOMAIN job
      BY <1>0
    <3>1. CASE EndBatch(w) \/ LeaveAfterQuit(w) \/ EvalFails(w) \/ OpenFails(w)
      <4>1. job' = [job EXCEPT ![w] = NoJob] /\ ~NoJob.sawQuit
        BY <3>1 DEF EndBatch, LeaveAfterQuit, EvalFails, OpenFails, Update, NoJob
      <4> QED
        BY <2>3, <3>0, <4>1 DEF QuitSeen
    <3>2. CASE StartBatch(w)
      <4> DEFINE j == [NoJob EXCEPT !.step = "next", !.stack = task[w]]
      <4>1. job' = [job EXCEPT ![w] = j] /\ ~j.sawQuit
        BY <3>2 DEF StartBatch, Update, NoJob
      <4> QED
        BY <2>3, <3>0, <4>1 DEF QuitSeen
    <3>3. CASE EndListing(w)
      <4> DEFINE k == ObserveQuit(j0)
                 j == [NoJob EXCEPT !.step = "publish", !.outbox = FinishChunks(k),
                                    !.then = "next", !.stack = k.local \o k.stack,
                                    !.sawQuit = quit]
      <4>1. job' = [job EXCEPT ![w] = j] /\ UNCHANGED <<pc, quit>> /\ pc[w] = "run"
        BY <3>3 DEF EndListing, Update, At, schedVars
      <4>2. quit => FinishChunks(k) = <<>>
        BY <3>0, ObserveFits
      <4> HIDE DEF k
      <4>3. /\ j.step = "publish" /\ j.then = "next" /\ j.outbox = FinishChunks(k)
            /\ j.sawQuit = quit
        BY DEF NoJob
      <4> HIDE DEF j
      <4>4. job'[w] = j
        BY <3>0, <4>1
      <4> QED
        BY <2>3, <4>1, <4>2, <4>3, <4>4 DEF QuitSeen
    <3>4. CASE PublishDone(w)
      <4>1. job' = [job EXCEPT ![w].step = j0.then] /\ UNCHANGED <<pc, quit>>
        BY <3>4 DEF PublishDone, Update, schedVars
      <4>2. /\ job'[w].sawQuit = j0.sawQuit /\ job'[w].outbox = j0.outbox
            /\ job'[w].step = j0.then
        BY <3>0, <4>1 DEF JobOver
      <4> QED
        BY <2>3, <3>0, <3>4, <4>1, <4>2 DEF QuitSeen, PublishDone, At
    <3>5. CASE PublishChunk(w)
      <4>1. job' = [job EXCEPT ![w].outbox = Tail(j0.outbox)] /\ j0.outbox # <<>>
        BY <3>5 DEF PublishChunk, Update
      <4>2. job'[w].sawQuit = j0.sawQuit
        BY <3>0, <4>1 DEF JobOver
      <4> QED
        BY <2>3, <3>0, <4>1, <4>2 DEF QuitSeen
    <3>6. CASE LoadNext(w)
      <4>1. ~quit
        BY <3>6 DEF LoadNext, Stopping
      <4>2. job'[w].sawQuit = j0.sawQuit
        BY <3>0, <3>6 DEF LoadNext, Update, JobOver
      <4> QED
        BY <2>3, <3>0, <4>1, <4>2 DEF QuitSeen
    <3>7. CASE EvalOk(w) \/ EvalQuits(w) \/ DoNotDescend(w) \/ OpenDirectory(w)
                \/ ListBadItem(w) \/ SpillNow(w)
      <4>1. job'[w].sawQuit = j0.sawQuit
        <5>1. CASE EvalOk(w) \/ EvalQuits(w)
          BY <3>0, <5>1 DEF EvalOk, EvalQuits, Update, JobOver
        <5>2. CASE DoNotDescend(w) \/ OpenDirectory(w)
          BY <3>0, <5>2 DEF DoNotDescend, OpenDirectory, Update, JobOver
        <5>3. CASE ListBadItem(w)
          BY <3>0, <5>3 DEF ListBadItem, Update, JobOver
        <5>4. CASE SpillNow(w)
          BY <3>0, <5>4 DEF SpillNow, Update, JobOver
        <5> QED
          BY <3>7, <5>1, <5>2, <5>3, <5>4
      <4>2. j0.step \notin {"publish", "next"}
        BY <3>7 DEF EvalOk, EvalQuits, DoNotDescend, OpenDirectory, ListBadItem, SpillNow, At
      <4> QED
        BY <2>3, <3>0, <4>1, <4>2 DEF QuitSeen
    <3>8. CASE ListChild(w)
      <4>1. job'[w].sawQuit = j0.sawQuit
        BY <1>0, <3>8, ChildListed
      <4>2. j0.step = "list"
        BY <3>8 DEF ListChild, At
      <4> QED
        BY <2>3, <3>0, <4>1, <4>2 DEF QuitSeen
    <3> QED
      BY <1>3, <3>1, <3>2, <3>3, <3>4, <3>5, <3>6, <3>7, <3>8 DEF TaskStep
  <2> QED
    BY <2>2, <2>3
<1> QED
  BY <1>1, <1>2, <1>3 DEF Next

(* README.md:61: whoever has seen -quit gives no chunk away, although the    *)
(* flag that push_local reads may still be up.                               *)
THEOREM NothingPublishedAfterQuitSeen == Spec => []NoPublishAfterQuitSeen
<1>1. Init => \A w \in Worker : QuitSeen(w)
  BY DEF Init, QuitSeen, NoJob
<1>2. EngineInv /\ (\A w \in Worker : QuitSeen(w)) /\ [Next]_vars =>
        (\A w \in Worker : QuitSeen(w))'
  BY QuitSeenStep
<1>3. (\A w \in Worker : QuitSeen(w)) => NoPublishAfterQuitSeen
  BY DEF QuitSeen, NoPublishAfterQuitSeen
<1> QED
  BY <1>1, <1>2, <1>3, EngineInvariant, PTL DEF Spec

-----------------------------------------------------------------------------
(* What each step of a task body leaves in its job                           *)

SameLists(j, k) ==
  k.items = j.items /\ k.local = j.local /\ k.buffer = j.buffer /\ k.spilled = j.spilled

NoLists(k) == k.items = <<>> /\ k.local = <<>> /\ k.buffer = <<>> /\ k.spilled = <<>>

JobAfter(w, j, k) ==
  /\ EndBatch(w) \/ LeaveAfterQuit(w) \/ EvalFails(w) \/ OpenFails(w) => k = NoJob
  /\ StartBatch(w) => /\ k.step = "next" /\ k.stack = task[w]
                      /\ NoLists(k) /\ k.outbox = <<>>
  /\ LoadNext(w) => /\ k.stack = Tail(j.stack) /\ SameLists(j, k) /\ k.outbox = j.outbox
                    /\ LET n == Head(j.stack) IN
                       IF Loads(n) /\ Controlled(n)
                       THEN k.at = n /\ k.step = IF IsEvaluatedAt(n) THEN "eval" ELSE "descend"
                       ELSE k.at = j.at /\ k.step = "next"
  /\ EvalOk(w) \/ EvalQuits(w) =>
       /\ k.step = IF EvalOk(w) THEN "descend" ELSE "leave"
       /\ k.stack = j.stack /\ SameLists(j, k) /\ k.outbox = j.outbox /\ k.at = j.at
  /\ DoNotDescend(w) => /\ k.step = "next"
                        /\ k.stack = j.stack /\ SameLists(j, k) /\ k.outbox = j.outbox
  /\ OpenDirectory(w) =>
       /\ k.step = "list" /\ k.items = Items[j.at] /\ k.at = j.at
       /\ k.stack = j.stack /\ k.local = j.local /\ k.buffer = j.buffer /\ k.spilled = j.spilled
       /\ k.outbox = j.outbox
  /\ ListBadItem(w) =>
       /\ k.step = "list" /\ k.items = Tail(j.items) /\ k.at = j.at
       /\ k.stack = j.stack /\ k.local = j.local /\ k.buffer = j.buffer /\ k.spilled = j.spilled
       /\ k.outbox = j.outbox
  /\ SpillNow(w) =>
       /\ k.items = j.items /\ k.local = j.local /\ k.buffer = j.buffer
       /\ k.stack = j.stack /\ k.at = j.at
       /\ IF accept THEN /\ k.step = "publish" /\ k.then = "list"
                         /\ k.outbox = j.spilled /\ k.spilled = <<>>
                    ELSE k.step = "list" /\ k.outbox = j.outbox /\ k.spilled = j.spilled
  /\ EndListing(w) => LET o == ObserveQuit(j) IN
       /\ k.step = "publish" /\ k.then = "next" /\ NoLists(k)
       /\ k.stack = o.local \o o.stack /\ k.outbox = FinishChunks(o)
  /\ PublishChunk(w) =>
       /\ k.step = "publish" /\ k.then = j.then /\ k.outbox = Tail(j.outbox)
       /\ k.stack = j.stack /\ SameLists(j, k) /\ k.at = j.at
  /\ PublishDone(w) =>
       /\ k.step = j.then /\ k.outbox = <<>>
       /\ k.stack = j.stack /\ SameLists(j, k) /\ k.at = j.at

(* The nodes the accumulator keeps. *)
Collected(j, n) == Listed(j.local, n) \/ Listed(j.buffer, n) \/ ChunksHold(j.spilled, n)

LEMMA AccumulateKeeps ==
  ASSUME NEW R, NEW j \in JobOver(R), NEW child \in R, NEW maySplit
  PROVE  LET k == Accumulate(j, child, maySplit) IN
         /\ k.stack = j.stack /\ k.items = j.items /\ k.outbox = j.outbox /\ k.at = j.at
         /\ \A n : Collected(k, n) <=> Collected(j, n) \/ n = child
<1>0. j.local \in Seq(R) /\ j.buffer \in Seq(R) /\ j.spilled \in Seq(Chunk(R))
  BY DEF JobOver
<1> DEFINE full == Append(j.buffer, child)
<1>1. full \in Chunk(R)
  BY <1>0, AppendProperties DEF Chunk
<1>2. \A n : /\ Listed(Append(j.local, child), n) <=> Listed(j.local, n) \/ n = child
             /\ Listed(full, n) <=> Listed(j.buffer, n) \/ n = child
             /\ ChunksHold(Append(j.spilled, full), n) <=> ChunksHold(j.spilled, n) \/ Listed(full, n)
  BY <1>0, <1>1, ListedAppend, ChunksAppend
<1> HIDE DEF full
<1>3. CASE ~maySplit \/ Len(j.local) < SplitThreshold
  <2>1. Accumulate(j, child, maySplit) = [j EXCEPT !.local = Append(j.local, child)]
    BY <1>3 DEF Accumulate
  <2> QED
    BY <1>2, <2>1 DEF JobOver, Collected
<1>4. CASE ~(~maySplit \/ Len(j.local) < SplitThreshold)
  <2>1. CASE Len(full) >= ChunkSize
    <3>1. Accumulate(j, child, maySplit) =
            [j EXCEPT !.buffer = <<>>, !.spilled = Append(j.spilled, full)]
      BY <1>4, <2>1 DEF Accumulate, full
    <3> QED
      BY <1>2, <3>1, NothingListed DEF JobOver, Collected
  <2>2. CASE ~(Len(full) >= ChunkSize)
    <3>1. Accumulate(j, child, maySplit) = [j EXCEPT !.buffer = full]
      BY <1>4, <2>2 DEF Accumulate, full
    <3> QED
      BY <1>2, <3>1 DEF JobOver, Collected
  <2> QED
    BY <2>1, <2>2
<1> QED
  BY <1>3, <1>4

ChildAfter(j, k) ==
  /\ k.step \in {"list", "spill"} /\ k.stack = j.stack /\ k.outbox = j.outbox /\ k.at = j.at
  /\ k.items = Tail(j.items)
  /\ \A n : Collected(k, n) <=> Collected(j, n) \/ n = Head(j.items)

LEMMA JobChanges ==
  ASSUME EngineInv, NEW w \in Worker, TaskStep(w)
  PROVE  /\ \A u \in Worker \ {w} : job'[u] = job[u]
         /\ JobAfter(w, job[w], job'[w])
         /\ ListChild(w) => ChildAfter(job[w], job'[w])
<1>0. job \in [Worker -> JobOver(Node)] /\ job[w] \in JobOver(Node) /\ w \in DOMAIN job
  BY DEF EngineInv, JobsFit
<1>1. \A u \in Worker \ {w} : job'[u] = job[u]
  <2>1. job[w].step = "descend" /\ Opens(job[w].at) => Children(job[w].at) \subseteq Node
    BY ChildrenAreNodes DEF EngineInv, JobsFit, AtNode
  <2>2. \E j : Update(w, j)
    BY <2>1, TaskStepFits, EngineQueuesFit DEF EngineInv
  <2> QED
    BY <1>0, <2>2 DEF Update
<1>2. JobAfter(w, job[w], job'[w])
  <2>1. EndBatch(w) \/ LeaveAfterQuit(w) \/ EvalFails(w) \/ OpenFails(w) => job'[w] = NoJob
    BY <1>0 DEF EndBatch, LeaveAfterQuit, EvalFails, OpenFails, Update
  <2>2. StartBatch(w) => /\ job'[w].step = "next" /\ job'[w].stack = task[w]
                         /\ NoLists(job'[w]) /\ job'[w].outbox = <<>>
    BY <1>0 DEF StartBatch, Update, NoJob, NoLists
  <2>3. ASSUME LoadNext(w)
        PROVE  /\ job'[w].stack = Tail(job[w].stack) /\ SameLists(job[w], job'[w])
               /\ job'[w].outbox = job[w].outbox
               /\ LET n == Head(job[w].stack) IN
                  IF Loads(n) /\ Controlled(n)
                  THEN /\ job'[w].at = n
                       /\ job'[w].step = IF IsEvaluatedAt(n) THEN "eval" ELSE "descend"
                  ELSE job'[w].at = job[w].at /\ job'[w].step = "next"
    <3> DEFINE n == Head(job[w].stack)
    <3>1. CASE Loads(n) /\ Controlled(n)
      <4>1. job' = [job EXCEPT ![w] = [job[w] EXCEPT !.stack = Tail(@), !.at = n,
                       !.step = IF IsEvaluatedAt(n) THEN "eval" ELSE "descend"]]
        BY <1>0, <2>3, <3>1 DEF LoadNext, Update, JobOver
      <4> QED
        BY <1>0, <3>1, <4>1 DEF JobOver, SameLists
    <3>2. CASE ~(Loads(n) /\ Controlled(n))
      <4>1. job' = [job EXCEPT ![w] = [job[w] EXCEPT !.stack = Tail(@)]]
        BY <2>3, <3>2 DEF LoadNext, Update
      <4> QED
        BY <1>0, <2>3, <3>2, <4>1 DEF JobOver, SameLists, LoadNext, At
    <3> QED
      BY <3>1, <3>2
  <2>4. EvalOk(w) \/ EvalQuits(w) =>
          /\ job'[w].step = IF EvalOk(w) THEN "descend" ELSE "leave"
          /\ job'[w].stack = job[w].stack /\ SameLists(job[w], job'[w])
          /\ job'[w].outbox = job[w].outbox /\ job'[w].at = job[w].at
    <3>1. ASSUME EvalOk(w) PROVE job' = [job EXCEPT ![w] = [job[w] EXCEPT !.step = "descend"]]
      BY <3>1 DEF EvalOk, Update
    <3>2. ASSUME EvalQuits(w)
          PROVE  /\ job' = [job EXCEPT ![w] = [job[w] EXCEPT !.step = "leave"]]
                 /\ ~EvalOk(w)
      <4>1. job' = [job EXCEPT ![w] = [job[w] EXCEPT !.step = "leave"]]
        BY <3>2 DEF EvalQuits, Update
      <4> QED
        BY <1>0, <3>1, <4>1 DEF JobOver
    <3> QED
      BY <1>0, <3>1, <3>2 DEF JobOver, SameLists
  <2>5. DoNotDescend(w) => /\ job'[w].step = "next"
                           /\ job'[w].stack = job[w].stack /\ SameLists(job[w], job'[w])
                           /\ job'[w].outbox = job[w].outbox
    <3> DEFINE j == [job[w] EXCEPT !.step = "next", !.at = NoNode]
    <3>1. DoNotDescend(w) => job' = [job EXCEPT ![w] = j]
      BY DEF DoNotDescend, Update
    <3>2. /\ j.step = "next" /\ j.stack = job[w].stack /\ SameLists(job[w], j)
          /\ j.outbox = job[w].outbox
      BY <1>0 DEF JobOver, SameLists
    <3> HIDE DEF j
    <3> QED
      BY <1>0, <3>1, <3>2 DEF SameLists
  <2>6. OpenDirectory(w) =>
          /\ job'[w].step = "list" /\ job'[w].items = Items[job[w].at] /\ job'[w].at = job[w].at
          /\ job'[w].stack = job[w].stack /\ job'[w].local = job[w].local
          /\ job'[w].buffer = job[w].buffer /\ job'[w].spilled = job[w].spilled
          /\ job'[w].outbox = job[w].outbox
    <3> DEFINE j == [job[w] EXCEPT !.step = "list", !.items = Items[job[w].at]]
    <3>1. OpenDirectory(w) => job' = [job EXCEPT ![w] = j]
      BY DEF OpenDirectory, Update
    <3>2. /\ j.step = "list" /\ j.items = Items[job[w].at] /\ j.at = job[w].at
          /\ j.stack = job[w].stack /\ j.local = job[w].local /\ j.buffer = job[w].buffer
          /\ j.spilled = job[w].spilled /\ j.outbox = job[w].outbox
      BY <1>0 DEF JobOver
    <3> HIDE DEF j
    <3>3. OpenDirectory(w) => job'[w] = j
      BY <1>0, <3>1
    <3> QED
      BY <3>2, <3>3
  <2>7. ListBadItem(w) =>
          /\ job'[w].step = "list" /\ job'[w].items = Tail(job[w].items)
          /\ job'[w].at = job[w].at
          /\ job'[w].stack = job[w].stack /\ job'[w].local = job[w].local
          /\ job'[w].buffer = job[w].buffer /\ job'[w].spilled = job[w].spilled
          /\ job'[w].outbox = job[w].outbox
    <3> DEFINE j == [job[w] EXCEPT !.items = Tail(job[w].items)]
    <3>1. ListBadItem(w) => job' = [job EXCEPT ![w] = j] /\ job[w].step = "list"
      BY DEF ListBadItem, At, Update
    <3>2. /\ j.step = job[w].step /\ j.items = Tail(job[w].items) /\ j.at = job[w].at
          /\ j.stack = job[w].stack /\ j.local = job[w].local /\ j.buffer = job[w].buffer
          /\ j.spilled = job[w].spilled /\ j.outbox = job[w].outbox
      BY <1>0 DEF JobOver
    <3> HIDE DEF j
    <3>3. ListBadItem(w) => job'[w] = j
      BY <1>0, <3>1
    <3> QED
      BY <3>1, <3>2, <3>3
  <2>8. SpillNow(w) =>
          /\ job'[w].items = job[w].items /\ job'[w].local = job[w].local
          /\ job'[w].buffer = job[w].buffer
          /\ job'[w].stack = job[w].stack /\ job'[w].at = job[w].at
          /\ IF accept THEN /\ job'[w].step = "publish" /\ job'[w].then = "list"
                            /\ job'[w].outbox = job[w].spilled /\ job'[w].spilled = <<>>
                       ELSE /\ job'[w].step = "list" /\ job'[w].outbox = job[w].outbox
                            /\ job'[w].spilled = job[w].spilled
    <3> DEFINE j == [job[w] EXCEPT !.step = "publish", !.outbox = job[w].spilled,
                                   !.spilled = <<>>, !.then = "list"]
               k == [job[w] EXCEPT !.step = "list"]
    <3>1. /\ SpillNow(w) /\ accept => job' = [job EXCEPT ![w] = j]
          /\ SpillNow(w) /\ ~accept => job' = [job EXCEPT ![w] = k]
      BY DEF SpillNow, Update
    <3>2. /\ j.items = job[w].items /\ j.local = job[w].local /\ j.buffer = job[w].buffer
          /\ j.stack = job[w].stack /\ j.at = job[w].at /\ j.step = "publish" /\ j.then = "list"
          /\ j.outbox = job[w].spilled /\ j.spilled = <<>>
      BY <1>0 DEF JobOver
    <3>3. /\ k.items = job[w].items /\ k.local = job[w].local /\ k.buffer = job[w].buffer
          /\ k.stack = job[w].stack /\ k.at = job[w].at /\ k.step = "list"
          /\ k.outbox = job[w].outbox /\ k.spilled = job[w].spilled
      BY <1>0 DEF JobOver
    <3> HIDE DEF j, k
    <3>4. (SpillNow(w) /\ accept => job'[w] = j) /\ (SpillNow(w) /\ ~accept => job'[w] = k)
      BY <1>0, <3>1
    <3> QED
      BY <3>2, <3>3, <3>4
  <2>9. EndListing(w) =>
          LET o == ObserveQuit(job[w]) IN
          /\ job'[w].step = "publish" /\ job'[w].then = "next" /\ NoLists(job'[w])
          /\ job'[w].stack = o.local \o o.stack /\ job'[w].outbox = FinishChunks(o)
    <3> DEFINE o == ObserveQuit(job[w])
               j == [NoJob EXCEPT !.step = "publish", !.outbox = FinishChunks(o),
                                  !.then = "next", !.stack = o.local \o o.stack,
                                  !.sawQuit = quit]
    <3>1. EndListing(w) => job' = [job EXCEPT ![w] = j]
      BY DEF EndListing, Update
    <3> HIDE DEF o
    <3>2. /\ j.step = "publish" /\ j.then = "next" /\ NoLists(j)
          /\ j.stack = o.local \o o.stack /\ j.outbox = FinishChunks(o)
      BY DEF NoJob, NoLists
    <3> HIDE DEF j
    <3>3. EndListing(w) => job'[w] = j
      BY <1>0, <3>1
    <3> QED
      BY <3>2, <3>3 DEF o
  <2>10. PublishChunk(w) =>
           /\ job'[w].step = "publish" /\ job'[w].then = job[w].then
           /\ job'[w].outbox = Tail(job[w].outbox)
           /\ job'[w].stack = job[w].stack /\ SameLists(job[w], job'[w])
           /\ job'[w].at = job[w].at
    <3> DEFINE j == [job[w] EXCEPT !.outbox = Tail(job[w].outbox)]
    <3>1. PublishChunk(w) => job' = [job EXCEPT ![w] = j] /\ job[w].step = "publish"
      BY DEF PublishChunk, At, Update
    <3>2. /\ j.step = job[w].step /\ j.then = job[w].then /\ j.outbox = Tail(job[w].outbox)
          /\ j.stack = job[w].stack /\ SameLists(job[w], j) /\ j.at = job[w].at
      BY <1>0 DEF JobOver, SameLists
    <3> HIDE DEF j
    <3>3. PublishChunk(w) => job'[w] = j
      BY <1>0, <3>1
    <3> QED
      BY <3>1, <3>2, <3>3
  <2>11. PublishDone(w) =>
           /\ job'[w].step = job[w].then /\ job'[w].outbox = <<>>
           /\ job'[w].stack = job[w].stack /\ SameLists(job[w], job'[w])
           /\ job'[w].at = job[w].at
    <3> DEFINE j == [job[w] EXCEPT !.step = job[w].then]
    <3>1. PublishDone(w) => job' = [job EXCEPT ![w] = j] /\ job[w].outbox = <<>>
      BY DEF PublishDone, At, Update
    <3>2. /\ j.step = job[w].then /\ j.outbox = job[w].outbox
          /\ j.stack = job[w].stack /\ SameLists(job[w], j) /\ j.at = job[w].at
      BY <1>0 DEF JobOver, SameLists
    <3> HIDE DEF j
    <3>3. PublishDone(w) => job'[w] = j
      BY <1>0, <3>1
    <3> QED
      BY <3>1, <3>2, <3>3
  <2> HIDE DEF TaskStep
  <2> QED
    BY <2>1, <2>2, <2>3, <2>4, <2>5, <2>6, <2>7, <2>8, <2>9, <2>10, <2>11 DEF JobAfter
<1>3. ListChild(w) => ChildAfter(job[w], job'[w])
  <2> SUFFICES ASSUME ListChild(w) PROVE ChildAfter(job[w], job'[w])
    OBVIOUS
  <2> DEFINE j0 == job[w]
             popped == [j0 EXCEPT !.items = Tail(@)]
             k == Accumulate(popped, Head(j0.items), accept)
  <2>1. j0.items \in Seq(Node \cup {BadItem}) /\ j0.items # <<>> /\ Head(j0.items) # BadItem
    BY <1>0 DEF ListChild, JobOver
  <2>2. Tail(j0.items) \in Seq(Node \cup {BadItem}) /\ Head(j0.items) \in Node
    BY <2>1, HeadTailProperties
  <2>3. popped \in JobOver(Node)
    BY <1>0, <2>2 DEF JobOver
  <2>4. /\ popped.items = Tail(j0.items) /\ popped.stack = j0.stack
        /\ popped.outbox = j0.outbox /\ popped.at = j0.at
        /\ popped.local = j0.local /\ popped.buffer = j0.buffer /\ popped.spilled = j0.spilled
    BY <1>0 DEF JobOver
  <2> HIDE DEF popped
  <2>5. k \in JobOver(Node)
    BY <2>2, <2>3, AccumulateFits
  <2>6. /\ k.stack = popped.stack /\ k.items = popped.items /\ k.outbox = popped.outbox
        /\ k.at = popped.at
        /\ \A n : Collected(k, n) <=> Collected(popped, n) \/ n = Head(j0.items)
    BY <2>2, <2>3, AccumulateKeeps
  <2> HIDE DEF k
  <2>7. job' = [job EXCEPT ![w] = [k EXCEPT !.step = IF k.spilled = <<>> THEN "list" ELSE "spill"]]
    BY DEF ListChild, Update, k, popped
  <2>8. /\ job'[w].step \in {"list", "spill"}
        /\ job'[w].stack = k.stack /\ job'[w].items = k.items /\ job'[w].outbox = k.outbox
        /\ job'[w].at = k.at /\ job'[w].local = k.local /\ job'[w].buffer = k.buffer
        /\ job'[w].spilled = k.spilled
    BY <1>0, <2>5, <2>7 DEF JobOver
  <2> QED
    BY <2>4, <2>6, <2>8 DEF ChildAfter, Collected
<1> QED
  BY <1>1, <1>2, <1>3

-----------------------------------------------------------------------------
(* Who stops the walk                                                        *)

(* Who failed is on its way out, and work is refused only after -quit or a   *)
(* failure.                                                                  *)
StopsAreKnown ==
  /\ \A w \in Worker :
       /\ pc[w] \in {"fatal", "stop", "alert", "dead"} => w \in failed
       /\ w \in failed => pc[w] \in {"finish", "notify", "fatal", "stop", "alert", "dead"}
       /\ pc[w] = "quit" \/ job[w].step = "leave" => quit
  /\ ~accept => quit \/ failed # {}
  /\ fatal => failed # {}

(* What LoopMoves says, for the scheduler of the engine. *)
LEMMA EngineLoopMoves ==
  ASSUME EngineInv, NEW w \in Worker, LoopStep(w)
  PROVE  /\ \E b \in S!Location : pc' = [pc EXCEPT ![w] = b] /\ SP!LoopMove(w, pc[w], b)
         /\ UNCHANGED <<quit, failed>>
         /\ accept' = accept \/ (pc[w] \in {"stop", "quit"} /\ accept' = FALSE)
         /\ fatal' = fatal \/ pc[w] = "fatal"
         /\ UNCHANGED <<job, evals, errors>>
<1>1. w \in SP!Worker /\ SP!TypeOK /\ SP!WorkerLoop(w)
  BY SameLoop DEF Worker, S!Worker, SP!Worker, EngineInv, SP!SchedInv, LoopStep
<1>2. S!Location = SP!Location
  BY DEF S!Location, SP!Location
<1> QED
  BY <1>1, <1>2, SP!LoopMoves, RootsAreTasks DEF LoopStep

(* What a step of a task body does to the scheduler, for short. *)
LEMMA TaskMoves ==
  ASSUME EngineInv, NEW w \in Worker, TaskStep(w)
  PROVE  /\ pc[w] = "run" /\ \A u \in Worker \ {w} : pc'[u] = pc[u] /\ pub'[u] = pub[u]
         /\ UNCHANGED <<accept, fatal, injector, deque, task>>
         /\ \/ pc' = pc /\ pub' = pub /\ failed' = failed /\ quit' = quit
            \/ PublishChunk(w) /\ ~accept /\ pc'[w] = "run" /\ failed' = failed /\ quit' = quit
            \/ /\ PublishChunk(w) /\ accept /\ failed' = failed /\ quit' = quit
               /\ pc'[w] = "count" /\ pub' = [pub EXCEPT ![w] = Head(job[w].outbox)]
            \/ EvalQuits(w) /\ pc'[w] = "quit" /\ pub' = pub /\ failed' = failed /\ quit'
            \/ /\ EndBatch(w) \/ LeaveAfterQuit(w)
               /\ pc'[w] = "finish" /\ pub' = pub /\ failed' = failed /\ quit' = quit
            \/ /\ EvalFails(w) \/ OpenFails(w)
               /\ pc'[w] = "finish" /\ pub' = pub /\ failed' = failed \cup {w} /\ quit' = quit
<1>0. pc \in [Worker -> S!Location] /\ pub \in [Worker -> (Seq(Node) \ {<<>>}) \cup {<<>>}]
  BY EngineQueuesFit DEF S!TypeOK, Worker
<1>1. CASE PublishChunk(w)
  BY <1>0, <1>1 DEF PublishChunk, At, S!BeginPush, S!control, S!queues
<1>2. CASE EvalQuits(w)
  BY <1>0, <1>2 DEF EvalQuits, At, S!StoreQuit, S!Goto, S!queues
<1>3. CASE EndBatch(w)
  BY <1>0, <1>3 DEF EndBatch, At, S!TaskReturns, S!Goto, S!control, S!queues
<1>4. CASE LeaveAfterQuit(w)
  BY <1>0, <1>4 DEF LeaveAfterQuit, At, S!TaskReturns, S!Goto, S!control, S!queues
<1>5. CASE EvalFails(w)
  BY <1>0, <1>5 DEF EvalFails, At, S!TaskReturns, S!Goto, S!control, S!queues
<1>6. CASE OpenFails(w)
  BY <1>0, <1>6 DEF OpenFails, At, S!TaskReturns, S!Goto, S!control, S!queues
<1>7. CASE \/ StartBatch(w) \/ LoadNext(w) \/ EvalOk(w) \/ DoNotDescend(w)
           \/ OpenDirectory(w) \/ ListBadItem(w) \/ ListChild(w) \/ SpillNow(w)
           \/ EndListing(w) \/ PublishDone(w)
  BY <1>7 DEF StartBatch, LoadNext, EvalOk, DoNotDescend, OpenDirectory, ListBadItem,
              ListChild, SpillNow, EndListing, PublishDone, At, schedVars
<1> QED
  BY <1>1, <1>2, <1>3, <1>4, <1>5, <1>6, <1>7 DEF TaskStep

LEMMA StopsInit == Init => StopsAreKnown
BY DEF Init, S!SchedInit, StopsAreKnown, NoJob, Worker

LEMMA StopsStep == EngineInv /\ StopsAreKnown /\ [Next]_vars => StopsAreKnown'
<1> SUFFICES ASSUME EngineInv, StopsAreKnown, [Next]_vars PROVE StopsAreKnown'
  OBVIOUS
<1> USE DEF StopsAreKnown
<1>0. /\ pc \in [Worker -> S!Location] /\ failed \subseteq Worker
      /\ accept \in BOOLEAN /\ quit \in BOOLEAN /\ fatal \in BOOLEAN
      /\ pc' \in [Worker -> S!Location] /\ failed' \subseteq Worker
  BY EngineStep DEF EngineInv, SP!SchedInv, SP!TypeOK, S!Location, SP!Location,
                    Worker, S!Worker, SP!Worker
<1>1. CASE UNCHANGED vars
  BY <1>1 DEF vars, schedVars
<1>2. ASSUME NEW w \in Worker, LoopStep(w)
      PROVE  StopsAreKnown'
  <2>1. PICK b \in S!Location : pc' = [pc EXCEPT ![w] = b] /\ SP!LoopMove(w, pc[w], b)
    BY <1>2, EngineLoopMoves
  <2>2. /\ UNCHANGED <<quit, failed, job>>
        /\ accept' = accept \/ pc[w] \in {"stop", "quit"}
        /\ fatal' = fatal \/ pc[w] = "fatal"
    BY <1>2, EngineLoopMoves
  <2>3. /\ b \in {"fatal", "stop", "alert", "dead"} => w \in failed
        /\ w \in failed => b \in {"finish", "notify", "fatal", "stop", "alert", "dead"}
        /\ b = "quit" => quit
    BY <2>1 DEF SP!LoopMove, SP!Searching
  <2> QED
    BY <1>0, <2>1, <2>2, <2>3
<1>3. ASSUME NEW w \in Worker, TaskStep(w)
      PROVE  StopsAreKnown'
  <2>1. \A u \in Worker \ {w} : job'[u] = job[u] /\ pc'[u] = pc[u]
    BY <1>3, TaskMoves, JobChanges
  <2>2. /\ pc'[w] \in {"run", "count", "quit", "finish"} /\ (pc'[w] = "quit" => quit')
        /\ failed' = failed \/ (failed' = failed \cup {w} /\ pc'[w] = "finish")
        /\ accept' = accept /\ fatal' = fatal /\ (quit => quit') /\ w \notin failed
    BY <1>3, TaskMoves
  <2>3. job'[w].step = "leave" => quit'
    <3>0. job[w].then # "leave" /\ NoJob.step # "leave"
      BY DEF EngineInv, JobsFit, JobOver, NoJob
    <3>1. job'[w].step = "leave" => EvalQuits(w)
      <4>1. JobAfter(w, job[w], job'[w])
        BY <1>3, JobChanges
      <4>2. ListChild(w) => job'[w].step \in {"list", "spill"}
        BY <1>3, JobChanges DEF ChildAfter
      <4> QED
        BY <1>3, <3>0, <4>1, <4>2 DEF JobAfter, TaskStep
    <3>2. EvalQuits(w) => quit'
      BY DEF EvalQuits, S!StoreQuit
    <3> QED
      BY <3>1, <3>2
  <2> QED
    BY <1>0, <2>1, <2>2, <2>3
<1> QED
  BY <1>1, <1>2, <1>3 DEF Next

-----------------------------------------------------------------------------
(* The fields of a job that are not in use are empty                         *)

(* The body is in the middle of a directory. *)
Listing(j) == j.step \in {"list", "spill"} \/ (j.step = "publish" /\ j.then = "list")

(* A worker without a task has no job; a body keeps children only while it   *)
(* lists their parent, and chunks to publish only while it publishes.        *)
Tidy(w) ==
  /\ pc[w] \notin {"run", "count", "push", "quit"} => job[w] = NoJob
  /\ pc[w] \in {"count", "push"} => job[w].step = "publish"
  /\ job[w].step = "idle" => job[w].stack = <<>>
  /\ job[w].step # "publish" => job[w].outbox = <<>>
  /\ ~Listing(job[w]) => NoLists(job[w])
  /\ Listing(job[w]) => Opens(job[w].at) /\ \A n : Listed(job[w].items, n) => Listed(Items[job[w].at], n)

LEMMA TidyInit == Init => \A w \in Worker : Tidy(w)
BY NothingListed DEF Init, S!SchedInit, Tidy, NoJob, NoLists, Listing, Worker

LEMMA TidyStep ==
  ASSUME EngineInv, [Next]_vars, \A w \in Worker : Tidy(w)
  PROVE  \A w \in Worker : Tidy(w)'
<1>0. /\ pc \in [Worker -> S!Location] /\ job \in [Worker -> JobOver(Node)]
      /\ \A w \in Worker : AtNode(job[w], Node) /\ AtNode(job[w], Node)'
  BY EngineQueuesFit, EngineStep DEF S!TypeOK, Worker, EngineInv, JobsFit
<1>1. CASE UNCHANGED vars
  BY <1>1 DEF vars, schedVars, Tidy
<1>2. ASSUME NEW w \in Worker, LoopStep(w), NEW u \in Worker
      PROVE  Tidy(u)'
  <2>1. PICK b \in S!Location : pc' = [pc EXCEPT ![w] = b] /\ SP!LoopMove(w, pc[w], b)
    BY <1>2, EngineLoopMoves
  <2>2. job' = job
    BY <1>2, EngineLoopMoves
  <2>3. /\ b \notin {"run", "count", "push", "quit"} =>
             pc[w] \notin {"run", "count", "push", "quit"} \/ b = pc[w]
        /\ b \in {"count", "push"} => pc[w] \in {"count", "push"}
    BY <2>1 DEF SP!LoopMove, SP!Searching
  <2> QED
    BY <1>0, <2>1, <2>2, <2>3 DEF Tidy
<1>3. ASSUME NEW w \in Worker, TaskStep(w), NEW u \in Worker
      PROVE  Tidy(u)'
  <2>1. CASE u # w
    <3>1. job'[u] = job[u] /\ pc'[u] = pc[u]
      BY <1>3, <2>1, TaskMoves, JobChanges
    <3> QED
      BY <3>1 DEF Tidy
  <2>2. CASE u = w
    <3>0. Tidy(w) /\ job[w] \in JobOver(Node) /\ AtNode(job[w], Node) /\ pc[w] = "run"
      BY <1>0, <1>3, TaskMoves
    <3>a. JobAfter(w, job[w], job'[w])
      BY <1>3, JobChanges
    <3>b. /\ pc'[w] \in {"run", "count", "quit"} \/ (pc'[w] = "finish" /\ job'[w] = NoJob)
          /\ pc'[w] = "count" => PublishChunk(w)
      BY <1>3, <3>0, <3>a, TaskMoves DEF JobAfter
    <3>1. CASE EndBatch(w) \/ LeaveAfterQuit(w) \/ EvalFails(w) \/ OpenFails(w)
      <4>1. job'[w] = NoJob /\ ~PublishChunk(w)
        BY <3>0, <3>a, <3>1 DEF JobAfter, EndBatch, LeaveAfterQuit, EvalFails, OpenFails,
             PublishChunk, At
      <4> QED
        BY <2>2, <3>b, <4>1 DEF Tidy, NoJob, NoLists, Listing
    <3>2. CASE StartBatch(w)
      <4>1. /\ job'[w].step = "next" /\ NoLists(job'[w]) /\ job'[w].outbox = <<>>
            /\ ~PublishChunk(w) /\ pc'[w] \in {"run", "count", "quit"}
        BY <1>3, <3>0, <3>a, <3>2, TaskMoves DEF JobAfter, StartBatch, PublishChunk, At, schedVars
      <4> QED
        BY <2>2, <3>b, <4>1 DEF Tidy, Listing
    <3>3. CASE LoadNext(w) \/ EvalOk(w) \/ EvalQuits(w) \/ DoNotDescend(w)
      <4>1. job[w].step \in {"next", "eval", "descend"}
        BY <3>3 DEF LoadNext, EvalOk, EvalQuits, DoNotDescend, At
      <4>2. /\ job'[w].step \in {"next", "eval", "descend", "leave"}
            /\ SameLists(job[w], job'[w]) /\ job'[w].outbox = job[w].outbox
        BY <3>a, <3>3 DEF JobAfter
      <4>3. NoLists(job[w]) /\ job[w].outbox = <<>>
        BY <3>0, <4>1 DEF Tidy, Listing
      <4>4. ~PublishChunk(w) /\ ~(pc'[w] = "finish")
        BY <3>b, <3>0, <4>1, <4>2 DEF PublishChunk, At, NoJob
      <4> QED
        BY <2>2, <3>b, <4>2, <4>3, <4>4 DEF Tidy, Listing, SameLists, NoLists
    <3>4. CASE OpenDirectory(w)
      <4>1. /\ job[w].step = "descend" /\ Opens(job[w].at)
        BY <3>0, <3>4 DEF OpenDirectory, At, AtNode, Opens
      <4>2. /\ job'[w].step = "list" /\ job'[w].items = Items[job[w].at]
            /\ job'[w].at = job[w].at /\ job'[w].outbox = job[w].outbox
        BY <3>a, <3>4 DEF JobAfter
      <4>3. job[w].outbox = <<>> /\ ~PublishChunk(w) /\ ~(pc'[w] = "finish")
        BY <3>0, <3>b, <4>1, <4>2 DEF Tidy, PublishChunk, At, NoJob
      <4> QED
        BY <2>2, <3>b, <4>1, <4>2, <4>3 DEF Tidy, Listing
    <3>5. CASE ListBadItem(w) \/ ListChild(w)
      <4>1. job[w].step = "list" /\ job[w].items # <<>> /\ job[w].items \in Seq(Node \cup {BadItem})
        BY <3>0, <3>5 DEF ListBadItem, ListChild, At, JobOver
      <4>2. /\ job'[w].step \in {"list", "spill"} /\ job'[w].items = Tail(job[w].items)
            /\ job'[w].at = job[w].at /\ job'[w].outbox = job[w].outbox
        BY <1>3, <3>a, <3>5, JobChanges DEF JobAfter, ChildAfter
      <4>3. \A n : Listed(Tail(job[w].items), n) => Listed(job[w].items, n)
        BY <4>1, ListedTail
      <4>4. job[w].outbox = <<>> /\ ~PublishChunk(w) /\ ~(pc'[w] = "finish")
        BY <3>0, <3>b, <4>1, <4>2 DEF Tidy, PublishChunk, At, NoJob
      <4> QED
        BY <2>2, <3>0, <3>b, <4>1, <4>2, <4>3, <4>4 DEF Tidy, Listing
    <3>6. CASE SpillNow(w)
      <4>1. /\ job[w].step = "spill"
            /\ job'[w].items = job[w].items /\ job'[w].at = job[w].at
            /\ \/ job'[w].step = "publish" /\ job'[w].then = "list"
               \/ job'[w].step = "list" /\ job'[w].outbox = job[w].outbox
        BY <3>a, <3>6 DEF JobAfter, SpillNow, At
      <4>2. ~PublishChunk(w) /\ ~(pc'[w] = "finish") /\ job[w].outbox = <<>>
        BY <3>0, <3>b, <4>1 DEF Tidy, PublishChunk, At, NoJob
      <4> QED
        BY <2>2, <3>0, <3>b, <4>1, <4>2 DEF Tidy, Listing
    <3>7. CASE EndListing(w)
      <4>1. /\ job[w].step = "list" /\ NoLists(job'[w])
            /\ job'[w].step = "publish" /\ job'[w].then = "next"
        BY <3>a, <3>7 DEF JobAfter, EndListing, At
      <4>2. ~PublishChunk(w) /\ ~(pc'[w] = "finish")
        BY <3>b, <4>1 DEF PublishChunk, At, NoJob
      <4> QED
        BY <2>2, <3>b, <4>1, <4>2 DEF Tidy, Listing
    <3>8. CASE PublishChunk(w)
      <4>1. /\ job[w].step = "publish" /\ job'[w].step = "publish" /\ job'[w].then = job[w].then
            /\ SameLists(job[w], job'[w]) /\ job'[w].at = job[w].at
        BY <3>a, <3>8 DEF JobAfter, PublishChunk, At
      <4> QED
        BY <2>2, <3>0, <3>b, <4>1 DEF Tidy, Listing, SameLists, NoLists, NoJob
    <3>9. CASE PublishDone(w)
      <4>1. /\ job[w].step = "publish" /\ job'[w].step = job[w].then /\ job'[w].outbox = <<>>
            /\ SameLists(job[w], job'[w]) /\ job'[w].at = job[w].at
            /\ job[w].then \in {"list", "next"}
        BY <3>0, <3>a, <3>9 DEF JobAfter, PublishDone, At, AtNode
      <4>2. ~(pc'[w] = "count") /\ ~(pc'[w] = "finish")
        BY <3>b, <3>9, <4>1, <1>3, <3>0 DEF PublishChunk, PublishDone, At, NoJob, schedVars
      <4> QED
        BY <2>2, <3>0, <3>b, <4>1, <4>2 DEF Tidy, Listing, SameLists, NoLists
    <3> QED
      BY <1>3, <3>1, <3>2, <3>3, <3>4, <3>5, <3>6, <3>7, <3>8, <3>9 DEF TaskStep
  <2> QED
    BY <2>1, <2>2
<1> QED
  BY <1>1, <1>2, <1>3 DEF Next

-----------------------------------------------------------------------------
(* Nothing is lost                                                           *)

(* A task waits in a queue, is being published, or is in the hand of a       *)
(* worker that has yet to begin it.                                          *)
Waiting(t) == \E q, i : SP!TaskAt(t, q, i) /\ (i = 0 => pc[q] = "got" \/ At(q, "idle"))

(* The nodes of a body, and of the whole engine, that are still to be        *)
(* handled.                                                                  *)
JobHolds(j, n) ==
  \/ Listed(j.stack, n) \/ Listed(j.items, n) \/ Collected(j, n) \/ ChunksHold(j.outbox, n)
  \/ j.step \in {"eval", "descend"} /\ j.at = n

Held(n) ==
  \/ \E t : Waiting(t) /\ Listed(t, n)
  \/ \E w \in Worker : JobHolds(job[w], n)

(* A body is at directory n, one of whose items still to come is bad. *)
StillListing(n) == \E w \in Worker : job[w].at = n /\ Listed(job[w].items, BadItem)

Handled(n) ==
  /\ n \in PreOrderEntries => evals[n] > 0
  /\ n \in FaultyNodes => n \in errors \/ StillListing(n)

Healthy == ~quit /\ failed = {} /\ accept

(* While nothing stops the walk, a node it reaches is held, or is below a    *)
(* node that is held, or was handled to the end.                             *)
NothingLost ==
  Healthy => \A n \in Node : Reached[n] /\ (\A a \in Ancestors[n] \cup {n} : ~Held(a)) => Handled(n)

LEMMA LossInit == Init => NothingLost
<1> SUFFICES ASSUME Init, NEW r \in Root PROVE Held(r)
  BY RootAbove DEF NothingLost
<1>1. PICK i \in 1..Len(StartPaths) : r = StartPaths[i]
  BY DEF Root, RangeOf
<1>2. /\ injector = [k \in 1..Len(StartPaths) |-> <<StartPaths[k]>>]
      /\ Len(StartPaths) \in Nat
  BY WalkTreeAssumption DEF Init, S!SchedInit
<1>3. i \in 1..Len(injector) /\ injector[i] = <<r>> /\ i # 0
  BY <1>1, <1>2
<1>4. SP!TaskAt(<<r>>, 0, i)
  BY <1>3 DEF SP!TaskAt
<1>5. Listed(<<r>>, r)
  BY DEF Listed
<1>6. Waiting(<<r>>)
  BY <1>3, <1>4 DEF Waiting
<1> QED
  BY <1>5, <1>6 DEF Held

(* The scheduler's steps keep what is held. *)
LEMMA LoopKeeps ==
  ASSUME EngineInv, NEW w \in Worker, LoopStep(w), \A u \in Worker : Tidy(u), accept,
         NEW n, Held(n)
  PROVE  Held(n)'
<1>0. pc \in [Worker -> S!Location]
  BY EngineQueuesFit DEF S!TypeOK, Worker
<1>1. CASE \E u \in Worker : JobHolds(job[u], n)
  BY <1>1, EngineLoopMoves DEF Held
<1>2. CASE \E t : Waiting(t) /\ Listed(t, n)
  <2>1. PICK t, q, i : Listed(t, n) /\ SP!TaskAt(t, q, i) /\ (i = 0 => pc[q] = "got" \/ At(q, "idle"))
    BY <1>2 DEF Waiting
  <2>2. w \in SP!Worker /\ SP!TypeOK /\ SP!WorkerLoop(w)
    BY SameLoop DEF Worker, S!Worker, SP!Worker, EngineInv, SP!SchedInv, LoopStep
  <2>3. \/ \E r, j : SP!TaskAt(t, r, j)' /\ (j = 0 => (q = r /\ i = 0) \/ pc'[r] = "got")
        \/ q = w /\ i = 0 /\ pc[w] = "finish"
    BY <2>1, <2>2, SP!TasksStay, RootsAreTasks
  <2>4. PICK r, j : SP!TaskAt(t, r, j)' /\ (j = 0 => (q = r /\ i = 0) \/ pc'[r] = "got")
    BY <2>1, <2>3 DEF At
  <2>5. ASSUME j = 0 PROVE (pc[r] = "got" \/ At(r, "idle"))'
    <3>1. CASE pc'[r] = "got"
      BY <3>1
    <3>2. CASE q = r /\ i = 0
      <4>1. PICK b \in S!Location : pc' = [pc EXCEPT ![w] = b] /\ SP!LoopMove(w, pc[w], b)
        BY EngineLoopMoves
      <4>2. r \in Worker
        BY <2>5, <2>4, <3>2 DEF SP!TaskAt, SP!InHand, SP!Worker, Worker, S!Worker
      <4>3. job' = job
        BY EngineLoopMoves
      <4>4. CASE r # w
        BY <1>0, <2>1, <3>2, <4>1, <4>2, <4>3, <4>4 DEF At
      <4>5. CASE r = w
        <5>1. pc[w] = "got" \/ pc[w] = "run"
          BY <2>1, <3>2, <4>5 DEF At
        <5>2. pc'[w] = b
          BY <1>0, <4>1
        <5>3. pc'[w] = pc[w] \/ (pc[w] = "got" /\ pc'[w] = "run")
          BY <4>1, <5>1, <5>2 DEF SP!LoopMove, SP!Searching
        <5>4. pc[w] = "got" => job[w].step = "idle"
          BY DEF Tidy, NoJob
        <5> QED
          BY <2>1, <3>2, <4>3, <4>5, <5>1, <5>3, <5>4 DEF At
      <4> QED
        BY <4>4, <4>5
    <3> QED
      BY <2>4, <2>5, <3>1, <3>2
  <2>6. Waiting(t)'
    BY <2>4, <2>5 DEF Waiting
  <2> QED
    BY <2>1, <2>6 DEF Held
<1> QED
  BY <1>1, <1>2 DEF Held

(* A waiting task waits on, unless its batch starts now. *)
LEMMA WaitingStays ==
  ASSUME EngineInv, NEW w \in Worker, TaskStep(w), NEW t, Waiting(t)
  PROVE  Waiting(t)' \/ (StartBatch(w) /\ t = task[w])
<1>0. PICK q, i : SP!TaskAt(t, q, i) /\ (i = 0 => pc[q] = "got" \/ At(q, "idle"))
  BY DEF Waiting
<1>1. /\ pc[w] = "run" /\ \A u \in Worker \ {w} : pc'[u] = pc[u]
      /\ UNCHANGED <<injector, deque, task>>
      /\ pc'[w] \in {"run", "count", "quit", "finish"}
      /\ \A u \in Worker \ {w} : pub'[u] = pub[u]
  BY TaskMoves
<1>3. SP!Worker = Worker
  BY DEF SP!Worker, S!Worker, Worker
<1>4. SP!TaskAt(t, q, i)'
  <2>1. SP!InHand \subseteq SP!InHand'
    BY <1>1, <1>3 DEF SP!InHand
  <2>2. \A u \in SP!Publishing : u # w /\ u \in SP!Publishing' /\ pub'[u] = pub[u]
    BY <1>1, <1>3 DEF SP!Publishing
  <2> QED
    BY <1>0, <1>1, <2>1, <2>2 DEF SP!TaskAt
<1>5. CASE i = 0 /\ q = w
  <2>1. At(w, "idle")
    BY <1>0, <1>1, <1>5
  <2>2. StartBatch(w)
    BY <2>1 DEF TaskStep, At, EndBatch, LoadNext, EvalOk, EvalQuits, LeaveAfterQuit,
         EvalFails, DoNotDescend, OpenDirectory, OpenFails, ListBadItem, ListChild, SpillNow,
         EndListing, PublishChunk, PublishDone
  <2>3. t = task[w]
    BY <1>0, <1>5, <1>3 DEF SP!TaskAt, SP!Worker
  <2> QED
    BY <2>2, <2>3
<1>6. CASE i = 0 /\ q # w
  <2>1. q \in Worker \ {w}
    BY <1>0, <1>3, <1>6 DEF SP!TaskAt, SP!InHand
  <2>2. pc'[q] = pc[q] /\ job'[q] = job[q]
    BY <1>1, <2>1, JobChanges
  <2>3. (i = 0 => pc[q] = "got" \/ At(q, "idle"))'
    BY <1>0, <2>2 DEF At
  <2> QED
    BY <1>4, <2>3 DEF Waiting
<1>7. CASE i # 0
  BY <1>4, <1>7 DEF Waiting
<1> QED
  BY <1>5, <1>6, <1>7

(* A body's steps keep what is held, or handle it and hold its children.     *)
LEMMA TaskKeeps ==
  ASSUME EngineInv, OrderInv, StopsAreKnown, \A u \in Worker : Tidy(u),
         NEW w \in Worker, TaskStep(w), Healthy', NEW n \in Node, Held(n)
  PROVE  Held(n)' \/ (Handled(n)' /\ (Opens(n) => \A c \in Children(n) : Held(c)'))
<1>0. /\ job[w] \in JobOver(Node) /\ AtNode(job[w], Node) /\ Tidy(w)
      /\ job[w].step \in {"eval", "descend"} => Reached[job[w].at]
  BY DEF EngineInv, OrderInv, JobsFit, AtNode, ReadyAfter
<1>a. \A u \in Worker \ {w} : job'[u] = job[u]
  BY JobChanges
<1>b. JobAfter(w, job[w], job'[w])
  BY JobChanges
<1>c. quit' = FALSE /\ failed' = {} /\ accept' = TRUE /\ accept /\ ~quit /\ failed = {} /\ ~fatal
  <2>1. accept' = accept /\ (quit => quit') /\ failed \subseteq failed'
    BY TaskMoves
  <2>2. accept \in BOOLEAN /\ quit \in BOOLEAN
    BY EngineQueuesFit DEF S!TypeOK
  <2>3. ~quit' /\ failed' = {} /\ accept'
    BY DEF Healthy
  <2>4. quit' \in BOOLEAN /\ accept' \in BOOLEAN
    BY EngineStep DEF EngineInv, SP!SchedInv, SP!TypeOK, Next
  <2> QED
    BY <2>1, <2>2, <2>3, <2>4 DEF StopsAreKnown
<1>d. ~(EvalQuits(w) \/ LeaveAfterQuit(w) \/ EvalFails(w) \/ OpenFails(w))
  <2>1. ~EvalFails(w) /\ ~OpenFails(w)
    BY <1>c DEF EvalFails, OpenFails, S!TaskReturns
  <2>2. ~EvalQuits(w)
    BY <1>c DEF EvalQuits, S!StoreQuit
  <2>3. ~LeaveAfterQuit(w)
    BY <1>c DEF LeaveAfterQuit, At, StopsAreKnown
  <2> QED
    BY <2>1, <2>2, <2>3
<1>1. CASE \E t : Waiting(t) /\ Listed(t, n)
  <2> PICK t : Waiting(t) /\ Listed(t, n)
    BY <1>1
  <2>1. CASE Waiting(t)'
    BY <2>1 DEF Held
  <2>2. CASE StartBatch(w) /\ t = task[w]
    <3>1. Listed(job'[w].stack, n)
      BY <1>b, <2>2 DEF JobAfter
    <3> QED
      BY <3>1 DEF Held, JobHolds
  <2> QED
    BY <2>1, <2>2, WaitingStays
<1>2. CASE \E u \in Worker \ {w} : JobHolds(job[u], n)
  BY <1>a, <1>2 DEF Held
<1>3. CASE JobHolds(job[w], n)
  <2> SUFFICES ASSUME ~JobHolds(job'[w], n)
               PROVE  Held(n)' \/ (Handled(n)' /\ (Opens(n) => \A c \in Children(n) : Held(c)'))
    BY DEF Held
  <2> USE DEF JobHolds
  <2>1. CASE EndBatch(w)
    <3>1. job[w].step = "next" /\ job[w].stack = <<>>
      BY <1>c, <2>1 DEF EndBatch, At, Stopping
    <3>2. NoLists(job[w]) /\ job[w].outbox = <<>>
      BY <1>0, <3>1 DEF Tidy, Listing
    <3> QED
      BY <1>3, <3>1, <3>2, NothingListed DEF NoLists, Collected
  <2>2. CASE StartBatch(w)
    <3>1. job[w].step = "idle" /\ job[w].stack = <<>> /\ NoLists(job[w]) /\ job[w].outbox = <<>>
      BY <1>0, <2>2 DEF StartBatch, At, Tidy, Listing
    <3> QED
      BY <1>3, <3>1, NothingListed DEF NoLists, Collected
  <2>3. CASE LoadNext(w)
    <3> DEFINE m == Head(job[w].stack)
    <3>1. job[w].step = "next" /\ job[w].stack # <<>> /\ job[w].stack \in Seq(Node)
      BY <1>0, <2>3 DEF LoadNext, At, JobOver
    <3>2. Listed(job[w].stack, n) <=> n = m \/ Listed(Tail(job[w].stack), n)
      BY <3>1, ListedTail
    <3>3. /\ job'[w].stack = Tail(job[w].stack) /\ SameLists(job[w], job'[w])
          /\ job'[w].outbox = job[w].outbox
      BY <1>b, <2>3 DEF JobAfter
    <3>4. n = m
      BY <1>3, <3>1, <3>2, <3>3 DEF SameLists, Collected
    <3>5. ~(Loads(n) /\ Controlled(n))
      <4> SUFFICES ASSUME Loads(n), Controlled(n) PROVE FALSE
        OBVIOUS
      <4>1. job'[w].at = n /\ job'[w].step \in {"eval", "descend"}
        BY <1>b, <2>3, <3>4 DEF JobAfter
      <4> QED
        BY <4>1
    <3>6. n \in errors' /\ n \notin PreOrderEntries /\ ~Opens(n)
      BY <2>3, <3>4, <3>5 DEF LoadNext, PreOrderEntries, Opens
    <3> QED
      BY <3>6 DEF Handled
  <2>4. CASE EvalOk(w)
    <3>1. /\ job'[w].step = "descend" /\ job'[w].stack = job[w].stack /\ SameLists(job[w], job'[w])
          /\ job'[w].outbox = job[w].outbox /\ job'[w].at = job[w].at
      BY <1>b, <2>4 DEF JobAfter
    <3> QED
      BY <1>3, <3>1 DEF SameLists, Collected
  <2>5. CASE DoNotDescend(w)
    <3>1. /\ job'[w].stack = job[w].stack /\ SameLists(job[w], job'[w])
          /\ job'[w].outbox = job[w].outbox
      BY <1>b, <2>5 DEF JobAfter
    <3>2. job[w].step = "descend" /\ n = job[w].at /\ DescendDecision(n) # "yes"
      BY <1>3, <2>5, <3>1 DEF SameLists, Collected, DoNotDescend, At
    <3>3. Loads(n) /\ Controlled(n) /\ ~Opens(n)
      BY <1>0, <3>2 DEF AtNode, Opens
    <3>4. n \in PreOrderEntries => evals'[n] > 0
      BY <2>5, <3>2 DEF OrderInv, EvaluatedFirst, PreOrderEntries, DoNotDescend
    <3>5. n \in FaultyNodes => n \in errors'
      BY <2>5, <3>2, <3>3 DEF FaultyNodes, DoNotDescend
    <3> QED
      BY <3>3, <3>4, <3>5 DEF Handled
  <2>6. CASE OpenDirectory(w)
    <3>1. /\ job'[w].stack = job[w].stack /\ job'[w].local = job[w].local
          /\ job'[w].buffer = job[w].buffer /\ job'[w].spilled = job[w].spilled
          /\ job'[w].outbox = job[w].outbox
          /\ job'[w].items = Items[job[w].at] /\ job'[w].at = job[w].at
      BY <1>b, <2>6 DEF JobAfter
    <3>2. job[w].step = "descend" /\ evals' = evals
      BY <2>6 DEF OpenDirectory, At
    <3>3. job[w].items = <<>>
      BY <1>0, <3>2 DEF Tidy, Listing, NoLists
    <3>4. n = job[w].at
      BY <1>3, <3>1, <3>2, <3>3, NothingListed DEF Collected
    <3>5. \A c \in Children(n) : Held(c)'
      <4> TAKE c \in Children(n)
      <4>1. Listed(job'[w].items, c)
        BY <3>1, <3>4 DEF Children, RangeOf, Listed
      <4> QED
        BY <4>1 DEF Held
    <3>6. n \in PreOrderEntries => evals'[n] > 0
      BY <3>2, <3>4 DEF OrderInv, EvaluatedFirst, PreOrderEntries
    <3>7. n \in FaultyNodes => StillListing(n)'
      <4>1. Loads(n) /\ Controlled(n) /\ DescendDecision(n) = "yes"
        BY <1>0, <2>6, <3>2, <3>4 DEF AtNode, OpenDirectory
      <4>2. n \in FaultyNodes => Listed(job'[w].items, BadItem)
        BY <3>1, <3>4, <4>1 DEF FaultyNodes, RangeOf, Listed
      <4> QED
        BY <3>1, <3>4, <4>2 DEF StillListing
    <3> QED
      BY <3>5, <3>6, <3>7 DEF Handled
  <2>7. CASE ListBadItem(w) \/ ListChild(w)
    <3>1. /\ job[w].step = "list" /\ job[w].items # <<>>
          /\ job[w].items \in Seq(Node \cup {BadItem})
      BY <1>0, <2>7 DEF ListBadItem, ListChild, At, JobOver
    <3>2. Listed(job[w].items, n) <=> n = Head(job[w].items) \/ Listed(Tail(job[w].items), n)
      BY <3>1, ListedTail
    <3>3. CASE ListBadItem(w)
      <4>1. n # Head(job[w].items)
        BY <3>3, WalkTreeAssumption DEF ListBadItem
      <4> QED
        BY <1>3, <1>b, <3>1, <3>2, <3>3, <4>1 DEF JobAfter, Collected
    <3>4. CASE ListChild(w)
      <4>1. ChildAfter(job[w], job'[w])
        BY <3>4, JobChanges
      <4> QED
        BY <1>3, <3>1, <3>2, <4>1 DEF ChildAfter
    <3> QED
      BY <2>7, <3>3, <3>4
  <2>8. CASE SpillNow(w)
    <3>1. job[w].step = "spill" /\ job[w].outbox = <<>>
      BY <1>0, <2>8 DEF SpillNow, At, Tidy
    <3>2. /\ job'[w].items = job[w].items /\ job'[w].local = job[w].local
          /\ job'[w].buffer = job[w].buffer /\ job'[w].stack = job[w].stack
          /\ job'[w].outbox = job[w].spilled
      BY <1>b, <1>c, <2>8 DEF JobAfter
    <3> QED
      BY <1>3, <3>1, <3>2, NothingListed DEF Collected
  <2>9. CASE EndListing(w)
    <3>1. job[w].step = "list" /\ job[w].items = <<>> /\ job[w].outbox = <<>>
      BY <1>0, <2>9 DEF EndListing, At, Tidy
    <3>2. ObserveQuit(job[w]) = job[w]
      BY <1>c DEF ObserveQuit
    <3>3. job'[w].stack = job[w].local \o job[w].stack /\ job'[w].outbox = FinishChunks(job[w])
      BY <1>b, <2>9, <3>2 DEF JobAfter
    <3>4. /\ job[w].local \in Seq(Node) /\ job[w].stack \in Seq(Node) /\ job[w].buffer \in Seq(Node)
          /\ job[w].spilled \in Seq(Seq(Node))
      <4>1. Seq(Chunk(Node)) \subseteq Seq(Seq(Node))
        BY SeqMonotonic DEF Chunk
      <4> QED
        BY <1>0, <4>1 DEF JobOver
    <3>5. Listed(job'[w].stack, n) <=> Listed(job[w].local, n) \/ Listed(job[w].stack, n)
      BY <3>3, <3>4, ListedConcat
    <3>6. ChunksHold(job[w].spilled, n) \/ Listed(job[w].buffer, n) => ChunksHold(job'[w].outbox, n)
      <4>1. ChunksHold(Append(job[w].spilled, job[w].buffer), n) <=>
              ChunksHold(job[w].spilled, n) \/ Listed(job[w].buffer, n)
        BY <3>4, ChunksAppend
      <4> QED
        BY <3>3, <4>1, NothingListed DEF FinishChunks
    <3> QED
      BY <1>3, <3>1, <3>5, <3>6, NothingListed DEF Collected
  <2>10. CASE PublishChunk(w)
    <3>1. job[w].step = "publish" /\ job[w].outbox # <<>> /\ job[w].outbox \in Seq(Chunk(Node))
      BY <1>0, <2>10 DEF PublishChunk, At, JobOver
    <3>2. ChunksHold(job[w].outbox, n) =>
            Listed(Head(job[w].outbox), n) \/ ChunksHold(Tail(job[w].outbox), n)
      BY <3>1, ChunksTail
    <3>3. /\ job'[w].outbox = Tail(job[w].outbox) /\ job'[w].stack = job[w].stack
          /\ SameLists(job[w], job'[w])
      BY <1>b, <2>10 DEF JobAfter
    <3>4. Listed(Head(job[w].outbox), n)
      BY <1>3, <3>1, <3>2, <3>3 DEF SameLists, Collected
    <3>5. pc'[w] = "count" /\ pub'[w] = Head(job[w].outbox)
      <4>1. pub \in [Worker -> (Seq(Node) \ {<<>>}) \cup {<<>>}] /\ pc \in [Worker -> S!Location]
        BY EngineQueuesFit DEF S!TypeOK, Worker
      <4> QED
        BY <1>c, <2>10, <4>1 DEF PublishChunk, S!BeginPush
    <3>6. PICK t : t = Head(job[w].outbox)
      OBVIOUS
    <3>7. SP!TaskAt(t, w, -1)'
      BY <3>5, <3>6 DEF SP!TaskAt, SP!Publishing, SP!Worker, Worker, S!Worker
    <3>8. Waiting(t)'
      BY <3>7 DEF Waiting
    <3> QED
      BY <3>4, <3>6, <3>8 DEF Held
  <2>11. CASE PublishDone(w)
    <3>1. job[w].step = "publish" /\ job[w].outbox = <<>>
      BY <2>11 DEF PublishDone, At
    <3>2. job'[w].stack = job[w].stack /\ SameLists(job[w], job'[w])
      BY <1>b, <2>11 DEF JobAfter
    <3> QED
      BY <1>3, <3>1, <3>2, NothingListed DEF SameLists, Collected
  <2> QED
    BY <1>d, <2>1, <2>2, <2>3, <2>4, <2>5, <2>6, <2>7, <2>8, <2>9, <2>10, <2>11 DEF TaskStep
<1> QED
  BY <1>1, <1>2, <1>3 DEF Held

(* Only what should be reported is. *)
ErrorsTrue == errors \subseteq FaultyNodes

LEMMA ErrorsStep ==
  EngineInv /\ OrderInv /\ (\A w \in Worker : Tidy(w)) /\ ErrorsTrue /\ [Next]_vars =>
    ErrorsTrue' /\ errors \subseteq errors'
<1> SUFFICES ASSUME EngineInv, OrderInv, \A w \in Worker : Tidy(w), ErrorsTrue, [Next]_vars
             PROVE  ErrorsTrue' /\ errors \subseteq errors'
  OBVIOUS
<1> USE DEF ErrorsTrue
<1>1. CASE UNCHANGED errors
  BY <1>1 DEF FaultyNodes
<1>2. ASSUME NEW w \in Worker, TaskStep(w), ~UNCHANGED errors
      PROVE  \E n \in FaultyNodes : errors' = errors \cup {n}
  <2>0. job[w] \in JobOver(ReadyAfter(Done)) /\ AtNode(job[w], ReadyAfter(Done)) /\ Tidy(w)
    BY DEF OrderInv, JobsFit
  <2>1. LoadNext(w) \/ DoNotDescend(w) \/ ListBadItem(w)
    BY <1>2 DEF TaskStep, StartBatch, EndBatch, EvalOk, EvalQuits, LeaveAfterQuit,
         EvalFails, OpenDirectory, OpenFails, ListChild, SpillNow, EndListing,
         PublishChunk, PublishDone
  <2>2. CASE LoadNext(w)
    <3> DEFINE n == Head(job[w].stack)
    <3>1. n \in ReadyAfter(Done)
      BY <2>0, <2>2, HeadTailProperties DEF LoadNext, JobOver
    <3>2. ~(Loads(n) /\ Controlled(n)) /\ errors' = errors \cup {n}
      BY <1>2, <2>2 DEF LoadNext
    <3> QED
      BY <3>1, <3>2 DEF ReadyAfter, FaultyNodes
  <2>3. CASE DoNotDescend(w)
    <3>1. job[w].at \in ReadyAfter(Done)
      BY <2>0, <2>3 DEF DoNotDescend, At, AtNode
    <3>2. DescendDecision(job[w].at) = "error" /\ errors' = errors \cup {job[w].at}
      BY <1>2, <2>3 DEF DoNotDescend
    <3> QED
      BY <3>1, <3>2 DEF ReadyAfter, FaultyNodes
  <2>4. CASE ListBadItem(w)
    <3>1. job[w].at \in ReadyAfter(Done) /\ job[w].step = "list" /\ job[w].items # <<>>
      BY <2>0, <2>4 DEF ListBadItem, At, AtNode
    <3>2. Listed(job[w].items, BadItem)
      <4>1. job[w].items \in Seq(ReadyAfter(Done) \cup {BadItem})
        BY <2>0 DEF JobOver
      <4> QED
        BY <2>4, <3>1, <4>1, ListedTail DEF ListBadItem
    <3>3. Opens(job[w].at) /\ Listed(Items[job[w].at], BadItem)
      BY <2>0, <3>1, <3>2 DEF Tidy, Listing
    <3> QED
      BY <2>4, <3>1, <3>3 DEF ListBadItem, ReadyAfter, FaultyNodes, Listed, RangeOf
  <2> QED
    BY <2>1, <2>2, <2>3, <2>4
<1>3. FaultyNodes' = FaultyNodes
  BY DEF FaultyNodes
<1> QED
  BY <1>1, <1>2, <1>3 DEF Next, LoopStep, vars

(* A bad item that is still to come stays so, until it is reported. *)
LEMMA ListingGoesOn ==
  ASSUME EngineInv, NEW w \in Worker, TaskStep(w), \A u \in Worker : Tidy(u),
         NEW n \in Node, StillListing(n)
  PROVE  StillListing(n)' \/ n \in errors' \/ ~Healthy'
<1>1. PICK u \in Worker : job[u].at = n /\ Listed(job[u].items, BadItem)
  BY DEF StillListing
<1>2. CASE u # w
  BY <1>1, <1>2, JobChanges DEF StillListing
<1>3. CASE u = w
  <2>1. Tidy(w) /\ job[w] \in JobOver(Node) /\ job[w].items # <<>>
    BY <1>1, <1>3, NothingListed DEF EngineInv, JobsFit
  <2>2. Listing(job[w])
    BY <2>1 DEF Tidy, NoLists
  <2>3. JobAfter(w, job[w], job'[w])
    BY JobChanges
  <2>4. ListBadItem(w) \/ ListChild(w) \/ SpillNow(w) \/ PublishChunk(w) \/ PublishDone(w)
    BY <2>1, <2>2 DEF Listing, TaskStep, At, StartBatch, EndBatch, LoadNext, EvalOk, EvalQuits,
         LeaveAfterQuit, EvalFails, DoNotDescend, OpenDirectory, OpenFails, EndListing
  <2>5. CASE ListBadItem(w)
    BY <1>1, <1>3, <2>5 DEF ListBadItem
  <2>6. CASE ListChild(w)
    <3>1. job'[w].at = n /\ job'[w].items = Tail(job[w].items) /\ Head(job[w].items) # BadItem
      BY <1>1, <1>3, <2>6, JobChanges DEF ChildAfter, ListChild
    <3>2. Listed(Tail(job[w].items), BadItem)
      <4>1. job[w].items \in Seq(Node \cup {BadItem})
        BY <2>1 DEF JobOver
      <4> QED
        BY <1>1, <1>3, <2>1, <3>1, <4>1, ListedTail
    <3> QED
      BY <3>1, <3>2 DEF StillListing
  <2>7. CASE SpillNow(w) \/ PublishChunk(w) \/ PublishDone(w)
    <3>1. job'[w].at = job[w].at /\ job'[w].items = job[w].items
      BY <2>3, <2>7 DEF JobAfter, SameLists
    <3> QED
      BY <1>1, <1>3, <3>1 DEF StillListing
  <2> QED
    BY <2>4, <2>5, <2>6, <2>7
<1> QED
  BY <1>2, <1>3

LossInv ==
  EngineInv /\ OrderInv /\ StopsAreKnown /\ (\A w \in Worker : Tidy(w)) /\ ErrorsTrue /\ NothingLost

LEMMA LossStep == LossInv /\ [Next]_vars => NothingLost'
<1> SUFFICES ASSUME LossInv, [Next]_vars, Healthy', NEW n \in Node, Reached[n],
                    \A a \in Ancestors[n] \cup {n} : ~Held(a)'
             PROVE  Handled(n)'
  BY DEF NothingLost
<1> USE DEF LossInv
<1>0. EngineInv' /\ errors \subseteq errors'
  BY EngineStep, ErrorsStep
<1>a. Ancestors[n] \subseteq Node
  BY AncestorsAreNodes
<1>b. \A m \in Node : evals[m] > 0 => evals'[m] > 0
  BY StepEvaluates DEF Done
<1>1. CASE UNCHANGED vars
  <2>1. Healthy /\ \A a \in Ancestors[n] \cup {n} : Held(a)' <=> Held(a)
    BY <1>1 DEF vars, schedVars, Healthy, Held, Waiting, SP!TaskAt, SP!InHand, SP!Publishing, At
  <2>2. Handled(n)
    BY <2>1 DEF NothingLost
  <2> QED
    BY <1>1, <2>2 DEF vars, Handled, StillListing, FaultyNodes, PreOrderEntries
<1>2. ASSUME NEW w \in Worker, LoopStep(w)
      PROVE  Handled(n)'
  <2>1. Healthy
    <3>1. accept \in BOOLEAN /\ quit' = quit /\ failed' = failed
      BY <1>2, EngineLoopMoves, EngineQueuesFit DEF S!TypeOK
    <3>2. accept' => accept
      BY <1>2, <3>1, EngineLoopMoves
    <3> QED
      BY <3>1, <3>2 DEF Healthy
  <2>2. \A a \in Ancestors[n] \cup {n} : ~Held(a)
    BY <1>2, <2>1, LoopKeeps DEF Healthy
  <2>3. Handled(n)
    BY <2>1, <2>2 DEF NothingLost
  <2> QED
    BY <1>2, <2>3, EngineLoopMoves DEF Handled, StillListing, FaultyNodes, PreOrderEntries
<1>3. ASSUME NEW w \in Worker, TaskStep(w)
      PROVE  Handled(n)'
  <2>1. Healthy
    <3>1. accept' = accept /\ (quit => quit') /\ failed \subseteq failed'
      BY <1>3, TaskMoves
    <3> QED
      BY <3>1 DEF Healthy
  <2>2. CASE \A a \in Ancestors[n] \cup {n} : ~Held(a)
    <3>1. Handled(n)
      BY <2>1, <2>2 DEF NothingLost
    <3>2. n \in FaultyNodes => n \in errors' \/ StillListing(n)'
      BY <1>0, <1>3, <3>1, ListingGoesOn DEF Handled
    <3>3. n \in PreOrderEntries => evals'[n] > 0
      BY <1>b, <3>1 DEF Handled
    <3> QED
      BY <3>2, <3>3 DEF Handled, FaultyNodes, PreOrderEntries
  <2>3. ASSUME NEW a \in Ancestors[n] \cup {n}, Held(a)
        PROVE  Handled(n)'
    <3>1. Handled(a)' /\ (Opens(a) => \A c \in Children(a) : Held(c)')
      BY <1>3, <1>a, <2>3, TaskKeeps
    <3>2. CASE a = n
      BY <3>1, <3>2
    <3>3. CASE a \in Ancestors[n]
      <4>1. Opens(a)
        BY <3>3, ReachedThrough
      <4>2. PICK c \in Children(a) : c \in Ancestors[n] \cup {n}
        BY <3>3, WayDown
      <4>3. Held(c)'
        BY <3>1, <4>1
      <4> QED
        BY <4>2, <4>3
    <3> QED
      BY <3>2, <3>3
  <2> QED
    BY <2>2, <2>3
<1> QED
  BY <1>1, <1>2, <1>3 DEF Next

LEMMA LossInvariant == Spec => []LossInv
<1>1. Init => LossInv
  BY EngineInit, OrderInit, StopsInit, TidyInit, LossInit DEF LossInv, ErrorsTrue, Init
<1>2. LossInv /\ [Next]_vars => LossInv'
  BY EngineStep, OrderStep, StopsStep, TidyStep, ErrorsStep, LossStep DEF LossInv
<1> QED
  BY <1>1, <1>2, PTL DEF Spec

(* When the walk is over and nothing stopped it, nothing waits anywhere. *)
LEMMA CompleteIsHandled ==
  ASSUME LossInv, S!NobodyLeavesEarly, Verdict = "complete", NEW n \in Node, Reached[n]
  PROVE  (n \in PreOrderEntries => evals[n] > 0) /\ (n \in FaultyNodes => n \in errors)
<1> USE DEF LossInv
<1>1. ~quit /\ \A w \in Worker : pc[w] = "exit"
  BY DEF Verdict, S!AllReturned, Worker
<1>2. failed = {}
  <2>1. failed \subseteq Worker
    BY EngineQueuesFit DEF S!TypeOK, Worker
  <2> QED
    BY <1>1, <2>1 DEF StopsAreKnown
<1>3. Healthy
  BY <1>1, <1>2 DEF Healthy, StopsAreKnown
<1>4. S!Slots = {}
  <2>1. 1 \in S!Worker
    BY PreOrderAssumption DEF S!Worker
  <2> QED
    BY <1>1, <2>1 DEF S!NobodyLeavesEarly, Worker
<1>5. \A w \in Worker : job[w] = NoJob
  BY <1>1 DEF Tidy
<1>6. \A t : ~Waiting(t)
  <2> SUFFICES ASSUME NEW t, NEW q, NEW i, SP!TaskAt(t, q, i), i = 0 => pc[q] = "got" \/ At(q, "idle")
               PROVE  FALSE
    BY DEF Waiting
  <2>1. ~(q = 0 /\ i \in 1..Len(injector))
    BY <1>4 DEF S!Slots, S!SlotsOf
  <2>2. ~(q \in Worker /\ i \in 1..Len(deque[q]))
    <3> SUFFICES ASSUME q \in Worker, i \in 1..Len(deque[q]) PROVE FALSE
      OBVIOUS
    <3>1. <<q, i>> \in {<<q, k>> : k \in 1..Len(deque[q])}
      OBVIOUS
    <3>2. {<<q, k>> : k \in 1..Len(deque[q])} \subseteq S!Slots
      BY DEF S!Slots, S!SlotsOf, Worker
    <3> QED
      BY <1>4, <3>1, <3>2
  <2>3. q \in Worker /\ (i = 0 \/ q \in SP!Publishing)
    BY <2>1, <2>2 DEF SP!TaskAt, SP!InHand, SP!Publishing, SP!Worker, S!Worker, Worker
  <2> QED
    BY <1>1, <2>3 DEF SP!Publishing, SP!Worker, S!Worker, Worker, SP!TaskAt, SP!InHand
<1>7. \A m : ~Held(m)
  BY <1>5, <1>6, NothingListed DEF Held, JobHolds, Collected, NoJob
<1>8. ~StillListing(n)
  BY <1>5, NothingListed DEF StillListing, NoJob
<1> QED
  BY <1>3, <1>7, <1>8 DEF NothingLost, Handled

(* A walk that ends without -quit or a failure has evaluated every entry:    *)
(* no chunk, no child and no part of one is lost on its way through the      *)
(* queues, the thefts, the spilled chunks and the accumulator.               *)
THEOREM CompleteWalksAreComplete == Spec => [](Verdict = "complete" => PreOrderEntries \subseteq Done)
<1>1. LossInv /\ S!NobodyLeavesEarly => (Verdict = "complete" => PreOrderEntries \subseteq Done)
  BY CompleteIsHandled DEF PreOrderEntries, Done
<1> QED
  BY <1>1, LossInvariant, NoChunkIsLeftBehind, PTL

(* Such a walk has reported exactly the nodes that could not be loaded,      *)
(* checked, identified, entered or listed to the end.                        *)
THEOREM FailuresAreReported == Spec => []EveryFailureReported
<1>1. LossInv /\ S!NobodyLeavesEarly => EveryFailureReported
  BY CompleteIsHandled DEF EveryFailureReported, FaultyNodes, LossInv, ErrorsTrue
<1> QED
  BY <1>1, LossInvariant, NoChunkIsLeftBehind, PTL

-----------------------------------------------------------------------------
(* Nothing is handled twice                                                  *)

(* How often a body has node n still to handle. *)
JobCount(j, n) ==
  Mult(j.stack, n) + Mult(j.items, n) + Mult(j.local, n) + Mult(j.buffer, n)
    + ChunkMult(j.spilled, n) + ChunkMult(j.outbox, n)
    + One(j.step \in {"eval", "descend"} /\ j.at = n)

(* Task t waits at place i of worker q, and has not been begun. *)
WaitsAt(t, q, i) == SP!TaskAt(t, q, i) /\ (i = 0 => pc[q] = "got" \/ At(q, "idle"))

(* Place i of worker q has node n c times; a body is at place -2. *)
Has(q, i, n, c) ==
  \/ \E t : WaitsAt(t, q, i) /\ c = Mult(t, n)
  \/ q \in Worker /\ i = -2 /\ c = JobCount(job[q], n)

(* No node is in two places, or twice in one. *)
AtOnePlace(n) == \A q1, i1, c1, q2, i2, c2 :
  Has(q1, i1, n, c1) /\ c1 > 0 /\ Has(q2, i2, n, c2) /\ c2 > 0 =>
    q1 = q2 /\ i1 = i2 /\ c1 <= 1

HeldNow(n) == \E q, i, c : Has(q, i, n, c) /\ c > 0

(* What is still to be handled was not evaluated, unless it is about to be   *)
(* listed; and nothing below it was handled.                                 *)
Fresh(n) == HeldNow(n) /\ evals[n] > 0 => \E w \in Worker : job[w].step = "descend" /\ job[w].at = n
NothingBelow(n) ==
  HeldNow(n) => \A m \in Node : n \in Ancestors[m] => ~HeldNow(m) /\ evals[m] = 0

(* Whoever is about to evaluate a node is the only one, and the first. *)
EvaluatesOnce ==
  /\ \A n \in Node : evals[n] \in {0, 1}
  /\ \A w \in Worker : job[w].step = "eval" => evals[job[w].at] = 0
  /\ \A u, w \in Worker : job[u].step = "eval" /\ job[w].step = "eval" /\ u # w =>
       job[u].at # job[w].at

(* After -quit nothing new is begun, and what observe_quit keeps does not    *)
(* count any more.                                                           *)
OnceInv ==
  /\ ~quit => \A n \in Node : AtOnePlace(n) /\ Fresh(n) /\ NothingBelow(n)
  /\ EvaluatesOnce

LEMMA CountIs ==
  /\ \A s, n : Mult(s, n) \in {0, 1, 2} /\ ChunkMult(s, n) \in {0, 1, 2}
  /\ \A b : One(b) \in {0, 1}
  /\ \A j, n : JobCount(j, n) \in Nat
  /\ \A q, i, n, c : Has(q, i, n, c) => c \in Nat
<1>1. /\ \A s, n : Mult(s, n) \in {0, 1, 2} /\ ChunkMult(s, n) \in {0, 1, 2}
      /\ \A b : One(b) \in {0, 1}
  BY MultIs, ChunkMultIs DEF One
<1>2. \A j, n : JobCount(j, n) \in Nat
  <2> TAKE j, n
  <2> DEFINE here == j.step \in {"eval", "descend"} /\ j.at = n
  <2>1. JobCount(j, n) = Mult(j.stack, n) + Mult(j.items, n) + Mult(j.local, n) + Mult(j.buffer, n)
          + ChunkMult(j.spilled, n) + ChunkMult(j.outbox, n) + One(here)
    BY DEF JobCount
  <2> HIDE DEF here
  <2> QED
    BY <1>1, <2>1
<1>3. \A q, i, n, c : Has(q, i, n, c) => c \in Nat
  BY <1>1, <1>2 DEF Has
<1> QED
  BY <1>1, <1>2, <1>3

(* The accumulator takes a child once. *)
LEMMA AccumulateCounts ==
  ASSUME NEW R, NEW j \in JobOver(R), NEW child \in R, NEW maySplit, NEW n
  PROVE  LET k == Accumulate(j, child, maySplit) IN
         Mult(k.local, n) + Mult(k.buffer, n) + ChunkMult(k.spilled, n) <=
           Mult(j.local, n) + Mult(j.buffer, n) + ChunkMult(j.spilled, n) + One(child = n)
<1>0. j.local \in Seq(R) /\ j.buffer \in Seq(R) /\ j.spilled \in Seq(Chunk(R))
  BY DEF JobOver
<1> DEFINE full == Append(j.buffer, child)
<1>1. full \in Chunk(R)
  BY <1>0, AppendProperties DEF Chunk
<1>2. /\ Mult(Append(j.local, child), n) <= Mult(j.local, n) + One(child = n)
      /\ Mult(full, n) <= Mult(j.buffer, n) + One(child = n)
      /\ ChunkMult(Append(j.spilled, full), n) <= ChunkMult(j.spilled, n) + Mult(full, n)
  BY <1>0, <1>1, MultAppend, ChunkMultAppend
<1>3. /\ \A s : Mult(s, n) \in {0, 1, 2} /\ ChunkMult(s, n) \in {0, 1, 2}
      /\ One(child = n) \in {0, 1} /\ Mult(<<>>, n) = 0
  BY CountIs, MultEmpty
<1> HIDE DEF full
<1>4. CASE ~maySplit \/ Len(j.local) < SplitThreshold
  <2> DEFINE k == [j EXCEPT !.local = Append(j.local, child)]
  <2>1. Accumulate(j, child, maySplit) = k
    BY <1>4 DEF Accumulate
  <2>2. k.local = Append(j.local, child) /\ k.buffer = j.buffer /\ k.spilled = j.spilled
    BY DEF JobOver
  <2> HIDE DEF k
  <2> QED
    BY <1>2, <1>3, <2>1, <2>2
<1>5. CASE ~(~maySplit \/ Len(j.local) < SplitThreshold) /\ Len(full) >= ChunkSize
  <2> DEFINE k == [j EXCEPT !.buffer = <<>>, !.spilled = Append(j.spilled, full)]
  <2>1. Accumulate(j, child, maySplit) = k
    BY <1>5 DEF Accumulate, full
  <2>2. k.local = j.local /\ k.buffer = <<>> /\ k.spilled = Append(j.spilled, full)
    BY DEF JobOver
  <2> HIDE DEF k
  <2> QED
    BY <1>2, <1>3, <2>1, <2>2
<1>6. CASE ~(~maySplit \/ Len(j.local) < SplitThreshold) /\ ~(Len(full) >= ChunkSize)
  <2> DEFINE k == [j EXCEPT !.buffer = full]
  <2>1. Accumulate(j, child, maySplit) = k
    BY <1>6 DEF Accumulate, full
  <2>2. k.local = j.local /\ k.buffer = full /\ k.spilled = j.spilled
    BY DEF JobOver
  <2> HIDE DEF k
  <2> QED
    BY <1>2, <1>3, <2>1, <2>2
<1> QED
  BY <1>4, <1>5, <1>6

LEMMA ChildCounted ==
  ASSUME EngineInv, NEW w \in Worker, ListChild(w), NEW n
  PROVE  Mult(job'[w].local, n) + Mult(job'[w].buffer, n) + ChunkMult(job'[w].spilled, n) <=
           Mult(job[w].local, n) + Mult(job[w].buffer, n) + ChunkMult(job[w].spilled, n)
             + One(Head(job[w].items) = n)
<1> DEFINE j0 == job[w]
           popped == [j0 EXCEPT !.items = Tail(@)]
           k == Accumulate(popped, Head(j0.items), accept)
<1>0. job \in [Worker -> JobOver(Node)] /\ j0 \in JobOver(Node)
  BY DEF EngineInv, JobsFit
<1>1. j0.items \in Seq(Node \cup {BadItem}) /\ j0.items # <<>> /\ Head(j0.items) # BadItem
  BY <1>0 DEF ListChild, JobOver
<1>2. Tail(j0.items) \in Seq(Node \cup {BadItem}) /\ Head(j0.items) \in Node
  BY <1>1, HeadTailProperties
<1>3. popped \in JobOver(Node)
  BY <1>0, <1>2 DEF JobOver
<1>4. popped.local = j0.local /\ popped.buffer = j0.buffer /\ popped.spilled = j0.spilled
  BY <1>0 DEF JobOver
<1> HIDE DEF popped
<1>5. k \in JobOver(Node)
  BY <1>2, <1>3, AccumulateFits
<1>6. Mult(k.local, n) + Mult(k.buffer, n) + ChunkMult(k.spilled, n) <=
        Mult(popped.local, n) + Mult(popped.buffer, n) + ChunkMult(popped.spilled, n)
          + One(Head(j0.items) = n)
  BY <1>2, <1>3, AccumulateCounts
<1> HIDE DEF k
<1>7. job' = [job EXCEPT ![w] = [k EXCEPT !.step = IF k.spilled = <<>> THEN "list" ELSE "spill"]]
  BY DEF ListChild, Update, k, popped
<1>8. job'[w].local = k.local /\ job'[w].buffer = k.buffer /\ job'[w].spilled = k.spilled
  BY <1>0, <1>5, <1>7 DEF JobOver
<1> QED
  BY <1>4, <1>6, <1>8

(* What each step of a body does to its count of a node. *)
LEMMA CountsChange ==
  ASSUME EngineInv, \A u \in Worker : Tidy(u), NEW w \in Worker, TaskStep(w), ~quit,
         NEW n, JobCount(job[w], n) <= 1
  PROVE  /\ StartBatch(w) => JobCount(job'[w], n) = Mult(task[w], n)
         /\ OpenDirectory(w) =>
              JobCount(job'[w], n) <=
                JobCount(job[w], n) + Mult(Items[job[w].at], n) - One(job[w].at = n)
         /\ PublishChunk(w) =>
              JobCount(job'[w], n) + Mult(Head(job[w].outbox), n) <= JobCount(job[w], n)
         /\ DoNotDescend(w) =>
              JobCount(job'[w], n) <= JobCount(job[w], n) - One(job[w].at = n)
         /\ ~StartBatch(w) /\ ~OpenDirectory(w) => JobCount(job'[w], n) <= JobCount(job[w], n)
<1> DEFINE j == job[w]
           k == job'[w]
           hereJ == j.step \in {"eval", "descend"} /\ j.at = n
           hereK == k.step \in {"eval", "descend"} /\ k.at = n
<1>0. /\ j \in JobOver(Node) /\ AtNode(j, Node) /\ Tidy(w)
      /\ JobAfter(w, j, k) /\ (ListChild(w) => ChildAfter(j, k))
  BY JobChanges DEF EngineInv, JobsFit
<1>a. /\ j.stack \in Seq(Node) /\ j.items \in Seq(Node \cup {BadItem})
      /\ j.local \in Seq(Node) /\ j.buffer \in Seq(Node)
      /\ j.spilled \in Seq(Seq(Node)) /\ j.outbox \in Seq(Seq(Node))
  <2>1. Seq(Chunk(Node)) \subseteq Seq(Seq(Node))
    BY SeqMonotonic DEF Chunk
  <2> QED
    BY <1>0, <2>1 DEF JobOver
<1> HIDE DEF j, k
<1>b. /\ JobCount(j, n) = Mult(j.stack, n) + Mult(j.items, n) + Mult(j.local, n) + Mult(j.buffer, n)
                            + ChunkMult(j.spilled, n) + ChunkMult(j.outbox, n) + One(hereJ)
      /\ JobCount(k, n) = Mult(k.stack, n) + Mult(k.items, n) + Mult(k.local, n) + Mult(k.buffer, n)
                            + ChunkMult(k.spilled, n) + ChunkMult(k.outbox, n) + One(hereK)
  BY DEF JobCount
<1>c. /\ \A s : Mult(s, n) \in {0, 1, 2} /\ ChunkMult(s, n) \in {0, 1, 2}
      /\ \A b : One(b) \in {0, 1}
      /\ Mult(<<>>, n) = 0 /\ ChunkMult(<<>>, n) = 0
  BY CountIs, MultEmpty
<1>d. JobCount(j, n) <= 1
  BY DEF j
<1>e. /\ hereJ => One(hereJ) = 1
      /\ hereK => One(hereK) = 1
      /\ ~hereJ => One(hereJ) = 0
      /\ ~hereK => One(hereK) = 0
  BY DEF One
<1>f. PICK a1 \in Nat, a2 \in Nat, a3 \in Nat, a4 \in Nat, a5 \in Nat, a6 \in Nat, a7 \in Nat :
        /\ a1 = Mult(j.stack, n) /\ a2 = Mult(j.items, n) /\ a3 = Mult(j.local, n)
        /\ a4 = Mult(j.buffer, n) /\ a5 = ChunkMult(j.spilled, n)
        /\ a6 = ChunkMult(j.outbox, n) /\ a7 = One(hereJ)
        /\ JobCount(j, n) = a1 + a2 + a3 + a4 + a5 + a6 + a7
  <2> HIDE DEF hereJ
  <2>1. \A s : Mult(s, n) \in Nat /\ ChunkMult(s, n) \in Nat
    BY <1>c
  <2>2. One(hereJ) \in Nat
    BY <1>c
  <2> QED
    BY ZenonT(120), <1>b, <2>1, <2>2
<1>g. PICK b1 \in Nat, b2 \in Nat, b3 \in Nat, b4 \in Nat, b5 \in Nat, b6 \in Nat, b7 \in Nat :
        /\ b1 = Mult(k.stack, n) /\ b2 = Mult(k.items, n) /\ b3 = Mult(k.local, n)
        /\ b4 = Mult(k.buffer, n) /\ b5 = ChunkMult(k.spilled, n)
        /\ b6 = ChunkMult(k.outbox, n) /\ b7 = One(hereK)
        /\ JobCount(k, n) = b1 + b2 + b3 + b4 + b5 + b6 + b7
  <2> HIDE DEF hereK
  <2>1. \A s : Mult(s, n) \in Nat /\ ChunkMult(s, n) \in Nat
    BY <1>c
  <2>2. One(hereK) \in Nat
    BY <1>c
  <2> QED
    BY ZenonT(120), <1>b, <2>1, <2>2
<1>h. Mult(<<>>, n) = 0 /\ ChunkMult(<<>>, n) = 0
  BY <1>c
<1>1. CASE EndBatch(w) \/ LeaveAfterQuit(w) \/ EvalFails(w) \/ OpenFails(w)
  <2>1. /\ k.stack = <<>> /\ NoLists(k) /\ k.outbox = <<>> /\ ~hereK
        /\ ~StartBatch(w) /\ ~OpenDirectory(w) /\ ~PublishChunk(w) /\ ~DoNotDescend(w)
    <3>1. k = NoJob
      BY <1>0, <1>1 DEF JobAfter
    <3>2. /\ StartBatch(w) => k.step = "next"
          /\ OpenDirectory(w) => k.step = "list"
          /\ PublishChunk(w) => k.step = "publish"
          /\ DoNotDescend(w) => k.step = "next"
      BY <1>0 DEF JobAfter
    <3> QED
      BY <3>1, <3>2 DEF NoJob, NoLists
  <2>2. b1 = 0 /\ b2 = 0 /\ b3 = 0 /\ b4 = 0 /\ b5 = 0 /\ b6 = 0 /\ b7 = 0
    BY <1>g, <1>h, <1>e, <2>1 DEF NoLists
  <2>3. JobCount(k, n) <= JobCount(j, n)
    BY <1>f, <1>g, <2>2
  <2> QED
    BY <2>1, <2>3 DEF j, k
<1>2. CASE StartBatch(w)
  <2>1. /\ k.stack = task[w] /\ NoLists(k) /\ k.outbox = <<>> /\ k.step = "next" /\ j.step = "idle"
    BY <1>0, <1>2 DEF JobAfter, StartBatch, At, j
  <2>2. ~hereK /\ ~PublishChunk(w) /\ ~DoNotDescend(w) /\ ~OpenDirectory(w)
    BY <2>1 DEF PublishChunk, DoNotDescend, OpenDirectory, At, j
  <2> HIDE DEF hereK
  <2> QED
    BY <1>2, <1>b, <1>c, <1>e, <2>1, <2>2 DEF NoLists, j, k
<1>3. CASE LoadNext(w)
  <2>1. /\ k.stack = Tail(j.stack) /\ SameLists(j, k) /\ k.outbox = j.outbox
        /\ hereK => n = Head(j.stack)
        /\ j.step = "next" /\ j.stack # <<>>
    BY <1>0, <1>3 DEF JobAfter, LoadNext, At, j
  <2>2. ~StartBatch(w) /\ ~PublishChunk(w) /\ ~DoNotDescend(w) /\ ~OpenDirectory(w) /\ ~hereJ
    BY <2>1 DEF StartBatch, PublishChunk, DoNotDescend, OpenDirectory, At, j
  <2> HIDE DEF hereK, hereJ
  <2>3. Mult(j.stack, n) <= 1
    BY <1>d, <1>f
  <2>4. Mult(k.stack, n) + One(Head(j.stack) = n) <= Mult(j.stack, n)
    BY <1>a, <2>1, <2>3, MultTail
  <2>5. One(hereK) <= One(Head(j.stack) = n)
    BY <2>1 DEF One
  <2>6. PICK h \in Nat : h = One(Head(j.stack) = n)
    BY <1>c
  <2>7. b2 = a2 /\ b3 = a3 /\ b4 = a4 /\ b5 = a5 /\ b6 = a6
    BY <1>f, <1>g, <2>1 DEF SameLists
  <2>8. b1 + h <= a1 /\ b7 <= h
    BY <1>f, <1>g, <2>4, <2>5, <2>6
  <2>9. JobCount(k, n) <= JobCount(j, n)
    BY <1>f, <1>g, <2>7, <2>8
  <2> QED
    BY <2>2, <2>9 DEF j, k
<1>4. CASE EvalOk(w) \/ EvalQuits(w)
  <2>1. /\ k.stack = j.stack /\ SameLists(j, k) /\ k.outbox = j.outbox /\ k.at = j.at
        /\ j.step = "eval"
    BY <1>0, <1>4 DEF JobAfter, EvalOk, EvalQuits, At, j
  <2>2. ~StartBatch(w) /\ ~PublishChunk(w) /\ ~DoNotDescend(w) /\ ~OpenDirectory(w)
    BY <2>1 DEF StartBatch, PublishChunk, DoNotDescend, OpenDirectory, At, j
  <2>3. hereK => hereJ
    BY <2>1
  <2> HIDE DEF hereK, hereJ
  <2>4. b1 = a1 /\ b2 = a2 /\ b3 = a3 /\ b4 = a4 /\ b5 = a5 /\ b6 = a6
    BY <1>f, <1>g, <2>1 DEF SameLists
  <2>5. b7 <= a7
    BY <1>f, <1>g, <1>e, <2>3
  <2>6. JobCount(k, n) <= JobCount(j, n)
    BY <1>f, <1>g, <2>4, <2>5
  <2> QED
    BY <2>2, <2>6 DEF j, k
<1>5. CASE DoNotDescend(w)
  <2>1. /\ k.stack = j.stack /\ SameLists(j, k) /\ k.outbox = j.outbox /\ k.step = "next"
        /\ j.step = "descend"
    BY <1>0, <1>5 DEF JobAfter, DoNotDescend, At, j
  <2>2. ~StartBatch(w) /\ ~PublishChunk(w) /\ ~hereK /\ (hereJ <=> j.at = n)
    BY <2>1 DEF StartBatch, PublishChunk, At, j
  <2>3. One(hereJ) = One(j.at = n)
    BY <2>2 DEF One
  <2>4. OpenDirectory(w) => k.step = "list"
    BY <1>0 DEF JobAfter
  <2> HIDE DEF hereK, hereJ
  <2>5. b1 = a1 /\ b2 = a2 /\ b3 = a3 /\ b4 = a4 /\ b5 = a5 /\ b6 = a6 /\ b7 = 0
    BY <1>f, <1>g, <1>e, <2>1, <2>2 DEF SameLists
  <2>6. JobCount(k, n) = JobCount(j, n) - a7 /\ JobCount(k, n) <= JobCount(j, n)
    BY <1>f, <1>g, <2>5
  <2>7. JobCount(k, n) = JobCount(j, n) - One(j.at = n)
    BY <1>f, <2>3, <2>6
  <2>8. JobCount(k, n) <= JobCount(j, n) - One(j.at = n)
    BY <1>g, <2>7
  <2>9. ~OpenDirectory(w)
    BY <2>1, <2>4
  <2> QED
    BY <2>2, <2>6, <2>8, <2>9 DEF j, k
<1>6. CASE OpenDirectory(w)
  <2>1. /\ k.stack = j.stack /\ k.local = j.local /\ k.buffer = j.buffer /\ k.spilled = j.spilled
        /\ k.outbox = j.outbox /\ k.items = Items[j.at] /\ k.step = "list"
        /\ j.step = "descend"
    BY <1>0, <1>6 DEF JobAfter, OpenDirectory, At, j
  <2>2. ~StartBatch(w) /\ ~PublishChunk(w) /\ ~hereK /\ (hereJ <=> j.at = n) /\ ~DoNotDescend(w)
    BY <1>6, <2>1 DEF StartBatch, PublishChunk, DoNotDescend, OpenDirectory, At, j
  <2>3. One(hereJ) = One(j.at = n)
    BY <2>2 DEF One
  <2> HIDE DEF hereK, hereJ
  <2>4. b1 = a1 /\ b3 = a3 /\ b4 = a4 /\ b5 = a5 /\ b6 = a6 /\ b7 = 0
    BY <1>f, <1>g, <1>e, <2>1, <2>2
  <2>5. b2 = Mult(Items[j.at], n) /\ a7 = One(j.at = n)
    BY <1>f, <1>g, <2>1, <2>3
  <2>6. JobCount(k, n) <= JobCount(j, n) + b2 - a7
    BY <1>f, <1>g, <2>4
  <2>7. JobCount(k, n) <= JobCount(j, n) + Mult(Items[j.at], n) - One(j.at = n)
    BY <2>5, <2>6
  <2> QED
    BY <1>6, <2>2, <2>7 DEF j, k
<1>7. CASE ListBadItem(w) \/ ListChild(w)
  <2>1. /\ k.stack = j.stack /\ k.outbox = j.outbox /\ k.items = Tail(j.items)
        /\ j.step = "list" /\ k.step \in {"list", "spill"} /\ j.items # <<>>
    BY <1>0, <1>7 DEF JobAfter, ChildAfter, ListBadItem, ListChild, At, j
  <2>2. /\ ~StartBatch(w) /\ ~PublishChunk(w) /\ ~hereK /\ ~hereJ /\ ~DoNotDescend(w)
        /\ ~OpenDirectory(w)
    BY <2>1 DEF StartBatch, PublishChunk, DoNotDescend, OpenDirectory, At, j
  <2> HIDE DEF hereK, hereJ
  <2>3. Mult(j.items, n) <= 1
    BY <1>d, <1>f
  <2>4. Mult(k.items, n) + One(Head(j.items) = n) <= Mult(j.items, n)
    BY <1>a, <2>1, <2>3, MultTail
  <2>5. Mult(k.local, n) + Mult(k.buffer, n) + ChunkMult(k.spilled, n) <=
          Mult(j.local, n) + Mult(j.buffer, n) + ChunkMult(j.spilled, n) + One(Head(j.items) = n)
    <3>1. CASE ListChild(w)
      BY <3>1, ChildCounted DEF j, k
    <3>2. CASE ListBadItem(w)
      <4>1. k.local = j.local /\ k.buffer = j.buffer /\ k.spilled = j.spilled
        BY <1>0, <3>2 DEF JobAfter
      <4> QED
        BY <1>c, <4>1
    <3> QED
      BY <1>7, <3>1, <3>2
  <2>6. PICK h \in Nat : h = One(Head(j.items) = n)
    BY <1>c
  <2>7. b1 = a1 /\ b6 = a6 /\ b7 = 0
    BY <1>f, <1>g, <1>e, <2>1, <2>2
  <2>8. b2 + h <= a2 /\ b3 + b4 + b5 <= a3 + a4 + a5 + h
    BY <1>f, <1>g, <2>4, <2>5, <2>6
  <2>9. JobCount(k, n) <= JobCount(j, n)
    BY <1>f, <1>g, <2>6, <2>7, <2>8
  <2> QED
    BY <2>2, <2>9 DEF j, k
<1>8. CASE SpillNow(w)
  <2>1. /\ k.items = j.items /\ k.local = j.local /\ k.buffer = j.buffer /\ k.stack = j.stack
        /\ \/ k.outbox = j.spilled /\ k.spilled = <<>>
           \/ k.outbox = j.outbox /\ k.spilled = j.spilled
        /\ k.step \in {"publish", "list"}
        /\ j.step = "spill"
    BY <1>0, <1>8 DEF JobAfter, SpillNow, At, j
  <2>2. /\ ~StartBatch(w) /\ ~PublishChunk(w) /\ ~hereK /\ ~hereJ /\ ~DoNotDescend(w)
        /\ ~OpenDirectory(w)
    BY <2>1 DEF StartBatch, PublishChunk, DoNotDescend, OpenDirectory, At, j
  <2> HIDE DEF hereK, hereJ
  <2>3. b1 = a1 /\ b2 = a2 /\ b3 = a3 /\ b4 = a4 /\ b7 = 0
    BY ZenonT(120), <1>f, <1>g, <1>e, <2>1, <2>2
  <2>4. (b6 = a5 /\ b5 = 0) \/ (b6 = a6 /\ b5 = a5)
    <3>1. CASE k.outbox = j.spilled /\ k.spilled = <<>>
      <4>1. b6 = a5 /\ b5 = 0
        BY ZenonT(120), <1>f, <1>g, <1>h, <3>1
      <4> QED
        BY <4>1
    <3>2. CASE k.outbox = j.outbox /\ k.spilled = j.spilled
      <4>1. b6 = a6 /\ b5 = a5
        BY ZenonT(120), <1>f, <1>g, <3>2
      <4> QED
        BY <4>1
    <3> QED
      BY <2>1, <3>1, <3>2
  <2>5. JobCount(k, n) <= JobCount(j, n)
    BY <1>f, <1>g, <2>3, <2>4
  <2> QED
    BY <2>2, <2>5 DEF j, k
<1>9. CASE EndListing(w)
  <2>1. ObserveQuit(j) = j
    BY DEF ObserveQuit
  <2>2. /\ k.step = "publish" /\ NoLists(k) /\ k.stack = j.local \o j.stack
        /\ k.outbox = FinishChunks(j) /\ j.step = "list"
    BY <1>0, <1>9, <2>1 DEF JobAfter, EndListing, At, j
  <2>3. /\ ~StartBatch(w) /\ ~PublishChunk(w) /\ ~hereK /\ ~hereJ /\ ~DoNotDescend(w)
        /\ ~OpenDirectory(w)
    BY <2>2 DEF StartBatch, PublishChunk, DoNotDescend, OpenDirectory, At, j
  <2>4. Mult(k.stack, n) <= Mult(j.local, n) + Mult(j.stack, n)
    BY <1>a, <2>2, MultConcat
  <2>5. ChunkMult(k.outbox, n) <= ChunkMult(j.spilled, n) + Mult(j.buffer, n)
    <3>1. ChunkMult(Append(j.spilled, j.buffer), n) <= ChunkMult(j.spilled, n) + Mult(j.buffer, n)
      BY <1>a, ChunkMultAppend
    <3>2. k.outbox = j.spilled \/ k.outbox = Append(j.spilled, j.buffer)
      BY <2>2 DEF FinishChunks
    <3>3. ChunkMult(j.spilled, n) \in {0, 1, 2} /\ Mult(j.buffer, n) \in {0, 1, 2}
      BY <1>c
    <3>4. ChunkMult(j.spilled, n) <= ChunkMult(j.spilled, n) + Mult(j.buffer, n)
      BY <3>3
    <3> QED
      BY <3>1, <3>2, <3>4
  <2> HIDE DEF hereK, hereJ
  <2>6. b2 = 0 /\ b3 = 0 /\ b4 = 0 /\ b5 = 0 /\ b7 = 0
    BY <1>g, <1>h, <1>e, <2>2, <2>3 DEF NoLists
  <2>7. b1 <= a3 + a1 /\ b6 <= a5 + a4
    BY <1>f, <1>g, <2>4, <2>5
  <2>8. JobCount(k, n) <= JobCount(j, n)
    BY <1>f, <1>g, <2>6, <2>7
  <2> QED
    BY <2>3, <2>8 DEF j, k
<1>10. CASE PublishChunk(w)
  <2>1. /\ k.outbox = Tail(j.outbox) /\ k.stack = j.stack /\ SameLists(j, k) /\ k.step = "publish"
        /\ j.step = "publish" /\ j.outbox # <<>>
    BY <1>0, <1>10 DEF JobAfter, PublishChunk, At, j
  <2>2. ~StartBatch(w) /\ ~DoNotDescend(w) /\ ~OpenDirectory(w) /\ ~hereK /\ ~hereJ
    BY <2>1 DEF StartBatch, DoNotDescend, OpenDirectory, At, j
  <2> HIDE DEF hereK, hereJ
  <2>3. ChunkMult(j.outbox, n) <= 1
    BY <1>d, <1>f
  <2>4. ChunkMult(k.outbox, n) + Mult(Head(j.outbox), n) <= ChunkMult(j.outbox, n)
    BY <1>a, <2>1, <2>3, ChunkMultTail
  <2>5. PICK h \in Nat : h = Mult(Head(j.outbox), n)
    BY <1>c
  <2>6. b1 = a1 /\ b2 = a2 /\ b3 = a3 /\ b4 = a4 /\ b5 = a5 /\ b7 = 0
    BY <1>f, <1>g, <1>e, <2>1, <2>2 DEF SameLists
  <2>7. b6 + h <= a6
    BY <1>f, <1>g, <2>4, <2>5
  <2>8. JobCount(k, n) + h <= JobCount(j, n)
    BY <1>f, <1>g, <2>5, <2>6, <2>7
  <2>9. JobCount(k, n) + Mult(Head(j.outbox), n) <= JobCount(j, n)
    BY <2>5, <2>8
  <2> QED
    BY <1>c, <2>2, <2>9, CountIs DEF j, k
<1>11. CASE PublishDone(w)
  <2>1. /\ k.stack = j.stack /\ SameLists(j, k) /\ k.outbox = <<>> /\ k.step = j.then
        /\ j.step = "publish" /\ j.outbox = <<>> /\ j.then \in {"list", "next"}
    BY <1>0, <1>11 DEF JobAfter, PublishDone, At, j, AtNode
  <2>2. ~StartBatch(w) /\ ~DoNotDescend(w) /\ ~OpenDirectory(w) /\ ~hereK /\ ~hereJ /\ ~PublishChunk(w)
    BY <2>1 DEF StartBatch, DoNotDescend, OpenDirectory, PublishChunk, At, j
  <2> HIDE DEF hereK, hereJ
  <2>3. b1 = a1 /\ b2 = a2 /\ b3 = a3 /\ b4 = a4 /\ b5 = a5 /\ b6 = 0 /\ b7 = 0
    BY <1>f, <1>g, <1>h, <1>e, <2>1, <2>2 DEF SameLists
  <2>4. JobCount(k, n) <= JobCount(j, n)
    BY <1>f, <1>g, <2>3
  <2> QED
    BY <2>2, <2>4 DEF j, k
<1> QED
  BY <1>1, <1>2, <1>3, <1>4, <1>5, <1>6, <1>7, <1>8, <1>9, <1>10, <1>11 DEF TaskStep

(* A worker's body, and its tasks, are at different places. *)
LEMMA TaskPlaces ==
  ASSUME S!TypeOK, NEW t, NEW q, NEW i, SP!TaskAt(t, q, i)
  PROVE  i # -2 /\ (i \in {-1, 0} => q \in Worker)
<1>1. /\ Len(injector) \in Nat
      /\ \A u \in Worker : Len(deque[u]) \in Nat
  BY DEF S!TypeOK, Worker
<1>2. SP!Worker = Worker
  BY DEF SP!Worker, S!Worker, Worker
<1> QED
  BY <1>1, <1>2 DEF SP!TaskAt, SP!InHand, SP!Publishing

(* Two places after a step of the loop are two places before it. *)
LEMMA LoopOrigins ==
  ASSUME EngineInv, StopsAreKnown, \A u \in Worker : Tidy(u), NEW w \in Worker, LoopStep(w), ~quit,
         NEW n, NEW q1, NEW i1, NEW c1, NEW q2, NEW i2, NEW c2,
         Has(q1, i1, n, c1)', Has(q2, i2, n, c2)'
  PROVE  \E p1, k1, p2, k2 : /\ Has(p1, k1, n, c1) /\ Has(p2, k2, n, c2)
                             /\ p1 = p2 /\ k1 = k2 => q1 = q2 /\ i1 = i2
<1>0. /\ pc \in [Worker -> S!Location] /\ S!TypeOK
      /\ SP!Worker = Worker /\ SP!TypeOK /\ SP!WorkerLoop(w)
  BY EngineQueuesFit, SameLoop DEF S!TypeOK, Worker, S!Worker, SP!Worker, EngineInv, SP!SchedInv, LoopStep
<1>a. S!TypeOK'
  <2>1. SP!TypeOK'
    BY EngineStep DEF EngineInv, SP!SchedInv, Next
  <2> QED
    BY <2>1 DEF S!TypeOK, SP!TypeOK, S!Worker, SP!Worker, S!Location, SP!Location
<1>1. job' = job
  BY EngineLoopMoves
<1>2. ASSUME NEW t, NEW q, NEW i, NEW r, NEW j, WaitsAt(t, r, j)', SP!TaskAt(t, q, i),
             i = 0 => q = r /\ j = 0
      PROVE  Has(q, i, n, Mult(t, n)) /\ i # -2
  <2>1. ASSUME i = 0 PROVE pc[q] = "got" \/ At(q, "idle")
    <3>1. q = r /\ j = 0 /\ q \in Worker /\ (pc'[q] = "got" \/ At(q, "idle")')
      BY <1>0, <1>2, <2>1, TaskPlaces DEF WaitsAt
    <3>2. PICK b \in S!Location : pc' = [pc EXCEPT ![w] = b] /\ SP!LoopMove(w, pc[w], b)
      BY EngineLoopMoves
    <3>3. CASE q # w
      <4>1. pc'[q] = pc[q]
        BY <1>0, <3>1, <3>2, <3>3
      <4> QED
        BY <1>1, <3>1, <4>1 DEF At
    <3>4. CASE q = w
      <4>1. pc'[w] = b /\ b \in {"got", "run"}
        BY <1>0, <3>1, <3>2, <3>4 DEF At
      <4>2. pc[w] \in {"got", "run", "count", "push", "quit", "finish"}
        BY <1>0, <1>2, <2>1, <3>4 DEF SP!TaskAt, SP!InHand, SP!Publishing, Worker, S!Worker
      <4>3. CASE b = "got"
        BY <3>2, <3>4, <4>2, <4>3 DEF SP!LoopMove, SP!Searching
      <4>4. CASE b = "run"
        <5>1. job[w].step = "idle"
          BY <1>1, <3>1, <3>4, <4>1, <4>4 DEF At
        <5>2. pc[w] \notin {"push", "quit"}
          BY <5>1 DEF Tidy, StopsAreKnown
        <5>3. pc[w] \in {"got", "run"}
          BY <3>2, <4>2, <4>4, <5>2 DEF SP!LoopMove, SP!Searching
        <5> QED
          BY <3>4, <5>1, <5>3 DEF At
      <4> QED
        BY <4>1, <4>3, <4>4
    <3> QED
      BY <3>3, <3>4
  <2> QED
    BY <1>0, <1>2, <2>1, TaskPlaces DEF Has, WaitsAt
<1>3. ASSUME NEW t1, WaitsAt(t1, q1, i1)', c1 = Mult(t1, n),
             NEW t2, WaitsAt(t2, q2, i2)', c2 = Mult(t2, n)
      PROVE  \E p1, k1, p2, k2 : /\ Has(p1, k1, n, c1) /\ Has(p2, k2, n, c2)
                                 /\ p1 = p2 /\ k1 = k2 => q1 = q2 /\ i1 = i2
  <2>1. PICK p1, k1, p2, k2 :
           /\ SP!TaskAt(t1, p1, k1) /\ (k1 = 0 => p1 = q1 /\ i1 = 0)
           /\ SP!TaskAt(t2, p2, k2) /\ (k2 = 0 => p2 = q2 /\ i2 = 0)
           /\ p1 = p2 /\ k1 = k2 => q1 = q2 /\ i1 = i2
    <3>1. SP!TaskAt(t1, q1, i1)' /\ SP!TaskAt(t2, q2, i2)'
      BY <1>3 DEF WaitsAt
    <3> QED
      BY <1>0, <3>1, SP!TasksComeFrom, RootsAreTasks
  <2> QED
    BY <1>2, <1>3, <2>1
<1>4. ASSUME NEW t, NEW r, NEW j, WaitsAt(t, r, j)'
      PROVE  \E p, k : Has(p, k, n, Mult(t, n)) /\ k # -2 /\ j # -2
  <2>1. SP!TaskAt(t, r, j)'
    BY <1>4 DEF WaitsAt
  <2>2. PICK p, k : SP!TaskAt(t, p, k) /\ (k = 0 => p = r /\ j = 0)
    BY <1>0, <2>1, SP!TasksComeFrom, RootsAreTasks
  <2>3. j # -2
    <3>1. SP!TaskAt(t, r, j)' => j # -2
      <4>1. /\ Len(injector') \in Nat
            /\ \A u \in Worker : Len(deque'[u]) \in Nat
        BY <1>a DEF S!TypeOK, Worker
      <4> QED
        BY <1>0, <4>1 DEF SP!TaskAt
    <3> QED
      BY <2>1, <3>1
  <2> QED
    BY <1>2, <1>4, <2>2, <2>3
<1>5. ASSUME NEW q, NEW i, NEW c, Has(q, i, n, c)', ~(\E t : WaitsAt(t, q, i)' /\ c = Mult(t, n))
      PROVE  Has(q, i, n, c) /\ i = -2
  BY <1>1, <1>5 DEF Has
<1>6. CASE (\E t : WaitsAt(t, q1, i1)' /\ c1 = Mult(t, n)) /\ (\E t : WaitsAt(t, q2, i2)' /\ c2 = Mult(t, n))
  BY <1>3, <1>6
<1>7. CASE (\E t : WaitsAt(t, q1, i1)' /\ c1 = Mult(t, n)) /\ ~(\E t : WaitsAt(t, q2, i2)' /\ c2 = Mult(t, n))
  BY <1>4, <1>5, <1>7
<1>8. CASE ~(\E t : WaitsAt(t, q1, i1)' /\ c1 = Mult(t, n)) /\ (\E t : WaitsAt(t, q2, i2)' /\ c2 = Mult(t, n))
  BY <1>4, <1>5, <1>8
<1>9. CASE ~(\E t : WaitsAt(t, q1, i1)' /\ c1 = Mult(t, n)) /\ ~(\E t : WaitsAt(t, q2, i2)' /\ c2 = Mult(t, n))
  BY <1>5, <1>9
<1> QED
  BY <1>6, <1>7, <1>8, <1>9

(* What is at a place after a step of a body was there before, or comes from *)
(* the body.                                                                 *)
LEMMA TaskOrigins ==
  ASSUME EngineInv, NEW w \in Worker, TaskStep(w), NEW n, NEW q, NEW i, NEW c, Has(q, i, n, c)'
  PROVE  \/ q = w /\ i = -2 /\ c = JobCount(job'[w], n)
         \/ q = w /\ i = -1 /\ PublishChunk(w) /\ c = Mult(Head(job[w].outbox), n)
         \/ Has(q, i, n, c) /\ ~(q = w /\ i \in {-2, -1, 0})
<1>0. /\ pub \in [Worker -> (Seq(Node) \ {<<>>}) \cup {<<>>}] /\ S!TypeOK
      /\ SP!Worker = Worker
  BY EngineQueuesFit DEF S!TypeOK, Worker, S!Worker, SP!Worker
<1>1. /\ pc[w] = "run" /\ \A u \in Worker \ {w} : pc'[u] = pc[u] /\ pub'[u] = pub[u] /\ job'[u] = job[u]
      /\ UNCHANGED <<injector, deque, task>>
      /\ pc'[w] \in {"run", "count", "quit", "finish"}
      /\ pc'[w] = "count" => PublishChunk(w) /\ pub'[w] = Head(job[w].outbox)
  BY <1>0, TaskMoves, JobChanges
<1>2. ~At(w, "idle")'
  <2>1. JobAfter(w, job[w], job'[w]) /\ (ListChild(w) => ChildAfter(job[w], job'[w]))
    BY JobChanges
  <2>2. job[w].step = "publish" => job[w].then # "idle"
    BY DEF EngineInv, JobsFit, AtNode
  <2>3. EndBatch(w) \/ LeaveAfterQuit(w) \/ EvalFails(w) \/ OpenFails(w) \/ job'[w].step # "idle"
    BY <2>1, <2>2 DEF TaskStep, JobAfter, ChildAfter, PublishDone, At
  <2>4. EndBatch(w) \/ LeaveAfterQuit(w) \/ EvalFails(w) \/ OpenFails(w) => pc'[w] = "finish"
    BY <1>0 DEF EndBatch, LeaveAfterQuit, EvalFails, OpenFails, S!TaskReturns, S!Goto, S!TypeOK, Worker
  <2> QED
    BY <2>3, <2>4 DEF At
<1>3. ASSUME q \in Worker, i = -2, c = JobCount(job[q], n)'
      PROVE  \/ q = w /\ i = -2 /\ c = JobCount(job'[w], n)
             \/ Has(q, i, n, c) /\ ~(q = w /\ i \in {-2, -1, 0})
  BY <1>1, <1>3 DEF Has
<1>4. ASSUME NEW t, WaitsAt(t, q, i)', c = Mult(t, n)
      PROVE  \/ q = w /\ i = -1 /\ PublishChunk(w) /\ c = Mult(Head(job[w].outbox), n)
             \/ Has(q, i, n, c) /\ ~(q = w /\ i \in {-2, -1, 0})
  <2>1. SP!TaskAt(t, q, i)' /\ (i = 0 => pc'[q] = "got" \/ At(q, "idle")')
    BY <1>4 DEF WaitsAt
  <2>2. CASE q = 0 /\ i \in 1..Len(injector) /\ t = injector[i]
    <3>1. WaitsAt(t, q, i) /\ i # 0 /\ i # -1 /\ i # -2
      BY <1>0, <2>2 DEF WaitsAt, SP!TaskAt, S!TypeOK
    <3> QED
      BY <1>4, <3>1 DEF Has
  <2>3. CASE q \in Worker /\ i \in 1..Len(deque[q]) /\ t = deque[q][i]
    <3>1. Len(deque[q]) \in Nat
      BY <1>0, <2>3 DEF S!TypeOK, Worker
    <3>2. WaitsAt(t, q, i) /\ i # 0 /\ i # -1 /\ i # -2
      BY <1>0, <2>3, <3>1 DEF WaitsAt, SP!TaskAt
    <3> QED
      BY <1>4, <3>2 DEF Has
  <2>4. CASE q \in SP!InHand' /\ i = 0 /\ t = task[q]
    <3>1. q \in Worker /\ q # w
      BY <1>0, <1>1, <1>2, <2>1, <2>4 DEF SP!InHand
    <3>2. WaitsAt(t, q, i)
      BY <1>0, <1>1, <2>1, <2>4, <3>1 DEF WaitsAt, SP!TaskAt, SP!InHand, At
    <3> QED
      BY <1>4, <3>1, <3>2 DEF Has
  <2>5. CASE q \in SP!Publishing' /\ i = -1 /\ t = pub'[q]
    <3>1. CASE q = w
      BY <1>0, <1>1, <1>4, <2>5, <3>1 DEF SP!Publishing
    <3>2. CASE q # w
      <4>1. WaitsAt(t, q, i)
        BY <1>0, <1>1, <2>5, <3>2 DEF WaitsAt, SP!TaskAt, SP!Publishing
      <4> QED
        BY <1>4, <3>2, <4>1 DEF Has
    <3> QED
      BY <3>1, <3>2
  <2> QED
    BY <1>0, <1>1, <2>1, <2>2, <2>3, <2>4, <2>5 DEF SP!TaskAt
<1>5. \/ \E t : WaitsAt(t, q, i)' /\ c = Mult(t, n)
      \/ q \in Worker /\ i = -2 /\ c = JobCount(job[q], n)'
  BY <1>0 DEF Has
<1> QED
  BY <1>3, <1>4, <1>5

LEMMA ListedChildren ==
  ASSUME NEW d \in Node, NEW n \in Node
  PROVE  /\ Mult(Items[d], n) \in {0, 1}
         /\ Mult(Items[d], n) > 0 <=> n \in Children(d)
<1>1. Listed(Items[d], n) <=> n \in Children(d)
  BY WalkTreeAssumption DEF Children, RangeOf, Listed
<1>2. ~Repeated(Items[d], n)
  <2>1. /\ n # BadItem
        /\ \A i, k \in 1..Len(Items[d]) : Items[d][i] = Items[d][k] => i = k \/ Items[d][i] = BadItem
    BY WalkTreeAssumption
  <2> QED
    BY <2>1 DEF Repeated
<1> QED
  BY <1>1, <1>2, MultIs

(* A body holds the node it is at until it has looked whether to descend. *)
LEMMA BodyHolds ==
  ASSUME NEW w \in Worker, NEW n
  PROVE  /\ Has(w, -2, n, JobCount(job[w], n))
         /\ job[w].step \in {"eval", "descend"} /\ job[w].at = n => JobCount(job[w], n) > 0
<1>1. Has(w, -2, n, JobCount(job[w], n))
  BY DEF Has
<1>2. ASSUME job[w].step \in {"eval", "descend"} /\ job[w].at = n
      PROVE  JobCount(job[w], n) > 0
  <2>1. One(job[w].step \in {"eval", "descend"} /\ job[w].at = n) = 1
    BY <1>2 DEF One
  <2> QED
    BY <2>1, CountIs DEF JobCount
<1> QED
  BY <1>1, <1>2

(* A body's step puts a node at one place from one place, except for the     *)
(* children of the directory it opens.                                       *)
LEMMA TaskAtOnePlace ==
  ASSUME EngineInv, \A u \in Worker : Tidy(u), NEW w \in Worker, TaskStep(w), ~quit,
         NEW n \in Node, AtOnePlace(n),
         OpenDirectory(w) /\ n \in Children(job[w].at) => ~HeldNow(n)
  PROVE  /\ AtOnePlace(n)'
         /\ HeldNow(n)' => HeldNow(n) \/ (OpenDirectory(w) /\ n \in Children(job[w].at))
<1> DEFINE J == JobCount(job[w], n)
           K == JobCount(job'[w], n)
           opened == OpenDirectory(w) /\ n \in Children(job[w].at)
<1>a. J \in Nat /\ K \in Nat /\ \A t : Mult(t, n) \in {0, 1, 2}
  BY CountIs
<1>b. Has(w, -2, n, J)
  BY BodyHolds
<1>c. J <= 1
  BY <1>a, <1>b DEF AtOnePlace
<1> HIDE DEF J, K
<1>d. /\ StartBatch(w) => K = Mult(task[w], n)
      /\ OpenDirectory(w) => K <= J + Mult(Items[job[w].at], n) - One(job[w].at = n)
      /\ PublishChunk(w) => K + Mult(Head(job[w].outbox), n) <= J
      /\ ~StartBatch(w) /\ ~OpenDirectory(w) => K <= J
  BY <1>c, CountsChange DEF J, K
<1>e. ASSUME NEW q, NEW i, NEW c, Has(q, i, n, c)', c > 0
      PROVE  \/ q = w /\ i = -2 /\ c = K
             \/ q = w /\ i = -1 /\ PublishChunk(w) /\ c = Mult(Head(job[w].outbox), n)
             \/ Has(q, i, n, c) /\ ~(q = w /\ i \in {-2, -1, 0})
  BY <1>e, TaskOrigins DEF K
<1>f. \A q, i, c : Has(q, i, n, c)' => c \in Nat
  <2>1. PICK m : m = n
    OBVIOUS
  <2>2. \A q, i, c : Has(q, i, m, c)' => c \in Nat
    BY <1>a, CountIs DEF Has
  <2> QED
    BY <2>1, <2>2
<1>1. CASE opened
  <2>1. ~HeldNow(n)
    BY <1>1
  <2>2. J = 0
    BY <1>a, <1>b, <2>1 DEF HeldNow
  <2>3. K <= 1
    <3>1. job[w].at \in Node
      BY <1>1 DEF OpenDirectory, At, EngineInv, JobsFit, AtNode
    <3>2. Mult(Items[job[w].at], n) \in {0, 1} /\ One(job[w].at = n) \in {0, 1}
      BY <3>1, ListedChildren, CountIs
    <3> QED
      BY <1>1, <1>a, <1>d, <2>2, <3>2
  <2>4. ~PublishChunk(w)
    BY <1>1 DEF OpenDirectory, PublishChunk, At
  <2>5. \A q, i, c : Has(q, i, n, c)' /\ c > 0 => q = w /\ i = -2 /\ c = K
    BY <1>e, <2>1, <2>4 DEF HeldNow
  <2>6. PICK m : m = n
    OBVIOUS
  <2>7. AtOnePlace(m)'
    BY <2>3, <2>5, <2>6 DEF AtOnePlace
  <2> QED
    BY <1>1, <2>6, <2>7
<1>2. CASE ~opened
  <2>1. PICK s, C : /\ Has(w, s, n, C) /\ s \in {-2, 0} /\ C \in Nat
                    /\ K <= C /\ (PublishChunk(w) => K + Mult(Head(job[w].outbox), n) <= C)
    <3>1. CASE StartBatch(w)
      <4>1. WaitsAt(task[w], w, 0)
        <5>1. At(w, "idle")
          BY <3>1 DEF StartBatch
        <5>2. SP!TaskAt(task[w], w, 0)
          BY <5>1 DEF At, SP!TaskAt, SP!InHand, SP!Worker, Worker, S!Worker
        <5> QED
          BY <5>1, <5>2 DEF WaitsAt
      <4>2. Has(w, 0, n, Mult(task[w], n)) /\ ~PublishChunk(w)
        BY <3>1, <4>1 DEF Has, StartBatch, PublishChunk, At
      <4>3. K <= Mult(task[w], n)
        BY <1>a, <1>d, <3>1
      <4>4. Mult(task[w], n) \in Nat
        BY <1>a
      <4> QED
        BY <4>2, <4>3, <4>4
    <3>2. CASE ~StartBatch(w)
      <4>1. OpenDirectory(w) => K <= J /\ ~PublishChunk(w)
        <5> SUFFICES ASSUME OpenDirectory(w) PROVE K <= J /\ ~PublishChunk(w)
          OBVIOUS
        <5>1. job[w].at \in Node /\ ~PublishChunk(w)
          BY DEF OpenDirectory, PublishChunk, At, EngineInv, JobsFit, AtNode
        <5>2. Mult(Items[job[w].at], n) = 0 /\ One(job[w].at = n) \in {0, 1}
          BY <1>2, <5>1, ListedChildren, CountIs
        <5> QED
          BY <1>a, <1>d, <5>1, <5>2
      <4>2. K <= J /\ (PublishChunk(w) => K + Mult(Head(job[w].outbox), n) <= J)
        BY <1>d, <3>2, <4>1
      <4> QED
        BY <1>a, <1>b, <4>2
    <3> QED
      BY <3>1, <3>2
  <2>2. C > 0 => C <= 1
    BY <2>1 DEF AtOnePlace
  <2>3. ASSUME NEW q, NEW i, NEW c, Has(q, i, n, c)', c > 0
        PROVE  \/ /\ q = w /\ i \in {-2, -1} /\ c <= C /\ C = 1
               \/ Has(q, i, n, c) /\ ~(q = w /\ i = s) /\ c <= 1
    <3>1. CASE q = w /\ i = -2 /\ c = K
      BY <1>a, <2>1, <2>2, <2>3, <3>1
    <3>2. CASE q = w /\ i = -1 /\ PublishChunk(w) /\ c = Mult(Head(job[w].outbox), n)
      <4>1. K + c <= C /\ c \in Nat
        BY <1>f, <2>1, <2>3, <3>2
      <4> QED
        BY <1>a, <2>1, <2>2, <2>3, <3>2, <4>1
    <3>3. CASE Has(q, i, n, c) /\ ~(q = w /\ i \in {-2, -1, 0})
      <4>1. c <= 1
        BY <2>3, <3>3 DEF AtOnePlace
      <4> QED
        BY <2>1, <3>3, <4>1
    <3> QED
      BY <1>e, <2>3, <3>1, <3>2, <3>3
  <2>4. ASSUME NEW q1, NEW i1, NEW c1, Has(q1, i1, n, c1)', c1 > 0,
               NEW q2, NEW i2, NEW c2, Has(q2, i2, n, c2)', c2 > 0
        PROVE  q1 = q2 /\ i1 = i2 /\ c1 <= 1
    <3>0. c1 \in Nat /\ c2 \in Nat
      BY <1>f, <2>4
    <3>1. CASE q1 = w /\ i1 \in {-2, -1} /\ c1 <= C /\ C = 1 /\ q2 = w /\ i2 \in {-2, -1}
      <4>1. ASSUME i1 = -2, i2 = -1 PROVE FALSE
        <5>1. c1 = K /\ PublishChunk(w) /\ c2 = Mult(Head(job[w].outbox), n)
          BY <1>e, <2>4, <3>1, <4>1
        <5> QED
          BY <2>1, <2>4, <3>0, <3>1, <5>1
      <4>2. ASSUME i1 = -1, i2 = -2 PROVE FALSE
        <5>1. c2 = K /\ PublishChunk(w) /\ c1 = Mult(Head(job[w].outbox), n)
          BY <1>e, <2>4, <3>1, <4>2
        <5> QED
          BY <2>1, <2>4, <3>0, <3>1, <5>1
      <4> QED
        BY <3>1, <4>1, <4>2
    <3>2. CASE C = 1 /\ q1 = w /\ i1 \in {-2, -1} /\ Has(q2, i2, n, c2) /\ ~(q2 = w /\ i2 = s)
      BY <2>1, <2>4, <3>2 DEF AtOnePlace
    <3>3. CASE C = 1 /\ q2 = w /\ i2 \in {-2, -1} /\ Has(q1, i1, n, c1) /\ ~(q1 = w /\ i1 = s)
      BY <2>1, <2>4, <3>3 DEF AtOnePlace
    <3>4. CASE Has(q1, i1, n, c1) /\ Has(q2, i2, n, c2)
      BY <2>4, <3>4 DEF AtOnePlace
    <3> QED
      BY <2>3, <2>4, <3>1, <3>2, <3>3, <3>4
  <2>5. PICK m : m = n
    OBVIOUS
  <2>6. AtOnePlace(m)'
    BY <2>4, <2>5 DEF AtOnePlace
  <2>7. HeldNow(m)' => HeldNow(n)
    <3> SUFFICES ASSUME NEW q, NEW i, NEW c, Has(q, i, n, c)', c > 0 PROVE HeldNow(n)
      BY <2>5 DEF HeldNow
    <3>1. (q = w /\ C = 1) \/ Has(q, i, n, c)
      BY <2>3
    <3>2. C = 1 => HeldNow(n)
      BY <2>1 DEF HeldNow
    <3> QED
      BY <3>1, <3>2 DEF HeldNow
  <2> QED
    BY <2>5, <2>6, <2>7
<1> QED
  BY <1>1, <1>2

(* The node a body was at is done with when the body leaves it. *)
LEMMA LeftForGood ==
  ASSUME EngineInv, \A u \in Worker : Tidy(u), NEW w \in Worker, TaskStep(w), ~quit,
         DoNotDescend(w) \/ OpenDirectory(w) \/ EvalFails(w) \/ OpenFails(w),
         AtOnePlace(job[w].at)
  PROVE  \A n : n = job[w].at => ~HeldNow(n)'
<1> SUFFICES ASSUME NEW n, n = job[w].at, HeldNow(n)' PROVE FALSE
  OBVIOUS
<1>0. job[w].step \in {"eval", "descend"} /\ n \in Node
  BY DEF DoNotDescend, OpenDirectory, EvalFails, OpenFails, At, EngineInv, JobsFit, AtNode
<1>1. PICK q, i, c : Has(q, i, n, c)' /\ c > 0
  BY DEF HeldNow
<1>2. Has(w, -2, n, JobCount(job[w], n)) /\ JobCount(job[w], n) > 0
  BY <1>0, BodyHolds
<1>3. JobCount(job[w], n) = 1 /\ JobCount(job'[w], n) \in Nat
  <2>1. JobCount(job[w], n) <= 1
    BY <1>2 DEF AtOnePlace
  <2> QED
    BY <1>2, <2>1, CountIs
<1>4. JobCount(job'[w], n) = 0
  <2>1. CASE DoNotDescend(w)
    <3>1. JobCount(job'[w], n) <= JobCount(job[w], n) - One(job[w].at = n)
      BY <1>3, <2>1, CountsChange
    <3> QED
      BY <1>3, <3>1 DEF One
  <2>2. CASE OpenDirectory(w)
    <3>1. JobCount(job'[w], n) <= JobCount(job[w], n) + Mult(Items[n], n) - One(job[w].at = n)
      BY <1>3, <2>2, CountsChange
    <3>2. n \notin Children(n)
      BY <1>0, ParentOfChild, AncestorsAre, NoLoops
    <3>3. Mult(Items[n], n) = 0
      BY <1>0, <3>2, ListedChildren
    <3> QED
      BY <1>3, <3>1, <3>3 DEF One
  <2>3. CASE EvalFails(w) \/ OpenFails(w)
    <3>1. job'[w] = NoJob
      BY <2>3, JobChanges DEF JobAfter
    <3>2. One(NoJob.step \in {"eval", "descend"} /\ NoJob.at = n) = 0
      BY DEF One, NoJob
    <3>3. JobCount(NoJob, n) = 0
      BY <3>2, MultEmpty DEF JobCount, NoJob
    <3> QED
      BY <3>1, <3>3
  <2> QED
    BY <2>1, <2>2, <2>3
<1>5. ~PublishChunk(w)
  BY <1>0 DEF PublishChunk, At
<1>6. Has(q, i, n, c) /\ ~(q = w /\ i \in {-2, -1, 0})
  BY <1>1, <1>4, <1>5, TaskOrigins
<1> QED
  BY <1>1, <1>2, <1>6 DEF AtOnePlace

(* Who evaluates, and what. *)
LEMMA EvalSteps ==
  ASSUME EngineInv, NEW w \in Worker, TaskStep(w)
  PROVE  /\ \/ evals' = evals
            \/ /\ job[w].step = "eval" /\ job[w].at \in Node
               /\ evals' = [evals EXCEPT ![job[w].at] = @ + 1]
               /\ EvalOk(w) \/ EvalQuits(w) \/ EvalFails(w)
         /\ EvalOk(w) \/ EvalQuits(w) \/ EvalFails(w) =>
              evals' = [evals EXCEPT ![job[w].at] = @ + 1]
         /\ EvalQuits(w) => quit'
         /\ LoadNext(w) => ~quit
         /\ job[w].step = "descend" => DoNotDescend(w) \/ OpenDirectory(w) \/ OpenFails(w)
         /\ job'[w].step = "eval" =>
              /\ LoadNext(w) /\ job[w].step = "next"
              /\ Listed(job[w].stack, job'[w].at) /\ job'[w].at \in Node
<1>1. /\ \/ evals' = evals
         \/ CountEval(w) /\ job[w].step = "eval" /\ (EvalOk(w) \/ EvalQuits(w) \/ EvalFails(w))
      /\ job[w].step = "descend" => DoNotDescend(w) \/ OpenDirectory(w) \/ OpenFails(w)
  BY DEF TaskStep, At, StartBatch, EndBatch, LoadNext, EvalOk, EvalQuits, LeaveAfterQuit,
         EvalFails, DoNotDescend, OpenDirectory, OpenFails, ListBadItem, ListChild, SpillNow,
         EndListing, PublishChunk, PublishDone
<1>2. job[w].step = "eval" => job[w].at \in Node
  BY DEF EngineInv, JobsFit, AtNode
<1>3. EvalQuits(w) => quit'
  BY DEF EvalQuits, S!StoreQuit
<1>4. LoadNext(w) => ~quit
  BY DEF LoadNext, Stopping
<1>5. ASSUME job'[w].step = "eval"
      PROVE  /\ LoadNext(w) /\ job[w].step = "next"
             /\ Listed(job[w].stack, job'[w].at) /\ job'[w].at \in Node
  <2>1. JobAfter(w, job[w], job'[w]) /\ (ListChild(w) => ChildAfter(job[w], job'[w]))
    BY JobChanges
  <2>2. job[w].step = "publish" => job[w].then \in {"list", "next"}
    BY DEF EngineInv, JobsFit, AtNode
  <2>3. LoadNext(w)
    BY <1>5, <2>1, <2>2 DEF TaskStep, JobAfter, ChildAfter, PublishDone, At, NoJob
  <2>4. job[w].step = "next" /\ job[w].stack # <<>> /\ job[w].stack \in Seq(Node)
    BY <2>3 DEF LoadNext, At, EngineInv, JobsFit, JobOver
  <2>5. job'[w].at = Head(job[w].stack)
    <3>1. Loads(Head(job[w].stack)) /\ Controlled(Head(job[w].stack))
      BY <1>5, <2>1, <2>3 DEF JobAfter
    <3> QED
      BY <2>1, <2>3, <3>1 DEF JobAfter
  <2>6. Listed(job[w].stack, job'[w].at) /\ job'[w].at \in Node
    BY <2>4, <2>5, ListedTail, HeadTailProperties
  <2> QED
    BY <2>3, <2>4, <2>6
<1>6. EvalOk(w) \/ EvalQuits(w) \/ EvalFails(w) => CountEval(w)
  BY DEF EvalOk, EvalQuits, EvalFails
<1> QED
  BY <1>1, <1>2, <1>3, <1>4, <1>5, <1>6 DEF CountEval

LEMMA OnceInit == Init => OnceInv
<1> SUFFICES ASSUME Init PROVE OnceInv
  OBVIOUS
<1>0. /\ injector = [k \in 1..Len(StartPaths) |-> <<StartPaths[k]>>]
      /\ Len(StartPaths) \in Nat /\ StartPaths \in Seq(Node)
      /\ \A w \in Worker : deque[w] = <<>> /\ pc[w] = "local" /\ job[w] = NoJob
      /\ SP!Worker = Worker
  BY WalkTreeAssumption DEF Init, S!SchedInit, Worker, SP!Worker, S!Worker
<1>1. \A n : JobCount(NoJob, n) = 0
  <2> TAKE n
  <2>1. One(NoJob.step \in {"eval", "descend"} /\ NoJob.at = n) = 0
    BY DEF One, NoJob
  <2> QED
    BY <2>1, MultEmpty DEF JobCount, NoJob
<1>2. ASSUME NEW n, NEW q, NEW i, NEW c, Has(q, i, n, c), c > 0
      PROVE  q = 0 /\ i \in 1..Len(StartPaths) /\ StartPaths[i] = n /\ c <= 1
  <2>1. PICK t : WaitsAt(t, q, i) /\ c = Mult(t, n)
    BY <1>0, <1>1, <1>2 DEF Has
  <2>2. q = 0 /\ i \in 1..Len(injector) /\ t = injector[i]
    BY <1>0, <2>1 DEF WaitsAt, SP!TaskAt, SP!InHand, SP!Publishing
  <2>3. i \in 1..Len(StartPaths) /\ t = <<StartPaths[i]>>
    BY <1>0, <2>2
  <2>4. (Listed(t, n) <=> StartPaths[i] = n) /\ ~Repeated(t, n)
    BY <2>3 DEF Listed, Repeated
  <2> QED
    BY <1>2, <2>1, <2>2, <2>3, <2>4, MultIs
<1>3. ASSUME NEW n \in Node PROVE AtOnePlace(n)
  <2>1. \A i, k \in 1..Len(StartPaths) : StartPaths[i] = StartPaths[k] => i = k
    BY WalkTreeAssumption
  <2> QED
    BY <1>2, <2>1 DEF AtOnePlace
<1>4. \A n \in Node : evals[n] = 0
  BY DEF Init
<1>5. \A n : HeldNow(n) => n \in Root
  BY <1>2 DEF HeldNow, Root, RangeOf
<1>6. ASSUME NEW n \in Node PROVE NothingBelow(n)
  <2>1. \A m \in Node : n \in Ancestors[m] => m \notin Root
    BY AncestorsAre
  <2> QED
    BY <1>4, <1>5, <2>1 DEF NothingBelow
<1>7. EvaluatesOnce
  BY <1>0, <1>4 DEF EvaluatesOnce, NoJob
<1> QED
  BY <1>3, <1>4, <1>6, <1>7 DEF OnceInv, Fresh

(* The loop's steps move tasks, and evaluate nothing. *)
LEMMA LoopOnce ==
  ASSUME EngineInv, StopsAreKnown, \A u \in Worker : Tidy(u), NEW w \in Worker, LoopStep(w), OnceInv
  PROVE  OnceInv'
<1>0. UNCHANGED <<quit, job, evals>>
  BY EngineLoopMoves
<1>1. EvaluatesOnce'
  BY <1>0 DEF OnceInv, EvaluatesOnce
<1>2. ASSUME ~quit, NEW n \in Node
      PROVE  AtOnePlace(n)' /\ (HeldNow(n)' => HeldNow(n))
  <2>1. AtOnePlace(n)
    BY <1>2 DEF OnceInv
  <2>2. ASSUME NEW q1, NEW i1, NEW c1, NEW q2, NEW i2, NEW c2,
               Has(q1, i1, n, c1)', c1 > 0, Has(q2, i2, n, c2)', c2 > 0
        PROVE  q1 = q2 /\ i1 = i2 /\ c1 <= 1
    <3>1. PICK p1, k1, p2, k2 : /\ Has(p1, k1, n, c1) /\ Has(p2, k2, n, c2)
                                /\ p1 = p2 /\ k1 = k2 => q1 = q2 /\ i1 = i2
      BY <1>2, <2>2, LoopOrigins
    <3> QED
      BY <2>1, <2>2, <3>1 DEF AtOnePlace
  <2>3. HeldNow(n)' => HeldNow(n)
    <3> SUFFICES ASSUME NEW q, NEW i, NEW c, Has(q, i, n, c)', c > 0 PROVE HeldNow(n)
      BY DEF HeldNow
    <3>1. \E p, k : Has(p, k, n, c)
      BY <1>2, LoopOrigins
    <3> QED
      BY <3>1 DEF HeldNow
  <2> QED
    BY <2>2, <2>3 DEF AtOnePlace
<1>3. ASSUME ~quit, NEW n \in Node
      PROVE  Fresh(n)' /\ NothingBelow(n)'
  <2>1. Fresh(n) /\ NothingBelow(n)
    BY <1>3 DEF OnceInv
  <2>2. Fresh(n)'
    BY <1>0, <1>2, <1>3, <2>1 DEF Fresh
  <2>3. NothingBelow(n)'
    BY <1>0, <1>2, <1>3, <2>1 DEF NothingBelow
  <2> QED
    BY <2>2, <2>3
<1> QED
  BY <1>0, <1>1, <1>2, <1>3 DEF OnceInv

(* What is evaluated, or about to be, is held by one body alone. *)
LEMMA TaskEvaluatesOnce ==
  ASSUME EngineInv, NEW w \in Worker, TaskStep(w), OnceInv
  PROVE  EvaluatesOnce'
<1>0. /\ evals \in [Node -> Nat] /\ EvaluatesOnce
      /\ \A u \in Worker \ {w} : job'[u] = job[u]
      /\ \A u \in Worker : job[u].step = "eval" => job[u].at \in Node
  BY JobChanges DEF EngineInv, OnceInv, JobsFit, AtNode
<1>1. \/ evals' = evals
      \/ /\ job[w].step = "eval" /\ job[w].at \in Node
         /\ evals' = [evals EXCEPT ![job[w].at] = @ + 1]
  BY EvalSteps
<1>2. ASSUME job'[w].step = "eval"
      PROVE  /\ job[w].step = "next" /\ evals' = evals /\ evals[job'[w].at] = 0
             /\ \A u \in Worker \ {w} : job[u].step = "eval" => job[u].at # job'[w].at
  <2> DEFINE n == job'[w].at
  <2>1. job[w].step = "next" /\ ~quit /\ n \in Node /\ Listed(job[w].stack, n)
    BY <1>2, EvalSteps
  <2>2. JobCount(job[w], n) > 0
    <3>1. Mult(job[w].stack, n) > 0
      BY <2>1, MultIs
    <3> QED
      BY <3>1, CountIs DEF JobCount
  <2>3. AtOnePlace(n) /\ Fresh(n)
    BY <2>1 DEF OnceInv
  <2>4. Has(w, -2, n, JobCount(job[w], n)) /\ HeldNow(n)
    BY <2>2, BodyHolds DEF HeldNow
  <2>5. ASSUME NEW u \in Worker, job[u].step \in {"eval", "descend"}, job[u].at = n
        PROVE  FALSE
    <3>1. Has(u, -2, n, JobCount(job[u], n)) /\ JobCount(job[u], n) > 0
      BY <2>5, BodyHolds
    <3>2. u = w
      BY <2>2, <2>3, <2>4, <3>1 DEF AtOnePlace
    <3> QED
      BY <2>1, <2>5, <3>2
  <2>6. evals[n] = 0
    BY <1>0, <2>1, <2>3, <2>4, <2>5 DEF Fresh
  <2> QED
    BY <1>1, <2>1, <2>5, <2>6
<1>3. \A n \in Node : evals'[n] \in {0, 1}
  BY <1>0, <1>1 DEF EvaluatesOnce
<1>4. ASSUME NEW u \in Worker, job'[u].step = "eval" PROVE evals'[job'[u].at] = 0
  BY <1>0, <1>1, <1>2, <1>4 DEF EvaluatesOnce
<1>5. ASSUME NEW u \in Worker, NEW v \in Worker, u # v, job'[u].step = "eval", job'[v].step = "eval"
      PROVE  job'[u].at # job'[v].at
  BY <1>0, <1>2, <1>5 DEF EvaluatesOnce
<1> QED
  BY <1>3, <1>4, <1>5 DEF EvaluatesOnce

LEMMA TaskOnce ==
  ASSUME EngineInv, \A u \in Worker : Tidy(u), NEW w \in Worker, TaskStep(w), OnceInv
  PROVE  OnceInv'
<1> DEFINE d == job[w].at
<1>0. /\ quit \in BOOLEAN /\ (quit => quit') /\ evals \in [Node -> Nat]
      /\ \A u \in Worker \ {w} : job'[u] = job[u]
  BY TaskMoves, JobChanges, EngineQueuesFit DEF EngineInv, S!TypeOK
<1>a. ASSUME OpenDirectory(w) PROVE d \in Node /\ HeldNow(d) /\ job[w].step = "descend" /\ evals' = evals
  <2>1. d \in Node /\ job[w].step = "descend"
    BY <1>a DEF OpenDirectory, At, EngineInv, JobsFit, AtNode
  <2>2. HeldNow(d)
    BY <2>1, BodyHolds DEF HeldNow
  <2> QED
    BY <2>1, <2>2, EvalSteps
<1>b. ASSUME OpenDirectory(w), NEW n \in Children(d)
      PROVE  n \in Node /\ Ancestors[n] = Ancestors[d] \cup {d}
  BY <1>a, <1>b, ParentOfChild, AncestorsAre
<1>1. ASSUME ~quit, NEW n \in Node
      PROVE  /\ AtOnePlace(n)'
             /\ HeldNow(n)' => HeldNow(n) \/ (OpenDirectory(w) /\ n \in Children(d))
  <2>1. AtOnePlace(n)
    BY <1>1 DEF OnceInv
  <2>2. OpenDirectory(w) /\ n \in Children(d) => ~HeldNow(n)
    BY <1>1, <1>a, <1>b DEF OnceInv, NothingBelow
  <2> HIDE DEF d
  <2> QED
    BY <1>1, <2>1, <2>2, TaskAtOnePlace DEF d
<1>2. ASSUME ~quit, DoNotDescend(w) \/ OpenDirectory(w) \/ EvalFails(w) \/ OpenFails(w),
             NEW n \in Node, n = d
      PROVE  ~HeldNow(n)'
  <2>1. AtOnePlace(job[w].at)
    BY <1>2 DEF OnceInv
  <2> QED
    BY <1>2, <2>1, LeftForGood
<1>3. ASSUME ~quit', NEW n \in Node, HeldNow(n)', evals'[n] > 0
      PROVE  \E u \in Worker : job'[u].step = "descend" /\ job'[u].at = n
  <2>1. ~quit
    BY <1>0, <1>3
  <2>2. HeldNow(n)
    <3> SUFFICES ASSUME OpenDirectory(w), n \in Children(d) PROVE FALSE
      BY <1>1, <1>3, <2>1
    <3>1. evals[n] = 0
      BY <1>a, <1>b, <2>1 DEF OnceInv, NothingBelow
    <3> QED
      BY <1>3, <1>a, <3>1
  <2>3. CASE evals[n] > 0
    <3>1. PICK u \in Worker : job[u].step = "descend" /\ job[u].at = n
      BY <1>3, <2>1, <2>2, <2>3 DEF OnceInv, Fresh
    <3>2. u # w
      BY <1>2, <1>3, <2>1, <3>1, EvalSteps
    <3> QED
      BY <1>0, <3>1, <3>2
  <2>4. CASE ~(evals[n] > 0)
    <3>1. n = d /\ (EvalOk(w) \/ EvalQuits(w) \/ EvalFails(w))
      BY <1>0, <1>3, <2>4, EvalSteps
    <3>2. ~EvalQuits(w) /\ ~EvalFails(w)
      BY <1>2, <1>3, <2>1, <3>1, EvalSteps
    <3>3. job'[w].step = "descend" /\ job'[w].at = n
      BY <3>1, <3>2, JobChanges DEF JobAfter
    <3> QED
      BY <3>3
  <2> QED
    BY <2>3, <2>4
<1>4. ASSUME ~quit', NEW n \in Node, HeldNow(n)', NEW m \in Node, n \in Ancestors[m]
      PROVE  ~HeldNow(m)' /\ evals'[m] = 0
  <2>1. ~quit
    BY <1>0, <1>4
  <2>2. \A e \in Node : HeldNow(e) /\ e \in Ancestors[m] => ~HeldNow(m) /\ evals[m] = 0
    BY <1>4, <2>1 DEF OnceInv, NothingBelow
  <2>3. CASE HeldNow(n)
    <3>1. ~HeldNow(m) /\ evals[m] = 0
      BY <1>4, <2>2, <2>3
    <3>2. evals'[m] = 0
      <4> SUFFICES ASSUME job[w].step = "eval", m = d PROVE FALSE
        BY <1>0, <3>1, EvalSteps
      <4>1. HeldNow(m)
        BY BodyHolds DEF HeldNow
      <4> QED
        BY <3>1, <4>1
    <3>3. ~HeldNow(m)'
      <4> SUFFICES ASSUME OpenDirectory(w), m \in Children(d) PROVE FALSE
        BY <1>1, <2>1, <3>1
      <4>1. n # d
        BY <1>2, <1>4, <2>1
      <4>2. n \in Ancestors[d] /\ d \in Node /\ HeldNow(d)
        BY <1>4, <1>a, <1>b, <4>1
      <4> QED
        BY <1>4, <2>1, <2>3, <4>2 DEF OnceInv, NothingBelow
    <3> QED
      BY <3>2, <3>3
  <2>4. CASE OpenDirectory(w) /\ n \in Children(d)
    <3>1. d \in Ancestors[n] /\ d \in Node
      BY <1>a, <1>b, <2>4
    <3>2. d \in Ancestors[m]
      BY <1>4, <3>1, AncestorsNest
    <3>3. ~HeldNow(m) /\ evals'[m] = 0
      BY <1>a, <2>2, <2>4, <3>1, <3>2
    <3>4. m \notin Children(d)
      <4> SUFFICES ASSUME m \in Children(d) PROVE FALSE
        OBVIOUS
      <4>1. n \in Ancestors[d] \cup {d}
        BY <1>4, <1>b, <2>4
      <4>2. n \in Ancestors[d] => d \in Ancestors[d]
        BY <3>1, AncestorsNest
      <4> QED
        BY <3>1, <4>1, <4>2, NoLoops
    <3> QED
      BY <1>1, <2>1, <3>3, <3>4
  <2> QED
    BY <1>1, <1>4, <2>1, <2>3, <2>4
<1>5. ASSUME ~quit', NEW n \in Node
      PROVE  Fresh(n)' /\ NothingBelow(n)'
  <2>1. PICK m : m = n
    OBVIOUS
  <2>2. Fresh(m)' /\ NothingBelow(m)'
    BY <1>3, <1>4, <1>5, <2>1 DEF Fresh, NothingBelow
  <2> QED
    BY <2>1, <2>2
<1>6. EvaluatesOnce'
  BY TaskEvaluatesOnce
<1> HIDE DEF d
<1> QED
  BY <1>0, <1>1, <1>5, <1>6 DEF OnceInv

LEMMA OnceStep ==
  EngineInv /\ StopsAreKnown /\ (\A w \in Worker : Tidy(w)) /\ OnceInv /\ [Next]_vars => OnceInv'
<1> SUFFICES ASSUME EngineInv, StopsAreKnown, \A w \in Worker : Tidy(w), OnceInv, [Next]_vars
             PROVE  OnceInv'
  OBVIOUS
<1>1. CASE UNCHANGED vars
  <2>1. \A t, q, i : WaitsAt(t, q, i)' <=> WaitsAt(t, q, i)
    BY <1>1 DEF vars, schedVars, WaitsAt, SP!TaskAt, SP!InHand, SP!Publishing, At
  <2>2. \A q, i, n, c : Has(q, i, n, c)' <=> Has(q, i, n, c)
    BY <1>1, <2>1 DEF vars, Has
  <2> QED
    BY <1>1, <2>2 DEF vars, schedVars, OnceInv, EvaluatesOnce, AtOnePlace, Fresh, NothingBelow, HeldNow
<1>2. CASE \E w \in Worker : LoopStep(w)
  BY <1>2, LoopOnce
<1>3. CASE \E w \in Worker : TaskStep(w)
  BY <1>3, TaskOnce
<1> QED
  BY <1>1, <1>2, <1>3 DEF Next

(* Whatever the workers steal from each other, whatever is spilled, queued   *)
(* or kept, and also after -quit and failures: no worker evaluates a node    *)
(* that was evaluated, and no two are about to evaluate the same one.        *)
THEOREM NothingIsEvaluatedTwice == Spec => []EvaluatesOnce
<1>1. Init => OnceInv
  BY OnceInit
<1>2. LossInv /\ OnceInv /\ [Next]_vars => OnceInv'
  BY OnceStep DEF LossInv
<1>3. OnceInv => EvaluatesOnce
  BY DEF OnceInv
<1> QED
  BY <1>1, <1>2, <1>3, LossInvariant, PTL DEF Spec

-----------------------------------------------------------------------------
(* The engine keeps the promise of Traversal.tla                             *)

(* A stop has a cause that was evaluated, or could not be opened. *)
CausesKnown ==
  /\ quit => \E n \in MayQuit \cap PreOrderEntries : n \in Done
  /\ failed # {} => \E n \in FatalNodes : n \in PreOrderEntries => n \in Done

LEMMA CausesStep == EngineInv /\ OrderInv /\ CausesKnown /\ [Next]_vars => CausesKnown'
<1> SUFFICES ASSUME EngineInv, OrderInv, CausesKnown, [Next]_vars PROVE CausesKnown'
  OBVIOUS
<1>0. Done \subseteq Done'
  BY StepEvaluates
<1>1. CASE UNCHANGED vars
  BY <1>0, <1>1 DEF vars, schedVars, CausesKnown
<1>2. ASSUME NEW w \in Worker, LoopStep(w) PROVE CausesKnown'
  BY <1>0, <1>2, EngineLoopMoves DEF CausesKnown
<1>3. ASSUME NEW w \in Worker, TaskStep(w) PROVE CausesKnown'
  <2> DEFINE n == job[w].at
  <2>1. ASSUME job[w].step \in {"eval", "descend"}
        PROVE  /\ n \in Node /\ Reached[n] /\ Loads(n) /\ Controlled(n)
               /\ job[w].step = "eval" => n \in PreOrderEntries
               /\ job[w].step = "descend" => (n \in PreOrderEntries => n \in Done)
    BY <2>1 DEF OrderInv, JobsFit, AtNode, ReadyAfter, EvaluatedFirst, PreOrderEntries, Done
  <2>2. ASSUME EvalQuits(w) \/ EvalFails(w) PROVE n \in Done' /\ n \in PreOrderEntries
    <3>1. job[w].step = "eval" /\ n \in Node /\ evals[n] \in Nat /\ evals \in [Node -> Nat]
      BY <2>1, <2>2 DEF EvalQuits, EvalFails, At, EngineInv
    <3>2. evals'[n] = evals[n] + 1
      BY <1>3, <2>2, <3>1, EvalSteps
    <3> QED
      BY <2>1, <3>1, <3>2 DEF Done
  <2> HIDE DEF n
  <2>3. CASE EvalQuits(w)
    <3>1. n \in MayQuit /\ failed' = failed
      BY <2>3 DEF EvalQuits, S!StoreQuit, n
    <3> QED
      BY <1>0, <2>2, <2>3, <3>1 DEF CausesKnown
  <2>4. CASE EvalFails(w)
    <3>1. n \in FatalNodes /\ quit' = quit
      BY <2>2, <2>4 DEF EvalFails, S!TaskReturns, S!control, FatalNodes, n
    <3> QED
      BY <1>0, <2>2, <2>4, <3>1 DEF CausesKnown
  <2>5. CASE OpenFails(w)
    <3>1. n \in Unreadable /\ DescendDecision(n) = "yes" /\ job[w].step = "descend" /\ quit' = quit
      BY <2>5 DEF OpenFails, At, S!TaskReturns, S!control, n
    <3>2. n \in FatalNodes /\ (n \in PreOrderEntries => n \in Done)
      BY <2>1, <3>1 DEF FatalNodes, Opens
    <3> QED
      BY <1>0, <3>1, <3>2 DEF CausesKnown
  <2>6. CASE quit' = quit /\ failed' = failed
    BY <1>0, <2>6 DEF CausesKnown
  <2> QED
    BY <1>3, <2>3, <2>4, <2>5, <2>6, TaskMoves
<1> QED
  BY <1>1, <1>2, <1>3 DEF Next

(* The verdict tells what was evaluated. *)
VerdictKnown ==
  /\ Verdict = "complete" => PreOrderEntries \subseteq Done
  /\ Verdict = "stopped" => \E n \in MayQuit \cap PreOrderEntries : n \in Done
  /\ Verdict = "failed" => \E n \in FatalNodes : n \in PreOrderEntries => n \in Done

LEMMA VerdictInvariant == Spec => []VerdictKnown
<1>1. Init => CausesKnown
  BY DEF Init, S!SchedInit, CausesKnown
<1>2. LossInv /\ CausesKnown /\ [Next]_vars => CausesKnown'
  BY CausesStep DEF LossInv
<1>3. LossInv /\ CausesKnown /\ (Verdict = "complete" => PreOrderEntries \subseteq Done) => VerdictKnown
  <2>1. StopsAreKnown /\ Verdict = "failed" => failed # {}
    BY DEF StopsAreKnown, Verdict
  <2>2. Verdict = "stopped" => quit
    BY DEF Verdict
  <2> QED
    BY <2>1, <2>2 DEF LossInv, CausesKnown, VerdictKnown
<1> QED
  BY <1>1, <1>2, <1>3, LossInvariant, CompleteWalksAreComplete, PTL DEF Spec

(* What the promise sees of the counts. *)
Seen == [n \in PreOrderEntries |-> evals[n]]

LEMMA PromiseInit == Init => Abstract!TravInit
<1> SUFFICES ASSUME Init PROVE Abstract!TravInit
  OBVIOUS
<1>1. [n \in PreOrderEntries |-> evals[n]] = [n \in PreOrderEntries |-> 0]
  BY DEF Init, PreOrderEntries
<1>2. Verdict = "running"
  <2>1. 1 \in S!Worker
    BY PreOrderAssumption DEF S!Worker
  <2>2. pc[1] = "local"
    BY <2>1 DEF Init, S!SchedInit
  <2> QED
    BY <2>1, <2>2 DEF Verdict, S!AllReturned
<1> QED
  BY <1>1, <1>2 DEF Abstract!TravInit

LEMMA PromiseStep ==
  ASSUME LossInv, OnceInv, VerdictKnown', [Next]_vars
  PROVE  Abstract!TravNext \/ UNCHANGED <<Seen, Verdict>>
<1> USE DEF LossInv
<1>0. /\ pc \in [Worker -> S!Location] /\ evals \in [Node -> Nat]
      /\ S!Worker = Worker
  BY EngineQueuesFit DEF EngineInv, S!TypeOK, Worker
<1>1. CASE UNCHANGED vars
  <2>1. UNCHANGED Seen /\ UNCHANGED Verdict
    BY <1>1 DEF vars, schedVars, Seen, Verdict, S!AllReturned
  <2> QED
    BY <2>1
<1>2. ASSUME NEW w \in Worker, LoopStep(w)
      PROVE  Abstract!TravNext \/ UNCHANGED <<Seen, Verdict>>
  <2>0. UNCHANGED <<quit, evals>>
    BY <1>2, EngineLoopMoves
  <2>1. Seen' = Seen /\ Done' = Done
    BY <2>0 DEF Seen, Done
  <2>2. CASE Verdict' = Verdict
    BY <2>1, <2>2
  <2>3. CASE Verdict' # Verdict
    <3>1. Verdict = "running"
      <4> SUFFICES ASSUME S!AllReturned PROVE Verdict' = Verdict
        BY <2>3 DEF Verdict
      <4>1. pc' = pc
        <5>1. PICK b \in S!Location : pc' = [pc EXCEPT ![w] = b] /\ SP!LoopMove(w, pc[w], b)
          BY <1>2, EngineLoopMoves
        <5>2. pc[w] \in {"exit", "dead"}
          BY <1>0 DEF S!AllReturned
        <5>3. b = pc[w]
          BY <5>1, <5>2 DEF SP!LoopMove, SP!Searching
        <5> QED
          BY <1>0, <5>1, <5>3
      <4> QED
        BY <2>0, <4>1 DEF Verdict, S!AllReturned
    <3>2. Verdict' \in {"complete", "stopped", "failed"}
      BY <2>3, <3>1 DEF Verdict
    <3>3. /\ Verdict' = "complete" => PreOrderEntries \subseteq Done
          /\ Verdict' = "stopped" => \E n \in MayQuit \cap PreOrderEntries : n \in Done
          /\ Verdict' = "failed" => \E n \in FatalNodes : n \in PreOrderEntries => n \in Done
      BY <2>1 DEF VerdictKnown
    <3>4. Abstract!Evaluated = Done \cap PreOrderEntries
      BY DEF Abstract!Evaluated, Done, PreOrderEntries
    <3>5. Abstract!Complete \/ Abstract!Stop \/ Abstract!Fail
      BY <3>2, <3>3, <3>4 DEF Abstract!Complete, Abstract!Stop, Abstract!Fail
    <3> QED
      BY <2>1, <3>1, <3>5 DEF Abstract!TravNext, Abstract!End, Seen
  <2> QED
    BY <2>2, <2>3
<1>3. ASSUME NEW w \in Worker, TaskStep(w)
      PROVE  Abstract!TravNext \/ UNCHANGED <<Seen, Verdict>>
  <2> DEFINE n == job[w].at
  <2>0. pc[w] = "run" /\ pc'[w] \in {"run", "count", "quit", "finish"}
    BY <1>0, <1>3, TaskMoves
  <2>1. Verdict = "running" /\ Verdict' = "running"
    BY <1>0, <2>0 DEF Verdict, S!AllReturned
  <2>2. CASE evals' = evals
    BY <2>1, <2>2 DEF Seen
  <2>3. CASE evals' # evals
    <3>1. job[w].step = "eval" /\ n \in Node /\ evals' = [evals EXCEPT ![n] = @ + 1]
      BY <1>3, <2>3, EvalSteps
    <3>2. n \in PreOrderEntries /\ n \in ReadyAfter(Done)
      BY <3>1 DEF OrderInv, JobsFit, AtNode, ReadyAfter, PreOrderEntries
    <3>3. evals[n] = 0
      BY <3>1 DEF OnceInv, EvaluatesOnce
    <3> HIDE DEF n
    <3>4. Seen' = [Seen EXCEPT ![n] = 1] /\ Seen[n] = 0
      BY <1>0, <3>1, <3>2, <3>3 DEF Seen, PreOrderEntries
    <3>5. ParentsBefore[n] \subseteq Abstract!Evaluated
      <4>1. Abstract!Evaluated = Done \cap PreOrderEntries
        BY DEF Abstract!Evaluated, Done, PreOrderEntries
      <4> QED
        BY <3>2, <4>1 DEF ParentsBefore, ReadyAfter
    <3>6. PICK m \in PreOrderEntries : m = n
      BY <3>2
    <3>7. Abstract!Evaluate(m)
      BY <2>1, <3>4, <3>5, <3>6 DEF Abstract!Evaluate, Seen
    <3> QED
      BY <3>6, <3>7 DEF Abstract!TravNext
  <2> QED
    BY <2>2, <2>3
<1> QED
  BY <1>1, <1>2, <1>3 DEF Next

(* The engine implements the promise, but for its fairness: every entry is   *)
(* evaluated at most once and after its ancestors, and the walk ends         *)
(* complete only with every entry evaluated, stopped only after a -quit,     *)
(* failed only after a failed evaluation or an unreadable directory.         *)
THEOREM EngineKeepsThePromise == Spec => Abstract!TravSafety
<1>1. Init => Abstract!TravInit
  BY PromiseInit
<1>2. LossInv /\ OnceInv /\ VerdictKnown' /\ [Next]_vars => [Abstract!TravNext]_<<Seen, Verdict>>
  BY PromiseStep
<1>3. [Abstract!TravNext]_<<Seen, Verdict>> => [Abstract!TravNext]_(Abstract!travVars)
  BY DEF Seen, Abstract!travVars
<1>4. Spec => []OnceInv
  <2>1. Init => OnceInv
    BY OnceInit
  <2>2. LossInv /\ OnceInv /\ [Next]_vars => OnceInv'
    BY OnceStep DEF LossInv
  <2> QED
    BY <2>1, <2>2, LossInvariant, PTL DEF Spec
<1> QED
  BY <1>1, <1>2, <1>3, <1>4, LossInvariant, VerdictInvariant, PTL DEF Spec, Abstract!TravSafety
=============================================================================
