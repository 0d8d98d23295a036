----------------------------- MODULE Scheduler -----------------------------
(***************************************************************************)
(* The work-stealing scheduler of the parallel engine: the control flags   *)
(* and the task counter of src/src/parallel/control.rs, the queues of      *)
(* src/src/parallel/scheduler.rs, and the loop every worker thread runs    *)
(* (run_parallel_worker in src/src/parallel/worker.rs).                    *)
(*                                                                         *)
(* What a task does is left open here: while it runs it may publish tasks, *)
(* ask for -quit, and return Ok or Err (the actions named Body...).  The   *)
(* traversal engines instantiate this module and give those actions their  *)
(* content.                                                                *)
(*                                                                         *)
(* Every load, store and read-modify-write of a shared atomic is a step of *)
(* its own, and so is every queue operation.                               *)
(***************************************************************************)
EXTENDS Integers, Sequences, FiniteSets

CONSTANTS
  NWorkers,   \* number of worker threads
  Task,       \* the tasks
  NoTask,     \* "no task"
  Roots       \* the root tasks in the order run_parallel_v2 injects them

ASSUME SchedulerAssumption ==
  /\ NWorkers \in Nat \ {0}
  /\ NoTask \notin Task
  /\ Roots \in Seq(Task)

Worker == 1..NWorkers

VARIABLES
  accept,       \* GlobalControl.accept_new_work
  quit,         \* GlobalControl.quit_seen
  fatal,        \* GlobalControl.fatal_error_seen
  outstanding,  \* GlobalControl.outstanding_tasks
  injector,     \* the global queue
  deque,        \* one FIFO deque per worker
  pc,           \* where each worker is
  task,         \* the task each worker holds
  pub,          \* the task each worker is publishing
  victim,       \* the peer each worker tries to steal from next
  woken,        \* the sleeping workers the condition variable has notified
  failed,       \* the workers whose last task, or final flush, returned Err
  spawned,      \* history: the tasks published so far
  finished      \* history: the tasks task_finished was called for

control == <<accept, quit, fatal>>
queues  == <<injector, deque>>
history == <<spawned, finished>>
schedVars == <<accept, quit, fatal, outstanding, injector, deque, pc, task,
               pub, victim, woken, failed, spawned, finished>>

Location == {"local", "inject", "steal", "check", "enter", "asleep", "got",
             "run", "count", "push", "quit", "finish", "notify", "fatal",
             "stop", "alert", "flush", "exit", "dead"}

(* The workers start after main has pushed every root task. *)
SchedInit ==
  /\ accept = TRUE /\ quit = FALSE /\ fatal = FALSE
  /\ outstanding = Len(Roots)
  /\ injector = Roots
  /\ deque = [w \in Worker |-> <<>>]
  /\ pc = [w \in Worker |-> "local"]
  /\ task = [w \in Worker |-> NoTask]
  /\ pub = [w \in Worker |-> NoTask]
  /\ victim = [w \in Worker |-> 1]
  /\ woken = {}
  /\ failed = {}
  /\ spawned = {Roots[i] : i \in 1..Len(Roots)}
  /\ finished = {}

Goto(w, from, to) == pc[w] = from /\ pc' = [pc EXCEPT ![w] = to]

-----------------------------------------------------------------------------
(* pop_nonblocking: the own deque, then the injector, then every peer.     *)

PopLocal(w) ==
  /\ deque[w] # <<>>
  /\ Goto(w, "local", "got")
  /\ task' = [task EXCEPT ![w] = Head(deque[w])]
  /\ deque' = [deque EXCEPT ![w] = Tail(@)]
  /\ UNCHANGED <<control, outstanding, injector, pub, victim, woken, failed, history>>

LocalEmpty(w) ==
  /\ deque[w] = <<>>
  /\ Goto(w, "local", "inject")
  /\ UNCHANGED <<control, outstanding, queues, task, pub, victim, woken, failed, history>>

(* Mutant: the returned task is also moved to the own deque. *)
StealInjectorTwice(w) == \E k \in 1..Len(injector) :
  /\ Goto(w, "inject", "got")
  /\ task' = [task EXCEPT ![w] = injector[1]]
  /\ deque' = [deque EXCEPT ![w] = @ \o SubSeq(injector, 1, k)]
  /\ injector' = SubSeq(injector, k + 1, Len(injector))
  /\ UNCHANGED <<control, outstanding, pub, victim, woken, failed, history>>

(* steal_batch_and_pop takes the oldest k tasks, k being the queue's choice: *)
(* the first is returned, the others go to the worker's own deque.           *)
StealInjector(w) == \E k \in 1..Len(injector) :
  /\ Goto(w, "inject", "got")
  /\ task' = [task EXCEPT ![w] = injector[1]]
  /\ deque' = [deque EXCEPT ![w] = @ \o SubSeq(injector, 2, k)]
  /\ injector' = SubSeq(injector, k + 1, Len(injector))
  /\ UNCHANGED <<control, outstanding, pub, victim, woken, failed, history>>

(* Steal::Empty, or Steal::Retry when another thread won the race. *)
InjectorMissed(w) ==
  /\ Goto(w, "inject", "steal")
  /\ victim' = [victim EXCEPT ![w] = 1]
  /\ UNCHANGED <<control, outstanding, queues, task, pub, woken, failed, history>>

StealPeer(w) == LET v == victim[w] IN
  /\ v \in Worker \ {w}
  /\ deque[v] # <<>>
  /\ Goto(w, "steal", "got")
  /\ task' = [task EXCEPT ![w] = Head(deque[v])]
  /\ deque' = [deque EXCEPT ![v] = Tail(@)]
  /\ UNCHANGED <<control, outstanding, injector, pub, victim, woken, failed, history>>

(* Mutant: the loop over the stealers runs one too far. *)
PeerMissedInclusive(w) ==
  /\ pc[w] = "steal"
  /\ victim[w] \in 1..(NWorkers + 1)
  /\ victim' = [victim EXCEPT ![w] = @ + 1]
  /\ UNCHANGED <<control, outstanding, queues, pc, task, pub, woken, failed, history>>

(* The peer's deque was empty, the steal lost a race, or the index is w's own. *)
PeerMissed(w) ==
  /\ pc[w] = "steal"
  /\ victim[w] \in Worker
  /\ victim' = [victim EXCEPT ![w] = @ + 1]
  /\ UNCHANGED <<control, outstanding, queues, pc, task, pub, woken, failed, history>>

NothingFound(w) ==
  /\ victim[w] > NWorkers
  /\ Goto(w, "steal", "check")
  /\ UNCHANGED <<control, outstanding, queues, task, pub, victim, woken, failed, history>>

-----------------------------------------------------------------------------
(* pop_blocking: leave when the counter is zero, else wait at most 10 ms.  *)

(* Mutant: empty queues taken for the end of the work. *)
LeaveWhenQueuesEmpty(w) ==
  /\ injector = <<>> /\ \A v \in Worker : deque[v] = <<>>
  /\ Goto(w, "check", "flush")
  /\ UNCHANGED <<control, outstanding, queues, task, pub, victim, woken, failed, history>>

LeaveLoop(w) ==
  /\ outstanding = 0
  /\ Goto(w, "check", "flush")
  /\ UNCHANGED <<control, outstanding, queues, task, pub, victim, woken, failed, history>>

GoToSleep(w) ==
  /\ outstanding # 0
  /\ Goto(w, "check", "enter")
  /\ UNCHANGED <<control, outstanding, queues, task, pub, victim, woken, failed, history>>

StartWait(w) ==
  /\ Goto(w, "enter", "asleep")
  /\ UNCHANGED <<control, outstanding, queues, task, pub, victim, woken, failed, history>>

Notified(w) ==
  /\ w \in woken
  /\ Goto(w, "asleep", "local")
  /\ woken' = woken \ {w}
  /\ UNCHANGED <<control, outstanding, queues, task, pub, victim, failed, history>>

(* Mutant: a wait without a timeout. *)
NeverTimesOut(w) == FALSE /\ UNCHANGED schedVars

TimesOut(w) ==
  /\ w \notin woken
  /\ Goto(w, "asleep", "local")
  /\ UNCHANGED <<control, outstanding, queues, task, pub, victim, woken, failed, history>>

NotifySleepers == woken' = {w \in Worker : pc[w] = "asleep"}

-----------------------------------------------------------------------------
(* The body of run_parallel_worker's loop around the task.                 *)

(* Mutant: the task is counted as finished before it runs. *)
AdmitAndFinish(w) ==
  /\ Goto(w, "got", IF accept THEN "run" ELSE "finish")
  /\ outstanding' = outstanding - 1
  /\ UNCHANGED <<control, queues, task, pub, victim, woken, failed, history>>

Admit(w) ==
  /\ Goto(w, "got", IF accept THEN "run" ELSE "finish")
  /\ UNCHANGED <<control, outstanding, queues, task, pub, victim, woken, failed, history>>

TaskFinished(w) ==
  /\ Goto(w, "finish", "notify")
  /\ outstanding' = outstanding - 1
  /\ task' = [task EXCEPT ![w] = NoTask]
  /\ finished' = finished \cup {task[w]}
  /\ UNCHANGED <<control, queues, pub, victim, woken, failed, spawned>>

NotifyAtZero(w) ==
  /\ Goto(w, "notify", IF w \in failed THEN "fatal" ELSE "local")
  /\ IF outstanding = 0 THEN NotifySleepers ELSE woken' = woken
  /\ UNCHANGED <<control, outstanding, queues, task, pub, victim, failed, history>>

(* request_fatal_stop is two stores, in this order. *)
StoreFatal(w) ==
  /\ Goto(w, "fatal", "stop")
  /\ fatal' = TRUE
  /\ UNCHANGED <<accept, quit, outstanding, queues, task, pub, victim, woken, failed, history>>

StopAfterFatal(w) ==
  /\ Goto(w, "stop", "alert")
  /\ accept' = FALSE
  /\ UNCHANGED <<quit, fatal, outstanding, queues, task, pub, victim, woken, failed, history>>

(* The worker sends its error and returns; what is left in its deque stays  *)
(* there, within reach of its peers.                                        *)
Die(w) ==
  /\ Goto(w, "alert", "dead")
  /\ NotifySleepers
  /\ UNCHANGED <<control, outstanding, queues, task, pub, victim, failed, history>>

FlushAndReport(w) ==
  /\ Goto(w, "flush", "exit")
  /\ UNCHANGED <<control, outstanding, queues, task, pub, victim, woken, failed, history>>

FlushFails(w) ==
  /\ Goto(w, "flush", "fatal")
  /\ failed' = failed \cup {w}
  /\ UNCHANGED <<control, outstanding, queues, task, pub, victim, woken, history>>

-----------------------------------------------------------------------------
(* What a running task does to the scheduler.                              *)

(* push_local: returns at once when new work is refused ... *)
BeginPush(w, t) ==
  /\ pc[w] = "run"
  /\ pc' = [pc EXCEPT ![w] = IF accept THEN "count" ELSE "run"]
  /\ pub' = [pub EXCEPT ![w] = IF accept THEN t ELSE NoTask]
  /\ UNCHANGED <<control, outstanding, queues, task, victim, woken, failed, history>>

(* Mutant: a published task is not counted. *)
CountNothing(w) ==
  /\ Goto(w, "count", "push")
  /\ spawned' = spawned \cup {pub[w]}
  /\ UNCHANGED <<control, outstanding, queues, task, pub, victim, woken, failed, finished>>

(* ... else counts the task first ... *)
CountTask(w) ==
  /\ Goto(w, "count", "push")
  /\ outstanding' = outstanding + 1
  /\ spawned' = spawned \cup {pub[w]}
  /\ UNCHANGED <<control, queues, task, pub, victim, woken, failed, finished>>

(* ... and makes it visible to the thieves last. *)
PushTask(w) ==
  /\ Goto(w, "push", "run")
  /\ deque' = [deque EXCEPT ![w] = Append(@, pub[w])]
  /\ pub' = [pub EXCEPT ![w] = NoTask]
  /\ UNCHANGED <<control, outstanding, injector, task, victim, woken, failed, history>>

(* request_quit is two stores too. *)
StoreQuit(w) ==
  /\ Goto(w, "run", "quit")
  /\ quit' = TRUE
  /\ UNCHANGED <<accept, fatal, outstanding, queues, task, pub, victim, woken, failed, history>>

StopAfterQuit(w) ==
  /\ Goto(w, "quit", "run")
  /\ accept' = FALSE
  /\ UNCHANGED <<quit, fatal, outstanding, queues, task, pub, victim, woken, failed, history>>

TaskReturns(w, ok) ==
  /\ Goto(w, "run", "finish")
  /\ failed' = IF ok THEN failed ELSE failed \cup {w}
  /\ UNCHANGED <<control, outstanding, queues, task, pub, victim, woken, history>>

-----------------------------------------------------------------------------
AllReturned == \A w \in Worker : pc[w] \in {"exit", "dead"}

(* The part of a worker that does not depend on what its task does. *)
WorkerLoop(w) ==
  \/ PopLocal(w) \/ LocalEmpty(w) \/ StealInjector(w) \/ InjectorMissed(w)
  \/ StealPeer(w) \/ PeerMissed(w) \/ NothingFound(w)
  \/ LeaveLoop(w) \/ GoToSleep(w) \/ StartWait(w) \/ Notified(w) \/ TimesOut(w)
  \/ Admit(w) \/ TaskFinished(w) \/ NotifyAtZero(w)
  \/ StoreFatal(w) \/ StopAfterFatal(w) \/ Die(w)
  \/ FlushAndReport(w)
  \/ CountTask(w) \/ PushTask(w) \/ StopAfterQuit(w)

(* A running task may publish any task, ask for -quit, or return. *)
TaskBody(w) ==
  \/ \E t \in Task : BeginPush(w, t)
  \/ StoreQuit(w)
  \/ \E ok \in BOOLEAN : TaskReturns(w, ok)

SchedNext ==
  \/ \E w \in Worker : WorkerLoop(w) \/ FlushFails(w) \/ TaskBody(w)
  \/ AllReturned /\ UNCHANGED schedVars

(* Each worker is a thread that keeps running.  A steal fails without       *)
(* reason only when another thread's operation on the queue succeeded, so a *)
(* worker that can take a task again and again takes one in the end.  Every *)
(* task returns: it publishes finitely many tasks and reads finite          *)
(* directories.                                                             *)
SchedFairness == \A w \in Worker :
  /\ WF_schedVars(WorkerLoop(w))
  /\ SF_schedVars(\E ok \in BOOLEAN : TaskReturns(w, ok))
  /\ SF_schedVars(StealInjector(w))
  /\ SF_schedVars(StealPeer(w))

SchedSpec == SchedInit /\ [][SchedNext]_schedVars
FairSchedSpec == SchedSpec /\ SchedFairness

(* To tell the tasks apart: none is published twice. *)
PublishedOnce == \A w \in Worker :
  pc[w] = "run" /\ pc'[w] = "count" =>
    pub'[w] \notin spawned \cup {pub[v] : v \in Worker}

OnceNext == SchedNext /\ PublishedOnce
OnceSpec == SchedInit /\ [][OnceNext]_schedVars
-----------------------------------------------------------------------------
(* Properties *)

(* Every variable has its type; the queues hold tasks only. *)
TypeOK ==
  /\ accept \in BOOLEAN /\ quit \in BOOLEAN /\ fatal \in BOOLEAN
  /\ outstanding \in Nat
  /\ injector \in Seq(Task)
  /\ deque \in [Worker -> Seq(Task)]
  /\ pc \in [Worker -> Location]
  /\ task \in [Worker -> Task \cup {NoTask}]
  /\ pub \in [Worker -> Task \cup {NoTask}]
  /\ victim \in [Worker -> 1..(NWorkers + 1)]
  /\ woken \subseteq Worker
  /\ failed \subseteq Worker
  /\ spawned \subseteq Task
  /\ finished \subseteq Task

InHand == {w \in Worker : pc[w] \in {"got", "run", "count", "push", "quit", "finish"}}
Counted == {w \in Worker : pc[w] = "push"}

(* One slot for each task in a queue, in a worker's hand, or counted and not *)
(* yet pushed; queue 0 is the injector.                                      *)
SlotsOf(inj, deques, inHand, counted) ==
  {<<0, i>> : i \in 1..Len(inj)}
    \cup (UNION {{<<w, i>> : i \in 1..Len(deques[w])} : w \in Worker})
    \cup {<<w, 0>> : w \in inHand}
    \cup {<<w, -1>> : w \in counted}

Slots == SlotsOf(injector, deque, InHand, Counted)

(* The counter the workers decide on (control.rs outstanding_tasks) is, in   *)
(* every state, the number of tasks that are queued, being run, or about to  *)
(* be queued: it is never low, which would end the run with work left, and   *)
(* never high, which would keep the workers waiting for ever.                *)
OutstandingExact == outstanding = Cardinality(Slots)

(* Once a worker has left pop_blocking because the counter was zero, no task *)
(* is left anywhere and no worker will ever run one: pop_blocking's exit     *)
(* test is a sound detection of termination.                                 *)
NobodyLeavesEarly ==
  (\E w \in Worker : pc[w] \in {"flush", "exit"}) => Slots = {}

TaskIn(s) ==
  IF s[1] = 0 THEN injector[s[2]]
  ELSE IF s[2] = 0 THEN task[s[1]]
  ELSE IF s[2] = -1 THEN pub[s[1]] ELSE deque[s[1]][s[2]]

(* The queues neither lose nor copy a task, whoever steals what from whom:   *)
(* where no task is published twice (OnceSpec), a published task is in       *)
(* exactly one place until task_finished is called for it, and nowhere       *)
(* afterwards.                                                               *)
EachTaskInOnePlace == \A t \in Task :
  Cardinality({s \in Slots : TaskIn(s) = t}) = IF t \in spawned \ finished THEN 1 ELSE 0

(* Zero is final: after the counter has reached zero nothing raises it       *)
(* again, so workers that look at different moments decide the same.         *)
ZeroIsFinal == [][outstanding = 0 => outstanding' = 0]_schedVars

(* Every worker returns: after a drained queue, a quit, or the failure of    *)
(* any other worker, with the 10 ms timeout as the only wake-up that can be  *)
(* relied on.                                                                *)
AllWorkersReturn == <>AllReturned
=============================================================================
