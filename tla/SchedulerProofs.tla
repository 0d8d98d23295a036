-------------------------- MODULE SchedulerProofs --------------------------
(***************************************************************************)
(* Proofs about Scheduler, for every number of workers, every set of tasks *)
(* and every sequence of roots.                                            *)
(***************************************************************************)
EXTENDS Scheduler, FiniteSetTheorems, FunctionTheorems, SequenceTheorems, TLAPS

(* A worker that has a task in hand, or one to publish, holds a task. *)
HandsHoldTasks == \A w \in Worker :
  /\ w \in InHand => task[w] \in Task
  /\ pc[w] \in {"count", "push"} => pub[w] \in Task

(* Who has left pop_blocking found the counter at zero, and it still is. *)
LeftAtZero == (\E w \in Worker : pc[w] \in {"flush", "exit"}) => outstanding = 0

(* The inductive invariant: the counter is exact, and the workers that have *)
(* left found it at zero.                                                   *)
SchedInv ==
  /\ TypeOK
  /\ HandsHoldTasks
  /\ IsFiniteSet(Slots)
  /\ OutstandingExact
  /\ LeftAtZero

-----------------------------------------------------------------------------
(* Slots                                                                   *)

(* What belongs to a set of slots. *)
LEMMA SlotMembership ==
  ASSUME NEW inj, NEW deques, NEW inHand, NEW counted, NEW s
  PROVE  s \in SlotsOf(inj, deques, inHand, counted) <=>
           \/ \E i \in 1..Len(inj) : s = <<0, i>>
           \/ \E w \in Worker : \E i \in 1..Len(deques[w]) : s = <<w, i>>
           \/ \E w \in inHand : s = <<w, 0>>
           \/ \E w \in counted : s = <<w, -1>>
<1> DEFINE queue(w) == {<<w, i>> : i \in 1..Len(deques[w])}
<1>1. s \in UNION {queue(w) : w \in Worker} <=> \E w \in Worker : s \in queue(w)
  OBVIOUS
<1>2. \A w : s \in queue(w) <=> \E i \in 1..Len(deques[w]) : s = <<w, i>>
  OBVIOUS
<1>3. s \in UNION {queue(w) : w \in Worker} <=>
        \E w \in Worker : \E i \in 1..Len(deques[w]) : s = <<w, i>>
  BY <1>1, <1>2
<1>4. s \in {<<0, i>> : i \in 1..Len(inj)} <=> \E i \in 1..Len(inj) : s = <<0, i>>
  OBVIOUS
<1>5. s \in {<<w, 0>> : w \in inHand} <=> \E w \in inHand : s = <<w, 0>>
  OBVIOUS
<1>6. s \in {<<w, -1>> : w \in counted} <=> \E w \in counted : s = <<w, -1>>
  OBVIOUS
<1> QED
  BY <1>3, <1>4, <1>5, <1>6, Zenon DEF SlotsOf

(* Replacing an element of a finite set by a new one keeps its size. *)
LEMMA SwapElement ==
  ASSUME NEW S, IsFiniteSet(S), NEW x \in S, NEW y, y \notin S
  PROVE  /\ IsFiniteSet((S \ {x}) \cup {y})
         /\ Cardinality((S \ {x}) \cup {y}) = Cardinality(S)
<1>1. /\ IsFiniteSet(S \ {x})
      /\ Cardinality(S \ {x}) = Cardinality(S) - 1
  BY FS_RemoveElement
<1>2. /\ IsFiniteSet((S \ {x}) \cup {y})
      /\ Cardinality((S \ {x}) \cup {y}) = Cardinality(S \ {x}) + 1
  BY <1>1, FS_AddElement
<1>3. Cardinality(S) \in Nat
  BY FS_CardinalityType
<1> QED
  BY <1>1, <1>2, <1>3

-----------------------------------------------------------------------------
(* Types                                                                   *)

(* The initial state has its types, and no worker holds a task. *)
LEMMA InitTypes == SchedInit => TypeOK /\ HandsHoldTasks
<1> SUFFICES ASSUME SchedInit PROVE TypeOK /\ HandsHoldTasks
  OBVIOUS
<1> USE SchedulerAssumption
<1>1. outstanding \in Nat /\ spawned \subseteq Task
  BY LenProperties DEF SchedInit
<1>2. victim \in [Worker -> 1..(NWorkers + 1)]
  BY DEF SchedInit
<1>3. deque \in [Worker -> Seq(Task)]
  BY DEF SchedInit
<1> QED
  BY <1>1, <1>2, <1>3 DEF SchedInit, TypeOK, HandsHoldTasks, Location, InHand

(* A task in hand is counted. *)
LEMMA HandIsCounted ==
  ASSUME SchedInv, NEW w \in InHand
  PROVE  outstanding \in Nat \ {0}
<1>1. <<w, 0>> \in Slots
  BY SlotMembership DEF Slots
<1>2. Slots # {} /\ IsFiniteSet(Slots)
  BY <1>1 DEF SchedInv
<1>3. Cardinality(Slots) # 0 /\ Cardinality(Slots) \in Nat
  BY <1>2, FS_EmptySet, FS_CardinalityType
<1> QED
  BY <1>3 DEF SchedInv, OutstandingExact

(* Every step keeps the types, given that the hands hold tasks. *)
LEMMA StepTypes ==
  SchedInv /\ [SchedNext]_schedVars => TypeOK' /\ HandsHoldTasks'
<1> SUFFICES ASSUME SchedInv, [SchedNext]_schedVars
             PROVE  TypeOK' /\ HandsHoldTasks'
  OBVIOUS
<1> USE SchedulerAssumption
<1>0. TypeOK /\ HandsHoldTasks
  BY DEF SchedInv
<1>1. ASSUME NEW w \in Worker, PopLocal(w)
      PROVE  TypeOK' /\ HandsHoldTasks'
  <2>1. Head(deque[w]) \in Task /\ Tail(deque[w]) \in Seq(Task)
    BY <1>0, <1>1, HeadTailProperties DEF PopLocal, TypeOK
  <2> QED
    BY <1>0, <1>1, <2>1 DEF PopLocal, Goto, control, history, TypeOK, HandsHoldTasks, InHand, Location
<1>2. ASSUME NEW w \in Worker, StealInjector(w)
      PROVE  TypeOK' /\ HandsHoldTasks'
  <2> PICK k \in 1..Len(injector) :
        /\ Goto(w, "inject", "got")
        /\ task' = [task EXCEPT ![w] = injector[1]]
        /\ deque' = [deque EXCEPT ![w] = @ \o SubSeq(injector, 2, k)]
        /\ injector' = SubSeq(injector, k + 1, Len(injector))
        /\ UNCHANGED <<control, outstanding, pub, victim, woken, failed, history>>
    BY <1>2 DEF StealInjector
  <2>1. /\ Len(injector) \in Nat /\ injector[1] \in Task
        /\ \A i \in 1..Len(injector) : injector[i] \in Task
    BY <1>0, LenProperties, ElementOfSeq DEF TypeOK
  <2>2. SubSeq(injector, 2, k) \in Seq(Task)
    BY <2>1, SubSeqProperties
  <2>3. injector' \in Seq(Task)
    BY <2>1, SubSeqProperties
  <2>4. deque[w] \o SubSeq(injector, 2, k) \in Seq(Task)
    BY <1>0, <2>2, ConcatProperties DEF TypeOK
  <2> QED
    BY <1>0, <2>1, <2>3, <2>4 DEF Goto, control, history, TypeOK, HandsHoldTasks, InHand, Location
<1>3. ASSUME NEW w \in Worker, StealPeer(w)
      PROVE  TypeOK' /\ HandsHoldTasks'
  <2> DEFINE v == victim[w]
  <2>1. v \in Worker /\ Head(deque[v]) \in Task /\ Tail(deque[v]) \in Seq(Task)
    BY <1>0, <1>3, HeadTailProperties DEF StealPeer, TypeOK
  <2>2. /\ task' = [task EXCEPT ![w] = Head(deque[v])]
        /\ deque' = [deque EXCEPT ![v] = Tail(@)]
        /\ Goto(w, "steal", "got")
        /\ UNCHANGED <<control, outstanding, injector, pub, victim, woken, failed, history>>
    BY <1>3 DEF StealPeer
  <2> HIDE DEF v
  <2> QED
    BY <1>0, <2>1, <2>2 DEF Goto, control, history, TypeOK, HandsHoldTasks, InHand, Location
<1>4. ASSUME NEW w \in Worker,
             \/ LocalEmpty(w) \/ NothingFound(w)
             \/ LeaveLoop(w) \/ GoToSleep(w) \/ StartWait(w) \/ Notified(w) \/ TimesOut(w)
      PROVE  TypeOK' /\ HandsHoldTasks'
  BY ZenonT(120), <1>0, <1>4 DEF LocalEmpty, NothingFound, LeaveLoop, GoToSleep, StartWait, Notified, TimesOut,
       Goto, control, queues, history, TypeOK, HandsHoldTasks, InHand, Location
<1>4a. ASSUME NEW w \in Worker, InjectorMissed(w) \/ PeerMissed(w)
       PROVE  TypeOK' /\ HandsHoldTasks'
  <2>1. PICK i \in 1..(NWorkers + 1) : victim' = [victim EXCEPT ![w] = i]
    <3>1. CASE InjectorMissed(w)
      <4>1. 1 \in 1..(NWorkers + 1)
        OBVIOUS
      <4> QED
        BY <3>1, <4>1 DEF InjectorMissed
    <3>2. CASE PeerMissed(w)
      <4>1. victim[w] + 1 \in 1..(NWorkers + 1)
        BY <3>2 DEF PeerMissed, Worker
      <4> QED
        BY <3>2, <4>1 DEF PeerMissed
    <3> QED
      BY <1>4a, <3>1, <3>2
  <2> QED
    BY ZenonT(120), <1>0, <1>4a, <2>1 DEF InjectorMissed, PeerMissed,
         Goto, control, queues, history, TypeOK, HandsHoldTasks, InHand, Location
<1>5. ASSUME NEW w \in Worker, TaskFinished(w)
      PROVE  TypeOK' /\ HandsHoldTasks'
  <2>1. w \in InHand
    BY <1>5 DEF TaskFinished, Goto, InHand
  <2>2. outstanding - 1 \in Nat
    BY <2>1, HandIsCounted
  <2>3. task[w] \in Task
    BY <1>0, <2>1 DEF HandsHoldTasks
  <2> QED
    BY <1>0, <1>5, <2>2, <2>3
       DEF TaskFinished, Goto, control, queues, TypeOK, HandsHoldTasks, InHand, Location
<1>6. ASSUME NEW w \in Worker,
             \/ Admit(w) \/ NotifyAtZero(w) \/ StoreFatal(w) \/ StopAfterFatal(w) \/ Die(w)
             \/ FlushAndReport(w) \/ FlushFails(w)
      PROVE  TypeOK' /\ HandsHoldTasks'
  BY ZenonT(120), <1>0, <1>6 DEF Admit, NotifyAtZero, NotifySleepers, StoreFatal, StopAfterFatal, Die,
       FlushAndReport, FlushFails,
       Goto, control, queues, history, TypeOK, HandsHoldTasks, InHand, Location
<1>7. ASSUME NEW w \in Worker, NEW t \in Task, BeginPush(w, t)
      PROVE  TypeOK' /\ HandsHoldTasks'
  BY <1>0, <1>7 DEF BeginPush, control, queues, history, TypeOK, HandsHoldTasks, InHand, Location
<1>8. ASSUME NEW w \in Worker, CountTask(w)
      PROVE  TypeOK' /\ HandsHoldTasks'
  BY <1>0, <1>8 DEF CountTask, Goto, control, queues, TypeOK, HandsHoldTasks, InHand, Location
<1>9. ASSUME NEW w \in Worker, PushTask(w)
      PROVE  TypeOK' /\ HandsHoldTasks'
  <2>1. pub[w] \in Task
    BY <1>0, <1>9 DEF PushTask, Goto, HandsHoldTasks
  <2>2. Append(deque[w], pub[w]) \in Seq(Task)
    BY <1>0, <2>1 DEF TypeOK
  <2> QED
    BY <1>0, <1>9, <2>2
       DEF PushTask, Goto, control, history, TypeOK, HandsHoldTasks, InHand, Location
<1>10. ASSUME NEW w \in Worker,
              \/ StoreQuit(w) \/ StopAfterQuit(w) \/ \E ok \in BOOLEAN : TaskReturns(w, ok)
       PROVE  TypeOK' /\ HandsHoldTasks'
  BY ZenonT(120), <1>0, <1>10 DEF StoreQuit, StopAfterQuit, TaskReturns,
       Goto, control, queues, history, TypeOK, HandsHoldTasks, InHand, Location
<1>11. CASE UNCHANGED schedVars
  BY <1>0, <1>11 DEF schedVars, TypeOK, HandsHoldTasks, InHand
<1> QED
  BY <1>1, <1>2, <1>3, <1>4, <1>4a, <1>5, <1>6, <1>7, <1>8, <1>9, <1>10, <1>11
     DEF SchedNext, WorkerLoop, TaskBody

-----------------------------------------------------------------------------
(* What each step does to the slots                                        *)

(* A step that moves no task leaves the slots as they are. *)
LEMMA SlotsUntouched ==
  ASSUME injector' = injector, deque' = deque, InHand' = InHand, Counted' = Counted
  PROVE  Slots' = Slots
BY DEF Slots

(* A deque one shorter and a hand more: one slot was exchanged for another. *)
LEMMA SlotTaken ==
  ASSUME NEW inj, NEW D, NEW E, NEW H, NEW G, NEW C,
         NEW w \in Worker, NEW v \in Worker,
         \A u \in Worker : Len(D[u]) \in Nat, Len(D[v]) # 0,
         \A u \in Worker \ {v} : Len(E[u]) = Len(D[u]), Len(E[v]) = Len(D[v]) - 1,
         w \notin H, G = H \cup {w},
         IsFiniteSet(SlotsOf(inj, D, H, C))
  PROVE  /\ IsFiniteSet(SlotsOf(inj, E, G, C))
         /\ Cardinality(SlotsOf(inj, E, G, C)) = Cardinality(SlotsOf(inj, D, H, C))
<1> DEFINE S == SlotsOf(inj, D, H, C)
           T == SlotsOf(inj, E, G, C)
           last == <<v, Len(D[v])>>
           hand == <<w, 0>>
           inInjector(s) == \E i \in 1..Len(inj) : s = <<0, i>>
           inCounted(s) == \E u \in C : s = <<u, -1>>
<1>1. \A s : s \in S <=>
        \/ inInjector(s)
        \/ \E u \in Worker : \E i \in 1..Len(D[u]) : s = <<u, i>>
        \/ \E u \in H : s = <<u, 0>>
        \/ inCounted(s)
  BY SlotMembership
<1>2. \A s : s \in T <=>
        \/ inInjector(s)
        \/ \E u \in Worker : \E i \in 1..Len(E[u]) : s = <<u, i>>
        \/ \E u \in G : s = <<u, 0>>
        \/ inCounted(s)
  BY SlotMembership
<1>3. last \in S
  <2>1. Len(D[v]) \in 1..Len(D[v])
    OBVIOUS
  <2> QED
    BY <2>1, <1>1
<1>4. /\ ~inInjector(hand) /\ ~inCounted(hand)
      /\ ~inInjector(last) /\ ~inCounted(last)
      /\ \A u \in H : last # <<u, 0>>
  BY DEF Worker
<1>5. hand \notin S
  BY <1>1, <1>4
<1>6. \A s : (\E u \in Worker : \E i \in 1..Len(E[u]) : s = <<u, i>>) <=>
             /\ \E u \in Worker : \E i \in 1..Len(D[u]) : s = <<u, i>>
             /\ s # last
  OBVIOUS
<1> HIDE DEF S, T, last, hand, inInjector, inCounted
<1>7. T = (S \ {last}) \cup {hand}
  BY <1>1, <1>2, <1>4, <1>6 DEF hand
<1> QED
  <2>1. IsFiniteSet(S)
    BY DEF S
  <2>2. IsFiniteSet(T) /\ Cardinality(T) = Cardinality(S)
    BY <2>1, <1>3, <1>5, <1>7, SwapElement
  <2> QED
    BY <2>2 DEF S, T

(* A worker lets go of its task. *)
LEMMA SlotReleased ==
  ASSUME NEW inj, NEW D, NEW H, NEW G, NEW C, NEW w \in Worker,
         w \in H, G = H \ {w}
  PROVE  /\ <<w, 0>> \in SlotsOf(inj, D, H, C)
         /\ SlotsOf(inj, D, G, C) = SlotsOf(inj, D, H, C) \ {<<w, 0>>}
<1> DEFINE S == SlotsOf(inj, D, H, C)
           T == SlotsOf(inj, D, G, C)
           elsewhere(s) == \/ \E i \in 1..Len(inj) : s = <<0, i>>
                           \/ \E u \in Worker : \E i \in 1..Len(D[u]) : s = <<u, i>>
                           \/ \E u \in C : s = <<u, -1>>
<1>1. \A s : s \in S <=> elsewhere(s) \/ \E u \in H : s = <<u, 0>>
  BY SlotMembership
<1>2. \A s : s \in T <=> elsewhere(s) \/ \E u \in G : s = <<u, 0>>
  BY SlotMembership
<1>3. ~elsewhere(<<w, 0>>)
  BY DEF Worker
<1> HIDE DEF S, T, elsewhere
<1> QED
  <2>1. <<w, 0>> \in S /\ T = S \ {<<w, 0>>}
    BY <1>1, <1>2, <1>3
  <2> QED
    BY <2>1 DEF S, T

(* A worker counts the task it is about to push. *)
LEMMA SlotCounted ==
  ASSUME NEW inj, NEW D, NEW H, NEW C, NEW B, NEW w \in Worker,
         w \notin C, B = C \cup {w}
  PROVE  /\ <<w, -1>> \notin SlotsOf(inj, D, H, C)
         /\ SlotsOf(inj, D, H, B) = SlotsOf(inj, D, H, C) \cup {<<w, -1>>}
<1> DEFINE S == SlotsOf(inj, D, H, C)
           T == SlotsOf(inj, D, H, B)
           elsewhere(s) == \/ \E i \in 1..Len(inj) : s = <<0, i>>
                           \/ \E u \in Worker : \E i \in 1..Len(D[u]) : s = <<u, i>>
                           \/ \E u \in H : s = <<u, 0>>
<1>1. \A s : s \in S <=> elsewhere(s) \/ \E u \in C : s = <<u, -1>>
  BY SlotMembership
<1>2. \A s : s \in T <=> elsewhere(s) \/ \E u \in B : s = <<u, -1>>
  BY SlotMembership
<1>3. ~elsewhere(<<w, -1>>)
  BY DEF Worker
<1> HIDE DEF S, T, elsewhere
<1> QED
  <2>1. <<w, -1>> \notin S /\ T = S \cup {<<w, -1>>}
    BY <1>1, <1>2, <1>3
  <2> QED
    BY <2>1 DEF S, T

(* A counted task arrives in its worker's deque. *)
LEMMA SlotPushed ==
  ASSUME NEW inj, NEW D, NEW E, NEW H, NEW C, NEW B, NEW w \in Worker,
         \A u \in Worker : Len(D[u]) \in Nat,
         \A u \in Worker \ {w} : Len(E[u]) = Len(D[u]), Len(E[w]) = Len(D[w]) + 1,
         w \in C, B = C \ {w},
         IsFiniteSet(SlotsOf(inj, D, H, C))
  PROVE  /\ IsFiniteSet(SlotsOf(inj, E, H, B))
         /\ Cardinality(SlotsOf(inj, E, H, B)) = Cardinality(SlotsOf(inj, D, H, C))
<1> DEFINE S == SlotsOf(inj, D, H, C)
           T == SlotsOf(inj, E, H, B)
           new == <<w, Len(E[w])>>
           old == <<w, -1>>
           elsewhere(s) == \/ \E i \in 1..Len(inj) : s = <<0, i>>
                           \/ \E u \in H : s = <<u, 0>>
           queued(s) == \E u \in Worker : \E i \in 1..Len(D[u]) : s = <<u, i>>
<1>1. \A s : s \in S <=> elsewhere(s) \/ queued(s) \/ \E u \in C : s = <<u, -1>>
  BY SlotMembership
<1>2. \A s : s \in T <=>
        \/ elsewhere(s)
        \/ \E u \in Worker : \E i \in 1..Len(E[u]) : s = <<u, i>>
        \/ \E u \in B : s = <<u, -1>>
  BY SlotMembership
<1>3. ~elsewhere(old) /\ ~queued(old) /\ ~elsewhere(new) /\ ~queued(new)
        /\ \A u : new # <<u, -1>>
  BY DEF Worker
<1>4. \A s : (\E u \in Worker : \E i \in 1..Len(E[u]) : s = <<u, i>>) <=> queued(s) \/ s = new
  OBVIOUS
<1> HIDE DEF S, T, new, elsewhere, queued
<1> QED
  <2>1. old \in S /\ new \notin S /\ T = (S \ {old}) \cup {new}
    BY <1>1, <1>2, <1>3, <1>4
  <2>2. IsFiniteSet(S)
    BY DEF S
  <2>3. IsFiniteSet(T) /\ Cardinality(T) = Cardinality(S)
    BY <2>1, <2>2, SwapElement
  <2> QED
    BY <2>3 DEF S, T

(* Of a stolen batch of k tasks one slot goes to the thief's hand, the others *)
(* to the end of its deque.                                                   *)
LEMMA SlotsStolen ==
  ASSUME NEW inj, NEW rest, NEW D, NEW E, NEW H, NEW G, NEW C,
         NEW w \in Worker, NEW k \in 1..Len(inj),
         Len(inj) \in Nat, Len(rest) = Len(inj) - k,
         \A u \in Worker : Len(D[u]) \in Nat,
         \A u \in Worker \ {w} : Len(E[u]) = Len(D[u]), Len(E[w]) = Len(D[w]) + (k - 1),
         w \notin H, G = H \cup {w},
         IsFiniteSet(SlotsOf(inj, D, H, C))
  PROVE  /\ IsFiniteSet(SlotsOf(rest, E, G, C))
         /\ Cardinality(SlotsOf(rest, E, G, C)) = Cardinality(SlotsOf(inj, D, H, C))
<1> DEFINE S == SlotsOf(inj, D, H, C)
           T == SlotsOf(rest, E, G, C)
           top == Len(inj)
           low == Len(rest)
           len == Len(D[w])
           index == (low + 1)..top
           from == [i \in index |-> <<0, i>>]
           to == [i \in index |-> IF i = top THEN <<w, 0>> ELSE <<w, len + (i - low)>>]
           moved == {from[i] : i \in index}
           new == {to[i] : i \in index}
           kept == S \ moved
           other(s) == s \in {<<u, -1>> : u \in C}
<1>1. /\ top \in Nat /\ low \in Nat /\ len \in Nat /\ k \in Nat \ {0}
      /\ top = low + k /\ Len(E[w]) = len + (k - 1)
  OBVIOUS
<1>2. \A s : s \in S <=>
        \/ \E i \in 1..top : s = <<0, i>>
        \/ \E u \in Worker : \E i \in 1..Len(D[u]) : s = <<u, i>>
        \/ \E u \in H : s = <<u, 0>>
        \/ other(s)
  BY SlotMembership
<1>3. \A s : s \in T <=>
        \/ \E i \in 1..low : s = <<0, i>>
        \/ \E u \in Worker : \E i \in 1..Len(E[u]) : s = <<u, i>>
        \/ \E u \in G : s = <<u, 0>>
        \/ other(s)
  BY SlotMembership
<1>4. /\ \A i \in index : <<0, i>> \in S
      /\ moved \subseteq S
  BY <1>1, <1>2
<1>5. \A s : s \in moved <=> \E i \in index : s = <<0, i>>
  OBVIOUS
<1>6. \A s : s \in new <=> s = <<w, 0>> \/ \E i \in (len + 1)..Len(E[w]) : s = <<w, i>>
  <2> HIDE DEF top, low, len
  <2>1. ASSUME NEW i \in (len + 1)..Len(E[w])
        PROVE  (low + (i - len)) \in index /\ to[low + (i - len)] = <<w, i>>
    <3>1. /\ low + (i - len) \in index /\ low + (i - len) # top
          /\ len + ((low + (i - len)) - low) = i
      BY <1>1
    <3> HIDE DEF index
    <3> QED
      BY <3>1
  <2>2. top \in index /\ to[top] = <<w, 0>>
    BY <1>1
  <2>3. ASSUME NEW i \in index, i # top
        PROVE  len + (i - low) \in (len + 1)..Len(E[w]) /\ to[i] = <<w, len + (i - low)>>
    BY <1>1, <2>3
  <2> HIDE DEF index, to
  <2> QED
    BY <2>1, <2>2, <2>3
<1>7. \A s \in new : s \notin S
  <2>1. <<w, 0>> \notin S
    BY <1>2 DEF Worker
  <2>2. ASSUME NEW i \in (len + 1)..Len(E[w]) PROVE <<w, i>> \notin S
    BY SMTT(90), <1>1, <1>2 DEF Worker
  <2> HIDE DEF S, new, len
  <2> QED
    BY <1>6, <2>1, <2>2
<1>8. T = (S \ moved) \cup new
  <2>1. \A s : (\E i \in 1..low : s = <<0, i>>) <=>
               (\E i \in 1..top : s = <<0, i>>) /\ s \notin moved
    BY SMTT(90), <1>1, <1>5
  <2>2. \A s : (\E u \in Worker : \E i \in 1..Len(E[u]) : s = <<u, i>>) <=>
               \/ \E u \in Worker : \E i \in 1..Len(D[u]) : s = <<u, i>>
               \/ \E i \in (len + 1)..Len(E[w]) : s = <<w, i>>
    <3>1. \A i : i \in 1..Len(E[w]) <=> i \in 1..len \/ i \in (len + 1)..Len(E[w])
      <4> HIDE DEF len
      <4> QED
        BY <1>1
    <3>2. \A u \in Worker \ {w} : 1..Len(E[u]) = 1..Len(D[u])
      OBVIOUS
    <3> QED
      BY <3>1, <3>2, Zenon
  <2>3. \A s : (\E u \in G : s = <<u, 0>>) <=> (\E u \in H : s = <<u, 0>>) \/ s = <<w, 0>>
    OBVIOUS
  <2>4. \A s \in moved : /\ ~\E u \in Worker : \E i \in 1..Len(D[u]) : s = <<u, i>>
                         /\ \A u \in H : s = <<u, 0>> => u = 0
                         /\ ~other(s)
    BY SMTT(90), <1>1, <1>5 DEF Worker
  <2>5. \A s \in moved : ~\E u \in H : s = <<u, 0>>
    BY <1>1, <1>5
  <2> HIDE DEF S, T, moved, new, top, low, len, other
  <2> QED
    BY SMTT(90), <1>2, <1>3, <1>6, <2>1, <2>2, <2>3, <2>4, <2>5
<1>9. /\ from \in Bijection(index, moved)
      /\ to \in Bijection(index, new)
  <2>1. from \in [index -> moved] /\ to \in [index -> new]
    OBVIOUS
  <2>2. \A i, j \in index : from[i] = from[j] => i = j
    OBVIOUS
  <2>3. ASSUME NEW i \in index, NEW j \in index, to[i] = to[j] PROVE i = j
    <3> DEFINE offset(m) == IF m = top THEN 0 ELSE len + (m - low)
    <3>1. to[i] = <<w, offset(i)>> /\ to[j] = <<w, offset(j)>>
      OBVIOUS
    <3>2. offset(i) = offset(j)
      <4> HIDE DEF offset, to
      <4>1. to[i] = to[j]
        BY <2>3
      <4>2. <<w, offset(i)>> = <<w, offset(j)>>
        BY <3>1, <4>1
      <4> QED
        BY <4>2
    <3> HIDE DEF top, low, len
    <3> QED
      BY <1>1, <3>2
  <2>4. /\ \A s \in moved : \E i \in index : from[i] = s
        /\ \A s \in new : \E i \in index : to[i] = s
    OBVIOUS
  <2> HIDE DEF index, moved, new, from, to
  <2> QED
    BY <2>1, <2>2, <2>3, <2>4, Fun_IsBij
<1>10. /\ IsFiniteSet(moved) /\ IsFiniteSet(new)
       /\ Cardinality(moved) = Cardinality(new) /\ Cardinality(moved) \in Nat
  <2>1. ExistsBijection(index, moved) /\ ExistsBijection(index, new)
    BY <1>9 DEF ExistsBijection
  <2>2. IsFiniteSet(index)
    BY <1>1, FS_Interval
  <2> HIDE DEF index, moved, new
  <2>3. /\ IsFiniteSet(moved) /\ Cardinality(moved) = Cardinality(index)
        /\ IsFiniteSet(new) /\ Cardinality(new) = Cardinality(index)
    BY <2>1, <2>2, FS_Bijection
  <2> QED
    BY <2>3, FS_CardinalityType
<1> HIDE DEF S, T, moved, new
<1>11. /\ IsFiniteSet(S \ moved)
       /\ Cardinality(S \ moved) = Cardinality(S) - Cardinality(moved)
  <2>1. S \cap moved = moved
    BY <1>4
  <2>2. IsFiniteSet(S)
    BY DEF S
  <2>3. /\ IsFiniteSet(S \ moved)
        /\ Cardinality(S \ moved) = Cardinality(S) - Cardinality(S \cap moved)
    BY <2>2, FS_Difference
  <2> QED
    BY <2>1, <2>3
<1>12. /\ IsFiniteSet(T)
       /\ Cardinality(T) = Cardinality(S \ moved) + Cardinality(new)
  <2>1. (S \ moved) \cap new = {}
    BY <1>7
  <2>2. /\ IsFiniteSet((S \ moved) \cup new)
        /\ Cardinality((S \ moved) \cup new) =
             Cardinality(S \ moved) + Cardinality(new) - Cardinality((S \ moved) \cap new)
    BY <1>10, <1>11, FS_Union
  <2>3. Cardinality(S \ moved) \in Nat /\ Cardinality(new) \in Nat
    BY <1>10, <1>11, FS_CardinalityType
  <2>4. Cardinality((S \ moved) \cap new) = 0
    BY <2>1, FS_EmptySet
  <2> QED
    BY <1>8, <2>2, <2>3, <2>4
<1>13. Cardinality(S) \in Nat
  BY FS_CardinalityType DEF S
<1> QED
  BY <1>10, <1>11, <1>12, <1>13 DEF S, T

-----------------------------------------------------------------------------
(* The counter is exact                                                    *)

(* At the start the slots are the root tasks in the injector, all counted. *)
LEMMA InitSlots == SchedInit => IsFiniteSet(Slots) /\ OutstandingExact
<1> SUFFICES ASSUME SchedInit PROVE IsFiniteSet(Slots) /\ OutstandingExact
  OBVIOUS
<1> DEFINE index == 1..Len(Roots)
           slot == [i \in index |-> <<0, i>>]
<1>1. Len(Roots) \in Nat
  BY SchedulerAssumption, LenProperties
<1>2. /\ injector = Roots /\ \A w \in Worker : Len(deque[w]) = 0
      /\ InHand = {} /\ Counted = {}
  BY EmptySeq DEF SchedInit, InHand, Counted
<1>3. \A s : s \in Slots <=> \E i \in index : s = <<0, i>>
  <2>1. \A w \in Worker : ~\E i \in 1..Len(deque[w]) : TRUE
    BY <1>2
  <2>2. ASSUME NEW s
        PROVE  s \in Slots <=>
                 \/ \E i \in 1..Len(injector) : s = <<0, i>>
                 \/ \E w \in Worker : \E i \in 1..Len(deque[w]) : s = <<w, i>>
                 \/ \E w \in InHand : s = <<w, 0>>
                 \/ \E w \in Counted : s = <<w, -1>>
    BY SlotMembership DEF Slots
  <2> QED
    BY <1>2, <2>1, <2>2
<1>4. slot \in Bijection(index, Slots)
  <2>1. slot \in [index -> Slots] /\ \A i, j \in index : slot[i] = slot[j] => i = j
    BY <1>3
  <2>2. \A s \in Slots : \E i \in index : slot[i] = s
    BY <1>3
  <2> QED
    BY <2>1, <2>2, Fun_IsBij
<1>5. IsFiniteSet(Slots) /\ Cardinality(Slots) = Cardinality(index)
  BY SMTT(90), <1>1, <1>4, FS_Interval, FS_Bijection DEF ExistsBijection
<1>6. Cardinality(index) = Len(Roots)
  BY SMTT(90), <1>1, FS_Interval
<1> QED
  BY <1>5, <1>6 DEF OutstandingExact, SchedInit

(* The lengths that the lemmas on slots ask for. *)
LEMMA QueueLengths ==
  ASSUME TypeOK
  PROVE  /\ Len(injector) \in Nat
         /\ \A w \in Worker : Len(deque[w]) \in Nat
         /\ \A w \in Worker : deque[w] # <<>> =>
              Len(deque[w]) # 0 /\ Len(Tail(deque[w])) = Len(deque[w]) - 1
<1>1. injector \in Seq(Task) /\ \A w \in Worker : deque[w] \in Seq(Task)
  BY DEF TypeOK
<1> QED
  BY <1>1, LenProperties, EmptySeq, HeadTailProperties

(* The steps that move no task. *)
LEMMA IdleStepSlots ==
  ASSUME TypeOK, NEW w \in Worker,
         \/ LocalEmpty(w) \/ InjectorMissed(w) \/ PeerMissed(w) \/ NothingFound(w)
         \/ LeaveLoop(w) \/ GoToSleep(w) \/ StartWait(w) \/ Notified(w) \/ TimesOut(w)
         \/ Admit(w) \/ NotifyAtZero(w) \/ StoreFatal(w) \/ StopAfterFatal(w) \/ Die(w)
         \/ FlushAndReport(w) \/ FlushFails(w)
         \/ (\E t \in Task : BeginPush(w, t)) \/ StoreQuit(w) \/ StopAfterQuit(w)
         \/ (\E ok \in BOOLEAN : TaskReturns(w, ok))
  PROVE  Slots' = Slots /\ outstanding' = outstanding
<1>1. /\ injector' = injector /\ deque' = deque /\ outstanding' = outstanding
  BY DEF LocalEmpty, InjectorMissed, PeerMissed, NothingFound, LeaveLoop, GoToSleep, StartWait,
         Notified, TimesOut, Admit, NotifyAtZero, StoreFatal, StopAfterFatal, Die,
         FlushAndReport, FlushFails, BeginPush, StoreQuit, StopAfterQuit, TaskReturns, queues
<1>2. InHand' = InHand /\ Counted' = Counted
  <2>1. PICK to \in Location :
          /\ pc' = [pc EXCEPT ![w] = to]
          /\ pc[w] \in {"got", "run", "count", "push", "quit", "finish"} <=>
               to \in {"got", "run", "count", "push", "quit", "finish"}
          /\ pc[w] # "push" /\ to # "push"
    BY DEF TypeOK, LocalEmpty, InjectorMissed, PeerMissed, NothingFound, LeaveLoop, GoToSleep,
         StartWait, Notified, TimesOut, Admit, NotifyAtZero, StoreFatal, StopAfterFatal, Die,
         FlushAndReport, FlushFails, BeginPush, StoreQuit, StopAfterQuit, TaskReturns,
         Goto, Location
  <2> QED
    BY <2>1 DEF TypeOK, InHand, Counted
<1> QED
  BY <1>1, <1>2, SlotsUntouched

(* Popping the own deque, or stealing from a peer's, keeps the number of slots. *)
LEMMA TakeSlots ==
  ASSUME TypeOK, IsFiniteSet(Slots), NEW w \in Worker, PopLocal(w) \/ StealPeer(w)
  PROVE  IsFiniteSet(Slots)' /\ Cardinality(Slots)' = Cardinality(Slots)
<1>1. PICK v \in Worker :
        /\ deque[v] # <<>> /\ deque' = [deque EXCEPT ![v] = Tail(@)]
        /\ injector' = injector
        /\ pc[w] \in {"local", "steal"} /\ pc' = [pc EXCEPT ![w] = "got"]
  <2>1. CASE PopLocal(w)
    BY <2>1 DEF PopLocal, Goto
  <2>2. CASE StealPeer(w)
    BY <2>2 DEF StealPeer, Goto
  <2> QED
    BY <2>1, <2>2
<1>2. /\ InHand' = InHand \cup {w} /\ w \notin InHand /\ Counted' = Counted
  BY <1>1 DEF InHand, Counted, TypeOK
<1>3. /\ \A u \in Worker : Len(deque[u]) \in Nat
      /\ Len(deque[v]) # 0
      /\ \A u \in Worker \ {v} : Len(deque'[u]) = Len(deque[u])
      /\ Len(deque'[v]) = Len(deque[v]) - 1
  BY <1>1, QueueLengths DEF TypeOK
<1>4. Slots' = SlotsOf(injector, deque', InHand', Counted)
  BY <1>1, <1>2 DEF Slots
<1> QED
  BY <1>2, <1>3, <1>4, SlotTaken DEF Slots

(* So does stealing a batch from the injector. *)
LEMMA StealInjectorSlots ==
  ASSUME TypeOK, IsFiniteSet(Slots), NEW w \in Worker, StealInjector(w)
  PROVE  IsFiniteSet(Slots)' /\ Cardinality(Slots)' = Cardinality(Slots)
<1>1. PICK k \in 1..Len(injector) :
        /\ deque' = [deque EXCEPT ![w] = @ \o SubSeq(injector, 2, k)]
        /\ injector' = SubSeq(injector, k + 1, Len(injector))
        /\ pc[w] = "inject" /\ pc' = [pc EXCEPT ![w] = "got"]
  BY DEF StealInjector, Goto
<1>2. /\ InHand' = InHand \cup {w} /\ w \notin InHand /\ Counted' = Counted
  BY <1>1 DEF InHand, Counted, TypeOK
<1>3. /\ Len(injector) \in Nat /\ \A u \in Worker : Len(deque[u]) \in Nat
      /\ \A i \in 1..Len(injector) : injector[i] \in Task
  BY QueueLengths, ElementOfSeq DEF TypeOK
<1>4. /\ SubSeq(injector, 2, k) \in Seq(Task) /\ Len(SubSeq(injector, 2, k)) = k - 1
      /\ Len(injector') = Len(injector) - k
  BY <1>1, <1>3, SubSeqProperties
<1>5. /\ \A u \in Worker \ {w} : Len(deque'[u]) = Len(deque[u])
      /\ Len(deque'[w]) = Len(deque[w]) + (k - 1)
  BY SMTT(90), <1>1, <1>4, ConcatProperties DEF TypeOK
<1>6. Slots' = SlotsOf(injector', deque', InHand', Counted)
  BY <1>2 DEF Slots
<1> QED
  BY SMTT(90), <1>2, <1>3, <1>4, <1>5, <1>6, SlotsStolen DEF Slots

(* task_finished gives up exactly the slot of the hand. *)
LEMMA TaskFinishedSlots ==
  ASSUME TypeOK, IsFiniteSet(Slots), NEW w \in Worker, TaskFinished(w)
  PROVE  IsFiniteSet(Slots)' /\ Cardinality(Slots)' = Cardinality(Slots) - 1
<1>1. /\ w \in InHand /\ InHand' = InHand \ {w} /\ Counted' = Counted
  BY DEF TaskFinished, Goto, InHand, Counted, TypeOK
<1>2. Slots' = SlotsOf(injector, deque, InHand', Counted)
  BY <1>1 DEF Slots, TaskFinished, queues
<1>3. <<w, 0>> \in Slots /\ Slots' = Slots \ {<<w, 0>>}
  BY <1>1, <1>2, SlotReleased DEF Slots
<1> QED
  BY <1>3, FS_RemoveElement

(* task_spawned adds exactly one slot, for the task about to be queued. *)
LEMMA CountTaskSlots ==
  ASSUME TypeOK, IsFiniteSet(Slots), NEW w \in Worker, CountTask(w)
  PROVE  IsFiniteSet(Slots)' /\ Cardinality(Slots)' = Cardinality(Slots) + 1
<1>1. /\ InHand' = InHand /\ w \notin Counted /\ Counted' = Counted \cup {w}
  BY DEF CountTask, Goto, InHand, Counted, TypeOK
<1>2. Slots' = SlotsOf(injector, deque, InHand, Counted')
  BY <1>1 DEF Slots, CountTask, queues
<1>3. <<w, -1>> \notin Slots /\ Slots' = Slots \cup {<<w, -1>>}
  BY SMTT(90), <1>1, <1>2, SlotCounted DEF Slots
<1> QED
  BY <1>3, FS_AddElement

(* Making the counted task visible moves its slot to the deque. *)
LEMMA PushTaskSlots ==
  ASSUME TypeOK, HandsHoldTasks, IsFiniteSet(Slots), NEW w \in Worker, PushTask(w)
  PROVE  IsFiniteSet(Slots)' /\ Cardinality(Slots)' = Cardinality(Slots)
<1>1. /\ InHand' = InHand /\ w \in Counted /\ Counted' = Counted \ {w}
  BY DEF PushTask, Goto, InHand, Counted, TypeOK
<1>2. /\ pub[w] \in Task
      /\ \A u \in Worker : Len(deque[u]) \in Nat
  BY QueueLengths DEF PushTask, Goto, HandsHoldTasks
<1>3. /\ \A u \in Worker \ {w} : Len(deque'[u]) = Len(deque[u])
      /\ Len(deque'[w]) = Len(deque[w]) + 1
  BY <1>2 DEF PushTask, TypeOK
<1>4. Slots' = SlotsOf(injector, deque', InHand, Counted')
  BY <1>1 DEF Slots, PushTask
<1> QED
  BY <1>1, <1>2, <1>3, <1>4, SlotPushed DEF Slots

(* Hence every step changes the counter by what it changes the number of slots. *)
LEMMA StepSlots ==
  SchedInv /\ [SchedNext]_schedVars => IsFiniteSet(Slots)' /\ OutstandingExact'
<1> SUFFICES ASSUME SchedInv, [SchedNext]_schedVars
             PROVE  IsFiniteSet(Slots)' /\ OutstandingExact'
  OBVIOUS
<1>0. /\ TypeOK /\ HandsHoldTasks /\ IsFiniteSet(Slots)
      /\ outstanding = Cardinality(Slots)
  BY DEF SchedInv, OutstandingExact
<1>1. ASSUME NEW w \in Worker, PopLocal(w) \/ StealInjector(w) \/ StealPeer(w)
      PROVE  IsFiniteSet(Slots)' /\ OutstandingExact'
  <2>1. outstanding' = outstanding
    BY <1>1 DEF PopLocal, StealInjector, StealPeer
  <2> QED
    BY <1>0, <1>1, <2>1, TakeSlots, StealInjectorSlots DEF OutstandingExact
<1>2. ASSUME NEW w \in Worker, TaskFinished(w)
      PROVE  IsFiniteSet(Slots)' /\ OutstandingExact'
  BY <1>0, <1>2, TaskFinishedSlots DEF TaskFinished, OutstandingExact
<1>3. ASSUME NEW w \in Worker, CountTask(w)
      PROVE  IsFiniteSet(Slots)' /\ OutstandingExact'
  BY <1>0, <1>3, CountTaskSlots DEF CountTask, OutstandingExact
<1>4. ASSUME NEW w \in Worker, PushTask(w)
      PROVE  IsFiniteSet(Slots)' /\ OutstandingExact'
  BY <1>0, <1>4, PushTaskSlots DEF PushTask, OutstandingExact
<1>5. ASSUME Slots' = Slots, outstanding' = outstanding
      PROVE  IsFiniteSet(Slots)' /\ OutstandingExact'
  BY <1>0, <1>5 DEF OutstandingExact
<1>6. CASE UNCHANGED schedVars
  BY <1>5, <1>6, SlotsUntouched DEF schedVars, InHand, Counted
<1>7. CASE \E w \in Worker : WorkerLoop(w) \/ FlushFails(w) \/ TaskBody(w)
  <2> PICK w \in Worker : WorkerLoop(w) \/ FlushFails(w) \/ TaskBody(w)
    BY <1>7
  <2> QED
    BY <1>0, <1>1, <1>2, <1>3, <1>4, <1>5, IdleStepSlots DEF WorkerLoop, TaskBody
<1> QED
  BY <1>6, <1>7 DEF SchedNext

-----------------------------------------------------------------------------
(* Zero is final                                                           *)

(* At zero no worker has a task in hand, so no step can count a new one. *)
LEMMA StepAtZero ==
  SchedInv /\ [SchedNext]_schedVars /\ outstanding = 0 => outstanding' = 0
<1> SUFFICES ASSUME SchedInv, [SchedNext]_schedVars, outstanding = 0
             PROVE  outstanding' = 0
  OBVIOUS
<1>1. InHand = {}
  BY HandIsCounted DEF InHand
<1>2. ASSUME NEW w \in Worker PROVE ~TaskFinished(w) /\ ~CountTask(w)
  BY <1>1 DEF TaskFinished, CountTask, Goto, InHand
<1>3. CASE UNCHANGED schedVars
  BY <1>3 DEF schedVars
<1>4. CASE \E w \in Worker : WorkerLoop(w) \/ FlushFails(w) \/ TaskBody(w)
  <2> PICK w \in Worker : WorkerLoop(w) \/ FlushFails(w) \/ TaskBody(w)
    BY <1>4
  <2>1. PopLocal(w) \/ StealInjector(w) \/ StealPeer(w) \/ PushTask(w) => outstanding' = outstanding
    BY DEF PopLocal, StealInjector, StealPeer, PushTask
  <2> QED
    BY <1>2, <2>1, IdleStepSlots DEF WorkerLoop, TaskBody, SchedInv
<1> QED
  BY <1>3, <1>4 DEF SchedNext

(* A worker leaves the loop only at zero, and zero stays. *)
LEMMA StepLeftAtZero ==
  SchedInv /\ [SchedNext]_schedVars => LeftAtZero'
<1> SUFFICES ASSUME SchedInv, [SchedNext]_schedVars,
                    NEW w \in Worker, pc'[w] \in {"flush", "exit"}
             PROVE  outstanding' = 0
  BY DEF LeftAtZero
<1>1. pc[w] \in {"flush", "exit"} \/ LeaveLoop(w)
  <2>1. CASE UNCHANGED schedVars
    BY <2>1 DEF schedVars
  <2>2. CASE \E v \in Worker : WorkerLoop(v) \/ FlushFails(v) \/ TaskBody(v)
    <3> PICK v \in Worker : WorkerLoop(v) \/ FlushFails(v) \/ TaskBody(v)
      BY <2>2
    <3>1. CASE LeaveLoop(v)
      BY <3>1 DEF LeaveLoop, Goto, SchedInv, TypeOK
    <3>2. CASE FlushAndReport(v)
      BY <3>2 DEF FlushAndReport, Goto, SchedInv, TypeOK
    <3>3. ASSUME ~LeaveLoop(v), ~FlushAndReport(v)
          PROVE  \/ pc' = pc
                 \/ \E to \in Location \ {"flush", "exit"} : pc' = [pc EXCEPT ![v] = to]
      BY <3>3 DEF WorkerLoop, TaskBody,
           PopLocal, LocalEmpty, StealInjector, InjectorMissed, StealPeer, PeerMissed, NothingFound,
           GoToSleep, StartWait, Notified, TimesOut, Admit, TaskFinished, NotifyAtZero,
           StoreFatal, StopAfterFatal, Die, FlushFails,
           BeginPush, CountTask, PushTask, StoreQuit, StopAfterQuit, TaskReturns, Goto, Location
    <3>4. ASSUME ~LeaveLoop(v), ~FlushAndReport(v) PROVE pc[w] \in {"flush", "exit"}
      BY <3>3, <3>4 DEF SchedInv, TypeOK
    <3> QED
      BY <3>1, <3>2, <3>4
  <2> QED
    BY <2>1, <2>2 DEF SchedNext
<1>2. outstanding = 0
  BY <1>1 DEF LeaveLoop, SchedInv, LeftAtZero
<1> QED
  BY <1>2, StepAtZero

-----------------------------------------------------------------------------
(* What a step of the loop moves                                           *)

Searching == {"local", "inject", "steal", "check", "enter", "asleep"}

(* From where to where a step of the loop takes worker w. *)
LoopMove(w, a, b) ==
  \/ a = b
  \/ a \in Searching /\ b \in Searching \cup {"got", "flush"}
  \/ a = "got" /\ b = IF accept THEN "run" ELSE "finish"
  \/ a = "count" /\ b = "push"
  \/ a \in {"push", "quit"} /\ b = "run"
  \/ a = "finish" /\ b = "notify"
  \/ a = "notify" /\ b = IF w \in failed THEN "fatal" ELSE "local"
  \/ a = "fatal" /\ b = "stop"
  \/ a = "stop" /\ b = "alert"
  \/ a = "alert" /\ b = "dead"
  \/ a = "flush" /\ b = "exit"

LEMMA LoopMoves ==
  ASSUME NEW w \in Worker, WorkerLoop(w), TypeOK
  PROVE  /\ \E b \in Location : pc' = [pc EXCEPT ![w] = b] /\ LoopMove(w, pc[w], b)
         /\ UNCHANGED <<quit, failed>>
         /\ accept' = accept \/ (pc[w] \in {"stop", "quit"} /\ accept' = FALSE)
         /\ fatal' = fatal \/ pc[w] = "fatal"
<1>0. pc \in [Worker -> Location]
  BY DEF TypeOK
<1> USE DEF Goto, control, LoopMove, Searching, Location
<1>1. CASE PopLocal(w) \/ LocalEmpty(w) \/ InjectorMissed(w) \/ NothingFound(w)
  BY <1>1 DEF PopLocal, LocalEmpty, InjectorMissed, NothingFound
<1>2. CASE StealInjector(w)
  BY <1>2 DEF StealInjector
<1>3. CASE StealPeer(w)
  BY <1>3 DEF StealPeer
<1>4. CASE PeerMissed(w)
  <2>1. pc' = [pc EXCEPT ![w] = pc[w]] /\ pc[w] \in Location
    BY <1>0, <1>4 DEF PeerMissed
  <2> QED
    BY <1>4, <2>1 DEF PeerMissed
<1>5. CASE LeaveLoop(w) \/ GoToSleep(w) \/ StartWait(w) \/ Notified(w) \/ TimesOut(w)
  BY <1>5 DEF LeaveLoop, GoToSleep, StartWait, Notified, TimesOut
<1>6. CASE Admit(w)
  BY <1>6 DEF Admit
<1>7. CASE TaskFinished(w)
  BY <1>7 DEF TaskFinished
<1>8. CASE NotifyAtZero(w)
  BY <1>8 DEF NotifyAtZero
<1>9. CASE CountTask(w) \/ PushTask(w)
  <2>1. CASE CountTask(w)
    <3>1. pc[w] = "count" /\ pc' = [pc EXCEPT ![w] = "push"] /\ LoopMove(w, "count", "push")
      BY <2>1 DEF CountTask
    <3> QED
      BY <2>1, <3>1 DEF CountTask
  <2>2. CASE PushTask(w)
    <3>1. pc[w] = "push" /\ pc' = [pc EXCEPT ![w] = "run"] /\ LoopMove(w, "push", "run")
      BY <2>2 DEF PushTask
    <3> QED
      BY <2>2, <3>1 DEF PushTask
  <2> QED
    BY <1>9, <2>1, <2>2
<1>10. CASE StopAfterFatal(w) \/ StopAfterQuit(w)
  <2>1. CASE StopAfterFatal(w)
    <3>1. pc[w] = "stop" /\ pc' = [pc EXCEPT ![w] = "alert"] /\ LoopMove(w, "stop", "alert")
      BY <2>1 DEF StopAfterFatal
    <3> QED
      BY <2>1, <3>1 DEF StopAfterFatal
  <2>2. CASE StopAfterQuit(w)
    <3>1. pc[w] = "quit" /\ pc' = [pc EXCEPT ![w] = "run"] /\ LoopMove(w, "quit", "run")
      BY <2>2 DEF StopAfterQuit
    <3> QED
      BY <2>2, <3>1 DEF StopAfterQuit
  <2> QED
    BY <1>10, <2>1, <2>2
<1>11. CASE StoreFatal(w)
  <2>1. pc[w] = "fatal" /\ pc' = [pc EXCEPT ![w] = "stop"] /\ LoopMove(w, "fatal", "stop")
    BY <1>11 DEF StoreFatal
  <2> QED
    BY <1>11, <2>1 DEF StoreFatal
<1>12. CASE Die(w)
  BY <1>12 DEF Die
<1>13. CASE FlushAndReport(w)
  BY <1>13 DEF FlushAndReport
<1> QED
  BY <1>1, <1>2, <1>3, <1>4, <1>5, <1>6, <1>7, <1>8, <1>9, <1>10,
     <1>11, <1>12, <1>13 DEF WorkerLoop

(* Task t is at place i of worker q: in its deque, in its hand (place 0), or *)
(* being published by it (place -1). Worker 0 stands for the injector.       *)
Publishing == {w \in Worker : pc[w] \in {"count", "push"}}

TaskAt(t, q, i) ==
  \/ q = 0 /\ i \in 1..Len(injector) /\ t = injector[i]
  \/ q \in Worker /\ i \in 1..Len(deque[q]) /\ t = deque[q][i]
  \/ q \in InHand /\ i = 0 /\ t = task[q]
  \/ q \in Publishing /\ i = -1 /\ t = pub[q]

(* The steps that move no task. *)
QuietStep(w) ==
  \/ LocalEmpty(w) \/ InjectorMissed(w) \/ PeerMissed(w) \/ NothingFound(w)
  \/ LeaveLoop(w) \/ GoToSleep(w) \/ StartWait(w) \/ Notified(w) \/ TimesOut(w)
  \/ Admit(w) \/ NotifyAtZero(w) \/ StoreFatal(w) \/ StopAfterFatal(w) \/ Die(w)
  \/ FlushAndReport(w) \/ CountTask(w) \/ StopAfterQuit(w)

LEMMA QuietSteps ==
  ASSUME NEW w \in Worker, QuietStep(w), TypeOK
  PROVE  UNCHANGED <<injector, deque, task, pub>> /\ InHand' = InHand /\ Publishing' = Publishing
<1>0. pc \in [Worker -> Location]
  BY DEF TypeOK
<1>1. UNCHANGED <<injector, deque, task, pub>>
  BY DEF QuietStep, LocalEmpty, InjectorMissed, PeerMissed, NothingFound, LeaveLoop,
       GoToSleep, StartWait, Notified, TimesOut, Admit, NotifyAtZero, StoreFatal,
       StopAfterFatal, Die, FlushAndReport, CountTask, StopAfterQuit, queues
<1>2. pc' = pc \/ \E a \in Location : \E b \in Location :
        /\ pc[w] = a /\ pc' = [pc EXCEPT ![w] = b]
        /\ a \in {"got", "run", "count", "push", "quit", "finish"} <=>
             b \in {"got", "run", "count", "push", "quit", "finish"}
        /\ a \in {"count", "push"} <=> b \in {"count", "push"}
  <2>1. CASE \/ LocalEmpty(w) \/ InjectorMissed(w) \/ PeerMissed(w) \/ NothingFound(w)
             \/ LeaveLoop(w) \/ GoToSleep(w) \/ StartWait(w) \/ Notified(w) \/ TimesOut(w)
    BY <2>1 DEF LocalEmpty, InjectorMissed, PeerMissed, NothingFound, LeaveLoop,
       GoToSleep, StartWait, Notified, TimesOut, Goto, Location
  <2>2. CASE Admit(w) \/ CountTask(w) \/ StopAfterQuit(w)
    BY <2>2 DEF Admit, CountTask, StopAfterQuit, Goto, Location
  <2>3. CASE NotifyAtZero(w) \/ StoreFatal(w) \/ StopAfterFatal(w) \/ Die(w)
             \/ FlushAndReport(w)
    BY <2>3 DEF NotifyAtZero, StoreFatal, StopAfterFatal, Die, FlushAndReport, Goto, Location
  <2> QED
    BY <2>1, <2>2, <2>3 DEF QuietStep
<1>3. InHand' = InHand /\ Publishing' = Publishing
  BY <1>0, <1>2 DEF InHand, Publishing
<1> QED
  BY <1>1, <1>3

(* Each task keeps a place, unless it was in the hand of w and w is done     *)
(* with it. Where a task comes to a hand, the worker has got it just now.    *)
LEMMA TasksStay ==
  ASSUME NEW w \in Worker, WorkerLoop(w), TypeOK, NEW t, NEW q, NEW i, TaskAt(t, q, i)
  PROVE  \/ \E r, j : TaskAt(t, r, j)' /\ (j = 0 => (q = r /\ i = 0) \/ pc'[r] = "got")
         \/ q = w /\ i = 0 /\ pc[w] = "finish"
<1> DEFINE Stays == \E r, j : TaskAt(t, r, j)' /\ (j = 0 => (q = r /\ i = 0) \/ pc'[r] = "got")
<1>0. /\ pc \in [Worker -> Location] /\ deque \in [Worker -> Seq(Task)] /\ injector \in Seq(Task)
      /\ task \in [Worker -> Task \cup {NoTask}] /\ pub \in [Worker -> Task \cup {NoTask}]
  BY DEF TypeOK
<1>a. \A v \in Worker : Len(deque[v]) \in Nat
  BY <1>0, LenProperties
<1>b. Len(injector) \in Nat
  BY <1>0, LenProperties
<1>c. CASE q = 0 /\ i \in 1..Len(injector) /\ t = injector[i] /\ injector' = injector
  <2>1. TaskAt(t, 0, i)'
    BY <1>c DEF TaskAt
  <2> QED
    BY <1>c, <2>1
<1>d. CASE q \in Worker /\ i \in 1..Len(deque[q]) /\ t = deque[q][i] /\ deque'[q] = deque[q]
  <2>1. TaskAt(t, q, i)'
    BY <1>d DEF TaskAt
  <2> QED
    BY <1>d, <2>1
<1>e. CASE q \in InHand /\ i = 0 /\ t = task[q] /\ q \in InHand' /\ task'[q] = task[q]
  <2>1. TaskAt(t, q, 0)'
    BY <1>e DEF TaskAt
  <2> QED
    BY <1>e, <2>1
<1>f. CASE q \in Publishing /\ i = -1 /\ t = pub[q] /\ q \in Publishing' /\ pub'[q] = pub[q]
  <2>1. TaskAt(t, q, -1)'
    BY <1>f DEF TaskAt
  <2> QED
    BY <1>f, <2>1
<1>g. ASSUME NEW v \in Worker, q = v, i \in 1..Len(deque[v]), t = deque[v][i],
             deque[v] # <<>>, deque'[v] = Tail(deque[v]),
             w \in InHand', task'[w] = Head(deque[v]), pc'[w] = "got"
      PROVE  Stays
  <2>1. /\ Len(deque'[v]) = Len(deque[v]) - 1
        /\ \A k \in 1..(Len(deque[v]) - 1) : deque'[v][k] = deque[v][k + 1]
        /\ task'[w] = deque[v][1]
    BY <1>0, <1>g, HeadTailProperties
  <2>2. CASE i = 1
    <3>1. TaskAt(t, w, 0)'
      BY <1>g, <2>1, <2>2 DEF TaskAt
    <3> QED
      BY <1>g, <3>1
  <2>3. CASE i # 1
    <3>1. i - 1 \in 1..Len(deque'[v]) /\ t = deque'[v][i - 1] /\ i - 1 # 0
      BY <1>a, <1>g, <2>1, <2>3
    <3>2. TaskAt(t, v, i - 1)'
      BY <3>1 DEF TaskAt
    <3> QED
      BY <3>1, <3>2
  <2> QED
    BY <2>2, <2>3
<1>1. CASE PopLocal(w) \/ StealPeer(w)
  <2>1. PICK v \in Worker :
          /\ deque[v] # <<>> /\ deque'[v] = Tail(deque[v]) /\ task'[w] = Head(deque[v])
          /\ \A u \in Worker \ {v} : deque'[u] = deque[u]
          /\ \A u \in Worker \ {w} : task'[u] = task[u]
          /\ InHand' = InHand \cup {w} /\ w \notin InHand /\ Publishing' = Publishing
          /\ injector' = injector /\ pub' = pub /\ pc'[w] = "got"
    <3>1. CASE PopLocal(w)
      BY <1>0, <3>1 DEF PopLocal, Goto, InHand, Publishing
    <3>2. CASE StealPeer(w)
      BY <1>0, <3>2 DEF StealPeer, Goto, InHand, Publishing
    <3> QED
      BY <1>1, <3>1, <3>2
  <2>2. CASE q = 0 /\ i \in 1..Len(injector) /\ t = injector[i]
    BY <1>c, <2>1, <2>2
  <2>3. CASE q \in Worker /\ i \in 1..Len(deque[q]) /\ t = deque[q][i]
    <3>1. CASE q = v
      BY <1>g, <2>1, <2>3, <3>1
    <3>2. CASE q # v
      BY <1>d, <2>1, <2>3, <3>2
    <3> QED
      BY <3>1, <3>2
  <2>4. CASE q \in InHand /\ i = 0 /\ t = task[q]
    <3>1. q \in Worker \ {w}
      BY <2>1, <2>4 DEF InHand
    <3> QED
      BY <1>e, <2>1, <2>4, <3>1
  <2>5. CASE q \in Publishing /\ i = -1 /\ t = pub[q]
    BY <1>f, <2>1, <2>5
  <2> QED
    BY <2>2, <2>3, <2>4, <2>5 DEF TaskAt
<1>2. CASE StealInjector(w)
  <2>1. PICK k \in 1..Len(injector) :
        /\ Goto(w, "inject", "got")
        /\ task' = [task EXCEPT ![w] = injector[1]]
        /\ deque' = [deque EXCEPT ![w] = @ \o SubSeq(injector, 2, k)]
        /\ injector' = SubSeq(injector, k + 1, Len(injector))
        /\ UNCHANGED <<control, outstanding, pub, victim, woken, failed, history>>
    BY <1>2 DEF StealInjector
  <2> DEFINE d == deque[w]
             taken == SubSeq(injector, 2, k)
  <2>2. /\ d \in Seq(Task) /\ deque'[w] = d \o taken /\ task'[w] = injector[1]
        /\ \A u \in Worker \ {w} : deque'[u] = deque[u]
        /\ \A u \in Worker \ {w} : task'[u] = task[u]
        /\ InHand' = InHand \cup {w} /\ w \notin InHand /\ Publishing' = Publishing
        /\ pub' = pub /\ pc'[w] = "got"
    BY <1>0, <2>1 DEF Goto, InHand, Publishing
  <2>3. /\ taken \in Seq(Task) /\ Len(taken) = k - 1
        /\ \A m \in 1..(k - 1) : taken[m] = injector[m + 1]
    <3>1. 2 \in 1..(Len(injector) + 1) /\ k \in 1..Len(injector)
      BY <1>b
    <3> QED
      BY <1>0, <1>b, <3>1, SubSeqProperties
  <2>4. /\ Len(injector') = Len(injector) - k
        /\ \A m \in 1..(Len(injector) - k) : injector'[m] = injector[m + k]
    <3>1. k + 1 \in 1..(Len(injector) + 1) /\ Len(injector) \in k..Len(injector)
      BY <1>b
    <3> QED
      BY <1>0, <1>b, <2>1, <3>1, SubSeqProperties
  <2> HIDE DEF taken
  <2>5. /\ Len(d \o taken) = Len(d) + (k - 1)
        /\ \A m \in 1..Len(d) : (d \o taken)[m] = d[m]
        /\ \A m \in 1..(k - 1) : (d \o taken)[Len(d) + m] = taken[m]
    <3> HIDE DEF d
    <3>1. /\ Len(d \o taken) = Len(d) + Len(taken)
          /\ \A m \in 1..(Len(d) + Len(taken)) :
               (d \o taken)[m] = IF m <= Len(d) THEN d[m] ELSE taken[m - Len(d)]
      BY <2>2, <2>3, ConcatProperties
    <3>2. Len(d) \in Nat /\ k \in Nat \ {0}
      BY <1>b, <2>2, LenProperties
    <3>3. ASSUME NEW m \in 1..(k - 1) PROVE (d \o taken)[Len(d) + m] = taken[m]
      <4>1. /\ Len(d) + m \in 1..(Len(d) + Len(taken)) /\ ~(Len(d) + m <= Len(d))
            /\ (Len(d) + m) - Len(d) = m
        BY <2>3, <3>2
      <4> QED
        BY <3>1, <4>1
    <3> QED
      BY <2>3, <3>1, <3>2, <3>3
  <2>6. CASE q = 0 /\ i \in 1..Len(injector) /\ t = injector[i]
    <3>1. CASE i = 1
      <4>1. TaskAt(t, w, 0)'
        BY <2>2, <2>6, <3>1 DEF TaskAt
      <4> QED
        BY <2>2, <4>1
    <3>2. CASE i \in 2..k
      <4> DEFINE j == i - 1
      <4>1. j \in 1..(k - 1) /\ Len(d) \in Nat /\ k \in Nat
        BY <1>a, <1>b, <3>2
      <4>2. taken[j] = t
        <5>1. j + 1 = i
          BY <3>2
        <5> QED
          BY <2>3, <2>6, <4>1, <5>1
      <4> HIDE DEF j, d
      <4>3. PICK m : m = Len(d) + j
        OBVIOUS
      <4>4. m \in 1..Len(d \o taken) /\ m # 0
        BY <2>5, <4>1, <4>3
      <4>5. (d \o taken)[m] = t
        BY <2>5, <4>1, <4>2, <4>3
      <4>6. TaskAt(t, w, m)'
        BY <2>2, <4>4, <4>5 DEF TaskAt
      <4> QED
        BY <4>4, <4>6
    <3>3. CASE i > k
      <4>1. i - k \in 1..(Len(injector) - k) /\ (i - k) + k = i
        BY <1>b, <2>6, <3>3
      <4>2. i - k \in 1..Len(injector') /\ injector'[i - k] = t /\ i - k # 0
        BY <2>4, <2>6, <4>1
      <4>3. TaskAt(t, 0, i - k)'
        BY <4>2 DEF TaskAt
      <4> QED
        BY <4>2, <4>3
    <3> QED
      BY <1>b, <2>6, <3>1, <3>2, <3>3
  <2>7. CASE q \in Worker /\ i \in 1..Len(deque[q]) /\ t = deque[q][i]
    <3>1. CASE q = w
      <4>1. i \in 1..Len(deque'[w]) /\ deque'[w][i] = t /\ i # 0
        BY <1>a, <2>2, <2>5, <2>7, <3>1
      <4>2. TaskAt(t, w, i)'
        BY <4>1 DEF TaskAt
      <4> QED
        BY <4>1, <4>2
    <3>2. CASE q # w
      BY <1>d, <2>2, <2>7, <3>2
    <3> QED
      BY <3>1, <3>2
  <2>8. CASE q \in InHand /\ i = 0 /\ t = task[q]
    <3>1. q \in Worker \ {w}
      BY <2>2, <2>8 DEF InHand
    <3> QED
      BY <1>e, <2>2, <2>8, <3>1
  <2>9. CASE q \in Publishing /\ i = -1 /\ t = pub[q]
    BY <1>f, <2>2, <2>9
  <2> QED
    BY <2>6, <2>7, <2>8, <2>9 DEF TaskAt
<1>3. CASE PushTask(w)
  <2>1. /\ deque'[w] = Append(deque[w], pub[w])
        /\ \A v \in Worker \ {w} : deque'[v] = deque[v]
        /\ InHand' = InHand /\ Publishing' = Publishing \ {w}
        /\ injector' = injector /\ task' = task
        /\ \A v \in Worker \ {w} : pub'[v] = pub[v]
    BY <1>0, <1>3 DEF PushTask, Goto, InHand, Publishing, history
  <2>2. pub[w] \in Task \cup {NoTask} /\ deque[w] \in Seq(Task \cup {NoTask})
    BY <1>0, SeqMonotonic
  <2>3. /\ Len(deque'[w]) = Len(deque[w]) + 1
        /\ \A k \in 1..Len(deque[w]) : deque'[w][k] = deque[w][k]
        /\ deque'[w][Len(deque[w]) + 1] = pub[w]
    BY <2>1, <2>2, AppendProperties
  <2>4. CASE q = 0 /\ i \in 1..Len(injector) /\ t = injector[i]
    BY <1>c, <2>1, <2>4
  <2>5. CASE q \in Worker /\ i \in 1..Len(deque[q]) /\ t = deque[q][i]
    <3>1. CASE q = w
      <4>1. i \in 1..Len(deque'[w]) /\ deque'[w][i] = t /\ i # 0
        BY <1>a, <2>3, <2>5, <3>1
      <4>2. TaskAt(t, w, i)'
        BY <4>1 DEF TaskAt
      <4> QED
        BY <4>1, <4>2
    <3>2. CASE q # w
      BY <1>d, <2>1, <2>5, <3>2
    <3> QED
      BY <3>1, <3>2
  <2>6. CASE q \in InHand /\ i = 0 /\ t = task[q]
    BY <1>e, <2>1, <2>6
  <2>7. CASE q \in Publishing /\ i = -1 /\ t = pub[q]
    <3>1. CASE q = w
      <4>1. PICK m : m = Len(deque[w]) + 1
        OBVIOUS
      <4>2. m \in 1..Len(deque'[w]) /\ deque'[w][m] = t /\ m # 0
        BY <1>a, <2>3, <2>7, <3>1, <4>1
      <4>3. TaskAt(t, w, m)'
        BY <4>2 DEF TaskAt
      <4> QED
        BY <4>2, <4>3
    <3>2. CASE q # w
      BY <1>f, <2>1, <2>7, <3>2 DEF Publishing
    <3> QED
      BY <3>1, <3>2
  <2> QED
    BY <2>4, <2>5, <2>6, <2>7 DEF TaskAt
<1>4. CASE TaskFinished(w)
  <2>1. /\ InHand' = InHand \ {w} /\ Publishing' = Publishing /\ pc[w] = "finish"
        /\ \A v \in Worker \ {w} : task'[v] = task[v]
        /\ injector' = injector /\ deque' = deque /\ pub' = pub
    BY <1>0, <1>4 DEF TaskFinished, Goto, InHand, Publishing, queues
  <2>2. CASE q = 0 /\ i \in 1..Len(injector) /\ t = injector[i]
    BY <1>c, <2>1, <2>2
  <2>3. CASE q \in Worker /\ i \in 1..Len(deque[q]) /\ t = deque[q][i]
    BY <1>d, <2>1, <2>3
  <2>4. CASE q \in InHand /\ i = 0 /\ t = task[q]
    BY <1>e, <2>1, <2>4 DEF InHand
  <2>5. CASE q \in Publishing /\ i = -1 /\ t = pub[q]
    BY <1>f, <2>1, <2>5
  <2> QED
    BY <2>2, <2>3, <2>4, <2>5 DEF TaskAt
<1>5. CASE UNCHANGED <<injector, deque, task, pub>> /\ InHand' = InHand /\ Publishing' = Publishing
  <2>1. TaskAt(t, q, i)'
    BY <1>5 DEF TaskAt
  <2> QED
    BY <2>1
<1>6. CASE QuietStep(w)
  BY <1>5, <1>6, QuietSteps
<1> QED
  BY <1>1, <1>2, <1>3, <1>4, <1>6 DEF WorkerLoop, QuietStep

(* Two places of the loop's next state come from two places of this one: no  *)
(* step of the loop copies a task. Only the hand a task was in before it is  *)
(* the hand it is in now.                                                    *)
LEMMA TasksComeFrom ==
  ASSUME NEW w \in Worker, WorkerLoop(w), TypeOK,
         NEW t1, NEW r1, NEW j1, TaskAt(t1, r1, j1)',
         NEW t2, NEW r2, NEW j2, TaskAt(t2, r2, j2)'
  PROVE  \E q1, i1, q2, i2 :
           /\ TaskAt(t1, q1, i1) /\ (i1 = 0 => q1 = r1 /\ j1 = 0)
           /\ TaskAt(t2, q2, i2) /\ (i2 = 0 => q2 = r2 /\ j2 = 0)
           /\ q1 = q2 /\ i1 = i2 => r1 = r2 /\ j1 = j2
<1> DEFINE Goal == \E q1, i1, q2, i2 :
                     /\ TaskAt(t1, q1, i1) /\ (i1 = 0 => q1 = r1 /\ j1 = 0)
                     /\ TaskAt(t2, q2, i2) /\ (i2 = 0 => q2 = r2 /\ j2 = 0)
                     /\ q1 = q2 /\ i1 = i2 => r1 = r2 /\ j1 = j2
<1>0. /\ pc \in [Worker -> Location] /\ deque \in [Worker -> Seq(Task)] /\ injector \in Seq(Task)
      /\ task \in [Worker -> Task \cup {NoTask}] /\ pub \in [Worker -> Task \cup {NoTask}]
      /\ \A v \in Worker : v # 0
  BY DEF TypeOK, Worker
<1>a. /\ \A v \in Worker : Len(deque[v]) \in Nat
      /\ Len(injector) \in Nat
  BY <1>0, LenProperties
<1>1. CASE PopLocal(w) \/ StealPeer(w)
  <2>1. PICK v \in Worker :
          /\ deque[v] # <<>> /\ deque'[v] = Tail(deque[v]) /\ task'[w] = Head(deque[v])
          /\ \A u \in Worker \ {v} : deque'[u] = deque[u]
          /\ \A u \in Worker \ {w} : task'[u] = task[u]
          /\ InHand' = InHand \cup {w} /\ w \notin InHand /\ Publishing' = Publishing
          /\ injector' = injector /\ pub' = pub
    <3>1. CASE PopLocal(w)
      BY <1>0, <3>1 DEF PopLocal, Goto, InHand, Publishing
    <3>2. CASE StealPeer(w)
      BY <1>0, <3>2 DEF StealPeer, Goto, InHand, Publishing
    <3> QED
      BY <1>1, <3>1, <3>2
  <2>2. /\ Len(deque'[v]) = Len(deque[v]) - 1 /\ Len(deque[v]) \in Nat \ {0}
        /\ \A k \in 1..(Len(deque[v]) - 1) : deque'[v][k] = deque[v][k + 1]
        /\ task'[w] = deque[v][1]
    BY <1>0, <2>1, HeadTailProperties, EmptySeq, LenProperties
  <2> DEFINE q(r, j) == IF r = w /\ j = 0 THEN v ELSE r
             i(r, j) == IF r = w /\ j = 0 THEN 1
                        ELSE IF r = v /\ j # 0 /\ j # -1 THEN j + 1 ELSE j
  <2>3. ASSUME NEW t, NEW r, NEW j, TaskAt(t, r, j)'
        PROVE  /\ TaskAt(t, q(r, j), i(r, j)) /\ (i(r, j) = 0 => q(r, j) = r /\ j = 0)
               /\ j \in Int /\ j >= -1
    <3>1. CASE r = 0 /\ j \in 1..Len(injector') /\ t = injector'[j]
      <4>1. q(r, j) = 0 /\ i(r, j) = j /\ j \in 1..Len(injector) /\ t = injector[j]
        BY <1>0, <2>1, <3>1
      <4> QED
        BY <1>a, <3>1, <4>1 DEF TaskAt
    <3>2. CASE r \in Worker /\ j \in 1..Len(deque'[r]) /\ t = deque'[r][j]
      <4>1. CASE r = v
        <5>1. /\ q(r, j) = v /\ i(r, j) = j + 1
              /\ j + 1 \in 1..Len(deque[v]) /\ t = deque[v][j + 1] /\ j \in Nat
          BY <2>2, <3>2, <4>1
        <5> QED
          BY <5>1 DEF TaskAt
      <4>2. CASE r # v
        <5>1. q(r, j) = r /\ i(r, j) = j /\ j \in 1..Len(deque[r]) /\ t = deque[r][j]
          BY <1>a, <2>1, <3>2, <4>2
        <5> QED
          BY <1>a, <3>2, <5>1 DEF TaskAt
      <4> QED
        BY <4>1, <4>2
    <3>3. CASE r \in InHand' /\ j = 0 /\ t = task'[r]
      <4>1. CASE r = w
        <5>1. q(r, j) = v /\ i(r, j) = 1 /\ 1 \in 1..Len(deque[v]) /\ t = deque[v][1]
          BY <2>2, <3>3, <4>1
        <5> QED
          BY <3>3, <5>1 DEF TaskAt
      <4>2. CASE r # w
        <5>1. q(r, j) = r /\ i(r, j) = 0 /\ r \in InHand /\ t = task[r]
          BY <2>1, <3>3, <4>2 DEF InHand
        <5> QED
          BY <3>3, <5>1 DEF TaskAt
      <4> QED
        BY <4>1, <4>2
    <3>4. CASE r \in Publishing' /\ j = -1 /\ t = pub'[r]
      <4>1. q(r, j) = r /\ i(r, j) = -1 /\ r \in Publishing /\ t = pub[r]
        BY <2>1, <3>4
      <4> QED
        BY <3>4, <4>1 DEF TaskAt
    <3>5. \/ r = 0 /\ j \in 1..Len(injector') /\ t = injector'[j]
          \/ r \in Worker /\ j \in 1..Len(deque'[r]) /\ t = deque'[r][j]
          \/ r \in InHand' /\ j = 0 /\ t = task'[r]
          \/ r \in Publishing' /\ j = -1 /\ t = pub'[r]
      BY <2>3 DEF TaskAt
    <3> HIDE DEF q, i
    <3> QED
      BY <3>1, <3>2, <3>3, <3>4, <3>5
  <2>4. ASSUME NEW r, NEW s, NEW j \in Int, NEW k \in Int, j >= -1, k >= -1,
               q(r, j) = q(s, k), i(r, j) = i(s, k)
        PROVE  r = s /\ j = k
    BY <2>4
  <2>5. /\ TaskAt(t1, q(r1, j1), i(r1, j1)) /\ (i(r1, j1) = 0 => q(r1, j1) = r1 /\ j1 = 0)
        /\ TaskAt(t2, q(r2, j2), i(r2, j2)) /\ (i(r2, j2) = 0 => q(r2, j2) = r2 /\ j2 = 0)
        /\ j1 \in Int /\ j1 >= -1 /\ j2 \in Int /\ j2 >= -1
    <3> HIDE DEF q, i
    <3> QED
      BY <2>3
  <2> HIDE DEF q, i
  <2> QED
    BY <2>4, <2>5
<1>2. CASE StealInjector(w)
  <2>1. PICK n \in 1..Len(injector) :
        /\ Goto(w, "inject", "got")
        /\ task' = [task EXCEPT ![w] = injector[1]]
        /\ deque' = [deque EXCEPT ![w] = @ \o SubSeq(injector, 2, n)]
        /\ injector' = SubSeq(injector, n + 1, Len(injector))
        /\ UNCHANGED <<control, outstanding, pub, victim, woken, failed, history>>
    BY <1>2 DEF StealInjector
  <2> DEFINE d == deque[w]
             taken == SubSeq(injector, 2, n)
  <2>2. /\ d \in Seq(Task) /\ deque'[w] = d \o taken /\ task'[w] = injector[1]
        /\ \A u \in Worker \ {w} : deque'[u] = deque[u]
        /\ \A u \in Worker \ {w} : task'[u] = task[u]
        /\ InHand' = InHand \cup {w} /\ w \notin InHand /\ Publishing' = Publishing
        /\ pub' = pub
    BY <1>0, <2>1 DEF Goto, InHand, Publishing
  <2>3. /\ taken \in Seq(Task) /\ Len(taken) = n - 1
        /\ \A m \in 1..(n - 1) : taken[m] = injector[m + 1]
    <3>1. 2 \in 1..(Len(injector) + 1) /\ n \in 1..Len(injector)
      BY <1>a
    <3> QED
      BY <1>0, <1>a, <3>1, SubSeqProperties
  <2>4. /\ Len(injector') = Len(injector) - n
        /\ \A m \in 1..(Len(injector) - n) : injector'[m] = injector[m + n]
    <3>1. n + 1 \in 1..(Len(injector) + 1) /\ Len(injector) \in n..Len(injector)
      BY <1>a
    <3> QED
      BY <1>0, <1>a, <2>1, <3>1, SubSeqProperties
  <2> HIDE DEF taken
  <2>5. /\ Len(d \o taken) = Len(d) + (n - 1)
        /\ \A m \in 1..(Len(d) + (n - 1)) :
             (d \o taken)[m] = IF m <= Len(d) THEN d[m] ELSE taken[m - Len(d)]
    <3> HIDE DEF d
    <3>1. /\ Len(d \o taken) = Len(d) + Len(taken)
          /\ \A m \in 1..(Len(d) + Len(taken)) :
               (d \o taken)[m] = IF m <= Len(d) THEN d[m] ELSE taken[m - Len(d)]
      BY ZenonT(120), <2>2, <2>3, ConcatProperties
    <3> QED
      BY <2>3, <3>1
  <2>6. PICK l \in Nat : l = Len(d)
    BY <1>a
  <2>7. n \in Nat \ {0}
    BY <1>a
  <2> DEFINE q(r, j) == IF r = w /\ (j = 0 \/ j > l) THEN 0 ELSE r
             i(r, j) == IF r = w /\ j = 0 THEN 1
                        ELSE IF r = w /\ j > l THEN (j - l) + 1
                        ELSE IF r = 0 THEN j + n ELSE j
             Fits(r, j) == /\ j \in Int /\ j >= -1 /\ (r = w => j <= l + (n - 1))
                           /\ (r = 0 => j >= 1)
  <2>8. ASSUME NEW t, NEW r, NEW j, TaskAt(t, r, j)'
        PROVE  /\ TaskAt(t, q(r, j), i(r, j)) /\ (i(r, j) = 0 => q(r, j) = r /\ j = 0)
               /\ Fits(r, j)
    <3>1. CASE r = 0 /\ j \in 1..Len(injector') /\ t = injector'[j]
      <4>1. /\ q(r, j) = 0 /\ i(r, j) = j + n /\ j + n \in 1..Len(injector) /\ t = injector[j + n]
            /\ j \in Nat \ {0} /\ j + n # 0 /\ r # w
        BY <1>0, <1>a, <2>4, <2>7, <3>1
      <4> QED
        BY <4>1 DEF TaskAt
    <3>2. CASE r \in Worker /\ j \in 1..Len(deque'[r]) /\ t = deque'[r][j]
      <4>0. r # 0
        BY <1>0, <3>2
      <4>1. CASE r = w /\ j <= l
        <5>1. /\ q(r, j) = w /\ i(r, j) = j /\ j \in 1..Len(d) /\ t = d[j] /\ j \in Nat \ {0}
              /\ j <= l + (n - 1)
          BY SMTT(90), <2>2, <2>5, <2>6, <2>7, <3>2, <4>0, <4>1
        <5> QED
          BY <4>0, <4>1, <5>1 DEF TaskAt
      <4>2. CASE r = w /\ ~(j <= l)
        <5>1. j \in 1..(l + (n - 1)) /\ j > l /\ t = taken[j - l]
          BY SMTT(90), <2>2, <2>5, <2>6, <2>7, <3>2, <4>2
        <5>2. j - l \in 1..(n - 1) /\ (j - l) + 1 \in 1..Len(injector)
          BY <1>a, <2>7, <5>1
        <5>3. t = injector[(j - l) + 1]
          BY <2>3, <5>1, <5>2
        <5>4. q(r, j) = 0 /\ i(r, j) = (j - l) + 1 /\ (j - l) + 1 # 0
          BY <4>2, <5>1, <5>2
        <5> QED
          BY <4>0, <5>1, <5>2, <5>3, <5>4 DEF TaskAt
      <4>3. CASE r # w
        <5>1. q(r, j) = r /\ i(r, j) = j /\ j \in 1..Len(deque[r]) /\ t = deque[r][j]
          BY <1>a, <2>2, <3>2, <4>0, <4>3
        <5> QED
          BY <1>a, <3>2, <4>0, <4>3, <5>1 DEF TaskAt
      <4> QED
        BY <4>1, <4>2, <4>3
    <3>3. CASE r \in InHand' /\ j = 0 /\ t = task'[r]
      <4>0. r # 0
        BY <1>0, <3>3 DEF InHand
      <4>1. CASE r = w
        <5>1. q(r, j) = 0 /\ i(r, j) = 1 /\ 1 \in 1..Len(injector) /\ t = injector[1]
          BY <1>a, <2>2, <3>3, <4>1
        <5> QED
          BY <2>6, <2>7, <3>3, <4>0, <5>1 DEF TaskAt
      <4>2. CASE r # w
        <5>1. q(r, j) = r /\ i(r, j) = 0 /\ r \in InHand /\ t = task[r]
          BY <2>2, <3>3, <4>0, <4>2 DEF InHand
        <5> QED
          BY <3>3, <4>0, <4>2, <5>1 DEF TaskAt
      <4> QED
        BY <4>1, <4>2
    <3>4. CASE r \in Publishing' /\ j = -1 /\ t = pub'[r]
      <4>0. r # 0
        BY <1>0, <3>4 DEF Publishing
      <4>1. q(r, j) = r /\ i(r, j) = -1 /\ r \in Publishing /\ t = pub[r]
        BY <2>2, <2>6, <3>4, <4>0
      <4> QED
        BY <2>6, <2>7, <3>4, <4>0, <4>1 DEF TaskAt
    <3>5. \/ r = 0 /\ j \in 1..Len(injector') /\ t = injector'[j]
          \/ r \in Worker /\ j \in 1..Len(deque'[r]) /\ t = deque'[r][j]
          \/ r \in InHand' /\ j = 0 /\ t = task'[r]
          \/ r \in Publishing' /\ j = -1 /\ t = pub'[r]
      BY <2>8 DEF TaskAt
    <3> HIDE DEF q, i, Fits
    <3> QED
      BY <3>1, <3>2, <3>3, <3>4, <3>5
  <2>9. ASSUME NEW r, NEW s, NEW j, NEW k, Fits(r, j), Fits(s, k),
               q(r, j) = q(s, k), i(r, j) = i(s, k)
        PROVE  r = s /\ j = k
    BY <1>0, <2>6, <2>7, <2>9
  <2>10. /\ TaskAt(t1, q(r1, j1), i(r1, j1)) /\ (i(r1, j1) = 0 => q(r1, j1) = r1 /\ j1 = 0)
         /\ TaskAt(t2, q(r2, j2), i(r2, j2)) /\ (i(r2, j2) = 0 => q(r2, j2) = r2 /\ j2 = 0)
         /\ Fits(r1, j1) /\ Fits(r2, j2)
    <3> HIDE DEF q, i, Fits
    <3> QED
      BY <2>8
  <2> HIDE DEF q, i, Fits
  <2> QED
    BY <2>9, <2>10
<1>3. CASE PushTask(w)
  <2>1. /\ deque'[w] = Append(deque[w], pub[w])
        /\ \A v \in Worker \ {w} : deque'[v] = deque[v]
        /\ InHand' = InHand /\ Publishing' = Publishing \ {w} /\ w \in Publishing
        /\ injector' = injector /\ task' = task
        /\ \A v \in Worker \ {w} : pub'[v] = pub[v]
    BY <1>0, <1>3 DEF PushTask, Goto, InHand, Publishing, history
  <2>2. pub[w] \in Task \cup {NoTask} /\ deque[w] \in Seq(Task \cup {NoTask})
    BY <1>0, SeqMonotonic
  <2>3. /\ Len(deque'[w]) = Len(deque[w]) + 1
        /\ \A k \in 1..Len(deque[w]) : deque'[w][k] = deque[w][k]
        /\ deque'[w][Len(deque[w]) + 1] = pub[w]
    BY <2>1, <2>2, AppendProperties
  <2>4. PICK l \in Nat : l = Len(deque[w])
    BY <1>a
  <2> DEFINE i(r, j) == IF r = w /\ j = l + 1 THEN -1 ELSE j
             Fits(r, j) == j \in Int /\ ~(r = w /\ j = -1)
  <2>5. ASSUME NEW t, NEW r, NEW j, TaskAt(t, r, j)'
        PROVE  TaskAt(t, r, i(r, j)) /\ (i(r, j) = 0 => j = 0) /\ Fits(r, j)
    <3>1. CASE r = 0 /\ j \in 1..Len(injector') /\ t = injector'[j]
      <4>1. i(r, j) = j /\ j \in Nat \ {0} /\ j \in 1..Len(injector) /\ t = injector[j]
        BY <1>0, <1>a, <2>1, <3>1
      <4> QED
        BY <3>1, <4>1 DEF TaskAt
    <3>2. CASE r \in Worker /\ j \in 1..Len(deque'[r]) /\ t = deque'[r][j]
      <4>1. CASE r = w /\ j = l + 1
        <5>1. i(r, j) = -1 /\ t = pub[w] /\ j \in Nat \ {0}
          BY <2>3, <2>4, <3>2, <4>1
        <5> QED
          BY <2>1, <4>1, <5>1 DEF TaskAt
      <4>2. CASE r = w /\ j # l + 1
        <5>1. i(r, j) = j /\ j \in 1..Len(deque[w]) /\ t = deque[w][j] /\ j \in Nat \ {0}
          BY <2>3, <2>4, <3>2, <4>2
        <5> QED
          BY <4>2, <5>1 DEF TaskAt
      <4>3. CASE r # w
        <5>1. i(r, j) = j /\ j \in 1..Len(deque[r]) /\ t = deque[r][j] /\ j \in Nat \ {0}
          BY <1>a, <2>1, <3>2, <4>3
        <5> QED
          BY <3>2, <5>1 DEF TaskAt
      <4> QED
        BY <4>1, <4>2, <4>3
    <3>3. CASE r \in InHand' /\ j = 0 /\ t = task'[r]
      <4>1. i(r, j) = 0 /\ r \in InHand /\ t = task[r]
        BY <2>1, <2>4, <3>3
      <4> QED
        BY <3>3, <4>1 DEF TaskAt
    <3>4. CASE r \in Publishing' /\ j = -1 /\ t = pub'[r]
      <4>1. i(r, j) = -1 /\ r \in Publishing /\ r # w
        BY <2>1, <2>4, <3>4
      <4>2. t = pub[r]
        BY <2>1, <3>4, <4>1 DEF Publishing
      <4> QED
        BY <3>4, <4>1, <4>2 DEF TaskAt
    <3>5. \/ r = 0 /\ j \in 1..Len(injector') /\ t = injector'[j]
          \/ r \in Worker /\ j \in 1..Len(deque'[r]) /\ t = deque'[r][j]
          \/ r \in InHand' /\ j = 0 /\ t = task'[r]
          \/ r \in Publishing' /\ j = -1 /\ t = pub'[r]
      BY <2>5 DEF TaskAt
    <3> HIDE DEF i, Fits
    <3> QED
      BY <3>1, <3>2, <3>3, <3>4, <3>5
  <2>6. ASSUME NEW r, NEW s, NEW j, NEW k, Fits(r, j), Fits(s, k), r = s, i(r, j) = i(s, k)
        PROVE  j = k
    BY <2>4, <2>6
  <2>7. /\ TaskAt(t1, r1, i(r1, j1)) /\ (i(r1, j1) = 0 => j1 = 0) /\ Fits(r1, j1)
        /\ TaskAt(t2, r2, i(r2, j2)) /\ (i(r2, j2) = 0 => j2 = 0) /\ Fits(r2, j2)
    <3> HIDE DEF i, Fits
    <3> QED
      BY <2>5
  <2> HIDE DEF i, Fits
  <2> QED
    BY <2>6, <2>7
<1>4. CASE /\ injector' = injector /\ deque' = deque /\ pub' = pub
           /\ InHand' \subseteq InHand /\ Publishing' = Publishing
           /\ \A v \in InHand' : task'[v] = task[v]
  <2>1. \A t, r, j : TaskAt(t, r, j)' => TaskAt(t, r, j)
    BY <1>4 DEF TaskAt
  <2>2. TaskAt(t1, r1, j1) /\ TaskAt(t2, r2, j2)
    BY <2>1
  <2> QED
    BY <2>2
<1>5. CASE TaskFinished(w)
  <2>1. /\ InHand' = InHand \ {w} /\ Publishing' = Publishing
        /\ \A v \in InHand' : task'[v] = task[v]
        /\ injector' = injector /\ deque' = deque /\ pub' = pub
    BY <1>0, <1>5 DEF TaskFinished, Goto, InHand, Publishing, queues
  <2> QED
    BY <1>4, <2>1
<1>6. CASE QuietStep(w)
  BY <1>4, <1>6, QuietSteps
<1> QED
  BY <1>1, <1>2, <1>3, <1>5, <1>6 DEF WorkerLoop, QuietStep

-----------------------------------------------------------------------------
(* Tasks that wait                                                         *)

(* The places of the tasks of U that no worker has started: in a queue, in   *)
(* a hand of "got", or on the way to a deque.                                *)
WaitsAt(inj, deques, got, publishing, hand, out, t, q, i) ==
  \/ q = 0 /\ i \in 1..Len(inj) /\ t = inj[i]
  \/ q \in Worker /\ i \in 1..Len(deques[q]) /\ t = deques[q][i]
  \/ q \in got /\ i = 0 /\ t = hand[q]
  \/ q \in publishing /\ i = -1 /\ t = out[q]

UnstartedOf(inj, deques, got, publishing, hand, out, U) ==
  {s \in SlotsOf(inj, deques, got, publishing) :
     (IF s[1] = 0 THEN inj[s[2]]
      ELSE IF s[2] = 0 THEN hand[s[1]]
      ELSE IF s[2] = -1 THEN out[s[1]] ELSE deques[s[1]][s[2]]) \in U}

LEMMA UnstartedPlaces ==
  ASSUME NEW inj, NEW deques, NEW got, NEW publishing, NEW hand, NEW out, NEW U, NEW s,
         got \subseteq Worker, publishing \subseteq Worker
  PROVE  s \in UnstartedOf(inj, deques, got, publishing, hand, out, U) <=>
           \E q, i : s = <<q, i>> /\ \E t \in U : WaitsAt(inj, deques, got, publishing, hand, out, t, q, i)
<1>0. \A w \in Worker : w # 0
  BY DEF Worker
<1> DEFINE at(q, i) == IF q = 0 THEN inj[i]
                       ELSE IF i = 0 THEN hand[q]
                       ELSE IF i = -1 THEN out[q] ELSE deques[q][i]
           here(q, i) == \/ q = 0 /\ i \in 1..Len(inj)
                         \/ q \in Worker /\ i \in 1..Len(deques[q])
                         \/ q \in got /\ i = 0
                         \/ q \in publishing /\ i = -1
<1>1. \A q, i : here(q, i) =>
        \A t : WaitsAt(inj, deques, got, publishing, hand, out, t, q, i) <=> t = at(q, i)
  BY <1>0 DEF WaitsAt
<1>2. \A q, i, t : WaitsAt(inj, deques, got, publishing, hand, out, t, q, i) => here(q, i)
  BY DEF WaitsAt
<1>3. s \in SlotsOf(inj, deques, got, publishing) <=> \E q, i : s = <<q, i>> /\ here(q, i)
  BY SlotMembership
<1>4. \A q, i : s = <<q, i>> => s[1] = q /\ s[2] = i
  OBVIOUS
<1>5. \A q, i : s = <<q, i>> =>
        (s \in UnstartedOf(inj, deques, got, publishing, hand, out, U) <=> here(q, i) /\ at(q, i) \in U)
  <2> SUFFICES ASSUME NEW q, NEW i, s = <<q, i>>
               PROVE  s \in UnstartedOf(inj, deques, got, publishing, hand, out, U)
                        <=> here(q, i) /\ at(q, i) \in U
    OBVIOUS
  <2>1. s[1] = q /\ s[2] = i
    BY <1>4
  <2>2. s \in SlotsOf(inj, deques, got, publishing) <=> here(q, i)
    <3> HIDE DEF here
    <3>1. \A r, j : s = <<r, j>> => r = q /\ j = i
      OBVIOUS
    <3> QED
      BY <1>3, <3>1
  <2> HIDE DEF here
  <2> QED
    BY <2>1, <2>2 DEF UnstartedOf
<1>6. s \in UnstartedOf(inj, deques, got, publishing, hand, out, U) => \E q, i : s = <<q, i>>
  BY <1>3 DEF UnstartedOf
<1> HIDE DEF at, here
<1> QED
  BY <1>1, <1>2, <1>5, <1>6

(* Sets that map to each other back and forth are of one size. *)
LEMMA SameSize ==
  ASSUME NEW A, NEW B, NEW f, NEW g, f \in [A -> B], g \in [B -> A], IsFiniteSet(A),
         \A x \in A : g[f[x]] = x, \A y \in B : f[g[y]] = y
  PROVE  IsFiniteSet(B) /\ Cardinality(B) = Cardinality(A)
<1>1. f \in Bijection(A, B)
  <2>1. \A x, y \in A : f[x] = f[y] => x = y
    OBVIOUS
  <2>2. \A y \in B : \E x \in A : f[x] = y
    OBVIOUS
  <2> QED
    BY <2>1, <2>2, Fun_IsBij
<1> QED
  BY <1>1, FS_Bijection DEF ExistsBijection

(* The first task of a deque goes to a hand. *)
LEMMA UnstartedTaken ==
  ASSUME NEW inj, NEW D, NEW E, NEW G, NEW K, NEW P,
         NEW T, NEW F, NEW out, NEW U,
         NEW w \in Worker, NEW v \in Worker, w \notin G, K = G \cup {w},
         G \subseteq Worker, K \subseteq Worker, P \subseteq Worker,
         \A u \in Worker : Len(D[u]) \in Nat, Len(D[v]) # 0,
         \A u \in Worker \ {v} : E[u] = D[u],
         Len(E[v]) = Len(D[v]) - 1, \A i \in 1..(Len(D[v]) - 1) : E[v][i] = D[v][i + 1],
         F[w] = D[v][1], \A u \in Worker \ {w} : F[u] = T[u],
         IsFiniteSet(UnstartedOf(inj, D, G, P, T, out, U))
  PROVE  /\ IsFiniteSet(UnstartedOf(inj, E, K, P, F, out, U))
         /\ Cardinality(UnstartedOf(inj, E, K, P, F, out, U))
              = Cardinality(UnstartedOf(inj, D, G, P, T, out, U))
<1> DEFINE A == UnstartedOf(inj, D, G, P, T, out, U)
           B == UnstartedOf(inj, E, K, P, F, out, U)
           to(s) == IF s[1] = v /\ s[2] = 1 THEN <<w, 0>>
                    ELSE IF s[1] = v /\ s[2] \in Nat /\ s[2] > 1 THEN <<v, s[2] - 1>> ELSE s
           from(s) == IF s = <<w, 0>> THEN <<v, 1>>
                      ELSE IF s[1] = v /\ s[2] \in Nat \ {0} THEN <<v, s[2] + 1>> ELSE s
<1>0. \A u \in Worker : u # 0
  BY DEF Worker
<1>1. ASSUME NEW s \in A
      PROVE  to(s) \in B /\ from(to(s)) = s
  <2>0. PICK q, i : s = <<q, i>> /\ \E t \in U : WaitsAt(inj, D, G, P, T, out, t, q, i)
    BY <1>1, UnstartedPlaces
  <2>1. PICK t \in U : s = <<q, i>> /\ WaitsAt(inj, D, G, P, T, out, t, q, i)
    BY <2>0
  <2>2. s[1] = q /\ s[2] = i
    BY <2>1
  <2>3. CASE q = v /\ i = 1
    <3>1. t = D[v][1]
      BY <1>0, <2>1, <2>3 DEF WaitsAt
    <3>2. WaitsAt(inj, E, K, P, F, out, t, w, 0)
      BY <3>1 DEF WaitsAt
    <3>3. to(s) = <<w, 0>>
      BY <2>2, <2>3
    <3> QED
      BY <2>1, <2>3, <3>2, <3>3, UnstartedPlaces
  <2>4. CASE q = v /\ i \in Nat /\ i > 1
    <3>1. i \in 1..Len(D[v]) /\ t = D[v][i]
      BY <1>0, <2>1, <2>4 DEF WaitsAt
    <3>2. i - 1 \in 1..Len(E[v]) /\ t = E[v][i - 1]
      BY <2>4, <3>1
    <3>3. WaitsAt(inj, E, K, P, F, out, t, v, i - 1)
      BY <3>2 DEF WaitsAt
    <3>4. to(s) = <<v, i - 1>> /\ i - 1 \in Nat \ {0}
      BY <2>2, <2>4
    <3>5. to(s) \in B
      BY <3>3, <3>4, UnstartedPlaces
    <3>6. from(<<v, i - 1>>) = <<v, (i - 1) + 1>>
      BY <3>4
    <3> QED
      BY <2>1, <2>4, <3>4, <3>5, <3>6
  <2>5. CASE ~(q = v /\ i \in Nat /\ i >= 1)
    <3>1. WaitsAt(inj, E, K, P, F, out, t, q, i)
      BY <1>0, <2>1, <2>5 DEF WaitsAt
    <3>2. to(s) = s
      BY <2>2, <2>5
    <3>3. s # <<w, 0>>
      BY <1>0, <2>1 DEF WaitsAt
    <3>4. from(s) = s
      BY <2>2, <2>5, <3>3
    <3> QED
      BY <2>1, <3>1, <3>2, <3>4, UnstartedPlaces
  <2> QED
    BY <2>3, <2>4, <2>5
<1>2. ASSUME NEW s \in B
      PROVE  from(s) \in A /\ to(from(s)) = s
  <2>0. PICK q, i : s = <<q, i>> /\ \E t \in U : WaitsAt(inj, E, K, P, F, out, t, q, i)
    BY <1>2, UnstartedPlaces
  <2>1. PICK t \in U : s = <<q, i>> /\ WaitsAt(inj, E, K, P, F, out, t, q, i)
    BY <2>0
  <2>2. s[1] = q /\ s[2] = i
    BY <2>1
  <2>3. CASE q = w /\ i = 0
    <3>1. t = D[v][1]
      BY <1>0, <2>1, <2>3 DEF WaitsAt
    <3>2. WaitsAt(inj, D, G, P, T, out, t, v, 1)
      BY <3>1 DEF WaitsAt
    <3>3. from(s) = <<v, 1>> /\ to(<<v, 1>>) = <<w, 0>>
      BY <2>1, <2>3
    <3> QED
      BY <2>1, <2>3, <3>2, <3>3, UnstartedPlaces
  <2>4. CASE q = v /\ i \in Nat \ {0}
    <3>1. i \in 1..(Len(D[v]) - 1) /\ t = E[v][i]
      BY <1>0, <2>1, <2>4 DEF WaitsAt
    <3>2. i + 1 \in 1..Len(D[v]) /\ t = D[v][i + 1]
      BY <2>4, <3>1
    <3>3. WaitsAt(inj, D, G, P, T, out, t, v, i + 1)
      BY <3>2 DEF WaitsAt
    <3>4. from(s) = <<v, i + 1>>
      BY <2>1, <2>2, <2>4
    <3>5. to(<<v, i + 1>>) = <<v, (i + 1) - 1>>
      BY <2>4
    <3> QED
      BY <2>1, <2>4, <3>3, <3>4, <3>5, UnstartedPlaces
  <2>5. CASE ~(q = v /\ i \in Nat \ {0}) /\ ~(q = w /\ i = 0)
    <3>1. WaitsAt(inj, D, G, P, T, out, t, q, i)
      BY <1>0, <2>1, <2>5 DEF WaitsAt
    <3>2. from(s) = s
      BY <2>1, <2>2, <2>5
    <3>3. to(s) = s
      BY <2>2, <2>5
    <3> QED
      BY <2>1, <3>1, <3>2, <3>3, UnstartedPlaces
  <2> QED
    BY <2>3, <2>4, <2>5
<1> HIDE DEF to, from
<1> DEFINE f == [s \in A |-> to(s)]
           g == [s \in B |-> from(s)]
<1>3. /\ f \in [A -> B] /\ g \in [B -> A]
      /\ \A s \in A : g[f[s]] = s
      /\ \A s \in B : f[g[s]] = s
  <2> HIDE DEF A, B
  <2> QED
    BY <1>1, <1>2
<1>4. IsFiniteSet(A)
  OBVIOUS
<1>5. IsFiniteSet(B) /\ Cardinality(B) = Cardinality(A)
  <2> HIDE DEF f, g, A, B
  <2> QED
    BY <1>3, <1>4, SameSize
<1> QED
  BY <1>5

(* The oldest tasks of the injector go to a hand, the first, and to a deque. *)
Stolen(inj, rest, old, new) == \E k \in 1..Len(inj) :
  /\ Len(rest) = Len(inj) - k
  /\ \A i \in 1..(Len(inj) - k) : rest[i] = inj[i + k]
  /\ Len(new) = Len(old) + (k - 1)
  /\ \A i \in 1..Len(old) : new[i] = old[i]
  /\ \A i \in 1..(k - 1) : new[Len(old) + i] = inj[i + 1]

LEMMA UnstartedStolen ==
  ASSUME NEW inj, NEW rest, NEW D, NEW E, NEW G, NEW K, NEW P,
         NEW T, NEW F, NEW out, NEW U,
         NEW w \in Worker, w \notin G, K = G \cup {w},
         G \subseteq Worker, K \subseteq Worker, P \subseteq Worker,
         Len(inj) \in Nat, Len(D[w]) \in Nat,
         \A u \in Worker \ {w} : E[u] = D[u], Stolen(inj, rest, D[w], E[w]),
         F[w] = inj[1], \A u \in Worker \ {w} : F[u] = T[u],
         IsFiniteSet(UnstartedOf(inj, D, G, P, T, out, U))
  PROVE  /\ IsFiniteSet(UnstartedOf(rest, E, K, P, F, out, U))
         /\ Cardinality(UnstartedOf(rest, E, K, P, F, out, U))
              = Cardinality(UnstartedOf(inj, D, G, P, T, out, U))
<1>k. PICK k \in 1..Len(inj) :
        /\ Len(rest) = Len(inj) - k
        /\ \A i \in 1..(Len(inj) - k) : rest[i] = inj[i + k]
        /\ Len(E[w]) = Len(D[w]) + (k - 1)
        /\ \A i \in 1..Len(D[w]) : E[w][i] = D[w][i]
        /\ \A i \in 1..(k - 1) : E[w][Len(D[w]) + i] = inj[i + 1]
  BY DEF Stolen
<1> USE <1>k
<1> DEFINE A == UnstartedOf(inj, D, G, P, T, out, U)
           B == UnstartedOf(rest, E, K, P, F, out, U)
           L == Len(D[w])
           to(s) == IF s[1] # 0 THEN s
                    ELSE IF s[2] = 1 THEN <<w, 0>>
                    ELSE IF s[2] \in Nat /\ s[2] <= k THEN <<w, L + (s[2] - 1)>>
                    ELSE <<0, s[2] - k>>
           from(s) == IF s[1] = 0 THEN <<0, s[2] + k>>
                      ELSE IF s[1] = w /\ s[2] = 0 THEN <<0, 1>>
                      ELSE IF s[1] = w /\ s[2] \in Nat /\ s[2] > L THEN <<0, (s[2] - L) + 1>> ELSE s
<1>0. \A u \in Worker : u # 0
  BY DEF Worker
<1>a. L \in Nat /\ k \in Nat /\ k >= 1 /\ k <= Len(inj)
  OBVIOUS
<1>1. ASSUME NEW s \in A
      PROVE  to(s) \in B /\ from(to(s)) = s
  <2>0. PICK q, i : s = <<q, i>> /\ \E t \in U : WaitsAt(inj, D, G, P, T, out, t, q, i)
    BY <1>1, UnstartedPlaces
  <2>1. PICK t \in U : s = <<q, i>> /\ WaitsAt(inj, D, G, P, T, out, t, q, i)
    BY <2>0
  <2>2. s[1] = q /\ s[2] = i
    BY <2>1
  <2>3. CASE q = 0
    <3>1. i \in 1..Len(inj) /\ t = inj[i]
      BY <1>0, <2>1, <2>3 DEF WaitsAt
    <3>2. CASE i = 1
      <4>1. WaitsAt(rest, E, K, P, F, out, t, w, 0)
        BY <3>1, <3>2 DEF WaitsAt
      <4>2. to(s) = <<w, 0>> /\ from(<<w, 0>>) = <<0, 1>>
        BY <1>0, <2>2, <2>3, <3>2
      <4> QED
        BY <2>1, <2>3, <3>2, <4>1, <4>2, UnstartedPlaces
    <3>3. CASE i # 1 /\ i <= k
      <4>1. PICK m : m = L + (i - 1)
        OBVIOUS
      <4>2. m \in 1..Len(E[w]) /\ E[w][m] = t
        <5>1. i - 1 \in 1..(k - 1) /\ (i - 1) + 1 = i
          BY <3>1, <3>3
        <5>2. E[w][L + (i - 1)] = inj[(i - 1) + 1]
          BY <5>1
        <5> HIDE DEF L
        <5> QED
          BY <1>a, <3>1, <4>1, <5>1, <5>2 DEF L
      <4>3. WaitsAt(rest, E, K, P, F, out, t, w, m)
        BY <4>2 DEF WaitsAt
      <4> HIDE DEF L
      <4>4. to(s) = <<w, m>>
        BY <2>2, <2>3, <3>1, <3>3, <4>1
      <4>5. m \in Nat /\ m > L /\ (m - L) + 1 = i
        BY <1>a, <3>1, <3>3, <4>1
      <4>6. from(<<w, m>>) = <<0, i>>
        BY <1>0, <1>a, <4>5
      <4> QED
        BY <2>1, <2>3, <4>3, <4>4, <4>6, UnstartedPlaces
    <3>4. CASE i > k
      <4>1. i - k \in 1..Len(rest) /\ rest[i - k] = t /\ (i - k) + k = i
        <5>1. i - k \in 1..(Len(inj) - k) /\ (i - k) + k = i
          BY <3>1, <3>4
        <5> QED
          BY <3>1, <5>1
      <4>2. WaitsAt(rest, E, K, P, F, out, t, 0, i - k)
        BY <4>1 DEF WaitsAt
      <4>3. to(s) = <<0, i - k>>
        BY <2>2, <2>3, <3>1, <3>4
      <4>4. from(<<0, i - k>>) = <<0, i>>
        BY <4>1
      <4> QED
        BY <2>1, <2>3, <4>2, <4>3, <4>4, UnstartedPlaces
    <3> QED
      BY <3>1, <3>2, <3>3, <3>4
  <2>4. CASE q # 0
    <3>1. WaitsAt(rest, E, K, P, F, out, t, q, i)
      <4>1. CASE q = w /\ i \in 1..Len(D[w]) /\ t = D[w][i]
        <5>1. i \in 1..Len(E[w]) /\ t = E[w][i]
          BY <1>a, <4>1
        <5> QED
          BY <4>1, <5>1 DEF WaitsAt
      <4>2. CASE ~(q = w /\ i \in 1..Len(D[w]) /\ t = D[w][i])
        BY <1>0, <2>1, <2>4, <4>2 DEF WaitsAt
      <4> QED
        BY <4>1, <4>2
    <3>2. to(s) = s
      BY <2>2, <2>4
    <3>3. from(s) = s
      BY <1>0, <2>1, <2>2, <2>4 DEF WaitsAt
    <3> QED
      BY <2>1, <3>1, <3>2, <3>3, UnstartedPlaces
  <2> QED
    BY <2>3, <2>4
<1>2. ASSUME NEW s \in B
      PROVE  from(s) \in A /\ to(from(s)) = s
  <2>0. PICK q, i : s = <<q, i>> /\ \E t \in U : WaitsAt(rest, E, K, P, F, out, t, q, i)
    BY <1>2, UnstartedPlaces
  <2>1. PICK t \in U : s = <<q, i>> /\ WaitsAt(rest, E, K, P, F, out, t, q, i)
    BY <2>0
  <2>2. s[1] = q /\ s[2] = i
    BY <2>1
  <2>3. CASE q = 0
    <3>1. i \in 1..(Len(inj) - k) /\ t = inj[i + k]
      BY <1>0, <2>1, <2>3 DEF WaitsAt
    <3>2. i + k \in 1..Len(inj) /\ i + k > k /\ i + k # 1 /\ (i + k) - k = i
      BY <3>1
    <3>3. WaitsAt(inj, D, G, P, T, out, t, 0, i + k)
      BY <3>1, <3>2 DEF WaitsAt
    <3>4. from(s) = <<0, i + k>>
      BY <2>2, <2>3
    <3>5. to(<<0, i + k>>) = <<0, i>>
      BY <3>2
    <3> QED
      BY <2>1, <2>3, <3>3, <3>4, <3>5, UnstartedPlaces
  <2>4. CASE q = w /\ i = 0
    <3>1. t = inj[1]
      BY <1>0, <2>1, <2>4 DEF WaitsAt
    <3>2. WaitsAt(inj, D, G, P, T, out, t, 0, 1)
      BY <3>1 DEF WaitsAt
    <3>3. from(s) = <<0, 1>> /\ to(<<0, 1>>) = <<w, 0>>
      BY <1>0, <2>2, <2>4
    <3> QED
      BY <2>1, <2>4, <3>2, <3>3, UnstartedPlaces
  <2>5. CASE q = w /\ i \in Nat /\ i > L
    <3>1. PICK m : m = (i - L) + 1
      OBVIOUS
    <3>2. i \in 1..Len(E[w]) /\ t = E[w][i]
      BY <1>0, <1>a, <2>1, <2>5 DEF WaitsAt
    <3>3. m - 1 \in 1..(k - 1) /\ L + (m - 1) = i /\ m \in 1..Len(inj) /\ m <= k /\ m # 1
      <4> HIDE DEF L
      <4>1. i <= L + (k - 1)
        BY <3>2 DEF L
      <4>2. PICK d : d = i - L
        OBVIOUS
      <4>3. d \in Nat \ {0} /\ d <= k - 1 /\ L + d = i
        BY <1>a, <2>5, <4>1, <4>2
      <4>4. m = d + 1
        BY <3>1, <4>2
      <4>5. m - 1 = d /\ m \in Nat /\ m <= k /\ m # 1 /\ m >= 1
        BY <4>3, <4>4
      <4>6. m <= Len(inj)
        BY <4>5
      <4> QED
        BY <4>3, <4>5, <4>6
    <3>4. t = inj[m]
      <4>1. E[w][L + (m - 1)] = inj[(m - 1) + 1]
        BY <3>3
      <4>2. (m - 1) + 1 = m
        BY <3>3
      <4> QED
        BY <3>2, <3>3, <4>1, <4>2
    <3>5. WaitsAt(inj, D, G, P, T, out, t, 0, m)
      BY <3>3, <3>4 DEF WaitsAt
    <3> HIDE DEF L
    <3>6. from(s) = <<0, m>>
      BY <1>0, <1>a, <2>2, <2>5, <3>1
    <3>7. to(<<0, m>>) = <<w, i>>
      BY <3>3
    <3> QED
      BY <2>1, <2>5, <3>5, <3>6, <3>7, UnstartedPlaces
  <2>6. CASE q # 0 /\ ~(q = w /\ i = 0) /\ ~(q = w /\ i \in Nat /\ i > L)
    <3>1. WaitsAt(inj, D, G, P, T, out, t, q, i)
      <4>1. CASE q = w /\ i \in 1..Len(E[w]) /\ t = E[w][i]
        <5>1. i \in 1..L /\ t = D[w][i]
          BY SMTT(90), <1>a, <2>6, <4>1
        <5> QED
          BY <4>1, <5>1 DEF WaitsAt
      <4>2. CASE ~(q = w /\ i \in 1..Len(E[w]) /\ t = E[w][i])
        BY <1>0, <2>1, <2>6, <4>2 DEF WaitsAt
      <4> QED
        BY <4>1, <4>2
    <3>2. from(s) = s
      BY <2>2, <2>6
    <3>3. to(s) = s
      BY <2>2, <2>6
    <3> QED
      BY <2>1, <3>1, <3>2, <3>3, UnstartedPlaces
  <2> QED
    BY <2>3, <2>4, <2>5, <2>6
<1> HIDE DEF to, from
<1> DEFINE f == [s \in A |-> to(s)]
           g == [s \in B |-> from(s)]
<1>3. /\ f \in [A -> B] /\ g \in [B -> A]
      /\ \A s \in A : g[f[s]] = s
      /\ \A s \in B : f[g[s]] = s
  <2> HIDE DEF A, B
  <2> QED
    BY <1>1, <1>2
<1>4. IsFiniteSet(A)
  OBVIOUS
<1>5. IsFiniteSet(B) /\ Cardinality(B) = Cardinality(A)
  <2> HIDE DEF f, g, A, B
  <2> QED
    BY <1>3, <1>4, SameSize
<1> QED
  BY <1>5

(* A counted task goes to the end of a deque. *)
LEMMA UnstartedPushed ==
  ASSUME NEW inj, NEW D, NEW E, NEW G, NEW P, NEW Q,
         NEW T, NEW out, NEW next, NEW U, NEW w \in Worker,
         w \in P, Q = P \ {w}, G \subseteq Worker, P \subseteq Worker, Q \subseteq Worker,
         Len(D[w]) \in Nat, \A u \in Worker \ {w} : E[u] = D[u],
         Len(E[w]) = Len(D[w]) + 1, \A i \in 1..Len(D[w]) : E[w][i] = D[w][i],
         E[w][Len(D[w]) + 1] = out[w], \A u \in Worker \ {w} : next[u] = out[u],
         IsFiniteSet(UnstartedOf(inj, D, G, P, T, out, U))
  PROVE  /\ IsFiniteSet(UnstartedOf(inj, E, G, Q, T, next, U))
         /\ Cardinality(UnstartedOf(inj, E, G, Q, T, next, U))
              = Cardinality(UnstartedOf(inj, D, G, P, T, out, U))
<1> DEFINE A == UnstartedOf(inj, D, G, P, T, out, U)
           B == UnstartedOf(inj, E, G, Q, T, next, U)
           to(s) == IF s = <<w, -1>> THEN <<w, Len(D[w]) + 1>> ELSE s
           from(s) == IF s = <<w, Len(D[w]) + 1>> THEN <<w, -1>> ELSE s
<1>0. w \in Worker /\ \A u \in Worker : u # 0
  BY DEF Worker
<1>1. ASSUME NEW s \in A
      PROVE  to(s) \in B /\ from(to(s)) = s
  <2>0. PICK q, i : s = <<q, i>> /\ \E t \in U : WaitsAt(inj, D, G, P, T, out, t, q, i)
    BY <1>1, UnstartedPlaces
  <2>1. PICK t \in U : s = <<q, i>> /\ WaitsAt(inj, D, G, P, T, out, t, q, i)
    BY <2>0
  <2>2. CASE q = w /\ i = -1
    <3>1. t = out[w]
      BY <1>0, <2>1, <2>2 DEF WaitsAt
    <3>2. WaitsAt(inj, E, G, Q, T, next, t, w, Len(D[w]) + 1)
      BY <1>0, <3>1 DEF WaitsAt
    <3> QED
      BY <2>1, <2>2, <3>2, UnstartedPlaces
  <2>3. CASE ~(q = w /\ i = -1)
    <3>1. WaitsAt(inj, E, G, Q, T, next, t, q, i)
      BY <1>0, <2>1, <2>3 DEF WaitsAt
    <3>2. ~(q = w /\ i = Len(D[w]) + 1)
      BY <1>0, <2>1, <2>3 DEF WaitsAt
    <3> QED
      BY <2>1, <2>3, <3>1, <3>2, UnstartedPlaces
  <2> QED
    BY <2>2, <2>3
<1>2. ASSUME NEW s \in B
      PROVE  from(s) \in A /\ to(from(s)) = s
  <2>0. PICK q, i : s = <<q, i>> /\ \E t \in U : WaitsAt(inj, E, G, Q, T, next, t, q, i)
    BY <1>2, UnstartedPlaces
  <2>1. PICK t \in U : s = <<q, i>> /\ WaitsAt(inj, E, G, Q, T, next, t, q, i)
    BY <2>0
  <2>2. CASE q = w /\ i = Len(D[w]) + 1
    <3>1. t = out[w]
      BY <1>0, <2>1, <2>2 DEF WaitsAt
    <3>2. WaitsAt(inj, D, G, P, T, out, t, w, -1)
      BY <1>0, <3>1 DEF WaitsAt
    <3> QED
      BY <2>1, <2>2, <3>2, UnstartedPlaces
  <2>3. CASE ~(q = w /\ i = Len(D[w]) + 1)
    <3>1. WaitsAt(inj, D, G, P, T, out, t, q, i)
      BY <1>0, <2>1, <2>3 DEF WaitsAt
    <3>2. ~(q = w /\ i = -1)
      BY <1>0, <2>1, <2>3 DEF WaitsAt
    <3> QED
      BY <2>1, <2>3, <3>1, <3>2, UnstartedPlaces
  <2> QED
    BY <2>2, <2>3
<1> HIDE DEF to, from
<1> DEFINE f == [s \in A |-> to(s)]
           g == [s \in B |-> from(s)]
<1>3. /\ f \in [A -> B] /\ g \in [B -> A]
      /\ \A s \in A : g[f[s]] = s
      /\ \A s \in B : f[g[s]] = s
  <2> HIDE DEF A, B
  <2> QED
    BY <1>1, <1>2
<1>4. IsFiniteSet(A)
  OBVIOUS
<1>5. IsFiniteSet(B) /\ Cardinality(B) = Cardinality(A)
  <2> HIDE DEF f, g, A, B
  <2> QED
    BY <1>3, <1>4, SameSize
<1> QED
  BY <1>5

-----------------------------------------------------------------------------
(* How many tasks of a set wait, step by step                              *)

Got == {w \in Worker : pc[w] = "got"}
UnstartedIn(U) == UnstartedOf(injector, deque, Got, Publishing, task, pub, U)

(* A worker that does not start a task leaves as many of U to be started as  *)
(* there were.                                                               *)
LEMMA LoopKeepsUnstarted ==
  ASSUME NEW w \in Worker, WorkerLoop(w), ~Admit(w), TypeOK, NEW U, IsFiniteSet(UnstartedIn(U))
  PROVE  IsFiniteSet(UnstartedIn(U)') /\ Cardinality(UnstartedIn(U)') = Cardinality(UnstartedIn(U))
<1> DEFINE Kept == /\ IsFiniteSet(UnstartedIn(U)')
                   /\ Cardinality(UnstartedIn(U)') = Cardinality(UnstartedIn(U))
<1>0. /\ pc \in [Worker -> Location] /\ deque \in [Worker -> Seq(Task)] /\ injector \in Seq(Task)
      /\ task \in [Worker -> Task \cup {NoTask}] /\ pub \in [Worker -> Task \cup {NoTask}]
  BY DEF TypeOK
<1>a. /\ \A u \in Worker : Len(deque[u]) \in Nat
      /\ Len(injector) \in Nat
      /\ Got \in SUBSET Worker /\ Publishing \in SUBSET Worker
  BY <1>0, LenProperties DEF Got, Publishing
<1>b. UnstartedIn(U)' = UnstartedOf(injector', deque', Got', Publishing', task', pub', U)
  BY DEF UnstartedIn
<1>c. PICK inj, D, G, P, T, out :
        /\ inj = injector /\ D = deque /\ G = Got /\ P = Publishing /\ T = task /\ out = pub
  OBVIOUS
<1>d. PICK rest, E, F, next : rest = injector' /\ E = deque' /\ F = task' /\ next = pub'
  OBVIOUS
<1>e. IsFiniteSet(UnstartedOf(inj, D, G, P, T, out, U)) /\ G \in SUBSET Worker /\ P \in SUBSET Worker
  BY <1>a, <1>c DEF UnstartedIn
<1>f. PICK K, Q : K = G \cup {w} /\ Q = P \ {w}
  OBVIOUS
<1>g. K \subseteq Worker /\ Q \subseteq Worker
  BY <1>e, <1>f
<1>1. CASE PopLocal(w) \/ StealPeer(w)
  <2>1. PICK v \in Worker :
          /\ deque[v] # <<>> /\ deque' = [deque EXCEPT ![v] = Tail(@)]
          /\ task' = [task EXCEPT ![w] = Head(deque[v])]
          /\ injector' = injector /\ pub' = pub
          /\ pc[w] \in {"local", "steal"} /\ pc' = [pc EXCEPT ![w] = "got"]
    <3>1. CASE PopLocal(w)
      BY <3>1 DEF PopLocal, Goto
    <3>2. CASE StealPeer(w)
      BY <3>2 DEF StealPeer, Goto
    <3> QED
      BY <1>1, <3>1, <3>2
  <2>2. /\ Got' = Got \cup {w} /\ w \notin Got /\ Publishing' = Publishing
    BY <1>0, <2>1 DEF Got, Publishing
  <2>3. /\ Len(deque[v]) # 0
        /\ \A u \in Worker \ {v} : deque'[u] = deque[u]
        /\ Len(deque'[v]) = Len(deque[v]) - 1
        /\ \A i \in 1..(Len(deque[v]) - 1) : deque'[v][i] = deque[v][i + 1]
        /\ task'[w] = deque[v][1] /\ \A u \in Worker \ {w} : task'[u] = task[u]
    <3>1. deque[v] \in Seq(Task) /\ deque'[v] = Tail(deque[v])
      BY <1>0, <2>1
    <3>2. /\ Len(Tail(deque[v])) = Len(deque[v]) - 1
          /\ \A i \in 1..(Len(deque[v]) - 1) : Tail(deque[v])[i] = deque[v][i + 1]
          /\ Head(deque[v]) = deque[v][1]
      BY <2>1, <3>1, HeadTailProperties
    <3>3. Len(deque[v]) # 0
      BY <2>1, <3>1, EmptySeq
    <3> QED
      BY <1>0, <2>1, <3>1, <3>2, <3>3
  <2>4. /\ w \notin G /\ \A u \in Worker : Len(D[u]) \in Nat
        /\ Len(D[v]) # 0 /\ \A u \in Worker \ {v} : E[u] = D[u]
        /\ Len(E[v]) = Len(D[v]) - 1 /\ \A i \in 1..(Len(D[v]) - 1) : E[v][i] = D[v][i + 1]
        /\ F[w] = D[v][1] /\ \A u \in Worker \ {w} : F[u] = T[u]
    BY <1>a, <1>c, <1>d, <2>2, <2>3
  <2>5. /\ IsFiniteSet(UnstartedOf(inj, E, K, P, F, out, U))
        /\ Cardinality(UnstartedOf(inj, E, K, P, F, out, U))
             = Cardinality(UnstartedOf(inj, D, G, P, T, out, U))
    BY SMTT(90), <1>e, <1>f, <1>g, <2>4, UnstartedTaken
  <2>6. UnstartedIn(U)' = UnstartedOf(inj, E, K, P, F, out, U)
    BY <1>b, <1>c, <1>d, <1>f, <2>1, <2>2
  <2> QED
    BY <1>c, <2>5, <2>6 DEF UnstartedIn
<1>2. CASE StealInjector(w)
  <2>1. PICK k \in 1..Len(injector) :
          /\ deque' = [deque EXCEPT ![w] = @ \o SubSeq(injector, 2, k)]
          /\ injector' = SubSeq(injector, k + 1, Len(injector))
          /\ task' = [task EXCEPT ![w] = injector[1]] /\ pub' = pub
          /\ pc[w] = "inject" /\ pc' = [pc EXCEPT ![w] = "got"]
    BY <1>2 DEF StealInjector, Goto
  <2>2. /\ Got' = Got \cup {w} /\ w \notin Got /\ Publishing' = Publishing
    BY <1>0, <2>1 DEF Got, Publishing
  <2>3. /\ k \in Nat /\ k >= 1 /\ k <= Len(injector)
        /\ \A i \in 1..Len(injector) : injector[i] \in Task
    BY <1>0, <1>a, ElementOfSeq
  <2>4. /\ SubSeq(injector, 2, k) \in Seq(Task) /\ Len(SubSeq(injector, 2, k)) = k - 1
        /\ \A i \in 1..(k - 1) : SubSeq(injector, 2, k)[i] = injector[i + 1]
        /\ Len(injector') = Len(injector) - k
        /\ \A i \in 1..(Len(injector) - k) : injector'[i] = injector[i + k]
    BY <1>a, <2>1, <2>3, SubSeqProperties
  <2>5. /\ \A u \in Worker \ {w} : deque'[u] = deque[u]
        /\ Len(deque'[w]) = Len(deque[w]) + (k - 1)
        /\ \A i \in 1..Len(deque[w]) : deque'[w][i] = deque[w][i]
        /\ \A i \in 1..(k - 1) : deque'[w][Len(deque[w]) + i] = injector[i + 1]
    <3>1. deque[w] \in Seq(Task) /\ deque'[w] = deque[w] \o SubSeq(injector, 2, k)
      BY <1>0, <2>1
    <3> QED
      BY <1>0, <1>a, <2>1, <2>4, <3>1, ConcatProperties
  <2>6. task'[w] = injector[1] /\ \A u \in Worker \ {w} : task'[u] = task[u]
    BY <1>0, <2>1
  <2>7. /\ w \notin G /\ Len(inj) \in Nat /\ Len(D[w]) \in Nat
        /\ \A u \in Worker \ {w} : E[u] = D[u]
        /\ F[w] = inj[1] /\ \A u \in Worker \ {w} : F[u] = T[u]
    BY <1>a, <1>c, <1>d, <2>2, <2>5, <2>6
  <2>8. /\ IsFiniteSet(UnstartedOf(rest, E, K, P, F, out, U))
        /\ Cardinality(UnstartedOf(rest, E, K, P, F, out, U))
             = Cardinality(UnstartedOf(inj, D, G, P, T, out, U))
    <3>1. Stolen(inj, rest, D[w], E[w])
      BY <1>c, <1>d, <2>4, <2>5 DEF Stolen
    <3> QED
      BY <1>e, <1>f, <1>g, <2>7, <3>1, UnstartedStolen
  <2>9. UnstartedIn(U)' = UnstartedOf(rest, E, K, P, F, out, U)
    BY <1>b, <1>c, <1>d, <1>f, <2>1, <2>2
  <2> QED
    BY <1>c, <2>8, <2>9 DEF UnstartedIn
<1>3. CASE PushTask(w)
  <2>1. /\ pc[w] = "push" /\ pc' = [pc EXCEPT ![w] = "run"]
        /\ deque' = [deque EXCEPT ![w] = Append(@, pub[w])]
        /\ pub' = [pub EXCEPT ![w] = NoTask]
        /\ injector' = injector /\ task' = task
    BY <1>3 DEF PushTask, Goto
  <2>2. Got' = Got /\ w \in Publishing /\ Publishing' = Publishing \ {w}
    BY <1>0, <2>1 DEF Got, Publishing
  <2>3. /\ \A u \in Worker \ {w} : deque'[u] = deque[u]
        /\ Len(deque'[w]) = Len(deque[w]) + 1
        /\ \A i \in 1..Len(deque[w]) : deque'[w][i] = deque[w][i]
        /\ deque'[w][Len(deque[w]) + 1] = pub[w]
        /\ \A u \in Worker \ {w} : pub'[u] = pub[u]
    BY <1>0, <1>a, <2>1
  <2>4. /\ w \in P /\ Len(D[w]) \in Nat /\ \A u \in Worker \ {w} : E[u] = D[u]
        /\ Len(E[w]) = Len(D[w]) + 1 /\ \A i \in 1..Len(D[w]) : E[w][i] = D[w][i]
        /\ E[w][Len(D[w]) + 1] = out[w] /\ \A u \in Worker \ {w} : next[u] = out[u]
    BY <1>a, <1>c, <1>d, <2>2, <2>3
  <2>5. /\ IsFiniteSet(UnstartedOf(inj, E, G, Q, T, next, U))
        /\ Cardinality(UnstartedOf(inj, E, G, Q, T, next, U))
             = Cardinality(UnstartedOf(inj, D, G, P, T, out, U))
    BY <1>e, <1>f, <1>g, <2>4, UnstartedPushed
  <2>6. UnstartedIn(U)' = UnstartedOf(inj, E, G, Q, T, next, U)
    BY <1>b, <1>c, <1>d, <1>f, <2>1, <2>2
  <2> QED
    BY <1>c, <2>5, <2>6 DEF UnstartedIn
<1>4. CASE TaskFinished(w)
  <2>1. Got' = Got /\ Publishing' = Publishing /\ w \notin Got
        /\ UNCHANGED <<injector, deque, pub>> /\ \A u \in Worker \ {w} : task'[u] = task[u]
    BY <1>0, <1>4 DEF TaskFinished, Goto, Got, Publishing, queues
  <2>2. \A q, i, t : WaitsAt(inj, D, G, P, T, out, t, q, i) <=> WaitsAt(inj, D, G, P, F, out, t, q, i)
    BY <1>c, <1>d, <2>1 DEF WaitsAt, Got
  <2>3. UnstartedOf(inj, D, G, P, F, out, U) = UnstartedOf(inj, D, G, P, T, out, U)
    <3>1. ASSUME NEW s
          PROVE  s \in UnstartedOf(inj, D, G, P, F, out, U) <=> s \in UnstartedOf(inj, D, G, P, T, out, U)
      <4>1. s \in UnstartedOf(inj, D, G, P, F, out, U) <=> \E q, i : s = <<q, i>> /\ \E t \in U :
              WaitsAt(inj, D, G, P, F, out, t, q, i)
        BY <1>e, UnstartedPlaces
      <4>2. s \in UnstartedOf(inj, D, G, P, T, out, U) <=> \E q, i : s = <<q, i>> /\ \E t \in U :
              WaitsAt(inj, D, G, P, T, out, t, q, i)
        BY <1>e, UnstartedPlaces
      <4> QED
        BY <2>2, <4>1, <4>2
    <3> QED
      BY <3>1 DEF UnstartedOf
  <2>4. UnstartedIn(U)' = UnstartedOf(inj, D, G, P, F, out, U)
    BY <1>b, <1>c, <1>d, <2>1
  <2> QED
    BY <1>c, <1>e, <2>3, <2>4 DEF UnstartedIn
<1>5. CASE QuietStep(w) /\ ~Admit(w)
  <2>1. UNCHANGED <<injector, deque, task, pub>> /\ Publishing' = Publishing
    BY <1>5, QuietSteps
  <2>2. Got' = Got
    <3>1. pc' = pc \/ \E a \in Location \ {"got"} : \E b \in Location \ {"got"} :
                        pc[w] = a /\ pc' = [pc EXCEPT ![w] = b]
      <4>1. CASE \/ LocalEmpty(w) \/ InjectorMissed(w) \/ PeerMissed(w) \/ NothingFound(w)
                 \/ LeaveLoop(w) \/ GoToSleep(w) \/ StartWait(w) \/ Notified(w) \/ TimesOut(w)
        BY <4>1 DEF LocalEmpty, InjectorMissed, PeerMissed, NothingFound, LeaveLoop,
           GoToSleep, StartWait, Notified, TimesOut, Goto, Location
      <4>2. CASE CountTask(w) \/ StopAfterQuit(w)
        BY <4>2 DEF CountTask, StopAfterQuit, Goto, Location
      <4>3. CASE NotifyAtZero(w) \/ StoreFatal(w) \/ StopAfterFatal(w) \/ Die(w)
                 \/ FlushAndReport(w)
        BY <4>3 DEF NotifyAtZero, StoreFatal, StopAfterFatal, Die, FlushAndReport, Goto, Location
      <4> QED
        BY <1>5, <4>1, <4>2, <4>3 DEF QuietStep
    <3> QED
      BY <1>0, <3>1 DEF Got
  <2> QED
    BY <1>b, <2>1, <2>2 DEF UnstartedIn
<1> QED
  BY <1>1, <1>2, <1>3, <1>4, <1>5 DEF WorkerLoop, QuietStep

(* The task a worker starts waits no longer. *)
LEMMA AdmitStartsTask ==
  ASSUME NEW w \in Worker, Admit(w), TypeOK, NEW U
  PROVE  /\ UnstartedIn(U)' = UnstartedIn(U) \ {<<w, 0>>}
         /\ <<w, 0>> \in UnstartedIn(U) <=> task[w] \in U
<1>0. /\ pc \in [Worker -> Location]
      /\ Got \in SUBSET Worker /\ Publishing \in SUBSET Worker
      /\ \A v \in Worker : v # 0
  BY DEF TypeOK, Got, Publishing, Worker
<1>1. /\ w \in Got /\ Got' = Got \ {w} /\ Publishing' = Publishing
      /\ UNCHANGED <<injector, deque, task, pub>>
  BY <1>0 DEF Admit, Goto, Got, Publishing, queues
<1>2. UnstartedIn(U)' = UnstartedOf(injector, deque, Got \ {w}, Publishing, task, pub, U)
  BY <1>1 DEF UnstartedIn
<1>3. \A q, i, t : WaitsAt(injector, deque, Got \ {w}, Publishing, task, pub, t, q, i)
        <=> WaitsAt(injector, deque, Got, Publishing, task, pub, t, q, i) /\ ~(q = w /\ i = 0)
  BY <1>0 DEF WaitsAt
<1>4. \A t : WaitsAt(injector, deque, Got, Publishing, task, pub, t, w, 0) <=> t = task[w]
  BY <1>0, <1>1 DEF WaitsAt
<1>5. ASSUME NEW s
      PROVE  s \in UnstartedIn(U)' <=> s \in UnstartedIn(U) /\ s # <<w, 0>>
  <2>1. s \in UnstartedIn(U)' <=> \E q, i : s = <<q, i>> /\ \E t \in U :
          WaitsAt(injector, deque, Got \ {w}, Publishing, task, pub, t, q, i)
    <3>1. PICK G : G = Got \ {w} /\ G \in SUBSET Worker
      BY <1>0
    <3>2. s \in UnstartedOf(injector, deque, G, Publishing, task, pub, U)
            <=> \E q, i : s = <<q, i>> /\ \E t \in U :
                  WaitsAt(injector, deque, G, Publishing, task, pub, t, q, i)
      BY <1>0, <3>1, UnstartedPlaces
    <3> QED
      BY <1>2, <3>1, <3>2
  <2>2. s \in UnstartedIn(U) <=> \E q, i : s = <<q, i>> /\ \E t \in U :
          WaitsAt(injector, deque, Got, Publishing, task, pub, t, q, i)
    BY <1>0, UnstartedPlaces DEF UnstartedIn
  <2> QED
    BY <1>3, <2>1, <2>2
<1>6. <<w, 0>> \in UnstartedIn(U) <=> task[w] \in U
  <2>1. <<w, 0>> \in UnstartedIn(U) <=> \E q, i : <<w, 0>> = <<q, i>> /\ \E t \in U :
          WaitsAt(injector, deque, Got, Publishing, task, pub, t, q, i)
    BY <1>0, UnstartedPlaces DEF UnstartedIn
  <2> QED
    BY <1>4, <2>1
<1> QED
  BY <1>5, <1>6 DEF UnstartedIn, UnstartedOf

(* A published task waits, unless new work is refused. *)
LEMMA PushMakesUnstarted ==
  ASSUME NEW w \in Worker, NEW t, BeginPush(w, t), TypeOK, NEW U
  PROVE  /\ UnstartedIn(U)' = IF accept /\ t \in U THEN UnstartedIn(U) \cup {<<w, -1>>}
                              ELSE UnstartedIn(U)
         /\ <<w, -1>> \notin UnstartedIn(U)
<1>0. /\ pc \in [Worker -> Location] /\ pub \in [Worker -> Task \cup {NoTask}]
      /\ Got \in SUBSET Worker /\ Publishing \in SUBSET Worker
      /\ \A v \in Worker : v # 0
  BY DEF TypeOK, Got, Publishing, Worker
<1>1. /\ w \notin Publishing /\ Got' = Got
      /\ Publishing' = (IF accept THEN Publishing \cup {w} ELSE Publishing)
      /\ UNCHANGED <<injector, deque, task>>
      /\ accept => pub'[w] = t
      /\ \A u \in Worker \ {w} : pub'[u] = pub[u]
      /\ Publishing' \in SUBSET Worker
  BY <1>0 DEF BeginPush, Got, Publishing, queues
<1>2. UnstartedIn(U)' = UnstartedOf(injector, deque, Got, Publishing', task, pub', U)
  BY <1>1 DEF UnstartedIn
<1>3. \A q, i, r : WaitsAt(injector, deque, Got, Publishing', task, pub', r, q, i)
        <=> \/ WaitsAt(injector, deque, Got, Publishing, task, pub, r, q, i)
            \/ accept /\ q = w /\ i = -1 /\ r = t
  BY <1>0, <1>1 DEF WaitsAt
<1>4. \A r : ~WaitsAt(injector, deque, Got, Publishing, task, pub, r, w, -1)
  BY <1>0, <1>1 DEF WaitsAt
<1>5. ASSUME NEW s
      PROVE  s \in UnstartedIn(U)' <=> s \in UnstartedIn(U) \/ (accept /\ t \in U /\ s = <<w, -1>>)
  <2>1. s \in UnstartedIn(U)' <=> \E q, i : s = <<q, i>> /\ \E r \in U :
          WaitsAt(injector, deque, Got, Publishing', task, pub', r, q, i)
    <3>1. PICK P, out : P = Publishing' /\ out = pub' /\ P \in SUBSET Worker
      BY <1>1
    <3>2. s \in UnstartedOf(injector, deque, Got, P, task, out, U)
            <=> \E q, i : s = <<q, i>> /\ \E r \in U :
                  WaitsAt(injector, deque, Got, P, task, out, r, q, i)
      BY <1>0, <3>1, UnstartedPlaces
    <3> QED
      BY <1>2, <3>1, <3>2
  <2>2. s \in UnstartedIn(U) <=> \E q, i : s = <<q, i>> /\ \E r \in U :
          WaitsAt(injector, deque, Got, Publishing, task, pub, r, q, i)
    BY <1>0, UnstartedPlaces DEF UnstartedIn
  <2> QED
    BY <1>3, <2>1, <2>2
<1>6. <<w, -1>> \notin UnstartedIn(U)
  <2>1. <<w, -1>> \in UnstartedIn(U) <=> \E q, i : <<w, -1>> = <<q, i>> /\ \E r \in U :
          WaitsAt(injector, deque, Got, Publishing, task, pub, r, q, i)
    BY <1>0, UnstartedPlaces DEF UnstartedIn
  <2> QED
    BY <1>4, <2>1
<1> QED
  BY <1>5, <1>6 DEF UnstartedIn, UnstartedOf

(* The rest of what a task body may do leaves the waiting tasks alone. *)
LEMMA BodyKeepsUnstarted ==
  ASSUME NEW w \in Worker, StoreQuit(w) \/ \E ok \in BOOLEAN : TaskReturns(w, ok), TypeOK, NEW U
  PROVE  UnstartedIn(U)' = UnstartedIn(U)
<1>1. /\ pc \in [Worker -> Location] /\ pc[w] = "run"
      /\ \/ pc' = [pc EXCEPT ![w] = "quit"]
         \/ pc' = [pc EXCEPT ![w] = "finish"]
      /\ UNCHANGED <<injector, deque, task, pub>>
  BY DEF TypeOK, StoreQuit, TaskReturns, Goto, queues
<1>2. Got' = Got /\ Publishing' = Publishing
  BY <1>1 DEF Got, Publishing
<1> QED
  BY <1>1, <1>2 DEF UnstartedIn

-----------------------------------------------------------------------------
(* Each task is in one place                                               *)

RootsDiffer == \A i, k \in 1..Len(Roots) : Roots[i] = Roots[k] => i = k

(* No task is in two places; one that is being published, and not counted    *)
(* yet, is new; every other was published and is not finished; and no such   *)
(* task is missing.                                                          *)
ApartInv ==
  /\ \A t, q1, i1, q2, i2 : TaskAt(t, q1, i1) /\ TaskAt(t, q2, i2) => q1 = q2 /\ i1 = i2
  /\ \A t, q, i : TaskAt(t, q, i) => IF i = -1 /\ pc[q] = "count" THEN t \notin spawned
                                                                  ELSE t \in spawned \ finished
  /\ \A t \in spawned \ finished : \E q, i : TaskAt(t, q, i)
  /\ finished \subseteq spawned

LEMMA ApartInit == RootsDiffer /\ SchedInit => ApartInv
<1> SUFFICES ASSUME RootsDiffer, SchedInit PROVE ApartInv
  OBVIOUS
<1>1. \A t, q, i : TaskAt(t, q, i) <=> q = 0 /\ i \in 1..Len(Roots) /\ t = Roots[i]
  BY DEF SchedInit, TaskAt, InHand, Publishing
<1>2. Len(Roots) \in Nat
  BY SchedulerAssumption
<1>3. spawned = {Roots[i] : i \in 1..Len(Roots)} /\ finished = {}
  BY DEF SchedInit
<1>4. \A t, q1, i1, q2, i2 : TaskAt(t, q1, i1) /\ TaskAt(t, q2, i2) => q1 = q2 /\ i1 = i2
  BY <1>1 DEF RootsDiffer
<1>5. ASSUME NEW t, NEW q, NEW i, TaskAt(t, q, i)
      PROVE  i # -1 /\ t \in spawned \ finished
  BY <1>1, <1>2, <1>3, <1>5
<1>6. ASSUME NEW t \in spawned \ finished PROVE \E q, i : TaskAt(t, q, i)
  BY <1>1, <1>3, <1>6
<1> QED
  BY <1>3, <1>4, <1>5, <1>6 DEF ApartInv

(* The loop's steps: only CountTask counts, only TaskFinished finishes. *)
LEMMA LoopApart ==
  ASSUME SchedInv, ApartInv, NEW w \in Worker, WorkerLoop(w)
  PROVE  ApartInv'
<1>0. /\ TypeOK /\ HandsHoldTasks /\ pc \in [Worker -> Location]
      /\ task \in [Worker -> Task \cup {NoTask}] /\ pub \in [Worker -> Task \cup {NoTask}]
  BY DEF SchedInv, TypeOK
<1>a. /\ \A v \in Worker : Len(deque[v]) \in Nat
      /\ Len(injector) \in Nat
  BY DEF SchedInv, TypeOK
<1>1. PICK b \in Location : pc' = [pc EXCEPT ![w] = b] /\ LoopMove(w, pc[w], b)
  BY <1>0, LoopMoves
<1>2. \/ CountTask(w)
      \/ TaskFinished(w)
      \/ UNCHANGED <<spawned, finished>> /\ pc[w] # "count" /\ pc[w] # "finish"
  BY DEF WorkerLoop, PopLocal, LocalEmpty, StealInjector, InjectorMissed, StealPeer, PeerMissed,
         NothingFound, LeaveLoop, GoToSleep, StartWait, Notified, TimesOut, Admit, NotifyAtZero,
         StoreFatal, StopAfterFatal, Die, FlushAndReport, PushTask, StopAfterQuit, Goto, history
<1>3. b # "count" \/ pc' = pc
  BY <1>0, <1>1 DEF LoopMove, Searching
<1>4. ASSUME NEW q \in Worker, pc[q] = "count" PROVE TaskAt(pub[q], q, -1)' /\ pub'[q] = pub[q]
  <2>1. UNCHANGED pub \/ PushTask(w)
    BY DEF WorkerLoop, PopLocal, LocalEmpty, StealInjector, InjectorMissed, StealPeer, PeerMissed,
           NothingFound, LeaveLoop, GoToSleep, StartWait, Notified, TimesOut, Admit, NotifyAtZero,
           StoreFatal, StopAfterFatal, Die, FlushAndReport, CountTask, TaskFinished, StopAfterQuit
  <2>2. pub'[q] = pub[q]
    BY <1>0, <1>4, <2>1 DEF PushTask, Goto
  <2>3. q \in Publishing'
    <3>1. q = w => b \in {"count", "push"}
      BY <1>1, <1>4 DEF LoopMove, Searching
    <3> QED
      BY <1>0, <1>1, <1>4, <3>1 DEF Publishing
  <2>4. PICK t : t = pub[q]
    OBVIOUS
  <2>5. TaskAt(t, q, -1)'
    BY <2>2, <2>3, <2>4 DEF TaskAt
  <2> QED
    BY <2>2, <2>4, <2>5
<1>5. \A t, q1, i1, q2, i2 : TaskAt(t, q1, i1)' /\ TaskAt(t, q2, i2)' => q1 = q2 /\ i1 = i2
  <2> SUFFICES ASSUME NEW t, NEW r1, NEW j1, NEW r2, NEW j2, TaskAt(t, r1, j1)', TaskAt(t, r2, j2)'
               PROVE  r1 = r2 /\ j1 = j2
    OBVIOUS
  <2>1. PICK q1, i1, q2, i2 : /\ TaskAt(t, q1, i1) /\ TaskAt(t, q2, i2)
                              /\ q1 = q2 /\ i1 = i2 => r1 = r2 /\ j1 = j2
    BY <1>0, TasksComeFrom
  <2> QED
    BY <2>1 DEF ApartInv
<1>6. ASSUME NEW t, NEW r, NEW j, TaskAt(t, r, j)'
      PROVE  IF j = -1 /\ pc'[r] = "count" THEN t \notin spawned' ELSE t \in spawned' \ finished'
  <2>1. PICK q, i : TaskAt(t, q, i) /\ (i = 0 => q = r /\ j = 0)
    BY <1>0, <1>6, TasksComeFrom
  <2>2. CASE i = -1 /\ pc[q] = "count"
    <3>1. q \in Worker /\ t = pub[q] /\ t \notin spawned /\ t \notin finished
      <4>1. q \in Worker /\ t = pub[q]
        BY <1>a, <2>1, <2>2 DEF TaskAt, Publishing
      <4>2. t \notin spawned /\ finished \subseteq spawned
        BY <2>1, <2>2 DEF ApartInv
      <4> QED
        BY <4>1, <4>2
    <3>2. r = q /\ j = -1
      <4>1. TaskAt(t, q, -1)'
        <5>1. PICK u : u = pub[q] /\ TaskAt(pub[q], q, -1)'
          BY <1>4, <2>2, <3>1
        <5> QED
          BY <1>4, <2>2, <3>1, <5>1 DEF TaskAt
      <4> QED
        BY <1>5, <1>6, <4>1
    <3>3. CASE q = w
      <4>1. CountTask(w)
        BY <1>2, <2>2, <3>3 DEF TaskFinished, Goto
      <4>2. pc'[q] = "push" /\ spawned' = spawned \cup {t} /\ finished' = finished
        BY <1>0, <3>1, <3>3, <4>1 DEF CountTask, Goto
      <4> QED
        BY <3>1, <3>2, <4>2
    <3>4. CASE q # w
      <4>1. pc'[q] = "count"
        BY <1>0, <1>1, <2>2, <3>1, <3>4
      <4>2. t \notin spawned'
        <5>1. CASE CountTask(w)
          <6>1. TaskAt(pub[w], w, -1) /\ TaskAt(t, q, -1)
            BY <2>1, <2>2, <5>1 DEF CountTask, Goto, TaskAt, Publishing
          <6>2. t # pub[w]
            BY <3>4, <6>1 DEF ApartInv
          <6> QED
            BY <3>1, <5>1, <6>2 DEF CountTask
        <5>2. CASE ~CountTask(w)
          BY <1>2, <3>1, <5>2 DEF TaskFinished
        <5> QED
          BY <5>1, <5>2
      <4> QED
        BY <3>2, <4>1, <4>2
    <3> QED
      BY <3>3, <3>4
  <2>3. CASE ~(i = -1 /\ pc[q] = "count")
    <3>1. t \in spawned \ finished
      BY <2>1, <2>3 DEF ApartInv
    <3>2. ~(j = -1 /\ pc'[r] = "count")
      <4> SUFFICES ASSUME j = -1, pc'[r] = "count" PROVE FALSE
        OBVIOUS
      <4>1. r \in Worker /\ t = pub'[r]
        <5>1. TypeOK'
          BY StepTypes DEF SchedNext
        <5>2. /\ \A v \in Worker : Len(deque'[v]) \in Nat
              /\ Len(injector') \in Nat
          BY <5>1 DEF TypeOK
        <5> QED
          BY <1>6, <5>2 DEF TaskAt, Publishing
      <4>2. pc[r] = "count"
        BY <1>0, <1>1, <1>3, <4>1
      <4>3. TaskAt(t, r, -1)
        BY <1>4, <4>1, <4>2 DEF TaskAt, Publishing
      <4> QED
        BY <3>1, <4>2, <4>3 DEF ApartInv
    <3>3. t \in spawned' \ finished'
      <4>1. CASE TaskFinished(w)
        <5>1. TaskAt(task[w], w, 0) /\ w \notin InHand'
          BY <1>0, <4>1 DEF TaskFinished, Goto, TaskAt, InHand
        <5>2. t # task[w]
          <6> SUFFICES ASSUME t = task[w] PROVE FALSE
            OBVIOUS
          <6>1. q = w /\ i = 0
            BY <2>1, <5>1 DEF ApartInv
          <6>2. r = w /\ j = 0
            BY <2>1, <6>1
          <6>3. TypeOK'
            BY StepTypes DEF SchedNext
          <6> QED
            BY <1>6, <5>1, <6>2, <6>3 DEF TaskAt, TypeOK, Worker
        <5> QED
          BY <3>1, <4>1, <5>2 DEF TaskFinished
      <4>2. CASE ~TaskFinished(w)
        BY <1>2, <3>1, <4>2 DEF CountTask
      <4> QED
        BY <4>1, <4>2
    <3> QED
      BY <3>2, <3>3
  <2> QED
    BY <2>2, <2>3
<1>7. ASSUME NEW t \in spawned' \ finished' PROVE \E q, i : TaskAt(t, q, i)'
  <2>1. CASE t \in spawned \ finished
    <3>1. PICK q, i : TaskAt(t, q, i)
      BY <2>1 DEF ApartInv
    <3>2. ~(q = w /\ i = 0 /\ pc[w] = "finish")
      <4> SUFFICES ASSUME q = w, i = 0, pc[w] = "finish" PROVE FALSE
        OBVIOUS
      <4>1. TaskFinished(w)
        BY <1>2 DEF CountTask, Goto
      <4>2. t = task[w]
        BY <1>0, <3>1 DEF TaskAt, TypeOK, Worker
      <4> QED
        BY <4>1, <4>2 DEF TaskFinished
    <3> QED
      BY <1>0, <3>1, <3>2, TasksStay
  <2>2. CASE t \notin spawned \ finished
    <3>1. CountTask(w) /\ t = pub[w]
      BY <1>2, <2>2 DEF CountTask, TaskFinished
    <3> QED
      BY <1>4, <3>1 DEF CountTask, Goto
  <2> QED
    BY <2>1, <2>2
<1>8. finished' \subseteq spawned'
  <2>1. finished \subseteq spawned
    BY DEF ApartInv
  <2>2. CASE TaskFinished(w)
    <3>1. TaskAt(task[w], w, 0)
      BY <2>2 DEF TaskFinished, Goto, TaskAt, InHand
    <3>2. task[w] \in spawned
      BY <3>1 DEF ApartInv
    <3> QED
      BY <2>1, <2>2, <3>2 DEF TaskFinished
  <2>3. CASE ~TaskFinished(w)
    BY <1>2, <2>1, <2>3 DEF CountTask
  <2> QED
    BY <2>2, <2>3
<1> QED
  BY <1>5, <1>6, <1>7, <1>8 DEF ApartInv

LEMMA ApartStep == SchedInv /\ ApartInv /\ [OnceNext]_schedVars => ApartInv'
<1> SUFFICES ASSUME SchedInv, ApartInv, [OnceNext]_schedVars PROVE ApartInv'
  OBVIOUS
<1>0. TypeOK /\ pc \in [Worker -> Location] /\ pub \in [Worker -> Task \cup {NoTask}]
  BY DEF SchedInv, TypeOK
<1>1. ASSUME UNCHANGED <<injector, deque, task, spawned, finished>>, InHand' = InHand,
             \A u \in Worker : (pc'[u] = "count" <=> pc[u] = "count") /\ pub'[u] = pub[u],
             Publishing' = Publishing
      PROVE  ApartInv'
  <2>1. \A t, q, i : TaskAt(t, q, i)' <=> TaskAt(t, q, i)
    BY <1>1 DEF TaskAt, Publishing
  <2>2. \A t, q, i : TaskAt(t, q, i) /\ i = -1 => q \in Worker
    BY <1>0 DEF TaskAt, TypeOK, InHand, Publishing
  <2> QED
    BY <1>1, <2>1, <2>2 DEF ApartInv
<1>2. CASE UNCHANGED schedVars
  <2>1. InHand' = InHand /\ Publishing' = Publishing
    BY <1>2 DEF schedVars, InHand, Publishing
  <2> QED
    BY <1>1, <1>2, <2>1 DEF schedVars
<1>3. ASSUME NEW w \in Worker, FlushFails(w) \/ StoreQuit(w) \/ \E ok \in BOOLEAN : TaskReturns(w, ok)
      PROVE  ApartInv'
  <2>1. /\ UNCHANGED <<injector, deque, task, pub, spawned, finished>>
        /\ \A u \in Worker \ {w} : pc'[u] = pc[u]
        /\ \/ pc[w] = "flush" /\ pc'[w] = "fatal"
           \/ pc[w] = "run" /\ pc'[w] \in {"quit", "finish"}
    BY <1>0, <1>3 DEF FlushFails, StoreQuit, TaskReturns, Goto, queues, history
  <2>2. InHand' = InHand /\ Publishing' = Publishing
    BY <2>1 DEF InHand, Publishing
  <2> QED
    BY <1>1, <2>1, <2>2
<1>4. ASSUME NEW w \in Worker, NEW n \in Task, BeginPush(w, n), PublishedOnce
      PROVE  ApartInv'
  <2>0. /\ UNCHANGED <<injector, deque, task, spawned, finished>> /\ pc[w] = "run"
        /\ \A u \in Worker \ {w} : pc'[u] = pc[u] /\ pub'[u] = pub[u]
        /\ InHand' = InHand
    BY <1>0, <1>4 DEF BeginPush, queues, history, InHand
  <2>1. CASE ~accept
    <3>1. pc' = pc
      BY <1>0, <1>4, <2>1 DEF BeginPush
    <3>2. \A t, q, i : TaskAt(t, q, i)' <=> TaskAt(t, q, i)
      BY <2>0, <3>1 DEF TaskAt, Publishing
    <3> QED
      BY <2>0, <3>1, <3>2 DEF ApartInv
  <2>2. CASE accept
    <3>1. pc'[w] = "count" /\ pub'[w] = n /\ Publishing' = Publishing \cup {w}
      BY <1>0, <1>4, <2>0, <2>2 DEF BeginPush, Publishing
    <3>2. n \notin spawned /\ \A v \in Worker : pub[v] # n
      BY <1>4, <2>0, <3>1 DEF PublishedOnce
    <3>3. \A t, q, i : TaskAt(t, q, i)' <=> TaskAt(t, q, i) \/ (q = w /\ i = -1 /\ t = n)
      BY <2>0, <3>1 DEF TaskAt, Publishing
    <3>4. \A q, i : ~TaskAt(n, q, i)
      <4> SUFFICES ASSUME NEW q, NEW i, TaskAt(n, q, i) PROVE FALSE
        OBVIOUS
      <4>1. i = -1 /\ pc[q] = "count"
        BY <3>2 DEF ApartInv
      <4>2. q \in Worker /\ n = pub[q]
        BY <1>0, <4>1 DEF TaskAt, TypeOK, InHand, Publishing
      <4> QED
        BY <3>2, <4>2
    <3>5. \A t, q, i : TaskAt(t, q, i) /\ i = -1 => q \in Worker /\ q # w
      BY <1>0, <2>0 DEF TaskAt, TypeOK, InHand, Publishing
    <3>6. finished \subseteq spawned
      BY DEF ApartInv
    <3>7. \A t, q, i : TaskAt(t, q, i)' => IF i = -1 /\ pc'[q] = "count" THEN t \notin spawned
                                                                 ELSE t \in spawned \ finished
      <4> SUFFICES ASSUME NEW t, NEW q, NEW i, TaskAt(t, q, i)'
                   PROVE  IF i = -1 /\ pc'[q] = "count" THEN t \notin spawned ELSE t \in spawned \ finished
        OBVIOUS
      <4>1. CASE TaskAt(t, q, i)
        <5>1. i = -1 => pc'[q] = pc[q]
          BY <2>0, <3>5, <4>1
        <5> QED
          BY <4>1, <5>1 DEF ApartInv
      <4>2. CASE q = w /\ i = -1 /\ t = n
        BY <3>1, <3>2, <4>2
      <4> QED
        BY <3>3, <4>1, <4>2
    <3>8. \A t, q1, i1, q2, i2 : TaskAt(t, q1, i1)' /\ TaskAt(t, q2, i2)' => q1 = q2 /\ i1 = i2
      BY <3>3, <3>4 DEF ApartInv
    <3>9. \A t \in spawned \ finished : \E q, i : TaskAt(t, q, i)'
      BY <3>3 DEF ApartInv
    <3> QED
      BY <2>0, <3>6, <3>7, <3>8, <3>9 DEF ApartInv
  <2> QED
    BY <1>0, <2>1, <2>2 DEF TypeOK
<1> QED
  BY <1>2, <1>3, <1>4, LoopApart DEF OnceNext, SchedNext, TaskBody

-----------------------------------------------------------------------------
(* The theorems                                                            *)

(* SchedInv holds in every state: in particular every variable keeps its type. *)
THEOREM SchedulerInvariant == SchedSpec => []SchedInv
<1>1. SchedInit => SchedInv
  <2>1. SchedInit => LeftAtZero
    BY DEF SchedInit, LeftAtZero
  <2> QED
    BY <2>1, InitTypes, InitSlots DEF SchedInv
<1>2. SchedInv /\ [SchedNext]_schedVars => SchedInv'
  BY StepTypes, StepSlots, StepLeftAtZero DEF SchedInv
<1> QED
  BY <1>1, <1>2, PTL DEF SchedSpec

(* Types: whatever the tasks do, the scheduler's variables keep their types, *)
(* and the counter never wraps below zero.                                   *)
THEOREM TypesKept == SchedSpec => []TypeOK
<1>1. SchedInv => TypeOK
  BY DEF SchedInv
<1> QED
  BY <1>1, SchedulerInvariant, PTL

(* The counter equals the number of tasks queued, in hand or about to be     *)
(* queued, for every number of workers and whatever batch a steal takes.     *)
THEOREM CounterIsExact == SchedSpec => []OutstandingExact
<1>1. SchedInv => OutstandingExact
  BY DEF SchedInv
<1> QED
  BY <1>1, SchedulerInvariant, PTL

(* A worker that has left pop_blocking leaves no task behind, anywhere. *)
THEOREM TerminationIsSound == SchedSpec => []NobodyLeavesEarly
<1>1. SchedInv => NobodyLeavesEarly
  <2> SUFFICES ASSUME SchedInv, \E w \in Worker : pc[w] \in {"flush", "exit"}
               PROVE  Slots = {}
    BY DEF NobodyLeavesEarly
  <2>1. Cardinality(Slots) = 0 /\ IsFiniteSet(Slots)
    BY DEF SchedInv, LeftAtZero, OutstandingExact
  <2> QED
    BY <2>1, FS_EmptySet
<1> QED
  BY <1>1, SchedulerInvariant, PTL

(* Once zero, the counter stays zero. *)
THEOREM ZeroStaysZero == SchedSpec => ZeroIsFinal
<1>1. SchedInv /\ [SchedNext]_schedVars => [outstanding = 0 => outstanding' = 0]_schedVars
  BY StepAtZero
<1> QED
  BY <1>1, SchedulerInvariant, PTL DEF SchedSpec, ZeroIsFinal

(* Where the roots differ and no task is published twice, no task is lost or *)
(* copied: a published task is in exactly one place until it is finished.    *)
THEOREM TasksKeepApart ==
  ASSUME RootsDiffer
  PROVE  OnceSpec => []EachTaskInOnePlace
<1>1. SchedInit => ApartInv
  BY ApartInit
<1>2. SchedInv /\ ApartInv => EachTaskInOnePlace
  <2> SUFFICES ASSUME SchedInv, ApartInv, NEW t \in Task
               PROVE  Cardinality({s \in Slots : TaskIn(s) = t}) =
                        IF t \in spawned \ finished THEN 1 ELSE 0
    BY DEF EachTaskInOnePlace
  <2> DEFINE C == {s \in Slots : TaskIn(s) = t}
  <2>0. \A v \in Worker : v # 0
    BY DEF Worker
  <2>1. \A s \in Slots : s = <<s[1], s[2]>> /\ TaskAt(TaskIn(s), s[1], s[2])
                          /\ ~(s[2] = -1 /\ pc[s[1]] = "count")
    <3> SUFFICES ASSUME NEW s \in Slots
                 PROVE  /\ s = <<s[1], s[2]>> /\ TaskAt(TaskIn(s), s[1], s[2])
                        /\ ~(s[2] = -1 /\ pc[s[1]] = "count")
      OBVIOUS
    <3>1. CASE \E i \in 1..Len(injector) : s = <<0, i>>
      BY <3>1 DEF TaskIn, TaskAt
    <3>2. CASE \E w \in Worker : \E i \in 1..Len(deque[w]) : s = <<w, i>>
      <4>1. PICK w \in Worker : \E k \in 1..Len(deque[w]) : s = <<w, k>>
        BY <3>2
      <4>1a. PICK i \in 1..Len(deque[w]) : s = <<w, i>>
        BY <4>1
      <4>2. TaskIn(s) = deque[w][i] /\ i # -1
        BY <2>0, <4>1a DEF TaskIn
      <4> QED
        BY <4>1a, <4>2 DEF TaskAt
    <3>3. CASE \E w \in InHand : s = <<w, 0>>
      <4>1. PICK w \in InHand : s = <<w, 0>>
        BY <3>3
      <4>2. TaskIn(s) = task[w]
        BY <2>0, <4>1 DEF TaskIn, InHand
      <4> QED
        BY <4>1, <4>2 DEF TaskAt
    <3>4. CASE \E w \in Counted : s = <<w, -1>>
      <4>1. PICK w \in Counted : s = <<w, -1>>
        BY <3>4
      <4>2. TaskIn(s) = pub[w]
        BY <2>0, <4>1 DEF TaskIn, Counted
      <4> QED
        BY <4>1, <4>2 DEF TaskAt, Counted, Publishing
    <3> QED
      BY <3>1, <3>2, <3>3, <3>4, SlotMembership DEF Slots
  <2>2. CASE t \in spawned \ finished
    <3>1. PICK q, i : TaskAt(t, q, i) /\ ~(i = -1 /\ pc[q] = "count")
      BY <2>2 DEF ApartInv
    <3>2. <<q, i>> \in Slots /\ TaskIn(<<q, i>>) = t
      <4>1. CASE q = 0 /\ i \in 1..Len(injector) /\ t = injector[i]
        BY <4>1 DEF Slots, SlotsOf, TaskIn
      <4>2. CASE q \in Worker /\ i \in 1..Len(deque[q]) /\ t = deque[q][i]
        <5>1. <<q, i>> \in Slots
          BY <4>2, SlotMembership DEF Slots
        <5> QED
          BY <2>0, <4>2, <5>1 DEF TaskIn
      <4>3. CASE q \in InHand /\ i = 0 /\ t = task[q]
        BY <2>0, <4>3 DEF Slots, SlotsOf, TaskIn, InHand
      <4>4. CASE q \in Publishing /\ i = -1 /\ t = pub[q]
        BY <2>0, <3>1, <4>4 DEF Slots, SlotsOf, TaskIn, Publishing, Counted
      <4> QED
        BY <3>1, <4>1, <4>2, <4>3, <4>4 DEF TaskAt
    <3>3. C = {<<q, i>>}
      BY <2>1, <3>1, <3>2 DEF ApartInv
    <3>4. Cardinality(C) = 1
      BY <3>3, FS_Singleton
    <3> QED
      BY <2>2, <3>4
  <2>3. CASE t \notin spawned \ finished
    <3>1. C = {}
      BY <2>1, <2>3 DEF ApartInv
    <3>2. Cardinality(C) = 0
      BY <3>1, FS_EmptySet
    <3> QED
      BY <2>3, <3>2
  <2> QED
    BY <2>2, <2>3
<1>3. OnceSpec => SchedSpec
  BY PTL DEF OnceSpec, SchedSpec, OnceNext
<1> QED
  BY <1>1, <1>2, <1>3, ApartStep, SchedulerInvariant, PTL DEF OnceSpec
=============================================================================
