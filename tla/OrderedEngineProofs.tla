------------------------ MODULE OrderedEngineProofs ------------------------
(***************************************************************************)
(* Proofs about OrderedEngine, for every tree, every number of evaluators  *)
(* and both ways to evaluate.                                              *)
(***************************************************************************)
EXTENDS OrderedEngine, WalkTreeProofs, FiniteSetTheorems

Walking == main \in {"walk", "emitted"}
Failing == main \in {"failed", "unwind", "error"}

-----------------------------------------------------------------------------
(* Where a number is, and with which node.                                   *)

(* At place i of work (q = -1), of an evaluator (q > 0) or of ready (q = -2), *)
(* or as the result i among the buffered ones (q = -3).                       *)
Carries(q, i, s, n) ==
  \/ q = -1 /\ i \in 1..Len(work) /\ work[i] = <<s, n>>
  \/ q \in Evaluator /\ i = 0 /\ evaluator[q] = <<s, n>>
  \/ q = -2 /\ i \in 1..Len(ready) /\ ready[i][1] = s /\ ready[i][2] = n
  \/ q = -3 /\ i \in buffered /\ i[1] = s /\ i[2] = n

Carried(s, n) == \E q, i : Carries(q, i, s, n)

NumbersInRange ==
  \A s, n : Carried(s, n) => s \in nextReady..(nextSeq - 1) /\ n \in Entries

OnePlaceEach ==
  \A s, q1, i1, n1, q2, i2, n2 :
    Carries(q1, i1, s, n1) /\ Carries(q2, i2, s, n2) => q1 = q2 /\ i1 = i2

NoneLost == ~Failing /\ ~Inline => \A s \in nextReady..(nextSeq - 1) : \E n : Carried(s, n)

(* How far the run is, and who is still there. *)
StageKnown ==
  /\ main = "emitted" => stack # <<>> /\ ~Top.complete /\ ~Fails(Top.node)
  /\ ~Failing => readyOpen
  /\ ~Failing /\ ~Walking /\ ~quit => stack = <<>>
  /\ quit => Inline /\ main \in {"flush", "done"}
  /\ Inline => /\ \A s, n : ~Carried(s, n)
               /\ main \notin {"drain", "commit"}
  /\ ~Inline => /\ Len(commits) = nextReady
                /\ Walking => workOpen /\ buffered = {}
                /\ main = "drain" => \A item \in buffered : item[1] # nextReady
                /\ main \in {"flush", "done"} => \A s, n : ~Carried(s, n)
                /\ readyOpen /\ (\E e \in Evaluator : evaluator[e] = Gone) => work = <<>> /\ ~workOpen

-----------------------------------------------------------------------------
(* What was emitted, and what the stack will still lead to.                  *)

(* The entry n was the k-th, counted from 0, that the walk emitted. *)
Emitted(k, n) == (k \in 0..(Len(commits) - 1) /\ commits[k + 1] = n) \/ Carried(k, n)

(* The walk of frame i is still to emit m, or to look at it. *)
Owes(i, m) ==
  LET n == stack[i].node IN
    IF stack[i].complete THEN m = n
    ELSE IF i = 1 /\ main = "emitted" /\ EmittedFirst(n) THEN n \in Ancestors[m]
    ELSE n \in WayTo(m)
Under(i, m) == ~stack[i].complete /\ stack[i].node \in WayTo(m)

FramesFit ==
  \A i \in 1..Len(stack) :
    /\ Reached[stack[i].node]
    /\ stack[i].complete =>
         PostOrder /\ ~Fails(stack[i].node) /\ DescendDecision(stack[i].node) # "error"

EmittedInOrder ==
  \A j, k, m, n : Emitted(j, m) /\ Emitted(k, n) =>
    (j = k => m = n) /\ (j < k => Precedes(m, n))

StackInOrder ==
  \A i, k \in 1..Len(stack) : \A m, n \in Node :
    i < k /\ Owes(i, m) /\ Owes(k, n) => Precedes(m, n)

StackComesLater ==
  \A k, m : \A i \in 1..Len(stack) : \A n \in Node :
    Emitted(k, m) /\ Owes(i, n) => Precedes(m, n)

NoEntryForgotten ==
  ~Failing /\ ~quit =>
    \A m \in Entries : \/ \E k : Emitted(k, m)
                       \/ Walking /\ \E i \in 1..Len(stack) : Owes(i, m)

OnlyEntriesCommitted == \A i \in 1..Len(commits) : commits[i] \in Entries

-----------------------------------------------------------------------------
(* The reports, and the causes of an early end. *)
ReportsInv ==
  /\ errors \subseteq FaultyNodes \cup {n \in Unreadable : Reached[n] /\ Opens(n)}
  /\ ~Failing /\ ~quit =>
       \A m \in FaultyNodes :
         m \in errors \/ (Walking /\ \E i \in 1..Len(stack) : Under(i, m))

CausesKnown ==
  /\ quit => \E n \in MayQuit : Listed(commits, n)
  /\ Failing => \E n \in MayFail : Listed(commits, n)

-----------------------------------------------------------------------------
(* The order of the walk                                                     *)

(* Of two nodes on the way to a third, one is above the other. *)
LEMMA OneWay ==
  \A n \in Node : \A a, b \in WayTo(n) : a = b \/ a \in Ancestors[b] \/ b \in Ancestors[a]
<1> DEFINE Chain(n) == \A a, b \in WayTo(n) : a = b \/ a \in Ancestors[b] \/ b \in Ancestors[a]
           T == {n \in Node : Chain(n)}
<1>1. Root \subseteq T
  BY RootsAreNodes, AncestorsAre DEF WayTo
<1>2. ASSUME NEW n \in Node \ Root, Parent(n) \in T
      PROVE  n \in T
  <2>1. Ancestors[n] = WayTo(Parent(n))
    BY AncestorsAre DEF WayTo
  <2>2. Chain(Parent(n))
    BY <1>2
  <2> QED
    BY <2>1, <2>2 DEF WayTo
<1> HIDE DEF T
<1>3. Node \subseteq T
  BY <1>1, <1>2, TreeInduction
<1> QED
  BY <1>3 DEF T

Siblings(c, d) ==
  \/ c \in Root /\ d \in Root
  \/ c \in Node \ Root /\ d \in Node \ Root /\ Parent(c) = Parent(d)

(* The way to a node leads through one start path, and through one child of  *)
(* each directory.                                                           *)
LEMMA OneSibling ==
  ASSUME NEW n \in Node, NEW c \in WayTo(n), NEW d \in WayTo(n), Siblings(c, d)
  PROVE  c = d
<1>0. c \in Node /\ d \in Node
  BY AncestorsAreNodes DEF WayTo
<1>1. \A a, b \in Node : Siblings(a, b) => a \notin Ancestors[b]
  <2> SUFFICES ASSUME NEW a \in Node, NEW b \in Node, Siblings(a, b), a \in Ancestors[b]
               PROVE  FALSE
    OBVIOUS
  <2>1. b \in Node \ Root
    BY AncestorsAre
  <2>2. a \in Node \ Root /\ Parent(a) = Parent(b)
    BY <2>1 DEF Siblings
  <2>3. Ancestors[a] = Ancestors[b]
    BY <2>1, <2>2, AncestorsAre
  <2> QED
    BY <2>3, NoLoops
<1>2. c \notin Ancestors[d] /\ d \notin Ancestors[c]
  BY <1>0, <1>1 DEF Siblings
<1> QED
  BY <1>2, OneWay

(* What is listed earlier is another node of the same list. *)
LEMMA EarlierIsSibling ==
  ASSUME NEW c \in Node, NEW d \in Node, Earlier(c, d)
  PROVE  Siblings(c, d) /\ c # d /\ ~Earlier(d, c)
<1>1. ASSUME NEW s, NEW S, s \in Seq(S), c \in S, d \in S,
             \A i, k \in 1..Len(s) : s[i] = s[k] => i = k \/ s[i] = BadItem,
             ListedBefore(s, c, d)
      PROVE  c # d /\ ~ListedBefore(s, d, c)
  <2>1. c # BadItem /\ d # BadItem /\ Len(s) \in Nat
    BY <1>1, WalkTreeAssumption, LenProperties
  <2> QED
    BY <1>1, <2>1 DEF ListedBefore
<1>2. CASE ListedBefore(StartPaths, c, d)
  <2>1. c \in Root /\ d \in Root
    BY <1>2 DEF ListedBefore, Root, RangeOf
  <2>2. c # d /\ ~ListedBefore(StartPaths, d, c)
    BY <1>1, <1>2, WalkTreeAssumption
  <2>3. \A p \in Node : ~ListedBefore(Items[p], d, c)
    <3> SUFFICES ASSUME NEW p \in Node, ListedBefore(Items[p], d, c) PROVE FALSE
      OBVIOUS
    <3>1. d \in Children(p)
      BY WalkTreeAssumption DEF ListedBefore, Children, RangeOf
    <3> QED
      BY <2>1, <3>1, WalkTreeAssumption
  <2> QED
    BY <2>1, <2>2, <2>3 DEF Siblings, Earlier
<1>3. ASSUME NEW p \in Node, ListedBefore(Items[p], c, d)
      PROVE  Siblings(c, d) /\ c # d /\ ~Earlier(d, c)
  <2>1. c \in Children(p) /\ d \in Children(p)
    BY <1>3, WalkTreeAssumption DEF ListedBefore, Children, RangeOf
  <2>2. /\ c \in Node \ Root /\ d \in Node \ Root
        /\ Parent(c) = p /\ Parent(d) = p
    BY <2>1, ParentOfChild
  <2>3. c # d /\ ~ListedBefore(Items[p], d, c)
    BY SMTT(90), <1>1, <1>3, WalkTreeAssumption
  <2>4. ~ListedBefore(StartPaths, d, c)
    BY <2>2 DEF ListedBefore, Root, RangeOf
  <2>5. ASSUME NEW r \in Node, ListedBefore(Items[r], d, c) PROVE FALSE
    <3>1. d \in Children(r)
      BY <2>5, WalkTreeAssumption DEF ListedBefore, Children, RangeOf
    <3>2. r = p
      BY <2>2, <3>1, ParentOfChild
    <3> QED
      BY <2>3, <2>5, <3>2
  <2> QED
    BY <2>2, <2>3, <2>4, <2>5 DEF Siblings, Earlier
<1> QED
  BY <1>2, <1>3 DEF Earlier

LEMMA WaysAreNodes == \A n \in Node : WayTo(n) \subseteq Node
BY AncestorsAreNodes DEF WayTo

(* No node comes before itself, and of two nodes one at most before the other. *)
LEMMA PrecedesIsStrict ==
  ASSUME NEW m \in Node, NEW n \in Node, Precedes(m, n)
  PROVE  ~Precedes(n, m)
<1> SUFFICES ASSUME Precedes(n, m) PROVE FALSE
  OBVIOUS
<1> DEFINE Below(a, b) == IF PostOrder THEN b \in Ancestors[a] ELSE a \in Ancestors[b]
<1>1. ~(Below(m, n) /\ Below(n, m))
  BY AncestorsNest, NoLoops
\* A branch leaves no node above the other.
<1>2. ASSUME NEW a \in Node, NEW b \in Node, NEW c \in WayTo(a), NEW d \in WayTo(b),
             Earlier(c, d) \/ Earlier(d, c)
      PROVE  a \notin WayTo(b) /\ b \notin WayTo(a)
  <2>1. c \in Node /\ d \in Node
    BY <1>2, WaysAreNodes
  <2>2. Siblings(c, d) /\ c # d
    BY <1>2, <2>1, EarlierIsSibling DEF Siblings
  <2>3. a \in WayTo(b) => c \in WayTo(b)
    BY <1>2, AncestorsNest DEF WayTo
  <2>4. b \in WayTo(a) => d \in WayTo(a)
    BY <1>2, AncestorsNest DEF WayTo
  <2> QED
    BY <1>2, <2>2, <2>3, <2>4, OneSibling
<1>3. CASE Below(m, n)
  <2>1. m \in WayTo(n) \/ n \in WayTo(m)
    BY <1>3 DEF WayTo
  <2>2. PICK c \in WayTo(n), d \in WayTo(m) : Earlier(c, d)
    BY <1>1, <1>3 DEF Precedes
  <2> QED
    BY <1>2, <2>1, <2>2
<1>4. CASE ~Below(m, n)
  <2>1. PICK c \in WayTo(m), d \in WayTo(n) : Earlier(c, d)
    BY <1>4 DEF Precedes
  <2>2. m \notin WayTo(n) /\ n \notin WayTo(m)
    BY <1>2, <2>1
  <2>3. ~Below(n, m)
    BY <2>2 DEF WayTo
  <2>4. PICK e \in WayTo(n), f \in WayTo(m) : Earlier(e, f)
    BY <2>3 DEF Precedes
  <2>5. c \in Node /\ d \in Node /\ e \in Node /\ f \in Node
    BY <2>1, <2>4, WaysAreNodes
  <2>6. Siblings(c, d) /\ c # d /\ ~Earlier(d, c) /\ Siblings(e, f) /\ e # f
    BY <2>1, <2>4, <2>5, EarlierIsSibling
  <2>7. c # f \/ d # e
    BY <2>4, <2>6
  \* Two places where the ways part: one is above the other.
  <2>8. ~Siblings(c, f)
    <3> SUFFICES ASSUME Siblings(c, f) PROVE FALSE
      OBVIOUS
    <3>1. Siblings(d, e)
      BY <2>6 DEF Siblings
    <3> QED
      BY <2>1, <2>4, <2>7, <3>1, OneSibling
  <2>9. c \in Ancestors[f] \/ f \in Ancestors[c]
    <3>1. c # f
      BY <2>6, <2>8 DEF Siblings
    <3> QED
      BY <2>1, <2>4, <3>1, OneWay
  <2>10. CASE c \in Ancestors[f]
    <3>1. f \in Node \ Root /\ c \in WayTo(Parent(f))
      BY <2>5, <2>10, AncestorsAre DEF WayTo
    <3>2. e \in Node \ Root /\ Parent(e) = Parent(f)
      BY <2>6, <3>1 DEF Siblings
    <3>3. c \in Ancestors[e]
      BY <2>5, <3>1, <3>2, AncestorsAre DEF WayTo
    <3>4. c \in WayTo(n)
      BY <2>4, <3>3, AncestorsNest DEF WayTo
    <3> QED
      BY <2>1, <2>6, <3>4, OneSibling
  <2>11. CASE f \in Ancestors[c]
    <3>1. c \in Node \ Root /\ f \in WayTo(Parent(c))
      BY <2>5, <2>11, AncestorsAre DEF WayTo
    <3>2. d \in Node \ Root /\ Parent(d) = Parent(c)
      BY <2>6, <3>1 DEF Siblings
    <3>3. f \in Ancestors[d]
      BY <2>5, <3>1, <3>2, AncestorsAre DEF WayTo
    <3>4. f \in WayTo(n)
      BY <2>1, <3>3, AncestorsNest DEF WayTo
    <3> QED
      BY <2>4, <2>6, <3>4, OneSibling
  <2> QED
    BY <2>9, <2>10, <2>11
<1> QED
  BY <1>3, <1>4

(* The children read_children returns: each child once, in their order. *)
LEMMA GoodItemsAre ==
  ASSUME NEW n \in Node
  PROVE  /\ GoodItems(n) \in Seq(Node)
         /\ \A i \in 1..Len(GoodItems(n)) : GoodItems(n)[i] \in Children(n)
         /\ \A c \in Children(n) : \E i \in 1..Len(GoodItems(n)) : GoodItems(n)[i] = c
         /\ \A i, k \in 1..Len(GoodItems(n)) :
              i < k => ListedBefore(Items[n], GoodItems(n)[i], GoodItems(n)[k])
<1> DEFINE s == Items[n]
           step(f) == [k \in 0..Len(s) |->
                         IF k = 0 THEN <<>>
                         ELSE IF s[k] = BadItem THEN f[k - 1]
                         ELSE Append(f[k - 1], s[k])]
           good == CHOOSE f : f = step(f)
           Is(f, k) == f[k] = IF k = 0 THEN <<>>
                              ELSE IF s[k] = BadItem THEN f[k - 1]
                              ELSE Append(f[k - 1], s[k])
           Solves(m, f) == \A k \in 0..m : Is(f, k)
           T == {m \in Nat : m <= Len(s) => \E f : Solves(m, f)}
<1>0. s \in Seq(Node \cup {BadItem}) /\ Len(s) \in Nat /\ \A i \in 1..Len(s) : s[i] \in Node \cup {BadItem}
  BY WalkTreeAssumption, LenProperties, ElementOfSeq
<1> HIDE DEF s
<1>1. 0 \in T
  <2>1. Solves(0, [k \in {0} |-> <<>>])
    OBVIOUS
  <2> HIDE DEF Solves
  <2> QED
    BY <2>1
<1>2. ASSUME NEW m \in Nat, m \in T
      PROVE  m + 1 \in T
  <2> SUFFICES ASSUME m + 1 <= Len(s) PROVE \E f : Solves(m + 1, f)
    <3> HIDE DEF Solves
    <3> QED
      OBVIOUS
  <2>1. PICK f : Solves(m, f)
    <3> HIDE DEF Solves
    <3> QED
      BY <1>0, <1>2
  <2> DEFINE g == [k \in 0..(m + 1) |-> IF k # m + 1 THEN f[k]
                                        ELSE IF s[k] = BadItem THEN f[m] ELSE Append(f[m], s[k])]
  <2>2. ASSUME NEW k \in 0..(m + 1) PROVE Is(g, k)
    <3>1. CASE k = m + 1
      <4>1. g[m] = f[m] /\ k - 1 = m /\ k # 0
        BY <3>1
      <4>2. g[k] = IF s[k] = BadItem THEN f[m] ELSE Append(f[m], s[k])
        BY <3>1
      <4> QED
        BY <4>1, <4>2
    <3>2. CASE k # m + 1
      <4>1. k \in 0..m /\ g[k] = f[k] /\ (k # 0 => g[k - 1] = f[k - 1])
        BY <3>2
      <4>2. Is(f, k)
        BY <2>1, <4>1
      <4> HIDE DEF g
      <4> QED
        BY <4>1, <4>2
    <3> QED
      BY <3>1, <3>2
  <2> HIDE DEF g, Is
  <2>3. Solves(m + 1, g)
    BY <2>2
  <2> HIDE DEF Solves
  <2> QED
    BY <2>3
<1>3. Nat \subseteq T
  <2> HIDE DEF T
  <2> QED
    BY <1>1, <1>2, NatSetInduction
<1>4. PICK f : Solves(Len(s), f)
  <2> HIDE DEF Solves
  <2> QED
    BY <1>0, <1>3
<1>5. [k \in 0..Len(s) |-> f[k]] = step([k \in 0..Len(s) |-> f[k]])
  <2> DEFINE g == [k \in 0..Len(s) |-> f[k]]
  <2>1. ASSUME NEW k \in 0..Len(s)
        PROVE  g[k] = step(g)[k]
    <3>1. Is(f, k) /\ g[k] = f[k] /\ (k # 0 => g[k - 1] = f[k - 1])
      BY <1>0, <1>4
    <3> HIDE DEF g
    <3> QED
      BY <3>1
  <2> HIDE DEF g
  <2>2. step(g) = [k \in 0..Len(s) |-> step(g)[k]]
    OBVIOUS
  <2>3. g = [k \in 0..Len(s) |-> g[k]]
    BY DEF g
  <2> HIDE DEF step
  <2> QED
    BY <2>1, <2>2, <2>3 DEF g
<1>6. good = step(good)
  <2> HIDE DEF step
  <2> QED
    BY <1>5
<1>7. GoodItems(n) = good[Len(s)]
  BY DEF GoodItems, s
<1> HIDE DEF good
<1>8. \A k \in 0..Len(s) : Is(good, k)
  BY <1>6
<1> DEFINE Good(k) == LET g == good[k] IN
             /\ g \in Seq(Node)
             /\ \A i \in 1..Len(g) : \E a \in 1..k : s[a] = g[i]
             /\ \A a \in 1..k : s[a] # BadItem => \E i \in 1..Len(g) : g[i] = s[a]
             /\ \A i, j \in 1..Len(g) : i < j => \E a, b \in 1..k : a < b /\ s[a] = g[i] /\ s[b] = g[j]
           U == {k \in Nat : k <= Len(s) => Good(k)}
<1>9. 0 \in U
  <2>1. good[0] = <<>>
    BY <1>0, <1>8
  <2>2. Good(0)
    BY <2>1
  <2> HIDE DEF Good
  <2> QED
    BY <2>2
<1>10. ASSUME NEW m \in Nat, m \in U
       PROVE  m + 1 \in U
  <2> SUFFICES ASSUME m + 1 <= Len(s) PROVE Good(m + 1)
    <3> HIDE DEF Good
    <3> QED
      OBVIOUS
  <2>1. Good(m)
    <3> HIDE DEF Good
    <3> QED
      BY <1>0, <1>10
  <2>2. Is(good, m + 1) /\ (m + 1) - 1 = m /\ m + 1 \in 1..Len(s)
    BY <1>0, <1>8
  <2>3. CASE s[m + 1] = BadItem
    <3>1. good[m + 1] = good[m]
      BY <2>2, <2>3
    <3> QED
      BY <2>1, <2>3, <3>1
  <2>4. CASE s[m + 1] # BadItem
    <3> DEFINE g == good[m]  h == good[m + 1]
    <3>1. h = Append(g, s[m + 1])
      BY <2>2, <2>4
    <3>2. s[m + 1] \in Node
      BY <1>0, <2>2, <2>4
    <3>a. g \in Seq(Node)
      BY <2>1
    <3>b. \A i \in 1..Len(g) : \E a \in 1..m : s[a] = g[i]
      BY <2>1
    <3>c. \A a \in 1..m : s[a] # BadItem => \E i \in 1..Len(g) : g[i] = s[a]
      BY <2>1
    <3>d. \A i, j \in 1..Len(g) : i < j => \E a, b \in 1..m : a < b /\ s[a] = g[i] /\ s[b] = g[j]
      BY <2>1
    <3> HIDE DEF g, h
    <3>3. /\ h \in Seq(Node) /\ Len(h) = Len(g) + 1 /\ Len(g) \in Nat
          /\ \A i \in 1..Len(g) : h[i] = g[i]
          /\ h[Len(g) + 1] = s[m + 1]
      BY <3>1, <3>2, <3>a, AppendProperties, LenProperties
    <3>4. \A i \in 1..Len(h) : \E a \in 1..(m + 1) : s[a] = h[i]
      BY <3>3, <3>b
    <3>5. \A a \in 1..(m + 1) : s[a] # BadItem => \E i \in 1..Len(h) : h[i] = s[a]
      BY <3>3, <3>c
    <3>6. ASSUME NEW i \in 1..Len(h), NEW j \in 1..Len(h), i < j
          PROVE  \E a, b \in 1..(m + 1) : a < b /\ s[a] = h[i] /\ s[b] = h[j]
      <4>1. CASE j \in 1..Len(g)
        <5>0. i \in 1..Len(g)
          BY <3>3, <3>6, <4>1
        <5>1. PICK a, b \in 1..m : a < b /\ s[a] = g[i] /\ s[b] = g[j]
          BY <3>6, <3>d, <4>1, <5>0
        <5> QED
          BY <3>3, <4>1, <5>0, <5>1
      <4>2. CASE j = Len(g) + 1
        <5>1. i \in 1..Len(g)
          BY <3>3, <3>6, <4>2
        <5>2. PICK a \in 1..m : s[a] = g[i]
          BY <3>b, <5>1
        <5> QED
          BY <3>3, <4>2, <5>1, <5>2
      <4> QED
        BY <3>3, <4>1, <4>2
    <3> QED
      BY <3>3, <3>4, <3>5, <3>6 DEF h
  <2> QED
    BY <2>3, <2>4
<1>11. Nat \subseteq U
  <2> HIDE DEF U
  <2> QED
    BY <1>9, <1>10, NatSetInduction
<1>12. Good(Len(s))
  <2> HIDE DEF Good
  <2> QED
    BY <1>0, <1>11
<1> DEFINE g == GoodItems(n)
<1>13. /\ g \in Seq(Node)
       /\ \A i \in 1..Len(g) : \E a \in 1..Len(s) : s[a] = g[i]
       /\ \A a \in 1..Len(s) : s[a] # BadItem => \E i \in 1..Len(g) : g[i] = s[a]
       /\ \A i, j \in 1..Len(g) : i < j => \E a, b \in 1..Len(s) : a < b /\ s[a] = g[i] /\ s[b] = g[j]
  BY <1>7, <1>12
<1> HIDE DEF g
<1>14. \A i \in 1..Len(g) : g[i] \in Node
  BY <1>13, ElementOfSeq
<1>14a. Children(n) = {s[a] : a \in 1..Len(s)} \ {BadItem} /\ BadItem \notin Node
  BY WalkTreeAssumption DEF Children, RangeOf, s
<1>15. \A i \in 1..Len(g) : g[i] \in Children(n)
  BY <1>13, <1>14, <1>14a
<1>16. ASSUME NEW c \in Children(n) PROVE \E i \in 1..Len(g) : g[i] = c
  <2>1. PICK a \in 1..Len(s) : s[a] = c /\ c # BadItem
    BY <1>14a
  <2> QED
    BY <1>13, <2>1
<1>17. \A i, k \in 1..Len(g) : i < k => ListedBefore(s, g[i], g[k])
  BY <1>13 DEF ListedBefore
<1> QED
  BY <1>13, <1>15, <1>16, <1>17 DEF g, s

-----------------------------------------------------------------------------
(* Types                                                                     *)

LEMMA Numbered ==
  ASSUME nextSeq \in Nat, nextSeq' \in {nextSeq, nextSeq + 1}
  PROVE  /\ Item \subseteq Item' /\ Result \subseteq Result'
         /\ \A s \in Seq(Item) : s \in Seq(Item')
         /\ \A s \in Seq(Result) : s \in Seq(Result')
         /\ \A n \in Node : <<nextSeq, n>> \in Item
         /\ \A k \in 0..nextSeq : k \in 0..nextSeq'
<1>1. \A k \in 0..nextSeq : k \in 0..nextSeq'
  OBVIOUS
<1>2. Item \subseteq Item' /\ Result \subseteq Result'
  BY <1>1 DEF Item, Result
<1>3. \A n \in Node : <<nextSeq, n>> \in Item
  BY DEF Item
<1>4. ASSUME NEW S, NEW T, S \subseteq T, NEW s \in Seq(S) PROVE s \in Seq(T)
  BY <1>4, LenProperties, ElementOfSeq, IsASeq, SeqDef
<1> QED
  BY <1>1, <1>2, <1>3, <1>4

LEMMA ItemsAreNumbered ==
  \A x \in Item : /\ x \notin {Idle, Gone} /\ x[1] \in 0..nextSeq /\ x[2] \in Node
                  /\ x = <<x[1], x[2]>>
<1>1. ASSUME NEW s, NEW n PROVE <<s, n>> # Idle /\ <<s, n>> # Gone
  <2>1. Len(<<s, n>>) = 2 /\ Len(Idle) = 1 /\ Len(Gone) = 1
    BY DEF Idle, Gone
  <2> QED
    BY <2>1
<1> QED
  BY <1>1 DEF Item

(* What the walk does with an entry it emits. *)
LEMMA EmitTypes ==
  ASSUME TypeOK, NEW n \in Node, NEW then, EmitEntry(n, then)
  PROVE  /\ nextSeq' \in {nextSeq, nextSeq + 1}
         /\ work' \in Seq(Item') /\ commits' \in Seq(Node) /\ quit' \in BOOLEAN
         /\ main' \in {then, "flush", "failed"}
<1>0. work \in Seq(Item) /\ commits \in Seq(Node) /\ quit \in BOOLEAN /\ nextSeq \in Nat
  BY DEF TypeOK
<1>1. CASE NoEmit /\ main' = then
  <2>1. nextSeq' = nextSeq /\ work' = work /\ commits' = commits /\ quit' = quit
    BY <1>1 DEF NoEmit
  <2> QED
    BY <1>0, <1>1, <2>1, Numbered
<1>2. CASE EvaluateInline(n, then)
  <2>1. nextSeq' = nextSeq /\ work' = work /\ commits' = Append(commits, n)
    BY <1>2 DEF EvaluateInline
  <2>2. commits' \in Seq(Node)
    BY <1>0, <2>1, AppendProperties
  <2>3. quit' \in BOOLEAN /\ main' \in {then, "flush", "failed"}
    BY <1>0, <1>2 DEF EvaluateInline
  <2> QED
    BY <1>0, <2>1, <2>2, <2>3, Numbered
<1>3. CASE SendToEvaluators(n, then)
  <2>1. /\ nextSeq' = nextSeq + 1 /\ work' = Append(work, <<nextSeq, n>>)
        /\ commits' = commits /\ quit' = quit /\ main' = then
    BY <1>3 DEF SendToEvaluators
  <2>2. work' \in Seq(Item)
    BY <1>0, <2>1, Numbered, AppendProperties
  <2> QED
    BY <1>0, <2>1, <2>2, Numbered
<1> QED
  BY <1>1, <1>2, <1>3 DEF EmitEntry

LEMMA TopIsFrame ==
  ASSUME stack \in Seq(Frame), stack # <<>>
  PROVE  /\ Top \in Frame /\ Top = stack[1] /\ Tail(stack) \in Seq(Frame)
         /\ Len(stack) \in Nat \ {0} /\ Len(Tail(stack)) = Len(stack) - 1
         /\ \A i \in 1..Len(Tail(stack)) : Tail(stack)[i] = stack[i + 1]
BY HeadTailProperties, LenProperties, EmptySeq DEF Top

(* How a step of the walk changes the stack: new frames take the place of    *)
(* the first.                                                                *)
Kids(n) == [i \in 1..Len(GoodItems(n)) |-> Visit(GoodItems(n)[i])]
Own(n) == IF PostOrder THEN <<Complete(n)>> ELSE <<>>
OwnIfDirectory(n) == IF PostOrder /\ n \in Dir THEN <<Complete(n)>> ELSE <<>>

LEMMA FramesAreFrames ==
  ASSUME NEW n \in Node
  PROVE  /\ Kids(n) \in Seq(Frame) /\ Own(n) \in Seq(Frame) /\ OwnIfDirectory(n) \in Seq(Frame)
         /\ Kids(n) \o Own(n) \in Seq(Frame)
<1>1. Len(GoodItems(n)) \in Nat /\ \A i \in 1..Len(GoodItems(n)) : GoodItems(n)[i] \in Node
  BY GoodItemsAre, LenProperties, ElementOfSeq
<1>2. \A i \in 1..Len(GoodItems(n)) : Visit(GoodItems(n)[i]) \in Frame
  BY <1>1 DEF Visit, Frame
<1>3. Kids(n) \in Seq(Frame)
  BY <1>1, <1>2, IsASeq DEF Kids
<1>4. Complete(n) \in Frame
  BY DEF Complete, Frame
<1>5. Own(n) \in Seq(Frame) /\ OwnIfDirectory(n) \in Seq(Frame)
  BY <1>4 DEF Own, OwnIfDirectory
<1> QED
  BY <1>3, <1>5, ConcatProperties

WalkStep ==
  \/ PopComplete \/ PopFailing \/ VisitEntry
  \/ DoNotDescend \/ RefuseLoop \/ ReadFails \/ Descend

(* What a step of the walk does, action by action. *)
Replaces(new) == stack' = new \o Tail(stack)

LEMMA WalkMoves ==
  ASSUME TypeOK, WalkStep
  PROVE  /\ Walking /\ stack # <<>> /\ Top.node \in Node
         /\ UNCHANGED <<workOpen, evaluator, ready, readyOpen, queueVars>>
         /\ \/ EmitEntry(Top.node, "walk") /\ Top.complete /\ Replaces(<<>>) /\ errors' = errors
            \/ /\ VisitEntry /\ stack' = stack /\ errors' = errors
               /\ EmitEntry(Top.node, "emitted") \/ (main' = "emitted" /\ NoEmit)
            \/ /\ NoEmit /\ main' = "walk" /\ ~Top.complete
               /\ \E new \in {<<>>, OwnIfDirectory(Top.node), Kids(Top.node) \o Own(Top.node)} :
                    Replaces(new)
               /\ errors' \in {errors, errors \cup {Top.node}}
<1>0. stack \in Seq(Frame)
  BY DEF TypeOK
<1>1. Walking /\ stack # <<>>
  BY DEF WalkStep, PopComplete, PopFailing, VisitEntry, DoNotDescend, RefuseLoop, ReadFails,
         Descend, Descending, Walking
<1>2. Top.node \in Node /\ Top \in Frame /\ Tail(stack) \in Seq(Frame)
  BY <1>0, <1>1, TopIsFrame DEF Frame
<1>3. <<>> \o Tail(stack) = Tail(stack)
  BY <1>2, ConcatEmptySeq
<1> DEFINE n == Top.node
<1>4. (Kids(n) \o Own(n)) \o Tail(stack) = Kids(n) \o Own(n) \o Tail(stack)
  OBVIOUS
<1>5. UNCHANGED <<workOpen, evaluator, ready, readyOpen, queueVars>>
  BY DEF WalkStep, PopComplete, PopFailing, VisitEntry, DoNotDescend, RefuseLoop, ReadFails, Descend
<1>6. CASE PopComplete
  BY <1>1, <1>2, <1>3, <1>5, <1>6 DEF PopComplete, Replaces
<1>7. CASE VisitEntry
  <2>1. /\ stack' = stack /\ errors' = errors
        /\ EmitEntry(Top.node, "emitted") \/ (main' = "emitted" /\ NoEmit)
    BY <1>7 DEF VisitEntry
  <2> QED
    BY <1>1, <1>2, <1>5, <1>7, <2>1
<1>8. CASE PopFailing
  <2>1. /\ NoEmit /\ main' = "walk" /\ ~Top.complete /\ Replaces(<<>>)
        /\ errors' = errors \cup {Top.node}
    BY <1>3, <1>8 DEF PopFailing, Replaces
  <2> QED
    BY <1>1, <1>2, <1>5, <2>1
<1>9. CASE RefuseLoop
  <2>1. /\ NoEmit /\ main' = "walk" /\ ~Top.complete /\ Replaces(<<>>)
        /\ errors' = errors \cup {Top.node}
    BY <1>3, <1>9 DEF RefuseLoop, Descending, Replaces
  <2> QED
    BY <1>1, <1>2, <1>5, <2>1
<1>10. CASE DoNotDescend
  <2>1. /\ NoEmit /\ main' = "walk" /\ ~Top.complete /\ Replaces(OwnIfDirectory(n))
        /\ errors' = errors
    BY <1>10 DEF DoNotDescend, Descending, LeaveEntry, Replaces, OwnIfDirectory
  <2> QED
    BY <1>1, <1>2, <1>5, <2>1
<1>11. CASE ReadFails
  <2>1. /\ NoEmit /\ main' = "walk" /\ ~Top.complete /\ Replaces(OwnIfDirectory(n))
        /\ errors' = errors \cup {Top.node}
    BY <1>11 DEF ReadFails, Descending, LeaveEntry, Replaces, OwnIfDirectory
  <2> QED
    BY <1>1, <1>2, <1>5, <2>1
<1>12. CASE Descend
  <2>1. /\ NoEmit /\ main' = "walk" /\ ~Top.complete /\ Replaces(Kids(n) \o Own(n))
        /\ errors' = errors \cup Reports(n)
    BY <1>12 DEF Descend, Descending, Replaces, Kids, Own
  <2>2. errors' \in {errors, errors \cup {n}}
    BY <2>1 DEF Reports
  <2> QED
    BY <1>1, <1>2, <1>5, <2>1, <2>2
<1> QED
  BY <1>6, <1>7, <1>8, <1>9, <1>10, <1>11, <1>12 DEF WalkStep

LEMMA TypeStep == TypeOK /\ NumbersInRange /\ [Next]_vars => TypeOK'
<1> SUFFICES ASSUME TypeOK, NumbersInRange, [Next]_vars PROVE TypeOK'
  OBVIOUS
<1>0. /\ stack \in Seq(Frame) /\ errors \subseteq Node /\ nextSeq \in Nat
      /\ evaluator \in [Evaluator -> Item \cup {Idle, Gone}]
      /\ work \in Seq(Item) /\ ready \in Seq(Result) /\ buffered \subseteq Result
      /\ nextReady \in 0..nextSeq /\ commits \in Seq(Node)
      /\ workOpen \in BOOLEAN /\ readyOpen \in BOOLEAN /\ quit \in BOOLEAN
      /\ main \in {"walk", "emitted", "flush", "drain", "commit", "failed", "unwind", "done", "error"}
  BY DEF TypeOK
<1>1. CASE UNCHANGED vars
  BY <1>1 DEF vars, TypeOK, Item, Result
<1>2. CASE WalkStep
  <2>1. /\ Walking /\ stack # <<>> /\ Top.node \in Node
        /\ UNCHANGED <<workOpen, evaluator, ready, readyOpen, queueVars>>
    BY <1>2, WalkMoves
  <2>2. Tail(stack) \in Seq(Frame)
    BY <1>0, <2>1, TopIsFrame
  <2>3. \A new \in Seq(Frame) : Replaces(new) => stack' \in Seq(Frame)
    BY <2>2, ConcatProperties DEF Replaces
  <2>4. stack' \in Seq(Frame) /\ errors' \subseteq Node
    <3>1. <<>> \in Seq(Frame)
      OBVIOUS
    <3> QED
      BY <1>0, <1>2, <2>1, <2>3, <3>1, FramesAreFrames, WalkMoves
  <2>5. /\ nextSeq' \in {nextSeq, nextSeq + 1}
        /\ work' \in Seq(Item') /\ commits' \in Seq(Node) /\ quit' \in BOOLEAN
        /\ main' \in {"walk", "emitted", "flush", "failed"}
    <3>1. ASSUME NoEmit
          PROVE  /\ nextSeq' \in {nextSeq, nextSeq + 1}
                 /\ work' \in Seq(Item') /\ commits' \in Seq(Node) /\ quit' \in BOOLEAN
      <4>1. nextSeq' = nextSeq /\ work' = work /\ commits' = commits /\ quit' = quit
        BY <3>1 DEF NoEmit
      <4> QED
        BY <1>0, <4>1, Numbered
    <3> QED
      BY <1>2, <2>1, <3>1, EmitTypes, WalkMoves
  <2>6. /\ evaluator' \in [Evaluator -> Item' \cup {Idle, Gone}]
        /\ ready' \in Seq(Result') /\ buffered' \subseteq Result' /\ nextReady' \in 0..nextSeq'
        /\ nextSeq' \in Nat
    BY <1>0, <2>1, <2>5, Numbered DEF queueVars
  <2> QED
    BY <1>0, <2>1, <2>4, <2>5, <2>6 DEF TypeOK
<1>3. ASSUME nextSeq' = nextSeq
      PROVE  Item' = Item /\ Result' = Result
  BY <1>3 DEF Item, Result
<1>4. ASSUME NEW e \in Evaluator, Receive(e) PROVE TypeOK'
  <2>1. /\ Head(work) \in Item /\ Tail(work) \in Seq(Item)
    BY <1>0, <1>4, HeadTailProperties DEF Receive
  <2>2. evaluator' \in [Evaluator -> Item \cup {Idle, Gone}]
    BY <1>0, <1>4, <2>1 DEF Receive
  <2> QED
    BY <1>0, <1>3, <1>4, <2>1, <2>2 DEF Receive, TypeOK, walkVars, queueVars
<1>5. ASSUME NEW e \in Evaluator, Deliver(e) PROVE TypeOK'
  <2>1. PICK ok \in BOOLEAN : ready' = Append(ready, <<evaluator[e][1], evaluator[e][2], ok>>)
    BY <1>5 DEF Deliver
  <2>2. e \in Holding /\ evaluator' = [evaluator EXCEPT ![e] = Idle]
    BY <1>5 DEF Deliver
  <2>3. evaluator[e] \in Item
    BY <1>0, <2>2 DEF Holding
  <2>4. <<evaluator[e][1], evaluator[e][2], ok>> \in Result
    BY <2>3, ItemsAreNumbered DEF Result
  <2>5. ready' \in Seq(Result) /\ evaluator' \in [Evaluator -> Item \cup {Idle, Gone}]
    BY <1>0, <2>1, <2>2, <2>4, AppendProperties
  <2>6. UNCHANGED <<main, walkVars, work, workOpen, nextSeq, readyOpen, queueVars, commits>>
    BY <1>5 DEF Deliver
  <2> QED
    BY <1>0, <1>3, <2>5, <2>6 DEF TypeOK, walkVars, queueVars
<1>6. ASSUME NEW e \in Evaluator, Leave(e) PROVE TypeOK'
  <2>1. evaluator' \in [Evaluator -> Item \cup {Idle, Gone}]
    BY <1>0, <1>6 DEF Leave
  <2> QED
    BY <1>0, <1>3, <1>6, <2>1 DEF Leave, TypeOK, walkVars, queueVars
<1>7. CASE EndWalk
  BY <1>0, <1>3, <1>7 DEF EndWalk, TypeOK, walkVars, queueVars
<1>8. CASE Collect
  <2>1. Head(ready) \in Result /\ Tail(ready) \in Seq(Result)
    BY <1>0, <1>8, HeadTailProperties DEF Collect
  <2> QED
    BY <1>0, <1>3, <1>8, <2>1 DEF Collect, TypeOK, walkVars
<1>9. CASE NothingNext \/ EndDrain \/ Finish \/ JoinAndFail
  BY <1>0, <1>3, <1>9
  DEF NothingNext, EndDrain, Finish, JoinAndFail, TypeOK, walkVars, pipeVars, queueVars
<1>10. CASE DropChannels
  <2>1. /\ main' = "unwind" /\ workOpen' = FALSE /\ readyOpen' = FALSE /\ ready' = <<>>
        /\ UNCHANGED <<stack, errors, quit, work, nextSeq, evaluator, buffered, nextReady, commits>>
    BY <1>10 DEF DropChannels, walkVars, queueVars
  <2>2. ready' \in Seq(Result)
    BY <2>1
  <2> QED
    BY <1>0, <1>3, <2>1, <2>2 DEF TypeOK
<1>11. CASE CommitNext
  <2>1. PICK item \in buffered :
          /\ item[1] = nextReady /\ buffered' = buffered \ {item} /\ nextReady' = nextReady + 1
          /\ commits' = Append(commits, item[2])
          /\ main' \in {main, "failed"}
    BY <1>11 DEF CommitNext
  <2>2. UNCHANGED <<stack, errors, quit, work, workOpen, nextSeq, evaluator, ready, readyOpen>>
    BY <1>11 DEF CommitNext, walkVars, pipeVars
  <2>3. item[2] \in Node
    BY <1>0 DEF Result
  <2>4. Carried(item[1], item[2])
    BY DEF Carried, Carries
  <2>5. nextReady + 1 \in 0..nextSeq
    BY <1>0, <2>1, <2>4 DEF NumbersInRange
  <2>6. commits' \in Seq(Node)
    BY <1>0, <2>1, <2>3, AppendProperties
  <2> QED
    BY <1>0, <1>3, <2>1, <2>2, <2>5, <2>6 DEF TypeOK
<1> QED
  BY <1>1, <1>2, <1>4, <1>5, <1>6, <1>7, <1>8, <1>9, <1>10, <1>11
  DEF Next, MainStep, WalkStep, EvaluatorStep

-----------------------------------------------------------------------------
(* How numbers move                                                          *)

(* Before the step both numbers were somewhere, and not at one place. *)
CameFrom(q1, i1, s, n1, q2, i2, n2) ==
  \E p1, k1, p2, k2 : /\ Carries(p1, k1, s, n1) /\ Carries(p2, k2, s, n2)
                      /\ p1 = p2 /\ k1 = k2 => q1 = q2 /\ i1 = i2

(* Every number is where it was, or was somewhere else. *)
PlacesKept ==
  \A q1, i1, s, n1, q2, i2, n2 :
    Carries(q1, i1, s, n1)' /\ Carries(q2, i2, s, n2)' => CameFrom(q1, i1, s, n1, q2, i2, n2)

(* ... but for the number that is new. *)
Hands(n) ==
  /\ ~Inline /\ Walking /\ n = Top.node /\ n \in Node /\ IsEvaluatedAt(n)
  /\ nextSeq' = nextSeq + 1 /\ work' = Append(work, <<nextSeq, n>>) /\ commits' = commits
  /\ main' \in {"walk", "emitted"} /\ quit' = quit

LEMMA SamePlaces ==
  ASSUME UNCHANGED <<work, evaluator, ready, buffered>>
  PROVE  PlacesKept /\ \A s, n : Carried(s, n)' <=> Carried(s, n)
<1>1. \A q, i, s, n : Carries(q, i, s, n)' <=> Carries(q, i, s, n)
  BY DEF Carries
<1> QED
  BY <1>1 DEF PlacesKept, CameFrom, Carried

LEMMA FewerPlaces ==
  ASSUME \A q, i, s, n : Carries(q, i, s, n)' => Carries(q, i, s, n)
  PROVE  PlacesKept /\ \A s, n : Carried(s, n)' => Carried(s, n)
BY DEF PlacesKept, CameFrom, Carried

LEMMA ReceiveMoves ==
  ASSUME TypeOK, NEW e \in Evaluator, Receive(e)
  PROVE  PlacesKept /\ \A s, n : Carried(s, n)' <=> Carried(s, n)
<1>0. /\ work \in Seq(Item) /\ work # <<>> /\ work' = Tail(work)
      /\ evaluator \in [Evaluator -> Item \cup {Idle, Gone}] /\ evaluator[e] = Idle
      /\ evaluator' = [evaluator EXCEPT ![e] = Head(work)]
      /\ ready' = ready /\ buffered' = buffered
  BY DEF TypeOK, Receive, queueVars
<1>1. /\ Len(work) \in Nat \ {0} /\ Len(work') = Len(work) - 1 /\ Head(work) = work[1]
      /\ \A i \in 1..Len(work') : work'[i] = work[i + 1]
  BY <1>0, HeadTailProperties, LenProperties, EmptySeq
<1>2. \A u \in Evaluator : u # -1 /\ u # -2 /\ u # -3
  BY OrderedAssumption DEF Evaluator
<1> DEFINE oq(q) == IF q = e THEN -1 ELSE q
           oi(q, i) == IF q = e THEN 1 ELSE IF q = -1 THEN i + 1 ELSE i
<1>3. ASSUME NEW q, NEW i, NEW s, NEW n, Carries(q, i, s, n)'
      PROVE  /\ Carries(oq(q), oi(q, i), s, n)
             /\ q = e => i = 0
             /\ q = -1 => i \in 1..(Len(work) - 1)
  <2>1. CASE q = -1
    BY <1>0, <1>1, <1>2, <1>3, <2>1 DEF Carries
  <2>2. CASE q = e
    <3>1. i = 0 /\ work[1] = <<s, n>>
      BY <1>0, <1>1, <1>2, <1>3, <2>2 DEF Carries
    <3> QED
      BY <1>1, <1>2, <2>2, <3>1 DEF Carries
  <2>3. CASE q # -1 /\ q # e
    BY <1>0, <1>2, <1>3, <2>3 DEF Carries
  <2> QED
    BY <2>1, <2>2, <2>3
<1>4. ASSUME NEW s, NEW n, Carried(s, n) PROVE Carried(s, n)'
  <2>1. PICK q, i : Carries(q, i, s, n)
    BY <1>4 DEF Carried
  <2>2. CASE q = -1 /\ i = 1
    <3>1. Carries(e, 0, s, n)'
      BY <1>0, <1>1, <1>2, <2>1, <2>2 DEF Carries
    <3> QED
      BY <3>1 DEF Carried
  <2>3. CASE q = -1 /\ i # 1
    <3>1. i - 1 \in 1..Len(work') /\ work'[i - 1] = <<s, n>>
      BY <1>1, <1>2, <2>1, <2>3 DEF Carries
    <3>2. Carries(-1, i - 1, s, n)'
      BY <3>1 DEF Carries
    <3> QED
      BY <3>2 DEF Carried
  <2>4. CASE q # -1
    <3>1. q # e
      <4> SUFFICES ASSUME q = e PROVE FALSE
        OBVIOUS
      <4>1. <<s, n>> = Idle
        BY <1>0, <1>2, <2>1, <2>4 DEF Carries
      <4>2. Len(<<s, n>>) = 2 /\ Len(Idle) = 1
        BY DEF Idle
      <4> QED
        BY <4>1, <4>2
    <3>2. Carries(q, i, s, n)'
      BY <1>0, <2>1, <2>4, <3>1 DEF Carries
    <3> QED
      BY <3>2 DEF Carried
  <2> QED
    BY <2>2, <2>3, <2>4
<1>5. ASSUME NEW q1, NEW i1, NEW s, NEW n1, NEW q2, NEW i2, NEW n2,
             Carries(q1, i1, s, n1)', Carries(q2, i2, s, n2)'
      PROVE  CameFrom(q1, i1, s, n1, q2, i2, n2)
  <2>1. /\ Carries(oq(q1), oi(q1, i1), s, n1) /\ Carries(oq(q2), oi(q2, i2), s, n2)
        /\ q1 = e => i1 = 0
        /\ q1 = -1 => i1 \in 1..(Len(work) - 1)
        /\ q2 = e => i2 = 0
        /\ q2 = -1 => i2 \in 1..(Len(work) - 1)
    BY <1>3, <1>5
  <2>2. oq(q1) = oq(q2) /\ oi(q1, i1) = oi(q2, i2) => q1 = q2 /\ i1 = i2
    BY <1>1, <1>2, <2>1
  <2> HIDE DEF oq, oi
  <2> QED
    BY <2>1, <2>2 DEF CameFrom
<1>6. \A s, n : Carried(s, n)' => Carried(s, n)
  BY <1>3 DEF Carried
<1> QED
  BY <1>4, <1>5, <1>6 DEF PlacesKept

LEMMA DeliverMoves ==
  ASSUME TypeOK, NEW e \in Evaluator, Deliver(e)
  PROVE  PlacesKept /\ \A s, n : Carried(s, n)' <=> Carried(s, n)
<1>0. /\ ready \in Seq(Result) /\ evaluator \in [Evaluator -> Item \cup {Idle, Gone}]
      /\ evaluator[e] \in Item /\ evaluator' = [evaluator EXCEPT ![e] = Idle]
      /\ work' = work /\ buffered' = buffered
  BY DEF TypeOK, Deliver, Holding, queueVars
<1> DEFINE x == evaluator[e]
<1>1. x = <<x[1], x[2]>> /\ x[1] \in 0..nextSeq /\ x[2] \in Node
  BY <1>0, ItemsAreNumbered
<1>2. PICK ok \in BOOLEAN : ready' = Append(ready, <<x[1], x[2], ok>>)
  BY DEF Deliver
<1>3. <<x[1], x[2], ok>> \in Result
  BY <1>1 DEF Result
<1>4. /\ Len(ready) \in Nat /\ Len(ready') = Len(ready) + 1
      /\ \A i \in 1..Len(ready) : ready'[i] = ready[i]
      /\ ready'[Len(ready) + 1] = <<x[1], x[2], ok>>
  BY <1>0, <1>2, <1>3, AppendProperties, LenProperties
<1>5. \A u \in Evaluator : u # -1 /\ u # -2 /\ u # -3
  BY OrderedAssumption DEF Evaluator
<1> DEFINE oq(q, i) == IF q = -2 /\ i = Len(ready) + 1 THEN e ELSE q
           oi(q, i) == IF q = -2 /\ i = Len(ready) + 1 THEN 0 ELSE i
<1> HIDE DEF x
<1>6. \A s, n : <<s, n>> # Idle
  <2> SUFFICES ASSUME NEW s, NEW n PROVE <<s, n>> # Idle
    OBVIOUS
  <2>1. Len(<<s, n>>) = 2 /\ Len(Idle) = 1
    BY DEF Idle
  <2> QED
    BY <2>1
<1>7. ASSUME NEW q, NEW i, NEW s, NEW n, Carries(q, i, s, n)'
      PROVE  Carries(oq(q, i), oi(q, i), s, n) /\ q # e
  <2>1. CASE q = -2 /\ i = Len(ready) + 1
    <3>1. s = x[1] /\ n = x[2]
      BY <1>4, <1>5, <1>7, <2>1 DEF Carries
    <3>2. evaluator[e] = <<s, n>>
      BY <1>1, <3>1 DEF x
    <3> QED
      BY <1>5, <2>1, <3>2 DEF Carries
  <2>2. CASE q = -2 /\ i # Len(ready) + 1
    <3>1. i \in 1..Len(ready) /\ ready'[i] = ready[i]
      BY <1>4, <1>5, <1>7, <2>2 DEF Carries
    <3> QED
      BY <1>5, <1>7, <2>2, <3>1 DEF Carries
  <2>3. CASE q # -2
    BY <1>0, <1>5, <1>6, <1>7, <2>3 DEF Carries
  <2> QED
    BY <2>1, <2>2, <2>3
<1>8. ASSUME NEW s, NEW n, Carried(s, n) PROVE Carried(s, n)'
  <2>1. PICK q, i : Carries(q, i, s, n)
    BY <1>8 DEF Carried
  <2>2. CASE q = e
    <3>1. x = <<s, n>>
      BY <1>5, <2>1, <2>2 DEF Carries, x
    <3>2. PICK k : k = Len(ready) + 1 /\ k \in 1..Len(ready')
      BY <1>4
    <3>3. Carries(-2, k, s, n)'
      BY <1>4, <3>1, <3>2 DEF Carries
    <3> QED
      BY <3>3 DEF Carried
  <2>3. CASE q = -2
    <3>1. Carries(q, i, s, n)'
      BY <1>4, <1>5, <2>1, <2>3 DEF Carries
    <3> QED
      BY <3>1 DEF Carried
  <2>4. CASE q # e /\ q # -2
    <3>1. Carries(q, i, s, n)'
      BY <1>0, <2>1, <2>4 DEF Carries
    <3> QED
      BY <3>1 DEF Carried
  <2> QED
    BY <2>2, <2>3, <2>4
<1>9. ASSUME NEW q1, NEW i1, NEW s, NEW n1, NEW q2, NEW i2, NEW n2,
             Carries(q1, i1, s, n1)', Carries(q2, i2, s, n2)'
      PROVE  CameFrom(q1, i1, s, n1, q2, i2, n2)
  <2>1. /\ Carries(oq(q1, i1), oi(q1, i1), s, n1) /\ Carries(oq(q2, i2), oi(q2, i2), s, n2)
        /\ q1 # e /\ q2 # e
    BY <1>7, <1>9
  <2>2. oq(q1, i1) = oq(q2, i2) /\ oi(q1, i1) = oi(q2, i2) => q1 = q2 /\ i1 = i2
    BY <1>5, <2>1
  <2> HIDE DEF oq, oi
  <2> QED
    BY <2>1, <2>2 DEF CameFrom
<1>10. \A s, n : Carried(s, n)' => Carried(s, n)
  BY <1>7 DEF Carried
<1> QED
  BY <1>8, <1>9, <1>10 DEF PlacesKept

LEMMA CollectMoves ==
  ASSUME TypeOK, Collect
  PROVE  PlacesKept /\ \A s, n : Carried(s, n)' <=> Carried(s, n)
<1>0. /\ ready \in Seq(Result) /\ ready # <<>> /\ ready' = Tail(ready)
      /\ buffered' = buffered \cup {Head(ready)}
      /\ work' = work /\ evaluator' = evaluator
  BY DEF TypeOK, Collect
<1>1. /\ Len(ready) \in Nat \ {0} /\ Len(ready') = Len(ready) - 1 /\ Head(ready) = ready[1]
      /\ \A i \in 1..Len(ready') : ready'[i] = ready[i + 1]
  BY <1>0, HeadTailProperties, LenProperties, EmptySeq
<1>2. \A u \in Evaluator : u # -1 /\ u # -2 /\ u # -3
  BY OrderedAssumption DEF Evaluator
<1> DEFINE oq(q, i) == IF q = -3 /\ i = ready[1] THEN -2 ELSE q
           oi(q, i) == IF q = -3 /\ i = ready[1] THEN 1 ELSE IF q = -2 THEN i + 1 ELSE i
<1>3. ASSUME NEW q, NEW i, NEW s, NEW n, Carries(q, i, s, n)'
      PROVE  /\ Carries(oq(q, i), oi(q, i), s, n)
             /\ q = -2 => i \in 1..(Len(ready) - 1)
  <2>1. CASE q = -2
    BY SMTT(90), <1>1, <1>2, <1>3, <2>1 DEF Carries
  <2>2. CASE q = -3
    BY <1>0, <1>1, <1>2, <1>3, <2>2 DEF Carries
  <2>3. CASE q # -2 /\ q # -3
    BY <1>0, <1>2, <1>3, <2>3 DEF Carries
  <2> QED
    BY <2>1, <2>2, <2>3
<1>4. ASSUME NEW s, NEW n, Carried(s, n) PROVE Carried(s, n)'
  <2>1. PICK q, i : Carries(q, i, s, n)
    BY <1>4 DEF Carried
  <2>2. CASE q = -2 /\ i = 1
    <3>0. PICK h : h = ready[1]
      OBVIOUS
    <3>1. Carries(-3, h, s, n)'
      BY <1>0, <1>1, <1>2, <2>1, <2>2, <3>0 DEF Carries
    <3> QED
      BY <3>1 DEF Carried
  <2>3. CASE q = -2 /\ i # 1
    <3>1. i - 1 \in 1..Len(ready') /\ ready'[i - 1] = ready[i] /\ ready[i][1] = s /\ ready[i][2] = n
      BY <1>1, <1>2, <2>1, <2>3 DEF Carries
    <3>2. Carries(-2, i - 1, s, n)'
      BY <3>1 DEF Carries
    <3> QED
      BY <3>2 DEF Carried
  <2>4. CASE q # -2
    <3>1. Carries(q, i, s, n)'
      BY <1>0, <2>1, <2>4 DEF Carries
    <3> QED
      BY <3>1 DEF Carried
  <2> QED
    BY <2>2, <2>3, <2>4
<1>5. ASSUME NEW q1, NEW i1, NEW s, NEW n1, NEW q2, NEW i2, NEW n2,
             Carries(q1, i1, s, n1)', Carries(q2, i2, s, n2)'
      PROVE  CameFrom(q1, i1, s, n1, q2, i2, n2)
  <2>1. /\ Carries(oq(q1, i1), oi(q1, i1), s, n1) /\ Carries(oq(q2, i2), oi(q2, i2), s, n2)
        /\ q1 = -2 => i1 \in 1..(Len(ready) - 1)
        /\ q2 = -2 => i2 \in 1..(Len(ready) - 1)
    BY <1>3, <1>5
  <2>2. oq(q1, i1) = oq(q2, i2) /\ oi(q1, i1) = oi(q2, i2) => q1 = q2 /\ i1 = i2
    BY <1>1, <2>1
  <2> HIDE DEF oq, oi
  <2> QED
    BY <2>1, <2>2 DEF CameFrom
<1>6. \A s, n : Carried(s, n)' => Carried(s, n)
  BY <1>3 DEF Carried
<1> QED
  BY <1>4, <1>5, <1>6 DEF PlacesKept

LEMMA SendMoves ==
  ASSUME TypeOK, NumbersInRange, OnePlaceEach, NEW n \in Node,
         work' = Append(work, <<nextSeq, n>>), UNCHANGED <<evaluator, ready, buffered>>
  PROVE  /\ OnePlaceEach'
         /\ \A s, m : Carried(s, m)' <=> Carried(s, m) \/ (s = nextSeq /\ m = n)
<1>0. /\ work \in Seq(Item) /\ nextSeq \in Nat /\ nextReady \in 0..nextSeq
      /\ <<nextSeq, n>> \in Item
  BY DEF TypeOK, Item
<1>1. /\ Len(work) \in Nat /\ Len(work') = Len(work) + 1
      /\ \A i \in 1..Len(work) : work'[i] = work[i]
      /\ work'[Len(work) + 1] = <<nextSeq, n>>
  BY <1>0, AppendProperties, LenProperties
<1>2. \A u \in Evaluator : u # -1 /\ u # -2 /\ u # -3
  BY OrderedAssumption DEF Evaluator
<1>3. PICK l : l = Len(work) + 1
  OBVIOUS
<1>4. ASSUME NEW q, NEW i, NEW s, NEW m
      PROVE  Carries(q, i, s, m)' <=>
               Carries(q, i, s, m) \/ (q = -1 /\ i = l /\ s = nextSeq /\ m = n)
  <2>1. CASE q = -1
    <3>1. i \in 1..(Len(work) + 1) <=> i \in 1..Len(work) \/ i = l
      BY <1>1, <1>3
    <3>2. <<nextSeq, n>> = <<s, m>> <=> s = nextSeq /\ m = n
      OBVIOUS
    <3>3. l \notin 1..Len(work)
      BY <1>1, <1>3
    <3> QED
      BY <1>1, <1>2, <1>3, <2>1, <3>1, <3>2, <3>3 DEF Carries
  <2>2. CASE q # -1
    BY <2>2 DEF Carries
  <2> QED
    BY <2>1, <2>2
<1>5. \A s, m : Carried(s, m)' <=> Carried(s, m) \/ (s = nextSeq /\ m = n)
  BY <1>4 DEF Carried
<1>6. \A m : ~Carried(nextSeq, m)
  BY <1>0 DEF NumbersInRange
<1>7. OnePlaceEach'
  BY <1>4, <1>6 DEF OnePlaceEach, Carried
<1> QED
  BY <1>5, <1>7

LEMMA PlacesKeptApart == ASSUME OnePlaceEach, PlacesKept PROVE OnePlaceEach'
BY DEF OnePlaceEach, PlacesKept, CameFrom

-----------------------------------------------------------------------------
(* What the walk emits                                                       *)

(* Inline, the entry is evaluated at once. *)
Performs(n) ==
  /\ Inline /\ Walking /\ n = Top.node /\ n \in Node /\ IsEvaluatedAt(n)
  /\ commits' = Append(commits, n) /\ work' = work /\ nextSeq' = nextSeq
  /\ \/ main' \in {"walk", "emitted"} /\ quit' = quit
     \/ n \in MayQuit /\ main' = "flush" /\ quit' = TRUE
     \/ n \in MayFail /\ main' = "failed" /\ quit' = quit

Skips == NoEmit /\ main' \in {"walk", "emitted"}

LEMMA EmitMeans ==
  ASSUME Walking, Top.node \in Node, NEW then \in {"walk", "emitted"}, EmitEntry(Top.node, then)
  PROVE  \/ Skips /\ ~IsEvaluatedAt(Top.node) /\ main' = then
         \/ Hands(Top.node) /\ main' = then
         \/ Performs(Top.node) /\ main' \in {then, "flush", "failed"}
<1> QED
  BY DEF EmitEntry, EvaluateInline, SendToEvaluators, Skips, Hands, Performs, NoEmit

(* Only the first frame's node is emitted, in its turn, and only an entry. *)
LEMMA WalkEmits ==
  ASSUME TypeOK, StageKnown, FramesFit, WalkStep
  PROVE  \/ Skips
         \/ /\ Hands(Top.node) \/ Performs(Top.node)
            /\ Top.node \in Entries /\ main = "walk" /\ Owes(1, Top.node)
<1>0. /\ Walking /\ stack # <<>> /\ Top.node \in Node /\ stack \in Seq(Frame)
  BY WalkMoves DEF TypeOK
<1>1. Top = stack[1] /\ 1 \in 1..Len(stack)
  BY <1>0, TopIsFrame
<1>2. Reached[Top.node]
  BY <1>1 DEF FramesFit
<1>3. CASE PopComplete
  <2>1. EmitEntry(Top.node, "walk") /\ Top.complete /\ main = "walk"
    BY <1>3 DEF PopComplete
  <2>2. ASSUME IsEvaluatedAt(Top.node) PROVE Top.node \in Entries /\ Owes(1, Top.node)
    <3>1. PostOrder /\ ~Fails(Top.node) /\ DescendDecision(Top.node) # "error"
      BY <1>1, <2>1 DEF FramesFit
    <3>2. Top.node \in Entries
      BY <1>0, <1>2, <2>2, <3>1 DEF Entries, PostOrderEntries, PreOrderEntries, Fails
    <3> QED
      BY <1>1, <2>1, <3>2 DEF Owes
  <2> QED
    BY <1>0, <2>1, <2>2, EmitMeans DEF Hands, Performs
<1>4. CASE VisitEntry
  <2>1. /\ ~Top.complete /\ ~Fails(Top.node) /\ main = "walk"
        /\ IF EmittedFirst(Top.node) THEN EmitEntry(Top.node, "emitted")
           ELSE main' = "emitted" /\ NoEmit
    BY <1>4 DEF VisitEntry
  <2>2. ASSUME IsEvaluatedAt(Top.node), EmittedFirst(Top.node)
        PROVE  Top.node \in Entries /\ Owes(1, Top.node)
    <3>1. Top.node \in Entries
      BY <1>0, <1>2, <2>1, <2>2 DEF Entries, PostOrderEntries, PreOrderEntries, Fails, EmittedFirst
    <3>2. Top.node \in WayTo(Top.node)
      BY DEF WayTo
    <3> QED
      BY <1>1, <2>1, <3>1, <3>2 DEF Owes
  <2>3. CASE EmittedFirst(Top.node)
    BY <1>0, <2>1, <2>2, <2>3, EmitMeans DEF Hands, Performs
  <2>4. CASE ~EmittedFirst(Top.node)
    BY <2>1, <2>4 DEF Skips
  <2> QED
    BY <2>3, <2>4
<1>5. CASE ~PopComplete /\ ~VisitEntry
  BY <1>5 DEF WalkStep, Skips, PopFailing, DoNotDescend, RefuseLoop, ReadFails, Descend, LeaveEntry,
              Descending
<1> QED
  BY <1>3, <1>4, <1>5

-----------------------------------------------------------------------------
(* The steps                                                                 *)

(* The steps of the main thread that end or follow the walk. *)
AfterWalk ==
  EndWalk \/ Collect \/ CommitNext \/ NothingNext \/ EndDrain \/ Finish \/ DropChannels \/ JoinAndFail

LEMMA NextIs ==
  ASSUME [Next]_vars
  PROVE  \/ WalkStep \/ AfterWalk
         \/ \E e \in Evaluator : Receive(e) \/ Deliver(e) \/ Leave(e)
         \/ UNCHANGED vars
BY DEF Next, MainStep, WalkStep, AfterWalk, EvaluatorStep

(* What each step does to the numbers on their way. *)
CarriedStill == \A s, n : Carried(s, n)' <=> Carried(s, n)

Numbers == NumbersInRange /\ OnePlaceEach /\ NoneLost

LEMMA LeaveMoves ==
  ASSUME TypeOK, StageKnown, NEW e \in Evaluator, Leave(e)
  PROVE  /\ PlacesKept /\ \A s, n : Carried(s, n)' => Carried(s, n)
         /\ ~Failing => CarriedStill /\ evaluator[e] = Idle /\ work = <<>> /\ ~workOpen
<1>0. /\ evaluator \in [Evaluator -> Item \cup {Idle, Gone}]
      /\ evaluator' = [evaluator EXCEPT ![e] = Gone]
      /\ UNCHANGED <<work, ready, buffered>>
      /\ \/ evaluator[e] = Idle /\ work = <<>> /\ ~workOpen
         \/ e \in Holding /\ ~readyOpen
  BY DEF TypeOK, Leave, queueVars
<1>1. \A s, n : <<s, n>> # Gone /\ <<s, n>> # Idle
  <2> SUFFICES ASSUME NEW s, NEW n PROVE <<s, n>> # Gone /\ <<s, n>> # Idle
    OBVIOUS
  <2>1. Len(<<s, n>>) = 2 /\ Len(Gone) = 1 /\ Len(Idle) = 1
    BY DEF Gone, Idle
  <2> QED
    BY <2>1
<1>2. \A u \in Evaluator : u # -1 /\ u # -2 /\ u # -3
  BY OrderedAssumption DEF Evaluator
<1>3. ASSUME NEW q, NEW i, NEW s, NEW n, Carries(q, i, s, n)'
      PROVE  Carries(q, i, s, n)
  BY <1>0, <1>1, <1>2, <1>3 DEF Carries
<1>4. ASSUME ~Failing PROVE CarriedStill /\ evaluator[e] = Idle /\ work = <<>> /\ ~workOpen
  <2>1. evaluator[e] = Idle /\ work = <<>> /\ ~workOpen
    BY <1>0, <1>4 DEF StageKnown
  <2>2. ASSUME NEW q, NEW i, NEW s, NEW n, Carries(q, i, s, n) PROVE Carries(q, i, s, n)'
    BY <1>0, <1>1, <2>1, <2>2 DEF Carries
  <2> QED
    BY <1>3, <2>1, <2>2 DEF CarriedStill, Carried
<1> QED
  BY <1>3, <1>4, FewerPlaces

LEMMA DropMoves ==
  ASSUME DropChannels
  PROVE  PlacesKept /\ \A s, n : Carried(s, n)' => Carried(s, n)
<1>1. ready' = <<>> /\ Len(ready') = 0 /\ UNCHANGED <<work, evaluator, buffered>>
  BY DEF DropChannels, queueVars
<1>2. \A q, i, s, n : Carries(q, i, s, n)' => Carries(q, i, s, n)
  BY <1>1 DEF Carries
<1> QED
  BY <1>2, FewerPlaces

(* The number that is committed is carried no more. *)
LEMMA CommitMoves ==
  ASSUME TypeOK, NumbersInRange, OnePlaceEach, CommitNext
  PROVE  /\ PlacesKept /\ Carried(nextReady, commits'[Len(commits) + 1])
         /\ nextReady' = nextReady + 1 /\ UNCHANGED <<nextSeq, stack, readyOpen, workOpen, quit>>
         /\ main = "commit" /\ commits' = Append(commits, commits'[Len(commits) + 1])
         /\ \/ main' = "commit"
            \/ main' = "failed" /\ commits'[Len(commits) + 1] \in MayFail
         /\ \A s, n : Carried(s, n)' <=> Carried(s, n) /\ s # nextReady
<1>1. PICK item \in buffered :
        /\ main = "commit"
        /\ item[1] = nextReady /\ buffered' = buffered \ {item} /\ nextReady' = nextReady + 1
        /\ commits' = Append(commits, item[2])
        /\ main' = main \/ (main' = "failed" /\ item[2] \in MayFail)
  BY DEF CommitNext
<1>2. UNCHANGED <<stack, errors, quit, work, workOpen, nextSeq, evaluator, ready, readyOpen>>
  BY DEF CommitNext, walkVars, pipeVars
<1>3. commits'[Len(commits) + 1] = item[2]
  <2>1. commits \in Seq(Node) /\ item[2] \in Node
    BY DEF TypeOK, Result
  <2> QED
    BY <1>1, <2>1, AppendProperties
<1>4. Carries(-3, item, nextReady, item[2])
  BY <1>1 DEF Carries
<1>5. \A u \in Evaluator : u # -3
  BY OrderedAssumption DEF Evaluator
<1>6. ASSUME NEW q, NEW i, NEW s, NEW n
      PROVE  Carries(q, i, s, n)' <=> Carries(q, i, s, n) /\ ~(q = -3 /\ i = item)
  <2>1. CASE q = -3
    <3>1. i \in buffered' <=> i \in buffered /\ i # item
      BY <1>1
    <3> QED
      BY <1>5, <2>1, <3>1 DEF Carries
  <2>2. CASE q # -3
    BY <1>2, <2>2 DEF Carries
  <2> QED
    BY <2>1, <2>2
<1>7. \A s, n : Carries(-3, item, s, n) => s = nextReady
  BY <1>1, <1>5 DEF Carries
<1>8. \A q, i, n : Carries(q, i, nextReady, n) => q = -3 /\ i = item
  BY <1>4 DEF OnePlaceEach
<1>9. \A s, n : Carried(s, n)' <=> Carried(s, n) /\ s # nextReady
  BY <1>6, <1>7, <1>8 DEF Carried
<1>10. PlacesKept
  BY <1>6, FewerPlaces
<1> QED
  BY <1>1, <1>2, <1>3, <1>4, <1>9, <1>10 DEF Carried

(* Every step, but for sending, committing and failing, keeps all numbers.   *)
LEMMA NumberSteps ==
  ASSUME TypeOK, StageKnown, NumbersInRange, OnePlaceEach, FramesFit, [Next]_vars
  PROVE  /\ OnePlaceEach'
         /\ \/ /\ CarriedStill /\ UNCHANGED <<nextReady, nextSeq>>
            \/ /\ WalkStep /\ Hands(Top.node) /\ Top.node \in Entries /\ nextReady' = nextReady
               /\ \A s, n : Carried(s, n)' <=> Carried(s, n) \/ (s = nextSeq /\ n = Top.node)
            \/ /\ CommitNext
               /\ \A s, n : Carried(s, n)' <=> Carried(s, n) /\ s # nextReady
            \/ /\ Failing /\ Failing' /\ UNCHANGED <<nextReady, nextSeq>>
               /\ \A s, n : Carried(s, n)' => Carried(s, n)
<1>1. CASE UNCHANGED vars
  <2>1. UNCHANGED <<work, evaluator, ready, buffered, nextReady, nextSeq>>
    BY <1>1 DEF vars
  <2> QED
    BY <2>1, SamePlaces, PlacesKeptApart DEF CarriedStill
<1>2. CASE WalkStep
  <2>1. UNCHANGED <<evaluator, ready, buffered, nextReady>>
    BY <1>2, WalkMoves DEF queueVars
  <2>2. CASE Hands(Top.node) /\ Top.node \in Entries
    <3>1. Top.node \in Node /\ work' = Append(work, <<nextSeq, Top.node>>)
      BY <2>2 DEF Hands
    <3>2. PICK n \in Node : n = Top.node
      BY <3>1
    <3> QED
      BY <1>2, <2>1, <2>2, <3>1, <3>2, SendMoves
  <2>3. CASE Skips \/ Performs(Top.node)
    <3>1. work' = work /\ nextSeq' = nextSeq
      BY <2>3 DEF Skips, NoEmit, Performs
    <3> QED
      BY <2>1, <3>1, SamePlaces, PlacesKeptApart DEF CarriedStill
  <2> QED
    BY <1>2, <2>2, <2>3, WalkEmits
<1>3. ASSUME NEW e \in Evaluator, Receive(e) \/ Deliver(e)
      PROVE  OnePlaceEach' /\ CarriedStill /\ UNCHANGED <<nextReady, nextSeq>>
  <2>1. UNCHANGED <<nextReady, nextSeq>>
    BY <1>3 DEF Receive, Deliver, queueVars
  <2> QED
    BY <1>3, <2>1, ReceiveMoves, DeliverMoves, PlacesKeptApart DEF CarriedStill
<1>4. ASSUME NEW e \in Evaluator, Leave(e)
      PROVE  /\ OnePlaceEach' /\ UNCHANGED <<nextReady, nextSeq>>
             /\ \/ CarriedStill
                \/ /\ Failing /\ Failing'
                   /\ \A s, n : Carried(s, n)' => Carried(s, n)
  <2>1. UNCHANGED <<nextReady, nextSeq, main>>
    BY <1>4 DEF Leave, queueVars
  <2> QED
    BY <1>4, <2>1, LeaveMoves, PlacesKeptApart DEF Failing
<1>5. CASE Collect
  BY <1>5, CollectMoves, PlacesKeptApart DEF CarriedStill, Collect
<1>6. CASE CommitNext
  BY <1>6, CommitMoves, PlacesKeptApart
<1>7. CASE DropChannels
  <2>1. Failing /\ Failing' /\ UNCHANGED <<nextReady, nextSeq>>
    BY <1>7 DEF DropChannels, Failing, queueVars
  <2> QED
    BY <1>7, <2>1, DropMoves, PlacesKeptApart
<1>8. CASE EndWalk \/ NothingNext \/ EndDrain \/ Finish \/ JoinAndFail
  <2>1. UNCHANGED <<work, evaluator, ready, buffered, nextReady, nextSeq>>
    BY <1>8 DEF EndWalk, NothingNext, EndDrain, Finish, JoinAndFail, pipeVars, queueVars
  <2> QED
    BY <2>1, SamePlaces, PlacesKeptApart DEF CarriedStill
<1> QED
  BY <1>1, <1>2, <1>3, <1>4, <1>5, <1>6, <1>7, <1>8, NextIs DEF AfterWalk

LEMMA NumbersStep ==
  ASSUME TypeOK, StageKnown, NumbersInRange, OnePlaceEach, NoneLost, FramesFit, [Next]_vars
  PROVE  NumbersInRange' /\ NoneLost'
<1>0. /\ nextSeq \in Nat /\ nextReady \in 0..nextSeq
      /\ Failing => Failing'
  <2>1. Failing => Failing'
    <3>1. CASE UNCHANGED vars
      BY ZenonT(120), <3>1 DEF vars, Failing
    <3>2. CASE Next
      BY <3>2 DEF Next, MainStep, EvaluatorStep, Failing, PopComplete, PopFailing, VisitEntry, DoNotDescend,
         RefuseLoop, ReadFails, Descend, Descending, EndWalk, Collect, CommitNext, NothingNext,
         EndDrain, Finish, DropChannels, JoinAndFail, Receive, Deliver, Leave, vars
    <3> QED
      BY <3>1, <3>2
  <2> QED
    BY <2>1 DEF TypeOK
<1>1. CASE CarriedStill /\ UNCHANGED <<nextReady, nextSeq>>
  <2>1. NumbersInRange'
    BY <1>1 DEF NumbersInRange, CarriedStill
  <2>2. NoneLost'
    BY <1>0, <1>1 DEF NoneLost, CarriedStill
  <2> QED
    BY <2>1, <2>2
<1>2. CASE /\ Hands(Top.node) /\ Top.node \in Entries /\ nextReady' = nextReady
           /\ \A s, n : Carried(s, n)' <=> Carried(s, n) \/ (s = nextSeq /\ n = Top.node)
  <2>1. nextSeq' = nextSeq + 1
    BY <1>2 DEF Hands
  <2>2. NumbersInRange'
    BY <1>0, <1>2, <2>1 DEF NumbersInRange
  <2>3. ASSUME ~Failing', ~Inline, NEW s \in nextReady..nextSeq PROVE \E n : Carried(s, n)'
    <3>1. CASE s = nextSeq
      BY <1>2, <3>1
    <3>2. CASE s # nextSeq
      <4>1. s \in nextReady..(nextSeq - 1)
        BY <1>0, <3>2
      <4> QED
        BY <1>0, <1>2, <2>3, <4>1 DEF NoneLost
    <3> QED
      BY <3>1, <3>2
  <2>4. NoneLost'
    BY <1>0, <1>2, <2>1, <2>3 DEF NoneLost
  <2> QED
    BY <2>2, <2>4
<1>3. CASE /\ CommitNext
           /\ \A s, n : Carried(s, n)' <=> Carried(s, n) /\ s # nextReady
  <2>1. nextReady' = nextReady + 1 /\ nextSeq' = nextSeq
    BY <1>3, CommitMoves
  <2>2. NumbersInRange'
    BY <1>0, <1>3, <2>1 DEF NumbersInRange
  <2>3. NoneLost'
    <3> SUFFICES ASSUME ~Failing', ~Inline, NEW s \in (nextReady + 1)..(nextSeq - 1)
                 PROVE  \E n : Carried(s, n)'
      BY <2>1 DEF NoneLost
    <3>1. s \in nextReady..(nextSeq - 1) /\ s # nextReady
      BY <1>0
    <3> QED
      BY <1>0, <1>3, <3>1 DEF NoneLost
  <2> QED
    BY <2>2, <2>3
<1>4. CASE /\ Failing' /\ UNCHANGED <<nextReady, nextSeq>>
           /\ \A s, n : Carried(s, n)' => Carried(s, n)
  BY <1>4 DEF NumbersInRange, NoneLost
<1> QED
  BY <1>1, <1>2, <1>3, <1>4, NumberSteps

LEMMA StageStep ==
  ASSUME TypeOK, StageKnown, NumbersInRange, OnePlaceEach, NoneLost, FramesFit, [Next]_vars
  PROVE  StageKnown'
<1>0. /\ nextSeq \in Nat /\ nextReady \in 0..nextSeq /\ stack \in Seq(Frame)
      /\ evaluator \in [Evaluator -> Item \cup {Idle, Gone}]
      /\ work \in Seq(Item) /\ ready \in Seq(Result) /\ commits \in Seq(Node)
      /\ quit \in BOOLEAN /\ Inline \in BOOLEAN
      /\ main \in {"walk", "emitted", "flush", "drain", "commit", "failed", "unwind", "done", "error"}
  BY OrderedAssumption DEF TypeOK
<1> USE DEF StageKnown, Walking, Failing
<1>1. CASE UNCHANGED vars
  <2>1. CarriedStill
    BY <1>1, SamePlaces DEF vars, CarriedStill
  <2> QED
    BY <1>1, <2>1 DEF vars, CarriedStill, Top
<1>2. CASE WalkStep
  <2>1. /\ Walking /\ UNCHANGED <<workOpen, evaluator, ready, readyOpen, buffered, nextReady>>
    BY <1>2, WalkMoves DEF queueVars
  <2>2. main' = "emitted" => stack' # <<>> /\ ~Top'.complete /\ ~Fails(Top'.node)
    <3>1. CASE VisitEntry
      BY <3>1 DEF VisitEntry, Top
    <3>2. CASE ~VisitEntry
      <4>1. main' # "emitted"
        <5>1. ASSUME EmitEntry(Top.node, "walk") PROVE main' # "emitted"
          BY <1>2, <2>1, <5>1, EmitMeans, WalkMoves
        <5> QED
          BY <1>2, <3>2, <5>1, WalkMoves
      <4> QED
        BY <4>1
    <3> QED
      BY <3>1, <3>2
  <2>3. CASE Skips
    <3>1. CarriedStill /\ UNCHANGED <<work, commits, quit>>
      BY <2>1, <2>3, SamePlaces DEF Skips, NoEmit, CarriedStill
    <3> QED
      BY <2>1, <2>2, <2>3, <3>1 DEF CarriedStill, Skips
  <2>4. CASE Hands(Top.node)
    BY <2>1, <2>2, <2>4 DEF Hands
  <2>5. CASE Performs(Top.node)
    <3>1. CarriedStill
      BY <2>1, <2>5, SamePlaces DEF Performs, CarriedStill
    <3> QED
      BY <2>1, <2>2, <2>5, <3>1 DEF Performs, CarriedStill
  <2> QED
    BY <1>2, <2>3, <2>4, <2>5, WalkEmits
<1>3. ASSUME NEW e \in Evaluator, Receive(e) PROVE StageKnown'
  <2>1. CarriedStill /\ UNCHANGED <<main, stack, quit, commits, readyOpen, workOpen, buffered, nextReady>>
    BY <1>3, ReceiveMoves DEF CarriedStill, Receive, walkVars, queueVars
  <2>2. work # <<>> /\ evaluator[e] = Idle /\ Head(work) \in Item
        /\ evaluator' = [evaluator EXCEPT ![e] = Head(work)]
    BY <1>0, <1>3, HeadTailProperties DEF Receive
  <2>3. \A u \in Evaluator : evaluator'[u] = Gone => evaluator[u] = Gone
    BY <1>0, <2>2, ItemsAreNumbered
  <2>4. ~Inline
    <3>1. Carries(-1, 1, Head(work)[1], Head(work)[2])
      <4>1. 1 \in 1..Len(work) /\ work[1] = Head(work)
        BY <1>0, <2>2, LenProperties, EmptySeq, HeadTailProperties
      <4> QED
        BY <2>2, <4>1, ItemsAreNumbered DEF Carries
    <3> QED
      BY <3>1 DEF Carried
  <2> QED
    BY <2>1, <2>2, <2>3, <2>4 DEF CarriedStill, Top
<1>4. ASSUME NEW e \in Evaluator, Deliver(e) PROVE StageKnown'
  <2>1. CarriedStill /\ UNCHANGED <<main, stack, quit, commits, readyOpen, work, workOpen, buffered, nextReady>>
    BY <1>4, DeliverMoves DEF CarriedStill, Deliver, walkVars, queueVars
  <2>2. evaluator' = [evaluator EXCEPT ![e] = Idle]
    BY <1>4 DEF Deliver
  <2>3. \A u \in Evaluator : evaluator'[u] = Gone => evaluator[u] = Gone
    <3>1. Idle # Gone
      BY DEF Idle, Gone
    <3> QED
      BY <1>0, <2>2, <3>1
  <2> QED
    BY <2>1, <2>3 DEF CarriedStill, Top
<1>5. ASSUME NEW e \in Evaluator, Leave(e) PROVE StageKnown'
  <2>1. UNCHANGED <<main, stack, quit, commits, readyOpen, work, workOpen, buffered, nextReady>>
    BY <1>5 DEF Leave, walkVars, queueVars
  <2>2. /\ \A s, n : Carried(s, n)' => Carried(s, n)
        /\ ~Failing => work = <<>> /\ ~workOpen
    BY <1>5, LeaveMoves
  <2>3. readyOpen => work = <<>> /\ ~workOpen
    BY <1>5 DEF Leave, Holding
  <2> QED
    BY <2>1, <2>2, <2>3 DEF Top
<1>6. CASE EndWalk
  <2>1. /\ main = "walk" /\ stack = <<>> /\ workOpen' = FALSE
        /\ main' = IF Inline THEN "flush" ELSE "drain"
        /\ UNCHANGED <<stack, quit, work, evaluator, ready, readyOpen, buffered, nextReady, commits>>
    BY <1>6 DEF EndWalk, walkVars, queueVars
  <2>2. CarriedStill
    BY <2>1, SamePlaces DEF CarriedStill
  <2> QED
    BY <1>0, <2>1, <2>2 DEF CarriedStill
<1>7. CASE Collect
  <2>1. /\ main = "drain" /\ main' = "commit"
        /\ UNCHANGED <<stack, quit, work, workOpen, evaluator, readyOpen, nextReady, commits>>
    BY <1>7 DEF Collect, walkVars
  <2>2. CarriedStill
    BY <1>7, CollectMoves DEF CarriedStill
  <2> QED
    BY <2>1, <2>2 DEF CarriedStill
<1>8. CASE CommitNext
  <2>1. /\ main = "commit" /\ main' \in {"commit", "failed"} /\ nextReady' = nextReady + 1
        /\ Len(commits') = Len(commits) + 1
        /\ UNCHANGED <<stack, quit, work, workOpen, evaluator, readyOpen>>
    <3>1. commits'[Len(commits) + 1] \in Node
      BY <1>8, CommitMoves DEF NumbersInRange, Entries, PostOrderEntries, PreOrderEntries
    <3> QED
      BY <1>0, <1>8, <3>1, CommitMoves, AppendProperties DEF CommitNext, walkVars, pipeVars
  <2> QED
    BY <1>0, <2>1
<1>9. CASE NothingNext
  <2>1. /\ main = "commit" /\ main' = "drain"
        /\ \A item \in buffered : item[1] # nextReady
        /\ UNCHANGED <<stack, quit, work, workOpen, evaluator, ready, readyOpen, buffered, nextReady, commits>>
    BY <1>9 DEF NothingNext, walkVars, pipeVars, queueVars
  <2> QED
    BY <2>1
<1>10. CASE EndDrain
  <2>1. /\ main = "drain" /\ main' = "flush" /\ ready = <<>> /\ AllGone
        /\ UNCHANGED <<stack, quit, work, workOpen, evaluator, ready, readyOpen, buffered, nextReady, commits>>
    BY <1>10 DEF EndDrain, walkVars, pipeVars, queueVars
  <2>2. ~Inline
    BY <2>1
  <2>3. 1 \in Evaluator /\ \A u \in Evaluator : u # -1 /\ u # -2 /\ u # -3
    BY OrderedAssumption DEF Evaluator
  <2>4. work = <<>>
    BY <2>1, <2>2, <2>3 DEF AllGone
  <2>5. ASSUME NEW q, NEW i, NEW s, NEW n, Carries(q, i, s, n) PROVE i \in buffered /\ i[1] = s
    <3>1. Len(work) = 0 /\ Len(ready) = 0
      BY <2>1, <2>4
    <3>2. \A u \in Evaluator : evaluator[u] # <<s, n>>
      <4>1. <<s, n>> # Gone
        <5>1. Len(<<s, n>>) = 2 /\ Len(Gone) = 1
          BY DEF Gone
        <5> QED
          BY <5>1
      <4>2. \A u \in Evaluator : evaluator[u] = Gone
        BY <2>1 DEF AllGone
      <4> QED
        BY <4>1, <4>2
    <3> QED
      BY <2>3, <2>5, <3>1, <3>2 DEF Carries
  <2>6. nextReady = nextSeq
    <3> SUFFICES ASSUME nextReady # nextSeq PROVE FALSE
      OBVIOUS
    <3>1. nextReady \in nextReady..(nextSeq - 1)
      BY <1>0
    <3>2. PICK n : Carried(nextReady, n)
      BY <2>1, <2>2, <3>1 DEF NoneLost
    <3> QED
      BY <2>1, <2>2, <2>5, <3>2 DEF Carried
  <2>7. \A s, n : ~Carried(s, n)
    BY <1>0, <2>6 DEF NumbersInRange
  <2>8. CarriedStill
    BY <2>1, SamePlaces DEF CarriedStill
  <2> QED
    BY <2>1, <2>2, <2>7, <2>8 DEF CarriedStill
<1>11. CASE Finish \/ JoinAndFail
  <2>1. /\ (main = "flush" /\ main' = "done") \/ (main = "unwind" /\ main' = "error")
        /\ UNCHANGED <<stack, quit, work, workOpen, evaluator, ready, readyOpen, buffered, nextReady, commits>>
    BY <1>11 DEF Finish, JoinAndFail, walkVars, pipeVars, queueVars
  <2>2. CarriedStill
    BY <2>1, SamePlaces DEF CarriedStill
  <2> QED
    BY <2>1, <2>2 DEF CarriedStill
<1>12. CASE DropChannels
  <2>1. /\ main = "failed" /\ main' = "unwind" /\ readyOpen' = FALSE
        /\ UNCHANGED <<stack, quit, work, evaluator, buffered, nextReady, commits>>
    BY <1>12 DEF DropChannels, walkVars, queueVars
  <2>2. \A s, n : Carried(s, n)' => Carried(s, n)
    BY <1>12, DropMoves
  <2> QED
    BY <2>1, <2>2
<1> QED
  BY <1>1, <1>2, <1>3, <1>4, <1>5, <1>6, <1>7, <1>8, <1>9, <1>10, <1>11, <1>12, NextIs DEF AfterWalk

-----------------------------------------------------------------------------
(* The stack                                                                 *)

(* What a frame that was not yet emitted leads to. *)
Owed(f, m) == IF f.complete THEN m = f.node ELSE f.node \in WayTo(m)

FrameFits(f) ==
  /\ Reached[f.node]
  /\ f.complete => PostOrder /\ ~Fails(f.node) /\ DescendDecision(f.node) # "error"

(* What the frames must be like that take the place of the first one. *)
MayReplace(new) ==
  /\ new \in Seq(Frame)
  /\ \A i \in 1..Len(new) : FrameFits(new[i]) /\ \A m \in Node : Owed(new[i], m) => Owes(1, m)
  /\ \A i, k \in 1..Len(new) : \A m, n \in Node :
       i < k /\ Owed(new[i], m) /\ Owed(new[k], n) => Precedes(m, n)
  /\ \A m \in Entries :
       Owes(1, m) => \/ \E i \in 1..Len(new) : Owed(new[i], m)
                     \/ PopComplete /\ m = Top.node
  /\ \A m \in FaultyNodes :
       Under(1, m) => \/ \E i \in 1..Len(new) : ~new[i].complete /\ new[i].node \in WayTo(m)
                      \/ m \in errors'
  /\ errors' \subseteq errors \cup FaultyNodes \cup {n \in Unreadable : Reached[n] /\ Opens(n)}

(* Below a node that does not open nothing is reached. *)
LEMMA NothingBelowClosed ==
  ASSUME NEW n \in Node, NEW m \in Node, Reached[m], n \in WayTo(m), ~Opens(n) \/ Items[n] = <<>>
  PROVE  m = n
<1> SUFFICES ASSUME n \in Ancestors[m] PROVE FALSE
  BY DEF WayTo
<1>1. Opens(n)
  BY ReachedThrough
<1>2. PICK c \in Children(n) : c \in Ancestors[m] \cup {m}
  BY WayDown
<1>3. Children(n) = {} \/ Items[n] # <<>>
  BY DEF Children, RangeOf
<1> QED
  BY <1>1, <1>2, <1>3

LEMMA OwnFrames ==
  ASSUME TypeOK, StageKnown, FramesFit, WalkStep, main = "emitted",
         DescendDecision(Top.node) # "error",
         ~Opens(Top.node) \/ Items[Top.node] = <<>>,
         errors' \subseteq errors \cup FaultyNodes \cup {n \in Unreadable : Reached[n] /\ Opens(n)},
         Top.node \in FaultyNodes => Top.node \in errors'
  PROVE  MayReplace(OwnIfDirectory(Top.node))
<1> DEFINE n == Top.node  new == OwnIfDirectory(n)
<1>1. /\ n \in Node /\ stack # <<>> /\ Top = stack[1] /\ 1 \in 1..Len(stack)
      /\ ~Top.complete /\ ~Fails(n) /\ Reached[n]
  BY WalkMoves, TopIsFrame DEF TypeOK, StageKnown, FramesFit
<1>2. new \in Seq(Frame)
  BY <1>1, FramesAreFrames
<1>3. \A m : Owes(1, m) <=> IF EmittedFirst(n) THEN n \in Ancestors[m] ELSE n \in WayTo(m)
  BY <1>1 DEF Owes
<1>4. CASE PostOrder /\ n \in Dir
  <2>1. new = <<Complete(n)>> /\ Len(new) = 1 /\ new[1] = Complete(n)
    BY <1>4 DEF OwnIfDirectory
  <2>2. FrameFits(Complete(n)) /\ \A m : Owed(Complete(n), m) <=> m = n
    BY <1>1, <1>4 DEF FrameFits, Complete, Owed
  <2>3. Owes(1, n)
    BY <1>3, <1>4 DEF EmittedFirst, WayTo
  <2>4. ASSUME NEW m \in Entries, Owes(1, m) PROVE m = n
    <3>1. m \in Node /\ Reached[m]
      BY DEF Entries, PostOrderEntries, PreOrderEntries
    <3>2. n \in WayTo(m)
      BY <1>3, <2>4 DEF WayTo
    <3> QED
      BY <1>1, <3>1, <3>2, NothingBelowClosed
  <2>5. ASSUME NEW m \in FaultyNodes, Under(1, m) PROVE m \in errors'
    <3>1. m \in Node /\ Reached[m] /\ n \in WayTo(m)
      BY <1>1, <2>5 DEF FaultyNodes, Under
    <3>2. m = n
      BY <1>1, <3>1, NothingBelowClosed
    <3> QED
      BY <2>5, <3>2
  <2>6. \A i \in 1..Len(new) : i = 1
    BY <2>1
  <2> HIDE DEF new, n
  <2>7. MayReplace(new)
    BY <1>2, <2>1, <2>2, <2>3, <2>4, <2>5, <2>6 DEF MayReplace
  <2> QED
    BY <2>7 DEF new, n
<1>5. CASE ~(PostOrder /\ n \in Dir)
  <2>1. new = <<>> /\ Len(new) = 0
    BY <1>5 DEF OwnIfDirectory
  <2>2. EmittedFirst(n)
    BY <1>5 DEF EmittedFirst
  <2>3. ASSUME NEW m \in Entries, Owes(1, m) PROVE FALSE
    <3>1. m \in Node /\ Reached[m]
      BY DEF Entries, PostOrderEntries, PreOrderEntries
    <3>2. n \in Ancestors[m]
      BY <1>3, <2>2, <2>3
    <3>3. m = n
      BY <1>1, <3>1, <3>2, NothingBelowClosed DEF WayTo
    <3> QED
      BY <3>1, <3>2, <3>3, NoLoops
  <2>4. ASSUME NEW m \in FaultyNodes, Under(1, m) PROVE m \in errors'
    <3>1. m \in Node /\ Reached[m] /\ n \in WayTo(m)
      BY <1>1, <2>4 DEF FaultyNodes, Under
    <3>2. m = n
      BY <1>1, <3>1, NothingBelowClosed
    <3> QED
      BY <2>4, <3>2
  <2>5. 1..Len(new) = {}
    BY <2>1
  <2> HIDE DEF new, n
  <2>6. MayReplace(new)
    BY <1>2, <2>3, <2>4, <2>5 DEF MayReplace
  <2> QED
    BY <2>6 DEF new, n
<1> QED
  BY <1>4, <1>5

LEMMA DescendFrames ==
  ASSUME TypeOK, StageKnown, FramesFit, Descend
  PROVE  MayReplace(Kids(Top.node) \o Own(Top.node))
<1> DEFINE n == Top.node  g == GoodItems(n)  new == Kids(n) \o Own(n)
<1>0. WalkStep
  BY DEF WalkStep
<1>1. /\ n \in Node /\ stack # <<>> /\ Top = stack[1] /\ 1 \in 1..Len(stack)
      /\ ~Top.complete /\ ~Fails(n) /\ Reached[n] /\ main = "emitted"
      /\ DescendDecision(n) = "yes" /\ errors' = errors \cup Reports(n)
  BY <1>0, WalkMoves, TopIsFrame DEF TypeOK, StageKnown, FramesFit, Descend, Descending
<1>2. Opens(n) /\ n \in Dir
  BY <1>1 DEF Opens, Fails, DescendDecision
<1>3. \A m : Owes(1, m) <=> IF EmittedFirst(n) THEN n \in Ancestors[m] ELSE n \in WayTo(m)
  BY <1>1 DEF Owes
<1> HIDE DEF n
<1>4. /\ g \in Seq(Node) /\ Len(g) \in Nat
      /\ \A i \in 1..Len(g) : g[i] \in Children(n)
      /\ \A c \in Children(n) : \E i \in 1..Len(g) : g[i] = c
      /\ \A i, k \in 1..Len(g) : i < k => ListedBefore(Items[n], g[i], g[k])
  BY <1>1, GoodItemsAre, LenProperties
<1> HIDE DEF g
<1>5. /\ new \in Seq(Frame) /\ Kids(n) \in Seq(Frame) /\ Own(n) \in Seq(Frame)
      /\ Len(Kids(n)) = Len(g) /\ \A i \in 1..Len(g) : Kids(n)[i] = Visit(g[i])
  BY <1>1, <1>4, FramesAreFrames DEF Kids, g
<1>6. /\ PostOrder => Len(Own(n)) = 1 /\ Own(n)[1] = Complete(n)
      /\ ~PostOrder => Len(Own(n)) = 0
  BY DEF Own
<1>7. /\ Len(new) = Len(g) + Len(Own(n))
      /\ \A i \in 1..Len(g) : i \in 1..Len(new) /\ new[i] = Visit(g[i])
      /\ PostOrder => new[Len(g) + 1] = Complete(n) /\ Len(g) + 1 \in 1..Len(new)
      /\ \A i \in 1..Len(new) : i \in 1..Len(g) \/ (PostOrder /\ i = Len(g) + 1)
  <2>1. /\ Len(new) = Len(g) + Len(Own(n))
        /\ \A i \in 1..(Len(g) + Len(Own(n))) :
             new[i] = IF i <= Len(g) THEN Kids(n)[i] ELSE Own(n)[i - Len(g)]
    <3>1. /\ Len(new) = Len(Kids(n)) + Len(Own(n))
          /\ \A i \in 1..(Len(Kids(n)) + Len(Own(n))) :
               new[i] = IF i <= Len(Kids(n)) THEN Kids(n)[i] ELSE Own(n)[i - Len(Kids(n))]
      BY <1>5, ConcatProperties
    <3> HIDE DEF new
    <3> QED
      BY <1>5, <3>1
  <2> HIDE DEF new
  <2>2. Len(Own(n)) \in {0, 1} /\ (PostOrder <=> Len(Own(n)) = 1)
    BY <1>6
  <2>3. \A i \in 1..Len(g) : i \in 1..Len(new) /\ new[i] = Visit(g[i])
    BY <1>4, <1>5, <2>1, <2>2
  <2>4. ASSUME PostOrder PROVE new[Len(g) + 1] = Complete(n) /\ Len(g) + 1 \in 1..Len(new)
    <3>0. Len(new) = Len(g) + 1 /\ Len(g) \in Nat /\ Len(Own(n)) = 1
      BY <1>4, <1>6, <2>1, <2>4
    <3>1. Len(g) + 1 \in 1..Len(new) /\ ~(Len(g) + 1 <= Len(g)) /\ (Len(g) + 1) - Len(g) = 1
      BY <3>0
    <3> QED
      BY <1>6, <2>1, <2>4, <3>0, <3>1
  <2>5. ASSUME NEW i \in 1..Len(new), i \notin 1..Len(g) PROVE PostOrder /\ i = Len(g) + 1
    <3>1. Len(g) \in Nat /\ Len(new) = Len(g) + Len(Own(n))
      BY <1>4, <2>1
    <3>2. CASE Len(Own(n)) = 0
      BY <2>5, <3>1, <3>2
    <3>3. CASE Len(Own(n)) = 1
      BY <2>2, <2>5, <3>1, <3>3
    <3> QED
      BY <2>2, <3>2, <3>3
  <2> QED
    BY <2>1, <2>3, <2>4, <2>5
<1> HIDE DEF new
<1>8. ASSUME NEW c \in Children(n)
      PROVE  /\ c \in Node /\ Reached[c] /\ ~Visit(c).complete /\ Visit(c).node = c
             /\ \A m : Owed(Visit(c), m) <=> c \in WayTo(m)
             /\ \A m \in Node : c \in WayTo(m) => n \in Ancestors[m]
  <2>1. c \in Node \ Root /\ Parent(c) = n
    BY <1>1, ParentOfChild
  <2>2. Reached[c]
    BY <1>1, <1>2, <2>1, ReachedIs
  <2>3. Ancestors[c] = Ancestors[n] \cup {n}
    BY <2>1, AncestorsAre
  <2>4. \A m \in Node : c \in WayTo(m) => n \in Ancestors[m]
    BY <2>3, AncestorsNest DEF WayTo
  <2> QED
    BY <2>1, <2>2, <2>4 DEF Visit, Owed
<1>9. PostOrder => /\ FrameFits(Complete(n)) /\ Owes(1, n)
                   /\ \A m : Owed(Complete(n), m) <=> m = n
  BY <1>1, <1>2, <1>3 DEF FrameFits, Complete, Owed, EmittedFirst, WayTo
<1>10. ASSUME NEW m, n \in Ancestors[m] PROVE Owes(1, m)
  BY <1>3, <1>10 DEF WayTo
<1>11. ASSUME NEW i \in 1..Len(new)
       PROVE  FrameFits(new[i]) /\ \A m \in Node : Owed(new[i], m) => Owes(1, m)
  <2>1. CASE i \in 1..Len(g)
    BY <1>4, <1>7, <1>8, <1>10, <2>1 DEF FrameFits
  <2>2. CASE PostOrder /\ i = Len(g) + 1
    BY <1>7, <1>9, <2>2
  <2> QED
    BY <1>7, <2>1, <2>2
<1>12. ASSUME NEW i \in 1..Len(new), NEW k \in 1..Len(new), NEW m \in Node, NEW l \in Node,
              i < k, Owed(new[i], m), Owed(new[k], l)
       PROVE  Precedes(m, l)
  <2>1. i \in 1..Len(g)
    BY <1>4, <1>7, <1>12
  <2>2. g[i] \in WayTo(m) /\ n \in Ancestors[m]
    BY <1>4, <1>7, <1>8, <1>12, <2>1
  <2>3. CASE k \in 1..Len(g)
    <3>1. g[k] \in WayTo(l)
      BY <1>4, <1>7, <1>8, <1>12, <2>3
    <3>2. Earlier(g[i], g[k])
      BY <1>1, <1>4, <1>12, <2>1, <2>3 DEF Earlier
    <3> QED
      BY <2>2, <3>1, <3>2 DEF Precedes
  <2>4. CASE PostOrder /\ k = Len(g) + 1
    <3>1. l = n
      BY <1>7, <1>9, <1>12, <2>4
    <3> QED
      BY <2>2, <2>4, <3>1 DEF Precedes
  <2> QED
    BY <1>7, <2>3, <2>4
<1>13. ASSUME NEW m \in Node, n \in Ancestors[m]
       PROVE  \E i \in 1..Len(new) : ~new[i].complete /\ new[i].node \in WayTo(m) /\ Owed(new[i], m)
  <2>1. PICK c \in Children(n) : c \in WayTo(m)
    BY <1>1, <1>13, WayDown DEF WayTo
  <2>2. PICK i \in 1..Len(g) : g[i] = c
    BY <1>4
  <2> QED
    BY <1>7, <1>8, <2>1, <2>2
<1>14. ASSUME NEW m \in Entries, Owes(1, m) PROVE \E i \in 1..Len(new) : Owed(new[i], m)
  <2>1. m \in Node
    BY DEF Entries, PostOrderEntries, PreOrderEntries
  <2>2. CASE n \in Ancestors[m]
    BY <1>13, <2>1, <2>2
  <2>3. CASE n \notin Ancestors[m]
    <3>1. PostOrder /\ m = n
      BY <1>3, <1>14, <2>3 DEF EmittedFirst, WayTo
    <3> QED
      BY <1>7, <1>9, <3>1
  <2> QED
    BY <2>2, <2>3
<1>15. ASSUME NEW m \in FaultyNodes, Under(1, m)
       PROVE  \/ \E i \in 1..Len(new) : ~new[i].complete /\ new[i].node \in WayTo(m)
              \/ m \in errors'
  <2>1. m \in Node /\ n \in WayTo(m)
    BY <1>1, <1>15 DEF FaultyNodes, Under, n
  <2>2. CASE n \in Ancestors[m]
    BY <1>13, <2>1, <2>2
  <2>3. CASE m = n
    <3>1. BadItem \in RangeOf(Items[n])
      BY <1>1, <1>15, <2>3 DEF FaultyNodes
    <3> QED
      BY <1>1, <2>3, <3>1 DEF Reports
  <2> QED
    BY <2>1, <2>2, <2>3 DEF WayTo
<1>16. errors' \subseteq errors \cup FaultyNodes
  BY <1>1, <1>2 DEF Reports, FaultyNodes
<1> QED
  BY <1>5, <1>11, <1>12, <1>14, <1>15, <1>16 DEF MayReplace, new, n

LEMMA NoFrames ==
  ASSUME TypeOK, StageKnown, FramesFit, PopComplete \/ PopFailing \/ RefuseLoop
  PROVE  MayReplace(<<>>)
<1> DEFINE n == Top.node
<1>0. WalkStep
  BY DEF WalkStep
<1>1. /\ n \in Node /\ stack # <<>> /\ Top = stack[1] /\ 1 \in 1..Len(stack) /\ Reached[n]
  BY <1>0, WalkMoves, TopIsFrame DEF TypeOK, FramesFit
<1>2. \A m \in Entries : m \in Node /\ Reached[m] /\ ~Fails(m)
  BY DEF Entries, PostOrderEntries, PreOrderEntries, Fails
<1>3. CASE PopComplete
  <2>1. Top.complete /\ errors' = errors
    BY <1>3 DEF PopComplete
  <2> QED
    BY <1>1, <1>3, <2>1 DEF MayReplace, Owes, Under
<1>4. CASE PopFailing
  <2>1. main = "walk" /\ ~Top.complete /\ Fails(n) /\ errors' = errors \cup {n}
    BY <1>4 DEF PopFailing
  <2>2. n \in FaultyNodes /\ ~Opens(n)
    BY <1>1, <2>1 DEF FaultyNodes, Opens, Fails, DescendDecision
  <2>3. ASSUME NEW m \in Node, Reached[m], n \in WayTo(m) PROVE m = n
    BY <1>1, <2>2, <2>3, NothingBelowClosed
  <2>4. ASSUME NEW m \in Entries, Owes(1, m) PROVE FALSE
    <3>1. n \in WayTo(m)
      BY <1>1, <2>1, <2>4 DEF Owes
    <3> QED
      BY <1>2, <2>1, <2>3, <2>4, <3>1
  <2>5. ASSUME NEW m \in FaultyNodes, Under(1, m) PROVE m \in errors'
    BY <1>1, <2>1, <2>3, <2>5 DEF FaultyNodes, Under
  <2> HIDE DEF n
  <2> QED
    BY <2>1, <2>2, <2>4, <2>5 DEF MayReplace
<1>5. CASE RefuseLoop
  <2>1. /\ main = "emitted" /\ ~Top.complete /\ DescendDecision(n) = "error"
        /\ errors' = errors \cup {n} /\ ~Fails(n)
    BY <1>5 DEF RefuseLoop, Descending, StageKnown
  <2>2. n \in FaultyNodes /\ ~Opens(n)
    BY <1>1, <2>1 DEF FaultyNodes, Opens
  <2>3. ASSUME NEW m \in Node, Reached[m], n \in WayTo(m) PROVE m = n
    BY <1>1, <2>2, <2>3, NothingBelowClosed
  <2>4. ASSUME NEW m \in Entries, Owes(1, m) PROVE FALSE
    <3>1. IF EmittedFirst(n) THEN n \in Ancestors[m] ELSE n \in WayTo(m)
      BY <1>1, <2>1, <2>4 DEF Owes
    <3>2. m = n
      BY <1>2, <2>3, <2>4, <3>1 DEF WayTo
    <3>3. ~EmittedFirst(n)
      BY <1>1, <3>1, <3>2, NoLoops
    <3> QED
      BY <2>1, <2>4, <3>2, <3>3 DEF EmittedFirst, Entries, PostOrderEntries
  <2>5. ASSUME NEW m \in FaultyNodes, Under(1, m) PROVE m \in errors'
    BY <1>1, <2>1, <2>3, <2>5 DEF FaultyNodes, Under
  <2> HIDE DEF n
  <2> QED
    BY <2>1, <2>2, <2>4, <2>5 DEF MayReplace
<1> QED
  BY <1>3, <1>4, <1>5

(* Every step of the walk but a visit puts frames in the first one's place    *)
(* that lead to the same entries, in their order.                            *)
LEMMA WalkReplaces ==
  ASSUME TypeOK, StageKnown, FramesFit, WalkStep, ~VisitEntry
  PROVE  \E new : Replaces(new) /\ MayReplace(new)
<1> DEFINE n == Top.node
<1>0. /\ n \in Node /\ Tail(stack) \in Seq(Frame)
      /\ \A t \in Seq(Frame) : <<>> \o t = t
  BY WalkMoves, TopIsFrame, ConcatEmptySeq DEF TypeOK
<1>1. CASE PopComplete \/ PopFailing \/ RefuseLoop
  <2>1. Replaces(<<>>)
    BY <1>0, <1>1 DEF PopComplete, PopFailing, RefuseLoop, Replaces
  <2> QED
    BY <1>1, <2>1, NoFrames
<1>2. CASE Descend
  <2>1. Replaces(Kids(n) \o Own(n))
    BY <1>2 DEF Descend, Replaces, Kids, Own
  <2> QED
    BY <1>2, <2>1, DescendFrames
<1>3. ASSUME DoNotDescend \/ ReadFails PROVE \E new : Replaces(new) /\ MayReplace(new)
  <2>1. Replaces(OwnIfDirectory(n)) /\ main = "emitted" /\ stack # <<>>
    BY <1>3 DEF DoNotDescend, ReadFails, Descending, LeaveEntry, Replaces, OwnIfDirectory
  <2>2. Reached[n] /\ ~Fails(n)
    BY <2>1, TopIsFrame DEF TypeOK, FramesFit, StageKnown
  <2>3. CASE DoNotDescend
    <3>1. DescendDecision(n) = "no" /\ errors' = errors
      BY <2>3 DEF DoNotDescend, LeaveEntry
    <3>2. n \notin FaultyNodes /\ ~Opens(n)
      BY <2>2, <3>1 DEF FaultyNodes, Opens
    <3>3. MayReplace(OwnIfDirectory(n))
      BY <2>1, <3>1, <3>2, OwnFrames
    <3> QED
      BY <2>1, <3>3
  <2>4. CASE ReadFails
    <3>1. DescendDecision(n) = "yes" /\ n \in Unreadable /\ errors' = errors \cup {n}
      BY <2>4 DEF ReadFails, LeaveEntry
    <3>2. Items[n] = <<>> /\ Opens(n)
      BY <2>2, <3>1, WalkTreeAssumption DEF Opens, Fails
    <3>3. MayReplace(OwnIfDirectory(n))
      BY <2>1, <2>2, <3>1, <3>2, OwnFrames
    <3> QED
      BY <2>1, <3>3
  <2> QED
    BY <1>3, <2>3, <2>4
<1> QED
  BY <1>1, <1>2, <1>3 DEF WalkStep

(* Where the frames are after such a step. *)
LEMMA StackAfter ==
  ASSUME stack \in Seq(Frame), stack # <<>>, NEW new \in Seq(Frame), Replaces(new)
  PROVE  /\ Len(new) \in Nat /\ Len(stack) \in Nat \ {0}
         /\ stack' \in Seq(Frame) /\ Len(stack') = Len(new) + Len(stack) - 1
         /\ \A i \in 1..Len(new) : i \in 1..Len(stack') /\ stack'[i] = new[i]
         /\ \A i \in 2..Len(stack) :
              LET k == Len(new) + i - 1 IN k \in 1..Len(stack') /\ stack'[k] = stack[i]
         /\ \A k \in 1..Len(stack') :
              \/ k \in 1..Len(new) /\ stack'[k] = new[k]
              \/ LET i == k - Len(new) + 1 IN i \in 2..Len(stack) /\ stack'[k] = stack[i] /\ k > Len(new)
<1> DEFINE t == Tail(stack)
<1>1. /\ t \in Seq(Frame) /\ Len(stack) \in Nat \ {0} /\ Len(t) = Len(stack) - 1
      /\ \A i \in 1..Len(t) : t[i] = stack[i + 1]
  BY TopIsFrame
<1> HIDE DEF t
<1>2. stack' = new \o t
  BY DEF Replaces, t
<1>3. /\ Len(new) \in Nat /\ stack' \in Seq(Frame) /\ Len(stack') = Len(new) + Len(t)
      /\ \A i \in 1..(Len(new) + Len(t)) :
           stack'[i] = IF i <= Len(new) THEN new[i] ELSE t[i - Len(new)]
  BY ZenonT(120), <1>1, <1>2, ConcatProperties, LenProperties
<1>4. \A i \in 1..Len(new) : i \in 1..Len(stack') /\ stack'[i] = new[i]
  BY <1>1, <1>3
<1>5. ASSUME NEW k \in 1..Len(stack'), k > Len(new)
      PROVE  LET i == k - Len(new) + 1 IN i \in 2..Len(stack) /\ stack'[k] = stack[i]
  <2>1. /\ k - Len(new) \in 1..Len(t) /\ ~(k <= Len(new)) /\ k \in 1..(Len(new) + Len(t))
        /\ (k - Len(new)) + 1 \in 2..Len(stack)
    BY <1>1, <1>3, <1>5
  <2> QED
    BY <1>1, <1>3, <2>1
<1>6. ASSUME NEW i \in 2..Len(stack)
      PROVE  LET k == Len(new) + i - 1 IN k \in 1..Len(stack') /\ stack'[k] = stack[i]
  <2> DEFINE k == Len(new) + i - 1
  <2>1. k \in 1..Len(stack') /\ k > Len(new) /\ k - Len(new) + 1 = i
    BY <1>1, <1>3
  <2> QED
    BY <1>5, <2>1
<1>7. \A k \in 1..Len(stack') : k \in 1..Len(new) \/ k > Len(new)
  BY <1>3
<1> QED
  BY <1>1, <1>3, <1>4, <1>5, <1>6, <1>7

-----------------------------------------------------------------------------
(* What is emitted                                                           *)

Total == IF Inline THEN Len(commits) ELSE nextSeq

EmittedStill == \A k, n : Emitted(k, n)' <=> Emitted(k, n)

EmitsNext(x) == \A k, n : Emitted(k, n)' <=> Emitted(k, n) \/ (k = Total /\ n = x)

LEMMA EmittedAre ==
  ASSUME TypeOK, StageKnown, NumbersInRange, OnlyEntriesCommitted
  PROVE  /\ Total \in Nat /\ Len(commits) \in Nat
         /\ \A k, n : Emitted(k, n) => k \in 0..(Total - 1) /\ n \in Entries
         /\ \A k, n : k \in 0..(Len(commits) - 1) => ~Carried(k, n)
<1>1. Len(commits) \in Nat /\ nextSeq \in Nat /\ nextReady \in 0..nextSeq /\ Inline \in BOOLEAN
  BY LenProperties, OrderedAssumption DEF TypeOK
<1>2. ASSUME NEW k, NEW n, Carried(k, n) PROVE k \in 0..(Total - 1) /\ n \in Entries /\ k >= Len(commits)
  BY <1>1, <1>2 DEF StageKnown, NumbersInRange, Total
<1>3. ASSUME NEW k \in 0..(Len(commits) - 1) PROVE k \in 0..(Total - 1) /\ commits[k + 1] \in Entries
  BY <1>1, <1>3 DEF StageKnown, OnlyEntriesCommitted, Total
<1> QED
  BY <1>1, <1>2, <1>3 DEF Emitted, Total

LEMMA CommitsGrow ==
  ASSUME NEW x \in Node, commits \in Seq(Node), commits' = Append(commits, x)
  PROVE  /\ Len(commits') = Len(commits) + 1 /\ Len(commits) \in Nat
         /\ \A k : k \in 0..(Len(commits') - 1) <=> k \in 0..(Len(commits) - 1) \/ k = Len(commits)
         /\ \A k \in 0..(Len(commits) - 1) : commits'[k + 1] = commits[k + 1]
         /\ commits'[Len(commits) + 1] = x
         /\ \A i \in 1..Len(commits') :
              (i \in 1..Len(commits) /\ commits'[i] = commits[i]) \/ commits'[i] = x
<1>1. /\ Len(commits') = Len(commits) + 1 /\ Len(commits) \in Nat
      /\ \A i \in 1..Len(commits) : commits'[i] = commits[i]
      /\ commits'[Len(commits) + 1] = x
  BY AppendProperties, LenProperties
<1> QED
  BY <1>1

(* A step emits nothing, or the walk emits the node of the first frame.      *)
LEMMA EmittedSteps ==
  ASSUME TypeOK, StageKnown, Numbers, FramesFit, OnlyEntriesCommitted, EmittedInOrder, [Next]_vars
  PROVE  /\ OnlyEntriesCommitted'
         /\ \/ EmittedStill
            \/ /\ WalkStep /\ Top.node \in Entries /\ main = "walk" /\ Owes(1, Top.node)
               /\ Hands(Top.node) \/ Performs(Top.node)
               /\ EmitsNext(Top.node)
            \/ /\ Failing /\ Failing' /\ commits' = commits
               /\ \A k, n : Emitted(k, n)' => Emitted(k, n)
<1>0. /\ commits \in Seq(Node) /\ Len(commits) \in Nat /\ nextSeq \in Nat
      /\ OnePlaceEach /\ NumbersInRange
  BY LenProperties DEF TypeOK, Numbers
<1>1. CASE WalkStep
  <2>1. UNCHANGED <<evaluator, ready, buffered>>
    BY <1>1, WalkMoves DEF queueVars
  <2>2. CASE Skips
    <3>1. commits' = commits /\ CarriedStill
      BY <2>1, <2>2, SamePlaces DEF Skips, NoEmit, CarriedStill
    <3> QED
      BY <3>1 DEF EmittedStill, Emitted, CarriedStill, OnlyEntriesCommitted
  <2>3. CASE Hands(Top.node) /\ Top.node \in Entries /\ main = "walk" /\ Owes(1, Top.node)
    <3>1. commits' = commits /\ Total = nextSeq /\ Top.node \in Node
          /\ work' = Append(work, <<nextSeq, Top.node>>)
      BY <2>3 DEF Hands, Total
    <3>2. PICK x \in Node : x = Top.node
      BY <3>1
    <3>3. \A s, n : Carried(s, n)' <=> Carried(s, n) \/ (s = nextSeq /\ n = x)
      BY <1>0, <2>1, <3>1, <3>2, SendMoves
    <3>4. EmitsNext(Top.node)
      BY <3>1, <3>2, <3>3 DEF EmitsNext, Emitted
    <3> QED
      BY <1>1, <2>3, <3>1, <3>4 DEF OnlyEntriesCommitted
  <2>4. CASE Performs(Top.node) /\ Top.node \in Entries /\ main = "walk" /\ Owes(1, Top.node)
    <3>1. /\ commits' = Append(commits, Top.node) /\ Total = Len(commits) /\ Top.node \in Node
          /\ work' = work
      BY <2>4 DEF Performs, Total
    <3>2. CarriedStill
      BY <2>1, <3>1, SamePlaces DEF CarriedStill
    <3>3. /\ Len(commits') = Len(commits) + 1
          /\ \A k : k \in 0..(Len(commits') - 1) <=> k \in 0..(Len(commits) - 1) \/ k = Len(commits)
          /\ \A k \in 0..(Len(commits) - 1) : commits'[k + 1] = commits[k + 1]
          /\ commits'[Len(commits) + 1] = Top.node
      BY <1>0, <3>1, CommitsGrow
    <3>4. EmitsNext(Top.node)
      BY <1>0, <3>1, <3>2, <3>3 DEF EmitsNext, Emitted, CarriedStill
    <3>5. OnlyEntriesCommitted'
      BY <1>0, <2>4, <3>1, CommitsGrow DEF OnlyEntriesCommitted
    <3> QED
      BY <1>1, <2>4, <3>4, <3>5
  <2> QED
    BY <1>1, <2>2, <2>3, <2>4, WalkEmits
<1>2. CASE CommitNext
  <2> DEFINE c == commits'[Len(commits) + 1]
  <2>1. /\ Carried(nextReady, c) /\ commits' = Append(commits, c)
        /\ \A s, n : Carried(s, n)' <=> Carried(s, n) /\ s # nextReady
    BY <1>0, <1>2, CommitMoves
  <2>2. c \in Entries /\ c \in Node /\ Len(commits) = nextReady
    <3>1. ~Inline
      BY <2>1 DEF StageKnown
    <3> QED
      BY <1>0, <2>1, <3>1 DEF NumbersInRange, StageKnown, Entries, PostOrderEntries, PreOrderEntries
  <2> HIDE DEF c
  <2>3. /\ Len(commits') = Len(commits) + 1
        /\ \A k : k \in 0..(Len(commits') - 1) <=> k \in 0..(Len(commits) - 1) \/ k = Len(commits)
        /\ \A k \in 0..(Len(commits) - 1) : commits'[k + 1] = commits[k + 1]
        /\ commits'[Len(commits) + 1] = c
    BY <1>0, <2>1, <2>2, CommitsGrow
  <2>4. \A n : Emitted(nextReady, n) => n = c
    BY <2>1 DEF Emitted, EmittedInOrder
  <2>5. ASSUME NEW k, NEW n PROVE Emitted(k, n)' <=> Emitted(k, n)
    <3>1. CASE k \in 0..(Len(commits) - 1)
      <4>1. k # nextReady
        BY <1>0, <2>2, <3>1
      <4> QED
        BY <2>1, <2>3, <3>1, <4>1 DEF Emitted
    <3>2. CASE k = nextReady
      <4>1. Emitted(k, n)' <=> n = c
        BY <2>1, <2>2, <2>3, <3>2 DEF Emitted
      <4>2. Emitted(k, n) <=> n = c
        BY <2>1, <2>4, <3>2 DEF Emitted
      <4> QED
        BY <4>1, <4>2
    <3>3. CASE k \notin 0..(Len(commits) - 1) /\ k # nextReady
      BY <2>1, <2>2, <2>3, <3>3 DEF Emitted
    <3> QED
      BY <3>1, <3>2, <3>3
  <2>6. OnlyEntriesCommitted'
    BY <1>0, <2>1, <2>2, CommitsGrow DEF OnlyEntriesCommitted
  <2> QED
    BY <2>5, <2>6 DEF EmittedStill
<1>3. CASE ~WalkStep /\ ~CommitNext
  <2>1. commits' = commits
    BY <1>3, NextIs DEF AfterWalk, EndWalk, Collect, NothingNext, EndDrain, Finish, DropChannels, JoinAndFail,
                Receive, Deliver, Leave, vars
  <2>2. CarriedStill \/ (Failing /\ Failing' /\ \A s, n : Carried(s, n)' => Carried(s, n))
    BY <1>0, <1>3, NumberSteps
  <2> QED
    BY <2>1, <2>2 DEF EmittedStill, Emitted, CarriedStill, OnlyEntriesCommitted
<1> QED
  BY <1>1, <1>2, <1>3

(* The entries are emitted in the order of the walk.                         *)
LEMMA EmittedStep ==
  ASSUME TypeOK, StageKnown, Numbers, FramesFit, OnlyEntriesCommitted, EmittedInOrder,
         Walking => StackComesLater, [Next]_vars
  PROVE  EmittedInOrder'
<1>1. CASE \A k, n : Emitted(k, n)' => Emitted(k, n)
  BY <1>1 DEF EmittedInOrder
<1>2. CASE /\ WalkStep /\ Top.node \in Entries /\ Owes(1, Top.node) /\ EmitsNext(Top.node)
  <2>1. Walking /\ 1 \in 1..Len(stack) /\ Top.node \in Node
    BY <1>2, WalkMoves, TopIsFrame DEF TypeOK
  <2>2. \A k, m : Emitted(k, m) => Precedes(m, Top.node)
    BY <1>2, <2>1 DEF StackComesLater
  <2>3. Total \in Nat /\ \A k, m : Emitted(k, m) => k \in 0..(Total - 1)
    BY EmittedAre DEF Numbers
  <2>4. PICK x, t : x = Top.node /\ t = Total
    OBVIOUS
  <2>5. ASSUME NEW j, NEW k, NEW m, NEW n, Emitted(j, m)', Emitted(k, n)'
        PROVE  (j = k => m = n) /\ (j < k => Precedes(m, n))
    <3>1. /\ Emitted(j, m) \/ (j = t /\ m = x)
          /\ Emitted(k, n) \/ (k = t /\ n = x)
      BY <1>2, <2>4, <2>5 DEF EmitsNext
    <3>2. CASE Emitted(j, m) /\ Emitted(k, n)
      BY <3>2 DEF EmittedInOrder
    <3>3. CASE Emitted(j, m) /\ k = t /\ n = x
      BY <2>2, <2>3, <2>4, <3>3
    <3>4. CASE Emitted(k, n) /\ j = t /\ m = x
      BY <2>3, <2>4, <3>4
    <3>5. CASE j = t /\ m = x /\ k = t /\ n = x
      BY <2>3, <2>4, <3>5
    <3> QED
      BY <3>1, <3>2, <3>3, <3>4, <3>5
  <2> QED
    BY <2>5 DEF EmittedInOrder
<1> QED
  BY <1>1, <1>2, EmittedSteps DEF EmittedStill

-----------------------------------------------------------------------------
(* What the stack leads to                                                   *)

StackInv ==
  /\ FramesFit
  /\ Walking => StackInOrder /\ StackComesLater
  /\ NoEntryForgotten /\ ReportsInv

(* In the walk's next round every frame leads to what it is owed. *)
LEMMA OwesThen ==
  ASSUME main' = "walk"
  PROVE  \A i, m : Owes(i, m)' <=> Owed(stack'[i], m)
BY DEF Owes, Owed

LEMMA OwesNow ==
  \A i, m : i # 1 \/ main # "emitted" => (Owes(i, m) <=> Owed(stack[i], m))
BY DEF Owes, Owed

LEMMA EntriesAreNodes == Entries \subseteq Node /\ \A m \in Entries : Reached[m] /\ IsEvaluatedAt(m)
BY DEF Entries, PostOrderEntries, PreOrderEntries

(* An entry that is handed to the consumer has been emitted. *)
LEMMA EmitsIt ==
  ASSUME TypeOK, Walking, Top.node \in Node, IsEvaluatedAt(Top.node),
         NEW then \in {"walk", "emitted"}, EmitEntry(Top.node, then),
         NEW x, x = Top.node
  PROVE  \E k : Emitted(k, x)'
<1>0. x \in Node
  OBVIOUS
<1>1. Hands(Top.node) \/ Performs(Top.node)
  BY EmitMeans
<1>2. CASE Performs(Top.node)
  <2>1. commits \in Seq(Node) /\ commits' = Append(commits, x)
    BY <1>0, <1>2 DEF TypeOK, Performs
  <2>2. /\ Len(commits) \in Nat /\ Len(commits') = Len(commits) + 1
        /\ commits'[Len(commits) + 1] = x
    BY <2>1, CommitsGrow
  <2>3. PICK k : k = Len(commits)
    OBVIOUS
  <2>4. k \in 0..(Len(commits') - 1) /\ commits'[k + 1] = x
    BY <2>2, <2>3
  <2> QED
    BY <2>4 DEF Emitted
<1>3. CASE Hands(Top.node)
  <2>1. work \in Seq(Item) /\ work' = Append(work, <<nextSeq, x>>) /\ <<nextSeq, x>> \in Item
    BY <1>0, <1>3 DEF TypeOK, Hands, Item
  <2>2. PICK l, k : l = Len(work) + 1 /\ k = nextSeq
    OBVIOUS
  <2>3. l \in 1..Len(work') /\ work'[l] = <<k, x>>
    BY <2>1, <2>2, AppendProperties, LenProperties
  <2>4. Carries(-1, l, k, x)'
    BY <2>3 DEF Carries
  <2> QED
    BY <2>4 DEF Emitted, Carried
<1> QED
  BY <1>1, <1>2, <1>3

LEMMA ReplaceStep ==
  ASSUME TypeOK, StageKnown, Numbers, OnlyEntriesCommitted, EmittedInOrder, StackInv,
         WalkStep, ~VisitEntry
  PROVE  StackInv'
<1>0. /\ Walking /\ stack # <<>> /\ Top.node \in Node /\ stack \in Seq(Frame)
      /\ FramesFit /\ StackInOrder /\ StackComesLater /\ NoEntryForgotten /\ ReportsInv
  BY WalkMoves DEF TypeOK, StackInv
<1>1. PICK new : Replaces(new) /\ MayReplace(new)
  BY <1>0, WalkReplaces
<1>2. new \in Seq(Frame)
  BY <1>1 DEF MayReplace
<1>3. /\ Len(new) \in Nat /\ Len(stack) \in Nat \ {0}
      /\ \A i \in 1..Len(new) : i \in 1..Len(stack') /\ stack'[i] = new[i]
      /\ \A i \in 2..Len(stack) :
           LET k == Len(new) + i - 1 IN k \in 1..Len(stack') /\ stack'[k] = stack[i]
      /\ \A k \in 1..Len(stack') :
           \/ k \in 1..Len(new) /\ stack'[k] = new[k]
           \/ LET i == k - Len(new) + 1 IN i \in 2..Len(stack) /\ stack'[k] = stack[i] /\ k > Len(new)
  BY <1>0, <1>1, <1>2, StackAfter
<1>14. \/ EmittedStill
       \/ main = "walk" /\ Owes(1, Top.node) /\ EmitsNext(Top.node)
  <2>1. [Next]_vars /\ ~Failing
    BY <1>0 DEF Next, MainStep, WalkStep, Walking, Failing
  <2> QED
    BY <1>0, <2>1, EmittedSteps
<1>4. Walking' => main' = "walk"
  <2>1. ASSUME EmitEntry(Top.node, "walk") PROVE main' \in {"walk", "flush", "failed"}
    BY <1>0, <2>1, EmitMeans
  <2> QED
    BY <2>1, WalkMoves DEF Walking
<1>5. FramesFit'
  <2> SUFFICES ASSUME NEW k \in 1..Len(stack') PROVE FrameFits(stack'[k])
    BY DEF FramesFit, FrameFits
  <2>1. ASSUME NEW j \in 1..Len(new), stack'[k] = new[j] PROVE FrameFits(stack'[k])
    BY <1>1, <2>1 DEF MayReplace
  <2>2. ASSUME NEW j \in 2..Len(stack), stack'[k] = stack[j] PROVE FrameFits(stack'[k])
    <3>1. j \in 1..Len(stack)
      BY <1>3
    <3>2. FrameFits(stack[j])
      BY <1>0, <3>1 DEF FramesFit, FrameFits
    <3> QED
      BY <2>2, <3>2
  <2> QED
    BY <1>3, <2>1, <2>2
\* Where a frame of the new stack comes from.
<1>6. ASSUME main' = "walk", NEW k \in 1..Len(stack')
      PROVE  \/ /\ k \in 1..Len(new)
                /\ \A m : Owes(k, m)' <=> Owed(new[k], m)
                /\ \A m \in Node : Owes(k, m)' => Owes(1, m)
             \/ \E i \in 2..Len(stack) : /\ i = k - Len(new) + 1 /\ k > Len(new)
                                         /\ \A m : Owes(k, m)' <=> Owes(i, m)
  <2>1. CASE k \in 1..Len(new) /\ stack'[k] = new[k]
    <3>1. \A m : Owes(k, m)' <=> Owed(new[k], m)
      BY <1>6, <2>1, OwesThen
    <3> QED
      BY <1>1, <2>1, <3>1 DEF MayReplace
  <2>2. CASE LET i == k - Len(new) + 1 IN i \in 2..Len(stack) /\ stack'[k] = stack[i] /\ k > Len(new)
    <3> DEFINE i == k - Len(new) + 1
    <3>1. i \in 2..Len(stack) /\ stack'[k] = stack[i] /\ k > Len(new)
      BY <2>2
    <3>2. i # 1
      BY <3>1
    <3> HIDE DEF i
    <3>3. \A m : Owes(k, m)' <=> Owes(i, m)
      BY <1>6, <3>1, <3>2, OwesThen, OwesNow
    <3> QED
      BY <3>1, <3>3 DEF i
  <2> QED
    BY <1>3, <2>1, <2>2
<1>7. ASSUME main' = "walk", NEW k \in 1..Len(stack')
      PROVE  \E i \in 1..Len(stack) : \A m \in Node : Owes(k, m)' => Owes(i, m)
  <2>1. 1 \in 1..Len(stack) /\ \A i \in 2..Len(stack) : i \in 1..Len(stack)
    BY <1>3
  <2> QED
    BY <1>6, <1>7, <2>1
<1>8. ASSUME main' = "walk" PROVE StackInOrder'
  <2> SUFFICES ASSUME NEW i \in 1..Len(stack'), NEW k \in 1..Len(stack'), NEW m \in Node, NEW n \in Node,
                      i < k, Owes(i, m)', Owes(k, n)'
               PROVE  Precedes(m, n)
    BY DEF StackInOrder
  <2>1. CASE i \in 1..Len(new) /\ k \in 1..Len(new)
    <3>1. Owed(new[i], m) /\ Owed(new[k], n)
      BY <1>3, <1>6, <1>8, <2>1
    <3> QED
      BY <1>1, <2>1, <3>1 DEF MayReplace
  <2>2. CASE i \in 1..Len(new) /\ k \notin 1..Len(new)
    <3>1. Owes(1, m)
      <4>1. ~(i > Len(new))
        BY <1>3, <2>2
      <4> QED
        BY <1>6, <1>8, <4>1
    <3>2. PICK j \in 2..Len(stack) : Owes(j, n)
      BY <1>6, <1>8, <2>2
    <3>3. 1 \in 1..Len(stack) /\ j \in 1..Len(stack) /\ 1 < j
      BY <1>3
    <3> QED
      BY <1>0, <3>1, <3>2, <3>3 DEF StackInOrder
  <2>3. CASE i \notin 1..Len(new)
    <3>1. k \notin 1..Len(new)
      BY <1>3, <2>3
    <3>2. PICK i2 \in 2..Len(stack) : i2 = i - Len(new) + 1 /\ Owes(i2, m)
      BY <1>6, <1>8, <2>3
    <3>3. PICK k2 \in 2..Len(stack) : k2 = k - Len(new) + 1 /\ Owes(k2, n)
      BY <1>6, <1>8, <3>1
    <3>4. i2 \in 1..Len(stack) /\ k2 \in 1..Len(stack) /\ i2 < k2
      BY <1>3, <3>2, <3>3
    <3> QED
      BY <1>0, <3>2, <3>3, <3>4 DEF StackInOrder
  <2> QED
    BY <2>1, <2>2, <2>3
<1>9. ASSUME main' = "walk" PROVE StackComesLater'
  <2> SUFFICES ASSUME NEW j, NEW m, NEW k \in 1..Len(stack'), NEW n \in Node, Emitted(j, m)', Owes(k, n)'
               PROVE  Precedes(m, n)
    BY DEF StackComesLater
  <2>1. CASE Emitted(j, m)
    <3>1. PICK i \in 1..Len(stack) : Owes(i, n)
      BY <1>7, <1>9
    <3> QED
      BY <1>0, <2>1, <3>1 DEF StackComesLater
  <2>2. CASE ~Emitted(j, m)
    <3>1. m = Top.node /\ main = "walk" /\ Owes(1, m)
      BY <1>14, <2>2 DEF EmittedStill, EmitsNext
    <3>2. PopComplete
      <4>1. ~NoEmit
        <5> SUFFICES ASSUME NoEmit PROVE FALSE
          OBVIOUS
        <5>1. commits' = commits /\ CarriedStill
          BY WalkMoves, SamePlaces DEF NoEmit, CarriedStill, queueVars
        <5> QED
          BY <2>2, <5>1 DEF Emitted, CarriedStill
      <4> QED
        BY <4>1 DEF WalkStep, PopFailing, DoNotDescend, RefuseLoop, ReadFails, Descend
    <3>3. \E i \in 2..Len(stack) : Owes(i, n)
      <4>1. stack' = Tail(stack)
        BY <3>2 DEF PopComplete
      <4>2. Len(Tail(stack)) = Len(stack) - 1 /\ \A i \in 1..Len(Tail(stack)) : Tail(stack)[i] = stack[i + 1]
        BY <1>0, TopIsFrame
      <4>3. k + 1 \in 2..Len(stack) /\ k + 1 # 1 /\ stack'[k] = stack[k + 1]
        BY <1>3, <4>1, <4>2
      <4>4. Owed(stack[k + 1], n)
        BY <1>9, <4>3, OwesThen
      <4> QED
        BY <4>3, <4>4, OwesNow
    <3>4. PICK i \in 2..Len(stack) : Owes(i, n)
      BY <3>3
    <3>5. 1 \in 1..Len(stack) /\ i \in 1..Len(stack) /\ 1 < i
      BY <1>3
    <3> QED
      BY <1>0, <3>1, <3>4, <3>5 DEF StackInOrder
  <2> QED
    BY <2>1, <2>2
<1>10. ~Failing' /\ ~quit' => main' = "walk" /\ ~Failing /\ ~quit
  <2>1. ASSUME EmitEntry(Top.node, "walk") PROVE main' = "walk" \/ Failing' \/ quit'
    BY <1>0, <2>1, EmitMeans DEF Performs, Hands, Failing
  <2>2. main' = "walk" \/ Failing' \/ quit'
    BY <2>1, WalkMoves
  <2>3. ~Failing /\ ~quit
    BY <1>0 DEF StageKnown, Walking, Failing
  <2> QED
    BY <2>2, <2>3
\* The frame k of the old stack, but for the first, is still there.
<1>11. ASSUME main' = "walk", NEW i \in 2..Len(stack)
       PROVE  \E k \in 1..Len(stack') : stack'[k] = stack[i] /\ \A m : Owes(i, m) => Owes(k, m)'
  <2> DEFINE k == Len(new) + i - 1
  <2>1. k \in 1..Len(stack') /\ stack'[k] = stack[i] /\ i # 1
    BY <1>3
  <2> HIDE DEF k
  <2>2. \A m : Owes(k, m)' <=> Owed(stack'[k], m)
    <3>1. PICK l : l = k
      OBVIOUS
    <3>2. \A m : Owes(l, m)' <=> Owed(stack'[l], m)
      BY <1>11, OwesThen
    <3> QED
      BY <1>11, <3>1, <3>2, OwesThen
  <2>3. \A m : Owes(i, m) <=> Owed(stack[i], m)
    BY <2>1, OwesNow
  <2>4. PICK l \in 1..Len(stack') : l = k
    BY <2>1
  <2> QED
    BY <1>11, <2>1, <2>3, <2>4, OwesThen
<1>12. NoEntryForgotten'
  <2> SUFFICES ASSUME ~Failing', ~quit', NEW m \in Entries
               PROVE  (\E k : Emitted(k, m)') \/ (Walking' /\ \E i \in 1..Len(stack') : Owes(i, m)')
    BY DEF NoEntryForgotten
  <2>1. main' = "walk" /\ ~Failing /\ ~quit /\ Walking'
    BY <1>10 DEF Walking
  <2>2. CASE \E k : Emitted(k, m)
    <3>1. \A k : Emitted(k, m) => Emitted(k, m)'
      BY <1>14 DEF EmittedStill, EmitsNext
    <3> QED
      BY <2>2, <3>1
  <2>3. ASSUME NEW i \in 2..Len(stack), Owes(i, m)
        PROVE  Walking' /\ \E k \in 1..Len(stack') : Owes(k, m)'
    BY <1>11, <2>1, <2>3
  <2>4. ASSUME NEW i \in 1..Len(new), Owed(new[i], m)
        PROVE  Walking' /\ \E k \in 1..Len(stack') : Owes(k, m)'
    <3>1. i \in 1..Len(stack') /\ stack'[i] = new[i]
      BY <1>3
    <3> QED
      BY <2>1, <2>4, <3>1, OwesThen
  <2>5. ASSUME PopComplete, m = Top.node
        PROVE  \E k : Emitted(k, m)'
    <3>1. EmitEntry(Top.node, "walk") /\ IsEvaluatedAt(Top.node)
      BY <2>5, EntriesAreNodes DEF PopComplete
    <3> QED
      BY <1>0, <2>5, <3>1, EmitsIt
  <2>6. CASE \E i \in 1..Len(stack) : Owes(i, m)
    <3>1. PICK i \in 1..Len(stack) : Owes(i, m)
      BY <2>6
    <3>2. CASE i = 1
      <4>1. \/ \E j \in 1..Len(new) : Owed(new[j], m)
            \/ PopComplete /\ m = Top.node
        BY <1>1, <3>1, <3>2 DEF MayReplace
      <4> QED
        BY <2>4, <2>5, <4>1
    <3>3. CASE i # 1
      <4>1. i \in 2..Len(stack)
        BY <1>3, <3>3
      <4> QED
        BY <2>3, <3>1, <4>1
    <3> QED
      BY <3>2, <3>3
  <2> QED
    BY <1>0, <2>1, <2>2, <2>6 DEF NoEntryForgotten
<1>13. ReportsInv'
  <2>1. errors' \subseteq FaultyNodes \cup {n \in Unreadable : Reached[n] /\ Opens(n)}
    BY <1>0, <1>1 DEF MayReplace, ReportsInv
  <2>2. errors \subseteq errors'
    BY WalkMoves
  <2>3. ASSUME ~Failing', ~quit', NEW m \in FaultyNodes, m \notin errors'
        PROVE  Walking' /\ \E k \in 1..Len(stack') : Under(k, m)'
    <3>1. main' = "walk" /\ ~Failing /\ ~quit /\ Walking'
      BY <1>10, <2>3 DEF Walking
    <3>2. PICK i \in 1..Len(stack) : Under(i, m)
      BY <1>0, <2>2, <2>3, <3>1 DEF ReportsInv
    <3>3. CASE i = 1
      <4>1. PICK j \in 1..Len(new) : ~new[j].complete /\ new[j].node \in WayTo(m)
        BY <1>1, <2>3, <3>2, <3>3 DEF MayReplace
      <4>2. j \in 1..Len(stack') /\ stack'[j] = new[j]
        BY <1>3
      <4> QED
        BY <3>1, <4>1, <4>2 DEF Under
    <3>4. CASE i # 1
      <4>1. i \in 2..Len(stack)
        BY <1>3, <3>4
      <4>2. PICK k \in 1..Len(stack') : stack'[k] = stack[i]
        BY <1>11, <3>1, <4>1
      <4> QED
        BY <3>1, <3>2, <4>2 DEF Under
    <3> QED
      BY <3>3, <3>4
  <2> QED
    BY <2>1, <2>3 DEF ReportsInv
<1> QED
  BY <1>4, <1>5, <1>8, <1>9, <1>12, <1>13 DEF StackInv

(* A visit emits the first frame's node, or puts that off, and leaves the     *)
(* stack as it is.                                                           *)
LEMMA VisitStep ==
  ASSUME TypeOK, StageKnown, Numbers, OnlyEntriesCommitted, EmittedInOrder, StackInv, VisitEntry
  PROVE  StackInv'
<1>0. PICK n \in Node : n = Top.node
  BY WalkMoves DEF WalkStep
<1>1. /\ main = "walk" /\ stack # <<>> /\ ~Top.complete /\ ~Fails(n) /\ stack \in Seq(Frame)
      /\ stack' = stack /\ errors' = errors /\ Walking
      /\ FramesFit /\ StackInOrder /\ StackComesLater /\ NoEntryForgotten /\ ReportsInv
  BY <1>0 DEF VisitEntry, TypeOK, StackInv, Walking
<1>2. /\ Top = stack[1] /\ 1 \in 1..Len(stack) /\ ~stack[1].complete /\ stack[1].node = n
      /\ Len(stack) \in Nat
  BY <1>0, <1>1, TopIsFrame
<1>3. \/ EmitEntry(n, "emitted") /\ EmittedFirst(n)
      \/ main' = "emitted" /\ NoEmit /\ ~EmittedFirst(n)
  BY <1>0 DEF VisitEntry
<1>4. main' = "emitted" \/ (~Walking' /\ (Failing' \/ quit'))
  BY <1>0, <1>1, <1>3, EmitMeans DEF Performs, Hands, Skips, Walking, Failing
<1>5. \/ EmittedStill
      \/ Owes(1, n) /\ EmitsNext(n)
  <2>1. [Next]_vars /\ ~Failing
    BY <1>1 DEF Next, MainStep, Walking, Failing
  <2> QED
    BY <1>0, <1>1, <2>1, EmittedSteps
<1>6. \A m : Owes(1, m) <=> n \in WayTo(m)
  BY <1>1, <1>2 DEF Owes
<1>7. ASSUME main' = "emitted"
      PROVE  \A m : Owes(1, m)' <=> IF EmittedFirst(n) THEN n \in Ancestors[m] ELSE n \in WayTo(m)
  BY <1>1, <1>2, <1>7 DEF Owes
<1>8. \A i : \A m : i # 1 => (Owes(i, m)' <=> Owes(i, m))
  BY <1>1 DEF Owes
<1>9. ASSUME main' = "emitted" PROVE \A i, m : Owes(i, m)' => Owes(i, m)
  BY <1>6, <1>7, <1>8, <1>9 DEF WayTo
<1>10. FramesFit'
  BY <1>1 DEF FramesFit
<1>11. ASSUME main' = "emitted" PROVE StackInOrder'
  BY <1>1, <1>9, <1>11 DEF StackInOrder
<1>12. ASSUME main' = "emitted" PROVE StackComesLater'
  <2> SUFFICES ASSUME NEW j, NEW m, NEW i \in 1..Len(stack), NEW l \in Node, Emitted(j, m)', Owes(i, l)'
               PROVE  Precedes(m, l)
    BY <1>1 DEF StackComesLater
  <2>1. CASE Emitted(j, m)
    BY <1>1, <1>9, <1>12, <2>1 DEF StackComesLater
  <2>2. CASE ~Emitted(j, m)
    <3>1. m = n /\ Owes(1, n)
      BY <1>5, <2>2 DEF EmittedStill, EmitsNext
    <3>2. CASE i = 1
      <4>1. EmittedFirst(n)
        <5> SUFFICES ASSUME main' = "emitted" /\ NoEmit PROVE FALSE
          BY <1>3
        <5>1. commits' = commits /\ CarriedStill
          BY WalkMoves, SamePlaces DEF WalkStep, NoEmit, CarriedStill, queueVars
        <5> QED
          BY <2>2, <5>1 DEF Emitted, CarriedStill
      <4>2. n \in Ancestors[l]
        BY <1>7, <1>12, <3>2, <4>1
      \* What is no directory has nothing below it.
      <4>3. n \in Dir
        <5>1. PICK c \in Children(n) : TRUE
          BY <4>2, WayDown
        <5>2. Items[n] # <<>>
          BY <5>1 DEF Children, RangeOf
        <5> QED
          BY <5>2, WalkTreeAssumption
      <4> QED
        BY <3>1, <4>1, <4>2, <4>3 DEF EmittedFirst, Precedes
    <3>3. CASE i # 1
      <4>1. 1 < i /\ Owes(i, l)
        BY <1>2, <1>8, <3>3
      <4> QED
        BY <1>1, <1>2, <3>1, <4>1 DEF StackInOrder
    <3> QED
      BY <3>2, <3>3
  <2> QED
    BY <2>1, <2>2
<1>13. ~Failing' /\ ~quit' => main' = "emitted" /\ Walking' /\ ~Failing /\ ~quit
  <2>1. ~Failing /\ ~quit
    BY <1>1 DEF StageKnown, Walking, Failing
  <2> QED
    BY <1>4, <2>1 DEF Walking
<1>14. NoEntryForgotten'
  <2> SUFFICES ASSUME ~Failing', ~quit', NEW m \in Entries
               PROVE  (\E k : Emitted(k, m)') \/ (Walking' /\ \E i \in 1..Len(stack') : Owes(i, m)')
    BY DEF NoEntryForgotten
  <2>1. main' = "emitted" /\ Walking' /\ ~Failing /\ ~quit
    BY <1>13
  <2>2. ASSUME NEW k, Emitted(k, m) PROVE Emitted(k, m)'
    BY <1>5, <2>2 DEF EmittedStill, EmitsNext
  <2>3. ASSUME NEW i \in 1..Len(stack), Owes(i, m), ~Owes(i, m)' PROVE \E k : Emitted(k, m)'
    <3>1. i = 1 /\ EmittedFirst(n) /\ m = n
      BY <1>6, <1>7, <1>8, <2>1, <2>3 DEF WayTo
    <3>2. EmitEntry(Top.node, "emitted") /\ IsEvaluatedAt(Top.node) /\ m = Top.node
      BY <1>0, <1>3, <3>1, EntriesAreNodes
    <3> QED
      BY <1>0, <1>1, <3>2, EmitsIt
  <2>4. (\E k : Emitted(k, m)) \/ \E i \in 1..Len(stack) : Owes(i, m)
    BY <1>1, <2>1 DEF NoEntryForgotten
  <2> QED
    BY <1>1, <2>1, <2>2, <2>3, <2>4
<1>15. ReportsInv'
  BY <1>1, <1>13 DEF ReportsInv, Under
<1>16. Walking' => main' = "emitted"
  BY <1>4
<1> QED
  BY <1>10, <1>11, <1>12, <1>14, <1>15, <1>16 DEF StackInv

(* No other step changes the stack or what the walk emitted. *)
LEMMA StackStep ==
  ASSUME TypeOK, StageKnown, Numbers, OnlyEntriesCommitted, EmittedInOrder, StackInv, [Next]_vars
  PROVE  StackInv'
<1>1. CASE WalkStep
  BY <1>1, ReplaceStep, VisitStep
<1>2. CASE ~WalkStep
  <2>1. stack' = stack /\ errors' = errors /\ quit' = quit
    BY <1>2, NextIs DEF AfterWalk, EndWalk, Collect, CommitNext, NothingNext, EndDrain, Finish,
       DropChannels, JoinAndFail, Receive, Deliver, Leave, vars, walkVars
  <2>2. Walking' => main' = main
    BY <1>2, NextIs DEF AfterWalk, EndWalk, Collect, CommitNext, NothingNext, EndDrain, Finish,
       DropChannels, JoinAndFail, Receive, Deliver, Leave, vars, Walking
  <2>3. Failing => Failing'
    BY <1>2, NextIs DEF AfterWalk, EndWalk, Collect, CommitNext, NothingNext, EndDrain, Finish,
       DropChannels, JoinAndFail, Receive, Deliver, Leave, vars, Failing
  <2>4. Walking /\ ~Walking' => stack = <<>>
    BY <1>2, NextIs DEF AfterWalk, EndWalk, Collect, CommitNext, NothingNext, EndDrain, Finish,
       DropChannels, JoinAndFail, Receive, Deliver, Leave, vars, Walking
  <2>5. ASSUME Walking' PROVE \A i, m : Owes(i, m)' <=> Owes(i, m)
    BY <2>1, <2>2, <2>5 DEF Owes
  <2>6. (~Failing' => EmittedStill) /\ \A k, m : Emitted(k, m)' => Emitted(k, m)
    BY <1>2, EmittedSteps DEF EmittedStill, StackInv
  <2>7. FramesFit'
    BY <2>1 DEF StackInv, FramesFit
  <2>8. ASSUME Walking' PROVE StackInOrder' /\ StackComesLater'
    <3>1. Walking /\ StackInOrder /\ StackComesLater
      BY <2>2, <2>8 DEF Walking, StackInv
    <3> QED
      BY <2>1, <2>5, <2>6, <2>8, <3>1 DEF StackInOrder, StackComesLater
  <2>9. stack = <<>> => 1..Len(stack) = {}
    OBVIOUS
  <2>10. NoEntryForgotten'
    <3> SUFFICES ASSUME ~Failing', ~quit', NEW m \in Entries
                 PROVE  (\E k : Emitted(k, m)') \/ (Walking' /\ \E i \in 1..Len(stack') : Owes(i, m)')
      BY DEF NoEntryForgotten
    <3>1. (\E k : Emitted(k, m)) \/ (Walking /\ \E i \in 1..Len(stack) : Owes(i, m))
      BY <2>1, <2>3 DEF StackInv, NoEntryForgotten
    <3>2. CASE \E k : Emitted(k, m)
      BY <2>6, <3>2 DEF EmittedStill
    <3>3. CASE Walking /\ \E i \in 1..Len(stack) : Owes(i, m)
      BY <2>1, <2>4, <2>5, <2>9, <3>3
    <3> QED
      BY <3>1, <3>2, <3>3
  <2>11. ReportsInv'
    <3>1. ReportsInv
      BY DEF StackInv
    <3>2. \A i, m : Under(i, m)' <=> Under(i, m)
      BY <2>1 DEF Under
    <3> QED
      BY <2>1, <2>3, <2>4, <2>9, <3>1, <3>2 DEF ReportsInv
  <2> QED
    BY <2>7, <2>8, <2>10, <2>11 DEF StackInv
<1> QED
  BY <1>1, <1>2

-----------------------------------------------------------------------------
(* The invariant                                                             *)

OrderInv ==
  /\ TypeOK /\ StageKnown /\ Numbers
  /\ OnlyEntriesCommitted /\ EmittedInOrder /\ StackInv /\ CausesKnown

(* The run quits, or fails, only with a node that may have been its cause. *)
LEMMA CausesStep ==
  ASSUME TypeOK, StageKnown, Numbers, FramesFit, CausesKnown, [Next]_vars
  PROVE  CausesKnown'
<1>0. commits \in Seq(Node) /\ Len(commits) \in Nat /\ OnePlaceEach /\ NumbersInRange
  BY LenProperties DEF TypeOK, Numbers
<1>1. CASE WalkStep
  <2>1. Skips \/ Hands(Top.node) \/ Performs(Top.node)
    BY <1>1, WalkEmits
  <2>2. CASE Skips \/ Hands(Top.node)
    BY <2>2 DEF Skips, NoEmit, Hands, CausesKnown, Failing
  <2>3. CASE Performs(Top.node)
    <3>1. PICK x \in Node : x = Top.node
      BY <2>3 DEF Performs
    <3>2. \A n : Listed(commits', n) <=> Listed(commits, n) \/ n = x
      BY <1>0, <2>3, <3>1, ListedAppend DEF Performs
    <3>3. ~quit /\ ~Failing /\ quit \in BOOLEAN
      BY <2>3 DEF Performs, StageKnown, Walking, Failing, TypeOK
    <3> QED
      BY <2>3, <3>1, <3>2, <3>3 DEF Performs, CausesKnown, Failing
  <2> QED
    BY <2>1, <2>2, <2>3
<1>2. CASE CommitNext
  <2>1. PICK item \in buffered : /\ commits' = Append(commits, item[2])
                                 /\ \/ item[3] /\ UNCHANGED main
                                    \/ item[2] \in MayFail /\ main' = "failed"
    BY <1>2 DEF CommitNext
  <2>2. item[2] \in Node
    BY DEF TypeOK, Result
  <2>3. \A n : Listed(commits', n) <=> Listed(commits, n) \/ n = item[2]
    BY <1>0, <2>1, <2>2, ListedAppend
  <2>4. quit' = quit /\ main = "commit"
    BY <1>2 DEF CommitNext, walkVars
  <2>5. Failing' => \E n \in MayFail : Listed(commits', n)
    BY <2>1, <2>3, <2>4 DEF Failing
  <2>6. quit' => \E n \in MayQuit : Listed(commits', n)
    BY <2>3, <2>4 DEF CausesKnown
  <2> QED
    BY <2>5, <2>6 DEF CausesKnown
<1>3. CASE ~WalkStep /\ ~CommitNext
  <2>1. /\ commits' = commits /\ quit' = quit
        /\ Failing' => Failing
    BY <1>3, NextIs DEF AfterWalk, EndWalk, Collect, NothingNext, EndDrain, Finish, DropChannels,
       JoinAndFail, Receive, Deliver, Leave, vars, walkVars, Failing
  <2> QED
    BY <2>1 DEF CausesKnown
<1> QED
  BY <1>1, <1>2, <1>3

(* At first nothing is numbered, and the stack holds the start paths. *)
LEMMA OrderInit == Init => OrderInv
<1> SUFFICES ASSUME Init PROVE OrderInv
  OBVIOUS
<1>0. /\ main = "walk" /\ nextSeq = 0 /\ nextReady = 0 /\ buffered = {} /\ work = <<>> /\ ready = <<>>
      /\ commits = <<>> /\ quit = FALSE /\ errors = {} /\ workOpen = TRUE /\ readyOpen = TRUE
      /\ evaluator = [e \in Evaluator |-> IF Inline THEN Gone ELSE Idle]
      /\ stack = [i \in 1..Len(StartPaths) |-> Visit(StartPaths[i])]
  BY DEF Init
<1>1. StartPaths \in Seq(Node) /\ Len(StartPaths) \in Nat
  BY WalkTreeAssumption, LenProperties
<1>2. /\ stack \in Seq(Frame) /\ Len(stack) = Len(StartPaths)
      /\ \A i \in 1..Len(stack) : /\ stack[i].node = StartPaths[i] /\ ~stack[i].complete
                                  /\ StartPaths[i] \in Node /\ StartPaths[i] \in Root
  BY <1>0, <1>1, ElementOfSeq DEF Visit, Frame, Root, RangeOf
<1>3. Walking /\ ~Failing
  BY <1>0 DEF Walking, Failing
<1>4. \A s, n : ~Carried(s, n)
  <2>1. \A s, n : <<s, n>> # Idle /\ <<s, n>> # Gone
    <3>1. Len(Idle) = 1 /\ Len(Gone) = 1 /\ \A s, n : Len(<<s, n>>) = 2
      BY DEF Idle, Gone
    <3> QED
      BY <3>1
  <2>2. \A e \in Evaluator : evaluator[e] \in {Idle, Gone}
    BY <1>0
  <2>3. 1..Len(work) = {} /\ 1..Len(ready) = {}
    BY <1>0
  <2>4. \A q, i, s, n : ~Carries(q, i, s, n)
    BY <1>0, <2>1, <2>2, <2>3 DEF Carries
  <2> QED
    BY <2>4 DEF Carried
<1>5. \A k, n : ~Emitted(k, n)
  BY <1>0, <1>4 DEF Emitted
<1>6. TypeOK
  <2>1. /\ evaluator \in [Evaluator -> Item \cup {Idle, Gone}]
        /\ work \in Seq(Item) /\ ready \in Seq(Result) /\ commits \in Seq(Node)
    BY <1>0
  <2>2. nextSeq \in Nat /\ nextReady \in 0..nextSeq /\ buffered \subseteq Result /\ errors \subseteq Node
    BY <1>0
  <2> QED
    BY <1>0, <1>2, <2>1, <2>2 DEF TypeOK
<1>7. StageKnown
  <2>1. ~Inline => \A e \in Evaluator : evaluator[e] # Gone
    BY <1>0 DEF Idle, Gone
  <2> QED
    BY <1>0, <1>3, <1>4, <2>1 DEF StageKnown
<1>8. Numbers
  BY <1>0, <1>4 DEF Numbers, NumbersInRange, OnePlaceEach, NoneLost, Carried
<1>9. OnlyEntriesCommitted /\ EmittedInOrder
  BY <1>0, <1>5 DEF OnlyEntriesCommitted, EmittedInOrder
<1>10. CausesKnown
  BY <1>0, <1>3 DEF CausesKnown
<1>11. \A i \in 1..Len(stack) : \A m : /\ Owes(i, m) <=> StartPaths[i] \in WayTo(m)
                                       /\ Under(i, m) <=> StartPaths[i] \in WayTo(m)
  BY <1>0, <1>2 DEF Owes, Under
<1>12. FramesFit
  BY <1>2, ReachedIs DEF FramesFit
<1>13. StackInOrder
  <2> SUFFICES ASSUME NEW i \in 1..Len(stack), NEW k \in 1..Len(stack), NEW m \in Node, NEW n \in Node,
                      i < k, Owes(i, m), Owes(k, n)
               PROVE  Precedes(m, n)
    BY DEF StackInOrder
  <2>1. StartPaths[i] \in WayTo(m) /\ StartPaths[k] \in WayTo(n)
    BY <1>11
  <2>2. Earlier(StartPaths[i], StartPaths[k])
    BY <1>2 DEF Earlier, ListedBefore
  <2> QED
    BY <2>1, <2>2 DEF Precedes
<1>14. \A m \in Node : \E i \in 1..Len(stack) : StartPaths[i] \in WayTo(m)
  BY ZenonT(120), <1>2, RootAbove DEF WayTo, Root, RangeOf
<1>15. NoEntryForgotten
  BY <1>3, <1>11, <1>14, EntriesAreNodes DEF NoEntryForgotten
<1>16. ReportsInv
  <2>1. \A m \in FaultyNodes : m \in Node
    BY DEF FaultyNodes
  <2> QED
    BY <1>0, <1>3, <1>11, <1>14, <2>1 DEF ReportsInv
<1>17. StackComesLater
  BY <1>5 DEF StackComesLater
<1> QED
  BY <1>6, <1>7, <1>8, <1>9, <1>10, <1>12, <1>13, <1>15, <1>16, <1>17 DEF OrderInv, StackInv

LEMMA OrderStep == OrderInv /\ [Next]_vars => OrderInv'
<1> SUFFICES ASSUME OrderInv, [Next]_vars PROVE OrderInv'
  OBVIOUS
<1>0. /\ TypeOK /\ StageKnown /\ Numbers /\ OnlyEntriesCommitted /\ EmittedInOrder /\ StackInv
      /\ CausesKnown /\ NumbersInRange /\ OnePlaceEach /\ NoneLost /\ FramesFit
      /\ Walking => StackComesLater
  BY DEF OrderInv, Numbers, StackInv
<1>1. TypeOK'
  BY <1>0, TypeStep
<1>2. StageKnown'
  BY <1>0, StageStep
<1>3. Numbers'
  <2>1. OnePlaceEach'
    BY <1>0, NumberSteps
  <2>2. NumbersInRange' /\ NoneLost'
    BY <1>0, NumbersStep
  <2> QED
    BY <2>1, <2>2 DEF Numbers
<1>4. OnlyEntriesCommitted'
  BY <1>0, EmittedSteps
<1>5. EmittedInOrder'
  BY <1>0, EmittedStep
<1>6. StackInv'
  BY <1>0, StackStep
<1>7. CausesKnown'
  BY <1>0, CausesStep
<1> QED
  BY <1>1, <1>2, <1>3, <1>4, <1>5, <1>6, <1>7 DEF OrderInv

LEMMA OrderInvariant == Spec => []OrderInv
BY OrderInit, OrderStep, PTL DEF Spec

-----------------------------------------------------------------------------
(* What a run has done                                                       *)

(* The ordered engine's state keeps its types: a work item and a result name  *)
(* a number handed out before, and the queue never waits for a number the     *)
(* walk has not given.                                                       *)
THEOREM OrderedTypesKept == Spec => []TypeOK
<1>1. OrderInv => TypeOK
  BY DEF OrderInv
<1> QED
  BY <1>1, OrderInvariant, PTL

(* No entry's number is lost or used twice between the walking thread, the    *)
(* evaluator threads and the ordered queue, in whatever order they run.       *)
THEOREM EveryNumberIsKept == Spec => []EveryNumberInFlight
<1>1. ASSUME OrderInv PROVE EveryNumberInFlight
  <2> SUFFICES ASSUME ~Inline, ~Failing PROVE InFlight = nextReady..(nextSeq - 1)
    BY DEF EveryNumberInFlight, Failing
  <2>1. \A s, n : Carried(s, n) => s \in InFlight
    <3>1. \A s, n : <<s, n>> # Idle /\ <<s, n>> # Gone
      <4>1. Len(Idle) = 1 /\ Len(Gone) = 1 /\ \A s, n : Len(<<s, n>>) = 2
        BY DEF Idle, Gone
      <4> QED
        BY <4>1
    <3> SUFFICES ASSUME NEW q, NEW i, NEW s, NEW n, Carries(q, i, s, n) PROVE s \in InFlight
      BY DEF Carried
    <3>2. CASE q = -1 /\ i \in 1..Len(work) /\ work[i] = <<s, n>>
      <4>1. work[i][1] = s
        BY <3>2
      <4> QED
        BY <3>2, <4>1 DEF InFlight
    <3>3. CASE q \in Evaluator /\ i = 0 /\ evaluator[q] = <<s, n>>
      <4>1. q \in Holding /\ evaluator[q][1] = s
        BY <3>1, <3>3 DEF Holding
      <4> QED
        BY <4>1 DEF InFlight
    <3>4. CASE q = -2 /\ i \in 1..Len(ready) /\ ready[i][1] = s
      BY <3>4 DEF InFlight
    <3>5. CASE q = -3 /\ i \in buffered /\ i[1] = s
      BY <3>5 DEF InFlight
    <3> QED
      BY <3>2, <3>3, <3>4, <3>5 DEF Carries
  <2>2. \A s \in InFlight : \E n : Carried(s, n)
    <3>0. /\ work \in Seq(Item) /\ evaluator \in [Evaluator -> Item \cup {Idle, Gone}]
      BY <1>1 DEF OrderInv, TypeOK
    <3>1. ASSUME NEW i \in 1..Len(work) PROVE \E n : Carried(work[i][1], n)
      <4>1. work[i] \in Item
        BY <3>0, ElementOfSeq
      <4>2. work[i] = <<work[i][1], work[i][2]>>
        BY <4>1 DEF Item
      <4>3. Carries(-1, i, work[i][1], work[i][2])
        BY <4>2 DEF Carries
      <4> QED
        BY <4>3 DEF Carried
    <3>2. ASSUME NEW e \in Holding PROVE \E n : Carried(evaluator[e][1], n)
      <4>1. e \in Evaluator /\ evaluator[e] \in Item
        BY <3>0 DEF Holding
      <4>2. evaluator[e] = <<evaluator[e][1], evaluator[e][2]>>
        BY <4>1 DEF Item
      <4>3. Carries(e, 0, evaluator[e][1], evaluator[e][2])
        BY <4>1, <4>2 DEF Carries
      <4> QED
        BY <4>3 DEF Carried
    <3>3. ASSUME NEW i \in 1..Len(ready) PROVE \E n : Carried(ready[i][1], n)
      <4>1. Carries(-2, i, ready[i][1], ready[i][2])
        BY DEF Carries
      <4> QED
        BY <4>1 DEF Carried
    <3>4. ASSUME NEW item \in buffered PROVE \E n : Carried(item[1], n)
      <4>1. Carries(-3, item, item[1], item[2])
        BY DEF Carries
      <4> QED
        BY <4>1 DEF Carried
    <3> QED
      BY <3>1, <3>2, <3>3, <3>4 DEF InFlight
  <2>3. NumbersInRange /\ NoneLost
    BY <1>1 DEF OrderInv, Numbers
  <2> QED
    BY <2>1, <2>2, <2>3 DEF NumbersInRange, NoneLost
<1> QED
  BY <1>1, OrderInvariant, PTL

(* An entry is never committed after one that comes later in the sequential   *)
(* walk, nor a second time, although evaluators finish in any order.          *)
CommittedInOrder ==
  \A i, k \in 1..Len(commits) : i < k => Precedes(commits[i], commits[k]) /\ commits[i] # commits[k]

LEMMA NotBeforeItself == \A n \in Node : ~Precedes(n, n)
BY PrecedesIsStrict

LEMMA CommitsAreEmitted ==
  ASSUME OrderInv
  PROVE  /\ Len(commits) \in Nat
         /\ \A i \in 1..Len(commits) : /\ i - 1 \in 0..(Len(commits) - 1)
                                       /\ Emitted(i - 1, commits[i]) /\ commits[i] \in Entries
<1>1. Len(commits) \in Nat /\ OnlyEntriesCommitted
  BY LenProperties DEF OrderInv, TypeOK
<1>2. ASSUME NEW i \in 1..Len(commits) PROVE i - 1 \in 0..(Len(commits) - 1) /\ Emitted(i - 1, commits[i])
  <2>1. i - 1 \in 0..(Len(commits) - 1) /\ (i - 1) + 1 = i
    BY <1>1
  <2> QED
    BY <2>1 DEF Emitted
<1> QED
  BY <1>1, <1>2 DEF OnlyEntriesCommitted

(* The actions of the entries are performed in the order of the sequential    *)
(* walk: CommitNext takes results by their numbers, and the numbers are given *)
(* in that order.                                                            *)
THEOREM ActionsFollowTheWalk == Spec => []CommittedInOrder
<1>1. ASSUME OrderInv PROVE CommittedInOrder
  <2> SUFFICES ASSUME NEW i \in 1..Len(commits), NEW k \in 1..Len(commits), i < k
               PROVE  Precedes(commits[i], commits[k]) /\ commits[i] # commits[k]
    BY DEF CommittedInOrder
  <2>1. /\ Emitted(i - 1, commits[i]) /\ Emitted(k - 1, commits[k]) /\ i - 1 < k - 1
        /\ commits[i] \in Node
    BY <1>1, CommitsAreEmitted, EntriesAreNodes
  <2>2. Precedes(commits[i], commits[k])
    BY <1>1, <2>1 DEF OrderInv, EmittedInOrder
  <2> QED
    BY <2>1, <2>2, NotBeforeItself
<1> QED
  BY <1>1, OrderInvariant, PTL

(* Before the walk fails or quits, what it owes nobody was emitted; at the    *)
(* end nothing is on its way any more.                                       *)
LEMMA CompleteHasCommitted ==
  ASSUME OrderInv, main \in {"flush", "done"}, ~quit
  PROVE  \A m \in Entries : Listed(commits, m)
<1>1. Len(commits) \in Nat /\ Inline \in BOOLEAN
  BY LenProperties, OrderedAssumption DEF OrderInv, TypeOK
<1>2. \A k, m : ~Carried(k, m)
  BY <1>1 DEF OrderInv, StageKnown
<1>3. ~Failing /\ ~Walking
  BY DEF Failing, Walking
<1>4. ASSUME NEW m \in Entries PROVE Listed(commits, m)
  <2>1. PICK k : Emitted(k, m)
    BY <1>3 DEF OrderInv, StackInv, NoEntryForgotten
  <2>2. k + 1 \in 1..Len(commits) /\ commits[k + 1] = m
    BY <1>1, <1>2, <2>1 DEF Emitted
  <2> QED
    BY <2>2 DEF Listed
<1> QED
  BY <1>4

(* A complete ordered run has evaluated the entries a parallel run of the     *)
(* same command evaluates, and nothing else.                                 *)
THEOREM OrderedRunsAreComplete == Spec => []SameEntriesAsParallel
<1>1. ASSUME OrderInv PROVE SameEntriesAsParallel
  <2> SUFFICES ASSUME Verdict = "complete" PROVE RangeOf(commits) = Entries
    BY DEF SameEntriesAsParallel
  <2>1. main = "done" /\ ~quit
    BY <1>1 DEF Verdict, OrderInv, TypeOK
  <2>2. \A m \in Entries : Listed(commits, m)
    BY <1>1, <2>1, CompleteHasCommitted
  <2>3. \A i \in 1..Len(commits) : commits[i] \in Entries
    BY <1>1, CommitsAreEmitted
  <2> QED
    BY <2>2, <2>3 DEF RangeOf, Listed
<1> QED
  BY <1>1, OrderInvariant, PTL

(* A walk that ended well reported every node it could not load, check,       *)
(* identify, enter or list to the end, and no others but the directories that *)
(* could not be opened.                                                      *)
THEOREM OrderedFailuresReported == Spec => []EveryFailureReported
<1>1. ASSUME OrderInv PROVE EveryFailureReported
  <2> SUFFICES ASSUME Verdict = "complete"
               PROVE  /\ FaultyNodes \subseteq errors
                      /\ errors \subseteq FaultyNodes \cup {n \in Unreadable : Reached[n] /\ Opens(n)}
    BY DEF EveryFailureReported
  <2>1. main = "done" /\ ~quit
    BY <1>1 DEF Verdict, OrderInv, TypeOK
  <2>2. ~Failing /\ ~Walking
    BY <2>1 DEF Failing, Walking
  <2> QED
    BY <1>1, <2>1, <2>2 DEF OrderInv, StackInv, ReportsInv
<1> QED
  BY <1>1, OrderInvariant, PTL

-----------------------------------------------------------------------------
(* The promise                                                               *)

Count(n) == Cardinality({i \in 1..Len(commits) : commits[i] = n})
Seen == [n \in Entries |-> Count(n)]

LEMMA CountsAre ==
  ASSUME Len(commits) \in Nat
  PROVE  \A n : /\ Count(n) \in Nat
                /\ Count(n) > 0 <=> Listed(commits, n)
<1> SUFFICES ASSUME NEW n PROVE Count(n) \in Nat /\ (Count(n) > 0 <=> Listed(commits, n))
  OBVIOUS
<1> DEFINE S == {i \in 1..Len(commits) : commits[i] = n}
<1>1. IsFiniteSet(1..Len(commits))
  BY FS_Interval
<1>2. IsFiniteSet(S)
  BY <1>1, FS_Subset
<1>3. S # {} <=> Listed(commits, n)
  BY DEF Listed
<1> HIDE DEF S
<1>4. Cardinality(S) \in Nat /\ (Cardinality(S) = 0 <=> S = {})
  BY <1>2, FS_CardinalityType, FS_EmptySet
<1>5. Count(n) = Cardinality(S)
  BY DEF Count, S
<1> QED
  BY <1>3, <1>4, <1>5

LEMMA CountsChange ==
  ASSUME commits \in Seq(Node), NEW x \in Entries, commits' = Append(commits, x), ~Listed(commits, x)
  PROVE  Seen' = [Seen EXCEPT ![x] = 1] /\ Seen[x] = 0
<1>1. /\ Len(commits') = Len(commits) + 1 /\ Len(commits) \in Nat
      /\ \A i \in 1..Len(commits) : commits'[i] = commits[i]
      /\ commits'[Len(commits) + 1] = x
  BY EntriesAreNodes, AppendProperties, LenProperties
<1>2. Seen[x] = 0
  <2>1. Count(x) \in Nat /\ ~(Count(x) > 0)
    BY <1>1, CountsAre
  <2> QED
    BY <2>1 DEF Seen
<1>3. Count(x)' = 1
  <2>1. {i \in 1..Len(commits') : commits'[i] = x} = {Len(commits) + 1}
    BY <1>1 DEF Listed
  <2> QED
    BY <2>1, FS_Singleton DEF Count
<1>4. ASSUME NEW n, n # x PROVE Count(n)' = Count(n)
  <2>1. {i \in 1..Len(commits') : commits'[i] = n} = {i \in 1..Len(commits) : commits[i] = n}
    BY <1>1, <1>4
  <2> QED
    BY <2>1 DEF Count
<1>5. \A n \in Entries : Seen'[n] = IF n = x THEN 1 ELSE Seen[n]
  BY <1>3, <1>4 DEF Seen
<1> QED
  BY <1>2, <1>5 DEF Seen

(* When the walk emits an entry, what it still owes comes after it. *)
LEMMA OwedComesLater ==
  ASSUME TypeOK, StageKnown, StackInv, WalkStep, main = "walk", ~NoEmit, Owes(1, Top.node),
         NEW i \in 1..Len(stack), NEW m \in Node, Owes(i, m)
  PROVE  ~Precedes(m, Top.node)
<1>0. PICK n \in Node : n = Top.node
  BY WalkMoves
<1>1. /\ stack # <<>> /\ stack \in Seq(Frame) /\ StackInOrder /\ FramesFit
      /\ Top = stack[1] /\ 1 \in 1..Len(stack) /\ Len(stack) \in Nat
  BY WalkMoves, TopIsFrame DEF TypeOK, StackInv
<1>2. CASE i # 1
  <2>1. Precedes(n, m)
    BY <1>0, <1>1, <1>2 DEF StackInOrder
  <2> QED
    BY <1>0, <2>1, PrecedesIsStrict
<1>3. CASE i = 1 /\ Top.complete
  BY <1>0, <1>1, <1>3, NotBeforeItself DEF Owes
<1>4. CASE i = 1 /\ ~Top.complete
  <2>1. n \in WayTo(m)
    BY <1>0, <1>1, <1>4 DEF Owes
  <2>2. VisitEntry /\ EmittedFirst(n)
    BY <1>0, <1>4 DEF WalkStep, PopComplete, PopFailing, DoNotDescend, RefuseLoop, ReadFails, Descend, VisitEntry
  <2>3. CASE n \in Ancestors[m]
    <3>1. n \in Dir
      <4>1. PICK c \in Children(n) : TRUE
        BY <2>3, WayDown
      <4>2. Items[n] # <<>>
        BY <4>1 DEF Children, RangeOf
      <4> QED
        BY <4>2, WalkTreeAssumption
    <3>2. Precedes(n, m)
      BY <2>2, <2>3, <3>1 DEF EmittedFirst, Precedes
    <3> QED
      BY <1>0, <3>2, PrecedesIsStrict
  <2>4. CASE m = n
    BY <1>0, <2>4, NotBeforeItself
  <2> QED
    BY <2>1, <2>3, <2>4 DEF WayTo
<1> QED
  BY <1>2, <1>3, <1>4

LEMMA PromiseInit == Init => Abstract!TravInit
<1> SUFFICES ASSUME Init PROVE Abstract!TravInit
  OBVIOUS
<1>1. commits = <<>> /\ main = "walk"
  BY DEF Init
<1>2. \A n : Count(n) = 0
  <2>1. Len(commits) \in Nat /\ \A n : ~Listed(commits, n)
    BY <1>1 DEF Listed
  <2> QED
    BY <2>1, CountsAre
<1>3. Seen = [n \in Entries |-> 0]
  BY <1>2 DEF Seen
<1> QED
  BY <1>1, <1>3 DEF Abstract!TravInit, Seen, Count, Verdict

(* A commit evaluates an entry whose predecessors have all been evaluated. *)
LEMMA CommitStep ==
  ASSUME OrderInv, OrderInv', [Next]_vars, NEW x \in Entries, commits' = Append(commits, x)
  PROVE  ~Listed(commits, x) /\ \A m \in Entries : Precedes(m, x) => Listed(commits, m)
<1>0. /\ commits \in Seq(Node) /\ x \in Node /\ Len(commits) \in Nat
      /\ TypeOK /\ StageKnown /\ Numbers /\ FramesFit /\ OnlyEntriesCommitted /\ EmittedInOrder
      /\ StackInv /\ NumbersInRange /\ OnePlaceEach
  BY EntriesAreNodes, LenProperties DEF OrderInv, TypeOK, StackInv, Numbers
<1>1. /\ Len(commits') = Len(commits) + 1
      /\ \A i \in 1..Len(commits) : commits'[i] = commits[i]
      /\ commits'[Len(commits) + 1] = x
  BY <1>0, AppendProperties
<1> DEFINE last == Len(commits)
<1>3. ~Listed(commits, x)
  <2> SUFFICES ASSUME NEW i \in 1..Len(commits), commits[i] = x PROVE FALSE
    BY DEF Listed
  <2>1. i - 1 \in 0..(Len(commits') - 1) /\ (i - 1) + 1 = i /\ i - 1 < last
    BY <1>0, <1>1
  <2>2. commits'[i] = x
    BY <1>1
  <2>3. PICK k, l : k = i - 1 /\ l = last
    OBVIOUS
  <2>4. Emitted(k, x)' /\ Emitted(l, x)'
    BY <1>0, <1>1, <2>1, <2>2, <2>3 DEF Emitted
  <2>5. k < l
    BY <2>1, <2>3
  <2>6. Precedes(x, x)
    BY <2>4, <2>5 DEF OrderInv, EmittedInOrder
  <2> QED
    BY <1>0, <2>6, NotBeforeItself
<1>4. ASSUME NEW m \in Entries, Precedes(m, x)
      PROVE  Listed(commits, m)
  <2>1. m \in Node /\ m # x
    BY <1>0, <1>4, EntriesAreNodes, NotBeforeItself
  <2>2. commits' # commits
    BY <1>0, <1>1
  <2>3. CASE WalkStep
    <3>1. Performs(Top.node) /\ Top.node \in Entries /\ main = "walk" /\ Owes(1, Top.node)
      BY <1>0, <2>2, <2>3, WalkEmits DEF Skips, NoEmit, Hands
    <3>2. x = Top.node
      BY <1>0, <1>1, <3>1, AppendProperties, EntriesAreNodes DEF Performs
    <3>3. Inline /\ ~Failing /\ ~quit
      BY <1>0, <3>1 DEF Performs, StageKnown, Walking, Failing
    <3>4. ~NoEmit
      BY <2>2 DEF NoEmit
    <3>5. \A i \in 1..Len(stack) : ~Owes(i, m)
      BY <1>0, <1>4, <2>1, <2>3, <3>1, <3>2, <3>4, OwedComesLater
    <3>6. PICK k : Emitted(k, m)
      BY <1>0, <3>3, <3>5 DEF StackInv, NoEntryForgotten
    <3>7. k + 1 \in 1..Len(commits) /\ commits[k + 1] = m
      BY <1>0, <3>3, <3>6 DEF Emitted, StageKnown
    <3> QED
      BY <3>7 DEF Listed
  <2>4. CASE CommitNext
    <3>1. main = "commit"
      BY <2>4 DEF CommitNext
    <3>2. ~Failing /\ ~quit /\ ~Walking
      BY <1>0, <3>1 DEF Failing, Walking, StageKnown
    <3>3. PICK k : Emitted(k, m)
      BY <1>0, <3>2 DEF StackInv, NoEntryForgotten
    <3>4. Emitted(last, x)
      <4>1. EmittedStill
        <5>1. ~WalkStep
          BY <3>1 DEF WalkStep, PopComplete, PopFailing, VisitEntry, DoNotDescend, RefuseLoop, ReadFails,
             Descend, Descending
        <5> QED
          BY <1>0, <3>2, <5>1, EmittedSteps
      <4>2. PICK l : l = last
        OBVIOUS
      <4>3. l \in 0..(Len(commits') - 1) /\ commits'[l + 1] = x
        BY <1>0, <1>1, <4>2
      <4>4. Emitted(l, x)'
        BY <4>3 DEF Emitted
      <4> QED
        BY <4>1, <4>2, <4>4 DEF EmittedStill
    <3>5. k \in Nat
      <4>1. Total \in Nat /\ k \in 0..(Total - 1)
        BY <1>0, <3>3, EmittedAre
      <4> QED
        BY <4>1
    <3>6. k < last
      <4>1. k # last
        BY <1>0, <2>1, <3>3, <3>4 DEF EmittedInOrder
      <4>2. ~(last < k)
        <5> SUFFICES ASSUME last < k PROVE FALSE
          OBVIOUS
        <5>1. Precedes(x, m)
          BY <1>0, <3>3, <3>4 DEF EmittedInOrder
        <5> QED
          BY <1>0, <1>4, <2>1, <5>1, PrecedesIsStrict
      <4> QED
        BY <1>0, <3>5, <4>1, <4>2
    <3>7. k \in 0..(Len(commits) - 1)
      BY <1>0, <3>5, <3>6
    <3>8. ~Carried(k, m)
      BY <1>0, <3>7, EmittedAre
    <3>9. commits[k + 1] = m /\ k + 1 \in 1..Len(commits)
      BY <1>0, <3>3, <3>7, <3>8 DEF Emitted
    <3> QED
      BY <3>9 DEF Listed
  <2>5. CASE ~WalkStep /\ ~CommitNext
    BY <2>2, <2>5, NextIs DEF AfterWalk, EndWalk, Collect, NothingNext, EndDrain, Finish, DropChannels,
       JoinAndFail, Receive, Deliver, Leave, vars
  <2> QED
    BY <2>3, <2>4, <2>5
<1> QED
  BY <1>3, <1>4

LEMMA PromiseStep ==
  ASSUME OrderInv, OrderInv', [Next]_vars
  PROVE  Abstract!TravNext \/ UNCHANGED <<Seen, Verdict>>
<1>0. /\ commits \in Seq(Node) /\ Len(commits) \in Nat
      /\ TypeOK /\ StageKnown /\ Numbers /\ FramesFit /\ OnlyEntriesCommitted /\ EmittedInOrder
      /\ StackInv /\ NumbersInRange /\ OnePlaceEach /\ CausesKnown
  BY LenProperties DEF OrderInv, TypeOK, StackInv, Numbers
<1>1. \A n \in Entries : Seen[n] > 0 <=> Listed(commits, n)
  BY <1>0, CountsAre DEF Seen
<1>2. ASSUME NEW x \in Entries, commits' = Append(commits, x), Verdict = "running", Verdict' = "running"
      PROVE  Abstract!TravNext
  <2>1. Seen' = [Seen EXCEPT ![x] = 1] /\ Seen[x] = 0
    BY <1>0, <1>2, CommitStep, CountsChange
  <2>2. Predecessors[x] \subseteq {n \in Entries : Seen[n] > 0}
    BY <1>1, <1>2, CommitStep DEF Predecessors
  <2>3. Abstract!Evaluate(x)
    BY <1>2, <2>1, <2>2 DEF Abstract!Evaluate, Abstract!Evaluated, Seen, Count
  <2> QED
    BY <2>3 DEF Abstract!TravNext
<1>3. ASSUME commits' = commits PROVE UNCHANGED Seen
  BY <1>3 DEF Seen, Count
<1>4. CASE WalkStep
  <2>1. /\ Walking /\ main' \in {"walk", "emitted", "flush", "failed"}
        /\ commits' = commits \/ (commits' = Append(commits, Top.node) /\ Top.node \in Entries)
    BY <1>0, <1>4, WalkMoves, WalkEmits DEF Skips, NoEmit, Hands, Performs
  <2>2. Verdict = "running" /\ Verdict' = "running"
    BY <2>1 DEF Verdict, Walking
  <2>3. CASE commits' = commits
    BY <1>3, <2>2, <2>3
  <2>4. ASSUME commits' = Append(commits, Top.node), Top.node \in Entries PROVE Abstract!TravNext
    <3>1. PICK x \in Entries : x = Top.node
      BY <2>4
    <3> QED
      BY <1>2, <2>2, <2>4, <3>1
  <2> QED
    BY <2>1, <2>3, <2>4
<1>5. CASE CommitNext
  <2>1. main = "commit" /\ main' \in {"commit", "failed"}
    BY <1>5 DEF CommitNext
  <2>2. Verdict = "running" /\ Verdict' = "running"
    BY <2>1 DEF Verdict
  <2>3. PICK c : c = commits'[Len(commits) + 1]
    OBVIOUS
  <2>4. Carried(nextReady, c) /\ commits' = Append(commits, c)
    BY <1>0, <1>5, <2>3, CommitMoves
  <2>5. c \in Entries
    BY <1>0, <2>4 DEF NumbersInRange
  <2> QED
    BY <1>2, <2>2, <2>4, <2>5
<1>6. CASE Finish
  <2>1. main = "flush" /\ main' = "done" /\ commits' = commits /\ quit' = quit /\ quit \in BOOLEAN
    BY <1>0, <1>6 DEF Finish, walkVars, TypeOK
  <2>2. Verdict = "running" /\ Verdict' = (IF quit THEN "stopped" ELSE "complete")
    BY <2>1 DEF Verdict
  <2>3. CASE quit
    <3>1. PICK n \in MayQuit : Listed(commits, n)
      BY <1>0, <2>3 DEF CausesKnown
    <3>2. n \in Entries
      BY <1>0, <3>1 DEF OnlyEntriesCommitted, Listed
    <3>3. Abstract!Stop
      BY <1>1, <2>2, <2>3, <3>1, <3>2 DEF Abstract!Stop, Abstract!Evaluated, Seen, Count
    <3> QED
      BY <1>3, <2>1, <2>2, <3>3 DEF Abstract!TravNext, Abstract!End, Seen, Count
  <2>4. CASE ~quit
    <3>1. \A m \in Entries : Listed(commits, m)
      BY <2>1, <2>4, CompleteHasCommitted
    <3>2. Abstract!Complete
      BY <1>1, <2>2, <2>4, <3>1 DEF Abstract!Complete, Abstract!Evaluated, Seen, Count
    <3> QED
      BY <1>3, <2>1, <2>2, <3>2 DEF Abstract!TravNext, Abstract!End, Seen, Count
  <2> QED
    BY <2>1, <2>3, <2>4
<1>7. CASE JoinAndFail
  <2>1. main = "unwind" /\ main' = "error" /\ commits' = commits
    BY <1>7 DEF JoinAndFail
  <2>2. Verdict = "running" /\ Verdict' = "failed"
    BY <2>1 DEF Verdict
  <2>3. PICK n \in MayFail : Listed(commits, n)
    BY <1>0, <2>1 DEF CausesKnown, Failing
  <2>4. n \in Entries
    BY <1>0, <2>3 DEF OnlyEntriesCommitted, Listed
  <2>5. Abstract!Fail
    BY <1>1, <2>2, <2>3, <2>4 DEF Abstract!Fail, Abstract!Evaluated, Seen, Count
  <2> QED
    BY <1>3, <2>1, <2>2, <2>5 DEF Abstract!TravNext, Abstract!End, Seen, Count
<1>8. CASE ~WalkStep /\ ~CommitNext /\ ~Finish /\ ~JoinAndFail
  <2>1. /\ commits' = commits /\ quit' = quit
        /\ main' = main \/ (main \notin {"done", "error"} /\ main' \notin {"done", "error"})
    BY <1>8, NextIs DEF AfterWalk, EndWalk, Collect, NothingNext, EndDrain, DropChannels,
       Receive, Deliver, Leave, vars, walkVars
  <2>2. UNCHANGED Verdict
    BY <2>1 DEF Verdict
  <2> QED
    BY <1>3, <2>1, <2>2
<1> QED
  BY <1>4, <1>5, <1>6, <1>7, <1>8

(* The ordered engine keeps the promise of a walk, but for its fairness: an   *)
(* entry is evaluated at most once and only after all that come before it in  *)
(* the sequential walk, and the run completes only with every entry           *)
(* evaluated, stops only after a -quit and fails only after a failed          *)
(* evaluation.                                                               *)
THEOREM OrderedEngineKeepsThePromise == Spec => Abstract!TravSafety
<1>1. Init => Abstract!TravInit
  BY PromiseInit
<1>2. OrderInv /\ OrderInv' /\ [Next]_vars => [Abstract!TravNext]_<<Seen, Verdict>>
  BY PromiseStep
<1>3. [Abstract!TravNext]_<<Seen, Verdict>> => [Abstract!TravNext]_(Abstract!travVars)
  BY DEF Seen, Count, Abstract!travVars
<1> QED
  BY <1>1, <1>2, <1>3, OrderInvariant, PTL DEF Spec, Abstract!TravSafety
=============================================================================
