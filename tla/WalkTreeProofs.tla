--------------------------- MODULE WalkTreeProofs ---------------------------
(***************************************************************************)
(* Lemmas about the tree of WalkTree, for every tree: the proofs about the *)
(* engines rest on them.                                                   *)
(***************************************************************************)
EXTENDS WalkTree, SequenceTheorems, FiniteSetTheorems, WellFoundedInduction, TLAPS

-----------------------------------------------------------------------------
(* Numbers (the library's theorems state this with an operator as parameter) *)

(* Every set of numbers that is not empty has a least element. *)
LEMMA LeastNumber ==
  ASSUME NEW S \in SUBSET Nat, S # {}
  PROVE  \E m \in S : \A n \in S : m <= n
<1>1. PICK m \in S : \A n \in S : ~ (<<n, m>> \in OpToRel(<, Nat))
  BY NatLessThanWellFounded, WFMin, Zenon
<1>2. \A n \in S : n < m => <<n, m>> \in OpToRel(<, Nat)
  BY DEF OpToRel
<1>3. \A n \in S : ~ (n < m)
  BY <1>1, <1>2, Zenon
<1> QED
  BY <1>3

(* A set that has 0 and, with a number, its successor has every number. *)
LEMMA NatSetInduction ==
  ASSUME NEW T, 0 \in T, \A n \in Nat : n \in T => n + 1 \in T
  PROVE  Nat \subseteq T
<1> SUFFICES ASSUME Nat \ T # {} PROVE FALSE
  OBVIOUS
<1>1. PICK D : D = Nat \ T
  OBVIOUS
<1>2. PICK m \in D : \A n \in D : m <= n
  BY <1>1, LeastNumber
<1>3. m - 1 \in Nat /\ m - 1 \notin D
  BY <1>1, <1>2
<1> QED
  BY <1>1, <1>2, <1>3

-----------------------------------------------------------------------------
(* The tree                                                                  *)

(* The children of a node are the nodes whose parent it is.                *)
LEMMA ChildrenAreNodes ==
  ASSUME NEW n \in Node
  PROVE  Children(n) \subseteq Node
<1>1. Items[n] \in Seq(Node \cup {BadItem})
  BY WalkTreeAssumption
<1>2. RangeOf(Items[n]) \subseteq Node \cup {BadItem}
  BY <1>1, ElementOfSeq DEF RangeOf
<1> QED
  BY <1>2 DEF Children

LEMMA RootsAreNodes == Root \subseteq Node
BY WalkTreeAssumption, ElementOfSeq DEF Root, RangeOf

LEMMA ParentsAreNodes ==
  ASSUME NEW n \in Node \ Root
  PROVE  Parent(n) \in Node /\ n \in Children(Parent(n))
<1>1. \E p \in Node : {q \in Node : n \in Children(q)} = {p}
  BY WalkTreeAssumption
<1>2. \E p \in Node : n \in Children(p)
  BY <1>1
<1> QED
  BY <1>2 DEF Parent

LEMMA ParentOfChild ==
  ASSUME NEW p \in Node, NEW n \in Children(p)
  PROVE  n \in Node \ Root /\ Parent(n) = p
<1>1. n \in Node \ Root
  BY WalkTreeAssumption, ChildrenAreNodes
<1>2. \E r \in Node : {q \in Node : n \in Children(q)} = {r}
  BY <1>1, WalkTreeAssumption
<1> QED
  BY <1>1, <1>2, ParentsAreNodes

(* What Reached is: there is a least set that has the start paths and,     *)
(* with a node that opens, its children.                                   *)
LEMMA ReachedIs ==
  \A n \in Node :
    Reached[n] = (n \in Root \/ (Reached[Parent(n)] /\ Opens(Parent(n))))
<1> DEFINE F(Y) == {n \in Node : n \in Root \/ (Parent(n) \in Y /\ Opens(Parent(n)))}
           X == {n \in Node : \A Y \in SUBSET Node : F(Y) \subseteq Y => n \in Y}
           step(f) == [n \in Node |->
                         n \in Root \/ (f[Parent(n)] /\ Opens(Parent(n)))]
           g == [n \in Node |-> n \in X]
<1>1. F(X) \subseteq X
  OBVIOUS
<1>2. F(F(X)) \subseteq F(X)
  BY <1>1
<1>3. X \subseteq F(X)
  BY <1>2
<1>4. \A n \in Node : n \in X <=> n \in Root \/ (Parent(n) \in X /\ Opens(Parent(n)))
  BY <1>1, <1>3
<1> HIDE DEF X
<1>5. g = step(g)
  <2>1. ASSUME NEW n \in Node \ Root
        PROVE  g[n] = (n \in Root \/ (g[Parent(n)] /\ Opens(Parent(n))))
    <3>1. g[Parent(n)] = (Parent(n) \in X) /\ g[n] = (n \in X)
      BY ParentsAreNodes
    <3>2. (n \in X) = (n \in Root \/ (Parent(n) \in X /\ Opens(Parent(n))))
      BY <1>4
    <3> QED
      BY <3>1, <3>2, Zenon
  <2>2. ASSUME NEW n \in Root
        PROVE  g[n] = (n \in Root \/ (g[Parent(n)] /\ Opens(Parent(n))))
    BY <1>4, RootsAreNodes, Zenon
  <2>3. step(g) = [n \in Node |-> g[n]]
    BY <2>1, <2>2, Zenon
  <2> QED
    BY <2>3
<1>6. Reached = CHOOSE f : f = step(f)
  BY DEF Reached
<1>7. Reached = step(Reached)
  <2> HIDE DEF g, step
  <2> QED
    BY <1>5, <1>6
<1> QED
  BY <1>7

(* What Ancestors is, by the same construction. *)
LEMMA AncestorsAre ==
  \A n \in Node :
    Ancestors[n] = IF n \in Root THEN {} ELSE Ancestors[Parent(n)] \cup {Parent(n)}
<1> DEFINE F(Y) == {b \in Node \X Node :
                      b[2] \notin Root /\ (b[1] = Parent(b[2]) \/ <<b[1], Parent(b[2])>> \in Y)}
           X == {b \in Node \X Node : \A Y \in SUBSET (Node \X Node) : F(Y) \subseteq Y => b \in Y}
           step(f) == [n \in Node |->
                         IF n \in Root THEN {} ELSE f[Parent(n)] \cup {Parent(n)}]
           g == [n \in Node |-> {a \in Node : <<a, n>> \in X}]
<1>1. F(X) \subseteq X
  OBVIOUS
<1>2. F(F(X)) \subseteq F(X)
  BY <1>1
<1>3. X \subseteq F(X)
  BY <1>2
<1>4. \A a, n \in Node :
        <<a, n>> \in X <=> n \notin Root /\ (a = Parent(n) \/ <<a, Parent(n)>> \in X)
  BY <1>1, <1>3
<1> HIDE DEF X
<1>5. g = step(g)
  <2>1. ASSUME NEW n \in Node \ Root PROVE g[n] = g[Parent(n)] \cup {Parent(n)}
    BY <1>4, ParentsAreNodes
  <2>2. ASSUME NEW n \in Root PROVE g[n] = {}
    BY <1>4, RootsAreNodes
  <2> QED
    BY <2>1, <2>2
<1>6. Ancestors = CHOOSE f : f = step(f)
  BY DEF Ancestors
<1>7. Ancestors = step(Ancestors)
  <2> HIDE DEF g, step
  <2> QED
    BY <1>5, <1>6
<1> QED
  BY <1>7

(* What a walk may evaluate next: the entries it reaches that come after   *)
(* nothing that is still to be evaluated. The children of such a node are  *)
(* of that kind once it has been evaluated, if it is to be, and opens.     *)
ReadyAfter(done) ==
  {n \in Node : Reached[n] /\ Ancestors[n] \cap PreOrderEntries \subseteq done}

LEMMA RootsAreReady == \A done : Root \subseteq ReadyAfter(done)
BY RootsAreNodes, ReachedIs, AncestorsAre DEF ReadyAfter

LEMMA ChildrenAreReady ==
  ASSUME NEW done, NEW p \in ReadyAfter(done), Opens(p),
         IsEvaluatedAt(p) => p \in done
  PROVE  Children(p) \subseteq ReadyAfter(done)
<1> SUFFICES ASSUME NEW n \in Children(p) PROVE n \in ReadyAfter(done)
  OBVIOUS
<1>1. p \in Node /\ n \in Node \ Root /\ Parent(n) = p
  BY ParentOfChild DEF ReadyAfter
<1>2. Reached[n]
  BY <1>1, ReachedIs DEF ReadyAfter
<1>3. Ancestors[n] = Ancestors[p] \cup {p}
  BY <1>1, AncestorsAre
<1> QED
  BY <1>1, <1>2, <1>3 DEF ReadyAfter, PreOrderEntries

-----------------------------------------------------------------------------
(* Induction down the tree: a set that has the start paths and, with a       *)
(* node's parent, the node, has every node.                                  *)
LEMMA TreeInduction ==
  ASSUME NEW T, Root \subseteq T, \A n \in Node \ Root : Parent(n) \in T => n \in T
  PROVE  Node \subseteq T
<1> DEFINE U == Node \ T
<1> SUFFICES ASSUME U # {} PROVE FALSE
  OBVIOUS
<1>1. PICK n \in U : \A p \in U : n \notin Children(p)
  <2> U \in SUBSET Node
    OBVIOUS
  <2> HIDE DEF U
  <2> QED
    BY WalkTreeAssumption
<1>2. n \in Node \ Root /\ Parent(n) \in Node /\ n \in Children(Parent(n))
  BY ParentsAreNodes
<1>3. Parent(n) \in T
  BY <1>1, <1>2
<1> QED
  BY <1>2, <1>3

LEMMA AncestorsAreNodes == \A n \in Node : Ancestors[n] \subseteq Node
<1> DEFINE T == {n \in Node : Ancestors[n] \subseteq Node}
<1>1. Root \subseteq T
  BY RootsAreNodes, AncestorsAre
<1>2. \A n \in Node \ Root : Parent(n) \in T => n \in T
  BY ParentsAreNodes, AncestorsAre
<1> HIDE DEF T
<1>3. Node \subseteq T
  BY <1>1, <1>2, TreeInduction
<1> QED
  BY <1>3 DEF T

(* What is reached is reached through directories that open. *)
LEMMA ReachedThrough ==
  \A n \in Node : Reached[n] => \A a \in Ancestors[n] : Reached[a] /\ Opens(a)
<1> DEFINE T == {n \in Node : Reached[n] => \A a \in Ancestors[n] : Reached[a] /\ Opens(a)}
<1>1. Root \subseteq T
  BY RootsAreNodes, AncestorsAre
<1>2. ASSUME NEW n \in Node \ Root, Parent(n) \in T
      PROVE  n \in T
  <2>1. Ancestors[n] = Ancestors[Parent(n)] \cup {Parent(n)}
    BY AncestorsAre
  <2>2. Reached[n] => Reached[Parent(n)] /\ Opens(Parent(n))
    BY ReachedIs
  <2>3. Reached[Parent(n)] => \A a \in Ancestors[Parent(n)] : Reached[a] /\ Opens(a)
    BY <1>2
  <2> QED
    BY <2>1, <2>2, <2>3
<1> HIDE DEF T
<1>3. Node \subseteq T
  BY <1>1, <1>2, TreeInduction
<1> QED
  BY <1>3 DEF T

(* The way down from an ancestor leads through one of its children. *)
LEMMA WayDown ==
  \A n \in Node : \A a \in Ancestors[n] : \E c \in Children(a) : c \in Ancestors[n] \cup {n}
<1> DEFINE T == {n \in Node : \A a \in Ancestors[n] :
                                \E c \in Children(a) : c \in Ancestors[n] \cup {n}}
<1>1. Root \subseteq T
  BY RootsAreNodes, AncestorsAre
<1>2. ASSUME NEW n \in Node \ Root, Parent(n) \in T
      PROVE  n \in T
  <2> SUFFICES ASSUME NEW a \in Ancestors[n]
               PROVE  \E c \in Children(a) : c \in Ancestors[n] \cup {n}
    OBVIOUS
  <2>1. Ancestors[n] = Ancestors[Parent(n)] \cup {Parent(n)} /\ n \in Children(Parent(n))
    BY AncestorsAre, ParentsAreNodes
  <2>2. CASE a = Parent(n)
    BY <2>1, <2>2
  <2>3. CASE a \in Ancestors[Parent(n)]
    <3>1. \E c \in Children(a) : c \in Ancestors[Parent(n)] \cup {Parent(n)}
      BY <1>2, <2>3
    <3> QED
      BY <2>1, <3>1
  <2> QED
    BY <2>1, <2>2, <2>3
<1> HIDE DEF T
<1>3. Node \subseteq T
  BY <1>1, <1>2, TreeInduction
<1> QED
  BY <1>3 DEF T

(* An ancestor's ancestors are ancestors, and no node is one of its own.     *)
LEMMA AncestorsNest ==
  \A n \in Node : \A a \in Ancestors[n] : Ancestors[a] \subseteq Ancestors[n]
<1> DEFINE T == {n \in Node : \A a \in Ancestors[n] : Ancestors[a] \subseteq Ancestors[n]}
<1>1. Root \subseteq T
  BY RootsAreNodes, AncestorsAre
<1>2. \A n \in Node \ Root : Parent(n) \in T => n \in T
  BY ZenonT(120), ParentsAreNodes, AncestorsAre
<1> HIDE DEF T
<1>3. Node \subseteq T
  BY <1>1, <1>2, TreeInduction
<1> QED
  BY <1>3 DEF T

LEMMA NoLoops == \A n \in Node : n \notin Ancestors[n]
<1> DEFINE T == {n \in Node : n \notin Ancestors[n]}
<1>1. Root \subseteq T
  BY RootsAreNodes, AncestorsAre
<1>2. ASSUME NEW n \in Node \ Root, Parent(n) \in T
      PROVE  n \in T
  <2>1. Parent(n) \in Node /\ Ancestors[n] = Ancestors[Parent(n)] \cup {Parent(n)}
    BY AncestorsAre, ParentsAreNodes
  <2>2. ASSUME n \in Ancestors[n] PROVE FALSE
    <3>1. n = Parent(n) => FALSE
      <4> SUFFICES ASSUME n = Parent(n) PROVE FALSE
        OBVIOUS
      <4>1. \E m \in {n} : \A p \in {n} : m \notin Children(p)
        <5>1. {n} \in SUBSET Node /\ {n} # {}
          OBVIOUS
        <5> QED
          BY <5>1, WalkTreeAssumption
      <4> QED
        BY <4>1, ParentsAreNodes
    <3>2. n \in Ancestors[Parent(n)]
      BY <2>1, <2>2, <3>1
    <3>3. Ancestors[n] \subseteq Ancestors[Parent(n)]
      BY <2>1, <3>2, AncestorsNest
    <3>4. Parent(n) \in Ancestors[Parent(n)]
      BY <2>1, <3>3
    <3> QED
      BY <1>2, <3>4
  <2> QED
    BY <2>2
<1> HIDE DEF T
<1>3. Node \subseteq T
  BY <1>1, <1>2, TreeInduction
<1> QED
  BY <1>3 DEF T

(* Every node is, or is below, a start path. *)
LEMMA RootAbove == \A n \in Node : \E a \in Ancestors[n] \cup {n} : a \in Root
<1> DEFINE T == {n \in Node : \E a \in Ancestors[n] \cup {n} : a \in Root}
<1>1. Root \subseteq T
  BY RootsAreNodes
<1>2. ASSUME NEW n \in Node \ Root, Parent(n) \in T
      PROVE  n \in T
  <2>1. Ancestors[n] = Ancestors[Parent(n)] \cup {Parent(n)}
    BY AncestorsAre
  <2> QED
    BY <1>2, <2>1
<1> HIDE DEF T
<1>3. Node \subseteq T
  BY <1>1, <1>2, TreeInduction
<1> QED
  BY <1>3 DEF T

-----------------------------------------------------------------------------
(* What is in a sequence, or in one of the chunks of a sequence              *)

Listed(s, n) == \E k \in 1..Len(s) : s[k] = n
ChunksHold(s, n) == \E k \in 1..Len(s) : Listed(s[k], n)

LEMMA ListedAppend ==
  ASSUME NEW R, NEW s \in Seq(R), NEW e \in R, NEW n
  PROVE  Listed(Append(s, e), n) <=> Listed(s, n) \/ n = e
<1>1. /\ Len(Append(s, e)) = Len(s) + 1 /\ Len(s) \in Nat
      /\ \A i \in 1..Len(s) : Append(s, e)[i] = s[i]
      /\ Append(s, e)[Len(s) + 1] = e
  BY AppendProperties, LenProperties
<1> QED
  BY <1>1 DEF Listed

LEMMA ListedConcat ==
  ASSUME NEW R, NEW s \in Seq(R), NEW t \in Seq(R), NEW n
  PROVE  Listed(s \o t, n) <=> Listed(s, n) \/ Listed(t, n)
<1>1. /\ Len(s \o t) = Len(s) + Len(t) /\ Len(s) \in Nat /\ Len(t) \in Nat
      /\ \A i \in 1..(Len(s) + Len(t)) :
           (s \o t)[i] = IF i <= Len(s) THEN s[i] ELSE t[i - Len(s)]
  BY ConcatProperties, LenProperties
<1>2. ASSUME Listed(s \o t, n) PROVE Listed(s, n) \/ Listed(t, n)
  <2> PICK k \in 1..(Len(s) + Len(t)) : (s \o t)[k] = n
    BY <1>1, <1>2 DEF Listed
  <2>1. k <= Len(s) => k \in 1..Len(s) /\ s[k] = n
    BY <1>1
  <2>2. ~(k <= Len(s)) => k - Len(s) \in 1..Len(t) /\ t[k - Len(s)] = n
    BY <1>1
  <2> QED
    BY <2>1, <2>2 DEF Listed
<1>3. ASSUME Listed(s, n) PROVE Listed(s \o t, n)
  <2> PICK k \in 1..Len(s) : s[k] = n
    BY <1>3 DEF Listed
  <2>1. k \in 1..(Len(s) + Len(t)) /\ k <= Len(s)
    BY <1>1
  <2> QED
    BY <1>1, <2>1 DEF Listed
<1>4. ASSUME Listed(t, n) PROVE Listed(s \o t, n)
  <2> PICK k \in 1..Len(t) : t[k] = n
    BY <1>4 DEF Listed
  <2>1. /\ Len(s) + k \in 1..(Len(s) + Len(t)) /\ ~(Len(s) + k <= Len(s))
        /\ (Len(s) + k) - Len(s) = k
    BY <1>1
  <2>2. (s \o t)[Len(s) + k] = n
    BY <1>1, <2>1
  <2> QED
    BY <1>1, <2>1, <2>2 DEF Listed
<1> QED
  BY <1>2, <1>3, <1>4

LEMMA ListedTail ==
  ASSUME NEW R, NEW s \in Seq(R), s # <<>>, NEW n
  PROVE  Listed(s, n) <=> n = Head(s) \/ Listed(Tail(s), n)
<1>1. /\ Len(Tail(s)) = Len(s) - 1 /\ Head(s) = s[1] /\ Len(s) \in Nat \ {0}
      /\ \A i \in 1..(Len(s) - 1) : Tail(s)[i] = s[i + 1]
  BY HeadTailProperties, LenProperties, EmptySeq
<1>2. ASSUME NEW k \in 1..Len(s), s[k] = n PROVE n = Head(s) \/ Listed(Tail(s), n)
  <2>1. k # 1 => k - 1 \in 1..(Len(s) - 1) /\ Tail(s)[k - 1] = n
    BY <1>1, <1>2
  <2> QED
    BY <1>1, <1>2, <2>1 DEF Listed
<1>3. ASSUME NEW k \in 1..(Len(s) - 1), Tail(s)[k] = n PROVE Listed(s, n)
  <2>1. k + 1 \in 1..Len(s) /\ s[k + 1] = n
    BY <1>1, <1>3
  <2> QED
    BY <2>1 DEF Listed
<1> QED
  BY <1>1, <1>2, <1>3 DEF Listed

LEMMA NothingListed == \A n : ~Listed(<<>>, n) /\ ~ChunksHold(<<>>, n)
BY DEF Listed, ChunksHold

LEMMA ChunksAppend ==
  ASSUME NEW R, NEW s \in Seq(R), NEW e \in R, NEW n
  PROVE  ChunksHold(Append(s, e), n) <=> ChunksHold(s, n) \/ Listed(e, n)
<1>1. /\ Len(Append(s, e)) = Len(s) + 1 /\ Len(s) \in Nat
      /\ \A i \in 1..Len(s) : Append(s, e)[i] = s[i]
      /\ Append(s, e)[Len(s) + 1] = e
  BY AppendProperties, LenProperties
<1> QED
  BY <1>1 DEF ChunksHold

LEMMA ChunksTail ==
  ASSUME NEW R, NEW s \in Seq(R), s # <<>>, NEW n
  PROVE  ChunksHold(s, n) => Listed(Head(s), n) \/ ChunksHold(Tail(s), n)
<1>1. /\ Len(Tail(s)) = Len(s) - 1 /\ Head(s) = s[1] /\ Len(s) \in Nat \ {0}
      /\ \A i \in 1..(Len(s) - 1) : Tail(s)[i] = s[i + 1]
  BY HeadTailProperties, LenProperties, EmptySeq
<1> SUFFICES ASSUME NEW k \in 1..Len(s), Listed(s[k], n), k # 1
             PROVE  ChunksHold(Tail(s), n)
  BY <1>1 DEF ChunksHold
<1>2. k - 1 \in 1..(Len(s) - 1) /\ Tail(s)[k - 1] = s[k]
  BY <1>1
<1> QED
  BY <1>1, <1>2 DEF ChunksHold

-----------------------------------------------------------------------------
(* How often a node is in a sequence, or in the chunks of one: 0, 1, or 2    *)
(* for more than once.                                                       *)

One(holds) == IF holds THEN 1 ELSE 0

Repeated(s, n) == \E i, k \in 1..Len(s) : i # k /\ s[i] = n /\ s[k] = n
Mult(s, n) == One(Listed(s, n)) + One(Repeated(s, n))

ChunksRepeat(s, n) ==
  \/ \E i \in 1..Len(s) : Repeated(s[i], n)
  \/ \E i, k \in 1..Len(s) : i # k /\ Listed(s[i], n) /\ Listed(s[k], n)
ChunkMult(s, n) == One(ChunksHold(s, n)) + One(ChunksRepeat(s, n))

LEMMA MultIs ==
  ASSUME NEW s, NEW n
  PROVE  /\ Mult(s, n) \in {0, 1, 2}
         /\ Mult(s, n) > 0 <=> Listed(s, n)
         /\ Mult(s, n) > 1 <=> Repeated(s, n)
<1>1. Repeated(s, n) => Listed(s, n)
  BY DEF Repeated, Listed
<1> QED
  BY <1>1 DEF Mult, One

LEMMA ChunkMultIs ==
  ASSUME NEW s, NEW n
  PROVE  /\ ChunkMult(s, n) \in {0, 1, 2}
         /\ ChunkMult(s, n) > 0 <=> ChunksHold(s, n)
         /\ ChunkMult(s, n) > 1 <=> ChunksRepeat(s, n)
<1>1. ChunksRepeat(s, n) => ChunksHold(s, n)
  BY DEF ChunksRepeat, ChunksHold, Repeated, Listed
<1> QED
  BY <1>1 DEF ChunkMult, One

LEMMA MultEmpty == \A n : Mult(<<>>, n) = 0 /\ ChunkMult(<<>>, n) = 0
BY NothingListed, MultIs, ChunkMultIs

LEMMA MultAppend ==
  ASSUME NEW R, NEW s \in Seq(R), NEW e \in R, NEW n
  PROVE  Mult(Append(s, e), n) <= Mult(s, n) + One(e = n)
<1>1. /\ Len(Append(s, e)) = Len(s) + 1 /\ Len(s) \in Nat
      /\ \A i \in 1..Len(s) : Append(s, e)[i] = s[i]
      /\ Append(s, e)[Len(s) + 1] = e
  BY AppendProperties, LenProperties
<1>2. Listed(Append(s, e), n) <=> Listed(s, n) \/ n = e
  BY ListedAppend
<1>3. Repeated(Append(s, e), n) => Repeated(s, n) \/ (Listed(s, n) /\ e = n)
  <2> SUFFICES ASSUME NEW i \in 1..(Len(s) + 1), NEW k \in 1..(Len(s) + 1), i # k,
                      Append(s, e)[i] = n, Append(s, e)[k] = n
               PROVE  Repeated(s, n) \/ (Listed(s, n) /\ e = n)
    BY <1>1 DEF Repeated
  <2>1. CASE i # Len(s) + 1 /\ k # Len(s) + 1
    BY <1>1, <2>1 DEF Repeated
  <2>2. CASE i = Len(s) + 1
    BY <1>1, <2>2 DEF Listed
  <2>3. CASE k = Len(s) + 1
    BY <1>1, <2>3 DEF Listed
  <2> QED
    BY <2>1, <2>2, <2>3
<1>4. Repeated(s, n) => Listed(s, n)
  BY MultIs
<1> QED
  BY <1>2, <1>3, <1>4 DEF Mult, One

LEMMA MultConcat ==
  ASSUME NEW R, NEW s \in Seq(R), NEW t \in Seq(R), NEW n
  PROVE  Mult(s \o t, n) <= Mult(s, n) + Mult(t, n)
<1>1. /\ Len(s \o t) = Len(s) + Len(t) /\ Len(s) \in Nat /\ Len(t) \in Nat
      /\ \A i \in 1..(Len(s) + Len(t)) :
           (s \o t)[i] = IF i <= Len(s) THEN s[i] ELSE t[i - Len(s)]
  BY ConcatProperties, LenProperties
<1>2. Listed(s \o t, n) <=> Listed(s, n) \/ Listed(t, n)
  BY ListedConcat
<1>3. Repeated(s \o t, n) => Repeated(s, n) \/ Repeated(t, n) \/ (Listed(s, n) /\ Listed(t, n))
  <2> SUFFICES ASSUME NEW i \in 1..(Len(s) + Len(t)), NEW k \in 1..(Len(s) + Len(t)), i # k,
                      (s \o t)[i] = n, (s \o t)[k] = n
               PROVE  Repeated(s, n) \/ Repeated(t, n) \/ (Listed(s, n) /\ Listed(t, n))
    BY <1>1 DEF Repeated
  <2>1. \A m \in 1..(Len(s) + Len(t)) : (s \o t)[m] = n =>
          IF m <= Len(s) THEN m \in 1..Len(s) /\ s[m] = n
                         ELSE m - Len(s) \in 1..Len(t) /\ t[m - Len(s)] = n
    BY <1>1
  <2>2. CASE i <= Len(s) /\ k <= Len(s)
    BY <2>1, <2>2 DEF Repeated
  <2>3. CASE ~(i <= Len(s)) /\ ~(k <= Len(s))
    <3>1. /\ i - Len(s) \in 1..Len(t) /\ t[i - Len(s)] = n
          /\ k - Len(s) \in 1..Len(t) /\ t[k - Len(s)] = n
          /\ i - Len(s) # k - Len(s)
      BY <1>1, <2>1, <2>3
    <3> QED
      BY <3>1 DEF Repeated
  <2>4. CASE i <= Len(s) /\ ~(k <= Len(s))
    BY <2>1, <2>4 DEF Listed
  <2>5. CASE ~(i <= Len(s)) /\ k <= Len(s)
    BY <2>1, <2>5 DEF Listed
  <2> QED
    BY <2>2, <2>3, <2>4, <2>5
<1>4. (Repeated(s, n) => Listed(s, n)) /\ (Repeated(t, n) => Listed(t, n))
  BY MultIs
<1> QED
  BY <1>2, <1>3, <1>4 DEF Mult, One

LEMMA MultTail ==
  ASSUME NEW R, NEW s \in Seq(R), s # <<>>, NEW n, Mult(s, n) <= 1
  PROVE  Mult(Tail(s), n) + One(Head(s) = n) <= Mult(s, n)
<1>1. /\ Len(Tail(s)) = Len(s) - 1 /\ Head(s) = s[1] /\ Len(s) \in Nat \ {0}
      /\ \A i \in 1..(Len(s) - 1) : Tail(s)[i] = s[i + 1]
  BY HeadTailProperties, LenProperties, EmptySeq
<1>2. Listed(s, n) <=> n = Head(s) \/ Listed(Tail(s), n)
  BY ListedTail
<1>3. ~Repeated(s, n)
  BY MultIs
<1>4. ~Repeated(Tail(s), n)
  <2> SUFFICES ASSUME NEW i \in 1..(Len(s) - 1), NEW k \in 1..(Len(s) - 1), i # k,
                      Tail(s)[i] = n, Tail(s)[k] = n
               PROVE  FALSE
    BY <1>1 DEF Repeated
  <2>1. /\ i + 1 \in 1..Len(s) /\ k + 1 \in 1..Len(s) /\ i + 1 # k + 1
        /\ s[i + 1] = n /\ s[k + 1] = n
    BY <1>1
  <2> QED
    BY <1>3, <2>1 DEF Repeated
<1>5. ~(Head(s) = n /\ Listed(Tail(s), n))
  <2> SUFFICES ASSUME Head(s) = n, NEW k \in 1..(Len(s) - 1), Tail(s)[k] = n PROVE FALSE
    BY <1>1 DEF Listed
  <2>1. 1 \in 1..Len(s) /\ k + 1 \in 1..Len(s) /\ 1 # k + 1 /\ s[1] = n /\ s[k + 1] = n
    BY <1>1
  <2> QED
    BY <1>3, <2>1 DEF Repeated
<1> QED
  BY <1>2, <1>3, <1>4, <1>5 DEF Mult, One

LEMMA ChunkMultAppend ==
  ASSUME NEW R, NEW s \in Seq(R), NEW e \in R, NEW n
  PROVE  ChunkMult(Append(s, e), n) <= ChunkMult(s, n) + Mult(e, n)
<1>1. /\ Len(Append(s, e)) = Len(s) + 1 /\ Len(s) \in Nat
      /\ \A i \in 1..Len(s) : Append(s, e)[i] = s[i]
      /\ Append(s, e)[Len(s) + 1] = e
  BY AppendProperties, LenProperties
<1>2. ChunksHold(Append(s, e), n) <=> ChunksHold(s, n) \/ Listed(e, n)
  BY ChunksAppend
<1>3. ChunksRepeat(Append(s, e), n) =>
        ChunksRepeat(s, n) \/ Repeated(e, n) \/ (ChunksHold(s, n) /\ Listed(e, n))
  <2>1. ASSUME NEW i \in 1..(Len(s) + 1), Repeated(Append(s, e)[i], n)
        PROVE  ChunksRepeat(s, n) \/ Repeated(e, n)
    <3>1. i = Len(s) + 1 \/ i \in 1..Len(s)
      BY <1>1
    <3> QED
      BY <1>1, <2>1, <3>1 DEF ChunksRepeat
  <2>2. ASSUME NEW i \in 1..(Len(s) + 1), NEW k \in 1..(Len(s) + 1), i # k,
               Listed(Append(s, e)[i], n), Listed(Append(s, e)[k], n)
        PROVE  ChunksRepeat(s, n) \/ (ChunksHold(s, n) /\ Listed(e, n))
    <3>1. /\ i = Len(s) + 1 \/ i \in 1..Len(s)
          /\ k = Len(s) + 1 \/ k \in 1..Len(s)
      BY <1>1
    <3>2. CASE i = Len(s) + 1
      BY <1>1, <2>2, <3>1, <3>2 DEF ChunksHold
    <3>3. CASE k = Len(s) + 1
      BY <1>1, <2>2, <3>1, <3>3 DEF ChunksHold
    <3>4. CASE i \in 1..Len(s) /\ k \in 1..Len(s)
      BY <1>1, <2>2, <3>4 DEF ChunksRepeat
    <3> QED
      BY <3>1, <3>2, <3>3, <3>4
  <2> QED
    BY <1>1, <2>1, <2>2 DEF ChunksRepeat
<1>4. (Repeated(e, n) => Listed(e, n)) /\ (ChunksRepeat(s, n) => ChunksHold(s, n))
  BY MultIs, ChunkMultIs
<1> QED
  BY <1>2, <1>3, <1>4 DEF ChunkMult, Mult, One

LEMMA ChunkMultTail ==
  ASSUME NEW R, NEW s \in Seq(R), s # <<>>, NEW n, ChunkMult(s, n) <= 1
  PROVE  ChunkMult(Tail(s), n) + Mult(Head(s), n) <= ChunkMult(s, n)
<1>1. /\ Len(Tail(s)) = Len(s) - 1 /\ Head(s) = s[1] /\ Len(s) \in Nat \ {0}
      /\ \A i \in 1..(Len(s) - 1) : Tail(s)[i] = s[i + 1]
  BY HeadTailProperties, LenProperties, EmptySeq
<1>2. ~ChunksRepeat(s, n)
  BY ChunkMultIs
<1>3. 1 \in 1..Len(s) /\ \A i \in 1..(Len(s) - 1) : i + 1 \in 1..Len(s) /\ i + 1 # 1
  BY <1>1
<1>4. ~Repeated(Head(s), n)
  BY <1>1, <1>2, <1>3 DEF ChunksRepeat
<1>5. ~ChunksRepeat(Tail(s), n)
  <2>1. ASSUME NEW i \in 1..(Len(s) - 1), Repeated(Tail(s)[i], n) PROVE FALSE
    BY <1>1, <1>2, <1>3, <2>1 DEF ChunksRepeat
  <2>2. ASSUME NEW i \in 1..(Len(s) - 1), NEW k \in 1..(Len(s) - 1), i # k,
               Listed(Tail(s)[i], n), Listed(Tail(s)[k], n)
        PROVE  FALSE
    <3>1. /\ i + 1 \in 1..Len(s) /\ k + 1 \in 1..Len(s) /\ i + 1 # k + 1
          /\ Listed(s[i + 1], n) /\ Listed(s[k + 1], n)
      BY <1>1, <2>2
    <3> QED
      BY <1>2, <3>1 DEF ChunksRepeat
  <2> QED
    BY <1>1, <2>1, <2>2 DEF ChunksRepeat
<1>6. ~(Listed(Head(s), n) /\ ChunksHold(Tail(s), n))
  <2> SUFFICES ASSUME Listed(s[1], n), NEW k \in 1..(Len(s) - 1), Listed(s[k + 1], n) PROVE FALSE
    BY <1>1 DEF ChunksHold
  <2> QED
    BY <1>2, <1>3 DEF ChunksRepeat
<1>7. Listed(Head(s), n) \/ ChunksHold(Tail(s), n) => ChunksHold(s, n)
  <2>1. Listed(Head(s), n) => ChunksHold(s, n)
    BY <1>1, <1>3 DEF ChunksHold
  <2>2. ASSUME NEW k \in 1..(Len(s) - 1), Listed(Tail(s)[k], n) PROVE ChunksHold(s, n)
    BY <1>1, <1>3, <2>2 DEF ChunksHold
  <2> QED
    BY <1>1, <2>1, <2>2 DEF ChunksHold
<1> QED
  BY <1>2, <1>4, <1>5, <1>6, <1>7 DEF ChunkMult, Mult, One
=============================================================================
