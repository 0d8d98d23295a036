------------------------ MODULE EntryContextProofs ------------------------
(***************************************************************************)
(* Theorems about EntryContext.tla, for every set of files, any number of  *)
(* changes and of questions.                                               *)
(*                                                                         *)
(* A getter reads the two views of the path, the one of the path itself    *)
(* and the one of what it links to, and little else.  The first part says  *)
(* what each getter makes of them, the second that an answer once reached  *)
(* is not changed by what is read later, and the third is the invariant.   *)
(***************************************************************************)
EXTENDS EntryContext, FiniteSetTheorems, TLAPS

-----------------------------------------------------------------------------
(* What the getters make of the two views                                  *)

Physical == cache["physical"]
Logical == cache["logical"]

(* The path has been seen to be a link; and one that resolves, or of which *)
(* that is not yet known.                                                  *)
LinkSeen == Physical.is = "value" /\ Physical.value.kind = "link"
Behind == LinkSeen /\ Logical # Error

Result(S) == [is : {"value"}, value : S]
ViewSeen == [kind : STRING, id : Nat \ {0}, empty : BOOLEAN, atime : {"found", "ours"}]
Kept(S) == Result(S) \cup {Unread, Error}

CacheFits ==
  /\ cache = [c \in Caches |-> cache[c]]
  /\ Physical \in Kept(ViewSeen) /\ Logical \in Kept(ViewSeen)
  /\ cache["linkTarget"] \in Kept(Int)
  /\ cache["emptyDir"] \in Kept(BOOLEAN) /\ cache["access"] \in Kept(BOOLEAN)

(* The four kinds of outcome cannot be taken for each other. *)
LEMMA Outcomes ==
  /\ Unread.is = "unread" /\ Error.is = "error"
  /\ \A c : Needs(c).is = "needs" /\ Needs(c).needs = c
  /\ \A v : Got(v).is = "value" /\ Got(v).value = v
  /\ \A S : \A r \in Result(S) : r.is = "value" /\ r.value \in S /\ r = Got(r.value)
BY DEF Unread, Error, Needs, Got, Result

LEMMA CachedIs ==
  ASSUME NEW c \in Caches, NEW S, cache[c] \in Kept(S)
  PROVE  /\ cache[c] = Unread => Cached(c) = Needs(c)
         /\ cache[c] # Unread => Cached(c) = cache[c]
         /\ Cached(c).is \in {"needs", "value", "error"}
         /\ Cached(c).is = "needs" <=> cache[c] = Unread
         /\ Cached(c).is = "value" <=> cache[c] \in Result(S)
         /\ Cached(c).is = "error" <=> cache[c] = Error
BY Outcomes DEF Cached, Kept

(* PhysicalView and the logical view, as the getters get them. *)
LEMMA ViewsAre ==
  ASSUME CacheFits
  PROVE  /\ PhysicalView = IF Physical = Unread THEN Needs("physical") ELSE Physical
         /\ Cached("logical") = IF Logical = Unread THEN Needs("logical") ELSE Logical
         /\ Physical = Unread \/ Physical = Error \/ Physical \in Result(ViewSeen)
         /\ Logical = Unread \/ Logical = Error \/ Logical \in Result(ViewSeen)
BY DEF CacheFits, PhysicalView, Cached, Physical, Logical, Kept

LEMMA IsLink ==
  ASSUME CacheFits
  PROVE  IsTraversalLink = IF Physical = Unread THEN Needs("physical")
                           ELSE IF Physical = Error THEN Error ELSE Got(LinkSeen)
<1>1. CASE Physical = Unread
  BY <1>1, ViewsAre, Outcomes DEF IsTraversalLink, Then
<1>2. CASE Physical = Error
  BY <1>2, ViewsAre, Outcomes DEF IsTraversalLink, Then
<1>3. CASE Physical \in Result(ViewSeen)
  <2>1. PhysicalView = Physical /\ Physical.is = "value" /\ Physical # Unread /\ Physical # Error
    BY <1>3, ViewsAre, Outcomes
  <2> QED
    BY <2>1 DEF IsTraversalLink, Then, LinkSeen
<1> QED
  BY <1>1, <1>2, <1>3, ViewsAre

LEMMA LogicalViewIs ==
  ASSUME CacheFits
  PROVE  LogicalView = IF Physical = Unread THEN Needs("physical")
                       ELSE IF LinkSeen THEN Cached("logical") ELSE Error
<1>2. LinkSeen \in BOOLEAN
  BY DEF LinkSeen
<1>3. CASE Physical = Unread
  BY <1>3, Outcomes, IsLink DEF LogicalView
<1>4. CASE Physical = Error
  <2>1. ~LinkSeen /\ Error # Unread
    BY <1>4, Outcomes DEF LinkSeen
  <2> QED
    BY <1>4, <2>1, Outcomes, IsLink DEF LogicalView
<1>5. CASE Physical \notin {Unread, Error}
  <2>1. Got(LinkSeen).is = "value" /\ (Got(LinkSeen) = Got(TRUE) <=> LinkSeen)
    BY <1>2 DEF Got
  <2> QED
    BY <1>5, <2>1, IsLink DEF LogicalView
<1> QED
  BY <1>3, <1>4, <1>5

LEMMA BehindIs ==
  ASSUME CacheFits, Physical # Unread
  PROVE  /\ LinkSeen /\ LogicalView # Error <=> Behind
         /\ LinkSeen => LogicalView = Cached("logical")
<1>1. Needs("logical") # Error /\ Unread # Error
  BY Outcomes
<1> QED
  BY <1>1, LogicalViewIs, ViewsAre DEF Behind

(* The kind of a view, and the parts of it that the getters take. *)
KindIn(view) == IF view.is = "value" THEN Got(view.value.kind) ELSE view
IdIn(view) == IF view.is = "value" THEN Got(view.value.id) ELSE view

LEMMA ActiveViewIs ==
  ASSUME CacheFits
  PROVE  ActiveView = IF Follows /\ Behind THEN Cached("logical") ELSE PhysicalView
<1>1. CASE Physical = Unread \/ Physical = Error
  <2>1. IsTraversalLink = PhysicalView /\ IsTraversalLink.is # "value" /\ ~Behind
    BY <1>1, IsLink, ViewsAre, Outcomes DEF Behind, LinkSeen
  <2> QED
    BY <2>1 DEF ActiveView, LinkOr, Then
<1>2. CASE Physical # Unread /\ Physical # Error
  <2>1. IsTraversalLink = Got(LinkSeen)
    BY <1>2, IsLink
  <2>2. Behind => Then(LogicalView, LAMBDA v : Got(v)) = Cached("logical")
    BY <1>2, BehindIs, ViewsAre, Outcomes DEF Then, Behind
  <2>3. LinkOr(LAMBDA v : Got(v), PhysicalView) = IF Behind THEN Cached("logical") ELSE PhysicalView
    BY <1>2, <2>1, <2>2, BehindIs, Outcomes DEF LinkOr, Then
  <2> QED
    BY <2>3 DEF ActiveView
<1> QED
  BY <1>1, <1>2

LEMMA KindsAre ==
  ASSUME CacheFits
  PROVE  /\ PhysicalKind = IF hint # "none" THEN Got(hint) ELSE KindIn(PhysicalView)
         /\ LogicalKind = IF Behind THEN KindIn(Cached("logical"))
                          ELSE IF Physical \in {Unread, Error} THEN PhysicalView ELSE PhysicalKind
         /\ ActiveKind = IF Follows THEN LogicalKind ELSE PhysicalKind
         /\ XtypeKind = IF mode = "Logical" THEN PhysicalKind ELSE LogicalKind
<1>1. PhysicalKind = IF hint # "none" THEN Got(hint) ELSE KindIn(PhysicalView)
  BY DEF PhysicalKind, Then, KindIn
<1>2. ActiveKind = IF Follows THEN LogicalKind ELSE PhysicalKind
  BY DEF ActiveKind, LogicalKind
<1>3. XtypeKind = IF mode = "Logical" THEN PhysicalKind ELSE LogicalKind
  BY DEF XtypeKind
<1>4. CASE Physical \in {Unread, Error}
  <2>1. IsTraversalLink = PhysicalView /\ IsTraversalLink.is # "value" /\ ~Behind
    BY <1>4, IsLink, ViewsAre, Outcomes DEF Behind, LinkSeen
  <2>2. LogicalKind = PhysicalView
    BY <2>1 DEF LogicalKind, LinkOr, Then
  <2> QED
    BY <1>1, <1>2, <1>3, <1>4, <2>1, <2>2
<1>5. CASE Physical \notin {Unread, Error}
  <2>1. IsTraversalLink = Got(LinkSeen)
    BY <1>5, IsLink
  <2>2. Behind => Then(LogicalView, KindOf) = KindIn(Cached("logical"))
    BY <1>5, BehindIs, ViewsAre, Outcomes DEF Then, Behind, KindIn, KindOf
  <2>3. LinkOr(KindOf, PhysicalKind) = IF Behind THEN KindIn(Cached("logical")) ELSE PhysicalKind
    BY <1>5, <2>1, <2>2, BehindIs, Outcomes DEF LinkOr, Then
  <2> QED
    BY <1>1, <1>2, <1>3, <1>5, <2>3 DEF LogicalKind
<1> QED
  BY <1>4, <1>5

-----------------------------------------------------------------------------
(* What is read later does not change an answer                            *)

(* All that the steps do to what is known: get_or_init reads what was not. *)
OnlyReads ==
  /\ \A c \in Caches : cache[c] # Unread => cache'[c] = cache[c]
  /\ UNCHANGED <<mode, root, hint>>

Stays(before, after) == before.is # "needs" => after = before

(* The lemmas above in one formula, so that it can be primed. *)
GettersCompute ==
  CacheFits =>
    /\ PhysicalView = IF Physical = Unread THEN Needs("physical") ELSE Physical
    /\ Cached("logical") = IF Logical = Unread THEN Needs("logical") ELSE Logical
    /\ IsTraversalLink = IF Physical = Unread THEN Needs("physical")
                         ELSE IF Physical = Error THEN Error ELSE Got(LinkSeen)
    /\ LogicalView = IF Physical = Unread THEN Needs("physical")
                     ELSE IF LinkSeen THEN Cached("logical") ELSE Error
    /\ ActiveView = IF Follows /\ Behind THEN Cached("logical") ELSE PhysicalView
    /\ PhysicalKind = IF hint # "none" THEN Got(hint) ELSE KindIn(PhysicalView)
    /\ LogicalKind = IF Behind THEN KindIn(Cached("logical"))
                     ELSE IF Physical \in {Unread, Error} THEN PhysicalView ELSE PhysicalKind
    /\ ActiveKind = IF Follows THEN LogicalKind ELSE PhysicalKind
    /\ XtypeKind = IF mode = "Logical" THEN PhysicalKind ELSE LogicalKind

LEMMA Computes == GettersCompute
BY ViewsAre, IsLink, LogicalViewIs, ActiveViewIs, KindsAre DEF GettersCompute

LEMMA ComputesNext == GettersCompute'
BY Computes, PTL

(* What has been read stays, and so does what is concluded from it. *)
LEMMA ViewsStay ==
  ASSUME CacheFits, CacheFits', OnlyReads
  PROVE  /\ \A c \in Caches : cache[c] # Unread => cache'[c] = cache[c]
         /\ \A c \in Caches : Stays(Cached(c), Cached(c)')
         /\ Follows' = Follows
         /\ Stays(PhysicalView, PhysicalView')
         /\ Stays(IsTraversalLink, IsTraversalLink')
         /\ Stays(LogicalView, LogicalView')
         /\ Stays(ActiveView, ActiveView')
<1>1. \A c \in Caches : cache[c] # Unread => cache'[c] = cache[c]
  BY DEF OnlyReads
<1>2. \A c \in Caches : Stays(Cached(c), Cached(c)')
  BY <1>1, Outcomes DEF Stays, Cached
<1>3. Follows' = Follows
  BY DEF OnlyReads, Follows
<1>4. Stays(PhysicalView, PhysicalView')
  BY <1>2 DEF PhysicalView, Caches
<1>5. /\ Physical # Unread => Physical' = Physical /\ LinkSeen' = LinkSeen
      /\ Physical # Unread /\ Logical # Unread => Behind' = Behind
  BY <1>1 DEF Physical, Logical, LinkSeen, Behind, Caches
<1>6. Stays(IsTraversalLink, IsTraversalLink')
  <2>1. CASE Physical = Unread
    BY <2>1, Computes, Outcomes DEF GettersCompute, Stays
  <2>2. CASE Physical # Unread
    BY <1>5, <2>2, Computes, ComputesNext DEF GettersCompute, Stays
  <2> QED
    BY <2>1, <2>2
<1>7. Stays(LogicalView, LogicalView')
  BY <1>2, <1>5, Computes, ComputesNext, Outcomes DEF GettersCompute, Stays, Caches
<1>8. Stays(ActiveView, ActiveView')
  <2>1. CASE Physical = Unread
    BY <2>1, Computes, Outcomes DEF GettersCompute, Stays, Behind, LinkSeen
  <2>2. CASE Physical # Unread /\ Logical # Unread
    BY <1>2, <1>3, <1>4, <1>5, <2>2, Computes, ComputesNext DEF GettersCompute, Stays, Caches
  <2>3. CASE Physical # Unread /\ Logical = Unread
    <3>1. (Behind <=> LinkSeen) /\ Cached("logical") = Needs("logical")
      <4>1. Logical # Error
        BY <2>3, Outcomes
      <4> QED
        BY <2>3, <4>1, ViewsAre DEF Behind
    <3>2. LinkSeen' = LinkSeen /\ (~LinkSeen => ~Behind')
      BY <1>5, <2>3 DEF Behind
    <3> QED
      BY <1>3, <1>4, <3>1, <3>2, Computes, ComputesNext, Outcomes DEF GettersCompute, Stays
  <2> QED
    BY <2>1, <2>2, <2>3
<1> QED
  BY <1>1, <1>2, <1>3, <1>4, <1>6, <1>7, <1>8

LEMMA KindsStay ==
  ASSUME CacheFits, CacheFits', OnlyReads
  PROVE  /\ Stays(PhysicalKind, PhysicalKind')
         /\ Stays(LogicalKind, LogicalKind')
         /\ Stays(ActiveKind, ActiveKind')
         /\ Stays(XtypeKind, XtypeKind')
<1>1. PhysicalView.is = "needs" \/ PhysicalView' = PhysicalView
  BY ViewsStay DEF Stays
<1>2. hint' = hint /\ mode' = mode /\ Follows' = Follows
  BY ViewsStay DEF OnlyReads
<1>3. Stays(PhysicalKind, PhysicalKind')
  BY <1>1, <1>2, Computes, ComputesNext, Outcomes DEF GettersCompute, Stays, KindIn
<1>4. Stays(LogicalKind, LogicalKind')
  <2>1. CASE Physical = Unread
    BY <2>1, Computes, Outcomes DEF GettersCompute, Stays, Behind, LinkSeen
  <2>2. CASE Physical # Unread
    <3>1. Physical' = Physical /\ LinkSeen' = LinkSeen
      BY <2>2, ViewsStay DEF Physical, LinkSeen, Caches
    <3>2. CASE LinkSeen /\ Logical = Unread
      <4>1. Behind /\ Cached("logical") = Needs("logical")
        BY <3>2, Outcomes, ViewsAre DEF Behind
      <4> QED
        BY <4>1, Computes, Outcomes DEF GettersCompute, Stays, KindIn
    <3>3. CASE ~LinkSeen
      <4>1. ~Behind /\ ~Behind'
        BY <3>1, <3>3 DEF Behind
      <4> QED
        BY <1>1, <1>3, <2>2, <3>1, <4>1, Computes, ComputesNext, Outcomes DEF GettersCompute, Stays
    <3>4. CASE Logical # Unread
      <4>1. Behind' = Behind /\ Cached("logical")' = Cached("logical")
        BY <3>1, <3>4, ViewsStay DEF Behind, Logical, Caches, Cached
      <4> QED
        BY <1>1, <1>3, <2>2, <3>1, <4>1, Computes, ComputesNext, Outcomes
           DEF GettersCompute, Stays, KindIn
    <3> QED
      BY <3>2, <3>3, <3>4
  <2> QED
    BY <2>1, <2>2
<1> QED
  BY <1>2, <1>3, <1>4, Computes, ComputesNext DEF GettersCompute, Stays

(* No getter changes an answer it could give. *)
LEMMA AnswersStay ==
  ASSUME CacheFits, CacheFits', OnlyReads, NEW g \in Getters
  PROVE  Stays(Answer(g), Answer(g)')
<1>1. Stays(ActiveIdentity, ActiveIdentity') /\ Stays(ActiveAtime, ActiveAtime')
  BY ViewsStay, Outcomes DEF ActiveIdentity, ActiveAtime, Then, Stays
<1>2. Stays(PrintfTargetKind, PrintfTargetKind')
  BY KindsStay, Outcomes DEF PrintfTargetKind, Then, Stays
<1>3. Stays(DirectoryIdentity, DirectoryIdentity')
  BY <1>1, KindsStay, ViewsStay, Outcomes DEF DirectoryIdentity, Then, Stays, Nothing
<1>4. Stays(PhysicalLinkTarget, PhysicalLinkTarget')
  BY KindsStay, ViewsStay, Outcomes DEF PhysicalLinkTarget, Then, Stays, Nothing, Caches
<1>5. Stays(ActiveLinkTarget, ActiveLinkTarget')
  BY <1>4, KindsStay, ViewsStay, Outcomes DEF ActiveLinkTarget, Then, Stays, Nothing
<1>6. Stays(ActiveIsEmpty, ActiveIsEmpty')
  BY KindsStay, ViewsStay, Outcomes DEF ActiveIsEmpty, Then, Stays, Caches
<1>7. Stays(Cached("access"), Cached("access")')
  BY ViewsStay DEF Caches
<1> QED
  BY <1>1, <1>2, <1>3, <1>5, <1>6, <1>7, KindsStay DEF Answer, Getters

-----------------------------------------------------------------------------
(* The invariant                                                           *)

(* What a getter lacks is one of the facts that are kept, and has not been *)
(* read; only %Y wants what is kept nowhere.  The directory is probed only *)
(* once its own view is there.                                             *)
Lacking(g, c) ==
  /\ Answer(g) = Needs(c)
  /\ \/ c \in Caches /\ cache[c] = Unread /\ (c = "emptyDir" => ActiveView.is = "value")
     \/ c = "stat" /\ g = "targetKind"

(* An answer that has been given is the one the getter still gives. *)
Answered(g) == answers[g] # {} => answers[g] = {Answer(g)} /\ Answer(g).is # "needs"

Seen(view, node) ==
  /\ view.value.kind = node.kind /\ view.value.id = node.id /\ view.value.empty = node.empty

(* Of a path that stays as it is the facts that were read are the facts. *)
FactsAreTrue ==
  /\ fs.node # Missing /\ hint \in {"none", fs.node.kind}
  /\ Physical = Unread \/ (Physical.is = "value" /\ Seen(Physical, fs.node))
  /\ IF Followed \in Unresolved THEN Logical \in {Unread, Error}
     ELSE Logical = Unread \/ (Logical.is = "value" /\ Seen(Logical, Followed))
  /\ \A c \in {"linkTarget", "emptyDir", "access"} : cache[c] \in {Unread, Read(c)}

(* Nothing has touched a directory before the view the getters use was     *)
(* taken, so no access time in it is ours.                                 *)
TimesAreFound ==
  /\ touched # {} => ActiveView.is = "value"
  /\ ActiveView.is = "value" => ActiveView.value.atime = "found"
  /\ touched = {} => \A view \in {Physical, Logical} : view.is = "value" => view.value.atime = "found"

ContextFits ==
  /\ mode \in Modes /\ root \in BOOLEAN /\ fs \in FileSystems /\ changes \in Nat
  /\ CacheFits
  /\ asked \in Getters \cup {"none"}
  /\ answers = [g \in Getters |-> answers[g]]

ContextInv ==
  /\ ContextFits
  /\ TimesAreFound
  /\ \A g \in Getters \ {"targetKind"} : Answered(g)
  /\ changes = 0 => FactsAreTrue /\ answers["targetKind"] \subseteq {Got(Truth("targetKind"))}

LEMMA GettersLack ==
  ASSUME CacheFits, NEW g \in Getters, Answer(g).is = "needs"
  PROVE  \E c : Lacking(g, c)
<1> DEFINE Wants(x) == x.is = "needs" =>
                         \E c \in {"physical", "logical"} : x = Needs(c) /\ cache[c] = Unread
<1>1. Wants(PhysicalView) /\ Wants(IsTraversalLink) /\ Wants(Cached("logical"))
  BY Computes, ViewsAre, Outcomes DEF GettersCompute, Physical, Logical
<1>2. Wants(LogicalView) /\ Wants(ActiveView)
  BY <1>1, Computes, Outcomes DEF GettersCompute, Physical
<1>3. Wants(PhysicalKind)
  BY <1>1, Computes, Outcomes DEF GettersCompute, KindIn
<1>4. Wants(LogicalKind)
  BY <1>1, <1>3, Computes, Outcomes DEF GettersCompute, KindIn
<1>5. Wants(ActiveKind) /\ Wants(XtypeKind)
  BY <1>3, <1>4, Computes DEF GettersCompute
<1>6. Wants(ActiveIdentity) /\ Wants(ActiveAtime)
  BY <1>2, Outcomes DEF ActiveIdentity, ActiveAtime, Then
<1>7. Wants(DirectoryIdentity)
  BY <1>1, <1>5, <1>6, Outcomes DEF DirectoryIdentity, Then, Nothing
<1>8. ASSUME NEW x, Wants(x), x.is = "needs", Answer(g) = x PROVE \E c : Lacking(g, c)
  BY <1>8 DEF Lacking, Caches
<1> HIDE DEF Wants
<1>9. CASE g \in {"kind", "xtype", "identity", "directoryIdentity", "atime"}
  BY <1>5, <1>6, <1>7, <1>8, <1>9 DEF Answer
<1>10. CASE g = "targetKind"
  <2>1. Answer(g) = PrintfTargetKind
    BY <1>10 DEF Answer
  <2>2. CASE ActiveKind.is = "value"
    <3>1. Answer(g) = Needs("stat")
      BY <2>1, <2>2, Outcomes DEF PrintfTargetKind, Then
    <3> QED
      BY <1>10, <3>1 DEF Lacking
  <2>3. CASE ActiveKind.is # "value"
    BY <1>5, <1>8, <2>1, <2>3 DEF PrintfTargetKind, Then
  <2> QED
    BY <2>2, <2>3
<1>11. ASSUME NEW c \in Caches, NEW S, cache[c] \in Kept(S), Cached(c).is = "needs",
              Answer(g) = Cached(c), c # "emptyDir" \/ ActiveView.is = "value"
       PROVE  \E d : Lacking(g, d)
  BY <1>11, CachedIs DEF Lacking
<1>12. CASE g = "access"
  BY <1>11, <1>12 DEF Answer, Caches, CacheFits
<1>13. CASE g = "linkTarget"
  <2>1. Answer(g) = ActiveLinkTarget
    BY <1>13 DEF Answer
  <2>2. Answer(g) \in {PhysicalKind, LogicalView, Cached("linkTarget")}
    BY <2>1, Outcomes DEF ActiveLinkTarget, PhysicalLinkTarget, Then, Nothing
  <2> QED
    BY <1>2, <1>3, <1>8, <1>11, <2>2 DEF Caches, CacheFits
<1>14. CASE g = "empty"
  <2>1. Answer(g) = ActiveIsEmpty
    BY <1>14 DEF Answer
  <2>2. \/ Answer(g) \in {ActiveKind, ActiveView}
        \/ ActiveView.is = "value" /\ Answer(g) = Cached("emptyDir")
    BY <2>1, Outcomes DEF ActiveIsEmpty, Then
  <2> QED
    BY <1>2, <1>5, <1>8, <1>11, <2>2 DEF Caches, CacheFits
<1> QED
  BY <1>9, <1>10, <1>12, <1>13, <1>14 DEF Getters

(* An answer about a path that has stayed as it is tells the truth. *)
LEMMA AnswersAreTrue ==
  ASSUME ContextFits, TimesAreFound, FactsAreTrue, NEW g \in Getters, Answer(g).is # "needs"
  PROVE  Answer(g) = Got(Truth(g))
<1>1. /\ Physical # Unread => Physical.is = "value" /\ Seen(Physical, fs.node)
      /\ Logical # Unread /\ Logical # Error =>
           Logical.is = "value" /\ Seen(Logical, Followed) /\ Followed \notin Unresolved
      /\ Logical = Error => Followed \in Unresolved
      /\ Physical # Error
  BY Outcomes DEF FactsAreTrue
<1>2. /\ fs.node \in Nodes
      /\ fs.node.kind = "link" => Followed = fs.target
      /\ fs.node.kind # "link" => Followed = fs.node /\ ~Resolves
      /\ fs.target.kind # "link"
      /\ Resolves <=> fs.node.kind = "link" /\ Followed \notin Unresolved
  BY DEF ContextFits, FileSystems, FactsAreTrue, Followed, Resolves, Unresolved, Missing, Loop
<1>3. Physical # Unread => (LinkSeen <=> fs.node.kind = "link")
  BY <1>1 DEF LinkSeen, Seen
<1>4. PhysicalView.is # "needs" => PhysicalView = Physical /\ Physical # Unread
  BY Computes, Outcomes DEF GettersCompute, ContextFits
<1>5. Cached("logical").is # "needs" => Cached("logical") = Logical /\ Logical # Unread
  BY ViewsAre, Outcomes DEF ContextFits
<1>6. Behind /\ Physical # Unread /\ Logical # Unread => Resolves
  BY <1>1, <1>2, <1>3 DEF Behind
<1>7. ~Behind /\ Physical # Unread => ~Resolves
  BY <1>1, <1>2, <1>3 DEF Behind
<1>8. ActiveView.is # "needs" => ActiveView.is = "value" /\ Seen(ActiveView, Active)
  <2>1. CASE Follows /\ Behind
    <3>1. Physical # Unread
      BY <2>1, Outcomes DEF Behind, LinkSeen
    <3>2. ActiveView = Cached("logical")
      BY <2>1, Computes DEF GettersCompute, ContextFits
    <3>3. ActiveView.is # "needs" => Resolves /\ Active = Followed /\ Logical # Error
      BY <1>2, <1>5, <1>6, <2>1, <3>1, <3>2 DEF Active, Behind
    <3> QED
      BY <1>1, <1>5, <3>2, <3>3
  <2>2. CASE ~(Follows /\ Behind)
    BY <1>1, <1>4, <1>7, <2>2, Computes DEF GettersCompute, ContextFits, Active
  <2> QED
    BY <2>1, <2>2
<1>9. PhysicalKind.is # "needs" => PhysicalKind = Got(fs.node.kind)
  BY <1>1, <1>4, Computes DEF GettersCompute, ContextFits, KindIn, Seen, FactsAreTrue
<1>10. LogicalKind.is # "needs" =>
         LogicalKind = Got(IF Resolves THEN fs.target.kind ELSE fs.node.kind)
  <2>1. CASE Behind
    <3>1. Physical # Unread
      BY <2>1, Outcomes DEF Behind, LinkSeen
    <3>2. LogicalKind = KindIn(Cached("logical"))
      BY <2>1, Computes DEF GettersCompute, ContextFits
    <3>3. LogicalKind.is # "needs" => Cached("logical").is # "needs"
      BY <3>2 DEF KindIn
    <3>4. LogicalKind.is # "needs" =>
            Resolves /\ fs.target = Followed /\ Logical # Error /\ Logical # Unread
      BY <1>2, <1>5, <1>6, <2>1, <3>1, <3>3 DEF Behind
    <3> QED
      BY <1>1, <1>5, <3>2, <3>3, <3>4 DEF KindIn, Seen
  <2>2. CASE ~Behind /\ Physical # Unread
    BY <1>1, <1>7, <1>9, <2>2, Computes DEF GettersCompute, ContextFits
  <2>3. CASE ~Behind /\ Physical = Unread
    BY <2>3, Computes, Outcomes DEF GettersCompute, ContextFits
  <2> QED
    BY <2>1, <2>2, <2>3
<1>11. ActiveKind.is # "needs" => ActiveKind = Got(Active.kind)
  BY <1>9, <1>10, Computes DEF GettersCompute, ContextFits, Active
<1>12. CASE g = "kind"
  BY <1>11, <1>12 DEF Answer, Truth
<1>13. CASE g = "xtype"
  BY <1>9, <1>10, <1>13, Computes DEF GettersCompute, ContextFits, Answer, Truth
<1>14. CASE g = "targetKind"
  <2>1. PrintfTargetKind.is # "needs"
    BY <1>14 DEF Answer
  <2>2. ActiveKind = Got(Active.kind) /\ Active.kind # "link" /\ PrintfTargetKind = Got(Active.kind)
    BY <1>11, <2>1, Outcomes DEF PrintfTargetKind, Then
  <2>3. Active.kind = Followed.kind
    BY <1>2, <2>2 DEF Active, Resolves
  <2> QED
    BY <1>14, <2>2, <2>3 DEF Answer, Truth
<1>15. ActiveIdentity.is # "needs" => ActiveIdentity = Got(Active.id)
  BY <1>8, Outcomes DEF ActiveIdentity, Then, Seen
<1>16. CASE g = "identity"
  BY <1>15, <1>16 DEF Answer, Truth
<1>17. CASE g = "atime"
  <2>1. Answer(g) = ActiveAtime /\ Truth(g) = "found"
    BY <1>17 DEF Answer, Truth
  <2>2. ActiveView.is = "value" /\ ActiveView.value.atime = "found"
    BY <1>8, <2>1 DEF ActiveAtime, Then, TimesAreFound
  <2> QED
    BY <2>1, <2>2 DEF ActiveAtime, Then
<1>18. CASE g = "access"
  <2>1. Answer(g) = Cached("access") /\ Truth(g) = fs.accessible
    BY <1>18 DEF Answer, Truth
  <2>2. Answer(g) = Read("access")
    BY <2>1, Outcomes DEF Cached, FactsAreTrue
  <2>3. (fs.node # Missing /\ fs.accessible) = fs.accessible
    BY DEF FactsAreTrue, ContextFits, FileSystems
  <2> QED
    BY <2>1, <2>2, <2>3 DEF Read
<1>19. CASE g = "directoryIdentity"
  <2>1. Answer(g) = DirectoryIdentity
    BY <1>19 DEF Answer
  <2>2. CASE IsTraversalLink.is = "needs"
    BY <2>1, <2>2 DEF DirectoryIdentity, Then
  <2>3. CASE IsTraversalLink.is # "needs"
    <3>1. IsTraversalLink = Got(LinkSeen) /\ Physical # Unread
      BY <1>1, <2>3, Computes, Outcomes DEF GettersCompute, ContextFits
    <3>2. CASE LinkSeen /\ ~Follows
      <4>1. Answer(g) = Nothing
        BY <2>1, <3>1, <3>2, Outcomes DEF DirectoryIdentity, Then
      <4>2. Active.kind = "link"
        BY <1>3, <3>1, <3>2 DEF Active
      <4> QED
        BY <1>19, <4>1, <4>2 DEF Truth, Nothing
    <3>3. CASE ~(LinkSeen /\ ~Follows)
      <4>1. Answer(g) = IF ActiveKind.is = "value"
                        THEN IF ActiveKind.value = "directory" THEN ActiveIdentity ELSE Nothing
                        ELSE ActiveKind
        BY <2>1, <3>1, <3>3, Outcomes DEF DirectoryIdentity, Then
      <4> QED
        BY <1>11, <1>15, <1>19, <4>1, Outcomes DEF Truth, Nothing
    <3> QED
      BY <3>2, <3>3
  <2> QED
    BY <2>2, <2>3
<1>20. CASE g = "empty"
  <2>1. Answer(g) = ActiveIsEmpty
    BY <1>20 DEF Answer
  <2>2. ActiveKind = Got(Active.kind)
    BY <1>11, <2>1 DEF ActiveIsEmpty, Then
  <2>3. Answer(g) = CASE Active.kind = "file" -> Then(ActiveView, LAMBDA v : Got(v.empty))
                      [] Active.kind = "directory" -> Then(ActiveView, LAMBDA v : Cached("emptyDir"))
                      [] OTHER -> Got(FALSE)
    BY <2>1, <2>2, Outcomes DEF ActiveIsEmpty, Then
  <2>4. Truth(g) = (Active.kind \in {"file", "directory"} /\ Active.empty)
    BY <1>20 DEF Truth
  <2>5. CASE Active.kind = "file"
    <3>1. Answer(g) = Then(ActiveView, LAMBDA v : Got(v.empty))
      BY <2>3, <2>5
    <3>2. Answer(g) = Got(ActiveView.value.empty) /\ ActiveView.value.empty = Active.empty
      BY <1>8, <3>1 DEF Then, Seen
    <3>3. Active.empty \in BOOLEAN
      BY <1>2, EntryContextAssumption DEF Active, Resolves, ContextFits, FileSystems
    <3> QED
      BY <2>4, <2>5, <3>2, <3>3
  <2>6. CASE Active.kind = "directory"
    <3>1. Answer(g) = Then(ActiveView, LAMBDA v : Cached("emptyDir"))
      BY <2>3, <2>6
    <3>2. Answer(g) = Cached("emptyDir")
      BY <1>8, <3>1 DEF Then
    <3>3. Answer(g) = Read("emptyDir")
      BY <3>2, Outcomes DEF Cached, FactsAreTrue
    <3>4. Followed = Active
      BY <1>2, <2>6 DEF Active, Resolves
    <3>5. Answer(g) = Got(Active.empty)
      BY <2>6, <3>3, <3>4 DEF Read, IsDirectory
    <3>6. Active.empty \in BOOLEAN
      BY <1>2, EntryContextAssumption DEF Active, Resolves, ContextFits, FileSystems
    <3> QED
      BY <2>4, <2>6, <3>5, <3>6
  <2>7. CASE Active.kind \notin {"file", "directory"}
    BY <2>3, <2>4, <2>7
  <2> QED
    BY <2>5, <2>6, <2>7
<1>21. CASE g = "linkTarget"
  <2>1. Answer(g) = ActiveLinkTarget
    BY <1>21 DEF Answer
  <2>2. PhysicalKind = Got(fs.node.kind)
    BY <1>9, <2>1 DEF ActiveLinkTarget, Then
  <2>3. PhysicalLinkTarget.is # "needs" /\ fs.node.kind = "link" => PhysicalLinkTarget = Got(fs.target.id)
    BY <2>2, Outcomes DEF PhysicalLinkTarget, Then, Cached, FactsAreTrue, Read
  <2>4. CASE fs.node.kind # "link"
    BY <1>2, <1>21, <2>1, <2>2, <2>4, Outcomes DEF ActiveLinkTarget, Then, Nothing, Truth, Active
  <2>5. CASE fs.node.kind = "link" /\ ~Follows
    <3>1. Answer(g) = PhysicalLinkTarget
      BY <2>1, <2>2, <2>5, Outcomes DEF ActiveLinkTarget, Then
    <3> QED
      BY <1>21, <2>3, <2>5, <3>1 DEF Truth, Active
  <2>6. CASE fs.node.kind = "link" /\ Follows
    <3>1. Answer(g) = IF LogicalView = Error THEN PhysicalLinkTarget
                      ELSE Then(LogicalView, LAMBDA v : Nothing)
      BY <2>1, <2>2, <2>6, Outcomes DEF ActiveLinkTarget, Then
    <3>2. Physical # Unread
      BY <3>1, Computes, Outcomes DEF GettersCompute, ContextFits, Then
    <3>3. LogicalView = Cached("logical")
      BY <1>3, <2>6, <3>2, Computes DEF GettersCompute, ContextFits
    <3>4. Cached("logical") = Logical /\ Logical # Unread
      BY <1>5, <3>1, <3>3, Outcomes DEF Then
    <3>5. CASE Logical = Error
      <4>1. ~Resolves
        BY <1>1, <1>2, <3>5
      <4> QED
        BY <1>21, <2>3, <2>6, <3>1, <3>3, <3>4, <3>5, <4>1 DEF Truth, Active
    <3>6. CASE Logical # Error
      <4>1. Resolves /\ Logical.is = "value"
        BY <1>1, <1>2, <2>6, <3>4, <3>6
      <4>2. Answer(g) = Nothing
        BY <3>1, <3>3, <3>4, <3>6, <4>1 DEF Then
      <4> QED
        BY <1>2, <1>21, <2>6, <4>1, <4>2 DEF Truth, Active, Nothing
    <3> QED
      BY <3>5, <3>6
  <2> QED
    BY <2>4, <2>5, <2>6
<1> QED
  BY <1>12, <1>13, <1>14, <1>16, <1>17, <1>18, <1>19, <1>20, <1>21 DEF Getters

LEMMA ViewIs ==
  ASSUME NEW node \in Nodes \cup Unresolved
  PROVE  IF node \in Unresolved THEN View(node) = Error
         ELSE /\ View(node) \in Result(ViewSeen) /\ Seen(View(node), node)
              /\ touched = {} => View(node).value.atime = "found"
<1>1. CASE node \in Unresolved
  BY <1>1 DEF View
<1>2. CASE node \notin Unresolved
  <2>1. node.kind \in STRING /\ node.id \in Nat \ {0} /\ node.empty \in BOOLEAN
    BY <1>2, EntryContextAssumption
  <2>2. View(node) = Got([kind |-> node.kind, id |-> node.id, empty |-> node.empty,
                          atime |-> IF node.id \in touched THEN "ours" ELSE "found"])
    BY <1>2 DEF View
  <2> QED
    BY <1>2, <2>1, <2>2 DEF Got, Result, ViewSeen, Seen
<1> QED
  BY <1>1, <1>2

(* What the path links to, or is, and what a read of it yields. *)
LEMMA ReadsFit ==
  ASSUME fs \in FileSystems
  PROVE  /\ fs.node \in Nodes \cup Unresolved /\ Followed \in Nodes \cup Unresolved
         /\ Read("physical") = View(fs.node) /\ Read("logical") = View(Followed)
         /\ Read("physical") \in Result(ViewSeen) \cup {Error}
         /\ Read("logical") \in Result(ViewSeen) \cup {Error}
         /\ Read("linkTarget") \in Result(Int) \cup {Error}
         /\ Read("emptyDir") \in Result(BOOLEAN) \cup {Error}
         /\ Read("access") \in Result(BOOLEAN)
<1>1. fs.node \in Nodes \cup Unresolved /\ fs.target \in Nodes \cup Unresolved
      /\ fs.accessible \in BOOLEAN
  BY DEF FileSystems, Unresolved
<1>2. Followed \in Nodes \cup Unresolved
  BY <1>1 DEF Followed
<1>3. \A node \in Nodes \cup Unresolved : node.id \in Int /\ node.empty \in BOOLEAN
  <2>1. \A node \in Nodes : node.id \in Int /\ node.empty \in BOOLEAN
    BY EntryContextAssumption
  <2>2. \A node \in Unresolved : node.id \in Int /\ node.empty \in BOOLEAN
    <3>1. Missing.id \in Int /\ Loop.id \in Int
      BY DEF Missing, Loop
    <3>2. Missing.empty \in BOOLEAN /\ Loop.empty \in BOOLEAN
      BY DEF Missing, Loop
    <3> QED
      BY <3>1, <3>2 DEF Unresolved
  <2> QED
    BY <2>1, <2>2
<1>4. Read("physical") = View(fs.node) /\ Read("logical") = View(Followed)
  BY DEF Read
<1>5. Read("linkTarget") \in Result(Int) \cup {Error}
  BY <1>1, <1>3 DEF Read, Result, Got
<1>6. Read("emptyDir") \in Result(BOOLEAN) \cup {Error}
  BY <1>2, <1>3 DEF Read, Result, Got
<1>7. Read("access") \in Result(BOOLEAN)
  BY <1>1 DEF Read, Result, Got
<1> QED
  BY <1>1, <1>2, <1>4, <1>5, <1>6, <1>7, ViewIs

LEMMA ContextInit == Init => ContextInv
<1> SUFFICES ASSUME Init PROVE ContextInv
  OBVIOUS
<1>1. fs \in FileSystems /\ fs.node \in Nodes /\ fs.node # Missing /\ fs.node \notin Unresolved
  BY EntryContextAssumption DEF Init, FileSystems, Unresolved, Missing, Loop
<1>2. /\ \A c \in Caches : cache[c] = IF c = "physical" /\ root THEN View(fs.node) ELSE Unread
      /\ cache = [c \in Caches |-> cache[c]]
  BY DEF Init
<1>3. /\ Physical = Unread \/ Physical = View(fs.node)
      /\ Logical = Unread /\ cache["linkTarget"] = Unread
      /\ cache["emptyDir"] = Unread /\ cache["access"] = Unread
  BY <1>2 DEF Physical, Logical, Caches
<1>4. View(fs.node) \in Result(ViewSeen) /\ Seen(View(fs.node), fs.node)
      /\ View(fs.node).value.atime = "found"
  BY <1>1, ViewIs DEF Init
<1>5. hint \in {"none", fs.node.kind}
  BY DEF Init
<1>6. CacheFits
  BY <1>2, <1>3, <1>4, <1>5 DEF CacheFits, Kept
<1>7. ContextFits
  BY <1>1, <1>6 DEF Init, ContextFits
<1>8. TimesAreFound
  <2>1. \A view \in {Physical, Logical} : view.is = "value" => view.value.atime = "found"
    BY <1>3, <1>4, Outcomes
  <2>2. ActiveView.is = "value" => ActiveView \in {Physical, Logical}
    BY <1>6, Computes, ViewsAre, Outcomes DEF GettersCompute
  <2> QED
    BY <2>1, <2>2 DEF TimesAreFound, Init
<1>9. FactsAreTrue
  BY <1>1, <1>3, <1>4, <1>5, Outcomes DEF FactsAreTrue
<1> QED
  <2>1. answers = [g \in Getters |-> {}]
    BY DEF Init
  <2>2. \A g \in Getters : answers[g] = {}
    BY <2>1
  <2> QED
    BY <1>7, <1>8, <1>9, <2>2 DEF ContextInv, Answered, Getters

(* What is known, and the answers that were given, after a step. *)
LEMMA KnowledgeStays ==
  ASSUME ContextInv, CacheFits', OnlyReads, touched \subseteq touched',
         touched' # {} => ActiveView.is = "value",
         touched = {} =>
           \A view \in {Physical', Logical'} : view.is = "value" => view.value.atime = "found"
  PROVE  /\ TimesAreFound'
         /\ \A g \in Getters : Answer(g).is # "needs" => Answer(g)' = Answer(g)
<1>1. Stays(ActiveView, ActiveView')
  BY ViewsStay DEF ContextInv, ContextFits
<1>2. ActiveView'.is = "value" => ActiveView' \in {Physical', Logical'}
  BY Computes, ComputesNext, Outcomes DEF GettersCompute
<1>3. touched' # {} => ActiveView'.is = "value"
  BY <1>1, Outcomes DEF Stays
<1>4. ActiveView'.is = "value" => ActiveView'.value.atime = "found"
  <2>1. CASE ActiveView.is = "value"
    BY <1>1, <2>1 DEF Stays, ContextInv, TimesAreFound
  <2>2. CASE ActiveView.is # "value"
    BY <1>2, <2>2 DEF ContextInv, TimesAreFound
  <2> QED
    BY <2>1, <2>2
<1>5. touched' = {} => touched = {}
  OBVIOUS
<1>6. TimesAreFound'
  BY <1>3, <1>4, <1>5 DEF TimesAreFound
<1>7. \A g \in Getters : Answer(g).is # "needs" => Answer(g)' = Answer(g)
  BY AnswersStay DEF ContextInv, ContextFits, Stays
<1> QED
  BY <1>6, <1>7

(* What the steps keep that answer nothing. *)
LEMMA NoNewAnswers ==
  ASSUME ContextInv, CacheFits', OnlyReads, touched \subseteq touched',
         touched' # {} => ActiveView.is = "value",
         touched = {} =>
           \A view \in {Physical', Logical'} : view.is = "value" => view.value.atime = "found",
         ContextFits', answers' = answers,
         changes' = 0 => changes = 0 /\ fs' = fs /\ FactsAreTrue'
  PROVE  ContextInv'
<1>1. TimesAreFound' /\ \A g \in Getters : Answer(g).is # "needs" => Answer(g)' = Answer(g)
  BY KnowledgeStays
<1>2. ASSUME NEW g \in Getters \ {"targetKind"} PROVE Answered(g)'
  BY <1>1 DEF ContextInv, Answered
<1>3. fs' = fs /\ mode' = mode /\ root' = root => Truth("targetKind")' = Truth("targetKind")
  BY DEF Truth, Followed
<1>4. changes' = 0 => FactsAreTrue' /\ answers'["targetKind"] \subseteq {Got(Truth("targetKind"))'}
  BY <1>3 DEF OnlyReads, ContextInv
<1> QED
  BY <1>1, <1>2, <1>4 DEF ContextInv

(* The steps that read nothing. *)
LEMMA QuietContext ==
  ASSUME ContextInv, UNCHANGED <<mode, root, hint, cache>>
  PROVE  /\ CacheFits' /\ OnlyReads
         /\ touched = {} => \A view \in {Physical', Logical'} :
                              view.is = "value" => view.value.atime = "found"
         /\ UNCHANGED fs /\ FactsAreTrue => FactsAreTrue'
<1>1. CacheFits'
  BY DEF ContextInv, ContextFits, CacheFits, Physical, Logical
<1>2. Physical' = Physical /\ Logical' = Logical
  BY DEF Physical, Logical
<1>3. touched = {} => \A view \in {Physical', Logical'} :
                        view.is = "value" => view.value.atime = "found"
  BY <1>2 DEF ContextInv, TimesAreFound
<1>4. ASSUME UNCHANGED fs, FactsAreTrue PROVE FactsAreTrue'
  BY <1>2, <1>4 DEF FactsAreTrue, Seen, Followed, Read, IsDirectory, Physical, Logical
<1> QED
  BY <1>1, <1>3, <1>4 DEF OnlyReads

(* active_directory_identity names a directory only if the view it rests on *)
(* is there; it is the one of that view, and without following links that   *)
(* view is of no link.                                                      *)
LEMMA DirectoryEntered ==
  ASSUME CacheFits, DirectoryIdentity.is # "needs", DirectoryIdentity \notin {Nothing, Error}
  PROVE  /\ ActiveView.is = "value" /\ DirectoryIdentity.value = ActiveView.value.id
         /\ ~(LinkSeen /\ ~Follows)
<1>1. CASE IsTraversalLink.is # "value"
  <2>1. DirectoryIdentity = IsTraversalLink
    BY <1>1 DEF DirectoryIdentity, Then
  <2> QED
    BY <1>1, <2>1, Computes, Outcomes DEF GettersCompute
<1>2. CASE IsTraversalLink.is = "value"
  <2>1. IsTraversalLink = Got(LinkSeen) /\ Physical # Unread /\ Physical # Error
    BY <1>2, Computes, Outcomes DEF GettersCompute
  <2>2. ~(LinkSeen /\ ~Follows)
    <3>1. LinkSeen /\ ~Follows => DirectoryIdentity = Nothing
      BY <2>1, Outcomes DEF DirectoryIdentity, Then
    <3> QED
      BY <3>1
  <2>3. DirectoryIdentity = IF ActiveKind.is = "value"
                            THEN IF ActiveKind.value = "directory" THEN ActiveIdentity ELSE Nothing
                            ELSE ActiveKind
    BY <2>1, <2>2, Outcomes DEF DirectoryIdentity, Then
  <2> DEFINE Outcome(x) == x.is \in {"needs", "value"} \/ x = Error
  <2>a. Outcome(PhysicalView) /\ Outcome(Cached("logical"))
    BY Computes, ViewsAre, Outcomes DEF GettersCompute
  <2>b. Outcome(PhysicalKind)
    BY <2>a, Computes, Outcomes DEF GettersCompute, KindIn
  <2>c. Outcome(ActiveKind)
    BY <2>a, <2>b, Computes, Outcomes DEF GettersCompute, KindIn
  <2>d. Outcome(ActiveView)
    BY <2>a, Computes DEF GettersCompute
  <2>4. DirectoryIdentity = ActiveIdentity
    BY <2>3, <2>c
  <2>5. ActiveView.is = "value" /\ DirectoryIdentity = Got(ActiveView.value.id)
    BY <2>4, <2>d DEF ActiveIdentity, Then
  <2> QED
    BY <2>2, <2>5, Outcomes
<1> QED
  BY <1>1, <1>2

LEMMA ContextStep == ContextInv /\ [Next]_vars => ContextInv'
<1> SUFFICES ASSUME ContextInv, [Next]_vars PROVE ContextInv'
  OBVIOUS
<1>a. ContextFits /\ CacheFits /\ fs \in FileSystems
  BY DEF ContextInv, ContextFits
<1>b. touched # {} => ActiveView.is = "value"
  BY DEF ContextInv, TimesAreFound
<1>1. CASE UNCHANGED vars
  <2>1. UNCHANGED <<mode, root, hint, cache>> /\ ContextFits' /\ UNCHANGED fs
    BY <1>a, <1>1, QuietContext DEF vars, ContextFits
  <2>2. changes' = 0 => FactsAreTrue'
    BY <1>1, <2>1, QuietContext DEF vars, ContextInv
  <2> QED
    BY <1>b, <1>1, <2>1, <2>2, QuietContext, NoNewAnswers DEF vars
<1>2. CASE Change
  <2>1. UNCHANGED <<mode, root, hint, cache>> /\ ContextFits' /\ changes' # 0
    BY <1>a, <1>2, QuietContext DEF Change, ContextFits
  <2> QED
    BY <1>b, <1>2, <2>1, QuietContext, NoNewAnswers DEF Change
<1>3. CASE \E getter \in Getters : Ask(getter)
  <2>1. UNCHANGED <<mode, root, hint, cache>> /\ ContextFits' /\ UNCHANGED fs
    BY <1>a, <1>3, QuietContext DEF Ask, ContextFits
  <2>2. changes' = 0 => FactsAreTrue'
    BY <1>3, <2>1, QuietContext DEF Ask, ContextInv
  <2> QED
    BY <1>b, <1>3, <2>1, <2>2, QuietContext, NoNewAnswers DEF Ask
<1>4. CASE Load
  <2>1. asked \in Getters
    BY <1>a, <1>4 DEF Load, ContextFits
  <2>2. PICK c : Lacking(asked, c)
    BY <1>a, <1>4, <2>1, GettersLack DEF Load
  <2>3. /\ c \in Caches /\ cache[c] = Unread /\ (c = "emptyDir" => ActiveView.is = "value")
        /\ cache' = [cache EXCEPT ![c] = Read(c)]
        /\ IF c = "emptyDir" THEN Touch ELSE UNCHANGED touched
    <3>1. Answer(asked).needs = c
      BY <2>2, Outcomes DEF Lacking
    <3>2. /\ c # "stat" /\ cache' = [cache EXCEPT ![c] = Read(c)]
          /\ IF c = "emptyDir" THEN Touch ELSE UNCHANGED touched
      BY <1>4, <3>1 DEF Load
    <3> QED
      BY <2>2, <3>2 DEF Lacking
  <2>4. OnlyReads
    BY <1>4, <2>3 DEF Load, OnlyReads, CacheFits
  <2>5. cache'[c] = Read(c) /\ \A d \in Caches : d # c => cache'[d] = cache[d]
    BY <1>a, <2>3 DEF CacheFits
  <2>6. CacheFits'
    <3>1. cache' = [d \in Caches |-> cache'[d]]
      BY <1>a, <2>3 DEF CacheFits
    <3>2. \A d \in Caches : cache'[d] \in {cache[d], Read(d)}
      BY <2>5
    <3> QED
      BY <1>a, <3>1, <3>2, ReadsFit DEF CacheFits, Physical, Logical, Kept, Caches
  <2>7. touched \subseteq touched' /\ (touched' # {} => ActiveView.is = "value")
    BY <1>b, <2>3 DEF Touch
  <2>8. touched = {} => \A view \in {Physical', Logical'} :
                          view.is = "value" => view.value.atime = "found"
    <3> SUFFICES ASSUME touched = {}, NEW view \in {Physical', Logical'}, view.is = "value"
                 PROVE  view.value.atime = "found"
      OBVIOUS
    <3>1. view \in {Physical, Logical, Read("physical"), Read("logical")}
      BY <2>5 DEF Physical, Logical, Caches
    <3>2. CASE view \in {Physical, Logical}
      BY <3>2 DEF ContextInv, TimesAreFound
    <3>3. CASE view \in {Read("physical"), Read("logical")}
      BY <1>a, <3>3, ReadsFit, ViewIs, Outcomes
    <3> QED
      BY <3>1, <3>2, <3>3
  <2>9. ContextFits'
    BY <1>a, <1>4, <2>6 DEF Load, ContextFits
  <2>10. ASSUME changes = 0 PROVE FactsAreTrue'
    <3>1. FactsAreTrue /\ UNCHANGED <<fs, hint>>
      BY <1>4, <2>10 DEF ContextInv, Load
    <3>2. fs' = fs /\ Followed' = Followed
      BY <3>1 DEF Followed
    <3>3. \A d \in {"linkTarget", "emptyDir", "access"} : Read(d)' = Read(d)
      BY <3>1 DEF Read, IsDirectory, Followed
    <3>4. \A d \in {"linkTarget", "emptyDir", "access"} : cache'[d] \in {Unread, Read(d)'}
      BY <2>5, <3>1, <3>3 DEF FactsAreTrue, Caches
    <3>5. Physical' = Unread \/ (Physical'.is = "value" /\ Seen(Physical', fs.node))
      <4>1. CASE Physical' = Physical
        BY <3>1, <4>1 DEF FactsAreTrue
      <4>2. CASE Physical' = View(fs.node)
        <5>1. fs.node \notin Unresolved
          BY <1>a, <3>1, EntryContextAssumption DEF FactsAreTrue, FileSystems, Unresolved, Missing, Loop
        <5> QED
          BY <1>a, <4>2, <5>1, ViewIs, ReadsFit, Outcomes
      <4> QED
        BY <1>a, <2>5, <4>1, <4>2, ReadsFit DEF Physical, Caches
    <3>6. IF Followed \in Unresolved THEN Logical' \in {Unread, Error}
          ELSE Logical' = Unread \/ (Logical'.is = "value" /\ Seen(Logical', Followed))
      <4>1. CASE Logical' = Logical
        BY <3>1, <4>1 DEF FactsAreTrue
      <4>2. CASE Logical' = View(Followed)
        BY <1>a, <4>2, ViewIs, ReadsFit, Outcomes
      <4> QED
        BY <1>a, <2>5, <4>1, <4>2, ReadsFit DEF Logical, Caches
    <3> QED
      BY <3>1, <3>2, <3>4, <3>5, <3>6 DEF FactsAreTrue, Seen
  <2>11. UNCHANGED <<changes, fs, answers>>
    BY <1>4 DEF Load
  <2> QED
    BY <2>4, <2>6, <2>7, <2>8, <2>9, <2>10, <2>11, NoNewAnswers
<1>5. CASE LookBehindLink
  <2>1. /\ UNCHANGED <<mode, root, hint, cache, touched, fs, changes>>
        /\ answers' = [answers EXCEPT !["targetKind"] = @ \cup {Read("stat")}]
    BY <1>5 DEF LookBehindLink, Reply
  <2>2. ContextFits'
    BY <1>a, <1>5, <2>1, QuietContext DEF LookBehindLink, Reply, ContextFits
  <2>3. /\ TimesAreFound'
        /\ \A g \in Getters : Answer(g).is # "needs" => Answer(g)' = Answer(g)
    BY <1>b, <2>1, QuietContext, KnowledgeStays
  <2>4. \A g \in Getters \ {"targetKind"} : answers'[g] = answers[g]
    BY <1>a, <2>1 DEF ContextFits
  <2>5. \A g \in Getters \ {"targetKind"} : Answered(g)'
    BY <2>3, <2>4 DEF ContextInv, Answered
  <2>6. Read("stat") = Got(Truth("targetKind")) /\ Truth("targetKind")' = Truth("targetKind")
    BY <2>1 DEF Read, Truth, Followed
  <2>7. answers'["targetKind"] = answers["targetKind"] \cup {Read("stat")}
    BY <1>a, <2>1 DEF ContextFits, Getters
  <2>8. changes' = 0 => FactsAreTrue' /\ answers'["targetKind"] \subseteq {Got(Truth("targetKind"))'}
    <3>1. Got(Truth("targetKind"))' = Got(Truth("targetKind"))
      BY <2>6 DEF Got
    <3> QED
      BY <2>1, <2>6, <2>7, <3>1, QuietContext DEF ContextInv
  <2> QED
    BY <2>2, <2>3, <2>5, <2>8 DEF ContextInv
<1>6. CASE Return
  <2>1. /\ UNCHANGED <<mode, root, hint, cache, touched, fs, changes>>
        /\ asked \in Getters /\ Answer(asked).is # "needs"
        /\ answers' = [answers EXCEPT ![asked] = @ \cup {Answer(asked)}]
    BY <1>a, <1>6 DEF Return, Reply, ContextFits
  <2>2. ContextFits'
    BY <1>a, <1>6, <2>1, QuietContext DEF Return, Reply, ContextFits
  <2>3. /\ TimesAreFound'
        /\ \A g \in Getters : Answer(g).is # "needs" => Answer(g)' = Answer(g)
    BY <1>b, <2>1, QuietContext, KnowledgeStays
  <2>4. \A g \in Getters : answers'[g] = IF g = asked THEN answers[g] \cup {Answer(g)} ELSE answers[g]
    BY <1>a, <2>1 DEF ContextFits
  <2>5. ASSUME NEW g \in Getters \ {"targetKind"} PROVE Answered(g)'
    <3>1. CASE g = asked
      BY <2>1, <2>3, <2>4, <3>1 DEF ContextInv, Answered
    <3>2. CASE g # asked
      BY <2>3, <2>4, <3>2 DEF ContextInv, Answered
    <3> QED
      BY <3>1, <3>2
  <2>6. Truth("targetKind")' = Truth("targetKind")
    BY <2>1 DEF Truth, Followed
  <2>7. ASSUME changes = 0
        PROVE  FactsAreTrue' /\ answers'["targetKind"] \subseteq {Got(Truth("targetKind"))'}
    <3>1. Got(Truth("targetKind"))' = Got(Truth("targetKind"))
      BY <2>6 DEF Got
    <3>2. FactsAreTrue /\ FactsAreTrue' /\ TimesAreFound
      BY <2>1, <2>7, QuietContext DEF ContextInv
    <3>3. asked = "targetKind" => Answer(asked) = Got(Truth("targetKind"))
      BY <1>a, <2>1, <3>2, AnswersAreTrue
    <3>4. "targetKind" \in Getters
      BY DEF Getters
    <3> QED
      BY <2>4, <2>7, <3>1, <3>2, <3>3, <3>4 DEF ContextInv
  <2> QED
    BY <2>1, <2>2, <2>3, <2>5, <2>7 DEF ContextInv
<1>7. CASE ReadChildren
  <2>1. UNCHANGED <<mode, root, hint, cache, fs, changes, answers>>
    BY <1>7 DEF ReadChildren
  <2>2. ContextFits'
    BY <1>a, <1>7, <2>1, QuietContext DEF ReadChildren, ContextFits
  <2>3. PICK answer \in answers["directoryIdentity"] : answer \notin {Nothing, Error}
    BY <1>7 DEF ReadChildren
  <2>4. answer = DirectoryIdentity /\ DirectoryIdentity.is # "needs"
    BY <2>3 DEF ContextInv, Answered, Getters, Answer
  <2>5. ActiveView.is = "value"
    BY <1>a, <2>3, <2>4, DirectoryEntered
  <2>6. touched \subseteq touched'
    BY <1>7 DEF ReadChildren, Touch
  <2>7. changes' = 0 => FactsAreTrue'
    BY <2>1, QuietContext DEF ContextInv
  <2> QED
    BY <2>1, <2>2, <2>5, <2>6, <2>7, QuietContext, NoNewAnswers
<1> QED
  BY <1>1, <1>2, <1>3, <1>4, <1>5, <1>6, <1>7 DEF Next

LEMMA ContextInvariant == Spec => []ContextInv
BY ContextInit, ContextStep, PTL DEF Spec

-----------------------------------------------------------------------------
(* The theorems                                                            *)

(* Whatever the order of the questions, a context answers for a path that  *)
(* stays as it is what its follow mode says, for every kind of file, and   *)
(* for any path it answers a question twice in the same way: what the      *)
(* getters of entry.rs compute of the OnceLock fields is not changed by    *)
(* what other getters read in between.                                     *)
THEOREM ContextsAnswerOnce == Spec => []AnswersFollowTheLinks
<1>1. ContextInv => AnswersFollowTheLinks
  <2> SUFFICES ASSUME ContextInv PROVE AnswersFollowTheLinks
    OBVIOUS
  <2>1. ASSUME changes = 0, NEW g \in Getters PROVE answers[g] \subseteq {Got(Truth(g))}
    <3>1. CASE g = "targetKind"
      BY <2>1, <3>1 DEF ContextInv
    <3>2. CASE g # "targetKind"
      BY <2>1, <3>2, AnswersAreTrue DEF ContextInv, Answered
    <3> QED
      BY <3>1, <3>2
  <2>2. ASSUME NEW g \in Getters \ {"targetKind"} PROVE Cardinality(answers[g]) <= 1
    <3>1. CASE answers[g] = {}
      BY <3>1, FS_EmptySet
    <3>2. CASE answers[g] # {}
      <4>1. answers[g] = {Answer(g)}
        BY <3>2 DEF ContextInv, Answered
      <4>2. Cardinality({Answer(g)}) = 1
        BY FS_Singleton
      <4> QED
        BY <4>1, <4>2
    <3> QED
      BY <3>1, <3>2
  <2> QED
    BY <2>1, <2>2 DEF AnswersFollowTheLinks
<1> QED
  BY <1>1, ContextInvariant, PTL

(* An access time that is tested, printed or compared is never one that    *)
(* the program's own reading of the directory has caused: the view is      *)
(* taken before active_is_empty or the walk read the directory.            *)
THEOREM ReadsAreNeverSeen == Spec => []OwnReadsStayUnseen
<1>1. ContextInv => OwnReadsStayUnseen
  <2> SUFFICES ASSUME ContextInv, Got("ours") \in answers["atime"] PROVE FALSE
    BY DEF OwnReadsStayUnseen
  <2>1. Got("ours") = ActiveAtime
    BY DEF ContextInv, Answered, Getters, Answer
  <2>2. ActiveAtime = IF ActiveView.is = "value" THEN Got(ActiveView.value.atime) ELSE ActiveView
    BY DEF ActiveAtime, Then
  <2>3. ActiveView.is = "value" /\ ActiveView.value.atime = "ours"
    BY <2>1, <2>2, Outcomes
  <2> QED
    BY <2>3 DEF ContextInv, TimesAreFound
<1> QED
  BY <1>1, ContextInvariant, PTL

(* The view a getter rests on, as long as what the path showed is what is  *)
(* there: it has the identity of the file the path leads to.               *)
LEMMA ActiveAsSeen ==
  ASSUME ContextInv, StillAsSeen, ActiveView.is = "value", ~(LinkSeen /\ ~Follows), IsDirectory
  PROVE  ActiveView.value.id = Followed.id
<1>a. ContextFits /\ CacheFits /\ fs \in FileSystems
  BY DEF ContextInv, ContextFits
<1>b. Shows(Physical, fs.node) /\ (Follows /\ fs.node.kind = "link" => Shows(Logical, fs.target))
  BY DEF StillAsSeen, Physical, Logical
<1>c. Followed \notin Unresolved
  BY DEF IsDirectory, Unresolved, Missing, Loop
<1>1. fs.node \notin Unresolved
  BY <1>c DEF Followed, Unresolved, Missing, Loop
<1>2. /\ Physical.is = "value" /\ Physical.value.kind = fs.node.kind
      /\ Physical.value.id = fs.node.id
  BY <1>b, <1>1 DEF Shows
<1>3. CASE fs.node.kind # "link"
  <2>1. ~LinkSeen /\ Followed = fs.node
    BY <1>2, <1>3 DEF LinkSeen, Followed
  <2>2. ActiveView = Physical
    BY <1>a, <1>2, <2>1, Computes, Outcomes DEF GettersCompute, Behind
  <2> QED
    BY <1>2, <2>1, <2>2
<1>4. CASE fs.node.kind = "link"
  <2>1. LinkSeen /\ Follows /\ Followed = fs.target
    BY <1>2, <1>4 DEF LinkSeen, Followed
  <2>2. Logical.is = "value" /\ Logical.value.id = Followed.id
    BY <1>b, <1>c, <1>4, <2>1 DEF Shows
  <2>3. ActiveView = Logical
    BY <1>a, <1>2, <2>1, <2>2, Computes, Outcomes DEF GettersCompute, Behind
  <2> QED
    BY <2>2, <2>3
<1> QED
  BY <1>3, <1>4

(* The directory the walk reads is the one whose identity it has compared  *)
(* with the ancestors and the root's device, unless the path has been      *)
(* exchanged since it was looked at: active_directory_identity takes no    *)
(* hint for an answer, and its view is the file that read_dir will follow. *)
THEOREM WalkEntersWhatItChecked == Spec => EntersWhatWasChecked
<1> DEFINE Enters ==
      ReadChildren /\ StillAsSeen =>
        \A a \in answers["directoryIdentity"] \ {Nothing, Error} :
          touched' \subseteq touched \cup {a.value}
<1>1. ContextInv /\ [Next]_vars => [Enters]_vars
  <2> SUFFICES ASSUME ContextInv, ReadChildren, StillAsSeen,
                      NEW a \in answers["directoryIdentity"] \ {Nothing, Error}
               PROVE  touched' \subseteq touched \cup {a.value}
    OBVIOUS
  <2>1. a = DirectoryIdentity /\ DirectoryIdentity.is # "needs"
    BY DEF ContextInv, Answered, Getters, Answer
  <2>2. /\ ActiveView.is = "value" /\ a.value = ActiveView.value.id
        /\ ~(LinkSeen /\ ~Follows)
    BY <2>1, DirectoryEntered DEF ContextInv, ContextFits
  <2>3. CASE IsDirectory
    <3>1. Followed.id = a.value
      BY <2>2, <2>3, ActiveAsSeen
    <3> QED
      BY <2>3, <3>1 DEF ReadChildren, Touch
  <2>4. CASE ~IsDirectory
    BY <2>4 DEF ReadChildren, Touch
  <2> QED
    BY <2>3, <2>4
<1> QED
  BY <1>1, ContextInvariant, PTL DEF Spec, EntersWhatWasChecked
=============================================================================
