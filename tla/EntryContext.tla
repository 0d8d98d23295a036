---------------------------- MODULE EntryContext ----------------------------
(***************************************************************************)
(* entry.rs: what a walk knows of one path. Every fact is read once, when  *)
(* a test, an action or the walk first asks for it, and kept; the file     *)
(* system may change between any two reads. A getter is a computation over *)
(* what has been read that yields a value or the next read it needs.       *)
(***************************************************************************)
EXTENDS Integers, FiniteSets, Sequences

CONSTANTS Nodes,        \* files as the path may show them: [kind, id, empty]
          MaxChanges,   \* bound: changes of the file system by others
          MaxAsks       \* bound: questions to one context

ASSUME EntryContextAssumption ==
  /\ Nodes \subseteq [kind : STRING, id : Nat \ {0}, empty : BOOLEAN]
  /\ MaxChanges \in Nat /\ MaxAsks \in Nat

Modes == {"Physical", "CommandLineOnly", "Logical"}
Missing == [kind |-> "missing", id |-> -1, empty |-> FALSE]
Loop == [kind |-> "loop", id |-> -2, empty |-> FALSE]
Unresolved == {Missing, Loop}

VARIABLES mode, root,   \* FollowMode; whether the path is a start path
          fs,           \* [node, target, accessible]: the path and what it links to
          changes,
          hint,         \* physical_file_type_hint, from the directory's listing
          cache,        \* the OnceLock fields of EntryData
          touched,      \* directories whose atime our own reads have moved
          asks, asked,  \* how often has been asked; the getter that runs
          answers       \* getter -> the answers it has given

vars == <<mode, root, fs, changes, hint, cache, touched, asks, asked, answers>>

Getters == {"kind", "xtype", "targetKind", "identity", "directoryIdentity", "atime",
            "linkTarget", "empty", "access"}
Caches == {"physical", "logical", "linkTarget", "emptyDir", "access"}

Unread == [is |-> "unread"]
Error == [is |-> "error"]
Got(value) == [is |-> "value", value |-> value]
Needs(what) == [is |-> "needs", needs |-> what]

-----------------------------------------------------------------------------
(* What the system calls return. *)
View(node) ==
  IF node \in Unresolved THEN Error
  ELSE Got([kind |-> node.kind, id |-> node.id, empty |-> node.empty,
            atime |-> IF node.id \in touched THEN "ours" ELSE "found"])
Followed == IF fs.node.kind = "link" THEN fs.target ELSE fs.node
IsDirectory == Followed.kind = "directory"

(* One read: the uncached stat of %Y is the last one. *)
Read(what) ==
  CASE what = "physical" -> View(fs.node)
    [] what = "logical" -> View(Followed)
    [] what = "linkTarget" -> IF fs.node.kind = "link" THEN Got(fs.target.id) ELSE Error
    [] what = "emptyDir" -> IF IsDirectory THEN Got(Followed.empty) ELSE Error
    [] what = "access" -> Got(fs.node # Missing /\ fs.accessible)
    [] what = "stat" -> Got(Followed.kind)

-----------------------------------------------------------------------------
(* Getters, over what has been read. An error ends a computation.          *)
Then(x, F(_)) == IF x.is = "value" THEN F(x.value) ELSE x
Cached(what) == IF cache[what] = Unread THEN Needs(what) ELSE cache[what]
Nothing == Got(0)   \* None, where an identity or a link target is asked for

(* uses_logical_view *)
Follows == mode = "Logical" \/ (mode = "CommandLineOnly" /\ root)

PhysicalView == Cached("physical")
IsTraversalLink == Then(PhysicalView, LAMBDA v : Got(v.kind = "link"))
PhysicalKind == IF hint # "none" THEN Got(hint)
                ELSE Then(PhysicalView, LAMBDA v : Got(v.kind))

(* logical_view: no view of anything but a link that resolves. *)
LogicalView ==
  LET link == IsTraversalLink
  IN  CASE link.is = "needs" -> link
        [] link = Got(TRUE) -> Cached("logical")
        [] OTHER -> Error

(* What a link points to if it resolves, and otherwise what it is. *)
LinkOr(F(_), Otherwise) ==
  Then(IsTraversalLink, LAMBDA link :
         IF link /\ LogicalView # Error THEN Then(LogicalView, F) ELSE Otherwise)

KindOf(view) == Got(view.kind)
ActiveView == IF Follows THEN LinkOr(LAMBDA v : Got(v), PhysicalView) ELSE PhysicalView
ActiveKind == IF Follows THEN LinkOr(KindOf, PhysicalKind) ELSE PhysicalKind
LogicalKind == LinkOr(KindOf, PhysicalKind)

(* Mutant: -xtype looks behind a link under -L as well. *)
XtypeAlwaysFollows == LogicalKind

XtypeKind == IF mode = "Logical" THEN PhysicalKind ELSE LogicalKind

(* active_identity; inode and device number come from it, every other      *)
(* field of the metadata from active_view in the same way.                 *)
ActiveIdentity == Then(ActiveView, LAMBDA v : Got(v.id))
ActiveAtime == Then(ActiveView, LAMBDA v : Got(v.atime))

(* printf_target_kind *)
PrintfTargetKind ==
  Then(ActiveKind, LAMBDA kind : IF kind # "link" THEN Got(kind) ELSE Needs("stat"))

(* Mutant: what the listing called a directory is entered. *)
DirectoryByKind ==
  Then(ActiveKind, LAMBDA kind :
         IF kind = "directory" THEN ActiveIdentity ELSE Nothing)

(* active_directory_identity: a link that is not followed is no directory, *)
(* whatever the listing called it.                                         *)
DirectoryIdentity ==
  Then(IsTraversalLink, LAMBDA link :
         IF link /\ ~Follows THEN Nothing
         ELSE Then(ActiveKind, LAMBDA kind :
                     IF kind = "directory" THEN ActiveIdentity ELSE Nothing))

PhysicalLinkTarget ==
  Then(PhysicalKind, LAMBDA kind :
         IF kind # "link" THEN Nothing ELSE Cached("linkTarget"))

(* active_link_target *)
ActiveLinkTarget ==
  Then(PhysicalKind, LAMBDA kind :
         CASE kind # "link" -> Nothing
           [] kind = "link" /\ ~Follows -> PhysicalLinkTarget
           [] OTHER -> IF LogicalView = Error THEN PhysicalLinkTarget
                       ELSE Then(LogicalView, LAMBDA v : Nothing))

(* Mutant: the directory is probed before its metadata has been read. *)
ProbedFirst ==
  Then(ActiveKind, LAMBDA kind :
         CASE kind = "file" -> Then(ActiveView, LAMBDA v : Got(v.empty))
           [] kind = "directory" -> Cached("emptyDir")
           [] OTHER -> Got(FALSE))

(* active_is_empty: the metadata are read before the directory. *)
ActiveIsEmpty ==
  Then(ActiveKind, LAMBDA kind :
         CASE kind = "file" -> Then(ActiveView, LAMBDA v : Got(v.empty))
           [] kind = "directory" -> Then(ActiveView, LAMBDA v : Cached("emptyDir"))
           [] OTHER -> Got(FALSE))

Answer(getter) ==
  CASE getter = "kind" -> ActiveKind
    [] getter = "xtype" -> XtypeKind
    [] getter = "targetKind" -> PrintfTargetKind
    [] getter = "identity" -> ActiveIdentity
    [] getter = "directoryIdentity" -> DirectoryIdentity
    [] getter = "atime" -> ActiveAtime
    [] getter = "linkTarget" -> ActiveLinkTarget
    [] getter = "empty" -> ActiveIsEmpty
    [] getter = "access" -> Cached("access")

-----------------------------------------------------------------------------
(* The states the path may be in; a target is looked at only behind a link. *)
FileSystems ==
  [node : Nodes \cup {Missing}, accessible : BOOLEAN,
   target : {n \in Nodes : n.kind # "link"} \cup Unresolved]

(* A path is listed with its type or, where the listing has none, without. *)
(* load_entry looks at a start path, which nobody has listed, at once.     *)
Init ==
  /\ mode \in Modes /\ root \in BOOLEAN
  /\ fs \in {f \in FileSystems : f.node # Missing}
  /\ changes = 0 /\ touched = {} /\ asks = 0 /\ asked = "none"
  /\ answers = [g \in Getters |-> {}]
  /\ hint \in IF root THEN {"none"} ELSE {"none", fs.node.kind}
  /\ cache = [c \in Caches |-> IF c = "physical" /\ root THEN View(fs.node) ELSE Unread]

(* Somebody else changes the path or what it links to. *)
Change ==
  /\ changes < MaxChanges
  /\ changes' = changes + 1
  /\ fs' \in FileSystems \ {fs}
  /\ UNCHANGED <<mode, root, hint, cache, touched, asks, asked, answers>>

(* A test, a directive or the walk asks for a fact. *)
Ask(getter) ==
  /\ asked = "none" /\ asks < MaxAsks
  /\ asked' = getter /\ asks' = asks + 1
  /\ UNCHANGED <<mode, root, fs, changes, hint, cache, touched, answers>>

Touch == touched' = touched \cup (IF IsDirectory THEN {Followed.id} ELSE {})
Reply(result) ==
  /\ answers' = [answers EXCEPT ![asked] = @ \cup {result}]
  /\ asked' = "none"

(* get_or_init of the next fact the getter lacks. *)
Load ==
  /\ asked # "none" /\ Answer(asked).is = "needs"
  /\ LET what == Answer(asked).needs
     IN  /\ what # "stat"
         /\ cache' = [cache EXCEPT ![what] = Read(what)]
         /\ IF what = "emptyDir" THEN Touch ELSE UNCHANGED touched
  /\ UNCHANGED <<mode, root, fs, changes, hint, asks, asked, answers>>

(* The stat of printf_target_kind is kept nowhere. *)
LookBehindLink ==
  /\ asked = "targetKind" /\ Answer(asked) = Needs("stat")
  /\ Reply(Read("stat"))
  /\ UNCHANGED <<mode, root, fs, changes, hint, cache, touched, asks>>

Return ==
  /\ asked # "none" /\ Answer(asked).is # "needs"
  /\ Reply(Answer(asked))
  /\ UNCHANGED <<mode, root, fs, changes, hint, cache, touched, asks>>

(* The walk reads the directory it has decided to enter (visit_children):  *)
(* whatever the path is or leads to by now, not what has been looked at.   *)
ReadChildren ==
  /\ asked = "none"
  /\ \E a \in answers["directoryIdentity"] : a \notin {Nothing, Error}
  /\ Touch
  /\ UNCHANGED <<mode, root, fs, changes, hint, cache, asks, asked, answers>>

Next ==
  \/ Change \/ (\E getter \in Getters : Ask(getter)) \/ Load \/ LookBehindLink
  \/ Return \/ ReadChildren

Spec == Init /\ [][Next]_vars

-----------------------------------------------------------------------------
(* What -P, -H and -L make of a path that stays as it is: -L looks behind  *)
(* every link that resolves, -H behind start paths, -xtype behind all that *)
(* -type does not look behind.                                             *)
Resolves == fs.node.kind = "link" /\ fs.target \notin Unresolved
Active == IF Follows /\ Resolves THEN fs.target ELSE fs.node
Truth(getter) ==
  CASE getter = "kind" -> Active.kind
    [] getter = "xtype" -> IF mode # "Logical" /\ Resolves THEN fs.target.kind
                           ELSE fs.node.kind
    [] getter = "targetKind" -> Followed.kind
    [] getter = "identity" -> Active.id
    [] getter = "directoryIdentity" -> IF Active.kind = "directory" THEN Active.id ELSE 0
    [] getter = "atime" -> "found"
    [] getter = "linkTarget" -> IF Active.kind = "link" THEN fs.target.id ELSE 0
    [] getter = "empty" -> Active.kind \in {"file", "directory"} /\ Active.empty
    [] getter = "access" -> fs.accessible

(* Whatever the order of the questions, a context answers for a file that  *)
(* stays as it is what its follow mode says (entry.rs:405-507), and for    *)
(* any file it answers a question twice in the same way; only %Y looks     *)
(* again (entry.rs:424).                                                   *)
AnswersFollowTheLinks ==
  /\ changes = 0 => \A g \in Getters : answers[g] \subseteq {Got(Truth(g))}
  /\ \A g \in Getters \ {"targetKind"} : Cardinality(answers[g]) <= 1

(* An access time is never one that the program's own reading of the       *)
(* directory has caused, be it for -empty (entry.rs:386) or by the walk.   *)
(* It is about the reads of one context: another one of the same directory *)
(* (by a second path, or behind a link) may see them.                      *)
OwnReadsStayUnseen == Got("ours") \notin answers["atime"]

(* What a view has shown is still what is there. *)
Shows(view, node) ==
  IF node \in Unresolved THEN view = Error
  ELSE view.is = "value" /\ view.value.kind = node.kind /\ view.value.id = node.id
StillAsSeen ==
  /\ Shows(cache["physical"], fs.node)
  /\ Follows /\ fs.node.kind = "link" => Shows(cache["logical"], fs.target)

(* The directory whose children the walk reads is the one whose identity   *)
(* it has compared with the ancestors and the root's device (entry.rs:442, *)
(* walker.rs:374), also where the listing called a directory what a look   *)
(* then showed to be a link; unless the path has been exchanged since that *)
(* look: fs::read_dir (walker.rs:396) goes by the path as it is by then    *)
(* and follows a link it has become.                                       *)
EntersWhatWasChecked ==
  [][ReadChildren /\ StillAsSeen =>
       \A a \in answers["directoryIdentity"] \ {Nothing, Error} :
         touched' \subseteq touched \cup {a.value}]_vars
=============================================================================
