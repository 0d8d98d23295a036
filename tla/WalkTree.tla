------------------------------ MODULE WalkTree ------------------------------
(***************************************************************************)
(* The tree a run walks, as the walkers see it: the entries reached from   *)
(* the start paths, what read_dir lists, what fails, and the decision      *)
(* should_descend_directory of src/src/walker.rs.  The file system does    *)
(* not change during the run.                                              *)
(*                                                                         *)
(* A node is an occurrence of a path: a directory reached twice through    *)
(* symbolic links is two nodes with the same Identity.                     *)
(***************************************************************************)
EXTENDS Integers, Sequences, FiniteSets

CONSTANTS
  Node,            \* the entries
  BadItem,         \* a directory item whose DirEntry is an error
  StartPaths,      \* the start paths, in command-line order
  Items,           \* what read_dir yields for each node, in its order
  Dir,             \* the nodes that are directories under the follow mode
  Identity,        \* the file identity of each directory
  Device,          \* the device of each identity
  Missing,         \* start paths whose metadata cannot be read
  ControlError,    \* nodes on which the -prune pre-pass fails
  Opaque,          \* nodes whose directory identity cannot be read
  Unreadable,      \* directories that read_dir may fail to open
  Prune,           \* nodes the -prune pre-pass prunes
  MinDepth,
  MaxDepth,        \* Unlimited, or a depth
  Unlimited,
  SameFileSystem   \* -xdev

RangeOf(s) == {s[i] : i \in 1..Len(s)}
Children(n) == RangeOf(Items[n]) \ {BadItem}
Root == RangeOf(StartPaths)

ASSUME WalkTreeAssumption ==
  /\ BadItem \notin Node
  /\ StartPaths \in Seq(Node)
  /\ Items \in [Node -> Seq(Node \cup {BadItem})]
  /\ Dir \subseteq Node
  /\ \A n \in Node \ Dir : Items[n] = <<>>
  /\ \A n \in Node \ Root : \E p \in Node : {q \in Node : n \in Children(q)} = {p}
  /\ \A n \in Root : \A p \in Node : n \notin Children(p)
  \* No node occurs twice: what is given, or listed, twice is two nodes.
  /\ \A i, k \in 1..Len(StartPaths) : StartPaths[i] = StartPaths[k] => i = k
  /\ \A n \in Node : \A i, k \in 1..Len(Items[n]) :
       Items[n][i] = Items[n][k] => i = k \/ Items[n][i] = BadItem
  \* No node is below itself: in every set of nodes, one is a child of none.
  /\ \A U \in SUBSET Node : U # {} => \E n \in U : \A p \in U : n \notin Children(p)
  /\ Missing \subseteq Root
  /\ \A n \in Unreadable : Items[n] = <<>>   \* what they hold is not walked
  /\ MinDepth \in Nat
  /\ MaxDepth = Unlimited \/ MaxDepth \in Nat
  /\ SameFileSystem \in BOOLEAN

Parent(n) == CHOOSE p \in Node : n \in Children(p)

Depth[n \in Node] == IF n \in Root THEN 0 ELSE 1 + Depth[Parent(n)]

Ancestors[n \in Node] ==
  IF n \in Root THEN {} ELSE Ancestors[Parent(n)] \cup {Parent(n)}

(* The device a subtree is confined to: that of its root directory. *)
RootDevice[n \in Node] ==
  IF n \in Root THEN Device[Identity[n]] ELSE RootDevice[Parent(n)]

-----------------------------------------------------------------------------
TooDeep(n) == MaxDepth # Unlimited /\ Depth[n] >= MaxDepth
ClosesLoop(n) == \E a \in Ancestors[n] : Identity[a] = Identity[n]
OffDevice(n) == SameFileSystem /\ Device[Identity[n]] # RootDevice[n]

(* should_descend_directory, with its early returns in their order. *)
DescendDecision(n) ==
  IF n \in Prune \/ TooDeep(n) THEN "no"
  ELSE IF n \in Opaque THEN "error"
  ELSE IF n \notin Dir THEN "no"
  ELSE IF ClosesLoop(n) THEN "error"
  ELSE IF OffDevice(n) THEN "no" ELSE "yes"

Loads(n) == n \notin Missing
Controlled(n) == n \notin ControlError
IsEvaluatedAt(n) == Depth[n] >= MinDepth

(* The nodes a complete walk reaches. *)
Opens(n) == Loads(n) /\ Controlled(n) /\ DescendDecision(n) = "yes"

Reached[n \in Node] ==
  n \in Root \/ (Reached[Parent(n)] /\ Opens(Parent(n)))

(* What GNU-compatible output owes the user: every reached entry that loads *)
(* and passes the pre-pass, down from -mindepth.  In post-order an entry    *)
(* whose identity cannot be read, or that closes a loop, is only reported.  *)
PreOrderEntries ==
  {n \in Node : Reached[n] /\ Loads(n) /\ Controlled(n) /\ IsEvaluatedAt(n)}

PostOrderEntries ==
  {n \in PreOrderEntries : n \notin Opaque /\ ~(n \in Dir /\ DescendDecision(n) = "error")}
=============================================================================
