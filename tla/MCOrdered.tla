----------------------------- MODULE MCOrdered -----------------------------
(* A tree with one node of each kind:                                      *)
(*   r             a start path                                            *)
(*     a             a directory holding x, whose evaluation may fail, and *)
(*                   v, a directory that may fail to open                  *)
(*     (an item that cannot be read)                                       *)
(*     l             a link back to r                                      *)
(*     p             a pruned directory holding z, whose evaluation may    *)
(*                   quit where p is not pruned (depth mode)               *)
(*     d             a directory on another device, holding y              *)
(*     u             a directory that may fail to open                     *)
(*   m             a start path that does not exist                        *)
(*   q             a start path: a directory whose evaluation may quit,     *)
(*                 holding c, whose pre-pass fails, and o, whose identity   *)
(*                 cannot be read, and e, whose evaluation may fail         *)
EXTENDS OrderedEngine

CONSTANTS r, a, l, p, d, u, m, q, x, y, z, c, o, v, e,
          dirR, dirA, dirP, dirD, dirU, dirQ, dirO, dirV, disk, disk2

MCNode == {r, a, l, p, d, u, m, q, x, y, z, c, o, v, e}
MCStartPaths == <<r, m, q>>
MCDir == {r, a, l, p, d, u, q, o, v}
MCItems == [n \in MCNode |->
  CASE n = r -> <<a, BadItem, l, p, d, u>>
    [] n = a -> <<x, v>>
    [] n = p -> <<z>>
    [] n = d -> <<y>>
    [] n = q -> <<c, o, e>>
    [] OTHER -> <<>>]
MCIdentity == [n \in MCDir |->
  CASE n \in {r, l} -> dirR [] n = a -> dirA [] n = p -> dirP
    [] n = d -> dirD [] n = u -> dirU [] n = q -> dirQ [] n = o -> dirO
    [] n = v -> dirV]
MCDevice == [i \in {dirR, dirA, dirP, dirD, dirU, dirQ, dirO, dirV} |->
  IF i = dirD THEN disk2 ELSE disk]
MCMissing == {m}
MCControlError == {c}
MCOpaque == {o}
MCPrune == {p}
MCUnreadable == {u, v}
MCMayQuit == {z, q}
MCMayFail == {x, e}
NoNodes == {}

-----------------------------------------------------------------------------
(* The order of the sequential walk once more, by recursion over the tree: a *)
(* directory before, or in depth mode after, what it holds.                  *)
OrderOf[n \in Node] ==
  LET kids == SelectSeq(Items[n], LAMBDA i : i # BadItem)
      below == IF DescendDecision(n) = "yes"
               THEN FlattenSeq([i \in 1..Len(kids) |-> OrderOf[kids[i]]]) ELSE <<>>
      self == IF IsEvaluatedAt(n) THEN <<n>> ELSE <<>>
  IN IF Fails(n) THEN <<>>
     ELSE IF ~PostOrder THEN self \o below
     ELSE IF n \in Dir /\ DescendDecision(n) = "error" THEN <<>> ELSE below \o self

EntryOrder == FlattenSeq([i \in 1..Len(StartPaths) |-> OrderOf[StartPaths[i]]])

(* It lists the entries, and Precedes is its order. *)
ASSUME RecursiveOrderAgrees ==
  /\ RangeOf(EntryOrder) = Entries
  /\ \A i, k \in 1..Len(EntryOrder) : i < k <=> Precedes(EntryOrder[i], EntryOrder[k])
=============================================================================
