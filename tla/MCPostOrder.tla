---------------------------- MODULE MCPostOrder ----------------------------
(* A tree on which every kind of batch occurs:                             *)
(*   r             a start path                                            *)
(*     a             a directory holding the files x and y: evaluating x   *)
(*                   may fail, the identity of y cannot be read, and       *)
(*                   evaluating a itself may quit                          *)
(*     (an item that cannot be read)                                       *)
(*     l             a link back to r                                      *)
(*     d             a directory that is empty, or cannot be opened        *)
(*   m             a start path that does not exist                        *)
(*   q             a start path, a file, whose evaluation may quit           *)
EXTENDS PostOrderEngine

CONSTANTS r, a, l, q, d, x, y, m, dirR, dirA, dirD, disk

MCNode == {r, a, l, q, d, x, y, m}
MCStartPaths == <<r, m, q>>
MCDir == {r, a, l, d}
MCItems == [n \in MCNode |->
  CASE n = r -> <<a, BadItem, l, d>>
    [] n = a -> <<x, y>>
    [] OTHER -> <<>>]
MCIdentity == [n \in MCDir |->
  CASE n \in {r, l} -> dirR [] n = a -> dirA [] n = d -> dirD]
MCDevice == [i \in {dirR, dirA, dirD} |-> disk]
MCMissing == {m}
MCOpaque == {y}
MCUnreadable == {d}
MCMayQuit == {q, a}
MCMayFail == {x}
NoNodes == {}
=============================================================================
