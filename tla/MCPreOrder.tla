----------------------------- MODULE MCPreOrder -----------------------------
(* A tree with one node of each kind:                                      *)
(*   r             a start path                                            *)
(*     a             a directory holding the file x, whose evaluation may  *)
(*                   fail and whose identity cannot be read, and the       *)
(*                   directory u, which may fail to open                   *)
(*     (an item that cannot be read)                                       *)
(*     l             a link back to r                                      *)
(*     q             a file whose evaluation may quit                      *)
(*     p             a pruned directory holding z                          *)
(*   m             a start path that does not exist                        *)
EXTENDS PreOrderEngine

CONSTANTS r, a, l, q, p, x, u, z, m, dirR, dirA, dirP, dirU, disk

MCNode == {r, a, l, q, p, x, u, z, m}
MCStartPaths == <<r, m>>
MCDir == {r, a, l, p, u}
MCItems == [n \in MCNode |->
  CASE n = r -> <<a, BadItem, l, q, p>>
    [] n = a -> <<x, u>>
    [] n = p -> <<z>>
    [] OTHER -> <<>>]
MCIdentity == [n \in MCDir |->
  CASE n \in {r, l} -> dirR [] n = a -> dirA [] n = p -> dirP [] n = u -> dirU]
MCDevice == [i \in {dirR, dirA, dirP, dirU} |-> disk]
MCMissing == {m}
MCOpaque == {x}
MCPrune == {p}
MCUnreadable == {u}
MCMayQuit == {q}
MCMayFail == {x}
NoNodes == {}
=============================================================================
