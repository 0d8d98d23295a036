--------------------------- MODULE MCEntryContext ---------------------------
(***************************************************************************)
(* A path that may be an empty file, one of two directories or a link, and *)
(* be exchanged once for another one between two reads.                    *)
(***************************************************************************)
EXTENDS EntryContext

MCNodes ==
  {[kind |-> "file", id |-> 1, empty |-> TRUE],
   [kind |-> "directory", id |-> 2, empty |-> FALSE],
   [kind |-> "directory", id |-> 3, empty |-> TRUE],
   [kind |-> "link", id |-> 4, empty |-> FALSE]}
=============================================================================
