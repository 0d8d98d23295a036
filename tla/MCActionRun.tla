---------------------------- MODULE MCActionRun ----------------------------
(***************************************************************************)
(* Two workers and three entries at a time. Two of the short paths fill a  *)
(* batch exactly, the third needs one of its own, and the fourth fits      *)
(* nowhere; the others are for an -execdir in two directories.             *)
(***************************************************************************)
EXTENDS ActionRun, TLC

CONSTANTS e1, e2, e3, e4, d1, d2, d3

MCEntries == {e1, e2, e3, e4, d1, d2, d3}
MCId == [e \in MCEntries |-> IF e \in {e1, e2, e3, e4} THEN 1 ELSE 2]
MCLocal == {2}
MCDir == [e \in MCEntries |-> IF e = d3 THEN 2 ELSE 1]
MCCost == [e \in MCEntries |-> IF e = e4 THEN 5 ELSE IF e = e3 THEN 3 ELSE 2]

MCScenarios ==
  {e1 :> "batch" @@ e2 :> "batch" @@ e3 :> "batch",
   e1 :> "batch" @@ e4 :> "batch" @@ d1 :> "print",
   d1 :> "batch" @@ d2 :> "batch" @@ d3 :> "batch",
   e1 :> "batch" @@ d3 :> "batch" @@ e2 :> "quit",
   e1 :> "ok" @@ e2 :> "ok" @@ e3 :> "quit",
   e1 :> "fprint" @@ e2 :> "fprint" @@ e3 :> "unreadable",
   e1 :> "exec" @@ e2 :> "delete" @@ e3 :> "print",
   e1 :> "render" @@ e2 :> "batch" @@ e3 :> "ok"}

PanicScenarios == {e1 :> "render" @@ e2 :> "print" @@ e3 :> "fprint"}
=============================================================================
