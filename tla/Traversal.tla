----------------------------- MODULE Traversal -----------------------------
(***************************************************************************)
(* What every walk promises, whatever the engine: each entry is evaluated  *)
(* at most once, never before the entries it comes after, and the walk     *)
(* ends: with every entry evaluated, or stopped because -quit was          *)
(* evaluated, or failed because an evaluation failed.                      *)
(***************************************************************************)
EXTENDS Integers, FiniteSets

CONSTANTS
  Entry,      \* the entries the expression is evaluated on
  Before,     \* for each entry, the set of entries that come before it
  MayQuit,    \* the entries whose evaluation may execute -quit
  MayFail     \* the nodes whose evaluation, or listing, may be fatal

VARIABLES
  evals,      \* how often each entry was evaluated
  verdict     \* how the walk ended, or "running"

travVars == <<evals, verdict>>

TravInit == evals = [n \in Entry |-> 0] /\ verdict = "running"

Evaluated == {n \in Entry : evals[n] > 0}

Evaluate(n) ==
  /\ verdict = "running"
  /\ evals[n] = 0
  /\ Before[n] \subseteq Evaluated
  /\ evals' = [evals EXCEPT ![n] = 1]
  /\ UNCHANGED verdict

Complete == Evaluated = Entry /\ verdict' = "complete"
Stop     == Evaluated \cap MayQuit # {} /\ verdict' = "stopped"
(* A directory above the entries may fail to open before any was evaluated.  *)
Fail     == (\E n \in MayFail : n \in Entry => n \in Evaluated) /\ verdict' = "failed"

End ==
  /\ verdict = "running"
  /\ Complete \/ Stop \/ Fail
  /\ UNCHANGED evals

TravNext == (\E n \in Entry : Evaluate(n)) \/ End

TravSafety == TravInit /\ [][TravNext]_travVars

TravSpec == TravSafety /\ WF_travVars(TravNext)
=============================================================================
