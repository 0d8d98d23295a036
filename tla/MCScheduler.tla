---------------------------- MODULE MCScheduler ----------------------------
(* A small instance of Scheduler: two roots, which may publish two more.    *)
(* No task is published twice.                                              *)
EXTENDS Scheduler

CONSTANTS t1, t2, t3, t4

MCTask == {t1, t2, t3, t4}
MCRoots == <<t1, t2>>

MCSpec == OnceSpec /\ SchedFairness
=============================================================================
