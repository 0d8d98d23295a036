----------------------------- MODULE ExecBatch -----------------------------
(***************************************************************************)
(* The pending batches of -exec ... + and -execdir ... + (exec/batch.rs):  *)
(* an argument list grows until the next path would make it too long. Path *)
(* lengths are Cost, the limit of the platform is Limit, both in bytes;    *)
(* a batch belongs to one -exec of the command line (its id) and, for      *)
(* -execdir, to one directory.                                             *)
(***************************************************************************)
EXTENDS Integers, Sequences

CONSTANTS Entries,  \* what the walk finds
          Id,       \* entry -> the -exec ... + it is for
          Local,    \* the ids that belong to an -execdir
          Dir,      \* entry -> its directory, a number from 1
          Cost,     \* entry -> bytes its path takes as an argument
          Fixed,    \* bytes the command itself takes
          Limit     \* BatchLimit::max_bytes

(* The -exec's are numbered, directories too, and lengths are bytes.       *)
ASSUME ExecBatchAssumption ==
  /\ Id \in [Entries -> Nat] /\ Dir \in [Entries -> Nat \ {0}]
  /\ Cost \in [Entries -> Nat] /\ Fixed \in Nat /\ Limit \in Nat

(* Mutant: a batch is found by its id alone. *)
KeyOfId(e) == <<Id[e], 0>>

(* ExecBatchKey: the id and, for -execdir, the directory; None is 0. *)
KeyOf(e) == <<Id[e], IF Id[e] \in Local THEN Dir[e] ELSE 0>>

(* The order of the keys in the map. *)
FirstKey(keys) ==
  CHOOSE k \in keys : \A l \in keys : 
    k[1] < l[1] \/ (k[1] = l[1] /\ k[2] <= l[2])

(* PendingBatch. *)
NewBatch == [paths |-> <<>>, used |-> Fixed]
BatchFor(pending, e) ==
  IF KeyOf(e) \in DOMAIN pending THEN pending[KeyOf(e)] ELSE NewBatch
Store(pending, e, batch) ==
  [k \in DOMAIN pending \cup {KeyOf(e)} |->
     IF k = KeyOf(e) THEN batch ELSE pending[k]]

WouldOverflow(batch, e) == batch.used + Cost[e] > Limit

(* The first test of enqueue: the batch is run before e is pushed. *)
FlushBefore(pending, e) ==
  LET batch == BatchFor(pending, e)
  IN  batch.paths # <<>> /\ WouldOverflow(batch, e)

(* What take_ready leaves of a batch. *)
Taken(batch) == NewBatch

(* push, for a batch that flush-before left empty or with room for e.      *)
TooLarge(pending, e) ==
  LET batch == BatchFor(pending, e)
  IN  batch.paths = <<>> /\ WouldOverflow(batch, e)

PushPath(pending, e) ==
  LET batch == BatchFor(pending, e)
  IN  Store(pending, e, [paths |-> Append(batch.paths, e),
                         used |-> batch.used + Cost[e]])

(* Mutant: taking out one batch loses the others. *)
WithoutAny(pending, key) == << >>

(* The keys whose batches a flush still has to run, and what is left after *)
(* one of them has been taken out of the map.                              *)
Unflushed(pending) == {k \in DOMAIN pending : pending[k].paths # <<>>}
Without(pending, key) == [k \in DOMAIN pending \ {key} |-> pending[k]]

(* What a command line of these paths measures. *)
Length(paths) ==
  LET upTo[n \in 0..Len(paths)] ==
        IF n = 0 THEN Fixed ELSE upTo[n - 1] + Cost[paths[n]]
  IN  upTo[Len(paths)]
=============================================================================
