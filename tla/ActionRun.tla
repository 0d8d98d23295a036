----------------------------- MODULE ActionRun -----------------------------
(***************************************************************************)
(* Carrying out the actions of a run. In parallel, each worker owns a sink *)
(* (parallel/worker.rs): printed bytes and the captured output of children *)
(* go through a channel to a broker thread that alone writes the terminal  *)
(* (output.rs); -fprint records go to a file that is locked per record;    *)
(* -ok holds the prompt's lock from its question to the end of the command *)
(* (exec/confirm.rs); -exec ... + paths wait in the worker's batches. Each *)
(* worker sends one result, and the engine turns the results and the       *)
(* broker's own into the outcome of the run (parallel/engine.rs). In the   *)
(* ordered mode one thread does all this without a broker (exec/ordered.rs)*)
(* and lets its children inherit the terminal.                             *)
(*                                                                         *)
(* What the walk finds is a set of entries with one action each, handed to *)
(* the workers in any order; the scheduler is a module of its own.         *)
(***************************************************************************)
EXTENDS ExecBatch, FiniteSets

CONSTANTS Workers,
          Scenarios   \* from the entries there are to their kinds of action

Kinds == {"print", "fprint", "exec", "batch", "ok", "delete", "quit",
          "unreadable", "render"}

ASSUME ActionRunAssumption ==
  /\ Workers # {} /\ IsFiniteSet(Workers) /\ "none" \notin Workers
  /\ \A s \in Scenarios : DOMAIN s \subseteq Entries /\ s \in [DOMAIN s -> Kinds]

VARIABLES
  mode,     \* "parallel" or "ordered"
  kind,     \* what is to be done for an entry
  todo,     \* entries the walk has for the workers
  stopped,  \* GlobalControl: no new work is accepted
  pc,       \* where a worker stands
  job,      \* the entry a worker is at
  pending,  \* a worker's batches
  command,  \* the child a worker is about to run or has run
  outbox,   \* what a worker still has to send
  status,   \* a worker's RuntimeStatus and had_runtime_errors
  prompt,   \* holder of the prompt's lock
  fileLock, \* holder of the output file's lock
  channel,  \* messages on their way to the broker
  broker,   \* "running", "failed" or "finished"
  results,  \* what the workers have reported
  run       \* the engine: "collecting", "joining" or "ended" with an outcome

(* What the world has seen. *)
VARIABLES
  tty,      \* questions, answers and confirmed commands
  file,     \* halves of records in the output file
  accepted, \* paths put into a batch
  ran,      \* entry -> how often a child was run for it
  children, \* the argument lists of batched children
  mishaps   \* the kinds of failure that happened

threads == <<todo, stopped, pc, job, pending, command, outbox, status, results>>
ends == <<channel, broker, run>>
world == <<tty, file, accepted, ran, children, mishaps>>
vars == <<mode, kind, threads, prompt, fileLock, ends, world>>

None == "none"
NoCommand == [paths |-> <<>>, batched |-> FALSE, ok |-> TRUE, then |-> "pop"]
Clean == [failed |-> FALSE, errors |-> FALSE]
Message(stream, e, w) == [stream |-> stream, entry |-> e, by |-> w]
Report(s) == [ok |-> TRUE, failed |-> s.failed, errors |-> s.errors]
Failure(why) == [ok |-> FALSE, why |-> why]

(* The threads that carry out actions: one when the run is ordered. *)
Solo == CHOOSE w \in Workers : TRUE
Threads == IF mode = "ordered" THEN {Solo} ELSE Workers

Init ==
  /\ mode \in {"parallel", "ordered"} /\ kind \in Scenarios
  /\ todo = DOMAIN kind /\ stopped = FALSE
  /\ pc = [w \in Workers |-> "pop"]
  /\ job = [w \in Workers |-> None]
  /\ pending = [w \in Workers |-> << >>]
  /\ command = [w \in Workers |-> NoCommand]
  /\ outbox = [w \in Workers |-> <<>>]
  /\ status = [w \in Workers |-> Clean]
  /\ results = <<>>
  /\ prompt = None /\ fileLock = None
  /\ channel = <<>> /\ broker = "running" /\ run = [at |-> "collecting"]
  /\ tty = <<>> /\ file = <<>> /\ accepted = {}
  /\ ran = [e \in Entries |-> 0] /\ children = {} /\ mishaps = {}

-----------------------------------------------------------------------------
Goto(w, where) == pc' = [pc EXCEPT ![w] = where]
Put(w, messages) == outbox' = [outbox EXCEPT ![w] = messages]
Order(w, c) == command' = [command EXCEPT ![w] = c]
Happens(what) == mishaps' = mishaps \cup {what}

(* A task fails: everything stops, the worker reports and leaves without   *)
(* running its batches. The ordered engine returns the error at once.      *)
TaskFails(w, why) ==
  /\ stopped' = TRUE
  /\ results' = Append(results, Failure(why))
  /\ pending' = [pending EXCEPT ![w] = << >>]
  /\ Goto(w, "end")

(* Mutant: the task of a worker that failed is not counted off. *)
BusyAfterFailure(w) == pc[w] \notin {"pop", "flush"} /\ command[w].then # "flush"

(* The worker still counts as one outstanding task. *)
Busy(w) == pc[w] \notin {"pop", "flush", "end"} /\ command[w].then # "flush"

(* The loop drops what pop_blocking gives it once no work is accepted. *)
Drop(w) ==
  /\ mode = "parallel" /\ pc[w] = "pop" /\ stopped
  /\ \E e \in todo : todo' = todo \ {e}
  /\ UNCHANGED <<mode, kind, stopped, pc, job, pending, command, outbox, status,
                 results, prompt, fileLock, ends, world>>

(* The step with which the sink begins an action. *)
FirstStep ==
  [print |-> "send", fprint |-> "lockFile", exec |-> "spawn",
   batch |-> "enqueue", ok |-> "ask", delete |-> "delete", quit |-> "quit",
   unreadable |-> "send", render |-> "render"]

(* A worker takes an entry; one that cannot be read is only reported.      *)
Take(w) ==
  /\ pc[w] = "pop" /\ ~stopped
  /\ \E e \in todo :
       /\ todo' = todo \ {e} /\ job' = [job EXCEPT ![w] = e]
       /\ Goto(w, FirstStep[kind[e]])
       /\ Put(w, CASE kind[e] = "print" -> <<Message("out", e, w)>>
                   [] kind[e] = "unreadable" -> <<Message("err", e, w)>>
                   [] OTHER -> <<>>)
       /\ Order(w, IF kind[e] = "exec" THEN [NoCommand EXCEPT !.paths = <<e>>]
                   ELSE NoCommand)
       /\ IF kind[e] = "unreadable"
          THEN status' = [status EXCEPT ![w].errors = TRUE] /\ Happens("walk")
          ELSE UNCHANGED <<status, mishaps>>
  /\ UNCHANGED <<mode, kind, stopped, pending, results, prompt, fileLock, ends,
                 tty, file, accepted, ran, children>>

(* A rendering that fails is the task's error; a panic ends the thread     *)
(* without a result, its task never counted off.                           *)
RenderFails(w) ==
  /\ pc[w] = "render"
  /\ TaskFails(w, "task")
  /\ UNCHANGED <<mode, kind, todo, job, command, outbox, status, prompt,
                 fileLock, ends, world>>

Panic(w) ==
  /\ mode = "parallel" /\ pc[w] = "render"
  /\ Goto(w, "dead")
  /\ UNCHANGED <<mode, kind, todo, stopped, job, pending, command, outbox,
                 status, results, prompt, fileLock, ends, world>>

Quit(w) ==
  /\ pc[w] = "quit"
  /\ stopped' = TRUE /\ Goto(w, "pop")
  /\ UNCHANGED <<mode, kind, todo, job, pending, command, outbox, status,
                 results, prompt, fileLock, ends, world>>

(* delete_now: a deletion that fails is reported and recorded. *)
Delete(w) ==
  /\ pc[w] = "delete"
  /\ Goto(w, "send")
  /\ \E deleted \in BOOLEAN :
       /\ Order(w, [NoCommand EXCEPT !.ok = deleted])
       /\ Put(w, IF deleted THEN <<>> ELSE <<Message("err", job[w], w)>>)
       /\ IF deleted THEN UNCHANGED mishaps ELSE Happens("action")
  /\ UNCHANGED <<mode, kind, todo, stopped, job, pending, status, results,
                 prompt, fileLock, ends, tty, file, accepted, ran,
                 children>>

(* What a worker has to say: to the broker's channel, which is gone when   *)
(* the broker is, or straight to the terminal.                             *)
Send(w) ==
  /\ pc[w] = "send" /\ outbox[w] # <<>>
  /\ \/ /\ broker = "running"
        /\ channel' = IF mode = "parallel" THEN Append(channel, Head(outbox[w]))
                      ELSE channel
        /\ Put(w, Tail(outbox[w]))
        /\ UNCHANGED <<stopped, pc, pending, results, mishaps>>
     \/ /\ IF mode = "parallel" THEN broker = "failed" /\ UNCHANGED mishaps
           ELSE Happens("write")
        /\ TaskFails(w, IF mode = "parallel" THEN "task" ELSE "write")
        /\ UNCHANGED <<channel, outbox>>
  /\ UNCHANGED <<mode, kind, todo, job, command, status, prompt, fileLock,
                 broker, run, tty, file, accepted, ran, children>>

(* Everything is said: a failure enters the status, and the worker goes on. *)
Said(w) ==
  /\ pc[w] = "send" /\ outbox[w] = <<>>
  /\ Goto(w, command[w].then)
  /\ status' = [status EXCEPT ![w].failed = @ \/ ~command[w].ok]
  /\ Order(w, NoCommand)
  /\ UNCHANGED <<mode, kind, todo, stopped, job, pending, outbox, results,
                 prompt, fileLock, ends, world>>

-----------------------------------------------------------------------------
(* Mutant: a record is written without its lock. *)
WriteUnlocked(w) ==
  /\ pc[w] = "lockFile"
  /\ file' = Append(file, <<job[w], 1>>) /\ Goto(w, "writeFile")
  /\ UNCHANGED <<mode, kind, todo, stopped, job, pending, command, outbox,
                 status, results, prompt, fileLock, ends, tty, accepted,
                 ran, children, mishaps>>

(* write_record, under the file's lock; a write may take several calls.    *)
WriteFirst(w) ==
  /\ pc[w] = "lockFile" /\ fileLock = None
  /\ \/ /\ fileLock' = w /\ file' = Append(file, <<job[w], 1>>)
        /\ Goto(w, "writeFile")
        /\ UNCHANGED <<stopped, pending, results, mishaps>>
     \/ TaskFails(w, "task") /\ Happens("write") /\ UNCHANGED <<fileLock, file>>
  /\ UNCHANGED <<mode, kind, todo, job, command, outbox, status, prompt, ends,
                 tty, accepted, ran, children>>

WriteRest(w) ==
  /\ pc[w] = "writeFile"
  /\ fileLock' = None
  /\ \/ /\ file' = Append(file, <<job[w], 2>>) /\ Goto(w, "pop")
        /\ UNCHANGED <<stopped, pending, results, mishaps>>
     \/ TaskFails(w, "task") /\ Happens("write") /\ UNCHANGED file
  /\ UNCHANGED <<mode, kind, todo, job, command, outbox, status, prompt, ends,
                 tty, accepted, ran, children>>

(* confirm_prepared: the lock is taken and the question asked. *)
Ask(w) ==
  /\ pc[w] = "ask" /\ prompt = None
  /\ prompt' = w
  /\ tty' = Append(tty, <<"ask", job[w]>>)
  /\ Goto(w, "reply")
  /\ UNCHANGED <<mode, kind, todo, stopped, job, pending, command, outbox,
                 status, results, fileLock, ends, file, accepted, ran,
                 children, mishaps>>

(* Mutant: the lock is given back before the confirmed command has run. *)
ReplyUnlocks(w) ==
  /\ pc[w] = "reply"
  /\ tty' = Append(tty, <<"yes", job[w]>>) /\ Goto(w, "confirmed")
  /\ prompt' = None
  /\ UNCHANGED <<mode, kind, todo, stopped, job, pending, command, outbox,
                 status, results, fileLock, ends, file, accepted, ran,
                 children, mishaps>>

(* The answer: yes, no or end of input, or the terminal fails.             *)
Reply(w) ==
  /\ pc[w] = "reply"
  /\ \/ /\ tty' = Append(tty, <<"yes", job[w]>>) /\ Goto(w, "confirmed")
        /\ UNCHANGED <<prompt, command, outbox, mishaps>>
     \/ /\ tty' = Append(tty, <<"no", job[w]>>) /\ Goto(w, "pop")
        /\ prompt' = None
        /\ UNCHANGED <<command, outbox, mishaps>>
     \/ /\ prompt' = None /\ Goto(w, "send")
        /\ Put(w, <<Message("err", job[w], w)>>)
        /\ Order(w, [NoCommand EXCEPT !.ok = FALSE]) /\ Happens("action")
        /\ UNCHANGED tty
  /\ UNCHANGED <<mode, kind, todo, stopped, job, pending, status, results,
                 fileLock, ends, file, accepted, ran, children>>

(* run_confirmed: the command has the terminal, and its failure counts.    *)
Confirmed(w) ==
  /\ pc[w] = "confirmed"
  /\ tty' = Append(tty, <<"ran", job[w]>>)
  /\ prompt' = None
  /\ ran' = [ran EXCEPT ![job[w]] = @ + 1]
  /\ Goto(w, "send")
  /\ \E success \in BOOLEAN :
       /\ Order(w, [NoCommand EXCEPT !.ok = success])
       /\ IF success THEN UNCHANGED mishaps ELSE Happens("action")
  /\ UNCHANGED <<mode, kind, todo, stopped, job, pending, outbox, status,
                 results, fileLock, ends, file, accepted, children>>

-----------------------------------------------------------------------------
(* enqueue, when the batch has to be run first. *)
FlushFull(w) ==
  LET batch == BatchFor(pending[w], job[w])
  IN  /\ pc[w] = "enqueue" /\ FlushBefore(pending[w], job[w])
      /\ Order(w, [paths |-> batch.paths, batched |-> TRUE, ok |-> TRUE,
                   then |-> "enqueue"])
      /\ pending' = [pending EXCEPT ![w] = Store(@, job[w], Taken(batch))]
      /\ Goto(w, "spawn")
      /\ UNCHANGED <<mode, kind, todo, stopped, job, outbox, status, results,
                     prompt, fileLock, ends, world>>

(* enqueue goes on with push, whose error is fatal to a parallel worker and *)
(* a diagnostic to the ordered sink.                                        *)
Enqueue(w) ==
  /\ pc[w] = "enqueue" /\ ~FlushBefore(pending[w], job[w])
  /\ CASE ~TooLarge(pending[w], job[w]) ->
            /\ pending' = [pending EXCEPT ![w] = PushPath(@, job[w])]
            /\ accepted' = accepted \cup {job[w]}
            /\ Goto(w, "pop")
            /\ UNCHANGED <<stopped, command, outbox, results, mishaps>>
       [] TooLarge(pending[w], job[w]) /\ mode = "parallel" ->
            TaskFails(w, "task") /\ UNCHANGED <<command, outbox, accepted, mishaps>>
       [] OTHER ->
            /\ Put(w, <<Message("err", job[w], w)>>)
            /\ Order(w, [NoCommand EXCEPT !.ok = FALSE])
            /\ Happens("action") /\ Goto(w, "send")
            /\ UNCHANGED <<stopped, pending, results, accepted>>
  /\ UNCHANGED <<mode, kind, todo, job, status, prompt, fileLock, ends, tty, file, ran, children>>

(* flush_all takes the next batch out of the map. *)
FlushNext(w) ==
  LET key == FirstKey(Unflushed(pending[w]))
  IN  /\ pc[w] = "flush" /\ Unflushed(pending[w]) # {}
      /\ Order(w, [paths |-> pending[w][key].paths, batched |-> TRUE,
                   ok |-> TRUE, then |-> "flush"])
      /\ pending' = [pending EXCEPT ![w] = Without(@, key)]
      /\ Goto(w, "spawn")
      /\ UNCHANGED <<mode, kind, todo, stopped, job, outbox, status, results,
                     prompt, fileLock, ends, world>>

(* What a child leaves to say: in parallel its captured output, stdout     *)
(* before stderr; the ordered child has written by itself.                 *)
Captured(w) ==
  LET e == command[w].paths[1]
  IN  IF mode = "ordered" THEN {<<>>}
      ELSE {<<>>, <<Message("out", e, w), Message("err", e, w)>>}

(* Mutant: a batch that fails is false and nothing more. *)
CountsNever(batched, success) == TRUE

(* The child's verdict only counts for a batch; an -exec ... ; that fails  *)
(* is false and nothing more.                                              *)
Counts(batched, success) == success \/ ~batched

(* run_parallel_command or run_prepared_inherited: the child is run and    *)
(* waited for, or cannot be started, which is told like a failure; an      *)
(* error of waiting or of reading its output is the task's.                *)
Spawn(w) ==
  LET c == command[w]
  IN  /\ pc[w] = "spawn"
      /\ ran' = [e \in Entries |->
                   IF \E i \in DOMAIN c.paths : c.paths[i] = e THEN ran[e] + 1
                   ELSE ran[e]]
      /\ children' = IF c.batched THEN children \cup {c.paths} ELSE children
      /\ \/ \E success \in BOOLEAN, said \in Captured(w) \cup
                                      {<<Message("err", c.paths[1], w)>>} :
              /\ Put(w, said) /\ Goto(w, "send")
              /\ Order(w, [c EXCEPT !.ok = Counts(c.batched, success)])
              /\ IF c.batched /\ ~success THEN Happens("action")
                 ELSE UNCHANGED mishaps
              /\ UNCHANGED <<stopped, pending, results>>
         \/ /\ mode = "parallel"
            /\ TaskFails(w, "task") /\ UNCHANGED <<outbox, command, mishaps>>
      /\ UNCHANGED <<mode, kind, todo, job, status, prompt, fileLock, ends,
                     tty, file, accepted>>

-----------------------------------------------------------------------------
(* pop_blocking gives up when no task is outstanding; -quit ends the       *)
(* ordered walk by itself.                                                 *)
Leave(w) ==
  /\ pc[w] = "pop"
  /\ IF mode = "ordered" THEN todo = {} \/ stopped
     ELSE todo = {} /\ \A v \in Workers : ~Busy(v)
  /\ Goto(w, "flush")
  /\ UNCHANGED <<mode, kind, todo, stopped, job, pending, command, outbox,
                 status, results, prompt, fileLock, ends, world>>

(* The last thing a worker does: send its report. *)
SendReport(w) ==
  /\ pc[w] = "flush" /\ Unflushed(pending[w]) = {}
  /\ results' = Append(results, Report(status[w]))
  /\ Goto(w, "end")
  /\ UNCHANGED <<mode, kind, todo, stopped, job, pending, command, outbox,
                 status, prompt, fileLock, ends, world>>

Worker(w) ==
  \/ Drop(w) \/ Take(w) \/ RenderFails(w) \/ Quit(w) \/ Delete(w) \/ Send(w)
  \/ Said(w) \/ WriteFirst(w) \/ WriteRest(w) \/ Ask(w) \/ Reply(w)
  \/ Confirmed(w) \/ FlushFull(w) \/ Enqueue(w) \/ FlushNext(w) \/ Spawn(w)
  \/ Leave(w) \/ SendReport(w)

(* broker_loop: a write that fails ends it and drops the channel. *)
Broker ==
  /\ mode = "parallel" /\ broker = "running"
  /\ \/ /\ channel # <<>>
        /\ channel' = Tail(channel)
        /\ UNCHANGED <<broker, mishaps>>
     \/ /\ channel # <<>>
        /\ broker' = "failed" /\ channel' = <<>> /\ Happens("write")
     \/ /\ channel = <<>> /\ run.at = "joining"
        /\ broker' = "finished"
        /\ UNCHANGED <<channel, mishaps>>
  /\ UNCHANGED <<mode, kind, threads, prompt, fileLock, run, tty, file,
                 accepted, ran, children>>

(* The engine has a result from every worker, joins them and drops its own *)
(* end of the channel.                                                     *)
Collect ==
  /\ run.at = "collecting" /\ Len(results) = Cardinality(Threads)
  /\ run' = [at |-> "joining"]
  /\ UNCHANGED <<mode, kind, threads, prompt, fileLock, channel, broker, world>>

FirstError == {i \in DOMAIN results : ~results[i].ok}
Flagged(field) == \E i \in DOMAIN results : results[i].ok /\ results[i][field]

(* Mutant: the workers' first error hides the broker's. *)
WorkersErrorFirst ==
  IF FirstError # {} THEN results[CHOOSE i \in FirstError : TRUE]
  ELSE IF broker = "failed" THEN Failure("write")
  ELSE [ok |-> TRUE, failed |-> Flagged("failed"), errors |-> Flagged("errors")]

(* The broker's error comes first, then the first worker's; otherwise the  *)
(* reports are joined.                                                     *)
RunOutcome ==
  IF broker = "failed" THEN Failure("write")
  ELSE IF FirstError # {}
  THEN results[CHOOSE i \in FirstError : \A j \in FirstError : i <= j]
  ELSE [ok |-> TRUE, failed |-> Flagged("failed"), errors |-> Flagged("errors")]

Finish ==
  /\ run.at = "joining" /\ (mode = "ordered" \/ broker # "running")
  /\ run' = [at |-> "ended", outcome |-> RunOutcome]
  /\ UNCHANGED <<mode, kind, threads, prompt, fileLock, channel, broker, world>>

Next ==
  \/ \E w \in Threads : Worker(w) \/ Panic(w)
  \/ Broker \/ Collect \/ Finish

Spec == Init /\ [][Next]_vars

(* Threads are scheduled, children end and users answer; nothing panics of *)
(* necessity.                                                              *)
FairSpec ==
  /\ Spec
  /\ \A w \in Workers : WF_vars(w \in Threads /\ Worker(w))
  /\ WF_vars(Broker) /\ WF_vars(Collect) /\ WF_vars(Finish)

-----------------------------------------------------------------------------
TypeOK ==
  /\ todo \subseteq Entries /\ stopped \in BOOLEAN
  /\ prompt \in Workers \cup {None} /\ fileLock \in Workers \cup {None}
  /\ broker \in {"running", "failed", "finished"}
  /\ run.at \in {"collecting", "joining", "ended"}
  /\ accepted \subseteq Entries /\ ran \in [Entries -> Nat]
  /\ mishaps \subseteq {"walk", "action", "write"}

Ended == run.at = "ended"
Succeeded == Ended /\ run.outcome.ok

(* Where a path that was accepted for a batch may be waiting. *)
Waiting(e) ==
  {b \in UNION {{w} \X DOMAIN pending[w] : w \in Workers} :
     LET paths == pending[b[1]][b[2]].paths
     IN  \E i \in DOMAIN paths : paths[i] = e}
  \cup {<<w, "spawn">> : w \in {v \in Workers :
     /\ pc[v] = "spawn" /\ command[v].batched
     /\ \E i \in DOMAIN command[v].paths : command[v].paths[i] = e}}

(* A path put into a batch of -exec ... + waits in one place or has been   *)
(* given to exactly one child (parallel/worker.rs:297), and a run that     *)
(* ends without an error has run them all, -quit or not.                   *)
AcceptedPathsRunOnce ==
  /\ \A e \in accepted :
       /\ ran[e] + Cardinality(Waiting(e)) <= 1
       /\ ran[e] + Cardinality(Waiting(e)) = 1 \/ FirstError # {}
       /\ Succeeded => ran[e] = 1
  /\ \A e \in DOMAIN kind \ accepted : kind[e] = "batch" => ran[e] = 0

(* The size kept while a batch is filled, run and filled again             *)
(* (exec/batch.rs:66) is the size of its command line: no child gets one   *)
(* over the limit, or with paths of another -exec or, for -execdir, of     *)
(* another directory; and a batch is run early only for want of room.      *)
BatchesFit ==
  /\ \A paths \in children :
       /\ paths # <<>> /\ Length(paths) <= Limit
       /\ \A i \in DOMAIN paths :
            /\ Id[paths[i]] = Id[paths[1]]
            /\ Id[paths[1]] \in Local => Dir[paths[i]] = Dir[paths[1]]
  /\ \A w \in Workers :
       (pc[w] = "spawn" /\ command[w].then = "enqueue") =>
         Length(Append(command[w].paths, job[w])) > Limit

(* A question, its answer and the confirmed command follow one another on  *)
(* the terminal with no other question, answer or confirmed command in     *)
(* between (exec/confirm.rs:160), and a record of a file output is whole   *)
(* unless a write error stops the run.                                     *)
NothingInterleaves ==
  /\ \A i \in DOMAIN tty :
       /\ tty[i][1] \in {"yes", "no"} => i > 1 /\ tty[i - 1] = <<"ask", tty[i][2]>>
       /\ tty[i][1] = "ran" => i > 1 /\ tty[i - 1] = <<"yes", tty[i][2]>>
  /\ \A i \in DOMAIN file :
       /\ file[i][2] = 2 => i > 1 /\ file[i - 1] = <<file[i][1], 1>>
       /\ (file[i][2] = 1 /\ i < Len(file)) =>
            (file[i + 1] = <<file[i][1], 2>> \/ FirstError # {})

(* The outcome of the run tells what happened: an error it reports, or a   *)
(* summary whose two flags are exact, with every message on the terminal.  *)
(* When the terminal fails, that is the error the user gets, not one of    *)
(* the errors it causes in the workers (output.rs:42).                     *)
OutcomeTellsTheTruth ==
  Ended =>
    /\ run.outcome.ok =>
         /\ run.outcome.failed <=> "action" \in mishaps
         /\ run.outcome.errors <=> "walk" \in mishaps
         /\ "write" \notin mishaps /\ channel = <<>>
         /\ \A w \in Workers : outbox[w] = <<>>
    /\ broker = "failed" => run.outcome = Failure("write")

(* However actions fail, the run ends unless a worker panics: no worker    *)
(* waits for another that has left, and the broker and the engine see the  *)
(* end (liveness; parallel/worker.rs:279 counts a failed task off too).    *)
RunEnds == <>(Ended \/ \E w \in Workers : pc[w] = "dead")

(* parallel/engine.rs:106 turns the panic of a worker into the error       *)
(* "v2 worker thread panicked": a run with a panic ends too.               *)
PanicIsReported == (\E w \in Workers : pc[w] = "dead") ~> Ended
=============================================================================
