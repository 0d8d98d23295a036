-------------------------- MODULE ActionRunProofs --------------------------
(***************************************************************************)
(* Proofs about ActionRun, for every set of workers, entries, costs and    *)
(* kinds of action.                                                        *)
(***************************************************************************)
EXTENDS ActionRun, SequenceTheorems, FiniteSetTheorems, WellFoundedInduction, TLAPS

-----------------------------------------------------------------------------
(* Numbers (the library's theorems state this with an operator as parameter) *)

(* Every set of numbers that is not empty has a least element. *)
LEMMA LeastNumber ==
  ASSUME NEW S \in SUBSET Nat, S # {}
  PROVE  \E m \in S : \A n \in S : m <= n
<1>1. PICK m \in S : \A n \in S : ~ (<<n, m>> \in OpToRel(<, Nat))
  BY NatLessThanWellFounded, WFMin, Zenon
<1>2. \A n \in S : n < m => <<n, m>> \in OpToRel(<, Nat)
  BY DEF OpToRel
<1>3. \A n \in S : ~ (n < m)
  BY <1>1, <1>2, Zenon
<1> QED
  BY <1>3

(* A set that has 0 and, with a number, its successor has every number. *)
LEMMA NatSetInduction ==
  ASSUME NEW T, 0 \in T, \A n \in Nat : n \in T => n + 1 \in T
  PROVE  Nat \subseteq T
<1> SUFFICES ASSUME Nat \ T # {} PROVE FALSE
  OBVIOUS
<1>1. PICK D : D = Nat \ T
  OBVIOUS
<1>2. PICK m \in D : \A n \in D : m <= n
  BY <1>1, LeastNumber
<1>3. m - 1 \in Nat /\ m - 1 \notin D
  BY <1>1, <1>2
<1> QED
  BY <1>1, <1>2, <1>3

-----------------------------------------------------------------------------
(* Where the workers are                                                    *)

Places == {"pop", "send", "lockFile", "writeFile", "ask", "reply", "confirmed",
           "enqueue", "spawn", "delete", "quit", "render", "flush", "end", "dead"}

(* Where the worker is at an entry. *)
AtEntry == {"lockFile", "writeFile", "ask", "reply", "confirmed", "enqueue",
            "delete", "quit", "render"}

Batch == [paths : Seq(Entries), used : Nat]
Batches == UNION {[keys -> Batch] : keys \in SUBSET (Nat \X Nat)}
Command == [paths : Seq(Entries), batched : BOOLEAN, ok : BOOLEAN,
            then : {"pop", "enqueue", "flush"}]

(* Every variable has its type, and a worker that is at an entry has one.  *)
RunTypes ==
  /\ TypeOK
  /\ mode \in {"parallel", "ordered"} /\ kind \in Scenarios
  /\ todo \subseteq DOMAIN kind
  /\ pc \in [Workers -> Places]
  /\ job \in [Workers -> Entries \cup {None}]
  /\ command \in [Workers -> Command]
  /\ status \in [Workers -> [failed : BOOLEAN, errors : BOOLEAN]]
  /\ pending \in [Workers -> Batches]
  /\ \A w \in Workers :
       pc[w] \in AtEntry \/ command[w].then = "enqueue" => job[w] \in Entries

(* The threads of a run are workers. *)
LEMMA ThreadsAreWorkers == Threads \subseteq Workers
<1> Solo \in Workers
  BY ActionRunAssumption DEF Solo
<1> QED
  BY DEF Threads

LEMMA NoBatches == << >> \in Batches
<1>1. << >> \in [{} -> Batch]
  OBVIOUS
<1> QED
  BY <1>1 DEF Batches

(* The command of an action that runs none, and what may be changed in one. *)
LEMMA CommandTypes ==
  /\ NoCommand \in Command
  /\ \A b \in BOOLEAN : [NoCommand EXCEPT !.ok = b] \in Command
  /\ \A e \in Entries : [NoCommand EXCEPT !.paths = <<e>>] \in Command
  /\ \A c \in Command : \A b \in BOOLEAN :
       [c EXCEPT !.ok = b] \in Command /\ [c EXCEPT !.ok = b].then = c.then
<1>1. NoCommand \in Command
  BY DEF NoCommand, Command
<1>2. ASSUME NEW c \in Command, NEW b \in BOOLEAN
      PROVE  [c EXCEPT !.ok = b] \in Command /\ [c EXCEPT !.ok = b].then = c.then
  BY DEF Command
<1>3. ASSUME NEW e \in Entries
      PROVE  [NoCommand EXCEPT !.paths = <<e>>] \in Command
  <2>1. <<e>> \in Seq(Entries)
    OBVIOUS
  <2> QED
    BY <1>1, <2>1 DEF Command
<1> QED
  BY <1>1, <1>2, <1>3

LEMMA InitTypes == Init => RunTypes
<1> SUFFICES ASSUME Init PROVE RunTypes
  OBVIOUS
<1>1. todo \subseteq Entries
  BY ActionRunAssumption DEF Init
<1>2. NoCommand \in Command
  BY CommandTypes
<1>3. TypeOK
  BY <1>1 DEF Init, TypeOK
<1>4. << >> \in Batches
  BY NoBatches
<1> QED
  BY <1>2, <1>3, <1>4 DEF Init, RunTypes, Places, AtEntry, Clean, NoCommand

(* What the operations on a worker's batches return. *)
LEMMA BatchTypes ==
  ASSUME NEW p \in Batches, NEW e \in Entries
  PROVE  /\ BatchFor(p, e) \in Batch
         /\ \A b \in Batch : Store(p, e, b) \in Batches
         /\ PushPath(p, e) \in Batches
         /\ \A k : Without(p, k) \in Batches
<1> USE ExecBatchAssumption
<1>1. KeyOf(e) \in Nat \X Nat
  BY DEF KeyOf
<1>2. PICK keys \in SUBSET (Nat \X Nat) : p \in [keys -> Batch]
  BY DEF Batches
<1>3. NewBatch \in Batch
  BY DEF NewBatch, Batch
<1>4. BatchFor(p, e) \in Batch
  BY <1>2, <1>3 DEF BatchFor
<1>5. ASSUME NEW b \in Batch
      PROVE  Store(p, e, b) \in Batches
  <2>1. Store(p, e, b) \in [keys \cup {KeyOf(e)} -> Batch]
    BY <1>2 DEF Store
  <2> QED
    BY SMTT(90), <1>1, <2>1 DEF Batches
<1>6. PushPath(p, e) \in Batches
  <2> DEFINE b == BatchFor(p, e)
  <2>1. [paths |-> Append(b.paths, e), used |-> b.used + Cost[e]] \in Batch
    BY <1>4, AppendProperties DEF Batch
  <2> QED
    BY <1>5, <2>1 DEF PushPath
<1>7. ASSUME NEW k
      PROVE  Without(p, k) \in Batches
  <2>1. Without(p, k) \in [keys \ {k} -> Batch]
    BY <1>2 DEF Without
  <2> QED
    BY <2>1 DEF Batches
<1> QED
  BY <1>4, <1>5, <1>6, <1>7

(* FirstKey is a key: keys are pairs of numbers, compared from the left. *)
LEMMA FirstKeyIsAKey ==
  ASSUME NEW keys \in SUBSET (Nat \X Nat), keys # {}
  PROVE  FirstKey(keys) \in keys
<1> DEFINE ids == {k[1] : k \in keys}
<1>1. PICK id \in ids : \A other \in ids : id <= other
  <2>1. ids \in SUBSET Nat /\ ids # {}
    OBVIOUS
  <2> QED
    BY <2>1, LeastNumber
<1> DEFINE dirs == {k[2] : k \in {l \in keys : l[1] = id}}
<1>2. PICK dir \in dirs : \A other \in dirs : dir <= other
  <2>1. dirs \in SUBSET Nat /\ dirs # {}
    BY <1>1
  <2> QED
    BY <2>1, LeastNumber
<1>3. PICK k \in keys : k[1] = id /\ k[2] = dir
  BY <1>2
<1>4. ASSUME NEW l \in keys
      PROVE  k[1] < l[1] \/ (k[1] = l[1] /\ k[2] <= l[2])
  <2>1. k[1] <= l[1] /\ k[1] \in Nat /\ l[1] \in Nat
    BY <1>1, <1>3
  <2>2. l[1] = id => k[2] <= l[2]
    BY <1>2, <1>3
  <2> QED
    BY <1>3, <2>1, <2>2
<1> QED
  BY <1>3, <1>4 DEF FirstKey

LEMMA TypesStep ==
  ASSUME RunTypes, [Next]_vars
  PROVE  RunTypes'
<1> USE ThreadsAreWorkers DEF RunTypes, TypeOK
<1>1. ASSUME NEW w \in Threads, Drop(w) PROVE RunTypes'
  BY <1>1 DEF Drop, ends, world
<1>2. ASSUME NEW w \in Threads, Take(w) PROVE RunTypes'
  <2> PICK e \in todo :
        /\ todo' = todo \ {e} /\ job' = [job EXCEPT ![w] = e]
        /\ Goto(w, FirstStep[kind[e]])
        /\ Order(w, IF kind[e] = "exec" THEN [NoCommand EXCEPT !.paths = <<e>>]
                    ELSE NoCommand)
        /\ \/ status' = [status EXCEPT ![w].errors = TRUE] /\ Happens("walk")
           \/ UNCHANGED <<status, mishaps>>
    BY <1>2 DEF Take
  <2>1. e \in Entries /\ kind[e] \in Kinds
    BY ActionRunAssumption
  <2>2. FirstStep[kind[e]] \in Places
    BY <2>1 DEF FirstStep, Places, Kinds
  <2>3. NoCommand \in Command /\ [NoCommand EXCEPT !.paths = <<e>>] \in Command
    BY <2>1, CommandTypes
  <2>4. command' \in [Workers -> Command]
    BY <2>3 DEF Order
  <2>5. status' \in [Workers -> [failed : BOOLEAN, errors : BOOLEAN]]
    BY ZenonT(120)
  <2>6. \A v \in Workers :
          pc'[v] \in AtEntry \/ command'[v].then = "enqueue" => job'[v] \in Entries
    BY <2>1 DEF Goto, Order, NoCommand
  <2>7. pc' \in [Workers -> Places] /\ job' \in [Workers -> Entries \cup {None}]
    BY <2>1, <2>2 DEF Goto
  <2>8. mishaps' \subseteq {"walk", "action", "write"} /\ todo' \subseteq Entries
    BY DEF Happens
  <2> QED
    BY <1>2, <2>4, <2>5, <2>6, <2>7, <2>8 DEF Take, ends
<1>3. ASSUME NEW w \in Threads, RenderFails(w) PROVE RunTypes'
  <2>1. << >> \in Batches
    BY NoBatches
  <2> QED
    BY <1>3, <2>1 DEF RenderFails, TaskFails, Goto, ends, world, Places, AtEntry
<1>4. ASSUME NEW w \in Threads, Panic(w) PROVE RunTypes'
  BY <1>4 DEF Panic, Goto, ends, world, Places, AtEntry
<1>5. ASSUME NEW w \in Threads, Quit(w) PROVE RunTypes'
  BY <1>5 DEF Quit, Goto, ends, world, Places, AtEntry
<1>6. ASSUME NEW w \in Threads, Delete(w) PROVE RunTypes'
  <2>1. pc' \in [Workers -> Places] /\ command' \in [Workers -> Command]
    BY <1>6, CommandTypes DEF Delete, Goto, Order, Places
  <2>2. \A v \in Workers :
          pc'[v] \in AtEntry \/ command'[v].then = "enqueue" => job'[v] \in Entries
    BY <1>6 DEF Delete, Goto, Order, NoCommand, AtEntry
  <2>3. mishaps' \subseteq {"walk", "action", "write"}
    BY <1>6 DEF Delete, Happens
  <2> QED
    BY <1>6, <2>1, <2>2, <2>3 DEF Delete, ends
<1>7. ASSUME NEW w \in Threads, Send(w) PROVE RunTypes'
  <2>1. << >> \in Batches
    BY NoBatches
  <2>2. pc' \in [Workers -> Places] /\ pending' \in [Workers -> Batches]
    BY ZenonT(120), <1>7, <2>1 DEF Send, TaskFails, Goto, Places
  <2>3. \A v \in Workers :
          pc'[v] \in AtEntry \/ command'[v].then = "enqueue" => job'[v] \in Entries
    BY <1>7 DEF Send, TaskFails, Goto, AtEntry
  <2>4. mishaps' \subseteq {"walk", "action", "write"} /\ stopped' \in BOOLEAN
    BY <1>7 DEF Send, TaskFails, Happens
  <2> QED
    BY <1>7, <2>2, <2>3, <2>4 DEF Send
<1>8. ASSUME NEW w \in Threads, Said(w) PROVE RunTypes'
  <2>1. command[w].then \in {"pop", "enqueue", "flush"} /\ command[w].ok \in BOOLEAN
    BY DEF Command
  <2>2. pc' \in [Workers -> Places] /\ command' \in [Workers -> Command]
    BY <1>8, <2>1, CommandTypes DEF Said, Goto, Order, Places
  <2>3. \A v \in Workers :
          pc'[v] \in AtEntry \/ command'[v].then = "enqueue" => job'[v] \in Entries
    BY <1>8, <2>1 DEF Said, Goto, Order, NoCommand, AtEntry
  <2>4. status' \in [Workers -> [failed : BOOLEAN, errors : BOOLEAN]]
    BY ZenonT(120), <1>8, <2>1 DEF Said
  <2> QED
    BY <1>8, <2>2, <2>3, <2>4 DEF Said, ends, world
<1>9. ASSUME NEW w \in Threads, WriteFirst(w) PROVE RunTypes'
  <2>1. << >> \in Batches
    BY NoBatches
  <2>2. pc' \in [Workers -> Places] /\ pending' \in [Workers -> Batches]
    BY ZenonT(120), <1>9, <2>1 DEF WriteFirst, TaskFails, Goto, Places
  <2>3. \A v \in Workers :
          pc'[v] \in AtEntry \/ command'[v].then = "enqueue" => job'[v] \in Entries
    BY <1>9 DEF WriteFirst, TaskFails, Goto, AtEntry
  <2>4. mishaps' \subseteq {"walk", "action", "write"} /\ stopped' \in BOOLEAN
    BY <1>9 DEF WriteFirst, TaskFails, Happens
  <2> QED
    BY <1>9, <2>2, <2>3, <2>4 DEF WriteFirst, ends
<1>10. ASSUME NEW w \in Threads, WriteRest(w) PROVE RunTypes'
  <2>1. << >> \in Batches
    BY NoBatches
  <2>2. pc' \in [Workers -> Places] /\ pending' \in [Workers -> Batches]
    BY ZenonT(120), <1>10, <2>1 DEF WriteRest, TaskFails, Goto, Places
  <2>3. \A v \in Workers :
          pc'[v] \in AtEntry \/ command'[v].then = "enqueue" => job'[v] \in Entries
    BY <1>10 DEF WriteRest, TaskFails, Goto, AtEntry
  <2>4. mishaps' \subseteq {"walk", "action", "write"} /\ stopped' \in BOOLEAN
    BY <1>10 DEF WriteRest, TaskFails, Happens
  <2> QED
    BY <1>10, <2>2, <2>3, <2>4 DEF WriteRest, ends
<1>11. ASSUME NEW w \in Threads, Ask(w) PROVE RunTypes'
  BY <1>11 DEF Ask, Goto, ends, Places, AtEntry
<1>12. ASSUME NEW w \in Threads, Reply(w) PROVE RunTypes'
  <2>1. NoCommand \in Command /\ \A b \in BOOLEAN : [NoCommand EXCEPT !.ok = b] \in Command
    BY CommandTypes
  <2>2. pc' \in [Workers -> Places] /\ command' \in [Workers -> Command]
    BY ZenonT(120), <1>12, <2>1 DEF Reply, Goto, Order, Places
  <2>3. \A v \in Workers :
          pc'[v] \in AtEntry \/ command'[v].then = "enqueue" => job'[v] \in Entries
    BY <1>12 DEF Reply, Goto, Order, NoCommand, AtEntry
  <2>4. mishaps' \subseteq {"walk", "action", "write"}
    BY <1>12 DEF Reply, Happens
  <2> QED
    BY <1>12, <2>2, <2>3, <2>4 DEF Reply, ends
<1>13. ASSUME NEW w \in Threads, Confirmed(w) PROVE RunTypes'
  <2>1. NoCommand \in Command /\ \A b \in BOOLEAN : [NoCommand EXCEPT !.ok = b] \in Command
    BY CommandTypes
  <2>2. pc' \in [Workers -> Places] /\ command' \in [Workers -> Command]
    BY <1>13, <2>1 DEF Confirmed, Goto, Order, Places
  <2>3. \A v \in Workers :
          pc'[v] \in AtEntry \/ command'[v].then = "enqueue" => job'[v] \in Entries
    BY <1>13 DEF Confirmed, Goto, Order, NoCommand, AtEntry
  <2>4. mishaps' \subseteq {"walk", "action", "write"}
    BY <1>13 DEF Confirmed, Happens
  <2>5. ran' \in [Entries -> Nat]
    <3>1. ran \in [Entries -> Nat] /\ ran' = [ran EXCEPT ![job[w]] = @ + 1]
      BY <1>13 DEF Confirmed
    <3>2. job[w] \in Entries
      BY <1>13 DEF Confirmed, AtEntry
    <3> HIDE DEF RunTypes, TypeOK
    <3> QED
      BY <3>1, <3>2
  <2> QED
    BY <1>13, <2>2, <2>3, <2>4, <2>5 DEF Confirmed, ends
<1>14. ASSUME NEW w \in Threads, FlushFull(w) PROVE RunTypes'
  <2>1. job[w] \in Entries
    BY <1>14 DEF FlushFull, AtEntry
  <2>2. /\ BatchFor(pending[w], job[w]) \in Batch
        /\ Store(pending[w], job[w], Taken(BatchFor(pending[w], job[w]))) \in Batches
    <3>1. Taken(BatchFor(pending[w], job[w])) \in Batch
      BY ExecBatchAssumption DEF Taken, NewBatch, Batch
    <3>2. pending[w] \in Batches
      OBVIOUS
    <3> QED
      BY <2>1, <3>1, <3>2, BatchTypes
  <2>3. pending' \in [Workers -> Batches] /\ command' \in [Workers -> Command]
    BY <1>14, <2>2 DEF FlushFull, Order, Batch, Command
  <2>4. \A v \in Workers :
          pc'[v] \in AtEntry \/ command'[v].then = "enqueue" => job'[v] \in Entries
    BY <1>14, <2>1 DEF FlushFull, Order, Goto, AtEntry
  <2> QED
    BY <1>14, <2>3, <2>4 DEF FlushFull, Goto, ends, world, Places
<1>15. ASSUME NEW w \in Threads, Enqueue(w) PROVE RunTypes'
  <2>0. job[w] \in Entries /\ pending[w] \in Batches
    BY <1>15 DEF Enqueue, AtEntry
  <2>1. job[w] \in Entries /\ PushPath(pending[w], job[w]) \in Batches /\ << >> \in Batches
    BY <2>0, BatchTypes, NoBatches
  <2>2. pending' \in [Workers -> Batches]
    BY ZenonT(120), <1>15, <2>1 DEF Enqueue, TaskFails
  <2>4. command' \in [Workers -> Command]
    <3>1. [NoCommand EXCEPT !.ok = FALSE] \in Command
      BY CommandTypes
    <3> QED
      BY <1>15, <3>1 DEF Enqueue, Order
  <2>3. \A v \in Workers :
          pc'[v] \in AtEntry \/ command'[v].then = "enqueue" => job'[v] \in Entries
    BY <1>15, <2>1 DEF Enqueue, TaskFails, Order, Goto, AtEntry, NoCommand
  <2> QED
    BY ZenonT(120), <1>15, <2>1, <2>2, <2>3, <2>4 DEF Enqueue, TaskFails, Goto, Happens, ends, Places
<1>16. ASSUME NEW w \in Threads, FlushNext(w) PROVE RunTypes'
  <2> DEFINE key == FirstKey(Unflushed(pending[w]))
  <2>1. PICK keys \in SUBSET (Nat \X Nat) : pending[w] \in [keys -> Batch]
    <3>1. pending[w] \in Batches
      OBVIOUS
    <3> QED
      BY <3>1 DEF Batches
  <2>2. key \in keys
    <3>1. Unflushed(pending[w]) \in SUBSET (Nat \X Nat) /\ Unflushed(pending[w]) # {}
      BY <1>16, <2>1 DEF FlushNext, Unflushed
    <3>2. key \in Unflushed(pending[w])
      BY <3>1, FirstKeyIsAKey
    <3> QED
      BY <2>1, <3>2 DEF Unflushed
  <2>3. Without(pending[w], key) \in Batches
    <3>1. Without(pending[w], key) \in [keys \ {key} -> Batch]
      BY <2>1 DEF Without
    <3> QED
      BY <3>1 DEF Batches
  <2>4. pending' \in [Workers -> Batches] /\ command' \in [Workers -> Command]
    BY <1>16, <2>1, <2>2, <2>3 DEF FlushNext, Order, Batch, Command
  <2>5. \A v \in Workers :
          pc'[v] \in AtEntry \/ command'[v].then = "enqueue" => job'[v] \in Entries
    BY <1>16 DEF FlushNext, Order, Goto, AtEntry
  <2> QED
    BY <1>16, <2>4, <2>5 DEF FlushNext, Goto, ends, world, Places
<1>17. ASSUME NEW w \in Threads, Spawn(w) PROVE RunTypes'
  <2>1. << >> \in Batches
    BY NoBatches
  <2>2. command' \in [Workers -> Command]
    <3>1. \A b \in BOOLEAN : [command[w] EXCEPT !.ok = b] \in Command
      BY CommandTypes
    <3>2. \A b \in BOOLEAN : Counts(command[w].batched, b) \in BOOLEAN
      BY DEF Counts, Command
    <3> QED
      BY <1>17, <3>1, <3>2 DEF Spawn, Order
  <2>3. ran' \in [Entries -> Nat]
    BY <1>17 DEF Spawn
  <2>4. \A v \in Workers :
          pc'[v] \in AtEntry \/ command'[v].then = "enqueue" => job'[v] \in Entries
    <3>1. \A b \in BOOLEAN : [command[w] EXCEPT !.ok = b].then = command[w].then
      BY CommandTypes
    <3>2. \A b \in BOOLEAN : Counts(command[w].batched, b) \in BOOLEAN
      BY DEF Counts, Command
    <3>3. \A v \in Workers : command'[v].then = command[v].then
      BY ZenonT(120), <1>17, <3>1, <3>2 DEF Spawn, Order
    <3>4. \A v \in Workers : pc'[v] \in AtEntry => pc[v] \in AtEntry
      BY ZenonT(120), <1>17 DEF Spawn, TaskFails, Goto, AtEntry
    <3> QED
      BY <1>17, <3>3, <3>4 DEF Spawn
  <2>5. pc' \in [Workers -> Places] /\ pending' \in [Workers -> Batches]
    BY ZenonT(120), <1>17, <2>1 DEF Spawn, TaskFails, Goto, Places
  <2>6. mishaps' \subseteq {"walk", "action", "write"} /\ stopped' \in BOOLEAN
    BY <1>17 DEF Spawn, TaskFails, Happens
  <2> QED
    BY <1>17, <2>2, <2>3, <2>4, <2>5, <2>6 DEF Spawn, ends
<1>18. ASSUME NEW w \in Threads, Leave(w) PROVE RunTypes'
  BY <1>18 DEF Leave, Goto, ends, world, Places, AtEntry
<1>19. ASSUME NEW w \in Threads, SendReport(w) PROVE RunTypes'
  BY <1>19 DEF SendReport, Goto, ends, world, Places, AtEntry
<1>20. CASE Broker
  BY <1>20 DEF Broker, threads, Happens
<1>21. CASE Collect
  BY <1>21 DEF Collect, threads, world
<1>22. CASE Finish
  BY <1>22 DEF Finish, threads, world
<1>23. CASE UNCHANGED vars
  BY <1>23 DEF vars, threads, ends, world
<1> QED
  BY <1>1, <1>2, <1>3, <1>4, <1>5, <1>6, <1>7, <1>8, <1>9, <1>10, <1>11, <1>12,
     <1>13, <1>14, <1>15, <1>16, <1>17, <1>18, <1>19, <1>20, <1>21, <1>22, <1>23
     DEF Next, Worker

-----------------------------------------------------------------------------
(* The two locks                                                           *)

Results == {Report(s) : s \in [failed : BOOLEAN, errors : BOOLEAN]}
             \cup {Failure(why) : why \in {"task", "write"}}

(* The lock of the prompt belongs to the worker between its question and   *)
(* the end of its command, whose last word is then the last on the         *)
(* terminal; the lock of the file to the worker in the middle of a record. *)
PromptHeld == \A w \in Workers :
  /\ pc[w] \in {"reply", "confirmed"} <=> prompt = w
  /\ pc[w] = "reply" => tty # <<>> /\ tty[Len(tty)] = <<"ask", job[w]>>
  /\ pc[w] = "confirmed" => tty # <<>> /\ tty[Len(tty)] = <<"yes", job[w]>>

FileHeld == \A w \in Workers :
  /\ pc[w] = "writeFile" <=> fileLock = w
  /\ pc[w] = "writeFile" => file # <<>> /\ file[Len(file)] = <<job[w], 1>>

(* Half a record at the end of the file is being completed, unless a write *)
(* has failed.                                                             *)
HalfIsHeld ==
  file # <<>> /\ file[Len(file)][2] = 1 =>
    FirstError # {} \/ \E w \in Workers : pc[w] = "writeFile"

LocksInv ==
  /\ tty \in Seq({"ask", "yes", "no", "ran"} \X Entries)
  /\ file \in Seq(Entries \X {1, 2})
  /\ results \in Seq(Results)
  /\ PromptHeld /\ FileHeld /\ HalfIsHeld
  /\ NothingInterleaves

LockPlaces == {"reply", "confirmed", "writeFile"}

(* Errors among the results stay there. *)
LEMMA ResultAppended ==
  ASSUME results \in Seq(Results), NEW r \in Results,
         results' = Append(results, r)
  PROVE  /\ results' \in Seq(Results)
         /\ FirstError # {} => FirstError' # {}
         /\ ~r.ok => FirstError' # {}
<1>1. results' \in Seq(Results) /\ Len(results') = Len(results) + 1
  BY AppendProperties
<1>2. \A i \in 1..Len(results) : results'[i] = results[i]
  BY AppendProperties
<1>3. results'[Len(results) + 1] = r
  BY AppendProperties
<1>4. DOMAIN results = 1..Len(results) /\ DOMAIN results' = 1..(Len(results) + 1)
      /\ Len(results) \in Nat
  BY <1>1, LenProperties
<1>5. FirstError # {} => FirstError' # {}
  BY <1>2, <1>4 DEF FirstError
<1>6. ~r.ok => FirstError' # {}
  BY <1>3, <1>4 DEF FirstError
<1> QED
  BY <1>1, <1>5, <1>6

(* A task that fails leaves an error among the results. *)
LEMMA FailureAppended ==
  ASSUME results \in Seq(Results), NEW w, NEW why \in {"task", "write"},
         TaskFails(w, why)
  PROVE  results' \in Seq(Results) /\ FirstError' # {}
<1>1. Failure(why) \in Results /\ ~Failure(why).ok
  BY DEF Results, Failure
<1> QED
  BY <1>1, ResultAppended DEF TaskFails

LEMMA ReportAppended ==
  ASSUME results \in Seq(Results), RunTypes, NEW w \in Workers,
         results' = Append(results, Report(status[w]))
  PROVE  results' \in Seq(Results) /\ (FirstError # {} => FirstError' # {})
<1>1. Report(status[w]) \in Results
  BY DEF RunTypes, Results
<1> QED
  BY <1>1, ResultAppended

(* A step of a worker outside the two critical sections disturbs neither.  *)
LEMMA OutsideTheLocks ==
  ASSUME RunTypes, LocksInv, NEW w \in Workers, NEW place, NEW e,
         pc[w] \notin LockPlaces, place \notin LockPlaces,
         pc' = [pc EXCEPT ![w] = place],
         job' \in {job, [job EXCEPT ![w] = e]},
         UNCHANGED <<prompt, fileLock, tty, file>>,
         results' \in Seq(Results), FirstError # {} => FirstError' # {}
  PROVE  LocksInv'
<1> USE DEF LocksInv, LockPlaces
<1>1. pc \in [Workers -> Places] /\ job \in [Workers -> Entries \cup {None}]
  BY DEF RunTypes
<1>2. \A v \in Workers : pc'[v] \in LockPlaces => pc'[v] = pc[v] /\ job'[v] = job[v]
  BY <1>1
<1>3. \A v \in Workers : pc[v] \in LockPlaces => pc'[v] = pc[v] /\ job'[v] = job[v]
  BY <1>1
<1>4. PromptHeld'
  BY <1>2, <1>3 DEF PromptHeld
<1>5. FileHeld'
  BY <1>2, <1>3 DEF FileHeld
<1>6. HalfIsHeld'
  BY <1>3 DEF HalfIsHeld
<1>7. NothingInterleaves'
  BY DEF NothingInterleaves
<1> QED
  BY <1>4, <1>5, <1>6, <1>7

LEMMA NothingTouched ==
  ASSUME LocksInv, UNCHANGED <<pc, job, prompt, fileLock, tty, file, results>>
  PROVE  LocksInv'
BY DEF LocksInv, PromptHeld, FileHeld, HalfIsHeld, NothingInterleaves, FirstError

(* The terminal while the prompt's lock is held: one more word.            *)
LEMMA PromptSteps ==
  ASSUME RunTypes, LocksInv, NEW w \in Workers,
         Ask(w) \/ Reply(w) \/ Confirmed(w)
  PROVE  LocksInv'
<1> USE DEF LocksInv
<1>0. /\ pc \in [Workers -> Places] /\ job[w] \in Entries /\ w # None
      /\ job' = job /\ UNCHANGED <<file, fileLock, results>>
  BY ActionRunAssumption DEF RunTypes, Ask, Reply, Confirmed, AtEntry, None
<1>1. FirstError' = FirstError
  BY <1>0 DEF FirstError
<1>2. \A v \in Workers : pc'[v] = "writeFile" <=> pc[v] = "writeFile"
  BY <1>0 DEF Ask, Reply, Confirmed, Goto
<1>3. FileHeld' /\ HalfIsHeld'
  BY <1>0, <1>1, <1>2 DEF FileHeld, HalfIsHeld
<1>4. \A v \in Workers : v # w => pc'[v] = pc[v] /\ pc[v] \notin {"reply", "confirmed"}
  <2>1. prompt = w \/ prompt = None
    BY DEF PromptHeld, Ask, Reply, Confirmed
  <2>2. \A v \in Workers : v # None
    BY ActionRunAssumption DEF None
  <2>3. \A v \in Workers : v # w => pc[v] \notin {"reply", "confirmed"}
    BY <2>1, <2>2 DEF PromptHeld
  <2> QED
    BY <1>0, <2>3 DEF Ask, Reply, Confirmed, Goto
<1>5. \/ /\ prompt' = w /\ tty' = Append(tty, <<"ask", job[w]>>) /\ pc'[w] = "reply"
      \/ /\ prompt' = w /\ tty' = Append(tty, <<"yes", job[w]>>) /\ pc'[w] = "confirmed"
         /\ tty # <<>> /\ tty[Len(tty)] = <<"ask", job[w]>>
      \/ /\ prompt' = None /\ tty' = Append(tty, <<"no", job[w]>>)
         /\ pc'[w] \notin {"reply", "confirmed"}
         /\ tty # <<>> /\ tty[Len(tty)] = <<"ask", job[w]>>
      \/ /\ prompt' = None /\ tty' = tty /\ pc'[w] \notin {"reply", "confirmed"}
      \/ /\ prompt' = None /\ tty' = Append(tty, <<"ran", job[w]>>)
         /\ pc'[w] \notin {"reply", "confirmed"}
         /\ tty # <<>> /\ tty[Len(tty)] = <<"yes", job[w]>>
  <2>1. CASE Ask(w)
    BY <1>0, <2>1 DEF Ask, Goto
  <2>2. CASE Reply(w)
    <3>1. prompt = w /\ tty # <<>> /\ tty[Len(tty)] = <<"ask", job[w]>>
      BY <2>2 DEF Reply, PromptHeld
    <3> QED
      BY <1>0, <2>2, <3>1 DEF Reply, Goto
  <2>3. CASE Confirmed(w)
    <3>1. tty # <<>> /\ tty[Len(tty)] = <<"yes", job[w]>>
      BY <2>3 DEF Confirmed, PromptHeld
    <3> QED
      BY <1>0, <2>3, <3>1 DEF Confirmed, Goto
  <2> QED
    BY <2>1, <2>2, <2>3
<1> DEFINE Word == {"ask", "yes", "no", "ran"} \X Entries
<1>6. ASSUME NEW word \in Word, tty' = Append(tty, word)
      PROVE  /\ tty' \in Seq(Word) /\ Len(tty') = Len(tty) + 1 /\ tty' # <<>>
             /\ tty'[Len(tty')] = word
             /\ \A i \in 1..Len(tty) : tty'[i] = tty[i]
  BY <1>6, AppendProperties
<1>7. tty' \in Seq(Word)
  BY <1>0, <1>5, <1>6
<1>8. PromptHeld'
  <2>1. ASSUME NEW v \in Workers, v # w
        PROVE  /\ pc'[v] \notin {"reply", "confirmed"}
               /\ prompt' # v
    BY <1>4, <1>5, <2>1, ActionRunAssumption DEF None
  <2>2. /\ pc'[w] \in {"reply", "confirmed"} <=> prompt' = w
        /\ pc'[w] = "reply" => tty' # <<>> /\ tty'[Len(tty')] = <<"ask", job'[w]>>
        /\ pc'[w] = "confirmed" => tty' # <<>> /\ tty'[Len(tty')] = <<"yes", job'[w]>>
    BY <1>0, <1>5, <1>6
  <2> QED
    BY <2>1, <2>2 DEF PromptHeld
<1>9. \A i \in DOMAIN tty' :
        /\ tty'[i][1] \in {"yes", "no"} => i > 1 /\ tty'[i - 1] = <<"ask", tty'[i][2]>>
        /\ tty'[i][1] = "ran" => i > 1 /\ tty'[i - 1] = <<"yes", tty'[i][2]>>
  <2>1. \A i \in 1..Len(tty) :
          /\ tty[i][1] \in {"yes", "no"} => i > 1 /\ tty[i - 1] = <<"ask", tty[i][2]>>
          /\ tty[i][1] = "ran" => i > 1 /\ tty[i - 1] = <<"yes", tty[i][2]>>
    BY DEF NothingInterleaves
  <2>2. CASE tty' = tty
    BY <2>1, <2>2
  <2>3. CASE \E word \in Word : tty' = Append(tty, word)
    <3> PICK word \in Word : tty' = Append(tty, word)
      BY <2>3
    <3> DEFINE n == Len(tty)
    <3>1. /\ n \in Nat /\ DOMAIN tty' = 1..(n + 1) /\ tty'[n + 1] = word
          /\ \A i \in 1..n : tty'[i] = tty[i]
      BY <1>6, <1>7, LenProperties
    <3>2. /\ word[1] \in {"yes", "no"} => n > 0 /\ tty[n] = <<"ask", word[2]>>
          /\ word[1] = "ran" => n > 0 /\ tty[n] = <<"yes", word[2]>>
      <4>1. word \in {<<a, job[w]>> : a \in {"ask", "yes", "no", "ran"}}
        BY <1>0, <1>5, <1>6, <3>1
      <4>2. tty # <<>> => n > 0
        BY EmptySeq
      <4> QED
        BY <1>0, <1>5, <1>6, <3>1, <4>1, <4>2
    <3>3. ASSUME NEW i \in 1..n
          PROVE  /\ tty'[i][1] \in {"yes", "no"} => i > 1 /\ tty'[i - 1] = <<"ask", tty'[i][2]>>
                 /\ tty'[i][1] = "ran" => i > 1 /\ tty'[i - 1] = <<"yes", tty'[i][2]>>
      BY <2>1, <3>1, <3>3
    <3> QED
      BY <3>1, <3>2, <3>3
  <2> QED
    BY <1>0, <1>5, <2>2, <2>3
<1>10. NothingInterleaves'
  BY <1>0, <1>1, <1>9 DEF NothingInterleaves
<1> QED
  BY <1>0, <1>3, <1>7, <1>8, <1>10

(* The file while its lock is held: a whole record or a failure. *)
LEMMA FileSteps ==
  ASSUME RunTypes, LocksInv, NEW w \in Workers, WriteFirst(w) \/ WriteRest(w)
  PROVE  LocksInv'
<1> USE DEF LocksInv
<1> DEFINE Record == Entries \X {1, 2}
<1>0. /\ pc \in [Workers -> Places] /\ job[w] \in Entries /\ w # None
      /\ job' = job /\ UNCHANGED <<tty, prompt>>
  BY ActionRunAssumption DEF RunTypes, WriteFirst, WriteRest, AtEntry, None
<1>1. ASSUME NEW record \in Record, file' = Append(file, record)
      PROVE  /\ file' \in Seq(Record) /\ DOMAIN file' = 1..(Len(file) + 1)
             /\ Len(file') = Len(file) + 1 /\ file' # <<>> /\ Len(file) \in Nat
             /\ file'[Len(file) + 1] = record
             /\ \A i \in 1..Len(file) : file'[i] = file[i]
  BY SMTT(90), <1>1, AppendProperties, LenProperties
<1>2. \A v \in Workers : v # w =>
        pc'[v] = pc[v] /\ pc[v] # "writeFile" /\ fileLock # v /\ fileLock' # v
  <2>1. fileLock \in {w, None} /\ fileLock' \in {w, None}
    BY DEF FileHeld, WriteFirst, WriteRest, TaskFails
  <2>2. \A v \in Workers : v # w => v \notin {w, None}
    BY ActionRunAssumption DEF None
  <2>3. \A v \in Workers : v # w => pc'[v] = pc[v]
    BY <1>0 DEF WriteFirst, WriteRest, TaskFails, Goto
  <2> QED
    BY <2>1, <2>2, <2>3 DEF FileHeld
<1>3. \/ /\ pc[w] = "lockFile" /\ pc'[w] = "writeFile" /\ fileLock' = w
         /\ file' = Append(file, <<job[w], 1>>) /\ results' = results
      \/ /\ pc[w] = "lockFile" /\ pc'[w] = "end" /\ fileLock' = fileLock
         /\ file' = file /\ results' \in Seq(Results) /\ FirstError' # {}
      \/ /\ pc[w] = "writeFile" /\ pc'[w] = "pop" /\ fileLock' = None
         /\ file' = Append(file, <<job[w], 2>>) /\ results' = results
      \/ /\ pc[w] = "writeFile" /\ pc'[w] = "end" /\ fileLock' = None
         /\ file' = file /\ results' \in Seq(Results) /\ FirstError' # {}
  <2>1. CASE WriteFirst(w)
    BY <1>0, <2>1, FailureAppended DEF WriteFirst, TaskFails, Goto
  <2>2. CASE WriteRest(w)
    BY <1>0, <2>2, FailureAppended DEF WriteRest, TaskFails, Goto
  <2> QED
    BY <2>1, <2>2
<1>4. results' \in Seq(Results) /\ (FirstError # {} => FirstError' # {})
  BY <1>3 DEF FirstError
<1>5. <<job[w], 1>> \in Record /\ <<job[w], 2>> \in Record
  BY <1>0
<1>6. file' \in Seq(Record)
  BY <1>1, <1>3, <1>5
<1>7. PromptHeld'
  <2>1. \A v \in Workers : \A at \in {"reply", "confirmed"} : pc'[v] = at <=> pc[v] = at
    BY <1>0, <1>2, <1>3
  <2> QED
    BY <1>0, <2>1 DEF PromptHeld
<1>8. FileHeld'
  <2>1. /\ pc'[w] = "writeFile" <=> fileLock' = w
        /\ pc'[w] = "writeFile" => file' # <<>> /\ file'[Len(file')] = <<job'[w], 1>>
    BY <1>0, <1>1, <1>3, <1>5 DEF FileHeld
  <2> QED
    BY <1>2, <2>1 DEF FileHeld
<1>9. HalfIsHeld'
  BY <1>1, <1>3, <1>5 DEF HalfIsHeld
<1>10. \A i \in DOMAIN file' :
         /\ file'[i][2] = 2 => i > 1 /\ file'[i - 1] = <<file'[i][1], 1>>
         /\ (file'[i][2] = 1 /\ i < Len(file')) =>
              (file'[i + 1] = <<file'[i][1], 2>> \/ FirstError' # {})
  <2>1. \A i \in 1..Len(file) :
         /\ file[i][2] = 2 => i > 1 /\ file[i - 1] = <<file[i][1], 1>>
         /\ (file[i][2] = 1 /\ i < Len(file)) =>
              (file[i + 1] = <<file[i][1], 2>> \/ FirstError # {})
    BY DEF NothingInterleaves
  <2>2. CASE file' = file
    <3>1. DOMAIN file' = 1..Len(file) /\ Len(file') = Len(file)
      BY <2>2, LenProperties
    <3> QED
      BY ZenonT(120), <1>4, <2>1, <2>2, <3>1
  <2>3. CASE \E half \in {1, 2} : file' = Append(file, <<job[w], half>>)
    <3> PICK half \in {1, 2} : file' = Append(file, <<job[w], half>>)
      BY <2>3
    <3> DEFINE n == Len(file)
    <3>1. /\ n \in Nat /\ DOMAIN file' = 1..(n + 1) /\ Len(file') = n + 1
          /\ file'[n + 1] = <<job[w], half>> /\ \A i \in 1..n : file'[i] = file[i]
      BY <1>1, <1>5
    <3>2. half = 2 => n > 0 /\ file[n] = <<job[w], 1>>
      <4>1. half = 2 => pc[w] = "writeFile"
        BY <1>3, <3>1, <1>1, <1>5
      <4>2. file # <<>> => n > 0
        BY EmptySeq
      <4> QED
        BY <4>1, <4>2 DEF FileHeld
    <3>3. n > 0 /\ file[n][2] = 1 =>
            file'[n + 1] = <<file[n][1], 2>> \/ FirstError' # {}
      <4> HAVE n > 0 /\ file[n][2] = 1
      <4>1. file # <<>> /\ file[n] \in Record
        BY <3>1, EmptySeq
      <4>2. FirstError # {} \/ \E v \in Workers : pc[v] = "writeFile"
        BY <4>1 DEF HalfIsHeld
      <4>3. pc[w] = "writeFile" => half = 2 \/ FirstError' # {}
        BY <1>3, <3>1, <1>1, <1>5
      <4>4. pc[w] = "writeFile" => file[n] = <<job[w], 1>>
        BY DEF FileHeld
      <4> QED
        BY <1>2, <1>4, <3>1, <4>2, <4>3, <4>4
    <3>4. ASSUME NEW i \in 1..n
          PROVE  /\ file'[i][2] = 2 => i > 1 /\ file'[i - 1] = <<file'[i][1], 1>>
                 /\ (file'[i][2] = 1 /\ i < Len(file')) =>
                      (file'[i + 1] = <<file'[i][1], 2>> \/ FirstError' # {})
      <4>1. /\ file'[i] = file[i] /\ i < n => i + 1 \in 1..n /\ file'[i + 1] = file[i + 1]
            /\ i > 1 => i - 1 \in 1..n /\ file'[i - 1] = file[i - 1]
        BY <3>1
      <4>2. file'[i][2] = 2 => i > 1 /\ file'[i - 1] = <<file'[i][1], 1>>
        BY <2>1, <4>1, <3>1
      <4>3. CASE i < n
        <5>1. (file[i][2] = 1 /\ i < Len(file)) =>
                (file[i + 1] = <<file[i][1], 2>> \/ FirstError # {})
          BY <2>1, <3>1
        <5> QED
          BY <4>3, <5>1, <4>1, <4>2, <1>4, <3>1
      <4>4. CASE i = n
        BY <4>4, <4>1, <4>2, <3>3, <3>1
      <4> QED
        BY SMTT(90), <3>1, <4>3, <4>4
    <3>5. /\ file'[n + 1][2] = 2 => n + 1 > 1 /\ file'[n] = <<file'[n + 1][1], 1>>
          /\ ~(n + 1 < Len(file'))
      <4>1. n > 0 => file'[n] = file[n]
        BY <3>1
      <4>2. file'[n + 1][2] = half /\ file'[n + 1][1] = job[w]
        BY <3>1
      <4> QED
        BY <3>1, <3>2, <4>1, <4>2
    <3>6. \A i \in DOMAIN file' : i \in 1..n \/ i = n + 1
      BY <3>1
    <3>7. (n + 1) - 1 = n
      BY <3>1
    <3> QED
      BY ZenonT(120), <3>4, <3>5, <3>6, <3>7
  <2> QED
    BY <1>3, <2>2, <2>3
<1>11. NothingInterleaves'
  BY <1>0, <1>10 DEF NothingInterleaves
<1> QED
  BY <1>0, <1>4, <1>6, <1>7, <1>8, <1>9, <1>11

LEMMA LocksStep ==
  ASSUME RunTypes, LocksInv, [Next]_vars
  PROVE  LocksInv'
<1> USE ThreadsAreWorkers DEF LockPlaces
<1>0. results \in Seq(Results) /\ pc \in [Workers -> Places]
  BY DEF LocksInv, RunTypes
<1>1. ASSUME NEW w \in Threads, Drop(w) PROVE LocksInv'
  BY <1>1, NothingTouched DEF Drop, world
<1>2. ASSUME NEW w \in Threads, Take(w) PROVE LocksInv'
  <2> PICK e \in todo :
        /\ job' = [job EXCEPT ![w] = e] /\ Goto(w, FirstStep[kind[e]])
    BY <1>2 DEF Take
  <2>1. kind[e] \in Kinds
    BY ActionRunAssumption DEF RunTypes
  <2>2. FirstStep[kind[e]] \notin LockPlaces
    BY <2>1 DEF FirstStep, Kinds
  <2>3. pc[w] \notin LockPlaces /\ UNCHANGED <<results, prompt, fileLock, tty, file>>
    BY <1>2 DEF Take
  <2> QED
    BY <1>0, <2>2, <2>3, OutsideTheLocks DEF Goto, FirstError
<1>3. ASSUME NEW w \in Threads, RenderFails(w) PROVE LocksInv'
  BY <1>0, <1>3, FailureAppended, OutsideTheLocks DEF RenderFails, TaskFails, Goto, world
<1>4. ASSUME NEW w \in Threads, Panic(w) PROVE LocksInv'
  BY <1>0, <1>4, OutsideTheLocks DEF Panic, Goto, world, FirstError
<1>5. ASSUME NEW w \in Threads, Quit(w) PROVE LocksInv'
  BY <1>0, <1>5, OutsideTheLocks DEF Quit, Goto, world, FirstError
<1>6. ASSUME NEW w \in Threads, Delete(w) PROVE LocksInv'
  BY <1>0, <1>6, OutsideTheLocks DEF Delete, Goto, FirstError
<1>7. ASSUME NEW w \in Threads, Send(w) PROVE LocksInv'
  <2>1. \/ UNCHANGED <<pc, results>>
        \/ \E why \in {"task", "write"} : TaskFails(w, why)
    BY <1>7 DEF Send
  <2>2. CASE UNCHANGED <<pc, results>>
    BY <1>7, <2>2, NothingTouched DEF Send
  <2>3. CASE \E why \in {"task", "write"} : TaskFails(w, why)
    BY <1>0, <1>7, <2>3, FailureAppended, OutsideTheLocks DEF Send, TaskFails, Goto
  <2> QED
    BY <2>1, <2>2, <2>3
<1>8. ASSUME NEW w \in Threads, Said(w) PROVE LocksInv'
  <2>1. command[w].then \notin LockPlaces
    BY DEF RunTypes, Command
  <2> QED
    BY <1>0, <1>8, <2>1, OutsideTheLocks DEF Said, Goto, world, FirstError
<1>9. ASSUME NEW w \in Threads, WriteFirst(w) \/ WriteRest(w) PROVE LocksInv'
  BY <1>9, FileSteps
<1>10. ASSUME NEW w \in Threads, Ask(w) \/ Reply(w) \/ Confirmed(w) PROVE LocksInv'
  BY <1>10, PromptSteps
<1>11. ASSUME NEW w \in Threads, FlushFull(w) PROVE LocksInv'
  BY <1>0, <1>11, OutsideTheLocks DEF FlushFull, Goto, world, FirstError
<1>12. ASSUME NEW w \in Threads, Enqueue(w) PROVE LocksInv'
  BY <1>0, <1>12, FailureAppended, OutsideTheLocks DEF Enqueue, TaskFails, Goto, FirstError
<1>13. ASSUME NEW w \in Threads, FlushNext(w) PROVE LocksInv'
  BY <1>0, <1>13, OutsideTheLocks DEF FlushNext, Goto, world, FirstError
<1>14. ASSUME NEW w \in Threads, Spawn(w) PROVE LocksInv'
  BY <1>0, <1>14, FailureAppended, OutsideTheLocks DEF Spawn, TaskFails, Goto, FirstError
<1>15. ASSUME NEW w \in Threads, Leave(w) PROVE LocksInv'
  BY <1>0, <1>15, OutsideTheLocks DEF Leave, Goto, world, FirstError
<1>16. ASSUME NEW w \in Threads, SendReport(w) PROVE LocksInv'
  BY <1>0, <1>16, ReportAppended, OutsideTheLocks DEF SendReport, Goto, world
<1>17. CASE Broker \/ Collect \/ Finish \/ UNCHANGED vars
  BY <1>17, NothingTouched DEF Broker, Collect, Finish, vars, threads, ends, world
<1> QED
  BY <1>1, <1>2, <1>3, <1>4, <1>5, <1>6, <1>7, <1>8, <1>9, <1>10, <1>11, <1>12,
     <1>13, <1>14, <1>15, <1>16, <1>17 DEF Next, Worker

LEMMA InitLocks == Init => LocksInv
<1> SUFFICES ASSUME Init PROVE LocksInv
  OBVIOUS
<1>1. \A w \in Workers : w # None
  BY ActionRunAssumption DEF None
<1> QED
  BY <1>1 DEF Init, LocksInv, PromptHeld, FileHeld, HalfIsHeld, NothingInterleaves

(* Every variable has its type in every state. *)
THEOREM RunTypesKept == Spec => [](RunTypes /\ TypeOK)
<1>1. RunTypes /\ [Next]_vars => RunTypes'
  BY TypesStep
<1>2. RunTypes => TypeOK
  BY DEF RunTypes
<1> QED
  BY InitTypes, <1>1, <1>2, PTL DEF Spec

(* The two locks keep what belongs together together: exec/confirm.rs holds *)
(* the prompt's lock from the question to the end of the command, and       *)
(* write_record the file's.                                                 *)
THEOREM LocksKeepTogether == Spec => []NothingInterleaves
<1>1. RunTypes /\ LocksInv /\ [Next]_vars => (RunTypes /\ LocksInv)'
  BY TypesStep, LocksStep
<1>2. LocksInv => NothingInterleaves
  BY DEF LocksInv
<1> QED
  BY InitTypes, InitLocks, <1>1, <1>2, PTL DEF Spec

-----------------------------------------------------------------------------
(* The batches                                                             *)

(* The sizes of the prefixes of a command line. *)
Sizes(paths, f) ==
  /\ f \in [0..Len(paths) -> Nat] /\ f[0] = Fixed
  /\ \A n \in 1..Len(paths) : f[n] = f[n - 1] + Cost[paths[n]]

LEMMA SizesExist ==
  ASSUME NEW paths \in Seq(Entries)
  PROVE  \E f : Sizes(paths, f)
<1> USE ExecBatchAssumption
<1> DEFINE Good(m, f) == /\ f \in [0..m -> Nat] /\ f[0] = Fixed
                         /\ \A n \in 1..m : f[n] = f[n - 1] + Cost[paths[n]]
           T == {m \in Nat : m <= Len(paths) => \E f : Good(m, f)}
<1>1. 0 \in T
  <2>1. Good(0, [n \in 0..0 |-> Fixed])
    OBVIOUS
  <2> QED
    BY <2>1
<1>2. ASSUME NEW m \in Nat, m \in T
      PROVE  m + 1 \in T
  <2> SUFFICES ASSUME m + 1 <= Len(paths) PROVE \E f : Good(m + 1, f)
    <3> HIDE DEF Good
    <3> QED
      OBVIOUS
  <2>0. Len(paths) \in Nat
    BY LenProperties
  <2>1. PICK f : Good(m, f)
    <3> HIDE DEF Good
    <3> QED
      BY <1>2, <2>0
  <2> DEFINE g == [n \in 0..(m + 1) |-> IF n = m + 1 THEN f[m] + Cost[paths[m + 1]]
                                          ELSE f[n]]
  <2>2. paths[m + 1] \in Entries /\ Len(paths) \in Nat
    BY ElementOfSeq, LenProperties
  <2>3. g \in [0..(m + 1) -> Nat] /\ g[0] = Fixed
    BY SMTT(90), <2>1, <2>2
  <2>4. \A n \in 1..(m + 1) : g[n] = g[n - 1] + Cost[paths[n]]
    <3> SUFFICES ASSUME NEW n \in 1..(m + 1) PROVE g[n] = g[n - 1] + Cost[paths[n]]
      OBVIOUS
    <3>1. CASE n = m + 1
      BY <3>1
    <3>2. CASE n \in 1..m
      <4>1. g[n] = f[n] /\ g[n - 1] = f[n - 1]
        BY <3>2
      <4>2. f[n] = f[n - 1] + Cost[paths[n]]
        BY <2>1, <3>2
      <4> QED
        BY <4>1, <4>2
    <3> QED
      BY <3>1, <3>2
  <2> QED
    BY <2>3, <2>4
<1>3. Nat \subseteq T
  <2> HIDE DEF T
  <2> QED
    BY <1>1, <1>2, NatSetInduction
<1>4. Len(paths) \in T
  <2> HIDE DEF T
  <2> QED
    BY <1>3, LenProperties
<1>5. Len(paths) <= Len(paths)
  BY LenProperties
<1>6. PICK f : Good(Len(paths), f)
  <2> HIDE DEF Good
  <2> QED
    BY <1>4, <1>5
<1> QED
  BY <1>6 DEF Sizes

LEMMA SizesUnique ==
  ASSUME NEW paths \in Seq(Entries), NEW m \in Nat, m <= Len(paths),
         NEW f, NEW g, f[0] = g[0],
         \A n \in 1..m : f[n] = f[n - 1] + Cost[paths[n]],
         \A n \in 1..m : g[n] = g[n - 1] + Cost[paths[n]]
  PROVE  \A n \in 0..m : f[n] = g[n]
<1> DEFINE T == {n \in Nat : n <= m => f[n] = g[n]}
<1>1. 0 \in T
  OBVIOUS
<1>2. ASSUME NEW n \in Nat, n \in T
      PROVE  n + 1 \in T
  <2> SUFFICES ASSUME n + 1 <= m PROVE f[n + 1] = g[n + 1]
    OBVIOUS
  <2>1. n + 1 \in 1..m /\ (n + 1) - 1 = n /\ f[n] = g[n]
    BY <1>2
  <2> QED
    BY <2>1
<1>3. Nat \subseteq T
  <2> HIDE DEF T
  <2> QED
    BY <1>1, <1>2, NatSetInduction
<1> QED
  BY <1>3

(* Length is the last of these sizes. *)
LEMMA LengthIs ==
  ASSUME NEW paths \in Seq(Entries), NEW f, Sizes(paths, f)
  PROVE  Length(paths) = f[Len(paths)]
<1> DEFINE step(h) == [n \in 0..Len(paths) |->
                         IF n = 0 THEN Fixed ELSE h[n - 1] + Cost[paths[n]]]
           upTo == CHOOSE h : h = step(h)
<1>0. Len(paths) \in Nat
  BY LenProperties
<1>1. f = step(f)
  BY <1>0 DEF Sizes
<1>2. upTo = step(upTo)
  BY <1>1
<1>3. upTo[0] = Fixed /\ \A n \in 1..Len(paths) : upTo[n] = upTo[n - 1] + Cost[paths[n]]
  <2> HIDE DEF upTo
  <2>1. \A n \in 0..Len(paths) :
          upTo[n] = IF n = 0 THEN Fixed ELSE upTo[n - 1] + Cost[paths[n]]
    BY <1>2
  <2> QED
    BY <1>0, <2>1
<1>4. \A n \in 0..Len(paths) : upTo[n] = f[n]
  <2> HIDE DEF upTo
  <2>1. /\ f[0] = upTo[0] /\ Len(paths) <= Len(paths)
        /\ \A n \in 1..Len(paths) : f[n] = f[n - 1] + Cost[paths[n]]
    BY <1>0, <1>3 DEF Sizes
  <2>2. \A n \in 0..Len(paths) : f[n] = upTo[n]
    <3> DEFINE m == Len(paths)
    <3>1. /\ m \in Nat /\ m <= Len(paths) /\ f[0] = upTo[0]
          /\ \A n \in 1..m : f[n] = f[n - 1] + Cost[paths[n]]
          /\ \A n \in 1..m : upTo[n] = upTo[n - 1] + Cost[paths[n]]
      BY <1>0, <1>3, <2>1
    <3> HIDE DEF m
    <3>2. \A n \in 0..m : f[n] = upTo[n]
      BY <3>1, SizesUnique
    <3> QED
      BY <3>2 DEF m
  <2> QED
    BY <2>2
<1>5. Length(paths) = upTo[Len(paths)]
  BY DEF Length
<1> QED
  BY <1>0, <1>4, <1>5

(* The size of a command line that grows by a path: what PendingBatch::used *)
(* adds up (exec/batch.rs:66).                                              *)
LEMMA LengthGrows ==
  ASSUME NEW paths \in Seq(Entries), NEW e \in Entries
  PROVE  /\ Length(paths) \in Nat /\ Length(<<>>) = Fixed
         /\ Length(Append(paths, e)) = Length(paths) + Cost[e]
<1>0. /\ Len(paths) \in Nat /\ Append(paths, e) \in Seq(Entries)
      /\ Len(Append(paths, e)) = Len(paths) + 1
      /\ Append(paths, e)[Len(paths) + 1] = e
      /\ \A n \in 1..Len(paths) : Append(paths, e)[n] = paths[n]
  BY AppendProperties, LenProperties
<1>1. PICK f : Sizes(Append(paths, e), f)
  BY <1>0, SizesExist
<1> DEFINE g == [n \in 0..Len(paths) |-> f[n]]
<1>2. Sizes(paths, g)
  BY <1>0, <1>1 DEF Sizes
<1>3. Length(paths) = f[Len(paths)] /\ f[Len(paths)] \in Nat
  <2>1. Length(paths) = g[Len(paths)]
    BY <1>2, LengthIs
  <2> QED
    BY <1>0, <1>1, <2>1 DEF Sizes
<1>4. Length(Append(paths, e)) = f[Len(paths) + 1]
  BY <1>0, <1>1, LengthIs
<1>5. f[Len(paths) + 1] = f[Len(paths)] + Cost[e]
  BY <1>0, <1>1 DEF Sizes
<1>6. Length(<<>>) = Fixed
  <2>1. Sizes(<<>>, [n \in 0..0 |-> Fixed])
    BY ExecBatchAssumption DEF Sizes
  <2>2. <<>> \in Seq(Entries) /\ Len(<<>>) = 0
    OBVIOUS
  <2> QED
    BY <2>1, <2>2, LengthIs
<1> QED
  BY <1>3, <1>4, <1>5, <1>6

(* The paths of a command line that is short enough, all of one batch. *)
Together(paths, key) ==
  /\ paths # <<>> /\ Length(paths) <= Limit
  /\ \A i \in DOMAIN paths : KeyOf(paths[i]) = key

(* The size a batch keeps is that of its command line.                     *)
Measured(batch, key) ==
  /\ batch.used = Length(batch.paths)
  /\ batch.paths # <<>> => Together(batch.paths, key)

Fitting(p) == \A k \in DOMAIN p : Measured(p[k], k)

SpawnFits(w) ==
  pc[w] = "spawn" =>
    /\ command[w].batched => \E key : Together(command[w].paths, key)
    /\ command[w].then = "enqueue" =>
         Length(Append(command[w].paths, job[w])) > Limit

BatchesInv ==
  /\ \A w \in Workers : Fitting(pending[w]) /\ SpawnFits(w)
  /\ \A paths \in children :
       paths \in Seq(Entries) /\ \E key : Together(paths, key)

LEMMA NewBatchFits ==
  ASSUME NEW e \in Entries
  PROVE  Measured(NewBatch, KeyOf(e))
<1>1. <<>> \in Seq(Entries)
  OBVIOUS
<1>2. Length(<<>>) = Fixed
  BY <1>1, LengthGrows
<1> QED
  BY <1>2 DEF Measured, NewBatch

(* A batch that is looked up, stored, added to or taken out still fits.    *)
LEMMA BatchForFits ==
  ASSUME NEW p \in Batches, Fitting(p), NEW e \in Entries
  PROVE  Measured(BatchFor(p, e), KeyOf(e))
<1>1. Measured(NewBatch, KeyOf(e))
  BY NewBatchFits
<1> QED
  BY <1>1 DEF BatchFor, Fitting

LEMMA StoreFits ==
  ASSUME NEW p \in Batches, Fitting(p), NEW e \in Entries,
         NEW b, Measured(b, KeyOf(e))
  PROVE  Fitting(Store(p, e, b))
BY DEF Fitting, Store

LEMMA PushFits ==
  ASSUME NEW p \in Batches, Fitting(p), NEW e \in Entries,
         ~FlushBefore(p, e), ~TooLarge(p, e)
  PROVE  Fitting(PushPath(p, e))
<1> DEFINE b == BatchFor(p, e)
           c == [paths |-> Append(b.paths, e), used |-> b.used + Cost[e]]
<1>1. b \in Batch /\ Measured(b, KeyOf(e))
  BY BatchTypes, BatchForFits
<1>2. b.used + Cost[e] <= Limit
  BY <1>1, ExecBatchAssumption DEF FlushBefore, TooLarge, WouldOverflow, Batch
<1>3. b.paths \in Seq(Entries)
  BY <1>1 DEF Batch
<1>4. c.used = Length(c.paths)
  BY <1>1, <1>3, LengthGrows DEF Measured
<1>5. /\ c.paths # <<>> /\ DOMAIN c.paths = 1..(Len(b.paths) + 1)
      /\ c.paths[Len(b.paths) + 1] = e /\ Len(b.paths) \in Nat
      /\ \A i \in 1..Len(b.paths) : i \in DOMAIN b.paths /\ c.paths[i] = b.paths[i]
  BY <1>3, AppendProperties, LenProperties
<1>6. \A i \in 1..Len(b.paths) : KeyOf(b.paths[i]) = KeyOf(e)
  BY <1>1, <1>5, EmptySeq DEF Measured, Together
<1>7. \A i \in DOMAIN c.paths : KeyOf(c.paths[i]) = KeyOf(e)
  BY <1>5, <1>6
<1>8. Measured(c, KeyOf(e))
  <2> HIDE DEF c
  <2>1. c.used <= Limit
    BY <1>2 DEF c
  <2> QED
    BY <1>4, <1>5, <1>7, <2>1 DEF Measured, Together
<1> QED
  BY <1>8, StoreFits DEF PushPath

LEMMA WithoutFits ==
  ASSUME NEW p, Fitting(p), NEW key
  PROVE  Fitting(Without(p, key))
BY DEF Fitting, Without

(* A step that stores nothing in a batch and begins no batched command.    *)
LEMMA NothingBatched ==
  ASSUME RunTypes, BatchesInv, NEW w \in Workers, NEW place, NEW e, NEW c,
         pc' = [pc EXCEPT ![w] = place],
         place = "spawn" => ~c.batched /\ c.then # "enqueue" /\ command' = [command EXCEPT ![w] = c],
         job' \in {job, [job EXCEPT ![w] = e]},
         command' \in {command, [command EXCEPT ![w] = c]},
         pending' \in {pending, [pending EXCEPT ![w] = << >>]},
         children' = children
  PROVE  BatchesInv'
<1> USE DEF BatchesInv
<1>1. \A v \in Workers : Fitting(pending'[v])
  <2>1. Fitting(<< >>)
    BY DEF Fitting
  <2> QED
    BY <2>1 DEF RunTypes
<1>2. SpawnFits(w)'
  BY DEF RunTypes, SpawnFits
<1>3. ASSUME NEW v \in Workers, v # w PROVE SpawnFits(v)'
  BY <1>3 DEF RunTypes, SpawnFits
<1> QED
  BY <1>1, <1>2, <1>3

LEMMA BatchesStep ==
  ASSUME RunTypes, BatchesInv, [Next]_vars
  PROVE  BatchesInv'
<1> USE ThreadsAreWorkers
<1>1. ASSUME NEW w \in Threads, Drop(w) PROVE BatchesInv'
  BY <1>1 DEF Drop, world, BatchesInv, SpawnFits
<1>2. ASSUME NEW w \in Threads, Take(w) PROVE BatchesInv'
  <2> PICK e \in todo :
        /\ job' = [job EXCEPT ![w] = e] /\ Goto(w, FirstStep[kind[e]])
        /\ Order(w, IF kind[e] = "exec" THEN [NoCommand EXCEPT !.paths = <<e>>]
                    ELSE NoCommand)
    BY <1>2 DEF Take
  <2> DEFINE c == IF kind[e] = "exec" THEN [NoCommand EXCEPT !.paths = <<e>>]
                  ELSE NoCommand
  <2>1. ~c.batched /\ c.then # "enqueue"
    BY DEF NoCommand
  <2> QED
    BY <1>2, <2>1, NothingBatched DEF Take, Goto, Order
<1>3. ASSUME NEW w \in Threads, RenderFails(w) PROVE BatchesInv'
  BY <1>3, NothingBatched DEF RenderFails, TaskFails, Goto, world
<1>4. ASSUME NEW w \in Threads, Panic(w) PROVE BatchesInv'
  BY <1>4, NothingBatched DEF Panic, Goto, world
<1>5. ASSUME NEW w \in Threads, Quit(w) PROVE BatchesInv'
  BY <1>5, NothingBatched DEF Quit, Goto, world
<1>6. ASSUME NEW w \in Threads, Delete(w) PROVE BatchesInv'
  BY <1>6, NothingBatched DEF Delete, Goto, Order
<1>7. ASSUME NEW w \in Threads, Send(w) PROVE BatchesInv'
  <2>1. \/ UNCHANGED <<pc, pending>>
        \/ \E why : TaskFails(w, why)
    BY <1>7 DEF Send
  <2>2. CASE UNCHANGED <<pc, pending>>
    BY <1>7, <2>2 DEF Send, BatchesInv, SpawnFits
  <2>3. CASE \E why : TaskFails(w, why)
    BY <1>7, <2>3, NothingBatched DEF Send, TaskFails, Goto
  <2> QED
    BY <2>1, <2>2, <2>3
<1>8. ASSUME NEW w \in Threads, Said(w) PROVE BatchesInv'
  <2>1. command[w].then # "spawn"
    BY DEF RunTypes, Command
  <2> QED
    BY <1>8, <2>1, NothingBatched DEF Said, Goto, Order, world
<1>9. ASSUME NEW w \in Threads, WriteFirst(w) PROVE BatchesInv'
  BY <1>9, NothingBatched DEF WriteFirst, TaskFails, Goto
<1>10. ASSUME NEW w \in Threads, WriteRest(w) PROVE BatchesInv'
  BY <1>10, NothingBatched DEF WriteRest, TaskFails, Goto
<1>11. ASSUME NEW w \in Threads, Ask(w) PROVE BatchesInv'
  BY <1>11, NothingBatched DEF Ask, Goto
<1>12. ASSUME NEW w \in Threads, Reply(w) PROVE BatchesInv'
  BY <1>12, NothingBatched DEF Reply, Goto, Order
<1>13. ASSUME NEW w \in Threads, Confirmed(w) PROVE BatchesInv'
  BY <1>13, NothingBatched DEF Confirmed, Goto, Order
<1>14. ASSUME NEW w \in Threads, FlushFull(w) PROVE BatchesInv'
  <2> DEFINE batch == BatchFor(pending[w], job[w])
             c == [paths |-> batch.paths, batched |-> TRUE, ok |-> TRUE,
                   then |-> "enqueue"]
  <2>1. job[w] \in Entries /\ pending[w] \in Batches /\ Fitting(pending[w])
    BY <1>14 DEF FlushFull, RunTypes, AtEntry, BatchesInv
  <2>2. Measured(batch, KeyOf(job[w])) /\ batch \in Batch
    BY <2>1, BatchForFits, BatchTypes
  <2>3. Together(batch.paths, KeyOf(job[w]))
    BY <1>14, <2>2 DEF FlushFull, FlushBefore, Measured
  <2>4. Length(Append(batch.paths, job[w])) > Limit
    <3>1. Length(Append(batch.paths, job[w])) = batch.used + Cost[job[w]]
      BY <2>1, <2>2, LengthGrows DEF Measured, Batch
    <3> QED
      BY <1>14, <3>1 DEF FlushFull, FlushBefore, WouldOverflow
  <2>5. Fitting(Store(pending[w], job[w], Taken(batch)))
    <3>1. Measured(NewBatch, KeyOf(job[w]))
      BY <2>1, NewBatchFits
    <3> QED
      BY <2>1, <3>1, StoreFits DEF Taken
  <2>6. \A v \in Workers : Fitting(pending'[v])
    BY <1>14, <2>5 DEF FlushFull, BatchesInv, RunTypes
  <2>7. SpawnFits(w)'
    <3>1. command'[w] = c /\ job'[w] = job[w]
      BY <1>14 DEF FlushFull, Order, RunTypes
    <3> QED
      BY <2>3, <2>4, <3>1 DEF SpawnFits
  <2>8. ASSUME NEW v \in Workers, v # w PROVE SpawnFits(v)'
    BY <1>14, <2>8 DEF FlushFull, Order, Goto, BatchesInv, SpawnFits, RunTypes
  <2> QED
    BY <1>14, <2>6, <2>7, <2>8 DEF FlushFull, BatchesInv, world
<1>15. ASSUME NEW w \in Threads, Enqueue(w) PROVE BatchesInv'
  <2>1. CASE pending' = [pending EXCEPT ![w] = PushPath(pending[w], job[w])]
             /\ Goto(w, "pop") /\ UNCHANGED command /\ ~TooLarge(pending[w], job[w])
    <3>1. job[w] \in Entries /\ pending[w] \in Batches /\ Fitting(pending[w])
      BY <1>15 DEF Enqueue, RunTypes, AtEntry, BatchesInv
    <3>2. Fitting(PushPath(pending[w], job[w]))
      BY <1>15, <2>1, <3>1, PushFits DEF Enqueue
    <3>3. \A v \in Workers : Fitting(pending'[v])
      BY <2>1, <3>2 DEF BatchesInv, RunTypes
    <3>4. \A v \in Workers : SpawnFits(v)'
      BY <1>15, <2>1 DEF Enqueue, Goto, BatchesInv, SpawnFits, RunTypes
    <3> QED
      BY <1>15, <3>3, <3>4 DEF Enqueue, BatchesInv
  <2>2. CASE TaskFails(w, "task") /\ UNCHANGED command
    BY <1>15, <2>2, NothingBatched DEF Enqueue, TaskFails, Goto
  <2>3. CASE Goto(w, "send") /\ Order(w, [NoCommand EXCEPT !.ok = FALSE])
             /\ UNCHANGED pending
    BY <1>15, <2>3, NothingBatched DEF Enqueue, Order, Goto
  <2> QED
    BY <1>15, <2>1, <2>2, <2>3 DEF Enqueue
<1>16. ASSUME NEW w \in Threads, FlushNext(w) PROVE BatchesInv'
  <2> DEFINE key == FirstKey(Unflushed(pending[w]))
  <2>1. key \in DOMAIN pending[w] /\ pending[w][key].paths # <<>>
    <3>1. pending[w] \in Batches
      BY DEF RunTypes
    <3>2. Unflushed(pending[w]) \in SUBSET (Nat \X Nat)
      BY <3>1 DEF Batches, Unflushed
    <3>3. key \in Unflushed(pending[w])
      BY <1>16, <3>2, FirstKeyIsAKey DEF FlushNext
    <3> QED
      BY <3>3 DEF Unflushed
  <2>2. Together(pending[w][key].paths, key)
    BY <2>1 DEF BatchesInv, Fitting, Measured
  <2>3. \A v \in Workers : Fitting(pending'[v])
    BY <1>16, WithoutFits DEF FlushNext, BatchesInv, RunTypes
  <2>4. SpawnFits(w)'
    <3>1. /\ command'[w].paths = pending[w][key].paths
          /\ command'[w].then = "flush"
      BY <1>16 DEF FlushNext, Order, RunTypes
    <3> QED
      BY <2>2, <3>1 DEF SpawnFits
  <2>5. ASSUME NEW v \in Workers, v # w PROVE SpawnFits(v)'
    BY <1>16, <2>5 DEF FlushNext, Order, Goto, BatchesInv, SpawnFits, RunTypes
  <2> QED
    BY <1>16, <2>3, <2>4, <2>5 DEF FlushNext, BatchesInv, world
<1>17. ASSUME NEW w \in Threads, Spawn(w) PROVE BatchesInv'
  <2>1. \A paths \in children' :
          paths \in Seq(Entries) /\ \E key : Together(paths, key)
    <3>1. command[w].paths \in Seq(Entries)
      BY DEF RunTypes, Command
    <3> QED
      BY <1>17, <3>1 DEF Spawn, BatchesInv, SpawnFits
  <2>2. \A v \in Workers : Fitting(pending'[v])
    <3>1. Fitting(<< >>)
      BY DEF Fitting
    <3> QED
      BY <1>17, <3>1 DEF Spawn, TaskFails, BatchesInv, RunTypes
  <2>3. pc'[w] # "spawn"
    BY <1>17 DEF Spawn, TaskFails, Goto, RunTypes
  <2>4. ASSUME NEW v \in Workers, v # w PROVE SpawnFits(v)'
    <3>1. pc'[v] = pc[v] /\ command'[v] = command[v] /\ job' = job
      BY <1>17, <2>4 DEF Spawn, Order, TaskFails, Goto, RunTypes
    <3> QED
      BY <3>1 DEF BatchesInv, SpawnFits
  <2> QED
    BY <2>1, <2>2, <2>3, <2>4 DEF BatchesInv, SpawnFits
<1>18. ASSUME NEW w \in Threads, Leave(w) PROVE BatchesInv'
  BY <1>18, NothingBatched DEF Leave, Goto, world
<1>19. ASSUME NEW w \in Threads, SendReport(w) PROVE BatchesInv'
  BY <1>19, NothingBatched DEF SendReport, Goto, world
<1>20. CASE Broker \/ Collect \/ Finish \/ UNCHANGED vars
  BY <1>20 DEF Broker, Collect, Finish, vars, threads, ends, world, BatchesInv, SpawnFits
<1> QED
  BY <1>1, <1>2, <1>3, <1>4, <1>5, <1>6, <1>7, <1>8, <1>9, <1>10, <1>11, <1>12,
     <1>13, <1>14, <1>15, <1>16, <1>17, <1>18, <1>19, <1>20 DEF Next, Worker

(* No child gets a command line that is too long or that mixes batches,    *)
(* and no batch is run early that has room: enqueue and flush_all of       *)
(* exec/batch.rs keep the promise for all costs and limits.                *)
THEOREM BatchesAlwaysFit == Spec => []BatchesFit
<1>1. Init => BatchesInv
  BY DEF Init, BatchesInv, Fitting, SpawnFits
<1>2. RunTypes /\ BatchesInv /\ [Next]_vars => (RunTypes /\ BatchesInv)'
  BY TypesStep, BatchesStep
<1>3. RunTypes /\ BatchesInv => BatchesFit
  <2> SUFFICES ASSUME RunTypes, BatchesInv PROVE BatchesFit
    OBVIOUS
  <2>1. ASSUME NEW paths \in children
        PROVE  /\ paths # <<>> /\ Length(paths) <= Limit
               /\ \A i \in DOMAIN paths :
                    /\ Id[paths[i]] = Id[paths[1]]
                    /\ Id[paths[1]] \in Local => Dir[paths[i]] = Dir[paths[1]]
    <3>1. PICK key : Together(paths, key)
      BY DEF BatchesInv
    <3>2. 1 \in DOMAIN paths
      BY <3>1, EmptySeq, LenProperties DEF BatchesInv, Together
    <3>3. \A i \in DOMAIN paths : KeyOf(paths[i]) = KeyOf(paths[1])
      BY <3>1, <3>2 DEF Together
    <3> QED
      BY <3>1, <3>3 DEF Together, KeyOf
  <2> QED
    BY <2>1 DEF BatchesInv, SpawnFits, BatchesFit
<1> QED
  BY InitTypes, <1>1, <1>2, <1>3, PTL DEF Spec

-----------------------------------------------------------------------------
(* The outcome                                                             *)

(* What every step of a thread leaves alone, and how it ends.              *)
ThreadStep(w) ==
  /\ pc[w] \notin {"end", "dead"}
  /\ UNCHANGED <<mode, kind, run, broker>>
  /\ \/ results' = results /\ \E place \in Places \ {"end"} : Goto(w, place)
     \/ Goto(w, "end") /\ \E r \in Results : results' = Append(results, r)
  /\ \A v \in Workers \ {w} :
       /\ pc'[v] = pc[v] /\ job'[v] = job[v] /\ command'[v] = command[v]
       /\ status'[v] = status[v] /\ pending'[v] = pending[v]
       /\ outbox'[v] = outbox[v]
  /\ mode = "ordered" \/ broker # "running" => channel' = channel
  /\ DOMAIN outbox' = Workers

LEMMA FailureIsAResult ==
  ASSUME NEW w, NEW why \in {"task", "write"}, TaskFails(w, why)
  PROVE  Goto(w, "end") /\ \E r \in Results : results' = Append(results, r)
<1>1. Failure(why) \in Results
  BY DEF Results
<1> QED
  BY <1>1 DEF TaskFails

LEMMA ThreadSteps ==
  ASSUME RunTypes, DOMAIN outbox = Workers, NEW w \in Threads,
         Worker(w) \/ Panic(w)
  PROVE  ThreadStep(w)
<1> USE ThreadsAreWorkers DEF ThreadStep
<1>0. /\ pc \in [Workers -> Places] /\ w \in Workers
      /\ DOMAIN job = Workers /\ DOMAIN command = Workers
      /\ DOMAIN status = Workers /\ DOMAIN pending = Workers
      /\ "send" \in Places \ {"end"} /\ "pop" \in Places \ {"end"}
      /\ "flush" \in Places \ {"end"} /\ "spawn" \in Places \ {"end"}
      /\ "dead" \in Places \ {"end"} /\ "writeFile" \in Places \ {"end"}
      /\ "reply" \in Places \ {"end"} /\ "confirmed" \in Places \ {"end"}
  BY DEF RunTypes, Places
<1>1. CASE Drop(w)
  <2>1. Goto(w, "pop")
    BY <1>0, <1>1 DEF Drop, Goto
  <2> QED
    BY <1>0, <1>1, <2>1 DEF Drop, ends
<1>2. CASE Take(w)
  <2> PICK e \in todo : Goto(w, FirstStep[kind[e]])
    BY <1>2 DEF Take
  <2>1. kind[e] \in Kinds
    BY ActionRunAssumption DEF RunTypes
  <2>2. FirstStep[kind[e]] \in Places \ {"end"}
    BY <2>1 DEF FirstStep, Kinds, Places
  <2>3. \A v \in Workers \ {w} : pc'[v] = pc[v] /\ job'[v] = job[v] /\ command'[v] = command[v]
    BY <1>0, <1>2 DEF Take, Goto, Order
  <2>4. /\ \A v \in Workers \ {w} : status'[v] = status[v] /\ outbox'[v] = outbox[v]
        /\ DOMAIN outbox' = Workers
    BY <1>0, <1>2 DEF Take, Put
  <2>5. pc[w] = "pop" /\ UNCHANGED <<mode, kind, run, broker, results, pending, channel>>
    BY <1>2 DEF Take, ends
  <2> QED
    BY <2>2, <2>3, <2>4, <2>5
<1>3. CASE RenderFails(w)
  BY <1>0, <1>3, FailureIsAResult DEF RenderFails, TaskFails, Goto, ends
<1>4. CASE Panic(w)
  BY <1>0, <1>4 DEF Panic, Goto, ends
<1>5. CASE Quit(w)
  BY <1>0, <1>5 DEF Quit, Goto, ends
<1>6. CASE Delete(w)
  BY <1>0, <1>6 DEF Delete, Goto, Order, Put, ends
<1>7. CASE Send(w)
  <2>1. CASE /\ UNCHANGED <<pc, pending, results>> /\ Put(w, Tail(outbox[w]))
             /\ mode = "ordered" \/ broker # "running" => channel' = channel
    <3>1. Goto(w, "send")
      BY <1>0, <1>7, <2>1 DEF Send, Goto
    <3>2. pc[w] = "send" /\ UNCHANGED <<mode, kind, job, command, status, run, broker>>
      BY <1>7 DEF Send
    <3>3. DOMAIN outbox' = Workers /\ \A v \in Workers \ {w} : outbox'[v] = outbox[v]
      BY <1>0, <2>1 DEF Put
    <3> QED
      BY <1>0, <2>1, <3>1, <3>2, <3>3
  <2>2. CASE \E why \in {"task", "write"} : TaskFails(w, why) /\ UNCHANGED <<channel, outbox>>
    BY <1>0, <1>7, <2>2, FailureIsAResult DEF Send, TaskFails, Goto
  <2> QED
    BY <1>7, <2>1, <2>2 DEF Send
<1>8. CASE Said(w)
  <2>1. command[w].then \in Places \ {"end"}
    BY <1>0 DEF RunTypes, Command, Places
  <2> QED
    BY <1>0, <1>8, <2>1 DEF Said, Goto, Order, ends
<1>9. CASE WriteFirst(w)
  <2>1. CASE Goto(w, "writeFile") /\ UNCHANGED <<pending, results>>
    BY <1>0, <1>9, <2>1 DEF WriteFirst, Goto, ends
  <2>2. CASE TaskFails(w, "task")
    BY <1>0, <1>9, <2>2, FailureIsAResult DEF WriteFirst, TaskFails, Goto, ends
  <2> QED
    BY <1>9, <2>1, <2>2 DEF WriteFirst
<1>10. CASE WriteRest(w)
  <2>1. CASE Goto(w, "pop") /\ UNCHANGED <<pending, results>>
    BY <1>0, <1>10, <2>1 DEF WriteRest, Goto, ends
  <2>2. CASE TaskFails(w, "task")
    BY <1>0, <1>10, <2>2, FailureIsAResult DEF WriteRest, TaskFails, Goto, ends
  <2> QED
    BY <1>10, <2>1, <2>2 DEF WriteRest
<1>11. CASE Ask(w)
  BY <1>0, <1>11 DEF Ask, Goto, ends
<1>12. CASE Reply(w)
  BY <1>0, <1>12 DEF Reply, Goto, Order, Put, ends
<1>13. CASE Confirmed(w)
  BY <1>0, <1>13 DEF Confirmed, Goto, Order, ends
<1>14. CASE FlushFull(w)
  BY <1>0, <1>14 DEF FlushFull, Goto, Order, ends
<1>15. CASE Enqueue(w)
  <2>1. CASE TaskFails(w, "task")
    BY <1>0, <1>15, <2>1, FailureIsAResult DEF Enqueue, TaskFails, Goto, ends, Order, Put
  <2>2. CASE ~TaskFails(w, "task")
    BY <1>0, <1>15, <2>2 DEF Enqueue, Goto, ends, Order, Put
  <2> QED
    BY <2>1, <2>2
<1>16. CASE FlushNext(w)
  BY <1>0, <1>16 DEF FlushNext, Goto, Order, ends
<1>17. CASE Spawn(w)
  <2>1. CASE TaskFails(w, "task") /\ UNCHANGED <<outbox, command>>
    BY <1>0, <1>17, <2>1, FailureIsAResult DEF Spawn, TaskFails, Goto, ends
  <2>2. CASE Goto(w, "send") /\ UNCHANGED <<pending, results>>
             /\ (\E m : Put(w, m)) /\ (\E c : Order(w, c))
    BY <1>0, <1>17, <2>2 DEF Spawn, Goto, ends, Order, Put
  <2> QED
    BY <1>17, <2>1, <2>2 DEF Spawn
<1>18. CASE Leave(w)
  BY <1>0, <1>18 DEF Leave, Goto, ends
<1>19. CASE SendReport(w)
  <2>1. Report(status[w]) \in Results
    BY <1>0 DEF RunTypes, Results
  <2> QED
    BY <1>0, <1>19, <2>1 DEF SendReport, Goto, ends
<1> QED
  BY <1>1, <1>2, <1>3, <1>4, <1>5, <1>6, <1>7, <1>8, <1>9, <1>10, <1>11, <1>12,
     <1>13, <1>14, <1>15, <1>16, <1>17, <1>18, <1>19 DEF Worker

EndedThreads == {w \in Threads : pc[w] = "end"}

(* Every thread that has ended has sent one result, so that the engine has *)
(* them all when it goes on; it ends when the broker has, with the outcome *)
(* of what both have left.                                                 *)
Tallied ==
  /\ DOMAIN outbox = Workers
  /\ \A w \in Workers \ Threads :
       pc[w] = "pop" /\ pending[w] = << >> /\ outbox[w] = <<>> /\ ~status[w].failed
         /\ ~status[w].errors /\ command[w].ok /\ command[w].then = "pop"
  /\ Len(results) = Cardinality(EndedThreads)
  /\ run.at # "collecting" => Len(results) = Cardinality(Threads)
  /\ broker = "finished" => run.at # "collecting"
  /\ Ended => (mode = "ordered" \/ broker # "running") /\ run.outcome = RunOutcome
  /\ mode = "ordered" => broker = "running" /\ channel = <<>>
  /\ broker # "running" => channel = <<>>

LEMMA ThreadsAreFinite == IsFiniteSet(Threads) /\ IsFiniteSet(EndedThreads)
<1>1. IsFiniteSet(Threads)
  BY ThreadsAreWorkers, ActionRunAssumption, FS_Subset
<1>2. EndedThreads \in SUBSET Threads
  BY DEF EndedThreads
<1> QED
  BY <1>1, <1>2, FS_Subset

(* Once the engine has all results no thread can take a step. *)
LEMMA AllEnded ==
  ASSUME Tallied, run.at # "collecting"
  PROVE  \A w \in Threads : pc[w] = "end"
<1>1. EndedThreads \in SUBSET Threads
  BY DEF EndedThreads
<1>2. Cardinality(EndedThreads) = Cardinality(Threads)
  BY DEF Tallied
<1>3. Threads = EndedThreads
  BY <1>1, <1>2, ThreadsAreFinite, FS_Subset
<1> QED
  BY <1>3 DEF EndedThreads

LEMMA TalliedThread ==
  ASSUME RunTypes, results \in Seq(Results), Tallied, NEW w \in Threads, ThreadStep(w)
  PROVE  Tallied'
<1> USE ThreadsAreWorkers
<1>0. pc \in [Workers -> Places] /\ w \in Workers
  BY DEF RunTypes
<1>1. Threads' = Threads
  BY DEF ThreadStep, Threads, Solo
<1>2. run.at = "collecting"
  BY AllEnded DEF ThreadStep
<1>3. \A v \in Workers \ Threads : 
        pc'[v] = pc[v] /\ pending'[v] = pending[v] /\ outbox'[v] = outbox[v]
          /\ status'[v] = status[v] /\ command'[v] = command[v]
  BY DEF ThreadStep
<1>4. Len(results') = Cardinality(EndedThreads')
  <2>1. CASE results' = results /\ \E place \in Places \ {"end"} : Goto(w, place)
    <3>1. EndedThreads' = EndedThreads
      BY <1>0, <1>1, <2>1 DEF EndedThreads, Goto, ThreadStep
    <3> QED
      BY <2>1, <3>1 DEF Tallied
  <2>2. CASE Goto(w, "end") /\ \E r \in Results : results' = Append(results, r)
    <3>1. EndedThreads' = EndedThreads \cup {w} /\ w \notin EndedThreads
      BY <1>0, <1>1, <2>2 DEF EndedThreads, Goto, ThreadStep
    <3>2. Cardinality(EndedThreads') = Cardinality(EndedThreads) + 1
      BY <3>1, ThreadsAreFinite, FS_AddElement
    <3>3. Len(results') = Len(results) + 1
      BY <2>2, AppendProperties
    <3> QED
      BY <3>2, <3>3 DEF Tallied
  <2> QED
    BY <2>1, <2>2 DEF ThreadStep
<1>5. run' = run /\ broker' = broker /\ mode' = mode
  BY DEF ThreadStep
<1>6. channel' = channel \/ (mode # "ordered" /\ broker = "running")
  BY DEF ThreadStep
<1>7. DOMAIN outbox' = Workers
  BY DEF ThreadStep
<1> QED
  BY <1>1, <1>2, <1>3, <1>4, <1>5, <1>6, <1>7 DEF Tallied, Ended

LEMMA TalliedStep ==
  ASSUME RunTypes, results \in Seq(Results), Tallied, [Next]_vars
  PROVE  Tallied'
<1>1. ASSUME NEW w \in Threads, Worker(w) \/ Panic(w) PROVE Tallied'
  BY <1>1, ThreadSteps, TalliedThread DEF Tallied
<1>2. CASE Broker
  <2>1. Threads' = Threads /\ EndedThreads' = EndedThreads
    BY <1>2 DEF Broker, threads, Threads, Solo, EndedThreads
  <2>2. ~Ended
    BY <1>2 DEF Broker, Tallied
  <2> QED
    BY <1>2, <2>1, <2>2 DEF Broker, threads, Tallied, Ended
<1>3. CASE Collect
  <2>1. Threads' = Threads /\ EndedThreads' = EndedThreads
    BY <1>3 DEF Collect, threads, Threads, Solo, EndedThreads
  <2> QED
    BY <1>3, <2>1 DEF Collect, threads, Tallied, Ended
<1>4. CASE Finish
  <2>1. Threads' = Threads /\ EndedThreads' = EndedThreads
    BY <1>4 DEF Finish, threads, Threads, Solo, EndedThreads
  <2>2. run'.outcome = RunOutcome /\ run'.at = "ended" /\ RunOutcome' = RunOutcome
    BY <1>4 DEF Finish, threads, RunOutcome, FirstError, Flagged
  <2> QED
    BY <1>4, <2>1, <2>2 DEF Finish, threads, Tallied, Ended
<1>5. CASE UNCHANGED vars
  <2>1. Threads' = Threads /\ EndedThreads' = EndedThreads /\ RunOutcome' = RunOutcome
    BY <1>5 DEF vars, threads, ends, Threads, Solo, EndedThreads, RunOutcome, FirstError, Flagged
  <2> QED
    BY <1>5, <2>1 DEF vars, threads, ends, Tallied, Ended
<1> QED
  BY <1>1, <1>2, <1>3, <1>4, <1>5 DEF Next

(* Where something that went wrong is known: in the status of a worker, in *)
(* its command while it still has that to say, and in the results.         *)
Unsaid(w) == pc[w] = "send" \/ (pc[w] = "end" /\ FirstError # {})

ToldBy(w) ==
  /\ status[w].failed \/ ~command[w].ok => "action" \in mishaps
  /\ status[w].errors => "walk" \in mishaps
  /\ ~command[w].ok \/ outbox[w] # <<>> => Unsaid(w)
  /\ pc[w] = "end" =>
       FirstError # {} \/ \E i \in DOMAIN results : results[i] = Report(status[w])

Reported(r) ==
  /\ r.ok /\ r.failed => "action" \in mishaps
  /\ r.ok /\ r.errors => "walk" \in mishaps

Truthful ==
  /\ \A w \in Workers : ToldBy(w)
  /\ \A i \in DOMAIN results : Reported(results[i])
  /\ "action" \in mishaps =>
       FirstError # {} \/ \E w \in Workers : status[w].failed \/ ~command[w].ok
  /\ "walk" \in mishaps => \E w \in Workers : status[w].errors
  /\ "write" \in mishaps => FirstError # {} \/ broker = "failed"

(* What a step of a thread does with what it knows. *)
Verdict(w) ==
  /\ mishaps \subseteq mishaps'
  /\ status'[w].failed \/ ~command'[w].ok => "action" \in mishaps'
  /\ status'[w].errors => "walk" \in mishaps'
  /\ ~command'[w].ok \/ outbox'[w] # <<>> => Unsaid(w)'
  /\ status[w].failed \/ ~command[w].ok \/ "action" \in mishaps' \ mishaps =>
       FirstError' # {} \/ status'[w].failed \/ ~command'[w].ok
  /\ status[w].errors \/ "walk" \in mishaps' \ mishaps => status'[w].errors
  /\ "write" \in mishaps' \ mishaps => FirstError' # {}
  /\ \/ results' = results /\ pc'[w] # "end"
     \/ \E why \in {"task", "write"} : results' = Append(results, Failure(why))
     \/ results' = Append(results, Report(status[w])) /\ status' = status

LEMMA ResultsGrow ==
  ASSUME results \in Seq(Results), NEW r \in Results, results' = Append(results, r)
  PROVE  /\ DOMAIN results' = DOMAIN results \cup {Len(results) + 1}
         /\ results'[Len(results) + 1] = r
         /\ \A i \in DOMAIN results : results'[i] = results[i]
<1>1. Len(results) \in Nat /\ DOMAIN results = 1..Len(results)
  BY LenProperties
<1>2. DOMAIN results' = 1..(Len(results) + 1)
  BY AppendProperties, LenProperties
<1>3. \A i \in 1..Len(results) : results'[i] = results[i]
  BY AppendProperties
<1>4. results'[Len(results) + 1] = r
  BY AppendProperties
<1> QED
  BY <1>1, <1>2, <1>3, <1>4

LEMMA VerdictKept ==
  ASSUME RunTypes, results \in Seq(Results), Truthful, NEW w \in Workers,
         ThreadStep(w), Verdict(w)
  PROVE  Truthful'
<1>1. FirstError # {} => FirstError' # {}
  <2>1. CASE results' = results
    BY <2>1 DEF FirstError
  <2>2. CASE \E r \in Results : results' = Append(results, r)
    BY <2>2, ResultAppended
  <2> QED
    BY <2>1, <2>2 DEF ThreadStep
<1>2. /\ \A i \in DOMAIN results : i \in DOMAIN results' /\ results'[i] = results[i]
      /\ \A i \in DOMAIN results' : \/ i \in DOMAIN results /\ results'[i] = results[i]
                                    \/ ~results'[i].ok
                                    \/ results'[i] = Report(status[w])
      /\ pc'[w] = "end" => FirstError' # {}
                             \/ \E i \in DOMAIN results' : results'[i] = Report(status'[w])
  <2>1. CASE results' = results /\ pc'[w] # "end"
    BY <2>1
  <2>2. CASE \E why \in {"task", "write"} : results' = Append(results, Failure(why))
    <3> PICK why \in {"task", "write"} : results' = Append(results, Failure(why))
      BY <2>2
    <3>1. Failure(why) \in Results /\ ~Failure(why).ok
      BY DEF Results, Failure
    <3>2. FirstError' # {}
      BY <3>1, ResultAppended
    <3> QED
      BY <3>1, <3>2, ResultsGrow
  <2>3. CASE results' = Append(results, Report(status[w])) /\ status' = status
    <3>1. Report(status[w]) \in Results
      BY DEF RunTypes, Results
    <3> QED
      BY <2>3, <3>1, ResultsGrow
  <2> QED
    BY <2>1, <2>2, <2>3 DEF Verdict
<1>3. ASSUME NEW v \in Workers PROVE ToldBy(v)'
  <2>1. CASE v = w
    BY <1>2, <2>1 DEF Verdict, ToldBy
  <2>2. CASE v # w
    <3>1. /\ pc'[v] = pc[v] /\ command'[v] = command[v] /\ status'[v] = status[v]
          /\ outbox'[v] = outbox[v] /\ mishaps \subseteq mishaps'
      BY <2>2 DEF ThreadStep, Verdict
    <3> QED
      BY <1>1, <1>2, <3>1 DEF Truthful, ToldBy, Unsaid
  <2> QED
    BY <2>1, <2>2
<1>4. ASSUME NEW i \in DOMAIN results' PROVE Reported(results[i])'
  <2>1. CASE i \in DOMAIN results /\ results'[i] = results[i]
    BY <2>1 DEF Truthful, Reported, Verdict
  <2>2. CASE ~results'[i].ok
    BY <2>2 DEF Reported
  <2>3. CASE results'[i] = Report(status[w])
    <3>1. ToldBy(w) /\ mishaps \subseteq mishaps'
      BY DEF Truthful, Verdict
    <3> QED
      BY <2>3, <3>1 DEF Reported, Report, ToldBy
  <2> QED
    BY <1>2, <2>1, <2>2, <2>3
<1>5. "action" \in mishaps' =>
        FirstError' # {} \/ \E v \in Workers : status'[v].failed \/ ~command'[v].ok
  <2>1. CASE "action" \in mishaps' \ mishaps
    BY <2>1 DEF Verdict
  <2>2. CASE "action" \in mishaps
    <3>1. CASE FirstError # {}
      BY <1>1, <3>1
    <3>2. CASE \E v \in Workers : status[v].failed \/ ~command[v].ok
      <4> PICK v \in Workers : status[v].failed \/ ~command[v].ok
        BY <3>2
      <4>1. CASE v = w
        BY <4>1 DEF Verdict
      <4>2. CASE v # w
        BY <4>2 DEF ThreadStep
      <4> QED
        BY <4>1, <4>2
    <3> QED
      BY <2>2, <3>1, <3>2 DEF Truthful
  <2> QED
    BY <2>1, <2>2
<1>6. "walk" \in mishaps' => \E v \in Workers : status'[v].errors
  <2>1. CASE "walk" \in mishaps' \ mishaps
    BY <2>1 DEF Verdict
  <2>2. CASE "walk" \in mishaps
    <3> PICK v \in Workers : status[v].errors
      BY <2>2 DEF Truthful
    <3>1. CASE v = w
      BY <3>1 DEF Verdict
    <3>2. CASE v # w
      BY <3>2 DEF ThreadStep
    <3> QED
      BY <3>1, <3>2
  <2> QED
    BY <2>1, <2>2
<1>7. "write" \in mishaps' => FirstError' # {} \/ broker' = "failed"
  BY <1>1 DEF Truthful, Verdict, ThreadStep
<1> QED
  BY <1>3, <1>4, <1>5, <1>6, <1>7 DEF Truthful

(* A worker that has nothing to say and is told of nothing new.            *)
LEMMA QuietVerdict ==
  ASSUME Truthful, NEW w \in Workers, pc[w] \notin {"send", "end"},
         pc'[w] # "end", UNCHANGED <<results, mishaps, status>>,
         command'[w].ok, outbox'[w] = outbox[w]
  PROVE  Verdict(w)
<1>1. command[w].ok /\ outbox[w] = <<>> /\ ToldBy(w)
  BY DEF Truthful, ToldBy, Unsaid
<1> QED
  BY <1>1 DEF Verdict, ToldBy

(* A task that fails leaves its error, whatever else there was to say.     *)
LEMMA FailureVerdict ==
  ASSUME RunTypes, results \in Seq(Results), Truthful, NEW w \in Workers,
         NEW why \in {"task", "write"}, TaskFails(w, why),
         UNCHANGED <<status, command, outbox>>,
         mishaps' = mishaps \/ mishaps' = mishaps \cup {"write"}
  PROVE  Verdict(w)
<1>1. FirstError' # {} /\ results' = Append(results, Failure(why))
  BY FailureAppended DEF TaskFails
<1>2. pc'[w] = "end" /\ mishaps \subseteq mishaps'
  BY DEF TaskFails, Goto, RunTypes
<1>3. ToldBy(w)
  BY DEF Truthful
<1>4. "action" \notin mishaps' \ mishaps /\ "walk" \notin mishaps' \ mishaps
  OBVIOUS
<1> QED
  BY <1>1, <1>2, <1>3, <1>4 DEF Verdict, ToldBy, Unsaid

(* An action that has failed and is about to be told. *)
LEMMA ActionVerdict ==
  ASSUME Truthful, NEW w \in Workers, pc[w] \notin {"send", "end"},
         pc'[w] = "send", UNCHANGED <<results, status>>,
         command'[w].ok \in BOOLEAN,
         mishaps' = IF command'[w].ok THEN mishaps ELSE mishaps \cup {"action"}
  PROVE  Verdict(w)
<1>1. command[w].ok /\ outbox[w] = <<>> /\ ToldBy(w)
  BY DEF Truthful, ToldBy, Unsaid
<1> QED
  BY <1>1 DEF Verdict, ToldBy, Unsaid

LEMMA Verdicts ==
  ASSUME RunTypes, DOMAIN outbox = Workers, results \in Seq(Results), Truthful,
         NEW w \in Threads, Worker(w) \/ Panic(w)
  PROVE  Verdict(w)
<1>0. /\ pc \in [Workers -> Places] /\ w \in Workers /\ NoCommand.ok
      /\ DOMAIN command = Workers /\ DOMAIN status = Workers
      /\ status[w] \in [failed : BOOLEAN, errors : BOOLEAN]
  BY ThreadsAreWorkers DEF RunTypes, NoCommand
<1>1. command[w].ok \in BOOLEAN /\ command[w] \in Command
  BY <1>0 DEF RunTypes, Command
<1>2. pc[w] \notin {"send", "end"} => command[w].ok
  BY <1>0 DEF Truthful, ToldBy, Unsaid
<1>3. CASE Drop(w)
  BY <1>0, <1>2, <1>3, QuietVerdict DEF Drop, world
<1>4. CASE Take(w)
  <2> PICK e \in todo :
        /\ Goto(w, FirstStep[kind[e]])
        /\ Put(w, CASE kind[e] = "print" -> <<Message("out", e, w)>>
                    [] kind[e] = "unreadable" -> <<Message("err", e, w)>>
                    [] OTHER -> <<>>)
        /\ Order(w, IF kind[e] = "exec" THEN [NoCommand EXCEPT !.paths = <<e>>]
                    ELSE NoCommand)
        /\ IF kind[e] = "unreadable"
           THEN status' = [status EXCEPT ![w].errors = TRUE] /\ Happens("walk")
           ELSE UNCHANGED <<status, mishaps>>
    BY <1>4 DEF Take
  <2>1. kind[e] \in Kinds
    BY ActionRunAssumption DEF RunTypes
  <2>2. /\ pc'[w] # "end"
        /\ kind[e] \in {"print", "unreadable"} => pc'[w] = "send"
    BY <1>0, <2>1 DEF FirstStep, Kinds, Goto
  <2>3. command'[w].ok
    BY <1>0 DEF Order, NoCommand
  <2>4. kind[e] \notin {"print", "unreadable"} => outbox'[w] = <<>>
    BY <1>0 DEF Put
  <2>5. ToldBy(w) /\ command[w].ok /\ pc[w] = "pop" /\ results' = results
    BY <1>0, <1>2, <1>4 DEF Truthful, Take
  <2>6. /\ mishaps \subseteq mishaps' /\ "action" \notin mishaps' \ mishaps
        /\ "write" \notin mishaps' \ mishaps
        /\ status'[w].failed = status[w].failed
        /\ status'[w].errors => status[w].errors \/ "walk" \in mishaps'
        /\ status[w].errors \/ "walk" \in mishaps' \ mishaps => status'[w].errors
    BY <1>0 DEF Happens
  <2> QED
    BY <2>2, <2>3, <2>4, <2>5, <2>6 DEF Verdict, ToldBy, Unsaid
<1>5. CASE RenderFails(w)
  BY <1>0, <1>5, FailureVerdict DEF RenderFails, world
<1>6. CASE Panic(w)
  BY <1>0, <1>2, <1>6, QuietVerdict DEF Panic, Goto, world
<1>7. CASE Quit(w)
  BY <1>0, <1>2, <1>7, QuietVerdict DEF Quit, Goto, world
<1>8. CASE Delete(w)
  <2> PICK deleted \in BOOLEAN :
        /\ Order(w, [NoCommand EXCEPT !.ok = deleted])
        /\ IF deleted THEN UNCHANGED mishaps ELSE Happens("action")
    BY <1>8 DEF Delete
  <2>1. command'[w].ok = deleted
    BY <1>0 DEF Order, NoCommand
  <2> QED
    BY <1>0, <1>8, <2>1, ActionVerdict DEF Delete, Goto, Happens
<1>9. CASE Send(w)
  <2>1. CASE UNCHANGED <<pc, results, mishaps, status, command>>
    <3>1. ToldBy(w) /\ pc[w] = "send"
      BY <1>0, <1>9 DEF Truthful, Send
    <3> QED
      BY <2>1, <3>1 DEF Verdict, ToldBy, Unsaid
  <2>2. CASE \E why \in {"task", "write"} : TaskFails(w, why) /\ UNCHANGED outbox
    <3>1. /\ UNCHANGED <<status, command>>
          /\ mishaps' = mishaps \/ mishaps' = mishaps \cup {"write"}
      BY <1>9, <2>2 DEF Send, Happens
    <3> QED
      BY <1>0, <2>2, <3>1, FailureVerdict
  <2> QED
    BY <1>9, <2>1, <2>2 DEF Send
<1>10. CASE Said(w)
  <2>1. command[w].then \in {"pop", "enqueue", "flush"}
    BY <1>1 DEF Command
  <2>2. /\ pc'[w] # "end" /\ command'[w].ok /\ outbox'[w] = <<>>
        /\ results' = results /\ mishaps' = mishaps
        /\ status'[w].errors = status[w].errors
        /\ status'[w].failed <=> status[w].failed \/ ~command[w].ok
    BY <1>0, <1>1, <1>10, <2>1 DEF Said, Goto, Order, world
  <2>3. ToldBy(w)
    BY <1>0 DEF Truthful
  <2> QED
    BY <2>2, <2>3 DEF Verdict, ToldBy
<1>11. CASE WriteFirst(w)
  <2>1. CASE Goto(w, "writeFile") /\ UNCHANGED <<results, mishaps>>
    BY <1>0, <1>2, <1>11, <2>1, QuietVerdict DEF WriteFirst, Goto
  <2>2. CASE TaskFails(w, "task") /\ Happens("write")
    BY <1>0, <1>11, <2>2, FailureVerdict DEF WriteFirst, Happens
  <2> QED
    BY <1>11, <2>1, <2>2 DEF WriteFirst
<1>12. CASE WriteRest(w)
  <2>1. CASE Goto(w, "pop") /\ UNCHANGED <<results, mishaps>>
    BY <1>0, <1>2, <1>12, <2>1, QuietVerdict DEF WriteRest, Goto
  <2>2. CASE TaskFails(w, "task") /\ Happens("write")
    BY <1>0, <1>12, <2>2, FailureVerdict DEF WriteRest, Happens
  <2> QED
    BY <1>12, <2>1, <2>2 DEF WriteRest
<1>13. CASE Ask(w)
  BY <1>0, <1>2, <1>13, QuietVerdict DEF Ask, Goto
<1>14. CASE Reply(w)
  <2>1. CASE UNCHANGED <<command, outbox, mishaps>> /\ \E place \in {"confirmed", "pop"} : Goto(w, place)
    BY <1>0, <1>2, <1>14, <2>1, QuietVerdict DEF Reply, Goto
  <2>2. CASE Goto(w, "send") /\ Order(w, [NoCommand EXCEPT !.ok = FALSE]) /\ Happens("action")
    <3>1. command'[w].ok = FALSE
      BY <1>0, <2>2 DEF Order, NoCommand
    <3> QED
      BY <1>0, <1>14, <2>2, <3>1, ActionVerdict DEF Reply, Goto, Happens
  <2> QED
    BY <1>14, <2>1, <2>2 DEF Reply
<1>15. CASE Confirmed(w)
  <2> PICK success \in BOOLEAN :
        /\ Order(w, [NoCommand EXCEPT !.ok = success])
        /\ IF success THEN UNCHANGED mishaps ELSE Happens("action")
    BY <1>15 DEF Confirmed
  <2>1. command'[w].ok = success
    BY <1>0 DEF Order, NoCommand
  <2> QED
    BY <1>0, <1>15, <2>1, ActionVerdict DEF Confirmed, Goto, Happens
<1>16. CASE FlushFull(w)
  BY <1>0, <1>2, <1>16, QuietVerdict DEF FlushFull, Goto, Order, world
<1>17. CASE Enqueue(w)
  <2>1. CASE Goto(w, "pop") /\ UNCHANGED <<command, outbox, results, mishaps>>
    BY <1>0, <1>2, <1>17, <2>1, QuietVerdict DEF Enqueue, Goto
  <2>2. CASE TaskFails(w, "task") /\ UNCHANGED <<command, outbox, mishaps>>
    BY <1>0, <1>17, <2>2, FailureVerdict DEF Enqueue
  <2>3. CASE Goto(w, "send") /\ Order(w, [NoCommand EXCEPT !.ok = FALSE])
             /\ Happens("action") /\ UNCHANGED results
    <3>1. command'[w].ok = FALSE
      BY <1>0, <2>3 DEF Order, NoCommand
    <3> QED
      BY <1>0, <1>17, <2>3, <3>1, ActionVerdict DEF Enqueue, Goto, Happens
  <2> QED
    BY <1>17, <2>1, <2>2, <2>3 DEF Enqueue
<1>18. CASE FlushNext(w)
  BY <1>0, <1>2, <1>18, QuietVerdict DEF FlushNext, Goto, Order, world
<1>19. CASE Spawn(w)
  <2>1. CASE TaskFails(w, "task") /\ UNCHANGED <<outbox, command, mishaps>>
    BY <1>0, <1>19, <2>1, FailureVerdict DEF Spawn
  <2>2. CASE \E success \in BOOLEAN :
               /\ Goto(w, "send") /\ UNCHANGED results
               /\ Order(w, [command[w] EXCEPT !.ok = Counts(command[w].batched, success)])
               /\ IF command[w].batched /\ ~success THEN Happens("action")
                  ELSE UNCHANGED mishaps
    <3> PICK success \in BOOLEAN :
               /\ Goto(w, "send") /\ UNCHANGED results
               /\ Order(w, [command[w] EXCEPT !.ok = Counts(command[w].batched, success)])
               /\ IF command[w].batched /\ ~success THEN Happens("action")
                  ELSE UNCHANGED mishaps
      BY <2>2
    <3>1. command'[w].ok = Counts(command[w].batched, success)
      BY <1>0, <1>1 DEF Order, Command
    <3>2. Counts(command[w].batched, success) \in BOOLEAN
      BY <1>1 DEF Counts, Command
    <3>3. mishaps' = IF command'[w].ok THEN mishaps ELSE mishaps \cup {"action"}
      BY <3>1 DEF Counts, Happens
    <3> QED
      BY <1>0, <1>19, <3>1, <3>2, <3>3, ActionVerdict DEF Spawn, Goto
  <2> QED
    BY <1>19, <2>1, <2>2 DEF Spawn
<1>20. CASE Leave(w)
  BY <1>0, <1>2, <1>20, QuietVerdict DEF Leave, Goto, world
<1>21. CASE SendReport(w)
  <2>1. /\ ToldBy(w) /\ outbox[w] = <<>>
    BY <1>0, <1>21 DEF Truthful, ToldBy, Unsaid, SendReport
  <2>2. UNCHANGED <<status, command, outbox, mishaps>> /\ results' = Append(results, Report(status[w]))
    BY <1>21 DEF SendReport, world
  <2>3. command[w].ok
    BY <1>2, <1>21 DEF SendReport
  <2> QED
    BY <2>1, <2>2, <2>3 DEF Verdict, ToldBy
<1> QED
  BY <1>3, <1>4, <1>5, <1>6, <1>7, <1>8, <1>9, <1>10, <1>11, <1>12, <1>13, <1>14,
     <1>15, <1>16, <1>17, <1>18, <1>19, <1>20, <1>21 DEF Worker

LEMMA TruthfulStep ==
  ASSUME RunTypes, results \in Seq(Results), Tallied, Truthful, [Next]_vars
  PROVE  Truthful'
<1>1. ASSUME NEW w \in Threads, Worker(w) \/ Panic(w) PROVE Truthful'
  <2>1. DOMAIN outbox = Workers
    BY DEF Tallied
  <2>2. ThreadStep(w) /\ Verdict(w)
    BY <1>1, <2>1, ThreadSteps, Verdicts
  <2> QED
    BY <2>2, ThreadsAreWorkers, VerdictKept
<1>2. CASE Broker
  <2>1. /\ UNCHANGED <<pc, command, outbox, status, results>>
        /\ mishaps \subseteq mishaps' /\ "action" \notin mishaps' \ mishaps
        /\ "walk" \notin mishaps' \ mishaps
        /\ "write" \in mishaps' \ mishaps => broker' = "failed"
        /\ broker = "running"
    BY <1>2 DEF Broker, threads, Happens
  <2> QED
    BY <2>1 DEF Truthful, ToldBy, Unsaid, Reported, FirstError
<1>3. CASE Collect \/ Finish \/ UNCHANGED vars
  BY <1>3 DEF Collect, Finish, vars, threads, ends, world, Truthful, ToldBy, Unsaid,
              Reported, FirstError
<1> QED
  BY <1>1, <1>2, <1>3 DEF Next

(* All parts together: the summary is exact because nothing is left unsaid *)
(* when every thread has ended without an error.                           *)
OutcomeInv == RunTypes /\ LocksInv /\ Tallied /\ Truthful

LEMMA InitOutcome == Init => OutcomeInv
<1> SUFFICES ASSUME Init PROVE OutcomeInv
  OBVIOUS
<1>1. RunTypes /\ LocksInv
  BY InitTypes, InitLocks
<1>2. EndedThreads = {}
  BY ThreadsAreWorkers DEF Init, EndedThreads
<1>3. Tallied
  BY <1>2, FS_EmptySet DEF Init, Tallied, Ended, Clean, NoCommand
<1>4. Truthful
  BY DEF Init, Truthful, ToldBy, Clean, NoCommand, FirstError
<1> QED
  BY <1>1, <1>3, <1>4 DEF OutcomeInv

LEMMA OutcomeStep == OutcomeInv /\ [Next]_vars => OutcomeInv'
<1> SUFFICES ASSUME OutcomeInv, [Next]_vars PROVE OutcomeInv'
  OBVIOUS
<1>1. RunTypes' /\ LocksInv'
  BY TypesStep, LocksStep DEF OutcomeInv
<1>2. Tallied' /\ Truthful'
  BY TalliedStep, TruthfulStep DEF OutcomeInv, LocksInv
<1> QED
  BY <1>1, <1>2 DEF OutcomeInv

LEMMA OutcomeTold == OutcomeInv => OutcomeTellsTheTruth
<1> SUFFICES ASSUME OutcomeInv, Ended
             PROVE  /\ run.outcome.ok =>
                         /\ run.outcome.failed <=> "action" \in mishaps
                         /\ run.outcome.errors <=> "walk" \in mishaps
                         /\ "write" \notin mishaps /\ channel = <<>>
                         /\ \A w \in Workers : outbox[w] = <<>>
                    /\ broker = "failed" => run.outcome = Failure("write")
  BY DEF OutcomeTellsTheTruth
<1> USE DEF OutcomeInv
<1>1. run.outcome = RunOutcome
  BY DEF Tallied
<1>2. broker = "failed" => run.outcome = Failure("write")
  BY <1>1 DEF RunOutcome
<1>3. ASSUME run.outcome.ok
      PROVE  /\ run.outcome.failed <=> "action" \in mishaps
             /\ run.outcome.errors <=> "walk" \in mishaps
             /\ "write" \notin mishaps /\ channel = <<>>
             /\ \A w \in Workers : outbox[w] = <<>>
  <2>1. broker # "failed"
    BY <1>2, <1>3 DEF Failure
  <2>2. FirstError = {}
    <3> SUFFICES ASSUME FirstError # {} PROVE FALSE
      OBVIOUS
    <3> DEFINE first == CHOOSE i \in FirstError : \A j \in FirstError : i <= j
    <3>1. FirstError \in SUBSET Nat
      BY LenProperties DEF FirstError, LocksInv
    <3>2. \E i \in FirstError : \A j \in FirstError : i <= j
      BY <3>1, LeastNumber
    <3>3. first \in FirstError
      BY <3>2
    <3>4. run.outcome = results[first]
      BY <1>1, <2>1 DEF RunOutcome
    <3> QED
      BY <1>3, <3>3, <3>4 DEF FirstError
  <2>3. /\ run.outcome.failed = Flagged("failed")
        /\ run.outcome.errors = Flagged("errors")
    BY <1>1, <2>1, <2>2 DEF RunOutcome
  <2>4. \A w \in Threads : pc[w] = "end"
    BY AllEnded DEF Ended
  <2>5. ASSUME NEW w \in Workers
        PROVE  /\ outbox[w] = <<>> /\ command[w].ok
               /\ status[w].failed \/ status[w].errors =>
                    \E i \in DOMAIN results : results[i] = Report(status[w])
    <3>1. CASE w \in Threads
      BY <2>2, <2>4, <3>1 DEF Truthful, ToldBy, Unsaid
    <3>2. CASE w \notin Threads
      BY <3>2 DEF Tallied
    <3> QED
      BY <3>1, <3>2
  <2>6. Flagged("failed") <=> "action" \in mishaps
    <3>1. Flagged("failed") => "action" \in mishaps
      BY DEF Flagged, Truthful, Reported
    <3>2. ASSUME "action" \in mishaps PROVE Flagged("failed")
      <4>1. PICK w \in Workers : status[w].failed
        BY <2>2, <2>5, <3>2 DEF Truthful
      <4>2. PICK i \in DOMAIN results : results[i] = Report(status[w])
        BY <2>5, <4>1
      <4> QED
        BY <4>1, <4>2 DEF Flagged, Report
    <3> QED
      BY <3>1, <3>2
  <2>7. Flagged("errors") <=> "walk" \in mishaps
    <3>1. Flagged("errors") => "walk" \in mishaps
      BY DEF Flagged, Truthful, Reported
    <3>2. ASSUME "walk" \in mishaps PROVE Flagged("errors")
      <4>1. PICK w \in Workers : status[w].errors
        BY <3>2 DEF Truthful
      <4>2. PICK i \in DOMAIN results : results[i] = Report(status[w])
        BY <2>5, <4>1
      <4> QED
        BY <4>1, <4>2 DEF Flagged, Report
    <3> QED
      BY <3>1, <3>2
  <2>8. "write" \notin mishaps
    BY <2>1, <2>2 DEF Truthful
  <2>9. channel = <<>>
    BY DEF Tallied
  <2> QED
    BY <2>3, <2>5, <2>6, <2>7, <2>8, <2>9
<1> QED
  BY <1>2, <1>3

(* The outcome of a run tells what happened, however the workers, the      *)
(* broker and the engine interleave: the summary of parallel/engine.rs is  *)
(* exact, and a failing terminal is the error the user gets.               *)
THEOREM OutcomeIsTrue == Spec => []OutcomeTellsTheTruth
BY InitOutcome, OutcomeStep, OutcomeTold, PTL DEF Spec

-----------------------------------------------------------------------------
(* The accepted paths                                                      *)

(* The worker is at a path that is not in a batch yet, possibly running    *)
(* the full batch before.                                                  *)
Enqueuing(w) ==
  pc[w] = "enqueue" \/ (pc[w] \in {"spawn", "send"} /\ command[w].then = "enqueue")

(* What a worker is at is an entry of the right kind.                      *)
JobOK(w) ==
  /\ pc[w] = "spawn" /\ ~command[w].batched =>
       \A i \in DOMAIN command[w].paths : kind[command[w].paths[i]] = "exec"
  /\ pc[w] \in {"ask", "reply", "confirmed"} => kind[job[w]] = "ok"
  /\ pc[w] = "end" => Unflushed(pending[w]) = {}

ToAccept(e) == e \in DOMAIN kind \ (todo \cup accepted) /\ kind[e] = "batch"

JobsInv ==
  /\ \A e \in accepted : e \in DOMAIN kind \ todo /\ kind[e] = "batch"
  /\ \A w \in Workers : JobOK(w) /\ (Enqueuing(w) => ToAccept(job[w]))
  /\ \A v, w \in Workers : Enqueuing(v) /\ Enqueuing(w) /\ job[v] = job[w] => v = w

LEMMA JobsKept ==
  ASSUME RunTypes, JobsInv, NEW w \in Workers, ThreadStep(w), JobOK(w)',
         \/ /\ todo' \subseteq todo /\ accepted' = accepted
            /\ Enqueuing(w)' => Enqueuing(w) /\ job'[w] = job[w]
         \/ /\ job'[w] \in todo /\ todo' = todo \ {job'[w]} /\ accepted' = accepted
            /\ Enqueuing(w)' => kind[job'[w]] = "batch"
         \/ /\ Enqueuing(w) /\ ~Enqueuing(w)'
            /\ todo' = todo /\ accepted' = accepted \cup {job[w]}
  PROVE  JobsInv'
<1> USE DEF JobsInv
<1>0. /\ todo' \subseteq todo /\ kind' = kind /\ todo \subseteq DOMAIN kind
      /\ accepted \subseteq accepted'
      /\ \A e \in accepted' \ accepted : Enqueuing(w) /\ ~Enqueuing(w)' /\ e = job[w]
  BY DEF ThreadStep, RunTypes
<1>1. ASSUME NEW v \in Workers, v # w
      PROVE  (Enqueuing(v)' <=> Enqueuing(v)) /\ job'[v] = job[v] /\ JobOK(v)'
  <2>1. /\ pc'[v] = pc[v] /\ command'[v] = command[v] /\ job'[v] = job[v]
        /\ pending'[v] = pending[v] /\ kind' = kind
    BY <1>1 DEF ThreadStep
  <2>2. JobOK(v)
    OBVIOUS
  <2> QED
    BY <2>1, <2>2 DEF Enqueuing, JobOK, Unflushed
<1>2. ASSUME NEW v \in Workers, Enqueuing(v)' PROVE ToAccept(job[v])'
  <2>1. CASE v = w
    <3>1. CASE Enqueuing(w) /\ job'[w] = job[w] /\ accepted' = accepted
      BY <1>0, <2>1, <3>1 DEF ToAccept
    <3>2. CASE job'[w] \in todo /\ todo' = todo \ {job'[w]} /\ accepted' = accepted
      BY <1>0, <1>2, <2>1, <3>2 DEF ToAccept
    <3> QED
      BY <1>2, <2>1, <3>1, <3>2
  <2>2. CASE v # w
    <3>1. Enqueuing(v) /\ job'[v] = job[v] /\ ToAccept(job[v])
      BY <1>1, <1>2, <2>2
    <3>2. job[v] \notin accepted'
      BY <1>0, <2>2, <3>1 DEF ToAccept
    <3> QED
      BY <1>0, <3>1, <3>2 DEF ToAccept
  <2> QED
    BY <2>1, <2>2
<1>3. ASSUME NEW v \in Workers, v # w, Enqueuing(v)', Enqueuing(w)'
      PROVE  job'[v] # job'[w]
  <2>1. Enqueuing(v) /\ job'[v] = job[v] /\ job[v] \notin todo
    BY <1>1, <1>3 DEF ToAccept
  <2> QED
    BY <1>3, <2>1
<1>4. ASSUME NEW e \in accepted' PROVE e \in DOMAIN kind' \ todo' /\ kind'[e] = "batch"
  BY <1>0 DEF ToAccept
<1>5. \A v \in Workers : JobOK(v)'
  BY <1>1
<1>6. ASSUME NEW v \in Workers, NEW u \in Workers,
             Enqueuing(v)', Enqueuing(u)', job'[v] = job'[u]
      PROVE  v = u
  BY <1>1, <1>3, <1>6
<1> QED
  BY <1>2, <1>4, <1>5, <1>6

(* A step with which a worker comes to nothing that JobOK is about.        *)
LEMMA NoJob ==
  ASSUME RunTypes, JobsInv, NEW w \in Workers, ThreadStep(w),
         pc'[w] \notin {"enqueue", "spawn", "ask", "reply", "confirmed", "end"},
         pc'[w] = "send" => command'[w].then # "enqueue",
         todo' \subseteq todo, accepted' = accepted
  PROVE  JobsInv'
<1>1. JobOK(w)' /\ ~Enqueuing(w)'
  BY DEF JobOK, Enqueuing
<1> QED
  BY <1>1, JobsKept

LEMMA JobFails ==
  ASSUME RunTypes, JobsInv, NEW w \in Workers, ThreadStep(w),
         NEW why, TaskFails(w, why), todo' = todo, accepted' = accepted
  PROVE  JobsInv'
<1>1. pc'[w] = "end" /\ pending'[w] = << >>
  BY DEF TaskFails, Goto, RunTypes
<1>2. JobOK(w)' /\ ~Enqueuing(w)'
  BY <1>1 DEF JobOK, Enqueuing, Unflushed
<1> QED
  BY <1>2, JobsKept

LEMMA JobsStep ==
  ASSUME RunTypes, DOMAIN outbox = Workers, JobsInv, [Next]_vars
  PROVE  JobsInv'
<1>0. /\ pc \in [Workers -> Places] /\ DOMAIN command = Workers /\ DOMAIN job = Workers
      /\ DOMAIN pending = Workers /\ NoCommand.then = "pop" /\ Threads \subseteq Workers
      /\ \A b : [NoCommand EXCEPT !.ok = b].then = "pop"
      /\ ~NoCommand.batched /\ \A p : [NoCommand EXCEPT !.paths = p].then = "pop"
      /\ \A w \in Threads : Worker(w) \/ Panic(w) => ThreadStep(w)
  BY ThreadsAreWorkers, ThreadSteps DEF RunTypes, NoCommand
<1>1. ASSUME NEW w \in Threads, Drop(w) PROVE JobsInv'
  BY <1>0, <1>1, NoJob DEF Drop, Worker, world
<1>2. ASSUME NEW w \in Threads, Take(w) PROVE JobsInv'
  <2> PICK e \in todo :
        /\ todo' = todo \ {e} /\ job' = [job EXCEPT ![w] = e]
        /\ Goto(w, FirstStep[kind[e]])
        /\ Order(w, IF kind[e] = "exec" THEN [NoCommand EXCEPT !.paths = <<e>>]
                    ELSE NoCommand)
    BY <1>2 DEF Take
  <2>1. kind[e] \in Kinds /\ kind' = kind /\ accepted' = accepted
    BY <1>2, ActionRunAssumption DEF RunTypes, Take
  <2>2. job'[w] = e /\ pc'[w] = FirstStep[kind[e]] /\ command'[w].then = "pop"
    BY <1>0 DEF Goto, Order
  <2>3. JobOK(w)'
    <3>1. pc'[w] = "spawn" => kind[e] = "exec"
      BY <2>1, <2>2 DEF FirstStep, Kinds
    <3>2. kind[e] = "exec" => command'[w].paths = <<e>>
      BY <1>0 DEF Order, NoCommand
    <3>3. pc'[w] \in {"ask", "reply", "confirmed"} => kind[e] = "ok"
      BY <2>1, <2>2 DEF FirstStep, Kinds
    <3>4. pc'[w] # "end"
      BY <2>1, <2>2 DEF FirstStep, Kinds
    <3> QED
      BY <2>1, <2>2, <3>1, <3>2, <3>3, <3>4 DEF JobOK
  <2>4. Enqueuing(w)' => kind[e] = "batch"
    BY <2>1, <2>2 DEF Enqueuing, FirstStep, Kinds
  <2>5. ThreadStep(w)
    BY <1>0, <1>2 DEF Worker
  <2> QED
    BY <1>0, <2>1, <2>2, <2>3, <2>4, <2>5, JobsKept
<1>3. ASSUME NEW w \in Threads, RenderFails(w) PROVE JobsInv'
  BY <1>0, <1>3, JobFails DEF RenderFails, Worker, world
<1>4. ASSUME NEW w \in Threads, Panic(w) PROVE JobsInv'
  BY <1>0, <1>4, NoJob DEF Panic, Goto, world
<1>5. ASSUME NEW w \in Threads, Quit(w) PROVE JobsInv'
  BY <1>0, <1>5, NoJob DEF Quit, Goto, Worker, world
<1>6. ASSUME NEW w \in Threads, Delete(w) PROVE JobsInv'
  BY ZenonT(120), <1>0, <1>6, NoJob DEF Delete, Goto, Order, Worker
<1>7. ASSUME NEW w \in Threads, Send(w) PROVE JobsInv'
  <2>1. ThreadStep(w)
    BY <1>0, <1>7 DEF Worker
  <2>2. CASE UNCHANGED <<pc, pending>>
    <3>1. UNCHANGED <<pc, pending, command, job, kind, todo, accepted>>
      BY <1>7, <2>2 DEF Send
    <3> QED
      BY <3>1 DEF JobsInv, JobOK, Enqueuing, ToAccept, Unflushed
  <2>3. CASE \E why : TaskFails(w, why)
    BY <1>0, <1>7, <2>1, <2>3, JobFails DEF Send
  <2> QED
    BY <1>7, <2>2, <2>3 DEF Send
<1>8. ASSUME NEW w \in Threads, Said(w) PROVE JobsInv'
  <2>1. ThreadStep(w) /\ w \in Workers
    BY <1>0, <1>8 DEF Worker
  <2>2. command[w].then \in {"pop", "enqueue", "flush"}
    BY <2>1 DEF RunTypes, Command
  <2>3. /\ pc'[w] = command[w].then /\ command'[w].then = "pop" /\ pc[w] = "send"
        /\ UNCHANGED <<todo, accepted, job, kind>>
    BY <1>0, <1>8 DEF Said, Goto, Order, world
  <2>4. JobOK(w)' /\ (Enqueuing(w)' => Enqueuing(w))
    BY <2>2, <2>3 DEF JobOK, Enqueuing
  <2> QED
    BY <2>1, <2>3, <2>4, JobsKept
<1>9. ASSUME NEW w \in Threads, WriteFirst(w) \/ WriteRest(w) PROVE JobsInv'
  <2>1. ThreadStep(w) /\ UNCHANGED <<todo, accepted>>
    BY <1>0, <1>9 DEF Worker, WriteFirst, WriteRest
  <2>2. CASE pc'[w] \in {"writeFile", "pop"}
    BY <1>0, <2>1, <2>2, NoJob
  <2>3. CASE TaskFails(w, "task")
    BY <1>0, <2>1, <2>3, JobFails
  <2> QED
    BY <1>0, <1>9, <2>2, <2>3 DEF WriteFirst, WriteRest, Goto
<1>10. ASSUME NEW w \in Threads, Ask(w) \/ Reply(w) PROVE JobsInv'
  <2>1. ThreadStep(w) /\ UNCHANGED <<todo, accepted, job, kind>> /\ w \in Workers
    BY <1>0, <1>10 DEF Worker, Ask, Reply
  <2>2. CASE pc'[w] \in {"reply", "confirmed"}
    <3>1. kind[job[w]] = "ok"
      BY <1>10, <2>1 DEF Ask, Reply, JobsInv, JobOK
    <3>2. JobOK(w)' /\ ~Enqueuing(w)'
      BY <2>1, <2>2, <3>1 DEF JobOK, Enqueuing
    <3> QED
      BY <2>1, <3>2, JobsKept
  <2>3. CASE pc'[w] = "pop" \/ (pc'[w] = "send" /\ command'[w].then = "pop")
    BY <2>1, <2>3, NoJob
  <2> QED
    BY ZenonT(120), <1>0, <1>10, <2>2, <2>3 DEF Ask, Reply, Goto, Order
<1>11. ASSUME NEW w \in Threads, Confirmed(w) PROVE JobsInv'
  BY ZenonT(120), <1>0, <1>11, NoJob DEF Confirmed, Goto, Order, Worker
<1>12. ASSUME NEW w \in Threads, FlushFull(w) PROVE JobsInv'
  <2>1. ThreadStep(w) /\ w \in Workers /\ UNCHANGED <<todo, accepted, job, kind>>
    BY <1>0, <1>12 DEF Worker, FlushFull, world
  <2>2. pc[w] = "enqueue" /\ pc'[w] = "spawn" /\ command'[w].batched
    BY <1>0, <1>12 DEF FlushFull, Goto, Order
  <2>3. JobOK(w)' /\ Enqueuing(w)
    BY <2>2 DEF JobOK, Enqueuing
  <2> QED
    BY <2>1, <2>3, JobsKept
<1>13. ASSUME NEW w \in Threads, Enqueue(w) PROVE JobsInv'
  <2>1. ThreadStep(w) /\ w \in Workers /\ UNCHANGED <<todo, job, kind>>
    BY <1>0, <1>13 DEF Worker, Enqueue
  <2>2. CASE accepted' = accepted \cup {job[w]} /\ Goto(w, "pop")
    <3>1. Enqueuing(w) /\ ~Enqueuing(w)' /\ JobOK(w)'
      BY <1>0, <1>13, <2>2 DEF Enqueue, Enqueuing, Goto, JobOK
    <3> QED
      BY <2>1, <2>2, <3>1, JobsKept
  <2>3. CASE TaskFails(w, "task") /\ UNCHANGED accepted
    BY <2>1, <2>3, JobFails
  <2>4. CASE Goto(w, "send") /\ UNCHANGED accepted /\ Order(w, [NoCommand EXCEPT !.ok = FALSE])
    BY <1>0, <2>1, <2>4, NoJob DEF Goto, Order
  <2> QED
    BY <1>13, <2>2, <2>3, <2>4 DEF Enqueue
<1>14. ASSUME NEW w \in Threads, FlushNext(w) PROVE JobsInv'
  <2>1. ThreadStep(w) /\ w \in Workers /\ UNCHANGED <<todo, accepted, job, kind>>
    BY <1>0, <1>14 DEF Worker, FlushNext, world
  <2>2. pc'[w] = "spawn" /\ command'[w].batched /\ command'[w].then = "flush"
    BY <1>0, <1>14 DEF FlushNext, Goto, Order
  <2>3. JobOK(w)' /\ ~Enqueuing(w)'
    BY <2>2 DEF JobOK, Enqueuing
  <2> QED
    BY <2>1, <2>3, JobsKept
<1>15. ASSUME NEW w \in Threads, Spawn(w) PROVE JobsInv'
  <2>1. ThreadStep(w) /\ w \in Workers /\ UNCHANGED <<todo, accepted, job, kind>>
    BY <1>0, <1>15 DEF Worker, Spawn
  <2>2. CASE TaskFails(w, "task")
    BY <2>1, <2>2, JobFails
  <2>3. CASE Goto(w, "send") /\ \E b \in BOOLEAN : Order(w, [command[w] EXCEPT !.ok = b])
    <3>1. command'[w].then = command[w].then /\ pc'[w] = "send" /\ pc[w] = "spawn"
      BY <1>0, <1>15, <2>1, <2>3, CommandTypes DEF Goto, Order, Spawn, RunTypes
    <3>2. JobOK(w)' /\ (Enqueuing(w)' => Enqueuing(w))
      BY <3>1 DEF JobOK, Enqueuing
    <3> QED
      BY <2>1, <3>2, JobsKept
  <2>4. \A b \in BOOLEAN : Counts(command[w].batched, b) \in BOOLEAN
    BY <2>1 DEF Counts, RunTypes, Command
  <2> QED
    BY <1>15, <2>2, <2>3, <2>4 DEF Spawn
<1>16. ASSUME NEW w \in Threads, Leave(w) PROVE JobsInv'
  BY <1>0, <1>16, NoJob DEF Leave, Goto, Worker, world
<1>17. ASSUME NEW w \in Threads, SendReport(w) PROVE JobsInv'
  <2>1. ThreadStep(w) /\ w \in Workers /\ UNCHANGED <<todo, accepted, job, kind, pending>>
    BY <1>0, <1>17 DEF Worker, SendReport, world
  <2>2. JobOK(w)' /\ ~Enqueuing(w)'
    <3>1. pc'[w] = "end" /\ Unflushed(pending'[w]) = {}
      BY <1>0, <1>17, <2>1 DEF SendReport, Goto
    <3> QED
      BY <3>1 DEF JobOK, Enqueuing
  <2> QED
    BY <2>1, <2>2, JobsKept
<1>18. CASE Broker \/ Collect \/ Finish \/ UNCHANGED vars
  <2>1. UNCHANGED <<pc, pending, command, job, kind, todo, accepted>>
    BY <1>18 DEF Broker, Collect, Finish, vars, threads, ends, world
  <2> QED
    BY <2>1 DEF JobsInv, JobOK, Enqueuing, ToAccept, Unflushed
<1> QED
  BY <1>1, <1>2, <1>3, <1>4, <1>5, <1>6, <1>7, <1>8, <1>9, <1>10, <1>11, <1>12,
     <1>13, <1>14, <1>15, <1>16, <1>17, <1>18 DEF Next, Worker

(* Where a path may be: in a batch of a worker, or in the command line of  *)
(* a child that is about to be run.                                        *)
Holds(paths, e) == \E i \in DOMAIN paths : paths[i] = e
InBatch(w, key, e) == key \in DOMAIN pending[w] /\ Holds(pending[w][key].paths, e)
InSpawn(w, e) == pc[w] = "spawn" /\ command[w].batched /\ Holds(command[w].paths, e)

Somewhere(e) == \E w \in Workers : InSpawn(w, e) \/ \E key : InBatch(w, key, e)
OnePlace(e) ==
  /\ \A v, w \in Workers : \A k, l :
       InBatch(v, k, e) /\ InBatch(w, l, e) => v = w /\ k = l
  /\ \A v, w \in Workers : InSpawn(v, e) /\ InSpawn(w, e) => v = w
  /\ \A v, w \in Workers : \A k : ~(InBatch(v, k, e) /\ InSpawn(w, e))

Batched(e) == e \in DOMAIN kind /\ kind[e] = "batch"
PathOK(e) ==
  /\ Somewhere(e) => e \in accepted
  /\ OnePlace(e)
  /\ Batched(e) =>
       /\ ran[e] \in {0, 1}
       /\ ran[e] = 1 => e \in accepted /\ ~Somewhere(e)
       /\ e \in accepted /\ ran[e] = 0 => Somewhere(e) \/ FirstError # {}
PathsInv == \A e \in Entries : PathOK(e)

(* A step that moves no path, or loses some after an error. *)
LEMMA PathsLost ==
  ASSUME PathsInv, UNCHANGED <<accepted, kind>>,
         \A e \in Entries : Batched(e) => ran'[e] = ran[e],
         \A v \in Workers : \A k : \A e \in Entries : InBatch(v, k, e)' => InBatch(v, k, e),
         \A v \in Workers : \A e \in Entries : InSpawn(v, e)' => InSpawn(v, e),
         FirstError # {} => FirstError' # {},
         \/ FirstError' # {}
         \/ /\ \A v \in Workers : \A k : \A e \in Entries : InBatch(v, k, e) => InBatch(v, k, e)'
            /\ \A v \in Workers : \A e \in Entries : InSpawn(v, e) => InSpawn(v, e)'
  PROVE  PathsInv'
<1> SUFFICES ASSUME NEW e \in Entries PROVE PathOK(e)'
  BY DEF PathsInv
<1> HIDE DEF InBatch, InSpawn
<1>1. PathOK(e)
  BY DEF PathsInv
<1>2. Somewhere(e)' => Somewhere(e)
  BY DEF Somewhere
<1>3. FirstError' # {} \/ (Somewhere(e) => Somewhere(e)')
  BY DEF Somewhere
<1>4. OnePlace(e)'
  BY <1>1 DEF PathOK, OnePlace
<1> QED
  BY <1>1, <1>2, <1>3, <1>4 DEF PathOK, Batched

LEMMA ErrorsStay ==
  ASSUME results \in Seq(Results), NEW w, ThreadStep(w)
  PROVE  FirstError # {} => FirstError' # {}
<1>1. CASE results' = results
  BY <1>1 DEF FirstError
<1>2. CASE \E r \in Results : results' = Append(results, r)
  BY <1>2, ResultAppended
<1> QED
  BY <1>1, <1>2 DEF ThreadStep

LEMMA NoPath ==
  ASSUME results \in Seq(Results), PathsInv, NEW w \in Workers, ThreadStep(w),
         pending'[w] = pending[w], pc[w] # "spawn",
         pc'[w] = "spawn" => ~command'[w].batched,
         accepted' = accepted, \A e \in Entries : Batched(e) => ran'[e] = ran[e]
  PROVE  PathsInv'
<1>1. \A v \in Workers : pending'[v] = pending[v]
  BY DEF ThreadStep
<1>2. \A v \in Workers : \A e : InSpawn(v, e)' <=> InSpawn(v, e)
  <2>1. \A e : ~InSpawn(w, e) /\ ~InSpawn(w, e)'
    BY DEF InSpawn
  <2>2. \A v \in Workers \ {w} : \A e : InSpawn(v, e)' <=> InSpawn(v, e)
    BY DEF InSpawn, ThreadStep, Holds
  <2> QED
    BY <2>1, <2>2
<1>3. \A v \in Workers : \A k, e : InBatch(v, k, e)' <=> InBatch(v, k, e)
  BY <1>1 DEF InBatch, Holds
<1>4. UNCHANGED <<accepted, kind>>
  BY DEF ThreadStep
<1> QED
  BY <1>2, <1>3, <1>4, ErrorsStay, PathsLost

(* A task that fails drops the batches of its worker. *)
LEMMA PathFails ==
  ASSUME RunTypes, results \in Seq(Results), PathsInv, NEW w \in Workers,
         ThreadStep(w), NEW why \in {"task", "write"}, TaskFails(w, why),
         pc[w] # "spawn", UNCHANGED <<accepted, ran>>
  PROVE  PathsInv'
<1>1. pending'[w] = << >> /\ pc'[w] = "end"
  BY DEF TaskFails, Goto, RunTypes
<1>2. \A v \in Workers : \A k, e : InBatch(v, k, e)' => InBatch(v, k, e)
  <2>1. \A k, e : ~InBatch(w, k, e)'
    BY <1>1 DEF InBatch
  <2>2. \A v \in Workers \ {w} : \A k, e : InBatch(v, k, e)' => InBatch(v, k, e)
    BY DEF InBatch, ThreadStep, Holds
  <2> QED
    BY <2>1, <2>2
<1>3. \A v \in Workers : \A e : InSpawn(v, e)' => InSpawn(v, e)
  <2>1. \A e : ~InSpawn(w, e)'
    BY <1>1 DEF InSpawn
  <2>2. \A v \in Workers \ {w} : \A e : InSpawn(v, e)' => InSpawn(v, e)
    BY DEF InSpawn, ThreadStep, Holds
  <2> QED
    BY <2>1, <2>2
<1>4. FirstError' # {} /\ UNCHANGED <<accepted, kind, ran>>
  BY FailureAppended DEF ThreadStep
<1> QED
  BY <1>2, <1>3, <1>4, PathsLost

(* push puts the path where no other is looked for. *)
LEMMA PathPushed ==
  ASSUME RunTypes, results \in Seq(Results), PathsInv, JobsInv, NEW w \in Workers,
         ThreadStep(w), pc[w] = "enqueue", Goto(w, "pop"),
         pending' = [pending EXCEPT ![w] = PushPath(@, job[w])],
         accepted' = accepted \cup {job[w]}, UNCHANGED <<results, ran>>
  PROVE  PathsInv'
<1> DEFINE new == job[w]
           p == pending[w]
           b == BatchFor(p, new)
<1>0. /\ new \in Entries /\ p \in Batches /\ new \notin accepted
      /\ kind' = kind /\ FirstError' = FirstError
  BY DEF RunTypes, AtEntry, JobsInv, Enqueuing, ToAccept, ThreadStep, FirstError
<1>1. b.paths \in Seq(Entries)
  BY <1>0, BatchTypes DEF Batch
<1>2. \A e : Holds(Append(b.paths, new), e) <=> Holds(b.paths, e) \/ e = new
  <2>1. /\ DOMAIN Append(b.paths, new) = 1..(Len(b.paths) + 1) /\ Len(b.paths) \in Nat
        /\ DOMAIN b.paths = 1..Len(b.paths)
        /\ Append(b.paths, new)[Len(b.paths) + 1] = new
        /\ \A i \in 1..Len(b.paths) : Append(b.paths, new)[i] = b.paths[i]
    BY <1>0, <1>1, AppendProperties, LenProperties
  <2> QED
    BY <2>1 DEF Holds
<1>3. \A k, e : InBatch(w, k, e)' <=> InBatch(w, k, e) \/ (k = KeyOf(new) /\ e = new)
  <2> DEFINE q == PushPath(p, new)
  <2>1. pending'[w] = q
    BY DEF RunTypes
  <2>2. /\ DOMAIN q = DOMAIN p \cup {KeyOf(new)}
        /\ q[KeyOf(new)].paths = Append(b.paths, new)
        /\ \A k \in DOMAIN p : k # KeyOf(new) => q[k] = p[k]
    BY DEF PushPath, Store
  <2>3. \A e : Holds(b.paths, e) <=> KeyOf(new) \in DOMAIN p /\ Holds(p[KeyOf(new)].paths, e)
    BY DEF BatchFor, NewBatch, Holds
  <2> HIDE DEF q, p, b
  <2>4. ASSUME NEW k, NEW e
        PROVE  (k \in DOMAIN q /\ Holds(q[k].paths, e)) <=>
                 ((k \in DOMAIN p /\ Holds(p[k].paths, e)) \/ (k = KeyOf(new) /\ e = new))
    <3>1. CASE k = KeyOf(new)
      BY <1>2, <2>2, <2>3, <3>1
    <3>2. CASE k # KeyOf(new)
      BY <2>2, <3>2
    <3> QED
      BY <3>1, <3>2
  <2> QED
    BY <2>1, <2>4 DEF InBatch, p
<1>4. \A v \in Workers \ {w} : \A k, e : InBatch(v, k, e)' <=> InBatch(v, k, e)
  BY DEF InBatch, ThreadStep, Holds
<1>5. \A v \in Workers : \A e : InSpawn(v, e)' <=> InSpawn(v, e)
  <2>1. \A e : ~InSpawn(w, e)' /\ ~InSpawn(w, e)
    BY DEF InSpawn, Goto, RunTypes
  <2>2. \A v \in Workers \ {w} : \A e : InSpawn(v, e)' <=> InSpawn(v, e)
    BY DEF InSpawn, ThreadStep, Holds
  <2> QED
    BY <2>1, <2>2
<1>6. ASSUME NEW e \in Entries, e # new PROVE PathOK(e)'
  <2>1. /\ \A v \in Workers : \A k : InBatch(v, k, e)' <=> InBatch(v, k, e)
        /\ \A v \in Workers : InSpawn(v, e)' <=> InSpawn(v, e)
    BY <1>3, <1>4, <1>5, <1>6
  <2>2. Somewhere(e)' <=> Somewhere(e)
    BY <2>1 DEF Somewhere
  <2>3. OnePlace(e)' <=> OnePlace(e)
    BY <2>1 DEF OnePlace
  <2>4. e \in accepted' <=> e \in accepted
    BY <1>6
  <2> QED
    BY <1>0, <2>2, <2>3, <2>4 DEF PathsInv, PathOK, Batched
<1>7. ASSUME NEW e \in Entries, e = new PROVE PathOK(e)'
  <2>1. ~Somewhere(e) /\ (Batched(e) => ran[e] = 0)
    BY <1>0, <1>7 DEF PathsInv, PathOK
  <2>2. /\ \A v \in Workers : \A k : InBatch(v, k, e)' => v = w /\ k = KeyOf(new)
        /\ \A v \in Workers : ~InSpawn(v, e)'
    BY <1>3, <1>4, <1>5, <2>1 DEF Somewhere
  <2>3. OnePlace(e)'
    BY <2>2 DEF OnePlace
  <2>4. Somewhere(e)'
    BY <1>3, <1>7 DEF Somewhere
  <2> QED
    BY <1>0, <1>7, <2>1, <2>3, <2>4 DEF PathOK, Batched
<1> QED
  BY <1>6, <1>7 DEF PathsInv

(* A batch is taken out to be run: its paths move together. *)
LEMMA PathsMove ==
  ASSUME RunTypes, results \in Seq(Results), PathsInv, NEW w \in Workers,
         ThreadStep(w), pc[w] # "spawn", pc'[w] = "spawn", command'[w].batched,
         NEW key,
         \A e : Holds(command'[w].paths, e) <=> InBatch(w, key, e),
         \A k, e : InBatch(w, k, e)' <=> InBatch(w, k, e) /\ k # key,
         UNCHANGED <<accepted, results, ran>>
  PROVE  PathsInv'
<1> SUFFICES ASSUME NEW e \in Entries PROVE PathOK(e)'
  BY DEF PathsInv
<1>1. PathOK(e)
  BY DEF PathsInv
<1>2. InSpawn(w, e)' <=> InBatch(w, key, e)
  BY DEF InSpawn
<1>3. /\ \A v \in Workers \ {w} : \A k : InBatch(v, k, e)' <=> InBatch(v, k, e)
      /\ \A v \in Workers \ {w} : InSpawn(v, e)' <=> InSpawn(v, e)
      /\ \A k : InBatch(w, k, e)' <=> InBatch(w, k, e) /\ k # key
      /\ ~InSpawn(w, e)
  BY ZenonT(120) DEF InBatch, InSpawn, ThreadStep, Holds
<1>4. Somewhere(e)' <=> Somewhere(e)
  <2>1. ASSUME Somewhere(e)' PROVE Somewhere(e)
    BY <1>2, <1>3, <2>1 DEF Somewhere
  <2>2. ASSUME Somewhere(e) PROVE Somewhere(e)'
    <3>1. CASE \E v \in Workers : InSpawn(v, e)
      BY <1>3, <3>1 DEF Somewhere
    <3>2. CASE \E v \in Workers : \E k : InBatch(v, k, e)
      <4> PICK v \in Workers : \E k : InBatch(v, k, e)
        BY <3>2
      <4> PICK k : InBatch(v, k, e)
        OBVIOUS
      <4>1. CASE v = w /\ k = key
        BY <1>2, <4>1 DEF Somewhere
      <4>2. CASE v # w \/ k # key
        BY <1>3, <4>2 DEF Somewhere
      <4> QED
        BY <4>1, <4>2
    <3> QED
      BY <2>2, <3>1, <3>2 DEF Somewhere
  <2> QED
    BY <2>1, <2>2
<1>5. OnePlace(e)'
  <2>1. \A v, u \in Workers : \A k, l :
          InBatch(v, k, e)' /\ InBatch(u, l, e)' => v = u /\ k = l
    BY <1>1, <1>3 DEF PathOK, OnePlace
  <2>2. \A v, u \in Workers : InSpawn(v, e)' /\ InSpawn(u, e)' => v = u
    BY <1>1, <1>2, <1>3 DEF PathOK, OnePlace
  <2>3. \A v, u \in Workers : \A k : ~(InBatch(v, k, e)' /\ InSpawn(u, e)')
    BY <1>1, <1>2, <1>3 DEF PathOK, OnePlace
  <2> QED
    BY <2>1, <2>2, <2>3 DEF OnePlace
<1>6. kind' = kind /\ FirstError' = FirstError
  BY DEF ThreadStep, FirstError
<1> QED
  BY <1>1, <1>4, <1>5, <1>6 DEF PathOK, Batched

(* The child is run: for its paths the waiting is over. *)
LEMMA PathsRun ==
  ASSUME RunTypes, results \in Seq(Results), PathsInv, NEW w \in Workers,
         ThreadStep(w), pc[w] = "spawn", pc'[w] # "spawn", accepted' = accepted,
         \A e \in Entries : Batched(e) =>
           ran'[e] = IF InSpawn(w, e) THEN ran[e] + 1 ELSE ran[e],
         pending' = pending \/ (pending'[w] = << >> /\ FirstError' # {})
  PROVE  PathsInv'
<1> SUFFICES ASSUME NEW e \in Entries PROVE PathOK(e)'
  BY DEF PathsInv
<1>1. PathOK(e)
  BY DEF PathsInv
<1>2. /\ \A v \in Workers \ {w} : \A k : InBatch(v, k, e)' <=> InBatch(v, k, e)
      /\ \A v \in Workers \ {w} : InSpawn(v, e)' <=> InSpawn(v, e)
      /\ \A k : InBatch(w, k, e)' => InBatch(w, k, e)
      /\ FirstError' # {} \/ (\A k : InBatch(w, k, e) => InBatch(w, k, e)')
      /\ ~InSpawn(w, e)'
  <2>1. \A v \in Workers \ {w} : \A k : InBatch(v, k, e)' <=> InBatch(v, k, e)
    BY DEF InBatch, ThreadStep, Holds
  <2>2. \A v \in Workers \ {w} : InSpawn(v, e)' <=> InSpawn(v, e)
    BY DEF InSpawn, ThreadStep, Holds
  <2>3. CASE pending' = pending
    BY <2>1, <2>2, <2>3 DEF InBatch, InSpawn, Holds
  <2>4. CASE pending'[w] = << >> /\ FirstError' # {}
    BY <2>1, <2>2, <2>4 DEF InBatch, InSpawn
  <2> QED
    BY <2>3, <2>4
<1>3. OnePlace(e)'
  BY <1>1, <1>2 DEF PathOK, OnePlace
<1>4. kind' = kind /\ (FirstError # {} => FirstError' # {})
  BY ErrorsStay DEF ThreadStep
<1>5. Somewhere(e)' => Somewhere(e)
  BY <1>2 DEF Somewhere
<1>6. CASE InSpawn(w, e)
  <2>1. Somewhere(e)
    BY <1>6 DEF Somewhere
  <2>2. ~Somewhere(e)'
    BY <1>1, <1>2, <1>6 DEF PathOK, OnePlace, Somewhere
  <2>3. Batched(e) => ran[e] = 0 /\ ran'[e] = 1
    BY <1>1, <1>6, <2>1 DEF PathOK
  <2> QED
    BY <1>1, <1>3, <1>4, <2>1, <2>2, <2>3 DEF PathOK, Batched
<1>7. CASE ~InSpawn(w, e)
  <2>1. Somewhere(e) => Somewhere(e)' \/ FirstError' # {}
    BY <1>2, <1>7 DEF Somewhere
  <2>2. Batched(e) => ran'[e] = ran[e]
    BY <1>7
  <2> QED
    BY <1>1, <1>3, <1>4, <1>5, <2>1, <2>2 DEF PathOK, Batched
<1> QED
  BY <1>6, <1>7

LEMMA PathsStep ==
  ASSUME RunTypes, results \in Seq(Results), DOMAIN outbox = Workers,
         JobsInv, PathsInv, [Next]_vars
  PROVE  PathsInv'
<1>0. /\ pc \in [Workers -> Places] /\ DOMAIN command = Workers /\ DOMAIN pending = Workers
      /\ Threads \subseteq Workers /\ ran \in [Entries -> Nat] /\ DOMAIN job = Workers
      /\ \A w \in Threads : Worker(w) \/ Panic(w) => ThreadStep(w)
  BY ThreadsAreWorkers, ThreadSteps DEF RunTypes, TypeOK
<1>1. ASSUME NEW w \in Threads, Drop(w) PROVE PathsInv'
  BY <1>0, <1>1, NoPath DEF Drop, Worker, world
<1>2. ASSUME NEW w \in Threads, Take(w) PROVE PathsInv'
  <2> PICK e \in todo :
        Order(w, IF kind[e] = "exec" THEN [NoCommand EXCEPT !.paths = <<e>>]
                 ELSE NoCommand)
    BY <1>2 DEF Take
  <2>1. ~command'[w].batched
    BY <1>0 DEF Order, NoCommand
  <2> QED
    BY <1>0, <1>2, <2>1, NoPath DEF Take, Worker
<1>3. ASSUME NEW w \in Threads, RenderFails(w) PROVE PathsInv'
  BY <1>0, <1>3, PathFails DEF RenderFails, Worker, world
<1>4. ASSUME NEW w \in Threads, Panic(w) PROVE PathsInv'
  BY <1>0, <1>4, NoPath DEF Panic, Goto, world
<1>5. ASSUME NEW w \in Threads, Quit(w) PROVE PathsInv'
  BY <1>0, <1>5, NoPath DEF Quit, Goto, Worker, world
<1>6. ASSUME NEW w \in Threads, Delete(w) PROVE PathsInv'
  BY <1>0, <1>6, NoPath DEF Delete, Goto, Worker
<1>7. ASSUME NEW w \in Threads, Send(w) PROVE PathsInv'
  <2>1. CASE UNCHANGED <<pc, pending>>
    BY <1>0, <1>7, <2>1, NoPath DEF Send, Worker
  <2>2. CASE \E why \in {"task", "write"} : TaskFails(w, why)
    BY <1>0, <1>7, <2>2, PathFails DEF Send, Worker
  <2> QED
    BY <1>7, <2>1, <2>2 DEF Send
<1>8. ASSUME NEW w \in Threads, Said(w) PROVE PathsInv'
  <2>1. command[w].then # "spawn"
    BY <1>0 DEF RunTypes, Command
  <2> QED
    BY <1>0, <1>8, <2>1, NoPath DEF Said, Goto, Worker, world
<1>9. ASSUME NEW w \in Threads, WriteFirst(w) \/ WriteRest(w) PROVE PathsInv'
  <2>1. ThreadStep(w) /\ UNCHANGED <<accepted, ran>> /\ pc[w] # "spawn"
    BY <1>0, <1>9 DEF Worker, WriteFirst, WriteRest
  <2>2. CASE pc'[w] \in {"writeFile", "pop"} /\ UNCHANGED pending
    BY <1>0, <2>1, <2>2, NoPath
  <2>3. CASE TaskFails(w, "task")
    BY <1>0, <2>1, <2>3, PathFails
  <2> QED
    BY <1>0, <1>9, <2>2, <2>3 DEF WriteFirst, WriteRest, Goto
<1>10. ASSUME NEW w \in Threads, Ask(w) PROVE PathsInv'
  BY <1>0, <1>10, NoPath DEF Ask, Goto, Worker
<1>11. ASSUME NEW w \in Threads, Reply(w) PROVE PathsInv'
  BY <1>0, <1>11, NoPath DEF Reply, Goto, Worker
<1>12. ASSUME NEW w \in Threads, Confirmed(w) PROVE PathsInv'
  <2>1. kind[job[w]] = "ok"
    BY <1>0, <1>12 DEF Confirmed, JobsInv, JobOK
  <2>2. \A e \in Entries : Batched(e) => ran'[e] = ran[e]
    BY <1>0, <1>12, <2>1 DEF Confirmed, Batched
  <2> QED
    BY <1>0, <1>12, <2>2, NoPath DEF Confirmed, Goto, Worker
<1>13. ASSUME NEW w \in Threads, FlushFull(w) PROVE PathsInv'
  <2> DEFINE key == KeyOf(job[w])
             p == pending[w]
             b == BatchFor(p, job[w])
  <2>1. /\ ThreadStep(w) /\ pc[w] # "spawn" /\ pc'[w] = "spawn"
        /\ UNCHANGED <<accepted, results, ran>>
    BY <1>0, <1>13 DEF FlushFull, Goto, Worker, world
  <2>2. command'[w].batched /\ command'[w].paths = b.paths
    BY <1>0, <1>13 DEF FlushFull, Order
  <2>3. \A e : Holds(b.paths, e) <=> key \in DOMAIN p /\ Holds(p[key].paths, e)
    BY DEF BatchFor, NewBatch, Holds
  <2>4. pending'[w] = Store(p, job[w], Taken(b))
    BY <1>0, <1>13 DEF FlushFull
  <2>5. \A k, e : InBatch(w, k, e)' <=> InBatch(w, k, e) /\ k # key
    <3> DEFINE q == Store(p, job[w], Taken(b))
    <3>1. /\ DOMAIN q = DOMAIN p \cup {key} /\ \A e : ~Holds(q[key].paths, e)
          /\ \A k \in DOMAIN p : k # key => q[k] = p[k]
      BY DEF Store, Taken, NewBatch, Holds
    <3> HIDE DEF q, p, key, b
    <3>2. \A k, e : (k \in DOMAIN q /\ Holds(q[k].paths, e)) <=>
                       (k \in DOMAIN p /\ Holds(p[k].paths, e)) /\ k # key
      BY <3>1
    <3> QED
      BY <2>4, <3>2 DEF InBatch, q, p
  <2>6. \A e : Holds(command'[w].paths, e) <=> InBatch(w, key, e)
    BY <2>2, <2>3 DEF InBatch
  <2> HIDE DEF key
  <2> QED
    BY <1>0, <2>1, <2>2, <2>5, <2>6, PathsMove
<1>14. ASSUME NEW w \in Threads, Enqueue(w) PROVE PathsInv'
  <2>1. ThreadStep(w) /\ pc[w] = "enqueue" /\ ran' = ran
    BY <1>0, <1>14 DEF Worker, Enqueue
  <2>2. CASE /\ pending' = [pending EXCEPT ![w] = PushPath(@, job[w])]
             /\ accepted' = accepted \cup {job[w]} /\ Goto(w, "pop")
             /\ UNCHANGED results
    BY <1>0, <2>1, <2>2, PathPushed
  <2>3. CASE TaskFails(w, "task") /\ UNCHANGED accepted
    BY <1>0, <2>1, <2>3, PathFails
  <2>4. CASE Goto(w, "send") /\ UNCHANGED <<accepted, pending>>
    BY <1>0, <2>1, <2>4, NoPath DEF Goto
  <2> QED
    BY <1>14, <2>2, <2>3, <2>4 DEF Enqueue
<1>15. ASSUME NEW w \in Threads, FlushNext(w) PROVE PathsInv'
  <2> DEFINE key == FirstKey(Unflushed(pending[w]))
  <2>0. key \in DOMAIN pending[w]
    <3>1. pending[w] \in Batches
      BY <1>0 DEF RunTypes
    <3>2. Unflushed(pending[w]) \in SUBSET (Nat \X Nat)
      BY <3>1 DEF Batches, Unflushed
    <3>3. key \in Unflushed(pending[w])
      BY <1>15, <3>2, FirstKeyIsAKey DEF FlushNext
    <3> QED
      BY <3>3 DEF Unflushed
  <2>1. /\ ThreadStep(w) /\ pc[w] # "spawn" /\ pc'[w] = "spawn"
        /\ UNCHANGED <<accepted, results, ran>>
    BY <1>0, <1>15 DEF FlushNext, Goto, Worker, world
  <2>2. command'[w].batched /\ command'[w].paths = pending[w][key].paths
    BY <1>0, <1>15 DEF FlushNext, Order
  <2>3. pending'[w] = Without(pending[w], key)
    BY <1>0, <1>15 DEF FlushNext
  <2> HIDE DEF key
  <2>4. \A k, e : InBatch(w, k, e)' <=> InBatch(w, k, e) /\ k # key
    BY <2>3 DEF InBatch, Without, Holds
  <2>5. \A e : Holds(command'[w].paths, e) <=> InBatch(w, key, e)
    BY <2>0, <2>2 DEF InBatch
  <2> QED
    BY <1>0, <2>1, <2>2, <2>4, <2>5, PathsMove
<1>16. ASSUME NEW w \in Threads, Spawn(w) PROVE PathsInv'
  <2>1. ThreadStep(w) /\ pc[w] = "spawn" /\ accepted' = accepted /\ w \in Workers
    BY <1>0, <1>16 DEF Worker, Spawn
  <2>2. pc'[w] # "spawn"
    BY <1>0, <1>16 DEF Spawn, TaskFails, Goto
  <2>3. pending' = pending \/ (pending'[w] = << >> /\ FirstError' # {})
    <3>1. CASE TaskFails(w, "task")
      BY <1>0, <3>1, FailureAppended DEF TaskFails
    <3> QED
      BY <1>16, <3>1 DEF Spawn
  <2>4. ASSUME NEW e \in Entries, Batched(e)
        PROVE  ran'[e] = IF InSpawn(w, e) THEN ran[e] + 1 ELSE ran[e]
    <3>1. ran'[e] = IF Holds(command[w].paths, e) THEN ran[e] + 1 ELSE ran[e]
      BY <1>16 DEF Spawn, Holds
    <3>2. Holds(command[w].paths, e) => command[w].batched
      <4>1. command[w].batched \in BOOLEAN
        BY <2>1 DEF RunTypes, Command
      <4> QED
        BY <2>1, <2>4, <4>1 DEF JobsInv, JobOK, Holds, Batched
    <3> QED
      BY <2>1, <3>1, <3>2 DEF InSpawn
  <2> QED
    BY <2>1, <2>2, <2>3, <2>4, PathsRun
<1>17. ASSUME NEW w \in Threads, Leave(w) PROVE PathsInv'
  BY <1>0, <1>17, NoPath DEF Leave, Goto, Worker, world
<1>18. ASSUME NEW w \in Threads, SendReport(w) PROVE PathsInv'
  BY <1>0, <1>18, NoPath DEF SendReport, Goto, Worker, world
<1>19. CASE Broker \/ Collect \/ Finish \/ UNCHANGED vars
  <2>1. UNCHANGED <<pc, pending, command, kind, accepted, ran, results>>
    BY <1>19 DEF Broker, Collect, Finish, vars, threads, ends, world
  <2> QED
    BY <2>1 DEF PathsInv, PathOK, OnePlace, Somewhere, InBatch, InSpawn, Batched, FirstError
<1> QED
  BY <1>1, <1>2, <1>3, <1>4, <1>5, <1>6, <1>7, <1>8, <1>9, <1>10, <1>11, <1>12,
     <1>13, <1>14, <1>15, <1>16, <1>17, <1>18, <1>19 DEF Next, Worker

(* There is at most one place where a path waits. *)
LEMMA WaitingPlaces ==
  ASSUME NEW e, OnePlace(e)
  PROVE  /\ ~Somewhere(e) => Cardinality(Waiting(e)) = 0
         /\ Somewhere(e) => Cardinality(Waiting(e)) = 1
<1> DEFINE at == Waiting(e)
<1>1. \A a \in at : \E w \in Workers :
        (\E k : InBatch(w, k, e) /\ a = <<w, k>>) \/ (InSpawn(w, e) /\ a = <<w, "spawn">>)
  <2> SUFFICES ASSUME NEW a \in at
               PROVE \E w \in Workers :
                       \/ \E k : InBatch(w, k, e) /\ a = <<w, k>>
                       \/ InSpawn(w, e) /\ a = <<w, "spawn">>
    OBVIOUS
  <2>1. CASE a \in {b \in UNION {{w} \X DOMAIN pending[w] : w \in Workers} :
                      LET paths == pending[b[1]][b[2]].paths
                      IN  \E i \in DOMAIN paths : paths[i] = e}
    <3>1. PICK w \in Workers : a \in {w} \X DOMAIN pending[w]
      BY <2>1
    <3>2. InBatch(w, a[2], e) /\ a = <<w, a[2]>>
      BY <2>1, <3>1 DEF InBatch, Holds
    <3> QED
      BY <3>2
  <2>2. CASE a \in {<<w, "spawn">> : w \in {v \in Workers :
                      /\ pc[v] = "spawn" /\ command[v].batched
                      /\ \E i \in DOMAIN command[v].paths : command[v].paths[i] = e}}
    BY <2>2 DEF InSpawn, Holds
  <2> QED
    BY <2>1, <2>2 DEF Waiting
<1>2. ASSUME NEW w \in Workers, NEW k, InBatch(w, k, e) PROVE <<w, k>> \in at
  <2>1. <<w, k>> \in UNION {{v} \X DOMAIN pending[v] : v \in Workers}
    BY <1>2 DEF InBatch
  <2> QED
    BY <1>2, <2>1 DEF InBatch, Holds, Waiting
<1>3. ASSUME NEW w \in Workers, InSpawn(w, e) PROVE <<w, "spawn">> \in at
  BY <1>3 DEF InSpawn, Holds, Waiting
<1> HIDE DEF at
<1>4. ~Somewhere(e) => at = {}
  BY <1>1 DEF Somewhere
<1>5. Somewhere(e) => \E a \in at : at = {a}
  <2>1. Somewhere(e) => at # {}
    BY <1>2, <1>3 DEF Somewhere
  <2>2. \A a, b \in at : a = b
    <3> SUFFICES ASSUME NEW a \in at, NEW b \in at PROVE a = b
      OBVIOUS
    <3>1. PICK w \in Workers :
            (\E k : InBatch(w, k, e) /\ a = <<w, k>>) \/ (InSpawn(w, e) /\ a = <<w, "spawn">>)
      BY <1>1
    <3>2. PICK v \in Workers :
            (\E k : InBatch(v, k, e) /\ b = <<v, k>>) \/ (InSpawn(v, e) /\ b = <<v, "spawn">>)
      BY <1>1
    <3> QED
      BY <3>1, <3>2 DEF OnePlace
  <2> QED
    BY <2>1, <2>2
<1>6. at = Waiting(e)
  BY DEF at
<1> QED
  BY <1>4, <1>5, <1>6, FS_EmptySet, FS_Singleton

PathsRunInv == OutcomeInv /\ JobsInv /\ PathsInv

LEMMA InitPaths == Init => PathsRunInv
<1> SUFFICES ASSUME Init PROVE PathsRunInv
  OBVIOUS
<1>1. OutcomeInv
  BY InitOutcome
<1>2. JobsInv
  BY DEF Init, JobsInv, JobOK, Enqueuing
<1>3. PathsInv
  <2>1. \A w \in Workers : pc[w] = "pop" /\ pending[w] = << >>
    BY DEF Init
  <2>2. \A w \in Workers : \A e : ~InSpawn(w, e) /\ \A k : ~InBatch(w, k, e)
    BY <2>1 DEF InBatch, InSpawn
  <2>3. \A e : ~Somewhere(e)
    BY <2>2 DEF Somewhere
  <2>4. \A e : OnePlace(e)
    BY <2>2 DEF OnePlace
  <2>5. /\ accepted = {} /\ kind \in Scenarios
        /\ \A e \in Entries : ran[e] = 0
    BY DEF Init
  <2> QED
    <3> SUFFICES ASSUME NEW e \in Entries PROVE PathOK(e)
      BY DEF PathsInv
    <3>1. ran[e] = 0 /\ ~Somewhere(e) /\ OnePlace(e) /\ e \notin accepted
      BY <2>3, <2>4, <2>5
    <3> QED
      BY <3>1 DEF PathOK
<1> QED
  BY <1>1, <1>2, <1>3 DEF PathsRunInv

LEMMA PathsRunStep == PathsRunInv /\ [Next]_vars => PathsRunInv'
<1> SUFFICES ASSUME PathsRunInv, [Next]_vars PROVE PathsRunInv'
  OBVIOUS
<1> USE DEF PathsRunInv
<1>1. OutcomeInv'
  BY OutcomeStep
<1>2. JobsInv'
  BY JobsStep DEF OutcomeInv, Tallied
<1>3. PathsInv'
  BY PathsStep DEF OutcomeInv, LocksInv, Tallied
<1> QED
  BY <1>1, <1>2, <1>3

LEMMA PathsHaveRun == PathsRunInv => AcceptedPathsRunOnce
<1> SUFFICES ASSUME PathsRunInv PROVE AcceptedPathsRunOnce
  OBVIOUS
<1>0. /\ accepted \subseteq Entries /\ kind \in Scenarios /\ DOMAIN kind \subseteq Entries
      /\ ran \in [Entries -> Nat]
  BY ActionRunAssumption DEF PathsRunInv, OutcomeInv, RunTypes, TypeOK
<1>1. ASSUME NEW e \in accepted
      PROVE  /\ ran[e] + Cardinality(Waiting(e)) <= 1
             /\ ran[e] + Cardinality(Waiting(e)) = 1 \/ FirstError # {}
  <2>1. PathOK(e) /\ Batched(e)
    BY <1>0 DEF PathsRunInv, PathsInv, JobsInv, Batched
  <2> QED
    BY <2>1, WaitingPlaces DEF PathOK
<1>2. ASSUME NEW e \in accepted, Succeeded
      PROVE  ran[e] = 1
  <2>1. FirstError = {}
    <3> SUFFICES ASSUME FirstError # {} PROVE FALSE
      OBVIOUS
    <3>1. run.outcome = RunOutcome
      BY <1>2 DEF PathsRunInv, OutcomeInv, Tallied, Succeeded
    <3> DEFINE first == CHOOSE i \in FirstError : \A j \in FirstError : i <= j
    <3>2. FirstError \in SUBSET Nat
      BY LenProperties DEF FirstError, PathsRunInv, OutcomeInv, LocksInv
    <3>3. \E i \in FirstError : \A j \in FirstError : i <= j
      BY <3>2, LeastNumber
    <3>4. first \in FirstError
      BY <3>3
    <3>5. run.outcome = Failure("write") \/ run.outcome = results[first]
      BY <3>1 DEF RunOutcome
    <3> QED
      BY <1>2, <3>4, <3>5 DEF FirstError, Failure, Succeeded
  <2>2. ~Somewhere(e)
    <3>1. \A w \in Threads : pc[w] = "end"
      BY <1>2, AllEnded DEF PathsRunInv, OutcomeInv, Succeeded, Ended
    <3>2. \A w \in Workers : ~InSpawn(w, e)
      BY <3>1 DEF InSpawn, PathsRunInv, OutcomeInv, Tallied
    <3>3. ASSUME NEW w \in Workers, NEW k PROVE ~InBatch(w, k, e)
      <4>1. CASE w \in Threads
        <5>1. Unflushed(pending[w]) = {}
          BY <3>1, <4>1 DEF PathsRunInv, JobsInv, JobOK
        <5>2. k \in DOMAIN pending[w] => pending[w][k].paths = <<>>
          BY <5>1 DEF Unflushed
        <5> QED
          BY <5>2 DEF InBatch, Holds
      <4>2. CASE w \notin Threads
        BY <4>2 DEF InBatch, PathsRunInv, OutcomeInv, Tallied
      <4> QED
        BY <4>1, <4>2
    <3> QED
      BY <3>2, <3>3 DEF Somewhere
  <2>3. PathOK(e) /\ Batched(e)
    BY <1>0 DEF PathsRunInv, PathsInv, JobsInv, Batched
  <2> QED
    BY <2>1, <2>2, <2>3 DEF PathOK
<1>3. ASSUME NEW e \in DOMAIN kind \ accepted, kind[e] = "batch"
      PROVE  ran[e] = 0
  BY <1>0, <1>3 DEF PathsRunInv, PathsInv, PathOK, Batched
<1> QED
  BY <1>1, <1>2, <1>3 DEF AcceptedPathsRunOnce

(* A path accepted into a batch is never lost or given to two children,    *)
(* and a run that ends without an error has run them all: the promise of   *)
(* parallel/worker.rs and exec/batch.rs about -exec ... + and -quit.       *)
THEOREM AcceptedPathsRun == Spec => []AcceptedPathsRunOnce
BY InitPaths, PathsRunStep, PathsHaveRun, PTL DEF Spec
=============================================================================
