-------------------------- MODULE EntryEvaluation --------------------------
(***************************************************************************)
(* A command line from its text to the actions performed for one entry:    *)
(* parse, plan, the -prune pre-pass, and the resumable evaluation of       *)
(* runtime_pipeline.rs, which stops at each action with a continuation and *)
(* goes on with the action's outcome. A continuation is the stack of its   *)
(* frames, the innermost first.                                            *)
(***************************************************************************)
EXTENDS CommandText

CONSTANTS Inputs,   \* the command lines considered
          Workers   \* the worker count the program was given

VARIABLES argv, phase, plan,
          verdicts,   \* what each test says of the entry
          isDir,      \* whether the entry is a directory
          control,    \* the pre-pass's verdict
          step,       \* the EvalStep reached
          answers     \* what the actions performed so far returned

vars == <<argv, phase, plan, verdicts, isDir, control, step, answers>>

-----------------------------------------------------------------------------
(* RuntimeStatus and EvalOutcome. *)
NoStatus == [failed |-> FALSE, stop |-> FALSE]
Merge(a, b) == [failed |-> a.failed \/ b.failed, stop |-> a.stop \/ b.stop]
Outcome(matched, status) == [matched |-> matched, status |-> status]

(* evaluate_predicate, of which only the result matters here. *)
TestResult(e, v) ==
  CASE e.word \in {"-prune", "-true"} -> "true"
    [] e.word = "-false" -> "false"
    [] OTHER -> v[e.at]

Complete(outcome) == [at |-> "complete", outcome |-> outcome]
Aborted == [at |-> "error"]

RECURSIVE StepExpr(_, _, _), Finish(_, _, _)

(* step_expr: descend to the next test or action, pushing what comes after. *)
StepExpr(e, frames, v) ==
  CASE e.op = "pred" ->
         IF TestResult(e, v) = "error" THEN Aborted
         ELSE Finish(Outcome(TestResult(e, v) = "true", NoStatus), frames, v)
    [] e.op = "action" -> [at |-> "action", action |-> e, frames |-> frames]
    [] e.op = "and" /\ e.items # <<>> ->
         StepExpr(Head(e.items),
                  <<[k |-> "and", items |-> e.items, next |-> 2,
                     status |-> NoStatus]>> \o frames, v)
    [] e.op = "or" ->
         StepExpr(e.left, <<[k |-> "orLeft", right |-> e.right]>> \o frames, v)
    [] e.op = "not" -> StepExpr(e.of, <<[k |-> "not"]>> \o frames, v)
    [] OTHER -> Finish(Outcome(TRUE, NoStatus), frames, v)

(* Mutant: the status of a failed left-hand side of -o is forgotten. *)
RightStatusOnly(frame, outcome) == outcome

(* AfterOrRight. *)
AfterOrRight(frame, outcome) ==
  Outcome(outcome.matched, Merge(frame.status, outcome.status))

(* finish_with_outcome. *)
Finish(outcome, frames, v) ==
  IF frames = <<>> THEN Complete(outcome)
  ELSE
    LET frame == Head(frames)
        parent == Tail(frames)
    IN  CASE frame.k = "and" ->
               LET status == Merge(frame.status, outcome.status)
               IN  IF \/ ~outcome.matched \/ status.stop
                      \/ frame.next > Len(frame.items)
                   THEN Finish(Outcome(outcome.matched, status), parent, v)
                   ELSE StepExpr(frame.items[frame.next],
                                 <<[frame EXCEPT !.next = @ + 1,
                                                 !.status = status]>> \o parent, v)
          [] frame.k = "orLeft" ->
               IF outcome.matched \/ outcome.status.stop
               THEN Finish(outcome, parent, v)
               ELSE StepExpr(frame.right,
                             <<[k |-> "orRight", status |-> outcome.status]>>
                               \o parent, v)
          [] frame.k = "orRight" -> Finish(AfterOrRight(frame, outcome), parent, v)
          [] frame.k = "not" ->
               Finish([outcome EXCEPT !.matched = ~@], parent, v)

-----------------------------------------------------------------------------
(* TraversalControl. *)
Verdict(matched, prune) == [matched |-> matched, prune |-> prune, error |-> FALSE]

RECURSIVE PrePass(_, _, _)

(* Mutant: an unmet test hides the prune that was met before it. *)
PruneOnlyIfAllMatch(items, v, dir) ==
  LET Each(acc, e) ==
        IF acc.error \/ ~acc.matched THEN acc
        ELSE LET next == PrePass(e, v, dir)
             IN  [next EXCEPT !.prune = next.matched /\ (acc.prune \/ @)]
  IN  FoldLeft(Each, Verdict(TRUE, FALSE), items)

PrePassAnd(items, v, dir) ==
  LET Each(acc, e) ==
        IF acc.error \/ ~acc.matched THEN acc
        ELSE LET next == PrePass(e, v, dir)
             IN  [next EXCEPT !.prune = acc.prune \/ @]
  IN  FoldLeft(Each, Verdict(TRUE, FALSE), items)

(* evaluate_for_traversal_with_context, in pre-order. *)
PrePass(e, v, dir) ==
  CASE e.op = "and" -> PrePassAnd(e.items, v, dir)
    [] e.op = "or" ->
         LET left == PrePass(e.left, v, dir)
             right == PrePass(e.right, v, dir)
         IN  IF left.error \/ left.matched THEN left
             ELSE [right EXCEPT !.prune = left.prune \/ @]
    [] e.op = "not" -> LET inner == PrePass(e.of, v, dir)
                       IN  [inner EXCEPT !.matched = ~@]
    [] e.op = "pred" -> IF e.word = "-prune" THEN Verdict(TRUE, dir)
                        ELSE [Verdict(TestResult(e, v) = "true", FALSE) EXCEPT
                                !.error = TestResult(e, v) = "error"]
    [] OTHER -> Verdict(TRUE, FALSE)

-----------------------------------------------------------------------------
(* What an action may return: -print and its kin are true, an -exec is its *)
(* child's verdict, a batched one is true but records that a batch which   *)
(* this path filled has failed or that the path is too long, an -ok may be *)
(* declined or fail, a deletion fails as a false that is recorded, -quit   *)
(* asks to stop.                                                           *)
Answer(m, f, s) == [matched |-> m, failed |-> f, stop |-> s]
Yes == Answer(TRUE, FALSE, FALSE)
No == Answer(FALSE, FALSE, FALSE)
FailedAnswer == Answer(FALSE, TRUE, FALSE)

AnswersOf(action) ==
  CASE action.word = "-quit" -> {Answer(TRUE, FALSE, TRUE)}
    [] action.word = "-delete" -> {Yes, FailedAnswer}
    [] action.batched -> {Yes, Answer(TRUE, TRUE, FALSE)}
    [] action.word \in {"-exec", "-execdir"} /\ ~action.batched -> {Yes, No}
    [] action.word \in {"-ok", "-okdir"} -> {Yes, No, FailedAnswer}
    [] OTHER -> {Yes}

NoPlan == [ok |-> FALSE]
NoControl == Verdict(TRUE, FALSE)
NoStep == [at |-> "none"]

Init ==
  /\ argv \in Inputs
  /\ phase = "argv" /\ plan = NoPlan /\ verdicts = <<>> /\ isDir = FALSE
  /\ control = NoControl /\ step = NoStep /\ answers = <<>>

(* cli.rs: parse, then plan; either may refuse the command line. *)
Plan ==
  /\ phase = "argv"
  /\ LET command == ParseCommand(argv)
     IN  plan' = IF command.ok THEN PlanCommand(command, argv, Workers)
                 ELSE NoPlan
  /\ phase' = IF plan'.ok THEN "planned" ELSE "refused"
  /\ UNCHANGED <<argv, verdicts, isDir, control, step, answers>>

(* The tests of the plan an entry has a say in. *)
Tests(e) ==
  {leaf.at : leaf \in {x \in ToSet(Leaves(e)) :
     x.op = "pred" /\ x.word \notin {"-prune", "-true", "-false"}}}

(* begin_entry_eval, after the walker's look at the traversal control.     *)
Begin ==
  /\ phase = "planned"
  /\ \E v \in [Tests(plan.expr) -> {"true", "false", "error"}],
        dir \in BOOLEAN :
       /\ verdicts' = v /\ isDir' = dir
       /\ control' = IF plan.control.op = "none" THEN NoControl
                     ELSE PrePass(plan.control, v, dir)
       /\ step' = StepExpr(plan.expr, <<>>, v)
  /\ phase' = "evaluating"
  /\ UNCHANGED <<argv, plan, answers>>

(* resume_entry_eval with the outcome of the pending action. *)
Resume ==
  /\ phase = "evaluating" /\ step.at = "action"
  /\ \E a \in AnswersOf(step.action) :
       /\ answers' = Append(answers, a)
       /\ step' = Finish(Outcome(a.matched,
                                 [failed |-> a.failed, stop |-> a.stop]),
                         step.frames, verdicts)
  /\ UNCHANGED <<argv, phase, plan, verdicts, isDir, control>>

Next == Plan \/ Begin \/ Resume

Spec == Init /\ [][Next]_vars

-----------------------------------------------------------------------------
(* The text of the command: what follows the options and start paths. *)
Text == Items(argv, ParseCommand(argv).start)

(* The tests stand in the plan in the order in which the text has them. *)
NothingMoved ==
  LET at == [i \in DOMAIN Leaves(plan.expr) |->
               IF Leaves(plan.expr)[i].op = "barrier" THEN -1
               ELSE Leaves(plan.expr)[i].at]
      named == SelectSeq(at, LAMBDA k : k > 0)
  IN  \A i, j \in DOMAIN named : i < j => named[i] < named[j]

Sound == NothingMoved \/ \A k \in DOMAIN verdicts : verdicts[k] # "error"

(* The recursive descent of parser.rs accepts exactly the command lines    *)
(* whose text falls apart into predicates at its operators: every operator *)
(* has its operands, every parenthesis its partner, and an operand that    *)
(* looks like an operator is not taken for one.                            *)
AcceptsWellFormedText ==
  phase \in {"planned", "refused"} =>
    LET start == FirstFrom(argv,
                   FirstFrom(argv, 1, LAMBDA t : t \notin GlobalOptions),
                   ExpressionStart)
        items == Items(argv, start)
    IN  ParseCommand(argv).ok <=> (start > Len(argv) \/ WellFormed(items))

(* The evaluation stands where a run of the text does. *)
StandsAt(r) ==
  CASE step.at = "action" -> r.pending = step.action.at /\ ~r.error
    [] step.at = "complete" ->
         /\ r.pending = -1 /\ ~r.error
         /\ step.outcome.status = [failed |-> r.failed, stop |-> r.stop]
         /\ r.stop \/ step.outcome.matched = r.value
    [] OTHER -> r.error

(* However tests are sorted and evaluations suspended (optimizer.rs:65,    *)
(* runtime_pipeline.rs:152), after any answers of its actions an entry's   *)
(* evaluation is where the text puts it: the same action is due, or it is  *)
(* over with the same value, failures and stop. An error of a test may     *)
(* come earlier or later if the optimizer moved tests.                     *)
EvaluatesTheText ==
  phase = "evaluating" /\ Sound => StandsAt(RunCommand(Text, verdicts, answers))

(* A directory is pruned exactly when the text reaches a -prune, taking    *)
(* every action for true (traversal_control.rs:92) and the walk for one in *)
(* pre-order; sorting tests never carries one over a -prune.               *)
PrunesWhatTheTextReaches ==
  phase = "evaluating" /\ Sound /\ ~control.error =>
    LET always == [i \in DOMAIN argv |-> Yes]
    IN  control.prune <=> /\ plan.order = "pre" /\ isDir
                          /\ RunCommand(Text, verdicts, always).pruned

(* The value of the last of the items that carry one of the words. *)
LastOperand(items, words, none) ==
  LET at == {i \in DOMAIN items : items[i].word \in words}
  IN  IF at = {} THEN none ELSE items[Max(at)].args[1]

(* What the options among a text's items mean for the plan's leaves. *)
OptionsHold(items, leaves) ==
  LET Upto(at) == SelectSeq(items, LAMBDA x : x.at < at)
      Operand(leaf) == argv[leaf.at + 1]
      Has(seq, words) == \E i \in DOMAIN seq : seq[i].word \in words
  IN  /\ \A t \in leaves : t.op = "pred" =>
           /\ t.word \in TimeTests =>
                (t.baseline = "daystart" <=> Has(Upto(t.at), {"-daystart"}))
           /\ t.word \in RegexTests =>
                t.dialect = LastOperand(Upto(t.at), {"-regextype"}, "emacs")
      /\ \A a, b \in {x \in leaves : x.op = "action"} :
           /\ a.word \in FileActions /\ b.word \in FileActions =>
                (a.output = b.output <=> Operand(a) = Operand(b))
           /\ a.word \in FileActions =>
                plan.state.fileOutputs[a.output + 1] = Operand(a)
           /\ a.batched /\ b.batched /\ a # b => a.id # b.id
      /\ plan.order = "post" <=> Has(items, {"-depth", "-delete"})
      /\ plan.state.maxDepth = LastOperand(items, {"-maxdepth"}, "none")

(* An option speaks for what the text has after it, and a global one for   *)
(* the whole run, wherever parentheses, -o and the optimizer have put the  *)
(* tests (planner.rs:484): -daystart and -regextype reach the tests behind *)
(* them, file actions share an output exactly when they name one path,     *)
(* each batch has an id of its own, and depth order is kept for -delete.   *)
OptionsFollowTheText ==
  phase \in {"planned", "evaluating"} =>
    OptionsHold(SelectSeq(Text, LAMBDA x : x.op = "leaf"),
                ToSet(Leaves(plan.expr)) \ {Barrier})
=============================================================================
