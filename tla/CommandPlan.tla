---------------------------- MODULE CommandPlan ----------------------------
(***************************************************************************)
(* planner.rs, optimizer.rs and runtime_policy.rs: an expression is        *)
(* lowered from left to right while a planning state collects what its     *)
(* options say, read-only tests of a conjunction are sorted by cost, and   *)
(* the plan fixes the order of the walk, the engine and the expression the *)
(* -prune pre-pass looks at. A lowered test or action keeps the position   *)
(* at which the text has it.                                               *)
(***************************************************************************)
EXTENDS CommandLine

CONSTANTS Support,      \* feature -> "exact", "approximate" or "unsupported"
          NativeOutput, \* uses_windows_native_output_contract
          BadOperands,  \* operands that a pattern or user lookup rejects
          Embedded      \* words that hold {} among other characters

TimeTests == {"-atime", "-ctime", "-mtime", "-amin", "-cmin", "-mmin"}
RegexTests == {"-regex", "-iregex"}
Actions ==
  {"-print", "-print0", "-printf", "-fprint", "-fprint0", "-fprintf", "-ls",
   "-fls", "-quit", "-exec", "-execdir", "-ok", "-okdir", "-delete"}
FileActions == {"-fprint", "-fprint0", "-fprintf", "-fls"}

(* PlanningState::new with TraversalOptions and RuntimeRequirements; an    *)
(* error keeps nothing but ok = FALSE.                                     *)
InitialState ==
  [ok |-> TRUE, minDepth |-> 0, maxDepth |-> "none", sameFileSystem |-> FALSE,
   order |-> "pre", daystart |-> FALSE, dialect |-> "emacs",
   sawAction |-> FALSE, sawDelete |-> FALSE, nextBatch |-> 0,
   fileOutputs |-> <<>>, mountSnapshot |-> FALSE, safePath |-> FALSE,
   messages |-> FALSE, warnings |-> 0]

(* validate_platform_printf_program and the mount table that %F needs; a   *)
(* format is one directive here. The output of Windows has owners by their *)
(* SIDs (%US, %GS) and no device or block count (%D, %b, %k), any other    *)
(* the reverse.                                                            *)
PrintfFeature(leaf) ==
  LET Has(directives) == ToSet(leaf.args) \cap directives # {}
  IN  CASE Has({"%F"}) -> "FsType"
        [] Has({"%U", "%G"}) -> "NumericOwnership"
        [] Has({"%m", "%M"}) -> "ModeBits"
        [] Has({"%US", "%GS"}) /\ ~NativeOutput -> "nowhere"
        [] Has({"%D", "%b", "%k"}) /\ NativeOutput -> "nowhere"
        [] OTHER -> "none"

(* What the platform must provide for a predicate or action; "nowhere" is  *)
(* what it never does. A Windows listing shows no mode bits.               *)
Feature(leaf) ==
  CASE leaf.word \in {"-xdev", "-mount"} -> "SameFileSystem"
    [] leaf.word \in {"-readable", "-writable", "-executable"} ->
         "AccessPredicates"
    [] leaf.word \in {"-iname", "-ipath", "-iwholename", "-ilname"} ->
         "CaseInsensitiveGlob"
    [] leaf.word = "-fstype" -> "FsType"
    [] leaf.word \in {"-uid", "-gid"} -> "NumericOwnership"
    [] leaf.word \in {"-user", "-group", "-nouser", "-nogroup"} ->
         "NamedOwnership"
    [] leaf.word = "-perm" -> "ModeBits"
    [] leaf.word \in {"-ls", "-fls"} -> IF NativeOutput THEN "none" ELSE "ModeBits"
    [] leaf.word = "-flags" -> "FileFlags"
    [] leaf.word = "-reparse-type" -> "ReparseType"
    [] leaf.word = "-newerBm" -> "BirthTime"
    [] leaf.word \in {"-ok", "-okdir"} -> "MessagesLocale"
    [] leaf.word \in {"-printf", "-fprintf"} -> PrintfFeature(leaf)
    [] leaf.word \in {"-owner", "-owner-sid", "-group-sid"} ->
         "WindowsOwnership"
    [] OTHER -> "none"

(* require_windows_ownership_predicate: approximate support is none. *)
NativeOwnership(st) ==
  [st EXCEPT !.ok = Support["WindowsOwnership"] = "exact"]

(* require_platform_feature. *)
Require(leaf, st) ==
  LET level == CASE Feature(leaf) = "none" -> "exact"
                 [] Feature(leaf) = "nowhere" -> "unsupported"
                 [] OTHER -> Support[Feature(leaf)]
  IN  CASE Feature(leaf) = "WindowsOwnership" -> NativeOwnership(st)
        [] level = "exact" -> st
        [] level = "approximate" -> [st EXCEPT !.warnings = @ + 1]
        [] OTHER -> [st EXCEPT !.ok = FALSE]

Lowered(e, st) == [expr |-> e, st |-> st]
Barrier == [op |-> "barrier"]

(* An option changes the planning state and leaves a barrier behind.       *)
LowerOption(leaf, st) ==
  LET After ==
        CASE leaf.word = "-maxdepth" -> [st EXCEPT !.maxDepth = leaf.args[1]]
          [] leaf.word = "-mindepth" -> [st EXCEPT !.minDepth = leaf.args[1]]
          [] leaf.word = "-depth" -> [st EXCEPT !.order = "post"]
          [] leaf.word = "-daystart" -> [st EXCEPT !.daystart = TRUE]
          [] leaf.word = "-regextype" ->
               [st EXCEPT !.dialect = leaf.args[1],
                          !.ok = @ /\ leaf.args[1] \notin BadOperands]
          [] OTHER -> [st EXCEPT !.sameFileSystem = TRUE]
  IN  Lowered(Barrier, After)

(* A test is compiled under the state as it is at that point of the text.  *)
LowerTest(leaf, st) ==
  LET test == [op |-> "pred", word |-> leaf.word, at |-> leaf.at,
               baseline |-> IF leaf.word \notin TimeTests THEN "none"
                            ELSE IF st.daystart THEN "daystart" ELSE "now",
               dialect |-> IF leaf.word \in RegexTests THEN st.dialect
                           ELSE "none"]
  IN  Lowered(test, [st EXCEPT
        !.ok = @ /\ ToSet(leaf.args) \cap BadOperands = {},
        !.mountSnapshot = @ \/ leaf.word = "-fstype"])

(* compile_batched_exec: one {} alone, at the end, and no other anywhere.  *)
BatchedTemplate(args) ==
  /\ args # <<>> /\ Last(args) = "{}"
  /\ \A i \in 1 .. Len(args) - 1 : args[i] \notin {"{}"} \cup Embedded

(* Mutant: every file action gets an output of its own. *)
OutputPerAction(path, st) ==
  Lowered(Len(st.fileOutputs),
          [st EXCEPT !.fileOutputs = Append(@, path)])

(* register_file_output: actions that name the same path share its output. *)
RegisterFileOutput(path, st) ==
  IF path \in ToSet(st.fileOutputs)
  THEN Lowered((CHOOSE i \in DOMAIN st.fileOutputs :
                  st.fileOutputs[i] = path) - 1, st)
  ELSE Lowered(Len(st.fileOutputs),
               [st EXCEPT !.fileOutputs = Append(@, path)])

(* lower_action. The terminator of an exec is the token after its operands. *)
LowerAction(leaf, argv, st) ==
  LET isExec == leaf.word \in UntilTerminator
      batch == isExec /\ argv[leaf.at + Len(leaf.args) + 1] = "+"
      registered == IF leaf.word \in FileActions
                    THEN RegisterFileOutput(leaf.args[1], st)
                    ELSE Lowered(0, st)
      action == [op |-> "action", word |-> leaf.word, at |-> leaf.at,
                 output |-> registered.expr, batched |-> batch,
                 id |-> IF batch THEN st.nextBatch ELSE 0]
      valid == CASE batch -> /\ leaf.word \in {"-exec", "-execdir"}
                             /\ BatchedTemplate(leaf.args)
                 [] leaf.word \in {"-printf", "-fprintf"} ->
                      Last(leaf.args) \notin BadOperands
                 [] OTHER -> TRUE
  IN  Lowered(action, [registered.st EXCEPT
        !.ok = @ /\ valid,
        !.sawAction = TRUE,
        !.sawDelete = @ \/ leaf.word = "-delete",
        !.nextBatch = IF batch THEN @ + 1 ELSE @,
        !.safePath = @ \/ leaf.word \in {"-execdir", "-okdir"},
        !.messages = @ \/ leaf.word \in {"-ok", "-okdir"},
        !.mountSnapshot = @ \/ Feature(leaf) = "FsType"])

Options == {"-maxdepth", "-mindepth", "-depth", "-daystart", "-regextype",
            "-xdev", "-mount"}

LowerLeaf(leaf, argv, st) ==
  LET ready == Require(leaf, st)
  IN  CASE leaf.word \in Options -> LowerOption(leaf, ready)
        [] leaf.word \in Actions -> LowerAction(leaf, argv, ready)
        [] OTHER -> LowerTest(leaf, ready)

RECURSIVE Lower(_, _, _)

(* Mutant: the right-hand side of -o is lowered before the left. *)
LowerOrRightFirst(e, argv, st) ==
  LET right == Lower(e.right, argv, st)
      left == Lower(e.left, argv, right.st)
  IN  Lowered([op |-> "or", left |-> left.expr, right |-> right.expr], left.st)

LowerOr(e, argv, st) ==
  LET left == Lower(e.left, argv, st)
      right == Lower(e.right, argv, left.st)
  IN  Lowered([op |-> "or", left |-> left.expr, right |-> right.expr], right.st)

LowerAnd(e, argv, st) ==
  LET Each(done, item) ==
        LET r == Lower(item, argv, done.st)
        IN  Lowered(Append(done.expr, r.expr), r.st)
      all == FoldLeft(Each, Lowered(<<>>, st), e.items)
  IN  Lowered([op |-> "and", items |-> all.expr], all.st)

(* lower_expr; after an error nothing more is lowered. *)
Lower(e, argv, st) ==
  IF ~st.ok THEN Lowered(Barrier, st)
  ELSE CASE e.op = "and" -> LowerAnd(e, argv, st)
         [] e.op = "or" -> LowerOr(e, argv, st)
         [] e.op = "not" ->
              LET inner == Lower(e.of, argv, st)
              IN  Lowered([op |-> "not", of |-> inner.expr], inner.st)
         [] OTHER -> LowerLeaf(e, argv, st)

-----------------------------------------------------------------------------
(* predicate_profile: the cost tiers in their order. *)
Cost(word) ==
  CASE word \in {"-true", "-false", "-prune"} -> 0
    [] word \in {"-name", "-iname", "-path", "-wholename", "-ipath",
                 "-iwholename"} -> 1
    [] word \in RegexTests -> 2
    [] word \in {"-type", "-xtype"} -> 3
    [] word \in {"-readable", "-writable", "-executable"} -> 5
    [] word = "-newerBm" -> 6
    [] word = "-empty" -> 7
    [] word \in {"-lname", "-ilname", "-nouser", "-nogroup"} -> 8
    [] OTHER -> 4

(* Mutant: -prune moves like any other test. *)
PruneReorderable(e) == e.op = "pred"

(* is_reorderable_leaf. *)
ReorderableLeaf(e) == e.op = "pred" /\ e.word # "-prune"

(* sort_by_key: a stable insertion by cost. *)
InsertByCost(sorted, e) ==
  LET before == SelectSeq(sorted, LAMBDA x : Cost(x.word) <= Cost(e.word))
      after == SelectSeq(sorted, LAMBDA x : Cost(x.word) > Cost(e.word))
  IN  before \o <<e>> \o after

(* optimize_and_items: a segment of movable tests is sorted when something *)
(* that may not move, or the end, closes it.                               *)
OptimizeItems(items) ==
  LET Each(acc, e) ==
        IF ReorderableLeaf(e) THEN [acc EXCEPT !.segment = InsertByCost(@, e)]
        ELSE [done |-> acc.done \o acc.segment \o <<e>>, segment |-> <<>>]
      all == FoldLeft(Each, [done |-> <<>>, segment |-> <<>>], items)
  IN  all.done \o all.segment

RECURSIVE Optimize(_), ContainsPrune(_), Project(_), Leaves(_)

(* optimize_read_only_and_chains. *)
Optimize(e) ==
  CASE e.op = "and" ->
         [op |-> "and",
          items |-> OptimizeItems([i \in DOMAIN e.items |-> Optimize(e.items[i])])]
    [] e.op = "or" -> [op |-> "or", left |-> Optimize(e.left),
                       right |-> Optimize(e.right)]
    [] e.op = "not" -> [op |-> "not", of |-> Optimize(e.of)]
    [] OTHER -> e

(* The leaves of a lowered expression in the order it lists them. *)
Leaves(e) ==
  CASE e.op = "and" -> FlattenSeq([i \in DOMAIN e.items |-> Leaves(e.items[i])])
    [] e.op = "or" -> Leaves(e.left) \o Leaves(e.right)
    [] e.op = "not" -> Leaves(e.of)
    [] OTHER -> <<e>>

(* contains_prune. *)
ContainsPrune(e) ==
  \E leaf \in ToSet(Leaves(e)) : leaf.op = "pred" /\ leaf.word = "-prune"

(* project_for_traversal: actions count as barriers in the pre-pass. *)
Project(e) ==
  CASE e.op = "and" -> [op |-> "and",
                        items |-> [i \in DOMAIN e.items |-> Project(e.items[i])]]
    [] e.op = "or" -> [op |-> "or", left |-> Project(e.left),
                       right |-> Project(e.right)]
    [] e.op = "not" -> [op |-> "not", of |-> Project(e.of)]
    [] e.op = "action" -> Barrier
    [] OTHER -> e

(* build_traversal_control_plan; "none" when nothing can prune. *)
TraversalControlPlan(e, order) ==
  IF order = "pre" /\ ContainsPrune(e) THEN Project(e) ELSE [op |-> "none"]

(* choose_parallel_policy, the mode and RuntimePolicy::derive.             *)
Engine(e, order, workers) ==
  IF workers <= 1 THEN "ordered"
  ELSE IF order = "post"
          \/ \E leaf \in ToSet(Leaves(e)) :
               leaf.op = "action" /\ leaf.word = "-delete"
  THEN "post_order_subtree"
  ELSE "pre_order_fast_path"

ImplicitPrint == [op |-> "action", word |-> "-print", at |-> 0, output |-> 0,
                  batched |-> FALSE, id |-> 0]

(* resolve_follow_mode: the last option decides. *)
FollowMode(options) ==
  IF options = <<>> THEN "-P"
  ELSE IF Last(options) \in {"-version", "--version"} THEN "-P"
  ELSE Last(options)

(* plan_command_with_now_and_capabilities.                                 *)
PlanCommand(command, argv, workers) ==
  LET lowered == Lower(command.expr, argv, InitialState)
      st == lowered.st
      order == IF st.sawDelete THEN "post" ELSE st.order
      optimized == Optimize(lowered.expr)
      expr == IF st.sawAction THEN optimized
              ELSE [op |-> "and", items |-> <<optimized, ImplicitPrint>>]
  IN  IF ~st.ok THEN [ok |-> FALSE]
      ELSE [ok |-> TRUE, expr |-> expr, order |-> order, state |-> st,
            follow |-> FollowMode(command.options),
            engine |-> Engine(expr, order, workers),
            control |-> TraversalControlPlan(expr, order)]
=============================================================================
