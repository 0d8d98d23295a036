---------------------------- MODULE CommandText ----------------------------
(***************************************************************************)
(* What a command line means, said without a parser: the text is cut at    *)
(* its operators outside parentheses, loosest first (or, then and, then a  *)
(* mere juxtaposition, then not), and its parts are run from left to right. *)
(* Only the extent of a single predicate is taken from CommandLine.         *)
(***************************************************************************)
EXTENDS CommandPlan

IsOperator(tok) == tok \in {"(", ")"} \/ IsNot(tok) \/ IsAnd(tok) \/ IsOr(tok)

RECURSIVE Items(_, _)

(* The operators and leaves of the text from position i; "bad" is neither. *)
Items(ts, i) ==
  IF i > Len(ts) THEN <<>>
  ELSE IF IsOperator(ts[i])
       THEN <<[op |-> "operator", word |-> ts[i]]>> \o Items(ts, i + 1)
  ELSE LET atom == ParseAtom(ts, i)
       IN  IF atom.ok THEN <<atom.expr>> \o Items(ts, atom.next)
           ELSE <<[op |-> "bad", word |-> ts[i]]>>

Is(item, Op(_)) == item.op = "operator" /\ Op(item.word)
Opens(w) == w = "("
Closes(w) == w = ")"

(* How many parentheses are open after the first k items. *)
Nesting(s, k) ==
  Cardinality({i \in 1 .. k : Is(s[i], Opens)})
  - Cardinality({i \in 1 .. k : Is(s[i], Closes)})

Balanced(s) ==
  Nesting(s, Len(s)) = 0 /\ \A k \in DOMAIN s : Nesting(s, k) >= 0

(* Where the text may be cut: at an operator outside all parentheses. *)
Cuts(s, Op(_)) == {k \in DOMAIN s : Is(s[k], Op) /\ Nesting(s, k) = 0}

Before(s, k) == SubSeq(s, 1, k - 1)
After(s, k) == SubSeq(s, k + 1, Len(s))

(* The first item that is no "!", and where the unit that starts there ends. *)
UnitStart(s) == Min({k \in DOMAIN s : ~Is(s[k], IsNot)} \cup {Len(s) + 1})
UnitEnd(s) ==
  LET k == UnitStart(s)
  IN  IF Is(s[k], Opens)
      THEN Min({j \in k .. Len(s) : Nesting(s, j) = 0})
      ELSE k

RECURSIVE WellFormed(_)

WellFormed(s) ==
  /\ s # <<>> /\ Balanced(s)
  /\ IF Cuts(s, IsOr) # {}
     THEN LET k == Max(Cuts(s, IsOr))
          IN  WellFormed(Before(s, k)) /\ WellFormed(After(s, k))
     ELSE IF Cuts(s, IsAnd) # {}
     THEN LET k == Max(Cuts(s, IsAnd))
          IN  WellFormed(Before(s, k)) /\ WellFormed(After(s, k))
     ELSE /\ UnitStart(s) <= Len(s)
          /\ LET k == UnitStart(s)
                 end == UnitEnd(s)
             IN  /\ \/ s[k].op = "leaf"
                    \/ Is(s[k], Opens) /\ WellFormed(SubSeq(s, k + 1, end - 1))
                 /\ end < Len(s) => WellFormed(After(s, end))

-----------------------------------------------------------------------------
(* Running the text on an entry. verdicts gives each test's result by its  *)
(* position, answers what the actions performed so far returned, in order. *)
(* A run r is over when an action asked to stop, a test failed, or the     *)
(* next action has no answer yet: that action is pending.                  *)
Start ==
  [value |-> TRUE, performed |-> <<>>, pending |-> -1, failed |-> FALSE,
   stop |-> FALSE, error |-> FALSE, pruned |-> FALSE]

Over(r) == r.stop \/ r.error \/ r.pending # -1

RunLeaf(leaf, verdicts, answers, r) ==
  CASE leaf.word \in Actions ->
         IF Len(r.performed) = Len(answers) THEN [r EXCEPT !.pending = leaf.at]
         ELSE LET a == answers[Len(r.performed) + 1]
              IN  [r EXCEPT !.value = a.matched, !.failed = @ \/ a.failed,
                            !.stop = a.stop,
                            !.performed = Append(@, leaf.at)]
    [] leaf.word = "-prune" -> [r EXCEPT !.value = TRUE, !.pruned = TRUE]
    [] leaf.word \in Options \cup {"-true"} -> [r EXCEPT !.value = TRUE]
    [] leaf.word = "-false" -> [r EXCEPT !.value = FALSE]
    [] OTHER -> [r EXCEPT !.value = verdicts[leaf.at] = "true",
                          !.error = verdicts[leaf.at] = "error"]

RECURSIVE RunText(_, _, _, _)

RunText(s, verdicts, answers, r) ==
  LET Run(part, from) == RunText(part, verdicts, answers, from)
      Both(left, right) ==
        LET first == Run(left, r)
        IN  IF Over(first) \/ ~first.value THEN first ELSE Run(right, first)
      Either(left, right) ==
        LET first == Run(left, r)
        IN  IF Over(first) \/ first.value THEN first ELSE Run(right, first)
      start == UnitStart(s)
      end == UnitEnd(s)
      unit == IF s[start].op = "leaf"
              THEN RunLeaf(s[start], verdicts, answers, r)
              ELSE Run(SubSeq(s, start + 1, end - 1), r)
  IN  CASE Cuts(s, IsOr) # {} ->
             LET k == Max(Cuts(s, IsOr)) IN Either(Before(s, k), After(s, k))
        [] Cuts(s, IsOr) = {} /\ Cuts(s, IsAnd) # {} ->
             LET k == Max(Cuts(s, IsAnd)) IN Both(Before(s, k), After(s, k))
        [] Cuts(s, IsOr) = {} /\ Cuts(s, IsAnd) = {} /\ end < Len(s) ->
             Both(SubSeq(s, 1, end), After(s, end))
        [] OTHER -> IF Over(unit) \/ start % 2 = 1 THEN unit
                    ELSE [unit EXCEPT !.value = ~@]

Acts(s) == \E i \in DOMAIN s : s[i].op = "leaf" /\ s[i].word \in Actions

PrintLeaf == [op |-> "leaf", word |-> "-print", args |-> <<>>, at |-> 0]

(* A command prints what its expression selects if it names no action.     *)
ThenPrint(s, verdicts, answers, r) ==
  IF Acts(s) \/ Over(r) \/ ~r.value THEN r
  ELSE RunLeaf(PrintLeaf, verdicts, answers, r)

RunCommand(s, verdicts, answers) ==
  IF s = <<>> THEN RunLeaf(PrintLeaf, verdicts, answers, Start)
  ELSE ThenPrint(s, verdicts, answers, RunText(s, verdicts, answers, Start))
=============================================================================
