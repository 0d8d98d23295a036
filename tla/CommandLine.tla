---------------------------- MODULE CommandLine ----------------------------
(***************************************************************************)
(* The command line of rfd: parser.rs reads global options, start paths    *)
(* and an expression by recursive descent. A token is a string; a token    *)
(* outside Words starts with a dash. An expression is a record tagged by   *)
(* op; a leaf keeps its predicate or action word, the operands it took and *)
(* the position it has in the text.                                        *)
(***************************************************************************)
EXTENDS Integers, Sequences, SequencesExt

CONSTANTS Words,       \* tokens without a leading dash, operands among them
          Numbers,     \* the words that are numbers
          TypeLetters  \* the words -type accepts

(* Which words parse_atom knows, and what they take after them. *)
Nullary ==
  {"-depth", "-prune", "-xdev", "-mount", "-readable", "-writable",
   "-executable", "-nouser", "-nogroup", "-empty", "-daystart", "-true",
   "-false", "-print", "-print0", "-ls", "-quit", "-delete"}
OneWord ==
  {"-name", "-iname", "-path", "-wholename", "-ipath", "-iwholename", "-regex",
   "-iregex", "-regextype", "-fstype", "-lname", "-ilname", "-user", "-group",
   "-owner", "-owner-sid", "-group-sid", "-perm", "-flags", "-reparse-type",
   "-size", "-samefile", "-newer", "-anewer", "-cnewer", "-newermt",
   "-newerBm", "-printf", "-fprint", "-fprint0", "-fls"}
OneNumber ==
  {"-maxdepth", "-mindepth", "-uid", "-gid", "-inum", "-links", "-used",
   "-atime", "-ctime", "-mtime", "-amin", "-cmin", "-mmin"}
OneType == {"-type", "-xtype"}
TwoWords == {"-fprintf"}
UntilTerminator == {"-exec", "-execdir", "-ok", "-okdir"}

IsNot(tok) == tok \in {"!", "-not"}
IsAnd(tok) == tok \in {"-a", "-and"}
IsOr(tok) == tok \in {"-o", "-or"}

-----------------------------------------------------------------------------
(* ArgCursor: the token at i, or "end", which is no token. *)
Peek(ts, i) == IF i \in DOMAIN ts THEN ts[i] ELSE "end"

Failed == [ok |-> FALSE]
Parsed(e, next) == [ok |-> TRUE, expr |-> e, next |-> next]

(* A predicate or action at i whose operands end at last. *)
LeafTo(ts, i, last, next) ==
  Parsed([op |-> "leaf", word |-> ts[i], args |-> SubSeq(ts, i + 1, last),
          at |-> i], next)
Leaf(ts, i, next) == LeafTo(ts, i, next - 1, next)

(* take_exec_action: everything up to the first ; or +, wherever it stands. *)
TakeExec(ts, i) ==
  LET ends == {j \in i + 1 .. Len(ts) : ts[j] \in {";", "+"}}
  IN  IF ends = {} THEN Failed
      ELSE LeafTo(ts, i, Min(ends) - 1, Min(ends) + 1)

(* parse_atom: an operand may be any token, an operator too. *)
ParseAtom(ts, i) ==
  LET tok == Peek(ts, i)
      TakeOne(allowed(_)) ==
        IF i + 1 \in DOMAIN ts /\ allowed(ts[i + 1]) THEN Leaf(ts, i, i + 2)
        ELSE Failed
  IN  CASE tok \in Nullary -> Leaf(ts, i, i + 1)
        [] tok \in OneWord -> TakeOne(LAMBDA w : TRUE)
        [] tok \in OneNumber -> TakeOne(LAMBDA w : w \in Numbers)
        [] tok \in OneType -> TakeOne(LAMBDA w : w \in TypeLetters)
        [] tok \in TwoWords -> IF i + 2 \in DOMAIN ts THEN Leaf(ts, i, i + 3)
                               ELSE Failed
        [] tok \in UntilTerminator -> TakeExec(ts, i)
        [] OTHER -> Failed

RECURSIVE ParseOr(_, _), OrRest(_, _, _), AndRest(_, _, _), ParseNot(_, _)

(* starts_primary: what may follow without an operator. *)
StartsPrimary(tok) == tok # "end" /\ tok # ")" /\ ~IsOr(tok)

(* parse_primary. *)
ParsePrimary(ts, i) ==
  CASE Peek(ts, i) = "(" ->
         LET inner == ParseOr(ts, i + 1)
         IN  IF inner.ok /\ Peek(ts, inner.next) = ")"
             THEN Parsed(inner.expr, inner.next + 1)
             ELSE Failed
    [] Peek(ts, i) = ")" -> Failed
    [] OTHER -> ParseAtom(ts, i)

(* Mutant: ! takes a whole conjunction. *)
NotTakesConjunction(ts, i) ==
  IF IsNot(Peek(ts, i))
  THEN LET inner == ParseNot(ts, i + 1)
           all == IF inner.ok THEN AndRest(ts, inner.next, <<inner.expr>>)
                  ELSE Failed
       IN  IF all.ok THEN Parsed([op |-> "not", of |-> all.expr], all.next)
           ELSE Failed
  ELSE ParsePrimary(ts, i)

(* parse_not_expression. *)
ParseNot(ts, i) ==
  IF IsNot(Peek(ts, i))
  THEN LET inner == ParseNot(ts, i + 1)
       IN  IF inner.ok THEN Parsed([op |-> "not", of |-> inner.expr], inner.next)
           ELSE Failed
  ELSE ParsePrimary(ts, i)

(* Mutant: the word after -a is not required. *)
TrailingAndAllowed(ts, i, items) ==
  LET from == IF IsAnd(Peek(ts, i)) THEN i + 1 ELSE i
  IN  IF StartsPrimary(Peek(ts, from))
      THEN LET item == ParseNot(ts, from)
           IN  IF item.ok THEN AndRest(ts, item.next, Append(items, item.expr))
               ELSE Failed
      ELSE Parsed(IF Len(items) = 1 THEN items[1]
                  ELSE [op |-> "and", items |-> items], from)

(* The loop of parse_and_expression: an operand after -a, or a primary that *)
(* follows by itself; a single item stays as it is.                        *)
AndRest(ts, i, items) ==
  IF IsAnd(Peek(ts, i)) \/ StartsPrimary(Peek(ts, i))
  THEN LET item == ParseNot(ts, IF IsAnd(Peek(ts, i)) THEN i + 1 ELSE i)
       IN  IF item.ok THEN AndRest(ts, item.next, Append(items, item.expr))
           ELSE Failed
  ELSE Parsed(IF Len(items) = 1 THEN items[1]
              ELSE [op |-> "and", items |-> items], i)

ParseAnd(ts, i) ==
  LET first == ParseNot(ts, i)
  IN  IF first.ok THEN AndRest(ts, first.next, <<first.expr>>) ELSE Failed

(* The loop of parse_or_expression, which associates to the left. *)
OrRest(ts, i, left) ==
  IF IsOr(Peek(ts, i))
  THEN LET right == ParseAnd(ts, i + 1)
       IN  IF right.ok
           THEN OrRest(ts, right.next,
                       [op |-> "or", left |-> left, right |-> right.expr])
           ELSE Failed
  ELSE Parsed(left, i)

ParseOr(ts, i) ==
  LET first == ParseAnd(ts, i)
  IN  IF first.ok THEN OrRest(ts, first.next, first.expr) ELSE Failed

(* parse_global_option. *)
GlobalOptions == {"-P", "-H", "-L", "-version", "--version"}

(* is_expression_start. *)
ExpressionStart(tok) == tok \in {"!", "(", ")"} \/ tok \notin Words

(* The least position from which no token satisfies what comes before. *)
FirstFrom(argv, from, Test(_)) ==
  CHOOSE i \in from .. Len(argv) + 1 :
    /\ i <= Len(argv) => Test(argv[i])
    /\ \A j \in from .. i - 1 : ~Test(argv[j])

(* parse_command: options, then paths, then one expression to the end; the *)
(* start path "." and the action -print stand in for what is missing.      *)
ParseCommand(argv) ==
  LET paths == FirstFrom(argv, 1, LAMBDA t : t \notin GlobalOptions)
      start == FirstFrom(argv, paths, ExpressionStart)
      r == ParseOr(argv, start)
      Command(e) == [ok |-> TRUE, options |-> SubSeq(argv, 1, paths - 1),
                     startPaths |-> IF start = paths THEN <<".">>
                                    ELSE SubSeq(argv, paths, start - 1),
                     expr |-> e, start |-> start]
  IN  IF start > Len(argv)
      THEN Command([op |-> "leaf", word |-> "-print", args |-> <<>>, at |-> 0])
      ELSE IF r.ok /\ r.next > Len(argv) THEN Command(r.expr)
      ELSE Failed
=============================================================================
