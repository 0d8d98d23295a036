------------------------------ MODULE GnuRegex ------------------------------
(***************************************************************************)
(* regex_match/gnu.rs: the patterns of the POSIX and Emacs dialects are    *)
(* cut into tokens, parsed into a tree, validated and written again in the *)
(* syntax of one of two engines. A text is a sequence of bytes, each the   *)
(* string of itself, "grave" and "quote" for the two quotes of \` and \'.  *)
(* So is what is written, but that an escape, a quantifier and each of     *)
(* (?: (?=\w) (?<=\w) are one string.                                      *)
(***************************************************************************)
EXTENDS Integers, Sequences, FiniteSets, SequencesExt

CONSTANTS Alphabet,    \* the bytes, in their order
          NamedBytes,  \* POSIX class name -> its bytes
          MaxCount     \* the largest u32

Dialects == {"posix-extended", "posix-basic", "emacs"}
Engines == {"rust", "pcre2"}

At(text, i) == IF i \in DOMAIN text THEN text[i] ELSE ""
Code(byte) == CHOOSE n \in DOMAIN Alphabet : Alphabet[n] = byte
Bad == [ok |-> FALSE]
Digits == {"0", "1", "2", "3", "4", "5", "6", "7", "8", "9"}
DigitOf(byte) == CHOOSE n \in 0 .. 9 : ToString(n) = byte

-----------------------------------------------------------------------------
(* GnuToken. *)
Literal(byte) == [t |-> "byte", byte |-> byte]
Sign(name) == [t |-> name]
Assertion(name) == [t |-> "assertion", kind |-> name]
Reference(n) == [t |-> "reference", group |-> n]
Class(negated, items) == [t |-> "class", negated |-> negated, items |-> items]
Word(negated) == [t |-> "word", negated |-> negated]
None == -1
Quantifier(sign, min, max) == [t |-> "repeat", sign |-> sign, min |-> min, max |-> max]
Signed == [b \in {"*", "+", "?"} |->
             Quantifier(b, IF b = "+" THEN 1 ELSE 0, IF b = "?" THEN 1 ELSE None)]

Token(token, next) == [ok |-> TRUE, token |-> token, next |-> next]

(* can_repeat_atom and branch_start, after the tokens so far; the groups   *)
(* that are open.                                                          *)
LastKind(tokens) == IF tokens = <<>> THEN "none" ELSE Last(tokens).t
CanRepeat(tokens) == LastKind(tokens) \in {"byte", "dot", "class", "close", "word"}
BranchStart(tokens) == LastKind(tokens) \in {"none", "open", "or"}
Count(tokens, kind) == Cardinality({i \in DOMAIN tokens : tokens[i].t = kind})
Depth(tokens) == Count(tokens, "open") - Count(tokens, "close")

(* parse_repetition_body, of the text between two positions. *)
Amount(text, from, to) ==
  FoldLeft(LAMBDA n, d : 10 * n + DigitOf(d), 0, SubSeq(text, from, to - 1))
Digital(text, from, to) == \A i \in from .. to - 1 : text[i] \in Digits

Counted(min, max, next) ==
  IF min > MaxCount \/ max > MaxCount THEN Bad
  ELSE Token(Quantifier("{}", min, max), next)

Body(text, from, to, next) ==
  LET comma == Min({i \in from .. to : i = to \/ text[i] = ","})
  IN  CASE comma < to /\ Digital(text, from, comma) /\ Digital(text, comma + 1, to) ->
             Counted(Amount(text, from, comma),
                     IF comma + 1 = to THEN None ELSE Amount(text, comma + 1, to), next)
        [] comma = to /\ from < to /\ Digital(text, from, to) ->
             Counted(Amount(text, from, to), Amount(text, from, to), next)
        [] OTHER -> Bad

(* lex_extended_bound and lex_basic_bound, behind the brace. *)
ExtendedBound(text, i) ==
  LET ends == {j \in i .. Len(text) : text[j] = "}"}
  IN  IF ends = {} THEN Bad ELSE Body(text, i, Min(ends), Min(ends) + 1)
BasicBound(text, i) ==
  LET ends == {j \in i .. Len(text) - 1 : text[j] = "\\" /\ text[j + 1] = "}"}
  IN  IF ends = {} THEN Bad ELSE Body(text, i, Min(ends), Min(ends) + 2)

-----------------------------------------------------------------------------
(* ClassItem. *)
Byte(byte) == [c |-> "byte", byte |-> byte]
Span(low, high) == [c |-> "range", low |-> low, high |-> high]
Named(name) == [c |-> "named", name |-> name]
Item(item, next) == [ok |-> TRUE, item |-> item, next |-> next]

(* take_posix_class_name and canonical_posix_class, behind the [: *)
NamedItem(text, i) ==
  LET ends == {j \in i .. Len(text) - 1 : text[j] = ":" /\ text[j + 1] = "]"}
      name == FoldLeft(LAMBDA s, b : s \o b, "", SubSeq(text, i, Min(ends) - 1))
  IN  IF ends # {} /\ name \in DOMAIN NamedBytes THEN Item(Named(name), Min(ends) + 2)
      ELSE Bad

(* lex_class_item: a backslash is a byte like any other. *)
ClassItem(text, i) ==
  CASE At(text, i) = "" -> Bad
    [] At(text, i) = "[" /\ At(text, i + 1) = ":" -> NamedItem(text, i + 2)
    [] At(text, i) = "[" /\ At(text, i + 1) \in {".", "="} -> Bad
    [] OTHER -> Item(Byte(text[i]), i + 1)

RECURSIVE ClassFrom(_, _, _, _)

(* The loop of lex_class. *)
ClassFrom(text, i, negated, items) ==
  LET Go(next, more) == ClassFrom(text, next, negated, more)
      Ranged(low, high, next) ==
        CASE low.c = "byte" /\ high.c = "byte" ->
               IF Code(low.byte) > Code(high.byte) THEN Bad
               ELSE Go(next, Append(Front(items), Span(low.byte, high.byte)))
          [] OTHER -> Go(next, items \o <<Byte("-"), high>>)
      To(high) == IF high.ok THEN Ranged(Last(items), high.item, high.next) ELSE Bad
      With(read) ==
        CASE ~read.ok -> Bad
          [] read.ok /\ read.item = Byte("-") /\ items # <<>> /\ At(text, read.next) # "]" ->
               To(ClassItem(text, read.next))
          [] OTHER -> Go(read.next, Append(items, read.item))
  IN  CASE i > Len(text) -> Bad
        [] At(text, i) = "]" -> Token(Class(negated, items), i + 1)
        [] OTHER -> With(ClassItem(text, i))

(* lex_class, behind the bracket: a ] that comes first is one of the bytes. *)
ClassAt(text, i) ==
  LET negated == At(text, i) = "^"
      first == IF negated THEN i + 1 ELSE i
  IN  IF At(text, first) = "]" THEN ClassFrom(text, first + 1, negated, <<Byte("]")>>)
      ELSE ClassFrom(text, first, negated, <<>>)

-----------------------------------------------------------------------------
(* Escapes that mean the same in both POSIX dialects. *)
Assertions == {"b", "B", "<", ">", "grave", "quote"}
PosixEscape(byte, quotable, next) ==
  CASE byte \in Digits \ {"0"} -> Token(Reference(DigitOf(byte)), next)
    [] byte \in {"w", "W"} -> Token(Word(byte = "W"), next)
    [] byte \in Assertions -> Token(Assertion(byte), next)
    [] byte \in quotable -> Token(Literal(byte), next)
    [] OTHER -> Bad

(* lex_extended_escape *)
ExtendedEscape(text, i) ==
  PosixEscape(At(text, i), {"\\", ".", "^", "$", "*", "+", "?", "(", ")", "|", "{", "}",
                            "[", "]"}, i + 1)

(* The groups of lex_bre_or_emacs_escape. *)
Grouping(byte, tokens, next) ==
  CASE byte = "(" -> Token(Sign("open"), next)
    [] byte = "|" -> Token(Sign("or"), next)
    [] byte = ")" /\ Depth(tokens) > 0 -> Token(Sign("close"), next)
    [] OTHER -> Bad

(* lex_bre_or_emacs_escape in the basic dialect. *)
BasicEscape(text, i, tokens) ==
  LET byte == At(text, i)
  IN  CASE byte \in {"(", ")", "|"} -> Grouping(byte, tokens, i + 1)
        [] byte \in {"+", "?"} ->
             Token(IF CanRepeat(tokens) THEN Signed[byte] ELSE Literal(byte), i + 1)
        [] byte = "{" -> IF CanRepeat(tokens) THEN BasicBound(text, i + 1)
                         ELSE Token(Literal("{"), i + 1)
        [] OTHER -> PosixEscape(byte, {"\\", ".", "^", "$", "*", "[", "]", "}"}, i + 1)

(* The same for Emacs: anything else stands for itself. *)
EmacsEscape(text, i, tokens) ==
  LET byte == At(text, i)
  IN  CASE byte = "" -> Bad
        [] byte \in {"(", ")", "|"} -> Grouping(byte, tokens, i + 1)
        [] byte = "{" /\ CanRepeat(tokens) -> BasicBound(text, i + 1)
        [] byte \in Digits \ {"0"} -> Token(Reference(DigitOf(byte)), i + 1)
        [] OTHER -> Token(Literal(byte), i + 1)

(* emacs_dollar_is_anchor *)
DollarEnds(text, i) ==
  \/ At(text, i) = ""
  \/ At(text, i) = "\\" /\ At(text, i + 1) \in {")", "|"}

(* What the dialects have in common. *)
Common(text, i) ==
  CASE text[i] = "[" -> ClassAt(text, i + 1)
    [] text[i] = "." -> Token(Sign("dot"), i + 1)
    [] OTHER -> Token(Literal(text[i]), i + 1)

Anchors == [b \in {"^", "$"} |-> Sign(IF b = "^" THEN "start" ELSE "end")]

(* The token at i, after the tokens before it. *)
ExtendedToken(text, i, tokens) ==
  LET byte == text[i]
  IN  CASE byte = "\\" -> ExtendedEscape(text, i + 1)
        [] byte = "(" -> Token(Sign("open"), i + 1)
        [] byte = ")" -> Token(IF Depth(tokens) = 0 THEN Literal(")") ELSE Sign("close"),
                               i + 1)
        [] byte = "|" -> Token(Sign("or"), i + 1)
        [] byte \in DOMAIN Signed -> Token(Signed[byte], i + 1)
        [] byte = "{" /\ CanRepeat(tokens) -> ExtendedBound(text, i + 1)
        [] byte \in DOMAIN Anchors -> Token(Anchors[byte], i + 1)
        [] OTHER -> Common(text, i)

BasicToken(text, i, tokens) ==
  LET byte == text[i]
  IN  CASE byte = "\\" -> BasicEscape(text, i + 1, tokens)
        [] byte = "*" /\ CanRepeat(tokens) -> Token(Signed["*"], i + 1)
        [] byte \in DOMAIN Anchors -> Token(Anchors[byte], i + 1)
        [] OTHER -> Common(text, i)

EmacsToken(text, i, tokens) ==
  LET byte == text[i]
  IN  CASE byte = "\\" -> EmacsEscape(text, i + 1, tokens)
        [] \/ byte = "^" /\ BranchStart(tokens)
           \/ byte = "$" /\ DollarEnds(text, i + 1) -> Token(Anchors[byte], i + 1)
        [] byte \in DOMAIN Signed /\ CanRepeat(tokens) -> Token(Signed[byte], i + 1)
        [] OTHER -> Common(text, i)

TokenAt(dialect, text, i, tokens) ==
  CASE dialect = "posix-extended" -> ExtendedToken(text, i, tokens)
    [] dialect = "posix-basic" -> BasicToken(text, i, tokens)
    [] dialect = "emacs" -> EmacsToken(text, i, tokens)

RECURSIVE LexFrom(_, _, _, _)

LexFrom(dialect, text, i, tokens) ==
  LET Go(read) == IF read.ok THEN LexFrom(dialect, text, read.next, Append(tokens, read.token))
                  ELSE Bad
  IN  IF i <= Len(text) THEN Go(TokenAt(dialect, text, i, tokens))
      ELSE IF Depth(tokens) # 0 THEN Bad ELSE [ok |-> TRUE, tokens |-> tokens]

(* lex_gnu_tokens *)
Lex(dialect, text) == LexFrom(dialect, text, 1, <<>>)

-----------------------------------------------------------------------------
(* GnuExpr; a token that is no operator is its own expression. *)
Empty == [t |-> "empty"]
Concat(items) == [t |-> "concat", items |-> items]
Alternation(items) == [t |-> "alternation", items |-> items]
Group(n, of) == [t |-> "group", group |-> n, of |-> of]
Repeat(of, quantifier) == [t |-> "repetition", of |-> of, quantifier |-> quantifier]

Sequence(items) ==
  CASE Len(items) = 0 -> Empty [] Len(items) = 1 -> items[1] [] OTHER -> Concat(items)
Choice(branches) == IF Len(branches) = 1 THEN branches[1] ELSE Alternation(branches)

(* A parse reaches a token and has numbered groups. *)
Parsed(expr, next, groups) == [ok |-> TRUE, expr |-> expr, next |-> next, groups |-> groups]
KindAt(ts, i) == IF i \in DOMAIN ts THEN ts[i].t ELSE "none"

RECURSIVE BranchesFrom(_, _, _, _), ItemsFrom(_, _, _, _)

(* parse_sequence: a quantifier takes the item before it. *)
ItemsFrom(ts, i, groups, items) ==
  LET Close(inner) ==
        IF inner.ok /\ KindAt(ts, inner.next) = "close"
        THEN ItemsFrom(ts, inner.next + 1, inner.groups,
                       Append(items, Group(groups + 1, inner.expr)))
        ELSE Bad
  IN  CASE KindAt(ts, i) \in {"close", "or", "none"} -> Parsed(Sequence(items), i, groups)
        [] KindAt(ts, i) = "repeat" ->
             IF items = <<>> THEN Bad
             ELSE ItemsFrom(ts, i + 1, groups,
                            Append(Front(items), Repeat(Last(items), ts[i])))
        [] KindAt(ts, i) = "open" -> Close(BranchesFrom(ts, i + 1, groups + 1, <<>>))
        [] OTHER -> ItemsFrom(ts, i + 1, groups, Append(items, ts[i]))

(* parse_alternation *)
BranchesFrom(ts, i, groups, branches) ==
  LET Go(branch) ==
        CASE ~branch.ok -> Bad
          [] branch.ok /\ KindAt(ts, branch.next) = "or" ->
               BranchesFrom(ts, branch.next + 1, branch.groups,
                            Append(branches, branch.expr))
          [] OTHER -> Parsed(Choice(Append(branches, branch.expr)), branch.next,
                             branch.groups)
  IN  Go(ItemsFrom(ts, i, groups, <<>>))

(* TokenParser::parse *)
ParseTokens(ts) ==
  LET Whole(r) == IF r.ok /\ r.next = Len(ts) + 1 THEN r ELSE Bad
  IN  Whole(BranchesFrom(ts, 1, 0, <<>>))

Refused == -1
RECURSIVE Closed(_, _)

(* The walk of validate_gnu_regex: how many groups are closed after an     *)
(* expression, or that a reference or a bound in it is refused.            *)
Closed(e, before) ==
  CASE e.t = "reference" -> IF e.group > before THEN Refused ELSE before
    [] e.t = "concat" ->
         FoldLeft(LAMBDA n, item : IF n = Refused THEN Refused ELSE Closed(item, n),
                  before, e.items)
    [] e.t = "alternation" ->
         LET after == {Closed(e.items[i], before) : i \in DOMAIN e.items}
         IN  IF Refused \in after THEN Refused ELSE Max(after)
    [] e.t = "group" -> LET after == Closed(e.of, before)
                        IN  IF after = Refused THEN Refused ELSE Max({after, e.group})
    [] e.t = "repetition" ->
         IF e.quantifier.max # None /\ e.quantifier.min > e.quantifier.max THEN Refused
         ELSE Closed(e.of, before)
    [] OTHER -> before

Valid(e) == Closed(e, 0) # Refused

(* parse_gnu_regex *)
ParseRegex(dialect, text) ==
  LET Checked(r) == IF r.ok /\ Valid(r.expr) THEN r ELSE Bad
      Tokens(read) == IF read.ok THEN Checked(ParseTokens(read.tokens)) ELSE Bad
  IN  Tokens(Lex(dialect, text))

-----------------------------------------------------------------------------
RECURSIVE Atoms(_)

(* What an expression is made of. *)
Atoms(e) ==
  CASE e.t \in {"concat", "alternation"} -> UNION {Atoms(e.items[i]) : i \in DOMAIN e.items}
    [] e.t \in {"group", "repetition"} -> Atoms(e.of)
    [] OTHER -> {e}

(* choose_backend *)
Engine(e) == IF \E a \in Atoms(e) : a.t \in {"reference", "assertion"} THEN "pcre2"
             ELSE "rust"

(* What push_literal_regex_byte, push_bracket_range_endpoint_byte and      *)
(* push_bracket_escaped_byte put a backslash before.                       *)
Escaped(byte, set) == IF byte \in set THEN "\\" \o byte ELSE byte
Meta == {".", "^", "$", "|", "(", ")", "[", "]", "{", "}", "*", "+", "?", "\\"}
AtEndpoint == {"\\", "]", "^"}
InBracket == {"\\", "]", "^", "-"}

WriteItem(item) ==
  CASE item.c = "byte" -> <<Escaped(item.byte, InBracket)>>
    [] item.c = "range" -> <<Escaped(item.low, AtEndpoint), "-",
                             Escaped(item.high, AtEndpoint)>>
    [] item.c = "named" -> <<"[:" \o item.name \o ":]">>

WriteQuantifier(q) ==
  CASE q.sign # "{}" -> q.sign
    [] q.sign = "{}" /\ q.min = q.max -> "{" \o ToString(q.min) \o "}"
    [] q.sign = "{}" /\ q.max = None -> "{" \o ToString(q.min) \o ",}"
    [] OTHER -> "{" \o ToString(q.min) \o "," \o ToString(q.max) \o "}"

WriteAssertion(kind) ==
  CASE kind \in {"b", "B"} -> <<"\\" \o kind>>
    [] kind = "<" -> <<"\\b", "(?=\\w)">>
    [] kind = ">" -> <<"\\b", "(?<=\\w)">>
    [] kind = "grave" -> <<"\\A">>
    [] kind = "quote" -> <<"\\z">>

Alternatives(texts) ==
  <<"(?:">> \o FoldLeft(LAMBDA out, text : out \o <<"|">> \o text, texts[1], Tail(texts))
    \o <<")">>

RECURSIVE Write(_)

(* render_expr. Only an atom or a group is ever repeated, so the grouping  *)
(* of render_repeated_expr has nothing to do.                              *)
Write(e) ==
  CASE e.t = "empty" -> <<>>
    [] e.t = "byte" -> <<Escaped(e.byte, Meta)>>
    [] e.t = "dot" -> <<".">>
    [] e.t = "start" -> <<"^">>
    [] e.t = "end" -> <<"$">>
    [] e.t = "word" -> <<IF e.negated THEN "\\W" ELSE "\\w">>
    [] e.t = "reference" -> <<"\\" \o ToString(e.group)>>
    [] e.t = "assertion" -> WriteAssertion(e.kind)
    [] e.t = "class" ->
         (IF e.negated THEN <<"[", "^">> ELSE <<"[">>)
           \o FlattenSeq([i \in DOMAIN e.items |-> WriteItem(e.items[i])]) \o <<"]">>
    [] e.t = "concat" -> FlattenSeq([i \in DOMAIN e.items |-> Write(e.items[i])])
    [] e.t = "alternation" -> Alternatives([i \in DOMAIN e.items |-> Write(e.items[i])])
    [] e.t = "group" -> <<"(">> \o Write(e.of) \o <<")">>
    [] e.t = "repetition" -> Write(e.of) \o <<WriteQuantifier(e.quantifier)>>

(* compile_gnu_regex *)
Compile(dialect, text) ==
  LET Written(r) ==
        IF r.ok THEN [ok |-> TRUE, expr |-> r.expr, groups |-> r.groups,
                      engine |-> Engine(r.expr), written |-> Write(r.expr)]
        ELSE Bad
  IN  Written(ParseRegex(dialect, text))
=============================================================================
