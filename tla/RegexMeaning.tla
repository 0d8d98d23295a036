---------------------------- MODULE RegexMeaning ----------------------------
(***************************************************************************)
(* What a regular expression means, without the parser, the validation or  *)
(* the writer of GnuRegex: how a list of tokens is spelled in each         *)
(* dialect, which tree it is by its brackets alone, and how an engine      *)
(* reads what was written for it.                                          *)
(***************************************************************************)
EXTENDS GnuRegex

-----------------------------------------------------------------------------
(* Spelling. A dialect has a plain sign for some operators and a quoted    *)
(* one for the others; the bytes that are signs are quoted to be bytes.    *)
PlainSigns == [d \in Dialects |->
  CASE d = "posix-extended" -> {"(", ")", "|", "{", "}", "*", "+", "?"}
    [] d = "posix-basic" -> {"*"}
    [] d = "emacs" -> {"*", "+", "?"}]
Sure(d, sign) == IF sign \in PlainSigns[d] THEN <<sign>> ELSE <<"\\", sign>>
Quoted(d, byte) ==
  IF byte \in PlainSigns[d] \cup {".", "^", "$", "[", "\\"} THEN <<"\\", byte>> ELSE <<byte>>

(* A class puts ] first and [, ^ and - last, where they are bytes.          *)
ItemsOf(t, kind) == SelectSeq(t.items, LAMBDA item : item.c = kind)
LastInClass == <<"[", "^", "-">>
SpellClass(t) ==
  LET single == {item.byte : item \in ToSet(ItemsOf(t, "byte"))}
      Those(bytes) == SelectSeq(bytes, LAMBDA b : b \in single)
      Each(kind, Text(_)) == FlattenSeq([i \in DOMAIN ItemsOf(t, kind) |->
                                           Text(ItemsOf(t, kind)[i])])
  IN  Those(<<"]">>)
        \o Each("named", LAMBDA item : <<"[", ":", item.name, ":", "]">>)
        \o Each("range", LAMBDA item : <<item.low, "-", item.high>>)
        \o Those(SelectSeq(Alphabet, LAMBDA b : b \notin {"]"} \cup ToSet(LastInClass)))
        \o Those(LastInClass)
SpellCount(d, q) ==
  Sure(d, "{") \o <<ToString(q.min)>>
    \o (IF q.min = q.max THEN <<>>
        ELSE <<",">> \o (IF q.max = None THEN <<>> ELSE <<ToString(q.max)>>))
    \o Sure(d, "}")
SpellToken(d, counts, t) ==
  CASE t.t = "byte" -> Quoted(d, t.byte)
    [] t.t \in {"open", "close", "or"} ->
         Sure(d, CASE t.t = "open" -> "(" [] t.t = "close" -> ")" [] t.t = "or" -> "|")
    [] t.t = "dot" -> <<".">>
    [] t.t = "start" -> <<"^">>
    [] t.t = "end" -> <<"$">>
    [] t.t = "class" -> <<"[">> \o (IF t.negated THEN <<"^">> ELSE <<>>) \o SpellClass(t)
                          \o <<"]">>
    [] t.t = "word" -> <<"\\", IF t.negated THEN "W" ELSE "w">>
    [] t.t = "assertion" -> <<"\\", t.kind>>
    [] t.t = "reference" -> <<"\\", ToString(t.group)>>
    [] t.t = "repeat" -> IF counts \/ t.sign = "{}" THEN SpellCount(d, t) ELSE Sure(d, t.sign)
Spell(d, counts, ts) == FlattenSeq([i \in DOMAIN ts |-> SpellToken(d, counts, ts[i])])

(* Whether a dialect has this spelling: a sign that follows nothing it     *)
(* could repeat is a byte in two of them, Emacs knows ^ and $ only at the  *)
(* edges of a branch and nothing about words, and some ranges and a lone ^ *)
(* have no place in a class.                                               *)
Sayable(d, ts) ==
  \A i \in DOMAIN ts :
    /\ ts[i].t = "repeat" =>
         i > 1 /\ ts[i - 1].t \in {"byte", "dot", "class", "word", "close"}
    /\ ts[i].t = "class" =>
         /\ \A item \in ToSet(ItemsOf(ts[i], "range")) : item.low \notin {"]", "^", "-"}
         /\ ts[i].negated \/ SpellClass(ts[i])[1] # "^"
    /\ d = "emacs" =>
         /\ ts[i].t \notin {"word", "assertion"}
         /\ ts[i].t = "start" => i = 1 \/ ts[i - 1].t \in {"or", "open"}
         /\ ts[i].t = "end" => i = Len(ts) \/ ts[i + 1].t \in {"or", "close"}

-----------------------------------------------------------------------------
(* The tree. Brackets before a position that are still open there; a       *)
(* bracket that captures says so by its number.                            *)
Opens(ts, i) == Count(SubSeq(ts, 1, i - 1), "open")
Level(ts, i) == Depth(SubSeq(ts, 1, i - 1))
Top(ts, kinds) == {i \in DOMAIN ts : ts[i].t \in kinds /\ Level(ts, i) = 0}
Ordered(places) == SetToSortSeq(places, <)

RECURSIVE Meaning(_)

(* A text is its branches, a branch its units, a unit an atom or a group   *)
(* under the quantifiers behind it, the nearest first.                     *)
Unit(ts) ==
  LET last == Max({i \in DOMAIN ts : ts[i].t # "repeat"})
      atom == CASE ts[1].t # "open" -> ts[1]
                [] ts[1].t = "open" /\ ts[1].group = 0 -> Meaning(SubSeq(ts, 2, last - 1))
                [] OTHER -> Group(ts[1].group, Meaning(SubSeq(ts, 2, last - 1)))
  IN  FoldLeft(Repeat, atom, SubSeq(ts, last + 1, Len(ts)))
Branch(ts) ==
  LET starts == Ordered(Top(ts, {ts[i].t : i \in DOMAIN ts} \ {"repeat", "close"}))
      End(k) == IF k < Len(starts) THEN starts[k + 1] - 1 ELSE Len(ts)
  IN  Sequence([k \in DOMAIN starts |-> Unit(SubSeq(ts, starts[k], End(k)))])
Meaning(ts) ==
  LET cuts == <<0>> \o Ordered(Top(ts, {"or"})) \o <<Len(ts) + 1>>
  IN  Choice([k \in 1 .. Len(cuts) - 1 |->
                Branch(SubSeq(ts, cuts[k] + 1, cuts[k + 1] - 1))])

(* The tokens with a number for every group that captures, by the order of *)
(* the brackets.                                                           *)
Captures(ts, i) == Cardinality({j \in 1 .. i - 1 : ts[j] = Sign("open")})
Numbered(ts) ==
  [i \in DOMAIN ts |-> IF ts[i] = Sign("open")
                       THEN [t |-> "open", group |-> Captures(ts, i) + 1] ELSE ts[i]]

(* A quantifier has something to repeat; a bound is not upside down.       *)
Repeatable(ts) ==
  \A i \in DOMAIN ts : ts[i].t = "repeat" =>
    /\ ~BranchStart(SubSeq(ts, 1, i - 1))
    /\ ts[i].max # None => ts[i].min <= ts[i].max

(* Group n is open, and closed, when position i is reached; closed on the  *)
(* way there when no alternative in between has been left for another.     *)
Opened(ts, n, i) == n <= Opens(ts, i)
ClosedOnTheWay(ts, n, i) ==
  \E o, c \in 1 .. i - 1 :
    /\ ts[o].t = "open" /\ Opens(ts, o) + 1 = n
    /\ o < c /\ Level(ts, c + 1) = Level(ts, o)
    /\ \A j \in o + 1 .. c : Level(ts, j) > Level(ts, o)
    /\ \A j \in c .. i - 1 : ts[j].t = "or" =>
         \E k \in j + 1 .. i : Level(ts, k) < Level(ts, j)
References(ts) == {i \in DOMAIN ts : ts[i].t = "reference"}

-----------------------------------------------------------------------------
(* How the two engines read a class: regex takes a bare [ and two times &, *)
(* ~ or - for operators on classes, and any bare - in front for a byte.    *)
Bytes == ToSet(Alphabet)
Unescaped(glyph) ==
  IF glyph \in Bytes THEN glyph ELSE CHOOSE b \in Bytes : glyph = "\\" \o b
Between(low, high) == {Alphabet[n] : n \in Code(low) .. Code(high)}
IsNamed(glyph) == \E name \in DOMAIN NamedBytes : glyph = "[:" \o name \o ":]"
BytesOf(glyph) ==
  IF IsNamed(glyph)
  THEN NamedBytes[CHOOSE name \in DOMAIN NamedBytes : glyph = "[:" \o name \o ":]"]
  ELSE {Unescaped(glyph)}
Operates(gs, i) == \/ gs[i] = "["
                   \/ gs[i] \in {"&", "~", "-"} /\ At(gs, i + 1) = gs[i]

RECURSIVE ReadItems(_, _, _, _)
ReadItems(engine, gs, i, bytes) ==
  LET spans == /\ At(gs, i + 1) = "-" /\ i + 2 <= Len(gs)
               /\ engine = "rust" => gs[i + 2] # "-"
      leads == engine = "rust" /\ \A j \in 1 .. i : gs[j] = "-"
  IN  CASE i > Len(gs) -> bytes
        [] i <= Len(gs) /\ engine = "rust" /\ ~leads /\ Operates(gs, i) -> {"operators"}
        [] i <= Len(gs) /\ gs[i] = "\\" -> {"an escape"}
        [] i <= Len(gs) /\ leads -> ReadItems(engine, gs, i + 1, bytes \cup {"-"})
        [] i <= Len(gs) /\ ~leads /\ spans ->
             IF IsNamed(gs[i]) \/ IsNamed(gs[i + 2]) \/ gs[i + 2] = "\\" THEN {"no bound"}
             ELSE ReadItems(engine, gs, i + 3,
                            bytes \cup Between(Unescaped(gs[i]), Unescaped(gs[i + 2])))
        [] OTHER -> ReadItems(engine, gs, i + 1, bytes \cup BytesOf(gs[i]))

BytesClass(negated, bytes) == [t |-> "class", negated |-> negated, bytes |-> bytes]
ReadClass(engine, gs) ==
  LET negated == At(gs, 1) = "^"
  IN  BytesClass(negated, ReadItems(engine, IF negated THEN Tail(gs) ELSE gs, 1, {}))

(* The bytes a class names, and the classes that lose them on the way.     *)
ItemBytes(item) ==
  CASE item.c = "byte" -> {item.byte}
    [] item.c = "range" -> Between(item.low, item.high)
    [] item.c = "named" -> NamedBytes[item.name]
Denoted(t) ==
  CASE t.t = "class" ->
         BytesClass(t.negated, UNION {ItemBytes(t.items[i]) : i \in DOMAIN t.items})
    [] t.t = "repeat" -> [t |-> "repeat", min |-> t.min, max |-> t.max]
    [] OTHER -> t
Meant(ts) == [i \in DOMAIN ts |-> Denoted(ts[i])]

First(item) == CASE item.c = "byte" -> item.byte
                 [] item.c = "range" -> item.low
                 [] item.c = "named" -> "named"
Straight(t) ==
  \A i \in DOMAIN t.items :
    LET item == t.items[i]
    IN  /\ First(item) # "["
        /\ item.c = "range" => "-" \notin {item.low, item.high}
        /\ item.c = "byte" /\ item.byte \in {"&", "~"} /\ i < Len(t.items) =>
             First(t.items[i + 1]) # item.byte

(* What was written, read as tokens again, glyph by glyph; the quantifiers  *)
(* are those it may hold. Only PCRE2 has references and looks around.      *)
Bounds(min, max) ==
  {"{" \o ToString(min) \o "," \o (IF max = None THEN "" ELSE ToString(max)) \o "}"}
    \cup (IF min = max THEN {"{" \o ToString(min) \o "}"} ELSE {})
IsQuantifier(g, q) ==
  \/ g \in Bounds(q.min, q.max)
  \/ g = "*" /\ q.min = 0 /\ q.max = None
  \/ g = "+" /\ q.min = 1 /\ q.max = None
  \/ g = "?" /\ q.min = 0 /\ q.max = 1

Signs ==
  [g \in {"(", "(?:", ")", "|", ".", "^", "$", "\\w", "\\W", "\\b", "\\B", "\\A", "\\z"} |->
     CASE g = "(" -> Sign("open")   [] g = "(?:" -> [t |-> "open", group |-> 0]
       [] g = ")" -> Sign("close")  [] g = "|" -> Sign("or")
       [] g = "." -> Sign("dot")    [] g = "^" -> Sign("start")   [] g = "$" -> Sign("end")
       [] g \in {"\\w", "\\W"} -> Word(g = "\\W")
       [] g = "\\b" -> Assertion("b")  [] g = "\\B" -> Assertion("B")
       [] g = "\\A" -> Assertion("grave")  [] g = "\\z" -> Assertion("quote")]
Numerals == [g \in {"\\" \o d : d \in Digits \ {"0"}} |->
               CHOOSE n \in 1 .. 9 : g = "\\" \o ToString(n)]
LooksAround == {"(?=\\w)", "(?<=\\w)"}

ReadGlyph(engine, quantifiers, state, g) ==
  LET read == state.tokens
      With(token) == [state EXCEPT !.tokens = Append(@, token)]
  IN  CASE state.inside /\ g # "]" -> [state EXCEPT !.class = Append(@, g)]
        [] state.inside /\ g = "]" ->
             [tokens |-> Append(read, ReadClass(engine, state.class)),
              inside |-> FALSE, class |-> <<>>]
        [] ~state.inside /\ g = "[" -> [state EXCEPT !.inside = TRUE]
        [] ~state.inside /\ g \in LooksAround /\ engine = "pcre2" ->
             [state EXCEPT !.tokens =
                Append(Front(@), Assertion(IF g = "(?=\\w)" THEN "<" ELSE ">"))]
        [] ~state.inside /\ g \in DOMAIN Numerals /\ engine = "pcre2" ->
             With(Reference(Numerals[g]))
        [] ~state.inside /\ g \in LooksAround \cup DOMAIN Numerals /\ engine = "rust" ->
             With(Sign("refused"))
        [] ~state.inside /\ g \in DOMAIN Signs -> With(Signs[g])
        [] ~state.inside /\ (\E q \in quantifiers : IsQuantifier(g, q)) ->
             With(CHOOSE q \in quantifiers : IsQuantifier(g, q))
        [] ~state.inside /\ g \in {"*", "+", "?", "{", "\\"} -> With(Sign("refused"))
        [] OTHER -> With(Literal(Unescaped(g)))
Read(engine, quantifiers, glyphs) ==
  FoldLeft(LAMBDA state, g : ReadGlyph(engine, quantifiers, state, g),
           [tokens |-> <<>>, inside |-> FALSE, class |-> <<>>], glyphs).tokens

(* Where an engine reads more than is meant: a quantifier behind another   *)
(* is a lazy or possessive one or is refused, a digit behind a reference   *)
(* is part of its number, a quantifier behind a word's edge holds for half *)
(* of it, and regex has operators on classes.                              *)
Blurred(engine, ts) ==
  \E i \in DOMAIN ts :
    \/ /\ i < Len(ts) /\ ts[i + 1].t = "repeat"
       /\ ts[i].t = "repeat" \/ ts[i] \in {Assertion("<"), Assertion(">")}
    \/ /\ i < Len(ts) /\ ts[i].t = "reference"
       /\ ts[i + 1] \in {Literal(d) : d \in Digits}
    \/ engine = "rust" /\ ts[i].t = "class" /\ ~Straight(ts[i])

-----------------------------------------------------------------------------
(* Lexing: the tokens mean what their spelling in any dialect means.       *)
SpelledAlike(ts) ==
  LET Kept(read) == read.ok /\ Meant(read.tokens) = Meant(ts)
  IN  \A d \in Dialects, counts \in BOOLEAN :
        Sayable(d, ts) => Kept(Lex(d, Spell(d, counts, ts)))

(* Parsing and validation accept what can be repeated and referred to. A   *)
(* reference to a group still open is accepted when a later one is closed, *)
(* so that acceptance lies between the two readings.                       *)
AcceptedRightly(ts, ok) ==
  /\ ok => Repeatable(ts) /\ \A i \in References(ts) : Opened(ts, ts[i].group, i)
  /\ /\ Repeatable(ts)
     /\ \A i \in References(ts) : ClosedOnTheWay(ts, ts[i].group, i)
     => ok

(* The tree is that of the brackets, and the engine reads the same tree.   *)
Faithful(ts, compiled) ==
  LET quantifiers == {t \in ToSet(Meant(ts)) : t.t = "repeat"}
  IN  /\ compiled.expr = Meaning(Numbered(ts))
      /\ ~Blurred(compiled.engine, ts) =>
           Meaning(Numbered(Meant(ts)))
             = Meaning(Numbered(Read(compiled.engine, quantifiers, compiled.written)))
=============================================================================
