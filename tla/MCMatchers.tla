----------------------------- MODULE MCMatchers -----------------------------
(***************************************************************************)
(* Small operands of every kind: all arrangements of the bytes that a      *)
(* syntax tells apart up to some length, and the values around the edges   *)
(* they draw. A day has 12 seconds and a second 10 ticks here, an i64 goes *)
(* to 60; the zone changes its clocks twice in each of two short ages.     *)
(***************************************************************************)
EXTENDS Matchers

Chars(s) == [i \in 1 .. Len(s) |-> SubSeq(s, i, i)]
Arrangements(pieces, n) == {FlattenSeq(s) : s \in BoundedSeq(pieces, n)}
All(pieces, n) == BoundedSeq(pieces, n)

MCMaxU64 == 40
MCMaxI64 == 60
MCFrac == 1
MCUnitBytes == [u \in {"", "b", "c", "w", "k"} |->
                  CASE u \in {"", "b"} -> 4 [] u = "c" -> 1 [] u = "w" -> 2 [] u = "k" -> 8]
MCUnitSeconds == [u \in {"days", "minutes"} |-> IF u = "days" THEN 12 ELSE 5]

(* Around 0 for the windows, in the year 2000 for the literal times: the   *)
(* clocks go forward, skipping an hour, and back, repeating one.           *)
MCZoneShift(s) ==
  CASE s \in -1000 .. 1000 -> IF s \in -10 .. 24 THEN 2 ELSE 3
    [] s \in 954032400 .. 972781199 -> 7200
    [] OTHER -> 3600

MCMaxUsize == 99
MCFlagNames == {"append", "dump"}
MCValue ==
  LET bytes == {"d", "B", "U", "S", "c", "m", "p", "T", "@"}
  IN  [k \in bytes \cup {f \o s : f, s \in bytes} |->
         CASE k = "d" -> <<"7">> [] k = "m" -> <<"6", "4">> [] k = "B" -> <<>>
           [] OTHER -> <<"x", "y">>]

MCCandidates ==
  LET bytes == {G!Slash, 97, 65, 98, 67, G!Minus, G!Close, G!Backslash, G!Bang}
  IN  {<<>>} \cup {<<b>> : b \in bytes}
      \cup {<<a, b>> : a \in {G!Slash, 97, G!Star}, b \in {97, G!Close, 46}}
MCValues == 0 .. 41
MCTimes == {<<s, t>> : s \in -40 .. 45, t \in {0, 4, 9}}

Flags(patterns, insensitive, pathname) ==
  [test : {"glob"}, operand : patterns, insensitive : insensitive, pathname : pathname]
Globs ==
  Flags(All({G!Star, G!Question, G!Open, G!Close, 97, G!Slash, G!Backslash}, 4),
        {FALSE}, BOOLEAN)
  \cup Flags({<<G!Open>> \o s \o <<G!Close>> :
                s \in All({G!Bang, G!Close, G!Minus, G!Backslash, 97, 67, G!Open,
                           G!Dot, G!Slash}, 4)}, BOOLEAN, {FALSE})
  \cup Flags({<<G!Open, 97>> \o s \o <<G!Close>> :
                s \in All({G!Minus, G!Backslash, 99, G!Close, G!Open}, 4)},
             {FALSE}, {FALSE})
  \cup Flags({<<G!Open>> \o s \o <<G!Close, G!Star>> :
                s \in All({G!Slash, 46, G!Minus, G!Bang}, 3)}, {TRUE}, {TRUE})

Signs == {"", "+", "-", "++"}
Numbers == {Chars(s \o n \o u) : s \in Signs, n \in {"", "0", "1", "5", "10", "41"},
                                 u \in {"", "b", "c", "w", "k", "x"}}
Amounts == {Chars(s \o n) : s \in Signs,
              n \in {"0", "1", "2", "3", "5", "6", "12", "100", "0.5", "1.5", "1.04",
                     "0.99", "2.99", "0.0083", "1.96", "1.99", "01.10", "", ".5", "1.", "1.x",
                     "4.999", "0.4", "6.0000"}}
Nows == {<<20, 5>>, <<30, 0>>, <<-20, 4>>}
NumericQuestions ==
  [test : {"size", "number"}, operand : Numbers]
  \cup [test : {"time"}, operand : Amounts, unit : {"days", "minutes"},
        daystart : BOOLEAN, now : Nows]
  \cup [test : {"used"}, operand : Amounts, now : Nows, strict : BOOLEAN]

Clause(whos, perms) == {w \o o \o p : w \in whos, o \in {"+", "-", "="}, p \in perms}
Modes ==
  LET one == Clause({"u", "g", "a", "", "ug"}, {"", "x", "X", "s", "u", "rt"})
      few == Clause({"u", "o"}, {"X", "ws"}) \cup {"a=X"}
  IN  {Chars(k \o c) : k \in {"", "-", "/"},
         c \in one \cup {a \o "," \o b : a, b \in one}
                   \cup {a \o "," \o b \o "," \o c : a, b, c \in few}
                   \cup {"0755", "7777", "17777", "4", "37777777777", "40000000000",
                         "8", "", "u", "u=q", "a", "+", "+4", "+644", "+9", "+,+"}}
ModeQuestions ==
  [test : {"perm"}, operand : Modes]
  \cup [test : {"flags"}, operand : All(BOOLEAN \X {"append", "dump", "other"}, 3)]

Texts ==
  LET dates == {"2000-03-26", "20001029", "1969-07-20", "2000-02-29", "1999-02-29",
                "20001301", "2001-04-31"}
      clocks == {"", " 0230", "T0230", "T02:30", " 23:59:59", "T24:00", " 12:60:00",
                 "T01:59:60", " 02:30:00.5", "T23:00:01.04", " 12:00.5"}
      zones == {"", "Z", "+02", "-0330", "+01:45", "+24", "-00:60"}
  IN  {d \o c \o z : d \in dates, c \in clocks, z \in zones}
      \cup {"@" \o s \o n \o f : s \in {"", "+", "-", "--"}, n \in {"", "0", "7", "60", "61"},
                                 f \in {"", ".", ".0", ".5", ".09", ".x"}}

(* One byte of a text replaced, dropped or put in; no other digit in a     *)
(* year, whose seconds would leave the integers of TLC.                    *)
Slips(s) ==
  {SubSeq(s, 1, i - 1) \o c \o SubSeq(s, i + skip, Len(s)) :
     i \in 1 .. Len(s), skip \in {0, 1},
     c \in {"", "-", ":", "T", " ", "+", "Z", "."}}
  \cup {SubSeq(s, 1, i - 1) \o "9" \o SubSeq(s, i + 1, Len(s)) : i \in 5 .. Len(s)}
LiteralQuestions ==
  [test : {"literal"},
   operand : {Chars(s) : s \in Texts \cup UNION {Slips(s) : s \in
                {"2000-03-26", "20001029 0230", "1969-07-20T02:30:00.5-0330",
                 "2000-02-29 02:30+01:45", "@-7.5"}}}]
  \cup [test : {"month"}, year : (-805 .. -795) \cup (-5 .. 5) \cup (1895 .. 2105),
        month : 1 .. 12]

Formats ==
  All({"%", "\\", "d", "B", "U", "S", "0", "1", "c"}, 4)
  \cup Arrangements({<<"\\", "1">>, <<"1">>, <<"\\", "c">>, <<"%", "d">>, <<"%", "B">>,
                     <<"%", "T">>, <<"@">>, <<"S">>, <<"%", "U">>}, 4)
  \cup {<<"%">> \o f \o w \o p \o k :
          f \in All({"-", "0", "+", "#"}, 2),
          w \in {<<>>, <<"1">>, <<"5">>, <<"1", "0", "0">>},
          p \in {<<>>, <<".">>, <<".", "0">>, <<".", "4">>},
          k \in {<<"d">>, <<"m">>, <<"p">>, <<"T", "@">>, <<"T", "q">>, <<"B">>}}

(* Every text over the bytes that a dialect has a meaning for, and longer  *)
(* ones out of pieces: groups and references, classes, counts.             *)
MCAlphabet == Chars("!$&") \o <<"quote">> \o Chars("()*+,-.01259:<=>?ABW[\\]^")
                \o <<"grave">> \o Chars("abdwx{|}~")
MCNamedBytes == [name \in {"ad"} |-> {"a", "d"}]
MCMaxCount == 9

Asks(dialects, texts) ==
  [test : {"regex"}, dialect : dialects, operand : texts]
PiecesOf(d) ==
  IF d = "posix-extended"
  THEN {<<"a">>, <<"(", "a", ")">>, <<"(">>, <<")">>, <<"|">>, <<"*">>, <<"\\", "1">>,
        <<"\\", "2">>}
  ELSE {<<"a">>, <<"\\", "(">>, <<"\\", ")">>, <<"\\", "|">>, <<"*">>, <<"\\", "1">>}
Brackets == {<<"[">> \o s \o <<"]">> :
               s \in All({"]", "-", "^", "a", "d", "[", "&", "\\"}, 4)
                       \cup Arrangements({<<"[", ":", "a", "d", ":", "]">>, <<"[", ":">>,
                                         <<"-">>, <<"a">>, <<"[">>, <<"[", ".">>}, 3)}
Counts == {<<"a">> \o o \o s \o c :
             o \in {<<"{">>, <<"\\", "{">>}, c \in {<<>>, <<"}">>, <<"\\", "}">>},
             s \in All({"2", "1", ",", "0"}, 3)}
Edges == {<<"\\", k>> : k \in 
                 {"b", "B", "<", ">", "grave", "quote", "w", "W", "x", "{", "+", "?"}}
Regexes ==
  Asks(R!Dialects, All({"a", "\\", "(", ")", "|", "*", "+", "{", "^", "$"}, 3)
                     \cup Counts
                     \cup Arrangements(Edges \cup {<<"*">>, <<"a">>, <<"|">>, <<"1">>}, 2))
  \cup UNION {Asks({d}, Arrangements(PiecesOf(d), 5)) : d \in R!Dialects}
  \cup Asks({"emacs"}, Brackets)
  \cup Asks({"posix-basic"}, {s \o <<"\\", "b">> : s \in Brackets})

MCQuestions == Globs \cup NumericQuestions \cup ModeQuestions \cup LiteralQuestions
                 \cup [test : {"format"}, operand : Formats]
                 \cup Regexes
=============================================================================
