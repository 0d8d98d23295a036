------------------------------ MODULE Matchers ------------------------------
(***************************************************************************)
(* The pure part of the tests and of the output: how an operand is read    *)
(* and what it says of an entry. A question is an operand with the values  *)
(* it is asked about; each action is one matcher's answer, and the         *)
(* invariants compare the answer with what the operand says as it is       *)
(* written. Nothing here has state or order of its own.                    *)
(***************************************************************************)
EXTENDS LiteralTime

CONSTANTS Questions, Candidates, Values, Times,
          FlagNames, MaxUsize, Value, ZeroPadsStrings,
          Alphabet, NamedBytes, MaxCount

G == INSTANCE Glob
M == INSTANCE ModeTests
P == INSTANCE PrintfProgram
R == INSTANCE RegexMeaning

VARIABLES question, answer
vars == <<question, answer>>

None == [none |-> TRUE]

Init == question \in Questions /\ answer = None

Asked(test) == question.test = test /\ answer = None

(* -name, -path and -lname with their caseless kin: GlobMatcher.           *)
AnswerGlob ==
  /\ Asked("glob")
  /\ answer' = [ok |-> G!Compile(question.operand).ok,
                yes |-> {text \in Candidates :
                           G!GlobMatches(question.operand, text, question.insensitive,
                                         question.pathname) = "true"}]
  /\ UNCHANGED question

(* -size: SizeMatcher. *)
AnswerSize ==
  /\ Asked("size")
  /\ LET m == ParseSize(question.operand)
     IN  answer' = [ok |-> m.ok,
                    yes |-> IF m.ok THEN {v \in Values : SizeMatches(m, v)} ELSE {}]
  /\ UNCHANGED question

(* -links, -inum, -uid, -gid: NumericComparison. *)
AnswerNumber ==
  /\ Asked("number")
  /\ LET m == ParseNumeric(question.operand)
     IN  answer' = [ok |-> m.ok,
                    yes |-> IF m.ok THEN {v \in Values : Compared(m.kind, v, m.value)}
                            ELSE {}]
  /\ UNCHANGED question

(* -mtime, -mmin and their kin: RelativeTimeMatcher. *)
AnswerTime ==
  /\ Asked("time")
  /\ LET c == ParseTime(question.operand)
     IN  answer' = [ok |-> c.ok,
                    yes |-> IF c.ok
                            THEN {t \in Times : TimeMatches(c, question.unit,
                                                            question.daystart,
                                                            question.now, t)}
                            ELSE {}]
  /\ UNCHANGED question

(* -used: UsedMatcher, asked of a file read at the given time, on a        *)
(* platform that is strict about equal times or on one that is not.        *)
AnswerUsed ==
  /\ Asked("used")
  /\ LET c == ParseTime(question.operand)
     IN  answer' = [ok |-> c.ok,
                    yes |-> IF c.ok THEN {t \in Times : UsedMatches(c, question.now, t,
                                                              question.strict)}
                            ELSE {}]
  /\ UNCHANGED question

(* -perm: PermMatcher. *)
AnswerPerm ==
  /\ Asked("perm")
  /\ answer' = M!ParsePerm(question.operand)
  /\ UNCHANGED question

(* -flags: FileFlagsMatcher. *)
AnswerFlags ==
  /\ Asked("flags")
  /\ answer' = M!ParseFlags(question.operand)
  /\ UNCHANGED question

(* -newerXt: parse_literal_time. *)
AnswerLiteralTime ==
  /\ Asked("literal")
  /\ answer' = ParseLiteralTime(question.operand)
  /\ UNCHANGED question

(* The calendar behind it. *)
AnswerMonth ==
  /\ Asked("month")
  /\ answer' = [first |-> DaysFromCivil(question.year, question.month, 1)]
  /\ UNCHANGED question

(* -printf: compile_printf_program and render_printf_bytes. *)
AnswerFormat ==
  /\ Asked("format")
  /\ answer' = P!Printf(question.operand)
  /\ UNCHANGED question

(* -regex and -iregex in a POSIX or Emacs dialect: compile_gnu_regex. *)
AnswerRegex ==
  /\ Asked("regex")
  /\ answer' = R!Compile(question.dialect, question.operand)
  /\ UNCHANGED question

Next ==
  \/ AnswerGlob \/ AnswerSize \/ AnswerNumber \/ AnswerTime \/ AnswerUsed
  \/ AnswerPerm \/ AnswerFlags \/ AnswerLiteralTime \/ AnswerMonth \/ AnswerFormat
  \/ AnswerRegex

Spec == Init /\ [][Next]_vars

-----------------------------------------------------------------------------
Answered(test) == answer # None /\ question.test = test

(* A pattern matches what its text denotes, read without the program and   *)
(* the backtracking of pattern/owned.rs:18: a bracket that does not close, *)
(* a quoted byte in a class, a minus that is no range and the slash in     *)
(* either GlobSlashMode included (-path's is Literal, planner.rs:607). It  *)
(* is refused only for a [. or [= in a class.                              *)
GlobsMatchWhatTheyDenote ==
  Answered("glob") =>
    LET p == question.operand
        Odd(j) == G!At(p, j) = G!Open /\ G!At(p, j + 1) \in {G!Dot, G!Equal}
    IN  IF answer.ok
        THEN answer.yes = {text \in Candidates :
               G!Denotes(p, text, question.insensitive, question.pathname)}
        ELSE \E i, j \in DOMAIN p : i < j /\ G!Bare(p, i, G!Open) /\ Odd(j)

(* An operand as it is written: a sign, and a number with a fraction.      *)
Written(operand) == ParseAmount(Sign(operand).rest)

Age(now, t) == Ticks(now) - Ticks(t)
Midnights(from, to) ==
  Cardinality({s \in from + 1 .. to : LocalDay(<<s, 0>>) # LocalDay(<<s - 1, 0>>)})

(* Sizes count the units that have begun and ages those that are over, as  *)
(* the operand's digits say: carrying a fraction to seconds, the windows   *)
(* of days and minutes and the limits of the integers (time.rs:298,        *)
(* size.rs:84) change no answer, but for the tick in which an exact window *)
(* ends and which it leaves out; calendar days are counted by the          *)
(* midnights in between, also over a change of the clocks; and a file read *)
(* when it was changed is never used where the platform is strict.         *)
NumericTestsAsWritten ==
  LET kind == Sign(question.operand).kind
      amount == Written(question.operand)
      c == [amount |-> amount]
      calendar == question.unit = "days" /\ question.daystart /\ IsIntegral(amount)
      base == IF question.daystart THEN LocalDayStart(question.now) ELSE question.now
  IN  /\ Answered("size") /\ answer.ok =>
           LET m == ParseSize(question.operand)
           IN  answer.yes = {v \in Values : InStartedUnits(kind, v, m.unit, m.value)}
      /\ Answered("time") => (answer.ok <=> amount.ok)
      /\ Answered("time") /\ answer.ok /\ ~calendar =>
           answer.yes = {t \in Times : AgeIs(kind, Age(base, t), c,
                                             UnitSeconds[question.unit],
                                             Shifts(question.unit, question.daystart))}
      /\ Answered("time") /\ answer.ok /\ calendar =>
           answer.yes = {t \in Times :
             Compared(kind, IF t[1] <= base[1] THEN Midnights(t[1], base[1])
                            ELSE -Midnights(base[1], t[1]), ValueOf(amount.digits))}
      /\ Answered("used") /\ answer.ok =>
           answer.yes = {t \in Times :
             /\ Age(question.now, t) >= 0
             /\ question.strict => Age(question.now, t) > 0
             /\ AgeIs(kind, Age(question.now, t), c, UnitSeconds["days"],
                      Shifts("used", FALSE))}

(* A symbolic -perm stands for the mode that chmod would leave, clause by  *)
(* clause and bit by bit, starting from nothing (perm.rs:96), and a plus   *)
(* alone or before digits for none (perm.rs:54). -flags asks for each flag *)
(* what its last name says and never for both (file_flags.rs:130), so the  *)
(* order of the names does not matter.                                     *)
ModesAndFlagsAsWritten ==
  /\ Answered("perm") /\ answer.ok =>
       LET body == IF answer.kind = "exact" THEN question.operand
                   ELSE Tail(question.operand)
           clauses == M!Clauses(body, answer.kind # "exact")
           octal == ToSet(body) \subseteq ToSet(M!Octal)
       IN  /\ ~octal => answer.mask = {b \in M!Bits : M!On(clauses, Len(clauses), b)}
           /\ question.operand[1] = "+" =>
                \E i \in 2 .. Len(question.operand) : ~IsDigit(question.operand[i])
  /\ Answered("flags") =>
       LET tokens == ToSet(question.operand)
       IN  answer.ok <=> /\ tokens # {}
                         /\ \A t \in tokens : t[2] \in FlagNames
                         /\ \A t \in tokens : <<~t[1], t[2]>> \notin tokens

(* A literal time is accepted exactly when it has one of the layouts,      *)
(* fields in their ranges and a local time the zone does not skip; it is   *)
(* then the moment its digits say, before 1970 too (literal_time.rs:62),   *)
(* and the calendar counts every day of every month once.                  *)
LiteralTimesAsWritten ==
  /\ Answered("month") => CountsDays(question.year, question.month)
  /\ Answered("literal") =>
       LET text == question.operand
           word == Word(Shape(text))
           layouts == {l \in Layouts : l[1] \o l[2] \o l[3] = word}
           layout == CHOOSE l \in layouts : TRUE
           r == Reading(text, layout)
           local == 86400 * DaysFromCivil(r.year, r.month, r.day)
                      + 3600 * r.hour + 60 * r.minute + r.second
           sign == IF "-" \in ToSet(SubSeq(text, 11, Len(text))) THEN -1 ELSE 1
           valid == /\ ValidDate(r.year, r.month, r.day)
                    /\ ValidTime(r.hour, r.minute, r.second) /\ r.zoneOk
           digits == SelectSeq(text, IsDigit)
           dot == Find(text, {"."}, 1)
           whole == ValueOf(DigitsOf(SelectSeq(SubSeq(text, 1, dot - 1), IsDigit)))
           decimals == Max({0, Len(text) - dot})
           signed == (IF Byte(text, 2) = "-" THEN -1 ELSE 1) * ValueOf(DigitsOf(digits))
       IN  CASE word \in EpochShapes ->
                  /\ answer.ok <=> whole <= MaxI64
                  /\ answer.ok /\ decimals <= Frac =>
                       signed * 10^(Frac - decimals) = answer.s * 10^Frac + answer.t
                  /\ answer.ok => answer.t \in 0 .. 10^Frac - 1
             [] layouts # {} ->
                  /\ answer.ok <=> valid /\ (layout[3] = "" => Mktime(local) # {})
                  /\ answer.ok =>
                       /\ answer.s = local - (IF layout[3] = "" THEN ZoneShift(answer.s)
                                              ELSE sign * r.zone)
                       /\ answer.t = Fraction([i \in DOMAIN r.fraction |->
                                                 Digits[r.fraction[i] + 1]])
             [] OTHER -> ~answer.ok

(* What may run together when one format follows another: an octal escape  *)
(* that is still open, a %B and its selector, a %U or %G and their S.      *)
Fused(u, v) ==
  LET open == {i \in DOMAIN u : /\ u[i] = "\\" /\ i < Len(u) /\ i >= Len(u) - 2
                                /\ \A j \in i + 1 .. Len(u) : u[j] \in P!OctalDigits}
      ends == P!Compile(u).atoms
      last == IF ends # <<>> /\ Last(ends).a = "directive" THEN Last(ends).kind ELSE ""
  IN  \/ open # {} /\ v[1] \in P!OctalDigits
      \/ last = "B" /\ v[1] \in P!Letters \cup {"@", "+"}
      \/ last \in {"U", "G"} /\ v[1] = "S"

(* The printed field of a number: its sign and digits among the padding.   *)
FieldHolds(out, kind, field) ==
  LET shown == SelectSeq(out, LAMBDA b : b # " ")
      sign == IF kind = "d" /\ "+" \in field.flags THEN 1 ELSE 0
      number == SubSeq(shown, sign + 1, Len(shown))
  IN  /\ Len(out) >= field.width
      /\ kind \in {"d", "m"} =>
           /\ sign = 1 => shown[1] = "+"
           /\ ToSet(number) \subseteq P!Digits
           /\ FoldLeft(LAMBDA n, b : 10 * n + P!DigitOf(b), 0, number)
                = FoldLeft(LAMBDA n, b : 10 * n + P!DigitOf(b), 0, Value[kind])
           /\ Len(out) = Max({field.width, sign + Len(Value[kind]),
                              IF field.cut THEN sign + field.precision ELSE 0,
                              IF "#" \in field.flags /\ kind = "m"
                              THEN Len(Value[kind]) + 1 ELSE 0})
           /\ out # shown => ("-" \in field.flags <=> out[1] # " ")
      /\ kind \notin {"d", "m"} /\ field.cut =>
           Len(shown) <= Max({field.precision, 0})

(* A format prints what its parts print, one after the other, up to a \c,  *)
(* except where the parts run together (printf.rs:113-299), and a field    *)
(* keeps its number, whatever flags, width and precision are combined.     *)
FormatsPrintTheirParts ==
  Answered("format") =>
    LET text == question.operand
        program == P!Compile(text)
    IN  /\ \A k \in 1 .. Len(text) - 1 :
             LET u == SubSeq(text, 1, k)
                 v == SubSeq(text, k + 1, Len(text))
                 left == P!Printf(u)
                 right == P!Printf(v)
                 stops == \E i \in DOMAIN P!Compile(u).atoms :
                            P!Compile(u).atoms[i] = P!Stop
             IN  left.ok /\ right.ok /\ ~Fused(u, v) =>
                   /\ answer.ok
                   /\ answer.out = IF stops THEN left.out ELSE left.out \o right.out
        /\ program.ok /\ Len(program.atoms) = 1 /\ program.atoms[1].a = "directive" =>
             FieldHolds(answer.out, program.atoms[1].kind, program.atoms[1].field)

(* A regular expression keeps its meaning on the way to an engine. What is *)
(* read from a text is what any other dialect would read from the same     *)
(* operators spelled its way (regex_match/gnu.rs:158); it is accepted when *)
(* every quantifier has something before it and every reference a group;   *)
(* the tree is that of its brackets; and the engine it is written for reads*)
(* that tree, where its syntax does not take the text for more.            *)
RegexesKeepTheirMeaning ==
  Answered("regex") =>
    LET Kept(read) ==
          IF ~read.ok THEN ~answer.ok
          ELSE /\ R!SpelledAlike(read.tokens)
               /\ R!AcceptedRightly(read.tokens, answer.ok)
               /\ answer.ok => R!Faithful(read.tokens, answer)
    IN  Kept(R!Lex(question.dialect, question.operand))
=============================================================================
