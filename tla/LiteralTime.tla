---------------------------- MODULE LiteralTime ----------------------------
(***************************************************************************)
(* literal_time.rs: the times -newerXt accepts. A text is a sequence of    *)
(* one-byte strings; a timestamp is seconds since 1970 and ticks, of which *)
(* a second has 10^Frac. The C library's time zone is ZoneShift.           *)
(***************************************************************************)
EXTENDS NumericTests

Byte(text, i) == IF i \in DOMAIN text THEN text[i] ELSE ""
Find(text, bytes, from) ==
  Min({Len(text) + 1} \cup {i \in from .. Len(text) : text[i] \in bytes})
Number(text, a, b) == ValueOf(DigitsOf(SubSeq(text, a, b)))
AreDigits(text, a, b) == b <= Len(text) /\ AllDigits(SubSeq(text, a, b))

(* parse_fractional_nanos: the first digits, the rest is cut off.          *)
Fraction(frac) ==
  ValueOf([i \in 1 .. Frac |->
             IF i <= Len(frac) THEN DigitsOf(frac)[i] ELSE 0])

(* split_once('.'): a dot needs something after it. *)
SplitAtDot(text) ==
  LET dot == Find(text, {"."}, 1)
  IN  [base |-> SubSeq(text, 1, dot - 1), frac |-> SubSeq(text, dot + 1, Len(text)),
       ok |-> dot # Len(text)
              /\ AllDigits(SubSeq(text, dot + 1, Len(text)))]

Moment(seconds, ticks) == [ok |-> TRUE, s |-> seconds, t |-> ticks]

(* Mutant: the fraction of a time before 1970 counts forward. *)
EpochWithoutBorrow(raw) ==
  LET negative == Byte(raw, 1) = "-"
      split == SplitAtDot(IF Byte(raw, 1) \in {"+", "-"} THEN Tail(raw) ELSE raw)
      whole == ValueOf(DigitsOf(split.base))
  IN  IF ~split.ok \/ split.base = <<>> \/ ~AllDigits(split.base) THEN Bad
      ELSE Moment(IF negative THEN -whole ELSE whole, Fraction(split.frac))

(* parse_epoch_seconds: a negative time with a fraction borrows a second.  *)
Epoch(raw) ==
  LET negative == Byte(raw, 1) = "-"
      split == SplitAtDot(IF Byte(raw, 1) \in {"+", "-"} THEN Tail(raw) ELSE raw)
      whole == ValueOf(DigitsOf(split.base))
      ticks == Fraction(split.frac)
  IN  CASE \/ ~split.ok \/ split.base = <<>> \/ ~AllDigits(split.base)
           \/ whole > MaxI64 -> Bad
        [] ~negative -> Moment(whole, ticks)
        [] OTHER -> IF ticks = 0 THEN Moment(-whole, 0)
                    ELSE Moment(-whole - 1, 10^Frac - ticks)

IsLeapYear(y) == (y % 4 = 0 /\ y % 100 # 0) \/ y % 400 = 0
DaysInMonth(y, m) ==
  CASE m \in {1, 3, 5, 7, 8, 10, 12} -> 31
    [] m \in {4, 6, 9, 11} -> 30
    [] OTHER -> IF IsLeapYear(y) THEN 29 ELSE 28
ValidDate(y, m, d) == m \in 1 .. 12 /\ d \in 1 .. DaysInMonth(y, m)
ValidTime(h, m, s) == h <= 23 /\ m <= 59 /\ s <= 59

(* Mutant: the era of a year before 0 is rounded towards zero. *)
TruncatedEra(year, month, day) ==
  LET y == IF month <= 2 THEN year - 1 ELSE year
      era == IF y >= 0 THEN y \div 400 ELSE -((-y) \div 400)
      yoe == y - era * 400
      doy == (153 * (month + IF month > 2 THEN -3 ELSE 9) + 2) \div 5 + day - 1
  IN  era * 146097 + yoe * 365 + yoe \div 4 - yoe \div 100 + doy - 719468

(* days_from_civil, here and in time.rs: years begin in March.             *)
DaysFromCivil(year, month, day) ==
  LET y == IF month <= 2 THEN year - 1 ELSE year
      era == IF y >= 0 THEN y \div 400 ELSE -((399 - y) \div 400)
      yoe == y - era * 400
      doy == (153 * (month + IF month > 2 THEN -3 ELSE 9) + 2) \div 5 + day - 1
  IN  era * 146097 + yoe * 365 + yoe \div 4 - yoe \div 100 + doy - 719468

(* parse_date: YYYY-MM-DD or YYYYMMDD.                                     *)
ParseDate(text) ==
  LET Date(m, d, shape) ==
        IF /\ AreDigits(text, 1, 4) /\ AreDigits(text, m, m + 1)
           /\ AreDigits(text, d, d + 1)
           /\ ValidDate(Number(text, 1, 4), Number(text, m, m + 1),
                        Number(text, d, d + 1))
        THEN [ok |-> TRUE, shape |-> shape,
              day |-> DaysFromCivil(Number(text, 1, 4), Number(text, m, m + 1),
                                    Number(text, d, d + 1))]
        ELSE Bad
  IN  CASE Len(text) = 10 /\ text[5] = "-" /\ text[8] = "-" ->
             Date(6, 9, "delimited")
        [] Len(text) = 8 -> Date(5, 7, "compact")
        [] OTHER -> Bad

(* split_zone_suffix and parse_offset: where the zone starts and its shift *)
(* in seconds; the first sign behind the first byte starts it.             *)
Zone(text) ==
  LET from == Find(text, {"+", "-"}, 2)
      body == SubSeq(text, from + 1, Len(text))
      hhmm == IF Len(body) = 5 /\ body[3] = ":"
              THEN SubSeq(body, 1, 2) \o SubSeq(body, 4, 5)
              ELSE IF Len(body) = 2 THEN body \o <<"0", "0">>
              ELSE IF Len(body) = 4 THEN body
              ELSE <<>>
      sign == IF Byte(text, from) = "-" THEN -1 ELSE 1
      Suffix(at, local, shift) ==
        [ok |-> TRUE, at |-> at, local |-> local, shift |-> shift]
  IN  CASE Byte(text, Len(text)) = "Z" -> Suffix(Len(text), FALSE, 0)
        [] Byte(text, Len(text)) # "Z" /\ from > Len(text) ->
             Suffix(from, TRUE, 0)
        [] OTHER ->
             IF AreDigits(hhmm, 1, 4) /\ Number(hhmm, 1, 2) <= 23
                                      /\ Number(hhmm, 3, 4) <= 59
             THEN Suffix(from, FALSE, sign * (3600 * Number(hhmm, 1, 2)
                                              + 60 * Number(hhmm, 3, 4)))
             ELSE Bad

(* parse_coloned_clock and parse_compact_hhmm, as second of the day.       *)
ParseHours(base) ==
  LET len == Len(base)
      coloned == len \in {5, 8} /\ \A i \in {3, 6} : i < len => base[i] = ":"
      minutes == IF len = 4 THEN 3 ELSE 4
      h == Number(base, 1, 2)
      m == Number(base, minutes, minutes + 1)
      s == IF len = 8 THEN Number(base, 7, 8) ELSE 0
  IN  IF /\ coloned \/ len = 4
         /\ AreDigits(base, 1, 2) /\ AreDigits(base, minutes, minutes + 1)
         /\ len = 8 => AreDigits(base, 7, 8)
         /\ ValidTime(h, m, s)
      THEN [ok |-> TRUE, second |-> 3600 * h + 60 * m + s, seconds |-> len = 8]
      ELSE Bad

(* parse_clock. A zone needs a date with dashes and a time with colons; a  *)
(* T after such a date needs the colons too; a fraction needs seconds.     *)
ParseClock(text, shape, separator) ==
  LET zone == Zone(text)
      clock == SubSeq(text, 1, zone.at - 1)
      coloned == ":" \in ToSet(clock)
      split == SplitAtDot(clock)
      hours == ParseHours(split.base)
  IN  IF /\ zone.ok
         /\ ~zone.local => shape = "delimited" /\ coloned
         /\ (shape = "delimited" /\ separator = "T") => coloned
         /\ split.ok /\ hours.ok
         /\ coloned \/ Len(split.base) = 4
         /\ split.frac # <<>> => hours.seconds
      THEN [ok |-> TRUE, second |-> hours.second, t |-> Fraction(split.frac),
            local |-> zone.local, shift |-> zone.shift]
      ELSE Bad

(* local_timestamp: mktime moves a time that the zone skips, which the     *)
(* comparison of the fields notices; of two such times it returns one.     *)
Mktime(local) ==
  {s \in {local - shift : shift \in {ZoneShift(local + k * 3600) : k \in -24 .. 24}} :
     s + ZoneShift(s) = local}
Local(day, second, ticks) ==
  LET found == Mktime(day * 86400 + second)
  IN  IF found = {} THEN Bad ELSE Moment(CHOOSE s \in found : TRUE, ticks)

(* parse_date_time, split at the first T or else the first space.          *)
DateTime(text) ==
  LET at == IF "T" \in ToSet(text) THEN Find(text, {"T"}, 1)
            ELSE Find(text, {" "}, 1)
      date == ParseDate(SubSeq(text, 1, at - 1))
      clock == ParseClock(SubSeq(text, at + 1, Len(text)), date.shape, text[at])
  IN  CASE at > Len(text) \/ ~date.ok -> Bad
        [] at <= Len(text) /\ date.ok /\ ~clock.ok -> Bad
        [] OTHER -> IF clock.local
                    THEN Local(date.day, clock.second, clock.t)
                    ELSE Moment(date.day * 86400 + clock.second - clock.shift,
                                clock.t)

(* parse_literal_time. *)
ParseLiteralTime(text) ==
  LET date == ParseDate(text)
      midnight == Local(date.day, 0, 0)
  IN  CASE Byte(text, 1) = "@" -> Epoch(Tail(text))
        [] Byte(text, 1) # "@" /\ date.ok /\ midnight.ok -> midnight
        [] OTHER -> DateTime(text)

-----------------------------------------------------------------------------
(* The forms a time may have: its text with every digit written as 0. Only *)
(* @ takes any number of digits, and so does a fraction.                   *)
Shape(text) == [i \in DOMAIN text |-> IF IsDigit(text[i]) THEN "0" ELSE text[i]]
Word(shape) == FoldLeft(LAMBDA s, c : s \o c, "", shape)

Dashed == "0000-00-00"
Dates == {Dashed, "00000000"}
Fractions == {"0", "00", "000", "0000", "00000", "000000"}   \* as many as one likes
ClockShapes == {"00:00", "00:00:00"} \cup {"00:00:00." \o f : f \in Fractions}
Clocks == {s \o c : s \in {"T", " "}, c \in ClockShapes}
Zones == {"Z", "+00", "-00", "+0000", "-0000", "+00:00", "-00:00"}
Layouts ==
  (Dates \X ({"", " 0000"} \cup Clocks) \X {""})
  \cup ({Dashed} \X Clocks \X Zones) \cup {<<"00000000", "T0000", "">>}

(* What a text of this layout says, reading its digits from the left.      *)
Reading(text, layout) ==
  LET digits == DigitsOf(SelectSeq(text, IsDigit))
      N(from, has) == IF has THEN 10 * digits[from] + digits[from + 1] ELSE 0
      clock == layout[2]
      zoned == CASE layout[3] \in {"", "Z"} -> 0
                 [] layout[3] \in {"+00", "-00"} -> 2
                 [] OTHER -> 4
      zone == Len(digits) - zoned
  IN  [year |-> 100 * N(1, TRUE) + N(3, TRUE), month |-> N(5, TRUE), day |-> N(7, TRUE),
       hour |-> N(9, clock # ""), minute |-> N(11, clock # ""),
       second |-> N(13, Len(clock) >= 9),
       fraction |-> SubSeq(digits, 15, zone),
       zone |-> 3600 * N(zone + 1, zoned > 0) + 60 * N(zone + 3, zoned = 4),
       zoneOk |-> N(zone + 1, zoned > 0) < 24 /\ N(zone + 3, zoned = 4) < 60]

EpochShapes ==
  {"@" \o sign \o w \o f : sign \in {"", "+", "-"}, w \in {"0", "00", "000", "0000"},
                           f \in {""} \cup {"." \o d : d \in Fractions}}

(* Counting days from one month to the next. *)
NextMonth(y, m) == IF m = 12 THEN <<y + 1, 1>> ELSE <<y, m + 1>>
CountsDays(y, m) ==
  LET next == NextMonth(y, m)
      first == DaysFromCivil(y, m, 1)
  IN  /\ DaysFromCivil(next[1], next[2], 1) = first + DaysInMonth(y, m)
      /\ \A d \in 1 .. DaysInMonth(y, m) : DaysFromCivil(y, m, d) = first + d - 1
      /\ DaysFromCivil(1970, 1, 1) = 0
=============================================================================
