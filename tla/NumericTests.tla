---------------------------- MODULE NumericTests ----------------------------
(***************************************************************************)
(* numeric.rs, size.rs and time.rs: how the operand of a numeric test is   *)
(* read and what it says of a value. An operand is a sequence of one-byte  *)
(* strings. Integers keep the width of their Rust types: MaxU64 and MaxI64 *)
(* are the largest values, and a second has 10^Frac ticks (nanoseconds).   *)
(***************************************************************************)
EXTENDS Integers, Sequences, SequencesExt

CONSTANTS MaxU64, MaxI64, Frac,
          UnitBytes,     \* -size suffix -> bytes; "" for no suffix
          UnitSeconds,   \* "days" and "minutes" -> seconds
          ZoneShift(_)   \* local time minus UTC at a second, from the C library

Digits == <<"0", "1", "2", "3", "4", "5", "6", "7", "8", "9">>
IsDigit(byte) == byte \in ToSet(Digits)
AllDigits(text) == \A i \in DOMAIN text : IsDigit(text[i])
DigitsOf(text) == [i \in DOMAIN text |->
                     CHOOSE n \in 0 .. 9 : Digits[n + 1] = text[i]]
ValueOf(digits) == FoldLeft(LAMBDA n, d : 10 * n + d, 0, digits)
Bad == [ok |-> FALSE]

(* The kind of comparison and what follows its sign. *)
Sign(text) ==
  CASE text # <<>> /\ text[1] = "+" -> [kind |-> "more", rest |-> Tail(text)]
    [] text # <<>> /\ text[1] = "-" -> [kind |-> "less", rest |-> Tail(text)]
    [] OTHER -> [kind |-> "exactly", rest |-> text]

Compared(kind, actual, expected) ==
  CASE kind = "exactly" -> actual = expected
    [] kind = "less" -> actual < expected
    [] kind = "more" -> actual > expected

(* str::parse::<u64>, which takes one leading plus of its own. *)
ParseU64(text) ==
  LET digits == IF text # <<>> /\ text[1] = "+" THEN Tail(text) ELSE text
  IN  IF digits = <<>> \/ ~AllDigits(digits) THEN Bad
      ELSE IF ValueOf(DigitsOf(digits)) > MaxU64 THEN Bad
      ELSE [ok |-> TRUE, value |-> ValueOf(DigitsOf(digits))]

(* parse_numeric_argument. *)
ParseNumeric(text) ==
  LET s == Sign(text)
      n == ParseU64(s.rest)
  IN  IF n.ok THEN [ok |-> TRUE, kind |-> s.kind, value |-> n.value] ELSE Bad

(* parse_size_argument: an optional unit, then a sign and nothing but digits. *)
ParseSize(text) ==
  LET unit == IF text # <<>> /\ Last(text) \in DOMAIN UnitBytes
              THEN Last(text) ELSE ""
      number == IF unit = "" THEN text ELSE Front(text)
      s == Sign(number)
      n == ParseU64(s.rest)
  IN  IF AllDigits(s.rest) /\ n.ok
      THEN [ok |-> TRUE, kind |-> s.kind, value |-> n.value,
            unit |-> UnitBytes[unit]]
      ELSE Bad

(* Mutant: sizes round down to units. *)
RoundedDownUnits(size, unit) == size \div unit

(* rounded_up_units: written so that size + unit is never formed. *)
RoundedUpUnits(size, unit) == IF size = 0 THEN 0 ELSE 1 + (size - 1) \div unit

SizeMatches(m, size) == Compared(m.kind, RoundedUpUnits(size, m.unit), m.value)

-----------------------------------------------------------------------------
TrimZeros(digits) ==
  LET from == {i \in DOMAIN digits : digits[i] # 0} \cup {Len(digits)}
  IN  SubSeq(digits, Min(from), Len(digits))

(* TimeAmount::from_str: trailing zeros of the fraction go first, then     *)
(* leading zeros of the whole number of digits.                            *)
ParseAmount(text) ==
  LET dots == {i \in DOMAIN text : text[i] = "."}
      whole == IF dots = {} THEN text ELSE SubSeq(text, 1, Min(dots) - 1)
      frac == IF dots = {} THEN <<>> ELSE SubSeq(text, Min(dots) + 1, Len(text))
      kept == Max({0} \cup {i \in DOMAIN frac : frac[i] # "0"})
  IN  IF whole = <<>> \/ (dots # {} /\ frac = <<>>) \/ ~AllDigits(whole \o frac)
      THEN Bad
      ELSE [ok |-> TRUE, scale |-> kept,
            digits |-> TrimZeros(DigitsOf(whole \o SubSeq(frac, 1, kept)))]

ParseTime(text) ==
  LET s == Sign(text)
      amount == ParseAmount(s.rest)
  IN  IF amount.ok THEN [ok |-> TRUE, kind |-> s.kind, amount |-> amount] ELSE Bad

(* integral_value: none when there is a fraction or the number is too big. *)
IsIntegral(amount) == amount.scale = 0 /\ ValueOf(amount.digits) <= MaxI64

(* multiply_decimal_digits, from the last digit with a carry.              *)
RECURSIVE CarryDigits(_)
CarryDigits(n) == IF n = 0 THEN <<>> ELSE Append(CarryDigits(n \div 10), n % 10)
MultiplyDigits(digits, by) ==
  LET Step(acc, d) ==
        [carry |-> (d * by + acc.carry) \div 10,
         done |-> <<(d * by + acc.carry) % 10>> \o acc.done]
      all == FoldLeft(Step, [carry |-> 0, done |-> <<>>], Reverse(digits))
  IN  CarryDigits(all.carry) \o all.done

(* Mutant: a carry out of the first digit is lost. *)
IncrementInPlace(digits) ==
  LET last == Max({0} \cup {i \in DOMAIN digits : digits[i] # 9})
  IN  [i \in DOMAIN digits |-> IF i > last THEN 0 ELSE IF i = last
                               THEN digits[i] + 1 ELSE digits[i]]

(* increment_decimal_digits. *)
IncrementDigits(digits) ==
  LET last == Max({0} \cup {i \in DOMAIN digits : digits[i] # 9})
      zeros == [i \in DOMAIN digits |-> IF i > last THEN 0 ELSE IF i = last
                                        THEN digits[i] + 1 ELSE digits[i]]
  IN  IF last = 0 THEN <<1>> \o zeros ELSE zeros

(* quantized_nanoseconds_digits: seconds with scale decimals, in ticks.    *)
QuantizedDigits(digits, scale, rounding) ==
  LET cut == scale - Frac
      split == Len(digits) - cut
      Lost(from) == \E i \in from .. Len(digits) : digits[i] # 0
  IN  CASE scale <= Frac ->
             TrimZeros(digits \o [i \in 1 .. Frac - scale |-> 0])
        [] scale > Frac /\ cut >= Len(digits) ->
             IF rounding = "ceil" /\ Lost(1) THEN <<1>> ELSE <<0>>
        [] OTHER ->
             IF rounding = "ceil" /\ Lost(split + 1)
             THEN IncrementDigits(TrimZeros(SubSeq(digits, 1, split)))
             ELSE TrimZeros(SubSeq(digits, 1, split))

(* A timestamp is <<seconds, ticks>>. A boundary is one of them, or lies   *)
(* before or after all that an i64 of seconds can hold.                    *)
At(seconds, ticks) == [at |-> "finite", s |-> seconds, t |-> ticks]
BeforeAll == [at |-> "before"]
AfterAll == [at |-> "after"]
Fits(seconds) == seconds \in -MaxI64 - 1 .. MaxI64

(* quantize_offset; an offset of too many seconds overflows. *)
QuantizeOffset(amount, unit, rounding) ==
  LET ticks == QuantizedDigits(MultiplyDigits(amount.digits, unit), amount.scale,
                               rounding)
      seconds == ValueOf(SubSeq(ticks, 1, Len(ticks) - Frac))
  IN  [overflow |-> seconds > MaxI64, s |-> seconds,
       t |-> ValueOf(TrimZeros(ticks)) % 10^Frac]

ShiftByUnits(time, unit, delta) ==
  CASE ~Fits(unit * delta) -> IF delta < 0 THEN AfterAll ELSE BeforeAll
    [] Fits(unit * delta) /\ ~Fits(time[1] - unit * delta) ->
         IF unit * delta < 0 THEN AfterAll ELSE BeforeAll
    [] OTHER -> At(time[1] - unit * delta, time[2])

(* Mutant: no second is borrowed for the ticks. *)
ShiftWithoutBorrow(time, offset) ==
  IF offset.overflow \/ ~Fits(time.s - offset.s) THEN BeforeAll
  ELSE At(time.s - offset.s, (time.t - offset.t) % 10^Frac)

(* shift_timestamp_by_offset: a second is borrowed when the ticks run short. *)
ShiftByOffset(time, offset) ==
  LET seconds == time.s - offset.s
  IN  CASE offset.overflow \/ ~Fits(seconds) -> BeforeAll
        [] ~offset.overflow /\ Fits(seconds) /\ time.t >= offset.t ->
             At(seconds, time.t - offset.t)
        [] OTHER -> IF Fits(seconds - 1)
                    THEN At(seconds - 1, time.t + 10^Frac - offset.t)
                    ELSE BeforeAll

ThresholdBoundary(baseline, amount, unit, delta, rounding) ==
  LET adjusted == ShiftByUnits(baseline, unit, delta)
  IN  IF adjusted.at = "finite"
      THEN ShiftByOffset(adjusted, QuantizeOffset(amount, unit, rounding))
      ELSE adjusted

Later(a, b) == a[1] > b[1] \/ (a[1] = b[1] /\ a[2] > b[2])
AfterBoundary(actual, b) ==
  b.at = "before" \/ (b.at = "finite" /\ Later(actual, <<b.s, b.t>>))
BeforeBoundary(actual, b) ==
  b.at = "after" \/ (b.at = "finite" /\ Later(<<b.s, b.t>>, actual))
UpToBoundary(actual, b) ==
  b.at = "after" \/ (b.at = "finite" /\ ~Later(actual, <<b.s, b.t>>))

(* comparison_shifts and rolling_window_shifts; -used shifts like minutes. *)
Shifts(unit, daystart) ==
  CASE unit = "days" /\ daystart -> [exact |-> 1, less |-> -1, more |-> 0]
    [] unit = "days" /\ ~daystart -> [exact |-> 0, less |-> 0, more |-> 1]
    [] OTHER -> [exact |-> 1, less |-> 0, more |-> 0]

(* matches_time_window. *)
InWindow(c, baseline, actual, unit, shifts) ==
  LET Boundary(delta, rounding) ==
        ThresholdBoundary(baseline, c.amount, unit, delta, rounding)
  IN  CASE c.kind = "exactly" ->
             /\ UpToBoundary(actual, Boundary(-shifts.exact, "ceil"))
             /\ AfterBoundary(actual, Boundary(1 - shifts.exact, "floor"))
        [] c.kind = "less" -> AfterBoundary(actual, Boundary(shifts.less, "ceil"))
        [] c.kind = "more" ->
             BeforeBoundary(actual, Boundary(shifts.more, "floor"))

(* local_calendar_day and local_day_start, by what the C library answers.  *)
LocalDay(time) == (time[1] + ZoneShift(time[1])) \div UnitSeconds["days"]
LocalDayStart(now) ==
  <<CHOOSE s \in now[1] - 2 * UnitSeconds["days"] .. now[1] :
      /\ LocalDay(<<s, 0>>) = LocalDay(now)
      /\ LocalDay(<<s - 1, 0>>) # LocalDay(now), 0>>

(* matches_timestamp_checked: whole days since -daystart are calendar days. *)
TimeMatches(c, unit, daystart, now, actual) ==
  LET baseline == IF daystart THEN LocalDayStart(now) ELSE now
  IN  IF daystart /\ unit = "days" /\ IsIntegral(c.amount)
      THEN Compared(c.kind, LocalDay(baseline) - LocalDay(actual),
                    ValueOf(c.amount.digits))
      ELSE InWindow(c, baseline, actual, UnitSeconds[unit], Shifts(unit, daystart))

(* UsedMatcher: the age of the last change when the file was last read;    *)
(* strict is used_requires_strict_atime_after_ctime, true on OpenBSD.      *)
UsedMatches(c, atime, ctime, strict) ==
  /\ ~Later(ctime, atime)
  /\ strict => atime # ctime
  /\ InWindow(c, atime, ctime, UnitSeconds["days"], Shifts("used", FALSE))

-----------------------------------------------------------------------------
(* The same by exact arithmetic. An operand is read as written: a size in  *)
(* started units, an age in units as a fraction digits / 10^scale. One of  *)
(* more seconds than an i64 holds is longer than every age. An age is a    *)
(* whole number of ticks, and a window that ends within a tick leaves that *)
(* tick out: an age is in it if the next one does not pass its end.        *)
InStartedUnits(kind, size, unit, n) ==
  CASE kind = "exactly" -> size <= n * unit /\ size > (n - 1) * unit
    [] kind = "less" -> size <= (n - 1) * unit
    [] kind = "more" -> size > n * unit

Ticks(time) == time[1] * 10^Frac + time[2]
AgeIs(kind, age, c, unit, shifts) ==
  LET ten == 10^c.amount.scale
      units == ValueOf(c.amount.digits)
      Bound(delta) == (units + delta * ten) * unit * 10^Frac
  IN  CASE (units * unit) \div ten > MaxI64 -> kind = "less"
        [] kind = "exactly" -> /\ age * ten >= Bound(-shifts.exact)
                               /\ (age + 1) * ten <= Bound(1 - shifts.exact)
        [] kind = "less" -> age * ten < Bound(shifts.less)
        [] kind = "more" -> age * ten > Bound(shifts.more)
=============================================================================
