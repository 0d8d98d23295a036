--------------------------- MODULE PrintfProgram ---------------------------
(***************************************************************************)
(* printf.rs: a -printf format is compiled into literals, directives and   *)
(* stops, and rendered for an entry. A text is a sequence of one-byte      *)
(* strings; "#n" is the byte of code n, which an escape made. What a       *)
(* directive prints of an entry, before it is put into its field, is       *)
(* Value[kind].                                                            *)
(***************************************************************************)
EXTENDS Integers, Sequences, SequencesExt

CONSTANTS MaxUsize,         \* the largest usize
          Value,            \* kind of directive -> bytes
          ZeroPadsStrings   \* platform::printf_zero_pads_string_fields

At(text, i) == IF i \in DOMAIN text THEN text[i] ELSE ""
OctalDigits == {"0", "1", "2", "3", "4", "5", "6", "7"}
Digits == OctalDigits \cup {"8", "9"}
Letters == {"a", "b", "c", "d", "e", "f", "g", "h", "i", "j", "k", "l", "m", "n", "o",
            "p", "q", "r", "s", "t", "u", "v", "w", "x", "y", "z", "A", "B", "C", "D",
            "E", "F", "G", "H", "I", "J", "K", "L", "M", "N", "O", "P", "Q", "R", "S",
            "T", "U", "V", "W", "X", "Y", "Z"}
DigitOf(byte) == CHOOSE n \in 0 .. 9 : ToString(n) = byte
ByteOf(code) == "#" \o ToString(code)
Bad == [ok |-> FALSE]

-----------------------------------------------------------------------------
(* parse_escape, but for octal digits and \c. *)
EscapeLetters == {"a", "b", "f", "n", "r", "t", "v", "\\"}
Escape(byte) ==
  CASE byte = "a" -> ByteOf(7) [] byte = "b" -> ByteOf(8) [] byte = "f" -> ByteOf(12)
    [] byte = "n" -> ByteOf(10) [] byte = "r" -> ByteOf(13) [] byte = "t" -> ByteOf(9)
    [] byte = "v" -> ByteOf(11) [] byte = "\\" -> "\\"

(* Mutant: any number of octal digits is taken. *)
AllOctalDigits(text, i) ==
  LET end == Min({j \in i + 1 .. Len(text) + 1 : At(text, j) \notin OctalDigits})
  IN  [next |-> end,
       byte |-> ByteOf(FoldLeft(LAMBDA n, d : 8 * n + DigitOf(d), 0,
                                SubSeq(text, i, end - 1)) % 256)]

(* parse_octal_escape: up to three digits, of which a byte keeps eight bits. *)
OctalEscape(text, i) ==
  LET end == Min({j \in i + 1 .. i + 3 : j = i + 3 \/ At(text, j) \notin OctalDigits})
  IN  [next |-> end,
       byte |-> ByteOf(FoldLeft(LAMBDA n, d : 8 * n + DigitOf(d), 0,
                                SubSeq(text, i, end - 1)) % 256)]

(* Directives of one letter; those of a letter and a time selector (for B  *)
(* only if a letter, @ or + follows); those that an S may follow.          *)
Plain == {"a", "c", "t", "p", "P", "H", "f", "h", "d", "y", "Y", "s", "S", "m",
          "M", "l", "i", "n", "D", "b", "k", "u", "U", "g", "G", "F", "B"}
TimeFamilies == {"A", "C", "T"}
Selectors ==
  {"@", "+", "a", "A", "b", "B", "c", "d", "D", "F", "g", "G", "h", "H", "I", "j",
   "m", "M", "p", "r", "R", "S", "t", "T", "u", "U", "V", "w", "W", "x", "X", "y",
   "Y", "z", "Z"}

(* The first position from i on that holds none of the bytes. *)
After(text, i, bytes) == Min({j \in i .. Len(text) + 1 : At(text, j) \notin bytes})

(* parse_optional_usize: the number the digits between two positions make; *)
(* no more than a usize.                                                   *)
Number(text, from, to) ==
  FoldLeft(LAMBDA m, d : Min({10 * m + DigitOf(d), MaxUsize + 1}), 0,
           SubSeq(text, from, to - 1))

(* What comes behind flags, width and precision: a letter, or two.         *)
Kind(text, at) ==
  LET letter == At(text, at)
      selector == At(text, at + 1)
  IN  CASE \/ letter \in TimeFamilies
           \/ letter = "B" /\ selector \in Letters \cup {"@", "+"} ->
             IF selector \in Selectors THEN letter \o selector ELSE ""
        [] letter \in {"U", "G"} /\ selector = "S" -> letter \o "S"
        [] letter \in Plain /\ ~(letter \in {"U", "G"} /\ selector = "S") -> letter
        [] OTHER -> ""

(* parse_directive: flags, width, precision, and what is to be printed.    *)
Directive(text, i) ==
  LET flags == After(text, i, {"-", "0", "+", "#"})
      width == After(text, flags, Digits)
      dotted == At(text, width) = "."
      at == IF dotted THEN After(text, width + 1, Digits) ELSE width
      Found(kind, wide, precision) ==
        [ok |-> /\ kind # "" /\ wide <= MaxUsize /\ precision <= MaxUsize
                /\ dotted => at > width + 1,
         next |-> at + (IF kind \in Plain THEN 1 ELSE 2), kind |-> kind,
         field |-> [flags |-> {text[j] : j \in i .. flags - 1}, width |-> wide,
                    cut |-> dotted, precision |-> precision]]
  IN  Found(Kind(text, at), Number(text, flags, width),
            IF dotted THEN Number(text, width + 1, at) ELSE 0)

Literal(bytes) == [a |-> "literal", bytes |-> bytes]
Stop == [a |-> "stop"]

(* The piece of a format that starts at i, and where the next one starts:  *)
(* bytes, which join a literal, or an atom of its own.                     *)
Piece(text, i) ==
  LET Bytes(bytes, next) == [ok |-> TRUE, next |-> next, bytes |-> bytes, atom |-> <<>>]
      Cut(atom, next) == [ok |-> TRUE, next |-> next, bytes |-> <<>>, atom |-> <<atom>>]
      Octal(escape) == Bytes(<<escape.byte>>, escape.next)
      Directed(d) == IF d.ok THEN Cut([a |-> "directive", kind |-> d.kind,
                                       field |-> d.field], d.next)
                     ELSE Bad
      here == At(text, i)
      after == At(text, i + 1)
  IN  CASE here \in {"%", "\\"} /\ after = "" -> Bad
        [] here = "%" /\ after = "%" -> Cut(Literal(<<"%">>), i + 2)
        [] here = "%" /\ after \notin {"", "%"} -> Directed(Directive(text, i + 1))
        [] here = "\\" /\ after \in EscapeLetters -> Bytes(<<Escape(after)>>, i + 2)
        [] here = "\\" /\ after = "c" -> Cut(Stop, i + 2)
        [] here = "\\" /\ after \in OctalDigits -> Octal(OctalEscape(text, i + 1))
        [] here = "\\" /\ after # "" -> Bytes(<<"\\", after>>, i + 2)
        [] OTHER -> Bytes(<<here>>, i + 1)

RECURSIVE CompileFrom(_, _, _, _)

(* compile_printf_program: a literal grows until a directive, a %% or a \c *)
(* cuts it off.                                                            *)
CompileFrom(text, i, atoms, literal) ==
  LET flushed == IF literal = <<>> THEN atoms ELSE Append(atoms, Literal(literal))
      Continue(piece) ==
        CASE ~piece.ok -> Bad
          [] piece.ok /\ piece.atom = <<>> ->
               CompileFrom(text, piece.next, atoms, literal \o piece.bytes)
          [] OTHER -> CompileFrom(text, piece.next, flushed \o piece.atom, <<>>)
  IN  IF i > Len(text) THEN [ok |-> TRUE, atoms |-> flushed]
      ELSE Continue(Piece(text, i))

Compile(text) == CompileFrom(text, 1, <<>>, <<>>)

-----------------------------------------------------------------------------
Copies(byte, n) == [i \in 1 .. n |-> byte]

(* pad_field. *)
Pad(bytes, field, byte) ==
  LET padding == Copies(byte, Max({0, field.width - Len(bytes)}))
  IN  IF "-" \in field.flags THEN bytes \o padding ELSE padding \o bytes

(* format_string_like: a precision shortens, 0 pads where the platform's   *)
(* printf does.                                                            *)
StringField(bytes, field) ==
  LET shown == IF field.cut THEN SubSeq(bytes, 1, Min({Len(bytes), field.precision}))
               ELSE bytes
      zero == "0" \in field.flags /\ ~field.cut /\ ZeroPadsStrings
  IN  Pad(shown, field, IF zero THEN "0" ELSE " ")

(* Mutant: zeros are put before the sign. *)
ZerosBeforeSign(digits, sign, field) ==
  Pad(sign \o Copies("0", IF field.cut THEN field.precision - Len(digits) ELSE 0)
           \o digits, field,
      IF "0" \in field.flags /\ ~field.cut /\ "-" \notin field.flags
      THEN "0" ELSE " ")

(* format_numeric_value: a precision lengthens with zeros, 0 pads between  *)
(* the sign and the digits unless the field is left-aligned.               *)
NumericField(digits, sign, field) ==
  LET long == Copies("0", IF field.cut THEN field.precision - Len(digits) ELSE 0)
                \o digits
      zero == "0" \in field.flags /\ ~field.cut /\ "-" \notin field.flags
      zeros == Copies("0", Max({0, field.width - Len(sign \o long)}))
  IN  IF zero THEN sign \o zeros \o long ELSE Pad(sign \o long, field, " ")

(* render_directive_bytes: %d may have a sign, %m a leading zero.          *)
RenderDirective(kind, field) ==
  CASE kind = "d" ->
         NumericField(Value["d"], IF "+" \in field.flags THEN <<"+">> ELSE <<>>, field)
    [] kind = "m" ->
         NumericField((IF "#" \in field.flags /\ Value["m"][1] # "0"
                       THEN <<"0">> ELSE <<>>) \o Value["m"], <<>>, field)
    [] OTHER -> StringField(Value[kind], field)

(* render_printf_bytes: a stop ends the record. *)
Render(atoms) ==
  LET stops == {i \in DOMAIN atoms : atoms[i] = Stop} \cup {Len(atoms) + 1}
      Show(atom) == IF atom.a = "literal" THEN atom.bytes
                    ELSE RenderDirective(atom.kind, atom.field)
  IN  FoldLeft(LAMBDA out, atom : out \o Show(atom), <<>>,
               SubSeq(atoms, 1, Min(stops) - 1))

(* What a format prints, or that it is refused. *)
Run(program) ==
  IF program.ok THEN [ok |-> TRUE, out |-> Render(program.atoms)] ELSE Bad

Printf(text) == Run(Compile(text))
=============================================================================
