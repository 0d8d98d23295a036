------------------------------- MODULE Glob --------------------------------
(***************************************************************************)
(* pattern/: a shell pattern is compiled into a program of atoms, which is *)
(* matched by backtracking. Bytes are their codes, texts sequences of them.*)
(* Below it, what a pattern denotes, read off its text without a program.  *)
(***************************************************************************)
EXTENDS Integers, Sequences, SequencesExt

Bang == 33   Star == 42   Minus == 45   Dot == 46   Slash == 47   Equal == 61
Question == 63   Open == 91   Backslash == 92   Close == 93   Caret == 94

At(text, i) == IF i \in DOMAIN text THEN text[i] ELSE -1

(* fold_byte with to_ascii_lowercase. *)
Fold(byte, insensitive) ==
  IF insensitive /\ byte \in 65 .. 90 THEN byte + 32 ELSE byte

-----------------------------------------------------------------------------
(* consume_class_byte: a byte or an escaped one; [. and [= are refused.    *)
ClassByte(p, i) ==
  CASE At(p, i) = Open /\ At(p, i + 1) \in {Dot, Equal} -> [is |-> "refused"]
    [] i > Len(p) -> [is |-> "unclosed"]
    [] At(p, i) = Backslash /\ i < Len(p) ->
         [is |-> "byte", byte |-> p[i + 1], next |-> i + 2]
    [] OTHER -> [is |-> "byte", byte |-> p[i], next |-> i + 1]

RECURSIVE ClassFrom(_, _, _, _)

(* The loop of try_parse_class: the items up to the closing bracket; a     *)
(* minus before that bracket stands for itself.                            *)
ClassFrom(p, i, items, closable) ==
  LET low == ClassByte(p, i)
      isRange == At(p, low.next) = Minus
                   /\ At(p, low.next + 1) \notin {-1, Close}
      high == ClassByte(p, low.next + 1)
  IN  CASE At(p, i) = Close /\ closable ->
             [is |-> "class", items |-> items, next |-> i + 1]
        [] low.is # "byte" -> low
        [] low.is = "byte" /\ ~isRange ->
             ClassFrom(p, low.next, items \cup {<<low.byte, low.byte>>}, TRUE)
        [] OTHER -> IF high.is # "byte" THEN high
                    ELSE ClassFrom(p, high.next,
                                   items \cup {<<low.byte, high.byte>>}, TRUE)

(* try_parse_class from the byte behind the bracket. *)
Class(p, i) ==
  LET negated == At(p, i) \in {Bang, Caret}
      first == IF negated THEN i + 1 ELSE i
      class == IF At(p, first) = Close
               THEN ClassFrom(p, first + 1, {<<Close, Close>>}, TRUE)
               ELSE ClassFrom(p, first, {}, FALSE)
  IN  IF class.is = "class"
      THEN [is |-> "class", next |-> class.next,
            atom |-> [a |-> "class", negated |-> negated, items |-> class.items]]
      ELSE class

Literal(byte) == [a |-> "literal", byte |-> byte]
AnyByte == [a |-> "any"]
AnySequence == [a |-> "sequence"]
Refused == [ok |-> FALSE]

RECURSIVE CompileFrom(_, _, _)

(* compile_pattern: a star after a star adds nothing, a bracket that does  *)
(* not close is a literal, and so is a backslash at the end.               *)
CompileFrom(p, i, program) ==
  LET Go(atom, next) == CompileFrom(p, next, Append(program, atom))
      class == Class(p, i + 1)
  IN  CASE i > Len(p) -> [ok |-> TRUE, program |-> program]
        [] At(p, i) = Backslash -> IF i < Len(p) THEN Go(Literal(p[i + 1]), i + 2)
                                   ELSE Go(Literal(Backslash), i + 1)
        [] At(p, i) = Star ->
             IF program # <<>> /\ Last(program) = AnySequence
             THEN CompileFrom(p, i + 1, program)
             ELSE Go(AnySequence, i + 1)
        [] At(p, i) = Question -> Go(AnyByte, i + 1)
        [] At(p, i) = Open ->
             CASE class.is = "class" -> Go(class.atom, class.next)
               [] class.is = "unclosed" -> Go(Literal(Open), i + 1)
               [] OTHER -> Refused
        [] OTHER -> Go(Literal(p[i]), i + 1)

Compile(p) == CompileFrom(p, 1, <<>>)

(* class_matches. *)
ClassMatches(class, byte, insensitive) ==
  LET b == Fold(byte, insensitive)
  IN  class.negated # \E r \in class.items :
        Fold(r[1], insensitive) <= b /\ b <= Fold(r[2], insensitive)

(* Mutant: a class matches a slash like any other byte. *)
ByteMatchesSlash(atom, byte, insensitive, pathname) ==
  CASE atom.a = "literal" -> Fold(atom.byte, insensitive) = Fold(byte, insensitive)
    [] atom.a = "any" -> byte # Slash \/ ~pathname
    [] OTHER -> ClassMatches(atom, byte, insensitive)

(* What one atom says of one byte: in pathname mode only a literal, and no *)
(* wildcard, matches a slash.                                              *)
ByteMatches(atom, byte, insensitive, pathname) ==
  CASE atom.a = "literal" -> Fold(atom.byte, insensitive) = Fold(byte, insensitive)
    [] atom.a = "any" -> byte # Slash \/ ~pathname
    [] OTHER -> /\ byte # Slash \/ ~pathname
                /\ ClassMatches(atom, byte, insensitive)

RECURSIVE MatchesFrom(_, _, _, _, _, _)

(* matches_from: backtracking over what a star takes. *)
MatchesFrom(program, text, a, t, insensitive, pathname) ==
  CASE a > Len(program) -> t > Len(text)
    [] program[a] = AnySequence ->
         \/ MatchesFrom(program, text, a + 1, t, insensitive, pathname)
         \/ /\ t <= Len(text)
            /\ text[t] # Slash \/ ~pathname
            /\ MatchesFrom(program, text, a, t + 1, insensitive, pathname)
    [] OTHER -> /\ t <= Len(text)
                /\ ByteMatches(program[a], text[t], insensitive, pathname)
                /\ MatchesFrom(program, text, a + 1, t + 1, insensitive, pathname)

GlobMatches(p, text, insensitive, pathname) ==
  LET compiled == Compile(p)
  IN  IF ~compiled.ok THEN "refused"
      ELSE IF MatchesFrom(compiled.program, text, 1, 1, insensitive, pathname)
      THEN "true" ELSE "false"

-----------------------------------------------------------------------------
(* What a pattern denotes. A byte is quoted when an odd number of          *)
(* backslashes stands right before it.                                     *)
Quoted(p, i) ==
  LET run == {k \in 0 .. i - 1 : \A j \in i - k .. i - 1 : p[j] = Backslash}
  IN  Max(run) % 2 = 1
Bare(p, i, byte) == At(p, i) = byte /\ ~Quoted(p, i)

(* A bracket at i is closed by the first bare ] after its first element.   *)
FirstElement(p, i) == IF At(p, i + 1) \in {Bang, Caret} THEN i + 2 ELSE i + 1
Closers(p, i) == {j \in FirstElement(p, i) + 1 .. Len(p) : Bare(p, j, Close)}

(* The positions of its elements, and those of its range signs: a bare     *)
(* minus between two elements that are in no other range.                  *)
Elements(p, i, close) ==
  {j \in FirstElement(p, i) .. close - 1 :
     ~(p[j] = Backslash /\ ~Quoted(p, j) /\ j + 1 < close)}
Before(p, i, close, j) == Max({0} \cup {k \in Elements(p, i, close) : k < j})
RangeSigns(p, i, close) ==
  LET sign[j \in 0 .. close] ==
        LET left == Before(p, i, close, j)
        IN  /\ j \in Elements(p, i, close) /\ left > 0
            /\ Bare(p, j, Minus) /\ j + 1 < close
            /\ ~(left = FirstElement(p, i) /\ p[left] = Close)
            /\ ~sign[left]
            /\ Before(p, i, close, left) > 0 => ~sign[Before(p, i, close, left)]
  IN  {j \in Elements(p, i, close) : sign[j]}

(* Whether the bytes between the brackets include this one. *)
Includes(p, i, close, byte, insensitive) ==
  LET b == Fold(byte, insensitive)
      F(j) == Fold(p[j], insensitive)
      signs == RangeSigns(p, i, close)
      After(j) == CHOOSE k \in Elements(p, i, close) :
                    k > j /\ Before(p, i, close, k) = j
      inRange == {j \in Elements(p, i, close) :
                    \/ j \in signs
                    \/ Before(p, i, close, j) \in signs
                    \/ \E s \in signs : Before(p, i, close, s) = j}
  IN  \/ \E j \in Elements(p, i, close) \ inRange : F(j) = b
      \/ \E s \in signs : F(Before(p, i, close, s)) <= b /\ b <= F(After(s))

(* The pattern's items: where each starts and where the next one does.     *)
ItemEnd(p, i) ==
  CASE Bare(p, i, Backslash) /\ i < Len(p) -> i + 2
    [] Bare(p, i, Open) /\ Closers(p, i) # {} -> Min(Closers(p, i)) + 1
    [] OTHER -> i + 1

(* The ends of the texts an item may stand for, from position t on. *)
Ends(p, i, text, t, insensitive, pathname) ==
  LET wild == t <= Len(text) /\ (text[t] # Slash \/ ~pathname)
      stop == {n \in t .. Len(text) : text[n] = Slash /\ pathname}
      end == ItemEnd(p, i)
      One(does) == IF does THEN {t + 1} ELSE {}
  IN  CASE Bare(p, i, Star) -> t .. Min(stop \cup {Len(text) + 1})
        [] Bare(p, i, Question) -> One(wild)
        [] Bare(p, i, Open) /\ end > i + 1 ->
             One(wild /\ (Includes(p, i, end - 1, text[t], insensitive)
                            # (p[i + 1] \in {Bang, Caret})))
        [] OTHER -> One(t <= Len(text) /\ Fold(p[end - 1], insensitive)
                                            = Fold(text[t], insensitive))

(* All ends reached by the items from i on, from the given positions.      *)
RECURSIVE Reached(_, _, _, _, _, _)
Reached(p, i, text, from, insensitive, pathname) ==
  IF i > Len(p) THEN from
  ELSE Reached(p, ItemEnd(p, i), text,
               UNION {Ends(p, i, text, t, insensitive, pathname) : t \in from},
               insensitive, pathname)

Denotes(p, text, insensitive, pathname) ==
  Len(text) + 1 \in Reached(p, 1, text, {1}, insensitive, pathname)
=============================================================================
