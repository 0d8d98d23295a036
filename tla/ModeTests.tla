----------------------------- MODULE ModeTests -----------------------------
(***************************************************************************)
(* perm.rs and file_flags.rs: -perm compares permission bits with a mode   *)
(* written in octal or in symbols, -flags compares file flags with a list  *)
(* of names. A mode is the set of its bits; an operand is a sequence of    *)
(* one-byte strings for -perm and of tokens for -flags.                    *)
(***************************************************************************)
EXTENDS Integers, Sequences, SequencesExt

CONSTANT FlagNames   \* the flags of the platform

Who == {"u", "g", "o"}
Bits == (Who \X {"r", "w", "x"}) \cup {<<"u", "s">>, <<"g", "s">>, <<"o", "t">>}
Octal == <<"0", "1", "2", "3", "4", "5", "6", "7">>
Bad == [ok |-> FALSE]

(* The bits of an octal number; the last four digits count, and a number   *)
(* has to fit an u32.                                                      *)
OctalRows == << <<<<"o", "x">>, <<"o", "w">>, <<"o", "r">>>>,
                <<<<"g", "x">>, <<"g", "w">>, <<"g", "r">>>>,
                <<<<"u", "x">>, <<"u", "w">>, <<"u", "r">>>>,
                <<<<"o", "t">>, <<"g", "s">>, <<"u", "s">>>> >>
OctalMask(text) ==
  LET digit == [i \in DOMAIN text |-> CHOOSE n \in 0 .. 7 : Octal[n + 1] = text[i]]
      significant == {i \in DOMAIN text : digit[i] # 0}
      len == IF significant = {} THEN 1 ELSE Len(text) + 1 - Min(significant)
      On(n, k) == (n \div 2^(k - 1)) % 2 = 1
  IN  IF len > 11 \/ (len = 11 /\ digit[Len(text) - 10] > 3) THEN Bad
      ELSE [ok |-> TRUE,
            mask |-> {OctalRows[r][k] :
                        <<r, k>> \in {rk \in (1 .. Min({4, Len(text)})) \X (1 .. 3) :
                                        On(digit[Len(text) + 1 - rk[1]], rk[2])}}]

(* parse_symbolic_clause: who, one operator, permissions to the end.       *)
Clause(text, needsWho) ==
  LET from == Min({i \in 1 .. Len(text) + 1 :
                     i > Len(text) \/ text[i] \notin Who \cup {"a"}})
      named == {text[i] : i \in 1 .. from - 1}
      perms == SubSeq(text, from + 1, Len(text))
  IN  IF \/ named = {} /\ needsWho
         \/ from > Len(text)
         \/ from <= Len(text) /\ text[from] \notin {"+", "-", "="}
         \/ ~(ToSet(perms) \subseteq {"r", "w", "x", "X", "s", "t"} \cup Who)
      THEN Bad
      ELSE [ok |-> TRUE, op |-> text[from], perms |-> ToSet(perms),
            who |-> IF named = {} \/ "a" \in named THEN Who ELSE named]

(* resolve_symbolic_perms: X and the copies look at the mode so far.       *)
Resolved(clause, mode) ==
  LET Of(perm) ==
        CASE perm \in {"r", "w", "x"} -> clause.who \X {perm}
          [] perm = "X" -> IF \E c \in Who : <<c, "x">> \in mode
                           THEN clause.who \X {"x"} ELSE {}
          [] perm \in {"s", "t"} -> Bits \cap (clause.who \X {perm})
          [] OTHER -> {<<c, p>> \in clause.who \X {"r", "w", "x"} :
                         <<perm, p>> \in mode}
  IN  UNION {Of(perm) : perm \in clause.perms}

(* Mutant: an assignment only replaces r, w and x. *)
AssignKeepsSpecial(who) == who \X {"r", "w", "x"}

(* assign_target_bits: all bits of a class, its special one included.      *)
AssignTarget(who) == {b \in Bits : b[1] \in who}

(* The fold of resolve_symbolic_mode, from mode 0. *)
Apply(mode, clause) ==
  CASE clause.op = "+" -> mode \cup Resolved(clause, mode)
    [] clause.op = "-" -> mode \ Resolved(clause, mode)
    [] clause.op = "=" -> (mode \ AssignTarget(clause.who)) \cup Resolved(clause, mode)

SplitAtCommas(text) ==
  LET commas == <<0>> \o SelectSeq([i \in DOMAIN text |-> i],
                                   LAMBDA i : text[i] = ",") \o <<Len(text) + 1>>
  IN  [k \in 1 .. Len(commas) - 1 |-> SubSeq(text, commas[k] + 1, commas[k + 1] - 1)]

Clauses(body, needsWho) ==
  LET parts == SplitAtCommas(body)
  IN  [k \in DOMAIN parts |-> Clause(parts[k], needsWho)]

(* parse_perm_argument: a plus with nothing but digits after it, or with   *)
(* nothing at all, is no mode.                                             *)
ParsePerm(text) ==
  LET kind == CASE text # <<>> /\ text[1] = "-" -> "all"
                [] text # <<>> /\ text[1] = "/" -> "any"
                [] OTHER -> "exact"
      body == IF kind = "exact" THEN text ELSE Tail(text)
      octal == ToSet(body) \subseteq ToSet(Octal)
      clauses == Clauses(body, kind # "exact")
      plusDigits == /\ text # <<>> /\ text[1] = "+"
                    /\ ToSet(Tail(text)) \subseteq ToSet(Octal) \cup {"8", "9"}
  IN  CASE body = <<>> \/ plusDigits -> Bad
        [] body # <<>> /\ octal ->
             LET m == OctalMask(body)
             IN  IF m.ok THEN [ok |-> TRUE, kind |-> kind, mask |-> m.mask] ELSE Bad
        [] OTHER ->
             IF \A k \in DOMAIN clauses : clauses[k].ok
             THEN [ok |-> TRUE, kind |-> kind, mask |-> FoldLeft(Apply, {}, clauses)]
             ELSE Bad

(* PermMatcher::matches. *)
PermMatches(kind, mask, mode) ==
  CASE kind = "exact" -> mode = mask
    [] kind = "all" -> mask \subseteq mode
    [] kind = "any" -> mask = {} \/ mask \cap mode # {}

-----------------------------------------------------------------------------
(* A token of -flags: a name, or "no" before one, read as a pair of a name *)
(* and whether "no" stands before it; "dump" is the flag that nodump       *)
(* clears, so nodump is a name of its own.                                 *)
PlainFlag(token) == [flag |-> token[2], set |-> ~token[1]]

(* Mutant: asking for a flag and for its absence is not noticed. *)
PushUnchecked(conditions, token) ==
  IF token[2] \notin FlagNames THEN Bad
  ELSE [conditions EXCEPT !.list = @ \cup {PlainFlag(token)}]

(* One turn of parse_flags_argument's loop, with push_condition.           *)
PushFlag(conditions, token) ==
  IF \/ ~conditions.ok
     \/ token[2] \notin FlagNames
     \/ [flag |-> token[2], set |-> token[1]] \in conditions.list
  THEN Bad
  ELSE [conditions EXCEPT !.list = @ \cup {PlainFlag(token)}]

ParseFlags(tokens) ==
  IF tokens = <<>> THEN Bad
  ELSE FoldLeft(PushFlag, [ok |-> TRUE, list |-> {}], tokens)

(* FileFlagsMatcher::matches; flags that cannot be read never match.       *)
FlagsMatch(kind, list, observed) ==
  /\ observed # {"unreadable"}
  /\ CASE kind = "exact" -> observed = {c.flag : c \in {x \in list : x.set}}
       [] kind = "all" -> \A c \in list : (c.flag \in observed) = c.set
       [] kind = "any" -> \E c \in list : (c.flag \in observed) = c.set

-----------------------------------------------------------------------------
(* What a chmod of these clauses, applied to mode 0, leaves in one bit:    *)
(* the last clause about its class decides, or the bit stays.              *)
RECURSIVE On(_, _, _)
On(clauses, k, bit) ==
  /\ k > 0
  /\ LET c == clauses[k]
         before == On(clauses, k - 1, bit)
         asked == \E p \in c.perms :
           \/ p = bit[2]
           \/ p = "X" /\ bit[2] = "x"
                 /\ \E w \in Who : On(clauses, k - 1, <<w, "x">>)
           \/ p \in Who /\ bit[2] \in {"r", "w", "x"}
                 /\ On(clauses, k - 1, <<p, bit[2]>>)
     IN  CASE bit[1] \notin c.who -> before
           [] bit[1] \in c.who /\ c.op = "=" -> asked
           [] bit[1] \in c.who /\ c.op = "+" -> before \/ asked
           [] OTHER -> before /\ ~asked
=============================================================================
