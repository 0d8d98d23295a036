----------------------------- MODULE MCCommand -----------------------------
(***************************************************************************)
(* Command lines put together from short pieces: all arrangements of a few *)
(* tests, actions, operators and parentheses, all arrangements of options  *)
(* with the tests and actions they influence, and groups within groups.    *)
(***************************************************************************)
EXTENDS EntryEvaluation

MCWords == {"x", "y", "1", "f", ";", "+", "{}", "x{}", "rust", "%F", "%U", "%m",
            "%US", "%b", "bad"}
MCNumbers == {"1"}
MCTypeLetters == {"f"}
MCBadOperands == {"bad"}
MCEmbedded == {"x{}"}

MCSupport ==
  [f \in {"SameFileSystem", "AccessPredicates", "CaseInsensitiveGlob", "FsType",
          "NumericOwnership", "NamedOwnership", "ModeBits", "FileFlags",
          "ReparseType", "BirthTime", "MessagesLocale", "WindowsOwnership"} |->
     CASE f \in {"MessagesLocale", "CaseInsensitiveGlob"} -> "approximate"
       [] f \in {"ReparseType", "WindowsOwnership"} -> "unsupported"
       [] OTHER -> "exact"]

Arrangements(pieces, n) == {FlattenSeq(s) : s \in BoundedSeq(pieces, n)}

Operators == {<<"(">>, <<")">>, <<"!">>, <<"-o">>, <<"-a">>}

(* An expensive test, a cheap one, -prune, and actions that may fail or quit. *)
Structure ==
  Arrangements(Operators \cup {<<"-empty">>, <<"-prune">>, <<"-ok", ";">>}, 4)

Operands == {<<"-empty">>, <<"-type", "f">>, <<"-prune">>, <<"-quit">>,
             <<"-ok", ";">>, <<"-delete">>, <<"-exec", ";">>, <<"-exec", "x", "{}", "+">>}

(* Two operands, optionally negated as a whole, beside a third. *)
Groups ==
  {FlattenSeq(s) : s \in
     {<< <<"(">>, a, op, b, <<")">>, op2, c>> :
        a \in Operands, b \in Operands, c \in Operands,
        op \in {<<>>, <<"-o">>}, op2 \in {<<>>, <<"-o">>}} \cup
     {<<a, op, << "!", "(">>, b, c, <<")">> >> :
        a \in Operands, b \in Operands, c \in Operands,
        op \in {<<>>, <<"-o">>}}}

Context ==
  Arrangements({<<"-daystart">>, <<"-mtime", "1">>, <<"-regextype", "rust">>,
                <<"-regex", "x">>, <<"-fprint", "x">>, <<"-fprint0", "y">>,
                <<"-exec", "x", "{}", "+">>, <<"-depth">>, <<"-o">>}, 3)
  \cup {o \o p : o \in {<<"-maxdepth", "1">>, <<"(", "-fprint", "x", ")", "-o">>,
                        <<"!", "-mtime", "1">>, <<"-xdev", "-mindepth", "1">>},
                 p \in {<<"-maxdepth", "1", "-delete">>, <<"-fls", "x">>,
                        <<"-fprintf", "y", "%F">>, <<"-daystart", "-amin", "1">>,
                        <<"-newerBm", "x", "-readable", "-lname", "y">>,
                        <<"-execdir", "{}", "+", "-exec", "{}", "+">>,
                        <<"-fstype", "x", "-iname", "y", "-true">>}}

(* Refused words and operands, options and start paths before the text. *)
Oddities ==
  Arrangements({<<"-L">>, <<"x">>, <<"-name">>, <<"-o">>, <<"-bogus">>,
                <<"-type", "x">>, <<"-false">>, <<"-perm", "bad">>}, 3)
  \cup {<<"-exec", "x{}", "{}", "+">>, <<"-ok", "x", "+">>, <<"-exec", "x">>,
        <<"-owner", "x">>, <<"-reparse-type", "x">>, <<"-uid", "x">>,
        <<"-regextype", "bad">>, <<"-printf", "bad">>, <<"-printf", "%F">>,
        <<"-printf", "%U">>, <<"-printf", "%m">>, <<"-printf", "%US">>, <<"-printf", "%b">>,
        <<"-P", "-version", "x", "y">>, <<"-execdir", "x", ";">>}

MCInputs == Structure \cup Groups \cup Context \cup Oddities
=============================================================================
