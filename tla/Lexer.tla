------------------------------- MODULE Lexer --------------------------------
(***************************************************************************)
(* The text of a statement, and where its literals and comments end        *)
(* (sqllex.go).                                                            *)
(*                                                                         *)
(* A text is a sequence of characters <<symbol, n, arg>>.  A word, a       *)
(* number or the name of a function is one character.  Of a ? and of the   *)
(* ordinal that replaces it, arg tells which of the ? of the statement it  *)
(* is, -1 for one that a handler introduced; nothing in the code looks at  *)
(* it.  n is the value of a number.  A place just past the end of s is     *)
(* Len(s) + 1.                                                             *)
(***************************************************************************)
EXTENDS Integers, Sequences, FiniteSetsExt

CONSTANT Chars  \* the characters of texts

Ch(symbol) == <<symbol, 0, 0>>
Text(symbols) == [i \in 1..Len(symbols) |-> Ch(symbols[i])]
Placeholder(k) == <<"?", 0, k>>

Sym(s, i) == s[i][1]
Is(s, i, symbol) == i \in 1..Len(s) /\ Sym(s, i) = symbol
Symbols(s) == {Sym(s, i) : i \in 1..Len(s)}

\* Do the symbols occur in s at i?
At(s, i, symbols) == \A m \in 1..Len(symbols) : Is(s, i + m - 1, symbols[m])

\* The first place at or after i where the symbols occur, or 0.
Find(s, i, symbols) ==
    LET found == {j \in i..Len(s) : At(s, j, symbols)}
    IN  IF found = {} THEN 0 ELSE Min(found)

Occurs(s, symbols) == Find(s, 1, symbols) # 0

\* Just past the symbols, or the end.
Past(s, i, symbols) ==
    LET j == Find(s, i, symbols) IN IF j = 0 THEN Len(s) + 1 ELSE j + Len(symbols)

\* The functions of the package, and one a program registered.
VirtualFuncs == {"NOW_UTC", "LIMIT_OFFSET", "DATE_ADD_MILLIS", "DATE_DIFF_MILLIS",
                 "JSON_FIELD", "REGEXP_TEXT_SEARCH", "REGISTERED"}
isWordByte(symbol) == symbol \in {"x", "E", "9", "IN"} \cup VirtualFuncs
isIdentByte(symbol) == symbol = "$" \/ isWordByte(symbol)

Drivers == {"mysql", "pgx", "mssql", "sqlite"}

-----------------------------------------------------------------------------
(* Literals *)

\* Is j the last of an odd run of neighbours in places?
OddRun(places, j) ==
    \E k \in places : k..j \subseteq places /\ k <= j /\ k - 1 \notin places /\ (j - k) % 2 = 0

\* The quotes q after i that are not escaped by a backslash.
Quotes(s, i, q, backslash) ==
    LET slashes == {m \in (i + 1)..Len(s) : Is(s, m, "\\")}
    IN  {m \in (i + 1)..Len(s) : Is(s, m, q) /\ ~(backslash /\ OddRun(slashes, m - 1))}

\* Where the loop of skipQuoted comes to (it is in module Placeholders): past
\* the first quote that neither a backslash nor another quote escapes, or to
\* the end.
skipQuoted(s, i, q, backslash) ==
    LET quotes == Quotes(s, i, q, backslash)
        ends   == {j \in quotes : OddRun(quotes, j) /\ ~Is(s, j + 1, q)}
    IN  IF ends = {} THEN Len(s) + 1 ELSE Min(ends) + 1

NoLiteral == [q |-> "none", backslash |-> FALSE]

\* What ends the literal, or the quoted identifier, that starts at i.
Literal(driver, s, i) ==
    LET mysqlish == driver = "mysql"
        escapeE  == driver = "pgx" /\ Is(s, i - 1, "E") /\ ~(i > 2 /\ isIdentByte(Sym(s, i - 2)))
    IN  CASE Is(s, i, "'")  -> [q |-> "'", backslash |-> mysqlish \/ escapeE]
          [] Is(s, i, "\"") -> [q |-> "\"", backslash |-> mysqlish]
          [] Is(s, i, "tick") /\ driver \in {"mysql", "sqlite"} -> [q |-> "tick", backslash |-> FALSE]
          [] Is(s, i, "[") /\ driver \in {"mssql", "sqlite"} -> [q |-> "]", backslash |-> FALSE]
          [] OTHER -> NoLiteral

-----------------------------------------------------------------------------
(* Comments and dollar quotes *)

\* A tag is empty or an identifier; $1 is a parameter.
skipDollar(s, i) ==
    LET word == {j \in (i + 1)..Len(s) : ~isWordByte(Sym(s, j))}
        j    == Min(word)
    IN  IF Is(s, i + 1, "9") \/ word = {} \/ ~Is(s, j, "$") THEN i
        ELSE Past(s, j + 1, [m \in 1..(j - i + 1) |-> Sym(s, i + m - 1)])

\* Past the comment or the dollar-quoted body that starts at i, or i.
skipComment(driver, s, i, dollarQuotes) ==
    CASE At(s, i, <<"-", "-">>) -> Past(s, i, <<"\n">>)
      [] At(s, i, <<"/", "*">>) -> Past(s, i + 2, <<"*", "/">>)
      [] Is(s, i, "$") /\ dollarQuotes /\ driver = "pgx" /\ ~(i > 1 /\ isIdentByte(Sym(s, i - 1)))
            -> skipDollar(s, i)
      [] OTHER -> i

skipNonCode(driver, s, i, dollarQuotes) ==
    LET literal == Literal(driver, s, i)
    IN  IF literal = NoLiteral THEN skipComment(driver, s, i, dollarQuotes)
        ELSE skipQuoted(s, i, literal.q, literal.backslash)

\* Where the scan of s goes from p.
After(d, s, p) == IF skipNonCode(d, s, p, TRUE) > p THEN skipNonCode(d, s, p, TRUE) ELSE p + 1

\* The places where something starts, code or literal: the least set that has
\* the first place and where the scan goes from each.
Starts(d, s) ==
    LET moves  == {<<p, After(d, s, p)>> : p \in 1..Len(s)}
        closed == {S \in SUBSET (1..(Len(s) + 1)) : 1 \in S /\ \A m \in moves : m[1] \in S => m[2] \in S}
    IN  {p \in 1..Len(s) : \A S \in closed : p \in S}

-----------------------------------------------------------------------------
(* conformPlaceholders (db.go) *)

Numbering(driver) == driver \in {"pgx", "mssql"}

\* The ordinal that replaces a ?.
Ordinal(n, c) == <<Ch("$"), <<"9", n, c[3]>>>>

\* Mutant: the brackets of SQL Server are forgotten.
NothingHidesInQuotes(s) ==
    Symbols(s) \cap {"'", "\"", "$"} = {} /\ ~Occurs(s, <<"-", "-">>) /\ ~Occurs(s, <<"/", "*">>)

\* Nothing a ? could hide in.
NothingHides(s) ==
    /\ Symbols(s) \cap {"'", "\"", "[", "$"} = {}
    /\ ~Occurs(s, <<"-", "-">>) /\ ~Occurs(s, <<"/", "*">>)
=============================================================================
