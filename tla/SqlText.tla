------------------------------ MODULE SqlText -------------------------------
(***************************************************************************)
(* What becomes of the text of a statement (texts are in module Lexer):    *)
(* its placeholders (conformPlaceholders of db.go, whose loops are in      *)
(* module Placeholders), and the expansion of its virtual functions        *)
(* (vf.go).                                                                *)
(***************************************************************************)
EXTENDS Lexer, Hours, SequencesExt

Number(n) == <<"9", n, 0>>
Space == {" ", "\n"}

-----------------------------------------------------------------------------
(* db.go *)

RECURSIVE NumberFast(_, _, _)
NumberFast(s, i, n) ==
    CASE i > Len(s)       -> <<>>
      [] Is(s, i, "?")    -> Ordinal(n, s[i]) \o NumberFast(s, i + 1, n + 1)
      [] OTHER            -> <<s[i]>> \o NumberFast(s, i + 1, n)

RECURSIVE NumberSlow(_, _, _, _)
NumberSlow(driver, s, i, n) ==
    LET j == skipNonCode(driver, s, i, TRUE) IN
    CASE i > Len(s)    -> <<>>
      [] i <= Len(s) /\ j > i -> SubSeq(s, i, j - 1) \o NumberSlow(driver, s, j, n)
      [] i <= Len(s) /\ j = i /\ Is(s, i, "?") ->
            Ordinal(n, s[i]) \o NumberSlow(driver, s, i + 1, n + 1)
      [] OTHER         -> <<s[i]>> \o NumberSlow(driver, s, i + 1, n)

conformPlaceholders(driver, s) ==
    CASE ~Numbering(driver) -> s
      [] NothingHides(s)    -> NumberFast(s, 1, 1)
      [] OTHER              -> NumberSlow(driver, s, 1, 1)

-----------------------------------------------------------------------------
(* vf.go: the pieces of a call *)

\* The ) that closes the call, or 0.  Quotes are skipped; comments, brackets
\* and backslashes are not looked at.
RECURSIVE Closes(_, _, _)
Closes(s, i, depth) ==
    CASE i > Len(s)                -> 0
      [] Sym(s, i) \in {"'", "\""} -> Closes(s, Past(s, i + 1, <<Sym(s, i)>>), depth)
      [] Is(s, i, "(")             -> Closes(s, i + 1, depth + 1)
      [] Is(s, i, ")")             -> IF depth = 1 THEN i ELSE Closes(s, i + 1, depth - 1)
      [] OTHER                     -> Closes(s, i + 1, depth)

findBalancedClose(s, start) == Closes(s, start, 1)

RECURSIVE LastComma(_, _, _, _)
LastComma(s, i, depth, last) ==
    CASE i > Len(s)                -> last
      [] Sym(s, i) \in {"'", "\""} -> LastComma(s, Past(s, i + 1, <<Sym(s, i)>>), depth, last)
      [] Is(s, i, "(")             -> LastComma(s, i + 1, depth + 1, last)
      [] Is(s, i, ")")             -> LastComma(s, i + 1, depth - 1, last)
      [] OTHER -> LastComma(s, i + 1, depth, IF Is(s, i, ",") /\ depth = 0 THEN i ELSE last)

lastTopLevelComma(s) == LastComma(s, 1, 0, 0)

TrimSpace(s) ==
    LET ink == {i \in 1..Len(s) : Sym(s, i) \notin Space}
    IN  IF ink = {} THEN <<>> ELSE SubSeq(s, Min(ink), Max(ink))

RECURSIVE Split(_)
Split(s) ==
    LET j == Find(s, 1, <<",">>)
    IN  IF j = 0 THEN <<s>> ELSE <<SubSeq(s, 1, j - 1)>> \o Split(SubSeq(s, j + 1, Len(s)))

RECURSIVE Join(_)
Join(parts) ==
    IF Len(parts) <= 1 THEN FlattenSeq(parts)
    ELSE Head(parts) \o <<Ch(",")>> \o Join(Tail(parts))

-----------------------------------------------------------------------------
(* vf.go: the handlers.  What a handler writes keeps its arguments, their  *)
(* order, quotes and parentheses; its other words are x.                   *)

Ok(text) == [text |-> text, err |-> "none"]
Err(err) == [text |-> <<>>, err |-> err]

\* w( ... ) around a text.
Call(word, text) == <<Ch(word), Ch("(")>> \o text \o <<Ch(")")>>
Paren(text) == <<Ch("(")>> \o text \o <<Ch(")")>>
Comma == Text(<<",", " ">>)
Quoted(text) == <<Ch("'")>> \o text \o <<Ch("'")>>
Words == Text(<<" ", "x", " ">>)

\* The precision of a NOW_UTC, or -1.
nowUTCPrecision(args) ==
    LET a == TrimSpace(args) IN
    CASE a = <<>>                                            -> 3
      [] Len(a) = 1 /\ Is(a, 1, "9") /\ a[1][2] \in 0..6     -> a[1][2]
      [] OTHER                                               -> -1

\* Mutant: SQLite writes a precision it has not as NOW_UTC(3), and 3 itself too.
vfNowUTCAgain(driver, args) ==
    LET p == nowUTCPrecision(args) IN
    CASE p = -1                         -> Err("syntax")
      [] driver = "sqlite" /\ p >= 3    -> Ok(Call("NOW_UTC", <<Number(3)>>))
      [] OTHER                          -> Ok(Paren(Call("x", <<Number(p)>>)))

\* On SQL Server the type of the value matters: DATETIME2(p).
vfNowUTC(driver, args) ==
    LET p == nowUTCPrecision(args) IN
    IF p = -1 THEN Err("syntax")
    ELSE Ok(CASE driver = "mysql"  -> Paren(Call("x", <<Number(p)>>))
              [] driver = "pgx"    -> IF p = 6 THEN Paren(Call("x", <<>>) \o Words \o Quoted(Text(<<"x">>)))
                                      ELSE Paren(Call("x", Text(<<"-", " ">>) \o Quoted(<<Number(5)>>)
                                                           \o Words \o Call("x", <<Number(p)>>)))
              [] driver = "mssql"  -> Paren(Call("x", Call("DATETIME2", <<Number(p)>>) \o Comma
                                                      \o Call("x", Text(<<"-">>) \o <<Number(5)>>)))
              [] driver = "sqlite" -> Paren(Call("x", Quoted(Text(<<"x">>)))))

\* The expression comes first in the call and last in what replaces it.
vfRegexpTextSearch(driver, args) ==
    LET i       == Find(args, 1, <<" ", "IN", " ">>)
        expr    == TrimSpace(SubSeq(args, 1, i - 1))
        split   == Split(SubSeq(args, i + 3, Len(args)))
        columns == SelectSeq([k \in 1..Len(split) |-> TrimSpace(split[k])], LAMBDA col : col # <<>>)
        all     == CASE Len(columns) = 0 -> Quoted(<<>>)
                     [] Len(columns) = 1 -> columns[1]
                     [] OTHER -> Call("x", Quoted(Text(<<" ">>)) \o <<Ch(",")>> \o Join(columns))
    IN  IF i = 0 THEN Err("syntax")
        ELSE Ok(CASE driver = "mysql" -> Paren(all \o Words \o expr)
                  [] driver \in {"pgx", "mssql"} ->
                        Call("x", all \o Comma \o expr \o Comma \o Quoted(Text(<<"x">>)))
                  [] driver = "sqlite" ->
                        Paren(all \o Words \o Paren(Quoted(Text(<<"%">>)) \o Words \o expr \o Words
                                                    \o Quoted(Text(<<"%">>)))))

\* The two arguments of a call, empty when there are not two.
SplitAt(args, comma) ==
    [a |-> TrimSpace(SubSeq(args, 1, comma - 1)), b |-> TrimSpace(SubSeq(args, comma + 1, Len(args)))]
TwoArgs(args) == SplitAt(args, lastTopLevelComma(args))
BothGiven(t) == t.a # <<>> /\ t.b # <<>>

\* Mutant: only NOW_UTC(0) is coarse.
isCoarseNowUTCZero(expr) ==
    At(expr, 1, <<"NOW_UTC", "(", "9", ")">>) /\ Len(expr) = 4 /\ expr[3][2] = 0

isCoarseNowUTC(expr) ==
    /\ At(expr, 1, <<"NOW_UTC", "(">>)
    /\ findBalancedClose(expr, 3) = Len(expr)
    /\ nowUTCPrecision(SubSeq(expr, 3, Len(expr) - 1)) \in 0..2

\* DATEADD(unit, interval, base)
DateAdd(unit, interval, base) == Call("x", <<Ch(unit)>> \o Comma \o interval \o Comma \o base)

\* DATEADD takes an int, so what may be more is added in hours and a rest.
AddMillis(base, millis, n) ==
    CASE Len(millis) = 1 /\ Is(millis, 1, "9") /\ Direct(n) ->
            DateAdd("MILLISECOND", millis, base)
      [] Len(millis) = 1 /\ Is(millis, 1, "9") ->
            DateAdd("MILLISECOND", <<Number(Rem(n))>>, DateAdd("HOUR", <<Number(Quo(n))>>, base))
      [] OTHER ->
            DateAdd("MILLISECOND", Call("CAST", millis \o Words) \o Words,
                    DateAdd("HOUR", Call("CAST", millis \o Words) \o Words, base))

mssqlDateAddMillis(baseExpr, millis) ==
    AddMillis(IF isCoarseNowUTC(baseExpr)
              THEN Call("CAST", baseExpr \o Words \o Call("DATETIME2", <<Number(7)>>))
              ELSE baseExpr,
              millis, millis[1][2])

vfDateAddMillis(driver, t) ==
    IF ~BothGiven(t) THEN Err("syntax")
    ELSE Ok(CASE driver = "mysql"  -> Call("x", t.a \o Comma \o Words \o Paren(t.b) \o Words)
              [] driver = "pgx"    -> Paren(t.a \o Words \o Call("x", Paren(t.b) \o Words))
              [] driver = "mssql"  -> mssqlDateAddMillis(t.a, t.b)
              [] driver = "sqlite" -> Paren(Call("x", Quoted(Text(<<"x">>)) \o Comma \o t.a \o Comma
                                                      \o Paren(Paren(t.b) \o Words) \o Quoted(Text(<<"x">>)))))

\* Mutant: MySQL's TIMESTAMPDIFF takes the earlier time first, so the two are swapped.
vfDateDiffMillisSwapped(driver, t) ==
    IF ~BothGiven(t) THEN Err("syntax")
    ELSE Ok(IF driver \in {"mssql", "mysql"} THEN Call("x", t.b \o Comma \o t.a)
            ELSE Paren(t.a \o Words \o t.b))

\* MySQL, whose ? bind in the order of the text, negates; SQL Server swaps.
vfDateDiffMillis(driver, t) ==
    IF ~BothGiven(t) THEN Err("syntax")
    ELSE Ok(CASE driver = "mysql"  -> Paren(Text(<<"-">>) \o Call("x", t.a \o Comma \o t.b) \o Words)
              [] driver = "pgx"    -> Paren(Call("x", Paren(t.a \o Text(<<" ", "-", " ">>) \o t.b)) \o Words)
              [] driver = "mssql"  -> Call("x", Text(<<"x", ",", " ">>) \o t.b \o Comma \o t.a)
              [] driver = "sqlite" -> Paren(Paren(Call("x", t.a) \o Text(<<" ", "-", " ">>) \o Call("x", t.b))
                                            \o Words))

vfLimitOffset(driver, t) ==
    IF ~BothGiven(t) THEN Err("syntax")
    ELSE Ok(IF driver = "mssql" THEN Words \o t.b \o Words \o t.a \o Words
            ELSE Words \o t.a \o Words \o t.b)

-----------------------------------------------------------------------------
(* vf.go: JSON paths.  An element is a member name, or an index when it is *)
(* one number.                                                             *)

NoPath == <<Text(<<"error">>)>>

isName(name) ==
    name # <<>> /\ Sym(name, 1) # "9" /\ \A i \in 1..Len(name) : isWordByte(Sym(name, i))
isIndex(index) == Len(index) = 1 /\ Is(index, 1, "9") /\ index[1][2] >= 0

\* The elements of rest after the ones found so far.
RECURSIVE PathElems(_, _)
PathElems(rest, elems) ==
    LET ends   == {j \in 2..Len(rest) : Sym(rest, j) \in {".", "["}} \cup {Len(rest) + 1}
        member == SubSeq(rest, 2, Min(ends) - 1)
        close  == Find(rest, 1, <<"]">>)
        index  == SubSeq(rest, 2, close - 1)
    IN  CASE rest = <<>> -> IF elems = <<>> THEN NoPath ELSE elems
          [] Is(rest, 1, ".") /\ isName(member) ->
                PathElems(SubSeq(rest, Min(ends), Len(rest)), Append(elems, member))
          [] Is(rest, 1, "[") /\ close # 0 /\ isIndex(index) ->
                PathElems(SubSeq(rest, close + 1, Len(rest)), Append(elems, index))
          [] OTHER -> NoPath

\* Mutant: only a $ makes the dot before the first name optional.
parseJSONPathRooted(path) ==
    LET rest == IF Is(path, 1, "$") THEN Tail(path) ELSE path IN PathElems(rest, <<>>)

\* The $ is optional, and so is the dot before a name that comes first.
parseJSONPath(path) ==
    LET rest == IF Is(path, 1, "$") THEN Tail(path) ELSE path
    IN  PathElems(IF rest # <<>> /\ Sym(rest, 1) \notin {".", "["} THEN <<Ch(".")>> \o rest ELSE rest, <<>>)

Element(e) == IF isIndex(e) THEN <<Ch("[")>> \o e \o <<Ch("]")>> ELSE <<Ch(".")>> \o e
Path(elems) == FlattenSeq([k \in 1..Len(elems) |-> Element(elems[k])])

\* The value of col at the elements of a path, which p spells.
JSONValue(driver, col, elems, p) ==
    CASE driver = "mysql" ->
            Paren(Call("x", Call("x", col \o Comma \o p)) \o Words \o Quoted(Text(<<"x">>)) \o Words
                  \o Call("x", Call("x", col \o Comma \o p)) \o Words)
      [] driver = "pgx" ->
            Paren(Paren(col) \o Words
                  \o Quoted(Join([k \in 1..Len(elems) |-> <<Ch("\"")>> \o elems[k] \o <<Ch("\"")>>])))
      [] driver = "mssql" ->
            Paren(Call("x", Call("x", col \o Comma \o p) \o Comma \o Call("x", col \o Comma \o p)))
      [] driver = "sqlite" -> Paren(Call("x", col \o Comma \o p))

JSONAt(driver, col, elems) ==
    IF elems = NoPath THEN Err("syntax")
    ELSE Ok(JSONValue(driver, col, elems, Quoted(<<Ch("$")>> \o Path(elems))))

vfJSONField(driver, t) ==
    IF ~BothGiven(t) \/ Len(t.b) < 2 \/ ~Is(t.b, 1, "'") \/ ~Is(t.b, Len(t.b), "'") THEN Err("syntax")
    ELSE JSONAt(driver, t.a, parseJSONPath(SubSeq(t.b, 2, Len(t.b) - 1)))

\* A handler that a program registers may write a ? of its own.
Registered(driver, args) == Ok(<<Placeholder(-1)>>)

Handler(name, driver, args) ==
    CASE name = "NOW_UTC"            -> vfNowUTC(driver, args)
      [] name = "LIMIT_OFFSET"       -> vfLimitOffset(driver, TwoArgs(args))
      [] name = "DATE_ADD_MILLIS"    -> vfDateAddMillis(driver, TwoArgs(args))
      [] name = "DATE_DIFF_MILLIS"   -> vfDateDiffMillis(driver, TwoArgs(args))
      [] name = "JSON_FIELD"         -> vfJSONField(driver, TwoArgs(args))
      [] name = "REGEXP_TEXT_SEARCH" -> vfRegexpTextSearch(driver, args)
      [] name = "REGISTERED"         -> Registered(driver, args)

\* Where a call of a virtual function starts: a known name, all of a word,
\* with its ( at once and a ) that closes it.
CallAt(s, i) ==
    /\ i <= Len(s) /\ Sym(s, i) \in VirtualFuncs
    /\ ~(i > 1 /\ isIdentByte(Sym(s, i - 1)))
    /\ Is(s, i + 1, "(")
    /\ findBalancedClose(s, i + 2) # 0

\* A text, or what a handler made of a call, and then the rest of the scan.
Followed(part, changed, rest) ==
    IF part.err # "none" THEN [text |-> <<>>, changed |-> FALSE, err |-> part.err]
    ELSE [text |-> part.text \o rest.text, changed |-> changed \/ rest.changed, err |-> rest.err]

\* The scan of expandOnce from i on, skip being past the literal or comment
\* at i and close the end of the call.
RECURSIVE Scan(_, _, _)
ScanAt(driver, s, i, skip, close) ==
    CASE skip > i     -> Followed(Ok(SubSeq(s, i, skip - 1)), FALSE, Scan(driver, s, skip))
      [] CallAt(s, i) -> Followed(Handler(Sym(s, i), driver, SubSeq(s, i + 2, close - 1)), TRUE,
                                  Scan(driver, s, close + 1))
      [] OTHER        -> Followed(Ok(<<s[i]>>), FALSE, Scan(driver, s, i + 1))
Scan(driver, s, i) ==
    IF i > Len(s) THEN [text |-> <<>>, changed |-> FALSE, err |-> "none"]
    ELSE ScanAt(driver, s, i, skipNonCode(driver, s, i, FALSE), findBalancedClose(s, i + 2))

expandOnce(driver, s) == Scan(driver, s, 1)
=============================================================================
