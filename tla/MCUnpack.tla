------------------------------ MODULE MCUnpack ------------------------------
(* The texts that MCUnpack.cfg calls UnpackQuery, ConformArgPlaceholders    *)
(* and stripLineComments with.                                              *)
EXTENDS Unpack

CONSTANTS
    MaxPieces,     \* the pieces of a statement
    MaxPath,       \* the characters of a JSON path
    MaxMillis,     \* the milliseconds that a statement adds or subtracts
    MaxText,       \* the symbols of a text that is only numbered
    MaxInside,     \* the symbols after one that opens a literal
    MaxSegment     \* the symbols of a segment of a migration file

\* A text's ? are told apart by their order in it.
Numbered(s) ==
    [k \in 1..Len(s) |->
        IF Is(s, k, "?") THEN Placeholder(Cardinality({m \in 1..k : Is(s, m, "?")})) ELSE s[k]]

\* Quotes, comments and a call that they may interrupt, which may have begun
\* before them.  A word does not touch the ? before it.
Opening == Text(<<"DATE_DIFF_MILLIS", "(", "?">>)
Pieces == {Text(p) : p \in {
    <<"?">>, <<"'">>, <<"\"">>, <<"\\", "'">>, <<"-", "-">>, <<"\n">>, <<"/", "*">>, <<"*", "/">>,
    <<"[">>, <<"]">>, <<" ", "$", "$">>, <<" ", "E", "'">>,
    <<",", "?", ")">>}} \cup {Opening}
Pieced == {FlattenSeq(p) : p \in SeqOf(Pieces, MaxPieces)}

NowUTC(p) == Call("NOW_UTC", <<Number(p)>>)

\* Calls to put beside and inside each other.
Calls == {Text(<<"?">>), Call("NOW_UTC", <<>>), NowUTC(5), NowUTC(7), Call("REGISTERED", <<>>),
          Call("LIMIT_OFFSET", Text(<<"?", ",", "?">>)), Call("LIMIT_OFFSET", Text(<<"?">>)),
          Call("REGEXP_TEXT_SEARCH", Text(<<"?", " ", "IN", " ", "x", ",", "x">>)),
          Call("REGEXP_TEXT_SEARCH", Text(<<"?", " ", "IN", " ", "x">>)),
          Call("JSON_FIELD", Text(<<"x", ",", "'", "x", "'">>)),
          Call("DATE_ADD_MILLIS", NowUTC(2) \o Text(<<",", "?">>)),
          Call("DATE_DIFF_MILLIS", Text(<<"?", ",", "?">>))}
Both == {a \o <<Ch(" ")>> \o b : a, b \in Calls}
Nested == {Call(f, a \o <<Ch(",")>> \o b) : f \in {"DATE_DIFF_MILLIS", "DATE_ADD_MILLIS", "LIMIT_OFFSET"},
                                            a, b \in Calls}

Millis == {Call("DATE_ADD_MILLIS", base \o <<Ch(","), Number(n)>>) :
              base \in {NowUTC(0), NowUTC(2), NowUTC(3), Text(<<"x">>)}, n \in (-MaxMillis)..MaxMillis}
MillisTwice == {Call("DATE_ADD_MILLIS", m \o <<Ch(","), Number(n)>>) : m \in Millis, n \in {-MaxMillis, 1}}

Paths == {Call("JSON_FIELD", Text(<<"x", ",", "'">>) \o p \o Text(<<"'">>)) :
             p \in SeqOf({Ch("$"), Ch("."), Ch("x"), Ch("["), Number(0), Ch("]")}, MaxPath)}

MCQueries ==
    {Numbered(s) : s \in Pieced \cup {Opening \o p : p \in Pieced} \cup Both \cup Nested \cup Millis \cup MillisTwice}
        \cup Paths

-----------------------------------------------------------------------------
(* ConformArgPlaceholders *)

Symbol == {"?", "'", "\"", "\\", "-", "\n", "/", "*", "[", "]", "$", "E"}

\* What opens a literal or a comment, with symbols that close, escape and hide in it.
Openers == {<<"'">>, <<"E", "'">>, <<"$", "$">>, <<"[">>, <<"/", "*">>}
Inside == {"?", "'", "\\", "]", "*", "/", "$"}

Short == SeqOf(Symbol, MaxText)
Long == {o \o t : o \in Openers, t \in SeqOf(Inside, MaxInside)}

MCChars == {Ch(symbol) : symbol \in Symbol \cup {"tick"}} \cup {Placeholder(k) : k \in 1..(MaxText + MaxInside)}
MCStatements == {Numbered(Text(t)) : t \in Short \cup Long}

-----------------------------------------------------------------------------
(* stripLineComments *)

\* Quotes and dashes, lines, and a bracket that hides or does not; longer ones
\* of one quote.
MCSegments ==
    {Text(t) : t \in SeqOf({"'", "\"", "tick", "[", "-", "\n"}, MaxSegment)
                        \cup SeqOf({"'", "-", "\n"}, MaxSegment + 1)}
=============================================================================
