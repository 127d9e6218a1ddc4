--------------------------- MODULE StripComments ----------------------------
(***************************************************************************)
(* stripLineComments (db.go), loop by loop: Migrate takes the line         *)
(* comments out of each segment of a migration file before it sends it.    *)
(***************************************************************************)
EXTENDS Lexer

CONSTANT Segments  \* the texts it is called with

ASSUME SegmentsAssumption == Segments \subseteq Seq(Chars)

VARIABLES
    segment,   \* the call
    loop,      \* which loop it is in
    at,        \* the place it is at
    quote,     \* the quote it is inside of, or "none"
    stripped   \* what is written

stripVars == <<segment, loop, at, quote, stripped>>

QuoteChars == {"'", "\"", "tick"}

StripTypeOK ==
    /\ segment \in Segments
    /\ loop \in {"text", "comment", "done"}
    /\ at \in 1..(Len(segment) + 2)
    /\ quote \in QuoteChars \cup {"none"}
    /\ stripped \in Seq(Chars)

StripInit ==
    /\ segment \in Segments
    /\ loop = "text" /\ at = 1 /\ quote = "none"
    /\ stripped = <<>>

CommentAt == quote = "none" /\ At(segment, at, <<"-", "-">>)

\* Mutant: the end of a quote is not noticed.
QuoteAfterStays ==
    IF quote = "none" /\ Sym(segment, at) \in QuoteChars THEN Sym(segment, at) ELSE quote

\* A doubled quote closes and opens again.
QuoteAfter ==
    CASE quote # "none" /\ Is(segment, at, quote)              -> "none"
      [] quote = "none" /\ Sym(segment, at) \in QuoteChars     -> Sym(segment, at)
      [] OTHER                                                 -> quote

Keep ==
    /\ loop = "text" /\ at <= Len(segment) /\ ~CommentAt
    /\ stripped' = Append(stripped, segment[at])
    /\ quote' = QuoteAfter
    /\ at' = at + 1
    /\ UNCHANGED <<segment, loop>>

Comment ==
    /\ loop = "text" /\ CommentAt
    /\ loop' = "comment"
    /\ UNCHANGED <<segment, at, quote, stripped>>

\* A turn of the inner loop.
CommentGoesOn ==
    /\ loop = "comment" /\ at <= Len(segment) /\ ~Is(segment, at, "\n")
    /\ at' = at + 1
    /\ UNCHANGED <<segment, loop, quote, stripped>>

\* Mutant: the end of the line goes with the comment.
CommentEndsJoined ==
    /\ loop = "comment" /\ (at <= Len(segment) => Is(segment, at, "\n"))
    /\ loop' = "text"
    /\ at' = at + 1
    /\ UNCHANGED <<segment, quote, stripped>>

\* The end of the line stays, where the text does not end with the comment.
CommentEnds ==
    /\ loop = "comment" /\ (at <= Len(segment) => Is(segment, at, "\n"))
    /\ stripped' = IF at <= Len(segment) THEN Append(stripped, segment[at]) ELSE stripped
    /\ loop' = "text"
    /\ at' = at + 1
    /\ UNCHANGED <<segment, quote>>

StripEnds ==
    /\ loop = "text" /\ at > Len(segment)
    /\ loop' = "done"
    /\ UNCHANGED <<segment, at, quote, stripped>>

StripNext == Keep \/ Comment \/ CommentGoesOn \/ CommentEnds \/ StripEnds

StripSpec == StripInit /\ [][StripNext]_stripVars

-----------------------------------------------------------------------------
(* Properties *)

\* Nothing in s hides a -- from the database that one scanner with a quote
\* for its state does not know of: brackets, ticks that are no quotes, block
\* comments, bodies between dollars, backslashes that escape.
Plain(d, s) ==
    /\ ~Occurs(s, <<"/", "*">>)
    /\ d \in {"mssql", "sqlite"} => "[" \notin Symbols(s)
    /\ d \in {"mssql", "pgx"} => "tick" \notin Symbols(s)
    /\ d \in {"mysql", "pgx"} => "\\" \notin Symbols(s)
    /\ d = "pgx" => "$" \notin Symbols(s)

\* The places of line comments, as the database sees them, without the ends
\* of their lines.
Comments(d, s) ==
    LET starts == {p \in Starts(d, s) : At(s, p, <<"-", "-">>)}
    IN  {m \in 1..Len(s) : ~Is(s, m, "\n") /\ \E p \in starts : p <= m /\ m < After(d, s, p)}

\* t is what s has at the places, in their order.
Selects(s, places, t) ==
    /\ Len(t) = Cardinality(places)
    /\ \A p \in places : t[Cardinality({m \in places : m <= p})] = s[p]

(***************************************************************************)
(* stripLineComments takes from a migration exactly its line comments: its *)
(* literals, whatever quotes and dashes they hold, and its lines stay.     *)
(* One scanner that lets a doubled quote close and open again agrees with  *)
(* the scan of conformPlaceholders on every database, in a text that has   *)
(* nothing it does not know of.                                            *)
(***************************************************************************)
StripKeepsCode ==
    loop = "done" =>
        \A d \in Drivers : Plain(d, segment) => Selects(segment, (1..Len(segment)) \ Comments(d, segment), stripped)
=============================================================================
