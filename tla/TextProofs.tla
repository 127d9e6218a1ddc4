----------------------------- MODULE TextProofs -----------------------------
(***************************************************************************)
(* Proofs about two smaller pieces of the rewriting of statements, for     *)
(* every text and every number: the split of milliseconds into hours, and  *)
(* stripLineComments.  Its invariant, StripAt, follows the scan of         *)
(* conformPlaceholders: the loop is where something starts, or in a        *)
(* literal that has started and not ended, or between the two quotes of a  *)
(* doubled one, when it takes itself to be outside.                        *)
(***************************************************************************)
EXTENDS Hours, StripComments, PlaceholdersProofs

-----------------------------------------------------------------------------
(* Milliseconds *)

\* The quotient of a number that is not negative.
LEMMA Divides ==
    ASSUME NEW n \in Nat
    PROVE  /\ n \div Hour \in Nat
           /\ Hour * (n \div Hour) <= n /\ n < Hour * (n \div Hour) + Hour
  BY HourAssumption

\* Fewer hours than the number has.
LEMMA FewerHours ==
    ASSUME NEW q \in Nat, NEW limit \in Nat, Hour * q < limit * Hour
    PROVE  q < limit
  <1>1. Hour \in Nat /\ Hour >= 1
    BY HourAssumption
  <1>2. ASSUME q >= limit PROVE FALSE
    <2>1. PICK k \in Nat : q = limit + k
      <3>1. q - limit \in Nat /\ q = limit + (q - limit)
        BY <1>2
      <3> QED BY <3>1
    <2>2. Hour * q = limit * Hour + Hour * k
      BY <1>1, <2>1
    <2>3. Hour * k \in Nat
      BY <1>1
    <2> QED BY <1>1, <2>2, <2>3
  <1> QED BY <1>2

\* The milliseconds that DATE_ADD_MILLIS is given, negative ones too, are what
\* mssqlDateAddMillis adds, in a rest of less than an hour and hours that fit
\* an int for all that an int of hours can hold.
THEOREM MillisSplit == \A n \in Int : SplitRight(n)
  <1> SUFFICES ASSUME NEW n \in Int PROVE SplitRight(n)
    OBVIOUS
  <1> DEFINE m == IF n < 0 THEN -n ELSE n
             q == m \div Hour
  <1>1. m \in Nat /\ Hour \in Nat /\ Hour >= 1
    BY HourAssumption
  <1>2. q \in Nat /\ Hour * q <= m /\ m < Hour * q + Hour
    BY <1>1, Divides
  <1>3. Quo(n) = IF n < 0 THEN -q ELSE q
    BY DEF Quo
  <1> HIDE DEF q
  <1>4. Hour * q \in Nat /\ Hour * (-q) = -(Hour * q)
    BY <1>1, <1>2
  <1>5. Rem(n) = IF n < 0 THEN n + Hour * q ELSE n - Hour * q
    BY <1>2, <1>3, <1>4 DEF Rem
  <1>6. ASSUME NEW Limit \in Nat, n \in (1 - Limit * Hour)..(Limit * Hour - 1)
        PROVE  Quo(n) \in (1 - Limit)..(Limit - 1)
    <2>1. Limit * Hour \in Nat
      BY <1>1
    <2>2. Hour * q < Limit * Hour
      BY <1>1, <1>2, <1>4, <1>6, <2>1
    <2>3. q < Limit
      BY <1>2, <2>2, FewerHours
    <2> QED BY <1>2, <1>3, <2>3
  <1>7. Quo(n) \in Int /\ Hour * Quo(n) + Rem(n) = n
    BY <1>2, <1>3, <1>4, <1>5
  <1>8. Direct(Rem(n))
    BY <1>1, <1>2, <1>4, <1>5 DEF Direct
  <1>9. (n >= 0 => Quo(n) >= 0 /\ Rem(n) >= 0) /\ (n <= 0 => Quo(n) <= 0 /\ Rem(n) <= 0)
    <2>1. n = 0 => Hour * q = 0
      BY <1>2, <1>4
    <2> QED BY <1>1, <1>2, <1>3, <1>4, <1>5, <2>1
  <1> QED BY <1>6, <1>7, <1>8, <1>9 DEF SplitRight

-----------------------------------------------------------------------------
(* What is written *)

\* t is what s has at the places before n.
SelectsBelow(s, places, t, n) ==
    /\ Len(t) = Cardinality(Below(places, n))
    /\ \A p \in Below(places, n) : t[Cardinality(Below(places, p + 1))] = s[p]

\* A place is gone.
LEMMA SelectsDrop ==
    ASSUME NEW s, NEW places, places \subseteq Nat, NEW t, NEW n \in Nat, n \notin places,
           SelectsBelow(s, places, t, n)
    PROVE  SelectsBelow(s, places, t, n + 1)
  <1>1. Below(places, n + 1) = Below(places, n)
    <2>1. \A m \in Nat : m # n => (m < n + 1 <=> m < n)
      OBVIOUS
    <2>2. \A m \in places : m \in Nat /\ m # n
      OBVIOUS
    <2> QED BY <2>1, <2>2 DEF Below
  <1> QED BY <1>1 DEF SelectsBelow

\* A place is kept: its character is written.
LEMMA SelectsKeep ==
    ASSUME NEW s, NEW places, places \subseteq Nat, NEW t \in Seq(Chars), NEW n \in places, s[n] \in Chars,
           SelectsBelow(s, places, t, n)
    PROVE  SelectsBelow(s, places, Append(t, s[n]), n + 1)
  <1> DEFINE c == Cardinality(Below(places, n))
             u == Append(t, s[n])
  <1>1. n \in Nat /\ n + 1 \in Nat
    OBVIOUS
  <1>2. c \in Nat /\ Cardinality(Below(places, n + 1)) = c + 1
    BY <1>1, BelowCounts
  <1>3. Len(t) = c
    BY DEF SelectsBelow
  <1> HIDE DEF c
  <1>4. Len(u) = c + 1 /\ u[c + 1] = s[n] /\ \A k \in 1..c : u[k] = t[k]
    BY <1>2, <1>3
  <1> HIDE DEF u
  <1>5. ASSUME NEW p \in Below(places, n + 1) PROVE u[Cardinality(Below(places, p + 1))] = s[p]
    <2>1. p \in places /\ p \in Nat /\ p + 1 \in Nat /\ (p < n \/ p = n)
      BY <1>1 DEF Below
    <2>2. CASE p = n
      BY <1>2, <1>4, <2>2
    <2>3. CASE p < n
      <3> DEFINE k == Cardinality(Below(places, p + 1))
      <3>1. p \in Below(places, n) /\ p + 1 <= n
        BY <1>1, <2>1, <2>3 DEF Below
      <3>2. k \in Nat /\ k = Cardinality(Below(places, p)) + 1 /\ Cardinality(Below(places, p)) \in Nat
        BY <2>1, BelowCounts
      <3>3. k <= c
        BY <1>1, <2>1, <3>1, BelowCounts DEF c
      <3>4. t[k] = s[p]
        BY <3>1 DEF SelectsBelow
      <3> HIDE DEF k
      <3>5. k \in 1..c
        BY <1>2, <3>2, <3>3
      <3> QED BY <1>4, <3>4, <3>5 DEF k
    <2> QED BY <2>1, <2>2, <2>3
  <1> QED BY <1>2, <1>4, <1>5 DEF SelectsBelow, u

\* At the end all that is kept is written.
LEMMA SelectsAll ==
    ASSUME NEW s, Len(s) \in Nat, NEW places, places \subseteq 1..Len(s), NEW t,
           SelectsBelow(s, places, t, Len(s) + 1)
    PROVE  Selects(s, places, t)
  <1> DEFINE N == Len(s)
  <1>1. places \subseteq Nat /\ \A p \in places : p < N + 1
    OBVIOUS
  <1> HIDE DEF N
  <1>2. Below(places, N + 1) = places
    BY <1>1 DEF Below
  <1>3. \A p \in places : {m \in places : m <= p} = Below(places, p + 1)
    BY <1>1, BelowCounts
  <1> QED BY <1>2, <1>3 DEF SelectsBelow, Selects, N

-----------------------------------------------------------------------------
(* The scan of a plain text *)

\* The scan comes to n.
Scanned(d, s, n) ==
    /\ n \in Starts(d, s) \cup {Len(s) + 1}
    /\ \A p \in Starts(d, s) : p < n => After(d, s, p) <= n

\* The fields of a literal.
LEMMA LiteralFields ==
    ASSUME NEW d, NEW s, NEW p, NEW x, NEW y, Literal(d, s, p) = [q |-> x, backslash |-> y]
    PROVE  Literal(d, s, p).q = x /\ Literal(d, s, p).backslash = y
  OBVIOUS

\* A quote starts a literal that it ends, and that no backslash escapes in.
LEMMA PlainQuote ==
    ASSUME NEW d \in Drivers, NEW s, Plain(d, s), NEW p, Is(s, p, Sym(s, p)), Sym(s, p) \in QuoteChars
    PROVE  /\ Literal(d, s, p) # NoLiteral /\ Literal(d, s, p).q = Sym(s, p)
           /\ \A m : ~(Literal(d, s, p).backslash /\ Is(s, m, "\\"))
  <1> DEFINE mysqlish == d = "mysql"
             escapeE == d = "pgx" /\ Is(s, p - 1, "E") /\ ~(p > 2 /\ isIdentByte(Sym(s, p - 2)))
  <1>1. d \in {"mysql", "pgx"} => \A m : ~Is(s, m, "\\")
    BY DEF Plain, Symbols, Is
  <1>2. CASE Sym(s, p) = "'"
    <2>1. Is(s, p, "'")
      BY <1>2 DEF Is
    <2>2. Literal(d, s, p) = [q |-> "'", backslash |-> mysqlish \/ escapeE]
      <3>1. ~Is(s, p, "\"") /\ ~Is(s, p, "tick") /\ ~Is(s, p, "[")
        BY <2>1, OneSymbol
      <3> QED BY <2>1, <3>1 DEF Literal
    <2>3. Literal(d, s, p).q = "'" /\ (Literal(d, s, p).backslash => mysqlish \/ escapeE)
      <3> DEFINE escapes == mysqlish \/ escapeE
      <3>1. Literal(d, s, p) = [q |-> Sym(s, p), backslash |-> escapes]
        BY <1>2, <2>2
      <3> HIDE DEF escapes
      <3>2. Literal(d, s, p).q = Sym(s, p) /\ Literal(d, s, p).backslash = escapes
        BY <3>1, LiteralFields
      <3> QED BY <1>2, <3>2 DEF escapes
    <2>4. Literal(d, s, p) # NoLiteral
      <3>1. NoLiteral.q = "none"
        BY DEF NoLiteral
      <3> QED BY <2>3, <3>1
    <2> QED BY <1>1, <1>2, <2>3, <2>4
  <1>3. CASE Sym(s, p) = "\""
    <2>1. Is(s, p, "\"")
      BY <1>3 DEF Is
    <2>2. Literal(d, s, p) = [q |-> "\"", backslash |-> mysqlish]
      <3>1. ~Is(s, p, "'") /\ ~Is(s, p, "tick") /\ ~Is(s, p, "[")
        BY <2>1, OneSymbol
      <3> QED BY <2>1, <3>1 DEF Literal
    <2>3. Literal(d, s, p).q = "\"" /\ (Literal(d, s, p).backslash => mysqlish)
      <3> DEFINE escapes == mysqlish
      <3>1. Literal(d, s, p) = [q |-> Sym(s, p), backslash |-> escapes]
        BY <1>3, <2>2
      <3> HIDE DEF escapes
      <3>2. Literal(d, s, p).q = Sym(s, p) /\ Literal(d, s, p).backslash = escapes
        BY <3>1, LiteralFields
      <3> QED BY <1>3, <3>2 DEF escapes
    <2>4. Literal(d, s, p) # NoLiteral
      <3>1. NoLiteral.q = "none"
        BY DEF NoLiteral
      <3> QED BY <2>3, <3>1
    <2> QED BY <1>1, <1>3, <2>3, <2>4
  <1>4. CASE Sym(s, p) = "tick"
    <2>1. Is(s, p, "tick") /\ d \in {"mysql", "sqlite"}
      BY <1>4 DEF Is, Plain, Symbols, Drivers
    <2>2. Literal(d, s, p) = [q |-> "tick", backslash |-> FALSE]
      <3>1. ~Is(s, p, "'") /\ ~Is(s, p, "\"") /\ ~Is(s, p, "[")
        BY <2>1, OneSymbol
      <3> QED BY <2>1, <3>1 DEF Literal
    <2> QED BY <1>4, <2>2 DEF NoLiteral
  <1> QED BY <1>2, <1>3, <1>4 DEF QuoteChars

\* Anything else is code, or starts a line comment.
LEMMA PlainCode ==
    ASSUME NEW d \in Drivers, NEW s, Len(s) \in Nat, Plain(d, s), NEW p \in 1..Len(s), Sym(s, p) \notin QuoteChars
    PROVE  After(d, s, p) = IF At(s, p, <<"-", "-">>) THEN Past(s, p, <<"\n">>) ELSE p + 1
  <1>1. Literal(d, s, p) = NoLiteral
    <2>1. ~Is(s, p, "'") /\ ~Is(s, p, "\"") /\ ~Is(s, p, "tick")
      BY DEF Is, QuoteChars
    <2>2. ~(Is(s, p, "[") /\ d \in {"mssql", "sqlite"})
      BY DEF Is, Plain, Symbols
    <2> QED BY <2>1, <2>2 DEF Literal
  <1>2. skipNonCode(d, s, p, TRUE) = skipComment(d, s, p, TRUE)
    BY <1>1 DEF skipNonCode
  <1>3. CASE At(s, p, <<"-", "-">>)
    <2>1. skipComment(d, s, p, TRUE) = Past(s, p, <<"\n">>)
      <3>1. Is(s, p, "-")
        BY <1>3, AtFirst
      <3>2. ~At(s, p, <<"/", "*">>)
        BY <3>1, AtFirst, OneSymbol
      <3>3. ~Is(s, p, "$")
        BY <3>1, OneSymbol
      <3> QED BY <1>3, <3>2, <3>3 DEF skipComment
    <2>2. Past(s, p, <<"\n">>) > p
      <3>1. Len(<<"\n">>) \in Nat \ {0} /\ p \in Nat \ {0} /\ p <= Len(s) + 1 /\ p <= Len(s)
        OBVIOUS
      <3> QED BY <3>1, PastRange
    <2> QED BY <1>2, <1>3, <2>1, <2>2 DEF After
  <1>4. CASE ~At(s, p, <<"-", "-">>)
    <2>1. ~At(s, p, <<"/", "*">>)
      <3>1. Find(s, 1, <<"/", "*">>) = 0
        BY DEF Plain, Occurs
      <3>2. 1 \in Nat \ {0} /\ \A x \in 1..Len(s) : x # 0
        OBVIOUS
      <3> QED BY <3>1, <3>2, FindIs
    <2>2. ~(Is(s, p, "$") /\ TRUE /\ d = "pgx" /\ ~(p > 1 /\ isIdentByte(Sym(s, p - 1))))
      BY DEF Is, Plain, Symbols
    <2>3. skipComment(d, s, p, TRUE) = p
      BY <1>4, <2>1, <2>2 DEF skipComment
    <2>4. ~(p > p)
      OBVIOUS
    <2> QED BY <1>2, <1>4, <2>3, <2>4 DEF After
  <1> QED BY <1>3, <1>4

\* The places up to the next start are a comment's, or none of them is.
LEMMA CommentIs ==
    ASSUME NEW d, NEW s, Len(s) \in Nat, NEW p \in 1..Len(s), Scanned(d, s, p),
           NEW m \in Nat, p <= m, m < After(d, s, p)
    PROVE  m \in 1..Len(s) /\ (m \in Comments(d, s) <=> At(s, p, <<"-", "-">>) /\ ~Is(s, m, "\n"))
  <1>1. p \in Starts(d, s) /\ \A x \in Starts(d, s) : x < p => After(d, s, x) <= p
    BY DEF Scanned
  <1>2. \A x \in Starts(d, s) : x <= p \/ x >= After(d, s, p)
    BY <1>1, NextStart
  <1>3. Starts(d, s) \subseteq 1..Len(s) /\ \A x \in Starts(d, s) : After(d, s, x) \in (x + 1)..(Len(s) + 1)
    BY StartsIs, AfterRange
  <1>4. m \in 1..Len(s)
    <2>1. After(d, s, p) \in (p + 1)..(Len(s) + 1)
      BY AfterRange
    <2> QED BY <2>1
  <1>5. ASSUME NEW x \in Starts(d, s), x <= m, m < After(d, s, x) PROVE x = p
    <2>1. x \in Nat /\ p \in Nat /\ After(d, s, x) \in Nat /\ After(d, s, p) \in Nat
      BY <1>1, <1>3
    <2> QED BY <1>1, <1>2, <1>5, <2>1
  <1> QED BY <1>1, <1>4, <1>5 DEF Comments

\* The literal that a quote q starts at p is still open at n.
Opened(d, s, p, q, n) ==
    /\ p \in 1..Len(s) /\ p < n
    /\ Scanned(d, s, p)
    /\ q \in QuoteChars /\ Is(s, p, q)
    /\ HeadAt(s, p, q, Literal(d, s, p).backslash, n)

\* What skipQuoted skips from an open literal's quote.
LEMMA OpenedIs ==
    ASSUME NEW d \in Drivers, NEW s, Len(s) \in Nat, Plain(d, s), NEW p, NEW q, NEW n, Opened(d, s, p, q, n)
    PROVE  /\ After(d, s, p) = skipQuoted(s, p, q, Literal(d, s, p).backslash)
           /\ \A m : ~(Literal(d, s, p).backslash /\ Is(s, m, "\\"))
           /\ ~At(s, p, <<"-", "-">>)
  <1> DEFINE b == Literal(d, s, p).backslash
             skip == skipQuoted(s, p, q, b)
  <1>1. p \in 1..Len(s) /\ q \in QuoteChars /\ Is(s, p, q) /\ Sym(s, p) = q
    BY DEF Opened, Is
  <1>2. Literal(d, s, p) # NoLiteral /\ Literal(d, s, p).q = q /\ \A m : ~(b /\ Is(s, m, "\\"))
    BY <1>1, PlainQuote
  <1>3. skipNonCode(d, s, p, TRUE) = skip
    BY <1>2 DEF skipNonCode
  <1>4. skip > p
    <2>1. skip \in (p + 1)..(Len(s) + 1)
      BY <1>1, QuotedRange
    <2> HIDE DEF skip
    <2> QED BY <1>1, <2>1
  <1>5. After(d, s, p) = skip
    BY <1>3, <1>4 DEF After
  <1>6. ~At(s, p, <<"-", "-">>)
    <2>1. At(s, p, <<"-", "-">>) => Is(s, p, "-")
      BY <1>1, AtFirst
    <2> QED BY <1>1, <2>1 DEF Is, QuoteChars
  <1> QED BY <1>2, <1>5, <1>6

\* A quote opens a literal.
LEMMA Opens ==
    ASSUME NEW d, NEW s, Len(s) \in Nat, NEW p \in 1..Len(s), Scanned(d, s, p), Sym(s, p) \in QuoteChars
    PROVE  Opened(d, s, p, Sym(s, p), p + 1)
  <1>1. HeadAt(s, p, Sym(s, p), Literal(d, s, p).backslash, p + 1)
    BY HeadStarts
  <1>2. Is(s, p, Sym(s, p)) /\ p < p + 1
    BY DEF Is
  <1> QED BY <1>1, <1>2 DEF Opened

\* No place in an open literal is a comment's.
LEMMA OpenKeeps ==
    ASSUME NEW d \in Drivers, NEW s, Len(s) \in Nat, Plain(d, s), NEW p, NEW q,
           NEW n \in 1..Len(s), p < n, NEW k \in {n, n + 1}, Opened(d, s, p, q, k)
    PROVE  n \notin Comments(d, s)
  <1> DEFINE b == Literal(d, s, p).backslash
             E == Ending(s, p, q, b)
  <1>1. p \in 1..Len(s) /\ Scanned(d, s, p) /\ HeadAt(s, p, q, b, k)
    BY DEF Opened
  <1>2. After(d, s, p) = skipQuoted(s, p, q, b) /\ ~At(s, p, <<"-", "-">>)
    BY OpenedIs
  <1>3. skipQuoted(s, p, q, b) = IF E = {} THEN Len(s) + 1 ELSE Min(E) + 1
    BY DEF skipQuoted, Ending
  <1>4. E \subseteq Nat /\ \A m \in E : m >= k
    BY <1>1, PlacesAre DEF HeadAt
  <1> HIDE DEF E
  <1> DEFINE e == Min(E)
  <1>5. E # {} => e \in E
    BY <1>4, Least
  <1>6. E # {} => e \in Nat /\ e >= n
    <2> HIDE DEF e
    <2>1. E # {} => e \in Nat /\ e >= k
      BY <1>4, <1>5
    <2> QED BY <2>1
  <1> HIDE DEF e
  <1>7. n < After(d, s, p)
    <2>1. skipQuoted(s, p, q, b) = IF E = {} THEN Len(s) + 1 ELSE e + 1
      BY <1>3 DEF e
    <2> HIDE DEF b
    <2> QED BY <1>2, <1>6, <2>1
  <1>8. n \in Nat /\ p <= n
    BY <1>1
  <1> QED BY <1>1, <1>2, <1>7, <1>8, CommentIs

\* The scan moves from a start to the next.
LEMMA ScannedMoves ==
    ASSUME NEW d, NEW s, Len(s) \in Nat, NEW p \in 1..Len(s), Scanned(d, s, p)
    PROVE  Scanned(d, s, After(d, s, p))
  BY ScanMoves DEF Scanned

\* A literal goes on, over a doubled quote too, and ends at another.
LEMMA OpenMoves ==
    ASSUME NEW d \in Drivers, NEW s, Len(s) \in Nat, Plain(d, s), NEW p, NEW q,
           NEW n \in 1..Len(s), Opened(d, s, p, q, n)
    PROVE  /\ ~Is(s, n, q) => Opened(d, s, p, q, n + 1)
           /\ Is(s, n, q) /\ Is(s, n + 1, q) => Opened(d, s, p, q, n + 2)
           /\ Is(s, n, q) /\ ~Is(s, n + 1, q) => Scanned(d, s, n + 1)
  <1> DEFINE b == Literal(d, s, p).backslash
  <1>1. /\ p \in 1..Len(s) /\ p < n /\ Scanned(d, s, p) /\ q \in QuoteChars /\ Is(s, p, q)
        /\ HeadAt(s, p, q, b, n)
    BY DEF Opened
  <1>2. After(d, s, p) = skipQuoted(s, p, q, b) /\ ~(b /\ Is(s, n, "\\"))
    BY OpenedIs
  <1>3. n \in (p + 1)..Len(s) /\ p < n + 1 /\ p < n + 2
    BY <1>1
  <1>4. q # "\\"
    BY <1>1 DEF QuoteChars
  <1> HIDE DEF b
  <1>5. ASSUME ~Is(s, n, q) PROVE HeadAt(s, p, q, b, n + 1)
    BY <1>1, <1>2, <1>3, <1>5, HeadMoves
  <1>6. ASSUME Is(s, n, q), Is(s, n + 1, q) PROVE HeadAt(s, p, q, b, n + 2)
    BY <1>1, <1>3, <1>4, <1>6, HeadDoubles
  <1>7. ASSUME Is(s, n, q), ~Is(s, n + 1, q) PROVE Scanned(d, s, n + 1)
    <2>1. After(d, s, p) = n + 1
      BY <1>1, <1>2, <1>3, <1>7, HeadEnds
    <2>2. Scanned(d, s, After(d, s, p))
      BY <1>1, ScannedMoves
    <2> QED BY <2>1, <2>2
  <1> QED BY <1>1, <1>3, <1>5, <1>6, <1>7 DEF Opened, b

-----------------------------------------------------------------------------
(* The loops of stripLineComments *)

Typed == StripTypeOK /\ (loop = "comment" => at <= Len(segment) + 1)

CodeOf(d) == (1..Len(segment)) \ Comments(d, segment)

Seen == IF at <= Len(segment) + 1 THEN at ELSE Len(segment) + 1

\* Outside, inside a literal, or between the two of a doubled quote.
InText(d) ==
    loop = "text" =>
        \/ quote = "none" /\ (at = Len(segment) + 2 \/ Scanned(d, segment, at))
        \/ quote # "none" /\ \E p : Opened(d, segment, p, quote, at)
        \/ quote = "none" /\ \E p, q : p < at /\ Is(segment, at, q) /\ Opened(d, segment, p, q, at + 1)

InComment(d) ==
    loop = "comment" =>
        /\ quote = "none"
        /\ \E p \in 1..Len(segment) :
              /\ p <= at /\ Scanned(d, segment, p) /\ At(segment, p, <<"-", "-">>)
              /\ \A m \in p..(at - 1) : ~Is(segment, m, "\n")

StripAt(d) ==
    /\ InText(d) /\ InComment(d)
    /\ loop # "done" => SelectsBelow(segment, CodeOf(d), stripped, Seen)

StripInv ==
    /\ Typed /\ StripKeepsCode
    /\ \A d \in Drivers : Plain(d, segment) => StripAt(d)

\* A segment is a text, and its places are numbers.
LEMMA SegmentIs ==
    ASSUME StripTypeOK
    PROVE  /\ segment \in Seq(Chars) /\ Len(segment) \in Nat /\ at \in Nat /\ at >= 1 /\ at <= Len(segment) + 2
           /\ \A n \in 1..Len(segment) : segment[n] \in Chars
  <1>1. segment \in Seq(Chars)
    BY SegmentsAssumption DEF StripTypeOK
  <1>2. Len(segment) \in Nat
    BY <1>1
  <1> QED BY <1>1, <1>2 DEF StripTypeOK

\* Every step stays in the text.
LEMMA StripTyped == Typed /\ [StripNext]_stripVars => Typed'
  <1> SUFFICES ASSUME Typed, [StripNext]_stripVars PROVE Typed'
    OBVIOUS
  <1> USE DEF Typed
  <1>0. /\ segment \in Seq(Chars) /\ Len(segment) \in Nat /\ at \in Nat /\ at >= 1 /\ at <= Len(segment) + 2
        /\ \A n \in 1..Len(segment) : segment[n] \in Chars
    BY SegmentIs
  <1>1. CASE Keep
    <2>1. at \in 1..Len(segment) /\ at + 1 \in 1..(Len(segment) + 2)
      BY <1>0, <1>1 DEF Keep
    <2>2. stripped' \in Seq(Chars)
      BY <1>0, <1>1, <2>1 DEF Keep, StripTypeOK
    <2>3. quote' \in QuoteChars \cup {"none"}
      BY <1>1 DEF Keep, QuoteAfter, StripTypeOK
    <2> QED BY <1>1, <2>1, <2>2, <2>3 DEF Keep, StripTypeOK
  <1>2. CASE Comment
    <2>1. Is(segment, at, "-")
      BY <1>0, <1>2, AtFirst DEF Comment, CommentAt
    <2>2. at <= Len(segment) + 1
      BY <1>0, <2>1 DEF Is
    <2> QED BY <1>2, <2>2 DEF Comment, StripTypeOK
  <1>3. CASE CommentGoesOn
    <2>1. at + 1 \in 1..(Len(segment) + 2) /\ at + 1 <= Len(segment) + 1
      BY <1>0, <1>3 DEF CommentGoesOn
    <2> QED BY <1>3, <2>1 DEF CommentGoesOn, StripTypeOK
  <1>4. CASE CommentEnds
    <2>1. at + 1 \in 1..(Len(segment) + 2)
      BY <1>0, <1>4 DEF CommentEnds
    <2>2. at <= Len(segment) => segment[at] \in Chars
      BY <1>0
    <2>3. stripped' \in Seq(Chars)
      BY <1>4, <2>2 DEF CommentEnds, StripTypeOK
    <2> QED BY <1>4, <2>1, <2>3 DEF CommentEnds, StripTypeOK
  <1>5. CASE StripEnds
    BY <1>5 DEF StripEnds, StripTypeOK
  <1>6. CASE UNCHANGED stripVars
    BY <1>6 DEF stripVars, StripTypeOK
  <1> QED BY <1>1, <1>2, <1>3, <1>4, <1>5, <1>6 DEF StripNext

\* A call starts outside.
LEMMA StripStarts == StripInit => StripInv
  <1> SUFFICES ASSUME StripInit PROVE StripInv
    OBVIOUS
  <1>1. segment \in Seq(Chars) /\ Len(segment) \in Nat
    BY SegmentsAssumption DEF StripInit
  <1>2. Typed
    <2>1. 1 \in 1..(Len(segment) + 2)
      BY <1>1
    <2>2. <<>> \in Seq(Chars)
      OBVIOUS
    <2> QED BY <2>1, <2>2 DEF StripInit, Typed, StripTypeOK
  <1>3. ASSUME NEW d \in Drivers PROVE StripAt(d)
    <2>1. Scanned(d, segment, 1)
      <3>1. Starts(d, segment) \subseteq 1..Len(segment) /\ (Len(segment) > 0 => 1 \in Starts(d, segment))
        BY <1>1, StartsIs
      <3>2. \A p \in 1..Len(segment) : ~(p < 1)
        OBVIOUS
      <3>3. ~(Len(segment) > 0) => 1 = Len(segment) + 1
        BY <1>1
      <3> QED BY <3>1, <3>2, <3>3 DEF Scanned
    <2>2. Below(CodeOf(d), 1) = {} /\ Cardinality({}) = 0
      <3>1. \A m \in CodeOf(d) : ~(m < 1)
        BY DEF CodeOf
      <3> QED BY <3>1, FS_EmptySet DEF Below
    <2>3. Seen = 1
      BY <1>1 DEF Seen, StripInit
    <2>4. SelectsBelow(segment, CodeOf(d), stripped, Seen)
      BY <2>2, <2>3 DEF SelectsBelow, StripInit
    <2> QED BY <2>1, <2>4 DEF StripInit, StripAt, InText, InComment
  <1> QED BY <1>2, <1>3 DEF StripInv, StripKeepsCode, StripInit

\* A character that is kept is written.
LEMMA KeptChar ==
    ASSUME Typed, NEW d, at \in 1..Len(segment), at \notin Comments(d, segment),
           SelectsBelow(segment, CodeOf(d), stripped, Seen), stripped' = Append(stripped, segment[at]),
           segment' = segment, at' = at + 1
    PROVE  SelectsBelow(segment, CodeOf(d), stripped, Seen)'
  <1>1. Len(segment) \in Nat /\ segment[at] \in Chars /\ stripped \in Seq(Chars)
    BY SegmentIs DEF Typed, StripTypeOK
  <1>2. at \in CodeOf(d) /\ CodeOf(d) \subseteq Nat /\ CodeOf(d)' = CodeOf(d)
    BY DEF CodeOf
  <1>3. Seen = at /\ Seen' = at + 1
    BY <1>1 DEF Seen
  <1>4. SelectsBelow(segment, CodeOf(d), Append(stripped, segment[at]), at + 1)
    BY <1>1, <1>2, <1>3, SelectsKeep
  <1>5. SelectsBelow(segment', CodeOf(d)', stripped', Seen')
    BY <1>2, <1>3, <1>4
  <1> QED BY <1>5

\* Outside of comments the loop keeps StripAt.
LEMMA KeepStep ==
    ASSUME Typed, NEW d \in Drivers, Plain(d, segment), StripAt(d), Keep
    PROVE  StripAt(d)'
  <1> DEFINE s == segment
             next == at + 1
             turned == QuoteAfter
  <1>0. /\ Len(s) \in Nat /\ at \in 1..Len(s) /\ at \in Nat /\ next \in Nat
        /\ loop = "text" /\ loop' = "text" /\ segment' = s /\ at' = next /\ quote' = turned
        /\ stripped' = Append(stripped, s[at]) /\ ~CommentAt
    BY SegmentIs DEF Keep, Typed
  <1>1. /\ turned = quote \/ turned = "none" \/ turned = Sym(s, at)
        /\ quote # "none" => turned = IF Is(s, at, quote) THEN "none" ELSE quote
        /\ quote = "none" => turned = IF Sym(s, at) \in QuoteChars THEN Sym(s, at) ELSE "none"
    BY DEF QuoteAfter
  <1> HIDE DEF turned
  <1>2. "none" \notin QuoteChars /\ "-" \notin QuoteChars
    BY DEF QuoteChars
  <1>3. SUFFICES
          /\ at \notin Comments(d, s)
          /\ \/ turned = "none" /\ Scanned(d, s, next)
             \/ turned # "none" /\ \E p : Opened(d, s, p, turned, next)
             \/ turned = "none" /\ \E p, q : p < next /\ Is(s, next, q) /\ Opened(d, s, p, q, next + 1)
    <2>1. SelectsBelow(segment, CodeOf(d), stripped, Seen)'
      BY <1>0, <1>3, KeptChar DEF StripAt
    <2>2. InText(d)'
      BY <1>0, <1>3 DEF InText
    <2>3. InComment(d)'
      BY <1>0 DEF InComment
    <2> QED BY <2>1, <2>2, <2>3 DEF StripAt
  <1>4. CASE quote = "none" /\ (at = Len(s) + 2 \/ Scanned(d, s, at))
    <2>1. Scanned(d, s, at) /\ Scanned(d, s, After(d, s, at))
      BY <1>0, <1>4, ScannedMoves
    <2>2. ~At(s, at, <<"-", "-">>)
      BY <1>0, <1>4 DEF CommentAt
    <2>3. at \notin Comments(d, s)
      <3>1. After(d, s, at) \in next..(Len(s) + 1)
        BY <1>0, AfterRange
      <3>2. at < After(d, s, at) /\ at <= at
        BY <1>0, <3>1
      <3> QED BY <1>0, <2>1, <2>2, <3>2, CommentIs
    <2>4. CASE Sym(s, at) \in QuoteChars
      <3>1. Opened(d, s, at, Sym(s, at), next)
        BY <1>0, <2>1, <2>4, Opens
      <3> QED BY <1>1, <1>2, <1>4, <2>3, <2>4, <3>1
    <2>5. CASE Sym(s, at) \notin QuoteChars
      <3>1. After(d, s, at) = next
        BY <1>0, <2>2, <2>5, PlainCode
      <3> QED BY <1>1, <1>4, <2>1, <2>3, <2>5, <3>1
    <2> QED BY <2>4, <2>5
  <1>5. CASE quote # "none" /\ \E p : Opened(d, s, p, quote, at)
    <2>1. PICK p : Opened(d, s, p, quote, at)
      BY <1>5
    <2>2. p < at /\ quote \in QuoteChars
      BY <2>1 DEF Opened
    <2>3. at \notin Comments(d, s)
      BY <1>0, <2>1, <2>2, OpenKeeps
    <2>4. /\ ~Is(s, at, quote) => Opened(d, s, p, quote, next)
          /\ Is(s, at, quote) /\ Is(s, next, quote) => Opened(d, s, p, quote, at + 2)
          /\ Is(s, at, quote) /\ ~Is(s, next, quote) => Scanned(d, s, next)
      BY <1>0, <2>1, OpenMoves
    <2>5. next + 1 = at + 2 /\ p < next
      <3>1. p \in 1..Len(s)
        BY <2>1 DEF Opened
      <3> QED BY <1>0, <2>2, <3>1
    <2> QED BY <1>1, <1>5, <2>3, <2>4, <2>5
  <1>6. CASE quote = "none" /\ \E p, q : p < at /\ Is(s, at, q) /\ Opened(d, s, p, q, next)
    <2>1. PICK p, q : p < at /\ Is(s, at, q) /\ Opened(d, s, p, q, next)
      BY <1>6
    <2>2. q \in QuoteChars /\ Sym(s, at) = q
      BY <2>1 DEF Opened, Is
    <2>3. at \notin Comments(d, s)
      BY <1>0, <2>1, OpenKeeps
    <2> QED BY <1>1, <1>2, <1>6, <2>1, <2>2, <2>3
  <1> QED BY <1>0, <1>4, <1>5, <1>6 DEF StripAt, InText

\* A comment starts where something starts.
LEMMA CommentStep ==
    ASSUME Typed, NEW d \in Drivers, Plain(d, segment), StripAt(d), Comment
    PROVE  StripAt(d)'
  <1>0. /\ Len(segment) \in Nat /\ at \in Nat /\ at >= 1
        /\ loop = "text" /\ loop' = "comment" /\ segment' = segment /\ at' = at /\ quote' = quote
        /\ stripped' = stripped /\ quote = "none" /\ At(segment, at, <<"-", "-">>)
    BY SegmentIs DEF Comment, CommentAt, Typed
  <1>1. Is(segment, at, "-")
    BY <1>0, AtFirst
  <1>2. at \in 1..Len(segment)
    BY <1>1 DEF Is
  <1>3. Scanned(d, segment, at)
    <2>1. ASSUME NEW p, NEW q, Is(segment, at, q), Opened(d, segment, p, q, at + 1) PROVE FALSE
      BY <1>1, <2>1 DEF Opened, Is, QuoteChars
    <2>2. at # Len(segment) + 2
      BY <1>0, <1>2
    <2> QED BY <1>0, <2>1, <2>2 DEF StripAt, InText
  <1>4. \A m \in at..(at - 1) : ~Is(segment, m, "\n")
    BY <1>0
  <1>5. InComment(d)'
    BY <1>0, <1>2, <1>3, <1>4 DEF InComment
  <1>6. SelectsBelow(segment, CodeOf(d), stripped, Seen)'
    BY <1>0 DEF StripAt, CodeOf, Seen
  <1> QED BY <1>0, <1>5, <1>6 DEF StripAt, InText

\* In a comment: where it is, and what the database sees there.
LEMMA InsideComment ==
    ASSUME Typed, NEW d \in Drivers, Plain(d, segment), StripAt(d), loop = "comment"
    PROVE  \E p \in 1..Len(segment) :
              /\ p <= at /\ Scanned(d, segment, p) /\ At(segment, p, <<"-", "-">>)
              /\ \A m \in p..(at - 1) : ~Is(segment, m, "\n")
              /\ After(d, segment, p) = Past(segment, p, <<"\n">>)
  <1>1. PICK p \in 1..Len(segment) :
              /\ p <= at /\ Scanned(d, segment, p) /\ At(segment, p, <<"-", "-">>)
              /\ \A m \in p..(at - 1) : ~Is(segment, m, "\n")
    BY DEF StripAt, InComment
  <1>2. Len(segment) \in Nat
    BY SegmentIs DEF Typed
  <1>3. Sym(segment, p) \notin QuoteChars
    <2>1. Is(segment, p, "-")
      BY <1>1, AtFirst
    <2> QED BY <2>1 DEF Is, QuoteChars
  <1>4. After(d, segment, p) = Past(segment, p, <<"\n">>)
    BY <1>1, <1>2, <1>3, PlainCode
  <1> QED BY <1>1, <1>4

\* The ends of lines are found where Is says.
LEMMA LineAt ==
    ASSUME NEW s, NEW k \in Nat
    PROVE  At(s, k, <<"\n">>) <=> Is(s, k, "\n")
  <1>1. Len(<<"\n">>) = 1 /\ <<"\n">>[1] = "\n" /\ k + 1 - 1 = k
    OBVIOUS
  <1>2. \A m \in 1..1 : m = 1
    OBVIOUS
  <1> QED BY <1>1, <1>2 DEF At

\* Past the end of the line, when there was none before.
LEMMA LineEnds ==
    ASSUME NEW s, Len(s) \in Nat, NEW p \in 1..Len(s), NEW n \in Nat, p <= n, n <= Len(s),
           \A m \in p..(n - 1) : ~Is(s, m, "\n")
    PROVE  /\ Is(s, n, "\n") => Past(s, p, <<"\n">>) = n + 1
           /\ ~Is(s, n, "\n") => Past(s, p, <<"\n">>) > n
  <1> DEFINE f == Find(s, p, <<"\n">>)
  <1>1. \/ f = 0 /\ \A k \in p..Len(s) : ~At(s, k, <<"\n">>)
        \/ /\ f \in p..Len(s) /\ At(s, f, <<"\n">>)
           /\ \A k \in p..(f - 1) : ~At(s, k, <<"\n">>)
    <2>1. p \in Nat \ {0}
      OBVIOUS
    <2> QED BY <2>1, FindIs
  <1>2. Past(s, p, <<"\n">>) = IF f = 0 THEN Len(s) + 1 ELSE f + 1
    <2>1. Len(<<"\n">>) = 1
      OBVIOUS
    <2> QED BY <2>1 DEF Past
  <1> HIDE DEF f
  <1>3. CASE f = 0
    <2>1. n \in p..Len(s)
      OBVIOUS
    <2>2. ~Is(s, n, "\n")
      <3>1. \A k \in p..Len(s) : ~At(s, k, <<"\n">>)
        BY <1>1, <1>3
      <3> QED BY <2>1, <3>1, LineAt
    <2> QED BY <1>2, <1>3, <2>2
  <1>4. CASE f # 0
    <2>1. f \in p..Len(s) /\ f \in Nat /\ Is(s, f, "\n") /\ \A k \in p..(f - 1) : ~At(s, k, <<"\n">>)
      BY <1>1, <1>4, LineAt
    <2>2. f >= n
      <3>1. f < n => f \in p..(n - 1)
        BY <2>1
      <3> QED BY <2>1, <3>1
    <2>3. Is(s, n, "\n") => f = n
      <3>1. n < f => n \in p..(f - 1)
        BY <2>1
      <3>2. Is(s, n, "\n") => ~(n < f)
        BY <2>1, <3>1, LineAt
      <3> QED BY <2>1, <2>2, <3>2
    <2>4. ~Is(s, n, "\n") => f # n
      BY <2>1
    <2>5. f > 0
      BY <1>4, <2>1
    <2> QED BY <1>2, <1>4, <2>1, <2>2, <2>3, <2>4
  <1> QED BY <1>3, <1>4

\* The inner loop passes over what the database takes for a comment.
LEMMA CommentGoesOnStep ==
    ASSUME Typed, NEW d \in Drivers, Plain(d, segment), StripAt(d), CommentGoesOn
    PROVE  StripAt(d)'
  <1>0. /\ Len(segment) \in Nat /\ at \in Nat /\ at >= 1 /\ at <= Len(segment)
        /\ loop = "comment" /\ loop' = "comment" /\ segment' = segment /\ at' = at + 1 /\ quote' = quote
        /\ stripped' = stripped /\ ~Is(segment, at, "\n")
    BY SegmentIs DEF CommentGoesOn, Typed
  <1>1. PICK p \in 1..Len(segment) :
              /\ p <= at /\ Scanned(d, segment, p) /\ At(segment, p, <<"-", "-">>)
              /\ \A m \in p..(at - 1) : ~Is(segment, m, "\n")
              /\ After(d, segment, p) = Past(segment, p, <<"\n">>)
    BY <1>0, InsideComment
  <1>2. at < After(d, segment, p)
    <2>1. Past(segment, p, <<"\n">>) > at
      BY <1>0, <1>1, LineEnds
    <2>2. Past(segment, p, <<"\n">>) \in Int
      <3>1. After(d, segment, p) \in (p + 1)..(Len(segment) + 1)
        BY <1>0, AfterRange
      <3> QED BY <1>1, <3>1
    <2> QED BY <1>0, <1>1, <2>1, <2>2
  <1>3. at \notin CodeOf(d)
    <2>1. at \in Comments(d, segment)
      BY <1>0, <1>1, <1>2, CommentIs
    <2> QED BY <2>1 DEF CodeOf
  <1>4. SelectsBelow(segment, CodeOf(d), stripped, Seen)'
    <2>1. CodeOf(d) \subseteq Nat /\ CodeOf(d)' = CodeOf(d)
      BY <1>0 DEF CodeOf
    <2>2. Seen = at /\ Seen' = at + 1
      BY <1>0 DEF Seen
    <2>3. SelectsBelow(segment, CodeOf(d), stripped, at)
      BY <1>0, <2>2 DEF StripAt
    <2>4. SelectsBelow(segment, CodeOf(d), stripped, at + 1)
      BY <1>0, <1>3, <2>1, <2>3, SelectsDrop
    <2>5. SelectsBelow(segment', CodeOf(d)', stripped', Seen')
      BY <1>0, <2>1, <2>2, <2>4
    <2> QED BY <2>5
  <1>5. \A m \in p..((at + 1) - 1) : ~Is(segment, m, "\n")
    <2>1. \A m \in p..((at + 1) - 1) : m \in p..(at - 1) \/ m = at
      BY <1>0
    <2> QED BY <1>0, <1>1, <2>1
  <1>6. InComment(d)'
    <2>1. p <= at + 1 /\ quote = "none"
      BY <1>0, <1>1 DEF StripAt, InComment
    <2> QED BY <1>0, <1>1, <1>5, <2>1 DEF InComment
  <1> QED BY <1>0, <1>4, <1>6 DEF StripAt, InText

\* The comment ends with its line, which stays, or with the text.
LEMMA CommentEndsStep ==
    ASSUME Typed, NEW d \in Drivers, Plain(d, segment), StripAt(d), CommentEnds
    PROVE  StripAt(d)'
  <1>0. /\ Len(segment) \in Nat /\ at \in Nat /\ at >= 1 /\ at <= Len(segment) + 1
        /\ loop = "comment" /\ loop' = "text" /\ segment' = segment /\ at' = at + 1 /\ quote' = quote
        /\ at <= Len(segment) => Is(segment, at, "\n")
        /\ stripped' = IF at <= Len(segment) THEN Append(stripped, segment[at]) ELSE stripped
        /\ SelectsBelow(segment, CodeOf(d), stripped, Seen) /\ quote = "none"
    BY SegmentIs DEF CommentEnds, Typed, StripAt, InComment
  <1>1. PICK p \in 1..Len(segment) :
              /\ p <= at /\ Scanned(d, segment, p) /\ At(segment, p, <<"-", "-">>)
              /\ \A m \in p..(at - 1) : ~Is(segment, m, "\n")
              /\ After(d, segment, p) = Past(segment, p, <<"\n">>)
    BY <1>0, InsideComment
  <1>2. CASE at <= Len(segment)
    <2>1. After(d, segment, p) = at + 1
      BY <1>0, <1>1, <1>2, LineEnds
    <2>2. Scanned(d, segment, at + 1)
      <3>1. Scanned(d, segment, After(d, segment, p))
        BY <1>0, <1>1, ScannedMoves
      <3> QED BY <2>1, <3>1
    <2>3. at \in 1..Len(segment) /\ at \notin Comments(d, segment)
      <3>1. at \in 1..Len(segment) /\ at < After(d, segment, p)
        BY <1>0, <1>2, <2>1
      <3> QED BY <1>0, <1>1, <1>2, <3>1, CommentIs
    <2>4. stripped' = Append(stripped, segment[at])
      BY <1>0, <1>2
    <2>5. SelectsBelow(segment, CodeOf(d), stripped, Seen)'
      BY <1>0, <2>3, <2>4, KeptChar
    <2> QED BY <1>0, <2>2, <2>5 DEF StripAt, InText, InComment
  <1>3. CASE at = Len(segment) + 1
    <2>1. Seen = at /\ Seen' = at /\ stripped' = stripped /\ at' = Len(segment) + 2
      BY <1>0, <1>3 DEF Seen
    <2>2. CodeOf(d)' = CodeOf(d)
      BY <1>0 DEF CodeOf
    <2>3. SelectsBelow(segment', CodeOf(d)', stripped', Seen')
      BY <1>0, <2>1, <2>2
    <2> QED BY <1>0, <2>1, <2>3 DEF StripAt, InText, InComment
  <1> QED BY <1>0, <1>2, <1>3

\* Every step keeps StripInv.
LEMMA StripStep == StripInv /\ [StripNext]_stripVars => StripInv'
  <1> SUFFICES ASSUME StripInv, [StripNext]_stripVars PROVE StripInv'
    OBVIOUS
  <1>1. Typed /\ Typed'
    BY StripTyped DEF StripInv
  <1>2. segment' = segment
    BY DEF StripNext, stripVars, Keep, Comment, CommentGoesOn, CommentEnds, StripEnds
  <1>3. ASSUME NEW d \in Drivers, Plain(d, segment) PROVE StripAt(d)'
    <2>0. StripAt(d)
      BY <1>3 DEF StripInv
    <2>1. CASE Keep
      BY <1>1, <1>3, <2>0, <2>1, KeepStep
    <2>2. CASE Comment
      BY <1>1, <1>3, <2>0, <2>2, CommentStep
    <2>3. CASE CommentGoesOn
      BY <1>1, <1>3, <2>0, <2>3, CommentGoesOnStep
    <2>4. CASE CommentEnds
      BY <1>1, <1>3, <2>0, <2>4, CommentEndsStep
    <2>5. CASE StripEnds
      BY <2>5 DEF StripEnds, StripAt, InText, InComment
    <2>6. CASE UNCHANGED stripVars
      <3>1. segment' = segment /\ loop' = loop /\ at' = at /\ quote' = quote /\ stripped' = stripped
        BY <2>6 DEF stripVars
      <3> QED BY <2>0, <3>1 DEF StripAt, InText, InComment, Seen, CodeOf
    <2> QED BY <2>1, <2>2, <2>3, <2>4, <2>5, <2>6 DEF StripNext
  <1>4. StripKeepsCode'
    <2>1. CASE StripEnds
      <3>1. /\ loop = "text" /\ at > Len(segment) /\ at \in Nat /\ Len(segment) \in Nat /\ at <= Len(segment) + 2
            /\ stripped' = stripped
        BY <1>1, <2>1, SegmentIs DEF StripEnds, Typed
      <3>2. Seen = Len(segment) + 1
        BY <3>1 DEF Seen
      <3>3. ASSUME NEW d \in Drivers, Plain(d, segment)
            PROVE  Selects(segment, (1..Len(segment)) \ Comments(d, segment), stripped)
        <4>1. SelectsBelow(segment, CodeOf(d), stripped, Len(segment) + 1)
          BY <3>1, <3>2, <3>3 DEF StripInv, StripAt
        <4>2. CodeOf(d) \subseteq 1..Len(segment)
          BY DEF CodeOf
        <4>3. Selects(segment, CodeOf(d), stripped)
          BY <3>1, <4>1, <4>2, SelectsAll
        <4> QED BY <4>3 DEF CodeOf
      <3> QED BY <1>2, <3>1, <3>3 DEF StripKeepsCode
    <2>2. CASE UNCHANGED stripVars
      BY <2>2 DEF stripVars, StripInv, StripKeepsCode
    <2>3. CASE Keep \/ Comment \/ CommentGoesOn \/ CommentEnds
      BY <2>3 DEF Keep, Comment, CommentGoesOn, CommentEnds, StripKeepsCode
    <2> QED BY <2>1, <2>2, <2>3 DEF StripNext
  <1> QED BY <1>1, <1>2, <1>3, <1>4 DEF StripInv

\* The loops of stripLineComments stay in the text, and what they write is
\* made of its characters.
THEOREM StripTypeCorrect == StripSpec => []StripTypeOK
  <1>1. StripInv => StripTypeOK
    BY DEF StripInv, Typed
  <1> QED BY <1>1, StripStarts, StripStep, PTL DEF StripSpec

\* stripLineComments takes exactly the line comments from a migration.
THEOREM StripsComments == StripSpec => []StripKeepsCode
  <1>1. StripInv => StripKeepsCode
    BY DEF StripInv
  <1> QED BY <1>1, StripStarts, StripStep, PTL DEF StripSpec
=============================================================================
