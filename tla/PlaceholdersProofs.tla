-------------------------- MODULE PlaceholdersProofs ------------------------
(***************************************************************************)
(* Proofs about conformPlaceholders and skipQuoted for every text.  What   *)
(* would be an induction over the text is an invariant of the loops.       *)
(* QuoteInv is the inner loop's: at its head the runs of backslashes and   *)
(* of quotes just before it are even, and none of the quotes behind it     *)
(* ends the literal.  ScanInv and SoFar are the outer loop's: where it has *)
(* been is where something starts, and what it has written is the text up  *)
(* to there with its ordinals.                                             *)
(***************************************************************************)
EXTENDS Placeholders, FiniteSetTheorems, SequenceTheorems, WellFoundedInduction, TLAPS

-----------------------------------------------------------------------------
(* Places in a text *)

\* A set of numbers that is not empty has a least one, and Min is it.
LEMMA Least ==
    ASSUME NEW S, S \subseteq Nat, S # {}
    PROVE  Min(S) \in S /\ \A k \in S : Min(S) <= k
  <1> DEFINE R == OpToRel(<, Nat)
  <1>1. PICK m \in S : \A k \in S : ~(<<k, m>> \in R)
    <2> HIDE DEF R
    <2>1. IsWellFoundedOn(R, Nat)
      BY NatLessThanWellFounded DEF R
    <2> QED BY <2>1, WFMin
  <1>2. ASSUME NEW k \in S PROVE m <= k
    <2>1. k \in Nat /\ m \in Nat
      OBVIOUS
    <2>2. k < m => <<k, m>> \in R
      BY <2>1 DEF OpToRel
    <2>3. ~(k < m)
      <3> HIDE DEF R
      <3> QED BY <1>1, <2>2
    <2> HIDE DEF R
    <2> QED BY <2>1, <2>3
  <1>3. \E x \in S : \A y \in S : x <= y
    BY <1>2
  <1> QED BY <1>3 DEF Min

\* A run of neighbours starts somewhere.
LEMMA RunStart ==
    ASSUME NEW P, P \subseteq Nat, NEW m \in P
    PROVE  \E k \in P : k <= m /\ k..m \subseteq P /\ k - 1 \notin P
  <1> DEFINE T == {k \in P : k <= m /\ k..m \subseteq P}
             k == Min(T)
  <1>1. m \in T
    OBVIOUS
  <1>2. T \subseteq Nat /\ T # {}
    BY <1>1
  <1>3. k \in T /\ \A x \in T : k <= x
    <2> HIDE DEF T
    <2> QED BY <1>2, Least
  <1> HIDE DEF k
  <1>4. ASSUME k - 1 \in P PROVE FALSE
    <2>1. k \in Nat /\ m \in Nat /\ k - 1 \in Nat /\ k - 1 <= m /\ k..m \subseteq P
      BY <1>3, <1>4
    <2>2. (k - 1)..m \subseteq P
      <3> SUFFICES ASSUME NEW x \in (k - 1)..m PROVE x \in P
        OBVIOUS
      <3>1. x = k - 1 \/ x \in k..m
        BY <2>1
      <3> QED BY <1>4, <2>1, <3>1
    <2>3. k - 1 \in T
      BY <1>4, <2>1, <2>2
    <2>4. k <= k - 1
      <3> HIDE DEF T
      <3> QED BY <1>3, <2>3
    <2> QED BY <2>1, <2>4
  <1> QED BY <1>3, <1>4

\* A run grows by one: from odd to even, from even to odd.
LEMMA RunGrows ==
    ASSUME NEW P, P \subseteq Nat, NEW m \in Nat
    PROVE  /\ m \notin P => ~OddRun(P, m)
           /\ m \in P => (OddRun(P, m) <=> ~OddRun(P, m - 1))
  <1>1. ASSUME m \notin P, OddRun(P, m) PROVE FALSE
    <2>1. PICK k \in P : k..m \subseteq P /\ k <= m
      BY <1>1 DEF OddRun
    <2>2. m \in k..m
      BY <2>1
    <2> QED BY <1>1, <2>1, <2>2
  <1>2. ASSUME m \in P PROVE OddRun(P, m) <=> ~OddRun(P, m - 1)
    <2>1. PICK k \in P : k <= m /\ k..m \subseteq P /\ k - 1 \notin P
      BY <1>2, RunStart
    <2>2. k \in Nat /\ m \in Nat
      BY <1>2
    <2>3. ASSUME NEW n \in {m - 1, m}, NEW h \in P, h..n \subseteq P, h <= n, h - 1 \notin P
          PROVE  h = k
      <3>1. h \in Nat /\ n \in Int
        BY <2>2
      <3>2. ~(h < k)
        <4> SUFFICES ASSUME h < k PROVE FALSE
          OBVIOUS
        <4>1. k - 1 \in h..n
          BY <2>1, <2>2, <3>1
        <4> QED BY <2>1, <2>3, <4>1
      <3>3. ~(k < h)
        <4> SUFFICES ASSUME k < h PROVE FALSE
          OBVIOUS
        <4>1. h - 1 \in k..m
          BY <2>2, <2>3, <3>1
        <4> QED BY <2>1, <2>3, <4>1
      <3> QED BY <2>2, <3>1, <3>2, <3>3
    <2>4. OddRun(P, m) <=> (m - k) % 2 = 0
      BY <2>1, <2>3 DEF OddRun
    <2>5. OddRun(P, m - 1) <=> k <= m - 1 /\ ((m - 1) - k) % 2 = 0
      <3>1. k <= m - 1 => k..(m - 1) \subseteq P
        BY <2>1, <2>2
      <3> QED BY <2>1, <2>3, <3>1 DEF OddRun
    <2>6. (m - k) % 2 = 0 <=> ~(k <= m - 1 /\ ((m - 1) - k) % 2 = 0)
      BY <2>1, <2>2
    <2> QED BY <2>4, <2>5, <2>6
  <1> QED BY <1>1, <1>2

\* Find is the first place of the symbols.
LEMMA FindIs ==
    ASSUME NEW s, Len(s) \in Nat, NEW p \in Nat \ {0}, NEW symbols
    PROVE  \/ Find(s, p, symbols) = 0 /\ \A k \in p..Len(s) : ~At(s, k, symbols)
           \/ /\ Find(s, p, symbols) \in p..Len(s) /\ At(s, Find(s, p, symbols), symbols)
              /\ \A k \in p..(Find(s, p, symbols) - 1) : ~At(s, k, symbols)
  <1> DEFINE found == {k \in p..Len(s) : At(s, k, symbols)}
  <1>1. found \subseteq Nat /\ \A k \in found : k \in p..Len(s)
    OBVIOUS
  <1>2. Find(s, p, symbols) = IF found = {} THEN 0 ELSE Min(found)
    BY DEF Find
  <1>3. CASE found = {}
    BY <1>2, <1>3
  <1>4. CASE found # {}
    <2>1. Min(found) \in found /\ \A k \in found : Min(found) <= k
      <3> HIDE DEF found
      <3> QED BY <1>1, <1>4, Least
    <2> DEFINE m == Min(found)
    <2>2. Find(s, p, symbols) = m /\ m \in found /\ \A k \in found : m <= k
      BY <1>2, <1>4, <2>1
    <2> HIDE DEF m
    <2>3. m \in p..Len(s) /\ At(s, m, symbols)
      BY <2>2
    <2>4. ASSUME NEW k \in p..(m - 1) PROVE ~At(s, k, symbols)
      <3>1. k \in p..Len(s) /\ ~(m <= k)
        BY <2>3
      <3> QED BY <2>2, <3>1
    <2> QED BY <2>2, <2>3, <2>4
  <1> QED BY <1>3, <1>4

\* Past is no further than just past the end.
LEMMA PastRange ==
    ASSUME NEW s, Len(s) \in Nat, NEW p \in Nat \ {0}, p <= Len(s) + 1,
           NEW symbols, Len(symbols) \in Nat \ {0}
    PROVE  Past(s, p, symbols) \in p..(Len(s) + 1) /\ (p <= Len(s) => Past(s, p, symbols) > p)
  <1> DEFINE f == Find(s, p, symbols)
  <1>1. f = 0 \/ (f \in p..Len(s) /\ At(s, f, symbols))
    BY FindIs
  <1>2. Past(s, p, symbols) = IF f = 0 THEN Len(s) + 1 ELSE f + Len(symbols)
    BY DEF Past
  <1> HIDE DEF f
  <1>3. CASE f = 0
    BY <1>2, <1>3
  <1>4. CASE f # 0
    <2>1. Is(s, f + Len(symbols) - 1, symbols[Len(symbols)])
      BY <1>1, <1>4 DEF At
    <2>2. f + Len(symbols) - 1 <= Len(s)
      BY <2>1 DEF Is
    <2> QED BY <1>1, <1>2, <1>4, <2>2
  <1> QED BY <1>3, <1>4

\* A $ at p is skipped to somewhere in the text, or not at all.
LEMMA DollarRange ==
    ASSUME NEW s, Len(s) \in Nat, NEW p \in 1..Len(s)
    PROVE  skipDollar(s, p) \in p..(Len(s) + 1)
  <1> DEFINE word == {k \in (p + 1)..Len(s) : ~isWordByte(Sym(s, k))}
             m == Min(word)
             tag == [n \in 1..(m - p + 1) |-> Sym(s, p + n - 1)]
  <1>1. \/ skipDollar(s, p) = p
        \/ word # {} /\ skipDollar(s, p) = Past(s, m + 1, tag)
    BY DEF skipDollar
  <1>2. CASE skipDollar(s, p) = p
    BY <1>2
  <1>3. CASE word # {} /\ skipDollar(s, p) = Past(s, m + 1, tag)
    <2>1. word \subseteq Nat /\ word \subseteq (p + 1)..Len(s)
      OBVIOUS
    <2>2. m \in (p + 1)..Len(s)
      <3> HIDE DEF word
      <3> QED BY <1>3, <2>1, Least
    <2> HIDE DEF m
    <2>3. Len(tag) \in Nat \ {0}
      <3>1. m - p + 1 \in Nat \ {0}
        BY <2>2
      <3>2. Len(tag) = m - p + 1
        BY <3>1
      <3> QED BY <3>1, <3>2
    <2>4. m + 1 \in Nat \ {0} /\ m + 1 <= Len(s) + 1
      BY <2>2
    <2>5. Past(s, m + 1, tag) \in (m + 1)..(Len(s) + 1)
      <3> HIDE DEF tag
      <3> QED BY <2>3, <2>4, PastRange
    <2> QED BY <1>3, <2>2, <2>5
  <1> QED BY <1>1, <1>2, <1>3

\* Of two symbols that occur at p the first is there.
LEMMA AtFirst ==
    ASSUME NEW s, NEW p \in Int, NEW a, NEW b, At(s, p, <<a, b>>)
    PROVE  Is(s, p, a) /\ Is(s, p + 1, b)
  <1>1. 1 \in 1..Len(<<a, b>>) /\ <<a, b>>[1] = a /\ p + 1 - 1 = p
    OBVIOUS
  <1>2. 2 \in 1..Len(<<a, b>>) /\ <<a, b>>[2] = b /\ p + 2 - 1 = p + 1
    OBVIOUS
  <1>3. Is(s, p, a)
    BY <1>1 DEF At
  <1>4. Is(s, p + 1, b)
    BY <1>2 DEF At
  <1> QED BY <1>3, <1>4

\* There is one symbol at a place.
LEMMA OneSymbol ==
    ASSUME NEW s, NEW p, NEW a, NEW b, Is(s, p, a), Is(s, p, b)
    PROVE  a = b
  BY DEF Is

\* So is a comment.
LEMMA CommentRange ==
    ASSUME NEW d, NEW s, Len(s) \in Nat, NEW p \in 1..Len(s)
    PROVE  skipComment(d, s, p, TRUE) \in p..(Len(s) + 1)
  <1>1. p \in Nat \ {0} /\ p <= Len(s) + 1
    OBVIOUS
  <1>2. CASE At(s, p, <<"-", "-">>)
    <2>1. Len(<<"\n">>) \in Nat \ {0}
      OBVIOUS
    <2>2. skipComment(d, s, p, TRUE) = Past(s, p, <<"\n">>)
      <3>1. Is(s, p, "-")
        BY <1>2, AtFirst
      <3>2. ~At(s, p, <<"/", "*">>)
        BY <3>1, AtFirst, OneSymbol
      <3>3. ~Is(s, p, "$")
        BY <3>1, OneSymbol
      <3> QED BY <1>2, <3>2, <3>3 DEF skipComment
    <2> QED BY <1>1, <2>1, <2>2, PastRange
  <1>3. CASE ~At(s, p, <<"-", "-">>) /\ At(s, p, <<"/", "*">>)
    <2>1. Len(<<"*", "/">>) \in Nat \ {0}
      OBVIOUS
    <2>2. skipComment(d, s, p, TRUE) = Past(s, p + 2, <<"*", "/">>)
      <3>1. Is(s, p, "/")
        BY <1>3, AtFirst
      <3>2. ~Is(s, p, "$")
        BY <3>1, OneSymbol
      <3> QED BY <1>3, <3>2 DEF skipComment
    <2>3. Is(s, p + 1, "*")
      BY <1>3, AtFirst
    <2>4. p + 2 \in Nat \ {0} /\ p + 2 <= Len(s) + 1
      BY <2>3 DEF Is
    <2>5. Past(s, p + 2, <<"*", "/">>) \in (p + 2)..(Len(s) + 1)
      BY <2>1, <2>4, PastRange
    <2> HIDE DEF skipComment
    <2>6. \A n \in (p + 2)..(Len(s) + 1) : n \in p..(Len(s) + 1)
      BY <1>1
    <2> QED BY <2>2, <2>5, <2>6
  <1>4. CASE ~At(s, p, <<"-", "-">>) /\ ~At(s, p, <<"/", "*">>)
    <2>1. skipComment(d, s, p, TRUE) \in {p, skipDollar(s, p)}
      <3>1. CASE Is(s, p, "$") /\ TRUE /\ d = "pgx" /\ ~(p > 1 /\ isIdentByte(Sym(s, p - 1)))
        BY <1>4, <3>1 DEF skipComment
      <3>2. CASE ~(Is(s, p, "$") /\ TRUE /\ d = "pgx" /\ ~(p > 1 /\ isIdentByte(Sym(s, p - 1))))
        BY <1>4, <3>2 DEF skipComment
      <3> QED BY <3>1, <3>2
    <2>2. p \in p..(Len(s) + 1)
      BY <1>1
    <2> QED BY <2>1, <2>2, DollarRange
  <1> QED BY <1>2, <1>3, <1>4

\* And a literal, which is never empty.
LEMMA QuotedRange ==
    ASSUME NEW s, Len(s) \in Nat, NEW p \in 1..Len(s), NEW q, NEW backslash
    PROVE  skipQuoted(s, p, q, backslash) \in (p + 1)..(Len(s) + 1)
  <1> DEFINE quotes == Quotes(s, p, q, backslash)
             ends == {k \in quotes : OddRun(quotes, k) /\ ~Is(s, k + 1, q)}
  <1>1. skipQuoted(s, p, q, backslash) = IF ends = {} THEN Len(s) + 1 ELSE Min(ends) + 1
    BY DEF skipQuoted
  <1>2. quotes \subseteq (p + 1)..Len(s)
    BY DEF Quotes
  <1>3. ends \subseteq (p + 1)..Len(s) /\ ends \subseteq Nat
    <2>1. (p + 1)..Len(s) \subseteq Nat
      OBVIOUS
    <2> HIDE DEF quotes
    <2> QED BY <1>2, <2>1
  <1>4. CASE ends = {}
    BY <1>1, <1>4
  <1>5. CASE ends # {}
    <2>1. Min(ends) \in (p + 1)..Len(s)
      <3> HIDE DEF ends
      <3> QED BY <1>3, <1>5, Least
    <2> QED BY <1>1, <1>5, <2>1
  <1> QED BY <1>4, <1>5

\* From a place in the text the scan goes on to a later one, or to the end.
LEMMA AfterRange ==
    ASSUME NEW d, NEW s, Len(s) \in Nat, NEW p \in 1..Len(s)
    PROVE  /\ skipNonCode(d, s, p, TRUE) \in p..(Len(s) + 1)
           /\ Literal(d, s, p) # NoLiteral => skipNonCode(d, s, p, TRUE) > p
           /\ After(d, s, p) \in (p + 1)..(Len(s) + 1)
  <1> DEFINE l == Literal(d, s, p)
             skip == skipNonCode(d, s, p, TRUE)
  <1>1. skip = IF l = NoLiteral THEN skipComment(d, s, p, TRUE)
               ELSE skipQuoted(s, p, l.q, l.backslash)
    BY DEF skipNonCode
  <1>2. skip \in p..(Len(s) + 1) /\ (l # NoLiteral => skip > p)
    <2>1. CASE l = NoLiteral
      BY <1>1, <2>1, CommentRange
    <2>2. CASE l # NoLiteral
      <3> HIDE DEF l
      <3>1. skip \in (p + 1)..(Len(s) + 1)
        BY <1>1, <2>2, QuotedRange
      <3>2. \A n \in (p + 1)..(Len(s) + 1) : n \in p..(Len(s) + 1) /\ n > p
        OBVIOUS
      <3> HIDE DEF skip
      <3> QED BY <2>2, <3>1, <3>2
    <2> QED BY <2>1, <2>2
  <1>3. After(d, s, p) = IF skip > p THEN skip ELSE p + 1
    BY DEF After
  <1> HIDE DEF skip, l
  <1>4. After(d, s, p) \in (p + 1)..(Len(s) + 1)
    BY <1>2, <1>3
  <1> QED BY <1>2, <1>4 DEF skip, l

\* What starts a literal or a comment is not a ?.
LEMMA NoMarkStarts ==
    ASSUME NEW d, NEW s, NEW p, Is(s, p, "?")
    PROVE  Literal(d, s, p) = NoLiteral /\ skipComment(d, s, p, TRUE) = p
  <1>1. \A x : Is(s, p, x) => x = "?"
    BY DEF Is
  <1>2. Literal(d, s, p) = NoLiteral
    BY <1>1 DEF Literal
  <1>3. ~At(s, p, <<"-", "-">>)
    <2>1. 1 \in 1..Len(<<"-", "-">>) /\ <<"-", "-">>[1] = "-" /\ p + 1 - 1 = p
      BY DEF Is
    <2> QED BY <1>1, <2>1 DEF At
  <1>4. ~At(s, p, <<"/", "*">>)
    <2>1. 1 \in 1..Len(<<"/", "*">>) /\ <<"/", "*">>[1] = "/" /\ p + 1 - 1 = p
      BY DEF Is
    <2> QED BY <1>1, <2>1 DEF At
  <1>5. skipComment(d, s, p, TRUE) = p
    BY <1>1, <1>3, <1>4 DEF skipComment
  <1> QED BY <1>2, <1>5

-----------------------------------------------------------------------------
(* skipQuoted *)

Slashes(s, p) == {m \in (p + 1)..Len(s) : Is(s, m, "\\")}

\* The quotes that end a literal.
Ending(s, p, q, backslash) ==
    {m \in Quotes(s, p, q, backslash) : OddRun(Quotes(s, p, q, backslash), m) /\ ~Is(s, m + 1, q)}

\* The inner loop's head is at n: what is before n is settled.
HeadAt(s, p, q, backslash, n) ==
    /\ \A m \in Ending(s, p, q, backslash) : m >= n
    /\ ~OddRun(Quotes(s, p, q, backslash), n - 1)
    /\ backslash => ~OddRun(Slashes(s, p), n - 1)

\* What follows an odd run in the set makes it even.
LEMMA RunGoesOn ==
    ASSUME NEW P, P \subseteq Nat, NEW n \in Nat, OddRun(P, n)
    PROVE  ~OddRun(P, n + 1)
  <1> DEFINE m == n + 1
  <1>1. m \in Nat /\ m - 1 = n
    OBVIOUS
  <1> HIDE DEF m
  <1>2. ~OddRun(P, m)
    BY <1>1, RunGrows
  <1> QED BY <1>2 DEF m

\* Quotes and backslashes are places after the one that opens the literal.
LEMMA PlacesAre ==
    ASSUME NEW s, Len(s) \in Nat, NEW p \in 1..Len(s), NEW q, NEW backslash
    PROVE  /\ Quotes(s, p, q, backslash) \subseteq Nat /\ Slashes(s, p) \subseteq Nat
           /\ Ending(s, p, q, backslash) \subseteq Nat
           /\ \A m \in Nat : m \in Slashes(s, p) <=> m > p /\ Is(s, m, "\\")
           /\ \A m \in Nat : m \in Quotes(s, p, q, backslash) <=>
                  m > p /\ Is(s, m, q) /\ ~(backslash /\ OddRun(Slashes(s, p), m - 1))
           /\ \A m \in Nat : m \in Ending(s, p, q, backslash) <=>
                  /\ m \in Quotes(s, p, q, backslash) /\ OddRun(Quotes(s, p, q, backslash), m)
                  /\ ~Is(s, m + 1, q)
  <1> DEFINE after == (p + 1)..Len(s)
  <1>1. after \subseteq Nat /\ \A m \in Nat : m \in 1..Len(s) => (m \in after <=> m > p)
    OBVIOUS
  <1>2. Slashes(s, p) = {m \in after : Is(s, m, "\\")}
    BY DEF Slashes
  <1>3. Quotes(s, p, q, backslash) =
            {m \in after : Is(s, m, q) /\ ~(backslash /\ OddRun(Slashes(s, p), m - 1))}
    BY DEF Quotes, Slashes
  <1>4. \A m, x : Is(s, m, x) => m \in 1..Len(s)
    BY DEF Is
  <1>5. \A m \in after : m > p
    OBVIOUS
  <1> HIDE DEF after
  <1>6. Quotes(s, p, q, backslash) \subseteq Nat /\ Slashes(s, p) \subseteq Nat
    BY <1>1, <1>2, <1>3
  <1>7. Ending(s, p, q, backslash) \subseteq Nat
    BY <1>6 DEF Ending
  <1>8. \A m \in Nat : m \in Slashes(s, p) <=> m > p /\ Is(s, m, "\\")
    BY <1>1, <1>2, <1>4, <1>5
  <1>9. \A m \in Nat : m \in Quotes(s, p, q, backslash) <=>
                  m > p /\ Is(s, m, q) /\ ~(backslash /\ OddRun(Slashes(s, p), m - 1))
    BY <1>1, <1>3, <1>4, <1>5
  <1> QED BY <1>6, <1>7, <1>8, <1>9 DEF Ending

\* A head at the first character of the literal.
LEMMA HeadStarts ==
    ASSUME NEW s, Len(s) \in Nat, NEW p \in 1..Len(s), NEW q, NEW backslash
    PROVE  HeadAt(s, p, q, backslash, p + 1)
  <1> DEFINE Q == Quotes(s, p, q, backslash)
             E == Ending(s, p, q, backslash)
             B == Slashes(s, p)
  <1>1. Q \subseteq Nat /\ B \subseteq Nat /\ E \subseteq Nat /\ p \in Nat /\ p + 1 - 1 = p
    BY PlacesAre
  <1>2. p \notin Q /\ p \notin B /\ \A m \in E : m > p
    BY <1>1, PlacesAre
  <1> HIDE DEF Q, E, B
  <1>3. ~OddRun(Q, p) /\ ~OddRun(B, p)
    BY <1>1, <1>2, RunGrows
  <1>4. \A m \in E : m >= p + 1
    BY <1>1, <1>2
  <1> QED BY <1>1, <1>3, <1>4 DEF HeadAt, Q, E, B

\* Backslashes escape.
Escaping(backslash) == backslash

\* From a backslash that escapes, the head moves two on.
LEMMA HeadEscapes ==
    ASSUME NEW s, Len(s) \in Nat, NEW p \in 1..Len(s), NEW q, NEW backslash, NEW n \in (p + 1)..Len(s),
           q # "\\", Escaping(backslash), HeadAt(s, p, q, backslash, n), Is(s, n, "\\")
    PROVE  HeadAt(s, p, q, backslash, n + 2)
  <1> DEFINE Q == Quotes(s, p, q, backslash)
             E == Ending(s, p, q, backslash)
             B == Slashes(s, p)
  <1>1. /\ Q \subseteq Nat /\ B \subseteq Nat /\ E \subseteq Nat /\ n \in Nat /\ n > p
        /\ n + 1 \in Nat /\ n + 1 > p /\ n + 1 - 1 = n /\ n + 2 - 1 = n + 1
    BY PlacesAre
  <1>2. n \in B /\ n \notin Q
    <2>1. ~Is(s, n, q)
      BY OneSymbol
    <2> QED BY <1>1, <2>1, PlacesAre
  <1>3. OddRun(B, n)
    <2>1. ~OddRun(B, n - 1)
      <3>1. backslash => ~OddRun(B, n - 1)
        BY DEF HeadAt
      <3> HIDE DEF B
      <3> QED BY <3>1 DEF Escaping
    <2> HIDE DEF B
    <2> QED BY <1>1, <1>2, <2>1, RunGrows
  <1>4. n + 1 \notin Q
    <2>1. n + 1 \in Q => ~(backslash /\ OddRun(B, n))
      BY <1>1, PlacesAre
    <2> HIDE DEF Q, B
    <2> QED BY <1>3, <2>1 DEF Escaping
  <1>5. n \notin E /\ n + 1 \notin E
    BY <1>1, <1>2, <1>4, PlacesAre
  <1>6. \A m \in E : m >= n
    BY DEF HeadAt
  <1> HIDE DEF Q, E, B
  <1>7. ~OddRun(Q, n + 1) /\ ~OddRun(B, n + 1)
    BY <1>1, <1>3, <1>4, RunGrows, RunGoesOn
  <1>8. ASSUME NEW m \in E PROVE m >= n + 2
    <2>1. m \in Nat /\ m >= n /\ m # n /\ m # n + 1
      BY <1>1, <1>5, <1>6
    <2> QED BY <1>1, <2>1
  <1> QED BY <1>1, <1>7, <1>8 DEF HeadAt, Q, E, B

\* A quote at the head is one that no backslash escapes, and its run is odd.
LEMMA HeadQuote ==
    ASSUME NEW s, Len(s) \in Nat, NEW p \in 1..Len(s), NEW q, NEW backslash, NEW n \in (p + 1)..Len(s),
           HeadAt(s, p, q, backslash, n), Is(s, n, q)
    PROVE  n \in Quotes(s, p, q, backslash) /\ OddRun(Quotes(s, p, q, backslash), n)
  <1> DEFINE Q == Quotes(s, p, q, backslash)
  <1>1. Q \subseteq Nat /\ n \in Nat /\ n > p
    BY PlacesAre
  <1>2. n \in Q
    BY <1>1, PlacesAre DEF HeadAt
  <1>3. ~OddRun(Q, n - 1)
    BY DEF HeadAt
  <1> HIDE DEF Q
  <1>4. OddRun(Q, n)
    BY <1>1, <1>2, <1>3, RunGrows
  <1> QED BY <1>2, <1>4 DEF Q

\* From a doubled quote, the head moves two on.
LEMMA HeadDoubles ==
    ASSUME NEW s, Len(s) \in Nat, NEW p \in 1..Len(s), NEW q, NEW backslash, NEW n \in (p + 1)..Len(s),
           q # "\\", HeadAt(s, p, q, backslash, n), Is(s, n, q), Is(s, n + 1, q)
    PROVE  HeadAt(s, p, q, backslash, n + 2)
  <1> DEFINE Q == Quotes(s, p, q, backslash)
             E == Ending(s, p, q, backslash)
             B == Slashes(s, p)
  <1>1. /\ Q \subseteq Nat /\ B \subseteq Nat /\ E \subseteq Nat /\ n \in Nat /\ n > p
        /\ n + 1 \in Nat /\ n + 1 > p /\ n + 1 - 1 = n /\ n + 2 - 1 = n + 1
    BY PlacesAre
  <1>2. OddRun(Q, n)
    BY HeadQuote
  <1>3. n \notin B /\ n + 1 \notin B
    <2>1. ~Is(s, n, "\\") /\ ~Is(s, n + 1, "\\")
      BY OneSymbol
    <2> QED BY <1>1, <2>1, PlacesAre
  <1>4. ~OddRun(B, n) /\ ~OddRun(B, n + 1)
    <2> HIDE DEF B
    <2> QED BY <1>1, <1>3, RunGrows
  <1>5. n + 1 \in Q
    BY <1>1, <1>4, PlacesAre
  <1>6. ~OddRun(Q, n + 1)
    <2> HIDE DEF Q
    <2> QED BY <1>1, <1>2, RunGoesOn
  <1>7. n \notin E /\ n + 1 \notin E
    BY <1>1, <1>6, PlacesAre
  <1>8. \A m \in E : m >= n
    BY DEF HeadAt
  <1> HIDE DEF Q, E, B
  <1>9. ASSUME NEW m \in E PROVE m >= n + 2
    <2>1. m \in Nat /\ m >= n /\ m # n /\ m # n + 1
      BY <1>1, <1>7, <1>8
    <2> QED BY <1>1, <2>1
  <1> QED BY <1>1, <1>4, <1>6, <1>9 DEF HeadAt, Q, E, B

\* From any other character, the head moves one on.
LEMMA HeadMoves ==
    ASSUME NEW s, Len(s) \in Nat, NEW p \in 1..Len(s), NEW q, NEW backslash, NEW n \in (p + 1)..Len(s),
           HeadAt(s, p, q, backslash, n), ~Is(s, n, q), ~(backslash /\ Is(s, n, "\\"))
    PROVE  HeadAt(s, p, q, backslash, n + 1)
  <1> DEFINE Q == Quotes(s, p, q, backslash)
             E == Ending(s, p, q, backslash)
             B == Slashes(s, p)
  <1>1. /\ Q \subseteq Nat /\ B \subseteq Nat /\ E \subseteq Nat /\ n \in Nat /\ n > p
        /\ n + 1 - 1 = n
    BY PlacesAre
  <1>2. n \notin Q /\ n \notin E /\ (backslash => n \notin B)
    BY <1>1, PlacesAre
  <1>3. \A m \in E : m >= n
    BY DEF HeadAt
  <1> HIDE DEF Q, E, B
  <1>4. ~OddRun(Q, n) /\ (backslash => ~OddRun(B, n))
    BY <1>1, <1>2, RunGrows
  <1>5. ASSUME NEW m \in E PROVE m >= n + 1
    <2>1. m \in Nat /\ m >= n /\ m # n
      BY <1>1, <1>2, <1>3
    <2> QED BY <1>1, <2>1
  <1> QED BY <1>1, <1>4, <1>5 DEF HeadAt, Q, E, B

\* The literal ends at a quote that is not doubled.
LEMMA HeadEnds ==
    ASSUME NEW s, Len(s) \in Nat, NEW p \in 1..Len(s), NEW q, NEW backslash, NEW n \in (p + 1)..Len(s),
           HeadAt(s, p, q, backslash, n), Is(s, n, q), ~Is(s, n + 1, q)
    PROVE  skipQuoted(s, p, q, backslash) = n + 1
  <1> DEFINE E == Ending(s, p, q, backslash)
  <1>1. n \in Nat /\ E \subseteq Nat
    BY PlacesAre
  <1>2. n \in E
    BY <1>1, HeadQuote, PlacesAre
  <1>3. \A m \in E : m >= n
    BY DEF HeadAt
  <1>4. skipQuoted(s, p, q, backslash) = IF E = {} THEN Len(s) + 1 ELSE Min(E) + 1
    BY DEF skipQuoted, Ending
  <1> HIDE DEF E
  <1> DEFINE m == Min(E)
  <1>5. m \in E /\ m <= n
    BY <1>1, <1>2, Least
  <1>6. m = n
    <2> HIDE DEF m
    <2>1. m \in Nat /\ m >= n
      BY <1>1, <1>3, <1>5
    <2> QED BY <1>1, <1>5, <2>1
  <1> QED BY <1>2, <1>4, <1>6

\* Or with the text.
LEMMA HeadRunsOut ==
    ASSUME NEW s, Len(s) \in Nat, NEW p \in 1..Len(s), NEW q, NEW backslash, NEW n \in Nat, n > Len(s),
           HeadAt(s, p, q, backslash, n)
    PROVE  skipQuoted(s, p, q, backslash) = Len(s) + 1
  <1> DEFINE E == Ending(s, p, q, backslash)
  <1>1. ASSUME NEW m \in E PROVE FALSE
    <2>1. m >= n
      BY <1>1 DEF HeadAt
    <2>2. m \in Quotes(s, p, q, backslash)
      BY <1>1 DEF Ending
    <2>3. m \in (p + 1)..Len(s)
      BY <2>2 DEF Quotes
    <2> QED BY <2>1, <2>3
  <1>2. skipQuoted(s, p, q, backslash) = IF E = {} THEN Len(s) + 1 ELSE Min(E) + 1
    BY DEF skipQuoted, Ending
  <1> HIDE DEF E
  <1>3. E = {}
    BY <1>1
  <1> QED BY <1>2, <1>3

\* No literal is closed by a backslash.
LEMMA LiteralQuote ==
    ASSUME NEW d, NEW s, NEW p, Literal(d, s, p) # NoLiteral
    PROVE  Literal(d, s, p).q # "\\"
  <1> DEFINE mysqlish == d = "mysql"
             escapeE == d = "pgx" /\ Is(s, p - 1, "E") /\ ~(p > 2 /\ isIdentByte(Sym(s, p - 2)))
  <1>1. CASE Is(s, p, "'")
    <2>1. ~Is(s, p, "\"") /\ ~Is(s, p, "tick") /\ ~Is(s, p, "[")
      BY <1>1, OneSymbol
    <2>2. Literal(d, s, p) = [q |-> "'", backslash |-> mysqlish \/ escapeE]
      BY <1>1, <2>1 DEF Literal
    <2> QED BY <2>2
  <1>2. CASE Is(s, p, "\"")
    <2>1. ~Is(s, p, "'") /\ ~Is(s, p, "tick") /\ ~Is(s, p, "[")
      BY <1>2, OneSymbol
    <2>2. Literal(d, s, p) = [q |-> "\"", backslash |-> mysqlish]
      BY <1>2, <2>1 DEF Literal
    <2>3. Literal(d, s, p).q = "\""
      <3>1. \A x, y : [q |-> x, backslash |-> y].q = x
        OBVIOUS
      <3> HIDE DEF mysqlish
      <3> QED BY <2>2, <3>1, Zenon
    <2>4. "\"" # "\\"
      BY Zenon
    <2> QED BY <2>3, <2>4
  <1>3. CASE Is(s, p, "tick") /\ d \in {"mysql", "sqlite"}
    <2>1. ~Is(s, p, "'") /\ ~Is(s, p, "\"") /\ ~Is(s, p, "[")
      BY <1>3, OneSymbol
    <2>2. Literal(d, s, p) = [q |-> "tick", backslash |-> FALSE]
      BY <1>3, <2>1 DEF Literal
    <2> QED BY <2>2
  <1>4. CASE Is(s, p, "[") /\ d \in {"mssql", "sqlite"}
    <2>1. ~Is(s, p, "'") /\ ~Is(s, p, "\"") /\ ~Is(s, p, "tick")
      BY <1>4, OneSymbol
    <2>2. Literal(d, s, p) = [q |-> "]", backslash |-> FALSE]
      BY <1>4, <2>1 DEF Literal
    <2> QED BY <2>2
  <1>5. CASE /\ ~Is(s, p, "'") /\ ~Is(s, p, "\"")
             /\ ~(Is(s, p, "tick") /\ d \in {"mysql", "sqlite"})
             /\ ~(Is(s, p, "[") /\ d \in {"mssql", "sqlite"})
    BY <1>5 DEF Literal
  <1> QED BY <1>1, <1>2, <1>3, <1>4, <1>5

-----------------------------------------------------------------------------
(* Numbering *)

Below(marks, p) == {m \in marks : m < p}

\* The character at p of s is in t, or its ordinal.
Shows(s, marks, t, p) ==
    LET to == p + Cardinality(Below(marks, p))
    IN  IF p \in marks
        THEN t[to] = Ch("$") /\ t[to + 1] = <<"9", Cardinality(Below(marks, p)) + 1, s[p][3]>>
        ELSE t[to] = s[p]

\* t is s before n, with an ordinal for each of the marks.
NumbersBelow(s, marks, t, n) ==
    /\ Len(t) = n - 1 + Cardinality(Below(marks, n))
    /\ \A p \in 1..(n - 1) : Shows(s, marks, t, p)

\* Two texts, one after the other.
LEMMA ConcatIs ==
    ASSUME NEW C, NEW t \in Seq(C), NEW u \in Seq(C)
    PROVE  /\ t \o u \in Seq(C) /\ Len(t \o u) = Len(t) + Len(u)
           /\ \A k \in 1..Len(t) : (t \o u)[k] = t[k]
           /\ \A k \in 1..Len(u) : (t \o u)[Len(t) + k] = u[k]
  OBVIOUS

\* The marks before a place are finite, and one more past a mark.
LEMMA BelowCounts ==
    ASSUME NEW marks, marks \subseteq Nat, NEW p \in Nat
    PROVE  /\ IsFiniteSet(Below(marks, p)) /\ Cardinality(Below(marks, p)) \in Nat
           /\ p \in marks => Cardinality(Below(marks, p + 1)) = Cardinality(Below(marks, p)) + 1
           /\ {m \in marks : m <= p} = Below(marks, p + 1)
           /\ \A n \in Nat : p <= n => Cardinality(Below(marks, p)) <= Cardinality(Below(marks, n))
  <1>0. \A n, m : m \in Below(marks, n) <=> m \in marks /\ m \in Nat /\ m < n
    BY DEF Below
  <1>1. ASSUME NEW n \in Nat PROVE IsFiniteSet(Below(marks, n)) /\ Cardinality(Below(marks, n)) \in Nat
    <2>1. Below(marks, n) \in SUBSET Nat /\ \A m \in Below(marks, n) : m <= n
      BY <1>0
    <2>2. IsFiniteSet(Below(marks, n))
      BY <2>1, FS_BoundedSetOfNaturals
    <2> QED BY <2>2, FS_CardinalityType
  <1>2. {m \in marks : m <= p} = Below(marks, p + 1)
    <2>1. \A m \in Nat : m <= p <=> m < p + 1
      OBVIOUS
    <2> QED BY <1>0, <2>1
  <1>3. ASSUME p \in marks PROVE Cardinality(Below(marks, p + 1)) = Cardinality(Below(marks, p)) + 1
    <2>1. Below(marks, p + 1) = Below(marks, p) \cup {p} /\ p \notin Below(marks, p)
      <3>1. \A m \in Nat : m < p + 1 <=> m < p \/ m = p
        OBVIOUS
      <3> QED BY <1>0, <1>3, <3>1
    <2> QED BY <1>1, <2>1, FS_AddElement
  <1>4. ASSUME NEW n \in Nat, p <= n PROVE Cardinality(Below(marks, p)) <= Cardinality(Below(marks, n))
    <2>1. Below(marks, p) \in SUBSET Below(marks, n)
      <3>1. \A m \in Nat : m < p => m < n
        BY <1>4
      <3> QED BY <1>0, <3>1
    <2> QED BY <1>1, <2>1, FS_Subset
  <1> QED BY <1>1, <1>2, <1>3, <1>4

\* What is written for a place before n is in t.
LEMMA WrittenBelow ==
    ASSUME NEW s, NEW marks, marks \subseteq Nat, NEW t, NEW n \in Nat, NumbersBelow(s, marks, t, n),
           NEW p \in 1..(n - 1)
    PROVE  /\ p + Cardinality(Below(marks, p)) \in 1..Len(t)
           /\ p \in marks => p + Cardinality(Below(marks, p)) + 1 \in 1..Len(t)
  <1> DEFINE c == Cardinality(Below(marks, p))
             d == Cardinality(Below(marks, n))
             e == Cardinality(Below(marks, p + 1))
  <1>1. p \in Nat /\ p + 1 \in Nat /\ p <= n /\ p + 1 <= n
    OBVIOUS
  <1>2. c \in Nat /\ d \in Nat /\ e \in Nat /\ c <= d /\ e <= d /\ (p \in marks => e = c + 1)
    BY <1>1, BelowCounts
  <1>3. Len(t) = n - 1 + d
    BY DEF NumbersBelow
  <1> HIDE DEF c, d, e
  <1>4. p + c \in 1..Len(t) /\ (p \in marks => p + c + 1 \in 1..Len(t))
    BY <1>1, <1>2, <1>3
  <1> QED BY <1>4 DEF c

\* What is already written stays.
LEMMA WrittenStays ==
    ASSUME NEW s, NEW marks, marks \subseteq Nat, NEW t \in Seq(Written), NEW u \in Seq(Written),
           NEW n \in Nat, NumbersBelow(s, marks, t, n), NEW p \in 1..(n - 1)
    PROVE  Shows(s, marks, t \o u, p)
  <1> DEFINE c == Cardinality(Below(marks, p))
             to == p + c
  <1>1. IF p \in marks THEN t[to] = Ch("$") /\ t[to + 1] = <<"9", c + 1, s[p][3]>> ELSE t[to] = s[p]
    BY DEF NumbersBelow, Shows
  <1>2. to \in 1..Len(t) /\ (p \in marks => to + 1 \in 1..Len(t))
    BY WrittenBelow
  <1>3. \A k \in 1..Len(t) : (t \o u)[k] = t[k]
    BY ConcatIs
  <1> HIDE DEF to, c
  <1>4. IF p \in marks THEN (t \o u)[to] = Ch("$") /\ (t \o u)[to + 1] = <<"9", c + 1, s[p][3]>>
        ELSE (t \o u)[to] = s[p]
    <2>1. (t \o u)[to] = t[to] /\ (p \in marks => (t \o u)[to + 1] = t[to + 1])
      BY <1>2, <1>3
    <2> QED BY <1>1, <2>1
  <1> QED BY <1>4 DEF Shows, to, c

\* u is the piece of s from n up to k, and has no mark.
CopyCase(s, marks, t, u, n, k) ==
    /\ s \in Seq(Chars) /\ marks \subseteq Nat /\ t \in Seq(Written) /\ u \in Seq(Written)
    /\ n \in Nat /\ k \in Nat /\ 1 <= n /\ n <= k /\ NumbersBelow(s, marks, t, n)
    /\ \A m \in marks : ~(n <= m /\ m < k)
    /\ Len(u) = k - n /\ \A x \in 1..(k - n) : u[x] = s[n + x - 1]

\* A piece of s without a mark is written as it is.
LEMMA NumbersCopy ==
    ASSUME NEW s, NEW marks, NEW t, NEW u, NEW n, NEW k, CopyCase(s, marks, t, u, n, k)
    PROVE  NumbersBelow(s, marks, t \o u, k) /\ Below(marks, k) = Below(marks, n)
  <1>0. /\ s \in Seq(Chars) /\ marks \subseteq Nat /\ t \in Seq(Written) /\ u \in Seq(Written)
        /\ n \in Nat /\ k \in Nat /\ 1 <= n /\ n <= k /\ NumbersBelow(s, marks, t, n)
        /\ \A m \in marks : ~(n <= m /\ m < k)
        /\ Len(u) = k - n /\ \A x \in 1..(k - n) : u[x] = s[n + x - 1]
    BY DEF CopyCase
  <1> USE <1>0
  <1> DEFINE d == Cardinality(Below(marks, n))
  <1>1. ASSUME NEW p \in Nat, n <= p, p <= k PROVE Below(marks, p) = Below(marks, n)
    <2>1. \A m \in marks : m < p <=> m < n
      BY <1>1
    <2> QED BY <2>1 DEF Below
  <1>2. d \in Nat /\ Len(t) = n - 1 + d /\ Len(t) \in Nat
    <2>1. d \in Nat
      BY BelowCounts
    <2> QED BY <2>1 DEF NumbersBelow
  <1>3. t \o u \in Seq(Written) /\ Len(t \o u) = Len(t) + Len(u)
    BY ConcatIs
  <1>4. Len(t \o u) = k - 1 + Cardinality(Below(marks, k))
    <2>1. Cardinality(Below(marks, k)) = d
      BY <1>1
    <2> HIDE DEF d
    <2> QED BY <1>2, <1>3, <2>1
  <1>5. ASSUME NEW p \in 1..(k - 1)
        PROVE  Shows(s, marks, t \o u, p)
    <2>1. CASE p < n
      <3>1. p \in 1..(n - 1)
        BY <2>1
      <3> QED BY <3>1, WrittenStays
    <2>2. CASE ~(p < n)
      <3>1. p \in Nat /\ n <= p /\ p < k
        BY <2>2
      <3>2. p \notin marks /\ Cardinality(Below(marks, p)) = d
        BY <1>1, <3>1
      <3> HIDE DEF d
      <3>3. p + d = Len(t) + (p - n + 1) /\ p - n + 1 \in 1..Len(u)
        BY <1>2, <3>1
      <3>4. (t \o u)[p + d] = u[p - n + 1]
        <4>1. (t \o u)[Len(t) + (p - n + 1)] = u[p - n + 1]
          BY <3>3, ConcatIs
        <4> QED BY <3>3, <4>1
      <3>5. p - n + 1 \in 1..(k - n) /\ n + (p - n + 1) - 1 = p
        BY <3>1
      <3>6. u[p - n + 1] = s[p]
        <4>1. u[p - n + 1] = s[n + (p - n + 1) - 1]
          BY <3>5
        <4> QED BY <3>5, <4>1
      <3> QED BY <3>2, <3>4, <3>6 DEF Shows
    <2> QED BY <2>1, <2>2
  <1>6. Below(marks, k) = Below(marks, n)
    BY <1>1
  <1> QED BY <1>4, <1>5, <1>6 DEF NumbersBelow

\* There is a mark at n, and a is its ordinal.
MarkCase(s, marks, t, n, a) ==
    /\ s \in Seq(Chars) /\ marks \subseteq Nat /\ t \in Seq(Written) /\ n \in marks /\ 1 <= n
    /\ NumbersBelow(s, marks, t, n) /\ a = 1 + Cardinality(Below(marks, n))
    /\ Ordinal(a, s[n]) \in Seq(Written)

\* A mark is replaced by the next ordinal.
LEMMA NumbersMark ==
    ASSUME NEW s, NEW marks, NEW t, NEW n, NEW a, MarkCase(s, marks, t, n, a)
    PROVE  /\ NumbersBelow(s, marks, t \o Ordinal(a, s[n]), n + 1)
           /\ 1 + Cardinality(Below(marks, n + 1)) = a + 1
  <1>9. /\ s \in Seq(Chars) /\ marks \subseteq Nat /\ t \in Seq(Written) /\ n \in marks /\ 1 <= n
        /\ NumbersBelow(s, marks, t, n) /\ a = 1 + Cardinality(Below(marks, n))
        /\ Ordinal(a, s[n]) \in Seq(Written)
    BY DEF MarkCase
  <1> USE <1>9
  <1> DEFINE d == Cardinality(Below(marks, n))
             u == Ordinal(a, s[n])
  <1>1. n \in Nat /\ d \in Nat /\ Cardinality(Below(marks, n + 1)) = d + 1 /\ Len(t) = n - 1 + d
    BY BelowCounts DEF NumbersBelow
  <1>2. Len(u) = 2 /\ u[1] = Ch("$") /\ u[2] = <<"9", a, s[n][3]>> /\ u \in Seq(Written)
    BY DEF Ordinal
  <1> HIDE DEF u
  <1>0. u \in Seq(Written)
    BY DEF u
  <1>3. Len(t \o u) = Len(t) + 2
    <2>1. Len(t \o u) = Len(t) + Len(u)
      BY <1>0, ConcatIs
    <2> QED BY <1>2, <2>1
  <1>4. (t \o u)[Len(t) + 1] = u[1] /\ (t \o u)[Len(t) + 2] = u[2]
    <2>1. 1 \in 1..Len(u) /\ 2 \in 1..Len(u)
      BY <1>2
    <2>2. \A k \in 1..Len(u) : (t \o u)[Len(t) + k] = u[k]
      BY <1>0, ConcatIs
    <2> QED BY <2>1, <2>2
  <1>5. Len(t \o u) = (n + 1) - 1 + Cardinality(Below(marks, n + 1))
    <2> HIDE DEF d
    <2> QED BY <1>1, <1>3
  <1>6. ASSUME NEW p \in 1..((n + 1) - 1)
        PROVE  Shows(s, marks, t \o u, p)
    <2>1. CASE p < n
      <3>1. p \in 1..(n - 1)
        BY <1>1, <2>1
      <3> QED BY <1>1, <1>2, <3>1, WrittenStays
    <2>2. CASE ~(p < n)
      <3>1. p = n
        BY <1>1, <2>2
      <3>2. n + d = Len(t) + 1 /\ n + d + 1 = Len(t) + 2 /\ a = d + 1
        <4> HIDE DEF d
        <4>1. a = 1 + d
          BY DEF d
        <4> QED BY <1>1, <4>1
      <3>3. (t \o u)[n + d] = Ch("$") /\ (t \o u)[n + d + 1] = <<"9", d + 1, s[n][3]>>
        <4> HIDE DEF d
        <4> QED BY <1>2, <1>4, <3>2
      <3> QED BY <3>1, <3>3 DEF Shows
    <2> QED BY <2>1, <2>2
  <1>7. NumbersBelow(s, marks, t \o u, n + 1)
    BY <1>5, <1>6 DEF NumbersBelow
  <1>8. 1 + Cardinality(Below(marks, n + 1)) = a + 1
    <2>1. a = 1 + d
      OBVIOUS
    <2> HIDE DEF d
    <2> QED BY <1>1, <2>1
  <1> QED BY <1>7, <1>8 DEF u

\* At the end all of s is written.
LEMMA NumbersAll ==
    ASSUME NEW s, Len(s) \in Nat, NEW marks, marks \subseteq 1..Len(s), NEW t,
           NumbersBelow(s, marks, t, Len(s) + 1)
    PROVE  Numbers(s, marks, t)
  <1> DEFINE N == Len(s)
  <1>1. marks \subseteq Nat
    OBVIOUS
  <1>2. Below(marks, N + 1) = marks /\ N + 1 - 1 = N
    <2>1. \A m \in marks : m < N + 1
      OBVIOUS
    <2>2. Below(marks, N + 1) = marks
      <3> HIDE DEF N
      <3> QED BY <2>1 DEF Below
    <2> QED BY <2>2
  <1>3. Len(t) = N + Cardinality(marks)
    BY <1>2 DEF NumbersBelow
  <1>4. ASSUME NEW p \in 1..N
        PROVE  /\ Cardinality({m \in marks : m < p}) = Cardinality(Below(marks, p))
               /\ p \in marks => Cardinality({m \in marks : m <= p}) = Cardinality(Below(marks, p)) + 1
    <2>1. p \in Nat
      OBVIOUS
    <2>2. {m \in marks : m < p} = Below(marks, p)
      BY DEF Below
    <2>3. {m \in marks : m <= p} = Below(marks, p + 1)
      BY <1>1, <2>1, BelowCounts
    <2>4. p \in marks => Cardinality(Below(marks, p + 1)) = Cardinality(Below(marks, p)) + 1
      BY <1>1, <2>1, BelowCounts
    <2> QED BY <2>2, <2>3, <2>4
  <1>5. ASSUME NEW p \in 1..N
        PROVE  LET to == p + Cardinality({m \in marks : m < p})
               IN  IF p \in marks
                   THEN t[to] = Ch("$") /\ t[to + 1] = <<"9", Cardinality({m \in marks : m <= p}), s[p][3]>>
                   ELSE t[to] = s[p]
    <2>1. p \in 1..(N + 1 - 1)
      BY <1>2
    <2>2. Shows(s, marks, t, p)
      BY <2>1 DEF NumbersBelow
    <2> QED BY <1>4, <2>2 DEF Shows
  <1> QED BY <1>3, <1>5 DEF Numbers

-----------------------------------------------------------------------------
(* Where something starts *)

Closed(d, s, S) ==
    /\ S \in SUBSET (1..(Len(s) + 1)) /\ 1 \in S
    /\ \A p \in S : p <= Len(s) => After(d, s, p) \in S

\* Starts is in every closed set, and is closed itself.
LEMMA StartsIs ==
    ASSUME NEW d, NEW s, Len(s) \in Nat
    PROVE  /\ Starts(d, s) \subseteq 1..Len(s)
           /\ Len(s) > 0 => 1 \in Starts(d, s)
           /\ \A p \in Starts(d, s) : After(d, s, p) \in Starts(d, s) \cup {Len(s) + 1}
           /\ \A S : Closed(d, s, S) => Starts(d, s) \subseteq S
  <1> DEFINE N == Len(s)
             moves == {<<p, After(d, s, p)>> : p \in 1..N}
             closed == {S \in SUBSET (1..(N + 1)) : 1 \in S /\ \A m \in moves : m[1] \in S => m[2] \in S}
  <1>1. Starts(d, s) = {p \in 1..N : \A S \in closed : p \in S}
    BY DEF Starts
  <1>2. \A S : S \in closed <=> Closed(d, s, S)
    <2>1. ASSUME NEW S \in SUBSET (1..(N + 1))
          PROVE  (\A m \in moves : m[1] \in S => m[2] \in S) <=>
                 (\A p \in S : p <= N => After(d, s, p) \in S)
      <3>1. \A p \in S : p <= N <=> p \in 1..N
        BY <2>1
      <3>2. \A m \in moves : \E p \in 1..N : m[1] = p /\ m[2] = After(d, s, p)
        OBVIOUS
      <3>3. \A p \in 1..N : \E m \in moves : m[1] = p /\ m[2] = After(d, s, p)
        <4> TAKE p \in 1..N
        <4> DEFINE m == <<p, After(d, s, p)>>
        <4>1. m \in moves /\ m[1] = p /\ m[2] = After(d, s, p)
          OBVIOUS
        <4> QED BY <4>1
      <3> HIDE DEF moves
      <3> QED BY <3>1, <3>2, <3>3
    <2> HIDE DEF moves
    <2> QED BY <2>1 DEF Closed
  <1> HIDE DEF closed
  <1>3. Starts(d, s) \subseteq 1..N
    BY <1>1
  <1>4. N > 0 => 1 \in Starts(d, s)
    <2>1. N > 0 => 1 \in 1..N
      OBVIOUS
    <2>2. \A S \in closed : 1 \in S
      BY <1>2 DEF Closed
    <2> QED BY <1>1, <2>1, <2>2
  <1>5. ASSUME NEW p \in Starts(d, s) PROVE After(d, s, p) \in Starts(d, s) \cup {N + 1}
    <2>1. p \in 1..N /\ p <= N
      BY <1>3
    <2>2. After(d, s, p) \in (p + 1)..(N + 1)
      BY <2>1, AfterRange
    <2>3. \A S \in closed : After(d, s, p) \in S
      BY <1>1, <1>2, <1>5, <2>1 DEF Closed
    <2>4. After(d, s, p) = N + 1 \/ After(d, s, p) \in 1..N
      BY <2>1, <2>2
    <2> QED BY <1>1, <2>3, <2>4
  <1>6. \A S : Closed(d, s, S) => Starts(d, s) \subseteq S
    BY <1>1, <1>2
  <1> QED BY <1>3, <1>4, <1>5, <1>6

\* Nothing starts between a start and where the scan goes from it.
LEMMA NextStart ==
    ASSUME NEW d, NEW s, Len(s) \in Nat, NEW n \in Starts(d, s),
           \A p \in Starts(d, s) : p < n => After(d, s, p) <= n
    PROVE  \A p \in Starts(d, s) : p <= n \/ p >= After(d, s, n)
  <1> DEFINE N == Len(s)
             a == After(d, s, n)
             all == Starts(d, s) \cup {N + 1}
             S == {p \in all : p <= n \/ p >= a}
  <1>1. Starts(d, s) \subseteq 1..N /\ n \in 1..N /\ all \subseteq 1..(N + 1)
    BY StartsIs
  <1>2. a \in (n + 1)..(N + 1)
    BY <1>1, AfterRange
  <1>3. \A p \in Starts(d, s) : After(d, s, p) \in (p + 1)..(N + 1)
    BY <1>1, AfterRange
  <1>4. \A p \in Starts(d, s) : After(d, s, p) \in all
    BY StartsIs
  <1>5. 1 \in S
    <2>1. 1 \in Starts(d, s)
      BY <1>1, StartsIs
    <2>2. 1 <= n
      BY <1>1
    <2> QED BY <2>1, <2>2
  <1> HIDE DEF a, all
  <1>6. ASSUME NEW p \in S, p <= N PROVE After(d, s, p) \in S
    <2>0. p \in all /\ (p <= n \/ p >= a)
      OBVIOUS
    <2>1. p \in Starts(d, s)
      BY <1>6, <2>0 DEF all
    <2>2. p \in Nat /\ n \in Nat /\ a \in Nat /\ After(d, s, p) \in Nat /\ After(d, s, p) > p /\ After(d, s, p) \in all
      BY <1>1, <1>2, <1>3, <1>4, <2>1
    <2>3. CASE p < n
      BY <2>1, <2>2, <2>3
    <2>4. CASE p = n
      BY <2>2, <2>4 DEF a
    <2>5. CASE p > n
      <3>1. After(d, s, p) >= a
        BY <2>0, <2>2, <2>5
      <3> QED BY <2>2, <3>1
    <2> QED BY <2>2, <2>3, <2>4, <2>5
  <1>7. Closed(d, s, S)
    <2>1. S \in SUBSET (1..(N + 1))
      BY <1>1
    <2> HIDE DEF S
    <2> QED BY <1>5, <1>6, <2>1 DEF Closed
  <1>8. Starts(d, s) \subseteq S
    <2> HIDE DEF S
    <2> QED BY <1>7, StartsIs
  <1> QED BY <1>8 DEF a

\* If nothing hides a ?, the scan of a statement goes from each place to the next.
LEMMA NothingHidden ==
    ASSUME NEW d, Numbering(d), NEW s, Len(s) \in Nat, NothingHides(s), NEW p \in 1..Len(s)
    PROVE  After(d, s, p) = p + 1
  <1>1. \A x \in {"'", "\"", "[", "$"} : ~Is(s, p, x)
    BY DEF NothingHides, Symbols, Is
  <1>2. Literal(d, s, p) = NoLiteral
    <2>1. d \notin {"mysql", "sqlite"}
      BY DEF Numbering
    <2>2. ~Is(s, p, "'") /\ ~Is(s, p, "\"") /\ ~Is(s, p, "[")
      BY <1>1
    <2> QED BY <2>1, <2>2 DEF Literal
  <1>3. ASSUME NEW symbols, ~Occurs(s, symbols) PROVE ~At(s, p, symbols)
    <2>1. Find(s, 1, symbols) = 0
      BY <1>3 DEF Occurs
    <2>2. 1 \in Nat \ {0} /\ \A x \in 1..Len(s) : x # 0
      OBVIOUS
    <2> QED BY <2>1, <2>2, FindIs
  <1>4. ~At(s, p, <<"-", "-">>) /\ ~At(s, p, <<"/", "*">>)
    BY <1>3 DEF NothingHides
  <1>5. skipComment(d, s, p, TRUE) = p
    <2>1. ~Is(s, p, "$")
      BY <1>1
    <2> QED BY <1>4, <2>1 DEF skipComment
  <1>6. skipNonCode(d, s, p, TRUE) = p
    BY <1>2, <1>5 DEF skipNonCode
  <1>7. ~(p > p)
    OBVIOUS
  <1> QED BY <1>6, <1>7 DEF After

\* Then something starts at every place.
LEMMA AllStart ==
    ASSUME NEW d, Numbering(d), NEW s, Len(s) \in Nat, NothingHides(s)
    PROVE  Starts(d, s) = 1..Len(s)
  <1> DEFINE N == Len(s)
             X == {p \in 1..N : p \notin Starts(d, s)}
             m == Min(X)
  <1>1. Starts(d, s) \subseteq 1..N
    BY StartsIs
  <1>2. ASSUME X # {} PROVE FALSE
    <2>1. X \subseteq Nat
      OBVIOUS
    <2>2. m \in X /\ \A p \in X : m <= p
      <3> HIDE DEF X
      <3> QED BY <1>2, <2>1, Least
    <2> HIDE DEF m
    <2>3. m \in 1..N /\ m \notin Starts(d, s)
      BY <2>2
    <2>4. m # 1
      BY <2>3, StartsIs
    <2>5. m - 1 \in 1..N /\ ~(m <= m - 1) /\ (m - 1) + 1 = m /\ m # N + 1
      BY <2>3, <2>4
    <2>6. m - 1 \in Starts(d, s)
      BY <2>2, <2>5
    <2>7. After(d, s, m - 1) = m
      BY <2>5, NothingHidden
    <2>8. After(d, s, m - 1) \in Starts(d, s) \cup {N + 1}
      BY <2>6, StartsIs
    <2> QED BY <2>3, <2>5, <2>7, <2>8
  <1> QED BY <1>1, <1>2

-----------------------------------------------------------------------------
(* The loops *)

Params == Marks(driver, stmt)

QuoteInv ==
    pc = "quoted" =>
        /\ i <= Len(stmt) /\ literal # NoLiteral
        /\ j \in (i + 1)..(Len(stmt) + 2)
        /\ HeadAt(stmt, i, literal.q, literal.backslash, j)

SkipInv ==
    pc = "skipped" =>
        /\ i <= Len(stmt) /\ j \in (i + 1)..(Len(stmt) + 1)
        /\ j = skipNonCode(driver, stmt, i, TRUE)

ScanInv ==
    pc \in {"slow", "quoted", "skipped"} =>
        /\ i \in Starts(driver, stmt) \cup {Len(stmt) + 1}
        /\ \A p \in Starts(driver, stmt) : p < i => After(driver, stmt, p) <= i

SoFar ==
    /\ pc = "call" => i = 1 /\ argIndex = 1 /\ sb = <<>>
    /\ pc = "fast" => NothingHides(stmt)
    /\ pc \in {"fast", "slow", "quoted", "skipped"} =>
          /\ Numbering(driver)
          /\ NumbersBelow(stmt, Params, sb, i)
          /\ argIndex = 1 + Cardinality(Below(Params, i))

LexInv == TypeOK /\ QuoteInv /\ SkipInv

Inv == LexInv /\ ScanInv /\ SoFar /\ OrdinalsRight

\* A statement is a text, and its places are numbers.
LEMMA StatementIs ==
    ASSUME TypeOK
    PROVE  stmt \in Seq(Chars) /\ Len(stmt) \in Nat /\ i \in Nat /\ i >= 1 /\ i <= Len(stmt) + 1 /\ sb \in Seq(Written)
  <1>1. stmt \in Seq(Chars)
    BY TextAssumption DEF TypeOK
  <1>2. Len(stmt) \in Nat
    BY <1>1
  <1> QED BY <1>1, <1>2 DEF TypeOK

\* What is written of a statement is made of its characters and of ordinals.
LEMMA WrittenIs ==
    ASSUME NEW s \in Seq(Chars), NEW k \in 1..Len(s), NEW n \in Nat
    PROVE  s \in Seq(Written) /\ s[k] \in Written /\ Ordinal(n, s[k]) \in Seq(Written)
  <1>1. Chars \subseteq Written /\ Ch("$") \in Written
    BY DEF Written
  <1>2. s[k] \in Chars
    OBVIOUS
  <1>3. s \in Seq(Written)
    BY <1>1
  <1>4. <<"9", n, s[k][3]>> \in Written
    <2>1. s[k][3] \in {c[3] : c \in Chars}
      BY <1>2
    <2>2. <<"9", n, s[k][3]>> \in {"9"} \X Nat \X {c[3] : c \in Chars}
      BY <2>1
    <2> QED BY <2>2 DEF Written
  <1>5. Ordinal(n, s[k]) \in Seq(Written)
    BY <1>1, <1>4 DEF Ordinal
  <1> QED BY <1>1, <1>2, <1>3, <1>5

\* A piece of a statement.
LEMMA PieceIs ==
    ASSUME NEW s \in Seq(Chars), NEW m \in Nat, NEW k \in Nat, 1 <= m, m <= k, k <= Len(s) + 1
    PROVE  /\ SubSeq(s, m, k - 1) \in Seq(Written)
           /\ Len(SubSeq(s, m, k - 1)) = k - m
           /\ \A x \in 1..(k - m) : SubSeq(s, m, k - 1)[x] = s[m + x - 1]
  <1> DEFINE n == k - 1
  <1>0. n \in Int /\ n - m + 1 = k - m /\ n <= Len(s) /\ m <= n + 1
    OBVIOUS
  <1>1. s \in Seq(Written)
    <2>1. Chars \subseteq Written
      BY DEF Written
    <2> QED BY <2>1
  <1> HIDE DEF n
  <1>2. SubSeq(s, m, n) \in Seq(Written) /\ Len(SubSeq(s, m, n)) = k - m
    BY <1>0, <1>1
  <1>3. \A x \in 1..(k - m) : SubSeq(s, m, n)[x] = s[m + x - 1]
    BY <1>0, <1>1
  <1> QED BY <1>2, <1>3 DEF n

\* The marks are places of ?, and where nothing else starts there is none.
LEMMA MarksAre ==
    ASSUME NEW d, NEW s, Len(s) \in Nat
    PROVE  /\ Marks(d, s) \subseteq 1..Len(s) /\ Marks(d, s) \subseteq Nat
           /\ \A m \in Marks(d, s) : m \in Starts(d, s) /\ Is(s, m, "?")
           /\ \A m \in Starts(d, s) : Is(s, m, "?") => m \in Marks(d, s)
  <1>1. Starts(d, s) \subseteq 1..Len(s)
    BY StartsIs
  <1>2. 1..Len(s) \subseteq Nat
    OBVIOUS
  <1> QED BY <1>1, <1>2 DEF Marks

\* The ? are found where Is says.
LEMMA MarkAt ==
    ASSUME NEW s, NEW k \in Nat
    PROVE  At(s, k, <<"?">>) <=> Is(s, k, "?")
  <1>1. Len(<<"?">>) = 1 /\ <<"?">>[1] = "?" /\ k + 1 - 1 = k
    OBVIOUS
  <1>2. \A m \in 1..1 : m = 1
    OBVIOUS
  <1> QED BY <1>1, <1>2 DEF At

-----------------------------------------------------------------------------
(* Types, and what is skipped *)

\* A call starts with LexInv.
LEMMA LexInit == Init => LexInv
  <1> SUFFICES ASSUME Init PROVE LexInv
    OBVIOUS
  <1>1. stmt \in Seq(Chars) /\ Len(stmt) \in Nat
    BY TextAssumption DEF Init
  <1>2. 1 \in 1..(Len(stmt) + 1)
    BY <1>1
  <1>3. <<>> \in Seq(Written)
    OBVIOUS
  <1> QED BY <1>2, <1>3 DEF Init, LexInv, TypeOK, QuoteInv, SkipInv

\* Every step keeps LexInv.
LEMMA LexStep == LexInv /\ [Next]_vars => LexInv'
  <1> SUFFICES ASSUME LexInv, [Next]_vars PROVE LexInv'
    OBVIOUS
  <1> USE DEF LexInv
  <1>0. /\ stmt \in Seq(Chars) /\ Len(stmt) \in Nat /\ i \in Nat /\ i >= 1 /\ i <= Len(stmt) + 1
        /\ sb \in Seq(Written)
    BY StatementIs
  <1>1. CASE Unchanged
    <2>1. sb' \in Seq(Written)
      <3>1. Chars \subseteq Written
        BY DEF Written
      <3> QED BY <1>0, <1>1, <3>1 DEF Unchanged
    <2> QED BY <1>1, <2>1 DEF Unchanged, TypeOK, QuoteInv, SkipInv
  <1>2. CASE Begin
    <2>1. pc' \in {"fast", "slow"}
      BY <1>2 DEF Begin
    <2> QED BY <1>2, <2>1 DEF Begin, TypeOK, QuoteInv, SkipInv
  <1>3. CASE FastMark
    <2> DEFINE k == Find(stmt, i, <<"?">>)
    <2>1. k # 0 /\ sb' = sb \o SubSeq(stmt, i, k - 1) \o Ordinal(argIndex, stmt[k]) /\ i' = k + 1
      BY <1>3 DEF FastMark
    <2>2. k \in i..Len(stmt)
      BY <1>0, <2>1, FindIs
    <2> HIDE DEF k
    <2>3. k \in Nat /\ i <= k /\ k <= Len(stmt) + 1 /\ k \in 1..Len(stmt) /\ argIndex \in Nat
      BY <1>0, <2>2 DEF TypeOK
    <2>4. SubSeq(stmt, i, k - 1) \in Seq(Written) /\ Ordinal(argIndex, stmt[k]) \in Seq(Written)
      BY <1>0, <2>3, PieceIs, WrittenIs
    <2>5. sb' \in Seq(Written)
      BY <1>0, <2>1, <2>4, ConcatIs
    <2>6. i' \in 1..(Len(stmt) + 1) /\ argIndex + 1 \in Nat
      BY <1>0, <2>1, <2>3
    <2> QED BY <1>3, <2>5, <2>6 DEF FastMark, TypeOK, QuoteInv, SkipInv
  <1>4. CASE FastEnds
    <2>1. SubSeq(stmt, i, Len(stmt)) \in Seq(Written)
      <3>1. stmt \in Seq(Written)
        <4>1. Chars \subseteq Written
          BY DEF Written
        <4> QED BY <1>0, <4>1
      <3> QED BY <1>0, <3>1
    <2>2. sb' \in Seq(Written)
      BY <1>0, <1>4, <2>1, ConcatIs DEF FastEnds
    <2> QED BY <1>4, <2>2 DEF FastEnds, TypeOK, QuoteInv, SkipInv
  <1>5. CASE QuoteStarts
    <2>1. i \in 1..Len(stmt) /\ i + 1 \in Nat /\ i + 1 \in (i + 1)..(Len(stmt) + 2)
      BY <1>0, <1>5 DEF QuoteStarts
    <2>2. HeadAt(stmt, i, literal.q, literal.backslash, i + 1)
      BY <1>0, <2>1, HeadStarts
    <2>3. literal' = literal
      BY <1>5 DEF QuoteStarts, literal
    <2>4. QuoteInv'
      BY <1>5, <2>1, <2>2, <2>3 DEF QuoteStarts, QuoteInv
    <2> QED BY <1>5, <2>1, <2>4 DEF QuoteStarts, TypeOK, SkipInv
  <1>6. CASE CommentStarts
    <2>1. i \in 1..Len(stmt)
      BY <1>0, <1>6 DEF CommentStarts
    <2>2. j' = skipNonCode(driver, stmt, i, TRUE) /\ j' > i
      BY <1>6 DEF CommentStarts, literal, skipNonCode
    <2>3. j' \in i..(Len(stmt) + 1)
      BY <1>0, <2>1, <2>2, AfterRange
    <2>4. j' \in (i + 1)..(Len(stmt) + 1) /\ j' \in Nat
      <3>1. \A n \in i..(Len(stmt) + 1) : n > i => n \in (i + 1)..(Len(stmt) + 1) /\ n \in Nat
        BY <1>0
      <3>2. j' > i
        BY <2>2
      <3> QED BY <2>3, <3>1, <3>2
    <2> QED BY <1>6, <2>1, <2>2, <2>4 DEF CommentStarts, TypeOK, QuoteInv, SkipInv
  <1>7. CASE QuoteGoesOn
    <2> DEFINE q == literal.q
               b == literal.backslash
    <2>1. literal' = literal
      BY <1>7 DEF QuoteGoesOn, literal
    <2>2. /\ i \in 1..Len(stmt) /\ literal # NoLiteral /\ j \in (i + 1)..Len(stmt)
          /\ HeadAt(stmt, i, q, b, j)
      BY <1>0, <1>7 DEF QuoteGoesOn, QuoteInv
    <2>3. q # "\\"
      BY <2>2, LiteralQuote DEF literal
    <2>4. Escape => Escaping(b) /\ Is(stmt, j, "\\")
      BY DEF Escape, Escaping
    <2>5. Doubled => Is(stmt, j, q) /\ Is(stmt, j + 1, q)
      BY DEF Doubled
    <2>6. ~Escape => ~(b /\ Is(stmt, j, "\\"))
      BY DEF Escape
    <2>7. Escape \/ Doubled \/ ~Is(stmt, j, q)
      BY <1>7 DEF QuoteGoesOn
    <2>8. j' = IF Escape \/ Doubled THEN j + 2 ELSE j + 1
      BY <1>7 DEF QuoteGoesOn
    <2> HIDE DEF q, b
    <2>9. HeadAt(stmt, i, q, b, j')
      <3>1. CASE Escape
        <4>1. HeadAt(stmt, i, q, b, j + 2)
          BY <1>0, <2>2, <2>3, <2>4, <3>1, HeadEscapes
        <4> QED BY <2>8, <3>1, <4>1
      <3>2. CASE ~Escape /\ Doubled
        <4>1. HeadAt(stmt, i, q, b, j + 2)
          BY <1>0, <2>2, <2>3, <2>5, <3>2, HeadDoubles
        <4> QED BY <2>8, <3>2, <4>1
      <3>3. CASE ~Escape /\ ~Doubled
        <4>1. ~Is(stmt, j, q)
          BY <2>7, <3>3
        <4>2. HeadAt(stmt, i, q, b, j + 1)
          BY <1>0, <2>2, <2>6, <3>3, <4>1, HeadMoves
        <4> QED BY <2>8, <3>3, <4>2
      <3> QED BY <3>1, <3>2, <3>3
    <2>10. j' \in (i + 1)..(Len(stmt) + 2) /\ j' \in Nat
      BY <1>0, <2>2, <2>8
    <2>11. QuoteInv'
      BY <1>7, <2>1, <2>2, <2>9, <2>10 DEF QuoteGoesOn, QuoteInv, q, b
    <2> QED BY <1>7, <2>10, <2>11 DEF QuoteGoesOn, TypeOK, SkipInv
  <1>8. CASE QuoteEnds
    <2> DEFINE q == literal.q
               b == literal.backslash
    <2>1. literal' = literal /\ pc = "quoted"
      BY <1>8 DEF QuoteEnds, literal
    <2>2. /\ i \in 1..Len(stmt) /\ literal # NoLiteral /\ j \in (i + 1)..(Len(stmt) + 2)
          /\ HeadAt(stmt, i, q, b, j)
      BY <1>0, <2>1 DEF QuoteInv
    <2>3. \/ j > Len(stmt) /\ j' = Len(stmt) + 1
          \/ Is(stmt, j, q) /\ ~Is(stmt, j + 1, q) /\ j' = j + 1
      BY <1>8 DEF QuoteEnds, Doubled
    <2>4. skipNonCode(driver, stmt, i, TRUE) = skipQuoted(stmt, i, q, b)
      BY <2>2 DEF skipNonCode, literal
    <2> HIDE DEF q, b
    <2>5. j' = skipQuoted(stmt, i, q, b)
      <3>1. CASE j > Len(stmt) /\ j' = Len(stmt) + 1
        <4>1. j \in Nat
          BY <1>0, <2>2
        <4> QED BY <1>0, <2>2, <3>1, <4>1, HeadRunsOut
      <3>2. CASE Is(stmt, j, q) /\ ~Is(stmt, j + 1, q) /\ j' = j + 1
        <4>1. j \in (i + 1)..Len(stmt)
          BY <1>0, <2>2, <3>2 DEF Is
        <4> QED BY <1>0, <2>2, <3>2, <4>1, HeadEnds
      <3> QED BY <2>3, <3>1, <3>2
    <2>6. j' \in (i + 1)..(Len(stmt) + 1)
      BY <1>0, <2>2, <2>5, QuotedRange
    <2>7. j' \in Nat
      BY <1>0, <2>6
    <2> QED BY <1>8, <2>2, <2>4, <2>5, <2>6, <2>7 DEF QuoteEnds, TypeOK, QuoteInv, SkipInv
  <1>9. CASE Skip
    <2>1. j \in Nat /\ i <= j /\ j <= Len(stmt) + 1 /\ j \in 1..(Len(stmt) + 1)
      <3>1. j \in (i + 1)..(Len(stmt) + 1)
        BY <1>9 DEF Skip, SkipInv
      <3> QED BY <1>0, <3>1
    <2>2. SubSeq(stmt, i, j - 1) \in Seq(Written)
      BY <1>0, <2>1, PieceIs
    <2>3. sb' \in Seq(Written)
      BY <1>0, <1>9, <2>2, ConcatIs DEF Skip
    <2> QED BY <1>9, <2>1, <2>3 DEF Skip, TypeOK, QuoteInv, SkipInv
  <1>10. CASE SlowMark
    <2>1. i \in 1..Len(stmt) /\ argIndex \in Nat /\ i + 1 \in 1..(Len(stmt) + 1)
      BY <1>0, <1>10 DEF SlowMark, CodeAt, TypeOK
    <2>2. Ordinal(argIndex, stmt[i]) \in Seq(Written)
      BY <1>0, <2>1, WrittenIs
    <2>3. sb' \in Seq(Written)
      BY <1>0, <1>10, <2>2, ConcatIs DEF SlowMark
    <2> QED BY <1>10, <2>1, <2>3 DEF SlowMark, CodeAt, TypeOK, QuoteInv, SkipInv
  <1>11. CASE SlowCopy
    <2>1. i \in 1..Len(stmt) /\ i + 1 \in 1..(Len(stmt) + 1)
      BY <1>0, <1>11 DEF SlowCopy, CodeAt
    <2>2. stmt[i] \in Written
      BY <1>0, <2>1, WrittenIs
    <2>3. sb' \in Seq(Written)
      BY <1>0, <1>11, <2>2 DEF SlowCopy
    <2> QED BY <1>11, <2>1, <2>3 DEF SlowCopy, CodeAt, TypeOK, QuoteInv, SkipInv
  <1>12. CASE SlowEnds
    BY <1>12 DEF SlowEnds, TypeOK, QuoteInv, SkipInv
  <1>13. CASE UNCHANGED vars
    <2>1. literal' = literal
      BY <1>13 DEF vars, literal
    <2> QED BY <1>13, <2>1 DEF vars, TypeOK, QuoteInv, SkipInv
  <1> QED BY <1>1, <1>2, <1>3, <1>4, <1>5, <1>6, <1>7, <1>8, <1>9, <1>10, <1>11, <1>12, <1>13 DEF Next

-----------------------------------------------------------------------------
(* Ordinals *)

\* The scan moves from a start to the next: no ? that is a parameter is
\* between them.
LEMMA ScanMoves ==
    ASSUME NEW d, NEW s, Len(s) \in Nat, NEW n \in 1..Len(s), n \in Starts(d, s) \cup {Len(s) + 1},
           \A p \in Starts(d, s) : p < n => After(d, s, p) <= n
    PROVE  /\ n \in Starts(d, s)
           /\ After(d, s, n) \in Starts(d, s) \cup {Len(s) + 1}
           /\ \A p \in Starts(d, s) : p < After(d, s, n) => After(d, s, p) <= After(d, s, n)
           /\ \A m \in Marks(d, s) : ~(n < m /\ m < After(d, s, n))
           /\ n \in Marks(d, s) <=> Is(s, n, "?")
  <1> DEFINE a == After(d, s, n)
  <1>1. n \in Starts(d, s)
    OBVIOUS
  <1>2. a \in Starts(d, s) \cup {Len(s) + 1}
    BY <1>1, StartsIs
  <1>3. \A p \in Starts(d, s) : p <= n \/ p >= a
    BY <1>1, NextStart
  <1>4. n \in Nat /\ a \in Nat /\ n < a
    <2>1. a \in (n + 1)..(Len(s) + 1)
      BY AfterRange
    <2> HIDE DEF a
    <2> QED BY <2>1
  <1>5. Starts(d, s) \subseteq Nat
    BY StartsIs
  <1>6. \A p \in Starts(d, s) : After(d, s, p) \in Nat
    BY StartsIs, AfterRange
  <1>7. ASSUME NEW p \in Starts(d, s), p < a PROVE After(d, s, p) <= a
    <2> HIDE DEF a
    <2>1. p \in Nat /\ After(d, s, p) \in Nat /\ p <= n
      BY <1>3, <1>4, <1>5, <1>6, <1>7
    <2>2. CASE p < n
      BY <1>4, <2>1, <2>2
    <2>3. CASE p = n
      BY <1>4, <2>1, <2>3 DEF a
    <2> QED BY <1>4, <2>1, <2>2, <2>3
  <1>8. ASSUME NEW m \in Marks(d, s), n < m, m < a PROVE FALSE
    <2>1. m \in Starts(d, s)
      BY MarksAre
    <2> HIDE DEF a
    <2>2. m \in Nat
      BY <1>5, <2>1
    <2> QED BY <1>3, <1>4, <1>8, <2>1, <2>2
  <1> QED BY <1>1, <1>2, <1>7, <1>8, MarksAre

\* What is done with: the invariant of a call that is over.
LEMMA InvDone ==
    ASSUME LexInv', pc' = "done",
           Numbers(stmt', IF Numbering(driver') THEN Marks(driver', stmt') ELSE {}, sb')
    PROVE  Inv'
  BY DEF Inv, ScanInv, SoFar, OrdinalsRight

\* A call starts with Inv.
LEMMA InvInit == Init => Inv
  BY LexInit DEF Inv, Init, ScanInv, SoFar, OrdinalsRight

\* A text without a mark is not changed.
LEMMA NumbersNone ==
    ASSUME NEW s, Len(s) \in Nat
    PROVE  Numbers(s, {}, s)
  <1>1. Cardinality({}) = 0
    BY FS_EmptySet
  <1>2. \A p : {m \in {} : m < p} = {}
    OBVIOUS
  <1>3. \A p \in 1..Len(s) : p + 0 = p
    OBVIOUS
  <1> QED BY <1>1, <1>2, <1>3 DEF Numbers

\* A call in its loops: no mark is missed on the way from i to k.
LEMMA CopyStep ==
    ASSUME TypeOK, NumbersBelow(stmt, Params, sb, i), NEW k \in Nat, i <= k, k <= Len(stmt) + 1,
           \A m \in Params : ~(i <= m /\ m < k)
    PROVE  /\ NumbersBelow(stmt, Params, sb \o SubSeq(stmt, i, k - 1), k)
           /\ Below(Params, k) = Below(Params, i)
           /\ sb \o SubSeq(stmt, i, k - 1) \in Seq(Written)
  <1> DEFINE u == SubSeq(stmt, i, k - 1)
  <1>1. stmt \in Seq(Chars) /\ Len(stmt) \in Nat /\ i \in Nat /\ 1 <= i /\ sb \in Seq(Written)
    BY StatementIs
  <1>2. u \in Seq(Written) /\ Len(u) = k - i /\ \A x \in 1..(k - i) : u[x] = stmt[i + x - 1]
    BY <1>1, PieceIs
  <1>3. Params \subseteq Nat
    BY <1>1, MarksAre DEF Params
  <1> HIDE DEF u
  <1>4. NumbersBelow(stmt, Params, sb \o u, k) /\ Below(Params, k) = Below(Params, i)
    <2>1. CopyCase(stmt, Params, sb, u, i, k)
      BY <1>1, <1>2, <1>3 DEF CopyCase
    <2> QED BY <2>1, NumbersCopy
  <1>5. sb \o u \in Seq(Written)
    BY <1>1, <1>2, ConcatIs
  <1> QED BY <1>4, <1>5 DEF u

\* At the end of the text the ordinals are right.
LEMMA DoneStep ==
    ASSUME LexInv', pc' = "done", driver' = driver, stmt' = stmt, TypeOK, Numbering(driver),
           NumbersBelow(stmt, Params, sb', Len(stmt) + 1)
    PROVE  Inv'
  <1>1. Len(stmt) \in Nat
    BY StatementIs
  <1>2. Params \subseteq 1..Len(stmt)
    BY <1>1, MarksAre DEF Params
  <1>3. Numbers(stmt, Params, sb')
    BY <1>1, <1>2, NumbersAll
  <1>4. Numbers(stmt', IF Numbering(driver') THEN Marks(driver', stmt') ELSE {}, sb')
    BY <1>3 DEF Params
  <1> QED BY <1>4, InvDone

\* Every step keeps Inv.
LEMMA InvStep == Inv /\ [Next]_vars => Inv'
  <1> SUFFICES ASSUME Inv, [Next]_vars PROVE Inv'
    OBVIOUS
  <1>0. LexInv' /\ TypeOK /\ ScanInv /\ SoFar /\ OrdinalsRight /\ SkipInv
    BY LexStep DEF Inv, LexInv
  <1>a. /\ stmt \in Seq(Chars) /\ Len(stmt) \in Nat /\ i \in Nat /\ i >= 1 /\ i <= Len(stmt) + 1
        /\ sb \in Seq(Written)
    BY <1>0, StatementIs
  <1>b. Params \subseteq 1..Len(stmt) /\ Params \subseteq Nat
    BY <1>a, MarksAre DEF Params
  <1>c. driver' = driver /\ stmt' = stmt => Params' = Params
    BY DEF Params
  <1>1. CASE Unchanged
    <2>1. Numbering(driver) => Marks(driver, stmt) = {}
      <3> SUFFICES ASSUME Numbering(driver), NEW m \in Marks(driver, stmt) PROVE FALSE
        OBVIOUS
      <3>1. m \in 1..Len(stmt) /\ Is(stmt, m, "?")
        BY <1>a, MarksAre
      <3>2. At(stmt, m, <<"?">>)
        BY <3>1, MarkAt
      <3>3. Find(stmt, 1, <<"?">>) = 0
        BY <1>1 DEF Unchanged, Occurs
      <3>4. 1 \in Nat \ {0} /\ 0 \notin 1..Len(stmt)
        OBVIOUS
      <3> QED BY <1>a, <3>1, <3>2, <3>3, <3>4, FindIs
    <2>2. Numbers(stmt, IF Numbering(driver) THEN Marks(driver, stmt) ELSE {}, stmt)
      BY <1>a, <2>1, NumbersNone
    <2>3. driver' = driver /\ stmt' = stmt /\ sb' = stmt /\ pc' = "done"
      BY <1>1 DEF Unchanged
    <2> QED BY <1>0, <2>2, <2>3, InvDone
  <1>2. CASE Begin
    <2>1. i = 1 /\ argIndex = 1 /\ sb = <<>> /\ Numbering(driver)
      BY <1>0, <1>2 DEF Begin, SoFar
    <2>2. Len(stmt) > 0
      <3>1. Find(stmt, 1, <<"?">>) # 0
        BY <1>2 DEF Begin, Occurs
      <3>2. Find(stmt, 1, <<"?">>) \in 1..Len(stmt)
        BY <1>a, <3>1, FindIs
      <3> QED BY <1>a, <3>2
    <2>3. Below(Params, 1) = {} /\ Cardinality({}) = 0
      <3>1. \A m \in Params : ~(m < 1)
        BY <1>b
      <3>2. Below(Params, 1) = {}
        BY <3>1 DEF Below
      <3> QED BY <3>2, FS_EmptySet
    <2>4. NumbersBelow(stmt, Params, <<>>, 1)
      BY <2>3 DEF NumbersBelow
    <2>5. 1 \in Starts(driver, stmt) /\ \A p \in Starts(driver, stmt) : ~(p < 1)
      BY <1>a, <2>2, StartsIs
    <2>6. /\ driver' = driver /\ stmt' = stmt /\ i' = i /\ argIndex' = argIndex /\ sb' = sb
          /\ pc' \in {"fast", "slow"} /\ (pc' = "fast" => NothingHides(stmt))
      BY <1>2 DEF Begin
    <2>7. ScanInv'
      BY <2>1, <2>5, <2>6 DEF ScanInv
    <2>8. SoFar'
      <3>1. 1 = 1 + Cardinality(Below(Params, 1))
        BY <2>3
      <3>2. Params' = Params
        BY <1>c, <2>6
      <3> QED BY <2>1, <2>4, <2>6, <3>1, <3>2 DEF SoFar
    <2> QED BY <1>0, <2>6, <2>7, <2>8 DEF Inv, OrdinalsRight
  <1>3. CASE FastMark
    <2> DEFINE k == Find(stmt, i, <<"?">>)
               t == sb \o SubSeq(stmt, i, k - 1)
    <2>1. k # 0 /\ sb' = t \o Ordinal(argIndex, stmt[k]) /\ i' = k + 1
      BY <1>3 DEF FastMark
    <2>2. k \in i..Len(stmt) /\ At(stmt, k, <<"?">>) /\ \A m \in i..(k - 1) : ~At(stmt, m, <<"?">>)
      BY <1>a, <2>1, FindIs
    <2>3. /\ pc = "fast" /\ pc' = "fast" /\ driver' = driver /\ stmt' = stmt /\ argIndex' = argIndex + 1
      BY <1>3 DEF FastMark
    <2>4. /\ Numbering(driver) /\ NothingHides(stmt) /\ NumbersBelow(stmt, Params, sb, i)
          /\ argIndex = 1 + Cardinality(Below(Params, i))
      BY <1>0, <2>3 DEF SoFar
    <2> HIDE DEF k
    <2>5. k \in Nat /\ i <= k /\ k <= Len(stmt) + 1 /\ 1 <= k /\ k \in 1..Len(stmt)
      BY <1>a, <2>2
    <2>6. \A m \in Params : ~(i <= m /\ m < k)
      <3> SUFFICES ASSUME NEW m \in Params, i <= m, m < k PROVE FALSE
        OBVIOUS
      <3>1. m \in Nat /\ m \in i..(k - 1)
        BY <1>a, <1>b, <2>5
      <3>2. Is(stmt, m, "?")
        BY <1>a, MarksAre DEF Params
      <3> QED BY <2>2, <3>1, <3>2, MarkAt
    <2>7. NumbersBelow(stmt, Params, t, k) /\ Below(Params, k) = Below(Params, i) /\ t \in Seq(Written)
      BY <1>0, <2>4, <2>5, <2>6, CopyStep
    <2>8. k \in Params
      <3>1. k \in Starts(driver, stmt)
        BY <1>a, <2>4, <2>5, AllStart
      <3>2. Is(stmt, k, "?")
        BY <2>2, <2>5, MarkAt
      <3> QED BY <1>a, <3>1, <3>2, MarksAre DEF Params
    <2> HIDE DEF t
    <2>9. Ordinal(argIndex, stmt[k]) \in Seq(Written)
      BY <1>0, <1>a, <2>5, WrittenIs DEF TypeOK
    <2>10. /\ NumbersBelow(stmt, Params, t \o Ordinal(argIndex, stmt[k]), k + 1)
           /\ 1 + Cardinality(Below(Params, k + 1)) = argIndex + 1
      <3>1. argIndex = 1 + Cardinality(Below(Params, k))
        BY <2>4, <2>7
      <3>2. MarkCase(stmt, Params, t, k, argIndex)
        BY <1>a, <1>b, <2>5, <2>7, <2>8, <2>9, <3>1 DEF MarkCase
      <3> QED BY <3>2, NumbersMark
    <2>11. SoFar'
      BY <1>c, <2>1, <2>3, <2>4, <2>10 DEF SoFar
    <2> QED BY <1>0, <2>3, <2>11 DEF Inv, ScanInv, OrdinalsRight
  <1>4. CASE FastEnds
    <2> DEFINE k == Len(stmt) + 1
    <2>1. /\ pc = "fast" /\ pc' = "done" /\ driver' = driver /\ stmt' = stmt
          /\ sb' = sb \o SubSeq(stmt, i, Len(stmt)) /\ Find(stmt, i, <<"?">>) = 0
      BY <1>4 DEF FastEnds
    <2>2. Numbering(driver) /\ NumbersBelow(stmt, Params, sb, i)
      BY <1>0, <2>1 DEF SoFar
    <2>3. k \in Nat /\ i <= k /\ k <= Len(stmt) + 1 /\ k - 1 = Len(stmt)
      BY <1>a
    <2>4. \A m \in i..Len(stmt) : ~At(stmt, m, <<"?">>)
      <3>1. 0 \notin i..Len(stmt) /\ i \in Nat \ {0}
        BY <1>a
      <3> QED BY <1>a, <2>1, <3>1, FindIs
    <2>5. \A m \in Params : ~(i <= m /\ m < k)
      <3> SUFFICES ASSUME NEW m \in Params, i <= m, m < k PROVE FALSE
        OBVIOUS
      <3>1. m \in Nat /\ m \in i..Len(stmt)
        BY <1>a, <1>b
      <3>2. Is(stmt, m, "?")
        BY <1>a, MarksAre DEF Params
      <3> QED BY <2>4, <3>1, <3>2, MarkAt
    <2>6. NumbersBelow(stmt, Params, sb \o SubSeq(stmt, i, k - 1), k)
      <3> HIDE DEF k
      <3> QED BY <1>0, <2>2, <2>3, <2>5, CopyStep
    <2>7. NumbersBelow(stmt, Params, sb', Len(stmt) + 1)
      BY <2>1, <2>3, <2>6
    <2> QED BY <1>0, <2>1, <2>2, <2>7, DoneStep
  <1>5. CASE QuoteStarts
    <2>1. /\ pc = "slow" /\ pc' = "quoted" /\ driver' = driver /\ stmt' = stmt
          /\ i' = i /\ argIndex' = argIndex /\ sb' = sb
      BY <1>5 DEF QuoteStarts
    <2> QED BY <1>0, <1>c, <2>1 DEF Inv, ScanInv, SoFar, OrdinalsRight
  <1>6. CASE CommentStarts
    <2>1. /\ pc = "slow" /\ pc' = "skipped" /\ driver' = driver /\ stmt' = stmt
          /\ i' = i /\ argIndex' = argIndex /\ sb' = sb
      BY <1>6 DEF CommentStarts
    <2> QED BY <1>0, <1>c, <2>1 DEF Inv, ScanInv, SoFar, OrdinalsRight
  <1>7. CASE QuoteGoesOn
    <2>1. /\ pc = "quoted" /\ pc' = "quoted" /\ driver' = driver /\ stmt' = stmt
          /\ i' = i /\ argIndex' = argIndex /\ sb' = sb
      BY <1>7 DEF QuoteGoesOn
    <2> QED BY <1>0, <1>c, <2>1 DEF Inv, ScanInv, SoFar, OrdinalsRight
  <1>8. CASE QuoteEnds
    <2>1. /\ pc = "quoted" /\ pc' = "skipped" /\ driver' = driver /\ stmt' = stmt
          /\ i' = i /\ argIndex' = argIndex /\ sb' = sb
      BY <1>8 DEF QuoteEnds
    <2> QED BY <1>0, <1>c, <2>1 DEF Inv, ScanInv, SoFar, OrdinalsRight
  <1>9. CASE Skip
    <2>1. /\ pc = "skipped" /\ pc' = "slow" /\ driver' = driver /\ stmt' = stmt /\ i' = j
          /\ argIndex' = argIndex /\ sb' = sb \o SubSeq(stmt, i, j - 1)
      BY <1>9 DEF Skip
    <2>2. i \in 1..Len(stmt) /\ j \in (i + 1)..(Len(stmt) + 1) /\ j = skipNonCode(driver, stmt, i, TRUE)
      <3>1. i <= Len(stmt) /\ j \in (i + 1)..(Len(stmt) + 1) /\ j = skipNonCode(driver, stmt, i, TRUE)
        BY <1>0, <2>1 DEF SkipInv
      <3>2. i \in 1..Len(stmt)
        BY <1>a, <3>1
      <3> QED BY <3>1, <3>2
    <2>3. j \in Nat /\ i <= j /\ j <= Len(stmt) + 1 /\ j > i
      <3>1. \A n \in (i + 1)..(Len(stmt) + 1) : n \in Nat /\ i <= n /\ n <= Len(stmt) + 1 /\ n > i
        BY <1>a
      <3>2. j \in (i + 1)..(Len(stmt) + 1)
        BY <2>2
      <3> QED BY <3>1, <3>2
    <2>4. After(driver, stmt, i) = j
      BY <2>2, <2>3 DEF After
    <2>5. /\ i \in Starts(driver, stmt) \cup {Len(stmt) + 1}
          /\ \A p \in Starts(driver, stmt) : p < i => After(driver, stmt, p) <= i
      BY <1>0, <2>1 DEF ScanInv
    <2>6. /\ j \in Starts(driver, stmt) \cup {Len(stmt) + 1}
          /\ \A p \in Starts(driver, stmt) : p < j => After(driver, stmt, p) <= j
          /\ \A m \in Params : ~(i < m /\ m < j)
          /\ i \in Params <=> Is(stmt, i, "?")
      <3> HIDE DEF Params
      <3> QED BY <1>a, <2>2, <2>4, <2>5, ScanMoves DEF Params
    <2>7. i \notin Params
      <3> SUFFICES ASSUME Is(stmt, i, "?") PROVE FALSE
        BY <2>6
      <3>1. skipNonCode(driver, stmt, i, TRUE) = i
        BY NoMarkStarts DEF skipNonCode
      <3>2. j = i
        BY <2>2, <3>1
      <3> QED BY <1>a, <2>3, <3>2
    <2>8. \A m \in Params : ~(i <= m /\ m < j)
      BY <1>a, <1>b, <2>3, <2>6, <2>7
    <2>9. Numbering(driver) /\ NumbersBelow(stmt, Params, sb, i) /\ argIndex = 1 + Cardinality(Below(Params, i))
      BY <1>0, <2>1 DEF SoFar
    <2>10. NumbersBelow(stmt, Params, sb \o SubSeq(stmt, i, j - 1), j) /\ Below(Params, j) = Below(Params, i)
      BY <1>0, <2>3, <2>8, <2>9, CopyStep
    <2>11. ScanInv'
      BY <2>1, <2>6 DEF ScanInv
    <2>12. SoFar'
      BY <1>c, <2>1, <2>9, <2>10 DEF SoFar
    <2> QED BY <1>0, <2>1, <2>11, <2>12 DEF Inv, OrdinalsRight
  <1>10. ASSUME CodeAt, i' = i + 1
         PROVE  /\ i \in 1..Len(stmt) /\ (i \in Params <=> Is(stmt, i, "?"))
                /\ i + 1 \in Starts(driver, stmt) \cup {Len(stmt) + 1}
                /\ \A p \in Starts(driver, stmt) : p < i + 1 => After(driver, stmt, p) <= i + 1
                /\ Numbering(driver) /\ NumbersBelow(stmt, Params, sb, i) /\ argIndex = 1 + Cardinality(Below(Params, i))
    <2>1. i \in 1..Len(stmt) /\ pc = "slow"
      BY <1>a, <1>10 DEF CodeAt
    <2>2. skipNonCode(driver, stmt, i, TRUE) = i
      BY <1>10 DEF CodeAt, literal, skipNonCode
    <2>3. After(driver, stmt, i) = i + 1
      <3>1. ~(i > i)
        BY <1>a
      <3> QED BY <2>2, <3>1 DEF After
    <2>4. /\ i \in Starts(driver, stmt) \cup {Len(stmt) + 1}
          /\ \A p \in Starts(driver, stmt) : p < i => After(driver, stmt, p) <= i
      BY <1>0, <2>1 DEF ScanInv
    <2>5. /\ i + 1 \in Starts(driver, stmt) \cup {Len(stmt) + 1}
          /\ \A p \in Starts(driver, stmt) : p < i + 1 => After(driver, stmt, p) <= i + 1
          /\ i \in Params <=> Is(stmt, i, "?")
      BY <1>a, <2>1, <2>3, <2>4, ScanMoves DEF Params
    <2>6. Numbering(driver) /\ NumbersBelow(stmt, Params, sb, i) /\ argIndex = 1 + Cardinality(Below(Params, i))
      BY <1>0, <2>1 DEF SoFar
    <2> QED BY <2>1, <2>5, <2>6
  <1>11. CASE SlowMark
    <2>1. /\ CodeAt /\ pc = "slow" /\ pc' = "slow" /\ driver' = driver /\ stmt' = stmt /\ i' = i + 1
          /\ argIndex' = argIndex + 1 /\ sb' = sb \o Ordinal(argIndex, stmt[i]) /\ Is(stmt, i, "?")
      BY <1>11 DEF SlowMark, CodeAt
    <2>2. i \in 1..Len(stmt) /\ i \in Params /\ NumbersBelow(stmt, Params, sb, i) /\ argIndex = 1 + Cardinality(Below(Params, i))
      BY <1>10, <2>1
    <2>3. Ordinal(argIndex, stmt[i]) \in Seq(Written)
      BY <1>0, <1>a, <2>2, WrittenIs DEF TypeOK
    <2>4. /\ NumbersBelow(stmt, Params, sb \o Ordinal(argIndex, stmt[i]), i + 1)
          /\ 1 + Cardinality(Below(Params, i + 1)) = argIndex + 1
      <3>1. 1 <= i
        BY <1>a
      <3>2. MarkCase(stmt, Params, sb, i, argIndex)
        BY <1>a, <1>b, <2>2, <2>3, <3>1 DEF MarkCase
      <3> QED BY <3>2, NumbersMark
    <2>5. SoFar'
      BY <1>10, <1>c, <2>1, <2>4 DEF SoFar
    <2>6. ScanInv'
      BY <1>10, <2>1 DEF ScanInv
    <2> QED BY <1>0, <2>1, <2>5, <2>6 DEF Inv, OrdinalsRight
  <1>12. CASE SlowCopy
    <2>1. /\ CodeAt /\ pc = "slow" /\ pc' = "slow" /\ driver' = driver /\ stmt' = stmt /\ i' = i + 1
          /\ argIndex' = argIndex /\ sb' = Append(sb, stmt[i]) /\ ~Is(stmt, i, "?")
      BY <1>12 DEF SlowCopy, CodeAt
    <2>2. i \in 1..Len(stmt) /\ i \notin Params /\ NumbersBelow(stmt, Params, sb, i) /\ argIndex = 1 + Cardinality(Below(Params, i))
      BY <1>10, <2>1
    <2> DEFINE u == <<stmt[i]>>
               k == i + 1
    <2>3. u \in Seq(Written) /\ Len(u) = 1 /\ u[1] = stmt[i] /\ Append(sb, stmt[i]) = sb \o u
      <3>1. stmt[i] \in Written
        BY <1>a, <2>2, WrittenIs
      <3> QED BY <1>a, <3>1
    <2>4. k \in Nat /\ i <= k /\ k - i = 1 /\ \A m \in Params : ~(i <= m /\ m < k)
      BY <1>a, <1>b, <2>2
    <2>5. \A x \in 1..(k - i) : u[x] = stmt[i + x - 1]
      <3>1. \A x \in 1..(k - i) : x = 1 /\ i + x - 1 = i
        BY <1>a
      <3> HIDE DEF k, u
      <3> QED BY <2>3, <3>1
    <2> HIDE DEF u, k
    <2>6. NumbersBelow(stmt, Params, sb \o u, k) /\ Below(Params, k) = Below(Params, i)
      <3>1. 1 <= i /\ Len(u) = k - i
        BY <1>a, <2>3, <2>4
      <3>2. CopyCase(stmt, Params, sb, u, i, k)
        BY <1>a, <1>b, <2>2, <2>3, <2>4, <2>5, <3>1 DEF CopyCase
      <3> QED BY <3>2, NumbersCopy
    <2>7. SoFar'
      BY <1>10, <1>c, <2>1, <2>2, <2>3, <2>6 DEF SoFar, k
    <2>8. ScanInv'
      BY <1>10, <2>1 DEF ScanInv
    <2> QED BY <1>0, <2>1, <2>7, <2>8 DEF Inv, OrdinalsRight
  <1>13. CASE SlowEnds
    <2>1. pc = "slow" /\ pc' = "done" /\ driver' = driver /\ stmt' = stmt /\ sb' = sb /\ i = Len(stmt) + 1
      BY <1>a, <1>13 DEF SlowEnds
    <2>2. Numbering(driver) /\ NumbersBelow(stmt, Params, sb', Len(stmt) + 1)
      BY <1>0, <2>1 DEF SoFar
    <2> QED BY <1>0, <2>1, <2>2, DoneStep
  <1>14. CASE UNCHANGED vars
    <2>1. driver' = driver /\ stmt' = stmt /\ i' = i /\ argIndex' = argIndex /\ sb' = sb /\ pc' = pc
      BY <1>14 DEF vars
    <2> QED BY <1>0, <1>c, <2>1 DEF Inv, ScanInv, SoFar, OrdinalsRight
  <1> QED BY <1>1, <1>2, <1>3, <1>4, <1>5, <1>6, <1>7, <1>8, <1>9, <1>11, <1>12, <1>13, <1>14 DEF Next

-----------------------------------------------------------------------------
(* Theorems *)

\* The loops of conformPlaceholders and skipQuoted stay in the text, and what
\* they write is made of its characters and of ordinals.
THEOREM TypeCorrect == Spec => []TypeOK
  <1>1. LexInv => TypeOK
    BY DEF LexInv
  <1> QED BY <1>1, LexInit, LexStep, PTL DEF Spec

\* skipQuoted returns just past the quote that ends the literal, or at the end
\* of the text, whatever runs of quotes and backslashes it holds.
THEOREM LiteralsEnd == Spec => []LiteralsEndRight
  <1>1. LexInv => LiteralsEndRight
    BY DEF LexInv, SkipInv, LiteralsEndRight, literal, skipNonCode
  <1> QED BY <1>1, LexInit, LexStep, PTL DEF Spec

\* conformPlaceholders replaces exactly the ? that are parameters, by their
\* ordinals, on the slow path and on the fast one.
THEOREM OrdinalsAreRight == Spec => []OrdinalsRight
  <1>1. Inv => OrdinalsRight
    BY DEF Inv
  <1> QED BY <1>1, InvInit, InvStep, PTL DEF Spec
=============================================================================
