---------------------------- MODULE Placeholders ----------------------------
(***************************************************************************)
(* conformPlaceholders (db.go) loop by loop: it replaces the ? of a        *)
(* statement by ordinals on PostgreSQL and SQL Server, and leaves alone    *)
(* what is in a literal, a quoted identifier or a comment.  skipQuoted     *)
(* (sqllex.go) is its inner loop.                                          *)
(***************************************************************************)
EXTENDS Lexer

CONSTANT Statements  \* the texts it is called with

ASSUME TextAssumption == Statements \subseteq Seq(Chars)

VARIABLES
    driver, stmt,  \* the call
    pc,            \* which loop it is in
    i,             \* the place the outer loop is at
    j,             \* the place skipQuoted is at, or what it returned
    argIndex,      \* the next ordinal
    sb             \* what is written

vars == <<driver, stmt, pc, i, j, argIndex, sb>>

\* A character of the text, or of an ordinal.
Written == Chars \cup {Ch("$")} \cup ({"9"} \X Nat \X {c[3] : c \in Chars})

TypeOK ==
    /\ driver \in Drivers /\ stmt \in Statements
    /\ pc \in {"call", "fast", "slow", "quoted", "skipped", "done"}
    /\ i \in 1..(Len(stmt) + 1) /\ j \in Nat /\ argIndex \in Nat
    /\ sb \in Seq(Written)

Init ==
    /\ driver \in Drivers /\ stmt \in Statements
    /\ pc = "call"
    /\ i = 1 /\ j = 1 /\ argIndex = 1
    /\ sb = <<>>

\* The driver takes ?, or there is none.
Unchanged ==
    /\ pc = "call"
    /\ ~Numbering(driver) \/ ~Occurs(stmt, <<"?">>)
    /\ pc' = "done"
    /\ sb' = stmt
    /\ UNCHANGED <<driver, stmt, i, j, argIndex>>

Begin ==
    /\ pc = "call"
    /\ Numbering(driver) /\ Occurs(stmt, <<"?">>)
    /\ pc' = IF NothingHides(stmt) THEN "fast" ELSE "slow"
    /\ UNCHANGED <<driver, stmt, i, j, argIndex, sb>>

\* The fast path: on to the next ?, and past it.
FastMark ==
    /\ pc = "fast"
    /\ LET k == Find(stmt, i, <<"?">>)
       IN  /\ k # 0
           /\ sb' = sb \o SubSeq(stmt, i, k - 1) \o Ordinal(argIndex, stmt[k])
           /\ i' = k + 1
    /\ argIndex' = argIndex + 1
    /\ UNCHANGED <<driver, stmt, pc, j>>

FastEnds ==
    /\ pc = "fast"
    /\ Find(stmt, i, <<"?">>) = 0
    /\ sb' = sb \o SubSeq(stmt, i, Len(stmt))
    /\ pc' = "done"
    /\ UNCHANGED <<driver, stmt, i, j, argIndex>>

-----------------------------------------------------------------------------
(* The slow path *)

literal == Literal(driver, stmt, i)

\* A literal starts: skipQuoted is called.
QuoteStarts ==
    /\ pc = "slow" /\ i <= Len(stmt)
    /\ literal # NoLiteral
    /\ pc' = "quoted"
    /\ j' = i + 1
    /\ UNCHANGED <<driver, stmt, i, argIndex, sb>>

\* A comment or a dollar-quoted body starts.
CommentStarts ==
    /\ pc = "slow" /\ i <= Len(stmt)
    /\ literal = NoLiteral
    /\ skipComment(driver, stmt, i, TRUE) > i
    /\ pc' = "skipped"
    /\ j' = skipComment(driver, stmt, i, TRUE)
    /\ UNCHANGED <<driver, stmt, i, argIndex, sb>>

Escape == literal.backslash /\ Is(stmt, j, "\\")

\* Mutant: a doubled quote ends the literal.
DoubledNever == FALSE

Doubled == Is(stmt, j, literal.q) /\ Is(stmt, j + 1, literal.q)

\* A turn of skipQuoted: over what is escaped, or one character on.
QuoteGoesOn ==
    /\ pc = "quoted" /\ j <= Len(stmt)
    /\ Escape \/ Doubled \/ ~Is(stmt, j, literal.q)
    /\ j' = IF Escape \/ Doubled THEN j + 2 ELSE j + 1
    /\ UNCHANGED <<driver, stmt, pc, i, argIndex, sb>>

\* It returns: past the quote, or at the end of a text that has none.
QuoteEnds ==
    /\ pc = "quoted"
    /\ \/ j > Len(stmt) /\ j' = Len(stmt) + 1
       \/ ~Escape /\ ~Doubled /\ Is(stmt, j, literal.q) /\ j' = j + 1
    /\ pc' = "skipped"
    /\ UNCHANGED <<driver, stmt, i, argIndex, sb>>

\* What was skipped is written as it is.
Skip ==
    /\ pc = "skipped" /\ pc' = "slow"
    /\ sb' = sb \o SubSeq(stmt, i, j - 1)
    /\ i' = j
    /\ UNCHANGED <<driver, stmt, j, argIndex>>

\* Code: a ? is replaced, all else is written as it is.
CodeAt == pc = "slow" /\ i <= Len(stmt) /\ literal = NoLiteral /\ skipComment(driver, stmt, i, TRUE) = i

SlowMark ==
    /\ CodeAt
    /\ Is(stmt, i, "?")
    /\ sb' = sb \o Ordinal(argIndex, stmt[i])
    /\ argIndex' = argIndex + 1
    /\ i' = i + 1
    /\ UNCHANGED <<driver, stmt, pc, j>>

SlowCopy ==
    /\ CodeAt
    /\ ~Is(stmt, i, "?")
    /\ sb' = Append(sb, stmt[i])
    /\ i' = i + 1
    /\ UNCHANGED <<driver, stmt, pc, j, argIndex>>

SlowEnds ==
    /\ pc = "slow" /\ i > Len(stmt)
    /\ pc' = "done"
    /\ UNCHANGED <<driver, stmt, i, j, argIndex, sb>>

Next ==
    \/ Unchanged \/ Begin \/ FastMark \/ FastEnds
    \/ QuoteStarts \/ CommentStarts \/ QuoteGoesOn \/ QuoteEnds \/ Skip
    \/ SlowMark \/ SlowCopy \/ SlowEnds

Spec == Init /\ [][Next]_vars

-----------------------------------------------------------------------------
(* Properties *)

(***************************************************************************)
(* skipQuoted returns where the rule of doubled and escaped quotes ends    *)
(* the literal, or at the end of the text: the loop looks two characters   *)
(* ahead and never loses count of a run of quotes or backslashes.          *)
(***************************************************************************)
LiteralsEndRight ==
    pc = "skipped" /\ literal # NoLiteral =>
        j = skipQuoted(stmt, i, literal.q, literal.backslash)

\* The ? that are parameters.
Marks(d, s) == {p \in Starts(d, s) : Is(s, p, "?")}

\* t is s with an ordinal for each of the places in marks, in their order.
Numbers(s, marks, t) ==
    LET Upto(p) == Cardinality({m \in marks : m <= p})
        To(p)   == p + Cardinality({m \in marks : m < p})
    IN  /\ Len(t) = Len(s) + Cardinality(marks)
        /\ \A p \in 1..Len(s) :
              IF p \in marks THEN t[To(p)] = Ch("$") /\ t[To(p) + 1] = <<"9", Upto(p), s[p][3]>>
              ELSE t[To(p)] = s[p]

(***************************************************************************)
(* conformPlaceholders gives every ? that is a parameter its ordinal, in   *)
(* the order of the text, and changes nothing else: on the fast path too,  *)
(* which looks for no literal and so must be taken only when there is      *)
(* none.                                                                   *)
(***************************************************************************)
OrdinalsRight ==
    pc = "done" => Numbers(stmt, IF Numbering(driver) THEN Marks(driver, stmt) ELSE {}, sb)
=============================================================================
