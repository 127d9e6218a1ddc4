------------------------------- MODULE Unpack -------------------------------
(***************************************************************************)
(* The calls that rewrite a text: UnpackQuery, which expands virtual       *)
(* functions and numbers the placeholders (newPreparedQuery,               *)
(* querycache.go, which every query method goes through too);              *)
(* ConformArgPlaceholders, which only numbers them (db.go; its loops are   *)
(* in module Placeholders); stripLineComments (db.go, in module            *)
(* StripComments), which Migrate calls.                                    *)
(***************************************************************************)
EXTENDS Placeholders, StripComments, SqlText

CONSTANT Queries  \* the texts that UnpackQuery is called with

VARIABLES
    query,   \* the statement, <<>> when the call is another
    text,    \* what it has become
    phase,   \* "none" without a call to UnpackQuery, "new", "expand", "done"
    err,     \* "none", "syntax", "placeholder"
    passes   \* the passes that changed the text

unpackVars == <<query, text, phase, err, passes>>
conformVars == <<stmt, pc, i, j, argIndex, sb>>

NoUnpack == query = <<>> /\ text = <<>> /\ phase = "none" /\ err = "none" /\ passes = 0
NoConform == stmt = <<>> /\ pc = "none" /\ i = 1 /\ j = 1 /\ argIndex = 1 /\ sb = <<>>
NoStrip == segment = <<>> /\ loop = "none" /\ at = 1 /\ quote = "none" /\ stripped = <<>>

UnpackQuery ==
    /\ driver \in Drivers
    /\ query \in Queries
    /\ text = query /\ phase = "new" /\ err = "none" /\ passes = 0
    /\ NoConform /\ NoStrip

ConformArgPlaceholders == Init /\ NoUnpack /\ NoStrip

\* No driver is given to it.
StripLineComments == StripInit /\ driver = "none" /\ NoUnpack /\ NoConform

\* Mutant: SQL Server too is numbered after expansion only.
StartBare ==
    /\ phase = "new" /\ phase' = "expand"
    /\ UNCHANGED <<driver, query, text, err, passes>>

\* newPreparedQuery: SQL Server is numbered before expansion.
Start ==
    /\ phase = "new" /\ phase' = "expand"
    /\ text' = IF driver = "mssql" THEN conformPlaceholders(driver, query) ELSE query
    /\ UNCHANGED <<driver, query, err, passes>>

\* Another pass of expandVirtualFuncs.
ExpandPass ==
    /\ phase = "expand"
    /\ \E once \in {expandOnce(driver, text)} :
       /\ once.changed \/ once.err # "none"
       /\ IF once.err = "none"
          THEN text' = once.text /\ passes' = passes + 1 /\ UNCHANGED <<phase, err>>
          ELSE text' = query /\ phase' = "done" /\ err' = once.err /\ UNCHANGED passes
    /\ UNCHANGED <<driver, query>>

\* The pass that finds nothing, and the rest of newPreparedQuery.
Finish ==
    /\ phase = "expand" /\ phase' = "done"
    /\ \E once \in {expandOnce(driver, text)} : ~once.changed /\ once.err = "none"
    /\ \E conformed \in {conformPlaceholders(driver, text)} :
       IF driver = "mssql" /\ conformed # text
       THEN text' = query /\ err' = "placeholder"
       ELSE text' = conformed /\ err' = err
    /\ UNCHANGED <<driver, query, passes>>

UnpackNext ==
    \/ (Start \/ ExpandPass \/ Finish) /\ UNCHANGED <<conformVars, stripVars>>
    \/ Next /\ UNCHANGED <<unpackVars, stripVars>>
    \/ StripNext /\ UNCHANGED <<vars, unpackVars>>

UnpackSpec ==
    /\ UnpackQuery \/ ConformArgPlaceholders \/ StripLineComments
    /\ [][UnpackNext]_<<vars, unpackVars, stripVars>>

-----------------------------------------------------------------------------
(* Properties *)

\* The ? and the ordinals of s that the driver binds, in order.
RECURSIVE Bound(_, _, _)
Bound(d, s, p) ==
    LET skip == skipNonCode(d, s, p, TRUE) IN
    CASE p > Len(s) -> <<>>
      [] skip > p   -> Bound(d, s, skip)
      [] OTHER      -> (IF Is(s, p, "?") \/ s[p][3] # 0 THEN <<s[p]>> ELSE <<>>) \o Bound(d, s, p + 1)

\* The ? of the statement that a sequence of marks stands for.
Args(marks) == SelectSeq([k \in 1..Len(marks) |-> marks[k][3]], LAMBDA a : a > 0)

Unpacked == phase = "done" /\ err = "none"

\* A call with a comment or a bracket among its arguments.  findBalancedClose
\* and the handlers know only quotes, and their trimming drops the end of the
\* line that ends a comment.
Interrupted(s) ==
    \E p \in 1..Len(s) :
        /\ CallAt(s, p)
        /\ LET call == SubSeq(s, p, findBalancedClose(s, p + 2))
           IN  Occurs(call, <<"-", "-">>) \/ Occurs(call, <<"/", "*">>) \/ Occurs(call, <<"[">>)

\* Every value still binds where the statement put it: whatever the handlers
\* repeat, reorder and quote, each ? of the code, in newPreparedQuery's text,
\* stands for the argument that it stood for in the statement, and none is
\* lost.  MySQL and SQLite bind in the order of the text; PostgreSQL's
\* ordinals count it; SQL Server's count the statement, and no bare ? is left.
\* SQL Server refuses a statement for a ? only when a registered handler
\* introduced it: what the package's own handlers move, repeat and quote is
\* not taken for an unnumbered one.
BindingsKept ==
    ~Interrupted(query) =>
        /\ err = "placeholder" =>
              driver = "mssql" /\ \E p \in 1..Len(query) : Is(query, p, "REGISTERED")
        /\ Unpacked =>
              LET before == Bound(driver, query, 1)
                  after  == Bound(driver, text, 1)
              IN  IF driver = "mssql"
                  THEN /\ \A k \in DOMAIN after :
                              after[k][1] = "9" /\ before[after[k][2]][3] = after[k][3]
                       /\ ToSet(Args(before)) = ToSet(Args(after))
                  ELSE /\ Args(after) = Args(before)
                       /\ driver = "pgx" => \A k \in DOMAIN after : after[k][1] = "9" /\ after[k][2] = k

\* The total of the intervals of one unit that a text adds.
Added(s, unit) == MapThenSumSet(LAMBDA p : s[p + 3][2], {p \in 1..Len(s) : Is(s, p, unit)})

\* The milliseconds that a statement gives as numbers.
Asked(s) ==
    MapThenSumSet(LAMBDA p : s[p][2], {p \in 1..Len(s) : At(s, p - 1, <<",", "9", ")">>)})

\* On SQL Server DATE_ADD_MILLIS adds the milliseconds it is given, negative
\* ones too, in intervals that DATEADD takes: whole hours and less than one.
MillisKept ==
    Unpacked /\ driver = "mssql" =>
        /\ Added(text, "MILLISECOND") + Hour * Added(text, "HOUR") = Asked(query)
        /\ \A p \in 1..Len(text) : Is(text, p, "MILLISECOND") => text[p + 3][2] \in (1 - Hour)..(Hour - 1)

\* On SQL Server no interval is added to a NOW_UTC of less than milliseconds,
\* to whose type DATEADD would round it: mssqlDateAddMillis widens it first,
\* through every later pass of the expansion.
PrecisionKept ==
    Unpacked /\ driver = "mssql" =>
        \A p \in 1..Len(text) : Sym(text, p) \in {"MILLISECOND", "HOUR"} =>
            LET call == SubSeq(text, p, findBalancedClose(text, p) - 1)
                base == TrimSpace(SubSeq(call, lastTopLevelComma(call) + 1, Len(call)))
            IN  At(base, 1, <<"(", "x", "(", "DATETIME2", "(", "9">>) => base[6][2] >= 3

\* The ways to write a path.
Spellings(elems) ==
    LET path == Path(elems)
        bare == {path} \cup (IF Is(path, 1, ".") THEN {Tail(path)} ELSE {})
    IN  bare \cup {<<Ch("$")>> \o b : b \in bare}

\* Some short paths.
Elems == {<<Ch("x")>>, <<Ch("x"), Number(0)>>, <<Number(0)>>}
ShortPaths == {<<e>> : e \in Elems} \cup (Elems \X Elems)

\* vfJSONField accepts a path exactly when it spells a sequence of names and
\* indexes, and what it writes for the databases that take a path is that
\* sequence's one canonical spelling.
PathsAgree ==
    At(query, 1, <<"JSON_FIELD", "(", "x", ",", "'">>) /\ findBalancedClose(query, 3) = Len(query) =>
        LET path  == SubSeq(query, 6, Len(query) - 2)
            elems == parseJSONPath(path)
        IN  /\ elems # NoPath => path \in Spellings(elems)
            /\ \A short \in ShortPaths : path \in Spellings(short) => elems = short
            /\ phase = "done" => (err = "none" <=> elems # NoPath)
            /\ Unpacked /\ driver # "pgx" =>
                \E p \in 1..Len(text) : IsPrefix(Quoted(<<Ch("$")>> \o Path(elems)), SubSeq(text, p, Len(text)))

\* Expansion ends: a pass takes a level of nesting from every call, whatever
\* the handlers write and however often they repeat an argument, so there are
\* no more passes than the statement has names of functions.
UnpackEnds == passes <= Cardinality({p \in 1..Len(query) : Sym(query, p) \in VirtualFuncs})

=============================================================================
