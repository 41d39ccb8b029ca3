---- MODULE DataSources ----
(***************************************************************************)
(* parser/sources.py: extract_sources searches a load script four times,   *)
(* once for each kind of source, and keeps the first mention of each.      *)
(*                                                                         *)
(* A script is its statements, each with the line it is on, and the lines  *)
(* that end with a semicolon.  What no pattern matches is of kind "other". *)
(* Two connection strings that mask to one are one name.                   *)
(***************************************************************************)
EXTENDS Integers, SequencesExt

CONSTANTS
    Scripts,
    Origins       \* what a statement may connect to or load from

Passes == <<"lib", "odbc", "oledb", "file">>
Greedy == {"odbc", "oledb"}    \* their patterns run to the end of the line
Kinds == ToSet(Passes) \cup {"other"}

\* Statements are in the order of their lines.
ASSUME ScriptsAssumption ==
    \A s \in Scripts :
        /\ s.stmts \in Seq([kind : Kinds, name : Origins, line : Nat])
        /\ \A i, j \in DOMAIN s.stmts : i < j => s.stmts[i].line <= s.stmts[j].line

VARIABLES
    load,       \* the script
    pass,       \* which pattern is being searched for
    from,       \* the statement its search goes on from
    sources     \* seen.values(), in order

sourceVars == <<load, pass, from, sources>>

LineOf(s, i) == s.stmts[i].line

\* A connection string reaches to the semicolon that ends the line: there is
\* none without it, and it takes with it whatever follows on the line.
Starts(s, i, kind) == s.stmts[i].kind = kind /\ (kind \in Greedy => LineOf(s, i) \in s.ended)
MatchEnd(s, i, kind) ==
    IF kind \in Greedy THEN Max({j \in DOMAIN s.stmts : j >= i /\ LineOf(s, j) = LineOf(s, i)}) ELSE i
MatchAt(s, i, kind) ==
    LET Said(j) == [kind |-> s.stmts[j].kind, name |-> s.stmts[j].name]
    IN [kind |-> kind, line |-> LineOf(s, i),
        name |-> [n \in 1..MatchEnd(s, i, kind) - i + 1 |-> Said(i + n - 1)]]

\* finditer: the places where the rest of the search may match
Ahead == {i \in DOMAIN load.stmts : i >= from /\ Starts(load, i, Passes[pass])}

SInit ==
    /\ load \in Scripts
    /\ pass = 1 /\ from = 1 /\ sources = <<>>

NextPass ==
    /\ Ahead = {} /\ pass < Len(Passes)
    /\ pass' = pass + 1
    /\ from' = 1
    /\ UNCHANGED <<load, sources>>

Same(m, n) == m.kind = n.kind /\ m.name = n.name
Known(m) == \E s \in ToSet(sources) : Same(s, m)

\* _add
Add_latest ==
    LET i == Min(Ahead)
        m == MatchAt(load, i, Passes[pass])
    IN /\ Ahead # {}
       /\ from' = MatchEnd(load, i, Passes[pass]) + 1
       /\ sources' = IF Known(m)
                     THEN [n \in DOMAIN sources |-> IF Same(sources[n], m) THEN m ELSE sources[n]]
                     ELSE Append(sources, m)
       /\ UNCHANGED <<load, pass>>
Add ==
    LET i == Min(Ahead)
        m == MatchAt(load, i, Passes[pass])
    IN /\ Ahead # {}
       /\ from' = MatchEnd(load, i, Passes[pass]) + 1
       /\ sources' = IF Known(m) THEN sources ELSE Append(sources, m)
       /\ UNCHANGED <<load, pass>>

SNext == NextPass \/ Add
SourcesSpec == SInit /\ [][SNext]_sourceVars

----------------------------------------------------------------------------
Searched == pass = Len(Passes) /\ Ahead = {}

\* What a reader of the script takes for a source: every statement of the
\* kind, but of those that run to the end of a line the first on the line.
Mentions(s, kind) ==
    {i \in DOMAIN s.stmts :
        /\ Starts(s, i, kind)
        /\ kind \in Greedy =>
            \A j \in DOMAIN s.stmts : j < i /\ LineOf(s, j) = LineOf(s, i) => ~Starts(s, j, kind)}
FirstMention(m, i) ==
    /\ i \in Mentions(load, m.kind)
    /\ m = MatchAt(load, i, m.kind)
    /\ \A j \in Mentions(load, m.kind) : j < i => ~Same(MatchAt(load, j, m.kind), m)

\* Each source is listed once, as its first mention has it, and no mention
\* goes unlisted; within a kind the list follows the script.
EachSourceOnce ==
    Searched =>
        /\ \A i, j \in DOMAIN sources : i # j => ~Same(sources[i], sources[j])
        /\ \A m \in ToSet(sources) : \E i \in DOMAIN load.stmts : FirstMention(m, i)
        /\ \A k \in ToSet(Passes) : \A i \in Mentions(load, k) : Known(MatchAt(load, i, k))
        /\ \A i, j \in DOMAIN sources :
            i < j /\ sources[i].kind = sources[j].kind => sources[i].line <= sources[j].line
====
