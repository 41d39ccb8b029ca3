---- MODULE QvwResolution ----
(***************************************************************************)
(* server.py: which file a qvw argument means.  get_script and reload try  *)
(* the candidate paths of _resolve_qvw; list_tables looks the argument up  *)
(* among the basenames of the index first.  Other programs change the      *)
(* files between any two of these calls to the file system.                *)
(*                                                                         *)
(* A path is a regular file when it links to itself, a symbolic link when  *)
(* it links to another path, and nothing when it links to None.            *)
(***************************************************************************)
EXTENDS Integers, SequencesExt

CONSTANTS
    Paths,
    Inside,     \* the paths at or below QVW_DIR
    Args,       \* qvw arguments
    Candidates, \* the paths to try for each
    InIndex,    \* the path whose basename the argument is
    Leads,      \* where each path may lead: to itself, or to another path
    None,
    MaxChanges  \* bound: changes to the disk

Tools == {"get_script", "list_tables", "reload"}
ASSUME PathsAssumption == Inside \subseteq Paths
ASSUME NoneAssumption == None \notin Paths \cup Tools
ASSUME CandidatesAssumption ==
    /\ Candidates \in [Args -> Seq(Paths) \ {<<>>}]
    /\ InIndex \in [Args -> Inside \cup {None}]
\* The file with a basename is the argument with ".qvw", the second candidate;
\* but an argument like ~user has one, the home directory, which is no file.
ASSUME LookupAssumption ==
    \A a \in Args : InIndex[a] # None =>
        \/ Len(Candidates[a]) = 2 /\ Candidates[a][2] = InIndex[a]
        \/ \A p \in ToSet(Candidates[a]) : Leads[p] = {}
\* A link leads to a file, not to a further link.
ASSUME LeadsAssumption ==
    /\ Leads \in [Paths -> SUBSET Paths]
    /\ \A p \in Paths : \A q \in Leads[p] \ {p} : Leads[q] \subseteq {q}

VARIABLES
    allowed,    \* allow_outside_dir
    links,      \* the disk
    large,      \* the files over max_file_bytes
    changes,
    arg,        \* the argument of the calls
    tool,       \* the call under way
    stage, todo, real,
    answers,    \* what each tool answered last, since the last change
    calm,       \* history: nothing has changed since the call began
    missed,     \* history: paths that were no file at some moment of the call
    led         \* history: <<path, target>> pairs that held at some moment

callVars == <<tool, stage, todo, real, answers>>
resolutionVars == <<allowed, links, large, changes, arg, callVars, calm, missed, led>>

\* Where a path leads: one file or none
Targets(p) == IF links[p] # None /\ links[links[p]] = links[p] THEN {links[p]} ELSE {}
IsFile(p) == links[p] # None /\ links[links[p]] = links[p]
Missing == {p \in Paths : ~IsFile(p)}
Leading == {x \in Paths \X Paths : IsFile(x[1]) /\ links[x[1]] = x[2]}

NoAnswer == [code |-> "none", path |-> None, calm |-> TRUE]
Disks == {d \in [Paths -> Paths \cup {None}] : \A p \in Paths : d[p] \in Leads[p] \cup {None}}

RInit ==
    /\ allowed \in BOOLEAN
    /\ links \in Disks
    /\ \E p \in Inside : large \in {{}, {p}}
    /\ changes = 0
    /\ arg \in Args
    /\ tool = None /\ stage = "idle" /\ todo = <<>> /\ real = None
    /\ answers = [t \in Tools |-> NoAnswer]
    /\ calm = TRUE /\ missed = {} /\ led = {}

Change ==
    /\ changes < MaxChanges
    /\ changes' = changes + 1
    /\ \E p \in Paths : \E q \in Leads[p] \cup {None} : links' = [links EXCEPT ![p] = q]
    /\ calm' = FALSE
    /\ missed' = missed \cup Missing'
    /\ led' = led \cup Leading'
    /\ answers' = [t \in Tools |-> NoAnswer]
    /\ UNCHANGED <<allowed, large, arg, tool, stage, todo, real>>

Begin(t) ==
    /\ stage = "idle" /\ answers[t] = NoAnswer
    /\ tool' = t
    /\ stage' = IF t = "list_tables" THEN "index" ELSE "try"
    /\ todo' = Candidates[arg] /\ real' = None
    /\ calm' = TRUE
    /\ missed' = Missing
    /\ led' = Leading
    /\ UNCHANGED <<allowed, links, large, changes, arg, answers>>

Answer(code, path) ==
    /\ answers' = [answers EXCEPT ![tool] = [code |-> code, path |-> path, calm |-> calm]]
    /\ stage' = "idle"
    /\ UNCHANGED <<tool, todo, real>>

Goto(next, candidates, target) ==
    /\ stage' = next /\ todo' = candidates /\ real' = target
    /\ UNCHANGED <<tool, answers>>

\* build_file_index, which a link that leads nowhere fails, then the entries
\* whose basename is qvw
Globbed == {InIndex[a] : a \in Args} \ {None}
Lookup_unresolved ==
    LET p == InIndex[arg]
    IN /\ stage = "index"
       /\ IF \E g \in Globbed : links[g] # None /\ ~IsFile(g) THEN Answer("qvw_dir_unreadable", None)
          ELSE IF p = None \/ links[p] = None THEN Goto("try", todo, None)
          ELSE Answer("ok", p)
Lookup ==
    LET p == InIndex[arg]
    IN /\ stage = "index"
       /\ IF \E g \in Globbed : links[g] # None /\ ~IsFile(g) THEN Answer("qvw_dir_unreadable", None)
          ELSE IF p = None \/ links[p] = None THEN Goto("try", todo, None)
          ELSE \E q \in Targets(p) : Answer("ok", q)

\* candidate.is_file()
Try ==
    /\ stage = "try"
    /\ CASE todo = <<>> -> Answer("file_not_found", None)
         [] todo # <<>> /\ ~IsFile(Head(todo)) -> Goto("try", Tail(todo), None)
         [] OTHER -> Goto("resolve", todo, None)

Within_asSpelt(p, q) == p \in Inside
Within(p, q) == q \in Inside

\* candidate.resolve(strict=True), and the test of what it leads to
Resolve_givesUp ==
    /\ stage = "resolve"
    /\ IF Targets(Head(todo)) = {} THEN Answer("file_not_found", None)
       ELSE \E q \in Targets(Head(todo)) :
            IF Within(Head(todo), q) \/ allowed THEN Goto("size", todo, q) ELSE Answer("unsupported", None)
Resolve ==
    /\ stage = "resolve"
    /\ IF Targets(Head(todo)) = {} THEN Goto("try", Tail(todo), None)
       ELSE \E q \in Targets(Head(todo)) :
            IF Within(Head(todo), q) \/ allowed THEN Goto("size", todo, q) ELSE Answer("unsupported", None)

\* _check_size, which reload leaves out; then list_tables calls stat once more
Size ==
    /\ stage = "size"
    /\ CASE tool = "reload" -> Answer("ok", real)
         [] tool # "reload" /\ ~IsFile(real) -> Answer("qvw_dir_unreadable", None)
         [] tool # "reload" /\ IsFile(real) /\ links[real] \in large -> Answer("qvw_too_large", None)
         [] OTHER -> IF tool = "list_tables" THEN Goto("synthetic", todo, real) ELSE Answer("ok", real)

Synthetic ==
    /\ stage = "synthetic"
    /\ IF IsFile(real) THEN Answer("ok", real) ELSE Answer("qvw_dir_unreadable", None)

RNext ==
    \/ Change
    \/ \E t \in Tools : Begin(t)
    \/ (Lookup \/ Try \/ Resolve \/ Size \/ Synthetic)
        /\ UNCHANGED <<allowed, links, large, changes, arg, calm, missed, led>>
RSpec == RInit /\ [][RNext]_resolutionVars

----------------------------------------------------------------------------
\* An answer is about the first candidate that is a file, as far as a changing
\* directory lets that be said: what comes before it, or every candidate when
\* none is found, was missing at some moment of the call.
AnswerJustified ==
    stage = "idle" /\ tool # None /\ tool # "list_tables" =>
        LET answer == answers[tool]
            tried == Candidates[arg]
        IN /\ answer.code = "file_not_found" => ToSet(tried) \subseteq missed
           /\ answer.code = "ok" =>
                \E i \in DOMAIN tried :
                    /\ <<tried[i], answer.path>> \in led
                    /\ \A j \in 1..i - 1 : tried[j] \in missed

\* _resolve_qvw tests where a path leads, not how it is spelt, and what it
\* hands on is what it tested: without allow_outside_dir no answer is about a
\* file outside QVW_DIR, but for the one list_tables found by its basename, and
\* then only where the link of that name leads.
StaysInside ==
    \A t \in Tools : answers[t].code = "ok" /\ ~allowed /\ answers[t].path \notin Inside =>
        t = "list_tables" /\ InIndex[arg] # None /\ links[InIndex[arg]] = answers[t].path

\* SECURITY.md: the server "reads only files inside QVW_DIR plus any explicit
\* absolute-path overrides."  The index resolves a link of the directory and
\* the lookup of list_tables hands on what it leads to untested.
Confined == \A t \in Tools : answers[t].code = "ok" /\ ~allowed => answers[t].path \in Inside

\* While the directory does not change, all tools take one argument for the
\* same file, and so for the same cache entry; but a file whose name is the
\* argument itself, without .qvw, is not in the index.
ToolsAgree ==
    \A t, u \in Tools :
        answers[t].code = "ok" /\ answers[u].code = "ok" /\ answers[t].calm /\ answers[u].calm =>
            answers[t].path = answers[u].path \/ (IsFile(Candidates[arg][1]) /\ InIndex[arg] # None)
====
