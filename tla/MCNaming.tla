---- MODULE MCNaming ----
(***************************************************************************)
(* A small directory to index, a few paths to resolve, and every kind of   *)
(* environment to boot in.  In each behaviour one of the three has work to *)
(* do (see MCContainer).                                                   *)
(***************************************************************************)
EXTENDS FileIndex, QvwResolution, Boot, TLC

\* In the order of their paths.  "r" is a reserved word.  Sanitised, the first
\* three names collide, and so do two that begin with "a" and two with "r"; the
\* fourth and the seventh imitate suffixed names.
MCNames ==
    << <<"-", "2">>, <<"2">>, <<"_", "2">>, <<"_", "2", "_", "2">>,
       <<"a", "-">>, <<"a", "_">>, <<"a", "_", "_", "2">>, <<"r">>, <<"r", "_", "qvw">> >>
MCBasenames == ToSet(MCNames)
MCSorted == [d \in SUBSET MCBasenames |-> SelectSeq(MCNames, LAMBDA b : b \in d)]
MCReserved == {<<"r">>}
MCQvw == <<"qvw">>
MCDecimal == [n \in 1..9 |-> <<ToString(n)>>]

\* The argument s, with and without extension, and a path elsewhere: files
\* s, s.qvw and s.qvw.qvw in the directory and one outside it.
MCCandidates ==
    "s" :> <<"s", "s.qvw">> @@ "s.qvw" :> <<"s.qvw", "s.qvw.qvw">> @@ "/else" :> <<"else">>
MCInIndex == "s" :> "s.qvw" @@ "s.qvw" :> "s.qvw.qvw" @@ "/else" :> None

MCLeads == "s" :> {"s"} @@ "s.qvw" :> {"s.qvw", "else"} @@ "s.qvw.qvw" :> {"s.qvw.qvw", "s"} @@ "else" :> {"else"}

IndexEnded == dir = {} /\ queue = <<>> /\ used = [c \in {} |-> 0] /\ index = <<>> /\ listing = "built"
CallsEnded ==
    /\ allowed = FALSE /\ links = [p \in Paths |-> None] /\ large = {} /\ changes = MaxChanges
    /\ arg = "s" /\ tool = None /\ stage = "ended" /\ todo = <<>> /\ real = None
    /\ answers = [t \in Tools |-> NoAnswer] /\ calm = TRUE /\ missed = {} /\ led = {}
BootEnded ==
    /\ env \in {e \in Environments : e.dir = "no_home" /\ e.numbers = "bad" /\ e.level = "level" /\ e.limit = 2}
    /\ config = {} /\ error = "none" /\ limit = DefaultLimit /\ booting = "crashed"

MCInit ==
    \/ FInit /\ Cardinality(dir) <= 5 /\ CallsEnded /\ BootEnded
    \/ RInit /\ IndexEnded /\ BootEnded
    \/ BInit /\ IndexEnded /\ CallsEnded
MCNext ==
    \/ FNext /\ UNCHANGED <<resolutionVars, bootVars>>
    \/ RNext /\ UNCHANGED <<indexVars, bootVars>>
    \/ BNext /\ UNCHANGED <<indexVars, resolutionVars>>
MCSpec == MCInit /\ [][MCNext]_<<indexVars, resolutionVars, bootVars>>
====
