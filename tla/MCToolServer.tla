---- MODULE MCToolServer ----
(* A small instance of the tool server and its history. *)
EXTENDS ServerHistory

Symmetry == Permutations(Threads) \cup Permutations(Requests)

\* Either searches and reloads meet in the store, as many as there are
\* requests, on files that parse or are away, or any tools come one after
\* another, on files of which one may be bad.
Bad == {k \in Keys : disk[k].shape \notin {"ok", "absent"}}
Meeting ==
    /\ Bad = {}
    /\ \A r \in Requests :
        req[r].tool \in {"reload", "none"} \/ (req[r].tool = "search" /\ req[r].arg = None)
    /\ \A r \in Requests :
        resp[r].status \in {"none", "ok", "config_error", "qvw_dir_unreadable"} /\ resp[r].meta = NoMeta
    /\ \A t \in Threads : out[t].status \in {"none", "ok", "os_error"}
InTurn ==
    /\ Cardinality(Bad) <= 1
    /\ Cardinality({r \in Requests : req[r] # Idle \/ resp[r] # NoResponse}) <= 1
    /\ Cardinality({t \in Threads : work[t] # NoJob \/ out[t] # Unanswered}) <= 1
Small == Meeting \/ InTurn
SmallInit == HInit /\ Small
SmallNext == HNext /\ Small'
SmallSpec == SmallInit /\ [][SmallNext]_historyVars
====
