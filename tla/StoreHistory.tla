---- MODULE StoreHistory ----
(***************************************************************************)
(* MetadataStore with history variables that remember what the disk held   *)
(* at each invalidation, to say what a client may expect after a reload.   *)
(* The history variables change nothing in the store's behaviour.          *)
(***************************************************************************)
EXTENDS MetadataStore

VARIABLES
    floor,      \* per key, the stamp on disk at its latest invalidation
    straddled,  \* per key, whether an older read was in flight at that moment
    since       \* per thread, the floor of its key when its call began

historyVars == <<vars, floor, straddled, since>>

HInit ==
    /\ Init
    /\ floor = [k \in Keys |-> 0]
    /\ straddled = [k \in Keys |-> FALSE]
    /\ since = [t \in Threads |-> 0]

\* The step that completes an invalidation, and the keys it covers
Dropping == lpc # "idle" /\ lpc' = "idle"
Covered == IF lkey = None THEN Keys ELSE {lkey}

\* A thread has read a content of k that the disk no longer holds and will
\* still admit it.
ReadingOld(k) ==
    \E t \in Threads :
        /\ key[t] = k
        /\ pc[t] \in {"is_prj", "read_prj", "decode", "admit"}
        /\ raw[t].stamp < disk[k].stamp

Remember ==
    /\ floor' = [k \in Keys |-> IF Dropping /\ k \in Covered THEN disk[k].stamp ELSE floor[k]]
    /\ straddled' = [k \in Keys |->
                        IF Dropping /\ k \in Covered THEN ReadingOld(k) ELSE straddled[k]]
    /\ since' = [t \in Threads |->
                    IF pc[t] = "idle" /\ pc'[t] # "idle" THEN floor[key'[t]] ELSE since[t]]

HNext == Next /\ Remember
HSpec == HInit /\ [][HNext]_historyVars

----------------------------------------------------------------------------
Answered(t) == pc[t] # "idle" /\ pc'[t] = "idle" /\ ret'[t].status = "ok"
Fresh(t) == ret'[t].meta.body >= since[t]

\* A call made after a reload is answered from a content that was on disk at
\* that reload or later, as long as no older parse was still running when the
\* reload emptied the entry.
FreshAfterQuietReload ==
    [][\A t \in Threads : Answered(t) /\ ~straddled[key[t]] => Fresh(t)]_historyVars

\* server.py says of reload: "Invalidate cached metadata so the next call
\* re-parses the QVW."  Without the condition above the claim fails: a parse
\* that read the file before the reload admits its result after it.
FreshAfterReload == [][\A t \in Threads : Answered(t) => Fresh(t)]_historyVars
====
