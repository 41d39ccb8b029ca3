---- MODULE ServerHistory ----
(***************************************************************************)
(* ToolServer with history variables that remember, per file, what was on  *)
(* disk at its latest reload and, per request, what was so when it came.   *)
(* They change nothing in the server's behaviour.                          *)
(***************************************************************************)
EXTENDS ToolServer

VARIABLES
    floor,   \* per file, its stamp at its latest reload
    since,   \* per request, the floors when it came
    began    \* per request, the clock when it came

history == <<floor, since, began>>
historyVars == <<serverVars, history>>

NoFloor == [k \in Keys |-> 0]

\* A reload that reaches the store, and the files that it names
Dropping == asked /\ ~asked'
Covered(k) == target \in {None, k}
\* A thread is about to admit a content of k that the disk no longer holds.
ReadingOld(k) ==
    \E t \in Threads :
        phase[t] = "missed" /\ want[t] = k /\ loaded[t].status = "ok" /\ loaded[t].meta < disk[k].stamp

Remember ==
    /\ floor' = [k \in Keys |->
                    IF Dropping /\ Covered(k) /\ ~ReadingOld(k) THEN disk[k].stamp ELSE floor[k]]
    /\ since' = [r \in Requests |-> CASE req'[r].stage = "idle" -> NoFloor
                                      [] req[r].stage = "idle" /\ req'[r].stage # "idle" -> floor
                                      [] OTHER -> since[r]]
    /\ began' = [r \in Requests |-> CASE req'[r].stage = "idle" -> 0
                                      [] req[r].stage = "idle" /\ req'[r].stage # "idle" -> clock
                                      [] OTHER -> began[r]]

HInit ==
    /\ SInit
    /\ floor = NoFloor
    /\ since = [r \in Requests |-> NoFloor]
    /\ began = [r \in Requests |-> 0]
HNext == SNext /\ Remember
HistorySpec == HInit /\ [][HNext]_historyVars

----------------------------------------------------------------------------
\* The file that a handler has parsed, or waits for
Target(q) == IF q.tool \in Parsing THEN q.arg ELSE Head(q.todo)

\* reload is there "so the next call re-parses the QVW": whatever a tool gets
\* from the store for a file, cached or parsed for it, is no older than what
\* was on disk at any reload of that file that was over when the tool was
\* called.  Two reloads do not count: one that did not find the file and so
\* dropped nothing (server.py:470-472), and one that an older parse outlived.
ReloadedIsFresh ==
    \A r \in Requests :
        LET q == req[r]
        IN q.stage = "parsing" /\ q.result.status = "ok" => q.result.meta >= since[r][Target(q)]

\* A file that parses and that nobody has written since r came
Sound(r, k) == disk[k].shape = "ok" /\ disk[k].stamp <= began[r]
Targets(r) == IF req[r].arg = None THEN Keys ELSE ToSet(req[r].files)

\* One unreadable, oversized or malformed file never costs the client the
\* other files: once the directory has been indexed, no content of any file
\* and no deletion turns a listing or a search into an error, and each file
\* that is sound all the while is among those scanned.
OneBadFileSparesTheRest ==
    [][\A r \in Requests :
        Responds(r) /\ req[r].stage \notin {"start", "index", "resolve", "size", "synthetic"}
            /\ req[r].tool \in Listing =>
            /\ resp'[r].status = "ok"
            /\ \A k \in Targets(r) : Sound(r, k) => k \in ToSet(req[r].scanned)]_historyVars

----------------------------------------------------------------------------
(* The inductive invariant behind the two, part by part. *)

\* The stamps only grow, and what is remembered was so.
Stamps ==
    /\ floor \in [Keys -> 0..MaxStamp]
    /\ since \in [Requests -> [Keys -> 0..MaxStamp]]
    /\ began \in [Requests -> 0..MaxStamp]
    /\ \A k \in Keys : floor[k] <= disk[k].stamp /\ disk[k].stamp <= clock
    /\ \A r \in Requests : began[r] <= clock /\ \A k \in Keys : since[r][k] <= floor[k]

\* A job is what its request waits for.
Fits(job) ==
    /\ job.kind = "parse" => req[job.req].stage = "parsing" /\ job.key = Target(req[job.req])
    /\ job.kind = "match" => req[job.req].stage = "matching"
JobsFit == (\A i \in DOMAIN jobs : Fits(jobs[i])) /\ \A t \in Threads : Fits(work[t])

\* What r may be told of k: a content as new as the reloads it knows of, or an
\* error for which there was a reason.
Justified(r, k, x) ==
    /\ x.status = "ok" => x.meta \in since[r][k]..MaxStamp
    /\ x.status \notin {"none", "ok"} => ~Sound(r, k)

CacheFresh == \A i \in DOMAIN lru : lru[i].meta \in floor[lru[i].key]..MaxStamp

\* A thread in a call is at its job, and what it has read or got is justified.
Reads(t) ==
    /\ phase[t] # "idle" => work[t].kind = "parse" /\ want[t] = work[t].key
    /\ loaded[t] # NotLoaded => loaded[t].status # "none"
    /\ loaded[t].status = "ok" => loaded[t].meta \in floor[want[t]]..MaxStamp
    /\ loaded[t].status \notin {"none", "ok"} => ~Sound(work[t].req, want[t])
    /\ work[t].kind = "parse" /\ phase[t] = "idle" =>
          out[t].status # "none" /\ Justified(work[t].req, work[t].key, out[t])

\* A request is woken with an answer, has skipped no sound file, and has
\* listed them all.
Keeps(r) ==
    LET q == req[r]
    IN /\ q.stage = "parsing" => Target(q) \in Keys /\ Justified(r, Target(q), q.result)
       /\ q.stage = "parsing" /\ (running = r \/ Waiting(r) # {}) => q.result.status # "none"
       /\ q.stage # "idle" => \A k \in ToSet(q.skipped) : ~Sound(r, k)
       /\ q.stage \in {"index", "each", "parsing", "matching", "names"} /\ q.tool \in Listing
            /\ q.arg = None => \A k \in Keys : Sound(r, k) => k \in ToSet(q.files)

HistoryInvariant ==
    /\ Stamps
    /\ JobsFit
    /\ CacheFresh
    /\ \A t \in Threads : Reads(t)
    /\ \A r \in Requests : Keeps(r)
====
