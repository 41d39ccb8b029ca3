---- MODULE ToolServer ----
(***************************************************************************)
(* server.py: the tool handlers, as tasks of one asyncio event loop, and   *)
(* the executor threads to which they hand parsing and matching.  The      *)
(* metadata store is its contract (LruContract), which MetadataStore       *)
(* implements.  A handler runs alone on the loop from one await to the     *)
(* next, but other programs may change the files between any two of its    *)
(* file-system calls, and executor threads run beside it.                  *)
(*                                                                         *)
(* A file is the stamp of its latest write and its shape; a parsed file is *)
(* the stamp of the content that was read.                                 *)
(***************************************************************************)
EXTENDS LruContract

CONSTANTS
    Requests,    \* requests a client may have outstanding
    Tools,       \* the tools it calls
    Shapes,      \* the shapes files take
    MaxStamp     \* bound: writes to the disk

\* search, by what its pattern and scope make it do: the default scope, names
\* only, script lines only, a pattern that does not compile.
Searches == {"search", "search_names", "search_scripts", "search_invalid"}
Scanning == {"list_tables", "search", "search_names", "search_scripts"}
Listing == {"list_files"} \cup Scanning
Parsing == {"get_script", "get_data_sources", "get_field_values"}
Unsupported == {"get_variables", "get_sheets"}
OptionalQvw == Scanning \cup {"reload"}

ASSUME ToolsAssumption ==
    Tools \subseteq Listing \cup Parsing \cup Unsupported \cup {"reload", "search_invalid", "unknown"}
ASSUME ServerShapesAssumption ==
    Shapes \subseteq {"ok", "big", "malformed", "drifted", "unsteady", "absent", "dangling"}
ASSUME ServerMetasAssumption == MaxStamp \in Nat /\ 0..MaxStamp \subseteq Metas
ASSUME ServerNoneAssumption ==
    None \notin Threads \cup Requests \cup Keys /\ Threads \cap Requests = {}
ASSUME FiniteAssumption == IsFiniteSet(Threads) /\ IsFiniteSet(Keys)
ASSUME ServerBoundAssumption == MaxEntries \in Nat \ {0}

VARIABLES
    degraded,  \* TRUE when boot left a configuration error
    disk,      \* [Keys -> [stamp, shape]]
    clock,     \* stamp of the latest write
    ready,     \* the loop's queue of tasks that can run
    running,   \* the task that runs on the loop
    req,       \* the handler's locals, per request
    resp,      \* the response to each request's latest call
    jobs,      \* the executor's queue
    work,      \* the job of each executor thread
    loaded,    \* what each executor thread has read and parsed
    gil        \* the thread, or the task on the loop, inside a regular-expression match

fileVars == <<degraded, disk, clock>>
loopVars == <<ready, running, req, resp>>
storeVars == <<lru, phase, want, out>>
poolVars == <<jobs, work, loaded, gil>>
serverVars == <<contractVars, fileVars, loopVars, poolVars>>

NoJob == [req |-> None, kind |-> "none", key |-> None]
NotLoaded == [status |-> "none", meta |-> NoMeta]
Idle == [stage |-> "idle", tool |-> "none", arg |-> None, exact |-> TRUE,
         files |-> <<>>, todo |-> <<>>, scanned |-> <<>>, skipped |-> <<>>, result |-> NotLoaded]
NoResponse == [status |-> "none", meta |-> NoMeta]

Stages == {"idle", "start", "glob", "index", "resolve", "size", "synthetic", "each",
           "parsing", "matching", "names", "drop", "dropping"}
Codes == {"none", "ok", "input", "internal", "config_error", "file_not_found",
          "qvw_dir_unreadable", "qvw_too_large", "malformed_qvw", "parse_failed", "unsupported"}

Jobs == [req : Requests, kind : {"parse", "match"}, key : Keys]
Results == [status : {"none", "ok", "os_error", "too_large", "malformed", "value_error"},
            meta : Metas \cup {NoMeta}]
Locals == [stage : Stages, tool : Tools \cup {"none"}, arg : Keys \cup {None}, exact : BOOLEAN,
           files : Seq(Keys), todo : Seq(Keys), scanned : Seq(Keys), skipped : Seq(Keys),
           result : Results]

ServerTypeOK ==
    /\ degraded \in BOOLEAN
    /\ disk \in [Keys -> [stamp : 0..MaxStamp, shape : Shapes]]
    /\ clock \in 0..MaxStamp
    /\ lru \in Seq(Entries(Keys, Metas)) /\ Len(lru) <= MaxEntries /\ UniqueKeys(lru)
    /\ phase \in [Threads -> {"idle", "asked", "missed"}]
    /\ want \in [Threads -> Keys \cup {None}]
    /\ out \in [Threads -> Results]
    /\ asked \in BOOLEAN /\ target \in Keys \cup {None}
    /\ ready \in Seq(Requests)
    /\ running \in Requests \cup {None}
    /\ req \in [Requests -> Locals]
    /\ resp \in [Requests -> [status : Codes, meta : Metas \cup {NoMeta}]]
    /\ jobs \in Seq(Jobs)
    /\ work \in [Threads -> Jobs \cup {NoJob}]
    /\ loaded \in [Threads -> Results]
    /\ gil \in Threads \cup Requests \cup {None}

SInit ==
    /\ CInit
    /\ degraded \in BOOLEAN
    /\ disk \in [Keys -> [stamp : {0}, shape : Shapes]]
    /\ clock = 0
    /\ ready = <<>> /\ running = None
    /\ req = [r \in Requests |-> Idle]
    /\ resp = [r \in Requests |-> NoResponse]
    /\ jobs = <<>>
    /\ work = [t \in Threads |-> NoJob]
    /\ loaded = [t \in Threads |-> NotLoaded]
    /\ gil = None

----------------------------------------------------------------------------
(* The file system, as the handlers see it. *)

Write(k) ==
    /\ clock < MaxStamp
    /\ clock' = clock + 1
    /\ \E s \in Shapes : disk' = [disk EXCEPT ![k] = [stamp |-> clock + 1, shape |-> s]]
    /\ UNCHANGED <<degraded, contractVars, loopVars, poolVars>>

Statable(k) == disk[k].shape \notin {"absent", "dangling"}   \* stat, is_file, resolve
Listed(k) == disk[k].shape # "absent"                        \* glob("*.qvw")
TooLarge(k) == disk[k].shape = "big"

----------------------------------------------------------------------------
(* Tasks on the loop. *)

\* Nothing in the process runs while a match holds the interpreter lock.
Runs == gil = None
OnLoop(r, stage) == Runs /\ running = r /\ req[r].stage = stage

Send(r, tool, arg, exact) ==
    /\ req[r].stage = "idle"
    /\ req' = [req EXCEPT ![r] = [Idle EXCEPT !.stage = "start", !.tool = tool,
                                              !.arg = arg, !.exact = exact]]
    /\ ready' = Append(ready, r)
    /\ resp' = [resp EXCEPT ![r] = NoResponse]
    /\ UNCHANGED <<contractVars, fileVars, running, poolVars>>

\* The loop takes up the task at the head of its queue.
Pick ==
    /\ Runs /\ running = None /\ ready # <<>>
    /\ running' = Head(ready)
    /\ ready' = Tail(ready)
    /\ UNCHANGED <<contractVars, fileVars, req, resp, poolVars>>

\* The handler goes on to another stage without giving up the loop.
Step(r, local) ==
    /\ req' = [req EXCEPT ![r] = local]
    /\ UNCHANGED <<ready, running, resp>>

Answered(r, status, m) ==
    /\ req' = [req EXCEPT ![r] = Idle]
    /\ resp' = [resp EXCEPT ![r] = [status |-> status, meta |-> m]]
    /\ running' = None
    /\ UNCHANGED ready

Respond(r, status) == Answered(r, status, NoMeta)

Await_forgotten(r, kind, k, stage) ==
    /\ jobs' = Append(jobs, [req |-> r, kind |-> kind, key |-> k])
    /\ req' = [req EXCEPT ![r].stage = stage, ![r].result = NotLoaded]
    /\ UNCHANGED <<ready, running, resp, work, loaded, gil>>
Await_lifo(r, kind, k, stage) ==
    /\ jobs' = <<[req |-> r, kind |-> kind, key |-> k]>> \o jobs
    /\ req' = [req EXCEPT ![r].stage = stage, ![r].result = NotLoaded]
    /\ running' = None
    /\ UNCHANGED <<ready, resp, work, loaded, gil>>

\* await asyncio.to_thread(...)
Await(r, kind, k, stage) ==
    /\ jobs' = Append(jobs, [req |-> r, kind |-> kind, key |-> k])
    /\ req' = [req EXCEPT ![r].stage = stage, ![r].result = NotLoaded]
    /\ running' = None
    /\ UNCHANGED <<ready, resp, work, loaded, gil>>

Dispatch_unchecked(r) ==
    LET tool == req[r].tool
        next == CASE tool \in Listing -> "glob"
                  [] tool = "reload" /\ req[r].arg = None -> "drop"
                  [] OTHER -> "resolve"
    IN /\ OnLoop(r, "start")
       /\ IF tool = "unknown" THEN Respond(r, "internal") ELSE Step(r, [req[r] EXCEPT !.stage = next])
       /\ UNCHANGED <<contractVars, fileVars, poolVars>>

\* _call_tool: a degraded server names the error, whatever the tool
Dispatch(r) ==
    LET tool == req[r].tool
        next == CASE tool \in Listing -> "glob"
                  [] tool = "reload" /\ req[r].arg = None -> "drop"
                  [] OTHER -> "resolve"
        lacksQvw == tool \in Parsing \cup Unsupported /\ req[r].arg = None
    IN /\ OnLoop(r, "start")
       /\ CASE degraded -> Respond(r, "config_error")
            [] ~degraded /\ tool = "unknown" -> Respond(r, "internal")
            [] ~degraded /\ (lacksQvw \/ tool = "search_invalid") -> Respond(r, "input")
            [] OTHER -> Step(r, [req[r] EXCEPT !.stage = next])
       /\ UNCHANGED <<contractVars, fileVars, poolVars>>

\* build_file_index: the sorted glob, then one stat per file
Glob(r) ==
    /\ OnLoop(r, "glob")
    /\ LET found == SetToSeq({k \in Keys : Listed(k)})
       IN Step(r, [req[r] EXCEPT !.stage = "index", !.files = found, !.todo = found])
    /\ UNCHANGED <<contractVars, fileVars, poolVars>>

Index(r) ==
    /\ OnLoop(r, "index")
    /\ req[r].todo # <<>>
    /\ IF Statable(Head(req[r].todo))
       THEN Step(r, [req[r] EXCEPT !.todo = Tail(@)])
       ELSE Respond(r, "qvw_dir_unreadable")
    /\ UNCHANGED <<contractVars, fileVars, poolVars>>

\* qvw= is compared with basenames, so another spelling of the file's name
\* (with its extension, or an absolute path) selects nothing.
Chosen(r) ==
    CASE req[r].arg = None -> req[r].files
      [] req[r].arg \in ToSet(req[r].files) /\ req[r].exact -> <<req[r].arg>>
      [] OTHER -> <<>>

Indexed(r) ==
    /\ OnLoop(r, "index")
    /\ req[r].todo = <<>>
    /\ CASE req[r].tool = "list_files" -> Respond(r, "ok")
         [] req[r].tool = "list_tables" /\ req[r].arg # None /\ Chosen(r) = <<>> ->
              Step(r, [req[r] EXCEPT !.stage = "resolve"])
         [] OTHER -> Step(r, [req[r] EXCEPT !.stage = "each", !.files = Chosen(r), !.todo = Chosen(r)])
    /\ UNCHANGED <<contractVars, fileVars, poolVars>>

\* _resolve_qvw: is_file and resolve
Resolve(r) ==
    LET here == Statable(req[r].arg)
    IN /\ OnLoop(r, "resolve")
       /\ CASE here -> Step(r, [req[r] EXCEPT !.stage = IF req[r].tool = "reload" THEN "drop" ELSE "size"])
            [] ~here /\ req[r].tool = "reload" -> Respond(r, "ok")
            [] OTHER -> Respond(r, "file_not_found")
       /\ UNCHANGED <<contractVars, fileVars, poolVars>>

\* _check_size, then what the tool does with the path
Size(r) ==
    LET k == req[r].arg
    IN /\ OnLoop(r, "size")
       /\ CASE ~Statable(k) -> Respond(r, "qvw_dir_unreadable") /\ UNCHANGED poolVars
            [] TooLarge(k) -> Respond(r, "qvw_too_large") /\ UNCHANGED poolVars
            [] OTHER ->
                 CASE req[r].tool \in Unsupported -> Respond(r, "unsupported") /\ UNCHANGED poolVars
                   [] req[r].tool \in Parsing     -> Await(r, "parse", k, "parsing")
                   [] OTHER -> Step(r, [req[r] EXCEPT !.stage = "synthetic"]) /\ UNCHANGED poolVars
       /\ UNCHANGED <<contractVars, fileVars>>

\* _synthetic_file_index: one more stat
Synthetic(r) ==
    LET k == req[r].arg
    IN /\ OnLoop(r, "synthetic")
       /\ IF Statable(k)
          THEN Step(r, [req[r] EXCEPT !.stage = "each", !.files = <<k>>, !.todo = <<k>>])
          ELSE Respond(r, "qvw_dir_unreadable")
       /\ UNCHANGED <<contractVars, fileVars, poolVars>>

\* The loop over the targets in list_tables and search
Skip_fallsThrough(r) ==
    Step(r, [req[r] EXCEPT !.stage = "each", !.todo = Tail(@),
                           !.skipped = Append(@, Head(req[r].todo)), !.scanned = Append(@, Head(req[r].todo))])
Skip_aborts(r) == Respond(r, "parse_failed")
Skip(r) ==
    Step(r, [req[r] EXCEPT !.stage = "each", !.todo = Tail(@), !.skipped = Append(@, Head(req[r].todo))])
Scan(r) ==
    [req[r] EXCEPT !.stage = "each", !.todo = Tail(@), !.scanned = Append(@, Head(req[r].todo))]

Each(r) ==
    LET k == Head(req[r].todo)
    IN /\ OnLoop(r, "each")
       /\ req[r].todo # <<>>
       /\ IF Statable(k) /\ ~TooLarge(k)
          THEN Await(r, "parse", k, "parsing")
          ELSE Skip(r) /\ UNCHANGED poolVars
       /\ UNCHANGED <<contractVars, fileVars>>

EachDone(r) ==
    /\ OnLoop(r, "each")
    /\ req[r].todo = <<>>
    /\ Respond(r, "ok")
    /\ UNCHANGED <<contractVars, fileVars, poolVars>>

\* _parse_error
ErrorCode(e) ==
    CASE e = "too_large" -> "qvw_too_large"
      [] e = "malformed" -> "malformed_qvw"
      [] OTHER           -> "parse_failed"

\* The task resumes after its parse: one handler answers, one lists the file's
\* tables, one scans the file, off-loading the match of its script lines but
\* not that of its field and table names.
Parsed(r) ==
    LET answer == req[r].result
        tool == req[r].tool
    IN /\ OnLoop(r, "parsing")
       /\ CASE tool \in Parsing ->
                 /\ Answered(r, IF answer.status = "ok" THEN "ok" ELSE ErrorCode(answer.status), answer.meta)
                 /\ UNCHANGED poolVars
            [] tool \notin Parsing /\ answer.status # "ok" -> Skip(r) /\ UNCHANGED poolVars
            [] tool = "list_tables" /\ answer.status = "ok" -> Step(r, Scan(r)) /\ UNCHANGED poolVars
            [] tool = "search_names" /\ answer.status = "ok" ->
                 Step(r, [req[r] EXCEPT !.stage = "names"]) /\ UNCHANGED poolVars
            [] tool \in {"search", "search_scripts"} /\ answer.status = "ok" ->
                 Await(r, "match", Head(req[r].todo), "matching")
       /\ UNCHANGED <<contractVars, fileVars>>

Matched(r) ==
    /\ OnLoop(r, "matching")
    /\ Step(r, IF req[r].tool = "search" THEN [req[r] EXCEPT !.stage = "names"] ELSE Scan(r))
    /\ UNCHANGED <<contractVars, fileVars, poolVars>>

StartNames(r) ==
    /\ OnLoop(r, "names")
    /\ gil' = r
    /\ UNCHANGED <<contractVars, fileVars, loopVars, jobs, work, loaded>>

EndNames(r) ==
    /\ gil = r
    /\ gil' = None
    /\ Step(r, Scan(r))
    /\ UNCHANGED <<contractVars, fileVars, jobs, work, loaded>>

StartDrop_waits(r) ==
    /\ OnLoop(r, "drop")
    /\ \A t \in Threads : phase[t] # "missed"
    /\ AskDrop(req[r].arg)
    /\ Step(r, [req[r] EXCEPT !.stage = "dropping"])
    /\ UNCHANGED <<fileVars, poolVars>>

\* reload: store.invalidate runs on the loop, and no task runs meanwhile.
StartDrop(r) ==
    /\ OnLoop(r, "drop")
    /\ AskDrop(req[r].arg)
    /\ Step(r, [req[r] EXCEPT !.stage = "dropping"])
    /\ UNCHANGED <<fileVars, poolVars>>

EndDrop(r) ==
    /\ OnLoop(r, "dropping")
    /\ Drop
    /\ Respond(r, "ok")
    /\ UNCHANGED <<fileVars, poolVars>>

LoopStep(r) ==
    \/ Dispatch(r) \/ Glob(r) \/ Index(r) \/ Indexed(r) \/ Resolve(r) \/ Size(r) \/ Synthetic(r)
    \/ Each(r) \/ EachDone(r) \/ Parsed(r) \/ Matched(r) \/ StartNames(r) \/ StartDrop(r) \/ EndDrop(r)

----------------------------------------------------------------------------
(* The executor threads. *)

\* A free thread takes the oldest job.
Take(t) ==
    LET job == Head(jobs)
    IN /\ Runs /\ jobs # <<>> /\ work[t] = NoJob
       /\ work' = [work EXCEPT ![t] = job]
       /\ jobs' = Tail(jobs)
       /\ IF job.kind = "parse" THEN Ask(t, job.key) ELSE UNCHANGED contractVars
       /\ UNCHANGED <<fileVars, loopVars, loaded, gil>>

Lookup(t) ==
    /\ Runs
    /\ Hit(t) \/ Miss(t)
    /\ UNCHANGED <<fileVars, loopVars, poolVars>>

\* stat, read_bytes and the parse.  A file over the limit is refused, unless
\* it grew after the stat.  The script beside an unsteady file comes and goes,
\* so that it may be gone when prj.py reads it.
Load(t) ==
    LET file == disk[want[t]]
        Got(status) == loaded' = [loaded EXCEPT ![t] = [status |-> status,
                          meta |-> IF status = "ok" THEN file.stamp ELSE NoMeta]]
    IN /\ Runs
       /\ phase[t] = "missed" /\ loaded[t] = NotLoaded
       /\ CASE file.shape = "ok"        -> Got("ok")
            [] file.shape = "big"       -> Got("too_large") \/ Got("ok")
            [] file.shape = "malformed" -> Got("malformed")
            [] file.shape = "drifted"   -> Got("value_error")
            [] file.shape = "unsteady"  -> Got("ok") \/ Got("os_error")
            [] ~Statable(want[t])       -> Got("os_error")
       /\ UNCHANGED <<contractVars, fileVars, loopVars, jobs, work, gil>>

EndParse(t) ==
    /\ Runs
    /\ loaded[t] # NotLoaded
    /\ IF loaded[t].status = "ok" THEN Admit(t, loaded[t].meta) ELSE GiveUp(t, loaded[t].status)
    /\ loaded' = [loaded EXCEPT ![t] = NotLoaded]
    /\ UNCHANGED <<fileVars, loopVars, jobs, work, gil>>

\* A match keeps the interpreter lock until it ends.
StartMatch(t) ==
    /\ Runs /\ work[t].kind = "match"
    /\ gil' = t
    /\ UNCHANGED <<contractVars, fileVars, loopVars, jobs, work, loaded>>

\* The thread is done: it hands the result to the loop, which makes the
\* waiting task runnable.
Deliver(t, result) ==
    LET r == work[t].req
    IN /\ req' = [req EXCEPT ![r].result = result]
       /\ ready' = Append(ready, r)
       /\ work' = [work EXCEPT ![t] = NoJob]
       /\ UNCHANGED <<contractVars, fileVars, running, resp, jobs, loaded>>

EndMatch(t) ==
    /\ gil = t
    /\ gil' = None
    /\ Deliver(t, NotLoaded)

Finish(t) ==
    /\ Runs
    /\ work[t].kind = "parse" /\ phase[t] = "idle"
    /\ Deliver(t, out[t])
    /\ UNCHANGED gil

ParseStep(t) == (Take(t) /\ Head(jobs).kind = "parse") \/ Lookup(t) \/ Load(t) \/ EndParse(t) \/ Finish(t)
MatchStep(t) == (Take(t) /\ Head(jobs).kind = "match") \/ StartMatch(t)

----------------------------------------------------------------------------
Arrival ==
    \E r \in Requests, tool \in Tools :
        \E arg \in (CASE tool \in OptionalQvw -> Keys \cup {None}
                      [] tool \in Parsing \cup Unsupported -> Keys \cup {None}
                      [] OTHER -> {None}),
           exact \in (IF tool \in Scanning THEN BOOLEAN ELSE {TRUE}) :
            (arg = None => exact) /\ Send(r, tool, arg, exact)

LoopRuns == Pick \/ \E r \in Requests : LoopStep(r)

SNext ==
    \/ Arrival
    \/ \E k \in Keys : Write(k)
    \/ LoopRuns
    \/ \E r \in Requests : EndNames(r)
    \/ \E t \in Threads : ParseStep(t) \/ MatchStep(t) \/ EndMatch(t)

ServerSpec == SInit /\ [][SNext]_serverVars

\* The loop and the executor threads keep running.  Each needs the interpreter
\* lock, which a match may hold whenever it looks; the interpreter hands the
\* lock to those who wait for it (a thread that gives it up lets another one
\* have it first), so being able to run again and again is enough: strong
\* fairness.  The end of a match waits for nobody.
LoopFair == SF_serverVars(LoopRuns)
PoolFair == \A t \in Threads : SF_serverVars(ParseStep(t)) /\ SF_serverVars(MatchStep(t))
MatchesEnd ==
    /\ \A t \in Threads : WF_serverVars(EndMatch(t))
    /\ \A r \in Requests : WF_serverVars(EndNames(r))

\* Parses may take forever, matches end.
SlowParseSpec == ServerSpec /\ LoopFair /\ MatchesEnd /\ \A t \in Threads : SF_serverVars(MatchStep(t))
\* Parses end, a match may take forever.
SlowMatchSpec == ServerSpec /\ LoopFair /\ PoolFair

----------------------------------------------------------------------------
Responds(r) == running = r /\ running' = None /\ req'[r].stage = "idle"

\* Every file that a search or list_tables was to cover is reported exactly
\* once, as scanned or as skipped with its reason, however files change and
\* whatever other requests do to the cache while the handler awaits.
EveryTargetAccountedFor ==
    [][\A r \in Requests :
        Responds(r) /\ resp'[r].status = "ok" /\ req[r].tool \in Scanning =>
            /\ ToSet(req[r].scanned) \cup ToSet(req[r].skipped) = ToSet(req[r].files)
            /\ Len(req[r].scanned) + Len(req[r].skipped) = Len(req[r].files)]_serverVars

Queued(r) == {i \in DOMAIN jobs : jobs[i].req = r}
Worked(r) == {t \in Threads : work[t].req = r}
Waiting(r) == {i \in DOMAIN ready : ready[i] = r}

\* Each await hands over exactly one job and each job wakes exactly one task:
\* a task is on the loop, in the queue, or waiting for one job, never two.
OneJobPerWaitingTask ==
    \A r \in Requests :
        Cardinality(Queued(r)) + Cardinality(Worked(r)) + Cardinality(Waiting(r))
            + (IF running = r THEN 1 ELSE 0) = IF req[r].stage = "idle" THEN 0 ELSE 1

\* What each stage of a handler may rely on: which tool it runs, the argument
\* it needs, and that every file it was to cover is scanned, skipped or still
\* to do.
Accounted(q) ==
    /\ ToSet(q.scanned) \cup ToSet(q.skipped) \cup ToSet(q.todo) = ToSet(q.files)
    /\ Len(q.scanned) + Len(q.skipped) + Len(q.todo) = Len(q.files)
StageFacts(q) ==
    /\ q.stage # "idle" => q.tool # "none"
    /\ q.stage \in {"glob", "index"} => q.tool \in Listing
    /\ q.stage = "resolve" => q.tool \in Parsing \cup Unsupported \cup {"list_tables", "reload"}
    /\ q.stage = "size" => q.tool \in Parsing \cup Unsupported \cup {"list_tables"}
    /\ q.stage = "synthetic" => q.tool = "list_tables"
    /\ q.stage \in {"resolve", "size", "synthetic"} => q.arg # None
    /\ q.stage \in {"drop", "dropping"} => q.tool = "reload"
    /\ q.stage = "each" => q.tool \in Scanning
    /\ q.stage = "parsing" => q.tool \in Parsing \/ (q.tool \in Scanning /\ q.todo # <<>>)
    /\ q.stage = "matching" => q.tool \in {"search", "search_scripts"} /\ q.todo # <<>>
    /\ q.stage = "names" => q.tool \in {"search", "search_names"} /\ q.todo # <<>>
    /\ q.stage \in {"start", "glob", "index", "resolve", "size", "synthetic"} =>
          q.scanned = <<>> /\ q.skipped = <<>>
    /\ q.stage \in {"each", "parsing", "matching", "names"} /\ q.tool \in Scanning => Accounted(q)

\* Who holds what: a match runs where its task or job is, a reload keeps the
\* loop until the store has answered, and a thread has parsed only for a
\* lookup that missed.
Holds ==
    /\ \A r \in Requests : gil = r => running = r /\ req[r].stage = "names"
    /\ \A t \in Threads : gil = t => work[t].kind = "match"
    /\ \A r \in Requests : req[r].stage = "dropping" => running = r /\ asked /\ target = req[r].arg
    /\ \A t \in Threads : phase[t] # "idle" => want[t] \in Keys
    /\ \A t \in Threads : loaded[t] # NotLoaded => phase[t] = "missed"
    /\ \A t \in Threads : loaded[t].status = "ok" => loaded[t].meta \in Metas

\* In a degraded server nothing gets past dispatch.
Idles ==
    degraded =>
        /\ \A r \in Requests : req[r].stage \in {"idle", "start"}
        /\ \A t \in Threads : work[t] = NoJob /\ phase[t] = "idle" /\ loaded[t] = NotLoaded

\* A server that booted into a configuration error parses nothing, caches
\* nothing and tells every caller so.
DegradedAnswersOnly ==
    degraded =>
        /\ \A r \in Requests : resp[r].status \in {"none", "config_error"}
        /\ jobs = <<>> /\ lru = <<>>

\* The inductive invariant
ServerInvariant ==
    /\ OneJobPerWaitingTask
    /\ \A r \in Requests : StageFacts(req[r])
    /\ Holds
    /\ Idles
    /\ DegradedAnswersOnly

\* Provided that parses end, every request is answered.
EveryRequestAnswered ==
    PoolFair => \A r \in Requests : req[r].stage # "idle" ~> req[r].stage = "idle"

\* server.py off-loads parses "so the asyncio event loop stays responsive": a
\* request that needs no parse is answered even while parses never end.
LoopStaysResponsive ==
    \A r \in Requests :
        req[r].stage # "idle" /\ req[r].tool \in {"list_files", "reload"} \cup Unsupported
            ~> req[r].stage = "idle"

\* server.py runs the matcher off the loop "so one pathological regex can't
\* freeze every other concurrent MCP request".  They do freeze: the field and
\* table names are matched on the loop itself, and a match on another thread
\* holds the interpreter lock.
SlowMatchSparesOthers ==
    \A r \in Requests :
        req[r].stage # "idle" /\ req[r].tool \notin Searches ~> req[r].stage = "idle"
====
