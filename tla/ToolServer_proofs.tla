---- MODULE ToolServer_proofs ----
(***************************************************************************)
(* Theorems about ToolServer and its history, for any number of requests,  *)
(* executor threads and files.                                             *)
(***************************************************************************)
EXTENDS ServerHistory, OrderedDict_proofs, FiniteSetTheorems

----------------------------------------------------------------------------
(* How many entries of a queue are in T, and what Append and Tail change. *)

Among(s, T) == {i \in DOMAIN s : s[i] \in T}

LEMMA AmongFinite ==
    ASSUME NEW S, NEW s \in Seq(S), NEW T
    PROVE  IsFiniteSet(Among(s, T)) /\ Cardinality(Among(s, T)) \in Nat
<1>1. DOMAIN s = 1..Len(s) /\ Len(s) \in Nat
  OBVIOUS
<1>2. IsFiniteSet(1..Len(s))
  BY <1>1, FS_Interval
<1>3. Among(s, T) \in SUBSET (1..Len(s))
  BY <1>1 DEF Among
<1>4. IsFiniteSet(Among(s, T))
  BY <1>2, <1>3, FS_Subset
<1> QED
  BY <1>4, FS_CardinalityType

LEMMA AmongAppend ==
    ASSUME NEW S, NEW s \in Seq(S), NEW x \in S, NEW T
    PROVE  Cardinality(Among(Append(s, x), T)) =
               Cardinality(Among(s, T)) + (IF x \in T THEN 1 ELSE 0)
<1> DEFINE n == Len(s) + 1
<1>1. /\ DOMAIN s = 1..Len(s) /\ Len(s) \in Nat
      /\ DOMAIN Append(s, x) = 1..n
      /\ \A i \in 1..Len(s) : Append(s, x)[i] = s[i]
      /\ Append(s, x)[n] = x
  BY AppendProperties
<1>2. Among(Append(s, x), T) = IF x \in T THEN Among(s, T) \cup {n} ELSE Among(s, T)
  BY <1>1 DEF Among
<1>3. n \notin Among(s, T)
  BY <1>1 DEF Among
<1>4. IsFiniteSet(Among(s, T)) /\ Cardinality(Among(s, T)) \in Nat
  BY AmongFinite
<1> HIDE DEF n
<1>5. Cardinality(Among(s, T) \cup {n}) = Cardinality(Among(s, T)) + 1
  BY <1>3, <1>4, FS_AddElement
<1> QED
  BY <1>2, <1>4, <1>5

LEMMA AmongTail ==
    ASSUME NEW S, NEW s \in Seq(S), s # <<>>, NEW T
    PROVE  Cardinality(Among(Tail(s), T)) =
               Cardinality(Among(s, T)) - (IF Head(s) \in T THEN 1 ELSE 0)
<1> DEFINE A == Among(Tail(s), T)
           B == Among(s, T) \ {1}
           f == [i \in A |-> i + 1]
<1>1. /\ DOMAIN s = 1..Len(s) /\ Len(s) \in Nat \ {0} /\ Head(s) = s[1]
      /\ DOMAIN Tail(s) = 1..(Len(s) - 1)
      /\ \A i \in 1..(Len(s) - 1) : Tail(s)[i] = s[i + 1]
  BY HeadTailProperties
<1>2. ASSUME NEW j \in B
      PROVE  j - 1 \in A /\ (j - 1) + 1 = j
  <2>1. j \in 1..Len(s) /\ j # 1 /\ s[j] \in T
    BY <1>1 DEF Among
  <2>2. j - 1 \in 1..(Len(s) - 1) /\ (j - 1) + 1 = j
    BY <1>1, <2>1
  <2> QED
    BY <1>1, <2>1, <2>2 DEF Among
<1>3. ASSUME NEW i \in A
      PROVE  i \in Int /\ i + 1 \in B
  BY <1>1 DEF Among
<1> HIDE DEF A, B
<1>4. f \in Bijection(A, B)
  <2>1. f \in [A -> B]
    BY <1>3
  <2>2. \A i, j \in A : f[i] = f[j] => i = j
    BY <1>3
  <2>3. \A j \in B : \E i \in A : f[i] = j
    BY <1>2
  <2> QED
    BY <2>1, <2>2, <2>3 DEF Bijection, Injection, Surjection, IsInjective
<1>5. IsFiniteSet(A)
  <2>1. Tail(s) \in Seq(S)
    BY HeadTailProperties
  <2> QED
    BY <2>1, AmongFinite DEF A
<1>6. Cardinality(B) = Cardinality(A)
  BY <1>4, <1>5, FS_Bijection DEF ExistsBijection
<1>7. Cardinality(B) = Cardinality(Among(s, T)) - (IF Head(s) \in T THEN 1 ELSE 0)
  <2>1. IsFiniteSet(Among(s, T)) /\ Cardinality(Among(s, T)) \in Nat
    BY AmongFinite
  <2>2. 1 \in Among(s, T) <=> Head(s) \in T
    BY <1>1 DEF Among
  <2>3. Cardinality(Among(s, T) \ {1}) =
          IF 1 \in Among(s, T) THEN Cardinality(Among(s, T)) - 1 ELSE Cardinality(Among(s, T))
    BY <2>1, FS_RemoveElement
  <2> QED
    BY <2>1, <2>2, <2>3 DEF B
<1> QED
  BY <1>6, <1>7 DEF A

----------------------------------------------------------------------------
(* Where a request may be: in the executor's queue, with a thread, in the  *)
(* loop's queue.                                                           *)

JobsOf(r) == {j \in Jobs : j.req = r}

LEMMA JobsAmong ==
    ASSUME NEW s \in Seq(Jobs), NEW r
    PROVE  {i \in DOMAIN s : s[i].req = r} = Among(s, JobsOf(r))
<1>1. \A i \in DOMAIN s : s[i] \in Jobs
  OBVIOUS
<1> QED
  BY <1>1 DEF Among, JobsOf

LEMMA Places ==
    ASSUME ServerTypeOK, NEW r
    PROVE  /\ Queued(r) = Among(jobs, JobsOf(r))
           /\ Waiting(r) = Among(ready, {r})
BY JobsAmong DEF ServerTypeOK, Queued, Waiting, Among

LEMMA PlaceCounts ==
    ASSUME ServerTypeOK, NEW r
    PROVE  /\ Cardinality(Queued(r)) \in Nat /\ Cardinality(Waiting(r)) \in Nat
           /\ IsFiniteSet(Worked(r)) /\ Cardinality(Worked(r)) \in Nat
<1>1. jobs \in Seq(Jobs) /\ ready \in Seq(Requests)
  BY DEF ServerTypeOK
<1>2. Cardinality(Queued(r)) \in Nat /\ Cardinality(Waiting(r)) \in Nat
  BY <1>1, Places, AmongFinite
<1>3. IsFiniteSet(Worked(r))
  <2>1. Worked(r) \in SUBSET Threads
    BY DEF Worked
  <2> QED
    BY <2>1, FiniteAssumption, FS_Subset
<1> QED
  BY <1>2, <1>3, FS_CardinalityType

LEMMA JobAppended ==
    ASSUME ServerTypeOK, NEW x \in Jobs, jobs' = Append(jobs, x), NEW r
    PROVE  Cardinality(Queued(r)') = Cardinality(Queued(r)) + (IF x.req = r THEN 1 ELSE 0)
<1>1. Queued(r)' = Among(jobs', JobsOf(r)) /\ Queued(r) = Among(jobs, JobsOf(r))
  <2>1. jobs \in Seq(Jobs) /\ jobs' \in Seq(Jobs)
    BY DEF ServerTypeOK
  <2> QED
    BY <2>1, JobsAmong DEF Queued
<1>2. jobs \in Seq(Jobs)
  BY DEF ServerTypeOK
<1>3. x \in JobsOf(r) <=> x.req = r
  BY DEF JobsOf
<1> QED
  BY <1>1, <1>2, <1>3, AmongAppend

LEMMA JobTaken ==
    ASSUME ServerTypeOK, jobs # <<>>, jobs' = Tail(jobs), NEW r
    PROVE  Cardinality(Queued(r)') = Cardinality(Queued(r)) - (IF Head(jobs).req = r THEN 1 ELSE 0)
<1>1. Queued(r)' = Among(jobs', JobsOf(r)) /\ Queued(r) = Among(jobs, JobsOf(r))
  <2>1. jobs \in Seq(Jobs) /\ jobs' \in Seq(Jobs)
    BY DEF ServerTypeOK
  <2> QED
    BY <2>1, JobsAmong DEF Queued
<1>2. jobs \in Seq(Jobs) /\ Head(jobs) \in Jobs
  BY DEF ServerTypeOK
<1>3. Head(jobs) \in JobsOf(r) <=> Head(jobs).req = r
  BY <1>2 DEF JobsOf
<1> QED
  BY <1>1, <1>2, <1>3, AmongTail

LEMMA ReadyAppended ==
    ASSUME ServerTypeOK, NEW x \in Requests, ready' = Append(ready, x), NEW r
    PROVE  Cardinality(Waiting(r)') = Cardinality(Waiting(r)) + (IF x = r THEN 1 ELSE 0)
<1>1. Waiting(r)' = Among(ready', {r}) /\ Waiting(r) = Among(ready, {r})
  BY DEF Waiting, Among
<1>2. ready \in Seq(Requests)
  BY DEF ServerTypeOK
<1>3. x \in {r} <=> x = r
  OBVIOUS
<1> QED
  BY <1>1, <1>2, <1>3, AmongAppend

LEMMA ReadyTaken ==
    ASSUME ServerTypeOK, ready # <<>>, ready' = Tail(ready), NEW r
    PROVE  Cardinality(Waiting(r)') = Cardinality(Waiting(r)) - (IF Head(ready) = r THEN 1 ELSE 0)
<1>1. Waiting(r)' = Among(ready', {r}) /\ Waiting(r) = Among(ready, {r})
  BY DEF Waiting, Among
<1>2. ready \in Seq(Requests)
  BY DEF ServerTypeOK
<1>3. Head(ready) \in {r} <=> Head(ready) = r
  OBVIOUS
<1> QED
  BY <1>1, <1>2, <1>3, AmongTail

LEMMA WorkTaken ==
    ASSUME ServerTypeOK, NEW t \in Threads, work[t] = NoJob, NEW x \in Jobs,
           work' = [work EXCEPT ![t] = x], NEW r \in Requests
    PROVE  Cardinality(Worked(r)') = Cardinality(Worked(r)) + (IF x.req = r THEN 1 ELSE 0)
<1>1. t \notin Worked(r)
  BY ServerNoneAssumption DEF Worked, NoJob
<1>2. Worked(r)' = IF x.req = r THEN Worked(r) \cup {t} ELSE Worked(r)
  <2>1. work'[t] = x /\ \A u \in Threads \ {t} : work'[u] = work[u]
    BY DEF ServerTypeOK
  <2> QED
    BY <1>1, <2>1 DEF Worked
<1>3. IsFiniteSet(Worked(r)) /\ Cardinality(Worked(r)) \in Nat
  BY PlaceCounts
<1>4. Cardinality(Worked(r) \cup {t}) = Cardinality(Worked(r)) + 1
  BY <1>1, <1>3, FS_AddElement
<1> QED
  BY <1>2, <1>3, <1>4

LEMMA WorkDone ==
    ASSUME ServerTypeOK, NEW t \in Threads, work[t] \in Jobs,
           work' = [work EXCEPT ![t] = NoJob], NEW r \in Requests
    PROVE  Cardinality(Worked(r)') = Cardinality(Worked(r)) - (IF work[t].req = r THEN 1 ELSE 0)
<1>1. t \in Worked(r) <=> work[t].req = r
  BY DEF Worked
<1>2. Worked(r)' = Worked(r) \ {t}
  <2>1. work'[t] = NoJob /\ \A u \in Threads \ {t} : work'[u] = work[u]
    BY DEF ServerTypeOK
  <2>2. NoJob.req # r
    BY ServerNoneAssumption DEF NoJob
  <2> QED
    BY <2>1, <2>2 DEF Worked
<1>3. IsFiniteSet(Worked(r)) /\ Cardinality(Worked(r)) \in Nat
  BY PlaceCounts
<1>4. Cardinality(Worked(r) \ {t}) =
        IF t \in Worked(r) THEN Cardinality(Worked(r)) - 1 ELSE Cardinality(Worked(r))
  BY <1>3, FS_RemoveElement
<1> QED
  BY <1>1, <1>2, <1>3, <1>4

----------------------------------------------------------------------------
(* Types *)

\* What glob lists is a sequence of files.
LEMMA ListedType ==
    ASSUME NEW S \in SUBSET Keys
    PROVE  SetToSeq(S) \in Seq(Keys)
<1>1. IsFiniteSet(S)
  BY FiniteAssumption, FS_Subset
<1>2. Cardinality(S) \in Nat /\ ExistsBijection(1..Cardinality(S), S)
  BY <1>1, FS_CardinalityType
<1>3. \E f \in [1..Cardinality(S) -> S] : IsInjective(f)
  BY <1>2 DEF ExistsBijection, Bijection, Injection
<1>4. SetToSeq(S) \in [1..Cardinality(S) -> S]
  BY <1>3 DEF SetToSeq
<1> QED
  BY <1>2, <1>4

LEMMA ChosenType ==
    ASSUME ServerTypeOK, NEW r \in Requests
    PROVE  Chosen(r) \in Seq(Keys)
<1>1. req[r].files \in Seq(Keys)
  BY DEF ServerTypeOK, Locals
<1>2. \A k \in ToSet(req[r].files) : k \in Keys
  BY <1>1 DEF ToSet
<1> QED
  BY <1>1, <1>2 DEF Chosen

LEMMA LocalsTypes ==
    ASSUME NEW q \in Locals
    PROVE  /\ \A s \in Stages : [q EXCEPT !.stage = s] \in Locals
           /\ \A s \in Stages, f \in Seq(Keys) :
                [q EXCEPT !.stage = s, !.files = f, !.todo = f] \in Locals
           /\ \A x \in Results : [q EXCEPT !.result = x] \in Locals
           /\ \A s \in Stages, x \in Results : [q EXCEPT !.stage = s, !.result = x] \in Locals
           /\ q.todo # <<>> =>
                /\ Head(q.todo) \in Keys
                /\ [q EXCEPT !.todo = Tail(@)] \in Locals
                /\ [q EXCEPT !.stage = "each", !.todo = Tail(@),
                             !.skipped = Append(@, Head(q.todo))] \in Locals
                /\ [q EXCEPT !.stage = "each", !.todo = Tail(@),
                             !.scanned = Append(@, Head(q.todo))] \in Locals
<1>1. q.todo \in Seq(Keys) /\ q.skipped \in Seq(Keys) /\ q.scanned \in Seq(Keys)
  BY DEF Locals
<1>2. ASSUME q.todo # <<>>
      PROVE  /\ Head(q.todo) \in Keys /\ Tail(q.todo) \in Seq(Keys)
             /\ Append(q.skipped, Head(q.todo)) \in Seq(Keys)
             /\ Append(q.scanned, Head(q.todo)) \in Seq(Keys)
  BY <1>1, <1>2
<1>3. "each" \in Stages
  BY DEF Stages
<1> QED
  BY <1>2, <1>3 DEF Locals

LEMMA IdleType == Idle \in Locals
BY DEF Idle, Locals, Stages, NotLoaded, Results

\* What the loop's steps do to the types, by what becomes of the handler
LEMMA StepTypes ==
    ASSUME ServerTypeOK, NEW r \in Requests, NEW q \in Locals, Step(r, q),
           UNCHANGED <<contractVars, fileVars, poolVars>>
    PROVE  ServerTypeOK'
BY DEF ServerTypeOK, Step, contractVars, invalidation, fileVars, poolVars

LEMMA AnswerTypes ==
    ASSUME ServerTypeOK, NEW r \in Requests, NEW s \in Codes, NEW m \in Metas \cup {NoMeta},
           Answered(r, s, m), UNCHANGED <<contractVars, fileVars, poolVars>>
    PROVE  ServerTypeOK'
<1>1. req' \in [Requests -> Locals]
  BY IdleType DEF ServerTypeOK, Answered
<1>2. resp' \in [Requests -> [status : Codes, meta : Metas \cup {NoMeta}]]
  BY DEF ServerTypeOK, Answered
<1> QED
  BY <1>1, <1>2 DEF ServerTypeOK, Answered, contractVars, invalidation, fileVars, poolVars

LEMMA AwaitTypes ==
    ASSUME ServerTypeOK, NEW r \in Requests, NEW kind \in {"parse", "match"}, NEW k \in Keys,
           NEW s \in Stages, Await(r, kind, k, s), UNCHANGED <<contractVars, fileVars>>
    PROVE  ServerTypeOK'
<1>1. req' \in [Requests -> Locals]
  <2>1. /\ req' = [req EXCEPT ![r] = [req[r] EXCEPT !.stage = s, !.result = NotLoaded]]
        /\ req[r] \in Locals
    BY DEF Await, ServerTypeOK
  <2>2. NotLoaded \in Results
    BY DEF NotLoaded, Results
  <2> QED
    BY <2>1, <2>2, LocalsTypes DEF ServerTypeOK
<1>2. jobs' \in Seq(Jobs)
  <2>1. [req |-> r, kind |-> kind, key |-> k] \in Jobs
    BY DEF Jobs
  <2> QED
    BY <2>1 DEF ServerTypeOK, Await
<1> QED
  BY <1>1, <1>2 DEF ServerTypeOK, Await, contractVars, invalidation, fileVars

----------------------------------------------------------------------------
(* The inductive invariant.  A handler's step is of one of three shapes:   *)
(* it goes on, it answers, or it awaits a job.                             *)

ServerSafe == ServerTypeOK /\ ServerInvariant

\* The task on the loop is nowhere else.
LEMMA RunningAlone ==
    ASSUME ServerSafe, NEW r \in Requests, running = r
    PROVE  /\ req[r].stage # "idle"
           /\ Cardinality(Queued(r)) = 0 /\ Cardinality(Worked(r)) = 0
           /\ Cardinality(Waiting(r)) = 0
<1>1. /\ Cardinality(Queued(r)) \in Nat /\ Cardinality(Worked(r)) \in Nat
      /\ Cardinality(Waiting(r)) \in Nat
  BY PlaceCounts DEF ServerSafe
<1>2. Cardinality(Queued(r)) + Cardinality(Worked(r)) + Cardinality(Waiting(r)) + 1 =
        IF req[r].stage = "idle" THEN 0 ELSE 1
  BY DEF ServerSafe, ServerInvariant, OneJobPerWaitingTask
<1> QED
  BY <1>1, <1>2

LEMMA PastDispatch ==
    ASSUME ServerSafe, NEW r \in Requests, req[r].stage \notin {"idle", "start"}
    PROVE  ~degraded
BY DEF ServerSafe, ServerInvariant, Idles

LEMMA GoesOn ==
    ASSUME ServerSafe, NEW r \in Requests, Runs, running = r, ~degraded,
           NEW q \in Locals, Step(r, q), q.stage \notin {"idle", "dropping"}, StageFacts(q),
           UNCHANGED <<contractVars, fileVars, poolVars>>
    PROVE  ServerSafe'
<1>1. ServerTypeOK'
  BY StepTypes DEF ServerSafe
<1>2. /\ req'[r] = q /\ \A u \in Requests \ {r} : req'[u] = req[u]
      /\ UNCHANGED <<ready, running, resp, jobs, work, loaded, gil, degraded,
                     lru, phase, want, asked, target>>
  BY DEF ServerSafe, ServerTypeOK, Step, contractVars, invalidation, fileVars, poolVars
<1>3. OneJobPerWaitingTask'
  <2>1. \A u \in Requests : /\ Queued(u)' = Queued(u) /\ Worked(u)' = Worked(u)
                            /\ Waiting(u)' = Waiting(u)
    BY <1>2 DEF Queued, Worked, Waiting
  <2>2. req[r].stage # "idle" /\ req'[r].stage # "idle"
    BY <1>2, RunningAlone
  <2> QED
    BY <1>2, <2>1, <2>2 DEF ServerSafe, ServerInvariant, OneJobPerWaitingTask
<1>4. \A u \in Requests : StageFacts(req'[u])
  BY <1>2 DEF ServerSafe, ServerInvariant
<1>5. Holds'
  BY <1>2, ServerNoneAssumption DEF ServerSafe, ServerInvariant, Holds, Runs
<1>6. Idles' /\ DegradedAnswersOnly'
  BY <1>2 DEF Idles, DegradedAnswersOnly
<1> QED
  BY <1>1, <1>3, <1>4, <1>5, <1>6 DEF ServerSafe, ServerInvariant

LEMMA IdleFacts == Idle.stage = "idle" /\ StageFacts(Idle)
BY DEF Idle, StageFacts

LEMMA Answers ==
    ASSUME ServerSafe, NEW r \in Requests, Runs, running = r,
           NEW s \in Codes, NEW m \in Metas \cup {NoMeta}, Answered(r, s, m),
           degraded => s = "config_error", UNCHANGED <<contractVars, fileVars, poolVars>>
    PROVE  ServerSafe'
<1>1. ServerTypeOK'
  BY AnswerTypes DEF ServerSafe
<1>2. /\ req'[r] = Idle /\ (\A u \in Requests \ {r} : req'[u] = req[u])
      /\ resp'[r].status = s /\ (\A u \in Requests \ {r} : resp'[u] = resp[u])
      /\ running' = None
      /\ UNCHANGED <<ready, jobs, work, loaded, gil, degraded, lru, phase, want, asked, target>>
  BY DEF ServerSafe, ServerTypeOK, Answered, contractVars, invalidation, fileVars, poolVars
<1>3. OneJobPerWaitingTask'
  <2>1. \A u \in Requests : /\ Queued(u)' = Queued(u) /\ Worked(u)' = Worked(u)
                            /\ Waiting(u)' = Waiting(u)
    BY <1>2 DEF Queued, Worked, Waiting
  <2>2. /\ Cardinality(Queued(r)) = 0 /\ Cardinality(Worked(r)) = 0
        /\ Cardinality(Waiting(r)) = 0
    BY RunningAlone
  <2>3. \A u \in Requests \ {r} : running # u /\ running' # u
    BY <1>2, ServerNoneAssumption
  <2> QED
    BY <1>2, <2>1, <2>2, <2>3, IdleFacts, ServerNoneAssumption
       DEF ServerSafe, ServerInvariant, OneJobPerWaitingTask
<1>4. \A u \in Requests : StageFacts(req'[u])
  BY <1>2, IdleFacts DEF ServerSafe, ServerInvariant
<1>5. Holds'
  BY <1>2, IdleFacts, ServerNoneAssumption DEF ServerSafe, ServerInvariant, Holds, Runs
<1>6. Idles' /\ DegradedAnswersOnly'
  BY <1>2, IdleFacts DEF ServerSafe, ServerInvariant, Idles, DegradedAnswersOnly
<1> QED
  BY <1>1, <1>3, <1>4, <1>5, <1>6 DEF ServerSafe, ServerInvariant

LEMMA Awaits ==
    ASSUME ServerSafe, NEW r \in Requests, Runs, running = r, ~degraded,
           NEW kind \in {"parse", "match"}, NEW k \in Keys, NEW s \in {"parsing", "matching"},
           Await(r, kind, k, s), StageFacts([req[r] EXCEPT !.stage = s]),
           UNCHANGED <<contractVars, fileVars>>
    PROVE  ServerSafe'
<1> DEFINE job == [req |-> r, kind |-> kind, key |-> k]
<1>1. ServerTypeOK'
  BY AwaitTypes DEF ServerSafe, Stages
<1>2. /\ req'[r] = [req[r] EXCEPT !.stage = s, !.result = NotLoaded] /\ req'[r].stage = s
      /\ \A u \in Requests \ {r} : req'[u] = req[u]
      /\ running' = None
      /\ UNCHANGED <<ready, resp, work, loaded, gil, degraded, lru, phase, want, asked, target>>
  BY DEF ServerSafe, ServerTypeOK, Locals, Await, contractVars, invalidation, fileVars
<1>3. OneJobPerWaitingTask'
  <2>1. \A u \in Requests : Worked(u)' = Worked(u) /\ Waiting(u)' = Waiting(u)
    BY <1>2 DEF Worked, Waiting
  <2>2. /\ Cardinality(Queued(r)) = 0 /\ Cardinality(Worked(r)) = 0
        /\ Cardinality(Waiting(r)) = 0
    BY RunningAlone
  <2>3. \A u \in Requests :
          Cardinality(Queued(u)') = Cardinality(Queued(u)) + (IF r = u THEN 1 ELSE 0)
    <3>1. job \in Jobs /\ job.req = r /\ jobs' = Append(jobs, job)
      BY DEF Jobs, Await
    <3> HIDE DEF job
    <3> QED
      BY <3>1, JobAppended DEF ServerSafe
  <2>4. \A u \in Requests \ {r} : running # u /\ running' # u
    BY <1>2, ServerNoneAssumption
  <2>5. \A u \in Requests : Cardinality(Queued(u)) \in Nat
    BY PlaceCounts DEF ServerSafe
  <2>6. r # None
    BY ServerNoneAssumption
  <2>7. ASSUME NEW u \in Requests
        PROVE  Cardinality(Queued(u)') + Cardinality(Worked(u)') + Cardinality(Waiting(u)')
                 + (IF running' = u THEN 1 ELSE 0) = IF req'[u].stage = "idle" THEN 0 ELSE 1
    <3>1. CASE u = r
      <4>1. Cardinality(Queued(r)') = 1
        BY <2>2, <2>3
      <4>2. Cardinality(Worked(r)') = 0 /\ Cardinality(Waiting(r)') = 0
        BY <2>1, <2>2
      <4>3. running' # r /\ req'[r].stage # "idle"
        BY <1>2, <2>6
      <4> QED
        BY <3>1, <4>1, <4>2, <4>3
    <3>2. CASE u # r
      <4>1. Cardinality(Queued(u)') = Cardinality(Queued(u))
        BY <2>3, <2>5, <3>2
      <4>2. (running' = u) = (running = u) /\ req'[u].stage = req[u].stage
        BY <1>2, <2>4, <3>2
      <4> QED
        BY <2>1, <4>1, <4>2 DEF ServerSafe, ServerInvariant, OneJobPerWaitingTask
    <3> QED
      BY <3>1, <3>2
  <2> QED
    BY <2>7 DEF OneJobPerWaitingTask
<1>4. \A u \in Requests : StageFacts(req'[u])
  <2>1. StageFacts(req'[r])
    <3> DEFINE p == [req[r] EXCEPT !.stage = s]
    <3>1. /\ req'[r].stage = p.stage /\ req'[r].tool = p.tool /\ req'[r].arg = p.arg
          /\ req'[r].todo = p.todo /\ req'[r].files = p.files
          /\ req'[r].scanned = p.scanned /\ req'[r].skipped = p.skipped
      BY <1>2 DEF ServerSafe, ServerTypeOK, Locals
    <3>2. StageFacts(p)
      OBVIOUS
    <3> HIDE DEF p
    <3>3. Accounted(req'[r]) <=> Accounted(p)
      BY <3>1 DEF Accounted
    <3> QED
      BY <3>1, <3>2, <3>3 DEF StageFacts
  <2> QED
    BY <1>2, <2>1 DEF ServerSafe, ServerInvariant
<1>5. Holds'
  <2>1. Holds /\ gil' = None
    BY <1>2 DEF ServerSafe, ServerInvariant, Runs
  <2>2. \A u \in Requests : req'[u].stage # "dropping"
    BY <1>2, <2>1 DEF Holds
  <2> QED
    BY <1>2, <2>1, <2>2, ServerNoneAssumption DEF Holds
<1>6. Idles' /\ DegradedAnswersOnly'
  BY <1>2 DEF Idles, DegradedAnswersOnly
<1> QED
  BY <1>1, <1>3, <1>4, <1>5, <1>6 DEF ServerSafe, ServerInvariant

----------------------------------------------------------------------------
(* The steps of the loop, one by one *)

\* What a step of r's handler may start from
LEMMA HandlerFacts ==
    ASSUME ServerSafe, NEW r \in Requests, NEW stage, OnLoop(r, stage)
    PROVE  /\ Runs /\ running = r /\ req[r].stage = stage
           /\ req[r] \in Locals /\ StageFacts(req[r])
           /\ stage \notin {"idle", "start"} => ~degraded
BY PastDispatch DEF OnLoop, ServerSafe, ServerInvariant, ServerTypeOK

LEMMA Responds2 ==
    ASSUME ServerSafe, NEW r \in Requests, NEW stage, OnLoop(r, stage), NEW s \in Codes,
           Respond(r, s), degraded => s = "config_error",
           UNCHANGED <<contractVars, fileVars, poolVars>>
    PROVE  ServerSafe'
BY HandlerFacts, Answers DEF Respond

LEMMA DispatchSafe ==
    ASSUME ServerSafe, NEW r \in Requests, Dispatch(r)
    PROVE  ServerSafe'
<1> DEFINE tool == req[r].tool
           next == CASE tool \in Listing -> "glob"
                     [] tool = "reload" /\ req[r].arg = None -> "drop"
                     [] OTHER -> "resolve"
           q == [req[r] EXCEPT !.stage = next]
<1>1. OnLoop(r, "start") /\ UNCHANGED <<contractVars, fileVars, poolVars>>
  BY DEF Dispatch
<1>2. /\ Runs /\ running = r /\ req[r].stage = "start"
      /\ req[r] \in Locals /\ StageFacts(req[r])
  BY <1>1, HandlerFacts
<1>3. CASE \E s \in {"config_error", "internal", "input"} :
             Respond(r, s) /\ (degraded => s = "config_error")
  BY <1>1, <1>3, Responds2 DEF Codes
<1>4. CASE ~degraded /\ tool # "unknown" /\ tool # "search_invalid" /\ Step(r, q)
           /\ ~(tool \in Parsing \cup Unsupported /\ req[r].arg = None)
  <2>1. tool \in Listing \cup Parsing \cup Unsupported \cup {"reload"}
    <3>1. tool \in Tools
      BY <1>2 DEF Locals, StageFacts
    <3> QED
      BY <1>4, <3>1, ToolsAssumption
  <2>2. /\ next \in {"glob", "drop", "resolve"}
        /\ next = "glob" => tool \in Listing
        /\ next = "drop" => tool = "reload"
        /\ next = "resolve" => tool \in Parsing \cup Unsupported \cup {"reload"} /\ req[r].arg # None
    BY <1>4, <2>1 DEF Listing, Scanning, Parsing, Unsupported
  <2>3. req[r].scanned = <<>> /\ req[r].skipped = <<>> /\ tool # "none"
    BY <1>2 DEF StageFacts
  <2> HIDE DEF next
  <2>4. /\ q \in Locals /\ q.stage = next /\ q.tool = tool /\ q.arg = req[r].arg
        /\ q.scanned = req[r].scanned /\ q.skipped = req[r].skipped
    <3>1. next \in Stages
      BY <2>2 DEF Stages
    <3>2. q \in Locals
      BY <1>2, <3>1, LocalsTypes
    <3> QED
      BY <1>2, <3>2 DEF Locals
  <2> HIDE DEF q, tool
  <2>5. StageFacts(q)
    BY <2>2, <2>3, <2>4 DEF StageFacts
  <2>6. q.stage \notin {"idle", "dropping"}
    BY <2>2, <2>4
  <2> QED
    BY <1>1, <1>2, <1>4, <2>4, <2>5, <2>6, GoesOn
<1> QED
  BY <1>3, <1>4 DEF Dispatch

LEMMA GlobSafe ==
    ASSUME ServerSafe, NEW r \in Requests, Glob(r)
    PROVE  ServerSafe'
<1> DEFINE found == SetToSeq({k \in Keys : Listed(k)})
           q == [req[r] EXCEPT !.stage = "index", !.files = found, !.todo = found]
<1>1. /\ OnLoop(r, "glob") /\ Step(r, q)
      /\ UNCHANGED <<contractVars, fileVars, poolVars>>
  BY DEF Glob
<1>2. /\ Runs /\ running = r /\ req[r].stage = "glob" /\ ~degraded
      /\ req[r] \in Locals /\ StageFacts(req[r])
  BY <1>1, HandlerFacts
<1>3. found \in Seq(Keys)
  BY ListedType
<1> HIDE DEF found
<1>4. q \in Locals
  BY <1>2, <1>3, LocalsTypes DEF Stages
<1>5. /\ q.stage = "index" /\ q.tool = req[r].tool
      /\ q.scanned = req[r].scanned /\ q.skipped = req[r].skipped
  BY <1>2 DEF Locals
<1> HIDE DEF q
<1>6. StageFacts(q)
  BY <1>2, <1>5 DEF StageFacts
<1> QED
  BY <1>1, <1>2, <1>4, <1>5, <1>6, GoesOn

LEMMA IndexSafe ==
    ASSUME ServerSafe, NEW r \in Requests, Index(r)
    PROVE  ServerSafe'
<1> DEFINE q == [req[r] EXCEPT !.todo = Tail(@)]
<1>1. OnLoop(r, "index") /\ req[r].todo # <<>> /\ UNCHANGED <<contractVars, fileVars, poolVars>>
  BY DEF Index
<1>2. /\ Runs /\ running = r /\ req[r].stage = "index" /\ ~degraded
      /\ req[r] \in Locals /\ StageFacts(req[r])
  BY <1>1, HandlerFacts
<1>3. CASE Respond(r, "qvw_dir_unreadable")
  BY <1>1, <1>2, <1>3, Responds2 DEF Codes
<1>4. CASE Step(r, q)
  <2>1. q \in Locals
    BY <1>1, <1>2, LocalsTypes
  <2>2. /\ q.stage = "index" /\ q.tool = req[r].tool
        /\ q.scanned = req[r].scanned /\ q.skipped = req[r].skipped
    BY <1>2 DEF Locals
  <2> HIDE DEF q
  <2>3. StageFacts(q)
    BY <1>2, <2>2 DEF StageFacts
  <2> QED
    BY <1>1, <1>2, <1>4, <2>1, <2>2, <2>3, GoesOn
<1> QED
  BY <1>3, <1>4 DEF Index

\* No target is lost or reported twice.
LEMMA AccountedStart ==
    ASSUME NEW q \in Locals, q.scanned = <<>>, q.skipped = <<>>, q.todo = q.files
    PROVE  Accounted(q)
<1>1. ToSet(<<>>) = {} /\ Len(<<>>) = 0
  BY DEF ToSet
<1>2. Len(q.files) \in Nat
  BY DEF Locals
<1> QED
  BY <1>1, <1>2 DEF Accounted

LEMMA ToSetSteps ==
    ASSUME NEW S, NEW s \in Seq(S)
    PROVE  /\ \A x \in S : ToSet(Append(s, x)) = ToSet(s) \cup {x} /\ Len(Append(s, x)) = Len(s) + 1
           /\ s # <<>> => /\ ToSet(s) = {Head(s)} \cup ToSet(Tail(s))
                          /\ Len(Tail(s)) = Len(s) - 1
<1>1. ASSUME NEW x \in S
      PROVE  ToSet(Append(s, x)) = ToSet(s) \cup {x} /\ Len(Append(s, x)) = Len(s) + 1
  <2>1. /\ DOMAIN s = 1..Len(s) /\ DOMAIN Append(s, x) = 1..(Len(s) + 1) /\ Len(s) \in Nat
        /\ \A i \in 1..Len(s) : Append(s, x)[i] = s[i]
        /\ Append(s, x)[Len(s) + 1] = x /\ Len(Append(s, x)) = Len(s) + 1
    BY AppendProperties
  <2>2. \A i \in DOMAIN s : i \in DOMAIN Append(s, x) /\ Append(s, x)[i] = s[i]
    BY <2>1
  <2>3. Len(s) + 1 \in DOMAIN Append(s, x)
    BY <2>1
  <2>4. \A i \in DOMAIN Append(s, x) : i \in DOMAIN s \/ i = Len(s) + 1
    BY <2>1
  <2> QED
    BY <2>1, <2>2, <2>3, <2>4 DEF ToSet
<1>2. ASSUME s # <<>>
      PROVE  ToSet(s) = {Head(s)} \cup ToSet(Tail(s)) /\ Len(Tail(s)) = Len(s) - 1
  <2>1. /\ DOMAIN s = 1..Len(s) /\ Len(s) \in Nat \ {0} /\ Head(s) = s[1]
        /\ Len(Tail(s)) = Len(s) - 1 /\ DOMAIN Tail(s) = 1..(Len(s) - 1)
        /\ \A i \in 1..(Len(s) - 1) : Tail(s)[i] = s[i + 1]
    BY <1>2, HeadTailProperties
  <2>2. \A i \in DOMAIN Tail(s) : i + 1 \in DOMAIN s /\ Tail(s)[i] = s[i + 1]
    BY <2>1
  <2>3. \A j \in DOMAIN s : j = 1 \/ \E i \in DOMAIN Tail(s) : Tail(s)[i] = s[j]
    <3> TAKE j \in DOMAIN s
    <3>1. CASE j # 1
      <4>1. j - 1 \in 1..(Len(s) - 1) /\ (j - 1) + 1 = j
        BY <2>1, <3>1
      <4> QED
        BY <2>1, <4>1
    <3> QED
      BY <3>1
  <2>4. 1 \in DOMAIN s
    BY <2>1
  <2> QED
    BY <2>1, <2>2, <2>3, <2>4 DEF ToSet
<1> QED
  BY <1>1, <1>2

LEMMA OneMoves ==
    ASSUME NEW a \in Nat, NEW b \in Nat, NEW c \in Nat
    PROVE  a + (b + 1) + (c - 1) = a + b + c /\ (a + 1) + b + (c - 1) = a + b + c
OBVIOUS

LEMMA AccountedSteps ==
    ASSUME NEW q \in Locals, Accounted(q), q.todo # <<>>, NEW p \in Locals,
           p.files = q.files, p.todo = Tail(q.todo),
           \/ p.skipped = Append(q.skipped, Head(q.todo)) /\ p.scanned = q.scanned
           \/ p.scanned = Append(q.scanned, Head(q.todo)) /\ p.skipped = q.skipped
    PROVE  Accounted(p)
<1> DEFINE h == Head(q.todo)
<1>1. /\ q.todo \in Seq(Keys) /\ q.skipped \in Seq(Keys) /\ q.scanned \in Seq(Keys)
      /\ q.files \in Seq(Keys) /\ h \in Keys
  BY LocalsTypes DEF Locals
<1>2. /\ ToSet(Append(q.skipped, h)) = ToSet(q.skipped) \cup {h}
      /\ ToSet(Append(q.scanned, h)) = ToSet(q.scanned) \cup {h}
      /\ ToSet(q.todo) = {h} \cup ToSet(Tail(q.todo))
  BY <1>1, ToSetSteps
<1>3. /\ Len(Append(q.skipped, h)) = Len(q.skipped) + 1
      /\ Len(Append(q.scanned, h)) = Len(q.scanned) + 1
      /\ Len(Tail(q.todo)) = Len(q.todo) - 1
      /\ Len(q.skipped) \in Nat /\ Len(q.scanned) \in Nat /\ Len(q.todo) \in Nat
  BY <1>1, ToSetSteps
<1> HIDE DEF h
<1>4. ToSet(p.scanned) \cup ToSet(p.skipped) \cup ToSet(p.todo) = ToSet(p.files)
  BY <1>2 DEF Accounted, h
<1>5. Len(p.scanned) + Len(p.skipped) + Len(p.todo) = Len(p.files)
  <2>1. Len(q.scanned) + Len(q.skipped) + Len(q.todo) = Len(q.files)
    BY DEF Accounted
  <2>2. /\ Len(q.scanned) + (Len(q.skipped) + 1) + (Len(q.todo) - 1) = Len(q.files)
        /\ (Len(q.scanned) + 1) + Len(q.skipped) + (Len(q.todo) - 1) = Len(q.files)
    BY <1>3, <2>1, OneMoves
  <2>3. CASE p.skipped = Append(q.skipped, h) /\ p.scanned = q.scanned
    BY <1>3, <2>2, <2>3
  <2>4. CASE p.scanned = Append(q.scanned, h) /\ p.skipped = q.skipped
    BY <1>3, <2>2, <2>4
  <2> QED
    BY <2>3, <2>4 DEF h
<1> QED
  BY <1>4, <1>5 DEF Accounted

LEMMA IndexedSafe ==
    ASSUME ServerSafe, NEW r \in Requests, Indexed(r)
    PROVE  ServerSafe'
<1>1. OnLoop(r, "index") /\ UNCHANGED <<contractVars, fileVars, poolVars>>
  BY DEF Indexed
<1>2. /\ Runs /\ running = r /\ req[r].stage = "index" /\ ~degraded
      /\ req[r] \in Locals /\ StageFacts(req[r])
  BY <1>1, HandlerFacts
<1>3. CASE Respond(r, "ok")
  BY <1>1, <1>2, <1>3, Responds2 DEF Codes
<1>4. CASE /\ req[r].tool = "list_tables" /\ req[r].arg # None
           /\ Step(r, [req[r] EXCEPT !.stage = "resolve"])
  <2> DEFINE q == [req[r] EXCEPT !.stage = "resolve"]
  <2>1. q \in Locals
    BY <1>2, LocalsTypes DEF Stages
  <2>2. /\ q.stage = "resolve" /\ q.tool = req[r].tool /\ q.arg = req[r].arg
        /\ q.scanned = req[r].scanned /\ q.skipped = req[r].skipped
    BY <1>2 DEF Locals
  <2>3. Step(r, q)
    BY <1>4
  <2> HIDE DEF q
  <2>4. StageFacts(q)
    BY <1>2, <1>4, <2>2 DEF StageFacts
  <2> QED
    BY <1>1, <1>2, <2>1, <2>2, <2>3, <2>4, GoesOn
<1>5. CASE /\ req[r].tool # "list_files"
           /\ Step(r, [req[r] EXCEPT !.stage = "each", !.files = Chosen(r), !.todo = Chosen(r)])
  <2> DEFINE q == [req[r] EXCEPT !.stage = "each", !.files = Chosen(r), !.todo = Chosen(r)]
  <2>1. q \in Locals
    <3>1. Chosen(r) \in Seq(Keys)
      BY ChosenType DEF ServerSafe
    <3> QED
      BY <1>2, <3>1, LocalsTypes DEF Stages
  <2>2. /\ q.stage = "each" /\ q.tool = req[r].tool /\ q.todo = q.files
        /\ q.scanned = req[r].scanned /\ q.skipped = req[r].skipped
    BY <1>2 DEF Locals
  <2>3. Step(r, q)
    BY <1>5
  <2> HIDE DEF q
  <2>4. q.scanned = <<>> /\ q.skipped = <<>> /\ req[r].tool \in Listing /\ req[r].tool # "none"
    BY <1>2, <2>2 DEF StageFacts
  <2>5. Accounted(q)
    BY <2>1, <2>2, <2>4, AccountedStart
  <2>6. StageFacts(q)
    BY <1>5, <2>2, <2>4, <2>5 DEF StageFacts, Listing
  <2> QED
    BY <1>1, <1>2, <2>1, <2>2, <2>3, <2>6, GoesOn
<1> QED
  BY <1>3, <1>4, <1>5 DEF Indexed

\* What is left when only the stage changes
LEMMA StageMoves ==
    ASSUME NEW q \in Locals, NEW s \in Stages, NEW p, p = [q EXCEPT !.stage = s]
    PROVE  /\ p \in Locals /\ p.stage = s
           /\ p.tool = q.tool /\ p.arg = q.arg /\ p.todo = q.todo /\ p.files = q.files
           /\ p.scanned = q.scanned /\ p.skipped = q.skipped
BY DEF Locals

LEMMA SameAccount ==
    ASSUME NEW q \in Locals, NEW p, p.todo = q.todo, p.files = q.files,
           p.scanned = q.scanned, p.skipped = q.skipped
    PROVE  Accounted(p) <=> Accounted(q)
BY DEF Accounted

\* A target is done with: skipped or scanned.
LEMMA TargetDone ==
    ASSUME NEW q \in Locals, q.todo # <<>>, q.tool \in Scanning, Accounted(q), NEW p,
           \/ p = [q EXCEPT !.stage = "each", !.todo = Tail(@),
                            !.skipped = Append(@, Head(q.todo))]
           \/ p = [q EXCEPT !.stage = "each", !.todo = Tail(@),
                            !.scanned = Append(@, Head(q.todo))]
    PROVE  p \in Locals /\ p.stage = "each" /\ StageFacts(p)
<1>1. p \in Locals
  BY LocalsTypes
<1>2. /\ p.stage = "each" /\ p.tool = q.tool /\ p.files = q.files /\ p.todo = Tail(q.todo)
      /\ \/ p.skipped = Append(q.skipped, Head(q.todo)) /\ p.scanned = q.scanned
         \/ p.scanned = Append(q.scanned, Head(q.todo)) /\ p.skipped = q.skipped
  BY DEF Locals
<1>3. Accounted(p)
  BY <1>1, <1>2, AccountedSteps
<1>4. p.tool # "none"
  BY <1>2 DEF Scanning
<1> QED
  BY <1>1, <1>2, <1>3, <1>4 DEF StageFacts

LEMMA ResolveSafe ==
    ASSUME ServerSafe, NEW r \in Requests, Resolve(r)
    PROVE  ServerSafe'
<1>1. OnLoop(r, "resolve") /\ UNCHANGED <<contractVars, fileVars, poolVars>>
  BY DEF Resolve
<1>2. /\ Runs /\ running = r /\ req[r].stage = "resolve" /\ ~degraded
      /\ req[r] \in Locals /\ StageFacts(req[r])
  BY <1>1, HandlerFacts
<1>3. CASE Respond(r, "ok") \/ Respond(r, "file_not_found")
  BY <1>1, <1>2, <1>3, Responds2 DEF Codes
<1>4. ASSUME NEW s \in {"drop", "size"}, Step(r, [req[r] EXCEPT !.stage = s]),
             s = IF req[r].tool = "reload" THEN "drop" ELSE "size"
      PROVE  ServerSafe'
  <2> DEFINE q == [req[r] EXCEPT !.stage = s]
  <2>1. Step(r, q)
    BY <1>4
  <2>2. /\ q \in Locals /\ q.stage = s /\ q.tool = req[r].tool /\ q.arg = req[r].arg
        /\ q.scanned = req[r].scanned /\ q.skipped = req[r].skipped
    BY <1>2, StageMoves DEF Stages
  <2> HIDE DEF q
  <2>3. StageFacts(q)
    BY <1>2, <1>4, <2>2 DEF StageFacts
  <2> QED
    BY <1>1, <1>2, <2>1, <2>2, <2>3, GoesOn
<1>5. CASE Step(r, [req[r] EXCEPT !.stage = IF req[r].tool = "reload" THEN "drop" ELSE "size"])
  <2>1. CASE req[r].tool = "reload"
    BY <1>4, <1>5, <2>1
  <2>2. CASE req[r].tool # "reload"
    BY <1>4, <1>5, <2>2
  <2> QED
    BY <2>1, <2>2
<1> QED
  BY <1>3, <1>5 DEF Resolve

LEMMA SyntheticSafe ==
    ASSUME ServerSafe, NEW r \in Requests, Synthetic(r)
    PROVE  ServerSafe'
<1> DEFINE k == req[r].arg
           q == [req[r] EXCEPT !.stage = "each", !.files = <<k>>, !.todo = <<k>>]
<1>1. OnLoop(r, "synthetic") /\ UNCHANGED <<contractVars, fileVars, poolVars>>
  BY DEF Synthetic
<1>2. /\ Runs /\ running = r /\ req[r].stage = "synthetic" /\ ~degraded
      /\ req[r] \in Locals /\ StageFacts(req[r])
  BY <1>1, HandlerFacts
<1>3. CASE Respond(r, "qvw_dir_unreadable")
  BY <1>1, <1>2, <1>3, Responds2 DEF Codes
<1>4. CASE Step(r, q)
  <2>1. <<k>> \in Seq(Keys)
    BY <1>2 DEF StageFacts, Locals
  <2>2. q \in Locals
    BY <1>2, <2>1, LocalsTypes DEF Stages
  <2>3. /\ q.stage = "each" /\ q.tool = req[r].tool /\ q.todo = q.files
        /\ q.scanned = req[r].scanned /\ q.skipped = req[r].skipped
    BY <1>2 DEF Locals
  <2> HIDE DEF q
  <2>4. q.scanned = <<>> /\ q.skipped = <<>> /\ req[r].tool = "list_tables"
    BY <1>2, <2>3 DEF StageFacts
  <2>5. Accounted(q)
    BY <2>2, <2>3, <2>4, AccountedStart
  <2>6. StageFacts(q)
    BY <2>3, <2>4, <2>5 DEF StageFacts, Scanning
  <2> QED
    BY <1>1, <1>2, <1>4, <2>2, <2>3, <2>6, GoesOn
<1> QED
  BY <1>3, <1>4 DEF Synthetic

LEMMA SizeSafe ==
    ASSUME ServerSafe, NEW r \in Requests, Size(r)
    PROVE  ServerSafe'
<1> DEFINE k == req[r].arg
<1>1. OnLoop(r, "size") /\ UNCHANGED <<contractVars, fileVars>>
  BY DEF Size
<1>2. /\ Runs /\ running = r /\ req[r].stage = "size" /\ ~degraded
      /\ req[r] \in Locals /\ StageFacts(req[r])
  BY <1>1, HandlerFacts
<1>3. k \in Keys
  BY <1>2 DEF StageFacts, Locals
<1>4. CASE \E s \in {"qvw_dir_unreadable", "qvw_too_large", "unsupported"} :
             Respond(r, s) /\ UNCHANGED poolVars
  BY <1>1, <1>2, <1>4, Responds2 DEF Codes
<1>5. CASE req[r].tool \in Parsing /\ Await(r, "parse", k, "parsing")
  <2> DEFINE q == [req[r] EXCEPT !.stage = "parsing"]
  <2>1. /\ q \in Locals /\ q.stage = "parsing" /\ q.tool = req[r].tool
    BY <1>2, StageMoves DEF Stages
  <2>2. StageFacts(q)
    <3> HIDE DEF q
    <3> QED
      BY <1>5, <2>1 DEF StageFacts, Parsing, Scanning
  <2> QED
    BY <1>1, <1>2, <1>3, <1>5, <2>2, Awaits
<1>6. CASE /\ req[r].tool \notin Unsupported \cup Parsing
           /\ Step(r, [req[r] EXCEPT !.stage = "synthetic"]) /\ UNCHANGED poolVars
  <2> DEFINE q == [req[r] EXCEPT !.stage = "synthetic"]
  <2>1. Step(r, q)
    BY <1>6
  <2>2. /\ q \in Locals /\ q.stage = "synthetic" /\ q.tool = req[r].tool /\ q.arg = req[r].arg
        /\ q.scanned = req[r].scanned /\ q.skipped = req[r].skipped
    BY <1>2, StageMoves DEF Stages
  <2> HIDE DEF q
  <2>3. StageFacts(q)
    BY <1>2, <1>6, <2>2 DEF StageFacts
  <2> QED
    BY <1>1, <1>2, <1>6, <2>1, <2>2, <2>3, GoesOn
<1> QED
  BY <1>4, <1>5, <1>6 DEF Size

LEMMA EachSafe ==
    ASSUME ServerSafe, NEW r \in Requests, Each(r)
    PROVE  ServerSafe'
<1> DEFINE k == Head(req[r].todo)
<1>1. OnLoop(r, "each") /\ req[r].todo # <<>> /\ UNCHANGED <<contractVars, fileVars>>
  BY DEF Each
<1>2. /\ Runs /\ running = r /\ req[r].stage = "each" /\ ~degraded
      /\ req[r] \in Locals /\ StageFacts(req[r])
  BY <1>1, HandlerFacts
<1>3. req[r].tool \in Scanning /\ Accounted(req[r]) /\ k \in Keys
  BY <1>1, <1>2, LocalsTypes DEF StageFacts
<1>4. CASE Await(r, "parse", k, "parsing")
  <2> DEFINE q == [req[r] EXCEPT !.stage = "parsing"]
  <2>1. /\ q \in Locals /\ q.stage = "parsing" /\ q.tool = req[r].tool
        /\ q.todo = req[r].todo /\ q.files = req[r].files
        /\ q.scanned = req[r].scanned /\ q.skipped = req[r].skipped
    BY <1>2, StageMoves DEF Stages
  <2>2. Accounted(q)
    BY <1>2, <1>3, <2>1, SameAccount
  <2>3. StageFacts(q)
    <3> HIDE DEF q
    <3> QED
      BY <1>1, <1>3, <2>1, <2>2 DEF StageFacts, Scanning
  <2> QED
    BY <1>1, <1>2, <1>3, <1>4, <2>3, Awaits
<1>5. CASE Skip(r) /\ UNCHANGED poolVars
  <2> DEFINE q == [req[r] EXCEPT !.stage = "each", !.todo = Tail(@),
                                 !.skipped = Append(@, Head(req[r].todo))]
  <2>1. Step(r, q)
    BY <1>5 DEF Skip
  <2>2. q \in Locals /\ q.stage = "each" /\ StageFacts(q)
    BY <1>1, <1>2, <1>3, TargetDone
  <2> HIDE DEF q
  <2> QED
    BY <1>1, <1>2, <1>5, <2>1, <2>2, GoesOn
<1> QED
  BY <1>4, <1>5 DEF Each

LEMMA EachDoneSafe ==
    ASSUME ServerSafe, NEW r \in Requests, EachDone(r)
    PROVE  ServerSafe'
<1>1. OnLoop(r, "each") /\ Respond(r, "ok") /\ UNCHANGED <<contractVars, fileVars, poolVars>>
  BY DEF EachDone
<1>2. ~degraded
  BY <1>1, HandlerFacts
<1> QED
  BY <1>1, <1>2, Responds2 DEF Codes

\* The handler goes on to the match of the file it has parsed.
LEMMA MatchFacts ==
    ASSUME NEW q \in Locals, q.todo # <<>>, q.tool \in Scanning, Accounted(q),
           NEW s \in {"matching", "names"}, NEW p, p = [q EXCEPT !.stage = s],
           s = "matching" => q.tool \in {"search", "search_scripts"},
           s = "names" => q.tool \in {"search", "search_names"}
    PROVE  p \in Locals /\ p.stage = s /\ StageFacts(p)
<1>1. /\ p \in Locals /\ p.stage = s /\ p.tool = q.tool
      /\ p.todo = q.todo /\ p.files = q.files
      /\ p.scanned = q.scanned /\ p.skipped = q.skipped
  BY StageMoves DEF Stages
<1>2. Accounted(p)
  BY <1>1, SameAccount
<1>3. p.tool # "none"
  BY <1>1 DEF Scanning
<1> QED
  BY <1>1, <1>2, <1>3 DEF StageFacts

LEMMA ParsedSafe ==
    ASSUME ServerSafe, NEW r \in Requests, Parsed(r)
    PROVE  ServerSafe'
<1> DEFINE answer == req[r].result
           tool == req[r].tool
           k == Head(req[r].todo)
<1>1. OnLoop(r, "parsing") /\ UNCHANGED <<contractVars, fileVars>>
  BY DEF Parsed
<1>2. /\ Runs /\ running = r /\ req[r].stage = "parsing" /\ ~degraded
      /\ req[r] \in Locals /\ StageFacts(req[r])
  BY <1>1, HandlerFacts
<1>3. ASSUME tool \notin Parsing
      PROVE  tool \in Scanning /\ req[r].todo # <<>> /\ Accounted(req[r]) /\ k \in Keys
  BY <1>2, <1>3, LocalsTypes DEF StageFacts
<1>4. CASE /\ Answered(r, IF answer.status = "ok" THEN "ok" ELSE ErrorCode(answer.status), answer.meta)
           /\ UNCHANGED poolVars
  <2>1. answer.meta \in Metas \cup {NoMeta}
    BY <1>2 DEF Locals, Results
  <2>2. (IF answer.status = "ok" THEN "ok" ELSE ErrorCode(answer.status)) \in Codes
    BY DEF ErrorCode, Codes
  <2> QED
    BY <1>1, <1>2, <1>4, <2>1, <2>2, Answers
<1>5. CASE tool \notin Parsing /\ Skip(r) /\ UNCHANGED poolVars
  <2> DEFINE q == [req[r] EXCEPT !.stage = "each", !.todo = Tail(@),
                                 !.skipped = Append(@, Head(req[r].todo))]
  <2>1. Step(r, q)
    BY <1>5 DEF Skip
  <2>2. q \in Locals /\ q.stage = "each" /\ StageFacts(q)
    BY <1>2, <1>3, <1>5, TargetDone
  <2> HIDE DEF q
  <2> QED
    BY <1>1, <1>2, <1>5, <2>1, <2>2, GoesOn
<1>6. CASE tool \notin Parsing /\ Step(r, Scan(r)) /\ UNCHANGED poolVars
  <2>1. Scan(r) \in Locals /\ Scan(r).stage = "each" /\ StageFacts(Scan(r))
    BY <1>2, <1>3, <1>6, TargetDone DEF Scan
  <2> QED
    BY <1>1, <1>2, <1>6, <2>1, GoesOn
<1>7. CASE /\ tool = "search_names" /\ tool \notin Parsing
           /\ Step(r, [req[r] EXCEPT !.stage = "names"]) /\ UNCHANGED poolVars
  <2> DEFINE q == [req[r] EXCEPT !.stage = "names"]
  <2>1. Step(r, q)
    BY <1>7
  <2>2. q \in Locals /\ q.stage = "names" /\ StageFacts(q)
    BY <1>2, <1>3, <1>7, MatchFacts
  <2> HIDE DEF q
  <2> QED
    BY <1>1, <1>2, <1>7, <2>1, <2>2, GoesOn
<1>8. CASE /\ tool \in {"search", "search_scripts"} /\ tool \notin Parsing
           /\ Await(r, "match", k, "matching")
  <2>1. StageFacts([req[r] EXCEPT !.stage = "matching"])
    BY <1>2, <1>3, <1>8, MatchFacts
  <2> QED
    BY <1>1, <1>2, <1>3, <1>8, <2>1, Awaits
<1>9. tool \in {"list_tables", "search_names", "search", "search_scripts"} => tool \notin Parsing
  BY DEF Parsing
<1> QED
  <2>1. \/ tool \in Parsing
        \/ tool \notin Parsing /\ answer.status # "ok"
        \/ tool = "list_tables" /\ answer.status = "ok"
        \/ tool = "search_names" /\ answer.status = "ok"
        \/ tool \in {"search", "search_scripts"} /\ answer.status = "ok"
    BY <1>3 DEF Scanning
  <2> QED
    BY <1>4, <1>5, <1>6, <1>7, <1>8, <1>9, <2>1 DEF Parsed

LEMMA MatchedSafe ==
    ASSUME ServerSafe, NEW r \in Requests, Matched(r)
    PROVE  ServerSafe'
<1>1. OnLoop(r, "matching") /\ UNCHANGED <<contractVars, fileVars, poolVars>>
  BY DEF Matched
<1>2. /\ Runs /\ running = r /\ req[r].stage = "matching" /\ ~degraded
      /\ req[r] \in Locals /\ StageFacts(req[r])
  BY <1>1, HandlerFacts
<1>3. /\ req[r].tool \in Scanning /\ req[r].tool \in {"search", "search_scripts"}
      /\ req[r].todo # <<>> /\ Accounted(req[r])
  BY <1>2 DEF StageFacts, Scanning
<1>4. CASE req[r].tool = "search"
  <2> DEFINE q == [req[r] EXCEPT !.stage = "names"]
  <2>1. Step(r, q)
    BY <1>4 DEF Matched
  <2>2. q \in Locals /\ q.stage = "names" /\ StageFacts(q)
    BY <1>2, <1>3, <1>4, MatchFacts
  <2> HIDE DEF q
  <2> QED
    BY <1>1, <1>2, <2>1, <2>2, GoesOn
<1>5. CASE req[r].tool # "search"
  <2>1. Scan(r) \in Locals /\ Scan(r).stage = "each" /\ StageFacts(Scan(r))
    BY <1>2, <1>3, TargetDone DEF Scan
  <2>2. Step(r, Scan(r))
    BY <1>5 DEF Matched
  <2> QED
    BY <1>1, <1>2, <2>1, <2>2, GoesOn
<1> QED
  BY <1>4, <1>5

LEMMA StartNamesSafe ==
    ASSUME ServerSafe, NEW r \in Requests, StartNames(r)
    PROVE  ServerSafe'
<1>1. /\ running = r /\ req[r].stage = "names" /\ gil' = r /\ r \notin Threads
      /\ UNCHANGED <<contractVars, fileVars, loopVars, jobs, work, loaded>>
  BY ServerNoneAssumption DEF StartNames, OnLoop
<1>2. ServerTypeOK'
  BY <1>1 DEF ServerSafe, ServerTypeOK, contractVars, invalidation, fileVars, loopVars
<1>3. OneJobPerWaitingTask'
  BY <1>1 DEF ServerSafe, ServerInvariant, OneJobPerWaitingTask, Queued, Worked, Waiting, loopVars
<1>4. \A u \in Requests : StageFacts(req'[u])
  BY <1>1 DEF ServerSafe, ServerInvariant, loopVars
<1>5. Holds'
  BY <1>1 DEF ServerSafe, ServerInvariant, Holds, loopVars, contractVars, invalidation
<1>6. Idles' /\ DegradedAnswersOnly'
  BY <1>1 DEF ServerSafe, ServerInvariant, Idles, DegradedAnswersOnly, loopVars, fileVars, contractVars
<1> QED
  BY <1>2, <1>3, <1>4, <1>5, <1>6 DEF ServerSafe, ServerInvariant

LEMMA EndNamesSafe ==
    ASSUME ServerSafe, NEW r \in Requests, EndNames(r)
    PROVE  ServerSafe'
<1>1. /\ gil = r /\ gil' = None /\ Step(r, Scan(r))
      /\ UNCHANGED <<contractVars, fileVars, jobs, work, loaded>>
  BY DEF EndNames
<1>2. /\ running = r /\ req[r].stage = "names" /\ req[r] \in Locals /\ StageFacts(req[r])
      /\ ~degraded
  BY <1>1, PastDispatch DEF ServerSafe, ServerTypeOK, ServerInvariant, Holds
<1>3. Scan(r) \in Locals /\ Scan(r).stage = "each" /\ StageFacts(Scan(r))
  <2>1. req[r].tool \in Scanning /\ req[r].todo # <<>> /\ Accounted(req[r])
    BY <1>2 DEF StageFacts, Scanning
  <2> QED
    BY <1>2, <2>1, TargetDone DEF Scan
<1>4. /\ req'[r] = Scan(r) /\ \A u \in Requests \ {r} : req'[u] = req[u]
      /\ UNCHANGED <<ready, running, resp, degraded, lru, phase, want, asked, target>>
  BY <1>1 DEF ServerSafe, ServerTypeOK, Step, contractVars, invalidation, fileVars
<1>5. ServerTypeOK'
  BY <1>1, <1>3 DEF ServerSafe, ServerTypeOK, Step, contractVars, invalidation, fileVars
<1>6. OneJobPerWaitingTask'
  <2>1. \A u \in Requests : /\ Queued(u)' = Queued(u) /\ Worked(u)' = Worked(u)
                            /\ Waiting(u)' = Waiting(u)
    BY <1>1, <1>4 DEF Queued, Worked, Waiting
  <2> QED
    BY <1>2, <1>3, <1>4, <2>1 DEF ServerSafe, ServerInvariant, OneJobPerWaitingTask
<1>7. \A u \in Requests : StageFacts(req'[u])
  BY <1>3, <1>4 DEF ServerSafe, ServerInvariant
<1>8. Holds'
  BY <1>1, <1>3, <1>4, ServerNoneAssumption DEF ServerSafe, ServerInvariant, Holds
<1>9. Idles' /\ DegradedAnswersOnly'
  BY <1>2, <1>4 DEF Idles, DegradedAnswersOnly
<1> QED
  BY <1>5, <1>6, <1>7, <1>8, <1>9 DEF ServerSafe, ServerInvariant

----------------------------------------------------------------------------
(* The cache *)

LEMMA WithoutProperties ==
    ASSUME NEW d \in Seq(Entries(Keys, Metas)), UniqueKeys(d), NEW k
    PROVE  /\ Without(d, k) \in Seq(Entries(Keys, Metas)) /\ UniqueKeys(Without(d, k))
           /\ k \notin KeysOf(Without(d, k))
           /\ Len(Without(d, k)) = IF k \in KeysOf(d) THEN Len(d) - 1 ELSE Len(d)
BY DeleteProperties DEF Without

LEMMA QueriedProperties ==
    ASSUME NEW d \in Seq(Entries(Keys, Metas)), UniqueKeys(d), NEW k \in Keys, NEW m \in Metas
    PROVE  /\ Queried(d, k, m) \in Seq(Entries(Keys, Metas)) /\ UniqueKeys(Queried(d, k, m))
           /\ Len(Queried(d, k, m)) = IF k \in KeysOf(d) THEN Len(d) ELSE Len(d) + 1
<1> DEFINE w == Without(d, k)
           x == [key |-> k, meta |-> m]
           e == Append(w, x)
<1>1. /\ w \in Seq(Entries(Keys, Metas)) /\ UniqueKeys(w) /\ k \notin KeysOf(w)
      /\ Len(w) = IF k \in KeysOf(d) THEN Len(d) - 1 ELSE Len(d)
  BY WithoutProperties
<1>2. x \in Entries(Keys, Metas) /\ x.key = k
  BY DEF Entries
<1> HIDE DEF w, x
<1>3. /\ e \in Seq(Entries(Keys, Metas)) /\ Len(e) = Len(w) + 1 /\ Len(w) \in Nat
      /\ DOMAIN e = 1..(Len(w) + 1) /\ DOMAIN w = 1..Len(w)
      /\ \A i \in 1..Len(w) : e[i] = w[i]
      /\ e[Len(w) + 1] = x
  BY <1>1, <1>2, AppendProperties
<1> HIDE DEF e
<1>4. UniqueKeys(e)
  <2>1. \A i \in 1..Len(w) : w[i].key # k
    BY <1>1, <1>3 DEF KeysOf
  <2>2. \A i \in DOMAIN e : i \in 1..Len(w) \/ i = Len(w) + 1
    BY <1>3
  <2>3. ASSUME NEW i \in DOMAIN e, NEW j \in DOMAIN e, e[i].key = e[j].key
        PROVE  i = j
    <3>1. CASE i \in 1..Len(w) /\ j \in 1..Len(w)
      BY <1>1, <1>3, <2>3, <3>1 DEF UniqueKeys
    <3>2. CASE i = Len(w) + 1 \/ j = Len(w) + 1
      BY <1>2, <1>3, <2>1, <2>2, <2>3, <3>2
    <3> QED
      BY <2>2, <3>1, <3>2
  <2> QED
    BY <2>3 DEF UniqueKeys
<1>5. Len(e) = IF k \in KeysOf(d) THEN Len(d) ELSE Len(d) + 1
  <2>1. Len(d) \in Nat
    OBVIOUS
  <2> QED
    BY <1>1, <1>3, <2>1
<1> QED
  BY <1>3, <1>4, <1>5 DEF Queried, e, w, x

LEMMA TrimProperties ==
    ASSUME NEW d \in Seq(Entries(Keys, Metas)), UniqueKeys(d)
    PROVE  /\ Trim(d) \in Seq(Entries(Keys, Metas)) /\ UniqueKeys(Trim(d))
           /\ Len(Trim(d)) <= MaxEntries
<1>1. MaxEntries \in Nat \ {0} /\ Len(d) \in Nat /\ DOMAIN d = 1..Len(d)
  BY ServerBoundAssumption
<1>2. CASE Len(d) > MaxEntries
  <2> DEFINE s == Len(d) - MaxEntries
             e == SubSeq(d, s + 1, Len(d))
  <2>1. s \in Nat /\ s + MaxEntries = Len(d)
    BY <1>1, <1>2
  <2>2. /\ e \in Seq(Entries(Keys, Metas)) /\ Len(e) = MaxEntries
        /\ DOMAIN e = 1..MaxEntries
        /\ \A i \in 1..MaxEntries : s + i \in 1..Len(d) /\ e[i] = d[s + i]
    BY <1>1, <2>1
  <2> HIDE DEF e
  <2>3. UniqueKeys(e)
    <3>1. ASSUME NEW i \in 1..MaxEntries, NEW j \in 1..MaxEntries, e[i].key = e[j].key
          PROVE  i = j
      <4>1. s + i = s + j
        BY <1>1, <2>2, <3>1 DEF UniqueKeys
      <4> QED
        BY <2>1, <4>1
    <3> QED
      BY <2>2, <3>1 DEF UniqueKeys
  <2> QED
    BY <1>1, <1>2, <2>2, <2>3 DEF Trim, e
<1>3. CASE ~(Len(d) > MaxEntries)
  BY <1>1, <1>3 DEF Trim
<1> QED
  BY <1>2, <1>3

----------------------------------------------------------------------------
(* Reloads, arrivals, the loop's choice of a task, and the disk *)

LEMMA StartDropSafe ==
    ASSUME ServerSafe, NEW r \in Requests, StartDrop(r)
    PROVE  ServerSafe'
<1> DEFINE q == [req[r] EXCEPT !.stage = "dropping"]
<1>1. /\ OnLoop(r, "drop") /\ asked' = TRUE /\ target' = req[r].arg /\ Step(r, q)
      /\ UNCHANGED <<lru, phase, want, out, fileVars, poolVars>>
  BY DEF StartDrop, AskDrop
<1>2. /\ Runs /\ running = r /\ req[r].stage = "drop" /\ ~degraded
      /\ req[r] \in Locals /\ StageFacts(req[r])
  BY <1>1, HandlerFacts
<1>3. /\ q \in Locals /\ q.stage = "dropping" /\ q.tool = req[r].tool /\ q.arg = req[r].arg
  BY <1>2, StageMoves DEF Stages
<1> HIDE DEF q
<1>4. StageFacts(q)
  BY <1>2, <1>3 DEF StageFacts
<1>5. /\ req'[r] = q /\ \A u \in Requests \ {r} : req'[u] = req[u]
      /\ UNCHANGED <<ready, running, resp, jobs, work, loaded, gil, degraded>>
  BY <1>1 DEF ServerSafe, ServerTypeOK, Step, fileVars, poolVars
<1>6. ServerTypeOK'
  <2>1. req[r].arg \in Keys \cup {None}
    BY <1>2 DEF Locals
  <2> QED
    BY <1>1, <1>3, <2>1 DEF ServerSafe, ServerTypeOK, Step, fileVars, poolVars
<1>7. OneJobPerWaitingTask'
  <2>1. \A u \in Requests : /\ Queued(u)' = Queued(u) /\ Worked(u)' = Worked(u)
                            /\ Waiting(u)' = Waiting(u)
    BY <1>5 DEF Queued, Worked, Waiting
  <2> QED
    BY <1>2, <1>3, <1>5, <2>1 DEF ServerSafe, ServerInvariant, OneJobPerWaitingTask
<1>8. \A u \in Requests : StageFacts(req'[u])
  BY <1>4, <1>5 DEF ServerSafe, ServerInvariant
<1>9. Holds'
  <2>1. Holds /\ gil' = None
    BY <1>2, <1>5 DEF ServerSafe, ServerInvariant, Runs
  <2>2. \A u \in Requests : req'[u].stage = "dropping" => u = r
    BY <1>2, <1>5, <2>1 DEF Holds
  <2> QED
    BY <1>1, <1>2, <1>3, <1>5, <2>1, <2>2, ServerNoneAssumption DEF Holds
<1>10. Idles' /\ DegradedAnswersOnly'
  BY <1>2, <1>5 DEF Idles, DegradedAnswersOnly
<1> QED
  BY <1>6, <1>7, <1>8, <1>9, <1>10 DEF ServerSafe, ServerInvariant

LEMMA DropProperties ==
    ASSUME ServerTypeOK, Drop
    PROVE  /\ lru' \in Seq(Entries(Keys, Metas)) /\ Len(lru') <= MaxEntries /\ UniqueKeys(lru')
           /\ KeysOf(lru') \cap (IF target = None THEN Keys ELSE {target}) = {}
<1>1. /\ lru \in Seq(Entries(Keys, Metas)) /\ Len(lru) <= MaxEntries /\ UniqueKeys(lru)
      /\ Len(lru) \in Nat /\ MaxEntries \in Nat
  BY ServerBoundAssumption DEF ServerTypeOK
<1>2. CASE target = None
  <2>1. lru' = <<>> /\ DOMAIN <<>> = {} /\ Len(<<>>) = 0
    BY <1>2 DEF Drop
  <2> QED
    BY <1>1, <1>2, <2>1 DEF KeysOf, UniqueKeys
<1>3. CASE target # None
  <2>1. lru' = Without(lru, target)
    BY <1>3 DEF Drop
  <2> QED
    BY <1>1, <1>3, <2>1, WithoutProperties
<1> QED
  BY <1>2, <1>3

LEMMA EndDropSafe ==
    ASSUME ServerSafe, NEW r \in Requests, EndDrop(r)
    PROVE  ServerSafe'
<1>1. /\ OnLoop(r, "dropping") /\ Drop /\ asked' = FALSE /\ target' = None
      /\ Respond(r, "ok") /\ UNCHANGED <<phase, want, out, fileVars, poolVars>>
  BY DEF EndDrop, Drop
<1>2. /\ Runs /\ running = r /\ req[r].stage = "dropping" /\ ~degraded
  BY <1>1, HandlerFacts
<1>3. /\ req'[r] = Idle /\ (\A u \in Requests \ {r} : req'[u] = req[u])
      /\ running' = None
      /\ UNCHANGED <<ready, jobs, work, loaded, gil, degraded, phase, want>>
  BY <1>1 DEF ServerSafe, ServerTypeOK, Respond, Answered, fileVars, poolVars
<1>4. ServerTypeOK'
  <2>1. req' \in [Requests -> Locals]
    BY <1>1, IdleType DEF ServerSafe, ServerTypeOK, Respond, Answered
  <2>2. resp' \in [Requests -> [status : Codes, meta : Metas \cup {NoMeta}]]
    BY <1>1 DEF ServerSafe, ServerTypeOK, Respond, Answered, Codes
  <2>3. lru' \in Seq(Entries(Keys, Metas)) /\ Len(lru') <= MaxEntries /\ UniqueKeys(lru')
    BY <1>1, DropProperties DEF ServerSafe
  <2> QED
    BY <1>1, <1>3, <2>1, <2>2, <2>3 DEF ServerSafe, ServerTypeOK, fileVars, poolVars
<1>5. OneJobPerWaitingTask'
  <2>1. \A u \in Requests : /\ Queued(u)' = Queued(u) /\ Worked(u)' = Worked(u)
                            /\ Waiting(u)' = Waiting(u)
    BY <1>3 DEF Queued, Worked, Waiting
  <2>2. /\ Cardinality(Queued(r)) = 0 /\ Cardinality(Worked(r)) = 0
        /\ Cardinality(Waiting(r)) = 0
    BY <1>2, RunningAlone
  <2>3. \A u \in Requests \ {r} : running # u /\ running' # u
    BY <1>2, <1>3, ServerNoneAssumption
  <2> QED
    BY <1>3, <2>1, <2>2, <2>3, IdleFacts, ServerNoneAssumption
       DEF ServerSafe, ServerInvariant, OneJobPerWaitingTask
<1>6. \A u \in Requests : StageFacts(req'[u])
  BY <1>3, IdleFacts DEF ServerSafe, ServerInvariant
<1>7. Holds'
  <2>1. Holds /\ gil' = None
    BY <1>2, <1>3 DEF ServerSafe, ServerInvariant, Runs
  <2>2. \A u \in Requests : req'[u].stage # "dropping"
    BY <1>2, <1>3, <2>1, IdleFacts DEF Holds
  <2> QED
    BY <1>3, <2>1, <2>2, ServerNoneAssumption DEF Holds
<1>8. Idles' /\ DegradedAnswersOnly'
  BY <1>2, <1>3 DEF Idles, DegradedAnswersOnly
<1> QED
  BY <1>4, <1>5, <1>6, <1>7, <1>8 DEF ServerSafe, ServerInvariant

LEMMA SendSafe ==
    ASSUME ServerSafe, NEW r \in Requests, NEW tool \in Tools, NEW arg \in Keys \cup {None},
           NEW exact \in BOOLEAN, Send(r, tool, arg, exact)
    PROVE  ServerSafe'
<1> DEFINE q == [Idle EXCEPT !.stage = "start", !.tool = tool, !.arg = arg, !.exact = exact]
<1>1. /\ req[r].stage = "idle" /\ req' = [req EXCEPT ![r] = q]
      /\ ready' = Append(ready, r) /\ resp' = [resp EXCEPT ![r] = NoResponse]
      /\ UNCHANGED <<lru, phase, want, out, asked, target, degraded, disk, clock, running,
                     jobs, work, loaded, gil>>
  BY DEF Send, contractVars, invalidation, fileVars, poolVars
<1>2. q \in Locals /\ q.stage = "start" /\ q.tool = tool /\ q.scanned = <<>> /\ q.skipped = <<>>
  <2>1. Idle.scanned = <<>> /\ Idle.skipped = <<>> /\ "start" \in Stages
    BY DEF Idle, Stages
  <2> QED
    BY <2>1, IdleType DEF Locals
<1> HIDE DEF q
<1>3. StageFacts(q)
  <2>1. tool # "none"
    BY ToolsAssumption DEF Listing, Scanning, Parsing, Unsupported
  <2> QED
    BY <1>2, <2>1 DEF StageFacts
<1>4. req'[r] = q /\ \A u \in Requests \ {r} : req'[u] = req[u]
  BY <1>1 DEF ServerSafe, ServerTypeOK
<1>5. ServerTypeOK'
  <2>1. resp' \in [Requests -> [status : Codes, meta : Metas \cup {NoMeta}]]
    BY <1>1 DEF ServerSafe, ServerTypeOK, Codes, NoResponse
  <2>2. req' \in [Requests -> Locals]
    BY <1>1, <1>2 DEF ServerSafe, ServerTypeOK
  <2>3. ready' \in Seq(Requests)
    BY <1>1 DEF ServerSafe, ServerTypeOK
  <2> QED
    BY <1>1, <2>1, <2>2, <2>3 DEF ServerSafe, ServerTypeOK
<1>6. OneJobPerWaitingTask'
  <2>1. \A u \in Requests : Queued(u)' = Queued(u) /\ Worked(u)' = Worked(u)
    BY <1>1 DEF Queued, Worked
  <2>2. \A u \in Requests :
          /\ Cardinality(Queued(u)) \in Nat /\ Cardinality(Worked(u)) \in Nat
          /\ Cardinality(Waiting(u)) \in Nat
    BY PlaceCounts DEF ServerSafe
  <2>3. \A u \in Requests :
          Cardinality(Waiting(u)') = Cardinality(Waiting(u)) + (IF r = u THEN 1 ELSE 0)
    BY <1>1, ReadyAppended DEF ServerSafe
  <2>4. ASSUME NEW u \in Requests
        PROVE  Cardinality(Queued(u)) + Cardinality(Worked(u)) + Cardinality(Waiting(u))
                 + (IF running = u THEN 1 ELSE 0) = IF req[u].stage = "idle" THEN 0 ELSE 1
    BY DEF ServerSafe, ServerInvariant, OneJobPerWaitingTask
  <2>5. ASSUME NEW u \in Requests
        PROVE  Cardinality(Queued(u)) + Cardinality(Worked(u)) + Cardinality(Waiting(u)')
                 + (IF running = u THEN 1 ELSE 0) = IF req'[u].stage = "idle" THEN 0 ELSE 1
    <3>1. CASE u = r
      <4>1. req'[u].stage # "idle"
        BY <1>2, <1>4, <3>1
      <4>2. Cardinality(Waiting(u)') = Cardinality(Waiting(u)) + 1
        BY <2>3, <3>1
      <4> QED
        BY <1>1, <2>2, <2>4, <3>1, <4>1, <4>2
    <3>2. CASE u # r
      <4>1. req'[u].stage = req[u].stage
        BY <1>4, <3>2
      <4>2. Cardinality(Waiting(u)') = Cardinality(Waiting(u))
        BY <2>2, <2>3, <3>2
      <4> QED
        BY <2>4, <4>1, <4>2
    <3> QED
      BY <3>1, <3>2
  <2> QED
    BY <1>1, <2>1, <2>5 DEF OneJobPerWaitingTask
<1>7. \A u \in Requests : StageFacts(req'[u])
  BY <1>3, <1>4 DEF ServerSafe, ServerInvariant
<1>8. Holds'
  BY <1>1, <1>2, <1>4 DEF ServerSafe, ServerInvariant, Holds
<1>9. Idles' /\ DegradedAnswersOnly'
  <2>1. resp'[r].status = "none" /\ \A u \in Requests \ {r} : resp'[u] = resp[u]
    BY <1>1 DEF ServerSafe, ServerTypeOK, NoResponse
  <2> QED
    BY <1>1, <1>2, <1>4, <2>1 DEF ServerSafe, ServerInvariant, Idles, DegradedAnswersOnly
<1> QED
  BY <1>5, <1>6, <1>7, <1>8, <1>9 DEF ServerSafe, ServerInvariant

LEMMA PickSafe ==
    ASSUME ServerSafe, Pick
    PROVE  ServerSafe'
<1> DEFINE r == Head(ready)
<1>1. /\ gil = None /\ running = None /\ ready # <<>> /\ running' = r /\ ready' = Tail(ready)
      /\ UNCHANGED <<lru, phase, want, out, asked, target, degraded, disk, clock, req, resp,
                     jobs, work, loaded, gil>>
  BY DEF Pick, Runs, contractVars, invalidation, fileVars, poolVars
<1>2. r \in Requests /\ ready \in Seq(Requests)
  BY <1>1 DEF ServerSafe, ServerTypeOK
<1>3. ServerTypeOK'
  BY <1>1, <1>2 DEF ServerSafe, ServerTypeOK
<1>4. OneJobPerWaitingTask'
  <2>1. \A u \in Requests : Queued(u)' = Queued(u) /\ Worked(u)' = Worked(u)
    BY <1>1 DEF Queued, Worked
  <2>2. \A u \in Requests :
          /\ Cardinality(Queued(u)) \in Nat /\ Cardinality(Worked(u)) \in Nat
          /\ Cardinality(Waiting(u)) \in Nat
    BY PlaceCounts DEF ServerSafe
  <2>3. \A u \in Requests :
          Cardinality(Waiting(u)') = Cardinality(Waiting(u)) - (IF r = u THEN 1 ELSE 0)
    BY <1>1, ReadyTaken DEF ServerSafe
  <2> HIDE DEF r
  <2>4. ASSUME NEW u \in Requests
        PROVE  Cardinality(Queued(u)) + Cardinality(Worked(u)) + Cardinality(Waiting(u))
                 = IF req[u].stage = "idle" THEN 0 ELSE 1
    <3>1. running # u
      BY <1>1, ServerNoneAssumption
    <3>2. Cardinality(Queued(u)) + Cardinality(Worked(u)) + Cardinality(Waiting(u)) + 0
                 = IF req[u].stage = "idle" THEN 0 ELSE 1
      BY <3>1 DEF ServerSafe, ServerInvariant, OneJobPerWaitingTask
    <3> QED
      BY <2>2, <3>2
  <2>5. ASSUME NEW u \in Requests
        PROVE  Cardinality(Queued(u)) + Cardinality(Worked(u)) + Cardinality(Waiting(u)')
                 + (IF running' = u THEN 1 ELSE 0) = IF req[u].stage = "idle" THEN 0 ELSE 1
    <3>1. CASE u = r
      <4>1. Cardinality(Waiting(u)') = Cardinality(Waiting(u)) - 1 /\ running' = u
        BY <1>1, <2>3, <3>1
      <4> QED
        BY <2>2, <2>4, <4>1
    <3>2. CASE u # r
      <4>1. Cardinality(Waiting(u)') = Cardinality(Waiting(u)) /\ running' # u
        BY <1>1, <2>2, <2>3, <3>2
      <4> QED
        BY <2>2, <2>4, <4>1
    <3> QED
      BY <3>1, <3>2
  <2> QED
    BY <1>1, <2>1, <2>5 DEF OneJobPerWaitingTask
<1>5. \A u \in Requests : StageFacts(req'[u])
  BY <1>1 DEF ServerSafe, ServerInvariant
<1>6. Holds'
  BY <1>1, ServerNoneAssumption DEF ServerSafe, ServerInvariant, Holds
<1>7. Idles' /\ DegradedAnswersOnly'
  BY <1>1 DEF ServerSafe, ServerInvariant, Idles, DegradedAnswersOnly
<1> QED
  BY <1>3, <1>4, <1>5, <1>6, <1>7 DEF ServerSafe, ServerInvariant

LEMMA WriteSafe ==
    ASSUME ServerSafe, NEW k \in Keys, Write(k)
    PROVE  ServerSafe'
<1>1. ServerTypeOK'
  <2>1. clock + 1 \in 0..MaxStamp /\ clock' = clock + 1
    BY ServerMetasAssumption DEF ServerSafe, ServerTypeOK, Write
  <2>2. disk' \in [Keys -> [stamp : 0..MaxStamp, shape : Shapes]]
    BY <2>1 DEF ServerSafe, ServerTypeOK, Write
  <2> QED
    BY <2>1, <2>2 DEF ServerSafe, ServerTypeOK, Write, contractVars, invalidation, loopVars, poolVars
<1>2. ServerInvariant'
  BY DEF ServerSafe, ServerInvariant, OneJobPerWaitingTask, Queued, Worked, Waiting, Holds, Idles,
         DegradedAnswersOnly, Write, contractVars, invalidation, loopVars, poolVars
<1> QED
  BY <1>1, <1>2 DEF ServerSafe

----------------------------------------------------------------------------
(* The executor threads *)

LEMMA TakeSafe ==
    ASSUME ServerSafe, NEW t \in Threads, Take(t)
    PROVE  ServerSafe'
<1> DEFINE job == Head(jobs)
<1>1. /\ gil = None /\ jobs # <<>> /\ work[t] = NoJob
      /\ work' = [work EXCEPT ![t] = job] /\ jobs' = Tail(jobs)
      /\ IF job.kind = "parse" THEN Ask(t, job.key) ELSE UNCHANGED contractVars
      /\ UNCHANGED <<degraded, disk, clock, ready, running, req, resp, loaded, gil>>
  BY DEF Take, Runs, fileVars, loopVars
<1>2. job \in Jobs /\ jobs \in Seq(Jobs)
  BY <1>1 DEF ServerSafe, ServerTypeOK
<1>3. ~degraded
  BY <1>1 DEF ServerSafe, ServerInvariant, DegradedAnswersOnly
<1>4. /\ lru' = lru /\ asked' = asked /\ target' = target
      /\ phase' \in [Threads -> {"idle", "asked", "missed"}]
      /\ want' \in [Threads -> Keys \cup {None}] /\ out' \in [Threads -> Results]
      /\ \A u \in Threads : /\ phase[u] # "idle" => phase'[u] = phase[u] /\ want'[u] = want[u]
                            /\ phase[u] = "idle" /\ phase'[u] # "idle" => want'[u] \in Keys
                            /\ phase[u] = "missed" <=> phase'[u] = "missed"
  <2>1. CASE job.kind = "parse"
    <3>1. job.key \in Keys
      BY <1>2 DEF Jobs
    <3>2. Unanswered \in Results
      BY DEF Unanswered, Answer, Results
    <3>3. Ask(t, job.key)
      BY <1>1, <2>1
    <3> HIDE DEF job
    <3> QED
      BY <3>1, <3>2, <3>3 DEF Ask, invalidation, ServerSafe, ServerTypeOK
  <2>2. CASE job.kind # "parse"
    BY <1>1, <2>2 DEF contractVars, invalidation, ServerSafe, ServerTypeOK
  <2> QED
    BY <2>1, <2>2
<1>5. ServerTypeOK'
  <2>1. work' \in [Threads -> Jobs \cup {NoJob}]
    BY <1>1, <1>2 DEF ServerSafe, ServerTypeOK
  <2>2. jobs' \in Seq(Jobs)
    BY <1>1, <1>2
  <2> QED
    BY <1>1, <1>4, <2>1, <2>2 DEF ServerSafe, ServerTypeOK
<1>6. OneJobPerWaitingTask'
  <2>1. \A u \in Requests : Waiting(u)' = Waiting(u)
    BY <1>1 DEF Waiting
  <2>2. \A u \in Requests :
          /\ Cardinality(Queued(u)) \in Nat /\ Cardinality(Worked(u)) \in Nat
          /\ Cardinality(Waiting(u)) \in Nat
    BY PlaceCounts DEF ServerSafe
  <2>3. \A u \in Requests :
          /\ Cardinality(Queued(u)') = Cardinality(Queued(u)) - (IF job.req = u THEN 1 ELSE 0)
          /\ Cardinality(Worked(u)') = Cardinality(Worked(u)) + (IF job.req = u THEN 1 ELSE 0)
    BY <1>1, <1>2, JobTaken, WorkTaken DEF ServerSafe
  <2> HIDE DEF job
  <2>4. ASSUME NEW u \in Requests
        PROVE  Cardinality(Queued(u)') + Cardinality(Worked(u)')
                 = Cardinality(Queued(u)) + Cardinality(Worked(u))
    <3>1. CASE job.req = u
      <4>1. /\ Cardinality(Queued(u)') = Cardinality(Queued(u)) - 1
            /\ Cardinality(Worked(u)') = Cardinality(Worked(u)) + 1
        BY <2>3, <3>1
      <4> QED
        BY <2>2, <4>1
    <3>2. CASE job.req # u
      BY <2>2, <2>3, <3>2
    <3> QED
      BY <3>1, <3>2
  <2> QED
    BY <1>1, <2>1, <2>4 DEF ServerSafe, ServerInvariant, OneJobPerWaitingTask
<1>7. \A u \in Requests : StageFacts(req'[u])
  BY <1>1 DEF ServerSafe, ServerInvariant
<1>8. Holds'
  <2>1. Holds /\ \A u \in Threads : gil' # u
    BY <1>1, ServerNoneAssumption DEF ServerSafe, ServerInvariant
  <2>2. \A u \in Threads : /\ phase'[u] # "idle" => want'[u] \in Keys
                           /\ loaded'[u] # NotLoaded => phase'[u] = "missed"
    BY <1>1, <1>4, <2>1 DEF Holds
  <2> QED
    BY <1>1, <1>4, <2>1, <2>2 DEF Holds
<1>9. Idles' /\ DegradedAnswersOnly'
  BY <1>1, <1>3 DEF Idles, DegradedAnswersOnly
<1> QED
  BY <1>5, <1>6, <1>7, <1>8, <1>9 DEF ServerSafe, ServerInvariant

\* A call of the store that touches neither the loop nor the executor's queue
LEMMA CacheStepSafe ==
    ASSUME ServerSafe, ~degraded, gil = None,
           UNCHANGED <<asked, target, fileVars, loopVars, jobs, work, gil>>,
           lru' \in Seq(Entries(Keys, Metas)), Len(lru') <= MaxEntries, UniqueKeys(lru'),
           phase' \in [Threads -> {"idle", "asked", "missed"}],
           want' \in [Threads -> Keys \cup {None}],
           out' \in [Threads -> Results], loaded' \in [Threads -> Results],
           \A u \in Threads : /\ phase'[u] # "idle" => want'[u] \in Keys
                              /\ loaded'[u] # NotLoaded => phase'[u] = "missed"
                              /\ loaded'[u].status = "ok" => loaded'[u].meta \in Metas
    PROVE  ServerSafe'
<1>1. UNCHANGED <<degraded, disk, clock, ready, running, req, resp>>
  BY DEF fileVars, loopVars
<1>2. ServerTypeOK'
  BY <1>1 DEF ServerSafe, ServerTypeOK
<1>3. OneJobPerWaitingTask' /\ \A u \in Requests : StageFacts(req'[u])
  BY <1>1 DEF ServerSafe, ServerInvariant, OneJobPerWaitingTask, Queued, Worked, Waiting
<1>4. Holds'
  BY <1>1 DEF ServerSafe, ServerInvariant, Holds
<1>5. Idles' /\ DegradedAnswersOnly'
  BY <1>1 DEF Idles, DegradedAnswersOnly
<1> QED
  BY <1>2, <1>3, <1>4, <1>5 DEF ServerSafe, ServerInvariant

\* A thread in the middle of a call runs for a server that is not degraded.
LEMMA ThreadFacts ==
    ASSUME ServerSafe, NEW t \in Threads, phase[t] # "idle"
    PROVE  ~degraded /\ want[t] \in Keys
BY DEF ServerSafe, ServerInvariant, Idles, Holds

\* What Reply changes
LEMMA ReplyFacts ==
    ASSUME ServerSafe, NEW t \in Threads, NEW a \in Results, Reply(t, a)
    PROVE  /\ phase' \in [Threads -> {"idle", "asked", "missed"}]
           /\ want' \in [Threads -> Keys \cup {None}] /\ out' \in [Threads -> Results]
           /\ UNCHANGED <<asked, target>>
           /\ phase'[t] = "idle"
           /\ \A u \in Threads \ {t} : phase'[u] = phase[u] /\ want'[u] = want[u]
BY DEF ServerSafe, ServerTypeOK, Reply, invalidation

LEMMA LookupSafe ==
    ASSUME ServerSafe, NEW t \in Threads, Lookup(t)
    PROVE  ServerSafe'
<1>1. /\ gil = None /\ UNCHANGED <<fileVars, loopVars, jobs, work, loaded, gil>>
      /\ Hit(t) \/ (Miss(t) /\ phase[t] = "asked")
  BY DEF Lookup, Runs, poolVars, Hit, Miss
<1>2. ~degraded /\ want[t] \in Keys /\ phase[t] = "asked"
  BY <1>1, ThreadFacts DEF Hit
<1>3. /\ lru \in Seq(Entries(Keys, Metas)) /\ Len(lru) <= MaxEntries /\ UniqueKeys(lru)
      /\ loaded \in [Threads -> Results]
      /\ \A u \in Threads : /\ phase[u] # "idle" => want[u] \in Keys
                            /\ loaded[u] # NotLoaded => phase[u] = "missed"
                            /\ loaded[u].status = "ok" => loaded[u].meta \in Metas
  BY DEF ServerSafe, ServerTypeOK, ServerInvariant, Holds
<1>4. CASE Hit(t)
  <2> DEFINE m == MetaOf(lru, want[t])
  <2>1. /\ want[t] \in KeysOf(lru) /\ lru' = Queried(lru, want[t], m)
        /\ Reply(t, Answer("ok", m))
    BY <1>4 DEF Hit
  <2>2. m \in Metas
    <3>1. IndexOf(lru, want[t]) \in 1..Len(lru)
      BY <1>3, <2>1, IndexOfKey
    <3>2. lru[IndexOf(lru, want[t])] \in Entries(Keys, Metas)
      BY <1>3, <3>1
    <3> QED
      BY <3>2 DEF MetaOf, Entries
  <2> HIDE DEF m
  <2>3. Answer("ok", m) \in Results
    BY <2>2 DEF Answer, Results
  <2>4. /\ lru' \in Seq(Entries(Keys, Metas)) /\ Len(lru') <= MaxEntries /\ UniqueKeys(lru')
    BY <1>2, <1>3, <2>1, <2>2, QueriedProperties
  <2>5. /\ phase' \in [Threads -> {"idle", "asked", "missed"}]
        /\ want' \in [Threads -> Keys \cup {None}] /\ out' \in [Threads -> Results]
        /\ UNCHANGED <<asked, target>>
        /\ phase'[t] = "idle"
        /\ \A u \in Threads \ {t} : phase'[u] = phase[u] /\ want'[u] = want[u]
    BY <2>1, <2>3, ReplyFacts
  <2>6. \A u \in Threads : /\ phase'[u] # "idle" => want'[u] \in Keys
                           /\ loaded'[u] # NotLoaded => phase'[u] = "missed"
                           /\ loaded'[u].status = "ok" => loaded'[u].meta \in Metas
    BY <1>1, <1>2, <1>3, <2>5
  <2> QED
    BY <1>1, <1>2, <1>3, <2>4, <2>5, <2>6, CacheStepSafe
<1>5. CASE Miss(t)
  <2>1. /\ phase' \in [Threads -> {"idle", "asked", "missed"}] /\ phase'[t] = "missed"
        /\ \A u \in Threads \ {t} : phase'[u] = phase[u]
        /\ UNCHANGED <<lru, want, out, asked, target>>
    BY <1>5 DEF Miss, ServerSafe, ServerTypeOK, invalidation
  <2>2. \A u \in Threads : /\ phase'[u] # "idle" => want'[u] \in Keys
                           /\ loaded'[u] # NotLoaded => phase'[u] = "missed"
                           /\ loaded'[u].status = "ok" => loaded'[u].meta \in Metas
    BY <1>1, <1>2, <1>3, <2>1
  <2>3. want \in [Threads -> Keys \cup {None}] /\ out \in [Threads -> Results]
    BY DEF ServerSafe, ServerTypeOK
  <2> QED
    BY <1>1, <1>2, <1>3, <2>1, <2>2, <2>3, CacheStepSafe
<1> QED
  BY <1>1, <1>4, <1>5

LEMMA LoadSafe ==
    ASSUME ServerSafe, NEW t \in Threads, Load(t)
    PROVE  ServerSafe'
<1> DEFINE file == disk[want[t]]
<1>1. /\ gil = None /\ phase[t] = "missed" /\ loaded[t] = NotLoaded
      /\ UNCHANGED <<contractVars, fileVars, loopVars, jobs, work, gil>>
  BY DEF Load, Runs
<1>2. ~degraded /\ want[t] \in Keys
  BY <1>1, ThreadFacts
<1>3. file.stamp \in Metas
  <2>1. file \in [stamp : 0..MaxStamp, shape : Shapes]
    BY <1>2 DEF ServerSafe, ServerTypeOK
  <2> QED
    BY <2>1, ServerMetasAssumption
<1>4. PICK s \in {"ok", "too_large", "malformed", "value_error", "os_error"} :
        loaded' = [loaded EXCEPT ![t] = [status |-> s, meta |-> IF s = "ok" THEN file.stamp ELSE NoMeta]]
  <2>1. file.shape \in {"ok", "big", "malformed", "drifted", "unsteady", "absent", "dangling"}
    BY <1>2, ServerShapesAssumption DEF ServerSafe, ServerTypeOK
  <2> QED
    BY <2>1 DEF Load, Statable
<1> HIDE DEF file
<1>5. /\ loaded' \in [Threads -> Results] /\ \A u \in Threads \ {t} : loaded'[u] = loaded[u]
      /\ loaded'[t].status = "ok" => loaded'[t].meta \in Metas
  BY <1>3, <1>4 DEF ServerSafe, ServerTypeOK, Results
<1>6. \A u \in Threads : /\ phase'[u] # "idle" => want'[u] \in Keys
                         /\ loaded'[u] # NotLoaded => phase'[u] = "missed"
                         /\ loaded'[u].status = "ok" => loaded'[u].meta \in Metas
  BY <1>1, <1>5 DEF ServerSafe, ServerInvariant, Holds, contractVars
<1>7. UNCHANGED <<lru, phase, want, out, asked, target>>
  BY <1>1 DEF contractVars, invalidation
<1> QED
  BY <1>1, <1>2, <1>5, <1>6, <1>7, CacheStepSafe DEF ServerSafe, ServerTypeOK

LEMMA EndParseSafe ==
    ASSUME ServerSafe, NEW t \in Threads, EndParse(t)
    PROVE  ServerSafe'
<1> DEFINE m == loaded[t].meta
           e == loaded[t].status
<1>1. /\ gil = None /\ loaded[t] # NotLoaded /\ loaded' = [loaded EXCEPT ![t] = NotLoaded]
      /\ IF e = "ok" THEN Admit(t, m) ELSE GiveUp(t, e)
      /\ UNCHANGED <<fileVars, loopVars, jobs, work, gil>>
  BY DEF EndParse, Runs
<1>2. phase[t] = "missed" /\ ~degraded /\ want[t] \in Keys
  BY <1>1, ThreadFacts DEF ServerSafe, ServerInvariant, Holds
<1>3. /\ lru \in Seq(Entries(Keys, Metas)) /\ Len(lru) <= MaxEntries /\ UniqueKeys(lru)
      /\ loaded \in [Threads -> Results]
      /\ \A u \in Threads : /\ phase[u] # "idle" => want[u] \in Keys
                            /\ loaded[u] # NotLoaded => phase[u] = "missed"
                            /\ loaded[u].status = "ok" => loaded[u].meta \in Metas
  BY DEF ServerSafe, ServerTypeOK, ServerInvariant, Holds
<1>4. /\ loaded' \in [Threads -> Results] /\ loaded'[t] = NotLoaded
      /\ \A u \in Threads \ {t} : loaded'[u] = loaded[u]
  <2>1. NotLoaded \in Results
    BY DEF NotLoaded, Results
  <2> QED
    BY <1>1, <1>3, <2>1
<1>5. NotLoaded.status # "ok"
  BY DEF NotLoaded
<1>6. ASSUME NEW a \in Results, Reply(t, a),
             lru' \in Seq(Entries(Keys, Metas)), Len(lru') <= MaxEntries, UniqueKeys(lru')
      PROVE  ServerSafe'
  <2>1. /\ phase' \in [Threads -> {"idle", "asked", "missed"}]
        /\ want' \in [Threads -> Keys \cup {None}] /\ out' \in [Threads -> Results]
        /\ UNCHANGED <<asked, target>>
        /\ phase'[t] = "idle"
        /\ \A u \in Threads \ {t} : phase'[u] = phase[u] /\ want'[u] = want[u]
    BY <1>6, ReplyFacts
  <2>2. \A u \in Threads : /\ phase'[u] # "idle" => want'[u] \in Keys
                           /\ loaded'[u] # NotLoaded => phase'[u] = "missed"
                           /\ loaded'[u].status = "ok" => loaded'[u].meta \in Metas
    BY <1>3, <1>4, <1>5, <2>1
  <2> QED
    BY <1>1, <1>2, <1>4, <1>6, <2>1, <2>2, CacheStepSafe
<1>7. CASE e = "ok"
  <2>1. m \in Metas
    BY <1>3, <1>7
  <2> HIDE DEF m, e
  <2>2. lru' = Trim(Queried(lru, want[t], m)) /\ Reply(t, Answer("ok", m))
    BY <1>1, <1>7 DEF Admit
  <2>3. Queried(lru, want[t], m) \in Seq(Entries(Keys, Metas)) /\ UniqueKeys(Queried(lru, want[t], m))
    BY <1>2, <1>3, <2>1, QueriedProperties
  <2>4. lru' \in Seq(Entries(Keys, Metas)) /\ Len(lru') <= MaxEntries /\ UniqueKeys(lru')
    BY <2>2, <2>3, TrimProperties
  <2>5. Answer("ok", m) \in Results
    BY <2>1 DEF Answer, Results
  <2> QED
    BY <1>6, <2>2, <2>4, <2>5
<1>8. CASE e # "ok"
  <2>1. Reply(t, Answer(e, NoMeta)) /\ lru' = lru
    BY <1>1, <1>8 DEF GiveUp
  <2>2. Answer(e, NoMeta) \in Results
    BY <1>3 DEF Answer, Results
  <2> QED
    BY <1>3, <1>6, <2>1, <2>2
<1> QED
  BY <1>7, <1>8

LEMMA StartMatchSafe ==
    ASSUME ServerSafe, NEW t \in Threads, StartMatch(t)
    PROVE  ServerSafe'
<1>1. /\ work[t].kind = "match" /\ gil' = t /\ t \notin Requests
      /\ UNCHANGED <<contractVars, fileVars, loopVars, jobs, work, loaded>>
  BY ServerNoneAssumption DEF StartMatch
<1>2. ServerTypeOK'
  BY <1>1 DEF ServerSafe, ServerTypeOK, contractVars, invalidation, fileVars, loopVars
<1>3. OneJobPerWaitingTask' /\ \A u \in Requests : StageFacts(req'[u])
  BY <1>1 DEF ServerSafe, ServerInvariant, OneJobPerWaitingTask, Queued, Worked, Waiting, loopVars
<1>4. Holds'
  BY <1>1 DEF ServerSafe, ServerInvariant, Holds, loopVars, contractVars, invalidation
<1>5. Idles' /\ DegradedAnswersOnly'
  BY <1>1 DEF ServerSafe, ServerInvariant, Idles, DegradedAnswersOnly, loopVars, fileVars, contractVars
<1> QED
  BY <1>2, <1>3, <1>4, <1>5 DEF ServerSafe, ServerInvariant

\* The end of a job: the task that waits for it becomes runnable.
LEMMA DeliverSafe ==
    ASSUME ServerSafe, NEW t \in Threads, NEW x \in Results, Deliver(t, x), work[t] \in Jobs,
           gil \in {None, t}, gil' = None
    PROVE  ServerSafe'
<1> DEFINE r == work[t].req
           q == [req[r] EXCEPT !.result = x]
<1>1. /\ req' = [req EXCEPT ![r] = q] /\ ready' = Append(ready, r)
      /\ work' = [work EXCEPT ![t] = NoJob]
      /\ UNCHANGED <<lru, phase, want, out, asked, target, degraded, disk, clock,
                     running, resp, jobs, loaded>>
  BY DEF Deliver, contractVars, invalidation, fileVars
<1>2. r \in Requests /\ req[r] \in Locals
  BY DEF Jobs, ServerSafe, ServerTypeOK
<1>3. /\ q \in Locals /\ q.stage = req[r].stage /\ q.tool = req[r].tool /\ q.arg = req[r].arg
      /\ q.todo = req[r].todo /\ q.files = req[r].files
      /\ q.scanned = req[r].scanned /\ q.skipped = req[r].skipped
  BY <1>2, LocalsTypes DEF Locals
<1> HIDE DEF q
<1>4. StageFacts(q)
  <2>1. StageFacts(req[r]) /\ (Accounted(q) <=> Accounted(req[r]))
    BY <1>2, <1>3, SameAccount DEF ServerSafe, ServerInvariant
  <2> QED
    BY <1>3, <2>1 DEF StageFacts
<1>5. /\ req'[r] = q /\ \A u \in Requests \ {r} : req'[u] = req[u]
  BY <1>1, <1>2 DEF ServerSafe, ServerTypeOK
<1>6. \A u \in Requests : req'[u].stage = req[u].stage /\ req'[u].arg = req[u].arg
  BY <1>3, <1>5
<1>7. ServerTypeOK'
  <2>1. req' \in [Requests -> Locals]
    BY <1>1, <1>2, <1>3 DEF ServerSafe, ServerTypeOK
  <2>2. ready' \in Seq(Requests)
    BY <1>1, <1>2 DEF ServerSafe, ServerTypeOK
  <2>3. work' \in [Threads -> Jobs \cup {NoJob}]
    BY <1>1 DEF ServerSafe, ServerTypeOK
  <2> QED
    BY <1>1, <2>1, <2>2, <2>3 DEF ServerSafe, ServerTypeOK
<1>8. OneJobPerWaitingTask'
  <2>1. \A u \in Requests : Queued(u)' = Queued(u)
    BY <1>1 DEF Queued
  <2>2. \A u \in Requests :
          /\ Cardinality(Queued(u)) \in Nat /\ Cardinality(Worked(u)) \in Nat
          /\ Cardinality(Waiting(u)) \in Nat
    BY PlaceCounts DEF ServerSafe
  <2>3. \A u \in Requests :
          /\ Cardinality(Waiting(u)') = Cardinality(Waiting(u)) + (IF r = u THEN 1 ELSE 0)
          /\ Cardinality(Worked(u)') = Cardinality(Worked(u)) - (IF r = u THEN 1 ELSE 0)
    BY <1>1, <1>2, ReadyAppended, WorkDone DEF ServerSafe
  <2> HIDE DEF r
  <2>4. ASSUME NEW u \in Requests
        PROVE  Cardinality(Queued(u)) + Cardinality(Worked(u)') + Cardinality(Waiting(u)')
                 = Cardinality(Queued(u)) + Cardinality(Worked(u)) + Cardinality(Waiting(u))
    <3>1. CASE u = r
      <4>1. /\ Cardinality(Waiting(u)') = Cardinality(Waiting(u)) + 1
            /\ Cardinality(Worked(u)') = Cardinality(Worked(u)) - 1
        BY <2>3, <3>1
      <4> QED
        BY <2>2, <4>1
    <3>2. CASE u # r
      <4>1. /\ Cardinality(Waiting(u)') = Cardinality(Waiting(u))
            /\ Cardinality(Worked(u)') = Cardinality(Worked(u))
        BY <2>2, <2>3, <3>2
      <4> QED
        BY <4>1
    <3> QED
      BY <3>1, <3>2
  <2> QED
    BY <1>1, <1>6, <2>1, <2>4 DEF ServerSafe, ServerInvariant, OneJobPerWaitingTask
<1>9. \A u \in Requests : StageFacts(req'[u])
  BY <1>4, <1>5 DEF ServerSafe, ServerInvariant
<1>10. Holds'
  BY <1>1, <1>6, ServerNoneAssumption DEF ServerSafe, ServerInvariant, Holds
<1>11. Idles' /\ DegradedAnswersOnly'
  <2>1. degraded => work[t] = NoJob
    BY DEF ServerSafe, ServerInvariant, Idles
  <2>2. work[t] # NoJob
    <3>1. NoJob.req = None
      BY DEF NoJob
    <3> QED
      BY <1>2, <3>1, ServerNoneAssumption
  <2> QED
    BY <1>1, <2>1, <2>2 DEF Idles, DegradedAnswersOnly
<1> QED
  BY <1>7, <1>8, <1>9, <1>10, <1>11 DEF ServerSafe, ServerInvariant

LEMMA EndMatchSafe ==
    ASSUME ServerSafe, NEW t \in Threads, EndMatch(t)
    PROVE  ServerSafe'
<1>1. gil = t /\ gil' = None /\ Deliver(t, NotLoaded)
  BY DEF EndMatch
<1>2. work[t] \in Jobs
  BY <1>1 DEF ServerSafe, ServerTypeOK, ServerInvariant, Holds, NoJob
<1>3. NotLoaded \in Results
  BY DEF NotLoaded, Results
<1> QED
  BY <1>1, <1>2, <1>3, DeliverSafe

LEMMA FinishSafe ==
    ASSUME ServerSafe, NEW t \in Threads, Finish(t)
    PROVE  ServerSafe'
<1>1. gil = None /\ gil' = None /\ Deliver(t, out[t]) /\ work[t].kind = "parse"
  BY DEF Finish, Runs
<1>2. work[t] \in Jobs /\ out[t] \in Results
  BY <1>1 DEF ServerSafe, ServerTypeOK, NoJob
<1> QED
  BY <1>1, <1>2, DeliverSafe

----------------------------------------------------------------------------
LEMMA InitSafe == SInit => ServerSafe
<1> SUFFICES ASSUME SInit PROVE ServerSafe
  OBVIOUS
<1>1. ServerTypeOK
  <2>1. lru \in Seq(Entries(Keys, Metas)) /\ Len(lru) <= MaxEntries /\ UniqueKeys(lru)
    <3>1. lru = <<>> /\ Len(<<>>) = 0 /\ DOMAIN <<>> = {}
      BY DEF SInit, CInit
    <3> QED
      BY <3>1, ServerBoundAssumption DEF UniqueKeys
  <2>2. out \in [Threads -> Results] /\ loaded \in [Threads -> Results]
    BY DEF SInit, CInit, Unanswered, Answer, NotLoaded, Results
  <2>3. req \in [Requests -> Locals]
    BY IdleType DEF SInit
  <2>4. disk \in [Keys -> [stamp : 0..MaxStamp, shape : Shapes]] /\ clock \in 0..MaxStamp
    BY ServerMetasAssumption DEF SInit
  <2>5. resp \in [Requests -> [status : Codes, meta : Metas \cup {NoMeta}]]
    BY DEF SInit, NoResponse, Codes
  <2>6. ready \in Seq(Requests) /\ jobs \in Seq(Jobs)
    BY DEF SInit
  <2> QED
    BY <2>1, <2>2, <2>3, <2>4, <2>5, <2>6 DEF ServerTypeOK, SInit, CInit
<1>2. OneJobPerWaitingTask
  <2>1. ASSUME NEW r \in Requests
        PROVE  /\ Queued(r) = {} /\ Worked(r) = {} /\ Waiting(r) = {}
               /\ running # r /\ req[r].stage = "idle"
    <3>1. DOMAIN <<>> = {}
      OBVIOUS
    <3>2. jobs = <<>> /\ ready = <<>> /\ running = None /\ req[r] = Idle
      BY DEF SInit
    <3>3. \A t \in Threads : work[t].req = None
      BY DEF SInit, NoJob
    <3> QED
      BY <3>1, <3>2, <3>3, IdleFacts, ServerNoneAssumption DEF Queued, Worked, Waiting
  <2>2. Cardinality({}) = 0
    BY FS_EmptySet
  <2> QED
    BY <2>1, <2>2 DEF OneJobPerWaitingTask
<1>3. \A r \in Requests : StageFacts(req[r]) /\ req[r].stage = "idle"
  BY IdleFacts DEF SInit
<1>4. Holds
  BY <1>3, ServerNoneAssumption DEF Holds, SInit, CInit, NotLoaded
<1>5. Idles /\ DegradedAnswersOnly
  BY <1>3 DEF Idles, DegradedAnswersOnly, SInit, CInit, NoResponse
<1> QED
  BY <1>1, <1>2, <1>3, <1>4, <1>5 DEF ServerSafe, ServerInvariant

LEMMA StutterSafe ==
    ASSUME ServerSafe, UNCHANGED serverVars
    PROVE  ServerSafe'
<1>1. ServerTypeOK'
  BY DEF ServerSafe, ServerTypeOK, serverVars, contractVars, invalidation, fileVars, loopVars, poolVars
<1>2. ServerInvariant'
  BY DEF ServerSafe, ServerInvariant, OneJobPerWaitingTask, Queued, Worked, Waiting, Holds, Idles,
         DegradedAnswersOnly, serverVars, contractVars, invalidation, fileVars, loopVars, poolVars
<1> QED
  BY <1>1, <1>2 DEF ServerSafe

LEMMA LoopStepSafe ==
    ASSUME ServerSafe, NEW r \in Requests, LoopStep(r)
    PROVE  ServerSafe'
BY DispatchSafe, GlobSafe, IndexSafe, IndexedSafe, ResolveSafe, SizeSafe, SyntheticSafe, EachSafe,
   EachDoneSafe, ParsedSafe, MatchedSafe, StartNamesSafe, StartDropSafe, EndDropSafe DEF LoopStep

LEMMA NextSafe ==
    ASSUME ServerSafe, SNext
    PROVE  ServerSafe'
<1>1. CASE Arrival
  <2>1. PICK r \in Requests, tool \in Tools :
          \E arg \in Keys \cup {None}, exact \in BOOLEAN : Send(r, tool, arg, exact)
    BY <1>1 DEF Arrival
  <2> QED
    BY <2>1, SendSafe
<1>2. CASE \E k \in Keys : Write(k)
  BY <1>2, WriteSafe
<1>3. CASE LoopRuns
  BY <1>3, PickSafe, LoopStepSafe DEF LoopRuns
<1>4. CASE \E r \in Requests : EndNames(r)
  BY <1>4, EndNamesSafe
<1>5. ASSUME NEW t \in Threads, ParseStep(t) \/ MatchStep(t) \/ EndMatch(t)
      PROVE  ServerSafe'
  BY <1>5, TakeSafe, LookupSafe, LoadSafe, EndParseSafe, StartMatchSafe, EndMatchSafe, FinishSafe
     DEF ParseStep, MatchStep
<1> QED
  BY <1>1, <1>2, <1>3, <1>4, <1>5 DEF SNext

----------------------------------------------------------------------------
(* The theorems *)

\* The types of the server's state and its inductive invariant hold in every
\* reachable state, whatever tools are called, however files change and
\* however the loop and the threads interleave.
THEOREM ServerKeepsInvariant == ServerSpec => [](ServerTypeOK /\ ServerInvariant)
<1>1. SInit => ServerSafe
  BY InitSafe
<1>2. ServerSafe /\ [SNext]_serverVars => ServerSafe'
  BY NextSafe, StutterSafe
<1> QED
  BY <1>1, <1>2, PTL DEF ServerSpec, ServerSafe

\* The cache of the server holds at most max_entries files, each once, and
\* every local, queue and result has its type.
THEOREM ServerTypeCorrect == ServerSpec => []ServerTypeOK
BY ServerKeepsInvariant, PTL

\* A handler that awaits has handed over exactly one job, a job wakes exactly
\* one task, and no task is both running and waiting.
THEOREM JobsMatchTasks == ServerSpec => []OneJobPerWaitingTask
<1>1. ServerInvariant => OneJobPerWaitingTask
  BY DEF ServerInvariant
<1> QED
  BY <1>1, ServerKeepsInvariant, PTL

\* A server that booted into a configuration error never parses, never caches
\* and answers every call with that error.
THEOREM DegradedServerOnlyReports == ServerSpec => []DegradedAnswersOnly
<1>1. ServerInvariant => DegradedAnswersOnly
  BY DEF ServerInvariant
<1> QED
  BY <1>1, ServerKeepsInvariant, PTL

----------------------------------------------------------------------------
(* The action properties: who answers, and from where *)

\* A step that leaves the loop, and answers, is a step of the running handler.
LEMMA AnswererRuns ==
    ASSUME ServerSafe, SNext, NEW r \in Requests, Responds(r)
    PROVE  LoopStep(r)
<1>1. running = r /\ running' = None /\ r # None
  BY ServerNoneAssumption DEF Responds
<1>2. ~Arrival
  <2>1. ASSUME NEW u, NEW tool, NEW arg, NEW exact, Send(u, tool, arg, exact)
        PROVE  FALSE
    BY <1>1, <2>1 DEF Send
  <2> QED
    BY <2>1 DEF Arrival
<1>3. \A k \in Keys : ~Write(k)
  BY <1>1 DEF Write, loopVars
<1>4. ~Pick
  BY <1>1 DEF Pick
<1>5. \A u \in Requests : ~EndNames(u)
  BY <1>1 DEF EndNames, Step
<1>6. ASSUME NEW t \in Threads PROVE ~(ParseStep(t) \/ MatchStep(t) \/ EndMatch(t))
  BY <1>1 DEF ParseStep, MatchStep, EndMatch, Take, Lookup, Load, EndParse, Finish, StartMatch,
              Deliver, loopVars
<1>7. \A u \in Requests : LoopStep(u) => running = u
  BY DEF LoopStep, Dispatch, Glob, Index, Indexed, Resolve, Size, Synthetic, Each, EachDone,
         Parsed, Matched, StartNames, StartDrop, EndDrop, OnLoop
<1> QED
  BY <1>1, <1>2, <1>3, <1>4, <1>5, <1>6, <1>7 DEF SNext, LoopRuns

\* The handler answers before its targets are known, when they are done with,
\* for the one file it was asked about, or when the store has dropped.
LEMMA AnswersFrom ==
    ASSUME ServerSafe, SNext, NEW r \in Requests, Responds(r)
    PROVE  \/ /\ req[r].stage \in {"start", "index", "resolve", "size", "synthetic"}
              /\ resp'[r].status = "ok" => req[r].tool \notin Scanning
           \/ EachDone(r)
           \/ req[r].stage = "parsing" /\ req[r].tool \in Parsing
           \/ EndDrop(r)
<1>1. /\ LoopStep(r) /\ running = r /\ running' = None /\ r # None /\ req'[r].stage = "idle"
      /\ resp \in [Requests -> [status : Codes, meta : Metas \cup {NoMeta}]]
      /\ req \in [Requests -> Locals]
  BY AnswererRuns, ServerNoneAssumption DEF Responds, ServerSafe, ServerTypeOK
<1>2. \A q : ~Step(r, q)
  BY <1>1 DEF Step
<1>3. \A kind, k, s : Await(r, kind, k, s) => s = "idle"
  BY <1>1 DEF Await, Locals
<1>4. \A s : Respond(r, s) => resp'[r].status = s
  BY <1>1 DEF Respond, Answered
<1>5. StageFacts(req[r])
  BY DEF ServerSafe, ServerInvariant
<1>6. CASE Dispatch(r)
  <2>1. req[r].stage = "start"
    BY <1>6 DEF Dispatch, OnLoop
  <2>2. \E s \in {"config_error", "internal", "input"} : Respond(r, s)
    BY <1>2, <1>6 DEF Dispatch
  <2> QED
    BY <1>4, <2>1, <2>2
<1>7. CASE Index(r)
  BY <1>2, <1>4, <1>7 DEF Index, OnLoop
<1>8. CASE Indexed(r)
  <2>1. req[r].stage = "index"
    BY <1>8 DEF Indexed, OnLoop
  <2>2. req[r].tool = "list_files"
    BY <1>2, <1>8 DEF Indexed
  <2> QED
    BY <2>1, <2>2 DEF Scanning
<1>9. CASE Resolve(r)
  <2>1. req[r].stage = "resolve"
    BY <1>9 DEF Resolve, OnLoop
  <2>2. Respond(r, "file_not_found") \/ req[r].tool = "reload"
    BY <1>2, <1>9 DEF Resolve
  <2> QED
    BY <1>4, <2>1, <2>2 DEF Scanning
<1>10. CASE Size(r)
  <2>1. req[r].stage = "size"
    BY <1>10 DEF Size, OnLoop
  <2>2. \E s \in {"qvw_dir_unreadable", "qvw_too_large", "unsupported"} : Respond(r, s)
    BY <1>2, <1>3, <1>10 DEF Size
  <2> QED
    BY <1>4, <2>1, <2>2
<1>11. CASE Synthetic(r)
  BY <1>2, <1>4, <1>11 DEF Synthetic, OnLoop
<1>12. CASE Parsed(r)
  <2>1. req[r].stage = "parsing"
    BY <1>12 DEF Parsed, OnLoop
  <2>2. req[r].tool \in Parsing \/ req[r].tool \in Scanning
    BY <1>5, <2>1 DEF StageFacts
  <2>3. ASSUME req[r].tool \notin Parsing
        PROVE  FALSE
    BY <1>2, <1>3, <1>12, <2>2, <2>3 DEF Parsed, Skip, Scanning
  <2> QED
    BY <2>1, <2>3
<1>13. ~Glob(r) /\ ~Matched(r) /\ ~StartNames(r) /\ ~StartDrop(r)
  BY <1>1, <1>2 DEF Glob, Matched, StartNames, StartDrop, loopVars
<1>14. ~Each(r)
  BY <1>2, <1>3 DEF Each, Skip
<1> QED
  BY <1>1, <1>6, <1>7, <1>8, <1>9, <1>10, <1>11, <1>12, <1>13, <1>14 DEF LoopStep

\* When search or list_tables answers, it has reported every file it was to
\* cover exactly once, for any number of files and of concurrent requests.
THEOREM TargetsAccountedFor == ServerSpec => EveryTargetAccountedFor
<1>1. ASSUME ServerSafe, SNext, NEW r \in Requests, Responds(r), resp'[r].status = "ok",
             req[r].tool \in Scanning
      PROVE  /\ ToSet(req[r].scanned) \cup ToSet(req[r].skipped) = ToSet(req[r].files)
             /\ Len(req[r].scanned) + Len(req[r].skipped) = Len(req[r].files)
  <2>1. req[r] \in Locals /\ StageFacts(req[r])
    BY <1>1 DEF ServerSafe, ServerTypeOK, ServerInvariant
  <2>2. EachDone(r)
    <3>1. req[r].tool \notin Parsing /\ req[r].tool # "reload"
      BY <1>1 DEF Scanning, Parsing
    <3>2. ~EndDrop(r)
      BY <2>1, <3>1 DEF StageFacts, EndDrop, OnLoop
    <3> QED
      BY <1>1, <3>1, <3>2, AnswersFrom
  <2>3. req[r].stage = "each" /\ req[r].todo = <<>>
    BY <2>2 DEF EachDone, OnLoop
  <2>4. Accounted(req[r])
    BY <1>1, <2>1, <2>3 DEF StageFacts
  <2>5. ToSet(<<>>) = {} /\ Len(<<>>) = 0
    BY DEF ToSet
  <2>6. Len(req[r].scanned) \in Nat /\ Len(req[r].skipped) \in Nat
    BY <2>1 DEF Locals
  <2>7. Len(req[r].scanned) + Len(req[r].skipped) + 0 = Len(req[r].files)
    BY <2>3, <2>4, <2>5 DEF Accounted
  <2>8. Len(req[r].scanned) + Len(req[r].skipped) = Len(req[r].files)
    <3>1. \A a, b \in Nat : a + b + 0 = a + b
      OBVIOUS
    <3> QED
      BY <2>6, <2>7, <3>1
  <2> QED
    BY <2>3, <2>4, <2>5, <2>8 DEF Accounted
<1>2. ServerSafe /\ [SNext]_serverVars =>
        [\A r \in Requests :
            Responds(r) /\ resp'[r].status = "ok" /\ req[r].tool \in Scanning =>
                /\ ToSet(req[r].scanned) \cup ToSet(req[r].skipped) = ToSet(req[r].files)
                /\ Len(req[r].scanned) + Len(req[r].skipped) = Len(req[r].files)]_serverVars
  BY <1>1
<1> QED
  BY <1>2, ServerKeepsInvariant, PTL DEF ServerSpec, ServerSafe, EveryTargetAccountedFor

----------------------------------------------------------------------------
(* The history.  First what the cache's operators keep of its entries.     *)

LEMMA WithoutEntries ==
    ASSUME NEW d \in Seq(Entries(Keys, Metas)), UniqueKeys(d), NEW k, NEW j \in DOMAIN Without(d, k)
    PROVE  Without(d, k)[j].key # k /\ \E i \in DOMAIN d : Without(d, k)[j] = d[i]
<1>1. Without(d, k)[j].key # k
  BY WithoutProperties DEF KeysOf
<1>2. CASE k \in KeysOf(d)
  <2> DEFINE n == IndexOf(d, k)
  <2>1. n \in 1..Len(d)
    BY <1>2, IndexOfKey
  <2>2. Without(d, k) = RemoveAt(d, n)
    BY <1>2 DEF Without, Delete
  <2> HIDE DEF n
  <2>3. /\ RemoveAt(d, n) \in Seq(Entries(Keys, Metas)) /\ Len(RemoveAt(d, n)) = Len(d) - 1
        /\ \A i \in 1..(Len(d) - 1) : RemoveAt(d, n)[i] = IF i < n THEN d[i] ELSE d[i + 1]
    BY <2>1, RemoveAtProperties
  <2>4. j \in 1..(Len(d) - 1) /\ Len(d) \in Nat
    BY <2>2, <2>3
  <2>5. j \in DOMAIN d /\ j + 1 \in DOMAIN d
    BY <2>4
  <2> QED
    BY <1>1, <2>2, <2>3, <2>4, <2>5
<1>3. CASE k \notin KeysOf(d)
  BY <1>1, <1>3 DEF Without
<1> QED
  BY <1>2, <1>3

LEMMA QueriedEntries ==
    ASSUME NEW d \in Seq(Entries(Keys, Metas)), UniqueKeys(d), NEW k, NEW m,
           NEW j \in DOMAIN Queried(d, k, m)
    PROVE  \/ Queried(d, k, m)[j] = [key |-> k, meta |-> m]
           \/ \E i \in DOMAIN d : Queried(d, k, m)[j] = d[i]
<1> DEFINE w == Without(d, k)
<1>1. w \in Seq(Entries(Keys, Metas))
  BY WithoutProperties
<1>2. \A i \in DOMAIN w : \E n \in DOMAIN d : w[i] = d[n]
  BY WithoutEntries
<1> HIDE DEF w
<1>3. /\ j \in 1..(Len(w) + 1)
      /\ Queried(d, k, m)[j] = IF j = Len(w) + 1 THEN [key |-> k, meta |-> m] ELSE w[j]
  BY <1>1 DEF Queried, w
<1>4. Len(w) \in Nat /\ DOMAIN w = 1..Len(w)
  BY <1>1
<1> QED
  BY <1>2, <1>3, <1>4

LEMMA TrimEntries ==
    ASSUME NEW d \in Seq(Entries(Keys, Metas)), NEW j \in DOMAIN Trim(d)
    PROVE  \E i \in DOMAIN d : Trim(d)[j] = d[i]
<1>1. MaxEntries \in Nat \ {0} /\ Len(d) \in Nat /\ DOMAIN d = 1..Len(d)
  BY ServerBoundAssumption
<1>2. CASE Len(d) > MaxEntries
  <2> DEFINE s == Len(d) - MaxEntries
             e == SubSeq(d, s + 1, Len(d))
  <2>1. s \in Nat /\ s + MaxEntries = Len(d)
    BY <1>1, <1>2
  <2>2. /\ DOMAIN e = 1..MaxEntries
        /\ \A i \in 1..MaxEntries : s + i \in 1..Len(d) /\ e[i] = d[s + i]
    BY <1>1, <2>1
  <2>3. Trim(d) = e
    BY <1>2 DEF Trim
  <2> HIDE DEF e
  <2> QED
    BY <1>1, <2>2, <2>3
<1>3. CASE ~(Len(d) > MaxEntries)
  BY <1>3 DEF Trim
<1> QED
  BY <1>2, <1>3

----------------------------------------------------------------------------
(* What a step of the server may do to the disk, to a handler's locals and *)
(* to what a thread is doing.                                              *)

\* A step of r's handler leaves the disk, the threads and the other requests
\* alone, and the cache too unless it ends a reload.
LoopKeeps(r) ==
    /\ running = r /\ running' \in {r, None}
    /\ UNCHANGED <<disk, clock, ready, work, loaded, phase, want, out>>
    /\ EndDrop(r) \/ (lru' = lru /\ (asked => asked'))
    /\ \A u \in Requests \ {r} : req'[u] = req[u]

LEMMA StepKeeps ==
    ASSUME ServerSafe, NEW r \in Requests, running = r, NEW q, Step(r, q), UNCHANGED <<fileVars, work, loaded>>,
           UNCHANGED <<phase, want, out, lru>>, asked => asked'
    PROVE  LoopKeeps(r)
BY DEF LoopKeeps, Step, ServerSafe, ServerTypeOK, fileVars

LEMMA AnswerKeeps ==
    ASSUME ServerSafe, NEW r \in Requests, running = r, NEW s, NEW m, Answered(r, s, m),
           UNCHANGED <<fileVars, work, loaded, phase, want, out>>,
           EndDrop(r) \/ (lru' = lru /\ (asked => asked'))
    PROVE  LoopKeeps(r)
BY DEF LoopKeeps, Answered, ServerSafe, ServerTypeOK, fileVars

LEMMA AwaitKeeps ==
    ASSUME ServerSafe, NEW r \in Requests, running = r, NEW kind, NEW k, NEW s, Await(r, kind, k, s),
           UNCHANGED <<contractVars, fileVars>>
    PROVE  LoopKeeps(r)
BY DEF LoopKeeps, Await, ServerSafe, ServerTypeOK, fileVars, contractVars, invalidation

LEMMA LoopStepKeeps ==
    ASSUME ServerSafe, NEW r \in Requests, LoopStep(r) \/ EndNames(r)
    PROVE  LoopKeeps(r)
<1>1. ASSUME running = r, UNCHANGED <<contractVars, fileVars, work, loaded>>
      PROVE  /\ (\E q : Step(r, q)) => LoopKeeps(r)
             /\ (\E s, m : Answered(r, s, m)) => LoopKeeps(r)
             /\ (\E s : Respond(r, s)) => LoopKeeps(r)
  <2>1. UNCHANGED <<phase, want, out, lru, asked>>
    BY <1>1 DEF contractVars, invalidation
  <2> QED
    BY <1>1, <2>1, StepKeeps, AnswerKeeps DEF Respond
<1>2. CASE Dispatch(r)
  BY <1>1, <1>2 DEF Dispatch, OnLoop, poolVars
<1>3. CASE Glob(r)
  BY <1>1, <1>3 DEF Glob, OnLoop, poolVars
<1>4. CASE Index(r)
  BY <1>1, <1>4 DEF Index, OnLoop, poolVars
<1>5. CASE Indexed(r)
  BY <1>1, <1>5 DEF Indexed, OnLoop, poolVars
<1>6. CASE Resolve(r)
  BY <1>1, <1>6 DEF Resolve, OnLoop, poolVars
<1>7. CASE Size(r)
  BY <1>1, <1>7, AwaitKeeps DEF Size, OnLoop, poolVars
<1>8. CASE Synthetic(r)
  BY <1>1, <1>8 DEF Synthetic, OnLoop, poolVars
<1>9. CASE Each(r)
  BY <1>1, <1>9, AwaitKeeps DEF Each, Skip, OnLoop, poolVars
<1>10. CASE EachDone(r)
  BY <1>1, <1>10 DEF EachDone, OnLoop, poolVars
<1>11. CASE Parsed(r)
  <2>1. req[r].tool \in Parsing \/ req[r].tool \in Scanning
    BY <1>11 DEF Parsed, OnLoop, ServerSafe, ServerInvariant, StageFacts
  <2> QED
    BY <1>1, <1>11, <2>1, AwaitKeeps DEF Parsed, Skip, OnLoop, poolVars, Scanning
<1>12. CASE Matched(r)
  BY <1>1, <1>12 DEF Matched, OnLoop, poolVars
<1>13. CASE StartNames(r)
  BY <1>13, ServerNoneAssumption DEF StartNames, OnLoop, loopVars, fileVars, contractVars, invalidation, LoopKeeps
<1>14. CASE StartDrop(r)
  <2>1. /\ running = r /\ asked' /\ UNCHANGED <<lru, phase, want, out, fileVars, work, loaded>>
        /\ Step(r, [req[r] EXCEPT !.stage = "dropping"])
    BY <1>14 DEF StartDrop, OnLoop, AskDrop, poolVars
  <2> QED
    BY <2>1, StepKeeps
<1>15. CASE EndDrop(r)
  <2>1. /\ running = r /\ UNCHANGED <<phase, want, out, fileVars, work, loaded>>
        /\ Answered(r, "ok", NoMeta)
    BY <1>15 DEF EndDrop, OnLoop, Drop, Respond, poolVars
  <2> QED
    BY <1>15, <2>1, AnswerKeeps
<1>16. CASE EndNames(r)
  <2>1. running = r
    BY <1>16 DEF EndNames, ServerSafe, ServerInvariant, Holds
  <2> QED
    BY <1>1, <1>16, <2>1 DEF EndNames
<1> QED
  BY <1>2, <1>3, <1>4, <1>5, <1>6, <1>7, <1>8, <1>9, <1>10, <1>11, <1>12, <1>13, <1>14, <1>15, <1>16
     DEF LoopStep

----------------------------------------------------------------------------
\* What becomes of a handler's locals: it answers; or it keeps the files it
\* has listed and skipped, unless it lists the directory or skips a file that
\* is not sound; and it awaits the job that it hands over.
Past == {"index", "each", "parsing", "matching", "names"}

Skips(r) ==
    /\ req'[r].skipped = Append(req[r].skipped, Head(req[r].todo))
    /\ req[r].todo # <<>> /\ ~Sound(r, Head(req[r].todo))
Lists(r) == \A k \in Keys : Listed(k) => k \in ToSet(req'[r].files)
Submits(r) ==
    \E kind \in {"parse", "match"}, k \in Keys :
        /\ jobs' = Append(jobs, [req |-> r, kind |-> kind, key |-> k])
        /\ kind = "parse" => req'[r].stage = "parsing" /\ k = Target(req'[r])
        /\ kind = "match" => req'[r].stage = "matching"

Outcome(r) ==
    /\ \/ req'[r].stage = "idle"
       \/ /\ req'[r].tool = req[r].tool /\ req'[r].arg = req[r].arg
          /\ req'[r].skipped = req[r].skipped \/ Skips(r)
          /\ req'[r].stage \in Past /\ req'[r].arg = None =>
                (req[r].stage \in Past /\ req'[r].files = req[r].files) \/ Lists(r)
          /\ req'[r].stage = "parsing" =>
                Target(req'[r]) \in Keys /\ req'[r].result = NotLoaded /\ running' = None
    /\ jobs' = jobs \/ Submits(r)

HistorySafe == ServerSafe /\ HistoryInvariant

LEMMA AnswerOutcome ==
    ASSUME ServerSafe, NEW r \in Requests, NEW s, NEW m, Answered(r, s, m), jobs' = jobs
    PROVE  Outcome(r)
BY IdleFacts DEF Outcome, Answered, ServerSafe, ServerTypeOK

\* A step that changes only the stage, or what is still to do or scanned
LEMMA StepOutcome ==
    ASSUME ServerSafe, NEW r \in Requests, NEW q, Step(r, q), jobs' = jobs,
           q.tool = req[r].tool, q.arg = req[r].arg, q.skipped = req[r].skipped,
           q.stage \in Past /\ q.arg = None => req[r].stage \in Past /\ q.files = req[r].files,
           q.stage # "parsing"
    PROVE  Outcome(r)
<1>1. req'[r] = q
  BY DEF Step, ServerSafe, ServerTypeOK
<1> QED
  BY <1>1 DEF Outcome

LEMMA SkipOutcome ==
    ASSUME ServerSafe, NEW r \in Requests, Skip(r), jobs' = jobs, req[r].stage \in Past,
           req[r].todo # <<>>, ~Sound(r, Head(req[r].todo))
    PROVE  Outcome(r)
<1> DEFINE q == [req[r] EXCEPT !.stage = "each", !.todo = Tail(@),
                               !.skipped = Append(@, Head(req[r].todo))]
<1>1. req'[r] = q /\ req[r] \in Locals
  BY DEF Skip, Step, ServerSafe, ServerTypeOK
<1>2. /\ q.stage = "each" /\ q.tool = req[r].tool /\ q.arg = req[r].arg /\ q.files = req[r].files
      /\ q.skipped = Append(req[r].skipped, Head(req[r].todo))
  BY <1>1 DEF Locals
<1> HIDE DEF q
<1> QED
  BY <1>1, <1>2 DEF Outcome, Skips

LEMMA AwaitOutcome ==
    ASSUME ServerSafe, NEW r \in Requests, NEW kind \in {"parse", "match"}, NEW k \in Keys, NEW s,
           Await(r, kind, k, s),
           s = IF kind = "parse" THEN "parsing" ELSE "matching",
           kind = "parse" => k = Target(req[r]),
           req[r].stage \in Past \/ req[r].arg # None
    PROVE  Outcome(r)
<1> DEFINE q == [req[r] EXCEPT !.stage = s, !.result = NotLoaded]
<1>1. /\ req'[r] = q /\ req[r] \in Locals /\ running' = None
      /\ jobs' = Append(jobs, [req |-> r, kind |-> kind, key |-> k])
  BY DEF Await, ServerSafe, ServerTypeOK
<1>2. /\ q.stage = s /\ q.tool = req[r].tool /\ q.arg = req[r].arg /\ q.files = req[r].files
      /\ q.skipped = req[r].skipped /\ q.todo = req[r].todo /\ q.result = NotLoaded
  BY <1>1 DEF Locals
<1> HIDE DEF q
<1>3. Submits(r)
  BY <1>1, <1>2 DEF Submits, Target
<1>4. s = "parsing" => Target(q) \in Keys
  BY <1>2 DEF Target
<1> QED
  BY <1>1, <1>2, <1>3, <1>4 DEF Outcome

\* Every file that glob finds is listed.
LEMMA GlobOutcome ==
    ASSUME ServerSafe, NEW r \in Requests, Glob(r)
    PROVE  Outcome(r)
<1> DEFINE S == {k \in Keys : Listed(k)}
           found == SetToSeq(S)
           q == [req[r] EXCEPT !.stage = "index", !.files = found, !.todo = found]
<1>1. req'[r] = q /\ req[r] \in Locals /\ jobs' = jobs
  BY DEF Glob, Step, poolVars, ServerSafe, ServerTypeOK
<1>2. S \subseteq ToSet(found)
  <2>1. IsFiniteSet(S) /\ S \in SUBSET Keys
    BY FiniteAssumption, FS_Subset
  <2> HIDE DEF S
  <2>2. Cardinality(S) \in Nat /\ ExistsBijection(1..Cardinality(S), S)
    BY <2>1, FS_CardinalityType
  <2>3. PICK f \in [1..Cardinality(S) -> S] : IsInjective(f)
    BY <2>2 DEF ExistsBijection, Bijection, Injection
  <2>4. found \in [1..Cardinality(S) -> S] /\ IsInjective(found)
    BY <2>3 DEF SetToSeq
  <2> HIDE DEF found
  <2>5. \A k \in S : \E i \in DOMAIN found : found[i] = k
    <3>1. found \in Injection(1..Cardinality(S), S)
      BY <2>4 DEF Injection
    <3>2. IsFiniteSet(1..Cardinality(S)) /\ Cardinality(1..Cardinality(S)) = Cardinality(S)
      BY <2>2, FS_Interval
    <3>3. found \in Surjection(1..Cardinality(S), S)
      BY <2>1, <3>1, <3>2, FS_Injection
    <3> QED
      BY <3>3 DEF Surjection
  <2> QED
    BY <2>5 DEF ToSet
<1> HIDE DEF found
<1>3. /\ q.stage = "index" /\ q.tool = req[r].tool /\ q.arg = req[r].arg
      /\ q.skipped = req[r].skipped /\ q.files = found
  BY <1>1 DEF Locals
<1> HIDE DEF q
<1>4. Lists(r)
  BY <1>1, <1>2, <1>3 DEF Lists
<1> QED
  BY <1>1, <1>3, <1>4 DEF Outcome

LEMMA LoopOutcome ==
    ASSUME HistorySafe, NEW r \in Requests, LoopStep(r) \/ EndNames(r)
    PROVE  Outcome(r)
<1> USE DEF HistorySafe
<1> DEFINE q == req[r]
<1>1. q \in Locals /\ StageFacts(q) /\ Keeps(r)
  BY DEF ServerSafe, ServerTypeOK, ServerInvariant, HistoryInvariant
<1>2. ASSUME NEW s \in Stages, Step(r, [q EXCEPT !.stage = s]), jobs' = jobs, s # "parsing",
             s \in Past /\ q.arg = None => q.stage \in Past
      PROVE  Outcome(r)
  <2> DEFINE p == [q EXCEPT !.stage = s]
  <2>1. /\ p.stage = s /\ p.tool = q.tool /\ p.arg = q.arg /\ p.files = q.files
        /\ p.skipped = q.skipped
    BY <1>1, StageMoves
  <2>2. Step(r, p)
    BY <1>2
  <2> HIDE DEF p
  <2> QED
    BY <1>2, <2>1, <2>2, StepOutcome
<1>3. ASSUME Step(r, Scan(r)), jobs' = jobs, q.stage \in Past
      PROVE  Outcome(r)
  <2>1. /\ Scan(r).stage = "each" /\ Scan(r).tool = q.tool /\ Scan(r).arg = q.arg
        /\ Scan(r).files = q.files /\ Scan(r).skipped = q.skipped
    BY <1>1 DEF Scan, Locals
  <2> QED
    BY <1>3, <2>1, StepOutcome
<1>4. jobs' = jobs => \A s : Respond(r, s) => Outcome(r)
  BY AnswerOutcome DEF Respond
<1>5. CASE Dispatch(r)
  <2> DEFINE next == CASE q.tool \in Listing -> "glob"
                       [] q.tool = "reload" /\ q.arg = None -> "drop"
                       [] OTHER -> "resolve"
  <2>1. next \in {"glob", "drop", "resolve"}
    OBVIOUS
  <2>2. jobs' = jobs /\ ((\E s : Respond(r, s)) \/ Step(r, [q EXCEPT !.stage = next]))
    BY <1>5 DEF Dispatch, poolVars
  <2> HIDE DEF next
  <2>3. next \in Stages /\ next \notin Past /\ next # "parsing"
    BY <2>1 DEF Stages, Past
  <2> QED
    BY <1>2, <1>4, <2>2, <2>3
<1>6. CASE Index(r)
  <2> DEFINE p == [q EXCEPT !.todo = Tail(@)]
  <2>1. /\ jobs' = jobs /\ q.stage = "index"
        /\ (\E s : Respond(r, s)) \/ Step(r, p)
    BY <1>6 DEF Index, OnLoop, poolVars
  <2>2. /\ p.stage = q.stage /\ p.tool = q.tool /\ p.arg = q.arg /\ p.files = q.files
        /\ p.skipped = q.skipped
    BY <1>1 DEF Locals
  <2> HIDE DEF p
  <2> QED
    BY <1>4, <2>1, <2>2, StepOutcome
<1>7. CASE Indexed(r)
  <2> DEFINE p == [q EXCEPT !.stage = "each", !.files = Chosen(r), !.todo = Chosen(r)]
  <2>1. /\ jobs' = jobs /\ q.stage = "index"
        /\ (\E s : Respond(r, s)) \/ Step(r, [q EXCEPT !.stage = "resolve"]) \/ Step(r, p)
    BY <1>7 DEF Indexed, OnLoop, poolVars
  <2>2. /\ p.stage = "each" /\ p.tool = q.tool /\ p.arg = q.arg /\ p.files = Chosen(r)
        /\ p.skipped = q.skipped
    BY <1>1 DEF Locals
  <2> HIDE DEF p
  <2>3. q.arg = None => Chosen(r) = q.files
    <3>1. q.files \in Seq(Keys) /\ None \notin Keys
      BY <1>1, ServerNoneAssumption DEF Locals
    <3>2. None \notin ToSet(q.files)
      BY <3>1 DEF ToSet
    <3> QED
      BY <3>2 DEF Chosen
  <2>4. "resolve" \in Stages /\ "resolve" \notin Past /\ "index" \in Past
    BY DEF Stages, Past
  <2> QED
    BY <1>2, <1>4, <2>1, <2>2, <2>3, <2>4, StepOutcome
<1>8. CASE Resolve(r)
  <2> DEFINE next == IF q.tool = "reload" THEN "drop" ELSE "size"
  <2>1. jobs' = jobs /\ ((\E s : Respond(r, s)) \/ Step(r, [q EXCEPT !.stage = next]))
    BY <1>8 DEF Resolve, poolVars
  <2>2. next \in Stages /\ next \notin Past /\ next # "parsing"
    BY DEF Stages, Past
  <2> HIDE DEF next
  <2> QED
    BY <1>2, <1>4, <2>1, <2>2
<1>9. CASE Size(r)
  <2>1. /\ q.stage = "size" /\ q.arg # None /\ q.arg \in Keys
        /\ \/ (\E s : Respond(r, s)) /\ jobs' = jobs
           \/ q.tool \in Parsing /\ Await(r, "parse", q.arg, "parsing")
           \/ Step(r, [q EXCEPT !.stage = "synthetic"]) /\ jobs' = jobs
    BY <1>1, <1>9 DEF Size, OnLoop, StageFacts, Locals, poolVars
  <2>2. "synthetic" \in Stages /\ "synthetic" \notin Past
    BY DEF Stages, Past
  <2> QED
    BY <1>2, <1>4, <2>1, <2>2, AwaitOutcome DEF Target
<1>10. CASE Synthetic(r)
  <2> DEFINE p == [q EXCEPT !.stage = "each", !.files = <<q.arg>>, !.todo = <<q.arg>>]
  <2>1. /\ jobs' = jobs /\ q.arg # None
        /\ (\E s : Respond(r, s)) \/ Step(r, p)
    BY <1>1, <1>10 DEF Synthetic, OnLoop, StageFacts, poolVars
  <2>2. p.stage = "each" /\ p.tool = q.tool /\ p.arg = q.arg /\ p.skipped = q.skipped
    BY <1>1 DEF Locals
  <2> HIDE DEF p
  <2> QED
    BY <1>4, <2>1, <2>2, StepOutcome
<1>11. CASE Each(r)
  <2> DEFINE k == Head(q.todo)
  <2>1. /\ q.stage = "each" /\ q.todo # <<>> /\ q.tool \in Scanning /\ k \in Keys
        /\ Await(r, "parse", k, "parsing") \/ (~(Statable(k) /\ ~TooLarge(k)) /\ Skip(r) /\ jobs' = jobs)
    BY <1>1, <1>11, LocalsTypes DEF Each, OnLoop, StageFacts, poolVars
  <2>2. k = Target(q)
    BY <2>1 DEF Target, Scanning, Parsing
  <2>3. ~(Statable(k) /\ ~TooLarge(k)) => ~Sound(r, k)
    BY DEF Statable, TooLarge, Sound
  <2>4. "each" \in Past
    BY DEF Past
  <2> QED
    BY <2>1, <2>2, <2>3, <2>4, AwaitOutcome, SkipOutcome
<1>12. CASE EachDone(r)
  BY <1>4, <1>12 DEF EachDone, poolVars
<1>13. CASE Parsed(r)
  <2> DEFINE answer == q.result
             k == Head(q.todo)
  <2>1. /\ q.stage = "parsing" /\ running = r
        /\ q.tool \in Parsing \/ (q.tool \in Scanning /\ q.tool \notin Parsing /\ q.todo # <<>> /\ k \in Keys)
    BY <1>1, <1>13, LocalsTypes DEF Parsed, OnLoop, StageFacts, Scanning, Parsing
  <2>2. "parsing" \in Past /\ "names" \in Past /\ "names" \in Stages
    BY DEF Past, Stages
  <2>3. CASE q.tool \in Parsing
    <3>1. /\ jobs' = jobs
          /\ Answered(r, IF answer.status = "ok" THEN "ok" ELSE ErrorCode(answer.status), answer.meta)
      BY <1>13, <2>3 DEF Parsed, poolVars, Parsing
    <3> QED
      BY <3>1, AnswerOutcome
  <2>4. CASE q.tool \notin Parsing /\ answer.status # "ok"
    <3>1. Skip(r) /\ jobs' = jobs
      BY <1>13, <2>1, <2>4 DEF Parsed, poolVars, Scanning
    <3>2. Target(q) = k
      BY <2>4 DEF Target
    <3>3. ~Sound(r, k)
      BY <1>1, <2>1, <2>4, <3>2 DEF Keeps, Justified
    <3> QED
      BY <2>1, <2>2, <2>4, <3>1, <3>3, SkipOutcome
  <2>5. CASE q.tool \notin Parsing /\ answer.status = "ok"
    <3>1. \/ Step(r, Scan(r)) /\ jobs' = jobs
          \/ Step(r, [q EXCEPT !.stage = "names"]) /\ jobs' = jobs
          \/ Await(r, "match", k, "matching")
      BY <1>13, <2>1, <2>5 DEF Parsed, poolVars, Scanning
    <3> QED
      BY <1>2, <1>3, <2>1, <2>2, <2>5, <3>1, AwaitOutcome
  <2> QED
    BY <2>3, <2>4, <2>5
<1>14. CASE Matched(r)
  <2>1. /\ q.stage = "matching" /\ jobs' = jobs
        /\ Step(r, Scan(r)) \/ Step(r, [q EXCEPT !.stage = "names"])
    BY <1>14 DEF Matched, OnLoop, poolVars
  <2>2. "matching" \in Past /\ "names" \in Stages
    BY DEF Past, Stages
  <2> QED
    BY <1>2, <1>3, <2>1, <2>2
<1>15. CASE StartNames(r)
  <2>1. jobs' = jobs /\ req'[r] = q /\ q.stage = "names" /\ "names" \in Past
    BY <1>15 DEF StartNames, OnLoop, loopVars, Past
  <2> QED
    BY <2>1 DEF Outcome
<1>16. CASE StartDrop(r)
  <2>1. jobs' = jobs /\ Step(r, [q EXCEPT !.stage = "dropping"])
    BY <1>16 DEF StartDrop, poolVars
  <2>2. "dropping" \in Stages /\ "dropping" \notin Past
    BY DEF Past, Stages
  <2> QED
    BY <1>2, <2>1, <2>2
<1>17. CASE EndDrop(r)
  BY <1>4, <1>17 DEF EndDrop, poolVars
<1>18. CASE EndNames(r)
  <2>1. q.stage = "names" /\ jobs' = jobs /\ Step(r, Scan(r)) /\ "names" \in Past
    BY <1>18 DEF EndNames, ServerSafe, ServerInvariant, Holds, Past
  <2> QED
    BY <1>3, <2>1
<1> QED
  BY <1>5, <1>6, <1>7, <1>8, <1>9, <1>10, <1>11, <1>12, <1>13, <1>14, <1>15, <1>16, <1>17, <1>18,
     GlobOutcome DEF LoopStep

----------------------------------------------------------------------------
(* What a step of the history remembers. *)

\* A file changes by a write, which is later than whatever is remembered.
LEMMA DiskSteps ==
    ASSUME HistorySafe, SNext
    PROVE  /\ clock \in Nat /\ clock' \in Nat /\ clock <= clock' /\ clock' <= MaxStamp
           /\ \A k \in Keys :
                /\ disk[k].stamp \in 0..MaxStamp /\ disk'[k].stamp \in 0..MaxStamp
                /\ disk[k].stamp <= disk'[k].stamp /\ disk'[k].stamp <= clock'
                /\ disk'[k] = disk[k] \/ disk'[k].stamp > clock
<1>1. /\ ServerTypeOK /\ Stamps /\ MaxStamp \in Nat
      /\ clock \in 0..MaxStamp /\ disk \in [Keys -> [stamp : 0..MaxStamp, shape : Shapes]]
  BY ServerMetasAssumption DEF HistorySafe, ServerSafe, HistoryInvariant, ServerTypeOK
<1>2. \A k \in Keys : disk[k].stamp \in 0..MaxStamp /\ disk[k].stamp <= clock
  BY <1>1 DEF Stamps
<1>3. ASSUME NEW w \in Keys, Write(w)
      PROVE  /\ clock' = clock + 1 /\ clock < MaxStamp
             /\ \A k \in Keys : disk'[k].stamp = IF k = w THEN clock + 1 ELSE disk[k].stamp
             /\ \A k \in Keys : k # w => disk'[k] = disk[k]
  BY <1>1, <1>3 DEF Write
<1>4. CASE \E w \in Keys : Write(w)
  <2>1. PICK w \in Keys : Write(w)
    BY <1>4
  <2>2. /\ clock' = clock + 1 /\ clock < MaxStamp
        /\ \A k \in Keys : disk'[k].stamp = IF k = w THEN clock + 1 ELSE disk[k].stamp
        /\ \A k \in Keys : k # w => disk'[k] = disk[k]
    BY <1>3, <2>1
  <2>3. clock' \in 0..MaxStamp /\ clock' > clock
    BY <1>1, <2>2
  <2> QED
    BY <1>1, <1>2, <2>2, <2>3
<1>5. CASE UNCHANGED <<disk, clock>>
  BY <1>1, <1>2, <1>5
<1>6. CASE UNCHANGED fileVars
  BY <1>5, <1>6 DEF fileVars
<1>7. CASE Arrival
  BY <1>6, <1>7 DEF Arrival, Send
<1>8. CASE LoopRuns \/ \E r \in Requests : EndNames(r)
  <2>1. ASSUME Pick PROVE UNCHANGED fileVars
    BY <2>1 DEF Pick
  <2>2. ASSUME NEW r \in Requests, LoopStep(r) \/ EndNames(r) PROVE UNCHANGED <<disk, clock>>
    BY <2>2, LoopStepKeeps DEF LoopKeeps, HistorySafe
  <2> QED
    BY <1>5, <1>6, <1>8, <2>1, <2>2 DEF LoopRuns
<1>9. ASSUME NEW t \in Threads, ParseStep(t) \/ MatchStep(t) \/ EndMatch(t)
      PROVE  UNCHANGED fileVars
  BY <1>9 DEF ParseStep, MatchStep, EndMatch, Take, Lookup, Load, EndParse, Finish, StartMatch, Deliver
<1> QED
  BY <1>4, <1>6, <1>7, <1>8, <1>9 DEF SNext

\* Only the end of a reload drops.
LEMMA DroppingSteps ==
    ASSUME HistorySafe, SNext, Dropping
    PROVE  \E r \in Requests : EndDrop(r)
<1>1. asked /\ ~asked' /\ ServerSafe
  BY DEF Dropping, HistorySafe
<1>2. CASE UNCHANGED contractVars
  BY <1>1, <1>2 DEF contractVars, invalidation
<1>3. CASE Arrival
  BY <1>2, <1>3 DEF Arrival, Send
<1>4. CASE \E k \in Keys : Write(k)
  BY <1>2, <1>4 DEF Write
<1>5. CASE LoopRuns \/ \E r \in Requests : EndNames(r)
  <2>1. ASSUME Pick PROVE FALSE
    BY <1>2, <2>1, <1>1 DEF Pick, contractVars, invalidation
  <2> QED
    BY <1>1, <1>5, <2>1, LoopStepKeeps DEF LoopRuns, LoopKeeps
<1>6. ASSUME NEW t \in Threads, ParseStep(t) \/ MatchStep(t) \/ EndMatch(t)
      PROVE  FALSE
  BY <1>1, <1>6 DEF ParseStep, MatchStep, EndMatch, Take, Lookup, Load, EndParse, Finish, StartMatch,
     Deliver, contractVars, invalidation, Ask, Hit, Miss, Reply, Admit, GiveUp
<1> QED
  BY <1>3, <1>4, <1>5, <1>6 DEF SNext

LEMMA StampSteps ==
    ASSUME HistorySafe, SNext, Remember
    PROVE  /\ Stamps'
           /\ \A k \in Keys : floor'[k] \in Nat /\ floor[k] \in Nat /\ floor[k] <= floor'[k]
           /\ \A k \in Keys : floor'[k] # floor[k] =>
                floor'[k] = disk[k].stamp /\ Dropping /\ Covered(k) /\ ~ReadingOld(k)
           /\ \A r \in Requests : req[r].stage # "idle" /\ req'[r].stage # "idle" =>
                /\ since'[r] = since[r] /\ began'[r] = began[r]
                /\ \A k \in Keys : Sound(r, k)' => Sound(r, k)
<1>1. /\ Stamps /\ MaxStamp \in Nat
      /\ floor \in [Keys -> 0..MaxStamp] /\ since \in [Requests -> [Keys -> 0..MaxStamp]]
      /\ began \in [Requests -> 0..MaxStamp]
  BY ServerMetasAssumption DEF HistorySafe, HistoryInvariant, Stamps
<1>2. /\ clock \in Nat /\ clock' \in Nat /\ clock <= clock' /\ clock' <= MaxStamp
      /\ \A k \in Keys :
           /\ disk[k].stamp \in 0..MaxStamp /\ disk'[k].stamp \in 0..MaxStamp
           /\ disk[k].stamp <= disk'[k].stamp /\ disk'[k].stamp <= clock'
           /\ disk'[k] = disk[k] \/ disk'[k].stamp > clock
  BY DiskSteps
<1>3. /\ floor' = [k \in Keys |->
                IF Dropping /\ Covered(k) /\ ~ReadingOld(k) THEN disk[k].stamp ELSE floor[k]]
      /\ since' = [r \in Requests |-> CASE req'[r].stage = "idle" -> NoFloor
                                      [] req[r].stage = "idle" /\ req'[r].stage # "idle" -> floor
                                      [] OTHER -> since[r]]
      /\ began' = [r \in Requests |-> CASE req'[r].stage = "idle" -> 0
                                      [] req[r].stage = "idle" /\ req'[r].stage # "idle" -> clock
                                      [] OTHER -> began[r]]
  BY DEF Remember
<1>4. \A k \in Keys : floor[k] \in 0..MaxStamp /\ floor[k] <= disk[k].stamp
  BY <1>1 DEF Stamps
<1>5. \A k \in Keys : /\ floor'[k] \in 0..MaxStamp /\ floor[k] <= floor'[k]
                      /\ floor'[k] <= disk'[k].stamp
  BY <1>1, <1>2, <1>3, <1>4
<1>6. ASSUME NEW r \in Requests
      PROVE  /\ since'[r] \in {NoFloor, floor, since[r]}
             /\ began'[r] \in {0, clock, began[r]}
             /\ req[r].stage # "idle" /\ req'[r].stage # "idle" =>
                  since'[r] = since[r] /\ began'[r] = began[r]
  BY <1>3
<1>7. floor' \in [Keys -> 0..MaxStamp]
  BY <1>3, <1>5
<1>8. NoFloor \in [Keys -> 0..MaxStamp] /\ \A k \in Keys : NoFloor[k] = 0
  BY <1>1 DEF NoFloor
<1>9. since' \in [Requests -> [Keys -> 0..MaxStamp]]
  <2>1. \A r \in Requests : since'[r] \in [Keys -> 0..MaxStamp]
    BY <1>1, <1>6, <1>8
  <2> QED
    BY <1>3, <2>1
<1>10. began' \in [Requests -> 0..MaxStamp]
  <2>1. \A r \in Requests : began'[r] \in 0..MaxStamp /\ began'[r] <= clock'
    BY <1>1, <1>2, <1>6 DEF Stamps
  <2> QED
    BY <1>3, <2>1
<1>11. ASSUME NEW r \in Requests, NEW k \in Keys
       PROVE  since'[r][k] <= floor'[k]
  <2>1. since[r][k] \in 0..MaxStamp /\ since[r][k] <= floor[k]
    BY <1>1 DEF Stamps
  <2>2. since'[r][k] \in {0, floor[k], since[r][k]}
    BY <1>6, <1>8
  <2> QED
    BY <1>1, <1>4, <1>5, <2>1, <2>2
<1>12. \A r \in Requests : began'[r] <= clock'
  BY <1>1, <1>2, <1>6 DEF Stamps
<1>13. Stamps'
  BY <1>2, <1>5, <1>7, <1>9, <1>10, <1>11, <1>12 DEF Stamps
<1>14. ASSUME NEW r \in Requests, req[r].stage # "idle", req'[r].stage # "idle", NEW k \in Keys,
              Sound(r, k)'
       PROVE  Sound(r, k)
  <2>1. began'[r] = began[r] /\ began[r] \in 0..MaxStamp /\ began[r] <= clock
    BY <1>1, <1>6, <1>14 DEF Stamps
  <2>2. disk'[k].shape = "ok" /\ disk'[k].stamp <= began[r]
    BY <1>14, <2>1 DEF Sound
  <2>3. disk'[k] = disk[k]
    BY <1>1, <1>2, <2>1, <2>2
  <2> QED
    BY <2>1, <2>2, <2>3 DEF Sound
<1>15. \A k \in Keys : floor'[k] # floor[k] =>
                floor'[k] = disk[k].stamp /\ Dropping /\ Covered(k) /\ ~ReadingOld(k)
  BY <1>3
<1> QED
  BY <1>4, <1>5, <1>6, <1>13, <1>14, <1>15

----------------------------------------------------------------------------
(* Jobs fit their requests. *)

\* Nobody works for the task that is on the loop, or for one that is idle.
LEMMA NoJobsFor ==
    ASSUME ServerSafe, NEW r \in Requests, running = r \/ req[r].stage = "idle"
    PROVE  Queued(r) = {} /\ Worked(r) = {} /\ Waiting(r) = {}
<1>1. /\ Cardinality(Queued(r)) \in Nat /\ Cardinality(Worked(r)) \in Nat
      /\ Cardinality(Waiting(r)) \in Nat /\ IsFiniteSet(Worked(r))
  BY PlaceCounts DEF ServerSafe
<1>2. Cardinality(Queued(r)) = 0 /\ Cardinality(Worked(r)) = 0 /\ Cardinality(Waiting(r)) = 0
  <2>1. Cardinality(Queued(r)) + Cardinality(Worked(r)) + Cardinality(Waiting(r))
            + (IF running = r THEN 1 ELSE 0) = IF req[r].stage = "idle" THEN 0 ELSE 1
    BY DEF ServerSafe, ServerInvariant, OneJobPerWaitingTask
  <2>2. CASE req[r].stage = "idle"
    <3> DEFINE n == IF running = r THEN 1 ELSE 0
    <3>1. Cardinality(Queued(r)) + Cardinality(Worked(r)) + Cardinality(Waiting(r)) + n = 0
      BY <2>1, <2>2
    <3>2. n \in Nat
      OBVIOUS
    <3> HIDE DEF n
    <3>3. \A a, b, c \in Nat : a + b + c + n = 0 => a = 0 /\ b = 0 /\ c = 0
      BY <3>2
    <3> QED
      BY <1>1, <3>1, <3>3
  <2>3. CASE running = r
    BY <2>3, RunningAlone
  <2> QED
    BY <2>2, <2>3
<1>3. IsFiniteSet(Queued(r)) /\ IsFiniteSet(Waiting(r))
  <2>1. jobs \in Seq(Jobs) /\ ready \in Seq(Requests)
    BY DEF ServerSafe, ServerTypeOK
  <2> QED
    BY <2>1, Places, AmongFinite DEF ServerSafe
<1> QED
  BY <1>1, <1>2, <1>3, FS_EmptySet

\* Fits after the step
FitsThen(job) ==
    /\ job.kind = "parse" => req'[job.req].stage = "parsing" /\ job.key = Target(req'[job.req])
    /\ job.kind = "match" => req'[job.req].stage = "matching"

LEMMA FitThen ==
    ASSUME \A i \in DOMAIN jobs' : FitsThen(jobs'[i]), \A t \in Threads : FitsThen(work'[t])
    PROVE  JobsFit'
BY DEF JobsFit, Fits, FitsThen, Target

LEMMA FitsStays ==
    ASSUME NEW job, Fits(job),
           job.kind \in {"parse", "match"} =>
              /\ req'[job.req].stage = req[job.req].stage /\ req'[job.req].tool = req[job.req].tool
              /\ req'[job.req].arg = req[job.req].arg /\ req'[job.req].todo = req[job.req].todo
    PROVE  FitsThen(job)
BY DEF Fits, FitsThen, Target

\* A step of one request's handler, or its arrival
LEMMA HandlerFits ==
    ASSUME HistorySafe, NEW r \in Requests, running = r \/ req[r].stage = "idle",
           \A u \in Requests \ {r} : req'[u] = req[u], work' = work,
           jobs' = jobs \/ Submits(r)
    PROVE  JobsFit'
<1>1. /\ Queued(r) = {} /\ Worked(r) = {} /\ JobsFit /\ jobs \in Seq(Jobs)
      /\ work \in [Threads -> Jobs \cup {NoJob}]
  BY NoJobsFor DEF HistorySafe, HistoryInvariant, ServerSafe, ServerTypeOK
<1>2. ASSUME NEW job \in Jobs \cup {NoJob}, job.req # r, Fits(job)
      PROVE  FitsThen(job)
  <2>1. job.kind \in {"parse", "match"} => job.req \in Requests \ {r}
    BY <1>2 DEF Jobs, NoJob
  <2> QED
    BY <1>2, <2>1, FitsStays
<1>3. ASSUME NEW i \in DOMAIN jobs
      PROVE  FitsThen(jobs[i])
  <2>1. jobs[i] \in Jobs /\ jobs[i].req # r /\ Fits(jobs[i])
    BY <1>1 DEF Queued, JobsFit
  <2> QED
    BY <1>2, <2>1
<1>4. ASSUME NEW t \in Threads
      PROVE  FitsThen(work'[t])
  <2>1. work[t] \in Jobs \cup {NoJob} /\ work[t].req # r /\ Fits(work[t])
    BY <1>1 DEF Worked, JobsFit
  <2> QED
    BY <1>2, <2>1
<1>5. ASSUME Submits(r), NEW i \in DOMAIN jobs'
      PROVE  FitsThen(jobs'[i])
  <2>1. PICK kind \in {"parse", "match"}, k \in Keys :
          /\ jobs' = Append(jobs, [req |-> r, kind |-> kind, key |-> k])
          /\ kind = "parse" => req'[r].stage = "parsing" /\ k = Target(req'[r])
          /\ kind = "match" => req'[r].stage = "matching"
    BY <1>5 DEF Submits
  <2> DEFINE job == [req |-> r, kind |-> kind, key |-> k]
  <2>2. FitsThen(job)
    BY <2>1 DEF FitsThen
  <2>3. jobs' = Append(jobs, job)
    BY <2>1
  <2> HIDE DEF job
  <2>4. i \in 1..(Len(jobs) + 1) /\ jobs'[i] = IF i = Len(jobs) + 1 THEN job ELSE jobs[i]
    BY <1>1, <1>5, <2>3
  <2>5. i # Len(jobs) + 1 => i \in DOMAIN jobs
    BY <1>1, <2>4
  <2> QED
    BY <1>3, <2>2, <2>4, <2>5
<1> QED
  BY <1>3, <1>4, <1>5, FitThen

LEMMA TakeFits ==
    ASSUME HistorySafe, NEW t \in Threads, Take(t)
    PROVE  JobsFit'
<1>1. /\ jobs # <<>> /\ jobs' = Tail(jobs) /\ work' = [work EXCEPT ![t] = Head(jobs)]
      /\ req' = req
  BY DEF Take, loopVars
<1>2. JobsFit /\ jobs \in Seq(Jobs) /\ work \in [Threads -> Jobs \cup {NoJob}]
  BY DEF HistorySafe, HistoryInvariant, ServerSafe, ServerTypeOK
<1>3. /\ Head(jobs) = jobs[1] /\ 1 \in DOMAIN jobs
      /\ \A i \in DOMAIN Tail(jobs) : i + 1 \in DOMAIN jobs /\ Tail(jobs)[i] = jobs[i + 1]
  <2>1. /\ DOMAIN jobs = 1..Len(jobs) /\ Len(jobs) \in Nat \ {0} /\ Head(jobs) = jobs[1]
        /\ DOMAIN Tail(jobs) = 1..(Len(jobs) - 1)
        /\ \A i \in 1..(Len(jobs) - 1) : Tail(jobs)[i] = jobs[i + 1]
    BY <1>1, <1>2, HeadTailProperties
  <2> QED
    BY <2>1
<1>4. \A i \in DOMAIN jobs : FitsThen(jobs[i])
  BY <1>1, <1>2, FitsStays DEF JobsFit
<1>5. \A u \in Threads : FitsThen(work[u])
  BY <1>1, <1>2, FitsStays DEF JobsFit
<1> QED
  BY <1>1, <1>2, <1>3, <1>4, <1>5, FitThen

LEMMA DeliverFits ==
    ASSUME HistorySafe, NEW t \in Threads, NEW x, Deliver(t, x)
    PROVE  JobsFit'
<1> DEFINE r == work[t].req
<1>1. /\ jobs' = jobs /\ work' = [work EXCEPT ![t] = NoJob]
      /\ req' = [req EXCEPT ![r] = [req[r] EXCEPT !.result = x]]
  BY DEF Deliver
<1>2. /\ JobsFit /\ jobs \in Seq(Jobs) /\ work \in [Threads -> Jobs \cup {NoJob}]
      /\ req \in [Requests -> Locals]
  BY DEF HistorySafe, HistoryInvariant, ServerSafe, ServerTypeOK
<1>3. \A u \in Requests : /\ req'[u].stage = req[u].stage /\ req'[u].tool = req[u].tool
                          /\ req'[u].arg = req[u].arg /\ req'[u].todo = req[u].todo
  BY <1>1, <1>2 DEF Locals
<1>4. ASSUME NEW job \in Jobs \cup {NoJob}, Fits(job)
      PROVE  FitsThen(job)
  <2>1. job.kind \in {"parse", "match"} => job.req \in Requests
    BY <1>4 DEF Jobs, NoJob
  <2> QED
    BY <1>3, <1>4, <2>1, FitsStays
<1>5. \A i \in DOMAIN jobs : FitsThen(jobs[i])
  <2>1. \A i \in DOMAIN jobs : jobs[i] \in Jobs
    BY <1>2
  <2> QED
    BY <1>2, <1>4, <2>1 DEF JobsFit
<1>6. \A u \in Threads : FitsThen(work[u])
  BY <1>2, <1>4 DEF JobsFit
<1>7. FitsThen(NoJob)
  BY DEF FitsThen, NoJob
<1> QED
  BY <1>1, <1>2, <1>5, <1>6, <1>7, FitThen

LEMMA JobsFitSteps ==
    ASSUME HistorySafe, SNext
    PROVE  JobsFit'
<1> USE DEF HistorySafe
<1>1. CASE UNCHANGED <<req, jobs, work>>
  <2>1. JobsFit
    BY DEF HistoryInvariant
  <2> QED
    BY <1>1, <2>1 DEF JobsFit, Fits
<1>2. CASE Arrival
  <2>1. PICK r \in Requests : \E tool, arg, exact : Send(r, tool, arg, exact)
    BY <1>2 DEF Arrival
  <2>2. /\ req[r].stage = "idle" /\ \A u \in Requests \ {r} : req'[u] = req[u]
        /\ work' = work /\ jobs' = jobs
    BY <2>1 DEF Send, poolVars, ServerSafe, ServerTypeOK
  <2> QED
    BY <2>2, HandlerFits
<1>3. CASE \E k \in Keys : Write(k)
  BY <1>1, <1>3 DEF Write, loopVars, poolVars
<1>4. CASE LoopRuns \/ \E r \in Requests : EndNames(r)
  <2>1. ASSUME Pick PROVE UNCHANGED <<req, jobs, work>>
    BY <2>1 DEF Pick, poolVars
  <2>2. ASSUME NEW r \in Requests, LoopStep(r) \/ EndNames(r) PROVE JobsFit'
    <3>1. LoopKeeps(r) /\ Outcome(r)
      BY <2>2, LoopStepKeeps, LoopOutcome
    <3> QED
      BY <3>1, HandlerFits DEF LoopKeeps, Outcome
  <2> QED
    BY <1>1, <1>4, <2>1, <2>2 DEF LoopRuns
<1>5. ASSUME NEW t \in Threads, ParseStep(t) \/ MatchStep(t) \/ EndMatch(t)
      PROVE  JobsFit'
  <2>1. CASE Take(t)
    BY <2>1, TakeFits
  <2>2. CASE Lookup(t) \/ Load(t) \/ EndParse(t) \/ StartMatch(t)
    BY <1>1, <2>2 DEF Lookup, Load, EndParse, StartMatch, loopVars, poolVars
  <2>3. CASE Finish(t) \/ EndMatch(t)
    BY <2>3, DeliverFits DEF Finish, EndMatch
  <2> QED
    BY <1>5, <2>1, <2>2, <2>3 DEF ParseStep, MatchStep
<1> QED
  BY <1>2, <1>3, <1>4, <1>5 DEF SNext

----------------------------------------------------------------------------
(* The cache and the threads stay as fresh as the reloads. *)

\* A content no older than a floor that has not moved
LEMMA FloorMoves ==
    ASSUME HistorySafe, SNext, Remember, NEW k \in Keys, NEW m \in floor[k]..MaxStamp,
           floor'[k] # floor[k] => m >= disk[k].stamp
    PROVE  m \in floor'[k]..MaxStamp
BY StampSteps

LEMMA CacheFreshSteps ==
    ASSUME HistorySafe, SNext, Remember
    PROVE  CacheFresh'
<1> USE DEF HistorySafe
<1>1. /\ lru \in Seq(Entries(Keys, Metas)) /\ UniqueKeys(lru) /\ CacheFresh
      /\ \A i \in DOMAIN lru : lru[i].key \in Keys /\ lru[i].meta \in Metas
  <2>1. lru \in Seq(Entries(Keys, Metas)) /\ UniqueKeys(lru) /\ CacheFresh
    BY DEF ServerSafe, ServerTypeOK, HistoryInvariant
  <2>2. \A i \in DOMAIN lru : lru[i] \in Entries(Keys, Metas)
    BY <2>1
  <2> QED
    BY <2>1, <2>2 DEF Entries
<1>2. ~Dropping => floor' = floor
  BY DEF Remember, StampSteps, HistoryInvariant, Stamps
<1>3. CASE lru' = lru /\ ~Dropping
  BY <1>1, <1>2, <1>3 DEF CacheFresh
<1>4. ASSUME NEW r \in Requests, EndDrop(r)
      PROVE  CacheFresh'
  <2>1. lru' = IF target = None THEN <<>> ELSE Without(lru, target)
    BY <1>4 DEF EndDrop, Drop
  <2>2. CASE target = None
    BY <2>1, <2>2 DEF CacheFresh
  <2>3. CASE target # None
    <3>1. lru' = Without(lru, target)
      BY <2>1, <2>3
    <3>2. ASSUME NEW j \in DOMAIN Without(lru, target)
          PROVE  Without(lru, target)[j].meta \in floor'[Without(lru, target)[j].key]..MaxStamp
      <4>1. PICK i \in DOMAIN lru : Without(lru, target)[j] = lru[i]
        BY <1>1, WithoutEntries
      <4>2. Without(lru, target)[j].key # target
        BY <1>1, WithoutEntries
      <4>3. lru[i].key \in Keys /\ ~Covered(lru[i].key)
        BY <1>1, <2>3, <4>1, <4>2 DEF Covered
      <4>4. floor'[lru[i].key] = floor[lru[i].key]
        BY <4>3, StampSteps
      <4> QED
        BY <1>1, <4>1, <4>4 DEF CacheFresh
    <3> QED
      BY <3>1, <3>2 DEF CacheFresh
  <2> QED
    BY <2>2, <2>3
<1>5. CASE Dropping
  BY <1>4, <1>5, DroppingSteps
<1>6. ASSUME NEW t \in Threads, want[t] \in Keys, NEW m \in floor[want[t]]..MaxStamp,
             NEW d \in Seq(Entries(Keys, Metas)), d = Queried(lru, want[t], m), ~Dropping,
             lru' = d \/ lru' = Trim(d)
      PROVE  CacheFresh'
  <2>1. \A j \in DOMAIN d : d[j].meta \in floor[d[j].key]..MaxStamp
    <3> TAKE j \in DOMAIN d
    <3>1. d[j] = [key |-> want[t], meta |-> m] \/ \E i \in DOMAIN lru : d[j] = lru[i]
      BY <1>1, <1>6, QueriedEntries
    <3> QED
      BY <1>1, <1>6, <3>1 DEF CacheFresh
  <2>2. \A j \in DOMAIN lru' : \E i \in DOMAIN d : lru'[j] = d[i]
    BY <1>6, TrimEntries
  <2> QED
    BY <1>2, <1>6, <2>1, <2>2 DEF CacheFresh
<1>7. CASE ~Dropping
  <2>1. CASE UNCHANGED contractVars
    BY <1>3, <1>7, <2>1 DEF contractVars
  <2>2. CASE Arrival
    BY <2>1, <2>2 DEF Arrival, Send
  <2>3. CASE \E k \in Keys : Write(k)
    BY <2>1, <2>3 DEF Write
  <2>4. CASE LoopRuns \/ \E r \in Requests : EndNames(r)
    <3>1. ASSUME Pick PROVE UNCHANGED contractVars
      BY <3>1 DEF Pick
    <3>2. ASSUME NEW r \in Requests, LoopStep(r) \/ EndNames(r) PROVE EndDrop(r) \/ lru' = lru
      BY <3>2, LoopStepKeeps DEF LoopKeeps
    <3> QED
      BY <1>3, <1>4, <1>7, <2>1, <2>4, <3>1, <3>2 DEF LoopRuns
  <2>5. ASSUME NEW t \in Threads, ParseStep(t) \/ MatchStep(t) \/ EndMatch(t)
        PROVE  CacheFresh'
    <3>1. CASE Take(t) \/ Load(t) \/ StartMatch(t) \/ EndMatch(t) \/ Finish(t)
      <4>1. lru' = lru
        BY <3>1 DEF Take, Ask, Load, StartMatch, EndMatch, Finish, Deliver, contractVars
      <4> QED
        BY <1>3, <1>7, <4>1
    <3>2. CASE Lookup(t)
      <4>1. CASE Hit(t)
        <5> DEFINE m == MetaOf(lru, want[t])
        <5>1. /\ want[t] \in KeysOf(lru) /\ phase[t] # "idle" /\ lru' = Queried(lru, want[t], m)
          BY <4>1 DEF Hit
        <5>2. want[t] \in Keys
          BY <5>1, ThreadFacts
        <5>3. IndexOf(lru, want[t]) \in DOMAIN lru /\ lru[IndexOf(lru, want[t])].key = want[t]
          BY <5>1, IndexOfKey
        <5>4. m \in floor[want[t]]..MaxStamp /\ m \in Metas
          BY <1>1, <5>3 DEF MetaOf, CacheFresh
        <5> HIDE DEF m
        <5>5. Queried(lru, want[t], m) \in Seq(Entries(Keys, Metas))
          BY <1>1, <5>2, <5>4, QueriedProperties
        <5> QED
          BY <1>6, <1>7, <5>1, <5>2, <5>4, <5>5
      <4>2. CASE Miss(t)
        BY <1>3, <1>7, <4>2 DEF Miss
      <4> QED
        BY <3>2, <4>1, <4>2 DEF Lookup
    <3>3. CASE EndParse(t)
      <4> DEFINE m == loaded[t].meta
      <4>1. CASE loaded[t].status = "ok"
        <5>1. /\ phase[t] = "missed" /\ lru' = Trim(Queried(lru, want[t], m))
          BY <3>3, <4>1 DEF EndParse, Admit
        <5>2. want[t] \in Keys
          BY <5>1, ThreadFacts
        <5>3. m \in Metas /\ m \in floor[want[t]]..MaxStamp
          BY <4>1 DEF ServerSafe, ServerInvariant, Holds, HistoryInvariant, Reads
        <5> HIDE DEF m
        <5>4. Queried(lru, want[t], m) \in Seq(Entries(Keys, Metas))
          BY <1>1, <5>2, <5>3, QueriedProperties
        <5> QED
          BY <1>6, <1>7, <5>1, <5>2, <5>3, <5>4
      <4>2. CASE loaded[t].status # "ok"
        BY <1>3, <1>7, <3>3, <4>2 DEF EndParse, GiveUp
      <4> QED
        BY <4>1, <4>2
    <3> QED
      BY <2>5, <3>1, <3>2, <3>3 DEF ParseStep, MatchStep
  <2> QED
    BY <2>2, <2>3, <2>4, <2>5 DEF SNext
<1> QED
  BY <1>5, <1>7

\* What a request may be told it may be told after a step as well.
LEMMA JustifiedStays ==
    ASSUME HistorySafe, SNext, Remember, NEW r \in Requests, req[r].stage # "idle",
           req'[r].stage # "idle", NEW k \in Keys, NEW x, Justified(r, k, x)
    PROVE  Justified(r, k, x)'
<1>1. since'[r] = since[r] /\ (Sound(r, k)' => Sound(r, k))
  BY StampSteps
<1> QED
  BY <1>1 DEF Justified

\* A thread that does nothing
LEMMA ReadsStay ==
    ASSUME HistorySafe, SNext, Remember, JobsFit', NEW t \in Threads,
           phase'[t] = phase[t], want'[t] = want[t], out'[t] = out[t], work'[t] = work[t],
           loaded'[t] = loaded[t]
    PROVE  Reads(t)'
<1>1. /\ Reads(t) /\ Fits(work[t]) /\ work[t] \in Jobs \cup {NoJob}
      /\ loaded[t] # NotLoaded => phase[t] = "missed"
      /\ phase[t] # "idle" => want[t] \in Keys
  BY DEF HistorySafe, HistoryInvariant, JobsFit, ServerSafe, ServerTypeOK, ServerInvariant, Holds
<1>2. work[t].kind = "parse" => /\ work[t].req \in Requests /\ work[t].key \in Keys
                                /\ req[work[t].req].stage = "parsing"
                                /\ req'[work[t].req].stage = "parsing"
  BY <1>1 DEF Jobs, NoJob, JobsFit, Fits
<1>3. NotLoaded.status = "none"
  BY DEF NotLoaded
<1>4. loaded[t].status = "ok" => loaded[t].meta \in floor'[want[t]]..MaxStamp
  <2>1. ASSUME loaded[t].status = "ok"
        PROVE  loaded[t].meta \in floor'[want[t]]..MaxStamp
    <3>1. /\ phase[t] = "missed" /\ want[t] \in Keys
          /\ loaded[t].meta \in floor[want[t]]..MaxStamp
      BY <1>1, <1>3, <2>1 DEF Reads
    <3>2. floor'[want[t]] # floor[want[t]] => ~(loaded[t].meta < disk[want[t]].stamp)
      BY <2>1, <3>1, StampSteps DEF ReadingOld
    <3>3. loaded[t].meta \in Int /\ disk[want[t]].stamp \in Int
      BY <3>1, DiskSteps
    <3>4. floor'[want[t]] # floor[want[t]] => loaded[t].meta >= disk[want[t]].stamp
      BY <3>2, <3>3
    <3> QED
      BY <3>1, <3>4, FloorMoves
  <2> QED
    BY <2>1
<1>5. loaded[t].status \notin {"none", "ok"} => ~Sound(work[t].req, want[t])'
  <2>1. ASSUME loaded[t].status \notin {"none", "ok"}
        PROVE  /\ work[t].req \in Requests /\ want[t] \in Keys
               /\ req[work[t].req].stage # "idle" /\ req'[work[t].req].stage # "idle"
               /\ ~Sound(work[t].req, want[t])
    BY <1>1, <1>2, <1>3, <2>1 DEF Reads
  <2>2. ASSUME loaded[t].status \notin {"none", "ok"}, Sound(work[t].req, want[t])'
        PROVE  FALSE
    <3>1. PICK r \in Requests, k \in Keys : r = work[t].req /\ k = want[t]
      BY <2>1, <2>2
    <3>2. req[r].stage # "idle" /\ req'[r].stage # "idle" /\ ~Sound(r, k)
      BY <2>1, <2>2, <3>1
    <3>3. Sound(r, k)'
      BY <2>2, <3>1 DEF Sound
    <3> QED
      BY <3>2, <3>3, StampSteps
  <2> QED
    BY <2>2
<1>6. work[t].kind = "parse" /\ phase[t] = "idle" =>
          out[t].status # "none" /\ Justified(work[t].req, work[t].key, out[t])'
  <2>1. ASSUME work[t].kind = "parse", phase[t] = "idle"
        PROVE  out[t].status # "none" /\ Justified(work[t].req, work[t].key, out[t])'
    <3>1. PICK r \in Requests, k \in Keys : r = work[t].req /\ k = work[t].key
      BY <1>2, <2>1
    <3>2. PICK x : x = out[t]
      OBVIOUS
    <3>3. out[t].status # "none" /\ Justified(r, k, x)
      BY <1>1, <2>1, <3>1, <3>2 DEF Reads
    <3>4. Justified(r, k, x)'
      BY <1>2, <2>1, <3>1, <3>3, JustifiedStays
    <3> QED
      BY <3>1, <3>2, <3>3, <3>4 DEF Justified, Sound
  <2> QED
    BY <2>1
<1> QED
  BY <1>1, <1>4, <1>5, <1>6 DEF Reads

\* A step of one thread leaves the others alone.
LEMMA OthersRest ==
    ASSUME ServerSafe, NEW t \in Threads, ParseStep(t) \/ MatchStep(t) \/ EndMatch(t),
           NEW u \in Threads \ {t}
    PROVE  /\ phase'[u] = phase[u] /\ want'[u] = want[u] /\ out'[u] = out[u]
           /\ work'[u] = work[u] /\ loaded'[u] = loaded[u]
<1>1. /\ phase \in [Threads -> {"idle", "asked", "missed"}]
      /\ want \in [Threads -> Keys \cup {None}] /\ out \in [Threads -> Results]
      /\ work \in [Threads -> Jobs \cup {NoJob}] /\ loaded \in [Threads -> Results]
  BY DEF ServerSafe, ServerTypeOK
<1>2. CASE Take(t)
  <2>1. UNCHANGED contractVars \/ \E k : Ask(t, k)
    BY <1>2 DEF Take
  <2> QED
    BY <1>1, <1>2, <2>1 DEF Take, Ask, contractVars
<1>3. CASE Lookup(t)
  BY <1>1, <1>3 DEF Lookup, Hit, Miss, Reply, poolVars
<1>4. CASE Load(t)
  <2>1. \E x : loaded' = [loaded EXCEPT ![t] = x]
    <3>1. disk[want[t]].shape \in {"ok", "big", "malformed", "drifted", "unsteady", "absent", "dangling"}
      <4>1. want[t] \in Keys
        BY <1>4, ThreadFacts DEF Load
      <4> QED
        BY <4>1, ServerShapesAssumption DEF ServerSafe, ServerTypeOK
    <3> QED
      BY <1>4, <3>1 DEF Load, Statable
  <2> QED
    BY <1>1, <1>4, <2>1 DEF Load, contractVars
<1>5. CASE EndParse(t)
  BY <1>1, <1>5 DEF EndParse, Admit, GiveUp, Reply
<1>6. CASE StartMatch(t)
  BY <1>6 DEF StartMatch, contractVars
<1>7. CASE EndMatch(t) \/ Finish(t)
  BY <1>1, <1>7 DEF EndMatch, Finish, Deliver, contractVars
<1> QED
  BY <1>2, <1>3, <1>4, <1>5, <1>6, <1>7 DEF ParseStep, MatchStep

\* A content as new as the floor is as new as what the request knows of.
LEMMA FloorJustifies ==
    ASSUME HistorySafe, SNext, Remember, NEW r \in Requests, req[r].stage # "idle",
           req'[r].stage # "idle", NEW k \in Keys, NEW m \in floor[k]..MaxStamp
    PROVE  Justified(r, k, Answer("ok", m))'
<1>1. since'[r] = since[r]
  BY StampSteps
<1>2. since[r][k] \in Nat /\ floor[k] \in Nat /\ since[r][k] <= floor[k] /\ MaxStamp \in Nat
  BY ServerMetasAssumption DEF HistorySafe, HistoryInvariant, Stamps
<1>3. m \in since[r][k]..MaxStamp
  BY <1>2
<1> QED
  BY <1>1, <1>3 DEF Justified, Answer

LEMMA ThreadReads ==
    ASSUME HistorySafe, SNext, Remember, JobsFit', NEW t \in Threads,
           ParseStep(t) \/ MatchStep(t) \/ EndMatch(t)
    PROVE  Reads(t)'
<1> USE DEF HistorySafe
<1>1. /\ phase \in [Threads -> {"idle", "asked", "missed"}]
      /\ want \in [Threads -> Keys \cup {None}] /\ out \in [Threads -> Results]
      /\ work \in [Threads -> Jobs \cup {NoJob}] /\ loaded \in [Threads -> Results]
      /\ disk \in [Keys -> [stamp : 0..MaxStamp, shape : Shapes]]
  BY DEF ServerSafe, ServerTypeOK
<1>2. /\ Reads(t) /\ Fits(work[t])
      /\ loaded[t] # NotLoaded => phase[t] = "missed"
      /\ phase[t] # "idle" => want[t] \in Keys
  BY DEF HistoryInvariant, JobsFit, ServerSafe, ServerInvariant, Holds
<1>3. work[t].kind = "parse" =>
        /\ work[t].req \in Requests /\ work[t].key \in Keys
        /\ req[work[t].req].stage # "idle"
        /\ work'[t] = work[t] => req'[work[t].req].stage # "idle"
  BY <1>1, <1>2 DEF Jobs, NoJob, JobsFit, Fits
<1>4. NotLoaded.status = "none" /\ NoJob.kind = "none"
  BY DEF NotLoaded, NoJob
<1>5. CASE Take(t)
  <2> DEFINE job == Head(jobs)
  <2>1. /\ work[t] = NoJob /\ work'[t] = job /\ loaded'[t] = loaded[t]
        /\ IF job.kind = "parse" THEN Ask(t, job.key) ELSE UNCHANGED contractVars
    BY <1>1, <1>5 DEF Take
  <2>2. phase[t] = "idle" /\ loaded[t] = NotLoaded
    BY <1>2, <1>4, <2>1 DEF Reads
  <2> HIDE DEF job
  <2>3. CASE job.kind = "parse"
    <3>1. phase'[t] = "asked" /\ want'[t] = job.key
      BY <1>1, <2>1, <2>3 DEF Ask
    <3> QED
      BY <1>4, <2>1, <2>2, <2>3, <3>1 DEF Reads
  <2>4. CASE job.kind # "parse"
    <3>1. phase'[t] = "idle"
      BY <2>1, <2>2, <2>4 DEF contractVars
    <3> QED
      BY <1>4, <2>1, <2>2, <2>4, <3>1 DEF Reads
  <2> QED
    BY <2>3, <2>4
\* The call of the thread ends, with an answer that is justified.
<1>6. ASSUME work'[t] = work[t], phase[t] # "idle", phase'[t] = "idle", loaded'[t] = NotLoaded,
             NEW x, out'[t] = x, x.status # "none",
             \A r \in Requests, k \in Keys :
                r = work[t].req /\ k = want[t] /\ req[r].stage # "idle" /\ req'[r].stage # "idle"
                    => Justified(r, k, x)'
      PROVE  Reads(t)'
  <2>1. PICK r \in Requests, k \in Keys : r = work[t].req /\ k = want[t]
    BY <1>2, <1>3, <1>6 DEF Reads
  <2>2. k = work[t].key /\ req[r].stage # "idle" /\ req'[r].stage # "idle"
    BY <1>2, <1>3, <1>6, <2>1 DEF Reads
  <2>3. Justified(r, k, x)'
    BY <1>6, <2>1, <2>2
  <2>4. Justified(work[t].req, work[t].key, out[t])'
    BY <1>6, <2>1, <2>2, <2>3 DEF Justified, Sound
  <2> QED
    BY <1>4, <1>6, <2>4 DEF Reads
<1>7. CASE Lookup(t)
  <2>1. work' = work /\ loaded' = loaded /\ phase[t] = "asked" /\ want[t] \in Keys /\ loaded[t] = NotLoaded
    BY <1>2, <1>7 DEF Lookup, poolVars, Hit, Miss
  <2>2. CASE Hit(t)
    <3> DEFINE m == MetaOf(lru, want[t])
    <3>1. want[t] \in KeysOf(lru) /\ phase'[t] = "idle" /\ out'[t] = Answer("ok", m)
      BY <1>1, <2>2 DEF Hit, Reply
    <3>2. IndexOf(lru, want[t]) \in DOMAIN lru /\ lru[IndexOf(lru, want[t])].key = want[t]
      BY <3>1, IndexOfKey
    <3>3. m \in floor[want[t]]..MaxStamp
      BY <3>2 DEF MetaOf, CacheFresh, HistoryInvariant
    <3> HIDE DEF m
    <3>4. PICK n : n = m
      OBVIOUS
    <3>5. Answer("ok", n).status # "none"
      BY DEF Answer
    <3>6. \A r \in Requests, k \in Keys :
            r = work[t].req /\ k = want[t] /\ req[r].stage # "idle" /\ req'[r].stage # "idle"
                => Justified(r, k, Answer("ok", n))'
      BY <3>3, <3>4, FloorJustifies
    <3>7. PICK x : x = Answer("ok", n)
      OBVIOUS
    <3>8. \A r \in Requests, k \in Keys :
            r = work[t].req /\ k = want[t] /\ req[r].stage # "idle" /\ req'[r].stage # "idle"
                => Justified(r, k, x)'
      BY <3>6, <3>7 DEF Justified
    <3> QED
      BY <1>6, <2>1, <3>1, <3>4, <3>5, <3>7, <3>8
  <2>3. CASE Miss(t)
    <3>1. phase'[t] = "missed" /\ want' = want
      BY <1>1, <2>3 DEF Miss
    <3> QED
      BY <1>2, <1>4, <2>1, <3>1 DEF Reads
  <2> QED
    BY <1>7, <2>2, <2>3 DEF Lookup
<1>8. CASE Load(t)
  <2> DEFINE file == disk[want[t]]
  <2>1. /\ phase[t] = "missed" /\ want[t] \in Keys
        /\ UNCHANGED <<contractVars, fileVars, loopVars, jobs, work, gil>>
    BY <1>2, <1>8 DEF Load
  <2>2. file.shape \in {"ok", "big", "malformed", "drifted", "unsteady", "absent", "dangling"}
    BY <1>1, <2>1, ServerShapesAssumption
  <2>3. PICK s \in {"ok", "too_large", "malformed", "value_error", "os_error"} :
          /\ loaded' = [loaded EXCEPT ![t] = [status |-> s, meta |-> IF s = "ok" THEN file.stamp ELSE NoMeta]]
          /\ s # "ok" => file.shape # "ok"
    BY <1>8, <2>2 DEF Load, Statable
  <2>4. /\ loaded'[t].status = s
        /\ s = "ok" => loaded'[t].meta = file.stamp
        /\ phase'[t] = "missed" /\ want'[t] = want[t] /\ work'[t] = work[t] /\ disk' = disk
    BY <1>1, <2>1, <2>3 DEF contractVars, fileVars
  <2>5. s = "ok" => loaded'[t].meta \in floor'[want[t]]..MaxStamp
    <3>1. floor'[want[t]] <= disk'[want[t]].stamp /\ floor'[want[t]] \in Nat
      BY <2>1, StampSteps DEF Stamps
    <3>2. disk[want[t]].stamp \in 0..MaxStamp
      BY <2>1, DiskSteps
    <3> QED
      BY <2>4, <3>1, <3>2, ServerMetasAssumption
  <2>6. s # "ok" => ~Sound(work[t].req, want[t])'
    BY <2>3, <2>4 DEF Sound
  <2>7. work'[t].kind = "parse" /\ want'[t] = work'[t].key
    BY <1>2, <2>1, <2>4 DEF Reads
  <2>8. loaded'[t].status = "ok" => loaded'[t].meta \in floor'[want'[t]]..MaxStamp
    BY <2>4, <2>5
  <2>9. loaded'[t].status # "none"
    BY <2>3, <2>4
  <2>10. loaded'[t].status \notin {"none", "ok"} => ~Sound(work[t].req, want[t])'
    BY <2>4, <2>6
  <2>11. phase'[t] # "idle"
    BY <2>4
  <2> QED
    BY <2>7, <2>8, <2>9, <2>10, <2>11 DEF Reads
<1>9. CASE EndParse(t)
  <2>1. /\ loaded'[t] = NotLoaded /\ work' = work /\ phase[t] = "missed" /\ want[t] \in Keys
    BY <1>1, <1>2, <1>9 DEF EndParse
  <2>2. CASE loaded[t].status = "ok"
    <3>1. PICK n : n = loaded[t].meta
      OBVIOUS
    <3>2. PICK x : x = Answer("ok", n)
      OBVIOUS
    <3>3. phase'[t] = "idle" /\ out'[t] = x /\ x.status # "none"
      BY <1>1, <1>9, <2>2, <3>1, <3>2 DEF EndParse, Admit, Reply, Answer
    <3>4. n \in floor[want[t]]..MaxStamp
      BY <1>2, <2>2, <3>1 DEF Reads
    <3>5. \A r \in Requests, k \in Keys :
            r = work[t].req /\ k = want[t] /\ req[r].stage # "idle" /\ req'[r].stage # "idle"
                => Justified(r, k, Answer("ok", n))'
      BY <3>4, FloorJustifies
    <3>6. \A r \in Requests, k \in Keys :
            r = work[t].req /\ k = want[t] /\ req[r].stage # "idle" /\ req'[r].stage # "idle"
                => Justified(r, k, x)'
      BY <3>2, <3>5 DEF Justified
    <3> QED
      BY <1>6, <2>1, <3>3, <3>6
  <2>3. CASE loaded[t].status # "ok"
    <3>1. PICK x : x = Answer(loaded[t].status, NoMeta)
      OBVIOUS
    <3>2. phase'[t] = "idle" /\ out'[t] = x /\ x.status = loaded[t].status
      BY <1>1, <1>9, <2>3, <3>1 DEF EndParse, GiveUp, Reply, Answer
    <3>3. x.status \notin {"none", "ok"} /\ ~Sound(work[t].req, want[t])
      BY <1>2, <1>9, <2>3, <3>2 DEF Reads, EndParse
    <3>4. \A r \in Requests, k \in Keys :
            r = work[t].req /\ k = want[t] /\ req[r].stage # "idle" /\ req'[r].stage # "idle"
                => Justified(r, k, x)'
      <4> TAKE r \in Requests, k \in Keys
      <4> HAVE r = work[t].req /\ k = want[t] /\ req[r].stage # "idle" /\ req'[r].stage # "idle"
      <4>1. ~Sound(r, k)
        BY <3>3
      <4>2. ~Sound(r, k)'
        BY <4>1, StampSteps
      <4> QED
        BY <3>3, <4>2 DEF Justified
    <3> QED
      BY <1>6, <2>1, <3>2, <3>3, <3>4
  <2> QED
    BY <2>2, <2>3
<1>10. CASE StartMatch(t)
  BY <1>10, ReadsStay DEF StartMatch, contractVars
<1>11. CASE Finish(t) \/ EndMatch(t)
  <2>1. phase[t] = "idle"
    BY <1>2, <1>11 DEF Finish, EndMatch, Reads, ServerSafe, ServerInvariant, Holds
  <2>2. work'[t] = NoJob /\ phase'[t] = "idle" /\ loaded'[t] = NotLoaded
    BY <1>1, <1>2, <1>11, <2>1 DEF Finish, EndMatch, Deliver, contractVars
  <2> QED
    BY <1>4, <2>2 DEF Reads
<1> QED
  BY <1>5, <1>7, <1>8, <1>9, <1>10, <1>11 DEF ParseStep, MatchStep

LEMMA ReadsSteps ==
    ASSUME HistorySafe, SNext, Remember, JobsFit', NEW t \in Threads
    PROVE  Reads(t)'
<1> USE DEF HistorySafe
<1>1. CASE UNCHANGED <<phase, want, out, work, loaded>>
  BY <1>1, ReadsStay
<1>2. CASE Arrival
  BY <1>1, <1>2 DEF Arrival, Send, contractVars, poolVars
<1>3. CASE \E k \in Keys : Write(k)
  BY <1>1, <1>3 DEF Write, contractVars, poolVars
<1>4. CASE LoopRuns \/ \E r \in Requests : EndNames(r)
  <2>1. ASSUME Pick PROVE UNCHANGED <<phase, want, out, work, loaded>>
    BY <2>1 DEF Pick, contractVars, poolVars
  <2>2. ASSUME NEW r \in Requests, LoopStep(r) \/ EndNames(r)
        PROVE  UNCHANGED <<phase, want, out, work, loaded>>
    BY <2>2, LoopStepKeeps DEF LoopKeeps
  <2> QED
    BY <1>1, <1>4, <2>1, <2>2 DEF LoopRuns
<1>5. ASSUME NEW u \in Threads, ParseStep(u) \/ MatchStep(u) \/ EndMatch(u)
      PROVE  Reads(t)'
  <2>1. CASE u = t
    BY <1>5, <2>1, ThreadReads
  <2>2. CASE u # t
    <3>1. /\ phase'[t] = phase[t] /\ want'[t] = want[t] /\ out'[t] = out[t]
          /\ work'[t] = work[t] /\ loaded'[t] = loaded[t]
      BY <1>5, <2>2, OthersRest
    <3> QED
      BY <3>1, ReadsStay
  <2> QED
    BY <2>1, <2>2
<1> QED
  BY <1>2, <1>3, <1>4, <1>5 DEF SNext

----------------------------------------------------------------------------
(* The requests *)

\* A request of which at most the result changes
LEMMA KeepsStay ==
    ASSUME HistorySafe, SNext, Remember, NEW r \in Requests,
           /\ req'[r].stage = req[r].stage /\ req'[r].tool = req[r].tool /\ req'[r].arg = req[r].arg
           /\ req'[r].files = req[r].files /\ req'[r].todo = req[r].todo
           /\ req'[r].skipped = req[r].skipped,
           NEW x, req'[r].result = x,
           req[r].stage = "parsing" =>
              \/ x.status # "none" /\ Justified(r, Target(req[r]), x)
              \/ x = req[r].result /\ (running' = r \/ Waiting(r)' # {} => running = r \/ Waiting(r) # {})
    PROVE  Keeps(r)'
<1> DEFINE q == req[r]
<1>1. Keeps(r)
  BY DEF HistorySafe, HistoryInvariant
<1>2. CASE q.stage = "idle"
  BY <1>2 DEF Keeps
<1>3. CASE q.stage # "idle"
  <2>1. /\ \A k \in Keys : Sound(r, k)' => Sound(r, k)
        /\ \A k \in ToSet(req'[r].skipped) : ~Sound(r, k)'
    <3>1. \A k \in Keys : Sound(r, k)' => Sound(r, k)
      BY <1>3, StampSteps
    <3>2. \A k \in ToSet(q.skipped) : k \in Keys /\ ~Sound(r, k)
      <4>1. q.skipped \in Seq(Keys)
        BY DEF HistorySafe, ServerSafe, ServerTypeOK, Locals
      <4> QED
        BY <1>1, <1>3, <4>1 DEF Keeps, ToSet
    <3> QED
      BY <3>1, <3>2
  <2>2. CASE q.stage = "parsing"
    <3>1. PICK k \in Keys : k = Target(q)
      BY <1>1, <2>2 DEF Keeps
    <3>2. Target(req'[r]) = k
      BY <3>1 DEF Target
    <3>3. Justified(r, k, x)
      BY <1>1, <2>2, <3>1 DEF Keeps
    <3>4. Justified(r, k, x)'
      BY <1>3, <3>3, JustifiedStays
    <3>5. running' = r \/ Waiting(r)' # {} => x.status # "none"
      BY <1>1, <2>2 DEF Keeps
    <3>6. Justified(r, Target(req[r]), req[r].result)'
      BY <3>2, <3>4 DEF Justified, Sound
    <3> QED
      BY <1>1, <1>3, <2>1, <2>2, <3>2, <3>5, <3>6 DEF Keeps
  <2>3. CASE q.stage # "parsing"
    BY <1>1, <1>3, <2>1, <2>3 DEF Keeps
  <2> QED
    BY <2>2, <2>3
<1> QED
  BY <1>2, <1>3

\* The request whose handler runs
LEMMA HandlerKeeps ==
    ASSUME HistorySafe, SNext, Remember, NEW r \in Requests, LoopKeeps(r), Outcome(r)
    PROVE  Keeps(r)'
<1> DEFINE q == req[r]
           p == req'[r]
<1>1. Keeps(r) /\ q \in Locals /\ q.stage # "idle" /\ Waiting(r) = {}
  BY RunningAlone, NoJobsFor DEF HistorySafe, HistoryInvariant, ServerSafe, ServerTypeOK, LoopKeeps
<1>2. CASE p.stage = "idle"
  BY <1>2 DEF Keeps
<1>3. CASE p.stage # "idle"
  <2>1. \A k \in Keys : Sound(r, k)' => Sound(r, k)
    BY <1>1, <1>3, StampSteps
  <2>2. /\ p.tool = q.tool /\ p.arg = q.arg
        /\ p.skipped = q.skipped \/ Skips(r)
        /\ p.stage \in Past /\ p.arg = None => (q.stage \in Past /\ p.files = q.files) \/ Lists(r)
        /\ p.stage = "parsing" => Target(p) \in Keys /\ p.result = NotLoaded /\ running' = None
    BY <1>3 DEF Outcome
  <2>3. p.stage = "parsing" => /\ Target(p) \in Keys /\ p.result.status = "none"
                               /\ running' # r /\ Waiting(r)' = {}
    <3>1. Waiting(r)' = Waiting(r)
      BY DEF LoopKeeps, Waiting
    <3> QED
      BY <1>1, <2>2, <3>1, ServerNoneAssumption DEF NotLoaded
  <2>4. \A k \in ToSet(p.skipped) : ~Sound(r, k)'
    <3>1. CASE p.skipped = q.skipped
      <4>1. \A k \in ToSet(q.skipped) : k \in Keys /\ ~Sound(r, k)
        BY <1>1 DEF Keeps, Locals, ToSet
      <4> QED
        BY <2>1, <3>1, <4>1
    <3>2. CASE Skips(r)
      <4> DEFINE h == Head(q.todo)
      <4>1. h \in Keys /\ q.skipped \in Seq(Keys) /\ p.skipped = Append(q.skipped, h) /\ ~Sound(r, h)
        BY <1>1, <3>2, LocalsTypes DEF Skips, Locals
      <4> HIDE DEF h
      <4>2. ToSet(p.skipped) = ToSet(q.skipped) \cup {h}
        BY <4>1, ToSetSteps
      <4>3. \A k \in ToSet(q.skipped) : k \in Keys /\ ~Sound(r, k)
        BY <1>1, <4>1 DEF Keeps, ToSet
      <4>4. \A k \in ToSet(p.skipped) : k \in Keys /\ ~Sound(r, k)
        BY <4>1, <4>2, <4>3
      <4> QED
        BY <2>1, <4>4
    <3> QED
      BY <2>2, <3>1, <3>2
  <2>5. p.stage \in Past /\ p.tool \in Listing /\ p.arg = None =>
          \A k \in Keys : Sound(r, k)' => k \in ToSet(p.files)
    <3>1. CASE q.stage \in Past /\ p.files = q.files
      BY <1>1, <2>1, <2>2, <3>1 DEF Keeps, Past
    <3>2. CASE Lists(r)
      BY <2>1, <3>2 DEF Lists, Sound, Listed
    <3> QED
      BY <2>2, <3>1, <3>2
  <2>6. p.stage = "parsing" => Justified(r, Target(q), q.result)'
    BY <2>3 DEF Justified
  <2> QED
    BY <2>3, <2>4, <2>5, <2>6 DEF Keeps, Past
<1> QED
  BY <1>2, <1>3

LEMMA KeepsSteps ==
    ASSUME HistorySafe, SNext, Remember, NEW r \in Requests
    PROVE  Keeps(r)'
<1> USE DEF HistorySafe
<1>1. ASSUME req'[r] = req[r], running' = r \/ Waiting(r)' # {} => running = r \/ Waiting(r) # {}
      PROVE  Keeps(r)'
  BY <1>1, KeepsStay
<1>2. CASE UNCHANGED loopVars
  <2>1. Waiting(r)' = Waiting(r)
    BY <1>2 DEF loopVars, Waiting
  <2> QED
    BY <1>1, <1>2, <2>1 DEF loopVars
<1>3. CASE Arrival
  <2>1. PICK u, tool, arg, exact : u \in Requests /\ Send(u, tool, arg, exact)
    BY <1>3 DEF Arrival
  <2>2. /\ req'[u] = [Idle EXCEPT !.stage = "start", !.tool = tool, !.arg = arg, !.exact = exact]
        /\ ready' = Append(ready, u) /\ running' = running
        /\ r # u => req'[r] = req[r]
    BY <2>1 DEF Send, ServerSafe, ServerTypeOK
  <2>3. CASE r = u
    <3>1. req'[r].stage = "start" /\ req'[r].skipped = <<>>
      BY <2>2, <2>3 DEF Idle
    <3>2. ToSet(<<>>) = {}
      BY DEF ToSet
    <3> QED
      BY <3>1, <3>2 DEF Keeps
  <2>4. CASE r # u
    <3>1. Waiting(r)' = Waiting(r)
      <4>1. ready \in Seq(Requests)
        BY DEF ServerSafe, ServerTypeOK
      <4> QED
        BY <2>2, <2>4, <4>1 DEF Waiting
    <3> QED
      BY <1>1, <2>2, <2>4, <3>1
  <2> QED
    BY <2>3, <2>4
<1>4. CASE \E k \in Keys : Write(k)
  BY <1>2, <1>4 DEF Write
<1>5. CASE Pick
  <2>1. /\ running' = Head(ready) /\ ready' = Tail(ready) /\ req' = req /\ ready # <<>>
        /\ ready \in Seq(Requests)
    BY <1>5 DEF Pick, ServerSafe, ServerTypeOK
  <2>2. /\ DOMAIN ready = 1..Len(ready) /\ Len(ready) \in Nat \ {0} /\ Head(ready) = ready[1]
        /\ DOMAIN Tail(ready) = 1..(Len(ready) - 1)
        /\ \A i \in 1..(Len(ready) - 1) : Tail(ready)[i] = ready[i + 1]
    BY <2>1, HeadTailProperties
  <2>3. running' = r => Waiting(r) # {}
    BY <2>1, <2>2 DEF Waiting
  <2>4. Waiting(r)' # {} => Waiting(r) # {}
    <3>1. \A i \in DOMAIN Tail(ready) : i + 1 \in DOMAIN ready /\ Tail(ready)[i] = ready[i + 1]
      BY <2>2
    <3> QED
      BY <2>1, <3>1 DEF Waiting
  <2> QED
    BY <1>1, <2>1, <2>3, <2>4
<1>6. ASSUME NEW u \in Requests, LoopStep(u) \/ EndNames(u)
      PROVE  Keeps(r)'
  <2>1. LoopKeeps(u) /\ Outcome(u)
    BY <1>6, LoopStepKeeps, LoopOutcome
  <2>2. CASE r = u
    BY <2>1, <2>2, HandlerKeeps
  <2>3. CASE r # u
    <3>1. req'[r] = req[r] /\ Waiting(r)' = Waiting(r) /\ running' # r
      BY <2>1, <2>3, ServerNoneAssumption DEF LoopKeeps, Waiting
    <3> QED
      BY <1>1, <3>1
  <2> QED
    BY <2>2, <2>3
<1>7. ASSUME NEW t \in Threads, Finish(t) \/ EndMatch(t)
      PROVE  Keeps(r)'
  <2>1. PICK x : Deliver(t, x) /\ (Finish(t) => x = out[t])
    BY <1>7 DEF Finish, EndMatch
  <2>2. PICK u : u = work[t].req
    OBVIOUS
  <2>3. work[t] \in Jobs /\ u \in Requests
    <3>1. work[t].kind \in {"parse", "match"}
      BY <1>7 DEF Finish, EndMatch, ServerSafe, ServerInvariant, Holds
    <3> QED
      BY <2>2, <3>1 DEF ServerSafe, ServerTypeOK, NoJob, Jobs
  <2>4. /\ req' = [req EXCEPT ![u] = [req[u] EXCEPT !.result = x]] /\ running' = running
        /\ ready' = Append(ready, u) /\ req \in [Requests -> Locals]
    BY <2>1, <2>2 DEF Deliver, ServerSafe, ServerTypeOK
  <2>5. CASE r = u
    <3>1. /\ req'[r].stage = req[r].stage /\ req'[r].tool = req[r].tool /\ req'[r].arg = req[r].arg
          /\ req'[r].files = req[r].files /\ req'[r].todo = req[r].todo
          /\ req'[r].skipped = req[r].skipped /\ req'[r].result = x
      BY <2>4, <2>5 DEF Locals
    <3>2. Fits(work[t]) /\ Reads(t)
      BY DEF HistoryInvariant, JobsFit
    <3>3. CASE Finish(t)
      <4>1. /\ work[t].kind = "parse" /\ phase[t] = "idle" /\ x = out[t]
            /\ work[t].key = Target(req[r])
        BY <2>1, <2>2, <2>5, <3>2, <3>3 DEF Finish, Fits
      <4>2. x.status # "none" /\ Justified(r, Target(req[r]), x)
        BY <2>2, <2>5, <3>2, <4>1 DEF Reads
      <4> QED
        BY <3>1, <4>2, KeepsStay
    <3>4. CASE EndMatch(t)
      <4>1. req[r].stage = "matching"
        BY <2>2, <2>5, <3>2, <3>4 DEF EndMatch, Fits, ServerSafe, ServerInvariant, Holds
      <4> QED
        BY <3>1, <4>1, KeepsStay
    <3> QED
      BY <1>7, <3>3, <3>4
  <2>6. CASE r # u
    <3>1. req'[r] = req[r]
      BY <2>4, <2>6
    <3>2. Waiting(r)' = Waiting(r)
      <4>1. ready \in Seq(Requests)
        BY DEF ServerSafe, ServerTypeOK
      <4> QED
        BY <2>4, <2>6, <4>1 DEF Waiting
    <3> QED
      BY <1>1, <2>4, <3>1, <3>2
  <2> QED
    BY <2>5, <2>6
<1>8. ASSUME NEW t \in Threads, ParseStep(t) \/ MatchStep(t) \/ EndMatch(t)
      PROVE  Keeps(r)'
  <2>1. CASE Take(t) \/ Lookup(t) \/ Load(t) \/ EndParse(t) \/ StartMatch(t)
    BY <1>2, <2>1 DEF Take, Lookup, Load, EndParse, StartMatch
  <2> QED
    BY <1>7, <1>8, <2>1 DEF ParseStep, MatchStep
<1> QED
  BY <1>3, <1>4, <1>5, <1>6, <1>8 DEF SNext, LoopRuns

----------------------------------------------------------------------------
LEMMA HistoryInit == HInit => HistorySafe
<1> SUFFICES ASSUME HInit PROVE HistorySafe
  OBVIOUS
<1>1. ServerSafe
  BY InitSafe DEF HInit
<1>2. /\ SInit /\ floor = NoFloor /\ since = [r \in Requests |-> NoFloor]
      /\ began = [r \in Requests |-> 0]
  BY DEF HInit
<1>3. Stamps
  <2>1. NoFloor \in [Keys -> 0..MaxStamp] /\ \A k \in Keys : NoFloor[k] = 0
    BY ServerMetasAssumption DEF NoFloor
  <2>2. clock = 0 /\ \A k \in Keys : disk[k].stamp = 0
    BY <1>2 DEF SInit
  <2> QED
    BY <1>2, <2>1, <2>2, ServerMetasAssumption DEF Stamps
<1>4. JobsFit /\ CacheFresh
  <2>1. jobs = <<>> /\ lru = <<>> /\ DOMAIN <<>> = {} /\ \A t \in Threads : work[t].kind = "none"
    BY <1>2 DEF SInit, CInit, NoJob
  <2> QED
    BY <2>1 DEF JobsFit, Fits, CacheFresh
<1>5. \A t \in Threads : Reads(t)
  BY <1>2 DEF SInit, CInit, NoJob, NotLoaded, Reads
<1>6. \A r \in Requests : Keeps(r)
  BY <1>2, IdleFacts DEF SInit, Keeps
<1> QED
  BY <1>1, <1>3, <1>4, <1>5, <1>6 DEF HistorySafe, HistoryInvariant

LEMMA HistoryNext ==
    ASSUME HistorySafe, HNext
    PROVE  HistorySafe'
<1>1. SNext /\ Remember
  BY DEF HNext
<1>2. ServerSafe'
  BY <1>1, NextSafe DEF HistorySafe
<1>3. JobsFit'
  BY <1>1, JobsFitSteps
<1>4. Stamps' /\ CacheFresh'
  BY <1>1, StampSteps, CacheFreshSteps
<1>5. (\A t \in Threads : Reads(t)') /\ \A r \in Requests : Keeps(r)'
  BY <1>1, <1>3, ReadsSteps, KeepsSteps
<1> QED
  BY <1>2, <1>3, <1>4, <1>5 DEF HistorySafe, HistoryInvariant

LEMMA HistoryStutters ==
    ASSUME HistorySafe, UNCHANGED historyVars
    PROVE  HistorySafe'
<1>1. UNCHANGED serverVars /\ UNCHANGED history
  BY DEF historyVars
<1>2. ServerSafe'
  BY <1>1, StutterSafe DEF HistorySafe
<1>3. HistoryInvariant'
  BY <1>1 DEF HistorySafe, HistoryInvariant, Stamps, JobsFit, Fits, CacheFresh, Reads, Keeps, Justified,
     Sound, Target, Waiting, history, serverVars, contractVars, fileVars, loopVars, poolVars
<1> QED
  BY <1>2, <1>3 DEF HistorySafe

\* What the history remembers of reloads and writes is true of the cache, of
\* the executor threads and of every request, in every reachable state.
THEOREM HistoryKept == HistorySpec => [](ServerTypeOK /\ ServerInvariant /\ HistoryInvariant)
<1>1. HistorySafe /\ [HNext]_historyVars => HistorySafe'
  BY HistoryNext, HistoryStutters
<1> QED
  BY <1>1, HistoryInit, PTL DEF HistorySpec, HistorySafe, ServerSafe

\* After a reload no tool is given a content of that file from before the
\* reload, for any number of files, threads and concurrent requests.
THEOREM ReloadsAreFelt == HistorySpec => []ReloadedIsFresh
<1>1. HistoryInvariant => ReloadedIsFresh
  <2>1. ASSUME HistoryInvariant, NEW r \in Requests, req[r].stage = "parsing",
               req[r].result.status = "ok"
        PROVE  req[r].result.meta >= since[r][Target(req[r])]
    <3>1. /\ Target(req[r]) \in Keys
          /\ req[r].result.meta \in since[r][Target(req[r])]..MaxStamp
      BY <2>1 DEF HistoryInvariant, Keeps, Justified
    <3>2. since[r][Target(req[r])] \in 0..MaxStamp /\ MaxStamp \in Nat
      BY <2>1, <3>1, ServerMetasAssumption DEF HistoryInvariant, Stamps
    <3> QED
      BY <3>1, <3>2
  <2> QED
    BY <2>1 DEF ReloadedIsFresh
<1> QED
  BY <1>1, HistoryKept, PTL

\* Once the directory has been indexed, no file that is unreadable, oversized,
\* malformed or gone turns a listing or a search into an error, and none keeps
\* it from scanning a file that is sound all the while.
THEOREM BadFilesAreSkipped == HistorySpec => OneBadFileSparesTheRest
<1>1. ASSUME HistorySafe, SNext, NEW r \in Requests, Responds(r),
             req[r].stage \notin {"start", "index", "resolve", "size", "synthetic"},
             req[r].tool \in Listing
      PROVE  /\ resp'[r].status = "ok"
             /\ \A k \in Targets(r) : Sound(r, k) => k \in ToSet(req[r].scanned)
  <2>1. req[r] \in Locals /\ StageFacts(req[r]) /\ Keeps(r) /\ ServerSafe
    BY <1>1 DEF HistorySafe, HistoryInvariant, ServerSafe, ServerTypeOK, ServerInvariant
  <2>2. EachDone(r)
    <3>1. req[r].tool \notin Parsing /\ req[r].tool # "reload"
      BY <1>1 DEF Listing, Scanning, Parsing
    <3>2. ~EndDrop(r)
      BY <2>1, <3>1 DEF StageFacts, EndDrop, OnLoop
    <3> QED
      BY <1>1, <2>1, <3>1, <3>2, AnswersFrom
  <2>3. req[r].stage = "each" /\ req[r].todo = <<>> /\ resp'[r].status = "ok"
    BY <2>1, <2>2 DEF EachDone, OnLoop, Respond, Answered, ServerSafe, ServerTypeOK
  <2>4. Accounted(req[r])
    BY <2>1, <2>3 DEF StageFacts
  <2>5. ToSet(req[r].scanned) \cup ToSet(req[r].skipped) = ToSet(req[r].files)
    <3>1. ToSet(<<>>) = {}
      BY DEF ToSet
    <3> QED
      BY <2>3, <2>4, <3>1 DEF Accounted
  <2>6. ASSUME NEW k \in Targets(r), Sound(r, k)
        PROVE  k \in ToSet(req[r].scanned)
    <3>1. k \in ToSet(req[r].files)
      BY <1>1, <2>1, <2>3, <2>6 DEF Targets, Keeps
    <3>2. k \notin ToSet(req[r].skipped)
      BY <2>1, <2>3, <2>6 DEF Keeps
    <3> QED
      BY <2>5, <3>1, <3>2
  <2> QED
    BY <2>3, <2>6
<1>2. HistorySafe /\ [HNext]_historyVars =>
        [\A r \in Requests :
            Responds(r) /\ req[r].stage \notin {"start", "index", "resolve", "size", "synthetic"}
                /\ req[r].tool \in Listing =>
                /\ resp'[r].status = "ok"
                /\ \A k \in Targets(r) : Sound(r, k) => k \in ToSet(req[r].scanned)]_historyVars
  BY <1>1 DEF HNext
<1> QED
  BY <1>2, HistoryKept, PTL DEF HistorySpec, HistorySafe, ServerSafe, OneBadFileSparesTheRest
====
