---- MODULE MetadataStore_proofs ----
(***************************************************************************)
(* Theorems about MetadataStore, for any threads, paths and cache bound:   *)
(* its locking, what a reload reports and promises, and that it implements *)
(* LruContract.                                                            *)
(***************************************************************************)
EXTENDS StoreHistory, StoreRefinement, OrderedDict_proofs

LEMMA InitType == Init => TypeOK
BY MaxStampAssumption, ShapesAssumption
   DEF Init, TypeOK, Stamps, Metas, NoMeta, NoRaw, Nothing, NoReply, Answers, Errors,
       Labels, LoopLabels

\* The thread part of TypeOK, and what the end of a call does to it
ThreadType ==
    /\ pc \in [Threads -> Labels]
    /\ key \in [Threads -> Keys \cup {None}]
    /\ \A t \in Threads : pc[t] # "idle" => key[t] \in Keys
    /\ raw \in [Threads -> [stamp : Stamps, shape : Shapes \cup {"absent"}]]
    /\ meta \in [Threads -> Metas]
    /\ ret \in [Threads -> Answers]

LEMMA ReturnType ==
    ASSUME ThreadType, NEW t \in Threads, NEW a \in Answers, Return(t, a)
    PROVE  ThreadType'
BY MaxStampAssumption
   DEF ThreadType, Return, Labels, NoRaw, NoMeta, Metas, Stamps

LEMMA AnswerTypes ==
    /\ \A m \in Metas : Parsed(m) \in Answers
    /\ \A e \in Errors : Raised(e) \in Answers
BY MaxStampAssumption DEF Parsed, Raised, Answers, NoMeta, Metas, Stamps

\* Every step keeps every variable in its set.
LEMMA StepType == TypeOK /\ [Next]_vars => TypeOK'
<1> SUFFICES ASSUME TypeOK, [Next]_vars
             PROVE  TypeOK'
  OBVIOUS
<1> USE MaxStampAssumption, ShapesAssumption, NoneAssumption
<1>1. ASSUME NEW k \in Keys, WriteQvw(k)
      PROVE  TypeOK'
  <2>1. PICK s \in Shapes : disk' = [disk EXCEPT ![k].stamp = clock + 1, ![k].shape = s]
    BY <1>1 DEF WriteQvw
  <2>2. clock' \in Stamps /\ clock + 1 \in Stamps
    BY <1>1 DEF TypeOK, WriteQvw, Stamps
  <2>3. disk' \in [Keys -> [stamp : Stamps, shape : Shapes, prj : Stamps]]
    <3>1. disk \in [Keys -> [stamp : Stamps, shape : Shapes, prj : Stamps]]
      BY DEF TypeOK
    <3> QED
      BY <2>1, <2>2, <3>1
  <2> QED
    BY <1>1, <2>2, <2>3 DEF TypeOK, WriteQvw, threadVars, loopVars
<1>2. ASSUME NEW k \in Keys, WritePrj(k)
      PROVE  TypeOK'
  <2>1. PICK p \in {0, clock + 1} : disk' = [disk EXCEPT ![k].prj = p]
    BY <1>2 DEF WritePrj
  <2>2. clock' \in Stamps /\ p \in Stamps
    BY <1>2 DEF TypeOK, WritePrj, Stamps
  <2>3. disk' \in [Keys -> [stamp : Stamps, shape : Shapes, prj : Stamps]]
    <3>1. disk \in [Keys -> [stamp : Stamps, shape : Shapes, prj : Stamps]]
      BY DEF TypeOK
    <3> QED
      BY <2>1, <2>2, <3>1
  <2> QED
    BY <1>2, <2>2, <2>3 DEF TypeOK, WritePrj, threadVars, loopVars
<1>3. ASSUME NEW t \in Threads, NEW k \in Keys, Call(t, k)
      PROVE  TypeOK'
  <2>1. Nothing \in Answers
    BY DEF Nothing, Answers, NoMeta, Metas, Stamps
  <2>2. /\ pc' \in [Threads -> Labels]
        /\ key' \in [Threads -> Keys \cup {None}]
        /\ \A u \in Threads : pc'[u] # "idle" => key'[u] \in Keys
        /\ ret' \in [Threads -> Answers]
    BY <1>3, <2>1 DEF TypeOK, Call, Go, Labels
  <2> QED
    BY <1>3, <2>2 DEF TypeOK, Call, envVars, loopVars
<1>4. ASSUME NEW t \in Threads, AcquireLookup(t)
      PROVE  TypeOK'
  BY <1>4 DEF TypeOK, AcquireLookup, Go, Take, Free, envVars, loopVars, Labels
<1>5. ASSUME NEW t \in Threads, GetMiss(t)
      PROVE  TypeOK'
  BY <1>5 DEF TypeOK, GetMiss, Go, Release, envVars, loopVars, Labels
<1>6. ASSUME NEW t \in Threads, GetHit(t)
      PROVE  TypeOK'
  <2>1. MetaOf(cache, key[t]) \in Metas
    <3>1. IndexOf(cache, key[t]) \in DOMAIN cache
      BY <1>6, IndexOfKey DEF GetHit
    <3>2. cache[IndexOf(cache, key[t])] \in Entries(Keys, Metas)
      BY <3>1 DEF TypeOK
    <3> QED
      BY <3>2 DEF MetaOf, Entries
  <2> QED
    BY <1>6, <2>1 DEF TypeOK, GetHit, Go, envVars, loopVars, Labels
<1>a. TypeOK => ThreadType
  BY DEF TypeOK, ThreadType
<1>7. ASSUME NEW t \in Threads, Touch(t)
      PROVE  TypeOK'
  <2>1. ThreadType'
    <3>1. meta[t] \in Metas
      BY DEF TypeOK
    <3> QED
      BY <1>7, <1>a, <3>1, ReturnType, AnswerTypes DEF Touch, Errors
  <2>2. cache' \in Seq(Entries(Keys, Metas))
    BY <1>7, MoveToEndProperties DEF TypeOK, Touch
  <2> QED
    BY <1>7, <2>1, <2>2 DEF TypeOK, ThreadType, Touch, Release, envVars, loopVars
<1>8. ASSUME NEW t \in Threads, NEW e \in Errors, Fail(t, e)
      PROVE  TypeOK'
  <2>1. ThreadType'
    BY <1>8, <1>a, ReturnType, AnswerTypes DEF Fail
  <2> QED
    BY <1>8, <2>1 DEF TypeOK, ThreadType, Fail, envVars, loopVars
<1> USE DEF Errors
<1>9. ASSUME NEW t \in Threads, Stat(t)
      PROVE  TypeOK'
  <2>1. CASE \E e \in Errors : Fail(t, e)
    BY <1>8, <2>1
  <2>2. CASE ~\E e \in Errors : Fail(t, e)
    <3>1. Go(t, "stat", "read") /\ UNCHANGED <<envVars, cache, lock, key, raw, meta, ret, loopVars>>
      BY <1>9, <2>2 DEF Stat
    <3> QED
      BY <3>1 DEF TypeOK, Go, envVars, loopVars, Labels
  <2> QED
    BY <2>1, <2>2
<1>10. ASSUME NEW t \in Threads, Read(t)
       PROVE  TypeOK'
  <2> DEFINE file == disk[key[t]]
  <2>1. CASE \E e \in Errors : Fail(t, e)
    BY <1>8, <2>1
  <2>2. CASE ~\E e \in Errors : Fail(t, e)
    <3>1. /\ Go(t, "read", "is_prj")
          /\ raw' = [raw EXCEPT ![t] = [stamp |-> file.stamp, shape |-> file.shape]]
          /\ UNCHANGED <<envVars, cache, lock, key, meta, ret, loopVars>>
      BY <1>10, <2>2 DEF Read
    <3>2. file.stamp \in Stamps /\ file.shape \in Shapes
      BY <3>1 DEF TypeOK, Go
    <3> QED
      BY <3>1, <3>2 DEF TypeOK, Go, envVars, loopVars, Labels
  <2> QED
    BY <2>1, <2>2
<1>11. ASSUME NEW t \in Threads, IsPrj(t)
       PROVE  TypeOK'
  BY <1>11 DEF TypeOK, IsPrj, Go, envVars, loopVars, Labels, Metas
<1>12. ASSUME NEW t \in Threads, ReadPrj(t)
       PROVE  TypeOK'
  <2>1. CASE Fail(t, "os_error")
    BY <1>8, <2>1
  <2>2. CASE ~Fail(t, "os_error")
    <3>1. /\ Go(t, "read_prj", "decode")
          /\ meta' = [meta EXCEPT ![t].script = disk[key[t]].prj]
          /\ UNCHANGED <<envVars, cache, lock, key, raw, ret, loopVars>>
      BY <1>12, <2>2 DEF ReadPrj
    <3>2. disk[key[t]].prj \in Stamps
      BY <3>1 DEF TypeOK, Go
    <3> QED
      BY <3>1, <3>2 DEF TypeOK, Go, envVars, loopVars, Labels, Metas
  <2> QED
    BY <2>1, <2>2
<1>13. ASSUME NEW t \in Threads, Decode(t)
       PROVE  TypeOK'
  <2>1. CASE Fail(t, "value_error")
    BY <1>8, <2>1
  <2>2. CASE ~Fail(t, "value_error")
    BY <1>13, <2>2 DEF TypeOK, Decode, Go, envVars, loopVars, Labels
  <2> QED
    BY <2>1, <2>2
<1>14. ASSUME NEW t \in Threads, AcquireAdmit(t)
       PROVE  TypeOK'
  BY <1>14 DEF TypeOK, AcquireAdmit, Go, Take, Free, envVars, loopVars, Labels
<1>15. ASSUME NEW t \in Threads, Store(t)
       PROVE  TypeOK'
  <2>1. key[t] \in Keys /\ meta[t] \in Metas
    BY <1>15 DEF TypeOK, Store, Go
  <2>2. cache' \in Seq(Entries(Keys, Metas))
    BY <1>15, <2>1, AssignProperties DEF TypeOK, Store
  <2> QED
    BY <1>15, <2>2 DEF TypeOK, Store, Go, envVars, loopVars, Labels
<1>16. ASSUME NEW t \in Threads, Move(t)
       PROVE  TypeOK'
  <2>1. CASE key[t] \in KeysOf(cache)
    <3>1. cache' \in Seq(Entries(Keys, Metas))
      BY <1>16, <2>1, MoveToEndProperties DEF TypeOK, Move
    <3> QED
      BY <1>16, <2>1, <3>1 DEF TypeOK, Move, Go, envVars, loopVars, Labels
  <2>2. CASE key[t] \notin KeysOf(cache)
    <3>1. ThreadType'
      BY <1>16, <1>a, <2>2, ReturnType, AnswerTypes DEF Move
    <3> QED
      BY <1>16, <2>2, <3>1 DEF TypeOK, ThreadType, Move, Release, envVars, loopVars
  <2> QED
    BY <2>1, <2>2
<1>17. ASSUME NEW t \in Threads, Evict(t)
       PROVE  TypeOK'
  <2>1. cache' \in Seq(Entries(Keys, Metas))
    BY <1>17, MaxEntriesAssumption, PopOldestProperties DEF TypeOK, Evict, OverCapacity
  <2> QED
    BY <1>17, <2>1 DEF TypeOK, Evict, envVars, threadVars, loopVars
<1>18. ASSUME NEW t \in Threads, Admitted(t)
       PROVE  TypeOK'
  <2>1. ThreadType'
    <3>1. meta[t] \in Metas
      BY DEF TypeOK
    <3> QED
      BY <1>18, <1>a, <3>1, ReturnType, AnswerTypes DEF Admitted
  <2> QED
    BY <1>18, <2>1 DEF TypeOK, ThreadType, Admitted, OverCapacity, Release, envVars, loopVars
<1>19. ASSUME NEW k \in Keys \cup {None}, Invalidate(k)
       PROVE  TypeOK'
  BY <1>19 DEF TypeOK, Invalidate, LGo, NoReply, envVars, threadVars, LoopLabels
<1>20. CASE LAcquire
  BY <1>20 DEF TypeOK, LAcquire, LGo, Take, Free, envVars, threadVars, LoopLabels
<1>21. CASE LKeys
  <2>1. gone' \in Seq(Keys)
    <3>1. \A i \in 1..Len(cache) : cache[i] \in Entries(Keys, Metas)
      BY DEF TypeOK
    <3>2. \A i \in 1..Len(cache) : cache[i].key \in Keys
      BY <3>1 DEF Entries
    <3>3. gone' = [i \in 1..Len(cache) |-> cache[i].key] /\ Len(cache) \in Nat
      BY <1>21 DEF LKeys, TypeOK
    <3> QED
      BY <3>2, <3>3
  <2> QED
    BY <1>21, <2>1 DEF TypeOK, LKeys, LGo, envVars, threadVars, LoopLabels
<1>22. CASE LClear
  BY <1>22 DEF TypeOK, LClear, LReturn, Dropped, Release, envVars, threadVars, LoopLabels
<1>23. CASE LAbsent
  BY <1>23 DEF TypeOK, LAbsent, LReturn, Dropped, Release, envVars, threadVars, LoopLabels
<1>24. CASE LFound
  BY <1>24 DEF TypeOK, LFound, LGo, envVars, threadVars, LoopLabels
<1>25. CASE LDel
  <2>1. cache' \in Seq(Entries(Keys, Metas))
    <3>1. cache \in Seq(Entries(Keys, Metas))
      BY DEF TypeOK
    <3>2. CASE lkey \in KeysOf(cache)
      BY <1>25, <3>1, <3>2, DeleteProperties DEF LDel
    <3> QED
      BY <1>25, <3>1, <3>2 DEF LDel
  <2> QED
    <3>1. CASE lkey \in KeysOf(cache)
      BY <1>25, <2>1, <3>1 DEF TypeOK, LDel, LReturn, Dropped, Release, envVars, threadVars, LoopLabels
    <3>2. CASE lkey \notin KeysOf(cache)
      <4>1. /\ lpc' = "idle" /\ lkey' = None /\ gone' = <<>>
            /\ reply' = [status |-> "key_error", keys |-> <<>>]
        BY <1>25, <3>2 DEF LDel, LReturn
      <4>2. reply' \in [status : {"none", "ok", "key_error"}, keys : Seq(Keys)]
        BY <4>1
      <4>3. lock' = None /\ UNCHANGED <<envVars, threadVars>>
        BY <1>25 DEF LDel, Release
      <4> QED
        BY <2>1, <4>1, <4>2, <4>3 DEF TypeOK, envVars, threadVars, LoopLabels
    <3> QED
      BY <3>1, <3>2
<1>26. CASE UNCHANGED vars
  BY <1>26 DEF TypeOK, vars
<1> QED
  BY <1>1, <1>2, <1>3, <1>4, <1>5, <1>6, <1>7, <1>9, <1>10, <1>11, <1>12, <1>13, <1>14,
     <1>15, <1>16, <1>17, <1>18, <1>19, <1>20, <1>21, <1>22, <1>23, <1>24, <1>25, <1>26
     DEF Next, Arrival, Environment, ThreadStep, LoopStep

\* In every reachable state the disk, the cache, the lock and both kinds of
\* caller hold values of their types: whatever interleaves, the cache holds
\* only metadata under resolved paths.
THEOREM TypeCorrect == Spec => []TypeOK
<1>1. Init => TypeOK
  BY InitType
<1>2. TypeOK /\ [Next]_vars => TypeOK'
  BY StepType
<1> QED
  BY <1>1, <1>2, PTL DEF Spec

----------------------------------------------------------------------------
(* The inductive invariant.  Every step of a critical section relies on    *)
(* what the caller saw at the step before; LockDiscipline says that nobody *)
(* else can have changed the cache in between.                             *)

LEMMA InitStore == Init => StoreInvariant
BY MaxEntriesAssumption, NoneAssumption, LoopAssumption
   DEF Init, StoreInvariant, LockDiscipline, NoKeyError, Bounded, CriticalFacts,
       Held, LoopHeld, Nothing, NoReply, UniqueKeys

\* Whoever holds the lock is alone in the critical sections.
LEMMA HolderAlone ==
    ASSUME LockDiscipline
    PROVE  /\ \A t \in Threads : pc[t] \in Held =>
                /\ lock = t
                /\ lpc \notin LoopHeld
                /\ \A u \in Threads \ {t} : pc[u] \notin Held
           /\ lpc \in LoopHeld => lock = Loop /\ \A u \in Threads : pc[u] \notin Held
BY LoopAssumption DEF LockDiscipline

\* The end of a call by t, seen from the invariant
LEMMA ReturnReleases ==
    ASSUME TypeOK, LockDiscipline, NEW t \in Threads, NEW a, pc[t] \in Held,
           Return(t, a), lock' = None, lpc' = lpc
    PROVE  LockDiscipline'
BY HolderAlone, NoneAssumption, LoopAssumption
   DEF TypeOK, LockDiscipline, Return, Held, LoopHeld

LEMMA StoreStep == TypeOK /\ StoreInvariant /\ [Next]_vars => StoreInvariant'
<1> SUFFICES ASSUME TypeOK, StoreInvariant, [Next]_vars
             PROVE  StoreInvariant'
  OBVIOUS
<1> USE NoneAssumption, LoopAssumption
<1>a. LockDiscipline /\ NoKeyError /\ Bounded /\ CriticalFacts
  BY DEF StoreInvariant
<1>b. cache \in Seq(Entries(Keys, Metas)) /\ Len(cache) \in Nat /\ MaxEntries \in Nat \ {0}
  BY MaxEntriesAssumption DEF TypeOK
\* Outside _admit the cache is within its bound.
<1>c. (\A t \in Threads : pc[t] \notin {"move", "evict"}) => Len(cache) <= MaxEntries
  BY <1>a, <1>b DEF Bounded
<1>1. ASSUME NEW k \in Keys, WriteQvw(k) \/ WritePrj(k)
      PROVE  StoreInvariant'
  BY <1>1, <1>a DEF StoreInvariant, LockDiscipline, NoKeyError, Bounded, CriticalFacts,
     WriteQvw, WritePrj, threadVars, loopVars
\* A thread's step outside the critical sections
<1>2. ASSUME NEW t \in Threads, pc[t] \notin Held,
             pc' = [pc EXCEPT ![t] = pc'[t]], pc'[t] \notin Held, ret'[t].status # "key_error",
             \A u \in Threads \ {t} : key'[u] = key[u] /\ meta'[u] = meta[u] /\ ret'[u] = ret[u],
             UNCHANGED <<cache, lock, loopVars>>
      PROVE  StoreInvariant'
  <2>1. \A u \in Threads \ {t} : pc'[u] = pc[u]
    BY <1>2 DEF TypeOK
  <2>2. LockDiscipline'
    BY <1>2, <1>a, <2>1 DEF LockDiscipline, loopVars
  <2>3. NoKeyError'
    BY <1>2, <1>a DEF NoKeyError, loopVars
  <2>4. Bounded'
    BY <1>2, <1>a, <2>1 DEF Bounded, Held
  <2>5. CriticalFacts'
    BY <1>2, <1>a, <2>1 DEF CriticalFacts, Held, loopVars
  <2> QED
    BY <2>2, <2>3, <2>4, <2>5 DEF StoreInvariant
<1>3. ASSUME NEW t \in Threads, NEW k \in Keys, Call(t, k)
      PROVE  StoreInvariant'
  <2>1. pc[t] = "idle" /\ pc'[t] = "lookup" /\ pc' = [pc EXCEPT ![t] = pc'[t]]
    BY <1>3 DEF TypeOK, Call, Go
  <2>2. ret'[t].status # "key_error"
        /\ \A u \in Threads \ {t} : key'[u] = key[u] /\ meta'[u] = meta[u] /\ ret'[u] = ret[u]
    BY <1>3 DEF TypeOK, Call, Nothing
  <2> QED
    BY <1>2, <1>3, <2>1, <2>2 DEF Call, Held
<1>4. ASSUME NEW t \in Threads, NEW e \in Errors \ {"key_error"}, pc[t] \notin Held, Fail(t, e)
      PROVE  StoreInvariant'
  <2>1. pc'[t] = "idle" /\ pc' = [pc EXCEPT ![t] = pc'[t]]
    BY <1>4 DEF TypeOK, Fail, Return
  <2>2. ret'[t].status # "key_error"
        /\ \A u \in Threads \ {t} : key'[u] = key[u] /\ meta'[u] = meta[u] /\ ret'[u] = ret[u]
    BY <1>4 DEF TypeOK, Fail, Return, Raised
  <2> QED
    BY <1>2, <1>4, <2>1, <2>2 DEF Fail, Held
<1>5. ASSUME NEW t \in Threads, Stat(t) \/ Read(t) \/ IsPrj(t) \/ ReadPrj(t) \/ Decode(t)
      PROVE  StoreInvariant'
  <2>1. pc[t] \in {"stat", "read", "is_prj", "read_prj", "decode"}
    BY <1>5 DEF Stat, Read, IsPrj, ReadPrj, Decode, Go
  <2>2. CASE \E e \in Errors \ {"key_error"} : Fail(t, e)
    BY <1>4, <2>1, <2>2 DEF Held
  <2>3. CASE ~\E e \in Errors \ {"key_error"} : Fail(t, e)
    <3>1. /\ pc' = [pc EXCEPT ![t] = pc'[t]]
          /\ pc'[t] \in {"read", "is_prj", "read_prj", "decode", "admit"}
          /\ \A u \in Threads \ {t} : meta'[u] = meta[u]
          /\ UNCHANGED <<cache, lock, key, ret, loopVars>>
      BY <1>5, <2>3 DEF Stat, Read, IsPrj, ReadPrj, Decode, Go, Errors, TypeOK
    <3>2. ret'[t].status # "key_error"
      BY <1>a, <3>1 DEF NoKeyError
    <3> QED
      BY <1>2, <2>1, <3>1, <3>2 DEF Held
  <2> QED
    BY <2>2, <2>3
<1>6. ASSUME NEW t \in Threads, AcquireLookup(t) \/ AcquireAdmit(t)
      PROVE  StoreInvariant'
  <2>1. /\ lock = None /\ lock' = t
        /\ pc'[t] \in {"get", "assign"} /\ pc[t] \in {"lookup", "admit"}
        /\ \A u \in Threads \ {t} : pc'[u] = pc[u]
        /\ UNCHANGED <<cache, key, meta, ret, loopVars>>
    BY <1>6 DEF TypeOK, AcquireLookup, AcquireAdmit, Go, Take, Free
  <2>2. LockDiscipline'
    BY <1>a, <2>1 DEF LockDiscipline, Held, LoopHeld, loopVars
  <2>3. NoKeyError' /\ Bounded' /\ CriticalFacts'
    BY <1>a, <2>1 DEF NoKeyError, Bounded, CriticalFacts, loopVars
  <2> QED
    BY <2>2, <2>3 DEF StoreInvariant
<1>7. ASSUME NEW t \in Threads, GetMiss(t)
      PROVE  StoreInvariant'
  <2>1. /\ lock = t /\ lock' = None
        /\ pc'[t] = "stat" /\ pc[t] = "get"
        /\ \A u \in Threads \ {t} : pc'[u] = pc[u]
        /\ UNCHANGED <<cache, key, meta, ret, loopVars>>
    BY <1>7, <1>a, HolderAlone DEF TypeOK, GetMiss, Go, Release, Held
  <2>2. LockDiscipline'
    BY <1>a, <2>1 DEF LockDiscipline, Held, LoopHeld, loopVars
  <2>3. NoKeyError' /\ Bounded' /\ CriticalFacts'
    BY <1>a, <2>1 DEF NoKeyError, Bounded, CriticalFacts, loopVars
  <2> QED
    BY <2>2, <2>3 DEF StoreInvariant
<1>8. ASSUME NEW t \in Threads, GetHit(t)
      PROVE  StoreInvariant'
  <2>1. /\ pc'[t] = "touch" /\ pc[t] = "get"
        /\ \A u \in Threads \ {t} : pc'[u] = pc[u] /\ meta'[u] = meta[u]
        /\ meta'[t] = MetaOf(cache, key[t]) /\ key[t] \in KeysOf(cache)
        /\ UNCHANGED <<cache, lock, key, ret, loopVars>>
    BY <1>8 DEF TypeOK, GetHit, Go
  <2>2. LockDiscipline'
    BY <1>a, <2>1 DEF LockDiscipline, Held, LoopHeld, loopVars
  <2>3. NoKeyError' /\ Bounded' /\ CriticalFacts'
    BY <1>a, <2>1 DEF NoKeyError, Bounded, CriticalFacts, loopVars
  <2> QED
    BY <2>2, <2>3 DEF StoreInvariant
\* The steps that change the cache: the actor holds the lock, so the facts of
\* every other caller are vacuous.
<1>9. ASSUME NEW t \in Threads, Touch(t)
      PROVE  StoreInvariant'
  <2>1. pc[t] = "touch" /\ key[t] \in KeysOf(cache)
    BY <1>9, <1>a DEF Touch, CriticalFacts
  <2>2. /\ cache' = MoveToEnd(cache, key[t]) /\ Return(t, Parsed(meta[t]))
        /\ lock' = None /\ UNCHANGED loopVars
    BY <1>9, <2>1 DEF Touch, Release
  <2>3. lpc \notin LoopHeld /\ \A u \in Threads : pc'[u] \notin Held
    BY <1>a, <2>1, <2>2, HolderAlone DEF Return, TypeOK, Held
  <2>4. LockDiscipline'
    BY <1>a, <2>1, <2>2, ReturnReleases DEF Held, loopVars
  <2>5. NoKeyError'
    BY <1>a, <2>2 DEF NoKeyError, Return, Parsed, TypeOK, loopVars
  <2>6. Bounded'
    <3>1. Len(cache) <= MaxEntries
      BY <1>a, <1>c, <2>1, HolderAlone DEF Held
    <3> QED
      BY <1>a, <1>b, <2>1, <2>2, <3>1, MoveToEndProperties DEF Bounded
  <2>7. CriticalFacts'
    BY <2>2, <2>3 DEF CriticalFacts, Held, LoopHeld, loopVars
  <2> QED
    BY <2>4, <2>5, <2>6, <2>7 DEF StoreInvariant
<1>10. ASSUME NEW t \in Threads, Store(t)
       PROVE  StoreInvariant'
  <2>1. /\ pc[t] = "assign" /\ pc'[t] = "move"
        /\ \A u \in Threads \ {t} : pc'[u] = pc[u]
        /\ cache' = Assign(cache, key[t], meta[t])
        /\ UNCHANGED <<lock, key, meta, ret, loopVars>>
    BY <1>10 DEF TypeOK, Store, Go
  <2>2. lpc \notin LoopHeld /\ \A u \in Threads \ {t} : pc'[u] \notin Held
    BY <1>a, <2>1, HolderAlone DEF Held
  <2>3. key[t] \in Keys /\ meta[t] \in Metas
    BY <2>1 DEF TypeOK
  <2>4. /\ Len(cache') <= Len(cache) + 1 /\ Len(cache') \in Nat
        /\ KeysOf(cache') = KeysOf(cache) \cup {key[t]}
        /\ \E i \in DOMAIN cache' : cache'[i] = [key |-> key[t], meta |-> meta[t]]
        /\ UniqueKeys(cache')
    BY <1>a, <1>b, <2>1, <2>3, AssignProperties DEF Bounded
  <2>5. LockDiscipline'
    BY <1>a, <2>1 DEF LockDiscipline, Held, loopVars
  <2>6. NoKeyError'
    BY <1>a, <2>1 DEF NoKeyError, loopVars
  <2>7. Bounded'
    <3>1. Len(cache) <= MaxEntries
      BY <1>a, <1>c, <2>1, HolderAlone DEF Held
    <3> QED
      BY <1>b, <2>1, <2>4, <3>1 DEF Bounded
  <2>8. CriticalFacts'
    <3>1. MetaOf(cache', key[t]) = meta[t]
      BY <2>4, MetaOfOnlyEntry
    <3> QED
      BY <2>1, <2>2, <2>4, <3>1 DEF CriticalFacts, Held, LoopHeld, loopVars
  <2> QED
    BY <2>5, <2>6, <2>7, <2>8 DEF StoreInvariant
<1>11. ASSUME NEW t \in Threads, Move(t)
       PROVE  StoreInvariant'
  <2>1. pc[t] = "move" /\ key[t] \in KeysOf(cache) /\ MetaOf(cache, key[t]) = meta[t]
    BY <1>11, <1>a DEF Move, CriticalFacts
  <2>2. /\ pc'[t] = "evict"
        /\ \A u \in Threads \ {t} : pc'[u] = pc[u]
        /\ cache' = MoveToEnd(cache, key[t])
        /\ UNCHANGED <<lock, key, meta, ret, loopVars>>
    BY <1>11, <2>1 DEF TypeOK, Move, Go
  <2>3. lpc \notin LoopHeld /\ \A u \in Threads \ {t} : pc'[u] \notin Held
    BY <1>a, <2>1, <2>2, HolderAlone DEF Held
  <2>4. /\ Len(cache') = Len(cache)
        /\ cache'[Len(cache)] = cache[IndexOf(cache, key[t])]
        /\ UniqueKeys(cache')
    BY <1>a, <1>b, <2>1, <2>2, MoveToEndProperties DEF Bounded
  <2>5. /\ IndexOf(cache, key[t]) \in 1..Len(cache)
        /\ cache[IndexOf(cache, key[t])] = [key |-> key[t], meta |-> meta[t]]
    <3>1. IndexOf(cache, key[t]) \in 1..Len(cache) /\ cache[IndexOf(cache, key[t])].key = key[t]
      BY <1>b, <2>1, IndexOfKey
    <3>2. cache[IndexOf(cache, key[t])] \in Entries(Keys, Metas)
      BY <1>b, <3>1
    <3> QED
      BY <2>1, <3>1, <3>2 DEF MetaOf, Entries
  <2>6. LockDiscipline'
    BY <1>a, <2>1, <2>2 DEF LockDiscipline, Held, loopVars
  <2>7. NoKeyError'
    BY <1>a, <2>2 DEF NoKeyError, loopVars
  <2>8. Bounded'
    BY <1>a, <1>b, <2>2, <2>4 DEF Bounded
  <2>9. CriticalFacts'
    <3>1. cache' # <<>>
      BY <1>b, <2>4, <2>5
    <3> QED
      BY <2>2, <2>3, <2>4, <2>5, <3>1 DEF CriticalFacts, Held, LoopHeld, loopVars
  <2> QED
    BY <2>6, <2>7, <2>8, <2>9 DEF StoreInvariant
<1>12. ASSUME NEW t \in Threads, Evict(t)
       PROVE  StoreInvariant'
  <2>1. /\ pc[t] = "evict" /\ Len(cache) > MaxEntries /\ cache' = PopOldest(cache)
        /\ UNCHANGED <<lock, threadVars, loopVars>>
        /\ cache[Len(cache)] = [key |-> key[t], meta |-> meta[t]]
    BY <1>12, <1>a DEF Evict, OverCapacity, CriticalFacts
  <2>2. lpc \notin LoopHeld /\ \A u \in Threads \ {t} : pc[u] \notin Held
    BY <1>a, <2>1, HolderAlone DEF Held
  <2>3. Len(cache) > 1
    BY <1>b, <2>1
  <2>4. /\ Len(cache') = Len(cache) - 1 /\ UniqueKeys(cache')
        /\ cache'[Len(cache) - 1] = cache[Len(cache)]
    BY <1>a, <1>b, <2>1, <2>3, PopOldestProperties DEF Bounded
  <2>5. LockDiscipline' /\ NoKeyError'
    BY <1>a, <2>1 DEF LockDiscipline, NoKeyError, threadVars, loopVars
  <2>6. Bounded'
    BY <1>a, <1>b, <2>1, <2>4 DEF Bounded, threadVars
  <2>7. CriticalFacts'
    <3>1. cache' # <<>>
      BY <1>b, <2>3, <2>4
    <3> QED
      BY <2>1, <2>2, <2>4, <3>1 DEF CriticalFacts, Held, LoopHeld, threadVars, loopVars
  <2> QED
    BY <2>5, <2>6, <2>7 DEF StoreInvariant
<1>13. ASSUME NEW t \in Threads, Admitted(t)
       PROVE  StoreInvariant'
  <2>1. /\ pc[t] = "evict" /\ Len(cache) <= MaxEntries
        /\ Return(t, Parsed(meta[t])) /\ lock' = None /\ UNCHANGED <<cache, loopVars>>
    BY <1>13, <1>b DEF Admitted, OverCapacity, Release
  <2>2. lpc \notin LoopHeld /\ \A u \in Threads : pc'[u] \notin Held
    BY <1>a, <2>1, HolderAlone DEF Return, TypeOK, Held
  <2>3. LockDiscipline'
    BY <1>a, <2>1, ReturnReleases DEF Held, loopVars
  <2>4. NoKeyError'
    BY <1>a, <2>1 DEF NoKeyError, Return, Parsed, TypeOK, loopVars
  <2>5. Bounded'
    BY <1>a, <1>b, <2>1 DEF Bounded
  <2>6. CriticalFacts'
    BY <2>1, <2>2 DEF CriticalFacts, Held, LoopHeld, loopVars
  <2> QED
    BY <2>3, <2>4, <2>5, <2>6 DEF StoreInvariant
<1>14. ASSUME NEW k \in Keys \cup {None}, Invalidate(k)
       PROVE  StoreInvariant'
  BY <1>14, <1>a DEF StoreInvariant, LockDiscipline, NoKeyError, Bounded, CriticalFacts,
     Invalidate, LGo, NoReply, LoopHeld, threadVars
<1>15. CASE LAcquire
  <2>1. /\ lock = None /\ lock' = Loop /\ lpc = "acquire"
        /\ lpc' = IF lkey = None THEN "keys" ELSE "test"
        /\ UNCHANGED <<cache, threadVars, lkey, gone, reply>>
    BY <1>15 DEF LAcquire, LGo, Take, Free
  <2>2. LockDiscipline'
    BY <1>a, <2>1 DEF LockDiscipline, LoopHeld, Held, threadVars
  <2>3. NoKeyError' /\ Bounded' /\ CriticalFacts'
    BY <1>a, <2>1 DEF NoKeyError, Bounded, CriticalFacts, threadVars
  <2> QED
    BY <2>2, <2>3 DEF StoreInvariant
<1>16. CASE LKeys
  BY <1>16, <1>a DEF StoreInvariant, LockDiscipline, NoKeyError, Bounded, CriticalFacts,
     LKeys, LGo, LoopHeld, threadVars
<1>17. CASE LFound
  BY <1>17, <1>a DEF StoreInvariant, LockDiscipline, NoKeyError, Bounded, CriticalFacts,
     LFound, LGo, LoopHeld, threadVars
\* The end of an invalidation: no thread is in a critical section.
<1>18. ASSUME lpc \in LoopHeld, lpc' = "idle", lock' = None, reply'.status = "ok",
              UNCHANGED threadVars,
              Len(cache') \in Nat, Len(cache') <= Len(cache), UniqueKeys(cache')
       PROVE  StoreInvariant'
  <2>1. \A u \in Threads : pc[u] \notin Held
    BY <1>18, <1>a, HolderAlone
  <2>2. LockDiscipline'
    BY <1>18, <2>1 DEF LockDiscipline, LoopHeld, threadVars
  <2>3. NoKeyError'
    BY <1>18, <1>a DEF NoKeyError, threadVars
  <2>4. Bounded'
    BY <1>18, <1>b, <1>c, <2>1 DEF Bounded, Held, threadVars
  <2>5. CriticalFacts'
    BY <1>18, <2>1 DEF CriticalFacts, Held, threadVars
  <2> QED
    BY <2>2, <2>3, <2>4, <2>5 DEF StoreInvariant
<1>19. CASE LClear
  <2>1. Len(cache') = 0 /\ UniqueKeys(cache')
    BY <1>19 DEF LClear, UniqueKeys
  <2> QED
    BY <1>18, <1>19, <1>b, <2>1 DEF LClear, LReturn, Dropped, Release, LoopHeld
<1>20. CASE LAbsent
  BY <1>18, <1>20, <1>a, <1>b DEF LAbsent, LReturn, Dropped, Release, LoopHeld, Bounded
<1>21. CASE LDel
  <2>1. lpc = "del" /\ lkey \in KeysOf(cache)
    BY <1>21, <1>a DEF LDel, CriticalFacts
  <2>2. /\ cache' = Delete(cache, lkey) /\ lpc' = "idle" /\ lock' = None
        /\ reply'.status = "ok" /\ UNCHANGED threadVars
    BY <1>21, <2>1 DEF LDel, LReturn, Dropped, Release
  <2>3. Len(cache') = Len(cache) - 1 /\ Len(cache') \in Nat /\ UniqueKeys(cache')
    BY <1>a, <1>b, <2>1, <2>2, DeleteProperties DEF Bounded
  <2> QED
    BY <1>18, <1>b, <2>1, <2>2, <2>3 DEF LoopHeld
<1>22. CASE UNCHANGED vars
  BY <1>22, <1>a DEF StoreInvariant, LockDiscipline, NoKeyError, Bounded, CriticalFacts, vars
<1> QED
  BY <1>1, <1>3, <1>5, <1>6, <1>7, <1>8, <1>9, <1>10, <1>11, <1>12, <1>13, <1>14, <1>15,
     <1>16, <1>17, <1>19, <1>20, <1>21, <1>22
     DEF Next, Arrival, Environment, ThreadStep, LoopStep

\* The store's locking is correct for any number of threads, paths and any
\* bound: the lock is held exactly in the critical sections, and what a caller
\* saw in one step of its critical section still holds at the next.
THEOREM LockingCorrect == Spec => []StoreInvariant
<1>1. Init => TypeOK /\ StoreInvariant
  BY InitType, InitStore
<1>2. TypeOK /\ StoreInvariant /\ [Next]_vars => TypeOK' /\ StoreInvariant'
  BY StepType, StoreStep
<1> QED
  BY <1>1, <1>2, PTL DEF Spec

\* No call on the store ends in KeyError: a key that was found is still there
\* when it is moved or deleted.
THEOREM NeverKeyError == Spec => []NoKeyError
<1>1. StoreInvariant => NoKeyError
  BY DEF StoreInvariant
<1> QED
  BY <1>1, LockingCorrect, PTL

\* Whatever calls run at once, the cache never outgrows max_entries except for
\* the one entry that _admit is making room for, and caches no path twice.
THEOREM CacheBounded == Spec => []Bounded
<1>1. StoreInvariant => Bounded
  BY DEF StoreInvariant
<1> QED
  BY <1>1, LockingCorrect, PTL

----------------------------------------------------------------------------
(* What a reload tells its client. *)

LEMMA DropStep ==
    TypeOK /\ StoreInvariant /\ [Next]_vars =>
        (lpc # "idle" /\ lpc' = "idle" =>
            /\ ToSet(reply'.keys) = KeysOf(cache) \ KeysOf(cache')
            /\ KeysOf(cache') = IF lkey = None THEN {} ELSE KeysOf(cache) \ {lkey})
<1> SUFFICES ASSUME TypeOK, StoreInvariant, [Next]_vars, lpc # "idle", lpc' = "idle"
             PROVE  /\ ToSet(reply'.keys) = KeysOf(cache) \ KeysOf(cache')
                    /\ KeysOf(cache') = IF lkey = None THEN {} ELSE KeysOf(cache) \ {lkey}
  OBVIOUS
<1>a. CriticalFacts /\ UniqueKeys(cache) /\ cache \in Seq(Entries(Keys, Metas))
  BY DEF StoreInvariant, Bounded, TypeOK
<1>1. CASE LClear
  <2>1. /\ reply'.keys = [i \in DOMAIN cache |-> cache[i].key]
        /\ lkey = None /\ cache' = <<>>
    BY <1>1, <1>a DEF LClear, LReturn, Dropped, CriticalFacts
  <2>2. ToSet(reply'.keys) = KeysOf(cache)
    BY <2>1 DEF ToSet, KeysOf
  <2>3. KeysOf(cache') = {}
    BY <2>1 DEF KeysOf
  <2> QED
    BY <2>1, <2>2, <2>3
<1>2. CASE LAbsent
  <2>1. reply'.keys = <<>> /\ cache' = cache /\ lkey \in Keys /\ lkey \notin KeysOf(cache)
    BY <1>2 DEF LAbsent, LReturn, Dropped, TypeOK
  <2>2. ToSet(reply'.keys) = {} /\ lkey # None
    BY <2>1, NoneAssumption DEF ToSet
  <2> QED
    BY <2>1, <2>2
<1>3. CASE LDel
  <2>1. lkey \in KeysOf(cache) /\ gone = <<lkey>> /\ lkey \in Keys
    BY <1>3, <1>a DEF LDel, CriticalFacts, TypeOK
  <2>2. cache' = Delete(cache, lkey) /\ reply'.keys = <<lkey>>
    BY <1>3, <2>1 DEF LDel, LReturn, Dropped
  <2>3. ToSet(reply'.keys) = {lkey} /\ lkey # None
    BY <2>1, <2>2, NoneAssumption DEF ToSet
  <2>4. KeysOf(cache') = KeysOf(cache) \ {lkey}
    BY <1>a, <2>1, <2>2, DeleteProperties
  <2> QED
    BY <2>1, <2>3, <2>4
<1>4. ASSUME UNCHANGED lpc \/ lpc' # "idle"
      PROVE  FALSE
  BY <1>4
<1>5. ASSUME NEW t \in Threads, ThreadStep(t)
      PROVE  UNCHANGED lpc
  BY <1>5 DEF ThreadStep, AcquireLookup, GetHit, GetMiss, Touch, Stat, Read, IsPrj, ReadPrj,
     Decode, AcquireAdmit, Store, Move, Evict, Admitted, Fail, loopVars
<1>6. ASSUME Arrival \/ Environment
      PROVE  UNCHANGED lpc \/ lpc' # "idle"
  BY <1>6 DEF Arrival, Call, Invalidate, LGo, Environment, WriteQvw, WritePrj, loopVars
<1>7. CASE LAcquire \/ LKeys \/ LFound
  BY <1>7 DEF LAcquire, LKeys, LFound, LGo
<1> QED
  BY <1>1, <1>2, <1>3, <1>4, <1>5, <1>6, <1>7 DEF Next, LoopStep, vars

\* For any number of threads and paths, an invalidation reports exactly the
\* entries it took out, and leaves none of those it was asked to drop.
THEOREM InvalidateExact == Spec => InvalidateReportsWhatItDropped
<1>1. Init => TypeOK /\ StoreInvariant
  BY InitType, InitStore
<1>2. TypeOK /\ StoreInvariant /\ [Next]_vars => TypeOK' /\ StoreInvariant'
  BY StepType, StoreStep
<1>3. TypeOK /\ StoreInvariant /\ [Next]_vars =>
        [lpc # "idle" /\ lpc' = "idle" =>
            /\ ToSet(reply'.keys) = KeysOf(cache) \ KeysOf(cache')
            /\ KeysOf(cache') = IF lkey = None THEN {} ELSE KeysOf(cache) \ {lkey}]_vars
  BY DropStep
<1> QED
  BY <1>1, <1>2, <1>3, PTL DEF Spec, InvalidateReportsWhatItDropped

LEMMA AdmitStep ==
    TypeOK /\ StoreInvariant /\ [Next]_vars =>
        (\A t \in Threads : pc[t] = "evict" /\ pc'[t] = "idle" =>
            cache'[Len(cache')] = [key |-> key[t], meta |-> meta[t]])
<1> SUFFICES ASSUME TypeOK, StoreInvariant, [Next]_vars,
                    NEW t \in Threads, pc[t] = "evict", pc'[t] = "idle"
             PROVE  cache'[Len(cache')] = [key |-> key[t], meta |-> meta[t]]
  OBVIOUS
<1>1. cache[Len(cache)] = [key |-> key[t], meta |-> meta[t]]
  BY DEF StoreInvariant, CriticalFacts
<1>2. UNCHANGED cache
  <2>1. ASSUME NEW u \in Threads, ThreadStep(u)
        PROVE  UNCHANGED cache
    <3>1. CASE u = t
      BY <2>1, <3>1 DEF ThreadStep, AcquireLookup, GetHit, GetMiss, Touch, Stat, Read, IsPrj,
         ReadPrj, Decode, AcquireAdmit, Store, Move, Evict, Admitted, Fail, Go, threadVars
    <3>2. CASE u # t
      <4>1. pc'[t] = pc[t]
        BY <2>1, <3>2 DEF ThreadStep, AcquireLookup, GetHit, GetMiss, Touch, Stat, Read, IsPrj,
           ReadPrj, Decode, AcquireAdmit, Store, Move, Evict, Admitted, Fail, Return, Go,
           threadVars, TypeOK
      <4> QED
        BY <4>1
    <3> QED
      BY <3>1, <3>2
  <2>2. ASSUME Arrival \/ Environment \/ LoopStep
        PROVE  UNCHANGED cache
    BY <2>2, HolderAlone DEF Arrival, Call, Invalidate, Go, Environment, WriteQvw, WritePrj,
       LoopStep, LAcquire, LKeys, LClear, LAbsent, LFound, LDel, threadVars, TypeOK
  <2> QED
    BY <2>1, <2>2 DEF Next, vars
<1> QED
  BY <1>1, <1>2

\* A file that has just been parsed is cached when its call returns, as the
\* most recently queried entry, whatever had to be evicted for it.
THEOREM AdmittedIsCached == Spec => AdmittedStays
<1>1. Init => TypeOK /\ StoreInvariant
  BY InitType, InitStore
<1>2. TypeOK /\ StoreInvariant /\ [Next]_vars => TypeOK' /\ StoreInvariant'
  BY StepType, StoreStep
<1>3. TypeOK /\ StoreInvariant /\ [Next]_vars =>
        [\A t \in Threads : pc[t] = "evict" /\ pc'[t] = "idle" =>
            cache'[Len(cache')] = [key |-> key[t], meta |-> meta[t]]]_vars
  BY AdmitStep
<1> QED
  BY <1>1, <1>2, <1>3, PTL DEF Spec, AdmittedStays

----------------------------------------------------------------------------
(* What a reload promises the calls after it.  Only an assignment brings a *)
(* new entry into the cache, and what it brings was read from the disk by  *)
(* a thread that an invalidation in between would have counted as an older *)
(* read under way.                                                         *)

\* No operation of the dict makes an entry of its own.
LEMMA EntriesKept ==
    ASSUME NEW K, NEW M, NEW d \in Seq(Entries(K, M))
    PROVE  /\ \A k \in KeysOf(d) : /\ ToSet(Delete(d, k)) \subseteq ToSet(d)
                                   /\ ToSet(MoveToEnd(d, k)) \subseteq ToSet(d)
           /\ Len(d) > 0 => ToSet(PopOldest(d)) \subseteq ToSet(d)
           /\ \A k \in K, m \in M :
                ToSet(Assign(d, k, m)) \subseteq ToSet(d) \cup {[key |-> k, meta |-> m]}
<1>1. ASSUME NEW k \in KeysOf(d)
      PROVE  /\ ToSet(Delete(d, k)) \subseteq ToSet(d)
             /\ ToSet(MoveToEnd(d, k)) \subseteq ToSet(d)
  <2> DEFINE i == IndexOf(d, k)
             r == RemoveAt(d, i)
  <2>1. i \in 1..Len(d)
    BY IndexOfKey
  <2>2. /\ r \in Seq(Entries(K, M)) /\ Len(r) = Len(d) - 1
        /\ \A j \in 1..(Len(d) - 1) : r[j] = IF j < i THEN d[j] ELSE d[j + 1]
    BY <2>1, RemoveAtProperties
  <2> HIDE DEF i, r
  <2>3. \A j \in 1..Len(r) : r[j] \in ToSet(d)
    BY <2>1, <2>2 DEF ToSet
  <2>4. ToSet(r) \subseteq ToSet(d)
    BY <2>2, <2>3 DEF ToSet
  <2>5. ToSet(Append(r, d[i])) \subseteq ToSet(d)
    <3>1. d[i] \in ToSet(d)
      BY <2>1 DEF ToSet
    <3>2. \A j \in 1..Len(r) + 1 : Append(r, d[i])[j] = IF j <= Len(r) THEN r[j] ELSE d[i]
      BY <2>2
    <3>3. DOMAIN Append(r, d[i]) = 1..Len(r) + 1
      BY <2>2
    <3> QED
      BY <2>2, <2>3, <3>1, <3>2, <3>3 DEF ToSet
  <2> QED
    BY <2>4, <2>5 DEF Delete, MoveToEnd, r, i
<1>2. ASSUME Len(d) > 0
      PROVE  ToSet(PopOldest(d)) \subseteq ToSet(d)
  <2>1. /\ Tail(d) \in Seq(Entries(K, M)) /\ Len(Tail(d)) = Len(d) - 1
        /\ \A j \in 1..Len(Tail(d)) : Tail(d)[j] = d[j + 1]
    BY <1>2, HeadTailProperties
  <2>2. \A j \in 1..Len(Tail(d)) : Tail(d)[j] \in ToSet(d)
    BY <2>1 DEF ToSet
  <2> QED
    BY <2>1, <2>2 DEF ToSet, PopOldest
<1>3. ASSUME NEW k \in K, NEW m \in M
      PROVE  ToSet(Assign(d, k, m)) \subseteq ToSet(d) \cup {[key |-> k, meta |-> m]}
  <2> DEFINE x == [key |-> k, meta |-> m]
  <2>1. CASE k \in KeysOf(d)
    <3>1. Assign(d, k, m) = [d EXCEPT ![IndexOf(d, k)] = x]
      BY <2>1 DEF Assign
    <3> QED
      BY <3>1 DEF ToSet
  <2>2. CASE k \notin KeysOf(d)
    <3>1. Assign(d, k, m) = Append(d, x)
      BY <2>2 DEF Assign
    <3>2. /\ DOMAIN Append(d, x) = 1..Len(d) + 1
          /\ \A j \in 1..Len(d) + 1 : Append(d, x)[j] = IF j <= Len(d) THEN d[j] ELSE x
      OBVIOUS
    <3> QED
      BY <3>1, <3>2 DEF ToSet
  <2> QED
    BY <2>1, <2>2
<1> QED
  BY <1>1, <1>2, <1>3

\* The only new entry a step can cache is that of a thread that admits it.
LEMMA NewEntries ==
    ASSUME TypeOK, [Next]_vars
    PROVE  \A e \in ToSet(cache') :
                \/ e \in ToSet(cache)
                \/ \E t \in Threads : pc[t] = "assign" /\ e = [key |-> key[t], meta |-> meta[t]]
<1>a. cache \in Seq(Entries(Keys, Metas))
  BY DEF TypeOK
<1>1. CASE UNCHANGED cache
  BY <1>1
<1>2. ASSUME NEW t \in Threads, Store(t)
      PROVE  /\ pc[t] = "assign"
             /\ ToSet(cache') \subseteq ToSet(cache) \cup {[key |-> key[t], meta |-> meta[t]]}
  <2>1. pc[t] = "assign" /\ cache' = Assign(cache, key[t], meta[t])
    BY <1>2 DEF Store, Go
  <2>2. key[t] \in Keys /\ meta[t] \in Metas
    BY <2>1 DEF TypeOK
  <2> QED
    BY <1>a, <2>1, <2>2, EntriesKept
<1>3. ASSUME NEW t \in Threads, Touch(t) \/ Move(t), ~UNCHANGED cache
      PROVE  ToSet(cache') \subseteq ToSet(cache)
  <2>1. key[t] \in KeysOf(cache) /\ cache' = MoveToEnd(cache, key[t])
    BY <1>3 DEF Touch, Move
  <2> QED
    BY <1>a, <2>1, EntriesKept
<1>4. ASSUME NEW t \in Threads, Evict(t)
      PROVE  ToSet(cache') \subseteq ToSet(cache)
  <2>1. Len(cache) > 0 /\ cache' = PopOldest(cache)
    BY <1>4, <1>a, MaxEntriesAssumption DEF Evict, OverCapacity
  <2> QED
    BY <1>a, <2>1, EntriesKept
<1>5. ASSUME LClear \/ LDel, ~UNCHANGED cache
      PROVE  ToSet(cache') \subseteq ToSet(cache)
  <2>1. CASE LClear
    BY <2>1 DEF LClear, ToSet
  <2>2. CASE LDel
    <3>1. lkey \in KeysOf(cache) /\ cache' = Delete(cache, lkey)
      BY <1>5, <2>2 DEF LDel
    <3> QED
      BY <1>a, <3>1, EntriesKept
  <2> QED
    BY <1>5, <2>1, <2>2
<1>6. ASSUME NEW t \in Threads,
             AcquireLookup(t) \/ GetHit(t) \/ GetMiss(t) \/ Stat(t) \/ Read(t) \/ IsPrj(t)
             \/ ReadPrj(t) \/ Decode(t) \/ AcquireAdmit(t) \/ Admitted(t)
      PROVE  UNCHANGED cache
  BY <1>6 DEF AcquireLookup, GetHit, GetMiss, Stat, Read, IsPrj, ReadPrj, Decode, AcquireAdmit,
     Admitted, Fail
<1>7. ASSUME Arrival \/ Environment \/ LAcquire \/ LKeys \/ LAbsent \/ LFound \/ UNCHANGED vars
      PROVE  UNCHANGED cache
  BY <1>7 DEF Arrival, Call, Invalidate, Environment, WriteQvw, WritePrj, LAcquire, LKeys,
     LAbsent, LFound, vars
<1> QED
  BY <1>1, <1>2, <1>3, <1>4, <1>5, <1>6, <1>7 DEF Next, ThreadStep, LoopStep

----------------------------------------------------------------------------
\* The history's types, and what the history says of the disk
HistoryType ==
    /\ floor \in [Keys -> Stamps]
    /\ straddled \in [Keys -> BOOLEAN]
    /\ since \in [Threads -> Stamps]
StampsGrow ==
    /\ \A k \in Keys : floor[k] <= disk[k].stamp /\ disk[k].stamp <= clock
    /\ \A t \in Threads : pc[t] # "idle" => since[t] <= floor[key[t]]

\* Where a thread holds what it has read of the file, and where it holds the
\* metadata of it
HasRead == {"is_prj", "read_prj", "decode", "admit", "assign", "move", "evict"}
HasBody == HasRead \ {"is_prj"}

\* What a thread will cache or answer, and what is cached, is no older than the
\* latest invalidation, unless that one met an older read under way.
NothingOlder ==
    /\ \A t \in Threads :
        /\ pc[t] \in HasBody => meta[t].body = raw[t].stamp
        /\ pc[t] \in HasRead /\ ~straddled[key[t]] => floor[key[t]] <= raw[t].stamp
    /\ \A e \in ToSet(cache) : ~straddled[e.key] => floor[e.key] <= e.meta.body

HistoryInvariant == HistoryType /\ StampsGrow /\ NothingOlder

LEMMA InitHistory == HInit => HistoryInvariant
BY MaxStampAssumption
   DEF HInit, Init, HistoryInvariant, HistoryType, StampsGrow, NothingOlder, HasRead, HasBody,
       Stamps, ToSet

\* Files only get newer contents.
LEMMA DiskStep ==
    ASSUME TypeOK, [Next]_vars, \A k \in Keys : disk[k].stamp <= clock
    PROVE  \A k \in Keys : disk[k].stamp <= disk'[k].stamp /\ disk'[k].stamp <= clock'
<1> USE MaxStampAssumption DEF TypeOK, Stamps
<1>1. ASSUME NEW k \in Keys, WriteQvw(k)
      PROVE  \A j \in Keys : disk[j].stamp <= disk'[j].stamp /\ disk'[j].stamp <= clock'
  <2>1. PICK s \in Shapes : disk' = [disk EXCEPT ![k].stamp = clock + 1, ![k].shape = s]
    BY <1>1 DEF WriteQvw
  <2>2. \A j \in Keys : disk'[j].stamp = IF j = k THEN clock + 1 ELSE disk[j].stamp
    BY <2>1
  <2> QED
    BY <1>1, <2>2 DEF WriteQvw
<1>2. ASSUME NEW k \in Keys, WritePrj(k)
      PROVE  \A j \in Keys : disk[j].stamp <= disk'[j].stamp /\ disk'[j].stamp <= clock'
  <2>1. PICK p \in {0, clock + 1} : disk' = [disk EXCEPT ![k].prj = p]
    BY <1>2 DEF WritePrj
  <2>2. \A j \in Keys : disk'[j].stamp = disk[j].stamp
    BY <2>1
  <2> QED
    BY <1>2, <2>2 DEF WritePrj
<1>3. ASSUME UNCHANGED envVars
      PROVE  \A j \in Keys : disk[j].stamp <= disk'[j].stamp /\ disk'[j].stamp <= clock'
  BY <1>3 DEF envVars
<1>4. ASSUME NEW t \in Threads, ThreadStep(t)
      PROVE  UNCHANGED envVars
  BY <1>4 DEF ThreadStep, AcquireLookup, GetHit, GetMiss, Touch, Stat, Read, IsPrj, ReadPrj,
     Decode, AcquireAdmit, Store, Move, Evict, Admitted, Fail
<1>5. ASSUME Arrival \/ LoopStep \/ UNCHANGED vars
      PROVE  UNCHANGED envVars
  BY <1>5 DEF Arrival, Call, Invalidate, LoopStep, LAcquire, LKeys, LClear, LAbsent, LFound,
     LDel, vars, envVars
<1> QED
  BY <1>1, <1>2, <1>3, <1>4, <1>5 DEF Next, Environment

\* What one step does to what a thread has read: it reads, keeps it or ends.
Onward(t) ==
    /\ pc'[t] # "idle" /\ pc[t] # "idle" => key'[t] = key[t]
    /\ pc'[t] \in HasRead =>
        /\ pc[t] # "idle"
        /\ \/ pc[t] \in HasRead /\ raw'[t] = raw[t]
           \/ pc[t] = "read" /\ raw'[t].stamp = disk[key[t]].stamp
    /\ pc'[t] \in HasBody =>
        /\ pc[t] \in HasRead /\ raw'[t] = raw[t]
        /\ meta'[t].body = IF pc[t] = "is_prj" THEN raw[t].stamp ELSE meta[t].body

LEMMA ThreadsOnward ==
    ASSUME TypeOK, [Next]_vars, NEW t \in Threads
    PROVE  Onward(t)
<1> USE DEF HasRead, HasBody
<1>1. ASSUME pc'[t] = pc[t], key'[t] = key[t], raw'[t] = raw[t], meta'[t] = meta[t], pc[t] # "is_prj"
      PROVE  Onward(t)
  BY <1>1 DEF Onward
<1>2. ASSUME pc'[t] = "idle"
      PROVE  Onward(t)
  BY <1>2 DEF Onward
<1>3. ASSUME pc'[t] \notin HasRead, key'[t] = key[t]
      PROVE  Onward(t)
  BY <1>3 DEF Onward
<1>4. ASSUME pc[t] \in HasBody, pc'[t] \in HasBody, key'[t] = key[t], raw'[t] = raw[t],
             meta'[t].body = meta[t].body
      PROVE  Onward(t)
  BY <1>4 DEF Onward
<1>5. ASSUME UNCHANGED <<pc, key, raw, meta>>
      PROVE  Onward(t)
  BY <1>5 DEF Onward
<1>6. ASSUME NEW u \in Threads, ThreadStep(u) \/ \E k \in Keys : Call(u, k), u # t
      PROVE  Onward(t)
  <2>1. pc'[t] = pc[t] /\ key'[t] = key[t] /\ raw'[t] = raw[t] /\ meta'[t] = meta[t]
    BY <1>6 DEF TypeOK, ThreadStep, AcquireLookup, GetHit, GetMiss, Touch, Stat, Read, IsPrj,
       ReadPrj, Decode, AcquireAdmit, Store, Move, Evict, Admitted, Fail, Return, Go, Call, threadVars
  <2> QED
    BY <2>1 DEF Onward
<1>7. CASE AcquireLookup(t) \/ GetHit(t) \/ GetMiss(t)
  BY <1>3, <1>7 DEF TypeOK, AcquireLookup, GetHit, GetMiss, Go
<1>8. CASE Touch(t) \/ Admitted(t)
  BY <1>2, <1>8 DEF TypeOK, Touch, Admitted, Return
<1>9. ASSUME NEW e, Fail(t, e)
      PROVE  Onward(t)
  BY <1>2, <1>9 DEF TypeOK, Fail, Return
<1>10. CASE Stat(t)
  BY <1>3, <1>9, <1>10 DEF TypeOK, Stat, Go
<1>11. CASE Read(t)
  BY <1>9, <1>11 DEF TypeOK, Read, Go, Onward
<1>12. CASE IsPrj(t)
  BY <1>12 DEF TypeOK, IsPrj, Go, Onward, Metas
<1>13. CASE ReadPrj(t)
  BY <1>4, <1>9, <1>13 DEF TypeOK, ReadPrj, Go, Metas
<1>14. CASE Decode(t) \/ AcquireAdmit(t) \/ Store(t)
  BY <1>4, <1>9, <1>14 DEF TypeOK, Decode, AcquireAdmit, Store, Go
<1>15. CASE Move(t)
  BY <1>2, <1>4, <1>15 DEF TypeOK, Move, Go, Return
<1>16. CASE Evict(t)
  BY <1>5, <1>16 DEF Evict, threadVars
<1>17. ASSUME NEW k \in Keys, Call(t, k)
       PROVE  Onward(t)
  BY <1>17 DEF TypeOK, Call, Go, Onward
<1>18. ASSUME Environment \/ LoopStep \/ (\E k \in Keys \cup {None} : Invalidate(k)) \/ UNCHANGED vars
       PROVE  UNCHANGED <<pc, key, raw, meta>>
  BY <1>18 DEF Environment, WriteQvw, WritePrj, LoopStep, LAcquire, LKeys, LClear, LAbsent, LFound,
     LDel, Invalidate, vars, threadVars
<1> QED
  BY <1>5, <1>6, <1>7, <1>8, <1>10, <1>11, <1>12, <1>13, <1>14, <1>15, <1>16, <1>17, <1>18
     DEF Next, Arrival, ThreadStep

\* When an invalidation ends it holds the lock, so no thread is admitting, and
\* what it covers is out of the cache.
LEMMA WhenDropping ==
    ASSUME TypeOK, StoreInvariant, [Next]_vars, Dropping
    PROVE  /\ UNCHANGED <<disk, clock, pc, key, raw, meta>>
           /\ \A t \in Threads : pc[t] \notin Held
           /\ \A e \in ToSet(cache') : e \in ToSet(cache) /\ e.key \notin Covered
<1>1. LClear \/ LAbsent \/ LDel
  <2>1. ASSUME NEW t \in Threads, ThreadStep(t)
        PROVE  UNCHANGED lpc
    BY <2>1 DEF ThreadStep, AcquireLookup, GetHit, GetMiss, Touch, Stat, Read, IsPrj, ReadPrj,
       Decode, AcquireAdmit, Store, Move, Evict, Admitted, Fail, loopVars
  <2>2. ASSUME Arrival \/ Environment \/ LAcquire \/ LKeys \/ LFound
        PROVE  ~Dropping
    BY <2>2 DEF Arrival, Call, Invalidate, LGo, Environment, WriteQvw, WritePrj, LAcquire, LKeys,
       LFound, Dropping, loopVars
  <2> QED
    BY <2>1, <2>2 DEF Next, LoopStep, Dropping, vars
<1>2. UNCHANGED <<disk, clock, pc, key, raw, meta>>
  BY <1>1 DEF LClear, LAbsent, LDel, envVars, threadVars
<1>3. \A t \in Threads : pc[t] \notin Held
  BY <1>1, HolderAlone DEF LClear, LAbsent, LDel, LoopHeld, StoreInvariant
<1>4. ASSUME NEW e \in ToSet(cache')
      PROVE  e \in ToSet(cache) /\ e.key \notin Covered
  <2>1. e \in ToSet(cache)
    BY <1>3, NewEntries DEF Held
  <2>2. e.key \in KeysOf(cache')
    BY DEF ToSet, KeysOf
  <2>3. KeysOf(cache') = IF lkey = None THEN {} ELSE KeysOf(cache) \ {lkey}
    BY DropStep DEF Dropping
  <2> QED
    BY <2>1, <2>2, <2>3 DEF Covered
<1> QED
  BY <1>2, <1>3, <1>4

LEMMA HistoryStep ==
    TypeOK /\ TypeOK' /\ StoreInvariant /\ HistoryInvariant /\ [HNext]_historyVars => HistoryInvariant'
<1> SUFFICES ASSUME TypeOK, TypeOK', StoreInvariant, HistoryInvariant, HNext
             PROVE  HistoryInvariant'
  <2>1. ASSUME HistoryInvariant, UNCHANGED historyVars
        PROVE  HistoryInvariant'
    BY <2>1 DEF HistoryInvariant, HistoryType, StampsGrow, NothingOlder, historyVars, vars
  <2> QED
    BY <2>1
<1>a. HistoryType /\ StampsGrow /\ NothingOlder /\ [Next]_vars /\ Remember
  BY DEF HistoryInvariant, HNext
<1>f. Stamps \subseteq Int
  BY MaxStampAssumption DEF Stamps
<1>b. \A k \in Keys : disk[k].stamp \in Int /\ disk'[k].stamp \in Int /\ floor[k] \in Int
  <2>1. /\ disk \in [Keys -> [stamp : Stamps, shape : Shapes, prj : Stamps]]
        /\ disk' \in [Keys -> [stamp : Stamps, shape : Shapes, prj : Stamps]]
        /\ floor \in [Keys -> Stamps]
    BY <1>a DEF TypeOK, HistoryType
  <2> QED
    BY <1>f, <2>1
<1>c. \A t \in Threads : /\ pc[t] # "idle" => key[t] \in Keys
                         /\ pc'[t] # "idle" => key'[t] \in Keys
                         /\ raw[t].stamp \in Int /\ since[t] \in Int
  <2>1. \A t \in Threads : /\ pc[t] # "idle" => key[t] \in Keys
                           /\ pc'[t] # "idle" => key'[t] \in Keys
    BY DEF TypeOK
  <2>2. /\ raw \in [Threads -> [stamp : Stamps, shape : Shapes \cup {"absent"}]]
        /\ since \in [Threads -> Stamps]
    BY <1>a DEF TypeOK, HistoryType
  <2> QED
    BY <1>f, <2>1, <2>2
<1>d. ToSet(cache) \subseteq Entries(Keys, Metas) /\ ToSet(cache') \subseteq Entries(Keys, Metas)
  BY DEF TypeOK, ToSet
<1>e. \A k \in Keys : disk[k].stamp <= disk'[k].stamp /\ disk'[k].stamp <= clock'
  BY <1>a, DiskStep DEF StampsGrow
<1>1. HistoryType'
  <2>1. floor' \in [Keys -> Stamps] /\ straddled' \in [Keys -> BOOLEAN]
    BY <1>a DEF TypeOK, HistoryType, Remember, ReadingOld
  <2>2. \A t \in Threads : since'[t] \in Stamps
    BY <1>a, <1>c DEF HistoryType, Remember
  <2>3. since' \in [Threads -> Stamps]
    BY <1>a, <2>2 DEF Remember
  <2> QED
    BY <2>1, <2>3 DEF HistoryType
\* What a call starts from is the floor at that moment.
<1>2. ASSUME \A k \in Keys : floor[k] <= floor'[k] /\ floor'[k] <= disk'[k].stamp
      PROVE  StampsGrow'
  <2>1. ASSUME NEW t \in Threads, pc'[t] # "idle"
        PROVE  since'[t] <= floor'[key'[t]]
    <3>1. CASE pc[t] = "idle"
      BY <1>2, <1>a, <1>c, <2>1, <3>1 DEF Remember
    <3>2. CASE pc[t] # "idle"
      <4>1. key'[t] = key[t] /\ since'[t] = since[t]
        BY <1>a, <2>1, <3>2, ThreadsOnward DEF Onward, Remember
      <4>2. floor'[key[t]] \in Int
        BY <1>1, <1>c, <3>2, MaxStampAssumption DEF HistoryType, Stamps
      <4> QED
        BY <1>2, <1>a, <1>b, <1>c, <3>2, <4>1, <4>2 DEF StampsGrow
    <3> QED
      BY <3>1, <3>2
  <2> QED
    BY <1>2, <1>e, <2>1 DEF StampsGrow
<1>3. CASE ~Dropping
  <2>1. floor' = floor /\ straddled' = straddled
    BY <1>3, <1>a DEF HistoryType, Remember
  <2>2. StampsGrow'
    BY <1>2, <1>a, <1>b, <1>e, <2>1 DEF StampsGrow
  <2>3. ASSUME NEW t \in Threads
        PROVE  /\ pc'[t] \in HasBody => meta'[t].body = raw'[t].stamp
               /\ pc'[t] \in HasRead /\ ~straddled'[key'[t]] => floor'[key'[t]] <= raw'[t].stamp
    <3>1. Onward(t)
      BY <1>a, ThreadsOnward
    <3>2. pc'[t] \in HasBody => meta'[t].body = raw'[t].stamp
      BY <1>a, <3>1 DEF Onward, NothingOlder, HasRead, HasBody
    <3>3. ASSUME pc'[t] \in HasRead, ~straddled'[key'[t]]
          PROVE  floor'[key'[t]] <= raw'[t].stamp
      <4>1. pc[t] # "idle" /\ key'[t] = key[t] /\ key[t] \in Keys
        BY <1>c, <3>1, <3>3 DEF Onward, HasRead
      <4> QED
        BY <1>a, <2>1, <3>1, <3>3, <4>1 DEF Onward, NothingOlder, StampsGrow
    <3> QED
      BY <3>2, <3>3
  <2>4. ASSUME NEW e \in ToSet(cache'), ~straddled'[e.key]
        PROVE  floor'[e.key] <= e.meta.body
    <3>1. CASE e \in ToSet(cache)
      BY <1>a, <2>1, <2>4, <3>1 DEF NothingOlder
    <3>2. ASSUME NEW t \in Threads, pc[t] = "assign", e = [key |-> key[t], meta |-> meta[t]]
          PROVE  floor'[e.key] <= e.meta.body
      BY <1>a, <2>1, <2>4, <3>2 DEF NothingOlder, HasRead, HasBody
    <3> QED
      BY <1>a, <3>1, <3>2, NewEntries
  <2>5. NothingOlder'
    BY <2>3, <2>4 DEF NothingOlder
  <2> QED
    BY <1>1, <2>2, <2>5 DEF HistoryInvariant
<1>4. CASE Dropping
  <2>1. /\ UNCHANGED <<disk, clock, pc, key, raw, meta>>
        /\ \A t \in Threads : pc[t] \notin Held
        /\ \A e \in ToSet(cache') : e \in ToSet(cache) /\ e.key \notin Covered
    BY <1>4, <1>a, WhenDropping
  <2>2. \A k \in Keys : /\ floor'[k] = IF k \in Covered THEN disk[k].stamp ELSE floor[k]
                        /\ straddled'[k] = IF k \in Covered THEN ReadingOld(k) ELSE straddled[k]
    BY <1>4, <1>a DEF Remember
  <2>3. StampsGrow'
    BY <1>2, <1>a, <1>b, <2>1, <2>2 DEF StampsGrow
  <2>4. ASSUME NEW t \in Threads
        PROVE  /\ pc'[t] \in HasBody => meta'[t].body = raw'[t].stamp
               /\ pc'[t] \in HasRead /\ ~straddled'[key'[t]] => floor'[key'[t]] <= raw'[t].stamp
    <3>1. pc'[t] \in HasBody => meta'[t].body = raw'[t].stamp
      BY <1>a, <2>1 DEF NothingOlder
    <3>2. ASSUME pc[t] \in HasRead, ~straddled'[key[t]]
          PROVE  floor'[key[t]] <= raw[t].stamp
      <4>1. key[t] \in Keys /\ pc[t] \in {"is_prj", "read_prj", "decode", "admit"}
        BY <1>c, <2>1, <3>2 DEF HasRead, Held
      <4>2. CASE key[t] \in Covered
        <5>1. ~ReadingOld(key[t])
          BY <2>2, <3>2, <4>1, <4>2
        <5>2. ~(raw[t].stamp < disk[key[t]].stamp)
          BY <4>1, <5>1 DEF ReadingOld
        <5> QED
          BY <1>b, <1>c, <2>2, <4>1, <4>2, <5>2
      <4>3. CASE key[t] \notin Covered
        BY <1>a, <2>2, <3>2, <4>1, <4>3 DEF NothingOlder
      <4> QED
        BY <4>2, <4>3
    <3> QED
      BY <2>1, <3>1, <3>2
  <2>5. \A e \in ToSet(cache') : ~straddled'[e.key] => floor'[e.key] <= e.meta.body
    BY <1>a, <1>d, <2>1, <2>2 DEF NothingOlder, Entries
  <2>6. NothingOlder'
    BY <2>4, <2>5 DEF NothingOlder
  <2> QED
    BY <1>1, <2>3, <2>6 DEF HistoryInvariant
<1> QED
  BY <1>3, <1>4

\* A call answers with what it has read, or with what it has found cached.
LEMMA AnswerStep ==
    ASSUME TypeOK, StoreInvariant, HistoryInvariant, [Next]_vars, NEW t \in Threads,
           Answered(t), ~straddled[key[t]]
    PROVE  Fresh(t)
<1>a. pc[t] # "idle" /\ pc'[t] = "idle" /\ ret'[t].status = "ok"
  BY DEF Answered
<1>1. ~\E e \in Errors : Fail(t, e)
  BY <1>a DEF Fail, Return, Raised, Errors, TypeOK
<1>2. Touch(t) \/ Admitted(t)
  <2>1. ASSUME NEW u \in Threads, ThreadStep(u), u # t
        PROVE  pc'[t] = pc[t]
    BY <2>1 DEF TypeOK, ThreadStep, AcquireLookup, GetHit, GetMiss, Touch, Stat, Read, IsPrj,
       ReadPrj, Decode, AcquireAdmit, Store, Move, Evict, Admitted, Fail, Return, Go, threadVars
  <2>2. ASSUME Arrival \/ Environment \/ LoopStep \/ UNCHANGED vars
        PROVE  FALSE
    BY <1>a, <2>2 DEF Arrival, Call, Go, Invalidate, Environment, WriteQvw, WritePrj, LoopStep,
       LAcquire, LKeys, LClear, LAbsent, LFound, LDel, threadVars, vars, TypeOK
  <2>3. ASSUME AcquireLookup(t) \/ GetHit(t) \/ GetMiss(t) \/ Stat(t) \/ Read(t) \/ IsPrj(t)
               \/ ReadPrj(t) \/ Decode(t) \/ AcquireAdmit(t) \/ Store(t) \/ Evict(t)
        PROVE  FALSE
    BY <1>a, <1>1, <2>3 DEF AcquireLookup, GetHit, GetMiss, Stat, Read, IsPrj, ReadPrj, Decode,
       AcquireAdmit, Store, Evict, Go, Errors, threadVars, TypeOK
  <2>4. ASSUME Move(t)
        PROVE  FALSE
    BY <1>a, <2>4 DEF Move, Go, Return, Raised, TypeOK
  <2> QED
    BY <1>a, <2>1, <2>2, <2>3, <2>4 DEF Next, ThreadStep
<1>3. ret'[t].meta = meta[t]
  BY <1>2, <1>a DEF Touch, Admitted, Return, Raised, Parsed, TypeOK
<1>4. floor[key[t]] <= meta[t].body
  <2>1. CASE Admitted(t)
    BY <2>1 DEF Admitted, HistoryInvariant, NothingOlder, HasRead, HasBody
  <2>2. CASE Touch(t)
    <3>1. key[t] \in KeysOf(cache) /\ MetaOf(cache, key[t]) = meta[t]
      BY <2>2 DEF Touch, StoreInvariant, CriticalFacts
    <3>2. cache[IndexOf(cache, key[t])] \in ToSet(cache) /\ cache[IndexOf(cache, key[t])].key = key[t]
      BY <3>1, IndexOfKey DEF ToSet
    <3> QED
      BY <3>1, <3>2 DEF MetaOf, HistoryInvariant, NothingOlder
  <2> QED
    BY <1>2, <2>1, <2>2
<1>5. since[t] <= floor[key[t]] /\ key[t] \in Keys
  BY <1>a DEF HistoryInvariant, StampsGrow, TypeOK
<1>6. since[t] \in Int /\ floor[key[t]] \in Int /\ meta[t].body \in Int
  BY <1>5, MaxStampAssumption DEF TypeOK, HistoryInvariant, HistoryType, Stamps, Metas
<1> QED
  BY <1>3, <1>4, <1>5, <1>6 DEF Fresh

\* What the disk held at the latest invalidation bounds what is read, cached
\* and answered after it, in any execution of any number of callers.
THEOREM HistoryCorrect == HSpec => []HistoryInvariant
<1>1. HInit => TypeOK /\ StoreInvariant /\ HistoryInvariant
  BY InitType, InitStore, InitHistory DEF HInit
<1>2. TypeOK /\ StoreInvariant /\ HistoryInvariant /\ [HNext]_historyVars
        => TypeOK' /\ StoreInvariant' /\ HistoryInvariant'
  <2>1. [HNext]_historyVars => [Next]_vars
    BY DEF HNext, historyVars
  <2> QED
    BY <2>1, StepType, StoreStep, HistoryStep
<1> QED
  BY <1>1, <1>2, PTL DEF HSpec

\* A call made after a reload is answered from what was on disk at that reload
\* or later, unless the reload met an older parse of the file under way,
\* however many threads, clients and writers there are.
THEOREM QuietReloadsAreFresh == HSpec => FreshAfterQuietReload
<1>1. HInit => TypeOK /\ StoreInvariant /\ HistoryInvariant
  BY InitType, InitStore, InitHistory DEF HInit
<1>2. [HNext]_historyVars => [Next]_vars
  BY DEF HNext, historyVars
<1>3. TypeOK /\ StoreInvariant /\ HistoryInvariant /\ [HNext]_historyVars
        => TypeOK' /\ StoreInvariant' /\ HistoryInvariant'
  BY <1>2, StepType, StoreStep, HistoryStep
<1>4. TypeOK /\ StoreInvariant /\ HistoryInvariant /\ [HNext]_historyVars
        => [\A t \in Threads : Answered(t) /\ ~straddled[key[t]] => Fresh(t)]_historyVars
  BY <1>2, AnswerStep
<1> QED
  BY <1>1, <1>3, <1>4, PTL DEF HSpec, FreshAfterQuietReload

----------------------------------------------------------------------------
(* MetadataStore implements LruContract: every step of the store is a step *)
(* of the contract or leaves it alone.                                     *)

LEMMA WithoutDeletes ==
    ASSUME NEW d, NEW k
    PROVE  Contract!Without(d, k) = IF k \in KeysOf(d) THEN RemoveAt(d, IndexOf(d, k)) ELSE d
BY DEF Contract!Without, Contract!KeysOf, KeysOf, Contract!Delete, Contract!IndexOf, IndexOf,
   Contract!RemoveAt, RemoveAt

\* A lookup that finds k and moves it to the end is the contract's Queried.
LEMMA MoveIsQueried ==
    ASSUME NEW K, NEW M, NEW d \in Seq(Entries(K, M)), NEW k \in KeysOf(d)
    PROVE  MoveToEnd(d, k) = Contract!Queried(d, k, MetaOf(d, k))
<1>1. IndexOf(d, k) \in 1..Len(d) /\ d[IndexOf(d, k)].key = k
  BY IndexOfKey
<1>2. d[IndexOf(d, k)] = [key |-> k, meta |-> MetaOf(d, k)]
  <2>1. d[IndexOf(d, k)] \in Entries(K, M)
    BY <1>1
  <2> QED
    BY <1>1, <2>1 DEF Entries, MetaOf
<1> QED
  BY <1>2, WithoutDeletes DEF MoveToEnd, Contract!Queried

\* Sequences of one length with the same elements are equal.
LEMMA SameElements ==
    ASSUME NEW S, NEW a \in Seq(S), NEW b \in Seq(S), Len(a) = Len(b),
           \A j \in 1..Len(a) : a[j] = b[j]
    PROVE  a = b
OBVIOUS

\* Assigning a key and moving it to the end is the contract's Queried.
LEMMA AssignIsQueried ==
    ASSUME NEW K, NEW M, NEW d \in Seq(Entries(K, M)), NEW k \in K, NEW m \in M, UniqueKeys(d)
    PROVE  MoveToEnd(Assign(d, k, m), k) = Contract!Queried(d, k, m)
<1> DEFINE x == [key |-> k, meta |-> m]
           e == Assign(d, k, m)
<1>1. x \in Entries(K, M) /\ x.key = k
  BY DEF Entries
<1>2. /\ e \in Seq(Entries(K, M)) /\ KeysOf(e) = KeysOf(d) \cup {k} /\ UniqueKeys(e)
      /\ \E i \in DOMAIN e : e[i] = x
  BY AssignProperties
<1>3. k \in KeysOf(e)
  BY <1>2
<1>4. IndexOf(e, k) \in 1..Len(e) /\ e[IndexOf(e, k)] = x
  <2>1. IndexOf(e, k) \in DOMAIN e /\ e[IndexOf(e, k)].key = k
    BY <1>3, IndexOfKey
  <2>2. PICK i \in DOMAIN e : e[i] = x
    BY <1>2
  <2>3. IndexOf(e, k) = i
    BY <1>1, <1>2, <2>1, <2>2 DEF UniqueKeys
  <2> QED
    BY <1>2, <2>1, <2>2, <2>3
<1>5. MoveToEnd(e, k) = Append(RemoveAt(e, IndexOf(e, k)), x)
  BY <1>4 DEF MoveToEnd
<1>6. CASE k \in KeysOf(d)
  <2> DEFINE i == IndexOf(d, k)
  <2>1. i \in 1..Len(d) /\ d[i].key = k
    BY <1>6, IndexOfKey
  <2>2. e = [d EXCEPT ![i] = x]
    BY <1>6 DEF Assign
  <2> HIDE DEF x, e, i
  <2>3. /\ Len(e) = Len(d) /\ \A j \in 1..Len(d) : e[j] = IF j = i THEN x ELSE d[j]
    BY <1>1, <2>1, <2>2, ExceptSeq
  <2>4. IndexOf(e, k) = i
    BY <1>1, <1>2, <1>4, <2>1, <2>3 DEF UniqueKeys
  <2>5. RemoveAt(e, i) = RemoveAt(d, i)
    <3>1. /\ RemoveAt(e, i) \in Seq(Entries(K, M)) /\ Len(RemoveAt(e, i)) = Len(d) - 1
          /\ \A j \in 1..(Len(d) - 1) : RemoveAt(e, i)[j] = IF j < i THEN e[j] ELSE e[j + 1]
      BY <1>2, <2>1, <2>3, RemoveAtProperties
    <3>2. /\ RemoveAt(d, i) \in Seq(Entries(K, M)) /\ Len(RemoveAt(d, i)) = Len(d) - 1
          /\ \A j \in 1..(Len(d) - 1) : RemoveAt(d, i)[j] = IF j < i THEN d[j] ELSE d[j + 1]
      BY <2>1, RemoveAtProperties
    <3>3. \A j \in 1..(Len(d) - 1) : RemoveAt(e, i)[j] = RemoveAt(d, i)[j]
      <4> TAKE j \in 1..(Len(d) - 1)
      <4>1. CASE j < i
        BY <2>1, <2>3, <3>1, <3>2, <4>1
      <4>2. CASE ~(j < i)
        <5>1. j + 1 \in 1..Len(d) /\ j + 1 # i
          BY <2>1, <4>2
        <5> QED
          BY <2>3, <3>1, <3>2, <4>2, <5>1
      <4> QED
        BY <4>1, <4>2
    <3> QED
      BY <3>1, <3>2, <3>3, SameElements
  <2> QED
    BY <1>5, <1>6, <2>4, <2>5, WithoutDeletes DEF x, e, i, Contract!Queried
<1>7. CASE k \notin KeysOf(d)
  <2>1. e = Append(d, x)
    BY <1>7 DEF Assign
  <2> HIDE DEF x, e
  <2>2. Len(e) = Len(d) + 1 /\ (\A j \in 1..Len(d) : e[j] = d[j]) /\ e[Len(d) + 1] = x
    BY <1>1, <2>1, AppendProperties
  <2>3. IndexOf(e, k) = Len(d) + 1
    BY <1>1, <1>2, <1>4, <2>2 DEF UniqueKeys
  <2>4. RemoveAt(e, Len(d) + 1) = d
    <3>1. /\ RemoveAt(e, Len(d) + 1) \in Seq(Entries(K, M))
          /\ Len(RemoveAt(e, Len(d) + 1)) = Len(d)
          /\ \A j \in 1..Len(d) : RemoveAt(e, Len(d) + 1)[j] = e[j]
      <4> DEFINE n == Len(d) + 1
      <4>1. n \in 1..Len(e) /\ Len(e) - 1 = Len(d)
        BY <2>2
      <4>2. /\ RemoveAt(e, n) \in Seq(Entries(K, M))
            /\ Len(RemoveAt(e, n)) = Len(e) - 1
            /\ \A j \in 1..(Len(e) - 1) : RemoveAt(e, n)[j] = IF j < n THEN e[j] ELSE e[j + 1]
        BY <1>2, <4>1, RemoveAtProperties
      <4> QED
        BY <4>1, <4>2
    <3> QED
      BY <2>2, <3>1, SameElements
  <2> QED
    BY <1>5, <1>7, <2>3, <2>4, WithoutDeletes DEF x, e, Contract!Queried
<1> QED
  BY <1>6, <1>7

\* Evicting the oldest entry of a cache that is one over changes nothing in
\* what the contract has kept of it.
LEMMA TrimTail ==
    ASSUME NEW S, NEW d \in Seq(S), NEW n \in Nat, Len(d) = n + 1
    PROVE  SubSeq(d, Len(d) - n + 1, Len(d)) = Tail(d)
<1>1. Tail(d) \in Seq(S) /\ Len(Tail(d)) = n /\ \A j \in 1..n : Tail(d)[j] = d[j + 1]
  BY HeadTailProperties
<1>2. /\ SubSeq(d, 2, n + 1) \in Seq(S) /\ Len(SubSeq(d, 2, n + 1)) = n
      /\ \A j \in 1..n : SubSeq(d, 2, n + 1)[j] = d[j + 1]
  OBVIOUS
<1> QED
  BY <1>1, <1>2, SameElements

----------------------------------------------------------------------------
(* The mapping, in terms of who is admitting. *)

\* The thread inside _admit is the only one, so the mapping's choice is it.
LEMMA OneAdmits ==
    ASSUME LockDiscipline, NEW t \in Threads, pc[t] \in {"move", "evict"}
    PROVE  /\ Admitting = {t}
           /\ AbsLru = LET d == Settled(cache, t)
                       IN IF Len(d) > MaxEntries
                          THEN SubSeq(d, Len(d) - MaxEntries + 1, Len(d)) ELSE d
<1>1. \A u \in Threads \ {t} : pc[u] \notin {"move", "evict"}
  BY HolderAlone DEF Held
<1>2. Admitting = {t}
  BY <1>1 DEF Admitting
<1>3. (CHOOSE u \in Admitting : TRUE) = t
  BY <1>2
<1> QED
  BY <1>2, <1>3 DEF AbsLru

LEMMA NoneAdmits ==
    ASSUME \A t \in Threads : pc[t] \notin {"move", "evict"}
    PROVE  Admitting = {} /\ AbsLru = cache
BY DEF Admitting, AbsLru

\* A step of t that neither enters nor leaves _admit nor touches the cache
\* changes what the contract sees of t only.
LEMMA Outside ==
    ASSUME TypeOK, NEW t \in Threads,
           pc[t] \notin {"move", "evict"}, pc'[t] \notin {"move", "evict"},
           pc' = [pc EXCEPT ![t] = pc'[t]],
           key' = [key EXCEPT ![t] = key'[t]],
           ret' = [ret EXCEPT ![t] = ret'[t]],
           \A u \in Threads \ {t} : meta'[u] = meta[u],
           cache' = cache
    PROVE  /\ AbsLru' = AbsLru
           /\ AbsPhase' = [AbsPhase EXCEPT ![t] = AbsPhase'[t]]
           /\ AbsWant' = [AbsWant EXCEPT ![t] = key'[t]]
           /\ AbsOut' = [AbsOut EXCEPT ![t] = ret'[t]]
           /\ AbsWant[t] = key[t] /\ AbsOut[t] = ret[t]
<1>1. \A u \in Threads \ {t} : pc'[u] = pc[u] /\ key'[u] = key[u] /\ ret'[u] = ret[u]
  BY DEF TypeOK
<1>2. Admitting' = Admitting /\ t \notin Admitting
  BY <1>1 DEF Admitting
<1>3. AbsLru' = AbsLru
  <2>1. CASE Admitting = {}
    BY <1>2, <2>1 DEF AbsLru
  <2>2. CASE Admitting # {}
    <3> DEFINE c == CHOOSE u \in Admitting : TRUE
    <3>1. c \in Threads \ {t}
      BY <1>2, <2>2 DEF Admitting
    <3>2. (CHOOSE u \in Admitting' : TRUE) = c
      BY <1>2
    <3> HIDE DEF c
    <3>3. pc'[c] = pc[c] /\ key'[c] = key[c]
      BY <1>1, <3>1
    <3>4. (IF pc'[c] = "move" THEN MoveToEnd(cache', key'[c]) ELSE cache') = Settled(cache, c)
      BY <3>3 DEF Settled
    <3> QED
      BY <1>2, <2>2, <3>2, <3>4 DEF AbsLru, Settled, c
  <2> QED
    BY <2>1, <2>2
<1>4. AbsPhase' = [AbsPhase EXCEPT ![t] = AbsPhase'[t]]
  BY <1>1 DEF AbsPhase
<1>5. AbsWant' = [AbsWant EXCEPT ![t] = key'[t]]
  BY <1>1, <1>2 DEF AbsWant
<1>6. AbsOut' = [AbsOut EXCEPT ![t] = ret'[t]]
  BY <1>1, <1>2 DEF AbsOut
<1> QED
  BY <1>2, <1>3, <1>4, <1>5, <1>6 DEF AbsWant, AbsOut

----------------------------------------------------------------------------
(* Every step maps to a step of the contract or to a stutter. *)

Implements == Contract!CNext \/ UNCHANGED Contract!contractVars

\* A function updated with the value it has is itself.
LEMMA SameValue ==
    ASSUME NEW S, NEW f, f = [u \in S |-> f[u]], NEW t \in S, NEW g, g = [f EXCEPT ![t] = f[t]]
    PROVE  g = f
OBVIOUS

LEMMA AbsFunctions ==
    /\ AbsPhase = [u \in Threads |-> AbsPhase[u]]
    /\ AbsWant = [u \in Threads |-> AbsWant[u]]
    /\ AbsOut = [u \in Threads |-> AbsOut[u]]
BY DEF AbsPhase, AbsWant, AbsOut

\* Before the cache is looked at, and while it is not: the contract sees the
\* beginning of a call, the miss and the failure.
LEMMA CallImplements ==
    ASSUME TypeOK, NEW t \in Threads, NEW k \in Keys, Call(t, k)
    PROVE  Implements
<1>1. /\ pc[t] = "idle" /\ pc'[t] = "lookup"
      /\ pc' = [pc EXCEPT ![t] = pc'[t]] /\ key' = [key EXCEPT ![t] = key'[t]]
      /\ ret' = [ret EXCEPT ![t] = ret'[t]]
      /\ key'[t] = k /\ ret'[t] = Nothing
      /\ UNCHANGED <<cache, meta, loopVars>>
  BY DEF Call, Go, TypeOK
<1>2. /\ AbsLru' = AbsLru
      /\ AbsPhase' = [AbsPhase EXCEPT ![t] = AbsPhase'[t]]
      /\ AbsWant' = [AbsWant EXCEPT ![t] = k]
      /\ AbsOut' = [AbsOut EXCEPT ![t] = Nothing]
  BY <1>1, Outside
<1>3. AbsPhase[t] = "idle" /\ AbsPhase'[t] = "asked"
  BY <1>1 DEF AbsPhase
<1>4. Contract!Ask(t, k)
  BY <1>1, <1>2, <1>3 DEF Contract!Ask, Contract!Unanswered, Contract!Answer, Nothing,
     Contract!invalidation, loopVars
<1> QED
  BY <1>4 DEF Implements, Contract!CNext

LEMMA MissImplements ==
    ASSUME TypeOK, StoreInvariant, NEW t \in Threads, GetMiss(t)
    PROVE  Implements
<1>1. /\ pc[t] = "get" /\ pc'[t] = "stat"
      /\ pc' = [pc EXCEPT ![t] = pc'[t]] /\ key' = [key EXCEPT ![t] = key'[t]]
      /\ ret' = [ret EXCEPT ![t] = ret'[t]]
      /\ key'[t] = key[t] /\ ret'[t] = ret[t] /\ key[t] \notin KeysOf(cache)
      /\ UNCHANGED <<cache, meta, key, ret, loopVars>>
  BY DEF GetMiss, Go, TypeOK
<1>2. AbsLru = cache
  BY <1>1, HolderAlone, NoneAdmits DEF StoreInvariant, Held
<1>3. /\ AbsLru' = AbsLru
      /\ AbsPhase' = [AbsPhase EXCEPT ![t] = AbsPhase'[t]]
      /\ AbsWant' = [AbsWant EXCEPT ![t] = key'[t]]
      /\ AbsOut' = [AbsOut EXCEPT ![t] = ret'[t]]
      /\ AbsWant[t] = key[t] /\ AbsOut[t] = ret[t]
  BY <1>1, Outside
<1>4. AbsWant' = AbsWant /\ AbsOut' = AbsOut
  BY <1>1, <1>3, AbsFunctions, SameValue
<1>5. AbsPhase[t] = "asked" /\ AbsPhase'[t] = "missed"
  BY <1>1 DEF AbsPhase
<1>6. Contract!Miss(t)
  BY <1>1, <1>2, <1>3, <1>4, <1>5 DEF Contract!Miss, Contract!KeysOf, KeysOf,
     Contract!invalidation, loopVars
<1> QED
  BY <1>6 DEF Implements, Contract!CNext

LEMMA FailImplements ==
    ASSUME TypeOK, NEW t \in Threads, NEW e \in Errors \ {"key_error"}, Fail(t, e),
           pc[t] \in {"stat", "read", "read_prj", "decode"}
    PROVE  Implements
<1>1. /\ pc'[t] = "idle"
      /\ pc' = [pc EXCEPT ![t] = pc'[t]] /\ key' = [key EXCEPT ![t] = key'[t]]
      /\ ret' = [ret EXCEPT ![t] = ret'[t]]
      /\ key'[t] = None /\ ret'[t] = Raised(e)
      /\ \A u \in Threads \ {t} : meta'[u] = meta[u]
      /\ UNCHANGED <<cache, loopVars>>
  BY DEF Fail, Return, TypeOK
<1>2. /\ AbsLru' = AbsLru
      /\ AbsPhase' = [AbsPhase EXCEPT ![t] = AbsPhase'[t]]
      /\ AbsWant' = [AbsWant EXCEPT ![t] = None]
      /\ AbsOut' = [AbsOut EXCEPT ![t] = Raised(e)]
  BY <1>1, Outside
<1>3. AbsPhase[t] = "missed" /\ AbsPhase'[t] = "idle"
  BY <1>1 DEF AbsPhase
<1>4. Contract!GiveUp(t, e)
  BY <1>1, <1>2, <1>3 DEF Contract!GiveUp, Contract!Reply, Contract!Answer, Raised,
     Contract!invalidation, loopVars
<1> QED
  BY <1>4 DEF Implements, Contract!CNext

\* A step between two points at which the contract sees the same.
LEMMA QuietImplements ==
    ASSUME TypeOK, NEW t \in Threads,
           \/ pc[t] = "lookup" /\ pc'[t] = "get"
           \/ pc[t] = "get" /\ pc'[t] = "touch"
           \/ /\ pc[t] \in {"stat", "read", "is_prj", "read_prj", "decode", "admit"}
              /\ pc'[t] \in {"read", "is_prj", "read_prj", "decode", "admit", "assign"},
           pc' = [pc EXCEPT ![t] = pc'[t]],
           \A u \in Threads \ {t} : meta'[u] = meta[u],
           UNCHANGED <<cache, key, ret, loopVars>>
    PROVE  Implements
<1>1. key' = [key EXCEPT ![t] = key'[t]] /\ ret' = [ret EXCEPT ![t] = ret'[t]]
  BY DEF TypeOK
<1>2. pc[t] \notin {"move", "evict"} /\ pc'[t] \notin {"move", "evict"}
  OBVIOUS
<1>3. /\ AbsLru' = AbsLru
      /\ AbsPhase' = [AbsPhase EXCEPT ![t] = AbsPhase'[t]]
      /\ AbsWant' = [AbsWant EXCEPT ![t] = key'[t]]
      /\ AbsOut' = [AbsOut EXCEPT ![t] = ret'[t]]
      /\ AbsWant[t] = key[t] /\ AbsOut[t] = ret[t]
  BY <1>1, <1>2, Outside
<1>4. AbsPhase'[t] = AbsPhase[t]
  BY DEF AbsPhase
<1>5. AbsPhase' = AbsPhase /\ AbsWant' = AbsWant /\ AbsOut' = AbsOut
  BY <1>3, <1>4, AbsFunctions, SameValue
<1> QED
  BY <1>3, <1>5 DEF Implements, Contract!contractVars, loopVars

\* Outside the critical sections of store.py
LEMMA ParseImplements ==
    ASSUME TypeOK, NEW t \in Threads, Stat(t) \/ Read(t) \/ IsPrj(t) \/ ReadPrj(t) \/ Decode(t)
    PROVE  Implements
<1>1. pc[t] \in {"stat", "read", "is_prj", "read_prj", "decode"}
  BY DEF Stat, Read, IsPrj, ReadPrj, Decode, Go
<1>2. CASE \E e \in Errors \ {"key_error"} : Fail(t, e)
  <2>1. PICK e \in Errors \ {"key_error"} : Fail(t, e)
    BY <1>2
  <2>2. pc[t] # "is_prj"
    <3>1. pc[t] = "is_prj" => IsPrj(t)
      BY DEF Stat, Read, IsPrj, ReadPrj, Decode, Go
    <3>2. IsPrj(t) => pc'[t] # "idle"
      BY DEF IsPrj, Go, TypeOK
    <3>3. pc'[t] = "idle"
      BY <2>1 DEF Fail, Return, TypeOK
    <3> QED
      BY <3>1, <3>2, <3>3
  <2> QED
    BY <1>1, <2>1, <2>2, FailImplements
<1>3. CASE ~\E e \in Errors \ {"key_error"} : Fail(t, e)
  <2>1. /\ pc' = [pc EXCEPT ![t] = pc'[t]]
        /\ pc'[t] \in {"read", "is_prj", "read_prj", "decode", "admit"}
        /\ \A u \in Threads \ {t} : meta'[u] = meta[u]
        /\ UNCHANGED <<cache, lock, key, ret, loopVars>>
    BY <1>3 DEF Stat, Read, IsPrj, ReadPrj, Decode, Go, Errors, TypeOK
  <2> QED
    BY <1>1, <2>1, QuietImplements
<1> QED
  BY <1>2, <1>3

\* A hit takes effect when move_to_end has been called.
LEMMA TouchImplements ==
    ASSUME TypeOK, StoreInvariant, NEW t \in Threads, Touch(t)
    PROVE  Implements
<1>1. pc[t] = "touch" /\ key[t] \in KeysOf(cache) /\ MetaOf(cache, key[t]) = meta[t]
  BY DEF Touch, StoreInvariant, CriticalFacts
<1>2. /\ pc'[t] = "idle"
      /\ pc' = [pc EXCEPT ![t] = pc'[t]] /\ key' = [key EXCEPT ![t] = None]
      /\ ret' = [ret EXCEPT ![t] = Parsed(meta[t])]
      /\ cache' = MoveToEnd(cache, key[t])
      /\ UNCHANGED loopVars
  BY <1>1 DEF Touch, Return, TypeOK
<1>3. \A u \in Threads \ {t} : pc[u] \notin Held /\ pc'[u] = pc[u]
  BY <1>1, <1>2, HolderAlone DEF StoreInvariant, TypeOK, Held
<1>4. \A u \in Threads : pc[u] \notin {"move", "evict"} /\ pc'[u] \notin {"move", "evict"}
  BY <1>1, <1>2, <1>3 DEF Held
<1>5. Admitting = {} /\ Admitting' = {} /\ AbsLru = cache /\ AbsLru' = cache'
  BY <1>4 DEF Admitting, AbsLru
<1>6. /\ AbsPhase[t] = "asked" /\ AbsPhase' = [AbsPhase EXCEPT ![t] = "idle"]
      /\ AbsWant[t] = key[t] /\ AbsWant' = [AbsWant EXCEPT ![t] = None]
      /\ AbsOut' = [AbsOut EXCEPT ![t] = Parsed(meta[t])]
  <2>1. AbsPhase[t] = "asked" /\ AbsPhase' = [AbsPhase EXCEPT ![t] = "idle"]
    BY <1>1, <1>2, <1>3 DEF AbsPhase
  <2>2. AbsWant[t] = key[t] /\ AbsWant' = [AbsWant EXCEPT ![t] = None]
    BY <1>2, <1>5 DEF AbsWant, TypeOK
  <2>3. AbsOut' = [AbsOut EXCEPT ![t] = Parsed(meta[t])]
    BY <1>2, <1>5 DEF AbsOut, TypeOK
  <2> QED
    BY <2>1, <2>2, <2>3
<1>7. cache' = Contract!Queried(cache, key[t], meta[t])
  BY <1>1, <1>2, MoveIsQueried DEF TypeOK
<1>8. Contract!KeysOf(cache) = KeysOf(cache) /\ Contract!MetaOf(cache, key[t]) = meta[t]
  BY <1>1 DEF Contract!KeysOf, KeysOf, Contract!MetaOf, MetaOf, Contract!IndexOf, IndexOf
<1>9. Contract!Hit(t)
  BY <1>1, <1>2, <1>5, <1>6, <1>7, <1>8 DEF Contract!Hit, Contract!Reply, Contract!Answer,
     Parsed, Contract!invalidation, loopVars
<1> QED
  BY <1>9 DEF Implements, Contract!CNext

\* An admission takes effect when the key is assigned: the contract's cache
\* is already in the order and within the bound that _admit has yet to reach.
LEMMA StoreImplements ==
    ASSUME TypeOK, StoreInvariant, NEW t \in Threads, Store(t)
    PROVE  Implements
<1>1. /\ pc[t] = "assign" /\ pc'[t] = "move" /\ pc' = [pc EXCEPT ![t] = pc'[t]]
      /\ cache' = Assign(cache, key[t], meta[t])
      /\ UNCHANGED <<lock, key, meta, ret, loopVars>>
  BY DEF TypeOK, Store, Go
<1>2. \A u \in Threads \ {t} : pc[u] \notin Held /\ pc'[u] = pc[u]
  BY <1>1, HolderAlone DEF StoreInvariant, TypeOK, Held
<1>3. Admitting = {} /\ AbsLru = cache
  BY <1>1, <1>2 DEF Admitting, AbsLru, Held
<1>4. Admitting' = {t}
  BY <1>1, <1>2 DEF Admitting, Held
<1>5. key[t] \in Keys /\ meta[t] \in Metas /\ UniqueKeys(cache)
  BY <1>1 DEF TypeOK, StoreInvariant, Bounded
<1>6. MoveToEnd(cache', key'[t]) = Contract!Queried(cache, key[t], meta[t])
  BY <1>1, <1>5, AssignIsQueried DEF TypeOK
<1>7. AbsLru' = Contract!Trim(Contract!Queried(cache, key[t], meta[t]))
  <2>1. (CHOOSE u \in Admitting' : TRUE) = t
    BY <1>4
  <2> QED
    BY <1>1, <1>4, <1>6, <2>1 DEF AbsLru, Settled, Contract!Trim
<1>8. /\ AbsPhase[t] = "missed" /\ AbsPhase' = [AbsPhase EXCEPT ![t] = "idle"]
      /\ AbsWant[t] = key[t] /\ AbsWant' = [AbsWant EXCEPT ![t] = None]
      /\ AbsOut' = [AbsOut EXCEPT ![t] = Parsed(meta[t])]
  <2>1. AbsPhase[t] = "missed" /\ AbsPhase' = [AbsPhase EXCEPT ![t] = "idle"]
    BY <1>1, <1>2 DEF AbsPhase
  <2>2. AbsWant[t] = key[t] /\ AbsWant' = [AbsWant EXCEPT ![t] = None]
    BY <1>1, <1>3, <1>4 DEF AbsWant
  <2>3. AbsOut' = [AbsOut EXCEPT ![t] = Parsed(meta[t])]
    BY <1>1, <1>3, <1>4 DEF AbsOut
  <2> QED
    BY <2>1, <2>2, <2>3
<1>9. Contract!Admit(t, meta[t])
  BY <1>1, <1>3, <1>7, <1>8 DEF Contract!Admit, Contract!Reply, Contract!Answer,
     Parsed, Contract!invalidation, loopVars
<1> QED
  BY <1>5, <1>9 DEF Implements, Contract!CNext

\* The rest of _admit brings the cache to where the contract already is.
LEMMA MoveImplements ==
    ASSUME TypeOK, StoreInvariant, NEW t \in Threads, Move(t)
    PROVE  Implements
<1>1. pc[t] = "move" /\ key[t] \in KeysOf(cache)
  BY DEF Move, StoreInvariant, CriticalFacts
<1>2. /\ pc'[t] = "evict" /\ pc' = [pc EXCEPT ![t] = pc'[t]]
      /\ cache' = MoveToEnd(cache, key[t])
      /\ UNCHANGED <<lock, key, meta, ret, loopVars>>
  BY <1>1 DEF TypeOK, Move, Go
<1>3. \A u \in Threads \ {t} : pc[u] \notin Held /\ pc'[u] = pc[u]
  BY <1>1, <1>2, HolderAlone DEF StoreInvariant, TypeOK, Held
<1>4. Admitting = {t} /\ Admitting' = {t}
  BY <1>1, <1>2, <1>3 DEF Admitting, Held
<1>5. AbsLru' = AbsLru
  <2>1. (CHOOSE u \in Admitting : TRUE) = t /\ (CHOOSE u \in Admitting' : TRUE) = t
    BY <1>4
  <2> QED
    BY <1>1, <1>2, <1>4, <2>1 DEF AbsLru, Settled
<1>6. AbsPhase' = AbsPhase
  <2>1. \A u \in Threads : AbsPhase'[u] = AbsPhase[u]
    BY <1>1, <1>2, <1>3 DEF AbsPhase
  <2> QED
    BY <1>1, <1>2, <1>3 DEF AbsPhase
<1>7. AbsWant' = AbsWant /\ AbsOut' = AbsOut
  BY <1>2, <1>4 DEF AbsWant, AbsOut
<1> QED
  BY <1>2, <1>5, <1>6, <1>7 DEF Implements, Contract!contractVars, loopVars

LEMMA EvictImplements ==
    ASSUME TypeOK, StoreInvariant, NEW t \in Threads, Evict(t)
    PROVE  Implements
<1>1. /\ pc[t] = "evict" /\ Len(cache) > MaxEntries /\ cache' = Tail(cache)
      /\ UNCHANGED <<lock, threadVars, loopVars>>
  BY DEF Evict, OverCapacity, PopOldest
<1>2. cache \in Seq(Entries(Keys, Metas)) /\ Len(cache) = MaxEntries + 1 /\ MaxEntries \in Nat
  BY <1>1, MaxEntriesAssumption DEF TypeOK, StoreInvariant, Bounded
<1>3. /\ AbsLru = SubSeq(cache, Len(cache) - MaxEntries + 1, Len(cache))
      /\ Admitting = {t}
  BY <1>1, OneAdmits DEF Settled, StoreInvariant
<1>4. AbsLru = Tail(cache)
  BY <1>2, <1>3, TrimTail
<1>5. AbsLru' = Tail(cache)
  <2>1. Admitting' = {t} /\ (CHOOSE u \in {t} : TRUE) = t
    BY <1>1, <1>3 DEF Admitting, threadVars
  <2>2. ~(Len(cache') > MaxEntries)
    BY <1>1, <1>2
  <2> QED
    BY <1>1, <2>1, <2>2 DEF AbsLru, Settled, threadVars
<1>6. AbsPhase' = AbsPhase /\ AbsWant' = AbsWant /\ AbsOut' = AbsOut
  BY <1>1 DEF AbsPhase, AbsWant, AbsOut, Admitting, threadVars
<1> QED
  BY <1>1, <1>4, <1>5, <1>6 DEF Implements, Contract!contractVars, loopVars

LEMMA AdmittedImplements ==
    ASSUME TypeOK, StoreInvariant, NEW t \in Threads, Admitted(t)
    PROVE  Implements
<1>1. /\ pc[t] = "evict" /\ ~(Len(cache) > MaxEntries) /\ UNCHANGED <<cache, loopVars>>
      /\ pc'[t] = "idle" /\ pc' = [pc EXCEPT ![t] = pc'[t]]
      /\ key' = [key EXCEPT ![t] = None] /\ ret' = [ret EXCEPT ![t] = Parsed(meta[t])]
  BY DEF Admitted, OverCapacity, Return, TypeOK
<1>2. \A u \in Threads \ {t} : pc[u] \notin Held /\ pc'[u] = pc[u]
  BY <1>1, HolderAlone DEF StoreInvariant, TypeOK, Held
<1>3. Admitting = {t} /\ Admitting' = {}
  BY <1>1, <1>2 DEF Admitting, Held
<1>4. AbsLru = cache /\ AbsLru' = cache
  <2>1. AbsLru = cache
    BY <1>1, OneAdmits DEF Settled, StoreInvariant
  <2>2. AbsLru' = cache
    BY <1>1, <1>3 DEF AbsLru
  <2> QED
    BY <2>1, <2>2
<1>5. AbsPhase' = AbsPhase
  <2>1. \A u \in Threads : AbsPhase'[u] = AbsPhase[u]
    BY <1>1, <1>2 DEF AbsPhase
  <2> QED
    BY <1>1, <1>2 DEF AbsPhase
<1>6. AbsWant' = AbsWant /\ AbsOut' = AbsOut
  BY <1>1, <1>3 DEF AbsWant, AbsOut, TypeOK
<1> QED
  BY <1>1, <1>4, <1>5, <1>6 DEF Implements, Contract!contractVars, loopVars

\* invalidate takes effect when the entries are removed, or found missing.
LEMMA DropImplements ==
    ASSUME TypeOK, StoreInvariant, LClear \/ LAbsent \/ LDel
    PROVE  Implements
<1>1. lpc \in LoopHeld /\ lpc' = "idle" /\ lkey' = None /\ UNCHANGED threadVars
  BY DEF LClear, LAbsent, LDel, LReturn, LoopHeld
<1>2. \A u \in Threads : pc[u] \notin Held
  BY <1>1, HolderAlone DEF StoreInvariant
<1>3. Admitting = {} /\ AbsLru = cache /\ AbsLru' = cache'
  BY <1>1, <1>2 DEF Admitting, AbsLru, Held, threadVars
<1>4. AbsPhase' = AbsPhase /\ AbsWant' = AbsWant /\ AbsOut' = AbsOut
  BY <1>1 DEF AbsPhase, AbsWant, AbsOut, Admitting, threadVars
<1>5. /\ cache' = IF lkey = None THEN <<>> ELSE Contract!Without(cache, lkey)
      /\ reply' = Dropped(IF lkey = None THEN [i \in DOMAIN cache |-> cache[i].key]
                          ELSE IF lkey \in KeysOf(cache) THEN <<lkey>> ELSE <<>>)
  <2>1. CASE LClear
    BY <2>1 DEF LClear, LReturn, StoreInvariant, CriticalFacts
  <2>2. CASE LAbsent
    <3>1. lkey # None /\ lkey \notin KeysOf(cache)
      BY <2>2, NoneAssumption DEF LAbsent, TypeOK
    <3> QED
      BY <2>2, <3>1, WithoutDeletes DEF LAbsent, LReturn
  <2>3. CASE LDel
    <3>1. lkey # None /\ lkey \in KeysOf(cache) /\ gone = <<lkey>>
      BY <2>3, NoneAssumption DEF LDel, TypeOK, StoreInvariant, CriticalFacts
    <3>2. cache' = RemoveAt(cache, IndexOf(cache, lkey)) /\ reply' = Dropped(<<lkey>>)
      BY <2>3, <3>1 DEF LDel, LReturn, Delete
    <3> QED
      BY <3>1, <3>2, WithoutDeletes
  <2> QED
    BY <2>1, <2>2, <2>3
<1>6. Contract!Drop
  BY <1>1, <1>3, <1>4, <1>5 DEF Contract!Drop, Contract!Report, Contract!KeysOf, KeysOf,
     Dropped, LoopHeld
<1> QED
  BY <1>6 DEF Implements, Contract!CNext

LEMMA InvalidateImplements ==
    ASSUME NEW k \in Keys \cup {None}, Invalidate(k)
    PROVE  Implements
<1>1. AbsPhase' = AbsPhase /\ AbsWant' = AbsWant /\ AbsOut' = AbsOut /\ AbsLru' = AbsLru
  BY DEF Invalidate, AbsPhase, AbsWant, AbsOut, AbsLru, Settled, Admitting, threadVars
<1>2. Contract!AskDrop(k)
  BY <1>1 DEF Invalidate, LGo, Contract!AskDrop, Contract!Report, NoReply
<1> QED
  BY <1>2 DEF Implements, Contract!CNext

\* Steps that change nothing of what the contract sees.
LEMMA StutterImplements ==
    ASSUME UNCHANGED <<cache, threadVars, lkey, reply>>, (lpc' # "idle") = (lpc # "idle")
    PROVE  Implements
<1>1. AbsPhase' = AbsPhase /\ AbsWant' = AbsWant /\ AbsOut' = AbsOut /\ AbsLru' = AbsLru
  BY DEF AbsPhase, AbsWant, AbsOut, AbsLru, Settled, Admitting, threadVars
<1> QED
  BY <1>1 DEF Implements, Contract!contractVars

LEMMA StepImplements ==
    TypeOK /\ StoreInvariant /\ [Next]_vars => [Contract!CNext]_Contract!contractVars
<1> SUFFICES ASSUME TypeOK, StoreInvariant, [Next]_vars
             PROVE  Implements
  BY DEF Implements
<1>1. ASSUME NEW t \in Threads, ThreadStep(t)
      PROVE  Implements
  <2>1. CASE AcquireLookup(t) \/ GetHit(t) \/ AcquireAdmit(t)
    <3>1. /\ \/ pc[t] = "lookup" /\ pc'[t] = "get"
             \/ pc[t] = "get" /\ pc'[t] = "touch"
             \/ pc[t] = "admit" /\ pc'[t] = "assign"
          /\ pc' = [pc EXCEPT ![t] = pc'[t]]
          /\ \A u \in Threads \ {t} : meta'[u] = meta[u]
          /\ UNCHANGED <<cache, key, ret, loopVars>>
      BY <2>1 DEF AcquireLookup, GetHit, AcquireAdmit, Go, TypeOK
    <3> QED
      BY <3>1, QuietImplements
  <2> QED
    BY <1>1, <2>1, MissImplements, TouchImplements, ParseImplements, StoreImplements,
       MoveImplements, EvictImplements, AdmittedImplements DEF ThreadStep
<1>2. CASE Arrival
  BY <1>2, CallImplements, InvalidateImplements DEF Arrival
<1>3. CASE Environment \/ LAcquire \/ LKeys \/ LFound \/ UNCHANGED vars
  <2>1. UNCHANGED <<cache, threadVars, lkey, reply>> /\ (lpc' # "idle") = (lpc # "idle")
    BY <1>3 DEF Environment, WriteQvw, WritePrj, LAcquire, LKeys, LFound, LGo, vars,
       threadVars, loopVars
  <2> QED
    BY <2>1, StutterImplements
<1>4. CASE LClear \/ LAbsent \/ LDel
  BY <1>4, DropImplements
<1> QED
  BY <1>1, <1>2, <1>3, <1>4 DEF Next, LoopStep

LEMMA InitImplements == Init => Contract!CInit
BY DEF Init, Contract!CInit, AbsLru, AbsPhase, AbsWant, AbsOut, Admitting, Nothing, NoReply,
   Contract!Unanswered, Contract!Answer, Contract!Report

\* The store keeps its promise for any threads, paths and bound: to its callers
\* every execution of ensure_parsed and invalidate looks like one in which each
\* lookup, admission and invalidation happens at one instant, the cache never
\* holds more than max_entries entries, and those evicted are the ones queried
\* least recently.
THEOREM StoreImplementsContract == Spec => ImplementsContract
<1>1. Init => TypeOK /\ StoreInvariant /\ Contract!CInit
  BY InitType, InitStore, InitImplements
<1>2. TypeOK /\ StoreInvariant /\ [Next]_vars => TypeOK' /\ StoreInvariant'
  BY StepType, StoreStep
<1>3. TypeOK /\ StoreInvariant /\ [Next]_vars => [Contract!CNext]_Contract!contractVars
  BY StepImplements
<1> QED
  BY <1>1, <1>2, <1>3, PTL DEF Spec, ImplementsContract, Contract!Contract
====
