---- MODULE MetadataStore ----
(***************************************************************************)
(* store.py: the metadata cache shared by the executor threads that run    *)
(* ensure_parsed and by the event loop, which calls invalidate.  Between   *)
(* any two steps another caller may run and another program may replace,   *)
(* delete or create a QVW or its -prj/LoadScript.txt.                      *)
(*                                                                         *)
(* A file's content is the stamp of the write that produced it and the     *)
(* outcome parsing it has; a -prj script is the stamp of its write, 0 when *)
(* there is none.                                                          *)
(***************************************************************************)
EXTENDS OrderedDict

CONSTANTS
    Threads,      \* executor threads that run ensure_parsed
    Keys,         \* resolved QVW paths
    MaxEntries,   \* max_entries
    Shapes,       \* the outcomes a file's content may have
    MaxStamp,     \* bound: writes to the disk
    None          \* no thread, no key

ASSUME MaxEntriesAssumption == MaxEntries \in Nat \ {0}
ASSUME MaxStampAssumption == MaxStamp \in Nat
ASSUME ShapesAssumption ==
    Shapes \subseteq {"ok", "big", "malformed", "short", "drifted", "absent"}
ASSUME NoneAssumption == None \notin Threads \cup Keys

Loop == "loop"    \* the event loop, as a holder of the lock
ASSUME LoopAssumption == Loop \notin Threads \cup {None}

Stamps == 0..MaxStamp
Metas == [body : Stamps, script : Stamps]
NoMeta == [body |-> 0, script |-> 0]
Errors == {"os_error", "too_large", "malformed", "value_error", "key_error"}
NoRaw == [stamp |-> 0, shape |-> "absent"]
Nothing == [status |-> "none", meta |-> NoMeta]
Parsed(m) == [status |-> "ok", meta |-> m]
Raised(e) == [status |-> e, meta |-> NoMeta]
NoReply == [status |-> "none", keys |-> <<>>]
Dropped(keys) == [status |-> "ok", keys |-> keys]
Answers == [status : Errors \cup {"ok", "none"}, meta : Metas]

VARIABLES
    disk,    \* [Keys -> [stamp, shape, prj]]: the QVW and its -prj script
    clock,   \* stamp of the latest write
    cache,   \* _cache, an OrderedDict
    lock,    \* holder of _lock
    pc,      \* where each thread is in ensure_parsed
    key,     \* the key each thread was called with
    raw,     \* the file content each thread has read
    meta,    \* what each thread has found in the cache or decoded
    ret,     \* the answer of each thread's latest call
    lpc,     \* where the event loop is in invalidate
    lkey,    \* the key invalidate was called with, None for all
    gone,    \* the keys the current invalidate has collected
    reply    \* the answer of the latest invalidate

envVars == <<disk, clock>>
threadVars == <<pc, key, raw, meta, ret>>
loopVars == <<lpc, lkey, gone, reply>>
vars == <<disk, clock, cache, lock, pc, key, raw, meta, ret, lpc, lkey, gone, reply>>

Labels == {"idle", "lookup", "get", "touch", "stat", "read", "is_prj",
           "read_prj", "decode", "admit", "assign", "move", "evict"}
LoopLabels == {"idle", "acquire", "test", "del", "keys", "clear"}
Held == {"get", "touch", "assign", "move", "evict"}
LoopHeld == {"test", "del", "keys", "clear"}

TypeOK ==
    /\ disk \in [Keys -> [stamp : Stamps, shape : Shapes, prj : Stamps]]
    /\ clock \in Stamps
    /\ cache \in Seq(Entries(Keys, Metas))
    /\ lock \in Threads \cup {Loop, None}
    /\ pc \in [Threads -> Labels]
    /\ key \in [Threads -> Keys \cup {None}]
    /\ \A t \in Threads : pc[t] # "idle" => key[t] \in Keys
    /\ raw \in [Threads -> [stamp : Stamps, shape : Shapes \cup {"absent"}]]
    /\ meta \in [Threads -> Metas]
    /\ ret \in [Threads -> Answers]
    /\ lpc \in LoopLabels
    /\ lkey \in Keys \cup {None}
    /\ lpc \in {"test", "del"} => lkey \in Keys
    /\ gone \in Seq(Keys)
    /\ reply \in [status : {"none", "ok", "key_error"}, keys : Seq(Keys)]

Init ==
    /\ disk \in [Keys -> [stamp : {0}, shape : Shapes, prj : {0}]]
    /\ clock = 0
    /\ cache = <<>>
    /\ lock = None
    /\ pc = [t \in Threads |-> "idle"]
    /\ key = [t \in Threads |-> None]
    /\ raw = [t \in Threads |-> NoRaw]
    /\ meta = [t \in Threads |-> NoMeta]
    /\ ret = [t \in Threads |-> Nothing]
    /\ lpc = "idle" /\ lkey = None
    /\ gone = <<>> /\ reply = NoReply

----------------------------------------------------------------------------
(* The environment: another program writes, deletes or creates a file. *)

WriteQvw(k) ==
    /\ clock < MaxStamp
    /\ clock' = clock + 1
    /\ \E s \in Shapes : disk' = [disk EXCEPT ![k].stamp = clock + 1, ![k].shape = s]
    /\ UNCHANGED <<cache, lock, threadVars, loopVars>>

WritePrj(k) ==
    /\ clock < MaxStamp
    /\ clock' = clock + 1
    /\ \E p \in {0, clock + 1} : disk[k].prj # p /\ disk' = [disk EXCEPT ![k].prj = p]
    /\ UNCHANGED <<cache, lock, threadVars, loopVars>>

----------------------------------------------------------------------------
(* ensure_parsed.  A call ends in Return, which clears the locals. *)

Go(t, here, there) == pc[t] = here /\ pc' = [pc EXCEPT ![t] = there]
Free_never == TRUE
Free == lock = None
Take(p) == Free /\ lock' = p
Release == lock' = None    \* a threading.Lock does not check who releases it

Return(t, answer) ==
    /\ pc' = [pc EXCEPT ![t] = "idle"]
    /\ key' = [key EXCEPT ![t] = None]
    /\ raw' = [raw EXCEPT ![t] = NoRaw]
    /\ meta' = [meta EXCEPT ![t] = NoMeta]
    /\ ret' = [ret EXCEPT ![t] = answer]

Call(t, k) ==
    /\ Go(t, "idle", "lookup")
    /\ key' = [key EXCEPT ![t] = k]
    /\ ret' = [ret EXCEPT ![t] = Nothing]
    /\ UNCHANGED <<envVars, cache, lock, raw, meta, loopVars>>

AcquireLookup(t) ==
    /\ Go(t, "lookup", "get")
    /\ Take(t)
    /\ UNCHANGED <<envVars, cache, key, raw, meta, ret, loopVars>>

GetHit(t) ==
    /\ Go(t, "get", "touch")
    /\ key[t] \in KeysOf(cache)
    /\ meta' = [meta EXCEPT ![t] = MetaOf(cache, key[t])]
    /\ UNCHANGED <<envVars, cache, lock, key, raw, ret, loopVars>>

GetMiss(t) ==
    /\ Go(t, "get", "stat")
    /\ key[t] \notin KeysOf(cache)
    /\ Release
    /\ UNCHANGED <<envVars, cache, key, raw, meta, ret, loopVars>>

Touch_noMove(t) ==
    /\ pc[t] = "touch"
    /\ Release
    /\ Return(t, Parsed(meta[t]))
    /\ UNCHANGED <<envVars, cache, loopVars>>

Touch(t) ==
    /\ pc[t] = "touch"
    /\ Release
    /\ IF key[t] \in KeysOf(cache)
       THEN /\ cache' = MoveToEnd(cache, key[t])
            /\ Return(t, Parsed(meta[t]))
       ELSE /\ Return(t, Raised("key_error"))
            /\ UNCHANGED cache
    /\ UNCHANGED <<envVars, loopVars>>

Fail(t, error) ==
    /\ Return(t, Raised(error))
    /\ UNCHANGED <<envVars, cache, lock, loopVars>>

Stat(t) ==
    /\ pc[t] = "stat"
    /\ CASE disk[key[t]].shape = "absent" -> Fail(t, "os_error")
         [] disk[key[t]].shape = "big"    -> Fail(t, "too_large")
         [] OTHER -> /\ Go(t, "stat", "read")
                     /\ UNCHANGED <<envVars, cache, lock, key, raw, meta, ret, loopVars>>

\* read_bytes, then parse_bytes and the block count, which touch nothing
\* shared.  A file that has outgrown the limit since Stat is read and parsed.
Read(t) ==
    LET file == disk[key[t]]
    IN /\ pc[t] = "read"
       /\ CASE file.shape = "absent"    -> Fail(t, "os_error")
            [] file.shape = "malformed" -> Fail(t, "malformed")
            [] file.shape = "short"     -> Fail(t, "value_error")
            [] OTHER ->
                 /\ Go(t, "read", "is_prj")
                 /\ raw' = [raw EXCEPT ![t] = [stamp |-> file.stamp, shape |-> file.shape]]
                 /\ UNCHANGED <<envVars, cache, lock, key, meta, ret, loopVars>>

\* try_prj: is_dir and is_file, then read_bytes
IsPrj(t) ==
    /\ Go(t, "is_prj", IF disk[key[t]].prj = 0 THEN "decode" ELSE "read_prj")
    /\ meta' = [meta EXCEPT ![t].body = raw[t].stamp]
    /\ UNCHANGED <<envVars, cache, lock, key, raw, ret, loopVars>>

ReadPrj(t) ==
    /\ pc[t] = "read_prj"
    /\ IF disk[key[t]].prj = 0
       THEN Fail(t, "os_error")
       ELSE /\ Go(t, "read_prj", "decode")
            /\ meta' = [meta EXCEPT ![t].script = disk[key[t]].prj]
            /\ UNCHANGED <<envVars, cache, lock, key, raw, ret, loopVars>>

Decode(t) ==
    /\ pc[t] = "decode"
    /\ IF raw[t].shape = "drifted"
       THEN Fail(t, "value_error")
       ELSE /\ Go(t, "decode", "admit")
            /\ UNCHANGED <<envVars, cache, lock, key, raw, meta, ret, loopVars>>

AcquireAdmit_unguarded(t) ==
    /\ Go(t, "admit", "assign")
    /\ UNCHANGED <<envVars, cache, lock, key, raw, meta, ret, loopVars>>

AcquireAdmit(t) ==
    /\ Go(t, "admit", "assign")
    /\ Take(t)
    /\ UNCHANGED <<envVars, cache, key, raw, meta, ret, loopVars>>

Store(t) ==
    /\ Go(t, "assign", "move")
    /\ cache' = Assign(cache, key[t], meta[t])
    /\ UNCHANGED <<envVars, lock, key, raw, meta, ret, loopVars>>

Move(t) ==
    /\ pc[t] = "move"
    /\ IF key[t] \in KeysOf(cache)
       THEN /\ Go(t, "move", "evict")
            /\ cache' = MoveToEnd(cache, key[t])
            /\ UNCHANGED <<envVars, lock, key, raw, meta, ret, loopVars>>
       ELSE /\ Release
            /\ Return(t, Raised("key_error"))
            /\ UNCHANGED <<envVars, cache, loopVars>>

OverCapacity_byOne == Len(cache) > MaxEntries + 1
OverCapacity == Len(cache) > MaxEntries

Evict_newest(t) ==
    /\ pc[t] = "evict"
    /\ OverCapacity
    /\ cache' = Front(cache)
    /\ UNCHANGED <<envVars, lock, threadVars, loopVars>>

Evict_rotates(t) ==
    /\ pc[t] = "evict"
    /\ OverCapacity
    /\ cache' = MoveToEnd(cache, Head(cache).key)
    /\ UNCHANGED <<envVars, lock, threadVars, loopVars>>

Evict(t) ==
    /\ pc[t] = "evict"
    /\ OverCapacity
    /\ cache' = PopOldest(cache)
    /\ UNCHANGED <<envVars, lock, threadVars, loopVars>>

Admitted(t) ==
    /\ pc[t] = "evict"
    /\ ~OverCapacity
    /\ Release
    /\ Return(t, Parsed(meta[t]))
    /\ UNCHANGED <<envVars, cache, loopVars>>

ThreadStep(t) ==
    \/ AcquireLookup(t) \/ GetHit(t) \/ GetMiss(t) \/ Touch(t)
    \/ Stat(t) \/ Read(t) \/ IsPrj(t) \/ ReadPrj(t) \/ Decode(t)
    \/ AcquireAdmit(t) \/ Store(t) \/ Move(t) \/ Evict(t) \/ Admitted(t)

----------------------------------------------------------------------------
(* invalidate, for one key or (None) for all.  *)

LGo(here, there) == lpc = here /\ lpc' = there

LReturn(answer) ==
    /\ lpc' = "idle"
    /\ lkey' = None
    /\ gone' = <<>>
    /\ reply' = answer

Invalidate(k) ==
    /\ LGo("idle", "acquire")
    /\ lkey' = k
    /\ reply' = NoReply
    /\ UNCHANGED <<envVars, cache, lock, threadVars, gone>>

LAcquire_unguarded ==
    /\ LGo("acquire", IF lkey = None THEN "keys" ELSE "test")
    /\ UNCHANGED <<envVars, cache, lock, threadVars, lkey, gone, reply>>

LAcquire ==
    /\ LGo("acquire", IF lkey = None THEN "keys" ELSE "test")
    /\ Take(Loop)
    /\ UNCHANGED <<envVars, cache, threadVars, lkey, gone, reply>>

LKeys_items ==
    /\ LGo("keys", "clear")
    /\ gone' = cache
    /\ UNCHANGED <<envVars, cache, lock, threadVars, lkey, reply>>

LKeys ==
    /\ LGo("keys", "clear")
    /\ gone' = [i \in DOMAIN cache |-> cache[i].key]
    /\ UNCHANGED <<envVars, cache, lock, threadVars, lkey, reply>>

LClear ==
    /\ lpc = "clear"
    /\ Release
    /\ cache' = <<>>
    /\ LReturn(Dropped(gone))
    /\ UNCHANGED <<envVars, threadVars>>

LAbsent ==
    /\ lpc = "test"
    /\ lkey \notin KeysOf(cache)
    /\ Release
    /\ LReturn(Dropped(<<>>))
    /\ UNCHANGED <<envVars, cache, threadVars>>

LFound ==
    /\ LGo("test", "del")
    /\ lkey \in KeysOf(cache)
    /\ gone' = <<lkey>>
    /\ UNCHANGED <<envVars, cache, lock, threadVars, lkey, reply>>

LDel_keeps ==
    /\ lpc = "del"
    /\ Release
    /\ LReturn(Dropped(gone))
    /\ UNCHANGED <<envVars, cache, threadVars>>

LDel ==
    /\ lpc = "del"
    /\ Release
    /\ IF lkey \in KeysOf(cache)
       THEN /\ cache' = Delete(cache, lkey)
            /\ LReturn(Dropped(gone))
       ELSE /\ LReturn([status |-> "key_error", keys |-> <<>>])
            /\ UNCHANGED cache
    /\ UNCHANGED <<envVars, threadVars>>

LoopStep == LAcquire \/ LKeys \/ LClear \/ LAbsent \/ LFound \/ LDel

----------------------------------------------------------------------------
Arrival ==
    \/ \E t \in Threads, k \in Keys : Call(t, k)
    \/ \E k \in Keys \cup {None} : Invalidate(k)
Environment == \E k \in Keys : WriteQvw(k) \/ WritePrj(k)

Next ==
    \/ Arrival
    \/ Environment
    \/ \E t \in Threads : ThreadStep(t)
    \/ LoopStep

Spec == Init /\ [][Next]_vars

\* Threads and the loop keep running; nothing makes a client ask or another
\* program write.
FairSpec == Spec /\ (\A t \in Threads : WF_vars(ThreadStep(t))) /\ WF_vars(LoopStep)

----------------------------------------------------------------------------
\* The lock is held exactly inside the three critical sections of store.py:
\* nobody holds it while stat, read or parse run, and no two callers are in
\* the _cache code at once.
LockDiscipline ==
    /\ \A t \in Threads : lock = t <=> pc[t] \in Held
    /\ lock = Loop <=> lpc \in LoopHeld

\* move_to_end and del never meet a key that another caller has just removed:
\* no call ends in KeyError.  (The client would be told that the file does not
\* parse, and of a reload that an argument is missing.)
NoKeyError ==
    /\ \A t \in Threads : ret[t].status # "key_error"
    /\ reply.status # "key_error"

\* Concurrent misses never leave more than max_entries entries behind: outside
\* the critical sections the cache is within its bound, inside _admit it is at
\* most one over, and no path is cached twice.
Bounded ==
    /\ Len(cache) <= MaxEntries + 1
    /\ Len(cache) > MaxEntries => \E t \in Threads : pc[t] \in {"move", "evict"}
    /\ UniqueKeys(cache)

\* What a caller relies on between two steps of its critical section: the
\* entry it found or stored is still there, and the keys it collected are
\* still those it will remove.
CriticalFacts ==
    /\ \A t \in Threads :
        /\ pc[t] \in {"touch", "move"} => key[t] \in KeysOf(cache)
        /\ pc[t] \in {"touch", "move"} => MetaOf(cache, key[t]) = meta[t]
        /\ pc[t] = "evict" => /\ cache # <<>>
                              /\ cache[Len(cache)] = [key |-> key[t], meta |-> meta[t]]
    /\ lpc = "del" => lkey \in KeysOf(cache) /\ gone = <<lkey>>
    /\ lpc = "keys" => lkey = None
    /\ lpc = "clear" => lkey = None /\ gone = [i \in DOMAIN cache |-> cache[i].key]

\* The inductive invariant
StoreInvariant == LockDiscipline /\ NoKeyError /\ Bounded /\ CriticalFacts

\* ReloadResult.invalidated is exactly what this invalidate took out of the
\* cache, whatever lookups and admissions ran around it, and nothing it was
\* asked to drop is left behind.
InvalidateReportsWhatItDropped ==
    [][lpc # "idle" /\ lpc' = "idle" =>
        /\ ToSet(reply'.keys) = KeysOf(cache) \ KeysOf(cache')
        /\ KeysOf(cache') = IF lkey = None THEN {} ELSE KeysOf(cache) \ {lkey}]_vars

\* The entry a call admits is never the one evicted to make room for it: it is
\* the most recently queried one when the call returns, whatever was cached.
AdmittedStays ==
    [][\A t \in Threads : pc[t] = "evict" /\ pc'[t] = "idle" =>
        cache'[Len(cache')] = [key |-> key[t], meta |-> meta[t]]]_vars

\* Once clients stop asking, every call under way ends: nobody waits for the
\* lock forever, and the eviction loop terminates.
CallsReturn ==
    (<>[][~Arrival]_vars) => <>[](lpc = "idle" /\ \A t \in Threads : pc[t] = "idle")
====
