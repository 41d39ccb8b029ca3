---- MODULE LruContract ----
(***************************************************************************)
(* What MetadataStore promises its callers: a bounded LRU cache whose      *)
(* lookups, admissions and invalidations each happen at one instant.       *)
(* There is no lock, no parse and no disk here: a caller that was told the *)
(* key is missing later admits some metadata for it, or fails.             *)
(***************************************************************************)
EXTENDS OrderedDict

CONSTANTS Threads, Keys, MaxEntries, Metas, Errors, NoMeta, None

VARIABLES
    lru,      \* the entries, least recently queried first
    phase,    \* "idle", "asked" or "missed", per thread
    want,     \* the key each thread asked for
    out,      \* the answer of each thread's latest call
    asked,    \* TRUE while an invalidation is due
    target,   \* its key, None for all
    dropped   \* what the latest invalidation reported

contractVars == <<lru, phase, want, out, asked, target, dropped>>
invalidation == <<asked, target, dropped>>

Answer(status, m) == [status |-> status, meta |-> m]
Unanswered == Answer("none", NoMeta)
Report(status, keys) == [status |-> status, keys |-> keys]

Trim_none(d) == d
\* Entries over the bound leave oldest first.
Trim(d) == IF Len(d) > MaxEntries THEN SubSeq(d, Len(d) - MaxEntries + 1, Len(d)) ELSE d
Without(d, k) == IF k \in KeysOf(d) THEN Delete(d, k) ELSE d
\* The cache in which k has just been queried and is known to be m.
Queried(d, k, m) == Append(Without(d, k), [key |-> k, meta |-> m])

CInit ==
    /\ lru = <<>>
    /\ phase = [t \in Threads |-> "idle"]
    /\ want = [t \in Threads |-> None]
    /\ out = [t \in Threads |-> Unanswered]
    /\ asked = FALSE /\ target = None
    /\ dropped = Report("none", <<>>)

Ask(t, k) ==
    /\ phase[t] = "idle"
    /\ phase' = [phase EXCEPT ![t] = "asked"]
    /\ want' = [want EXCEPT ![t] = k]
    /\ out' = [out EXCEPT ![t] = Unanswered]
    /\ UNCHANGED <<lru, invalidation>>

Reply(t, answer) ==
    /\ phase' = [phase EXCEPT ![t] = "idle"]
    /\ want' = [want EXCEPT ![t] = None]
    /\ out' = [out EXCEPT ![t] = answer]
    /\ UNCHANGED invalidation

Hit(t) ==
    /\ phase[t] = "asked"
    /\ want[t] \in KeysOf(lru)
    /\ lru' = Queried(lru, want[t], MetaOf(lru, want[t]))
    /\ Reply(t, Answer("ok", MetaOf(lru, want[t])))

Miss(t) ==
    /\ phase[t] = "asked"
    /\ want[t] \notin KeysOf(lru)
    /\ phase' = [phase EXCEPT ![t] = "missed"]
    /\ UNCHANGED <<lru, want, out, invalidation>>

Admit(t, m) ==
    /\ phase[t] = "missed"
    /\ lru' = Trim(Queried(lru, want[t], m))
    /\ Reply(t, Answer("ok", m))

GiveUp(t, e) ==
    /\ phase[t] = "missed"
    /\ Reply(t, Answer(e, NoMeta))
    /\ UNCHANGED lru

AskDrop(k) ==
    /\ ~asked
    /\ asked' = TRUE
    /\ target' = k
    /\ dropped' = Report("none", <<>>)
    /\ UNCHANGED <<lru, phase, want, out>>

Drop_oneOnly ==
    /\ asked
    /\ lru' = Without(lru, target)
    /\ dropped' = Report("ok", IF target \in KeysOf(lru) THEN <<target>> ELSE <<>>)
    /\ asked' = FALSE /\ target' = None
    /\ UNCHANGED <<phase, want, out>>

Drop ==
    /\ asked
    /\ lru' = IF target = None THEN <<>> ELSE Without(lru, target)
    /\ dropped' = Report("ok", IF target = None THEN [i \in DOMAIN lru |-> lru[i].key]
                               ELSE IF target \in KeysOf(lru) THEN <<target>> ELSE <<>>)
    /\ asked' = FALSE /\ target' = None
    /\ UNCHANGED <<phase, want, out>>

CNext ==
    \/ \E t \in Threads, k \in Keys : Ask(t, k)
    \/ \E t \in Threads : Hit(t) \/ Miss(t)
    \/ \E t \in Threads, m \in Metas : Admit(t, m)
    \/ \E t \in Threads, e \in Errors : GiveUp(t, e)
    \/ \E k \in Keys \cup {None} : AskDrop(k)
    \/ Drop

Contract == CInit /\ [][CNext]_contractVars
====
