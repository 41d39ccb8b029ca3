---- MODULE StoreRefinement ----
(***************************************************************************)
(* MetadataStore implements LruContract.  A lookup takes effect when the   *)
(* lock is released after get or move_to_end, an admission when the key is *)
(* assigned, an invalidation when the entries are removed.                 *)
(***************************************************************************)
EXTENDS MetadataStore

\* The thread inside _admit after the assignment, if there is one: its
\* admission has taken effect although its bookkeeping goes on.
Admitting == {t \in Threads : pc[t] \in {"move", "evict"}}
Settled(d, t) == IF pc[t] = "move" THEN MoveToEnd(d, key[t]) ELSE d

AbsLru ==
    IF Admitting = {} THEN cache
    ELSE LET d == Settled(cache, CHOOSE t \in Admitting : TRUE)
         IN IF Len(d) > MaxEntries THEN SubSeq(d, Len(d) - MaxEntries + 1, Len(d)) ELSE d
AbsPhase ==
    [t \in Threads |->
        CASE pc[t] \in {"lookup", "get", "touch"} -> "asked"
          [] pc[t] \in {"idle", "move", "evict"}  -> "idle"
          [] OTHER                                -> "missed"]
AbsWant == [t \in Threads |-> IF t \in Admitting THEN None ELSE key[t]]
AbsOut == [t \in Threads |-> IF t \in Admitting THEN Parsed(meta[t]) ELSE ret[t]]

Contract == INSTANCE LruContract WITH
    Errors <- Errors \ {"key_error"},
    lru <- AbsLru,
    phase <- AbsPhase,
    want <- AbsWant,
    out <- AbsOut,
    asked <- lpc # "idle",
    target <- lkey,
    dropped <- reply

\* MetadataStore keeps the promise of an atomic, bounded LRU cache: every
\* concurrent execution of ensure_parsed and invalidate looks to its callers
\* like one in which each lookup, admission and invalidation is atomic and the
\* least recently queried entries are the ones evicted.
ImplementsContract == Contract!Contract
====
