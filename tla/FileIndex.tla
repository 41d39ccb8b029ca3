---- MODULE FileIndex ----
(***************************************************************************)
(* index.py: build_file_index names a schema for every *.qvw file of the   *)
(* directory.                                                              *)
(*                                                                         *)
(* A basename is a sequence of characters; Decimal[n] is how n is printed. *)
(* Files may be deleted while the index is built.                          *)
(***************************************************************************)
EXTENDS Integers, SequencesExt

CONSTANTS
    Basenames,  \* the basenames files may have
    Sorted,     \* Sorted[d]: the files d, in the order of their paths
    MaxFiles,   \* bound: files in a directory
    Letters, Digits,
    Unsafe,     \* characters outside [A-Za-z0-9_]
    Reserved,   \* _SQL_RESERVED, in every case
    Qvw,        \* the characters of "qvw"
    Decimal

Safe == Letters \cup Digits \cup {"_"}
Named(candidate, n) == IF n = 1 THEN candidate ELSE candidate \o <<"_">> \o Decimal[n]

ASSUME BasenamesAssumption ==
    /\ Basenames \subseteq Seq(Safe \cup Unsafe) \ {<<>>}
    /\ Sorted \in [SUBSET Basenames -> Seq(Basenames)]
    /\ \A d \in SUBSET Basenames :
        Len(Sorted[d]) <= MaxFiles /\ ToSet(Sorted[d]) = d /\ IsInjective(Sorted[d])
    /\ MaxFiles \in Nat
ASSUME CharactersAssumption ==
    /\ Unsafe \cap Safe = {} /\ Letters \cap Digits = {} /\ "_" \notin Letters \cup Digits
    /\ Qvw \in Seq(Letters) \ {<<>>}
ASSUME ReservedAssumption == Reserved \subseteq Seq(Letters)
ASSUME DecimalAssumption ==
    /\ Decimal \in [1..MaxFiles -> Seq(Digits) \ {<<>>}]
    /\ IsInjective(Decimal)

VARIABLES
    dir,        \* the basenames of the *.qvw files there are
    queue,      \* files globbed and not yet indexed
    used,       \* used_schema_names
    index,      \* the index so far
    listing     \* "glob", "building", "built", "failed"

indexVars == <<dir, queue, used, index, listing>>

----------------------------------------------------------------------------
(* sanitize_schema_name *)

Replaced(name) == [i \in DOMAIN name |-> IF name[i] \in Unsafe THEN "_" ELSE name[i]]

Prefixed_never(name) == name
Prefixed(name) == IF name[1] \in Digits THEN <<"_">> \o name ELSE name

Sanitized(name) ==
    LET safe == Prefixed(Replaced(name))
    IN IF safe \in Reserved THEN safe \o <<"_">> \o Qvw ELSE safe

----------------------------------------------------------------------------
(* build_file_index *)

FInit ==
    /\ dir \in SUBSET Basenames
    /\ queue = <<>> /\ used = [c \in {} |-> 0] /\ index = <<>>
    /\ listing = "glob"

Glob ==
    /\ listing = "glob"
    /\ queue' = Sorted[dir]
    /\ listing' = "building"
    /\ UNCHANGED <<dir, used, index>>

Times(candidate) == IF candidate \in DOMAIN used THEN used[candidate] ELSE 0

Add_uncounted ==
    LET name == Head(queue)
        candidate == Sanitized(name)
        n == Times(candidate) + 1
    IN /\ listing = "building" /\ queue # <<>> /\ name \in dir
       /\ used' = IF n = 1 THEN (candidate :> 1) @@ used ELSE used
       /\ index' = Append(index, [basename |-> name, count |-> n, schema |-> Named(candidate, n)])
       /\ queue' = Tail(queue)
       /\ UNCHANGED <<dir, listing>>

Add ==
    LET name == Head(queue)
        candidate == Sanitized(name)
        n == Times(candidate) + 1
    IN /\ listing = "building" /\ queue # <<>> /\ name \in dir
       /\ used' = [c \in DOMAIN used \cup {candidate} |-> IF c = candidate THEN n ELSE used[c]]
       /\ index' = Append(index, [basename |-> name, count |-> n, schema |-> Named(candidate, n)])
       /\ queue' = Tail(queue)
       /\ UNCHANGED <<dir, listing>>

\* stat raises
Vanished ==
    /\ listing = "building" /\ queue # <<>> /\ Head(queue) \notin dir
    /\ listing' = "failed"
    /\ UNCHANGED <<dir, queue, used, index>>

Built ==
    /\ listing = "building" /\ queue = <<>>
    /\ listing' = "built"
    /\ UNCHANGED <<dir, queue, used, index>>

\* Another program deletes a file.
Delete ==
    /\ listing = "building"
    /\ \E b \in dir : dir' = dir \ {b}
    /\ UNCHANGED <<queue, used, index, listing>>

FNext == Glob \/ Add \/ Vanished \/ Built \/ Delete
FSpec == FInit /\ [][FNext]_indexVars

----------------------------------------------------------------------------
Identifiers == {s \in Seq(Safe) : s # <<>> /\ s[1] \notin Digits /\ s \notin Reserved}

\* What sanitize_schema_name does, suffix included: every schema name is made
\* of letters, digits and underscores, begins with no digit and is no word of
\* _SQL_RESERVED.  That list is a subset of SQL's, as the code says, and so
\* this is not yet a name that SQL takes unquoted (all.qvw gives "all").
IndexTypeOK ==
    /\ dir \subseteq Basenames
    /\ ToSet(queue) \subseteq Basenames
    /\ listing \in {"glob", "building", "built", "failed"}
    /\ DOMAIN used \subseteq Identifiers
    /\ \A i \in DOMAIN index :
        index[i].basename \in Basenames /\ index[i].schema \in Identifiers

\* Two files share a schema name only when the suffix of one imitates the name
\* of the other: names that are sanitised alike are always told apart.
DistinctUnlessSuffixed ==
    \A i, j \in DOMAIN index :
        i # j /\ index[i].schema = index[j].schema =>
            /\ Sanitized(index[i].basename) # Sanitized(index[j].basename)
            /\ index[i].count > 1 \/ index[j].count > 1

\* index.py: "Schema names are deduplicated by appending _2, _3, ... when two
\* sanitised basenames collide."  Nothing keeps a suffixed name apart from the
\* sanitised name of a third file.
SchemaNamesDistinct ==
    \A i, j \in DOMAIN index : index[i].schema = index[j].schema => i = j
====
