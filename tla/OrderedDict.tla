---- MODULE OrderedDict ----
(***************************************************************************)
(* collections.OrderedDict, as far as store.py uses it: a sequence of      *)
(* entries [key, meta], the oldest first.  Each operator is one call the   *)
(* store makes; every call is atomic under the interpreter lock.           *)
(***************************************************************************)
EXTENDS Integers, SequencesExt

Entries(K, M) == [key : K, meta : M]

KeysOf(d) == {d[i].key : i \in DOMAIN d}
IndexOf(d, k) == CHOOSE i \in DOMAIN d : d[i].key = k

\* d.get(k), for a key that is there
MetaOf(d, k) == d[IndexOf(d, k)].meta

\* d.move_to_end(k)
MoveToEnd(d, k) == Append(RemoveAt(d, IndexOf(d, k)), d[IndexOf(d, k)])

\* d[k] = m : a key that is there keeps its place, a new one goes last
Assign(d, k, m) ==
    IF k \in KeysOf(d)
    THEN [d EXCEPT ![IndexOf(d, k)] = [key |-> k, meta |-> m]]
    ELSE Append(d, [key |-> k, meta |-> m])

\* del d[k]
Delete(d, k) == RemoveAt(d, IndexOf(d, k))

\* d.popitem(last=False)
PopOldest(d) == Tail(d)

\* The sequence stands for a dict: no key occurs twice.
UniqueKeys(d) == \A i, j \in DOMAIN d : d[i].key = d[j].key => i = j
====
