---- MODULE OrderedDict_proofs ----
(* What the operations of OrderedDict return and preserve. *)
EXTENDS OrderedDict, SequenceTheorems, TLAPS

\* The position CHOOSE picks is one at which the key is found.
LEMMA IndexOfKey ==
    ASSUME NEW d, NEW k \in KeysOf(d)
    PROVE  IndexOf(d, k) \in DOMAIN d /\ d[IndexOf(d, k)].key = k
<1>1. \E i \in DOMAIN d : d[i].key = k
  BY DEF KeysOf
<1> QED
  BY <1>1 DEF IndexOf

\* In a dict the metadata found for a key is that of its only entry.
LEMMA MetaOfOnlyEntry ==
    ASSUME NEW d, UniqueKeys(d), NEW i \in DOMAIN d
    PROVE  MetaOf(d, d[i].key) = d[i].meta
<1>1. d[i].key \in KeysOf(d)
  BY DEF KeysOf
<1>2. IndexOf(d, d[i].key) = i
  BY <1>1, IndexOfKey DEF UniqueKeys
<1> QED
  BY <1>2 DEF MetaOf

\* Removing one position shortens the sequence by one and shifts the rest.
LEMMA RemoveAtProperties ==
    ASSUME NEW S, NEW d \in Seq(S), NEW i \in 1..Len(d)
    PROVE  /\ RemoveAt(d, i) \in Seq(S)
           /\ Len(RemoveAt(d, i)) = Len(d) - 1
           /\ \A j \in 1..(Len(d) - 1) : RemoveAt(d, i)[j] = IF j < i THEN d[j] ELSE d[j + 1]
<1> DEFINE a == SubSeq(d, 1, i - 1)
           b == SubSeq(d, i + 1, Len(d))
<1>1. a \in Seq(S) /\ Len(a) = i - 1 /\ \A j \in 1..(i - 1) : a[j] = d[j]
  OBVIOUS
<1>2. b \in Seq(S) /\ Len(b) = Len(d) - i /\ \A j \in 1..(Len(d) - i) : b[j] = d[i + j]
  OBVIOUS
<1>3. RemoveAt(d, i) = a \o b
  BY DEF RemoveAt
<1> HIDE DEF a, b
<1>4. /\ a \o b \in Seq(S)
      /\ Len(a \o b) = Len(a) + Len(b)
      /\ \A j \in 1..(Len(a) + Len(b)) : (a \o b)[j] = IF j <= Len(a) THEN a[j] ELSE b[j - Len(a)]
  BY <1>1, <1>2, ConcatProperties
<1>5. ASSUME NEW j \in 1..(Len(d) - 1)
      PROVE  (a \o b)[j] = IF j < i THEN d[j] ELSE d[j + 1]
  <2>1. CASE j < i
    BY <1>1, <1>2, <1>4, <2>1
  <2>2. CASE ~(j < i)
    <3>1. (a \o b)[j] = b[j - (i - 1)]
      BY <1>1, <1>2, <1>4, <2>2
    <3>2. j - (i - 1) \in 1..(Len(d) - i)
      BY <2>2
    <3> QED
      BY <1>2, <2>2, <3>1, <3>2
  <2> QED
    BY <2>1, <2>2
<1> QED
  BY <1>1, <1>2, <1>3, <1>4, <1>5

\* del d[k] removes the entry of k and no other.
LEMMA DeleteProperties ==
    ASSUME NEW K, NEW M, NEW d \in Seq(Entries(K, M)), NEW k \in KeysOf(d)
    PROVE  /\ Delete(d, k) \in Seq(Entries(K, M))
           /\ Len(Delete(d, k)) = Len(d) - 1
           /\ KeysOf(d) \subseteq KeysOf(Delete(d, k)) \cup {k}
           /\ KeysOf(Delete(d, k)) \subseteq KeysOf(d)
           /\ UniqueKeys(d) => UniqueKeys(Delete(d, k)) /\ k \notin KeysOf(Delete(d, k))
<1> DEFINE i == IndexOf(d, k)
           e == Delete(d, k)
<1>1. i \in 1..Len(d) /\ d[i].key = k
  BY IndexOfKey
<1>2. /\ e \in Seq(Entries(K, M))
      /\ Len(e) = Len(d) - 1
      /\ \A j \in 1..(Len(d) - 1) : e[j] = IF j < i THEN d[j] ELSE d[j + 1]
  BY <1>1, RemoveAtProperties DEF Delete
<1> HIDE DEF i, e
<1>3. ASSUME NEW n \in 1..Len(d), n # i
      PROVE  \E j \in 1..(Len(d) - 1) : e[j] = d[n]
  <2>1. CASE n < i
    BY <1>1, <1>2, <2>1
  <2>2. CASE n > i
    <3>1. n - 1 \in 1..(Len(d) - 1) /\ ~(n - 1 < i) /\ (n - 1) + 1 = n
      BY <1>1, <2>2
    <3> QED
      BY <1>2, <3>1
  <2> QED
    BY <1>1, <1>3, <2>1, <2>2
<1>d. DOMAIN e = 1..(Len(d) - 1) /\ DOMAIN d = 1..Len(d)
  BY <1>2
<1>4. KeysOf(d) \subseteq KeysOf(e) \cup {k}
  <2>1. ASSUME NEW n \in DOMAIN d
        PROVE  d[n].key \in KeysOf(e) \cup {k}
    <3>1. CASE n = i
      BY <1>1, <3>1
    <3>2. CASE n # i
      <4>1. \E j \in DOMAIN e : e[j] = d[n]
        BY <1>3, <1>d, <3>2
      <4> QED
        BY <4>1 DEF KeysOf
    <3> QED
      BY <3>1, <3>2
  <2> QED
    BY <2>1 DEF KeysOf
<1>5. KeysOf(e) \subseteq KeysOf(d)
  <2>1. ASSUME NEW j \in 1..(Len(d) - 1)
        PROVE  \E n \in 1..Len(d) : e[j] = d[n]
    BY <1>1, <1>2
  <2>2. ASSUME NEW j \in DOMAIN e
        PROVE  e[j].key \in KeysOf(d)
    BY <1>d, <2>1 DEF KeysOf
  <2> QED
    BY <2>2 DEF KeysOf
<1>6. ASSUME UniqueKeys(d)
      PROVE  UniqueKeys(e) /\ k \notin KeysOf(e)
  <2>1. ASSUME NEW x \in 1..(Len(d) - 1), NEW y \in 1..(Len(d) - 1), e[x].key = e[y].key
        PROVE  x = y
    <3> DEFINE p == IF x < i THEN x ELSE x + 1
               q == IF y < i THEN y ELSE y + 1
    <3>1. e[x] = d[p] /\ e[y] = d[q] /\ p \in 1..Len(d) /\ q \in 1..Len(d)
      BY <1>1, <1>2
    <3>2. p = q
      BY <1>6, <2>1, <3>1 DEF UniqueKeys
    <3> QED
      BY <1>1, <3>2
  <2>2. ASSUME NEW x \in 1..(Len(d) - 1)
        PROVE  e[x].key # k
    <3> DEFINE p == IF x < i THEN x ELSE x + 1
    <3>1. e[x] = d[p] /\ p \in 1..Len(d) /\ p # i
      BY <1>1, <1>2
    <3> QED
      BY <1>1, <1>6, <3>1 DEF UniqueKeys
  <2> QED
    BY <1>2, <2>1, <2>2 DEF UniqueKeys, KeysOf
<1> QED
  BY <1>2, <1>4, <1>5, <1>6 DEF e

\* d.move_to_end(k) keeps every key, and puts the entry of k last.
LEMMA MoveToEndProperties ==
    ASSUME NEW K, NEW M, NEW d \in Seq(Entries(K, M)), NEW k \in KeysOf(d)
    PROVE  /\ MoveToEnd(d, k) \in Seq(Entries(K, M))
           /\ Len(MoveToEnd(d, k)) = Len(d)
           /\ MoveToEnd(d, k)[Len(d)] = d[IndexOf(d, k)]
           /\ KeysOf(MoveToEnd(d, k)) = KeysOf(d)
           /\ UniqueKeys(d) => UniqueKeys(MoveToEnd(d, k))
<1> DEFINE x == d[IndexOf(d, k)]
           r == Delete(d, k)
           e == MoveToEnd(d, k)
<1>1. IndexOf(d, k) \in 1..Len(d) /\ x.key = k /\ x \in Entries(K, M)
  BY IndexOfKey, ElementOfSeq
<1>2. /\ r \in Seq(Entries(K, M)) /\ Len(r) = Len(d) - 1
      /\ KeysOf(d) \subseteq KeysOf(r) \cup {k}
      /\ KeysOf(r) \subseteq KeysOf(d)
      /\ UniqueKeys(d) => UniqueKeys(r) /\ k \notin KeysOf(r)
  BY DeleteProperties
<1>3. e = Append(r, x)
  BY DEF MoveToEnd, Delete
<1> HIDE DEF x, r, e
<1>4. /\ e \in Seq(Entries(K, M)) /\ Len(e) = Len(d)
      /\ \A j \in 1..(Len(d) - 1) : e[j] = r[j]
      /\ e[Len(d)] = x
  BY <1>1, <1>2, <1>3, AppendProperties
<1>5. DOMAIN e = 1..Len(d) /\ DOMAIN r = 1..(Len(d) - 1) /\ Len(d) \in Nat \ {0}
  BY <1>1, <1>2, <1>4
<1>6. KeysOf(e) = KeysOf(r) \cup {k}
  <2>1. ASSUME NEW j \in 1..Len(d)
        PROVE  e[j].key \in KeysOf(r) \cup {k}
    BY <1>1, <1>4, <1>5 DEF KeysOf
  <2>2. ASSUME NEW j \in 1..(Len(d) - 1)
        PROVE  r[j].key \in KeysOf(e)
    <3>1. j \in DOMAIN e /\ e[j] = r[j]
      BY <1>4, <1>5
    <3> QED
      BY <3>1 DEF KeysOf
  <2>3. k \in KeysOf(e)
    <3>1. Len(d) \in DOMAIN e
      BY <1>5
    <3> QED
      BY <1>1, <1>4, <3>1 DEF KeysOf
  <2> QED
    BY <1>5, <2>1, <2>2, <2>3 DEF KeysOf
<1>7. ASSUME UniqueKeys(r), k \notin KeysOf(r)
      PROVE  UniqueKeys(e)
  <2>1. \A j \in 1..(Len(d) - 1) : e[j].key # k
    BY <1>4, <1>5, <1>7 DEF KeysOf
  <2>2. e[Len(d)].key = k
    BY <1>1, <1>4
  <2> QED
    BY <1>4, <1>5, <1>7, <2>1, <2>2 DEF UniqueKeys
<1>8. k \in KeysOf(d)
  OBVIOUS
<1> QED
  BY <1>2, <1>4, <1>6, <1>7, <1>8 DEF e, x

\* d[k] = m leaves k in the dict and adds at most one entry.
LEMMA AssignProperties ==
    ASSUME NEW K, NEW M, NEW d \in Seq(Entries(K, M)), NEW k \in K, NEW m \in M
    PROVE  /\ Assign(d, k, m) \in Seq(Entries(K, M))
           /\ Len(Assign(d, k, m)) <= Len(d) + 1
           /\ KeysOf(Assign(d, k, m)) = KeysOf(d) \cup {k}
           /\ \E i \in DOMAIN Assign(d, k, m) : Assign(d, k, m)[i] = [key |-> k, meta |-> m]
           /\ UniqueKeys(d) => UniqueKeys(Assign(d, k, m))
<1> DEFINE x == [key |-> k, meta |-> m]
           e == Assign(d, k, m)
<1>1. x \in Entries(K, M) /\ x.key = k
  BY DEF Entries
<1>2. CASE k \in KeysOf(d)
  <2> DEFINE i == IndexOf(d, k)
  <2>1. i \in 1..Len(d) /\ d[i].key = k
    BY <1>2, IndexOfKey
  <2>2. e = [d EXCEPT ![i] = x]
    BY <1>2 DEF Assign
  <2> HIDE DEF x, e, i
  <2>3. /\ e \in Seq(Entries(K, M)) /\ Len(e) = Len(d)
        /\ \A j \in 1..Len(d) : e[j] = IF j = i THEN x ELSE d[j]
    BY <1>1, <2>1, <2>2, ExceptSeq
  <2>4. \A j \in 1..Len(d) : e[j].key = d[j].key
    BY <1>1, <2>1, <2>3
  <2>5. DOMAIN e = 1..Len(d) /\ DOMAIN d = 1..Len(d)
    BY <2>3
  <2>6. KeysOf(e) = KeysOf(d)
    BY <2>4, <2>5 DEF KeysOf
  <2>7. UniqueKeys(d) => UniqueKeys(e)
    BY <2>4, <2>5 DEF UniqueKeys
  <2> QED
    BY <1>2, <2>1, <2>3, <2>5, <2>6, <2>7 DEF e, x
<1>3. CASE k \notin KeysOf(d)
  <2>1. e = Append(d, x)
    BY <1>3 DEF Assign
  <2> HIDE DEF x, e
  <2>2. /\ e \in Seq(Entries(K, M)) /\ Len(e) = Len(d) + 1
        /\ \A j \in 1..Len(d) : e[j] = d[j]
        /\ e[Len(d) + 1] = x
    BY <1>1, <2>1, AppendProperties
  <2>3. DOMAIN e = 1..(Len(d) + 1) /\ DOMAIN d = 1..Len(d) /\ Len(d) \in Nat
    BY <2>2
  <2>4. KeysOf(e) = KeysOf(d) \cup {k}
    <3>1. ASSUME NEW j \in 1..(Len(d) + 1)
          PROVE  e[j].key \in KeysOf(d) \cup {k}
      BY <1>1, <2>2, <2>3 DEF KeysOf
    <3>2. ASSUME NEW j \in 1..Len(d)
          PROVE  d[j].key \in KeysOf(e)
      <4>1. j \in DOMAIN e /\ e[j] = d[j]
        BY <2>2, <2>3
      <4> QED
        BY <4>1 DEF KeysOf
    <3>3. k \in KeysOf(e)
      <4>1. Len(d) + 1 \in DOMAIN e
        BY <2>3
      <4> QED
        BY <1>1, <2>2, <4>1 DEF KeysOf
    <3> QED
      BY <2>3, <3>1, <3>2, <3>3 DEF KeysOf
  <2>5. ASSUME UniqueKeys(d)
        PROVE  UniqueKeys(e)
    <3>1. \A j \in 1..Len(d) : d[j].key # k
      BY <1>3, <2>3 DEF KeysOf
    <3> QED
      BY <1>1, <2>2, <2>3, <2>5, <3>1 DEF UniqueKeys
  <2> QED
    BY <2>2, <2>3, <2>4, <2>5 DEF e, x
<1> QED
  BY <1>2, <1>3

\* d.popitem(last=False) removes one entry.
LEMMA PopOldestProperties ==
    ASSUME NEW K, NEW M, NEW d \in Seq(Entries(K, M)), Len(d) > 0
    PROVE  /\ PopOldest(d) \in Seq(Entries(K, M))
           /\ Len(PopOldest(d)) = Len(d) - 1
           /\ Len(d) > 1 => PopOldest(d)[Len(d) - 1] = d[Len(d)]
           /\ UniqueKeys(d) => UniqueKeys(PopOldest(d))
<1> DEFINE e == PopOldest(d)
<1>1. /\ e \in Seq(Entries(K, M)) /\ Len(e) = Len(d) - 1
      /\ \A j \in 1..Len(e) : e[j] = d[j + 1]
  BY HeadTailProperties DEF PopOldest
<1> HIDE DEF e
<1>2. ASSUME UniqueKeys(d)
      PROVE  UniqueKeys(e)
  <2>1. ASSUME NEW x \in 1..Len(e), NEW y \in 1..Len(e), e[x].key = e[y].key
        PROVE  x = y
    <3>1. x + 1 \in DOMAIN d /\ y + 1 \in DOMAIN d /\ d[x + 1].key = d[y + 1].key
      BY <1>1, <2>1
    <3>2. x + 1 = y + 1
      BY <1>2, <3>1 DEF UniqueKeys
    <3> QED
      BY <1>1, <3>2
  <2> QED
    BY <1>1, <2>1 DEF UniqueKeys
<1> QED
  BY <1>1, <1>2 DEF e
====
