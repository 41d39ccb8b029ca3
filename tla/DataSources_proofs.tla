---- MODULE DataSources_proofs ----
(***************************************************************************)
(* Theorems about DataSources, for any load scripts.  SearchState is the   *)
(* inductive invariant: what has been searched so far is accounted for,    *)
(* and a search never goes on in the middle of a line that it has taken.   *)
(***************************************************************************)
EXTENDS DataSources, SequenceTheorems, WellFoundedInduction, TLAPS

LEMMA SmallestOf ==
    ASSUME NEW S \in SUBSET Nat, S # {}
    PROVE  Min(S) \in S /\ \A y \in S : Min(S) <= y
<1> DEFINE R == OpToRel(<, Nat)
<1>1. IsWellFoundedOn(R, Nat)
  BY NatLessThanWellFounded
<1>2. PICK x \in S : \A y \in S : <<y, x>> \notin R
  BY <1>1, WFMin, Zenon
<1>3. \A y \in S : x <= y
  <2> TAKE y \in S
  <2>1. x \in Nat /\ y \in Nat
    OBVIOUS
  <2>2. ~(y < x)
    BY <1>2, <2>1 DEF OpToRel
  <2> QED
    BY <2>1, <2>2
<1> QED
  BY <1>2, <1>3 DEF Min

LEMMA LargestOf ==
    ASSUME NEW n \in Nat, NEW S \in SUBSET (0..n), S # {}
    PROVE  Max(S) \in S /\ \A y \in S : y <= Max(S)
<1> DEFINE D == {k \in 0..n : n - k \in S}
<1>1. D \in SUBSET Nat /\ D # {}
  <2>1. PICK x \in S : TRUE
    OBVIOUS
  <2>2. n - x \in 0..n /\ n - (n - x) = x
    OBVIOUS
  <2>3. n - x \in D
    BY <2>2
  <2>4. 0..n \subseteq Nat
    OBVIOUS
  <2>5. D \subseteq Nat
    BY <2>4
  <2>6. D # {}
    <3> HIDE DEF D
    <3> QED
      BY <2>3
  <2> QED
    BY <2>5, <2>6
<1>2. PICK k \in D : \A j \in D : k <= j
  <2> HIDE DEF D
  <2>1. Min(D) \in D /\ \A j \in D : Min(D) <= j
    BY <1>1, SmallestOf
  <2> QED
    BY <2>1
<1>3. n - k \in S /\ \A y \in S : y <= n - k
  <2>1. n - k \in S
    OBVIOUS
  <2>2. ASSUME NEW y \in S PROVE y <= n - k
    <3>1. n - y \in 0..n /\ n - (n - y) = y
      OBVIOUS
    <3>2. k <= n - y
      BY <3>1, <1>2
    <3> QED
      BY <3>2
  <2> QED
    BY <2>1, <2>2
<1> QED
  BY <1>3 DEF Max

----------------------------------------------------------------------------
AllMatches(s) == {MatchAt(s, i, k) : i \in DOMAIN s.stmts, k \in ToSet(Passes)}
Searching == Passes[pass]

StateTypes ==
    /\ load \in Scripts
    /\ pass \in 1..Len(Passes) /\ from \in Nat \ {0}
    /\ sources \in Seq(AllMatches(load))

\* What a greedy pattern took of a line it took to the line's end.
LinesTaken ==
    Searching \in Greedy =>
        \A i, j \in DOMAIN load.stmts :
            i < from /\ from <= j /\ LineOf(load, i) = LineOf(load, j) => ~Starts(load, i, Searching)

\* Every entry is the first mention of its source, in a part already searched,
\* and every mention in such a part has its entry.
Past(i, kind) ==
    \E p \in 1..pass : Passes[p] = kind /\ (p = pass => i < from)
Accounted ==
    /\ \A m \in ToSet(sources) : \E i \in DOMAIN load.stmts : FirstMention(m, i) /\ Past(i, m.kind)
    /\ \A k \in ToSet(Passes) : \A i \in Mentions(load, k) : Past(i, k) => Known(MatchAt(load, i, k))

Ordered ==
    /\ \A i, j \in DOMAIN sources : i # j => ~Same(sources[i], sources[j])
    /\ \A i, j \in DOMAIN sources :
        i < j /\ sources[i].kind = sources[j].kind => sources[i].line <= sources[j].line

SearchState == StateTypes /\ LinesTaken /\ Accounted /\ Ordered

LEMMA ThePasses ==
    /\ Len(Passes) = 4 /\ ToSet(Passes) = {"lib", "odbc", "oledb", "file"}
    /\ \A p \in 1..4 : Passes[p] \in ToSet(Passes)
    /\ \A p, q \in 1..4 : Passes[p] = Passes[q] => p = q
<1>1. /\ Len(Passes) = 4 /\ DOMAIN Passes = 1..4
      /\ Passes[1] = "lib" /\ Passes[2] = "odbc" /\ Passes[3] = "oledb" /\ Passes[4] = "file"
  BY DEF Passes
<1>2. \A p \in 1..4 : p = 1 \/ p = 2 \/ p = 3 \/ p = 4
  OBVIOUS
<1>3. ToSet(Passes) = {"lib", "odbc", "oledb", "file"}
  BY <1>1, <1>2 DEF ToSet
<1> QED
  BY <1>1, <1>2, <1>3

LEMMA ScriptTypes ==
    ASSUME NEW s \in Scripts
    PROVE  /\ Len(s.stmts) \in Nat /\ DOMAIN s.stmts = 1..Len(s.stmts)
           /\ \A i \in DOMAIN s.stmts : LineOf(s, i) \in Nat
           /\ \A i, j \in DOMAIN s.stmts : i <= j => LineOf(s, i) <= LineOf(s, j)
<1>1. s.stmts \in Seq([kind : Kinds, name : Origins, line : Nat])
  BY ScriptsAssumption
<1>2. \A i, j \in DOMAIN s.stmts : i < j => LineOf(s, i) <= LineOf(s, j)
  BY ScriptsAssumption DEF LineOf
<1>3. Len(s.stmts) \in Nat /\ DOMAIN s.stmts = 1..Len(s.stmts)
  BY <1>1
<1>4. ASSUME NEW i \in DOMAIN s.stmts
      PROVE  LineOf(s, i) \in Nat
  <2>1. s.stmts[i] \in [kind : Kinds, name : Origins, line : Nat]
    BY <1>1, <1>3, ElementOfSeq
  <2> QED
    BY <2>1 DEF LineOf
<1>5. ASSUME NEW i \in DOMAIN s.stmts, NEW j \in DOMAIN s.stmts, i <= j
      PROVE  LineOf(s, i) <= LineOf(s, j)
  <2>1. CASE i = j
    BY <1>4, <2>1
  <2>2. CASE i # j
    BY <1>2, <1>3, <1>5, <2>2
  <2> QED
    BY <2>1, <2>2
<1> QED
  BY <1>3, <1>4, <1>5

\* A match ends where it starts or, if it is greedy, with its line.
LEMMA EndOfMatch ==
    ASSUME NEW s \in Scripts, NEW i \in DOMAIN s.stmts, NEW k
    PROVE  /\ MatchEnd(s, i, k) \in Nat /\ i <= MatchEnd(s, i, k)
           /\ k \notin Greedy => MatchEnd(s, i, k) = i
           /\ k \in Greedy =>
                \A j \in DOMAIN s.stmts :
                    /\ i <= j /\ j <= MatchEnd(s, i, k) => LineOf(s, j) = LineOf(s, i)
                    /\ MatchEnd(s, i, k) < j => LineOf(s, j) # LineOf(s, i)
<1>a. Len(s.stmts) \in Nat /\ DOMAIN s.stmts = 1..Len(s.stmts)
  BY ScriptTypes
<1>1. CASE k \notin Greedy
  BY <1>a, <1>1 DEF MatchEnd
<1>2. CASE k \in Greedy
  <2> DEFINE R == {j \in DOMAIN s.stmts : j >= i /\ LineOf(s, j) = LineOf(s, i)}
             e == MatchEnd(s, i, k)
  <2>1. e = Max(R)
    BY <1>2 DEF MatchEnd
  <2>2. R \in SUBSET (0..Len(s.stmts)) /\ i \in R
    BY <1>a
  <2>3. e \in R /\ \A j \in R : j <= e
    <3> HIDE DEF R, e
    <3>1. R # {}
      BY <2>2
    <3> QED
      BY <1>a, <2>1, <2>2, <3>1, LargestOf
  <2>4. e \in DOMAIN s.stmts /\ i <= e /\ LineOf(s, e) = LineOf(s, i)
    BY <1>a, <2>3
  <2> HIDE DEF e
  <2>5. ASSUME NEW j \in DOMAIN s.stmts, i <= j, j <= e
        PROVE  LineOf(s, j) = LineOf(s, i)
    <3>1. /\ LineOf(s, i) <= LineOf(s, j) /\ LineOf(s, j) <= LineOf(s, e)
          /\ LineOf(s, i) \in Nat /\ LineOf(s, j) \in Nat
      BY <2>4, <2>5, ScriptTypes
    <3> QED
      BY <2>4, <3>1
  <2>6. ASSUME NEW j \in DOMAIN s.stmts, e < j
        PROVE  LineOf(s, j) # LineOf(s, i)
    BY <1>a, <2>3, <2>4, <2>6
  <2> QED
    BY <1>2, <1>a, <2>4, <2>5, <2>6 DEF e
<1> QED
  BY <1>1, <1>2

LEMMA InitSearch == SInit => SearchState
<1> SUFFICES ASSUME SInit PROVE SearchState
  OBVIOUS
<1>1. load \in Scripts /\ pass = 1 /\ from = 1 /\ sources = <<>>
  BY DEF SInit
<1>2. DOMAIN load.stmts \subseteq Nat \ {0}
  BY <1>1, ScriptTypes
<1>3. StateTypes
  BY <1>1, ThePasses DEF StateTypes
<1>4. LinesTaken
  BY <1>1, <1>2 DEF LinesTaken
<1>5. Accounted
  <2>1. ToSet(sources) = {}
    BY <1>1 DEF ToSet
  <2>2. \A i \in DOMAIN load.stmts : \A k : ~Past(i, k)
    BY <1>1, <1>2 DEF Past
  <2> QED
    BY <2>1, <2>2 DEF Accounted, Mentions
<1>6. Ordered
  BY <1>1 DEF Ordered
<1> QED
  BY <1>3, <1>4, <1>5, <1>6 DEF SearchState

\* When nothing is ahead every mention of the kind is in the part searched.
LEMMA NextPassStep ==
    ASSUME SearchState, NextPass
    PROVE  SearchState'
<1>a. StateTypes /\ LinesTaken /\ Accounted /\ Ordered
  BY DEF SearchState
<1>b. /\ Ahead = {} /\ pass < 4 /\ pass' = pass + 1 /\ from' = 1
      /\ load' = load /\ sources' = sources
  BY ThePasses DEF NextPass
<1>c. load \in Scripts /\ pass \in 1..4 /\ from \in Nat \ {0} /\ DOMAIN load.stmts \subseteq Nat \ {0}
  BY <1>a, ThePasses, ScriptTypes DEF StateTypes
<1>1. StateTypes'
  BY <1>a, <1>b, <1>c, ThePasses DEF StateTypes
<1>2. LinesTaken'
  BY <1>b, <1>c DEF LinesTaken
<1>3. Ordered'
  BY <1>a, <1>b DEF Ordered
<1>4. ASSUME NEW i \in DOMAIN load.stmts, NEW k, Past(i, k)
      PROVE  Past(i, k)'
  <2>1. PICK p \in 1..pass : Passes[p] = k
    BY <1>4 DEF Past
  <2>2. p \in 1..pass + 1 /\ p # pass + 1
    BY <1>c, <2>1
  <2> QED
    BY <1>b, <2>1, <2>2 DEF Past
<1>5. ASSUME NEW k, NEW i \in Mentions(load, k), Past(i, k)'
      PROVE  Past(i, k)
  <2>1. i \in DOMAIN load.stmts /\ Starts(load, i, k) /\ i \in Nat \ {0}
    BY <1>c DEF Mentions
  <2>2. PICK p \in 1..pass + 1 : Passes[p] = k /\ (p = pass + 1 => i < 1)
    BY <1>b, <1>5 DEF Past
  <2>3. p \in 1..pass
    BY <1>c, <2>1, <2>2
  <2>4. p = pass => i < from
    <3>1. SUFFICES ASSUME p = pass, from <= i PROVE FALSE
      BY <1>c, <2>1
    <3>2. i \in Ahead
      BY <2>1, <2>2, <3>1 DEF Ahead
    <3> QED
      BY <1>b, <3>2
  <2> QED
    BY <2>2, <2>3, <2>4 DEF Past
<1>6. Accounted'
  <2>1. ASSUME NEW m \in ToSet(sources)
        PROVE  \E i \in DOMAIN load.stmts : FirstMention(m, i)' /\ Past(i, m.kind)'
    <3>1. PICK i \in DOMAIN load.stmts : FirstMention(m, i) /\ Past(i, m.kind)
      BY <1>a DEF Accounted
    <3>2. FirstMention(m, i)'
      BY <1>b, <3>1 DEF FirstMention
    <3>3. Past(i, m.kind)'
      BY <1>4, <3>1
    <3> QED
      BY <3>2, <3>3
  <2>2. ASSUME NEW k \in ToSet(Passes), NEW i \in Mentions(load, k), Past(i, k)'
        PROVE  Known(MatchAt(load, i, k))
    BY <1>5, <1>a, <2>2 DEF Accounted
  <2> QED
    BY <1>b, <2>1, <2>2 DEF Accounted, Known
<1> QED
  BY <1>1, <1>2, <1>3, <1>6 DEF SearchState

\* What a search that goes on at from finds first, and what its match takes
LEMMA NextMatch ==
    ASSUME SearchState, Ahead # {},
           NEW i, i = Min(Ahead), NEW e, e = MatchEnd(load, i, Searching)
    PROVE  /\ i \in Mentions(load, Searching) /\ from <= i /\ i <= e /\ e \in Nat
           /\ \A j \in Mentions(load, Searching) : from <= j /\ j <= e => j = i
           /\ \A j \in DOMAIN load.stmts : from <= j /\ j < i => ~Starts(load, j, Searching)
<1>a. LinesTaken /\ load \in Scripts /\ from \in Nat \ {0}
  BY DEF SearchState, StateTypes
<1>b. DOMAIN load.stmts \subseteq Nat \ {0}
  BY <1>a, ScriptTypes
<1>1. i \in Ahead /\ \A j \in Ahead : i <= j
  <2>1. Ahead \in SUBSET Nat
    BY <1>b DEF Ahead
  <2> QED
    BY <2>1, SmallestOf
<1>2. i \in DOMAIN load.stmts /\ i \in Nat /\ from <= i /\ Starts(load, i, Searching)
  BY <1>1, <1>b DEF Ahead, Searching
<1>3. \A j \in DOMAIN load.stmts : from <= j /\ j < i => ~Starts(load, j, Searching)
  <2> SUFFICES ASSUME NEW j \in DOMAIN load.stmts, from <= j, j < i, Starts(load, j, Searching)
               PROVE  FALSE
    OBVIOUS
  <2>1. j \in Ahead
    BY DEF Ahead, Searching
  <2>2. i <= j /\ j \in Nat
    BY <1>1, <1>b, <2>1
  <2> QED
    BY <1>2, <2>2
<1>4. /\ e \in Nat /\ i <= e /\ (Searching \notin Greedy => e = i)
      /\ Searching \in Greedy =>
            \A j \in DOMAIN load.stmts : i <= j /\ j <= e => LineOf(load, j) = LineOf(load, i)
  BY <1>a, <1>2, EndOfMatch
<1>5. i \in Mentions(load, Searching)
  <2>1. ASSUME Searching \in Greedy, NEW j \in DOMAIN load.stmts, j < i,
               LineOf(load, j) = LineOf(load, i)
        PROVE  ~Starts(load, j, Searching)
    <3>1. CASE from <= j
      BY <1>3, <2>1, <3>1
    <3>2. CASE j < from
      BY <1>a, <1>2, <2>1, <3>2 DEF LinesTaken
    <3> QED
      BY <1>a, <1>b, <3>1, <3>2
  <2> QED
    BY <1>2, <2>1 DEF Mentions
<1>6. ASSUME NEW j \in Mentions(load, Searching), from <= j, j <= e, j # i
      PROVE  FALSE
  <2>1. j \in DOMAIN load.stmts /\ j \in Nat /\ Starts(load, j, Searching)
    BY <1>b DEF Mentions
  <2>2. i < j
    BY <1>2, <1>3, <1>6, <2>1
  <2>3. Searching \in Greedy
    BY <1>2, <1>4, <1>6, <2>1, <2>2
  <2>4. LineOf(load, j) = LineOf(load, i)
    BY <1>4, <1>6, <2>1, <2>2, <2>3, <1>2
  <2> QED
    BY <1>2, <2>2, <2>3, <2>4 DEF Mentions
<1> QED
  BY <1>2, <1>3, <1>4, <1>5, <1>6

\* The match of the next place is taken into account, and nothing else.
LEMMA AddStep ==
    ASSUME SearchState, Add
    PROVE  SearchState'
<1>k. PICK kind : kind = Searching
  OBVIOUS
<1>i. PICK i : i = Min(Ahead)
  OBVIOUS
<1>f. PICK e : e = MatchEnd(load, i, kind)
  OBVIOUS
<1>m. PICK m : m = MatchAt(load, i, kind)
  OBVIOUS
<1>a. StateTypes /\ LinesTaken /\ Accounted /\ Ordered
  BY DEF SearchState
<1>b. /\ Ahead # {} /\ from' = e + 1 /\ load' = load /\ pass' = pass
      /\ sources' = IF Known(m) THEN sources ELSE Append(sources, m)
  BY <1>k, <1>i, <1>f, <1>m DEF Add, Searching
<1>c. load \in Scripts /\ pass \in 1..4 /\ from \in Nat \ {0} /\ sources \in Seq(AllMatches(load))
  BY <1>a, ThePasses DEF StateTypes
<1>d. DOMAIN load.stmts \subseteq Nat \ {0}
  BY <1>c, ScriptTypes
<1>e. kind \in ToSet(Passes) /\ Passes[pass] = kind /\ Searching' = kind
  BY <1>b, <1>c, <1>k, ThePasses DEF Searching
<1>1. /\ i \in Mentions(load, kind) /\ from <= i /\ i <= e /\ e \in Nat
      /\ \A j \in Mentions(load, kind) : from <= j /\ j <= e => j = i
      /\ \A j \in DOMAIN load.stmts : from <= j /\ j < i => ~Starts(load, j, kind)
  BY <1>b, <1>k, <1>i, <1>f, NextMatch
<1>2. i \in DOMAIN load.stmts /\ i \in Nat \ {0}
  BY <1>1, <1>d DEF Mentions
<1>3. \A j \in DOMAIN load.stmts :
        kind \in Greedy =>
            /\ i <= j /\ j <= e => LineOf(load, j) = LineOf(load, i)
            /\ e < j => LineOf(load, j) # LineOf(load, i)
  BY <1>c, <1>f, <1>2, EndOfMatch
<1>4. m \in AllMatches(load) /\ m.kind = kind /\ m.line = LineOf(load, i)
  <2>1. m \in AllMatches(load)
    BY <1>2, <1>e, <1>m DEF AllMatches
  <2> QED
    BY <1>m, <2>1 DEF MatchAt
<1>5. StateTypes'
  <2>1. sources' \in Seq(AllMatches(load))
    BY <1>b, <1>c, <1>4
  <2> QED
    BY <1>a, <1>b, <1>1, <1>2, <2>1 DEF StateTypes
<1>6. LinesTaken'
  <2> SUFFICES ASSUME kind \in Greedy,
                      NEW a \in DOMAIN load.stmts, NEW b \in DOMAIN load.stmts,
                      a < e + 1, e + 1 <= b, LineOf(load, a) = LineOf(load, b)
               PROVE  ~Starts(load, a, kind)
    BY <1>b, <1>e DEF LinesTaken
  <2>1. a \in Nat /\ b \in Nat
    BY <1>d
  <2>2. CASE a < from
    <3>1. from <= b
      BY <1>c, <1>1, <1>2, <2>1
    <3> QED
      BY <1>a, <1>k, <2>2, <3>1 DEF LinesTaken
  <2>3. CASE from <= a /\ a < i
    BY <1>1, <2>3
  <2>4. CASE i <= a
    BY <1>1, <1>3, <2>1, <2>4
  <2> QED
    BY <1>c, <1>2, <2>1, <2>2, <2>3, <2>4
<1>7. \A j \in DOMAIN load.stmts : \A k : Past(j, k) => Past(j, k)'
  <2> SUFFICES ASSUME NEW j \in DOMAIN load.stmts, NEW k, Past(j, k)
               PROVE  Past(j, k)'
    OBVIOUS
  <2>1. PICK p \in 1..pass : Passes[p] = k /\ (p = pass => j < from)
    BY DEF Past
  <2>2. p = pass => j < e + 1
    BY <1>c, <1>d, <1>1, <1>2, <2>1
  <2> QED
    BY <1>b, <2>1, <2>2 DEF Past
<1>8. ASSUME NEW k, NEW j \in Mentions(load, k), Past(j, k)'
      PROVE  Past(j, k) \/ (k = kind /\ j = i)
  <2>1. j \in DOMAIN load.stmts /\ j \in Nat
    BY <1>d DEF Mentions
  <2>2. PICK p \in 1..pass : Passes[p] = k /\ (p = pass => j < e + 1)
    BY <1>b, <1>8 DEF Past
  <2>3. CASE p # pass
    BY <2>2, <2>3 DEF Past
  <2>4. CASE p = pass
    <3>1. k = kind /\ j <= e
      BY <1>1, <1>e, <2>1, <2>2, <2>4
    <3>2. CASE j < from
      BY <2>2, <2>4, <3>2 DEF Past
    <3>3. CASE from <= j
      BY <1>1, <1>8, <3>1, <3>3
    <3> QED
      BY <1>c, <2>1, <3>2, <3>3
  <2> QED
    BY <2>3, <2>4
\* A place of this search before i has been passed.
<1>9. \A j \in Mentions(load, kind) : j < i => Past(j, kind)
  <2> SUFFICES ASSUME NEW j \in Mentions(load, kind), j < i
               PROVE  Past(j, kind)
    OBVIOUS
  <2>1. j \in DOMAIN load.stmts /\ j \in Nat /\ Starts(load, j, kind)
    BY <1>d DEF Mentions
  <2>2. j < from
    BY <1>c, <1>1, <2>1
  <2>3. pass \in 1..pass
    BY <1>c
  <2> QED
    BY <1>e, <2>2, <2>3 DEF Past
<1>10. Past(i, kind)'
  <2>1. pass \in 1..pass /\ i < e + 1
    BY <1>c, <1>1, <1>2
  <2> QED
    BY <1>b, <1>e, <2>1 DEF Past
<1>11. ASSUME NEW s \in ToSet(sources)
       PROVE  \E j \in DOMAIN load.stmts : FirstMention(s, j)' /\ Past(j, s.kind)'
  <2>1. PICK j \in DOMAIN load.stmts : FirstMention(s, j) /\ Past(j, s.kind)
    BY <1>a DEF Accounted
  <2>2. FirstMention(s, j)'
    BY <1>b, <2>1 DEF FirstMention
  <2> QED
    BY <1>7, <2>1, <2>2
<1>12. CASE Known(m)
  <2>1. sources' = sources
    BY <1>b, <1>12
  <2>2. ASSUME NEW k \in ToSet(Passes), NEW j \in Mentions(load, k), Past(j, k)'
        PROVE  Known(MatchAt(load, j, k))
    BY <1>8, <1>12, <1>a, <1>m, <2>2 DEF Accounted
  <2>3. Accounted'
    BY <1>b, <1>11, <2>1, <2>2 DEF Accounted, Known
  <2>4. Ordered'
    BY <1>a, <2>1 DEF Ordered
  <2> QED
    BY <1>5, <1>6, <2>3, <2>4 DEF SearchState
<1>13. CASE ~Known(m)
  <2> DEFINE n == Len(sources)
  <2>1. /\ n \in Nat /\ sources' = Append(sources, m)
        /\ DOMAIN sources = 1..n /\ DOMAIN sources' = 1..n + 1
        /\ \A a \in 1..n : sources'[a] = sources[a]
        /\ sources'[n + 1] = m
    BY <1>b, <1>c, <1>13
  <2> HIDE DEF n
  <2>2. ToSet(sources') = ToSet(sources) \cup {m}
    <3>1. ASSUME NEW x \in ToSet(sources')
          PROVE  x \in ToSet(sources) \cup {m}
      <4>1. PICK a \in 1..n + 1 : x = sources'[a]
        BY <2>1 DEF ToSet
      <4>2. CASE a = n + 1
        BY <2>1, <4>1, <4>2
      <4>3. CASE a # n + 1
        <5>1. a \in 1..n
          BY <2>1, <4>3
        <5> QED
          BY <2>1, <4>1, <5>1 DEF ToSet
      <4> QED
        BY <4>2, <4>3
    <3>2. ASSUME NEW a \in 1..n + 1
          PROVE  sources'[a] \in ToSet(sources')
      BY <2>1 DEF ToSet
    <3>3. ASSUME NEW x \in ToSet(sources)
          PROVE  x \in ToSet(sources')
      <4>1. PICK a \in 1..n : x = sources[a]
        BY <2>1 DEF ToSet
      <4>2. a \in 1..n + 1
        BY <2>1
      <4> QED
        BY <2>1, <3>2, <4>1, <4>2
    <3>4. m \in ToSet(sources')
      <4>1. n + 1 \in 1..n + 1
        BY <2>1
      <4> QED
        BY <2>1, <3>2, <4>1
    <3> QED
      BY <3>1, <3>3, <3>4
  <2>3. FirstMention(m, i)'
    <3>1. ASSUME NEW j \in Mentions(load, kind), j < i, Same(MatchAt(load, j, kind), m)
          PROVE  FALSE
      <4>1. Known(MatchAt(load, j, kind))
        BY <1>a, <1>e, <1>9, <3>1 DEF Accounted
      <4> QED
        BY <1>13, <3>1, <4>1 DEF Known, Same
    <3> QED
      BY <1>b, <1>m, <1>1, <1>4, <3>1 DEF FirstMention
  <2>4. ASSUME NEW s \in ToSet(sources')
        PROVE  \E j \in DOMAIN load.stmts : FirstMention(s, j)' /\ Past(j, s.kind)'
    <3>1. CASE s \in ToSet(sources)
      BY <1>11, <3>1
    <3>2. CASE s = m
      BY <1>2, <1>4, <1>10, <2>3, <3>2
    <3> QED
      BY <2>2, <3>1, <3>2
  <2>5. ASSUME NEW k \in ToSet(Passes), NEW j \in Mentions(load, k), Past(j, k)'
        PROVE  \E s \in ToSet(sources') : Same(s, MatchAt(load, j, k))
    <3>1. CASE Past(j, k)
      BY <1>a, <2>2, <3>1 DEF Accounted, Known
    <3>2. CASE k = kind /\ j = i
      BY <1>m, <2>2, <3>2 DEF Same
    <3> QED
      BY <1>8, <2>5, <3>1, <3>2
  <2>6. Accounted'
    BY <1>b, <2>4, <2>5 DEF Accounted, Known
  <2>7. ASSUME NEW a \in 1..n
        PROVE  ~Same(sources[a], m) /\ ~Same(m, sources[a])
    <3>1. sources[a] \in ToSet(sources)
      BY <2>1 DEF ToSet
    <3> QED
      BY <1>13, <3>1 DEF Known, Same
  <2>8. ASSUME NEW a \in 1..n, sources[a].kind = m.kind
        PROVE  sources[a].line <= m.line
    <3>1. sources[a] \in ToSet(sources)
      BY <2>1 DEF ToSet
    <3>2. PICK j \in DOMAIN load.stmts : FirstMention(sources[a], j) /\ Past(j, sources[a].kind)
      BY <1>a, <3>1 DEF Accounted
    <3>3. PICK p \in 1..pass : Passes[p] = kind /\ (p = pass => j < from)
      BY <1>4, <2>8, <3>2 DEF Past
    <3>4. j < from
      BY <1>c, <1>e, <3>3, ThePasses
    <3>5. j <= i
      BY <1>c, <1>d, <1>1, <1>2, <3>4
    <3>6. sources[a].line = LineOf(load, j)
      BY <3>2 DEF FirstMention, MatchAt
    <3> QED
      BY <1>c, <1>2, <1>4, <3>5, <3>6, ScriptTypes
  <2>9. Ordered'
    <3>1. ASSUME NEW a \in 1..n + 1, NEW b \in 1..n + 1, a # b
          PROVE  ~Same(sources'[a], sources'[b])
      <4>1. CASE a = n + 1
        <5>1. b \in 1..n
          BY <2>1, <3>1, <4>1
        <5> QED
          BY <2>1, <2>7, <4>1, <5>1
      <4>2. CASE b = n + 1
        <5>1. a \in 1..n
          BY <2>1, <3>1, <4>2
        <5> QED
          BY <2>1, <2>7, <4>2, <5>1
      <4>3. CASE a # n + 1 /\ b # n + 1
        <5>1. a \in 1..n /\ b \in 1..n
          BY <2>1, <4>3
        <5> QED
          BY <1>a, <2>1, <3>1, <5>1 DEF Ordered
      <4> QED
        BY <4>1, <4>2, <4>3
    <3>2. ASSUME NEW a \in 1..n + 1, NEW b \in 1..n + 1, a < b, sources'[a].kind = sources'[b].kind
          PROVE  sources'[a].line <= sources'[b].line
      <4>1. a \in 1..n
        BY <2>1, <3>2
      <4>2. CASE b = n + 1
        BY <2>1, <2>8, <3>2, <4>1, <4>2
      <4>3. CASE b # n + 1
        <5>1. b \in 1..n
          BY <2>1, <4>3
        <5> QED
          BY <1>a, <2>1, <3>2, <4>1, <5>1 DEF Ordered
      <4> QED
        BY <4>2, <4>3
    <3> QED
      BY <2>1, <3>1, <3>2 DEF Ordered
  <2> QED
    BY <1>5, <1>6, <2>6, <2>9 DEF SearchState
<1> QED
  BY <1>12, <1>13

\* When the last search is over, everything is in the part searched.
LEMMA StateSuffices == SearchState => EachSourceOnce
<1> SUFFICES ASSUME SearchState, Searched PROVE EachSourceOnce
  BY DEF EachSourceOnce
<1>a. StateTypes /\ Accounted /\ Ordered
  BY DEF SearchState
<1>b. pass = 4 /\ Ahead = {} /\ load \in Scripts /\ from \in Nat
  BY <1>a, ThePasses DEF StateTypes, Searched
<1>1. ASSUME NEW k \in ToSet(Passes), NEW i \in Mentions(load, k)
      PROVE  Past(i, k)
  <2>1. i \in DOMAIN load.stmts /\ i \in Nat /\ Starts(load, i, k)
    BY <1>b, ScriptTypes DEF Mentions
  <2>2. PICK p \in 1..4 : Passes[p] = k
    BY ThePasses DEF ToSet, Passes
  <2>3. p = 4 => i < from
    <3>1. SUFFICES ASSUME p = 4, from <= i PROVE FALSE
      BY <1>b, <2>1
    <3>2. i \in Ahead
      BY <1>b, <2>1, <2>2, <3>1 DEF Ahead
    <3> QED
      BY <1>b, <3>2
  <2> QED
    BY <1>b, <2>2, <2>3 DEF Past
<1>2. \A m \in ToSet(sources) : \E i \in DOMAIN load.stmts : FirstMention(m, i)
  BY <1>a DEF Accounted
<1>3. \A k \in ToSet(Passes) : \A i \in Mentions(load, k) : Known(MatchAt(load, i, k))
  BY <1>1, <1>a DEF Accounted
<1> QED
  BY <1>a, <1>2, <1>3 DEF EachSourceOnce, Ordered

\* Whatever a script holds, and however the matches of its four searches
\* overlap and repeat, the part searched is accounted for.
THEOREM SearchAccounted == SourcesSpec => []SearchState
<1>1. SearchState /\ [SNext]_sourceVars => SearchState'
  <2>1. SearchState /\ UNCHANGED sourceVars => SearchState'
    BY DEF SearchState, StateTypes, LinesTaken, Accounted, Ordered, sourceVars, Searching, Past,
       FirstMention, Known
  <2> QED
    BY <2>1, NextPassStep, AddStep DEF SNext
<1> QED
  BY <1>1, InitSearch, PTL DEF SourcesSpec

\* For any script extract_sources lists each source once, at its first mention,
\* leaves out none that its patterns match, and within a kind keeps the order.
THEOREM SourcesListedOnce == SourcesSpec => []EachSourceOnce
BY SearchAccounted, StateSuffices, PTL
====
