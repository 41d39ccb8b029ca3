---- MODULE Naming_proofs ----
(***************************************************************************)
(* Theorems about the three small components that name things: FileIndex   *)
(* for directories of any size and any names, QvwResolution for any paths, *)
(* candidates and disk and any number of changes, and Boot for any limits. *)
(*                                                                         *)
(* Counted is the inductive invariant of the first: of the files sanitised *)
(* alike, each has a count of its own, and used holds the highest.         *)
(* Resolving is that of the second: a call has put behind it only          *)
(* candidates that it has seen missing, hands on only what a candidate led *)
(* to and what it has tested, and sees one disk while nothing changes.     *)
(* Booted is that of the third: what each stage of boot has decided.       *)
(***************************************************************************)
EXTENDS FileIndex, QvwResolution, Boot, SequenceTheorems, TLAPS

Listed == [basename : Basenames, count : Nat \ {0}, schema : Identifiers]
CandidateOf(i) == Sanitized(index[i].basename)

IndexTypes ==
    /\ dir \subseteq Basenames
    /\ queue \in Seq(Basenames)
    /\ index \in Seq(Listed)
    /\ listing \in {"glob", "building", "built", "failed"}
    /\ DOMAIN used \subseteq Identifiers
    /\ \A c \in DOMAIN used : used[c] \in 0..Len(index)
    /\ Len(index) + Len(queue) <= MaxFiles

Numbered ==
    \A i \in DOMAIN index :
        /\ CandidateOf(i) \in DOMAIN used
        /\ index[i].count <= used[CandidateOf(i)]
        /\ index[i].schema = Named(CandidateOf(i), index[i].count)

CountsDiffer ==
    \A i, j \in DOMAIN index :
        i # j /\ CandidateOf(i) = CandidateOf(j) => index[i].count # index[j].count

Counted ==
    /\ IndexTypes /\ Numbered /\ CountsDiffer
    /\ listing = "glob" => index = <<>>

----------------------------------------------------------------------------
(* The names. *)

LEMMA ReplacedSafe == ASSUME NEW name \in Basenames PROVE Replaced(name) \in Seq(Safe) \ {<<>>}
<1>1. name \in Seq(Safe \cup Unsafe) /\ name # <<>>
  BY BasenamesAssumption
<1>2. /\ DOMAIN name = 1..Len(name) /\ Len(name) \in Nat /\ Len(name) > 0
      /\ \A i \in 1..Len(name) : name[i] \in Safe \cup Unsafe
  BY <1>1, EmptySeq, ElementOfSeq
<1>3. "_" \in Safe
  BY DEF Safe
<1>4. \A i \in 1..Len(name) : (IF name[i] \in Unsafe THEN "_" ELSE name[i]) \in Safe
  BY <1>2, <1>3
<1> DEFINE r == [i \in 1..Len(name) |-> IF name[i] \in Unsafe THEN "_" ELSE name[i]]
<1>5. r \in Seq(Safe) /\ DOMAIN r = 1..Len(name)
  <2>1. r \in [1..Len(name) -> Safe]
    BY <1>4
  <2>2. [1..Len(name) -> Safe] \subseteq Seq(Safe)
    BY <1>2, SeqDef
  <2> QED
    BY <2>1, <2>2
<1>6. r # <<>>
  <2>1. 1 \in 1..Len(name)
    <3>1. Len(name) \in Nat /\ Len(name) > 0
      BY <1>2
    <3> QED
      BY <3>1
  <2>2. DOMAIN <<>> = {}
    OBVIOUS
  <2> QED
    BY <2>1, <2>2, <1>5
<1>7. Replaced(name) = r
  BY <1>2 DEF Replaced
<1> QED
  BY <1>5, <1>6, <1>7

LEMMA Joined ==
    ASSUME NEW S, NEW s \in Seq(S), NEW a \in S, NEW t \in Seq(S)
    PROVE  /\ s \o <<a>> \o t \in Seq(S)
           /\ Len(s \o <<a>> \o t) = Len(s) + 1 + Len(t)
           /\ (s \o <<a>> \o t)[Len(s) + 1] = a
           /\ s # <<>> => (s \o <<a>> \o t)[1] = s[1]
OBVIOUS

LEMMA JoinedLonger ==
    ASSUME NEW S, NEW s \in Seq(S), NEW a \in S, NEW t \in Seq(S)
    PROVE  s \o <<a>> \o t # s /\ s \o <<a>> \o t # <<>>
<1>1. Len(s) \in Nat /\ Len(t) \in Nat /\ Len(s \o <<a>> \o t) = Len(s) + 1 + Len(t)
  BY Joined
<1>2. Len(s \o <<a>> \o t) # Len(s) /\ Len(s \o <<a>> \o t) # 0
  BY <1>1
<1> QED
  BY <1>2

LEMMA JoinedCancel ==
    ASSUME NEW S, NEW s \in Seq(S), NEW a \in S, NEW t \in Seq(S), NEW v \in Seq(S),
           s \o <<a>> \o t = s \o <<a>> \o v
    PROVE  t = v
<1>1. s \o <<a>> \in Seq(S)
  OBVIOUS
<1> QED
  BY <1>1, ConcatSimplifications

\* A name that goes on with a character that is no letter is no reserved word.
LEMMA WithSuffix ==
    ASSUME NEW s \in Seq(Safe), s # <<>>, s[1] \notin Digits,
           NEW a \in Safe, a \notin Letters, NEW t \in Seq(Safe)
    PROVE  s \o <<a>> \o t \in Identifiers
<1> DEFINE name == s \o <<a>> \o t
<1>1. /\ name \in Seq(Safe) /\ Len(name) = Len(s) + 1 + Len(t)
      /\ name[Len(s) + 1] = a /\ name[1] = s[1] /\ name # <<>>
  BY Joined, JoinedLonger
<1>2. Len(s) + 1 \in 1..Len(name)
  <2>1. Len(s) \in Nat /\ Len(t) \in Nat
    OBVIOUS
  <2> QED
    BY <2>1, <1>1
<1>3. name \notin Reserved
  <2> SUFFICES ASSUME name \in Reserved PROVE FALSE
    OBVIOUS
  <2>1. name \in Seq(Letters)
    BY ReservedAssumption
  <2>2. name[Len(s) + 1] \in Letters
    BY <2>1, <1>2, ElementOfSeq
  <2> QED
    BY <2>2, <1>1
<1> QED
  BY <1>1, <1>3 DEF Identifiers

LEMMA Underscore == "_" \in Safe /\ "_" \notin Letters /\ "_" \notin Digits
BY CharactersAssumption DEF Safe

LEMMA SanitizedOK == ASSUME NEW name \in Basenames PROVE Sanitized(name) \in Identifiers
<1> DEFINE r == Replaced(name)
           safe == Prefixed(r)
<1>1. r \in Seq(Safe) /\ r # <<>>
  BY ReplacedSafe
<1>2. safe \in Seq(Safe) /\ safe # <<>> /\ safe[1] \notin Digits
  <2>1. CASE r[1] \in Digits
    <3>1. safe = <<"_">> \o r /\ "_" \in Safe /\ "_" \notin Digits
      BY <2>1, CharactersAssumption DEF Prefixed, Safe
    <3>2. /\ <<"_">> \o r \in Seq(Safe) /\ (<<"_">> \o r)[1] = "_"
          /\ <<"_">> \o r # <<>>
      <4>1. \A S : \A x \in S, t \in Seq(S) :
                <<x>> \o t \in Seq(S) /\ (<<x>> \o t)[1] = x /\ Len(<<x>> \o t) = 1 + Len(t)
        OBVIOUS
      <4>2. \A S : \A x \in S, t \in Seq(S) : <<x>> \o t # <<>>
        <5> TAKE S
        <5> TAKE x \in S, t \in Seq(S)
        <5>1. Len(<<x>> \o t) # 0
          BY <4>1
        <5> QED
          BY <5>1, <4>1, EmptySeq
      <4> QED
        BY <1>1, <3>1, <4>1, <4>2
    <3> QED
      BY <3>1, <3>2
  <2>2. CASE r[1] \notin Digits
    BY <2>2, <1>1 DEF Prefixed
  <2> QED
    BY <2>1, <2>2
<1>3. Qvw \in Seq(Safe)
  <2>1. Letters \subseteq Safe /\ Qvw \in Seq(Letters)
    BY CharactersAssumption DEF Safe
  <2> QED
    BY <2>1, SeqMonotonic
<1>4. safe \o <<"_">> \o Qvw \in Identifiers
  BY <1>2, <1>3, WithSuffix, Underscore
<1>5. safe \notin Reserved => safe \in Identifiers
  BY <1>2 DEF Identifiers
<1> QED
  BY <1>4, <1>5 DEF Sanitized

LEMMA DecimalSafe == ASSUME NEW n \in 1..MaxFiles PROVE Decimal[n] \in Seq(Safe)
<1>1. Decimal[n] \in Seq(Digits) /\ Digits \subseteq Safe
  BY DecimalAssumption DEF Safe
<1> QED
  BY <1>1, SeqMonotonic

LEMMA NamedOK ==
    ASSUME NEW c \in Identifiers, NEW n \in 1..MaxFiles PROVE Named(c, n) \in Identifiers
<1>2. Decimal[n] \in Seq(Safe)
  BY DecimalSafe
<1>3. c \in Seq(Safe) /\ c # <<>> /\ c[1] \notin Digits
  BY DEF Identifiers
<1>4. c \o <<"_">> \o Decimal[n] \in Identifiers
  BY <1>2, <1>3, WithSuffix, Underscore
<1> QED
  BY <1>4 DEF Named

\* Two counts of one candidate never print alike.
LEMMA NamedInjective ==
    ASSUME NEW c \in Identifiers, NEW m \in 1..MaxFiles, NEW n \in 1..MaxFiles,
           Named(c, m) = Named(c, n)
    PROVE  m = n
<1>1. c \in Seq(Safe)
  BY DEF Identifiers
<1>2. \A k \in 1..MaxFiles : Decimal[k] \in Seq(Safe)
  BY DecimalSafe
<1>3. "_" \in Safe
  BY Underscore
<1>4. \A k \in 1..MaxFiles : c \o <<"_">> \o Decimal[k] # c
  BY <1>1, <1>2, <1>3, JoinedLonger
<1>5. c \o <<"_">> \o Decimal[m] = c \o <<"_">> \o Decimal[n] => Decimal[m] = Decimal[n]
  BY <1>1, <1>2, <1>3, JoinedCancel
<1>6. Decimal[m] = Decimal[n] => m = n
  BY DecimalAssumption DEF IsInjective
<1> QED
  BY <1>4, <1>5, <1>6 DEF Named

----------------------------------------------------------------------------
(* The loop. *)

LEMMA AddStep == ASSUME Counted, Add PROVE Counted'
<1> DEFINE name == Head(queue)
           c == Sanitized(name)
           n == Times(c) + 1
           e == [basename |-> name, count |-> n, schema |-> Named(c, n)]
<1>1. /\ queue # <<>> /\ queue' = Tail(queue) /\ index' = Append(index, e)
      /\ used' = [d \in DOMAIN used \cup {c} |-> IF d = c THEN n ELSE used[d]]
      /\ dir' = dir /\ listing' = listing /\ listing = "building"
  BY DEF Add
<1>2. queue \in Seq(Basenames) /\ index \in Seq(Listed) /\ Len(index) + Len(queue) <= MaxFiles
  BY DEF Counted, IndexTypes
<1>3. /\ name \in Basenames /\ Tail(queue) \in Seq(Basenames)
      /\ Len(queue) > 0 /\ Len(Tail(queue)) = Len(queue) - 1
  BY <1>1, <1>2
<1>4. c \in Identifiers
  BY <1>3, SanitizedOK
<1>5. Times(c) \in 0..Len(index) /\ (c \in DOMAIN used => Times(c) = used[c])
  BY <1>2 DEF Times, Counted, IndexTypes
<1>6. n \in 1..MaxFiles /\ n \in Nat \ {0} /\ n <= Len(index) + 1
  BY <1>2, <1>3, <1>5, BasenamesAssumption
<1>7. e \in Listed
  BY <1>3, <1>4, <1>6, NamedOK DEF Listed
<1>8. /\ index' \in Seq(Listed) /\ Len(index') = Len(index) + 1
      /\ DOMAIN index' = 1..Len(index) + 1 /\ DOMAIN index = 1..Len(index)
      /\ \A i \in 1..Len(index) : index'[i] = index[i]
      /\ index'[Len(index) + 1] = e
  BY <1>1, <1>2, <1>7
<1>9. IndexTypes'
  <2>1. \A d \in DOMAIN used' : used'[d] \in 0..Len(index')
    BY <1>1, <1>2, <1>6, <1>8 DEF Counted, IndexTypes
  <2>2. DOMAIN used' \subseteq Identifiers
    BY <1>1, <1>4 DEF Counted, IndexTypes
  <2>3. Len(index') + Len(queue') <= MaxFiles
    BY <1>1, <1>2, <1>3, <1>8
  <2> QED
    BY <2>1, <2>2, <2>3, <1>1, <1>3, <1>8 DEF Counted, IndexTypes
<1>10. \A i \in 1..Len(index) : CandidateOf(i)' = CandidateOf(i)
  BY <1>8 DEF CandidateOf
<1>11. \A i : i = Len(index) + 1 => CandidateOf(i)' = c
  <2>1. index'[Len(index) + 1] = e /\ e.basename = name
    BY <1>8
  <2> QED
    BY <2>1 DEF CandidateOf
<1>12. \A i \in 1..Len(index) : index[i].count \in Nat /\ index[i].count # 0
  <2>1. \A i \in 1..Len(index) : index[i] \in Listed
    BY <1>2, ElementOfSeq
  <2> QED
    BY <2>1 DEF Listed
<1>13. \A i \in 1..Len(index) : CandidateOf(i) = c => index[i].count < n
  BY <1>5, <1>8, <1>12 DEF Counted, Numbered
<1>14. Numbered'
  <2> SUFFICES ASSUME NEW i \in DOMAIN index'
               PROVE  /\ CandidateOf(i)' \in DOMAIN used'
                      /\ index'[i].count <= used'[CandidateOf(i)']
                      /\ index'[i].schema = Named(CandidateOf(i)', index'[i].count)
    BY DEF Numbered
  <2>1. CASE i = Len(index) + 1
    <3>1. used'[c] = n /\ c \in DOMAIN used'
      BY <1>1
    <3>2. CandidateOf(i)' = c
      BY <1>11, <2>1
    <3>3. index'[i] = e
      BY <1>8, <2>1
    <3>4. index'[i].count = n /\ index'[i].schema = Named(c, n)
      BY <3>3
    <3> QED
      BY <3>1, <3>2, <3>4, <1>6
  <2>2. CASE i \in 1..Len(index)
    <3>1. CandidateOf(i)' = CandidateOf(i) /\ index'[i] = index[i]
      BY <2>2, <1>8, <1>10
    <3>2. /\ CandidateOf(i) \in DOMAIN used /\ index[i].count <= used[CandidateOf(i)]
          /\ index[i].schema = Named(CandidateOf(i), index[i].count)
      BY <2>2, <1>8 DEF Counted, Numbered
    <3>3. CandidateOf(i) \in DOMAIN used' /\ index[i].count <= used'[CandidateOf(i)]
      BY <1>1, <1>6, <1>12, <1>13, <2>2, <3>2
    <3> QED
      BY <3>1, <3>2, <3>3
  <2> QED
    BY <2>1, <2>2, <1>8, <1>2
<1>15. CountsDiffer'
  <2> SUFFICES ASSUME NEW i \in DOMAIN index', NEW j \in DOMAIN index', i # j,
                      CandidateOf(i)' = CandidateOf(j)'
               PROVE  index'[i].count # index'[j].count
    BY DEF CountsDiffer
  <2>1. e.count = n /\ n \in Nat
    BY <1>6
  <2>2. CASE i \in 1..Len(index) /\ j \in 1..Len(index)
    BY <2>2, <1>8, <1>10 DEF Counted, CountsDiffer
  <2>3. CASE i \in 1..Len(index) /\ j = Len(index) + 1
    <3>1. index'[j].count = n /\ CandidateOf(i) = c
      BY <2>3, <1>8, <1>10, <1>11, <2>1
    <3> QED
      BY <3>1, <2>3, <1>8, <1>12, <1>13, <2>1
  <2>4. CASE j \in 1..Len(index) /\ i = Len(index) + 1
    <3>1. index'[i].count = n /\ CandidateOf(j) = c
      BY <2>4, <1>8, <1>10, <1>11, <2>1
    <3> QED
      BY <3>1, <2>4, <1>8, <1>12, <1>13, <2>1
  <2> QED
    BY <2>2, <2>3, <2>4, <1>8, <1>2
<1> QED
  BY <1>1, <1>9, <1>14, <1>15 DEF Counted

LEMMA OtherSteps ==
    ASSUME Counted, Glob \/ Vanished \/ Built \/ Delete \/ UNCHANGED indexVars
    PROVE  Counted'
<1>1. CASE Glob
  <2>1. /\ queue' = Sorted[dir] /\ index = <<>> /\ UNCHANGED <<dir, used, index>>
        /\ listing' = "building"
    BY <1>1 DEF Glob, Counted
  <2>2. dir \in SUBSET Basenames
    BY DEF Counted, IndexTypes
  <2>3. Sorted[dir] \in Seq(Basenames) /\ Len(Sorted[dir]) <= MaxFiles
    BY <2>2, BasenamesAssumption
  <2>4. Len(index) + Len(Sorted[dir]) <= MaxFiles
    BY <2>1, <2>3
  <2> QED
    BY <2>1, <2>3, <2>4 DEF Counted, IndexTypes, Numbered, CountsDiffer, CandidateOf
<1>2. CASE Vanished \/ Built \/ Delete \/ UNCHANGED indexVars
  BY <1>2 DEF Vanished, Built, Delete, indexVars, Counted, IndexTypes, Numbered, CountsDiffer, CandidateOf
<1> QED
  BY <1>1, <1>2

LEMMA CountedInvariant == FSpec => []Counted
<1>1. FInit => Counted
  <2> SUFFICES ASSUME FInit PROVE Counted
    OBVIOUS
  <2>1. dir \subseteq Basenames /\ queue = <<>> /\ index = <<>> /\ DOMAIN used = {} /\ listing = "glob"
    BY DEF FInit
  <2> QED
    BY <2>1, BasenamesAssumption DEF Counted, IndexTypes, Numbered, CountsDiffer
<1>2. Counted /\ [FNext]_indexVars => Counted'
  BY AddStep, OtherSteps DEF FNext
<1> QED
  BY <1>1, <1>2, PTL DEF FSpec

\* Whatever the files of the directory are called, every schema name in every
\* index has letters, digits and underscores only, begins with no digit and is
\* no word of the code's list (sanitize_schema_name and the suffixes).
THEOREM NamesAreIdentifiers == FSpec => []IndexTypeOK
<1>1. Counted => IndexTypeOK
  <2> SUFFICES ASSUME Counted PROVE IndexTypeOK
    OBVIOUS
  <2>1. ToSet(queue) \subseteq Basenames
    BY DEF Counted, IndexTypes, ToSet
  <2>2. \A i \in DOMAIN index : index[i] \in Listed
    BY DEF Counted, IndexTypes
  <2> QED
    BY <2>1, <2>2 DEF Counted, IndexTypes, IndexTypeOK, Listed
<1> QED
  BY <1>1, CountedInvariant, PTL

\* Names that are sanitised alike get different schema names in a directory of
\* any size: build_file_index's counting resolves every collision but that of
\* a suffixed name with another file's own.
THEOREM CollisionsResolved == FSpec => []DistinctUnlessSuffixed
<1>1. Counted => DistinctUnlessSuffixed
  <2> SUFFICES ASSUME Counted, NEW i \in DOMAIN index, NEW j \in DOMAIN index, i # j,
                      index[i].schema = index[j].schema
               PROVE  /\ CandidateOf(i) # CandidateOf(j)
                      /\ index[i].count > 1 \/ index[j].count > 1
    BY DEF DistinctUnlessSuffixed, CandidateOf
  <2>1. index[i] \in Listed /\ index[j] \in Listed
    BY DEF Counted, IndexTypes
  <2>2. /\ index[i].count \in Nat /\ index[i].count # 0
        /\ index[j].count \in Nat /\ index[j].count # 0
    BY <2>1 DEF Listed
  <2>3. /\ CandidateOf(i) \in DOMAIN used /\ CandidateOf(j) \in DOMAIN used
        /\ index[i].count <= used[CandidateOf(i)] /\ index[j].count <= used[CandidateOf(j)]
        /\ index[i].schema = Named(CandidateOf(i), index[i].count)
        /\ index[j].schema = Named(CandidateOf(j), index[j].count)
    BY DEF Counted, Numbered
  <2>4. /\ CandidateOf(i) \in Identifiers
        /\ used[CandidateOf(i)] \in 0..Len(index) /\ used[CandidateOf(j)] \in 0..Len(index)
    BY <2>3 DEF Counted, IndexTypes
  <2>5. Len(index) <= MaxFiles /\ Len(index) \in Nat /\ MaxFiles \in Nat
    BY BasenamesAssumption DEF Counted, IndexTypes
  <2>6. index[i].count \in 1..MaxFiles /\ index[j].count \in 1..MaxFiles
    BY <2>2, <2>3, <2>4, <2>5
  <2>7. CandidateOf(i) # CandidateOf(j)
    <3> SUFFICES ASSUME CandidateOf(i) = CandidateOf(j) PROVE FALSE
      OBVIOUS
    <3>1. index[i].count = index[j].count
      BY <2>3, <2>4, <2>6, NamedInjective
    <3> QED
      BY <3>1 DEF Counted, CountsDiffer
  <2>8. index[i].count > 1 \/ index[j].count > 1
    <3> SUFFICES ASSUME index[i].count = 1, index[j].count = 1 PROVE FALSE
      BY <2>2
    <3> QED
      BY <2>3, <2>7 DEF Named
  <2> QED
    BY <2>7, <2>8
<1> QED
  BY <1>1, CountedInvariant, PTL

----------------------------------------------------------------------------
(* Resolution of an argument. *)

Refusals == {"unsupported", "qvw_dir_unreadable", "qvw_too_large"}
Codes == {"none", "ok", "file_not_found"} \cup Refusals
AnswerSet == [code : Codes, path : Paths \cup {None}, calm : BOOLEAN]
Tried == Candidates[arg]

CallTypes ==
    /\ links \in [Paths -> Paths \cup {None}] /\ links \in Disks
    /\ arg \in Args
    /\ calm \in BOOLEAN
    /\ answers \in [Tools -> AnswerSet]
    /\ stage \in {"idle", "index", "try", "resolve", "size", "synthetic"}
    /\ tool \in Tools \cup {None}
    /\ stage # "idle" => tool \in Tools
    /\ stage \in {"index", "synthetic"} => tool = "list_tables"
    /\ real \in Paths \cup {None}

\* The history covers the disk as it is.
Observed ==
    tool \in Tools => \A p \in Paths :
        IF IsFile(p) THEN <<p, links[p]>> \in led ELSE p \in missed

\* The first k candidates are behind the call.
Behind(k) ==
    /\ k + Len(todo) = Len(Tried)
    /\ \A i \in 1..Len(todo) : todo[i] = Tried[k + i]
    /\ \A j \in 1..k : Tried[j] \in missed

Trying ==
    /\ stage # "idle" => todo \in Seq(Paths) /\ \E k \in Nat : Behind(k)
    /\ stage \in {"resolve", "size", "synthetic"} => todo # <<>>
    /\ stage \in {"size", "synthetic"} => <<Head(todo), real>> \in led /\ (allowed \/ real \in Inside)

\* In a calm call the history holds of the disk as it is.
Calm == calm => missed \subseteq Missing /\ led \subseteq Leading

\* Where the first candidate that is a file leads, or the file in the index
MatchAt(i, path) ==
    /\ IsFile(Tried[i]) /\ links[Tried[i]] = path
    /\ \A j \in 1..i - 1 : ~IsFile(Tried[j])
Matched(path) ==
    \/ \E i \in DOMAIN Tried : MatchAt(i, path)
    \/ InIndex[arg] # None /\ IsFile(InIndex[arg]) /\ links[InIndex[arg]] = path

AnswersMatch == \A t \in Tools : answers[t].code = "ok" /\ answers[t].calm => Matched(answers[t].path)

Resolving == CallTypes /\ Observed /\ Calm /\ Trying /\ StaysInside /\ AnswerJustified /\ AnswersMatch

LEMMA TriedType == ASSUME arg \in Args PROVE Tried \in Seq(Paths) /\ Len(Tried) \in Nat
BY CandidatesAssumption DEF Tried

LEMMA NoAnswerType == NoAnswer \in AnswerSet
<1>1. "none" \in Codes /\ TRUE \in BOOLEAN /\ None \in Paths \cup {None}
  BY DEF Codes
<1> QED
  BY <1>1, Zenon DEF NoAnswer, AnswerSet

----------------------------------------------------------------------------
LEMMA InitResolving == RInit => Resolving
<1> SUFFICES ASSUME RInit PROVE Resolving
  OBVIOUS
<1>1. /\ links \in [Paths -> Paths \cup {None}] /\ links \in Disks /\ arg \in Args /\ tool = None
      /\ stage = "idle" /\ real = None /\ calm = TRUE /\ missed = {} /\ led = {}
      /\ answers = [t \in Tools |-> NoAnswer]
  BY DEF RInit, Disks
<1>2. answers \in [Tools -> AnswerSet]
  BY <1>1, NoAnswerType
<1>3. StaysInside
  BY <1>1 DEF StaysInside, NoAnswer, Tools
<1>4. AnswerJustified
  BY <1>1 DEF AnswerJustified
<1>5. CallTypes /\ Trying
  BY <1>1, <1>2 DEF CallTypes, Trying
<1>6. Observed
  <2>1. tool \in Tools => FALSE
    BY <1>1, NoneAssumption DEF Tools
  <2> QED
    BY <2>1 DEF Observed
<1>7. Calm /\ AnswersMatch
  BY <1>1 DEF Calm, AnswersMatch, NoAnswer
<1> QED
  BY <1>3, <1>4, <1>5, <1>6, <1>7 DEF Resolving

LEMMA ChangeStep == ASSUME Resolving, Change PROVE Resolving'
<1>1. PICK p \in Paths : \E q \in Leads[p] \cup {None} : links' = [links EXCEPT ![p] = q]
  BY DEF Change
<1>2. /\ calm' = FALSE /\ answers' = [t \in Tools |-> NoAnswer]
      /\ missed' = missed \cup Missing' /\ led' = led \cup Leading'
      /\ UNCHANGED <<allowed, arg, tool, stage, todo, real>>
  BY DEF Change
<1>3. links' \in [Paths -> Paths \cup {None}] /\ links' \in Disks
  <2>1. Leads[p] \subseteq Paths
    BY LeadsAssumption
  <2>2. PICK q \in Leads[p] \cup {None} : links' = [links EXCEPT ![p] = q]
    BY <1>1
  <2>3. links \in Disks
    BY DEF Resolving, CallTypes
  <2> QED
    BY <2>1, <2>2, <2>3 DEF Disks
<1>4. CallTypes'
  <2>1. answers' \in [Tools -> AnswerSet]
    BY <1>2, NoAnswerType
  <2> QED
    BY <1>2, <1>3, <2>1 DEF Resolving, CallTypes
<1>5. Observed'
  <2> SUFFICES ASSUME NEW r \in Paths
               PROVE  IF IsFile(r)' THEN <<r, links'[r]>> \in led' ELSE r \in missed'
    BY <1>2 DEF Observed
  <2>1. CASE IsFile(r)'
    <3>1. links'[r] \in Paths
      BY <2>1, <1>3 DEF IsFile
    <3> QED
      BY <3>1, <2>1, <1>2 DEF Leading
  <2>2. CASE ~IsFile(r)'
    BY <2>2, <1>2 DEF Missing
  <2> QED
    BY <2>1, <2>2
<1>6. Trying'
  <2>1. \A k \in Nat : Behind(k) => Behind(k)'
    BY <1>2 DEF Behind, Tried
  <2> QED
    BY <1>2, <2>1 DEF Resolving, Trying
<1>7. StaysInside' /\ AnswerJustified'
  <2>1. \A t \in Tools : answers'[t].code = "none"
    BY <1>2 DEF NoAnswer
  <2>2. StaysInside'
    BY <2>1 DEF StaysInside, Tools
  <2>3. AnswerJustified'
    <3> SUFFICES ASSUME stage' = "idle", tool' # None, tool' # "list_tables"
                 PROVE  LET answer == answers'[tool']
                        IN answer.code # "file_not_found" /\ answer.code # "ok"
      BY DEF AnswerJustified
    <3>1. tool' \in Tools
      BY <1>2 DEF Resolving, CallTypes
    <3> QED
      BY <2>1, <3>1
  <2> QED
    BY <2>2, <2>3
<1>8. Calm' /\ AnswersMatch'
  BY <1>2 DEF Calm, AnswersMatch, NoAnswer
<1> QED
  BY <1>4, <1>5, <1>6, <1>7, <1>8 DEF Resolving

LEMMA BeginStep == ASSUME Resolving, NEW t \in Tools, Begin(t) PROVE Resolving'
<1>1. /\ stage = "idle" /\ tool' = t
      /\ stage' = IF t = "list_tables" THEN "index" ELSE "try"
      /\ todo' = Tried /\ real' = None /\ calm' = TRUE
      /\ missed' = Missing /\ led' = Leading
      /\ UNCHANGED <<allowed, links, arg, answers>>
  BY DEF Begin, Tried
<1>2. Tried \in Seq(Paths) /\ Len(Tried) \in Nat /\ Tried' = Tried
  BY <1>1, TriedType DEF Resolving, CallTypes, Tried
<1>3. CallTypes'
  BY <1>1 DEF Resolving, CallTypes
<1>4. Observed'
  <2> SUFFICES ASSUME NEW r \in Paths
               PROVE  IF IsFile(r) THEN <<r, links[r]>> \in Leading ELSE r \in Missing
    BY <1>1 DEF Observed, IsFile
  <2>1. IsFile(r) => links[r] \in Paths
    BY DEF IsFile, Resolving, CallTypes
  <2> QED
    BY <2>1 DEF Leading, Missing
<1>5. Trying'
  <2>1. Behind(0)'
    BY <1>1, <1>2 DEF Behind
  <2> QED
    BY <1>1, <1>2, <2>1 DEF Trying
<1>6. StaysInside' /\ AnswerJustified'
  BY <1>1 DEF Resolving, StaysInside, AnswerJustified
<1>7. Calm' /\ AnswersMatch'
  <2>1. Calm'
    BY <1>1 DEF Calm, Missing, Leading, IsFile
  <2> QED
    BY <2>1, <1>1 DEF Resolving, AnswersMatch, Matched, MatchAt, IsFile, Tried
<1> QED
  BY <1>3, <1>4, <1>5, <1>6, <1>7 DEF Resolving

----------------------------------------------------------------------------
(* The steps of a call: the disk, the argument and the history stay. *)

Still == UNCHANGED <<allowed, links, arg, calm, missed, led>>

LEMMA StillObserved == ASSUME Observed, Still, tool' = tool PROVE Observed'
BY DEF Observed, Still, IsFile

LEMMA StillCalm ==
    ASSUME Calm, Still
    PROVE  Calm' /\ \A path : Matched(path) => Matched(path)'
<1>1. \A p : IsFile(p) <=> IsFile(p)'
  BY DEF Still, IsFile
<1>2. Calm'
  BY <1>1 DEF Calm, Still, Missing, Leading
<1> QED
  BY <1>1, <1>2 DEF Matched, MatchAt, Still, Tried

\* What an answer of _resolve_qvw has to say
Justified(code, path) ==
    tool # "list_tables" =>
        /\ code = "ok" => \E i \in DOMAIN Tried :
                            <<Tried[i], path>> \in led /\ \A j \in 1..i - 1 : Tried[j] \in missed
        /\ code = "file_not_found" => ToSet(Tried) \subseteq missed

\* What an answer of any tool may be about
Permitted(code, path) ==
    code = "ok" =>
        \/ allowed \/ path \in Inside
        \/ tool = "list_tables" /\ InIndex[arg] # None /\ links[InIndex[arg]] = path

\* What an answer of any tool has to say when nothing changes
Agrees(code, path) == code = "ok" /\ calm => Matched(path)

LEMMA Refusal == ASSUME NEW code \in Refusals 
    PROVE Justified(code, None) /\ Agrees(code, None) /\ Permitted(code, None)
BY DEF Justified, Agrees, Permitted, Refusals

\* An answer is kept apart from the other tools' answers.
LEMMA Answering ==
    ASSUME Resolving, Still, stage # "idle", NEW code \in Codes, NEW path \in Paths \cup {None},
           Answer(code, path), Justified(code, path), Permitted(code, path), Agrees(code, path)
    PROVE  Resolving'
<1>1. /\ tool \in Tools /\ tool' = tool /\ todo' = todo /\ real' = real /\ stage' = "idle"
      /\ answers' = [answers EXCEPT ![tool] = [code |-> code, path |-> path, calm |-> calm]]
      /\ Tried' = Tried
  BY DEF Answer, Resolving, CallTypes, Still, Tried
<1>2. [code |-> code, path |-> path, calm |-> calm] \in AnswerSet
  BY DEF AnswerSet, Resolving, CallTypes
<1>3. /\ answers'[tool].code = code /\ answers'[tool].path = path /\ answers'[tool].calm = calm
      /\ \A t \in Tools \ {tool} : answers'[t] = answers[t]
      /\ answers' \in [Tools -> AnswerSet]
  BY <1>1, <1>2 DEF Resolving, CallTypes
<1>4. CallTypes' /\ Trying'
  BY <1>1, <1>3 DEF Resolving, CallTypes, Trying, Still
<1>5. StaysInside'
  <2> SUFFICES ASSUME NEW t \in Tools, answers'[t].code = "ok", ~allowed, answers'[t].path \notin Inside
               PROVE  /\ t = "list_tables" /\ InIndex[arg] # None
                      /\ links[InIndex[arg]] = answers'[t].path
    BY DEF StaysInside, Still
  <2>2. CASE t = tool
    BY <2>2, <1>3 DEF Permitted
  <2>3. CASE t # tool
    BY <2>3, <1>3 DEF Resolving, StaysInside
  <2> QED
    BY <2>2, <2>3
<1>6. AnswerJustified'
  BY <1>1, <1>3 DEF AnswerJustified, Justified, Tried, Still
<1>7. \A t \in Tools : answers'[t].code = "ok" /\ answers'[t].calm => Matched(answers'[t].path)
  <2> SUFFICES ASSUME NEW t \in Tools, answers'[t].code = "ok", answers'[t].calm
               PROVE  Matched(answers'[t].path)
    OBVIOUS
  <2>1. CASE t = tool
    BY <2>1, <1>3 DEF Agrees
  <2>2. CASE t # tool
    BY <2>2, <1>3 DEF Resolving, AnswersMatch
  <2> QED
    BY <2>1, <2>2
<1>8. AnswersMatch'
  <2>1. \A p : IsFile(p) <=> IsFile(p)'
    BY DEF Still, IsFile
  <2> QED
    BY <1>1, <1>7, <2>1 DEF AnswersMatch, Matched, MatchAt, Still
<1> QED
  BY <1>1, <1>4, <1>5, <1>6, <1>8, StillObserved, StillCalm DEF Resolving

\* The call goes on with the candidates it has, or with all but the first.
LEMMA GoingOn ==
    ASSUME Resolving, Still, stage # "idle", NEW next \in {"try", "resolve", "size", "synthetic"},
           NEW target \in Paths \cup {None},
           Goto(next, todo, target) \/ (todo # <<>> /\ Head(todo) \in missed /\ Goto(next, Tail(todo), target)),
           next # "try" => todo' = todo /\ todo # <<>>,
           next = "synthetic" => tool = "list_tables",
           next \in {"size", "synthetic"} => <<Head(todo), target>> \in led /\ (allowed \/ target \in Inside)
    PROVE  Resolving'
<1>1. /\ stage' = next /\ real' = target /\ tool' = tool /\ answers' = answers /\ tool \in Tools
      /\ Tried' = Tried
  BY DEF Goto, Resolving, CallTypes, Still, Tried
<1>2. todo \in Seq(Paths) /\ \E k \in Nat : Behind(k)
  BY DEF Resolving, Trying
<1>3. PICK k \in Nat : Behind(k)
  BY <1>2
<1>4. todo' \in Seq(Paths) /\ \E m \in Nat : Behind(m)'
  <2>1. CASE todo' = todo
    <3>1. Behind(k)'
      BY <2>1, <1>1, <1>3 DEF Behind, Still
    <3> QED
      BY <2>1, <1>2, <3>1
  <2>2. CASE todo # <<>> /\ Head(todo) \in missed /\ todo' = Tail(todo)
    <3>1. /\ Len(todo) \in Nat \ {0} /\ Head(todo) = todo[1]
          /\ Tail(todo) \in Seq(Paths) /\ Len(Tail(todo)) = Len(todo) - 1
          /\ \A i \in 1..Len(todo) - 1 : Tail(todo)[i] = todo[i + 1]
      BY <1>2, <2>2, HeadTailProperties, EmptySeq
    <3>2. Tried[k + 1] \in missed
      <4>1. 1 \in 1..Len(todo)
        BY <3>1
      <4> QED
        BY <4>1, <1>3, <2>2, <3>1 DEF Behind
    <3>3. k + 1 + Len(Tail(todo)) = Len(Tried)
      BY <1>3, <3>1 DEF Behind
    <3>4. \A i \in 1..Len(Tail(todo)) : Tail(todo)[i] = Tried[k + 1 + i]
      <4> TAKE i \in 1..Len(Tail(todo))
      <4>1. i + 1 \in 1..Len(todo) /\ Tail(todo)[i] = todo[i + 1]
        BY <3>1
      <4>2. todo[i + 1] = Tried[k + (i + 1)]
        BY <4>1, <1>3 DEF Behind
      <4>3. k + (i + 1) = k + 1 + i
        OBVIOUS
      <4> QED
        BY <4>1, <4>2, <4>3
    <3>5. \A j \in 1..k + 1 : Tried[j] \in missed
      <4> TAKE j \in 1..k + 1
      <4>1. j \in 1..k \/ j = k + 1
        OBVIOUS
      <4> QED
        BY <4>1, <3>2, <1>3 DEF Behind
    <3>6. Behind(k + 1)'
      BY <2>2, <1>1, <3>3, <3>4, <3>5 DEF Behind, Still
    <3>7. k + 1 \in Nat
      OBVIOUS
    <3> QED
      BY <2>2, <3>1, <3>6, <3>7
  <2> QED
    BY <2>1, <2>2 DEF Goto
<1>5. CallTypes'
  BY <1>1 DEF Resolving, CallTypes, Still
<1>6. Trying'
  BY <1>1, <1>4 DEF Trying, Still
<1>7. StaysInside' /\ AnswerJustified'
  BY <1>1 DEF Resolving, StaysInside, AnswerJustified, Still
<1>8. AnswersMatch'
  BY <1>1, StillCalm DEF Resolving, AnswersMatch
<1> QED
  BY <1>1, <1>5, <1>6, <1>7, <1>8, StillObserved, StillCalm DEF Resolving

LEMMA LookupStep == ASSUME Resolving, Still, Lookup PROVE Resolving'
<1>1. stage = "index" /\ tool = "list_tables"
  BY DEF Lookup, Resolving, CallTypes
<1>2. \A p \in Paths : Targets(p) \subseteq Paths
  BY DEF Targets, Resolving, CallTypes
<1>3. InIndex[arg] \in Paths \cup {None}
  BY CandidatesAssumption, PathsAssumption DEF Resolving, CallTypes
<1>4. \A code, path : Justified(code, path)
  BY <1>1 DEF Justified
<1>5. CASE Goto("try", todo, None)
  BY <1>1, <1>5, GoingOn
<1>6. CASE Answer("qvw_dir_unreadable", None)
  <2>1. "qvw_dir_unreadable" \in Codes
    BY DEF Codes, Refusals
  <2>2. Agrees("qvw_dir_unreadable", None) /\ Permitted("qvw_dir_unreadable", None)
    BY DEF Agrees, Permitted
  <2> QED
    BY <2>1, <2>2, <1>1, <1>4, <1>6, Answering
<1>7. CASE InIndex[arg] # None /\ \E q \in Targets(InIndex[arg]) : Answer("ok", q)
  <2>1. PICK q \in Targets(InIndex[arg]) : Answer("ok", q)
    BY <1>7
  <2>2. "ok" \in Codes /\ q \in Paths
    BY <1>2, <1>3, <1>7, <2>1 DEF Codes, Refusals
  <2>3. Agrees("ok", q) /\ Permitted("ok", q)
    BY <1>1, <1>7, <2>1 DEF Agrees, Permitted, Matched, Targets, IsFile
  <2> QED
    BY <2>1, <2>2, <2>3, <1>1, <1>4, Answering
<1> QED
  BY <1>5, <1>6, <1>7, Zenon DEF Lookup, Globbed

LEMMA HeadType == ASSUME Resolving, stage # "idle", todo # <<>> PROVE Head(todo) \in Paths
BY HeadTailProperties DEF Resolving, Trying

\* Behind all candidates there is nothing but missing ones.
LEMMA AllBehind == ASSUME Resolving, stage # "idle", todo = <<>> PROVE ToSet(Tried) \subseteq missed
<1>1. PICK k \in Nat : Behind(k)
  BY DEF Resolving, Trying
<1>2. k = Len(Tried) /\ \A j \in 1..k : Tried[j] \in missed
  BY <1>1 DEF Behind
<1>3. DOMAIN Tried = 1..Len(Tried)
  BY TriedType DEF Resolving, CallTypes
<1> QED
  BY <1>2, <1>3 DEF ToSet

LEMMA TryStep == ASSUME Resolving, Still, Try PROVE Resolving'
<1>1. stage = "try"
  BY DEF Try
<1>2. CASE todo = <<>>
  <2>1. Answer("file_not_found", None)
    BY <1>2 DEF Try
  <2>2. "file_not_found" \in Codes /\ "file_not_found" # "ok"
    BY DEF Codes
  <2>3. /\ Justified("file_not_found", None) /\ Permitted("file_not_found", None)
        /\ Agrees("file_not_found", None)
    BY <2>2, <1>1, <1>2, AllBehind DEF Justified, Permitted, Agrees
  <2> QED
    BY <2>1, <2>2, <2>3, <1>1, Answering
<1>3. CASE todo # <<>> /\ ~IsFile(Head(todo))
  <2>1. Goto("try", Tail(todo), None)
    BY <1>3 DEF Try
  <2>2. Head(todo) \in missed
    BY <1>1, <1>3, HeadType DEF Resolving, Observed, CallTypes
  <2> QED
    BY <2>1, <2>2, <1>1, <1>3, GoingOn
<1>4. CASE todo # <<>> /\ IsFile(Head(todo))
  <2>1. Goto("resolve", todo, None) /\ todo' = todo
    BY <1>4 DEF Try, Goto
  <2> QED
    BY <2>1, <1>1, <1>4, GoingOn
<1> QED
  BY <1>2, <1>3, <1>4

LEMMA ResolveStep == ASSUME Resolving, Still, Resolve PROVE Resolving'
<1>1. stage = "resolve" /\ todo # <<>>
  BY DEF Resolve, Resolving, Trying
<1>2. Head(todo) \in Paths /\ tool \in Tools
  BY <1>1, HeadType DEF Resolving, CallTypes
<1>3. CASE ~IsFile(Head(todo))
  <2>1. Targets(Head(todo)) = {}
    BY <1>3 DEF Targets, IsFile
  <2>2. Goto("try", Tail(todo), None)
    BY <2>1 DEF Resolve
  <2>3. Head(todo) \in missed
    BY <1>2, <1>3 DEF Resolving, Observed
  <2> QED
    BY <2>2, <2>3, <1>1, GoingOn
<1>4. CASE IsFile(Head(todo))
  <2> DEFINE q == links[Head(todo)]
  <2>1. Targets(Head(todo)) = {q} /\ q \in Paths /\ <<Head(todo), q>> \in led
    BY <1>2, <1>4 DEF Targets, IsFile, Resolving, Observed, CallTypes
  <2>2. CASE q \in Inside \/ allowed
    <3>1. Goto("size", todo, q) /\ todo' = todo
      BY <2>1, <2>2 DEF Resolve, Within, Goto
    <3> QED
      BY <3>1, <2>1, <2>2, <1>1, GoingOn
  <2>3. CASE ~(q \in Inside \/ allowed)
    <3>1. Answer("unsupported", None)
      BY <2>1, <2>3 DEF Resolve, Within
    <3>2. "unsupported" \in Refusals \cap Codes
      BY DEF Refusals, Codes
    <3> QED
      BY <3>1, <3>2, <1>1, Refusal, Answering
  <2> QED
    BY <2>2, <2>3
<1> QED
  BY <1>3, <1>4

LEMMA SizeStep == ASSUME Resolving, Still, Size \/ Synthetic PROVE Resolving'
<1>1. stage \in {"size", "synthetic"} /\ stage # "idle" /\ todo # <<>>
  BY DEF Size, Synthetic, Resolving, Trying
<1>2. <<Head(todo), real>> \in led /\ (allowed \/ real \in Inside) /\ real \in Paths \cup {None}
  BY <1>1 DEF Resolving, Trying, CallTypes
<1>3. \E i \in DOMAIN Tried : <<Tried[i], real>> \in led /\ \A j \in 1..i - 1 : Tried[j] \in missed
  <2>1. PICK k \in Nat : Behind(k)
    BY <1>1 DEF Resolving, Trying
  <2>2. todo \in Seq(Paths) /\ Len(todo) \in Nat \ {0} /\ Head(todo) = todo[1]
    BY <1>1, EmptySeq DEF Resolving, Trying
  <2>3. Tried[k + 1] = Head(todo) /\ k + 1 \in 1..Len(Tried)
    BY <2>1, <2>2 DEF Behind
  <2>4. k + 1 \in DOMAIN Tried
    BY <2>3, TriedType DEF Resolving, CallTypes
  <2>5. \A j \in 1..(k + 1) - 1 : Tried[j] \in missed
    BY <2>1 DEF Behind
  <2> QED
    BY <2>3, <2>4, <2>5, <1>2
<1>4. \/ Answer("ok", real) \/ Answer("qvw_dir_unreadable", None) \/ Answer("qvw_too_large", None)
      \/ stage = "size" /\ tool = "list_tables" /\ Goto("synthetic", todo, real)
  BY DEF Size, Synthetic
<1>5. CASE Answer("ok", real)
  <2>1. Justified("ok", real) /\ Permitted("ok", real) /\ "ok" \in Codes
    BY <1>2, <1>3 DEF Justified, Permitted, Codes
  <2>2. Agrees("ok", real)
    <3> SUFFICES ASSUME calm PROVE Matched(real)
      BY DEF Agrees
    <3>1. PICK i \in DOMAIN Tried : <<Tried[i], real>> \in led /\ \A j \in 1..i - 1 : Tried[j] \in missed
      BY <1>3
    <3>2. MatchAt(i, real)
      BY <3>1 DEF Resolving, Calm, Missing, Leading, MatchAt
    <3> QED
      BY <3>2 DEF Matched
  <2> QED
    BY <2>1, <2>2, <1>1, <1>2, <1>5, Answering
<1>6. CASE \E code \in {"qvw_dir_unreadable", "qvw_too_large"} : Answer(code, None)
  <2>1. \A code \in {"qvw_dir_unreadable", "qvw_too_large"} : code \in Refusals \cap Codes
    BY DEF Refusals, Codes
  <2> QED
    BY <2>1, <1>1, <1>6, Refusal, Answering
<1>7. CASE tool = "list_tables" /\ Goto("synthetic", todo, real)
  <2>1. todo' = todo
    BY <1>7 DEF Goto
  <2> QED
    BY <2>1, <1>7, <1>1, <1>2, GoingOn
<1> QED
  BY <1>4, <1>5, <1>6, <1>7

----------------------------------------------------------------------------
LEMMA ResolvingInvariant == RSpec => []Resolving
<1>1. Resolving /\ [RNext]_resolutionVars => Resolving'
  <2> SUFFICES ASSUME Resolving, [RNext]_resolutionVars PROVE Resolving'
    OBVIOUS
  <2>1. CASE Change
    BY <2>1, ChangeStep
  <2>2. CASE \E t \in Tools : Begin(t)
    BY <2>2, BeginStep
  <2>3. CASE (Lookup \/ Try \/ Resolve \/ Size \/ Synthetic)
             /\ UNCHANGED <<allowed, links, large, changes, arg, calm, missed, led>>
    <3>1. Still
      BY <2>3 DEF Still
    <3> QED
      BY <2>3, <3>1, LookupStep, TryStep, ResolveStep, SizeStep
  <2>4. CASE UNCHANGED resolutionVars
    BY <2>4 DEF resolutionVars, callVars, Resolving, CallTypes, Observed, IsFile, Trying, Behind, Tried,
                StaysInside, AnswerJustified, Calm, Missing, Leading, AnswersMatch, Matched, MatchAt
  <2> QED
    BY <2>1, <2>2, <2>3, <2>4 DEF RNext
<1> QED
  BY <1>1, InitResolving, PTL DEF RSpec

\* However other programs move links and files between its steps,
\* _resolve_qvw hands on nothing outside QVW_DIR unless that is allowed, and
\* list_tables nothing but what the link of that very basename leads to.
THEOREM ResolutionInside == RSpec => []StaysInside
<1>1. Resolving => StaysInside
  BY DEF Resolving
<1> QED
  BY <1>1, ResolvingInvariant, PTL

\* However many candidates there are and however the disk changes, an answer
\* of _resolve_qvw is about the first candidate that can be said to be a file.
THEOREM ResolutionJustified == RSpec => []AnswerJustified
<1>1. Resolving => AnswerJustified
  BY DEF Resolving
<1> QED
  BY <1>1, ResolvingInvariant, PTL

\* While nothing changes, the file an argument names is the same for every
\* tool: the index holds the second candidate, so list_tables passes over only
\* a first candidate, the file whose whole name is the argument.
THEOREM ToolsMeanOneFile == RSpec => []ToolsAgree
<1>1. Resolving => ToolsAgree
  <2> SUFFICES ASSUME Resolving, NEW t \in Tools, NEW u \in Tools,
                      answers[t].code = "ok", answers[u].code = "ok", answers[t].calm, answers[u].calm,
                      ~(IsFile(Tried[1]) /\ InIndex[arg] # None)
               PROVE  answers[t].path = answers[u].path
    BY DEF ToolsAgree, Tried
  <2>1. arg \in Args /\ links \in Disks /\ Tried \in Seq(Paths) /\ Tried # <<>>
        /\ DOMAIN Tried = 1..Len(Tried) /\ Len(Tried) \in Nat
    BY CandidatesAssumption DEF Resolving, CallTypes, Tried
  <2>2. \A x, y : (\E i \in DOMAIN Tried : MatchAt(i, x)) /\ (\E i \in DOMAIN Tried : MatchAt(i, y)) => x = y
    <3> SUFFICES ASSUME NEW x, NEW y, NEW i \in DOMAIN Tried, NEW j \in DOMAIN Tried,
                        MatchAt(i, x), MatchAt(j, y)
                 PROVE  x = y
      OBVIOUS
    <3>1. i \in Int /\ j \in Int /\ i >= 1 /\ j >= 1
      BY <2>1
    <3>2. ~(i < j) /\ ~(j < i)
      BY <3>1 DEF MatchAt
    <3> QED
      BY <3>1, <3>2 DEF MatchAt
  <2>3. \A x : InIndex[arg] # None /\ (\E i \in DOMAIN Tried : MatchAt(i, x)) => x = links[InIndex[arg]]
    <3> SUFFICES ASSUME NEW x, NEW i \in DOMAIN Tried, MatchAt(i, x), InIndex[arg] # None
                 PROVE  x = links[InIndex[arg]]
      OBVIOUS
    <3>1. IsFile(Tried[i]) /\ Tried[i] \in Paths /\ Tried[i] \in ToSet(Tried)
      BY <2>1 DEF MatchAt, ToSet
    <3>2. Leads[Tried[i]] # {}
      BY <3>1, <2>1 DEF IsFile, Disks
    <3>3. Len(Tried) = 2 /\ Tried[2] = InIndex[arg]
      BY <3>1, <3>2, <2>1, LookupAssumption DEF Tried
    <3>4. i \in {1, 2}
      BY <2>1, <3>3
    <3> QED
      BY <3>1, <3>3, <3>4 DEF MatchAt
  <2>4. Matched(answers[t].path) /\ Matched(answers[u].path)
    BY DEF Resolving, AnswersMatch
  <2> QED
    BY <2>2, <2>3, <2>4 DEF Matched
<1> QED
  BY <1>1, ResolvingInvariant, PTL

----------------------------------------------------------------------------
(* What boot makes of the environment. *)

Booted ==
    /\ env \in Environments
    /\ booting \in {"config", "store", "level", "served", "crashed"}
    /\ booting = "config" => config = {} /\ error = "none"
    /\ booting \in {"store", "level"} =>
        config = {env} /\ error = "none" /\ env.dir = "directory" /\ env.numbers = "good"
    /\ booting = "level" => limit = env.limit
    /\ BootDecides

\* In every environment boot ends serving with one configuration and its
\* limit, or degraded with the error named, or it does not start for one of
\* the reasons that stop it.
THEOREM BootDecided == BSpec => []BootDecides
<1>1. BInit => Booted
  BY DEF BInit, Booted, BootDecides
<1>2. Booted /\ [BNext]_bootVars => Booted'
  <2> SUFFICES ASSUME Booted, [BNext]_bootVars PROVE Booted'
    OBVIOUS
  <2>1. CASE Configure
    <3>1. env.dir = "directory" /\ env.numbers = "good"
      BY <2>1 DEF Configure, Raised, Booted, Environments
    <3> QED
      BY <3>1, <2>1 DEF Configure, Booted, BootDecides
  <2>2. CASE WireStore
    BY <2>2 DEF WireStore, Booted, BootDecides
  <2>3. CASE SetLevel
    BY <2>3 DEF SetLevel, Booted, BootDecides
  <2>4. CASE Degrade
    <3>1. PICK exc \in Raised :
            /\ config' = {}
            /\ error' = CASE exc = "ValidationError" -> "qvw_dir_missing"
                          [] exc = "OSError" -> "qvw_dir_unreadable"
                          [] OTHER -> error
            /\ booting' = IF exc = "RuntimeError" THEN "crashed" ELSE "served"
      BY <2>4 DEF Degrade
    <3>2. booting = "config" /\ env' = env
      BY <2>4 DEF Degrade
    <3>3. exc \in {"RuntimeError", "ValidationError", "OSError"}
      BY <3>1 DEF Raised
    <3>4. exc = "RuntimeError" => env.dir \in {"no_home", "loop"}
      BY <3>1 DEF Raised
    <3> QED
      BY <3>1, <3>2, <3>3, <3>4 DEF Booted, BootDecides
  <2>5. CASE UNCHANGED bootVars
    BY <2>5 DEF bootVars, Booted, BootDecides
  <2> QED
    BY <2>1, <2>2, <2>3, <2>4, <2>5 DEF BNext
<1>3. Booted => BootDecides
  BY DEF Booted
<1> QED
  BY <1>1, <1>2, <1>3, PTL DEF BSpec
====
