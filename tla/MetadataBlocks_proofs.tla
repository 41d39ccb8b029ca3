---- MODULE MetadataBlocks_proofs ----
(***************************************************************************)
(* Theorems about EntryTable, for blocks of any size and content, and      *)
(* about MetadataBlocks, for containers of any blocks.  TableState is the  *)
(* inductive invariant of a decoder: EntriesTile, and the types of the     *)
(* variables that its loop depends on.  FileState is that of the whole     *)
(* decoding, and adds what each part of the metadata was read from.        *)
(***************************************************************************)
EXTENDS MetadataBlocks, FiniteSetTheorems, SequenceTheorems, WellFoundedInduction, TLAPS

SymbolSet == [flag : Flags, text : Seq(Bytes), at : Nat, next : Nat, number : Seq(Bytes)]

TableState ==
    /\ buf \in Seq(Bytes)
    /\ stage \in {"header", "entries", "decoded", "refused"}
    /\ stage = "header" => out = <<>>
    /\ pos \in Nat
    /\ out \in Seq(SymbolSet)
    /\ EntriesTile

----------------------------------------------------------------------------
(* What the readers of one entry return. *)

LEMMA ByteAt ==
    ASSUME NEW b \in Seq(Bytes), NEW i \in Nat \ {0}, i <= Len(b)
    PROVE  b[i] \in Nat
<1>1. i \in 1..Len(b)
  OBVIOUS
<1>2. b[i] \in Bytes
  BY <1>1, ElementOfSeq
<1> QED
  BY <1>2, WidthAssumption DEF Bytes

LEMMA NumberNat ==
    ASSUME NEW b \in Seq(Bytes), NEW p \in Nat, p + Width <= Len(b)
    PROVE  Number(b, p) \in Nat
<1> DEFINE Byte(i) == IF i <= Width THEN b[p + i] ELSE 0
           Base == Escape + 1
<1>1. \A i \in 1..4 : Byte(i) \in Nat
  <2> SUFFICES ASSUME NEW i \in 1..4, i <= Width PROVE b[p + i] \in Nat
    OBVIOUS
  <2>1. p + i \in Nat \ {0} /\ p + i <= Len(b)
    BY WidthAssumption
  <2> QED
    BY <2>1, ByteAt
<1>2. Base \in Nat
  BY WidthAssumption
<1>3. \A m, n \in Nat : m + Base * n \in Nat
  BY <1>2
<1>4. Number(b, p) = Byte(1) + Base * (Byte(2) + Base * (Byte(3) + Base * Byte(4)))
  BY DEF Number
<1> HIDE DEF Byte, Base
<1>5. /\ Byte(1) \in Nat /\ Byte(2) \in Nat /\ Byte(3) \in Nat /\ Byte(4) \in Nat
  BY <1>1
<1>6. Byte(3) + Base * Byte(4) \in Nat
  BY <1>3, <1>5
<1>7. Byte(2) + Base * (Byte(3) + Base * Byte(4)) \in Nat
  BY <1>3, <1>5, <1>6
<1>8. Byte(1) + Base * (Byte(2) + Base * (Byte(3) + Base * Byte(4))) \in Nat
  BY <1>3, <1>5, <1>7
<1> QED
  BY <1>4, <1>8

LEMMA SliceType ==
    ASSUME NEW b \in Seq(Bytes), NEW from \in Nat, NEW to \in Nat
    PROVE  Slice(b, from, to) \in Seq(Bytes)
<1> DEFINE last == IF to < Len(b) THEN to ELSE Len(b)
<1>1. from + 1 \in Nat /\ last \in Nat /\ last <= Len(b)
  OBVIOUS
<1>2. \A i \in from + 1..last : i \in 1..Len(b)
  BY <1>1
<1>3. SubSeq(b, from + 1, last) \in Seq(Bytes)
  BY <1>1, <1>2, SubSeqProperties
<1> QED
  BY <1>3 DEF Slice

\* A text lies in the block, after its length byte.
LEMMA SpansWithin ==
    ASSUME NEW b \in Seq(Bytes), NEW p \in Nat, NEW s \in Spans(b, p)
    PROVE  s.from \in Nat /\ s.to \in Nat /\ p < s.from /\ s.from <= s.to /\ s.to <= Len(b)
<1> DEFINE from == IF Escaped(b, p) THEN p + 1 + Width ELSE p + 1
           length == IF Escaped(b, p) THEN Number(b, p + 1) ELSE b[p + 1]
           to == from + length
<1>1. /\ p < Len(b) /\ Fits(b, from) /\ Fits(b, to)
      /\ s = [from |-> from, to |-> to]
  BY DEF Spans
<1>2. from \in Nat /\ p < from /\ from <= Len(b)
  BY <1>1, WidthAssumption DEF Fits
<1>3. length \in Nat
  <2>1. CASE Escaped(b, p)
    <3>1. p + 1 \in Nat /\ p + 1 + Width <= Len(b)
      BY <2>1, <1>2
    <3>2. Number(b, p + 1) \in Nat
      BY <3>1, NumberNat
    <3> QED
      BY <2>1, <3>2
  <2>2. CASE ~Escaped(b, p)
    <3>1. p + 1 \in Nat \ {0} /\ p + 1 <= Len(b)
      BY <1>1
    <3>2. b[p + 1] \in Nat
      BY <3>1, ByteAt
    <3> QED
      BY <2>2, <3>2
  <2> QED
    BY <2>1, <2>2
<1>4. to \in Nat /\ from <= to /\ to <= Len(b)
  <2> HIDE DEF from, length
  <2>1. to <= Len(b)
    BY <1>1 DEF Fits
  <2> QED
    BY <2>1, <1>2, <1>3
<1>5. s.from = from /\ s.to = to
  BY <1>1
<1> QED
  BY <1>2, <1>4, <1>5

LEMMA LeadTrail == \A f \in Flags : Lead(f) \in Nat /\ Trail(f) \in Nat
BY WidthAssumption DEF Lead, Trail

LEMMA SymbolsWithin ==
    ASSUME NEW b \in Seq(Bytes), NEW p \in Nat, NEW e \in SymbolsAt(b, p)
    PROVE  e \in SymbolSet /\ e.at = p /\ p < e.next /\ e.next <= Len(b)
<1> DEFINE flag == b[p + 1]
           text == p + 1 + Lead(flag)
           spans == IF flag \in Texts THEN Spans(b, text) ELSE {[from |-> text, to |-> text]}
           next(s) == s.to + Trail(flag)
           symbol(s) == [flag |-> flag, text |-> Slice(b, s.from, s.to), at |-> p, next |-> next(s),
                         number |-> Slice(b, p + 1, text) \o Slice(b, s.to, next(s))]
<1>1. /\ p < Len(b) /\ flag \in Flags /\ Fits(b, text)
      /\ e \in {symbol(s) : s \in {s \in spans : Fits(b, s.to + Trail(flag))}}
  BY DEF SymbolsAt
<1>2. PICK s \in spans : Fits(b, s.to + Trail(flag)) /\ e = symbol(s)
  BY <1>1
<1>3. Lead(flag) \in Nat /\ Trail(flag) \in Nat
  BY <1>1, LeadTrail
<1>4. text \in Nat /\ p < text /\ text <= Len(b)
  <2> HIDE DEF flag
  <2> QED
    BY <1>1, <1>3 DEF Fits
<1>5. s.from \in Nat /\ s.to \in Nat /\ p < s.to
  <2> HIDE DEF text
  <2>1. CASE flag \in Texts
    <3>1. s \in Spans(b, text)
      BY <1>2, <2>1
    <3>2. s.from \in Nat /\ s.to \in Nat /\ text < s.from /\ s.from <= s.to
      BY <3>1, <1>4, SpansWithin
    <3> QED
      BY <3>2, <1>4
  <2>2. CASE flag \notin Texts
    <3>1. s = [from |-> text, to |-> text]
      BY <1>2, <2>2
    <3> QED
      BY <3>1, <1>4
  <2> QED
    BY <2>1, <2>2
<1>6. next(s) \in Nat /\ p < next(s) /\ next(s) <= Len(b)
  <2>1. next(s) <= Len(b)
    BY <1>2 DEF Fits
  <2> HIDE DEF flag
  <2> QED
    BY <2>1, <1>3, <1>5
<1>7. /\ Slice(b, s.from, s.to) \in Seq(Bytes) /\ Slice(b, p + 1, text) \in Seq(Bytes)
      /\ Slice(b, s.to, next(s)) \in Seq(Bytes)
  <2>1. Slice(b, s.from, s.to) \in Seq(Bytes)
    BY <1>5, SliceType
  <2>2. p + 1 \in Nat
    OBVIOUS
  <2>3. Slice(b, p + 1, text) \in Seq(Bytes)
    <3> HIDE DEF text
    <3> QED
      BY <1>4, <2>2, SliceType
  <2>4. Slice(b, s.to, next(s)) \in Seq(Bytes)
    <3> HIDE DEF next
    <3> QED
      BY <1>5, <1>6, SliceType
  <2> HIDE DEF text, next
  <2> QED
    BY <2>1, <2>3, <2>4
<1>8. Slice(b, p + 1, text) \o Slice(b, s.to, next(s)) \in Seq(Bytes)
  BY <1>7, ConcatProperties
<1>9. symbol(s) \in SymbolSet
  <2> HIDE DEF flag, text, next
  <2> QED
    BY <1>1, <1>6, <1>7, <1>8 DEF SymbolSet
<1>10. symbol(s).at = p /\ symbol(s).next = next(s)
  OBVIOUS
<1> QED
  BY <1>2, <1>6, <1>9, <1>10

LEMMA EntriesWithin ==
    ASSUME TableState, NEW e \in EntriesAt(pos)
    PROVE  e \in SymbolSet /\ e.at = pos /\ pos < e.next /\ e.next <= Len(buf)
<1>1. e \in SymbolsAt(buf, pos)
  BY DEF EntriesAt, StringsAt
<1> QED
  BY <1>1, SymbolsWithin DEF TableState

----------------------------------------------------------------------------
(* The loop. *)

LEMMA EntryStep == ASSUME TableState, Entry PROVE TableState'
<1>1. PICK e \in EntriesAt(pos) : out' = Append(out, e) /\ pos' = e.next
  BY DEF Entry
<1>2. stage = "entries" /\ UNCHANGED <<buf, stage>>
  BY DEF Entry
<1>3. e \in SymbolSet /\ e.at = pos /\ pos < e.next /\ e.next <= Len(buf)
  BY EntriesWithin
<1>4. out \in Seq(SymbolSet) /\ pos \in Nat /\ e.next \in Nat /\ buf \in Seq(Bytes)
  BY <1>3 DEF TableState, SymbolSet
<1>5. /\ out' \in Seq(SymbolSet) /\ Len(out') = Len(out) + 1
      /\ DOMAIN out = 1..Len(out) /\ DOMAIN out' = 1..Len(out) + 1
      /\ \A i \in 1..Len(out) : out'[i] = out[i]
      /\ out'[Len(out) + 1] = e
  BY <1>1, <1>3, <1>4
<1>6. out' # <<>> /\ Last(out') = e
  BY <1>4, <1>5 DEF Last
<1>7. pos = IF out = <<>> THEN Header ELSE Last(out).next
  BY <1>2 DEF TableState, EntriesTile
<1>8. Last(out) = out[Len(out)]
  BY DEF Last
<1>9. ASSUME NEW i \in DOMAIN out'
      PROVE  /\ out'[i].at = IF i = 1 THEN Header ELSE out'[i - 1].next
             /\ out'[i].at < out'[i].next /\ out'[i].next <= Len(buf)
  <2>1. CASE i \in 1..Len(out)
    <3>1. /\ out[i].at = IF i = 1 THEN Header ELSE out[i - 1].next
          /\ out[i].at < out[i].next /\ out[i].next <= Len(buf)
      BY <2>1, <1>5 DEF TableState, EntriesTile
    <3>2. out'[i] = out[i] /\ (i # 1 => out'[i - 1] = out[i - 1])
      BY <2>1, <1>5, <1>4
    <3> QED
      BY <3>1, <3>2
  <2>2. CASE i = Len(out) + 1
    <3>1. out'[i] = e
      BY <2>2, <1>5
    <3>2. i = 1 => out = <<>>
      BY <2>2, <1>4
    <3>3. i # 1 => out # <<>> /\ i - 1 = Len(out) /\ out'[i - 1] = Last(out)
      BY <2>2, <1>4, <1>5, <1>8
    <3> QED
      BY <3>1, <3>2, <3>3, <1>3, <1>7
  <2> QED
    BY <2>1, <2>2, <1>5, <1>4
<1> QED
  BY <1>1, <1>2, <1>3, <1>4, <1>5, <1>6, <1>9 DEF TableState, EntriesTile

LEMMA HeaderStep == ASSUME TableState, ReadHeader PROVE TableState'
<1>1. out = <<>> /\ UNCHANGED <<buf, out>>
  BY DEF ReadHeader, TableState
<1>2. Header \in Nat
  BY WidthAssumption DEF Header
<1>3. CASE HeaderOK
  <2>1. stage' = "entries" /\ pos' = Header /\ Header <= Len(buf)
    BY <1>2, <1>3 DEF ReadHeader, HeaderOK, TableState
  <2> QED
    BY <2>1, <1>1, <1>2 DEF TableState, EntriesTile
<1>4. CASE ~HeaderOK
  <2>1. stage' = "refused" /\ pos' = pos
    BY <1>4 DEF ReadHeader
  <2> QED
    BY <2>1, <1>1 DEF TableState, EntriesTile
<1> QED
  BY <1>3, <1>4

LEMMA OtherSteps == ASSUME TableState, Refuse \/ Return \/ UNCHANGED tableVars PROVE TableState'
BY DEF TableState, EntriesTile, Refuse, Return, tableVars

\* What a table says of itself, its count and its lengths, never leads a
\* decoder out of the block: in a block of any size and content the entries
\* tile it from the header to the cursor.
THEOREM TablesTile == TableSpec => []EntriesTile
<1>1. TableInit => TableState
  <2> SUFFICES ASSUME TableInit PROVE TableState
    OBVIOUS
  <2>1. buf \in Seq(Bytes) /\ stage = "header" /\ pos = 0 /\ out = <<>>
    BY DEF TableInit, Call
  <2> QED
    BY <2>1 DEF TableState, EntriesTile
<1>2. TableState /\ [TableNext]_tableVars => TableState'
  BY EntryStep, HeaderStep, OtherSteps DEF TableNext
<1>3. TableState => EntriesTile
  BY DEF TableState
<1> QED
  BY <1>1, <1>2, <1>3, PTL DEF TableSpec

----------------------------------------------------------------------------
(* Least and greatest elements, and what stripping makes of a block. *)

LEMMA SmallestOf ==
    ASSUME NEW S \in SUBSET Nat, S # {}
    PROVE  Min(S) \in S /\ \A y \in S : Min(S) <= y
<1> DEFINE R == OpToRel(<, Nat)
<1>1. IsWellFoundedOn(R, Nat)
  BY NatLessThanWellFounded
<1>2. PICK x \in S : \A y \in S : <<y, x>> \notin R
  BY <1>1, WFMin, Zenon
<1>3. \A y \in S : x <= y
  <2> TAKE y \in S
  <2>1. x \in Nat /\ y \in Nat
    OBVIOUS
  <2>2. ~(y < x)
    BY <1>2, <2>1 DEF OpToRel
  <2> QED
    BY <2>1, <2>2
<1> QED
  BY <1>2, <1>3 DEF Min

LEMMA LargestOf ==
    ASSUME NEW n \in Nat, NEW S \in SUBSET (0..n), S # {}
    PROVE  Max(S) \in S /\ \A y \in S : y <= Max(S)
<1> DEFINE D == {k \in 0..n : n - k \in S}
<1>1. D \in SUBSET Nat /\ D # {}
  <2>1. PICK x \in S : TRUE
    OBVIOUS
  <2>2. n - x \in 0..n /\ n - (n - x) = x
    OBVIOUS
  <2>3. n - x \in D
    BY <2>2
  <2>4. 0..n \subseteq Nat
    OBVIOUS
  <2>5. D \subseteq Nat
    BY <2>4
  <2>6. D # {}
    <3> HIDE DEF D
    <3> QED
      BY <2>3
  <2> QED
    BY <2>5, <2>6
<1>2. PICK k \in D : \A j \in D : k <= j
  <2> HIDE DEF D
  <2>1. Min(D) \in D /\ \A j \in D : Min(D) <= j
    BY <1>1, SmallestOf
  <2> QED
    BY <2>1
<1>3. n - k \in S /\ \A y \in S : y <= n - k
  <2>1. n - k \in S
    OBVIOUS
  <2>2. ASSUME NEW y \in S PROVE y <= n - k
    <3>1. n - y \in 0..n /\ n - (n - y) = y
      OBVIOUS
    <3>2. k <= n - y
      BY <3>1, <1>2
    <3> QED
      BY <3>2
  <2> QED
    BY <2>1, <2>2
<1> QED
  BY <1>3 DEF Max

\* The script of a block: from the first marker to the last byte that is not 0
WholeScript(b, raw) ==
    \E first \in DOMAIN b :
        /\ b[first] = Marker /\ \A i \in 1..first - 1 : b[i] # Marker
        /\ SubSeq(b, first, first + Len(raw) - 1) = raw
        /\ \A i \in first + Len(raw)..Len(b) : b[i] = 0
        /\ Len(raw) > 0 /\ raw[Len(raw)] # 0

LEMMA ScriptCut ==
    ASSUME NEW b \in Seq(Bytes), Located(b)
    PROVE  /\ Stripped(FromMarker(b)) \in Seq(Bytes)
           /\ WholeScript(b, Stripped(FromMarker(b)))
<1> DEFINE S == {i \in DOMAIN b : b[i] = Marker}
           first == Min(S)
           f == SubSeq(b, first, Len(b))
<1>1. DOMAIN b = 1..Len(b) /\ Len(b) \in Nat
  OBVIOUS
<1>2. first \in 1..Len(b) /\ b[first] = Marker /\ \A i \in 1..Len(b) : b[i] = Marker => first <= i
  <2>1. S \in SUBSET Nat /\ S # {}
    BY <1>1 DEF Located, ToSet
  <2>2. Min(S) \in S /\ \A y \in S : Min(S) <= y
    <3> HIDE DEF S
    <3> QED
      BY <2>1, SmallestOf
  <2> QED
    BY <1>1, <2>2
<1> HIDE DEF S, first
<1>3. FromMarker(b) = f
  BY DEF FromMarker, f, first, S
<1>4. /\ f \in Seq(Bytes) /\ Len(f) = Len(b) - first + 1
      /\ \A i \in 1..Len(b) - first + 1 : f[i] = b[first + i - 1]
  <2>1. \A i \in first..Len(b) : b[i] \in Bytes
    BY <1>1, <1>2
  <2>2. first \in Int /\ Len(b) \in Int /\ first <= Len(b)
    BY <1>1, <1>2
  <2> QED
    BY <2>1, <2>2, SubSeqProperties
<1> HIDE DEF f
<1> DEFINE N == {0} \cup {i \in DOMAIN f : f[i] # 0}
           m == Max(N)
           raw == SubSeq(f, 1, m)
<1>5. Len(f) \in Nat \ {0} /\ DOMAIN f = 1..Len(f)
  BY <1>1, <1>2, <1>4
<1>6. f[1] = Marker /\ Marker # 0
  <2>1. 1 \in 1..Len(b) - first + 1 /\ first + 1 - 1 = first
    BY <1>1, <1>2
  <2> QED
    BY <2>1, <1>2, <1>4, MarkerAssumption
<1>7. m \in 1..Len(f) /\ f[m] # 0 /\ \A i \in 1..Len(f) : f[i] # 0 => i <= m
  <2>1. N \in SUBSET (0..Len(f)) /\ N # {} /\ 1 \in N
    BY <1>5, <1>6
  <2>2. Max(N) \in N /\ \A y \in N : y <= Max(N)
    <3> HIDE DEF N
    <3> QED
      BY <2>1, <1>5, LargestOf
  <2>3. Max(N) # 0
    <3>1. 1 <= Max(N)
      BY <2>1, <2>2
    <3> QED
      BY <3>1
  <2> QED
    BY <2>2, <2>3, <1>5
<1> HIDE DEF N, m
<1>8. Stripped(f) = raw
  BY DEF Stripped, raw, m, N
<1>9. /\ raw \in Seq(Bytes) /\ Len(raw) = m
      /\ \A i \in 1..m : raw[i] = f[i]
  <2>1. \A i \in 1..m : f[i] \in Bytes
    BY <1>4, <1>5, <1>7
  <2>2. m \in Int /\ 1 <= m
    BY <1>5, <1>7
  <2>3. /\ SubSeq(f, 1, m) \in Seq(Bytes) /\ Len(SubSeq(f, 1, m)) = m - 1 + 1
        /\ \A i \in 1..m - 1 + 1 : SubSeq(f, 1, m)[i] = f[1 + i - 1]
    BY <2>1, <2>2, SubSeqProperties
  <2>4. m - 1 + 1 = m /\ \A i \in 1..m : 1 + i - 1 = i
    BY <2>2
  <2> QED
    BY <2>3, <2>4
<1> HIDE DEF raw
<1>10. SubSeq(b, first, first + m - 1) = raw
  <2> DEFINE s == SubSeq(b, first, first + m - 1)
  <2>1. first + m - 1 <= Len(b) /\ first <= first + m - 1 /\ (first + m - 1) - first + 1 = m
        /\ first \in Int /\ first + m - 1 \in Int
    BY <1>1, <1>2, <1>4, <1>5, <1>7
  <2>2. \A i \in first..first + m - 1 : b[i] \in Bytes
    BY <1>1, <1>2, <2>1
  <2>3. s \in Seq(Bytes) /\ Len(s) = m /\ \A i \in 1..m : s[i] = b[first + i - 1]
    BY <2>1, <2>2, SubSeqProperties
  <2> HIDE DEF s
  <2>4. \A i \in 1..m : s[i] = raw[i]
    <3> TAKE i \in 1..m
    <3>1. i \in 1..Len(b) - first + 1
      BY <1>1, <1>2, <1>4, <1>5, <1>7
    <3> QED
      BY <3>1, <2>3, <1>4, <1>9
  <2>5. s = raw
    BY <2>3, <2>4, <1>9, SeqEqual
  <2> QED
    BY <2>5 DEF s
<1>11. \A i \in first + m..Len(b) : b[i] = 0
  <2> TAKE i \in first + m..Len(b)
  <2>1. i - first + 1 \in 1..Len(b) - first + 1 /\ ~(i - first + 1 <= m) /\ first + (i - first + 1) - 1 = i
    BY <1>1, <1>2, <1>5, <1>7
  <2>2. f[i - first + 1] = b[i]
    BY <2>1, <1>4
  <2>3. i - first + 1 \in 1..Len(f)
    BY <2>1, <1>4
  <2> QED
    BY <2>1, <2>2, <2>3, <1>7
<1>12. \A i \in 1..first - 1 : b[i] # Marker
  <2> TAKE i \in 1..first - 1
  <2>1. i \in 1..Len(b) /\ ~(first <= i)
    BY <1>1, <1>2
  <2> QED
    BY <2>1, <1>2
<1>13. Len(raw) > 0 /\ raw[Len(raw)] # 0
  BY <1>5, <1>7, <1>9
<1>14. WholeScript(b, raw)
  BY <1>1, <1>2, <1>9, <1>10, <1>11, <1>12, <1>13 DEF WholeScript
<1> QED
  BY <1>3, <1>8, <1>9, <1>14

----------------------------------------------------------------------------
(* Decoding a container. *)

MetaTypes ==
    /\ mode \in Modes /\ pos <= Len(buf)
    /\ blocks \in Seq(ContainerBlocks) /\ prj \subseteq Seq(Bytes)
    /\ step \in Steps
    /\ at \in 1..Len(blocks) + 1
    /\ pending \in [first : 1..Len(blocks) + 1, payload : Seq(Bytes)]
    /\ step \in {"scan", "values"} => pending.first <= at
    /\ step \notin {"script", "failed"} => Len(blocks) >= 3
    /\ step \in {"fields", "tables", "values"} => at <= Len(blocks)
    /\ script.raw \in Seq(Bytes) /\ script.replaced \in 0..Len(script.raw)
    /\ fields \in Seq(Seq(Bytes)) /\ tables \in Seq(Seq(Bytes))

\* Value sets are added for ever later blocks, and the directory last.
InTurn ==
    /\ step \in {"script", "fields", "tables"} => sets = <<>>
    /\ step \in {"scan", "values"} => \A i \in DOMAIN sets : sets[i].last < pending.first
    /\ SetsInOrder
    /\ step # "parsed" => directory = NoDirectory

\* A decoder reads no more than it is asked for, and a value set has as many
\* samples as its table has entries, or as many as are asked for.
Counted ==
    /\ limit = MaxSamples
    /\ step = "values" => mode = "sample"
    /\ stage \in {"entries", "decoded"} => HeaderOK /\ Len(out) <= Wanted
    /\ sets \in Seq(ValueSets)
    /\ \A i \in DOMAIN sets : Len(sets[i].samples) <= MaxSamples /\ Len(sets[i].samples) <= sets[i].cardinality

FileState == TableState /\ MetaTypes /\ InTurn /\ Counted /\ ScriptIsWhole /\ DirectoryPartitions

LEMMA InitFile == MInit => FileState
<1> SUFFICES ASSUME MInit PROVE FileState
  OBVIOUS
<1>1. PICK file \in Containers : blocks = file.blocks /\ prj = file.prj
  BY DEF MInit
<1>2. blocks \in Seq(ContainerBlocks) /\ prj \subseteq Seq(Bytes)
  BY <1>1, ContainersAssumption
<1>3. /\ buf = <<>> /\ mode = "strings" /\ stage = "header" /\ pos = 0 /\ out = <<>>
      /\ step = "script" /\ at = 1 /\ script.raw = <<>> /\ script.replaced = 0
      /\ fields = <<>> /\ tables = <<>> /\ sets = <<>> /\ directory = NoDirectory
      /\ pending = [first |-> 1, payload |-> <<>>]
  BY DEF MInit, Call, Pending
<1>4. TableState
  BY <1>3 DEF TableState, EntriesTile
<1>5. MetaTypes
  <2>1. Len(blocks) \in Nat /\ Len(buf) = 0 /\ Len(script.raw) = 0
    BY <1>2, <1>3
  <2>2. script.raw \in Seq(Bytes)
    BY <1>3
  <2> QED
    BY <1>2, <1>3, <2>1, <2>2 DEF MetaTypes, Modes, Steps
<1>6. InTurn /\ ScriptIsWhole /\ DirectoryPartitions
  BY <1>3 DEF InTurn, SetsInOrder, ScriptIsWhole, DirectoryPartitions, NoDirectory
<1>7. Counted
  <2>1. limit = MaxSamples
    BY DEF MInit, Call
  <2> QED
    BY <2>1, <1>3 DEF Counted
<1> QED
  BY <1>4, <1>5, <1>6, <1>7 DEF FileState

\* A decoder is called.
LEMMA Started ==
    ASSUME NEW b \in Seq(Bytes), NEW m \in Modes, Start(b, m)
    PROVE  /\ TableState' /\ mode' \in Modes /\ pos' <= Len(buf')
           /\ mode' = m /\ limit' = MaxSamples /\ stage' = "header"
<1>1. /\ buf' = b /\ mode' = m /\ limit' = MaxSamples
      /\ stage' = "header" /\ pos' = 0 /\ out' = <<>>
  BY DEF Start
<1>2. buf' \in Seq(Bytes) /\ Len(buf') \in Nat
  BY <1>1
<1> QED
  BY <1>1, <1>2 DEF TableState, EntriesTile

LEMMA BufType == ASSUME FileState, NEW i \in 1..Len(blocks) PROVE blocks[i].buf \in Seq(Bytes)
<1>1. blocks[i] \in ContainerBlocks
  BY DEF FileState, MetaTypes
<1> QED
  BY <1>1 DEF ContainerBlocks

LEMMA NamesType == ASSUME TableState PROVE Names \in Seq(Seq(Bytes))
<1>1. out \in Seq(SymbolSet) /\ DOMAIN out = 1..Len(out) /\ Len(out) \in Nat
  BY DEF TableState
<1>2. \A i \in 1..Len(out) : out[i].text \in Seq(Bytes)
  <2> TAKE i \in 1..Len(out)
  <2>1. out[i] \in SymbolSet
    BY <1>1
  <2> QED
    BY <2>1 DEF SymbolSet
<1>3. Names \in [1..Len(out) -> Seq(Bytes)]
  BY <1>1, <1>2 DEF Names
<1> QED
  BY <1>1, <1>3, SeqDef

LEMMA CountNat == ASSUME TableState, HeaderOK PROVE Count(buf) \in Nat
<1>1. Width \in Nat /\ Width + Width <= Len(buf) /\ buf \in Seq(Bytes)
  BY WidthAssumption DEF HeaderOK, Header, TableState
<1> QED
  BY <1>1, NumberNat DEF Count

LEMMA DecodingsType ==
    ASSUME NEW raw \in Seq(Bytes), NEW s \in Decodings(raw)
    PROVE  /\ s.raw = raw /\ s.replaced \in 0..Len(raw)
           /\ s.encoding = "utf-8" <=> Decodable(raw)
<1> DEFINE U == {i \in DOMAIN raw : raw[i] \in Undefined}
<1>1. Len(raw) \in Nat /\ DOMAIN raw = 1..Len(raw)
  OBVIOUS
<1>2. Cardinality(U) \in 0..Len(raw)
  <2>1. IsFiniteSet(1..Len(raw)) /\ Cardinality(1..Len(raw)) = Len(raw)
    BY <1>1, FS_Interval
  <2>2. U \subseteq 1..Len(raw)
    BY <1>1
  <2>3. IsFiniteSet(U) /\ Cardinality(U) <= Len(raw)
    <3> HIDE DEF U
    <3> QED
      BY <2>1, <2>2, FS_Subset
  <2>4. Cardinality(U) \in Nat
    BY <2>3, FS_CardinalityType
  <2> QED
    BY <1>1, <2>3, <2>4
<1> HIDE DEF U
<1>3. CASE Decodable(raw)
  BY <1>1, <1>3 DEF Decodings
<1>4. CASE ~Decodable(raw)
  BY <1>1, <1>2, <1>4 DEF Decodings, U
<1> QED
  BY <1>3, <1>4

\* What a step that decodes no script and finds no directory keeps
LEMMA ScriptKept ==
    ASSUME FileState, UNCHANGED <<blocks, prj, script>>,
           step \notin {"script", "failed"} \/ step' \in {"script", "failed"}
    PROVE  ScriptIsWhole'
BY DEF FileState, ScriptIsWhole

\* What a step that adds no value set keeps, when it leaves the decoder alone
\* or calls it anew
LEMMA CountedKept ==
    ASSUME FileState, sets' = sets,
           \/ UNCHANGED tableVars /\ step' # "values"
           \/ \E m \in Modes : mode' = m /\ limit' = MaxSamples /\ stage' = "header" /\ (step' = "values" => m = "sample")
    PROVE  Counted'
<1>1. sets' \in Seq(ValueSets)
  BY DEF FileState, Counted
<1>2. \A i \in DOMAIN sets' : Len(sets'[i].samples) <= MaxSamples /\ Len(sets'[i].samples) <= sets'[i].cardinality
  BY DEF FileState, Counted
<1>3. CASE UNCHANGED tableVars /\ step' # "values"
  <2>1. HeaderOK' = HeaderOK /\ Wanted' = Wanted /\ out' = out /\ stage' = stage /\ limit' = limit
    BY <1>3 DEF tableVars, HeaderOK, Wanted
  <2> QED
    BY <2>1, <1>1, <1>2, <1>3 DEF FileState, Counted
<1>4. CASE \E m \in Modes : mode' = m /\ limit' = MaxSamples /\ stage' = "header" /\ (step' = "values" => m = "sample")
  BY <1>4, <1>1, <1>2 DEF Counted
<1> QED
  BY <1>3, <1>4

LEMMA ScriptStep == ASSUME FileState, Script PROVE FileState'
<1>1. /\ step = "script" /\ step' = "fields" /\ Len(blocks) >= 3 /\ (prj # {} \/ Located(blocks[1].buf))
      /\ script' \in Decodings(RawScript) /\ StartAt(2, "strings")
      /\ UNCHANGED <<blocks, prj, pending, fields, tables, sets, directory>>
  BY DEF Script, Goto
<1>2. blocks \in Seq(ContainerBlocks) /\ prj \subseteq Seq(Bytes) /\ Len(blocks) \in Nat
  BY DEF FileState, MetaTypes
<1>3. blocks[1].buf \in Seq(Bytes)
  <2>1. 1 \in 1..Len(blocks)
    BY <1>1, <1>2
  <2>2. blocks[1] \in ContainerBlocks
    BY <1>2, <2>1
  <2> QED
    BY <2>2 DEF ContainerBlocks
<1>4. /\ RawScript \in Seq(Bytes)
      /\ prj = {} => WholeScript(blocks[1].buf, RawScript)
  <2>1. CASE prj = {}
    BY <2>1, <1>1, <1>3, ScriptCut DEF RawScript
  <2>2. CASE prj # {}
    BY <2>2, <1>2 DEF RawScript
  <2> QED
    BY <2>1, <2>2
<1>5. /\ script'.raw = RawScript /\ script'.replaced \in 0..Len(RawScript)
      /\ script'.encoding = "utf-8" <=> Decodable(RawScript)
  BY <1>1, <1>4, DecodingsType
<1>6. TableState' /\ mode' \in Modes /\ pos' <= Len(buf') /\ at' = 2
  <2>1. 2 \in 1..Len(blocks) /\ "strings" \in Modes
    BY <1>1, <1>2 DEF Modes
  <2>2. blocks[2].buf \in Seq(Bytes)
    BY <2>1, BufType
  <2> QED
    BY <2>1, <2>2, <1>1, Started DEF StartAt
<1>7. MetaTypes'
  <2>1. 2 \in 1..Len(blocks) + 1 /\ 2 <= Len(blocks)
    BY <1>1, <1>2
  <2> QED
    BY <2>1, <1>1, <1>2, <1>4, <1>5, <1>6 DEF FileState, MetaTypes, Steps
<1>8. InTurn' /\ DirectoryPartitions'
  BY <1>1 DEF FileState, InTurn, SetsInOrder, DirectoryPartitions, NoDirectory
<1>9. ScriptIsWhole'
  BY <1>1, <1>4, <1>5 DEF ScriptIsWhole, WholeScript
<1>10. Counted'
  BY <1>1, CountedKept DEF StartAt, Start, Modes
<1> QED
  BY <1>6, <1>7, <1>8, <1>9, <1>10 DEF FileState

LEMMA FailStep == ASSUME FileState, TooFew \/ NoScript \/ Drifted PROVE FileState'
<1>1. /\ step' = "failed" /\ step # "parsed" /\ UNCHANGED <<tableVars, blocks, prj, at, pending, metaVars>>
  BY DEF TooFew, NoScript, Drifted, Goto
<1>2. Counted'
  BY <1>1, CountedKept DEF metaVars
<1> QED
  BY <1>1, <1>2 DEF FileState, TableState, EntriesTile, MetaTypes, Steps, InTurn, SetsInOrder, ScriptIsWhole,
              DirectoryPartitions, NoDirectory, tableVars, metaVars

LEMMA DecodingStep == ASSUME FileState, Decoding PROVE FileState'
<1>1. step \in {"fields", "tables", "values"} /\ TableNext /\ UNCHANGED <<blocks, prj, step, at, pending, metaVars>>
  BY DEF Decoding
<1>2. TableState'
  BY <1>1, EntryStep, HeaderStep, OtherSteps DEF FileState, TableNext
<1>3. mode' \in Modes /\ buf' = buf
  BY <1>1 DEF FileState, MetaTypes, TableNext, ReadHeader, Entry, Refuse, Return
<1>4. pos' <= Len(buf')
  <2>1. CASE ReadHeader
    <3>1. CASE HeaderOK
      BY <2>1, <3>1, <1>3 DEF ReadHeader, HeaderOK
    <3>2. CASE ~HeaderOK
      BY <2>1, <3>2, <1>3 DEF ReadHeader, FileState, MetaTypes
    <3> QED
      BY <3>1, <3>2
  <2>2. CASE Entry
    <3>1. stage' = "entries"
      BY <2>2 DEF Entry
    <3> QED
      BY <3>1, <1>2 DEF TableState, EntriesTile
  <2>3. CASE Refuse \/ Return
    BY <2>3, <1>3 DEF Refuse, Return, FileState, MetaTypes
  <2> QED
    BY <2>1, <2>2, <2>3, <1>1 DEF TableNext
<1>5. MetaTypes'
  BY <1>1, <1>3, <1>4 DEF FileState, MetaTypes, metaVars
<1>6. ScriptIsWhole'
  BY <1>1, ScriptKept DEF metaVars
<1>7. InTurn' /\ DirectoryPartitions'
  BY <1>1 DEF FileState, InTurn, SetsInOrder, DirectoryPartitions, metaVars
<1>8. Counted'
  <2>1. sets' = sets /\ UNCHANGED <<mode, limit, buf, step>>
    BY <1>1, <1>3 DEF metaVars, TableNext, ReadHeader, Entry, Refuse, Return
  <2>2. HeaderOK' = HeaderOK /\ Wanted' = Wanted
    BY <2>1 DEF HeaderOK, Wanted
  <2>3. stage' \in {"entries", "decoded"} => HeaderOK /\ Len(out') <= Wanted
    <3>1. CASE ReadHeader
      <4>1. CASE HeaderOK
        <5>1. Count(buf) \in Nat
          BY <4>1, CountNat DEF FileState
        <5>2. out' = <<>> /\ Len(out') = 0
          BY <3>1 DEF ReadHeader, FileState, TableState
        <5> QED
          BY <4>1, <5>1, <5>2, SamplesAssumption DEF Wanted, FileState, Counted
      <4>2. CASE ~HeaderOK
        BY <3>1, <4>2 DEF ReadHeader
      <4> QED
        BY <4>1, <4>2
    <3>2. CASE Entry
      <4>1. HeaderOK /\ Len(out) < Wanted
        BY <3>2 DEF Entry, FileState, Counted
      <4>2. PICK e : out' = Append(out, e)
        BY <3>2 DEF Entry
      <4>3. Len(out') = Len(out) + 1 /\ Len(out) \in Nat
        BY <4>2 DEF FileState, TableState
      <4>4. Wanted \in Nat
        BY <4>1, CountNat, SamplesAssumption DEF Wanted, FileState, Counted
      <4> QED
        BY <4>1, <4>3, <4>4
    <3>3. CASE Refuse
      BY <3>3 DEF Refuse
    <3>4. CASE Return
      BY <3>4 DEF Return, FileState, Counted
    <3> QED
      BY <3>1, <3>2, <3>3, <3>4, <1>1 DEF TableNext
  <2> QED
    BY <2>1, <2>2, <2>3 DEF FileState, Counted
<1> QED
  BY <1>2, <1>5, <1>6, <1>7, <1>8 DEF FileState

LEMMA NamesStep == ASSUME FileState, Fields \/ Tables PROVE FileState'
<1>1. /\ step \in {"fields", "tables"} /\ step' \in {"tables", "scan"}
      /\ UNCHANGED <<blocks, prj, script, sets, directory>>
      /\ (fields' = Names /\ tables' = tables) \/ (tables' = Names /\ fields' = fields)
  BY DEF Fields, Tables, Goto
<1>2. Names \in Seq(Seq(Bytes))
  BY NamesType DEF FileState
<1>3. Len(blocks) >= 3 /\ Len(blocks) \in Nat
  BY <1>1 DEF FileState, MetaTypes
<1>4. /\ TableState' /\ mode' \in Modes /\ pos' <= Len(buf') /\ at' \in 1..Len(blocks) + 1
      /\ step' = "tables" => at' <= Len(blocks)
      /\ pending' \in [first : 1..Len(blocks) + 1, payload : Seq(Bytes)]
      /\ step' = "scan" => pending'.first <= at'
      /\ Counted'
  <2>1. CASE Fields
    <3>1. 3 \in 1..Len(blocks) /\ "strings" \in Modes
      BY <1>3 DEF Modes
    <3>2. StartAt(3, "strings") /\ step' = "tables" /\ pending' = pending
      BY <2>1 DEF Fields, Goto
    <3>3. Counted'
      BY <1>1, <3>2, CountedKept DEF StartAt, Start, Modes
    <3>4. blocks[3].buf \in Seq(Bytes)
      BY <3>1, BufType
    <3> QED
      BY <3>1, <3>2, <3>3, <3>4, <1>3, Started DEF StartAt, FileState, MetaTypes
  <2>2. CASE Tables
    <3>1. at' = 1 /\ step' = "scan" /\ pending' = [first |-> 1, payload |-> <<>>] /\ UNCHANGED tableVars
      BY <2>2 DEF Tables, Goto, Pending
    <3>2. 1 \in 1..Len(blocks) + 1
      BY <1>3
    <3>3. TableState'
      BY <3>1, OtherSteps DEF FileState
    <3>4. Counted'
      BY <1>1, <3>1, CountedKept
    <3> QED
      BY <3>1, <3>2, <3>3, <3>4 DEF FileState, MetaTypes, tableVars
  <2> QED
    BY <2>1, <2>2
<1>5. MetaTypes'
  BY <1>1, <1>2, <1>3, <1>4 DEF FileState, MetaTypes, Steps
<1>6. ScriptIsWhole'
  BY <1>1, ScriptKept
<1>7. InTurn' /\ DirectoryPartitions'
  BY <1>1 DEF FileState, InTurn, SetsInOrder, DirectoryPartitions, NoDirectory
<1> QED
  BY <1>4, <1>5, <1>6, <1>7 DEF FileState

LEMMA BlockNat == ASSUME FileState PROVE \A i \in DOMAIN sets : sets[i].first \in Nat /\ sets[i].last \in Nat
<1> TAKE i \in DOMAIN sets
<1>1. sets[i] \in ValueSets
  BY DEF FileState, Counted
<1> QED
  BY <1>1 DEF ValueSets

LEMMA WholeType == ASSUME FileState, at \in 1..Len(blocks) PROVE Whole \in Seq(Bytes)
<1>1. pending.payload \in Seq(Bytes) /\ blocks[at].buf \in Seq(Bytes)
  BY BufType DEF FileState, MetaTypes
<1> QED
  BY <1>1, ConcatProperties DEF Whole

\* The scan goes on behind a logical block.
LEMMA NextBlockKeeps ==
    ASSUME FileState, step = "scan" \/ step = "values", at \in 1..Len(blocks), NextBlock
    PROVE  /\ at' \in 1..Len(blocks) + 1 /\ pending' \in [first : 1..Len(blocks) + 1, payload : Seq(Bytes)]
           /\ pending'.first = at' /\ pending.first < pending'.first /\ at' = at + 1
           /\ pending.first \in Nat /\ pending'.first \in Nat
<1>1. at' = at + 1 /\ pending' = [first |-> at + 1, payload |-> <<>>]
  BY DEF NextBlock, Pending
<1>2. Len(blocks) \in Nat /\ at + 1 \in 1..Len(blocks) + 1
  BY DEF FileState, MetaTypes
<1>3. pending.first \in Nat /\ pending.first <= at
  BY DEF FileState, MetaTypes
<1>4. <<>> \in Seq(Bytes)
  OBVIOUS
<1> QED
  BY <1>1, <1>2, <1>3, <1>4

\* A step of the scan that adds no value set: the block is one more of its
\* logical block, or the last one.
LEMMA ScanStep == ASSUME FileState, Collect \/ Consider PROVE FileState'
<1>1. /\ step = "scan" /\ at <= Len(blocks) /\ UNCHANGED <<blocks, prj, script, fields, tables, sets, directory>>
  BY DEF Collect, Consider, metaVars
<1>2. Len(blocks) \in Nat /\ at \in Nat /\ at \in 1..Len(blocks) + 1 /\ at \in 1..Len(blocks)
  BY <1>1 DEF FileState, MetaTypes
<1>3. pending \in [first : 1..Len(blocks) + 1, payload : Seq(Bytes)] /\ pending.first <= at /\ pending.first \in Nat
  BY <1>1 DEF FileState, MetaTypes
<1>4. /\ TableState' /\ mode' \in Modes /\ pos' <= Len(buf')
      /\ step' \in {"scan", "values"} /\ at' \in 1..Len(blocks) + 1
      /\ pending' \in [first : 1..Len(blocks) + 1, payload : Seq(Bytes)]
      /\ pending'.first <= at' /\ pending.first <= pending'.first /\ pending'.first \in Nat
      /\ step' = "values" => at' <= Len(blocks)
      /\ Counted'
  <2>1. ASSUME UNCHANGED tableVars, step' = step
        PROVE  TableState' /\ mode' \in Modes /\ pos' <= Len(buf') /\ Counted'
    <3>1. TableState'
      BY <2>1, OtherSteps DEF FileState
    <3>2. mode' \in Modes /\ pos' <= Len(buf')
      BY <2>1 DEF FileState, MetaTypes, tableVars
    <3>3. Counted'
      BY <1>1, <2>1, CountedKept
    <3> QED
      BY <3>1, <3>2, <3>3
  <2>2. CASE Collect
    <3>1. UNCHANGED tableVars /\ step' = step
      BY <2>2 DEF Collect
    <3>2. at' = at + 1 /\ pending' = [pending EXCEPT !.payload = Whole]
      BY <2>2 DEF Collect, Whole
    <3>3. Whole \in Seq(Bytes)
      BY <1>2, WholeType
    <3>4. pending' \in [first : 1..Len(blocks) + 1, payload : Seq(Bytes)] /\ pending'.first = pending.first
      BY <3>2, <3>3, <1>3
    <3> QED
      BY <3>1, <3>2, <3>4, <2>1, <1>1, <1>2, <1>3
  <2>3. CASE Consider /\ pending.first > 3 /\ LooksLikeTable(Whole)
    <3>1. Start(Whole, "sample") /\ step' = "values" /\ UNCHANGED <<at, pending>> /\ "sample" \in Modes
      BY <2>3 DEF Consider, Modes
    <3>2. Whole \in Seq(Bytes)
      BY <1>2, WholeType
    <3>3. Counted'
      BY <1>1, <3>1, CountedKept DEF Start
    <3> QED
      BY <3>1, <3>2, <3>3, <1>1, <1>2, <1>3, Started
  <2>4. CASE Consider /\ ~(pending.first > 3 /\ LooksLikeTable(Whole))
    <3>1. NextBlock /\ step' = step /\ UNCHANGED tableVars
      BY <2>4 DEF Consider
    <3> QED
      BY <3>1, <2>1, <1>1, <1>2, NextBlockKeeps
  <2> QED
    BY <2>2, <2>3, <2>4
<1>5. MetaTypes'
  BY <1>1, <1>4 DEF FileState, MetaTypes, Steps
<1>6. ScriptIsWhole'
  BY <1>1, ScriptKept
<1>7. InTurn'
  <2>1. \A i \in DOMAIN sets : sets[i].last \in Nat /\ sets[i].last < pending.first
    BY <1>1, BlockNat DEF FileState, InTurn
  <2>2. \A i \in DOMAIN sets : sets[i].last < pending'.first
    BY <2>1, <1>3, <1>4
  <2> QED
    BY <2>2, <1>1, <1>4 DEF FileState, InTurn, SetsInOrder
<1>8. DirectoryPartitions'
  BY <1>1 DEF FileState, DirectoryPartitions
<1> QED
  BY <1>4, <1>5, <1>6, <1>7, <1>8 DEF FileState

\* A value set is added for blocks behind those of all the sets before it.
LEMMA OneMore ==
    ASSUME NEW s, NEW Sets, s \in Seq(Sets), NEW new \in Sets, NEW f \in Nat, NEW n \in Nat, f <= n,
           new.first = f, new.last = n,
           \A i \in DOMAIN s : s[i].first \in Nat /\ s[i].last \in Nat /\ s[i].last < f,
           \A i, j \in DOMAIN s : i < j => s[i].last < s[j].first
    PROVE  LET more == Append(s, new)
           IN /\ \A i \in DOMAIN more : more[i].last < n + 1
              /\ \A i, j \in DOMAIN more : i < j => more[i].last < more[j].first
<1> DEFINE more == Append(s, new)
<1>1. Len(s) \in Nat /\ DOMAIN s = 1..Len(s)
  OBVIOUS
<1>2. more \in Seq(Sets) /\ Len(more) = Len(s) + 1 /\ \A i \in 1..Len(s) : more[i] = s[i]
  OBVIOUS
<1>3. more[Len(s) + 1] = new /\ DOMAIN more = 1..Len(s) + 1
  BY <1>1
<1> HIDE DEF more
<1>4. \A i \in DOMAIN more : more[i].last < n + 1 /\ (i <= Len(s) => more[i].last < f)
  <2> TAKE i \in DOMAIN more
  <2>1. CASE i <= Len(s)
    <3>1. i \in DOMAIN s /\ more[i] = s[i]
      BY <2>1, <1>1, <1>2, <1>3
    <3>2. more[i].last \in Nat /\ more[i].last < f
      BY <3>1
    <3> QED
      BY <3>2
  <2>2. CASE ~(i <= Len(s))
    <3>1. i = Len(s) + 1
      BY <2>2, <1>1, <1>3
    <3> QED
      BY <3>1, <2>2, <1>3
  <2> QED
    BY <2>1, <2>2
<1>5. \A i, j \in DOMAIN more : i < j => more[i].last < more[j].first
  <2> SUFFICES ASSUME NEW i \in DOMAIN more, NEW j \in DOMAIN more, i < j
               PROVE  more[i].last < more[j].first
    OBVIOUS
  <2>1. i \in DOMAIN s /\ i <= Len(s) /\ more[i] = s[i]
    BY <1>1, <1>2, <1>3
  <2>2. CASE j <= Len(s)
    <3>1. j \in DOMAIN s /\ more[j] = s[j]
      BY <2>2, <1>1, <1>2, <1>3
    <3> QED
      BY <3>1, <2>1
  <2>3. CASE ~(j <= Len(s))
    <3>1. j = Len(s) + 1
      BY <2>3, <1>1, <1>3
    <3>2. more[j].first = f
      BY <3>1, <1>3
    <3> QED
      BY <3>2, <2>1
  <2> QED
    BY <2>2, <2>3
<1> QED
  BY <1>4, <1>5 DEF more

LEMMA SampleType == ASSUME TableState PROVE [i \in DOMAIN out |-> Sample(out[i])] \in Seq(Seq(Bytes))
<1>1. out \in Seq(SymbolSet) /\ DOMAIN out = 1..Len(out) /\ Len(out) \in Nat
  BY DEF TableState
<1>2. \A i \in 1..Len(out) : Sample(out[i]) \in Seq(Bytes)
  <2> TAKE i \in 1..Len(out)
  <2>1. out[i] \in SymbolSet
    BY <1>1
  <2> QED
    BY <2>1 DEF SymbolSet, Sample
<1>3. [i \in DOMAIN out |-> Sample(out[i])] \in [1..Len(out) -> Seq(Bytes)]
  BY <1>1, <1>2
<1> QED
  BY <1>1, <1>3, SeqDef

LEMMA TypeOfValues == \A flags : ValueType(flags) \in ValueTypes
<1> TAKE flags
<1> DEFINE kinds == {KindOf(f) : f \in flags}
<1>1. \A f : KindOf(f) \in ValueTypes
  BY DEF KindOf, ValueTypes
<1>2. kinds \subseteq ValueTypes
  BY <1>1
<1>3. Cardinality(kinds) = 1 => (CHOOSE k \in kinds : TRUE) \in ValueTypes
  <2> HIDE DEF kinds
  <2> SUFFICES ASSUME Cardinality(kinds) = 1 PROVE (CHOOSE k \in kinds : TRUE) \in ValueTypes
    OBVIOUS
  <2>1. kinds # {}
    BY FS_EmptySet
  <2> QED
    BY <2>1, <1>2
<1>4. ValueType(flags) = CASE Cardinality(kinds) = 1 -> CHOOSE k \in kinds : TRUE
                           [] kinds = {"int", "dual_int"} -> "dual_int"
                           [] OTHER -> "mixed"
  BY DEF ValueType
<1>5. "dual_int" \in ValueTypes /\ "mixed" \in ValueTypes
  BY DEF ValueTypes
<1> HIDE DEF kinds
<1>6. CASE Cardinality(kinds) = 1
  <2>1. kinds # {"int", "dual_int"}
    <3> SUFFICES ASSUME kinds = {"int", "dual_int"} PROVE FALSE
      OBVIOUS
    <3>1. IsFiniteSet({"int"}) /\ Cardinality({"int"}) = 1
      BY FS_Singleton
    <3>2. {"int", "dual_int"} = {"int"} \cup {"dual_int"} /\ "dual_int" \notin {"int"}
      OBVIOUS
    <3>3. Cardinality({"int"} \cup {"dual_int"}) = 2
      BY <3>1, <3>2, FS_AddElement
    <3> QED
      BY <3>2, <3>3, <1>6
  <2> QED
    BY <2>1, <1>3, <1>4, <1>6
<1>7. CASE Cardinality(kinds) # 1
  BY <1>4, <1>5, <1>7
<1> QED
  BY <1>6, <1>7

LEMMA SummariseStep == ASSUME FileState, Summarise PROVE FileState'
<1>1. /\ step = "values" /\ step' = "scan" /\ NextBlock
      /\ UNCHANGED <<tableVars, blocks, prj, script, fields, tables, directory>>
  BY DEF Summarise, Goto
<1>2. Len(blocks) \in Nat /\ at \in 1..Len(blocks) /\ pending.first \in 1..Len(blocks) + 1 /\ pending.first <= at
  BY <1>1 DEF FileState, MetaTypes
<1>3. TableState' /\ mode' \in Modes /\ pos' <= Len(buf')
  BY <1>1, OtherSteps DEF FileState, MetaTypes, tableVars
<1>11. /\ at' \in 1..Len(blocks) + 1 /\ pending' \in [first : 1..Len(blocks) + 1, payload : Seq(Bytes)]
       /\ pending'.first = at' /\ pending.first < pending'.first /\ at' = at + 1
       /\ pending.first \in Nat /\ pending'.first \in Nat
  BY <1>1, <1>2, NextBlockKeeps
<1>4. MetaTypes'
  BY <1>1, <1>2, <1>3, <1>11 DEF FileState, MetaTypes, Steps
<1>5. ScriptIsWhole'
  BY <1>1, ScriptKept
<1>6. InTurn'
  <2>1. \A i \in DOMAIN sets : sets[i].first \in Nat /\ sets[i].last \in Nat /\ sets[i].last < pending.first
    BY <1>1, BlockNat DEF FileState, InTurn
  <2>2. /\ \A i \in DOMAIN sets' : sets'[i].last < at + 1
        /\ \A i, j \in DOMAIN sets' : i < j => sets'[i].last < sets'[j].first
    <3>1. CASE sets' = sets
      BY <3>1, <2>1, <1>2 DEF FileState, InTurn, SetsInOrder
    <3>2. CASE sets' # sets
      <4> DEFINE new == [first |-> pending.first, last |-> at, cardinality |-> Count(buf),
                         type |-> ValueType({e.flag : e \in ToSet(out)}),
                         samples |-> [i \in DOMAIN out |-> Sample(out[i])]]
      <4>1. sets' = Append(sets, new)
        BY <3>2 DEF Summarise
      <4>2. new.first = pending.first /\ new.last = at
        OBVIOUS
      <4> HIDE DEF new
      <4>3. at \in Nat /\ pending.first \in Nat /\ pending.first <= at
        BY <1>2
      <4>4. sets \in Seq(ValueSets)
        BY DEF FileState, Counted
      <4>5. sets \in Seq(ValueSets \cup {new}) /\ new \in ValueSets \cup {new}
        BY <4>4
      <4>6. \A i, j \in DOMAIN sets : i < j => sets[i].last < sets[j].first
        BY DEF FileState, InTurn, SetsInOrder
      <4> QED
        BY <4>1, <4>2, <4>3, <4>5, <4>6, <2>1, OneMore
    <3> QED
      BY <3>1, <3>2
  <2> QED
    BY <2>2, <1>1, <1>11 DEF FileState, InTurn, SetsInOrder
<1>7. DirectoryPartitions'
  BY <1>1 DEF FileState, DirectoryPartitions
<1>8. Counted'
  <2>1. CASE sets' = sets
    BY <2>1, <1>1, CountedKept
  <2>2. CASE sets' # sets
    <3> DEFINE samples == [i \in DOMAIN out |-> Sample(out[i])]
               kind == ValueType({e.flag : e \in ToSet(out)})
               new == [first |-> pending.first, last |-> at, cardinality |-> Count(buf), type |-> kind,
                       samples |-> samples]
    <3>1. stage = "decoded" /\ sets' = Append(sets, new)
      BY <2>2 DEF Summarise
    <3>2. HeaderOK /\ Len(out) <= Wanted /\ mode = "sample" /\ limit = MaxSamples
      BY <1>1, <3>1 DEF FileState, Counted
    <3>3. Count(buf) \in 0..MaxCount
      BY <3>2, CountNat, CountAssumption DEF HeaderOK, FileState
    <3>4. samples \in Seq(Seq(Bytes)) /\ Len(samples) = Len(out) /\ Len(out) \in Nat
      <4>1. samples \in Seq(Seq(Bytes))
        BY SampleType DEF FileState
      <4>2. out \in Seq(SymbolSet)
        BY DEF FileState, TableState
      <4> QED
        BY <4>1, <4>2
    <3>5. Len(samples) <= MaxSamples /\ Len(samples) <= Count(buf)
      BY <3>2, <3>3, <3>4, SamplesAssumption DEF Wanted
    <3>6. kind \in ValueTypes
      BY TypeOfValues
    <3> HIDE DEF samples, kind
    <3>7. new \in ValueSets /\ new.samples = samples /\ new.cardinality = Count(buf)
      BY <1>2, <3>3, <3>4, <3>6 DEF ValueSets
    <3> HIDE DEF new
    <3>8. sets \in Seq(ValueSets) /\ Len(sets) \in Nat
      BY DEF FileState, Counted
    <3>9. /\ sets' \in Seq(ValueSets) /\ DOMAIN sets' = 1..Len(sets) + 1
          /\ sets'[Len(sets) + 1] = new /\ \A i \in 1..Len(sets) : sets'[i] = sets[i]
      BY <3>1, <3>7, <3>8
    <3>10. \A i \in DOMAIN sets' : Len(sets'[i].samples) <= MaxSamples /\ Len(sets'[i].samples) <= sets'[i].cardinality
      <4> TAKE i \in DOMAIN sets'
      <4>1. CASE i \in 1..Len(sets)
        BY <4>1, <3>9 DEF FileState, Counted
      <4>2. CASE i = Len(sets) + 1
        BY <4>2, <3>5, <3>7, <3>9
      <4> QED
        BY <4>1, <4>2, <3>8, <3>9
    <3>11. HeaderOK' /\ Len(out') <= Wanted' /\ limit' = MaxSamples
      BY <1>1, <3>2 DEF tableVars, HeaderOK, Wanted
    <3> QED
      BY <1>1, <3>9, <3>10, <3>11 DEF Counted
  <2> QED
    BY <2>1, <2>2
<1> QED
  BY <1>3, <1>4, <1>5, <1>6, <1>7, <1>8, <1>1 DEF FileState

\* Steps that only move on
LEMMA MovingStep == ASSUME FileState, EndValues \/ Pass \/ Undirected PROVE FileState'
<1>1. /\ step \in {"scan", "directory"} /\ step' \in {"directory", "parsed"}
      /\ UNCHANGED <<tableVars, blocks, prj, pending, script, fields, tables, sets, directory>>
  BY DEF EndValues, Pass, Undirected, Goto, metaVars
<1>2. at' \in 1..Len(blocks) + 1
  <2>1. Len(blocks) \in Nat /\ at \in 1..Len(blocks) + 1
    BY DEF FileState, MetaTypes
  <2> QED
    BY <2>1 DEF EndValues, Pass, Undirected
<1>3. TableState'
  BY <1>1, OtherSteps DEF FileState
<1>4. MetaTypes'
  BY <1>1, <1>2 DEF FileState, MetaTypes, Steps, tableVars
<1>5. ScriptIsWhole'
  BY <1>1, ScriptKept
<1>6. Counted'
  BY <1>1, CountedKept
<1>7. InTurn'
  BY <1>1 DEF FileState, InTurn, SetsInOrder
<1>8. DirectoryPartitions'
  BY <1>1 DEF FileState, DirectoryPartitions
<1> QED
  BY <1>3, <1>4, <1>5, <1>6, <1>7, <1>8 DEF FileState

\* Ascending numbers of which the last is below a bound all are.
LEMMA Ascending ==
    ASSUME NEW n \in Nat, NEW g \in [1..n -> Nat], NEW bound \in Nat, g[n] < bound, n # 0,
           \A t \in 1..n - 1 : g[t] < g[t + 1]
    PROVE  \A t \in 1..n : g[t] < bound
<1> DEFINE S == {t \in 1..n : bound <= g[t]}
<1>1. SUFFICES ASSUME S # {} PROVE FALSE
  OBVIOUS
<1>2. S \in SUBSET (0..n)
  OBVIOUS
<1>3. Max(S) \in S /\ \A y \in S : y <= Max(S)
  <2> HIDE DEF S
  <2> QED
    BY <1>1, <1>2, LargestOf
<1>4. Max(S) \in 1..n /\ bound <= g[Max(S)]
  BY <1>3
<1> DEFINE m == Max(S)
<1> HIDE DEF S, m
<1>5. m \in 1..n /\ bound <= g[m] /\ \A y \in S : y <= m
  BY <1>3, <1>4 DEF m
<1>6. CASE m = n
  BY <1>5, <1>6
<1>7. CASE m # n
  <2>1. m \in 1..n - 1 /\ m + 1 \in 1..n
    BY <1>5, <1>7
  <2>2. g[m] < g[m + 1] /\ g[m] \in Nat /\ g[m + 1] \in Nat
    BY <2>1, <1>5
  <2>3. bound <= g[m + 1]
    BY <2>2, <1>5
  <2>4. m + 1 \in S
    BY <2>1, <2>3 DEF S
  <2> QED
    BY <2>4, <1>5
<1> QED
  BY <1>6, <1>7

\* The parts of a directory are those between cuts in ascending order.
LEMMA Cuts ==
    ASSUME tables \in Seq(Seq(Bytes)), fields \in Seq(Seq(Bytes)), Directed,
           NEW b \in Seq(Bytes), IsDirectory(b)
    PROVE  LET cut == [t \in 0..Len(tables) |-> Bound(b, t + 1)]
           IN /\ cut \in [0..Len(tables) -> 0..Len(fields)]
              /\ cut[0] = 0 /\ cut[Len(tables)] = Len(fields)
              /\ \A t \in DOMAIN tables : /\ cut[t - 1] < cut[t]
                                          /\ FieldsOf(b, t) = SubSeq(fields, cut[t - 1] + 1, cut[t])
<1> DEFINE n == Len(tables)
           f == Len(fields)
           g == [t \in 1..n |-> FieldAt(b, t)]
           cut == [t \in 0..n |-> Bound(b, t + 1)]
<1>1. n \in Nat /\ f \in Nat /\ n # 0 /\ f # 0 /\ DOMAIN tables = 1..n
  BY DEF Directed
<1>2. \A t \in 1..n : FieldAt(b, t) \in Nat
  <2> TAKE t \in 1..n
  <2>1. 2 * t \in Nat \ {0} /\ 2 * t <= Len(b)
    BY <1>1 DEF IsDirectory
  <2> QED
    BY <2>1, ByteAt DEF FieldAt
<1>3. FieldAt(b, 1) = 0 /\ FieldAt(b, n) < f /\ \A t \in 1..n - 1 : FieldAt(b, t) < FieldAt(b, t + 1)
  BY DEF IsDirectory
<1>4. \A t \in 1..n : FieldAt(b, t) < f
  <2>1. g \in [1..n -> Nat] /\ \A t \in 1..n : g[t] = FieldAt(b, t)
    BY <1>2
  <2>2. g[n] < f /\ \A t \in 1..n - 1 : g[t] < g[t + 1]
    <3>1. n \in 1..n /\ \A t \in 1..n - 1 : t \in 1..n /\ t + 1 \in 1..n
      BY <1>1
    <3> QED
      BY <3>1, <2>1, <1>3
  <2> HIDE DEF g, n, f
  <2>3. \A t \in 1..n : g[t] < f
    BY <2>1, <2>2, <1>1, Ascending
  <2> QED
    BY <2>1, <2>3
<1>5. \A t \in 0..n - 1 : cut[t] = FieldAt(b, t + 1) /\ t + 1 \in 1..n
  BY <1>1 DEF Bound
<1>6. cut[n] = f
  BY <1>1 DEF Bound
<1>7. \A t \in 1..n : FieldsOf(b, t) = SubSeq(fields, cut[t - 1] + 1, cut[t])
  <2> TAKE t \in 1..n
  <2>1. t - 1 \in 0..n /\ (t - 1) + 1 = t /\ t \in 0..n
    BY <1>1
  <2>2. cut[t - 1] = Bound(b, t) /\ cut[t] = Bound(b, t + 1)
    BY <2>1
  <2> QED
    BY <2>2 DEF FieldsOf
<1> HIDE DEF cut, n, f, g
<1>8. DOMAIN cut = 0..n /\ cut = [t \in 0..n |-> cut[t]]
  BY DEF cut
<1>9. \A t \in 0..n : cut[t] \in 0..f
  <2> TAKE t \in 0..n
  <2>1. CASE t \in 0..n - 1
    <3>1. FieldAt(b, t + 1) \in Nat /\ FieldAt(b, t + 1) < f
      BY <2>1, <1>2, <1>4, <1>5
    <3> QED
      BY <3>1, <2>1, <1>1, <1>5
  <2>2. CASE t = n
    BY <2>2, <1>1, <1>6
  <2> QED
    BY <2>1, <2>2, <1>1
<1>10. cut \in [0..n -> 0..f]
  BY <1>8, <1>9
<1>11. cut[0] = 0
  BY <1>1, <1>3, <1>5
<1>12. \A t \in 1..n : cut[t - 1] < cut[t]
  <2> TAKE t \in 1..n
  <2>1. t - 1 \in 0..n - 1 /\ (t - 1) + 1 = t
    BY <1>1
  <2>2. cut[t - 1] = FieldAt(b, t)
    BY <2>1, <1>5
  <2>3. CASE t = n
    BY <2>2, <2>3, <1>3, <1>6
  <2>4. CASE t # n
    <3>1. t \in 0..n - 1 /\ t \in 1..n - 1
      BY <2>4, <1>1
    <3>2. cut[t] = FieldAt(b, t + 1)
      BY <3>1, <1>5
    <3> QED
      BY <3>1, <3>2, <2>2, <1>3
  <2> QED
    BY <2>3, <2>4
<1> QED
  BY <1>1, <1>6, <1>7, <1>10, <1>11, <1>12 DEF cut, n, f

LEMMA LastIsNamed ==
    ASSUME tables \in Seq(Seq(Bytes)), NEW name \in ToSet(tables)
    PROVE  LastNamed(name) \in DOMAIN tables /\ tables[LastNamed(name)] = name
<1> DEFINE S == {t \in DOMAIN tables : tables[t] = name}
<1>1. DOMAIN tables = 1..Len(tables) /\ Len(tables) \in Nat
  OBVIOUS
<1>2. S \in SUBSET (0..Len(tables)) /\ S # {}
  BY <1>1 DEF ToSet
<1>3. Max(S) \in S
  <2> HIDE DEF S
  <2> QED
    BY <1>1, <1>2, LargestOf
<1> QED
  BY <1>3 DEF LastNamed

LEMMA DirectoryStep == ASSUME FileState, Directory PROVE FileState'
<1> DEFINE b == blocks[at].buf
<1>1. /\ step = "directory" /\ step' = "parsed" /\ Directed /\ at <= Len(blocks) /\ IsDirectory(b)
      /\ UNCHANGED <<tableVars, blocks, prj, at, pending, script, fields, tables, sets>>
      /\ directory' = [known |-> TRUE, of |-> [name \in ToSet(tables) |-> FieldsOf(b, LastNamed(name))]]
  BY DEF Directory, Goto
<1>2. tables \in Seq(Seq(Bytes)) /\ fields \in Seq(Seq(Bytes))
  BY DEF FileState, MetaTypes
<1>3. b \in Seq(Bytes)
  <2>1. at \in 1..Len(blocks) /\ blocks \in Seq(ContainerBlocks)
    BY <1>1 DEF FileState, MetaTypes
  <2>2. blocks[at] \in ContainerBlocks
    BY <2>1
  <2> QED
    BY <2>2 DEF ContainerBlocks
<1> HIDE DEF b
<1>4. DirectoryPartitions'
  <2> DEFINE cut == [t \in 0..Len(tables) |-> Bound(b, t + 1)]
  <2>1. /\ cut \in [0..Len(tables) -> 0..Len(fields)]
        /\ cut[0] = 0 /\ cut[Len(tables)] = Len(fields)
        /\ \A t \in DOMAIN tables : /\ cut[t - 1] < cut[t]
                                    /\ FieldsOf(b, t) = SubSeq(fields, cut[t - 1] + 1, cut[t])
    BY <1>1, <1>2, <1>3, Cuts
  <2> HIDE DEF cut
  <2>2. \A name \in ToSet(tables) : \E t \in DOMAIN tables :
            tables[t] = name /\ directory'.of[name] = SubSeq(fields, cut[t - 1] + 1, cut[t])
    <3> TAKE name \in ToSet(tables)
    <3>1. LastNamed(name) \in DOMAIN tables /\ tables[LastNamed(name)] = name
      BY <1>2, LastIsNamed
    <3>2. directory'.of[name] = FieldsOf(b, LastNamed(name))
      BY <1>1
    <3> QED
      BY <3>1, <3>2, <2>1
  <2> QED
    BY <2>1, <2>2, <1>1 DEF DirectoryPartitions
<1>5. TableState'
  BY <1>1, OtherSteps DEF FileState
<1>6. MetaTypes'
  BY <1>1 DEF FileState, MetaTypes, Steps, tableVars
<1>7. ScriptIsWhole'
  BY <1>1, ScriptKept
<1>8. Counted'
  BY <1>1, CountedKept
<1>9. InTurn'
  BY <1>1 DEF FileState, InTurn, SetsInOrder
<1> QED
  BY <1>4, <1>5, <1>6, <1>7, <1>8, <1>9 DEF FileState

LEMMA IdleStep == ASSUME FileState, UNCHANGED blockVars PROVE FileState'
<1>1. UNCHANGED <<tableVars, blocks, prj, step, at, pending, script, fields, tables, sets, directory>>
  BY DEF blockVars, metaVars
<1>2. TableState'
  BY <1>1, OtherSteps DEF FileState
<1>3. MetaTypes'
  BY <1>1 DEF FileState, MetaTypes, tableVars
<1>5. InTurn'
  BY <1>1 DEF FileState, InTurn, SetsInOrder
<1>6. ScriptIsWhole'
  BY <1>1, ScriptKept
<1>7. DirectoryPartitions'
  BY <1>1 DEF FileState, DirectoryPartitions
<1>4. Counted'
  BY <1>1 DEF FileState, Counted, HeaderOK, Wanted, tableVars
<1> QED
  BY <1>2, <1>3, <1>4, <1>5, <1>6, <1>7 DEF FileState

LEMMA FileStep == FileState /\ [MNext]_blockVars => FileState'
<1> SUFFICES ASSUME FileState, [MNext]_blockVars PROVE FileState'
  OBVIOUS
<1>1. CASE TooFew \/ NoScript \/ Drifted
  BY <1>1, FailStep
<1>2. CASE Script
  BY <1>2, ScriptStep
<1>3. CASE Decoding
  BY <1>3, DecodingStep
<1>4. CASE Fields \/ Tables
  BY <1>4, NamesStep
<1>5. CASE Collect \/ Consider
  BY <1>5, ScanStep
<1>6. CASE Summarise
  BY <1>6, SummariseStep
<1>7. CASE EndValues \/ Pass \/ Undirected
  BY <1>7, MovingStep
<1>8. CASE Directory
  BY <1>8, DirectoryStep
<1>9. CASE UNCHANGED blockVars
  BY <1>9, IdleStep
<1> QED
  BY <1>1, <1>2, <1>3, <1>4, <1>5, <1>6, <1>7, <1>8, <1>9 DEF MNext

THEOREM MetadataDecoded == MSpec => []FileState
BY InitFile, FileStep, PTL DEF MSpec

----------------------------------------------------------------------------
(* What it says of the metadata. *)

\* The variables of a decoding have their types, whatever the blocks hold: a
\* value set has as many samples as its table has entries, or fewer.
THEOREM BlocksTypeCorrect == MSpec => []BlocksTypeOK
<1>1. FileState => BlocksTypeOK
  <2> SUFFICES ASSUME FileState PROVE BlocksTypeOK
    OBVIOUS
  <2>1. \A e \in ToSet(out) : e.flag \in Flags /\ e.text \in Seq(Bytes) /\ e.number \in Seq(Bytes)
    <3> TAKE e \in ToSet(out)
    <3>1. e \in SymbolSet
      BY DEF FileState, TableState, ToSet
    <3> QED
      BY <3>1 DEF SymbolSet
  <2>2. \A name \in ToSet(fields) \cup ToSet(tables) : name \in Seq(Bytes)
    BY DEF FileState, MetaTypes, ToSet
  <2>3. pos \in 0..Len(buf)
    <3>1. pos \in Nat /\ Len(buf) \in Nat /\ pos <= Len(buf)
      BY DEF FileState, TableState, MetaTypes
    <3> QED
      BY <3>1
  <2>4. \A s \in ToSet(sets) : Len(s.samples) <= MaxSamples /\ Len(s.samples) <= s.cardinality
    BY DEF FileState, Counted, ToSet
  <2> QED
    BY <2>1, <2>2, <2>3, <2>4 DEF FileState, TableState, MetaTypes, Counted, BlocksTypeOK
<1> QED
  BY <1>1, MetadataDecoded, PTL

\* Every decoder called while a container is parsed stays inside its block.
THEOREM BlocksTile == MSpec => []EntriesTile
<1>1. FileState => EntriesTile
  BY DEF FileState, TableState
<1> QED
  BY <1>1, MetadataDecoded, PTL

\* _decode_script_block and decode_script: nothing between the first directive
\* and the padding is lost, in a block of any size.
THEOREM ScriptsAreWhole == MSpec => []ScriptIsWhole
<1>1. FileState => ScriptIsWhole
  BY DEF FileState
<1> QED
  BY <1>1, MetadataDecoded, PTL

\* decode_table_layout: whichever block is taken for the directory, it cuts
\* the whole field list into one part for each table.
THEOREM DirectoriesPartition == MSpec => []DirectoryPartitions
<1>1. FileState => DirectoryPartitions
  BY DEF FileState
<1> QED
  BY <1>1, MetadataDecoded, PTL
====
