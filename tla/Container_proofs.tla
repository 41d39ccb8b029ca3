---- MODULE Container_proofs ----
(***************************************************************************)
(* Theorems about ContainerScan, for bodies of any size and any limits,    *)
(* and about InflateWindow, for inputs and windows of any size.            *)
(*                                                                         *)
(* ScanState is the inductive invariant of the scan: what the properties   *)
(* say, and the types of the variables the scan and the measuring of gaps  *)
(* depend on.  Grouped adds what iter_logical_blocks has put together, and *)
(* Inflating is the inductive invariant of one trial decompression.        *)
(***************************************************************************)
EXTENDS ContainerScan, InflateWindow, SequenceTheorems, WellFoundedInduction, TLAPS

WellFormed ==
    /\ DOMAIN body \subseteq 0..BodySize
    /\ \A p \in DOMAIN body :
        body[p].len \in Nat /\ body[p].size \in Nat /\ p + body[p].len <= BodySize /\ p < BodySize

ScanTypes ==
    /\ WellFormed
    /\ pos \in 0..BodySize
    /\ found \in Seq(Streams)
    /\ blocks \in Seq(Blocks)
    /\ Len(blocks) <= Len(found)
    /\ phase \in {"envelope", "scan"} => blocks = <<>>
    /\ phase \in {"group", "done"} => Len(blocks) = Len(found)

\* A block is its stream, and its kind follows from its size and its gap.
Measured ==
    \A i \in DOMAIN blocks :
        /\ blocks[i].offset = found[i].offset /\ blocks[i].len = found[i].len
        /\ blocks[i].kind = Classify(found[i].size, blocks[i].gap)

\* Blocks and gaps tile the body.
BlocksTile ==
    \A i \in DOMAIN blocks :
        LET end == blocks[i].offset + blocks[i].len + blocks[i].gap
        IN /\ blocks[i].gap >= 0
           /\ end = IF i < Len(found) THEN found[i + 1].offset ELSE BodySize

ScanState == ScanTypes /\ Measured /\ ScanIsGreedy /\ BlocksTile /\ RefusedForCause

----------------------------------------------------------------------------
LEMMA BodiesWellFormed == ASSUME body \in Bodies PROVE WellFormed
<1>1. PICK S \in SUBSET (0..BodySize - 2) :
        body \in {b \in [S -> Trials] : \A p \in S : p + b[p].len <= BodySize}
  BY DEF Bodies
<1>2. DOMAIN body = S /\ \A p \in S : body[p] \in Trials /\ p + body[p].len <= BodySize
  BY <1>1
<1>3. \A p \in S : p \in 0..BodySize /\ p < BodySize
  BY BodyAssumption
<1>4. \A p \in S : body[p].len \in Nat /\ body[p].size \in Nat
  BY <1>2, TrialAssumption DEF Trials
<1> QED
  BY <1>2, <1>3, <1>4 DEF WellFormed

LEMMA InitScan == CInit => ScanState
<1> SUFFICES ASSUME CInit PROVE ScanState
  OBVIOUS
<1>1. ScanTypes
  BY BodiesWellFormed, BodyAssumption DEF CInit, ScanTypes
<1>2. found = <<>> /\ blocks = <<>> /\ pos = 0 /\ phase = "envelope"
  BY DEF CInit
<1> QED
  BY <1>1, <1>2, LimitAssumption
     DEF ScanState, Measured, ScanIsGreedy, BlocksTile, RefusedForCause, ScanTypes, WellFormed

\* A step that leaves the scan's variables alone keeps everything but, perhaps,
\* the cause of a refusal.
LEMMA ScanKept ==
    ASSUME ScanState, UNCHANGED <<fileVars, scanVars, blocks>>,
           phase' = phase \/ phase' \notin {"envelope", "scan", "refused"},
           phase' \in {"group", "done"} => phase \in {"group", "done"} \/ Len(blocks) = Len(found)
    PROVE  ScanState'
BY DEF ScanState, ScanTypes, WellFormed, Measured, ScanIsGreedy, BlocksTile, RefusedForCause,
       fileVars, scanVars, StreamAt, Inside, IsStream, Inflates

LEMMA AcceptStep ==
    ASSUME ScanState, NEW p \in DOMAIN body, Accept(p)
    PROVE  ScanState'
<1> DEFINE s == [offset |-> p, len |-> body[p].len, size |-> body[p].size]
<1>1. /\ phase = "scan" /\ phase' = phase
      /\ p >= pos /\ \A q \in DOMAIN body : q >= pos => p <= q
      /\ body[p].len > 0 /\ Len(found) < MaxBlocks
      /\ found' = Append(found, s) /\ pos' = p + body[p].len
      /\ UNCHANGED <<valid, body, blocks>>
  BY LimitAssumption DEF Accept, IsCandidate, Full, fileVars, ScanState, ScanTypes
<1>2. /\ p \in 0..BodySize /\ body[p].len \in Nat /\ body[p].size \in Nat
      /\ p + body[p].len <= BodySize
  BY DEF ScanState, ScanTypes, WellFormed
<1>3. s \in Streams /\ found \in Seq(Streams) /\ pos \in 0..BodySize
  BY <1>1, <1>2 DEF Streams, ScanState, ScanTypes
<1>4. /\ found' \in Seq(Streams) /\ Len(found') = Len(found) + 1
      /\ \A i \in 1..Len(found) : found'[i] = found[i]
      /\ found'[Len(found) + 1] = s
  BY <1>1, <1>3
<1>5. blocks = <<>>
  BY <1>1 DEF ScanState, ScanTypes
<1>6. ScanTypes' /\ Measured' /\ BlocksTile'
  <2>1. pos' \in 0..BodySize
    BY <1>1, <1>2, BodyAssumption
  <2>2. WellFormed'
    BY <1>1 DEF ScanState, ScanTypes, WellFormed
  <2>3. blocks' = <<>>
    BY <1>1, <1>5
  <2> QED
    BY <1>1, <1>4, <2>1, <2>2, <2>3 DEF ScanTypes, Measured, BlocksTile
<1>7. ScanIsGreedy'
  <2>1. \A i \in 1..Len(found) : StreamAt(i) /\ found[i].offset + found[i].len <= pos
    BY <1>3 DEF ScanState, ScanIsGreedy
  <2>2. \A i \in 1..Len(found') :
            /\ found'[i].offset \in DOMAIN body' /\ found'[i].len = body'[found'[i].offset].len
            /\ found'[i].offset + found'[i].len <= pos'
    <3>1. ASSUME NEW i \in 1..Len(found)
          PROVE  /\ found'[i].offset \in DOMAIN body'
                 /\ found'[i].len = body'[found'[i].offset].len
                 /\ found'[i].offset + found'[i].len <= pos'
      <4>1. found'[i] = found[i] /\ found[i] \in Streams
        BY <1>3, <1>4
      <4>2. found[i].offset + found[i].len <= pos /\ found[i].offset + found[i].len \in Nat
        BY <2>1, <4>1, BodyAssumption DEF Streams
      <4>3. pos <= pos'
        BY <1>1, <1>2, <1>3, BodyAssumption
      <4>4. found[i].offset + found[i].len <= pos'
        BY <1>1, <1>2, <1>3, <4>2, <4>3, BodyAssumption
      <4> QED
        BY <1>1, <2>1, <4>1, <4>4 DEF StreamAt
    <3>2. /\ found'[Len(found) + 1].offset = p /\ found'[Len(found) + 1].len = body[p].len
      BY <1>4
    <3>3. p + body[p].len <= pos'
      BY <1>1, <1>2
    <3> QED
      BY <1>1, <1>3, <1>4, <3>1, <3>2, <3>3
  <2>3. \A i, j \in 1..Len(found') :
            i < j => found'[i].offset + found'[i].len <= found'[j].offset
    <3>1. ASSUME NEW i \in 1..Len(found'), NEW j \in 1..Len(found'), i < j
          PROVE  found'[i].offset + found'[i].len <= found'[j].offset
      <4>1. i \in 1..Len(found) /\ found'[i] = found[i] /\ found[i] \in Streams
        BY <1>3, <1>4, <3>1
      <4>2. CASE j \in 1..Len(found)
        BY <1>3, <1>4, <3>1, <4>1, <4>2 DEF ScanState, ScanIsGreedy
      <4>3. CASE j = Len(found) + 1
        <5>1. found'[j].offset = p
          BY <1>4, <4>3
        <5>2. found[i].offset + found[i].len <= pos /\ found[i].offset + found[i].len \in Nat
          BY <2>1, <4>1, BodyAssumption DEF Streams
        <5>3. pos <= p /\ pos \in Nat /\ p \in Nat
          BY <1>1, <1>2, <1>3, BodyAssumption
        <5>4. found[i].offset + found[i].len <= p
          BY <5>2, <5>3
        <5>5. found'[i].offset + found'[i].len <= p
          BY <4>1, <5>4
        <5> QED
          BY <5>1, <5>5
      <4>4. Len(found') = Len(found) + 1 /\ Len(found) \in Nat
        BY <1>3, <1>4
      <4>5. j \in 1..Len(found) \/ j = Len(found) + 1
        BY <4>4
      <4> QED
        BY <4>2, <4>3, <4>5
    <3> QED
      BY <3>1
  <2>4. ASSUME NEW q \in DOMAIN body', q < pos', IsStream(q)'
        PROVE  \E i \in DOMAIN found' : Inside(q, i)'
    <3>1. q \in DOMAIN body /\ IsStream(q) /\ q \in 0..BodySize
      BY <1>1, <2>4 DEF IsStream, ScanState, ScanTypes, WellFormed
    <3>2. CASE q < pos
      <4>1. PICK i \in DOMAIN found : Inside(q, i)
        BY <3>1, <3>2 DEF ScanState, ScanIsGreedy
      <4>2. i \in DOMAIN found' /\ found'[i] = found[i]
        BY <1>3, <1>4
      <4> QED
        BY <4>1, <4>2 DEF Inside
    <3>3. CASE q >= pos
      <4>1. p <= q /\ q < p + body[p].len
        BY <1>1, <2>4, <3>1, <3>3
      <4>2. Len(found) + 1 \in DOMAIN found'
        BY <1>3, <1>4
      <4> QED
        BY <1>4, <4>1, <4>2 DEF Inside
    <3> QED
      BY <1>3, <3>1, <3>2, <3>3
  <2> QED
    BY <1>4, <2>2, <2>3, <2>4 DEF ScanIsGreedy, StreamAt
<1>8. RefusedForCause'
  BY <1>1, <1>3, <1>4, LimitAssumption DEF RefusedForCause
<1> QED
  BY <1>6, <1>7, <1>8 DEF ScanState

LEMMA SkipStep ==
    ASSUME ScanState, NEW p \in DOMAIN body, SkipFalse(p)
    PROVE  ScanState'
<1>1. /\ phase = "scan" /\ phase' = phase
      /\ p >= pos /\ \A q \in DOMAIN body : q >= pos => p <= q
      /\ body[p].len = 0 /\ pos' = p + 1
      /\ UNCHANGED <<valid, body, blocks, found>>
  BY DEF SkipFalse, IsCandidate, fileVars
<1>2. /\ p \in 0..BodySize /\ p < BodySize /\ pos \in 0..BodySize /\ found \in Seq(Streams)
      /\ DOMAIN body \subseteq 0..BodySize
  BY DEF ScanState, ScanTypes, WellFormed
<1>3. ScanTypes' /\ Measured' /\ BlocksTile'
  BY <1>1, <1>2, BodyAssumption DEF ScanState, ScanTypes, WellFormed, Measured, BlocksTile
<1>4. ScanIsGreedy'
  <2>1. ASSUME NEW i \in DOMAIN found
        PROVE  StreamAt(i)' /\ found'[i].offset + found'[i].len <= pos'
    <3>1. found[i] \in Streams /\ StreamAt(i) /\ found[i].offset + found[i].len <= pos
      BY <1>2, <2>1 DEF ScanState, ScanIsGreedy
    <3> QED
      BY <1>1, <1>2, <3>1 DEF StreamAt, Streams
  <2>2. ASSUME NEW q \in DOMAIN body, q < p + 1, IsStream(q)
        PROVE  \E i \in DOMAIN found : Inside(q, i)
    <3>1. q # p /\ q \in 0..BodySize
      BY <1>1, <1>2, <2>2 DEF IsStream
    <3>2. q < pos
      BY <1>1, <1>2, <2>2, <3>1
    <3> QED
      BY <2>2, <3>2 DEF ScanState, ScanIsGreedy
  <2> QED
    BY <1>1, <2>1, <2>2 DEF ScanState, ScanIsGreedy, IsStream, Inside
<1>5. RefusedForCause'
  BY <1>1 DEF ScanState, RefusedForCause
<1> QED
  BY <1>3, <1>4, <1>5 DEF ScanState

LEMMA AddBlockStep ==
    ASSUME ScanState, AddBlock
    PROVE  ScanState'
<1> DEFINE i == Len(blocks) + 1
           gap == NextStart(i) - (found[i].offset + found[i].len)
           b == [offset |-> found[i].offset, len |-> found[i].len, size |-> found[i].size,
                 gap |-> gap, kind |-> Classify(found[i].size, gap)]
<1>1. /\ phase = "blocks" /\ phase' = phase /\ i <= Len(found)
      /\ blocks' = Append(blocks, b)
      /\ UNCHANGED <<fileVars, scanVars>>
  BY DEF AddBlock
<1>2. /\ found \in Seq(Streams) /\ blocks \in Seq(Blocks) /\ pos \in 0..BodySize
      /\ i \in DOMAIN found /\ found[i] \in Streams
  BY <1>1 DEF ScanState, ScanTypes
<1>3. NextStart(i) \in 0..BodySize /\ found[i].offset + found[i].len <= NextStart(i)
  <2>1. CASE i < Len(found)
    <3>1. i + 1 \in DOMAIN found /\ found[i + 1] \in Streams /\ NextStart(i) = found[i + 1].offset
      BY <1>2, <2>1 DEF NextStart
    <3>2. found[i].offset + found[i].len <= found[i + 1].offset
      BY <1>2, <3>1 DEF ScanState, ScanIsGreedy
    <3> QED
      BY <3>1, <3>2 DEF Streams
  <2>2. CASE ~(i < Len(found))
    <3>1. NextStart(i) = BodySize /\ found[i].offset + found[i].len <= pos
      BY <1>2, <2>2 DEF NextStart, ScanState, ScanIsGreedy
    <3> QED
      BY <1>2, <3>1, BodyAssumption DEF Streams
  <2> QED
    BY <2>1, <2>2
<1>4. gap \in Nat /\ found[i].offset + found[i].len + gap = NextStart(i)
  BY <1>2, <1>3 DEF Streams
<1>5. Classify(found[i].size, gap) \in Kinds
  BY DEF Classify, Kinds
<1>6. b \in Blocks
  <2> HIDE DEF gap
  <2> QED
    BY <1>2, <1>4, <1>5 DEF Blocks, Streams
<1>7. /\ blocks' \in Seq(Blocks) /\ Len(blocks') = Len(blocks) + 1
      /\ \A j \in 1..Len(blocks) : blocks'[j] = blocks[j]
      /\ blocks'[i] = b
  <2> HIDE DEF b
  <2> QED
    BY <1>1, <1>2, <1>6
<1>8. ScanTypes' /\ Measured'
  <2> HIDE DEF gap
  <2>1. ScanTypes'
    BY <1>1, <1>2, <1>7 DEF ScanState, ScanTypes, WellFormed, fileVars, scanVars
  <2>2. Measured'
    BY <1>1, <1>2, <1>7 DEF ScanState, Measured, scanVars
  <2> QED
    BY <2>1, <2>2
<1>9. BlocksTile'
  <2> HIDE DEF gap
  <2>1. ASSUME NEW j \in 1..Len(blocks')
        PROVE  /\ blocks'[j].gap >= 0
               /\ blocks'[j].offset + blocks'[j].len + blocks'[j].gap
                    = IF j < Len(found) THEN found[j + 1].offset ELSE BodySize
    <3>1. CASE j \in 1..Len(blocks)
      BY <1>2, <1>7, <3>1 DEF ScanState, BlocksTile
    <3>2. CASE j = i
      BY <1>2, <1>4, <1>7, <3>2 DEF NextStart
    <3> QED
      BY <1>2, <1>7, <3>1, <3>2
  <2> QED
    BY <1>1, <1>7, <2>1 DEF BlocksTile, scanVars
<1>10. ScanIsGreedy' /\ RefusedForCause'
  BY <1>1 DEF ScanState, ScanIsGreedy, RefusedForCause, fileVars, scanVars, StreamAt, Inside, IsStream
<1> QED
  BY <1>8, <1>9, <1>10 DEF ScanState

LEMMA RefuseStep ==
    ASSUME ScanState,
           \/ \E p \in DOMAIN body : RefuseBomb(p) \/ RefuseTooMany(p)
           \/ Envelope
    PROVE  ScanState'
<1>1. /\ UNCHANGED <<fileVars, scanVars, blocks>>
      /\ phase \in {"envelope", "scan"} /\ phase' \in {"scan", "refused"}
  BY DEF RefuseBomb, RefuseTooMany, Envelope, GoTo
<1>2. ScanTypes' /\ Measured' /\ ScanIsGreedy' /\ BlocksTile'
  BY <1>1 DEF ScanState, ScanTypes, WellFormed, Measured, ScanIsGreedy, BlocksTile,
              fileVars, scanVars, StreamAt, Inside, IsStream
<1>3. RefusedForCause'
  <2>1. Len(found) <= MaxBlocks /\ Len(found) \in Nat
    BY DEF ScanState, RefusedForCause, ScanTypes
  <2>2. CASE Envelope
    BY <1>1, <2>1, <2>2 DEF Envelope, GoTo, RefusedForCause, fileVars, scanVars
  <2>3. ASSUME NEW p \in DOMAIN body, RefuseBomb(p)
        PROVE  RefusedForCause'
    BY <1>1, <2>1, <2>3 DEF RefuseBomb, IsCandidate, Inflates, RefusedForCause, fileVars, scanVars
  <2>4. ASSUME NEW p \in DOMAIN body, RefuseTooMany(p)
        PROVE  RefusedForCause'
    BY <1>1, <2>1, <2>4, LimitAssumption
       DEF RefuseTooMany, IsCandidate, Full, IsStream, RefusedForCause, fileVars, scanVars
  <2> QED
    BY <2>2, <2>3, <2>4
<1> QED
  BY <1>2, <1>3 DEF ScanState

LEMMA ScanStep == ScanState /\ [CNext]_vars => ScanState'
<1> SUFFICES ASSUME ScanState, [CNext]_vars
             PROVE  ScanState'
  OBVIOUS
<1>1. CASE Envelope
  BY <1>1, RefuseStep
<1>2. CASE Scan
  BY <1>2, AcceptStep, SkipStep, RefuseStep DEF Scan
<1>3. CASE EndScan
  BY <1>3, ScanKept DEF EndScan, GoTo
<1>4. CASE AddBlock
  BY <1>4, AddBlockStep
<1>5. CASE EndBlocks
  BY <1>5, ScanKept DEF EndBlocks, GoTo
<1>6. CASE Collect \/ Absorb \/ Single
  BY <1>6, ScanKept DEF Collect, Absorb, Single
<1>7. CASE EndGroups
  BY <1>7, ScanKept DEF EndGroups, GoTo
<1>8. CASE UNCHANGED vars
  BY <1>8, ScanKept DEF vars
<1> QED
  BY <1>1, <1>2, <1>3, <1>4, <1>5, <1>6, <1>7, <1>8 DEF CNext

LEMMA ScanStateHolds == ContainerSpec => []ScanState
BY InitScan, ScanStep, PTL DEF ContainerSpec

----------------------------------------------------------------------------
\* _scan_blocks keeps exactly the streams that do not start inside an earlier
\* one it kept, in any body.
THEOREM GreedyScan == ContainerSpec => []ScanIsGreedy
<1>1. ScanState => ScanIsGreedy
  BY DEF ScanState
<1> QED
  BY <1>1, ScanStateHolds, PTL

\* A file is refused only for its envelope, a trial that inflates past the cap
\* or a stream more than the limit, and never are more blocks kept than that.
THEOREM RefusalsJustified == ContainerSpec => []RefusedForCause
<1>1. ScanState => RefusedForCause
  BY DEF ScanState
<1> QED
  BY <1>1, ScanStateHolds, PTL
----------------------------------------------------------------------------
(* iter_logical_blocks. *)

\* Where the n-th group ends
Final(gs, n) == IF n = 0 THEN 0 ELSE gs[n].last

Parted ==
    \A n \in DOMAIN groups : Final(groups, n - 1) < Final(groups, n) /\ groups[n].parts = Run(Final(groups, n - 1), Final(groups, n))

\* Where one group ends and the next begins, a data chunk is never last.
Together ==
    \A i \in 1..seen : i < Len(blocks) =>
        (IsChunk(i) <=> \/ i > Final(groups, Len(groups))
                        \/ \E n \in DOMAIN groups : Final(groups, n - 1) < i /\ i < Final(groups, n))

GroupTypes ==
    /\ seen \in 0..Len(blocks)
    /\ groups \in Seq(LogicalBlocks)
    /\ \A n \in 0..Len(groups) : Final(groups, n) \in 0..seen

Grouped ==
    /\ ScanState
    /\ valid \in BOOLEAN /\ body \in Bodies
    /\ phase \in {"envelope", "scan", "blocks", "group", "done", "refused"}
    /\ GroupTypes /\ Parted /\ Together
    /\ pending = Run(Final(groups, Len(groups)), seen)
    /\ phase \notin {"group", "done"} => seen = 0 /\ groups = <<>>
    /\ phase = "done" => Final(groups, Len(groups)) = Len(blocks)

LEMMA RunType ==
    ASSUME NEW a \in Nat, NEW b \in Nat, a <= b
    PROVE  /\ Run(a, b) \in Seq(Nat) /\ Len(Run(a, b)) = b - a
           /\ \A S : a + 1..b \subseteq S => Run(a, b) \in Seq(S)
           /\ \A i \in 1..b - a : Run(a, b)[i] = a + i
           /\ Run(a, b) = <<>> <=> a = b
<1>1. b - a \in Nat
  OBVIOUS
<1>2. \A S : a + 1..b \subseteq S => Run(a, b) \in Seq(S)
  <2> SUFFICES ASSUME NEW S, a + 1..b \subseteq S PROVE Run(a, b) \in Seq(S)
    OBVIOUS
  <2>1. \A i \in 1..b - a : a + i \in a + 1..b
    OBVIOUS
  <2>2. Run(a, b) \in [1..b - a -> S]
    BY <2>1 DEF Run
  <2> QED
    BY <1>1, <2>2
<1>3. Run(a, b) \in Seq(Nat)
  BY <1>2
<1>4. Len(Run(a, b)) = b - a
  BY <1>1, <1>3 DEF Run
<1>5. \A i \in 1..b - a : Run(a, b)[i] = a + i
  BY DEF Run
<1>6. Run(a, b) = <<>> <=> a = b
  BY <1>3, <1>4, EmptySeq
<1> QED
  BY <1>2, <1>3, <1>4, <1>5, <1>6

LEMMA RunAppend ==
    ASSUME NEW a \in Nat, NEW b \in Nat, a <= b
    PROVE  Append(Run(a, b), b + 1) = Run(a, b + 1)
<1> DEFINE r == Run(a, b)
           t == Run(a, b + 1)
<1>1. r \in Seq(Nat) /\ Len(r) = b - a /\ \A i \in 1..b - a : r[i] = a + i
  BY RunType
<1>2. t \in Seq(Nat) /\ Len(t) = b + 1 - a /\ \A i \in 1..b + 1 - a : t[i] = a + i
  <2>1. b + 1 \in Nat /\ a <= b + 1
    OBVIOUS
  <2> HIDE DEF t
  <2> QED
    BY <2>1, RunType DEF t
<1> HIDE DEF r, t
<1>3. /\ Append(r, b + 1) \in Seq(Nat) /\ Len(Append(r, b + 1)) = b + 1 - a
      /\ Append(r, b + 1)[b + 1 - a] = b + 1
      /\ \A i \in 1..b - a : Append(r, b + 1)[i] = r[i]
  <2>1. Len(r) + 1 = b + 1 - a
    BY <1>1
  <2> QED
    BY <1>1, <2>1, AppendProperties
<1>4. \A i \in 1..b + 1 - a : Append(r, b + 1)[i] = t[i]
  <2> TAKE i \in 1..b + 1 - a
  <2>1. i \in 1..b - a \/ i = b + 1 - a
    OBVIOUS
  <2>2. CASE i \in 1..b - a
    BY <2>2, <1>1, <1>2, <1>3
  <2>3. CASE i = b + 1 - a
    <3>1. t[i] = a + i /\ a + i = b + 1
      BY <1>2, <2>3
    <3> QED
      BY <3>1, <2>3, <1>3
  <2> QED
    BY <2>1, <2>2, <2>3
<1>5. Append(r, b + 1) = t
  BY <1>2, <1>3, <1>4, SeqEqual
<1> QED
  BY <1>5 DEF r, t

\* A group is added that ends with the block at e.
LEMMA GroupAdded ==
    ASSUME Grouped, NEW g \in LogicalBlocks, NEW e \in Nat,
           e > Final(groups, Len(groups)), seen <= e, e <= Len(blocks),
           g.last = e, g.parts = Run(Final(groups, Len(groups)), e), groups' = Append(groups, g),
           seen' = e, pending' = <<>>, blocks' = blocks,
           \A i \in Final(groups, Len(groups)) + 1..e - 1 : IsChunk(i),
           e < Len(blocks) => ~IsChunk(e)
    PROVE  /\ GroupTypes' /\ Parted' /\ Together'
           /\ Final(groups', Len(groups')) = e /\ pending' = Run(Final(groups', Len(groups')), seen')
<1> DEFINE k == Len(groups)
           f == Final(groups, k)
<1>1. /\ groups \in Seq(LogicalBlocks) /\ k \in Nat /\ seen \in Nat /\ Len(blocks) \in Nat
      /\ \A n \in 0..k : Final(groups, n) \in 0..seen
  BY DEF Grouped, GroupTypes, ScanState, ScanTypes
<1>2. /\ groups' \in Seq(LogicalBlocks) /\ Len(groups') = k + 1 /\ groups'[k + 1] = g
      /\ \A n \in 1..k : groups'[n] = groups[n]
      /\ DOMAIN groups' = 1..k + 1 /\ DOMAIN groups = 1..k
  BY <1>1, AppendProperties
<1> HIDE DEF k
<1>3. \A n \in 0..k : Final(groups', n) = Final(groups, n)
  BY <1>1, <1>2 DEF Final
<1>4. Final(groups', k + 1) = e /\ Final(groups', Len(groups')) = e
  BY <1>1, <1>2 DEF Final
<1>5. f \in 0..seen /\ f \in Nat /\ f < e
  <2>1. k \in 0..k
    BY <1>1
  <2> QED
    BY <1>1, <2>1 DEF k
<1> HIDE DEF f
<1>6. GroupTypes'
  <2>1. \A n \in 0..k + 1 : Final(groups', n) \in 0..e
    <3> TAKE n \in 0..k + 1
    <3>1. n \in 0..k \/ n = k + 1
      BY <1>1
    <3>2. CASE n \in 0..k
      BY <3>2, <1>1, <1>3
    <3>3. CASE n = k + 1
      BY <3>3, <1>4
    <3> QED
      BY <3>1, <3>2, <3>3
  <2> QED
    BY <2>1, <1>1, <1>2 DEF GroupTypes
<1>7. Parted'
  <2> SUFFICES ASSUME NEW n \in 1..k + 1
               PROVE  Final(groups', n - 1) < Final(groups', n) /\ groups'[n].parts = Run(Final(groups', n - 1), Final(groups', n))
    BY <1>2 DEF Parted, Run
  <2>1. CASE n \in 1..k
    <3>1. n - 1 \in 0..k /\ n \in 0..k
      BY <1>1, <2>1
    <3>2. Final(groups, n - 1) < Final(groups, n) /\ groups[n].parts = Run(Final(groups, n - 1), Final(groups, n))
      BY <2>1, <1>2 DEF Grouped, Parted
    <3> QED
      BY <3>1, <3>2, <2>1, <1>2, <1>3
  <2>2. CASE n = k + 1
    <3>1. n - 1 = k /\ k \in 0..k /\ Final(groups', n - 1) = f /\ Final(groups', n) = e
      BY <1>1, <1>3, <1>4, <2>2 DEF f
    <3>2. groups'[n].parts = Run(f, e)
      BY <1>2, <2>2 DEF f, k
    <3> QED
      BY <3>1, <3>2, <1>5
  <2>3. n \in 1..k \/ n = k + 1
    BY <1>1
  <2> QED
    BY <2>1, <2>2, <2>3
<1>8. Together'
  <2> SUFFICES ASSUME NEW i \in 1..e, i < Len(blocks)
               PROVE  IsChunk(i) <=> \/ i > e
                                     \/ \E n \in 1..k + 1 : Final(groups', n - 1) < i /\ i < Final(groups', n)
    BY <1>2, <1>4 DEF Together, IsChunk
  <2>1. (\E n \in 1..k + 1 : Final(groups', n - 1) < i /\ i < Final(groups', n))
        <=> (f < i /\ i < e) \/ \E n \in 1..k : Final(groups, n - 1) < i /\ i < Final(groups, n)
    <3>1. \A n \in 1..k : Final(groups', n - 1) = Final(groups, n - 1) /\ Final(groups', n) = Final(groups, n)
      BY <1>1, <1>3
    <3>2. Final(groups', (k + 1) - 1) = f
      <4>1. (k + 1) - 1 = k /\ k \in 0..k
        BY <1>1
      <4> QED
        BY <4>1, <1>3 DEF f
    <3>3. \A n : n \in 1..k + 1 <=> n \in 1..k \/ n = k + 1
      BY <1>1
    <3> QED
      BY <3>1, <3>2, <3>3, <1>4
  <2>2. CASE i = e
    <3>1. \A n \in 1..k : ~(i < Final(groups, n))
      <4> TAKE n \in 1..k
      <4>1. Final(groups, n) \in 0..seen
        BY <1>1
      <4> QED
        BY <4>1, <2>2, <1>1
    <3> QED
      BY <3>1, <2>1, <2>2
  <2>3. CASE i # e /\ i > f
    <3>1. i \in f + 1..e - 1 /\ i < e
      BY <2>3, <1>5
    <3>2. IsChunk(i)
      BY <3>1 DEF f, k
    <3> QED
      BY <3>1, <3>2, <2>1, <2>3
  <2>4. CASE i # e /\ ~(i > f)
    <3>1. i \in 1..seen
      BY <2>4, <1>1, <1>5
    <3>2. IsChunk(i) <=> \/ i > f \/ \E n \in 1..k : Final(groups, n - 1) < i /\ i < Final(groups, n)
      BY <3>1, <1>2 DEF Grouped, Together, f, k
    <3>3. ~(f < i)
      BY <2>4, <1>5
    <3> QED
      BY <3>2, <3>3, <2>1, <2>4
  <2> QED
    BY <2>2, <2>3, <2>4
<1>9. pending' = Run(Final(groups', Len(groups')), seen')
  BY <1>4, RunType
<1> QED
  BY <1>4, <1>6, <1>7, <1>8, <1>9

\* What the grouping rests on while the other loops run
LEMMA GroupsWait ==
    ASSUME Grouped, seen = 0, groups = <<>>, UNCHANGED groupVars, blocks' \in Seq(Blocks)
    PROVE  /\ GroupTypes' /\ Parted' /\ Together' /\ pending' = Run(Final(groups', Len(groups')), seen')
           /\ seen' = 0 /\ groups' = <<>>
<1>1. seen' = 0 /\ groups' = <<>> /\ pending' = pending /\ Len(groups') = 0 /\ Len(groups) = 0
  BY DEF groupVars
<1>2. Len(blocks') \in Nat
  OBVIOUS
<1>3. groups' \in Seq(LogicalBlocks) /\ DOMAIN groups' = {}
  BY <1>1
<1>4. \A n \in 0..Len(groups') : Final(groups', n) = 0
  BY <1>1 DEF Final
<1>5. GroupTypes'
  BY <1>1, <1>2, <1>3, <1>4 DEF GroupTypes
<1>6. Parted' /\ Together'
  BY <1>1, <1>3 DEF Parted, Together
<1>7. pending' = Run(Final(groups', Len(groups')), seen')
  BY <1>1 DEF Grouped, Final
<1> QED
  BY <1>1, <1>5, <1>6, <1>7

LEMMA CollectStep == ASSUME Grouped, ScanState', Collect PROVE Grouped'
<1> DEFINE f == Final(groups, Len(groups))
<1>1. /\ phase = "group" /\ phase' = phase /\ seen < Len(blocks) /\ seen' = seen + 1
      /\ IsChunk(seen + 1) /\ pending' = Append(pending, seen + 1)
      /\ UNCHANGED <<valid, body, blocks, groups>>
  BY DEF Collect, Visit, fileVars
<1>2. /\ seen \in Nat /\ Len(blocks) \in Nat /\ groups \in Seq(LogicalBlocks) /\ f \in 0..seen
      /\ \A n \in 0..Len(groups) : Final(groups, n) \in 0..seen
  BY DEF Grouped, GroupTypes, ScanState, ScanTypes
<1> HIDE DEF f
<1>3. pending' = Run(f, seen')
  <2>1. f \in Nat /\ f <= seen
    BY <1>2
  <2>2. pending = Run(f, seen)
    BY DEF Grouped, f
  <2> QED
    BY <2>1, <2>2, <1>1, <1>2, RunAppend
<1>4. GroupTypes' /\ Parted'
  <2>1. \A n \in 0..Len(groups) : Final(groups, n) \in 0..seen + 1
    BY <1>2
  <2> QED
    BY <2>1, <1>1, <1>2 DEF Grouped, GroupTypes, Parted
<1>5. Together'
  <2> SUFFICES ASSUME NEW i \in 1..seen + 1, i < Len(blocks)
               PROVE  IsChunk(i) <=> \/ i > f
                                     \/ \E n \in DOMAIN groups : Final(groups, n - 1) < i /\ i < Final(groups, n)
    BY <1>1 DEF Together, IsChunk, f
  <2>1. CASE i \in 1..seen
    BY <2>1 DEF Grouped, Together, f
  <2>2. CASE i = seen + 1
    <3>1. i > f
      BY <2>2, <1>2
    <3> QED
      BY <3>1, <2>2, <1>1
  <2> QED
    BY <2>1, <2>2, <1>2
<1> QED
  BY <1>1, <1>3, <1>4, <1>5 DEF Grouped, f

\* What a flush of the pending run knows of it
LEMMA PendingRun ==
    ASSUME Grouped
    PROVE  /\ seen \in Nat /\ Len(blocks) \in Nat /\ Final(groups, Len(groups)) \in 0..seen
           /\ pending = Run(Final(groups, Len(groups)), seen)
           /\ seen <= Len(blocks)
           /\ pending = <<>> <=> Final(groups, Len(groups)) = seen
           /\ \A i \in Final(groups, Len(groups)) + 1..seen : i < Len(blocks) => IsChunk(i)
<1> DEFINE f == Final(groups, Len(groups))
<1>1. seen \in 0..Len(blocks) /\ Len(blocks) \in Nat /\ f \in 0..seen
  BY DEF Grouped, GroupTypes, ScanState, ScanTypes
<1>2. pending = Run(f, seen)
  BY DEF Grouped
<1>3. \A i \in f + 1..seen : i < Len(blocks) => IsChunk(i)
  <2> SUFFICES ASSUME NEW i \in f + 1..seen, i < Len(blocks) PROVE IsChunk(i)
    OBVIOUS
  <2> HIDE DEF f
  <2>1. i \in 1..seen /\ i > f
    BY <1>1
  <2> QED
    BY <2>1 DEF Grouped, Together, f
<1> HIDE DEF f
<1>4. pending = <<>> <=> f = seen
  <2>1. f \in Nat /\ seen \in Nat /\ f <= seen
    BY <1>1
  <2> QED
    BY <2>1, <1>2, RunType
<1> QED
  BY <1>1, <1>2, <1>3, <1>4 DEF f

LEMMA GroupOfRun ==
    ASSUME NEW a \in Nat, NEW b \in Nat, a < b, NEW kind \in {"symbol_group", "single"}
    PROVE  LET g == Group(Run(a, b), kind)
           IN g \in LogicalBlocks /\ g.last = b /\ g.parts = Run(a, b)
<1>1. /\ Run(a, b) \in Seq(Nat) /\ Len(Run(a, b)) = b - a /\ a <= b
      /\ Run(a, b)[1] = a + 1 /\ Run(a, b)[b - a] = b
  <2>1. a <= b /\ 1 \in 1..b - a /\ b - a \in 1..b - a /\ a + (b - a) = b
    OBVIOUS
  <2> QED
    BY <2>1, RunType
<1> HIDE DEF Run
<1> QED
  BY <1>1 DEF Group, LogicalBlocks

LEMMA FlushStep ==
    ASSUME Grouped, ScanState', Absorb \/ Single \/ (EndGroups /\ pending # <<>>)
    PROVE  Grouped'
<1> DEFINE f == Final(groups, Len(groups))
<1>1. /\ seen \in Nat /\ Len(blocks) \in Nat /\ f \in Nat /\ f <= seen /\ seen <= Len(blocks)
      /\ pending = Run(f, seen) /\ (pending = <<>> <=> f = seen)
      /\ \A i \in f + 1..seen : i < Len(blocks) => IsChunk(i)
  BY PendingRun
<1>2. phase = "group" /\ blocks' = blocks /\ valid' = valid /\ body' = body /\ pending' = <<>>
  BY DEF Absorb, Single, EndGroups, Visit, GoTo, fileVars
<1> HIDE DEF f
<1>3. \E e \in Nat, g \in LogicalBlocks :
        /\ e > f /\ seen <= e /\ e <= Len(blocks) /\ seen' = e
        /\ g.last = e /\ g.parts = Run(f, e) /\ groups' = Append(groups, g)
        /\ \A i \in f + 1..e - 1 : IsChunk(i)
        /\ e < Len(blocks) => ~IsChunk(e)
        /\ phase' = "group" \/ (phase' = "done" /\ e = Len(blocks))
  <2>1. CASE Absorb \/ Single
    <3> DEFINE e == seen + 1
               kind == IF Absorb THEN "symbol_group" ELSE "single"
               g == Group(Run(f, e), kind)
    <3>1. /\ seen < Len(blocks) /\ seen' = e /\ ~IsChunk(e) /\ phase' = "group"
      BY <2>1, <1>2 DEF Absorb, Single, Visit
    <3>2. groups' = Append(groups, g)
      <4>1. CASE Absorb
        <5>1. Append(pending, seen + 1) = Run(f, e)
          BY <1>1, RunAppend
        <5> QED
          BY <4>1, <5>1 DEF Absorb
      <4>2. CASE Single /\ ~Absorb
        <5>1. f = seen
          BY <4>2, <1>1 DEF Single
        <5>2. Append(Run(f, f), f + 1) = Run(f, f + 1)
          BY <1>1, RunAppend
        <5>4. Run(f, f) = <<>>
          BY <1>1, RunType
        <5>3. Append(<<>>, seen + 1) = <<seen + 1>>
          OBVIOUS
        <5> QED
          BY <4>2, <5>1, <5>2, <5>3, <5>4 DEF Single
      <4> QED
        BY <2>1, <4>1, <4>2
    <3>3. e \in Nat /\ f < e
      BY <1>1
    <3>4. g \in LogicalBlocks /\ g.last = e /\ g.parts = Run(f, e)
      <4>1. kind \in {"symbol_group", "single"}
        OBVIOUS
      <4> HIDE DEF e, kind
      <4> QED
        BY <4>1, <1>1, <3>3, GroupOfRun
    <3>5. \A i \in f + 1..e - 1 : IsChunk(i)
      <4> TAKE i \in f + 1..e - 1
      <4>1. i \in f + 1..seen /\ i < Len(blocks)
        BY <1>1, <3>1
      <4> QED
        BY <4>1, <1>1
    <3>6. e <= Len(blocks) /\ seen <= e
      BY <1>1, <3>1
    <3> HIDE DEF g, e
    <3> QED
      BY <3>1, <3>2, <3>3, <3>4, <3>5, <3>6
  <2>2. CASE EndGroups /\ pending # <<>>
    <3> DEFINE g == Group(Run(f, seen), "symbol_group")
    <3>1. /\ seen = Len(blocks) /\ seen' = seen /\ phase' = "done" /\ groups' = Append(groups, g)
      BY <2>2, <1>1 DEF EndGroups, GoTo
    <3>2. f < seen
      BY <2>2, <1>1
    <3>3. g \in LogicalBlocks /\ g.last = seen /\ g.parts = Run(f, seen)
      BY <1>1, <3>2, GroupOfRun
    <3>4. \A i \in f + 1..seen - 1 : IsChunk(i)
      <4> TAKE i \in f + 1..seen - 1
      <4>1. i \in f + 1..seen /\ i < Len(blocks)
        BY <1>1, <3>1
      <4> QED
        BY <4>1, <1>1
    <3> HIDE DEF g
    <3> QED
      BY <1>1, <3>1, <3>2, <3>3, <3>4
  <2> QED
    BY <2>1, <2>2
<1>4. PICK e \in Nat, g \in LogicalBlocks :
        /\ e > f /\ seen <= e /\ e <= Len(blocks) /\ seen' = e
        /\ g.last = e /\ g.parts = Run(f, e) /\ groups' = Append(groups, g)
        /\ \A i \in f + 1..e - 1 : IsChunk(i)
        /\ e < Len(blocks) => ~IsChunk(e)
        /\ phase' = "group" \/ (phase' = "done" /\ e = Len(blocks))
  BY <1>3
<1>5. /\ GroupTypes' /\ Parted' /\ Together'
      /\ Final(groups', Len(groups')) = e /\ pending' = Run(Final(groups', Len(groups')), seen')
  BY <1>2, <1>4, GroupAdded DEF f
<1> QED
  BY <1>2, <1>4, <1>5 DEF Grouped

LEMMA EndStep == ASSUME Grouped, ScanState', EndGroups, pending = <<>> PROVE Grouped'
<1>1. /\ phase = "group" /\ phase' = "done" /\ seen = Len(blocks) /\ groups' = groups /\ pending' = pending
      /\ UNCHANGED <<valid, body, blocks, seen>>
  BY DEF EndGroups, GoTo, fileVars
<1>2. Final(groups, Len(groups)) = seen
  BY PendingRun
<1> QED
  BY <1>1, <1>2 DEF Grouped, GroupTypes, Parted, Together, IsChunk

LEMMA BeforeGroups ==
    ASSUME Grouped, ScanState', Envelope \/ Scan \/ EndScan \/ AddBlock \/ EndBlocks
    PROVE  Grouped'
<1>1. /\ phase \in {"envelope", "scan", "blocks"} /\ UNCHANGED <<valid, body>> /\ UNCHANGED groupVars
      /\ phase' \in {"envelope", "scan", "blocks", "group", "refused"}
  BY DEF Envelope, Scan, SkipFalse, RefuseBomb, RefuseTooMany, Accept, EndScan, AddBlock, EndBlocks, GoTo, fileVars
<1>2. seen = 0 /\ groups = <<>>
  BY <1>1 DEF Grouped
<1>3. blocks' \in Seq(Blocks)
  BY DEF ScanState, ScanTypes
<1> QED
  BY <1>1, <1>2, <1>3, GroupsWait DEF Grouped

LEMMA InitGrouped == CInit => Grouped
<1> SUFFICES ASSUME CInit PROVE Grouped
  OBVIOUS
<1>1. /\ seen = 0 /\ groups = <<>> /\ pending = <<>> /\ phase = "envelope" /\ blocks = <<>>
      /\ valid \in BOOLEAN /\ body \in Bodies
  BY DEF CInit
<1>2. ScanState
  BY InitScan
<1>3. groups \in Seq(LogicalBlocks) /\ Len(groups) = 0 /\ DOMAIN groups = {} /\ Len(blocks) = 0
  BY <1>1
<1>4. \A n \in 0..Len(groups) : Final(groups, n) = 0
  BY <1>1 DEF Final
<1>5. Run(0, 0) = <<>>
  BY RunType
<1>6. GroupTypes /\ Parted /\ Together
  BY <1>1, <1>3, <1>4 DEF GroupTypes, Parted, Together
<1>7. Final(groups, Len(groups)) = 0
  BY <1>3, <1>4
<1> QED
  BY <1>1, <1>2, <1>5, <1>6, <1>7 DEF Grouped

LEMMA GroupedHolds == ContainerSpec => []Grouped
<1>1. Grouped /\ [CNext]_vars => Grouped'
  <2> SUFFICES ASSUME Grouped, [CNext]_vars PROVE Grouped'
    OBVIOUS
  <2>1. ScanState'
    BY ScanStep DEF Grouped
  <2>2. CASE UNCHANGED vars
    BY <2>1, <2>2 DEF vars, fileVars, groupVars, Grouped, GroupTypes, Parted, Together, IsChunk
  <2> QED
    BY <2>1, <2>2, BeforeGroups, CollectStep, FlushStep, EndStep DEF CNext
<1> QED
  BY <1>1, InitGrouped, PTL DEF ContainerSpec

\* Every variable of the parse keeps its type, in any body: what the grouping
\* refers to are blocks that there are.
THEOREM ParseTypeCorrect == ContainerSpec => []ContainerTypeOK
<1>1. Grouped => ContainerTypeOK
  <2> SUFFICES ASSUME Grouped PROVE ContainerTypeOK
    OBVIOUS
  <2>1. /\ seen \in 0..Len(blocks) /\ Len(blocks) \in Nat /\ groups \in Seq(LogicalBlocks)
        /\ \A n \in 0..Len(groups) : Final(groups, n) \in 0..seen
    BY DEF Grouped, GroupTypes, ScanState, ScanTypes
  <2>2. pending \in Seq(1..Len(blocks))
    <3> DEFINE f == Final(groups, Len(groups))
    <3>1. pending = Run(f, seen) /\ f \in 0..seen
      BY PendingRun
    <3> HIDE DEF f
    <3>2. f \in Nat /\ seen \in Nat /\ f <= seen /\ f + 1..seen \subseteq 1..Len(blocks)
      BY <3>1, <2>1
    <3>3. Run(f, seen) \in Seq(1..Len(blocks))
      BY <3>2, RunType
    <3> QED
      BY <3>1, <3>3
  <2>3. \A g \in ToSet(groups) : g.parts \in Seq(1..Len(blocks)) /\ g.parts # <<>>
    <3> SUFFICES ASSUME NEW n \in DOMAIN groups
                 PROVE  groups[n].parts \in Seq(1..Len(blocks)) /\ groups[n].parts # <<>>
      BY DEF ToSet
    <3> DEFINE a == Final(groups, n - 1)
               b == Final(groups, n)
    <3>1. n \in 1..Len(groups) /\ n - 1 \in 0..Len(groups) /\ n \in 0..Len(groups)
      BY <2>1
    <3>2. a \in 0..seen /\ b \in 0..seen
      BY <3>1, <2>1
    <3>3. a < b /\ groups[n].parts = Run(a, b)
      BY DEF Grouped, Parted
    <3> HIDE DEF a, b
    <3>4. a \in Nat /\ b \in Nat /\ a <= b /\ a # b /\ a + 1..b \subseteq 1..Len(blocks)
      BY <3>2, <3>3, <2>1
    <3>5. Run(a, b) \in Seq(1..Len(blocks)) /\ Run(a, b) # <<>>
      BY <3>4, RunType
    <3> QED
      BY <3>3, <3>5
  <2> QED
    BY <2>1, <2>2, <2>3 DEF ContainerTypeOK, Grouped, ScanState, ScanTypes
<1> QED
  BY <1>1, GroupedHolds, PTL

\* However many blocks there are and wherever the data chunks lie, the logical
\* blocks leave out none, and a run of chunks is one payload with the block
\* after it and nothing else.
THEOREM GroupsComplete == ContainerSpec => []GroupsPartition
<1>1. Grouped => GroupsPartition
  <2> SUFFICES ASSUME Grouped PROVE GroupsPartition
    OBVIOUS
  <2>1. \A n : Ends(n) = Final(groups, n)
    BY DEF Ends, Final
  <2>2. Parted /\ pending = Run(Final(groups, Len(groups)), seen)
    BY DEF Grouped
  <2>3. phase = "done" =>
        /\ Final(groups, Len(groups)) = Len(blocks)
        /\ \A i \in 1..Len(blocks) - 1 :
            IsChunk(i) <=> \E n \in DOMAIN groups : Final(groups, n - 1) < i /\ i < Final(groups, n)
    <3> SUFFICES ASSUME phase = "done", NEW i \in 1..Len(blocks) - 1
                 PROVE  /\ Final(groups, Len(groups)) = Len(blocks)
                        /\ IsChunk(i) <=> \E n \in DOMAIN groups : Final(groups, n - 1) < i /\ i < Final(groups, n)
      BY DEF Grouped
    <3>1. Final(groups, Len(groups)) = Len(blocks) /\ Len(blocks) \in Nat
      BY DEF Grouped, ScanState, ScanTypes
    <3>2. seen = Len(blocks)
      BY <3>1, PendingRun
    <3>3. i \in 1..seen /\ i < Len(blocks) /\ ~(i > Final(groups, Len(groups)))
      BY <3>1, <3>2
    <3> QED
      BY <3>1, <3>3 DEF Grouped, Together
  <2> QED
    BY <2>1, <2>2, <2>3 DEF GroupsPartition, Parted
<1> QED
  BY <1>1, GroupedHolds, PTL

\* Streams of one table, and no others, are put together in one payload, in a
\* body of any size: parse_bytes measures the gap to the next stream that the
\* scan keeps, and iter_logical_blocks goes by what it measured.
THEOREM TablesRejoined == ContainerSpec => []SplitTablesRejoined
<1>1. Grouped /\ GroupsPartition => SplitTablesRejoined
  <2> SUFFICES ASSUME Grouped, GroupsPartition, phase = "done", NEW i \in 1..Len(found) - 1
               PROVE  (\E n \in DOMAIN groups : Ends(n - 1) < i /\ i < Ends(n)) <=>
                        /\ found[i].size = ChunkSize
                        /\ found[i + 1].offset = found[i].offset + found[i].len + ChunkGap
    BY DEF SplitTablesRejoined
  <2>1. /\ found \in Seq(Streams) /\ blocks \in Seq(Blocks) /\ Len(blocks) = Len(found)
        /\ Measured /\ BlocksTile
    BY DEF Grouped, ScanState, ScanTypes
  <2>2. /\ i \in DOMAIN blocks /\ i \in DOMAIN found /\ i + 1 \in DOMAIN found /\ i < Len(found)
        /\ i \in 1..Len(blocks) - 1
    BY <2>1
  <2>3. /\ found[i].offset \in Int /\ found[i].len \in Int /\ found[i + 1].offset \in Int
        /\ blocks[i].gap \in Int
    <3>1. found[i] \in Streams /\ found[i + 1] \in Streams /\ blocks[i] \in Blocks
      BY <2>1, <2>2, ElementOfSeq
    <3> QED
      BY <3>1, BodyAssumption DEF Streams, Blocks
  <2>4. found[i].offset + found[i].len + blocks[i].gap = found[i + 1].offset
    BY <2>1, <2>2 DEF Measured, BlocksTile
  <2>5. IsChunk(i) <=> found[i].size = ChunkSize /\ blocks[i].gap = ChunkGap
    BY <2>1, <2>2 DEF Measured, Classify, IsChunk
  <2>6. IsChunk(i) <=> \E n \in DOMAIN groups : Ends(n - 1) < i /\ i < Ends(n)
    BY <2>2 DEF GroupsPartition
  <2> QED
    BY <2>3, <2>4, <2>5, <2>6, LimitAssumption
<1> QED
  BY <1>1, GroupedHolds, GroupsComplete, PTL

----------------------------------------------------------------------------
(* _try_decompress.  Inflating is the inductive invariant: between two     *)
(* calls of zlib everything fed is taken and everything due was given, and *)
(* neither the stream's end nor a bad byte lies behind.                    *)

Known ==
    /\ bytes.size \in InputLengths /\ bytes.gives \in Growing(bytes.size)
    /\ bytes.endsAt \in 0..bytes.size /\ bytes.badAt \in 0..bytes.size
    /\ bytes.badAt = 0 \/ bytes.endsAt = 0

Between ==
    /\ owed = 0 /\ tail = 0 /\ consumed = 0 /\ unused \in Nat
    /\ produced = Released(taken) /\ produced <= MaxOut
    /\ bytes.badAt = 0 \/ bytes.badAt > taken
    /\ IF eof THEN bytes.endsAt = taken /\ taken > 0 /\ taken + unused = fed
              ELSE taken = fed /\ unused = 0 /\ (bytes.endsAt = 0 \/ bytes.endsAt > taken)

Inflating ==
    /\ Known /\ InflateTypeOK
    /\ trial \in {"feed", "drain"} => Between
    /\ WindowsDoNotShow /\ MemoryBounded

LEMMA SmallestOf ==
    ASSUME NEW S \in SUBSET Nat, S # {}
    PROVE  Min(S) \in S /\ \A y \in S : Min(S) <= y
<1> DEFINE R == OpToRel(<, Nat)
<1>1. IsWellFoundedOn(R, Nat)
  BY NatLessThanWellFounded
<1>2. PICK x \in S : \A y \in S : <<y, x>> \notin R
  BY <1>1, WFMin, Zenon
<1>3. \A y \in S : x <= y
  <2> TAKE y \in S
  <2>1. x \in Nat /\ y \in Nat
    OBVIOUS
  <2>2. ~(y < x)
    BY <1>2, <2>1 DEF OpToRel
  <2> QED
    BY <2>1, <2>2
<1> QED
  BY <1>2, <1>3 DEF Min

LEMMA KnownTypes ==
    ASSUME Known
    PROVE  /\ bytes.size \in Nat \ {0} /\ bytes.endsAt \in Nat /\ bytes.badAt \in Nat
           /\ bytes.endsAt <= bytes.size /\ bytes.badAt <= bytes.size
           /\ \A i \in 0..bytes.size : Released(i) \in Nat
           /\ \A i, j \in 0..bytes.size : i <= j => Released(i) <= Released(j)
<1>1. bytes.size \in Nat \ {0} /\ bytes.gives \in [1..bytes.size -> Nat]
  BY InputLengthsAssumption, OutputsAssumption DEF Known, Growing
<1>2. \A i, j \in 1..bytes.size : i <= j => bytes.gives[i] <= bytes.gives[j]
  BY DEF Known, Growing
<1>3. \A i \in 0..bytes.size : Released(i) \in Nat
  BY <1>1 DEF Released
<1>4. \A i, j \in 0..bytes.size : i <= j => Released(i) <= Released(j)
  <2> SUFFICES ASSUME NEW i \in 0..bytes.size, NEW j \in 0..bytes.size, i <= j
               PROVE  Released(i) <= Released(j)
    OBVIOUS
  <2>1. CASE i = 0
    BY <2>1, <1>1, <1>3 DEF Released
  <2>2. CASE i # 0
    <3>1. i \in 1..bytes.size /\ j \in 1..bytes.size /\ j # 0
      BY <2>2, <1>1
    <3> QED
      BY <3>1, <2>2, <1>2 DEF Released
  <2> QED
    BY <2>1, <2>2
<1> QED
  BY <1>1, <1>3, <1>4 DEF Known

\* A call of zlib between two of _pump stops at the first byte that fills the
\* room, ends the stream, or is the last it is given.
LEMMA ReachStops ==
    ASSUME Inflating, Between, NEW n \in Nat, taken + n <= bytes.size
    PROVE  LET r == Reach(n, Limit)
           IN /\ Limit \in Nat \ {0} /\ Limit = MaxOut - produced + 1
              /\ r \in taken..taken + n /\ Stops(r, n, Limit)
              /\ \A i \in taken..r - 1 : ~Stops(i, n, Limit)
<1>1. taken \in Nat /\ produced \in Nat /\ fed \in Nat
  BY KnownTypes DEF Inflating, InflateTypeOK
<1> DEFINE S == {i \in taken..taken + n : Stops(i, n, Limit)}
<1>2. S \in SUBSET Nat /\ taken + n \in S
  BY <1>1 DEF Stops
<1>3. Reach(n, Limit) \in S /\ \A y \in S : Reach(n, Limit) <= y
  BY <1>2, SmallestOf DEF Reach
<1>4. Limit \in Nat \ {0} /\ Limit = MaxOut - produced + 1
  BY <1>1, MaxOutAssumption DEF Between, Limit
<1> HIDE DEF S
<1>5. Reach(n, Limit) \in taken..taken + n /\ Stops(Reach(n, Limit), n, Limit)
  BY <1>3 DEF S
<1>6. \A i \in taken..Reach(n, Limit) - 1 : ~Stops(i, n, Limit)
  <2> SUFFICES ASSUME NEW i \in taken..Reach(n, Limit) - 1, Stops(i, n, Limit) PROVE FALSE
    OBVIOUS
  <2>1. i \in taken..taken + n /\ i < Reach(n, Limit)
    BY <1>1, <1>5
  <2>2. i \in S
    BY <2>1 DEF S
  <2> QED
    BY <2>1, <2>2, <1>1, <1>3, <1>5
<1> QED
  BY <1>4, <1>5, <1>6

LEMMA InitInflating == IInit => Inflating
<1> SUFFICES ASSUME IInit PROVE Inflating
  OBVIOUS
<1>1. Known
  <2>1. PICK n \in InputLengths :
          bytes \in [size : {n}, gives : Growing(n), endsAt : 0..n, badAt : {0}]
                    \cup [size : {n}, gives : Growing(n), endsAt : {0}, badAt : 1..n]
    BY DEF IInit, Inputs
  <2>2. n \in Nat
    BY InputLengthsAssumption
  <2> QED
    BY <2>1, <2>2 DEF Known
<1>2. InflateTypeOK
  <2>1. bytes.size \in InputLengths /\ bytes.gives \in [1..bytes.size -> Outputs]
    BY <1>1 DEF Known, Growing
  <2>2. bytes.size \in Nat
    BY <1>1, KnownTypes
  <2>3. /\ fed = 0 /\ taken = 0 /\ produced = 0 /\ owed = 0 /\ tail = 0 /\ unused = 0
        /\ trial = "feed" /\ consumed = 0
    BY DEF IInit
  <2>4. eof \in BOOLEAN
    BY DEF IInit
  <2> QED
    BY <2>1, <2>2, <2>3, <2>4 DEF InflateTypeOK
<1>3. Between
  BY <1>1, KnownTypes, MaxOutAssumption DEF IInit, Between, Released
<1>4. WindowsDoNotShow /\ MemoryBounded
  BY MaxOutAssumption DEF IInit, WindowsDoNotShow, MemoryBounded
<1> QED
  BY <1>1, <1>2, <1>3, <1>4 DEF Inflating

LEMMA FeedStep == ASSUME Inflating, Feed PROVE Inflating'
<1> DEFINE n == Slice
           r == Reach(n, Limit)
<1>1. /\ trial = "feed" /\ ~eof /\ fed < bytes.size /\ fed' = fed + n /\ Pump(n) /\ bytes' = bytes
      /\ Between /\ Known /\ InflateTypeOK
  BY DEF Feed, Inflating
<1>2. /\ taken = fed /\ owed = 0 /\ tail = 0 /\ unused = 0 /\ consumed = 0
      /\ produced = Released(taken) /\ produced <= MaxOut
      /\ bytes.badAt = 0 \/ bytes.badAt > taken
      /\ bytes.endsAt = 0 \/ bytes.endsAt > taken
  BY <1>1 DEF Between
<1>3. /\ bytes.size \in Nat \ {0} /\ bytes.endsAt \in Nat /\ bytes.badAt \in Nat
      /\ bytes.endsAt <= bytes.size /\ bytes.badAt <= bytes.size
      /\ \A i \in 0..bytes.size : Released(i) \in Nat
      /\ \A i, j \in 0..bytes.size : i <= j => Released(i) <= Released(j)
      /\ bytes.badAt = 0 \/ bytes.endsAt = 0
  BY <1>1, KnownTypes DEF Known
<1>4. fed \in Nat /\ taken \in Nat /\ produced \in Nat /\ fed <= bytes.size
  BY <1>1 DEF InflateTypeOK
<1>5. n \in Nat \ {0} /\ fed + n <= bytes.size
  BY <1>1, <1>3, <1>4, WindowAssumption DEF Slice
<1> HIDE DEF n
<1>6. /\ Limit \in Nat \ {0} /\ Limit = MaxOut - produced + 1
      /\ r \in taken..taken + n /\ Stops(r, n, Limit)
      /\ \A i \in taken..r - 1 : ~Stops(i, n, Limit)
  BY <1>1, <1>2, <1>5, ReachStops, Inflating
<1> HIDE DEF r
<1>7. r \in Nat /\ r >= taken /\ r <= taken + n /\ r <= bytes.size
  <2>1. r \in taken..taken + n
    BY <1>6
  <2> QED
    BY <2>1, <1>2, <1>3, <1>4, <1>5
\* Nothing before r fills the room.
<1>8. \A i \in taken..r - 1 : i \in 0..bytes.size /\ Released(i) <= MaxOut
  <2> SUFFICES ASSUME NEW i \in taken..r - 1 PROVE i \in 0..bytes.size /\ Released(i) <= MaxOut
    OBVIOUS
  <2>1. i \in 0..bytes.size /\ Released(i) \in Nat
    BY <1>3, <1>4, <1>7
  <2>2. ~(Due(i) >= Limit)
    BY <1>6 DEF Stops
  <2> QED
    BY <2>1, <2>2, <1>4, <1>6, MaxOutAssumption DEF Due
<1>9. r > taken
  <2> SUFFICES ASSUME r = taken PROVE FALSE
    BY <1>4, <1>7
  <2>1. Due(taken) = 0
    BY <1>2, <1>4 DEF Due
  <2> QED
    BY <2>1, <1>2, <1>4, <1>5, <1>6 DEF Stops
<1>10. Known'
  BY <1>1 DEF Known, Growing
<1>11. Released(r) \in Nat /\ \A i : Released(i)' = Released(i)
  BY <1>1, <1>3, <1>7 DEF Released
<1>12. CASE Broken(n, Limit)
  <2>1. trial' = "none" /\ UNCHANGED <<zlibVars, consumed>>
    BY <1>1, <1>12 DEF Pump
  <2>2. bytes.badAt > taken /\ bytes.badAt <= r /\ bytes.endsAt = 0
    BY <1>12, <1>3, <1>4, <1>7 DEF Broken, r
  <2>3. ~Over(bytes.badAt - 1) /\ ~Over(bytes.badAt - 1)'
    <3>1. bytes.badAt - 1 \in taken..r - 1
      BY <2>2, <1>3, <1>4, <1>7
    <3>2. Released(bytes.badAt - 1) <= MaxOut /\ Released(bytes.badAt - 1) \in Nat
      BY <3>1, <1>3, <1>8
    <3> QED
      BY <3>2, <1>1, MaxOutAssumption DEF Over, Released
  <2>4. Expected' = <<"none", 0>>
    <3>1. bytes.badAt > 0 /\ bytes'.badAt = bytes.badAt /\ bytes'.endsAt = 0
      BY <2>2, <1>1, <1>3, <1>4
    <3> QED
      BY <3>1, <2>3, <1>3 DEF Expected, Over
  <2>5. InflateTypeOK'
    BY <2>1, <1>1, <1>2, <1>3, <1>4, <1>5 DEF InflateTypeOK, zlibVars
  <2> QED
    BY <2>1, <2>4, <2>5, <1>2, <1>10, <1>1, <1>4, MaxOutAssumption
       DEF Inflating, WindowsDoNotShow, MemoryBounded, zlibVars
<1>13. CASE ~Broken(n, Limit)
  <2>1. Decompress(n, Limit) /\ trial' = (IF produced' > MaxOut THEN "bomb" ELSE "drain") /\ consumed' = consumed
    BY <1>1, <1>13 DEF Pump
  <2>2. bytes.badAt = 0 \/ bytes.badAt > r
    BY <1>13, <1>2, <1>3, <1>4, <1>7 DEF Broken, r
  <2>3. bytes.endsAt = 0 \/ bytes.endsAt >= r
    <3> SUFFICES ASSUME bytes.endsAt # 0, bytes.endsAt < r PROVE FALSE
      BY <1>3, <1>7
    <3>1. bytes.endsAt \in taken..r - 1
      BY <1>2, <1>3, <1>4, <1>7
    <3> QED
      BY <3>1, <1>3, <1>6 DEF Stops
  <2>4. CASE Due(r) >= Limit
    <3> DEFINE ends == r = bytes.endsAt /\ r > 0 /\ Limit = Due(r)
    <3>1. /\ taken' = r /\ produced' = produced + Limit /\ owed' = Due(r) - Limit /\ eof' = ends
          /\ unused' = (IF ends THEN taken + n - r ELSE 0)
          /\ tail' = (IF ends THEN 0 ELSE taken + n - r)
      BY <2>1, <2>4, <1>4, <1>6, <1>11 DEF Decompress, Due, r
    <3>2. produced' = MaxOut + 1 /\ trial' = "bomb" /\ owed' \in Nat
      BY <3>1, <2>1, <2>4, <1>4, <1>6, <1>11, MaxOutAssumption DEF Due
    <3>3. InflateTypeOK'
      <4>1. tail' + unused' = fed' - taken' /\ taken' \in 0..fed' /\ fed' \in 0..bytes.size
        BY <3>1, <1>1, <1>2, <1>4, <1>5, <1>7
      <4>2. produced' \in Nat /\ eof' \in BOOLEAN /\ consumed' \in 0..bytes.size
        BY <3>1, <3>2, <2>1, <1>2, <1>3, MaxOutAssumption
      <4> QED
        BY <4>1, <4>2, <3>2, <1>1 DEF InflateTypeOK
    <3>4. \A last \in r..bytes.size : Over(last) /\ Over(last)'
      <4> SUFFICES ASSUME NEW last \in r..bytes.size PROVE Over(last) /\ Over(last)'
        OBVIOUS
      <4>1. Released(r) <= Released(last) /\ Released(last) \in Nat
        BY <1>3, <1>7
      <4>2. Released(r) > MaxOut
        BY <2>4, <1>4, <1>6, <1>11, MaxOutAssumption DEF Due
      <4>3. Released(last)' = Released(last)
        BY <1>11
      <4> QED
        BY <4>1, <4>2, <4>3, <1>11, MaxOutAssumption DEF Over
    <3>5. Expected' = <<"bomb", 0>>
      <4> DEFINE last == IF bytes.badAt > 0 THEN bytes.badAt - 1
                         ELSE IF bytes.endsAt > 0 THEN bytes.endsAt ELSE bytes.size
      <4>1. last \in r..bytes.size
        BY <2>2, <2>3, <1>3, <1>7
      <4>2. Over(last)'
        BY <3>4, <4>1, <1>1 DEF Over, Released
      <4> QED
        BY <4>2, <1>1 DEF Expected, Over
    <3> QED
      BY <3>2, <3>3, <3>5, <2>1, <1>2, <1>10, MaxOutAssumption DEF Inflating, WindowsDoNotShow, MemoryBounded
  <2>5. CASE Due(r) < Limit
    <3> DEFINE ends == r = bytes.endsAt /\ r > 0
    <3>1. /\ taken' = r /\ produced' = produced + Due(r) /\ owed' = Due(r) - Due(r) /\ eof' = ends
          /\ unused' = (IF ends THEN taken + n - r ELSE 0)
          /\ tail' = (IF ends THEN 0 ELSE taken + n - r)
      BY <2>1, <2>5, <1>4, <1>6, <1>11 DEF Decompress, Due, r
    <3>2. produced' = Released(r) /\ produced' <= MaxOut /\ owed' = 0 /\ trial' = "drain"
      BY <3>1, <2>1, <2>5, <1>4, <1>6, <1>11, MaxOutAssumption DEF Due
    <3>3. ~ends => r = taken + n
      BY <2>5, <1>4, <1>6, <1>7, <1>11 DEF Stops, Due
    <3>4. InflateTypeOK'
      <4>1. tail' + unused' = fed' - taken' /\ taken' \in 0..fed' /\ fed' \in 0..bytes.size
        BY <3>1, <1>1, <1>2, <1>4, <1>5, <1>7
      <4>2. produced' \in Nat /\ eof' \in BOOLEAN /\ consumed' \in 0..bytes.size
        BY <3>1, <3>2, <2>1, <1>2, <1>3, <1>11
      <4> QED
        BY <4>1, <4>2, <3>2, <1>1 DEF InflateTypeOK
    <3>5. Between'
      <4>1. tail' = 0 /\ consumed' = 0 /\ unused' \in Nat
        BY <3>1, <3>3, <2>1, <1>2, <1>4, <1>5, <1>7
      <4>2. produced' = Released(taken)'
        BY <3>1, <3>2, <1>1 DEF Released
      <4>3. IF eof' THEN bytes.endsAt = r /\ r > 0 /\ r + unused' = fed'
            ELSE r = fed' /\ unused' = 0 /\ (bytes.endsAt = 0 \/ bytes.endsAt > r)
        <5>1. fed' = fed + n /\ taken = fed
          BY <1>1, <1>2
        <5>2. CASE ends
          <6>1. eof' /\ r = bytes.endsAt /\ r > 0 /\ unused' = taken + n - r
            BY <5>2, <3>1, Zenon
          <6> QED
            BY <5>1, <6>1, <1>4, <1>5, <1>7
        <5>3. CASE ~ends
          <6>1. bytes.endsAt # r
            BY <5>3, <1>4, <1>7, <1>9
          <6>2. ~eof' /\ unused' = 0 /\ r = taken + n
            BY <5>3, <3>1, <3>3, Zenon
          <6> QED
            BY <5>1, <6>1, <6>2, <2>3, <1>3, <1>7
        <5> QED
          BY <5>2, <5>3
      <4> QED
        BY <4>1, <4>2, <4>3, <3>1, <3>2, <2>2, <1>1 DEF Between
    <3>6. WindowsDoNotShow' /\ MemoryBounded'
      BY <3>2, <1>11, MaxOutAssumption DEF WindowsDoNotShow, MemoryBounded
    <3> QED
      BY <3>4, <3>5, <3>6, <1>10 DEF Inflating
  <2> QED
    BY <2>4, <2>5, <1>4, <1>6, <1>11 DEF Due
<1> QED
  BY <1>12, <1>13

LEMMA RunOutStep == ASSUME Inflating, RunOut PROVE Inflating'
<1>1. /\ trial = "feed" /\ ~eof /\ fed >= bytes.size /\ trial' = "none"
      /\ UNCHANGED <<bytes, fed, zlibVars, consumed>> /\ Between /\ Known /\ InflateTypeOK
  BY DEF RunOut, Inflating
<1>2. fed = bytes.size /\ taken = bytes.size
  BY <1>1, KnownTypes DEF Between, InflateTypeOK
<1>3. bytes.badAt = 0 /\ bytes.endsAt = 0
  BY <1>1, <1>2, KnownTypes DEF Between
<1>4. ~Over(bytes.size)
  BY <1>1, <1>2, KnownTypes, MaxOutAssumption DEF Between, Over
<1>5. Expected = <<"none", 0>>
  BY <1>3, <1>4 DEF Expected
<1>6. Expected' = Expected
  BY <1>1 DEF Expected, Over, Released
<1>7. consumed' = 0
  BY <1>1 DEF Between
<1>8. Known' /\ InflateTypeOK' /\ MemoryBounded'
  BY <1>1 DEF Inflating, Known, Growing, InflateTypeOK, MemoryBounded, zlibVars
<1> QED
  BY <1>1, <1>5, <1>6, <1>7, <1>8 DEF Inflating, WindowsDoNotShow

LEMMA DrainStep == ASSUME Inflating, Drain PROVE Inflating'
<1>1. tail = 0 /\ trial = "drain" /\ Between
  BY DEF Drain, Inflating, Between
<1>2. trial' = "feed" /\ UNCHANGED <<bytes, fed, zlibVars, consumed>>
  BY <1>1 DEF Drain
<1> QED
  BY <1>1, <1>2
     DEF Inflating, Known, Growing, InflateTypeOK, MemoryBounded, WindowsDoNotShow, Between, Released, zlibVars

LEMMA FinishStep == ASSUME Inflating, Finish PROVE Inflating'
<1>1. /\ trial = "feed" /\ eof /\ consumed' = fed - unused /\ trial' = "stream"
      /\ UNCHANGED <<bytes, fed, zlibVars>> /\ Between /\ Known /\ InflateTypeOK
  BY DEF Finish, Inflating
<1>2. /\ bytes.endsAt = taken /\ taken > 0 /\ taken + unused = fed /\ bytes.badAt = 0
      /\ taken \in Nat /\ fed \in Nat
  BY <1>1, KnownTypes DEF Between, Known, InflateTypeOK
<1>3. unused = fed - taken /\ consumed' = bytes.endsAt
  <2>1. unused \in Nat
    BY <1>1 DEF Between
  <2> QED
    BY <1>1, <1>2, <2>1
<1>4. ~Over(bytes.endsAt)
  BY <1>1, <1>2, KnownTypes, MaxOutAssumption DEF Between, Over
<1>5. Expected = <<"stream", bytes.endsAt>>
  BY <1>2, <1>4 DEF Expected
<1>6. Expected' = Expected
  BY <1>1 DEF Expected, Over, Released
<1>7. Known' /\ MemoryBounded'
  BY <1>1 DEF Inflating, Known, Growing, MemoryBounded, zlibVars
<1>8. InflateTypeOK'
  BY <1>1, <1>3, KnownTypes DEF InflateTypeOK, zlibVars
<1> QED
  BY <1>1, <1>3, <1>5, <1>6, <1>7, <1>8 DEF Inflating, WindowsDoNotShow

LEMMA InflatingInvariant == InflateSpec => []Inflating
<1>1. Inflating /\ [INext]_inflateVars => Inflating'
  <2> SUFFICES ASSUME Inflating, [INext]_inflateVars PROVE Inflating'
    OBVIOUS
  <2>1. CASE UNCHANGED inflateVars
    BY <2>1 DEF inflateVars, zlibVars, Inflating, Known, Growing, InflateTypeOK, Between, Released,
                WindowsDoNotShow, Expected, Over, MemoryBounded
  <2> QED
    BY <2>1, FeedStep, RunOutStep, DrainStep, FinishStep DEF INext
<1> QED
  BY <1>1, InitInflating, PTL DEF InflateSpec

\* For inputs of any length and windows of any size, zlib's counters add up to
\* the bytes it was fed: no byte is lost between a window and the next.
THEOREM WindowsAddUp == InflateSpec => []InflateTypeOK
<1>1. Inflating => InflateTypeOK
  BY DEF Inflating
<1> QED
  BY <1>1, InflatingInvariant, PTL

\* However much a byte of input inflates to, one byte over the cap is the most
\* that is ever held.
THEOREM OutputBounded == InflateSpec => []MemoryBounded
<1>1. Inflating => MemoryBounded
  BY DEF Inflating
<1> QED
  BY <1>1, InflatingInvariant, PTL

\* Wherever the windows fall, a stream, its length, garbage, a stream cut short
\* and a bomb are told apart as they would be in one piece.
THEOREM WindowsInvisible == InflateSpec => []WindowsDoNotShow
<1>1. Inflating => WindowsDoNotShow
  BY DEF Inflating
<1> QED
  BY <1>1, InflatingInvariant, PTL
====
