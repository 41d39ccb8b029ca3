---- MODULE ContainerScan ----
(***************************************************************************)
(* parser/container.py: parse_bytes finds the zlib streams in the body of  *)
(* a QVW, measures the gap after each and classifies it, and               *)
(* iter_logical_blocks groups the blocks into payloads.  Each action is    *)
(* one turn of one of the three loops.                                     *)
(*                                                                         *)
(* A body is what the scan can find out about it: the offsets at which one *)
(* of the zlib prefixes occurs and what a trial decompression there gives, *)
(* the length of the stream (0 when there is none) and the bytes it        *)
(* inflates to before it ends or fails.                                    *)
(***************************************************************************)
EXTENDS Integers, SequencesExt

CONSTANTS
    BodySize,              \* len(body)
    Lengths, Sizes,        \* the trials' outcomes
    MaxBlockSize,          \* MAX_DECOMPRESSED_BLOCK_SIZE
    MaxBlocks,             \* MAX_BLOCKS_PER_FILE
    ChunkSize,             \* DATA_CHUNK_DECOMPRESSED_SIZE
    ChunkGap,              \* DATA_CHUNK_GAP_SIZE
    MetadataGap            \* METADATA_GAP_MIN

ASSUME BodyAssumption == BodySize \in Nat
ASSUME TrialAssumption == Lengths \subseteq Nat /\ Sizes \subseteq Nat
ASSUME LimitAssumption ==
    MaxBlockSize \in Nat /\ MaxBlocks \in Nat
    /\ ChunkSize \in Nat /\ ChunkGap \in Nat /\ MetadataGap \in Nat

VARIABLES
    valid,     \* whether validate_envelope accepts the file
    body,      \* [offsets of zlib prefixes -> trial]
    phase,     \* "envelope", "scan", "blocks", "group", "done", "refused"
    pos,       \* where the scan stands
    found,     \* the streams accepted so far
    blocks,    \* container.blocks
    seen,      \* blocks the grouping has visited
    pending,   \* the run of data chunks it has collected
    groups     \* the logical blocks

fileVars == <<valid, body>>
scanVars == <<pos, found>>
groupVars == <<seen, pending, groups>>
vars == <<fileVars, phase, scanVars, blocks, groupVars>>

Trials == [len : Lengths, size : Sizes]
Streams == [offset : 0..BodySize, len : Nat \ {0}, size : Nat]
Kinds == {"data_chunk", "metadata", "unknown"}
Blocks == [offset : 0..BodySize, len : Nat \ {0}, size : Nat, gap : Int, kind : Kinds]
LogicalBlocks ==
    [first : Nat, last : Nat, parts : Seq(Nat), kind : {"symbol_group", "single"}]

\* A prefix is two bytes that no other prefix overlaps; a stream lies within
\* the body.
Bodies ==
    UNION {{b \in [S -> Trials] : \A p \in S : p + b[p].len <= BodySize} :
             S \in {S \in SUBSET (0..BodySize - 2) : \A p \in S : p + 1 \notin S}}

CInit ==
    /\ valid \in BOOLEAN
    /\ body \in Bodies
    /\ phase = "envelope"
    /\ pos = 0 /\ found = <<>>
    /\ blocks = <<>>
    /\ seen = 0 /\ pending = <<>> /\ groups = <<>>

----------------------------------------------------------------------------
(* parse_bytes *)

GoTo(here, there) == phase = here /\ phase' = there

Envelope ==
    /\ GoTo("envelope", IF valid THEN "scan" ELSE "refused")
    /\ UNCHANGED <<fileVars, scanVars, blocks, groupVars>>

\* _find_next_zlib_start
IsCandidate(p) == p \in DOMAIN body /\ p >= pos /\ \A q \in DOMAIN body : q >= pos => p <= q

Inflates(p) == body[p].size <= MaxBlockSize    \* else ZlibBombError, stream or not

SkipFalse_stays(p) ==
    /\ phase = "scan" /\ IsCandidate(p)
    /\ Inflates(p) /\ body[p].len = 0
    /\ pos' = p
    /\ UNCHANGED <<fileVars, phase, found, blocks, groupVars>>

SkipFalse(p) ==
    /\ phase = "scan" /\ IsCandidate(p)
    /\ Inflates(p) /\ body[p].len = 0
    /\ pos' = p + 1
    /\ UNCHANGED <<fileVars, phase, found, blocks, groupVars>>

RefuseBomb(p) ==
    /\ IsCandidate(p)
    /\ ~Inflates(p)
    /\ GoTo("scan", "refused")
    /\ UNCHANGED <<fileVars, scanVars, blocks, groupVars>>

Full_early == Len(found) >= MaxBlocks - 1
Full == Len(found) >= MaxBlocks

RefuseTooMany(p) ==
    /\ IsCandidate(p)
    /\ Inflates(p) /\ body[p].len > 0
    /\ Full
    /\ GoTo("scan", "refused")
    /\ UNCHANGED <<fileVars, scanVars, blocks, groupVars>>

Accept_rescans(p) ==
    /\ phase = "scan" /\ IsCandidate(p)
    /\ Inflates(p) /\ body[p].len > 0
    /\ ~Full
    /\ found' = Append(found, [offset |-> p, len |-> body[p].len, size |-> body[p].size])
    /\ pos' = p + 1
    /\ UNCHANGED <<fileVars, phase, blocks, groupVars>>

Accept_skipsOne(p) ==
    /\ phase = "scan" /\ IsCandidate(p)
    /\ Inflates(p) /\ body[p].len > 0
    /\ ~Full
    /\ found' = Append(found, [offset |-> p, len |-> body[p].len, size |-> body[p].size])
    /\ pos' = p + body[p].len + 1
    /\ UNCHANGED <<fileVars, phase, blocks, groupVars>>

Accept(p) ==
    /\ phase = "scan" /\ IsCandidate(p)
    /\ Inflates(p) /\ body[p].len > 0
    /\ ~Full
    /\ found' = Append(found, [offset |-> p, len |-> body[p].len, size |-> body[p].size])
    /\ pos' = p + body[p].len
    /\ UNCHANGED <<fileVars, phase, blocks, groupVars>>

EndScan ==
    /\ \A p \in DOMAIN body : p < pos
    /\ GoTo("scan", "blocks")
    /\ UNCHANGED <<fileVars, scanVars, blocks, groupVars>>

\* _classify_block
Classify(size, gap) ==
    CASE size = ChunkSize /\ gap = ChunkGap -> "data_chunk"
      [] ~(size = ChunkSize /\ gap = ChunkGap) /\ gap >= MetadataGap -> "metadata"
      [] OTHER -> "unknown"

NextStart_prefix(i) == Min({p \in DOMAIN body : p >= found[i].offset + found[i].len} \cup {BodySize})
NextStart(i) == IF i < Len(found) THEN found[i + 1].offset ELSE BodySize

AddBlock ==
    LET i == Len(blocks) + 1
        gap == NextStart(i) - (found[i].offset + found[i].len)
    IN /\ phase = "blocks"
       /\ i <= Len(found)
       /\ blocks' = Append(blocks, [offset |-> found[i].offset, len |-> found[i].len,
                                    size |-> found[i].size, gap |-> gap,
                                    kind |-> Classify(found[i].size, gap)])
       /\ UNCHANGED <<fileVars, phase, scanVars, groupVars>>

EndBlocks ==
    /\ Len(blocks) = Len(found)
    /\ GoTo("blocks", "group")
    /\ UNCHANGED <<fileVars, scanVars, blocks, groupVars>>

----------------------------------------------------------------------------
(* iter_logical_blocks *)

IsChunk(i) == blocks[i].kind = "data_chunk"
Group(parts, kind) ==
    [first |-> parts[1], last |-> parts[Len(parts)], parts |-> parts, kind |-> kind]

Visit == phase = "group" /\ seen < Len(blocks) /\ seen' = seen + 1

Collect ==
    /\ Visit
    /\ IsChunk(seen + 1)
    /\ pending' = Append(pending, seen + 1)
    /\ UNCHANGED <<fileVars, phase, scanVars, blocks, groups>>

Absorb_keepsTail ==
    /\ Visit
    /\ ~IsChunk(seen + 1) /\ pending # <<>>
    /\ groups' = groups \o <<Group(pending, "symbol_group"), Group(<<seen + 1>>, "single")>>
    /\ pending' = <<>>
    /\ UNCHANGED <<fileVars, phase, scanVars, blocks>>

\* The block after a run of chunks completes their payload.
Absorb ==
    /\ Visit
    /\ ~IsChunk(seen + 1) /\ pending # <<>>
    /\ groups' = Append(groups, Group(Append(pending, seen + 1), "symbol_group"))
    /\ pending' = <<>>
    /\ UNCHANGED <<fileVars, phase, scanVars, blocks>>

Single ==
    /\ Visit
    /\ ~IsChunk(seen + 1) /\ pending = <<>>
    /\ groups' = Append(groups, Group(<<seen + 1>>, "single"))
    /\ UNCHANGED <<fileVars, phase, scanVars, blocks, pending>>

EndGroups ==
    /\ seen = Len(blocks)
    /\ GoTo("group", "done")
    /\ groups' = IF pending = <<>> THEN groups ELSE Append(groups, Group(pending, "symbol_group"))
    /\ pending' = <<>>
    /\ UNCHANGED <<fileVars, scanVars, blocks, seen>>

----------------------------------------------------------------------------
Scan == \E p \in DOMAIN body : SkipFalse(p) \/ RefuseBomb(p) \/ RefuseTooMany(p) \/ Accept(p)

CNext ==
    \/ Envelope
    \/ Scan \/ EndScan
    \/ AddBlock \/ EndBlocks
    \/ Collect \/ Absorb \/ Single \/ EndGroups

ContainerSpec == CInit /\ [][CNext]_vars
FairContainerSpec == ContainerSpec /\ WF_vars(CNext)

----------------------------------------------------------------------------
ContainerTypeOK ==
    /\ valid \in BOOLEAN
    /\ body \in Bodies
    /\ phase \in {"envelope", "scan", "blocks", "group", "done", "refused"}
    /\ pos \in 0..BodySize
    /\ found \in Seq(Streams)
    /\ blocks \in Seq(Blocks)
    /\ seen \in 0..Len(blocks)
    /\ pending \in Seq(1..Len(blocks))
    /\ groups \in Seq(LogicalBlocks)
    /\ \A g \in ToSet(groups) : g.parts \in Seq(1..Len(blocks)) /\ g.parts # <<>>

IsStream(p) == body[p].len > 0
StreamAt(i) == found[i].offset \in DOMAIN body /\ found[i].len = body[found[i].offset].len
Inside(p, i) == found[i].offset <= p /\ p < found[i].offset + found[i].len

\* The scan keeps exactly the streams that do not start inside an earlier one
\* it kept: the accepted streams are real, in order and disjoint, and every
\* stream it has passed over lies in an accepted one.  A false prefix, before
\* a stream or within one, hides nothing.
ScanIsGreedy ==
    /\ \A i \in DOMAIN found : StreamAt(i) /\ found[i].offset + found[i].len <= pos
    /\ \A i, j \in DOMAIN found : i < j => found[i].offset + found[i].len <= found[j].offset
    /\ \A p \in DOMAIN body : p < pos /\ IsStream(p) => \E i \in DOMAIN found : Inside(p, i)

\* The last block of the first n groups, and the blocks after a up to b
Ends(n) == IF n = 0 THEN 0 ELSE groups[n].last
Run(a, b) == [i \in 1..b - a |-> a + i]

\* The logical blocks are runs of blocks that follow on each other and leave
\* out none, and the payload of a symbol table is complete and nothing else: a
\* block shares its group with the block that follows it exactly if it is a
\* data chunk.
GroupsPartition ==
    /\ \A n \in DOMAIN groups : Ends(n - 1) < Ends(n) /\ groups[n].parts = Run(Ends(n - 1), Ends(n))
    /\ pending = Run(Ends(Len(groups)), seen)
    /\ phase = "done" =>
        /\ Ends(Len(groups)) = Len(blocks)
        /\ \A i \in 1..Len(blocks) - 1 :
            IsChunk(i) <=> \E n \in DOMAIN groups : Ends(n - 1) < i /\ i < Ends(n)

\* A symbol table that QlikView split over several streams, and no other
\* content, is put together again: two streams that follow on each other in the
\* file end up in one payload exactly if the first inflates to a full chunk and
\* the chunk framing is all that lies between them.  What lies between them is
\* measured to the next stream: a false prefix in the gap does not count.
SplitTablesRejoined ==
    phase = "done" =>
        \A i \in 1..Len(found) - 1 :
            (\E n \in DOMAIN groups : Ends(n - 1) < i /\ i < Ends(n)) <=>
                /\ found[i].size = ChunkSize
                /\ found[i + 1].offset = found[i].offset + found[i].len + ChunkGap

\* A file is refused only for a cause the limits name: "more than" MaxBlocks
\* streams, a trial that inflates past MaxBlockSize, or a bad envelope.  One
\* with exactly MaxBlocks streams is parsed.
RefusedForCause ==
    /\ Len(found) <= MaxBlocks
    /\ phase = "refused" =>
        \/ ~valid
        \/ \E p \in DOMAIN body : p >= pos /\ ~Inflates(p)
        \/ Len(found) = MaxBlocks /\ \E p \in DOMAIN body : p >= pos /\ IsStream(p)

\* The parse ends, whatever the body holds.
ParseEnds == <>(phase \in {"done", "refused"})
====
