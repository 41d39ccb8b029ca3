---- MODULE MetadataBlocks ----
(***************************************************************************)
(* store.py: what ensure_parsed makes of the blocks of a container, in the *)
(* order in which it does: the load script, the field names, the table     *)
(* names, the value sets and the table directory.                          *)
(*                                                                         *)
(* A block is its bytes and whether container.py calls it a data chunk.  A *)
(* run of chunks and the block behind it make one logical block, in which  *)
(* the values are looked for; names and the directory are looked for in    *)
(* the blocks as they are.                                                 *)
(*                                                                         *)
(* With each block goes what the program that wrote the file meant by the  *)
(* chunks before it and itself: the bytes of all of them (whole), the      *)
(* entries of the table there, where each ends, and the bytes that damage  *)
(* has cut off its end.  Only properties look at that.  Byte Marker stands *)
(* for the directive that opens a script.                                  *)
(***************************************************************************)
EXTENDS EntryTable

CONSTANTS
    Containers,     \* the files to decode: blocks, and the script beside, if any
    Marker,         \* SCRIPT_TAB_MARKER
    Undefined,      \* bytes that cp1252 has no character for
    MaxSamples,     \* _DEFAULT_MAX_SAMPLES
    MaxFields       \* 0xFF in layout.py

ASSUME MarkerAssumption == Marker \in Bytes \ ({0} \cup Garbled) /\ Undefined \subseteq Garbled
ASSUME SamplesAssumption == MaxSamples \in Nat \ {0}

Entries == [flag : Flags, text : Seq(Bytes), number : Seq(Bytes)]
ContainerBlocks == [buf : Seq(Bytes), chunk : BOOLEAN, whole : Seq(Bytes), lost : Seq(Bytes),
                    written : BOOLEAN, entries : Seq(Entries), ends : Seq(Nat)]
\* No chunk is right before the block.
Opens(bs, i) == i = 1 \/ ~bs[i - 1].chunk
Joined(bs, i) == bs[i].whole = IF Opens(bs, i) THEN bs[i].buf ELSE bs[i - 1].whole \o bs[i].buf
AsWritten(b) == b.written => LaidOut(b.whole \o b.lost, b.entries, b.ends)
ASSUME ContainersAssumption ==
    \A file \in Containers :
        /\ file.blocks \in Seq(ContainerBlocks)
        /\ \A i \in DOMAIN file.blocks : Joined(file.blocks, i) /\ AsWritten(file.blocks[i])
        /\ file.prj \subseteq Seq(Bytes)

VARIABLES
    blocks,     \* container.blocks
    prj,        \* the script beside the file, if any
    step,       \* what is being decoded
    at,         \* the block under consideration
    pending,    \* the logical block it belongs to: its first block, and
                \* what those before this one give it
    script, fields, tables, sets, directory

metaVars == <<script, fields, tables, sets, directory>>
blockVars == <<tableVars, blocks, prj, step, at, pending, metaVars>>

Pending(i) == [first |-> i, payload |-> <<>>]
NoDirectory == [known |-> FALSE, of |-> <<>>]

MInit ==
    /\ \E file \in Containers : blocks = file.blocks /\ prj = file.prj
    /\ Call(<<>>, "strings", MaxSamples)
    /\ step = "script" /\ at = 1 /\ pending = Pending(1)
    /\ script = [raw |-> <<>>, encoding |-> "none", replaced |-> 0]
    /\ fields = <<>> /\ tables = <<>> /\ sets = <<>>
    /\ directory = NoDirectory

\* The next decoder is called, on bytes b or on block i.
Start(b, m) ==
    /\ buf' = b /\ mode' = m /\ limit' = MaxSamples
    /\ stage' = "header" /\ pos' = 0 /\ out' = <<>>
StartAt(i, m) == Start(blocks[i].buf, m) /\ at' = i

Goto(here, there) == step = here /\ step' = there

TooFew ==
    /\ Len(blocks) < 3
    /\ Goto("script", "failed")
    /\ UNCHANGED <<tableVars, blocks, prj, at, pending, metaVars>>

----------------------------------------------------------------------------
(* script.py and prj.py *)

\* rstrip(b"\x00")
Stripped_inner(raw) == SelectSeq(raw, LAMBDA b : b # 0)
Stripped(raw) ==
    SubSeq(raw, 1, Max({0} \cup {i \in DOMAIN raw : raw[i] # 0}))

Located(b) == Marker \in ToSet(b)
FromMarker(b) == SubSeq(b, Min({i \in DOMAIN b : b[i] = Marker}), Len(b))
RawScript == IF prj = {} THEN Stripped(FromMarker(blocks[1].buf)) ELSE CHOOSE s \in prj : TRUE

\* _decode_script_bytes: UTF-8, then what chardet guesses if it is installed
\* and confident and right, then cp1252 with replacements
Decodings(raw) ==
    IF Decodable(raw)
    THEN {[raw |-> raw, encoding |-> "utf-8", replaced |-> 0]}
    ELSE {[raw |-> raw, encoding |-> "guessed", replaced |-> 0],
          [raw |-> raw, encoding |-> "cp1252",
           replaced |-> Cardinality({i \in DOMAIN raw : raw[i] \in Undefined})]}

Script ==
    /\ Len(blocks) >= 3
    /\ prj # {} \/ Located(blocks[1].buf)
    /\ Goto("script", "fields")
    /\ script' \in Decodings(RawScript)
    /\ StartAt(2, "strings")
    /\ UNCHANGED <<blocks, prj, pending, fields, tables, sets, directory>>

NoScript ==
    /\ Len(blocks) >= 3
    /\ prj = {} /\ ~Located(blocks[1].buf)
    /\ Goto("script", "failed")
    /\ UNCHANGED <<tableVars, blocks, prj, at, pending, metaVars>>

----------------------------------------------------------------------------
(* dictionary.py and tables.py, by way of _decode_block *)

Names == [i \in DOMAIN out |-> out[i].text]

Fields ==
    /\ stage = "decoded"
    /\ Goto("fields", "tables")
    /\ fields' = Names
    /\ StartAt(3, "strings")
    /\ UNCHANGED <<blocks, prj, pending, script, tables, sets, directory>>

Tables ==
    /\ stage = "decoded"
    /\ Goto("tables", "scan")
    /\ tables' = Names
    /\ at' = 1 /\ pending' = Pending(1)
    /\ UNCHANGED <<tableVars, blocks, prj, script, fields, sets, directory>>

Drifted ==
    /\ step \in {"fields", "tables"} /\ stage = "refused"
    /\ step' = "failed"
    /\ UNCHANGED <<tableVars, blocks, prj, at, pending, metaVars>>

----------------------------------------------------------------------------
(* values.py *)

LooksLikeTable(b) ==
    /\ Len(b) > Header
    /\ \A i \in 1..Width : b[i] = 0
    /\ b[Header + 1] \in Flags

KindOf(flag) ==
    CASE flag = 1 -> "int" [] flag = 2 -> "float" [] flag = 4 -> "text"
      [] flag = 6 -> "dual_float" [] OTHER -> "dual_int"
ValueType(flags) ==
    LET kinds == {KindOf(f) : f \in flags}
    IN CASE Cardinality(kinds) = 1 -> CHOOSE k \in kinds : TRUE
         [] kinds = {"int", "dual_int"} -> "dual_int"
         [] OTHER -> "mixed"
\* _sample_str: the text where there is one, else the number
Sample(e) == IF e.flag \in Texts THEN e.text ELSE e.number

\* iter_logical_blocks: a run of chunks goes with the block behind it, if any.
Closes(i) == ~blocks[i].chunk \/ i = Len(blocks)
NextBlock == at' = at + 1 /\ pending' = Pending(at + 1)

Collect ==
    /\ step = "scan" /\ at <= Len(blocks) /\ ~Closes(at)
    /\ pending' = [pending EXCEPT !.payload = @ \o blocks[at].buf]
    /\ at' = at + 1
    /\ UNCHANGED <<tableVars, blocks, prj, step, metaVars>>

\* The logical block that ends here
Whole_noTail == IF pending.payload = <<>> THEN blocks[at].buf ELSE pending.payload
Whole == pending.payload \o blocks[at].buf

\* One that starts with the script, the field names or the table names is not
\* looked at.
Consider ==
    /\ step = "scan" /\ at <= Len(blocks) /\ Closes(at)
    /\ IF pending.first > 3 /\ LooksLikeTable(Whole)
       THEN Start(Whole, "sample") /\ step' = "values" /\ UNCHANGED <<at, pending>>
       ELSE NextBlock /\ UNCHANGED <<tableVars, step>>
    /\ UNCHANGED <<blocks, prj, metaVars>>

Summarise ==
    /\ stage \in {"decoded", "refused"}
    /\ Goto("values", "scan")
    /\ NextBlock
    /\ sets' = IF stage = "refused" \/ out = <<>> THEN sets
               ELSE Append(sets, [first |-> pending.first, last |-> at, cardinality |-> Count(buf),
                                  type |-> ValueType({e.flag : e \in ToSet(out)}),
                                  samples |-> [i \in DOMAIN out |-> Sample(out[i])]])
    /\ UNCHANGED <<tableVars, blocks, prj, script, fields, tables, directory>>

EndValues ==
    /\ at > Len(blocks)
    /\ Goto("scan", "directory")
    /\ at' = 1
    /\ UNCHANGED <<tableVars, blocks, prj, pending, metaVars>>

----------------------------------------------------------------------------
(* layout.py *)

Directed == tables # <<>> /\ fields # <<>> /\ Len(fields) <= MaxFields

\* A block of pairs (table, first field): the tables in order, the first
\* fields ascending from 0
TableAt(b, t) == b[2 * t - 1]
FieldAt(b, t) == b[2 * t]
IsDirectory(b) ==
    LET n == Len(tables)
    IN /\ Len(b) = 2 * n
       /\ \A t \in 1..n : TableAt(b, t) = t - 1
       /\ FieldAt(b, 1) = 0
       /\ \A t \in 1..n - 1 : FieldAt(b, t) < FieldAt(b, t + 1)
       /\ FieldAt(b, n) < Len(fields)

Bound(b, t) == IF t <= Len(tables) THEN FieldAt(b, t) ELSE Len(fields)
FieldsOf_inclusive(b, t) == SubSeq(fields, Bound(b, t) + 1, Min({Bound(b, t + 1) + 1, Len(fields)}))
FieldsOf(b, t) == SubSeq(fields, Bound(b, t) + 1, Bound(b, t + 1))
\* Of two tables with one name, the dictionary keeps the later.
LastNamed(name) == Max({t \in DOMAIN tables : tables[t] = name})

Pass ==
    /\ step = "directory" /\ Directed /\ at <= Len(blocks)
    /\ ~IsDirectory(blocks[at].buf)
    /\ at' = at + 1
    /\ UNCHANGED <<tableVars, blocks, prj, step, pending, metaVars>>

Directory ==
    /\ Directed /\ at <= Len(blocks)
    /\ IsDirectory(blocks[at].buf)
    /\ Goto("directory", "parsed")
    /\ directory' = [known |-> TRUE,
                     of |-> [name \in ToSet(tables) |-> FieldsOf(blocks[at].buf, LastNamed(name))]]
    /\ UNCHANGED <<tableVars, blocks, prj, at, pending, script, fields, tables, sets>>

Undirected ==
    /\ ~Directed \/ at > Len(blocks)
    /\ Goto("directory", "parsed")
    /\ UNCHANGED <<tableVars, blocks, prj, at, pending, metaVars>>

----------------------------------------------------------------------------
Decoding ==
    /\ step \in {"fields", "tables", "values"}
    /\ TableNext
    /\ UNCHANGED <<blocks, prj, step, at, pending, metaVars>>

MNext ==
    \/ TooFew \/ Script \/ NoScript
    \/ Decoding \/ Fields \/ Tables \/ Drifted
    \/ Collect \/ Consider \/ Summarise \/ EndValues
    \/ Pass \/ Directory \/ Undirected

MSpec == MInit /\ [][MNext]_blockVars

----------------------------------------------------------------------------
Steps == {"script", "fields", "tables", "scan", "values", "directory", "parsed", "failed"}
ValueTypes == {"int", "float", "text", "dual_float", "dual_int", "mixed"}
ValueSets == [first : Nat, last : Nat, cardinality : 0..MaxCount, type : ValueTypes, samples : Seq(Seq(Bytes))]
BlocksTypeOK ==
    /\ mode \in Modes /\ stage \in {"header", "entries", "decoded", "refused"}
    /\ pos \in 0..Len(buf)
    /\ \A e \in ToSet(out) : e.flag \in Flags /\ e.text \in Seq(Bytes) /\ e.number \in Seq(Bytes)
    /\ step \in Steps
    /\ at \in 1..Len(blocks) + 1
    /\ pending \in [first : 1..Len(blocks) + 1, payload : Seq(Bytes)]
    /\ script.raw \in Seq(Bytes) /\ script.replaced \in 0..Len(script.raw)
    /\ \A name \in ToSet(fields) \cup ToSet(tables) : name \in Seq(Bytes)
    /\ sets \in Seq(ValueSets)
    /\ \A s \in ToSet(sets) : Len(s.samples) <= MaxSamples /\ Len(s.samples) <= s.cardinality

\* The script loses nothing but the padding after it, it starts at the first
\* directive of the block, and it is called UTF-8 exactly when it is.
ScriptIsWhole ==
    step \notin {"script", "failed"} =>
        /\ script.encoding = "utf-8" <=> Decodable(script.raw)
        /\ prj = {} =>
            LET b == blocks[1].buf
                size == Len(script.raw)
            IN \E first \in DOMAIN b :
                /\ b[first] = Marker /\ \A i \in 1..first - 1 : b[i] # Marker
                /\ SubSeq(b, first, first + size - 1) = script.raw
                /\ \A i \in first + size..Len(b) : b[i] = 0
                /\ size > 0 /\ script.raw[size] # 0

\* The entries that the decoder at work should find
Meant ==
    LET es == blocks[at].entries
    IN IF mode = "sample" /\ limit < Len(es) THEN SubSeq(es, 1, limit) ELSE es
\* A decoder is at work on a table that reads one way only.  Names are read
\* from one block, so that one must not be the end of a run of chunks.
Working ==
    /\ step \in {"fields", "tables", "values"} /\ blocks[at].written
    /\ step = "values" \/ Opens(blocks, at)
    /\ \A e \in ToSet(Meant) : Unambiguous(e)
ReadBack == [i \in DOMAIN out |-> [flag |-> out[i].flag, text |-> out[i].text, number |-> out[i].number]]

\* Decoders read what was written, whichever of the two encodings a length
\* has and whatever the end of the block has lost: the entries so far are the
\* first ones meant, and a decoder that returns has all that it was asked for.
\* This is of tables whose texts read one way only: what strings.py says of a
\* text of 255 bytes, that its length is one byte, the decoders do not read.
DecodesWhatWasWritten ==
    Working =>
        /\ stage \in {"entries", "decoded"} => IsPrefix(ReadBack, Meant)
        /\ stage = "decoded" => ReadBack = Meant

\* A table is refused only for damage in the part that is read: its end is
\* missing, a text is no UTF-8, there are more entries than the bound, or a
\* list of strings holds something else.
RefusesOnlyDamage ==
    Working /\ stage = "refused" =>
        \/ Len(buf) < EndOf(blocks[at].ends, Len(Meant))
        \/ \E e \in ToSet(Meant) : ~Decodable(e.text)
        \/ Len(blocks[at].entries) > MaxCount
        \/ mode = "strings" /\ \E e \in ToSet(Meant) : e.flag # Tag

Sound(b) == b.written /\ b.lost = <<>> /\ \A e \in ToSet(b.entries) : Decodable(e.text)

\* No field's values are lost: every undamaged, non-empty symbol table that
\* fills a logical block has one value set, in file order, with its exact
\* cardinality and its first values, in however many chunks it is stored and
\* whatever the other logical blocks hold.  (A table right behind a run of
\* chunks is none: the run takes its block.)
LogicalBlocks ==
    {fl \in (DOMAIN blocks) \X (DOMAIN blocks) :
        LET first == fl[1]
            last == fl[2]
        IN /\ first <= last /\ Opens(blocks, first) /\ Closes(last)
           /\ \A i \in first..last - 1 : blocks[i].chunk}
SetsInOrder == \A i, j \in DOMAIN sets : i < j => sets[i].last < sets[j].first
ValueSetsComplete ==
    /\ SetsInOrder
    /\ step \in {"directory", "parsed"} =>
        \A fl \in LogicalBlocks :
            LET es == blocks[fl[2]].entries
                samples == 1..Min({MaxSamples, Len(es)})
            IN /\ fl[1] > 3 /\ Sound(blocks[fl[2]]) /\ es # <<>> /\ Len(es) <= MaxCount
               /\ \A j \in samples : Unambiguous(es[j])
               => \E s \in ToSet(sets) :
                    /\ s.first = fl[1] /\ s.last = fl[2] /\ s.cardinality = Len(es)
                    /\ s.samples = [j \in samples |-> Sample(es[j])]

\* The directory cuts the field list into as many parts as there are tables,
\* none of them empty, and gives each name the part of a table so named: no
\* field goes to two tables, and with distinct names none is left out.
DirectoryPartitions ==
    directory.known =>
        \E cut \in [0..Len(tables) -> 0..Len(fields)] :
            /\ cut[0] = 0 /\ cut[Len(tables)] = Len(fields)
            /\ \A t \in DOMAIN tables : cut[t - 1] < cut[t]
            /\ \A name \in ToSet(tables) : \E t \in DOMAIN tables :
                tables[t] = name /\ directory.of[name] = SubSeq(fields, cut[t - 1] + 1, cut[t])

\* values.py says that "the cardinality and type are exact".  The type is that
\* of the entries sampled.
TypeIsExact ==
    \A s \in ToSet(sets) :
        Sound(blocks[s.last]) => s.type = ValueType({e.flag : e \in ToSet(blocks[s.last].entries)})
====
