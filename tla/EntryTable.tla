---- MODULE EntryTable ----
(***************************************************************************)
(* parser/blocks: the two decoders of counted tables.  A table is a header *)
(* (zero padding and an unsigned count of Width bytes) and its entries.    *)
(*                                                                         *)
(*   strings.py   each entry is a tag byte and a text;                     *)
(*   symbols.py   each entry is a flag byte and what the flag announces.   *)
(*                                                                         *)
(* A text is preceded by its length: one byte, or the byte Escape and then *)
(* Width bytes.  Each action is one turn of a decoder's loop.              *)
(***************************************************************************)
EXTENDS Integers, SequencesExt

CONSTANTS
    Escape,     \* 0xFF: the largest byte
    Width,      \* 4, the bytes of a 32-bit number; a double has twice as many
    Garbled,    \* the bytes that make a text no UTF-8
    MaxCount,   \* MAX_REASONABLE_STRING_COUNT
    Tag         \* STRING_TAG

Bytes == 0..Escape
Flags == 1..6
Modes == {"strings", "symbols", "sample"}

ASSUME WidthAssumption == Width \in 1..4 /\ Escape \in Nat
ASSUME FlagsAssumption == Tag = 4 /\ Flags \subseteq Bytes /\ Garbled \subseteq Bytes
ASSUME CountAssumption == MaxCount \in Nat

VARIABLES
    buf,        \* the block
    mode,       \* which decoder, and whether it stops early
    limit,      \* decode_symbol_block's limit; used in mode "sample" only
    stage,      \* "header", "entries", "decoded", "refused"
    pos,        \* offset of the next byte
    out         \* entries decoded so far

tableVars == <<buf, mode, limit, stage, pos, out>>

----------------------------------------------------------------------------
\* The little-endian number of Width bytes at offset p
Number(b, p) ==
    LET Byte(i) == IF i <= Width THEN b[p + i] ELSE 0
        Base == Escape + 1
    IN Byte(1) + Base * (Byte(2) + Base * (Byte(3) + Base * Byte(4)))

Header == 2 * Width
Count(b) == Number(b, Width)
\* A Python slice: it ends where the block does
Slice(b, from, to) == SubSeq(b, from + 1, IF to < Len(b) THEN to ELSE Len(b))
Decodable(text) == ToSet(text) \cap Garbled = {}

Escaped_never(b, p) == FALSE
Escaped(b, p) == b[p + 1] = Escape

Fits_byOne(b, end) == end <= Len(b) + 1
Fits(b, end) == end <= Len(b)

\* _read_length_prefixed_text: where the text at offset p starts and ends.
\* The set is empty when there is no such text.
Spans(b, p) ==
    LET from == IF Escaped(b, p) THEN p + 1 + Width ELSE p + 1
        to == from + (IF Escaped(b, p) THEN Number(b, p + 1) ELSE b[p + 1])
    IN IF p < Len(b) /\ Fits(b, from) /\ Fits(b, to) /\ Decodable(Slice(b, from, to))
       THEN {[from |-> from, to |-> to]} ELSE {}

\* _decode_entry: bytes of the number before the text and of the one after it
Texts == {3, 4, 5, 6}
Lead(flag) == CASE flag \in {1, 3} -> Width [] flag = 2 -> 2 * Width [] OTHER -> 0
Trail_int(flag) == IF flag \in {5, 6} THEN Width ELSE 0
Trail(flag) == CASE flag = 5 -> Width [] flag = 6 -> 2 * Width [] OTHER -> 0

\* The symbols that may start at offset p: one or none
SymbolsAt(b, p) ==
    LET flag == b[p + 1]
        text == p + 1 + Lead(flag)
        spans == IF flag \in Texts THEN Spans(b, text) ELSE {[from |-> text, to |-> text]}
    IN IF p < Len(b) /\ flag \in Flags /\ Fits(b, text)
       THEN {[flag |-> flag, text |-> Slice(b, s.from, s.to), at |-> p, next |-> s.to + Trail(flag),
              number |-> Slice(b, p + 1, text) \o Slice(b, s.to, s.to + Trail(flag))] :
                s \in {s \in spans : Fits(b, s.to + Trail(flag))}}
       ELSE {}

\* A string-list entry has the layout of a symbol whose flag is the tag.
StringsAt(b, p) == IF p < Len(b) /\ b[p + 1] = Tag THEN SymbolsAt(b, p) ELSE {}

EntriesAt(p) == IF mode = "strings" THEN StringsAt(buf, p) ELSE SymbolsAt(buf, p)

----------------------------------------------------------------------------
\* A decoder is called
Call(b, m, l) ==
    /\ buf = b /\ mode = m /\ limit = l
    /\ stage = "header" /\ pos = 0 /\ out = <<>>

\* How many entries the decoder is to read
Wanted == IF mode = "sample" /\ limit < Count(buf) THEN limit ELSE Count(buf)

HeaderOK == Len(buf) >= Header /\ Count(buf) <= MaxCount

ReadHeader ==
    /\ stage = "header"
    /\ stage' = IF HeaderOK THEN "entries" ELSE "refused"
    /\ pos' = IF HeaderOK THEN Header ELSE pos
    /\ UNCHANGED <<buf, mode, limit, out>>

Entry ==
    /\ stage = "entries" /\ Len(out) < Wanted
    /\ \E e \in EntriesAt(pos) : out' = Append(out, e) /\ pos' = e.next
    /\ UNCHANGED <<buf, mode, limit, stage>>

Refuse ==
    /\ stage = "entries" /\ Len(out) < Wanted
    /\ EntriesAt(pos) = {}
    /\ stage' = "refused"
    /\ UNCHANGED <<buf, mode, limit, pos, out>>

Return ==
    /\ stage = "entries" /\ Len(out) = Wanted
    /\ stage' = "decoded"
    /\ UNCHANGED <<buf, mode, limit, pos, out>>

TableNext == ReadHeader \/ Entry \/ Refuse \/ Return

TableInit ==
    \E b \in Seq(Bytes), m \in Modes, l \in Nat : Call(b, m, l)
TableSpec == TableInit /\ [][TableNext]_tableVars

----------------------------------------------------------------------------
(* The writer's side, for reference: the layouts as the heads of symbols.py *)
(* and strings.py list them, not as the decoders take them.  The length of *)
(* a text is one byte, which "tops out at" Escape (strings.py), and texts  *)
(* longer than that have the escape (symbols.py).  A text of Escape bytes  *)
(* then starts with a byte that the decoders take for the escape.          *)

\* n without its i lowest bytes
Rest(n, i) ==
    LET Base == Escape + 1
    IN CASE i = 0 -> n [] i = 1 -> n \div Base [] i = 2 -> (n \div Base) \div Base
         [] i = 3 -> ((n \div Base) \div Base) \div Base
         [] OTHER -> (((n \div Base) \div Base) \div Base) \div Base
Encodable(n) == Rest(n, Width) = 0
Encoded(n) == [i \in 1..Width |-> Rest(n, i - 1) % (Escape + 1)]
EncodedText(t) == IF Len(t) <= Escape THEN <<Len(t)>> \o t ELSE <<Escape>> \o Encoded(Len(t)) \o t

\* A symbol as it was meant: its flag, text and number
NumberLength(flag) ==
    CASE flag \in {1, 3, 5} -> Width [] flag \in {2, 6} -> 2 * Width [] flag = 4 -> 0
WellMeant(e) ==
    /\ Len(e.number) = NumberLength(e.flag) /\ Encodable(Len(e.text))
    /\ e.flag \in {1, 2} => e.text = <<>>
EncodedSymbol(e) ==
    LET text == IF e.flag \in {3, 4, 5, 6} THEN EncodedText(e.text) ELSE <<>>
    IN <<e.flag>> \o (IF e.flag \in {5, 6} THEN text \o e.number ELSE e.number \o text)

\* The length of its text does not read like the escape.
Unambiguous(e) == e.flag \in Texts => Len(e.text) # Escape

\* Block b holds the table of entries es, the i-th of which ends at ends[i].
EndOf(ends, i) == IF i = 0 THEN Header ELSE ends[i]
LaidOut(b, es, ends) ==
    /\ Encodable(Len(es)) /\ \A i \in DOMAIN es : WellMeant(es[i])
    /\ DOMAIN ends = DOMAIN es
    /\ \A i, j \in 0..Len(es) : i < j => EndOf(ends, i) < EndOf(ends, j)
    /\ Len(b) = EndOf(ends, Len(es))
    /\ SubSeq(b, 1, Header) = Encoded(0) \o Encoded(Len(es))
    /\ \A i \in DOMAIN es : SubSeq(b, EndOf(ends, i - 1) + 1, ends[i]) = EncodedSymbol(es[i])

----------------------------------------------------------------------------
\* The entries tile the block from the header to the cursor, and nothing past
\* the end of the block is ever read: what a table says of itself, its count
\* and its lengths, never leads the decoder outside it.
EntriesTile ==
    /\ stage \in {"entries", "decoded"} => pos <= Len(buf)
    /\ \A i \in DOMAIN out :
        /\ out[i].at = IF i = 1 THEN Header ELSE out[i - 1].next
        /\ out[i].at < out[i].next /\ out[i].next <= Len(buf)
    /\ stage \in {"entries", "decoded"} => pos = IF out = <<>> THEN Header ELSE Last(out).next
====
