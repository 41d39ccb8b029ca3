---- MODULE MCMetadataBlocks ----
(***************************************************************************)
(* Containers whose blocks are sound but for one, which is varied over     *)
(* everything that block may be, and scripts to search for data sources.   *)
(* In each behaviour one of the two has work to do (see MCContainer).      *)
(***************************************************************************)
EXTENDS MetadataBlocks, DataSources

CONSTANT Text

Repeat(b, n) == [i \in 1..n |-> b]
Item(flag, text) ==
    [flag |-> flag, text |-> text, number |-> Repeat(flag, NumberLength(flag))]
Name(t) == Item(Tag, t)

\* Lengths around each change of encoding
TextLengths == {0, 1, Escape - 1, Escape, Escape + 1}
SomeTexts == {Repeat(Text, n) : n \in TextLengths} \cup {<<g>> : g \in Garbled}
Symbols == {Item(f, <<>>) : f \in Flags \ Texts} \cup {Item(f, t) : f \in Texts, t \in SomeTexts}
ShortSymbols == {Item(f, <<>>) : f \in Flags \ Texts} \cup {Item(f, <<Text>>) : f \in Texts}
Strings == {Name(t) : t \in SomeTexts} \cup {Item(3, <<Text>>)}

Upto(S, n) == UNION {[1..k -> S] : k \in 0..n}
SymbolTables ==
    Upto(Symbols, 1) \cup {<<e, f>> : e \in Symbols, f \in ShortSymbols} \cup [1..3 -> ShortSymbols]
    \cup {[i \in 1..n |-> Item(1, <<>>)] : n \in MaxCount..MaxCount + 1}
StringTables == Upto(Strings, 2) \cup {[i \in 1..n |-> Name(<<1>>)] : n \in MaxFields..MaxCount + 1}

EncodedTable(es) ==
    FoldLeft(LAMBDA b, e : b \o EncodedSymbol(e), Encoded(0) \o Encoded(Len(es)), es)
Cut(es, n) ==
    LET whole == EncodedTable(es)
        left == SubSeq(whole, 1, n)
    IN [buf |-> left, chunk |-> FALSE, whole |-> left, lost |-> SubSeq(whole, n + 1, Len(whole)), written |-> TRUE,
        entries |-> es, ends |-> [i \in DOMAIN es |-> Len(EncodedTable(SubSeq(es, 1, i)))]]
Written(es) == Cut(es, Len(EncodedTable(es)))
Noise(b) == [buf |-> b, chunk |-> FALSE, whole |-> b, lost |-> <<>>, written |-> FALSE, entries |-> <<>>, ends |-> <<>>]
Damaged(es) == {Cut(es, n) : n \in 0..Len(EncodedTable(es))}
\* A header, and then anything at all
NoiseTables == {Noise(Encoded(0) \o Encoded(n) \o s) : n \in 0..2, s \in Upto({0, 1, Tag, 5, Escape}, 3)}

GoodScript == Noise(<<1, Marker, 2, 0>>)
GoodFields == Written([i \in 1..3 |-> Name(<<i>>)])
GoodTables == Written(<<Name(<<1>>), Name(<<2>>)>>)
TwinTables == Written(<<Name(<<1>>), Name(<<1>>)>>)
GoodValues == Written(<<Item(1, <<>>), Item(5, <<Text>>)>>)
GoodDirectory == Noise(<<0, 0, 1, 1>>)

File(s, f, t, v, d) == [blocks |-> <<s, f, t, v, GoodValues, d>>, prj |-> {}]
\* A script beside the file is read whatever block 0 holds.
Beside(raw) == [File(Noise(<<2>>), GoodFields, GoodTables, GoodValues, GoodDirectory) EXCEPT !.prj = {raw}]

\* Blocks of which any may be a chunk.  What is written is so only where the
\* blocks before it are joined to it as was meant.
Grouped(bs, chunks) ==
    FoldLeft(LAMBDA g, b :
        LET i == Len(g) + 1
            whole == IF i > 1 /\ chunks[i - 1] THEN Last(g).whole \o b.buf ELSE b.buf
        IN Append(g, [b EXCEPT !.chunk = chunks[i], !.whole = whole, !.written = @ /\ whole = b.whole]),
        <<>>, bs)
\* A table in three pieces
Pieces(b, n, m) ==
    <<Noise(SubSeq(b.whole, 1, n)), Noise(SubSeq(b.whole, n + 1, m)),
      [b EXCEPT !.buf = SubSeq(b.whole, m + 1, Len(b.whole))]>>
MCChunked ==
    {[blocks |-> Grouped(<<GoodScript, GoodFields, GoodTables>> \o Pieces(GoodValues, p[1], p[2]) \o behind,
                         [i \in 1..7 |-> i > 2 /\ c[i]]), prj |-> {}] :
        p \in {p \in (0..Len(GoodValues.buf)) \X (0..Len(GoodValues.buf)) : p[1] <= p[2]},
        behind \in {<<>>, <<GoodValues>>}, c \in [3..7 -> BOOLEAN]}

\* Everything with a cut anywhere would be too much: long tables are cut in
\* their last entry only.
MCContainers ==
    {[blocks |-> SubSeq(<<GoodScript, GoodFields>>, 1, n), prj |-> {}] : n \in 0..2}
    \cup {File(Noise(b), GoodFields, GoodTables, GoodValues, GoodDirectory) :
        b \in Upto({0, 2, Marker} \cup Garbled, 4)}
    \cup {Beside(raw) : raw \in Upto({0, 2, Marker} \cup Garbled, 2)}
    \cup {File(GoodScript, f, GoodTables, GoodValues, GoodDirectory) :
        f \in UNION {Damaged(es) : es \in StringTables} \cup NoiseTables}
    \cup {File(GoodScript, GoodFields, t, GoodValues, GoodDirectory) :
        t \in {Written(es) : es \in Upto({Name(<<i>>) : i \in 0..2}, MaxCount)} \cup {Cut(<<Name(<<1>>)>>, 3)}}
    \cup {File(GoodScript, GoodFields, GoodTables, v, GoodDirectory) :
        v \in {Written(es) : es \in SymbolTables} \cup UNION {Damaged(es) : es \in Upto(Symbols, 1)} \cup NoiseTables}
    \cup {File(GoodScript, GoodFields, t, GoodValues, Noise(d)) :
        t \in {GoodTables, TwinTables}, d \in [1..4 -> 0..3] \cup [1..2 -> 0..1]}
    \cup MCChunked

\* One block of many symbols, the interesting one last
MCMixed == {File(GoodScript, GoodFields, GoodTables, Written(es), GoodDirectory) : es \in [1..3 -> ShortSymbols]}

Stmt(k, n, l) == [kind |-> k, name |-> n, line |-> l]
Overlapping == {Stmt(k, n, l) : k \in {"odbc", "file"}, n \in Origins, l \in 1..2}
EveryKind == Overlapping \cup {Stmt(k, "a", l) : k \in {"lib", "oledb", "other"}, l \in 1..2}
InOrder(ss) == {s \in ss : \A i, j \in DOMAIN s : i < j => s[i].line <= s[j].line}
MCScripts ==
    {[stmts |-> s, ended |-> e] :
        s \in InOrder(Upto(EveryKind, 3) \cup [1..4 -> Overlapping]), e \in SUBSET (1..2)}

FileDecoded ==
    /\ blocks = <<GoodScript>> /\ prj = {} /\ Call(<<>>, "strings", MaxSamples)
    /\ step = "failed" /\ at = 1 /\ pending = Pending(1)
    /\ script = [raw |-> <<>>, encoding |-> "none", replaced |-> 0]
    /\ fields = <<>> /\ tables = <<>> /\ sets = <<>> /\ directory = NoDirectory
ScriptSearched ==
    /\ load = [stmts |-> <<>>, ended |-> {}]
    /\ pass = Len(Passes) /\ from = 1 /\ sources = <<>>

MCInit == (MInit /\ ScriptSearched) \/ (FileDecoded /\ SInit)
MCNext ==
    \/ MNext /\ UNCHANGED sourceVars
    \/ step = "failed" /\ SNext /\ UNCHANGED blockVars
MCSpec == MCInit /\ [][MCNext]_<<blockVars, sourceVars>>
====
