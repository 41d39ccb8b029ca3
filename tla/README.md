# Verification of mcp-qlikview

TLA+ models of the MCP server that reads QlikView documents (`.qvw`), checked
with TLC, with proofs that the TLA+ proof system checks. Source paths below
are relative to `src/src/mcp_qlikview/`.

## 1. The system

A client talks over stdio to one asyncio event loop (`server.py`). Each tool
call is a task of that loop. A handler runs alone from one `await` to the next;
it awaits only when it hands work to an executor thread: the parse of a file,
and the match of a search pattern against the lines of a script. Parsed files
are kept in one in-memory LRU cache (`store.py`), shared by the executor
threads and the loop under one lock. Nothing is persisted. The files belong to
other programs, which may replace, delete or create them at any moment.

| Component | State | Operations | What makes it hard | What makes it correct |
|---|---|---|---|---|
| Metadata store, `store.py` | `_cache`, `_lock` | `ensure_parsed`, `_admit`, `invalidate` | the lock is given up during the parse; reload runs meanwhile; files change between stat, read and the read of the `-prj` script | critical sections exclude each other; at most `max_entries` entries; LRU order; reload reports what it drops and what it dropped does not come back |
| Tool server, `server.py` | tasks, the executor's queue and threads, degraded or not | nine tools, dispatch, error mapping | interleaving at awaits; one bad file among many; starvation; matches that hold the interpreter lock | every request answered; every target reported once; no file costs another; a reload is felt by the calls after it; the loop stays responsive |
| Resolution, `server.py` | none | `_resolve_qvw`, the lookup of `list_tables` | files and links that change between test and use; one argument, several readings | the first candidate there is; `_resolve_qvw` hands on nothing outside `QVW_DIR` (the lookup of `list_tables` does, see §3); all tools agree |
| File index, `index.py` | none | `build_file_index`, `sanitize_schema_name` | files that vanish between glob and stat; name collisions | names are of safe characters and off the code's reserved list, and distinct unless one imitates a suffix |
| Boot, `config.py`, `server.py` | `config`, `config_error` | `boot` | failures that must not end the process; one size limit in two places | a configuration or its error; a degraded server answers every call with its error |
| Container, `parser/container.py` | none kept | `parse_bytes`, `iter_logical_blocks` | false zlib prefixes, caps, windows, gaps, runs | no stream missed, split tables rejoined and nothing else joined, groups complete, memory bounded |
| `-prj` fast path, `parser/prj.py` | none | `try_prj` | vanishes between test and read | never mixes with another file's script |
| Script decoding, `parser/blocks/script.py` | none | `extract_script` | padding, encoding fallback | the whole script, called UTF-8 exactly when it is |
| String lists, `parser/blocks/strings.py` | none | `decode_tagged_string_list` | length escape, truncation | reads what was written or fails |
| Symbol tables, `parser/blocks/symbols.py`, `values.py` | none | `decode_symbol_block`, `extract_value_sets` | six layouts, sampling, tables in several blocks, blocks that only look like tables | no sound table that fills a logical block lost or cut; damage refused; no read past the block |
| Table directory, `parser/blocks/layout.py` | none | `extract_table_field_map` | found by signature | fields partition the tables |
| Data sources, `parser/sources.py` | none | `extract_sources` | overlapping matches | one entry per source |
| Models, tool definitions, transport | none | | | declarative or pure I/O |

Interactions: handlers call `build_file_index` and `_resolve_qvw` on the loop;
`_ensure_parsed_async` puts `ensure_parsed` on the executor's queue;
`ensure_parsed` calls the container parser, `try_prj` and the block decoders on
its thread; `reload` calls `invalidate` on the loop, so the loop itself waits
for the store's lock.

## 2. Modules

| Module | Models | Remarks |
|---|---|---|
| `OrderedDict` | `collections.OrderedDict` as the store uses it | a sequence of entries, oldest first |
| `MetadataStore` | `store.py`, `parser/prj.py` | one action per step between which another caller may run |
| `LruContract` | what the store promises | lookups, admissions and invalidations at one instant |
| `StoreRefinement` | | `MetadataStore` implements `LruContract` |
| `StoreHistory` | | history variables for what a reload promises |
| `ToolServer` | `server.py`, the indexing in `index.py` | extends `LruContract`: its store is the contract, not the lock |
| `ServerHistory` | | history variables for what a reload and a sound file promise a client |
| `ContainerScan` | `parse_bytes`, `_scan_blocks`, `iter_logical_blocks` | one action per turn of a loop |
| `InflateWindow` | `_try_decompress` | one action per window |
| `EntryTable` | `strings.py`, `symbols.py` | the two decoders of counted tables, byte by byte; one action per turn of a loop |
| `MetadataBlocks` | `script.py`, `prj.py`, `dictionary.py`, `tables.py`, `values.py`, `layout.py`, `store.py:164-194` | what `ensure_parsed` makes of the blocks; extends `EntryTable` |
| `DataSources` | `sources.py` | one action per match |
| `FileIndex` | `index.py` | one action per file |
| `QvwResolution` | `_resolve_qvw`, `_check_size`, the lookup of `list_tables` | one action per call to the file system |
| `Boot` | `_ServerState.boot`, `config.py` | |
| `OrderedDict_proofs`, `MetadataStore_proofs` | | theorems of the store, its history and its refinement |
| `ToolServer_proofs`, `Container_proofs`, `DataSources_proofs` | | theorems of these (`ToolServer_proofs`: of `ServerHistory` too, `Container_proofs`: of `InflateWindow`) |
| `MetadataBlocks_proofs`, `Decoding_proofs` | | theorems of `EntryTable` and `MetadataBlocks`: what is safe whatever the bytes; what is read of what was written |
| `Naming_proofs` | | theorems of `FileIndex`, `QvwResolution` and `Boot` |
| `MCMetadataStore`, `MCToolServer` | | symmetry sets; in `MCToolServer` also what may come together (see Bounds) |
| `MCContainer`, `MCMetadataBlocks`, `MCNaming` | | instances; each is a sum: in any behaviour one part has work to do and the others have ended |

Operators named `X_y` stand just before `X` and are `X` with a plausible bug.
They are used by no action: replacing `X` by one shows that a property notices.

### MetadataStore

`cache`, `lock` are `_cache` and `_lock`. `pc[t]` says where thread `t` stands
in `ensure_parsed`; `key`, `raw`, `meta` are its locals, `ret` its latest
answer. `lpc`, `lkey`, `gone`, `reply` are the same for `invalidate`, which
only the event loop runs. `disk` is the world outside.

| Code | Actions |
|---|---|
| `store.py:141-146` lookup under the lock | `Call`, `AcquireLookup`, `GetHit`, `GetMiss`, `Touch` |
| `store.py:148-154` size check | `Stat` |
| `store.py:156-162` read, container parse, block count | `Read` |
| `store.py:169`, `prj.py:53-63` | `IsPrj`, `ReadPrj` |
| `store.py:174-194` decoders | `Decode` |
| `store.py:195-197`, `_admit` | `AcquireAdmit`, `Store`, `Move`, `Evict`, `Admitted` |
| `invalidate` | `Invalidate`, `LAcquire`, `LKeys`, `LClear`, `LAbsent`, `LFound`, `LDel` |
| other programs | `WriteQvw`, `WritePrj` |

A file's content is the stamp of the write that produced it and the outcome
parsing it has (fine, over the limit, malformed container, fewer than three
blocks, drifted blocks, no file). A cached entry is the stamps of the body and
of the `-prj` script it came from. Operations on the dict are atomic one by one
(the interpreter lock); the lock's absence would be noticed, because a step
that finds its key gone ends in `KeyError` as in Python.

### ToolServer

`ready` is the loop's queue of runnable tasks, `running` the task on the loop,
`req[r]` the locals of a handler (`files`, `scanned`, `skipped`, the stage it is
in), `jobs` the executor's queue, `work` and `loaded` the threads' state, `gil`
the thread or task inside a regular-expression match. Every action of the loop
is one file-system call, one store call or one stretch of code between them.
The search tool appears as four tools, by what its pattern and scope make it do.
Files are `ok`, `big`, `malformed`, `drifted`, `unsteady` (its `-prj` script is
gone or locked when it is read, `prj.py:61`), `absent` or `dangling` (a link
that glob lists and stat refuses).

`ServerHistory` adds three variables that no action reads: `floor[k]` is what
was on disk when file `k` was last reloaded, `since[r]` the floors when request
`r` came, `began[r]` the clock then. A reload that did not find the file has no
effect on `floor`, because it drops nothing (`server.py:470`), and neither has
one that an older parse outlives: the first is the code's intention, the second
the disagreement `store_reload_race` shows.

### ContainerScan and InflateWindow

A body is a partial function from the offsets of zlib prefixes to what a trial
decompression there gives. Bytes do not appear: what the scan can tell apart is
where a prefix is, how long its stream is (0: none) and how much it inflates
to. `InflateWindow` opens that trial: `grows[i]` is the output that input byte
`i` releases.

In `InflateWindow` the drain loop of `container.py:318` is modelled and never
taken: a call leaves input unconsumed only when it has filled the room it was
given, which is one byte over the cap, and the cap is then exceeded.

### EntryTable, MetadataBlocks and DataSources

`buf`, `pos`, `out` are the locals of a decoder, `mode` says which one it is.
A string-list entry has the layout of a symbol of flag 4, and the length
escape is one rule in both decoders, so both are one module. Numbers have
`Width` bytes to the base `Escape + 1`, which is 4 bytes of 256 values in the
code. A text is its bytes; it is UTF-8 unless it holds a `Garbled` byte. The
value of a number is its bytes: nothing in the code depends on it, except
counts and lengths.

`MetadataBlocks` calls the decoders as `ensure_parsed` does, in order: `step`
is how far it has come, `at` the block it looks at. A container of fewer than
three blocks is refused (`TooFew`). A block is what is left of it (`buf`), the
bytes damage has cut off its end (`lost`), and what its writer meant: the
`entries` and where each `ends`. A table may be stored in several blocks, so
this is said of the block and the data chunks before it together (`whole`);
`Joined` defines that as `iter_logical_blocks` does. In the search for tables
`pending` is the logical block that `at` is part of. The properties compare
what is decoded with what was meant. `LaidOut` says that bytes hold such a table, as a relation between the
whole block and its entries; `ContainersAssumption` asks it of every block that
is called `written`, and nothing of the others. The program's source has no
writer: the layout is taken from the tables at the head of `strings.py` and
`symbols.py`: the length of a text is one byte, which "tops out at 255", and
only a longer text has the escape. The decoders disagree on one length: they
take the byte 255 for the escape. `Unambiguous` names the texts that are read
one way only, and what is said of decoding is said of tables of such texts.
`EncodedTable`, a fold, is used to build instances only.

`DataSources` runs the four searches one after the other (`pass`), each from
match to match as `finditer` does (`from` is where it goes on, `Ahead` what it
may still find), into `sources`, which is `seen`. A script (`load`) is a
sequence of statements, each with its line, and the lines that end in a
semicolon. What matters of the patterns is kept: ODBC and OLEDB strings reach
to the semicolon that ends the line and take with them what else is on it, and
a line without one has none.

### FileIndex, QvwResolution and Boot

`FileIndex`: `used` and `index` are `used_schema_names` and `out`. Names are
sequences of characters; what `sorted` makes of a directory and how a number is
printed are constants, so that the theorems hold for any order and any digits.

`QvwResolution`: `links` is the disk. `stage`, `todo`, `real` are where a call
stands, the candidates left, and what the first of them led to. A call asks the
file system up to four times about one path (`Try`, `Resolve`, `Size`,
`Synthetic`), and any file or link may change in between (`Change`). `missed`
and `led` remember what was true at some moment of the call: on a changing
directory this is all that an answer can be held to.

`Boot`: `env` is the process environment by kinds; `Raised` is what validating
`QVW_DIR` may end in. pydantic makes a `ValidationError` of a `ValueError`, and
lets `OSError` and `RuntimeError` through.

## 3. What is checked

| Run | Instance | Shows |
|---|---|---|
| `store` | 2 threads and the loop, 3 paths, 2 entries, 1 write, files that come and go | type, no `KeyError`, bound, inductive invariant, reload exact, admitted entry stays; the store implements the LRU contract, order included; after a quiet reload nothing older is answered |
| `store_live` | 2 threads, 2 paths, 1 entry, 1 write, six outcomes | every call ends |
| `server` | 2 requests, 2 threads, 2 files, 1 write, degraded or not; searches and reloads that meet, and one tool of each handler on a good file beside one of any shape | one job per waiting task; a reload is felt by the calls after it; every target reported once; one bad file spares the rest; degraded answers only |
| `server_live` | 2 requests, 1 thread, 1 file, 1 write; search, the two listings and reload; parses may not end | if they do, every request is answered; requests that need none are answered anyway |
| `container` | bodies of 8 bytes, limits scaled down; trials of up to 5 bytes, windows of 2, cap 4 | greedy scan, split tables rejoined, grouping, causes of refusal, termination; a trial's answer is independent of windows and its memory bounded |
| `decode` | containers of 6 blocks, one of them varied over sound, cut and noisy ones, of 0 to 2 blocks, and with a table cut in three pieces among data chunks; scripts of up to 4 statements on 2 lines | decoders read what was written, or refuse damage; value sets complete; fields partitioned; script whole; each source once |
| `naming` | directories of up to 5 of 9 colliding names; 4 paths, 3 arguments, 1 change of the disk; every kind of environment | names safe, collisions resolved; answers justified, and inside but for `list_tables`; tools agree; boot decides |

Five runs show that the code does not do what a document or comment says:

- `store_reload_race`: a parse under way when `reload` runs caches what it had
  read before, and the next call does not re-parse (`server.py:715`).
- `server_slow_match`: one endless match keeps every request waiting
  (`server.py:534`): names are matched on the loop itself, and script lines on
  a thread that holds the interpreter lock.
- `value_type`: the type of a value set is that of the first five entries
  (`values.py:12`: "The cardinality and type are exact").
- `confinement`: the index follows a link of `QVW_DIR` to a file elsewhere, and
  `list_tables` answers from that file when it is given the link's basename,
  with `allow_outside_dir` off (`SECURITY.md:9`: "reads only files inside
  `QVW_DIR`"; `README.md:77` calls this "deny-by-default").
- `schema_names`: the suffixed name of one file may be the name of another
  (`index.py:74`: "Schema names are deduplicated").

More follows from the models without a run of its own:

- `list_tables` without an argument and `search` take their files from the same
  index, so they follow such links too.
- A text of exactly 255 bytes, written as `strings.py:15` says ("The length byte
  tops out at 255") and as the test's encoder writes it
  (`tests/test_blocks_strings.py:33`), is misread: the decoder takes the byte for
  the escape (`strings.py:81`). What the decoding run and its theorems promise
  leaves such texts out (`Unambiguous`).
- A sound table right behind a run of data chunks is taken for the run's tail
  and has no value set (`container.py:379`, "the remainder that completes the
  preceding data_chunk run's symbol table"), also where the run ended with a full
  chunk. `ValueSetsComplete` is of tables that fill a logical block.
- `store.py:9` calls the store "intentionally non-thread-safe"; it has a lock,
  and `LockDiscipline` is what the lock gives.
- `index.py:3` promises "SQL-safe schema names", but only of a list that it calls
  a "conservative subset" of the reserved words: `all.qvw` becomes `all`.
- A file that grows between `Stat` and `Read` is read whole (`README.md:81`:
  "refused before any read").
- `reload` of a path that is not a file just then leaves its entry cached
  (`StartDrop`): the comment at `server.py:467` intends the no-op, the tool's
  description (`server.py:715`) does not mention it.
- One file deleted while the directory is indexed fails the whole listing
  (`FileIndex.Vanished`), although `index.py:6` says that indexing runs
  "predictably even when QVW files are corrupt or in flux".
- "Sorted by basename" (`index.py:75`) is sorted by path, where `.` comes after
  `-`: `Sales-2024.qvw` precedes `Sales.qvw`.
- A file of `QVW_DIR` can reach `_synthetic_file_index`, whose comment says
  "only possible when `MCP_QVW_ALLOW_OUTSIDE_DIR=true`": `Sales.qvw`, spelt
  with its extension, is no basename of the index. It then has the schema name
  without the suffix.
- `ToolsAgree` needs its exception: with files `s` and `s.qvw`, `list_tables`
  takes the argument `s` for the second and every other tool for the first.
- Two tables of one name have one entry in the directory, the later one's
  (`LastNamed`).
- Sources come kind by kind, not in line order as `sources.py:122` says.
- A home directory that cannot be determined, a loop of links (before Python
  3.13) or a log level such as `BASIC_FORMAT` ends `boot` with an exception
  instead of degraded mode.

### Bounds

Two threads and the loop are every pair of contenders for the lock, and three
contenders at once. Two entries with three paths, or one with two, force an
eviction at every admission, and tell the oldest entry from the newest. One
write makes every check stale once and tells a content older than a reload from
the one after it; two are needed to show how a reload is undone. `MaxStamp`
bounds the writes.

In `server`, two files give a listing a bad one and a good one. All tools on all
shapes at any interleaving would be too much, so `MCToolServer` looks at two
parts of the behaviours, and leaves one where it would go on outside it. In
`Meeting`, up to two requests, searches of the whole directory and reloads of
all or of one file, and both threads interleave freely, on files that parse or
are away. In `InTurn`, any tool of the run is called, one of
each kind of handler, with at most one file of another
shape, which may be any, but one request and one thread are busy at a time. So
what only several requests can do wrong is looked for among sound files, and
what a bad file can do wrong in a call that nothing but a writer disturbs. The
theorems have no such restriction.

In `container`, eight bytes hold a chunk run of two with its tail, four adjacent
streams (one over `MaxBlocks`), and false prefixes before, between and within
streams. The scaled limits keep their order: chunk size < block cap, chunk gap
< metadata gap. For the trial, five bytes give two full windows and a partial
one, and `Outputs` are amounts on both sides of the cap, also for one byte
alone.

In `decode`, a byte has eight values and a number two bytes: texts of 0, 1, 6,
7 and 8 bytes stand on both sides of the escape (7 here, 255 in the code), a
table holds up to `MaxCount + 1` entries, one over the bound and over
`MaxSamples`, and short ones are cut at every byte. One table is stored in three
pieces, cut at any two places, with any of the blocks from the table names on a
data chunk, with and without another table behind it. Otherwise only one block
of a container is varied, because no decoder looks at two blocks except through the
lists of names, whose effect on the directory `DirectoryPartitions` varies
separately (fields up to one over `MaxFields`). Four statements on two lines
hold two connection strings that overlap, with a mention inside or after them
and again on the other line; which line ends in a semicolon varies.

In `naming`, the nine names hold three that collide, two pairs, two that imitate
a suffix and a reserved word; five at a time hold every such group together.
`MaxChanges` is one change of the disk during a call: with it a candidate may
disappear, appear or lead elsewhere at each step. The theorems have neither
bound.

### Fairness

`FairSpec` (store): threads and the loop that can take a step take it. Only one
holder exists at a time and it always has a step, so weak fairness suffices;
clients and other programs owe nothing.

`SlowParseSpec`, `SlowMatchSpec` (server): strong fairness for the loop and for
each executor thread, in the steps named there. Weak fairness would not do,
since a regular-expression match disables everyone else while it lasts;
CPython's interpreter lock makes a thread that gives it up wait until another
has had it, so whoever can run again and again does run. The loop's and the
executor's queues are first in, first out, as in the libraries. The end of a
match needs only weak fairness and is left out of `SlowMatchSpec`; the end of a
parse is left out of `SlowParseSpec`, and `EveryRequestAnswered` has it as its
premise.

`FairContainerSpec`, and likewise `MCSpec` of `MCContainer`: the parse is
sequential code that keeps running.

The other runs need none: their properties are about every state or step.

## 4. What is proved

Every invariant and every action property that a passing run checks, and the
refinement of `LruContract`, is stated by a theorem: for any threads, paths,
requests, bytes, blocks, names, scripts, bounds and limits that the `ASSUME`s of
the modules admit.

| Theorem | Says |
|---|---|
| **`MetadataStore_proofs`** | |
| `TypeCorrect` | `Spec => []TypeOK` |
| `LockingCorrect`; `NeverKeyError`, `CacheBounded` | `Spec => []StoreInvariant`; its parts |
| `InvalidateExact`, `AdmittedIsCached` | `Spec => InvalidateReportsWhatItDropped`, `AdmittedStays` |
| `StoreImplementsContract` | `Spec => ImplementsContract` |
| `HistoryCorrect`; `QuietReloadsAreFresh` | `HSpec => []HistoryInvariant`; `HSpec => FreshAfterQuietReload` |
| **`ToolServer_proofs`** | |
| `ServerKeepsInvariant`; `ServerTypeCorrect` | `ServerSpec => [](ServerTypeOK /\ ServerInvariant)`; `[]ServerTypeOK` |
| `JobsMatchTasks`, `DegradedServerOnlyReports` | `[]OneJobPerWaitingTask`, `[]DegradedAnswersOnly` |
| `TargetsAccountedFor` | `ServerSpec => EveryTargetAccountedFor` |
| `HistoryKept` | `HistorySpec => []HistorySafe`, which is the above and `HistoryInvariant` |
| `ReloadsAreFelt`, `BadFilesAreSkipped` | `HistorySpec => []ReloadedIsFresh`, `OneBadFileSparesTheRest` |
| **`Container_proofs`** | |
| `ParseTypeCorrect`, `GreedyScan`, `RefusalsJustified` | `ContainerSpec => []ContainerTypeOK`, `[]ScanIsGreedy`, `[]RefusedForCause` |
| `GroupsComplete`, `TablesRejoined` | `ContainerSpec => []GroupsPartition`, `[]SplitTablesRejoined` |
| `WindowsAddUp`, `OutputBounded`, `WindowsInvisible` | `InflateSpec => []InflateTypeOK`, `[]MemoryBounded`, `[]WindowsDoNotShow` |
| **`MetadataBlocks_proofs`** | |
| `TablesTile`; `BlocksTile` | `TableSpec => []EntriesTile`, for a decoder on any bytes; `MSpec => []EntriesTile`, for every decoder called |
| `MetadataDecoded`; `BlocksTypeCorrect` | `MSpec => []FileState`, the invariant; `[]BlocksTypeOK` |
| `ScriptsAreWhole`, `DirectoriesPartition` | `[]ScriptIsWhole`, `[]DirectoryPartitions` |
| **`Decoding_proofs`** | |
| `MetadataRead` | `MSpec => []DecodedState`, the invariant |
| `DecodersReadWhatWasWritten`, `DecodersRefuseOnlyDamage` | `[]DecodesWhatWasWritten`, `[]RefusesOnlyDamage` |
| `EveryTableHasItsValueSet` | `[]ValueSetsComplete` |
| **`DataSources_proofs`** | |
| `SearchAccounted`; `SourcesListedOnce` | `SourcesSpec => []SearchState`, the invariant; `[]EachSourceOnce` |
| **`Naming_proofs`** | |
| `NamesAreIdentifiers`, `CollisionsResolved` | `FSpec => []IndexTypeOK`, `[]DistinctUnlessSuffixed` |
| `ResolutionInside`, `ResolutionJustified`, `ToolsMeanOneFile` | `RSpec => []StaysInside`, `[]AnswerJustified`, `[]ToolsAgree` |
| `BootDecided` | `BSpec => []BootDecides` |

### Assumptions

They are named where the constants are declared. Most say only that a bound is
a natural number, that two kinds of names do not overlap, and what the shapes
of a file are. The others:

- `MaxEntries`, `MaxSamples`, `Window` are positive: the store's constructor
  refuses an empty cache (`store.py:121`), the others are literals of the code.
- `FiniteAssumption` (`ToolServer`): finitely many threads and files. Requests
  may be infinitely many.
- `WidthAssumption`: a number has one to four bytes. The code has four; with
  the width open the instance can have two.
- `ContainersAssumption`: blocks that count as written are `LaidOut`, which
  includes that counts and lengths fit `Width` bytes. Any other block is
  arbitrary bytes.
- `ScriptsAssumption`: statements stand in the order of their lines.
- `LookupAssumption`, `LeadsAssumption` (`QvwResolution`): the file the index
  has for an argument is its second candidate, unless no candidate can exist (an
  argument like `~user`); links lead to files.
- `DecimalAssumption` and the other assumptions of `FileIndex`: printing a
  number is injective, reserved words are letters, `sorted` returns what it is
  given once each.

### Arguments

*The lock.* The bound on the cache is not inductive alone. That `_admit` never
adds to a cache that is already over needs the lock to be held by one caller
(`LockDiscipline`: who holds it is exactly who is inside), and that
`move_to_end` finds its key needs what the caller learned one step before to be
still true (`CriticalFacts`). `StoreInvariant` is their conjunction with
`NoKeyError` and `Bounded`. `HolderAlone` turns `LockDiscipline` into "everybody
else is outside"; the lemmas of `OrderedDict_proofs` say what each dict
operation keeps. The two action properties follow from the invariant in the
state before the step.

*The refinement.* A lookup takes effect when the lock is released after `get` or
`move_to_end`, an admission when the key is assigned, an invalidation when the
entries are removed. Between the assignment and the end of the eviction loop
the contract's cache is already the trimmed one (`AbsLru`); that this is one
well-defined cache is the lemma `OneAdmits`, which again is `HolderAlone`. Each
action then maps to one step of `LruContract` (`MissImplements`,
`TouchImplements`, `StoreImplements`, `DropImplements`, ...) or to a stutter.
`MoveIsQueried` and `AssignIsQueried` are the heart: an assignment followed by
`move_to_end` is a removal followed by an append, as sequences. `KeyError` is no
answer of the contract, so the proof needs `NoKeyError`.

*Reload.* `NothingOlder` says of every path whose latest invalidation met no
older read: what is cached, what a thread has read, and what it is about to
answer is no older than the disk was at that invalidation. It is kept by a later
read because stamps only grow (`StampsGrow`), and by the invalidation itself
because that empties the entry, or finds a reader of the current content, or is
one that met an older read. The violation run `store_reload_race` shows that
the condition cannot be left out.

*The server.* Each place a request may be (the loop's queue, the executor's
queue, a thread, the loop) is counted, and `OneJobPerWaitingTask` says the counts
add up to one for an open request. The lemmas on `Among` say how appending to a
queue and taking its head move a count. `StageFacts` is what a handler may rely
on after an `await`; `Accounted`, its core, says that the files scanned, skipped
and left are those it began with, in number and as a set, so that none is
reported twice. `Holds` and `Idles` say who may hold the interpreter lock, that
the loop stays with a reload until the store has answered, and that nothing gets
past dispatch in a degraded server.

*What a client is promised.* `HistoryInvariant` follows a content from the disk to
the request that gets it. `JobsFit` says that a job, queued or at work, is what
its request waits for: without that a thread could deliver the content of one
file to a handler that awaits another. `CacheFresh` says the cache holds nothing
older than the floors, `Reads` the same of what a thread has read or got, and
`Keeps` of what a handler is handed. That one inequality is enough at each of
these places needs `Stamps`: a floor never exceeds the disk's stamp, and what a
request remembers never exceeds the floor. A reload raises a floor exactly when
it empties the entry and no thread is about to admit something older
(`DroppingSteps`). `Reads` and `Keeps` also say that an error has its reason: a
file that failed is not one that has been sound since the request came, hence
none that is skipped is (`OneBadFileSparesTheRest`), and every sound file was
listed to begin with. `LoopStepKeeps` and the lemmas on `Outcome` reduce the
sixteen steps of the handlers to what they have in common.

*The container.* `ScanState` adds to the properties that a body is well formed
and that each block copies its stream; a stream accepted at the earliest prefix
at or after `pos` covers every prefix the new `pos` passes. For the groups,
`Parted` says that they are consecutive runs of blocks and `pending` is the run
after the last of them, `Together` that within a run, and nowhere else, a block
is a data chunk; so a boundary falls exactly behind a block that is none. Which
block is one depends on the gap behind it: `TablesRejoined` takes from
`ScanState` that the gap was measured to the next stream kept, not to a false
prefix before it, and from `Parted` where the two streams end up. For the
windows, `Between` says that between two calls of zlib everything fed has
been taken and everything due has been given, and that neither the stream's end
nor a bad byte lies behind the cursor. Hence one more window meets the first of
these that it contains, and the room of one byte over the cap meets the bomb.

*Any bytes.* `TableState` adds that the block is a sequence of bytes and where
the cursor stands. The point is arithmetic: a length is a sum of bytes with
non-negative weights, so an entry never ends before it begins, and `Fits` keeps
its end inside the block. `FileState` adds, for a whole container, whose block
is being decoded (`MetaTypes`), that value sets appear in file order (`InTurn`)
and are no longer than asked for (`Counted`), and what script and directory were
cut from.

*What was written.* `NumberReadBack` is the round trip of a number: its bytes are
the remainders of repeated division, and each step of the weighted sum undoes
one division (`RestStep`). From it follow the length of a text, with its escape
(`LengthRead`), a text, a symbol of each flag (`SymbolRead`) and the header.
`Readable` collects this for a table cut off anywhere: an entry that is left
whole is read as it was meant, and one that is not is not read. A decoder at the
end of the i-th entry then reads the i+1st or refuses for a reason
(`ReadingState`). `JoiningState` says that `pending` opens a logical block and
holds what the chunks before `at` give it, so what is decoded in the end is the
`whole` of the last block (`WholeIsJoined`). With that, a scan that has passed
the last block of a sound table has summarised it (`CollectedSoFar`). That a
sound table is not passed over is `SoundLooksLikeTable`; that noise elsewhere
does no harm to it follows from the joining: a logical block opens where no
chunk stands before it, and each call of a decoder starts afresh.

*Sources.* A search that goes on inside a line it has taken would list the rest
of a connection string as one more. `LinesTaken` says that it never does: what
is left of a line behind a greedy match has no start of one before it. With
that, the next match found is a mention (`NextMatch`), and `Accounted` says of
the part searched so far what `EachSourceOnce` says of the whole.

*Names.* `used` counts, for each sanitised name, the entries that have it, and
each entry carries its number. Two entries of one sanitised name then differ in
number, hence in suffix, because printing is injective; and a suffix makes no
reserved word, since those have no underscore.

*Resolution.* `Resolving` says that a call has put behind it only candidates it
has seen missing (`Behind`), that the history covers the disk as it is
(`Observed`), and that what it hands on was led to and tested (`Trying`). While
the directory does not change, the history holds of the disk as it is (`Calm`),
so every answer is what the first candidate leads to or the file in the index
(`AnswersMatch`), whichever tool gave it; that makes the comparison of two calls
a statement about one state. `Booted` remembers at each stage of `boot` what
the earlier ones established.

Least and greatest elements (`Min`, `Max`) come from the well-foundedness of `<`
on the naturals, cited as `WFMin`.

### Only model-checked

- Liveness: `CallsReturn`, `EveryRequestAnswered`, `LoopStaysResponsive`,
  `ParseEnds`. Fairness is about `ENABLED`, which the prover does not handle.
- That what `EncodedTable` builds is `LaidOut`: it is a fold, and the library's
  induction theorems cannot be used here. TLC evaluates
  `ContainersAssumption` on every container of the `decode` run.
- The five violations, which are counterexamples.

## 5. What is not modelled

Logging, serialization, the response models, wording of messages, validation
that the SDK does before a handler runs, the stdio transport, and cancellation
of a request by the client. Of a file: links that lead to links, directories
named `*.qvw`, case-insensitive file systems. Of the decoders: the regular
expressions themselves, the masking of secrets, the value of a number, and the
cut of a sample to 200 characters. An index entry's size, time and `-prj` flag.
`invalidate` resolves its path under the lock (`store.py:220`), a call to the
file system that may raise: the path it gets from `reload` is resolved already,
and an exception there changes nothing and gives the lock back.
A container and a `-prj` script read around a save by another program may come
from different versions; the model records both stamps, no document promises
that they match, and no property says so.

## 6. Plan

1. Composition: `InflateWindow` as the trial of `ContainerScan`;
   `MetadataBlocks` as the parse of `MetadataStore`; `ToolServer` with its
   targets from `QvwResolution`.
2. Cancellation of a request while its parse runs, as far as the SDK's use in
   `server.py` determines it.
3. Proofs for the composed modules; a lemma module for what `Container_proofs`,
   `MetadataBlocks_proofs` and `DataSources_proofs` each say of `Min` and `Max`.
