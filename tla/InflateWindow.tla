---- MODULE InflateWindow ----
(***************************************************************************)
(* parser/container.py: _try_decompress feeds the body from an offset on,  *)
(* window by window, to a zlib.decompressobj whose output is capped on     *)
(* every call.                                                             *)
(*                                                                         *)
(* The bytes are what zlib makes of them: gives[i] is all the output that  *)
(* the first i bytes hold, and the stream ends after endsAt bytes or turns *)
(* out to be none at badAt (0: neither happens).                           *)
(***************************************************************************)
EXTENDS Integers, FiniteSetsExt

CONSTANTS
    InputLengths, \* how many bytes there are from the offset to the body's end
    Outputs,      \* how much output there may be
    Window,       \* _DECOMPRESS_INPUT_CHUNK
    MaxOut        \* MAX_DECOMPRESSED_BLOCK_SIZE

ASSUME InputLengthsAssumption == InputLengths \subseteq Nat \ {0}
ASSUME OutputsAssumption == Outputs \subseteq Nat
ASSUME WindowAssumption == Window \in Nat \ {0}
ASSUME MaxOutAssumption == MaxOut \in Nat

VARIABLES
    bytes,      \* the input, as above
    fed,        \* bytes handed to zlib
    taken,      \* bytes zlib has consumed
    produced,   \* output received so far
    owed,       \* output zlib holds back for lack of room
    tail,       \* len(unconsumed_tail)
    unused,     \* len(unused_data)
    eof,
    trial,      \* "feed", "drain", or the outcome: "stream", "none", "bomb"
    consumed    \* the length returned

zlibVars == <<taken, produced, owed, tail, unused, eof>>
inflateVars == <<bytes, fed, zlibVars, trial, consumed>>

\* More bytes never hold less.
Growing(n) == {g \in [1..n -> Outputs] : \A i, j \in 1..n : i <= j => g[i] <= g[j]}
Inputs ==
    UNION {[size : {n}, gives : Growing(n), endsAt : 0..n, badAt : {0}]
           \cup [size : {n}, gives : Growing(n), endsAt : {0}, badAt : 1..n] : n \in InputLengths}

IInit ==
    /\ bytes \in Inputs
    /\ fed = 0 /\ taken = 0 /\ produced = 0 /\ owed = 0
    /\ tail = 0 /\ unused = 0 /\ eof = FALSE
    /\ trial = "feed" /\ consumed = 0

----------------------------------------------------------------------------
(* zlib: decompress(data, limit), for n bytes of data that follow those    *)
(* taken.  A limit of 0 is no limit.                                       *)

Released(i) == IF i = 0 THEN 0 ELSE bytes.gives[i]
\* What there is to give once i bytes are taken, over what was given before
Due(i) == Released(i) - produced

\* How many of the n bytes this call takes: it stops where the room is full,
\* where the stream ends, or when it meets a byte no stream can have.
Stops(i, n, limit) ==
    \/ i = taken + n
    \/ i = bytes.endsAt /\ i > 0
    \/ limit > 0 /\ Due(i) >= limit
Reach(n, limit) == Min({i \in taken..taken + n : Stops(i, n, limit)})
Broken(n, limit) == bytes.badAt \in taken + 1..Reach(n, limit)

Decompress(n, limit) ==
    LET upto == Reach(n, limit)
        piece == IF limit > 0 /\ Due(upto) > limit THEN limit ELSE Due(upto)
        ends == upto = bytes.endsAt /\ upto > 0 /\ piece = Due(upto)
    IN /\ taken' = upto
       /\ produced' = produced + piece
       /\ owed' = Due(upto) - piece
       /\ eof' = ends
       /\ unused' = IF ends THEN taken + n - upto ELSE 0
       /\ tail' = IF ends THEN 0 ELSE taken + n - upto

Limit_exact == MaxOut - produced
Limit == MaxOut - produced + 1

----------------------------------------------------------------------------
(* _try_decompress *)

\* _pump: the call, the cap on what it produced, then the next turn
Pump(n) ==
    IF Broken(n, Limit)
    THEN /\ trial' = "none"
         /\ UNCHANGED <<zlibVars, consumed>>
    ELSE /\ Decompress(n, Limit)
         /\ trial' = IF produced' > MaxOut THEN "bomb" ELSE "drain"
         /\ UNCHANGED consumed

Slice == IF bytes.size - fed < Window THEN bytes.size - fed ELSE Window

Feed_countsWindow ==
    /\ trial = "feed" /\ ~eof
    /\ fed < bytes.size
    /\ fed' = fed + Window
    /\ Pump(Slice)
    /\ UNCHANGED bytes
Feed ==
    /\ trial = "feed" /\ ~eof
    /\ fed < bytes.size
    /\ fed' = fed + Slice
    /\ Pump(Slice)
    /\ UNCHANGED bytes

RunOut ==
    /\ trial = "feed" /\ ~eof
    /\ fed >= bytes.size
    /\ trial' = "none"
    /\ UNCHANGED <<bytes, fed, zlibVars, consumed>>

\* A tail is left only by a call that filled the room, and the room is one
\* byte more than the cap leaves: the first branch is never taken.
Drain ==
    /\ trial = "drain"
    /\ IF tail > 0
       THEN Pump(tail)
       ELSE trial' = "feed" /\ UNCHANGED <<zlibVars, consumed>>
    /\ UNCHANGED <<bytes, fed>>

Finish_window ==
    /\ trial = "feed" /\ eof
    /\ consumed' = fed
    /\ trial' = "stream"
    /\ UNCHANGED <<bytes, fed, zlibVars>>

Finish ==
    /\ trial = "feed" /\ eof
    /\ consumed' = fed - unused
    /\ trial' = "stream"
    /\ UNCHANGED <<bytes, fed, zlibVars>>

INext == Feed \/ RunOut \/ Drain \/ Finish
InflateSpec == IInit /\ [][INext]_inflateVars

----------------------------------------------------------------------------
InflateTypeOK ==
    /\ bytes.size \in InputLengths /\ bytes.gives \in [1..bytes.size -> Outputs]
    /\ fed \in 0..bytes.size /\ taken \in 0..fed
    /\ produced \in Nat /\ owed \in Nat
    /\ trial # "none" => tail + unused = fed - taken
    /\ eof \in BOOLEAN
    /\ trial \in {"feed", "drain", "stream", "none", "bomb"}
    /\ consumed \in 0..bytes.size

Over(i) == Released(i) > MaxOut
\* What reading all bytes at once, with no cap on the memory, would find
Expected ==
    LET last == IF bytes.badAt > 0 THEN bytes.badAt - 1
                ELSE IF bytes.endsAt > 0 THEN bytes.endsAt ELSE bytes.size
    IN CASE Over(last)                       -> <<"bomb", 0>>
         [] ~Over(last) /\ bytes.endsAt > 0  -> <<"stream", bytes.endsAt>>
         [] OTHER                            -> <<"none", 0>>

\* The answer does not depend on where the windows fall: a stream, its length,
\* garbage, a stream cut short and a bomb are told apart as they would be if
\* the whole input were inflated at once.
WindowsDoNotShow ==
    trial \in {"stream", "none", "bomb"} => <<trial, consumed>> = Expected

\* No more than one byte over the cap is ever held, however much a byte of
\* input inflates to, and the call that asks zlib for more never passes 0,
\* which zlib takes for "no limit".
MemoryBounded == produced <= MaxOut + 1
====
