---------------------------- MODULE WeightStore -----------------------------
(***************************************************************************)
(* How weights reach a matrix product: tq_store_view and tq_matvec of      *)
(* core/src/tq_kernels.c over a mapped file, or over the card through      *)
(* stream_read of model_store.c.                                           *)
(*                                                                         *)
(* Streamed rows pass through two buffers: the card is read into a staging *)
(* buffer, any part of what was asked for at a time, and copied from there *)
(* into the one tile, as many whole rows as it holds.  The tile keeps what *)
(* it held when a call ends, early or not.  A byte of weights is its       *)
(* offset in the file; a row is what the bytes it was computed from were.  *)
(* Offsets are unsigned words, and sums of them wrap: an offset past the   *)
(* file stands for whatever a mapped store finds at that address.          *)
(*                                                                         *)
(* The weights are of one of the two types tq_model_open accepts, so the   *)
(* exit for any other type, which it makes unreachable, is left out.       *)
(***************************************************************************)
EXTENDS Integers

CONSTANTS
    FileBytes,      \* store->bytes
    TileBytes,      \* store->tile_bytes
    STAGE_BYTES,    \* size of the staging buffer
    OffsetWords,    \* values of a file offset: 2^64 in the code
    Calls           \* arguments of tq_matvec: [w_off, row_bytes, d]

ASSUME WeightStoreAssumption ==
    /\ FileBytes \in Nat /\ TileBytes \in Nat \ {0} /\ STAGE_BYTES \in Nat \ {0}
    /\ OffsetWords \in Nat /\ FileBytes + TileBytes < OffsetWords
    /\ Calls \subseteq [w_off : 0 .. OffsetWords - 1, row_bytes : Nat, d : Nat]

VARIABLES
    kind,       \* the store: "mapped" or "stream"
    stream_open,
    tile,       \* the tile, -1 for a byte that was never written
    call,       \* arguments of the call
    pc,         \* "idle", "tiles" or "read"
    i,          \* rows done
    chunk,      \* rows of this tile
    at,         \* position of stream_file
    done,       \* bytes of this tile read
    out,        \* row -> bytes it was computed from, Untouched before
    rc,         \* result of the call
    broke       \* history: the card failed during the call

vars == <<kind, stream_open, tile, call, pc, i, chunk, at, done, out, rc, broke>>
loopVars == <<i, chunk, at, done>>

Untouched == <<>>

NoCall == [w_off |-> 0, row_bytes |-> 0, d |-> 0]

\* A sum of offsets in a uint64_t.
Offset(n) == n % OffsetWords

\* The bytes of row r of the call's matrix, in order.
Row(r) ==
    [b \in 0 .. call.row_bytes - 1 |-> call.w_off + r * call.row_bytes + b]

Return(err) == rc' = err /\ pc' = "idle"

Init ==
    /\ kind \in {"mapped", "stream"} /\ stream_open = (kind = "stream")
    /\ tile = [b \in 0 .. TileBytes - 1 |-> -1]
    /\ call = NoCall /\ pc = "idle"
    /\ i = 0 /\ chunk = 0 /\ at = 0 /\ done = 0
    /\ out = Untouched /\ rc = "OK" /\ broke = FALSE

\* tq_matvec up to its loop; a mapped matrix is done in one sweep.
tq_matvec(c) ==
    /\ pc = "idle"
    /\ call' = c /\ broke' = FALSE /\ i' = 0
    /\ IF c.row_bytes = 0
       THEN Return("SHAPE") /\ out' = [r \in 0 .. c.d - 1 |-> Untouched]
       ELSE IF kind = "mapped"
       THEN IF Offset(c.w_off + c.row_bytes * c.d) > FileBytes
            THEN Return("TRUNCATED") /\ out' = [r \in 0 .. c.d - 1 |-> Untouched]
            ELSE Return("OK") /\ out' = [r \in 0 .. c.d - 1 |-> Row(r)']
       ELSE /\ out' = [r \in 0 .. c.d - 1 |-> Untouched]
            /\ IF TileBytes < c.row_bytes
               THEN Return("NOMEM")
               ELSE pc' = "tiles" /\ rc' = "none"
    /\ UNCHANGED <<kind, stream_open, tile, chunk, at, done>>

\* Mutant: a started row counts as a whole one.
RowsPerTileRounded == (TileBytes + call.row_bytes - 1) \div call.row_bytes

rows_per_tile == TileBytes \div call.row_bytes

ChunkRows == IF call.d - i > rows_per_tile THEN rows_per_tile ELSE call.d - i

\* tq_store_view on the next rows, up to the seek of stream_read, which finds no
\* offset past the file.
View ==
    /\ pc = "tiles" /\ i < call.d
    /\ chunk' = ChunkRows
    /\ LET off  == Offset(call.w_off + call.row_bytes * i)
           want == call.row_bytes * ChunkRows
           has  == /\ Offset(off + want) <= FileBytes /\ want <= TileBytes
                   /\ stream_open /\ off <= FileBytes
       IN  \/ /\ ~ has
              /\ Return("IO")
              /\ UNCHANGED <<at, done, broke>>
           \/ /\ has
              /\ \/ at' = off /\ done' = 0 /\ pc' = "read" /\ UNCHANGED <<rc, broke>>
                 \/ Return("IO") /\ broke' = TRUE /\ UNCHANGED <<at, done>>
    /\ UNCHANGED <<kind, stream_open, tile, call, i, out>>

nbytes == call.row_bytes * chunk

\* Mutant: every read of the card lands at the front of the tile.
FsReadFront ==
    /\ pc = "read" /\ done < nbytes
    /\ \E got \in 1 .. (IF nbytes - done < STAGE_BYTES THEN nbytes - done ELSE STAGE_BYTES) :
          /\ tile' = [b \in DOMAIN tile |-> IF b < got THEN at + b ELSE tile[b]]
          /\ done' = done + got /\ at' = at + got
    /\ UNCHANGED <<kind, stream_open, call, pc, i, chunk, out, rc, broke>>

\* One turn of stream_read's loop: fs_read returns part of what was asked for,
\* or fails, or finds the end of the file.
FsRead ==
    /\ pc = "read" /\ done < nbytes
    /\ \/ \E got \in 1 .. (IF nbytes - done < STAGE_BYTES THEN nbytes - done ELSE STAGE_BYTES) :
             /\ tile' = [b \in DOMAIN tile |->
                           IF done <= b /\ b < done + got THEN at + b - done ELSE tile[b]]
             /\ done' = done + got /\ at' = at + got
             /\ UNCHANGED <<pc, rc, broke>>
       \/ Return("IO") /\ broke' = TRUE /\ UNCHANGED <<tile, done, at>>
    /\ UNCHANGED <<kind, stream_open, call, i, chunk, out>>

\* Mutant: the loop goes on with the rows it has just done.
RowsAgain ==
    /\ pc = "read" /\ done >= nbytes
    /\ out' = [r \in DOMAIN out |->
                 IF i <= r /\ r < i + chunk
                 THEN [b \in 0 .. call.row_bytes - 1 |-> tile[(r - i) * call.row_bytes + b]]
                 ELSE out[r]]
    /\ pc' = "tiles"
    /\ UNCHANGED <<kind, stream_open, tile, call, i, chunk, at, done, rc, broke>>

\* The dot products of the rows in the tile.
Rows ==
    /\ pc = "read" /\ done >= nbytes
    /\ out' = [r \in DOMAIN out |->
                 IF i <= r /\ r < i + chunk
                 THEN [b \in 0 .. call.row_bytes - 1 |-> tile[(r - i) * call.row_bytes + b]]
                 ELSE out[r]]
    /\ i' = i + chunk /\ pc' = "tiles"
    /\ UNCHANGED <<kind, stream_open, tile, call, chunk, at, done, rc, broke>>

LoopDone ==
    /\ pc = "tiles" /\ i >= call.d
    /\ Return("OK")
    /\ UNCHANGED <<kind, stream_open, tile, call, loopVars, out, broke>>

\* `tinyllm load' closes the stream between two calls.
Close ==
    /\ pc = "idle" /\ stream_open
    /\ stream_open' = FALSE
    /\ UNCHANGED <<kind, tile, call, pc, loopVars, out, rc, broke>>

Step == View \/ FsRead \/ Rows \/ LoopDone

Next == Step \/ Close \/ \E c \in Calls : tq_matvec(c)

\* A call that has started runs: it is one thread's plain function call.
Spec == Init /\ [][Next]_vars /\ WF_vars(Step)

-----------------------------------------------------------------------------

\* Every row is computed from its own weights, whole and in order, whatever the
\* tile held before, however short the reads and wherever a call before broke
\* off; a call that succeeds computed every row, from either store; and none is
\* computed from what is not in the file, unless the matrix wraps around the
\* last offset there is, which only the card's seek notices.
RowsFromTheirWeights ==
    /\ \A r \in DOMAIN out : out[r] \in {Untouched, Row(r)}
    /\ rc = "OK" /\ pc = "idle" => \A r \in DOMAIN out : out[r] = Row(r)
    /\ kind = "stream" \/ call.w_off + call.row_bytes * call.d < OffsetWords =>
          \A r \in DOMAIN out : \A b \in DOMAIN out[r] : out[r][b] < FileBytes

\* A matrix that lies inside the file is refused only for a row longer than
\* the tile, a closed stream, or a card that failed.
RefusedForCause ==
    /\ pc = "idle" /\ rc \in {"IO", "TRUNCATED"} =>
          broke \/ call.w_off + call.row_bytes * call.d > FileBytes
                \/ (kind = "stream" /\ ~ stream_open)
    /\ rc = "NOMEM" => kind = "stream" /\ call.row_bytes > TileBytes

\* Every call returns, the reads of the card being of at least one byte.
CallReturns == (pc # "idle") ~> (pc = "idle")
=============================================================================
