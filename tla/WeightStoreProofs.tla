------------------------- MODULE WeightStoreProofs --------------------------
(***************************************************************************)
(* Proofs about tq_matvec over a mapped and a streamed store, for every    *)
(* size of file, tile and staging buffer and every matrix.                 *)
(*                                                                         *)
(* What has to be known between two steps is where the tile stands: while  *)
(* it is being filled, its first `done` bytes are the weights from row i   *)
(* on, the rows before i are finished and the rows from i on untouched.    *)
(* What else the tile holds, from the call before, is never looked at.     *)
(* The rows done end inside the file: no offset has wrapped so far.        *)
(***************************************************************************)
EXTENDS WeightStore, TLAPS

Call == [w_off : 0 .. OffsetWords - 1, row_bytes : Nat, d : Nat]

StoreTypeOK ==
    /\ kind \in {"mapped", "stream"} /\ stream_open \in BOOLEAN
    /\ tile \in [0 .. TileBytes - 1 -> Int]
    /\ call \in Call
    /\ pc \in {"idle", "tiles", "read"}
    /\ i \in Nat /\ chunk \in Nat /\ at \in Nat /\ done \in Nat
    /\ DOMAIN out = 0 .. call.d - 1
    /\ rc \in {"none", "OK", "SHAPE", "TRUNCATED", "NOMEM", "IO"}
    /\ broke \in BOOLEAN

\* A mapped store has no stream.
StreamsOnly == kind = "mapped" => ~ stream_open

\* The first k rows end inside the file.
InFile(k) == k = 0 \/ call.w_off + k * call.row_bytes <= FileBytes

\* Inside a call the rows done are those below i.
Halfway ==
    pc \in {"tiles", "read"} =>
        /\ kind = "stream" /\ rc = "none"
        /\ 0 < call.row_bytes /\ call.row_bytes <= TileBytes
        /\ i <= call.d /\ InFile(i)
        /\ \A r \in DOMAIN out : out[r] = IF r < i THEN Row(r) ELSE Untouched

\* While the tile is filled, what it holds so far are the weights of row i on.
Filling ==
    pc = "read" =>
        /\ i < call.d /\ 0 < chunk /\ i + chunk <= call.d
        /\ nbytes <= TileBytes /\ done <= nbytes /\ InFile(i + chunk)
        /\ at = call.w_off + i * call.row_bytes + done
        /\ \A b \in 0 .. done - 1 : tile[b] = call.w_off + i * call.row_bytes + b

Inv ==
    /\ StoreTypeOK /\ StreamsOnly /\ Halfway /\ Filling
    /\ RowsFromTheirWeights /\ RefusedForCause

-----------------------------------------------------------------------------

\* The arguments of a call are numbers.
LEMMA CallNumbers ==
    ASSUME NEW c \in Call
    PROVE  /\ c.w_off \in Nat /\ c.row_bytes \in Nat /\ c.d \in Nat
           /\ c.w_off < OffsetWords
BY WeightStoreAssumption DEF Call

\* A sum of offsets never grows by wrapping, and stays itself below 2^64.
LEMMA OffsetOf ==
    ASSUME NEW n \in Nat
    PROVE  /\ Offset(n) \in Nat /\ Offset(n) <= n
           /\ n < OffsetWords => Offset(n) = n
BY WeightStoreAssumption DEF Offset

\* Rows that end inside the file are made of bytes of the file.
LEMMA BytesInFile ==
    ASSUME NEW c \in Call, NEW k \in Nat, k = 0 \/ c.w_off + k * c.row_bytes <= FileBytes,
           NEW r \in Nat, r < k, NEW b \in 0 .. c.row_bytes - 1
    PROVE  c.w_off + r * c.row_bytes + b < FileBytes
<1> DEFINE n == c.row_bytes
           w == c.w_off
<1>1. n \in Nat /\ w \in Nat
  BY CallNumbers
<1>2. w + k * n <= FileBytes
  OBVIOUS
<1>3. b \in Nat /\ b < n
  BY <1>1
<1> HIDE DEF n, w
<1>4. (r + 1) * n <= k * n /\ (r + 1) * n = r * n + n
  BY <1>1
<1>5. r * n \in Nat /\ k * n \in Nat
  BY <1>1
<1>6. w + r * n + b < FileBytes
  BY <1>1, <1>2, <1>3, <1>4, <1>5, WeightStoreAssumption
<1>7. QED
  BY <1>6 DEF n, w

\* What is computed from rows that end inside the file is computed from bytes
\* of the file.
LEMMA OutInFile ==
    ASSUME call \in Call, NEW k \in Nat, InFile(k), NEW o, DOMAIN o = 0 .. call.d - 1,
           \A r \in DOMAIN o : o[r] = IF r < k THEN Row(r) ELSE Untouched
    PROVE  \A r \in DOMAIN o : \A b \in DOMAIN o[r] : o[r][b] < FileBytes
<1> TAKE r \in DOMAIN o
<1> TAKE b \in DOMAIN o[r]
<1>1. r \in Nat
  BY CallNumbers
<1>2. CASE r < k
  <2>1. o[r] = Row(r)
    BY <1>2
  <2>2. b \in 0 .. call.row_bytes - 1
    BY <2>1 DEF Row
  <2>3. o[r][b] = call.w_off + r * call.row_bytes + b
    BY <2>1, <2>2 DEF Row
  <2>4. call.w_off + r * call.row_bytes + b < FileBytes
    BY <1>1, <1>2, <2>2, BytesInFile, Zenon DEF InFile
  <2>5. QED
    BY <2>3, <2>4, Zenon
<1>3. CASE ~ (r < k)
  <2>1. o[r] = <<>>
    BY <1>3 DEF Untouched
  <2>2. QED
    BY <2>1
<1>4. QED
  BY <1>2, <1>3

\* The bytes of a row among those of the rows in the tile.
LEMMA Slot ==
    ASSUME call \in Call, i \in Nat, chunk \in Nat, NEW r \in Nat, NEW b \in Nat,
           i <= r, r < i + chunk, b < call.row_bytes
    PROVE  /\ (r - i) * call.row_bytes + b \in 0 .. call.row_bytes * chunk - 1
           /\ call.w_off + i * call.row_bytes + ((r - i) * call.row_bytes + b)
                = call.w_off + r * call.row_bytes + b
<1> DEFINE q == r - i
           n == call.row_bytes
<1>1. q \in Nat /\ q + 1 <= chunk /\ r = i + q /\ n \in Nat /\ call.w_off \in Nat
  BY CallNumbers
<1> HIDE DEF q, n
<1>2. (q + 1) * n <= chunk * n
  BY <1>1
<1>3. (q + 1) * n = q * n + n /\ chunk * n = n * chunk /\ q * n \in Nat
  BY <1>1
<1>4. r * n = i * n + q * n /\ i * n \in Nat
  BY <1>1
<1>5. b < n
  BY DEF n
<1>6. /\ q * n + b \in 0 .. n * chunk - 1
      /\ call.w_off + i * n + (q * n + b) = call.w_off + r * n + b
  BY <1>1, <1>2, <1>3, <1>4, <1>5
<1>7. QED
  BY <1>6 DEF q, n

\* The rows of a tile fit the tile, and end no later than the matrix.
LEMMA ChunkFits ==
    ASSUME call \in Call, i \in Nat, i < call.d, 0 < call.row_bytes,
           call.row_bytes <= TileBytes
    PROVE  /\ ChunkRows \in Nat /\ 0 < ChunkRows /\ i + ChunkRows <= call.d
           /\ call.row_bytes * ChunkRows \in Nat
           /\ call.row_bytes * ChunkRows <= TileBytes
           /\ call.w_off + call.row_bytes * i \in Nat
           /\ call.row_bytes * i = i * call.row_bytes
           /\ call.w_off + call.row_bytes * i + call.row_bytes * ChunkRows
                <= call.w_off + call.row_bytes * call.d
           /\ call.row_bytes * i + call.row_bytes * ChunkRows = (i + ChunkRows) * call.row_bytes
<1> DEFINE n == call.row_bytes
           q == TileBytes \div n
           k == ChunkRows
<1>1. n \in Nat /\ 0 < n /\ n <= TileBytes /\ TileBytes \in Nat /\ call.d \in Nat /\ call.w_off \in Nat
  BY WeightStoreAssumption, CallNumbers
<1>2. q \in Nat /\ 0 < q /\ n * q <= TileBytes
  <2> HIDE DEF n
  <2>1. q \in Nat /\ n * q <= TileBytes /\ TileBytes < n * (q + 1)
    BY <1>1
  <2>2. q # 0
    BY <1>1, <2>1
  <2>3. QED
    BY <2>1, <2>2
<1>3. k \in Nat /\ 0 < k /\ k <= q /\ i + k <= call.d
  BY <1>1, <1>2 DEF ChunkRows, rows_per_tile
<1> HIDE DEF n, q, k
<1>4. n * k \in Nat /\ n * k <= n * q
  BY <1>1, <1>2, <1>3
<1>5. n * (i + k) <= n * call.d
  BY <1>1, <1>3
<1>6. n * (i + k) = n * i + n * k /\ n * i \in Nat /\ n * i = i * n /\ n * call.d \in Nat
  BY <1>1, <1>3
<1>7. n * k <= TileBytes
  BY <1>1, <1>2, <1>4
<1>8. call.w_off + n * i + n * k <= call.w_off + n * call.d
  BY <1>1, <1>4, <1>5, <1>6
<1>9. n * i + n * k = (i + k) * n
  BY <1>1, <1>3, <1>6
<1>10. QED
  BY <1>1, <1>3, <1>4, <1>6, <1>7, <1>8, <1>9 DEF n, k

\* Neither the offset of the next rows nor their end wraps where the store
\* accepts them, and it refuses them only for an end outside the file.
LEMMA ChunkPlace ==
    ASSUME call \in Call, i \in Nat, InFile(i), NEW want \in Nat, want <= TileBytes,
           call.w_off + call.row_bytes * i \in Nat, call.row_bytes * i = i * call.row_bytes
    PROVE  LET start == call.w_off + call.row_bytes * i
           IN  /\ Offset(start) = start
               /\ Offset(start + want) <= FileBytes /\ start <= FileBytes
                     <=> start + want <= FileBytes
<1> DEFINE start == call.w_off + call.row_bytes * i
<1>1. start \in Nat /\ start < OffsetWords
  <2>1. CASE i = 0
    <3>1. call.w_off \in Nat /\ call.w_off < OffsetWords /\ call.row_bytes \in Nat
      BY CallNumbers
    <3>2. call.row_bytes * i = 0
      BY <2>1, <3>1
    <3>3. QED
      BY <3>1, <3>2
  <2>2. CASE i # 0
    <3>1. start <= FileBytes
      BY <2>2 DEF InFile
    <3>2. QED
      BY <3>1, WeightStoreAssumption
  <2>3. QED
    BY <2>1, <2>2
<1> HIDE DEF start
<1>2. Offset(start) = start
  BY <1>1, OffsetOf
<1>3. start + want \in Nat
  BY <1>1
<1>4. /\ Offset(start + want) \in Nat /\ Offset(start + want) <= start + want
      /\ start + want < OffsetWords => Offset(start + want) = start + want
  BY <1>3, OffsetOf, Zenon
<1>5. Offset(start + want) <= FileBytes /\ start <= FileBytes <=> start + want <= FileBytes
  BY <1>1, <1>3, <1>4, WeightStoreAssumption
<1>6. QED
  BY <1>2, <1>5, Zenon DEF start

-----------------------------------------------------------------------------

\* The store as tq_store_mapped or the firmware's `load' leaves it.
LEMMA InitInv == Init => Inv
<1> SUFFICES ASSUME Init PROVE Inv
  OBVIOUS
<1>1. call \in Call /\ call.d = 0
  BY WeightStoreAssumption DEF Init, NoCall, Call
<1>2. DOMAIN out = {}
  BY DEF Init, Untouched
<1>3. StoreTypeOK
  <2>1. stream_open \in BOOLEAN /\ broke \in BOOLEAN
    BY Zenon DEF Init
  <2>2. 0 .. call.d - 1 = {}
    BY <1>1
  <2>3. tile \in [0 .. TileBytes - 1 -> Int]
    BY DEF Init
  <2>4. /\ kind \in {"mapped", "stream"} /\ pc \in {"idle", "tiles", "read"}
        /\ rc \in {"none", "OK", "SHAPE", "TRUNCATED", "NOMEM", "IO"}
        /\ i \in Nat /\ chunk \in Nat /\ at \in Nat /\ done \in Nat
    BY DEF Init
  <2>5. QED
    BY <1>1, <1>2, <2>1, <2>2, <2>3, <2>4, Zenon DEF StoreTypeOK
<1>4. StreamsOnly
  BY Zenon DEF Init, StreamsOnly
<1>5. Halfway /\ Filling
  BY DEF Init, Halfway, Filling
<1>6. RowsFromTheirWeights /\ RefusedForCause
  BY <1>2 DEF Init, RowsFromTheirWeights, RefusedForCause
<1>7. QED
  BY <1>3, <1>4, <1>5, <1>6 DEF Inv

\* A call up to its loop: a mapped matrix is done whole or refused, a streamed
\* one starts with no row done.
LEMMA MatvecStep == ASSUME Inv, NEW c \in Calls, tq_matvec(c) PROVE Inv'
<1>1. /\ c \in Call /\ call' = c /\ call'.d \in Nat /\ call'.row_bytes \in Nat /\ call'.w_off \in Nat
      /\ c.w_off + c.row_bytes * c.d \in Nat
  <2>1. c \in Call /\ call' = c
    BY WeightStoreAssumption, Zenon DEF tq_matvec, Call
  <2>2. c.d \in Nat /\ c.row_bytes \in Nat /\ c.w_off \in Nat
    BY <2>1, CallNumbers, Zenon
  <2>3. QED
    BY <2>1, <2>2
<1>2. DOMAIN out' = 0 .. call'.d - 1
  BY <1>1, Zenon DEF tq_matvec
<1>3. /\ kind' = kind /\ stream_open' = stream_open /\ tile' = tile /\ chunk' = chunk
      /\ at' = at /\ done' = done /\ i' = 0 /\ broke' = FALSE
  BY Zenon DEF tq_matvec
<1>4. \/ /\ pc' = "idle" /\ rc' = "SHAPE" 
         /\ out' = [r \in 0 .. c.d - 1 |-> Untouched]
      \/ /\ pc' = "idle" /\ rc' = "TRUNCATED" /\ Offset(c.w_off + c.row_bytes * c.d) > FileBytes
         /\ out' = [r \in 0 .. c.d - 1 |-> Untouched]
      \/ /\ pc' = "idle" /\ rc' = "OK" /\ kind = "mapped"
         /\ ~ (Offset(c.w_off + c.row_bytes * c.d) > FileBytes)
         /\ out' = [r \in 0 .. c.d - 1 |-> Row(r)']
      \/ /\ pc' = "idle" /\ rc' = "NOMEM" /\ kind # "mapped" /\ TileBytes < c.row_bytes
         /\ out' = [r \in 0 .. c.d - 1 |-> Untouched]
      \/ /\ pc' = "tiles" /\ rc' = "none" /\ kind # "mapped"
         /\ c.row_bytes # 0 /\ ~ (TileBytes < c.row_bytes)
         /\ out' = [r \in 0 .. c.d - 1 |-> Untouched]
  BY Zenon DEF tq_matvec, Return
<1>5. \A r \in DOMAIN out' : out'[r] = Untouched \/ out'[r] = Row(r)'
  BY <1>4, Zenon
<1>6. StoreTypeOK'
  BY <1>1, <1>2, <1>3, <1>4 DEF Inv, StoreTypeOK
<1>7. StreamsOnly'
  BY <1>3, Zenon DEF Inv, StreamsOnly
<1>8. Halfway'
  <2> SUFFICES ASSUME pc' # "idle" PROVE Halfway'
    BY DEF Halfway
  <2>1. /\ kind # "mapped" /\ rc' = "none" /\ c.row_bytes # 0 /\ ~ (TileBytes < c.row_bytes)
        /\ out' = [r \in 0 .. c.d - 1 |-> Untouched]
    BY <1>4
  <2>2. \A r \in DOMAIN out' : ~ (r < i') /\ out'[r] = Untouched
    BY <2>1, <1>1, <1>3
  <2>3. /\ kind' = "stream" /\ 0 < call'.row_bytes /\ call'.row_bytes <= TileBytes
        /\ i' <= call'.d /\ InFile(i)'
    BY <2>1, <1>1, <1>3, WeightStoreAssumption DEF Inv, StoreTypeOK, InFile
  <2>4. QED
    BY <2>1, <2>2, <2>3, Zenon DEF Halfway
<1>9. Filling'
  BY <1>4 DEF Filling
<1>10. RowsFromTheirWeights'
  <2>1. rc' = "OK" /\ pc' = "idle" => out' = [r \in 0 .. c.d - 1 |-> Row(r)']
    BY <1>4
  <2>2. rc' = "OK" /\ pc' = "idle" => \A r \in DOMAIN out' : out'[r] = Row(r)'
    BY <2>1, Zenon
  <2>3. ASSUME kind' = "stream" \/ call'.w_off + call'.row_bytes * call'.d < OffsetWords
        PROVE  \A r \in DOMAIN out' : \A b \in DOMAIN out'[r] : out'[r][b] < FileBytes
    <3>1. CASE out' = [r \in 0 .. c.d - 1 |-> Untouched]
      BY <3>1 DEF Untouched
    <3>2. CASE /\ kind = "mapped" /\ ~ (Offset(c.w_off + c.row_bytes * c.d) > FileBytes)
               /\ out' = [r \in 0 .. c.d - 1 |-> Row(r)']
      <4>1. c.w_off + c.row_bytes * c.d < OffsetWords
        BY <1>1, <1>3, <2>3, <3>2
      <4>2. c.w_off + c.row_bytes * c.d <= FileBytes
        BY <1>1, <3>2, <4>1, OffsetOf, WeightStoreAssumption
      <4>3. c.row_bytes * c.d = c.d * c.row_bytes
        BY <1>1
      <4>4. c.w_off + c.d * c.row_bytes <= FileBytes /\ c.d \in Nat
        BY <1>1, <4>2, <4>3
      <4> SUFFICES ASSUME NEW r \in DOMAIN out', NEW b \in DOMAIN out'[r]
                   PROVE  out'[r][b] < FileBytes
        OBVIOUS
      <4>5. out'[r] = Row(r)' /\ r \in 0 .. c.d - 1
        BY <3>2, Zenon
      <4>6. r \in Nat /\ r < c.d
        BY <1>1, <4>5
      <4>7. /\ b \in 0 .. c.row_bytes - 1
            /\ out'[r][b] = c.w_off + r * c.row_bytes + b
        BY <1>1, <4>5 DEF Row
      <4>8. c.w_off + r * c.row_bytes + b < FileBytes
        BY <1>1, <4>4, <4>6, <4>7, BytesInFile, Zenon
      <4>9. QED
        BY <4>7, <4>8, Zenon
    <3>3. QED
      BY <1>4, <3>1, <3>2, Zenon
  <2>4. QED
    BY <1>5, <2>2, <2>3, Zenon DEF RowsFromTheirWeights
<1>11. RefusedForCause'
  <2>1. pc' = "idle" /\ rc' \in {"IO", "TRUNCATED"} => c.w_off + c.row_bytes * c.d > FileBytes
    <3> DEFINE n == c.w_off + c.row_bytes * c.d
    <3>1. pc' = "idle" /\ rc' \in {"IO", "TRUNCATED"} => Offset(n) > FileBytes
      BY <1>4
    <3>2. n \in Nat
      BY <1>1
    <3> HIDE DEF n
    <3>3. Offset(n) \in Nat /\ Offset(n) <= n
      BY <3>2, OffsetOf
    <3>4. Offset(n) > FileBytes => n > FileBytes
      BY <3>2, <3>3, WeightStoreAssumption
    <3>5. QED
      BY <3>1, <3>4 DEF n
  <2>2. rc' = "NOMEM" => kind # "mapped" /\ TileBytes < c.row_bytes
    BY <1>4
  <2>3. rc' = "NOMEM" => kind' = "stream" /\ call'.row_bytes > TileBytes
    BY <2>2, <1>1, <1>3, WeightStoreAssumption DEF Inv, StoreTypeOK
  <2>4. QED
    BY <2>1, <2>3, <1>1 DEF RefusedForCause
<1>12. QED
  BY <1>6, <1>7, <1>8, <1>9, <1>10, <1>11 DEF Inv

\* The next rows are asked for: inside the file and the tile, or refused.
LEMMA ViewStep == ASSUME Inv, View PROVE Inv'
<1>1. /\ pc = "tiles" /\ i < call.d
      /\ kind' = kind /\ stream_open' = stream_open /\ tile' = tile
      /\ call' = call /\ i' = i /\ out' = out /\ chunk' = ChunkRows
  BY Zenon DEF View
<1>2. /\ call \in Call /\ i \in Nat /\ call.w_off \in Nat /\ call.row_bytes \in Nat /\ call.d \in Nat
      /\ 0 < call.row_bytes /\ call.row_bytes <= TileBytes /\ kind = "stream" /\ rc = "none"
      /\ at \in Nat /\ done \in Nat /\ InFile(i)
  BY <1>1, CallNumbers DEF Inv, StoreTypeOK, Halfway
<1>3. /\ ChunkRows \in Nat /\ 0 < ChunkRows /\ i + ChunkRows <= call.d
      /\ call.row_bytes * ChunkRows \in Nat /\ call.row_bytes * ChunkRows <= TileBytes
      /\ call.w_off + call.row_bytes * i \in Nat
      /\ call.row_bytes * i = i * call.row_bytes
      /\ call.w_off + call.row_bytes * i + call.row_bytes * ChunkRows
           <= call.w_off + call.row_bytes * call.d
      /\ call.row_bytes * i + call.row_bytes * ChunkRows = (i + ChunkRows) * call.row_bytes
  BY <1>1, <1>2, ChunkFits, Zenon
<1>4. \/ /\ \/ ~ (call.w_off + call.row_bytes * i + call.row_bytes * ChunkRows <= FileBytes)
            \/ ~ stream_open
         /\ rc' = "IO" /\ pc' = "idle" /\ at' = at /\ done' = done /\ broke' = broke
      \/ /\ rc' = "IO" /\ pc' = "idle" /\ at' = at /\ done' = done /\ broke' = TRUE
      \/ /\ call.w_off + call.row_bytes * i + call.row_bytes * ChunkRows <= FileBytes
         /\ at' = call.w_off + call.row_bytes * i /\ done' = 0 /\ pc' = "read"
         /\ rc' = rc /\ broke' = broke
  <2> DEFINE start == call.w_off + call.row_bytes * i
             want  == call.row_bytes * ChunkRows
             has   == /\ Offset(Offset(start) + want) <= FileBytes /\ want <= TileBytes
                      /\ stream_open /\ Offset(start) <= FileBytes
  <2>1. \/ /\ ~ has
           /\ rc' = "IO" /\ pc' = "idle" /\ at' = at /\ done' = done /\ broke' = broke
        \/ /\ has
           /\ rc' = "IO" /\ pc' = "idle" /\ at' = at /\ done' = done /\ broke' = TRUE
        \/ /\ has
           /\ at' = Offset(start) /\ done' = 0 /\ pc' = "read"
           /\ rc' = rc /\ broke' = broke
    BY Zenon DEF View, Return
  <2>2. /\ Offset(start) = start
        /\ Offset(start + want) <= FileBytes /\ start <= FileBytes <=> start + want <= FileBytes
    BY <1>2, <1>3, ChunkPlace
  <2>3. want <= TileBytes
    BY <1>3
  <2>4. has <=> start + want <= FileBytes /\ stream_open
    <3> HIDE DEF start, want
    <3>1. QED
      BY <2>2, <2>3, Zenon
  <2> HIDE DEF has
  <2>5. QED
    BY <2>1, <2>2, <2>4, Zenon
<1>5. \A r \in DOMAIN out' : out'[r] = IF r < i THEN Row(r)' ELSE Untouched
  <2>1. \A r : Row(r)' = Row(r)
    BY <1>1, Zenon DEF Row
  <2>2. QED
    BY <1>1, <2>1, Zenon DEF Inv, Halfway
<1>6. StoreTypeOK'
  <2>1. broke' \in BOOLEAN /\ stream_open' \in BOOLEAN
    BY <1>1, <1>4, Zenon DEF Inv, StoreTypeOK
  <2>2. /\ pc' \in {"idle", "tiles", "read"} /\ at' \in Nat /\ done' \in Nat
        /\ rc' \in {"none", "OK", "SHAPE", "TRUNCATED", "NOMEM", "IO"}
    BY <1>2, <1>3, <1>4
  <2>3. QED
    BY <1>1, <1>2, <1>3, <2>1, <2>2, Zenon DEF Inv, StoreTypeOK
<1>7. StreamsOnly'
  BY <1>1, Zenon DEF Inv, StreamsOnly
<1>8. Halfway'
  <2> SUFFICES ASSUME pc' # "idle" PROVE Halfway'
    BY DEF Halfway
  <2>1. pc' = "read" /\ rc' = "none"
    BY <1>2, <1>4
  <2>2. i' <= call'.d
    BY <1>1, <1>2
  <2>3. InFile(i)'
    BY <1>1, <1>2, Zenon DEF InFile
  <2>4. QED
    BY <1>1, <1>2, <1>5, <2>1, <2>2, <2>3, Zenon DEF Halfway
<1>9. Filling'
  <2> SUFFICES ASSUME pc' = "read" PROVE Filling'
    BY DEF Filling
  <2>1. at' = call.w_off + call.row_bytes * i /\ done' = 0
    BY <1>4
  <2>2. nbytes' = call.row_bytes * ChunkRows
    BY <1>1, Zenon DEF nbytes
  <2>3. nbytes' <= TileBytes /\ done' <= nbytes'
    BY <1>3, <2>1, <2>2
  <2>4. at' = call'.w_off + i' * call'.row_bytes + done'
    BY <1>1, <1>2, <1>3, <2>1
  <2>5. 0 .. done' - 1 = {}
    BY <2>1
  <2>6. InFile(i + chunk)'
    <3>1. call.w_off + call.row_bytes * i + call.row_bytes * ChunkRows <= FileBytes
      BY <1>4
    <3>2. call.w_off + (i + ChunkRows) * call.row_bytes <= FileBytes
      BY <1>2, <1>3, <3>1
    <3>3. QED
      BY <1>1, <3>2, Zenon DEF InFile
  <2>7. QED
    BY <1>1, <1>3, <2>3, <2>4, <2>5, <2>6 DEF Filling
<1>10. RowsFromTheirWeights'
  <2>1. DOMAIN out = 0 .. call.d - 1 /\ \A r \in DOMAIN out : out[r] = IF r < i THEN Row(r) ELSE Untouched
    BY <1>1 DEF Inv, StoreTypeOK, Halfway
  <2>2. \A r \in DOMAIN out : \A b \in DOMAIN out[r] : out[r][b] < FileBytes
    BY <1>2, <2>1, OutInFile, Zenon
  <2>3. \A r \in DOMAIN out' : out'[r] \in {Untouched, Row(r)'}
    BY <1>5, Zenon
  <2>4. ~ (rc' = "OK" /\ pc' = "idle")
    BY <1>2, <1>4
  <2>5. QED
    BY <1>1, <2>2, <2>3, <2>4, Zenon DEF RowsFromTheirWeights
<1>11. RefusedForCause'
  <2>1. pc' = "idle" /\ ~ broke' => \/ call.w_off + call.row_bytes * i + call.row_bytes * ChunkRows > FileBytes
                           \/ ~ stream_open
    BY <1>3, <1>4, WeightStoreAssumption
  <2>2. call.row_bytes * call.d \in Nat
    BY <1>2
  <2>3. pc' = "idle" /\ ~ broke' => call.w_off + call.row_bytes * call.d > FileBytes \/ ~ stream_open
    BY <1>2, <1>3, <2>1, <2>2, WeightStoreAssumption
  <2>4. rc' # "NOMEM"
    BY <1>2, <1>4
  <2>5. QED
    BY <1>1, <1>2, <2>3, <2>4, Zenon DEF RefusedForCause
<1>12. QED
  BY <1>6, <1>7, <1>8, <1>9, <1>10, <1>11 DEF Inv

\* A read of the card lands behind what the tile already holds.
LEMMA FsReadStep == ASSUME Inv, FsRead PROVE Inv'
<1>1. /\ pc = "read" /\ done < nbytes
      /\ kind' = kind /\ stream_open' = stream_open /\ call' = call
      /\ i' = i /\ chunk' = chunk /\ out' = out
  BY Zenon DEF FsRead
<1>2. /\ call \in Call /\ i \in Nat /\ call.w_off \in Nat /\ call.row_bytes \in Nat /\ call.d \in Nat
      /\ at \in Nat /\ done \in Nat /\ chunk \in Nat /\ kind = "stream" /\ rc = "none"
      /\ tile \in [0 .. TileBytes - 1 -> Int]
  BY <1>1, CallNumbers DEF Inv, StoreTypeOK, Halfway
<1>3. nbytes' = nbytes /\ nbytes \in Nat /\ i * call.row_bytes \in Nat
  BY <1>1, <1>2 DEF nbytes
<1>4. /\ nbytes <= TileBytes /\ at = call.w_off + i * call.row_bytes + done
      /\ \A b \in 0 .. done - 1 : tile[b] = call.w_off + i * call.row_bytes + b
  BY <1>1 DEF Inv, Filling
<1>5. /\ \A r : Row(r)' = Row(r)
      /\ InFile(i)' = InFile(i) /\ InFile(i + chunk)' = InFile(i + chunk)
  BY <1>1, Zenon DEF Row, InFile
<1>6. CASE /\ rc' = "IO" /\ pc' = "idle" /\ broke' = TRUE
           /\ tile' = tile /\ done' = done /\ at' = at
  <2>1. StoreTypeOK' /\ StreamsOnly'
    BY <1>1, <1>6 DEF Inv, StoreTypeOK, StreamsOnly
  <2>2. Halfway' /\ Filling' /\ RefusedForCause'
    BY <1>6 DEF Halfway, Filling, RefusedForCause
  <2>3. RowsFromTheirWeights'
    BY <1>1, <1>5, <1>6 DEF Inv, RowsFromTheirWeights
  <2>4. QED
    BY <2>1, <2>2, <2>3 DEF Inv
<1>7. CASE \E got \in 1 .. (IF nbytes - done < STAGE_BYTES THEN nbytes - done ELSE STAGE_BYTES) :
             /\ tile' = [b \in DOMAIN tile |->
                           IF done <= b /\ b < done + got THEN at + b - done ELSE tile[b]]
             /\ done' = done + got /\ at' = at + got
             /\ UNCHANGED <<pc, rc, broke>>
  <2>1. PICK got \in 1 .. (IF nbytes - done < STAGE_BYTES THEN nbytes - done ELSE STAGE_BYTES) :
             /\ tile' = [b \in DOMAIN tile |->
                           IF done <= b /\ b < done + got THEN at + b - done ELSE tile[b]]
             /\ done' = done + got /\ at' = at + got
             /\ UNCHANGED <<pc, rc, broke>>
    BY <1>7
  <2>2. got \in Nat /\ 0 < got /\ done + got <= nbytes
    BY <1>1, <1>2, <1>3, WeightStoreAssumption
  <2>3. DOMAIN tile = 0 .. TileBytes - 1
    BY <1>2
  <2>4. tile' \in [0 .. TileBytes - 1 -> Int]
    BY <1>2, <2>1, <2>2, <2>3
  <2>5. done' \in Nat /\ at' \in Nat
    BY <1>2, <2>1, <2>2
  <2>6. broke' = broke /\ rc' = rc /\ pc' = pc
    BY <2>1
  <2>7. StoreTypeOK'
    BY <1>1, <2>4, <2>5, <2>6, Zenon DEF Inv, StoreTypeOK
  <2>8. StreamsOnly'
    BY <1>1, Zenon DEF Inv, StreamsOnly
  <2>9. Halfway'
    BY <1>1, <1>5, <2>6, Zenon DEF Inv, Halfway
  <2>10. \A b \in 0 .. done' - 1 : tile'[b] = call.w_off + i * call.row_bytes + b
    <3> SUFFICES ASSUME NEW b \in 0 .. done' - 1
                 PROVE  tile'[b] = call.w_off + i * call.row_bytes + b
      OBVIOUS
    <3>1. b \in Nat /\ b < done + got /\ b \in 0 .. TileBytes - 1
      BY <1>2, <1>3, <1>4, <2>1, <2>2, WeightStoreAssumption
    <3>2. tile'[b] = IF done <= b /\ b < done + got THEN at + b - done ELSE tile[b]
      BY <2>1, <2>3, <3>1
    <3>3. CASE done <= b
      BY <1>2, <1>3, <1>4, <3>1, <3>2, <3>3, SMTT(30)
    <3>4. CASE b < done
      BY <1>2, <1>4, <3>1, <3>2, <3>4
    <3>5. QED
      BY <1>2, <3>1, <3>3, <3>4
  <2>11. at' = call.w_off + i * call.row_bytes + done' /\ done' <= nbytes
    BY <1>2, <1>3, <1>4, <2>1, <2>2, SMTT(30)
  <2>12. Filling'
    BY <1>1, <1>3, <1>4, <1>5, <2>6, <2>10, <2>11 DEF Inv, Filling
  <2>13. RowsFromTheirWeights'
    BY <1>1, <1>5, <2>6, Zenon DEF Inv, RowsFromTheirWeights
  <2>14. RefusedForCause'
    BY <1>1, <2>6, Zenon DEF Inv, RefusedForCause
  <2>15. QED
    BY <2>7, <2>8, <2>9, <2>12, <2>13, <2>14 DEF Inv
<1>8. QED
  BY <1>6, <1>7, Zenon DEF FsRead, Return

\* The rows of a full tile are computed, each from its own slot of the tile.
LEMMA RowsStep == ASSUME Inv, Rows PROVE Inv'
<1>1. /\ pc = "read" /\ done >= nbytes /\ pc' = "tiles" /\ i' = i + chunk
      /\ kind' = kind /\ stream_open' = stream_open /\ tile' = tile /\ call' = call
      /\ chunk' = chunk /\ at' = at /\ done' = done /\ rc' = rc /\ broke' = broke
  BY Zenon DEF Rows
<1>2. /\ call \in Call /\ i \in Nat /\ call.w_off \in Nat /\ call.row_bytes \in Nat /\ call.d \in Nat
      /\ done \in Nat /\ chunk \in Nat /\ kind = "stream" /\ rc = "none"
      /\ DOMAIN out = 0 .. call.d - 1
  BY <1>1, CallNumbers DEF Inv, StoreTypeOK, Halfway
<1>3. /\ i + chunk <= call.d /\ done <= nbytes /\ InFile(i + chunk)
      /\ \A b \in 0 .. done - 1 : tile[b] = call.w_off + i * call.row_bytes + b
  BY <1>1 DEF Inv, Filling
<1>4. done = call.row_bytes * chunk
  <2>1. nbytes \in Nat
    BY <1>2 DEF nbytes
  <2>2. done = nbytes
    BY <1>1, <1>2, <1>3, <2>1
  <2>3. QED
    BY <2>2 DEF nbytes
<1>5. \A r : Row(r)' = Row(r)
  BY <1>1, Zenon DEF Row
<1>6. \A r \in DOMAIN out : i <= r /\ r < i + chunk =>
         [b \in 0 .. call.row_bytes - 1 |-> tile[(r - i) * call.row_bytes + b]] = Row(r)
  <2> SUFFICES ASSUME NEW r \in DOMAIN out, i <= r, r < i + chunk
               PROVE  \A b \in 0 .. call.row_bytes - 1 :
                          tile[(r - i) * call.row_bytes + b] = call.w_off + r * call.row_bytes + b
    BY Zenon DEF Row
  <2> TAKE b \in 0 .. call.row_bytes - 1
  <2>1. /\ call.w_off \in Nat /\ call.row_bytes \in Nat /\ i \in Nat /\ chunk \in Nat
        /\ r \in Nat /\ b \in Nat /\ i <= r /\ r < i + chunk /\ b < call.row_bytes
    BY <1>2
  <2>2. /\ (r - i) * call.row_bytes + b \in 0 .. call.row_bytes * chunk - 1
        /\ call.w_off + i * call.row_bytes + ((r - i) * call.row_bytes + b)
              = call.w_off + r * call.row_bytes + b
    BY <1>2, <2>1, Slot, Zenon
  <2>3. QED
    BY <1>3, <1>4, <2>2, Zenon
<1>7. \A r \in DOMAIN out : out[r] = IF r < i THEN Row(r) ELSE Untouched
  BY <1>1 DEF Inv, Halfway
<1>8. DOMAIN out' = DOMAIN out
  BY Zenon DEF Rows
<1>9. \A r \in DOMAIN out' : out'[r] = IF r < i' THEN Row(r)' ELSE Untouched
  <2> SUFFICES ASSUME NEW r \in DOMAIN out
               PROVE  out'[r] = IF r < i + chunk THEN Row(r) ELSE Untouched
    BY <1>1, <1>5, <1>8, Zenon
  <2>1. out'[r] = IF i <= r /\ r < i + chunk
                  THEN [b \in 0 .. call.row_bytes - 1 |-> tile[(r - i) * call.row_bytes + b]]
                  ELSE out[r]
    BY Zenon DEF Rows
  <2>2. CASE i <= r /\ r < i + chunk
    BY <1>6, <2>1, <2>2, Zenon
  <2>3. CASE r < i
    <3>1. ~ (i <= r) /\ r < i + chunk
      BY <1>2, <2>3
    <3>2. QED
      BY <1>7, <2>1, <2>3, <3>1, Zenon
  <2>4. CASE ~ (r < i + chunk)
    <3>1. ~ (r < i)
      BY <1>2, <2>4
    <3>2. QED
      BY <1>7, <2>1, <2>4, <3>1, Zenon
  <2>5. QED
    BY <1>2, <2>2, <2>3, <2>4
<1>10. StoreTypeOK' /\ StreamsOnly'
  <2>1. i' \in Nat
    BY <1>1, <1>2
  <2>2. pc' \in {"idle", "tiles", "read"}
    BY <1>1
  <2>3. QED
    BY <1>1, <1>8, <2>1, <2>2, Zenon DEF Inv, StoreTypeOK, StreamsOnly
<1>11. Halfway'
  <2>1. i' <= call'.d
    BY <1>1, <1>3
  <2>2. /\ kind = "stream" /\ rc = "none"
        /\ 0 < call.row_bytes /\ call.row_bytes <= TileBytes
    BY <1>1 DEF Inv, Halfway
  <2>3. InFile(i)'
    BY <1>1, <1>3, Zenon DEF InFile
  <2>4. QED
    BY <1>1, <1>9, <2>1, <2>2, <2>3, Zenon DEF Halfway
<1>12. Filling'
  BY <1>1 DEF Filling
<1>13. RowsFromTheirWeights'
  <2>1. \A r \in DOMAIN out' : out'[r] \in {Untouched, Row(r)'}
    BY <1>9, Zenon
  <2>2. ~ (pc' = "idle")
    BY <1>1
  <2>3. i + chunk \in Nat /\ DOMAIN out' = 0 .. call.d - 1
    BY <1>2, <1>8
  <2>4. \A r \in DOMAIN out' : out'[r] = IF r < i + chunk THEN Row(r) ELSE Untouched
    BY <1>1, <1>5, <1>9, Zenon
  <2>5. \A r \in DOMAIN out' : \A b \in DOMAIN out'[r] : out'[r][b] < FileBytes
    BY <1>2, <1>3, <2>3, <2>4, OutInFile, Zenon
  <2>6. QED
    BY <2>1, <2>2, <2>5, Zenon DEF RowsFromTheirWeights
<1>14. RefusedForCause'
  BY <1>1, <1>2 DEF RefusedForCause
<1>15. QED
  BY <1>10, <1>11, <1>12, <1>13, <1>14 DEF Inv

\* The loop ends only when no row is left.
LEMMA LoopDoneStep == ASSUME Inv, LoopDone PROVE Inv'
<1>1. /\ pc = "tiles" /\ i >= call.d /\ pc' = "idle" /\ rc' = "OK"
      /\ kind' = kind /\ stream_open' = stream_open /\ tile' = tile /\ call' = call /\ i' = i
      /\ chunk' = chunk /\ at' = at /\ done' = done /\ out' = out /\ broke' = broke
  BY Zenon DEF LoopDone, Return, loopVars
<1>2. StoreTypeOK' /\ StreamsOnly'
  BY <1>1 DEF Inv, StoreTypeOK, StreamsOnly
<1>3. Halfway' /\ Filling'
  BY <1>1 DEF Halfway, Filling
<1>4. RowsFromTheirWeights'
  <2>1. call.d \in Nat /\ i \in Nat /\ DOMAIN out = 0 .. call.d - 1
    BY CallNumbers DEF Inv, StoreTypeOK
  <2>2. \A r \in DOMAIN out : r < i
    BY <1>1, <2>1
  <2>3. \A r \in DOMAIN out : out[r] = IF r < i THEN Row(r) ELSE Untouched
    BY <1>1 DEF Inv, Halfway
  <2>4. \A r : Row(r)' = Row(r)
    BY <1>1, Zenon DEF Row
  <2>5. \A r \in DOMAIN out : \A b \in DOMAIN out[r] : out[r][b] < FileBytes
    BY <1>1 DEF Inv, RowsFromTheirWeights, Halfway
  <2>6. QED
    BY <1>1, <2>2, <2>3, <2>4, <2>5, Zenon DEF RowsFromTheirWeights
<1>5. RefusedForCause'
  BY <1>1 DEF RefusedForCause
<1>6. QED
  BY <1>2, <1>3, <1>4, <1>5 DEF Inv

\* Closing the stream between two calls changes nothing a finished call shows.
LEMMA CloseStep == ASSUME Inv, Close PROVE Inv'
<1>1. /\ pc = "idle" /\ stream_open /\ stream_open' = FALSE
      /\ kind' = kind /\ tile' = tile /\ call' = call /\ pc' = pc /\ i' = i
      /\ chunk' = chunk /\ at' = at /\ done' = done /\ out' = out /\ rc' = rc /\ broke' = broke
  BY Zenon DEF Close, loopVars
<1>2. \A r : Row(r)' = Row(r)
  BY <1>1, Zenon DEF Row
<1>3. StoreTypeOK' /\ StreamsOnly'
  BY <1>1, Zenon DEF Inv, StoreTypeOK, StreamsOnly
<1>4. Halfway' /\ Filling'
  BY <1>1 DEF Halfway, Filling
<1>5. RowsFromTheirWeights'
  BY <1>1, <1>2, Zenon DEF Inv, RowsFromTheirWeights
<1>6. RefusedForCause'
  <2>1. kind = "stream"
    BY <1>1 DEF Inv, StoreTypeOK, StreamsOnly
  <2>2. QED
    BY <1>1, <2>1, Zenon DEF Inv, RefusedForCause
<1>7. QED
  BY <1>3, <1>4, <1>5, <1>6 DEF Inv

\* Every step of a call, and the closing of the stream, keeps the invariant.
LEMMA NextInv == Inv /\ [Next]_vars => Inv'
<1> SUFFICES ASSUME Inv, [Next]_vars PROVE Inv'
  OBVIOUS
<1>1. CASE UNCHANGED vars
  <2>1. \A r : Row(r)' = Row(r)
    BY <1>1, Zenon DEF vars, Row
  <2>2. nbytes' = nbytes /\ InFile(i)' = InFile(i) /\ InFile(i + chunk)' = InFile(i + chunk)
    BY <1>1, Zenon DEF vars, nbytes, InFile
  <2>3. StoreTypeOK' /\ StreamsOnly'
    BY <1>1, Zenon DEF vars, Inv, StoreTypeOK, StreamsOnly
  <2>4. Halfway' /\ Filling'
    BY <1>1, <2>1, <2>2, Zenon DEF vars, Inv, Halfway, Filling
  <2>5. RowsFromTheirWeights' /\ RefusedForCause'
    BY <1>1, <2>1, Zenon DEF vars, Inv, RowsFromTheirWeights, RefusedForCause
  <2>6. QED
    BY <2>3, <2>4, <2>5 DEF Inv
<1>2. CASE Next
  BY <1>2, MatvecStep, ViewStep, FsReadStep, RowsStep, LoopDoneStep, CloseStep DEF Next, Step
<1>3. QED
  BY <1>1, <1>2

-----------------------------------------------------------------------------

\* tq_matvec computes every row from its own weights, whole and in order,
\* over a mapped file and over the card, with a tile and a staging buffer of
\* any size: short reads, a tile full of another call's rows and a call that
\* broke off before never show in a row, TQ_OK means every row was done, and no
\* row is made of bytes outside the file, however large the offsets, unless a
\* mapped matrix wraps around the last one.
THEOREM RowsAlwaysTheirs == Spec => []RowsFromTheirWeights
<1>1. Inv => RowsFromTheirWeights
  BY DEF Inv
<1>2. QED
  BY <1>1, InitInv, NextInv, PTL DEF Spec

\* tq_matvec refuses a matrix that lies inside the file only for a row longer
\* than the tile, a stream that was closed, or a card that failed: splitting
\* the rows into tiles never asks for a byte outside the matrix.
THEOREM RefusalsHaveCause == Spec => []RefusedForCause
<1>1. Inv => RefusedForCause
  BY DEF Inv
<1>2. QED
  BY <1>1, InitInv, NextInv, PTL DEF Spec
=============================================================================
