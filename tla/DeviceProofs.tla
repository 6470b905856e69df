---------------------------- MODULE DeviceProofs ----------------------------
(***************************************************************************)
(* Proofs about the firmware.                                              *)
(*                                                                         *)
(* The session, for every set of model files, every capacity of PSRAM and  *)
(* every alignment.  g_loaded is a promise about everything finish_open    *)
(* left behind.  What each command has to preserve, or withdraw the flag,  *)
(* is that the runtime is laid out behind the weights of the store's own   *)
(* file and that the whole passed the fit check against the memory there   *)
(* is now.                                                                 *)
(*                                                                         *)
(* The memory test and the clock sweep, for any word size, any number of   *)
(* data and address lines, any clocks in any order and any board.          *)
(***************************************************************************)
EXTENDS Firmware, PsramSweep, FiniteSetTheorems, TLAPS

\* The runtime is the one finish_open lays out for the store, and it fits.
Kept ==
    loaded =>
        /\ store.kind \in {"mapped", "stream"} /\ store.file \in Files
        /\ rt = Layout(store.file, store.kind, rt.seq, rt.kv8)
        /\ ~ swept => Fits(store.file, store.kind, rt.seq, rt.kv8)

Inv == TypeOK /\ Kept /\ Coherent /\ WeightsIntact
-----------------------------------------------------------------------------
(* The layout. *)

\* psram_alloc's padding is less than the alignment.
LEMMA AlignUpBounds ==
    ASSUME NEW n \in Nat
    PROVE  AlignUp(n) \in Nat /\ n <= AlignUp(n) /\ AlignUp(n) <= n + Align - 1
<1> DEFINE m == n + Align - 1
           q == m \div Align
<1>1. Align \in Nat /\ Align > 0 /\ m \in Nat /\ m = n + Align - 1
  BY FirmwareAssumption
<1> HIDE DEF m
<1>2. q \in Nat /\ Align * q <= m /\ m < Align * (q + 1)
  BY <1>1
<1> HIDE DEF q
<1>3. Align * (q + 1) = Align * q + Align /\ Align * q = q * Align /\ q * Align \in Nat
  BY <1>1, <1>2
<1>4. q * Align \in Nat /\ n <= q * Align /\ q * Align <= m
  BY <1>1, <1>2, <1>3
<1>5. AlignUp(n) = q * Align
  BY DEF AlignUp, m, q
<1>6. QED
  BY <1>1, <1>4, <1>5

\* What finish_open computes with: sizes are natural numbers.
LEMMA SizesTyped ==
    ASSUME NEW f \in Files, NEW kind, NEW seq \in Nat, NEW kv8 \in BOOLEAN
    PROVE  /\ KvBytes(f, seq, kv8) \in Nat /\ ScratchBytes(f) \in Nat
           /\ Size[f] \in Nat /\ (IF kind = "mapped" THEN Size[f] ELSE 0) \in Nat
<1>1. Size[f] \in Nat /\ KvRow[f] \in Nat /\ VocabSize[f] \in Nat
  BY FirmwareAssumption
<1>2. seq * KvRow[f] \in Nat
  BY <1>1
<1>3. KvBytes(f, seq, kv8) \in Nat
  <2>1. CASE kv8
    BY <1>2, <2>1 DEF KvBytes
  <2>2. CASE ~ kv8
    BY <1>2, <2>2 DEF KvBytes
  <2>3. QED
    BY <2>1, <2>2
<1>4. QED
  BY <1>1, <1>3 DEF ScratchBytes

\* Where the KV cache and the scratch buffer of a layout are.
LEMMA LayoutBounds ==
    ASSUME NEW f \in Files, NEW kind, NEW seq \in Nat, NEW kv8 \in BOOLEAN,
           NEW w, w = IF kind = "mapped" THEN Size[f] ELSE 0,
           NEW r, r = Layout(f, kind, seq, kv8)
    PROVE  /\ r.file = f /\ r.seq = seq /\ r.kv8 = kv8 /\ r.kv \in Nat /\ r.scratch \in Nat
           /\ w <= r.kv /\ r.kv <= w + Align - 1
           /\ r.kv + KvBytes(f, seq, kv8) <= r.scratch
           /\ r.scratch <= r.kv + KvBytes(f, seq, kv8) + Align - 1
<1> DEFINE k == KvBytes(f, seq, kv8)
           a == AlignUp(w)
<1>1. w \in Nat /\ k \in Nat
  BY SizesTyped, Zenon
<1>2. r = [file |-> f, seq |-> seq, kv8 |-> kv8, kv |-> a, scratch |-> AlignUp(a + k)]
  BY Zenon DEF Layout
<1> HIDE DEF k
<1>3. a \in Nat /\ w <= a /\ a <= w + Align - 1
  BY <1>1, AlignUpBounds
<1> HIDE DEF a
<1>4. a + k \in Nat
  BY <1>1, <1>3
<1>5. AlignUp(a + k) \in Nat /\ a + k <= AlignUp(a + k) /\ AlignUp(a + k) <= a + k + Align - 1
  BY <1>4, AlignUpBounds
<1>6. /\ r.file = f /\ r.seq = seq /\ r.kv8 = kv8 /\ r.kv = a /\ r.scratch = AlignUp(a + k)
  BY <1>2
<1>7. QED
  BY <1>3, <1>5, <1>6, Zenon DEF k

\* A layout is a runtime.
LEMMA LayoutTyped ==
    ASSUME NEW f \in Files, NEW kind, NEW seq \in Nat, NEW kv8 \in BOOLEAN
    PROVE  Layout(f, kind, seq, kv8) \in
             [file : Files \cup {NoFile}, seq : Nat, kv8 : BOOLEAN, kv : Nat, scratch : Nat]
<1> DEFINE r == Layout(f, kind, seq, kv8)
<1>1. r.kv \in Nat /\ r.scratch \in Nat
  BY LayoutBounds, Zenon
<1>2. QED
  BY <1>1 DEF Layout

\* The context a load ends up with.
LEMMA ClampTyped == ASSUME NEW f \in Files, NEW c \in Contexts PROVE Clamp(f, c) \in Nat
  BY FirmwareAssumption DEF Clamp

\* Between what is kept: no two regions share a byte, and the layout leaves the
\* array by the paddings and the token buffer at most.
LEMMA KeptIsSound == TypeOK /\ Kept => LayoutSound
<1> SUFFICES ASSUME TypeOK, Kept, loaded PROVE LayoutSound
  BY DEF LayoutSound
<1> DEFINE f == store.file
           seq == rt.seq
           w == IF store.kind = "mapped" THEN Size[f] ELSE 0
           k == KvBytes(f, seq, rt.kv8)
           n == ScratchBytes(f)
<1>1. f \in Files /\ seq \in Nat /\ rt.kv8 \in BOOLEAN
  BY DEF TypeOK, Kept
<1>2. /\ rt = Layout(f, store.kind, seq, rt.kv8)
      /\ ~ swept => Fits(f, store.kind, seq, rt.kv8)
  BY Zenon DEF Kept
<1>3. /\ rt.file = f /\ rt.kv \in Nat /\ rt.scratch \in Nat
      /\ w <= rt.kv /\ rt.kv <= w + Align - 1
      /\ rt.kv + k <= rt.scratch /\ rt.scratch <= rt.kv + k + Align - 1
  <2>1. w = IF store.kind = "mapped" THEN Size[f] ELSE 0
    OBVIOUS
  <2> HIDE DEF f, seq, w
  <2>2. QED
    BY <1>1, <1>2, <2>1, LayoutBounds, SMTT(30)
<1>4. w \in Nat /\ k \in Nat /\ n \in Nat /\ Align \in Nat /\ Align > 0 /\ mbytes \in Nat
  <2>1. w \in Nat /\ k \in Nat /\ n \in Nat
    BY <1>1, SizesTyped, Zenon
  <2>2. Align \in Nat /\ Align > 0 /\ mbytes \in Nat
    BY FirmwareAssumption DEF TypeOK
  <2>3. QED
    BY <2>1, <2>2
<1>5. ~ swept => w + k + n <= mbytes
  BY <1>2, Zenon DEF Fits
<1>6. WeightCells \subseteq Region(0, w)
  BY DEF WeightCells
<1>7. KvCells = Region(rt.kv, k) /\ ScratchCells = Region(rt.scratch, n)
      /\ TokenCells = Region(rt.scratch + n, seq)
  BY <1>3 DEF KvCells, ScratchCells, TokenCells
<1> HIDE DEF f, seq, w, k, n
<1>8. /\ \A c \in Region(0, w) : c \in Int /\ c < w
      /\ \A c \in KvCells : c \in Int /\ rt.kv <= c /\ c < rt.kv + k
      /\ \A c \in ScratchCells : c \in Int /\ rt.scratch <= c /\ c < rt.scratch + n
      /\ \A c \in TokenCells : c \in Int /\ rt.scratch + n <= c /\ c < rt.scratch + n + seq
  BY <1>4, <1>7 DEF Region, Cells
<1>9. WeightCells \cap (KvCells \cup ScratchCells \cup TokenCells) = {}
  BY <1>3, <1>4, <1>6, <1>8
<1>10. KvCells \cap (ScratchCells \cup TokenCells) = {} /\ ScratchCells \cap TokenCells = {}
  BY <1>3, <1>4, <1>8
<1>11. ~ swept => \A c \in KvCells \cup ScratchCells \cup TokenCells :
                    c < mbytes + 2 * (Align - 1) + seq
  BY <1>1, <1>3, <1>4, <1>5, <1>8 DEF seq
<1>12. QED
  BY <1>9, <1>10, <1>11, Zenon DEF LayoutSound, seq
-----------------------------------------------------------------------------
(* The invariant, command by command. *)

\* Power-up: nothing is loaded.
LEMMA InitInv == Init => Inv
<1> SUFFICES ASSUME Init PROVE Inv
  OBVIOUS
<1>1. /\ rt \in [file : Files \cup {NoFile}, seq : Nat, kv8 : BOOLEAN, kv : Nat, scratch : Nat]
      /\ store \in [kind : {"none", "mapped", "stream"}, file : Files \cup {NoFile}]
  BY DEF Init, NoRt, NoStore
<1>2. mem \in [Cells -> Files \cup {NoFile}]
  BY DEF Init
<1>3. TypeOK
  BY <1>1, <1>2, Zenon DEF Init, TypeOK
<1>4. Kept /\ Coherent /\ WeightsIntact
  BY Zenon DEF Init, Kept, Coherent, WeightsIntact
<1>5. QED
  BY <1>3, <1>4 DEF Inv

\* A command that withdraws g_loaded owes nothing to the model.
LEMMA Unloaded == ASSUME TypeOK', loaded' = FALSE PROVE Inv'
  BY Zenon DEF Inv, Kept, Coherent, WeightsIntact

\* A step that leaves the session alone keeps what it promises.
LEMMA SessionSame ==
    ASSUME Inv, UNCHANGED vars PROVE Kept' /\ Coherent' /\ WeightsIntact'
<1>1. /\ mbytes' = mbytes /\ mem' = mem /\ stream' = stream /\ store' = store /\ model' = model
      /\ rt' = rt /\ tok' = tok /\ loaded' = loaded /\ swept' = swept
  BY Zenon DEF vars
<1>2. WeightCells' = WeightCells
  BY <1>1, Zenon DEF WeightCells
<1>3. Fits(store.file, store.kind, rt.seq, rt.kv8)' = Fits(store.file, store.kind, rt.seq, rt.kv8)
  BY <1>1, Zenon DEF Fits
<1>4. QED
  BY <1>1, <1>2, <1>3, Zenon DEF Inv, Kept, Coherent, WeightsIntact

\* A stray write leaves cells that hold a file's bytes or none.
LEMMA Scribbled ==
    ASSUME TypeOK, NEW cells PROVE Scribble(cells) \in [Cells -> Files \cup {NoFile}]
  BY DEF TypeOK, Scribble

\* A write that misses the weights keeps the promise.
LEMMA ScribbleBeside ==
    ASSUME Inv, NEW cells, mem' = Scribble(cells),
           WeightCells \cap cells = {},
           UNCHANGED <<mbytes, mounted, stream, store, model, rt, tok, loaded, swept>>
    PROVE  Inv'
<1>1. /\ mbytes' = mbytes /\ stream' = stream /\ store' = store /\ model' = model
      /\ rt' = rt /\ tok' = tok /\ loaded' = loaded /\ swept' = swept /\ mounted' = mounted
  OBVIOUS
<1>2. WeightCells' = WeightCells
  BY <1>1, Zenon DEF WeightCells
<1>3. Fits(store.file, store.kind, rt.seq, rt.kv8)' = Fits(store.file, store.kind, rt.seq, rt.kv8)
  BY <1>1, Zenon DEF Fits
<1>4. mem' \in [Cells -> Files \cup {NoFile}]
  BY Scribbled, Zenon DEF Inv
<1>5. TypeOK'
  BY <1>1, <1>4, Zenon DEF Inv, TypeOK
<1>6. \A c \in WeightCells : mem'[c] = mem[c]
  <2>1. WeightCells \subseteq Cells
    BY DEF WeightCells, Region
  <2>2. QED
    BY <2>1, Zenon DEF Scribble
<1>7. WeightsIntact'
  <2> SUFFICES ASSUME loaded', ~ swept', NEW c \in WeightCells
               PROVE  c < mbytes' /\ mem'[c] = store'.file
    BY <1>2, Zenon DEF WeightsIntact
  <2>1. loaded /\ ~ swept
    BY <1>1
  <2>2. c < mbytes /\ mem[c] = store.file
    BY <2>1, Zenon DEF Inv, WeightsIntact
  <2>3. QED
    BY <1>1, <1>6, <2>2, Zenon
<1>8. Kept'
  BY <1>1, <1>3 DEF Inv, Kept
<1>9. Coherent'
  BY <1>1 DEF Inv, Coherent
<1>10. QED
  BY <1>5, <1>7, <1>8, <1>9 DEF Inv

\* psram sweep, test and bench: g_loaded is withdrawn, or the sweep noted.
LEMMA PsramStep ==
    ASSUME Inv, SweepSettles \/ SweepFails \/ MemTest \/ Bench
    PROVE  Inv'
<1>1. CASE SweepSettles
  <2>1. /\ mbytes' \in PsramSizes /\ mem' \in [Cells -> Files \cup {NoFile}]
        /\ loaded' = FALSE /\ swept' = FALSE
        /\ UNCHANGED <<mounted, stream, store, model, rt, tok>>
    BY <1>1, Scribbled, Zenon DEF Inv, SweepSettles
  <2>2. TypeOK'
    BY <2>1, Zenon DEF Inv, TypeOK
  <2>3. QED
    BY <2>1, <2>2, Unloaded
<1>2. CASE SweepFails
  <2>1. /\ mbytes' \in PsramSizes /\ mem' \in [Cells -> Files \cup {NoFile}] /\ swept' = loaded
        /\ UNCHANGED <<mounted, stream, store, model, rt, tok, loaded>>
    BY <1>2, Scribbled, Zenon DEF Inv, SweepFails
  <2>2. TypeOK'
    BY <2>1, Zenon DEF Inv, TypeOK
  <2>3. Kept' /\ Coherent' /\ WeightsIntact'
    BY <2>1, Zenon DEF Inv, Kept, Coherent, WeightsIntact
  <2>4. QED
    BY <2>2, <2>3 DEF Inv
<1>3. CASE MemTest
  <2>1. CASE UNCHANGED vars
    <3>1. TypeOK'
      BY <2>1, ZenonT(40) DEF Inv, vars, TypeOK
    <3>2. QED
      BY <2>1, <3>1, SessionSame DEF Inv
  <2>2. CASE /\ mem' = Scribble(Region(0, mbytes)) /\ loaded' = FALSE /\ swept' = FALSE
             /\ UNCHANGED <<mbytes, mounted, stream, store, model, rt, tok>>
    <3>1. mem' \in [Cells -> Files \cup {NoFile}]
      BY <2>2, Scribbled, Zenon DEF Inv
    <3>2. TypeOK'
      BY <2>2, <3>1, Zenon DEF Inv, TypeOK
    <3>3. QED
      BY <2>2, <3>2, Unloaded
  <2>3. QED
    BY <1>3, <2>1, <2>2, Zenon DEF MemTest
<1>4. CASE Bench
  <2>1. /\ mem' \in [Cells -> Files \cup {NoFile}] /\ loaded' = FALSE /\ swept' = FALSE
        /\ UNCHANGED <<mbytes, mounted, stream, store, model, rt, tok>>
    BY <1>4, Scribbled, Zenon DEF Inv, Bench
  <2>2. TypeOK'
    BY <2>1, Zenon DEF Inv, TypeOK
  <2>3. QED
    BY <2>1, <2>2, Unloaded
<1>5. QED
  BY <1>1, <1>2, <1>3, <1>4

\* gen and sem write their own regions, which the layout keeps off the weights.
LEMMA UseStep == ASSUME Inv, Gen \/ Sem PROVE Inv'
<1>1. CASE UNCHANGED vars
  <2>1. TypeOK'
    BY <1>1, ZenonT(40) DEF Inv, vars, TypeOK
  <2>2. QED
    BY <1>1, <2>1, SessionSame DEF Inv
<1>2. CASE ~ UNCHANGED vars
  <2>1. loaded
    BY <1>2, Zenon DEF Gen, Sem
  <2>2. WeightCells \cap (KvCells \cup ScratchCells \cup TokenCells) = {}
    BY <2>1, KeptIsSound, Zenon DEF Inv, LayoutSound
  <2>3. CASE Gen
    <3>1. PICK kv \in SUBSET {KvCells} :
             mem' = Scribble(TokenCells \cup ScratchCells \cup UNION kv)
      BY <1>2, <2>3, Zenon DEF Gen
    <3>2. WeightCells \cap (TokenCells \cup ScratchCells \cup UNION kv) = {}
      BY <2>2, <3>1
    <3>3. UNCHANGED <<mbytes, mounted, stream, store, model, rt, tok, loaded, swept>>
      BY <1>2, <2>3, Zenon DEF Gen
    <3>4. QED
      BY <3>1, <3>2, <3>3, ScribbleBeside
  <2>4. CASE Sem
    <3>1. /\ mem' = Scribble(KvCells)
          /\ UNCHANGED <<mbytes, mounted, stream, store, model, rt, tok, loaded, swept>>
      BY <1>2, <2>4, Zenon DEF Sem
    <3>2. WeightCells \cap KvCells = {}
      BY <2>2
    <3>3. QED
      BY <3>1, <3>2, ScribbleBeside
  <2>5. QED
    BY <2>3, <2>4
<1>3. QED
  BY <1>1, <1>2

\* finish_open on the store its caller has just made: the runtime is laid out
\* behind the weights and fits, or nothing counts as loaded.
LEMMA FinishOpenStep ==
    ASSUME TypeOK, NEW f \in Files, NEW kind \in {"mapped", "stream"}, NEW c \in Contexts,
           NEW kv8 \in BOOLEAN, FinishOpen(f, kind, c, kv8), mbytes' = mbytes,
           store' = [kind |-> kind, file |-> f]
    PROVE  /\ model' \in Files \cup {NoFile} /\ tok' \in Files \cup {NoFile}
           /\ rt' \in [file : Files \cup {NoFile}, seq : Nat, kv8 : BOOLEAN, kv : Nat, scratch : Nat]
           /\ loaded' \in BOOLEAN
           /\ loaded' => /\ model' = f /\ rt'.file = f
                         /\ tok' # NoFile => tok' = f /\ kind = "mapped"
                         /\ Size[f] <= mbytes' \/ kind = "stream"
           /\ Kept'
<1> DEFINE seq == Clamp(f, c)
<1>1. seq \in Nat
  BY ClampTyped
<1>2. store'.kind = kind /\ store'.file = f
  OBVIOUS
<1>3. CASE loaded' = FALSE /\ model' \in {f, NoFile} /\ rt' = rt /\ tok' = tok
  <2>1. ~ loaded'
    BY <1>3
  <2>2. Kept'
    BY <2>1 DEF Kept
  <2>3. QED
    BY <1>3, <2>1, <2>2 DEF TypeOK
<1>4. CASE /\ Fits(f, kind, seq, kv8)
           /\ model' = f
           /\ rt' = Layout(f, kind, seq, kv8)
           /\ tok' = IF kind = "mapped" /\ f \in HasTok THEN f ELSE NoFile
           /\ loaded' = TRUE
  <2>1. rt' \in [file : Files \cup {NoFile}, seq : Nat, kv8 : BOOLEAN, kv : Nat, scratch : Nat]
    BY <1>1, <1>4, LayoutTyped
  <2>2. rt'.file = f /\ rt'.seq = seq /\ rt'.kv8 = kv8
    BY <1>4 DEF Layout
  <2>3. Kept'
    <3>1. store'.kind \in {"mapped", "stream"} /\ store'.file \in Files
      BY <1>2
    <3>2. rt' = Layout(store'.file, store'.kind, rt'.seq, rt'.kv8)
      BY <1>2, <1>4, <2>2
    <3>3. Fits(store.file, store.kind, rt.seq, rt.kv8)'
      BY <1>2, <1>4, <2>2 DEF Fits
    <3>4. QED
      BY <3>1, <3>2, <3>3, Zenon DEF Kept
  <2>4. Size[f] <= mbytes' \/ kind = "stream"
    <3> SUFFICES ASSUME kind = "mapped" PROVE Size[f] <= mbytes
      OBVIOUS
    <3>1. Size[f] \in Nat /\ KvBytes(f, seq, kv8) \in Nat /\ ScratchBytes(f) \in Nat
      BY <1>1, SizesTyped
    <3>2. mbytes \in Nat
      BY FirmwareAssumption DEF TypeOK
    <3> HIDE DEF seq
    <3>3. Size[f] + KvBytes(f, seq, kv8) + ScratchBytes(f) <= mbytes
      BY <1>4 DEF Fits
    <3>4. QED
      BY <3>1, <3>2, <3>3
  <2>5. tok' \in {f, NoFile} /\ (tok' # NoFile => tok' = f /\ kind = "mapped")
    BY <1>4
  <2>6. QED
    BY <1>4, <2>1, <2>2, <2>3, <2>4, <2>5
<1>5. QED
  BY <1>3, <1>4, Zenon DEF FinishOpen

\* load: a failure withdraws g_loaded whatever it left in PSRAM; a success puts
\* every weight of the file where the layout expects it.
LEMMA LoadStep ==
    ASSUME Inv, NEW f \in Files,
           \/ LoadRefused(f) \/ LoadFails(f)
           \/ \E c \in Contexts, kv8 \in BOOLEAN : LoadOpens(f, c, kv8)
    PROVE  Inv'
<1>1. CASE LoadRefused(f)
  <2>1. UNCHANGED vars
    BY <1>1, Zenon DEF LoadRefused
  <2>2. TypeOK'
    BY <2>1, ZenonT(40) DEF Inv, vars, TypeOK
  <2>3. QED
    BY <2>1, <2>2, SessionSame DEF Inv
<1>2. CASE LoadFails(f)
  <2>1. mem' \in [Cells -> Files \cup {NoFile}]
    <3>1. CASE mem' = mem
      BY <3>1, Zenon DEF Inv, TypeOK
    <3>2. CASE \E n \in 0 .. Size[f] - 1 :
                  mem' = [c \in Cells |-> IF c < n THEN f ELSE mem[c]]
      BY <3>2 DEF Inv, TypeOK
    <3>3. QED
      BY <1>2, <3>1, <3>2, Zenon DEF LoadFails
  <2>2. mounted' \in BOOLEAN
    BY <1>2, Zenon DEF Inv, TypeOK, LoadFails
  <2>3. /\ loaded' = FALSE /\ swept' = FALSE /\ stream' = NoFile
        /\ UNCHANGED <<mbytes, store, model, rt, tok>>
    BY <1>2, Zenon DEF LoadFails
  <2>4. TypeOK'
    BY <2>1, <2>2, <2>3, Zenon DEF Inv, TypeOK
  <2>5. QED
    BY <2>3, <2>4, Unloaded
<1>3. CASE \E c \in Contexts, kv8 \in BOOLEAN : LoadOpens(f, c, kv8)
  <2>1. PICK c \in Contexts, kv8 \in BOOLEAN : LoadOpens(f, c, kv8)
    BY <1>3
  <2>2. /\ mounted' = TRUE /\ stream' = NoFile /\ swept' = FALSE /\ mbytes' = mbytes
        /\ mem' = [x \in Cells |-> IF x < Size[f] THEN f ELSE mem[x]]
        /\ store' = [kind |-> "mapped", file |-> f]
        /\ FinishOpen(f, "mapped", c, kv8)
    BY <2>1, Zenon DEF LoadOpens
  <2>3. /\ model' \in Files \cup {NoFile} /\ tok' \in Files \cup {NoFile}
        /\ rt' \in [file : Files \cup {NoFile}, seq : Nat, kv8 : BOOLEAN, kv : Nat, scratch : Nat]
        /\ loaded' \in BOOLEAN
        /\ loaded' => /\ model' = f /\ rt'.file = f
                      /\ tok' # NoFile => tok' = f
                      /\ Size[f] <= mbytes'
        /\ Kept'
    <3>1. TypeOK
      BY DEF Inv
    <3>2. "mapped" \in {"mapped", "stream"} /\ "mapped" # "stream"
      OBVIOUS
    <3>3. QED
      BY <2>2, <3>1, <3>2, FinishOpenStep, Zenon
  <2>4. store'.kind = "mapped" /\ store'.file = f
    BY <2>2
  <2>5. TypeOK'
    <3>1. mem' \in [Cells -> Files \cup {NoFile}]
      BY <2>2 DEF Inv, TypeOK
    <3>2. store' \in [kind : {"none", "mapped", "stream"}, file : Files \cup {NoFile}]
      BY <2>2
    <3>3. mounted' \in BOOLEAN /\ swept' \in BOOLEAN /\ stream' \in Files \cup {NoFile}
      BY <2>2
    <3>4. mbytes' \in PsramSizes
      BY <2>2, Zenon DEF Inv, TypeOK
    <3>5. QED
      BY <2>3, <3>1, <3>2, <3>3, <3>4, Zenon DEF TypeOK
  <2>6. Coherent'
    BY <2>3, <2>4 DEF Coherent
  <2>7. WeightsIntact'
    <3> SUFFICES ASSUME loaded', NEW x \in WeightCells' PROVE x < mbytes' /\ mem'[x] = f
      BY <2>4, Zenon DEF WeightsIntact
    <3>1. x \in Cells /\ x < Size[f]
      <4>1. x \in Cells /\ x < 0 + Size[f]
        BY <2>4 DEF WeightCells, Region
      <4>2. 0 + Size[f] = Size[f]
        BY FirmwareAssumption
      <4>3. QED
        BY <4>1, <4>2
    <3>2. x \in Int /\ Size[f] \in Int /\ mbytes' \in Int /\ Size[f] <= mbytes'
      BY <2>2, <2>3, <3>1, FirmwareAssumption DEF Inv, TypeOK, Cells
    <3>3. QED
      BY <2>2, <3>1, <3>2
  <2>8. QED
    BY <2>3, <2>5, <2>6, <2>7 DEF Inv
<1>4. QED
  BY <1>1, <1>2, <1>3

\* stream: the weights stay on the card, the runtime has the array to itself.
LEMMA StreamStep ==
    ASSUME Inv, NEW f \in Files,
           StreamFails(f) \/ \E c \in Contexts : StreamOpens(f, c)
    PROVE  Inv'
<1>1. CASE StreamFails(f)
  <2>1. mounted' \in BOOLEAN /\ stream' \in Files \cup {NoFile}
    BY <1>1, Zenon DEF Inv, TypeOK, StreamFails
  <2>2. /\ loaded' = FALSE /\ swept' = FALSE
        /\ UNCHANGED <<mbytes, mem, store, model, rt, tok>>
    BY <1>1, Zenon DEF StreamFails
  <2>3. TypeOK'
    BY <2>1, <2>2, Zenon DEF Inv, TypeOK
  <2>4. QED
    BY <2>2, <2>3, Unloaded
<1>2. CASE \E c \in Contexts : StreamOpens(f, c)
  <2>1. PICK c \in Contexts : StreamOpens(f, c)
    BY <1>2
  <2>2. /\ mounted' = TRUE /\ stream' = f /\ swept' = FALSE /\ mbytes' = mbytes /\ mem' = mem
        /\ store' = [kind |-> "stream", file |-> f]
        /\ FinishOpen(f, "stream", c, TRUE)
    BY <2>1, Zenon DEF StreamOpens
  <2>3. /\ model' \in Files \cup {NoFile} /\ tok' \in Files \cup {NoFile}
        /\ rt' \in [file : Files \cup {NoFile}, seq : Nat, kv8 : BOOLEAN, kv : Nat, scratch : Nat]
        /\ loaded' \in BOOLEAN
        /\ loaded' => model' = f /\ rt'.file = f /\ tok' = NoFile
        /\ Kept'
    <3>1. TypeOK
      BY DEF Inv
    <3>2. "stream" \in {"mapped", "stream"} /\ "mapped" # "stream" /\ TRUE \in BOOLEAN
      OBVIOUS
    <3>3. QED
      BY <2>2, <3>1, <3>2, FinishOpenStep, Zenon
  <2>4. store'.kind = "stream" /\ store'.file = f
    BY <2>2
  <2>5. TypeOK'
    <3>1. store' \in [kind : {"none", "mapped", "stream"}, file : Files \cup {NoFile}]
      BY <2>2
    <3>2. mounted' \in BOOLEAN /\ swept' \in BOOLEAN /\ stream' \in Files \cup {NoFile}
      BY <2>2
    <3>3. /\ mbytes' \in PsramSizes
          /\ mem' \in [Cells -> Files \cup {NoFile}]
      BY <2>2, Zenon DEF Inv, TypeOK
    <3>4. QED
      BY <2>3, <3>1, <3>2, <3>3, Zenon DEF TypeOK
  <2>6. Coherent'
    BY <2>2, <2>3, <2>4 DEF Coherent
  <2>7. WeightsIntact'
    <3>1. WeightCells' = {}
      BY <2>4 DEF WeightCells
    <3>2. QED
      BY <3>1 DEF WeightsIntact
  <2>8. QED
    BY <2>3, <2>5, <2>6, <2>7 DEF Inv
<1>3. QED
  BY <1>1, <1>2

\* Starting over: nothing is loaded, whatever the PSRAM still holds.
LEMMA ResetStep ==
    ASSUME Inv, PowerCycle \/ UsbReboot \/ Fault
    PROVE  Inv'
<1>1. Boot /\ mem' \in [Cells -> Files \cup {NoFile}]
  <2>1. Boot /\ (mem' = mem \/ mem' = [c \in Cells |-> NoFile])
    BY Zenon DEF PowerCycle, UsbReboot, Fault
  <2>2. [c \in Cells |-> NoFile] \in [Cells -> Files \cup {NoFile}]
    OBVIOUS
  <2>3. QED
    BY <2>1, <2>2, Zenon DEF Inv, TypeOK
<1>2. /\ NoRt \in [file : Files \cup {NoFile}, seq : Nat, kv8 : BOOLEAN, kv : Nat, scratch : Nat]
      /\ NoStore \in [kind : {"none", "mapped", "stream"}, file : Files \cup {NoFile}]
  BY DEF NoRt, NoStore
<1>3. TypeOK'
  BY <1>1, <1>2, Zenon DEF Boot, TypeOK
<1>4. loaded' = FALSE
  BY <1>1, Zenon DEF Boot
<1>5. QED
  BY <1>3, <1>4, Unloaded

\* Every command and every reset keeps the invariant.
LEMMA NextInv == Inv /\ [Next]_vars => Inv'
<1> SUFFICES ASSUME Inv, [Next]_vars PROVE Inv'
  OBVIOUS
<1>1. CASE UNCHANGED vars
  <2>1. TypeOK'
    BY <1>1, ZenonT(40) DEF Inv, vars, TypeOK
  <2>2. QED
    BY <1>1, <2>1, SessionSame DEF Inv
<1>2. CASE Commands
  BY <1>2, PsramStep, UseStep, LoadStep, StreamStep, Zenon DEF Commands
<1>3. CASE PowerCycle \/ UsbReboot \/ Fault
  BY <1>3, ResetStep
<1>4. QED
  BY <1>1, <1>2, <1>3, Zenon DEF Next

-----------------------------------------------------------------------------

\* The types of the session.
THEOREM TypeCorrect == Spec => []TypeOK
<1>1. Inv => TypeOK
  BY DEF Inv
<1>2. QED
  BY <1>1, InitInv, NextInv, PTL DEF Spec

\* While g_loaded is set, the store, the parsed model, the runtime, the
\* tokenizer and the open stream are of one file, after any commands that
\* failed half-way, for any set of files on the card.
THEOREM AlwaysCoherent == Spec => []Coherent
<1>1. Inv => Coherent
  BY DEF Inv
<1>2. QED
  BY <1>1, InitInv, NextInv, PTL DEF Spec

\* While a resident model is loaded and no sweep has failed since, every byte of
\* its weights is inside the array and the file's: no test, benchmark, failed
\* load or generation has written over it.
THEOREM WeightsStayIntact == Spec => []WeightsIntact
<1>1. Inv => WeightsIntact
  BY DEF Inv
<1>2. QED
  BY <1>1, InitInv, NextInv, PTL DEF Spec

\* finish_open lays out weights, KV cache, scratch and tokens apart from each
\* other for every alignment, and its fit check keeps them inside the array but
\* for two paddings and the token buffer.
THEOREM LayoutAlwaysSound == Spec => []LayoutSound
<1>1. Inv => LayoutSound
  BY KeptIsSound DEF Inv
<1>2. QED
  BY <1>1, InitInv, NextInv, PTL DEF Spec

-----------------------------------------------------------------------------
(* The memory test and the clock sweep. *)

-----------------------------------------------------------------------------
(* The memory test: one wrong bit of one word in one pass is enough.        *)

Failing(f) == {p \in Words \X BOOLEAN : ReadBack(f, p[2], p[1]) # Pattern(p[1], p[2])}

\* There are finitely many words in the window.
LEMMA WordsFinite == IsFiniteSet(Words)
<1> DEFINE ones == [a \in Words |-> {b \in AddrLines : a[b] = 1}]
<1>1. IsFiniteSet(AddrLines)
  <2>1. AddrBits - 1 \in Int
    BY MemTestAssumption
  <2>2. QED
    BY <2>1, FS_Interval DEF AddrLines
<1>2. IsFiniteSet(SUBSET AddrLines)
  BY <1>1, FS_SUBSET
<1>3. ones \in [Words -> SUBSET AddrLines]
  OBVIOUS
<1>4. ASSUME NEW a \in Words, NEW o \in Words, ones[a] = ones[o] PROVE a = o
  <2>1. \A b \in AddrLines : a[b] = 1 <=> o[b] = 1
    BY <1>4
  <2>2. \A b \in AddrLines : a[b] = o[b]
    BY <2>1 DEF Words
  <2>3. QED
    BY <2>2 DEF Words
<1>5. ones \in Injection(Words, SUBSET AddrLines)
  BY <1>3, <1>4 DEF Injection, IsInjective
<1>6. QED
  BY <1>2, <1>5, FS_Injection

\* One word that reads back wrong makes the count positive.
LEMMA AnyWrong ==
    ASSUME NEW f, NEW a \in Words, NEW inv \in BOOLEAN, ReadBack(f, inv, a) # Pattern(a, inv)
    PROVE  psram_memtest(f) # 0
<1>1. IsFiniteSet(BOOLEAN)
  <2>1. BOOLEAN = {TRUE, FALSE}
    OBVIOUS
  <2>2. IsFiniteSet({}) /\ IsFiniteSet({} \cup {TRUE}) /\ IsFiniteSet(({} \cup {TRUE}) \cup {FALSE})
    BY FS_EmptySet, FS_AddElement
  <2>3. ({} \cup {TRUE}) \cup {FALSE} = BOOLEAN
    BY <2>1
  <2>4. QED
    BY <2>2, <2>3
<1>2. IsFiniteSet(Words \X BOOLEAN)
  BY <1>1, WordsFinite, FS_Product
<1>3. Failing(f) \in SUBSET (Words \X BOOLEAN)
  BY DEF Failing
<1>4. IsFiniteSet(Failing(f))
  BY <1>2, <1>3, FS_Subset
<1>5. <<a, inv>> \in Failing(f)
  <2>1. <<a, inv>> \in Words \X BOOLEAN /\ <<a, inv>>[1] = a /\ <<a, inv>>[2] = inv
    OBVIOUS
  <2>2. QED
    BY <2>1 DEF Failing
<1>6. Cardinality(Failing(f)) # 0
  BY <1>4, <1>5, FS_EmptySet
<1>7. QED
  BY <1>6 DEF psram_memtest, Failing

\* A pattern is a word, and its complement differs from it in every bit.
LEMMA Patterns ==
    ASSUME NEW a \in Words, NEW b \in Bits
    PROVE  /\ \A inv \in BOOLEAN : Pattern(a, inv)[b] \in {0, 1}
           /\ Pattern(a, TRUE)[b] # Pattern(a, FALSE)[b]
<1>1. PICK x \in {0, 1} : x = IF b \in AddrLines THEN a[b] ELSE 0
  BY DEF Words
<1>2. PICK y \in {0, 1} : y = IF b \in Seed THEN 1 ELSE 0
  OBVIOUS
<1>3. Pattern(a, TRUE)[b] = (x + y + 1) % 2 /\ Pattern(a, FALSE)[b] = (x + y + 0) % 2
  BY <1>1, <1>2 DEF Pattern
<1>4. (x + y + 1) % 2 \in {0, 1} /\ (x + y + 0) % 2 \in {0, 1} /\ (x + y + 1) % 2 # (x + y + 0) % 2
  OBVIOUS
<1>5. \A inv \in BOOLEAN : inv = TRUE \/ inv = FALSE
  OBVIOUS
<1>6. QED
  BY <1>3, <1>4, <1>5, Zenon

\* Two indices that differ in one bit have patterns that differ there only.
LEMMA Flipped ==
    ASSUME NEW a \in Words, NEW l \in AddrLines, l \in Bits, a[l] = 0
    PROVE  /\ [a EXCEPT ![l] = 1] \in Words
           /\ \A b \in Bits \ {l} : Pattern([a EXCEPT ![l] = 1], FALSE)[b] = Pattern(a, FALSE)[b]
           /\ Pattern([a EXCEPT ![l] = 1], FALSE)[l] # Pattern(a, FALSE)[l]
<1> DEFINE o == [a EXCEPT ![l] = 1]
<1>1. o \in Words /\ o[l] = 1 /\ \A b \in AddrLines \ {l} : o[b] = a[b]
  BY DEF Words
<1>2. \A b \in Bits \ {l} : Pattern(o, FALSE)[b] = Pattern(a, FALSE)[b]
  BY <1>1 DEF Pattern
<1>3. PICK y \in {0, 1} : y = IF l \in Seed THEN 1 ELSE 0
  OBVIOUS
<1>4. Pattern(o, FALSE)[l] = (1 + y + 0) % 2 /\ Pattern(a, FALSE)[l] = (0 + y + 0) % 2
  BY <1>1, <1>3 DEF Pattern
<1>5. (1 + y + 0) % 2 # (0 + y + 0) % 2
  OBVIOUS
<1>6. QED
  BY <1>1, <1>2, <1>4, <1>5

\* Over address lines that are sound every cell keeps its own pattern.
LEMMA StoredOwn ==
    ASSUME NEW f, f.kind # "address", NEW a \in Words, NEW inv \in BOOLEAN
    PROVE  ReadBack(f, inv, a) = Carried(f, Carried(f, Pattern(a, inv)))
<1> DEFINE reach == {o \in Words : Decode(f, o) = a}
<1>1. Decode(f, a) = a /\ reach = {a}
  BY DEF Decode
<1>2. (CHOOSE o \in reach : \A q \in reach \ {o} : After(o, q)) = a
  BY <1>1
<1>3. Stored(f, inv, a) = Carried(f, Pattern(a, inv))
  BY <1>2 DEF Stored
<1>4. QED
  BY <1>1, <1>3 DEF ReadBack

\* A sound board passes.
LEMMA SoundPasses == psram_memtest(Sound) = 0
<1>1. Sound.kind = "none"
  BY DEF Sound
<1>2. \A w : Carried(Sound, w) = w
  BY <1>1 DEF Carried
<1>3. \A p \in Words \X BOOLEAN : ReadBack(Sound, p[2], p[1]) = Pattern(p[1], p[2])
  <2> SUFFICES ASSUME NEW p \in Words \X BOOLEAN
               PROVE  ReadBack(Sound, p[2], p[1]) = Pattern(p[1], p[2])
    OBVIOUS
  <2>1. p[1] \in Words /\ p[2] \in BOOLEAN
    OBVIOUS
  <2>2. Sound.kind # "address"
    BY <1>1
  <2>3. ReadBack(Sound, p[2], p[1]) = Carried(Sound, Carried(Sound, Pattern(p[1], p[2])))
    BY <2>1, <2>2, StoredOwn
  <2>4. QED
    BY <1>2, <2>3, Zenon
<1>4. Failing(Sound) = {}
  BY <1>3 DEF Failing
<1>5. QED
  BY <1>4, FS_EmptySet DEF psram_memtest, Failing

\* A data line that is stuck fails in one of the two passes.
LEMMA StuckFails ==
    ASSUME NEW f, f.kind = "stuck", f.line \in 0 .. Lines - 1
    PROVE  psram_memtest(f) # 0
<1> DEFINE a == [x \in AddrLines |-> 0]
           l == f.line
<1>1. a \in Words
  BY DEF Words
<1>2. l \in Bits /\ l % Lines = l
  BY MemTestAssumption DEF Bits
<1>3. \A w : Carried(f, w)[l] = f.at
  BY <1>2 DEF Carried
<1>4. \A inv \in BOOLEAN : ReadBack(f, inv, a)[l] = f.at
  BY <1>3, Zenon DEF ReadBack
<1> HIDE DEF a, l
<1>5. Pattern(a, TRUE)[l] # Pattern(a, FALSE)[l]
  BY <1>1, <1>2, Patterns
<1>6. ReadBack(f, TRUE, a) # Pattern(a, TRUE) \/ ReadBack(f, FALSE, a) # Pattern(a, FALSE)
  BY <1>4, <1>5, Zenon
<1>7. QED
  BY <1>1, <1>6, AnyWrong

\* Two data lines that are shorted fail at a word whose pattern differs on them.
LEMMA ShortFails ==
    ASSUME NEW f, f.kind = "short", f.line \in 0 .. Lines - 1, f.other \in 0 .. Lines - 1,
           f.line < f.other
    PROVE  psram_memtest(f) # 0
<1> DEFINE l == f.line
           m == f.other
           zero == [x \in AddrLines |-> 0]
           one == [zero EXCEPT ![l] = 1]
<1>1. /\ l \in Bits /\ m \in Bits /\ l % Lines = l /\ m % Lines = m /\ l \in AddrLines /\ m # l
      /\ l - l + l = l /\ l - l + m = m /\ m - m + l = l /\ m - m + m = m
  BY MemTestAssumption DEF Bits, AddrLines
<1>2. zero \in Words /\ zero[l] = 0
  BY <1>1 DEF Words
<1>3. /\ one \in Words /\ Pattern(one, FALSE)[m] = Pattern(zero, FALSE)[m]
      /\ Pattern(one, FALSE)[l] # Pattern(zero, FALSE)[l]
  <2> HIDE DEF zero
  <2>1. m \in Bits \ {l} /\ 1 \in {0, 1} /\ 1 # zero[l]
    BY <1>1, <1>2
  <2>2. QED
    BY <1>1, <1>2, <2>1, Flipped, ZenonT(40)
<1> HIDE DEF zero, one
<1>4. PICK a \in Words : Pattern(a, FALSE)[l] # Pattern(a, FALSE)[m]
  BY <1>2, <1>3
<1> DEFINE w == Pattern(a, FALSE)
           c == Carried(f, w)
           r == Carried(f, c)
<1>5. w[l] \in {0, 1} /\ w[m] \in {0, 1}
  BY <1>1, Patterns
<1> HIDE DEF w
<1>6. \A v : Carried(f, v)[l] = v[l] * v[m] /\ Carried(f, v)[m] = v[l] * v[m]
  BY <1>1 DEF Carried
<1>7. c[l] = 0 /\ c[m] = 0
  <2>1. w[l] # w[m]
    BY <1>4 DEF w
  <2>2. w[l] * w[m] = 0
    BY <1>5, <2>1
  <2>3. QED
    BY <1>6, <2>2
<1> HIDE DEF c
<1>8. r[l] = 0 /\ r[m] = 0
  <2>1. c[l] * c[m] = 0
    BY <1>7
  <2>2. QED
    BY <1>6, <2>1
<1>9. r # w
  BY <1>4, <1>8 DEF w
<1>10. ReadBack(f, FALSE, a) = r
  BY StoredOwn DEF c, w
<1>11. QED
  BY <1>9, <1>10, AnyWrong DEF w

\* Two words behind one cell cannot both read back as written.
LEMMA AddressFails ==
    ASSUME NEW f, f.kind = "address", f.line \in AddrLines
    PROVE  psram_memtest(f) # 0
<1> DEFINE l == f.line
           zero == [x \in AddrLines |-> 0]
           one == [zero EXCEPT ![l] = 1]
<1>1. l \in Bits
  BY MemTestAssumption DEF Bits, AddrLines
<1>2. zero \in Words /\ zero[l] = 0
  BY DEF Words
<1>3. one \in Words /\ Pattern(one, FALSE)[l] # Pattern(zero, FALSE)[l]
  <2> HIDE DEF zero
  <2>1. 1 \in {0, 1} /\ 1 # zero[l]
    BY <1>2
  <2>2. QED
    BY <1>1, <1>2, <2>1, Flipped
<1>4. Decode(f, zero) = Decode(f, one)
  BY DEF Decode
<1> HIDE DEF zero, one
<1>5. ReadBack(f, FALSE, zero) = ReadBack(f, FALSE, one)
  BY <1>4, Zenon DEF ReadBack
<1>6. ReadBack(f, FALSE, zero) # Pattern(zero, FALSE) \/ ReadBack(f, FALSE, one) # Pattern(one, FALSE)
  BY <1>3, <1>5, Zenon
<1>7. QED
  BY <1>2, <1>3, <1>6, AnyWrong

\* The memory test fails on every board with a bad line, and on no sound one:
\* the claim of its comment, for every board layout.
THEOREM MemTestIsExact ==
    /\ \A f \in Defects : psram_memtest(f) # 0
    /\ psram_memtest(Sound) = 0
<1> SUFFICES ASSUME NEW f \in Defects PROVE psram_memtest(f) # 0
  BY SoundPasses
<1>1. \/ f.kind = "stuck" /\ f.line \in 0 .. Lines - 1
      \/ /\ f.kind = "short" /\ f.line \in 0 .. Lines - 1 /\ f.other \in 0 .. Lines - 1
         /\ f.line < f.other
      \/ f.kind = "address" /\ f.line \in AddrLines
  BY DEF Defects, AddrLines
<1>2. QED
  BY <1>1, StuckFails, ShortFails, AddressFails

-----------------------------------------------------------------------------
(* The sweep. *)

SweepTypeOK ==
    /\ fault \in Defects \cup {Sound, Flaky} /\ hz \in [Clocks -> Nat] /\ order \in Seq(Clocks)
    /\ pc \in {"sort", "sweep", "settle", "done", "failed"}
    /\ i \in Nat \ {0} /\ best_mb \in Nat
    /\ passed \subseteq [clock : Clocks, mb : Nat] /\ rejected \subseteq Clocks

Hz(n) == hz[order[n]]

\* The prefix up to i is in order but for position j, and what is behind j in
\* it is no slower than j: the element on its way down passed it.
Sorting ==
    pc = "sort" =>
        /\ i <= Len(order) + 1 /\ j \in 1 .. i /\ (i > Len(order) => j = i)
        /\ \A a, b \in 1 .. Len(order) : a < b /\ b <= i /\ a # j /\ b # j => Hz(a) <= Hz(b)
        /\ \A b \in 1 .. Len(order) : j < b /\ b <= i => Hz(j) <= Hz(b)

Sorted ==
    pc # "sort" => \A a, b \in 1 .. Len(order) : a < b => Hz(a) <= Hz(b)

NoneYet == best = -1 /\ best_mb = 0 /\ passed = {}

\* The best clock is one the sweep has passed, and no pass exceeds it.
BestSoFar ==
    /\ \E m \in 1 .. Len(order) : m < i /\ best = order[m]
    /\ [clock |-> best, mb |-> best_mb] \in passed
    /\ \A p \in passed : hz[p.clock] <= hz[best] /\ p.mb <= best_mb

Chosen ==
    /\ NoneYet \/ (pc # "sort" /\ BestSoFar)
    /\ pc = "done" => BestSoFar /\ info.clock = best

SweepInv == SweepTypeOK /\ Sorting /\ Sorted /\ Chosen /\ FaultsFound

\* What the parts say about their size.
LEMMA ProbeType == \A a \in Answers : fs2_probe[a] \in Nat
<1>1. Parts = {"none", "apmemory", "issi8", "issi16"}
  BY DEF Parts, fs2_probe
<1>2. \A a \in Parts : fs2_probe[a] \in Nat
  BY <1>1 DEF fs2_probe
<1>3. QED
  BY <1>2, SweepAssumption

\* psram_init leaves the clock it was given and the capacity it found.
LEMMA InitFinds ==
    ASSUME NEW c, psram_init(c)
    PROVE  info'.clock = c /\ info'.mbytes \in Nat
<1>1. PICK chip1 \in Answers, chip2 \in Answers :
        info' = [clock |-> c, mbytes |-> IF fs2_probe[chip1] = 0 THEN 0
                                         ELSE fs2_probe[chip1] + fs2_probe[chip2]]
  BY DEF psram_init
<1>2. fs2_probe[chip1] \in Nat /\ fs2_probe[chip2] \in Nat
  BY ProbeType
<1>3. QED
  BY <1>1, <1>2

\* The clocks in their nominal order, the first of them a sorted prefix.
LEMMA SweepInitInv == SweepInit => SweepInv
<1> SUFFICES ASSUME SweepInit PROVE SweepInv
  OBVIOUS
<1>1. Count \in Nat \ {0} /\ MaxIndexes \subseteq Int /\ HzTables \subseteq [Clocks -> Nat]
  BY SweepAssumption
<1>2. PICK max \in MaxIndexes : order = [k \in 1 .. LastIndex(max) + 1 |-> k - 1]
  BY DEF SweepInit
<1>3. LastIndex(max) \in 0 .. Count - 1
  BY <1>1 DEF LastIndex
<1>4. order \in Seq(Clocks) /\ Len(order) = LastIndex(max) + 1
  <2>1. \A k \in 1 .. LastIndex(max) + 1 : k - 1 \in Clocks
    BY <1>1, <1>3 DEF Clocks
  <2>2. order \in [1 .. LastIndex(max) + 1 -> Clocks] /\ LastIndex(max) + 1 \in Nat
    BY <1>2, <1>3, <2>1
  <2>3. QED
    BY <2>2
<1>5. SweepTypeOK
  <2>1. hz \in [Clocks -> Nat]
    BY <1>1 DEF SweepInit
  <2>2. QED
    BY <1>4, <2>1 DEF SweepInit, SweepTypeOK
<1>6. pc = "sort" /\ i = 2 /\ j = 2 /\ NoneYet /\ rejected = {}
  BY DEF SweepInit, NoneYet
<1>7. Sorting
  <2>1. Len(order) \in Nat /\ Len(order) >= 1
    BY <1>3, <1>4
  <2>2. \A a, b \in 1 .. Len(order) : ~ (a < b /\ b <= 2 /\ a # 2 /\ b # 2)
    BY <2>1
  <2>3. \A b \in 1 .. Len(order) : ~ (2 < b /\ b <= 2)
    BY <2>1
  <2>4. 2 <= Len(order) + 1 /\ 2 \in 1 .. 2
    BY <2>1
  <2>5. QED
    BY <1>6, <2>2, <2>3, <2>4, Zenon DEF Sorting
<1>8. Sorted /\ Chosen
  BY <1>6 DEF Sorted, Chosen
<1>9. FaultsFound
  BY <1>6 DEF FaultsFound, NoneYet
<1>10. QED
  BY <1>5, <1>7, <1>8, <1>9 DEF SweepInv

\* One comparison of the insertion sort.
LEMMA SortInv == ASSUME SweepInv, SortStep PROVE SweepInv'
<1>1. /\ pc = "sort" /\ i <= Len(order) /\ pc' = pc /\ hz' = hz /\ fault' = fault
      /\ marginal' = marginal /\ best' = best /\ best_mb' = best_mb /\ passed' = passed
      /\ rejected' = rejected
  BY DEF SortStep, board
<1>2. /\ hz \in [Clocks -> Nat] /\ order \in Seq(Clocks) /\ i \in Nat \ {0}
      /\ Len(order) \in Nat /\ SweepTypeOK
  BY DEF SweepInv, SweepTypeOK
<1>3. /\ j \in 1 .. i
      /\ \A a, b \in 1 .. Len(order) : a < b /\ b <= i /\ a # j /\ b # j => Hz(a) <= Hz(b)
      /\ \A b \in 1 .. Len(order) : j < b /\ b <= i => Hz(j) <= Hz(b)
  BY <1>1 DEF SweepInv, Sorting
<1>4. \A a \in 1 .. Len(order) : Hz(a) \in Nat /\ order[a] \in Clocks
  BY <1>2 DEF Hz
<1>5. CASE j > 1 /\ hz[order[j]] < hz[order[j - 1]]
  <2>1. /\ order' = [order EXCEPT ![j] = order[j - 1], ![j - 1] = order[j]]
        /\ j' = j - 1 /\ i' = i
    BY <1>5 DEF SortStep
  <2>2. j \in 1 .. Len(order) /\ j - 1 \in 1 .. Len(order) /\ Hz(j) < Hz(j - 1)
    BY <1>1, <1>2, <1>3, <1>5 DEF Hz
  <2>3. order' \in Seq(Clocks) /\ Len(order') = Len(order)
    BY <1>2, <1>4, <2>1, <2>2
  <2>4. /\ order'[j] = order[j - 1] /\ order'[j - 1] = order[j]
        /\ \A a \in 1 .. Len(order) : a # j /\ a # j - 1 => order'[a] = order[a]
    BY <1>2, <2>1, <2>2
  <2> DEFINE new(a) == hz[order'[a]]
  <2>5. /\ new(j) = Hz(j - 1) /\ new(j - 1) = Hz(j)
        /\ \A a \in 1 .. Len(order) : a # j /\ a # j - 1 => new(a) = Hz(a)
    BY <2>4 DEF Hz
  <2> HIDE DEF new
  <2>6. ASSUME NEW a \in 1 .. Len(order), NEW b \in 1 .. Len(order), a < b, b <= i,
               a # j - 1, b # j - 1
        PROVE  new(a) <= new(b)
    <3>1. CASE a # j /\ b # j
      BY <1>3, <2>5, <2>6, <3>1
    <3>2. CASE a = j
      BY <1>2, <1>3, <2>2, <2>5, <2>6, <3>2
    <3>3. CASE b = j
      BY <1>2, <1>3, <2>2, <2>5, <2>6, <3>3
    <3>4. QED
      BY <3>1, <3>2, <3>3
  <2>7. ASSUME NEW b \in 1 .. Len(order), j - 1 < b, b <= i PROVE new(j - 1) <= new(b)
    <3>1. CASE b = j
      BY <1>4, <2>2, <2>5, <3>1
    <3>2. CASE b # j
      BY <1>2, <1>3, <2>2, <2>5, <2>7, <3>2
    <3>3. QED
      BY <3>1, <3>2
  <2>8. Sorting'
    <3>1. i' <= Len(order') + 1 /\ j' \in 1 .. i' /\ ~ (i' > Len(order'))
      BY <1>1, <1>2, <1>3, <1>5, <2>1, <2>3
    <3>2. \A a, b \in 1 .. Len(order') :
             a < b /\ b <= i' /\ a # j' /\ b # j' => hz'[order'[a]] <= hz'[order'[b]]
      BY <1>1, <2>1, <2>3, <2>6, Zenon DEF new
    <3>3. \A b \in 1 .. Len(order') : j' < b /\ b <= i' => hz'[order'[j']] <= hz'[order'[b]]
      BY <1>1, <2>1, <2>3, <2>7, Zenon DEF new
    <3>4. QED
      BY <3>1, <3>2, <3>3, Zenon DEF Sorting, Hz
  <2>9. SweepTypeOK'
    BY <1>1, <1>2, <2>1, <2>3 DEF SweepTypeOK
  <2>10. QED
    BY <1>1, <2>8, <2>9 DEF SweepInv, Sorted, Chosen, NoneYet, BestSoFar, FaultsFound, AtClock
<1>6. CASE ~ (j > 1 /\ hz[order[j]] < hz[order[j - 1]])
  <2>1. order' = order /\ j' = i + 1 /\ i' = i + 1
    BY <1>6 DEF SortStep
  <2>2. j \in 1 .. Len(order) /\ (j > 1 => j - 1 \in 1 .. Len(order) /\ Hz(j - 1) <= Hz(j))
    <3>1. j \in 1 .. Len(order) /\ (j > 1 => j - 1 \in 1 .. Len(order))
      BY <1>1, <1>2, <1>3
    <3>2. QED
      BY <1>4, <1>6, <3>1 DEF Hz
  <2>3. ASSUME NEW a \in 1 .. Len(order), NEW b \in 1 .. Len(order), a < b, b <= i
        PROVE  Hz(a) <= Hz(b)
    <3>1. CASE a # j /\ b # j
      BY <1>3, <2>3, <3>1
    <3>2. CASE a = j
      BY <1>3, <2>3, <3>2
    <3>3. CASE b = j
      <4>1. j > 1 /\ (a = j - 1 \/ a < j - 1)
        BY <1>2, <2>2, <2>3, <3>3
      <4>2. CASE a = j - 1
        BY <2>2, <3>3, <4>1, <4>2
      <4>3. CASE a < j - 1
        <5>1. Hz(a) <= Hz(j - 1)
          BY <1>2, <1>3, <2>2, <2>3, <3>3, <4>1, <4>3
        <5>2. QED
          BY <1>4, <2>2, <3>3, <4>1, <5>1
      <4>4. QED
        BY <4>1, <4>2, <4>3
    <3>4. QED
      BY <3>1, <3>2, <3>3
  <2>4. Sorting'
    <3>1. i' <= Len(order') + 1 /\ j' \in 1 .. i' /\ j' = i'
      BY <1>1, <1>2, <2>1
    <3>2. \A a, b \in 1 .. Len(order) : a < b /\ b <= i + 1 /\ b # i + 1 => Hz(a) <= Hz(b)
      BY <1>2, <2>3
    <3>3. \A b \in 1 .. Len(order) : ~ (i + 1 < b /\ b <= i + 1)
      BY <1>2
    <3>4. QED
      BY <1>1, <2>1, <3>1, <3>2, <3>3 DEF Sorting, Hz
  <2>5. SweepTypeOK'
    BY <1>1, <1>2, <2>1 DEF SweepTypeOK
  <2>6. QED
    BY <1>1, <2>4, <2>5 DEF SweepInv, Sorted, Chosen, NoneYet, BestSoFar, FaultsFound, AtClock
<1>7. QED
  BY <1>5, <1>6

\* The whole array is sorted when the sweep begins.
LEMMA SortDoneInv == ASSUME SweepInv, SortDone PROVE SweepInv'
<1>1. /\ pc = "sort" /\ i > Len(order) /\ pc' = "sweep" /\ i' = 1 /\ order' = order /\ hz' = hz
      /\ fault' = fault /\ marginal' = marginal /\ best' = best /\ best_mb' = best_mb
      /\ passed' = passed /\ rejected' = rejected
  BY DEF SortDone, board
<1>2. SweepTypeOK /\ i \in Nat /\ Len(order) \in Nat
  BY DEF SweepInv, SweepTypeOK
<1>3. /\ i = j /\ i = Len(order) + 1
      /\ \A a, b \in 1 .. Len(order) : a < b /\ b <= i /\ a # j /\ b # j => Hz(a) <= Hz(b)
  BY <1>1, <1>2 DEF SweepInv, Sorting
<1>4. \A a, b \in 1 .. Len(order) : a < b => Hz(a) <= Hz(b)
  <2>1. \A a \in 1 .. Len(order) : a <= i /\ a # j
    BY <1>2, <1>3
  <2>2. QED
    BY <1>3, <2>1
<1>5. Sorted' /\ Sorting'
  BY <1>1, <1>4 DEF Sorted, Sorting, Hz
<1>6. SweepTypeOK'
  BY <1>1, <1>2 DEF SweepTypeOK
<1>7. Chosen' /\ FaultsFound'
  BY <1>1 DEF SweepInv, Chosen, NoneYet, FaultsFound, AtClock
<1>8. QED
  BY <1>5, <1>6, <1>7 DEF SweepInv

\* A clock that fails leaves the choice as it was.
LEMMA FailKeeps ==
    ASSUME SweepInv, pc = "sweep", i <= Len(order), Fail, order' = order, hz' = hz
    PROVE  /\ i' \in Nat \ {0} /\ pc' \in {"sweep", "settle"} /\ Chosen'
           /\ best_mb' = best_mb /\ passed' = passed
<1>1. /\ best' = best /\ best_mb' = best_mb /\ passed' = passed
      /\ pc' \in {"sweep", "settle"} /\ i' \in {i, i + 1}
  BY DEF Fail
<1>2. i \in Nat \ {0}
  BY DEF SweepInv, SweepTypeOK
<1>3. i' \in Nat \ {0} /\ \A m \in Nat : m < i => m < i'
  BY <1>1, <1>2
<1>4. NoneYet => NoneYet'
  BY <1>1 DEF NoneYet
<1>5. BestSoFar => BestSoFar'
  <2> SUFFICES ASSUME BestSoFar PROVE BestSoFar'
    OBVIOUS
  <2>1. PICK m \in 1 .. Len(order) : m < i /\ best = order[m]
    BY DEF BestSoFar
  <2>2. m < i'
    BY <1>3, <2>1
  <2>3. QED
    BY <1>1, <2>1, <2>2 DEF BestSoFar
<1>6. QED
  BY <1>1, <1>3, <1>4, <1>5 DEF SweepInv, Chosen

\* A clock that passes is the fastest so far, since the clocks are sorted, and
\* has found no less memory than those before it.
LEMMA PassKeeps ==
    ASSUME SweepInv, pc = "sweep", i <= Len(order), Pass, order' = order, hz' = hz,
           info'.mbytes \in Nat, info'.mbytes >= best_mb
    PROVE  /\ i' \in Nat \ {0} /\ pc' = "sweep" /\ Chosen' /\ best_mb' \in Nat
           /\ order[i] \in Clocks
           /\ passed' = passed \cup {[clock |-> order[i], mb |-> info'.mbytes]}
<1> DEFINE n == info'.mbytes
           e == [clock |-> order[i], mb |-> n]
<1>1. /\ best' = order[i] /\ best_mb' = n /\ passed' = passed \cup {e}
      /\ i' = i + 1 /\ pc' = pc
  BY DEF Pass
<1>2. /\ i \in Nat \ {0} /\ order \in Seq(Clocks) /\ Len(order) \in Nat /\ hz \in [Clocks -> Nat]
      /\ best_mb \in Nat /\ passed \subseteq [clock : Clocks, mb : Nat] /\ n \in Nat
  BY DEF SweepInv, SweepTypeOK
<1>3. i \in 1 .. Len(order) /\ i < i'
  BY <1>1, <1>2
<1>4. order[i] \in Clocks /\ hz[order[i]] \in Nat
  BY <1>2, <1>3
<1>5. \A p \in passed : hz[p.clock] <= hz[order[i]] /\ p.mb <= n
  <2>1. CASE NoneYet
    BY <2>1 DEF NoneYet
  <2>2. CASE BestSoFar
    <3>1. PICK m \in 1 .. Len(order) : m < i /\ best = order[m]
      BY <2>2 DEF BestSoFar
    <3>2. hz[best] <= hz[order[i]]
      BY <1>3, <3>1 DEF SweepInv, Sorted, Hz
    <3>3. order[m] \in Clocks
      BY <1>2
    <3>4. hz[best] \in Nat
      BY <1>2, <3>1, <3>3
    <3>5. ASSUME NEW p \in passed PROVE hz[p.clock] <= hz[order[i]] /\ p.mb <= n
      <4>1. p.clock \in Clocks /\ p.mb \in Nat
        BY <1>2
      <4>2. hz[p.clock] \in Nat
        BY <1>2, <4>1
      <4>3. hz[p.clock] <= hz[best] /\ p.mb <= best_mb
        BY <2>2 DEF BestSoFar
      <4>4. QED
        BY <1>2, <1>4, <3>2, <3>4, <4>1, <4>2, <4>3
    <3>6. QED
      BY <3>5
  <2>3. QED
    BY <2>1, <2>2 DEF SweepInv, Chosen
<1>6. BestSoFar'
  <2>1. \E m \in 1 .. Len(order') : m < i' /\ best' = order'[m]
    BY <1>1, <1>3
  <2>2. [clock |-> best', mb |-> best_mb'] \in passed'
    BY <1>1
  <2>3. \A p \in passed' : hz'[p.clock] <= hz'[best'] /\ p.mb <= best_mb'
    <3>1. e.clock = order[i] /\ e.mb = n /\ hz[order[i]] <= hz[order[i]] /\ n <= n
      BY <1>2, <1>4
    <3>2. QED
      BY <1>1, <1>5, <3>1
  <2>4. QED
    BY <2>1, <2>2, <2>3 DEF BestSoFar
<1>7. Chosen'
  BY <1>1, <1>6 DEF Chosen
<1>8. QED
  BY <1>1, <1>2, <1>4, <1>7

\* One clock: the memory test lets no bad line pass and refuses no sound board.
LEMMA ClockInv == ASSUME SweepInv, Clock PROVE SweepInv'
<1>1. /\ pc = "sweep" /\ i <= Len(order) /\ psram_init(order[i]) /\ order' = order
      /\ hz' = hz /\ fault' = fault /\ marginal' = marginal
  BY DEF Clock, board
<1>2. SweepTypeOK /\ i \in Nat \ {0} /\ order \in Seq(Clocks) /\ Len(order) \in Nat
  BY DEF SweepInv, SweepTypeOK
<1>3. order[i] \in Clocks
  BY <1>1, <1>2
<1>4. info'.mbytes \in Nat
  BY <1>1, InitFinds
<1>5. \A c : AtClock(c)' = AtClock(c)
  BY <1>1 DEF AtClock
<1>6. FaultsFound
  BY DEF SweepInv
<1>7. ASSUME pc' # "sort" PROVE Sorting' /\ Sorted'
  BY <1>1, <1>7 DEF SweepInv, Sorting, Sorted, Hz
<1>8. CASE Fail /\ rejected' = rejected
  <2>1. /\ i' \in Nat \ {0} /\ pc' \in {"sweep", "settle"} /\ Chosen'
        /\ best_mb' = best_mb /\ passed' = passed
    BY <1>1, <1>8, FailKeeps
  <2>2. SweepTypeOK'
    BY <1>1, <1>2, <1>8, <2>1 DEF SweepTypeOK
  <2>3. FaultsFound'
    BY <1>5, <1>6, <1>8, <2>1 DEF FaultsFound
  <2>4. QED
    BY <1>7, <2>1, <2>2, <2>3 DEF SweepInv
<1>9. CASE info'.mbytes >= best_mb /\ Try(order[i])
  <2>1. PICK good \in TestsGood(order[i]) :
          \/ good /\ Pass /\ rejected' = rejected
          \/ ~ good /\ Fail /\ rejected' = rejected \cup {order[i]}
    BY <1>9 DEF Try
  <2>2. AtClock(order[i]) \in Defects \cup {Sound, Flaky}
    BY <1>2 DEF SweepTypeOK, AtClock
  <2>3. AtClock(order[i]) # Flaky => good = (psram_memtest(AtClock(order[i])) = 0)
    BY DEF TestsGood
  <2>4. CASE good /\ Pass /\ rejected' = rejected
    <3>1. /\ i' \in Nat \ {0} /\ pc' = "sweep" /\ Chosen' /\ best_mb' \in Nat
          /\ passed' = passed \cup {[clock |-> order[i], mb |-> info'.mbytes]}
      BY <1>1, <1>4, <1>9, <2>4, PassKeeps
    <3>2. SweepTypeOK'
      <4>1. passed' \subseteq [clock : Clocks, mb : Nat]
        BY <1>2, <1>3, <1>4, <3>1 DEF SweepTypeOK
      <4>2. QED
        BY <1>1, <1>2, <2>4, <3>1, <4>1 DEF SweepTypeOK
    <3>3. AtClock(order[i]) \in {Sound, Flaky}
      BY <2>2, <2>3, <2>4, MemTestIsExact
    <3>4. FaultsFound'
      <4>1. \A p \in passed' : AtClock(p.clock) \in {Sound, Flaky}
        BY <1>6, <3>1, <3>3 DEF FaultsFound
      <4>2. QED
        BY <1>5, <1>6, <2>4, <4>1 DEF FaultsFound
    <3>5. QED
      BY <1>7, <3>1, <3>2, <3>4 DEF SweepInv
  <2>5. CASE ~ good /\ Fail /\ rejected' = rejected \cup {order[i]}
    <3>1. /\ i' \in Nat \ {0} /\ pc' \in {"sweep", "settle"} /\ Chosen'
          /\ best_mb' = best_mb /\ passed' = passed
      BY <1>1, <2>5, FailKeeps
    <3>2. SweepTypeOK'
      BY <1>1, <1>2, <1>3, <2>5, <3>1 DEF SweepTypeOK
    <3>3. AtClock(order[i]) # Sound
      <4>1. Sound # Flaky
        BY DEF Sound, Flaky
      <4>2. QED
        BY <2>3, <2>5, <4>1, MemTestIsExact
    <3>4. FaultsFound'
      BY <1>5, <1>6, <2>5, <3>1, <3>3 DEF FaultsFound
    <3>5. QED
      BY <1>7, <3>1, <3>2, <3>4 DEF SweepInv
  <2>6. QED
    BY <2>1, <2>4, <2>5
<1>10. QED
  BY <1>8, <1>9 DEF Clock

\* Back to the best clock, or an error when there is none.
LEMMA EndInv == ASSUME SweepInv, SweepDone \/ Settle PROVE SweepInv'
<1>1. /\ pc \in {"sweep", "settle"} /\ order' = order /\ hz' = hz /\ fault' = fault
      /\ marginal' = marginal /\ i' = i /\ best' = best /\ best_mb' = best_mb
      /\ passed' = passed /\ rejected' = rejected
  BY DEF SweepDone, Settle, board
<1>2. pc' \in {"settle", "done", "failed"}
  BY DEF SweepDone, Settle
<1>3. SweepTypeOK' /\ Sorting' /\ Sorted' /\ FaultsFound'
  BY <1>1, <1>2 DEF SweepInv, SweepTypeOK, Sorting, Sorted, Hz, FaultsFound, AtClock
<1>4. NoneYet' = NoneYet /\ BestSoFar' = BestSoFar
  BY <1>1 DEF NoneYet, BestSoFar
<1>5. pc' = "done" => BestSoFar /\ info'.clock = best'
  <2> SUFFICES ASSUME pc' = "done" PROVE BestSoFar /\ info'.clock = best'
    OBVIOUS
  <2>1. ~ (best < 0) /\ psram_init(best)
    BY DEF SweepDone, Settle
  <2>2. BestSoFar
    BY <2>1 DEF SweepInv, Chosen, NoneYet
  <2>3. QED
    BY <1>1, <2>1, <2>2, InitFinds
<1>6. Chosen'
  BY <1>1, <1>2, <1>4, <1>5 DEF SweepInv, Chosen
<1>7. QED
  BY <1>3, <1>6 DEF SweepInv

\* Every step of the sweep keeps the invariant.
LEMMA SweepNextInv == ASSUME SweepInv, [SweepNext]_sweepVars PROVE SweepInv'
<1>1. CASE SortStep
  BY <1>1, SortInv
<1>2. CASE SortDone
  BY <1>2, SortDoneInv
<1>3. CASE Clock
  BY <1>3, ClockInv
<1>4. CASE SweepDone \/ Settle
  BY <1>4, EndInv
<1>5. CASE UNCHANGED sweepVars
  BY <1>5 DEF sweepVars, board, SweepInv, SweepTypeOK, Sorting, Sorted, Hz, Chosen, NoneYet, BestSoFar,
              FaultsFound, AtClock
<1>6. QED
  BY <1>1, <1>2, <1>3, <1>4, <1>5 DEF SweepNext, Returned
-----------------------------------------------------------------------------

\* The part is brought up again at the fastest of the clocks that passed, and
\* the capacity tested there is no less than at any other, whatever the order of
\* the clock table.  What that last psram_init finds is not bounded: the code
\* does not look at it.
THEOREM AlwaysSettlesOnFastest == SweepSpec => []SettlesOnFastest
<1>1. SweepInv => SettlesOnFastest
  BY DEF SweepInv, Chosen, BestSoFar, SettlesOnFastest
<1>2. QED
  BY SweepInitInv, SweepNextInv, <1>1, PTL DEF SweepSpec

\* No clock at which a line is bad passes the memory test, and none at which the
\* board is sound is refused by it.
THEOREM FaultsAlwaysFound == SweepSpec => []FaultsFound
<1>1. SweepInv => FaultsFound
  BY DEF SweepInv
<1>2. QED
  BY SweepInitInv, SweepNextInv, <1>1, PTL DEF SweepSpec

=============================================================================
