------------------------------ MODULE Firmware ------------------------------
(***************************************************************************)
(* The firmware session of firmware/teensy41-tinyllm: main.c, with the     *)
(* loader of model_store.c and what its commands do to the PSRAM.          *)
(*                                                                         *)
(* One shell thread runs the commands one after the other, so a command is *)
(* one action, with a disjunct for every way it can end.  What makes the   *)
(* session hard is everything a command leaves behind: g_loaded says that  *)
(* the weights in PSRAM, the open stream, the parsed model, the runtime    *)
(* and the tokenizer all belong together, and every command that breaks    *)
(* one of them half-way must have cleared it.                              *)
(*                                                                         *)
(* PSRAM is an array of cells that remember whose weights they hold.       *)
(***************************************************************************)
EXTENDS Integers, FiniteSets

CONSTANTS
    Files,          \* model files on the SD card
    Size,           \* bytes of each file
    KvRow,          \* bytes of int8 KV cache per position, four-fold for fp32
    VocabSize,      \* vocab_size of each file's model
    SeqLen,         \* seq_len of each file's model
    Broken,         \* files tq_model_open rejects
    HasTok,         \* files that carry a tokenizer
    PsramSizes,     \* capacities psram_init may detect, 0 for none
    Window,         \* the 1 MB window of the sweep and the benchmark
    Align,          \* 64: psram_alloc's alignment
    FastSeq,        \* longest context whose activations fit in fast_arena
    Contexts,       \* values of -c a user may give, 0 for none
    MaxAddr,        \* bound: the highest PSRAM address the model tracks
    NoFile          \* no file

ASSUME FirmwareAssumption ==
    /\ Size \in [Files -> Nat \ {0}] /\ KvRow \in [Files -> Nat \ {0}]
    /\ VocabSize \in [Files -> Nat \ {0}] /\ SeqLen \in [Files -> Nat \ {0}]
    /\ Broken \subseteq Files /\ HasTok \subseteq Files
    /\ PsramSizes \subseteq Nat /\ 0 \in PsramSizes
    /\ Window \in Nat \ {0} /\ Align \in Nat \ {0}
    /\ \A m \in PsramSizes \ {0} : Window <= m
    /\ MaxAddr \in Nat /\ FastSeq \in Nat /\ Contexts \subseteq Nat
    /\ NoFile \notin Files

VARIABLES
    mbytes,     \* psram_info()->mbytes, in bytes
    mem,        \* cell -> the file whose weight byte it holds, or NoFile
    mounted,    \* the SD card is mounted
    stream,     \* the file stream_file is open on, NoFile when closed
    store,      \* g_store: [kind, file]
    model,      \* the file g_model was parsed from
    rt,         \* g_rt with its PSRAM layout: [file, seq, kv, scratch]
    tok,        \* the file g_tok belongs to, NoFile when g_have_tok is false
    loaded,     \* g_loaded
    swept       \* history: a sweep failed since g_loaded was last set

vars == <<mbytes, mem, mounted, stream, store, model, rt, tok, loaded, swept>>

-----------------------------------------------------------------------------
(* Layout. *)

AlignUp(n) == ((n + Align - 1) \div Align) * Align

\* tq_kv_bytes and the scratch size of finish_open.
KvBytes(f, seq, kv8) == seq * KvRow[f] * (IF kv8 THEN 1 ELSE 4)
ScratchBytes(f) == 2 * VocabSize[f]

Cells == 0 .. MaxAddr

Region(at, n) == {c \in Cells : at <= c /\ c < at + n}

\* The regions the commands use while g_rt is in force.  The token buffer of
\* cmd_gen starts where the scratch allocation ends.
WeightCells  == IF store.kind = "mapped" THEN Region(0, Size[store.file]) ELSE {}
KvCells      == Region(rt.kv, KvBytes(rt.file, rt.seq, rt.kv8))
ScratchCells == Region(rt.scratch, ScratchBytes(rt.file))
TokenCells   == Region(rt.scratch + ScratchBytes(rt.file), rt.seq)

Scribble(cells) == [c \in Cells |-> IF c \in cells THEN NoFile ELSE mem[c]]

NoStore == [kind |-> "none", file |-> NoFile]
NoRt    == [file |-> NoFile, seq |-> 0, kv8 |-> FALSE, kv |-> 0, scratch |-> 0]

-----------------------------------------------------------------------------

\* main(): PSRAM comes up at the boot clock, the card is mounted if present.
Init ==
    /\ mbytes \in PsramSizes
    /\ mem = [c \in Cells |-> NoFile]
    /\ mounted \in BOOLEAN
    /\ stream = NoFile /\ store = NoStore /\ model = NoFile
    /\ rt = NoRt /\ tok = NoFile /\ loaded = FALSE
    /\ swept = FALSE

\* What every way of starting over does to the session.
Boot ==
    /\ mbytes' \in PsramSizes
    /\ mounted' \in BOOLEAN
    /\ stream' = NoFile /\ store' = NoStore /\ model' = NoFile
    /\ rt' = NoRt /\ tok' = NoFile /\ loaded' = FALSE
    /\ swept' = FALSE

PowerCycle ==
    /\ Boot
    /\ mem' = [c \in Cells |-> NoFile]

\* k_sys_fatal_error_handler ends in a warm reset, which the PSRAM survives.
Fault == Boot /\ UNCHANGED mem

\* reboot_poll, at any moment the work queue runs.
UsbReboot == Boot /\ UNCHANGED mem

\* Mutant: the capacity is added to what the previous clock detected.
SweepAccumulates ==
    \E tried \in (SUBSET (PsramSizes \ {0})) \ {{}}, now \in PsramSizes :
        /\ mem' = Scribble(UNION {Region(m - Window, Window) : m \in tried})
        /\ mbytes' = mbytes + now
        /\ loaded' = FALSE
        /\ swept' = FALSE
        /\ UNCHANGED <<mounted, stream, store, model, rt, tok>>

\* psram sweep: every clock that enumerates a chip has the window at the top of
\* the array tested; psram_init then runs again at the best clock.
SweepSettles ==
    \E tried \in (SUBSET (PsramSizes \ {0})) \ {{}}, now \in PsramSizes :
        /\ mem' = Scribble(UNION {Region(m - Window, Window) : m \in tried})
        /\ mbytes' = now
        /\ loaded' = FALSE
        /\ swept' = FALSE
        /\ UNCHANGED <<mounted, stream, store, model, rt, tok>>

\* No clock passed: the command returns before it reaches g_loaded.
SweepFails ==
    \E tried \in SUBSET (PsramSizes \ {0}), now \in PsramSizes :
        /\ mem' = Scribble(UNION {Region(m - Window, Window) : m \in tried})
        /\ mbytes' = now
        /\ swept' = loaded
        /\ UNCHANGED <<mounted, stream, store, model, rt, tok, loaded>>

\* psram test: the whole array.
MemTest ==
    \/ /\ mbytes = 0
       /\ UNCHANGED vars
    \/ /\ mbytes > 0
       /\ mem' = Scribble(Region(0, mbytes))
       /\ loaded' = FALSE /\ swept' = FALSE
       /\ UNCHANGED <<mbytes, mounted, stream, store, model, rt, tok>>

\* Mutant: the benchmark forgets that it wrote over the model.
BenchKeepsLoaded ==
    /\ mem' = Scribble(Region(0, Window))
    /\ UNCHANGED <<mbytes, mounted, stream, store, model, rt, tok, loaded, swept>>

\* psram bench: reads, then writes, the window at the front.
Bench ==
    /\ mem' = Scribble(Region(0, Window))
    /\ loaded' = FALSE /\ swept' = FALSE
    /\ UNCHANGED <<mbytes, mounted, stream, store, model, rt, tok>>

-----------------------------------------------------------------------------
(* finish_open, on the store and the memory its caller leaves behind. *)

Clamp(f, c) == IF c = 0 \/ c > SeqLen[f] THEN SeqLen[f] ELSE c

\* The fit check, in the code's terms: no alignment, no token buffer.
Fits(f, kind, seq, kv8) ==
    (IF kind = "mapped" THEN Size[f] ELSE 0) + KvBytes(f, seq, kv8) + ScratchBytes(f)
        <= mbytes

\* Mutant: the scratch is allocated without moving past the KV cache.
LayoutOverlaid(f, kind, seq, kv8) ==
    LET kv == AlignUp(IF kind = "mapped" THEN Size[f] ELSE 0)
    IN  [file |-> f, seq |-> seq, kv8 |-> kv8, kv |-> kv, scratch |-> kv]

\* psram_alloc twice, behind the weights when they are resident.
Layout(f, kind, seq, kv8) ==
    LET kv == AlignUp(IF kind = "mapped" THEN Size[f] ELSE 0)
    IN  [file |-> f, seq |-> seq, kv8 |-> kv8, kv |-> kv,
         scratch |-> AlignUp(kv + KvBytes(f, seq, kv8))]

FinishOpen(f, kind, c, kv8) ==
    LET seq == Clamp(f, c)
    IN  \/ /\ f \in Broken
           /\ model' = NoFile
           /\ loaded' = FALSE
           /\ UNCHANGED <<rt, tok>>
        \/ /\ f \notin Broken
           /\ seq > FastSeq \/ ~ Fits(f, kind, seq, kv8)
           /\ model' = f
           /\ loaded' = FALSE
           /\ UNCHANGED <<rt, tok>>
        \/ /\ f \notin Broken
           /\ seq <= FastSeq /\ Fits(f, kind, seq, kv8)
           /\ model' = f
           /\ rt' = Layout(f, kind, seq, kv8)
           /\ tok' = IF kind = "mapped" /\ f \in HasTok THEN f ELSE NoFile
           /\ loaded' = TRUE

\* load refused for want of PSRAM: nothing has changed yet.
LoadRefused(f) ==
    /\ mbytes = 0
    /\ UNCHANGED vars

\* load that fails before g_store changes: no card, no such file, no room, or
\* a read error after n bytes were copied.
LoadFails(f) ==
    /\ mbytes > 0
    /\ loaded' = FALSE /\ swept' = FALSE
    /\ stream' = NoFile
    /\ \/ /\ ~ mounted                          \* model_sd_mount fails
          /\ UNCHANGED <<mounted, mem>>
       \/ /\ mounted' = TRUE                    \* fs_stat or fs_open fails
          /\ UNCHANGED mem
       \/ /\ mounted' = TRUE                    \* ENOSPC
          /\ Size[f] > mbytes
          /\ UNCHANGED mem
       \/ /\ mounted' = TRUE                    \* read error
          /\ Size[f] <= mbytes
          /\ \E n \in 0 .. Size[f] - 1 :
                mem' = [c \in Cells |-> IF c < n THEN f ELSE mem[c]]
    /\ UNCHANGED <<mbytes, store, model, rt, tok>>

\* load that reads the whole file.
LoadOpens(f, c, kv8) ==
    /\ mbytes > 0 /\ Size[f] <= mbytes
    /\ mounted' = TRUE
    /\ stream' = NoFile
    /\ mem' = [x \in Cells |-> IF x < Size[f] THEN f ELSE mem[x]]
    /\ store' = [kind |-> "mapped", file |-> f]
    /\ swept' = FALSE
    /\ FinishOpen(f, "mapped", c, kv8)
    /\ UNCHANGED mbytes

\* Mutant: g_loaded survives a failed stream.
StreamFailsLoaded(f) ==
    /\ mounted' = TRUE /\ stream' = NoFile
    /\ UNCHANGED <<mbytes, mem, store, model, rt, tok, loaded, swept>>

\* stream that fails: the old stream is closed once the card is mounted.
StreamFails(f) ==
    /\ loaded' = FALSE /\ swept' = FALSE
    /\ \/ ~ mounted /\ UNCHANGED <<mounted, stream>>
       \/ mounted' = TRUE /\ stream' = NoFile
    /\ UNCHANGED <<mbytes, mem, store, model, rt, tok>>

StreamOpens(f, c) ==
    /\ mounted' = TRUE
    /\ stream' = f
    /\ store' = [kind |-> "stream", file |-> f]
    /\ swept' = FALSE
    /\ FinishOpen(f, "stream", c, TRUE)
    /\ UNCHANGED <<mbytes, mem>>

\* gen: the sampler, the prompt and the KV cache are written; it may stop at
\* any position for an end of text or a failed read.
Gen ==
    \/ /\ ~ loaded
       /\ UNCHANGED vars
    \/ /\ loaded
       /\ \E kv \in SUBSET {KvCells} :
              mem' = Scribble(TokenCells \cup ScratchCells \cup UNION kv)
       /\ UNCHANGED <<mbytes, mounted, stream, store, model, rt, tok, loaded, swept>>

\* sem encode and sem decode need the tokenizer, sem hash does not; all run the
\* model and touch nothing but the KV cache.
Sem ==
    \/ /\ ~ loaded
       /\ UNCHANGED vars
    \/ /\ loaded /\ tok = NoFile
       /\ UNCHANGED vars
    \/ /\ loaded
       /\ mem' = Scribble(KvCells)
       /\ UNCHANGED <<mbytes, mounted, stream, store, model, rt, tok, loaded, swept>>

Commands ==
    \/ SweepSettles \/ SweepFails \/ MemTest \/ Bench \/ Gen \/ Sem
    \/ \E f \in Files : LoadRefused(f) \/ LoadFails(f) \/ StreamFails(f)
    \/ \E f \in Files, c \in Contexts, kv8 \in BOOLEAN : LoadOpens(f, c, kv8)
    \/ \E f \in Files, c \in Contexts : StreamOpens(f, c)

Next ==
    \/ Commands
    \/ PowerCycle \/ UsbReboot \/ Fault

Spec == Init /\ [][Next]_vars

-----------------------------------------------------------------------------

TypeOK ==
    /\ mbytes \in PsramSizes
    /\ mem \in [Cells -> Files \cup {NoFile}]
    /\ mounted \in BOOLEAN
    /\ stream \in Files \cup {NoFile}
    /\ store \in [kind : {"none", "mapped", "stream"}, file : Files \cup {NoFile}]
    /\ model \in Files \cup {NoFile}
    /\ rt \in [file : Files \cup {NoFile}, seq : Nat, kv8 : BOOLEAN, kv : Nat, scratch : Nat]
    /\ tok \in Files \cup {NoFile}
    /\ loaded \in BOOLEAN
    /\ swept \in BOOLEAN

\* While a model is loaded, the store, the parsed model, the runtime, the
\* tokenizer and the open stream are all of the same file, whatever commands
\* failed half-way before.
Coherent ==
    loaded => /\ store.file = model /\ model = rt.file /\ model \in Files
              /\ store.kind = "stream" => stream = model
              /\ tok # NoFile => tok = model /\ store.kind = "mapped"

\* While a resident model is loaded its weights in PSRAM are intact: no other
\* command, no failed load and no generation has written over them.  The one
\* exception is a sweep that found no usable clock, see ModelSurvivesSweep.
WeightsIntact ==
    loaded /\ ~ swept => \A c \in WeightCells : c < mbytes /\ mem[c] = store.file

\* The layout of finish_open never lets two regions share a byte.  Its fit check
\* leaves out the alignment and the token buffer, so the layout may end past the
\* array, but by no more than that: two paddings and one position per token.
LayoutSound ==
    loaded =>
        /\ WeightCells \cap (KvCells \cup ScratchCells \cup TokenCells) = {}
        /\ KvCells \cap (ScratchCells \cup TokenCells) = {}
        /\ ScratchCells \cap TokenCells = {}
        /\ ~ swept => \A c \in KvCells \cup ScratchCells \cup TokenCells :
                         c < mbytes + 2 * (Align - 1) + rt.seq

\* "the sweep just scribbled over the array" is why cmd_psram clears g_loaded:
\* whenever a model counts as loaded its weights are intact.
ModelSurvivesSweep ==
    loaded => \A c \in WeightCells : mem[c] = store.file
=============================================================================
