# A verification of tinyllm for the Teensy 4.1

TLA+ models of the engine, the firmware and the host tools of this repository,
TLC configurations that check them on small instances, and TLAPS proofs of the
properties that matter for every instance. Paths below are relative to the
repository.

## The system

tinyllm runs a llama2-style model on a Cortex-M7 with soldered-on PSRAM. The
same C engine (`core/`) runs on the board (`firmware/teensy41-tinyllm/`) and on
the host (`host/`); `tools/` holds the converter and a chat client that talks to
the board's shell over USB serial.

| Part | State it keeps | Operations | Talks to |
|---|---|---|---|
| range coder, `tq_ac.c` | low, range, cache and pending bytes, output; code and range of the decoder | code a symbol, renormalise, finish; find a symbol, renormalise | semaphore |
| semaphore, `tq_sem.c`, `main.c` | tokens, wire buffer | encode and decode a message, hash | range coder, engine |
| model parser, `tq_model.c` | resolved offsets | open | store |
| arena and runtime, `tq_model.c` | fill level, regions | carve, size, init | firmware, host |
| weight store, `tq_kernels.c`, `model_store.c` | the tile, the open file | view, stream read, matrix product | engine |
| forward pass, `tq_forward.c` | residual, KV cache, logits | one token | store, its callers' loops |
| tokenizer, `tq_tokenizer.c` | none of its own | encode, decode, lookup | gen, semaphore |
| sampler, `tq_sample.c` | random state, scratch | sample | gen |
| firmware session, `main.c` | g_loaded, store, model, runtime, tokenizer, layout of the PSRAM | psram sweep/test/bench, load, stream, gen, sem, info, fault | all of the above |
| PSRAM driver, `psram_flexspi2.c` | detected chips and clock | init, sweep, memory test, bench | session |
| model store, `model_store.c` | mount, open stream, staging buffer | load, open, read, close | session, store |
| chat client, `tools/chat.py` | dirty flag, framer | one turn, resync, cancel, timeout | board's shell |
| integer kernels, `tq_kernels.c` | none | dot products of packed blocks, in two builds | engine, converter's layout |
| fault capture, USB console and reboot | a record over reset; a work item | record, print, clear; reset | session |
| converter and probes, `tools/etq`, ... | none | offline conversion | file format |

What is hard here. Nothing in the engine is concurrent; its difficulties are
long sequences of legal commands over state that is never cleared (one PSRAM
array laid out by hand, one tile, one KV cache), early returns between two steps
that belong together, and arithmetic at its limits (carries, alignment, short
last chunks). The chat client and the board are concurrent: the board cannot be
stopped, the host sees it only through chunks of text, and Ctrl-C and timeouts
fall anywhere. And a message passes through two builds of the engine on two
machines that must agree to the last bit. `PROJECT.json` lists the hazards line
by line with the properties that cover them.

## Modules

| Module | Models | Composed of |
|---|---|---|
| `AcTables` | count tables, cumulative counts, normalisation | |
| `RangeEncoder`, `RangeDecoder` | the two ends of `tq_ac.c` | `AcTables` |
| `RangeCoder` | a message through both | both ends |
| `Courier` | abstract: a channel that delivers what it was handed, or is known to have lost it | |
| `Tokenizer` | `tq_lookup`, `tq_encode`, `tq_decode` | |
| `Kernels` | the integer dot products, plain and packed | |
| `Semaphore` | host and board exchanging a text | `RangeCoder`, `Tokenizer`, `Kernels`, two-level tables |
| `Sampler` | `tq_sample` and its heap sort | |
| `Arena` | `tq_carve` | |
| `RuntimeInit` | `tq_runtime_init` and its sizing functions | `Arena` |
| `ModelOpen` | `tq_model_open` | |
| `WeightStore` | `tq_store_view`, `tq_matvec`, `stream_read` | |
| `Inference` | `tq_forward`, the KV cache, the loops of gen and sem | |
| `Firmware` | a shell session on the board, its faults and reboots | |
| `MemTest` | `psram_memtest` as a function of the board's fault | |
| `PsramSweep` | `psram_clock_sweep`, `psram_init` | `MemTest` |
| `ChatSerial` | `SerialBackend`, `ShellFramer`, the REPL and the board's shell | |
| `RangeCoderProofs` | proofs about the coder, up to the safety part of `Courier` | `RangeCoder` |
| `SemaphoreProofs` | proofs about a message from the typed words to the printed text, and about the kernels, the lookup, the merging and the count tables it rests on | `Semaphore`, `RangeCoderProofs` |
| `ModelProofs` | proofs about `tq_carve`, `tq_runtime_init`, the sizing functions and `tq_model_open` | `RuntimeInit`, `ModelOpen` |
| `DeviceProofs` | proofs about the session and the PSRAM driver | `Firmware`, `PsramSweep` |
| `SamplerProofs`, `WeightStoreProofs`, `InferenceProofs`, `ChatSerialProofs` | proofs about the module they are named after | that module |

`MC*` modules give the constants their values. Definitions named in a comment
beginning with "Mutant:" are faulty variants of the definition after them; no
specification uses them. Each property is checked against one of them.

How state and actions correspond to the code:

* **Range coder.** Variables are the fields of `TqAcEnc` and `TqAcDec`. Each call
  is an action and each turn of a renormalisation loop another. Words are four
  digits of an arbitrary base with the proportions of the code: base 256 gives
  `TQ_AC_TOT` = 2^16, `TQ_AC_TOP` = 2^24, a word of 2^32. `low` has one digit
  more than the word's, as the `uint64_t` has, and is cut by a remainder where
  the code masks it. Overflow of the buffer, stripping of zeroes and the
  decoder's reading past the end are in the model.
* **Semaphore.** Sender and receiver are each a host or a board, with the
  buffers each of them has and the limits each of them checks. The host holds a
  wire of 4096 bytes (`MAX_WIRE`), the board one of 640 (`SEM_MAX_WIRE`), and
  the board's command line has room for the digits of 118 (`LINE_WIRE`: 255
  characters, of which `tinyllm sem decode` takes 19); the Zephyr shell drops
  what comes behind, without a word. `Arrive` cuts a wire where the reader does,
  and calls it cut then; a board refuses what its buffer cannot hold. A
  vocabulary of more than `TQ_AC_MAX_VOCAB` tokens is refused before anything
  else. A message starts as the words the sender was given (the board joins them
  in a buffer that leaves out what does not fit) and ends as the text the
  receiver prints. The two ends run the same model up to the last matrix, which
  is multiplied with the kernels of the end's own processor: the tables at
  either end come from that end's logits. A row is one block, whose scale is
  taken to be one: how the dot products add blocks up in fp32
  (`tq_kernels.c:321`), and all of `tq_forward` before them (`Hidden`), is taken
  to be the same at both ends. The weight function is taken at whole powers of
  two, where the code's table is exact. The wire arrives whole, cut, or as bytes
  nobody sent. The coder is given the tables the logits lead to
  (`CodedTablesAssumption`), which `CountTablesLegal` shows to be tables it can
  use.
* **Kernels.** Functions on blocks of 32 weights, in the byte layout that
  `tools/etq/quantize.py` writes. A word is its four byte lanes, and the packed
  instructions are what they do to the lanes. Scales are left out: both builds
  apply them to the integer result with the same line of C.
* **Sampler.** One call, from the logits to the token. Weights are whole numbers
  and probabilities exact fractions of their sum; each turn of the loops of the
  heap sort is an action. The random number is the cell of the mass it falls in,
  an arbitrary one. Since nothing is rounded, the fallbacks behind the two loops
  that walk the cumulated mass are never reached. A sampler without scratch
  draws from the whole vocabulary.
* **Arena and RuntimeInit.** Real bytes. One action per carve, in the order of
  the code, in an arena of exactly the size the sizing functions give or of any
  smaller size.
* **ModelOpen.** One action for the header checks (which fail in their order),
  one per chunk, one per directory entry, one for the final checks. An entry is
  chosen when the walk reaches it, so every directory is covered. Whether dtype,
  ndim and shape are as expected is one boolean. `offset + nbytes` wraps.
* **WeightStore.** A byte of weights is its offset in the file, so the model
  tells which bytes a row was computed from. One action per view, per `fs_read`
  and per tile of rows. Reads return any part of what was asked, or fail.
  Offsets are words and their sums wrap, as `tq_model_open` lets a directory say;
  a mapped store then passes its check on the wrapped sum and reads where the
  address leads. The exit for another dtype is left out, since no tensor that was
  opened has one.
* **Inference.** A vector is the set of cached rows it was computed from, a row
  being a layer, a position and the token fed there. `tq_forward` is an
  embedding step, then per layer one step up to `tq_kv_store` and one behind it;
  a read of the weights may fail in each, and ends the command there. Commands
  follow one another over a cache that starts with garbage and is never cleared.
  Sampling and decoding are a free choice of the next token.
* **Tokenizer.** Texts and pieces are byte sequences, the lookup is the binary
  search over the converter's order, and one merge is one action. The spelling
  `<0xNN>` is a mark and the byte. Texts that themselves spell such a token, or
  the opening token `<s>`, are left out, since the code takes them for one
  (`SpellingAssumption`). So are vocabularies that lack a byte token, since the code drops
  such bytes without notice, and pieces of 64 bytes or more, which `tq_decode`
  cuts to its 64-byte buffer.
* **Firmware.** One action per shell command and outcome; a command's partial
  effects before an early return are part of the action. The PSRAM is an array
  of cells that say which file's weights they hold. A fault, a reboot asked for
  over USB and a power cycle may fall between any two commands; the first two
  leave the PSRAM as it is.
* **PsramSweep.** The insertion sort comparison by comparison, then one action
  per clock. What a probe finds is a new choice every time. The board is sound,
  flaky, or has a bad line, at every clock or from some frequency on.
* **MemTest.** A pure function: the number of words that read back wrong over
  one stuck or shorted data line or one stuck address line, which act on writes
  and on reads. `PsramSweep` evaluates it at each clock. Only address lines
  inside the tested window are in it, as only those toggle during a test. A word
  and an index are functions from bit positions to 0 and 1, so that an exclusive
  or is a sum modulo two of each bit and the index of a loop compares from its
  highest bit down.
* **ChatSerial.** Items on the line are what the framer tells apart, tagged with
  the command that printed them; the prompt is two items, since a chunk may end
  inside it. Ctrl-C is enabled at every step of a turn. A generation may print a
  line that looks like a prompt, an error or the footer's `--`; the framer takes
  it for one exactly where the code does, which for a prompt depends on where
  the chunk ends. Of the two lines behind `--` the framer's state is told from
  `tail` by nothing a property sees, so both are one state.

## Runs

Each passing run explores its whole state space; deadlock is checked in all of
them, a system that has finished being allowed to stutter explicitly.

| Run | States | Bounds | Shows |
|---|---|---|---|
| `range_coder` | 173 k | base 4, four tables, 4 symbols, buffers of 4 and 6 bytes | implements `Courier` with its liveness; round trip, no lost carry, ranges never collapse, tail of one byte |
| `semaphore` | 41 k | base 4, 3 vocabularies of 11-13 tokens in at most 4 buckets of 4 and one of 17, 8-bit and 4-bit weights, lengths 0-3, context 3, a board's text of 8 bytes, wires of 12 bytes at the host, 6 in the board's buffer and 7 on its command line, stray wires of up to 3 digits | implements the safety of `Courier` token by token; the text arrives byte for byte; merging is complete; both builds compute the same integer products; what was sent is accepted, but for three reasons; no wire does harm; both commands return |
| `sampler` | 65 k | all vectors of 5 logits over 4 values, 8 settings, one without scratch | the sorted arrays stay in step; the draw is from the nucleus of the whole vocabulary, each token with its exact share |
| `runtime_init` | 111 k | 16 shapes, contexts 0-4, all 16 skews | regions aligned, inside and disjoint; sizes sufficient |
| `model_open` | 1.0 M | 3 entries in chunks of 2, 2 globals, 1 layer tensor, sums that wrap | what a directory means, that payloads end inside the file unless their end wraps, and that `MISSING` is real |
| `weight_store` | 339 k | file of 13, tile of 5, staging of 2 bytes, 7 matrices, one around the last of 32 offsets | every row from its own weights, which are in the file; refusals have a cause; calls return |
| `inference` | 70 k | 2 layers, context 3, 3 tokens | logits depend on exactly what was fed; no position out of range; the prompt is fed verbatim |
| `firmware` | 13 k | 3 files, PSRAM of 0, 8 or 12 cells | store, model, runtime, tokenizer and stream agree; weights intact; regions disjoint; how far a layout can overrun |
| `psram_sweep` | 97 k | 4 clocks, 3 orders, 2 chips of 8 or 16 MB; 8 words of 8 bits, 4 data lines | settles on the fastest passing clock, at the largest capacity tested, whatever the order of the table; bad lines never pass, a sound board never fails |
| `chat` | 219 k | 3 commands, 1 line of text, 1 imitation, 2 sessions | answers belong to their questions; a clean line is quiet; a failure is reported if and only if the board failed; errors and timeouts are recoverable; the REPL returns from every silence |

Why the bounds are enough to meet the cases. Base 4 is the least base in which
a pending digit, a digit below it and a carry are all different things; four
symbols give a carry through several pending digits and a buffer that fills.
The semaphore's last bucket is short, its context is shorter than what the
length field can express, and its texts hold a space in front, between and
behind, a code point whole, cut off and out of place, more tokens than the
board's array and a word the board's buffer has no room for. One wire fits the
host and not the board's buffer, another not even the line: with the bounds
above both cases occur, and a board as well as a host runs out of buffer while
it codes. (In the shipped configuration the line is the shorter of the two, 118
bytes to 640, so that there the line cuts first; the theorems are for all sizes.)
Its weights and
activations reach the ends of their types, so a borrow between lanes would show.
Five logits over four values give ties on both sides of the cut-off and a heap
whose last parent has one child or two. The arena's shapes have vectors that are no multiple
of 16 bytes. Three directory entries in chunks of two give a full and a short
chunk and a duplicate in either. The tile holds rows of two bytes with one left
over, a row exactly, or none. Three positions over two layers are enough for a
stale row on either side of the present one. Two sessions and three commands let
a cancelled, a timed-out and a good command follow one another.

### Disagreements with what the code says of itself

Two runs check one property each, taken from a comment or message of the
repository, and TLC shows a behaviour of the code that violates it.

| Run | Said | Found |
|---|---|---|
| `firmware_failed_sweep` | a sweep clears g_loaded since it "just scribbled over the array" (`main.c:102`) | a sweep without a usable clock returns before it does |
| `chat_cancel` | after Ctrl-C "the next command waits for it" (`chat.py:527`) | Ctrl-C at an idle board leaves a wait for a prompt that never comes |

Others that came up while the models were written have no run of their own:

* `main.c:764` reports "no PSRAM found — SD streaming still works", but
  `finish_open` places the KV cache and the scratch in PSRAM for a streamed model
  too and compares their size with the capacity: without PSRAM every stream ends
  in -ENOMEM (`Fits` in `Firmware`).
* The check behind "KV cache (%u KB) will not fit alongside the model"
  (`main.c:207`) counts neither the alignment of `psram_alloc` nor the token
  buffer of `cmd_gen`. `LayoutSound` says by how much a layout that passes can
  end beyond the array.
* "losing CS1 at speed must not count as pass" (`psram_flexspi2.c:602`), but the
  `psram_init` that settles on the winner (line 639) may find less than was
  tested, and the sweep still succeeds (`Settle` in `PsramSweep`).
* "offset 0 is the header, so it can never be a payload" (`tq_model.c:340`) is
  enforced for layer tensors only; a global at offset 0 opens (`ModelOpen`).
* A truncated stream "shows up as a decoded token the caller rejects"
  (`tq_ac.c:341`), but no decoded token is ever outside the vocabulary
  (`AnyWireIsHarmless`), and a cut wire can decode to another message.
* "Wire format matches host/tq_sem.c exactly" (`main.c:501`), but the board
  refuses the empty message, whose wire has no bytes, a message that fills the
  context, and a wire longer than its 640 bytes, where the host sends up to 4096
  (`IntactWireAccepted`). A wire of more than 118 bytes does not even get there:
  the command line drops its end, and what is left decodes to another message.
* The logits "host<->device [do] not yet" agree bit for bit, since `tq_forward`
  "calls expf/sinf/cosf" (`tq_ac.h:19`), but `STATUS.md` ("Logits are
  bit-identical across architectures") and `main.c:668` say that they do, and
  `tq_math.c` has replaced these functions: the header is out of date. Of this
  contract `KernelsAgree` covers the part that the two builds compute in
  different ways, the integer products; that the float part has the same result
  everywhere is measured by `make -C host test-bitexact`, not modelled.
* "rebooted by a fault" (`fault_capture.c:122`) is logged at every boot that finds
  a record, but no boot clears it, so a later reboot asked for over USB is
  announced as one by a fault too, where the memory was spared.

### Refinement

`Courier` says what the coder and the protocol over it are for, without coding:
items handed over one by one arrive one by one, the same and in order, after the
message was sealed; or the message is lost, and then one of the ends has said so
or the wire was damaged. `RangeCoder` implements all of it for symbols, the
promise that a message is delivered or lost in the end included
(`SymbolsByCourier`); `Semaphore` implements its safety for tokens
(`TokensByCourier`), since nobody has to carry the wire. The mapping is direct:
what was coded, what was decoded from an undamaged wire, and the state of the
two commands. It is what forbids a decoder that runs ahead of the sender, and a
wire that is cut by a full buffer and delivered all the same.

### Fairness

* `RangeCoder`: weak fairness of the next step. Both ends are plain function
  calls, and the message is finite.
* `Semaphore`: weak fairness of the steps of the two commands. A command is a
  function call that nothing interrupts; that the wire is carried from one
  machine to the other is not assumed.
* `WeightStore`: weak fairness of the steps of a call that has started, one
  thread's function call whose reads return. Nothing says a call is ever made.
* `ChatSerial`: weak fairness of the host's own steps and of its deadlines.
  Of the board, which may hang, or of the user no step is assumed. But a command
  prints at most `MaxText` lines: `_run` renews its deadline with every chunk
  (`chat.py:414`), so a board that never stopped printing would keep the REPL for
  ever, and `ReplReturns` is about boards that fall silent, not about that one.

The other specifications state no fairness and have no liveness property.

## Proofs

Every proof is checked by TLAPS with the SMT solver, Zenon and, for the temporal
steps, LS4.

**`RangeCoderProofs`** assumes a base of at least two, and that every table's
entries are inside the total, which `TablesAssumption` and the definition of a
legal triple say. For every such base, table set, buffer size and message length:

* `TypeCorrect`: every field stays in its C type; `low` needs one carry digit.
* `CarryNeverLost`: when `low` carries out of its word there is a primed cache
  digit below the largest one to take the carry.
* `RangesStayWide`: both ends start every symbol with a range of at least
  `TQ_AC_TOP`, so the divisions are defined.
* `AlwaysRoundTrips`: the decoder finds the symbols that were coded.
* `CodeAlwaysInside`: the code word of a genuine message stays in its interval.
* `TailAlwaysShort`: finishing adds at most one byte.
* `SymbolsArriveInOrder`: the coder implements `Courier`'s safety. `Send` is
  `Hand`, the last step of the strip is `Seal` or `Lose`, `Receive` is `Arrive`,
  and every other step changes nothing the courier has.

`CarryAbsorbed` is not inductive. Whether a carry can come is decided by how far
the interval reaches, so `EncInv` adds `CarryRoom(range)`: `low + range` stays
within two words, and where it reaches beyond one word the cache can take it.
Coding a symbol shrinks the interval inside itself, and a renormalisation step
multiplies both sides by the base: that is the whole argument, and the lemmas
on division and on `tq_ac_shift_low` supply its steps. After `tq_ac_enc_finish`
the interval is a point and the invariant is about `low` alone.

The round trip is not an invariant of the registers either: they have forgotten
what the bytes sent earlier mean. It is proved of the sequence of intervals the
message goes through, each with a low end that is never cut. A history starts at
the whole word and narrows to the share of the next symbol while the range is
wide, or widens by a digit while it is not (`CoderStep`). `FullInv` says that

* `EncSaid`: the encoder is at the end of such a history. The interval's low end
  is `FullLow`, the number that the bytes in the buffer, the cache, the pending
  run and `low` make up together; a carry moves value between them and leaves the
  number as it is. What `tq_ac_enc_finish` rounds to lies in the last interval,
  the first of its five shifts completes the digits of it, the other shifts and
  the strip add and remove zeroes (`TailInv`).
* A number with those digits that lies in the last interval lies in every one
  before it (`PointsIntoAll`).
* `DecSaid`: the decoder is somewhere in the same history; its code word is the
  distance between the digits it has read and the interval's low end, and its
  range the interval's. So its target falls inside the share of the symbol that
  was coded, and the search finds that one (`FindExact`).

An induction over the digits of a number cannot be cited from the library here;
the lemmas on folds and digits argue with the least counterexample instead.

**`ModelProofs`** on the runtime assumes that shapes are natural numbers with
whole blocks, as `tq_model_open` checks, and that the KV cache is handed in at a multiple of 16
bytes, as `psram_alloc` and `malloc` return it. For every shape, context, size
and address:

* `RegionsAlwaysSound`: what is carved is aligned, inside its arena, disjoint.
* `NoEarlyRefusal`: a carve is refused only when the requests and 15 bytes for
  each exceed the arena.
* `SizingAlwaysSuffices`: an arena of the size the sizing functions give is never
  too small.
* `RuntimeTypeCorrect`.

`RegionsSound` needs that all earlier regions end at or before `used`
(`CarvedBelowUsed`), and the refusal bound needs the same count for `used`
itself (`UsedBound`); `ArenaInv` is their conjunction. That the sizes suffice
needs which requests were made so far and what they add up to (`SizeInv`). For
the activations the slack of `tq_runtime_bytes` covers any address. The slack of
`tq_kv_bytes` does not: the cache fits since its base is aligned.

**`ModelProofs`** on `tq_model_open`, for directories of any length in chunks of any size:
`AlwaysOpensAsWritten`, `MissingAlwaysReal`. `Walked` says at every entry what
the found set and the offsets are of the entries inspected so far: first of its
name for a global, last for a layer tensor.

**`WeightStoreProofs`**, for every size of file, tile and staging buffer and all
matrices, inside the file, outside and around the last offset:
`RowsAlwaysTheirs`, `RefusalsHaveCause`. Between two reads the invariant says
how much of the tile is good: its first `done` bytes are the weights from row
`i` on (`Filling`), the rows before `i` are finished, end inside the file and
the rest untouched (`Halfway`); so no sum of offsets has wrapped by the time the
next rows are asked for. What else is in the tile, from an earlier call or one
that broke off, appears nowhere in it.

**`InferenceProofs`**, for every number of layers, context, vocabulary, prompt
and number of steps: `TypeCorrect`, `LogitsAlwaysFromContext`,
`ContextNeverOutrun`, `PromptAlwaysVerbatim`. The cache is never cleared, so the
invariant says which rows are this command's: all layers of earlier positions
and, inside a step, the layers already stored (`Cached`); the residual is what
the layers below the present one make of the tokens fed (`Residual`).

**`DeviceProofs`** on the session, for every set of files, capacity and alignment:
`TypeCorrect`, `AlwaysCoherent`, `WeightsStayIntact`, `LayoutAlwaysSound`.
`WeightsIntact` needs that what a generation writes lies
behind the weights. `Kept` provides it: while `g_loaded` is set the runtime is
the one `finish_open` lays out for the store's file, and it passed the fit check
against the memory there is now. A failed sweep leaves the flag set and changes
that memory; the invariant excludes exactly this (`swept`), which is the
disagreement `firmware_failed_sweep` shows.

**`DeviceProofs`** on the sweep, for any width of word, any number of lines within it, any
clocks in any order: `MemTestIsExact`, `AlwaysSettlesOnFastest`,
`FaultsAlwaysFound`. A stuck or shorted line changes a bit of one of two words
that differ in that bit; a stuck address line makes two words share a cell, and
they have different patterns. What is bounded is the capacity that was tested:
the `psram_init` that brings the part up at the chosen clock may find less, the
code does not look, and no property says otherwise. The sweep needs the insertion sort's invariant
(`Sorting`): the prefix is in order but for the element on its way down.

**`ChatSerialProofs`**, for any number of commands, lines, imitations and starts
of `chat.py`: `AlwaysPaired`, `CleanAlwaysQuiet`, `VerdictAlwaysTheBoards`,
`DirtAlwaysRecoverable`. All the host knows of the board is in the bytes on
their way, so the invariant is about one stream: what is left of the last chunk
and what has not been read. `Tagged` says whose bytes they can be, `OneAtATime`
that the end of an answer is at the end of the stream, `Awaited` that the prompt
a command waits for is in the stream or still to be printed, `Answer` where the
error line is.

**`SamplerProofs`**, for vocabularies of any size, any logits, temperature and
top-p: `SamplerTypeCorrect`, `AlwaysInStep`, `AlwaysDrawsTheNucleus`. The
invariant has a part for every loop (`HeapInv`): a heap from `i` on while it is
built, a heap with one hole while an entry sinks, a heap in front of a sorted
tail while the largest are popped, and so a descending row at the cut; `CutInv`
says the cut is the first place where the mass exceeds top-p. That this is the
nucleus of the whole vocabulary, most of which was never sorted, needs that the
tokens below the cut-off leave more than top-p to the others, and that a row and
a set with the same weights have the same mass.

**`SemaphoreProofs`** assumes what the converter and the commands guarantee:
vocabularies with a piece for every byte and pieces that fit the decoder's
buffer, weights and activations inside their types, a bucket and a length field
no larger than the coder's total, which the length field divides
(`TokenizerAssumption`, `SpellingAssumption`, `SemaphoreAssumption`). The coder's
set of tables contains those of the predictions (`CodedTablesAssumption`). For
every such vocabulary, head, activation, text, wire, pair of machines and buffer
size:

* `TextAlwaysArrives`: the text typed at one end is printed at the other.
* `IntactAlwaysAccepted`: an intact wire is refused by a board only, and in the
  three known cases only.
* `WireAlwaysHarmless`: no text and no wire, cut or never sent, leads the
  tokenizer, the coder or the decoder out of its arrays, tables and words.
* `KernelsAlwaysAgree`: both builds compute the same integer products.
* `AlwaysMergedOut`: no pair of neighbours is left that makes up a piece.
* `TokensArriveInOrder`: two machines implement the safety of `Courier` for
  tokens. Coding the second symbol of a token is `Hand`, decoding it is `Arrive`.
* `CountTablesLegal`: every count table has positive counts and the coder's
  total. Shares rounded down never add up to more than there is to share, and
  the rest goes to one symbol, so the total is exact.
* `KernelsExact`: the packed kernels and the plain ones compute the inner product
  of what was packed, for all values of a block.
* `LookupFinds`: the bisection finds a piece if and only if there is one.

The inductive invariant `SemInv` joins four accounts. `TokInv`: the tokens spell
the part of the text that was split, behind the space that `tq_encode` puts in
front; a merge replaces two tokens by one with the same spelling. `Coder`: the
range coder's `FullInv`, and only its part on types and ranges once the wire was
damaged, since a decoder of stray bytes follows no encoder. `Sends`: what was
coded is the length, then a bucket and a symbol for each token, with the tables
that the tokens before it predict. `Receives`: on an intact wire the decoded
tokens are the beginning of the message. So at every symbol both ends have the
same prefix, hence the same logits (`KernelsExact`) and the same table, hence the
coder's round trip applies to the next symbol, which extends the prefix. None of
the four holds without the others.

The library's induction theorems cannot be used here, as they take an operator
for a parameter. `SetInduction`, proved from the well-foundedness of the natural
numbers, takes a set in its place, and `Recursion` shows that a function defined
by recursion over `0 .. m` exists. Everything about sums, bisection, merging and
printing is proved with these two.

Only model-checked: liveness, which is beyond this prover. That is the part of
`SymbolsByCourier` that says a message is delivered or lost in the end,
`CommandsReturn`, `CallReturns` and `ReplReturns`. Every safety property of the
passing runs is also a theorem.

## Not modelled

* Floating point: scales and their fp16 form, quantisation up to the packing,
  `tq_math.c`, RMS norm, softmax, RoPE, and the rounding of cumulated
  probabilities in `tq_sample`, with the fallback that catches it.
* The random number generator of the sampler: an arbitrary draw stands for it.
* The record of a fault: whether it outlives the reset is decided by the linker,
  the cache and the boot loader; a model could only assume it.
* What `psram_init` finds after a sweep against what the sweep tested: see the
  disagreements. A sweep that succeeds clears `g_loaded`, so that no session
  depends on it.
* Register programming of FlexSPI2 and the PSRAM's command tables, the USB
  descriptors.
* `info`, `fault`, `ls`, `bench`, `explain` and the comparison with DEFLATE: they
  print. `sem hash` is in `Inference` for its forward passes only.
* The converter beyond the layouts its readers rely on, and the plotting and
  probing tools: offline, without state.
* `LocalBackend` of `chat.py`: one subprocess per turn, killed with it.
* ANSI sequences, log lines and wrapped echoes in the serial framer.

A board that is busy with an earlier session's command, and text that imitates a
prompt, can deceive `chat.py`: it makes no attempt to detect either.
`CleanMeansQuiet` and `VerdictIsTheBoards` are stated for the other behaviours;
`Pairing`, `DirtIsRecoverable` and `ReplReturns` say what remains true in these.

## Plan

The order in which the models were written, most important first: the range
coder and the semaphore over it; the firmware session; the arena; the chat
client; then the parts that move the weights and the tokens; then the sampler,
the kernels, and the composition of tokenizer, kernels and coder.

Left open: a composition of `Inference` with `WeightStore`, so that a norm
weight viewed in the tile is used before the next view; an abstract
specification of a session (a model is loaded whole or not at all) that
`Firmware` implements.
