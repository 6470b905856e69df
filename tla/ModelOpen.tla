----------------------------- MODULE ModelOpen ------------------------------
(***************************************************************************)
(* tq_model_open of core/src/tq_model.c: the header checks, the walk over  *)
(* the tensor directory in chunks, and the checks behind it.               *)
(*                                                                         *)
(* A directory names tensors in any order, more than once, or not at all.  *)
(* The walk resolves globals and layer tensors differently: a global keeps *)
(* the first entry of its name and ignores the others, a layer tensor the  *)
(* last.  Entries are revealed as the walk reaches them.                   *)
(***************************************************************************)
EXTENDS Integers, Sequences

CONSTANTS
    Globals,        \* names of want[]
    Required,       \* those required of every file; "cls" unless shared
    Parts,          \* the tensors of a layer
    NLayers,        \* n_layers of the header
    Layers,         \* layer numbers that occur in names
    DIR_CHUNK,      \* TQ_DIR_CHUNK: 32
    Counts,         \* values of tensor_count
    Align,          \* TQ_ALIGN
    FileBytes,      \* file_bytes of the header
    WORD64,         \* 2^64: offset + nbytes is computed modulo it
    Offsets, Lengths \* offset and nbytes of entries

ASSUME ModelOpenAssumption ==
    /\ {"tok_emb", "cls"} \subseteq Globals /\ Required \subseteq Globals
    /\ "cls" \notin Required /\ "other" \notin Globals \cup Parts
    /\ NLayers \in Nat \ {0} /\ Layers \subseteq Nat /\ 0 .. NLayers - 1 \subseteq Layers
    /\ DIR_CHUNK \in Nat \ {0} /\ Align \in Nat \ {0} /\ Counts \subseteq Nat
    /\ WORD64 \in Nat \ {0} /\ FileBytes \in 0 .. WORD64 - 1
    /\ Offsets \subseteq 0 .. WORD64 - 1 /\ Lengths \subseteq 0 .. WORD64 - 1

\* A name: layer -1 stands for a name without the "lNNN." prefix.
GlobalName(g) == [layer |-> -1, part |-> g]
Names ==
    {GlobalName(g) : g \in Globals \cup {"other"}}
        \cup [layer : Layers, part : Parts]
Slots == {GlobalName(g) : g \in Globals} \cup [layer : 0 .. NLayers - 1, part : Parts]

\* A directory entry; `fits' says that dtype, ndim and shape are as expected.
Entries == [name : Names, fits : BOOLEAN, offset : Offsets, nbytes : Lengths]

\* The checks on the header and the layer table, in order, with their errors.
HeaderChecks ==
    << [check |-> "view",       err |-> "TRUNCATED"],
       [check |-> "magic",      err |-> "MAGIC"],
       [check |-> "version",    err |-> "VERSION"],
       [check |-> "arch",       err |-> "UNSUPPORTED"],
       [check |-> "qtype",      err |-> "UNSUPPORTED"],
       [check |-> "group_size", err |-> "UNSUPPORTED"],
       [check |-> "file_bytes", err |-> "TRUNCATED"],
       [check |-> "positive",   err |-> "SHAPE"],
       [check |-> "heads",      err |-> "SHAPE"],
       [check |-> "blocks",     err |-> "SHAPE"],
       [check |-> "layers",     err |-> "NOMEM"] >>

VARIABLES
    flaws,      \* the header checks this file fails
    shared,     \* shared_classifier
    count,      \* tensor_count
    pc,         \* "header", "chunk", "entry", "checks", then "returned"
    idx,        \* entries of finished chunks
    take,       \* entries of this chunk
    k,          \* entries of it inspected
    found,      \* globals found
    slot,       \* resolved offsets, 0 for none
    rc,         \* what tq_model_open returns
    dir         \* history: the entries inspected

openVars == <<flaws, shared, count, pc, idx, take, k, found, slot, rc, dir>>
fileVars == <<flaws, shared, count>>

Return(err) == rc' = err /\ pc' = "returned"

OpenInit ==
    /\ flaws \in SUBSET {HeaderChecks[i].check : i \in 1 .. Len(HeaderChecks)}
    /\ shared \in BOOLEAN /\ count \in Counts
    /\ pc = "header" /\ idx = 0 /\ take = 0 /\ k = 0
    /\ found = {} /\ slot = [s \in Slots |-> 0]
    /\ rc = "none" /\ dir = <<>>

Header ==
    /\ pc = "header"
    /\ IF flaws = {}
       THEN pc' = "chunk" /\ UNCHANGED rc
       ELSE \E i \in 1 .. Len(HeaderChecks) :
              /\ HeaderChecks[i].check \in flaws
              /\ \A j \in 1 .. i - 1 : HeaderChecks[j].check \notin flaws
              /\ Return(HeaderChecks[i].err)
    /\ UNCHANGED <<fileVars, idx, take, k, found, slot, dir>>

\* The next chunk, or a read that fails.
Chunk ==
    /\ pc = "chunk" /\ idx < count
    /\ \/ /\ take' = IF count - idx > DIR_CHUNK THEN DIR_CHUNK ELSE count - idx
          /\ k' = 0 /\ pc' = "entry"
          /\ UNCHANGED rc
       \/ Return("TRUNCATED") /\ UNCHANGED <<take, k>>
    /\ UNCHANGED <<fileVars, idx, found, slot, dir>>

\* Mutant: a later entry of the same name replaces the first.
WantedEvery(e) == e.name.layer = -1 /\ e.name.part \in Globals

\* tq_match takes an entry for a global that is still to be found.
Wanted(e) == e.name.layer = -1 /\ e.name.part \in Globals \ found

OfLayer(e) == e.name.layer \in 0 .. NLayers - 1 /\ e.name.part \in Parts

Inspect(e) ==
    /\ pc = "entry" /\ k < take
    /\ dir' = Append(dir, e)
    /\ IF (e.offset + e.nbytes) % WORD64 > FileBytes
       THEN Return("TRUNCATED") /\ UNCHANGED <<k, found, slot>>
       ELSE IF \/ e.offset % Align # 0
               \/ (Wanted(e) \/ OfLayer(e)) /\ ~ e.fits
       THEN Return("SHAPE") /\ UNCHANGED <<k, found, slot>>
       ELSE /\ found' = IF Wanted(e) THEN found \cup {e.name.part} ELSE found
            /\ slot' = IF Wanted(e) \/ OfLayer(e)
                       THEN [slot EXCEPT ![e.name] = e.offset] ELSE slot
            /\ k' = k + 1
            /\ UNCHANGED <<pc, rc>>
    /\ UNCHANGED <<fileVars, idx, take>>

ChunkDone ==
    /\ pc = "entry" /\ k = take
    /\ idx' = idx + take /\ pc' = "chunk"
    /\ UNCHANGED <<fileVars, take, k, found, slot, rc, dir>>

WalkDone ==
    /\ pc = "chunk" /\ idx >= count
    /\ pc' = "checks"
    /\ UNCHANGED <<fileVars, idx, take, k, found, slot, rc, dir>>

\* Mutant: the classifier is required of every file.
NeededAlways == Required \cup {"cls"}

Needed == Required \cup (IF shared THEN {} ELSE {"cls"})

\* Required globals, the shared classifier, and the layers.
Checks ==
    /\ pc = "checks"
    /\ IF ~ (Needed \subseteq found)
       THEN Return("MISSING") /\ UNCHANGED slot
       ELSE /\ slot' = IF shared
                       THEN [slot EXCEPT ![GlobalName("cls")] = slot[GlobalName("tok_emb")]]
                       ELSE slot
            /\ Return(IF \E s \in Slots : s.layer # -1 /\ slot[s] = 0
                      THEN "MISSING" ELSE "OK")
    /\ UNCHANGED <<fileVars, idx, take, k, found, dir>>

OpenNext ==
    \/ Header \/ Chunk \/ ChunkDone \/ WalkDone \/ Checks
    \/ \E e \in Entries : Inspect(e)
    \/ pc = "returned" /\ UNCHANGED openVars

OpenSpec == OpenInit /\ [][OpenNext]_openVars

-----------------------------------------------------------------------------

Named(s) == {i \in 1 .. Len(dir) : dir[i].name = s}
First(I) == CHOOSE i \in I : \A j \in I : i <= j
Final(I) == CHOOSE i \in I : \A j \in I : j <= i

\* What a directory means, whatever the chunks it was read in: the first entry
\* of a global and the last of a layer tensor count, those that count have the
\* expected type and shape, and every entry is aligned and ends inside the file,
\* unless its length is such that the sum wraps around 2^64.  An embedding that
\* is shared is the classifier, also of a file that carries a classifier.
OpensAsWritten ==
    rc = "OK" =>
        /\ Len(dir) = count
        /\ \A i \in 1 .. count :
              /\ dir[i].offset % Align = 0
              /\ dir[i].offset + dir[i].nbytes \in
                    (0 .. FileBytes) \cup (WORD64 .. WORD64 + FileBytes)
        /\ \A s \in Slots :
              LET I == IF shared /\ s = GlobalName("cls")
                       THEN Named(GlobalName("tok_emb")) ELSE Named(s)
                  i == IF s.layer = -1 THEN First(I) ELSE Final(I)
              IN  IF I = {} THEN slot[s] = 0 /\ s.layer = -1 /\ s.part \notin Needed
                  ELSE slot[s] = dir[i].offset /\ dir[i].fits

\* A complete directory is never refused as incomplete: the error means that a
\* required global has no entry or that the entry of a layer tensor that
\* counts points at the header.
MissingIsReal ==
    rc = "MISSING" =>
        \/ \E g \in Required \cup (IF shared THEN {} ELSE {"cls"}) :
              Named(GlobalName(g)) = {}
        \/ \E s \in Slots :
              /\ s.layer # -1
              /\ Named(s) = {} \/ dir[Final(Named(s))].offset = 0
=============================================================================
