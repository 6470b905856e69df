----------------------------- MODULE MCFirmware -----------------------------
(***************************************************************************)
(* Firmware for TLC: a model that fits twice over, one that just fits and  *)
(* one that is damaged; PSRAM of none, one or two chips.                   *)
(***************************************************************************)
EXTENDS Firmware, TLC

CONSTANTS small, big, bad

MCFiles     == {small, big, bad}
MCSize      == small :> 2 @@ big :> 7 @@ bad :> 1
MCKvRow     == small :> 1 @@ big :> 1 @@ bad :> 1
MCVocabSize == small :> 1 @@ big :> 2 @@ bad :> 1
MCSeqLen    == small :> 1 @@ big :> 3 @@ bad :> 1
=============================================================================
