---------------------------- MODULE MCModelOpen -----------------------------
(* Up to three entries in chunks of two, one layer of one tensor, an         *)
(* out-of-range layer and an unknown name.  Offset 3 is not aligned; lengths *)
(* reach beyond the file or wrap around.                                     *)
EXTENDS ModelOpen

MCGlobals == {"tok_emb", "cls"}
MCRequired == {"tok_emb"}
MCOffsets == {0, 2, 3, 4}
=============================================================================
