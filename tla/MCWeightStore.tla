--------------------------- MODULE MCWeightStore ----------------------------
(* Matrices of whole and broken tiles, rows as long as the tile and longer, *)
(* staged in two reads and more, inside the file, at its end and beyond, and *)
(* around the last offset.                                                  *)
EXTENDS WeightStore

MCCalls ==
    { [w_off |-> 0, row_bytes |-> 2, d |-> 5],
      [w_off |-> 3, row_bytes |-> 5, d |-> 2],
      [w_off |-> 1, row_bytes |-> 3, d |-> 3],
      [w_off |-> 7, row_bytes |-> 2, d |-> 4],
      [w_off |-> 0, row_bytes |-> 6, d |-> 1],
      [w_off |-> 2, row_bytes |-> 0, d |-> 2],
      [w_off |-> 30, row_bytes |-> 2, d |-> 3] }
=============================================================================
