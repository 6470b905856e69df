---------------------------- MODULE MCRangeCoder ----------------------------
(***************************************************************************)
(* Instances of RangeCoder for TLC: base-4 digits, so a word is 256, TOP   *)
(* is 64 and a table total at most 16.                                     *)
(***************************************************************************)
EXTENDS RangeCoder

MCTables ==
    { <<1, 15>>, <<14, 1, 1>>, <<5, 11>>, <<3, 4>> }

MCTriples == UNION { {Triple(cnt, i) : i \in 1 .. Len(cnt)} : cnt \in MCTables }
=============================================================================
