---------------------------- MODULE MCPsramSweep ----------------------------
(* Four clocks, in three nominal orders, on boards with up to two chips and *)
(* any bad line, from the slowest clock on or only from 100 MHz.            *)
EXTENDS PsramSweep

\* A reversed table, one with a tie, and one like that of Zephyr's PLLs.
MCHzTables ==
    { [c \in 0 .. 3 |-> 176 - 11 * c],
      [c \in 0 .. 3 |-> IF c \in {1, 3} THEN 99 ELSE 88 + c],
      [c \in 0 .. 3 |-> IF c = 1 THEN 132 ELSE IF c = 3 THEN 106 ELSE 88 + 11 * c] }

MCMaxIndexes == {-1, 2, 4}
=============================================================================
