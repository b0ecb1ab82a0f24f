------------------------------- MODULE MCGrid -------------------------------
(***************************************************************************)
(* Grid on the 320 x 240 screen of the board, with two readings per axis:  *)
(* an edge pixel, and (for Y) a point that calibrates above the screen.    *)
(* A debounce of two samples and counters that wrap after a few steps.     *)
(***************************************************************************)
EXTENDS Grid

MCReadings == {0, 1}
MCCalX == [raw \in MCReadings |-> IF raw = 0 THEN 0 ELSE MaxX]
MCCalY == [raw \in MCReadings |-> IF raw = 0 THEN -2 ELSE MaxY]
=============================================================================
