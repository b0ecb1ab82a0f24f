---------------------------- MODULE MCCalibration ----------------------------
(***************************************************************************)
(* The screen of the board with a panel that gives 60 .. 960 along its     *)
(* columns, and 920 .. 100 along its rows: turned round. The fingers on    *)
(* two opposite circles are 8 units off in either direction.               *)
(***************************************************************************)
EXTENDS Calibration, TLC

MCReadings ==
    0 :> {<<960, 100>>} @@
    1 :> {<<142, 846>>} @@
    2 :> {<<868, 838>>} @@
    3 :> {<<860, 190>>, <<876, 174>>} @@
    4 :> {<<150, 182>>}

(* What the proof that CirclesAreFound holds assumes of the panel. *)
ASSUME FitAssumption == PanelAssumption /\ LinesFit
=============================================================================
