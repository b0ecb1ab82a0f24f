----------------------------- MODULE MCTouchAdc -----------------------------
(***************************************************************************)
(* TouchAdc with a converter of four readings: 0 and THRESHOLD also are    *)
(* the pressed panel, 3 also is the open one, so that a plate left driven  *)
(* or released at the wrong time is mistaken for a reading of the other    *)
(* kind.                                                                   *)
(***************************************************************************)
EXTENDS TouchAdc

MCReadings == 0..3
MCPlaces   == {0, 2}
MCThreshold == 1
MCFirm     == {0, 1}
MCLight    == {3}
=============================================================================
