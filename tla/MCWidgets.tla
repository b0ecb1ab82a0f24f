------------------------------ MODULE MCWidgets ------------------------------
(***************************************************************************)
(* A button and the slider of 7.2-GOL_Slider below it. Of the readings of  *)
(* an axis one calibrates to -1, the value that means "not touched", or to *)
(* another negative coordinate. The finger may be on the button, beside    *)
(* it, on the slider in and out of reach of its thumb and beyond its end.  *)
(***************************************************************************)
EXTENDS Widgets, TLC

MCReadings == 0..3
MCCalX == 0 :> -1 @@ 1 :> 265 @@ 2 :> 280 @@ 3 :> 299
MCCalY == 0 :> -2 @@ 1 :> 60 @@ 2 :> 120 @@ 3 :> 120

Slider == [type |-> "slider", left |-> 20, top |-> 100, right |-> 300, bottom |-> 140,
           range |-> 250, pos |-> 250]
Button == [type |-> "button", left |-> 210, top |-> 20, right |-> 275, bottom |-> 90,
           range |-> 0, pos |-> 0]
MCObjects == <<Button, Slider>>
=============================================================================
