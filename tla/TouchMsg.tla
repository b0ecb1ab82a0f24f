------------------------------ MODULE TouchMsg ------------------------------
(***************************************************************************)
(* TouchGetMsg (framework/driver/touch_screen/src/drv_touch_screen.c): the *)
(* main loop of the 7.x projects polls the sampler and turns what it reads *)
(* into messages for the widgets. The sampler may publish a new pair       *)
(* between the two reads.                                                  *)
(***************************************************************************)
EXTENDS TouchPanel

CONSTANTS CalX, CalY    \* the calibrated coordinate of a raw reading

ASSUME MsgAssumption == CalX \in [ADC -> Int] /\ CalY \in [ADC -> Int]

VARIABLES
    pc,                 \* where TouchGetMsg is
    x, y,               \* its locals
    prevX, prevY,       \* its statics
    msg                 \* *pMsg: the event and the place it is about

main == <<pc, x, y, prevX, prevY, msg>>
vars == <<panelVars, main>>

TouchGet(cal, raw) == IF raw = NONE THEN NONE ELSE cal[raw]

Init ==
    /\ PanelInit
    /\ pc = "x"
    /\ x = NONE /\ y = NONE
    /\ prevX = NONE /\ prevY = NONE
    /\ msg = [uiEvent |-> "INVALID", param1 |-> NONE, param2 |-> NONE]

Sample == PanelNext /\ UNCHANGED main

ReadX ==
    /\ pc = "x" /\ pc' = "y"
    /\ x' = TouchGet(CalX, adcX)
    /\ UNCHANGED <<panelVars, y, prevX, prevY, msg>>

(* A reading that misses one half counts as no touch.                      *)
Both(a, b) == IF a = NONE \/ b = NONE THEN <<NONE, NONE>> ELSE <<a, b>>

ReadY ==
    /\ pc = "y" /\ pc' = "msg"
    /\ LET p == Both(x, TouchGet(CalY, adcY)) IN x' = p[1] /\ y' = p[2]
    /\ UNCHANGED <<panelVars, prevX, prevY, msg>>

Here == <<x, y>>
Before == <<prevX, prevY>>
Nowhere == <<NONE, NONE>>

Message(event, place) ==
    msg' = [uiEvent |-> event, param1 |-> place[1], param2 |-> place[2]]

(* Slip: the release reports where the finger is no longer.                *)
SlipReleasedAt == Here

ReleasedAt == Before

(* Slip: the early return of the release forgets to forget the finger.     *)
SlipRemembered == IF Here = Nowhere THEN Before ELSE Here

Remembered == Here

TouchGetMsg ==
    /\ pc = "msg" /\ pc' = "x"
    /\ \/ Here # Nowhere /\ Here = Before /\ Message("STILLPRESS", Here)
       \/ Here = Nowhere /\ Before # Nowhere /\ Message("RELEASE", ReleasedAt)
       \/ Here # Nowhere /\ Before \notin {Nowhere, Here} /\ Message("MOVE", Here)
       \/ Here # Nowhere /\ Before = Nowhere /\ Message("PRESS", Here)
       \/ Here = Nowhere /\ Before = Nowhere /\ Message("INVALID", Here)
    /\ prevX' = Remembered[1] /\ prevY' = Remembered[2]
    /\ UNCHANGED <<panelVars, x, y>>

Next == Sample \/ ReadX \/ ReadY \/ TouchGetMsg

Spec == Init /\ [][Next]_vars

Fairness == WF_vars(ReadX \/ ReadY \/ TouchGetMsg)

FairSpec == Spec /\ Fairness

-----------------------------------------------------------------------------
Coord(cal) == {cal[raw] : raw \in ADC} \ {NONE}

(***************************************************************************)
(* Whatever the sampler does between the reads, the widgets are given      *)
(* whole strokes at whole places: no move without a press, no second       *)
(* press, and a release at the place reported last.                        *)
(***************************************************************************)
Events == INSTANCE PressEvents WITH
    Places <- Coord(CalX) \X Coord(CalY),
    event <- msg.uiEvent,
    at <- <<msg.param1, msg.param2>>,
    down <- Before # Nowhere

DeliversStrokes == Events!EventsSpec

(***************************************************************************)
(* A finger that has left is told to the widgets: no widget stays pressed. *)
(***************************************************************************)
LiftIsReleased ==
    <>[](adcX = NONE /\ adcY = NONE) =>
        <>[](msg.uiEvent \in {"RELEASE", "INVALID"} /\ Before = Nowhere)
=============================================================================
