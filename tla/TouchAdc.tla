------------------------------ MODULE TouchAdc ------------------------------
(***************************************************************************)
(* The sampler of the 4-wire resistive touch screen,                       *)
(* framework/driver/touch_screen/src/drv_touch_resistive_adc.c.            *)
(*                                                                         *)
(* Timer 3 calls TouchDetectPosition once a tick. Each call is one step of *)
(* a state machine that drives the plates, starts the converter and looks  *)
(* at what it returned: is the panel pressed, X until two conversions in a *)
(* row agree, still pressed, the same for Y, still pressed, publish.       *)
(* The converter and the finger run between the calls.                     *)
(***************************************************************************)
EXTENDS Integers

CONSTANTS
    ADC,                \* the readings the converter can give
    XPos, YPos,         \* the readings of the places the finger can be at
    Light, Firm,        \* pressure readings: an open panel, a pressed one
    Floating,           \* readings of a driven axis nobody touches
    THRESHOLD,          \* TOUCHSCREEN_RESISTIVE_PRESS_THRESHOLD
    Noisy               \* may a conversion of a pressed panel misread?

ASSUME TouchAssumption ==
    /\ ADC \subseteq Nat
    /\ XPos \subseteq ADC /\ YPos \subseteq ADC
    /\ Light \subseteq ADC /\ Firm \subseteq ADC /\ Floating \subseteq ADC
    /\ THRESHOLD \in Nat
    /\ Noisy \in BOOLEAN

NONE == -1
Point == XPos \X YPos
Away == <<>>            \* the finger is not on the panel

VARIABLES
    state,              \* TOUCH_STATES
    tempX, tempY,       \* the statics of TouchDetectPosition
    adcX, adcY,         \* the published pair
    axis,               \* the plate the converter's input is connected to
    driven,             \* is a gradient driven across the other plate?
    adc,                \* the converter: "busy" or "done" (TOUCH_ADC_DONE)
    buf,                \* ADC1BUF0
    finger,             \* where the finger is
    seenX, seenY,       \* history: positions held during this acquisition
    noiseX, noiseY      \* history: misread conversions in a row, up to 2

driver == <<state, tempX, tempY, adcX, adcY, axis, driven>>
history == <<seenX, seenY, noiseX, noiseY>>
vars == <<driver, adc, buf, finger, history>>

States == {"IDLE", "SET_X", "CHECK_X", "RUN_X", "GET_X", "SET_Y", "CHECK_Y",
           "RUN_Y", "GET_Y", "SET_VALUES"}

Touching == finger # Away
XOf(f) == IF f = Away THEN {} ELSE {f[1]}
YOf(f) == IF f = Away THEN {} ELSE {f[2]}

(***************************************************************************)
(* Before TouchHardwareInit the machine is parked in IDLE.                 *)
(***************************************************************************)
Init ==
    /\ state = "IDLE"
    /\ tempX = 0 /\ tempY = 0
    /\ adcX = NONE /\ adcY = NONE
    /\ axis = "X" /\ driven = FALSE
    /\ adc = "done" /\ buf \in Light
    /\ finger = Away
    /\ seenX = {} /\ seenY = {}
    /\ noiseX = 0 /\ noiseY = 0

TouchHardwareInit ==
    /\ state = "IDLE"
    /\ state' = "SET_X"
    /\ UNCHANGED <<tempX, tempY, adcX, adcY, axis, driven, adc, buf, finger,
                   history>>

-----------------------------------------------------------------------------
(* The steps of TouchDetectPosition, one per state. *)

StartAdc == adc' = "busy" /\ UNCHANGED buf
KeepAdc  == UNCHANGED <<adc, buf>>

(* Slips: a release clears one axis only, or neither.                      *)
SlipHalfUnpressed == adcX' = NONE /\ UNCHANGED adcY
SlipNotUnpressed == UNCHANGED <<adcX, adcY>>

(* The panel is open: nothing is published.                                *)
Unpressed == adcX' = NONE /\ adcY' = NONE

(* RUN: the conversion whose result GET looks at.                          *)
Converting == IF state \in {"CHECK_X", "RUN_X"} THEN "GET_X" ELSE "GET_Y"

(* Slip: any second conversion will do.                                    *)
SlipAgrees(temp) == temp # NONE

(* The conversion repeats the one before.                                  *)
Agrees(temp) == buf = temp

(* Slip: the odd conversion is repeated but not remembered.                *)
SlipRemember(temp) == temp

Remember(temp) == buf

Idle ==
    /\ state = "IDLE"
    /\ Unpressed
    /\ KeepAdc
    /\ UNCHANGED <<state, tempX, tempY, axis, driven, history>>

SetX ==
    /\ state = "SET_X"
    /\ axis' = "X" /\ driven' = FALSE
    /\ StartAdc
    /\ state' = "CHECK_X"
    /\ seenX' = XOf(finger) /\ seenY' = YOf(finger)
    /\ noiseX' = 0 /\ noiseY' = 0
    /\ UNCHANGED <<tempX, tempY, adcX, adcY>>

(* Pressed: drive the gradient and, falling into RUN, start converting.    *)
CheckPressed ==
    /\ state \in {"CHECK_X", "CHECK_Y"}
    /\ adc = "done"
    /\ THRESHOLD > buf
    /\ driven' = TRUE
    /\ StartAdc
    /\ IF state = "CHECK_X"
         THEN tempX' = NONE /\ UNCHANGED tempY
         ELSE tempY' = NONE /\ UNCHANGED tempX
    /\ state' = Converting
    /\ UNCHANGED <<adcX, adcY, axis, history>>

CheckOpen ==
    /\ state \in {"CHECK_X", "CHECK_Y"}
    /\ adc = "done"
    /\ THRESHOLD <= buf
    /\ Unpressed
    /\ state' = "SET_X"
    /\ KeepAdc
    /\ UNCHANGED <<tempX, tempY, axis, driven, history>>

Run ==
    /\ state \in {"RUN_X", "RUN_Y"}
    /\ StartAdc
    /\ state' = Converting
    /\ UNCHANGED <<tempX, tempY, adcX, adcY, axis, driven, history>>

(* Another value than the conversion before: convert once more.            *)
GetAgain ==
    /\ adc = "done"
    /\ \/ /\ state = "GET_X" /\ ~Agrees(tempX)
          /\ tempX' = Remember(tempX) /\ state' = "RUN_X" /\ UNCHANGED tempY
       \/ /\ state = "GET_Y" /\ ~Agrees(tempY)
          /\ tempY' = Remember(tempY) /\ state' = "RUN_Y" /\ UNCHANGED tempX
    /\ KeepAdc
    /\ UNCHANGED <<adcX, adcY, axis, driven, history>>

(* The same value twice: release the plate and check the pressure again.   *)
GetSettled ==
    /\ adc = "done"
    /\ \/ state = "GET_X" /\ Agrees(tempX) /\ state' = "SET_Y"
       \/ state = "GET_Y" /\ Agrees(tempY) /\ state' = "SET_VALUES"
    /\ driven' = FALSE
    /\ StartAdc
    /\ UNCHANGED <<tempX, tempY, adcX, adcY, axis, history>>

SetYPressed ==
    /\ state = "SET_Y"
    /\ adc = "done"
    /\ THRESHOLD >= buf
    /\ axis' = "Y" /\ driven' = FALSE
    /\ StartAdc
    /\ state' = "CHECK_Y"
    /\ UNCHANGED <<tempX, tempY, adcX, adcY, history>>

SetYOpen ==
    /\ state = "SET_Y"
    /\ adc = "done"
    /\ THRESHOLD < buf
    /\ Unpressed
    /\ state' = "SET_X"
    /\ KeepAdc
    /\ UNCHANGED <<tempX, tempY, axis, driven, history>>

SetValues ==
    /\ state = "SET_VALUES"
    /\ adc = "done"
    /\ IF THRESHOLD < buf
         THEN Unpressed
         ELSE adcX' = tempX /\ adcY' = tempY
    /\ state' = "SET_X"
    /\ KeepAdc
    /\ UNCHANGED <<tempX, tempY, axis, driven, history>>

TouchDetectPosition ==
    /\ \/ Idle \/ SetX \/ CheckPressed \/ CheckOpen \/ Run \/ GetAgain
       \/ GetSettled \/ SetYPressed \/ SetYOpen \/ SetValues
    /\ UNCHANGED finger

-----------------------------------------------------------------------------
(***************************************************************************)
(* The converter. With no gradient it reads the pressure; with one it      *)
(* reads the finger's place on the axis, a floating value when the finger  *)
(* is away, or anything when the conversion was disturbed.                 *)
(***************************************************************************)
More(n) == IF n < 2 THEN n + 1 ELSE n

Converted == adc = "busy" /\ adc' = "done" /\ UNCHANGED <<driver, finger>>

ConvertPressure ==
    /\ Converted
    /\ ~driven
    /\ buf' \in IF Touching THEN Firm ELSE Light
    /\ UNCHANGED history

ConvertPlace ==
    /\ Converted
    /\ driven /\ Touching
    /\ buf' = IF axis = "X" THEN finger[1] ELSE finger[2]
    /\ noiseX' = IF axis = "X" THEN 0 ELSE noiseX
    /\ noiseY' = IF axis = "Y" THEN 0 ELSE noiseY
    /\ UNCHANGED <<seenX, seenY>>

ConvertNoise ==
    /\ Converted
    /\ driven
    /\ \/ Touching /\ Noisy /\ buf' \in ADC
       \/ ~Touching /\ buf' \in Floating
    /\ noiseX' = IF axis = "X" THEN More(noiseX) ELSE noiseX
    /\ noiseY' = IF axis = "Y" THEN More(noiseY) ELSE noiseY
    /\ UNCHANGED <<seenX, seenY>>

Convert == ConvertPressure \/ ConvertPlace \/ ConvertNoise

(* The user presses, slides and lifts whenever he likes.                   *)
Finger ==
    /\ finger' \in Point \cup {Away}
    /\ seenX' = seenX \cup XOf(finger') /\ seenY' = seenY \cup YOf(finger')
    /\ UNCHANGED <<driver, adc, buf, noiseX, noiseY>>

Next == TouchHardwareInit \/ TouchDetectPosition \/ Convert \/ Finger

Spec == Init /\ [][Next]_vars

(* The timer keeps ticking and a started conversion completes; nothing     *)
(* obliges the user to do anything.                                        *)
Fairness ==
    /\ WF_vars(TouchHardwareInit)
    /\ WF_vars(TouchDetectPosition)
    /\ WF_vars(Convert)

FairSpec == Spec /\ Fairness

-----------------------------------------------------------------------------
TypeOK ==
    /\ state \in States
    /\ tempX \in ADC \cup {NONE, 0} /\ tempY \in ADC \cup {NONE, 0}
    /\ adcX \in ADC \cup {NONE} /\ adcY \in ADC \cup {NONE}
    /\ axis \in {"X", "Y"} /\ driven \in BOOLEAN
    /\ adc \in {"busy", "done"} /\ buf \in ADC
    /\ finger \in Point \cup {Away}
    /\ seenX \subseteq XPos /\ seenY \subseteq YPos
    /\ noiseX \in 0..2 /\ noiseY \in 0..2

(***************************************************************************)
(* The driver implements the panel its clients are written against: the    *)
(* pair is replaced as a whole and never half "not touched", although its  *)
(* halves are measured several ticks apart.                                *)
(***************************************************************************)
Panel == INSTANCE TouchPanel
ImplementsPanel == Panel!PanelSpec

(***************************************************************************)
(* What the repeated conversion is for (GET_X, GET_Y loop until two values *)
(* agree): a value that the finger never had while this acquisition ran is *)
(* published only if two conversions in a row were misread.                *)
(***************************************************************************)
Publishes == state = "SET_VALUES" /\ state' # state /\ adcX' # NONE

GlitchFiltered ==
    [][Publishes => /\ adcX' \in seenX \/ noiseX = 2
                    /\ adcY' \in seenY \/ noiseY = 2]_vars

(***************************************************************************)
(* A finger that stays where it is ends up published, and one that stays   *)
(* away ends up unpublished, if conversions are not disturbed for ever.    *)
(***************************************************************************)
Undisturbed ==
    <>[][Convert => ConvertPlace \/ (ConvertPressure /\ buf' < THRESHOLD)]_vars

HeldIsReported ==
    \A p \in Point :
        <>[](finger = p) /\ Undisturbed => <>[](adcX = p[1] /\ adcY = p[2])

Settling == <>[][Convert => buf' \in Light]_vars

LiftedIsReported ==
    <>[](finger = Away) /\ Settling => <>[](adcX = NONE /\ adcY = NONE)
=============================================================================
