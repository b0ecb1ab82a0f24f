------------------------------- MODULE CalStore -------------------------------
(***************************************************************************)
(* Where the calibration of the touch screen is kept (TouchInit,           *)
(* TouchCheckForCalibration, TouchStoreCalibration, TouchLoadCalibration). *)
(* The points go to a sector of the flash one write after the other, the   *)
(* version last; the power may fail at any moment. The values of a         *)
(* calibration are abstracted to its number.                               *)
(***************************************************************************)
EXTENDS Integers

CONSTANTS
    POINTS,             \* coordinates of a calibration (8 in the code)
    CALIBRATIONS,       \* bound: how often the user calibrates
    HOLD                \* polls of a touch that asks for calibration (10)

ASSUME StoreAssumption ==
    POINTS \in Nat \ {0} /\ CALIBRATIONS \in Nat /\ HOLD \in Nat \ {0}

VARIABLES
    nvm,                \* the cells of the sector
    raw,                \* xRawTouch and yRawTouch
    pc,                 \* where TouchInit is
    cell,               \* the next cell to store or to load
    count,              \* local of TouchCheckForCalibration
    made,               \* history: calibrations made
    stored              \* history: the last one stored to the end

vars == <<nvm, raw, pc, cell, count, made, stored>>

(* The cells in the order they are written: ULX, ULY, URX, URY, LLX, LLY,  *)
(* LRX, LRY and the version.                                               *)
Point == 1..POINTS
VERSION == POINTS + 1
Cell == 1..VERSION

Blank == -1             \* an erased cell
Torn == -2              \* a write that the power failure cut short
Valid == 0              \* mchpTouchScreenVersion; RAM that was never set
Calibration == 1..CALIBRATIONS

Init ==
    /\ nvm = [c \in Cell |-> Blank]
    /\ raw = [p \in Point |-> 0]
    /\ pc = "off" /\ cell = 1 /\ count = 0
    /\ made = 0 /\ stored = 0

PowerOn ==
    /\ pc = "off"
    /\ raw' = [p \in Point |-> 0]
    /\ pc' = "version" /\ cell' = 1 /\ count' = 0
    /\ UNCHANGED <<nvm, made, stored>>

ReadVersion ==
    /\ pc = "version"
    /\ pc' = IF nvm[VERSION] = Valid THEN "check" ELSE "calibrate"
    /\ UNCHANGED <<nvm, raw, cell, count, made, stored>>

Enough(n) == n = HOLD

(* TouchCheckForCalibration, one poll.                                     *)
StillTouched ==
    /\ pc = "check"
    /\ count' = count + 1
    /\ pc' = IF Enough(count') THEN "calibrate" ELSE "check"
    /\ UNCHANGED <<nvm, raw, cell, made, stored>>

NotTouched ==
    /\ pc = "check"
    /\ pc' = "load" /\ cell' = 1
    /\ UNCHANGED <<nvm, raw, count, made, stored>>

(* TouchCalibration: the user has touched all the points.                  *)
Calibrate ==
    /\ pc = "calibrate"
    /\ made < CALIBRATIONS
    /\ made' = made + 1
    /\ raw' = [p \in Point |-> made + 1]
    /\ pc' = "erase"
    /\ UNCHANGED <<nvm, cell, count, stored>>

Erase ==
    /\ pc = "erase"
    /\ nvm' = [c \in Cell |-> Blank]
    /\ pc' = "store" /\ cell' = 1
    /\ stored' = 0
    /\ UNCHANGED <<raw, count, made>>

(* Slip: the version is written before the points.                         *)
SlipStoreOrder(k) == IF k = 1 THEN VERSION ELSE k - 1

StoreOrder(k) == k

Value(c) == IF c = VERSION THEN Valid ELSE raw[c]

(* A write of two bytes: whole, or cut short when the power fails.         *)
Store ==
    /\ pc = "store"
    /\ nvm' = [nvm EXCEPT ![StoreOrder(cell)] = Value(StoreOrder(cell))]
    /\ IF cell = VERSION
         THEN pc' = "load" /\ cell' = 1 /\ stored' = made
         ELSE cell' = cell + 1 /\ UNCHANGED <<pc, stored>>
    /\ UNCHANGED <<raw, count, made>>

LoadEnds == cell = POINTS

Load ==
    /\ pc = "load"
    /\ raw' = [raw EXCEPT ![cell] = nvm[cell]]
    /\ IF LoadEnds THEN pc' = "run" /\ UNCHANGED cell
                   ELSE cell' = cell + 1 /\ UNCHANGED pc
    /\ UNCHANGED <<nvm, count, made, stored>>

PowerFails ==
    /\ pc # "off"
    /\ pc' = "off"
    /\ \/ UNCHANGED nvm
       \/ /\ pc = "store"
          /\ nvm' = [nvm EXCEPT ![StoreOrder(cell)] = Torn]
    /\ UNCHANGED <<raw, cell, count, made, stored>>

TouchInit ==
    \/ ReadVersion \/ StillTouched \/ NotTouched \/ Calibrate
    \/ Erase \/ Store \/ Load

Next == PowerOn \/ TouchInit \/ PowerFails

Spec == Init /\ [][Next]_vars

-----------------------------------------------------------------------------
TypeOK ==
    /\ nvm \in [Cell -> Calibration \cup {Blank, Torn, Valid}]
    /\ raw \in [Point -> Calibration \cup {Blank, Torn, 0}]
    /\ pc \in {"off", "version", "check", "calibrate", "erase", "store", "load",
               "run"}
    /\ cell \in Cell /\ count \in 0..HOLD
    /\ made \in 0..CALIBRATIONS /\ stored \in 0..CALIBRATIONS

(***************************************************************************)
(* The screen is never used with a calibration that is only half stored:   *)
(* what it runs with is, in all its points, the one calibration that was   *)
(* stored last and to the end, whenever the power failed before.           *)
(***************************************************************************)
RunsCalibrated == pc = "run" => stored > 0 /\ \A p \in Point : raw[p] = stored

(***************************************************************************)
(* "check if version of library is correct": a sector whose version is     *)
(* valid holds the whole of the last stored calibration.                   *)
(***************************************************************************)
VersionSeals ==
    nvm[VERSION] = Valid => \A p \in Point : nvm[p] = stored /\ stored > 0
=============================================================================
