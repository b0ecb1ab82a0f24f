------------------------------ MODULE Calibration ------------------------------
(***************************************************************************)
(* The calibration dialogue: TouchCalibration and TouchCalHWGetPoints wait *)
(* for touches and releases by polling the two halves of the sampler's     *)
(* pair, and TouchCalculateCalPoints makes the coefficients of the points. *)
(* It refines the step Calibrate of CalStore: what that counts has values  *)
(* here.                                                                   *)
(***************************************************************************)
EXTENDS CalStore, Sequences

CONSTANTS
    MaxX, MaxY,         \* the last column and row of the screen
    Readings,           \* what a finger on a circle, 1 .. 4, or on 0, another
                        \* place, may give: sets of pairs of the converter
    TOLERANCE           \* pixels a circle may be missed by

VARIABLES
    finger,             \* the circle it is on, 0 for another place, or Off
    adc,                \* adcX and adcY: replaced as a whole
    at,                 \* the loop the dialogue is in
    half,               \* adcX once it was read and adcY not yet
    counter,            \* the circle that is filled
    temp,               \* tempX and tempY
    touch,              \* xRawTouch and yRawTouch while they are collected
    values              \* history: the points of each calibration

dialogue == <<at, half, counter, temp, touch, values>>
calibrationVars == <<vars, finger, adc, dialogue>>

SAMPLE_POINTS == 4
Circle == 1 .. SAMPLE_POINTS
Off == -1
Open == <<-1, -1>>
NotRead == -2
NoTouch == [c \in Circle |-> Open]

(* The dialogue as it starts.                                              *)
Begin ==
    /\ at' = "release" /\ half' = NotRead /\ counter' = 1
    /\ temp' = Open /\ touch' = NoTouch

-----------------------------------------------------------------------------
(* Where the circles are: from the upper left corner clockwise.            *)
INSET == 10                                     \* CALIBRATIONINSET >> 1
CAL_X_INSET == ((MaxX + 1) * INSET) \div 100
CAL_Y_INSET == ((MaxY + 1) * INSET) \div 100
xPoint == <<CAL_X_INSET, MaxX - CAL_X_INSET, MaxX - CAL_X_INSET, CAL_X_INSET>>
yPoint == <<CAL_Y_INSET, CAL_Y_INSET, MaxY - CAL_Y_INSET, MaxY - CAL_Y_INSET>>

SCALE_FACTOR == 2^8

(* C's quotient is rounded towards 0; by 0 there is none, and the PIC      *)
(* traps.                                                                  *)
Quotient(n, d) ==
    IF d = 0 THEN 0
    ELSE LET abs(k) == IF k < 0 THEN -k ELSE k
         IN  IF (n < 0) = (d < 0) THEN abs(n) \div abs(d) ELSE -(abs(n) \div abs(d))

(* Gain and offset of the line through the circles i and j.                *)
Line(point, raw_, i, j) ==
    LET gain == Quotient((point[i] - point[j]) * SCALE_FACTOR, raw_[i] - raw_[j])
    IN  <<gain, point[i] * SCALE_FACTOR - gain * raw_[i]>>

Mean(l, m) == <<(l[1] + m[1]) \div 2, (l[2] + m[2]) \div 2>>

(* _trC and _trD, and _trA and _trB.                                       *)
Columns(raw_) == Mean(Line(xPoint, raw_, 1, 3), Line(xPoint, raw_, 2, 4))
Rows(raw_) == Mean(Line(yPoint, raw_, 1, 4), Line(yPoint, raw_, 2, 3))

TouchGet(tr, reading) ==
    IF reading >= 0 THEN (tr[1] * reading + tr[2]) \div SCALE_FACTOR ELSE reading

(* xRawTouch and yRawTouch after TouchLoadCalibration, by the cells they   *)
(* were loaded from.                                                       *)
Loaded(cells, i) ==
    [c \in Circle |-> LET n == raw[cells[c]]
                      IN  IF n \in Calibration THEN values[n][c][i] ELSE n]
xRawTouch == Loaded(<<1, 3, 7, 5>>, 1)
yRawTouch == Loaded(<<2, 4, 8, 6>>, 2)

-----------------------------------------------------------------------------
(* The loops of the dialogue, and when each has seen enough of the pair.   *)
Touched == {"touch", "continue"}
Released == {"release", "lift", "letgo", "settle"}

(* Slip: a release is not waited for.                                       *)
SlipSeen(loop, xy) ==
    \/ loop \in Touched /\ xy[1] # -1 /\ xy[2] # -1
    \/ loop \in Released \cup {"sample"}
    \/ loop = "press" /\ xy # Open

Seen(loop, xy) ==
    \/ loop \in Touched /\ xy[1] # -1 /\ xy[2] # -1
    \/ loop \in Released /\ (xy[1] = -1 \/ xy[2] = -1)
    \/ loop = "press" /\ xy # Open
    \/ loop = "sample"

(* The program between two loops. *)
Passed(loop) ==
    CASE loop = "release" -> "touch"
      [] loop = "touch" -> "lift"
      [] loop = "lift" -> "press"
      [] loop = "press" -> "sample"
      [] loop = "sample" -> "letgo"
      [] loop = "letgo" -> "settle"
      [] loop = "settle" -> IF counter > SAMPLE_POINTS THEN "continue" ELSE "press"

(* A touch whose halves were not both there is asked for again.            *)
Detected == temp[1] # -1 /\ temp[2] # -1

TouchGetRawX ==
    /\ pc = "calibrate" /\ half = NotRead
    /\ half' = adc[1]
    /\ UNCHANGED <<vars, finger, adc, at, counter, temp, touch, values>>

TouchGetRawY ==
    /\ pc = "calibrate" /\ half # NotRead
    /\ half' = NotRead
    /\ LET xy == <<half, adc[2]>>
           seen == Seen(at, xy)
       IN  /\ at # "continue" \/ ~seen
           /\ at' = IF seen THEN Passed(at) ELSE at
           /\ temp' = IF at = "sample" THEN xy ELSE temp
           /\ IF at = "letgo" /\ seen /\ Detected
                THEN touch' = [touch EXCEPT ![counter] = temp] /\ counter' = counter + 1
                ELSE UNCHANGED <<touch, counter>>
    /\ UNCHANGED <<vars, finger, adc, values>>

(* "Touch screen to continue": the dialogue is over.                       *)
TouchCalibration ==
    /\ half # NotRead /\ at = "continue" /\ Seen(at, <<half, adc[2]>>)
    /\ Calibrate
    /\ values' = [values EXCEPT ![made'] = touch]
    /\ Begin
    /\ UNCHANGED <<finger, adc>>

-----------------------------------------------------------------------------
(* The user touches a circle only while it is asked for.                   *)
Asked == {"version", "check", "calibrate"}

Touch ==
    /\ finger = Off /\ pc \in Asked
    /\ \/ (pc = "calibrate" => at \in Touched) /\ finger' = 0
       \/ pc = "calibrate" /\ at = "press" /\ finger' = counter
    /\ UNCHANGED <<vars, adc, dialogue>>

Lift ==
    /\ finger # Off /\ pc \in Asked
    /\ finger' = Off
    /\ UNCHANGED <<vars, adc, dialogue>>

(* The sampler, as TouchPanel promises it: it follows late, but it is not  *)
(* cleared under a finger.                                                 *)
Sample ==
    /\ pc \in Asked
    /\ IF finger = Off THEN adc' = Open ELSE adc' \in Readings[finger]
    /\ UNCHANGED <<vars, finger, dialogue>>

-----------------------------------------------------------------------------
CalibrationInit ==
    /\ Init
    /\ finger = Off /\ adc = Open
    /\ at = "release" /\ half = NotRead /\ counter = 1 /\ temp = Open /\ touch = NoTouch
    /\ values = [n \in Calibration |-> NoTouch]

Reset ==
    /\ PowerFails
    /\ Begin /\ adc' = Open
    /\ UNCHANGED <<finger, values>>

Dialogue == TouchGetRawX \/ TouchGetRawY \/ TouchCalibration

CalibrationNext ==
    \/ Dialogue \/ Touch \/ Lift \/ Sample \/ Reset
    \/ /\ PowerOn \/ ReadVersion \/ StillTouched \/ NotTouched \/ Erase \/ Store \/ Load
       /\ UNCHANGED <<finger, adc, dialogue>>

CalibrationSpec == CalibrationInit /\ [][CalibrationNext]_calibrationVars

-----------------------------------------------------------------------------
Near(k, place) == k - place \in -TOLERANCE .. TOLERANCE

(* With points x and y, whatever a finger on a circle gives comes out near *)
(* its centre.                                                             *)
Found(x, y) ==
    \A c \in Circle : \A reading \in Readings[c] :
        /\ Near(TouchGet(Columns(x), reading[1]), xPoint[c])
        /\ Near(TouchGet(Rows(y), reading[2]), yPoint[c])

(***************************************************************************)
(* The screen runs with coefficients that find the circles, however        *)
(* touches and releases fell between the polls, and wherever the power     *)
(* failed before. Each point was taken of its own circle, is loaded into   *)
(* its own place, and no line is drawn through two equal points.           *)
(***************************************************************************)
CirclesAreFound == pc = "run" => Found(xRawTouch, yRawTouch)

-----------------------------------------------------------------------------
(* Columns, or rows, that a finger on each of the circles may give. *)
Places == UNION {Readings[c] : c \in Circle}
OfCircles(i) ==
    {f \in [Circle -> {r[i] : r \in Places}] :
        \A c \in Circle : \E r \in Readings[c] : f[c] = r[i]}

(* Two coordinates are stored of each circle, and a reading is never -1.   *)
PanelAssumption ==
    /\ POINTS = 2 * SAMPLE_POINTS
    /\ Readings \in [0 .. SAMPLE_POINTS -> SUBSET (Nat \X Nat)]

(* The panel is straight enough, and its readings of a circle close enough *)
(* together, for the arithmetic of TouchCalculateCalPoints.                *)
LinesFit == \A x \in OfCircles(1), y \in OfCircles(2) : Found(x, y)
=============================================================================
