---------------------------- MODULE CalStoreProofs ----------------------------
(***************************************************************************)
(* The calibration that the touch screen runs with is a stored one, for    *)
(* any number of points and calibrations, and wherever the power fails;    *)
(* the points that the dialogue takes are those of its circles, whenever   *)
(* they are touched.                                                       *)
(***************************************************************************)
EXTENDS Calibration, TLAPS

(***************************************************************************)
(* The inductive invariant: what has been stored so far, what has been     *)
(* loaded so far, and that the version is written when all else is.        *)
(***************************************************************************)
Sealed == nvm[VERSION] = Valid => stored > 0 /\ \A p \in Point : nvm[p] = stored

Storing ==
    pc = "store" =>
        /\ made > 0 /\ nvm[VERSION] # Valid
        /\ \A p \in Point : raw[p] = made /\ (p < cell => nvm[p] = made)

Loading ==
    pc = "load" =>
        /\ cell \in Point /\ nvm[VERSION] = Valid
        /\ \A p \in Point : p < cell => raw[p] = stored

Running ==
    pc = "run" => nvm[VERSION] = Valid /\ \A p \in Point : raw[p] = stored

Erasing == pc = "erase" => made > 0 /\ \A p \in Point : raw[p] = made

Checking == pc = "check" => nvm[VERSION] = Valid /\ count < HOLD

Booting == pc = "version" => count = 0

IInv == TypeOK /\ Sealed /\ Storing /\ Loading /\ Running /\ Erasing /\ Checking
        /\ Booting

USE DEF Point, VERSION, Cell, Blank, Torn, Valid, Calibration

(* An empty flash satisfies it.                                            *)
LEMMA InitInv == Init => IInv
BY StoreAssumption DEF Init, IInv, TypeOK, Sealed, Storing, Loading, Running,
   Erasing, Checking, Booting

(* Every step keeps it, a power failure within a write included.           *)
LEMMA StepInv == IInv /\ [Next]_vars => IInv'
<1> SUFFICES ASSUME IInv, [Next]_vars PROVE IInv'
  OBVIOUS
<1> USE StoreAssumption
<1>0. CASE UNCHANGED vars
  BY <1>0 DEF vars, IInv, TypeOK, Sealed, Storing, Loading, Running, Erasing,
     Checking, Booting
<1>1. CASE PowerOn
  BY <1>1 DEF PowerOn, IInv, TypeOK, Sealed, Storing, Loading, Running, Erasing,
     Checking, Booting
<1>2. CASE ReadVersion
  BY <1>2 DEF ReadVersion, IInv, TypeOK, Sealed, Storing, Loading, Running,
     Erasing, Checking, Booting
<1>3. CASE StillTouched
  BY <1>3 DEF StillTouched, Enough, IInv, TypeOK, Sealed, Storing, Loading,
     Running, Erasing, Checking, Booting
<1>4. CASE NotTouched
  BY <1>4 DEF NotTouched, IInv, TypeOK, Sealed, Storing, Loading, Running,
     Erasing, Checking, Booting
<1>5. CASE Calibrate
  BY <1>5 DEF Calibrate, IInv, TypeOK, Sealed, Storing, Loading, Running,
     Erasing, Checking, Booting
<1>6. CASE Erase
  BY <1>6 DEF Erase, IInv, TypeOK, Sealed, Storing, Loading, Running, Erasing,
     Checking, Booting
<1>7. CASE Store
  <2> USE <1>7 DEF Store, StoreOrder, Value, IInv
  <2>1. TypeOK'
    BY DEF TypeOK, Storing
  <2>2. CASE cell = VERSION
    <3>1. /\ \A p \in Point : nvm'[p] = made /\ p < cell
          /\ nvm'[VERSION] = Valid /\ stored' = made /\ made > 0
          /\ pc' = "load" /\ cell' = 1
      <4>1. nvm' = [nvm EXCEPT ![VERSION] = Valid]
        BY <2>2
      <4>2. \A p \in Point : p # VERSION /\ p < cell /\ p \in Cell
        BY <2>2
      <4>3. QED
        BY <2>2, <4>1, <4>2 DEF TypeOK, Storing
    <3>2. QED
      BY <2>1, <3>1 DEF TypeOK, Sealed, Storing, Loading, Running, Erasing,
         Checking, Booting
  <2>3. CASE cell # VERSION
    <3>1. /\ nvm' = [nvm EXCEPT ![cell] = made] /\ cell \in Point
          /\ nvm'[VERSION] # Valid
          /\ pc' = "store" /\ cell' = cell + 1 /\ raw' = raw /\ made' = made
      <4>1. cell \in Point /\ cell # VERSION /\ VERSION \in Cell
        BY <2>3 DEF TypeOK
      <4>2. raw[cell] = made /\ nvm[VERSION] # Valid
        BY <4>1 DEF Storing
      <4>3. QED
        BY <2>3, <4>1, <4>2 DEF TypeOK
    <3>2. \A p \in Point : p < cell + 1 => nvm'[p] = made
      BY <2>3, <3>1 DEF TypeOK, Storing
    <3>3. QED
      BY <2>1, <3>1, <3>2 DEF TypeOK, Sealed, Storing, Loading, Running, Erasing,
         Checking, Booting
  <2>4. QED
    BY <2>2, <2>3
<1>8. CASE Load
  BY <1>8 DEF Load, LoadEnds, IInv, TypeOK, Sealed, Storing, Loading, Running,
     Erasing, Checking, Booting
<1>9. CASE PowerFails
  BY <1>9 DEF PowerFails, StoreOrder, IInv, TypeOK, Sealed, Storing, Loading,
     Running, Erasing, Checking, Booting
<1>10. QED
  BY <1>0, <1>1, <1>2, <1>3, <1>4, <1>5, <1>6, <1>7, <1>8, <1>9
     DEF Next, TouchInit

(* The invariant holds in every state the sector and main can reach.       *)
LEMMA Inductive == Spec => []IInv
BY InitInv, StepInv, PTL DEF Spec

(***************************************************************************)
(* Whatever cell is being written when the power fails, a sector with a    *)
(* valid version holds the whole of the last stored calibration.           *)
(***************************************************************************)
THEOREM VersionSealsAll == Spec => []VersionSeals
<1>1. IInv => VersionSeals
  BY DEF IInv, Sealed, VersionSeals
<1>2. QED
  BY <1>1, Inductive, PTL

(***************************************************************************)
(* The screen runs only with a calibration that was stored to the end.     *)
(***************************************************************************)
THEOREM NeverHalfCalibrated == Spec => []RunsCalibrated
<1>1. IInv => RunsCalibrated
  BY DEF IInv, Running, Sealed, RunsCalibrated
<1>2. QED
  BY <1>1, Inductive, PTL

(***************************************************************************)
(* The types of the store: no cell ever holds anything but a point of a    *)
(* calibration, a blank, a torn write or the version.                      *)
(***************************************************************************)
THEOREM StoreTypes == Spec => []TypeOK
<1>1. IInv => TypeOK
  BY DEF IInv
<1>2. QED
  BY <1>1, Inductive, PTL

(***************************************************************************)
(* The dialogue is what CalStore calls a calibration: however the user     *)
(* touches the circles, how the polls of TouchCalHWGetPoints fall between  *)
(* the samples and where the power fails in it, the store goes on as if    *)
(* the points had been there at once, so that with the dialogue too the    *)
(* screen runs only with a calibration that was stored to the end.         *)
(***************************************************************************)
THEOREM DialogueCalibrates == CalibrationSpec => Spec /\ []RunsCalibrated
<1>1. CalibrationInit => Init
  BY DEF CalibrationInit
<1>2. [CalibrationNext]_calibrationVars => [Next]_vars
  <2> SUFFICES ASSUME [CalibrationNext]_calibrationVars PROVE [Next]_vars
    OBVIOUS
  <2>1. CASE TouchCalibration
    BY <2>1 DEF TouchCalibration, Next, TouchInit
  <2>2. CASE Reset
    BY <2>2 DEF Reset, Next
  <2>3. CASE TouchGetRawX \/ TouchGetRawY \/ Touch \/ Lift \/ Sample
    BY <2>3 DEF TouchGetRawX, TouchGetRawY, Touch, Lift, Sample
  <2>4. CASE PowerOn \/ ReadVersion \/ StillTouched \/ NotTouched \/ Erase \/ Store \/ Load
    BY <2>4 DEF Next, TouchInit
  <2>5. CASE UNCHANGED calibrationVars
    BY <2>5 DEF calibrationVars
  <2> QED
    BY <2>1, <2>2, <2>3, <2>4, <2>5 DEF CalibrationNext, Dialogue
<1> QED
  BY <1>1, <1>2, NeverHalfCalibrated, PTL DEF CalibrationSpec, Spec

(***************************************************************************)
(* What the dialogue has taken so far. While it waits for circle "counter" *)
(* nothing else is touched (OnCircle), and when it goes on to the next one *)
(* the finger has left, as it has seen the pair cleared after it saw one   *)
(* (Letting). A point may still be of two touches of its circle, and is    *)
(* dropped if one half of it is of none (Sampled).                         *)
(***************************************************************************)
Xs(c) == {r[1] : r \in Readings[c]}
Ys(c) == {r[2] : r \in Readings[c]}
Half == Nat \cup {-1}

DialogueTypes ==
    /\ finger \in {Off} \cup 0..SAMPLE_POINTS
    /\ adc \in {Open} \cup Nat \X Nat
    /\ at \in {"release", "touch", "lift", "press", "sample", "letgo", "settle", "continue"}
    /\ half \in {NotRead} \cup Half
    /\ temp \in Half \X Half
    /\ touch \in [Circle -> Half \X Half]
    /\ values \in [Calibration -> [Circle -> Half \X Half]]

Counting ==
    /\ at # "release" => pc = "calibrate"
    /\ at \in {"release", "touch", "lift"} => counter = 1
    /\ at \in {"press", "sample", "letgo"} => counter \in Circle
    /\ at = "settle" => counter \in 1..SAMPLE_POINTS + 1
    /\ at = "continue" => counter = SAMPLE_POINTS + 1

OnCircle ==
    at \in {"press", "sample", "letgo", "settle"} /\ counter \in Circle =>
        /\ finger \in {Off, counter}
        /\ adc \in {Open} \cup Readings[counter]
        /\ half \in {NotRead, -1} \cup Xs(counter)

Letting ==
    at = "lift" \/ (at = "letgo" /\ Detected) =>
        /\ adc = Open => finger = Off
        /\ half = -1 => finger = Off /\ adc = Open

Sampled ==
    at = "letgo" => temp \in (Xs(counter) \cup {-1}) \X (Ys(counter) \cup {-1})

(* The circles before "counter", and all those of earlier calibrations.    *)
Taken == \A c \in Circle : c < counter => touch[c] \in Xs(c) \X Ys(c)

Kept ==
    /\ stored <= made
    /\ \A n \in Calibration :
            n <= made => \A c \in Circle : values[n][c] \in Xs(c) \X Ys(c)

DialogueInv ==
    /\ PanelAssumption /\ DialogueTypes
    /\ Counting /\ OnCircle /\ Letting /\ Sampled /\ Taken /\ Kept

(* A reading is never taken for no touch. *)
LEMMA Coordinates ==
    ASSUME PanelAssumption, NEW c \in 0..SAMPLE_POINTS
    PROVE  /\ Readings[c] \subseteq Nat \X Nat
           /\ Xs(c) \subseteq Nat /\ Ys(c) \subseteq Nat
           /\ \A r \in Readings[c] : r[1] \in Xs(c) /\ r[2] \in Ys(c) /\ r # Open
BY DEF PanelAssumption, Xs, Ys, Open

LEMMA InitDialogue == PanelAssumption /\ CalibrationInit => DialogueInv
<1> SUFFICES ASSUME PanelAssumption, CalibrationInit PROVE DialogueInv
  OBVIOUS
<1>1. DialogueTypes
  BY DEF CalibrationInit, DialogueTypes, Off, Open, NotRead, NoTouch, Half, SAMPLE_POINTS
<1>2. Counting /\ OnCircle /\ Letting /\ Sampled /\ Taken
  BY DEF CalibrationInit, Counting, OnCircle, Letting, Sampled, Taken, Circle, SAMPLE_POINTS
<1>3. Kept
  BY DEF CalibrationInit, Init, Kept
<1> QED
  BY <1>1, <1>2, <1>3 DEF DialogueInv

LEMMA StepDialogue ==
    IInv /\ DialogueInv /\ [CalibrationNext]_calibrationVars => DialogueInv'
<1> SUFFICES ASSUME IInv, DialogueInv, [CalibrationNext]_calibrationVars PROVE DialogueInv'
  OBVIOUS
<1>0. /\ PanelAssumption /\ DialogueTypes /\ Counting /\ OnCircle /\ Letting /\ Sampled
      /\ Taken /\ Kept
  BY DEF DialogueInv
<1>1. PanelAssumption'
  BY <1>0 DEF PanelAssumption, SAMPLE_POINTS
<1>2. CASE TouchGetRawX
  <2>1. /\ half' = adc[1] /\ pc = "calibrate" /\ half = NotRead
        /\ UNCHANGED <<vars, finger, adc, at, counter, temp, touch, values>>
    BY <1>2 DEF TouchGetRawX
  <2>2. DialogueTypes'
    BY <1>0, <2>1 DEF DialogueTypes, Open, Half
  <2>3. Counting' /\ Sampled' /\ Taken' /\ Kept'
    BY <1>0, <2>1 DEF Counting, Sampled, Taken, Kept, vars
  <2>4. OnCircle'
    <3>1. ASSUME counter \in Circle, adc \in {Open} \cup Readings[counter]
          PROVE  adc[1] \in {-1} \cup Xs(counter)
      BY <3>1 DEF Open, Xs
    <3> QED
      BY <1>0, <2>1, <3>1 DEF OnCircle
  <2>5. Letting'
    <3>1. adc[1] = -1 => adc = Open
      BY <1>0 DEF DialogueTypes, Open
    <3> QED
      BY <1>0, <2>1, <3>1 DEF Letting, Detected
  <2> QED
    BY <1>1, <2>2, <2>3, <2>4, <2>5 DEF DialogueInv
<1>3. CASE TouchGetRawY
  <2> DEFINE xy == <<half, adc[2]>>
             seen == Seen(at, xy)
  <2>1. /\ pc = "calibrate" /\ half # NotRead /\ half' = NotRead
        /\ at # "continue" \/ ~seen
        /\ at' = IF seen THEN Passed(at) ELSE at
        /\ temp' = IF at = "sample" THEN xy ELSE temp
        /\ IF at = "letgo" /\ seen /\ Detected
             THEN touch' = [touch EXCEPT ![counter] = temp] /\ counter' = counter + 1
             ELSE UNCHANGED <<touch, counter>>
        /\ UNCHANGED <<vars, finger, adc, values>>
    BY <1>3 DEF TouchGetRawY
  <2>2. xy \in Half \X Half /\ (adc[2] = -1 => adc = Open) /\ (adc = Open => adc[2] = -1)
    BY <1>0, <2>1 DEF DialogueTypes, Open, Half
  <2>3. Kept'
    BY <1>0, <2>1 DEF Kept, vars
  <2>4. CASE ~seen
    <3>1. /\ UNCHANGED <<pc, at, touch, counter, finger, adc, values>>
          /\ at # "letgo" => temp' = temp \/ at = "sample"
          /\ at # "sample" => temp' = temp
      BY <2>1, <2>4 DEF vars
    <3>2. at # "sample"
      BY <2>4 DEF Seen
    <3>3. DialogueTypes'
      BY <1>0, <2>1, <3>1, <3>2 DEF DialogueTypes, vars
    <3>4. Counting' /\ Sampled' /\ Taken' /\ OnCircle' /\ Letting'
      BY <1>0, <2>1, <3>1, <3>2 DEF Counting, Sampled, Taken, OnCircle, Letting, Detected, NotRead
    <3> QED
      BY <1>1, <2>3, <3>3, <3>4 DEF DialogueInv
  <2>5. CASE seen /\ at \in {"release", "touch"}
    <3>1. /\ at' = IF at = "release" THEN "touch" ELSE "lift"
          /\ UNCHANGED <<pc, touch, counter, temp, finger, adc, values>>
      BY <2>1, <2>5 DEF vars, Passed
    <3>2. DialogueTypes'
      BY <1>0, <2>1, <3>1 DEF DialogueTypes
    <3>3. at = "touch" => adc # Open
      BY <2>2, <2>5 DEF Seen, Touched, Released
    <3>4. Counting' /\ Sampled' /\ Taken' /\ OnCircle' /\ Letting'
      BY <1>0, <2>1, <2>5, <3>1, <3>3
         DEF Counting, Sampled, Taken, OnCircle, Letting, NotRead
    <3> QED
      BY <1>1, <2>3, <3>2, <3>4 DEF DialogueInv
  <2>6. CASE seen /\ at = "lift"
    <3>1. at' = "press" /\ UNCHANGED <<pc, touch, counter, temp, finger, adc, values>>
      BY <2>1, <2>6 DEF vars, Passed
    <3>2. DialogueTypes'
      BY <1>0, <2>1, <3>1 DEF DialogueTypes
    <3>3. finger = Off /\ adc = Open
      <4>1. half = -1 \/ adc[2] = -1
        BY <2>6 DEF Seen, Touched, Released
      <4> QED
        BY <1>0, <2>2, <2>6, <4>1 DEF Letting
    <3>4. Counting' /\ Sampled' /\ Taken' /\ OnCircle' /\ Letting'
      BY <1>0, <2>1, <2>6, <3>1, <3>3
         DEF Counting, Sampled, Taken, OnCircle, Letting, NotRead, Circle, SAMPLE_POINTS
    <3> QED
      BY <1>1, <2>3, <3>2, <3>4 DEF DialogueInv
  <2>7. CASE seen /\ at = "press"
    <3>1. at' = "sample" /\ UNCHANGED <<pc, touch, counter, temp, finger, adc, values>>
      BY <2>1, <2>7 DEF vars, Passed
    <3>2. DialogueTypes'
      BY <1>0, <2>1, <3>1 DEF DialogueTypes
    <3>3. Counting' /\ Sampled' /\ Taken' /\ OnCircle' /\ Letting'
      BY <1>0, <2>1, <2>7, <3>1
         DEF Counting, Sampled, Taken, OnCircle, Letting, NotRead
    <3> QED
      BY <1>1, <2>3, <3>2, <3>3 DEF DialogueInv
  <2>8. CASE seen /\ at = "sample"
    <3>1. at' = "letgo" /\ temp' = xy /\ UNCHANGED <<pc, touch, counter, finger, adc, values>>
      BY <2>1, <2>8 DEF vars, Passed
    <3>2. DialogueTypes'
      BY <1>0, <2>1, <2>2, <3>1 DEF DialogueTypes
    <3>3. counter \in Circle
      BY <1>0, <2>8 DEF Counting
    <3>4. adc \in {Open} \cup Readings[counter] /\ half \in {-1} \cup Xs(counter)
      BY <1>0, <2>1, <2>8, <3>3 DEF OnCircle
    <3>5. adc[2] \in {-1} \cup Ys(counter)
      BY <3>4 DEF Open, Ys
    <3>6. Sampled'
      BY <3>1, <3>4, <3>5 DEF Sampled, Xs, Ys
    <3>7. Letting'
      BY <2>1, <2>2, <3>1 DEF Letting, Detected, NotRead
    <3>8. Counting' /\ Taken' /\ OnCircle'
      BY <1>0, <2>1, <2>8, <3>1 DEF Counting, Taken, OnCircle, NotRead
    <3> QED
      BY <1>1, <2>3, <3>2, <3>6, <3>7, <3>8 DEF DialogueInv
  <2>9. CASE seen /\ at = "letgo" /\ Detected
    <3>1. /\ at' = "settle" /\ touch' = [touch EXCEPT ![counter] = temp]
          /\ counter' = counter + 1 /\ UNCHANGED <<pc, temp, finger, adc, values>>
      BY <2>1, <2>9 DEF vars, Passed
    <3>2. counter \in Circle
      BY <1>0, <2>9 DEF Counting
    <3>3. DialogueTypes'
      BY <1>0, <2>1, <3>1, <3>2 DEF DialogueTypes
    <3>4. finger = Off /\ adc = Open
      <4>1. half = -1 \/ adc[2] = -1
        BY <2>9 DEF Seen, Touched, Released
      <4> QED
        BY <1>0, <2>2, <2>9, <4>1 DEF Letting
    <3>5. temp \in Xs(counter) \X Ys(counter)
      BY <1>0, <2>9 DEF Sampled, Detected
    <3>6. Taken'
      <4> SUFFICES ASSUME NEW c \in Circle, c < counter + 1
                   PROVE  touch'[c] \in Xs(c) \X Ys(c)
        BY <3>1 DEF Taken
      <4>1. CASE c = counter
        BY <1>0, <3>1, <3>2, <3>5, <4>1 DEF DialogueTypes
      <4>2. CASE c # counter
        <5>1. c < counter /\ touch'[c] = touch[c]
          BY <1>0, <3>1, <3>2, <4>2 DEF DialogueTypes, Circle
        <5> QED
          BY <1>0, <5>1 DEF Taken
      <4> QED
        BY <4>1, <4>2
    <3>7. Counting' /\ Sampled' /\ OnCircle' /\ Letting'
      BY <1>0, <2>1, <3>1, <3>2, <3>4
         DEF Counting, Sampled, OnCircle, Letting, NotRead, Circle, SAMPLE_POINTS
    <3> QED
      BY <1>1, <2>3, <3>3, <3>6, <3>7 DEF DialogueInv
  <2>10. CASE seen /\ at = "letgo" /\ ~Detected
    <3>1. at' = "settle" /\ UNCHANGED <<pc, touch, counter, temp, finger, adc, values>>
      BY <2>1, <2>10 DEF vars, Passed
    <3>2. DialogueTypes'
      BY <1>0, <2>1, <3>1 DEF DialogueTypes
    <3>3. Counting' /\ Sampled' /\ Taken' /\ OnCircle' /\ Letting'
      BY <1>0, <2>1, <2>10, <3>1
         DEF Counting, Sampled, Taken, OnCircle, Letting, NotRead, Circle, SAMPLE_POINTS
    <3> QED
      BY <1>1, <2>3, <3>2, <3>3 DEF DialogueInv
  <2>11. CASE seen /\ at = "settle"
    <3>1. /\ at' = IF counter > SAMPLE_POINTS THEN "continue" ELSE "press"
          /\ UNCHANGED <<pc, touch, counter, temp, finger, adc, values>>
      BY <2>1, <2>11 DEF vars, Passed
    <3>2. DialogueTypes'
      BY <1>0, <2>1, <3>1 DEF DialogueTypes
    <3>3. Counting' /\ Sampled' /\ Taken' /\ OnCircle' /\ Letting'
      BY <1>0, <2>1, <2>11, <3>1
         DEF Counting, Sampled, Taken, OnCircle, Letting, NotRead, Circle, SAMPLE_POINTS
    <3> QED
      BY <1>1, <2>3, <3>2, <3>3 DEF DialogueInv
  <2> QED
    BY <1>0, <2>1, <2>4, <2>5, <2>6, <2>7, <2>8, <2>9, <2>10, <2>11 DEF DialogueTypes
<1>4. CASE TouchCalibration
  <2>1. /\ at = "continue" /\ pc = "calibrate" /\ made' = made + 1 /\ made < CALIBRATIONS
        /\ stored' = stored /\ values' = [values EXCEPT ![made + 1] = touch]
        /\ at' = "release" /\ half' = NotRead /\ counter' = 1 /\ temp' = Open
        /\ touch' = NoTouch /\ UNCHANGED <<finger, adc>>
    BY <1>4 DEF TouchCalibration, Calibrate, Begin
  <2>2. made \in 0..CALIBRATIONS /\ CALIBRATIONS \in Nat /\ stored \in 0..CALIBRATIONS
    BY StoreAssumption DEF IInv, TypeOK
  <2>3. DialogueTypes'
    BY <1>0, <2>1, <2>2 DEF DialogueTypes, NoTouch, Open, Half
  <2>4. Counting' /\ OnCircle' /\ Letting' /\ Sampled' /\ Taken'
    BY <2>1 DEF Counting, OnCircle, Letting, Sampled, Taken, Circle, SAMPLE_POINTS
  <2>5. \A c \in Circle : touch[c] \in Xs(c) \X Ys(c)
    BY <1>0, <2>1 DEF Counting, Taken, Circle, SAMPLE_POINTS
  <2>6. Kept'
    <3> SUFFICES ASSUME NEW n \in Calibration, n <= made + 1, NEW c \in Circle
                 PROVE  values'[n][c] \in Xs(c) \X Ys(c)
      BY <1>0, <2>1, <2>2 DEF Kept
    <3>1. CASE n = made + 1
      BY <1>0, <2>1, <2>5, <3>1 DEF DialogueTypes
    <3>2. CASE n # made + 1
      <4>1. values'[n] = values[n] /\ n <= made
        BY <1>0, <2>1, <2>2, <3>2 DEF DialogueTypes
      <4> QED
        BY <1>0, <4>1 DEF Kept
    <3> QED
      BY <3>1, <3>2
  <2> QED
    BY <1>1, <2>3, <2>4, <2>6 DEF DialogueInv
<1>5. CASE Touch
  <2>1. /\ finger = Off /\ UNCHANGED <<vars, adc, dialogue>>
        /\ \/ (pc = "calibrate" => at \in Touched) /\ finger' = 0
           \/ at = "press" /\ finger' = counter
    BY <1>5 DEF Touch
  <2>2. \/ at \in Touched \cup {"release"} /\ finger' = 0
        \/ at = "press" /\ finger' = counter /\ counter \in Circle
    BY <1>0, <2>1 DEF Counting
  <2>3. DialogueTypes'
    BY <1>0, <2>1, <2>2 DEF DialogueTypes, dialogue, Circle, SAMPLE_POINTS
  <2>4. Counting' /\ Sampled' /\ Taken' /\ Kept'
    BY <1>0, <2>1 DEF Counting, Sampled, Taken, Kept, vars, dialogue
  <2>5. OnCircle' /\ Letting'
    BY <1>0, <2>1, <2>2 DEF OnCircle, Letting, Detected, dialogue, Touched
  <2> QED
    BY <1>1, <2>3, <2>4, <2>5 DEF DialogueInv
<1>6. CASE Lift
  <2>1. finger' = Off /\ UNCHANGED <<vars, adc, dialogue>>
    BY <1>6 DEF Lift
  <2>2. DialogueTypes'
    BY <1>0, <2>1 DEF DialogueTypes, dialogue
  <2>3. Counting' /\ Sampled' /\ Taken' /\ Kept' /\ OnCircle' /\ Letting'
    BY <1>0, <2>1
       DEF Counting, Sampled, Taken, Kept, OnCircle, Letting, Detected, vars, dialogue
  <2> QED
    BY <1>1, <2>2, <2>3 DEF DialogueInv
<1>7. CASE Sample
  <2>1. /\ IF finger = Off THEN adc' = Open ELSE adc' \in Readings[finger]
        /\ UNCHANGED <<vars, finger, dialogue>>
    BY <1>7 DEF Sample
  <2>2. adc' = Open \/ (finger # Off /\ adc' \in Nat \X Nat /\ adc' # Open)
    <3>1. finger # Off => finger \in 0..SAMPLE_POINTS
      BY <1>0 DEF DialogueTypes
    <3> QED
      BY <1>0, <2>1, <3>1, Coordinates
  <2>3. DialogueTypes'
    BY <1>0, <2>1, <2>2 DEF DialogueTypes, dialogue
  <2>4. Counting' /\ Sampled' /\ Taken' /\ Kept'
    BY <1>0, <2>1 DEF Counting, Sampled, Taken, Kept, vars, dialogue
  <2>5. OnCircle'
    BY <1>0, <2>1 DEF OnCircle, dialogue
  <2>6. Letting'
    <3>1. adc' = Open => finger = Off
      BY <1>0, <2>1, <2>2, Coordinates DEF DialogueTypes
    <3> QED
      BY <1>0, <2>1, <3>1 DEF Letting, Detected, dialogue
  <2> QED
    BY <1>1, <2>3, <2>4, <2>5, <2>6 DEF DialogueInv
<1>8. CASE Reset
  <2>1. /\ at' = "release" /\ half' = NotRead /\ counter' = 1 /\ temp' = Open
        /\ touch' = NoTouch /\ adc' = Open /\ UNCHANGED <<finger, values, made, stored>>
    BY <1>8 DEF Reset, Begin, PowerFails
  <2>2. DialogueTypes'
    BY <1>0, <2>1 DEF DialogueTypes, NoTouch, Open, Half
  <2>3. Counting' /\ OnCircle' /\ Letting' /\ Sampled' /\ Taken'
    BY <2>1 DEF Counting, OnCircle, Letting, Sampled, Taken, Circle, SAMPLE_POINTS
  <2>4. Kept'
    BY <1>0, <2>1 DEF Kept
  <2> QED
    BY <1>1, <2>2, <2>3, <2>4 DEF DialogueInv
<1>9. CASE /\ PowerOn \/ ReadVersion \/ StillTouched \/ NotTouched \/ Erase \/ Store \/ Load
           /\ UNCHANGED <<finger, adc, dialogue>>
  <2>1. /\ pc # "calibrate" /\ made' = made /\ UNCHANGED <<finger, adc, dialogue>>
        /\ stored' \in {stored, 0, made}
    BY <1>9 DEF PowerOn, ReadVersion, StillTouched, NotTouched, Erase, Store, Load
  <2>2. DialogueTypes'
    BY <1>0, <2>1 DEF DialogueTypes, dialogue
  <2>3. Counting' /\ OnCircle' /\ Letting' /\ Sampled' /\ Taken'
    BY <1>0, <2>1 DEF Counting, OnCircle, Letting, Detected, Sampled, Taken, dialogue
  <2>4. Kept'
    BY <1>0, <2>1, StoreAssumption DEF Kept, dialogue, IInv, TypeOK
  <2> QED
    BY <1>1, <2>2, <2>3, <2>4 DEF DialogueInv
<1>10. CASE UNCHANGED calibrationVars
  <2>1. UNCHANGED <<vars, finger, adc, dialogue>>
    BY <1>10 DEF calibrationVars
  <2>2. DialogueTypes'
    BY <1>0, <2>1 DEF DialogueTypes, dialogue
  <2>3. Counting' /\ OnCircle' /\ Letting' /\ Sampled' /\ Taken' /\ Kept'
    BY <1>0, <2>1
       DEF Counting, OnCircle, Letting, Detected, Sampled, Taken, Kept, vars, dialogue
  <2> QED
    BY <1>1, <2>2, <2>3 DEF DialogueInv
<1> QED
  BY <1>2, <1>3, <1>4, <1>5, <1>6, <1>7, <1>8, <1>9, <1>10 DEF CalibrationNext, Dialogue

(* The points in use are points of the circles, each of its own.           *)
PointsTaken == pc = "run" => xRawTouch \in OfCircles(1) /\ yRawTouch \in OfCircles(2)

LEMMA PointsAre == IInv /\ DialogueInv => PointsTaken
<1> SUFFICES ASSUME IInv, DialogueInv, pc = "run"
             PROVE  xRawTouch \in OfCircles(1) /\ yRawTouch \in OfCircles(2)
  BY DEF PointsTaken
<1>1. /\ stored \in Calibration /\ stored <= made
      /\ \A p \in Point : raw[p] = stored
  BY DEF IInv, TypeOK, Sealed, Running, DialogueInv, Kept
<1>2. PICK v : v = values[stored]
  OBVIOUS
<1>3. \A c \in Circle : v[c] \in Xs(c) \X Ys(c)
  BY <1>1, <1>2 DEF DialogueInv, Kept
<1>4. 1..8 = Point
  BY DEF DialogueInv, PanelAssumption, SAMPLE_POINTS
<1>5. /\ xRawTouch = [c \in Circle |-> v[c][1]]
      /\ yRawTouch = [c \in Circle |-> v[c][2]]
  <2>1. \A c \in Circle : <<1, 3, 7, 5>>[c] \in Point /\ <<2, 4, 8, 6>>[c] \in Point
    BY <1>4 DEF Circle, SAMPLE_POINTS
  <2> QED
    BY <1>1, <1>2, <2>1 DEF xRawTouch, yRawTouch, Loaded
<1>6. \A c \in Circle : \E r \in Readings[c] : v[c][1] = r[1]
  BY <1>3 DEF Xs
<1>7. \A c \in Circle : \E r \in Readings[c] : v[c][2] = r[2]
  BY <1>3 DEF Ys
<1>8. xRawTouch \in OfCircles(1)
  <2>1. xRawTouch \in [Circle -> {r[1] : r \in Places}]
    BY <1>5, <1>6 DEF Places
  <2> QED
    BY <1>5, <1>6, <2>1 DEF OfCircles
<1>9. yRawTouch \in OfCircles(2)
  <2>1. yRawTouch \in [Circle -> {r[2] : r \in Places}]
    BY <1>5, <1>7 DEF Places
  <2> QED
    BY <1>5, <1>7, <2>1 DEF OfCircles
<1> QED
  BY <1>8, <1>9

(***************************************************************************)
(* What the screen runs with are points of its four circles, each in its   *)
(* own place, however touches, releases and power failures fell between    *)
(* the polls: so it finds the circles, on every panel on which the lines   *)
(* through points of the circles find them.                                *)
(***************************************************************************)
THEOREM CirclesFound ==
    PanelAssumption /\ LinesFit /\ CalibrationSpec => []PointsTaken /\ []CirclesAreFound
<1>1. CalibrationSpec => []IInv
  BY DialogueCalibrates, Inductive, PTL
<1>2. LinesFit /\ PointsTaken => CirclesAreFound
  BY DEF LinesFit, PointsTaken, CirclesAreFound
<1>3. LinesFit => LinesFit'
  OBVIOUS
<1> QED
  BY <1>1, <1>2, <1>3, InitDialogue, StepDialogue, PointsAre, PTL DEF CalibrationSpec
=============================================================================
