--------------------------- MODULE TouchAdcProofs ---------------------------
(***************************************************************************)
(* Proofs about TouchAdc, for every converter, panel and threshold.        *)
(***************************************************************************)
EXTENDS TouchAdc, TLAPS

AfterX == {"SET_Y", "CHECK_Y", "RUN_Y", "GET_Y", "SET_VALUES"}

(* Where each state stands: which plate is read, whether the other one     *)
(* carries a gradient, and when the converter is known to be idle.         *)
Wiring ==
    /\ state \in {"CHECK_X", "RUN_X", "GET_X", "SET_Y"} => axis = "X"
    /\ state \in {"CHECK_Y", "RUN_Y", "GET_Y", "SET_VALUES"} => axis = "Y"
    /\ state \in {"RUN_X", "GET_X", "RUN_Y", "GET_Y"} => driven
    /\ state \in {"CHECK_X", "CHECK_Y", "SET_Y", "SET_VALUES"} => ~driven
    /\ state \in {"IDLE", "SET_X", "RUN_X", "RUN_Y"} => adc = "done"

(* A finger that is on the panel has been seen by this acquisition.        *)
FingerSeen ==
    state \notin {"IDLE", "SET_X"} =>
        XOf(finger) \subseteq seenX /\ YOf(finger) \subseteq seenY

(* While an axis settles, temp is the conversion before the current one.   *)
SettlingAxis(temp, seen, noise, run, get) ==
    /\ state = run => temp \in seen \/ noise >= 1
    /\ state = get /\ adc = "busy" => temp \in seen \cup {NONE} \/ noise >= 1
    /\ state = get /\ adc = "done" =>
          /\ buf \in seen \/ noise >= 1
          /\ buf \in seen \/ temp \in seen \cup {NONE} \/ noise = 2

Settled(temp, seen, noise) == temp \in ADC /\ (temp \in seen \/ noise = 2)

Samples ==
    /\ SettlingAxis(tempX, seenX, noiseX, "RUN_X", "GET_X")
    /\ SettlingAxis(tempY, seenY, noiseY, "RUN_Y", "GET_Y")
    /\ state \in AfterX => Settled(tempX, seenX, noiseX)
    /\ state = "SET_VALUES" => Settled(tempY, seenY, noiseY)

IInv == TypeOK /\ Wiring /\ FingerSeen /\ Samples

-----------------------------------------------------------------------------
(* A finger occupies a place of each axis, and the place is one it reads.  *)
LEMMA Places ==
    ASSUME NEW f \in Point \cup {Away}
    PROVE  /\ XOf(f) \subseteq XPos /\ YOf(f) \subseteq YPos
           /\ f # Away => f[1] \in XOf(f) /\ f[2] \in YOf(f)
<1>1. CASE f = Away  BY <1>1 DEF XOf, YOf
<1>2. CASE f # Away
  <2>1. f[1] \in XPos /\ f[2] \in YPos  BY <1>2 DEF Point
  <2> QED BY <1>2, <2>1 DEF XOf, YOf
<1> QED BY <1>1, <1>2

(* Every step keeps the types, given where the machine stands.             *)
LEMMA TypeStep == TypeOK /\ Samples /\ [Next]_vars => TypeOK'
<1> SUFFICES ASSUME TypeOK, Samples, [Next]_vars
             PROVE  TypeOK'
  OBVIOUS
<1> USE TouchAssumption DEF TypeOK, NONE, States
<1>p. XOf(finger) \subseteq XPos /\ YOf(finger) \subseteq YPos
  BY Places
<1>1. CASE TouchHardwareInit
  BY <1>1 DEF TouchHardwareInit, history
<1>2. CASE TouchDetectPosition
  <2> USE DEF history, KeepAdc, StartAdc, Unpressed, Converting, Agrees, Remember
  <2>1. CASE Idle          BY <2>1, <1>2 DEF Idle, TouchDetectPosition
  <2>2. CASE SetX
    <3>1. noiseX' \in 0..2 /\ noiseY' \in 0..2
      BY <2>2 DEF SetX
    <3> QED BY <2>2, <1>2, <1>p, <3>1, Zenon DEF SetX, TouchDetectPosition
  <2>3. CASE CheckPressed  BY <2>3, <1>2 DEF CheckPressed, TouchDetectPosition
  <2>4. CASE CheckOpen     BY <2>4, <1>2 DEF CheckOpen, TouchDetectPosition
  <2>5. CASE Run           BY <2>5, <1>2 DEF Run, TouchDetectPosition
  <2>6. CASE GetAgain      BY <2>6, <1>2 DEF GetAgain, TouchDetectPosition
  <2>7. CASE GetSettled    BY <2>7, <1>2 DEF GetSettled, TouchDetectPosition
  <2>8. CASE SetYPressed   BY <2>8, <1>2 DEF SetYPressed, TouchDetectPosition
  <2>9. CASE SetYOpen      BY <2>9, <1>2 DEF SetYOpen, TouchDetectPosition
  <2>10. CASE SetValues
    BY <2>10, <1>2 DEF SetValues, TouchDetectPosition, Samples, Settled, AfterX
  <2> QED BY <1>2, <2>1, <2>2, <2>3, <2>4, <2>5, <2>6, <2>7, <2>8, <2>9, <2>10
            DEF TouchDetectPosition
<1>3. CASE Convert
  <2> USE DEF Converted, driver, history, More, Touching
  <2>1. CASE ConvertPressure  BY <2>1 DEF ConvertPressure
  <2>2. CASE ConvertPlace
    <3>1. finger[1] \in XPos /\ finger[2] \in YPos
      BY <2>2, Places, <1>p DEF ConvertPlace
    <3>2. noiseX' \in 0..2 /\ noiseY' \in 0..2
      BY <2>2 DEF ConvertPlace
    <3>3. buf' \in ADC
      BY <2>2, <3>1 DEF ConvertPlace
    <3> QED BY <2>2, <3>2, <3>3, Zenon DEF ConvertPlace
  <2>3. CASE ConvertNoise
    <3>1. noiseX' \in 0..2 /\ noiseY' \in 0..2
      BY <2>3 DEF ConvertNoise
    <3>2. buf' \in ADC
      BY <2>3 DEF ConvertNoise
    <3> QED BY <2>3, <3>1, <3>2, Zenon DEF ConvertNoise
  <2> QED BY <1>3, <2>1, <2>2, <2>3 DEF Convert
<1>4. CASE Finger
  <2>1. XOf(finger') \subseteq XPos /\ YOf(finger') \subseteq YPos
    BY <1>4, Places DEF Finger
  <2> QED BY <1>4, <2>1 DEF Finger, driver
<1>5. CASE UNCHANGED vars
  BY <1>5 DEF vars, driver, history
<1> QED BY <1>1, <1>2, <1>3, <1>4, <1>5 DEF Next

(* Every state leaves the plates as the next one expects them.             *)
LEMMA WiringStep == TypeOK /\ Wiring /\ [Next]_vars => Wiring'
<1> SUFFICES ASSUME TypeOK, Wiring, [Next]_vars
             PROVE  Wiring'
  OBVIOUS
<1> USE DEF Wiring, TypeOK, States
<1>1. CASE TouchHardwareInit
  BY <1>1 DEF TouchHardwareInit
<1>2. CASE TouchDetectPosition
  BY <1>2 DEF TouchDetectPosition, KeepAdc, StartAdc, Converting, Idle, SetX, CheckPressed,
     CheckOpen, Run, GetAgain, GetSettled, SetYPressed, SetYOpen, SetValues
<1>3. CASE Convert
  BY <1>3 DEF Convert, ConvertPressure, ConvertPlace, ConvertNoise, Converted, driver
<1>4. CASE Finger
  BY <1>4 DEF Finger, driver
<1>5. CASE UNCHANGED vars
  BY <1>5 DEF vars, driver
<1> QED BY <1>1, <1>2, <1>3, <1>4, <1>5 DEF Next

(* The history of an acquisition includes where the finger is now.         *)
LEMMA FingerStep == TypeOK /\ FingerSeen /\ [Next]_vars => FingerSeen'
<1> SUFFICES ASSUME TypeOK, FingerSeen, [Next]_vars
             PROVE  FingerSeen'
  OBVIOUS
<1> USE DEF FingerSeen, history
<1>1. CASE TouchHardwareInit
  BY <1>1 DEF TouchHardwareInit
<1>2. CASE TouchDetectPosition
  <2>1. CASE SetX
    BY <2>1, <1>2 DEF SetX, TouchDetectPosition, XOf, YOf
  <2>2. CASE ~SetX
    BY <2>2, <1>2 DEF TouchDetectPosition, Idle, CheckPressed, CheckOpen, Run,
       GetAgain, GetSettled, SetYPressed, SetYOpen, SetValues, XOf, YOf
  <2> QED BY <2>1, <2>2
<1>3. CASE Convert
  BY <1>3 DEF Convert, ConvertPressure, ConvertPlace, ConvertNoise, Converted,
     driver, XOf, YOf
<1>4. CASE Finger
  BY <1>4 DEF Finger, driver
<1>5. CASE UNCHANGED vars
  BY <1>5 DEF vars, driver, XOf, YOf
<1> QED BY <1>1, <1>2, <1>3, <1>4, <1>5 DEF Next

(* The heart of the argument: one step of an acquisition at a time.        *)
LEMMA SamplesStep == IInv /\ [Next]_vars => Samples'
<1> SUFFICES ASSUME IInv, [Next]_vars
             PROVE  Samples'
  OBVIOUS
<1> USE TouchAssumption DEF IInv, TypeOK, Wiring, Samples, SettlingAxis, Settled, AfterX, NONE,
        States
<1>1. CASE TouchHardwareInit
  BY <1>1 DEF TouchHardwareInit, history
<1>2. CASE TouchDetectPosition
  <2> USE DEF history, KeepAdc, StartAdc, Unpressed, Converting, Agrees, Remember
  <2>1. CASE Idle          BY <2>1 DEF Idle
  <2>2. CASE SetX          BY <2>2 DEF SetX
  <2>3. CASE CheckPressed  BY <2>3 DEF CheckPressed
  <2>4. CASE CheckOpen     BY <2>4 DEF CheckOpen
  <2>5. CASE Run           BY <2>5 DEF Run
  <2>6. CASE GetAgain      BY <2>6 DEF GetAgain
  <2>7. CASE GetSettled    BY <2>7 DEF GetSettled
  <2>8. CASE SetYPressed   BY <2>8 DEF SetYPressed
  <2>9. CASE SetYOpen      BY <2>9 DEF SetYOpen
  <2>10. CASE SetValues    BY <2>10 DEF SetValues
  <2> QED BY <1>2, <2>1, <2>2, <2>3, <2>4, <2>5, <2>6, <2>7, <2>8, <2>9, <2>10
            DEF TouchDetectPosition
<1>3. CASE Convert
  <2> USE DEF Converted, driver, history, More
  <2>1. CASE ConvertPressure  BY <2>1 DEF ConvertPressure
  <2>2. CASE ConvertPlace
    <3>1. state \notin {"IDLE", "SET_X"}
      BY <2>2 DEF ConvertPlace
    <3>2. finger[1] \in seenX /\ finger[2] \in seenY
      BY <2>2, <3>1, Places DEF ConvertPlace, FingerSeen, Touching
    <3> QED BY <2>2, <3>2 DEF ConvertPlace
  <2>3. CASE ConvertNoise     BY <2>3 DEF ConvertNoise
  <2> QED BY <1>3, <2>1, <2>2, <2>3 DEF Convert
<1>4. CASE Finger
  BY <1>4 DEF Finger, driver
<1>5. CASE UNCHANGED vars
  BY <1>5 DEF vars, driver, history
<1> QED BY <1>1, <1>2, <1>3, <1>4, <1>5 DEF Next

(* The parked machine satisfies the invariant.                             *)
LEMMA InitInv == Init => IInv
<1> SUFFICES ASSUME Init PROVE IInv
  OBVIOUS
<1>1. TypeOK
  <2>1. buf \in ADC /\ noiseX \in 0..2 /\ noiseY \in 0..2
    BY TouchAssumption DEF Init
  <2> QED BY <2>1, Zenon DEF Init, TypeOK, States
<1>2. Wiring /\ FingerSeen
  BY DEF Init, Wiring, FingerSeen
<1>3. Samples
  BY DEF Init, Samples, SettlingAxis, AfterX
<1> QED BY <1>1, <1>2, <1>3 DEF IInv

(* The invariant holds in every reachable state.                           *)
LEMMA Invariance == Spec => []IInv
<1>1. IInv /\ [Next]_vars => IInv'
  BY TypeStep, WiringStep, FingerStep, SamplesStep DEF IInv
<1> QED BY InitInv, <1>1, PTL DEF Spec

-----------------------------------------------------------------------------
(***************************************************************************)
(* The sampler's variables keep their types: in particular only readings   *)
(* of the converter, or -1, are ever published.                            *)
(***************************************************************************)
THEOREM TypeCorrect == Spec => []TypeOK
  BY Invariance, PTL DEF IInv

(***************************************************************************)
(* The sampler implements the panel: whatever the finger and the converter *)
(* do, adcX and adcY are replaced together.                                *)
(***************************************************************************)
THEOREM PanelImplemented == Spec => ImplementsPanel
<1>1. Init => Panel!PanelInit
  BY DEF Init, Panel!PanelInit, NONE, Panel!NONE
<1>2. IInv /\ [Next]_vars => [Panel!PanelNext]_(Panel!panelVars)
  <2> SUFFICES ASSUME IInv, [Next]_vars
               PROVE  [Panel!PanelNext]_(Panel!panelVars)
    OBVIOUS
  <2> USE DEF Panel!PanelNext, Panel!panelVars, Panel!Publish, Panel!Clear,
              NONE, Panel!NONE
  <2>1. CASE SetValues
    BY <2>1 DEF SetValues, IInv, Samples, Settled, AfterX, Unpressed
  <2>2. CASE TouchDetectPosition /\ ~SetValues
    BY <2>2 DEF TouchDetectPosition, Unpressed, Idle, SetX, CheckPressed, CheckOpen, Run,
       GetAgain, GetSettled, SetYPressed, SetYOpen
  <2>3. CASE TouchHardwareInit
    BY <2>3 DEF TouchHardwareInit
  <2>4. CASE Convert
    BY <2>4 DEF Convert, ConvertPressure, ConvertPlace, ConvertNoise, Converted, driver
  <2>5. CASE Finger
    BY <2>5 DEF Finger, driver
  <2>6. CASE UNCHANGED vars
    BY <2>6 DEF vars, driver
  <2> QED BY <2>1, <2>2, <2>3, <2>4, <2>5, <2>6 DEF Next
<1> QED BY <1>1, <1>2, Invariance, PTL DEF Spec, ImplementsPanel, Panel!PanelSpec

(***************************************************************************)
(* A value the finger never had during the acquisition is published only   *)
(* after two misread conversions in a row on that axis.                    *)
(***************************************************************************)
THEOREM GlitchesFiltered == Spec => GlitchFiltered
<1>1. IInv /\ [Next]_vars =>
        [Publishes => /\ adcX' \in seenX \/ noiseX = 2
                      /\ adcY' \in seenY \/ noiseY = 2]_vars
  <2> SUFFICES ASSUME IInv, Next, Publishes
               PROVE  /\ adcX' \in seenX \/ noiseX = 2
                      /\ adcY' \in seenY \/ noiseY = 2
    OBVIOUS
  <2>1. SetValues
    BY DEF Publishes, Next, TouchHardwareInit, TouchDetectPosition, Idle, SetX,
       CheckPressed, CheckOpen, Run, GetAgain, GetSettled, SetYPressed, SetYOpen,
       Convert, ConvertPressure, ConvertPlace, ConvertNoise, Converted, driver, Finger
  <2> QED BY <2>1 DEF Publishes, SetValues, Unpressed, IInv, Samples, Settled, AfterX
<1> QED BY <1>1, Invariance, PTL DEF Spec, GlitchFiltered
=============================================================================
