----------------------------- MODULE TouchPanel -----------------------------
(***************************************************************************)
(* What the resistive touch driver promises to the code that polls it: a   *)
(* published pair of raw samples (adcX, adcY), replaced in one step, that  *)
(* is either a pair of converter readings or "not touched" in both halves. *)
(* TouchAdc implements it; Grid and TouchMsg are built on top of it.       *)
(***************************************************************************)
EXTENDS Integers

CONSTANT ADC            \* the readings the 10-bit converter can give

ASSUME AdcAssumption == ADC \subseteq Nat

VARIABLES adcX, adcY    \* the last published sample of each axis

panelVars == <<adcX, adcY>>

NONE == -1              \* an axis that is not touched

PanelInit == adcX = NONE /\ adcY = NONE

(* A finished acquisition that found the panel pressed. *)
Publish(x, y) == adcX' = x /\ adcY' = y

(* An acquisition that found the panel open. *)
Clear == adcX' = NONE /\ adcY' = NONE

PanelNext == (\E x, y \in ADC : Publish(x, y)) \/ Clear

PanelSpec == PanelInit /\ [][PanelNext]_panelVars
=============================================================================
