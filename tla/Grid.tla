-------------------------------- MODULE Grid --------------------------------
(***************************************************************************)
(* The touch grid of the board support package (bsp/.../grid.c): a main    *)
(* program that waits for a button with Grid_ButtonGet, while the Timer 3  *)
(* interrupt (bsp/.../system.c) advances TickCounter and the touch sampler *)
(* publishes new pairs between any two of its steps.                       *)
(***************************************************************************)
EXTENDS TouchPanel

CONSTANTS
    CalX, CalY,         \* the calibrated coordinate of a raw reading
    MaxX, MaxY,         \* GFX_MaxXGet(), GFX_MaxYGet()
    GridX, GridY,       \* the arguments of Grid_Init
    DEBOUNCE,           \* samples in a row (10 in the code)
    LONG,               \* samples of a long press (500 in the code)
    TICKS,              \* TickCounter wraps at this value (2^16)
    INTMAX              \* the largest int (2^15 - 1)

ASSUME GridAssumption ==
    /\ CalX \in [ADC -> Int] /\ CalY \in [ADC -> Int]
    /\ MaxX \in Nat /\ MaxY \in Nat
    /\ GridX \in 1..MaxX /\ GridY \in 1..MaxY
    /\ DEBOUNCE \in Nat \ {0} /\ LONG \in Nat
    /\ TICKS \in Nat \ {0} /\ INTMAX \in Nat
    /\ DEBOUNCE <= LONG /\ LONG < INTMAX

VARIABLES
    TickCounter,
    gridPc,             \* where the main program is
    phase,              \* 1: waiting for the press, 2: for the release
    x, y,               \* locals of Grid_TouchGet
    pressed, released,  \* locals of Grid_ButtonGet
    r,                  \* its return value; Uninit until it is assigned
    t,                  \* local of SYSTEM_DelayMs
    found,              \* history: cells a sample of this call fell in
    streak,             \* history: samples in a row, touched > 0 > untouched,
                        \* up to DEBOUNCE
    held,               \* history: touched samples of this press, up to LONG+1
    ticked              \* history: has TickCounter moved since the last sample?

environment == <<panelVars, TickCounter>>
sample == <<x, y>>
button == <<phase, pressed, released, r>>
gridHistory == <<found, streak, held, ticked>>
gridVars == <<environment, gridPc, sample, button, t, gridHistory>>

Uninit == [x |-> NONE, y |-> NONE, option |-> NONE]

(* Grid_SizeSet: the pixels of a cell along an axis of max + 1 pixels.     *)
Side(max, n) == (max + 1) \div n

(* The fields x and y of code_t are four bits wide.                        *)
Cell(cx, cy) == [x |-> (cx \div Side(MaxX, GridX)) % 16,
                 y |-> (cy \div Side(MaxY, GridY)) % 16,
                 option |-> 0]

(* TouchGetX and TouchGetY: the calibration is a linear map.               *)
TouchGet(cal, raw) == IF raw = NONE THEN NONE ELSE cal[raw]

IncInt(n) == IF n = INTMAX THEN -INTMAX - 1 ELSE n + 1

GridInit ==
    /\ PanelInit
    /\ TickCounter \in 0..TICKS-1
    /\ gridPc = "caller" /\ phase = 1
    /\ x = NONE /\ y = NONE
    /\ pressed = 0 /\ released = 0 /\ r = Uninit /\ t = 0
    /\ found = {} /\ streak = 0 /\ held = 0 /\ ticked = FALSE

-----------------------------------------------------------------------------
(* _T3Interrupt: one tick, and whatever TouchDetectPosition makes of it.   *)
T3Interrupt ==
    /\ TickCounter' = (TickCounter + 1) % TICKS
    /\ PanelNext \/ UNCHANGED panelVars
    /\ ticked' = TRUE
    /\ UNCHANGED <<sample, button, gridPc, t, found, streak, held>>

Call ==
    /\ gridPc = "caller"
    /\ gridPc' = "x" /\ phase' = 1
    /\ pressed' = 0 /\ released' = 0 /\ r' = Uninit
    /\ found' = {} /\ streak' = 0 /\ held' = 0
    /\ UNCHANGED <<environment, sample, t, ticked>>

ReadX ==
    /\ gridPc = "x"
    /\ x' = TouchGet(CalX, adcX)
    /\ gridPc' = "y"
    /\ UNCHANGED <<environment, button, gridHistory, y, t>>

ReadY ==
    /\ gridPc = "y"
    /\ y' = TouchGet(CalY, adcY)
    /\ gridPc' = "code"
    /\ UNCHANGED <<environment, button, gridHistory, x, t>>

(* The rest of Grid_TouchGet, and the loop body it is called from.         *)
Valid == x >= 0 /\ y >= 0

AtMost(n, bound) == IF n > bound THEN bound ELSE n

Observe ==
    /\ streak' = IF Valid THEN  AtMost((IF streak > 0 THEN streak ELSE 0) + 1, DEBOUNCE)
                          ELSE -AtMost((IF streak < 0 THEN -streak ELSE 0) + 1, DEBOUNCE)
    /\ held' = IF Valid THEN AtMost(held + 1, LONG + 1)
                        ELSE IF phase = 1 THEN 0 ELSE held
    /\ ticked' = FALSE
    /\ found' = IF Valid THEN found \cup {<<Cell(x, y).x, Cell(x, y).y>>} ELSE found

(* Slip: a released panel does not restart the press counter.              *)
SlipRestarted(n) == n

Restarted(n) == 0

AwaitPress ==
    /\ gridPc = "code" /\ phase = 1
    /\ pressed' = IF Valid THEN pressed + 1 ELSE Restarted(pressed)
    /\ gridPc' = "delay"
    /\ Observe
    /\ UNCHANGED <<environment, sample, phase, released, r, t>>

(* Slip: the cell is kept before the sample is known to be valid.          *)
SlipKept == Cell(x, y)

Kept == IF Valid THEN Cell(x, y) ELSE r

AwaitRelease ==
    /\ gridPc = "code" /\ phase = 2
    /\ IF Valid
         THEN released' = 0 /\ pressed' = IncInt(pressed)
         ELSE released' = released + 1 /\ UNCHANGED pressed
    /\ r' = Kept
    /\ gridPc' = "delay"
    /\ Observe
    /\ UNCHANGED <<environment, sample, phase, t>>

(* Slip: the sum is kept in a wider type than the counter it waits for.    *)
SlipTarget(ms) == TickCounter + ms

Target(ms) == (TickCounter + ms) % TICKS

(* SYSTEM_DelayMs(1), and the loop conditions after it.                    *)
DelayStart ==
    /\ gridPc = "delay"
    /\ t' = Target(1)
    /\ gridPc' = "wait"
    /\ UNCHANGED <<environment, sample, button, gridHistory>>

DelayOver == gridPc = "wait" /\ ~(t > TickCounter)

Again ==
    /\ DelayOver
    /\ \/ phase = 1 /\ pressed < DEBOUNCE
       \/ phase = 2 /\ released < DEBOUNCE
    /\ gridPc' = "x"
    /\ UNCHANGED <<environment, sample, button, t, gridHistory>>

Pressed ==
    /\ DelayOver
    /\ phase = 1 /\ pressed >= DEBOUNCE
    /\ phase' = 2 /\ gridPc' = "x"
    /\ UNCHANGED <<environment, sample, gridHistory, pressed, released, r, t>>

(* Slip: the long press is recognised one sample early.                    *)
SlipIsLong == pressed >= LONG

IsLong == pressed > LONG

Return ==
    /\ DelayOver
    /\ phase = 2 /\ released >= DEBOUNCE
    /\ r' = IF IsLong THEN [r EXCEPT !.option = 1] ELSE r
    /\ gridPc' = "caller"
    /\ UNCHANGED <<environment, sample, gridHistory, phase, pressed, released, t>>

ButtonGet ==
    \/ Call \/ ReadX \/ ReadY \/ AwaitPress \/ AwaitRelease
    \/ DelayStart \/ Again \/ Pressed \/ Return

GridNext == T3Interrupt \/ ButtonGet

GridSpec == GridInit /\ [][GridNext]_gridVars

(***************************************************************************)
(* The interrupt keeps coming. The main program keeps running, and its     *)
(* polling loop in SYSTEM_DelayMs, a few instructions long, looks at the   *)
(* counter many times between two ticks (hence the strong fairness: the    *)
(* end of the delay is only enabled until the counter wraps).              *)
(***************************************************************************)
Fairness ==
    /\ WF_gridVars(T3Interrupt)
    /\ WF_gridVars(Call \/ ReadX \/ ReadY \/ AwaitPress \/ AwaitRelease \/ DelayStart)
    /\ SF_gridVars(Again \/ Pressed \/ Return)

FairSpec == GridSpec /\ Fairness

-----------------------------------------------------------------------------
GridTypeOK ==
    /\ {adcX, adcY} \subseteq ADC \cup {NONE}
    /\ TickCounter \in 0..TICKS-1 /\ t \in 0..TICKS-1
    /\ gridPc \in {"caller", "x", "y", "code", "delay", "wait"}
    /\ phase \in {1, 2}
    /\ x \in Int /\ y \in Int
    /\ pressed \in -INTMAX-1..INTMAX /\ released \in 0..DEBOUNCE
    /\ r \in [x : 0..15 \cup {NONE}, y : 0..15 \cup {NONE}, option : {0, 1, NONE}]
    /\ held \in 0..LONG+1 /\ ticked \in BOOLEAN

(***************************************************************************)
(* "Debounces": a button starts only with DEBOUNCE touched samples in a    *)
(* row, and ends only with DEBOUNCE untouched ones in a row.               *)
(***************************************************************************)
Debounced ==
    [][/\ phase = 1 /\ phase' = 2 => streak = DEBOUNCE
       /\ gridPc # "caller" /\ gridPc' = "caller" => streak = -DEBOUNCE]_gridVars

(***************************************************************************)
(* The cell returned is one a sample of this very call fell in, never left *)
(* over from an invalid sample or an earlier call.                         *)
(***************************************************************************)
CellWasFound == r.x # NONE => <<r.x, r.y>> \in found

(***************************************************************************)
(* The option flag is only given to a press of more than LONG samples.     *)
(***************************************************************************)
OptionIsLong == r.option = 1 => held > LONG

(***************************************************************************)
(* A finger that stays on the panel is accepted as a press, and one that   *)
(* stays away ends the call: no wrap of TickCounter leaves the main        *)
(* program in SYSTEM_DelayMs for good.                                     *)
(***************************************************************************)
HoldIsAccepted ==
    \A a, b \in ADC : (CalX[a] >= 0 /\ CalY[b] >= 0) =>
        (<>[](adcX = a /\ adcY = b) => <>[](phase = 2))

ReleaseReturns ==
    <>[](adcX = NONE /\ adcY = NONE) => []<>(gridPc = "caller" \/ phase = 1)

-----------------------------------------------------------------------------
(* What the comments say and the code does not do; see the README.         *)

(***************************************************************************)
(* grid.c:29, "if one of the two is null the other is too".                *)
(***************************************************************************)
NullTogether == gridPc = "code" => (x = NONE <=> y = NONE)

(***************************************************************************)
(* grid.c:57 and 73, "wait for at least one sample time": TickCounter      *)
(* moves between two samples.                                              *)
(***************************************************************************)
SampleTime == [][Again \/ Pressed => ticked]_gridVars

(***************************************************************************)
(* grid.c:77, "check if a button was pushed longer than 500ms": a press of *)
(* more than LONG samples gets the option flag.                            *)
(***************************************************************************)
LongHasOption ==
    [][gridPc # "caller" /\ gridPc' = "caller" /\ held > LONG => r'.option = 1]_gridVars

(***************************************************************************)
(* grid.h:45, "Blocking wait for a touch and release event": what it       *)
(* returns is the event, so the cell has been assigned.                    *)
(***************************************************************************)
CellAssigned == [][gridPc # "caller" /\ gridPc' = "caller" => r.x # NONE]_gridVars
=============================================================================
