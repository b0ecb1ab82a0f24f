------------------------------- MODULE MCDemos -------------------------------
(***************************************************************************)
(* Four things the demo programs do, one of them in a behaviour, as none   *)
(* looks at what another has done: a program writes to the terminal, lays  *)
(* its screen out with slices, animates the pond, or opens and closes the  *)
(* files of a card. The terminal is a page of two rows of four columns     *)
(* with a tab stop every two, its longest string does not fit in a row;    *)
(* the screen that is sliced has six columns and nine rows, and something  *)
(* remains of it. A drop is seen three times, and there is room for four;  *)
(* with the constants of the source it is eleven times, and twenty. There  *)
(* are more file objects than any demo has, so that objects of every index *)
(* are closed.                                                             *)
(***************************************************************************)
EXTENDS TTY, Slice, MicroSD

CONSTANTS RADIUS, SPEED, GONE, MAX_LIST, Points

VARIABLES
    does,               \* "terminal", "layout", "pond" or "files"
    touch, pc, drop, list_len, i, temp_len

pond == <<touch, pc, drop, list_len, i, temp_len>>
P == INSTANCE Pond

ASSUME DemosAssumption == P!PondAssumption /\ P!RoomAssumption

DemosInit ==
    /\ does \in {"terminal", "layout", "pond", "files"}
    /\ TTY_Init /\ SliceInit /\ P!Init /\ Init

DemosNext ==
    /\ UNCHANGED does
    /\ \/ does = "terminal" /\ TTYNext /\ UNCHANGED <<sliceVars, pond, vars>>
       \/ does = "layout" /\ SliceNext /\ UNCHANGED <<ttyVars, pond, vars>>
       \/ does = "pond" /\ P!Next /\ UNCHANGED <<ttyVars, sliceVars, vars>>
       \/ does = "files" /\ Next /\ UNCHANGED <<ttyVars, sliceVars, pond>>

DemosSpec == DemosInit /\ [][DemosNext]_<<does, ttyVars, sliceVars, pond, vars>>

NeverFull == P!NeverFull
ImplementsDrops == P!ImplementsDrops

MCPoints == {[x |-> 1, y |-> 2]}
=============================================================================
