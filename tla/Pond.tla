--------------------------------- MODULE Pond ---------------------------------
(***************************************************************************)
(* The pond, 4.Pond/main.c: an array of drops that main compacts in place  *)
(* as it grows them, and the touch position, which the sampling interrupt  *)
(* may change between any two reads of main.                               *)
(***************************************************************************)
EXTENDS Integers, Sequences

CONSTANTS
    RADIUS, SPEED, GONE, MAX_LIST,
    Points              \* where the finger may be

(* Stated as an assumption by the module that gives the constants values.  *)
PondAssumption ==
    /\ RADIUS \in Nat /\ SPEED \in Nat \ {0} /\ GONE \in 0..2^16-SPEED
    /\ MAX_LIST \in Nat \ {0}
    /\ Points \subseteq [x : Nat, y : Nat]

(* A drop of every round fits in the list until the first has gone: with   *)
(* the constants of the source 20 + 20 * 20 >= 256.                        *)
RoomAssumption == RADIUS + SPEED * MAX_LIST >= GONE

VARIABLES
    touch,              \* what TouchGetX and TouchGetY return
    pc,
    drop, list_len,     \* the list
    i, temp_len         \* locals; p and t point to drop[i] and drop[temp_len]

list == <<drop, list_len>>
vars == <<touch, pc, list, i, temp_len>>

Away == [x |-> -1, y |-> -1]
UInt(n) == n % 2^16
Visible(r) == r < GONE

(* Static storage. *)
Init ==
    /\ touch = Away
    /\ pc = "check"
    /\ drop = [n \in 0..MAX_LIST-1 |-> [x |-> 0, y |-> 0, r |-> 0]]
    /\ list_len = 0 /\ i = 0 /\ temp_len = 0

Finger ==
    /\ touch' \in Points \cup {Away}
    /\ UNCHANGED <<pc, list, i, temp_len>>

-----------------------------------------------------------------------------
Room == list_len < MAX_LIST

Check ==
    /\ pc = "check"
    /\ pc' = IF touch.x # -1 /\ Room THEN "x" ELSE "update"
    /\ UNCHANGED <<touch, list, i, temp_len>>

ReadX ==
    /\ pc = "x"
    /\ drop' = [drop EXCEPT ![list_len].x = UInt(touch.x)]
    /\ pc' = "y"
    /\ UNCHANGED <<touch, list_len, i, temp_len>>

ReadY ==
    /\ pc = "y"
    /\ drop' = [drop EXCEPT ![list_len].y = UInt(touch.y), ![list_len].r = RADIUS]
    /\ list_len' = list_len + 1
    /\ pc' = "update"
    /\ UNCHANGED <<touch, i, temp_len>>

StartUpdate ==
    /\ pc = "update"
    /\ i' = 0 /\ temp_len' = 0
    /\ pc' = "loop"
    /\ UNCHANGED <<touch, list>>

(* Slip: a drop that moves down the list keeps the radius of the one that  *)
(* was there.                                                              *)
SlipMoved(d, from, to) == [d EXCEPT ![to].x = d[from].x, ![to].y = d[from].y]

(* The drop moves down the list. *)
Moved(d, from, to) == [d EXCEPT ![to] = d[from]]

(* Slip: a drop remains for ever.                                          *)
SlipStays(r) == TRUE

Stays(r) == Visible(r)

Update ==
    /\ pc = "loop" /\ i < list_len
    /\ LET grown == [drop EXCEPT ![i].r = @ + SPEED]
       IN  IF Stays(grown[i].r)
             THEN /\ drop' = Moved(grown, i, temp_len)
                  /\ temp_len' = temp_len + 1
             ELSE drop' = grown /\ UNCHANGED temp_len
    /\ i' = i + 1
    /\ UNCHANGED <<touch, pc, list_len>>

EndUpdate ==
    /\ pc = "loop" /\ i = list_len
    /\ list_len' = temp_len
    /\ i' = 0 /\ temp_len' = 0
    /\ pc' = "check"
    /\ UNCHANGED <<touch, drop>>

Main == Check \/ ReadX \/ ReadY \/ StartUpdate \/ Update \/ EndUpdate

Next == Finger \/ Main

Spec == Init /\ [][Next]_vars

-----------------------------------------------------------------------------
(* The drops at places first to last-1 of the array. *)
Stretch(first, last) == [n \in 1..last-first |-> drop[first + n - 1]]

(* The first of the drops still to be updated that will stay.              *)
First ==
    CHOOSE n \in i..list_len :
        /\ n < list_len => Visible(drop[n].r + SPEED)
        /\ \A k \in i..n-1 : ~Visible(drop[k].r + SPEED)

Updated(drops) == [n \in DOMAIN drops |-> [drops[n] EXCEPT !.r = @ + SPEED]]

(* A finger lifted between two reads makes a drop at -1, off the screen.    *)
Coordinates == UNION {{UInt(p.x), UInt(p.y)} : p \in Points \cup {Away}}

(***************************************************************************)
(* Compacting in place, with one pointer behind the other, does to the     *)
(* list what Drops says, as if at once: no drop is lost, doubled or out of *)
(* order, and none grows twice.                                            *)
(***************************************************************************)
Seen == INSTANCE Drops WITH list <-
    IF pc = "loop"
      THEN Stretch(0, temp_len) \o Updated(Stretch(First, list_len))
      ELSE Stretch(0, list_len)
ImplementsDrops == Seen!DropsSpec

(***************************************************************************)
(* The array is never full: drops go away before MAX_LIST of them have     *)
(* come, so no touch is ignored.                                           *)
(***************************************************************************)
NeverFull == pc = "check" => Room
=============================================================================
