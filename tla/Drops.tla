-------------------------------- MODULE Drops --------------------------------
(***************************************************************************)
(* The drops of the pond, 4.Pond/main.c, as one sees them: oldest first,   *)
(* all growing at the same pace until they are too large.                  *)
(***************************************************************************)
EXTENDS Integers, Sequences

CONSTANTS
    RADIUS, SPEED,      \* 20, 20
    GONE,               \* the radius from which a drop is not visible: 256
    MAX_LIST,           \* 20
    Coordinates         \* where drops can be

VARIABLE list

Visible(r) == r < GONE

Older(d) == [d EXCEPT !.r = @ + SPEED]

Arrive ==
    /\ Len(list) < MAX_LIST
    /\ \E x, y \in Coordinates : list' = Append(list, [x |-> x, y |-> y, r |-> RADIUS])

(* All grow, and the oldest go, as many as have become too large.          *)
Frame ==
    \E gone \in 0..Len(list) :
        /\ \A n \in 1..Len(list) : Visible(Older(list[n]).r) <=> n > gone
        /\ list' = [n \in 1..Len(list) - gone |-> Older(list[n + gone])]

DropsSpec == list = <<>> /\ [][Arrive \/ Frame]_list
=============================================================================
