---------------------------- MODULE PressEvents -----------------------------
(***************************************************************************)
(* What the widgets of the graphics library expect of a pointing device:   *)
(* a stream of strokes, each a press, any number of moves and still-pressed *)
(* messages, and a release at the place last reported.                     *)
(***************************************************************************)
CONSTANT Places

VARIABLES
    event,      \* the last message
    at,         \* the place it reports; of no meaning between strokes
    down        \* is a stroke in progress?

eventVars == <<event, at, down>>

EventsInit == event = "INVALID" /\ down = FALSE

Quiet == ~down /\ event' = "INVALID" /\ UNCHANGED down

Press == ~down /\ event' = "PRESS" /\ down' = TRUE /\ at' \in Places

Move == down /\ event' = "MOVE" /\ UNCHANGED down /\ at' \in Places \ {at}

Still == down /\ event' = "STILLPRESS" /\ UNCHANGED <<down, at>>

Release == down /\ event' = "RELEASE" /\ down' = FALSE /\ UNCHANGED at

EventsNext == Quiet \/ Press \/ Move \/ Still \/ Release

EventsSpec == EventsInit /\ [][EventsNext]_eventVars
=============================================================================
