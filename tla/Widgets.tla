------------------------------- MODULE Widgets -------------------------------
(***************************************************************************)
(* The main loop of the 7.x projects: it draws the widgets, asks           *)
(* TouchGetMsg for a message, and passes it to the widgets, while the      *)
(* sampler goes on.                                                        *)
(***************************************************************************)
EXTENDS TouchMsg, GOL

VARIABLES
    step,               \* where the loop is: "draw", "get" or "message"
    gol                 \* the graphics object layer

widgetsVars == <<vars, step, gol>>

WidgetsInit ==
    /\ Init
    /\ step = "draw"
    /\ gol = NewList

Draw ==
    /\ step = "draw" /\ step' = "get"
    /\ gol' = ObjectListDraw(gol)
    /\ UNCHANGED vars

Get ==
    /\ step = "get"
    /\ \/ (ReadX \/ ReadY) /\ UNCHANGED step
       \/ TouchGetMsg /\ step' = "message"
    /\ UNCHANGED gol

ProcessMessage ==
    /\ step = "message" /\ step' = "draw"
    /\ gol' = ObjectMessage(gol, msg)
    /\ UNCHANGED vars

Loop == Draw \/ Get \/ ProcessMessage

WidgetsNext == Loop \/ (Sample /\ UNCHANGED <<step, gol>>)

WidgetsSpec == WidgetsInit /\ [][WidgetsNext]_widgetsVars

WidgetsFairSpec == WidgetsSpec /\ WF_widgetsVars(Loop)

-----------------------------------------------------------------------------
(***************************************************************************)
(* No button stays pressed once the stroke is over, wherever the finger    *)
(* went and wherever it was lifted, although a button hears of a release   *)
(* only if it happened on it.                                              *)
(***************************************************************************)
NothingStuck ==
    step = "draw" /\ Before = Nowhere =>
        \A n \in Numbers : "PRESSED" \notin gol.obj[n].state

(***************************************************************************)
(* What is on the screen after a drawing is what the widgets are: pressed  *)
(* faces, one thumb where the slider is, and one focus box at most, at the *)
(* widget that has the focus, although only what is marked is drawn again. *)
(***************************************************************************)
ScreenIsTrue ==
    step = "get" =>
        \A n \in Numbers :
            LET o == gol.obj[n]
            IN  gol.shown[n] =
                  [pressed |-> "PRESSED" \in o.state,
                   box |-> n = gol.focused,
                   thumbs |-> IF o.type = "slider" THEN {o.currPos} ELSE {}]

(***************************************************************************)
(* When a stroke is over the back light is where the slider was left: the  *)
(* callback runs before the slider moves, so it is one message late until  *)
(* the release.                                                            *)
(***************************************************************************)
BacklightFollows ==
    step = "draw" /\ msg.uiEvent = "RELEASE" =>
        \A n \in Numbers : gol.obj[n].type = "slider" => gol.backlight = gol.obj[n].pos
=============================================================================
