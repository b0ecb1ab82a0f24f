--------------------------------- MODULE GOL ---------------------------------
(***************************************************************************)
(* The graphics object layer, framework/gfx/src/gfx_gol.c, with two kinds  *)
(* of widgets: buttons (gfx_gol_button.c) and horizontal sliders           *)
(* (gfx_gol_scroll_bar.c in slider mode, with schemes that emboss          *)
(* nothing). A value g is all the layer keeps: its list of widgets, who    *)
(* has the focus, and what it has drawn; "backlight" is what the callback  *)
(* of 7.2-GOL_Slider makes of its messages. In the build of gfx_config.h   *)
(* drawing blocks, there is no second frame buffer, and focus is enabled.  *)
(***************************************************************************)
EXTENDS Integers, Sequences

CONSTANTS
    Objects             \* the list: [type, left, top, right, bottom, range, pos]

Numbers == DOMAIN Objects
NULL == 0
UInt(n) == n % 2^16

(* What is on the screen where a widget is: is its face the pressed one,   *)
(* has it a focus box, and where are thumbs.                               *)
Empty == [pressed |-> FALSE, box |-> FALSE, thumbs |-> {}]

(* The widgets as they are created, to be drawn whole. currPos is not set  *)
(* by the constructor, but by the first drawing.                           *)
Created(o) ==
    [type |-> o.type, left |-> o.left, top |-> o.top, right |-> o.right, bottom |-> o.bottom,
     range |-> IF o.range < 2 THEN 2 ELSE o.range,
     pos |-> o.pos, prevPos |-> o.pos, currPos |-> 0, state |-> {"DRAW"}]

NewList ==
    [obj |-> [n \in Numbers |-> Created(Objects[n])],
     focused |-> NULL,
     shown |-> [n \in Numbers |-> Empty],
     backlight |-> 255]

-----------------------------------------------------------------------------
(* gfx_gol_scroll_bar.c, in the coordinates of the screen.                 *)

(* Half of the thumb's width. *)
ThWidth(o) == (((o.bottom - o.top - 4 - 2) * 3) \div 8) \div 2
MinPos(o) == o.left + ThWidth(o) + 2
MaxPos(o) == o.right - ThWidth(o) - 2

(* The programs have a slider at most, which App_MsgCallback knows by its  *)
(* ID, and there is a way for its thumb to go.                             *)
ASSUME ObjectsAssumption ==
    /\ Objects \in Seq([type : {"button", "slider"}, left : Nat, top : Nat,
                        right : Nat, bottom : Nat, range : Nat, pos : Nat])
    /\ \A n \in Numbers : Objects[n].type = "slider" =>
          /\ MinPos(Objects[n]) < MaxPos(Objects[n])
          /\ \A k \in Numbers : Objects[k].type = "slider" => k = n

Place(o, pos) ==
    (((pos * 2^16) \div o.range) * (MaxPos(o) - MinPos(o))) \div 2^16 + MinPos(o)

PositionSet(o, pos) ==
    CASE pos <= 0 -> [o EXCEPT !.pos = 0, !.currPos = MinPos(o)]
      [] pos >= o.range -> [o EXCEPT !.pos = o.range, !.currPos = MaxPos(o)]
      [] OTHER -> [o EXCEPT !.pos = pos, !.currPos = Place(o, pos)]

(* The place of a finger, in the slider's own range. *)
Scaled(o, x) == ((x - MinPos(o)) * o.range) \div (MaxPos(o) - MinPos(o))

Within(o, x) == IF x <= MinPos(o) THEN MinPos(o)
                ELSE IF x >= MaxPos(o) THEN MaxPos(o) ELSE x

Slid(o, x) ==
    IF Within(o, x) = o.currPos THEN o
    ELSE [PositionSet(o, Scaled(o, Within(o, x))) EXCEPT !.state = @ \cup {"DRAW_THUMB"}]

-----------------------------------------------------------------------------
(* actionGet: what a message means to a widget.                            *)

Inside(o, m) ==
    /\ o.left < m.param1 /\ m.param1 < o.right
    /\ o.top < m.param2 /\ m.param2 < o.bottom

ButtonAction(o, m) ==
    LET pressed == "PRESSED" \in o.state
    IN  CASE Inside(o, m) /\ m.uiEvent = "RELEASE" -> "RELEASED"
          [] Inside(o, m) /\ m.uiEvent = "STILLPRESS" /\ pressed -> "STILLPRESSED"
          [] Inside(o, m) /\ m.uiEvent # "RELEASE" /\ ~pressed -> "PRESSED"
          [] ~Inside(o, m) /\ m.uiEvent = "MOVE" /\ pressed -> "CANCELPRESS"
          [] OTHER -> "INVALID"

NearThumb(o, x) ==
    UInt(o.currPos - 3 * ThWidth(o)) < x /\ x < o.currPos + 3 * ThWidth(o)

ScrollBarAction(o, m) ==
    LET slides == m.uiEvent \in {"PRESS", "MOVE"} /\ Inside(o, m) /\ NearThumb(o, m.param1)
    IN  CASE slides /\ m.param1 > o.currPos + 2 -> "INC"
          [] slides /\ m.param1 < o.currPos - 2 -> "DEC"
          [] m.uiEvent = "RELEASE" -> "PASSIVE"
          [] OTHER -> "INVALID"

(* Slip: a release that is not on the slider means nothing to it.          *)
SlipAction(o, m) ==
    IF o.type = "button" THEN ButtonAction(o, m)
    ELSE IF m.uiEvent = "RELEASE" /\ ~Inside(o, m) THEN "INVALID" ELSE ScrollBarAction(o, m)

Action(o, m) == IF o.type = "button" THEN ButtonAction(o, m) ELSE ScrollBarAction(o, m)

-----------------------------------------------------------------------------
(* actionSet: what an action does to it. Touched, every widget takes the   *)
(* focus.                                                                  *)

(* Slip: the widget that loses the focus is not drawn again.               *)
SlipFocusSet(g, n) ==
    LET lost == IF g.focused = NULL THEN g.obj
                ELSE [g.obj EXCEPT ![g.focused].state = @ \ {"FOCUSED"}]
    IN  [g EXCEPT !.obj = [lost EXCEPT ![n].state = @ \cup {"FOCUSED", "DRAW_FOCUS"}],
                  !.focused = n]

FocusSet(g, n) ==
    LET lost == IF g.focused = NULL THEN g.obj
                ELSE [g.obj EXCEPT ![g.focused].state = (@ \ {"FOCUSED"}) \cup {"DRAW_FOCUS"}]
    IN  [g EXCEPT !.obj = [lost EXCEPT ![n].state = @ \cup {"FOCUSED", "DRAW_FOCUS"}],
                  !.focused = n]

Acted(o, action, m) ==
    CASE action = "PRESSED" -> [o EXCEPT !.state = @ \cup {"PRESSED", "DRAW"}]
      [] action \in {"RELEASED", "CANCELPRESS"} ->
            [o EXCEPT !.state = (@ \ {"PRESSED"}) \cup {"DRAW"}]
      [] action \in {"INC", "DEC"} -> Slid(o, m.param1)
      [] OTHER -> o

ActionSet(g, n, action, m) ==
    LET f == IF "FOCUSED" \in g.obj[n].state THEN g ELSE FocusSet(g, n)
    IN  [f EXCEPT !.obj[n] = Acted(@, action, m)]

(* App_MsgCallback of 7.2-GOL_Slider, called before the action is taken.   *)
MsgCallback(g, n) ==
    IF g.obj[n].type = "slider" THEN [g EXCEPT !.backlight = g.obj[n].pos] ELSE g

(* What a message does to a widget, and to the one that had the focus.     *)
Answered(g, n, m) ==
    LET action == Action(g.obj[n], m)
    IN  IF action = "INVALID" THEN g ELSE ActionSet(MsgCallback(g, n), n, action, m)

ObjectMessage(g, m) ==
    LET after[n \in 0..Len(Objects)] ==
            IF n = 0 THEN g ELSE Answered(after[n - 1], n, m)
    IN  IF m.uiEvent = "INVALID" THEN g ELSE after[Len(Objects)]

-----------------------------------------------------------------------------
(* DrawObj: a button is always drawn whole, a slider by what it is asked.  *)

ButtonDraw(o, s) ==
    [s EXCEPT !.pressed = "PRESSED" \in o.state, !.box = "FOCUSED" \in o.state]

FocusBox(o, s) ==
    IF "DRAW_FOCUS" \in o.state THEN [s EXCEPT !.box = "FOCUSED" \in o.state] ELSE s

ScrollBarDraw(o, s) ==
    CASE "DRAW" \in o.state -> FocusBox(o, [Empty EXCEPT !.thumbs = {o.currPos}])
      [] "DRAW" \notin o.state /\ "DRAW_THUMB" \in o.state ->
            FocusBox(o, [s EXCEPT !.thumbs = (@ \ {o.prevPos}) \cup {o.currPos}])
      [] OTHER -> FocusBox(o, s)

(* Drawn whole, a slider finds its thumb's place first.                    *)
Positioned(o) ==
    IF o.type = "slider" /\ "DRAW" \in o.state THEN PositionSet(o, o.pos) ELSE o

DrawDisable(o) == [o EXCEPT !.state = @ \ {"DRAW", "DRAW_THUMB", "DRAW_FOCUS"}]

Drawn(o) ==
    IF o.type = "slider" /\ o.state \cap {"DRAW", "DRAW_THUMB"} # {}
      THEN DrawDisable([o EXCEPT !.prevPos = o.currPos])
      ELSE DrawDisable(o)

IsRedrawSet(o) == o.state \cap {"DRAW", "DRAW_THUMB", "DRAW_FOCUS"} # {}

ObjectListDraw(g) ==
    LET placed == [n \in Numbers |-> Positioned(g.obj[n])]
    IN  [g EXCEPT
           !.obj = [n \in Numbers |-> IF IsRedrawSet(placed[n]) THEN Drawn(placed[n]) ELSE placed[n]],
           !.shown = [n \in Numbers |->
                CASE ~IsRedrawSet(placed[n]) -> @[n]
                  [] IsRedrawSet(placed[n]) /\ placed[n].type = "button" -> ButtonDraw(placed[n], @[n])
                  [] OTHER -> ScrollBarDraw(placed[n], @[n])]]
=============================================================================
