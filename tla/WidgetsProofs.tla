---------------------------- MODULE WidgetsProofs ----------------------------
(***************************************************************************)
(* The touch messages and the graphics object layer, for every converter,  *)
(* every calibration and every list of buttons with a slider at most: the  *)
(* messages are strokes, whatever the sampler publishes between the two    *)
(* reads; and whatever the strokes, the screen shows what the widgets are, *)
(* no button stays pressed, and the back light follows the slider.         *)
(***************************************************************************)
EXTENDS Widgets, WellFoundedInduction, TLAPS

Places == Coord(CalX) \X Coord(CalY)

(***************************************************************************)
(* The inductive invariant: a place is whole, or nowhere; while it is read *)
(* its first half may be any coordinate; and while a stroke goes on the    *)
(* last message tells where the finger was before.                         *)
(***************************************************************************)
PanelHalves == {adcX, adcY} \subseteq ADC \cup {NONE}

FirstHalf == pc = "y" => x \in Coord(CalX) \cup {NONE}

WholeHere == pc = "msg" => Here \in Places \cup {Nowhere}

WholeBefore == Before \in Places \cup {Nowhere}

Told == Before # Nowhere => <<msg.param1, msg.param2>> = Before

IInv == PanelHalves /\ FirstHalf /\ WholeHere /\ WholeBefore /\ Told

(* What a read of one half gives: a coordinate, or "not touched".          *)
LEMMA ReadHalf ==
    ASSUME NEW cal \in [ADC -> Int], NEW raw \in ADC \cup {NONE}
    PROVE  TouchGet(cal, raw) \in Coord(cal) \cup {NONE}
BY DEF TouchGet, Coord

(* Of two halves one gets a whole place, or nowhere.                       *)
LEMMA BothWhole ==
    ASSUME NEW a \in Coord(CalX) \cup {NONE}, NEW b \in Coord(CalY) \cup {NONE}
    PROVE  LET p == Both(a, b)
           IN  /\ <<p[1], p[2]>> \in Places \cup {Nowhere}
BY DEF Both, Places, Nowhere, Coord

(* Nothing is published, and nothing told, at the start.                   *)
LEMMA InitInv == Init => IInv
BY DEF Init, PanelInit, IInv, PanelHalves, FirstHalf, WholeHere, WholeBefore, Told,
   Before, Nowhere

(* No step of the sampler or of the poll breaks it.                        *)
LEMMA StepInv == IInv /\ [Next]_vars => IInv'
<1> SUFFICES ASSUME IInv, [Next]_vars PROVE IInv'
  OBVIOUS
<1> USE MsgAssumption DEF IInv
<1>0. CASE UNCHANGED vars
  BY <1>0 DEF vars, panelVars, main, PanelHalves, FirstHalf, WholeHere, WholeBefore,
     Told, Here, Before
<1>1. CASE Sample
  BY <1>1 DEF Sample, PanelNext, Publish, Clear, main, PanelHalves, FirstHalf,
     WholeHere, WholeBefore, Told, Here, Before
<1>2. CASE ReadX
  <2>1. FirstHalf'
    BY <1>2, ReadHalf DEF ReadX, FirstHalf, PanelHalves
  <2>2. QED
    BY <1>2, <2>1 DEF ReadX, panelVars, PanelHalves, WholeHere, WholeBefore, Told,
       Before
<1>3. CASE ReadY
  <2>1. TouchGet(CalY, adcY) \in Coord(CalY) \cup {NONE}
    BY ReadHalf DEF PanelHalves
  <2>2. Here' \in Places \cup {Nowhere}
    BY <1>3, <2>1, BothWhole DEF ReadY, FirstHalf, Here
  <2>3. QED
    BY <1>3, <2>2 DEF ReadY, panelVars, PanelHalves, FirstHalf, WholeHere,
       WholeBefore, Told, Before, Nowhere
<1>4. CASE TouchGetMsg
  <2>1. Before' = Here
    BY <1>4 DEF TouchGetMsg, Remembered, Before, Here
  <2>2. Told'
    BY <1>4, <2>1 DEF TouchGetMsg, Message, Told, WholeHere, Here, Before, Nowhere
  <2>3. QED
    BY <1>4, <2>1, <2>2 DEF TouchGetMsg, panelVars, PanelHalves, FirstHalf, WholeHere,
       WholeBefore, Nowhere
<1>5. QED
  BY <1>0, <1>1, <1>2, <1>3, <1>4 DEF Next

(* The invariant holds in every state of the sampler and the main loop.    *)
LEMMA Inductive == Spec => []IInv
BY InitInv, StepInv, PTL DEF Spec

(***************************************************************************)
(* Every message is an event of a stroke.                                  *)
(***************************************************************************)
LEMMA MessageIsEvent == IInv /\ TouchGetMsg => Events!EventsNext
<1> SUFFICES ASSUME IInv, TouchGetMsg PROVE Events!EventsNext
  OBVIOUS
<1> DEFINE down == Before # Nowhere
           at == <<msg.param1, msg.param2>>
<1>1. Before' = Here /\ Here \in Places \cup {Nowhere} /\ (down => at = Before)
  BY DEF IInv, TouchGetMsg, Remembered, WholeHere, Told, Before, Here
<1>2. CASE Here = Nowhere /\ Before = Nowhere
  <2>1. msg'.uiEvent = "INVALID"
    BY <1>2 DEF TouchGetMsg, Message
  <2>2. Events!Quiet
    BY <1>1, <1>2, <2>1 DEF Events!Quiet, Nowhere
  <2>3. QED
    BY <2>2 DEF Events!EventsNext
<1>3. CASE Here = Nowhere /\ Before # Nowhere
  <2>1. msg' = [uiEvent |-> "RELEASE", param1 |-> Before[1], param2 |-> Before[2]]
    BY <1>3 DEF TouchGetMsg, Message, ReleasedAt
  <2>2. Events!Release
    BY <1>1, <1>3, <2>1 DEF Events!Release, Before, Nowhere
  <2>3. QED
    BY <2>2 DEF Events!EventsNext
<1>4. CASE Here # Nowhere /\ Before = Nowhere
  <2>1. msg' = [uiEvent |-> "PRESS", param1 |-> Here[1], param2 |-> Here[2]]
    BY <1>4 DEF TouchGetMsg, Message
  <2>2. Events!Press
    BY <1>1, <1>4, <2>1 DEF Events!Press, Here, Places, Nowhere
  <2>3. QED
    BY <2>2 DEF Events!EventsNext
<1>5. CASE Here # Nowhere /\ Before # Nowhere /\ Here = Before
  <2>1. msg' = [uiEvent |-> "STILLPRESS", param1 |-> Here[1], param2 |-> Here[2]]
    BY <1>5 DEF TouchGetMsg, Message
  <2>2. Events!Still
    BY <1>1, <1>5, <2>1 DEF Events!Still, Here, Before, Nowhere
  <2>3. QED
    BY <2>2 DEF Events!EventsNext
<1>6. CASE Here # Nowhere /\ Before # Nowhere /\ Here # Before
  <2>1. msg' = [uiEvent |-> "MOVE", param1 |-> Here[1], param2 |-> Here[2]]
    BY <1>6 DEF TouchGetMsg, Message
  <2>2. Events!Move
    BY <1>1, <1>6, <2>1 DEF Events!Move, Here, Before, Places, Nowhere
  <2>3. QED
    BY <2>2 DEF Events!EventsNext
<1>7. QED
  BY <1>2, <1>3, <1>4, <1>5, <1>6

(***************************************************************************)
(* TouchGetMsg implements PressEvents: whatever the sampler publishes      *)
(* between the two reads (drv_touch_screen.c:190), the widgets are given   *)
(* whole strokes at whole places.                                          *)
(***************************************************************************)
THEOREM StrokesDelivered == Spec => DeliversStrokes
<1>1. Init => Events!EventsInit
  BY DEF Init, Events!EventsInit, Before, Nowhere
<1>2. IInv /\ [Next]_vars => [Events!EventsNext]_(Events!eventVars)
  <2> SUFFICES ASSUME IInv, [Next]_vars
               PROVE  [Events!EventsNext]_(Events!eventVars)
    OBVIOUS
  <2>1. CASE TouchGetMsg
    BY <2>1, MessageIsEvent
  <2>2. CASE UNCHANGED <<msg, prevX, prevY>>
    BY <2>2 DEF Events!eventVars, Before
  <2>3. [Next]_vars => TouchGetMsg \/ UNCHANGED <<msg, prevX, prevY>>
    BY DEF Next, vars, main, Sample, ReadX, ReadY
  <2>4. QED
    BY <2>1, <2>2, <2>3
<1>3. QED
  BY Inductive, <1>1, <1>2, PTL DEF Spec, DeliversStrokes, Events!EventsSpec

-----------------------------------------------------------------------------
(***************************************************************************)
(* The types of the layer. "range" is never 0: the constructor sees to it. *)
(***************************************************************************)
Flags == {"PRESSED", "FOCUSED", "DRAW", "DRAW_THUMB", "DRAW_FOCUS"}
Redraw == {"DRAW", "DRAW_THUMB", "DRAW_FOCUS"}

Shapes == [type : {"button", "slider"}, left : Nat, top : Nat, right : Nat, bottom : Nat,
           range : Nat \ {0}, pos : Int, prevPos : Int, currPos : Int, state : SUBSET Flags]
Pictures == [pressed : BOOLEAN, box : BOOLEAN, thumbs : SUBSET Int]

GolTypes(g) ==
    /\ g \in [obj : [Numbers -> Shapes], focused : Numbers \cup {NULL},
              shown : [Numbers -> Pictures], backlight : Int]
    /\ \A n \in Numbers :
          /\ g.obj[n].type = Objects[n].type
          /\ g.obj[n].left = Objects[n].left /\ g.obj[n].right = Objects[n].right
          /\ g.obj[n].top = Objects[n].top /\ g.obj[n].bottom = Objects[n].bottom

(* The list knows who has the focus, and nobody else has it.               *)
OneFocus(g) == \A n \in Numbers : "FOCUSED" \in g.obj[n].state <=> n = g.focused

(***************************************************************************)
(* What the screen may lack, a mark asks to be drawn. A button is drawn    *)
(* whole with any mark. Of a slider the old thumb is where prevPos says,   *)
(* and when it is drawn whole the focus box must be marked on its own.     *)
(***************************************************************************)
ButtonMarked(o, s) ==
    /\ s.thumbs = {}
    /\ "DRAW" \notin o.state => (s.pressed <=> "PRESSED" \in o.state)
    /\ o.state \cap {"DRAW", "DRAW_FOCUS"} = {} => (s.box <=> "FOCUSED" \in o.state)

SliderMarked(o, s) ==
    /\ "PRESSED" \notin o.state
    /\ "DRAW" \in o.state => ("FOCUSED" \in o.state => "DRAW_FOCUS" \in o.state)
    /\ "DRAW" \notin o.state =>
          /\ ~s.pressed /\ s.thumbs = {o.prevPos}
          /\ "DRAW_THUMB" \notin o.state => o.currPos = o.prevPos
          /\ "DRAW_FOCUS" \notin o.state => (s.box <=> "FOCUSED" \in o.state)

Marked(o, s) == IF o.type = "button" THEN ButtonMarked(o, s) ELSE SliderMarked(o, s)

AllMarked(g) == \A n \in Numbers : Marked(g.obj[n], g.shown[n])

Clean(g) == \A n \in Numbers : g.obj[n].state \cap Redraw = {}

Layer(g) == GolTypes(g) /\ OneFocus(g) /\ AllMarked(g)

(***************************************************************************)
(* A button is pressed only under the finger. So until the next message is *)
(* answered, it was pressed under the last one: either the finger moves    *)
(* now, or it stays or leaves in the button.                               *)
(***************************************************************************)
Down == {"PRESS", "MOVE", "STILLPRESS"}

PressedHere(o, m) ==
    "PRESSED" \in o.state => o.type = "button" /\ m.uiEvent \in Down /\ Inside(o, m)

PressedBefore(o, m) ==
    "PRESSED" \in o.state =>
        \/ m.uiEvent = "MOVE"
        \/ m.uiEvent \in {"STILLPRESS", "RELEASE"} /\ Inside(o, m)

(* The last message tells whether the finger is down.                      *)
MsgTypes ==
    /\ msg \in [uiEvent : Down \cup {"RELEASE", "INVALID"}, param1 : Int, param2 : Int]
    /\ Before # Nowhere <=> msg.uiEvent \in Down
    /\ step \in {"draw", "get", "message"}

(***************************************************************************)
(* The inductive invariant of the loop with the widgets.                   *)
(***************************************************************************)
WInv ==
    /\ MsgTypes /\ Layer(gol)
    /\ step = "message" => \A n \in Numbers : PressedBefore(gol.obj[n], msg)
    /\ step # "message" => \A n \in Numbers : PressedHere(gol.obj[n], msg)
    /\ step # "draw" => Clean(gol)
    /\ BacklightFollows

(* The list of widgets is a sequence.                                      *)
LEMMA ObjectsTyped ==
    /\ Len(Objects) \in Nat /\ Numbers = 1..Len(Objects)
    /\ \A n \in Numbers : Objects[n] \in [type : {"button", "slider"}, left : Nat, top : Nat,
                                          right : Nat, bottom : Nat, range : Nat, pos : Nat]
<1> DEFINE T == [type : {"button", "slider"}, left : Nat, top : Nat,
                 right : Nat, bottom : Nat, range : Nat, pos : Nat]
<1>1. Objects \in Seq(T)
  BY ObjectsAssumption
<1> HIDE DEF T
<1>2. /\ Len(Objects) \in Nat /\ DOMAIN Objects = 1..Len(Objects)
      /\ \A n \in 1..Len(Objects) : Objects[n] \in T
  BY <1>1
<1> QED
  BY <1>2 DEF Numbers, T

(* The same widget, whatever became of its state.                          *)
Same(o, p) ==
    /\ p \in Shapes /\ p.type = o.type /\ p.prevPos = o.prevPos
    /\ p.left = o.left /\ p.right = o.right /\ p.top = o.top /\ p.bottom = o.bottom

(* The thumb has somewhere to go.                                         *)
HasWay(o) == o.type = "slider" => MinPos(o) < MaxPos(o)

(* A widget stays where it was created, so its thumb keeps its way.        *)
LEMMA WayKept ==
    ASSUME NEW g, GolTypes(g), NEW n \in Numbers
    PROVE  g.obj[n] \in Shapes /\ HasWay(g.obj[n])
BY ObjectsAssumption DEF GolTypes, HasWay, MinPos, MaxPos, ThWidth

(* The ends of the way are numbers.                                        *)
LEMMA WayTyped ==
    ASSUME NEW o \in Shapes
    PROVE  MinPos(o) \in Int /\ MaxPos(o) \in Int
<1>1. PICK l \in Nat, r \in Nat, t \in Nat, b \in Nat :
         l = o.left /\ r = o.right /\ t = o.top /\ b = o.bottom
  BY DEF Shapes
<1>2. PICK e \in Int : e = ((b - t) - 4) - 2
  OBVIOUS
<1>3. PICK q \in Int : q = (e * 3) \div 8
  OBVIOUS
<1>4. PICK w \in Int : w = q \div 2
  OBVIOUS
<1>5. ThWidth(o) = w
  BY <1>1, <1>2, <1>3, <1>4 DEF ThWidth
<1> QED
  BY <1>1, <1>5 DEF MinPos, MaxPos

(* The position that is set is a number, and nothing else is set.          *)
LEMMA PositionTyped ==
    ASSUME NEW o \in Shapes, NEW pos \in Int
    PROVE  /\ Same(o, PositionSet(o, pos)) /\ PositionSet(o, pos).state = o.state
<1>1. PICK lo \in Int, hi \in Int : lo = MinPos(o) /\ hi = MaxPos(o)
  BY WayTyped
<1>2. PICK r \in Nat \ {0} : r = o.range
  BY DEF Shapes
<1>3. PICK a \in Int : a = (pos * 2^16) \div r
  OBVIOUS
<1>4. PICK b \in Int : b = a * (hi - lo)
  OBVIOUS
<1>5. PICK c \in Int : c = b \div 2^16
  OBVIOUS
<1>6. Place(o, pos) = c + lo
  BY <1>1, <1>2, <1>3, <1>4, <1>5 DEF Place
<1>7. ASSUME NEW at \in Int, NEW place \in Int, NEW p,
             p = [o EXCEPT !.pos = at, !.currPos = place]
      PROVE  Same(o, p) /\ p.state = o.state
  BY <1>7 DEF Same, Shapes
<1>8. CASE pos <= 0
  <2>1. PICK at \in Int, place \in Int : at = 0 /\ place = MinPos(o)
    BY <1>1, <1>2, <1>6
  <2>2. PICK p : p = [o EXCEPT !.pos = at, !.currPos = place]
    OBVIOUS
  <2>3. Same(o, p) /\ p.state = o.state
    BY <1>7, <2>2
  <2>4. PositionSet(o, pos) = [o EXCEPT !.pos = 0, !.currPos = MinPos(o)]
    BY <1>2, <1>8 DEF PositionSet
  <2>5. PositionSet(o, pos) = p
    BY <2>1, <2>2, <2>4
  <2> QED
    BY <2>3, <2>5
<1>9. CASE ~(pos <= 0) /\ pos >= o.range
  <2>1. PICK at \in Int, place \in Int : at = o.range /\ place = MaxPos(o)
    BY <1>1, <1>2, <1>6
  <2>2. PICK p : p = [o EXCEPT !.pos = at, !.currPos = place]
    OBVIOUS
  <2>3. Same(o, p) /\ p.state = o.state
    BY <1>7, <2>2
  <2>4. PositionSet(o, pos) = [o EXCEPT !.pos = o.range, !.currPos = MaxPos(o)]
    BY <1>2, <1>9 DEF PositionSet
  <2>5. PositionSet(o, pos) = p
    BY <2>1, <2>2, <2>4
  <2> QED
    BY <2>3, <2>5
<1>10. CASE ~(pos <= 0) /\ ~(pos >= o.range)
  <2>1. PICK at \in Int, place \in Int : at = pos /\ place = Place(o, pos)
    BY <1>1, <1>2, <1>6
  <2>2. PICK p : p = [o EXCEPT !.pos = at, !.currPos = place]
    OBVIOUS
  <2>3. Same(o, p) /\ p.state = o.state
    BY <1>7, <2>2
  <2>4. PositionSet(o, pos) = [o EXCEPT !.pos = pos, !.currPos = Place(o, pos)]
    BY <1>2, <1>10 DEF PositionSet
  <2>5. PositionSet(o, pos) = p
    BY <2>1, <2>2, <2>4
  <2> QED
    BY <2>3, <2>5
<1> QED
  BY <1>8, <1>9, <1>10

(* A thumb that slides is marked to be drawn, and nothing else is.         *)
LEMMA SlidTyped ==
    ASSUME NEW o \in Shapes, o.type = "slider", HasWay(o), NEW to \in Int
    PROVE  /\ Same(o, Slid(o, to))
           /\ Slid(o, to) = o \/ Slid(o, to).state = o.state \cup {"DRAW_THUMB"}
<1>1. PICK lo \in Int, hi \in Int : lo = MinPos(o) /\ hi = MaxPos(o) /\ lo < hi
  BY WayTyped DEF HasWay
<1>2. PICK in \in Int : in = Within(o, to)
  BY <1>1 DEF Within
<1>3. PICK r \in Nat \ {0} : r = o.range
  BY DEF Shapes
<1>4. PICK d \in Nat \ {0} : d = hi - lo
  BY <1>1
<1>5. PICK way \in Int : way = (in - lo) * r
  OBVIOUS
<1>6. PICK pos \in Int : pos = way \div d
  OBVIOUS
<1>7. Scaled(o, in) = pos
  BY <1>1, <1>3, <1>4, <1>5, <1>6 DEF Scaled
<1>8. PICK p : p = PositionSet(o, pos)
  OBVIOUS
<1>9. Same(o, p) /\ p.state = o.state
  BY <1>8, PositionTyped
<1>10. Slid(o, to) = o \/ Slid(o, to) = [p EXCEPT !.state = p.state \cup {"DRAW_THUMB"}]
  BY <1>2, <1>7, <1>8 DEF Slid
<1>11. /\ Same(o, [p EXCEPT !.state = p.state \cup {"DRAW_THUMB"}])
       /\ [p EXCEPT !.state = p.state \cup {"DRAW_THUMB"}].state = o.state \cup {"DRAW_THUMB"}
  BY <1>9 DEF Same, Shapes, Flags
<1>12. Same(o, o)
  BY DEF Same
<1> QED
  BY <1>10, <1>11, <1>12

(* What a button does of a message: nothing to its focus; it is marked if  *)
(* its face changes, and is pressed only under the finger.                 *)
LEMMA ButtonActed ==
    ASSUME NEW o \in Shapes, o.type = "button", NEW s \in Pictures, ButtonMarked(o, s),
           NEW m, m.uiEvent \in Down \cup {"RELEASE"}, PressedBefore(o, m),
           NEW f, f = Acted(o, ButtonAction(o, m), m)
    PROVE  /\ Same(o, f) /\ f.pos = o.pos /\ ButtonMarked(f, s)
           /\ "FOCUSED" \in f.state <=> "FOCUSED" \in o.state
           /\ PressedHere(f, m)
<1> DEFINE here == Inside(o, m)
<1>1. CASE f = [o EXCEPT !.state = o.state \cup {"PRESSED", "DRAW"}] /\ here /\ m.uiEvent \in Down
  <2>1. f.state = o.state \cup {"PRESSED", "DRAW"} /\ f.pos = o.pos /\ Same(o, f)
    BY <1>1 DEF Same, Shapes, Flags
  <2>2. Inside(f, m)
    BY <1>1, <2>1 DEF Same, Inside
  <2> QED
    BY <1>1, <2>1, <2>2 DEF ButtonMarked, PressedHere, Same
<1>2. CASE f = [o EXCEPT !.state = (o.state \ {"PRESSED"}) \cup {"DRAW"}]
  <2>1. f.state = (o.state \ {"PRESSED"}) \cup {"DRAW"} /\ f.pos = o.pos /\ Same(o, f)
    BY <1>2 DEF Same, Shapes, Flags
  <2> QED
    BY <2>1 DEF ButtonMarked, PressedHere
<1>3. CASE f = o /\ ("PRESSED" \in o.state => here /\ m.uiEvent \in Down)
  BY <1>3 DEF Same, PressedHere
<1>4. \/ f = [o EXCEPT !.state = o.state \cup {"PRESSED", "DRAW"}] /\ here /\ m.uiEvent \in Down
      \/ f = [o EXCEPT !.state = (o.state \ {"PRESSED"}) \cup {"DRAW"}]
      \/ f = o /\ ("PRESSED" \in o.state => here /\ m.uiEvent \in Down)
  <2>1. CASE m.uiEvent = "RELEASE"
    <3>1. CASE here
      BY <2>1, <3>1 DEF ButtonAction, Acted
    <3>2. CASE ~here
      <4>1. ButtonAction(o, m) = "INVALID"
        BY <2>1, <3>2 DEF ButtonAction
      <4> QED
        BY <2>1, <3>2, <4>1 DEF Acted, PressedBefore
    <3> QED
      BY <3>1, <3>2
  <2>2. CASE m.uiEvent \in Down /\ "PRESSED" \in o.state
    <3>1. m.uiEvent # "RELEASE"
      BY <2>2 DEF Down
    <3>2. CASE here
      <4>1. ButtonAction(o, m) \in {"STILLPRESSED", "INVALID"}
        BY <2>2, <3>1, <3>2 DEF ButtonAction
      <4> QED
        BY <2>2, <3>2, <4>1 DEF Acted
    <3>3. CASE ~here
      <4>1. m.uiEvent = "MOVE"
        BY <2>2, <3>1, <3>3 DEF PressedBefore
      <4>2. ButtonAction(o, m) = "CANCELPRESS"
        BY <2>2, <3>3, <4>1 DEF ButtonAction
      <4> QED
        BY <4>2 DEF Acted
    <3> QED
      BY <3>2, <3>3
  <2>3. CASE m.uiEvent \in Down /\ "PRESSED" \notin o.state
    <3>1. m.uiEvent # "RELEASE"
      BY <2>3 DEF Down
    <3>2. CASE here
      <4>1. ButtonAction(o, m) = "PRESSED"
        BY <2>3, <3>1, <3>2 DEF ButtonAction
      <4> QED
        BY <2>3, <3>2, <4>1 DEF Acted
    <3>3. CASE ~here
      <4>1. ButtonAction(o, m) = "INVALID"
        BY <2>3, <3>1, <3>3 DEF ButtonAction
      <4> QED
        BY <2>3, <4>1 DEF Acted
    <3> QED
      BY <3>2, <3>3
  <2> QED
    BY <2>1, <2>2, <2>3
<1> QED
  BY <1>1, <1>2, <1>3, <1>4

(* What a slider does: it may move its thumb, and asks to be drawn if so.  *)
LEMMA SliderActed ==
    ASSUME NEW o \in Shapes, o.type = "slider", HasWay(o), NEW s \in Pictures, SliderMarked(o, s),
           NEW m, m.param1 \in Int,
           NEW f, f = Acted(o, ScrollBarAction(o, m), m)
    PROVE  /\ Same(o, f) /\ SliderMarked(f, s)
           /\ m.uiEvent = "RELEASE" => f.pos = o.pos /\ ScrollBarAction(o, m) = "PASSIVE"
           /\ "FOCUSED" \in f.state <=> "FOCUSED" \in o.state
           /\ PressedHere(f, m)
<1>1. ScrollBarAction(o, m) \in {"INC", "DEC", "PASSIVE", "INVALID"}
  BY DEF ScrollBarAction
<1>2. m.uiEvent = "RELEASE" => ScrollBarAction(o, m) = "PASSIVE"
  BY DEF ScrollBarAction
<1>3. f = Slid(o, m.param1) \/ f = o
  BY <1>1 DEF Acted
<1>4. m.uiEvent = "RELEASE" => f = o
  BY <1>2 DEF Acted
<1>5. Same(o, f) /\ (f = o \/ f.state = o.state \cup {"DRAW_THUMB"})
  BY <1>3, SlidTyped DEF Same
<1>6. SliderMarked(f, s) /\ ("FOCUSED" \in f.state <=> "FOCUSED" \in o.state)
  BY <1>5 DEF SliderMarked, Same
<1>7. PressedHere(f, m)
  BY <1>6 DEF SliderMarked, PressedHere
<1> QED
  BY <1>2, <1>4, <1>5, <1>6, <1>7

(* All that a message needs of the widgets next to the one it is for.      *)
Aside(o, p) ==
    /\ Same(o, p) /\ p.pos = o.pos /\ p.currPos = o.currPos
    /\ p.state \ {"FOCUSED", "DRAW_FOCUS"} = o.state \ {"FOCUSED", "DRAW_FOCUS"}
    /\ p.state = o.state \/ "DRAW_FOCUS" \in p.state

(* A widget that only gains or loses the focus stays marked.               *)
LEMMA AsideMarked ==
    ASSUME NEW o, NEW p, Aside(o, p), NEW s \in Pictures, Marked(o, s)
    PROVE  Marked(p, s)
<1>1. /\ "DRAW" \in p.state <=> "DRAW" \in o.state
      /\ "DRAW_THUMB" \in p.state <=> "DRAW_THUMB" \in o.state
      /\ "PRESSED" \in p.state <=> "PRESSED" \in o.state
      /\ p.state = o.state \/ "DRAW_FOCUS" \in p.state
      /\ p.currPos = o.currPos /\ p.prevPos = o.prevPos /\ p.type = o.type
  BY DEF Aside, Same
<1>2. CASE o.type = "button"
  <2>1. ButtonMarked(o, s)
    BY <1>2 DEF Marked
  <2>2. ButtonMarked(p, s)
    BY <1>1, <2>1 DEF ButtonMarked
  <2> QED
    BY <1>1, <1>2, <2>2 DEF Marked
<1>3. CASE o.type # "button"
  <2>1. SliderMarked(o, s)
    BY <1>3 DEF Marked
  <2>2. SliderMarked(p, s)
    BY <1>1, <2>1 DEF SliderMarked
  <2> QED
    BY <1>1, <1>3, <2>2 DEF Marked
<1> QED
  BY <1>2, <1>3

(* The focus moves, and both widgets are marked.                           *)
LEMMA FocusMoves ==
    ASSUME NEW g, Layer(g), NEW n \in Numbers, NEW f, f = FocusSet(g, n)
    PROVE  /\ Layer(f) /\ "FOCUSED" \in f.obj[n].state
           /\ f.backlight = g.backlight
           /\ \A k \in Numbers : Aside(g.obj[k], f.obj[k])
<1>0. GolTypes(g) /\ OneFocus(g) /\ AllMarked(g)
  BY DEF Layer
<1>1. PICK lost : lost = IF g.focused = NULL THEN g.obj
             ELSE [g.obj EXCEPT ![g.focused].state = (@ \ {"FOCUSED"}) \cup {"DRAW_FOCUS"}]
  OBVIOUS
<1>2. /\ lost \in [Numbers -> Shapes]
      /\ \A k \in Numbers : Aside(g.obj[k], lost[k]) /\ "FOCUSED" \notin lost[k].state
  <2>1. CASE g.focused = NULL
    <3>1. \A k \in Numbers : k # NULL
      BY ObjectsTyped DEF NULL
    <3> QED
      BY <1>0, <1>1, <2>1, <3>1 DEF GolTypes, OneFocus, Aside, Same
  <2>2. CASE g.focused # NULL
    <3>1. g.focused \in Numbers
      BY <1>0, <2>2 DEF GolTypes
    <3>2. PICK o : o = g.obj[g.focused]
      OBVIOUS
    <3>3. o \in Shapes
      BY <1>0, <3>1, <3>2 DEF GolTypes
    <3>4. PICK p : p = [o EXCEPT !.state = (o.state \ {"FOCUSED"}) \cup {"DRAW_FOCUS"}]
      OBVIOUS
    <3>5. p \in Shapes /\ Aside(o, p) /\ "FOCUSED" \notin p.state
      BY <3>3, <3>4 DEF Shapes, Flags, Aside, Same
    <3>6. lost = [g.obj EXCEPT ![g.focused] = p]
      BY <1>1, <2>2, <3>2, <3>4
    <3>7. ASSUME NEW k \in Numbers
          PROVE  Aside(g.obj[k], lost[k]) /\ "FOCUSED" \notin lost[k].state /\ lost[k] \in Shapes
      <4>1. CASE k = g.focused
        BY <1>0, <3>1, <3>2, <3>5, <3>6, <4>1 DEF GolTypes
      <4>2. CASE k # g.focused
        BY <1>0, <3>6, <4>2 DEF GolTypes, OneFocus, Aside, Same
      <4> QED
        BY <4>1, <4>2
    <3>8. lost \in [Numbers -> Shapes]
      BY <1>0, <3>5, <3>6 DEF GolTypes
    <3> QED
      BY <3>7, <3>8
  <2> QED
    BY <2>1, <2>2
<1>3. PICK q : q = [lost[n] EXCEPT !.state = lost[n].state \cup {"FOCUSED", "DRAW_FOCUS"}]
  OBVIOUS
<1>4. q \in Shapes /\ Aside(g.obj[n], q) /\ "FOCUSED" \in q.state
  BY <1>2, <1>3 DEF Shapes, Flags, Aside, Same
<1>5. f = [g EXCEPT !.obj = [lost EXCEPT ![n] = q], !.focused = n]
  BY <1>1, <1>3 DEF FocusSet
<1>6. /\ f.obj = [lost EXCEPT ![n] = q] /\ f.focused = n /\ f.shown = g.shown
      /\ f.backlight = g.backlight
      /\ f \in [obj : [Numbers -> Shapes], focused : Numbers \cup {NULL},
                shown : [Numbers -> Pictures], backlight : Int]
  BY <1>0, <1>2, <1>4, <1>5 DEF GolTypes
<1>7. ASSUME NEW k \in Numbers
      PROVE  Aside(g.obj[k], f.obj[k]) /\ ("FOCUSED" \in f.obj[k].state <=> k = n)
  BY <1>2, <1>4, <1>6
<1>8. GolTypes(f)
  BY <1>0, <1>6, <1>7 DEF GolTypes, Aside, Same
<1>9. OneFocus(f)
  BY <1>6, <1>7 DEF OneFocus
<1>10. AllMarked(f)
  <2> SUFFICES ASSUME NEW k \in Numbers PROVE Marked(f.obj[k], f.shown[k])
    BY DEF AllMarked
  <2>1. Marked(g.obj[k], g.shown[k]) /\ g.shown[k] \in Pictures
    BY <1>0 DEF AllMarked, GolTypes
  <2> QED
    BY <1>6, <1>7, <2>1, AsideMarked
<1> QED
  BY <1>6, <1>7, <1>8, <1>9, <1>10 DEF Layer

(* While a message is passed from widget to widget: those before it have   *)
(* answered, those after it not yet.                                       *)
Answering(g, done, m) ==
    /\ Layer(g)
    /\ \A n \in Numbers : IF n <= done THEN PressedHere(g.obj[n], m) ELSE PressedBefore(g.obj[n], m)
    /\ m.uiEvent = "RELEASE" =>
          \A n \in Numbers : n <= done /\ g.obj[n].type = "slider" => g.backlight = g.obj[n].pos

(* It is no more and no less pressed than before.                          *)
LEMMA AsidePressed ==
    ASSUME NEW o, NEW p, Aside(o, p), NEW m
    PROVE  /\ PressedHere(o, m) => PressedHere(p, m)
           /\ PressedBefore(o, m) => PressedBefore(p, m)
<1>1. "PRESSED" \in p.state <=> "PRESSED" \in o.state
  BY DEF Aside
<1>2. Inside(p, m) <=> Inside(o, m)
  BY DEF Aside, Same, Inside
<1>3. p.type = o.type
  BY DEF Aside, Same
<1> QED
  BY <1>1, <1>2, <1>3 DEF PressedHere, PressedBefore

(* The callback sets the back light by a slider, and touches no widget.    *)
LEMMA BacklightSet ==
    ASSUME NEW g, Layer(g), NEW n \in Numbers, NEW f, f = MsgCallback(g, n)
    PROVE  /\ Layer(f) /\ f.obj = g.obj
           /\ g.obj[n].type = "slider" => f.backlight = g.obj[n].pos
           /\ g.obj[n].type # "slider" => f.backlight = g.backlight
<1>1. GolTypes(g) /\ OneFocus(g) /\ AllMarked(g)
  BY DEF Layer
<1>2. g.obj[n] \in Shapes
  BY <1>1 DEF GolTypes
<1>3. g.obj[n].pos \in Int
  BY <1>2 DEF Shapes
<1>4. /\ f.obj = g.obj /\ f.focused = g.focused /\ f.shown = g.shown
      /\ f \in [obj : [Numbers -> Shapes], focused : Numbers \cup {NULL},
                shown : [Numbers -> Pictures], backlight : Int]
  BY <1>1, <1>3 DEF MsgCallback, GolTypes
<1>5. /\ g.obj[n].type = "slider" => f.backlight = g.obj[n].pos
      /\ g.obj[n].type # "slider" => f.backlight = g.backlight
  BY <1>1 DEF MsgCallback, GolTypes
<1> QED
  BY <1>1, <1>4, <1>5 DEF Layer, GolTypes, OneFocus, AllMarked

(* One more widget answers.                                                *)
LEMMA OneAnswers ==
    ASSUME NEW g, NEW n \in Numbers, NEW m, Answering(g, n - 1, m),
           m.uiEvent \in Down \cup {"RELEASE"}, m.param1 \in Int
    PROVE  Answering(Answered(g, n, m), n, m)
<1>0. Layer(g) /\ GolTypes(g) /\ AllMarked(g) /\ \A k \in Numbers : k \in Nat
  BY ObjectsTyped DEF Answering, Layer
<1>1. PICK o : o = g.obj[n]
  OBVIOUS
<1>2. /\ o \in Shapes /\ HasWay(o) /\ g.shown[n] \in Pictures /\ Marked(o, g.shown[n])
      /\ o.type \in {"button", "slider"}
  BY <1>0, <1>1, WayKept DEF GolTypes, AllMarked, Shapes
<1>3. PressedBefore(o, m)
  <2>1. ~(n <= n - 1)
    BY <1>0
  <2> QED
    BY <1>1, <2>1 DEF Answering
<1>4. PICK action : action = Action(o, m)
  OBVIOUS
<1>5. PICK p : p = Acted(o, action, m)
  OBVIOUS
<1>6. ASSUME NEW q, Aside(o, q), NEW r, r = Acted(q, action, m)
      PROVE  /\ Same(q, r) /\ Marked(r, g.shown[n]) /\ PressedHere(r, m)
             /\ "FOCUSED" \in r.state <=> "FOCUSED" \in q.state
             /\ r.type = "slider" /\ m.uiEvent = "RELEASE" => r.pos = q.pos /\ action # "INVALID"
  <2>0. /\ q \in Shapes /\ q.type = o.type /\ HasWay(q) /\ Marked(q, g.shown[n])
        /\ PressedBefore(q, m)
    BY <1>2, <1>3, <1>6, AsideMarked, AsidePressed DEF Aside, Same, HasWay, MinPos, MaxPos, ThWidth
  <2>a. action = Action(q, m)
    <3>1. /\ "PRESSED" \in q.state <=> "PRESSED" \in o.state
          /\ q.type = o.type /\ q.currPos = o.currPos
          /\ q.left = o.left /\ q.right = o.right /\ q.top = o.top /\ q.bottom = o.bottom
      BY <1>6 DEF Aside, Same
    <3> QED
      BY <1>4, <3>1 DEF Action, ButtonAction, ScrollBarAction, Inside, NearThumb, ThWidth
  <2>1. CASE o.type = "button"
    <3>1. action = ButtonAction(q, m) /\ ButtonMarked(q, g.shown[n]) /\ q.type = "button"
      BY <2>0, <2>a, <2>1 DEF Action, Marked
    <3>2. /\ Same(q, r) /\ ButtonMarked(r, g.shown[n]) /\ PressedHere(r, m)
          /\ "FOCUSED" \in r.state <=> "FOCUSED" \in q.state
      BY <1>2, <1>6, <2>0, <3>1, ButtonActed
    <3>3. r.type = "button"
      BY <3>1, <3>2 DEF Same
    <3> QED
      BY <3>2, <3>3 DEF Marked
  <2>2. CASE o.type = "slider"
    <3>1. action = ScrollBarAction(q, m) /\ SliderMarked(q, g.shown[n]) /\ q.type = "slider"
      BY <2>0, <2>a, <2>2 DEF Action, Marked
    <3>2. /\ Same(q, r) /\ SliderMarked(r, g.shown[n]) /\ PressedHere(r, m)
          /\ "FOCUSED" \in r.state <=> "FOCUSED" \in q.state
          /\ m.uiEvent = "RELEASE" => r.pos = q.pos /\ action = "PASSIVE"
      BY <1>2, <1>6, <2>0, <3>1, SliderActed
    <3>3. r.type = "slider"
      BY <3>1, <3>2 DEF Same
    <3> QED
      BY <3>2, <3>3 DEF Marked
  <2> QED
    BY <1>2, <2>1, <2>2
<1>7. CASE action = "INVALID"
  <2>1. Answered(g, n, m) = g
    BY <1>1, <1>4, <1>7 DEF Answered
  <2>2. p = o
    BY <1>5, <1>7 DEF Acted
  <2>3. Aside(o, o)
    BY <1>2 DEF Aside, Same
  <2>4. PressedHere(o, m) /\ ~(o.type = "slider" /\ m.uiEvent = "RELEASE")
    BY <1>5, <1>6, <1>7, <2>2, <2>3
  <2>5. ASSUME NEW k \in Numbers
        PROVE  IF k <= n THEN PressedHere(g.obj[k], m) ELSE PressedBefore(g.obj[k], m)
    <3>1. CASE k = n
      BY <1>0, <1>1, <2>4, <3>1
    <3>2. CASE k # n
      <4>1. k <= n <=> k <= n - 1
        BY <1>0, <3>2
      <4> QED
        BY <4>1 DEF Answering
    <3> QED
      BY <3>1, <3>2
  <2>6. ASSUME m.uiEvent = "RELEASE", NEW k \in Numbers, k <= n, g.obj[k].type = "slider"
        PROVE  g.backlight = g.obj[k].pos
    <3>1. k # n
      BY <1>1, <2>4, <2>6
    <3>2. k <= n - 1
      BY <1>0, <2>6, <3>1
    <3> QED
      BY <2>6, <3>2 DEF Answering
  <2> QED
    BY <1>0, <2>1, <2>5, <2>6 DEF Answering
<1>8. CASE action # "INVALID"
  <2>1. PICK lit : lit = MsgCallback(g, n)
    OBVIOUS
  <2>2. /\ Layer(lit) /\ lit.obj = g.obj
        /\ o.type = "slider" => lit.backlight = o.pos
        /\ o.type # "slider" => lit.backlight = g.backlight
    BY <1>0, <1>1, <2>1, BacklightSet
  <2>3. PICK f : f = IF "FOCUSED" \in lit.obj[n].state THEN lit ELSE FocusSet(lit, n)
    OBVIOUS
  <2>4. ASSUME NEW k \in Numbers PROVE Aside(g.obj[k], g.obj[k])
    BY <1>0 DEF GolTypes, Aside, Same
  <2>5. /\ Layer(f) /\ f.backlight = lit.backlight
        /\ \A k \in Numbers : Aside(g.obj[k], f.obj[k])
    <3>1. CASE "FOCUSED" \in lit.obj[n].state
      BY <2>2, <2>3, <2>4, <3>1
    <3>2. CASE "FOCUSED" \notin lit.obj[n].state
      BY <2>2, <2>3, <3>2, FocusMoves
    <3> QED
      BY <3>1, <3>2
  <2>f. GolTypes(f) /\ OneFocus(f) /\ AllMarked(f)
    BY <2>5 DEF Layer
  <2>s. f.shown[n] = g.shown[n]
    BY <1>0, <2>1, <2>2, <2>3 DEF MsgCallback, FocusSet, GolTypes, Layer
  <2>6. PICK q : q = f.obj[n]
    OBVIOUS
  <2>7. PICK r : r = Acted(q, action, m)
    OBVIOUS
  <2>8. /\ Aside(o, q) /\ Same(q, r) /\ Marked(r, g.shown[n]) /\ PressedHere(r, m)
        /\ "FOCUSED" \in r.state <=> "FOCUSED" \in q.state
        /\ r.type = "slider" /\ m.uiEvent = "RELEASE" => r.pos = q.pos
    BY <1>1, <1>6, <2>5, <2>6, <2>7
  <2>9. PICK e : e = Answered(g, n, m)
    OBVIOUS
  <2>10. e = [f EXCEPT !.obj[n] = r]
    <3>1. e = [f EXCEPT !.obj[n] = Acted(f.obj[n], action, m)]
      BY <1>1, <1>4, <1>8, <2>1, <2>3, <2>9 DEF Answered, ActionSet
    <3> QED
      BY <2>6, <2>7, <3>1
  <2>11. /\ e.obj = [f.obj EXCEPT ![n] = r] /\ e.focused = f.focused /\ e.shown = f.shown
         /\ e.backlight = f.backlight
         /\ e \in [obj : [Numbers -> Shapes], focused : Numbers \cup {NULL},
                   shown : [Numbers -> Pictures], backlight : Int]
    <3>1. r \in Shapes
      BY <2>8 DEF Same
    <3>2. [f.obj EXCEPT ![n] = r] \in [Numbers -> Shapes]
      BY <2>f, <3>1 DEF GolTypes
    <3> QED
      BY <2>f, <2>10, <3>2 DEF GolTypes
  <2>12. ASSUME NEW k \in Numbers
         PROVE  /\ k = n => e.obj[k] = r
                /\ k # n => e.obj[k] = f.obj[k]
    BY <2>f, <2>11 DEF GolTypes
  <2>13. GolTypes(e)
    BY <2>f, <2>6, <2>8, <2>11, <2>12 DEF GolTypes, Same
  <2>14. OneFocus(e)
    BY <2>f, <2>6, <2>8, <2>11, <2>12 DEF OneFocus
  <2>15. AllMarked(e)
    BY <2>f, <2>s, <2>8, <2>11, <2>12 DEF AllMarked
  <2>16. ASSUME NEW k \in Numbers
         PROVE  IF k <= n THEN PressedHere(e.obj[k], m) ELSE PressedBefore(e.obj[k], m)
    <3>1. CASE k = n
      BY <1>0, <2>8, <2>12, <3>1
    <3>2. CASE k # n
      <4>1. k <= n <=> k <= n - 1
        BY <1>0, <3>2
      <4>2. IF k <= n THEN PressedHere(g.obj[k], m) ELSE PressedBefore(g.obj[k], m)
        BY <4>1 DEF Answering
      <4>3. e.obj[k] = f.obj[k] /\ Aside(g.obj[k], f.obj[k])
        BY <2>5, <2>12, <3>2
      <4> QED
        BY <4>2, <4>3, AsidePressed
    <3> QED
      BY <3>1, <3>2
  <2>17. ASSUME m.uiEvent = "RELEASE", NEW k \in Numbers, k <= n, e.obj[k].type = "slider"
         PROVE  e.backlight = e.obj[k].pos
    <3>1. CASE k = n
      <4>1. r.pos = q.pos /\ q.pos = o.pos /\ o.type = "slider"
        BY <2>8, <2>12, <2>17, <3>1 DEF Aside, Same
      <4> QED
        BY <2>2, <2>5, <2>11, <2>12, <3>1, <4>1
    <3>2. CASE k # n
      <4>1. k <= n - 1 /\ e.obj[k] = f.obj[k] /\ Aside(g.obj[k], f.obj[k])
        BY <1>0, <2>5, <2>12, <2>17, <3>2
      <4>2. g.obj[k].type = "slider" /\ g.obj[k].pos = e.obj[k].pos
        BY <2>17, <4>1 DEF Aside, Same
      <4>3. g.backlight = g.obj[k].pos
        BY <2>17, <4>1, <4>2 DEF Answering
      <4>4. Objects[k].type = "slider" /\ Objects[n].type = o.type
        BY <1>0, <1>1, <4>2 DEF GolTypes
      <4>5. o.type # "slider"
        BY <3>2, <4>4, ObjectsAssumption
      <4> QED
        BY <2>2, <2>5, <2>11, <4>2, <4>3, <4>5
    <3> QED
      BY <3>1, <3>2
  <2> QED
    BY <2>9, <2>13, <2>14, <2>15, <2>16, <2>17 DEF Answering, Layer
<1> QED
  BY <1>7, <1>8

(* The widgets as the message finds them, after one has answered, after    *)
(* two, and so on to n.                                                    *)
IsAfter(after, g, m, n) ==
    after = [k \in 0..n |-> IF k = 0 THEN g ELSE Answered(after[k - 1], k, m)]

(* A set of numbers has a least one, by the well-founded order on Nat.     *)
LEMMA Least ==
    ASSUME NEW S, S \subseteq Nat, S # {}
    PROVE  \E n \in S : \A k \in S : n <= k
<1> DEFINE R == OpToRel(<, Nat)
<1>1. \A a, b \in Nat : <<b, a>> \in R <=> b < a
  BY DEF OpToRel
<1>2. IsWellFoundedOn(R, Nat)
  BY NatLessThanWellFounded
<1> HIDE DEF R
<1>3. PICK a \in S : \A b \in S : ~(<<b, a>> \in R)
  BY <1>2, WFMin
<1>4. ASSUME NEW k \in S PROVE  a <= k
  <2>1. ~(<<k, a>> \in R)
    BY <1>3
  <2>2. <<k, a>> \in R <=> k < a
    BY <1>1, Zenon
  <2>3. ~(k < a)
    BY <2>1, <2>2
  <2> QED
    BY <2>3
<1> QED
  BY <1>4

(* The recursive function in ObjectMessage exists.                         *)
LEMMA AfterExists ==
    ASSUME NEW g, NEW m
    PROVE  \A n \in Nat : \E after : IsAfter(after, g, m, n)
<1> DEFINE Has(n) == \E after : IsAfter(after, g, m, n)
           None == {n \in Nat : ~Has(n)}
<1> SUFFICES ASSUME None # {} PROVE FALSE
  OBVIOUS
<1>1. PICK n \in None : \A k \in None : n <= k
  <2> HIDE DEF Has
  <2> QED
    BY Least
<1>2. Has(0)
  <2> DEFINE after == [k \in 0..0 |-> g]
  <2>1. IsAfter(after, g, m, 0)
    BY DEF IsAfter
  <2> HIDE DEF after
  <2> QED
    BY <2>1
<1>3. n # 0 /\ n \in Nat
  <2> HIDE DEF Has
  <2> QED
    BY <1>2
<1>4. Has(n - 1)
  <2> HIDE DEF Has
  <2>1. n - 1 \in Nat /\ ~(n <= n - 1)
    BY <1>3
  <2> QED
    BY <1>1, <2>1
<1>5. PICK shorter : IsAfter(shorter, g, m, n - 1)
  BY <1>4
<1> DEFINE after == [k \in 0..n |-> IF k = 0 THEN g ELSE Answered(shorter[k - 1], k, m)]
<1> HIDE DEF None
<1>6. ASSUME NEW k \in 0..n - 1 PROVE after[k] = shorter[k]
  <2>1. k \in 0..n
    BY <1>3
  <2>2. after[k] = IF k = 0 THEN g ELSE Answered(shorter[k - 1], k, m)
    BY <2>1
  <2>3. shorter = [j \in 0..n - 1 |-> IF j = 0 THEN g ELSE Answered(shorter[j - 1], j, m)]
    BY <1>5 DEF IsAfter
  <2>4. shorter[k] = IF k = 0 THEN g ELSE Answered(shorter[k - 1], k, m)
    BY <2>3
  <2> QED
    BY <2>2, <2>4
<1>7. ASSUME NEW k \in 0..n, k # 0 PROVE after[k - 1] = shorter[k - 1]
  <2>1. k - 1 \in 0..n - 1
    BY <1>3, <1>7
  <2> QED
    BY <1>6, <2>1
<1>8. after = [k \in 0..n |-> IF k = 0 THEN g ELSE Answered(after[k - 1], k, m)]
  BY <1>7
<1> HIDE DEF after
<1>9. Has(n)
  BY <1>8 DEF IsAfter
<1> QED
  BY <1>9 DEF None

(* So ObjectMessage asks one widget after the other.                       *)
LEMMA AfterSteps ==
    ASSUME NEW g, NEW m, m.uiEvent # "INVALID"
    PROVE  \E after : /\ ObjectMessage(g, m) = after[Len(Objects)] /\ after[0] = g
                      /\ \A k \in Numbers : after[k] = Answered(after[k - 1], k, m)
<1> DEFINE steps == CHOOSE after : IsAfter(after, g, m, Len(Objects))
<1>1. IsAfter(steps, g, m, Len(Objects))
  BY AfterExists, ObjectsTyped
<1>2. ObjectMessage(g, m) = steps[Len(Objects)]
  BY DEF ObjectMessage, IsAfter
<1> HIDE DEF steps
<1>3. steps = [k \in 0..Len(Objects) |-> IF k = 0 THEN g ELSE Answered(steps[k - 1], k, m)]
  BY <1>1 DEF IsAfter
<1>4. PICK n \in Nat : n = Len(Objects)
  BY ObjectsTyped
<1>5. steps[0] = g /\ \A k \in 1..n : steps[k] = Answered(steps[k - 1], k, m)
  BY <1>3, <1>4
<1> QED
  BY <1>2, <1>4, <1>5, ObjectsTyped

(* When all widgets were asked, all have answered.                         *)
LEMMA AllAnswer ==
    ASSUME NEW g, NEW m, Layer(g), m.uiEvent \in Down \cup {"RELEASE"}, m.param1 \in Int,
           \A n \in Numbers : PressedBefore(g.obj[n], m)
    PROVE  Answering(ObjectMessage(g, m), Len(Objects), m)
<1>1. PICK after : /\ ObjectMessage(g, m) = after[Len(Objects)] /\ after[0] = g
                   /\ \A k \in Numbers : after[k] = Answered(after[k - 1], k, m)
  BY AfterSteps DEF Down
<1>2. PICK n \in Nat : n = Len(Objects) /\ Numbers = 1..n
  BY ObjectsTyped
<1>3. Answering(g, 0, m)
  <2>1. \A k \in Numbers : ~(k <= 0)
    BY <1>2
  <2> QED
    BY <2>1 DEF Answering
<1> DEFINE Bad == {k \in Nat : k \in 0..n /\ ~Answering(after[k], k, m)}
<1>4. Bad = {}
  <2> SUFFICES ASSUME Bad # {} PROVE FALSE
    OBVIOUS
  <2>1. PICK k \in Bad : \A j \in Bad : k <= j
    BY Least
  <2>2. k \in 0..n /\ ~Answering(after[k], k, m)
    OBVIOUS
  <2>3. k # 0
    BY <1>1, <1>3, <2>2
  <2>4. k \in 1..n /\ k - 1 \in Nat /\ k - 1 \in 0..n /\ ~(k <= k - 1)
    BY <2>2, <2>3
  <2>5. Answering(after[k - 1], k - 1, m)
    BY <2>1, <2>4
  <2>6. k \in Numbers /\ after[k] = Answered(after[k - 1], k, m)
    BY <1>1, <1>2, <2>4
  <2> QED
    BY <2>2, <2>5, <2>6, OneAnswers
<1> QED
  BY <1>1, <1>2, <1>4

(* What drawing makes of a widget: the same, at its place, and unmarked.   *)
Cleaned(o, w) ==
    /\ w \in Shapes /\ w.type = o.type /\ w.left = o.left /\ w.right = o.right
    /\ w.top = o.top /\ w.bottom = o.bottom /\ w.state = o.state \ Redraw

(* Only a slider that is drawn whole is given its place first.             *)
LEMMA PositionedSame ==
    ASSUME NEW o \in Shapes, NEW p, p = Positioned(o)
    PROVE  /\ Same(o, p) /\ p.state = o.state
           /\ (o.type = "slider" /\ "DRAW" \in o.state) \/ p = o
<1>1. CASE o.type = "slider" /\ "DRAW" \in o.state
  <2>1. p = PositionSet(o, o.pos) /\ o.pos \in Int
    BY <1>1 DEF Positioned, Shapes
  <2> QED
    BY <1>1, <2>1, PositionTyped
<1>2. CASE ~(o.type = "slider" /\ "DRAW" \in o.state)
  BY <1>2 DEF Positioned, Same
<1> QED
  BY <1>1, <1>2

(* A widget that was drawn is not marked any more.                         *)
LEMMA DrawnClean ==
    ASSUME NEW p \in Shapes, NEW w, w = IF IsRedrawSet(p) THEN Drawn(p) ELSE p
    PROVE  /\ Cleaned(p, w) /\ w.currPos = p.currPos
           /\ w.prevPos = IF p.type = "slider" /\ p.state \cap {"DRAW", "DRAW_THUMB"} # {}
                            THEN p.currPos ELSE p.prevPos
<1>1. CASE ~IsRedrawSet(p)
  BY <1>1 DEF IsRedrawSet, Cleaned, Redraw
<1>2. CASE IsRedrawSet(p) /\ p.type = "slider" /\ p.state \cap {"DRAW", "DRAW_THUMB"} # {}
  <2>1. PICK q : q = [p EXCEPT !.prevPos = p.currPos]
    OBVIOUS
  <2>2. q \in Shapes /\ q.prevPos = p.currPos /\ q.currPos = p.currPos /\ q.state = p.state
        /\ q.type = p.type /\ q.left = p.left /\ q.right = p.right /\ q.top = p.top
        /\ q.bottom = p.bottom
    BY <2>1 DEF Shapes
  <2>3. w = [q EXCEPT !.state = q.state \ Redraw]
    BY <1>2, <2>1 DEF Drawn, DrawDisable, Redraw
  <2> QED
    BY <1>2, <2>2, <2>3 DEF Cleaned, Shapes
<1>3. CASE IsRedrawSet(p) /\ ~(p.type = "slider" /\ p.state \cap {"DRAW", "DRAW_THUMB"} # {})
  <2>1. w = [p EXCEPT !.state = p.state \ Redraw]
    BY <1>3 DEF Drawn, DrawDisable, Redraw
  <2> QED
    BY <1>3, <2>1 DEF Cleaned, Shapes
<1> QED
  BY <1>1, <1>2, <1>3

(* Whether a flag is set is TRUE or FALSE.                                 *)
LEMMA Flag ==
    ASSUME NEW f, NEW S
    PROVE  \E b \in BOOLEAN : b = (f \in S)
<1>1. (f \in S) \in BOOLEAN
  OBVIOUS
<1> QED
  BY <1>1

(* A button that was drawn, or needed it not, looks as it is.              *)
LEMMA ButtonPainted ==
    ASSUME NEW p \in Shapes, p.type = "button", NEW s \in Pictures, ButtonMarked(p, s),
           NEW w, Cleaned(p, w),
           NEW t, t = IF IsRedrawSet(p) THEN ButtonDraw(p, s) ELSE s
    PROVE  t \in Pictures /\ ButtonMarked(w, t)
<1>1. /\ "PRESSED" \in w.state <=> "PRESSED" \in p.state
      /\ "FOCUSED" \in w.state <=> "FOCUSED" \in p.state
  BY DEF Cleaned, Redraw
<1>2. CASE IsRedrawSet(p)
  <2>1. PICK face \in BOOLEAN : face = ("PRESSED" \in p.state)
    BY Flag
  <2>2. PICK box \in BOOLEAN : box = ("FOCUSED" \in p.state)
    BY Flag
  <2>3. t = [s EXCEPT !.pressed = face, !.box = box]
    BY <1>2, <2>1, <2>2 DEF ButtonDraw
  <2>4. t \in Pictures /\ t.pressed = face /\ t.box = box /\ t.thumbs = s.thumbs
    BY <2>3 DEF Pictures
  <2> QED
    BY <1>1, <2>1, <2>2, <2>4 DEF ButtonMarked
<1>3. CASE ~IsRedrawSet(p)
  BY <1>1, <1>3 DEF IsRedrawSet, ButtonMarked
<1> QED
  BY <1>2, <1>3

(* The focus box is drawn or erased if it is marked, and else left alone.  *)
LEMMA FocusPainted ==
    ASSUME NEW p \in Shapes, NEW s \in Pictures, NEW t, t = FocusBox(p, s)
    PROVE  /\ t \in Pictures /\ t.pressed = s.pressed /\ t.thumbs = s.thumbs
           /\ "DRAW_FOCUS" \in p.state => (t.box <=> "FOCUSED" \in p.state)
           /\ "DRAW_FOCUS" \notin p.state => t.box = s.box
<1>1. PICK box \in BOOLEAN : box = ("FOCUSED" \in p.state)
  BY Flag
<1>2. CASE "DRAW_FOCUS" \in p.state
  <2>1. t = [s EXCEPT !.box = box]
    BY <1>1, <1>2 DEF FocusBox
  <2> QED
    BY <1>1, <1>2, <2>1 DEF Pictures
<1>3. CASE "DRAW_FOCUS" \notin p.state
  BY <1>3 DEF FocusBox
<1> QED
  BY <1>2, <1>3

(* A slider whose marked parts were drawn looks as it is.                  *)
LEMMA SliderPainted ==
    ASSUME NEW p \in Shapes, p.type = "slider", NEW s \in Pictures,
           "PRESSED" \notin p.state,
           "DRAW" \in p.state => ("FOCUSED" \in p.state => "DRAW_FOCUS" \in p.state),
           "DRAW" \notin p.state => SliderMarked(p, s),
           NEW w, w = IF IsRedrawSet(p) THEN Drawn(p) ELSE p,
           NEW t, t = IF IsRedrawSet(p) THEN ScrollBarDraw(p, s) ELSE s
    PROVE  t \in Pictures /\ SliderMarked(w, t)
<1>0. /\ Cleaned(p, w) /\ w.currPos = p.currPos
      /\ w.prevPos = IF p.state \cap {"DRAW", "DRAW_THUMB"} # {} THEN p.currPos ELSE p.prevPos
  BY DrawnClean
<1>1. /\ "PRESSED" \notin w.state /\ w.state \cap Redraw = {}
      /\ "FOCUSED" \in w.state <=> "FOCUSED" \in p.state
      /\ p.currPos \in Int
  BY <1>0 DEF Cleaned, Redraw, Shapes
<1>2. CASE "DRAW" \in p.state
  <2>1. PICK u : u = [Empty EXCEPT !.thumbs = {p.currPos}]
    OBVIOUS
  <2>2. u \in Pictures /\ u.pressed = FALSE /\ u.box = FALSE /\ u.thumbs = {p.currPos}
    BY <1>1, <2>1 DEF Empty, Pictures
  <2>3. t = FocusBox(p, u)
    BY <1>2, <2>1 DEF ScrollBarDraw, IsRedrawSet
  <2>4. /\ t \in Pictures /\ t.pressed = FALSE /\ t.thumbs = {p.currPos}
        /\ t.box <=> "FOCUSED" \in p.state
    BY <1>2, <2>2, <2>3, FocusPainted
  <2>5. w.prevPos = p.currPos
    BY <1>0, <1>2
  <2> QED
    BY <1>0, <1>1, <2>4, <2>5 DEF SliderMarked, Redraw
<1>3. CASE "DRAW" \notin p.state /\ "DRAW_THUMB" \in p.state
  <2>1. PICK u : u = [s EXCEPT !.thumbs = (s.thumbs \ {p.prevPos}) \cup {p.currPos}]
    OBVIOUS
  <2>2. SliderMarked(p, s)
    BY <1>3
  <2>3. (s.thumbs \ {p.prevPos}) \cup {p.currPos} = {p.currPos}
    BY <1>3, <2>2 DEF SliderMarked
  <2>4. u \in Pictures /\ ~u.pressed /\ u.box = s.box /\ u.thumbs = {p.currPos}
    BY <1>1, <1>3, <2>1, <2>2, <2>3 DEF Pictures, SliderMarked
  <2>5. t = FocusBox(p, u)
    BY <1>3, <2>1 DEF ScrollBarDraw, IsRedrawSet
  <2>6. /\ t \in Pictures /\ ~t.pressed /\ t.thumbs = {p.currPos}
        /\ t.box <=> "FOCUSED" \in p.state
    BY <1>3, <2>2, <2>4, <2>5, FocusPainted DEF SliderMarked
  <2>7. w.prevPos = p.currPos
    BY <1>0, <1>3
  <2> QED
    BY <1>0, <1>1, <2>6, <2>7 DEF SliderMarked, Redraw
<1>4. CASE "DRAW" \notin p.state /\ "DRAW_THUMB" \notin p.state
  <2>1. SliderMarked(p, s) /\ p.currPos = p.prevPos
    BY <1>4 DEF SliderMarked
  <2>2. w.prevPos = p.currPos
    BY <1>0, <1>4, <2>1
  <2>3. /\ t \in Pictures /\ ~t.pressed /\ t.thumbs = {p.currPos}
        /\ t.box <=> "FOCUSED" \in p.state
    <3>1. CASE IsRedrawSet(p)
      <4>1. t = FocusBox(p, s)
        BY <1>4, <3>1 DEF ScrollBarDraw
      <4> QED
        BY <1>4, <2>1, <4>1, FocusPainted DEF SliderMarked
    <3>2. CASE ~IsRedrawSet(p)
      BY <1>4, <2>1, <3>2 DEF SliderMarked, IsRedrawSet
    <3> QED
      BY <3>1, <3>2
  <2> QED
    BY <1>0, <1>1, <2>2, <2>3 DEF SliderMarked, Redraw
<1> QED
  BY <1>2, <1>3, <1>4

(* After a drawing nothing is marked, and the screen shows the widgets.    *)
LEMMA ListDrawn ==
    ASSUME NEW g, Layer(g), NEW d, d = ObjectListDraw(g)
    PROVE  /\ Layer(d) /\ Clean(d)
           /\ \A n \in Numbers : Cleaned(g.obj[n], d.obj[n])
<1>0. GolTypes(g) /\ OneFocus(g) /\ AllMarked(g)
  BY DEF Layer
<1> DEFINE Placed(n) == Positioned(g.obj[n])
           Object(n) == IF IsRedrawSet(Placed(n)) THEN Drawn(Placed(n)) ELSE Placed(n)
           Picture(n) ==
                CASE ~IsRedrawSet(Placed(n)) -> g.shown[n]
                  [] IsRedrawSet(Placed(n)) /\ Placed(n).type = "button" ->
                        ButtonDraw(Placed(n), g.shown[n])
                  [] OTHER -> ScrollBarDraw(Placed(n), g.shown[n])
<1>1. ASSUME NEW n \in Numbers
      PROVE  /\ Cleaned(g.obj[n], Object(n)) /\ Picture(n) \in Pictures
             /\ Marked(Object(n), Picture(n))
  <2>1. PICK o : o = g.obj[n]
    OBVIOUS
  <2>2. PICK s : s = g.shown[n]
    OBVIOUS
  <2>3. o \in Shapes /\ s \in Pictures /\ Marked(o, s) /\ o.type \in {"button", "slider"}
    BY <1>0, <2>1, <2>2 DEF GolTypes, AllMarked, Shapes
  <2>4. PICK p : p = Placed(n)
    OBVIOUS
  <2>5. /\ Same(o, p) /\ p.state = o.state
        /\ (o.type = "slider" /\ "DRAW" \in o.state) \/ p = o
    BY <2>1, <2>3, <2>4, PositionedSame
  <2>6. PICK w : w = IF IsRedrawSet(p) THEN Drawn(p) ELSE p
    OBVIOUS
  <2>7. Cleaned(p, w)
    BY <2>5, <2>6, DrawnClean DEF Same
  <2>8. Cleaned(o, w) /\ w.type = o.type
    BY <2>5, <2>7 DEF Cleaned, Same
  <2>9. Object(n) = w
    BY <2>4, <2>6
  <2>10. Picture(n) \in Pictures /\ Marked(w, Picture(n))
    <3>1. CASE o.type = "button"
      <4>1. p = o
        BY <2>5, <3>1
      <4>2. Picture(n) = IF IsRedrawSet(p) THEN ButtonDraw(p, s) ELSE s
        BY <2>2, <2>4, <3>1, <4>1
      <4>3. Picture(n) \in Pictures /\ ButtonMarked(w, Picture(n))
        <5> HIDE DEF Picture
        <5> QED
          BY <2>3, <2>7, <3>1, <4>1, <4>2, ButtonPainted DEF Marked
      <4> QED
        BY <2>8, <3>1, <4>3 DEF Marked
    <3>2. CASE o.type = "slider"
      <4>1. p \in Shapes /\ p.type = "slider"
        BY <2>5, <3>2 DEF Same
      <4>2. Picture(n) = IF IsRedrawSet(p) THEN ScrollBarDraw(p, s) ELSE s
        BY <2>2, <2>4, <4>1
      <4>3. SliderMarked(o, s)
        BY <2>3, <3>2 DEF Marked
      <4>4. /\ "PRESSED" \notin p.state
            /\ "DRAW" \in p.state => ("FOCUSED" \in p.state => "DRAW_FOCUS" \in p.state)
            /\ "DRAW" \notin p.state => SliderMarked(p, s)
        BY <2>5, <4>3 DEF SliderMarked
      <4>5. Picture(n) \in Pictures /\ SliderMarked(w, Picture(n))
        <5> HIDE DEF Picture
        <5> QED
          BY <2>3, <2>6, <4>1, <4>2, <4>4, SliderPainted
      <4> QED
        BY <2>8, <3>2, <4>5 DEF Marked
    <3> QED
      BY <2>3, <3>1, <3>2
  <2> QED
    BY <2>1, <2>8, <2>9, <2>10
<1>2. d = [g EXCEPT !.obj = [n \in Numbers |-> Object(n)], !.shown = [n \in Numbers |-> Picture(n)]]
  BY DEF ObjectListDraw
<1> HIDE DEF Object, Picture, Placed
<1>3. /\ d.obj = [n \in Numbers |-> Object(n)] /\ d.shown = [n \in Numbers |-> Picture(n)]
      /\ d.focused = g.focused /\ d.backlight = g.backlight
      /\ d \in [obj : [Numbers -> Shapes], focused : Numbers \cup {NULL},
                shown : [Numbers -> Pictures], backlight : Int]
  <2>1. [n \in Numbers |-> Object(n)] \in [Numbers -> Shapes]
    BY <1>1 DEF Cleaned
  <2>2. [n \in Numbers |-> Picture(n)] \in [Numbers -> Pictures]
    BY <1>1
  <2> QED
    BY <1>0, <1>2, <2>1, <2>2 DEF GolTypes
<1>4. ASSUME NEW n \in Numbers
      PROVE  Cleaned(g.obj[n], d.obj[n]) /\ Marked(d.obj[n], d.shown[n])
  BY <1>1, <1>3
<1>5. GolTypes(d)
  BY <1>0, <1>3, <1>4 DEF GolTypes, Cleaned
<1>6. OneFocus(d)
  BY <1>0, <1>3, <1>4 DEF OneFocus, Cleaned, Redraw
<1>7. AllMarked(d) /\ Clean(d)
  BY <1>4 DEF AllMarked, Clean, Cleaned
<1> QED
  BY <1>4, <1>5, <1>6, <1>7 DEF Layer

-----------------------------------------------------------------------------
(***************************************************************************)
(* The main loop.                                                          *)
(***************************************************************************)

(* As they are created the widgets are all to be drawn, and not pressed.   *)
LEMMA ListCreated ==
    Layer(NewList) /\ \A n \in Numbers : "PRESSED" \notin NewList.obj[n].state
<1>1. ASSUME NEW n \in Numbers, NEW p, p = Created(Objects[n])
      PROVE  /\ p \in Shapes /\ p.type = Objects[n].type /\ p.state = {"DRAW"}
             /\ p.left = Objects[n].left /\ p.right = Objects[n].right
             /\ p.top = Objects[n].top /\ p.bottom = Objects[n].bottom
  <2>1. PICK o \in [type : {"button", "slider"}, left : Nat, top : Nat,
                    right : Nat, bottom : Nat, range : Nat, pos : Nat] : o = Objects[n]
    BY ObjectsTyped
  <2>2. PICK span \in Nat \ {0} : span = IF o.range < 2 THEN 2 ELSE o.range
    OBVIOUS
  <2>3. p = [type |-> o.type, left |-> o.left, top |-> o.top, right |-> o.right,
             bottom |-> o.bottom, range |-> span, pos |-> o.pos, prevPos |-> o.pos,
             currPos |-> 0, state |-> {"DRAW"}]
    BY <1>1, <2>1, <2>2 DEF Created
  <2> QED
    BY <2>1, <2>3 DEF Shapes, Flags
<1>2. Empty \in Pictures /\ Empty.thumbs = {}
  BY DEF Empty, Pictures
<1> DEFINE Object(n) == Created(Objects[n])
<1>3. NewList = [obj |-> [n \in Numbers |-> Object(n)], focused |-> NULL,
                 shown |-> [n \in Numbers |-> Empty], backlight |-> 255]
  BY DEF NewList
<1>4. ASSUME NEW n \in Numbers
      PROVE  /\ Object(n) \in Shapes /\ Object(n).type = Objects[n].type
             /\ Object(n).state = {"DRAW"}
             /\ Object(n).left = Objects[n].left /\ Object(n).right = Objects[n].right
             /\ Object(n).top = Objects[n].top /\ Object(n).bottom = Objects[n].bottom
  BY <1>1
<1> HIDE DEF Object
<1>5. /\ NewList.obj = [n \in Numbers |-> Object(n)]
      /\ NewList.shown = [n \in Numbers |-> Empty] /\ NewList.focused = NULL
      /\ NewList \in [obj : [Numbers -> Shapes], focused : Numbers \cup {NULL},
                      shown : [Numbers -> Pictures], backlight : Int]
  BY <1>2, <1>3, <1>4
<1>6. ASSUME NEW n \in Numbers
      PROVE  NewList.obj[n] = Object(n) /\ NewList.shown[n] = Empty
  BY <1>5
<1>7. GolTypes(NewList)
  BY <1>4, <1>5, <1>6 DEF GolTypes
<1>8. OneFocus(NewList)
  BY <1>4, <1>5, <1>6, ObjectsTyped DEF OneFocus, NULL
<1>9. AllMarked(NewList)
  BY <1>2, <1>4, <1>6 DEF AllMarked, Marked, ButtonMarked, SliderMarked
<1> QED
  BY <1>4, <1>6, <1>7, <1>8, <1>9 DEF Layer

(* The loop starts with widgets that are created and a message of nothing. *)
LEMMA WidgetsStart == WidgetsInit => WInv
<1> SUFFICES ASSUME WidgetsInit PROVE WInv
  OBVIOUS
<1>1. /\ msg = [uiEvent |-> "INVALID", param1 |-> NONE, param2 |-> NONE]
      /\ Before = Nowhere /\ step = "draw" /\ gol = NewList
  BY DEF WidgetsInit, Init, Before, Nowhere
<1>2. MsgTypes
  BY <1>1 DEF MsgTypes, Down, NONE
<1>3. Layer(gol) /\ \A n \in Numbers : PressedHere(gol.obj[n], msg)
  BY <1>1, ListCreated DEF PressedHere
<1>4. BacklightFollows
  BY <1>1 DEF BacklightFollows
<1> QED
  BY <1>1, <1>2, <1>3, <1>4 DEF WInv

(* The message of the next poll, after the one of the last.                *)
LEMMA MessageFollows ==
    ASSUME IInv, MsgTypes, TouchGetMsg
    PROVE  /\ msg' \in [uiEvent : Down \cup {"RELEASE", "INVALID"}, param1 : Int, param2 : Int]
           /\ Before' # Nowhere <=> msg'.uiEvent \in Down
           /\ msg.uiEvent \in Down =>
                 \/ msg'.uiEvent = "MOVE"
                 \/ /\ msg'.uiEvent \in {"STILLPRESS", "RELEASE"}
                    /\ msg'.param1 = msg.param1 /\ msg'.param2 = msg.param2
<1>1. Before' = Here /\ Here \in Places \cup {Nowhere} /\ Before \in Places \cup {Nowhere}
  BY DEF IInv, TouchGetMsg, Remembered, WholeHere, WholeBefore, Before, Here
<1>2. Before # Nowhere => msg.param1 = Before[1] /\ msg.param2 = Before[2]
  BY DEF IInv, Told, Before
<1>3. \A place \in Places \cup {Nowhere} : place[1] \in Int /\ place[2] \in Int
  BY MsgAssumption DEF Places, Coord, Nowhere, NONE
<1>4. Before # Nowhere <=> msg.uiEvent \in Down
  BY DEF MsgTypes
<1>5. CASE Here # Nowhere /\ Here = Before /\ Message("STILLPRESS", Here)
  BY <1>1, <1>2, <1>3, <1>5 DEF Message, Down
<1>6. CASE Here = Nowhere /\ Before # Nowhere /\ Message("RELEASE", ReleasedAt)
  BY <1>1, <1>2, <1>3, <1>6 DEF Message, ReleasedAt, Down
<1>7. CASE Here # Nowhere /\ Before \notin {Nowhere, Here} /\ Message("MOVE", Here)
  BY <1>1, <1>3, <1>7 DEF Message, Down
<1>8. CASE Here # Nowhere /\ Before = Nowhere /\ Message("PRESS", Here)
  BY <1>1, <1>3, <1>4, <1>8 DEF Message, Down
<1>9. CASE Here = Nowhere /\ Before = Nowhere /\ Message("INVALID", Here)
  BY <1>1, <1>3, <1>4, <1>9 DEF Message, Down
<1> QED
  BY <1>5, <1>6, <1>7, <1>8, <1>9 DEF TouchGetMsg

(* A drawing takes the marks, and presses nothing.                         *)
LEMMA DrawKeeps == ASSUME WInv, Draw PROVE WInv'
<1>1. /\ step = "draw" /\ step' = "get" /\ gol' = ObjectListDraw(gol)
      /\ msg' = msg /\ Before' = Before
  BY DEF Draw, vars, main, Before
<1>2. /\ Layer(gol') /\ Clean(gol')
      /\ \A n \in Numbers : Cleaned(gol.obj[n], gol'.obj[n])
  BY <1>1, ListDrawn DEF WInv
<1>3. ASSUME NEW n \in Numbers PROVE PressedHere(gol'.obj[n], msg')
  <2>1. PressedHere(gol.obj[n], msg)
    BY <1>1 DEF WInv
  <2> QED
    BY <1>1, <1>2, <2>1 DEF PressedHere, Cleaned, Inside
<1>4. MsgTypes'
  BY <1>1 DEF WInv, MsgTypes
<1>5. BacklightFollows'
  BY <1>1 DEF BacklightFollows
<1> QED
  BY <1>1, <1>2, <1>3, <1>4, <1>5 DEF WInv

(* A poll changes no widget, but tells where the finger went.              *)
LEMMA GetKeeps == ASSUME IInv, WInv, Get PROVE WInv'
<1>1. step = "get" /\ gol' = gol
  BY DEF Get
<1>2. CASE (ReadX \/ ReadY) /\ UNCHANGED step
  <2>1. step' = step /\ msg' = msg /\ Before' = Before
    BY <1>2 DEF ReadX, ReadY, Before
  <2> QED
    BY <1>1, <2>1 DEF WInv, MsgTypes, BacklightFollows
<1>3. CASE TouchGetMsg /\ step' = "message"
  <2>1. MsgTypes /\ Layer(gol) /\ Clean(gol)
        /\ \A n \in Numbers : PressedHere(gol.obj[n], msg)
    BY <1>1 DEF WInv
  <2>2. MsgTypes'
    BY <1>3, <2>1, MessageFollows DEF MsgTypes
  <2>3. ASSUME NEW n \in Numbers PROVE PressedBefore(gol'.obj[n], msg')
    BY <1>1, <1>3, <2>1, MessageFollows DEF PressedHere, PressedBefore, Inside
  <2> QED
    BY <1>1, <1>3, <2>1, <2>2, <2>3 DEF WInv, BacklightFollows
<1> QED
  BY <1>2, <1>3 DEF Get

(* A message is answered by all widgets, one after the other.              *)
LEMMA MessageKeeps == ASSUME WInv, ProcessMessage PROVE WInv'
<1>1. /\ step = "message" /\ step' = "draw" /\ gol' = ObjectMessage(gol, msg)
      /\ msg' = msg /\ Before' = Before
  BY DEF ProcessMessage, vars, main, Before
<1>2. MsgTypes' /\ Layer(gol) /\ \A n \in Numbers : PressedBefore(gol.obj[n], msg)
  BY <1>1 DEF WInv, MsgTypes
<1>3. CASE msg.uiEvent = "INVALID"
  <2>1. gol' = gol
    BY <1>1, <1>3 DEF ObjectMessage
  <2> QED
    BY <1>1, <1>2, <1>3, <2>1 DEF WInv, PressedHere, PressedBefore, BacklightFollows
<1>4. CASE msg.uiEvent # "INVALID"
  <2>1. msg.uiEvent \in Down \cup {"RELEASE"} /\ msg.param1 \in Int
    BY <1>4 DEF WInv, MsgTypes
  <2>2. Answering(gol', Len(Objects), msg)
    BY <1>1, <1>2, <2>1, AllAnswer
  <2>3. \A n \in Numbers : n <= Len(Objects)
    BY ObjectsTyped
  <2>4. Layer(gol') /\ \A n \in Numbers : PressedHere(gol'.obj[n], msg')
    BY <1>1, <2>2, <2>3 DEF Answering
  <2>5. BacklightFollows'
    BY <1>1, <2>2, <2>3 DEF Answering, BacklightFollows
  <2> QED
    BY <1>1, <1>2, <2>4, <2>5 DEF WInv
<1> QED
  BY <1>3, <1>4

(* No step of the loop or of the sampler breaks the invariant.             *)
LEMMA WidgetsStep == IInv /\ WInv /\ [WidgetsNext]_widgetsVars => WInv'
<1> SUFFICES ASSUME IInv, WInv, [WidgetsNext]_widgetsVars PROVE WInv'
  OBVIOUS
<1>1. CASE Draw
  BY <1>1, DrawKeeps
<1>2. CASE Get
  BY <1>2, GetKeeps
<1>3. CASE ProcessMessage
  BY <1>3, MessageKeeps
<1>4. CASE (Sample /\ UNCHANGED <<step, gol>>) \/ UNCHANGED widgetsVars
  <2>1. step' = step /\ gol' = gol /\ msg' = msg /\ Before' = Before
    BY <1>4 DEF Sample, main, widgetsVars, vars, Before
  <2> QED
    BY <2>1 DEF WInv, MsgTypes, BacklightFollows
<1> QED
  BY <1>1, <1>2, <1>3, <1>4 DEF WidgetsNext, Loop

(* The loop with the widgets polls as the loop without them.               *)
LEMMA LoopPolls == WidgetsSpec => Spec
<1>1. WidgetsInit => Init
  BY DEF WidgetsInit
<1>2. [WidgetsNext]_widgetsVars => [Next]_vars
  BY DEF WidgetsNext, Loop, Draw, Get, ProcessMessage, Next, widgetsVars
<1> QED
  BY <1>1, <1>2, PTL DEF WidgetsSpec, Spec

(* The invariant holds in every state of the loop with the widgets.        *)
LEMMA WidgetsInductive == WidgetsSpec => []WInv
BY WidgetsStart, WidgetsStep, LoopPolls, Inductive, PTL DEF WidgetsSpec

(***************************************************************************)
(* A button hears of a release only if it happened on it                   *)
(* (gfx_gol_button.c), yet whatever the list of widgets, none stays        *)
(* pressed when the stroke is over: a finger that left it was reported to  *)
(* move first, and a release is where the last message was.                *)
(***************************************************************************)
THEOREM NoneStuck == WidgetsSpec => []NothingStuck
<1>1. WInv => NothingStuck
  BY DEF WInv, MsgTypes, NothingStuck, PressedHere
<1> QED
  BY <1>1, WidgetsInductive, PTL

(***************************************************************************)
(* After GFX_GOL_ObjectListDraw the screen shows what the widgets are,     *)
(* although only the marked ones, and of a slider only the marked parts,   *)
(* were drawn.                                                             *)
(***************************************************************************)
THEOREM ScreenFollows == WidgetsSpec => []ScreenIsTrue
<1>1. WInv => ScreenIsTrue
  <2> SUFFICES ASSUME WInv, step = "get", NEW n \in Numbers, NEW o, o = gol.obj[n],
                      NEW s, s = gol.shown[n]
               PROVE  s = [pressed |-> "PRESSED" \in o.state, box |-> n = gol.focused,
                           thumbs |-> IF o.type = "slider" THEN {o.currPos} ELSE {}]
    BY DEF ScreenIsTrue
  <2>1. /\ o \in Shapes /\ s \in Pictures /\ Marked(o, s) /\ o.state \cap Redraw = {}
        /\ "FOCUSED" \in o.state <=> n = gol.focused
    BY DEF WInv, Layer, GolTypes, OneFocus, AllMarked, Clean
  <2>2. /\ s.pressed <=> "PRESSED" \in o.state
        /\ s.box <=> n = gol.focused
        /\ s.thumbs = IF o.type = "slider" THEN {o.currPos} ELSE {}
    BY <2>1 DEF Marked, ButtonMarked, SliderMarked, Redraw, Shapes
  <2>3. s.pressed = ("PRESSED" \in o.state) /\ s.box = (n = gol.focused)
    BY <2>1, <2>2 DEF Pictures
  <2> QED
    BY <2>1, <2>2, <2>3 DEF Pictures
<1> QED
  BY <1>1, WidgetsInductive, PTL

(***************************************************************************)
(* App_MsgCallback sets the back light before the slider moves, and is     *)
(* called once more for the release, which moves nothing: whatever the     *)
(* stroke, at its end the back light is where the slider is.               *)
(***************************************************************************)
THEOREM BacklightIsSlider == WidgetsSpec => []BacklightFollows
<1>1. WInv => BacklightFollows
  BY DEF WInv
<1> QED
  BY <1>1, WidgetsInductive, PTL
=============================================================================
