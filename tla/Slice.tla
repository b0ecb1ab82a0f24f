-------------------------------- MODULE Slice --------------------------------
(***************************************************************************)
(* The layout manager of slice.c: a program takes slices off a rectangle   *)
(* that begins as the whole screen, and aligns a field within a slice.     *)
(* Coordinates are 16-bit unsigned numbers; both corners belong to the     *)
(* rectangle.                                                              *)
(***************************************************************************)
EXTENDS Integers

CONSTANTS
    MaxX, MaxY,         \* the last column and row of the screen: 319, 239
    Fractions,          \* percentages the program slices off
    CUTS                \* bound: the number of slices

(* The coordinate after the last still fits, and a program that slices off *)
(* a part leaves one: Slice_Bottom of 100 percent would wrap.              *)
ASSUME ScreenAssumption ==
    /\ MaxX \in 0..2^16-2 /\ MaxY \in 0..2^16-2
    /\ Fractions \subseteq 0..99
    /\ CUTS \in Nat

VARIABLES
    rest,               \* the rectangle the program slices
    slices, sides,      \* history: what was sliced off, from which sides
    cuts,               \* history: how often
    field               \* a field aligned in the last slice, and that slice

sliceVars == <<rest, slices, sides, cuts, field>>

UInt(n) == n % 2^16
Rectangle(l, t, r, b) == [left |-> l, top |-> t, right |-> r, bottom |-> b]
Screen == Rectangle(0, 0, MaxX, MaxY)
NoField == [within |-> Screen, at |-> Screen]

(* The points of a rectangle. *)
Area(s) == (s.left..s.right) \X (s.top..s.bottom)

SliceInit ==
    /\ rest = Screen /\ field = NoField
    /\ slices = {} /\ sides = {} /\ cuts = 0

-----------------------------------------------------------------------------
Share(extent, fract) == UInt(extent * fract) \div 100

(* What is sliced off, and what remains.                                   *)
Left(source, fract) ==
    LET nr == UInt(Share(UInt(source.right - source.left), fract) + source.left)
        remains == [source EXCEPT !.left = UInt(nr + 1)]
    IN  [slice |-> [remains EXCEPT !.right = nr], rest |-> remains]

(* Slip: the row at the border is in both.                                 *)
SlipBottom(source, fract) ==
    LET nt == UInt(source.bottom - Share(UInt(source.bottom - source.top), fract))
    IN  [slice |-> [source EXCEPT !.top = nt],
         rest |-> [source EXCEPT !.bottom = nt]]

Bottom(source, fract) ==
    LET nt == UInt(source.bottom - Share(UInt(source.bottom - source.top), fract))
    IN  [slice |-> [source EXCEPT !.top = nt],
         rest |-> [source EXCEPT !.bottom = UInt(nt - 1)]]

(* Slip: the margin of both sides is taken for that of one.                *)
SlipMargin(first, last, size) == UInt(UInt(last - first) - size)

Margin(first, last, size) == UInt(UInt(last - first) - size) \div 2

(* The first and the last coordinate, aligned.                             *)
AlignedPair(mode, first, last, size) ==
    LET margin == Margin(first, last, size)
    IN  CASE mode = "first" -> <<first, UInt(last - margin * 2)>>
          [] mode = "last" -> <<UInt(first + margin * 2), last>>
          [] OTHER -> <<UInt(first + margin), UInt(last - margin)>>

Aligned(source, hor, ver, width, height) ==
    LET h == AlignedPair(hor, source.left, source.right, width)
        v == AlignedPair(ver, source.top, source.bottom, height)
    IN  Rectangle(h[1], v[1], h[2], v[2])

-----------------------------------------------------------------------------
Cut(side, fract) ==
    /\ cuts < CUTS
    /\ LET c == IF side = "left" THEN Left(rest, fract) ELSE Bottom(rest, fract)
       IN  /\ rest' = c.rest
           /\ slices' = slices \cup {c.slice} /\ sides' = sides \cup {side}
           /\ field' = [within |-> c.slice, at |-> c.slice]
    /\ cuts' = cuts + 1

(* A program slices what has a row or a column to spare.                   *)
Slice_Left ==
    /\ rest.left < rest.right
    /\ \E fract \in Fractions : Cut("left", fract)

Slice_Bottom ==
    /\ rest.top < rest.bottom
    /\ \E fract \in Fractions : Cut("bottom", fract)

(* A field that fits in the slice is aligned, once.                        *)
Slice_Align ==
    /\ field.at = field.within
    /\ LET s == field.within
       IN  \E hor, ver \in {"first", "center", "last"} :
           \E width \in 0..s.right - s.left, height \in 0..s.bottom - s.top :
              field' = [field EXCEPT !.at = Aligned(s, hor, ver, width, height)]
    /\ UNCHANGED <<rest, slices, sides, cuts>>

(* The program lays out another screen. *)
Slice_Initialize ==
    /\ cuts > 0
    /\ rest' = Screen /\ field' = NoField
    /\ slices' = {} /\ sides' = {} /\ cuts' = 0

SliceNext == Slice_Initialize \/ Slice_Left \/ Slice_Bottom \/ Slice_Align

-----------------------------------------------------------------------------
(***************************************************************************)
(* The slices and what remains never overlap: one slice's last row and the *)
(* next one's first do not meet. If none is taken off the left they leave  *)
(* no point of the screen out. (Slice_Left hands out an empty slice, see   *)
(* the README.)                                                            *)
(***************************************************************************)
SlicesPartition ==
    /\ \A s, t \in slices \cup {rest} : s # t => Area(s) \cap Area(t) = {}
    /\ sides \subseteq {"bottom"} =>
          UNION {Area(s) : s \in slices \cup {rest}} = Area(Screen)

(***************************************************************************)
(* A field that fits lies within the slice it is aligned in, and does not  *)
(* vanish.                                                                 *)
(***************************************************************************)
FieldInside ==
    LET s == field.within   f == field.at
    IN  \/ f = s
        \/ /\ s.left <= f.left /\ f.left <= f.right /\ f.right <= s.right
           /\ s.top <= f.top /\ f.top <= f.bottom /\ f.bottom <= s.bottom
=============================================================================
