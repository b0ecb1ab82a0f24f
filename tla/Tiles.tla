-------------------------------- MODULE Tiles --------------------------------
(***************************************************************************)
(* The 15 tiles game, 4.Solution/main.c: a matrix m of tiles, the screen   *)
(* they are painted on, and the touches that Grid_ButtonGet returns. The   *)
(* last tile is the empty space.                                           *)
(***************************************************************************)
EXTENDS Integers, FiniteSets

CONSTANT SIDE               \* 4

ASSUME SideAssumption == SIDE \in Nat \ 0..2

VARIABLES
    scene,                  \* "splash" or "game"
    m, screen               \* the tiles, and what is painted in each place

tilesVars == <<scene, m, screen>>

Column == 0..SIDE-1
Places == Column \X Column
EMPTY == SIDE * SIDE - 1
Tile == 0..EMPTY
Blank == -1                 \* nothing is painted here

(* The two tiles of the splash screen: static memory is zero elsewhere.    *)
Splash == [c \in Places |-> CASE c = <<1, 2>> -> EMPTY - 4       \* 11
                              [] c = <<2, 2>> -> EMPTY - 1       \* 14
                              [] OTHER -> 0]

TilesInit ==
    /\ scene = "splash"
    /\ m = Splash
    /\ screen = [c \in Places |-> IF Splash[c] = 0 THEN Blank ELSE Splash[c]]

Solved == [c \in Places |-> c[1] + c[2] * SIDE]

Start ==
    /\ scene = "splash"
    /\ scene' = "game"
    /\ m' = Solved /\ screen' = Solved

-----------------------------------------------------------------------------
(* A board: the matrix and the screen. *)
Board(tiles, painted) == [m |-> tiles, screen |-> painted]

TilePaint(b, c) == [b EXCEPT !.screen[c] = b.m[c]]

(* Slips: the place the tile leaves is painted first, or not emptied.      *)
SlipTilesSwap(b, c, d) ==
    LET moved == [b EXCEPT !.m[d] = b.m[c]]
        old == TilePaint(moved, c)
    IN  TilePaint([old EXCEPT !.m[c] = EMPTY], d)

SlipTilesCopy(b, c, d) == TilePaint([b EXCEPT !.m[d] = b.m[c]], d)

(* Tile c moves to the empty place d. *)
TilesSwap(b, c, d) ==
    LET moved == TilePaint([b EXCEPT !.m[d] = b.m[c]], d)
    IN  TilePaint([moved EXCEPT !.m[c] = EMPTY], c)

Left(c) == <<c[1] - 1, c[2]>>
Right(c) == <<c[1] + 1, c[2]>>
Up(c) == <<c[1], c[2] - 1>>
Down(c) == <<c[1], c[2] + 1>>

(* Slip: the indices wrap around at the borders.                           *)
SlipTry(b, c, d) ==
    LET e == <<d[1] % SIDE, d[2] % SIDE>>
    IN  IF b.m[e] = EMPTY THEN TilesSwap(b, c, e) ELSE b

(* One of the four checks of the main loop. *)
Try(b, c, d) ==
    IF d \in Places /\ b.m[d] = EMPTY THEN TilesSwap(b, c, d) ELSE b

TouchedBoard(b, c) ==
    LET left == Try(b, c, Left(c))
        right == Try(left, c, Right(c))
        up == Try(right, c, Up(c))
    IN  Try(up, c, Down(c))

Touch(c) ==
    /\ scene = "game"
    /\ LET b == TouchedBoard(Board(m, screen), c)
       IN  m' = b.m /\ screen' = b.screen
    /\ UNCHANGED scene

TilesNext == Start \/ \E c \in Places : Touch(c)

TilesSpec == TilesInit /\ [][TilesNext]_tilesVars

-----------------------------------------------------------------------------
TilesTypeOK ==
    /\ scene \in {"splash", "game"}
    /\ m \in [Places -> Tile]
    /\ screen \in [Places -> Tile \cup {Blank}]

(***************************************************************************)
(* No tile is ever lost or doubled, and there is one empty place, although *)
(* each of the four checks looks at the matrix the one before has changed. *)
(***************************************************************************)
EachTileOnce ==
    scene = "game" =>
        /\ \A c, d \in Places : m[c] = m[d] => c = d
        /\ \A t \in Tile : \E c \in Places : m[c] = t

(***************************************************************************)
(* The player sees the tiles where they are.                               *)
(***************************************************************************)
ScreenShowsTiles == scene = "game" => screen = m

(***************************************************************************)
(* Any position can be played back to the first one: the permutation of    *)
(* the tiles is even exactly if the empty place is an even number of       *)
(* steps from its corner.                                                  *)
(***************************************************************************)
Rank(c) == c[1] + c[2] * SIDE

Solvable ==
    scene = "game" =>
        LET inversions == {p \in Places \X Places :
                             Rank(p[1]) < Rank(p[2]) /\ m[p[1]] > m[p[2]]}
            empty == CHOOSE c \in Places : m[c] = EMPTY
        IN  (Cardinality(inversions) + empty[1] + empty[2]) % 2 = 0
=============================================================================
