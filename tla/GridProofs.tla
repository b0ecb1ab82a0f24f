------------------------------ MODULE GridProofs -------------------------------
(***************************************************************************)
(* The touch grid, and the two programs that are played on it: the 15      *)
(* tiles and the alarm clock. What Grid_ButtonGet promises, for every      *)
(* grid, screen and calibration, every number of samples to debounce and   *)
(* of a long press, and counters that overflow anywhere beyond it; what    *)
(* the game keeps, on a board of any size; and how the alarm rings, for    *)
(* hours, steps and snoozes of any length.                                 *)
(***************************************************************************)
EXTENDS Grid, Tiles, AlarmClock, FiniteSetTheorems, TLAPS

-----------------------------------------------------------------------------
(* The touch grid.                                                         *)
(***************************************************************************)
(* The inductive invariant. While the press is awaited its counter is the  *)
(* run of touched samples, and a press that was accepted is a whole run;   *)
(* while the release is awaited its counter is the run of untouched ones;  *)
(* and the press counter never runs ahead of the samples of the press,     *)
(* since an overflow only throws it back.                                  *)
(***************************************************************************)
Counts ==
    /\ pressed \in Int /\ released \in Nat /\ streak \in Int /\ held \in Nat
    /\ phase \in {1, 2}

AwaitingPress ==
    gridPc # "caller" /\ phase = 1 =>
        /\ pressed = (IF streak > 0 THEN streak ELSE 0) /\ held = pressed
        /\ pressed <= DEBOUNCE
        /\ gridPc # "delay" /\ gridPc # "wait" => pressed < DEBOUNCE
        /\ released = 0 /\ r = Uninit

AwaitingRelease ==
    gridPc # "caller" /\ phase = 2 =>
        /\ released = (IF streak < 0 THEN -streak ELSE 0)
        /\ released <= DEBOUNCE
        /\ gridPc # "delay" /\ gridPc # "wait" => released < DEBOUNCE
        /\ pressed <= held \/ held > LONG
        /\ held <= LONG + 1

Answer ==
    /\ r = [x |-> r.x, y |-> r.y, option |-> r.option] /\ r.option \in {0, 1, NONE}
    /\ r.x # NONE => <<r.x, r.y>> \in found
    /\ r.option = 1 => gridPc = "caller" /\ held > LONG

GridInv == Counts /\ AwaitingPress /\ AwaitingRelease /\ Answer

USE GridAssumption DEF NONE

(* A cell is a place of the grid, whatever pixel it is made of.            *)
LEMMA CellShape ==
    ASSUME NEW a, NEW b
    PROVE  /\ Cell(a, b) = [x |-> Cell(a, b).x, y |-> Cell(a, b).y, option |-> 0]
           /\ Cell(a, b).option = 0
BY DEF Cell

LEMMA GridInitInv == GridInit => GridInv
BY DEF GridInit, GridInv, Counts, AwaitingPress, AwaitingRelease, Answer, Uninit

(* A sample while the press is awaited.                                    *)
LEMMA PressInv == GridInv /\ AwaitPress => GridInv'
<1> SUFFICES ASSUME GridInv, AwaitPress PROVE GridInv'
  OBVIOUS
<1> USE DEF AwaitPress, Observe, Restarted, AtMost
<1>1. r' = Uninit /\ phase' = 1 /\ gridPc' = "delay" /\ released' = 0
  BY DEF GridInv, AwaitingPress
<1>2. CASE Valid
  <2>1. /\ pressed' = pressed + 1 /\ held' = held + 1 /\ pressed + 1 <= DEBOUNCE
        /\ streak' = pressed + 1
    BY <1>2 DEF GridInv, Counts, AwaitingPress
  <2>2. QED
    BY <1>1, <2>1 DEF GridInv, Counts, AwaitingPress, AwaitingRelease, Answer, Uninit
<1>3. CASE ~Valid
  <2>1. pressed' = 0 /\ held' = 0 /\ streak' \in Int /\ streak' < 0
    BY <1>3 DEF GridInv, Counts, AwaitingPress
  <2>2. QED
    BY <1>1, <2>1 DEF GridInv, Counts, AwaitingPress, AwaitingRelease, Answer, Uninit
<1>4. QED
  BY <1>2, <1>3

(* A sample while the release is awaited.                                  *)
LEMMA ReleaseInv == GridInv /\ AwaitRelease => GridInv'
<1> SUFFICES ASSUME GridInv, AwaitRelease PROVE GridInv'
  OBVIOUS
<1> USE DEF AwaitRelease, Observe, AtMost, Kept
<1>1. phase = 2 /\ phase' = 2 /\ gridPc = "code" /\ gridPc' = "delay"
  BY DEF AwaitRelease
<1>2. CASE Valid
  <2>1. pressed' = IncInt(pressed) /\ released' = 0
    BY <1>2
  <2>2. IncInt(pressed) \in Int /\ IncInt(pressed) <= pressed + 1
    BY DEF IncInt, GridInv, Counts
  <2>3. held' \in Nat /\ held' <= LONG + 1 /\ (held' = held + 1 \/ held' > LONG)
    BY <1>2 DEF GridInv, Counts, AwaitingRelease
  <2>4. streak' \in Int /\ streak' > 0
    BY <1>2 DEF GridInv, Counts
  <2>5. Answer'
    <3>1. r' = Cell(x, y) /\ <<Cell(x, y).x, Cell(x, y).y>> \in found'
      BY <1>2
    <3>2. QED
      BY <3>1, CellShape DEF Answer
  <2>6. QED
    BY <1>1, <2>1, <2>2, <2>3, <2>4, <2>5 DEF GridInv, Counts, AwaitingPress,
       AwaitingRelease
<1>3. CASE ~Valid
  <2>1. /\ pressed' = pressed /\ released' = released + 1 /\ held' = held
        /\ streak' = -(released + 1) /\ released + 1 <= DEBOUNCE
    BY <1>1, <1>3 DEF GridInv, Counts, AwaitingRelease
  <2>2. Answer'
    BY <1>1, <1>3, <2>1 DEF GridInv, Answer
  <2>3. QED
    BY <1>1, <2>1, <2>2 DEF GridInv, Counts, AwaitingPress, AwaitingRelease
<1>4. QED
  BY <1>2, <1>3

(* The end of a call: the option flag is added to the cell.                *)
LEMMA ReturnInv == GridInv /\ Return => GridInv'
<1> SUFFICES ASSUME GridInv, Return PROVE GridInv'
  OBVIOUS
<1>1. gridPc' = "caller" /\ UNCHANGED <<found, held, phase, pressed, released, streak>>
  BY DEF Return, gridHistory
<1>2. IsLong => held > LONG
  BY DEF GridInv, Return, DelayOver, IsLong, Counts, AwaitingRelease
<1>3. Answer'
  BY <1>1, <1>2 DEF Return, GridInv, Answer
<1>4. QED
  BY <1>1, <1>3 DEF GridInv, Counts, AwaitingPress, AwaitingRelease

LEMMA GridStepInv == GridInv /\ [GridNext]_gridVars => GridInv'
<1> SUFFICES ASSUME GridInv, [GridNext]_gridVars PROVE GridInv'
  OBVIOUS
<1> USE DEF GridInv, Counts, AwaitingPress, AwaitingRelease, Answer, gridHistory, button,
            sample, environment, panelVars
<1>0. CASE UNCHANGED gridVars
  BY <1>0 DEF gridVars
<1>1. CASE T3Interrupt
  BY <1>1 DEF T3Interrupt
<1>2. CASE Call
  BY <1>2 DEF Call, Uninit
<1>3. CASE ReadX
  BY <1>3 DEF ReadX
<1>4. CASE ReadY
  BY <1>4 DEF ReadY
<1>5. CASE DelayStart
  BY <1>5 DEF DelayStart
<1>6. CASE Again
  BY <1>6 DEF Again, DelayOver
<1>7. CASE Pressed
  BY <1>7 DEF Pressed, DelayOver
<1>8. QED
  BY <1>0, <1>1, <1>2, <1>3, <1>4, <1>5, <1>6, <1>7, PressInv, ReleaseInv, ReturnInv
     DEF GridNext, ButtonGet

(* The invariant holds in every state of the interrupt and the call.       *)
LEMMA GridInductive == GridSpec => []GridInv
BY GridInitInv, GridStepInv, PTL DEF GridSpec

(***************************************************************************)
(* The cell Grid_ButtonGet returns is one a sample of this very call fell  *)
(* in (grid.c:45-80), whatever the interrupt publishes between two reads.  *)
(***************************************************************************)
THEOREM CellsFound == GridSpec => []CellWasFound
<1>1. GridInv => CellWasFound
  BY DEF GridInv, Answer, CellWasFound
<1>2. QED
  BY GridInductive, <1>1, PTL

(***************************************************************************)
(* The option flag (grid.c:77) is only given to a press of more than LONG  *)
(* samples, wherever the counter of the press overflows.                   *)
(***************************************************************************)
THEOREM OptionsLong == GridSpec => []OptionIsLong
<1>1. GridInv => OptionIsLong
  BY DEF GridInv, Answer, OptionIsLong
<1>2. QED
  BY GridInductive, <1>1, PTL

(***************************************************************************)
(* A press begins with DEBOUNCE touched samples in a row and ends with     *)
(* DEBOUNCE untouched ones (grid.c:55-76).                                 *)
(***************************************************************************)
THEOREM PressDebounced == GridSpec => Debounced
<1>1. GridInv /\ [GridNext]_gridVars =>
        [/\ phase = 1 /\ phase' = 2 => streak = DEBOUNCE
         /\ gridPc # "caller" /\ gridPc' = "caller" => streak = -DEBOUNCE]_gridVars
  <2> SUFFICES ASSUME GridInv, GridNext
               PROVE  /\ phase = 1 /\ phase' = 2 => streak = DEBOUNCE
                      /\ gridPc # "caller" /\ gridPc' = "caller" => streak = -DEBOUNCE
    OBVIOUS
  <2>1. CASE Pressed
    BY <2>1 DEF Pressed, DelayOver, GridInv, Counts, AwaitingPress
  <2>2. CASE Return
    BY <2>2 DEF Return, DelayOver, GridInv, Counts, AwaitingRelease
  <2>3. CASE ~Pressed /\ ~Return
    BY <2>3 DEF GridNext, ButtonGet, T3Interrupt, Call, ReadX, ReadY, AwaitPress,
       AwaitRelease, DelayStart, Again, button
  <2>4. QED
    BY <2>1, <2>2, <2>3
<1>2. QED
  BY GridInductive, <1>1, PTL DEF GridSpec, Debounced

HIDE GridAssumption DEF NONE

-----------------------------------------------------------------------------
(* The tiles: a board of any size.                                         *)

(* What the loop of main keeps of a board. *)
Good(b) ==
    /\ b \in [m : [Places -> Tile], screen : [Places -> Tile \cup {Blank}]]
    /\ b.screen = b.m
    /\ \A c, d \in Places : b.m[c] = b.m[d] => c = d
    /\ \A w \in Tile : \E c \in Places : b.m[c] = w

TilesInv == TilesTypeOK /\ (scene = "game" => Good(Board(m, screen)))

(* What the splash screen and the empty place hold are tiles.              *)
LEMMA EmptyIsTile == EMPTY \in Tile /\ EMPTY - 1 \in Tile /\ EMPTY - 4 \in Tile /\ 0 \in Tile
<1>1. SIDE \in Nat /\ SIDE >= 3
  BY SideAssumption
<1>2. SIDE * SIDE \in Nat /\ SIDE * SIDE >= 9
  BY <1>1
<1> QED
  BY <1>2 DEF EMPTY, Tile

(* A swap with the empty place moves a tile and loses none.                 *)
LEMMA SwapIsGood ==
    ASSUME NEW b, Good(b), NEW c \in Places, NEW d \in Places,
           c # d, b.m[d] = EMPTY
    PROVE  Good(TilesSwap(b, c, d))
<1> DEFINE n == [b.m EXCEPT ![d] = b.m[c], ![c] = EMPTY]
           b2 == TilesSwap(b, c, d)
<1>1. b.m \in [Places -> Tile] /\ b.screen \in [Places -> Tile \cup {Blank}]
  BY DEF Good
<1>2. b2.m = n
  BY <1>1 DEF Good, TilesSwap, TilePaint
<1>3. b2.screen = n
  BY <1>1 DEF Good, TilesSwap, TilePaint
<1>4. b2 \in [m : [Places -> Tile], screen : [Places -> Tile \cup {Blank}]]
  BY <1>1, EmptyIsTile DEF Good, TilesSwap, TilePaint
<1>5. n[d] = b.m[c] /\ n[c] = EMPTY
  BY <1>1
<1>6. \A e \in Places : e # c /\ e # d => n[e] = b.m[e]
  BY <1>1
<1>7. ASSUME NEW e \in Places, NEW f \in Places, n[e] = n[f] PROVE e = f
  BY <1>5, <1>6, <1>7 DEF Good
<1>8. ASSUME NEW w \in Tile PROVE \E e \in Places : n[e] = w
  <2>1. PICK e \in Places : b.m[e] = w
    BY DEF Good
  <2>2. CASE e = c
    BY <2>1, <2>2, <1>5
  <2>3. CASE e = d
    BY <2>1, <2>3, <1>5
  <2>4. CASE e # c /\ e # d
    BY <2>1, <2>4, <1>6
  <2> QED
    BY <2>2, <2>3, <2>4
<1> HIDE DEF n, b2
<1>9. Good(b2)
  BY <1>2, <1>3, <1>4, <1>7, <1>8 DEF Good
<1> QED
  BY <1>9 DEF b2

(* A check of the main loop keeps the board, whether it swaps or not.      *)
LEMMA TryIsGood ==
    ASSUME NEW b, Good(b), NEW c \in Places, NEW d, c # d
    PROVE  Good(Try(b, c, d))
BY SwapIsGood DEF Try

(* A place is none of its own neighbours.                                  *)
LEMMA NeighboursDiffer ==
    ASSUME NEW c \in Places
    PROVE  c # Left(c) /\ c # Right(c) /\ c # Up(c) /\ c # Down(c)
<1>1. PICK i \in Column, j \in Column : c = <<i, j>>
  BY DEF Places
<1>2. i \in Int /\ j \in Int
  BY SideAssumption DEF Column
<1> QED
  BY <1>1, <1>2 DEF Left, Right, Up, Down

(* The four checks in a row. *)
LEMMA TouchedIsGood ==
    ASSUME NEW b, Good(b), NEW c \in Places
    PROVE  Good(TouchedBoard(b, c))
<1> DEFINE left == Try(b, c, Left(c))
           right == Try(left, c, Right(c))
           up == Try(right, c, Up(c))
           down == Try(up, c, Down(c))
<1>1. Good(left)
  BY NeighboursDiffer, TryIsGood
<1> HIDE DEF left
<1>2. Good(right)
  BY <1>1, NeighboursDiffer, TryIsGood
<1> HIDE DEF right
<1>3. Good(up)
  BY <1>2, NeighboursDiffer, TryIsGood
<1> HIDE DEF up
<1>4. Good(down)
  BY <1>3, NeighboursDiffer, TryIsGood
<1> QED
  BY <1>4 DEF TouchedBoard, left, right, up, down
(* The board the game starts with. *)
LEMMA SolvedIsGood == Good(Board(Solved, Solved))
<1> DEFINE S == SIDE
           b == Board(Solved, Solved)
<1>1. S \in Nat /\ S >= 3 /\ S * S \in Nat
  BY SideAssumption
<1> HIDE DEF S
<1>2. ASSUME NEW i \in 0..S-1, NEW j \in 0..S-1
      PROVE  i + j * S \in Int /\ 0 <= i + j * S /\ i + j * S <= S * S - 1
  <2>1. 0 <= j * S /\ j * S \in Int
    BY <1>1
  <2>2. j * S <= (S - 1) * S
    BY <1>1
  <2>3. (S - 1) * S = S * S - S
    BY <1>1
  <2> QED
    BY <1>1, <2>1, <2>2, <2>3
<1>3. ASSUME NEW i \in 0..S-1, NEW j \in 0..S-1,
             NEW u \in 0..S-1, NEW v \in 0..S-1, j < v
      PROVE  i + j * S < u + v * S
  <2>1. (j + 1) * S <= v * S
    BY <1>1, <1>3
  <2>2. (j + 1) * S = j * S + S
    BY <1>1
  <2>3. j * S \in Int /\ v * S \in Int
    BY <1>1
  <2> QED
    BY <1>1, <2>1, <2>2, <2>3
<1>4. ASSUME NEW w \in 0..S*S-1
      PROVE  \E i \in 0..S-1, j \in 0..S-1 : w = i + j * S
  <2>1. w \div S \in Int /\ w % S \in 0..S-1 /\ w = S * (w \div S) + (w % S)
    BY <1>1
  <2>2. w \div S <= S - 1
    BY <1>1, <2>1
  <2>3. w \div S >= 0
    BY <1>1, <2>1
  <2>4. w \div S \in 0..S-1
    BY <1>1, <2>1, <2>2, <2>3
  <2>5. w = (w % S) + (w \div S) * S
    BY <1>1, <2>1
  <2> QED
    BY <2>1, <2>4, <2>5
<1>5. Column = 0..S-1 /\ Tile = 0..S*S-1
  BY DEF S, Column, Tile, EMPTY
<1>6. \A i, j \in Column : Solved[<<i, j>>] = i + j * S
  BY DEF S, Solved, Places
<1>7. \A c \in Places : \E i, j \in Column : c = <<i, j>>
  BY DEF Places
<1>8. Solved \in [Places -> Tile]
  <2>1. ASSUME NEW i \in Column, NEW j \in Column PROVE i + j * S \in Tile
    <3>1. /\ i + j * S \in Int /\ 0 <= i + j * S
          /\ i + j * S <= S * S - 1 /\ S * S - 1 \in Int
      BY <1>1, <1>2, <1>5
    <3> QED
      BY <1>5, <3>1
  <2>2. ASSUME NEW c \in Places PROVE Solved[c] \in Tile
    BY <2>1, <1>6, <1>7
  <2>3. Solved = [c \in Places |-> Solved[c]]
    BY DEF Solved
  <2> QED
    BY <2>2, <2>3
<1>9. ASSUME NEW c \in Places, NEW d \in Places, Solved[c] = Solved[d]
      PROVE  c = d
  <2>1. PICK i \in Column, j \in Column : c = <<i, j>>
    BY <1>7
  <2>2. PICK u \in Column, v \in Column : d = <<u, v>>
    BY <1>7
  <2>3. i + j * S = u + v * S
    BY <1>6, <1>9, <2>1, <2>2
  <2>4. i \in Int /\ j \in Int /\ u \in Int /\ v \in Int
    BY <1>1, <1>5
  <2>5. i + j * S \in Int /\ u + v * S \in Int
    BY <1>1, <2>4
  <2>6. ~(j < v)
    <3>1. j < v => i + j * S < u + v * S
      BY <1>3, <1>5
    <3> QED
      BY <2>3, <2>5, <3>1
  <2>7. ~(v < j)
    <3>1. v < j => u + v * S < i + j * S
      BY <1>3, <1>5
    <3> QED
      BY <2>3, <2>5, <3>1
  <2>8. j = v
    BY <2>4, <2>6, <2>7
  <2>9. i = u
    BY <1>1, <2>3, <2>4, <2>8
  <2> QED
    BY <2>1, <2>2, <2>8, <2>9
<1>10. ASSUME NEW w \in Tile PROVE \E c \in Places : Solved[c] = w
  <2>1. PICK i \in Column, j \in Column : w = i + j * S
    BY <1>4, <1>5
  <2>2. <<i, j>> \in Places
    BY DEF Places
  <2> QED
    BY <1>6, <2>1, <2>2
<1> HIDE DEF Solved
<1>11. /\ b \in [m : [Places -> Tile], screen : [Places -> Tile \cup {Blank}]]
       /\ b.m = Solved /\ b.screen = Solved
  BY <1>8 DEF Board
<1> HIDE DEF b
<1> QED
  <2>1. Good(b)
    BY <1>9, <1>10, <1>11 DEF Good
  <2> QED
    BY <2>1 DEF b

(* The splash screen has types, and no board yet.                          *)
LEMMA TilesInitInv == TilesInit => TilesInv
<1> SUFFICES ASSUME TilesInit PROVE TilesInv
  OBVIOUS
<1>1. Splash \in [Places -> Tile]
  BY EmptyIsTile DEF Splash
<1>2. screen \in [Places -> Tile \cup {Blank}]
  BY <1>1 DEF TilesInit
<1> QED
  BY <1>1, <1>2 DEF TilesInit, TilesInv, TilesTypeOK

(* Start lays out a good board and every touch keeps one.                  *)
LEMMA TilesStepInv == TilesInv /\ [TilesNext]_tilesVars => TilesInv'
<1> SUFFICES ASSUME TilesInv, [TilesNext]_tilesVars PROVE TilesInv'
  OBVIOUS
<1>1. CASE Start
  <2>1. Good(Board(m, screen))'
    BY <1>1, SolvedIsGood DEF Start
  <2>2. m' = Solved /\ screen' = Solved /\ scene' = "game"
    BY <1>1 DEF Start
  <2>3. Solved \in [Places -> Tile]
    BY SolvedIsGood DEF Good, Board
  <2> QED
    BY <2>1, <2>2, <2>3 DEF TilesInv, TilesTypeOK
<1>2. ASSUME NEW c \in Places, Touch(c) PROVE TilesInv'
  <2> DEFINE b == TouchedBoard(Board(m, screen), c)
  <2>1. Good(b)
    BY <1>2, TouchedIsGood DEF TilesInv, Touch
  <2>2. m' = b.m /\ screen' = b.screen /\ scene' = "game"
    BY <1>2 DEF Touch
  <2> HIDE DEF b
  <2>3. Good(Board(m', screen'))
    BY <2>1, <2>2 DEF Good, Board
  <2>4. m' \in [Places -> Tile] /\ screen' \in [Places -> Tile \cup {Blank}]
    BY <2>1, <2>2 DEF Good
  <2> QED
    BY <2>2, <2>3, <2>4 DEF TilesInv, TilesTypeOK
<1>3. CASE UNCHANGED tilesVars
  BY <1>3 DEF tilesVars, TilesInv, TilesTypeOK, Good, Board
<1> QED
  BY <1>1, <1>2, <1>3 DEF TilesNext

(* The type invariant of Tiles holds in every behaviour.                    *)
THEOREM TilesTypeCorrect == TilesSpec => []TilesTypeOK
<1>1. TilesInv => TilesTypeOK
  BY DEF TilesInv
<1> QED
  BY TilesInitInv, TilesStepInv, <1>1, PTL DEF TilesSpec

(* However long the game, each tile is on the board exactly once.           *)
THEOREM NoTileLost == TilesSpec => []EachTileOnce
<1>1. TilesInv => EachTileOnce
  BY DEF TilesInv, Good, Board, EachTileOnce
<1> QED
  BY TilesInitInv, TilesStepInv, <1>1, PTL DEF TilesSpec

(* However long the game, the screen shows the matrix.                      *)
THEOREM ScreenIsTrue == TilesSpec => []ScreenShowsTiles
<1>1. TilesInv => ScreenShowsTiles
  BY DEF TilesInv, Good, Board, ScreenShowsTiles
<1> QED
  BY TilesInitInv, TilesStepInv, <1>1, PTL DEF TilesSpec

-----------------------------------------------------------------------------
(***************************************************************************)
(* That the game can always be played back: a tile that moves to the empty *)
(* place exchanges two tiles, which changes the number of inversions by an *)
(* odd number, as many as are turned being counted by pairing them off.    *)
(***************************************************************************)

(* Two sets have as many elements if a map pairs them off.                 *)
LEMMA PairedOff ==
    ASSUME NEW S, NEW T, IsFiniteSet(S), NEW f,
           \A p \in S : f[p] \in T /\ f[f[p]] = p,
           \A p \in T : f[p] \in S /\ f[f[p]] = p
    PROVE  IsFiniteSet(T) /\ Cardinality(T) = Cardinality(S)
<1> DEFINE g == [p \in S |-> f[p]]
<1>1. g \in [S -> T]
  OBVIOUS
<1>2. \A p, q \in S : g[p] = g[q] => p = q
  OBVIOUS
<1>3. \A q \in T : \E p \in S : g[p] = q
  OBVIOUS
<1>4. g \in Bijection(S, T)
  BY <1>1, <1>2, <1>3 DEF Bijection, Injection, IsInjective, Surjection
<1> QED
  BY <1>4, FS_Bijection DEF ExistsBijection

(* The rank orders the places.                                             *)
LEMMA RankOrders ==
    /\ \A c \in Places : Rank(c) \in Int
    /\ \A c, d \in Places : Rank(c) = Rank(d) => c = d
<1>1. ASSUME NEW c \in Places
      PROVE  Solved[c] = Rank(c)
  BY DEF Solved, Rank
<1>2. ASSUME NEW c \in Places
      PROVE  Rank(c) \in Int
  <2>1. Solved[c] \in Tile
    BY SolvedIsGood DEF Good, Board
  <2> QED
    BY <1>1, <2>1 DEF Tile
<1>3. ASSUME NEW c \in Places, NEW d \in Places, Rank(c) = Rank(d)
      PROVE  c = d
  BY <1>1, <1>3, SolvedIsGood DEF Good, Board
<1> QED
  BY <1>2, <1>3

(* The places are finitely many.                                           *)
LEMMA PlacesFinite == IsFiniteSet(Places)
<1>1. SIDE \in Int /\ 0 \in Int /\ SIDE - 1 \in Int
  BY SideAssumption
<1>2. IsFiniteSet(Column)
  BY <1>1, FS_Interval DEF Column
<1> QED
  BY <1>2, FS_Product DEF Places

(* The pairs of places in order, and those whose tiles are not.            *)
Ordered == {p \in Places \X Places : Rank(p[1]) < Rank(p[2])}
Inversions(w) == {p \in Places \X Places : Rank(p[1]) < Rank(p[2]) /\ w[p[1]] > w[p[2]]}

(* The place e with c and d exchanged.                                     *)
Swapped(c, d, e) == IF e = c THEN d ELSE IF e = d THEN c ELSE e

(* The pairs that two places come out of order in when they are exchanged. *)
Turned(c, d) == {p \in Ordered : Rank(Swapped(c, d, p[1])) > Rank(Swapped(c, d, p[2]))}

(* A pair of places with c and d exchanged, in order.                      *)
Exchanged(c, d) ==
    [p \in Ordered |->
        IF p \in Turned(c, d) THEN <<Swapped(c, d, p[2]), Swapped(c, d, p[1])>>
                              ELSE <<Swapped(c, d, p[1]), Swapped(c, d, p[2])>>]

(* They are finitely many.                                                 *)
LEMMA OrderedFinite == IsFiniteSet(Ordered)
<1>1. IsFiniteSet(Places \X Places)
  BY PlacesFinite, FS_Product
<1>2. Ordered \in SUBSET (Places \X Places)
  BY DEF Ordered
<1> QED
  BY <1>1, <1>2, FS_Subset

(* An exchange undoes itself, and what it turns it turns back.             *)
LEMMA ExchangeUndone ==
    ASSUME NEW c \in Places, NEW d \in Places, NEW p \in Ordered
    PROVE  /\ Exchanged(c, d)[p] \in Ordered
           /\ Exchanged(c, d)[p] \in Turned(c, d) <=> p \in Turned(c, d)
           /\ Exchanged(c, d)[Exchanged(c, d)[p]] = p
<1> DEFINE T(e) == Swapped(c, d, e)
<1>1. PICK e \in Places, f \in Places : p = <<e, f>> /\ Rank(e) < Rank(f)
  BY DEF Ordered
<1>2. \A g \in Places : T(g) \in Places /\ T(T(g)) = g
  BY DEF Swapped
<1>3. T(e) # T(f)
  BY <1>1, <1>2, RankOrders
<1>4. Rank(T(e)) # Rank(T(f)) /\ Rank(T(e)) \in Int /\ Rank(T(f)) \in Int
      /\ Rank(e) \in Int /\ Rank(f) \in Int
  BY <1>1, <1>2, <1>3, RankOrders
<1>5. p \in Turned(c, d) <=> Rank(T(e)) > Rank(T(f))
  BY <1>1 DEF Turned, Swapped
<1> HIDE DEF T
<1>6. CASE Rank(T(e)) > Rank(T(f))
  <2>1. Exchanged(c, d)[p] = <<T(f), T(e)>>
    BY <1>1, <1>5, <1>6 DEF Exchanged, T
  <2>2. <<T(f), T(e)>> \in Ordered
    BY <1>1, <1>2, <1>4, <1>6 DEF Ordered
  <2>3. <<T(f), T(e)>> \in Turned(c, d)
    <3>1. Rank(T(T(f))) > Rank(T(T(e)))
      BY <1>1, <1>2, <1>4
    <3> QED
      BY <2>2, <3>1 DEF Turned, T
  <2>4. Exchanged(c, d)[<<T(f), T(e)>>] = <<T(T(e)), T(T(f))>>
    BY <2>2, <2>3 DEF Exchanged, T
  <2> QED
    BY <1>1, <1>2, <1>5, <1>6, <2>1, <2>2, <2>3, <2>4
<1>7. CASE ~(Rank(T(e)) > Rank(T(f)))
  <2>1. Exchanged(c, d)[p] = <<T(e), T(f)>>
    BY <1>1, <1>5, <1>7 DEF Exchanged, T
  <2>2. <<T(e), T(f)>> \in Ordered
    BY <1>1, <1>2, <1>4, <1>7 DEF Ordered
  <2>3. <<T(e), T(f)>> \notin Turned(c, d)
    <3>1. ~(Rank(T(T(e))) > Rank(T(T(f))))
      BY <1>1, <1>2, <1>4
    <3> QED
      BY <2>2, <3>1 DEF Turned, T
  <2>4. Exchanged(c, d)[<<T(e), T(f)>>] = <<T(T(e)), T(T(f))>>
    BY <2>2, <2>3 DEF Exchanged, T
  <2> QED
    BY <1>1, <1>2, <1>5, <1>7, <2>1, <2>2, <2>3, <2>4
<1> QED
  BY <1>6, <1>7

(* An exchange turns an odd number of pairs: the two places, and for every *)
(* place between them one with each.                                       *)
LEMMA TurnsOdd ==
    ASSUME NEW c \in Places, NEW d \in Places, Rank(c) < Rank(d)
    PROVE  \E k \in Int : Cardinality(Turned(c, d)) = 2 * k + 1
<1> DEFINE B == {e \in Places : Rank(c) < Rank(e) /\ Rank(e) < Rank(d)}
           L == {<<c, e>> : e \in B}
           R == {<<e, d>> : e \in B}
           pair == [p \in L \cup R |-> IF p \in L THEN <<p[2], d>> ELSE <<c, p[1]>>]
<1>1. \A e \in Places : Rank(e) \in Int
  BY RankOrders
<1>2. c # d /\ <<c, d>> \notin L /\ <<c, d>> \notin R /\ L \cap R = {}
  BY <1>1
<1>3. Turned(c, d) = (L \cup R) \cup {<<c, d>>}
  <2>1. ASSUME NEW p \in Turned(c, d) PROVE p \in (L \cup R) \cup {<<c, d>>}
    <3>1. PICK e \in Places, f \in Places :
             /\ p = <<e, f>> /\ Rank(e) < Rank(f)
             /\ Rank(Swapped(c, d, e)) > Rank(Swapped(c, d, f))
      BY <2>1 DEF Turned, Ordered
    <3>2. \/ e = c /\ f = d
          \/ e = c /\ f \in B
          \/ e \in B /\ f = d
      BY <1>1, <3>1 DEF Swapped
    <3> QED
      BY <3>1, <3>2
  <2>2. ASSUME NEW e \in B PROVE <<c, e>> \in Turned(c, d) /\ <<e, d>> \in Turned(c, d)
    <3>1. e # c /\ e # d /\ e \in Places
      BY <1>1
    <3>2. <<c, e>> \in Ordered /\ <<e, d>> \in Ordered
      BY <3>1 DEF Ordered
    <3>3. Swapped(c, d, e) = e /\ Swapped(c, d, c) = d /\ Swapped(c, d, d) = c
      BY <1>2, <3>1 DEF Swapped
    <3> QED
      BY <1>1, <3>1, <3>2, <3>3 DEF Turned
  <2>3. <<c, d>> \in Turned(c, d)
    BY <1>1, <1>2 DEF Turned, Ordered, Swapped
  <2> QED
    BY <2>1, <2>2, <2>3
<1>4. IsFiniteSet(Turned(c, d))
  BY OrderedFinite, FS_Subset DEF Turned
<1>5. L \in SUBSET Turned(c, d) /\ R \in SUBSET Turned(c, d) /\ L \cup R \in SUBSET Turned(c, d)
  BY <1>3
<1>6. IsFiniteSet(L) /\ IsFiniteSet(R) /\ IsFiniteSet(L \cup R)
  BY <1>4, <1>5, FS_Subset
<1>7. Cardinality(R) = Cardinality(L)
  <2>1. ASSUME NEW e \in B
        PROVE  /\ <<c, e>> \in L /\ pair[<<c, e>>] = <<e, d>>
               /\ <<e, d>> \in R /\ pair[<<e, d>>] = <<c, e>>
    BY <1>2, <2>1
  <2>2. ASSUME NEW p \in L PROVE pair[p] \in R /\ pair[pair[p]] = p
    <3>1. PICK e \in B : p = <<c, e>>
      BY <2>2
    <3> HIDE DEF pair, L, R, B
    <3> QED
      BY <2>1, <3>1
  <2>3. ASSUME NEW p \in R PROVE pair[p] \in L /\ pair[pair[p]] = p
    <3>1. PICK e \in B : p = <<e, d>>
      BY <2>3
    <3> HIDE DEF pair, L, R, B
    <3> QED
      BY <2>1, <3>1
  <2> HIDE DEF pair, L, R
  <2> QED
    BY <1>6, <2>2, <2>3, PairedOff
<1> HIDE DEF L, R
<1>8. Cardinality(L) \in Nat
  BY <1>6, FS_CardinalityType
<1>9. Cardinality(L \cup R) = Cardinality(L) + Cardinality(L)
  <2>1. Cardinality(L \cup R) = Cardinality(L) + Cardinality(R) - Cardinality(L \cap R)
    BY <1>6, FS_Union
  <2>2. Cardinality(L \cap R) = 0
    BY <1>2, FS_EmptySet
  <2> QED
    BY <1>7, <1>8, <2>1, <2>2
<1>10. Cardinality(Turned(c, d)) = Cardinality(L \cup R) + 1
  BY <1>2, <1>3, <1>6, FS_AddElement
<1>11. Cardinality(Turned(c, d)) = 2 * Cardinality(L) + 1
  BY <1>8, <1>9, <1>10
<1> QED
  BY <1>8, <1>11

(* Exchanging two tiles changes the number of inversions by an odd number. *)
LEMMA InversionsFlip ==
    ASSUME NEW w \in [Places -> Tile], \A e, f \in Places : w[e] = w[f] => e = f,
           NEW c \in Places, NEW d \in Places, Rank(c) < Rank(d),
           NEW n, n = [e \in Places |-> w[Swapped(c, d, e)]]
    PROVE  \E k \in Int : Cardinality(Inversions(n)) = Cardinality(Inversions(w)) + 2 * k + 1
<1> DEFINE A == Inversions(w)   B == Inversions(n)   F == Turned(c, d)   i == Exchanged(c, d)
<1>1. A \in SUBSET Ordered /\ B \in SUBSET Ordered /\ F \in SUBSET Ordered
  BY DEF Inversions, Ordered, Turned
<1>2. IsFiniteSet(A) /\ IsFiniteSet(B) /\ IsFiniteSet(F)
  BY <1>1, OrderedFinite, FS_Subset
<1>3. ASSUME NEW p \in Ordered
      PROVE  /\ p \in F => (i[p] \in A <=> p \notin B)
             /\ p \notin F => (i[p] \in A <=> p \in B)
  <2>1. PICK e \in Places, f \in Places : p = <<e, f>> /\ Rank(e) < Rank(f)
    BY DEF Ordered
  <2>2. PICK u \in Places, v \in Places : u = Swapped(c, d, e) /\ v = Swapped(c, d, f)
    BY DEF Swapped
  <2>3. e # f /\ u # v
    BY <2>1, <2>2, RankOrders DEF Swapped
  <2>4. w[u] \in Int /\ w[v] \in Int /\ w[u] # w[v]
    BY <2>3 DEF Tile
  <2>5. n[e] = w[u] /\ n[f] = w[v]
    BY <2>2
  <2>6. p \in B <=> w[u] > w[v]
    BY <2>1, <2>5 DEF Inversions
  <2>7. CASE p \in F
    <3>1. i[p] = <<v, u>> /\ i[p] \in Ordered
      BY <2>1, <2>2, <2>7, ExchangeUndone DEF Exchanged
    <3>2. i[p] \in A <=> w[v] > w[u]
      BY <3>1 DEF Inversions, Ordered
    <3> QED
      BY <2>4, <2>6, <2>7, <3>2
  <2>8. CASE p \notin F
    <3>1. i[p] = <<u, v>> /\ i[p] \in Ordered
      BY <2>1, <2>2, <2>8, ExchangeUndone DEF Exchanged
    <3>2. i[p] \in A <=> w[u] > w[v]
      BY <3>1 DEF Inversions, Ordered
    <3> QED
      BY <2>6, <2>8, <3>2
  <2> QED
    BY <2>7, <2>8
<1>4. ASSUME NEW p \in Ordered
      PROVE  i[p] \in Ordered /\ (i[p] \in F <=> p \in F) /\ i[i[p]] = p
  BY ExchangeUndone
<1> HIDE DEF A, B, F, i
<1>5. Cardinality(B \ F) = Cardinality(A \ F)
  <2>1. \A p \in A \ F : i[p] \in B \ F /\ i[i[p]] = p
    BY <1>1, <1>3, <1>4
  <2>2. \A p \in B \ F : i[p] \in A \ F /\ i[i[p]] = p
    BY <1>1, <1>3, <1>4
  <2>3. IsFiniteSet(A \ F)
    BY <1>2, FS_Difference
  <2> QED
    BY <2>1, <2>2, <2>3, PairedOff
<1>6. Cardinality(B \cap F) = Cardinality(F \ A)
  <2>1. \A p \in F \ A : i[p] \in B \cap F /\ i[i[p]] = p
    BY <1>1, <1>3, <1>4
  <2>2. \A p \in B \cap F : i[p] \in F \ A /\ i[i[p]] = p
    BY <1>1, <1>3, <1>4
  <2>3. IsFiniteSet(F \ A)
    BY <1>2, FS_Difference
  <2> QED
    BY <2>1, <2>2, <2>3, PairedOff
<1>7. PICK both \in Nat : both = Cardinality(A \cap F)
  BY <1>2, FS_Intersection, FS_CardinalityType
<1>8. /\ Cardinality(A \ F) = Cardinality(A) - both
      /\ Cardinality(F \ A) = Cardinality(F) - both
      /\ Cardinality(B \ F) = Cardinality(B) - Cardinality(B \cap F)
  <2>1. Cardinality(A \ F) = Cardinality(A) - Cardinality(A \cap F)
    BY <1>2, FS_Difference
  <2>2. Cardinality(F \ A) = Cardinality(F) - Cardinality(F \cap A)
    BY <1>2, FS_Difference
  <2>3. Cardinality(B \ F) = Cardinality(B) - Cardinality(B \cap F)
    BY <1>2, FS_Difference
  <2>4. F \cap A = A \cap F
    OBVIOUS
  <2>5. Cardinality(F \cap A) = both
    BY <1>7, <2>4
  <2> QED
    BY <1>7, <2>1, <2>2, <2>3, <2>5
<1>9. /\ Cardinality(A) \in Nat /\ Cardinality(B) \in Nat /\ Cardinality(F) \in Nat
      /\ Cardinality(B \cap F) \in Nat
  BY <1>2, FS_CardinalityType, FS_Intersection
<1>10. PICK k \in Int : Cardinality(F) = 2 * k + 1
  BY TurnsOdd DEF F
<1>11. Cardinality(B) = Cardinality(A) + 2 * (k - both) + 1
  BY <1>5, <1>6, <1>7, <1>8, <1>9, <1>10
<1>12. k - both \in Int
  OBVIOUS
<1> QED
  BY <1>11, <1>12 DEF A, B

(* The parity of Solvable, wherever the empty place is.                    *)
Played(w) ==
    \A e \in Places : w[e] = EMPTY => (Cardinality(Inversions(w)) + e[1] + e[2]) % 2 = 0

(* The places the four checks look at.                                     *)
Neighbours(c) == {Left(c), Right(c), Up(c), Down(c)}

(* A tile that moves to the empty place next to it changes both parities.  *)
LEMMA SwapIsPlayed ==
    ASSUME NEW b, Good(b), Played(b.m), NEW c \in Places, NEW d \in Places,
           d \in Neighbours(c), b.m[d] = EMPTY
    PROVE  Played(TilesSwap(b, c, d).m)
<1> DEFINE w == b.m
           n == [e \in Places |-> w[Swapped(c, d, e)]]
<1>1. /\ w \in [Places -> Tile] /\ b.screen \in [Places -> Tile \cup {Blank}]
      /\ \A e, f \in Places : w[e] = w[f] => e = f
  BY DEF Good
<1>2. c # d
  BY NeighboursDiffer DEF Neighbours
<1>3. TilesSwap(b, c, d).m = [w EXCEPT ![d] = w[c], ![c] = EMPTY]
  BY <1>1 DEF Good, TilesSwap, TilePaint
<1>4. TilesSwap(b, c, d).m = n
  BY <1>1, <1>2, <1>3 DEF Swapped
<1>5. n[c] = EMPTY /\ \A e \in Places : n[e] = EMPTY => e = c
  BY <1>1, <1>2 DEF Swapped
<1>6. PICK k \in Int : Cardinality(Inversions(n)) = Cardinality(Inversions(w)) + 2 * k + 1
  <2>1. Rank(c) < Rank(d) \/ Rank(d) < Rank(c)
    BY <1>2, RankOrders
  <2>2. n = [e \in Places |-> w[Swapped(d, c, e)]]
    BY <1>2 DEF Swapped
  <2> HIDE DEF n, w
  <2>3. CASE Rank(c) < Rank(d)
    <3>1. n = [e \in Places |-> w[Swapped(c, d, e)]]
      BY DEF n
    <3> QED
      BY <1>1, <2>3, <3>1, InversionsFlip
  <2>4. CASE Rank(d) < Rank(c)
    BY <1>1, <2>2, <2>4, InversionsFlip
  <2> QED
    BY <2>1, <2>3, <2>4
<1>7. PICK i \in Int, j \in Int : c = <<i, j>>
  BY SideAssumption DEF Places, Column
<1>8. PICK u \in Int, v \in Int : d = <<u, v>> /\ (u + v = i + j + 1 \/ u + v = i + j - 1)
  BY <1>7 DEF Neighbours, Left, Right, Up, Down
<1>9. PICK inversions \in Nat : inversions = Cardinality(Inversions(w))
  <2>1. Inversions(w) \in SUBSET Ordered
    BY DEF Inversions, Ordered
  <2> QED
    BY <2>1, OrderedFinite, FS_Subset, FS_CardinalityType
<1>10. (inversions + u + v) % 2 = 0
  BY <1>8, <1>9 DEF Played
<1>11. (inversions + 2 * k + 1 + i + j) % 2 = 0
  <2>1. PICK h \in Int : inversions + u + v = 2 * h
    BY <1>10
  <2>2. \/ inversions + 2 * k + 1 + i + j = 2 * (h + k)
        \/ inversions + 2 * k + 1 + i + j = 2 * (h + k + 1)
    BY <1>8, <2>1
  <2> QED
    BY <2>2
<1> HIDE DEF n, w
<1>12. ASSUME NEW e \in Places, n[e] = EMPTY
       PROVE  (Cardinality(Inversions(n)) + e[1] + e[2]) % 2 = 0
  <2>1. e = <<i, j>> /\ Cardinality(Inversions(n)) = inversions + 2 * k + 1
    BY <1>5, <1>6, <1>7, <1>9, <1>12
  <2> QED
    BY <1>11, <2>1
<1> QED
  BY <1>4, <1>12 DEF Played

(* A check of the main loop keeps the parity, whether it swaps or not.      *)
LEMMA TryIsPlayed ==
    ASSUME NEW b, Good(b), Played(b.m), NEW c \in Places, NEW d \in Neighbours(c)
    PROVE  Good(Try(b, c, d)) /\ Played(Try(b, c, d).m)
<1>1. c # d
  BY NeighboursDiffer DEF Neighbours
<1>2. Good(Try(b, c, d))
  BY <1>1, TryIsGood
<1>3. Played(Try(b, c, d).m)
  BY SwapIsPlayed DEF Try
<1> QED
  BY <1>2, <1>3

(* The four checks in a row.                                               *)
LEMMA TouchedIsPlayed ==
    ASSUME NEW b, Good(b), Played(b.m), NEW c \in Places
    PROVE  Played(TouchedBoard(b, c).m)
<1> DEFINE left == Try(b, c, Left(c))
           right == Try(left, c, Right(c))
           up == Try(right, c, Up(c))
           down == Try(up, c, Down(c))
<1>0. {Left(c), Right(c), Up(c), Down(c)} \subseteq Neighbours(c)
  BY DEF Neighbours
<1>1. Good(left) /\ Played(left.m)
  BY <1>0, TryIsPlayed
<1> HIDE DEF left
<1>2. Good(right) /\ Played(right.m)
  BY <1>0, <1>1, TryIsPlayed
<1> HIDE DEF right
<1>3. Good(up) /\ Played(up.m)
  BY <1>0, <1>2, TryIsPlayed
<1> HIDE DEF up
<1>4. Played(down.m)
  BY <1>0, <1>3, TryIsPlayed
<1> QED
  BY <1>4 DEF TouchedBoard, left, right, up, down

(* The game starts without an inversion.                                   *)
LEMMA SolvedIsPlayed == Played(Solved)
<1>1. \A c \in Places : Solved[c] = Rank(c)
  BY DEF Solved, Rank
<1>2. Inversions(Solved) = {}
  BY <1>1, RankOrders DEF Inversions
<1>3. Cardinality(Inversions(Solved)) = 0
  BY <1>2, FS_EmptySet
<1>4. SIDE - 1 \in Int /\ <<SIDE - 1, SIDE - 1>> \in Places
  BY SideAssumption DEF Places, Column
<1>5. Rank(<<SIDE - 1, SIDE - 1>>) = EMPTY
  <2>1. PICK s \in Nat : s = SIDE
    BY SideAssumption
  <2>2. (s - 1) + (s - 1) * s = s * s - 1
    OBVIOUS
  <2> QED
    BY <2>1, <2>2 DEF Rank, EMPTY
<1>6. ASSUME NEW e \in Places, Solved[e] = EMPTY
      PROVE  e = <<SIDE - 1, SIDE - 1>>
  BY <1>1, <1>4, <1>5, <1>6, RankOrders
<1>7. (0 + (SIDE - 1) + (SIDE - 1)) % 2 = 0
  <2>1. PICK s \in Nat : s = SIDE
    BY SideAssumption
  <2>2. 0 + (s - 1) + (s - 1) = 2 * (s - 1)
    OBVIOUS
  <2>3. (2 * (s - 1)) % 2 = 0
    OBVIOUS
  <2> QED
    BY <2>1, <2>2, <2>3
<1> QED
  BY <1>3, <1>6, <1>7 DEF Played

(* The invariant with the parity.                                          *)
SolvableInv == TilesInv /\ (scene = "game" => Played(m))

(* Start lays out a board without inversions, every touch keeps the parity. *)
LEMMA StepPlayed == SolvableInv /\ [TilesNext]_tilesVars => SolvableInv'
<1> SUFFICES ASSUME SolvableInv, [TilesNext]_tilesVars PROVE SolvableInv'
  OBVIOUS
<1>0. TilesInv'
  BY TilesStepInv DEF SolvableInv
<1>1. CASE Start
  BY <1>0, <1>1, SolvedIsPlayed DEF Start, SolvableInv
<1>2. ASSUME NEW c \in Places, Touch(c) PROVE SolvableInv'
  <2>1. Good(Board(m, screen)) /\ Played(Board(m, screen).m)
    BY <1>2 DEF Touch, SolvableInv, TilesInv, Board
  <2>2. Played(TouchedBoard(Board(m, screen), c).m)
    BY <2>1, TouchedIsPlayed
  <2> QED
    BY <1>0, <1>2, <2>2 DEF Touch, SolvableInv
<1>3. CASE UNCHANGED tilesVars
  BY <1>0, <1>3 DEF tilesVars, SolvableInv
<1> QED
  BY <1>1, <1>2, <1>3 DEF TilesNext

(***************************************************************************)
(* Whatever is touched, the player can bring the tiles back: on a board of *)
(* any size, a touch that moves a tile changes the parity of the           *)
(* permutation with that of the way of the empty place.                    *)
(***************************************************************************)
THEOREM AlwaysSolvable == TilesSpec => []Solvable
<1>1. TilesInit => SolvableInv
  BY TilesInitInv DEF TilesInit, SolvableInv
<1>2. SolvableInv => Solvable
  <2> SUFFICES ASSUME SolvableInv, scene = "game" PROVE Solvable
    BY DEF Solvable
  <2> DEFINE empty == CHOOSE c \in Places : m[c] = EMPTY
  <2>1. empty \in Places /\ m[empty] = EMPTY
    BY EmptyIsTile DEF SolvableInv, TilesInv, Good, Board
  <2> HIDE DEF empty
  <2>2. (Cardinality(Inversions(m)) + empty[1] + empty[2]) % 2 = 0
    BY <2>1 DEF SolvableInv, Played
  <2> QED
    BY <2>2 DEF Solvable, Inversions, empty
<1> QED
  BY <1>1, <1>2, StepPlayed, PTL DEF TilesSpec

-----------------------------------------------------------------------------
(* The alarm clock. The alarm rings once for its minute, and the interrupt *)
(* keeps off the file while it is rewound.                                 *)
USE ClockAssumption

(* The minutes an arrow of the alarm's page stops at.                      *)
Stops == {n \in 0..MINUTES-1 : \E k \in Nat : n = k * STEP}

OnTheFace == {"loop", "grid", "time", "seconds", "alarm", "rewind"}

SnoozedTo == <<Alarm.hour, (Alarm.min + Snooze) % MINUTES>>

(* Neither an hour nor a second that is set matters.                       *)
AlarmTimes == [hour : Int, min : Stops, sec : Int]

(***************************************************************************)
(* The inductive invariant. "rang" is the minute on the face, if any; an   *)
(* alarm that is on or off has not rung for its own minute in it; and one  *)
(* that rings or snoozes has not rung for the minute it will ring in next. *)
(***************************************************************************)
Types ==
    /\ Alarm \in AlarmTimes /\ Snooze \in 0..MINUTES-1
    /\ pc = "ALARM_SET" => edit \in AlarmTimes
    /\ sAlarm \in {"OFF", "ON", "RING", "SNOOZE", "ACK"}

RangNow == pc \in OnTheFace => rang \in {Never, Minute(Time)}

NotForAlarm == sAlarm \in {"ON", "OFF"} => rang # Minute(Alarm)

NotForSnooze == sAlarm \in {"RING", "SNOOZE"} => rang # SnoozedTo

Matching == pc = "rewind" => ~isr /\ (AlarmMatches \/ SnoozeMatches)

ClockInv == Types /\ RangNow /\ NotForAlarm /\ NotForSnooze /\ Matching

-----------------------------------------------------------------------------
(* Arithmetic modulo the hour. *)

LEMMA ModOnce ==
    ASSUME NEW n \in 0..2*MINUTES-1
    PROVE  n % MINUTES = IF n < MINUTES THEN n ELSE n - MINUTES
OBVIOUS

(* A snooze of less than an hour leads to another minute.                  *)
LEMMA SnoozeMoves ==
    ASSUME NEW a \in 0..MINUTES-1, NEW z \in 0..MINUTES-1
    PROVE  (a + ((SNOOZE_TIME + z) % MINUTES)) % MINUTES # (a + z) % MINUTES
<1> DEFINE s == (SNOOZE_TIME + z) % MINUTES
<1>1. s = IF SNOOZE_TIME + z < MINUTES THEN SNOOZE_TIME + z
                                       ELSE SNOOZE_TIME + z - MINUTES
  <2>1. SNOOZE_TIME + z \in 0..2*MINUTES-1
    OBVIOUS
  <2> DEFINE n == SNOOZE_TIME + z
  <2> HIDE DEF n
  <2>2. n % MINUTES = IF n < MINUTES THEN n ELSE n - MINUTES
    BY <2>1, ModOnce DEF n
  <2>3. QED
    BY <2>2 DEF n
<1> HIDE DEF s
<1>2. s \in 0..MINUTES-1 /\ s # z
  BY <1>1
<1>3. PICK n \in 0..2*MINUTES-1 : n = a + s
  BY <1>2
<1>4. PICK mn \in 0..2*MINUTES-1 : mn = a + z
  OBVIOUS
<1>5. n % MINUTES # mn % MINUTES
  <2>1. /\ n % MINUTES = IF n < MINUTES THEN n ELSE n - MINUTES
        /\ mn % MINUTES = IF mn < MINUTES THEN mn ELSE mn - MINUTES
    BY ModOnce
  <2> DEFINE nr == n % MINUTES
             mr == mn % MINUTES
  <2> HIDE DEF nr, mr
  <2>2. /\ nr = IF n < MINUTES THEN n ELSE n - MINUTES
        /\ mr = IF mn < MINUTES THEN mn ELSE mn - MINUTES
    BY <2>1 DEF nr, mr
  <2>3. nr # mr
    BY <1>2, <1>3, <1>4, <2>2
  <2>4. QED
    BY <2>3 DEF nr, mr
<1>6. (a + s) % MINUTES # (a + z) % MINUTES
  BY <1>3, <1>4, <1>5, Zenon
<1>7. QED
  BY <1>6 DEF s

(* Less is at least a step less. *)
LEMMA OneStepLess ==
    ASSUME NEW i \in Nat, NEW k \in Nat, i * STEP < k * STEP
    PROVE  i + 1 <= k /\ (i + 1) * STEP <= k * STEP
<1>1. i < k
  <2> SUFFICES ASSUME k <= i PROVE FALSE
    OBVIOUS
  <2>1. i - k \in Nat /\ i = k + (i - k)
    OBVIOUS
  <2>2. i * STEP = k * STEP + (i - k) * STEP /\ (i - k) * STEP >= 0
    BY <2>1
  <2>3. QED
    BY <2>2
<1>2. k - (i + 1) \in Nat
  BY <1>1
<1>3. k * STEP = (i + 1) * STEP + (k - (i + 1)) * STEP /\ (k - (i + 1)) * STEP >= 0
  BY <1>2
<1>4. QED
  BY <1>1, <1>3

(* The arrows stay on the stops. *)
LEMMA StopsKept ==
    ASSUME NEW n \in Stops
    PROVE  /\ Inc(n, STEP, MINUTES - STEP) \in Stops
           /\ Dec(n, STEP, MINUTES - STEP) \in Stops
<1> USE DEF Inc, Dec
<1>1. PICK i \in Nat : n = i * STEP
  BY DEF Stops
<1>2. PICK k \in 1..MINUTES : MINUTES = k * STEP
  OBVIOUS
<1>3. n \in 0..MINUTES-1 /\ STEP \in 1..MINUTES
  BY DEF Stops
<1>4. MINUTES - STEP = (k - 1) * STEP /\ k - 1 \in Nat
  BY <1>2
<1>5. 0 \in Stops /\ MINUTES - STEP \in Stops
  <2>1. 0 = 0 * STEP
    BY <1>3
  <2>2. QED
    BY <1>3, <1>4, <2>1 DEF Stops
<1>6. ASSUME n # MINUTES - STEP PROVE n + STEP \in Stops
  <2>1. i * STEP < k * STEP
    BY <1>1, <1>2, <1>3
  <2>2. i + 1 <= k
    BY <2>1, <1>2, OneStepLess
  <2>3. i # k - 1
    BY <1>1, <1>4, <1>6
  <2>4. i + 1 \in Nat /\ i + 1 < k
    BY <1>2, <2>2, <2>3
  <2>5. (i + 1) * STEP = n + STEP
    BY <1>1, <1>3
  <2>6. k - (i + 1) \in Nat \ {0}
    BY <1>2, <2>4
  <2>7. k * STEP = (i + 1) * STEP + (k - (i + 1)) * STEP /\ (k - (i + 1)) * STEP >= 1
    BY <1>3, <2>6
  <2>8. n + STEP \in 0..MINUTES-1
    BY <1>2, <1>3, <2>5, <2>7
  <2>9. QED
    BY <2>4, <2>5, <2>8 DEF Stops
<1>7. ASSUME n # 0 PROVE n - STEP \in Stops
  <2>1. i # 0
    BY <1>1, <1>3, <1>7
  <2>2. i - 1 \in Nat /\ n - STEP = (i - 1) * STEP
    BY <1>1, <1>3, <2>1
  <2>3. (i - 1) * STEP >= 0
    BY <1>3, <2>2
  <2>4. n - STEP \in 0..MINUTES-1
    BY <1>3, <2>2, <2>3
  <2>5. QED
    BY <2>2, <2>4 DEF Stops
<1>8. QED
  BY <1>5, <1>6, <1>7

-----------------------------------------------------------------------------
LEMMA NoMinute == \A h, mn : Never # <<h, mn>>
BY DEF Never

LEMMA ClockInitInv == Init => ClockInv
<1> SUFFICES ASSUME Init PROVE ClockInv
  OBVIOUS
<1>1. FirstAlarm.min \in Stops
  BY DEF Stops
<1>2. Types
  BY <1>1 DEF Init, Types, AlarmTimes
<1>3. RangNow /\ NotForAlarm /\ NotForSnooze /\ Matching
  BY DEF Init, RangNow, NotForAlarm, NotForSnooze, Matching, OnTheFace, Never, Minute
<1>4. QED
  BY <1>2, <1>3 DEF ClockInv

(* What main leaves alone.                                                 *)
Still == <<Alarm, sAlarm, Snooze, pc, Time, edit, rang>>

LEMMA StillInv ==
    ASSUME ClockInv, UNCHANGED Still, Matching'
    PROVE  ClockInv'
<1> USE DEF ClockInv, Still
<1>1. Types'
  BY DEF Types
<1>2. RangNow' /\ NotForAlarm' /\ NotForSnooze'
  BY DEF RangNow, NotForAlarm, NotForSnooze, Minute, SnoozedTo
<1>3. QED
  BY <1>1, <1>2

LEMMA InterruptInv ==
    ASSUME ClockInv, Second \/ BackgroundPlay \/ UNCHANGED vars
    PROVE  ClockInv'
<1>1. UNCHANGED Still
  BY DEF Second, BackgroundPlay, Interrupt, Refill, EndOfFile, Feed, Full, vars,
         history, face, alarm, locals, Still
<1>2. UNCHANGED <<AlarmMatches, SnoozeMatches, pc>>
  BY <1>1 DEF Still, AlarmMatches, SnoozeMatches, Minute
<1>3. CASE Interrupt
  <2>1. pc # "rewind"
    BY <1>3 DEF ClockInv, Matching, Interrupt, AlarmMatches, SnoozeMatches
  <2>2. QED
    BY <1>1, <1>2, <2>1, StillInv DEF Matching
<1>4. CASE EndOfFile \/ Full
  <2>1. isr' = FALSE
    BY <1>4 DEF EndOfFile, Full
  <2>2. Matching'
    BY <1>2, <2>1 DEF ClockInv, Matching
  <2>3. QED
    BY <1>1, <2>2, StillInv
<1>5. CASE Second \/ Refill \/ Feed \/ UNCHANGED vars
  <2>1. isr' = isr
    BY <1>5 DEF Second, Refill, Feed, vars, play
  <2>2. Matching'
    BY <1>2, <2>1 DEF ClockInv, Matching
  <2>3. QED
    BY <1>1, <2>2, StillInv
<1>6. QED
  BY <1>3, <1>4, <1>5 DEF BackgroundPlay

(* A snooze moves on the minute the alarm rings in next.                   *)
LEMMA RingInv ==
    ASSUME ClockInv, Ring
    PROVE  ClockInv'
<1> DEFINE a == Alarm.min
           z == IF sAlarm = "SNOOZE" THEN Snooze ELSE 0
<1>1. a \in 0..MINUTES-1 /\ z \in 0..MINUTES-1
  BY DEF ClockInv, Types, AlarmTimes, Stops
<1>2. Snooze' = (SNOOZE_TIME + z) % MINUTES /\ Snooze' \in 0..MINUTES-1
  <2>1. Snooze' = (SNOOZE_TIME + z) % MINUTES
    BY DEF Ring
  <2>2. SNOOZE_TIME + z \in Nat
    BY <1>1
  <2>3. PICK n \in Nat : n = SNOOZE_TIME + z
    BY <2>2
  <2>4. n % MINUTES \in 0..MINUTES-1
    OBVIOUS
  <2>5. QED
    BY <2>1, <2>3, <2>4, Zenon
<1>3. Time.min = (a + z) % MINUTES
  <2>1. AlarmMatches \/ SnoozeMatches
    BY DEF ClockInv, Matching, Ring
  <2>2. CASE SnoozeMatches
    BY <2>2 DEF SnoozeMatches
  <2>3. CASE AlarmMatches
    <3>1. Time.min = a /\ z = 0
      BY <2>3 DEF AlarmMatches, Minute
    <3>2. a % MINUTES = a
      BY <1>1, ModOnce
    <3>3. a + z = a
      BY <1>1, <3>1
    <3>4. QED
      BY <3>1, <3>2, <3>3, Zenon
  <2>4. QED
    BY <2>1, <2>2, <2>3
<1>4. (a + Snooze') % MINUTES # Time.min
  BY <1>1, <1>2, <1>3, SnoozeMoves, Zenon
<1>5. Alarm' = Alarm /\ Time' = Time /\ rang' = Minute(Time)
      /\ sAlarm' = "RING" /\ pc' = "loop"
  BY DEF Ring, locals
<1>6. NotForSnooze'
  <2> DEFINE next == (a + Snooze') % MINUTES
  <2> HIDE DEF next
  <2>1. SnoozedTo' = <<Alarm.hour, next>>
    BY <1>5 DEF SnoozedTo, next
  <2>2. next # Time.min
    BY <1>4 DEF next
  <2>3. QED
    BY <1>5, <2>1, <2>2 DEF NotForSnooze, Minute
<1>7. RangNow' /\ NotForAlarm' /\ Matching'
  BY <1>5 DEF RangNow, NotForAlarm, Matching, Minute
<1>8. Types'
  BY <1>2, <1>5 DEF ClockInv, Types
<1>9. QED
  BY <1>6, <1>7, <1>8 DEF ClockInv

(* The steps of the clock face but Ring.                                   *)
LEMMA FaceInv ==
    ASSUME ClockInv, ClockFaceTask
    PROVE  ClockInv'
<1> USE DEF alarm, locals, display, history
<1>1. CASE NotTouched \/ Touched \/ ToggleNight \/ TouchNothing \/ ReadTime
  <2>1. /\ UNCHANGED <<Alarm, sAlarm, Snooze, Time, edit, rang>>
        /\ pc \in OnTheFace /\ pc' \in OnTheFace \ {"rewind"}
    BY <1>1 DEF NotTouched, Touched, ToggleNight, TouchNothing, ReadTime, OnTheFace
  <2>2. Types'
    BY <2>1 DEF ClockInv, Types, OnTheFace
  <2>3. RangNow' /\ NotForAlarm' /\ NotForSnooze' /\ Matching'
    BY <2>1 DEF ClockInv, RangNow, NotForAlarm, NotForSnooze, Matching, Minute, SnoozedTo
  <2>4. QED
    BY <2>2, <2>3 DEF ClockInv
<1>2. CASE SnoozeTouch
  <2>1. /\ UNCHANGED <<Alarm, Snooze, Time, edit, rang>>
        /\ sAlarm = "RING" /\ sAlarm' = "SNOOZE" /\ pc = "grid" /\ pc' = "time"
    BY <1>2 DEF SnoozeTouch
  <2>2. Types'
    BY <2>1 DEF ClockInv, Types
  <2>3. RangNow' /\ NotForAlarm' /\ NotForSnooze' /\ Matching'
    BY <2>1 DEF ClockInv, RangNow, NotForAlarm, NotForSnooze, Matching, Minute,
                SnoozedTo, OnTheFace
  <2>4. QED
    BY <2>2, <2>3 DEF ClockInv
<1>3. ASSUME NEW page \in Pages, OpenPage(page) PROVE ClockInv'
  <2>1. /\ UNCHANGED <<Alarm, sAlarm, Snooze, rang>>
        /\ pc' \in Pages /\ (pc' = "ALARM_SET" => edit' = Alarm)
    BY <1>3 DEF OpenPage, Pages
  <2>2. Types'
    BY <2>1 DEF ClockInv, Types
  <2>3. RangNow' /\ NotForAlarm' /\ NotForSnooze' /\ Matching'
    BY <2>1 DEF ClockInv, RangNow, NotForAlarm, NotForSnooze, Matching, Minute,
                SnoozedTo, OnTheFace, Pages
  <2>4. QED
    BY <2>2, <2>3 DEF ClockInv
<1>4. CASE ToggleAlarm
  <2>1. /\ UNCHANGED <<Alarm, Snooze, Time, edit, rang>>
        /\ sAlarm' = Toggled /\ sAlarm # "RING" /\ pc = "grid" /\ pc' = "time"
    BY <1>4 DEF ToggleAlarm
  <2>2. /\ sAlarm' \in {"ON", "OFF", "ACK"}
        /\ sAlarm' # "ACK" => sAlarm \in {"ON", "OFF"}
    BY <2>1 DEF Toggled, ClockInv, Types
  <2>3. Types'
    BY <2>1, <2>2 DEF ClockInv, Types
  <2>4. RangNow' /\ NotForAlarm' /\ NotForSnooze' /\ Matching'
    BY <2>1, <2>2 DEF ClockInv, RangNow, NotForAlarm, NotForSnooze, Matching, Minute,
                      OnTheFace
  <2>5. QED
    BY <2>3, <2>4 DEF ClockInv
<1>5. CASE ClockFace \/ UpdateSeconds
  <2>1. /\ UNCHANGED <<Alarm, sAlarm, Snooze, edit>>
        /\ rang' \in {rang, Never} /\ rang' \in {Minute(Time'), Never}
        /\ pc' \in {"loop", "alarm"}
    BY <1>5 DEF ClockFace, UpdateSeconds
  <2>2. Types'
    BY <2>1 DEF ClockInv, Types
  <2>3. RangNow' /\ NotForAlarm' /\ NotForSnooze' /\ Matching'
    BY <2>1, NoMinute DEF ClockInv, RangNow, NotForAlarm, NotForSnooze, Matching, Minute,
                SnoozedTo
  <2>4. QED
    BY <2>2, <2>3 DEF ClockInv
<1>6. CASE StartRewind
  <2>1. /\ UNCHANGED <<Alarm, sAlarm, Snooze, Time, edit, rang>>
        /\ pc = "alarm" /\ pc' = "rewind"
    BY <1>6 DEF StartRewind, Rewinding
  <2>2. AlarmMatches \/ SnoozeMatches
    BY <1>6 DEF StartRewind
  <2>3. isr' = FALSE
    BY <1>6 DEF StartRewind, play
  <2>4. Types'
    BY <2>1 DEF ClockInv, Types
  <2>5. RangNow' /\ NotForAlarm' /\ NotForSnooze'
    BY <2>1 DEF ClockInv, RangNow, NotForAlarm, NotForSnooze, Minute, SnoozedTo, OnTheFace
  <2>6. (AlarmMatches \/ SnoozeMatches)'
    BY <2>1, <2>2 DEF AlarmMatches, SnoozeMatches, Minute
  <2>7. QED
    BY <2>3, <2>4, <2>5, <2>6 DEF ClockInv, Matching
<1>7. CASE KeepAlarm
  <2>1. /\ UNCHANGED <<Alarm, Snooze, Time, edit, rang>>
        /\ sAlarm' = IF AckOver THEN "ON" ELSE sAlarm
        /\ pc = "alarm" /\ pc' = "loop"
    BY <1>7 DEF KeepAlarm
  <2>2. Types' /\ RangNow' /\ Matching'
    BY <2>1 DEF ClockInv, Types, RangNow, Matching, Minute, OnTheFace
  <2>3. CASE AckOver
    <3>1. rang \in {Never, Minute(Time)} /\ Time.min # Alarm.min
      BY <2>1, <2>3 DEF ClockInv, RangNow, OnTheFace, AckOver
    <3>2. NotForAlarm' /\ NotForSnooze'
      BY <2>1, <2>3, <3>1, NoMinute DEF NotForAlarm, NotForSnooze, Minute
    <3>3. QED
      BY <2>2, <3>2 DEF ClockInv
  <2>4. CASE ~AckOver
    <3>1. NotForAlarm' /\ NotForSnooze'
      BY <2>1, <2>4 DEF ClockInv, NotForAlarm, NotForSnooze, Minute, SnoozedTo
    <3>2. QED
      BY <2>2, <3>1 DEF ClockInv
  <2>5. QED
    BY <2>3, <2>4
<1>8. QED
  BY <1>1, <1>2, <1>3, <1>4, <1>5, <1>6, <1>7, RingInv DEF ClockFaceTask

LEMMA SettingsInv ==
    ASSUME ClockInv, Settings
    PROVE  ClockInv'
<1> USE DEF alarm, locals, display, history
<1>1. CASE Arrow
  <2>1. UNCHANGED <<Alarm, sAlarm, Snooze, Time, pc, rang>> /\ pc \in Pages
    BY <1>1 DEF Arrow, Pages
  <2>2. ASSUME pc = "ALARM_SET" PROVE edit' \in AlarmTimes
    <3>1. edit \in AlarmTimes /\ MinuteStep = STEP
      BY <2>2 DEF ClockInv, Types, MinuteStep
    <3>2. PICK h \in Int, mn \in Stops : edit' \in {[edit EXCEPT !.hour = h],
                                                   [edit EXCEPT !.min = mn]}
      <4>1. edit.hour \in Int /\ edit.min \in Stops
        BY <3>1 DEF AlarmTimes
      <4>2. /\ Inc(edit.hour, 1, HOURS - 1) \in Int
            /\ Dec(edit.hour, 1, HOURS - 1) \in Int
        BY <4>1 DEF Inc, Dec
      <4>3. /\ Inc(edit.min, STEP, MINUTES - STEP) \in Stops
            /\ Dec(edit.min, STEP, MINUTES - STEP) \in Stops
        BY <4>1, StopsKept
      <4>4. \/ edit' = [edit EXCEPT !.hour = Inc(edit.hour, 1, HOURS - 1)]
            \/ edit' = [edit EXCEPT !.hour = Dec(edit.hour, 1, HOURS - 1)]
            \/ edit' = [edit EXCEPT !.min = Inc(edit.min, STEP, MINUTES - STEP)]
            \/ edit' = [edit EXCEPT !.min = Dec(edit.min, STEP, MINUTES - STEP)]
        BY <1>1, <3>1 DEF Arrow
      <4>5. QED
        BY <4>1, <4>2, <4>3, <4>4, Zenon
    <3>3. QED
      BY <3>1, <3>2 DEF AlarmTimes
  <2>3. Types'
    BY <2>1, <2>2 DEF ClockInv, Types
  <2>4. RangNow' /\ NotForAlarm' /\ NotForSnooze' /\ Matching'
    BY <2>1 DEF ClockInv, RangNow, NotForAlarm, NotForSnooze, Matching, Minute,
                SnoozedTo, OnTheFace, Pages
  <2>5. QED
    BY <2>3, <2>4 DEF ClockInv
<1>2. CASE LeavePage \/ SaveClock
  <2>1. /\ UNCHANGED <<Alarm, sAlarm, Snooze, Time>>
        /\ rang' \in {rang, Never} /\ pc' = "face"
    BY <1>2 DEF LeavePage, SaveClock
  <2>2. Types'
    BY <2>1 DEF ClockInv, Types
  <2>3. RangNow' /\ NotForAlarm' /\ NotForSnooze' /\ Matching'
    BY <2>1, NoMinute DEF ClockInv, RangNow, NotForAlarm, NotForSnooze, Matching, Minute,
                SnoozedTo, OnTheFace
  <2>4. QED
    BY <2>2, <2>3 DEF ClockInv
<1>3. CASE SaveAlarm
  <2>1. /\ Snooze' = Snooze /\ Alarm' = edit /\ edit \in AlarmTimes
        /\ sAlarm' = "ON" /\ rang' = Never /\ pc' = "face"
    BY <1>3 DEF SaveAlarm, ClockInv, Types
  <2>2. Types'
    BY <2>1 DEF ClockInv, Types
  <2>3. RangNow' /\ NotForAlarm' /\ NotForSnooze' /\ Matching'
    BY <2>1 DEF RangNow, NotForAlarm, NotForSnooze, Matching, Minute, OnTheFace, Never
  <2>4. QED
    BY <2>2, <2>3 DEF ClockInv
<1>4. QED
  BY <1>1, <1>2, <1>3 DEF Settings

LEMMA ClockStepInv == ClockInv /\ [Next]_vars => ClockInv'
BY InterruptInv, FaceInv, SettingsInv DEF Next

LEMMA ClockInductive == Spec => []ClockInv
<1>1. Init => ClockInv
  BY ClockInitInv
<1>2. ClockInv /\ [Next]_vars => ClockInv'
  BY ClockStepInv
<1>3. QED
  BY <1>1, <1>2, PTL DEF Spec

-----------------------------------------------------------------------------
(***************************************************************************)
(* FSrewind is called only while the alarm is not ringing yet, and the     *)
(* interrupt reads the file only while it is: neither meets the other.     *)
(***************************************************************************)
THEOREM NotShared == Spec => []FileIsNotShared
<1>1. ClockInv => FileIsNotShared
  BY DEF ClockInv, Matching, FileIsNotShared
<1>2. QED
  BY <1>1, ClockInductive, PTL

(* Only Ring makes the alarm ring.                                         *)
LEMMA OnlyRing ==
    ASSUME ClockInv, [Next]_vars, sAlarm # "RING", sAlarm' = "RING"
    PROVE  Ring
<1> USE DEF alarm, locals, display, history
<1>1. ~BackgroundPlay /\ ~Second /\ ~UNCHANGED vars
  BY DEF Second, BackgroundPlay, Interrupt, Refill, EndOfFile, Feed, Full, face, vars
<1>2. ~Settings
  BY DEF Settings, Arrow, LeavePage, SaveClock, SaveAlarm
<1>3. ~(ClockFace \/ NotTouched \/ Touched \/ SnoozeTouch \/ TouchNothing)
  BY DEF ClockFace, NotTouched, Touched, SnoozeTouch, TouchNothing
<1>4. \A page \in Pages : ~OpenPage(page)
  BY DEF OpenPage
<1>5. ~ToggleAlarm
  BY DEF ToggleAlarm, Toggled, ClockInv, Types
<1>6. ~(ToggleNight \/ ReadTime \/ UpdateSeconds \/ StartRewind \/ KeepAlarm)
  BY DEF ToggleNight, ReadTime, UpdateSeconds, StartRewind, Rewinding, KeepAlarm
<1>7. QED
  BY <1>1, <1>2, <1>3, <1>4, <1>5, <1>6 DEF Next, ClockFaceTask

(***************************************************************************)
(* However the alarm is snoozed, acknowledged, toggled and moved, and      *)
(* whatever the clock does, it rings once in a minute of the face.         *)
(***************************************************************************)
THEOREM RingsOnce == Spec => NoRetrigger
<1>1. ASSUME ClockInv, [Next]_vars, sAlarm # "RING", sAlarm' = "RING"
      PROVE  Minute(Time) # rang
  <2>1. AlarmMatches \/ SnoozeMatches
    BY <1>1, OnlyRing DEF Ring, ClockInv, Matching
  <2>2. CASE AlarmMatches
    BY <1>1, <2>2 DEF AlarmMatches, ClockInv, NotForAlarm
  <2>3. CASE SnoozeMatches
    BY <1>1, <2>3 DEF SnoozeMatches, ClockInv, NotForSnooze, SnoozedTo, Minute
  <2>4. QED
    BY <2>1, <2>2, <2>3
<1>2. ClockInv /\ [Next]_vars
        => [sAlarm # "RING" /\ sAlarm' = "RING" => Minute(Time) # rang]_vars
  BY <1>1
<1>3. QED
  BY <1>2, ClockInductive, PTL DEF Spec, NoRetrigger
=============================================================================
