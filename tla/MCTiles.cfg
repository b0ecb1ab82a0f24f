SPECIFICATION TilesSpec
CONSTANT SIDE = 3
INVARIANTS
    EachTileOnce
    ScreenShowsTiles
    Solvable
