------------------------------- MODULE MCTiles --------------------------------
(* Eight tiles: half of the 9! positions of the board, all reachable.       *)
EXTENDS Tiles
=============================================================================
