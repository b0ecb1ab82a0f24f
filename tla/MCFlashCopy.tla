----------------------------- MODULE MCFlashCopy ------------------------------
(***************************************************************************)
(* FlashCopy with pieces of two pages of a byte, and sectors of four:      *)
(* files of up to two sectors, one after the other.                        *)
(***************************************************************************)
EXTENDS FlashCopy
=============================================================================
