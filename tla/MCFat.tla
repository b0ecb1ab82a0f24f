--------------------------------- MODULE MCFat ---------------------------------
(* Two files, three clusters of two sectors of two bytes. The cards: an      *)
(* empty one; one with a file that fills cluster 4, its entry behind one     *)
(* that was deleted; a full one, with an empty file that was made by another *)
(* computer: it has no cluster.                                              *)
EXTENDS FatFile

MCModes == {{"READ"}, {"WRITE", "CREATE", "TRUNCATE"}, {"WRITE", "CREATE", "APPEND"}}

(* What SD_Open asks for with "w": neither CREATE nor TRUNCATE.              *)
MCRewriteModes == {{"READ"}, {"WRITE"}}

Card(links, entries, owner) ==
    LET fat == {FatSector(c) : c \in Clusters}
        dir == {DirSector(slot) : slot \in 0 .. ROOT - 1}
        of(s) == CHOOSE c \in Clusters : \E i \in 0 .. SPC - 1 : DataSector(c, i) = s
    IN  [s \in fat |-> [c \in {k \in Clusters : FatSector(k) = s} |-> links[c]]]
        @@ [s \in dir |-> [i \in 0 .. ENTRIES - 1 |-> entries[s[2] * ENTRIES + i + 1]]]
        @@ [s \in DataSectors |-> [i \in 0 .. SECTOR - 1 |-> <<owner[of(s)], 2, s[2] * SECTOR + i>>]]

File(n, first, size) == [name |-> n, first |-> first, size |-> size]

MCCards ==
    {Card([c \in Clusters |-> Empty], <<NoEntry, NoEntry>>, [c \in Clusters |-> "old"]),
     Card([c \in Clusters |-> IF c = 4 THEN Eof ELSE Empty],
          <<File("deleted", 3, 1), File("b", 4, 4)>>, [c \in Clusters |-> "b"]),
     Card([c \in Clusters |-> IF c = 4 THEN Eof + 7 ELSE c + 1],
          <<File("a", 0, 0), File("b", 2, 12)>>, [c \in Clusters |-> "b"])}
=============================================================================
