------------------------------ MODULE FatVolume ------------------------------
(***************************************************************************)
(* The lower half of fileio.c: the volume on a card with its file          *)
(* allocation table and its fixed root directory, seen through the two     *)
(* sector buffers of the drive. A call of the library is computed by       *)
(* operators on a record v: what is on the card, the buffers, the file     *)
(* object the call works on, and the cards it leaves behind if it is cut   *)
(* short by pulling the card out.                                          *)
(***************************************************************************)
EXTENDS Integers, FiniteSets, SequencesExt

CONSTANTS
    Names,              \* the names of files
    CLUSTERS,           \* clusters of the partition: 2 .. CLUSTERS + 1
    SPC,                \* sectors of a cluster
    SECTOR,             \* bytes of a sector
    FATS,               \* entries of a sector of the table
    ENTRIES,            \* entries of a sector of the directory
    ROOT                \* entries of the directory

ASSUME VolumeAssumption ==
    /\ \A n \in {CLUSTERS, SPC, SECTOR, FATS, ENTRIES, ROOT} : n \in Nat \ {0}
    /\ CLUSTERS <= 65524               \* FAT16 has no larger volume
    /\ "deleted" \notin Names /\ "empty" \notin Names

Clusters == 2 .. CLUSTERS + 1
Empty == 0                                      \* of a cluster: free
Eof == 65528                                    \* the last of its file
EndLimit == 65527                               \* not allocatable
None == <<"none", 0>>                           \* no sector is buffered

FatSector(c) == <<"fat", c \div FATS>>
DirSector(slot) == <<"dir", slot \div ENTRIES>>
ClusterToSector(c) == (c - 2) * SPC
DataSector(c, s) == <<"data", ClusterToSector(c) + s>>

NoEntry == [name |-> "empty", first |-> 0, size |-> 0]
Zeros == [i \in 0 .. SECTOR - 1 |-> <<"zero", 0, 0>>]
DataSectors == {DataSector(c, s) : c \in Clusters, s \in 0 .. SPC - 1}

Good(v) == v.err = "none"
Failed(v, e) == [v EXCEPT !.err = e]
Ignoring(v) == [v EXCEPT !.err = "none"]

(* The next step of a call, unless the last one failed.                    *)
Then(v, Step(_)) == IF Good(v) THEN Step(v) ELSE v

-----------------------------------------------------------------------------
(* A sector goes to or comes from the card, unless there is no such sector *)
(* on it. The card may be pulled out just before that: no transfer of the  *)
(* call succeeds from then on, so the card stays as it is now.             *)
Transfer(v, s) ==
    IF s \in DOMAIN v.card THEN [v EXCEPT !.cuts = @ \cup {v.card}] ELSE Failed(v, "sector")

SectorWrite(v, s, buffer) ==
    Then(Transfer(v, s), LAMBDA t : [t EXCEPT !.card[s] = buffer])

FlushData(v) ==
    IF v.dataDirty
    THEN Then(SectorWrite(v, v.dataSector, v.data), LAMBDA w : [w EXCEPT !.dataDirty = FALSE])
    ELSE v

(* Both copies of the table are written; only the first is ever read.      *)
FlushFat(v) ==
    IF v.fatDirty
    THEN Then(Then(SectorWrite(v, v.fatSector, v.fat), LAMBDA w : Transfer(w, v.fatSector)),
              LAMBDA t : [t EXCEPT !.fatDirty = FALSE])
    ELSE v

ReadData(v, s) ==
    Then(Transfer(v, s), LAMBDA t : [t EXCEPT !.data = t.card[s], !.dataSector = s])

(* Slip: the sector that leaves the buffer is not written back.            *)
SlipCacheData(v, s) ==
    IF v.dataSector = s THEN v ELSE [ReadData(v, s) EXCEPT !.dataDirty = FALSE]

CacheData(v, s) ==
    IF v.dataSector = s THEN v ELSE Then(FlushData(v), LAMBDA f : ReadData(f, s))

ReadFat(t, s) ==
    IF Good(t) THEN [t EXCEPT !.fat = t.card[s], !.fatSector = s]
    ELSE [t EXCEPT !.fatSector = None]

CacheFat(v, s) ==
    IF v.fatSector = s THEN v
    ELSE Then(FlushFat(v), LAMBDA f : ReadFat(Transfer(f, s), s))

(* The entry of a cluster is v.fat[c] once it was read.                    *)
FATRead(v, c) == CacheFat(v, FatSector(c))

FATWrite(v, c, value) ==
    Then(CacheFat(v, FatSector(c)), LAMBDA r : [r EXCEPT !.fat[c] = value, !.fatDirty = TRUE])

-----------------------------------------------------------------------------
(* Round the table, from base back to base; v.found is the cluster that is *)
(* looked at, and in the end 0 if none is free.                            *)
LookAt(v, c) == FATRead([v EXCEPT !.found = c], c)
ScanFrom(r, base) ==
    LET c == r.found
        next == IF r.fat[c] = EndLimit \/ c + 1 >= CLUSTERS + 2 THEN 2 ELSE c + 1
    IN  IF ~Good(r) \/ r.fat[c] = Empty \/ next = base THEN r ELSE LookAt(r, next)

ScanFat(v, base) ==
    LET scan[k \in 0 .. CLUSTERS - 1] ==
            IF k = 0 THEN LookAt(v, base) ELSE ScanFrom(scan[k - 1], base)
        last(r) == [r EXCEPT !.found = IF Good(r) /\ r.fat[@] = Empty THEN @ ELSE 0]
    IN  last(scan[CLUSTERS - 1])

FindEmptyCluster(v, base) == ScanFat(v, IF base < 2 THEN 2 ELSE base)

(* A cluster is appended to the one the chain ends with. What the two      *)
(* writes to the table return is ignored.                                  *)
ClusterAllocate(v, c) ==
    LET taken(s) == Ignoring(FATWrite(s, s.found, Eof))
        link(s) ==
            IF s.found = 0 THEN Failed(s, "full")
            ELSE [Ignoring(FATWrite(taken(s), c, s.found)) EXCEPT !.f.cluster = s.found]
    IN  link(FindEmptyCluster(v, c))

EraseCluster(v, c) ==
    LET erased[i \in 0 .. SPC] ==
            IF i = 0 THEN FlushData(v)
            ELSE Then(erased[i - 1], LAMBDA w : SectorWrite(w, DataSector(c, i - 1), Zeros))
    IN  Then(FlushData(v),
             LAMBDA flushed : [erased[SPC] EXCEPT
                 !.data = Zeros, !.dataSector = DataSector(c, 0), !.dataDirty = FALSE])

(* A cluster is taken from the table and filled with zeros.                *)
TakeCluster(s) ==
    Then(FATWrite(s, s.found, Eof), LAMBDA taken : EraseCluster(taken, s.found))
Began(v, c) == [v EXCEPT !.f.first = c, !.f.cluster = c]

(* Slip: the table stays in the buffer.                                    *)
SlipCreateFirstCluster(v) ==
    LET create(s) ==
            IF s.found = 0 THEN Failed(s, "full") ELSE Began(TakeCluster(s), s.found)
    IN  create(FindEmptyCluster(v, 2))

CreateFirstCluster(v) ==
    LET flushed(e) == [FlushFat(Ignoring(e)) EXCEPT !.err = IF Good(e) THEN @ ELSE e.err]
        create(s) ==
            IF s.found = 0 THEN Failed(FlushFat(Ignoring(s)), "full")
            ELSE Began(flushed(TakeCluster(s)), s.found)
    IN  create(FindEmptyCluster(v, 2))

(* The cluster v.found is freed, and v.found follows the chain: 0 at its   *)
(* end. A chain in a ring ends where it was freed.                         *)
EraseLink(v) ==
    LET next(r) == r.fat[r.found]
        free(r) == [FATWrite(r, r.found, Empty) EXCEPT !.found = IF next(r) >= Eof THEN 0 ELSE next(r)]
    IN  IF v.found = 0 THEN v
        ELSE Then(FATRead(v, v.found),
                  LAMBDA r : IF next(r) \in {0, 1} THEN [r EXCEPT !.found = 0] ELSE free(r))

EraseLinks(v, c) ==
    LET erased[k \in 0 .. CLUSTERS + 1] ==
            IF k = 0 THEN [v EXCEPT !.found = c] ELSE Then(erased[k - 1], EraseLink)
    IN  erased[CLUSTERS + 1]

(* Slip: the last cluster of the chain is not freed.                       *)
SlipEraseClusterChain(v, c) ==
    LET free(r) ==
            IF ~Good(r) \/ r.fat[c] >= Eof THEN r ELSE FlushFat(Ignoring(EraseLinks(v, c)))
    IN  Ignoring(free(FATRead(v, c)))

(* Every cluster of a chain is freed; the table is then written. The       *)
(* result, an error or the end of the chain, is taken for success.         *)
EraseClusterChain(v, c) ==
    Ignoring(FlushFat(IF c \in {0, 1} THEN v ELSE Ignoring(EraseLinks(v, c))))

(* The file object follows its chain, over the end of it too.              *)
FollowLink(v) ==
    LET moved(r) ==
            LET next == IF Good(r) THEN r.fat[v.f.cluster] ELSE 65535
            IN  [r EXCEPT !.f.cluster = next,
                          !.err = IF ~Good(r) THEN @
                                  ELSE IF next >= Eof THEN "eof"
                                  ELSE IF next >= CLUSTERS + 2 THEN "cluster" ELSE "none"]
    IN  moved(FATRead(v, v.f.cluster))

NextClusterGet(v, count) ==
    LET moved[k \in 0 .. count] == IF k = 0 THEN v ELSE Then(moved[k - 1], FollowLink)
    IN  moved[count]

-----------------------------------------------------------------------------
(* The buffered entry of a slot is Entry(v, slot) once it was cached.      *)
DirectoryEntryCache(v, slot) ==
    IF slot >= ROOT THEN Failed(v, "done") ELSE CacheData(v, DirSector(slot))
Entry(v, slot) == v.data[slot % ENTRIES]

SetEntry(v, slot, entry) ==
    [v EXCEPT !.data[slot % ENTRIES] = entry, !.dataDirty = TRUE]

(* The slots of the directory are looked at in turn: v.found is the last.  *)
SlotAt(v, slot) == DirectoryEntryCache([v EXCEPT !.found = slot], slot)
NameAt(e) == Entry(e, e.found).name

(* A sector of the directory that cannot be read is passed over: the error *)
(* that is looked for is not the one that is returned (1378).              *)
FindShortFileName(v, n) ==
    LET over(e) == e.err = "done" \/ (Good(e) /\ NameAt(e) \in {n, "empty"})
        next(e, k) == IF over(e) THEN e ELSE SlotAt(Ignoring(e), k)
        find[k \in 0 .. ROOT] == IF k = 0 THEN SlotAt(v, 0) ELSE next(find[k - 1], k)
        last(e) == IF Good(e) /\ NameAt(e) = "empty" THEN Failed(e, "done") ELSE e
    IN  last(find[ROOT])

DirectoryEntryFindEmpty(v) ==
    LET over(e) == ~Good(e) \/ NameAt(e) \in {"deleted", "empty"}
        next(e, k) == IF over(e) THEN e ELSE SlotAt(e, k)
        find[k \in 0 .. ROOT] == IF k = 0 THEN SlotAt(v, 0) ELSE next(find[k - 1], k)
        last(e) == IF Good(e) THEN e ELSE Failed(e, "directory")
    IN  last(find[ROOT])

DirectoryEntryPopulate(v, n, slot) ==
    Then(DirectoryEntryCache(v, slot), LAMBDA e :
        [SetEntry(e, slot, [name |-> n, first |-> e.f.first, size |-> 0])
            EXCEPT !.f.cluster = e.f.first, !.f.sector = 0, !.f.offset = 0,
                   !.f.pos = 0, !.f.size = 0, !.f.entry = slot])

DirectoryEntryCreate(v, n) ==
    Then(DirectoryEntryFindEmpty(v), LAMBDA e :
        Then(CreateFirstCluster(e), LAMBDA data : DirectoryEntryPopulate(data, n, e.found)))

(* The entry is marked in the buffer, the chain is freed, and then both    *)
(* buffers are written: the table first.                                   *)
MarkDeleted(v, slot) ==
    Then(DirectoryEntryCache(v, slot),
         LAMBDA e : SetEntry(e, slot, [Entry(e, slot) EXCEPT !.name = "deleted"]))
EraseFreed(p, first) == IF Good(p) /\ first # 0 THEN EraseClusterChain(p, first) ELSE p
EraseWritten(p, first) ==
    Then(Then(FlushData(Ignoring(EraseFreed(p, first))), FlushFat), LAMBDA w : Failed(w, p.err))

EraseFile(v) ==
    LET slot == v.f.entry
        previous(e) == IF slot = 0 THEN e ELSE DirectoryEntryCache(e, slot - 1)
    IN  Then(MarkDeleted(v, slot), LAMBDA e : EraseWritten(previous(e), v.f.first))
=============================================================================
