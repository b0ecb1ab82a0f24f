------------------------------- MODULE FatFile -------------------------------
(***************************************************************************)
(* The upper half of fileio.c: file objects, and a program that opens,     *)
(* reads, writes, removes and renames files of the root directory. Each    *)
(* action is a whole call of the library; the card may be pulled out after *)
(* any number of the sectors that the call transfers.                      *)
(***************************************************************************)
EXTENDS FatVolume

CONSTANTS
    Cards,              \* cards that are put in
    Modes,              \* the modes files are opened in: sets of flags
    Chunks,             \* how many bytes are read or written at once
    Habits,             \* what programs do that the library does not stand
    LENGTH,             \* bound: bytes of a file
    NAMED               \* bound: calls with a name on one card

VARIABLES
    vol,                \* the card and the buffers of the drive
    file,               \* the file objects, one for each name
    plugged,            \* the card is in
    result,             \* of the last call: how it ended, and the bytes that
                        \* it read, or that it was given to write
    content,            \* history: the bytes of each file, through the buffers
    version,            \* history: tells the bytes of a new file from the old
    flushed,            \* history: what was in each file when it was flushed
    names,              \* history: how many calls with a name there were
    card                \* history: "whole", or pulled out in a call that was
                        \* "cut" short, or that left a removal "torn"

vars == <<vol, file, plugged, result, content, version, flushed, names, card>>

ASSUME ProgramAssumption ==
    /\ Habits \subseteq {"rewrites"}
    /\ Chunks \subseteq Nat /\ LENGTH \in Nat /\ NAMED \in Nat

NoFile == << <<"no file", 0, 0>> >>
Closed == [first |-> 0, cluster |-> 0, sector |-> 0, offset |-> 0, pos |-> 0, size |-> 0,
           entry |-> 0, read |-> FALSE, write |-> FALSE, open |-> FALSE, failed |-> FALSE]

(* FILEIO_Initialize and FILEIO_DriveMount: the buffers are empty.         *)
Mounted(c) ==
    [card |-> c, fat |-> <<>>, fatSector |-> None, fatDirty |-> FALSE,
     data |-> <<>>, dataSector |-> None, dataDirty |-> FALSE,
     cuts |-> {}, err |-> "none", found |-> 0, f |-> Closed,
     count |-> 0, got |-> <<>>]

-----------------------------------------------------------------------------
(* What is on the card, or would be if the buffers were written.           *)
Cached(v) ==
    LET fat == IF v.fatSector = None THEN v.card
               ELSE [v.card EXCEPT ![v.fatSector] = v.fat]
    IN  IF v.dataSector = None THEN fat ELSE [fat EXCEPT ![v.dataSector] = v.data]

Link(c, cluster) == c[FatSector(cluster)][cluster]
Slot(c, slot) == c[DirSector(slot)][slot % ENTRIES]
Slots(c, n) == {slot \in 0 .. ROOT - 1 : Slot(c, slot).name = n}
Present(c) == {n \in Names : Slots(c, n) # {}}
EntryOf(c, n) == Slot(c, CHOOSE slot \in Slots(c, n) : TRUE)

(* The clusters of a file, as far as its chain goes without an error.      *)
FirstLink(first) == IF first \in Clusters THEN <<first>> ELSE <<>>
NextLink(c, p) ==
    LET next == IF p = <<>> THEN 0 ELSE Link(c, p[Len(p)])
    IN  IF next \in Clusters /\ next \notin Range(p) THEN Append(p, next) ELSE p
Links(c, first) ==
    LET chain[k \in 0 .. CLUSTERS - 1] ==
            IF k = 0 THEN FirstLink(first) ELSE NextLink(c, chain[k - 1])
    IN  chain[CLUSTERS - 1]
Chain(c, n) == Links(c, EntryOf(c, n).first)

Bytes(c, n, size) ==
    LET chain == Chain(c, n)
        byte(k) == LET s == k \div SECTOR
                   IN  c[DataSector(chain[s \div SPC + 1], s % SPC)][k % SECTOR]
        most == Len(chain) * SPC * SECTOR
    IN  [k \in 1 .. IF size < most THEN size ELSE most |-> byte(k - 1)]

OnCard(c, n) == IF n \in Present(c) THEN Bytes(c, n, EntryOf(c, n).size) ELSE NoFile
Content(v, f, n) ==
    IF f.open THEN Bytes(Cached(v), n, f.size) ELSE OnCard(Cached(v), n)
Seen(v, files, in) == [n \in Names |-> IF in THEN Content(v, files[n], n) ELSE NoFile]

(* A card on which a disk check finds at most lost clusters: a name has    *)
(* one entry, a chain is long enough and ends, no two share a cluster.     *)
Sound(c) ==
    \A n \in Present(c) :
        LET chain == Chain(c, n)
        IN  /\ Cardinality(Slots(c, n)) = 1
            /\ Len(chain) * SPC * SECTOR >= EntryOf(c, n).size
            /\ chain # <<>> => Link(c, chain[Len(chain)]) >= Eof
            /\ \A m \in Present(c) \ {n} : Range(chain) \cap Range(Chain(c, m)) = {}

LinkedClusters(c) == {k \in Clusters : Link(c, k) # Empty}
FileClusters(c) == UNION {Range(Chain(c, n)) : n \in Present(c)}

(* The sectors of a card, each with its entries or its bytes.              *)
FatSectors == {FatSector(c) : c \in Clusters}
DirSectors == {DirSector(slot) : slot \in 0 .. ROOT - 1}
CardSectors == FatSectors \cup DirSectors \cup DataSectors
Word == {n \in Nat : n < 65536}
FatPages(s) == [{c \in Clusters : FatSector(c) = s} -> Word]
SlotEntry == [name : Names \cup {"deleted", "empty"}, first : Word, size : Nat]
DirPages == [0 .. ENTRIES - 1 -> SlotEntry]
Formatted(c) ==
    /\ c = [s \in CardSectors |-> c[s]]
    /\ \A s \in FatSectors : c[s] \in FatPages(s)
    /\ \A s \in DirSectors : c[s] \in DirPages
    /\ \A s \in DataSectors :
        /\ c[s] = [i \in 0 .. SECTOR - 1 |-> c[s][i]]
        /\ \A i \in 0 .. SECTOR - 1 : c[s][i] # NoFile[1]

(* The directory ends at the first entry that was never used.              *)
DirEnds(c) ==
    \A s, t \in 0 .. ROOT - 1 :
        s < t /\ Slot(c, s).name = "empty" => Slot(c, t).name = "empty"

(* A card that is put in was formatted, and a disk check finds no fault.   *)
ASSUME CardsAssumption ==
    \A c \in Cards :
        /\ Formatted(c) /\ DirEnds(c) /\ Sound(c) /\ LinkedClusters(c) = FileClusters(c)
        /\ \A n \in Present(c) : EntryOf(c, n).first \in {0} \cup Clusters

-----------------------------------------------------------------------------
(* Over the end of a sector, and of a cluster. A file that is written gets *)
(* another cluster where its chain ends.                                   *)
Advance(v, extend) ==
    LET grown(next) ==
            IF extend /\ next.err = "eof"
            THEN ClusterAllocate([Ignoring(next) EXCEPT !.f.cluster = v.f.cluster], v.f.cluster)
            ELSE next
    IN  IF v.f.offset # SECTOR THEN v
        ELSE IF v.f.sector + 1 # SPC THEN [v EXCEPT !.f.offset = 0, !.f.sector = @ + 1]
        ELSE grown(NextClusterGet([v EXCEPT !.f.offset = 0, !.f.sector = 0], 1))

Sector(v) == DataSector(v.f.cluster, v.f.sector)

(* FILEIO_Seek to an offset from the beginning. A position at the end of   *)
(* the last cluster is in a cluster that is allocated now, or, in a file   *)
(* that is only read, behind the last byte of the last sector.             *)
First(v) == [v EXCEPT !.f.cluster = v.f.first]
Placed(v, offset) ==
    [First(v) EXCEPT !.f.pos = offset, !.f.offset = offset % SECTOR,
                     !.f.sector = (offset \div SECTOR) % SPC]
SeekLast(v, clusters) ==
    IF clusters = 1 THEN First(v) ELSE NextClusterGet(First(v), clusters - 1)
SeekEnd(last) ==
    IF last.f.write THEN ClusterAllocate(Ignoring(last), last.f.cluster)
    ELSE [last EXCEPT !.f.offset = SECTOR, !.f.sector = SPC - 1]
SeekFound(v, clusters) ==
    IF v.err = "eof" THEN SeekEnd(SeekLast(Ignoring(v), clusters)) ELSE v
SeekCluster(v, clusters) ==
    IF clusters = 0 THEN v ELSE SeekFound(NextClusterGet(v, clusters), clusters)

SeekTo(v, offset) ==
    LET there(fl) == SeekCluster(Placed(fl, offset), (offset \div SECTOR) \div SPC)
    IN  Then(FlushData(v), LAMBDA fl :
            IF offset > v.f.size THEN Failed(First(fl), "argument")
            ELSE Then(there(fl), LAMBDA at : ReadData(at, Sector(at))))

Least(S) == CHOOSE x \in S : \A y \in S : x <= y

(* The sector the position is in goes into the buffer.                     *)
Here(v, extend) == Then(Advance(v, extend), LAMBDA there : CacheData(there, Sector(there)))

(* Where the data pointer is, as many bytes on. Slip: it stays where it    *)
(* was.                                                                    *)
SlipSent(v, bytes, k) == bytes[k + 1]
Sent(v, bytes, k) == bytes[v.count + k + 1]

(* The bytes go into the sectors one after the other; v.count of them are  *)
(* written.                                                                *)
WriteSector(v, bytes) ==
    LET put(here, o, n) ==
            [here EXCEPT !.data = [i \in DOMAIN @ |-> IF i \in o .. o + n - 1
                                                      THEN Sent(here, bytes, i - o) ELSE @[i]],
                         !.dataDirty = TRUE, !.f.offset = o + n, !.count = @ + n]
        step(here) ==
            put(here, here.f.offset, Least({SECTOR - here.f.offset, Len(bytes) - here.count}))
    IN  IF v.count = Len(bytes) THEN v ELSE Then(Here(v, TRUE), step)

Written(v, bytes) ==
    LET done[k \in 0 .. Len(bytes)] ==
            IF k = 0 THEN v ELSE Then(done[k - 1], LAMBDA w : WriteSector(w, bytes))
    IN  done[Len(bytes)]

(* The size and the position move only when all of the bytes were written. *)
Write(v, bytes) ==
    Then(Written(v, bytes),
         LAMBDA w : [w EXCEPT !.f.size = @ + w.count, !.f.pos = @ + w.count])

(* v.count bytes are still to be read: none behind the end of the file.    *)
ReadSector(v) ==
    LET taken(here, o, n, left) ==
            [here EXCEPT !.got = @ \o [i \in 1 .. n |-> here.data[o + i - 1]],
                         !.f.offset = o + n, !.f.pos = @ + n, !.count = left]
        step(here) ==
            LET room == Least({SECTOR - here.f.offset, here.count})
                n == Least({room, here.f.size - here.f.pos})
            IN  taken(here, here.f.offset, n, IF n < room THEN 0 ELSE here.count - n)
    IN  IF v.count = 0 THEN v ELSE Then(Here(v, FALSE), step)

Read(v, length) ==
    LET done[k \in 0 .. length] ==
            IF k = 0 THEN [v EXCEPT !.count = length] ELSE Then(done[k - 1], ReadSector)
    IN  done[length]

(* The size goes into the entry.                                           *)
Sized(v) ==
    Then(DirectoryEntryCache(v, v.f.entry),
         LAMBDA e : SetEntry(e, v.f.entry, [Entry(e, v.f.entry) EXCEPT !.size = v.f.size]))

(* Slip: the table stays in the buffer.                                    *)
SlipFlush(v) == IF v.f.write THEN Then(Sized(FlushData(v)), FlushData) ELSE v

(* The entry is written after the table, with the sector of the table that *)
(* the position is in read again.                                          *)
FlushEntry(v) == Then(Sized(Ignoring(FATRead(v, v.f.cluster))), FlushData)

Flush(v) ==
    IF v.f.write
    THEN Then(Then(Then(FlushData(v), FlushFat), FlushEntry),
              LAMBDA w : ReadData(w, w.dataSector))
    ELSE v

(* The file object of the entry that was found.                            *)
Filled(v) ==
    LET entry == Entry(v, v.found)
    IN  [v EXCEPT !.f.first = entry.first, !.f.cluster = entry.first, !.f.size = entry.size,
                  !.f.entry = v.found, !.f.pos = 0, !.f.sector = 0, !.f.offset = 0]
Enabled(v, mode) == [v EXCEPT !.f.read = "READ" \in mode, !.f.write = "WRITE" \in mode]

(* A file without a cluster is erased and created, whatever it was opened  *)
(* for.                                                                    *)
Again(find, mode) == Good(find) /\ ("TRUNCATE" \in mode \/ Entry(find, find.found).first = 0)
Anew(find, mode) == find.err = "done" /\ "CREATE" \in mode
Made(find, n, mode) ==
    IF Again(find, mode)
    THEN Then(EraseFile(Filled(find)), LAMBDA u : DirectoryEntryCreate(u, n))
    ELSE IF Anew(find, mode) THEN DirectoryEntryCreate(Ignoring(find), n)
    ELSE Then(find, Filled)

SeekOrFail(v) ==
    LET u == SeekTo(v, v.f.size) IN [u EXCEPT !.err = IF Good(u) THEN @ ELSE "seek"]
OpenFound(find, n, mode) ==
    Then(Made(find, n, mode), LAMBDA m :
        IF Again(find, mode) \/ Anew(find, mode) \/ "APPEND" \in mode
        THEN SeekOrFail(Enabled(m, mode)) ELSE Enabled(m, mode))

(* FILEIO_Open.                                                            *)
Open(v, n, mode) == OpenFound(FindShortFileName(v, n), n, mode)

EraseFound(find) ==
    EraseFile([find EXCEPT !.f.first = Entry(find, find.found).first, !.f.entry = find.found])
RemoveFile(v, n) == Then(FindShortFileName(v, n), EraseFound)

(* An entry is rewritten in its sector: there is no moment without a name. *)
NameFound(old, m) ==
    Then(DirectoryEntryCache(old, old.found), LAMBDA e :
        FlushData(SetEntry(e, old.found, [Entry(e, old.found) EXCEPT !.name = m])))
Rename(v, n, m) ==
    LET new == FindShortFileName(v, m)
    IN  IF Good(new) THEN Failed(new, "exists")
        ELSE Then(FindShortFileName(Ignoring(new), n), LAMBDA old : NameFound(old, m))

-----------------------------------------------------------------------------
(* A program opens a file once, and neither removes nor renames it then.   *)
(* It seeks no further than the end, writes at the end only, and only      *)
(* closes a file after a call on it that failed.                           *)
Start(n) == [vol EXCEPT !.f = file[n]]
Rest(v) == [v EXCEPT !.cuts = {}, !.err = "none", !.found = 0, !.f = Closed,
                     !.count = 0, !.got = <<>>]
Usable(n) == plugged /\ file[n].open /\ ~file[n].failed

(* A call returns, or the card was pulled out while it ran.                *)
ReturnOf(n, v, object, ended, bytes) ==
    /\ vol' = Rest(v)
    /\ file' = [file EXCEPT ![n] = object]
    /\ content' = Seen(vol', file', TRUE)
    /\ result' = [ended |-> IF ended THEN "done" ELSE "failed", bytes |-> bytes]
    /\ UNCHANGED <<plugged, card>>
Return(n, v, object, ended) == ReturnOf(n, v, object, ended, v.got)

PulledOut(v, how) ==
    /\ card = "whole"
    /\ \E c \in v.cuts : vol' = Mounted(c)
    /\ file' = [n \in Names |-> Closed]
    /\ content' = Seen(vol', file', FALSE)
    /\ result' = [ended |-> "failed", bytes |-> <<>>]
    /\ plugged' = FALSE
    /\ card' = how

Erases(n, mode) ==
    /\ n \in Present(Cached(vol))
    /\ "TRUNCATE" \in mode \/ EntryOf(Cached(vol), n).first = 0
Creates(n, mode) ==
    Erases(n, mode) \/ (n \notin Present(Cached(vol)) /\ "CREATE" \in mode)

FILEIO_Open(n, mode) ==
    /\ plugged /\ ~file[n].open
    /\ names < NAMED /\ names' = names + 1
    /\ \E v \in {Open(Start(n), n, mode)} :
        \/ Return(n, v, IF Good(v) THEN [v.f EXCEPT !.open = TRUE] ELSE Closed, Good(v))
        \/ PulledOut(v, IF Erases(n, mode) THEN "torn" ELSE "cut")
    /\ version' = [version EXCEPT ![n] = IF Creates(n, mode) THEN 1 - @ ELSE @]
    /\ flushed' = [flushed EXCEPT ![n] = IF Erases(n, mode) THEN NoFile ELSE @]

FILEIO_Flush(n) ==
    /\ Usable(n) /\ file[n].write
    /\ \E v \in {Flush(Start(n))} :
        Return(n, v, v.f, Good(v)) \/ PulledOut(v, "cut")
    /\ flushed' = [flushed EXCEPT ![n] = IF plugged' THEN content[n] ELSE @]
    /\ UNCHANGED <<version, names>>

FILEIO_Close(n) ==
    /\ plugged /\ file[n].open
    /\ \E v \in {Flush(Start(n))} :
        Return(n, v, Closed, Good(v)) \/ PulledOut(v, "cut")
    /\ flushed' = [flushed EXCEPT ![n] = IF plugged' /\ file[n].write THEN content[n] ELSE @]
    /\ UNCHANGED <<version, names>>

FILEIO_Read(n) ==
    /\ Usable(n) /\ file[n].read
    /\ \E length \in Chunks : \E v \in {Read(Start(n), length)} :
        Return(n, v, v.f, TRUE) \/ PulledOut(v, "cut")
    /\ UNCHANGED <<version, names, flushed>>

FILEIO_Write(n) ==
    /\ Usable(n) /\ file[n].write
    /\ file[n].pos = file[n].size \/ "rewrites" \in Habits
    /\ \E length \in Chunks :
        LET bytes == [i \in 1 .. length |-> <<n, version[n], file[n].pos + i>>]
        IN  /\ file[n].size + length <= LENGTH
            /\ \E v \in {Write(Start(n), bytes)} :
                \/ ReturnOf(n, v, [v.f EXCEPT !.failed = ~Good(v)], Good(v), bytes)
                \/ PulledOut(v, "cut")
    /\ UNCHANGED <<version, names, flushed>>

FILEIO_Seek(n) ==
    /\ Usable(n) /\ file[n].read
    /\ \E offset \in 0 .. file[n].size : \E v \in {SeekTo(Start(n), offset)} :
        \/ Return(n, v, [v.f EXCEPT !.failed = ~Good(v)], Good(v))
        \/ PulledOut(v, "cut")
    /\ UNCHANGED <<version, names, flushed>>

FILEIO_Remove(n) ==
    /\ plugged /\ ~file[n].open
    /\ names < NAMED /\ names' = names + 1
    /\ \E v \in {RemoveFile(Start(n), n)} :
        Return(n, v, Closed, Good(v)) \/ PulledOut(v, "torn")
    /\ flushed' = [flushed EXCEPT ![n] = NoFile]
    /\ UNCHANGED version

FILEIO_Rename(n, m) ==
    /\ plugged /\ ~file[n].open /\ ~file[m].open
    /\ names < NAMED /\ names' = names + 1
    /\ \E v \in {Rename(Start(n), n, m)} :
        Return(n, v, Closed, Good(v)) \/ PulledOut(v, "cut")
    /\ flushed' = IF result'.ended = "done"
                  THEN [flushed EXCEPT ![m] = flushed[n], ![n] = NoFile] ELSE flushed
    /\ UNCHANGED version

(* The card that was pulled out, or another one, is put in and mounted: a  *)
(* card with a file that was half removed goes to a disk check first.      *)
FILEIO_DriveMount ==
    /\ ~plugged /\ plugged' = TRUE
    /\ \/ card # "torn" /\ UNCHANGED <<vol, version, names, card>>
       \/ /\ \E c \in Cards : vol' = Mounted(c)
          /\ version' = [n \in Names |-> 1] /\ names' = 0 /\ card' = "whole"
    /\ flushed' = [n \in Names |-> OnCard(vol'.card, n)]
    /\ result' = [ended |-> "done", bytes |-> <<>>]
    /\ content' = Seen(vol', file, TRUE)
    /\ UNCHANGED file

Init ==
    /\ vol \in {Mounted(c) : c \in Cards}
    /\ file = [n \in Names |-> Closed]
    /\ plugged = TRUE
    /\ result = [ended |-> "done", bytes |-> <<>>]
    /\ version = [n \in Names |-> 1]
    /\ flushed = [n \in Names |-> OnCard(vol.card, n)]
    /\ names = 0
    /\ card = "whole"
    /\ content = Seen(vol, file, plugged)

Next ==
    \/ \E n \in Names, mode \in Modes : FILEIO_Open(n, mode)
    \/ \E n \in Names : \/ FILEIO_Flush(n) \/ FILEIO_Close(n) \/ FILEIO_Read(n)
                        \/ FILEIO_Write(n) \/ FILEIO_Seek(n) \/ FILEIO_Remove(n)
    \/ \E n, m \in Names : FILEIO_Rename(n, m)
    \/ FILEIO_DriveMount

Spec == Init /\ [][Next]_vars

-----------------------------------------------------------------------------
(***************************************************************************)
(* Through both buffers, the table and the directory, every call does to   *)
(* the bytes and the positions what the library promises: no call on one   *)
(* file changes another, what is written is what the program gave, all of  *)
(* it or nothing, and what is read is what was written.                    *)
(***************************************************************************)
Promised == INSTANCE Files WITH
    position <- [n \in Names |-> IF file[n].open THEN file[n].pos ELSE -1]

ImplementsFiles == Promised!FilesSpec

(***************************************************************************)
(* fileio.h, FILEIO_Flush: "ensure that data isn't lost in the event of a  *)
(* reset or power loss condition". Whatever is done after a flush, and     *)
(* wherever a call is cut short, what was flushed can be read from the     *)
(* card, until the file is removed or opened to be made empty.             *)
(***************************************************************************)
FlushedSurvives ==
    \A n \in Names : flushed[n] # NoFile =>
        LET there == OnCard(vol.card, n)
        IN  there # NoFile /\ IsPrefix(flushed[n], there)

(***************************************************************************)
(* Wherever a call is cut short, except while a file is removed, the       *)
(* entries on the card describe whole files of clusters of their own.      *)
(***************************************************************************)
CardSound == card # "torn" => Sound(vol.card)

(***************************************************************************)
(* No call that runs to its end loses a cluster: what is not free belongs  *)
(* to a file, also after a disk full or a file that could not be created.  *)
(***************************************************************************)
NoLostCluster ==
    card = "whole" => LinkedClusters(Cached(vol)) = FileClusters(Cached(vol))

(***************************************************************************)
(* fileio.h:162, the size in a file object is "The size of the file": a    *)
(* program that rewrites what is in a file does not make it longer than    *)
(* its clusters are.                                                       *)
(***************************************************************************)
SizeIsLength ==
    \A n \in Names : file[n].open => Len(content[n]) = file[n].size
=============================================================================
