------------------------------- MODULE FlashCopy ------------------------------
(***************************************************************************)
(* The loop of 5.4-Storage_Flash/main.c that copies a file from the card   *)
(* to the serial flash, piece by piece, and reads it back. The flash is    *)
(* the one FlashMemory describes.                                          *)
(***************************************************************************)
EXTENDS FlashMemory, Sequences

CONSTANTS
    DATA,               \* bytes of a piece: sizeof(data), 4096
    LENGTH              \* bound: the length of a file, at most SIZE

VARIABLES
    pc,                 \* where main is
    file, read,         \* the file, and how much of it has been read
    address, scount,    \* absolute address, count within a sector
    data                \* the piece in RAM

main == <<pc, file, read, address, scount, data>>
vars == <<memoryVars, main>>

Files == UNION {[1..n -> Byte] : n \in 0..LENGTH}

Init ==
    /\ MemoryInit
    /\ pc = "select" /\ file = <<>> /\ read = 0
    /\ address = 0 /\ scount = 0 /\ data = <<>>

Open ==
    /\ pc = "select"
    /\ file' \in Files
    /\ read' = 0 /\ address' = 0 /\ scount' = 0
    /\ pc' = "erase"
    /\ UNCHANGED <<memoryVars, data>>

Eof == read = Len(file)

AtStart == scount = 0

(* "erase sector at the beginning".                                        *)
EraseSector ==
    /\ pc = "erase" /\ ~Eof
    /\ IF AtStart THEN SectorErase(address) ELSE UNCHANGED memoryVars
    /\ pc' = "read"
    /\ UNCHANGED <<file, read, address, scount, data>>

ReadPiece ==
    /\ pc = "read"
    /\ LET last == IF read + DATA > Len(file) THEN Len(file) ELSE read + DATA
       IN  data' = SubSeq(file, read + 1, last) /\ read' = last
    /\ pc' = "write"
    /\ UNCHANGED <<memoryVars, file, address, scount>>

(* "roll over the counter within a sector".                                *)
RollOver(count) == IF count > SECTOR THEN 0 ELSE count

WritePiece ==
    /\ pc = "write"
    /\ Write(address, data)
    /\ address' = address + Len(data)
    /\ scount' = RollOver(scount + Len(data))
    /\ pc' = "erase"
    /\ UNCHANGED <<file, read, data>>

EndOfFile ==
    /\ pc = "erase" /\ Eof
    /\ pc' = "readback"
    /\ UNCHANGED <<memoryVars, file, read, address, scount, data>>

(* The bytes of 0..address-1 are shown, and the user selects a file again. *)
ReadBack ==
    /\ pc = "readback"
    /\ pc' = "select" /\ file' = <<>> /\ data' = <<>>
    /\ read' = 0 /\ address' = 0 /\ scount' = 0
    /\ UNCHANGED memoryVars

Next == Open \/ EraseSector \/ ReadPiece \/ WritePiece \/ EndOfFile \/ ReadBack

Spec == Init /\ [][Next]_vars

-----------------------------------------------------------------------------
(***************************************************************************)
(* main.c:67, "copy file to serial flash", main.c:93, "read back and       *)
(* display on terminal": what is read back is the file, whatever the flash *)
(* held before and however many sectors the file takes. (main.c:87 rolls   *)
(* the counter over a piece too late.)                                     *)
(***************************************************************************)
ReadsBack ==
    pc = "readback" =>
        address = Len(file) /\ \A i \in 1..Len(file) : mem[i - 1] = file[i]
=============================================================================
