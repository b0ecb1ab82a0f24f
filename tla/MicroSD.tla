------------------------------- MODULE MicroSD -------------------------------
(***************************************************************************)
(* The file objects of micro_sd.c: SD_Initialize, SD_Open and SD_Close on  *)
(* top of the FILEIO library, and a program that uses them the way the     *)
(* demos do: it initializes while it holds no file, opens files once a     *)
(* card is mounted, and closes them with SD_Close or, as 5.1-Storage_Text  *)
(* does, with FILEIO_Close.                                                *)
(***************************************************************************)
EXTENDS Integers

CONSTANTS
    SD_MAX_FILES,       \* system_config.h: 1
    CLOSES              \* what the program closes its files with

(* The objects fit in the 64 Kbytes of the PIC24 many times over.          *)
ASSUME FilesAssumption ==
    /\ SD_MAX_FILES \in 1..2^14
    /\ CLOSES \subseteq {"SD_Close", "FILEIO_Close"}

VARIABLES
    files_lock,         \* is the file object taken?
    mounted,            \* is drive A mounted?
    held                \* how many open files of the program use the object

vars == <<files_lock, mounted, held>>

Files == 0..SD_MAX_FILES-1
sizeof_pointer == 2

(* Static storage. *)
Init ==
    /\ files_lock = [f \in Files |-> FALSE]
    /\ mounted = FALSE
    /\ held = [f \in Files |-> 0]

Free == {f \in Files : ~files_lock[f]}

(* Slip: the lock of the object is not looked at.                          *)
SlipAvail(f) == \A g \in Free : f <= g

(* _files_avail_get gives the first free one. *)
Avail(f) == f \in Free /\ \A g \in Free : f <= g

SD_Initialize ==
    /\ \A f \in Files : held[f] = 0
    /\ files_lock' = [f \in Files |-> FALSE]
    /\ mounted' \in BOOLEAN     \* is a card in, and can it be read?
    /\ UNCHANGED held

OpenNone ==
    /\ mounted
    /\ \A f \in Files : ~Avail(f)
    /\ UNCHANGED vars

OpenFound(f) ==
    /\ mounted /\ Avail(f)
    /\ files_lock' = [files_lock EXCEPT ![f] = TRUE]
    /\ held' = [held EXCEPT ![f] = @ + 1]
    /\ UNCHANGED mounted

OpenFails(f) ==
    /\ mounted /\ Avail(f)
    /\ files_lock' = [files_lock EXCEPT ![f] = TRUE]
    /\ UNCHANGED <<mounted, held>>

SD_Open == OpenNone \/ \E f \in Files : OpenFound(f) \/ OpenFails(f)

(* Slip: the slot is always the first.                                     *)
SlipIndex(f) == 0

(* (files-fp) / the size of a pointer, in unsigned 16-bit arithmetic.       *)
Index(f) == ((0 - f) % 2^16) \div sizeof_pointer

(* A write beyond the end of files_lock leaves files_lock alone.           *)
SD_Close(f) ==
    /\ "SD_Close" \in CLOSES
    /\ held[f] > 0
    /\ files_lock' = [g \in Files |-> IF g = Index(f) THEN FALSE ELSE files_lock[g]]
    /\ held' = [held EXCEPT ![f] = @ - 1]
    /\ UNCHANGED mounted

FILEIO_Close(f) ==
    /\ "FILEIO_Close" \in CLOSES
    /\ held[f] > 0
    /\ held' = [held EXCEPT ![f] = @ - 1]
    /\ UNCHANGED <<files_lock, mounted>>

Next ==
    \/ SD_Initialize
    \/ SD_Open
    \/ \E f \in Files : SD_Close(f) \/ FILEIO_Close(f)

Spec == Init /\ [][Next]_vars

-----------------------------------------------------------------------------
TypeOK ==
    /\ files_lock \in [Files -> BOOLEAN]
    /\ mounted \in BOOLEAN
    /\ held \in [Files -> Nat]

(***************************************************************************)
(* A file object the program holds stays locked, so it is never given out  *)
(* again, whichever objects are closed, in whichever order and way.        *)
(***************************************************************************)
HeldIsLocked == \A f \in Files : held[f] > 0 => files_lock[f]

(***************************************************************************)
(* SD_Open never returns a file object that is open already: two readers   *)
(* never share a position.                                                 *)
(***************************************************************************)
OpenedWasClosed == [][\A f \in Files : OpenFound(f) => held[f] = 0]_vars

-----------------------------------------------------------------------------
(***************************************************************************)
(* micro_sd.c:119, SD_Open returns NULL for want of an object, "close      *)
(* files left open": an object that is taken is a file left open.          *)
(***************************************************************************)
TakenIsOpen == \A f \in Files : files_lock[f] => held[f] > 0

(***************************************************************************)
(* micro_sd.c:119, "or increase the SD_MAX_FILES in system_config": a file *)
(* that is closed leaves its object free, when there are more of them.     *)
(***************************************************************************)
ClosedIsFree == [][\A f \in Files : SD_Close(f) => ~files_lock'[f]]_vars
=============================================================================
