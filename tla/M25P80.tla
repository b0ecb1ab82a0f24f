-------------------------------- MODULE M25P80 --------------------------------
(***************************************************************************)
(* The serial flash driver drv_nvm_flash_spi_m25p80.c and the flash chip   *)
(* behind it: a chip that ignores what it is sent while it is busy or not  *)
(* write-enabled, and that wraps a program within its page. Main is the    *)
(* only user of the SPI channel, so its lock is always free.               *)
(***************************************************************************)
EXTENDS Integers, Sequences

CONSTANTS
    BITS, SIZE, SECTOR,
    PAGE,               \* bytes programmed at once: 256
    WRITES              \* bound: the bytes of a write

ChipAssumption ==
    /\ SECTOR \in Nat \ {0} /\ SIZE \in Nat \ {0} /\ PAGE \in Nat \ {0}
    /\ SIZE % SECTOR = 0 /\ SECTOR % PAGE = 0
    /\ WRITES \in 0..SIZE-1

VARIABLES
    cells,              \* the memory array
    wip, wel, bp,       \* status: write in progress, write enabled, protected
    pc,                 \* where the driver is
    op,                 \* the call and its arguments
    counter,            \* local of DRV_NVM_M25P80_Write
    ret,                \* what it returned
    before, locked      \* history: the array and its protection when the
                        \* call was made

chip == <<cells, wip, wel, bp>>
history == <<before, locked>>
vars == <<chip, pc, op, counter, ret, history>>

Byte == SUBSET BITS
Address == 0..SIZE-1

Calls ==
    [kind : {"write"}, addr : Address,
     data : UNION {[1..n -> Byte] : n \in 0..WRITES}]
    \cup [kind : {"sector", "chip"}, addr : Address, data : {<<>>}]

NoCall == [kind |-> "none", addr |-> 0, data |-> <<>>]

Init ==
    /\ cells \in [Address -> Byte]
    /\ wip = FALSE /\ wel = FALSE /\ bp \in BOOLEAN
    /\ pc = "idle" /\ op = NoCall /\ counter = 0 /\ ret = TRUE
    /\ before = cells /\ locked = bp

-----------------------------------------------------------------------------
(* What the chip makes of a command. *)
WriteEnable == wel' = IF wip THEN wel ELSE TRUE

Accepts == wel /\ ~wip

(* The bytes of a program that runs over the end of its page wrap to the   *)
(* beginning of the page.                                                  *)
InPage(a, addr, n) ==
    a \div PAGE = addr \div PAGE /\ (a - addr) % PAGE < n

Programmed(addr, data) ==
    [a \in Address |->
        IF InPage(a, addr, Len(data))
          THEN cells[a] \cap data[((a - addr) % PAGE) + 1]
          ELSE cells[a]]

Complete ==
    /\ wip
    /\ wip' = FALSE /\ wel' = FALSE
    /\ UNCHANGED <<cells, bp, pc, op, counter, ret, history>>

(***************************************************************************)
(* CheckWriteInProgress reads SPI channel 2 & 1, which is no channel and   *)
(* always reads 0. ReadStatusRegister & 1 (IsWriteBusy) is the real bit.   *)
(***************************************************************************)
CheckWriteInProgress == 0

IsWriteBusy == wip

-----------------------------------------------------------------------------
(* The driver. Calls start when it is idle.                                *)
Call(c) ==
    /\ pc = "idle"
    /\ op' = c /\ counter' = 0
    /\ pc' = IF c.kind = "write" THEN "check" ELSE "status"
    /\ UNCHANGED <<chip, ret, history>>

Return ==
    /\ pc' = "idle" /\ op' = NoCall /\ counter' = 0
    /\ before' = cells /\ locked' = bp

More == counter < Len(op.data)

Check ==
    /\ pc = "check"
    /\ CheckWriteInProgress # 1
    /\ WriteEnable
    /\ IF More THEN pc' = "enable" /\ UNCHANGED <<op, counter, ret, history>>
               ELSE Return /\ ret' = TRUE
    /\ UNCHANGED <<cells, wip, bp>>

Enable ==
    /\ pc = "enable"
    /\ WriteEnable
    /\ pc' = IF op.kind = "write" THEN "program" ELSE "erase"
    /\ UNCHANGED <<cells, wip, bp, op, counter, ret, history>>

(* Slips: the room in a page is one byte short, or taken for a whole page. *)
SlipRoomShort(addr) == PAGE - 1 - (addr % PAGE)
SlipRoomWhole(addr) == PAGE

Room(addr) == PAGE - (addr % PAGE)

SendCount ==
    LET room == Room((op.addr + counter) % SIZE)
        left == Len(op.data) - counter
    IN  IF room > left THEN left ELSE room

Program ==
    /\ pc = "program"
    /\ IF Accepts /\ ~bp
         THEN /\ cells' = Programmed((op.addr + counter) % SIZE,
                              SubSeq(op.data, counter + 1, counter + SendCount))
              /\ wip' = TRUE
         ELSE UNCHANGED <<cells, wip>>
    /\ pc' = "written"
    /\ UNCHANGED <<wel, bp, op, counter, ret, history>>

(* ENABLE_M25P80_WRITE_VERIFICATION: the bytes sent are read back.         *)
ReadByte(addr) == cells[addr % SIZE]

(* Slip: the address to read at stays at the first byte.                   *)
SlipVerified ==
    \A i \in 1..SendCount : op.data[counter + i] = ReadByte(op.addr + counter)

Verified ==
    \A i \in 1..SendCount : op.data[counter + i] = ReadByte(op.addr + counter + i - 1)

(* The end of WriteSector, and the next round of the loop around it: the   *)
(* page is done, and read back while nothing else is on the bus.           *)
Written ==
    /\ pc = "written"
    /\ ~IsWriteBusy
    /\ IF Verified /\ counter + SendCount < Len(op.data)
         THEN /\ counter' = counter + SendCount
              /\ pc' = "enable"
              /\ UNCHANGED <<op, ret, history>>
         ELSE Return /\ ret' = Verified
    /\ UNCHANGED chip

(* WriteStatusRegister(0): write enable, then the new status.              *)
WriteStatusRegister ==
    /\ pc = "status"
    /\ wel' = TRUE /\ wip' = TRUE /\ bp' = FALSE
    /\ pc' = "unprotected"
    /\ UNCHANGED <<cells, op, counter, ret, history>>

StatusWritten ==
    /\ pc = "unprotected"
    /\ ~IsWriteBusy
    /\ pc' = "enable"
    /\ UNCHANGED <<chip, op, counter, ret, history>>

Erase ==
    /\ pc = "erase"
    /\ IF Accepts /\ ~bp
         THEN /\ cells' = [a \in Address |->
                    IF op.kind = "chip" \/ a \div SECTOR = op.addr \div SECTOR
                      THEN BITS ELSE cells[a]]
              /\ wip' = TRUE
         ELSE UNCHANGED <<cells, wip>>
    /\ pc' = IF op.kind = "chip" THEN "bulk" ELSE "erased"
    /\ UNCHANGED <<wel, bp, op, counter, ret, history>>

(* ChipErase asks CheckWriteInProgress first and the chip itself then.     *)
BulkChecked ==
    /\ pc = "bulk"
    /\ CheckWriteInProgress # 1
    /\ pc' = "erased"
    /\ UNCHANGED <<chip, op, counter, ret, history>>

EraseDone ==
    /\ pc = "erased"
    /\ ~IsWriteBusy
    /\ Return
    /\ UNCHANGED <<chip, ret>>

Driver ==
    \/ Check \/ Enable \/ Program \/ Written
    \/ WriteStatusRegister \/ StatusWritten
    \/ Erase \/ BulkChecked \/ EraseDone

Next == (\E c \in Calls : Call(c)) \/ Driver \/ Complete

Spec == Init /\ [][Next]_vars

(* The driver runs, and the chip completes what it has started.            *)
FairSpec == Spec /\ WF_vars(Driver) /\ WF_vars(Complete)

-----------------------------------------------------------------------------
(***************************************************************************)
(* Every call does what FlashCalls says, as if at once: no command is      *)
(* lost on a busy or a write-protected chip, no byte of a write that       *)
(* crosses pages ends up elsewhere, and a write stops after the first page *)
(* that does not read back, and only then, and says so.                    *)
(***************************************************************************)
Memory == INSTANCE FlashCalls WITH mem <- before
ImplementsMemory == Memory!CallsSpec

(***************************************************************************)
(* Every call returns.                                                     *)
(***************************************************************************)
CallsReturn == (pc # "idle") ~> (pc = "idle")

(***************************************************************************)
(* drv_nvm_flash_spi_m25p80.c:502, "wait for BULK ERASE to be done": when  *)
(* the wait is over the chip is no longer busy.                            *)
(***************************************************************************)
BulkEraseAwaited == [][pc = "bulk" /\ pc' # "bulk" => ~wip]_vars
=============================================================================
