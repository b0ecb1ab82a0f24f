----------------------------- MODULE FlashMemory ------------------------------
(***************************************************************************)
(* What the serial flash promises to a program that uses it through        *)
(* DRV_NVM_M25P80_*: bytes whose bits a write can only clear, and sectors  *)
(* that an erase sets, lifting the protection of the chip, which makes     *)
(* writes do nothing. A write goes on page by page up to a page that does  *)
(* not read back as it was sent, and says whether there was one. A byte is *)
(* the set of its bits that are one.                                       *)
(***************************************************************************)
EXTENDS Integers

CONSTANTS
    BITS,
    SIZE, SECTOR, PAGE  \* a whole number of sectors, and of pages in each

VARIABLES
    mem,
    locked,     \* is the chip protected?
    ret         \* did the last write succeed?

memoryVars == <<mem, locked, ret>>

Byte == SUBSET BITS
Erased == BITS
Address == 0..SIZE-1

(* Where the bytes of a write go, past the end at the beginning; which of  *)
(* them goes to an address; what programming leaves of them; those that do *)
(* not read back.                                                          *)
Place(addr, i) == (addr + i - 1) % SIZE
Index(addr, a) == ((a - addr) % SIZE) + 1
Left(addr, data, i) ==
    IF locked THEN mem[Place(addr, i)] ELSE mem[Place(addr, i)] \cap data[i]
Bad(addr, data) == {i \in DOMAIN data : Left(addr, data, i) # data[i]}

(* A byte is programmed unless a page begins between a bad one and it.     *)
Reached(addr, data) ==
    {i \in DOMAIN data :
        \A j \in Bad(addr, data), k \in 1..i : k > j => Place(addr, k) % PAGE # 0}

SectorErased(m, addr) ==
    [a \in Address |-> IF a \div SECTOR = addr \div SECTOR THEN Erased ELSE m[a]]

AllErased == [a \in Address |-> Erased]

MemoryInit == mem \in [Address -> Byte] /\ locked \in BOOLEAN /\ ret = TRUE

Write(addr, data) ==
    /\ mem' = [a \in Address |->
                  IF Index(addr, a) \in Reached(addr, data)
                    THEN Left(addr, data, Index(addr, a)) ELSE mem[a]]
    /\ ret' = (Bad(addr, data) = {})
    /\ UNCHANGED locked

SectorErase(addr) == mem' = SectorErased(mem, addr) /\ locked' = FALSE /\ UNCHANGED ret

ChipErase == mem' = AllErased /\ locked' = FALSE /\ UNCHANGED ret
=============================================================================
