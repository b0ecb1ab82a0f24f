------------------------------- MODULE MCSpiBus -------------------------------
(***************************************************************************)
(* The three peripherals on SPI channel 2, one of them in a behaviour:     *)
(*  - the codec, which the player feeds: a file of up to two and a half    *)
(*    buffers, a buffer that is not a multiple of what is fed at once, a   *)
(*    codec that takes two feeds;                                          *)
(*  - the serial flash: three sectors of one page of two bytes, bytes of   *)
(*    one bit, and writes of up to four bytes: within a page, across one   *)
(*    and two ends of a page, and across the end of the memory, to bytes   *)
(*    that were erased and to bytes that were not;                         *)
(*  - the SD card: three sectors, so that one is at the address of another *)
(*    when bytes are taken for blocks, and time-outs after two tries.      *)
(***************************************************************************)
EXTENDS SoundPlayer

CONSTANTS BITS, SIZE, SECTOR, PAGE, WRITES
VARIABLES array, wip, wel, bp, at, op, counter, ret, before, locked

flash == <<array, wip, wel, bp, at, op, counter, ret, before, locked>>
F == INSTANCE M25P80 WITH cells <- array, pc <- at

CONSTANTS SECTORS, Data, BLOCK, TRIES, POLLS
VARIABLES slot, cells, step, call, timeout, gSDMode, gSDMediaState, errorCode,
          selected, mounted, answer, left

storage == <<slot, cells, step, call, timeout, gSDMode, gSDMediaState, errorCode,
             selected, mounted, answer, left>>
C == INSTANCE SdSpi WITH card <- slot, pc <- step, count <- timeout

ASSUME BusAssumption == F!ChipAssumption /\ C!SdSpiAssumption

VARIABLE does       \* "codec", "flash" or "card"

BusInit ==
    /\ does \in {"codec", "flash", "card"}
    /\ Init /\ F!Init /\ C!Init
    /\ does # "flash" => array = [a \in F!Address |-> {}] /\ ~bp
    /\ does # "card" => slot = C!NoCard

BusNext ==
    /\ UNCHANGED does
    /\ \/ does = "codec" /\ Next /\ UNCHANGED <<flash, storage>>
       \/ does = "flash" /\ F!Next /\ UNCHANGED <<vars, storage>>
       \/ does = "card" /\ C!Next /\ UNCHANGED <<vars, flash>>

BusSpec ==
    /\ BusInit /\ [][BusNext]_<<does, vars, flash, storage>>
    /\ WF_vars(does = "codec" /\ CodecCallBack /\ UNCHANGED <<does, flash, storage>>)
    /\ WF_vars(does = "codec" /\ Drain /\ UNCHANGED <<does, flash, storage>>)
    /\ WF_flash(does = "flash" /\ F!Driver /\ UNCHANGED <<does, vars, storage>>)
    /\ WF_flash(does = "flash" /\ F!Complete /\ UNCHANGED <<does, vars, storage>>)
    /\ WF_storage(does = "card" /\ C!Driver /\ UNCHANGED <<does, vars, flash>>)

-----------------------------------------------------------------------------
ImplementsMemory == F!ImplementsMemory
ImplementsSectors == C!ImplementsSectors
CardIsReleased == C!CardIsReleased

(***************************************************************************)
(* Every call of the flash driver and of the card driver returns.          *)
(***************************************************************************)
EveryCallReturns == F!CallsReturn /\ C!CallsReturn
=============================================================================
