-------------------------------- MODULE SdSpi --------------------------------
(***************************************************************************)
(* The SD card driver sd_spi.c, a command or a poll of the card at a time, *)
(* and the card: of version 1, of standard capacity or of high capacity;   *)
(* it may be pulled out, another one put in, and the board reset, at any   *)
(* moment. Sectors are read and written one at a time, as SectorRead and   *)
(* SectorWrite do. The size of the card (its CSD) is left out.             *)
(***************************************************************************)
EXTENDS Integers

CONSTANTS
    SECTORS,            \* sectors of a card
    Data,               \* what a program writes to a sector
    BLOCK,              \* bytes of a sector: 512
    TRIES,              \* of a command: 100 (CMD0), 0x1FFF, 0xFFFF, 20 (CMD9)
    POLLS               \* for a token: 0x40000, of a busy card: 0xA0000

SdSpiAssumption ==
    /\ SECTORS \in Nat \ {0} /\ BLOCK \in Nat \ {0, 1}
    /\ TRIES \in Nat \ {0} /\ POLLS \in Nat \ {0}

VARIABLES
    card,               \* its kind, what it is doing, for which sector
    cells,              \* its sectors
    pc,                 \* what the driver does next
    call,               \* the call and its arguments
    count,              \* timeout, longTimeoutCounter or WriteTimeout
    gSDMode, gSDMediaState, errorCode,
    selected,           \* is the card's chip select asserted?
    mounted,            \* did the last FILEIO_SD_MediaInitialize succeed?
    answer,             \* what the last call returned
    left                \* history: was a card pulled or put in during the call?

cardVars == <<card, cells>>
globals == <<gSDMode, gSDMediaState, errorCode>>
vars == <<cardVars, pc, call, count, globals, selected, mounted, answer, left>>

NoSector == -1
NewCard(kind) == [kind |-> kind, phase |-> "native", sector |-> NoSector, data |-> "torn"]
Cards == {NewCard(kind) : kind \in {"v1", "sc", "hc"}}
NoCard == NewCard("none")

In(phase) == [card EXCEPT !.phase = phase]

(* The sector that is being written. *)
Writing == IF card.phase \in {"receiving", "programming"} THEN {card.sector} ELSE {}

Sectors == INSTANCE Sectors WITH medium <- cells, pending <- Writing
Sector == Sectors!Sector
Torn == Sectors!Torn

Init ==
    /\ \/ card \in Cards /\ cells \in [Sector -> Data]
       \/ card = NoCard /\ cells = <<>>
    /\ pc = "idle" /\ call = Sectors!NoCall /\ count = 0
    /\ gSDMode = "NORMAL" /\ gSDMediaState = "NOT_INITIALIZED" /\ errorCode = FALSE
    /\ selected = FALSE /\ mounted = FALSE
    /\ answer = Sectors!Failed /\ left = FALSE

-----------------------------------------------------------------------------
(* The card. What it is sent it answers with "idle" (1), "ok" (0), an      *)
(* "error", or not at all: "none".                                         *)
R1 == {"idle", "ok", "error", "none"}

(* The sector a card takes an address for. *)
Addressed(addr) ==
    {s \in Sector : addr = IF card.kind = "hc" THEN s ELSE s * BLOCK}

(* Nobody is there, or it has not been reset since it has power. *)
Silent(cmd, r1) ==
    /\ card.kind = "none" \/ (card.phase = "native" /\ cmd # "GO_IDLE_STATE")
    /\ r1 = "none"
    /\ UNCHANGED cardVars

GoesIdle(cmd, r1) ==
    /\ card.kind # "none" /\ cmd = "GO_IDLE_STATE"
    /\ r1 = "idle" /\ card' = [In("idle") EXCEPT !.sector = NoSector]
    /\ cells' \in {cells} \cup {[cells EXCEPT ![s] = Torn] : s \in Writing}

(* SEND_OP_COND is CMD1 and SD_SEND_OP_COND is ACMD41; a card of high      *)
(* capacity does not start with the first.                                 *)
Initializes(cmd, r1) ==
    /\ card.phase = "idle" /\ cmd # "GO_IDLE_STATE"
    /\ \/ cmd = "SEND_IF_COND" /\ r1 = (IF card.kind = "v1" THEN "error" ELSE "idle") /\ UNCHANGED card
       \/ cmd \in {"SEND_OP_COND", "SD_SEND_OP_COND"} /\ r1 = "idle" /\ UNCHANGED card
       \/ /\ cmd = "SD_SEND_OP_COND" \/ (cmd = "SEND_OP_COND" /\ card.kind # "hc")
          /\ r1 = "ok" /\ card' = In("ready")
       \/ cmd = "READ_OCR" /\ r1 = "idle" /\ UNCHANGED card
       \/ /\ cmd \notin {"SEND_IF_COND", "SEND_OP_COND", "SD_SEND_OP_COND", "READ_OCR"}
          /\ r1 = "error" /\ UNCHANGED card
    /\ UNCHANGED cells

Serves(cmd, addr, r1) ==
    /\ card.phase = "ready"
    /\ \/ /\ cmd \in {"READ_SINGLE_BLOCK", "WRITE_SINGLE_BLOCK"} /\ r1 = "ok"
          /\ \E s \in Addressed(addr) :
                card' = [In(IF cmd = "READ_SINGLE_BLOCK" THEN "reading" ELSE "receiving")
                            EXCEPT !.sector = s, !.data = Torn]
       \/ /\ cmd \in {"READ_SINGLE_BLOCK", "WRITE_SINGLE_BLOCK"} /\ r1 = "error"
          /\ Addressed(addr) = {} /\ UNCHANGED card
       \/ cmd \in {"SEND_OP_COND", "SD_SEND_OP_COND", "READ_OCR", "SEND_CSD"} /\ r1 = "ok" /\ UNCHANGED card
       \/ cmd \in {"SEND_IF_COND", "STOP_TRANSMISSION"} /\ r1 = "error" /\ UNCHANGED card
    /\ UNCHANGED cells

(* A card that reads hears a stop, and perhaps a reset, but nothing else;  *)
(* what it sends is taken for an answer.                                   *)
Sends(cmd, r1) ==
    /\ card.phase = "reading"
    /\ IF cmd = "STOP_TRANSMISSION" THEN r1 = "ok" /\ card' = In("ready")
       ELSE r1 \in {"ok", "error", "none"} /\ card' \in {card, In("ready")}
    /\ UNCHANGED cells

(* A command is data to a card that waits for data.                        *)
Swallows(cmd, r1) ==
    /\ card.phase = "receiving"
    /\ r1 \in {"error", "none"}
    /\ card' \in {card, In("programming")}
    /\ UNCHANGED cells

(* The busy token of a card that programs is 0, the answer of success;     *)
(* STOP_TRANSMISSION waits for its end.                                    *)
Busy(cmd, r1) ==
    /\ card.phase = "programming"
    /\ r1 = "ok"
    /\ UNCHANGED cardVars

Answers(cmd, addr, r1) ==
    \/ Silent(cmd, r1) \/ GoesIdle(cmd, r1) \/ Initializes(cmd, r1)
    \/ Serves(cmd, addr, r1) \/ Sends(cmd, r1) \/ Swallows(cmd, r1) \/ Busy(cmd, r1)

(* A byte that is read: the token that starts a block or one of an error,  *)
(* the busy token, or the level of an idle line.                           *)
Polled(byte) ==
    /\ \/ card.phase = "reading" /\ byte \in {"start", "high"} /\ UNCHANGED card
       \/ card.phase = "reading" /\ byte = "error" /\ card' = In("ready")
       \/ card.phase = "programming" /\ byte = "busy" /\ UNCHANGED card
       \/ card.phase \notin {"reading", "programming"} /\ byte = "high" /\ UNCHANGED card
    /\ UNCHANGED cells

Bytes == {"start", "error", "busy", "high"}

Block == IF card.phase = "reading" THEN cells[card.sector] ELSE "high"

(* It programs the block it accepted, unless the block was cut short.      *)
Programmed ==
    /\ card.phase = "programming"
    /\ card' = In("ready") /\ cells' = [cells EXCEPT ![card.sector] = card.data]
    /\ UNCHANGED <<pc, call, count, globals, selected, mounted, answer, left>>

-----------------------------------------------------------------------------
(* The driver. *)
SendCmd(cmd, addr, r1) == r1 \in R1 /\ Answers(cmd, addr, r1)

Call(c) ==
    /\ pc = "idle" /\ (c.kind = "initialize" \/ mounted)
    /\ pc' = c.kind /\ call' = c
    /\ answer' = Sectors!Failed /\ left' = FALSE
    /\ UNCHANGED <<cardVars, count, globals, selected, mounted>>

Return(result) ==
    /\ pc' = "idle" /\ call' = Sectors!NoCall /\ answer' = result /\ count' = 0
    /\ UNCHANGED left

Goto(next) ==
    /\ pc' = next
    /\ UNCHANGED <<call, answer, left>>

Becomes(state) == gSDMediaState' = state /\ UNCHANGED <<gSDMode, errorCode, mounted>>

(* Slip: a poll is not counted.                                            *)
SlipCountPoll == count

CountPoll == count - 1

Deselect == selected' = FALSE /\ Becomes("READY_FOR_COMMAND")

(* Cards of standard capacity count in bytes. A sector of theirs is below  *)
(* 2^23, so that its address fits.                                         *)
Address(s) == IF gSDMode = "NORMAL" THEN s * BLOCK ELSE s

(* FILEIO_SD_AsyncReadTasks. *)
ReadQueued ==
    /\ pc = "read"
    /\ selected' = TRUE /\ Becomes("BUSY")
    /\ \E r1 \in R1 :
          /\ SendCmd("READ_SINGLE_BLOCK", Address(call.sector), r1)
          /\ IF r1 = "ok" THEN Goto("wait_start_token") /\ count' = POLLS
                          ELSE Goto("read_abort") /\ UNCHANGED count

WaitStartToken ==
    /\ pc = "wait_start_token"
    /\ \/ count = 0 /\ Goto("read_abort") /\ UNCHANGED <<cardVars, count>>
       \/ /\ count # 0 /\ count' = CountPoll
          /\ \E byte \in Bytes :
                /\ Polled(byte)
                /\ Goto(CASE byte = "start" -> "new_packet_ready"
                          [] byte = "high" -> pc
                          [] OTHER -> "read_abort")
    /\ UNCHANGED <<globals, selected, mounted>>

(* The packet, and the next call, which finds that no bytes remain.        *)
NewPacketReady ==
    /\ pc = "new_packet_ready"
    /\ Return([ok |-> TRUE, buffer |-> Block])
    /\ card' = IF card.phase = "reading" THEN In("ready") ELSE card
    /\ Deselect /\ UNCHANGED cells

(* Slip: the card is not told that nobody waits for the sector any more.   *)
SlipReadAbort ==
    /\ pc = "read_abort"
    /\ Return(Sectors!Failed) /\ Deselect
    /\ UNCHANGED cardVars

ReadAbort ==
    /\ pc = "read_abort"
    /\ \E r1 \in R1 : SendCmd("STOP_TRANSMISSION", 0, r1)
    /\ Return(Sectors!Failed) /\ Deselect

(* FILEIO_SD_AsyncWriteTasks. A command that was refused is returned from  *)
(* at once.                                                                *)
WriteQueued ==
    /\ pc = "write"
    /\ \/ /\ call.sector = 0 /\ ~call.allowWriteToZero
          /\ Return(Sectors!Failed)
          /\ UNCHANGED <<cardVars, globals, selected, mounted>>
       \/ /\ call.sector # 0 \/ call.allowWriteToZero
          /\ selected' = TRUE /\ Becomes("BUSY")
          /\ \E r1 \in R1 :
                /\ SendCmd("WRITE_SINGLE_BLOCK", Address(call.sector), r1)
                /\ IF r1 = "ok" THEN Goto("transmit_packet") /\ UNCHANGED count
                                ELSE Return(Sectors!Failed)

TransmitPacket ==
    /\ pc = "transmit_packet"
    /\ \/ /\ card.phase = "receiving"
          /\ card' = [In("programming") EXCEPT !.data = call.data]
          /\ Goto("media_busy") /\ count' = POLLS
       \/ /\ card' = IF card.phase = "receiving" THEN In("ready") ELSE card
          /\ Goto("write_abort") /\ UNCHANGED count
    /\ UNCHANGED <<cells, globals, selected, mounted>>

WriteMediaBusy ==
    /\ pc = "media_busy"
    /\ \/ /\ count = 0 /\ Goto("write_abort")
          /\ UNCHANGED <<cardVars, count, globals, selected, mounted>>
       \/ /\ count # 0 /\ Polled("busy") /\ count' = CountPoll
          /\ Goto("media_busy") /\ UNCHANGED <<globals, selected, mounted>>
       \/ /\ count # 0 /\ \E byte \in Bytes \ {"busy"} : Polled(byte)
          /\ Return([ok |-> TRUE]) /\ Deselect

WriteAbort ==
    /\ pc = "write_abort"
    /\ \E r1 \in R1 : SendCmd("STOP_TRANSMISSION", 0, r1)
    /\ Return(Sectors!Failed) /\ Deselect

-----------------------------------------------------------------------------
(* FILEIO_SD_MediaInitialize.                                              *)
Initialize ==
    /\ pc = "initialize"
    /\ gSDMediaState' = "NOT_INITIALIZED" /\ errorCode' = FALSE /\ gSDMode' = "NORMAL"
    /\ count' = TRIES /\ Goto("go_idle_state")
    /\ selected' = FALSE
    /\ UNCHANGED <<cardVars, mounted>>

GivesUp ==
    /\ errorCode' = TRUE /\ mounted' = FALSE
    /\ Return(Sectors!Failed)

(* The last of the attempts does not count, even if it succeeds.           *)
GoIdleState ==
    /\ pc = "go_idle_state"
    /\ count' = count - 1
    /\ \E r1 \in R1 :
          /\ SendCmd("GO_IDLE_STATE", 0, r1)
          /\ Goto(IF count' = 0 THEN "stop" ELSE IF r1 = "idle" THEN "send_if_cond" ELSE pc)
    /\ UNCHANGED <<globals, selected, mounted>>

Recover ==
    /\ pc = "stop"
    /\ \E r1 \in R1 : SendCmd("STOP_TRANSMISSION", 0, r1)
    /\ Goto("go_idle_again")
    /\ UNCHANGED <<count, globals, selected, mounted>>

GoIdleAgain ==
    /\ pc = "go_idle_again"
    /\ \E r1 \in R1 :
          /\ SendCmd("GO_IDLE_STATE", 0, r1)
          /\ IF r1 = "idle" THEN Goto("send_if_cond") /\ UNCHANGED <<count, errorCode, mounted>>
                            ELSE GivesUp
    /\ UNCHANGED <<gSDMode, gSDMediaState, selected>>

SendIfCond ==
    /\ pc = "send_if_cond"
    /\ count' = TRIES
    /\ \E r1 \in R1 :
          /\ SendCmd("SEND_IF_COND", 0, r1)
          /\ Goto(IF r1 = "idle" THEN "sd_send_op_cond" ELSE "send_op_cond")
    /\ UNCHANGED <<globals, selected, mounted>>

SdSendOpCond ==
    /\ pc = "sd_send_op_cond"
    /\ count' = count - 1
    /\ \E r1 \in R1 :
          /\ SendCmd("SD_SEND_OP_COND", 0, r1)
          /\ Goto(IF r1 = "ok" \/ count' = 0 THEN "read_ocr" ELSE pc)
          /\ errorCode' = (r1 # "ok" /\ count' = 0)
    /\ UNCHANGED <<gSDMode, gSDMediaState, selected, mounted>>

(* Bit 30 is set by a card of high capacity, and by an idle line.          *)
ReadOcr ==
    /\ pc = "read_ocr"
    /\ \E r1 \in R1 :
          /\ SendCmd("READ_OCR", 0, r1)
          /\ gSDMode' = IF r1 = "none" \/ (card.kind = "hc" /\ card.phase = "ready")
                        THEN "HC" ELSE "NORMAL"
    /\ count' = TRIES /\ Goto("send_csd")
    /\ UNCHANGED <<gSDMediaState, errorCode, selected, mounted>>

SendOpCond ==
    /\ pc = "send_op_cond"
    /\ \E r1 \in R1 :
          /\ SendCmd("SEND_OP_COND", 0, r1)
          /\ IF r1 # "ok" /\ count > 1
             THEN count' = count - 1 /\ Goto(pc) /\ UNCHANGED errorCode
             ELSE count' = TRIES /\ Goto("send_csd") /\ errorCode' = (count = 1)
    /\ UNCHANGED <<gSDMode, gSDMediaState, selected, mounted>>

SendCsd ==
    /\ pc = "send_csd"
    /\ \E r1 \in R1 :
          /\ SendCmd("SEND_CSD", 0, r1)
          /\ IF count = 1 THEN GivesUp /\ selected' = FALSE
             ELSE /\ Goto(IF r1 = "ok" THEN "initialized" ELSE pc)
                  /\ count' = count - 1 /\ selected' = TRUE
                  /\ UNCHANGED <<errorCode, mounted>>
    /\ UNCHANGED <<gSDMode, gSDMediaState>>

(* The answers to CRC_ON_OFF and SET_BLOCK_LENGTH are not looked at.       *)
Initialized ==
    /\ pc = "initialized"
    /\ gSDMediaState' = IF errorCode THEN gSDMediaState ELSE "READY_FOR_COMMAND"
    /\ mounted' = ~errorCode /\ Return([ok |-> ~errorCode])
    /\ selected' = FALSE
    /\ UNCHANGED <<cardVars, gSDMode, errorCode>>

MediaDeinitialize ==
    /\ pc = "idle" /\ mounted
    /\ gSDMediaState' = "NOT_INITIALIZED" /\ selected' = FALSE /\ mounted' = FALSE
    /\ UNCHANGED <<cardVars, pc, call, count, gSDMode, errorCode, answer, left>>

-----------------------------------------------------------------------------
Driver ==
    \/ ReadQueued \/ WaitStartToken \/ NewPacketReady \/ ReadAbort
    \/ WriteQueued \/ TransmitPacket \/ WriteMediaBusy \/ WriteAbort
    \/ Initialize \/ GoIdleState \/ Recover \/ GoIdleAgain \/ SendIfCond
    \/ SdSendOpCond \/ ReadOcr \/ SendOpCond \/ SendCsd \/ Initialized

(* The card is pulled out, or one is put in.                               *)
Swapped ==
    /\ IF card = NoCard THEN card' \in Cards /\ cells' \in [Sector -> Data]
                        ELSE card' = NoCard /\ cells' = <<>>
    /\ left' = TRUE
    /\ UNCHANGED <<pc, call, count, globals, selected, mounted, answer>>

(* The board starts anew, the card keeps its power.                        *)
Reset ==
    /\ pc' = "idle" /\ call' = Sectors!NoCall /\ count' = 0
    /\ gSDMode' = "NORMAL" /\ gSDMediaState' = "NOT_INITIALIZED" /\ errorCode' = FALSE
    /\ selected' = FALSE /\ mounted' = FALSE /\ answer' = Sectors!Failed
    /\ UNCHANGED <<cardVars, left>>

Next ==
    \/ \E c \in Sectors!Calls : Call(c)
    \/ Driver \/ MediaDeinitialize
    \/ Programmed \/ Swapped \/ Reset

Spec == Init /\ [][Next]_vars

(* The driver runs; nothing is asked of the card.                          *)
FairSpec == Spec /\ WF_vars(Driver)

-----------------------------------------------------------------------------
(***************************************************************************)
(* A sector that was read is the sector that was asked for, a sector that  *)
(* was written is on the card, and a write that timed out never reaches a  *)
(* sector after a later call has succeeded: although the card may come to  *)
(* an answer after the driver gave up, its busy token passes for success,  *)
(* another card may be in the slot, and the board may have been reset.     *)
(***************************************************************************)
ImplementsSectors == Sectors!SectorsSpec

(***************************************************************************)
(* sd_spi.c:571-572, "this won't be a totally infinite blocking loop": every   *)
(* call returns, whatever the card does or fails to do.                    *)
(***************************************************************************)
CallsReturn == (pc # "idle") ~> (pc = "idle")

(***************************************************************************)
(* sd_spi.c:943-945, a write that failed "will try to put the media back in a  *)
(* default state, ready for a new command": no call leaves the card        *)
(* selected or the driver busy when it returns.                            *)
(***************************************************************************)
CardIsReleased == pc = "idle" => ~selected /\ gSDMediaState # "BUSY"
=============================================================================
