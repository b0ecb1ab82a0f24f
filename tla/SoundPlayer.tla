----------------------------- MODULE SoundPlayer ------------------------------
(***************************************************************************)
(* Playing an MP3 file in the background, 6.4-Sound_Interrupt/main.c: main *)
(* sets up the codec and opens the file; from then on CodecCallBack, which *)
(* the Timer 3 interrupt calls, feeds the file to the VS1053 codec and     *)
(* flushes it at the end. Both use the card and the codec, and no lock.    *)
(* A step of main is possible only while the interrupt is not running.     *)
(***************************************************************************)
EXTENDS Integers, Sequences

CONSTANTS
    FILE,               \* bound: the length of a file
    BUFFER,             \* sizeof(buffer): 512
    FEED,               \* bytes CODEC_Feed sends: 32
    FLUSH,              \* bytes CODEC_Flush sends: 2048
    FIFO                \* bytes the codec holds: 2048

ASSUME PlayerAssumption ==
    /\ FILE \in Nat /\ BUFFER \in Nat \ {0}
    /\ FEED \in Nat \ {0} /\ FIFO \in Nat /\ FIFO >= FEED
    /\ FLUSH \in Nat /\ FLUSH >= FIFO

VARIABLES
    pc,                 \* where main is
    card,               \* is the card in?
    size, pos,          \* the open file: its length, what has been read
    fPLAY,
    isr,                \* CodecCallBack: "no", "run" or "flush"
    buffer, p, length,  \* its statics: the bytes, the next one, those left
    count,              \* local of CODEC_Flush
    fifo, played        \* the codec: what it holds, what it has played

sd == <<card, size, pos>>
statics == <<buffer, p, length>>
codec == <<fifo, played>>
vars == <<pc, sd, fPLAY, isr, statics, count, codec>>

(* A byte is its place in the file, from 1 on. *)
Silence == 0
Garbage == -1
Bytes(first, last) == [i \in 1..last-first+1 |-> first + i - 1]

Init ==
    /\ pc = "codec"
    /\ card = TRUE /\ size = 0 /\ pos = 0
    /\ fPLAY = FALSE /\ isr = "no"
    /\ buffer = <<>> /\ p = 1 /\ length = 0
    /\ count = 0
    /\ fifo = <<>> /\ played = <<>>

-----------------------------------------------------------------------------
(* main *)

(* Slip: playback is started before the file is opened.                    *)
SlipAfter(step) ==
    [codec |-> "mount", mount |-> "play", play |-> "open", open |-> "loop"][step]

After(step) ==
    [codec |-> "mount", mount |-> "open", open |-> "play", play |-> "loop"][step]

CodecInit ==
    /\ isr = "no" /\ pc = "codec"
    /\ pc' = After(pc)
    /\ UNCHANGED <<sd, fPLAY, isr, statics, count, codec>>

Mount ==
    /\ isr = "no" /\ pc = "mount" /\ card
    /\ pc' = After(pc)
    /\ UNCHANGED <<sd, fPLAY, isr, statics, count, codec>>

Open ==
    /\ isr = "no" /\ pc = "open"
    /\ size' \in 0..FILE /\ pos' = 0
    /\ pc' = After(pc)
    /\ UNCHANGED <<card, fPLAY, isr, statics, count, codec>>

OpenFails ==
    /\ isr = "no" /\ pc = "open"
    /\ pc' = "stop"
    /\ UNCHANGED <<sd, fPLAY, isr, statics, count, codec>>

Play ==
    /\ isr = "no" /\ pc = "play"
    /\ fPLAY' = TRUE
    /\ pc' = After(pc)
    /\ UNCHANGED <<sd, isr, statics, count, codec>>

Main == CodecInit \/ Mount \/ Open \/ OpenFails \/ Play

-----------------------------------------------------------------------------
(* The codec plays on its own and asks for data while FEED bytes fit.      *)
CODEC_DREQ == Len(fifo) + FEED <= FIFO

Drain ==
    /\ fifo # <<>>
    /\ fifo' = Tail(fifo) /\ played' = Append(played, Head(fifo))
    /\ UNCHANGED <<pc, sd, fPLAY, isr, statics, count>>

CardRemoved ==
    /\ card /\ card' = FALSE
    /\ UNCHANGED <<pc, size, pos, fPLAY, isr, statics, count, codec>>

-----------------------------------------------------------------------------
(* CodecCallBack, one pass of its loop at a time.                          *)
Interrupt ==
    /\ isr = "no" /\ fPLAY
    /\ isr' = "run"
    /\ UNCHANGED <<pc, sd, fPLAY, statics, count, codec>>

(* What SD_Read returns. *)
Available ==
    IF ~card THEN 0 ELSE IF size - pos < BUFFER THEN size - pos ELSE BUFFER

Refill ==
    /\ isr = "run" /\ length = 0 /\ Available > 0
    /\ length' = Available /\ pos' = pos + Available
    /\ buffer' = Bytes(pos + 1, pos + Available) /\ p' = 1
    /\ UNCHANGED <<pc, card, size, fPLAY, isr, count, codec>>

EndOfFile ==
    /\ isr = "run" /\ length = 0 /\ Available = 0
    /\ p' = 1
    /\ isr' = "flush" /\ count' = 0
    /\ UNCHANGED <<pc, sd, fPLAY, buffer, length, codec>>

(* Slip: 32 bytes are sent, however few are left.                          *)
SlipSent == FEED

(* Slip: a rest that is less than 32 bytes is never sent.                  *)
SlipWhole == IF length < FEED THEN 0 ELSE FEED

Sent == IF length < FEED THEN length ELSE FEED

CODEC_Feed ==
    /\ isr = "run" /\ length > 0
    /\ CODEC_DREQ
    /\ fifo' = fifo \o [i \in 1..Sent |->
                          IF p + i - 1 \in DOMAIN buffer THEN buffer[p + i - 1]
                                                         ELSE Garbage]
    /\ p' = p + Sent /\ length' = length - Sent
    /\ UNCHANGED <<pc, sd, fPLAY, isr, buffer, count, played>>

Full ==
    /\ isr = "run" /\ length > 0
    /\ ~CODEC_DREQ
    /\ isr' = "no"
    /\ UNCHANGED <<pc, sd, fPLAY, statics, count, codec>>

(* Slip: the codec is not flushed.                                         *)
SlipMoreSilence == FALSE

MoreSilence == count < FLUSH

CODEC_Flush ==
    /\ isr = "flush" /\ MoreSilence
    /\ CODEC_DREQ
    /\ fifo' = Append(fifo, Silence)
    /\ count' = count + 1
    /\ UNCHANGED <<pc, sd, fPLAY, isr, statics, played>>

Flushed ==
    /\ isr = "flush" /\ ~MoreSilence
    /\ fPLAY' = FALSE
    /\ isr' = "no" /\ count' = 0
    /\ UNCHANGED <<pc, sd, statics, codec>>

CodecCallBack ==
    \/ Interrupt \/ Refill \/ EndOfFile \/ CODEC_Feed \/ Full
    \/ CODEC_Flush \/ Flushed

Next == Main \/ CodecCallBack \/ Drain \/ CardRemoved

Spec == Init /\ [][Next]_vars

(* The timer goes on, the processor runs, the codec plays.                 *)
FairSpec == Spec /\ WF_vars(CodecCallBack) /\ WF_vars(Drain)

-----------------------------------------------------------------------------
(***************************************************************************)
(* Main and the interrupt never use the card and the codec at once.        *)
(***************************************************************************)
BusNotShared == isr # "no" => pc \notin {"codec", "mount", "open"}

(***************************************************************************)
(* The codec gets the bytes of the file in order, each once, then silence, *)
(* across the borders of the buffer and the ends of the interrupts.        *)
(***************************************************************************)
InOrder ==
    LET heard == played \o fifo
        sent == pos - length
    IN  /\ sent <= Len(heard)
        /\ \A i \in DOMAIN heard : heard[i] = IF i <= sent THEN i ELSE Silence

(***************************************************************************)
(* When playback is over the whole file has been played, and not just sent *)
(* to the codec, unless the card was removed.                              *)
(***************************************************************************)
AllPlayed ==
    pc = "loop" /\ ~fPLAY =>
        /\ \A i \in 1..Len(fifo) : fifo[i] = Silence
        /\ card => Len(played) >= size

(***************************************************************************)
(* Playback comes to an end, whether the card stays in or not.             *)
(***************************************************************************)
PlaybackEnds == fPLAY ~> ~fPLAY

-----------------------------------------------------------------------------
(***************************************************************************)
(* main.c:34, "rewind for next use": after the end the file can be played  *)
(* again.                                                                  *)
(***************************************************************************)
RewoundForNextUse == pc = "loop" /\ ~fPLAY => pos = 0
=============================================================================
