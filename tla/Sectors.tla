------------------------------- MODULE Sectors -------------------------------
(***************************************************************************)
(* What sd_spi.c promises of the card in the slot: a call that succeeds    *)
(* has read or written its sector, and nothing is under way on the card    *)
(* when it returns; a write that fails, or that a reset of the board cuts  *)
(* off, may still change its own sector, later, and no other. Nothing is   *)
(* promised of a call during which a card is pulled out or put in.         *)
(***************************************************************************)
EXTENDS Integers

CONSTANTS
    SECTORS,            \* sectors of a card
    Data                \* what a program writes to a sector

VARIABLES
    medium,             \* the sectors of the card in the slot
    call,               \* the call in progress
    answer,             \* what the last call returned
    pending,            \* sectors that may still change
    left                \* was a card pulled out or put in during the call?

sectorVars == <<medium, call, answer, pending, left>>

Sector == 0..SECTORS-1
Torn == "torn"          \* a sector whose writing was cut short
NoCard == <<>>          \* the slot is empty
Media == [Sector -> Data] \cup {NoCard}

Calls ==
    [kind : {"read"}, sector : Sector]
    \cup [kind : {"write"}, sector : Sector, data : Data, allowWriteToZero : BOOLEAN]
    \cup [kind : {"initialize"}]

NoCall == [kind |-> "none"]
Failed == [ok |-> FALSE]

SectorsInit ==
    /\ medium \in Media
    /\ call = NoCall /\ answer = Failed /\ pending = {} /\ left = FALSE

Begin ==
    /\ call = NoCall
    /\ call' \in Calls /\ answer' = Failed /\ left' = FALSE
    /\ UNCHANGED <<medium, pending>>

Accept ==
    /\ call.kind = "write" /\ pending = {}
    /\ call.sector = 0 => call.allowWriteToZero
    /\ pending' = {call.sector}
    /\ UNCHANGED <<medium, call, answer, left>>

Settle ==
    /\ \E s \in pending, content \in Data \cup {Torn} :
           medium' = [medium EXCEPT ![s] = content]
    /\ pending' = {}
    /\ UNCHANGED <<call, answer, left>>

Done ==
    CASE call.kind = "read" -> answer'.buffer = medium[call.sector]
      [] call.kind = "write" -> medium[call.sector] = call.data
      [] OTHER -> TRUE

Return ==
    /\ call # NoCall /\ call' = NoCall
    /\ answer'.ok => left \/ (medium # NoCard /\ pending = {} /\ Done)
    /\ UNCHANGED <<medium, pending, left>>

Swap ==
    /\ medium' \in Media /\ pending' = {} /\ left' = TRUE
    /\ UNCHANGED <<call, answer>>

Reset ==
    /\ call' = NoCall /\ answer' = Failed
    /\ UNCHANGED <<medium, pending, left>>

SectorsNext == Begin \/ Accept \/ Settle \/ Return \/ Swap \/ Reset

SectorsSpec == SectorsInit /\ [][SectorsNext]_sectorVars
=============================================================================
