------------------------------ MODULE FlashCalls ------------------------------
(***************************************************************************)
(* The serial flash with one user: a call is made, and by the time it      *)
(* returns it has done to the memory what FlashMemory says, no more and no *)
(* less.                                                                   *)
(***************************************************************************)
EXTENDS FlashMemory

CONSTANT WRITES     \* bound: the bytes of a write

VARIABLE op         \* the call in progress

callVars == <<memoryVars, op>>

Calls ==
    [kind : {"write"}, addr : Address,
     data : UNION {[1..n -> Byte] : n \in 0..WRITES}]
    \cup [kind : {"sector", "chip"}, addr : Address, data : {<<>>}]

NoCall == [kind |-> "none", addr |-> 0, data |-> <<>>]

CallsInit == MemoryInit /\ op = NoCall

Call == op = NoCall /\ op' \in Calls /\ UNCHANGED memoryVars

Return ==
    /\ op # NoCall /\ op' = NoCall
    /\ \/ op.kind = "write" /\ Write(op.addr, op.data)
       \/ op.kind = "sector" /\ SectorErase(op.addr)
       \/ op.kind = "chip" /\ ChipErase

CallsSpec == CallsInit /\ [][Call \/ Return]_callVars
=============================================================================
