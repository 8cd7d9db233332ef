------------------------------ MODULE NorFlash ------------------------------
(***************************************************************************)
(* What spiffs expects of the three functions of its configuration,        *)
(* hal_read_f, hal_write_f and hal_erase_f: a NOR flash in which a write   *)
(* clears bits of the bytes it is given and of no others, and an erase     *)
(* sets those of the bytes it is given and of no others.  Neither is       *)
(* atomic: a call may be seen half way, as after a loss of power.          *)
(*                                                                         *)
(* All bits of a byte behave alike, so a byte is one bit, and the memory   *)
(* the set of the bytes that are programmed (0).                           *)
(***************************************************************************)
EXTENDS Naturals

CONSTANTS
    Size,       \* bytes of the flash
    MaxLen      \* the longest write, a page in spiffs

VARIABLES
    mem,        \* the programmed bytes
    call        \* the call in progress

Addresses == 0 .. Size - 1

NoCall == [op |-> "none"]

\* The bytes a call is about.
Asked(c) == c.addr .. c.addr + c.len - 1

\* SPIFFS_HAL_WRITE: zeros are the bytes of the source that are 0, by the address they go to.
WriteCalls ==
    {c \in [op : {"write"}, addr : Addresses, len : 1 .. MaxLen, zeros : SUBSET Addresses] :
        Asked(c) \subseteq Addresses /\ c.zeros \subseteq Asked(c)}

\* SPIFFS_HAL_ERASE: spiffs_erase_block goes through its block by phys_erase_block.
EraseCalls(eraseSize) ==
    {c \in [op : {"erase"}, addr : Addresses, len : {eraseSize}] :
        c.addr % eraseSize = 0 /\ Asked(c) \subseteq Addresses}

\* SPIFFS_HAL_READ
ReadCalls ==
    {c \in [op : {"read"}, addr : Addresses, len : 1 .. MaxLen] : Asked(c) \subseteq Addresses}

-----------------------------------------------------------------------------

Begin ==
    /\ call = NoCall
    /\ call'.op \in {"write", "erase", "read"}
    /\ UNCHANGED mem

\* Part of what was asked for is done.
Progress ==
    /\ call.op \in {"write", "erase"}
    /\ IF call.op = "write"
       THEN mem \subseteq mem' /\ mem' \subseteq mem \cup call.zeros
       ELSE mem' \subseteq mem /\ mem \ Asked(call) \subseteq mem'
    /\ UNCHANGED call

\* The call returns: all of it is done.
Return ==
    /\ call # NoCall
    /\ call.op = "write" => call.zeros \subseteq mem
    /\ call.op = "erase" => Asked(call) \cap mem = {}
    /\ call' = NoCall
    /\ UNCHANGED mem

Init == mem \subseteq Addresses /\ call = NoCall

Next == Begin \/ Progress \/ Return

Spec == Init /\ [][Next]_<<mem, call>>
=============================================================================
