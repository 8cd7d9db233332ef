--------------------------- MODULE MCSpiffsLookup ---------------------------
(* Instances of SpiffsLookup for TLC; the bounds are in the .cfg files. *)
EXTENDS SpiffsLookupInv, TLC

CONSTANTS f, g      \* files

FileSymmetry == Permutations(Objs)

\* Two files that share blocks: the calls of SpiffsLookup but SPIFFS_gc_quick
\* and SPIFFS_rename, with writes of whole pages only.
SharingNext ==
    \/ \E o \in Objs : Create(o) \/ Truncate(o) \/ Remove(o) \/ RemoveStops(o)
    \/ \E o \in Objs : Append(o, 1, TRUE) \/ Modify(o, 1, TRUE, 0)
    \/ \E len \in 1 .. MaxGcLen : Gc(len)
    \/ Remount
    \/ CleanNext
    \/ WorkNext

SharingSpec == Init /\ [][SharingNext]_vars
=============================================================================
