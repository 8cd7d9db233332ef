---------------------------- MODULE MCSpiffsFiles ----------------------------
(* Instances of SpiffsFiles for TLC; the bounds are in the .cfg files. *)
EXTENDS SpiffsFiles, TLC

Symmetry == Permutations(Objs) \cup Permutations(Data)

\* Two files that share descriptors and the cache: no descriptor appends or is direct.
PlainNext ==
    \/ \E o \in Objs : Creat(o) \/ Gc(o)
    \/ \E o \in Objs, d \in Descriptors :
        \/ Remove(o, d) \/ Rename(o, d)
        \/ \E trunc, byName \in BOOLEAN : Open(o, d, FALSE, FALSE, trunc, byName)
    \/ \E d \in Descriptors :
        \/ OpenFails(d) \/ Flush(d) \/ Close(d) \/ FRemove(d)
        \/ \E bytes \in Bytes : Write(d, bytes)
        \/ \E len \in 1 .. MaxSize : Read(d, len)
        \/ \E off \in 0 .. MaxSize : Seek(d, off)
    \/ Remount
    \/ PowerLoss

PlainSpec == Init /\ [][PlainNext]_vars
=============================================================================
