----------------------------- MODULE SpiffsBytes -----------------------------
(***************************************************************************)
(* What the SPIFFS calls on descriptors promise, with no cache: a write is *)
(* seen by every read after it, whichever descriptor they go through; what *)
(* was written and flushed survives power loss, and what was not flushed   *)
(* may be lost as a whole; a call changes its own file only.               *)
(***************************************************************************)
EXTENDS Integers, Sequences

CONSTANTS
    Objs,       \* the files
    NoObj,      \* no file
    D,          \* number of descriptors
    Bytes,      \* what is written at a time
    MaxSize,    \* bound: the length of a file
    MayFail     \* whether writing to flash can fail for want of room

VARIABLES
    files,      \* files[o]: data is what is read, kept what survives power loss
    handles,    \* handles[d]: the file, or NoObj if closed; the position unless appending
    got         \* what the last call read, if it was a read

vars == <<files, handles, got>>

NoFile == [exists |-> FALSE, data |-> <<>>, kept |-> <<>>]
EmptyFile == [exists |-> TRUE, data |-> <<>>, kept |-> <<>>]
Closed == [obj |-> NoObj, append |-> FALSE, at |-> 0]
Lost == -1      \* the position of a handle beyond the end of its file
NoRead == [obj |-> NoObj, data |-> <<>>]

Descriptors == 1 .. D
Shorter(m, n) == IF m <= n THEN m ELSE n

\* The data with bytes put at off, or at the end if that is before off.
Put(data, off, bytes) ==
    LET at == Shorter(off, Len(data))
    IN  SubSeq(data, 1, at) \o bytes \o SubSeq(data, at + Len(bytes) + 1, Len(data))

\* What may be left when a call fails half way: each value from one of some
\* versions of the file, and a length between theirs.
MixOf(data, versions) ==
    /\ \E v \in versions : Len(data) <= Len(v)
    /\ \E v \in versions : Len(data) >= Len(v)
    /\ \A i \in 1 .. Len(data) : \E v \in versions : i <= Len(v) /\ data[i] = v[i]

\* A position stays where it is, or is lost to a handle whose data is lost.  A
\* lost position may turn up anywhere.
Keeps(d) ==
    \/ handles'[d] = handles[d]
    \/ /\ \/ handles[d].at = Lost
          \/ handles[d].at > Len(files'[handles[d].obj].data) /\ handles'[d].at = Lost
       /\ handles'[d] = [handles[d] EXCEPT !.at = handles'[d].at]
KeepBut(o, moved) == \A d \in Descriptors \ moved :
    IF handles[d].obj = o THEN Keeps(d) ELSE handles'[d] = handles[d]

Becomes(o, data) == files' = [files EXCEPT ![o] = [exists |-> TRUE, data |-> data, kept |-> data]]

\* All that was written to o is in flash now, or some of it is lost.
Settled(o) ==
    \/ Becomes(o, files[o].data)
    \/ /\ MayFail
       /\ files' = [files EXCEPT ![o] = files'[o]]
       /\ MixOf(files'[o].data, {files[o].data, files[o].kept})
       /\ files'[o].kept = files'[o].data /\ files'[o].exists

Init ==
    /\ files = [o \in Objs |-> NoFile]
    /\ handles = [d \in Descriptors |-> Closed]
    /\ got = NoRead

\* A call that opens nothing, reads nothing and changes no file.
Idle == UNCHANGED <<files, handles>> /\ got' = NoRead

Create(o) ==
    /\ ~files[o].exists
    /\ files' = [files EXCEPT ![o] = EmptyFile]
    /\ UNCHANGED handles /\ got' = NoRead

\* Opening with truncation empties the file, and brings all to its beginning.
Open(o, d, append, trunc) ==
    /\ handles[d] = Closed /\ got' = NoRead
    /\ handles'[d] = [obj |-> o, append |-> append, at |-> 0]
    /\ \A c \in Descriptors \ {d} :
         handles'[c] = IF trunc /\ handles[c].obj = o /\ files[o].data # <<>>
                       THEN [handles[c] EXCEPT !.at = 0] ELSE handles[c]
    /\ files' = [files EXCEPT ![o] = IF @.exists /\ ~trunc THEN @ ELSE EmptyFile]

\* Bytes are written at the position of d or, when appending, at the end.
Write(d, bytes) ==
    LET o == handles[d].obj
        f == files[o]
        at == IF handles[d].append THEN Len(f.data) ELSE handles[d].at
        data == Put(f.data, at, bytes)
    IN  /\ o # NoObj /\ at # Lost /\ got' = NoRead
        /\ handles'[d] = IF handles[d].append THEN handles[d]
                         ELSE [handles[d] EXCEPT !.at = at + Len(bytes)]
        /\ \E kept \in {f.kept, f.data, data} :
             files' = [files EXCEPT ![o] = [exists |-> TRUE, data |-> data, kept |-> kept]]
        /\ KeepBut(o, {d})

\* The write fails, and may have been done in part.
WriteFails(d, bytes) ==
    LET o == handles[d].obj
        f == files[o]
        at == IF handles[d].append THEN Len(f.data) ELSE handles[d].at
        g == files'[o]
    IN  /\ MayFail /\ o # NoObj /\ at # Lost /\ got' = NoRead
        /\ KeepBut(o, {})
        /\ files' = [files EXCEPT ![o] = g]
        /\ MixOf(g.data, {f.data, f.kept, Put(f.data, at, bytes)})
        /\ g.kept = g.data /\ g.exists

\* At most len values from the position of d, if it is not lost.
Read(d, len) ==
    LET o == handles[d].obj
        data == files'[o].data
    IN  /\ o # NoObj /\ ~handles[d].append /\ got'.obj = o
        /\ Settled(o)
        /\ \E at \in (IF handles[d].at = Lost THEN 0 .. MaxSize ELSE {handles[d].at}) :
             LET piece == SubSeq(data, at + 1, Shorter(at + len, Len(data)))
             IN  /\ got' = [obj |-> o, data |-> piece]
                 /\ IF piece = <<>> THEN KeepBut(o, {})
                    ELSE /\ handles'[d] = [handles[d] EXCEPT !.at = at + Len(piece)]
                         /\ KeepBut(o, {d})

Seek(d, off) ==
    LET o == handles[d].obj
    IN  /\ o # NoObj /\ got' = NoRead
        /\ handles'[d] = IF handles[d].append THEN handles[d]
                         ELSE [handles[d] EXCEPT !.at = Shorter(off, Len(files'[o].data))]
        /\ KeepBut(o, {d})
        /\ Settled(o)

Flush(d) ==
    LET o == handles[d].obj
    IN  o # NoObj /\ got' = NoRead /\ KeepBut(o, {}) /\ Settled(o)

\* A file is closed with all its data in flash.
Close(d) ==
    LET o == handles[d].obj
    IN  /\ o # NoObj /\ got' = NoRead
        /\ handles'[d] = Closed
        /\ KeepBut(o, {d})
        /\ Becomes(o, files[o].data)

\* Removing a file closes it.
Remove(o) ==
    /\ files[o].exists
    /\ files' = [files EXCEPT ![o] = NoFile]
    /\ handles' = [d \in Descriptors |-> IF handles[d].obj = o THEN Closed ELSE handles[d]]
    /\ got' = NoRead

AllClosed == handles' = [d \in Descriptors |-> Closed] /\ got' = NoRead

\* The file system is unmounted and mounted again.
Remount ==
    /\ AllClosed
    /\ DOMAIN files' = Objs
    /\ \A o \in Objs :
         LET f == files[o]
             g == files'[o]
         IN  /\ g.exists = f.exists /\ g.kept = g.data
             /\ g.data = f.data \/ (MayFail /\ MixOf(g.data, {f.data, f.kept}))

PowerLoss ==
    /\ AllClosed
    /\ files' = [o \in Objs |-> [files[o] EXCEPT !.data = files[o].kept]]

Next ==
    \/ Idle
    \/ \E d \in Descriptors :
        \/ Flush(d) \/ Close(d)
        \/ \E off \in 0 .. MaxSize : Seek(d, off)
        \/ \E len \in 1 .. MaxSize : Read(d, len)
        \/ \E bytes \in Bytes : Write(d, bytes) \/ WriteFails(d, bytes)
    \/ \E o \in Objs :
        \/ Create(o) \/ Remove(o)
        \/ \E d \in Descriptors, append, trunc \in BOOLEAN : Open(o, d, append, trunc)
    \/ Remount
    \/ PowerLoss

Spec == Init /\ [][Next]_vars
=============================================================================
