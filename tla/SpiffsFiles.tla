----------------------------- MODULE SpiffsFiles -----------------------------
(***************************************************************************)
(* File descriptors and the write cache of SPIFFS: how reads and writes    *)
(* through several descriptors, with small writes held back in cache pages,*)
(* reach the files in flash.  Every call runs to its end before the next   *)
(* one begins, so a call is one step.                                      *)
(*                                                                         *)
(* Abstracted: a file is a short sequence of values, its pages and index   *)
(* are those of SpiffsLookup; names and hashes (an object stands for its   *)
(* name), scores but for zero, and the permissions of a descriptor: one    *)
(* that may not read or write makes fewer calls.                           *)
(***************************************************************************)
EXTENDS Integers, Sequences, FiniteSets

CONSTANTS
    Objs,       \* the files (object ids)
    NoObj,      \* the object id of a removed file, or of no file
    D,          \* fs->fd_count
    K,          \* cache->cpage_count
    PageSize,   \* SPIFFS_CFG_LOG_PAGE_SZ: what a cache page holds
    Data,       \* the values a file is made of
    MaxSize,    \* bound: the length of a file
    MaxLen,     \* bound: the length of one write
    Failures,   \* which failures of a write are looked at
    Uses        \* which of the uses below the callers make

ASSUME FilesAssumption ==
    /\ NoObj \notin Objs
    /\ D \in Nat /\ K \in Nat
    /\ PageSize \in Nat /\ PageSize >= 2
    /\ MaxSize \in Nat /\ MaxLen \in Nat
    /\ Failures \subseteq {"room", "page", "first", "index"}
    /\ Uses \subseteq {"direct", "entry", "trunc", "rename", "glance", "stray"}

Undef == -1                 \* SPIFFS_UNDEFINED_LEN
Length(size) == IF size = Undef THEN 0 ELSE size
NoFile == [data |-> <<>>, size |-> Undef, exists |-> FALSE]
EmptyFile == [data |-> <<>>, size |-> Undef, exists |-> TRUE]
NoRead == [obj |-> NoObj, data |-> <<>>]

Descriptors == 1 .. D
CachePages == 1 .. K
NoPage == 0

VARIABLES
    files,      \* flash: files[o], the data of o and the size field of its index header
    fds,        \* fds[d]: descriptor d (spiffs_fd)
    pages,      \* pages[p]: cache page p, as a write cache
    got         \* what the last call read, if it was a read

vars == <<files, fds, pages, got>>

\* spiffs_mount: all descriptors cleared, all cache pages free.
FreshFd == [open |-> FALSE, obj |-> NoObj, size |-> Undef, at |-> 0, append |-> FALSE,
            direct |-> FALSE, cp |-> NoPage, hdr |-> TRUE, used |-> FALSE]
FreshPage == [obj |-> NoObj, off |-> 0, data |-> <<>>]

Larger(m, n) == IF m >= n THEN m ELSE n
Smaller(m, n) == IF m <= n THEN m ELSE n

\* The data with bytes put at off, or at the end if that is before off.
Put(data, off, bytes) ==
    LET at == Smaller(off, Len(data))
    IN  SubSeq(data, 1, at) \o bytes \o SubSeq(data, at + Len(bytes) + 1, Len(data))

\* A call works on the whole state at once: now is the state it finds, and
\* each part of it takes one such state to the next or to the possible ones.
now == [files |-> files, fds |-> fds, pages |-> pages]
Becomes(s) == files' = s.files /\ fds' = s.fds /\ pages' = s.pages
Returns(s) == Becomes(s) /\ got' = NoRead

-----------------------------------------------------------------------------
(* Cache pages and descriptors *)

End(page) == page.off + Len(page.data)
PagesOf(s, o) == {p \in CachePages : s.pages[p].obj = o}
InUse(s) == {p \in CachePages : s.pages[p].obj # NoObj}

\* Mutant of Associate: a descriptor knows of its own cache page only.
AssociateOwn(s, d) == s

\* spiffs_cache_page_get_by_fd, unless the descriptor has a page already.
Associate(s, d) ==
    LET found == PagesOf(s, s.fds[d].obj)
    IN  IF s.fds[d].cp # NoPage \/ found = {} THEN s
        ELSE [s EXCEPT !.fds[d].cp = CHOOSE p \in found : \A q \in found : p <= q]

\* Open descriptors forget the cache pages that go.  Offset and data of a page
\* stay where they are.
ReleaseAll(s, gone) ==
    [s EXCEPT !.fds = [d \in Descriptors |->
                          IF s.fds[d].open /\ s.fds[d].cp \in gone
                          THEN [s.fds[d] EXCEPT !.cp = NoPage] ELSE s.fds[d]],
              !.pages = [p \in CachePages |->
                          IF p \in gone THEN [s.pages[p] EXCEPT !.obj = NoObj] ELSE s.pages[p]]]

\* Mutant of Release: only the descriptor that lets go forgets the page.
ReleaseFirst(s, p) ==
    [s EXCEPT !.fds = [d \in Descriptors |->
                          IF s.fds[d].open /\ s.fds[d].cp = p
                             /\ \A c \in 1 .. (d - 1) : s.fds[c].cp # p
                          THEN [s.fds[d] EXCEPT !.cp = NoPage] ELSE s.fds[d]],
              !.pages[p].obj = NoObj]

\* spiffs_cache_fd_release
Release(s, p) == ReleaseAll(s, {p})

\* spiffs_fd_return.  What the next open overwrites is not kept; the cache page is.
Return(s, d) ==
    [s EXCEPT !.fds[d] = [FreshFd EXCEPT !.obj = s.fds[d].obj, !.cp = s.fds[d].cp,
                                         !.used = s.fds[d].used]]

\* spiffs_fd_find_new: a closed descriptor.  One looked for by name may be any,
\* since a hash may match; otherwise one never used (score 0) goes first.
Candidate(d, byName) ==
    /\ ~fds[d].open
    /\ byName \/ ~fds[d].used \/ \A c \in Descriptors : fds[c].open \/ fds[c].used

-----------------------------------------------------------------------------
(* spiffs_cb_object_event for an index header page *)

\* Mutant of Reaches: the event goes by the size of the caller's descriptor only.
ReachesCaller(s, d, o, caller) == s.fds[d].obj = o /\ d = caller

\* A descriptor with score 0 takes no notice.
Reaches(s, d, o, caller) == s.fds[d].obj = o /\ s.fds[d].used

\* The header page of o now says size; moved: it is another page than before,
\* which the caller sees to itself.
Event(s, o, size, moved, caller) ==
    LET Limit(fd) == IF size > 0 /\ fd.cp # NoPage
                     THEN Larger(size, End(s.pages[fd.cp])) ELSE Length(size)
        Told(d) == Reaches(s, d, o, caller)
        dropped == {s.fds[d].cp : d \in {c \in Descriptors :
                       /\ Told(c) /\ size # 0 /\ s.fds[c].cp # NoPage
                       /\ s.pages[s.fds[c].cp].off > Limit(s.fds[c]) + 1}}
        After(d) ==
            LET fd == s.fds[d]
            IN  IF ~fd.open \/ fd.obj # o THEN fd
                ELSE IF ~Told(d) THEN [fd EXCEPT !.hdr = @ /\ (~moved \/ d = caller)]
                ELSE IF size = 0 THEN [fd EXCEPT !.hdr = TRUE]
                ELSE [fd EXCEPT !.hdr = TRUE, !.size = size, !.at = Smaller(@, Limit(fd))]
    IN  ReleaseAll([s EXCEPT !.fds = [d \in Descriptors |-> After(d)]], dropped)

\* Mutant of Removal: what is cached for the file stays cached.
RemovalKeepsPages(s, o) ==
    [s EXCEPT !.files[o] = NoFile,
              !.fds = [d \in Descriptors |->
                          IF @[d].obj # o THEN @[d]
                          ELSE [FreshFd EXCEPT !.cp = s.fds[d].cp, !.used = s.fds[d].used]]]

\* The event of a removal: descriptors of the file are closed.
Removal(s, o) ==
    LET gone == {s.fds[d].cp : d \in {c \in Descriptors : s.fds[c].open /\ s.fds[c].obj = o}}
        after == ReleaseAll(s, gone \ {NoPage})
    IN  [after EXCEPT
            !.files[o] = NoFile,
            !.fds = [d \in Descriptors |->
                        IF @[d].obj # o THEN @[d]
                        ELSE [FreshFd EXCEPT !.cp = after.fds[d].cp, !.used = after.fds[d].used]]]

-----------------------------------------------------------------------------
(* Writing to flash *)

\* spiffs_object_modify: the data of the file of d changes, its length does not.
Modified(s, d, data) ==
    LET o == s.fds[d].obj
    IN  Event([s EXCEPT !.files[o].data = data], o, s.files[o].size, TRUE, d)

\* spiffs_object_append: the file of d has this data now.  The header of a file
\* that was empty is written in place, where a size field that is 0 stays 0,
\* as bits only go from 1 to 0; the descriptors get the right size all the same.
Appended(s, d, data) ==
    LET o == s.fds[d].obj
        f == s.files[o]
        stored == [data |-> data, exists |-> TRUE,
                   size |-> IF f.data = <<>> /\ f.size = 0 THEN 0 ELSE Len(data)]
    IN  [Event([s EXCEPT !.files[o] = stored], o, Len(data), f.data # <<>>, d)
            EXCEPT !.fds[d].size = Len(data)]

\* The ways spiffs_object_append of bytes fails: no room (spiffs_gc_check); no page
\* for some of the bytes, the pages of a file beginning anywhere; no page for any
\* data of an empty file, whose header is then written with size 0; no
\* page for the index, when the descriptor has the new size already.
AppendFails(s, d, bytes) ==
    LET o == s.fds[d].obj
        data == s.files[o].data
        Some(k) == Appended(s, d, data \o SubSeq(bytes, 1, k))
        fewest == IF data = <<>> THEN 1 ELSE 0
    IN  UNION {
            IF "room" \in Failures THEN {s} ELSE {},
            IF "page" \in Failures THEN {Some(k) : k \in fewest .. (Len(bytes) - 1)} ELSE {},
            IF "first" \in Failures /\ data = <<>>
            THEN {[s EXCEPT !.files[o].size = 0, !.fds[d].size = 0]} ELSE {},
            IF "index" \in Failures /\ data # <<>>
            THEN {[s EXCEPT !.fds[d].size = Len(data) + Len(bytes)]} ELSE {}}

\* Mutant of HydroWrite: what lies within the file is not written over.
HydroWriteAppends(s, d, off, bytes) ==
    {[s |-> Appended(s, d, s.files[s.fds[d].obj].data \o bytes), ok |-> TRUE]}

\* spiffs_hydro_write: spiffs_object_modify of what lies within the file, then
\* spiffs_object_append of the rest.  What may become of s, and whether it is an
\* error.  With a header page that is not that of the file the page checks fail;
\* so they do beyond the end of an empty file, where there is no data page.
HydroWrite(s, d, off, bytes) ==
    LET fd == s.fds[d]
        data == s.files[fd.obj].data
        inside == IF fd.size # Undef /\ off < fd.size THEN Smaller(fd.size - off, Len(bytes)) ELSE 0
        rest == SubSeq(bytes, inside + 1, Len(bytes))
        over == IF inside = 0 THEN s ELSE Modified(s, d, Put(data, off, SubSeq(bytes, 1, inside)))
        Ok(t) == {[s |-> t, ok |-> TRUE]}
        Error(S) == [s : S, ok : {FALSE}]
    IN  IF ~fd.hdr \/ (fd.size = Undef /\ off > 0) THEN Error({s})
        ELSE IF rest = <<>> THEN Ok(over) \cup Error(IF "room" \in Failures THEN {s} ELSE {})
        ELSE UNION {Ok(Appended(over, d, over.files[fd.obj].data \o rest)),
                    Error(AppendFails(over, d, rest)),
                    Error(IF inside > 0 /\ "room" \in Failures THEN {s} ELSE {})}

\* Mutant of WriteBack: the cache page is let go and not written.
WriteBackDrops(s, d) ==
    {[s |-> IF s.fds[d].cp = NoPage THEN s ELSE Release(s, s.fds[d].cp), ok |-> TRUE]}

\* The cache page of d, if it has one, is written to flash and let go, written or not.
WriteBack(s, d) ==
    LET p == s.fds[d].cp
    IN  IF p = NoPage THEN {[s |-> s, ok |-> TRUE]}
        ELSE {[r EXCEPT !.s = Release(@, p)] :
                r \in HydroWrite(s, d, s.pages[p].off, s.pages[p].data)}

\* spiffs_fflush_cache: what is cached for the file is written, whoever wrote it;
\* not through a descriptor opened with SPIFFS_O_DIRECT.
FlushCache(s, d) ==
    IF s.fds[d].direct THEN {[s |-> s, ok |-> TRUE]} ELSE WriteBack(Associate(s, d), d)

\* SPIFFS_write at off, past the cache.
WriteThrough(s, d, off, bytes) ==
    {IF r.ok THEN [r.s EXCEPT !.fds[d].at = @ + Len(bytes)] ELSE r.s :
        r \in HydroWrite(s, d, off, bytes)}

\* SPIFFS_write into the cache page of d, at off.
WriteCached(s, d, off, bytes) ==
    LET p == s.fds[d].cp
    IN  [s EXCEPT !.pages[p].data = Put(@, off - s.pages[p].off, bytes),
                  !.fds[d].at = @ + Len(bytes)]

\* Mutant of InPage: a write may run over the end of the cache page.
InPageByStart(p, off, n) ==
    /\ p # NoPage
    /\ pages[p].off <= off /\ off <= End(pages[p])

\* SPIFFS_write of n values at off goes on in cache page p.
InPage(p, off, n) ==
    /\ p # NoPage
    /\ pages[p].off <= off /\ off <= End(pages[p])
    /\ off + n <= pages[p].off + PageSize

\* SPIFFS_write with no cache page: one is taken, unless they are all write
\* caches, or all but one that was read last (spiffs_cache_page_allocate_by_fd).
WriteNewPage(s, d, off, bytes) ==
    LET Taken(p) == [s EXCEPT !.pages[p] = [obj |-> s.fds[d].obj, off |-> off, data |-> <<>>],
                              !.fds[d].cp = p]
    IN  {WriteCached(Taken(p), d, off, bytes) : p \in CachePages \ InUse(s)}
        \cup IF Cardinality(InUse(s)) >= K - 1 THEN WriteThrough(s, d, off, bytes) ELSE {}

-----------------------------------------------------------------------------
(* The calls.  Uses says which uses of the API are looked at that go wrong    *)
(* on their own; without one of them the callers are careful to avoid it.     *)

Pending(o) == PagesOf(now, o) # {}

\* What a read of o gives now: flash, and the cache page of the file on top of it.
Content(o) ==
    IF ~Pending(o) THEN files[o].data
    ELSE LET page == pages[CHOOSE p \in PagesOf(now, o) : TRUE]
         IN  Put(files[o].data, page.off, page.data)

\* A write that failed has left d beyond the end of its file.
Stray(d) ==
    /\ fds[d].open /\ ~fds[d].append
    /\ fds[d].cp = NoPage /\ fds[d].at > Len(files[fds[d].obj].data)

Init ==
    /\ files = [o \in Objs |-> NoFile]
    /\ fds = [d \in Descriptors |-> FreshFd]
    /\ pages = [p \in CachePages |-> FreshPage]
    /\ got = NoRead

\* SPIFFS_creat
Creat(o) ==
    /\ ~files[o].exists
    /\ Returns([now EXCEPT !.files[o] = EmptyFile])

\* spiffs_object_truncate to nothing: no effect on a file of no size.
Truncated(s, d) ==
    LET o == s.fds[d].obj
        empty == [s EXCEPT !.files[o] = EmptyFile]
    IN  IF s.fds[d].size \in {Undef, 0} THEN {s}
        ELSE {[Event(empty, o, Undef, TRUE, d) EXCEPT !.fds[d].size = 0, !.fds[d].at = 0]}
             \cup IF "room" \in Failures THEN {Return(s, d)} ELSE {}

\* SPIFFS_open of o as d, which creates it if need be, and, with byName FALSE,
\* SPIFFS_open_by_dirent and SPIFFS_open_by_page.  The cache page of whoever
\* had the descriptor before is not reset.
Open(o, d, append, direct, trunc, byName) ==
    LET created == [now EXCEPT !.files[o] = IF @.exists THEN @ ELSE EmptyFile]
        opened == [created EXCEPT !.fds[d] =
                      [open |-> TRUE, obj |-> o, size |-> created.files[o].size, at |-> 0,
                       append |-> append, direct |-> direct, cp |-> @.cp, hdr |-> TRUE,
                       used |-> @.used \/ byName]]
    IN  /\ Candidate(d, byName)
        /\ files[o].exists \/ byName
        /\ "entry" \in Uses \/ byName \/ fds[d].used
        /\ "trunc" \in Uses \/ ~trunc \/ ~Pending(o)
        /\ "direct" \in Uses \/ \A c \in Descriptors :
                                    fds[c].open /\ fds[c].obj = o => fds[c].direct = direct
        /\ \E s \in (IF trunc THEN Truncated(opened, d) ELSE {opened}) : Returns(s)

\* SPIFFS_open finds no file, one it must not find, or no room to create it.
OpenFails(d) ==
    /\ Candidate(d, TRUE)
    /\ Returns([now EXCEPT !.fds[d].used = TRUE])

\* SPIFFS_write
Write(d, bytes) ==
    LET size == Length(fds[d].size)
        at == IF fds[d].append THEN size ELSE fds[d].at
        s == Associate([now EXCEPT !.fds[d].at = at], d)
        p == s.fds[d].cp
        off == IF fds[d].append /\ p # NoPage THEN Larger(size, End(pages[p])) ELSE at
        small == Len(bytes) < PageSize
        Dumped(r) == IF ~r.ok THEN {r.s}
                     ELSE IF small THEN WriteNewPage(r.s, d, off, bytes)
                     ELSE WriteThrough(r.s, d, off, bytes)
    IN  /\ fds[d].open
        /\ off + Len(bytes) <= MaxSize
        /\ "stray" \in Uses \/ ~Stray(d)
        /\ \E t \in (IF fds[d].direct THEN WriteThrough(s, d, off, bytes)
                     ELSE IF small /\ InPage(p, off, Len(bytes)) THEN {WriteCached(s, d, off, bytes)}
                     ELSE UNION {Dumped(r) : r \in WriteBack(s, d)}) : Returns(t)

\* spiffs_object_read
ObjectRead(s, d, off, len) == SubSeq(s.files[s.fds[d].obj].data, off + 1, off + len)

\* SPIFFS_read: nothing is flushed for a descriptor that knows of no data.
Read(d, len) ==
    LET o == fds[d].obj
        Ended == [obj |-> o, data |-> <<>>]
        Piece(s) == LET fd == s.fds[d]
                    IN  [obj |-> o, data |-> ObjectRead(s, d, fd.at, Smaller(len, Length(fd.size) - fd.at))]
    IN  /\ fds[d].open /\ fds[d].hdr
        /\ ~fds[d].append       \* its position is not that of its writes
        /\ IF fds[d].size = Undef
           THEN /\ "glance" \in Uses \/ ~Pending(o)
                /\ Becomes(now) /\ got' = Ended
           ELSE \E r \in FlushCache(now, d) :
                    /\ Becomes([r.s EXCEPT !.fds[d].at = @ + Len(Piece(r.s).data)])
                    /\ got' = Piece(r.s)

\* SPIFFS_lseek to off: not beyond the end of the file.
Seek(d, off) ==
    /\ fds[d].open
    /\ \E r \in FlushCache(now, d) :
         Returns([r.s EXCEPT !.fds[d].at = Smaller(off, Length(r.s.fds[d].size))])

\* SPIFFS_fflush; SPIFFS_tell, SPIFFS_eof and SPIFFS_fstat, which flush first.
Flush(d) ==
    /\ fds[d].open
    /\ \E r \in FlushCache(now, d) : Returns(r.s)

\* SPIFFS_close: the descriptor stays open when it cannot write what is cached.
Close(d) ==
    /\ fds[d].open
    /\ \E r \in FlushCache(now, d) : Returns(IF r.ok THEN Return(r.s, d) ELSE r.s)

\* SPIFFS_fremove
FRemove(d) ==
    LET s == IF fds[d].cp = NoPage THEN now ELSE Release(now, fds[d].cp)
    IN  /\ fds[d].open /\ fds[d].hdr
        /\ Returns(Removal(s, fds[d].obj))

\* spiffs_fd_find_new and spiffs_object_open_by_page for the time of a call.
Borrowed(o, d) ==
    [now EXCEPT !.fds[d] = [@ EXCEPT !.open = TRUE, !.obj = o, !.size = files[o].size, !.at = 0]]

\* SPIFFS_remove
Remove(o, d) ==
    /\ Candidate(d, FALSE)
    /\ files[o].exists
    /\ Returns(Removal(Borrowed(o, d), o))

\* SPIFFS_rename: the index header moves, if there is a page for it.
Rename(o, d) ==
    LET s == Borrowed(o, d)
    IN  /\ Candidate(d, FALSE)
        /\ files[o].exists
        /\ "rename" \in Uses \/ ~Pending(o)
        /\ \/ Returns(Return(Event(s, o, files[o].size, TRUE, d), d))
           \/ "page" \in Failures /\ Returns(Return(s, d))

\* The collector moves the index header of o, in SPIFFS_gc or a call that writes.
Gc(o) ==
    /\ files[o].exists
    /\ Returns(Event(now, o, 0, TRUE, NoPage))

Mounted(s) == [s EXCEPT !.fds = [d \in Descriptors |-> FreshFd],
                        !.pages = [p \in CachePages |-> FreshPage]]

\* SPIFFS_unmount flushes and closes the open descriptors in turn; SPIFFS_mount.
Remount ==
    LET Closed(s, d) == IF s.fds[d].open THEN {Return(r.s, d) : r \in FlushCache(s, d)} ELSE {s}
        after[n \in 0 .. D] == IF n = 0 THEN {now} ELSE UNION {Closed(s, n) : s \in after[n - 1]}
    IN  \E s \in after[D] : Returns(Mounted(s))

\* Power is lost between two calls; SPIFFS_mount.
PowerLoss == Returns(Mounted(now))

Bytes == UNION {[1 .. n -> Data] : n \in 1 .. MaxLen}

Next ==
    \/ \E o \in Objs : Creat(o) \/ Gc(o)
    \/ \E o \in Objs, d \in Descriptors :
        \/ Remove(o, d) \/ Rename(o, d)
        \/ \E append, direct, trunc, byName \in BOOLEAN : Open(o, d, append, direct, trunc, byName)
    \/ \E d \in Descriptors :
        \/ OpenFails(d) \/ Flush(d) \/ Close(d) \/ FRemove(d)
        \/ \E bytes \in Bytes : Write(d, bytes)
        \/ \E len \in 1 .. MaxSize : Read(d, len)
        \/ \E off \in 0 .. MaxSize : Seek(d, off)
    \/ Remount
    \/ PowerLoss

Spec == Init /\ [][Next]_vars

-----------------------------------------------------------------------------
(* Properties *)

Seqs(n) == UNION {[1 .. m -> Data] : m \in 0 .. n}

\* Types: lengths, positions, cache pages and what is in them.
TypeOK ==
    /\ files \in [Objs -> [data : Seqs(MaxSize), size : {Undef} \cup 0 .. MaxSize, exists : BOOLEAN]]
    /\ fds \in [Descriptors -> [open : BOOLEAN, obj : Objs \cup {NoObj},
                                size : {Undef} \cup 0 .. MaxSize, at : 0 .. MaxSize,
                                append : BOOLEAN, direct : BOOLEAN, cp : {NoPage} \cup CachePages,
                                hdr : BOOLEAN, used : BOOLEAN]]
    /\ pages \in [CachePages -> [obj : Objs \cup {NoObj}, off : 0 .. MaxSize, data : Seqs(PageSize)]]
    /\ got \in [obj : Objs \cup {NoObj}, data : Seqs(MaxSize)]

\* No descriptor has the cache page of another file, or one that was let go: it
\* would write its data there, or write that of another file as its own.  This is
\* about spiffs_cache_fd_release and the cache_page that SPIFFS_open leaves alone.
CacheOwned ==
    \A d \in Descriptors : fds[d].open /\ fds[d].cp # NoPage => pages[fds[d].cp].obj = fds[d].obj

\* Cached data is in one place for each file, and an open descriptor that is
\* not direct leads there: it is not left behind when descriptors close and are
\* removed (spiffs_fflush_cache, spiffs_cb_object_event).
PendingReachable ==
    /\ \A o \in Objs : Cardinality(PagesOf(now, o)) <= 1
    /\ \A p \in InUse(now) : \E d \in Descriptors : fds[d].open /\ ~fds[d].direct /\ fds[d].cp = p

\* Every open descriptor knows the length of its file, whoever changed it last
\* (spiffs_cb_object_event, spiffs_object_append).
HandleSizes ==
    \A d \in Descriptors : fds[d].open => Length(fds[d].size) = Len(files[fds[d].obj].data)

\* The length in the index header is that of the data (spiffs_object_append).
SizeStored == \A o \in Objs : Length(files[o].size) = Len(files[o].data)

\* What is cached can be stored: it begins within the file, or at its end
\* (SPIFFS_write, spiffs_fflush_cache).
PendingFits == \A p \in InUse(now) : pages[p].off <= Len(files[pages[p].obj].data)

\* Every open descriptor knows where the index header of its file is, wherever
\* the collector or another descriptor moved it (spiffs_cb_object_event).
HeadersFresh == \A d \in Descriptors : fds[d].open => fds[d].hdr

\* A file opened with SPIFFS_O_TRUNC is empty (SPIFFS_open).
TruncEmpties ==
    [][\A o \in Objs, d \in Descriptors :
          (\E append, direct, byName \in BOOLEAN : Open(o, d, append, direct, TRUE, byName))
          => ~fds'[d].open \/ Content(o)' = <<>>]_vars

\* Renaming a file moves no descriptor on it (SPIFFS_rename).
RenameKeepsPositions ==
    [][\A o \in Objs : (\E d \in Descriptors : Rename(o, d))
          => \A c \in Descriptors : fds[c].open => fds'[c].at = fds[c].at]_vars

\* The calls do what SpiffsBytes says of them: a file is what flash and the cache
\* page on top of it hold, and what is in flash survives power loss.
ByteFiles == [o \in Objs |-> [exists |-> files[o].exists, data |-> Content(o), kept |-> files[o].data]]
ByteHandles ==
    [d \in Descriptors |->
        IF fds[d].open THEN [obj |-> fds[d].obj, append |-> fds[d].append,
                             at |-> IF fds[d].append THEN 0 ELSE IF Stray(d) THEN -1 ELSE fds[d].at]
        ELSE [obj |-> NoObj, append |-> FALSE, at |-> 0]]
Store == INSTANCE SpiffsBytes WITH files <- ByteFiles, handles <- ByteHandles,
                                   MayFail <- Failures # {}
StoreSpec == Store!Spec
=============================================================================
