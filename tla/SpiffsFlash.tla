------------------------------ MODULE SpiffsFlash ------------------------------
(***************************************************************************)
(* What SPIFFS stores, one write of the flash at a time.  A page has an    *)
(* entry in the lookup of its block and a header (object id, span index,   *)
(* flags); after it comes data, or, in an index page, references to data   *)
(* pages.  Writing flash only clears bits: a field that is not blank any   *)
(* more ends up as the AND of the old and the new value.  A call of the    *)
(* API, and the collector, are sequences of such writes (todo) that the    *)
(* code chooses as it goes (the steps of job).                             *)
(*                                                                         *)
(* Abstracted: a page holds U units of data, and a call writes the same    *)
(* value, its own number, to all of them; a call opens its file, and the   *)
(* search for an index page may find any of those that match.  That a call *)
(* has room is settled by spiffs_gc_check before its first write (Reserve).*)
(* One call of the driver, which the port hands to the chip as a whole, is *)
(* one write.  The descriptor's cached positions and the write cache are   *)
(* in SpiffsFiles, the counters of free and deleted pages in SpiffsLookup. *)
(***************************************************************************)
EXTENDS Integers, Sequences, FiniteSets, FiniteSetsExt

CONSTANTS
    B,          \* fs->block_count
    N,          \* SPIFFS_OBJ_LOOKUP_MAX_ENTRIES: pages of a block with an entry
    Objs,       \* the files
    U,          \* units of data in a page (SPIFFS_DATA_PAGE_SIZE)
    HdrLen,     \* SPIFFS_OBJ_HDR_IX_LEN: references in an index header
    IxLen,      \* SPIFFS_OBJ_IX_LEN: references in another index page
    Blank,      \* all ones: the value of what was not written since the erase
    Deleted,    \* SPIFFS_OBJ_ID_DELETED: all zeroes in the lookup
    Garbled,    \* the AND of two different values
    Absent,     \* what a reader gets of a file that is not there
    Unreadable, \* what a reader gets when SPIFFS_read returns an error
    Calls,      \* the calls of the API the application makes, of AllCalls
    MaxSize,    \* bound: units in a file
    MaxWrite,   \* bound: units in one write
    Reserve,    \* bound: free pages there are when a call begins
    MaxCalls    \* bound: calls of the API

AllCalls == {"create", "append", "modify", "truncate", "remove", "gc"}
ASSUME FlashAssumption ==
    /\ B \in Nat /\ B >= 2 /\ N \in Nat /\ N >= 1
    /\ U \in Nat /\ U >= 1 /\ HdrLen \in Nat /\ HdrLen >= 1 /\ IxLen \in Nat /\ IxLen >= 1
    /\ MaxSize \in Nat /\ MaxWrite \in Nat /\ Reserve \in Nat /\ MaxCalls \in Nat
    /\ Calls \subseteq AllCalls

Pages == 0 .. (B * N - 1)
BlockPages(b) == (b * N) .. (b * N + N - 1)
Cells == 0 .. (Max({U, HdrLen, IxLen}) - 1)    \* units of data, or references
DataId(o) == <<o, "data">>
IxId(o) == <<o, "ix">>                          \* SPIFFS_OBJ_ID_IX_FLAG is set
Ids == {DataId(o) : o \in Objs} \cup {IxId(o) : o \in Objs}

\* SPIFFS_OBJ_IX_ENTRY_SPAN_IX, SPIFFS_OBJ_IX_ENTRY and
\* SPIFFS_DATA_SPAN_IX_FOR_OBJ_IX_SPAN_IX.
IxSpan(s) == IF s < HdrLen THEN 0 ELSE 1 + (s - HdrLen) \div IxLen
IxEntry(s) == IF s < HdrLen THEN s ELSE (s - HdrLen) % IxLen
FirstSpan(i) == IF i = 0 THEN 0 ELSE HdrLen + (i - 1) * IxLen
Entries(i) == 0 .. ((IF i = 0 THEN HdrLen ELSE IxLen) - 1)
PageSpan(n) == (n - 1) \div U                   \* the span of the last of n units
MaxSpan == PageSpan(MaxSize)

VARIABLES
    flash,      \* flash[p]: the lookup entry of page p, its header and its contents
    cursor,     \* fs->free_cursor: where the search for a free page starts
    todo,       \* the writes the running call has decided on and not made yet
    job,        \* locals of the running call
    want,       \* history: want[o], what a reader may get of file o
    calls       \* how many calls there were: the value the running one writes

vars == <<flash, cursor, todo, job, want, calls>>

-----------------------------------------------------------------------------
(* The flash: a flag is in the set when its bit is cleared *)

Flags == {"used", "final", "index", "dele", "ixdele"}
NoCells == [c \in Cells |-> Blank]
BlankPage == [lu |-> Blank, id |-> Blank, span |-> Blank, flags |-> {},
              size |-> Blank, cells |-> NoCells]

Meet(a, b) == IF a = Blank THEN b ELSE IF b = Blank \/ a = b THEN a ELSE Garbled
MeetPage(a, b) ==
    [lu |-> IF Deleted \in {a.lu, b.lu} THEN Deleted ELSE Meet(a.lu, b.lu),
     id |-> Meet(a.id, b.id), span |-> Meet(a.span, b.span), flags |-> a.flags \cup b.flags,
     size |-> Meet(a.size, b.size), cells |-> [c \in Cells |-> Meet(a.cells[c], b.cells[c])]]

\* One write of the driver; what it leaves alone is blank in the image.
W(p, image) == <<[page |-> p, image |-> image]>>
LuW(p, id) == W(p, [BlankPage EXCEPT !.lu = id])
FlagsW(p, flags) == W(p, [BlankPage EXCEPT !.flags = flags])
CellsW(p, cells) == W(p, [BlankPage EXCEPT !.cells = cells])
HeaderW(p, id, span, flags) ==
    W(p, [BlankPage EXCEPT !.id = id, !.span = span, !.flags = flags])
PageW(p, image) == W(p, [image EXCEPT !.lu = Blank])

FreePages == {p \in Pages : flash[p].lu = Blank}
\* spiffs_obj_lu_find_free: the first free entry from the cursor, the blocks in a ring.
NextFree(p) ==
    /\ p \in FreePages
    /\ \A q \in FreePages : (p - cursor) % (B * N) <= (q - cursor) % (B * N)
\* Mutant of Take: the cursor skips an entry.
TakeSkips(p) == NextFree(p) /\ cursor' = p + 2
Take(p) == NextFree(p) /\ cursor' = p + 1

\* spiffs_page_delete: the lookup entry first, then the flag in the header.
Delete(p) == LuW(p, Deleted) \o FlagsW(p, {"dele", "used"})

\* spiffs_page_allocate_data; a page that is not final on arrival gets its
\* flag at last, when the caller asks for that.
Allocate(p, id, span, flags, cells, finalize) ==
    LuW(p, id) \o HeaderW(p, id, span, flags \cup {"used"})
      \o (IF cells = NoCells THEN <<>> ELSE CellsW(p, cells))
      \o (IF finalize /\ "final" \notin flags THEN FlagsW(p, {"final"}) ELSE <<>>)

\* Mutants of Move: the old page stays; it goes before the new one is finished.
MoveKeepsSource(src, dst, image) ==
    PageW(dst, [image EXCEPT !.flags = (@ \ {"final"}) \cup {"used"}]) \o LuW(dst, image.id)
      \o FlagsW(dst, {"final", "used"})
MoveDeletesFirst(src, dst, image) == Delete(src) \o MoveKeepsSource(src, dst, image)
\* spiffs_page_move of a page in memory: written unfinished, entered in the
\* lookup, finished; then the old page is deleted.
Move(src, dst, image) ==
    PageW(dst, [image EXCEPT !.flags = (@ \ {"final"}) \cup {"used"}]) \o LuW(dst, image.id)
      \o (IF "final" \in image.flags THEN FlagsW(dst, {"final", "used"}) ELSE <<>>)
      \o Delete(src)

\* Mutants of MoveRaw: only the first chunk is copied; the old page goes first.
MoveRawChunk(src, dst, id) ==
    PageW(dst, [flash[src] EXCEPT !.cells = NoCells]) \o LuW(dst, id) \o Delete(src)
MoveRawDeletesFirst(src, dst, id) == Delete(src) \o PageW(dst, flash[src]) \o LuW(dst, id)
\* spiffs_page_move of a page in flash: spiffs_phys_cpy copies it in chunks, the
\* first of them with the header.
MoveRaw(src, dst, id) ==
    PageW(dst, [flash[src] EXCEPT !.cells = NoCells]) \o CellsW(dst, flash[src].cells)
      \o LuW(dst, id) \o Delete(src)

-----------------------------------------------------------------------------
(* Searching and reading *)

Has(p, set, clear) == set \subseteq flash[p].flags /\ flash[p].flags \cap clear = {}

\* spiffs_obj_lu_find_id_and_span_v on the header of page p.
HeaderMatches(p, id, span) ==
    /\ flash[p].id = id /\ flash[p].span = span
    /\ Has(p, {"final", "used"}, {"dele"})
    /\ ~(\E o \in Objs : id = IxId(o) /\ "ixdele" \in flash[p].flags /\ span = 0)
Found(id, span) == {p \in Pages : flash[p].lu = id /\ HeaderMatches(p, id, span)}

\* spiffs_object_find_object_index_header_by_name: the name is in the header page.
Headers(o) ==
    {p \in Pages : /\ flash[p].lu = IxId(o) /\ flash[p].id = IxId(o) /\ flash[p].span = 0
                   /\ Has(p, {"final"}, {"dele", "ixdele"})}
HeaderSize(h) == IF flash[h].size = Blank THEN 0 ELSE flash[h].size

\* spiffs_page_data_check: not whose page it is.
DataOK(d, s) ==
    d \in Pages /\ Has(d, {"used", "final"}, {"dele", "index"}) /\ flash[d].span = s

\* spiffs_object_read of the whole file with header h, when the index page it
\* finds for index span i is ixs[i] (Blank: none).
ReadVia(h, ixs) ==
    LET n == HeaderSize(h)
        ref(s) == LET p == IF IxSpan(s) = 0 THEN h ELSE ixs[IxSpan(s)]
                  IN  IF p = Blank THEN Blank ELSE flash[p].cells[IxEntry(s)]
    IN  IF n = Garbled \/ (n > 0 /\ \E s \in 0 .. PageSpan(n) : ~DataOK(ref(s), s))
        THEN Unreadable
        ELSE [k \in 1 .. n |-> flash[ref(PageSpan(k))].cells[(k - 1) % U]]
\* The index pages a reader may find, one for each index span (Blank: there is none).
IxChoices(o) ==
    LET spans == 1 .. IxSpan(MaxSpan)
        found == [i \in spans |->
                    IF Found(IxId(o), i) = {} THEN {Blank} ELSE Found(IxId(o), i)]
    IN  {ixs \in [spans -> UNION {found[i] : i \in spans}] : \A i \in spans : ixs[i] \in found[i]}
Outcomes(o) ==
    IF Headers(o) = {} THEN {Absent}
    ELSE {ReadVia(h, ixs) : h \in Headers(o), ixs \in IxChoices(o)}

-----------------------------------------------------------------------------
(* Calls *)

Idle == [op |-> "idle"]
Quiet == job = Idle /\ todo = <<>>
NoIx == -1                          \* no index page is loaded yet

Start(call) ==
    /\ Quiet /\ call \in Calls /\ calls < MaxCalls
    /\ calls' = calls + 1
Room == Cardinality(FreePages) >= Reserve
\* A call that adds or changes data is made on a file that can be read.
Readable(o) == Unreadable \notin Outcomes(o)

\* The locals of a call on file o that is to leave new behind: the page of the
\* index header, how far it is (pos, from begin to end), and the index page in
\* fs->work: its span, its page and its references.
Call(op, o, h, begin, end, new) ==
    [op |-> op, o |-> o, hdr |-> h, begin |-> begin, pos |-> begin, end |-> end,
     ix |-> NoIx, ixp |-> h, cells |-> NoCells, new |-> new]
Returning(new) == [op |-> "return", o |-> job.o, new |-> new]
Running(op) == job.op = op /\ todo = <<>>
Keep == UNCHANGED <<flash, want, calls>>

\* The call is over: its file reads as what it was to leave behind.
Return ==
    /\ Running("return")
    /\ job' = Idle
    /\ want' = [want EXCEPT ![job.o] = {job.new}]
    /\ UNCHANGED <<flash, cursor, todo, calls>>

\* The next write reaches the flash.
Write ==
    /\ todo # <<>>
    /\ flash' = [flash EXCEPT ![Head(todo).page] = MeetPage(@, Head(todo).image)]
    /\ todo' = Tail(todo)
    /\ UNCHANGED <<cursor, job, want, calls>>

\* spiffs_object_create: the header is final from the start, its size blank.  No
\* page in the lookup has the new id (spiffs_obj_lu_find_free_obj_id).
Create(o) ==
    /\ Start("create") /\ Room /\ \A p \in Pages : flash[p].lu \notin {DataId(o), IxId(o)}
    /\ \E p \in Pages :
        /\ Take(p)
        /\ todo' = LuW(p, IxId(o)) \o HeaderW(p, IxId(o), 0, {"final", "index", "used"})
    /\ job' = [op |-> "return", o |-> o, new |-> <<>>]
    /\ want' = [want EXCEPT ![o] = {Absent, <<>>}]
    /\ UNCHANGED flash

Fill(k) == [j \in 1 .. k |-> calls + 1]         \* k units of what this call writes

\* Loading the index page of span i that is there already.
Load(i) ==
    /\ \E p \in IF i = 0 THEN {job.hdr} ELSE Found(IxId(job.o), i) :
          job' = [job EXCEPT !.ix = i, !.ixp = p, !.cells = flash[p].cells]
    /\ UNCHANGED <<cursor, todo>> /\ Keep

IxImage == [flash[job.ixp] EXCEPT !.cells = job.cells]
HdrImage(size) == [flash[job.hdr] EXCEPT !.size = size]
HdrImageWith(size) == [HdrImage(size) EXCEPT !.cells = job.cells]

-----------------------------------------------------------------------------
(* spiffs_object_append *)

BeginAppend(o, k) ==
    /\ Start("append") /\ Room /\ Readable(o)
    /\ \E h \in Headers(o), old \in Outcomes(o) :
        LET n == HeaderSize(h) IN
        /\ n + k <= MaxSize
        /\ job' = Call("append", o, h, n, n + k, old \o Fill(k))
        /\ want' = [want EXCEPT ![o] = {old \o Fill(j) : j \in 0 .. k}]
    /\ UNCHANGED <<flash, cursor, todo>>

AppendIx == IxSpan(job.pos \div U)              \* the index page of the next unit
\* The file did not reach that index page yet, or this call filled the one before.
FreshIx == job.pos > job.begin \/ AppendIx > IxSpan(PageSpan(job.begin))

AppendLoad ==
    /\ Running("append") /\ job.ix = NoIx
    /\ IF AppendIx > 0 /\ FreshIx
       THEN \E p \in Pages :
              /\ Take(p)
              /\ todo' = Allocate(p, IxId(job.o), AppendIx, {"final", "index"}, NoCells, TRUE)
              /\ job' = [job EXCEPT !.ix = AppendIx, !.ixp = p, !.cells = NoCells]
              /\ Keep
       ELSE Load(AppendIx)

\* A page of data: a new one, or the rest of the last one, in place.
AppendData ==
    /\ Running("append") /\ job.pos < job.end /\ job.ix = AppendIx
    /\ LET s == job.pos \div U
           off == job.pos % U
           count == Min({job.end - job.pos, U - off})
           data == [c \in Cells |-> IF c \in off .. (off + count - 1) THEN calls ELSE Blank]
           d == job.cells[IxEntry(s)]
           moved == [job EXCEPT !.pos = @ + count]
       IN  \/ /\ off = 0
              /\ \E p \in Pages :
                  /\ Take(p)
                  /\ todo' = Allocate(p, DataId(job.o), s, {"final"}, data, TRUE)
                  /\ job' = [moved EXCEPT !.cells[IxEntry(s)] = p]
              /\ Keep
           \/ /\ off > 0 /\ DataOK(d, s)
              /\ todo' = CellsW(d, data) /\ job' = moved /\ UNCHANGED cursor
              /\ Keep

\* Storing the index page, then the size: the header of a file that was empty is
\* written in place, as it is blank there; otherwise it moves.
AppendStore ==
    /\ Running("append") /\ job.ix # NoIx
    /\ job.pos = job.end \/ job.ix # AppendIx
    /\ LET after(h) == IF job.pos = job.end THEN Returning(job.new)
                       ELSE [job EXCEPT !.ix = NoIx, !.hdr = h]
       IN  \/ /\ job.ix = 0 /\ job.begin = 0
              /\ todo' = PageW(job.hdr, HdrImageWith(job.pos))
              /\ job' = after(job.hdr) /\ UNCHANGED cursor
           \/ /\ job.ix > 0 \/ job.begin > 0
              /\ \E p \in Pages :
                  /\ Take(p)
                  /\ todo' = IF job.ix = 0 THEN Move(job.hdr, p, HdrImageWith(job.pos))
                             ELSE PageW(job.ixp, IxImage) \o Move(job.hdr, p, HdrImage(job.pos))
                  /\ job' = after(p)
    /\ Keep

-----------------------------------------------------------------------------
(* spiffs_object_modify *)

BeginModify(o, begin, k) ==
    /\ Start("modify") /\ Room /\ Readable(o)
    /\ \E h \in Headers(o), old \in Outcomes(o) :
        LET over(j) == [x \in 1 .. Len(old) |->
                          IF x \in (begin + 1) .. (begin + j) THEN calls + 1 ELSE old[x]]
        IN  /\ begin + k <= Len(old)
            /\ job' = Call("modify", o, h, begin, begin + k, over(k))
            /\ want' = [want EXCEPT ![o] = {over(j) : j \in 0 .. k}]
    /\ UNCHANGED <<flash, cursor, todo>>

ModifyLoad ==
    /\ Running("modify") /\ job.ix = NoIx
    /\ Load(IxSpan(job.pos \div U))

\* The whole of a page is written afresh; a part of one goes to a copy of it,
\* finished at last.  The old page is deleted while the index still names it.
ModifyData ==
    /\ Running("modify") /\ job.pos < job.end /\ job.ix = IxSpan(job.pos \div U)
    /\ LET s == job.pos \div U
           off == job.pos % U
           count == Min({job.end - job.pos, U - off})
           data == [c \in Cells |-> IF c \in off .. (off + count - 1) THEN calls ELSE Blank]
           d == job.cells[IxEntry(s)]
           rest == [c \in Cells |-> IF data[c] = Blank THEN flash[d].cells[c] ELSE Blank]
       IN  /\ DataOK(d, s)
           /\ \E p \in Pages :
               /\ Take(p)
               /\ todo' = (IF count = U THEN Allocate(p, DataId(job.o), s, {}, data, TRUE)
                           ELSE Allocate(p, DataId(job.o), s, {}, rest, FALSE)
                                  \o CellsW(p, data) \o FlagsW(p, {"final"}))
                         \o Delete(d)
               /\ job' = [job EXCEPT !.pos = @ + count, !.cells[IxEntry(s)] = p]
    /\ Keep

\* The index page, or the header, moves with its new references.
ModifyStore ==
    /\ Running("modify") /\ job.ix # NoIx
    /\ job.pos = job.end \/ job.ix # IxSpan(job.pos \div U)
    /\ \E p \in Pages :
        /\ Take(p)
        /\ todo' = Move(job.ixp, p, IxImage)
        /\ job' = IF job.pos = job.end THEN Returning(job.new) ELSE [job EXCEPT !.ix = NoIx]
    /\ Keep

-----------------------------------------------------------------------------
(* spiffs_object_truncate to nothing, by SPIFFS_O_TRUNC or to remove the     *)
(* file: from its end, a page at a time                                      *)

\* A file to be removed is marked in its header before anything is deleted.
BeginTruncate(o, op) ==
    /\ Start(op) /\ (op = "truncate" => Room)
    /\ \E h \in Headers(o), old \in Outcomes(o) :
        LET n == HeaderSize(h)
            new == IF op = "remove" THEN Absent ELSE <<>>
        IN  /\ n # Garbled /\ (op = "truncate" => n > 0)
            /\ job' = Call(op, o, h, n, 0, new)
            /\ want' = [want EXCEPT ![o] = {old, new}]
            /\ todo' = IF op = "truncate" THEN <<>>
                       ELSE FlagsW(h, {"used", "index", "final", "ixdele"})
    /\ UNCHANGED <<flash, cursor>>

Truncating == todo = <<>> /\ job.op \in {"truncate", "remove"}
LastIx == IxSpan(PageSpan(job.pos))

\* The index page of the last page there still is.
TruncateLoad ==
    /\ Truncating /\ job.pos > 0 /\ job.ix = NoIx
    /\ Load(LastIx)

\* Mutant of TruncateIx: the index page that was deleted stays the one in memory.
TruncateIxAgain ==
    /\ Truncating /\ job.pos > 0 /\ job.ix \notin {NoIx, LastIx}
    /\ todo' = Delete(job.ixp) /\ UNCHANGED <<job, cursor>> /\ Keep
\* One that was emptied goes; unless the file is removed its size is stored then.
TruncateIx ==
    /\ Truncating /\ job.pos > 0 /\ job.ix \notin {NoIx, LastIx}
    /\ \/ /\ job.op = "remove"
          /\ todo' = Delete(job.ixp) /\ job' = [job EXCEPT !.ix = NoIx]
          /\ UNCHANGED cursor
       \/ /\ job.op = "truncate"
          /\ \E p \in Pages :
                /\ Take(p)
                /\ todo' = Delete(job.ixp) \o Move(job.hdr, p, HdrImage(job.pos))
                /\ job' = [job EXCEPT !.ix = NoIx, !.hdr = p]
    /\ Keep

\* The last page of data goes, if it has not gone before.  (A page that is no data
\* of the file makes the call halt there: RemoveStops in SpiffsLookup.  No file is
\* like that here, nor after a power loss and a check.)
TruncateData ==
    /\ Truncating /\ job.pos > 0 /\ job.ix = LastIx
    /\ LET s == PageSpan(job.pos)
           d == job.cells[IxEntry(s)]
           gone == d = Blank \/ (d \in Pages /\ Has(d, {"used", "dele"}, {}))
       IN  /\ gone \/ DataOK(d, s)
           /\ todo' = IF gone THEN <<>> ELSE Delete(d)
           /\ job' = [job EXCEPT !.cells[IxEntry(s)] = Blank, !.pos = s * U]
    /\ UNCHANGED cursor /\ Keep

\* Nothing is left: the header is deleted, or replaced by an empty one.
TruncateStore ==
    /\ Truncating /\ job.pos = 0
    /\ \/ /\ job.op = "remove"
          /\ todo' = Delete(job.hdr) /\ UNCHANGED cursor
       \/ /\ job.op = "truncate"
          /\ \E p \in Pages :
                /\ Take(p)
                /\ todo' = Move(job.hdr, p, [HdrImage(Blank) EXCEPT !.cells = NoCells])
    /\ job' = Returning(job.new)
    /\ Keep

-----------------------------------------------------------------------------
(* spiffs_gc_clean and the erasure of the block *)

UsedIn(b) == {p \in BlockPages(b) : flash[p].lu \notin {Blank, Deleted}}
DataIn(b) == {p \in UsedIn(b) : \E o \in Objs : flash[p].lu = DataId(o)}
Owner(p) == CHOOSE o \in Objs : flash[p].lu \in {DataId(o), IxId(o)}
\* The index pages that may hold the reference to data page p.
IxPagesFor(p) ==
    IF flash[p].span \in Nat THEN Found(IxId(Owner(p)), IxSpan(flash[p].span)) ELSE {}

\* The collector picks a block with deleted pages, and has room elsewhere.
BeginGc(b) ==
    /\ Start("gc")
    /\ \E p \in BlockPages(b) : flash[p].lu = Deleted
    /\ Cardinality(FreePages \ BlockPages(b)) > Cardinality(UsedIn(b)) + Cardinality(DataIn(b))
    /\ job' = [op |-> "gc", block |-> b]
    /\ cursor' = IF cursor \in BlockPages(b) THEN ((b + 1) % B) * N ELSE cursor
    /\ UNCHANGED <<flash, todo, want>>

\* The first data page left in the block: load the index page it belongs to.  A
\* page that no index can refer to is deleted.
GcFind ==
    /\ Running("gc") /\ DataIn(job.block) # {}
    /\ LET p == Min(DataIn(job.block)) IN
       \/ /\ IxPagesFor(p) = {} /\ todo' = Delete(p) /\ UNCHANGED job
       \/ /\ \E q \in IxPagesFor(p) :
                job' = [op |-> "gc move", block |-> job.block, o |-> Owner(p),
                        ix |-> IxSpan(flash[p].span), ixp |-> q, cells |-> flash[q].cells]
          /\ UNCHANGED todo
    /\ UNCHANGED cursor /\ Keep

\* The data pages of the block that index page covers move, one by one.
GcMovable ==
    {p \in DataIn(job.block) : /\ flash[p].lu = DataId(job.o) /\ flash[p].span \in Nat
                               /\ IxSpan(flash[p].span) = job.ix}
\* Mutant of GcMoveData: the new page is not noted in the index.
GcMoveDataUnnoted ==
    /\ Running("gc move") /\ GcMovable # {}
    /\ \E q \in Pages : /\ Take(q)
                        /\ todo' = MoveRaw(Min(GcMovable), q, DataId(job.o))
    /\ UNCHANGED job /\ Keep
GcMoveData ==
    /\ Running("gc move") /\ GcMovable # {}
    /\ LET p == Min(GcMovable)
           c == IxEntry(flash[p].span)
       IN  IF "dele" \in flash[p].flags
           THEN /\ todo' = Delete(p) /\ job' = [job EXCEPT !.cells[c] = Blank]
                /\ UNCHANGED cursor
           ELSE \E q \in Pages : /\ Take(q)
                                 /\ todo' = MoveRaw(p, q, flash[p].lu)
                                 /\ job' = [job EXCEPT !.cells[c] = q]
    /\ Keep

\* Then the index page, or the header, moves with its new references.
GcStore ==
    /\ Running("gc move") /\ GcMovable = {}
    /\ \E q \in Pages : Take(q) /\ todo' = Move(job.ixp, q, IxImage)
    /\ job' = [op |-> "gc", block |-> job.block, o |-> job.o]
    /\ Keep

\* No data is left: the index pages of the block move as they are.
GcMoveIx ==
    /\ Running("gc") /\ DataIn(job.block) = {} /\ UsedIn(job.block) # {}
    /\ LET p == Min(UsedIn(job.block)) IN
       IF "dele" \in flash[p].flags
       THEN todo' = Delete(p) /\ UNCHANGED cursor
       ELSE \E q \in Pages : Take(q) /\ todo' = MoveRaw(p, q, flash[p].lu)
    /\ UNCHANGED job /\ Keep

\* spiffs_erase_block: the lookup is at the start of the block.
GcEraseLookup ==
    /\ Running("gc") /\ UsedIn(job.block) = {}
    /\ flash' = [p \in Pages |-> IF p \in BlockPages(job.block)
                                 THEN [flash[p] EXCEPT !.lu = Blank] ELSE flash[p]]
    /\ job' = [job EXCEPT !.op = "erase"]
    /\ UNCHANGED <<cursor, todo, want, calls>>
\* Mutant of GcErasePages: only the lookup is erased.
GcErasePagesNot ==
    /\ Running("erase")
    /\ job' = Idle /\ UNCHANGED <<flash, cursor, todo, want, calls>>
GcErasePages ==
    /\ Running("erase")
    /\ flash' = [p \in Pages |-> IF p \in BlockPages(job.block) THEN BlankPage ELSE flash[p]]
    /\ job' = Idle
    /\ UNCHANGED <<cursor, todo, want, calls>>

-----------------------------------------------------------------------------
Init ==
    /\ flash = [p \in Pages |-> BlankPage]
    /\ cursor = 0 /\ todo = <<>> /\ job = Idle /\ calls = 0
    /\ want = [o \in Objs |-> {Absent}]

BeginCall ==
    \/ \E o \in Objs : Create(o)
    \/ \E o \in Objs, k \in 1 .. MaxWrite : BeginAppend(o, k)
    \/ \E o \in Objs, k \in 1 .. MaxWrite, n \in 0 .. MaxSize : BeginModify(o, n, k)
    \/ \E o \in Objs, op \in {"truncate", "remove"} : BeginTruncate(o, op)
    \/ \E b \in 0 .. (B - 1) : BeginGc(b)
CallStep ==
    \/ Write \/ Return
    \/ AppendLoad \/ AppendData \/ AppendStore
    \/ ModifyLoad \/ ModifyData \/ ModifyStore
    \/ TruncateLoad \/ TruncateIx \/ TruncateData \/ TruncateStore
    \/ GcFind \/ GcMoveData \/ GcStore \/ GcMoveIx \/ GcEraseLookup \/ GcErasePages
Next == BeginCall \/ CallStep
Spec == Init /\ [][Next]_vars /\ WF_vars(CallStep)

-----------------------------------------------------------------------------
\* The pages, the locals of the running call and the writes it has still to make.
Values == Nat \cup {Blank, Garbled}
PageType ==
    [lu : Ids \cup {Blank, Deleted, Garbled}, id : Ids \cup {Blank, Garbled}, span : Values,
     flags : SUBSET Flags, size : Values, cells : [Cells -> Values]]
Contents == Seq(Values) \cup {Absent, Unreadable}
JobOK ==
    CASE job.op = "idle" -> TRUE
      [] job.op = "return" -> job.o \in Objs /\ job.new \in Contents
      [] job.op \in {"gc", "erase"} -> job.block \in 0 .. (B - 1)
      [] job.op = "gc move" -> job.ixp \in Pages /\ job.cells \in [Cells -> Values]
      [] OTHER -> /\ job.hdr \in Pages /\ job.ixp \in Pages
                  /\ job.cells \in [Cells -> Values]
                  /\ job.pos \in 0 .. Max({job.begin, job.end})
TypeOK ==
    /\ flash \in [Pages -> PageType] /\ cursor \in 0 .. (B * N)
    /\ todo \in Seq([page : Pages, image : PageType]) /\ JobOK
    /\ want \in [Objs -> SUBSET Contents] /\ calls \in 0 .. MaxCalls

\* Between calls, every file reads as its last call left it, whichever of the
\* matching index pages the search finds.
ReadsBack == Quiet => \A o \in Objs : Outcomes(o) \subseteq want[o]

\* Between calls, a data page in use is referred to by an index page that is in
\* use, in the entry of its span: nothing leaks.
RefsTo(p) ==
    {q \in Pages : /\ \E o \in Objs : flash[q].lu = IxId(o) /\ flash[p].lu = DataId(o)
                   /\ flash[q].span = IxSpan(flash[p].span)
                   /\ flash[q].cells[IxEntry(flash[p].span)] = p}
NothingLost ==
    Quiet => \A p \in Pages : (\E o \in Objs : flash[p].lu = DataId(o)) => RefsTo(p) # {}

\* The lookup never has two final index pages of one span for a file, once a
\* call is over: a search could find either.
OneIndex ==
    Quiet => \A o \in Objs, i \in 0 .. IxSpan(MaxSpan) : Cardinality(Found(IxId(o), i)) <= 1

\* Whatever write comes next, a file that no call creates or removes has a header
\* that is complete: a new one is finished before the old one goes.
AlwaysThere == \A o \in Objs : Absent \notin want[o] => Headers(o) # {}

\* Nothing is written over what was written before: flash would keep neither.
Legible(page) ==
    /\ Garbled \notin {page.lu, page.id} /\ Garbled \notin {page.span, page.size}
    /\ \A c \in Cells : page.cells[c] # Garbled
NoOverwrite == \A p \in Pages : Legible(flash[p])

\* Every call of the API comes to its end.
CallReturns == (~Quiet) ~> Quiet

\* Flash as no write may spoil it: nothing written twice, one index page of a span.
FlashInv == TypeOK /\ OneIndex /\ NoOverwrite
=============================================================================
