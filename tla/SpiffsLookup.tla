---------------------------- MODULE SpiffsLookup ----------------------------
(***************************************************************************)
(* The page allocator and the garbage collector of SPIFFS, seen at the     *)
(* object lookup: every block starts with a table that holds, for each of  *)
(* its pages, the id of the object the page belongs to, 0xffff while the   *)
(* page is free, or 0 once it is deleted.  A page goes from free to used   *)
(* to deleted; only erasing its whole block makes it free again.           *)
(*                                                                         *)
(* Abstracted: the contents of a page, except the span index in the header *)
(* of a data page and the references in an object index page; an object    *)
(* is small enough for its index header (span index 0) to hold all of its  *)
(* references; the erase age in the score of a candidate (Candidates).     *)
(***************************************************************************)
EXTENDS Integers, FiniteSets

CONSTANTS
    B,          \* fs->block_count
    N,          \* SPIFFS_OBJ_LOOKUP_MAX_ENTRIES: pages of a block with an entry
    Objs,       \* the objects (object ids)
    NoObj,      \* the owner of a free or deleted page
    MaxData,    \* bound: data pages an object ever has
    MaxLen,     \* bound: pages worth of data in one write
    MaxGcLen,   \* bound: pages asked of SPIFFS_gc
    QuickMax,   \* bound: the largest max_free_pages given to SPIFFS_gc_quick
    MaxFree,    \* bound: how far collecting free blocks may push fs->free_blocks
    MaxRuns     \* SPIFFS_GC_MAX_RUNS

ASSUME ConstantsAssumption ==
    /\ B \in Nat /\ B >= 3
    /\ N \in Nat /\ N >= 1
    /\ NoObj \notin Objs
    /\ IsFiniteSet(Objs)
    /\ MaxData \in Nat /\ MaxLen \in Nat /\ MaxGcLen \in Nat
    /\ QuickMax \in Nat /\ MaxFree \in Nat /\ MaxRuns \in Nat

Blocks == 0 .. (B - 1)
Entries == 0 .. (N - 1)
NextBlock(b) == IF b + 1 = B THEN 0 ELSE b + 1
Pages == Blocks \X Entries
Spans == 0 .. (MaxData - 1)
NoPage == <<B, 0>>          \* 0xffff in an object index: no page
BadPage == <<B, 1>>         \* a value that is no page of an object at all
NoRefs == [s \in Spans |-> NoPage]

VARIABLES
    lu,                 \* flash: lu[<<b, e>>], entry e of the lookup of block b
    refs,               \* flash: refs[o], the contents of the index page of o
    free_blocks,        \* fs->free_blocks
    stats_p_allocated,  \* fs->stats_p_allocated
    stats_p_deleted,    \* fs->stats_p_deleted
    cursor,             \* <<fs->free_cursor_block_ix, fs->free_cursor_obj_lu_entry>>
    pc,                 \* where the running API call stands
    op,                 \* locals of the running API call
    gc,                 \* locals of spiffs_gc_check and spiffs_gc_clean
    damaged             \* history: the files whose index a call or the collector failed to store

counters == <<free_blocks, stats_p_allocated, stats_p_deleted>>
vars == <<lu, refs, counters, cursor, pc, op, gc, damaged>>

-----------------------------------------------------------------------------
(* Lookup entries *)

FreeEntry == [kind |-> "free", obj |-> NoObj, span |-> 0]
DeletedEntry == [kind |-> "dele", obj |-> NoObj, span |-> 0]
DataEntry(o, s) == [kind |-> "data", obj |-> o, span |-> s]
IndexEntry(o) == [kind |-> "index", obj |-> o, span |-> 0]
CondemnedEntry(o) == [kind |-> "index", obj |-> o, span |-> 1]   \* IXDELE: being removed
LuEntries == {FreeEntry, DeletedEntry}
               \cup {DataEntry(o, s) : o \in Objs, s \in Spans}
               \cup {IndexEntry(o) : o \in Objs} \cup {CondemnedEntry(o) : o \in Objs}

FreePages == {p \in Pages : lu[p] = FreeEntry}
DeletedPages == {p \in Pages : lu[p] = DeletedEntry}
UsedPages == {p \in Pages : lu[p] \notin {FreeEntry, DeletedEntry}}
BlockPages(b) == {b} \X Entries
IndexPages(o) == {p \in Pages : lu[p].kind = "index" /\ lu[p].obj = o}
Exists(o) == \E p \in Pages : lu[p] = IndexEntry(o)
IdInUse(o) == \E p \in Pages : lu[p].obj = o
SpansOf(o) == {s \in Spans : refs[o][s] # NoPage}
SizeOf(o) == Cardinality(SpansOf(o))
FullyFree(b) == BlockPages(b) \subseteq FreePages

\* spiffs_obj_lu_scan_v takes a block for free when its first entry is.
BlocksStartingFree == {b \in Blocks : <<b, 0>> \in FreePages}

-----------------------------------------------------------------------------
(* Allocating and deleting pages *)

\* The visitor starts at the free cursor and wraps at the last block; an entry
\* index one past the end of a block stands for the block after it.
AtOrAfterCursor(p) ==
    p[1] > cursor[1] \/ (p[1] = cursor[1] /\ p[2] >= cursor[2])
Before(p, q) == p[1] < q[1] \/ (p[1] = q[1] /\ p[2] < q[2])
VisitedBefore(p, q) ==
    \/ AtOrAfterCursor(p) /\ ~AtOrAfterCursor(q)
    \/ AtOrAfterCursor(p) = AtOrAfterCursor(q) /\ Before(p, q)

\* spiffs_obj_lu_find_id(SPIFFS_OBJ_ID_FREE): the first free entry from the cursor.
NextFree(p) ==
    /\ p \in FreePages
    /\ \A q \in FreePages : ~VisitedBefore(q, p)

\* Mutant of TakeEntry: the cursor skips an entry.
TakeEntrySkips(p) ==
    /\ cursor' = <<p[1], p[2] + 2>>
    /\ free_blocks' = IF p[2] = 0 THEN free_blocks - 1 ELSE free_blocks

\* The effect of spiffs_obj_lu_find_free once it has found p.
TakeEntry(p) ==
    /\ cursor' = <<p[1], p[2] + 1>>
    /\ free_blocks' = IF p[2] = 0 THEN free_blocks - 1 ELSE free_blocks

\* spiffs_page_allocate_data, and the page spiffs_object_create takes.
AllocatePage(p, entry) ==
    /\ NextFree(p)
    /\ TakeEntry(p)
    /\ lu' = [lu EXCEPT ![p] = entry]
    /\ stats_p_allocated' = stats_p_allocated + 1
    /\ UNCHANGED stats_p_deleted

\* spiffs_page_delete of the pages in gone, all of them used.
DeletePages(gone) ==
    /\ lu' = [p \in Pages |-> IF p \in gone THEN DeletedEntry ELSE lu[p]]
    /\ stats_p_allocated' = stats_p_allocated - Cardinality(gone)
    /\ stats_p_deleted' = stats_p_deleted + Cardinality(gone)
    /\ UNCHANGED <<free_blocks, cursor>>

\* Mutant of MovePage: the source is not counted as deleted.
MovePageUncounted(src, dst) ==
    /\ NextFree(dst)
    /\ TakeEntry(dst)
    /\ lu' = [lu EXCEPT ![dst] = lu[src], ![src] = DeletedEntry]
    /\ UNCHANGED <<stats_p_allocated, stats_p_deleted>>

\* spiffs_page_move: take page dst, copy src there, delete src.
MovePage(src, dst) ==
    /\ NextFree(dst)
    /\ TakeEntry(dst)
    /\ lu' = [lu EXCEPT ![dst] = lu[src], ![src] = DeletedEntry]
    /\ stats_p_deleted' = stats_p_deleted + 1
    /\ UNCHANGED stats_p_allocated

\* Mutant of EraseBlock: the block is not counted as free.
EraseBlockUncounted(b) ==
    /\ lu' = [p \in Pages |-> IF p[1] = b THEN FreeEntry ELSE lu[p]]
    /\ UNCHANGED free_blocks

\* spiffs_erase_block: all pages of b become free, and the block counts as free.
EraseBlock(b) ==
    /\ lu' = [p \in Pages |-> IF p[1] = b THEN FreeEntry ELSE lu[p]]
    /\ free_blocks' = free_blocks + 1

\* The block spiffs_gc_quick(max) erases: the first with nothing but deleted
\* and at most max free pages.
QuickFits(b, max) ==
    /\ BlockPages(b) \cap UsedPages = {}
    /\ Cardinality(BlockPages(b) \cap FreePages) <= max
QuickVictim(b, max) ==
    /\ QuickFits(b, max)
    /\ \A c \in Blocks : c < b => ~QuickFits(c, max)

QuickErase(b, max) ==
    /\ QuickVictim(b, max)
    /\ EraseBlock(b)
    /\ stats_p_deleted' = stats_p_deleted - Cardinality(BlockPages(b) \cap DeletedPages)
    /\ UNCHANGED <<stats_p_allocated, cursor>>

\* Outside the collector spiffs_obj_lu_find_free insists on two free blocks,
\* after one spiffs_gc_quick(0) if need be (op.quick: that call was made).
MayAllocate == free_blocks >= 2 /\ FreePages # {}
MustRunQuick == free_blocks < 2 /\ ~op.quick /\ \E b \in Blocks : QuickFits(b, 0)
AllocationFails == ~MayAllocate /\ ~MustRunQuick

-----------------------------------------------------------------------------
(* spiffs_gc_check: make room for op.need pages before a call changes flash *)

free_pages == N * (B - 2) - stats_p_allocated - stats_p_deleted

\* (s32_t)len < free_pages * page size, where
\* len is need pages exactly (whole) or up to a page less.
LenBelowFree(o) == IF o.whole THEN o.need < free_pages ELSE o.need <= free_pages

Idle == [kind |-> "none", obj |-> NoObj, need |-> 0, whole |-> TRUE, at |-> 0, last |-> 0,
         part |-> {}, work |-> NoRefs, pix |-> NoPage, quick |-> FALSE]
NoGc == [bix |-> 0, entry |-> 0, stored |-> 0, obj |-> NoObj, work |-> NoRefs,
         tries |-> 0, prev |-> 0]

Finish == pc' = "idle" /\ op' = Idle

\* A call spiffs_gc_check lets pass loads its index page and goes on with its
\* own work; SPIFFS_gc has none.
Proceed(o) ==
    /\ pc' = IF o.kind = "gc" THEN "idle" ELSE "work"
    /\ op' = IF o.kind = "gc" THEN Idle
             ELSE IF o.kind = "create" THEN o
             ELSE [o EXCEPT !.work = refs[o.obj]]

\* The head of spiffs_gc_check, up to its loop.
StartCall(o) ==
    /\ pc = "idle"
    /\ \/ /\ free_blocks > 3 /\ LenBelowFree(o)
          /\ Proceed(o)
       \/ /\ ~(free_blocks > 3 /\ LenBelowFree(o))
          /\ o.need <= free_pages + stats_p_deleted    \* else SPIFFS_ERR_FULL
          /\ pc' = "pick" /\ op' = o
    /\ UNCHANGED <<lu, refs, counters, cursor, gc, damaged>>

\* Candidates of spiffs_gc_find_candidate: every block is one.  When the file
\* system is crammed the score is 5 * deleted - used (SPIFFS_GC_HEUR_W_DELET,
\* _W_USED) and the first block of the best score wins.  Otherwise the erase
\* age weighs in, which any block may have more of than all the others.
\* A block counts up to its first free entry.
Counted(b) == {p \in BlockPages(b) : \A q \in BlockPages(b) : q[2] <= p[2] => q \notin FreePages}
Score(b) == 5 * Cardinality(Counted(b) \cap DeletedPages) - Cardinality(Counted(b) \cap UsedPages)
Candidate(b) ==
    free_pages <= 0 =>
        \A c \in Blocks : Score(c) < Score(b) \/ (Score(c) = Score(b) /\ b <= c)

\* One round of the loop: choose a block and move the free cursor out of it.
PickCandidate(b) ==
    /\ pc = "pick"
    /\ Candidate(b)
    /\ FullyFree(b) => free_blocks < MaxFree
    /\ pc' = "find"
    /\ gc' = [gc EXCEPT !.bix = b, !.entry = 0, !.prev = free_pages]
    /\ cursor' = IF cursor[1] = b THEN <<NextBlock(b), 0>> ELSE cursor
    /\ UNCHANGED <<lu, refs, counters, op, damaged>>

-----------------------------------------------------------------------------
(* spiffs_gc_clean, state by state; gc.entry is its cur_entry *)

FirstOf(E, e) == e \in E /\ \A f \in E : e <= f
DataLeft == {e \in Entries : e >= gc.entry /\ lu[<<gc.bix, e>>].kind = "data"}
\* Mutant of SameObjectLeft: the pages of any object go to the index in memory.
SameObjectLeftOfAny == DataLeft
SameObjectLeft == {e \in DataLeft : lu[<<gc.bix, e>>].obj = gc.obj}
\* Mutant of IndexLeft: the last entry of the block is not looked at.
IndexLeftButLast == {e \in Entries : e >= gc.entry /\ e < N - 1 /\ lu[<<gc.bix, e>>].kind = "index"}
IndexLeft == {e \in Entries : e >= gc.entry /\ lu[<<gc.bix, e>>].kind = "index"}

\* Mutant of FindObjData: the index page is not loaded.
FindObjDataUnloaded(e) ==
    /\ pc = "find"
    /\ FirstOf(DataLeft, e)
    /\ Exists(lu[<<gc.bix, e>>].obj)
    /\ pc' = "moveData"
    /\ gc' = [gc EXCEPT !.obj = lu[<<gc.bix, e>>].obj, !.stored = e + 1, !.entry = 0]
    /\ UNCHANGED <<lu, refs, counters, cursor, op, damaged>>

\* FIND_OBJ_DATA: a data page whose index page exists; load that index page.
FindObjData(e) ==
    /\ pc = "find"
    /\ FirstOf(DataLeft, e)
    /\ Exists(lu[<<gc.bix, e>>].obj)
    /\ pc' = "moveData"
    /\ gc' = [gc EXCEPT !.obj = lu[<<gc.bix, e>>].obj, !.work = refs[lu[<<gc.bix, e>>].obj],
                        !.stored = e + 1, !.entry = 0]
    /\ UNCHANGED <<lu, refs, counters, cursor, op, damaged>>

\* FIND_OBJ_DATA: a data page no index page speaks for is deleted.
WipeOrphan(e) ==
    /\ pc = "find"
    /\ FirstOf(DataLeft, e)
    /\ ~Exists(lu[<<gc.bix, e>>].obj)
    /\ DeletePages({<<gc.bix, e>>})
    /\ gc' = [gc EXCEPT !.entry = e + 1]
    /\ UNCHANGED <<refs, pc, op, damaged>>

\* Mutant of NoDataLeft: the scan does not start over for the index pages.
NoDataLeftNoReset ==
    /\ pc = "find"
    /\ DataLeft = {}
    /\ pc' = "moveIx"
    /\ UNCHANGED <<lu, refs, counters, cursor, op, gc, damaged>>

\* FIND_OBJ_DATA: no data page left, go on with the index pages.
NoDataLeft ==
    /\ pc = "find"
    /\ DataLeft = {}
    /\ pc' = "moveIx"
    /\ gc' = [gc EXCEPT !.entry = 0]
    /\ UNCHANGED <<lu, refs, counters, cursor, op, damaged>>

\* Mutant of MoveObjData: the new page is not noted.
MoveObjDataUnnoted(e, dst) ==
    /\ pc = "moveData"
    /\ FirstOf(SameObjectLeft, e)
    /\ MovePage(<<gc.bix, e>>, dst)
    /\ gc' = [gc EXCEPT !.entry = e + 1]
    /\ UNCHANGED <<refs, pc, op, damaged>>

\* MOVE_OBJ_DATA: move the next data page of the object, note it in memory.
MoveObjData(e, dst) ==
    /\ pc = "moveData"
    /\ FirstOf(SameObjectLeft, e)
    /\ MovePage(<<gc.bix, e>>, dst)
    /\ gc' = [gc EXCEPT !.work = [@ EXCEPT ![lu[<<gc.bix, e>>].span] = dst], !.entry = e + 1]
    /\ UNCHANGED <<refs, pc, op, damaged>>

\* MOVE_OBJ_DATA: all moved, store the index page under its new references.
StoreObjIndex(src, dst) ==
    /\ pc = "moveData"
    /\ SameObjectLeft = {}
    /\ src \in IndexPages(gc.obj)
    /\ MovePage(src, dst)
    /\ refs' = [refs EXCEPT ![gc.obj] = gc.work]
    /\ gc' = [gc EXCEPT !.obj = NoObj, !.work = NoRefs, !.entry = gc.stored, !.stored = 0]
    /\ pc' = "find"
    /\ UNCHANGED <<op, damaged>>

\* MOVE_OBJ_IX: move the next index page of the block.
MoveObjIx(e, dst) ==
    /\ pc = "moveIx"
    /\ FirstOf(IndexLeft, e)
    /\ MovePage(<<gc.bix, e>>, dst)
    /\ gc' = [gc EXCEPT !.entry = e + 1]
    /\ UNCHANGED <<refs, pc, op, damaged>>

\* No free entry anywhere: the collector gives up, and with it the call; a file
\* whose data it has moved keeps an index of the pages it moved away.
CleanFails ==
    /\ \/ pc = "moveData"
       \/ pc = "moveIx" /\ IndexLeft # {}
    /\ FreePages = {}
    /\ pc' = "idle"
    /\ op' = Idle
    /\ gc' = NoGc
    /\ damaged' = IF pc = "moveData" /\ gc.work # refs[gc.obj]
                  THEN damaged \cup {gc.obj} ELSE damaged
    /\ UNCHANGED <<lu, refs, counters, cursor>>

\* The loop of spiffs_gc_check goes on after a run that left so many free pages
\* and so many free blocks.
RunsAgain(left, blocks) ==
    /\ ~(gc.prev <= 0 /\ gc.prev = left)
    /\ gc.tries + 1 < MaxRuns
    /\ blocks <= 2 \/ op.need > left

\* Mutant of NextRun: the runs are not counted.
NextRunUncounted == [NoGc EXCEPT !.tries = gc.tries]
NextRun == [NoGc EXCEPT !.tries = gc.tries + 1]

\* FINISHED: spiffs_gc_erase_page_stats and spiffs_gc_erase_block, then on to
\* the next run, an error or the work of the call.
EraseCleaned ==
    LET b == gc.bix
        allocated == Cardinality(BlockPages(b) \cap UsedPages)
        deleted == Cardinality(BlockPages(b) \cap DeletedPages)
        left == N * (B - 2) - stats_p_allocated' - stats_p_deleted'
        again == RunsAgain(left, free_blocks')
    IN  /\ pc = "moveIx"
        /\ IndexLeft = {}
        /\ EraseBlock(b)
        /\ stats_p_allocated' = stats_p_allocated - allocated
        /\ stats_p_deleted' = stats_p_deleted - deleted
        /\ \/ again /\ pc' = "pick" /\ UNCHANGED op
           \/ ~again /\ op.need > left /\ Finish              \* SPIFFS_ERR_FULL
           \/ ~again /\ op.need <= left /\ Proceed(op)
        /\ gc' = IF again THEN NextRun ELSE NoGc
        /\ UNCHANGED <<refs, cursor, damaged>>

-----------------------------------------------------------------------------
(* The API calls: how each begins *)

Call(kind, o, need, whole, at, last, part) ==
    [Idle EXCEPT !.kind = kind, !.obj = o, !.need = need, !.whole = whole,
                 !.at = at, !.last = last, !.part = part]

\* SPIFFS_open or SPIFFS_creat of a new file: spiffs_object_create.  Its id is
\* one that no lookup entry holds (spiffs_obj_lu_find_free_obj_id).
Create(o) ==
    /\ ~IdInUse(o)
    /\ StartCall(Call("create", o, 1, TRUE, 0, 0, {}))

\* spiffs_object_append of len pages worth of data (whole: exactly that much).
\* It allocates len data pages, or one less when the first part of the data
\* fits the last page of the file.
Append(o, len, whole) ==
    /\ Exists(o) /\ o \notin damaged
    /\ \E fill \in {0, 1} :
        /\ fill = 1 => ~whole /\ SizeOf(o) > 0
        /\ SizeOf(o) + len - fill <= MaxData
        /\ StartCall(Call("append", o, len + 1, whole, SizeOf(o), SizeOf(o) + len - fill - 1, {}))

\* spiffs_object_modify of len pages worth of data from somewhere in page at.
\* Starting inside a page it may touch one page more; part are the pages of
\* which it keeps some bytes.
Modify(o, len, whole, at) ==
    /\ Exists(o) /\ o \notin damaged
    /\ \E aligned \in BOOLEAN, extra \in {0, 1} :
        LET last == at + len - 1 + extra
            part == IF ~aligned THEN {at, last} ELSE IF whole THEN {} ELSE {last}
        IN  /\ aligned => extra = 0
            /\ ~aligned /\ whole => extra = 1
            /\ at .. last \subseteq SpansOf(o)
            /\ StartCall(Call("modify", o, len + 1, whole, at, last, part))

\* spiffs_object_truncate to nothing: SPIFFS_open with SPIFFS_O_TRUNC.
Truncate(o) ==
    /\ Exists(o) /\ o \notin damaged
    /\ SizeOf(o) > 0
    /\ StartCall(Call("truncate", o, 2, TRUE, 0, 0, {}))

\* SPIFFS_gc: nothing but spiffs_gc_check.
Gc(len) == StartCall([Idle EXCEPT !.kind = "gc", !.need = len])

\* SPIFFS_rename: spiffs_object_update_index_hdr without spiffs_gc_check.
Rename(o) ==
    /\ pc = "idle"
    /\ Exists(o) /\ o \notin damaged
    /\ pc' = "store"
    /\ op' = [Call("rename", o, 0, TRUE, 0, 0, {}) EXCEPT !.work = refs[o]]
    /\ UNCHANGED <<lu, refs, counters, cursor, gc, damaged>>

\* spiffs_object_truncate goes through the spans from the last one down.  It
\* deletes the pages that pass spiffs_page_data_check, which looks at the span
\* index and not at the owner; it skips the deleted ones and stops at any other.
Passes(p, span) == lu[p].kind = "data" /\ lu[p].span = span
Refused(work) ==
    {s \in Spans : /\ work[s] # NoPage
                   /\ work[s] \in Pages => ~Passes(work[s], s) /\ lu[work[s]] # DeletedEntry}
TruncatedPages(work) ==
    {p \in Pages : \E s \in Spans : work[s] = p /\ Passes(p, s) /\ \A t \in Refused(work) : t < s}

\* A stale reference in the index of a damaged file takes the page of another
\* file with it.
DamagedByRemoving(o) ==
    {d \in damaged \cup {lu[p].obj : p \in TruncatedPages(refs[o])} : d # o /\ Exists(d)}

\* SPIFFS_remove: spiffs_object_truncate with remove_full, needs no room.
Remove(o) ==
    /\ pc = "idle"
    /\ Exists(o)
    /\ Refused(refs[o]) = {}
    /\ DeletePages(TruncatedPages(refs[o]) \cup IndexPages(o))
    /\ refs' = [refs EXCEPT ![o] = NoRefs]
    /\ damaged' = DamagedByRemoving(o)
    /\ UNCHANGED <<pc, op, gc>>

\* SPIFFS_remove of a damaged file that stops on the way: the index page stays,
\* marked as being removed, and is about to move.
RemoveStops(o) ==
    /\ pc = "idle"
    /\ Exists(o)
    /\ Refused(refs[o]) # {}
    /\ LET gone == TruncatedPages(refs[o])
       IN  /\ lu' = [p \in Pages |-> IF p \in gone THEN DeletedEntry
                                     ELSE IF p \in IndexPages(o) THEN CondemnedEntry(o) ELSE lu[p]]
           /\ stats_p_allocated' = stats_p_allocated - Cardinality(gone)
           /\ stats_p_deleted' = stats_p_deleted + Cardinality(gone)
    /\ refs' = [refs EXCEPT ![o] = NoRefs]
    /\ damaged' = DamagedByRemoving(o)
    /\ pc' = "store"
    /\ op' = Call("remove", o, 0, TRUE, 0, 0, {})
    /\ UNCHANGED <<free_blocks, cursor, gc>>

\* SPIFFS_gc_quick.
GcQuick(max, b) ==
    /\ pc = "idle"
    /\ QuickErase(b, max)
    /\ UNCHANGED <<refs, pc, op, gc, damaged>>

\* SPIFFS_unmount and SPIFFS_mount: the cursor is back at the first block and
\* spiffs_obj_lu_scan counts anew.
Remount ==
    /\ pc = "idle"
    /\ cursor' = <<0, 0>>
    /\ free_blocks' = Cardinality(BlocksStartingFree)
    /\ stats_p_allocated' = Cardinality(UsedPages)
    /\ stats_p_deleted' = Cardinality(DeletedPages)
    /\ UNCHANGED <<lu, refs, pc, op, gc, damaged>>

-----------------------------------------------------------------------------
(* The API calls: their work once spiffs_gc_check has let them pass *)

\* spiffs_gc_quick(0) from inside spiffs_obj_lu_find_free.
QuickInFindFree(b) ==
    /\ \/ pc = "work" /\ op.kind # "truncate" /\ op.at <= op.last
       \/ pc = "store" /\ ~(op.kind = "append" /\ SizeOf(op.obj) = 0)
    /\ MustRunQuick
    /\ QuickErase(b, 0)
    /\ op' = [op EXCEPT !.quick = TRUE]
    /\ UNCHANGED <<refs, pc, gc, damaged>>

CreateIndex(p) ==
    /\ pc = "work" /\ op.kind = "create"
    /\ MayAllocate
    /\ AllocatePage(p, IndexEntry(op.obj))
    /\ refs' = [refs EXCEPT ![op.obj] = NoRefs]
    /\ Finish
    /\ UNCHANGED <<gc, damaged>>

CreateFails ==
    /\ pc = "work" /\ op.kind = "create"
    /\ AllocationFails
    /\ Finish
    /\ UNCHANGED <<lu, refs, counters, cursor, gc, damaged>>

\* One round of the loop of spiffs_object_append.
AppendPage(p) ==
    /\ pc = "work" /\ op.kind = "append" /\ op.at <= op.last
    /\ MayAllocate
    /\ AllocatePage(p, DataEntry(op.obj, op.at))
    /\ op' = [op EXCEPT !.work = [@ EXCEPT ![op.at] = p], !.at = op.at + 1, !.quick = FALSE]
    /\ UNCHANGED <<refs, pc, gc, damaged>>

\* One round of the loop of spiffs_object_modify: a new page for the span,
\* then the old one is deleted.
ModifyPage(p) ==
    /\ pc = "work" /\ op.kind = "modify" /\ op.at <= op.last
    /\ MayAllocate
    /\ NextFree(p)
    /\ TakeEntry(p)
    /\ lu' = [lu EXCEPT ![p] = DataEntry(op.obj, op.at), ![op.work[op.at]] = DeletedEntry]
    /\ stats_p_deleted' = stats_p_deleted + 1
    /\ op' = [op EXCEPT !.work = [@ EXCEPT ![op.at] = p], !.at = op.at + 1,
                        !.pix = p, !.quick = FALSE]
    /\ UNCHANGED <<refs, stats_p_allocated, pc, gc, damaged>>

\* No page for a span spiffs_object_modify overwrites entirely: the result of
\* the allocation is not looked at, the old page is deleted all the same, and
\* the index gets whatever data_pix holds: the page of the round before or, in
\* the first round, an uninitialized value.
ModifyLosesPage(junk) ==
    /\ pc = "work" /\ op.kind = "modify" /\ op.at <= op.last /\ op.at \notin op.part
    /\ AllocationFails
    /\ op.pix # NoPage => junk = op.pix
    /\ DeletePages({op.work[op.at]})
    /\ op' = [op EXCEPT !.work = [@ EXCEPT ![op.at] = junk], !.at = op.at + 1, !.quick = FALSE]
    /\ damaged' = damaged \cup {op.obj}
    /\ UNCHANGED <<refs, pc, gc>>

\* No page for an append, or for a span modified in part: leave the loop.
LeaveLoop ==
    /\ pc = "work" /\ op.kind \in {"append", "modify"} /\ op.at <= op.last
    /\ op.kind = "modify" => op.at \in op.part
    /\ AllocationFails
    /\ op' = [op EXCEPT !.quick = FALSE]
    /\ pc' = "store"
    /\ UNCHANGED <<lu, refs, counters, cursor, gc, damaged>>

\* All data written: finalize the index page.
LoopDone ==
    /\ pc = "work" /\ op.kind \in {"append", "modify"} /\ op.at > op.last
    /\ pc' = "store"
    /\ UNCHANGED <<lu, refs, counters, cursor, op, gc, damaged>>

\* The loop of spiffs_object_truncate deletes the data pages one after another.
TruncateData ==
    /\ pc = "work" /\ op.kind = "truncate"
    /\ DeletePages(TruncatedPages(op.work))
    /\ op' = [op EXCEPT !.work = NoRefs]
    /\ pc' = "store"
    /\ UNCHANGED <<refs, gc, damaged>>

\* The first append to an empty file writes its index page in place.
StoreFresh ==
    /\ pc = "store" /\ op.kind = "append" /\ SizeOf(op.obj) = 0
    /\ refs' = [refs EXCEPT ![op.obj] = op.work]
    /\ Finish
    /\ UNCHANGED <<lu, counters, cursor, gc, damaged>>

\* spiffs_object_update_index_hdr: the index page moves.
StoreIndex(src, dst) ==
    /\ pc = "store" /\ ~(op.kind = "append" /\ SizeOf(op.obj) = 0)
    /\ MayAllocate
    /\ src \in IndexPages(op.obj)
    /\ MovePage(src, dst)
    /\ refs' = [refs EXCEPT ![op.obj] = op.work]
    /\ Finish
    /\ UNCHANGED <<gc, damaged>>

\* The index page cannot move: the old one stays, whatever happened to the data.
StoreFails ==
    /\ pc = "store" /\ ~(op.kind = "append" /\ SizeOf(op.obj) = 0)
    /\ AllocationFails
    /\ damaged' = IF op.work = refs[op.obj] THEN damaged ELSE damaged \cup {op.obj}
    /\ Finish
    /\ UNCHANGED <<lu, refs, counters, cursor, gc>>

-----------------------------------------------------------------------------

\* SPIFFS_format and SPIFFS_mount.
Init ==
    /\ lu = [p \in Pages |-> FreeEntry]
    /\ refs = [o \in Objs |-> NoRefs]
    /\ free_blocks = B
    /\ stats_p_allocated = 0
    /\ stats_p_deleted = 0
    /\ cursor = <<0, 0>>
    /\ pc = "idle"
    /\ op = Idle
    /\ gc = NoGc
    /\ damaged = {}

CallNext ==
    \/ \E o \in Objs : Create(o) \/ Truncate(o) \/ Rename(o) \/ Remove(o) \/ RemoveStops(o)
    \/ \E o \in Objs, len \in 1 .. MaxLen, whole \in BOOLEAN :
        \/ Append(o, len, whole)
        \/ \E at \in Spans : Modify(o, len, whole, at)
    \/ \E len \in 1 .. MaxGcLen : Gc(len)
    \/ \E max \in 0 .. QuickMax, b \in Blocks : GcQuick(max, b)
    \/ Remount

CleanNext ==
    \/ \E b \in Blocks : PickCandidate(b)
    \/ \E e \in Entries : FindObjData(e) \/ WipeOrphan(e)
    \/ NoDataLeft
    \/ \E e \in Entries, dst \in Pages : MoveObjData(e, dst) \/ MoveObjIx(e, dst)
    \/ \E src, dst \in Pages : StoreObjIndex(src, dst)
    \/ CleanFails
    \/ EraseCleaned

WorkNext ==
    \/ \E b \in Blocks : QuickInFindFree(b)
    \/ \E p \in Pages : CreateIndex(p) \/ AppendPage(p) \/ ModifyPage(p)
    \/ \E junk \in Pages \cup {NoPage, BadPage} : ModifyLosesPage(junk)
    \/ CreateFails \/ LeaveLoop \/ LoopDone \/ TruncateData
    \/ StoreFresh \/ StoreFails
    \/ \E src, dst \in Pages : StoreIndex(src, dst)

Next == CallNext \/ CleanNext \/ WorkNext

Spec == Init /\ [][Next]_vars

\* The file system runs in the thread of its caller: a call that has begun
\* goes on until it returns.
FairSpec == Spec /\ WF_vars(CleanNext \/ WorkNext)

-----------------------------------------------------------------------------
(* Properties *)

Works == [Spans -> Pages \cup {NoPage, BadPage}]

Calls == [kind : {"none", "create", "append", "modify", "truncate", "rename", "remove", "gc"},
          obj : Objs \cup {NoObj}, need : Nat, whole : BOOLEAN, at : Nat, last : 0 .. MaxData,
          part : SUBSET Nat, work : Works, pix : Pages \cup {NoPage}, quick : BOOLEAN]

Cleanings == [bix : Blocks, entry : 0 .. N, stored : 0 .. N, obj : Objs \cup {NoObj},
              work : Works, tries : Nat, prev : Int]

\* Every variable has its type: entries are free, deleted or owned, the cursor
\* stays within a block or one past its end.
TypeOK ==
    /\ lu \in [Pages -> LuEntries]
    /\ refs \in [Objs -> Works]
    /\ free_blocks \in Int /\ stats_p_allocated \in Int /\ stats_p_deleted \in Int
    /\ cursor \in Blocks \X (0 .. N)
    /\ pc \in {"idle", "pick", "find", "moveData", "moveIx", "work", "store"}
    /\ op \in Calls
    /\ op.kind \in {"append", "modify"} => op.last < MaxData
    /\ op.kind \notin {"none", "gc"} => op.obj \in Objs
    /\ pc = "idle" <=> op.kind = "none"
    /\ pc \in {"work", "store"} => op.kind # "gc"
    /\ gc \in Cleanings
    /\ pc = "moveData" => gc.obj \in Objs
    /\ damaged \subseteq Objs

\* The counters spiffs_gc_check trusts to tell how much room is left agree with
\* what flash holds, after any sequence of calls, collections and failures.
StatsExact ==
    /\ stats_p_allocated = Cardinality(UsedPages)
    /\ stats_p_deleted = Cardinality(DeletedPages)

\* free_blocks never tells less than the blocks there are: an allocation is
\* never refused for want of blocks that are in fact free.
FreeBlocksCovered == free_blocks >= Cardinality(BlocksStartingFree)

\* "Scan logic ensures that all following entries are free also"
\* (spiffs_gc_find_candidate): no used or deleted entry follows a free one.
FreeSuffix ==
    \A b \in Blocks : \A e, f \in Entries :
        e < f /\ <<b, e>> \in FreePages => <<b, f>> \in FreePages

\* A file has one index page: neither a call nor the collector leaves two, or
\* moves away the only one.
OneIndex == \A o \in Objs : Cardinality(IndexPages(o)) <= 1

DataPages(o) == {p \in Pages : lu[p].kind = "data" /\ lu[p].obj = o}

\* Between calls on it, the index of a file names all of the data pages of the
\* file and no other page, each under its own span index and without a gap:
\* collecting blocks, and calls on other files, lose and leak none.  Excepted are
\* files whose index could not be stored, and those the removal of such a file hits.
RefsExact ==
    \A o \in Objs \ damaged :
        Exists(o) /\ op.obj # o /\ gc.obj # o =>
            /\ DataPages(o) = {refs[o][s] : s \in SpansOf(o)}
            /\ \A s \in SpansOf(o) : lu[refs[o][s]].span = s
            /\ SpansOf(o) = 0 .. (SizeOf(o) - 1)

\* The collector erases no page that is in use: all that was in the block it
\* cleans has moved by then, even what it moved within that block.
NoLiveErase ==
    [][\A p \in Pages : p[1] = gc.bix /\ p \in UsedPages => lu'[p] # FreeEntry]_vars

\* What the calls promise, whatever the collector does in their middle: the
\* pages of data each file has change as SpiffsStore says, and by no other step.
Files == [o \in Objs |-> IF ~Exists(o) THEN -1 ELSE IF o \in damaged THEN -2 ELSE SizeOf(o)]
Store == INSTANCE SpiffsStore WITH files <- Files, calling <- op.kind, on <- op.obj,
                                   NoFile <- -1, Damaged <- -2
StoreSpec == Store!Spec

\* Every call returns: moving pages within the block that is cleaned, and the
\* rounds of spiffs_gc_check, come to an end.
CallReturns == pc # "idle" ~> pc = "idle"

-----------------------------------------------------------------------------
(* What the documentation says, and the code does not keep *)

\* SPIFFS_write "returns number of bytes written, or -1 if error" (spiffs.h):
\* when spiffs_object_modify succeeds, its index names a page for what it wrote.
ModifyStores ==
    [][(op.kind = "modify" /\ pc = "store" /\ refs' # refs)
          => (\A s \in SpansOf(op.obj) :
                 \E p \in Pages : p = refs'[op.obj][s] /\ lu'[p] = DataEntry(op.obj, s))]_vars
=============================================================================
