---------------------------- MODULE SpiffsCache ----------------------------
(***************************************************************************)
(* The page cache (spiffs_cache.c) under the nucleus: copies of pages read *)
(* from flash, through which every read and write of spiffs goes, and,     *)
(* among them, the pages that hold what is written to a file until it is   *)
(* flushed.                                                                *)
(*                                                                         *)
(* A page is the set of its bits that are 0; a write to the flash adds to  *)
(* it, a write to a copy replaces the bits of the part that is written, as *)
(* memcpy does.  The two come to the same only if who writes knows what    *)
(* the part holds; a blind write ("all bits set to 1 and only those it     *)
(* needs reset set to 0", spiffs_config.h:329) does not.                   *)
(***************************************************************************)
EXTENDS Naturals

CONSTANTS
    Blocks,     \* the blocks of the flash: disjoint sets of pages
    Lookup,     \* the pages of the lookup tables, the last one of a block has its erase count
    Bits,       \* the bits of a page
    Objs,       \* the files that are written
    NoObj,      \* of a cache page that is not a file's
    K,          \* cache->cpage_count
    Clock       \* the values of last_access are 0 .. Clock - 1 (2^32 in the code)

Pages == UNION Blocks

ASSUME BlocksDisjoint == \A b, c \in Blocks : b # c => b \cap c = {}
ASSUME LookupAssumption == Lookup \subseteq Pages
ASSUME NoObjAssumption == NoObj \notin Objs
ASSUME CacheAssumption == K \in Nat /\ Clock \in Nat \ {0}

VARIABLES
    flash,      \* [Pages -> SUBSET Bits]
    slots,      \* the cache pages
    now,        \* cache->last_access
    blind       \* pages with a copy that a blind write went to (history)

vars == <<flash, slots, now, blind>>

Slots == 0 .. K - 1

\* A cache page: read, of a page; written, of a file; or free.
ReadSlot(p, mem, last) == [use |-> "read", page |-> {p}, mem |-> mem, obj |-> NoObj, last |-> last]
WriteSlot(o, last) == [use |-> "write", page |-> {}, mem |-> {}, obj |-> o, last |-> last]
FreeSlot == [use |-> "free", page |-> {}, mem |-> {}, obj |-> NoObj, last |-> 0]

-----------------------------------------------------------------------------
\* The helpers

Tick == (now + 1) % Clock

\* spiffs_cache_page_get finds a copy of the page in this cache page.
Holds(s, p) == slots[s].use = "read" /\ slots[s].page = {p}

Cached(p) == \E s \in Slots : Holds(s, p)

SlotOf(p) == CHOOSE s \in Slots : Holds(s, p) /\ \A t \in Slots : Holds(t, p) => s <= t

\* What spiffs reads in the page.
View(p) == IF Cached(p) THEN slots[SlotOf(p)].mem ELSE flash[p]

Full == \A s \in Slots : slots[s].use # "free"

\* spiffs_cache_page_remove_oldest: the age is a difference modulo the width,
\* and a page of age 0 is never the oldest.  The pages of files are not looked at.
Age(s, time) == (time + Clock - slots[s].last) % Clock

\* Also the pages of files.
EvictableAny(time) == {s \in Slots : Age(s, time) > 0}

Evictable(time) == {s \in Slots : slots[s].use = "read" /\ Age(s, time) > 0}

Oldest(time) ==
    CHOOSE s \in Evictable(time) :
        \A t \in Evictable(time) :
            Age(t, time) < Age(s, time) \/ (Age(t, time) = Age(s, time) /\ s <= t)

\* spiffs_cache_page_remove_oldest, then spiffs_cache_page_allocate: the
\* cache page there is, if any.
Room(time) ==
    IF ~ Full
    THEN {CHOOSE s \in Slots : slots[s].use = "free" /\ \A t \in Slots : slots[t].use = "free" => s <= t}
    ELSE IF Evictable(time) = {} THEN {} ELSE {Oldest(time)}

\* The copies of these pages go, and with them what was wrong in them.
Forget(ps) == blind' = blind \ ps

-----------------------------------------------------------------------------
\* The functions

\* spiffs_phys_rd of a page that the cache holds.
ReadHit(p) ==
    /\ Cached(p)
    /\ now' = Tick
    /\ slots' = [slots EXCEPT ![SlotOf(p)].last = Tick]
    /\ UNCHANGED <<flash, blind>>

\* spiffs_phys_rd of a page that the cache does not hold: the oldest one makes
\* room.  If all cache pages are files', the page is read past the cache.
ReadMiss(p) ==
    /\ ~ Cached(p)
    /\ now' = Tick
    /\ IF Room(Tick) = {}
       THEN UNCHANGED <<slots, blind>>
       ELSE \E s \in Room(Tick) :
                /\ slots' = [slots EXCEPT ![s] = ReadSlot(p, flash[p], Tick)]
                /\ Forget(slots[s].page)
    /\ UNCHANGED flash

\* spiffs_phys_rd with SPIFFS_OP_T_OBJ_LU2: not put into the cache.
ReadPast(p) ==
    /\ ~ Cached(p)
    /\ now' = Tick
    /\ UNCHANGED <<flash, slots, blind>>

\* spiffs_phys_wr clears the bits zeros of the part of page p.
Write(p, part, zeros) ==
    /\ zeros \subseteq part
    /\ flash' = [flash EXCEPT ![p] = @ \cup zeros]
    /\ IF Cached(p)
       THEN /\ now' = Tick
            /\ slots' = [slots EXCEPT ![SlotOf(p)].mem = (@ \ part) \cup zeros,
                                      ![SlotOf(p)].last = Tick]
       ELSE UNCHANGED <<now, slots>>

\* A write by one who has seen what the part holds, or writes what was never written.
WriteKnown(p, part, zeros) ==
    /\ View(p) \cap part \subseteq zeros
    /\ Write(p, part, zeros)
    /\ UNCHANGED blind

\* A blind write to the flags of a page header: spiffs_delete_obj_lazy, and the check of pages not final.
WriteBlind(p, part, zeros) ==
    /\ Write(p, part, zeros)
    /\ blind' = IF Cached(p) THEN blind \cup {p} ELSE blind

\* spiffs_phys_wr with SPIFFS_OP_C_DELE (spiffs_page_delete), blind.  The copy goes.
WriteDeletes(p, part, zeros) ==
    /\ zeros \subseteq part
    /\ flash' = [flash EXCEPT ![p] = @ \cup zeros]
    /\ IF Cached(p)
       THEN slots' = [slots EXCEPT ![SlotOf(p)] = FreeSlot]
       ELSE UNCHANGED slots
    /\ Forget({p})
    /\ UNCHANGED now

\* The pages of the lookup table are not dropped.
DropPagesButLookup(b) ==
    slots' = [s \in Slots |-> IF slots[s].page \cap (b \ Lookup) # {} THEN FreeSlot ELSE slots[s]]

\* spiffs_cache_drop_page for every page of a block.
DropPages(b) ==
    slots' = [s \in Slots |-> IF slots[s].page \cap b # {} THEN FreeSlot ELSE slots[s]]

\* spiffs_gc_erase_block: the erase count is written to the lookup page past
\* the cache (SPIFFS_OP_C_WRTHRU), then all pages of the block are dropped.
EraseBlock(b, last, count) ==
    /\ flash' = [p \in Pages |-> IF p \notin b THEN flash[p] ELSE IF p = last THEN count ELSE {}]
    /\ DropPages(b)
    /\ Forget(b)
    /\ UNCHANGED now

\* spiffs_cache_page_allocate_by_fd: the file has no cache page yet.
AllocateByFd(o) ==
    /\ \A s \in Slots : slots[s].obj # o
    /\ \E s \in Room(now) :
        /\ slots' = [slots EXCEPT ![s] = WriteSlot(o, now)]
        /\ Forget(slots[s].page)
    /\ UNCHANGED <<flash, now>>

\* spiffs_cache_fd_release
FdRelease(o) ==
    /\ \E s \in Slots :
        /\ slots[s].obj = o
        /\ slots' = [slots EXCEPT ![s] = FreeSlot]
    /\ UNCHANGED <<flash, now, blind>>

\* SPIFFS_unmount flushes all files, SPIFFS_mount calls spiffs_cache_init.
Remount ==
    /\ \A s \in Slots : slots[s].use # "write"
    /\ slots' = [s \in Slots |-> FreeSlot]
    /\ now' = 0
    /\ blind' = {}
    /\ UNCHANGED flash

-----------------------------------------------------------------------------

Init ==
    /\ flash = [p \in Pages |-> {}]
    /\ slots = [s \in Slots |-> FreeSlot]
    /\ now = 0
    /\ blind = {}

Next ==
    \/ \E p \in Pages : ReadHit(p) \/ ReadMiss(p) \/ ReadPast(p)
    \/ \E p \in Pages, part \in SUBSET Bits : \E zeros \in SUBSET part :
        \/ WriteKnown(p, part, zeros)
        \/ p \notin Lookup /\ (WriteBlind(p, part, zeros) \/ WriteDeletes(p, part, zeros))
    \/ \E b \in Blocks, count \in SUBSET Bits : \E last \in b \cap Lookup : EraseBlock(b, last, count)
    \/ \E o \in Objs : AllocateByFd(o) \/ FdRelease(o)
    \/ Remount

Spec == Init /\ [][Next]_vars

-----------------------------------------------------------------------------
\* Properties

TypeOK ==
    /\ flash \in [Pages -> SUBSET Bits]
    /\ slots \in [Slots -> [use : {"free", "read", "write"}, page : SUBSET Pages, mem : SUBSET Bits,
                            obj : Objs \cup {NoObj}, last : 0 .. Clock - 1]]
    /\ now \in 0 .. Clock - 1
    /\ blind \subseteq Pages

\* No page has two copies, and no file two cache pages: a write would reach the
\* first of them only.
OneCopy ==
    \A s, t \in Slots :
        s # t => /\ slots[s].page \cap slots[t].page = {}
                 /\ slots[s].use = "write" => slots[s].obj # slots[t].obj

\* A copy is what the flash holds, whatever was written, deleted, erased, evicted
\* and however often the clock went round, unless a blind write went to it; what
\* that did is over when the copy goes.
Coherent ==
    /\ \A s \in Slots : \A p \in slots[s].page : p \notin blind => slots[s].mem = flash[p]
    /\ \A p \in blind : Cached(p)

\* Even then the copy shows no bit written that the flash does not have: what is
\* read as written is written.
CopiesBehind == \A s \in Slots : \A p \in slots[s].page : slots[s].mem \subseteq flash[p]

\* The cache and the flash under it, at all times.
CacheInv == TypeOK /\ OneCopy /\ Coherent /\ CopiesBehind

\* The data a file has in the cache is not given up for a page that is read.
FilesKept ==
    [][\A o \in Objs : (\E s \in Slots : slots[s].obj = o)
            => (\E s \in Slots : slots'[s].obj = o) \/ FdRelease(o)]_vars
=============================================================================
