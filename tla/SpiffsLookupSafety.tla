-------------------------- MODULE SpiffsLookupSafety --------------------------
(***************************************************************************)
(* SpiffsLookup, for every number of blocks, entries and files: type       *)
(* correctness, the count of free blocks, the inductive invariant, and     *)
(* what follows from it.  Then the files: no file loses a page or has a    *)
(* gap (FilesInv), and with that each step of SpiffsLookup is a step of    *)
(* SpiffsStore, or none.                                                   *)
(***************************************************************************)
EXTENDS SpiffsLookupInv, FiniteSetTheorems, TLAPS

-----------------------------------------------------------------------------
(* Finite sets of pages *)

LEMMA PagesFinite == IsFiniteSet(Blocks) /\ IsFiniteSet(Pages)
  <1>1. B - 1 \in Int /\ N - 1 \in Int
    BY ConstantsAssumption DEF ConstantsAssumption
  <1>2. IsFiniteSet(0 .. (B - 1)) /\ IsFiniteSet(0 .. (N - 1))
    BY <1>1, FS_Interval
  <1> QED BY <1>2, FS_Product DEF Pages, Blocks, Entries

LEMMA PageCount ==
  ASSUME NEW S \in SUBSET Pages
  PROVE  IsFiniteSet(S) /\ Cardinality(S) \in Nat
  BY PagesFinite, FS_Subset, FS_CardinalityType

LEMMA SpanCount ==
  ASSUME NEW S \in SUBSET Spans
  PROVE  IsFiniteSet(S) /\ Cardinality(S) \in Nat
  <1>1. MaxData - 1 \in Int
    BY ConstantsAssumption DEF ConstantsAssumption
  <1>2. IsFiniteSet(Spans)
    BY <1>1, FS_Interval DEF Spans
  <1> QED BY <1>2, FS_Subset, FS_CardinalityType

\* The sets of pages the counters are about.
LEMMA PageSets ==
  /\ FreePages \in SUBSET Pages /\ DeletedPages \in SUBSET Pages
  /\ UsedPages \in SUBSET Pages /\ BlocksStartingFree \in SUBSET Blocks
  /\ \A b \in Blocks : BlockPages(b) \in SUBSET Pages
  /\ \A o \in Objs : IndexPages(o) \in SUBSET Pages
  BY DEF FreePages, DeletedPages, UsedPages, BlocksStartingFree, BlockPages, Pages, IndexPages

-----------------------------------------------------------------------------
(* Type correctness *)

LEMMA EntryTypes ==
  /\ FreeEntry \in LuEntries /\ DeletedEntry \in LuEntries
  /\ \A o \in Objs : IndexEntry(o) \in LuEntries /\ CondemnedEntry(o) \in LuEntries
  /\ \A o \in Objs, s \in Spans : DataEntry(o, s) \in LuEntries
  /\ NoRefs \in Works /\ Idle \in Calls /\ NoGc \in Cleanings
  BY ConstantsAssumption
  DEF ConstantsAssumption, LuEntries, NoRefs, Works, Idle, Calls, NoGc, Cleanings,
      Blocks, Entries

\* An entry is free, deleted, or that of a data or an index page of an object.
LEMMA EntryKinds ==
  ASSUME NEW x \in LuEntries
  PROVE  /\ x.kind = "free" <=> x = FreeEntry
         /\ x.kind = "dele" <=> x = DeletedEntry
         /\ x.kind = "data" => x.obj \in Objs /\ x.span \in Spans /\ x = DataEntry(x.obj, x.span)
         /\ x.kind = "index" => x.obj \in Objs
         /\ x.kind \in {"free", "dele", "data", "index"}
  BY DEF LuEntries, FreeEntry, DeletedEntry, IndexEntry, CondemnedEntry, DataEntry

LEMMA TypeInit == Init => TypeOK
  BY EntryTypes, ConstantsAssumption
  DEF ConstantsAssumption, Init, TypeOK, Blocks, Entries, Idle

LEMMA NextBlockType == \A b \in Blocks : NextBlock(b) \in Blocks
  BY ConstantsAssumption DEF ConstantsAssumption, NextBlock, Blocks

LEMMA SizeType ==
  ASSUME NEW o \in Objs
  PROVE  SizeOf(o) \in Nat
  BY SpanCount DEF SizeOf, SpansOf

\* What the state changes do to the types of the variables they set.
LEMMA TakeType ==
  ASSUME TypeOK, NEW p \in Pages, TakeEntry(p)
  PROVE  free_blocks' \in Int /\ cursor' \in Blocks \X (0 .. N)
  BY ConstantsAssumption
  DEF ConstantsAssumption, TypeOK, TakeEntry, Pages, Blocks, Entries

LEMMA AllocateType ==
  ASSUME TypeOK, NEW p, NEW entry \in LuEntries, AllocatePage(p, entry)
  PROVE  /\ p \in Pages
         /\ lu' \in [Pages -> LuEntries]
         /\ free_blocks' \in Int /\ stats_p_allocated' \in Int /\ stats_p_deleted' \in Int
         /\ cursor' \in Blocks \X (0 .. N)
  <1>1. p \in Pages
    BY DEF AllocatePage, NextFree, FreePages
  <1> QED BY <1>1, TakeType DEF TypeOK, AllocatePage

LEMMA DeleteType ==
  ASSUME TypeOK, NEW gone, Cardinality(gone) \in Nat, DeletePages(gone)
  PROVE  /\ lu' \in [Pages -> LuEntries]
         /\ free_blocks' \in Int /\ stats_p_allocated' \in Int /\ stats_p_deleted' \in Int
         /\ cursor' \in Blocks \X (0 .. N)
  BY EntryTypes DEF TypeOK, DeletePages

LEMMA MoveType ==
  ASSUME TypeOK, NEW src \in Pages, NEW dst, MovePage(src, dst)
  PROVE  /\ dst \in Pages
         /\ lu' \in [Pages -> LuEntries]
         /\ free_blocks' \in Int /\ stats_p_allocated' \in Int /\ stats_p_deleted' \in Int
         /\ cursor' \in Blocks \X (0 .. N)
  <1>1. dst \in Pages
    BY DEF MovePage, NextFree, FreePages
  <1> QED BY <1>1, TakeType, EntryTypes DEF TypeOK, MovePage

LEMMA QuickEraseType ==
  ASSUME TypeOK, NEW b \in Blocks, NEW max, QuickErase(b, max)
  PROVE  /\ lu' \in [Pages -> LuEntries]
         /\ free_blocks' \in Int /\ stats_p_allocated' \in Int /\ stats_p_deleted' \in Int
         /\ cursor' \in Blocks \X (0 .. N)
  <1>1. Cardinality(BlockPages(b) \cap DeletedPages) \in Nat
    BY PageCount, PageSets
  <1> QED BY <1>1, EntryTypes DEF TypeOK, QuickErase, EraseBlock

LEMMA StartType ==
  ASSUME TypeOK, NEW o \in Calls, StartCall(o), o.kind # "none",
         o.kind \in {"append", "modify"} => o.last < MaxData,
         o.kind # "gc" => o.obj \in Objs
  PROVE  TypeOK'
  <1>1. CASE Proceed(o) /\ UNCHANGED <<lu, refs, counters, cursor, gc, damaged>>
    <2>1. o.kind = "gc" => op' = Idle /\ pc' = "idle"
      BY <1>1 DEF Proceed
    <2>2. o.kind # "gc" => op' \in Calls /\ op'.kind = o.kind /\ op'.last = o.last
                             /\ op'.obj = o.obj /\ pc' = "work"
      BY <1>1 DEF Proceed, Calls, TypeOK
    <2>3. op' \in Calls /\ pc' \in {"idle", "work"}
      BY <2>1, <2>2, EntryTypes
    <2>4. /\ op'.kind \in {"append", "modify"} => op'.last < MaxData
          /\ op'.kind \notin {"none", "gc"} => op'.obj \in Objs
          /\ pc' = "idle" <=> op'.kind = "none"
          /\ pc' \in {"work", "store"} => op'.kind # "gc"
      BY <2>1, <2>2 DEF Idle
    <2>5. <<lu, refs, free_blocks, stats_p_allocated, stats_p_deleted, cursor, gc, damaged>>'
            = <<lu, refs, free_blocks, stats_p_allocated, stats_p_deleted, cursor, gc, damaged>>
      BY <1>1 DEF counters
    <2> QED BY <2>3, <2>4, <2>5 DEF TypeOK
  <1>2. CASE pc' = "pick" /\ op' = o /\ UNCHANGED <<lu, refs, counters, cursor, gc, damaged>>
    BY <1>2 DEF TypeOK, counters
  <1> QED BY <1>1, <1>2 DEF StartCall

\* The updates of a call's and of the collector's locals.
LEMMA UpdateType ==
  ASSUME NEW c \in Cleanings
  PROVE  /\ \A b \in Blocks, i \in 0 .. N, n \in Int :
               [c EXCEPT !.bix = b, !.entry = i, !.prev = n] \in Cleanings
         /\ \A o \in Objs \cup {NoObj}, w \in Works, i, j \in 0 .. N :
               /\ [c EXCEPT !.obj = o, !.work = w, !.stored = i, !.entry = j] \in Cleanings
               /\ [c EXCEPT !.obj = o, !.work = w, !.entry = j, !.stored = i] \in Cleanings
         /\ \A w \in Works, i \in 0 .. N : [c EXCEPT !.work = w, !.entry = i] \in Cleanings
         /\ \A i \in 0 .. N : [c EXCEPT !.entry = i] \in Cleanings
  <1>1. \A b \in Blocks, i \in 0 .. N, n \in Int :
           [c EXCEPT !.bix = b, !.entry = i, !.prev = n] \in Cleanings
    BY DEF Cleanings
  <1>2. ASSUME NEW o \in Objs \cup {NoObj}, NEW w \in Works, NEW i \in 0 .. N, NEW j \in 0 .. N
        PROVE  /\ [c EXCEPT !.obj = o, !.work = w, !.stored = i, !.entry = j] \in Cleanings
               /\ [c EXCEPT !.obj = o, !.work = w, !.entry = j, !.stored = i] \in Cleanings
    <2>1. [c EXCEPT !.obj = o, !.work = w, !.stored = i, !.entry = j] \in Cleanings
      BY DEF Cleanings
    <2>2. [c EXCEPT !.obj = o, !.work = w, !.entry = j, !.stored = i] \in Cleanings
      BY DEF Cleanings
    <2> QED BY <2>1, <2>2
  <1>3. \A w \in Works, i \in 0 .. N : [c EXCEPT !.work = w, !.entry = i] \in Cleanings
    BY DEF Cleanings
  <1>4. \A i \in 0 .. N : [c EXCEPT !.entry = i] \in Cleanings
    BY DEF Cleanings
  <1> QED BY ZenonT(60), <1>1, <1>2, <1>3, <1>4

\* The calls that begin.
LEMMA TypeCalls == TypeOK /\ CallNext => TypeOK'
  <1> SUFFICES ASSUME TypeOK, CallNext PROVE TypeOK'
    OBVIOUS
  <1>1. ASSUME NEW o \in Objs, Create(o) PROVE TypeOK'
    <2> DEFINE c == Call("create", o, 1, TRUE, 0, 0, {})
    <2>1. c \in Calls /\ c.kind = "create" /\ c.obj = o
      BY EntryTypes, ConstantsAssumption DEF ConstantsAssumption, Call, Calls, Idle
    <2>2. StartCall(c)
      BY <1>1 DEF Create
    <2> QED BY <2>1, <2>2, StartType
  <1>2. ASSUME NEW o \in Objs, NEW len \in 1 .. MaxLen, NEW whole \in BOOLEAN,
               Append(o, len, whole)
        PROVE  TypeOK'
    <2>1. PICK fill \in {0, 1} :
            /\ fill = 1 => ~whole /\ SizeOf(o) > 0
            /\ SizeOf(o) + len - fill <= MaxData
            /\ StartCall(Call("append", o, len + 1, whole, SizeOf(o), SizeOf(o) + len - fill - 1, {}))
      BY <1>2 DEF Append
    <2> DEFINE c == Call("append", o, len + 1, whole, SizeOf(o), SizeOf(o) + len - fill - 1, {})
    <2>2. /\ len + 1 \in Nat /\ SizeOf(o) \in Nat
          /\ SizeOf(o) + len - fill - 1 \in 0 .. MaxData
          /\ SizeOf(o) + len - fill - 1 < MaxData
      BY <2>1, SizeType, ConstantsAssumption DEF ConstantsAssumption
    <2>3. c \in Calls /\ c.kind = "append" /\ c.obj = o /\ c.last < MaxData
      BY <2>2, EntryTypes DEF Call, Calls, Idle
    <2> QED BY <2>1, <2>3, StartType
  <1>3. ASSUME NEW o \in Objs, NEW len \in 1 .. MaxLen, NEW whole \in BOOLEAN, NEW at \in Spans,
               Modify(o, len, whole, at)
        PROVE  TypeOK'
    <2>1. PICK aligned \in BOOLEAN, extra \in {0, 1} :
            LET last == at + len - 1 + extra
                part == IF ~aligned THEN {at, last} ELSE IF whole THEN {} ELSE {last}
            IN  /\ at .. last \subseteq SpansOf(o)
                /\ StartCall(Call("modify", o, len + 1, whole, at, last, part))
      BY <1>3 DEF Modify
    <2> DEFINE last == at + len - 1 + extra
               part == IF ~aligned THEN {at, last} ELSE IF whole THEN {} ELSE {last}
               c == Call("modify", o, len + 1, whole, at, last, part)
    <2>2. at \in Nat /\ last \in Nat /\ at <= last /\ len + 1 \in Nat
      BY ConstantsAssumption DEF ConstantsAssumption, Spans
    <2>3. last \in Spans
      BY <2>1, <2>2 DEF SpansOf
    <2>4. last \in 0 .. MaxData /\ last < MaxData
      BY <2>3, ConstantsAssumption DEF ConstantsAssumption, Spans
    <2>5. part \in SUBSET Nat
      BY <2>2
    <2> HIDE DEF last, part
    <2>6. c \in Calls /\ c.kind = "modify" /\ c.obj = o /\ c.last < MaxData
      BY <2>2, <2>4, <2>5, EntryTypes DEF Call, Calls, Idle
    <2>7. StartCall(c)
      BY <2>1 DEF last, part
    <2> QED BY <2>6, <2>7, StartType
  <1>4. ASSUME NEW o \in Objs, Truncate(o) PROVE TypeOK'
    <2> DEFINE c == Call("truncate", o, 2, TRUE, 0, 0, {})
    <2>1. c \in Calls /\ c.kind = "truncate" /\ c.obj = o
      BY EntryTypes, ConstantsAssumption DEF ConstantsAssumption, Call, Calls, Idle
    <2>2. StartCall(c)
      BY <1>4 DEF Truncate
    <2> QED BY <2>1, <2>2, StartType
  <1>5. ASSUME NEW o \in Objs, Rename(o) PROVE TypeOK'
    <2>1. /\ op' \in Calls /\ op'.kind = "rename" /\ op'.obj = o
      BY <1>5, EntryTypes, ConstantsAssumption
      DEF ConstantsAssumption, TypeOK, Rename, Call, Calls, Idle
    <2> QED BY <1>5, <2>1 DEF TypeOK, Rename, counters
  <1>6. ASSUME NEW o \in Objs, Remove(o) PROVE TypeOK'
    <2> DEFINE gone == TruncatedPages(refs[o]) \cup IndexPages(o)
    <2>1. gone \in SUBSET Pages
      BY PageSets DEF TruncatedPages
    <2>2. DeletePages(gone)
      BY <1>6 DEF Remove
    <2>3. /\ lu' \in [Pages -> LuEntries]
          /\ free_blocks' \in Int /\ stats_p_allocated' \in Int /\ stats_p_deleted' \in Int
          /\ cursor' \in Blocks \X (0 .. N)
      BY <2>1, <2>2, PageCount, DeleteType
    <2>4. ASSUME NEW p \in TruncatedPages(refs[o]) PROVE lu[p].obj \in Objs
      BY EntryKinds DEF TypeOK, TruncatedPages, Passes
    <2>5. damaged' \subseteq Objs
      BY <1>6, <2>4 DEF TypeOK, Remove, DamagedByRemoving
    <2>6. refs' \in [Objs -> Works]
      BY <1>6, EntryTypes DEF TypeOK, Remove
    <2> QED BY <1>6, <2>3, <2>5, <2>6 DEF TypeOK, Remove
  <1>10. ASSUME NEW o \in Objs, RemoveStops(o) PROVE TypeOK'
    <2> DEFINE gone == TruncatedPages(refs[o])
               c == Call("remove", o, 0, TRUE, 0, 0, {})
    <2>1. IsFiniteSet(gone) /\ Cardinality(gone) \in Nat
      BY PageCount DEF TruncatedPages
    <2>2. lu' \in [Pages -> LuEntries]
      BY <1>10, EntryTypes DEF TypeOK, RemoveStops
    <2>3. stats_p_allocated' \in Int /\ stats_p_deleted' \in Int
      BY <1>10, <2>1 DEF TypeOK, RemoveStops
    <2>4. ASSUME NEW p \in TruncatedPages(refs[o]) PROVE lu[p].obj \in Objs
      BY EntryKinds DEF TypeOK, TruncatedPages, Passes
    <2>5. damaged' \subseteq Objs
      BY <1>10, <2>4 DEF TypeOK, RemoveStops, DamagedByRemoving
    <2>6. refs' \in [Objs -> Works]
      BY <1>10, EntryTypes DEF TypeOK, RemoveStops
    <2>7. c \in Calls /\ c.kind = "remove" /\ c.obj = o
      BY EntryTypes DEF Call, Calls, Idle
    <2>8. op' = c
      BY <1>10 DEF RemoveStops
    <2> HIDE DEF c
    <2> QED BY <1>10, <2>2, <2>3, <2>5, <2>6, <2>7, <2>8 DEF TypeOK, RemoveStops
  <1>7. ASSUME NEW len \in 1 .. MaxGcLen, Gc(len) PROVE TypeOK'
    <2> DEFINE c == [Idle EXCEPT !.kind = "gc", !.need = len]
    <2>0. len \in Nat
      BY ConstantsAssumption DEF ConstantsAssumption
    <2>1. c \in Calls /\ c.kind = "gc"
      BY <2>0, EntryTypes DEF Calls, Idle
    <2>2. StartCall(c)
      BY <1>7 DEF Gc
    <2> QED BY <2>1, <2>2, StartType
  <1>8. ASSUME NEW max, NEW b \in Blocks, GcQuick(max, b) PROVE TypeOK'
    BY <1>8, QuickEraseType DEF TypeOK, GcQuick
  <1>9. CASE Remount
    <2>1. /\ Cardinality(UsedPages) \in Int /\ Cardinality(DeletedPages) \in Int
      BY PageSets, PageCount
    <2>3. Cardinality(BlocksStartingFree) \in Int
      BY PagesFinite, PageSets, FS_Subset, FS_CardinalityType
    <2>4. cursor' \in Blocks \X (0 .. N)
      BY <1>9, ConstantsAssumption DEF ConstantsAssumption, Remount, Blocks
    <2> QED BY <1>9, <2>1, <2>3, <2>4 DEF TypeOK, Remount
  <1> QED BY <1>1, <1>2, <1>3, <1>4, <1>5, <1>6, <1>7, <1>8, <1>9, <1>10 DEF CallNext

\* The collector.
LEMMA TypeCleaning == TypeOK /\ CleanNext => TypeOK'
  <1> SUFFICES ASSUME TypeOK, CleanNext PROVE TypeOK'
    OBVIOUS
  <1> USE ConstantsAssumption DEF ConstantsAssumption
  <1>0. /\ gc.bix \in Blocks /\ gc.entry \in 0 .. N /\ gc.stored \in 0 .. N
        /\ \A e \in Entries : <<gc.bix, e>> \in Pages
    BY DEF TypeOK, Cleanings, Pages
  <1>1. ASSUME NEW b \in Blocks, PickCandidate(b) PROVE TypeOK'
    <2>1. free_pages \in Int
      BY DEF TypeOK, free_pages
    <2>2. gc' \in Cleanings
      BY <1>1, <2>1, 0 \in 0 .. N, UpdateType DEF TypeOK, PickCandidate
    <2>3. cursor' \in Blocks \X (0 .. N)
      BY <1>1, NextBlockType DEF TypeOK, PickCandidate
    <2> QED BY <1>1, <2>2, <2>3 DEF TypeOK, PickCandidate, counters
  <1>2. ASSUME NEW e \in Entries, FindObjData(e) PROVE TypeOK'
    <2>1. lu[<<gc.bix, e>>].obj \in Objs
      BY <1>0, <1>2, EntryKinds DEF TypeOK, FindObjData, FirstOf, DataLeft
    <2>2. e + 1 \in 0 .. N
      BY DEF Entries
    <2>3. refs[lu[<<gc.bix, e>>].obj] \in Works /\ lu[<<gc.bix, e>>].obj \in Objs \cup {NoObj}
      BY <2>1 DEF TypeOK
    <2>4. gc' \in Cleanings
      BY <1>2, <2>2, <2>3, 0 \in 0 .. N, UpdateType DEF TypeOK, FindObjData
    <2>5. gc'.obj \in Objs
      BY <1>2, <2>1 DEF TypeOK, Cleanings, FindObjData
    <2> QED BY <1>2, <2>4, <2>5 DEF TypeOK, FindObjData, counters
  <1>3. ASSUME NEW e \in Entries, WipeOrphan(e) PROVE TypeOK'
    <2>1. DeletePages({<<gc.bix, e>>})
      BY <1>3 DEF WipeOrphan
    <2>2. Cardinality({<<gc.bix, e>>}) \in Nat
      BY <1>0, PageCount
    <2>3. gc' \in Cleanings
      BY <1>3, e + 1 \in 0 .. N, UpdateType DEF TypeOK, WipeOrphan, Entries
    <2> QED BY <1>3, <2>1, <2>2, <2>3, DeleteType DEF TypeOK, WipeOrphan
  <1>4. CASE NoDataLeft
    BY <1>4 DEF TypeOK, Cleanings, NoDataLeft, counters
  <1>5. ASSUME NEW e \in Entries, NEW dst \in Pages, MoveObjData(e, dst) PROVE TypeOK'
    <2>1. MovePage(<<gc.bix, e>>, dst)
      BY <1>5 DEF MoveObjData
    <2>2. lu[<<gc.bix, e>>].span \in Spans
      BY <1>0, <1>5, EntryKinds DEF TypeOK, MoveObjData, FirstOf, SameObjectLeft, DataLeft
    <2>3. [gc.work EXCEPT ![lu[<<gc.bix, e>>].span] = dst] \in Works
      BY <2>2 DEF TypeOK, Cleanings, Works
    <2>4. gc' \in Cleanings
      BY <1>5, <2>3, e + 1 \in 0 .. N, UpdateType DEF TypeOK, MoveObjData, Entries
    <2> QED BY <1>0, <1>5, <2>1, <2>4, MoveType DEF TypeOK, MoveObjData
  <1>6. ASSUME NEW e \in Entries, NEW dst \in Pages, MoveObjIx(e, dst) PROVE TypeOK'
    <2>1. MovePage(<<gc.bix, e>>, dst)
      BY <1>6 DEF MoveObjIx
    <2>2. gc' \in Cleanings
      BY <1>6 DEF TypeOK, Cleanings, MoveObjIx, Entries
    <2> QED BY <1>0, <1>6, <2>1, <2>2, MoveType DEF TypeOK, MoveObjIx
  <1>7. ASSUME NEW src \in Pages, NEW dst \in Pages, StoreObjIndex(src, dst) PROVE TypeOK'
    <2>1. MovePage(src, dst)
      BY <1>7 DEF StoreObjIndex
    <2>2. gc' \in Cleanings /\ refs' \in [Objs -> Works]
      <3>1. gc.stored \in 0 .. N /\ 0 \in 0 .. N /\ gc.work \in Works /\ NoObj \in Objs \cup {NoObj}
        BY DEF TypeOK, Cleanings
      <3>2. gc' \in Cleanings
        BY ZenonT(60), <1>7, <3>1, EntryTypes, UpdateType DEF TypeOK, StoreObjIndex
      <3> QED BY <1>7, <3>1, <3>2 DEF TypeOK, StoreObjIndex
    <2> QED BY <1>7, <2>1, <2>2, MoveType DEF TypeOK, StoreObjIndex
  <1>8. CASE CleanFails
    <2>1. damaged' \subseteq Objs
      BY <1>8 DEF TypeOK, CleanFails
    <2> QED BY <1>8, <2>1, EntryTypes DEF TypeOK, CleanFails, counters, Idle
  <1>9. CASE EraseCleaned
    <2> DEFINE allocated == Cardinality(BlockPages(gc.bix) \cap UsedPages)
               deleted == Cardinality(BlockPages(gc.bix) \cap DeletedPages)
    <2>1. allocated \in Nat /\ deleted \in Nat
      BY <1>0, PageCount, PageSets
    <2> HIDE DEF allocated, deleted
    <2>2. /\ EraseBlock(gc.bix)
          /\ stats_p_allocated' = stats_p_allocated - allocated
          /\ stats_p_deleted' = stats_p_deleted - deleted
          /\ gc' = NextRun \/ gc' = NoGc
          /\ \/ pc' = "pick" /\ UNCHANGED op
             \/ Finish
             \/ Proceed(op)
          /\ UNCHANGED <<refs, cursor, damaged>>
      BY <1>9 DEF EraseCleaned, allocated, deleted
    <2>3. gc' \in Cleanings
      BY <2>2, EntryTypes DEF TypeOK, Cleanings, NextRun
    <2>4. lu' \in [Pages -> LuEntries] /\ free_blocks' \in Int
      BY <2>2, EntryTypes DEF TypeOK, EraseBlock
    <2>5. /\ pc' \in {"pick", "idle", "work"}
          /\ op' \in Calls
          /\ op'.kind \in {"append", "modify"} => op'.last < MaxData
          /\ op'.kind \notin {"none", "gc"} => op'.obj \in Objs
          /\ pc' = "idle" <=> op'.kind = "none"
          /\ pc' \in {"work", "store"} => op'.kind # "gc"
      <3>1. CASE pc' = "pick" /\ UNCHANGED op
        BY <1>9, <3>1 DEF TypeOK, EraseCleaned
      <3>2. CASE Finish
        BY <3>2, EntryTypes DEF Finish, Idle
      <3>3. CASE Proceed(op)
        <4>1. CASE op.kind = "gc"
          BY <3>3, <4>1, EntryTypes DEF Proceed, Idle
        <4>2. CASE op.kind = "create"
          BY <3>3, <4>2 DEF Proceed, TypeOK
        <4>3. CASE op.kind \notin {"gc", "create"}
          <5>1. op \in Calls /\ refs[op.obj] \in Works
            BY <1>9, <4>3 DEF TypeOK, EraseCleaned
          <5>2. /\ [op EXCEPT !.work = refs[op.obj]] \in Calls
            BY <5>1 DEF Calls
          <5>3. op' = [op EXCEPT !.work = refs[op.obj]] /\ pc' = "work"
            BY <3>3, <4>3 DEF Proceed
          <5>4. op'.kind = op.kind /\ op'.last = op.last /\ op'.obj = op.obj
            BY <5>1, <5>3 DEF Calls
          <5>5. op.kind # "none"
            BY <1>9 DEF TypeOK, EraseCleaned
          <5> QED BY <4>3, <5>2, <5>3, <5>4, <5>5 DEF TypeOK
        <4> QED BY <4>1, <4>2, <4>3
      <3> QED BY <2>2, <3>1, <3>2, <3>3
    <2> QED BY <2>1, <2>2, <2>3, <2>4, <2>5 DEF TypeOK
  <1> QED BY <1>1, <1>2, <1>3, <1>4, <1>5, <1>6, <1>7, <1>8, <1>9 DEF CleanNext

\* The work of the calls.
LEMMA TypeWork == TypeOK /\ WorkNext => TypeOK'
  <1> SUFFICES ASSUME TypeOK, WorkNext PROVE TypeOK'
    OBVIOUS
  <1> USE ConstantsAssumption DEF ConstantsAssumption
  <1>a. ASSUME Finish
        PROVE  /\ op' \in Calls /\ pc' = "idle"
               /\ op'.kind = "none"
    BY <1>a, EntryTypes DEF Finish, Idle
  <1>b. ASSUME NEW w \in Works, NEW i \in Nat, NEW q \in Pages \cup {NoPage}
        PROVE  /\ [op EXCEPT !.work = w, !.at = i, !.quick = FALSE] \in Calls
               /\ [op EXCEPT !.work = w, !.at = i, !.pix = q, !.quick = FALSE] \in Calls
               /\ [op EXCEPT !.work = w] \in Calls
               /\ [op EXCEPT !.quick = FALSE] \in Calls
               /\ [op EXCEPT !.quick = TRUE] \in Calls
    <2>0. op \in Calls
      BY DEF TypeOK
    <2>1. [op EXCEPT !.work = w, !.at = i, !.quick = FALSE] \in Calls
      BY <1>b, <2>0 DEF Calls
    <2>2. [op EXCEPT !.work = w, !.at = i, !.pix = q, !.quick = FALSE] \in Calls
      BY <1>b, <2>0 DEF Calls
    <2>3. [op EXCEPT !.work = w] \in Calls
      BY <1>b, <2>0 DEF Calls
    <2>4. [op EXCEPT !.quick = FALSE] \in Calls /\ [op EXCEPT !.quick = TRUE] \in Calls
      BY <2>0 DEF Calls
    <2> QED BY <2>1, <2>2, <2>3, <2>4
  <1>c. ASSUME pc = "work", op.kind \in {"append", "modify"}, op.at <= op.last
        PROVE  /\ op.obj \in Objs /\ op.at \in Spans /\ op.at + 1 \in Nat /\ op.work \in Works
               /\ DataEntry(op.obj, op.at) \in LuEntries
    <2>1. op.obj \in Objs /\ op.at \in Spans /\ op.at + 1 \in Nat /\ op.work \in Works
      BY <1>c DEF TypeOK, Calls, Spans
    <2> QED BY <2>1, EntryTypes
  <1>1. ASSUME NEW b \in Blocks, QuickInFindFree(b) PROVE TypeOK'
    <2>1. QuickErase(b, 0)
      BY <1>1 DEF QuickInFindFree
    <2>2. op' = [op EXCEPT !.quick = TRUE]
      BY <1>1 DEF QuickInFindFree
    <2>3. op' \in Calls /\ op'.kind = op.kind /\ op'.last = op.last /\ op'.obj = op.obj
      BY <2>2, <1>b, 0 \in Nat, EntryTypes, NoPage \in Pages \cup {NoPage} DEF TypeOK, Calls
    <2> QED BY <1>1, <2>1, <2>3, QuickEraseType DEF TypeOK, QuickInFindFree
  <1>2. ASSUME NEW p \in Pages, CreateIndex(p) PROVE TypeOK'
    <2>1. /\ AllocatePage(p, IndexEntry(op.obj)) /\ op.obj \in Objs
          /\ Finish
      BY <1>2 DEF TypeOK, CreateIndex
    <2>2. IndexEntry(op.obj) \in LuEntries /\ refs' \in [Objs -> Works]
      BY <1>2, <2>1, EntryTypes DEF TypeOK, CreateIndex
    <2> QED BY <1>2, <2>1, <2>2, <1>a, AllocateType DEF TypeOK, CreateIndex
  <1>3. ASSUME NEW p \in Pages, AppendPage(p) PROVE TypeOK'
    <2>1. /\ op.obj \in Objs /\ op.at \in Spans /\ op.at + 1 \in Nat /\ op.work \in Works
          /\ DataEntry(op.obj, op.at) \in LuEntries
      BY <1>3, <1>c DEF AppendPage
    <2>2. [op.work EXCEPT ![op.at] = p] \in Works
      BY <2>1 DEF Works
    <2>3. op' = [op EXCEPT !.work = [op.work EXCEPT ![op.at] = p], !.at = op.at + 1, !.quick = FALSE]
      BY <1>3 DEF AppendPage
    <2>4. op' \in Calls
      BY <2>1, <2>2, <2>3, <1>b
    <2>5. op'.kind = op.kind /\ op'.last = op.last /\ op'.obj = op.obj
      BY <2>3 DEF TypeOK, Calls
    <2>6. AllocatePage(p, DataEntry(op.obj, op.at))
      BY <1>3 DEF AppendPage
    <2> QED BY <1>3, <2>1, <2>4, <2>5, <2>6, AllocateType DEF TypeOK, AppendPage
  <1>4. ASSUME NEW p \in Pages, ModifyPage(p) PROVE TypeOK'
    <2>1. /\ op.obj \in Objs /\ op.at \in Spans /\ op.at + 1 \in Nat /\ op.work \in Works
          /\ DataEntry(op.obj, op.at) \in LuEntries
      BY <1>4, <1>c DEF ModifyPage
    <2>2. [op.work EXCEPT ![op.at] = p] \in Works
      BY <2>1 DEF Works
    <2>3. op' = [op EXCEPT !.work = [op.work EXCEPT ![op.at] = p], !.at = op.at + 1,
                           !.pix = p, !.quick = FALSE]
      BY <1>4 DEF ModifyPage
    <2>4. op' \in Calls
      BY <2>1, <2>2, <2>3, <1>b
    <2>5. op'.kind = op.kind /\ op'.last = op.last /\ op'.obj = op.obj
      BY <2>3 DEF TypeOK, Calls
    <2>6. lu' \in [Pages -> LuEntries] /\ stats_p_deleted' \in Int
      <3> DEFINE mid == [lu EXCEPT ![p] = DataEntry(op.obj, op.at)]
      <3>1. mid \in [Pages -> LuEntries]
        BY <2>1 DEF TypeOK
      <3>2. lu' = [mid EXCEPT ![op.work[op.at]] = DeletedEntry]
        BY <1>4 DEF ModifyPage
      <3>3. stats_p_deleted' \in Int
        BY <1>4 DEF ModifyPage, TypeOK
      <3> HIDE DEF mid
      <3> QED BY <3>1, <3>2, <3>3, EntryTypes
    <2>7. TakeEntry(p)
      BY <1>4 DEF ModifyPage
    <2> QED BY <1>4, <2>4, <2>5, <2>6, <2>7, TakeType DEF TypeOK, ModifyPage
  <1>5. ASSUME NEW junk \in Pages \cup {NoPage, BadPage}, ModifyLosesPage(junk) PROVE TypeOK'
    <2>1. /\ op.obj \in Objs /\ op.at \in Spans /\ op.at + 1 \in Nat /\ op.work \in Works
      BY <1>5, <1>c DEF ModifyLosesPage
    <2>2. [op.work EXCEPT ![op.at] = junk] \in Works
      BY <2>1 DEF Works
    <2>3. op' = [op EXCEPT !.work = [op.work EXCEPT ![op.at] = junk], !.at = op.at + 1, !.quick = FALSE]
      BY <1>5 DEF ModifyLosesPage
    <2>4. op' \in Calls
      BY <2>1, <2>2, <2>3, <1>b
    <2>5. op'.kind = op.kind /\ op'.last = op.last /\ op'.obj = op.obj
      BY <2>3 DEF TypeOK, Calls
    <2>6. DeletePages({op.work[op.at]}) /\ Cardinality({op.work[op.at]}) \in Nat
      <3>0. \A x : Cardinality({x}) = 1
        BY FS_Singleton
      <3>1. \A x : Cardinality({x}) \in Nat
        BY <3>0
      <3> QED BY <1>5, <3>1 DEF ModifyLosesPage
    <2> QED BY <1>5, <2>1, <2>4, <2>5, <2>6, DeleteType DEF TypeOK, ModifyLosesPage
  <1>6. CASE CreateFails
    BY <1>6, <1>a DEF TypeOK, CreateFails, counters
  <1>7. CASE LeaveLoop
    <2>1. op' = [op EXCEPT !.quick = FALSE]
      BY <1>7 DEF LeaveLoop
    <2>2. op' \in Calls /\ op'.kind = op.kind /\ op'.last = op.last /\ op'.obj = op.obj
      BY <2>1, <1>b, 0 \in Nat, EntryTypes, NoPage \in Pages \cup {NoPage} DEF TypeOK, Calls
    <2> QED BY <1>7, <2>2 DEF TypeOK, LeaveLoop, counters
  <1>8. CASE LoopDone
    BY <1>8 DEF TypeOK, LoopDone, counters
  <1>9. CASE TruncateData
    <2>1. DeletePages(TruncatedPages(op.work)) /\ op' = [op EXCEPT !.work = NoRefs]
      BY <1>9 DEF TruncateData
    <2>2. Cardinality(TruncatedPages(op.work)) \in Nat
      BY PageCount DEF TruncatedPages
    <2>3. op' \in Calls /\ op'.kind = op.kind /\ op'.last = op.last /\ op'.obj = op.obj
      BY <2>1, <1>b, 0 \in Nat, EntryTypes, NoPage \in Pages \cup {NoPage} DEF TypeOK, Calls
    <2> QED BY <1>9, <2>1, <2>2, <2>3, DeleteType DEF TypeOK, TruncateData
  <1>10. CASE StoreFresh
    <2>1. refs' \in [Objs -> Works]
      BY <1>10 DEF TypeOK, StoreFresh, Calls
    <2> QED BY <1>10, <2>1, <1>a DEF TypeOK, StoreFresh, counters
  <1>11. CASE StoreFails
    <2>1. damaged' \subseteq Objs
      BY <1>11 DEF TypeOK, StoreFails
    <2> QED BY <1>11, <2>1, <1>a DEF TypeOK, StoreFails, counters
  <1>12. ASSUME NEW src \in Pages, NEW dst \in Pages, StoreIndex(src, dst) PROVE TypeOK'
    <2>1. MovePage(src, dst) /\ Finish
      BY <1>12 DEF StoreIndex
    <2>2. refs' \in [Objs -> Works]
      BY <1>12 DEF TypeOK, StoreIndex, Calls
    <2> QED BY <1>12, <2>1, <2>2, <1>a, MoveType DEF TypeOK, StoreIndex
  <1> QED BY <1>1, <1>2, <1>3, <1>4, <1>5, <1>6, <1>7, <1>8, <1>9, <1>10, <1>11, <1>12
      DEF WorkNext

\* Every variable keeps its type: no counter, entry, cursor or reference ever
\* takes a value outside of the flash and of the files there are.
THEOREM TypeCorrect == Spec => []TypeOK
  <1>1. TypeOK /\ [Next]_vars => TypeOK'
    <2>1. TypeOK /\ UNCHANGED vars => TypeOK'
      BY DEF TypeOK, vars, counters
    <2> QED BY <2>1, TypeCalls, TypeCleaning, TypeWork DEF Next
  <1> QED BY TypeInit, <1>1, PTL DEF Spec

-----------------------------------------------------------------------------
(* Free blocks *)

\* No page becomes free: what all steps but the erase of a block have in common.
NoneFreed == \A p \in Pages : lu'[p] = FreeEntry => lu[p] = FreeEntry

FirstEntries ==
  /\ \A b \in Blocks : <<b, 0>> \in Pages
  /\ \A b \in Blocks : b \in BlocksStartingFree <=> lu[<<b, 0>>] = FreeEntry

LEMMA FirstPages == FirstEntries /\ (FirstEntries)'
  <1>1. \A b \in Blocks : <<b, 0>> \in Pages
    BY ConstantsAssumption DEF ConstantsAssumption, Pages, Entries
  <1> QED BY <1>1 DEF FirstEntries, BlocksStartingFree, FreePages

LEMMA BlockCount ==
  ASSUME NEW S \in SUBSET Blocks
  PROVE  IsFiniteSet(S) /\ Cardinality(S) \in Nat
  BY PagesFinite, FS_Subset, FS_CardinalityType

\* The types of what is compared, before and after a step.
LEMMA CoverTypes ==
  /\ BlocksStartingFree \in SUBSET Blocks /\ BlocksStartingFree' \in SUBSET Blocks
  BY DEF BlocksStartingFree

LEMMA CoverKept ==
  ASSUME TypeOK, FreeBlocksCovered, NoneFreed, free_blocks' = free_blocks
  PROVE  FreeBlocksCovered'
  <1>1. BlocksStartingFree' \subseteq BlocksStartingFree
    BY FirstPages, CoverTypes DEF NoneFreed, FirstEntries
  <1>2. Cardinality(BlocksStartingFree') <= Cardinality(BlocksStartingFree)
    BY <1>1, BlockCount, CoverTypes, FS_Subset
  <1> QED BY <1>2, BlockCount, CoverTypes DEF FreeBlocksCovered, TypeOK

\* The page taken: when it is the first of its block, there is one block less.
LEMMA CoverTake ==
  ASSUME TypeOK, FreeBlocksCovered, NoneFreed, NEW p \in Pages, NextFree(p), TakeEntry(p),
         lu'[p] # FreeEntry
  PROVE  FreeBlocksCovered'
  <1>1. CASE p[2] # 0
    BY <1>1, CoverKept DEF TakeEntry
  <1>2. CASE p[2] = 0
    <2> DEFINE b == p[1]
    <2>1. b \in Blocks /\ p = <<b, 0>> /\ lu[p] = FreeEntry
      BY <1>2 DEF Pages, NextFree, FreePages
    <2> HIDE DEF b
    <2>2. b \in BlocksStartingFree /\ BlocksStartingFree' \subseteq BlocksStartingFree \ {b}
      BY <2>1, FirstPages, CoverTypes DEF NoneFreed, FirstEntries
    <2>3. Cardinality(BlocksStartingFree \ {b}) = Cardinality(BlocksStartingFree) - 1
      BY <2>2, BlockCount, CoverTypes, FS_RemoveElement
    <2>4. Cardinality(BlocksStartingFree') <= Cardinality(BlocksStartingFree \ {b})
      BY <2>2, BlockCount, CoverTypes, FS_Subset
    <2>5. free_blocks' = free_blocks - 1
      BY <1>2 DEF TakeEntry
    <2> QED BY <2>3, <2>4, <2>5, BlockCount, CoverTypes DEF FreeBlocksCovered, TypeOK
  <1> QED BY <1>1, <1>2

LEMMA CoverMove ==
  ASSUME TypeOK, FreeBlocksCovered, NEW src \in Pages, NEW dst \in Pages,
         lu[src].kind \in {"data", "index"}, MovePage(src, dst)
  PROVE  FreeBlocksCovered'
  <1>1. FreeEntry.kind = "free" /\ DeletedEntry.kind = "dele"
    BY DEF FreeEntry, DeletedEntry
  <1>2. /\ lu'[dst] # FreeEntry /\ NextFree(dst) /\ TakeEntry(dst)
        /\ \A q \in Pages : q # src /\ q # dst => lu'[q] = lu[q]
        /\ lu'[src] # FreeEntry
    BY <1>1 DEF MovePage, TypeOK
  <1> QED BY <1>2, CoverTake DEF NoneFreed

LEMMA CoverErase ==
  ASSUME TypeOK, FreeBlocksCovered, NEW b \in Blocks, EraseBlock(b)
  PROVE  FreeBlocksCovered'
  <1>1. \A c \in Blocks : c # b => lu'[<<c, 0>>] = lu[<<c, 0>>]
    BY FirstPages DEF EraseBlock, FirstEntries
  <1>2. BlocksStartingFree' \subseteq BlocksStartingFree \cup {b}
    BY <1>1, FirstPages, CoverTypes DEF FirstEntries
  <1>3. /\ IsFiniteSet(BlocksStartingFree \cup {b})
        /\ Cardinality(BlocksStartingFree \cup {b}) <= Cardinality(BlocksStartingFree) + 1
    BY BlockCount, CoverTypes, FS_AddElement
  <1>4. Cardinality(BlocksStartingFree') <= Cardinality(BlocksStartingFree \cup {b})
    BY <1>2, <1>3, FS_Subset
  <1>5. Cardinality(BlocksStartingFree \cup {b}) \in Nat /\ free_blocks' = free_blocks + 1
    BY <1>3, FS_CardinalityType DEF EraseBlock
  <1> QED BY <1>3, <1>4, <1>5, BlockCount, CoverTypes DEF FreeBlocksCovered, TypeOK

LEMMA CoverCalls == TypeOK /\ FreeBlocksCovered /\ CallNext => FreeBlocksCovered'
  <1> SUFFICES ASSUME TypeOK, FreeBlocksCovered, CallNext PROVE FreeBlocksCovered'
    OBVIOUS
  <1>a. \A o : StartCall(o) => lu' = lu /\ free_blocks' = free_blocks
    BY DEF StartCall, counters
  <1>b. DeletedEntry # FreeEntry /\ \A o : CondemnedEntry(o) # FreeEntry
    BY DEF DeletedEntry, FreeEntry, CondemnedEntry
  <1>1. ASSUME NEW o \in Objs, Create(o) \/ Truncate(o) \/ Rename(o) PROVE FreeBlocksCovered'
    <2>1. lu' = lu /\ free_blocks' = free_blocks
      BY <1>1, <1>a DEF Create, Truncate, Rename, counters
    <2> QED BY <2>1, CoverKept DEF NoneFreed
  <1>2. ASSUME NEW o \in Objs, Remove(o) PROVE FreeBlocksCovered'
    BY <1>2, <1>b, CoverKept DEF Remove, DeletePages, NoneFreed
  <1>3. ASSUME NEW o \in Objs, RemoveStops(o) PROVE FreeBlocksCovered'
    <2>1. /\ \A p \in Pages : lu'[p] \in {DeletedEntry, CondemnedEntry(o), lu[p]}
          /\ free_blocks' = free_blocks
      BY <1>3 DEF RemoveStops
    <2> QED BY <1>b, <2>1, CoverKept DEF NoneFreed
  <1>4. ASSUME NEW o \in Objs, NEW len \in 1 .. MaxLen, NEW whole \in BOOLEAN,
               Append(o, len, whole) \/ \E at \in Spans : Modify(o, len, whole, at)
        PROVE  FreeBlocksCovered'
    <2>1. lu' = lu /\ free_blocks' = free_blocks
      BY <1>4, <1>a DEF Append, Modify
    <2> QED BY <2>1, CoverKept DEF NoneFreed
  <1>5. ASSUME NEW len \in 1 .. MaxGcLen, Gc(len) PROVE FreeBlocksCovered'
    <2>1. lu' = lu /\ free_blocks' = free_blocks
      BY <1>5, <1>a DEF Gc
    <2> QED BY <2>1, CoverKept DEF NoneFreed
  <1>6. ASSUME NEW max \in 0 .. QuickMax, NEW b \in Blocks, GcQuick(max, b) PROVE FreeBlocksCovered'
    BY <1>6, CoverErase DEF GcQuick, QuickErase
  <1>7. CASE Remount
    <2>1. BlocksStartingFree' = BlocksStartingFree
      BY <1>7 DEF Remount, BlocksStartingFree, FreePages
    <2> QED BY <1>7, <2>1, BlockCount, CoverTypes DEF Remount, FreeBlocksCovered
  <1> QED BY <1>1, <1>2, <1>3, <1>4, <1>5, <1>6, <1>7 DEF CallNext

LEMMA CoverCleaning == TypeOK /\ FreeBlocksCovered /\ CleanNext => FreeBlocksCovered'
  <1> SUFFICES ASSUME TypeOK, FreeBlocksCovered, CleanNext PROVE FreeBlocksCovered'
    OBVIOUS
  <1>a. gc.bix \in Blocks /\ \A e \in Entries : <<gc.bix, e>> \in Pages
    BY DEF TypeOK, Cleanings, Pages
  <1>1. ASSUME lu' = lu, free_blocks' = free_blocks PROVE FreeBlocksCovered'
    BY <1>1, CoverKept DEF NoneFreed
  <1>2. CASE (\E b \in Blocks : PickCandidate(b)) \/ (\E e \in Entries : FindObjData(e))
             \/ NoDataLeft \/ CleanFails
    BY <1>1, <1>2 DEF PickCandidate, FindObjData, NoDataLeft, CleanFails, counters
  <1>3. ASSUME NEW e \in Entries, WipeOrphan(e) PROVE FreeBlocksCovered'
    <2>1. DeletedEntry # FreeEntry
      BY DEF DeletedEntry, FreeEntry
    <2> QED BY <1>3, <2>1, CoverKept DEF WipeOrphan, DeletePages, NoneFreed
  <1>4. ASSUME NEW e \in Entries, NEW dst \in Pages, MoveObjData(e, dst) \/ MoveObjIx(e, dst)
        PROVE  FreeBlocksCovered'
    BY <1>a, <1>4, CoverMove
    DEF MoveObjData, MoveObjIx, FirstOf, SameObjectLeft, DataLeft, IndexLeft
  <1>5. ASSUME NEW src \in Pages, NEW dst \in Pages, StoreObjIndex(src, dst) PROVE FreeBlocksCovered'
    BY <1>5, CoverMove DEF StoreObjIndex, IndexPages
  <1>6. CASE EraseCleaned
    BY <1>a, <1>6, CoverErase DEF EraseCleaned
  <1> QED BY <1>2, <1>3, <1>4, <1>5, <1>6 DEF CleanNext

LEMMA CoverWork == TypeOK /\ FreeBlocksCovered /\ WorkNext => FreeBlocksCovered'
  <1> SUFFICES ASSUME TypeOK, FreeBlocksCovered, WorkNext PROVE FreeBlocksCovered'
    OBVIOUS
  <1>a. /\ DeletedEntry # FreeEntry
        /\ \A o, s : IndexEntry(o) # FreeEntry /\ DataEntry(o, s) # FreeEntry
    BY DEF DeletedEntry, FreeEntry, IndexEntry, DataEntry
  <1>1. ASSUME NEW b \in Blocks, QuickInFindFree(b) PROVE FreeBlocksCovered'
    BY <1>1, CoverErase DEF QuickInFindFree, QuickErase
  <1>2. ASSUME NEW p \in Pages, NEW entry, entry # FreeEntry, AllocatePage(p, entry)
        PROVE  FreeBlocksCovered'
    BY <1>2, CoverTake DEF AllocatePage, NoneFreed, TypeOK
  <1>3. ASSUME NEW p \in Pages, CreateIndex(p) \/ AppendPage(p) PROVE FreeBlocksCovered'
    BY <1>a, <1>2, <1>3 DEF CreateIndex, AppendPage
  <1>4. ASSUME NEW p \in Pages, ModifyPage(p) PROVE FreeBlocksCovered'
    <2>1. /\ NextFree(p) /\ TakeEntry(p)
          /\ lu' = [lu EXCEPT ![p] = DataEntry(op.obj, op.at), ![op.work[op.at]] = DeletedEntry]
      BY <1>4 DEF ModifyPage
    <2>2. lu'[p] # FreeEntry /\ NoneFreed
      BY <1>a, <2>1 DEF NoneFreed, TypeOK
    <2> QED BY <2>1, <2>2, CoverTake
  <1>5. ASSUME NEW gone, DeletePages(gone) PROVE FreeBlocksCovered'
    BY <1>a, <1>5, CoverKept DEF DeletePages, NoneFreed
  <1>6. CASE TruncateData \/ \E junk \in Pages \cup {NoPage, BadPage} : ModifyLosesPage(junk)
    BY <1>5, <1>6 DEF TruncateData, ModifyLosesPage
  <1>7. CASE CreateFails \/ LeaveLoop \/ LoopDone \/ StoreFresh \/ StoreFails
    <2>1. lu' = lu /\ free_blocks' = free_blocks
      BY <1>7 DEF CreateFails, LeaveLoop, LoopDone, StoreFresh, StoreFails, counters
    <2> QED BY <2>1, CoverKept DEF NoneFreed
  <1>8. ASSUME NEW src \in Pages, NEW dst \in Pages, StoreIndex(src, dst) PROVE FreeBlocksCovered'
    BY <1>8, CoverMove DEF StoreIndex, IndexPages
  <1> QED BY <1>1, <1>3, <1>4, <1>6, <1>7, <1>8 DEF WorkNext

\* The count of free blocks never tells less than there are, whatever is asked
\* of the quick collection too.
THEOREM BlocksCovered == Spec => []FreeBlocksCovered
  <1>1. Init => FreeBlocksCovered
    <2> SUFFICES ASSUME Init PROVE FreeBlocksCovered
      OBVIOUS
    <2>1. Cardinality(Blocks) = B
      <3>1. B \in Nat /\ B - 1 \in Int
        BY ConstantsAssumption DEF ConstantsAssumption
      <3>2. Cardinality(0 .. (B - 1)) = IF 0 > B - 1 THEN 0 ELSE (B - 1) - 0 + 1
        BY <3>1, FS_Interval
      <3> QED BY <3>1, <3>2 DEF Blocks
    <2>2. Cardinality(BlocksStartingFree) <= Cardinality(Blocks)
      BY CoverTypes, PagesFinite, FS_Subset
    <2> QED BY <2>1, <2>2 DEF Init, FreeBlocksCovered
  <1>2. TypeOK /\ FreeBlocksCovered /\ [Next]_vars => FreeBlocksCovered'
    <2>1. TypeOK /\ FreeBlocksCovered /\ UNCHANGED vars => FreeBlocksCovered'
      BY CoverKept DEF vars, counters, NoneFreed
    <2> QED BY <2>1, CoverCalls, CoverCleaning, CoverWork DEF Next
  <1> QED BY <1>1, <1>2, TypeCorrect, PTL DEF Spec

-----------------------------------------------------------------------------
(* What a step does to flash: to the three kinds of pages and their counts *)

KeepsPages ==
    /\ lu' = lu
    /\ stats_p_allocated' = stats_p_allocated /\ stats_p_deleted' = stats_p_deleted
    /\ cursor' = cursor \/ cursor'[2] = 0

\* ModifyPage: page p takes the place of page old.
ReplacePage(old, p, entry) ==
    /\ NextFree(p) /\ TakeEntry(p)
    /\ lu' = [lu EXCEPT ![p] = entry, ![old] = DeletedEntry]
    /\ stats_p_allocated' = stats_p_allocated
    /\ stats_p_deleted' = stats_p_deleted + 1

\* RemoveStops: besides deleting data pages it marks the index page.
Condemn(gone, o) ==
    /\ lu' = [p \in Pages |-> IF p \in gone THEN DeletedEntry
                              ELSE IF p \in IndexPages(o) THEN CondemnedEntry(o) ELSE lu[p]]
    /\ stats_p_allocated' = stats_p_allocated - Cardinality(gone)
    /\ stats_p_deleted' = stats_p_deleted + Cardinality(gone)
    /\ cursor' = cursor

\* EraseCleaned and the quick erase: no page of the block is used, and the
\* cursor is not among its entries.
EraseEmpty(b) ==
    /\ BlockPages(b) \cap UsedPages = {}
    /\ cursor[1] = b => cursor[2] \notin 1 .. (N - 1)
    /\ lu' = [p \in Pages |-> IF p[1] = b THEN FreeEntry ELSE lu[p]]
    /\ stats_p_allocated' = stats_p_allocated
    /\ stats_p_deleted' = stats_p_deleted - Cardinality(BlockPages(b) \cap DeletedPages)
    /\ cursor' = cursor

Owned(entry) == entry \in LuEntries /\ entry.kind \in {"data", "index"}

Effect ==
    \/ KeepsPages
    \/ \E p \in Pages, entry \in LuEntries : Owned(entry) /\ AllocatePage(p, entry)
    \/ \E gone \in SUBSET UsedPages : DeletePages(gone)
    \/ \E src \in UsedPages, dst \in Pages : MovePage(src, dst)
    \/ \E old \in UsedPages, p \in Pages, entry \in LuEntries :
          Owned(entry) /\ ReplacePage(old, p, entry)
    \/ \E gone \in SUBSET UsedPages, o \in Objs : Condemn(gone, o)
    \/ \E b \in Blocks : EraseEmpty(b)

LEMMA UsedKinds ==
  ASSUME TypeOK, NEW p \in Pages
  PROVE  /\ lu[p] \in LuEntries
         /\ p \in UsedPages <=> Owned(lu[p])
         /\ p \in FreePages <=> lu[p] = FreeEntry
         /\ p \in DeletedPages <=> lu[p] = DeletedEntry
         /\ FreeEntry # DeletedEntry
         /\ ~Owned(FreeEntry) /\ ~Owned(DeletedEntry)
  <1>1. lu[p] \in LuEntries
    BY DEF TypeOK
  <1>2. FreeEntry # DeletedEntry /\ FreeEntry.kind = "free" /\ DeletedEntry.kind = "dele"
    BY DEF FreeEntry, DeletedEntry
  <1>3. p \in UsedPages <=> lu[p].kind \in {"data", "index"}
    BY <1>1, <1>2, EntryKinds DEF UsedPages
  <1> QED BY <1>1, <1>2, <1>3 DEF Owned, FreePages, DeletedPages

\* The pages of each kind after a step, by its effect.
LEMMA AllocateSets ==
  ASSUME TypeOK, NEW p \in Pages, NEW entry \in LuEntries, Owned(entry), AllocatePage(p, entry)
  PROVE  /\ p \in FreePages
         /\ FreePages' = FreePages \ {p} /\ UsedPages' = UsedPages \cup {p}
         /\ DeletedPages' = DeletedPages
  <1>1. p \in FreePages /\ lu' = [lu EXCEPT ![p] = entry]
    BY DEF AllocatePage, NextFree
  <1>2. entry # FreeEntry /\ entry # DeletedEntry
    BY DEF Owned, FreeEntry, DeletedEntry
  <1>3. lu[p] = FreeEntry /\ FreeEntry # DeletedEntry
    BY <1>1, UsedKinds
  <1>4. \A q \in Pages : lu'[q] = IF q = p THEN entry ELSE lu[q]
    BY <1>1 DEF TypeOK
  <1> QED BY <1>1, <1>2, <1>3, <1>4 DEF FreePages, UsedPages, DeletedPages

LEMMA DeleteSets ==
  ASSUME TypeOK, NEW gone \in SUBSET UsedPages,
         \A q \in gone : lu'[q] = DeletedEntry,
         \A q \in Pages \ gone : q \in FreePages <=> lu'[q] = FreeEntry,
         \A q \in Pages \ gone : q \in DeletedPages <=> lu'[q] = DeletedEntry
  PROVE  /\ FreePages' = FreePages /\ UsedPages' = UsedPages \ gone
         /\ DeletedPages' = DeletedPages \cup gone
         /\ DeletedPages \cap gone = {}
  <1>1. \A q \in gone : q \in Pages /\ q \notin FreePages /\ q \notin DeletedPages
    BY DEF UsedPages, FreePages, DeletedPages
  <1>2. FreeEntry # DeletedEntry
    BY DEF FreeEntry, DeletedEntry
  <1>3. FreePages' = FreePages
    BY <1>1, <1>2 DEF FreePages
  <1>4. DeletedPages' = DeletedPages \cup gone
    BY <1>1 DEF DeletedPages
  <1>5. UsedPages' = UsedPages \ gone
    BY <1>1, <1>2, <1>3, <1>4 DEF UsedPages, FreePages, DeletedPages
  <1> QED BY <1>1, <1>3, <1>4, <1>5

LEMMA MoveSets ==
  ASSUME TypeOK, NEW src \in UsedPages, NEW dst \in Pages, NEW entry, Owned(entry),
         dst \in FreePages, lu' = [lu EXCEPT ![dst] = entry, ![src] = DeletedEntry]
  PROVE  /\ src \in Pages /\ src # dst
         /\ \A q \in Pages : lu'[q] = IF q = src THEN DeletedEntry ELSE IF q = dst THEN entry ELSE lu[q]
         /\ FreePages' = FreePages \ {dst} /\ UsedPages' = (UsedPages \ {src}) \cup {dst}
         /\ DeletedPages' = DeletedPages \cup {src} /\ src \notin DeletedPages
  <1> DEFINE mid == [lu EXCEPT ![dst] = entry]
  <1>1. src \in Pages /\ src # dst /\ src \notin DeletedPages /\ src \notin FreePages
    BY DEF UsedPages, FreePages, DeletedPages
  <1>2. \A q \in Pages : mid[q] = IF q = dst THEN entry ELSE lu[q]
    BY DEF TypeOK
  <1>3. mid \in [Pages -> LuEntries] /\ lu' = [mid EXCEPT ![src] = DeletedEntry]
    BY DEF TypeOK, Owned
  <1> HIDE DEF mid
  <1>4. \A q \in Pages : lu'[q] = IF q = src THEN DeletedEntry ELSE mid[q]
    BY <1>3
  <1>5. \A q \in Pages : lu'[q] = IF q = src THEN DeletedEntry ELSE IF q = dst THEN entry ELSE lu[q]
    BY <1>2, <1>4
  <1>6. entry # FreeEntry /\ entry # DeletedEntry /\ FreeEntry # DeletedEntry
    BY DEF Owned, FreeEntry, DeletedEntry
  <1>7. lu[dst] = FreeEntry
    BY DEF FreePages
  <1> QED BY <1>1, <1>5, <1>6, <1>7 DEF FreePages, UsedPages, DeletedPages

LEMMA EraseSets ==
  ASSUME TypeOK, NEW b \in Blocks, BlockPages(b) \cap UsedPages = {},
         lu' = [p \in Pages |-> IF p[1] = b THEN FreeEntry ELSE lu[p]]
  PROVE  /\ FreePages' = FreePages \cup BlockPages(b) /\ UsedPages' = UsedPages
         /\ DeletedPages' = DeletedPages \ (BlockPages(b) \cap DeletedPages)
  <1>1. \A p \in Pages : p \in BlockPages(b) <=> p[1] = b
    BY DEF BlockPages, Pages
  <1>2. BlockPages(b) \subseteq Pages
    BY DEF BlockPages, Pages
  <1>3. FreeEntry # DeletedEntry
    BY DEF FreeEntry, DeletedEntry
  <1>4. \A p \in Pages : lu'[p] = IF p \in BlockPages(b) THEN FreeEntry ELSE lu[p]
    BY <1>1
  <1> QED BY <1>2, <1>3, <1>4 DEF FreePages, UsedPages, DeletedPages

\* A removal that stops leaves index pages in use.
LEMMA CondemnSets ==
  ASSUME TypeOK, NEW gone \in SUBSET UsedPages, NEW o \in Objs, Condemn(gone, o)
  PROVE  /\ FreePages' = FreePages /\ UsedPages' = UsedPages \ gone
         /\ DeletedPages' = DeletedPages \cup gone /\ DeletedPages \cap gone = {}
  <1>1. gone \subseteq Pages
    BY DEF UsedPages
  <1>2. \A q \in gone : lu'[q] = DeletedEntry
    BY <1>1 DEF Condemn
  <1>3. \A q \in Pages \ gone : lu'[q] = lu[q] \/ (q \in IndexPages(o) /\ lu'[q] = CondemnedEntry(o))
    BY DEF Condemn
  <1>4. \A q \in IndexPages(o) : lu[q].kind = "index"
    BY DEF IndexPages
  <1>5. CondemnedEntry(o).kind = "index" /\ FreeEntry.kind = "free" /\ DeletedEntry.kind = "dele"
    BY DEF CondemnedEntry, FreeEntry, DeletedEntry
  <1>6. /\ \A q \in Pages \ gone : q \in FreePages <=> lu'[q] = FreeEntry
        /\ \A q \in Pages \ gone : q \in DeletedPages <=> lu'[q] = DeletedEntry
    BY <1>3, <1>4, <1>5 DEF FreePages, DeletedPages
  <1> QED BY <1>2, <1>6, DeleteSets

-----------------------------------------------------------------------------
(* The counters *)

LEMMA CountAdd ==
  ASSUME NEW S \in SUBSET Pages, NEW p \in Pages, p \notin S
  PROVE  Cardinality(S \cup {p}) = Cardinality(S) + 1
  BY PageCount, FS_AddElement

LEMMA CountMove ==
  ASSUME NEW S \in SUBSET Pages, NEW p \in Pages, NEW q \in S, p \notin S
  PROVE  Cardinality((S \ {q}) \cup {p}) = Cardinality(S)
  <1>1. S \ {q} \in SUBSET Pages /\ p \notin S \ {q}
    OBVIOUS
  <1>2. Cardinality(S \ {q}) = Cardinality(S) - 1
    BY PageCount, FS_RemoveElement
  <1>3. Cardinality((S \ {q}) \cup {p}) = Cardinality(S \ {q}) + 1
    BY <1>1, CountAdd
  <1>4. Cardinality(S) \in Nat
    BY PageCount
  <1> QED BY <1>2, <1>3, <1>4

LEMMA CountWithout ==
  ASSUME NEW S \in SUBSET Pages, NEW T \in SUBSET S
  PROVE  Cardinality(S \ T) = Cardinality(S) - Cardinality(T)
  <1>1. S \cap T = T
    OBVIOUS
  <1> QED BY ZenonT(60), <1>1, PageCount, FS_Difference

LEMMA CountWith ==
  ASSUME NEW S \in SUBSET Pages, NEW T \in SUBSET Pages, S \cap T = {}
  PROVE  Cardinality(S \cup T) = Cardinality(S) + Cardinality(T)
  <1>1. IsFiniteSet(S) /\ IsFiniteSet(T) /\ Cardinality(S) \in Nat /\ Cardinality(T) \in Nat
    BY PageCount
  <1>2. Cardinality(S \cup T) = Cardinality(S) + Cardinality(T) - Cardinality(S \cap T)
    BY <1>1, FS_Union
  <1>3. Cardinality(S \cap T) = 0
    BY FS_EmptySet
  <1> QED BY <1>1, <1>2, <1>3

\* The counters follow flash through every effect.
LEMMA StatsStep == TypeOK /\ StatsExact /\ Effect => StatsExact'
  <1> SUFFICES ASSUME TypeOK, StatsExact, Effect PROVE StatsExact'
    OBVIOUS
  <1> USE PageSets
  <1>1. CASE KeepsPages
    BY <1>1 DEF KeepsPages, StatsExact, UsedPages, DeletedPages
  <1>2. ASSUME NEW p \in Pages, NEW entry \in LuEntries, Owned(entry), AllocatePage(p, entry)
        PROVE  StatsExact'
    <2>1. p \notin UsedPages /\ UsedPages' = UsedPages \cup {p} /\ DeletedPages' = DeletedPages
      BY <1>2, AllocateSets DEF FreePages, UsedPages
    <2>2. Cardinality(UsedPages') = Cardinality(UsedPages) + 1
      BY <2>1, CountAdd
    <2> QED BY <1>2, <2>1, <2>2 DEF StatsExact, AllocatePage
  <1>3. ASSUME NEW gone \in SUBSET UsedPages, DeletePages(gone) PROVE StatsExact'
    <2>1. UsedPages' = UsedPages \ gone /\ DeletedPages' = DeletedPages \cup gone
          /\ DeletedPages \cap gone = {}
      <3>1. \A q \in Pages : lu'[q] = IF q \in gone THEN DeletedEntry ELSE lu[q]
        BY <1>3 DEF DeletePages
      <3>2. gone \subseteq Pages
        OBVIOUS
      <3> QED BY <3>1, <3>2, DeleteSets DEF FreePages, DeletedPages
    <2>2. /\ Cardinality(UsedPages') = Cardinality(UsedPages) - Cardinality(gone)
          /\ Cardinality(DeletedPages') = Cardinality(DeletedPages) + Cardinality(gone)
      BY <2>1, CountWithout, CountWith
    <2> QED BY <1>3, <2>2 DEF StatsExact, DeletePages
  <1>4. ASSUME NEW src \in UsedPages, NEW dst \in Pages, NEW entry, Owned(entry),
               NextFree(dst), lu' = [lu EXCEPT ![dst] = entry, ![src] = DeletedEntry],
               stats_p_allocated' = stats_p_allocated, stats_p_deleted' = stats_p_deleted + 1
        PROVE  StatsExact'
    <2>1. dst \in FreePages /\ dst \notin UsedPages
      BY <1>4 DEF NextFree, FreePages, UsedPages
    <2>2. /\ src \in Pages /\ UsedPages' = (UsedPages \ {src}) \cup {dst}
          /\ DeletedPages' = DeletedPages \cup {src} /\ src \notin DeletedPages
      BY <1>4, <2>1, MoveSets
    <2>3. /\ Cardinality(UsedPages') = Cardinality(UsedPages)
          /\ Cardinality(DeletedPages') = Cardinality(DeletedPages) + 1
      BY <2>1, <2>2, CountMove, CountAdd
    <2> QED BY <1>4, <2>3 DEF StatsExact
  <1>5. ASSUME NEW src \in UsedPages, NEW dst \in Pages, MovePage(src, dst) PROVE StatsExact'
    <2>1. Owned(lu[src])
      BY UsedKinds
    <2> QED BY <1>4, <1>5, <2>1 DEF MovePage
  <1>6. ASSUME NEW old \in UsedPages, NEW p \in Pages, NEW entry \in LuEntries, Owned(entry),
               ReplacePage(old, p, entry)
        PROVE  StatsExact'
    BY <1>4, <1>6 DEF ReplacePage
  <1>7. ASSUME NEW gone \in SUBSET UsedPages, NEW o \in Objs, Condemn(gone, o) PROVE StatsExact'
    <2>1. UsedPages' = UsedPages \ gone /\ DeletedPages' = DeletedPages \cup gone
          /\ DeletedPages \cap gone = {}
      BY <1>7, CondemnSets
    <2>2. /\ Cardinality(UsedPages') = Cardinality(UsedPages) - Cardinality(gone)
          /\ Cardinality(DeletedPages') = Cardinality(DeletedPages) + Cardinality(gone)
      BY <2>1, CountWithout, CountWith
    <2> QED BY <1>7, <2>2 DEF StatsExact, Condemn
  <1>8. ASSUME NEW b \in Blocks, EraseEmpty(b) PROVE StatsExact'
    <2>1. /\ UsedPages' = UsedPages
          /\ DeletedPages' = DeletedPages \ (BlockPages(b) \cap DeletedPages)
      BY <1>8, EraseSets DEF EraseEmpty
    <2>2. Cardinality(DeletedPages') = Cardinality(DeletedPages)
                                         - Cardinality(BlockPages(b) \cap DeletedPages)
      BY <2>1, CountWithout
    <2> QED BY <1>8, <2>1, <2>2 DEF StatsExact, EraseEmpty
  <1> QED BY <1>1, <1>2, <1>3, <1>5, <1>6, <1>7, <1>8 DEF Effect

-----------------------------------------------------------------------------
(* Used entries before free ones, and where the cursor stands *)

LEMMA LayoutTake ==
  ASSUME TypeOK, FreeSuffix, CursorParts, NEW p \in Pages, NextFree(p), TakeEntry(p),
         FreePages' = FreePages \ {p}
  PROVE  FreeSuffix' /\ CursorParts'
  <1> DEFINE b == p[1]
             e == p[2]
  <1>1. b \in Blocks /\ e \in Entries /\ p = <<b, e>>
    BY DEF Pages
  <1>2. N \in Nat /\ Entries = 0 .. (N - 1) /\ Blocks = 0 .. (B - 1) /\ B \in Nat
    BY ConstantsAssumption DEF ConstantsAssumption, Entries, Blocks
  <1>3. cursor[1] \in Blocks /\ cursor[2] \in 0 .. N
    BY DEF TypeOK
  <1>4. cursor' = <<b, e + 1>> /\ p \in FreePages
    BY DEF TakeEntry, NextFree
  <1> HIDE DEF b, e
  <1>5. ASSUME NEW f \in Entries, f < e PROVE <<b, f>> \notin FreePages
    <2> SUFFICES ASSUME <<b, f>> \in FreePages PROVE FALSE
      OBVIOUS
    <2>1. ~VisitedBefore(<<b, f>>, <<b, e>>)
      BY <1>1 DEF NextFree
    <2>2. ~AtOrAfterCursor(<<b, f>>) /\ AtOrAfterCursor(<<b, e>>)
      BY <1>1, <1>2, <1>3, <1>5, <2>1 DEF VisitedBefore, Before, AtOrAfterCursor
    <2>3. cursor[1] = b /\ f < cursor[2] /\ cursor[2] <= e
      BY <1>1, <1>2, <1>3, <1>5, <2>2 DEF AtOrAfterCursor
    <2>4. cursor[2] \in 1 .. (N - 1)
      BY <1>1, <1>2, <1>3, <1>5, <2>3
    <2> QED BY <1>2, <1>3, <2>3, <2>4 DEF CursorParts
  <1>6. ASSUME NEW f \in Entries, e < f PROVE <<b, f>> \in FreePages
    BY <1>1, <1>4, <1>6 DEF FreeSuffix
  <1>7. FreeSuffix'
    <2> SUFFICES ASSUME NEW c \in Blocks, NEW x \in Entries, NEW y \in Entries, x < y,
                        <<c, x>> \in FreePages'
                 PROVE  <<c, y>> \in FreePages'
      BY DEF FreeSuffix
    <2>1. <<c, x>> \in FreePages /\ <<c, x>> # <<b, e>>
      BY <1>1
    <2>2. <<c, y>> \in FreePages
      BY <2>1 DEF FreeSuffix
    <2>3. <<c, y>> # <<b, e>>
      BY <1>5, <2>1
    <2> QED BY <1>1, <2>2, <2>3
  <1>8. CursorParts'
    <2> SUFFICES ASSUME NEW f \in Entries PROVE <<b, f>> \in FreePages' <=> f >= e + 1
      BY <1>4 DEF CursorParts
    <2>1. <<b, f>> \in FreePages' <=> <<b, f>> \in FreePages /\ f # e
      BY <1>1
    <2> QED BY <1>1, <1>2, <1>5, <1>6, <2>1
  <1> QED BY <1>7, <1>8

LEMMA LayoutErase ==
  ASSUME TypeOK, FreeSuffix, CursorParts, NEW b \in Blocks, EraseEmpty(b),
         FreePages' = FreePages \cup BlockPages(b)
  PROVE  FreeSuffix' /\ CursorParts'
  <1>1. \A c \in Blocks, e \in Entries : <<c, e>> \in BlockPages(b) <=> c = b
    BY DEF BlockPages
  <1>2. cursor' = cursor /\ cursor[1] \in Blocks
    BY DEF EraseEmpty, TypeOK
  <1>3. FreeSuffix'
    BY <1>1 DEF FreeSuffix
  <1>4. CursorParts'
    BY <1>1, <1>2 DEF CursorParts, EraseEmpty
  <1> QED BY <1>3, <1>4

LEMMA LayoutStep == TypeOK /\ FreeSuffix /\ CursorParts /\ Effect => FreeSuffix' /\ CursorParts'
  <1> SUFFICES ASSUME TypeOK, FreeSuffix, CursorParts, Effect PROVE FreeSuffix' /\ CursorParts'
    OBVIOUS
  <1> USE PageSets
  <1>1. ASSUME FreePages' = FreePages, cursor' = cursor \/ cursor'[2] = 0
        PROVE  FreeSuffix' /\ CursorParts'
    <2>1. FreeSuffix'
      BY <1>1 DEF FreeSuffix
    <2>2. CursorParts'
      BY <1>1 DEF CursorParts
    <2> QED BY <2>1, <2>2
  <1>2. CASE KeepsPages
    BY <1>1, <1>2 DEF KeepsPages, FreePages
  <1>3. ASSUME NEW p \in Pages, NEW entry \in LuEntries, Owned(entry), AllocatePage(p, entry)
        PROVE  FreeSuffix' /\ CursorParts'
    BY <1>3, AllocateSets, LayoutTake DEF AllocatePage
  <1>4. ASSUME NEW gone \in SUBSET UsedPages, DeletePages(gone) PROVE FreeSuffix' /\ CursorParts'
    <2>1. \A q \in Pages : lu'[q] = IF q \in gone THEN DeletedEntry ELSE lu[q]
      BY <1>4 DEF DeletePages
    <2>2. FreePages' = FreePages
      BY <2>1, DeleteSets DEF FreePages, DeletedPages
    <2> QED BY <1>1, <1>4, <2>2 DEF DeletePages
  <1>5. ASSUME NEW src \in UsedPages, NEW dst \in Pages, NEW entry, Owned(entry),
               NextFree(dst), TakeEntry(dst),
               lu' = [lu EXCEPT ![dst] = entry, ![src] = DeletedEntry]
        PROVE  FreeSuffix' /\ CursorParts'
    <2>1. dst \in FreePages
      BY <1>5 DEF NextFree
    <2>2. FreePages' = FreePages \ {dst}
      BY <1>5, <2>1, MoveSets
    <2> QED BY <1>5, <2>2, LayoutTake
  <1>6. ASSUME NEW src \in UsedPages, NEW dst \in Pages, MovePage(src, dst)
        PROVE  FreeSuffix' /\ CursorParts'
    <2>1. Owned(lu[src])
      BY UsedKinds
    <2> QED BY <1>5, <1>6, <2>1 DEF MovePage
  <1>7. ASSUME NEW old \in UsedPages, NEW p \in Pages, NEW entry \in LuEntries, Owned(entry),
               ReplacePage(old, p, entry)
        PROVE  FreeSuffix' /\ CursorParts'
    BY <1>5, <1>7 DEF ReplacePage
  <1>8. ASSUME NEW gone \in SUBSET UsedPages, NEW o \in Objs, Condemn(gone, o)
        PROVE  FreeSuffix' /\ CursorParts'
    BY <1>1, <1>8, CondemnSets DEF Condemn
  <1>9. ASSUME NEW b \in Blocks, EraseEmpty(b) PROVE FreeSuffix' /\ CursorParts'
    BY <1>9, EraseSets, LayoutErase DEF EraseEmpty
  <1> QED BY <1>2, <1>3, <1>4, <1>6, <1>7, <1>8, <1>9 DEF Effect

-----------------------------------------------------------------------------
(* The effect of each action *)

LEMMA QuickEraseEffect ==
  ASSUME TypeOK, CursorParts, NEW b \in Blocks, QuickErase(b, 0)
  PROVE  EraseEmpty(b)
  <1>1. /\ BlockPages(b) \cap UsedPages = {}
        /\ Cardinality(BlockPages(b) \cap FreePages) <= 0
    BY DEF QuickErase, QuickVictim, QuickFits
  <1>2. BlockPages(b) \cap FreePages = {}
    <2>1. /\ IsFiniteSet(BlockPages(b) \cap FreePages)
          /\ Cardinality(BlockPages(b) \cap FreePages) \in Nat
      BY PageSets, PageCount
    <2> QED BY <1>1, <2>1, FS_EmptySet
  <1>3. cursor[1] = b => cursor[2] \notin 1 .. (N - 1)
    <2> SUFFICES ASSUME cursor[1] = b, cursor[2] \in 1 .. (N - 1) PROVE FALSE
      OBVIOUS
    <2>1. cursor[2] \in Entries
      BY ConstantsAssumption DEF ConstantsAssumption, Entries
    <2>2. cursor[2] >= cursor[2]
      BY ConstantsAssumption DEF ConstantsAssumption
    <2>3. <<b, cursor[2]>> \in FreePages
      BY <2>1, <2>2 DEF CursorParts
    <2>4. <<b, cursor[2]>> \in BlockPages(b)
      BY <2>1 DEF BlockPages
    <2> QED BY <1>2, <2>3, <2>4
  <1> QED BY <1>1, <1>3 DEF QuickErase, EraseBlock, EraseEmpty

\* The collector erases a block when nothing in it is used any more.
LEMMA EraseCleanedEffect ==
  ASSUME IInv, EraseCleaned
  PROVE  gc.bix \in Blocks /\ EraseEmpty(gc.bix)
  <1> USE DEF IInv
  <1>0. gc.bix \in Blocks /\ pc = "moveIx" /\ IndexLeft = {}
    BY DEF TypeOK, Cleanings, EraseCleaned
  <1>1. ASSUME NEW e \in Entries PROVE ~Owned(lu[<<gc.bix, e>>])
    <2>1. lu[<<gc.bix, e>>].kind # "data"
      BY <1>0 DEF Passed
    <2>2. lu[<<gc.bix, e>>].kind # "index"
      BY <1>0 DEF Passed, IndexLeft
    <2> QED BY <2>1, <2>2 DEF Owned
  <1>2. BlockPages(gc.bix) \cap UsedPages = {}
    <2> SUFFICES ASSUME NEW p \in BlockPages(gc.bix), p \in UsedPages PROVE FALSE
      OBVIOUS
    <2>1. PICK e \in Entries : p = <<gc.bix, e>>
      BY DEF BlockPages
    <2>2. p \in Pages
      BY PageSets
    <2> QED BY <1>1, <2>1, <2>2, UsedKinds
  <1>3. cursor[1] = gc.bix => cursor[2] \notin 1 .. (N - 1)
    <2> SUFFICES ASSUME cursor[1] = gc.bix, cursor[2] \in 1 .. (N - 1) PROVE FALSE
      OBVIOUS
    <2>1. N \in Nat /\ cursor[2] # N /\ cursor[2] - 1 \in Entries
      BY ConstantsAssumption DEF ConstantsAssumption, Entries
    <2>2. lu[<<gc.bix, cursor[2] - 1>>].kind = "index" /\ cursor[2] - 1 >= gc.entry
      BY <1>0, <2>1 DEF CursorInCleaned, Cleaning, LastMoved
    <2> QED BY <1>0, <2>1, <2>2 DEF IndexLeft
  <1>4. stats_p_allocated \in Int /\ stats_p_allocated' = stats_p_allocated
    <2>1. Cardinality(BlockPages(gc.bix) \cap UsedPages) = 0
      BY <1>2, FS_EmptySet
    <2> QED BY <2>1 DEF EraseCleaned, TypeOK
  <1> QED BY <1>0, <1>2, <1>3, <1>4 DEF EraseCleaned, EraseBlock, EraseEmpty

\* The page a modify is about to replace is that of its file, under its span.
LEMMA OldPage ==
  ASSUME IInv, pc = "work", op.kind = "modify", op.at <= op.last
  PROVE  /\ op.obj \in Objs /\ op.at \in Spans
         /\ op.work[op.at] \in UsedPages
         /\ lu[op.work[op.at]] = DataEntry(op.obj, op.at)
  <1> USE DEF IInv
  <1>1. op.at \in Nat /\ op.last \in Nat /\ op.obj \in Objs
    BY DEF TypeOK, Calls
  <1>2. op.at \in op.at .. op.last
    BY <1>1
  <1>3. op.at \in Spans /\ op.work[op.at] # NoPage
    BY <1>2 DEF ModifyInside
  <1>4. Sound(op.work, op.obj, op.at)
    BY <1>1, <1>3 DEF OpWorkSound, Working
  <1>5. op.work[op.at] \in Pages /\ lu[op.work[op.at]] = DataEntry(op.obj, op.at)
    BY <1>3, <1>4 DEF Sound
  <1>6. Owned(DataEntry(op.obj, op.at))
    BY <1>1, <1>3, EntryTypes DEF Owned, DataEntry
  <1> QED BY <1>1, <1>3, <1>5, <1>6, UsedKinds

LEMMA TruncatedUsed ==
  ASSUME TypeOK, NEW w
  PROVE  TruncatedPages(w) \subseteq UsedPages
  BY UsedKinds DEF TruncatedPages, Passes, Owned

LEMMA IndexUsed ==
  ASSUME TypeOK, NEW o
  PROVE  IndexPages(o) \subseteq UsedPages
  BY UsedKinds DEF IndexPages, Owned

LEMMA CallEffect ==
  ASSUME QuickMax = 0, IInv, CallNext
  PROVE  Effect
  <1> USE DEF IInv
  <1>0. ASSUME UNCHANGED <<lu, counters, cursor>> PROVE Effect
    BY <1>0 DEF counters, Effect, KeepsPages
  <1>1. ASSUME NEW o, StartCall(o) PROVE Effect
    BY <1>0, <1>1 DEF StartCall
  <1>2. ASSUME NEW o \in Objs, Create(o) \/ Truncate(o) PROVE Effect
    BY <1>1, <1>2 DEF Create, Truncate
  <1>3. ASSUME NEW o \in Objs, Rename(o) PROVE Effect
    BY <1>0, <1>3 DEF Rename
  <1>4. ASSUME NEW o \in Objs, Remove(o) PROVE Effect
    <2>1. TruncatedPages(refs[o]) \cup IndexPages(o) \in SUBSET UsedPages
      BY TruncatedUsed, IndexUsed
    <2> QED BY <1>4, <2>1 DEF Remove, Effect
  <1>5. ASSUME NEW o \in Objs, RemoveStops(o) PROVE Effect
    <2>1. TruncatedPages(refs[o]) \in SUBSET UsedPages
      BY TruncatedUsed
    <2>2. Condemn(TruncatedPages(refs[o]), o)
      BY <1>5 DEF RemoveStops, Condemn
    <2> QED BY <2>1, <2>2 DEF Effect
  <1>6. ASSUME NEW o \in Objs, NEW len, NEW whole, Append(o, len, whole) PROVE Effect
    BY <1>1, <1>6 DEF Append
  <1>7. ASSUME NEW o \in Objs, NEW len, NEW whole, NEW at, Modify(o, len, whole, at) PROVE Effect
    BY <1>1, <1>7 DEF Modify
  <1>8. ASSUME NEW len, Gc(len) PROVE Effect
    BY <1>1, <1>8 DEF Gc
  <1>9. ASSUME NEW max \in 0 .. QuickMax, NEW b \in Blocks, GcQuick(max, b) PROVE Effect
    <2>1. max = 0
      OBVIOUS
    <2>2. EraseEmpty(b)
      BY <1>9, <2>1, QuickEraseEffect DEF GcQuick
    <2> QED BY <2>2 DEF Effect
  <1>10. CASE Remount
    <2>1. KeepsPages
      BY <1>10 DEF Remount, KeepsPages, StatsExact
    <2> QED BY <2>1 DEF Effect
  <1> QED BY <1>2, <1>3, <1>4, <1>5, <1>6, <1>7, <1>8, <1>9, <1>10 DEF CallNext

LEMMA CleanEffect ==
  ASSUME IInv, CleanNext
  PROVE  Effect
  <1> USE DEF IInv
  <1>0. ASSUME UNCHANGED <<lu, counters>>, cursor' = cursor \/ cursor'[2] = 0 PROVE Effect
    BY <1>0 DEF counters, Effect, KeepsPages
  <1>a. gc.bix \in Blocks /\ \A e \in Entries : <<gc.bix, e>> \in Pages
    BY DEF TypeOK, Cleanings, Pages
  <1>b. ASSUME NEW e \in Entries, lu[<<gc.bix, e>>].kind \in {"data", "index"}
        PROVE  <<gc.bix, e>> \in UsedPages
    BY <1>a, <1>b, UsedKinds DEF Owned
  <1>1. ASSUME NEW b \in Blocks, PickCandidate(b) PROVE Effect
    BY <1>0, <1>1 DEF PickCandidate, counters
  <1>2. ASSUME NEW e \in Entries, FindObjData(e) PROVE Effect
    BY <1>0, <1>2 DEF FindObjData
  <1>3. ASSUME NEW e \in Entries, WipeOrphan(e) PROVE Effect
    <2>1. {<<gc.bix, e>>} \in SUBSET UsedPages
      BY <1>3, <1>b DEF WipeOrphan, FirstOf, DataLeft
    <2> QED BY <1>3, <2>1 DEF WipeOrphan, Effect
  <1>4. CASE NoDataLeft
    BY <1>0, <1>4 DEF NoDataLeft
  <1>5. ASSUME NEW e \in Entries, NEW dst \in Pages, MoveObjData(e, dst) PROVE Effect
    <2>1. <<gc.bix, e>> \in UsedPages /\ MovePage(<<gc.bix, e>>, dst)
      BY <1>5, <1>b DEF MoveObjData, FirstOf, SameObjectLeft, DataLeft
    <2> QED BY <2>1 DEF Effect
  <1>6. ASSUME NEW e \in Entries, NEW dst \in Pages, MoveObjIx(e, dst) PROVE Effect
    <2>1. <<gc.bix, e>> \in UsedPages /\ MovePage(<<gc.bix, e>>, dst)
      BY <1>6, <1>b DEF MoveObjIx, FirstOf, IndexLeft
    <2> QED BY <2>1 DEF Effect
  <1>7. ASSUME NEW src \in Pages, NEW dst \in Pages, StoreObjIndex(src, dst) PROVE Effect
    <2>1. src \in UsedPages /\ MovePage(src, dst)
      BY <1>7, IndexUsed DEF StoreObjIndex
    <2> QED BY <2>1 DEF Effect
  <1>8. CASE CleanFails
    BY <1>0, <1>8 DEF CleanFails
  <1>9. CASE EraseCleaned
    BY <1>9, EraseCleanedEffect DEF Effect
  <1> QED BY <1>1, <1>2, <1>3, <1>4, <1>5, <1>6, <1>7, <1>8, <1>9 DEF CleanNext

LEMMA WorkEffect ==
  ASSUME IInv, WorkNext
  PROVE  Effect
  <1> USE DEF IInv
  <1>0. ASSUME UNCHANGED <<lu, counters, cursor>> PROVE Effect
    BY <1>0 DEF counters, Effect, KeepsPages
  <1>1. ASSUME NEW b \in Blocks, QuickInFindFree(b) PROVE Effect
    BY <1>1, QuickEraseEffect DEF QuickInFindFree, Effect
  <1>2. ASSUME NEW p \in Pages, CreateIndex(p) PROVE Effect
    <2>1. IndexEntry(op.obj) \in LuEntries /\ IndexEntry(op.obj).kind = "index"
      BY <1>2, EntryTypes DEF CreateIndex, TypeOK, IndexEntry
    <2> QED BY <1>2, <2>1 DEF CreateIndex, Effect, Owned
  <1>3. ASSUME NEW p \in Pages, AppendPage(p) PROVE Effect
    <2>1. op.obj \in Objs /\ op.at \in Spans
      BY <1>3, ConstantsAssumption DEF ConstantsAssumption, AppendPage, TypeOK, Calls, Spans
    <2>2. DataEntry(op.obj, op.at) \in LuEntries /\ DataEntry(op.obj, op.at).kind = "data"
      BY <2>1, EntryTypes DEF DataEntry
    <2> QED BY <1>3, <2>2 DEF AppendPage, Effect, Owned
  <1>4. ASSUME NEW p \in Pages, ModifyPage(p) PROVE Effect
    <2>1. op.obj \in Objs /\ op.at \in Spans /\ op.work[op.at] \in UsedPages
      BY <1>4, OldPage DEF ModifyPage
    <2>2. DataEntry(op.obj, op.at) \in LuEntries /\ DataEntry(op.obj, op.at).kind = "data"
      BY <2>1, EntryTypes DEF DataEntry
    <2>3. ReplacePage(op.work[op.at], p, DataEntry(op.obj, op.at))
      BY <1>4 DEF ModifyPage, ReplacePage
    <2> QED BY <2>1, <2>2, <2>3 DEF Effect, Owned
  <1>5. ASSUME NEW junk, ModifyLosesPage(junk) PROVE Effect
    <2>1. {op.work[op.at]} \in SUBSET UsedPages
      BY <1>5, OldPage DEF ModifyLosesPage
    <2> QED BY <1>5, <2>1 DEF ModifyLosesPage, Effect
  <1>6. CASE CreateFails \/ LeaveLoop \/ LoopDone \/ StoreFresh \/ StoreFails
    BY <1>0, <1>6 DEF CreateFails, LeaveLoop, LoopDone, StoreFresh, StoreFails
  <1>7. CASE TruncateData
    BY <1>7, TruncatedUsed DEF TruncateData, Effect
  <1>8. ASSUME NEW src \in Pages, NEW dst \in Pages, StoreIndex(src, dst) PROVE Effect
    <2>1. src \in UsedPages /\ MovePage(src, dst)
      BY <1>8, IndexUsed DEF StoreIndex
    <2> QED BY <2>1 DEF Effect
  <1> QED BY <1>1, <1>2, <1>3, <1>4, <1>5, <1>6, <1>7, <1>8 DEF WorkNext

LEMMA NextEffect == QuickMax = 0 /\ IInv /\ Next => Effect
  BY CallEffect, CleanEffect, WorkEffect DEF Next

-----------------------------------------------------------------------------
(* The scan of the block that is cleaned *)

\* A page moved within its block lands behind where it came from, and the
\* cursor follows it.
LEMMA MovedBehind ==
  ASSUME TypeOK, FreeSuffix, NEW b \in Blocks, NEW e \in Entries, NEW dst \in Pages,
         <<b, e>> \in UsedPages, MovePage(<<b, e>>, dst)
  PROVE  /\ dst \in FreePages /\ cursor' = <<dst[1], dst[2] + 1>>
         /\ dst[1] \in Blocks /\ dst[2] \in Entries
         /\ dst[1] = b => dst[2] > e
         /\ <<dst[1], dst[2]>> = dst
         /\ \A q \in Pages : lu'[q] = IF q = <<b, e>> THEN DeletedEntry
                                      ELSE IF q = dst THEN lu[<<b, e>>] ELSE lu[q]
         /\ <<b, e>> # dst
  <1>1. dst \in FreePages /\ cursor' = <<dst[1], dst[2] + 1>>
    BY DEF MovePage, NextFree, TakeEntry
  <1>2. dst[1] \in Blocks /\ dst[2] \in Entries /\ <<dst[1], dst[2]>> = dst
    BY DEF Pages
  <1>3. <<b, e>> \notin FreePages
    BY DEF UsedPages, FreePages
  <1>4. dst[1] = b => dst[2] > e
    <2> SUFFICES ASSUME dst[1] = b, ~(dst[2] > e) PROVE FALSE
      OBVIOUS
    <2>1. dst[2] \in Int /\ e \in Int
      BY <1>2, ConstantsAssumption DEF ConstantsAssumption, Entries
    <2>2. dst[2] < e \/ dst[2] = e
      BY <2>1
    <2> QED BY <1>1, <1>2, <1>3, <2>2 DEF FreeSuffix
  <1>5. Owned(lu[<<b, e>>])
    BY UsedKinds DEF UsedPages
  <1> QED BY <1>1, <1>2, <1>4, <1>5, MoveSets DEF MovePage

\* The entry before the cursor is the page taken.
LEMMA CursorAfter ==
  ASSUME NEW dst \in Pages, dst[2] \in Entries, <<dst[1], dst[2]>> = dst,
         cursor' = <<dst[1], dst[2] + 1>>
  PROVE  LastMoved' = lu'[dst]
  <1>1. dst[2] \in Int
    BY ConstantsAssumption DEF ConstantsAssumption, Entries
  <1>2. cursor'[1] = dst[1] /\ cursor'[2] - 1 = dst[2]
    BY <1>1
  <1> QED BY <1>2 DEF LastMoved

\* CursorInCleaned and Passed through the steps of spiffs_gc_clean.
LEMMA ScanSteps ==
  ASSUME IInv, CleanNext
  PROVE  CursorInCleaned' /\ Passed'
  <1> USE DEF IInv
  <1>a. /\ gc.bix \in Blocks /\ gc.entry \in 0 .. N /\ gc.stored \in 0 .. N
        /\ N \in Nat /\ N >= 1 /\ Entries = 0 .. (N - 1)
        /\ \A e \in Entries : <<gc.bix, e>> \in Pages
    BY ConstantsAssumption DEF ConstantsAssumption, TypeOK, Cleanings, Pages, Entries
  <1>b. cursor \in Blocks \X (0 .. N) /\ cursor[1] \in Blocks /\ cursor[2] \in 0 .. N
    BY DEF TypeOK
  <1>c. gc \in Cleanings
    BY DEF TypeOK
  <1>d. ASSUME NEW e \in Entries, lu[<<gc.bix, e>>].kind \in {"data", "index"}
        PROVE  <<gc.bix, e>> \in UsedPages
    BY <1>a, <1>d, UsedKinds DEF Owned
  <1>e. ASSUME pc' \notin {"find", "moveData", "moveIx"}
        PROVE  CursorInCleaned' /\ Passed'
    BY <1>e DEF CursorInCleaned, Passed, Cleaning
  <1>1. ASSUME NEW b \in Blocks, PickCandidate(b) PROVE CursorInCleaned' /\ Passed'
    <2>1. gc'.bix = b /\ gc'.entry = 0 /\ pc' = "find"
      BY <1>1, <1>c DEF PickCandidate, Cleanings
    <2>2. cursor'[1] # b
      <3>1. NextBlock(b) # b
        BY ConstantsAssumption DEF ConstantsAssumption, NextBlock, Blocks
      <3> QED BY <1>1, <3>1 DEF PickCandidate
    <2>3. CursorInCleaned'
      BY <2>1, <2>2 DEF CursorInCleaned
    <2>4. Passed'
      BY <2>1, <1>a DEF Passed
    <2> QED BY <2>3, <2>4
  <1>2. ASSUME NEW e \in Entries, FindObjData(e) PROVE CursorInCleaned' /\ Passed'
    <2>1. /\ pc = "find" /\ pc' = "moveData" /\ FirstOf(DataLeft, e)
          /\ gc'.bix = gc.bix /\ gc'.entry = 0 /\ gc'.stored = e + 1
          /\ gc'.obj = lu[<<gc.bix, e>>].obj /\ lu' = lu /\ cursor' = cursor
      BY <1>2, <1>c DEF FindObjData, Cleanings
    <2>2. CursorInCleaned'
      BY <2>1, <1>a DEF CursorInCleaned, LastMoved, Cleaning
    <2>3. Passed'
      <3> SUFFICES ASSUME NEW f \in Entries, lu[<<gc.bix, f>>].kind = "data", f < e + 1
                   PROVE  f = e /\ f >= 0
        BY <2>1 DEF Passed
      <3>1. f \in DataLeft
        BY <2>1 DEF Passed, DataLeft
      <3> QED BY <1>a, <2>1, <3>1 DEF FirstOf
    <2> QED BY <2>2, <2>3
  <1>3. ASSUME NEW e \in Entries, WipeOrphan(e) PROVE CursorInCleaned' /\ Passed'
    <2>1. /\ pc = "find" /\ pc' = "find" /\ FirstOf(DataLeft, e)
          /\ gc'.bix = gc.bix /\ gc'.entry = e + 1 /\ cursor' = cursor
          /\ \A p \in Pages : lu'[p] = IF p = <<gc.bix, e>> THEN DeletedEntry ELSE lu[p]
      BY <1>3, <1>c DEF WipeOrphan, Cleanings, DeletePages
    <2>2. lu[<<gc.bix, e>>].kind = "data" /\ DeletedEntry.kind = "dele"
      BY <2>1 DEF FirstOf, DataLeft, DeletedEntry
    <2>3. CursorInCleaned'
      <3> SUFFICES ASSUME cursor[1] = gc.bix, cursor[2] # N
                   PROVE  cursor[2] # 0 /\ LastMoved'.kind = "index"
        BY <2>1 DEF CursorInCleaned
      <3>1. cursor[2] # 0 /\ LastMoved.kind = "index"
        BY <2>1 DEF CursorInCleaned, Cleaning
      <3>2. cursor[2] - 1 \in Entries /\ <<gc.bix, cursor[2] - 1>> \in Pages
        BY <1>a, <1>b, <3>1
      <3> QED BY <2>1, <2>2, <3>1, <3>2 DEF LastMoved
    <2>4. Passed'
      <3> SUFFICES ASSUME NEW f \in Entries, lu'[<<gc.bix, f>>].kind = "data"
                   PROVE  f >= e + 1
        BY <2>1 DEF Passed
      <3>1. lu[<<gc.bix, f>>].kind = "data" /\ f # e
        BY <1>a, <2>1, <2>2
      <3>2. f \in DataLeft
        BY <2>1, <3>1 DEF Passed, DataLeft
      <3> QED BY <1>a, <2>1, <3>1, <3>2 DEF FirstOf
    <2> QED BY <2>3, <2>4
  <1>4. CASE NoDataLeft
    <2>1. /\ pc = "find" /\ pc' = "moveIx" /\ DataLeft = {}
          /\ gc'.bix = gc.bix /\ gc'.entry = 0 /\ lu' = lu /\ cursor' = cursor
      BY <1>4, <1>c DEF NoDataLeft, Cleanings
    <2>2. CursorInCleaned'
      <3> SUFFICES ASSUME cursor[1] = gc.bix, cursor[2] # N
                   PROVE  cursor[2] # 0 /\ LastMoved.kind = "index" /\ cursor[2] - 1 >= 0
        BY <2>1 DEF CursorInCleaned, LastMoved
      <3>1. cursor[2] # 0 /\ LastMoved.kind = "index"
        BY <2>1 DEF CursorInCleaned, Cleaning
      <3> QED BY <1>b, <3>1
    <2>3. Passed'
      <3>1. \A f \in Entries : lu[<<gc.bix, f>>].kind # "data"
        BY <2>1 DEF Passed, DataLeft
      <3> QED BY <1>a, <2>1, <3>1 DEF Passed
    <2> QED BY <2>2, <2>3
  <1>5. ASSUME NEW e \in Entries, NEW dst \in Pages, MoveObjData(e, dst)
        PROVE  CursorInCleaned' /\ Passed'
    <2>1. /\ pc = "moveData" /\ pc' = "moveData" /\ FirstOf(SameObjectLeft, e)
          /\ gc'.bix = gc.bix /\ gc'.entry = e + 1 /\ gc'.stored = gc.stored /\ gc'.obj = gc.obj
          /\ MovePage(<<gc.bix, e>>, dst)
      BY <1>5, <1>c DEF MoveObjData, Cleanings
    <2>2. lu[<<gc.bix, e>>].kind = "data" /\ lu[<<gc.bix, e>>].obj = gc.obj
          /\ DeletedEntry.kind = "dele"
      BY <2>1 DEF FirstOf, SameObjectLeft, DataLeft, DeletedEntry
    <2>3. /\ cursor' = <<dst[1], dst[2] + 1>> /\ dst[2] \in Entries
          /\ dst[1] = gc.bix => dst[2] > e
          /\ <<dst[1], dst[2]>> = dst /\ <<gc.bix, e>> # dst
          /\ \A q \in Pages : lu'[q] = IF q = <<gc.bix, e>> THEN DeletedEntry
                                       ELSE IF q = dst THEN lu[<<gc.bix, e>>] ELSE lu[q]
      BY <1>a, <1>d, <2>1, <2>2, MovedBehind
    <2>4. CursorInCleaned'
      <3>1. LastMoved' = lu[<<gc.bix, e>>]
        BY <1>a, <2>3, CursorAfter
      <3>2. /\ cursor'[1] = dst[1] /\ cursor'[2] # 0
            /\ dst[1] = gc.bix => cursor'[2] - 1 >= e + 1
        BY <1>a, <2>3
      <3> QED BY <2>1, <2>2, <3>1, <3>2 DEF CursorInCleaned
    <2>5. Passed'
      <3> SUFFICES ASSUME NEW f \in Entries, lu'[<<gc.bix, f>>].kind = "data", f < gc.stored
                   PROVE  lu'[<<gc.bix, f>>].obj = gc.obj /\ f >= e + 1
        BY <2>1 DEF Passed
      <3>1. f # e
        BY <1>a, <2>2, <2>3
      <3>2. CASE <<gc.bix, f>> = dst
        <4>1. f = dst[2] /\ dst[1] = gc.bix
          BY <3>2
        <4>2. lu'[<<gc.bix, f>>] = lu[<<gc.bix, e>>]
          BY <2>3, <3>2
        <4>3. f >= e + 1
          BY <1>a, <2>3, <4>1
        <4> QED BY <2>2, <4>2, <4>3
      <3>3. CASE <<gc.bix, f>> # dst
        <4>1. lu'[<<gc.bix, f>>] = lu[<<gc.bix, f>>]
          BY <1>a, <2>3, <3>1, <3>3
        <4>2. lu[<<gc.bix, f>>].obj = gc.obj /\ f \in SameObjectLeft
          BY <2>1, <4>1 DEF Passed, SameObjectLeft, DataLeft
        <4> QED BY <1>a, <2>1, <3>1, <4>1, <4>2 DEF FirstOf
      <3> QED BY <3>2, <3>3
    <2> QED BY <2>4, <2>5
  <1>6. ASSUME NEW e \in Entries, NEW dst \in Pages, MoveObjIx(e, dst)
        PROVE  CursorInCleaned' /\ Passed'
    <2>1. /\ pc = "moveIx" /\ pc' = "moveIx" /\ FirstOf(IndexLeft, e)
          /\ gc'.bix = gc.bix /\ gc'.entry = e + 1
          /\ MovePage(<<gc.bix, e>>, dst)
      BY <1>6, <1>c DEF MoveObjIx, Cleanings
    <2>2. lu[<<gc.bix, e>>].kind = "index" /\ DeletedEntry.kind = "dele"
      BY <2>1 DEF FirstOf, IndexLeft, DeletedEntry
    <2>3. /\ cursor' = <<dst[1], dst[2] + 1>> /\ dst[2] \in Entries
          /\ dst[1] = gc.bix => dst[2] > e
          /\ <<dst[1], dst[2]>> = dst /\ <<gc.bix, e>> # dst
          /\ \A q \in Pages : lu'[q] = IF q = <<gc.bix, e>> THEN DeletedEntry
                                       ELSE IF q = dst THEN lu[<<gc.bix, e>>] ELSE lu[q]
      BY <1>a, <1>d, <2>1, <2>2, MovedBehind
    <2>4. CursorInCleaned'
      <3>1. LastMoved' = lu[<<gc.bix, e>>]
        BY <1>a, <2>3, CursorAfter
      <3>2. /\ cursor'[1] = dst[1] /\ cursor'[2] # 0
            /\ dst[1] = gc.bix => cursor'[2] - 1 >= e + 1
        BY <1>a, <2>3
      <3> QED BY <2>1, <2>2, <3>1, <3>2 DEF CursorInCleaned
    <2>5. Passed'
      <3> SUFFICES ASSUME NEW f \in Entries
                   PROVE  /\ lu'[<<gc.bix, f>>].kind # "data"
                          /\ lu'[<<gc.bix, f>>].kind = "index" => f >= e + 1
        BY <2>1 DEF Passed
      <3>1. CASE f = e
        BY <1>a, <2>2, <2>3, <3>1
      <3>2. CASE <<gc.bix, f>> = dst
        <4>1. f = dst[2] /\ dst[1] = gc.bix
          BY <3>2
        <4> QED BY <1>a, <2>2, <2>3, <4>1
      <3>3. CASE f # e /\ <<gc.bix, f>> # dst
        <4>1. lu'[<<gc.bix, f>>] = lu[<<gc.bix, f>>]
          BY <1>a, <2>3, <3>3
        <4>2. lu[<<gc.bix, f>>].kind # "data"
          BY <2>1 DEF Passed
        <4>3. lu[<<gc.bix, f>>].kind = "index" => f \in IndexLeft
          BY <2>1 DEF Passed, IndexLeft
        <4> QED BY <1>a, <2>1, <3>3, <4>1, <4>2, <4>3 DEF FirstOf
      <3> QED BY <3>1, <3>2, <3>3
    <2> QED BY <2>4, <2>5
  <1>7. ASSUME NEW src \in Pages, NEW dst \in Pages, StoreObjIndex(src, dst)
        PROVE  CursorInCleaned' /\ Passed'
    <2>1. /\ pc = "moveData" /\ pc' = "find" /\ SameObjectLeft = {}
          /\ gc'.bix = gc.bix /\ gc'.entry = gc.stored
          /\ src \in IndexPages(gc.obj) /\ MovePage(src, dst)
      BY <1>7, <1>c DEF StoreObjIndex, Cleanings
    <2>2. lu[src].kind = "index" /\ src \in UsedPages /\ DeletedEntry.kind = "dele"
          /\ src[1] \in Blocks /\ src[2] \in Entries /\ src = <<src[1], src[2]>>
      BY <2>1, IndexUsed DEF IndexPages, DeletedEntry, Pages
    <2>3. /\ cursor' = <<dst[1], dst[2] + 1>> /\ dst[2] \in Entries
          /\ <<dst[1], dst[2]>> = dst /\ src # dst
          /\ \A q \in Pages : lu'[q] = IF q = src THEN DeletedEntry
                                       ELSE IF q = dst THEN lu[src] ELSE lu[q]
      BY <2>1, <2>2, MovedBehind
    <2>4. CursorInCleaned'
      <3>1. LastMoved' = lu[src]
        BY <1>a, <2>3, CursorAfter
      <3>2. cursor'[2] # 0
        BY <1>a, <2>3
      <3> QED BY <2>1, <2>2, <3>1, <3>2 DEF CursorInCleaned
    <2>5. Passed'
      <3> SUFFICES ASSUME NEW f \in Entries, lu'[<<gc.bix, f>>].kind = "data"
                   PROVE  f >= gc.stored
        BY <2>1 DEF Passed
      <3>1. lu[<<gc.bix, f>>].kind = "data"
        BY <1>a, <2>2, <2>3
      <3>2. f < gc.stored => f \in SameObjectLeft
        BY <2>1, <3>1 DEF Passed, SameObjectLeft, DataLeft
      <3> QED BY <1>a, <2>1, <3>2
    <2> QED BY <2>4, <2>5
  <1>8. CASE CleanFails
    BY <1>8, <1>e DEF CleanFails
  <1>9. CASE EraseCleaned
    BY <1>9, <1>e DEF EraseCleaned, Finish, Proceed
  <1> QED BY <1>1, <1>2, <1>3, <1>4, <1>5, <1>6, <1>7, <1>8, <1>9 DEF CleanNext

\* No other step enters the scan or goes on with it.
LEMMA ScanRest ==
  ASSUME IInv, CallNext \/ WorkNext
  PROVE  CursorInCleaned' /\ Passed'
  <1>1. pc' \notin {"find", "moveData", "moveIx"}
    <2>1. ASSUME NEW o, StartCall(o) PROVE pc' \notin {"find", "moveData", "moveIx"}
      BY <2>1 DEF StartCall, Proceed
    <2>2. CASE CallNext
      <3>1. ASSUME NEW o, \/ Create(o) \/ Truncate(o) \/ Gc(o)
                          \/ \E len, whole : Append(o, len, whole)
                          \/ \E len, whole, at : Modify(o, len, whole, at)
            PROVE  pc' \notin {"find", "moveData", "moveIx"}
        BY ZenonT(60), <2>1, <3>1 DEF Create, Truncate, Gc, Append, Modify
      <3>2. ASSUME NEW o, \/ Rename(o) \/ Remove(o) \/ RemoveStops(o) \/ Remount
                          \/ \E max, b : GcQuick(max, b)
            PROVE  pc' \notin {"find", "moveData", "moveIx"}
        BY <3>2 DEF Rename, Remove, RemoveStops, Remount, GcQuick
      <3> QED BY <2>2, <3>1, <3>2, Zenon DEF CallNext
    <2>3. CASE WorkNext
      BY ZenonT(60), <2>3
      DEF WorkNext, QuickInFindFree, CreateIndex, AppendPage, ModifyPage, ModifyLosesPage,
          CreateFails, LeaveLoop, LoopDone, TruncateData, StoreFresh, StoreFails, StoreIndex, Finish
    <2> QED BY <2>2, <2>3
  <1> QED BY <1>1 DEF CursorInCleaned, Passed, Cleaning

-----------------------------------------------------------------------------
(* The index pages and the references in them *)

FilesSound ==
    /\ RefsSound /\ GcWorkSound /\ OpWorkSound
    /\ ModifyInside /\ OpExists /\ NoIndexNoRefs /\ DamagedExist /\ OnlyIndex

\* The same of the state after a step, with what flash then holds spelled out.
NextExists(o) == \E p \in Pages : lu'[p] = IndexEntry(o)
NextIndexPages(o) == {p \in Pages : lu'[p].kind = "index" /\ lu'[p].obj = o}
NextSound(w, o, s) == w[s] # NoPage => w[s] \in Pages /\ lu'[w[s]] = DataEntry(o, s)
WorkingNext == pc' \in {"work", "store"}
RefsNext ==
    \A o \in Objs \ damaged', s \in Spans :
        \/ NextSound(refs'[o], o, s)
        \/ pc' = "moveData" /\ gc'.obj = o
        \/ WorkingNext /\ op'.obj = o /\ op'.kind # "create"
GcWorkNext ==
    pc' = "moveData" =>
        /\ NextExists(gc'.obj)
        /\ \A s \in Spans : gc'.obj \in damaged' \/ NextSound(gc'.work, gc'.obj, s)
        /\ \A s \in Spans : refs'[gc'.obj][s] # NoPage => gc'.work[s] # NoPage
OpWorkNext ==
    WorkingNext /\ op'.kind # "create" =>
        \A s \in Spans :
            \/ NextSound(op'.work, op'.obj, s)
            \/ op'.obj \in damaged' /\ ~(pc' = "work" /\ op'.kind = "modify" /\ s >= op'.at)
ModifyNext ==
    op'.kind = "modify" =>
        /\ pc' # "idle" /\ ~WorkingNext =>
              /\ op'.obj \notin damaged'
              /\ \A s \in op'.at .. op'.last : s \in Spans /\ refs'[op'.obj][s] # NoPage
        /\ pc' = "work" =>
              \A s \in op'.at .. op'.last : s \in Spans /\ op'.work[s] # NoPage
OpNext ==
    /\ op'.kind \in {"append", "modify", "truncate", "rename"} => NextExists(op'.obj)
    /\ op'.kind \in {"append", "truncate", "rename"} => op'.obj \notin damaged'
    /\ op'.kind = "create" => NextIndexPages(op'.obj) = {}
    /\ op'.kind = "remove" =>
          /\ pc' = "store" /\ op'.work = NoRefs
          /\ NextIndexPages(op'.obj) # {} /\ ~NextExists(op'.obj)
    /\ pc' = "store" => op'.kind # "create"
IndexNext ==
    /\ \A o \in Objs : ~NextExists(o) => refs'[o] = NoRefs
    /\ \A o \in damaged' : NextExists(o)
    /\ \A o \in Objs : \A p, q \in NextIndexPages(o) : p = q
FilesNext == RefsNext /\ GcWorkNext /\ OpWorkNext /\ ModifyNext /\ OpNext /\ IndexNext

LEMMA NextParts == FilesNext => FilesSound'
  <1> SUFFICES ASSUME FilesNext PROVE FilesSound'
    OBVIOUS
  <1> USE DEF FilesNext, WorkingNext, NextExists, NextIndexPages, NextSound
  <1>1. RefsSound'
    BY DEF RefsNext, RefsSound, Sound, Working
  <1>2. GcWorkSound'
    BY DEF GcWorkNext, GcWorkSound, Sound, Exists, SpansOf
  <1>3. OpWorkSound'
    BY DEF OpWorkNext, OpWorkSound, Sound, Working
  <1>4. ModifyInside'
    BY DEF ModifyNext, ModifyInside, Working, SpansOf
  <1>5. OpExists'
    BY DEF OpNext, OpExists, Exists, IndexPages
  <1>6. NoIndexNoRefs' /\ DamagedExist' /\ OnlyIndex'
    BY DEF IndexNext, NoIndexNoRefs, DamagedExist, OnlyIndex, Exists, IndexPages
  <1> QED BY <1>1, <1>2, <1>3, <1>4, <1>5, <1>6 DEF FilesSound

\* A step that touches no used page, or takes a free one for data.
FlashKept ==
    \A p \in Pages : /\ lu[p].kind \in {"data", "index"} => lu'[p] = lu[p]
                     /\ lu'[p].kind = "index" => lu'[p] = lu[p]

LEMMA KeptFiles ==
  ASSUME FlashKept
  PROVE  /\ \A w, o, s : Sound(w, o, s) => NextSound(w, o, s)
         /\ \A o : NextExists(o) <=> Exists(o)
         /\ \A o : NextIndexPages(o) = IndexPages(o)
  <1>1. ASSUME NEW w, NEW o, NEW s, Sound(w, o, s) PROVE NextSound(w, o, s)
    BY <1>1 DEF FlashKept, Sound, NextSound, DataEntry
  <1>2. ASSUME NEW o PROVE NextExists(o) <=> Exists(o)
    <2>1. IndexEntry(o).kind = "index"
      BY DEF IndexEntry
    <2> QED BY <2>1 DEF FlashKept, NextExists, Exists
  <1>3. ASSUME NEW o PROVE NextIndexPages(o) = IndexPages(o)
    BY DEF FlashKept, NextIndexPages, IndexPages
  <1> QED BY <1>1, <1>2, <1>3

\* A step that moves an index page.
LEMMA MovedIndex ==
  ASSUME TypeOK, OnlyIndex, NEW o \in Objs, NEW src \in IndexPages(o), NEW dst \in Pages,
         MovePage(src, dst)
  PROVE  /\ \A w, x, s : Sound(w, x, s) => NextSound(w, x, s)
         /\ \A x : NextExists(x) <=> Exists(x)
         /\ \A x : NextIndexPages(x) = {} <=> IndexPages(x) = {}
         /\ \A x \in Objs : \A p, q \in NextIndexPages(x) : p = q
  <1>1. src \in UsedPages /\ src \in Pages /\ lu[src].kind = "index" /\ lu[src].obj = o
    BY IndexUsed DEF IndexPages
  <1>2. dst \in FreePages /\ lu[dst] = FreeEntry /\ Owned(lu[src])
    BY <1>1, UsedKinds DEF MovePage, NextFree
  <1>3. src # dst /\ \A q \in Pages : lu'[q] = IF q = src THEN DeletedEntry
                                                ELSE IF q = dst THEN lu[src] ELSE lu[q]
    BY <1>1, <1>2, MoveSets DEF MovePage
  <1>4. DeletedEntry.kind = "dele" /\ FreeEntry.kind = "free"
    BY DEF DeletedEntry, FreeEntry
  <1>5. ASSUME NEW w, NEW x, NEW s, Sound(w, x, s) PROVE NextSound(w, x, s)
    BY <1>1, <1>2, <1>3, <1>4, <1>5 DEF Sound, NextSound, DataEntry
  <1>6. ASSUME NEW x PROVE NextExists(x) <=> Exists(x)
    <2>1. IndexEntry(x).kind = "index"
      BY DEF IndexEntry
    <2> QED BY <1>1, <1>2, <1>3, <1>4, <2>1 DEF NextExists, Exists
  <1>7. ASSUME NEW x PROVE NextIndexPages(x) = {} <=> IndexPages(x) = {}
    BY <1>1, <1>2, <1>3, <1>4 DEF NextIndexPages, IndexPages
  <1>8. ASSUME NEW x \in Objs, NEW p \in NextIndexPages(x), NEW q \in NextIndexPages(x)
        PROVE  p = q
    <2>1. p # src /\ q # src
      BY <1>3, <1>4 DEF NextIndexPages
    <2>2. x = o => p = dst /\ q = dst
      BY <1>1, <1>3, <2>1 DEF NextIndexPages, IndexPages, OnlyIndex
    <2>3. x # o => p \in IndexPages(x) /\ q \in IndexPages(x)
      BY <1>1, <1>3, <2>1 DEF NextIndexPages, IndexPages
    <2> QED BY <2>2, <2>3 DEF OnlyIndex
  <1> QED BY <1>5, <1>6, <1>7, <1>8

\* Pages deleted from a state: what is left of the files' indexes.
LEMMA DeletedFiles ==
  ASSUME NEW gone, \A p \in Pages : lu'[p] = IF p \in gone THEN DeletedEntry ELSE lu[p],
         \A p \in gone : lu[p].kind = "data"
  PROVE  /\ \A w, o, s : Sound(w, o, s) /\ w[s] \notin gone => NextSound(w, o, s)
         /\ \A o : NextExists(o) <=> Exists(o)
         /\ \A o : NextIndexPages(o) = IndexPages(o)
  <1>1. DeletedEntry.kind = "dele" /\ \A o : IndexEntry(o).kind = "index"
    BY DEF DeletedEntry, IndexEntry
  <1>2. ASSUME NEW w, NEW o, NEW s, Sound(w, o, s), w[s] \notin gone PROVE NextSound(w, o, s)
    BY <1>2 DEF Sound, NextSound
  <1>3. ASSUME NEW o PROVE NextExists(o) <=> Exists(o)
    BY <1>1 DEF NextExists, Exists
  <1>4. ASSUME NEW o PROVE NextIndexPages(o) = IndexPages(o)
    BY <1>1 DEF NextIndexPages, IndexPages
  <1> QED BY <1>2, <1>3, <1>4

\* A call that waits for spiffs_gc_check, or is about to.
Ready(o) ==
    /\ o \in Calls
    /\ o.kind \in {"create", "append", "modify", "truncate", "rename", "gc"}
    /\ o.kind # "gc" => o.obj \in Objs
    /\ o.kind \in {"append", "modify", "truncate", "rename"} =>
          Exists(o.obj) /\ o.obj \notin damaged
    /\ o.kind = "modify" => \A s \in o.at .. o.last : s \in Spans /\ refs[o.obj][s] # NoPage
    /\ o.kind = "create" => IndexPages(o.obj) = {}

LEMMA ReadyOp ==
  ASSUME IInv, pc \in {"pick", "find", "moveData", "moveIx"}
  PROVE  Ready(op)
  <1> USE DEF IInv
  <1>1. op \in Calls /\ op.kind # "remove" /\ op.kind # "none"
    BY DEF TypeOK, OpExists
  <1>2. op.kind \in {"create", "append", "modify", "truncate", "rename", "gc"}
    BY <1>1 DEF Calls
  <1>3. op.kind \in {"append", "modify", "truncate", "rename"} =>
          Exists(op.obj) /\ op.obj \notin damaged
    BY DEF OpExists, ModifyInside, Working
  <1>4. op.kind = "modify" => \A s \in op.at .. op.last : s \in Spans /\ refs[op.obj][s] # NoPage
    BY DEF ModifyInside, Working, SpansOf
  <1> QED BY <1>1, <1>2, <1>3, <1>4 DEF TypeOK, OpExists, Ready

\* What a step must keep of the files for their indexes to be sound after it.
Undisturbed ==
    /\ refs' = refs /\ damaged' = damaged
    /\ \A w, o, s : Sound(w, o, s) => NextSound(w, o, s)
    /\ \A o : NextExists(o) <=> Exists(o)
    /\ \A o : NextIndexPages(o) = IndexPages(o)

LEMMA UndisturbedIndex ==
  ASSUME IInv, Undisturbed
  PROVE  IndexNext
  BY DEF IInv, Undisturbed, IndexNext, NoIndexNoRefs, DamagedExist, OnlyIndex

\* Outside of a call's work, and while the collector holds no index, all
\* indexes are sound.
LEMMA AllSound ==
  ASSUME IInv, pc \notin {"moveData", "work", "store"}
  PROVE  \A o \in Objs \ damaged, s \in Spans : Sound(refs[o], o, s)
  BY DEF IInv, RefsSound, Working

LEMMA WaitFiles ==
  ASSUME IInv, Undisturbed, pc \notin {"moveData", "work", "store"},
         NEW o, Ready(o), op' = o, pc' \in {"pick", "find", "moveIx"}
  PROVE  FilesNext
  <1>1. RefsNext
    BY AllSound DEF Undisturbed, RefsNext
  <1>2. GcWorkNext /\ OpWorkNext
    BY DEF GcWorkNext, OpWorkNext, WorkingNext
  <1>3. ModifyNext
    BY DEF Ready, Undisturbed, ModifyNext, WorkingNext
  <1>4. OpNext
    BY DEF Ready, Undisturbed, OpNext
  <1> QED BY <1>1, <1>2, <1>3, <1>4, UndisturbedIndex DEF FilesNext

LEMMA IdleFiles ==
  ASSUME IInv, Undisturbed, pc \notin {"moveData", "work", "store"},
         pc' = "idle", op'.kind = "none"
  PROVE  FilesNext
  <1>1. RefsNext
    BY AllSound DEF Undisturbed, RefsNext
  <1>2. GcWorkNext /\ OpWorkNext /\ ModifyNext /\ OpNext
    BY DEF GcWorkNext, OpWorkNext, WorkingNext, ModifyNext, OpNext
  <1> QED BY <1>1, <1>2, UndisturbedIndex DEF FilesNext

LEMMA ProceedFiles ==
  ASSUME IInv, Undisturbed, pc \notin {"moveData", "work", "store"},
         NEW o, Ready(o), Proceed(o)
  PROVE  FilesNext
  <1>1. CASE o.kind = "gc"
    <2>1. pc' = "idle" /\ op'.kind = "none"
      BY <1>1 DEF Proceed, Idle
    <2> QED BY <2>1, IdleFiles
  <1>2. CASE o.kind # "gc"
    <2>1. /\ pc' = "work" /\ op'.kind = o.kind /\ op'.obj = o.obj
          /\ op'.at = o.at /\ op'.last = o.last
          /\ o.kind # "create" => op'.work = refs[o.obj]
      BY <1>2 DEF Proceed, Ready, Calls
    <2>2. RefsNext /\ GcWorkNext
      BY <2>1, AllSound DEF Undisturbed, RefsNext, GcWorkNext
    <2>3. OpWorkNext
      <3> SUFFICES ASSUME o.kind # "create", NEW s \in Spans
                   PROVE  NextSound(op'.work, op'.obj, s)
        BY <2>1 DEF OpWorkNext
      <3>1. Sound(refs[o.obj], o.obj, s)
        BY <1>2, AllSound DEF Ready
      <3> QED BY <2>1, <3>1 DEF Undisturbed
    <2>4. ModifyNext
      BY <2>1 DEF Ready, ModifyNext, WorkingNext
    <2>5. OpNext
      BY <2>1 DEF Ready, Undisturbed, OpNext
    <2> QED BY <2>2, <2>3, <2>4, <2>5, UndisturbedIndex DEF FilesNext
  <1> QED BY <1>1, <1>2

LEMMA SameFlash ==
  ASSUME lu' = lu, refs' = refs, damaged' = damaged
  PROVE  Undisturbed
  <1>1. FlashKept
    BY DEF FlashKept
  <1> QED BY <1>1, KeptFiles DEF Undisturbed

LEMMA StartFiles ==
  ASSUME IInv, NEW o, Ready(o), StartCall(o)
  PROVE  FilesNext
  <1>1. Undisturbed /\ pc = "idle"
    BY SameFlash DEF StartCall
  <1>2. CASE Proceed(o)
    BY <1>1, <1>2, ProceedFiles
  <1>3. CASE pc' = "pick" /\ op' = o
    BY <1>1, <1>3, WaitFiles
  <1> QED BY <1>2, <1>3 DEF StartCall

LEMMA EraseKept ==
  ASSUME TypeOK, NEW b \in Blocks, EraseEmpty(b)
  PROVE  FlashKept
  <1>1. \A p \in Pages : lu'[p] = IF p[1] = b THEN FreeEntry ELSE lu[p]
    BY DEF EraseEmpty
  <1>2. \A p \in Pages : p[1] = b => p \notin UsedPages
    BY DEF EraseEmpty, BlockPages, Pages
  <1>3. \A p \in Pages : p[1] = b => lu[p].kind \notin {"data", "index"}
    BY <1>2, UsedKinds DEF Owned
  <1>4. FreeEntry.kind = "free"
    BY DEF FreeEntry
  <1> QED BY <1>1, <1>3, <1>4 DEF FlashKept

\* What the removal of file o leaves of the other files: those it hits are damaged.
LEMMA RemovedRefs ==
  ASSUME IInv, pc = "idle", NEW o \in Objs,
         refs' = [refs EXCEPT ![o] = NoRefs], damaged' = DamagedByRemoving(o),
         \A p \in Pages : p \notin TruncatedPages(refs[o]) \cup IndexPages(o) => lu'[p] = lu[p]
  PROVE  RefsNext
  <1> SUFFICES ASSUME NEW d \in Objs \ damaged', NEW s \in Spans
               PROVE  NextSound(refs'[d], d, s)
    BY DEF RefsNext
  <1> USE DEF IInv
  <1>1. refs' \in [Objs -> Works] /\ refs'[o] = NoRefs /\ \A x \in Objs : x # o => refs'[x] = refs[x]
    BY EntryTypes DEF TypeOK
  <1>2. CASE d = o \/ ~Exists(d)
    <2>1. refs'[d] = NoRefs
      BY <1>1, <1>2 DEF NoIndexNoRefs
    <2> QED BY <2>1 DEF NextSound, NoRefs
  <1>3. CASE d # o /\ Exists(d)
    <2>1. d \notin damaged /\ \A p \in TruncatedPages(refs[o]) : lu[p].obj # d
      BY <1>3 DEF DamagedByRemoving
    <2>2. Sound(refs[d], d, s) /\ refs'[d] = refs[d]
      BY <1>1, <1>3, <2>1, AllSound
    <2>3. ASSUME refs[d][s] # NoPage
          PROVE  refs[d][s] \in Pages /\ lu'[refs[d][s]] = DataEntry(d, s)
      <3>1. refs[d][s] \in Pages /\ lu[refs[d][s]] = DataEntry(d, s)
        BY <2>2, <2>3 DEF Sound
      <3>2. DataEntry(d, s).kind = "data" /\ DataEntry(d, s).obj = d
        BY DEF DataEntry
      <3>3. refs[d][s] \notin TruncatedPages(refs[o]) \cup IndexPages(o)
        BY <2>1, <3>1, <3>2 DEF IndexPages
      <3> QED BY <3>1, <3>3
    <2> QED BY <2>2, <2>3 DEF NextSound
  <1> QED BY <1>2, <1>3

LEMMA RemoveFiles ==
  ASSUME IInv, NEW o \in Objs, Remove(o)
  PROVE  FilesNext
  <1> USE DEF IInv
  <1>1. /\ \A p \in Pages : lu'[p] = IF p \in TruncatedPages(refs[o]) \cup IndexPages(o)
                                     THEN DeletedEntry ELSE lu[p]
        /\ refs' = [refs EXCEPT ![o] = NoRefs] /\ damaged' = DamagedByRemoving(o)
        /\ pc = "idle" /\ pc' = "idle" /\ op' = op
    BY DEF Remove, DeletePages
  <1>2. RefsNext
    BY <1>1, RemovedRefs
  <1>3. op.kind = "none"
    BY <1>1 DEF TypeOK
  <1>4. GcWorkNext /\ OpWorkNext /\ ModifyNext /\ OpNext
    BY <1>1, <1>3 DEF GcWorkNext, OpWorkNext, WorkingNext, ModifyNext, OpNext
  <1>5. /\ DeletedEntry.kind = "dele" /\ \A x : IndexEntry(x).kind = "index" /\ IndexEntry(x).obj = x
        /\ \A p \in TruncatedPages(refs[o]) : lu[p].kind = "data"
    BY DEF DeletedEntry, IndexEntry, TruncatedPages, Passes
  <1>6. ASSUME NEW x, x # o PROVE NextExists(x) <=> Exists(x)
    BY <1>1, <1>5, <1>6 DEF NextExists, Exists, IndexPages
  <1>7. ASSUME NEW x PROVE NextIndexPages(x) \subseteq IndexPages(x)
    BY <1>1, <1>5 DEF NextIndexPages, IndexPages
  <1>8. IndexNext
    <2>1. refs'[o] = NoRefs /\ \A x \in Objs : x # o => refs'[x] = refs[x]
      BY <1>1 DEF TypeOK
    <2>2. \A x \in Objs : ~NextExists(x) => refs'[x] = NoRefs
      BY <1>6, <2>1 DEF NoIndexNoRefs
    <2>3. \A x \in damaged' : NextExists(x)
      BY <1>1, <1>6 DEF DamagedByRemoving
    <2>4. \A x \in Objs : \A p, q \in NextIndexPages(x) : p = q
      BY <1>7 DEF OnlyIndex
    <2> QED BY <2>2, <2>3, <2>4 DEF IndexNext
  <1> QED BY <1>2, <1>4, <1>8 DEF FilesNext

LEMMA RemoveStopsFiles ==
  ASSUME IInv, NEW o \in Objs, RemoveStops(o)
  PROVE  FilesNext
  <1> USE DEF IInv
  <1>1. /\ \A p \in Pages : lu'[p] = IF p \in TruncatedPages(refs[o]) THEN DeletedEntry
                                     ELSE IF p \in IndexPages(o) THEN CondemnedEntry(o) ELSE lu[p]
        /\ refs' = [refs EXCEPT ![o] = NoRefs] /\ damaged' = DamagedByRemoving(o)
        /\ pc = "idle" /\ pc' = "store" /\ Exists(o)
        /\ op' = Call("remove", o, 0, TRUE, 0, 0, {})
    BY DEF RemoveStops
  <1>2. op'.kind = "remove" /\ op'.obj = o /\ op'.work = NoRefs
    BY <1>1 DEF Call, Idle
  <1>3. RefsNext
    BY <1>1, RemovedRefs
  <1>4. GcWorkNext /\ OpWorkNext /\ ModifyNext
    BY <1>1, <1>2 DEF GcWorkNext, OpWorkNext, ModifyNext, NextSound, NoRefs
  <1>5. /\ DeletedEntry.kind = "dele"
        /\ \A x : IndexEntry(x).kind = "index" /\ IndexEntry(x).obj = x /\ IndexEntry(x).span = 0
        /\ CondemnedEntry(o).kind = "index" /\ CondemnedEntry(o).obj = o /\ CondemnedEntry(o).span = 1
        /\ \A p \in TruncatedPages(refs[o]) : lu[p].kind = "data"
    BY DEF DeletedEntry, IndexEntry, CondemnedEntry, TruncatedPages, Passes
  <1>6. ASSUME NEW x, x # o PROVE NextExists(x) <=> Exists(x)
    BY <1>1, <1>5, <1>6 DEF NextExists, Exists, IndexPages
  <1>7. ASSUME NEW x PROVE NextIndexPages(x) = IndexPages(x)
    BY <1>1, <1>5 DEF NextIndexPages, IndexPages
  <1>8. ~NextExists(o)
    BY <1>1, <1>5 DEF NextExists, IndexPages
  <1>9. IndexPages(o) # {}
    BY <1>1, <1>5 DEF Exists, IndexPages
  <1>10. OpNext
    BY <1>1, <1>2, <1>7, <1>8, <1>9 DEF OpNext
  <1>11. IndexNext
    <2>1. refs'[o] = NoRefs /\ \A x \in Objs : x # o => refs'[x] = refs[x]
      BY <1>1 DEF TypeOK
    <2>2. \A x \in Objs : ~NextExists(x) => refs'[x] = NoRefs
      BY <1>6, <2>1 DEF NoIndexNoRefs
    <2>3. \A x \in damaged' : NextExists(x)
      BY <1>1, <1>6 DEF DamagedByRemoving
    <2>4. \A x \in Objs : \A p, q \in NextIndexPages(x) : p = q
      BY <1>7 DEF OnlyIndex
    <2> QED BY <2>2, <2>3, <2>4 DEF IndexNext
  <1> QED BY <1>3, <1>4, <1>10, <1>11 DEF FilesNext

\* The calls that begin.
LEMMA CallFiles ==
  ASSUME QuickMax = 0, IInv, CallNext
  PROVE  FilesNext
  <1> USE DEF IInv
  <1>1. ASSUME NEW o \in Objs, Create(o) PROVE FilesNext
    <2> DEFINE c == Call("create", o, 1, TRUE, 0, 0, {})
    <2>1. c \in Calls /\ c.kind = "create" /\ c.obj = o
      BY EntryTypes, ConstantsAssumption DEF ConstantsAssumption, Call, Calls, Idle
    <2>2. IndexPages(o) = {} /\ StartCall(c)
      BY <1>1 DEF Create, IdInUse, IndexPages
    <2> HIDE DEF c
    <2>3. Ready(c)
      BY <2>1, <2>2 DEF Ready
    <2> QED BY <2>2, <2>3, StartFiles
  <1>2. ASSUME NEW o \in Objs, NEW len \in 1 .. MaxLen, NEW whole \in BOOLEAN,
               Append(o, len, whole)
        PROVE  FilesNext
    <2>1. PICK fill \in {0, 1} :
            /\ fill = 1 => ~whole /\ SizeOf(o) > 0
            /\ SizeOf(o) + len - fill <= MaxData
            /\ StartCall(Call("append", o, len + 1, whole, SizeOf(o), SizeOf(o) + len - fill - 1, {}))
      BY <1>2 DEF Append
    <2> DEFINE c == Call("append", o, len + 1, whole, SizeOf(o), SizeOf(o) + len - fill - 1, {})
    <2>2. /\ len + 1 \in Nat /\ SizeOf(o) \in Nat
          /\ SizeOf(o) + len - fill - 1 \in 0 .. MaxData
      BY <2>1, SizeType, ConstantsAssumption DEF ConstantsAssumption
    <2>3. c \in Calls /\ c.kind = "append" /\ c.obj = o
      BY <2>2, EntryTypes DEF Call, Calls, Idle
    <2>4. StartCall(c)
      BY <2>1
    <2> HIDE DEF c
    <2>5. Ready(c)
      BY <1>2, <2>3 DEF Ready, Append
    <2> QED BY <2>4, <2>5, StartFiles
  <1>3. ASSUME NEW o \in Objs, NEW len \in 1 .. MaxLen, NEW whole \in BOOLEAN, NEW at \in Spans,
               Modify(o, len, whole, at)
        PROVE  FilesNext
    <2>1. PICK aligned \in BOOLEAN, extra \in {0, 1} :
            LET last == at + len - 1 + extra
                part == IF ~aligned THEN {at, last} ELSE IF whole THEN {} ELSE {last}
            IN  /\ at .. last \subseteq SpansOf(o)
                /\ StartCall(Call("modify", o, len + 1, whole, at, last, part))
      BY <1>3 DEF Modify
    <2> DEFINE last == at + len - 1 + extra
               part == IF ~aligned THEN {at, last} ELSE IF whole THEN {} ELSE {last}
               c == Call("modify", o, len + 1, whole, at, last, part)
    <2>2. at \in Nat /\ last \in Nat /\ at <= last /\ len + 1 \in Nat
      BY ConstantsAssumption DEF ConstantsAssumption, Spans
    <2>3. at .. last \subseteq SpansOf(o)
      BY <2>1
    <2>4. last \in 0 .. MaxData
      BY <2>2, <2>3, ConstantsAssumption DEF ConstantsAssumption, Spans, SpansOf
    <2>5. part \in SUBSET Nat
      BY <2>2
    <2>6. StartCall(c)
      BY <2>1
    <2> HIDE DEF last, part
    <2>7. c \in Calls /\ c.kind = "modify" /\ c.obj = o /\ c.at = at /\ c.last = last
      BY <2>2, <2>4, <2>5, EntryTypes DEF Call, Calls, Idle
    <2> HIDE DEF c
    <2>8. Exists(o) /\ o \notin damaged
      BY <1>3 DEF Modify
    <2>9. Ready(c)
      BY <2>3, <2>7, <2>8 DEF Ready, SpansOf
    <2> QED BY <2>6, <2>9, StartFiles
  <1>4. ASSUME NEW o \in Objs, Truncate(o) PROVE FilesNext
    <2> DEFINE c == Call("truncate", o, 2, TRUE, 0, 0, {})
    <2>1. c \in Calls /\ c.kind = "truncate" /\ c.obj = o
      BY EntryTypes, ConstantsAssumption DEF ConstantsAssumption, Call, Calls, Idle
    <2>2. StartCall(c) /\ Exists(o) /\ o \notin damaged
      BY <1>4 DEF Truncate
    <2> HIDE DEF c
    <2>3. Ready(c)
      BY <2>1, <2>2 DEF Ready
    <2> QED BY <2>2, <2>3, StartFiles
  <1>5. ASSUME NEW o \in Objs, Rename(o) PROVE FilesNext
    <2>1. /\ pc = "idle" /\ pc' = "store" /\ Exists(o) /\ o \notin damaged
          /\ op' = [Call("rename", o, 0, TRUE, 0, 0, {}) EXCEPT !.work = refs[o]]
      BY <1>5 DEF Rename
    <2>2. op'.kind = "rename" /\ op'.obj = o /\ op'.work = refs[o]
      BY <2>1 DEF Call, Idle
    <2>3. Undisturbed
      BY <1>5, SameFlash DEF Rename
    <2>4. RefsNext /\ GcWorkNext /\ OpWorkNext
      BY <2>1, <2>2, <2>3, AllSound DEF RefsNext, GcWorkNext, OpWorkNext, Undisturbed
    <2>5. ModifyNext
      BY <2>2 DEF ModifyNext
    <2>6. NextExists(o) /\ o \notin damaged'
      BY <2>1, <2>3 DEF Undisturbed
    <2>7. OpNext
      BY <2>2, <2>6 DEF OpNext
    <2> QED BY <2>3, <2>4, <2>5, <2>7, UndisturbedIndex DEF FilesNext
  <1>6. ASSUME NEW len \in 1 .. MaxGcLen, Gc(len) PROVE FilesNext
    <2> DEFINE c == [Idle EXCEPT !.kind = "gc", !.need = len]
    <2>1. len \in Nat
      BY ConstantsAssumption DEF ConstantsAssumption
    <2>2. c \in Calls /\ c.kind = "gc"
      BY <2>1, EntryTypes DEF Calls, Idle
    <2>3. StartCall(c)
      BY <1>6 DEF Gc
    <2> HIDE DEF c
    <2>4. Ready(c)
      BY <2>2 DEF Ready
    <2> QED BY <2>3, <2>4, StartFiles
  <1>7. ASSUME NEW max \in 0 .. QuickMax, NEW b \in Blocks, GcQuick(max, b) PROVE FilesNext
    <2>1. max = 0
      OBVIOUS
    <2>2. EraseEmpty(b)
      BY <1>7, <2>1, QuickEraseEffect DEF GcQuick
    <2>3. Undisturbed
      BY <1>7, <2>2, EraseKept, KeptFiles DEF GcQuick, Undisturbed
    <2>4. pc = "idle" /\ pc' = "idle" /\ op'.kind = "none"
      BY <1>7 DEF GcQuick, TypeOK
    <2> QED BY <2>3, <2>4, IdleFiles
  <1>8. CASE Remount
    <2>1. Undisturbed
      BY <1>8, SameFlash DEF Remount
    <2>2. pc = "idle" /\ pc' = "idle" /\ op'.kind = "none"
      BY <1>8 DEF Remount, TypeOK
    <2> QED BY <2>1, <2>2, IdleFiles
  <1> QED BY <1>1, <1>2, <1>3, <1>4, <1>5, <1>6, <1>7, <1>8, RemoveFiles, RemoveStopsFiles
      DEF CallNext

\* The steps of the collector.
LEMMA CleanFiles ==
  ASSUME IInv, CleanNext
  PROVE  FilesNext
  <1> USE DEF IInv
  <1>a. /\ gc.bix \in Blocks /\ gc \in Cleanings
        /\ \A e \in Entries : <<gc.bix, e>> \in Pages
    BY DEF TypeOK, Cleanings, Pages
  <1>b. ASSUME NEW e \in Entries, lu[<<gc.bix, e>>].kind \in {"data", "index"}
        PROVE  <<gc.bix, e>> \in UsedPages
    BY <1>a, <1>b, UsedKinds DEF Owned
  <1>1. ASSUME NEW b \in Blocks, PickCandidate(b) PROVE FilesNext
    <2>1. Undisturbed /\ pc = "pick" /\ pc' = "find" /\ op' = op
      BY <1>1, SameFlash DEF PickCandidate
    <2> QED BY <2>1, ReadyOp, WaitFiles
  <1>2. ASSUME NEW e \in Entries, FindObjData(e) PROVE FilesNext
    <2> DEFINE o == lu[<<gc.bix, e>>].obj
    <2>1. /\ pc = "find" /\ pc' = "moveData" /\ op' = op /\ Exists(o)
          /\ gc'.obj = o /\ gc'.work = refs[o]
      BY <1>2, <1>a DEF FindObjData, Cleanings
    <2>2. Undisturbed
      BY <1>2, SameFlash DEF FindObjData
    <2>3. o \in Objs
      BY <1>2, <1>a, EntryKinds DEF TypeOK, FindObjData, FirstOf, DataLeft
    <2> HIDE DEF o
    <2>4. RefsNext
      BY <2>1, <2>2, AllSound DEF Undisturbed, RefsNext
    <2>5. GcWorkNext
      <3>1. NextExists(o) /\ refs'[o] = refs[o]
        BY <2>1, <2>2 DEF Undisturbed
      <3>2. \A s \in Spans : o \in damaged' \/ NextSound(refs[o], o, s)
        BY <2>1, <2>2, <2>3, AllSound DEF Undisturbed
      <3> QED BY <2>1, <3>1, <3>2 DEF GcWorkNext
    <2>6. OpWorkNext /\ ModifyNext /\ OpNext
      BY <2>1, <2>2, ReadyOp DEF OpWorkNext, WorkingNext, ModifyNext, OpNext, Undisturbed, Ready
    <2> QED BY <2>2, <2>4, <2>5, <2>6, UndisturbedIndex DEF FilesNext
  <1>3. ASSUME NEW e \in Entries, WipeOrphan(e) PROVE FilesNext
    <2> DEFINE o == lu[<<gc.bix, e>>].obj
    <2>1. /\ pc = "find" /\ pc' = "find" /\ op' = op /\ ~Exists(o)
          /\ refs' = refs /\ damaged' = damaged
          /\ \A p \in Pages : lu'[p] = IF p \in {<<gc.bix, e>>} THEN DeletedEntry ELSE lu[p]
          /\ lu[<<gc.bix, e>>].kind = "data"
      BY <1>3 DEF WipeOrphan, DeletePages, FirstOf, DataLeft
    <2>2. o \in Objs /\ refs[o] = NoRefs
      BY <1>a, <2>1, EntryKinds DEF TypeOK, NoIndexNoRefs
    <2>3. \A x : NextExists(x) <=> Exists(x)
      BY <2>1, DeletedFiles
    <2>4. \A x : NextIndexPages(x) = IndexPages(x)
      BY <2>1, DeletedFiles
    <2>5. RefsNext
      <3> SUFFICES ASSUME NEW d \in Objs \ damaged, NEW s \in Spans
                   PROVE  NextSound(refs[d], d, s)
        BY <2>1 DEF RefsNext
      <3>1. Sound(refs[d], d, s)
        BY <2>1, AllSound
      <3>2. CASE refs[d][s] = <<gc.bix, e>>
        <4>1. CASE refs[d][s] = NoPage
          BY <4>1 DEF NextSound
        <4>2. CASE refs[d][s] # NoPage
          <5>1. lu[<<gc.bix, e>>] = DataEntry(d, s)
            BY <3>1, <3>2, <4>2 DEF Sound
          <5>2. o = d
            BY <5>1 DEF DataEntry
          <5> QED BY <2>2, <4>2, <5>2 DEF NoRefs
        <4> QED BY <4>1, <4>2
      <3>3. CASE refs[d][s] # <<gc.bix, e>>
        BY <2>1, <3>1, <3>3, DeletedFiles
      <3> QED BY <3>2, <3>3
    <2>6. GcWorkNext /\ OpWorkNext
      BY <2>1 DEF GcWorkNext, OpWorkNext, WorkingNext
    <2>7. ModifyNext
      BY <2>1, ReadyOp DEF ModifyNext, WorkingNext, Ready
    <2>8. OpNext
      BY <2>1, <2>3, <2>4, ReadyOp DEF OpNext, Ready
    <2>9. IndexNext
      BY <2>1, <2>3, <2>4 DEF IndexNext, NoIndexNoRefs, DamagedExist, OnlyIndex
    <2> QED BY <2>5, <2>6, <2>7, <2>8, <2>9 DEF FilesNext
  <1>4. CASE NoDataLeft
    <2>1. Undisturbed /\ pc = "find" /\ pc' = "moveIx" /\ op' = op
      BY <1>4, SameFlash DEF NoDataLeft
    <2> QED BY <2>1, ReadyOp, WaitFiles
  <1>5. ASSUME NEW e \in Entries, NEW dst \in Pages, MoveObjData(e, dst) PROVE FilesNext
    <2> DEFINE src == <<gc.bix, e>>
               n == lu[src].span
    <2>1. /\ pc = "moveData" /\ pc' = "moveData" /\ op' = op
          /\ refs' = refs /\ damaged' = damaged
          /\ MovePage(src, dst)
          /\ lu[src].kind = "data" /\ lu[src].obj = gc.obj
          /\ gc'.obj = gc.obj /\ gc'.work = [gc.work EXCEPT ![n] = dst]
      BY <1>5, <1>a DEF MoveObjData, Cleanings, FirstOf, SameObjectLeft, DataLeft
    <2>2. src \in Pages /\ src \in UsedPages
      BY <1>a, <1>b, <2>1
    <2>3. /\ dst \in FreePages /\ src # dst
          /\ \A q \in Pages : lu'[q] = IF q = src THEN DeletedEntry
                                       ELSE IF q = dst THEN lu[src] ELSE lu[q]
      BY <1>a, <2>1, <2>2, MovedBehind
    <2>4. n \in Spans /\ gc.obj \in Objs /\ lu[src] = DataEntry(gc.obj, n)
      BY <2>1, <2>2, EntryKinds DEF TypeOK
    <2>5. /\ gc.work \in Works /\ gc'.work[n] = dst
          /\ \A s \in Spans : s # n => gc'.work[s] = gc.work[s]
      BY <1>a, <2>1, <2>4 DEF Cleanings, Works
    <2>6. lu[dst] = FreeEntry /\ FreeEntry.kind = "free" /\ DeletedEntry.kind = "dele"
      BY <2>3 DEF FreePages, FreeEntry, DeletedEntry
    <2> HIDE DEF src, n
    <2>7. ASSUME NEW w, NEW d, NEW s, Sound(w, d, s), d # gc.obj \/ s # n
          PROVE  NextSound(w, d, s)
      <3>1. CASE w[s] = NoPage
        BY <3>1 DEF NextSound
      <3>2. CASE w[s] # NoPage
        <4>1. w[s] \in Pages /\ lu[w[s]] = DataEntry(d, s)
          BY <2>7, <3>2 DEF Sound
        <4>2. DataEntry(d, s) # DataEntry(gc.obj, n) /\ DataEntry(d, s).kind = "data"
          BY <2>7 DEF DataEntry
        <4>3. w[s] # src /\ w[s] # dst
          BY <2>4, <2>6, <4>1, <4>2
        <4> QED BY <2>3, <4>1, <4>3 DEF NextSound
      <3> QED BY <3>1, <3>2
    <2>8. \A x : NextExists(x) <=> Exists(x)
      <3> SUFFICES ASSUME NEW x PROVE NextExists(x) <=> Exists(x)
        OBVIOUS
      <3>1. IndexEntry(x).kind = "index"
        BY DEF IndexEntry
      <3>2. \A p \in Pages : lu'[p] = IndexEntry(x) <=> lu[p] = IndexEntry(x)
        BY <2>1, <2>3, <2>6, <3>1
      <3> QED BY <3>2 DEF NextExists, Exists
    <2>9. \A x : NextIndexPages(x) = IndexPages(x)
      BY <2>1, <2>3, <2>6 DEF NextIndexPages, IndexPages
    <2>10. RefsNext
      BY <2>1, <2>7 DEF RefsNext, RefsSound, Working
    <2>11. GcWorkNext
      <3>1. NextSound(gc'.work, gc.obj, n)
        BY <2>3, <2>4, <2>5 DEF NextSound
      <3>2. ASSUME NEW s \in Spans, s # n, gc.obj \notin damaged PROVE NextSound(gc'.work, gc.obj, s)
        <4>1. NextSound(gc.work, gc.obj, s)
          BY <2>1, <2>7, <3>2 DEF GcWorkSound
        <4> QED BY <2>5, <3>2, <4>1 DEF NextSound
      <3>3. dst # NoPage
        BY ConstantsAssumption DEF ConstantsAssumption, Pages, Blocks, NoPage
      <3>4. \A s \in Spans : refs[gc.obj][s] # NoPage => gc'.work[s] # NoPage
        BY <2>1, <2>5, <3>3 DEF GcWorkSound, SpansOf
      <3> QED BY <2>1, <2>8, <3>1, <3>2, <3>4 DEF GcWorkNext, GcWorkSound
    <2>12. OpWorkNext
      BY <2>1 DEF OpWorkNext, WorkingNext
    <2>13. ModifyNext
      BY <2>1, ReadyOp DEF ModifyNext, WorkingNext, Ready
    <2>14. OpNext
      BY <2>1, <2>8, <2>9, ReadyOp DEF OpNext, Ready
    <2>15. IndexNext
      BY <2>1, <2>8, <2>9 DEF IndexNext, NoIndexNoRefs, DamagedExist, OnlyIndex
    <2> QED BY <2>10, <2>11, <2>12, <2>13, <2>14, <2>15 DEF FilesNext
  <1>6. ASSUME NEW e \in Entries, NEW dst \in Pages, MoveObjIx(e, dst) PROVE FilesNext
    <2> DEFINE src == <<gc.bix, e>>
               o == lu[src].obj
    <2>1. /\ pc = "moveIx" /\ pc' = "moveIx" /\ op' = op
          /\ refs' = refs /\ damaged' = damaged
          /\ MovePage(src, dst) /\ lu[src].kind = "index"
      BY <1>6 DEF MoveObjIx, FirstOf, IndexLeft
    <2>2. o \in Objs /\ src \in IndexPages(o)
      BY <1>a, <2>1, EntryKinds DEF TypeOK, IndexPages
    <2> HIDE DEF src, o
    <2>3. /\ \A w, x, s : Sound(w, x, s) => NextSound(w, x, s)
          /\ \A x : NextExists(x) <=> Exists(x)
          /\ \A x : NextIndexPages(x) = {} <=> IndexPages(x) = {}
          /\ \A x \in Objs : \A p, q \in NextIndexPages(x) : p = q
      BY <2>1, <2>2, MovedIndex
    <2>4. RefsNext
      BY <2>1, <2>3, AllSound DEF RefsNext
    <2>5. GcWorkNext /\ OpWorkNext
      BY <2>1 DEF GcWorkNext, OpWorkNext, WorkingNext
    <2>6. ModifyNext
      BY <2>1, ReadyOp DEF ModifyNext, WorkingNext, Ready
    <2>7. OpNext
      BY <2>1, <2>3, ReadyOp DEF OpNext, Ready
    <2>8. IndexNext
      BY <2>1, <2>3 DEF IndexNext, NoIndexNoRefs, DamagedExist
    <2> QED BY <2>4, <2>5, <2>6, <2>7, <2>8 DEF FilesNext
  <1>7. ASSUME NEW src \in Pages, NEW dst \in Pages, StoreObjIndex(src, dst) PROVE FilesNext
    <2>1. /\ pc = "moveData" /\ pc' = "find" /\ op' = op /\ damaged' = damaged
          /\ refs' = [refs EXCEPT ![gc.obj] = gc.work]
          /\ MovePage(src, dst) /\ src \in IndexPages(gc.obj)
      BY <1>7 DEF StoreObjIndex
    <2>2. gc.obj \in Objs
      BY <2>1 DEF TypeOK
    <2>3. /\ \A w, x, s : Sound(w, x, s) => NextSound(w, x, s)
          /\ \A x : NextExists(x) <=> Exists(x)
          /\ \A x : NextIndexPages(x) = {} <=> IndexPages(x) = {}
          /\ \A x \in Objs : \A p, q \in NextIndexPages(x) : p = q
      BY <2>1, <2>2, MovedIndex
    <2>4. refs'[gc.obj] = gc.work /\ \A x \in Objs : x # gc.obj => refs'[x] = refs[x]
      BY <2>1, <2>2 DEF TypeOK
    <2>5. RefsNext
      <3> SUFFICES ASSUME NEW d \in Objs \ damaged, NEW s \in Spans
                   PROVE  Sound(refs'[d], d, s)
        BY <2>1, <2>3 DEF RefsNext
      <3>1. CASE d = gc.obj
        BY <2>1, <2>4, <3>1 DEF GcWorkSound
      <3>2. CASE d # gc.obj
        BY <2>1, <2>4, <3>2 DEF RefsSound, Working
      <3> QED BY <3>1, <3>2
    <2>6. GcWorkNext /\ OpWorkNext
      BY <2>1 DEF GcWorkNext, OpWorkNext, WorkingNext
    <2>7. Ready(op)
      BY <2>1, ReadyOp
    <2>8. ModifyNext
      <3> SUFFICES ASSUME op.kind = "modify", NEW s \in op.at .. op.last
                   PROVE  s \in Spans /\ refs'[op.obj][s] # NoPage
        BY <2>1, <2>7 DEF ModifyNext, WorkingNext, Ready
      <3>1. s \in Spans /\ refs[op.obj][s] # NoPage /\ op.obj \in Objs
        BY <2>7 DEF Ready
      <3>2. op.obj = gc.obj => gc.work[s] # NoPage
        BY <2>1, <3>1 DEF GcWorkSound, SpansOf
      <3> QED BY <2>4, <3>1, <3>2
    <2>9. OpNext
      BY <2>1, <2>3, <2>7 DEF OpNext, Ready
    <2>10. IndexNext
      <3>1. Exists(gc.obj)
        BY <2>1 DEF GcWorkSound
      <3> QED BY <2>1, <2>3, <2>4, <3>1 DEF IndexNext, NoIndexNoRefs, DamagedExist
    <2> QED BY <2>5, <2>6, <2>8, <2>9, <2>10 DEF FilesNext
  <1>8. CASE CleanFails
    <2>1. /\ pc \in {"moveData", "moveIx"} /\ pc' = "idle" /\ op'.kind = "none"
          /\ lu' = lu /\ refs' = refs
          /\ damaged' = IF pc = "moveData" /\ gc.work # refs[gc.obj]
                        THEN damaged \cup {gc.obj} ELSE damaged
      BY <1>8 DEF CleanFails, Idle
    <2>2. FlashKept
      BY <2>1 DEF FlashKept
    <2>3. RefsNext
      <3> SUFFICES ASSUME NEW d \in Objs \ damaged', NEW s \in Spans
                   PROVE  Sound(refs[d], d, s)
        BY <2>1, <2>2, KeptFiles DEF RefsNext
      <3>1. d \notin damaged
        BY <2>1
      <3>2. CASE pc = "moveData" /\ d = gc.obj
        <4>1. gc.work = refs[d]
          BY <2>1, <3>2
        <4> QED BY <3>1, <3>2, <4>1 DEF GcWorkSound
      <3>3. CASE ~(pc = "moveData" /\ d = gc.obj)
        BY <2>1, <3>1, <3>3 DEF RefsSound, Working
      <3> QED BY <3>2, <3>3
    <2>4. GcWorkNext /\ OpWorkNext /\ ModifyNext /\ OpNext
      BY <2>1 DEF GcWorkNext, OpWorkNext, WorkingNext, ModifyNext, OpNext
    <2>5. IndexNext
      BY <2>1, <2>2, KeptFiles DEF IndexNext, NoIndexNoRefs, DamagedExist, OnlyIndex, GcWorkSound
    <2> QED BY <2>3, <2>4, <2>5 DEF FilesNext
  <1>9. CASE EraseCleaned
    <2>1. Undisturbed
      <3>1. FlashKept
        BY <1>9, EraseCleanedEffect, EraseKept
      <3> QED BY <1>9, <3>1, KeptFiles DEF EraseCleaned, Undisturbed
    <2>2. pc = "moveIx" /\ Ready(op)
      BY <1>9, ReadyOp DEF EraseCleaned
    <2>3. CASE pc' = "pick" /\ op' = op
      BY <2>1, <2>2, <2>3, WaitFiles
    <2>4. CASE Finish
      <3>1. pc' = "idle" /\ op'.kind = "none"
        BY <2>4 DEF Finish, Idle
      <3> QED BY <2>1, <2>2, <3>1, IdleFiles
    <2>5. CASE Proceed(op)
      BY <2>1, <2>2, <2>5, ProceedFiles
    <2> QED BY <1>9, <2>3, <2>4, <2>5 DEF EraseCleaned
  <1> QED BY <1>1, <1>2, <1>3, <1>4, <1>5, <1>6, <1>7, <1>8, <1>9 DEF CleanNext

\* While a call works, the index it has in memory stands for the one in flash;
\* all others are sound.
LEMMA OthersSound ==
  ASSUME IInv, pc \in {"work", "store"}
  PROVE  \A o \in Objs \ damaged, s \in Spans :
           o # op.obj \/ op.kind = "create" => Sound(refs[o], o, s)
  BY DEF IInv, RefsSound

\* Where op and the files are as before, so is what the invariant says of them.
LEMMA SameWork ==
  ASSUME IInv, Undisturbed, pc \in {"work", "store"}, WorkingNext,
         pc' = "work" => pc = "work",
         op'.kind = op.kind, op'.obj = op.obj, op'.work = op.work, op'.at = op.at,
         op'.last = op.last, pc' = "store" => op.kind # "create"
  PROVE  FilesNext
  <1> USE DEF IInv
  <1>1. RefsNext
    BY DEF RefsNext, RefsSound, Undisturbed
  <1>2. GcWorkNext
    BY DEF GcWorkNext, WorkingNext
  <1>3. OpWorkNext
    BY DEF OpWorkNext, OpWorkSound, Undisturbed, Working, WorkingNext
  <1>4. ModifyNext
    BY DEF ModifyNext, ModifyInside
  <1>5. OpNext
    <2>1. op.kind = "remove" => pc' = "store"
      BY DEF OpExists, WorkingNext
    <2> QED BY <2>1 DEF OpNext, OpExists, Undisturbed
  <1> QED BY <1>1, <1>2, <1>3, <1>4, <1>5, UndisturbedIndex DEF FilesNext

\* The work of the calls.
LEMMA WorkFiles ==
  ASSUME IInv, WorkNext
  PROVE  FilesNext
  <1> USE DEF IInv
  <1>a. op \in Calls
    BY DEF TypeOK
  <1>b. ASSUME pc' = "idle", op'.kind = "none"
        PROVE  GcWorkNext /\ OpWorkNext /\ ModifyNext /\ OpNext
    BY <1>b DEF GcWorkNext, OpWorkNext, WorkingNext, ModifyNext, OpNext
  <1>c. ASSUME Finish PROVE pc' = "idle" /\ op'.kind = "none"
    BY <1>c DEF Finish, Idle
  <1>1. ASSUME NEW b \in Blocks, QuickInFindFree(b) PROVE FilesNext
    <2>1. FlashKept
      BY <1>1, QuickEraseEffect, EraseKept DEF QuickInFindFree
    <2>2. Undisturbed
      BY <1>1, <2>1, KeptFiles DEF QuickInFindFree, Undisturbed
    <2>3. /\ pc \in {"work", "store"} /\ pc' = pc
          /\ op'.kind = op.kind /\ op'.obj = op.obj /\ op'.work = op.work
          /\ op'.at = op.at /\ op'.last = op.last
      BY <1>1, <1>a DEF QuickInFindFree, Calls
    <2> QED BY <2>2, <2>3, SameWork DEF WorkingNext, OpExists
  <1>2. ASSUME NEW p \in Pages, CreateIndex(p) PROVE FilesNext
    <2> DEFINE o == op.obj
    <2>1. /\ pc = "work" /\ op.kind = "create" /\ o \in Objs
          /\ AllocatePage(p, IndexEntry(o)) /\ Finish
          /\ refs' = [refs EXCEPT ![o] = NoRefs] /\ damaged' = damaged
      BY <1>2 DEF CreateIndex, TypeOK
    <2>2. lu[p] = FreeEntry /\ \A q \in Pages : lu'[q] = IF q = p THEN IndexEntry(o) ELSE lu[q]
      BY <2>1 DEF TypeOK, AllocatePage, NextFree, FreePages
    <2>3. IndexPages(o) = {}
      BY <2>1 DEF OpExists
    <2>4. FreeEntry.kind = "free" /\ \A x : IndexEntry(x).kind = "index" /\ IndexEntry(x).obj = x
      BY DEF FreeEntry, IndexEntry
    <2>5. refs'[o] = NoRefs /\ \A x \in Objs : x # o => refs'[x] = refs[x]
      BY <2>1 DEF TypeOK
    <2> HIDE DEF o
    <2>6. \A w, x, s : Sound(w, x, s) => NextSound(w, x, s)
      <3> SUFFICES ASSUME NEW w, NEW x, NEW s, Sound(w, x, s) PROVE NextSound(w, x, s)
        OBVIOUS
      <3>1. DataEntry(x, s).kind = "data"
        BY DEF DataEntry
      <3> QED BY <2>2, <2>4, <3>1 DEF Sound, NextSound
    <2>7. RefsNext
      <3> SUFFICES ASSUME NEW d \in Objs \ damaged, NEW s \in Spans PROVE NextSound(refs'[d], d, s)
        BY <2>1 DEF RefsNext
      <3>1. CASE d = o
        BY <2>5, <3>1 DEF NextSound, NoRefs
      <3>2. CASE d # o
        <4>1. Sound(refs[d], d, s) /\ refs'[d] = refs[d]
          BY <2>1, <2>5, <3>2, OthersSound
        <4> QED BY <2>6, <4>1
      <3> QED BY <3>1, <3>2
    <2>8. IndexNext
      <3>1. ASSUME NEW x, x # o PROVE NextExists(x) <=> Exists(x)
        BY <2>2, <2>4, <3>1 DEF NextExists, Exists
      <3>2. ASSUME NEW x, x # o PROVE NextIndexPages(x) = IndexPages(x)
        BY <2>2, <2>4, <3>2 DEF NextIndexPages, IndexPages
      <3>3. NextExists(o)
        BY <2>2 DEF NextExists
      <3>4. NextIndexPages(o) \subseteq {p}
        BY <2>2, <2>3 DEF NextIndexPages, IndexPages
      <3>5. \A x \in Objs : ~NextExists(x) => refs'[x] = NoRefs
        BY <2>5, <3>1 DEF NoIndexNoRefs
      <3>6. \A x \in damaged' : NextExists(x)
        BY <2>1, <3>1, <3>3 DEF DamagedExist
      <3>7. \A x \in Objs : \A q, r \in NextIndexPages(x) : q = r
        BY <3>2, <3>4 DEF OnlyIndex
      <3> QED BY <3>5, <3>6, <3>7 DEF IndexNext
    <2> QED BY <2>1, <2>7, <2>8, <1>b, <1>c DEF FilesNext
  <1>3. ASSUME NEW p \in Pages, AppendPage(p) PROVE FilesNext
    <2> DEFINE o == op.obj
               n == op.at
    <2>1. /\ pc = "work" /\ pc' = "work" /\ op.kind = "append"
          /\ AllocatePage(p, DataEntry(o, n))
          /\ refs' = refs /\ damaged' = damaged
      BY <1>3 DEF AppendPage
    <2>2. o \in Objs /\ n \in Spans
      BY <1>3, ConstantsAssumption DEF ConstantsAssumption, AppendPage, TypeOK, Calls, Spans
    <2>3. /\ op'.kind = "append" /\ op'.obj = o
          /\ op'.work = [op.work EXCEPT ![n] = p]
      BY <1>3, <1>a DEF AppendPage, Calls
    <2>4. op'.work[n] = p /\ \A s \in Spans : s # n => op'.work[s] = op.work[s]
      BY <1>a, <2>2, <2>3 DEF Calls, Works
    <2>5. p \in Pages /\ lu[p] = FreeEntry
          /\ \A q \in Pages : lu'[q] = IF q = p THEN DataEntry(o, n) ELSE lu[q]
      BY <2>1 DEF TypeOK, AllocatePage, NextFree, FreePages
    <2>6. FreeEntry.kind = "free" /\ DataEntry(o, n).kind = "data"
      BY DEF FreeEntry, DataEntry
    <2>7. Undisturbed
      <3>1. FlashKept
        BY <2>5, <2>6 DEF FlashKept
      <3> QED BY <2>1, <3>1, KeptFiles DEF Undisturbed
    <2> HIDE DEF o, n
    <2>8. RefsNext
      BY <2>1, <2>3, <2>7 DEF RefsNext, RefsSound, Undisturbed, WorkingNext, Working, o
    <2>9. OpWorkNext
      <3> SUFFICES ASSUME NEW s \in Spans PROVE NextSound(op'.work, o, s)
        BY <2>3 DEF OpWorkNext
      <3>1. CASE s = n
        BY <2>4, <2>5, <3>1 DEF NextSound
      <3>2. CASE s # n
        <4>1. Sound(op.work, o, s)
          BY <2>1 DEF OpWorkSound, Working, OpExists, o
        <4>2. NextSound(op.work, o, s)
          BY <2>7, <4>1 DEF Undisturbed
        <4> QED BY <2>4, <3>2, <4>2 DEF NextSound
      <3> QED BY <3>1, <3>2
    <2>10. GcWorkNext /\ ModifyNext
      BY <2>1, <2>3 DEF GcWorkNext, ModifyNext
    <2>11. OpNext
      <3>1. NextExists(o) /\ o \notin damaged'
        BY <2>1, <2>7 DEF Undisturbed, OpExists, o
      <3> QED BY <2>1, <2>3, <3>1 DEF OpNext
    <2> QED BY <2>7, <2>8, <2>9, <2>10, <2>11, UndisturbedIndex DEF FilesNext
  <1>4. ASSUME NEW p \in Pages, ModifyPage(p) PROVE FilesNext
    <2> DEFINE o == op.obj
               n == op.at
               old == op.work[op.at]
    <2>1. /\ pc = "work" /\ pc' = "work" /\ op.kind = "modify" /\ op.at <= op.last
          /\ NextFree(p) /\ lu' = [lu EXCEPT ![p] = DataEntry(o, n), ![old] = DeletedEntry]
          /\ refs' = refs /\ damaged' = damaged
      BY <1>4 DEF ModifyPage
    <2>2. o \in Objs /\ n \in Spans /\ old \in UsedPages /\ lu[old] = DataEntry(o, n)
      BY <2>1, OldPage
    <2>3. /\ op'.kind = "modify" /\ op'.obj = o /\ op'.at = n + 1 /\ op'.last = op.last
          /\ op'.work = [op.work EXCEPT ![n] = p]
      BY <1>4, <1>a DEF ModifyPage, Calls
    <2>4. op'.work[n] = p /\ \A s \in Spans : s # n => op'.work[s] = op.work[s]
      BY <1>a, <2>2, <2>3 DEF Calls, Works
    <2>5. Owned(DataEntry(o, n)) /\ DataEntry(o, n).kind = "data" /\ p \in FreePages
      BY <2>1, <2>2, EntryTypes DEF Owned, DataEntry, NextFree
    <2> HIDE DEF o, n, old
    <2>6. /\ old # p
          /\ \A q \in Pages : lu'[q] = IF q = old THEN DeletedEntry
                                       ELSE IF q = p THEN DataEntry(o, n) ELSE lu[q]
      BY <2>1, <2>2, <2>5, MoveSets
    <2>7. lu[p] = FreeEntry /\ FreeEntry.kind = "free" /\ DeletedEntry.kind = "dele"
      BY <2>5 DEF FreePages, FreeEntry, DeletedEntry
    <2>8. ASSUME NEW w, NEW d, NEW s, Sound(w, d, s), d # o \/ s # n
          PROVE  NextSound(w, d, s)
      <3>1. CASE w[s] = NoPage
        BY <3>1 DEF NextSound
      <3>2. CASE w[s] # NoPage
        <4>1. w[s] \in Pages /\ lu[w[s]] = DataEntry(d, s)
          BY <2>8, <3>2 DEF Sound
        <4>2. DataEntry(d, s) # DataEntry(o, n) /\ DataEntry(d, s).kind = "data"
          BY <2>8 DEF DataEntry
        <4>3. w[s] # old /\ w[s] # p
          BY <2>2, <2>7, <4>1, <4>2
        <4> QED BY <2>6, <4>1, <4>3 DEF NextSound
      <3> QED BY <3>1, <3>2
    <2>9. ASSUME NEW x PROVE NextExists(x) <=> Exists(x)
      <3>1. IndexEntry(x).kind = "index"
        BY DEF IndexEntry
      <3>2. \A q \in Pages : lu'[q] = IndexEntry(x) <=> lu[q] = IndexEntry(x)
        BY <2>2, <2>5, <2>6, <2>7, <3>1
      <3> QED BY <3>2 DEF NextExists, Exists
    <2>10. \A x : NextIndexPages(x) = IndexPages(x)
      BY <2>2, <2>5, <2>6, <2>7 DEF NextIndexPages, IndexPages
    <2>11. RefsNext
      BY <2>1, <2>3, <2>8, OthersSound DEF RefsNext, WorkingNext, o
    <2>12. OpWorkNext
      <3> SUFFICES ASSUME NEW s \in Spans
                   PROVE  NextSound(op'.work, o, s) \/ (o \in damaged /\ ~(s >= n + 1))
        BY <2>1, <2>3 DEF OpWorkNext
      <3>1. CASE s = n
        BY <2>4, <2>5, <2>6, <3>1 DEF NextSound
      <3>2. CASE s # n
        <4>1. Sound(op.work, o, s) \/ (o \in damaged /\ ~(s >= n))
          BY <2>1 DEF OpWorkSound, Working, o, n
        <4>2. s \in Int /\ n \in Int
          BY <2>2, ConstantsAssumption DEF ConstantsAssumption, Spans
        <4>3. CASE Sound(op.work, o, s)
          <5>1. NextSound(op.work, o, s)
            BY <2>8, <3>2, <4>3
          <5> QED BY <2>4, <3>2, <5>1 DEF NextSound
        <4> QED BY <4>1, <4>2, <4>3
      <3> QED BY <3>1, <3>2
    <2>13. GcWorkNext
      BY <2>1 DEF GcWorkNext
    <2>14. ModifyNext
      <3> SUFFICES ASSUME NEW s \in n + 1 .. op.last
                   PROVE  s \in Spans /\ op'.work[s] # NoPage
        BY <2>1, <2>3 DEF ModifyNext, WorkingNext
      <3>1. s # n /\ s \in op.at .. op.last
        BY <1>a, <2>2, ConstantsAssumption DEF ConstantsAssumption, Spans, Calls, n
      <3>2. s \in Spans /\ op.work[s] # NoPage
        BY <2>1, <3>1 DEF ModifyInside
      <3> QED BY <2>4, <3>1, <3>2
    <2>15. OpNext
      BY <2>1, <2>3, <2>9 DEF OpNext, OpExists, o
    <2>16. IndexNext
      BY <2>1, <2>9, <2>10 DEF IndexNext, NoIndexNoRefs, DamagedExist, OnlyIndex
    <2> QED BY <2>11, <2>12, <2>13, <2>14, <2>15, <2>16 DEF FilesNext
  <1>5. ASSUME NEW junk, ModifyLosesPage(junk) PROVE FilesNext
    <2> DEFINE o == op.obj
               n == op.at
               old == op.work[op.at]
    <2>1. /\ pc = "work" /\ pc' = "work" /\ op.kind = "modify" /\ op.at <= op.last
          /\ DeletePages({old})
          /\ refs' = refs /\ damaged' = damaged \cup {o}
      BY <1>5 DEF ModifyLosesPage
    <2>2. o \in Objs /\ n \in Spans /\ lu[old] = DataEntry(o, n)
      BY <2>1, OldPage
    <2>3. /\ op'.kind = "modify" /\ op'.obj = o /\ op'.at = n + 1 /\ op'.last = op.last
          /\ op'.work = [op.work EXCEPT ![n] = junk]
      BY <1>5, <1>a DEF ModifyLosesPage, Calls
    <2>4. \A s \in Spans : s # n => op'.work[s] = op.work[s]
      BY <1>a, <2>2, <2>3 DEF Calls, Works
    <2> HIDE DEF o, n, old
    <2>5. \A q \in Pages : lu'[q] = IF q \in {old} THEN DeletedEntry ELSE lu[q]
      BY <2>1 DEF DeletePages
    <2>6. lu[old].kind = "data"
      BY <2>2 DEF DataEntry
    <2>7. ASSUME NEW w, NEW d, NEW s, Sound(w, d, s), d # o \/ s # n
          PROVE  NextSound(w, d, s)
      <3>1. CASE w[s] = NoPage
        BY <3>1 DEF NextSound
      <3>2. CASE w[s] # NoPage
        <4>1. lu[w[s]] = DataEntry(d, s)
          BY <2>7, <3>2 DEF Sound
        <4>2. DataEntry(d, s) # DataEntry(o, n)
          BY <2>7 DEF DataEntry
        <4>3. w[s] \notin {old}
          BY <2>2, <4>1, <4>2
        <4> QED BY <2>5, <2>6, <2>7, <4>3, DeletedFiles
      <3> QED BY <3>1, <3>2
    <2>8. \A x : NextExists(x) <=> Exists(x)
      BY <2>5, <2>6, DeletedFiles
    <2>9. \A x : NextIndexPages(x) = IndexPages(x)
      BY <2>5, <2>6, DeletedFiles
    <2>10. RefsNext
      BY <2>1, <2>3, <2>7, OthersSound DEF RefsNext, WorkingNext, o
    <2>11. OpWorkNext
      <3> SUFFICES ASSUME NEW s \in Spans, s >= n + 1
                   PROVE  NextSound(op'.work, o, s)
        BY <2>1, <2>3 DEF OpWorkNext
      <3>1. s # n /\ s >= n
        BY <2>2, ConstantsAssumption DEF ConstantsAssumption, Spans
      <3>2. Sound(op.work, o, s)
        BY <2>1, <3>1 DEF OpWorkSound, Working, o, n
      <3>3. NextSound(op.work, o, s)
        BY <2>7, <3>1, <3>2
      <3> QED BY <2>4, <3>1, <3>3 DEF NextSound
    <2>12. GcWorkNext
      BY <2>1 DEF GcWorkNext
    <2>13. ModifyNext
      <3> SUFFICES ASSUME NEW s \in n + 1 .. op.last
                   PROVE  s \in Spans /\ op'.work[s] # NoPage
        BY <2>1, <2>3 DEF ModifyNext, WorkingNext
      <3>1. s # n /\ s \in op.at .. op.last
        BY <1>a, <2>2, ConstantsAssumption DEF ConstantsAssumption, Spans, Calls, n
      <3>2. s \in Spans /\ op.work[s] # NoPage
        BY <2>1, <3>1 DEF ModifyInside
      <3> QED BY <2>4, <3>1, <3>2
    <2>14. Exists(o)
      BY <2>1 DEF OpExists, o
    <2>15. OpNext
      BY <2>1, <2>3, <2>8, <2>14 DEF OpNext
    <2>16. IndexNext
      BY <2>1, <2>8, <2>9, <2>14 DEF IndexNext, NoIndexNoRefs, DamagedExist, OnlyIndex
    <2> QED BY <2>10, <2>11, <2>12, <2>13, <2>15, <2>16 DEF FilesNext
  <1>6. CASE CreateFails
    <2>1. Undisturbed /\ pc = "work" /\ op.kind = "create" /\ Finish
      BY <1>6, SameFlash DEF CreateFails
    <2>2. RefsNext
      BY <2>1, OthersSound DEF RefsNext, Undisturbed
    <2> QED BY <1>b, <1>c, <2>1, <2>2, UndisturbedIndex DEF FilesNext
  <1>7. CASE LeaveLoop \/ LoopDone
    <2>1. Undisturbed
      BY <1>7, SameFlash DEF LeaveLoop, LoopDone
    <2>2. /\ pc = "work" /\ pc' = "store" /\ op.kind \in {"append", "modify"}
          /\ op'.kind = op.kind /\ op'.obj = op.obj /\ op'.work = op.work
          /\ op'.at = op.at /\ op'.last = op.last
      BY <1>7, <1>a DEF LeaveLoop, LoopDone, Calls
    <2> QED BY <2>1, <2>2, SameWork DEF WorkingNext
  <1>8. CASE TruncateData
    <2> DEFINE o == op.obj
               gone == TruncatedPages(op.work)
    <2>1. /\ pc = "work" /\ pc' = "store" /\ op.kind = "truncate"
          /\ DeletePages(gone) /\ refs' = refs /\ damaged' = damaged
          /\ op'.kind = "truncate" /\ op'.obj = o /\ op'.work = NoRefs
      BY <1>8, <1>a DEF TruncateData, Calls
    <2>2. o \notin damaged /\ Exists(o)
      BY <2>1 DEF OpExists
    <2>3. ASSUME NEW p \in gone PROVE lu[p].kind = "data" /\ lu[p].obj = o
      <3>1. PICK s \in Spans : op.work[s] = p /\ lu[p].kind = "data" /\ p \in Pages
        BY DEF TruncatedPages, Passes
      <3>2. Sound(op.work, o, s) /\ p # NoPage
        BY <2>1, <2>2, <3>1, ConstantsAssumption
        DEF ConstantsAssumption, OpWorkSound, Working, Pages, Blocks, NoPage
      <3>3. lu[p] = DataEntry(o, s)
        BY <3>1, <3>2 DEF Sound
      <3> QED BY <3>3 DEF DataEntry
    <2>4. \A q \in Pages : lu'[q] = IF q \in gone THEN DeletedEntry ELSE lu[q]
      BY <2>1 DEF DeletePages
    <2> HIDE DEF o, gone
    <2>5. \A x : NextExists(x) <=> Exists(x)
      BY <2>3, <2>4, DeletedFiles
    <2>6. \A x : NextIndexPages(x) = IndexPages(x)
      BY <2>3, <2>4, DeletedFiles
    <2>7. RefsNext
      <3> SUFFICES ASSUME NEW d \in Objs \ damaged, d # o, NEW s \in Spans
                   PROVE  NextSound(refs[d], d, s)
        BY <2>1 DEF RefsNext, WorkingNext
      <3>1. Sound(refs[d], d, s)
        BY <2>1, OthersSound DEF o
      <3>2. CASE refs[d][s] = NoPage
        BY <3>2 DEF NextSound
      <3>3. CASE refs[d][s] # NoPage
        <4>1. lu[refs[d][s]].obj = d
          BY <3>1, <3>3 DEF Sound, DataEntry
        <4>2. refs[d][s] \notin gone
          BY <2>3, <4>1
        <4> QED BY <2>3, <2>4, <3>1, <4>2, DeletedFiles
      <3> QED BY <3>2, <3>3
    <2>8. GcWorkNext /\ OpWorkNext /\ ModifyNext
      BY <2>1 DEF GcWorkNext, OpWorkNext, ModifyNext, NextSound, NoRefs
    <2>9. OpNext
      BY <2>1, <2>2, <2>5 DEF OpNext
    <2>10. IndexNext
      BY <2>1, <2>5, <2>6 DEF IndexNext, NoIndexNoRefs, DamagedExist, OnlyIndex
    <2> QED BY <2>7, <2>8, <2>9, <2>10 DEF FilesNext
  <1>d. ASSUME pc = "store", NEW s \in Spans, op.obj \notin damaged
        PROVE  Sound(op.work, op.obj, s)
    BY <1>d DEF OpWorkSound, Working, OpExists
  <1>9. CASE StoreFresh
    <2>1. /\ pc = "store" /\ op.kind = "append" /\ op.obj \in Objs
          /\ refs' = [refs EXCEPT ![op.obj] = op.work]
          /\ lu' = lu /\ damaged' = damaged /\ Finish
      BY <1>9 DEF StoreFresh, TypeOK
    <2>2. refs'[op.obj] = op.work /\ \A x \in Objs : x # op.obj => refs'[x] = refs[x]
      BY <2>1 DEF TypeOK
    <2>3. FlashKept
      BY <2>1 DEF FlashKept
    <2>4. RefsNext
      <3> SUFFICES ASSUME NEW d \in Objs \ damaged, NEW s \in Spans PROVE Sound(refs'[d], d, s)
        BY <2>1, <2>3, KeptFiles DEF RefsNext
      <3> QED BY <1>d, <2>1, <2>2, OthersSound
    <2>5. IndexNext
      <3>1. Exists(op.obj)
        BY <2>1 DEF OpExists
      <3> QED BY <2>1, <2>2, <2>3, <3>1, KeptFiles DEF IndexNext, NoIndexNoRefs, DamagedExist, OnlyIndex
    <2> QED BY <1>b, <1>c, <2>1, <2>4, <2>5 DEF FilesNext
  <1>10. CASE StoreFails
    <2>1. /\ pc = "store" /\ refs' = refs /\ lu' = lu /\ Finish
          /\ damaged' = IF op.work = refs[op.obj] THEN damaged ELSE damaged \cup {op.obj}
      BY <1>10 DEF StoreFails
    <2>2. FlashKept
      BY <2>1 DEF FlashKept
    <2>3. op.obj \in Objs /\ (op.work # refs[op.obj] => Exists(op.obj))
      <3>1. op.obj \in Objs
        BY <2>1 DEF TypeOK
      <3>2. op.kind \in {"append", "modify", "truncate", "rename", "remove"}
        BY <1>a, <2>1 DEF TypeOK, Calls, OpExists
      <3>3. op.kind = "remove" => op.work = NoRefs /\ refs[op.obj] = NoRefs
        BY <3>1 DEF OpExists, NoIndexNoRefs
      <3> QED BY <3>1, <3>2, <3>3 DEF OpExists
    <2>4. RefsNext
      <3> SUFFICES ASSUME NEW d \in Objs \ damaged', NEW s \in Spans PROVE Sound(refs[d], d, s)
        BY <2>1, <2>2, KeptFiles DEF RefsNext
      <3>1. CASE d = op.obj
        BY <1>d, <2>1, <3>1
      <3>2. CASE d # op.obj
        BY <2>1, <3>2, OthersSound
      <3> QED BY <3>1, <3>2
    <2>5. IndexNext
      <3>1. \A x \in damaged' : Exists(x)
        BY <2>1, <2>3 DEF DamagedExist
      <3> QED BY <2>1, <2>2, <3>1, KeptFiles DEF IndexNext, NoIndexNoRefs, OnlyIndex
    <2> QED BY <1>b, <1>c, <2>1, <2>4, <2>5 DEF FilesNext
  <1>11. ASSUME NEW src \in Pages, NEW dst \in Pages, StoreIndex(src, dst) PROVE FilesNext
    <2>1. /\ pc = "store" /\ src \in IndexPages(op.obj) /\ op.obj \in Objs
          /\ MovePage(src, dst) /\ Finish
          /\ refs' = [refs EXCEPT ![op.obj] = op.work] /\ damaged' = damaged
      BY <1>11 DEF StoreIndex, TypeOK
    <2>2. refs'[op.obj] = op.work /\ \A x \in Objs : x # op.obj => refs'[x] = refs[x]
      BY <2>1 DEF TypeOK
    <2>3. /\ \A w, x, s : Sound(w, x, s) => NextSound(w, x, s)
          /\ \A x : NextExists(x) <=> Exists(x)
          /\ \A x \in Objs : \A p, q \in NextIndexPages(x) : p = q
      BY <2>1, MovedIndex
    <2>4. RefsNext
      <3> SUFFICES ASSUME NEW d \in Objs \ damaged, NEW s \in Spans PROVE Sound(refs'[d], d, s)
        BY <2>1, <2>3 DEF RefsNext
      <3>1. CASE d = op.obj
        BY <1>d, <2>1, <2>2, <3>1
      <3>2. CASE d # op.obj
        BY <2>1, <2>2, <3>2, OthersSound
      <3> QED BY <3>1, <3>2
    <2>5. IndexNext
      <3>1. Exists(op.obj) \/ op.work = NoRefs
        BY <1>a, <2>1 DEF OpExists, TypeOK, Calls
      <3>2. \A x \in Objs : ~NextExists(x) => refs'[x] = NoRefs
        BY <2>2, <2>3, <3>1 DEF NoIndexNoRefs
      <3> QED BY <2>1, <2>3, <3>2 DEF IndexNext, DamagedExist
    <2> QED BY <1>b, <1>c, <2>1, <2>4, <2>5 DEF FilesNext
  <1> QED BY <1>1, <1>2, <1>3, <1>4, <1>5, <1>6, <1>7, <1>8, <1>9, <1>10, <1>11 DEF WorkNext

-----------------------------------------------------------------------------
(* The theorems *)

LEMMA InvInit == Init => IInv
  <1> SUFFICES ASSUME Init PROVE IInv
    OBVIOUS
  <1>1. TypeOK
    BY TypeInit
  <1>2. \A p \in Pages : lu[p] = FreeEntry
    BY DEF Init
  <1>3. FreeEntry.kind = "free" /\ FreeEntry # DeletedEntry /\ \A o : IndexEntry(o).kind = "index"
    BY DEF FreeEntry, DeletedEntry, IndexEntry
  <1>4. UsedPages = {} /\ DeletedPages = {} /\ FreePages = Pages
    BY <1>2, <1>3 DEF UsedPages, DeletedPages, FreePages
  <1>5. StatsExact
    BY <1>4, FS_EmptySet DEF Init, StatsExact
  <1>6. FreeSuffix /\ CursorParts
    BY <1>4 DEF Init, FreeSuffix, CursorParts, Pages
  <1>7. CursorInCleaned /\ Passed /\ GcWorkSound /\ OpWorkSound /\ ModifyInside /\ OpExists
    BY DEF Init, CursorInCleaned, Passed, GcWorkSound, OpWorkSound, ModifyInside, OpExists,
           Cleaning, Working, Idle
  <1>8. RefsSound /\ NoIndexNoRefs /\ DamagedExist
    BY DEF Init, RefsSound, Sound, NoRefs, NoIndexNoRefs, DamagedExist
  <1>9. OnlyIndex
    BY <1>2, <1>3 DEF OnlyIndex, IndexPages
  <1> QED BY <1>1, <1>5, <1>6, <1>7, <1>8, <1>9 DEF IInv

LEMMA InvStep ==
  ASSUME QuickMax = 0
  PROVE  IInv /\ [Next]_vars => IInv'
  <1>1. ASSUME IInv, Next PROVE IInv'
    <2>1. TypeOK'
      BY <1>1, TypeCalls, TypeCleaning, TypeWork DEF IInv, Next
    <2>2. Effect
      BY <1>1, NextEffect
    <2>3. StatsExact' /\ FreeSuffix' /\ CursorParts'
      BY <1>1, <2>2, StatsStep, LayoutStep DEF IInv
    <2>4. CursorInCleaned' /\ Passed'
      BY <1>1, ScanSteps, ScanRest DEF Next
    <2>5. FilesSound'
      BY <1>1, CallFiles, CleanFiles, WorkFiles, NextParts DEF Next
    <2> QED BY <2>1, <2>3, <2>4, <2>5 DEF IInv, FilesSound
  <1>2. ASSUME IInv, UNCHANGED vars PROVE IInv'
    BY <1>2
    DEF vars, counters, IInv, TypeOK, StatsExact, FreeSuffix, CursorParts, CursorInCleaned, Passed,
        RefsSound, GcWorkSound, OpWorkSound, ModifyInside, OpExists, NoIndexNoRefs, DamagedExist,
        OnlyIndex, UsedPages, DeletedPages, FreePages, LastMoved, Cleaning, Working, Sound, Exists,
        SpansOf, IndexPages
  <1> QED BY <1>1, <1>2

\* The invariant of SpiffsLookup, for callers that let SPIFFS_gc_quick erase
\* no free pages.
THEOREM Invariant ==
  ASSUME QuickMax = 0
  PROVE  Spec => []IInv
  <1>1. IInv /\ [Next]_vars => IInv'
    BY InvStep
  <1> QED BY InvInit, <1>1, PTL DEF Spec

\* The counters spiffs_gc_check relies on are right, and used and deleted
\* entries come before free ones, in every reachable state.
THEOREM CountersAndLayout ==
  ASSUME QuickMax = 0
  PROVE  Spec => [](StatsExact /\ FreeSuffix)
  <1>1. IInv => StatsExact /\ FreeSuffix
    BY DEF IInv
  <1> QED BY Invariant, <1>1, PTL

\* No file ever has two index pages.
THEOREM SingleIndex ==
  ASSUME QuickMax = 0
  PROVE  Spec => []OneIndex
  <1>1. ASSUME IInv PROVE OneIndex
    <2> SUFFICES ASSUME NEW o \in Objs PROVE Cardinality(IndexPages(o)) <= 1
      BY DEF OneIndex
    <2>1. \A p, q \in IndexPages(o) : p = q
      BY <1>1 DEF IInv, OnlyIndex
    <2>2. CASE IndexPages(o) = {}
      <3>1. Cardinality(IndexPages(o)) = 0
        BY <2>2, FS_EmptySet
      <3> QED BY <3>1
    <2>3. CASE IndexPages(o) # {}
      <3>1. PICK p : IndexPages(o) = {p}
        BY <2>1, <2>3
      <3>2. \A x : Cardinality({x}) = 1
        BY FS_Singleton
      <3> QED BY <3>1, <3>2
    <2> QED BY <2>2, <2>3
  <1> QED BY Invariant, <1>1, PTL

\* No step makes a page in use free: what the collector erases has moved, even
\* where it moved within the block.
LEMMA UsedStaysOwned ==
  ASSUME TypeOK, Effect, NEW p \in UsedPages
  PROVE  lu'[p] # FreeEntry
  <1>1. p \in Pages /\ p \notin FreePages
    BY DEF UsedPages, FreePages
  <1> SUFFICES p \notin FreePages'
    BY <1>1 DEF FreePages
  <1>2. CASE KeepsPages
    BY <1>1, <1>2 DEF KeepsPages, FreePages
  <1>3. ASSUME NEW q \in Pages, NEW entry \in LuEntries, Owned(entry), AllocatePage(q, entry)
        PROVE  p \notin FreePages'
    BY <1>1, <1>3, AllocateSets
  <1>4. ASSUME NEW gone \in SUBSET UsedPages, DeletePages(gone) PROVE p \notin FreePages'
    <2>1. lu'[p] = DeletedEntry \/ lu'[p] = lu[p]
      BY <1>1, <1>4 DEF DeletePages
    <2> QED BY <1>1, <2>1 DEF FreePages, DeletedEntry, FreeEntry
  <1>5. ASSUME NEW src \in UsedPages, NEW dst \in Pages, NEW entry, Owned(entry), NextFree(dst),
               lu' = [lu EXCEPT ![dst] = entry, ![src] = DeletedEntry]
        PROVE  p \notin FreePages'
    BY <1>1, <1>5, MoveSets DEF NextFree
  <1>6. ASSUME NEW src \in UsedPages, NEW dst \in Pages, MovePage(src, dst) PROVE p \notin FreePages'
    BY <1>5, <1>6, UsedKinds DEF MovePage, UsedPages
  <1>7. ASSUME NEW old \in UsedPages, NEW q \in Pages, NEW entry \in LuEntries, Owned(entry),
               ReplacePage(old, q, entry)
        PROVE  p \notin FreePages'
    BY <1>5, <1>7 DEF ReplacePage
  <1>8. ASSUME NEW gone \in SUBSET UsedPages, NEW o \in Objs, Condemn(gone, o)
        PROVE  p \notin FreePages'
    BY <1>1, <1>8, CondemnSets
  <1>9. ASSUME NEW b \in Blocks, EraseEmpty(b) PROVE p \notin FreePages'
    BY <1>1, <1>9, EraseSets DEF EraseEmpty
  <1> QED BY <1>2, <1>3, <1>4, <1>6, <1>7, <1>8, <1>9 DEF Effect

THEOREM NothingLiveErased ==
  ASSUME QuickMax = 0
  PROVE  Spec => NoLiveErase
  <1>1. IInv /\ [Next]_vars
          => [\A p \in Pages : p[1] = gc.bix /\ p \in UsedPages => lu'[p] # FreeEntry]_vars
    BY NextEffect, UsedStaysOwned DEF IInv
  <1> QED BY Invariant, <1>1, PTL DEF Spec, NoLiveErase

-----------------------------------------------------------------------------
(* FilesInv of the state after a step, spelled out *)

NextIndex(o) ==
    IF pc' = "moveData" /\ gc'.obj = o THEN gc'.work
    ELSE IF WorkingNext /\ op'.obj = o /\ op'.kind # "create" THEN op'.work
    ELSE refs'[o]
LeaksNext ==
    \A p \in Pages : lu'[p].kind = "data" =>
        \/ lu'[p].obj \in damaged' \/ ~NextExists(lu'[p].obj)
        \/ NextIndex(lu'[p].obj)[lu'[p].span] = p
FreshNext ==
    op'.kind = "create" => \A p \in Pages : lu'[p].kind = "data" => lu'[p].obj # op'.obj
NextSize(o) == Cardinality(Named(refs'[o]))
GaplessNext == \A o \in Objs \ damaged' : Named(refs'[o]) = 0 .. (NextSize(o) - 1)
GcSpansNext ==
    pc' = "moveData" /\ gc'.obj \notin damaged' => Named(gc'.work) = Named(refs'[gc'.obj])
WorkSpansNext ==
    op'.obj \notin damaged' =>
        /\ op'.kind = "append" /\ ~WorkingNext => op'.at = NextSize(op'.obj)
        /\ op'.kind = "append" /\ WorkingNext =>
              op'.at >= NextSize(op'.obj) /\ Named(op'.work) = 0 .. (op'.at - 1)
        /\ op'.kind \in {"modify", "rename"} /\ WorkingNext =>
              Named(op'.work) = Named(refs'[op'.obj])
        /\ op'.kind = "truncate" /\ pc' = "store" => op'.work = NoRefs
SpansNext == FreshNext /\ GaplessNext /\ GcSpansNext /\ WorkSpansNext /\ (IdleOp)'
WholeNext == LeaksNext /\ SpansNext

\* FilesInv but for the part of IInv, which InvStep is about.
Whole == NoLeaks /\ FreshId /\ Gapless /\ GcSpans /\ WorkSpans /\ IdleOp

LEMMA NextWhole == WholeNext => Whole'
  <1> SUFFICES ASSUME WholeNext PROVE Whole'
    OBVIOUS
  <1> USE DEF WholeNext, SpansNext, WorkingNext, NextExists, Named
  <1>1. NoLeaks'
    BY DEF LeaksNext, NextIndex, NoLeaks, Index, Exists, Working
  <1>2. FreshId'
    BY DEF FreshNext, FreshId
  <1>3. Gapless' /\ GcSpans'
    BY DEF GaplessNext, GcSpansNext, NextSize, Gapless, GcSpans, SizeOf, SpansOf
  <1>4. WorkSpans'
    BY DEF WorkSpansNext, NextSize, WorkSpans, SizeOf, SpansOf, Working
  <1> QED BY <1>1, <1>2, <1>3, <1>4 DEF Whole

LEMMA SameSpans ==
  ASSUME NEW o
  PROVE  SpansOf(o) = Named(refs[o]) /\ SizeOf(o) = Cardinality(Named(refs[o]))
  BY DEF SpansOf, SizeOf, Named

-----------------------------------------------------------------------------
(* Steps that leave all data pages and indexes as they are *)

\* No page becomes a data page.
NoNewData == \A p \in Pages : lu'[p].kind = "data" => lu'[p] = lu[p]

LEMMA LeaksKept ==
  ASSUME FilesInv, NoNewData,
         \A o \in Objs \ damaged' : NextExists(o) =>
             Exists(o) /\ o \notin damaged /\ NextIndex(o) = Index(o)
  PROVE  LeaksNext
  <1> SUFFICES ASSUME NEW p \in Pages, lu'[p].kind = "data", lu'[p].obj \notin damaged',
                      NextExists(lu'[p].obj)
               PROVE  NextIndex(lu'[p].obj)[lu'[p].span] = p
    BY DEF LeaksNext
  <1>1. lu'[p] = lu[p] /\ lu[p].kind = "data" /\ lu[p].obj \in Objs
    BY EntryKinds DEF NoNewData, FilesInv, IInv, TypeOK
  <1> QED BY <1>1 DEF FilesInv, NoLeaks

\* What a call that waits, or is about to, needs besides Ready.
Fit(o) ==
    /\ o.kind = "append" => o.at = SizeOf(o.obj)
    /\ o.kind = "create" => \A p \in Pages : lu[p].kind = "data" => lu[p].obj # o.obj

LEMMA FitOp ==
  ASSUME FilesInv, pc \in {"pick", "find", "moveData", "moveIx"}
  PROVE  Ready(op) /\ Fit(op)
  <1>1. Ready(op)
    BY ReadyOp DEF FilesInv
  <1>2. op.kind = "append" => op.obj \notin damaged
    BY <1>1 DEF Ready
  <1> QED BY <1>1, <1>2 DEF FilesInv, FreshId, WorkSpans, Working, Fit

\* A call begins, goes on or returns with flash as it is.
LEMMA QuietFiles ==
  ASSUME FilesInv, NoNewData, refs' = refs, damaged' = damaged,
         \A x : NextExists(x) <=> Exists(x),
         pc \notin {"moveData", "work", "store"},
         \/ pc' = "idle" /\ op'.kind = "none" /\ op'.obj = NoObj
         \/ \E o : /\ Ready(o) /\ Fit(o)
                   /\ \/ op' = o /\ pc' \in {"pick", "find", "moveIx"}
                      \/ Proceed(o)
  PROVE  WholeNext
  <1> USE DEF FilesInv
  <1>1. pc' # "moveData" /\ pc' # "store"
    BY DEF Proceed
  <1>2. \A x \in Objs : Index(x) = refs[x]
    BY DEF Index, Working
  <1>3. \A x : Named(refs'[x]) = SpansOf(x) /\ NextSize(x) = SizeOf(x)
    BY SameSpans DEF NextSize
  <1>4. GaplessNext /\ GcSpansNext
    BY <1>1, <1>3 DEF Gapless, GaplessNext, GcSpansNext
  <1>5. CASE pc' = "idle" /\ op'.kind = "none" /\ op'.obj = NoObj
    <2>1. \A x \in Objs : NextIndex(x) = refs[x]
      BY <1>5 DEF NextIndex, WorkingNext
    <2>2. LeaksNext
      BY <1>2, <2>1, LeaksKept
    <2>3. SpansNext
      BY <1>4, <1>5 DEF SpansNext, FreshNext, WorkSpansNext, IdleOp
    <2> QED BY <2>2, <2>3 DEF WholeNext
  <1>6. ASSUME NEW o, Ready(o), Fit(o), op' = o, pc' \in {"pick", "find", "moveIx"}
        PROVE  WholeNext
    <2>1. \A x \in Objs : NextIndex(x) = refs[x]
      BY <1>6 DEF NextIndex, WorkingNext
    <2>2. LeaksNext
      BY <1>2, <2>1, LeaksKept
    <2>3. FreshNext
      BY <1>6 DEF FreshNext, Fit, NoNewData
    <2>4. WorkSpansNext
      BY <1>3, <1>6 DEF WorkSpansNext, WorkingNext, Fit
    <2> QED BY <1>4, <1>6, <2>2, <2>3, <2>4 DEF WholeNext, SpansNext, IdleOp
  <1>7. ASSUME NEW o, Ready(o), Fit(o), Proceed(o) PROVE WholeNext
    <2>1. CASE o.kind = "gc"
      <3>1. pc' = "idle" /\ op'.kind = "none" /\ op'.obj = NoObj
        BY <1>7, <2>1 DEF Proceed, Idle
      <3> QED BY <3>1, <1>5
    <2>2. CASE o.kind # "gc"
      <3>1. /\ pc' = "work" /\ op'.kind = o.kind /\ op'.obj = o.obj
            /\ op'.at = o.at
            /\ o.kind # "create" => op'.work = refs[o.obj]
            /\ o.obj \in Objs /\ o.at \in Nat
        BY <1>7, <2>2 DEF Proceed, Ready, Calls
      <3>2. \A x \in Objs : NextIndex(x) = refs[x]
        BY <3>1 DEF NextIndex, WorkingNext
      <3>3. LeaksNext
        BY <1>2, <3>2, LeaksKept
      <3>4. FreshNext
        BY <1>7, <3>1 DEF FreshNext, Fit, NoNewData
      <3>5. WorkSpansNext
        <4>1. CASE o.kind = "append"
          <5>1. o.at = SizeOf(o.obj) /\ o.obj \notin damaged
            BY <1>7, <4>1 DEF Fit, Ready
          <5>2. SpansOf(o.obj) = 0 .. (SizeOf(o.obj) - 1)
            BY <3>1, <5>1 DEF Gapless
          <5>3. Named(op'.work) = 0 .. (op'.at - 1) /\ op'.at = NextSize(op'.obj)
            BY <1>3, <3>1, <4>1, <5>1, <5>2
          <5> QED BY <3>1, <4>1, <5>3 DEF WorkSpansNext, WorkingNext
        <4>2. CASE o.kind # "append"
          BY <1>3, <3>1, <4>2 DEF WorkSpansNext, WorkingNext
        <4> QED BY <4>1, <4>2
      <3> QED BY <1>4, <3>1, <3>3, <3>4, <3>5 DEF WholeNext, SpansNext, IdleOp
    <2> QED BY <2>1, <2>2
  <1> QED BY <1>5, <1>6, <1>7

LEMMA SameLu ==
  ASSUME lu' = lu
  PROVE  /\ NoNewData
         /\ \A x : NextExists(x) <=> Exists(x)
  BY DEF NoNewData, NextExists, Exists

LEMMA EraseNoData ==
  ASSUME TypeOK, NEW b \in Blocks, EraseEmpty(b)
  PROVE  /\ NoNewData
         /\ \A x : NextExists(x) <=> Exists(x)
  <1>1. FlashKept
    BY EraseKept
  <1>2. \A p \in Pages : lu'[p] = IF p[1] = b THEN FreeEntry ELSE lu[p]
    BY DEF EraseEmpty
  <1>3. FreeEntry.kind = "free"
    BY DEF FreeEntry
  <1> QED BY <1>1, <1>2, <1>3, KeptFiles DEF NoNewData

LEMMA StartWhole ==
  ASSUME FilesInv, NEW o, Ready(o), Fit(o), StartCall(o)
  PROVE  WholeNext
  <1>1. /\ pc = "idle" /\ lu' = lu /\ refs' = refs /\ damaged' = damaged
        /\ Proceed(o) \/ (pc' = "pick" /\ op' = o)
    BY DEF StartCall
  <1> QED BY <1>1, SameLu, QuietFiles

-----------------------------------------------------------------------------
(* The calls that begin *)

\* Removal leaves no index behind, and damages the files it hits.
LEMMA RemovedWhole ==
  ASSUME FilesInv, pc = "idle", NEW o \in Objs,
         refs' = [refs EXCEPT ![o] = NoRefs], damaged' = DamagedByRemoving(o),
         NoNewData, ~NextExists(o), \A x : x # o => (NextExists(x) <=> Exists(x)),
         \/ pc' = "idle" /\ op'.kind = "none" /\ op'.obj = NoObj
         \/ pc' = "store" /\ op'.kind = "remove" /\ op'.obj = o
  PROVE  WholeNext
  <1> USE DEF FilesInv, IInv
  <1>1. refs'[o] = NoRefs /\ \A x \in Objs : x # o => refs'[x] = refs[x]
    BY DEF TypeOK
  <1>2. \A x \in Objs \ damaged' : x # o => x \notin damaged
    BY DEF DamagedByRemoving, DamagedExist
  <1>3. \A x \in Objs : x # o => NextIndex(x) = Index(x)
    BY <1>1 DEF NextIndex, WorkingNext, Index, Working
  <1>4. LeaksNext
    BY <1>2, <1>3, LeaksKept
  <1>5. GaplessNext
    <2> SUFFICES ASSUME NEW x \in Objs \ damaged'
                 PROVE  Named(refs'[x]) = 0 .. (NextSize(x) - 1)
      BY DEF GaplessNext
    <2>1. CASE x = o
      <3>1. Named(refs'[x]) = {}
        BY <1>1, <2>1 DEF Named, NoRefs
      <3>2. NextSize(x) = 0
        BY <3>1, FS_EmptySet DEF NextSize
      <3> QED BY <3>1, <3>2
    <2>2. CASE x # o
      <3>1. SpansOf(x) = 0 .. (SizeOf(x) - 1)
        BY <1>2, <2>2 DEF Gapless
      <3> QED BY <1>1, <2>2, <3>1, SameSpans DEF NextSize
    <2> QED BY <2>1, <2>2
  <1>6. FreshNext /\ GcSpansNext /\ WorkSpansNext /\ (IdleOp)'
    BY DEF FreshNext, GcSpansNext, WorkSpansNext, IdleOp
  <1> QED BY <1>4, <1>5, <1>6 DEF WholeNext, SpansNext

LEMMA CallWhole ==
  ASSUME QuickMax = 0, FilesInv, CallNext
  PROVE  WholeNext
  <1> USE DEF FilesInv
  <1>a. pc = "idle" => op.kind = "none" /\ op.obj = NoObj
    BY DEF IInv, TypeOK, IdleOp
  <1>1. ASSUME NEW o \in Objs, Create(o) PROVE WholeNext
    <2> DEFINE c == Call("create", o, 1, TRUE, 0, 0, {})
    <2>1. c \in Calls /\ c.kind = "create" /\ c.obj = o
      BY EntryTypes, ConstantsAssumption DEF ConstantsAssumption, Call, Calls, Idle
    <2>2. ~IdInUse(o) /\ StartCall(c)
      BY <1>1 DEF Create
    <2> HIDE DEF c
    <2>3. Ready(c) /\ Fit(c)
      BY <2>1, <2>2 DEF Ready, Fit, IdInUse, IndexPages
    <2> QED BY <2>2, <2>3, StartWhole
  <1>2. ASSUME NEW o \in Objs, NEW len \in 1 .. MaxLen, NEW whole \in BOOLEAN,
               Append(o, len, whole)
        PROVE  WholeNext
    <2>1. PICK fill \in {0, 1} :
            /\ fill = 1 => ~whole /\ SizeOf(o) > 0
            /\ SizeOf(o) + len - fill <= MaxData
            /\ StartCall(Call("append", o, len + 1, whole, SizeOf(o), SizeOf(o) + len - fill - 1, {}))
      BY <1>2 DEF Append
    <2> DEFINE c == Call("append", o, len + 1, whole, SizeOf(o), SizeOf(o) + len - fill - 1, {})
    <2>2. /\ len + 1 \in Nat /\ SizeOf(o) \in Nat
          /\ SizeOf(o) + len - fill - 1 \in 0 .. MaxData
      BY <2>1, SizeType, ConstantsAssumption DEF ConstantsAssumption
    <2>3. c \in Calls /\ c.kind = "append" /\ c.obj = o /\ c.at = SizeOf(o)
      BY <2>2, EntryTypes DEF Call, Calls, Idle
    <2>4. StartCall(c)
      BY <2>1
    <2> HIDE DEF c
    <2>5. Ready(c) /\ Fit(c)
      BY <1>2, <2>3 DEF Ready, Fit, Append
    <2> QED BY <2>4, <2>5, StartWhole
  <1>3. ASSUME NEW o \in Objs, NEW len \in 1 .. MaxLen, NEW whole \in BOOLEAN, NEW at \in Spans,
               Modify(o, len, whole, at)
        PROVE  WholeNext
    <2>1. PICK aligned \in BOOLEAN, extra \in {0, 1} :
            LET last == at + len - 1 + extra
                part == IF ~aligned THEN {at, last} ELSE IF whole THEN {} ELSE {last}
            IN  /\ at .. last \subseteq SpansOf(o)
                /\ StartCall(Call("modify", o, len + 1, whole, at, last, part))
      BY <1>3 DEF Modify
    <2> DEFINE last == at + len - 1 + extra
               part == IF ~aligned THEN {at, last} ELSE IF whole THEN {} ELSE {last}
               c == Call("modify", o, len + 1, whole, at, last, part)
    <2>2. at \in Nat /\ last \in Nat /\ at <= last /\ len + 1 \in Nat
      BY ConstantsAssumption DEF ConstantsAssumption, Spans
    <2>3. at .. last \subseteq SpansOf(o)
      BY <2>1
    <2>4. last \in 0 .. MaxData
      BY <2>2, <2>3, ConstantsAssumption DEF ConstantsAssumption, Spans, SpansOf
    <2>5. part \in SUBSET Nat
      BY <2>2
    <2>6. StartCall(c)
      BY <2>1
    <2> HIDE DEF last, part
    <2>7. c \in Calls /\ c.kind = "modify" /\ c.obj = o /\ c.at = at /\ c.last = last
      BY <2>2, <2>4, <2>5, EntryTypes DEF Call, Calls, Idle
    <2> HIDE DEF c
    <2>8. Exists(o) /\ o \notin damaged
      BY <1>3 DEF Modify
    <2>9. Ready(c) /\ Fit(c)
      BY <2>3, <2>7, <2>8 DEF Ready, Fit, SpansOf
    <2> QED BY <2>6, <2>9, StartWhole
  <1>4. ASSUME NEW o \in Objs, Truncate(o) PROVE WholeNext
    <2> DEFINE c == Call("truncate", o, 2, TRUE, 0, 0, {})
    <2>1. c \in Calls /\ c.kind = "truncate" /\ c.obj = o
      BY EntryTypes, ConstantsAssumption DEF ConstantsAssumption, Call, Calls, Idle
    <2>2. StartCall(c) /\ Exists(o) /\ o \notin damaged
      BY <1>4 DEF Truncate
    <2> HIDE DEF c
    <2>3. Ready(c) /\ Fit(c)
      BY <2>1, <2>2 DEF Ready, Fit
    <2> QED BY <2>2, <2>3, StartWhole
  <1>5. ASSUME NEW o \in Objs, Rename(o) PROVE WholeNext
    <2>1. /\ pc = "idle" /\ pc' = "store" /\ lu' = lu /\ refs' = refs /\ damaged' = damaged
          /\ op' = [Call("rename", o, 0, TRUE, 0, 0, {}) EXCEPT !.work = refs[o]]
      BY <1>5 DEF Rename
    <2>2. op'.kind = "rename" /\ op'.obj = o /\ op'.work = refs[o]
      BY <2>1 DEF Call, Idle
    <2>3. \A x \in Objs : NextIndex(x) = refs[x] /\ Index(x) = refs[x]
      BY <2>1, <2>2 DEF NextIndex, WorkingNext, Index, Working
    <2>4. LeaksNext
      BY <2>1, <2>3, SameLu, LeaksKept
    <2>5. GaplessNext
      BY <2>1, SameSpans DEF Gapless, GaplessNext, NextSize
    <2>6. FreshNext /\ GcSpansNext /\ WorkSpansNext /\ (IdleOp)'
      BY <2>1, <2>2 DEF FreshNext, GcSpansNext, WorkSpansNext, IdleOp
    <2> QED BY <2>4, <2>5, <2>6 DEF WholeNext, SpansNext
  <1>6. ASSUME NEW len \in 1 .. MaxGcLen, Gc(len) PROVE WholeNext
    <2> DEFINE c == [Idle EXCEPT !.kind = "gc", !.need = len]
    <2>1. len \in Nat
      BY ConstantsAssumption DEF ConstantsAssumption
    <2>2. c \in Calls /\ c.kind = "gc"
      BY <2>1, EntryTypes DEF Calls, Idle
    <2>3. StartCall(c)
      BY <1>6 DEF Gc
    <2> HIDE DEF c
    <2>4. Ready(c) /\ Fit(c)
      BY <2>2 DEF Ready, Fit
    <2> QED BY <2>3, <2>4, StartWhole
  <1>7. ASSUME NEW max \in 0 .. QuickMax, NEW b \in Blocks, GcQuick(max, b) PROVE WholeNext
    <2>1. max = 0
      OBVIOUS
    <2>2. EraseEmpty(b)
      BY <1>7, <2>1, QuickEraseEffect DEF GcQuick, IInv
    <2>3. NoNewData /\ \A x : NextExists(x) <=> Exists(x)
      BY <2>2, EraseNoData DEF IInv
    <2> QED BY <1>7, <1>a, <2>3, QuietFiles DEF GcQuick
  <1>8. CASE Remount
    BY <1>8, <1>a, SameLu, QuietFiles DEF Remount
  <1>9. ASSUME NEW o \in Objs, Remove(o) PROVE WholeNext
    <2>1. /\ \A p \in Pages : lu'[p] = IF p \in TruncatedPages(refs[o]) \cup IndexPages(o)
                                       THEN DeletedEntry ELSE lu[p]
          /\ refs' = [refs EXCEPT ![o] = NoRefs] /\ damaged' = DamagedByRemoving(o)
          /\ pc = "idle" /\ pc' = "idle" /\ op' = op
      BY <1>9 DEF Remove, DeletePages
    <2>2. /\ DeletedEntry.kind = "dele" /\ \A x : IndexEntry(x).kind = "index" /\ IndexEntry(x).obj = x
          /\ \A p \in TruncatedPages(refs[o]) : lu[p].kind = "data"
      BY DEF DeletedEntry, IndexEntry, TruncatedPages, Passes
    <2>3. NoNewData
      BY <2>1, <2>2 DEF NoNewData
    <2>4. ~NextExists(o)
      BY <2>1, <2>2 DEF NextExists, IndexPages
    <2>5. ASSUME NEW x, x # o PROVE NextExists(x) <=> Exists(x)
      BY <2>1, <2>2, <2>5 DEF NextExists, Exists, IndexPages
    <2> QED BY <1>a, <2>1, <2>3, <2>4, <2>5, RemovedWhole
  <1>10. ASSUME NEW o \in Objs, RemoveStops(o) PROVE WholeNext
    <2>1. /\ \A p \in Pages : lu'[p] = IF p \in TruncatedPages(refs[o]) THEN DeletedEntry
                                       ELSE IF p \in IndexPages(o) THEN CondemnedEntry(o) ELSE lu[p]
          /\ refs' = [refs EXCEPT ![o] = NoRefs] /\ damaged' = DamagedByRemoving(o)
          /\ pc = "idle" /\ pc' = "store"
          /\ op' = Call("remove", o, 0, TRUE, 0, 0, {})
      BY <1>10 DEF RemoveStops
    <2>2. op'.kind = "remove" /\ op'.obj = o
      BY <2>1 DEF Call, Idle
    <2>3. /\ DeletedEntry.kind = "dele"
          /\ \A x : IndexEntry(x).kind = "index" /\ IndexEntry(x).obj = x /\ IndexEntry(x).span = 0
          /\ CondemnedEntry(o).kind = "index" /\ CondemnedEntry(o).obj = o /\ CondemnedEntry(o).span = 1
          /\ \A p \in TruncatedPages(refs[o]) : lu[p].kind = "data"
      BY DEF DeletedEntry, IndexEntry, CondemnedEntry, TruncatedPages, Passes
    <2>4. NoNewData
      BY <2>1, <2>3 DEF NoNewData
    <2>5. ~NextExists(o)
      BY <2>1, <2>3 DEF NextExists, IndexPages
    <2>6. ASSUME NEW x, x # o PROVE NextExists(x) <=> Exists(x)
      BY <2>1, <2>3, <2>6 DEF NextExists, Exists, IndexPages
    <2> QED BY <2>1, <2>2, <2>4, <2>5, <2>6, RemovedWhole
  <1> QED BY <1>1, <1>2, <1>3, <1>4, <1>5, <1>6, <1>7, <1>8, <1>9, <1>10 DEF CallNext

-----------------------------------------------------------------------------
(* The collector *)

\* An index page moves: the data pages stay.
LEMMA MoveNoData ==
  ASSUME TypeOK, OnlyIndex, NEW o \in Objs, NEW src \in IndexPages(o), NEW dst \in Pages,
         MovePage(src, dst)
  PROVE  /\ NoNewData
         /\ \A x : NextExists(x) <=> Exists(x)
  <1>1. src \in UsedPages /\ lu[src].kind = "index"
    BY IndexUsed DEF IndexPages
  <1>2. dst \in FreePages /\ Owned(lu[src])
    BY <1>1, UsedKinds DEF MovePage, NextFree, UsedPages
  <1>3. \A q \in Pages : lu'[q] = IF q = src THEN DeletedEntry ELSE IF q = dst THEN lu[src] ELSE lu[q]
    BY <1>1, <1>2, MoveSets DEF MovePage
  <1>4. DeletedEntry.kind = "dele"
    BY DEF DeletedEntry
  <1> QED BY <1>1, <1>3, <1>4, MovedIndex DEF NoNewData

\* While the collector works for a call, nothing but its own file is in memory.
LEMMA WaitSpans ==
  ASSUME FilesInv, pc \in {"find", "moveData", "moveIx"}, op' = op, ~WorkingNext,
         pc' # "idle", damaged' = damaged,
         \A p \in Pages : lu'[p].kind = "data" => \E q \in Pages : lu[q].kind = "data" /\ lu[q].obj = lu'[p].obj,
         \A x \in Objs \ damaged : Named(refs'[x]) = Named(refs[x])
  PROVE  FreshNext /\ GaplessNext /\ WorkSpansNext /\ (IdleOp)'
  <1> USE DEF FilesInv
  <1>1. \A x \in Objs \ damaged : NextSize(x) = SizeOf(x) /\ Named(refs'[x]) = SpansOf(x)
    BY SameSpans DEF NextSize
  <1>2. FreshNext
    BY DEF FreshNext, FreshId
  <1>3. GaplessNext
    BY <1>1 DEF GaplessNext, Gapless
  <1>4. Ready(op) /\ Fit(op)
    BY FitOp
  <1>5. WorkSpansNext
    <2>1. op.kind = "append" /\ op.obj \notin damaged => op.at = NextSize(op.obj)
      BY <1>1, <1>4 DEF Ready, Fit
    <2> QED BY <1>4, <2>1 DEF WorkSpansNext, WorkingNext, Ready
  <1> QED BY <1>2, <1>3, <1>5 DEF IdleOp

LEMMA CleanWhole ==
  ASSUME FilesInv, CleanNext
  PROVE  WholeNext
  <1> USE DEF FilesInv, IInv
  <1>a. /\ gc.bix \in Blocks /\ gc \in Cleanings
        /\ \A e \in Entries : <<gc.bix, e>> \in Pages
    BY DEF TypeOK, Cleanings, Pages
  <1>b. ASSUME NEW e \in Entries, lu[<<gc.bix, e>>].kind \in {"data", "index"}
        PROVE  <<gc.bix, e>> \in UsedPages
    BY <1>a, <1>b, UsedKinds DEF Owned
  <1>1. ASSUME NEW b \in Blocks, PickCandidate(b) PROVE WholeNext
    <2>1. /\ pc = "pick" /\ pc' = "find" /\ op' = op
          /\ lu' = lu /\ refs' = refs /\ damaged' = damaged
      BY <1>1 DEF PickCandidate
    <2> QED BY <2>1, FitOp, SameLu, QuietFiles
  <1>2. ASSUME NEW e \in Entries, FindObjData(e) PROVE WholeNext
    <2> DEFINE o == lu[<<gc.bix, e>>].obj
    <2>1. /\ pc = "find" /\ pc' = "moveData" /\ op' = op
          /\ gc'.obj = o /\ gc'.work = refs[o]
          /\ lu' = lu /\ refs' = refs /\ damaged' = damaged
      BY <1>2, <1>a DEF FindObjData, Cleanings
    <2>2. \A x \in Objs : NextIndex(x) = Index(x)
      BY <2>1 DEF NextIndex, WorkingNext, Index, Working
    <2>3. LeaksNext
      BY <2>1, <2>2, SameLu, LeaksKept
    <2>4. FreshNext /\ GaplessNext /\ WorkSpansNext /\ (IdleOp)'
      BY <2>1, WaitSpans DEF WorkingNext
    <2>5. GcSpansNext
      BY <2>1 DEF GcSpansNext
    <2> QED BY <2>3, <2>4, <2>5 DEF WholeNext, SpansNext
  <1>3. ASSUME NEW e \in Entries, WipeOrphan(e) PROVE WholeNext
    <2>1. /\ pc = "find" /\ pc' = "find" /\ op' = op
          /\ refs' = refs /\ damaged' = damaged
          /\ \A p \in Pages : lu'[p] = IF p \in {<<gc.bix, e>>} THEN DeletedEntry ELSE lu[p]
          /\ lu[<<gc.bix, e>>].kind = "data"
      BY <1>3 DEF WipeOrphan, DeletePages, FirstOf, DataLeft
    <2>2. \A x : NextExists(x) <=> Exists(x)
      BY <2>1, DeletedFiles
    <2>3. NoNewData
      BY <2>1 DEF NoNewData, DeletedEntry
    <2> QED BY <2>1, <2>2, <2>3, FitOp, QuietFiles
  <1>4. CASE NoDataLeft
    <2>1. /\ pc = "find" /\ pc' = "moveIx" /\ op' = op
          /\ lu' = lu /\ refs' = refs /\ damaged' = damaged
      BY <1>4 DEF NoDataLeft
    <2> QED BY <2>1, FitOp, SameLu, QuietFiles
  <1>5. ASSUME NEW e \in Entries, NEW dst \in Pages, MoveObjData(e, dst) PROVE WholeNext
    <2> DEFINE src == <<gc.bix, e>>
               o == gc.obj
               n == lu[src].span
    <2>1. /\ pc = "moveData" /\ pc' = "moveData" /\ op' = op
          /\ refs' = refs /\ damaged' = damaged
          /\ MovePage(src, dst)
          /\ lu[src].kind = "data" /\ lu[src].obj = o
          /\ gc'.obj = o /\ gc'.work = [gc.work EXCEPT ![n] = dst]
      BY <1>5, <1>a DEF MoveObjData, Cleanings, FirstOf, SameObjectLeft, DataLeft
    <2>2. src \in Pages /\ src \in UsedPages
      BY <1>a, <1>b, <2>1
    <2>3. dst \in FreePages /\ Owned(lu[src])
      BY <2>1, <2>2, UsedKinds DEF MovePage, NextFree
    <2>4. /\ src # dst
          /\ \A q \in Pages : lu'[q] = IF q = src THEN DeletedEntry
                                       ELSE IF q = dst THEN lu[src] ELSE lu[q]
      BY <2>1, <2>2, <2>3, MoveSets DEF MovePage
    <2>5. n \in Spans /\ o \in Objs /\ lu[src] = DataEntry(o, n)
      BY <2>1, <2>2, EntryKinds DEF TypeOK
    <2>6. /\ gc.work \in Works /\ gc'.work[n] = dst
          /\ \A s \in Spans : s # n => gc'.work[s] = gc.work[s]
      BY <1>a, <2>1, <2>5 DEF Cleanings, Works
    <2>7. DeletedEntry.kind = "dele" /\ DataEntry(o, n).kind = "data"
          /\ DataEntry(o, n).obj = o /\ DataEntry(o, n).span = n
      BY DEF DeletedEntry, DataEntry
    <2>8. Exists(o)
      BY <2>1 DEF GcWorkSound
    <2> HIDE DEF src, o, n
    <2>9. o \notin damaged => gc.work[n] = src
      BY <2>1, <2>2, <2>5, <2>7, <2>8 DEF NoLeaks, Index, o
    <2>10. ASSUME NEW x PROVE NextExists(x) => Exists(x)
      <3>1. IndexEntry(x).kind = "index"
        BY DEF IndexEntry
      <3>2. \A p \in Pages : lu'[p] = IndexEntry(x) => lu[p] = IndexEntry(x)
        BY <2>4, <2>5, <2>7, <3>1
      <3> QED BY <3>2 DEF NextExists, Exists
    <2>11. LeaksNext
      <3> SUFFICES ASSUME NEW p \in Pages, lu'[p].kind = "data", lu'[p].obj \notin damaged,
                          Exists(lu'[p].obj)
                   PROVE  NextIndex(lu'[p].obj)[lu'[p].span] = p
        BY <2>1, <2>10 DEF LeaksNext
      <3>1. CASE p = dst
        BY <2>1, <2>4, <2>5, <2>6, <2>7, <3>1 DEF NextIndex, o
      <3>2. CASE p # dst
        <4>1. p # src /\ lu'[p] = lu[p]
          BY <2>4, <2>7, <3>2
        <4>2. Index(lu[p].obj)[lu[p].span] = p
          BY <4>1 DEF NoLeaks
        <4>3. CASE lu[p].obj # o
          BY <2>1, <4>1, <4>2, <4>3 DEF NextIndex, WorkingNext, Index, Working, o
        <4>4. CASE lu[p].obj = o
          <5>1. gc.work[lu[p].span] = p
            BY <2>1, <4>2, <4>4 DEF Index, o
          <5>2. lu[p].span # n
            BY <2>9, <4>1, <4>4, <5>1
          <5>3. lu[p].span \in Spans
            BY <4>1, EntryKinds DEF TypeOK
          <5>4. NextIndex(lu'[p].obj) = gc'.work
            BY <2>1, <4>1, <4>4 DEF NextIndex
          <5> QED BY <2>6, <4>1, <5>1, <5>2, <5>3, <5>4
        <4> QED BY <4>3, <4>4
      <3> QED BY <3>1, <3>2
    <2>12. FreshNext /\ GaplessNext /\ WorkSpansNext /\ (IdleOp)'
      <3>1. ASSUME NEW p \in Pages, lu'[p].kind = "data"
            PROVE  \E q \in Pages : lu[q].kind = "data" /\ lu[q].obj = lu'[p].obj
        BY <2>1, <2>2, <2>4, <2>7, <3>1
      <3> QED BY <2>1, <3>1, WaitSpans DEF WorkingNext
    <2>13. GcSpansNext
      <3> SUFFICES ASSUME o \notin damaged PROVE Named(gc'.work) = Named(refs[o])
        BY <2>1 DEF GcSpansNext
      <3>1. Named(gc.work) = Named(refs[o])
        BY <2>1, SameSpans DEF GcSpans, o
      <3>2. src # NoPage /\ dst # NoPage
        BY <2>2, ConstantsAssumption DEF ConstantsAssumption, Pages, Blocks, NoPage
      <3>3. Named(gc'.work) = Named(gc.work)
        BY <2>5, <2>6, <2>9, <3>2 DEF Named
      <3> QED BY <3>1, <3>3
    <2> QED BY <2>11, <2>12, <2>13 DEF WholeNext, SpansNext
  <1>6. ASSUME NEW e \in Entries, NEW dst \in Pages, MoveObjIx(e, dst) PROVE WholeNext
    <2> DEFINE src == <<gc.bix, e>>
               o == lu[src].obj
    <2>1. /\ pc = "moveIx" /\ pc' = "moveIx" /\ op' = op
          /\ refs' = refs /\ damaged' = damaged
          /\ MovePage(src, dst) /\ lu[src].kind = "index"
      BY <1>6 DEF MoveObjIx, FirstOf, IndexLeft
    <2>2. o \in Objs /\ src \in IndexPages(o)
      BY <1>a, <2>1, EntryKinds DEF TypeOK, IndexPages
    <2> HIDE DEF src, o
    <2>3. NoNewData /\ \A x : NextExists(x) <=> Exists(x)
      BY <2>1, <2>2, MoveNoData
    <2> QED BY <2>1, <2>3, FitOp, QuietFiles
  <1>7. ASSUME NEW src \in Pages, NEW dst \in Pages, StoreObjIndex(src, dst) PROVE WholeNext
    <2> DEFINE o == gc.obj
    <2>1. /\ pc = "moveData" /\ pc' = "find" /\ op' = op /\ damaged' = damaged
          /\ refs' = [refs EXCEPT ![o] = gc.work]
          /\ MovePage(src, dst) /\ src \in IndexPages(o) /\ o \in Objs
      BY <1>7 DEF StoreObjIndex, TypeOK
    <2>2. refs'[o] = gc.work /\ \A x \in Objs : x # o => refs'[x] = refs[x]
      BY <2>1 DEF TypeOK
    <2>3. NoNewData /\ \A x : NextExists(x) <=> Exists(x)
      BY <2>1, MoveNoData
    <2>4. \A x \in Objs : NextIndex(x) = Index(x)
      BY <2>1, <2>2 DEF NextIndex, WorkingNext, Index, Working
    <2>5. LeaksNext
      BY <2>1, <2>3, <2>4, LeaksKept
    <2>6. \A x \in Objs \ damaged : Named(refs'[x]) = Named(refs[x])
      BY <2>1, <2>2, SameSpans DEF GcSpans
    <2>7. FreshNext /\ GaplessNext /\ WorkSpansNext /\ (IdleOp)'
      BY <2>1, <2>3, <2>6, WaitSpans DEF WorkingNext, NoNewData
    <2>8. GcSpansNext
      BY <2>1 DEF GcSpansNext
    <2> QED BY <2>5, <2>7, <2>8 DEF WholeNext, SpansNext
  <1>8. CASE CleanFails
    <2>1. /\ pc \in {"moveData", "moveIx"} /\ pc' = "idle" /\ op'.kind = "none" /\ op'.obj = NoObj
          /\ lu' = lu /\ refs' = refs
          /\ damaged' = IF pc = "moveData" /\ gc.work # refs[gc.obj]
                        THEN damaged \cup {gc.obj} ELSE damaged
      BY <1>8 DEF CleanFails, Idle
    <2>2. \A x \in Objs \ damaged' : x \notin damaged /\ NextIndex(x) = Index(x)
      BY <2>1 DEF NextIndex, WorkingNext, Index, Working
    <2>3. LeaksNext
      BY <2>1, <2>2, SameLu, LeaksKept
    <2>4. GaplessNext
      BY <2>1, <2>2, SameSpans DEF GaplessNext, Gapless, NextSize
    <2>5. FreshNext /\ GcSpansNext /\ WorkSpansNext /\ (IdleOp)'
      BY <2>1 DEF FreshNext, GcSpansNext, WorkSpansNext, IdleOp
    <2> QED BY <2>3, <2>4, <2>5 DEF WholeNext, SpansNext
  <1>9. CASE EraseCleaned
    <2>1. NoNewData /\ \A x : NextExists(x) <=> Exists(x)
      BY <1>9, EraseCleanedEffect, EraseNoData
    <2>2. pc = "moveIx" /\ refs' = refs /\ damaged' = damaged /\ Ready(op) /\ Fit(op)
      BY <1>9, FitOp DEF EraseCleaned
    <2>3. CASE pc' = "pick" /\ op' = op
      BY <2>1, <2>2, <2>3, QuietFiles
    <2>4. CASE Finish
      <3>1. pc' = "idle" /\ op'.kind = "none" /\ op'.obj = NoObj
        BY <2>4 DEF Finish, Idle
      <3> QED BY <2>1, <2>2, <3>1, QuietFiles
    <2>5. CASE Proceed(op)
      BY <2>1, <2>2, <2>5, QuietFiles
    <2> QED BY <1>9, <2>3, <2>4, <2>5 DEF EraseCleaned
  <1> QED BY <1>1, <1>2, <1>3, <1>4, <1>5, <1>6, <1>7, <1>8, <1>9 DEF CleanNext
-----------------------------------------------------------------------------
(* The work of the calls *)

\* The call works on, with the index it has in memory.
LEMMA SameOp ==
  ASSUME FilesInv, pc \in {"work", "store"}, pc' \in {"work", "store"},
         NoNewData, refs' = refs, damaged' = damaged, \A x : NextExists(x) <=> Exists(x),
         op'.kind = op.kind, op'.obj = op.obj, op'.work = op.work, op'.at = op.at,
         pc' = "store" /\ op.kind = "truncate" => pc = "store"
  PROVE  WholeNext
  <1> USE DEF FilesInv
  <1>1. \A x \in Objs : NextIndex(x) = Index(x)
    BY DEF NextIndex, WorkingNext, Index, Working
  <1>2. LeaksNext
    BY <1>1, LeaksKept
  <1>3. FreshNext
    BY DEF FreshNext, FreshId, NoNewData
  <1>4. GaplessNext
    BY SameSpans DEF GaplessNext, Gapless, NextSize
  <1>5. WorkSpansNext
    BY SameSpans DEF WorkSpansNext, WorkSpans, WorkingNext, Working, NextSize
  <1>6. GcSpansNext /\ (IdleOp)'
    BY DEF GcSpansNext, IdleOp
  <1> QED BY <1>2, <1>3, <1>4, <1>5, <1>6 DEF WholeNext, SpansNext

\* An index that is about to be stored has no gap.
LEMMA WorkGapless ==
  ASSUME FilesInv, pc = "store", op.obj \notin damaged
  PROVE  Named(op.work) = 0 .. (Cardinality(Named(op.work)) - 1)
  <1> USE DEF FilesInv, IInv
  <1>1. /\ op.kind \in {"append", "modify", "truncate", "rename", "remove"}
        /\ op.at \in Nat /\ op.obj \in Objs
    BY DEF TypeOK, Calls, OpExists
  <1>2. CASE op.kind = "append"
    <2>1. Named(op.work) = 0 .. (op.at - 1)
      BY <1>2 DEF WorkSpans, Working
    <2>2. Cardinality(0 .. (op.at - 1)) = op.at
      <3>1. op.at - 1 \in Int
        BY <1>1
      <3>2. Cardinality(0 .. (op.at - 1)) = IF 0 > op.at - 1 THEN 0 ELSE (op.at - 1) - 0 + 1
        BY <3>1, FS_Interval
      <3> QED BY <1>1, <3>2
    <2> QED BY <2>1, <2>2
  <1>3. CASE op.kind \in {"modify", "rename"}
    BY <1>1, <1>3, SameSpans DEF WorkSpans, Working, Gapless
  <1>4. CASE op.kind \in {"truncate", "remove"}
    <2>1. op.work = NoRefs
      BY <1>4 DEF WorkSpans, OpExists
    <2>2. Named(op.work) = {}
      BY <2>1 DEF Named, NoRefs
    <2>3. Cardinality({}) = 0
      BY FS_EmptySet
    <2> QED BY <2>2, <2>3
  <1> QED BY <1>1, <1>2, <1>3, <1>4

\* The call returns: the index in memory is stored, or was that of flash.
LEMMA FinishWhole ==
  ASSUME FilesInv, pc \in {"work", "store"}, Finish, NoNewData,
         \A x : NextExists(x) <=> Exists(x), damaged \subseteq damaged',
         \A x \in Objs \ damaged' : refs'[x] = Index(x),
         pc = "work" => op.kind = "create"
  PROVE  WholeNext
  <1> USE DEF FilesInv
  <1>1. pc' = "idle" /\ op'.kind = "none" /\ op'.obj = NoObj
    BY DEF Finish, Idle
  <1>2. LeaksNext
    <2>1. \A x \in Objs \ damaged' : NextIndex(x) = Index(x)
      BY <1>1 DEF NextIndex, WorkingNext
    <2> QED BY <2>1, LeaksKept
  <1>3. GaplessNext
    <2> SUFFICES ASSUME NEW x \in Objs \ damaged'
                 PROVE  Named(refs'[x]) = 0 .. (NextSize(x) - 1)
      BY DEF GaplessNext
    <2>1. refs'[x] = Index(x) /\ x \notin damaged
      OBVIOUS
    <2>2. CASE op.obj = x /\ op.kind # "create"
      <3>1. refs'[x] = op.work
        BY <2>1, <2>2 DEF Index, Working
      <3> QED BY <2>1, <2>2, <3>1, WorkGapless DEF NextSize
    <2>3. CASE ~(op.obj = x /\ op.kind # "create")
      <3>1. refs'[x] = refs[x]
        BY <2>1, <2>3 DEF Index, Working
      <3> QED BY <2>1, <3>1, SameSpans DEF Gapless, NextSize
    <2> QED BY <2>2, <2>3
  <1>4. FreshNext /\ GcSpansNext /\ WorkSpansNext /\ (IdleOp)'
    BY <1>1 DEF FreshNext, GcSpansNext, WorkSpansNext, IdleOp
  <1> QED BY <1>2, <1>3, <1>4 DEF WholeNext, SpansNext

\* The call works on: only its own spans change.
LEMMA WorkOn ==
  ASSUME FilesInv, pc = "work", op.kind # "create", LeaksNext,
         pc' \in {"work", "store"}, refs' = refs, damaged \subseteq damaged',
         op'.kind = op.kind, op'.obj = op.obj,
         op.obj \notin damaged' =>
             /\ op.kind = "append" => op'.at >= SizeOf(op.obj) /\ Named(op'.work) = 0 .. (op'.at - 1)
             /\ op.kind \in {"modify", "rename"} => Named(op'.work) = SpansOf(op.obj)
             /\ op.kind = "truncate" /\ pc' = "store" => op'.work = NoRefs
  PROVE  WholeNext
  <1> USE DEF FilesInv
  <1>1. GaplessNext
    BY SameSpans DEF GaplessNext, Gapless, NextSize
  <1>2. WorkSpansNext
    BY SameSpans DEF WorkSpansNext, WorkingNext, NextSize
  <1>3. FreshNext /\ GcSpansNext /\ (IdleOp)'
    BY DEF FreshNext, GcSpansNext, IdleOp
  <1> QED BY <1>1, <1>2, <1>3 DEF WholeNext, SpansNext

\* What is in memory while a call works, and what the files of the others have.
LEMMA WorkIndex ==
  ASSUME pc = "work", op.kind # "create", pc' \in {"work", "store"}, refs' = refs,
         op'.kind = op.kind, op'.obj = op.obj
  PROVE  /\ Index(op.obj) = op.work /\ NextIndex(op.obj) = op'.work
         /\ \A x : x # op.obj => Index(x) = refs[x] /\ NextIndex(x) = refs[x]
  BY DEF Index, Working, NextIndex, WorkingNext

\* A page not in use is taken for data.
LEMMA TakenPage ==
  ASSUME TypeOK, NEW p \in Pages, NextFree(p)
  PROVE  lu[p] = FreeEntry /\ p \in FreePages /\ FreeEntry.kind = "free"
  BY DEF NextFree, FreePages, FreeEntry
LEMMA AppendWhole ==
  ASSUME FilesInv, NEW p \in Pages, AppendPage(p)
  PROVE  WholeNext
  <1> USE DEF FilesInv, IInv
  <1> DEFINE o == op.obj
             n == op.at
  <1>1. /\ pc = "work" /\ pc' = "work" /\ op.kind = "append"
        /\ NextFree(p) /\ lu' = [lu EXCEPT ![p] = DataEntry(o, n)]
        /\ refs' = refs /\ damaged' = damaged
    BY DEF AppendPage, AllocatePage
  <1>2. o \in Objs /\ n \in Spans /\ op \in Calls /\ n \in Nat
    BY ConstantsAssumption DEF ConstantsAssumption, AppendPage, TypeOK, Calls, Spans
  <1>3. /\ op'.kind = "append" /\ op'.obj = o /\ op'.at = n + 1
        /\ op'.work = [op.work EXCEPT ![n] = p]
    BY <1>2 DEF AppendPage, Calls
  <1>4. op'.work[n] = p /\ \A s \in Spans : s # n => op'.work[s] = op.work[s]
    BY <1>2, <1>3 DEF Calls, Works
  <1>5. lu[p] = FreeEntry /\ FreeEntry.kind = "free"
        /\ \A q \in Pages : lu'[q] = IF q = p THEN DataEntry(o, n) ELSE lu[q]
    BY <1>1, TakenPage DEF TypeOK
  <1>6. DataEntry(o, n).kind = "data" /\ DataEntry(o, n).obj = o /\ DataEntry(o, n).span = n
    BY DEF DataEntry
  <1>7. o \notin damaged /\ Exists(o)
    BY <1>1 DEF OpExists
  <1>8. /\ n >= SizeOf(o) /\ Named(op.work) = 0 .. (n - 1)
    BY <1>1, <1>7 DEF WorkSpans, Working
  <1>9. op.work[n] = NoPage
    BY <1>2, <1>8 DEF Named
  <1>10. /\ Index(o) = op.work /\ NextIndex(o) = op'.work
         /\ \A x : x # o => Index(x) = refs[x] /\ NextIndex(x) = refs[x]
    BY <1>1, <1>3, WorkIndex
  <1> HIDE DEF o, n
  <1>11. \A x : NextExists(x) => Exists(x)
    <2>1. \A x : IndexEntry(x).kind = "index"
      BY DEF IndexEntry
    <2> QED BY <1>5, <1>6, <2>1 DEF NextExists, Exists
  <1>12. p # NoPage
    BY ConstantsAssumption DEF ConstantsAssumption, Pages, Blocks, NoPage
  <1>13. LeaksNext
    <2> SUFFICES ASSUME NEW q \in Pages, lu'[q].kind = "data", lu'[q].obj \notin damaged,
                        Exists(lu'[q].obj)
                 PROVE  NextIndex(lu'[q].obj)[lu'[q].span] = q
      BY <1>1, <1>11 DEF LeaksNext
    <2>1. CASE q = p
      BY <1>4, <1>5, <1>6, <1>10, <2>1
    <2>2. CASE q # p
      <3>1. lu'[q] = lu[q] /\ Index(lu[q].obj)[lu[q].span] = q /\ lu[q].span \in Spans
        BY <1>5, <2>2, EntryKinds DEF NoLeaks, TypeOK
      <3>2. q # NoPage
        BY ConstantsAssumption DEF ConstantsAssumption, Pages, Blocks, NoPage
      <3>3. CASE lu[q].obj = o
        <4>1. lu[q].span # n
          BY <1>9, <1>10, <3>1, <3>2, <3>3
        <4> QED BY <1>4, <1>10, <3>1, <3>3, <4>1
      <3>4. CASE lu[q].obj # o
        BY <1>10, <3>1, <3>4
      <3> QED BY <3>3, <3>4
    <2> QED BY <2>1, <2>2
  <1>14. Named(op'.work) = 0 .. n
    <2>1. Named(op'.work) = Named(op.work) \cup {n}
      BY <1>2, <1>4, <1>12 DEF Named
    <2> QED BY <1>2, <1>8, <2>1
  <1>15. op'.at >= SizeOf(o) /\ op'.at - 1 = n
    BY <1>2, <1>3, <1>8, SizeType
  <1>16. op.kind # "create" /\ op.kind \notin {"modify", "rename", "truncate"}
    BY <1>1
  <1>17. op.obj = o
    BY DEF o
  <1> QED BY <1>1, <1>3, <1>13, <1>14, <1>15, <1>16, <1>17, WorkOn

LEMMA ModifyWhole ==
  ASSUME FilesInv, NEW p \in Pages, ModifyPage(p)
  PROVE  WholeNext
  <1> USE DEF FilesInv, IInv
  <1> DEFINE o == op.obj
             n == op.at
             old == op.work[op.at]
  <1>1. /\ pc = "work" /\ pc' = "work" /\ op.kind = "modify" /\ op.at <= op.last
        /\ NextFree(p) /\ lu' = [lu EXCEPT ![p] = DataEntry(o, n), ![old] = DeletedEntry]
        /\ refs' = refs /\ damaged' = damaged
    BY DEF ModifyPage
  <1>2. o \in Objs /\ n \in Spans /\ old \in UsedPages /\ lu[old] = DataEntry(o, n) /\ op \in Calls
    BY <1>1, OldPage DEF TypeOK
  <1>3. /\ op'.kind = "modify" /\ op'.obj = o
        /\ op'.work = [op.work EXCEPT ![n] = p]
    BY <1>2 DEF ModifyPage, Calls
  <1>4. op'.work[n] = p /\ \A s \in Spans : s # n => op'.work[s] = op.work[s]
    BY <1>2, <1>3 DEF Calls, Works
  <1>5. /\ DataEntry(o, n).kind = "data" /\ DataEntry(o, n).obj = o /\ DataEntry(o, n).span = n
        /\ DeletedEntry.kind = "dele"
    BY DEF DataEntry, DeletedEntry
  <1>6. /\ old \in Pages /\ old # p
        /\ \A q \in Pages : lu'[q] = IF q = old THEN DeletedEntry
                                     ELSE IF q = p THEN DataEntry(o, n) ELSE lu[q]
    <2>1. Owned(DataEntry(o, n)) /\ p \in FreePages
      BY <1>1, <1>2, <1>5, EntryTypes, TakenPage DEF Owned
    <2>2. TypeOK /\ old \in UsedPages /\ lu' = [lu EXCEPT ![p] = DataEntry(o, n), ![old] = DeletedEntry]
      BY <1>1, <1>2
    <2> HIDE DEF o, n, old, FilesInv, IInv
    <2> QED BY <2>1, <2>2, MoveSets
  <1>7. Exists(o)
    BY <1>1 DEF OpExists
  <1>8. /\ Index(o) = op.work /\ NextIndex(o) = op'.work
        /\ \A x : x # o => Index(x) = refs[x] /\ NextIndex(x) = refs[x]
    BY <1>1, <1>3, WorkIndex
  <1>9. p # NoPage /\ old # NoPage
    BY <1>6, ConstantsAssumption DEF ConstantsAssumption, Pages, Blocks, NoPage
  <1>10. o \notin damaged => Named(op.work) = SpansOf(o)
    BY <1>1, SameSpans DEF WorkSpans, Working
  <1>11. op.work[n] = old /\ op.obj = o
    OBVIOUS
  <1> HIDE DEF o, n, old
  <1>12. \A x : NextExists(x) => Exists(x)
    <2>1. \A x : IndexEntry(x).kind = "index"
      BY DEF IndexEntry
    <2> QED BY <1>5, <1>6, <2>1 DEF NextExists, Exists
  <1>13. LeaksNext
    <2> SUFFICES ASSUME NEW q \in Pages, lu'[q].kind = "data", lu'[q].obj \notin damaged,
                        Exists(lu'[q].obj)
                 PROVE  NextIndex(lu'[q].obj)[lu'[q].span] = q
      BY <1>1, <1>12 DEF LeaksNext
    <2>1. CASE q = p
      BY <1>4, <1>5, <1>6, <1>8, <2>1
    <2>2. CASE q # p
      <3>1. q # old /\ lu'[q] = lu[q]
        BY <1>5, <1>6, <2>2
      <3>2. Index(lu[q].obj)[lu[q].span] = q /\ lu[q].span \in Spans
        BY <3>1, EntryKinds DEF NoLeaks, TypeOK
      <3>3. CASE lu[q].obj = o
        <4>1. lu[q].span # n
          BY <1>8, <1>11, <3>1, <3>2, <3>3
        <4> QED BY <1>4, <1>8, <3>1, <3>2, <3>3, <4>1
      <3>4. CASE lu[q].obj # o
        BY <1>8, <3>1, <3>2, <3>4
      <3> QED BY <3>3, <3>4
    <2> QED BY <2>1, <2>2
  <1>14. Named(op'.work) = Named(op.work)
    BY <1>2, <1>4, <1>9, <1>11 DEF Named
  <1>15. op.kind # "create" /\ op.kind \notin {"append", "truncate"}
    BY <1>1
  <1> QED BY <1>1, <1>3, <1>10, <1>11, <1>13, <1>14, <1>15, WorkOn

LEMMA LosesWhole ==
  ASSUME FilesInv, NEW junk, ModifyLosesPage(junk)
  PROVE  WholeNext
  <1> USE DEF FilesInv, IInv
  <1> DEFINE o == op.obj
  <1>1. /\ pc = "work" /\ pc' = "work" /\ op.kind = "modify" /\ op.at <= op.last
        /\ \A p \in Pages : lu'[p] = IF p \in {op.work[op.at]} THEN DeletedEntry ELSE lu[p]
        /\ refs' = refs /\ damaged' = damaged \cup {o}
    BY DEF ModifyLosesPage, DeletePages
  <1>2. op'.kind = "modify" /\ op'.obj = o
    BY DEF ModifyLosesPage, TypeOK, Calls
  <1>3. NoNewData
    BY <1>1 DEF NoNewData, DeletedEntry
  <1>4. \A x : NextExists(x) => Exists(x)
    <2>1. DeletedEntry.kind = "dele" /\ \A x : IndexEntry(x).kind = "index"
      BY DEF DeletedEntry, IndexEntry
    <2> QED BY <1>1, <2>1 DEF NextExists, Exists
  <1>5. \A x : x # o => Index(x) = refs[x] /\ NextIndex(x) = refs[x]
    BY <1>1, <1>2, WorkIndex
  <1>6. LeaksNext
    BY <1>1, <1>3, <1>4, <1>5, LeaksKept
  <1> QED BY <1>1, <1>2, <1>6, WorkOn

\* The loop of a truncate finds every page of its file, and stops at none.
LEMMA TruncateWhole ==
  ASSUME FilesInv, TruncateData
  PROVE  WholeNext
  <1> USE DEF FilesInv, IInv
  <1> DEFINE o == op.obj
             gone == TruncatedPages(op.work)
  <1>1. /\ pc = "work" /\ pc' = "store" /\ op.kind = "truncate"
        /\ \A p \in Pages : lu'[p] = IF p \in gone THEN DeletedEntry ELSE lu[p]
        /\ refs' = refs /\ damaged' = damaged
    BY DEF TruncateData, DeletePages
  <1>2. op'.kind = "truncate" /\ op'.obj = o /\ op'.work = NoRefs
    BY DEF TruncateData, TypeOK, Calls
  <1>3. o \notin damaged /\ Exists(o)
    BY <1>1 DEF OpExists
  <1>4. Refused(op.work) = {}
    <2> SUFFICES ASSUME NEW s \in Spans, op.work[s] # NoPage
                 PROVE  op.work[s] \in Pages /\ Passes(op.work[s], s)
      BY DEF Refused
    <2>1. op.work[s] \in Pages /\ lu[op.work[s]] = DataEntry(o, s)
      BY <1>1, <1>3 DEF OpWorkSound, Working, Sound
    <2> QED BY <2>1 DEF Passes, DataEntry
  <1>5. /\ Index(o) = op.work
        /\ \A x : x # o => Index(x) = refs[x] /\ NextIndex(x) = refs[x]
    BY <1>1, <1>2, WorkIndex
  <1>6. ASSUME NEW p \in Pages, lu'[p].kind = "data"
        PROVE  lu'[p] = lu[p] /\ lu[p].obj # o
    <2>1. p \notin gone /\ lu'[p] = lu[p]
      BY <1>1, <1>6 DEF DeletedEntry
    <2>2. ASSUME lu[p].obj = o PROVE FALSE
      <3>1. op.work[lu[p].span] = p /\ lu[p].span \in Spans
        BY <1>3, <1>5, <1>6, <2>1, <2>2, EntryKinds DEF NoLeaks, TypeOK
      <3>2. p \in gone
        BY <1>4, <1>6, <2>1, <3>1 DEF TruncatedPages, Passes
      <3> QED BY <2>1, <3>2
    <2> QED BY <2>1, <2>2
  <1>7. \A x : NextExists(x) => Exists(x)
    <2>1. DeletedEntry.kind = "dele" /\ \A x : IndexEntry(x).kind = "index"
      BY DEF DeletedEntry, IndexEntry
    <2> QED BY <1>1, <2>1 DEF NextExists, Exists
  <1>8. LeaksNext
    <2> SUFFICES ASSUME NEW p \in Pages, lu'[p].kind = "data", lu'[p].obj \notin damaged,
                        Exists(lu'[p].obj)
                 PROVE  NextIndex(lu'[p].obj)[lu'[p].span] = p
      BY <1>1, <1>7 DEF LeaksNext
    <2>1. lu'[p] = lu[p] /\ lu[p].obj # o
      BY <1>6
    <2> QED BY <1>5, <2>1 DEF NoLeaks
  <1> QED BY <1>1, <1>2, <1>8, WorkOn
LEMMA CreateWhole ==
  ASSUME FilesInv, NEW p \in Pages, CreateIndex(p)
  PROVE  WholeNext
  <1> USE DEF FilesInv, IInv
  <1> DEFINE o == op.obj
  <1>1. /\ pc = "work" /\ op.kind = "create" /\ o \in Objs /\ Finish
        /\ NextFree(p) /\ lu' = [lu EXCEPT ![p] = IndexEntry(o)]
        /\ refs' = [refs EXCEPT ![o] = NoRefs] /\ damaged' = damaged
    BY DEF CreateIndex, AllocatePage, TypeOK
  <1>2. pc' = "idle" /\ op'.kind = "none" /\ op'.obj = NoObj
    BY <1>1 DEF Finish, Idle
  <1>3. lu[p] = FreeEntry /\ \A q \in Pages : lu'[q] = IF q = p THEN IndexEntry(o) ELSE lu[q]
    BY <1>1, TakenPage DEF TypeOK
  <1>4. \A x : IndexEntry(x).kind = "index" /\ IndexEntry(x).obj = x
    BY DEF IndexEntry
  <1>5. refs'[o] = NoRefs /\ \A x \in Objs : x # o => refs'[x] = refs[x]
    BY <1>1 DEF TypeOK
  <1>6. ASSUME NEW q \in Pages, lu'[q].kind = "data" PROVE lu'[q] = lu[q] /\ lu[q].obj # o
    BY <1>1, <1>3, <1>4, <1>6 DEF FreshId
  <1>7. \A x \in Objs : x # o => Index(x) = refs[x] /\ NextIndex(x) = refs[x]
    BY <1>1, <1>2, <1>5 DEF Index, Working, NextIndex, WorkingNext
  <1> HIDE DEF o
  <1>8. \A x : x # o /\ NextExists(x) => Exists(x)
    BY <1>3, <1>4 DEF NextExists, Exists
  <1>9. LeaksNext
    <2> SUFFICES ASSUME NEW q \in Pages, lu'[q].kind = "data", lu'[q].obj \notin damaged,
                        NextExists(lu'[q].obj)
                 PROVE  NextIndex(lu'[q].obj)[lu'[q].span] = q
      BY <1>1 DEF LeaksNext
    <2>1. lu'[q] = lu[q] /\ lu[q].obj # o /\ lu[q].obj \in Objs
      BY <1>6, EntryKinds DEF TypeOK
    <2> QED BY <1>7, <1>8, <2>1 DEF NoLeaks
  <1>10. GaplessNext
    <2> SUFFICES ASSUME NEW x \in Objs \ damaged
                 PROVE  Named(refs'[x]) = 0 .. (NextSize(x) - 1)
      BY <1>1 DEF GaplessNext
    <2>1. CASE x = o
      <3>1. Named(refs'[x]) = {}
        BY <1>5, <2>1 DEF Named, NoRefs
      <3>2. NextSize(x) = 0
        BY <3>1, FS_EmptySet DEF NextSize
      <3> QED BY <3>1, <3>2
    <2>2. CASE x # o
      BY <1>5, <2>2, SameSpans DEF Gapless, NextSize
    <2> QED BY <2>1, <2>2
  <1>11. FreshNext /\ GcSpansNext /\ WorkSpansNext /\ (IdleOp)'
    BY <1>2 DEF FreshNext, GcSpansNext, WorkSpansNext, IdleOp
  <1> QED BY <1>9, <1>10, <1>11 DEF WholeNext, SpansNext

LEMMA WorkWhole ==
  ASSUME FilesInv, WorkNext
  PROVE  WholeNext
  <1> USE DEF FilesInv, IInv
  <1>a. op \in Calls /\ (pc # "idle" /\ op.kind \notin {"none", "gc"} => op.obj \in Objs)
    BY DEF TypeOK
  <1>1. ASSUME NEW b \in Blocks, QuickInFindFree(b) PROVE WholeNext
    <2>1. NoNewData /\ \A x : NextExists(x) <=> Exists(x)
      BY <1>1, QuickEraseEffect, EraseNoData DEF QuickInFindFree
    <2>2. /\ pc \in {"work", "store"} /\ pc' = pc /\ refs' = refs /\ damaged' = damaged
          /\ op'.kind = op.kind /\ op'.obj = op.obj /\ op'.work = op.work /\ op'.at = op.at
      BY <1>1, <1>a DEF QuickInFindFree, Calls
    <2> QED BY <2>1, <2>2, SameOp
  <1>2. CASE CreateFails
    <2>1. /\ pc = "work" /\ op.kind = "create" /\ Finish
          /\ lu' = lu /\ refs' = refs /\ damaged' = damaged
      BY <1>2 DEF CreateFails
    <2>2. \A x : Index(x) = refs[x]
      BY <2>1 DEF Index, Working
    <2> QED BY <2>1, <2>2, SameLu, FinishWhole
  <1>3. CASE LeaveLoop
    <2>1. /\ pc = "work" /\ pc' = "store" /\ op.kind \in {"append", "modify"}
          /\ lu' = lu /\ refs' = refs /\ damaged' = damaged
          /\ op'.kind = op.kind /\ op'.obj = op.obj /\ op'.work = op.work /\ op'.at = op.at
      BY <1>3, <1>a DEF LeaveLoop, Calls
    <2> QED BY <2>1, SameLu, SameOp
  <1>4. CASE LoopDone
    <2>1. /\ pc = "work" /\ pc' = "store" /\ op.kind \in {"append", "modify"}
          /\ lu' = lu /\ refs' = refs /\ damaged' = damaged /\ op' = op
      BY <1>4 DEF LoopDone
    <2> QED BY <2>1, SameLu, SameOp
  <1>5. ASSUME refs' = [refs EXCEPT ![op.obj] = op.work], op.kind # "create",
               pc \in {"work", "store"}
        PROVE  \A x \in Objs : refs'[x] = Index(x)
    BY <1>5 DEF TypeOK, Index, Working
  <1>6. CASE StoreFresh
    <2>1. /\ pc = "store" /\ op.kind = "append" /\ Finish
          /\ lu' = lu /\ damaged' = damaged
          /\ refs' = [refs EXCEPT ![op.obj] = op.work]
      BY <1>6 DEF StoreFresh
    <2> QED BY <1>5, <2>1, SameLu, FinishWhole
  <1>7. ASSUME NEW src \in Pages, NEW dst \in Pages, StoreIndex(src, dst) PROVE WholeNext
    <2>1. /\ pc = "store" /\ Finish /\ damaged' = damaged
          /\ refs' = [refs EXCEPT ![op.obj] = op.work]
          /\ src \in IndexPages(op.obj) /\ MovePage(src, dst)
      BY <1>7 DEF StoreIndex
    <2>2. op.kind # "create" /\ op.obj \in Objs
      BY <2>1, <1>a DEF OpExists, TypeOK
    <2>3. NoNewData /\ \A x : NextExists(x) <=> Exists(x)
      BY <2>1, <2>2, MoveNoData
    <2> QED BY <1>5, <2>1, <2>2, <2>3, FinishWhole
  <1>8. CASE StoreFails
    <2>1. /\ pc = "store" /\ Finish /\ lu' = lu /\ refs' = refs
          /\ damaged' = IF op.work = refs[op.obj] THEN damaged ELSE damaged \cup {op.obj}
      BY <1>8 DEF StoreFails
    <2>2. damaged \subseteq damaged'
      BY <2>1
    <2>3. \A x \in Objs \ damaged' : refs'[x] = Index(x)
      BY <2>1 DEF Index, Working
    <2> QED BY <2>1, <2>2, <2>3, SameLu, FinishWhole
  <1> QED BY <1>1, <1>2, <1>3, <1>4, <1>6, <1>7, <1>8, CreateWhole, AppendWhole, ModifyWhole,
             LosesWhole, TruncateWhole DEF WorkNext

-----------------------------------------------------------------------------
(* The theorems *)

LEMMA FilesInit == Init => FilesInv
  <1> SUFFICES ASSUME Init PROVE FilesInv
    OBVIOUS
  <1>1. NoLeaks
    BY DEF Init, NoLeaks, FreeEntry
  <1>2. Gapless
    <2>1. ASSUME NEW o \in Objs PROVE SpansOf(o) = {}
      BY DEF Init, SpansOf, NoRefs
    <2>2. ASSUME NEW o \in Objs PROVE SizeOf(o) = 0
      BY <2>1, FS_EmptySet DEF SizeOf
    <2> QED BY <2>1, <2>2 DEF Gapless
  <1>3. FreshId /\ GcSpans /\ WorkSpans /\ IdleOp
    BY DEF Init, FreshId, GcSpans, WorkSpans, IdleOp, Idle
  <1> QED BY InvInit, <1>1, <1>2, <1>3 DEF FilesInv

LEMMA FilesStep ==
  ASSUME QuickMax = 0
  PROVE  FilesInv /\ [Next]_vars => FilesInv'
  <1>1. ASSUME FilesInv, Next PROVE FilesInv'
    <2>1. IInv'
      BY <1>1, InvStep DEF FilesInv
    <2>2. Whole'
      BY <1>1, CallWhole, CleanWhole, WorkWhole, NextWhole DEF Next
    <2> QED BY <2>1, <2>2 DEF Whole, FilesInv
  <1>2. ASSUME FilesInv, UNCHANGED vars PROVE FilesInv'
    <2>1. IInv'
      BY <1>2, InvStep DEF FilesInv
    <2>2. Whole'
      BY <1>2
      DEF vars, counters, FilesInv, Whole, NoLeaks, Index, Working, Exists, FreshId, Gapless, SpansOf,
          SizeOf, GcSpans, Named, WorkSpans, IdleOp
    <2> QED BY <2>1, <2>2 DEF Whole, FilesInv
  <1> QED BY <1>1, <1>2

\* No page of a file is lost, and no file has a gap, whatever calls and collections
\* there were: the second invariant of SpiffsLookup.
THEOREM NothingLeaks ==
  ASSUME QuickMax = 0
  PROVE  Spec => []FilesInv
  <1>1. FilesInv /\ [Next]_vars => FilesInv'
    BY FilesStep
  <1> QED BY FilesInit, <1>1, PTL DEF Spec

\* The index of a file names its data pages, each under its own span, and no others.
THEOREM IndexExact ==
  ASSUME QuickMax = 0
  PROVE  Spec => []RefsExact
  <1>1. ASSUME FilesInv PROVE RefsExact
    <2> USE <1>1 DEF FilesInv, IInv
    <2> SUFFICES ASSUME NEW o \in Objs \ damaged, Exists(o), op.obj # o, gc.obj # o
                 PROVE  /\ DataPages(o) = {refs[o][s] : s \in SpansOf(o)}
                        /\ \A s \in SpansOf(o) : lu[refs[o][s]].span = s
                        /\ SpansOf(o) = 0 .. (SizeOf(o) - 1)
      BY DEF RefsExact
    <2>1. Index(o) = refs[o]
      BY DEF Index
    <2>2. ASSUME NEW s \in SpansOf(o)
          PROVE  /\ refs[o][s] \in Pages /\ lu[refs[o][s]].kind = "data"
                 /\ lu[refs[o][s]].obj = o /\ lu[refs[o][s]].span = s
      <3>1. s \in Spans /\ refs[o][s] # NoPage
        BY <2>2 DEF SpansOf
      <3>2. refs[o][s] \in Pages /\ lu[refs[o][s]] = DataEntry(o, s)
        BY <3>1 DEF RefsSound, Sound
      <3> QED BY <3>2 DEF DataEntry
    <2>3. ASSUME NEW p \in DataPages(o)
          PROVE  lu[p].span \in SpansOf(o) /\ refs[o][lu[p].span] = p
      <3>1. p \in Pages /\ lu[p].kind = "data" /\ lu[p].obj = o
        BY <2>3 DEF DataPages
      <3>2. refs[o][lu[p].span] = p /\ lu[p].span \in Spans
        BY <2>1, <3>1, EntryKinds DEF NoLeaks, TypeOK
      <3>3. p # NoPage
        BY <3>1, ConstantsAssumption DEF ConstantsAssumption, Pages, Blocks, NoPage
      <3> QED BY <3>2, <3>3 DEF SpansOf
    <2>4. DataPages(o) = {refs[o][s] : s \in SpansOf(o)}
      BY <2>2, <2>3 DEF DataPages
    <2> QED BY <2>2, <2>4 DEF Gapless
  <1> QED BY NothingLeaks, <1>1, PTL

-----------------------------------------------------------------------------
(* The files of SpiffsStore, before and after a step *)

File(o) == IF ~Exists(o) THEN -1 ELSE IF o \in damaged THEN -2 ELSE SizeOf(o)
NextFile(o) == IF ~NextExists(o) THEN -1 ELSE IF o \in damaged' THEN -2 ELSE NextSize(o)

LEMMA FilesAre ==
  /\ Files = [o \in Objs |-> File(o)]
  /\ Files' = [o \in Objs |-> NextFile(o)]
  BY DEF Files, File, NextFile, Exists, NextExists, SizeOf, SpansOf, NextSize, Named

LEMMA NamedSize ==
  ASSUME NEW w
  PROVE  Cardinality(Named(w)) \in 0 .. MaxData
  <1>1. Named(w) \subseteq Spans
    BY DEF Named
  <1>2. MaxData - 1 \in Int /\ MaxData \in Nat
    BY ConstantsAssumption DEF ConstantsAssumption
  <1>3. /\ IsFiniteSet(0 .. (MaxData - 1))
        /\ Cardinality(0 .. (MaxData - 1)) = IF 0 > MaxData - 1 THEN 0 ELSE (MaxData - 1) - 0 + 1
    BY <1>2, FS_Interval
  <1>4. IsFiniteSet(Spans) /\ Cardinality(Spans) = MaxData
    BY <1>2, <1>3 DEF Spans
  <1>5. Cardinality(Named(w)) <= Cardinality(Spans)
    BY <1>1, <1>4, FS_Subset
  <1> QED BY <1>1, <1>2, <1>4, <1>5, SpanCount

\* A file whose index page, condition and length are as before.
LEMMA SameFile ==
  ASSUME NEW o, NextExists(o) <=> Exists(o), o \in damaged' <=> o \in damaged,
         o \notin damaged => Named(refs'[o]) = Named(refs[o])
  PROVE  NextFile(o) = File(o)
  BY SameSpans DEF NextFile, File, NextSize

-----------------------------------------------------------------------------
(* The steps of SpiffsStore *)

StoreStep == Store!Next \/ UNCHANGED Store!vars

LEMMA Nothing ==
  ASSUME \A x \in Objs : NextFile(x) = File(x), op'.kind = op.kind, op'.obj = op.obj
  PROVE  StoreStep
  <1>1. Files' = Files
    BY FilesAre
  <1> QED BY <1>1 DEF StoreStep, Store!vars

LEMMA Begins ==
  ASSUME \A x \in Objs : NextFile(x) = File(x), op.kind = "none", NEW o \in Objs,
         op'.kind \in {"create", "append", "modify", "truncate", "rename"}, op'.obj = o,
         op'.kind = "create" => ~Exists(o),
         op'.kind # "create" => Exists(o) /\ o \notin damaged
  PROVE  StoreStep
  <1>1. Files' = Files /\ Files[o] = File(o)
    BY FilesAre
  <1>2. op'.kind = "create" => Files[o] = -1
    BY <1>1 DEF File
  <1>3. op'.kind # "create" => Files[o] \in 0 .. MaxData
    BY <1>1, SameSpans, NamedSize DEF File
  <1>4. Store!Begin(o, op'.kind)
    BY <1>1, <1>2, <1>3 DEF Store!Begin, Store!Sizes
  <1> QED BY <1>4 DEF StoreStep, Store!Next

LEMMA BeginsGc ==
  ASSUME \A x \in Objs : NextFile(x) = File(x), op.kind = "none", op'.kind = "gc", op'.obj = NoObj
  PROVE  StoreStep
  <1>1. Files' = Files
    BY FilesAre
  <1> QED BY <1>1 DEF StoreStep, Store!Next, Store!BeginGc

LEMMA JustReturns ==
  ASSUME \A x \in Objs : NextFile(x) = File(x), op.kind # "none", Finish
  PROVE  StoreStep
  <1>1. Files' = Files
    BY FilesAre
  <1>2. op'.kind = "none" /\ op'.obj = NoObj
    BY DEF Finish, Idle
  <1> QED BY <1>1, <1>2 DEF StoreStep, Store!Next, Store!Fails, Store!Return

LEMMA ReturnsHalfway ==
  ASSUME NEW o \in Objs, \A x \in Objs : x # o => NextFile(x) = File(x),
         Exists(o), NextFile(o) = -2, op.kind # "none", Finish
  PROVE  StoreStep
  <1>1. Files[o] # -1
    <2>1. File(o) # -1
      BY SameSpans, NamedSize DEF File
    <2> QED BY <2>1, FilesAre
  <1>2. Files' = [Files EXCEPT ![o] = -2]
    BY FilesAre
  <1>3. op'.kind = "none" /\ op'.obj = NoObj
    BY DEF Finish, Idle
  <1> QED BY <1>1, <1>2, <1>3 DEF StoreStep, Store!Next, Store!FailsHalfway, Store!Return

\* The call has done what it was asked to.
LEMMA ReturnsDone ==
  ASSUME NEW o \in Objs, op.obj = o, Finish, \A x \in Objs : x # o => NextFile(x) = File(x),
         \/ op.kind = "create" /\ NextFile(o) = 0
         \/ /\ op.kind = "append" /\ File(o) \in 0 .. MaxData
            /\ NextFile(o) \in 0 .. MaxData /\ NextFile(o) >= File(o)
         \/ op.kind = "truncate" /\ File(o) \in 0 .. MaxData /\ NextFile(o) = 0
         \/ op.kind \in {"modify", "rename"} /\ NextFile(o) = File(o)
  PROVE  StoreStep
  <1>1. Files[o] = File(o) /\ Files' = [Files EXCEPT ![o] = NextFile(o)]
    BY FilesAre
  <1>2. op.kind # "none" /\ op'.kind = "none" /\ op'.obj = NoObj
    BY DEF Finish, Idle
  <1>3. Store!Return
    BY <1>2 DEF Store!Return
  <1>4. op.kind \in {"modify", "rename"} /\ NextFile(o) = File(o) => Files' = Files
    BY FilesAre
  <1>5. Store!Done(o)
    BY <1>1, <1>3, <1>4 DEF Store!Done, Store!Sizes
  <1> QED BY <1>5 DEF StoreStep, Store!Next

\* A step that leaves index pages, references and damage as they are.
LEMMA AllSame ==
  ASSUME refs' = refs, damaged' = damaged, \A x : NextExists(x) <=> Exists(x)
  PROVE  \A x \in Objs : NextFile(x) = File(x)
  BY SameFile

-----------------------------------------------------------------------------
(* The calls that begin *)

LEMMA StartStore ==
  ASSUME FilesInv, NEW o, StartCall(o), NEW x \in Objs,
         o.kind \in {"create", "append", "modify", "truncate", "rename"}, o.obj = x,
         o \in Calls, o.kind = "create" => ~Exists(x),
         o.kind # "create" => Exists(x) /\ x \notin damaged
  PROVE  StoreStep
  <1>1. /\ pc = "idle" /\ lu' = lu /\ refs' = refs /\ damaged' = damaged
        /\ Proceed(o) \/ (pc' = "pick" /\ op' = o)
    BY DEF StartCall
  <1>2. op.kind = "none"
    BY <1>1 DEF FilesInv, IInv, TypeOK
  <1>3. op'.kind = o.kind /\ op'.obj = x
    BY <1>1 DEF Proceed, Calls
  <1>4. \A y \in Objs : NextFile(y) = File(y)
    BY <1>1, SameLu, AllSame
  <1> QED BY <1>2, <1>3, <1>4, Begins

\* Who is hit by the removal of a file: nobody, unless it was damaged.
LEMMA SoundTruncated ==
  ASSUME FilesInv, pc = "idle", NEW o \in Objs \ damaged
  PROVE  Refused(refs[o]) = {} /\ \A p \in TruncatedPages(refs[o]) : lu[p].obj = o
  <1> USE DEF FilesInv, IInv
  <1>1. ASSUME NEW s \in Spans, refs[o][s] # NoPage
        PROVE  /\ refs[o][s] \in Pages /\ lu[refs[o][s]] = DataEntry(o, s)
               /\ Passes(refs[o][s], s)
    <2>1. Sound(refs[o], o, s)
      BY AllSound
    <2>2. refs[o][s] \in Pages /\ lu[refs[o][s]] = DataEntry(o, s)
      BY <1>1, <2>1 DEF Sound
    <2> QED BY <2>2 DEF Passes, DataEntry
  <1>2. Refused(refs[o]) = {}
    BY <1>1 DEF Refused
  <1>3. ASSUME NEW p \in TruncatedPages(refs[o]) PROVE lu[p].obj = o
    <2>1. PICK s \in Spans : refs[o][s] = p /\ p \in Pages
      BY DEF TruncatedPages
    <2>2. p # NoPage
      BY <2>1, ConstantsAssumption DEF ConstantsAssumption, Pages, Blocks, NoPage
    <2>3. lu[p] = DataEntry(o, s)
      BY <1>1, <2>1, <2>2
    <2> QED BY <2>3 DEF DataEntry
  <1> QED BY <1>2, <1>3

LEMMA RemovedStore ==
  ASSUME FilesInv, pc = "idle", NEW o \in Objs, Exists(o),
         refs' = [refs EXCEPT ![o] = NoRefs], damaged' = DamagedByRemoving(o),
         ~NextExists(o), \A x : x # o => (NextExists(x) <=> Exists(x)),
         \/ op'.kind = op.kind /\ op'.obj = op.obj
         \/ Refused(refs[o]) # {} /\ op'.kind = "remove" /\ op'.obj = o
  PROVE  StoreStep
  <1> USE DEF FilesInv, IInv
  <1> DEFINE hit == {d \in Objs : d # o /\ Exists(d) /\ d \notin damaged /\ d \in damaged'}
  <1>1. refs'[o] = NoRefs /\ \A x \in Objs : x # o => refs'[x] = refs[x]
    BY DEF TypeOK
  <1>2. op.kind = "none"
    BY DEF TypeOK
  <1>3. \A x \in Objs : SizeOf(x) \in Nat
    BY SizeType
  <1>4. \A x \in Objs : NextFile(x) = IF x = o THEN -1 ELSE IF x \in hit THEN -2 ELSE File(x)
    <2> SUFFICES ASSUME NEW x \in Objs
                 PROVE  NextFile(x) = IF x = o THEN -1 ELSE IF x \in hit THEN -2 ELSE File(x)
      OBVIOUS
    <2>1. CASE x = o
      BY <2>1 DEF NextFile
    <2>2. CASE x # o /\ x \in hit
      BY <2>2 DEF NextFile
    <2>3. CASE x # o /\ x \notin hit
      <3>1. CASE ~Exists(x)
        BY <2>3, <3>1 DEF NextFile, File
      <3>2. CASE Exists(x)
        <4>1. x \in damaged' <=> x \in damaged
          BY <2>3, <3>2 DEF DamagedByRemoving
        <4> QED BY <1>1, <2>3, <4>1, SameFile
      <3> QED BY <3>1, <3>2
    <2> QED BY <2>1, <2>2, <2>3
  <1>5. o \notin damaged => hit = {} /\ Refused(refs[o]) = {}
    <2> SUFFICES ASSUME o \notin damaged PROVE hit = {} /\ Refused(refs[o]) = {}
      OBVIOUS
    <2>1. Refused(refs[o]) = {} /\ \A p \in TruncatedPages(refs[o]) : lu[p].obj = o
      BY SoundTruncated
    <2>2. damaged' \subseteq damaged
      BY <2>1 DEF DamagedByRemoving
    <2> QED BY <2>1, <2>2
  <1>6. /\ Files[o] # -1
        /\ o \in damaged => Files[o] = -2
        /\ \A x \in hit : Files[x] # -1
    BY <1>3, FilesAre DEF File
  <1>7. hit \in SUBSET Objs /\ \A x \in hit : x # o
    OBVIOUS
  <1>8. Files' = [f \in Objs |-> IF f = o THEN -1 ELSE IF f \in hit THEN -2 ELSE Files[f]]
    BY <1>4, FilesAre
  <1> HIDE DEF hit
  <1>9. Store!Remove(o, hit)
    <2>1. /\ hit # {} => Files[o] = -2
          /\ Refused(refs[o]) # {} => Files[o] = -2
      BY <1>5, <1>6
    <2> QED BY <1>2, <1>6, <1>7, <1>8, <2>1 DEF Store!Remove
  <1> QED BY <1>7, <1>9 DEF StoreStep, Store!Next

LEMMA CallStore ==
  ASSUME QuickMax = 0, FilesInv, CallNext
  PROVE  StoreStep
  <1> USE DEF FilesInv, IInv
  <1>1. ASSUME NEW o \in Objs, Create(o) PROVE StoreStep
    <2> DEFINE c == Call("create", o, 1, TRUE, 0, 0, {})
    <2>1. c \in Calls /\ c.kind = "create" /\ c.obj = o
      BY EntryTypes, ConstantsAssumption DEF ConstantsAssumption, Call, Calls, Idle
    <2>2. ~Exists(o)
      <3>1. IndexEntry(o).obj = o
        BY DEF IndexEntry
      <3> QED BY <1>1, <3>1 DEF Create, IdInUse, Exists
    <2>3. StartCall(c)
      BY <1>1 DEF Create
    <2> HIDE DEF c
    <2> QED BY <2>1, <2>2, <2>3, StartStore
  <1>2. ASSUME NEW o \in Objs, NEW len \in 1 .. MaxLen, NEW whole \in BOOLEAN,
               Append(o, len, whole)
        PROVE  StoreStep
    <2>1. PICK fill \in {0, 1} :
            /\ fill = 1 => ~whole /\ SizeOf(o) > 0
            /\ SizeOf(o) + len - fill <= MaxData
            /\ StartCall(Call("append", o, len + 1, whole, SizeOf(o), SizeOf(o) + len - fill - 1, {}))
      BY <1>2 DEF Append
    <2> DEFINE c == Call("append", o, len + 1, whole, SizeOf(o), SizeOf(o) + len - fill - 1, {})
    <2>2. /\ len + 1 \in Nat /\ SizeOf(o) \in Nat
          /\ SizeOf(o) + len - fill - 1 \in 0 .. MaxData
      BY <2>1, SizeType, ConstantsAssumption DEF ConstantsAssumption
    <2>3. c \in Calls /\ c.kind = "append" /\ c.obj = o
      BY <2>2, EntryTypes DEF Call, Calls, Idle
    <2>4. StartCall(c) /\ Exists(o) /\ o \notin damaged
      BY <1>2, <2>1 DEF Append
    <2> HIDE DEF c
    <2> QED BY <2>3, <2>4, StartStore
  <1>3. ASSUME NEW o \in Objs, NEW len \in 1 .. MaxLen, NEW whole \in BOOLEAN, NEW at \in Spans,
               Modify(o, len, whole, at)
        PROVE  StoreStep
    <2>1. PICK aligned \in BOOLEAN, extra \in {0, 1} :
            LET last == at + len - 1 + extra
                part == IF ~aligned THEN {at, last} ELSE IF whole THEN {} ELSE {last}
            IN  /\ at .. last \subseteq SpansOf(o)
                /\ StartCall(Call("modify", o, len + 1, whole, at, last, part))
      BY <1>3 DEF Modify
    <2> DEFINE last == at + len - 1 + extra
               part == IF ~aligned THEN {at, last} ELSE IF whole THEN {} ELSE {last}
               c == Call("modify", o, len + 1, whole, at, last, part)
    <2>2. at \in Nat /\ last \in Nat /\ at <= last /\ len + 1 \in Nat
      BY ConstantsAssumption DEF ConstantsAssumption, Spans
    <2>3. at .. last \subseteq SpansOf(o)
      BY <2>1
    <2>4. last \in 0 .. MaxData
      BY <2>2, <2>3, ConstantsAssumption DEF ConstantsAssumption, Spans, SpansOf
    <2>5. part \in SUBSET Nat
      BY <2>2
    <2>6. StartCall(c) /\ Exists(o) /\ o \notin damaged
      BY <1>3, <2>1 DEF Modify
    <2> HIDE DEF last, part
    <2>7. c \in Calls /\ c.kind = "modify" /\ c.obj = o
      BY <2>2, <2>4, <2>5, EntryTypes DEF Call, Calls, Idle
    <2> HIDE DEF c
    <2> QED BY <2>6, <2>7, StartStore
  <1>4. ASSUME NEW o \in Objs, Truncate(o) PROVE StoreStep
    <2> DEFINE c == Call("truncate", o, 2, TRUE, 0, 0, {})
    <2>1. c \in Calls /\ c.kind = "truncate" /\ c.obj = o
      BY EntryTypes, ConstantsAssumption DEF ConstantsAssumption, Call, Calls, Idle
    <2>2. StartCall(c) /\ Exists(o) /\ o \notin damaged
      BY <1>4 DEF Truncate
    <2> HIDE DEF c
    <2> QED BY <2>1, <2>2, StartStore
  <1>5. ASSUME NEW o \in Objs, Rename(o) PROVE StoreStep
    <2>1. /\ pc = "idle" /\ lu' = lu /\ refs' = refs /\ damaged' = damaged
          /\ Exists(o) /\ o \notin damaged
          /\ op' = [Call("rename", o, 0, TRUE, 0, 0, {}) EXCEPT !.work = refs[o]]
      BY <1>5 DEF Rename
    <2>2. op'.kind = "rename" /\ op'.obj = o /\ op.kind = "none"
      BY <2>1 DEF Call, Idle, TypeOK
    <2>3. \A x \in Objs : NextFile(x) = File(x)
      BY <2>1, SameLu, AllSame
    <2> QED BY <2>1, <2>2, <2>3, Begins
  <1>6. ASSUME NEW len \in 1 .. MaxGcLen, Gc(len) PROVE StoreStep
    <2> DEFINE c == [Idle EXCEPT !.kind = "gc", !.need = len]
    <2>1. c.kind = "gc" /\ c.obj = NoObj /\ StartCall(c)
      BY <1>6 DEF Gc, Idle
    <2> HIDE DEF c
    <2>2. /\ pc = "idle" /\ lu' = lu /\ refs' = refs /\ damaged' = damaged
          /\ op' = Idle \/ op' = c
      BY <2>1 DEF StartCall, Proceed
    <2>3. \A x \in Objs : NextFile(x) = File(x)
      BY <2>2, SameLu, AllSame
    <2>4. op.kind = "none" /\ op.obj = NoObj
      BY <2>2 DEF TypeOK, IdleOp
    <2>5. CASE op' = Idle
      <3>1. op'.kind = "none" /\ op'.obj = NoObj
        BY <2>5 DEF Idle
      <3> QED BY <2>3, <2>4, <3>1, Nothing
    <2>6. CASE op' = c
      BY <2>1, <2>3, <2>4, <2>6, BeginsGc
    <2> QED BY <2>2, <2>5, <2>6
  <1>7. ASSUME NEW max \in 0 .. QuickMax, NEW b \in Blocks, GcQuick(max, b) PROVE StoreStep
    <2>1. max = 0
      OBVIOUS
    <2>2. EraseEmpty(b)
      BY <1>7, <2>1, QuickEraseEffect DEF GcQuick
    <2>3. \A x \in Objs : NextFile(x) = File(x)
      BY <1>7, <2>2, EraseNoData, AllSame DEF GcQuick
    <2> QED BY <1>7, <2>3, Nothing DEF GcQuick
  <1>8. CASE Remount
    <2>1. \A x \in Objs : NextFile(x) = File(x)
      BY <1>8, SameLu, AllSame DEF Remount
    <2> QED BY <1>8, <2>1, Nothing DEF Remount
  <1>9. ASSUME NEW o \in Objs, Remove(o) PROVE StoreStep
    <2>1. /\ \A p \in Pages : lu'[p] = IF p \in TruncatedPages(refs[o]) \cup IndexPages(o)
                                       THEN DeletedEntry ELSE lu[p]
          /\ refs' = [refs EXCEPT ![o] = NoRefs] /\ damaged' = DamagedByRemoving(o)
          /\ pc = "idle" /\ op' = op /\ Exists(o)
      BY <1>9 DEF Remove, DeletePages
    <2>2. /\ DeletedEntry.kind = "dele" /\ \A x : IndexEntry(x).kind = "index" /\ IndexEntry(x).obj = x
          /\ \A p \in TruncatedPages(refs[o]) : lu[p].kind = "data"
      BY DEF DeletedEntry, IndexEntry, TruncatedPages, Passes
    <2>3. ~NextExists(o)
      BY <2>1, <2>2 DEF NextExists, IndexPages
    <2>4. ASSUME NEW x, x # o PROVE NextExists(x) <=> Exists(x)
      BY <2>1, <2>2, <2>4 DEF NextExists, Exists, IndexPages
    <2> QED BY <2>1, <2>3, <2>4, RemovedStore
  <1>10. ASSUME NEW o \in Objs, RemoveStops(o) PROVE StoreStep
    <2>1. /\ \A p \in Pages : lu'[p] = IF p \in TruncatedPages(refs[o]) THEN DeletedEntry
                                       ELSE IF p \in IndexPages(o) THEN CondemnedEntry(o) ELSE lu[p]
          /\ refs' = [refs EXCEPT ![o] = NoRefs] /\ damaged' = DamagedByRemoving(o)
          /\ pc = "idle" /\ Exists(o) /\ Refused(refs[o]) # {}
          /\ op' = Call("remove", o, 0, TRUE, 0, 0, {})
      BY <1>10 DEF RemoveStops
    <2>2. op'.kind = "remove" /\ op'.obj = o
      BY <2>1 DEF Call, Idle
    <2>3. /\ DeletedEntry.kind = "dele"
          /\ \A x : IndexEntry(x).kind = "index" /\ IndexEntry(x).obj = x /\ IndexEntry(x).span = 0
          /\ CondemnedEntry(o).kind = "index" /\ CondemnedEntry(o).obj = o /\ CondemnedEntry(o).span = 1
          /\ \A p \in TruncatedPages(refs[o]) : lu[p].kind = "data"
      BY DEF DeletedEntry, IndexEntry, CondemnedEntry, TruncatedPages, Passes
    <2>4. ~NextExists(o)
      BY <2>1, <2>3 DEF NextExists, IndexPages
    <2>5. ASSUME NEW x, x # o PROVE NextExists(x) <=> Exists(x)
      BY <2>1, <2>3, <2>5 DEF NextExists, Exists, IndexPages
    <2> QED BY <2>1, <2>2, <2>4, <2>5, RemovedStore
  <1> QED BY <1>1, <1>2, <1>3, <1>4, <1>5, <1>6, <1>7, <1>8, <1>9, <1>10 DEF CallNext

-----------------------------------------------------------------------------
(* The collector: it changes no file, but one whose index it fails to store *)

LEMMA CleanStore ==
  ASSUME FilesInv, CleanNext
  PROVE  StoreStep
  <1> USE DEF FilesInv, IInv
  <1>a. /\ gc.bix \in Blocks /\ gc \in Cleanings
        /\ \A e \in Entries : <<gc.bix, e>> \in Pages
    BY DEF TypeOK, Cleanings, Pages
  <1>1. CASE (\E b \in Blocks : PickCandidate(b)) \/ (\E e \in Entries : FindObjData(e)) \/ NoDataLeft
    <2>1. lu' = lu /\ refs' = refs /\ damaged' = damaged /\ op' = op
      BY <1>1 DEF PickCandidate, FindObjData, NoDataLeft
    <2>2. \A x \in Objs : NextFile(x) = File(x)
      BY <2>1, SameLu, AllSame
    <2> QED BY <2>1, <2>2, Nothing
  <1>2. ASSUME NEW e \in Entries, WipeOrphan(e) PROVE StoreStep
    <2>1. /\ op' = op /\ refs' = refs /\ damaged' = damaged
          /\ \A p \in Pages : lu'[p] = IF p \in {<<gc.bix, e>>} THEN DeletedEntry ELSE lu[p]
          /\ lu[<<gc.bix, e>>].kind = "data"
      BY <1>2 DEF WipeOrphan, DeletePages, FirstOf, DataLeft
    <2>2. \A x : NextExists(x) <=> Exists(x)
      BY <2>1, DeletedFiles
    <2>3. \A x \in Objs : NextFile(x) = File(x)
      BY <2>1, <2>2, AllSame
    <2> QED BY <2>1, <2>3, Nothing
  <1>3. ASSUME NEW e \in Entries, NEW dst \in Pages, MoveObjData(e, dst) PROVE StoreStep
    <2> DEFINE src == <<gc.bix, e>>
    <2>1. /\ op' = op /\ refs' = refs /\ damaged' = damaged
          /\ MovePage(src, dst) /\ lu[src].kind = "data" /\ src \in Pages
      BY <1>3, <1>a DEF MoveObjData, FirstOf, SameObjectLeft, DataLeft
    <2> HIDE DEF src
    <2>2. src \in UsedPages /\ Owned(lu[src]) /\ dst \in FreePages
      BY <2>1, UsedKinds DEF MovePage, NextFree, Owned
    <2>3. \A q \in Pages : lu'[q] = IF q = src THEN DeletedEntry ELSE IF q = dst THEN lu[src] ELSE lu[q]
      BY <2>1, <2>2, MoveSets DEF MovePage
    <2>4. \A x : NextExists(x) <=> Exists(x)
      <3>1. /\ DeletedEntry.kind = "dele" /\ \A x : IndexEntry(x).kind = "index"
            /\ lu[dst].kind = "free"
        BY <2>2 DEF DeletedEntry, IndexEntry, FreePages, FreeEntry
      <3> QED BY <2>1, <2>3, <3>1 DEF NextExists, Exists
    <2>5. \A x \in Objs : NextFile(x) = File(x)
      BY <2>1, <2>4, AllSame
    <2> QED BY <2>1, <2>5, Nothing
  <1>4. ASSUME NEW e \in Entries, NEW dst \in Pages, MoveObjIx(e, dst) PROVE StoreStep
    <2> DEFINE src == <<gc.bix, e>>
               o == lu[src].obj
    <2>1. /\ op' = op /\ refs' = refs /\ damaged' = damaged
          /\ MovePage(src, dst) /\ lu[src].kind = "index"
      BY <1>4 DEF MoveObjIx, FirstOf, IndexLeft
    <2>2. o \in Objs /\ src \in IndexPages(o)
      BY <1>a, <2>1, EntryKinds DEF TypeOK, IndexPages
    <2> HIDE DEF src, o
    <2>3. \A x : NextExists(x) <=> Exists(x)
      BY <2>1, <2>2, MovedIndex
    <2>4. \A x \in Objs : NextFile(x) = File(x)
      BY <2>1, <2>3, AllSame
    <2> QED BY <2>1, <2>4, Nothing
  <1>5. ASSUME NEW src \in Pages, NEW dst \in Pages, StoreObjIndex(src, dst) PROVE StoreStep
    <2> DEFINE o == gc.obj
    <2>1. /\ pc = "moveData" /\ op' = op /\ damaged' = damaged
          /\ refs' = [refs EXCEPT ![o] = gc.work]
          /\ MovePage(src, dst) /\ src \in IndexPages(o) /\ o \in Objs
      BY <1>5 DEF StoreObjIndex, TypeOK
    <2>2. refs'[o] = gc.work /\ \A x \in Objs : x # o => refs'[x] = refs[x]
      BY <2>1 DEF TypeOK
    <2>3. \A x : NextExists(x) <=> Exists(x)
      BY <2>1, MovedIndex
    <2>4. \A x \in Objs \ damaged : Named(refs'[x]) = Named(refs[x])
      BY <2>1, <2>2, SameSpans DEF GcSpans
    <2>5. \A x \in Objs : NextFile(x) = File(x)
      BY <2>1, <2>3, <2>4, SameFile
    <2> QED BY <2>1, <2>5, Nothing
  <1>6. CASE CleanFails
    <2>1. /\ pc \in {"moveData", "moveIx"} /\ Finish
          /\ lu' = lu /\ refs' = refs
          /\ damaged' = IF pc = "moveData" /\ gc.work # refs[gc.obj]
                        THEN damaged \cup {gc.obj} ELSE damaged
      BY <1>6 DEF CleanFails, Finish
    <2>2. op.kind # "none"
      BY <2>1 DEF TypeOK
    <2>3. CASE damaged' = damaged
      <3>1. \A x \in Objs : NextFile(x) = File(x)
        BY <2>1, <2>3, SameLu, AllSame
      <3> QED BY <2>1, <2>2, <3>1, JustReturns
    <2>4. CASE pc = "moveData" /\ damaged' = damaged \cup {gc.obj}
      <3>1. gc.obj \in Objs /\ Exists(gc.obj) /\ NextExists(gc.obj)
        BY <2>1, <2>4, SameLu DEF TypeOK, GcWorkSound
      <3>2. NextFile(gc.obj) = -2
        BY <2>4, <3>1 DEF NextFile
      <3>3. \A x \in Objs : x # gc.obj => NextFile(x) = File(x)
        BY <2>1, <2>4, SameLu, SameFile
      <3> QED BY <2>1, <2>2, <3>1, <3>2, <3>3, ReturnsHalfway
    <2> QED BY <2>1, <2>3, <2>4
  <1>7. CASE EraseCleaned
    <2>1. pc = "moveIx" /\ refs' = refs /\ damaged' = damaged
      BY <1>7 DEF EraseCleaned
    <2>2. \A x \in Objs : NextFile(x) = File(x)
      BY <1>7, <2>1, EraseCleanedEffect, EraseNoData, AllSame
    <2>3. op.kind # "none" /\ op \in Calls
      BY <2>1 DEF TypeOK
    <2>4. CASE Finish
      BY <2>2, <2>3, <2>4, JustReturns
    <2>5. CASE op'.kind = op.kind /\ op'.obj = op.obj
      BY <2>2, <2>5, Nothing
    <2>6. Finish \/ (op'.kind = op.kind /\ op'.obj = op.obj)
      BY <1>7, <2>3 DEF EraseCleaned, Proceed, Finish, Calls
    <2> QED BY <2>4, <2>5, <2>6
  <1> QED BY <1>1, <1>2, <1>3, <1>4, <1>5, <1>6, <1>7 DEF CleanNext

-----------------------------------------------------------------------------
(* The calls at work *)

\* Index pages stay what they are.
LEMMA DataOnly ==
  ASSUME \A q \in Pages : lu'[q] = lu[q] \/ (lu[q].kind # "index" /\ lu'[q].kind # "index")
  PROVE  \A x : NextExists(x) <=> Exists(x)
  <1>1. \A x : IndexEntry(x).kind = "index"
    BY DEF IndexEntry
  <1> QED BY <1>1 DEF NextExists, Exists

LEMMA GoesOn ==
  ASSUME refs' = refs, damaged' = damaged, op'.kind = op.kind, op'.obj = op.obj,
         \A q \in Pages : lu'[q] = lu[q] \/ (lu[q].kind # "index" /\ lu'[q].kind # "index")
  PROVE  StoreStep
  <1>1. \A x \in Objs : NextFile(x) = File(x)
    BY DataOnly, AllSame
  <1> QED BY <1>1, Nothing

LEMMA LosesStore ==
  ASSUME FilesInv, NEW junk, ModifyLosesPage(junk)
  PROVE  StoreStep
  <1> USE DEF FilesInv, IInv
  <1> DEFINE o == op.obj
  <1>1. /\ pc = "work" /\ op.kind = "modify" /\ op.at <= op.last
        /\ \A p \in Pages : lu'[p] = IF p \in {op.work[op.at]} THEN DeletedEntry ELSE lu[p]
        /\ refs' = refs /\ damaged' = damaged \cup {o}
    BY DEF ModifyLosesPage, DeletePages
  <1>2. /\ op'.kind = op.kind /\ op'.obj = o /\ o \in Objs /\ Exists(o)
        /\ lu[op.work[op.at]].kind = "data"
    BY <1>1, OldPage DEF ModifyLosesPage, TypeOK, Calls, OpExists, DataEntry
  <1>3. \A x : NextExists(x) <=> Exists(x)
    BY <1>1, <1>2, DataOnly DEF DeletedEntry
  <1>4. NextFile(o) = -2 /\ \A x \in Objs : x # o => NextFile(x) = File(x)
    <2>1. NextFile(o) = -2
      BY <1>1, <1>2, <1>3 DEF NextFile
    <2>2. ASSUME NEW x \in Objs, x # o PROVE NextFile(x) = File(x)
      BY <1>1, <1>3, <2>2, SameFile
    <2> QED BY <2>1, <2>2
  <1>5. Files' = [Files EXCEPT ![o] = -2]
    BY <1>4, FilesAre
  <1>6. Store!Loses(o)
    BY <1>1, <1>2, <1>5 DEF Store!Loses
  <1> QED BY <1>2, <1>6 DEF StoreStep, Store!Next

LEMMA CreateStore ==
  ASSUME FilesInv, NEW p \in Pages, CreateIndex(p)
  PROVE  StoreStep
  <1> USE DEF FilesInv, IInv
  <1> DEFINE o == op.obj
  <1>1. /\ pc = "work" /\ op.kind = "create" /\ o \in Objs /\ Finish
        /\ NextFree(p) /\ lu' = [lu EXCEPT ![p] = IndexEntry(o)]
        /\ refs' = [refs EXCEPT ![o] = NoRefs] /\ damaged' = damaged
    BY DEF CreateIndex, AllocatePage, TypeOK
  <1>2. lu[p] = FreeEntry /\ \A q \in Pages : lu'[q] = IF q = p THEN IndexEntry(o) ELSE lu[q]
    BY <1>1, TakenPage DEF TypeOK
  <1>3. FreeEntry.kind = "free" /\ \A x : IndexEntry(x).kind = "index" /\ IndexEntry(x).obj = x
    BY DEF FreeEntry, IndexEntry
  <1>4. refs'[o] = NoRefs /\ \A x \in Objs : x # o => refs'[x] = refs[x]
    BY <1>1 DEF TypeOK
  <1>5. ~Exists(o)
    BY <1>1, <1>3 DEF OpExists, IndexPages, Exists
  <1>6. o \notin damaged
    BY <1>5 DEF DamagedExist
  <1> HIDE DEF o
  <1>7. NextExists(o) /\ \A x : x # o => (NextExists(x) <=> Exists(x))
    BY <1>2, <1>3 DEF NextExists, Exists
  <1>8. NextFile(o) = 0
    <2>1. Named(refs'[o]) = {}
      BY <1>4 DEF Named, NoRefs
    <2> QED BY <1>1, <1>6, <1>7, <2>1, FS_EmptySet DEF NextFile, NextSize
  <1>9. ASSUME NEW x \in Objs, x # o PROVE NextFile(x) = File(x)
    BY <1>1, <1>4, <1>7, <1>9, SameFile
  <1> QED BY <1>1, <1>8, <1>9, ReturnsDone DEF o

\* The index page of the call is stored.
LEMMA StoredStore ==
  ASSUME FilesInv, pc = "store", Finish, damaged' = damaged,
         refs' = [refs EXCEPT ![op.obj] = op.work], \A x : NextExists(x) <=> Exists(x)
  PROVE  StoreStep
  <1> USE DEF FilesInv, IInv
  <1> DEFINE o == op.obj
             w == op.work
  <1>1. /\ op.kind \in {"append", "modify", "truncate", "rename", "remove"} /\ o \in Objs
        /\ op.at \in Nat
    BY DEF TypeOK, OpExists, Calls
  <1>2. refs'[o] = w /\ \A x \in Objs : x # o => refs'[x] = refs[x]
    BY <1>1 DEF TypeOK
  <1>3. ASSUME NEW x \in Objs, x # o PROVE NextFile(x) = File(x)
    BY <1>2, <1>3, SameFile
  <1>4. Exists(o) /\ o \notin damaged =>
          /\ File(o) = SizeOf(o) /\ File(o) \in 0 .. MaxData
          /\ NextFile(o) = Cardinality(Named(w)) /\ NextFile(o) \in 0 .. MaxData
    BY <1>2, SameSpans, NamedSize DEF File, NextFile, NextSize
  <1>5. CASE op.kind = "remove"
    <2>1. NextFile(o) = -1 /\ File(o) = -1
      BY <1>5 DEF OpExists, NextFile, File
    <2> QED BY <1>3, <1>5, <2>1, JustReturns
  <1>6. CASE op.kind = "append"
    <2>1. /\ Exists(o) /\ o \notin damaged
          /\ op.at >= SizeOf(o) /\ Named(w) = 0 .. (op.at - 1)
      BY <1>6 DEF OpExists, WorkSpans, Working
    <2>2. Named(w) = 0 .. (Cardinality(Named(w)) - 1)
      BY <2>1, WorkGapless
    <2>3. Cardinality(Named(w)) = op.at
      <3>1. op.at - 1 \in Int
        BY <1>1
      <3>2. Cardinality(0 .. (op.at - 1)) = IF 0 > op.at - 1 THEN 0 ELSE (op.at - 1) - 0 + 1
        BY <3>1, FS_Interval
      <3> QED BY <1>1, <2>1, <3>2
    <2> QED BY <1>1, <1>3, <1>4, <1>6, <2>1, <2>3, ReturnsDone
  <1>7. CASE op.kind = "truncate"
    <2>1. Exists(o) /\ o \notin damaged /\ w = NoRefs
      BY <1>7 DEF OpExists, WorkSpans
    <2>2. Named(w) = {}
      BY <2>1 DEF Named, NoRefs
    <2> QED BY <1>1, <1>3, <1>4, <1>7, <2>1, <2>2, FS_EmptySet, ReturnsDone
  <1>8. CASE op.kind \in {"modify", "rename"}
    <2>1. Exists(o)
      BY <1>8 DEF OpExists
    <2>2. o \notin damaged => Named(w) = Named(refs[o])
      BY <1>8, SameSpans DEF WorkSpans, Working
    <2>3. NextFile(o) = File(o)
      BY <1>2, <2>1, <2>2, SameFile
    <2> QED BY <1>1, <1>3, <1>8, <2>3, ReturnsDone
  <1> QED BY <1>1, <1>5, <1>6, <1>7, <1>8

LEMMA WorkStore ==
  ASSUME FilesInv, WorkNext
  PROVE  StoreStep
  <1> USE DEF FilesInv, IInv
  <1>a. op \in Calls /\ (pc # "idle" => op.kind # "none")
    BY DEF TypeOK
  <1>1. ASSUME NEW b \in Blocks, QuickInFindFree(b) PROVE StoreStep
    <2>1. EraseEmpty(b)
      BY <1>1, QuickEraseEffect DEF QuickInFindFree
    <2>2. /\ op'.kind = op.kind /\ op'.obj = op.obj /\ refs' = refs /\ damaged' = damaged
      BY <1>1, <1>a DEF QuickInFindFree, Calls
    <2>3. \A x \in Objs : NextFile(x) = File(x)
      BY <2>1, <2>2, EraseNoData, AllSame
    <2> QED BY <2>2, <2>3, Nothing
  <1>2. CASE CreateFails \/ StoreFails
    <2>1. /\ pc \in {"work", "store"} /\ Finish /\ lu' = lu /\ refs' = refs
          /\ damaged' = damaged \/ (StoreFails /\ damaged' = damaged \cup {op.obj} /\ op.work # refs[op.obj])
      BY <1>2 DEF CreateFails, StoreFails
    <2>2. CASE damaged' = damaged
      <3>1. \A x \in Objs : NextFile(x) = File(x)
        BY <2>1, <2>2, SameLu, AllSame
      <3> QED BY <1>a, <2>1, <3>1, JustReturns
    <2>3. CASE StoreFails /\ damaged' = damaged \cup {op.obj} /\ op.work # refs[op.obj]
      <3>1. pc = "store" /\ op.obj \in Objs
        BY <2>3 DEF StoreFails, TypeOK
      <3>2. op.kind \in {"append", "modify", "truncate", "rename", "remove"}
        BY <3>1 DEF TypeOK, Calls, OpExists
      <3>3. Exists(op.obj)
        BY <2>3, <3>1, <3>2 DEF OpExists, NoIndexNoRefs
      <3>4. NextFile(op.obj) = -2
        BY <2>1, <2>3, <3>3, SameLu DEF NextFile
      <3>5. ASSUME NEW x \in Objs, x # op.obj PROVE NextFile(x) = File(x)
        BY <2>1, <2>3, <3>5, SameLu, SameFile
      <3> QED BY <1>a, <2>1, <3>1, <3>3, <3>4, <3>5, ReturnsHalfway
    <2> QED BY <2>1, <2>2, <2>3
  <1>3. CASE LeaveLoop \/ LoopDone
    <2>1. /\ lu' = lu /\ refs' = refs /\ damaged' = damaged
          /\ op'.kind = op.kind /\ op'.obj = op.obj
      BY <1>3, <1>a DEF LeaveLoop, LoopDone, Calls
    <2> QED BY <2>1, GoesOn
  <1>4. ASSUME NEW p \in Pages, AppendPage(p) PROVE StoreStep
    <2>1. /\ refs' = refs /\ damaged' = damaged /\ op'.kind = op.kind /\ op'.obj = op.obj
          /\ NextFree(p) /\ lu' = [lu EXCEPT ![p] = DataEntry(op.obj, op.at)]
      BY <1>4, <1>a DEF AppendPage, AllocatePage, Calls
    <2>2. lu[p].kind = "free"
      BY <2>1, TakenPage
    <2>3. \A q \in Pages : lu'[q] = lu[q] \/ (lu[q].kind # "index" /\ lu'[q].kind # "index")
      BY <2>1, <2>2 DEF DataEntry, TypeOK
    <2> QED BY <2>1, <2>3, GoesOn
  <1>5. ASSUME NEW p \in Pages, ModifyPage(p) PROVE StoreStep
    <2> DEFINE old == op.work[op.at]
    <2>1. /\ refs' = refs /\ damaged' = damaged /\ op'.kind = op.kind /\ op'.obj = op.obj
          /\ NextFree(p) /\ lu' = [lu EXCEPT ![p] = DataEntry(op.obj, op.at), ![old] = DeletedEntry]
          /\ pc = "work" /\ op.kind = "modify" /\ op.at <= op.last
      BY <1>5, <1>a DEF ModifyPage, Calls
    <2>2. lu[p].kind = "free" /\ lu[old].kind = "data"
      BY <2>1, TakenPage, OldPage DEF DataEntry
    <2> HIDE DEF old
    <2>3. /\ DeletedEntry.kind = "dele" /\ DataEntry(op.obj, op.at).kind = "data"
      BY DEF DeletedEntry, DataEntry
    <2>4. \A q \in Pages : lu'[q] = lu[q] \/ (lu[q].kind # "index" /\ lu'[q].kind # "index")
      BY <2>1, <2>2, <2>3 DEF TypeOK
    <2> QED BY <2>1, <2>4, GoesOn
  <1>6. CASE TruncateData
    <2>1. /\ refs' = refs /\ damaged' = damaged /\ op'.kind = op.kind /\ op'.obj = op.obj
          /\ \A p \in Pages : lu'[p] = IF p \in TruncatedPages(op.work) THEN DeletedEntry ELSE lu[p]
      BY <1>6, <1>a DEF TruncateData, DeletePages, Calls
    <2>2. \A p \in TruncatedPages(op.work) : lu[p].kind = "data"
      BY DEF TruncatedPages, Passes
    <2>3. \A q \in Pages : lu'[q] = lu[q] \/ (lu[q].kind # "index" /\ lu'[q].kind # "index")
      BY <2>1, <2>2 DEF DeletedEntry
    <2> QED BY <2>1, <2>3, GoesOn
  <1>7. CASE StoreFresh
    <2>1. /\ pc = "store" /\ Finish /\ lu' = lu /\ damaged' = damaged
          /\ refs' = [refs EXCEPT ![op.obj] = op.work]
      BY <1>7 DEF StoreFresh
    <2> QED BY <2>1, SameLu, StoredStore
  <1>8. ASSUME NEW src \in Pages, NEW dst \in Pages, StoreIndex(src, dst) PROVE StoreStep
    <2>1. /\ pc = "store" /\ Finish /\ damaged' = damaged
          /\ refs' = [refs EXCEPT ![op.obj] = op.work]
          /\ src \in IndexPages(op.obj) /\ MovePage(src, dst)
      BY <1>8 DEF StoreIndex
    <2>2. op.obj \in Objs
      BY <2>1 DEF OpExists, TypeOK
    <2>3. \A x : NextExists(x) <=> Exists(x)
      BY <2>1, <2>2, MoveNoData
    <2> QED BY <2>1, <2>3, StoredStore
  <1> QED BY <1>1, <1>2, <1>3, <1>4, <1>5, <1>6, <1>7, <1>8, CreateStore, LosesStore DEF WorkNext

-----------------------------------------------------------------------------
(* The theorem *)

LEMMA StoreInit == Init => Store!Init
  <1> SUFFICES ASSUME Init PROVE Store!Init
    OBVIOUS
  <1>1. \A o : ~Exists(o)
    BY DEF Init, Exists, FreeEntry, IndexEntry
  <1>2. Files = [o \in Objs |-> -1]
    BY <1>1 DEF Files
  <1> QED BY <1>2 DEF Init, Store!Init, Idle

LEMMA StoreSteps ==
  ASSUME QuickMax = 0
  PROVE  FilesInv /\ [Next]_vars => [Store!Next]_(Store!vars)
  <1>1. ASSUME FilesInv, Next PROVE StoreStep
    BY <1>1, CallStore, CleanStore, WorkStore DEF Next
  <1>2. ASSUME UNCHANGED vars PROVE StoreStep
    <2>1. lu' = lu /\ refs' = refs /\ damaged' = damaged /\ op' = op
      BY <1>2 DEF vars
    <2> QED BY <2>1, GoesOn
  <1> QED BY <1>1, <1>2 DEF StoreStep

\* Seen from the caller, the allocator and the collector are SpiffsStore: a file
\* changes by the call on it, and by no page the collector moves.
THEOREM Implements ==
  ASSUME QuickMax = 0
  PROVE  Spec => StoreSpec
  <1>1. FilesInv /\ [Next]_vars => FilesInv'
    BY FilesStep
  <1>2. FilesInv /\ [Next]_vars => [Store!Next]_(Store!vars)
    BY StoreSteps
  <1> QED BY FilesInit, StoreInit, <1>1, <1>2, PTL DEF Spec, StoreSpec, Store!Spec
=============================================================================
