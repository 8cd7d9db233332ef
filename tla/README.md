# Verification of SPIFFS

TLA+ models of the SPIFFS flash file system in
`src/示例/IOTTS_EXample/SYSTEM/spiffs/` (below: `spiffs/`), as configured by
`spiffs_config.h` there, with TLC runs on small instances and TLAPS proofs for
all instances, down to the driver of the flash chip
(`HARDWARE/W25Q32/bsp_spi_flash.c`). The rest of the repository (board support and
vendor libraries, a demo application, build products of an ESP-IDF example) only
surrounds it.

## 1. The system

SPIFFS keeps files on NOR flash, where programming turns ones into zeroes and
only erasing a whole block turns them back. It runs in its caller's thread:
`SPIFFS_LOCK` and `SPIFFS_UNLOCK` are empty in this configuration, and there are no
callbacks into it. What is hard is not concurrency but long sequences of legal
calls, the collector running in the middle of them, several descriptors on one
file, and power loss.

| Component | Source | State | Operations | What makes it correct |
|---|---|---|---|---|
| Page allocator and object lookup | `spiffs_nucleus.c`, `.h` | lookup tables, page headers and index pages in flash; `free_blocks`, `stats_p_allocated`, `stats_p_deleted`, free cursor in RAM | create, append, modify, truncate, update of the index header, page allocate / move / delete, erase, scan at mount | counters agree with flash; used entries before free ones; one index per file; the index names the data pages of the file and no others |
| Garbage collector | `spiffs_gc.c` | locals of `spiffs_gc_check`, `spiffs_gc_clean`; the allocator's state | check for room, choose a block, evacuate, erase; quick erase | erases no page in use; changes no file; returns |
| Public API | `spiffs_hydrogen.c`, `spiffs.h` | mount state, error code | open, creat, read, write, lseek, remove, rename, stat, flush, close, directories, gc, info | each call does to a file what `spiffs.h` says and nothing to others |
| Descriptors and write cache | `spiffs_nucleus.c`, `spiffs_hydrogen.c`, `spiffs_cache.c` | `spiffs_fd` table with scores (temporal cache), one dirty cache page per descriptor | find, return, object event; write through or into the cache page, flush | descriptors follow their file; cached data is neither lost nor written after it is void |
| Page cache | `spiffs_cache.c` | cache pages, last access | read, write through, drop | what is read is what is in flash |
| Power loss and mount | `spiffs_nucleus.c`, `spiffs_hydrogen.c` | flash alone | any flash write may be the last one; mount scans | no file that was not being written is lost |
| Erase counters | `spiffs_nucleus.c`, `spiffs_gc.c` | a 16-bit counter per block, the largest one | erase, scan, age of a block | ages survive the wrap |
| Object ids | `spiffs_nucleus.c` | bitmap in the work buffer | find a free id | the id is free; one is found if there is one |
| Index map | `spiffs_nucleus.c`, `spiffs_hydrogen.c` | map per descriptor | populate, update, remap | entries are those of the index |
| Consistency checker | `spiffs_check.c` | flash, work buffers | lookup, page, index consistency | after it, every other invariant holds |
| Flash driver | `HARDWARE/W25Q32/bsp_spi_flash.c` | none of its own; the chip is busy or ready, enabled for writing or not | read, write of any length and alignment, erase of sectors | flash changes where it was asked to and nowhere else; no command is sent to a chip that does not hear it |
| Demo, board, ESP-IDF example | `USER/`, `Soft/`, `SYSTEM/`, `CMSIS/`, `src/spiffs/` | - | - | not part of the file system |

How they interact: an API call finds a descriptor, may flush cache pages, and
calls the nucleus; the writing functions of the nucleus first call
`spiffs_gc_check` (rename and remove do not), which may run the collector up to
`SPIFFS_GC_MAX_RUNS` times; every step of theirs that moves an index page sends an
object event to the descriptors; all flash access goes through the page cache.
The collector moves pages of files that have nothing to do with the call, with
the same work buffers. The nucleus reaches flash through three functions that
the port provides (`SPIFFS_HAL_READ`, `SPIFFS_HAL_WRITE`, `SPIFFS_HAL_ERASE`, `spiffs_nucleus.h:364-382`),
which here are `SPI_Flash_Read`, `SPI_Flash_Write` and `SPI_Flash_Erase`.

The hazards this leaves, each with its line and the properties that would catch
it, are listed in `PROJECT.json` ("hazards").

## 2. Modules

| Module | What it is |
|---|---|
| `SpiffsLookup` | The allocator, the collector and the writing calls, at the level of the object lookup; its properties |
| `SpiffsStore` | What the writing calls promise of the files: no pages, no blocks, no collector |
| `SpiffsLookupInv` | The inductive invariants of `SpiffsLookup`: `IInv` for flash, `FilesInv` for the files on top of it |
| `SpiffsLookupSafety` | `TypeOK`, `FreeBlocksCovered`, `IInv` and `FilesInv` are invariants, what follows from them, and `SpiffsLookup` implements `SpiffsStore` |
| `MCSpiffsLookup` | Instances of `SpiffsLookup` for TLC |
| `SpiffsFiles` | Descriptors and the write cache: every call on a descriptor; its properties |
| `SpiffsBytes` | What those calls promise of the bytes of a file: no cache pages, no events |
| `SpiffsFilesProofs` | The invariants of `SpiffsFiles`, and that it implements `SpiffsBytes`, proved |
| `MCSpiffsFiles` | Instances of `SpiffsFiles` for TLC |
| `SpiffsFlash` | Pages with their headers, references and data, one driver write at a time: every writing call and the collector, with index pages beyond the header |
| `SpiffsFlashInv` | The inductive invariants of `SpiffsFlash`: `FlashSound` for what is stored, `Watched` for the header between two writes, `FlashIInv` for all of it |
| `SpiffsFlashWrites` | What the writes of the nucleus functions do to pages and files, proved |
| `SpiffsFlashProofs` | `FlashIInv` is an invariant, and with it every safety property of `SpiffsFlash` |
| `SpiffsPowerLoss` | Power loss between any two of those writes, mount, and `SPIFFS_check`; extends `SpiffsFlash` |
| `MCSpiffsFlash`, `MCSpiffsPowerLoss` | Instances of the two for TLC |
| `SpiffsCache` | The page cache between the nucleus and flash |
| `SpiffsCacheProofs` | Its invariants, proved |
| `MCSpiffsCache` | Its instance for TLC |
| `SpiffsObjectId` | The search for a free object id |
| `SpiffsObjectIdProofs` | Its invariants and the refusal of a name that exists, proved |
| `SpiffsEraseCount` | Erase counts, mount, ages and the choice of the block to collect |
| `SpiffsEraseCountProofs` | Its invariants, proved |
| `NorFlash` | What `spiffs.h` asks of a flash driver |
| `SpiFlash` | The driver of the repository with the chip under it; it implements `NorFlash` |
| `SpiFlashProofs` | The invariants of `SpiFlash`, and that it implements `NorFlash`, proved |

`SpiffsLookup` and `SpiffsFiles` are two views of one program. The first has
the pages of a file and no descriptors or cache, the second has descriptors and
cache and takes the nucleus functions at their result: the data of the file,
the size field, the object event, and the ways they fail. What the first shows of
the nucleus (a call that returns has stored what it was given) is what the second
assumes. `SpiffsFlash` is a third view, of what is in the pages: it takes for granted that a call has
room (which `SpiffsLookup` is about) and has no descriptors, but shows each write, so that
`SpiffsPowerLoss` can stop between any two. `SpiffsCache` stands between the nucleus and
flash; where it is transparent (its run shows where) the other modules do without it.
`SpiFlash` shows that what all of them take for one write of flash is one.

### SpiffsLookup

State: `lu`, the object lookups (what each page is and whose; the span index in
the page header is kept with the entry); `refs`, the references in each index
page; the three counters and the free cursor of `spiffs_t`; and the locals of the
call that runs (`op`), of the collector (`gc`), with `pc` saying where the call
stands: `idle`; in the collector `pick` (head of the loop of `spiffs_gc_check`), `find`,
`moveData`, `moveIx` (the states of `spiffs_gc_clean`); `work` (the loop of the
nucleus function), `store` (the index page is to be written).

A call is one transaction of several steps: it begins (`Create`, `Append`,
`Modify`, `Truncate`, `Rename`, `Remove`, `RemoveStops`, `Gc`, `GcQuick`,
`Remount`), passes `spiffs_gc_check` (`StartCall`), which may run the collector
(`PickCandidate` ... `EraseCleaned`, `CleanFails`), and then does its work
(`CreateIndex`, `AppendPage`, `ModifyPage`, ... `StoreIndex`). One step of the
model is one page taken, moved or deleted, with everything the code does to the
counters, the cursor and the memory copy of the index on the way. Nothing but
the collector itself can interleave with a call, since nothing does in the code.

The error paths are in: no room at the head or the tail of `spiffs_gc_check`, no
free page in the collector (`CleanFails`), in an allocation (`CreateFails`,
`LeaveLoop`, `ModifyLosesPage`) or for the index page (`StoreFails`). A file whose
index and data these errors leave apart is in the history variable `damaged`; only
removal and collection go on working on it, as nothing is promised of its data.
The value of `data_pix` that `spiffs_object_modify` uses when the very first
allocation fails is uninitialized in C: any page, none, or an invalid number.

Abstracted:

- Data: page contents are not modelled, nor lengths below a page; a write is a
  number of pages, with the alignment that decides which pages are written in
  part and whether `spiffs_gc_check` is asked for a whole number of pages.
- Every file is small enough for its index header page to hold all references
  (a few dozen pages in the repository's configuration). Index pages of higher
  span index are in `SpiffsFlash`.
- Truncation only to nothing: no call of the API asks for another length.
- A candidate of the collector when flash is not crammed: any block, since the age
  term of the score (weight 50) can outweigh the others. When it is crammed the score
  is computed and the first block with the best score wins, as in the code.
- Descriptors and caches: the references and the size a call starts from are
  those in flash.
- Power loss: mount follows a clean unmount here; see `SpiffsPowerLoss`.

### SpiffsStore

For every file: no such file, a number of pages, or damaged. A call begins, and
when it returns its own file has changed as it should, or nothing has, or (on
an error half way) one file is damaged. `SpiffsLookup` implements it under the
mapping `Files` of its properties section: this says in one formula that a
collection changes no file, that a call changes no file but its own and only when
it returns, and which failures can damage what.

### SpiffsFiles

State: `files`, what flash holds of each file (its data, the size field of its index
header, whether it exists); `fds`, the descriptor table (`spiffs_fd`), with the
file, its size as the descriptor knows it, the position, the flags, the cache page;
`hdr`, whether the descriptor's index header page is the one the file has;
`used`, whether its score is above 0; `pages`, the cache pages in use as write
caches; `got`, what the last call read.

Every call runs to its end before the next begins, so one call is one step: it
takes the whole state through the functions it calls, in their order
(`Associate`, `WriteBack`, `HydroWrite`, `Modified`, `Appended`, `Event`, `Release`,
...), each of which yields the states it may leave. What interleaves are calls
through different descriptors. The actions are `Creat`, `Open` (by name, entry or page,
with the flags append, direct and trunc), `OpenFails`, `Write`, `Read`, `Seek`, `Flush`
(also `SPIFFS_tell`, `SPIFFS_eof`, `SPIFFS_fstat`), `Close`, `FRemove`, `Remove`, `Rename`, `Gc` (the
collector moves an index header), `Remount` and `PowerLoss`. A call that only
returns an error leaves everything as it is, and is no step.

Writing to flash fails as `Failures` says: `room` (refused by `spiffs_gc_check`), `page` (no page
for some of the data), `first` (none for any data of an empty file, whose header is
then rewritten with size 0), `index` (none for the index page).

Some uses of the calls go wrong on their own, and would hide everything else. They are
in the model, and `Uses` says which of them an instance has; without one, a guard named
for it keeps callers away from it:

| `Uses` | What callers then do | What goes wrong |
|---|---|---|
| `direct` | open a file with `SPIFFS_O_DIRECT` while it is open without | the descriptor is closed with a cache page that it does not own |
| `trunc` | open with `SPIFFS_O_TRUNC` while data is cached | the data is in the file afterwards |
| `rename` | rename while data is cached | positions are cut back |
| `stray` | write through a descriptor a failed flush left beyond the end | the data can never be stored |
| `entry` | open by entry or page in a descriptor with score 0 | object events pass it by: `HeadersFresh` is violated in the instance of `files_two` |
| `glance` | read through a descriptor that knows of no data while another's is cached | the read finds nothing |

Abstracted:

- A file is a short sequence of values; its pages and index are those of
  `SpiffsLookup`. A cache page holds `PageSize` values.
- Names, and with them hashes: an object stands for its name, and a descriptor found by
  name may be any closed one, as a hash may match. Of scores only zero or not.
- Permissions: a descriptor that may not read or write makes fewer calls.
- The read cache, which is `SpiffsCache`. A cache page that was last used for reading counts as
  free, but `spiffs_cache_page_allocate` may find one page less than there are.
- Positions of descriptors opened with `SPIFFS_O_APPEND`: after two cached writes
  `SPIFFS_write` leaves the size in flash plus the length of the second, which is not
  "position in file" (`spiffs.h:686`). They do not read here, and their positions are
  not in `SpiffsBytes`.
- Power is lost between calls only; within calls is the business of `SpiffsPowerLoss`.
- The index map (`spiffs_ix_map`).

### SpiffsBytes

For every file: whether it exists, the data a read gives, and the data that survives
power loss; for every handle its file and position. A write changes the data of its
file at its position, and no other file; reads, seeks, flushes and closes may bring
what is cached to flash; power loss takes the file back to what was there; removal closes
all handles. When writing to flash can fail (`MayFail`), a call that brings data to flash
may lose what was cached, value by value and from the end, but never what was
flushed (`MixOf`), and a handle may then be beyond the end of its file (`Lost`).

`SpiffsFiles` implements it under `ByteFiles`, where the data of a file is what flash
holds with the cache page of the file on top, and `ByteHandles`.

### SpiffsFlash

State: `flash`, for each page its lookup entry, its header (id, span index, flags, size) and its
contents, data or references; `cursor`; `todo`, the writes the running call has decided on and
not made yet; `job`, its locals. A flag is in the set when its bit is cleared, and a write ends in
the AND of old and new (`MeetPage`): a field written twice with different values is
`Garbled`. The AND of two page numbers is taken for no valid page.

A call begins (`Create`, `BeginAppend`, `BeginModify`, `BeginTruncate`, `BeginGc`) and goes on by
steps that are the branches of the loops in `spiffs_object_append`, `spiffs_object_modify`,
`spiffs_object_truncate` and `spiffs_gc_clean`: load an index page, handle a data page, store
the index page. Each step puts the driver writes of the functions it calls (`Delete`,
`Allocate`, `Move`, `MoveRaw`) into `todo`, and `Write` makes them one at a time.

Abstracted:

- A page holds `U` units of data; a call writes its own number to all units, so old data, new
  data and the data of any other call are told apart.
- That there is room is decided when a call begins (`Reserve`); calls that run out of pages are
  in `SpiffsLookup`. A new file gets an id that no lookup entry has (`SpiffsObjectId`).
- A driver write is atomic; its bytes are not torn.
- Searches (`Found`, `Headers`) may find any page that matches; the code finds the first
  from where it starts, which depends on cursors that do not matter otherwise.
- The erase of a block is two steps, lookup and pages, in the order of their addresses.
  The erase count is in `SpiffsEraseCount`.
- The page cache: transparent (`SpiffsCache`) but for the one step that says so.
- Truncation that finds a page which is no data of the file: never here, see
  `RemoveStops` in `SpiffsLookup`.

### SpiffsPowerLoss

Power is lost between any two writes: `todo` and `job` are gone, flash stays. With
`SPIFFS_USE_MAGIC = 0` mount writes nothing. `SPIFFS_check` is three passes, each with its repairs
written one by one: `CheckLookup` (`spiffs_lookup_check_validate`), `CheckIndex`
(`spiffs_object_index_consistency_check_v`), `CheckRefs` and `CheckUnreferenced`
(`spiffs_page_consistency_check_i`, which starts again after each repair). The application
checks before it makes other calls. History: `want`, what a reader may get of each file; `torn`, the
files in the middle of something when power went; `spoiled`, the files the check cannot be
trusted with: those with two index pages of one span, and those being emptied.

Abstracted:

- At most one power loss (`MaxLosses = 1` in the runs). A second one, in `spiffs_rewrite_index` while
  the check writes a new index page, leaves a written page free in the lookup, which is handed
  out again: with `MaxLosses = 2`, `NamesAgree` is violated.
- Repairs no state here asks for are left out (a reference to a lookup page, two names on one page); the error paths of `spiffs_rewrite_index` too.
  If one were needed, the check would be stuck and `CheckEnds` violated.
- The reference bitmap covers the whole flash: one range in the page check.

What a power loss does to the file that was being written, as the model shows and no property
says:

- A first append broken off before its header is written, then a check and a second append:
  the file cannot be read, as references beyond the size stay and the check looks at no size.
- A truncation to nothing broken off: the check gives the file up.
- `SPIFFS_remove` returns success though the truncation under it has stopped half way.

### SpiffsCache

State: `flash`, a page as the set of its bits that are 0; `slots`, the cache pages, each free, a copy
of a page, or the data of a file that is written; `now`, the clock `last_access`, that goes
round. Actions: `ReadHit`, `ReadMiss`, `ReadPast` (`spiffs_phys_rd`), `WriteKnown`, `WriteBlind`,
`WriteDeletes` (`spiffs_phys_wr`), `EraseBlock` with the pages dropped after it, `AllocateByFd`,
`FdRelease`, `Remount`.

Writing to a copy replaces the bytes (memcpy), writing to flash ANDs them. The two come to
the same if the writer knows what was there. Blind writes ("all bits set to 1 and only those
it needs reset set to 0", `spiffs_config.h:329-335`) are those of `spiffs_delete_obj_lazy`
and of the check; pages that are deleted blindly are dropped at once. The guard `p \notin Lookup` keeps blind
writes to page headers.

- The page cache ends up with copies of pages read for their headers, through arguments in the wrong order
  (`spiffs_nucleus.c:511`); a blind write then spoils the copy until it goes.
- The comment "this will never happen" (`spiffs_cache.c:172`) is wrong when every cache page holds
  data of a file: `Room` is then empty and the read goes past the cache. The demo has four
  cache pages and two descriptors.

### SpiffsObjectId

State: `files`, the ids with an index header; `removing`, those whose header is marked by a removal that
did not end; `orphans`, ids with pages and no header; `search`, the state and the counts of
`spiffs_obj_lu_find_free_obj_id`; `answer`. Actions: `Create` begins a search,
`CountGroups`, `SelectGroup` and `ScanBits` are the scans, `Take` and `GiveUp` what the caller does with the answer; `Remove`, `RemoveStops`,
`RemoveLeaves` and `Check` change which ids are in use between searches.

The bitmap sees every lookup entry, the groups only headers: an id with orphan pages can be
given out from an empty group, the count of groups is in the buffer, and "full" is true,
only while there are no orphans, which is what the properties say. A header marked for
removal conflicts by its name in the scan by groups and not in that of the bitmap. The demo
has 16256 ids and a buffer of 256 bytes: one scan by groups of 63, then a bitmap. A second scan by groups cannot happen
with ids of 16 bits: `GroupAssumption` says that a group has no more ids than a byte counts and the bitmap has bits. With
ids of 15 bits and pages of at least 128 bytes it has at most 255 (which answers the "todo what if compaction
is > 255" of `spiffs_nucleus.c:2212`).

### SpiffsEraseCount

State: `count`, the erase count in each block (or `Free`, when it was never written); `max`,
`fs->max_erase_count`; `since`, `passed`, `losses` for the properties. `EraseByAge` is a
collection with the age in the score, whatever pages the blocks have (`gain`); `EraseAny`, one without (crammed, or quick); `Remount` computes `max` from the
counts; `LoseCount` is a power loss between the erase of a block and the write of its count.

The counter goes round at `Flag` (0x8000, `spiffs_nucleus.c:258-261`), ages are computed modulo
2 * `Flag` - 1, and mount looks for a wrap by a difference above `Flag` - 1
(`spiffs_nucleus.c:398`), which counts below `Flag` cannot have. So there are no mounts at the
wrap in the run (`MountAtWrap = FALSE`); see "Other disagreements" in section 3 for what goes wrong with them. A block whose count was
lost has age `max`, so it is taken for one erased at the very beginning.

### NorFlash and SpiFlash

`NorFlash` is what `spiffs.h:84-100` asks: a write clears bits of the bytes it is given, an erase
sets those of its block, a read changes nothing, all within the call. `SpiFlash` has the
functions of the driver as the SPI commands they send (`todo`: write enable, page program,
sector erase, read, and the polls between them), and the chip: `mem`, the write enable latch,
how long it stays busy. The chip is external: it ignores commands while it is busy or not enabled, and a page
program wraps round at the end of its page. `Ready` is the chip's own step.

The polls of `SpiFlashCheckBusy` (0x4fff of them, each two bytes over SPI) are assumed to
outlast the chip: about 1.2 s at 72 MHz / 256, against 400 ms for a sector. What happens
when they do not is not looked at by the code (`spiffs` gets success). Lengths are below
2^16, as everything spiffs passes is. A write of whole pages from a page's start ends with a
program command of no bytes.

## 3. Runs

Ten runs pass, two show a violation. Most of them check one conjunction of
invariants whose parts have names and comments of their own in the module (`FilesInv`, `FlashIInv`, `CacheInv`,
`SearchInv`, `CountsInv`, `DriverInv`).

### SpiffsLookup

The runs of `SpiffsLookup` use three blocks. Constants: `B` blocks of `N` lookup entries;
`MaxData`, the pages a file may have; `MaxLen`, the pages of one write; `MaxGcLen`,
the pages asked of `SPIFFS_gc`; `QuickMax`, the largest argument of `SPIFFS_gc_quick`;
`MaxRuns`, `SPIFFS_GC_MAX_RUNS`; `MaxFree`, how far the collection of blocks that are free already may
push `free_blocks` (it is unbounded in the code, up to the word size): such a
block is not chosen once `free_blocks` is there.

Three blocks is the least the code accepts in earnest (two are its reserve), and
makes the cursor wrap into the block being cleaned within few steps, which is
where the collector is delicate; with three blocks the shortcut of
`spiffs_gc_check` (more than three free blocks) is only taken after `free_blocks` was
overcounted.

| Run | Instance | Question and result |
|---|---|---|
| `lookup_crammed` | `B=3 N=4`, one file of at most two pages, `MaxFree=5`, `MaxRuns=5` | Do counters, lookup, index and length of the file stay right through any sequence of calls, with flash full and crammed, and does every call return? Yes: `TypeOK`, `StatsExact`, `FreeBlocksCovered`, `FilesInv` (with it `FreeSuffix`, one index, sound references, no page missing from its index), `StoreSpec`, `CallReturns`; 151,166 states. |
| `lookup_two_files` | `B=3 N=5`, two files of at most one page, `MaxFree=4`, `MaxRuns=2`, symmetric files | Files that share blocks, allocations that fail: `RefsExact`, `NoLiveErase`, `StoreSpec` hold; 357,125 states. With whole-page writes and neither rename nor `SPIFFS_gc_quick` (`SharingSpec`), to keep two files within reach; `N=5` is the least that lets both have data at once. |

Together the two runs take every action of `SpiffsLookup`: `WipeOrphan`, `CleanFails`, `ModifyLosesPage` and
the quick erase inside an allocation in `lookup_crammed`; `CreateFails` and
`LeaveLoop` in `lookup_two_files`.

Properties (each has a mutant of the code that breaks it, next to the definition it
changes):

- `StatsExact`, `FreeBlocksCovered`: what the code believes of its room. The
  first is an equality, the second an inequality because the code itself breaks
  the equality: the condition on deleted pages is commented out in
  `spiffs_gc_find_candidate` (`spiffs_gc.c:297`), a block that is free may be chosen,
  and erasing it counts it again, whatever `spiffs.h:259` says ("current number of
  free blocks").
- `FreeSuffix`: no used or deleted entry follows a free one in a block. All scans
  of the collector stop at the first free entry, and the collector is right only
  because of it.
- `FilesInv`: the inductive invariant, `IInv` of flash and what it needs of the files.
- `RefsExact`: the index of a file.
- `NoLiveErase`: the collector erases nothing in use, although it can move pages
  within the block it erases: the cursor is moved to the next block once, at the
  start (`spiffs_gc.c:394`), and can wrap into the block again.
- `StoreSpec`: `SpiffsStore` is implemented.
- `CallReturns`: every call that begins returns.

Fairness: `WF_vars(CleanNext \/ WorkNext)`. The file system has no threads; a call
that has begun runs to its end unless power fails. No fairness is assumed of the
choice of candidates, of the calls, or of anything else.

### SpiffsFiles

Constants: `D` descriptors, `K` cache pages, `PageSize` values in a cache page,
files of at most `MaxSize` values of `Data`, writes of at most `MaxLen`.

| Run | Instance | Question and result |
|---|---|---|
| `files_one` | one file, `D=2 K=1 PageSize=2 MaxSize=3 MaxLen=2`, two values, failures `room` and `page` | Two descriptors on one file, of every kind, writes that fail: is every write seen by every later read, and does every descriptor know the length? Yes: `TypeOK`, `HandleSizes`, `PendingFits`, `StoreSpec`; 54,695 states. |
| `files_two` | two files, `D=2 K=2 PageSize=2 MaxSize=2 MaxLen=1`, one value, no failures, no append or direct (`PlainSpec`) | Files and descriptors that come and go: is cached data always the right file's, and written? Yes: `CacheOwned`, `PendingReachable`, `HeadersFresh`, `StoreSpec`; 25,856 states. |

Why the bounds are enough: what goes wrong in a write cache is between two
descriptors of a file, or two users of a descriptor or a cache page. A page of two
values and a file of three makes writes that begin within a page and end beyond it, that
fill it, and that are too long for it; two values tell old data from new; with
`K=1` a second file finds no page, with `K=2` it finds one that was another's.

Properties:

- `StoreSpec`: `SpiffsBytes` is implemented.
- `CacheOwned`, `PendingReachable`: a cache page belongs to one file, every open descriptor
  that has it is on this file, and one that will flush it exists.
- `HandleSizes`, `HeadersFresh`: descriptors follow what others do to their file.
- `PendingFits`: what is cached can be stored.
- `SizeStored`, `TruncEmpties`, `RenameKeepsPositions`: see "Other disagreements".

With failure `index` in the instance of `files_one`, `HandleSizes` is violated:
`spiffs_object_append` sets the size of the descriptor (`spiffs_nucleus.c:1397`) before it
stores the index page, and does not set it back when that fails.

### SpiffsFlash and SpiffsPowerLoss

| Run | Instance | Question and result |
|---|---|---|
| `flash_calls` | `B=3 N=5 U=2`, one file of up to seven units in four data pages, two references in another index page than the header's one, five calls | Write by write, do all calls leave a file as they should? Yes: `FlashIInv`, `ReadsBack`, `NothingLost`, `AlwaysThere`, `CallReturns`; 125,357 states. |
| `power_loss` | two files of up to four units, index pages of one reference each, four calls, one power loss | Which files does a power loss leave alone, what does the check save, and does it end? `PowerTypeOK`, `NamesAgree`, `Undisturbed`, `SavedByCheck`, `Consistent`, `CheckEnds` hold; 400,484 states. |
| `power_one_loss` | one file, create, append and modify, three calls, one power loss | Violated: one loss costs a file that existed, against "repeated powerlosses" (`spiffs.h:603`). |

Why the bounds are enough: what has to be told apart is header and other index pages, the first
page that is full and the one that is not, and a write within a page, to its end and beyond it.
One reference in the header and one or two in an index page make all these with few pages. Five
calls are enough to fill a file, change it, empty it, collect and fill it again. `Reserve`
is what the longest call can use. The calls are bounded, so the system stops (`CHECK_DEADLOCK FALSE`).

Properties: `ReadsBack`, what was written is read; `NothingLost`, no page leaks; `AlwaysThere`, an
old header goes after the new one is complete; `NoOverwrite` and `OneIndex` (in `FlashInv`), no
bits are cleared twice for different values and a search has one answer. `FlashIInv` adds the inductive
invariants (section 4), which TLC also finds to hold for two files that share blocks: with `B=3 N=4 U=1 IxLen=1 MaxSize=3 MaxWrite=2
Reserve=3` in 33,095 states, with `B=2 N=5 U=2 IxLen=2 MaxSize=3 MaxWrite=3 Reserve=2` in 53,606. After a power loss: `NamesAgree` and
`Undisturbed` before a check, `SavedByCheck` and `Consistent` after it.

Fairness: `WF_vars(CallStep)`, `WF_pvars(CallGoesOn)`, `WF_pvars(CheckStep)`: a call, and a check, that has
begun goes on, as there is one thread. No fairness of power losses, calls, or what a call finds.

In `power_one_loss`, a file is created and written to, the second append has finished the new header,
and power goes before the old one is deleted. Both refer to the data page; the check (`DropTwice`)
takes that for a page used twice and deletes the file.

### SpiffsCache, SpiffsObjectId, SpiffsEraseCount

| Run | Instance | Question and result |
|---|---|---|
| `page_cache` | three pages in two blocks, two of them lookup pages, two cache pages, two files, pages of two bits, a clock of four values | Is what is read what is in flash, and is the data of a file kept? `CacheInv` (`OneCopy`, `Coherent`, `CopiesBehind`) and `FilesKept` hold; 67,152 states. |
| `object_ids` | a buffer of two bytes of three bits, nine ids, one orphan | `SearchInv` (`IdIsNew`, `FullIsFull`), `CountsInBuffer`, `NameRefused`, `SearchEnds` hold; 1,456,156 states. Nine ids are more than the six bits, so the search goes by groups (of four) first. |
| `erase_counts` | three blocks, counts below ten, pages worth one and a half steps of age, two counts lost | `CountsInv` (`AgesOrdered`) and `NotNeglected` hold; 48,316 states, over the wrap of the counter. |

`Coherent` is the reason the other modules do without the cache: a copy differs from flash only for
a page with a copy that a blind write went to, and then shows fewer bits written, not more (`CopiesBehind`). The clock of four
values wraps all the time; the code's would after 2^32 accesses.

`NotNeglected` is the wear levelling `spiffs_config.h:143` claims: a block is passed over at
most (pages' worth / age's worth) + blocks - 1 times. With the repository's weights and
254 pages to a block that is 30 + blocks. `MaxSince`, the bound, makes the oldest block
the next one when it gets near 2^15 erases, beyond which its age would be that of a younger one.

Fairness: `WF_vars(SearchStep)`: a search that has begun goes on.

### SpiFlash

| Run | Instance | Question and result |
|---|---|---|
| `spi_flash` | four pages of two bytes, sectors of two bytes, blocks of two sectors, writes of up to five bytes, the chip busy for up to two polls | Does the driver do what spiffs asks? With erases counted in sectors, yes: `HalSpec` (it implements `NorFlash`), `CommandsHeard`, `DriverInv` (`ReturnsReady`), `CallReturns`; 1,030,688 states. |
| `spi_erase` | the same, erases counted in bytes as spiffs does (`ByteCount`) | Violated: an erase goes on beyond its block. |

Writes of five bytes on pages of two make every case of `SPI_FLASH_BufferWrite`: aligned or not, within a
page, to its end, over one and over two more. Fairness: the driver goes on (`WF_vars(DriverStep)`), and the chip
becomes ready (`WF_vars(Ready)`).

### Other disagreements

These have no run of their own; each is a violation TLC finds within half a minute when the
constants of a run are changed as said.

| Property | In | With | What the code does, and what is said of it |
|---|---|---|---|
| `ModifyStores` | `lookup_crammed` | `B=4 N=4 MaxData=1 MaxLen=1 MaxRuns=2` | `spiffs_object_modify` overwrites the result of the allocation by that of the deletion (`spiffs_nucleus.c:1558-1607`): with no page free the old page is deleted and the write returns its length; "number of bytes written, or -1 if error" (`spiffs.h:470`). With the repository's `SPIFFS_GC_MAX_RUNS = 5` the instances tried always find a page. |
| `NoLiveErase` | `lookup_crammed` | `B=4 N=2 MaxData=1 MaxLen=1 QuickMax=1` | After `SPIFFS_gc_quick(1)` a block has a free entry before a used one (`FreeSuffix` is gone, against `spiffs_gc.c:281`), the collector moves a page within the block it cleans to an entry it has passed, and erases it; "moving all data into free pages of another block" (`spiffs_gc.c:364`). |
| `CacheOwned` | `files_two` | `Spec`, `K=1 Uses={"direct"}` | `spiffs_cache_fd_release` "unrefers all fds" (`spiffs_cache.c:267`), but not closed ones, and a descriptor opened with `SPIFFS_O_DIRECT` is closed with the cache page; the slot is opened with it for another file. |
| `TruncEmpties` | `files_one` | `MaxSize=2 MaxLen=1 Failures={} Uses={"trunc"}` | Data that is all in the cache survives `SPIFFS_O_TRUNC`; "truncated to zero length before opened" (`spiffs.h:159`). |
| `RenameKeepsPositions` | `files_one` | the same, `Uses={"rename"}` | The event of a rename sets positions to the size in flash; "Renames a file" (`spiffs.h:531`). |
| `SizeStored` | `files_one` | the same, `Failures={"first"} Uses={}` | After a first append that found no page the header is written with size 0, and the next one writes over it (`spiffs_nucleus.c:1260`: "was an empty object, update same page"). |
| `PendingFits` | `files_one` | the same, `Failures={"room"} Uses={"stray"}` | After a failed flush a write is accepted at an offset where it can never be stored (`spiffs.h:470`). |
| `HeadersFresh` | `files_two` | `Uses={"entry"}` | A descriptor opened by entry or page in a slot never used has score 0, and events pass it by (`spiffs_nucleus.c:1067`). |
| `HandleSizes` | `files_one` | `Failures` with `"index"` | `spiffs_object_append` sets the size of the descriptor (`spiffs_nucleus.c:1397`) before it stores the index page, and does not set it back when that fails. |
| `NoOrphans` | `power_one_loss` | `Calls={"create", "append", "remove"}` | The check "Removes orphaned and partially deleted index pages" (`spiffs_check.c:982`), but not a complete one whose header is gone: it returns early (`spiffs_check.c:922-925`). |
| `AgesOrdered` | `erase_counts` | `MountAtWrap = TRUE` | Mount cannot see that the counter has wrapped ("wrap, take min", `spiffs_nucleus.c:399`): the blocks erased last look oldest, against "a fair wear-leveling" (`spiffs_config.h:143`). |

Read in the code, not shown by a model: the test for a "clean system" at mount
(`spiffs_nucleus.c:395`) has minimum and maximum the wrong way round and never holds; the index
map of a descriptor is not cleared when its file is removed by another one
(`spiffs_nucleus.c:1103`), and `SPIFFS_ix_remap` clears the pointer to the map buffer where it is
to clear the buffer (`spiffs_hydrogen.c:1333`).

## 4. Proofs

`SpiffsLookupSafety` proves, for all values of the constants that satisfy
`ConstantsAssumption` (at least three blocks, at least one entry in each, finitely
many files):

- `TypeCorrect`: `Spec => []TypeOK`. `TypeOK` is inductive as it stands, because
  it also says where each part of `op` and `gc` is meaningful: which file a call
  is on, that the span of an append or modify is below `MaxData`, and that `pc` and
  `op` agree on whether a call runs. The proof goes action by action
  (`TypeCalls`, `TypeCleaning`, `TypeWork`), on lemmas about the state changes
  they share (`TakeType`, `AllocateType`, `DeleteType`, `MoveType`, `QuickEraseType`,
  `StartType`).
- `BlocksCovered`: `Spec => []FreeBlocksCovered`. It is inductive next to `TypeOK`:
  no step but an erase makes a page free (`NoneFreed`), an erase of a block counts
  one block more (`CoverErase`), and only taking the first page of a block
  counts one less (`CoverTake`, and `CoverMove` where the collector takes it). It holds
  whatever callers ask of `SPIFFS_gc_quick`.

It goes on from there, for callers that give `SPIFFS_gc_quick`
the argument 0 (`QuickMax = 0`, assumed in each theorem because for 1 TLC
refutes it, see "Other disagreements"):

- `Invariant`: `Spec => []IInv`.
- `CountersAndLayout`: `Spec => [](StatsExact /\ FreeSuffix)`.
- `SingleIndex`: `Spec => []OneIndex`.
- `NothingLiveErased`: `Spec => NoLiveErase`.

None of the last three is inductive. Why `IInv` has the parts it has: a page taken
at the cursor must leave no free entry before it (`CursorParts`); a page moved
within the block being cleaned lands behind the page it came from (`FreeSuffix`),
so the scan meets it again (`Passed`); and the cursor is not in that block when it
is erased, because the last page moved would still be there, used
(`CursorInCleaned`); a modify deletes the page its copy of the index names, which must
be a page of the file (`OpWorkSound`, `RefsSound`, `ModifyInside`), and that holds
because a call begins on a file that exists and is sound (`OpExists`,
`NoIndexNoRefs`, `DamagedExist`, `OnlyIndex`).

The argument: each action changes flash in one of seven ways (page taken, pages
deleted, moved, replaced, condemned, block erased, nothing: `Effect`,
`NextEffect`). `StatsStep` and `LayoutStep` preserve counters and layout for every
such effect, whichever action it came from; `ScanSteps` treats the scan of the
collector action by action; `FilesNext` reduces the parts about files to what
each action must leave true of references in flash and in memory (`CallFiles`,
`CleanFiles`, `WorkFiles`, on the lemmas `KeptFiles`, `MovedIndex`, `DeletedFiles`);
`InvStep` puts them together. `UsedStaysOwned` is the step behind
`NothingLiveErased`.

The same module adds the files, under the same assumption:

- `NothingLeaks`: `Spec => []FilesInv`.
- `IndexExact`: `Spec => []RefsExact`.
- `Implements`: `Spec => StoreSpec`.

`RefsExact` speaks of a file no call and no collection is at work on; to be inductive it needs to
say what holds while one is. At every moment one index of the file counts (`Index`): the one the
collector has in memory, the one the call has, or that in flash. `NoLeaks` says of each
data page that this index names it; `Gapless`, `GcSpans` and `WorkSpans` say which spans it has, at each
point of a call, and `FreshId` that a file about to be created has no pages yet. Most steps change neither
data pages nor the index that counts (`LeaksKept`), if only because a call or the collector takes
the index of flash into memory, or puts it back. Those that do are taken one by one: the collector
moves a page (in `CleanWhole`), `AppendWhole`, `ModifyWhole`, `LosesWhole`, `TruncateWhole`, `CreateWhole`.
A truncate deletes all pages because none of a sound file is refused (`Refused`), and
`WorkGapless` says that what is stored in the end has no gap.

For `Implements`: with `FilesInv` each step is one of
the steps of `SpiffsStore` or changes none of its variables (`Nothing`, `Begins`, `JustReturns`,
`ReturnsHalfway`, `ReturnsDone`, which say what a step has to show for it). The collector's steps change no file's
length (`CleanStore`), the steps of a call change it only when its index page is stored (`StoredStore`),
and removal hits no other file if the file was sound (`SoundTruncated`, `RemovedStore`).

`SpiffsCacheProofs` proves for every flash, number of cache pages and range of the clock
(`BlocksDisjoint`, `LookupAssumption`, `NoObjAssumption`, `CacheAssumption`):

- `CacheCorrect`: `Spec => []CacheInv`.
- `FilesStay`: `Spec => FilesKept`.

`CacheInv` is inductive with `Shape`: a cache page that is read is of one page, one that is not is of none,
and one that is written, and no other, is of a file. What all actions share is `PutInv` (a page
is read into a cache page that is free, or the oldest) and `TheCopy` (a page that is cached has
its copy where the code finds it). That the oldest cache page exists (`OldestExists`) although the clock has wrapped is
`WFMin` of the library on the ages.

`SpiffsEraseCountProofs` proves for every number of blocks, counter and weights of the score
(`CountAssumption`, `ScoreAssumption`, `LossAssumption`), as long as no mount falls on a wrap of the counter
(`MountAtWrap = FALSE`, without which TLC refutes it, see "Other disagreements"):

- `AgesCorrect`: `Spec => []CountsInv`.
- `Wear`: `Spec => []NotNeglected`.

The code's age is wrong by half of the range of a count that is past the wrap (it subtracts from the value of a free
count, not from the highest one), so the proof is about the true distance (`Dist`): it is at most
the erases there were (`DistBound`), in the order of the erases (`DistOrder`), and 1 for the newest count, or a mount would
give out counts again (`Newest`); the bound of the model keeps it within the counter (`SinceBound`). For
`Wear`: a block that is passed over counts `Rivals`, the blocks that pages can still bring before it;
each time it is passed over one of them is erased and is a rival no more, and none becomes one (`FewRivals`).

`SpiffsFilesProofs` proves for any number of files, descriptors and cache pages and every size of a
cache page (`FilesAssumption`) and for `Careful` callers:

- `FilesCorrect`: `Spec => []StateInv`, the inductive invariant; and from it
- `TypesKept`: `Spec => []TypeOK`;
- `CachePagesOwned`: `Spec => []CacheOwned`;
- `CachedReachable`: `Spec => []PendingReachable`;
- `LengthsKnown`: `Spec => []HandleSizes`;
- `CachedFits`: `Spec => []PendingFits`;
- `HeadersKnown`: `Spec => []HeadersFresh`.

`Careful` is a condition on `Uses` and `Failures`: all but `rename` and `glance` of the first, and `first` and
`index` of the second, are left out, since for each of these TLC refutes one of the
properties (the tables of sections 2 and 3). `rename` and `glance` are allowed here and in no run: what they spoil is
what a reader sees, not these invariants.

A call goes through several functions, each of which takes a state, a record, to the states it may leave. So the
invariant is one of such records, `CallInv`, and `StateInv` is that of the state between calls. Its parts:
`Handles` (a closed descriptor has no cache page to leave to the file it is opened with next; an open one hears of
the events of its file, and writes as the other descriptors of the file do), `Caches` (a cache page is one
file's, and a descriptor that will flush it has it), `Lengths` (flash and descriptors agree, and no size in flash is
0, the value the next append would write over), `Fits` (what is cached begins within the file and ends within the
largest), and `Within` for each descriptor, without which the next cached write would not fit.
They do not hold within a call: `CoreInv`, all but `Within`, does when a cache page is written, and what
holds while the nucleus grows a file is `Grown` (`GrownInv`), with the events heard by all
descriptors in between (`EventHeard`, `EventIs`, `RewrittenInv`). On these lemmas there is one for
each call (`CreatKeeps`, `WriteKeeps`, ...). `Remount`, a recursive function on the descriptors that are closed one after the
other, exists because there is no least descriptor for which it does not (`ClosesExists`).

Its second half goes on from there, and proves under the same assumptions and for callers that make none of
the uses in `Uses`, as in the runs `files_one` and `files_two`:

- `StoreKept`: `Spec => StoreSpec`.

`rename` and `glance` are excluded here because what they spoil is what a reader sees: after the first a descriptor is
at another position, in the second the read finds nothing (section 2). The refinement mapping is stated for the records
the calls pass on: `FileOf` (the data in flash with the cache page of the file put over it, if there is one) and `HandleOf`
(the position, lost if it is beyond what could be read); `MapsNow` and `MapsNext` say that this is the mapping of the run.
What the functions inside a call do is then a relation between such records: `Touches` (one file
may change, the other files and the handles of others stay), `Settles` (what was cached for a file is in flash, or
in part lost if the call fails), `Writes` (bytes are put at an offset over what was to be read before, or a mix of
the two is left). `FlushSettles` and `WriteBackSettles` are about the cache page that is given up,
`WriteThroughWrites`, `WriteCachedWrites`, `WriteNewPageWrites` and `DumpedWrites` about
the four ways a write can go, on `PutTwice`: bytes put over bytes just put are one longer write. There is one lemma for each call
(`CreatStep`, `OpenStep`, `ReadStep`, `WriteStep`, ...), that it is a call of `SpiffsBytes`, or `Idle`;
a close that cannot store what is cached leaves the descriptor open, and is a `Flush` (`CloseStep`). `RemountStep` goes over
the descriptors closed one after the other (`MixedOne`, `UnmountingOne`): each file is written back by the first of them
that has its cache page, whole or in part.

`SpiffsObjectIdProofs` proves for every buffer, number of ids and number of files (`BufferAssumption`, `GroupAssumption`):

- `SearchCorrect`: `Spec => []SearchInv`.
- `BufferKept`: `Spec => []CountsInBuffer`.
- `NamesRefused`: `Spec => NameRefused`.

`IdInv` is the inductive invariant. `Counted` says that what the first scan counts is, for each group, the number of
files in it (`MembersCount`, `InGroups`: each id within reach is in exactly one group); so a group with a count below its size
has a free id (`SelectGroupInv`), which the bitmap of this group finds (`Narrowed`, `ScanBitsInv`). `InReach` says that the ids of
files are those the groups cover, and holds only without orphans, as the properties do.

`SpiFlashProofs` proves for every size of page, sector and block (a sector is whole pages, a block whole sectors), length
of a write and time the chip is busy (the assumptions of `SpiFlash`):

- `DriverCorrect`: `Spec => []DriverInv`.
- `Heeded`: `Spec => CommandsHeard`.
- `Implements`: `~ByteCount => (Spec => HalSpec)`. With `ByteCount` the run `spi_erase` refutes it.

`SpiInv` is the inductive invariant: `Shape` says which commands a call has left to send, `Timing` that a command to
program or erase is preceded by one that enables it and followed by polls that outlast the chip, and
`Memory` that each byte of a call is as asked, will be when the chip is ready, or has its command still to be sent, and that no
other byte has changed. What the lists of commands write when the call begins is a lemma about
`SPI_FLASH_BufferWrite` (`WriteCovers`: every byte asked has a program command, and none goes beyond its page or the bytes asked), with its cases as in the
code, on one about whole pages (`PagesWritten`); `BlockErased` is the one for `SPI_Flash_Erase`.

`SpiffsFlashProofs`, on the lemmas of `SpiffsFlashWrites`, proves for every number of blocks (at least two), pages and files, of units in a page and references in
a header and in an index page, every length of file and any number of calls (`FlashAssumption`; `ValuesAssumption`: what
blank flash holds, and the entry of a deleted page, are neither data nor the id of a file):

- `FlashSoundAlways`: `Spec => []FlashSound`, the inductive invariant; and from it
- `FlashInvAlways`: `Spec => []FlashInv`;
- `ReadsBackAlways`: `Spec => []ReadsBack`;
- `NothingLostAlways`: `Spec => []NothingLost`;
- `FlashIInvAlways`: `Spec => []FlashIInv`;
- `AlwaysThereAlways`: `Spec => []AlwaysThere`.

The first three properties are about flash between calls, or say little about files; to be inductive they need to say what
holds between any two driver writes. A call decides on its next writes in one step and makes them in
others, and half of them made leave nothing whole. So the invariant is about `soon`, the flash once the writes in `todo` are made
(`After`, in which the writes to a page are taken together, in no order: `Joined`). A write then does not change `soon` at all
(`Written`, on `JoinedPageTwice`), if no two of them put different values into a field, which is `EntryOnce` and part of
what `soon` must look like. What is left is to take the steps in which a call decides, where `todo` is
empty and `soon` is flash (`Decided`): a step's writes lead from one whole flash to the next.

What is whole (`Sound`): each page is (`PagesOK`: its header agrees with its lookup entry, a free page is blank), no two are
of one span (`NoTwins`), and so is each file (`FilesOK`). A file the call is on is as the call left it so far: it
has the units up to `pos`, and the index page in memory (`View`) counts for the one in flash, whose references are
stale. `RefsOK` is both directions of the index, `TextOK` what the data pages hold,
`HoldsText` which text that is: the old one, the new one, or, in a modify, the new one outside what is still to be written.
`CallOK` has what each call relies on in its locals: an append that its index page can be stored over what flash holds, as it adds
references to blank entries only; a truncate and a modify where the header is, although it may move under them.

The lemmas go from the bottom up: what one write does to a page (`LuWrite`, `CellsWrite`, `PageWrite`, ...); what the
writes of a function of the nucleus do to flash (`Leads`: `LeadsAllocate`, `LeadsMove`, `LeadsMoveRaw`, `LeadsDelete`,
`LeadsRewrite`); the arithmetic of units, pages and entries (`SpanIs`, `EntryUnique`, `IxSpanNext`, ...); then what such a change does to the file it is about
(`FileSpan`, `FileNote`, `MovedFile`, `StoredFile`, `ShrinkingIs`) and that it does nothing to the others (`OtherFile`); and
one lemma for each action (`AppendDataSound`, `GcMoveIxSound`, ...), which `NextSound` puts together. What readers find
(`ReadsBackNow`, `NothingLostNow`) is a lemma about states at rest, on `ReadsText`: whichever pages the searches find, it is
the text of the file.

`AlwaysThere` is about the writes half made, so it needs a second invariant, `Watched`, on top of the first:
whichever of the writes in `todo` have been made, in their order, a file that is neither created nor removed has a header (`Steady`).
The writes of a step can delete a page of the file's index only as the last of them (`Ordered`, `Gentle`), after the new header is there in the
flash they lead to (`SteadyWrites`). `FlashSound` says that this one has a header, and `Promise` that a call that returns
leaves behind what `want` allows.

Only model-checked: liveness (`CallReturns`, `CheckEnds`, `SearchEnds`), which is out of the prover's
reach, and the invariants of `SpiffsPowerLoss`. These are about states that only a power loss leaves, which `FlashSound` does
not describe: it promises that the writes decided on are made. They would need an invariant of their own for each of the
three passes of the check.

## 5. Not modelled, and the plan

Not modelled:

- The index map (`SPIFFS_ix_map` and its update by object events): a table the caller provides to speed up
  reads; the demo does not use it.
- The name hashes and scores of the temporal cache of descriptors, but for score 0.
- Directories, `SPIFFS_info`, `SPIFFS_stat`: they read and change nothing. `SPIFFS_update_meta` and
  `SPIFFS_USE_MAGIC` are not in this configuration.
- Torn writes: a driver write is done or not done.
- The demo application, which calls the API once from a loop, the board support and the vendor's
  libraries (CMSIS, STM32), the ESP-IDF example with its build products, and the visualisation functions
  of spiffs (printing). The vendor's code is most of the lines of the repository, and none of it
  belongs to the system; of the file system itself, the modules cover nearly every function that changes state.

What could come next: a proof of what mount finds after a power loss (`NamesAgree`, `Undisturbed`), for which `Watched` is the pattern:
an invariant of every prefix of the writes; the index map, with the arithmetic it shares with the collector.
