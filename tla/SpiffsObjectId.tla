--------------------------- MODULE SpiffsObjectId ---------------------------
(***************************************************************************)
(* How a new file gets its object id (spiffs_obj_lu_find_free_obj_id).     *)
(* The ids in use are those in the lookup tables.  If the work buffer has  *)
(* a bit for every id, one scan fills it and the first bit that is not set *)
(* is the id; otherwise a first scan counts the index headers by groups of *)
(* ids, a byte for each group, and a group that is not full is searched.   *)
(*                                                                         *)
(* Names are not modelled: the name asked for is that of a file or of      *)
(* none.                                                                   *)
(***************************************************************************)
EXTENDS Naturals, FiniteSets

CONSTANTS
    Work,       \* bytes of the work buffer, SPIFFS_CFG_LOG_PAGE_SZ
    ByteBits,   \* bits of a byte
    MaxObjects, \* block_count * SPIFFS_OBJ_LOOKUP_MAX_ENTRIES / 2
    MaxFiles,   \* bound: how many files there are
    MaxOrphans  \* bound: how many ids have pages and no index header

ASSUME BufferAssumption ==
    /\ Work \in Nat \ {0} /\ ByteBits \in Nat \ {0} /\ MaxObjects \in Nat
    /\ MaxFiles \in Nat /\ MaxOrphans \in Nat

VARIABLES
    files,      \* the ids with an index header
    removing,   \* those with a header marked by a removal that power loss ended (IXDELE)
    orphans,    \* ids that have pages in the lookup tables, but no header
    search,     \* the state of the search: spiffs_free_obj_id_state and the count in fs->work
    answer      \* what the search returned

vars == <<files, removing, orphans, search, answer>>

ByteSize == 2 ^ ByteBits
BitmapSize == Work * ByteBits

\* Ids have 15 bits and pages at least 128 bytes of 8 bits: a group has at most
\* (2^15 - 2) \div 128 = 255 ids, which a byte can count ("todo what if compaction
\* is > 255", spiffs_nucleus.c:2212) and the bitmap holds.
ASSUME GroupAssumption ==
    /\ ByteSize \in Nat
    /\ MaxObjects \div Work < ByteSize
    /\ MaxObjects \div Work <= BitmapSize

NoName == 0
Idle == [at |-> "idle", min |-> 0, max |-> 0, group |-> 0, count |-> [i \in 0 .. Work - 1 |-> 0],
         name |-> NoName, asked |-> NoName]
NoAnswer == [is |-> "none", id |-> 0]

LeastOf(S) == CHOOSE i \in S : \A j \in S : i <= j

-----------------------------------------------------------------------------
\* The search

\* The next step of the loop for a range of ids.
Scan(min, max) == IF max - min <= BitmapSize THEN "bits" ELSE "count"

\* SPIFFS_creat of a file with the name of a file, or of none.
Create(name) ==
    /\ search.at = "idle" /\ answer = NoAnswer
    /\ Cardinality(files) < MaxFiles
    /\ search' = [Idle EXCEPT !.at = Scan(1, MaxObjects + 1), !.min = 1, !.max = MaxObjects + 1,
                              !.name = name, !.asked = name]
    /\ UNCHANGED <<files, removing, orphans, answer>>

\* The search is over.
Answer(is, id) ==
    /\ answer' = [is |-> is, id |-> id]
    /\ search' = Idle
    /\ UNCHANGED <<files, removing, orphans>>

\* An id within the range: ids are compared as they are, spiffs_obj_lu_find_free_obj_id_compact_v.
InRange(id) == search.min <= id /\ id <= search.max

\* The group of the id, if groups have this many ids.
Group(id, size) == (id - search.min) \div size

\* The ids of the range over the bytes of the buffer, rounded down.
GroupSize == (search.max - search.min) \div Work

\* A header has the name asked for: only looked at in the last scan.
ConflictLast(name, headers) == search.at = "bits" /\ name \in headers

\* A header has the name asked for.
Conflict(name, headers) == name \in headers

\* spiffs_obj_lu_find_free_obj_id_compact_v over all index headers, marked for
\* removal or not: each adds one to the byte of its group.
CountGroups ==
    /\ search.at = "count"
    /\ IF Conflict(search.name, files)
       THEN Answer("conflict", 0)
       ELSE /\ search' =
                 [search EXCEPT
                    !.at    = "select",
                    !.group = GroupSize,
                    !.count = [i \in 0 .. Work - 1 |->
                                 Cardinality({id \in files : InRange(id) /\ Group(id, GroupSize) = i})
                                     % ByteSize],
                    !.name  = NoName]
            /\ UNCHANGED <<files, removing, orphans, answer>>

\* The first of the smallest counts below the largest byte.
Emptiest ==
    LET least == LeastOf({search.count[i] : i \in 0 .. Work - 1})
    IN  IF least < ByteSize - 1
        THEN LeastOf({i \in 0 .. Work - 1 : search.count[i] = least})
        ELSE 0

\* The first id of a group.
First(i) == search.min + i * search.group

\* The range goes on to its end.
LastKept(first) == search.max

\* The end of the range that a group is, one beyond its last id.
Last(first) == first + search.group

\* A group is chosen: no id is free in a full one, all are in an empty one,
\* else its ids are searched.
SelectGroup ==
    /\ search.at = "select"
    /\ LET i     == Emptiest
           first == First(i)
       IN  CASE search.count[i] = search.group -> Answer("full", 0)
             [] search.count[i] # search.group /\ search.count[i] = 0 -> Answer("id", first)
             [] OTHER ->
                  /\ search' = [search EXCEPT !.at  = Scan(first, Last(first)),
                                              !.min = first, !.max = Last(first)]
                  /\ UNCHANGED <<files, removing, orphans, answer>>

\* The bit of the first id of the range is not set.
TakenAfter == {id - search.min : id \in {i \in files \cup orphans : search.min < i}}

\* The bits that spiffs_obj_lu_find_free_obj_id_bitmap_v sets: by every entry,
\* not only by headers.
Taken == {id - search.min : id \in {i \in files \cup orphans : search.min <= i}}

\* The bits are searched from the end.
ClearBitFromEnd(bits) == CHOOSE i \in bits : \A j \in bits : j <= i

\* The first bit that is not set, in the whole buffer, also beyond the end of the range.
ClearBit(bits) == LeastOf(bits)

\* spiffs_obj_lu_find_free_obj_id_bitmap_v over all entries, then the first bit
\* that is not set.  A header marked for removal has no name.
ScanBits ==
    /\ search.at = "bits"
    /\ LET free == 0 .. BitmapSize - 1 \ Taken
       IN  IF Conflict(search.asked, files \ removing)
        THEN Answer("conflict", 0)
        ELSE IF free = {} THEN Answer("full", 0) ELSE Answer("id", search.min + ClearBit(free))

\* spiffs_object_create
Take ==
    /\ answer.is = "id"
    /\ files' = files \cup {answer.id}
    /\ answer' = NoAnswer
    /\ UNCHANGED <<removing, orphans, search>>

GiveUp ==
    /\ answer.is \in {"full", "conflict"}
    /\ answer' = NoAnswer
    /\ UNCHANGED <<files, removing, orphans, search>>

-----------------------------------------------------------------------------
\* What happens between two searches

Quiet == search.at = "idle" /\ answer = NoAnswer /\ UNCHANGED <<search, answer>>

Remove(id) ==
    /\ Quiet
    /\ files' = files \ {id}
    /\ removing' = removing \ {id}
    /\ UNCHANGED orphans

\* The power is lost while a file is removed: its header stays, marked.
RemoveStops(id) ==
    /\ Quiet
    /\ removing' = removing \cup {id}
    /\ UNCHANGED <<files, orphans>>

\* The power was lost, and later the file removed: an index page of it stays
\* behind, which SPIFFS_check does not delete.
RemoveLeaves(id) ==
    /\ Quiet
    /\ Cardinality(orphans) < MaxOrphans
    /\ files' = files \ {id}
    /\ removing' = removing \ {id}
    /\ orphans' = orphans \cup {id}

\* SPIFFS_check deletes the headers marked.
Check ==
    /\ Quiet
    /\ removing # {}
    /\ files' = files \ removing
    /\ removing' = {}
    /\ UNCHANGED orphans

-----------------------------------------------------------------------------

Init ==
    /\ files = {} /\ removing = {} /\ orphans = {}
    /\ search = Idle /\ answer = NoAnswer

SearchStep == CountGroups \/ SelectGroup \/ ScanBits \/ Take \/ GiveUp

Next ==
    \/ \E name \in files \cup {NoName} : Create(name)
    \/ SearchStep
    \/ \E id \in files : Remove(id) \/ RemoveStops(id) \/ RemoveLeaves(id)
    \/ Check

Spec == Init /\ [][Next]_vars /\ WF_vars(SearchStep)

-----------------------------------------------------------------------------
\* Properties

\* The ids that the search can give at all: in a bitmap any, in groups those of
\* the groups.
Reachable ==
    IF MaxObjects <= BitmapSize THEN 1 .. BitmapSize ELSE 1 .. Work * (MaxObjects \div Work)

TypeOK ==
    /\ files \subseteq Nat \ {0}
    /\ removing \subseteq files
    /\ orphans \subseteq Nat \ {0}
    /\ search.at \in {"idle", "count", "select", "bits"}
    /\ answer.is \in {"none", "id", "full", "conflict"}

\* A new file never gets the id of another one.
IdIsNew == answer.is = "id" => answer.id \notin files

\* While there are no pages without a header, the bytes that are counted up lie
\* in the work buffer: no file has an id beyond its last group.  (The buffer is
\* followed by other memory; the index is not checked.)
CountsInBuffer ==
    search.at = "count" /\ orphans = {} =>
        \A id \in files : InRange(id) => Group(id, GroupSize) < Work

\* No id that can be given is free when a file is refused for want of one, while
\* there are no pages without a header (one in the group chosen hides the others).
FullIsFull == answer.is = "full" /\ orphans = {} => Reachable \subseteq files

\* What the search has found so far, and what it answers.
SearchInv == TypeOK /\ IdIsNew /\ FullIsFull

\* No two files get the same name: one asked for a second time is refused, at
\* whatever stage of the search.
NameRefused ==
    [][search.asked \in files \ removing /\ search.at # "idle" => answer'.is # "id"]_vars

\* Every search ends.
SearchEnds == search.at # "idle" ~> search.at = "idle"
=============================================================================
