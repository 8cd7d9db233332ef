---------------------------- MODULE SpiffsPowerLoss ----------------------------
(***************************************************************************)
(* Power loss between any two writes of the flash, mounting again, and     *)
(* SPIFFS_check, which is to mend what the loss left behind: its passes    *)
(* over the lookup, the index pages and the references, each of which      *)
(* writes, and may itself lose power.                                      *)
(*                                                                         *)
(* Mounting changes nothing in flash; the free cursor starts at the first  *)
(* block again.  A lookup entry and a page header never name two different *)
(* files after a power loss (NamesAgree), so the repairs of such a page    *)
(* are left out; so is the split of a large flash into several ranges.     *)
(***************************************************************************)
EXTENDS SpiffsFlash

CONSTANT MaxLosses      \* bound: how often power is lost
ASSUME PowerAssumption == MaxLosses \in Nat

VARIABLES
    losses,     \* how often power was lost
    mended,     \* FALSE from a power loss until SPIFFS_check has run to its end
    torn,       \* history: the files being written or moved when power was lost; after
                \*          the check, those being written
    spoiled     \* history: the files the check may not save (Loses, Reused)

pvars == <<vars, losses, mended, torn, spoiled>>

-----------------------------------------------------------------------------
(* What the check finds *)

Span(p) == flash[p].span
IsIndexId(id) == \E o \in Objs : id = IxId(o)
OwnerOf(id) == CHOOSE o \in Objs : id \in {DataId(o), IxId(o)}
InUse(p) == flash[p].lu \notin {Blank, Deleted}

\* spiffs_object_get_data_page_index_reference: the index pages it may find for
\* a page with that id and span, taken for a data page.
RefPages(id, s) ==
    IF id \in Ids /\ s \in Nat THEN Found(IxId(OwnerOf(id)), IxSpan(s)) ELSE {}
RefIn(q, s) == flash[q].cells[IxEntry(s)]

\* spiffs_obj_lu_find_id_and_span_by_phdr, for a header of that id.
HeaderAnywhere(id) == \E p \in Pages : HeaderMatches(p, id, 0)

\* spiffs_rewrite_page: the contents are copied to the new page, under a header
\* with the flags of the old one.
Rewrite(p, new) ==
    Allocate(new, flash[p].id, Span(p), flash[p].flags, NoCells, FALSE)
      \o W(new, [BlankPage EXCEPT !.size = flash[p].size, !.cells = flash[p].cells])
\* spiffs_rewrite_index: a copy of index page q that refers to page new for span s.
Reindex(q, dst, s, new) ==
    PageW(dst, [flash[q] EXCEPT !.cells[IxEntry(s)] = new]) \o LuW(dst, flash[q].id) \o Delete(q)
\* spiffs_delete_obj_lazy: the header it finds under that very id, if it finds one,
\* is marked, and that is all: the writes it may come to.
LazyDelete(id) ==
    IF Found(id, 0) = {} THEN {<<>>} ELSE {FlagsW(h, {"ixdele"}) : h \in Found(id, 0)}

-----------------------------------------------------------------------------
(* spiffs_lookup_check_validate, of page p *)

\* Mutants of Vanished: only one of the two disagreements is seen.
VanishedDeleted(p) == flash[p].lu = Deleted /\ "dele" \notin flash[p].flags
VanishedFree(p) == flash[p].lu = Blank /\ "used" \in flash[p].flags
\* Deleted or free in the lookup and not so on the page, or the opposite.
Vanished(p) ==
    \/ flash[p].lu = Deleted /\ "dele" \notin flash[p].flags
    \/ flash[p].lu = Blank /\ "used" \in flash[p].flags
Stale(p) ==
    /\ InUse(p)
    /\ \/ flash[p].id \notin Ids
       \/ "dele" \in flash[p].flags
Unfinished(p) == InUse(p) /\ ~Stale(p) /\ "final" \notin flash[p].flags

\* Such a page is worth keeping if the index refers to it, or if it is the only
\* index page of its span while there is a header.
OnlyCopy(p) ==
    IF "index" \notin flash[p].flags
    THEN {q \in RefPages(flash[p].id, Span(p)) : RefIn(q, Span(p)) = p}
    ELSE {q \in {p} : /\ flash[p].id \in Ids /\ Found(flash[p].id, Span(p)) \ {p} = {}
                      /\ HeaderAnywhere(flash[p].id)}

Second(new) == CHOOSE p \in FreePages \ {new} :
    \A q \in FreePages \ {new} : (p - new) % (B * N) <= (q - new) % (B * N)

CheckPage(p) ==
    \/ /\ Vanished(p) /\ OnlyCopy(p) = {}
       /\ todo' = Delete(p) /\ UNCHANGED cursor
    \/ /\ Vanished(p) /\ "index" \notin flash[p].flags
       /\ \E q \in OnlyCopy(p), new \in Pages :
            /\ NextFree(new) /\ cursor' = Second(new) + 1
            /\ todo' = Rewrite(p, new) \o Reindex(q, Second(new), Span(p), new) \o Delete(p)
    \/ /\ Vanished(p) /\ "index" \in flash[p].flags /\ OnlyCopy(p) # {}
       /\ \E new \in Pages : Take(new) /\ todo' = Rewrite(p, new) \o Delete(p)
    \/ /\ Stale(p)
       /\ todo' = Delete(p) /\ UNCHANGED cursor
    \/ /\ Unfinished(p)
       /\ LET refs == RefPages(flash[p].lu, Span(p)) IN
          todo' = IF \E q \in refs : RefIn(q, Span(p)) = p
                  THEN FlagsW(p, {"final"}) ELSE Delete(p)
       /\ UNCHANGED cursor
Sound(p) == ~Vanished(p) /\ ~Stale(p) /\ ~Unfinished(p)

CheckRunning(phase) == job.op = phase /\ todo = <<>>
KeepAll == UNCHANGED <<flash, want, calls, losses, mended, torn, spoiled>>

\* SPIFFS_check may be called at any time.
BeginCheck ==
    /\ Quiet
    /\ job' = [op |-> "check lookup", at |-> 0]
    /\ UNCHANGED <<cursor, todo>> /\ KeepAll

\* The next page that calls for a repair; pages that do not are passed over.
NextUnsound(from) == {p \in Pages : /\ p >= from /\ ~Sound(p)
                                    /\ \A q \in from .. (p - 1) : Sound(q)}
CheckLookup ==
    /\ CheckRunning("check lookup")
    /\ \/ \E p \in NextUnsound(job.at) : CheckPage(p) /\ job' = [job EXCEPT !.at = p + 1]
       \/ /\ NextUnsound(job.at) = {}
          /\ job' = [op |-> "check index", at |-> 0] /\ UNCHANGED <<cursor, todo>>
    /\ KeepAll

-----------------------------------------------------------------------------
(* spiffs_object_index_consistency_check_v: a header whose file is being     *)
(* removed goes; so does an index page without a header, if it gets that far *)

Removed(p) == /\ IsIndexId(flash[p].lu) /\ Span(p) = 0
              /\ Has(p, {"index", "final", "ixdele"}, {"dele"})
Orphan(p) == /\ IsIndexId(flash[p].lu) /\ ~Removed(p)
             /\ ~Has(p, {"index", "final"}, {"dele", "ixdele"})
             /\ Span(p) # 0 /\ Found(flash[p].lu, 0) = {}
Condemned(from) == {p \in Pages : p >= from /\ (Removed(p) \/ Orphan(p))}
CheckIndex ==
    /\ CheckRunning("check index")
    /\ \/ /\ Condemned(job.at) # {}
          /\ todo' = Delete(Min(Condemned(job.at)))
          /\ job' = [job EXCEPT !.at = Min(Condemned(job.at)) + 1]
       \/ /\ Condemned(job.at) = {}
          /\ job' = [op |-> "check pages", at |-> 0, refd |-> {}, index |-> {}]
          /\ UNCHANGED todo
    /\ UNCHANGED cursor /\ KeepAll

-----------------------------------------------------------------------------
(* spiffs_page_consistency_check_i: first the references, an index page at a *)
(* time, then the data pages nothing refers to                               *)

LiveIndex(p) == Has(p, {"index", "used"}, {"dele", "ixdele"})
Refs(p) == {i \in Entries(Span(p)) : flash[p].cells[i] # Blank}
SpanOfRef(p, i) == FirstSpan(Span(p)) + i
DataOf(p) == DataId(OwnerOf(flash[p].id))
\* A reference that leads out of the flash or to a lookup page, or to a page that
\* is not the right one.  A garbled one may be either.
Mismatch(p, i) ==
    LET d == flash[p].cells[i] IN
    IF d = Garbled THEN TRUE
    ELSE ~(/\ flash[d].id = DataOf(p) /\ Span(d) = SpanOfRef(p, i)
           /\ Has(d, {"used"}, {"dele", "index"}))
\* The entries of index page p with such a reference, or one seen before.
Faults(p) ==
    {i \in Refs(p) : \/ Mismatch(p, i)
                     \/ flash[p].cells[i] \in job.refd
                     \/ \E j \in Refs(p) : j < i /\ flash[p].cells[j] = flash[p].cells[i]}
Restart == [op |-> "check pages", at |-> 0, refd |-> {}, index |-> {}]
IndexFrom(from) == {p \in Pages : p >= from /\ LiveIndex(p)}

\* Mutant of MarkRefs: the scan starts again as if the page had been mended.
MarkRefsAgain(p) == Faults(p) = {} /\ job' = Restart /\ UNCHANGED <<cursor, todo>>
\* All references of the index page are good: they are marked.
MarkRefs(p) ==
    /\ Faults(p) = {}
    /\ job' = [job EXCEPT !.at = p + 1, !.index = @ \cup {p},
                          !.refd = @ \cup {flash[p].cells[i] : i \in Refs(p)}]
    /\ UNCHANGED <<cursor, todo>>

\* The first one that is not.  Another page with the right id and span takes its
\* place in a new index page, and the scan starts again.
RemapRef(p, i) ==
    /\ Mismatch(p, i)
    /\ \E d \in Found(DataOf(p), SpanOfRef(p, i)) \ {flash[p].cells[i]}, new \in Pages :
          Take(new) /\ todo' = Reindex(p, new, SpanOfRef(p, i), d)
    /\ job' = Restart
\* There is none: the object is given up, and the scan goes on.  (For a reference
\* that leads nowhere the code makes up an empty page, but after one loss there is
\* always another one: the check would not end here, see CheckEnds.)
GiveUp(p, i) ==
    /\ Mismatch(p, i) /\ flash[p].cells[i] # Garbled
    /\ Found(DataOf(p), SpanOfRef(p, i)) \ {flash[p].cells[i]} = {}
    /\ todo' \in LazyDelete(flash[p].id) /\ UNCHANGED cursor
    /\ job' = [job EXCEPT !.at = p + 1, !.index = @ \cup {p},
                          !.refd = @ \cup {flash[p].cells[j] : j \in {k \in Refs(p) : k < i}}]
\* Two index pages refer to the same page: the object is given up, this index page
\* is deleted, and the scan starts again.
DropTwice(p, i) ==
    /\ ~Mismatch(p, i)
    /\ \E lazy \in LazyDelete(flash[p].id) : todo' = lazy \o Delete(p)
    /\ job' = Restart /\ UNCHANGED cursor
MendRef(p) ==
    /\ Faults(p) # {}
    /\ LET i == Min(Faults(p)) IN
       RemapRef(p, i) \/ GiveUp(p, i) \/ DropTwice(p, i)

CheckRefs ==
    /\ CheckRunning("check pages")
    /\ IF IndexFrom(job.at) = {}
       THEN job' = [job EXCEPT !.op = "check unreferenced", !.at = 0] /\ UNCHANGED <<cursor, todo>>
       ELSE LET p == Min(IndexFrom(job.at)) IN MarkRefs(p) \/ MendRef(p)
    /\ KeepAll

\* A page in use that is no index page and that nothing refers to.
Unreferenced(from) ==
    {p \in Pages : /\ p >= from /\ p \notin job.refd /\ p \notin job.index
                   /\ Has(p, {"used"}, {"dele"})}
\* A header given up before may be passed over: in the cache it is not in use, as the
\* flag was written blindly (SpiffsCache).
\* The index refers to a page that will do, or to another one that will not.  That
\* it refers to this very page, which will not do, never comes up (CheckEnds).
GoodRef(p, d) == /\ d \in Pages /\ flash[d].id = DataId(OwnerOf(flash[p].id))
                 /\ Has(d, {"used", "final"}, {"index", "dele"})
BadRef(p, d) == d # p /\ ~GoodRef(p, d)
CheckUnreferenced ==
    /\ CheckRunning("check unreferenced")
    /\ IF Unreferenced(job.at) = {}
       THEN job' = [op |-> "checked"] /\ UNCHANGED <<cursor, todo>>
       ELSE LET p == Min(Unreferenced(job.at))
                refs == RefPages(flash[p].id, Span(p))
            IN  \/ /\ refs = {} \/ \E q \in refs : GoodRef(p, RefIn(q, Span(p)))
                   /\ todo' = Delete(p) /\ job' = [job EXCEPT !.at = p + 1] /\ UNCHANGED cursor
                \/ /\ \E q \in refs :
                        /\ BadRef(p, RefIn(q, Span(p)))
                        /\ \E new \in Pages : Take(new) /\ todo' = Reindex(q, new, Span(p), p)
                   /\ job' = Restart
                \/ /\ "ixdele" \in flash[p].flags
                   /\ job' = [job EXCEPT !.at = p + 1] /\ UNCHANGED <<cursor, todo>>
    /\ KeepAll

EndCheck ==
    /\ CheckRunning("checked")
    /\ job' = Idle /\ mended' = TRUE
    /\ torn' = {o \in torn : mended \/ Cardinality(want[o]) > 1}
    /\ UNCHANGED <<flash, cursor, todo, want, calls, losses, spoiled>>

-----------------------------------------------------------------------------
(* Power losses *)

\* The file that a call writes, or whose data the collector moves or moved last.
Handled == IF "o" \in DOMAIN job THEN {job.o} ELSE {}

\* What the check cannot be trusted with: a file with two index pages of a span,
\* as the new one is finished before the old one goes; one being emptied.
Twins == {o \in Objs : \E i \in 0 .. IxSpan(MaxSpan) : Cardinality(Found(IxId(o), i)) > 1}
Emptied == {o \in Handled : "new" \in DOMAIN job /\ job.new = <<>> /\ Absent \notin want[o]}
Loses == Twins \cup Emptied
\* Data appended after the check to a file that a call was broken off on: its
\* index may have references beyond its size, and they are written over.
Reused == {o \in torn : job'.op = "append" /\ job'.o = o}

\* Power is lost in the middle of a call, of the collector or of a check.
PowerLoss ==
    /\ ~Quiet /\ losses < MaxLosses
    /\ losses' = losses + 1
    /\ todo' = <<>> /\ job' = Idle /\ cursor' = 0 /\ mended' = FALSE
    /\ torn' = torn \cup Handled /\ spoiled' = spoiled \cup Loses
    /\ UNCHANGED <<flash, want, calls>>

-----------------------------------------------------------------------------
PowerInit == Init /\ losses = 0 /\ mended = TRUE /\ torn = {} /\ spoiled = {}

\* After a loss the application has the file system checked before it goes on.
CallBegins ==
    /\ mended /\ BeginCall /\ spoiled' = spoiled \cup Reused
    /\ UNCHANGED <<losses, mended, torn>>
CallGoesOn == CallStep /\ UNCHANGED <<losses, mended, torn, spoiled>>
CheckStep == CheckLookup \/ CheckIndex \/ CheckRefs \/ CheckUnreferenced \/ EndCheck

PowerNext == CallBegins \/ CallGoesOn \/ BeginCheck \/ CheckStep \/ PowerLoss
PowerSpec ==
    /\ PowerInit /\ [][PowerNext]_pvars
    /\ WF_pvars(CallGoesOn) /\ WF_pvars(CheckStep)

-----------------------------------------------------------------------------
\* The locals of the check, next to those of a call.
CheckOK ==
    CASE job.op \in {"check lookup", "check index"} -> job.at \in 0 .. (B * N)
      [] job.op \in {"check pages", "check unreferenced"} ->
           job.at \in 0 .. (B * N) /\ job.refd \subseteq Pages /\ job.index \subseteq Pages
      [] job.op = "checked" -> TRUE
      [] OTHER -> JobOK
PowerTypeOK ==
    /\ flash \in [Pages -> PageType] /\ cursor \in 0 .. (B * N)
    /\ todo \in Seq([page : Pages, image : PageType]) /\ CheckOK
    /\ losses \in 0 .. MaxLosses /\ mended \in BOOLEAN
    /\ torn \subseteq Objs /\ spoiled \subseteq Objs

\* Wherever power is lost, the lookup and the header of a page never name two
\* files, nor disagree on whether it is an index page.
NamesAgree ==
    \A p \in Pages : (InUse(p) /\ flash[p].id # Blank) =>
        /\ flash[p].id = flash[p].lu
        /\ IsIndexId(flash[p].lu) <=> "index" \in flash[p].flags

\* After a power loss, before any check, a file that was not being written or
\* moved reads as its last call left it.
Undisturbed ==
    (Quiet /\ ~mended) => \A o \in Objs \ (torn \cup spoiled) : Outcomes(o) \subseteq want[o]

\* Once SPIFFS_check has run, every file reads as it did, or as far as the broken
\* call had come, unless it is one of those the check cannot be trusted with.
Settled == Quiet /\ mended
SavedByCheck == Settled => \A o \in Objs \ spoiled : Outcomes(o) \subseteq want[o]

\* What spiffs_page_consistency_check says of a consistent file system holds after
\* it: every page is blank, or deleted in lookup and header, or an index page that
\* nothing refers to, or a data page one reference leads to.
RefsToPage(p) ==
    {<<q, i>> \in {q \in Pages : LiveIndex(q)} \X Cells :
        i \in Entries(Span(q)) /\ flash[q].cells[i] = p}
Consistent ==
    CheckRunning("checked") => \A p \in Pages :
        \/ flash[p] = BlankPage
        \/ flash[p].lu = Deleted /\ "dele" \in flash[p].flags
        \/ InUse(p) /\ LiveIndex(p) /\ RefsToPage(p) = {}
        \/ InUse(p) /\ Has(p, {"used"}, {"dele", "index"}) /\ Cardinality(RefsToPage(p)) = 1
        \/ OwnerOf(flash[p].id) \in spoiled

\* The check comes to its end although it starts its scan of the references again
\* after every repair.
CheckEnds == ("at" \in DOMAIN job) ~> Quiet

\* One power loss costs a file no more than the call it broke off, once SPIFFS_check
\* has run: spiffs.h has files lost in "repeated powerlosses in mending or gc" only.
OneLossIsMended ==
    (CheckRunning("checked") /\ ~mended /\ losses = 1) =>
        \A o \in Objs : Outcomes(o) \subseteq want[o]

\* SPIFFS_check "removes orphaned and partially deleted index pages".
NoOrphans ==
    CheckRunning("checked") => \A p \in Pages : LiveIndex(p) => Found(flash[p].id, 0) # {}
=============================================================================
