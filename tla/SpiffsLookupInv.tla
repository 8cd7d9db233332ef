--------------------------- MODULE SpiffsLookupInv ---------------------------
(***************************************************************************)
(* The inductive invariants of SpiffsLookup, for callers that give         *)
(* SPIFFS_gc_quick no free pages to erase (QuickMax = 0): IInv, what keeps *)
(* flash consistent, and FilesInv, what keeps the files whole.             *)
(***************************************************************************)
EXTENDS SpiffsLookup

Cleaning == pc \in {"find", "moveData", "moveIx"}
Working == pc \in {"work", "store"}
Sound(w, o, s) == w[s] # NoPage => w[s] \in Pages /\ lu[w[s]] = DataEntry(o, s)

\* Inside a block the cursor parts the entries in use from the free ones; before
\* its first entry and past its last it says nothing.
CursorParts ==
    cursor[2] \in 1 .. (N - 1) =>
        \A e \in Entries : <<cursor[1], e>> \in FreePages <=> e >= cursor[2]

\* When the free cursor has come back into the block that is cleaned, the entry
\* before it is the page moved last, and the scan has yet to pass it.
LastMoved == lu[<<cursor[1], cursor[2] - 1>>]
CursorInCleaned ==
    Cleaning /\ cursor[1] = gc.bix /\ cursor[2] # N =>
        /\ cursor[2] # 0
        /\ \/ pc # "moveIx" /\ LastMoved.kind = "index"
           \/ pc = "moveIx" /\ LastMoved.kind = "index" /\ cursor[2] - 1 >= gc.entry
           \/ /\ pc = "moveData" /\ LastMoved.kind = "data"
              /\ LastMoved.obj = gc.obj /\ cursor[2] - 1 >= gc.entry

\* What the scan of the block has passed is gone from it.
Passed ==
    \A e \in Entries :
        /\ pc = "find" /\ lu[<<gc.bix, e>>].kind = "data" => e >= gc.entry
        /\ pc = "moveData" /\ lu[<<gc.bix, e>>].kind = "data" /\ e < gc.stored =>
              lu[<<gc.bix, e>>].obj = gc.obj /\ e >= gc.entry
        /\ pc = "moveIx" => lu[<<gc.bix, e>>].kind # "data"
        /\ pc = "moveIx" /\ lu[<<gc.bix, e>>].kind = "index" => e >= gc.entry

\* The index pages in flash, those of running calls set apart.
RefsSound ==
    \A o \in Objs \ damaged, s \in Spans :
        \/ Sound(refs[o], o, s)
        \/ pc = "moveData" /\ gc.obj = o
        \/ Working /\ op.obj = o /\ op.kind # "create"

\* The index page the collector has in memory.
GcWorkSound ==
    pc = "moveData" =>
        /\ Exists(gc.obj)
        /\ \A s \in Spans : gc.obj \in damaged \/ Sound(gc.work, gc.obj, s)
        /\ \A s \in SpansOf(gc.obj) : gc.work[s] # NoPage

\* The index page the running call has in memory; what a modify has yet to
\* replace is sound even after it lost a page.
OpWorkSound ==
    Working /\ op.kind # "create" =>
        \A s \in Spans :
            \/ Sound(op.work, op.obj, s)
            \/ op.obj \in damaged /\ ~(pc = "work" /\ op.kind = "modify" /\ s >= op.at)

\* A modify stays within the file.
ModifyInside ==
    op.kind = "modify" =>
        /\ pc # "idle" /\ ~Working =>
              op.obj \notin damaged /\ op.at .. op.last \subseteq SpansOf(op.obj)
        /\ pc = "work" =>
              \A s \in op.at .. op.last : s \in Spans /\ op.work[s] # NoPage

\* A call runs on a sound file that exists, or on one that does not yet; a
\* modify may lose pages of it on the way.
OpExists ==
    /\ op.kind \in {"append", "modify", "truncate", "rename"} => Exists(op.obj)
    /\ op.kind \in {"append", "truncate", "rename"} => op.obj \notin damaged
    /\ op.kind = "create" => IndexPages(op.obj) = {}
    /\ op.kind = "remove" =>
          /\ pc = "store" /\ op.work = NoRefs
          /\ IndexPages(op.obj) # {} /\ ~Exists(op.obj)
    /\ pc = "store" => op.kind # "create"

NoIndexNoRefs == \A o \in Objs : ~Exists(o) => refs[o] = NoRefs

DamagedExist == \A o \in damaged : Exists(o)

OnlyIndex == \A o \in Objs : \A p, q \in IndexPages(o) : p = q

IInv ==
    /\ TypeOK /\ StatsExact /\ FreeSuffix
    /\ CursorParts /\ CursorInCleaned /\ Passed
    /\ RefsSound /\ GcWorkSound /\ OpWorkSound
    /\ ModifyInside /\ OpExists /\ NoIndexNoRefs /\ DamagedExist /\ OnlyIndex

-----------------------------------------------------------------------------
(* No file loses a page, or has a gap: the second layer, on top of IInv *)

\* The index of a file that counts: the one in memory, if a call or the
\* collector is at work on it.
Index(o) ==
    IF pc = "moveData" /\ gc.obj = o THEN gc.work
    ELSE IF Working /\ op.obj = o /\ op.kind # "create" THEN op.work
    ELSE refs[o]
Named(w) == {s \in Spans : w[s] # NoPage}

\* Each data page of a file is named by its index.
NoLeaks ==
    \A p \in Pages : lu[p].kind = "data" =>
        \/ lu[p].obj \in damaged \/ ~Exists(lu[p].obj)
        \/ Index(lu[p].obj)[lu[p].span] = p

\* The id of a file about to be created has no pages.
FreshId ==
    op.kind = "create" => \A p \in Pages : lu[p].kind = "data" => lu[p].obj # op.obj

Gapless == \A o \in Objs \ damaged : SpansOf(o) = 0 .. (SizeOf(o) - 1)

\* Moving pages changes no length.
GcSpans ==
    pc = "moveData" /\ gc.obj \notin damaged => Named(gc.work) = SpansOf(gc.obj)

\* The length a running call has reached.
WorkSpans ==
    op.obj \notin damaged =>
        /\ op.kind = "append" /\ ~Working => op.at = SizeOf(op.obj)
        /\ op.kind = "append" /\ Working =>
              op.at >= SizeOf(op.obj) /\ Named(op.work) = 0 .. (op.at - 1)
        /\ op.kind \in {"modify", "rename"} /\ Working => Named(op.work) = SpansOf(op.obj)
        /\ op.kind = "truncate" /\ pc = "store" => op.work = NoRefs

IdleOp == pc = "idle" => op.obj = NoObj

FilesInv ==
    /\ IInv
    /\ NoLeaks /\ FreshId /\ Gapless /\ GcSpans /\ WorkSpans /\ IdleOp
=============================================================================
