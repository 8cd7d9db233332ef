---------------------------- MODULE SpiffsFlashInv ----------------------------
(***************************************************************************)
(* The inductive invariant of SpiffsFlash.  It is about the flash as it    *)
(* will be when the writes a call has decided on are made (soon): what is  *)
(* written is then whole, so a step of a call leads from one such flash to *)
(* the next, and the writes between them change nothing.                   *)
(***************************************************************************)
EXTENDS SpiffsFlash

\* What flash holds when it is blank, and the lookup entry of a deleted page, are
\* nobody's data.
ASSUME ValuesAssumption ==
    /\ Blank # Deleted /\ Blank # Garbled /\ Deleted # Garbled
    /\ \A v \in {Blank, Deleted, Garbled} : v \notin Nat /\ v \notin Ids

-----------------------------------------------------------------------------
(* The flash once a set of writes has reached it *)

\* What cells that are blank, or hold the same, come to.
Joined(vals) ==
    IF vals \subseteq {Blank} THEN Blank
    ELSE IF \E v \in vals : vals \ {Blank} = {v} THEN CHOOSE v \in vals : v # Blank
    ELSE Garbled
JoinedLu(vals) == IF Deleted \in vals THEN Deleted ELSE Joined(vals)
JoinedPage(images) ==
    [lu |-> JoinedLu({x.lu : x \in images}), id |-> Joined({x.id : x \in images}),
     span |-> Joined({x.span : x \in images}), flags |-> UNION {x.flags : x \in images},
     size |-> Joined({x.size : x \in images}),
     cells |-> [c \in Cells |-> Joined({x.cells[c] : x \in images})]]

ImagesOf(writes, p) == {w.image : w \in {v \in writes : v.page = p}}
Images(fl, writes, p) == {fl[p]} \cup ImagesOf(writes, p)
After(fl, writes) == [p \in Pages |-> JoinedPage(Images(fl, writes, p))]
Writes(s) == {s[i] : i \in DOMAIN s}
soon == After(flash, Writes(todo))

\* An entry of the lookup is written once, and then deleted once.
EntryOnce ==
    \A p \in Pages : \A x, y \in Images(flash, Writes(todo), p) :
        /\ x.lu # Garbled
        /\ {x.lu, y.lu} \cap {Blank, Deleted} = {} => x.lu = y.lu

-----------------------------------------------------------------------------
(* The running call *)

Writers == {"append", "modify", "truncate", "remove"}
Resizers == {"append", "truncate", "remove"}
CallShape == [op : Writers, o : Objs, hdr : Pages, begin : Nat, pos : Nat, end : Nat,
              ix : Nat \cup {NoIx}, ixp : Pages, cells : [Cells -> Values], new : Contents]
GcShape == [op : {"gc", "erase"}, block : 0 .. (B - 1)]
             \cup [op : {"gc", "erase"}, block : 0 .. (B - 1), o : Objs]
MoveShape == [op : {"gc move"}, block : 0 .. (B - 1), o : Objs, ix : Nat, ixp : Pages,
              cells : [Cells -> Values]]
ReturnShape == [op : {"return"}, o : Objs, new : Contents]
JobShape(j) == j \in CallShape \cup GcShape \cup MoveShape \cup ReturnShape \cup {Idle}

Calling(j, o) == j.op \in Writers /\ j.o = o
Resizing(j, o) == j.op \in Resizers /\ j.o = o
Returned(j, o) == j.op = "return" /\ j.o = o
Loaded(j) == j.op \in Writers \cup {"gc move"} /\ j.ix # NoIx

\* The references of index page q: in memory, when it is loaded.
View(fl, j) == [q \in Pages |-> IF Loaded(j) /\ q = j.ixp THEN j.cells ELSE fl[q].cells]

IsIx(fl, o, i, q) == fl[q].lu = IxId(o) /\ fl[q].span = i
IsData(fl, o, s, p) == fl[p].lu = DataId(o) /\ fl[p].span = s

\* The call is at the index page it has loaded, or has just filled or emptied it.
AtIx(j) ==
    \/ j.pos < j.end /\ j.ix = IxSpan(j.pos \div U)
    \/ j.pos > j.begin /\ j.ix = IxSpan(PageSpan(j.pos))
AppendOK(fl, j) ==
    j.op = "append" =>
        /\ j.begin <= j.pos /\ j.pos <= j.end /\ j.end <= MaxSize
        /\ j.new \in Seq(Values) /\ Len(j.new) = j.end
        /\ IsIx(fl, j.o, 0, j.hdr)
        /\ j.ix # NoIx => AtIx(j) /\ \A c \in Cells : fl[j.ixp].cells[c] \in {Blank, j.cells[c]}
        /\ j.ix = NoIx => /\ j.pos < j.end
                          /\ j.pos > j.begin => IxSpan(j.pos \div U) > IxSpan(PageSpan(j.pos))
        /\ j.begin = 0 /\ (j.ix = 0 \/ j.pos = 0) => fl[j.hdr].size = Blank
ModifyOK(fl, j) ==
    j.op = "modify" =>
        /\ j.begin <= j.pos /\ j.pos <= j.end /\ j.end <= Len(j.new)
        /\ j.new \in Seq(Values)
        /\ j.ix # NoIx => AtIx(j)
        /\ j.ix = NoIx => /\ j.pos < j.end
                          /\ IxSpan(j.pos \div U) = 0 => IsIx(fl, j.o, 0, j.hdr)
TruncateOK(fl, j) ==
    j.op \in {"truncate", "remove"} =>
        /\ j.pos <= j.begin /\ j.new = (IF j.op = "remove" THEN Absent ELSE <<>>)
        /\ IsIx(fl, j.o, 0, j.hdr)
        /\ j.ix # NoIx => \/ j.ix = IxSpan(PageSpan(j.pos))
                          \/ j.pos % U = 0 /\ j.ix = IxSpan(j.pos \div U)
        /\ j.ix = 0 => j.ixp = j.hdr
Clean(cells) == \A c \in Cells : cells[c] # Garbled
LoadedOK(fl, j) == Loaded(j) => IsIx(fl, j.o, j.ix, j.ixp) /\ Clean(j.cells)
EraseOK(fl, j) == j.op = "erase" => \A p \in BlockPages(j.block) : fl[p].lu = Blank
\* What the call writes is its number.
Filling(j, n) ==
    j.op \in {"append", "modify"} => \A k \in (j.begin + 1) .. j.end : j.new[k] = n
CallOK(fl, j) ==
    /\ AppendOK(fl, j) /\ ModifyOK(fl, j) /\ TruncateOK(fl, j) /\ LoadedOK(fl, j)
    /\ EraseOK(fl, j)

-----------------------------------------------------------------------------
(* The pages *)

Spans == 0 .. MaxSpan
Marked(j, o, p) == j.op = "remove" /\ j.o = o /\ j.hdr = p
Erasing(j, p) == j.op = "erase" /\ p \in BlockPages(j.block)
DataPageOK(page) ==
    /\ page.id = page.lu /\ page.span \in Spans /\ page.size = Blank
    /\ {"final", "used"} \subseteq page.flags /\ page.flags \cap {"dele", "index", "ixdele"} = {}
IxPageOK(page, removed) ==
    /\ page.id = page.lu /\ page.span \in 0 .. IxSpan(MaxSpan)
    /\ page.size = Blank \/ (page.span = 0 /\ page.size \in 1 .. MaxSize)
    /\ {"final", "used", "index"} \subseteq page.flags /\ "dele" \notin page.flags
    /\ "ixdele" \in page.flags => removed
PageOK(fl, j, p) ==
    /\ Legible(fl[p])
    /\ fl[p].lu = Blank => fl[p] = BlankPage \/ Erasing(j, p)
    /\ \A o \in Objs : fl[p].lu = DataId(o) => DataPageOK(fl[p])
    /\ \A o \in Objs : fl[p].lu = IxId(o) =>
                         IxPageOK(fl[p], Marked(j, o, p))
PagesOK(fl, j) == \A p \in Pages : PageOK(fl, j, p)
\* There are no two pages of a span.
NoTwins(fl) ==
    \A p, q \in Pages : fl[p].lu \in Ids /\ fl[q].lu = fl[p].lu /\ fl[q].span = fl[p].span => p = q

-----------------------------------------------------------------------------
(* The files *)

NoPages(fl, o) == \A p \in Pages : fl[p].lu \notin {DataId(o), IxId(o)}
\* The index pages of file o are those of spans 0 to top, its data pages those of n
\* units; references lead from those to these, whatever is not used is blank.
SpansThere(fl, o, top) == \A i \in 0 .. top : \E q \in Pages : IsIx(fl, o, i, q)
TopMost(fl, o, top) == \A q \in Pages : fl[q].lu = IxId(o) => fl[q].span <= top
DataEnds(fl, o, n) ==
    \A p \in Pages : fl[p].lu = DataId(o) =>
        /\ fl[p].span <= PageSpan(n)
        /\ \A c \in 0 .. (U - 1) : fl[p].span * U + c >= n => fl[p].cells[c] = Blank
RefOK(fl, o, n, s, d) ==
    IF s <= PageSpan(n) THEN d \in Pages /\ IsData(fl, o, s, d) ELSE d = Blank
RefsOK(fl, refs, o, n) ==
    \A q \in Pages, s \in Spans :
        IsIx(fl, o, IxSpan(s), q) => RefOK(fl, o, n, s, refs[q][IxEntry(s)])
FileOK(fl, refs, o, n, top) ==
    SpansThere(fl, o, top) /\ TopMost(fl, o, top) /\ DataEnds(fl, o, n) /\ RefsOK(fl, refs, o, n)

\* The data pages of file o hold text, from and to excepted.
TextOK(fl, o, n, text, from, to) ==
    \A p \in Pages : fl[p].lu = DataId(o) =>
        \A c \in 0 .. (U - 1) :
            LET k == fl[p].span * U + c
            IN  k < n /\ ~(from <= k /\ k < to) => fl[p].cells[c] = text[k + 1]

SizeIn(page) == IF page.size = Blank THEN 0 ELSE page.size
UnitsOf(fl, j, h, o) == IF Resizing(j, o) THEN j.pos ELSE SizeIn(fl[h])
TopOf(j, o, n) ==
    IF Loaded(j) /\ Resizing(j, o) /\ j.ix > IxSpan(PageSpan(n)) THEN j.ix ELSE IxSpan(PageSpan(n))

\* What a file holds: as the running call is to leave it, or as the last one did.
HoldsText(fl, j, w, o, n) ==
    IF Calling(j, o) \/ Returned(j, o)
    THEN CASE j.op = "append" -> TextOK(fl, o, n, j.new, n, n)
           [] j.op = "modify" -> Len(j.new) = n /\ TextOK(fl, o, n, j.new, j.pos, j.end)
           [] j.op = "return" -> /\ j.new \in Seq(Values) /\ Len(j.new) = n
                                 /\ TextOK(fl, o, n, j.new, n, n)
           [] OTHER -> TRUE
    ELSE \E text \in w[o] : /\ w[o] = {text} /\ text \in Seq(Values) /\ Len(text) = n
                            /\ TextOK(fl, o, n, text, n, n)
ThereOK(fl, j, w, o) ==
    \E h \in Pages :
        LET n == UnitsOf(fl, j, h, o)
        IN  /\ IsIx(fl, o, 0, h) /\ n \in 0 .. MaxSize
            /\ FileOK(fl, View(fl, j), o, n, TopOf(j, o, n)) /\ HoldsText(fl, j, w, o, n)
GoneOK(fl, j, w, o) ==
    /\ NoPages(fl, o) /\ ~Calling(j, o)
    /\ IF Returned(j, o) THEN j.new = Absent ELSE w[o] = {Absent}
FilesOK(fl, j, w) == \A o \in Objs : ThereOK(fl, j, w, o) \/ GoneOK(fl, j, w, o)

-----------------------------------------------------------------------------
Sound(fl, j, w) == CallOK(fl, j) /\ PagesOK(fl, j) /\ NoTwins(fl) /\ FilesOK(fl, j, w)

\* Between any two writes: once the writes the call has decided on are made, every
\* file is whole, as the call left it so far, and no two of them write over each
\* other.  (The quantifier names soon, so that TLC evaluates it once.)
FlashSound ==
    /\ TypeOK /\ JobShape(job) /\ Filling(job, calls) /\ EntryOnce
    /\ \E fl \in {soon} : Sound(fl, job, want)

-----------------------------------------------------------------------------
(* A file has a header between any two writes *)

\* A page that a reader takes for the header of file x.
HeaderIs(page, x) ==
    /\ page.lu = IxId(x) /\ page.id = IxId(x) /\ page.span = 0
    /\ "final" \in page.flags /\ page.flags \cap {"dele", "ixdele"} = {}
Headed(fl, x) == \E g \in Pages : HeaderIs(fl[g], x)
\* The first i of the writes s.
Made(s, i) == {s[k] : k \in 1 .. i}
\* Whichever of the writes s were made, there is a header of file x.
Steady(fl, s, x) == \A i \in 0 .. Len(s) : Headed(After(fl, Made(s, i)), x)

\* A file no call creates or removes keeps a header; a call that returns leaves behind
\* what it may.
Guarded == \A x \in Objs : Absent \notin want[x] => Steady(flash, todo, x)
Promise == job.op \in Writers \cup {"return"} => job.new \in want[job.o]
Watched == Guarded /\ Promise

-----------------------------------------------------------------------------
\* What holds between any two writes, all of it: what is stored is not spoiled, is whole
\* once the writes decided on are made, and has its header on the way.
FlashIInv == FlashInv /\ FlashSound /\ Watched
=============================================================================
