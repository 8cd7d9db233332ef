--------------------------- MODULE SpiffsFlashProofs ---------------------------
(***************************************************************************)
(* SpiffsFlash keeps its inductive invariant, FlashSound: once the writes  *)
(* a call has decided on are made (soon), every file is whole, as the call *)
(* left it so far, and no two of them write over each other.  First what a *)
(* state is like in which a call decides (Deciding), then each action in   *)
(* turn.  What readers find, at rest and at any moment, follows.           *)
(***************************************************************************)
EXTENDS SpiffsFlashWrites

-----------------------------------------------------------------------------
(* Facts of a state in which a call decides *)

\* A free page is blank.
LEMMA FreePage ==
  ASSUME NEW fl, NEW j, PagesOK(fl, j), j.op # "erase", NEW p \in Pages, fl[p].lu = Blank
  PROVE  fl[p] = BlankPage
  BY DEF PagesOK, PageOK, Erasing

LEMMA IxPage ==
  ASSUME NEW fl, NEW j, PagesOK(fl, j), NEW o \in Objs, NEW q \in Pages, fl[q].lu = IxId(o)
  PROVE  /\ Legible(fl[q]) /\ IxPageOK(fl[q], Marked(j, o, q))
         /\ fl[q].id = IxId(o) /\ fl[q].span \in Nat /\ fl[q].span <= IxSpan(MaxSpan)
  <1>1. Legible(fl[q]) /\ IxPageOK(fl[q], Marked(j, o, q))
    BY DEF PagesOK, PageOK
  <1>2. MaxSpan \in Int /\ MaxSpan >= -1
    BY SpanType, Lengths DEF MaxSpan
  <1>3. IxSpan(MaxSpan) \in Nat
    BY <1>2, IxSpanType
  <1>4. fl[q].id = fl[q].lu /\ fl[q].span \in 0 .. IxSpan(MaxSpan)
    BY <1>1 DEF IxPageOK
  <1> QED BY <1>1, <1>3, <1>4

LEMMA DataPage ==
  ASSUME NEW fl, NEW j, PagesOK(fl, j), NEW o \in Objs, NEW p \in Pages, fl[p].lu = DataId(o)
  PROVE  /\ Legible(fl[p]) /\ DataPageOK(fl[p])
         /\ fl[p].id = DataId(o) /\ fl[p].span \in Nat /\ fl[p].span \in Spans
  <1>1. Legible(fl[p]) /\ DataPageOK(fl[p])
    BY DEF PagesOK, PageOK
  <1>2. fl[p].id = fl[p].lu /\ fl[p].span \in Spans
    BY <1>1 DEF DataPageOK
  <1> QED BY <1>1, <1>2, SpansAre

\* The pages of a span are one.
LEMMA OneIx ==
  ASSUME NEW fl, NoTwins(fl), NEW o \in Objs, NEW i, NEW p \in Pages, NEW q \in Pages,
         IsIx(fl, o, i, p), IsIx(fl, o, i, q)
  PROVE  p = q
  BY IdsDistinct DEF NoTwins, IsIx

LEMMA OneData ==
  ASSUME NEW fl, NoTwins(fl), NEW o \in Objs, NEW s, NEW p \in Pages, NEW q \in Pages,
         IsData(fl, o, s, p), IsData(fl, o, s, q)
  PROVE  p = q
  BY IdsDistinct DEF NoTwins, IsData

-----------------------------------------------------------------------------
(* Steps *)

\* What is known when the call decides what to do next.
Deciding ==
    /\ StateTyped /\ flash \in Flashes /\ JobShape(job) /\ Filling(job, calls)
    /\ CallOK(flash, job) /\ PagesOK(flash, job) /\ NoTwins(flash) /\ FilesOK(flash, job, want)
    /\ \A q \in Pages : flash[q].lu # Garbled
    /\ AppendOK(flash, job) /\ ModifyOK(flash, job) /\ TruncateOK(flash, job)
    /\ LoadedOK(flash, job)

LEMMA DecidingFrom ==
  ASSUME FlashSound, todo = <<>>
  PROVE  Deciding
  <1>1. soon = flash
    BY SoundParts, SoonNow
  <1>2. PagesOK(flash, job) /\ CallOK(flash, job)
    BY <1>1, SoundParts
  <1>3. \A q \in Pages : flash[q].lu # Garbled
    BY <1>2 DEF PagesOK, PageOK, Legible
  <1> QED BY <1>1, <1>2, <1>3, SoundParts DEF Deciding, StateTyped, CallOK

\* What is to be shown of the state it leads to.
LEMMA Concluded ==
  ASSUME Deciding, UNCHANGED flash, NEW gl, NEW p, NEW id, id # Garbled,
         Leads(flash, todo', gl, p, id), p \in Pages => flash[p].lu = Blank,
         cursor' \in 0 .. (B * N), want' \in [Objs -> SUBSET Contents],
         calls' \in 0 .. MaxCalls, JobShape(job'), Filling(job', calls'),
         CallOK(gl, job'), PagesOK(gl, job'), NoTwins(gl), FilesOK(gl, job', want')
  PROVE  FlashSound'
  <1>1. flash \in Flashes /\ flash' \in Flashes /\ \A q \in Pages : flash[q].lu # Garbled
    BY DEF Deciding
  <1>2. soon' = gl /\ todo' \in Seq(WriteType) /\ EntryOnce'
    BY <1>1, Decided
  <1>3. StateTyped'
    BY <1>1, <1>2 DEF StateTyped
  <1>4. CallOK(soon', job') /\ PagesOK(soon', job') /\ NoTwins(soon') /\ FilesOK(soon', job', want')
    BY <1>2
  <1> QED BY <1>2, <1>3, <1>4, SoundNext

\* The same when nothing is written.
LEMMA ConcludedQuietly ==
  ASSUME Deciding, UNCHANGED flash, todo' = <<>>,
         cursor' \in 0 .. (B * N), want' \in [Objs -> SUBSET Contents],
         calls' \in 0 .. MaxCalls, JobShape(job'), Filling(job', calls'),
         CallOK(flash, job'), PagesOK(flash, job'), FilesOK(flash, job', want')
  PROVE  FlashSound'
  <1>1. flash \in Flashes /\ NoTwins(flash)
    BY DEF Deciding
  <1>2. Leads(flash, todo', flash, NoIx, Blank)
    BY <1>1, LeadsNone
  <1>3. NoIx \notin Pages /\ Blank # Garbled
    BY Lengths, ValuesAssumption
  <1> QED BY <1>1, <1>2, <1>3, Concluded

LEMMA Taken ==
  ASSUME Deciding, job.op # "erase", NEW p, Take(p)
  PROVE  /\ p \in Pages /\ flash[p].lu = Blank /\ flash[p] = BlankPage
         /\ cursor' \in 0 .. (B * N)
  <1>1. p \in Pages /\ flash[p].lu = Blank /\ cursor' = p + 1
    BY DEF Take, NextFree, FreePages
  <1>2. cursor' \in 0 .. (B * N)
    BY <1>1, Lengths DEF Pages
  <1> QED BY <1>1, <1>2, FreePage DEF Deciding

LEMMA Typed ==
  ASSUME StateTyped
  PROVE  /\ cursor \in 0 .. (B * N) /\ want \in [Objs -> SUBSET Contents]
         /\ calls \in 0 .. MaxCalls
  BY DEF StateTyped

\* Only the locals change.
LEMMA PagesSame ==
  ASSUME NEW fl, NEW j, NEW k, PagesOK(fl, j), j.op # "erase",
         \A o \in Objs, p \in Pages : Marked(j, o, p) /\ fl[p].lu = IxId(o) => Marked(k, o, p)
  PROVE  PagesOK(fl, k)
  <1>1. SUFFICES ASSUME NEW p \in Pages PROVE PageOK(fl, k, p)
    BY DEF PagesOK
  <1>2. PageOK(fl, j, p) /\ ~Erasing(j, p)
    BY DEF PagesOK, Erasing
  <1> QED BY <1>2, PageKept

LEMMA SameSame ==
  ASSUME NEW fl, NEW x
  PROVE  SamePages(fl, fl, x)
  BY DEF SamePages

\* Locals that are no call of the API's on a file.
LEMMA NoCall ==
  ASSUME NEW fl, NEW k, NEW n, k.op \in {"idle", "gc", "erase", "return"}
  PROVE  /\ k.op # "erase" => CallOK(fl, k)
         /\ Filling(k, n) /\ LoadedOK(fl, k) /\ ~Loaded(k)
         /\ k.op # "return" => \A x : ~About(k, x)
         /\ \A o, p : ~Marked(k, o, p)
  BY DEF CallOK, AppendOK, ModifyOK, TruncateOK, LoadedOK, EraseOK, Loaded, Writers, Filling,
         About, Marked

LEMMA IdleShape == JobShape(Idle) /\ Idle.op = "idle"
  BY DEF JobShape, Idle

-----------------------------------------------------------------------------
(* Init, Write and Return *)

LEMMA InitSound == Init => FlashSound
  <1> SUFFICES ASSUME Init PROVE FlashSound
    OBVIOUS
  <1>1. flash \in Flashes /\ \A p \in Pages : flash[p] = BlankPage
    BY BlankPageType DEF Init, Flashes
  <1>2. StateTyped
    BY <1>1, Lengths, FlashAssumption DEF Init, StateTyped, Contents, FlashAssumption
  <1>3. todo = <<>> /\ job = Idle /\ soon = flash
    BY <1>2, SoonNow DEF Init
  <1>4. /\ BlankPage.lu = Blank /\ BlankPage.id = Blank /\ BlankPage.span = Blank
        /\ BlankPage.size = Blank /\ BlankPage.cells = NoCells
    BY Blanks
  <1>5. Blank # Garbled /\ Blank \notin Ids
    BY ValuesAssumption
  <1>6. Legible(BlankPage)
    BY <1>4, <1>5 DEF Legible, NoCells
  <1>7. PagesOK(flash, job)
    <2>1. \A o \in Objs : Blank # DataId(o) /\ Blank # IxId(o)
      BY <1>5, IdsDistinct
    <2> QED BY <1>1, <1>4, <1>6, <2>1 DEF PagesOK, PageOK
  <1>8. NoTwins(flash)
    BY <1>1, <1>4, <1>5 DEF NoTwins
  <1>9. FilesOK(flash, job, want)
    <2>1. SUFFICES ASSUME NEW o \in Objs PROVE GoneOK(flash, job, want, o)
      BY DEF FilesOK
    <2>2. NoPages(flash, o)
      BY <1>1, <1>4, IdsDistinct DEF NoPages
    <2>3. ~Calling(job, o) /\ ~Returned(job, o)
      BY <1>3, IdleShape DEF Calling, Returned, Writers
    <2>4. want[o] = {Absent}
      BY DEF Init
    <2> QED BY <2>2, <2>3, <2>4 DEF GoneOK
  <1>10. EntryOnce
    BY <1>1, <1>3, <1>4, <1>5, EntryOnceNow
  <1>11. JobShape(job) /\ CallOK(soon, job) /\ Filling(job, calls)
    <2>1. job.op \in {"idle", "gc", "erase", "return"} /\ job.op # "erase" /\ JobShape(job)
      BY <1>3, IdleShape
    <2> QED BY <2>1, NoCall
  <1> QED BY <1>2, <1>3, <1>7, <1>8, <1>9, <1>10, <1>11, SoundFrom

LEMMA WriteSound ==
  ASSUME FlashSound, Write
  PROVE  FlashSound'
  <1>1. /\ StateTyped /\ JobShape(job) /\ Filling(job, calls) /\ EntryOnce
        /\ CallOK(soon, job) /\ PagesOK(soon, job) /\ NoTwins(soon) /\ FilesOK(soon, job, want)
    BY SoundParts
  <1>2. soon' = soon /\ EntryOnce' /\ StateTyped'
    BY <1>1, Written
  <1>3. job' = job /\ want' = want /\ calls' = calls
    BY DEF Write
  <1>4. /\ JobShape(job') /\ Filling(job', calls')
        /\ CallOK(soon', job') /\ PagesOK(soon', job') /\ NoTwins(soon')
        /\ FilesOK(soon', job', want')
    BY <1>1, <1>2, <1>3
  <1> QED BY <1>2, <1>4, SoundNext

\* The text of file o is what the call that is over left behind.
LEMMA ReturnSound ==
  ASSUME FlashSound, Return
  PROVE  FlashSound'
  <1>1. job.op = "return" /\ todo = <<>> /\ job' = Idle
        /\ want' = [want EXCEPT ![job.o] = {job.new}] /\ UNCHANGED <<flash, cursor, todo, calls>>
    BY DEF Return, Running
  <1>2. Deciding
    BY <1>1, DecidingFrom
  <1>3. JobShape(job) /\ StateTyped
    BY <1>2 DEF Deciding
  <1>4. job.o \in Objs /\ job.new \in Contents
    BY <1>1, <1>3, JobKinds DEF ReturnShape
  <1> DEFINE o == job.o
             v == want'
  <1>5. /\ want \in [Objs -> SUBSET Contents] /\ cursor \in 0 .. (B * N)
        /\ calls \in 0 .. MaxCalls
    BY <1>3, Typed
  <1>6. /\ v \in [Objs -> SUBSET Contents] /\ v[o] = {job.new}
        /\ \A x \in Objs : x # o => v[x] = want[x]
    BY <1>1, <1>4, <1>5
  <1>7. /\ PagesOK(flash, job) /\ FilesOK(flash, job, want) /\ LoadedOK(flash, job)
    BY <1>2 DEF Deciding
  <1>8. /\ JobShape(job') /\ CallOK(flash, job') /\ Filling(job', calls') /\ LoadedOK(flash, job')
        /\ ~Loaded(job') /\ ~Loaded(job) /\ \A x : ~About(job', x)
    <2>1. /\ job'.op \in {"idle", "gc", "erase", "return"} /\ JobShape(job')
          /\ job'.op # "return" /\ job'.op # "erase" /\ job.op \in {"idle", "gc", "erase", "return"}
      BY <1>1, IdleShape
    <2> QED BY <2>1, NoCall
  <1>9. PagesOK(flash, job')
    BY <1>1, <1>7, NoCall, PagesSame
  <1>10. ThereOK(flash, job, want, o) => ThereOK(flash, job', v, o)
    <2>1. SUFFICES ASSUME NEW h \in Pages, NEW n \in 0 .. MaxSize, Whole(flash, job, want, o, h, n)
                   PROVE  ThereOK(flash, job', v, o)
      BY ThereWhole
    <2>2. /\ ~Calling(job, o) /\ ~Resizing(job, o) /\ Returned(job, o)
          /\ ~Calling(job', o) /\ ~Resizing(job', o) /\ ~Returned(job', o)
      BY <1>1, IdleShape DEF Calling, Resizing, Returned, Writers, Resizers
    <2>3. UnitsOf(flash, job', h, o) = n
      BY <2>1, <2>2 DEF Whole, UnitsOf
    <2>4. TopOf(job', o, n) = TopOf(job, o, n)
      BY <1>8 DEF TopOf
    <2>5. View(flash, job') = View(flash, job)
      BY <1>8 DEF View
    <2>6. /\ job.new \in Seq(Values) /\ Len(job.new) = n
          /\ TextOK(flash, o, n, job.new, n, n)
      <3>1. HoldsText(flash, job, want, o, n)
        BY <2>1 DEF Whole
      <3>2. job.op # "append" /\ job.op # "modify"
        BY <1>1
      <3> QED BY <1>1, <2>2, <3>1, <3>2, ZenonT(60) DEF HoldsText
    <2>7. HoldsText(flash, job', v, o, n)
      <3>1. \E text \in v[o] : /\ v[o] = {text} /\ text \in Seq(Values) /\ Len(text) = n
                               /\ TextOK(flash, o, n, text, n, n)
        BY <1>6, <2>6
      <3> HIDE DEF v
      <3> QED BY <2>2, <3>1, ZenonT(60) DEF HoldsText
    <2>8. Whole(flash, job', v, o, h, n)
      <3> HIDE DEF v
      <3> QED BY <2>1, <2>3, <2>4, <2>5, <2>7 DEF Whole
    <2> QED BY <2>8, ThereWhole
  <1>11. GoneOK(flash, job, want, o) => GoneOK(flash, job', v, o)
    <2>1. SUFFICES ASSUME GoneOK(flash, job, want, o) PROVE GoneOK(flash, job', v, o)
      OBVIOUS
    <2>2. Returned(job, o) /\ ~Calling(job', o) /\ ~Returned(job', o)
      BY <1>1, IdleShape DEF Calling, Returned, Writers
    <2>3. job.new = Absent /\ NoPages(flash, o)
      BY <2>1, <2>2 DEF GoneOK
    <2> QED BY <1>6, <2>2, <2>3 DEF GoneOK
  <1>12. \A x \in Objs : x # o => /\ ~About(job, x) /\ ~About(job', x)
                                  /\ SamePages(flash, flash, x) /\ v[x] = want[x]
    BY <1>6, <1>8, SameSame DEF About
  <1>13. FilesOK(flash, job', v)
    <2>1. ThereOK(flash, job', v, o) \/ GoneOK(flash, job', v, o)
      BY <1>4, <1>7, <1>10, <1>11 DEF FilesOK
    <2> HIDE DEF v
    <2> QED BY <1>3, <1>4, <1>7, <1>8, <1>12, <2>1, FilesStep
  <1> QED BY <1>1, <1>2, <1>5, <1>6, <1>8, <1>9, <1>13, ConcludedQuietly

-----------------------------------------------------------------------------
(* Reading *)

\* The page that is found for a span, and the one header.
LEMMA FoundIs ==
  ASSUME NEW j, PagesOK(flash, j), NoTwins(flash), NEW o \in Objs, NEW i \in Nat,
         NEW q \in Pages, IsIx(flash, o, i, q), i # 0 \/ ~Marked(j, o, q)
  PROVE  Found(IxId(o), i) = {q}
  <1>1. q \in Found(IxId(o), i)
    <2>1. IxPageOK(flash[q], Marked(j, o, q)) /\ flash[q].id = IxId(o) /\ flash[q].lu = IxId(o)
          /\ flash[q].span = i
      BY IxPage DEF IsIx
    <2>2. Has(q, {"final", "used"}, {"dele"})
      BY <2>1 DEF IxPageOK, Has
    <2>3. ~("ixdele" \in flash[q].flags /\ flash[q].span = 0)
      BY <2>1 DEF IxPageOK
    <2>4. HeaderMatches(q, IxId(o), i)
      BY <2>1, <2>2, <2>3 DEF HeaderMatches
    <2> QED BY <2>1, <2>4 DEF Found
  <1>2. \A p \in Found(IxId(o), i) : p = q
    <2>1. \A p \in Found(IxId(o), i) : p \in Pages /\ IsIx(flash, o, i, p)
      BY DEF Found, HeaderMatches, IsIx
    <2> QED BY <2>1, OneIx
  <1> QED BY <1>1, <1>2

LEMMA FoundIx ==
  ASSUME NEW o \in Objs, NEW i, NEW p \in Found(IxId(o), i)
  PROVE  p \in Pages /\ IsIx(flash, o, i, p)
  BY DEF Found, HeaderMatches, IsIx

LEMMA HeadersAre ==
  ASSUME NEW o \in Objs, NEW p \in Headers(o)
  PROVE  p \in Pages /\ IsIx(flash, o, 0, p) /\ HeaderSize(p) = SizeIn(flash[p])
  BY DEF Headers, IsIx, HeaderSize, SizeIn

LEMMA HeaderThere ==
  ASSUME NEW j, PagesOK(flash, j), NEW o \in Objs, NEW h \in Pages,
         IsIx(flash, o, 0, h), ~Marked(j, o, h)
  PROVE  h \in Headers(o)
  <1>1. IxPageOK(flash[h], Marked(j, o, h)) /\ flash[h].id = IxId(o) /\ flash[h].lu = IxId(o)
        /\ flash[h].span = 0
    BY IxPage DEF IsIx
  <1>2. Has(h, {"final"}, {"dele", "ixdele"})
    BY <1>1 DEF IxPageOK, Has
  <1> QED BY <1>1, <1>2 DEF Headers

LEMMA DataIsOK ==
  ASSUME NEW j, PagesOK(flash, j), NEW o \in Objs, NEW s, NEW d \in Pages,
         IsData(flash, o, s, d)
  PROVE  DataOK(d, s)
  <1>1. DataPageOK(flash[d]) /\ flash[d].span = s
    BY DataPage DEF IsData
  <1> QED BY <1>1 DEF DataOK, Has, DataPageOK

\* A file that is whole reads as its text, whichever index pages are found.
LEMMA ReadsText ==
  ASSUME PagesOK(flash, Idle), NoTwins(flash), NEW o \in Objs, NEW h \in Pages,
         NEW n \in 0 .. MaxSize, NEW top, NEW refs, NEW text \in Seq(Values),
         IsIx(flash, o, 0, h), n = HeaderSize(h), top = IxSpan(PageSpan(n)),
         \A q \in Pages : refs[q] = flash[q].cells,
         FileOK(flash, refs, o, n, top), Len(text) = n, TextOK(flash, o, n, text, n, n),
         NEW ixs, \A i \in 1 .. IxSpan(MaxSpan) :
                     ixs[i] \in IF Found(IxId(o), i) = {} THEN {Blank} ELSE Found(IxId(o), i)
  PROVE  ReadVia(h, ixs) = text
  <1> DEFINE page(s) == IF IxSpan(s) = 0 THEN h ELSE ixs[IxSpan(s)]
             ref(s) == IF page(s) = Blank THEN Blank ELSE flash[page(s)].cells[IxEntry(s)]
  <1>1. n \in Nat /\ n <= MaxSize /\ MaxSize \in Nat /\ n # Garbled
    BY Lengths, ValuesAssumption
  <1>2. /\ PageSpan(n) \in Int /\ PageSpan(n) >= -1 /\ PageSpan(n) <= MaxSpan
        /\ MaxSpan \in Int /\ MaxSpan >= -1
    BY <1>1, SpanType, SpanMonotone DEF MaxSpan
  <1>3. \A s \in Nat : s <= PageSpan(n) => ref(s) \in Pages /\ IsData(flash, o, s, ref(s))
    <2>1. SUFFICES ASSUME NEW s \in Nat, s <= PageSpan(n)
                   PROVE  ref(s) \in Pages /\ IsData(flash, o, s, ref(s))
      OBVIOUS
    <2>2. s \in Spans
      BY <1>2, <2>1 DEF Spans
    <2>3. IxSpan(s) \in Nat /\ IxSpan(s) <= top /\ IxSpan(s) <= IxSpan(MaxSpan)
      BY <1>2, <2>1, <2>2, SpansAre, IxSpanMonotone
    <2>4. page(s) \in Pages /\ IsIx(flash, o, IxSpan(s), page(s))
      <3>1. CASE IxSpan(s) = 0
        BY <3>1
      <3>2. CASE IxSpan(s) # 0
        <4> DEFINE i == IxSpan(s)
        <4>1. top \in Nat /\ IxSpan(MaxSpan) \in Nat
          BY <1>2, IxSpanType
        <4>2. i \in 0 .. top /\ i \in 1 .. IxSpan(MaxSpan) /\ i \in Nat
          BY <2>3, <3>2, <4>1
        <4> HIDE DEF i
        <4>3. PICK q \in Pages : IsIx(flash, o, i, q)
          BY <4>2 DEF FileOK, SpansThere
        <4>4. i # 0
          BY <4>2
        <4>5. Found(IxId(o), i) = {q}
          BY <4>2, <4>3, <4>4, FoundIs
        <4>6. ixs[i] = q
          <5>1. ixs[i] \in IF Found(IxId(o), i) = {} THEN {Blank} ELSE Found(IxId(o), i)
            BY <4>2
          <5>2. Found(IxId(o), i) # {}
            BY <4>5
          <5> QED BY <4>5, <5>1, <5>2
        <4>7. page(s) = q
          BY <3>2, <4>6 DEF i
        <4> QED BY <4>3, <4>7 DEF i
      <3> QED BY <3>1, <3>2
    <2>5. page(s) # Blank
      BY <2>4, ValuesAssumption DEF Pages
    <2>6. ref(s) = refs[page(s)][IxEntry(s)]
      BY <2>4, <2>5
    <2>7. RefOK(flash, o, n, s, refs[page(s)][IxEntry(s)])
      <3> HIDE DEF page
      <3> QED BY <2>2, <2>4 DEF FileOK, RefsOK
    <2> HIDE DEF page, ref
    <2> QED BY <2>1, <2>6, <2>7 DEF RefOK
  <1> HIDE DEF page
  <1>4. \A s \in 0 .. PageSpan(n) : DataOK(ref(s), s)
    <2>1. SUFFICES ASSUME NEW s \in 0 .. PageSpan(n) PROVE DataOK(ref(s), s)
      OBVIOUS
    <2>2. s \in Nat /\ s <= PageSpan(n)
      BY <1>2, <2>1
    <2> HIDE DEF ref
    <2> QED BY <1>3, <2>2, DataIsOK
  <1>5. \A k \in 1 .. n : flash[ref(PageSpan(k))].cells[(k - 1) % U] = text[k]
    <2>1. SUFFICES ASSUME NEW k \in 1 .. n
                   PROVE  flash[ref(PageSpan(k))].cells[(k - 1) % U] = text[k]
      OBVIOUS
    <2> DEFINE x == k - 1
               s == x \div U
               c == x % U
    <2>2. x \in Nat /\ k \in Nat /\ k <= n
      BY <1>1, <2>1
    <2>3. s \in Nat /\ c \in 0 .. (U - 1) /\ x = First(s) + c
      <3> HIDE DEF x
      <3> QED BY <2>2, UnitOf
    <2>4. PageSpan(k) = s
      BY DEF PageSpan
    <2>5. s <= PageSpan(n)
      <3>1. PageSpan(k) <= PageSpan(n)
        BY <1>1, <2>2, SpanMonotone
      <3> QED BY <2>4, <3>1
    <2> HIDE DEF s, c, x
    <2>6. ref(s) \in Pages /\ IsData(flash, o, s, ref(s))
      BY <1>3, <2>3, <2>5
    <2> DEFINE d == ref(s)
    <2> HIDE DEF d
    <2>7. d \in Pages /\ flash[d].lu = DataId(o) /\ flash[d].span = s
      BY <2>6 DEF d, IsData
    <2>8. s * U + c = x /\ x + 1 = k /\ x < n
      BY <2>1, <2>2, <2>3 DEF First, x
    <2>9. flash[d].cells[c] = text[x + 1]
      <3>1. /\ flash[d].span * U + c < n
            /\ ~(n <= flash[d].span * U + c /\ flash[d].span * U + c < n)
        BY <1>1, <2>2, <2>7, <2>8
      <3>2. flash[d].cells[c] = text[flash[d].span * U + c + 1]
        BY <2>3, <2>7, <3>1, Zenon DEF TextOK
      <3> QED BY <2>7, <2>8, <3>2
    <2>10. c = (k - 1) % U
      BY DEF c, x
    <2> QED BY <2>4, <2>8, <2>9, <2>10 DEF d
  <1>6. ~(n = Garbled \/ (n > 0 /\ \E s \in 0 .. PageSpan(n) : ~DataOK(ref(s), s)))
    <2> HIDE DEF ref
    <2> QED BY <1>1, <1>4
  <1>7. ReadVia(h, ixs) = [k \in 1 .. n |-> flash[ref(PageSpan(k))].cells[(k - 1) % U]]
    BY <1>6, Zenon DEF ReadVia, page
  <1>8. text = [k \in 1 .. n |-> text[k]]
    OBVIOUS
  <1> HIDE DEF ref
  <1> QED BY <1>5, <1>7, <1>8

\* What a reader may get was read by a header, and by index pages the search found.
LEMMA OutcomeVia ==
  ASSUME NEW o, NEW h, Headers(o) = {h}, NEW x \in Outcomes(o)
  PROVE  \E ixs : /\ x = ReadVia(h, ixs)
                  /\ \A i \in 1 .. IxSpan(MaxSpan) :
                       ixs[i] \in IF Found(IxId(o), i) = {} THEN {Blank} ELSE Found(IxId(o), i)
  <1>1. Headers(o) # {}
    OBVIOUS
  <1>2. \E hh \in Headers(o), ixs \in IxChoices(o) : x = ReadVia(hh, ixs)
    BY <1>1 DEF Outcomes
  <1>3. PICK ixs \in IxChoices(o) : x = ReadVia(h, ixs)
    BY <1>2
  <1>4. \A i \in 1 .. IxSpan(MaxSpan) :
          ixs[i] \in IF Found(IxId(o), i) = {} THEN {Blank} ELSE Found(IxId(o), i)
    BY DEF IxChoices
  <1> QED BY <1>3, <1>4

\* What is known of a file when no call runs.
LEMMA IdleFile ==
  ASSUME Deciding, job = Idle, NEW o \in Objs
  PROVE  \/ /\ GoneOK(flash, Idle, want, o) /\ Headers(o) = {} /\ want[o] = {Absent}
            /\ Outcomes(o) = {Absent}
         \/ \E h \in Pages, n \in 0 .. MaxSize, text \in Seq(Values) :
              /\ Headers(o) = {h} /\ n = HeaderSize(h) /\ IsIx(flash, o, 0, h)
              /\ FileOK(flash, View(flash, Idle), o, n, IxSpan(PageSpan(n)))
              /\ want[o] = {text} /\ Len(text) = n /\ TextOK(flash, o, n, text, n, n)
              /\ Outcomes(o) \subseteq {text}
  <1>1. /\ PagesOK(flash, Idle) /\ NoTwins(flash) /\ FilesOK(flash, Idle, want)
    BY DEF Deciding
  <1>2. /\ ~Calling(Idle, o) /\ ~Returned(Idle, o) /\ ~Resizing(Idle, o) /\ ~Loaded(Idle)
        /\ \A p : ~Marked(Idle, o, p)
    BY IdleShape DEF Calling, Returned, Resizing, Resizers, Writers, Loaded, Marked
  <1>3. CASE GoneOK(flash, Idle, want, o)
    <2>1. NoPages(flash, o) /\ want[o] = {Absent}
      BY <1>2, <1>3 DEF GoneOK
    <2>2. Headers(o) = {}
      BY <2>1 DEF NoPages, Headers
    <2>3. Outcomes(o) = {Absent}
      BY <2>2 DEF Outcomes
    <2> QED BY <1>3, <2>1, <2>2, <2>3
  <1>4. CASE ThereOK(flash, Idle, want, o)
    <2>1. PICK h \in Pages, n \in 0 .. MaxSize : Whole(flash, Idle, want, o, h, n)
      BY <1>4, ThereWhole
    <2>2. IsIx(flash, o, 0, h) /\ n = SizeIn(flash[h])
      BY <1>2, <2>1 DEF Whole, UnitsOf
    <2>3. TopOf(Idle, o, n) = IxSpan(PageSpan(n))
      BY <1>2 DEF TopOf
    <2>4. FileOK(flash, View(flash, Idle), o, n, IxSpan(PageSpan(n)))
      BY <2>1, <2>3 DEF Whole
    <2>5. PICK text \in want[o] : /\ want[o] = {text} /\ text \in Seq(Values) /\ Len(text) = n
                                  /\ TextOK(flash, o, n, text, n, n)
      <3>1. HoldsText(flash, Idle, want, o, n)
        BY <2>1 DEF Whole
      <3> QED BY <1>2, <3>1, ZenonT(60) DEF HoldsText
    <2>6. h \in Headers(o)
      BY <1>1, <1>2, <2>2, HeaderThere
    <2>7. \A p \in Headers(o) : p = h
      BY <1>1, <2>2, HeadersAre, OneIx
    <2>8. Headers(o) = {h} /\ HeaderSize(h) = n
      BY <2>2, <2>6, <2>7, HeadersAre
    <2>9. \A q \in Pages : View(flash, Idle)[q] = flash[q].cells
      BY <1>2 DEF View
    <2>10. Outcomes(o) \subseteq {text}
      <3>1. SUFFICES ASSUME NEW x \in Outcomes(o) PROVE x = text
        OBVIOUS
      <3>2. PICK ixs : /\ x = ReadVia(h, ixs)
                       /\ \A i \in 1 .. IxSpan(MaxSpan) :
                            ixs[i] \in IF Found(IxId(o), i) = {} THEN {Blank} ELSE Found(IxId(o), i)
        BY <2>8, OutcomeVia
      <3> QED BY <1>1, <2>2, <2>4, <2>5, <2>8, <2>9, <3>2, ReadsText
    <2> QED BY <2>2, <2>4, <2>5, <2>8, <2>10
  <1> QED BY <1>1, <1>3, <1>4 DEF FilesOK

-----------------------------------------------------------------------------
(* What the file of the running call holds *)

LEMMA TextForms ==
  ASSUME NEW fl, NEW k, NEW w, NEW o, NEW n
  PROVE  /\ k.op = "append" /\ k.o = o =>
              (HoldsText(fl, k, w, o, n) <=> TextOK(fl, o, n, k.new, n, n))
         /\ k.op = "modify" /\ k.o = o =>
              (HoldsText(fl, k, w, o, n) <=>
                 Len(k.new) = n /\ TextOK(fl, o, n, k.new, k.pos, k.end))
         /\ k.op = "return" /\ k.o = o =>
              (HoldsText(fl, k, w, o, n) <=>
                 k.new \in Seq(Values) /\ Len(k.new) = n /\ TextOK(fl, o, n, k.new, n, n))
         /\ k.op \in {"truncate", "remove"} /\ k.o = o => HoldsText(fl, k, w, o, n)
         /\ ~Calling(k, o) /\ ~Returned(k, o) =>
              (HoldsText(fl, k, w, o, n) <=>
                 \E text \in w[o] : /\ w[o] = {text} /\ text \in Seq(Values) /\ Len(text) = n
                                    /\ TextOK(fl, o, n, text, n, n))
  <1>1. /\ k.op = "append" /\ k.o = o => Calling(k, o) /\ k.op # "modify" /\ k.op # "return"
        /\ k.op = "modify" /\ k.o = o => Calling(k, o) /\ k.op # "append" /\ k.op # "return"
        /\ k.op = "return" /\ k.o = o => Returned(k, o) /\ k.op # "append" /\ k.op # "modify"
        /\ k.op \in {"truncate", "remove"} /\ k.o = o =>
             Calling(k, o) /\ k.op # "append" /\ k.op # "modify" /\ k.op # "return"
    BY DEF Calling, Returned, Writers
  <1>2. k.op = "append" /\ k.o = o =>
          (HoldsText(fl, k, w, o, n) <=> TextOK(fl, o, n, k.new, n, n))
    BY <1>1, ZenonT(60) DEF HoldsText
  <1>3. k.op = "modify" /\ k.o = o =>
          (HoldsText(fl, k, w, o, n) <=>
             Len(k.new) = n /\ TextOK(fl, o, n, k.new, k.pos, k.end))
    BY <1>1, ZenonT(60) DEF HoldsText
  <1>4. k.op = "return" /\ k.o = o =>
          (HoldsText(fl, k, w, o, n) <=>
             k.new \in Seq(Values) /\ Len(k.new) = n /\ TextOK(fl, o, n, k.new, n, n))
    BY <1>1, ZenonT(60) DEF HoldsText
  <1>5. k.op \in {"truncate", "remove"} /\ k.o = o => HoldsText(fl, k, w, o, n)
    BY <1>1, ZenonT(60) DEF HoldsText
  <1>6. ~Calling(k, o) /\ ~Returned(k, o) =>
          (HoldsText(fl, k, w, o, n) <=>
             \E text \in w[o] : /\ w[o] = {text} /\ text \in Seq(Values) /\ Len(text) = n
                                /\ TextOK(fl, o, n, text, n, n))
    BY ZenonT(60) DEF HoldsText
  <1> QED BY <1>2, <1>3, <1>4, <1>5, <1>6

\* The references when no index page is loaded.
LEMMA PlainView ==
  ASSUME NEW fl, NEW k, ~Loaded(k)
  PROVE  View(fl, k) = [q \in Pages |-> fl[q].cells]
  BY DEF View

\* A page that is loaded as it is in the flash changes no reference.
LEMMA LoadedView ==
  ASSUME NEW fl, NEW k, k.cells = fl[k.ixp].cells
  PROVE  View(fl, k) = [q \in Pages |-> fl[q].cells]
  BY DEF View

LEMMA PlainTop ==
  ASSUME NEW k, NEW o, NEW n, ~Loaded(k)
  PROVE  TopOf(k, o, n) = IxSpan(PageSpan(n))
  BY DEF TopOf

\* A step that is about no file leaves them all as they are.
LEMMA FilesKept ==
  ASSUME NEW fl, NEW gl, NEW j, NEW k, NEW w,
         JobShape(j), JobShape(k), LoadedOK(fl, j), LoadedOK(gl, k),
         \A x \in Objs : ~About(j, x) /\ ~About(k, x) /\ SamePages(fl, gl, x),
         FilesOK(fl, j, w)
  PROVE  FilesOK(gl, k, w)
  <1>1. SUFFICES ASSUME NEW x \in Objs PROVE ThereOK(gl, k, w, x) \/ GoneOK(gl, k, w, x)
    BY DEF FilesOK
  <1>2. ThereOK(fl, j, w, x) \/ GoneOK(fl, j, w, x)
    BY DEF FilesOK
  <1> QED BY <1>2, OtherFile

\* A step that is about file o touches pages of that file, or free ones, only.
OnlyPagesOf(fl, gl, o) ==
    \A p \in Pages :
        gl[p] # fl[p] => {fl[p].lu, gl[p].lu} \subseteq ObjIds(o) \cup {Blank, Deleted}

LEMMA FilesTouched ==
  ASSUME NEW fl, NEW gl, NEW j, NEW k, NEW v, NEW w, NEW o \in Objs,
         JobShape(j), JobShape(k), LoadedOK(fl, j), LoadedOK(gl, k),
         \A x \in Objs : x # o => ~About(j, x) /\ ~About(k, x) /\ v[x] = w[x],
         OnlyPagesOf(fl, gl, o),
         FilesOK(fl, j, w), ThereOK(gl, k, v, o) \/ GoneOK(gl, k, v, o)
  PROVE  FilesOK(gl, k, v)
  <1>1. ASSUME NEW x \in Objs, x # o PROVE SamePages(fl, gl, x)
    <2>1. ObjIds(x) \cap (ObjIds(o) \cup {Blank, Deleted}) = {}
      BY <1>1, IdsDistinct DEF ObjIds
    <2> QED BY <2>1 DEF SamePages, OnlyPagesOf
  <1>2. \A x \in Objs : x # o => /\ ~About(j, x) /\ ~About(k, x) /\ SamePages(fl, gl, x)
                                 /\ v[x] = w[x]
    BY <1>1
  <1> QED BY <1>2, FilesStep

\* The number of units of a file whose size is in its header.
LEMMA SizeUnits ==
  ASSUME NEW fl, NEW j, PagesOK(fl, j), NEW o \in Objs, NEW h \in Pages, IsIx(fl, o, 0, h)
  PROVE  /\ SizeIn(fl[h]) \in 0 .. MaxSize
         /\ SizeIn(fl[h]) = 0 => fl[h].size = Blank
  <1>1. IxPageOK(fl[h], Marked(j, o, h))
    BY IxPage DEF IsIx
  <1>2. fl[h].size = Blank \/ fl[h].size \in 1 .. MaxSize
    BY <1>1 DEF IxPageOK
  <1> QED BY <1>2, Lengths DEF SizeIn

-----------------------------------------------------------------------------
(* The beginning of a call *)

LEMMA CreateSound ==
  ASSUME FlashSound, NEW o \in Objs, Create(o)
  PROVE  FlashSound'
  <1>1. /\ job = Idle /\ todo = <<>> /\ calls' = calls + 1 /\ calls < MaxCalls
        /\ NoPages(flash, o) /\ UNCHANGED flash
        /\ job' = [op |-> "return", o |-> o, new |-> <<>>]
        /\ want' = [want EXCEPT ![o] = {Absent, <<>>}]
    BY DEF Create, Start, Quiet, NoPages
  <1>2. PICK p \in Pages :
          /\ Take(p)
          /\ todo' = LuW(p, IxId(o)) \o HeaderW(p, IxId(o), 0, {"final", "index", "used"})
    BY DEF Create
  <1>3. Deciding
    BY <1>1, DecidingFrom
  <1>4. /\ StateTyped /\ JobShape(job) /\ PagesOK(flash, job) /\ NoTwins(flash)
        /\ FilesOK(flash, job, want) /\ LoadedOK(flash, job) /\ flash \in Flashes
    BY <1>3 DEF Deciding
  <1>5. /\ cursor \in 0 .. (B * N) /\ want \in [Objs -> SUBSET Contents]
        /\ calls \in 0 .. MaxCalls
    BY <1>4, Typed
  <1>6. job.op = "idle"
    BY <1>1, IdleShape
  <1>7. flash[p] = BlankPage /\ cursor' \in 0 .. (B * N) /\ flash[p].lu = Blank
    BY <1>2, <1>3, <1>6, Taken
  <1> DEFINE F == {"final", "index"}
             x == NewPage(IxId(o), 0, F, NoCells)
             gl == Put(flash, p, x)
  <1>8. F \in SUBSET Flags /\ F \cup {"used"} = {"final", "index", "used"}
    BY DEF Flags
  <1>9. IxId(o) \in Ids /\ IxId(o) # Garbled
    BY IdsDistinct
  <1>10. Leads(flash, todo', gl, p, IxId(o))
    <2>1. Leads(flash, LuW(p, IxId(o)) \o HeaderW(p, IxId(o), 0, F \cup {"used"}), gl, p, IxId(o))
      BY <1>4, <1>7, <1>8, <1>9, LeadsHeader
    <2> QED BY <1>2, <1>8, <2>1
  <1> HIDE DEF F
  <1>11. /\ x \in PageType /\ x.lu = IxId(o) /\ x.id = IxId(o) /\ x.span = 0
         /\ x.flags = {"final", "index", "used"} /\ x.size = Blank /\ x.cells = NoCells
    BY <1>8, <1>9, NewPageParts, BlankPageType
  <1> HIDE DEF x
  <1>12. /\ gl \in Flashes /\ gl[p] = x /\ \A q \in Pages : q # p => gl[q] = flash[q]
    BY <1>4, <1>11, PutType
  <1> HIDE DEF gl
  <1>13. <<>> \in Seq(Values) /\ <<>> \in Contents /\ Len(<<>>) = 0
    BY DEF Contents
  <1>14. /\ job' \in ReturnShape /\ job'.op = "return" /\ job'.o = o /\ job'.new = <<>>
         /\ JobShape(job')
    BY <1>1, <1>13, CallReturned DEF JobShape
  <1>15. /\ CallOK(gl, job') /\ Filling(job', calls') /\ LoadedOK(gl, job') /\ ~Loaded(job')
         /\ \A y, q : ~Marked(job', y, q) /\ ~Marked(job, y, q)
    <2>1. /\ job'.op \in {"idle", "gc", "erase", "return"} /\ job'.op # "erase"
          /\ job.op \in {"idle", "gc", "erase", "return"}
      BY <1>6, <1>14
    <2> QED BY <2>1, NoCall
  <1>16. PageOK(gl, job', p)
    <2>1. Legible(x)
      BY <1>11, ValuesAssumption, IdsDistinct, Lengths DEF Legible, NoCells
    <2>2. IxPageOK(x, Marked(job', o, p))
      <3>1. 0 \in 0 .. IxSpan(MaxSpan)
        BY IxSpanType, SpanType, Lengths DEF MaxSpan
      <3> QED BY <1>11, <3>1 DEF IxPageOK
    <2> QED BY <1>11, <1>12, <2>1, <2>2, IxOKPage
  <1>17. PagesOK(gl, job')
    BY <1>4, <1>6, <1>12, <1>15, <1>16, AddedPages
  <1>18. NoTwins(gl)
    BY <1>1, <1>4, <1>11, <1>12, AddedTwins DEF NoPages
  <1>19. \A q \in Pages : gl[q].lu = IxId(o) <=> q = p
    BY <1>1, <1>11, <1>12 DEF NoPages
  <1>20. \A q \in Pages : gl[q].lu # DataId(o)
    BY <1>1, <1>11, <1>12, IdsDistinct DEF NoPages
  <1>21. Whole(gl, job', want', o, p, 0)
    <2>1. IsIx(gl, o, 0, p) /\ gl[p].size = Blank
      BY <1>11, <1>12 DEF IsIx
    <2>2. UnitsOf(gl, job', p, o) = 0 /\ 0 \in 0 .. MaxSize
      BY <1>14, <2>1, Lengths DEF UnitsOf, Resizing, Resizers, SizeIn
    <2>3. PageSpan(0) = -1 /\ IxSpan(-1) = 0
      BY SpanOfNone, IxSpanType, Lengths
    <2>4. TopOf(job', o, 0) = 0
      BY <1>15, <2>3, PlainTop
    <2>5. View(gl, job') = [q \in Pages |-> gl[q].cells]
      BY <1>15, PlainView
    <2>6. FileOK(gl, View(gl, job'), o, 0, 0)
      <3>1. SpansThere(gl, o, 0)
        BY <2>1 DEF SpansThere
      <3>2. TopMost(gl, o, 0)
        BY <1>11, <1>12, <1>19 DEF TopMost
      <3>3. DataEnds(gl, o, 0)
        BY <1>20 DEF DataEnds
      <3>4. \A q \in Pages, s \in Spans :
              IsIx(gl, o, IxSpan(s), q) => RefOK(gl, o, 0, s, View(gl, job')[q][IxEntry(s)])
        <4>1. SUFFICES ASSUME NEW q \in Pages, NEW s \in Spans, IsIx(gl, o, IxSpan(s), q)
                       PROVE  RefOK(gl, o, 0, s, View(gl, job')[q][IxEntry(s)])
          OBVIOUS
        <4>2. q = p
          BY <1>19, <4>1 DEF IsIx
        <4>3. View(gl, job')[q][IxEntry(s)] = Blank
          BY <1>11, <1>12, <2>5, <4>2, SpansAre DEF NoCells
        <4>4. ~(s <= PageSpan(0))
          BY <2>3, SpansAre
        <4> QED BY <4>3, <4>4 DEF RefOK
      <3> QED BY <3>1, <3>2, <3>3, <3>4 DEF FileOK, RefsOK
    <2>7. HoldsText(gl, job', want', o, 0)
      <3>1. TextOK(gl, o, 0, job'.new, 0, 0)
        BY <1>20 DEF TextOK
      <3>2. job'.new \in Seq(Values) /\ Len(job'.new) = 0 /\ job'.op = "return" /\ job'.o = o
        BY <1>13, <1>14
      <3> QED BY <3>1, <3>2, TextForms, Zenon
    <2> QED BY <2>1, <2>2, <2>4, <2>6, <2>7 DEF Whole
  <1> DEFINE v == want'
  <1>22. /\ v \in [Objs -> SUBSET Contents] /\ calls' \in 0 .. MaxCalls
         /\ \A y \in Objs : y # o => v[y] = want[y]
    BY <1>1, <1>5, <1>13, FlashAssumption DEF Contents, FlashAssumption
  <1>23. FilesOK(gl, job', v)
    <2>1. ThereOK(gl, job', v, o)
      BY <1>21, ThereWhole, Lengths
    <2>2. \A y \in Objs : y # o => ~About(job, y) /\ ~About(job', y) /\ v[y] = want[y]
      BY <1>6, <1>14, <1>22 DEF About, Writers
    <2>3. OnlyPagesOf(flash, gl, o)
      BY <1>7, <1>11, <1>12 DEF OnlyPagesOf, ObjIds
    <2> HIDE DEF v
    <2> QED BY <1>4, <1>14, <1>15, <2>1, <2>2, <2>3, FilesTouched
  <1> QED BY <1>1, <1>3, <1>7, <1>9, <1>10, <1>14, <1>15, <1>17, <1>18, <1>22, <1>23, Concluded

\* A call that writes nothing yet begins with the file as the last one left it.
LEMMA Begun ==
  ASSUME FlashSound, job = Idle, todo = <<>>, UNCHANGED <<flash, cursor, todo>>,
         calls < MaxCalls, calls' = calls + 1, NEW o \in Objs, NEW h \in Pages,
         NEW n \in 0 .. MaxSize, IsIx(flash, o, 0, h), n = HeaderSize(h),
         FileOK(flash, View(flash, Idle), o, n, IxSpan(PageSpan(n))),
         job' \in CallShape, job'.op # "remove", job'.o = o, job'.ix = NoIx,
         Resizing(job', o) => job'.pos = n, NEW new \in SUBSET Contents,
         want' = [want EXCEPT ![o] = new], HoldsText(flash, job', want', o, n),
         AppendOK(flash, job'), ModifyOK(flash, job'), TruncateOK(flash, job'),
         Filling(job', calls')
  PROVE  FlashSound'
  <1> DEFINE k == job'
             v == want'
  <1>1. Deciding
    BY DecidingFrom
  <1>2. /\ StateTyped /\ JobShape(job) /\ PagesOK(flash, job)
        /\ FilesOK(flash, job, want) /\ LoadedOK(flash, job)
    BY <1>1 DEF Deciding
  <1>3. /\ cursor \in 0 .. (B * N) /\ want \in [Objs -> SUBSET Contents]
        /\ calls \in 0 .. MaxCalls
    BY <1>2, Typed
  <1>4. /\ v \in [Objs -> SUBSET Contents] /\ calls' \in 0 .. MaxCalls
        /\ \A y \in Objs : y # o => v[y] = want[y]
    BY <1>3, FlashAssumption DEF FlashAssumption
  <1>5. /\ k.op \in Writers /\ JobShape(k) /\ k.o = o /\ k.op # "remove"
        /\ ~Loaded(k) /\ k.op # "erase" /\ \A y, q : ~Marked(k, y, q)
    BY CallParts DEF JobShape, Loaded, Marked, Writers
  <1>6. job.op = "idle" /\ ~Loaded(Idle)
    BY IdleShape DEF Loaded, Writers
  <1> HIDE DEF v
  <1>7. LoadedOK(flash, k) /\ CallOK(flash, k)
    BY <1>5 DEF LoadedOK, CallOK, EraseOK
  <1>8. PagesOK(flash, k)
    <2>1. \A y, q : ~Marked(job, y, q)
      BY <1>6 DEF Marked
    <2> QED BY <1>2, <1>6, <2>1, PagesSame
  <1>9. ThereOK(flash, k, v, o)
    <2>1. UnitsOf(flash, k, h, o) = n
      BY DEF UnitsOf, HeaderSize, SizeIn
    <2>2. TopOf(k, o, n) = IxSpan(PageSpan(n))
      BY <1>5, PlainTop
    <2>3. View(flash, k) = View(flash, Idle)
      BY <1>5, <1>6, PlainView
    <2>4. Whole(flash, k, v, o, h, n)
      BY <2>1, <2>2, <2>3 DEF Whole, v
    <2> QED BY <2>4, ThereWhole
  <1>10. FilesOK(flash, k, v)
    <2>1. \A y \in Objs : y # o => /\ ~About(job, y) /\ ~About(k, y)
                                    /\ SamePages(flash, flash, y) /\ v[y] = want[y]
      BY <1>4, <1>5, <1>6, SameSame DEF About, Writers
    <2> HIDE DEF k
    <2> QED BY <1>2, <1>5, <1>7, <1>9, <2>1, FilesStep
  <1> QED BY <1>1, <1>3, <1>4, <1>5, <1>7, <1>8, <1>10, ConcludedQuietly DEF v

LEMMA BeginAppendSound ==
  ASSUME FlashSound, NEW o \in Objs, NEW k \in 1 .. MaxWrite, BeginAppend(o, k)
  PROVE  FlashSound'
  <1>1. /\ job = Idle /\ todo = <<>> /\ calls' = calls + 1 /\ calls < MaxCalls
        /\ UNCHANGED <<flash, cursor, todo>>
    BY DEF BeginAppend, Start, Quiet
  <1>2. PICK h \in Headers(o), old \in Outcomes(o) :
          /\ HeaderSize(h) + k <= MaxSize
          /\ job' = Call("append", o, h, HeaderSize(h), HeaderSize(h) + k, old \o Fill(k))
          /\ want' = [want EXCEPT ![o] = {old \o Fill(i) : i \in 0 .. k}]
    BY DEF BeginAppend
  <1>3. Deciding
    BY <1>1, DecidingFrom
  <1>4. StateTyped /\ PagesOK(flash, job) /\ calls \in Nat
    BY <1>3, FlashAssumption DEF Deciding, StateTyped, FlashAssumption
  <1>5. PICK n \in 0 .. MaxSize, text \in Seq(Values) :
          /\ h \in Pages /\ n = HeaderSize(h) /\ IsIx(flash, o, 0, h)
          /\ FileOK(flash, View(flash, Idle), o, n, IxSpan(PageSpan(n)))
          /\ Len(text) = n /\ TextOK(flash, o, n, text, n, n) /\ old = text
    BY <1>1, <1>2, <1>3, IdleFile
  <1>6. n \in Nat /\ k \in Nat /\ k >= 1 /\ n + k <= MaxSize /\ n + k \in Nat
    BY <1>2, <1>5, Lengths, FlashAssumption DEF FlashAssumption
  <1>7. \A i \in 0 .. k : /\ Fill(i) \in Seq(Values) /\ Len(Fill(i)) = i
                          /\ \A x \in 1 .. i : Fill(i)[x] = calls + 1
    BY <1>4, <1>6 DEF Fill, Values
  <1> DEFINE new == text \o Fill(k)
             set == {text \o Fill(i) : i \in 0 .. k}
             c == job'
  <1>8. k \in 0 .. k
    BY <1>6
  <1>9. Fill(k) \in Seq(Values) /\ Len(Fill(k)) = k /\ \A x \in 1 .. k : Fill(k)[x] = calls + 1
    BY <1>7, <1>8
  <1>10. /\ new \in Seq(Values) /\ Len(new) = n + k
         /\ \A x \in 1 .. n : new[x] = text[x]
         /\ \A x \in (n + 1) .. (n + k) : new[x] = calls + 1
    <2>1. new \in Seq(Values) /\ Len(new) = n + k /\ \A x \in 1 .. n : new[x] = text[x]
      BY <1>5, <1>6, <1>9
    <2>2. ASSUME NEW x \in (n + 1) .. (n + k) PROVE new[x] = calls + 1
      <3>1. x - n \in 1 .. k /\ x \in 1 .. (n + k) /\ ~(x <= n)
        BY <1>6
      <3>2. new[x] = Fill(k)[x - n]
        BY <1>5, <1>6, <1>9, <3>1
      <3> QED BY <1>9, <3>1, <3>2
    <2> QED BY <2>1, <2>2
  <1>11. set \in SUBSET Contents
    <2>1. \A i \in 0 .. k : text \o Fill(i) \in Seq(Values)
      <3>1. SUFFICES ASSUME NEW i \in 0 .. k PROVE text \o Fill(i) \in Seq(Values)
        OBVIOUS
      <3>2. Fill(i) \in Seq(Values)
        BY <1>7
      <3> QED BY <3>2
    <2> QED BY <2>1 DEF Contents
  <1> HIDE DEF new
  <1>12. /\ c \in CallShape /\ c.op = "append" /\ c.o = o /\ c.hdr = h /\ c.begin = n /\ c.pos = n
         /\ c.end = n + k /\ c.ix = NoIx /\ c.new = new
    <2>1. c = Call("append", o, h, n, n + k, new)
      BY <1>2, <1>5 DEF new
    <2>2. new \in Contents /\ "append" \in Writers
      BY <1>10 DEF Contents, Writers
    <2> HIDE DEF c
    <2> QED BY <1>5, <1>6, <2>1, <2>2, CallStarts
  <1>13. want' = [want EXCEPT ![o] = set]
    BY <1>2, <1>5
  <1> HIDE DEF c, set
  <1>14. Resizing(c, o) => c.pos = n
    BY <1>12
  <1>15. HoldsText(flash, c, want', o, n)
    <2>1. TextOK(flash, o, n, new, n, n)
      <3>1. SUFFICES ASSUME NEW p \in Pages, flash[p].lu = DataId(o), NEW u \in 0 .. (U - 1),
                            flash[p].span * U + u < n
                     PROVE  flash[p].cells[u] = new[flash[p].span * U + u + 1]
        BY <1>6 DEF TextOK
      <3>2. flash[p].span \in Nat
        BY <1>4, <3>1, DataPage
      <3> DEFINE x == flash[p].span * U + u
      <3>3. x \in Nat /\ x < n
        <4> DEFINE y == flash[p].span * U
        <4>1. y \in Nat /\ u \in Nat
          BY <3>1, <3>2, FirstUnit, Lengths DEF First
        <4>2. y + u < n
          BY <3>1
        <4>3. x = y + u
          OBVIOUS
        <4> HIDE DEF x, y
        <4> QED BY <4>1, <4>2, <4>3
      <3>4. flash[p].cells[u] = text[x + 1]
        BY <1>5, <1>6, <3>1, <3>3 DEF TextOK
      <3> HIDE DEF x
      <3>5. new[x + 1] = text[x + 1]
        BY <1>6, <1>10, <3>3
      <3> QED BY <3>4, <3>5 DEF x
    <2> QED BY <1>12, <2>1, TextForms
  <1>16. AppendOK(flash, c)
    <2>1. c.begin = 0 => flash[c.hdr].size = Blank
      BY <1>4, <1>5, <1>12, SizeUnits DEF HeaderSize, SizeIn
    <2> QED BY <1>5, <1>6, <1>10, <1>12, <2>1 DEF AppendOK
  <1>17. ModifyOK(flash, c) /\ TruncateOK(flash, c)
    BY <1>12 DEF ModifyOK, TruncateOK
  <1>18. Filling(c, calls')
    BY <1>1, <1>10, <1>12 DEF Filling
  <1>19. c.op # "remove"
    BY <1>12
  <1> QED BY <1>1, <1>5, <1>11, <1>12, <1>13, <1>14, <1>15, <1>16, <1>17, <1>18, <1>19, Begun
          DEF c

LEMMA BeginModifySound ==
  ASSUME FlashSound, NEW o \in Objs, NEW k \in 1 .. MaxWrite, NEW begin \in 0 .. MaxSize,
         BeginModify(o, begin, k)
  PROVE  FlashSound'
  <1>1. /\ job = Idle /\ todo = <<>> /\ calls' = calls + 1 /\ calls < MaxCalls
        /\ UNCHANGED <<flash, cursor, todo>>
    BY DEF BeginModify, Start, Quiet
  <1> DEFINE over(text, i) == [x \in 1 .. Len(text) |->
                                IF x \in (begin + 1) .. (begin + i) THEN calls + 1 ELSE text[x]]
  <1>2. PICK h \in Headers(o), old \in Outcomes(o) :
          /\ begin + k <= Len(old)
          /\ job' = Call("modify", o, h, begin, begin + k, over(old, k))
          /\ want' = [want EXCEPT ![o] = {over(old, i) : i \in 0 .. k}]
    BY DEF BeginModify
  <1>3. Deciding
    BY <1>1, DecidingFrom
  <1>4. StateTyped /\ PagesOK(flash, job) /\ calls \in Nat
    BY <1>3, FlashAssumption DEF Deciding, StateTyped, FlashAssumption
  <1>5. PICK n \in 0 .. MaxSize :
          /\ h \in Pages /\ n = HeaderSize(h) /\ IsIx(flash, o, 0, h)
          /\ FileOK(flash, View(flash, Idle), o, n, IxSpan(PageSpan(n)))
          /\ old \in Seq(Values) /\ Len(old) = n /\ TextOK(flash, o, n, old, n, n)
    BY <1>1, <1>2, <1>3, IdleFile
  <1>6. n \in Nat /\ k \in Nat /\ k >= 1 /\ begin \in Nat /\ begin + k <= n /\ begin + k \in Nat
    BY <1>2, <1>5, Lengths, FlashAssumption DEF FlashAssumption
  <1> DEFINE new == over(old, k)
             set == {over(old, i) : i \in 0 .. k}
             c == job'
  <1>7. \A i \in 0 .. k : /\ over(old, i) \in Seq(Values) /\ Len(over(old, i)) = n
                          /\ \A x \in 1 .. n : over(old, i)[x]
                               = IF x \in (begin + 1) .. (begin + i) THEN calls + 1 ELSE old[x]
    <2>1. SUFFICES ASSUME NEW i \in 0 .. k
                   PROVE  /\ over(old, i) \in Seq(Values) /\ Len(over(old, i)) = n
                          /\ \A x \in 1 .. n : over(old, i)[x]
                               = IF x \in (begin + 1) .. (begin + i) THEN calls + 1 ELSE old[x]
      OBVIOUS
    <2>2. calls + 1 \in Values /\ \A x \in 1 .. n : old[x] \in Values
      BY <1>4, <1>5 DEF Values
    <2> QED BY <1>5, <1>6, <2>2
  <1>8. /\ new \in Seq(Values) /\ Len(new) = n
        /\ \A x \in 1 .. n : new[x] = IF x \in (begin + 1) .. (begin + k) THEN calls + 1 ELSE old[x]
    BY <1>6, <1>7
  <1>9. set \in SUBSET Contents
    BY <1>7 DEF Contents
  <1>10. job' = Call("modify", o, h, begin, begin + k, new) /\ want' = [want EXCEPT ![o] = set]
    BY <1>2, <1>5
  <1> HIDE DEF new, over
  <1>11. /\ c \in CallShape /\ c.op = "modify" /\ c.o = o /\ c.hdr = h /\ c.begin = begin
         /\ c.pos = begin /\ c.end = begin + k /\ c.ix = NoIx /\ c.new = new
    <2>1. new \in Contents /\ "modify" \in Writers
      BY <1>8 DEF Contents, Writers
    <2>2. c = Call("modify", o, h, begin, begin + k, new)
      BY <1>10
    <2> HIDE DEF c
    <2> QED BY <1>5, <1>6, <2>1, <2>2, CallStarts
  <1> HIDE DEF c, set
  <1>12. Resizing(c, o) => c.pos = n
    BY <1>11 DEF Resizing, Resizers
  <1>13. HoldsText(flash, c, want', o, n)
    <2>1. TextOK(flash, o, n, new, begin, begin + k)
      <3>1. SUFFICES ASSUME NEW p \in Pages, flash[p].lu = DataId(o), NEW u \in 0 .. (U - 1),
                            flash[p].span * U + u < n,
                            ~(begin <= flash[p].span * U + u /\ flash[p].span * U + u < begin + k)
                     PROVE  flash[p].cells[u] = new[flash[p].span * U + u + 1]
        BY DEF TextOK
      <3>2. flash[p].span \in Nat
        BY <1>4, <3>1, DataPage
      <3> DEFINE x == flash[p].span * U + u
      <3>3. x \in Nat /\ x < n /\ ~(begin <= x /\ x < begin + k)
        BY <3>1, <3>2, Lengths
      <3>4. flash[p].cells[u] = old[x + 1]
        BY <1>5, <1>6, <3>1, <3>3 DEF TextOK
      <3> HIDE DEF x
      <3>5. new[x + 1] = old[x + 1]
        <4>1. x + 1 \in 1 .. n /\ ~(x + 1 \in (begin + 1) .. (begin + k))
          BY <1>6, <3>3
        <4> QED BY <1>8, <4>1
      <3> QED BY <3>4, <3>5 DEF x
    <2> QED BY <1>8, <1>11, <2>1, TextForms
  <1>14. ModifyOK(flash, c)
    BY <1>5, <1>6, <1>8, <1>11 DEF ModifyOK
  <1>15. AppendOK(flash, c) /\ TruncateOK(flash, c) /\ c.op # "remove"
    BY <1>11 DEF AppendOK, TruncateOK
  <1>16. Filling(c, calls')
    <2>1. \A x \in (begin + 1) .. (begin + k) : x \in 1 .. n
      BY <1>6
    <2> QED BY <1>1, <1>8, <1>11, <2>1 DEF Filling
  <1> QED BY <1>1, <1>5, <1>9, <1>10, <1>11, <1>12, <1>13, <1>14, <1>15, <1>16, Begun DEF c

\* What a call finds that begins to truncate or remove a file.
LEMMA TruncateBegins ==
  ASSUME FlashSound, NEW o \in Objs, NEW op \in {"truncate", "remove"}, BeginTruncate(o, op)
  PROVE  \E h \in Pages, n \in 0 .. MaxSize, old \in Seq(Values),
            new \in {new \in Contents : new = IF op = "remove" THEN Absent ELSE <<>>} :
           /\ job = Idle /\ todo = <<>> /\ calls' = calls + 1 /\ calls < MaxCalls
           /\ UNCHANGED <<flash, cursor>> /\ Deciding
           /\ n = HeaderSize(h) /\ IsIx(flash, o, 0, h)
           /\ FileOK(flash, View(flash, Idle), o, n, IxSpan(PageSpan(n)))
           /\ job' = Call(op, o, h, n, 0, new) /\ want' = [want EXCEPT ![o] = {old, new}]
           /\ todo' = IF op = "truncate" THEN <<>>
                      ELSE FlagsW(h, {"used", "index", "final", "ixdele"})
  <1>1. /\ job = Idle /\ todo = <<>> /\ calls' = calls + 1 /\ calls < MaxCalls
        /\ UNCHANGED <<flash, cursor>>
    BY DEF BeginTruncate, Start, Quiet
  <1> DEFINE new == IF op = "remove" THEN Absent ELSE <<>>
  <1>2. PICK h \in Headers(o), old \in Outcomes(o) :
          /\ job' = Call(op, o, h, HeaderSize(h), 0, new)
          /\ want' = [want EXCEPT ![o] = {old, new}]
          /\ todo' = IF op = "truncate" THEN <<>>
                     ELSE FlagsW(h, {"used", "index", "final", "ixdele"})
    BY DEF BeginTruncate
  <1>3. Deciding
    BY <1>1, DecidingFrom
  <1>4. PICK n \in 0 .. MaxSize :
          /\ h \in Pages /\ n = HeaderSize(h) /\ IsIx(flash, o, 0, h)
          /\ FileOK(flash, View(flash, Idle), o, n, IxSpan(PageSpan(n)))
          /\ old \in Seq(Values)
    BY <1>1, <1>2, <1>3, IdleFile
  <1>5. new \in Contents
    BY DEF Contents
  <1> HIDE DEF new
  <1>6. new = (IF op = "remove" THEN Absent ELSE <<>>)
    BY DEF new
  <1> QED BY <1>1, <1>2, <1>3, <1>4, <1>5, <1>6

LEMMA BeginTruncateSound ==
  ASSUME FlashSound, NEW o \in Objs, BeginTruncate(o, "truncate")
  PROVE  FlashSound'
  <1>1. PICK h \in Pages, n \in 0 .. MaxSize, old \in Seq(Values), new \in Contents :
           /\ job = Idle /\ todo = <<>> /\ calls' = calls + 1 /\ calls < MaxCalls
           /\ UNCHANGED <<flash, cursor>> /\ Deciding /\ new = <<>>
           /\ n = HeaderSize(h) /\ IsIx(flash, o, 0, h)
           /\ FileOK(flash, View(flash, Idle), o, n, IxSpan(PageSpan(n)))
           /\ job' = Call("truncate", o, h, n, 0, new)
           /\ want' = [want EXCEPT ![o] = {old, new}] /\ todo' = <<>>
    BY TruncateBegins
  <1> DEFINE c == job'
             set == {old, new}
  <1>2. set \in SUBSET Contents /\ want' = [want EXCEPT ![o] = set]
    BY <1>1 DEF Contents
  <1>3. /\ c \in CallShape /\ c.op = "truncate" /\ c.o = o /\ c.hdr = h /\ c.begin = n
        /\ c.pos = n /\ c.end = 0 /\ c.ix = NoIx /\ c.new = new
    <2>1. "truncate" \in Writers /\ n \in Nat /\ 0 \in Nat
          /\ NoCells \in [Cells -> Values]
      BY Lengths, BlankPageType DEF Writers
    <2>2. c = Call("truncate", o, h, n, 0, new) /\ h \in Pages /\ new \in Contents
      BY <1>1
    <2> HIDE DEF c
    <2> QED BY <2>1, <2>2 DEF Call, CallShape
  <1> HIDE DEF c, set
  <1>4. HoldsText(flash, c, want', o, n)
    BY <1>3, TextForms
  <1>5. TruncateOK(flash, c)
    BY <1>1, <1>3, Lengths DEF TruncateOK, NoIx
  <1>6. AppendOK(flash, c) /\ ModifyOK(flash, c) /\ Filling(c, calls') /\ c.op # "remove"
    BY <1>3 DEF AppendOK, ModifyOK, Filling
  <1>7. Resizing(c, o) => c.pos = n
    BY <1>3
  <1>8. UNCHANGED <<flash, cursor, todo>>
    BY <1>1
  <1> QED BY <1>1, <1>2, <1>3, <1>4, <1>5, <1>6, <1>7, <1>8, Begun DEF c

\* The header is marked before anything else happens to the file.
LEMMA BeginRemoveSound ==
  ASSUME FlashSound, NEW o \in Objs, BeginTruncate(o, "remove")
  PROVE  FlashSound'
  <1> DEFINE F == {"used", "index", "final", "ixdele"}
  <1>1. PICK h \in Pages, n \in 0 .. MaxSize, old \in Seq(Values), new \in Contents :
           /\ job = Idle /\ todo = <<>> /\ calls' = calls + 1 /\ calls < MaxCalls
           /\ UNCHANGED <<flash, cursor>> /\ Deciding /\ new = Absent
           /\ n = HeaderSize(h) /\ IsIx(flash, o, 0, h)
           /\ FileOK(flash, View(flash, Idle), o, n, IxSpan(PageSpan(n)))
           /\ job' = Call("remove", o, h, n, 0, new)
           /\ want' = [want EXCEPT ![o] = {old, new}] /\ todo' = FlagsW(h, F)
    BY TruncateBegins
  <1> DEFINE c == job'
             v == want'
             x == flash[h]
             y == [x EXCEPT !.flags = @ \cup F]
             gl == Put(flash, h, y)
  <1>2. /\ StateTyped /\ JobShape(job) /\ PagesOK(flash, job) /\ NoTwins(flash)
        /\ FilesOK(flash, job, want) /\ LoadedOK(flash, job) /\ flash \in Flashes
    BY <1>1 DEF Deciding
  <1>3. /\ cursor \in 0 .. (B * N) /\ want \in [Objs -> SUBSET Contents]
        /\ calls \in 0 .. MaxCalls
    BY <1>2, Typed
  <1>4. /\ v \in [Objs -> SUBSET Contents] /\ calls' \in 0 .. MaxCalls
        /\ \A z \in Objs : z # o => v[z] = want[z]
    BY <1>1, <1>3, FlashAssumption DEF FlashAssumption, Contents
  <1> HIDE DEF v
  <1>5. /\ c \in CallShape /\ c.op = "remove" /\ c.o = o /\ c.hdr = h /\ c.begin = n
        /\ c.pos = n /\ c.end = 0 /\ c.ix = NoIx /\ c.new = new
    <2>1. "remove" \in Writers /\ n \in Nat /\ 0 \in Nat
          /\ NoCells \in [Cells -> Values]
      BY Lengths, BlankPageType DEF Writers
    <2>2. c = Call("remove", o, h, n, 0, new) /\ h \in Pages /\ new \in Contents
      BY <1>1
    <2> HIDE DEF c
    <2> QED BY <2>1, <2>2 DEF Call, CallShape
  <1>6. F \in SUBSET Flags
    BY DEF Flags
  <1>7. x \in PageType /\ Put(flash, h, x) = flash
    BY <1>2, PutType DEF Flashes
  <1>8. /\ y.lu = x.lu /\ y.id = x.id /\ y.span = x.span /\ y.size = x.size /\ y.cells = x.cells
        /\ y.flags = x.flags \cup F /\ y \in PageType
    <2>1. /\ y.lu = x.lu /\ y.id = x.id /\ y.span = x.span /\ y.size = x.size
          /\ y.cells = x.cells /\ y.flags = x.flags \cup F
      BY <1>7 DEF PageType
    <2>2. y \in PageType
      BY <1>6, <1>7, PageParts DEF PageType
    <2> QED BY <2>1, <2>2
  <1>9. Leads(flash, todo', gl, NoIx, Blank)
    <2>1. Leads(Put(flash, h, x), FlagsW(h, F), Put(flash, h, [x EXCEPT !.flags = @ \cup F]),
                NoIx, Blank)
      <3> HIDE DEF F, x
      <3> QED BY <1>2, <1>6, <1>7, LeadsFlags
    <2> QED BY <1>1, <1>7, <2>1
  <1> HIDE DEF F
  <1> HIDE DEF y
  <1>10. /\ gl \in Flashes /\ gl[h] = y /\ \A q \in Pages : q # h => gl[q] = flash[q]
    BY <1>2, <1>8, PutType
  <1> HIDE DEF gl, x, c
  <1>11. x = flash[h] /\ x.lu = IxId(o) /\ x.span = 0 /\ job.op = "idle" /\ ~Loaded(Idle)
         /\ ~Loaded(job) /\ \A z, q : ~Marked(job, z, q)
    BY <1>1, IdleShape DEF x, IsIx, Loaded, Writers, Marked
  <1>12. /\ JobShape(c) /\ ~Loaded(c) /\ LoadedOK(gl, c) /\ Marked(c, o, h)
         /\ Filling(c, calls')
    BY <1>5 DEF JobShape, Loaded, LoadedOK, Marked, Filling
  <1>13. IsIx(gl, o, 0, h)
    BY <1>8, <1>10, <1>11 DEF IsIx
  <1>14. CallOK(gl, c)
    <2>1. TruncateOK(gl, c)
      BY <1>1, <1>5, <1>13, Lengths DEF TruncateOK, NoIx
    <2> QED BY <1>5, <1>12, <2>1 DEF CallOK, AppendOK, ModifyOK, EraseOK
  <1>15. PagesOK(gl, c)
    <2>1. Legible(x) /\ IxPageOK(x, Marked(job, o, h))
      BY <1>2, <1>11, IxPage
    <2>2. Legible(y) /\ IxPageOK(y, Marked(c, o, h))
      <3>1. Legible(y)
        BY <1>8, <2>1 DEF Legible
      <3>2. "dele" \notin F
        BY DEF F
      <3> QED BY <1>8, <1>12, <2>1, <3>1, <3>2 DEF IxPageOK
    <2>3. PageOK(gl, c, h)
      BY <1>8, <1>10, <1>11, <2>2, IxOKPage
    <2> QED BY <1>2, <1>10, <1>11, <2>3, AddedPages
  <1>16. NoTwins(gl)
    BY <1>2, <1>8, <1>10, <1>11, ChangedTwins
  <1>17. ThereOK(gl, c, v, o)
    <2>1. n = UnitsOf(gl, c, h, o)
      BY <1>5 DEF UnitsOf, Resizing, Resizers
    <2>2. TopOf(c, o, n) = IxSpan(PageSpan(n))
      BY <1>12, PlainTop
    <2>3. FileOK(gl, View(gl, c), o, n, IxSpan(PageSpan(n)))
      <3>1. \A q \in Pages : flash[q].lu = IxId(o) \/ gl[q].lu = IxId(o) =>
               /\ gl[q].lu = flash[q].lu /\ gl[q].span = flash[q].span
               /\ View(gl, c)[q] = View(flash, Idle)[q]
        BY <1>8, <1>10, <1>11, <1>12, PlainView
      <3>2. \A p \in Pages : flash[p].lu = DataId(o) \/ gl[p].lu = DataId(o) => gl[p] = flash[p]
        BY <1>8, <1>10, <1>11, IdsDistinct
      <3> QED BY <1>1, <3>1, <3>2, FileSame
    <2>4. HoldsText(gl, c, v, o, n)
      BY <1>5, TextForms
    <2>5. Whole(gl, c, v, o, h, n)
      BY <1>13, <2>1, <2>2, <2>3, <2>4 DEF Whole
    <2> QED BY <2>5, ThereWhole
  <1>18. FilesOK(gl, c, v)
    <2>1. \A z \in Objs : z # o => ~About(job, z) /\ ~About(c, z) /\ v[z] = want[z]
      BY <1>4, <1>5, <1>11 DEF About, Writers
    <2>2. OnlyPagesOf(flash, gl, o)
      BY <1>8, <1>10, <1>11 DEF OnlyPagesOf, ObjIds
    <2> QED BY <1>2, <1>12, <1>17, <2>1, <2>2, FilesTouched
  <1>19. Blank # Garbled /\ NoIx \notin Pages
    BY ValuesAssumption, Lengths
  <1>20. cursor' \in 0 .. (B * N)
    BY <1>1, <1>3
  <1> QED BY <1>1, <1>4, <1>9, <1>12, <1>14, <1>15, <1>16, <1>18, <1>19, <1>20, Concluded
          DEF c, v

LEMMA BeginGcSound ==
  ASSUME FlashSound, NEW b \in 0 .. (B - 1), BeginGc(b)
  PROVE  FlashSound'
  <1>1. /\ job = Idle /\ todo = <<>> /\ calls' = calls + 1 /\ calls < MaxCalls
        /\ UNCHANGED <<flash, todo, want>> /\ job' = [op |-> "gc", block |-> b]
        /\ cursor' = IF cursor \in BlockPages(b) THEN ((b + 1) % B) * N ELSE cursor
    BY DEF BeginGc, Start, Quiet
  <1>2. Deciding
    BY <1>1, DecidingFrom
  <1>3. /\ StateTyped /\ JobShape(job) /\ PagesOK(flash, job)
        /\ FilesOK(flash, job, want) /\ LoadedOK(flash, job)
    BY <1>2 DEF Deciding
  <1>4. /\ cursor \in 0 .. (B * N) /\ want \in [Objs -> SUBSET Contents]
        /\ calls \in 0 .. MaxCalls
    BY <1>3, Typed
  <1>5. cursor' \in 0 .. (B * N) /\ calls' \in 0 .. MaxCalls
    <2>1. ((b + 1) % B) \in 0 .. (B - 1)
      BY Lengths, Division
    <2>2. ((b + 1) % B) * N \in 0 .. (B * N)
      <3> DEFINE m == (b + 1) % B
      <3>1. m \in Nat /\ m < B
        BY <2>1, Lengths
      <3> HIDE DEF m
      <3>2. m * N < B * N /\ m * N \in Nat
        BY <3>1, Lengths, MultipleSign
      <3>3. m * N \in 0 .. (B * N)
        BY <3>2, Lengths
      <3> QED BY <3>3 DEF m
    <2> QED BY <1>1, <1>4, <2>2, FlashAssumption DEF FlashAssumption
  <1>6. /\ job'.op = "gc" /\ JobShape(job') /\ job.op = "idle"
    BY <1>1, IdleShape DEF JobShape, GcShape
  <1>7. /\ CallOK(flash, job') /\ Filling(job', calls') /\ LoadedOK(flash, job')
        /\ \A x : ~About(job', x) /\ ~About(job, x)
        /\ \A o, p : ~Marked(job', o, p) /\ ~Marked(job, o, p)
    <2>1. /\ job'.op \in {"idle", "gc", "erase", "return"} /\ job'.op # "erase"
          /\ job'.op # "return" /\ job.op # "return"
          /\ job.op \in {"idle", "gc", "erase", "return"}
      BY <1>6
    <2> QED BY <2>1, NoCall
  <1>8. PagesOK(flash, job')
    BY <1>3, <1>6, <1>7, PagesSame
  <1>9. FilesOK(flash, job', want)
    BY <1>3, <1>6, <1>7, SameSame, FilesKept
  <1>10. FilesOK(flash, job', want')
    BY <1>1, <1>9
  <1>11. todo' = <<>> /\ UNCHANGED flash /\ want' \in [Objs -> SUBSET Contents]
    BY <1>1, <1>4
  <1> QED BY <1>2, <1>5, <1>6, <1>7, <1>8, <1>10, <1>11, ConcludedQuietly

-----------------------------------------------------------------------------
(* What the steps of a call have in common *)

\* A step that leaves the promises as they are.
LEMMA Stepped ==
  ASSUME Deciding, UNCHANGED <<flash, want, calls>>, cursor' \in 0 .. (B * N),
         NEW o \in Objs, NEW gl, NEW p, NEW id, id # Garbled,
         Leads(flash, todo', gl, p, id), p \in Pages => flash[p].lu = Blank,
         JobShape(job'), Filling(job', calls), CallOK(gl, job'), PagesOK(gl, job'), NoTwins(gl),
         OnlyPagesOf(flash, gl, o),
         \A x \in Objs : x # o => ~About(job, x) /\ ~About(job', x),
         ThereOK(gl, job', want, o) \/ GoneOK(gl, job', want, o)
  PROVE  FlashSound'
  <1>1. /\ StateTyped /\ JobShape(job) /\ FilesOK(flash, job, want) /\ LoadedOK(flash, job)
    BY DEF Deciding
  <1>2. want \in [Objs -> SUBSET Contents] /\ calls \in 0 .. MaxCalls
    BY <1>1, Typed
  <1>3. LoadedOK(gl, job')
    BY DEF CallOK
  <1>4. FilesOK(gl, job', want)
    BY <1>1, <1>3, FilesTouched
  <1>5. /\ want' \in [Objs -> SUBSET Contents] /\ calls' \in 0 .. MaxCalls
        /\ Filling(job', calls') /\ FilesOK(gl, job', want') /\ UNCHANGED flash
    BY <1>2, <1>4
  <1> QED BY <1>5, Concluded

\* The same when nothing is written.
LEMMA SteppedQuietly ==
  ASSUME Deciding, UNCHANGED <<flash, want, calls>>, cursor' \in 0 .. (B * N), todo' = <<>>,
         NEW o \in Objs,
         JobShape(job'), Filling(job', calls), CallOK(flash, job'), PagesOK(flash, job'),
         \A x \in Objs : x # o => ~About(job, x) /\ ~About(job', x),
         ThereOK(flash, job', want, o) \/ GoneOK(flash, job', want, o)
  PROVE  FlashSound'
  <1>1. flash \in Flashes /\ NoTwins(flash)
    BY DEF Deciding
  <1>2. Leads(flash, todo', flash, NoIx, Blank)
    BY <1>1, LeadsNone
  <1>3. NoIx \notin Pages /\ Blank # Garbled
    BY Lengths, ValuesAssumption
  <1>4. OnlyPagesOf(flash, flash, o)
    BY DEF OnlyPagesOf
  <1> QED BY <1>1, <1>2, <1>3, <1>4, Stepped

LEMMA OnlyTwice ==
  ASSUME NEW fl, NEW hl, NEW gl, NEW o, OnlyPagesOf(fl, hl, o), OnlyPagesOf(hl, gl, o)
  PROVE  OnlyPagesOf(fl, gl, o)
  BY DEF OnlyPagesOf

\* The file a call is about, or that has a page, is there.
LEMMA FileThere ==
  ASSUME NEW fl, NEW j, NEW w, NEW o \in Objs, FilesOK(fl, j, w),
         Calling(j, o) \/ \E p \in Pages : fl[p].lu \in ObjIds(o)
  PROVE  \E h \in Pages, n \in 0 .. MaxSize : Whole(fl, j, w, o, h, n)
  <1>1. ThereOK(fl, j, w, o) \/ GoneOK(fl, j, w, o)
    BY DEF FilesOK
  <1>2. ~GoneOK(fl, j, w, o)
    BY DEF GoneOK, NoPages, ObjIds
  <1> QED BY <1>1, <1>2, ThereWhole

\* A call of the API's on a file: its locals are in order, and it is about no other.
LEMMA CallIs ==
  ASSUME NEW j, JobShape(j), j.op \in Writers
  PROVE  /\ j \in CallShape /\ j.o \in Objs /\ Calling(j, j.o) /\ j.op # "erase"
         /\ \A x \in Objs : x # j.o => ~About(j, x)
         /\ Resizing(j, j.o) <=> j.op # "modify"
         /\ Loaded(j) <=> j.ix # NoIx
         /\ j.op # "remove" => \A o, p : ~Marked(j, o, p)
  <1>1. j \in CallShape /\ j.o \in Objs
    BY JobKinds, CallParts
  <1> QED BY <1>1 DEF Calling, About, Writers, Resizing, Resizers, Loaded, Marked

LEMMA ReturnIs ==
  ASSUME NEW j, j \in ReturnShape
  PROVE  /\ JobShape(j) /\ j.op = "return" /\ j.o \in Objs /\ j.op # "erase"
         /\ \A x \in Objs : x # j.o => ~About(j, x)
         /\ ~Resizing(j, j.o) /\ ~Loaded(j) /\ (\A n : Filling(j, n)) /\ (\A fl : CallOK(fl, j))
         /\ \A o, p : ~Marked(j, o, p)
  <1>1. j.op = "return" /\ j.o \in Objs /\ JobShape(j)
    BY DEF ReturnShape, JobShape
  <1>2. /\ \A n : Filling(j, n)
        /\ \A fl : CallOK(fl, j)
        /\ ~Loaded(j) /\ \A o, p : ~Marked(j, o, p)
    BY <1>1 DEF CallOK, AppendOK, ModifyOK, TruncateOK, LoadedOK, EraseOK, Loaded, Writers,
                Filling, Marked
  <1> QED BY <1>1, <1>2 DEF About, Resizing, Resizers

-----------------------------------------------------------------------------
(* The index pages of a file *)

\* An index page moved, as image, from src to dst.
IxImageOK(gl, k, o, i, dst, image) ==
    /\ image \in PageType /\ image.lu = IxId(o) /\ image.id = IxId(o) /\ image.span = i
    /\ Legible(image) /\ IxPageOK(image, Marked(k, o, dst))
IxMove(fl, gl, o, i, src, dst, image) ==
    /\ src \in Pages /\ dst \in Pages /\ IsIx(fl, o, i, src) /\ fl[dst] = BlankPage
    /\ gl = Put(Put(fl, dst, image), src, Dead(fl[src]))

MoveReady(fl, gl, j, k, o, i, src, dst, image) ==
    /\ fl \in Flashes /\ PagesOK(fl, j) /\ NoTwins(fl) /\ Unmarked(j)
    /\ IxMove(fl, gl, o, i, src, dst, image) /\ IxImageOK(gl, k, o, i, dst, image)
MoveDone(fl, gl, k, o, i, src, dst, image) ==
    /\ gl \in Flashes /\ MovedTo(fl, gl, src, dst) /\ gl[dst] = image /\ gl[src].lu = Deleted
    /\ DataSame(fl, gl, o) /\ IsIx(gl, o, i, dst)
    /\ \A p \in Pages : gl[p].lu = IxId(o) /\ p # dst => p # src /\ gl[p] = fl[p]
    /\ PagesOK(gl, k) /\ NoTwins(gl) /\ OnlyPagesOf(fl, gl, o)

LEMMA MovedIx ==
  ASSUME NEW fl, NEW j, NEW k, NEW o \in Objs, NEW i, NEW src, NEW dst, NEW image,
         NEW gl, MoveReady(fl, gl, j, k, o, i, src, dst, image)
  PROVE  MoveDone(fl, gl, k, o, i, src, dst, image)
  <1> USE DEF MoveReady
  <1> USE DEF IxImageOK, IxMove
  <1>1. fl[src].lu = IxId(o) /\ fl[src].span = i
    BY DEF IsIx
  <1>2. fl[dst].lu = Blank /\ IxId(o) # Blank /\ IxId(o) # Deleted /\ DataId(o) # Blank
        /\ DataId(o) # Deleted /\ DataId(o) # IxId(o)
    BY Blanks, IdsDistinct
  <1>3. src # dst
    BY <1>1, <1>2
  <1>4. /\ gl \in Flashes /\ gl[dst] = image /\ gl[src] = Dead(fl[src])
        /\ \A p \in Pages : p # src /\ p # dst => gl[p] = fl[p]
    BY <1>3, Moved
  <1>5. gl[src].lu = Deleted /\ MovedTo(fl, gl, src, dst)
    <2>1. fl[src] \in PageType
      BY DEF Flashes
    <2> QED BY <1>3, <1>4, <2>1, DeadParts DEF MovedTo
  <1>6. PageOK(gl, k, dst)
    BY <1>4, IxOKPage
  <1>7. PagesOK(gl, k)
    BY <1>5, <1>6, MovedPages
  <1>8. NoTwins(gl)
    BY <1>1, <1>4, <1>5, MovedTwins
  <1>9. OnlyPagesOf(fl, gl, o)
    BY <1>1, <1>2, <1>4, <1>5 DEF OnlyPagesOf, ObjIds
  <1>10. /\ DataSame(fl, gl, o) /\ IsIx(gl, o, i, dst)
         /\ \A p \in Pages : gl[p].lu = IxId(o) /\ p # dst => p # src /\ gl[p] = fl[p]
    BY <1>1, <1>2, <1>4, <1>5 DEF DataSame, IsIx
  <1> QED BY <1>4, <1>5, <1>7, <1>8, <1>9, <1>10 DEF MoveDone

\* What the references in cells are to be, in the page of index span i.
SpanRefs(fl, o, n, i, cells) ==
    \A s \in Spans : IxSpan(s) = i => RefOK(fl, o, n, s, cells[IxEntry(s)])
RefsKept(fl, refs, refs1, o, src) ==
    \A q \in Pages : fl[q].lu = IxId(o) /\ q # src => refs1[q] = refs[q]

LEMMA RefsOf ==
  ASSUME NEW fl, NEW refs, NEW o, NEW n, NEW top, FileOK(fl, refs, o, n, top),
         NEW i, NEW q \in Pages, IsIx(fl, o, i, q)
  PROVE  SpanRefs(fl, o, n, i, refs[q])
  BY DEF FileOK, RefsOK, SpanRefs

LEMMA PagesTyped ==
  ASSUME NEW fl, NEW j, PagesOK(fl, j), NEW o \in Objs
  PROVE  SpansTyped(fl, o)
  BY IxPage, DataPage DEF SpansTyped

\* The file is whole when the page that moved refers to what the old one did.
LEMMA MovedFile ==
  ASSUME NEW fl, NEW gl, NEW refs, NEW refs1, NEW o \in Objs, NEW n, NEW top \in Nat,
         NEW i \in Nat, NEW src, NEW dst, NoTwins(fl), MovedTo(fl, gl, src, dst),
         IsIx(fl, o, i, src), IsIx(gl, o, i, dst), gl[src].lu # IxId(o), fl[dst].lu # IxId(o),
         DataSame(fl, gl, o), SpansTyped(fl, o), RefsKept(fl, refs, refs1, o, src),
         SpanRefs(fl, o, n, i, refs1[dst]), FileOK(fl, refs, o, n, top)
  PROVE  FileOK(gl, refs1, o, n, top)
  <1>1. /\ fl[src].lu = IxId(o) /\ fl[src].span = i /\ gl[dst].lu = IxId(o) /\ gl[dst].span = i
        /\ src \in Pages /\ dst \in Pages /\ \A p \in Pages : p # src /\ p # dst => gl[p] = fl[p]
    BY DEF IsIx, MovedTo
  <1>2. i <= top
    BY <1>1 DEF FileOK, TopMost
  <1>3. IxSameBut(fl, gl, refs, refs1, o, i)
    BY <1>1 DEF IxSameBut, RefsKept
  <1>4. \A q \in Pages : IsIx(gl, o, i, q) => q = dst
    <2>1. SUFFICES ASSUME NEW q \in Pages, IsIx(gl, o, i, q), q # dst PROVE FALSE
      OBVIOUS
    <2>2. q # src
      BY <2>1 DEF IsIx
    <2>3. IsIx(fl, o, i, q)
      BY <1>1, <2>1, <2>2 DEF IsIx
    <2> QED BY <1>1, <2>2, <2>3, OneIx
  <1>5. SpanHeld(fl, gl, refs1, o, n, i, top)
    BY <1>1, <1>2, <1>4 DEF SpanHeld, SpanRefs
  <1>6. TopMoves(i, top, top) /\ top \in Int
    BY DEF TopMoves
  <1> QED BY <1>3, <1>5, <1>6, FileSpan

LEMMA TopType ==
  ASSUME NEW j, NEW o, NEW n \in 0 .. MaxSize, JobShape(j)
  PROVE  TopOf(j, o, n) \in Nat /\ IxSpan(PageSpan(n)) \in Nat
  <1>1. IxSpan(PageSpan(n)) \in Nat
    BY Lengths, SpanType, IxSpanType
  <1>2. Loaded(j) => j.ix \in Nat
    BY LoadedObj
  <1> QED BY <1>1, <1>2 DEF TopOf

-----------------------------------------------------------------------------
(* Loading an index page *)

\* The file of the running call, and how many units it has now.
LEMMA CallFile ==
  ASSUME Deciding, job.op \in Writers
  PROVE  /\ job \in CallShape /\ job.o \in Objs
         /\ \E h \in Pages, n \in 0 .. MaxSize :
              /\ Whole(flash, job, want, job.o, h, n)
              /\ job.op \in Resizers => n = job.pos
              /\ job.op = "modify" => n = SizeIn(flash[h]) /\ n = Len(job.new)
  <1>1. job \in CallShape /\ job.o \in Objs /\ Calling(job, job.o) /\ FilesOK(flash, job, want)
    BY CallIs DEF Deciding
  <1>2. PICK h \in Pages, n \in 0 .. MaxSize : Whole(flash, job, want, job.o, h, n)
    BY <1>1, FileThere
  <1>3. n = UnitsOf(flash, job, h, job.o) /\ HoldsText(flash, job, want, job.o, n)
    BY <1>2 DEF Whole
  <1>4. job.op \in Resizers => n = job.pos
    BY <1>3 DEF UnitsOf, Resizing
  <1>5. job.op = "modify" => n = SizeIn(flash[h]) /\ n = Len(job.new)
    <2>1. job.op = "modify" => ~Resizing(job, job.o)
      BY DEF Resizing, Resizers
    <2> QED BY <1>3, <2>1, TextForms DEF UnitsOf
  <1> QED BY <1>1, <1>2, <1>4, <1>5

\* An index page of the file that is loaded as it is.
LEMMA LoadSound ==
  ASSUME Deciding, todo = <<>>, job.op \in Writers, job.ix = NoIx, NEW i \in Nat, Load(i),
         NEW h \in Pages, NEW n \in 0 .. MaxSize, Whole(flash, job, want, job.o, h, n),
         i <= IxSpan(PageSpan(n)), i = 0 => IsIx(flash, job.o, 0, job.hdr),
         AppendOK(flash, job'), ModifyOK(flash, job'), TruncateOK(flash, job')
  PROVE  FlashSound'
  <1> DEFINE k == job'
             o == job.o
  <1>1. /\ flash \in Flashes /\ JobShape(job) /\ Filling(job, calls) /\ PagesOK(flash, job)
        /\ StateTyped
    BY DEF Deciding
  <1>2. /\ job \in CallShape /\ o \in Objs /\ Calling(job, o) /\ job.op # "erase"
        /\ \A x \in Objs : x # o => ~About(job, x)
        /\ ~Loaded(job)
    BY <1>1, CallIs
  <1>3. PICK p \in IF i = 0 THEN {job.hdr} ELSE Found(IxId(o), i) :
          k = [job EXCEPT !.ix = i, !.ixp = p, !.cells = flash[p].cells]
    BY DEF Load
  <1>4. p \in Pages /\ IsIx(flash, o, i, p) /\ flash[p].cells \in [Cells -> Values]
    <2>1. p \in Pages /\ IsIx(flash, o, i, p)
      BY <1>2, <1>3, CallParts, FoundIx
    <2> QED BY <1>1, <2>1, PageParts DEF Flashes
  <1>5. /\ k \in CallShape /\ k.op = job.op /\ k.o = o /\ k.hdr = job.hdr /\ k.begin = job.begin
        /\ k.pos = job.pos /\ k.end = job.end /\ k.ix = i /\ k.ixp = p
        /\ k.cells = flash[p].cells /\ k.new = job.new
    <2>1. i \in Nat \cup {NoIx} /\ job \in CallShape
      BY <1>2
    <2>2. k = [job EXCEPT !.ix = i, !.ixp = p, !.cells = flash[p].cells]
      BY <1>3
    <2>3. p \in Pages /\ flash[p].cells \in [Cells -> Values]
      BY <1>4
    <2> DEFINE cells == flash[p].cells
    <2>4. cells \in [Cells -> Values] /\ k = [job EXCEPT !.ix = i, !.ixp = p, !.cells = cells]
      BY <2>2, <2>3
    <2> HIDE DEF k, cells
    <2>5. /\ k \in CallShape /\ k.op = job.op /\ k.o = job.o /\ k.hdr = job.hdr
          /\ k.begin = job.begin /\ k.pos = job.pos /\ k.end = job.end /\ k.ix = i /\ k.ixp = p
          /\ k.cells = cells /\ k.new = job.new
      BY <2>1, <2>3, <2>4 DEF CallShape
    <2> QED BY <2>5 DEF cells
  <1>6. UNCHANGED <<flash, want, calls>> /\ cursor' = cursor /\ todo' = <<>>
    BY DEF Load, Keep
  <1>7. cursor' \in 0 .. (B * N)
    BY <1>1, <1>6, Typed
  <1> HIDE DEF k
  <1>8. JobShape(k) /\ k.op \in Writers
    BY <1>5 DEF JobShape
  <1>9. /\ Calling(k, o) /\ \A x \in Objs : x # o => ~About(k, x)
    BY <1>5, <1>8, CallIs
  <1>10. Filling(k, calls)
    BY <1>1, <1>5 DEF Filling
  <1>11. CallOK(flash, k)
    <2>1. LoadedOK(flash, k)
      <3>1. Legible(flash[p])
        BY <1>1, <1>2, <1>4, IxPage DEF IsIx
      <3> QED BY <1>4, <1>5, <3>1 DEF LoadedOK, Legible, Clean
    <2>2. EraseOK(flash, k)
      BY <1>2, <1>5 DEF EraseOK
    <2> QED BY <2>1, <2>2 DEF CallOK, k
  <1>12. PagesOK(flash, k)
    BY <1>1, <1>2, <1>5, PagesSame DEF Marked
  <1>13. View(flash, k) = View(flash, job)
    BY <1>2, <1>5, PlainView, LoadedView
  <1>14. TopOf(k, o, n) = TopOf(job, o, n)
    <2>1. TopOf(job, o, n) = IxSpan(PageSpan(n)) /\ IxSpan(PageSpan(n)) \in Nat
      BY <1>1, <1>2, PlainTop, TopType
    <2> QED BY <1>5, <2>1 DEF TopOf
  <1>15. Whole(flash, k, want, o, h, n)
    <2>1. /\ IsIx(flash, o, 0, h) /\ n = UnitsOf(flash, job, h, o)
          /\ FileOK(flash, View(flash, job), o, n, TopOf(job, o, n))
          /\ HoldsText(flash, job, want, o, n)
      BY DEF Whole
    <2>2. UnitsOf(flash, k, h, o) = n
      BY <1>5, <2>1 DEF UnitsOf, Resizing
    <2>3. HoldsText(flash, k, want, o, n)
      <3>1. job.op \in {"append", "modify", "truncate", "remove"}
        BY DEF Writers
      <3> QED BY <1>5, <2>1, <3>1, TextForms
    <2> QED BY <1>13, <1>14, <2>1, <2>2, <2>3 DEF Whole
  <1>16. ThereOK(flash, k, want, o)
    BY <1>15, ThereWhole
  <1> QED BY <1>2, <1>6, <1>7, <1>8, <1>9, <1>10, <1>11, <1>12, <1>16, SteppedQuietly DEF k

LEMMA ModifyLoadSound ==
  ASSUME FlashSound, ModifyLoad
  PROVE  FlashSound'
  <1> DEFINE i == IxSpan(job.pos \div U)
             k == job'
  <1>1. todo = <<>> /\ job.op = "modify" /\ job.ix = NoIx /\ Load(i)
    BY DEF ModifyLoad, Running
  <1>2. Deciding /\ job.op \in Writers
    BY <1>1, DecidingFrom DEF Writers
  <1>3. PICK h \in Pages, n \in 0 .. MaxSize :
          /\ Whole(flash, job, want, job.o, h, n) /\ n = Len(job.new)
    BY <1>1, <1>2, CallFile
  <1>4. /\ job.begin <= job.pos /\ job.pos < job.end /\ job.end <= Len(job.new)
        /\ job.new \in Seq(Values)
        /\ IxSpan(job.pos \div U) = 0 => IsIx(flash, job.o, 0, job.hdr)
    BY <1>1, <1>2 DEF Deciding, ModifyOK
  <1>5. job \in CallShape /\ job.pos \in Nat /\ job.end \in Nat /\ n \in Nat /\ job.o \in Objs
    BY <1>2, CallFile, CallParts
  <1>6. job.pos \div U \in Nat /\ job.pos \div U <= PageSpan(n)
    <2> DEFINE s == job.pos \div U
               r == job.pos % U
    <2>1. s \in Nat /\ r \in 0 .. (U - 1) /\ job.pos = First(s) + r
      BY <1>5, UnitOf
    <2> HIDE DEF s, r
    <2>2. First(s) \in Nat
      BY <2>1, FirstUnit
    <2>3. First(s) < n
      BY <1>3, <1>4, <1>5, <2>1, <2>2, Lengths
    <2>4. s \in Nat /\ s <= PageSpan(n)
      BY <1>5, <2>1, <2>3, SpanBelow
    <2> QED BY <2>4 DEF s
  <1>7. i \in Nat /\ i <= IxSpan(PageSpan(n))
    BY <1>5, <1>6, IxSpanType, IxSpanMonotone, SpanType
  <1>8. \E p, cells : k = [job EXCEPT !.ix = i, !.ixp = p, !.cells = cells]
    BY <1>1 DEF Load
  <1>9. /\ k.op = "modify" /\ k.o = job.o /\ k.hdr = job.hdr /\ k.begin = job.begin
        /\ k.pos = job.pos /\ k.end = job.end /\ k.ix = i /\ k.new = job.new
    <2> HIDE DEF k, i
    <2> QED BY <1>1, <1>5, <1>8 DEF CallShape
  <1> HIDE DEF k
  <1>10. ModifyOK(flash, k)
    <2>1. AtIx(k)
      BY <1>4, <1>9, ZenonT(60) DEF AtIx
    <2> HIDE DEF i
    <2> QED BY <1>4, <1>5, <1>7, <1>9, <2>1 DEF ModifyOK, NoIx
  <1>11. AppendOK(flash, k) /\ TruncateOK(flash, k)
    BY <1>9 DEF AppendOK, TruncateOK
  <1>12. i = 0 => IsIx(flash, job.o, 0, job.hdr)
    BY <1>4
  <1> HIDE DEF i
  <1> QED BY <1>1, <1>2, <1>3, <1>7, <1>10, <1>11, <1>12, LoadSound DEF k

LEMMA TruncateLoadSound ==
  ASSUME FlashSound, TruncateLoad
  PROVE  FlashSound'
  <1> DEFINE i == IxSpan(PageSpan(job.pos))
             k == job'
  <1>1. todo = <<>> /\ job.op \in {"truncate", "remove"} /\ job.ix = NoIx /\ Load(i) /\ job.pos > 0
    BY DEF TruncateLoad, Truncating, LastIx
  <1>2. Deciding /\ job.op \in Writers
    BY <1>1, DecidingFrom DEF Writers
  <1>3. PICK h \in Pages, n \in 0 .. MaxSize : Whole(flash, job, want, job.o, h, n) /\ n = job.pos
    BY <1>1, <1>2, CallFile DEF Resizers
  <1>4. /\ job.pos <= job.begin /\ job.new = (IF job.op = "remove" THEN Absent ELSE <<>>)
        /\ IsIx(flash, job.o, 0, job.hdr)
    BY <1>1, <1>2 DEF Deciding, TruncateOK
  <1>5. job \in CallShape /\ job.pos \in Nat /\ n \in Nat /\ job.o \in Objs
    BY <1>2, CallFile, CallParts
  <1>6. i \in Nat /\ i <= IxSpan(PageSpan(n))
    BY <1>3, <1>5, IxSpanType, SpanType
  <1>7. PICK p \in IF i = 0 THEN {job.hdr} ELSE Found(IxId(job.o), i) :
          k = [job EXCEPT !.ix = i, !.ixp = p, !.cells = flash[p].cells]
    BY <1>1 DEF Load
  <1>8. /\ k.op = job.op /\ k.o = job.o /\ k.hdr = job.hdr /\ k.begin = job.begin
        /\ k.pos = job.pos /\ k.end = job.end /\ k.ix = i /\ k.ixp = p /\ k.new = job.new
    <2> HIDE DEF k, i
    <2> QED BY <1>5, <1>7 DEF CallShape
  <1> HIDE DEF k
  <1>9. TruncateOK(flash, k)
    BY <1>1, <1>4, <1>7, <1>8 DEF TruncateOK
  <1>10. AppendOK(flash, k) /\ ModifyOK(flash, k)
    BY <1>1, <1>8 DEF AppendOK, ModifyOK
  <1> HIDE DEF i
  <1> QED BY <1>1, <1>2, <1>3, <1>4, <1>6, <1>9, <1>10, LoadSound DEF k, i

-----------------------------------------------------------------------------
(* Appending: the index page *)

\* The unit an append is at.
LEMMA UnitWithin ==
  ASSUME NEW x \in Nat, NEW y \in Nat, x < y
  PROVE  x \div U \in Nat /\ x \div U <= PageSpan(y)
  <1> DEFINE s == x \div U
             r == x % U
  <1>1. s \in Nat /\ r \in 0 .. (U - 1) /\ x = First(s) + r
    BY UnitOf
  <1> HIDE DEF s, r
  <1>2. First(s) \in Nat
    BY <1>1, FirstUnit
  <1>3. First(s) < y
    BY <1>1, <1>2, Lengths
  <1>4. s \in Nat /\ s <= PageSpan(y)
    BY <1>1, <1>3, SpanBelow
  <1> QED BY <1>4 DEF s

LEMMA IxSpansOf ==
  ASSUME NEW n \in Nat
  PROVE  IxSpan(n \div U) \in Nat /\ IxSpan(PageSpan(n)) \in Nat
  <1> DEFINE s == n \div U
  <1>1. s \in Nat
    BY UnitOf
  <1> HIDE DEF s
  <1>2. s \in Int /\ s >= -1
    BY <1>1
  <1>3. IxSpan(s) \in Nat
    BY <1>2, IxSpanType
  <1>4. IxSpan(PageSpan(n)) \in Nat
    BY SpanType, IxSpanType
  <1> QED BY <1>3, <1>4 DEF s

\* The index page after the last one is the next.
LEMMA IxAfter ==
  ASSUME NEW n \in Nat, IxSpan(n \div U) > IxSpan(PageSpan(n))
  PROVE  IxSpan(n \div U) = IxSpan(PageSpan(n)) + 1 /\ n \div U = PageSpan(n) + 1
  <1>1. PageSpan(n) \in Int /\ PageSpan(n) >= -1
    BY SpanType
  <1>2. IxSpan(PageSpan(n)) \in Nat
    BY <1>1, IxSpanType
  <1>3. n \div U \in Nat /\ (n \div U = PageSpan(n) \/ n \div U = PageSpan(n) + 1)
    <2>1. n % U = 0 \/ n % U # 0
      OBVIOUS
    <2> DEFINE s == n \div U
    <2>2. s \in Nat /\ (PageSpan(n) = s - 1 \/ PageSpan(n) = s)
      BY NextUnit, <2>1
    <2> HIDE DEF s
    <2>3. s \in Nat /\ (s = PageSpan(n) \/ s = PageSpan(n) + 1)
      BY <1>1, <2>2
    <2> QED BY <2>3 DEF s
  <1>4. IxSpan(n \div U) \in Nat
    BY <1>3, IxSpanType
  <1>5. n \div U = PageSpan(n) + 1
    BY <1>2, <1>3, <1>4
  <1>6. IxSpan(PageSpan(n) + 1) <= IxSpan(PageSpan(n)) + 1
    BY <1>1, IxSpanNext
  <1>7. IxSpan(n \div U) <= IxSpan(PageSpan(n)) + 1
    BY <1>5, <1>6
  <1> QED BY <1>2, <1>4, <1>5, <1>7

\* What is known of a call that appends.
Appending(h) ==
    /\ job \in CallShape /\ job.op = "append" /\ job.o \in Objs /\ job.op \in Writers
    /\ job.begin \in Nat /\ job.pos \in Nat /\ job.end \in Nat
    /\ job.begin <= job.pos /\ job.pos <= job.end /\ job.end <= MaxSize
    /\ job.new \in Seq(Values) /\ Len(job.new) = job.end /\ IsIx(flash, job.o, 0, job.hdr)
    /\ job.hdr \in Pages /\ job.ixp \in Pages /\ job.cells \in [Cells -> Values]
    /\ job.ix \in Nat \cup {NoIx} /\ job.new \in Contents
    /\ h \in Pages /\ job.pos \in 0 .. MaxSize
    /\ Whole(flash, job, want, job.o, h, job.pos)
    /\ job.ix # NoIx => /\ AtIx(job) /\ IsIx(flash, job.o, job.ix, job.ixp) /\ Clean(job.cells)
                        /\ \A c \in Cells : flash[job.ixp].cells[c] \in {Blank, job.cells[c]}
    /\ job.ix = NoIx => /\ job.pos < job.end
                        /\ job.pos > job.begin => IxSpan(job.pos \div U) > IxSpan(PageSpan(job.pos))
    /\ job.begin = 0 /\ (job.ix = 0 \/ job.pos = 0) => flash[job.hdr].size = Blank

LEMMA AppendingIs ==
  ASSUME Deciding, job.op = "append"
  PROVE  \E h \in Pages : Appending(h)
  <1>1. job.op \in Writers /\ job.op \in Resizers
    BY DEF Writers, Resizers
  <1>2. PICK h \in Pages, n \in 0 .. MaxSize :
          Whole(flash, job, want, job.o, h, n) /\ n = job.pos
    BY <1>1, CallFile
  <1>3. job \in CallShape /\ job.o \in Objs
    BY <1>1, CallFile
  <1>4. /\ job.hdr \in Pages /\ job.begin \in Nat /\ job.pos \in Nat /\ job.end \in Nat
        /\ job.ix \in Nat \cup {NoIx} /\ job.ixp \in Pages
        /\ job.cells \in [Cells -> Values] /\ job.new \in Contents
    BY <1>3, CallParts
  <1>5. /\ job.begin <= job.pos /\ job.pos <= job.end /\ job.end <= MaxSize
        /\ job.new \in Seq(Values) /\ Len(job.new) = job.end
        /\ IsIx(flash, job.o, 0, job.hdr)
        /\ job.ix # NoIx => /\ AtIx(job)
                            /\ \A c \in Cells : flash[job.ixp].cells[c] \in {Blank, job.cells[c]}
        /\ job.ix = NoIx =>
             /\ job.pos < job.end
             /\ job.pos > job.begin => IxSpan(job.pos \div U) > IxSpan(PageSpan(job.pos))
        /\ job.begin = 0 /\ (job.ix = 0 \/ job.pos = 0) => flash[job.hdr].size = Blank
    BY ZenonT(60) DEF Deciding, AppendOK
  <1>6. job.ix # NoIx => IsIx(flash, job.o, job.ix, job.ixp) /\ Clean(job.cells)
    BY <1>1 DEF Deciding, LoadedOK, Loaded
  <1>7. Appending(h)
    BY <1>1, <1>2, <1>3, <1>4, <1>5, <1>6, ZenonT(60) DEF Appending
  <1> QED BY <1>7

LEMMA AppendLoadOld ==
  ASSUME FlashSound, AppendLoad, ~(AppendIx > 0 /\ FreshIx)
  PROVE  FlashSound'
  <1> DEFINE i == IxSpan(job.pos \div U)
             k == job'
  <1>1. todo = <<>> /\ job.op = "append" /\ job.ix = NoIx /\ Load(i)
    BY DEF AppendLoad, Running, AppendIx
  <1>2. Deciding
    BY <1>1, DecidingFrom
  <1>3. PICK h \in Pages : Appending(h)
    BY <1>1, <1>2, AppendingIs
  <1>4. /\ job \in CallShape /\ job.o \in Objs /\ job.op \in Writers
        /\ job.begin \in Nat /\ job.pos \in Nat /\ job.end \in Nat
        /\ job.begin <= job.pos /\ job.pos < job.end /\ job.end <= MaxSize
        /\ job.new \in Seq(Values) /\ Len(job.new) = job.end /\ IsIx(flash, job.o, 0, job.hdr)
        /\ job.pos \in 0 .. MaxSize /\ Whole(flash, job, want, job.o, h, job.pos)
        /\ job.hdr \in Pages
    BY <1>1, <1>3 DEF Appending
  <1>5. i \in Nat /\ IxSpan(PageSpan(job.pos)) \in Nat
    BY <1>4, IxSpansOf
  <1>6. job.pos > job.begin => i > IxSpan(PageSpan(job.pos))
    BY <1>1, <1>3 DEF Appending
  <1>7. i = 0 \/ (job.pos = job.begin /\ i <= IxSpan(PageSpan(job.pos)))
    <2>1. ~(i > 0 /\ (job.pos > job.begin \/ i > IxSpan(PageSpan(job.begin))))
      BY DEF AppendIx, FreshIx
    <2> HIDE DEF i
    <2>2. i = 0 \/ (job.pos = job.begin /\ ~(i > IxSpan(PageSpan(job.begin))))
      BY <1>4, <1>5, <2>1
    <2>3. CASE job.pos = job.begin /\ ~(i > IxSpan(PageSpan(job.begin)))
      <3>1. ~(i > IxSpan(PageSpan(job.pos)))
        BY <2>3
      <3> QED BY <1>5, <2>3, <3>1
    <2> QED BY <2>2, <2>3
  <1>8. i = 0 => job.pos = job.begin
    <2> HIDE DEF i
    <2> QED BY <1>4, <1>5, <1>6
  <1>9. i <= IxSpan(PageSpan(job.pos))
    <2> HIDE DEF i
    <2> QED BY <1>5, <1>7
  <1>10. PICK p \in IF i = 0 THEN {job.hdr} ELSE Found(IxId(job.o), i) :
          k = [job EXCEPT !.ix = i, !.ixp = p, !.cells = flash[p].cells]
    BY <1>1 DEF Load
  <1>11. /\ k.op = "append" /\ k.o = job.o /\ k.hdr = job.hdr /\ k.begin = job.begin
        /\ k.pos = job.pos /\ k.end = job.end /\ k.ix = i /\ k.ixp = p /\ k.new = job.new
        /\ k.cells = flash[p].cells
    <2> HIDE DEF k, i
    <2> QED BY <1>1, <1>4, <1>10 DEF CallShape
  <1> HIDE DEF k
  <1>12. AppendOK(flash, k)
    <2>1. AtIx(k)
      BY <1>4, <1>11, ZenonT(60) DEF AtIx
    <2> HIDE DEF i
    <2>2. k.ix # NoIx /\ \A c \in Cells : flash[k.ixp].cells[c] \in {Blank, k.cells[c]}
      BY <1>5, <1>11 DEF NoIx
    <2>3. k.begin = 0 /\ (k.ix = 0 \/ k.pos = 0) => flash[k.hdr].size = Blank
      <3>1. job.begin = 0 /\ (job.ix = 0 \/ job.pos = 0) => flash[job.hdr].size = Blank
        BY <1>3 DEF Appending
      <3> QED BY <1>8, <1>11, <3>1
    <2>4. k.begin <= k.pos /\ k.pos <= k.end /\ k.end <= MaxSize
      BY <1>4, <1>11
    <2> QED BY <1>4, <1>11, <2>1, <2>2, <2>3, <2>4, ZenonT(60) DEF AppendOK
  <1>13. ModifyOK(flash, k) /\ TruncateOK(flash, k)
    BY <1>11 DEF ModifyOK, TruncateOK
  <1> HIDE DEF i
  <1> QED BY <1>1, <1>2, <1>4, <1>5, <1>9, <1>12, <1>13, LoadSound DEF k

LEMMA AppendLoadNew ==
  ASSUME FlashSound, AppendLoad, AppendIx > 0, FreshIx
  PROVE  FlashSound'
  <1> DEFINE i == IxSpan(job.pos \div U)
             k == job'
             o == job.o
             n == job.pos
             top == IxSpan(PageSpan(job.pos))
             flags == {"final", "index"}
  <1>1. /\ todo = <<>> /\ job.op = "append" /\ job.ix = NoIx /\ i > 0
        /\ UNCHANGED <<flash, want, calls>>
    BY DEF AppendLoad, Running, AppendIx, Keep
  <1>2. Deciding
    BY <1>1, DecidingFrom
  <1>3. PICK h \in Pages : Appending(h)
    BY <1>1, <1>2, AppendingIs
  <1>4. /\ job \in CallShape /\ o \in Objs /\ job.op \in Writers
        /\ job.begin \in Nat /\ n \in Nat /\ job.end \in Nat
        /\ job.begin <= n /\ n < job.end /\ job.end <= MaxSize
        /\ job.new \in Seq(Values) /\ Len(job.new) = job.end /\ IsIx(flash, o, 0, job.hdr)
        /\ n \in 0 .. MaxSize /\ Whole(flash, job, want, o, h, n)
        /\ job.hdr \in Pages
        /\ n > job.begin => i > top
        /\ job.begin = 0 /\ (job.ix = 0 \/ n = 0) => flash[job.hdr].size = Blank
    BY <1>1, <1>3, ZenonT(60) DEF Appending
  <1>5. PICK p \in Pages :
          /\ Take(p) /\ todo' = Allocate(p, IxId(o), i, flags, NoCells, TRUE)
          /\ k = [job EXCEPT !.ix = i, !.ixp = p, !.cells = NoCells]
    BY DEF AppendLoad, AppendIx
  <1>6. i \in Nat /\ top \in Nat
    BY <1>4, IxSpansOf
  <1>7. i > top
    <2>1. n > job.begin \/ i > IxSpan(PageSpan(job.begin))
      BY DEF FreshIx, AppendIx
    <2>2. n > job.begin \/ n = job.begin
      BY <1>4
    <2> QED BY <1>4, <2>1, <2>2
  <1>8. i = top + 1
    BY <1>4, <1>7, IxAfter
  <1>9. i \in 0 .. IxSpan(MaxSpan)
    <2>1. n < MaxSize /\ MaxSize \in Nat
      BY <1>4, Lengths
    <2> DEFINE s == n \div U
    <2>2. s \in Nat /\ s <= PageSpan(MaxSize)
      BY <1>4, <2>1, UnitWithin
    <2>3. PageSpan(MaxSize) \in Int /\ PageSpan(MaxSize) >= -1
      BY <2>1, SpanType
    <2> HIDE DEF s
    <2>4. s \in Int /\ s >= -1
      BY <2>2
    <2>5. IxSpan(s) <= IxSpan(PageSpan(MaxSize)) /\ IxSpan(PageSpan(MaxSize)) \in Nat
      BY <2>2, <2>3, <2>4, IxSpanMonotone, IxSpanType
    <2>6. i = IxSpan(s)
      BY DEF s
    <2> HIDE DEF i
    <2> QED BY <1>6, <2>5, <2>6 DEF MaxSpan
  <1> HIDE DEF i, top
  <1>10. /\ flash \in Flashes /\ JobShape(job) /\ PagesOK(flash, job) /\ NoTwins(flash)
         /\ Filling(job, calls) /\ StateTyped
    BY <1>2 DEF Deciding
  <1>11. /\ job.op # "erase" /\ \A x \in Objs : x # o => ~About(job, x)
         /\ ~Loaded(job) /\ \A a, b : ~Marked(job, a, b)
    BY <1>1, <1>4, <1>10, CallIs
  <1>12. /\ flash[p].lu = Blank /\ flash[p] = BlankPage /\ cursor' \in 0 .. (B * N)
    BY <1>2, <1>5, <1>11, Taken
  <1>13. IxId(o) \in Ids /\ IxId(o) # Garbled /\ IxId(o) # Blank /\ IxId(o) # DataId(o)
    BY <1>4, IdsDistinct
  <1> DEFINE new == NewPage(IxId(o), i, {"final", "index"}, NoCells)
             gl == Put(flash, p, new)
  <1>14. Leads(flash, todo', gl, p, IxId(o))
    <2>1. {"final", "index"} \in SUBSET Flags
      BY DEF Flags
    <2>2. Leads(flash, Allocate(p, IxId(o), i, flags, NoCells, TRUE),
                Put(flash, p, NewPage(IxId(o), i,
                    IF TRUE THEN flags \cup {"final"} ELSE flags, NoCells)), p, IxId(o))
      BY <1>6, <1>10, <1>12, <1>13, <2>1, BlankPageType, LeadsAllocate
    <2>3. (IF TRUE THEN flags \cup {"final"} ELSE flags) = {"final", "index"}
      OBVIOUS
    <2> QED BY <1>5, <2>2, <2>3
  <1>15. /\ new \in PageType /\ new.lu = IxId(o) /\ new.id = IxId(o) /\ new.span = i
         /\ new.flags = {"final", "index", "used"} /\ new.size = Blank /\ new.cells = NoCells
    <2>1. {"final", "index"} \in SUBSET Flags
      BY DEF Flags
    <2>2. {"final", "index"} \cup {"used"} = {"final", "index", "used"}
      OBVIOUS
    <2> HIDE DEF new
    <2> QED BY <1>6, <1>13, <2>1, <2>2, BlankPageType, NewPageParts DEF new
  <1> HIDE DEF new
  <1>16. /\ gl \in Flashes /\ gl[p] = new /\ \A q \in Pages : q # p => gl[q] = flash[q]
    BY <1>10, <1>15, PutType
  <1> HIDE DEF gl
  <1>17. /\ k \in CallShape /\ k.op = "append" /\ k.o = o /\ k.hdr = job.hdr
         /\ k.begin = job.begin /\ k.pos = n /\ k.end = job.end /\ k.ix = i /\ k.ixp = p
         /\ k.cells = NoCells /\ k.new = job.new
    <2>1. i \in Nat \cup {NoIx} /\ NoCells \in [Cells -> Values]
      BY <1>6, BlankPageType
    <2>2. k = [job EXCEPT !.ix = i, !.ixp = p, !.cells = NoCells]
      BY <1>5
    <2> HIDE DEF k
    <2> QED BY <1>1, <1>4, <2>1, <2>2 DEF CallShape
  <1> HIDE DEF k
  <1>18. JobShape(k) /\ k.op \in Writers
    BY <1>17 DEF JobShape, Writers
  <1>19. Calling(k, o) /\ (\A x \in Objs : x # o => ~About(k, x)) /\ Loaded(k)
    BY <1>6, <1>17, <1>18, CallIs DEF NoIx
  <1>20. Filling(k, calls)
    BY <1>1, <1>10, <1>17 DEF Filling
  <1>21. IsIx(gl, o, i, p)
    BY <1>15, <1>16 DEF IsIx
  <1>22. IsIx(gl, o, 0, job.hdr) /\ gl[job.hdr] = flash[job.hdr]
    <2>1. job.hdr # p
      BY <1>4, <1>12, <1>13 DEF IsIx
    <2> QED BY <1>4, <1>16, <2>1 DEF IsIx
  <1>23. CallOK(gl, k)
    <2>1. AtIx(k)
      BY <1>4, <1>17, ZenonT(60) DEF AtIx, i
    <2>2. \A c \in Cells : gl[k.ixp].cells[c] \in {Blank, k.cells[c]}
      BY <1>15, <1>16, <1>17
    <2>3. k.begin = 0 /\ (k.ix = 0 \/ k.pos = 0) => gl[k.hdr].size = Blank
      BY <1>1, <1>4, <1>17, <1>22
    <2>4. k.begin <= k.pos /\ k.pos <= k.end /\ k.end <= MaxSize
      BY <1>4, <1>17
    <2>5. k.ix # NoIx
      BY <1>6, <1>17 DEF NoIx
    <2>6. AppendOK(gl, k)
      BY <1>4, <1>17, <1>22, <2>1, <2>2, <2>3, <2>4, <2>5, ZenonT(60) DEF AppendOK
    <2>7. ModifyOK(gl, k) /\ TruncateOK(gl, k) /\ EraseOK(gl, k)
      BY <1>17 DEF ModifyOK, TruncateOK, EraseOK
    <2>8. LoadedOK(gl, k)
      <3>1. Clean(NoCells)
        BY ValuesAssumption DEF Clean, NoCells
      <3> QED BY <1>17, <1>21, <3>1 DEF LoadedOK
    <2> QED BY <2>6, <2>7, <2>8 DEF CallOK
  <1>24. \A q \in Pages : flash[q].lu = IxId(o) => flash[q].span <= top
    BY <1>4, <1>10, <1>11, PlainTop DEF Whole, FileOK, TopMost, top
  <1>25. PagesOK(gl, k)
    <2>1. Legible(gl[p]) /\ IxPageOK(gl[p], Marked(k, o, p))
      <3>1. NoCells = [c \in Cells |-> Blank] /\ Blank # Garbled /\ i # Garbled
        BY <1>6, ValuesAssumption DEF NoCells
      <3> QED BY <1>9, <1>13, <1>15, <1>16, <3>1 DEF Legible, IxPageOK
    <2>2. PageOK(gl, k, p)
      BY <1>4, <1>15, <1>16, <2>1, IxOKPage
    <2> QED BY <1>10, <1>11, <1>16, <2>2, AddedPages
  <1>26. NoTwins(gl)
    <2>1. \A q \in Pages : q # p => ~(flash[q].lu = gl[p].lu /\ flash[q].span = gl[p].span)
      <3>1. SUFFICES ASSUME NEW q \in Pages, flash[q].lu = gl[p].lu, flash[q].span = gl[p].span
                     PROVE  FALSE
        OBVIOUS
      <3>2. flash[q].lu = IxId(o) /\ flash[q].span = i
        BY <1>15, <1>16, <3>1
      <3> QED BY <1>6, <1>7, <1>24, <3>2
    <2> QED BY <1>10, <1>16, <2>1, AddedTwins
  <1>27. OnlyPagesOf(flash, gl, o)
    BY <1>12, <1>15, <1>16 DEF OnlyPagesOf, ObjIds
  <1>28. DataSame(flash, gl, o)
    <2>1. DataId(o) # Blank /\ DataId(o) # IxId(o)
      BY <1>4, IdsDistinct
    <2>2. flash[p].lu # DataId(o) /\ gl[p].lu # DataId(o)
      BY <1>12, <1>15, <1>16, <2>1
    <2> QED BY <1>16, <2>2 DEF DataSame
  <1>29. FileOK(gl, View(gl, k), o, n, i)
    <2> DEFINE refs == View(flash, job)
               refs1 == View(gl, k)
    <2>1. FileOK(flash, refs, o, n, top)
      BY <1>4, <1>10, <1>11, PlainTop DEF Whole, top
    <2>2. /\ refs = [q \in Pages |-> flash[q].cells] /\ refs1 = [q \in Pages |-> gl[q].cells]
      BY <1>11, <1>15, <1>16, <1>17, PlainView, LoadedView
    <2> HIDE DEF refs, refs1
    <2>3. IxSameBut(flash, gl, refs, refs1, o, i)
      <3>1. \A q \in Pages : q # p => gl[q] = flash[q] /\ refs1[q] = refs[q]
        BY <1>16, <2>2
      <3>2. flash[p].lu # IxId(o) /\ gl[p].span = i
        BY <1>12, <1>13, <1>15, <1>16
      <3> QED BY <3>1, <3>2 DEF IxSameBut
    <2>4. SpansTyped(flash, o)
      BY <1>4, <1>10, PagesTyped
    <2>5. SpanHeld(flash, gl, refs1, o, n, i, i)
      <3>1. SUFFICES ASSUME NEW q \in Pages, IsIx(gl, o, i, q), NEW s \in Spans, IxSpan(s) = i
                     PROVE  RefOK(flash, o, n, s, refs1[q][IxEntry(s)])
        BY <1>6, <1>21 DEF SpanHeld
      <3>2. q = p
        <4>1. SUFFICES ASSUME q # p PROVE FALSE
          OBVIOUS
        <4>2. flash[q].lu = IxId(o) /\ flash[q].span = i
          BY <1>16, <3>1, <4>1 DEF IsIx
        <4> QED BY <1>6, <1>7, <1>24, <4>2
      <3>3. s \in Nat /\ IxEntry(s) \in Cells
        BY SpansAre
      <3>4. refs1[q][IxEntry(s)] = Blank
        BY <1>15, <1>16, <2>2, <3>2, <3>3 DEF NoCells
      <3>5. ~(s <= PageSpan(n))
        <4>1. SUFFICES ASSUME s <= PageSpan(n) PROVE FALSE
          OBVIOUS
        <4>2. PageSpan(n) \in Int /\ s \in Int /\ s >= -1
          BY <1>4, <3>3, SpanType
        <4>3. IxSpan(s) <= IxSpan(PageSpan(n))
          BY <4>1, <4>2, IxSpanMonotone
        <4>4. i <= top
          BY <3>1, <4>3 DEF top
        <4> QED BY <1>6, <1>7, <4>4
      <3> QED BY <3>4, <3>5 DEF RefOK
    <2>6. TopMoves(i, top, i)
      BY <1>6, <1>8 DEF TopMoves
    <2>7. i \in Int
      BY <1>6
    <2>8. FileOK(gl, refs1, o, n, i)
      BY <1>4, <1>6, <1>28, <2>1, <2>3, <2>4, <2>5, <2>6, <2>7, FileSpan
    <2> QED BY <2>8 DEF refs1
  <1>30. TopOf(k, o, n) = i
    BY <1>7, <1>17, <1>19 DEF TopOf, top, Resizing, Resizers
  <1>31. IsIx(gl, o, 0, h)
    <2>1. IsIx(flash, o, 0, h) /\ h # p
      BY <1>4, <1>12, <1>13 DEF Whole, IsIx
    <2> QED BY <1>3, <1>16, <2>1 DEF IsIx, Appending
  <1>32. HoldsText(gl, k, want, o, n)
    <2>1. TextOK(flash, o, n, job.new, n, n)
      BY <1>1, <1>4, TextForms DEF Whole
    <2>2. TextOK(gl, o, n, job.new, n, n)
      BY <1>4, <1>28, <2>1, TextSame
    <2> QED BY <1>17, <2>2, TextForms
  <1>33. n = UnitsOf(gl, k, h, o)
    BY <1>17 DEF UnitsOf, Resizing, Resizers
  <1>34. Whole(gl, k, want, o, h, n) /\ h \in Pages
    BY <1>3, <1>4, <1>29, <1>30, <1>31, <1>32, <1>33 DEF Whole, Appending
  <1>35. ThereOK(gl, k, want, o)
    BY <1>4, <1>34, ThereWhole
  <1>36. UNCHANGED <<flash, want, calls>>
    BY <1>1
  <1> HIDE DEF o, n
  <1> QED BY <1>2, <1>4, <1>11, <1>12, <1>13, <1>14, <1>18, <1>19, <1>20, <1>23, <1>25,
           <1>26, <1>27,
             <1>35, <1>36, Stepped DEF k

LEMMA AppendLoadSound ==
  ASSUME FlashSound, AppendLoad
  PROVE  FlashSound'
  BY AppendLoadOld, AppendLoadNew

-----------------------------------------------------------------------------
(* A page of data is noted in the index page that is loaded *)

NoteReady(fl, gl, j, k, o, s, v) ==
    /\ PagesOK(fl, j) /\ NoTwins(fl)
    /\ JobShape(j) /\ Loaded(j) /\ j.o = o /\ LoadedOK(fl, j) /\ j.ix = IxSpan(s)
    /\ Loaded(k) /\ k.ixp = j.ixp /\ k.cells = [j.cells EXCEPT ![IxEntry(s)] = v]
    /\ \A q \in Pages : fl[q].lu = IxId(o) \/ gl[q].lu = IxId(o) => gl[q] = fl[q]
    /\ DataSameBut(fl, gl, o, s)
LEMMA NotedFile ==
  ASSUME NEW fl, NEW gl, NEW j, NEW k, NEW o \in Objs, NEW n \in Nat, NEW m \in Nat, NEW top,
         NEW s \in Spans, NEW v, NoteReady(fl, gl, j, k, o, s, v),
         DataHeld(gl, o, s, m), RefOK(gl, o, m, s, v), UnitsMove(n, m, s),
         FileOK(fl, View(fl, j), o, n, top)
  PROVE  FileOK(gl, View(gl, k), o, m, top)
  <1> DEFINE refs == View(fl, j)
             refs1 == View(gl, k)
             q0 == j.ixp
  <1>1. /\ PagesOK(fl, j) /\ NoTwins(fl) /\ JobShape(j) /\ Loaded(j) /\ j.o = o
        /\ LoadedOK(fl, j) /\ j.ix = IxSpan(s) /\ Loaded(k) /\ k.ixp = q0
        /\ k.cells = [j.cells EXCEPT ![IxEntry(s)] = v]
        /\ (\A q \in Pages : fl[q].lu = IxId(o) \/ gl[q].lu = IxId(o) => gl[q] = fl[q])
        /\ DataSameBut(fl, gl, o, s)
    BY DEF NoteReady
  <1>2. q0 \in Pages /\ j.cells \in [Cells -> Values] /\ IsIx(fl, o, IxSpan(s), q0)
    BY <1>1, LoadedObj DEF LoadedOK
  <1>3. IxSame(fl, gl, o)
    BY <1>1 DEF IxSame
  <1>4. refs[q0] = j.cells /\ refs1[q0] = k.cells
    BY <1>1, <1>2 DEF View
  <1>5. \A q \in Pages : fl[q].lu = IxId(o) /\ q # q0 => refs1[q] = refs[q]
    BY <1>1 DEF View
  <1>6. SpansTyped(fl, o)
    BY <1>1, PagesTyped
  <1> HIDE DEF refs, refs1
  <1>7. EntryHolds(fl, refs, refs1, o, s, q0, v)
    BY <1>1, <1>2, <1>4, <1>5 DEF EntryHolds
  <1>8. FileOK(fl, refs, o, n, top)
    BY DEF refs
  <1> HIDE DEF q0
  <1>9. FileOK(gl, refs1, o, m, top)
    BY <1>1, <1>2, <1>3, <1>6, <1>7, <1>8, FileNote
  <1> QED BY <1>9 DEF refs1

-----------------------------------------------------------------------------
(* Appending: the data *)

\* What a page of data holds once units up to m are there.
Holds(page, s, m, new) ==
    \A c \in 0 .. (U - 1) :
        page.cells[c] = IF s * U + c < m THEN new[s * U + c + 1] ELSE Blank
\* The page v of span s, new or added to, is the only one that the step touches.
AppendsTo(gl, o, s, m, v) ==
    /\ v \in Pages /\ gl \in Flashes
    /\ \A q \in Pages : q # v => gl[q] = flash[q] /\ ~IsData(flash, o, s, q)
    /\ flash[v].lu = Blank \/ IsData(flash, o, s, v)
    /\ IsData(gl, o, s, v) /\ Legible(gl[v]) /\ DataPageOK(gl[v]) /\ Holds(gl[v], s, m, job.new)
    /\ job.cells[IxEntry(s)] \in {Blank, v}

LEMMA AppendedData ==
  ASSUME Deciding, NEW h, Appending(h), UNCHANGED <<flash, want, calls>>,
         cursor' \in 0 .. (B * N), NEW s \in Spans, s = job.pos \div U, job.ix = IxSpan(s),
         NEW m \in Nat, job.pos < m, m <= job.end, First(s) < m, m <= First(s) + U,
         NEW gl, NEW v, AppendsTo(gl, job.o, s, m, v),
         NEW p, NEW id, id # Garbled, Leads(flash, todo', gl, p, id),
         p \in Pages => flash[p].lu = Blank,
         job' = [job EXCEPT !.pos = m, !.cells[IxEntry(s)] = v]
  PROVE  FlashSound'
  <1> DEFINE k == job'
             o == job.o
             n == job.pos
             e == IxEntry(s)
  <1>1. /\ job \in CallShape /\ o \in Objs /\ job.op \in Writers /\ job.op = "append"
        /\ job.begin \in Nat /\ n \in Nat /\ job.end \in Nat
        /\ job.begin <= n /\ n <= job.end /\ job.end <= MaxSize
        /\ job.new \in Seq(Values) /\ Len(job.new) = job.end /\ IsIx(flash, o, 0, job.hdr)
        /\ n \in 0 .. MaxSize /\ Whole(flash, job, want, o, h, n)
        /\ job.hdr \in Pages /\ job.cells \in [Cells -> Values] /\ job.ixp \in Pages
        /\ job.begin = 0 /\ (job.ix = 0 \/ n = 0) => flash[job.hdr].size = Blank
        /\ h \in Pages
    BY ZenonT(60) DEF Appending
  <1>2. s \in Nat /\ job.ix \in Nat /\ e \in Cells /\ job.ix # NoIx
    BY SpansAre DEF NoIx
  <1>3. IsIx(flash, o, job.ix, job.ixp)
        /\ \A c \in Cells : flash[job.ixp].cells[c] \in {Blank, job.cells[c]}
    BY <1>2 DEF Appending
  <1>4. /\ flash \in Flashes /\ JobShape(job) /\ PagesOK(flash, job) /\ NoTwins(flash)
        /\ Filling(job, calls) /\ StateTyped /\ LoadedOK(flash, job)
    BY DEF Deciding
  <1>5. /\ job.op # "erase" /\ (\A x \in Objs : x # o => ~About(job, x))
        /\ Loaded(job) /\ \A a, b : ~Marked(job, a, b)
    BY <1>1, <1>2, <1>4, CallIs
  <1>6. /\ v \in Pages /\ gl \in Flashes
        /\ \A q \in Pages : q # v => gl[q] = flash[q] /\ ~IsData(flash, o, s, q)
        /\ flash[v].lu = Blank \/ IsData(flash, o, s, v)
        /\ IsData(gl, o, s, v) /\ Legible(gl[v]) /\ DataPageOK(gl[v])
        /\ Holds(gl[v], s, m, job.new) /\ job.cells[e] \in {Blank, v}
    BY DEF AppendsTo
  <1>7. /\ DataId(o) # IxId(o) /\ DataId(o) # Blank /\ IxId(o) # Blank /\ DataId(o) \in Ids
        /\ DataId(o) # Deleted /\ IxId(o) # Deleted
    BY <1>1, IdsDistinct
  <1>8. v \in Values
    BY <1>6, Lengths DEF Values, Pages
  <1>9. /\ k \in CallShape /\ k.op = "append" /\ k.o = o /\ k.hdr = job.hdr
        /\ k.begin = job.begin /\ k.pos = m /\ k.end = job.end /\ k.ix = job.ix
        /\ k.ixp = job.ixp /\ k.cells = [job.cells EXCEPT ![e] = v] /\ k.new = job.new
    <2> HIDE DEF k, e
    <2> DEFINE cells == [job.cells EXCEPT ![e] = v]
    <2>1. cells \in [Cells -> Values]
      BY <1>1, <1>2, <1>8
    <2>2. k = [job EXCEPT !.pos = m, !.cells = cells]
      BY <1>1 DEF k, e, CallShape
    <2> HIDE DEF cells
    <2>3. /\ k \in CallShape /\ k.op = "append" /\ k.o = o /\ k.hdr = job.hdr
          /\ k.begin = job.begin /\ k.pos = m /\ k.end = job.end /\ k.ix = job.ix
          /\ k.ixp = job.ixp /\ k.cells = cells /\ k.new = job.new
      BY <1>1, <2>1, <2>2 DEF CallShape
    <2> QED BY <2>3 DEF cells
  <1> HIDE DEF k
  <1>10. JobShape(k) /\ k.op \in Writers
    BY <1>9 DEF JobShape, Writers
  <1>11. Calling(k, o) /\ (\A x \in Objs : x # o => ~About(k, x)) /\ Loaded(k)
    BY <1>2, <1>9, <1>10, CallIs
  <1>12. Filling(k, calls)
    BY <1>1, <1>4, <1>9 DEF Filling
  <1>13. \A q \in Pages : flash[q].lu = IxId(o) \/ gl[q].lu = IxId(o) => q # v /\ gl[q] = flash[q]
    <2>1. flash[v].lu # IxId(o) /\ gl[v].lu # IxId(o)
      BY <1>6, <1>7 DEF IsData
    <2> QED BY <1>6, <2>1
  <1>14. /\ IsIx(gl, o, 0, job.hdr) /\ gl[job.hdr] = flash[job.hdr]
         /\ IsIx(gl, o, job.ix, job.ixp) /\ gl[job.ixp] = flash[job.ixp]
    BY <1>1, <1>3, <1>13 DEF IsIx
  <1>15. PageSpan(m) = s
    BY <1>2, SpanIs
  <1>16. CallOK(gl, k)
    <2>1. AtIx(k)
      BY <1>1, <1>9, <1>15 DEF AtIx
    <2>2. \A c \in Cells : gl[k.ixp].cells[c] \in {Blank, k.cells[c]}
      <3>1. SUFFICES ASSUME NEW c \in Cells PROVE flash[job.ixp].cells[c] \in {Blank, k.cells[c]}
        BY <1>9, <1>14
      <3>2. CASE c = e
        BY <1>1, <1>2, <1>3, <1>6, <1>9, <3>2
      <3>3. CASE c # e
        BY <1>1, <1>2, <1>3, <1>9, <3>3
      <3> QED BY <3>2, <3>3
    <2>3. k.begin = 0 /\ (k.ix = 0 \/ k.pos = 0) => gl[k.hdr].size = Blank
      <3>1. m # 0
        BY <1>1
      <3> QED BY <1>1, <1>9, <1>14, <3>1
    <2>4. k.begin <= k.pos /\ k.pos <= k.end /\ k.end <= MaxSize
      BY <1>1, <1>9
    <2>5. k.ix # NoIx
      BY <1>2, <1>9
    <2>6. AppendOK(gl, k)
      BY <1>1, <1>9, <1>14, <2>1, <2>2, <2>3, <2>4, <2>5, ZenonT(60) DEF AppendOK
    <2>7. ModifyOK(gl, k) /\ TruncateOK(gl, k) /\ EraseOK(gl, k)
      BY <1>9 DEF ModifyOK, TruncateOK, EraseOK
    <2>8. LoadedOK(gl, k)
      <3>1. Clean(job.cells) /\ v # Garbled
        BY <1>2, <1>8, <1>6, Lengths, ValuesAssumption DEF Appending, Pages
      <3>2. Clean(k.cells)
        BY <1>1, <1>9, <3>1 DEF Clean
      <3> QED BY <1>9, <1>14, <3>2 DEF LoadedOK
    <2> QED BY <2>6, <2>7, <2>8 DEF CallOK
  <1>17. PagesOK(gl, k)
    <2>1. PageOK(gl, k, v)
      BY <1>1, <1>6, DataOKPage DEF IsData
    <2> QED BY <1>4, <1>5, <1>6, <2>1, AddedPages
  <1>18. NoTwins(gl)
    <2>1. \A q \in Pages : q # v => ~(flash[q].lu = gl[v].lu /\ flash[q].span = gl[v].span)
      BY <1>6 DEF IsData
    <2> QED BY <1>4, <1>6, <2>1, AddedTwins
  <1>19. OnlyPagesOf(flash, gl, o)
    BY <1>6 DEF OnlyPagesOf, ObjIds, IsData
  <1>20. DataSameBut(flash, gl, o, s)
    BY <1>6, <1>7 DEF DataSameBut, IsData
  <1>21. FileOK(flash, View(flash, job), o, n, TopOf(job, o, n)) /\ IsIx(flash, o, 0, h)
    BY <1>1 DEF Whole
  <1>22. DataHeld(gl, o, s, m)
    <2>1. SUFFICES ASSUME NEW q \in Pages, IsData(gl, o, s, q), NEW c \in 0 .. (U - 1),
                          s * U + c >= m
                   PROVE  gl[q].cells[c] = Blank
      BY <1>2, <1>15 DEF DataHeld
    <2>2. q = v
      BY <1>6, <2>1 DEF IsData
    <2>3. ~(s * U + c < m)
      BY <1>2, <2>1, Lengths, FirstUnit DEF First
    <2> QED BY <1>6, <2>1, <2>2, <2>3 DEF Holds
  <1>23. PageSpan(n) \in {s - 1, s} /\ PageSpan(n) \in Int
    <2>1. n % U = 0 \/ n % U # 0
      OBVIOUS
    <2> QED BY <1>1, <1>2, <2>1, NextUnit
  <1>24. UnitsMove(n, m, s)
    <2>1. \A t \in Nat : t # s => (t <= PageSpan(n) <=> t <= PageSpan(m))
      BY <1>2, <1>15, <1>23
    <2>2. \A t \in Nat, c \in 0 .. (U - 1) :
             t # s /\ t <= PageSpan(n) /\ t * U + c >= m => t * U + c >= n
      BY <1>1, Lengths
    <2> QED BY <2>1, <2>2 DEF UnitsMove
  <1>25. RefOK(gl, o, m, s, v)
    BY <1>2, <1>6, <1>15 DEF RefOK
  <1>26. NoteReady(flash, gl, job, k, o, s, v)
    BY <1>4, <1>5, <1>9, <1>11, <1>13, <1>20, ZenonT(60) DEF NoteReady
  <1>27. FileOK(gl, View(gl, k), o, m, TopOf(job, o, n))
    BY <1>1, <1>21, <1>22, <1>24, <1>25, <1>26, NotedFile
  <1>28. TopOf(k, o, m) = TopOf(job, o, n)
    <2>1. TopOf(k, o, m) = job.ix
      BY <1>9, <1>15 DEF TopOf
    <2>2. IxSpan(PageSpan(n)) \in Nat /\ IxSpan(PageSpan(n)) <= job.ix
      <3>1. PageSpan(n) \in Int /\ PageSpan(n) >= -1 /\ PageSpan(n) <= s /\ s \in Int
        BY <1>1, <1>2, <1>23, SpanType
      <3> QED BY <1>1, <3>1, IxSpanMonotone, IxSpansOf
    <2>3. TopOf(job, o, n) = job.ix
      BY <1>1, <1>2, <1>5, <2>2 DEF TopOf, Resizing, Resizers
    <2> QED BY <2>1, <2>3
  <1>29. IsIx(gl, o, 0, h)
    BY <1>1, <1>13, <1>21 DEF IsIx
  <1>30. HoldsText(gl, k, want, o, m)
    <2>1. TextOK(flash, o, n, job.new, n, n)
      BY <1>1, TextForms DEF Whole
    <2>2. TextOK(gl, o, m, job.new, m, m)
      <3>1. SUFFICES ASSUME NEW q \in Pages, gl[q].lu = DataId(o), NEW c \in 0 .. (U - 1),
                            gl[q].span * U + c < m
                     PROVE  gl[q].cells[c] = job.new[gl[q].span * U + c + 1]
        BY DEF TextOK
      <3>2. CASE q = v
        <4>1. gl[q].span = s
          BY <1>6, <3>2 DEF IsData
        <4> QED BY <1>6, <3>1, <3>2, <4>1 DEF Holds
      <3>3. CASE q # v
        <4>1. gl[q] = flash[q] /\ flash[q].span # s
          BY <1>6, <3>1, <3>3 DEF IsData
        <4>2. flash[q].lu = DataId(o)
          BY <3>1, <4>1
        <4> DEFINE t == flash[q].span
        <4>3. t \in Nat
          BY <1>1, <1>4, <4>2, DataPage
        <4>4. t <= PageSpan(n)
          BY <1>21, <4>2 DEF FileOK, DataEnds
        <4> HIDE DEF t
        <4>5. First(t) < n
          BY <1>1, <4>3, <4>4, SpanBelow
        <4>6. t < s
          BY <1>2, <1>23, <4>1, <4>3, <4>4 DEF t
        <4>7. First(t) + U <= First(s) /\ First(t) \in Nat
          BY <1>2, <4>3, <4>6, FirstUnit
        <4>8. First(s) <= n
          <5> DEFINE r == n % U
          <5>1. r \in 0 .. (U - 1) /\ n = First(s) + r
            BY <1>1, UnitOf
          <5>2. First(s) \in Nat /\ U \in Nat
            BY <1>2, FirstUnit, Lengths
          <5> HIDE DEF r
          <5> QED BY <5>1, <5>2
        <4>9. First(t) + c < n /\ First(t) + c \in Nat
          <5>1. First(s) \in Nat /\ U \in Nat /\ c \in Nat /\ c < U
            BY <1>2, <3>1, FirstUnit, Lengths
          <5>2. n \in Nat
            BY <1>1
          <5> QED BY <4>7, <4>8, <5>1, <5>2
        <4>10. flash[q].span * U + c < n /\ ~(n <= flash[q].span * U + c)
          BY <1>1, <4>9 DEF First, t
        <4>11. flash[q].cells[c] = job.new[flash[q].span * U + c + 1]
          BY <2>1, <3>1, <4>2, <4>10 DEF TextOK
        <4> QED BY <4>1, <4>11
      <3> QED BY <3>2, <3>3
    <2> QED BY <1>9, <2>2, TextForms
  <1>31. m = UnitsOf(gl, k, h, o) /\ m \in 0 .. MaxSize
    BY <1>1, <1>9, Lengths DEF UnitsOf, Resizing, Resizers
  <1>32. Whole(gl, k, want, o, h, m)
    BY <1>27, <1>28, <1>29, <1>30, <1>31 DEF Whole
  <1>33. ThereOK(gl, k, want, o)
    BY <1>1, <1>31, <1>32, ThereWhole
  <1> HIDE DEF o, n, e
  <1> QED BY <1>1, <1>5, <1>10, <1>11, <1>12, <1>16, <1>17, <1>18, <1>19, <1>33, Stepped DEF k, o

\* What both ways of writing a page of data have in common.
AppendingData(h, s, off, count, m) ==
    /\ Appending(h) /\ Deciding /\ UNCHANGED <<flash, want, calls>>
    /\ s = job.pos \div U /\ off = job.pos % U /\ s \in Spans /\ off \in 0 .. (U - 1)
    /\ job.pos = First(s) + off /\ job.ix = IxSpan(s) /\ job.pos < job.end
    /\ count \in Nat /\ count >= 1 /\ count <= job.end - job.pos /\ count <= U - off
    /\ m = job.pos + count /\ calls \in Nat
AppendedCells(off, count) ==
    [c \in Cells |-> IF c \in off .. (off + count - 1) THEN calls ELSE Blank]
LEMMA AppendDataIs ==
  ASSUME FlashSound, AppendData
  PROVE  \E h \in Pages, s \in Spans, off \in 0 .. (U - 1), count \in Nat, m \in Nat :
           /\ AppendingData(h, s, off, count, m)
           /\ LET data == AppendedCells(off, count)
                  d == job.cells[IxEntry(s)]
                  moved == [job EXCEPT !.pos = @ + count]
              IN  \/ /\ off = 0
                     /\ \E p \in Pages :
                         /\ Take(p)
                         /\ todo' = Allocate(p, DataId(job.o), s, {"final"}, data, TRUE)
                         /\ job' = [moved EXCEPT !.cells[IxEntry(s)] = p]
                  \/ /\ off > 0 /\ DataOK(d, s)
                     /\ todo' = CellsW(d, data) /\ job' = moved /\ UNCHANGED cursor
  <1> DEFINE s == job.pos \div U
             off == job.pos % U
             count == Min({job.end - job.pos, U - off})
             m == job.pos + count
  <1>1. /\ job.op = "append" /\ todo = <<>> /\ job.pos < job.end /\ job.ix = IxSpan(s)
        /\ UNCHANGED <<flash, want, calls>>
    BY DEF AppendData, Running, AppendIx, Keep
  <1>2. Deciding
    BY <1>1, DecidingFrom
  <1>3. PICK h \in Pages : Appending(h)
    BY <1>1, <1>2, AppendingIs
  <1>4. job.pos \in Nat /\ job.end \in Nat /\ job.end <= MaxSize /\ job.pos \in 0 .. MaxSize
    BY <1>3 DEF Appending
  <1>5. s \in Nat /\ off \in 0 .. (U - 1) /\ job.pos = First(s) + off
    BY <1>4, UnitOf
  <1>6. s \in Spans
    <2>1. s <= PageSpan(MaxSize) /\ PageSpan(MaxSize) \in Int
      BY <1>1, <1>4, UnitWithin, Lengths, SpanType
    <2> HIDE DEF s
    <2> QED BY <1>5, <2>1 DEF Spans, MaxSpan
  <1>7. count \in Nat /\ count >= 1 /\ count <= job.end - job.pos /\ count <= U - off
    <2> DEFINE a == job.end - job.pos
               b == U - off
    <2>1. a \in Int /\ b \in Int /\ a >= 1 /\ b >= 1
      BY <1>1, <1>4, <1>5, Lengths
    <2> HIDE DEF a, b
    <2>2. Min({a, b}) \in {a, b} /\ Min({a, b}) <= a /\ Min({a, b}) <= b
      BY <2>1 DEF Min
    <2>3. count = Min({a, b})
      BY DEF a, b
    <2> HIDE DEF count
    <2>4. count \in Nat /\ count >= 1 /\ count <= a /\ count <= b
      BY <2>1, <2>2, <2>3
    <2> QED BY <2>4 DEF a, b
  <1>8. calls \in Nat
    BY <1>2, FlashAssumption DEF Deciding, StateTyped, FlashAssumption
  <1>9. m \in Nat
    <2> HIDE DEF count
    <2> QED BY <1>4, <1>7
  <1>10. AppendingData(h, s, off, count, m)
    <2> HIDE DEF count
    <2> QED BY <1>1, <1>2, <1>3, <1>5, <1>6, <1>7, <1>8, ZenonT(60) DEF AppendingData
  <1>11. LET data == AppendedCells(off, count)
             d == job.cells[IxEntry(s)]
             moved == [job EXCEPT !.pos = @ + count]
         IN  \/ /\ off = 0
                /\ \E p \in Pages :
                    /\ Take(p)
                    /\ todo' = Allocate(p, DataId(job.o), s, {"final"}, data, TRUE)
                    /\ job' = [moved EXCEPT !.cells[IxEntry(s)] = p]
             \/ /\ off > 0 /\ DataOK(d, s)
                /\ todo' = CellsW(d, data) /\ job' = moved /\ UNCHANGED cursor
    BY ZenonT(60) DEF AppendData, AppendedCells
  <1> HIDE DEF s, off, count, m
  <1> QED BY <1>5, <1>6, <1>7, <1>9, <1>10, <1>11

\* The units that are written, and those that were there.
UnitsAre(s, off, count, m) ==
    /\ \A c \in 0 .. (U - 1) :
         /\ s * U + c < m <=> c < off + count
         /\ s * U + c < job.pos <=> c < off
         /\ c >= off /\ c < off + count =>
              AppendedCells(off, count)[c] = calls /\ job.new[s * U + c + 1] = calls
    /\ \A c \in Cells : ~(c \in 0 .. (U - 1) /\ c >= off /\ c < off + count) =>
         AppendedCells(off, count)[c] = Blank
LEMMA AppendedText ==
  ASSUME NEW h, NEW s \in Spans, NEW off \in 0 .. (U - 1), NEW count \in Nat, NEW m \in Nat,
         AppendingData(h, s, off, count, m)
  PROVE  /\ job.o \in Objs /\ s \in Nat /\ off \in Nat /\ U \in Nat
         /\ job.pos < m /\ m <= job.end /\ First(s) < m /\ m <= First(s) + U
         /\ AppendedCells(off, count) \in [Cells -> Values]
         /\ 0 .. (U - 1) \subseteq Cells
         /\ UnitsAre(s, off, count, m)
         /\ PageSpan(job.pos) = IF off = 0 THEN s - 1 ELSE s
         /\ View(flash, job)[job.ixp] = job.cells /\ job.ixp \in Pages
         /\ IsIx(flash, job.o, IxSpan(s), job.ixp) /\ IxEntry(s) \in Cells
         /\ FileOK(flash, View(flash, job), job.o, job.pos, TopOf(job, job.o, job.pos))
         /\ TextOK(flash, job.o, job.pos, job.new, job.pos, job.pos)
  <1> DEFINE n == job.pos
             data == AppendedCells(off, count)
  <1>1. /\ Appending(h) /\ Deciding /\ s = n \div U /\ off = n % U /\ n = First(s) + off
        /\ job.ix = IxSpan(s) /\ n < job.end /\ count >= 1 /\ count <= job.end - n
        /\ count <= U - off /\ m = n + count /\ calls \in Nat
    BY DEF AppendingData
  <1>2. /\ s \in Nat /\ off \in Nat /\ U \in Nat /\ IxEntry(s) \in Cells /\ IxSpan(s) \in Nat
        /\ First(s) \in Nat /\ off < U
    BY SpansAre, Lengths, FirstUnit
  <1>3. /\ job.op = "append" /\ job.op \in Writers /\ job.o \in Objs /\ n \in Nat
        /\ job.end \in Nat /\ job.begin \in Nat /\ job.begin <= n
        /\ job.ixp \in Pages /\ Whole(flash, job, want, job.o, h, n)
        /\ job.ix # NoIx => IsIx(flash, job.o, job.ix, job.ixp)
    BY <1>1, ZenonT(60) DEF Appending
  <1>4. job.ix # NoIx /\ IsIx(flash, job.o, IxSpan(s), job.ixp)
    <2>1. job.ix \in Nat
      BY <1>1, <1>2
    <2>2. job.ix # NoIx
      BY <2>1 DEF NoIx
    <2> QED BY <1>1, <1>3, <2>2
  <1>5. n < m /\ m <= job.end /\ First(s) < m /\ m <= First(s) + U
    <2> HIDE DEF n
    <2> QED BY <1>1, <1>2, <1>3 DEF n
  <1>6. \A c \in Cells : data[c] = IF c \in off .. (off + count - 1) THEN calls ELSE Blank
    BY DEF AppendedCells
  <1>7. 0 .. (U - 1) \subseteq Cells
    BY CellsAre
  <1>8. data \in [Cells -> Values]
    <2>1. calls \in Values /\ Blank \in Values
      BY <1>1 DEF Values
    <2> QED BY <2>1 DEF AppendedCells
  <1>9. \A i \in (job.begin + 1) .. job.end : job.new[i] = calls
    BY <1>1, <1>3 DEF Deciding, Filling
  <1> HIDE DEF data
  <1>10. \A c \in 0 .. (U - 1) :
              /\ s * U + c < m <=> c < off + count
              /\ s * U + c < n <=> c < off
              /\ c >= off /\ c < off + count => data[c] = calls /\ job.new[s * U + c + 1] = calls
    <2>1. SUFFICES ASSUME NEW c \in 0 .. (U - 1)
                   PROVE  /\ s * U + c < m <=> c < off + count
                          /\ s * U + c < n <=> c < off
                          /\ c >= off /\ c < off + count =>
                               data[c] = calls /\ job.new[s * U + c + 1] = calls
      OBVIOUS
    <2> DEFINE f == s * U
    <2>2. f \in Nat /\ n = f + off /\ m = f + off + count
      BY <1>1, <1>2 DEF First
    <2> HIDE DEF f, n
    <2>3. (f + c < m <=> c < off + count) /\ (f + c < n <=> c < off)
      BY <1>2, <2>1, <2>2
    <2>4. ASSUME c >= off, c < off + count PROVE data[c] = calls /\ job.new[f + c + 1] = calls
      <3>1. c \in off .. (off + count - 1) /\ f + c + 1 \in (job.begin + 1) .. job.end
        BY <1>2, <1>3, <1>5, <2>1, <2>2, <2>4
      <3> QED BY <1>6, <1>7, <1>9, <2>1, <3>1
    <2> QED BY <2>3, <2>4 DEF f, n
  <1>11. \A c \in Cells : ~(c \in 0 .. (U - 1) /\ c >= off /\ c < off + count) => data[c] = Blank
    <2>1. \A c : c \in off .. (off + count - 1) => c \in 0 .. (U - 1) /\ c >= off /\ c < off + count
      BY <1>1, <1>2
    <2> QED BY <1>6, <2>1
  <1>12. PageSpan(n) = IF off = 0 THEN s - 1 ELSE s
    BY <1>1, <1>3, NextUnit
  <1>13. View(flash, job)[job.ixp] = job.cells
    BY <1>3, <1>4 DEF View, Loaded
  <1>14. /\ FileOK(flash, View(flash, job), job.o, n, TopOf(job, job.o, n))
         /\ HoldsText(flash, job, want, job.o, n)
    BY <1>3 DEF Whole
  <1>15. TextOK(flash, job.o, n, job.new, n, n)
    BY <1>3, <1>14, TextForms
  <1>16. UnitsAre(s, off, count, m)
    BY <1>10, <1>11, ZenonT(60) DEF UnitsAre, data
  <1> QED BY <1>2, <1>3, <1>4, <1>5, <1>7, <1>8, <1>12, <1>13, <1>14, <1>15, <1>16,
             ZenonT(60) DEF data

\* A new page.
LEMMA AppendNewSound ==
  ASSUME FlashSound, NEW h \in Pages, NEW s \in Spans, NEW off \in 0 .. (U - 1), NEW count \in Nat,
         NEW m \in Nat, AppendingData(h, s, off, count, m), off = 0, NEW p \in Pages, Take(p),
         todo' = Allocate(p, DataId(job.o), s, {"final"}, AppendedCells(off, count), TRUE),
         job' = [job EXCEPT !.pos = m, !.cells[IxEntry(s)] = p]
  PROVE  FlashSound'
  <1> DEFINE o == job.o
             n == job.pos
             data == AppendedCells(off, count)
             new == NewPage(DataId(o), s, {"final"}, data)
             gl == Put(flash, p, new)
             refs == View(flash, job)
  <1>1. /\ Appending(h) /\ Deciding /\ UNCHANGED <<flash, want, calls>>
        /\ s = n \div U /\ job.ix = IxSpan(s) /\ calls \in Nat
    BY DEF AppendingData
  <1>2. /\ o \in Objs /\ s \in Nat /\ off \in Nat /\ U \in Nat
        /\ n < m /\ m <= job.end /\ First(s) < m /\ m <= First(s) + U
        /\ data \in [Cells -> Values] /\ 0 .. (U - 1) \subseteq Cells
        /\ PageSpan(n) = s - 1 /\ job.ixp \in Pages /\ refs[job.ixp] = job.cells
        /\ IsIx(flash, o, IxSpan(s), job.ixp) /\ IxEntry(s) \in Cells
        /\ FileOK(flash, refs, o, n, TopOf(job, o, n))
    BY AppendedText
  <1>3. /\ \A c \in 0 .. (U - 1) :
              /\ s * U + c < m <=> c < off + count
              /\ c >= off /\ c < off + count => data[c] = calls /\ job.new[s * U + c + 1] = calls
        /\ \A c \in Cells : ~(c \in 0 .. (U - 1) /\ c >= off /\ c < off + count) => data[c] = Blank
    <2>1. UnitsAre(s, off, count, m)
      BY AppendedText
    <2> QED BY <2>1, ZenonT(60) DEF UnitsAre
  <1> HIDE DEF data, refs
  <1>4. /\ flash \in Flashes /\ PagesOK(flash, job) /\ NoTwins(flash)
        /\ job.op # "erase"
    BY <1>1 DEF Deciding, Appending
  <1>5. /\ flash[p].lu = Blank /\ flash[p] = BlankPage /\ cursor' \in 0 .. (B * N)
    BY <1>1, <1>4, Taken
  <1>6. DataId(o) \in Ids /\ DataId(o) # Garbled /\ DataId(o) # Blank
    BY <1>2, IdsDistinct
  <1>7. Leads(flash, todo', gl, p, DataId(o))
    <2>1. {"final"} \in SUBSET Flags
      BY DEF Flags
    <2>2. Leads(flash, Allocate(p, DataId(o), s, {"final"}, data, TRUE),
                Put(flash, p, NewPage(DataId(o), s,
                    IF TRUE THEN {"final"} \cup {"final"} ELSE {"final"}, data)), p, DataId(o))
      BY <1>2, <1>4, <1>5, <1>6, <2>1, LeadsAllocate
    <2>3. (IF TRUE THEN {"final"} \cup {"final"} ELSE {"final"}) = {"final"}
      OBVIOUS
    <2> QED BY <2>2, <2>3 DEF data
  <1>8. /\ new \in PageType /\ new.lu = DataId(o) /\ new.id = DataId(o) /\ new.span = s
        /\ new.flags = {"final", "used"} /\ new.size = Blank /\ new.cells = data
    <2>1. {"final"} \in SUBSET Flags
      BY DEF Flags
    <2>2. {"final"} \cup {"used"} = {"final", "used"}
      OBVIOUS
    <2> HIDE DEF new
    <2> QED BY <1>2, <1>6, <2>1, <2>2, NewPageParts DEF new
  <1> HIDE DEF new
  <1>9. /\ gl \in Flashes /\ gl[p] = new /\ \A q \in Pages : q # p => gl[q] = flash[q]
    BY <1>4, <1>8, PutType
  <1> HIDE DEF gl
  <1>10. \A q \in Pages : ~IsData(flash, o, s, q)
    <2>1. SUFFICES ASSUME NEW q \in Pages, IsData(flash, o, s, q) PROVE FALSE
      OBVIOUS
    <2>2. flash[q].span <= PageSpan(n) /\ flash[q].span = s
      BY <1>2, <2>1 DEF FileOK, DataEnds, IsData
    <2> QED BY <1>2, <2>2
  <1>11. job.cells[IxEntry(s)] = Blank
    <2>1. RefOK(flash, o, n, s, refs[job.ixp][IxEntry(s)])
      BY <1>2 DEF FileOK, RefsOK
    <2>2. ~(s <= PageSpan(n))
      BY <1>2
    <2> QED BY <1>2, <2>1, <2>2 DEF RefOK
  <1>12. Holds(gl[p], s, m, job.new)
    <2>1. SUFFICES ASSUME NEW c \in 0 .. (U - 1)
                   PROVE  data[c] = IF s * U + c < m THEN job.new[s * U + c + 1] ELSE Blank
      BY <1>8, <1>9 DEF Holds
    <2>2. c \in Cells /\ c >= off
      BY <1>2
    <2> QED BY <1>3, <2>2
  <1>13. Legible(gl[p]) /\ DataPageOK(gl[p]) /\ IsData(gl, o, s, p)
    <2>1. \A c \in Cells : data[c] # Garbled
      <3>1. calls # Garbled /\ Blank # Garbled
        BY <1>1, ValuesAssumption
      <3> QED BY <1>3, <3>1
    <2>2. Blank # Garbled /\ s # Garbled
      BY <1>2, ValuesAssumption
    <2> QED BY <1>6, <1>8, <1>9, <2>1, <2>2 DEF Legible, DataPageOK, IsData
  <1>14. AppendsTo(gl, o, s, m, p)
    BY <1>5, <1>9, <1>10, <1>11, <1>12, <1>13, ZenonT(60) DEF AppendsTo
  <1> QED BY <1>1, <1>2, <1>5, <1>6, <1>7, <1>14, AppendedData DEF o, n

\* The rest of the last page.
LEMMA AppendRestSound ==
  ASSUME FlashSound, NEW h \in Pages, NEW s \in Spans, NEW off \in 0 .. (U - 1), NEW count \in Nat,
         NEW m \in Nat, AppendingData(h, s, off, count, m), off > 0, UNCHANGED cursor,
         todo' = CellsW(job.cells[IxEntry(s)], AppendedCells(off, count)),
         job' = [job EXCEPT !.pos = m]
  PROVE  FlashSound'
  <1> DEFINE o == job.o
             n == job.pos
             data == AppendedCells(off, count)
             d == job.cells[IxEntry(s)]
             x == flash[d]
             y == [c \in Cells |-> Meet(x.cells[c], data[c])]
             new == [x EXCEPT !.cells = y]
             gl == Put(flash, d, new)
             refs == View(flash, job)
  <1>1. /\ Appending(h) /\ Deciding /\ UNCHANGED <<flash, want, calls>>
        /\ s = n \div U /\ job.ix = IxSpan(s) /\ calls \in Nat
    BY DEF AppendingData
  <1>2. /\ o \in Objs /\ s \in Nat /\ off \in Nat /\ U \in Nat
        /\ n < m /\ m <= job.end /\ First(s) < m /\ m <= First(s) + U
        /\ data \in [Cells -> Values] /\ 0 .. (U - 1) \subseteq Cells
        /\ PageSpan(n) = s /\ job.ixp \in Pages /\ refs[job.ixp] = job.cells
        /\ IsIx(flash, o, IxSpan(s), job.ixp) /\ IxEntry(s) \in Cells
        /\ FileOK(flash, refs, o, n, TopOf(job, o, n))
        /\ TextOK(flash, o, n, job.new, n, n)
    <2>1. off # 0
      BY Lengths
    <2> QED BY <2>1, AppendedText, ZenonT(60)
  <1>3. /\ \A c \in 0 .. (U - 1) :
              /\ s * U + c < m <=> c < off + count
              /\ s * U + c < n <=> c < off
              /\ c >= off /\ c < off + count => data[c] = calls /\ job.new[s * U + c + 1] = calls
        /\ \A c \in Cells : ~(c \in 0 .. (U - 1) /\ c >= off /\ c < off + count) => data[c] = Blank
    <2>1. UnitsAre(s, off, count, m)
      BY AppendedText
    <2> QED BY <2>1, ZenonT(60) DEF UnitsAre
  <1> HIDE DEF data, refs
  <1>4. /\ flash \in Flashes /\ PagesOK(flash, job) /\ NoTwins(flash)
        /\ job.op # "erase" /\ job \in CallShape /\ n \in Nat /\ StateTyped
    BY <1>1 DEF Deciding, Appending
  <1>5. d \in Pages /\ IsData(flash, o, s, d)
    <2>1. RefOK(flash, o, n, s, refs[job.ixp][IxEntry(s)])
      BY <1>2 DEF FileOK, RefsOK
    <2>2. s <= PageSpan(n)
      BY <1>2
    <2> QED BY <1>2, <2>1, <2>2 DEF RefOK
  <1> HIDE DEF d
  <1>6. /\ x \in PageType /\ x.lu = DataId(o) /\ x.span = s /\ Legible(x) /\ DataPageOK(x)
        /\ x.cells \in [Cells -> Values]
    <2>1. x \in PageType /\ x.lu = DataId(o) /\ x.span = s
      BY <1>4, <1>5 DEF Flashes, IsData
    <2> QED BY <1>2, <1>4, <1>5, <2>1, DataPage, PageParts
  <1>7. DataId(o) \in Ids /\ DataId(o) # Garbled /\ DataId(o) # Blank
    BY <1>2, IdsDistinct
  <1>8. \A c \in 0 .. (U - 1) :
           /\ c >= off => x.cells[c] = Blank
           /\ c < off => x.cells[c] = job.new[s * U + c + 1]
    <2>1. SUFFICES ASSUME NEW c \in 0 .. (U - 1)
                   PROVE  /\ c >= off => x.cells[c] = Blank
                          /\ c < off => x.cells[c] = job.new[s * U + c + 1]
      OBVIOUS
    <2>2. s * U + c \in Nat
      BY <1>2, <2>1
    <2>3. c >= off => x.cells[c] = Blank
      <3>1. c >= off => s * U + c >= n
        BY <1>2, <1>3, <1>4, <2>1, <2>2
      <3> QED BY <1>2, <1>5, <1>6, <2>1, <3>1 DEF FileOK, DataEnds
    <2>4. c < off => x.cells[c] = job.new[s * U + c + 1]
      <3>1. c < off => s * U + c < n /\ ~(n <= s * U + c)
        BY <1>2, <1>3, <1>4, <2>1, <2>2
      <3> QED BY <1>2, <1>5, <1>6, <2>1, <3>1 DEF TextOK
    <2> QED BY <2>3, <2>4
  <1> HIDE DEF x
  <1>9. \A c \in Cells : y[c] = Meet(x.cells[c], data[c])
    OBVIOUS
  <1>10. \A c \in Cells : IF c \in 0 .. (U - 1) /\ c >= off /\ c < off + count
                          THEN y[c] = calls ELSE y[c] = x.cells[c]
    <2>1. SUFFICES ASSUME NEW c \in Cells
                   PROVE  IF c \in 0 .. (U - 1) /\ c >= off /\ c < off + count
                          THEN y[c] = calls ELSE y[c] = x.cells[c]
      OBVIOUS
    <2>2. CASE c \in 0 .. (U - 1) /\ c >= off /\ c < off + count
      <3>1. x.cells[c] = Blank /\ data[c] = calls
        BY <1>3, <1>8, <2>2
      <3>2. y[c] = calls
        BY <1>9, <3>1, MeetSame
      <3> QED BY <2>2, <3>2
    <2>3. CASE ~(c \in 0 .. (U - 1) /\ c >= off /\ c < off + count)
      <3>1. data[c] = Blank
        BY <1>3, <2>3
      <3>2. y[c] = x.cells[c]
        BY <1>9, <3>1, MeetSame
      <3> QED BY <2>3, <3>2
    <2> QED BY <2>2, <2>3
  <1>11. y \in [Cells -> Values]
    <2>1. calls \in Values
      BY <1>1 DEF Values
    <2>2. \A c \in Cells : y[c] \in Values
      BY <1>6, <1>10, <2>1
    <2> QED BY <2>2
  <1> HIDE DEF y
  <1>12. Leads(flash, todo', gl, NoIx, IxId(o))
    <2>1. Leads(Put(flash, d, x), CellsW(d, data), Put(flash, d, [x EXCEPT !.cells = y]),
                NoIx, IxId(o))
      BY <1>2, <1>4, <1>5, <1>6, <1>11, LeadsCells DEF y
    <2>2. Put(flash, d, x) = flash
      BY <1>4, <1>5, <1>6, PutType DEF x
    <2> QED BY <2>1, <2>2 DEF d, data
  <1>13. /\ new \in PageType /\ new.lu = DataId(o) /\ new.id = x.id /\ new.span = s
         /\ new.flags = x.flags /\ new.size = x.size /\ new.cells = y
    BY <1>6, <1>11 DEF PageType
  <1> HIDE DEF new
  <1>14. /\ gl \in Flashes /\ gl[d] = new /\ \A q \in Pages : q # d => gl[q] = flash[q]
    BY <1>4, <1>5, <1>13, PutType
  <1> HIDE DEF gl
  <1>15. Holds(gl[d], s, m, job.new)
    <2>1. SUFFICES ASSUME NEW c \in 0 .. (U - 1)
                   PROVE  y[c] = IF s * U + c < m THEN job.new[s * U + c + 1] ELSE Blank
      BY <1>13, <1>14 DEF Holds
    <2>2. c \in Cells /\ off \in Nat /\ count \in Nat /\ c \in Nat
      BY <1>2
    <2> QED BY <1>3, <1>8, <1>10, <2>2
  <1>16. Legible(gl[d]) /\ DataPageOK(gl[d]) /\ IsData(gl, o, s, d)
    <2>1. \A c \in Cells : y[c] # Garbled
      <3>1. calls # Garbled
        BY <1>1, ValuesAssumption
      <3> QED BY <1>6, <1>10, <3>1 DEF Legible
    <2> QED BY <1>6, <1>13, <1>14, <2>1 DEF Legible, DataPageOK, IsData
  <1>17. \A q \in Pages : q # d => ~IsData(flash, o, s, q)
    BY <1>2, <1>4, <1>5, OneData
  <1>18. AppendsTo(gl, o, s, m, d)
    BY <1>5, <1>14, <1>15, <1>16, <1>17, ZenonT(60) DEF AppendsTo, d
  <1>19. job' = [job EXCEPT !.pos = m, !.cells[IxEntry(s)] = d]
    <2>1. job.cells \in [Cells -> Values]
      BY <1>4, CallParts
    <2>2. [job.cells EXCEPT ![IxEntry(s)] = d] = job.cells
      BY <1>2, <2>1 DEF d
    <2>3. [job EXCEPT !.pos = m, !.cells = job.cells] = [job EXCEPT !.pos = m]
      BY <1>4 DEF CallShape
    <2>4. [job EXCEPT !.pos = m, !.cells[IxEntry(s)] = d]
            = [job EXCEPT !.pos = m, !.cells = [job.cells EXCEPT ![IxEntry(s)] = d]]
      BY <1>4 DEF CallShape
    <2> QED BY <2>2, <2>3, <2>4
  <1>20. cursor' \in 0 .. (B * N) /\ IxId(o) # Garbled /\ NoIx \notin Pages
    BY <1>2, <1>4, Typed, Lengths, IdsDistinct
  <1> QED BY <1>1, <1>2, <1>12, <1>18, <1>19, <1>20, AppendedData DEF o, n

LEMMA AppendDataSound ==
  ASSUME FlashSound, AppendData
  PROVE  FlashSound'
  <1>1. PICK h \in Pages, s \in Spans, off \in 0 .. (U - 1), count \in Nat, m \in Nat :
          /\ AppendingData(h, s, off, count, m)
          /\ LET data == AppendedCells(off, count)
                 d == job.cells[IxEntry(s)]
                 moved == [job EXCEPT !.pos = @ + count]
             IN  \/ /\ off = 0
                    /\ \E p \in Pages :
                        /\ Take(p)
                        /\ todo' = Allocate(p, DataId(job.o), s, {"final"}, data, TRUE)
                        /\ job' = [moved EXCEPT !.cells[IxEntry(s)] = p]
                 \/ /\ off > 0 /\ DataOK(d, s)
                    /\ todo' = CellsW(d, data) /\ job' = moved /\ UNCHANGED cursor
    BY AppendDataIs
  <1>2. m = job.pos + count /\ job \in CallShape
    BY <1>1 DEF AppendingData, Appending
  <1>3. [job EXCEPT !.pos = @ + count] = [job EXCEPT !.pos = m]
    BY <1>2
  <1>4. CASE \E p \in Pages :
               /\ off = 0 /\ Take(p)
               /\ todo' = Allocate(p, DataId(job.o), s, {"final"}, AppendedCells(off, count), TRUE)
               /\ job' = [[job EXCEPT !.pos = m] EXCEPT !.cells[IxEntry(s)] = p]
    <2>1. PICK p \in Pages :
            /\ off = 0 /\ Take(p)
            /\ todo' = Allocate(p, DataId(job.o), s, {"final"}, AppendedCells(off, count), TRUE)
            /\ job' = [[job EXCEPT !.pos = m] EXCEPT !.cells[IxEntry(s)] = p]
      BY <1>4
    <2>2. job' = [job EXCEPT !.pos = m, !.cells[IxEntry(s)] = p]
      BY <2>1
    <2> QED BY <1>1, <2>1, <2>2, AppendNewSound
  <1>5. CASE /\ off > 0 /\ UNCHANGED cursor /\ job' = [job EXCEPT !.pos = m]
             /\ todo' = CellsW(job.cells[IxEntry(s)], AppendedCells(off, count))
    BY <1>1, <1>5, AppendRestSound
  <1> QED BY <1>1, <1>3, <1>4, <1>5, ZenonT(60)

-----------------------------------------------------------------------------
(* Appending: the index page and the size are stored *)

\* The references as they are in the flash.
Plain(fl) == [q \in Pages |-> fl[q].cells]

\* Whatever the call was, its file is the one it left once the index is stored.
StoredAs(gl, o, n, h1) ==
    /\ gl \in Flashes /\ h1 \in Pages /\ IsIx(gl, o, 0, h1) /\ DataSame(flash, gl, o)
    /\ FileOK(gl, Plain(gl), o, n, IxSpan(PageSpan(n)))
    /\ PagesOK(gl, Idle) /\ NoTwins(gl) /\ OnlyPagesOf(flash, gl, o)

LEMMA AppendStoredSound ==
  ASSUME Deciding, NEW h, Appending(h), job.ix # NoIx, job.pos = job.end \/ job.ix # AppendIx,
         UNCHANGED <<flash, want, calls>>, cursor' \in 0 .. (B * N), NEW h1, NEW gl,
         StoredAs(gl, job.o, job.pos, h1), gl[h1].size = job.pos,
         job' = IF job.pos = job.end THEN Returning(job.new)
                ELSE [job EXCEPT !.ix = NoIx, !.hdr = h1],
         NEW p, NEW id, id # Garbled, Leads(flash, todo', gl, p, id),
         p \in Pages => flash[p].lu = Blank
  PROVE  FlashSound'
  <1> DEFINE k == job'
             o == job.o
             n == job.pos
  <1>1. /\ job \in CallShape /\ o \in Objs /\ job.op \in Writers /\ job.op = "append"
        /\ job.begin \in Nat /\ n \in Nat /\ job.end \in Nat
        /\ job.begin <= n /\ n <= job.end /\ job.end <= MaxSize
        /\ job.new \in Seq(Values) /\ Len(job.new) = job.end
        /\ n \in 0 .. MaxSize /\ Whole(flash, job, want, o, h, n) /\ AtIx(job)
        /\ job.new \in Contents
    BY ZenonT(60) DEF Appending
  <1>2. /\ gl \in Flashes /\ h1 \in Pages /\ IsIx(gl, o, 0, h1) /\ DataSame(flash, gl, o)
        /\ FileOK(gl, Plain(gl), o, n, IxSpan(PageSpan(n)))
        /\ PagesOK(gl, Idle) /\ NoTwins(gl) /\ OnlyPagesOf(flash, gl, o)
    BY DEF StoredAs
  <1>3. /\ flash \in Flashes /\ JobShape(job) /\ Filling(job, calls) /\ StateTyped
    BY DEF Deciding
  <1>4. \A x \in Objs : x # o => ~About(job, x)
    BY <1>1, <1>3, CallIs
  <1>5. n > job.begin /\ job.ix = IxSpan(PageSpan(n))
    BY <1>1 DEF AtIx, AppendIx
  <1>6. TextOK(flash, o, n, job.new, n, n)
    BY <1>1, TextForms DEF Whole
  <1>7. TextOK(gl, o, n, job.new, n, n)
    BY <1>1, <1>2, <1>6, TextSame
  <1>8. SizeIn(gl[h1]) = n
    BY <1>1, ValuesAssumption DEF SizeIn
  <1>9. /\ JobShape(k) /\ Filling(k, calls) /\ CallOK(gl, k) /\ k.op \in {"append", "return"}
        /\ ~Loaded(k) /\ (\A x \in Objs : x # o => ~About(k, x))
        /\ UnitsOf(gl, k, h1, o) = n /\ HoldsText(gl, k, want, o, n)
    <2>1. CASE n = job.end
      <3>1. k = [op |-> "return", o |-> o, new |-> job.new]
        BY <2>1 DEF Returning
      <3> HIDE DEF k
      <3>2. k \in ReturnShape /\ k.op = "return" /\ k.o = o /\ k.new = job.new
        BY <1>1, <3>1, CallReturned
      <3>3. /\ JobShape(k) /\ Filling(k, calls) /\ CallOK(gl, k) /\ ~Resizing(k, o)
            /\ ~Loaded(k) /\ (\A x \in Objs : x # o => ~About(k, x))
        BY <3>2, ReturnIs
      <3>4. UnitsOf(gl, k, h1, o) = n
        BY <1>8, <3>3 DEF UnitsOf
      <3>5. HoldsText(gl, k, want, o, n)
        BY <1>1, <1>7, <2>1, <3>2, TextForms
      <3> QED BY <3>2, <3>3, <3>4, <3>5
    <2>2. CASE n # job.end
      <3>1. k = [job EXCEPT !.ix = NoIx, !.hdr = h1] /\ n < job.end /\ job.ix # AppendIx
        BY <1>1, <2>2
      <3> HIDE DEF k
      <3>2. /\ k \in CallShape /\ k.op = "append" /\ k.o = o /\ k.hdr = h1 /\ k.begin = job.begin
            /\ k.pos = n /\ k.end = job.end /\ k.ix = NoIx /\ k.new = job.new
        BY <1>1, <1>2, <3>1 DEF CallShape
      <3>3. JobShape(k) /\ k.op \in Writers
        BY <1>1, <3>2 DEF JobShape
      <3>4. /\ Calling(k, o) /\ (\A x \in Objs : x # o => ~About(k, x)) /\ ~Loaded(k)
        BY <3>2, <3>3, CallIs
      <3>5. Filling(k, calls)
        BY <1>1, <1>3, <3>2 DEF Filling
      <3>6. IxSpan(n \div U) > IxSpan(PageSpan(n))
        <4>1. IxSpan(n \div U) \in Nat /\ IxSpan(PageSpan(n)) \in Nat
          BY <1>1, IxSpansOf
        <4>2. IxSpan(PageSpan(n)) <= IxSpan(n \div U)
          <5> DEFINE s == n \div U
          <5>1. s \in Nat /\ (PageSpan(n) = s - 1 \/ PageSpan(n) = s)
            <6>1. n % U = 0 \/ n % U # 0
              OBVIOUS
            <6> QED BY <1>1, <6>1, NextUnit
          <5>2. PageSpan(n) \in Int /\ PageSpan(n) >= -1
            BY <1>1, SpanType
          <5> HIDE DEF s
          <5>3. PageSpan(n) <= s /\ s \in Int
            BY <5>1, <5>2
          <5>4. IxSpan(PageSpan(n)) <= IxSpan(s)
            BY <5>2, <5>3, IxSpanMonotone
          <5> QED BY <5>4 DEF s
        <4>3. IxSpan(n \div U) # IxSpan(PageSpan(n))
          BY <1>5, <3>1 DEF AppendIx
        <4> DEFINE a == IxSpan(n \div U)
                   b == IxSpan(PageSpan(n))
        <4>4. a \in Nat /\ b \in Nat /\ b <= a /\ a # b
          BY <4>1, <4>2, <4>3
        <4> HIDE DEF a, b
        <4>5. a > b
          BY <4>4
        <4> QED BY <4>5 DEF a, b
      <3>7. CallOK(gl, k)
        <4>1. k.begin <= k.pos /\ k.pos <= k.end /\ k.end <= MaxSize /\ k.pos < k.end
          BY <1>1, <3>1, <3>2
        <4>2. k.begin = 0 /\ (k.ix = 0 \/ k.pos = 0) => gl[k.hdr].size = Blank
          <5>1. n # 0 /\ NoIx # 0
            BY <1>1, <1>5 DEF NoIx
          <5> QED BY <3>2, <5>1
        <4>3. AppendOK(gl, k)
          BY <1>1, <1>2, <3>2, <3>6, <4>1, <4>2, ZenonT(60) DEF AppendOK
        <4>4. ModifyOK(gl, k) /\ TruncateOK(gl, k) /\ EraseOK(gl, k)
          BY <3>2 DEF ModifyOK, TruncateOK, EraseOK
        <4>5. LoadedOK(gl, k)
          BY <3>4 DEF LoadedOK
        <4> QED BY <4>3, <4>4, <4>5 DEF CallOK
      <3>8. UnitsOf(gl, k, h1, o) = n
        BY <3>2 DEF UnitsOf, Resizing, Resizers
      <3>9. HoldsText(gl, k, want, o, n)
        BY <1>7, <3>2, TextForms
      <3> QED BY <3>2, <3>3, <3>4, <3>5, <3>7, <3>8, <3>9
    <2> QED BY <2>1, <2>2
  <1> HIDE DEF k
  <1>10. PagesOK(gl, k)
    <2>1. Idle.op # "erase" /\ \A a, b : ~Marked(Idle, a, b)
      BY IdleShape DEF Marked
    <2> QED BY <1>2, <2>1, PagesSame
  <1>11. View(gl, k) = Plain(gl) /\ TopOf(k, o, n) = IxSpan(PageSpan(n))
    BY <1>9, PlainView, PlainTop DEF Plain
  <1>12. Whole(gl, k, want, o, h1, n)
    BY <1>1, <1>2, <1>9, <1>11 DEF Whole
  <1>13. ThereOK(gl, k, want, o)
    BY <1>1, <1>2, <1>12, ThereWhole
  <1> HIDE DEF o, n
  <1> QED BY <1>1, <1>2, <1>4, <1>9, <1>10, <1>13, Stepped DEF k, o

-----------------------------------------------------------------------------
(* An index page is rewritten in place *)

\* The image of an index page with another size, or other references.
LEMMA ImageForms ==
  ASSUME NEW x \in PageType, NEW size \in Values, NEW cells \in [Cells -> Values]
  PROVE  /\ [x EXCEPT !.size = size] = Resized(x, size, x.cells)
         /\ [x EXCEPT !.cells = cells] = Resized(x, x.size, cells)
         /\ [[x EXCEPT !.size = size] EXCEPT !.cells = cells] = Resized(x, size, cells)
  BY DEF PageType, Resized

IxImageIs(fl, o, i, q, size, cells, x) ==
    /\ x = Resized(fl[q], size, cells)
    /\ x \in PageType /\ x.lu = IxId(o) /\ x.id = IxId(o) /\ x.span = i /\ x.size = size
    /\ x.cells = cells /\ x.flags = fl[q].flags /\ Legible(x) /\ IxPageOK(x, FALSE)
    /\ {"final", "used"} \subseteq x.flags
LEMMA IxImages ==
  ASSUME NEW fl \in Flashes, NEW j, PagesOK(fl, j), Unmarked(j), NEW o \in Objs, NEW q \in Pages,
         NEW i, IsIx(fl, o, i, q), NEW size, size = Blank \/ (i = 0 /\ size \in 1 .. MaxSize),
         NEW cells \in [Cells -> Values], Clean(cells), NEW x,
         x = Resized(fl[q], size, cells)
  PROVE  IxImageIs(fl, o, i, q, size, cells, x)
  <1> DEFINE y == fl[q]
  <1>1. y \in PageType /\ size \in Values
    BY Lengths DEF Flashes, Values
  <1>2. /\ x \in PageType /\ x.lu = y.lu /\ x.id = y.id /\ x.span = y.span /\ x.flags = y.flags
        /\ x.size = size /\ x.cells = cells
    <2> HIDE DEF y
    <2>1. x = [y EXCEPT !.size = size, !.cells = cells]
      BY DEF y, Resized
    <2> QED BY <1>1, <2>1 DEF PageType
  <1>3. y.lu = IxId(o) /\ y.span = i
    BY DEF IsIx
  <1>4. Legible(y) /\ IxPageOK(y, Marked(j, o, q)) /\ ~Marked(j, o, q)
    BY <1>3, IxPage DEF Unmarked
  <1>5. y.id = IxId(o)
    BY <1>3, <1>4 DEF IxPageOK
  <1>6. Garbled # size
    BY ValuesAssumption, Lengths
  <1> HIDE DEF y
  <1>7. Legible(x)
    BY <1>2, <1>4, <1>6 DEF Legible, Clean
  <1>8. IxPageOK(x, FALSE) /\ {"final", "used"} \subseteq x.flags
    BY <1>2, <1>3, <1>4 DEF IxPageOK
  <1> QED BY <1>2, <1>3, <1>5, <1>7, <1>8 DEF IxImageIs, y

\* An index page written again in place.
RewriteReady(fl, gl, j, o, i, q, x) ==
    /\ fl \in Flashes /\ PagesOK(fl, j) /\ NoTwins(fl) /\ Unmarked(j) /\ q \in Pages
    /\ IsIx(fl, o, i, q) /\ gl = Put(fl, q, x) /\ x \in PageType /\ x.lu = IxId(o)
    /\ x.id = IxId(o) /\ x.span = i /\ Legible(x) /\ IxPageOK(x, FALSE)
RewriteDone(fl, gl, o, i, q, x) ==
    /\ gl \in Flashes /\ gl[q] = x /\ IsIx(gl, o, i, q)
    /\ \A p \in Pages : p # q => gl[p] = fl[p]
    /\ \A p \in Pages : fl[p].lu = IxId(o) \/ gl[p].lu = IxId(o) =>
                          gl[p].lu = fl[p].lu /\ gl[p].span = fl[p].span
    /\ DataSame(fl, gl, o) /\ PagesOK(gl, Idle) /\ NoTwins(gl) /\ OnlyPagesOf(fl, gl, o)
LEMMA RewrittenIx ==
  ASSUME NEW fl, NEW gl, NEW j, NEW o \in Objs, NEW i, NEW q, NEW x,
         RewriteReady(fl, gl, j, o, i, q, x)
  PROVE  RewriteDone(fl, gl, o, i, q, x)
  <1>1. /\ fl \in Flashes /\ PagesOK(fl, j) /\ NoTwins(fl) /\ Unmarked(j) /\ q \in Pages
        /\ IsIx(fl, o, i, q) /\ gl = Put(fl, q, x) /\ x \in PageType /\ x.lu = IxId(o)
        /\ x.id = IxId(o) /\ x.span = i /\ Legible(x) /\ IxPageOK(x, FALSE)
    BY DEF RewriteReady
  <1>2. gl \in Flashes /\ gl[q] = x /\ \A p \in Pages : p # q => gl[p] = fl[p]
    BY <1>1, PutType
  <1>3. fl[q].lu = IxId(o) /\ fl[q].span = i
    BY <1>1 DEF IsIx
  <1>4. IxId(o) # DataId(o)
    BY IdsDistinct
  <1>5. DataSame(fl, gl, o) /\ OnlyPagesOf(fl, gl, o) /\ IsIx(gl, o, i, q)
    BY <1>1, <1>2, <1>3, <1>4 DEF DataSame, OnlyPagesOf, ObjIds, IsIx
  <1>6. \A p \in Pages : gl[p].lu = fl[p].lu /\ gl[p].span = fl[p].span
    BY <1>1, <1>2, <1>3
  <1>7. NoTwins(gl)
    BY <1>1, <1>6, ChangedTwins
  <1>8. PagesOK(gl, Idle)
    <2>1. ~Marked(Idle, o, q)
      BY IdleShape DEF Marked
    <2>2. PageOK(gl, Idle, q)
      <3>1. IxPageOK(gl[q], Marked(Idle, o, q))
        BY <1>1, <1>2, <2>1 DEF IxPageOK
      <3> QED BY <1>1, <1>2, <3>1, IxOKPage
    <2>3. j.op # "erase" /\ \A a, b : ~Marked(j, a, b)
      BY <1>1 DEF Unmarked
    <2> QED BY <1>1, <1>2, <2>2, <2>3, AddedPages
  <1> QED BY <1>2, <1>5, <1>6, <1>7, <1>8 DEF RewriteDone
\* The file when the page that is loaded was written.
LEMMA RewrittenFile ==
  ASSUME NEW fl, NEW gl, NEW j, NEW o \in Objs, NEW i, NEW q \in Pages, NEW x, NEW n, NEW top,
         RewriteDone(fl, gl, o, i, q, x), Loaded(j), j.ixp = q, x.cells = j.cells,
         FileOK(fl, View(fl, j), o, n, top)
  PROVE  FileOK(gl, Plain(gl), o, n, top)
  <1>1. /\ gl[q] = x /\ (\A p \in Pages : p # q => gl[p] = fl[p]) /\ DataSame(fl, gl, o)
        /\ \A p \in Pages : fl[p].lu = IxId(o) \/ gl[p].lu = IxId(o) =>
                          gl[p].lu = fl[p].lu /\ gl[p].span = fl[p].span
    BY DEF RewriteDone
  <1>2. \A p \in Pages : Plain(gl)[p] = View(fl, j)[p]
    BY <1>1 DEF Plain, View
  <1>3. \A p \in Pages : fl[p].lu = DataId(o) \/ gl[p].lu = DataId(o) => gl[p] = fl[p]
    BY <1>1 DEF DataSame
  <1> QED BY <1>1, <1>2, <1>3, FileSame
\* The writes.
LEMMA LeadsRewrite ==
  ASSUME NEW fl \in Flashes, NEW q \in Pages, NEW size \in Values,
         NEW cells \in [Cells -> Values], NEW x, x = Resized(fl[q], size, cells),
         Rewritable(fl[q], size, cells), NEW p, NEW id
  PROVE  Leads(fl, PageW(q, x), Put(fl, q, x), p, id)
  <1> DEFINE y == fl[q]
             im == [x EXCEPT !.lu = Blank]
  <1>1. y \in PageType
    BY DEF Flashes
  <1>2. im \in PageType /\ im.lu = Blank /\ MeetPage(y, im) = x
    <2>1. Rewritable(y, size, cells) /\ x = Resized(y, size, cells)
      OBVIOUS
    <2>2. im = Unlisted(x)
      BY DEF Unlisted
    <2> HIDE DEF y, im
    <2> QED BY <1>1, <2>1, <2>2, PageRewrite
  <1>3. Put(fl, q, y) = fl
    BY <1>1, PutType
  <1> HIDE DEF y, im
  <1>4. Leads(Put(fl, q, y), W(q, im), Put(fl, q, x), p, id)
    BY <1>1, <1>2, LeadsOne
  <1> QED BY <1>3, <1>4 DEF PageW, im

\* After an index page moved the file is whole, as it is in the flash.
LEMMA StoredFile ==
  ASSUME NEW fl, NEW gl, NEW j, NEW o \in Objs, NEW i \in Nat, NEW src, NEW dst, NEW image,
         MoveReady(fl, gl, j, Idle, o, i, src, dst, image), NEW refs, NEW n, NEW top \in Nat,
         FileOK(fl, refs, o, n, top), image.cells = refs[src],
         \A q \in Pages : fl[q].lu = IxId(o) /\ q # src => refs[q] = fl[q].cells
  PROVE  FileOK(gl, Plain(gl), o, n, top)
  <1>1. MoveDone(fl, gl, Idle, o, i, src, dst, image)
    BY MovedIx
  <1>2. /\ gl \in Flashes /\ MovedTo(fl, gl, src, dst) /\ gl[src].lu = Deleted /\ gl[dst] = image
        /\ DataSame(fl, gl, o) /\ IsIx(gl, o, i, dst)
    BY <1>1 DEF MoveDone
  <1>3. /\ gl[src].lu # IxId(o) /\ fl[dst].lu # IxId(o) /\ IsIx(fl, o, i, src) /\ dst \in Pages
        /\ PagesOK(fl, j) /\ NoTwins(fl) /\ src \in Pages
    BY <1>2, IdsDistinct, Blanks DEF IsIx, IxMove, MoveReady
  <1>4. SpansTyped(fl, o)
    BY <1>3, PagesTyped
  <1>5. RefsKept(fl, refs, Plain(gl), o, src)
    <2>1. \A q \in Pages : q # src /\ q # dst => gl[q] = fl[q]
      BY <1>2 DEF MovedTo
    <2> QED BY <1>3, <2>1 DEF RefsKept, Plain
  <1>6. SpanRefs(fl, o, n, i, Plain(gl)[dst])
    <2>1. Plain(gl)[dst] = refs[src]
      BY <1>2, <1>3 DEF Plain
    <2> QED BY <1>3, <2>1, RefsOf
  <1> QED BY <1>2, <1>3, <1>4, <1>5, <1>6, MovedFile

\* What is known when the index page, and the size, are to be stored.
Storing(h) ==
    /\ Appending(h) /\ Deciding /\ job.ix \in Nat /\ UNCHANGED <<flash, want, calls>>
    /\ Unmarked(job) /\ Loaded(job) /\ Unmarked(Idle)
    /\ flash \in Flashes /\ PagesOK(flash, job) /\ NoTwins(flash)
    /\ FileOK(flash, View(flash, job), job.o, job.pos, IxSpan(PageSpan(job.pos)))
    /\ IxSpan(PageSpan(job.pos)) \in Nat /\ job.pos \in 1 .. MaxSize
    /\ flash[job.ixp] \in PageType /\ flash[job.hdr] \in PageType
    /\ flash[job.hdr].cells \in [Cells -> Values] /\ Clean(flash[job.hdr].cells)
    /\ \A c \in Cells : flash[job.ixp].cells[c] \in {Blank, job.cells[c]}
    /\ flash[job.ixp].size \in Values /\ (job.ix # 0 => flash[job.ixp].size = Blank)
    /\ View(flash, job)[job.ixp] = job.cells
    /\ \A q \in Pages : q # job.ixp => View(flash, job)[q] = flash[q].cells
    /\ job.o \in Objs /\ job.hdr \in Pages /\ job.ixp \in Pages /\ Clean(job.cells)
    /\ job.cells \in [Cells -> Values] /\ IsIx(flash, job.o, job.ix, job.ixp)
    /\ IsIx(flash, job.o, 0, job.hdr) /\ (job.ix = 0 => job.ixp = job.hdr)
    /\ (job.ix # 0 => job.ixp # job.hdr) /\ job.op = "append" /\ job.op # "erase"
    /\ (job.ix = 0 /\ job.begin = 0 => flash[job.hdr].size = Blank)
LEMMA StoringIs ==
  ASSUME FlashSound, AppendStore
  PROVE  \E h \in Pages : Storing(h) /\ todo = <<>>
  <1> DEFINE n == job.pos
             o == job.o
  <1>1. /\ job.op = "append" /\ todo = <<>> /\ job.ix # NoIx /\ (n = job.end \/ job.ix # AppendIx)
        /\ UNCHANGED <<flash, want, calls>>
    BY DEF AppendStore, Running, Keep
  <1>2. Deciding
    BY <1>1, DecidingFrom
  <1>3. PICK h \in Pages : Appending(h)
    BY <1>1, <1>2, AppendingIs
  <1>4. /\ job \in CallShape /\ o \in Objs /\ job.op \in Writers
        /\ job.begin \in Nat /\ n \in Nat /\ job.end \in Nat
        /\ job.begin <= n /\ n <= job.end /\ job.end <= MaxSize /\ IsIx(flash, o, 0, job.hdr)
        /\ n \in 0 .. MaxSize /\ Whole(flash, job, want, o, h, n) /\ AtIx(job)
        /\ job.hdr \in Pages /\ job.ixp \in Pages /\ job.cells \in [Cells -> Values]
        /\ job.ix \in Nat /\ IsIx(flash, o, job.ix, job.ixp) /\ Clean(job.cells)
        /\ \A c \in Cells : flash[job.ixp].cells[c] \in {Blank, job.cells[c]}
        /\ job.begin = 0 /\ (job.ix = 0 \/ n = 0) => flash[job.hdr].size = Blank
    BY <1>1, <1>3, ZenonT(60) DEF Appending
  <1>5. /\ flash \in Flashes /\ PagesOK(flash, job) /\ NoTwins(flash) /\ JobShape(job)
    BY <1>2 DEF Deciding
  <1>6. /\ Loaded(job) /\ (\A a, b : ~Marked(job, a, b)) /\ job.op # "erase"
    BY <1>1, <1>4, <1>5, CallIs
  <1>7. Unmarked(job) /\ Unmarked(Idle)
    BY <1>6, IdleShape DEF Unmarked, Marked
  <1>8. n > job.begin /\ job.ix = IxSpan(PageSpan(n))
    BY <1>1, <1>4 DEF AtIx, AppendIx
  <1>9. n \in 1 .. MaxSize /\ IxSpan(PageSpan(n)) \in Nat
    BY <1>4, <1>8, IxSpansOf, Lengths
  <1>10. FileOK(flash, View(flash, job), o, n, IxSpan(PageSpan(n)))
    <2>1. TopOf(job, o, n) = IxSpan(PageSpan(n))
      BY <1>8 DEF TopOf
    <2> QED BY <1>4, <2>1 DEF Whole
  <1>11. /\ flash[job.ixp] \in PageType /\ flash[job.hdr] \in PageType
         /\ flash[job.hdr].cells \in [Cells -> Values] /\ flash[job.ixp].size \in Values
    <2>1. flash[job.ixp] \in PageType /\ flash[job.hdr] \in PageType
      BY <1>4, <1>5 DEF Flashes
    <2> QED BY <2>1, PageParts
  <1>12. Clean(flash[job.hdr].cells) /\ (job.ix # 0 => flash[job.ixp].size = Blank)
    <2>1. Legible(flash[job.hdr]) /\ IxPageOK(flash[job.ixp], Marked(job, o, job.ixp))
      BY <1>4, <1>5, IxPage DEF IsIx
    <2> QED BY <1>4, <2>1 DEF IsIx, Legible, Clean, IxPageOK
  <1>13. /\ View(flash, job)[job.ixp] = job.cells
         /\ \A q \in Pages : q # job.ixp => View(flash, job)[q] = flash[q].cells
    BY <1>4, <1>6 DEF View
  <1>14. (job.ix = 0 => job.ixp = job.hdr) /\ (job.ix # 0 => job.ixp # job.hdr)
    BY <1>4, <1>5, OneIx DEF IsIx
  <1>15. Storing(h)
    BY <1>1, <1>2, <1>3, <1>4, <1>5, <1>6, <1>7, <1>9, <1>10, <1>11, <1>12, <1>13, <1>14,
       ZenonT(60) DEF Storing
  <1> QED BY <1>1, <1>15

LEMMA HdrImages ==
  ASSUME flash[job.hdr] \in PageType, NEW size \in Values, job.cells \in [Cells -> Values]
  PROVE  /\ HdrImageWith(size) = Resized(flash[job.hdr], size, job.cells)
         /\ HdrImage(size) = Resized(flash[job.hdr], size, flash[job.hdr].cells)
  <1> DEFINE x == flash[job.hdr]
             cells == job.cells
  <1>1. HdrImage(size) = [x EXCEPT !.size = size]
    BY DEF HdrImage
  <1>2. HdrImageWith(size) = [[x EXCEPT !.size = size] EXCEPT !.cells = cells]
    BY <1>1 DEF HdrImageWith
  <1>3. x \in PageType /\ cells \in [Cells -> Values]
    OBVIOUS
  <1> HIDE DEF x, cells
  <1>4. /\ [x EXCEPT !.size = size] = Resized(x, size, x.cells)
        /\ [[x EXCEPT !.size = size] EXCEPT !.cells = cells] = Resized(x, size, cells)
    BY <1>3 DEF PageType, Resized
  <1>5. HdrImageWith(size) = Resized(x, size, cells) /\ HdrImage(size) = Resized(x, size, x.cells)
    BY <1>1, <1>2, <1>4
  <1> QED BY <1>5 DEF x, cells
LEMMA IxImages2 ==
  ASSUME flash[job.ixp] \in PageType, job.cells \in [Cells -> Values]
  PROVE  IxImage = Resized(flash[job.ixp], flash[job.ixp].size, job.cells)
  <1> DEFINE x == flash[job.ixp]
             cells == job.cells
  <1>1. IxImage = [x EXCEPT !.cells = cells]
    BY DEF IxImage
  <1>2. x \in PageType /\ cells \in [Cells -> Values]
    OBVIOUS
  <1> HIDE DEF x, cells
  <1>3. [x EXCEPT !.cells = cells] = Resized(x, x.size, cells)
    BY <1>2 DEF PageType, Resized
  <1> QED BY <1>1, <1>3 DEF x, cells

\* The header of a file that was empty is written in place.
LEMMA StoreInPlace ==
  ASSUME NEW h, Storing(h), job.ix = 0, job.begin = 0, NEW p, NEW id
  PROVE  \E gl : /\ Leads(flash, PageW(job.hdr, HdrImageWith(job.pos)), gl, p, id)
                 /\ StoredAs(gl, job.o, job.pos, job.hdr) /\ gl[job.hdr].size = job.pos
  <1> DEFINE n == job.pos
             o == job.o
             hd == job.hdr
             x == Resized(flash[hd], n, job.cells)
             gl == Put(flash, hd, x)
             top == IxSpan(PageSpan(n))
  <1>1. /\ flash \in Flashes /\ PagesOK(flash, job) /\ Unmarked(job) /\ NoTwins(flash)
        /\ o \in Objs /\ hd \in Pages /\ IsIx(flash, o, 0, hd) /\ n \in 1 .. MaxSize
        /\ job.cells \in [Cells -> Values] /\ Clean(job.cells) /\ job.ixp = hd
        /\ flash[hd] \in PageType /\ flash[hd].size = Blank /\ Loaded(job)
        /\ FileOK(flash, View(flash, job), o, n, top)
        /\ \A c \in Cells : flash[hd].cells[c] \in {Blank, job.cells[c]}
    BY ZenonT(60) DEF Storing
  <1>2. n \in Values
    BY <1>1, Lengths DEF Values
  <1>3. HdrImageWith(n) = x
    BY <1>1, <1>2, HdrImages
  <1> HIDE DEF x
  <1>4. x = Resized(flash[hd], n, job.cells)
    BY DEF x
  <1>5. IxImageIs(flash, o, 0, hd, n, job.cells, x)
    BY <1>1, <1>4, IxImages
  <1>6. Rewritable(flash[hd], n, job.cells)
    <2>1. flash[hd].lu # Deleted
      BY <1>1, IdsDistinct DEF IsIx
    <2> QED BY <1>1, <2>1 DEF Rewritable
  <1>7. Leads(flash, PageW(hd, x), gl, p, id)
    BY <1>1, <1>2, <1>4, <1>6, LeadsRewrite
  <1>8. RewriteReady(flash, gl, job, o, 0, hd, x)
    BY <1>1, <1>5 DEF RewriteReady, IxImageIs
  <1> HIDE DEF gl
  <1>9. RewriteDone(flash, gl, o, 0, hd, x)
    BY <1>1, <1>8, RewrittenIx
  <1>10. FileOK(gl, Plain(gl), o, n, top)
    <2>1. x.cells = job.cells
      BY <1>5 DEF IxImageIs
    <2> QED BY <1>1, <1>9, <2>1, RewrittenFile
  <1>11. StoredAs(gl, o, n, hd) /\ gl[hd].size = n
    BY <1>1, <1>5, <1>9, <1>10 DEF StoredAs, RewriteDone, IxImageIs
  <1> QED BY <1>3, <1>7, <1>11

\* The header moves.
LEMMA StoreHeader ==
  ASSUME NEW h, Storing(h), job.ix = 0, NEW p \in Pages, flash[p] = BlankPage
  PROVE  \E gl : /\ Leads(flash, Move(job.hdr, p, HdrImageWith(job.pos)), gl, p, IxId(job.o))
                 /\ StoredAs(gl, job.o, job.pos, p) /\ gl[p].size = job.pos
  <1> DEFINE n == job.pos
             o == job.o
             hd == job.hdr
             x == Resized(flash[hd], n, job.cells)
             gl == Put(Put(flash, p, x), hd, Dead(flash[hd]))
             top == IxSpan(PageSpan(n))
             refs == View(flash, job)
  <1>1. /\ flash \in Flashes /\ PagesOK(flash, job) /\ Unmarked(job) /\ NoTwins(flash)
        /\ o \in Objs /\ hd \in Pages /\ IsIx(flash, o, 0, hd) /\ n \in 1 .. MaxSize
        /\ job.cells \in [Cells -> Values] /\ Clean(job.cells) /\ job.ixp = hd
        /\ flash[hd] \in PageType /\ Loaded(job) /\ top \in Nat
        /\ FileOK(flash, refs, o, n, top) /\ refs[hd] = job.cells
        /\ \A q \in Pages : q # hd => refs[q] = flash[q].cells
    BY ZenonT(60) DEF Storing
  <1>2. n \in Values
    BY <1>1, Lengths DEF Values
  <1>3. HdrImageWith(n) = x
    BY <1>1, <1>2, HdrImages
  <1> HIDE DEF x, refs
  <1>4. x = Resized(flash[hd], n, job.cells)
    BY DEF x
  <1>5. IxImageIs(flash, o, 0, hd, n, job.cells, x)
    BY <1>1, <1>4, IxImages
  <1>6. /\ x \in PageType /\ x.lu = IxId(o) /\ x.id = IxId(o) /\ x.span = 0 /\ x.size = n
        /\ x.cells = job.cells /\ Legible(x) /\ IxPageOK(x, FALSE)
        /\ {"final", "used"} \subseteq x.flags
    BY <1>5 DEF IxImageIs
  <1>7. hd # p /\ IxId(o) \in Ids
    BY <1>1, IdsDistinct, Blanks DEF IsIx
  <1>8. Leads(flash, Move(hd, p, x), gl, p, IxId(o))
    BY <1>1, <1>6, <1>7, LeadsMove
  <1>9. MoveReady(flash, gl, job, Idle, o, 0, hd, p, x)
    <2>1. IxMove(flash, gl, o, 0, hd, p, x)
      BY <1>1, <1>6, <1>7 DEF IxMove
    <2>2. IxImageOK(gl, Idle, o, 0, p, x)
      BY <1>6 DEF IxImageOK, IxPageOK
    <2> QED BY <1>1, <2>1, <2>2 DEF MoveReady
  <1> HIDE DEF gl
  <1>10. MoveDone(flash, gl, Idle, o, 0, hd, p, x)
    BY <1>1, <1>9, MovedIx
  <1>11. FileOK(gl, Plain(gl), o, n, top)
    <2>1. \A q \in Pages : flash[q].lu = IxId(o) /\ q # hd => refs[q] = flash[q].cells
      BY <1>1
    <2>2. x.cells = refs[hd] /\ 0 \in Nat
      BY <1>1, <1>6
    <2> QED BY <1>1, <1>9, <2>1, <2>2, StoredFile
  <1>12. StoredAs(gl, o, n, p) /\ gl[p].size = n
    BY <1>1, <1>6, <1>10, <1>11 DEF StoredAs, MoveDone
  <1> QED BY <1>3, <1>8, <1>12

\* An index page is written in place, then the header moves with the size.
LEMMA StoreBoth ==
  ASSUME NEW h, Storing(h), job.ix # 0, NEW p \in Pages, flash[p] = BlankPage
  PROVE  \E gl : /\ Leads(flash, PageW(job.ixp, IxImage) \o Move(job.hdr, p, HdrImage(job.pos)),
                           gl, p, IxId(job.o))
                 /\ StoredAs(gl, job.o, job.pos, p) /\ gl[p].size = job.pos
  <1> DEFINE n == job.pos
             o == job.o
             hd == job.hdr
             q == job.ixp
             i == job.ix
             y == Resized(flash[q], flash[q].size, job.cells)
             hl == Put(flash, q, y)
             x == Resized(flash[hd], n, flash[hd].cells)
             gl == Put(Put(hl, p, x), hd, Dead(hl[hd]))
             top == IxSpan(PageSpan(n))
  <1>1. /\ flash \in Flashes /\ PagesOK(flash, job) /\ Unmarked(job) /\ NoTwins(flash)
        /\ o \in Objs /\ hd \in Pages /\ IsIx(flash, o, 0, hd) /\ n \in 1 .. MaxSize
        /\ job.cells \in [Cells -> Values] /\ Clean(job.cells) /\ q # hd /\ q \in Pages
        /\ flash[hd] \in PageType /\ flash[q] \in PageType /\ Loaded(job) /\ top \in Nat
        /\ FileOK(flash, View(flash, job), o, n, top) /\ IsIx(flash, o, i, q) /\ i \in Nat
        /\ flash[hd].cells \in [Cells -> Values] /\ Clean(flash[hd].cells)
        /\ flash[q].size = Blank /\ flash[q].size \in Values /\ Unmarked(Idle)
        /\ \A c \in Cells : flash[q].cells[c] \in {Blank, job.cells[c]}
    BY ZenonT(60) DEF Storing
  <1>2. n \in Values
    BY <1>1, Lengths DEF Values
  <1>3. HdrImage(n) = x /\ IxImage = y
    BY <1>1, <1>2, HdrImages, IxImages2
  <1> HIDE DEF x, y
  <1>4. x = Resized(flash[hd], n, flash[hd].cells) /\ y = Resized(flash[q], Blank, job.cells)
        /\ Blank \in Values
    BY <1>1 DEF x, y
  <1>5. IxImageIs(flash, o, i, q, Blank, job.cells, y)
    BY <1>1, <1>4, IxImages
  <1>6. Rewritable(flash[q], Blank, job.cells)
    <2>1. flash[q].lu # Deleted
      BY <1>1, IdsDistinct DEF IsIx
    <2> QED BY <1>1, <2>1 DEF Rewritable
  <1>7. Leads(flash, PageW(q, y), hl, p, IxId(o))
    BY <1>1, <1>4, <1>6, LeadsRewrite
  <1>8. RewriteReady(flash, hl, job, o, i, q, y)
    BY <1>1, <1>5 DEF RewriteReady, IxImageIs
  <1> HIDE DEF hl
  <1>9. RewriteDone(flash, hl, o, i, q, y)
    BY <1>1, <1>8, RewrittenIx
  <1>10. /\ hl \in Flashes /\ (\A r \in Pages : r # q => hl[r] = flash[r]) /\ PagesOK(hl, Idle)
         /\ NoTwins(hl) /\ DataSame(flash, hl, o) /\ OnlyPagesOf(flash, hl, o)
    BY <1>9 DEF RewriteDone
  <1>11. FileOK(hl, Plain(hl), o, n, top)
    <2>1. y.cells = job.cells
      BY <1>5 DEF IxImageIs
    <2> QED BY <1>1, <1>9, <2>1, RewrittenFile
  <1>12. p # q /\ p # hd /\ IxId(o) \in Ids
    BY <1>1, IdsDistinct, Blanks DEF IsIx
  <1>13. hl[hd] = flash[hd] /\ hl[p] = BlankPage /\ IsIx(hl, o, 0, hd)
    BY <1>1, <1>10, <1>12 DEF IsIx
  <1>14. x = Resized(hl[hd], n, flash[hd].cells)
    BY <1>4, <1>13
  <1>15. IxImageIs(hl, o, 0, hd, n, flash[hd].cells, x)
    BY <1>1, <1>10, <1>13, <1>14, IxImages
  <1>16. /\ x \in PageType /\ x.lu = IxId(o) /\ x.id = IxId(o) /\ x.span = 0 /\ x.size = n
         /\ x.cells = flash[hd].cells /\ Legible(x) /\ IxPageOK(x, FALSE)
         /\ {"final", "used"} \subseteq x.flags
    BY <1>15 DEF IxImageIs
  <1>17. Leads(hl, Move(hd, p, x), gl, p, IxId(o))
    BY <1>1, <1>10, <1>12, <1>13, <1>16, LeadsMove
  <1>18. MoveReady(hl, gl, Idle, Idle, o, 0, hd, p, x)
    <2>1. IxMove(hl, gl, o, 0, hd, p, x)
      BY <1>1, <1>12, <1>13 DEF IxMove
    <2>2. IxImageOK(gl, Idle, o, 0, p, x)
      BY <1>16 DEF IxImageOK, IxPageOK
    <2> QED BY <1>1, <1>10, <2>1, <2>2 DEF MoveReady
  <1> HIDE DEF gl
  <1>19. MoveDone(hl, gl, Idle, o, 0, hd, p, x)
    BY <1>1, <1>18, MovedIx
  <1>20. FileOK(gl, Plain(gl), o, n, top)
    <2>1. \A r \in Pages : hl[r].lu = IxId(o) /\ r # hd => Plain(hl)[r] = hl[r].cells
      BY DEF Plain
    <2>2. x.cells = Plain(hl)[hd] /\ 0 \in Nat
      BY <1>1, <1>13, <1>16 DEF Plain
    <2> QED BY <1>1, <1>11, <1>18, <2>1, <2>2, StoredFile
  <1>21. DataSame(flash, gl, o)
    <2>1. DataSame(hl, gl, o)
      BY <1>19 DEF MoveDone
    <2> QED BY <1>10, <2>1 DEF DataSame
  <1>22. OnlyPagesOf(flash, gl, o)
    <2>1. OnlyPagesOf(hl, gl, o)
      BY <1>19 DEF MoveDone
    <2> QED BY <1>10, <2>1, OnlyTwice
  <1>23. StoredAs(gl, o, n, p) /\ gl[p].size = n
    BY <1>1, <1>16, <1>19, <1>20, <1>21, <1>22 DEF StoredAs, MoveDone
  <1>24. Leads(flash, PageW(q, y) \o Move(hd, p, x), gl, p, IxId(o))
    BY <1>7, <1>17, LeadsThen
  <1> QED BY <1>3, <1>23, <1>24

LEMMA AppendStoreSound ==
  ASSUME FlashSound, AppendStore
  PROVE  FlashSound'
  <1>1. PICK h \in Pages : Storing(h) /\ todo = <<>>
    BY StoringIs
  <1>2. /\ Appending(h) /\ Deciding /\ job.ix # NoIx /\ UNCHANGED <<flash, want, calls>>
        /\ job.op # "erase" /\ job.o \in Objs /\ job.ix \in Nat /\ job.begin \in Nat
        /\ job.hdr \in Pages
    BY <1>1 DEF Storing, NoIx, Appending
  <1>3. job.pos = job.end \/ job.ix # AppendIx
    BY DEF AppendStore
  <1>4. IxId(job.o) # Garbled
    BY <1>2, IdsDistinct
  <1> DEFINE after(h1) == IF job.pos = job.end THEN Returning(job.new)
                          ELSE [job EXCEPT !.ix = NoIx, !.hdr = h1]
  <1>5. CASE /\ job.ix = 0 /\ job.begin = 0 /\ cursor' = cursor
             /\ todo' = PageW(job.hdr, HdrImageWith(job.pos)) /\ job' = after(job.hdr)
    <2>1. PICK gl : /\ Leads(flash, todo', gl, NoIx, IxId(job.o))
                    /\ StoredAs(gl, job.o, job.pos, job.hdr) /\ gl[job.hdr].size = job.pos
      BY <1>1, <1>5, StoreInPlace
    <2>2. cursor' \in 0 .. (B * N) /\ NoIx \notin Pages
      BY <1>2, <1>5, Typed, Lengths DEF Deciding
    <2> QED BY <1>2, <1>3, <1>4, <1>5, <2>1, <2>2, AppendStoredSound
  <1>6. ASSUME NEW p \in Pages, Take(p), job' = after(p),
               \/ job.ix = 0 /\ todo' = Move(job.hdr, p, HdrImageWith(job.pos))
               \/ /\ job.ix # 0
                  /\ todo' = PageW(job.ixp, IxImage) \o Move(job.hdr, p, HdrImage(job.pos))
        PROVE  FlashSound'
    <2>1. flash[p].lu = Blank /\ flash[p] = BlankPage /\ cursor' \in 0 .. (B * N)
      BY <1>2, <1>6, Taken
    <2>2. PICK gl : /\ Leads(flash, todo', gl, p, IxId(job.o))
                    /\ StoredAs(gl, job.o, job.pos, p) /\ gl[p].size = job.pos
      BY <1>1, <1>6, <2>1, StoreHeader, StoreBoth
    <2> QED BY <1>2, <1>3, <1>4, <1>6, <2>1, <2>2, AppendStoredSound
  <1>7. \/ /\ job.ix = 0 /\ job.begin = 0 /\ cursor' = cursor
           /\ todo' = PageW(job.hdr, HdrImageWith(job.pos)) /\ job' = after(job.hdr)
        \/ \E p \in Pages :
              /\ Take(p) /\ job' = after(p)
              /\ \/ job.ix = 0 /\ todo' = Move(job.hdr, p, HdrImageWith(job.pos))
                 \/ job.ix # 0 /\ todo' = PageW(job.ixp, IxImage)
                                           \o Move(job.hdr, p, HdrImage(job.pos))
    BY ZenonT(60) DEF AppendStore
  <1> QED BY <1>5, <1>6, <1>7

-----------------------------------------------------------------------------
(* Storing an index page that moves *)

\* The page that is loaded moves, with its references.
LEMMA StoreLoaded ==
  ASSUME Deciding, Loaded(job), Unmarked(job), NEW o \in Objs, o = job.o,
         NEW h \in Pages, NEW n \in 0 .. MaxSize, Whole(flash, job, want, o, h, n),
         ~Resizing(job, o), NEW p \in Pages, flash[p] = BlankPage
  PROVE  \E gl, h1 : /\ Leads(flash, Move(job.ixp, p, IxImage), gl, p, IxId(o))
                     /\ StoredAs(gl, o, n, h1) /\ SizeIn(gl[h1]) = SizeIn(flash[h])
  <1> DEFINE q == job.ixp
             i == job.ix
             sz == flash[q].size
             x == Resized(flash[q], sz, job.cells)
             gl == Put(Put(flash, p, x), q, Dead(flash[q]))
             top == IxSpan(PageSpan(n))
             refs == View(flash, job)
             h1 == IF i = 0 THEN p ELSE h
  <1>1. /\ flash \in Flashes /\ PagesOK(flash, job) /\ NoTwins(flash) /\ JobShape(job)
        /\ LoadedOK(flash, job)
    BY DEF Deciding
  <1>2. /\ q \in Pages /\ job.cells \in [Cells -> Values] /\ i \in Nat
        /\ IsIx(flash, o, i, q) /\ Clean(job.cells)
    BY <1>1, LoadedObj DEF LoadedOK
  <1>3. flash[q] \in PageType /\ flash[h] \in PageType
    BY <1>1, <1>2 DEF Flashes
  <1>4. sz \in Values /\ (sz = Blank \/ (i = 0 /\ sz \in 1 .. MaxSize))
    <2>1. IxPageOK(flash[q], Marked(job, o, q))
      BY <1>1, <1>2, IxPage DEF IsIx
    <2>2. sz \in Values
      BY <1>3, PageParts
    <2> QED BY <1>2, <2>1, <2>2 DEF IxPageOK, IsIx
  <1>5. IxImage = x
    BY <1>2, <1>3, IxImages2
  <1> HIDE DEF x
  <1>6. x = Resized(flash[q], sz, job.cells)
    BY DEF x
  <1>7. IxImageIs(flash, o, i, q, sz, job.cells, x)
    <2> HIDE DEF sz
    <2> QED BY <1>1, <1>2, <1>4, <1>6, IxImages
  <1>8. /\ x \in PageType /\ x.lu = IxId(o) /\ x.id = IxId(o) /\ x.span = i /\ x.size = sz
        /\ x.cells = job.cells /\ Legible(x) /\ IxPageOK(x, FALSE)
        /\ {"final", "used"} \subseteq x.flags
    BY <1>7 DEF IxImageIs
  <1>9. q # p /\ h # p /\ IxId(o) \in Ids /\ IsIx(flash, o, 0, h)
    BY <1>2, IdsDistinct, Blanks DEF IsIx, Whole
  <1>10. Leads(flash, Move(q, p, x), gl, p, IxId(o))
    BY <1>1, <1>2, <1>8, <1>9, LeadsMove
  <1>11. MoveReady(flash, gl, job, Idle, o, i, q, p, x)
    <2>1. IxMove(flash, gl, o, i, q, p, x)
      BY <1>2, <1>8, <1>9 DEF IxMove
    <2>2. IxImageOK(gl, Idle, o, i, p, x)
      BY <1>8 DEF IxImageOK, IxPageOK
    <2> QED BY <1>1, <2>1, <2>2 DEF MoveReady
  <1> HIDE DEF gl
  <1>12. MoveDone(flash, gl, Idle, o, i, q, p, x)
    BY <1>1, <1>2, <1>11, MovedIx
  <1>13. FileOK(gl, Plain(gl), o, n, top)
    <2>1. FileOK(flash, refs, o, n, top)
      <3>1. TopOf(job, o, n) = top
        BY DEF TopOf
      <3> QED BY <3>1 DEF Whole
    <2>2. \A r \in Pages : flash[r].lu = IxId(o) /\ r # q => refs[r] = flash[r].cells
      BY DEF View
    <2>3. x.cells = refs[q]
      BY <1>2, <1>8 DEF View
    <2>4. top \in Nat
      BY <1>1, TopType
    <2> QED BY <1>2, <1>11, <2>1, <2>2, <2>3, <2>4, StoredFile
  <1>14. /\ h1 \in Pages /\ IsIx(gl, o, 0, h1) /\ SizeIn(gl[h1]) = SizeIn(flash[h])
    <2>1. /\ IsIx(gl, o, i, p) /\ gl[p] = x
          /\ \A r \in Pages : r # q /\ r # p => gl[r] = flash[r]
      BY <1>12 DEF MoveDone, MovedTo
    <2>2. CASE i = 0
      <3>1. q = h
        BY <1>1, <1>2, <1>9, <2>2, OneIx
      <3> QED BY <1>8, <2>1, <2>2, <3>1 DEF SizeIn
    <2>3. CASE i # 0
      <3>1. h # q
        BY <1>2, <1>9, <2>3 DEF IsIx
      <3>2. gl[h] = flash[h]
        BY <1>9, <2>1, <3>1
      <3> QED BY <1>9, <2>3, <3>2 DEF IsIx
    <2> QED BY <2>2, <2>3
  <1> HIDE DEF h1
  <1>15. StoredAs(gl, o, n, h1)
    BY <1>12, <1>13, <1>14 DEF StoredAs, MoveDone
  <1> QED BY <1>5, <1>10, <1>14, <1>15

\* The index page after that of the last unit.
LEMMA IxLater ==
  ASSUME NEW n \in Nat, IxSpan(n \div U) # IxSpan(PageSpan(n))
  PROVE  IxSpan(n \div U) \in Nat /\ IxSpan(PageSpan(n)) \in Nat
         /\ IxSpan(n \div U) > IxSpan(PageSpan(n))
  <1> DEFINE s == n \div U
             a == IxSpan(s)
             b == IxSpan(PageSpan(n))
  <1>1. a \in Nat /\ b \in Nat
    BY IxSpansOf
  <1>2. s \in Nat /\ (PageSpan(n) = s - 1 \/ PageSpan(n) = s)
    <2>1. n % U = 0 \/ n % U # 0
      OBVIOUS
    <2> QED BY <2>1, NextUnit
  <1>3. PageSpan(n) \in Int /\ PageSpan(n) >= -1
    BY SpanType
  <1>4. b <= a
    <2> HIDE DEF s
    <2>1. PageSpan(n) <= s /\ s \in Int
      BY <1>2, <1>3
    <2> QED BY <1>3, <2>1, IxSpanMonotone
  <1>5. a # b
    OBVIOUS
  <1> HIDE DEF a, b
  <1>6. a > b
    BY <1>1, <1>4, <1>5
  <1> QED BY <1>1, <1>6 DEF a, b

\* The file is whole once the index page was stored, and no index page is loaded.
LEMMA StoredThere ==
  ASSUME NEW gl, NEW k, NEW w, NEW o \in Objs, NEW n \in 0 .. MaxSize, NEW h1,
         StoredAs(gl, o, n, h1), ~Loaded(k), n = UnitsOf(gl, k, h1, o),
         HoldsText(gl, k, w, o, n), k.op # "erase"
  PROVE  ThereOK(gl, k, w, o) /\ PagesOK(gl, k)
  <1>1. /\ h1 \in Pages /\ IsIx(gl, o, 0, h1) /\ PagesOK(gl, Idle)
        /\ FileOK(gl, Plain(gl), o, n, IxSpan(PageSpan(n)))
    BY DEF StoredAs
  <1>2. PagesOK(gl, k)
    <2>1. Idle.op # "erase" /\ \A a, b : ~Marked(Idle, a, b)
      BY IdleShape DEF Marked
    <2> QED BY <1>1, <2>1, PagesSame
  <1>3. View(gl, k) = Plain(gl) /\ TopOf(k, o, n) = IxSpan(PageSpan(n))
    BY PlainView, PlainTop DEF Plain
  <1>4. Whole(gl, k, w, o, h1, n)
    BY <1>1, <1>3 DEF Whole
  <1> QED BY <1>1, <1>2, <1>4, ThereWhole

LEMMA ModifyStoreSound ==
  ASSUME FlashSound, ModifyStore
  PROVE  FlashSound'
  <1> DEFINE o == job.o
             k == job'
  <1>1. /\ todo = <<>> /\ job.op = "modify" /\ job.ix # NoIx
        /\ job.pos = job.end \/ job.ix # IxSpan(job.pos \div U)
        /\ UNCHANGED <<flash, want, calls>>
    BY DEF ModifyStore, Running, Keep
  <1>2. PICK p \in Pages :
          /\ Take(p) /\ todo' = Move(job.ixp, p, IxImage)
          /\ k = IF job.pos = job.end THEN Returning(job.new) ELSE [job EXCEPT !.ix = NoIx]
    BY DEF ModifyStore
  <1>3. Deciding /\ job.op \in Writers
    BY <1>1, DecidingFrom DEF Writers
  <1>4. job \in CallShape /\ o \in Objs /\ JobShape(job)
    BY <1>3, CallFile DEF Deciding
  <1>5. PICK h \in Pages, n \in 0 .. MaxSize :
          /\ Whole(flash, job, want, o, h, n) /\ n = SizeIn(flash[h]) /\ n = Len(job.new)
    BY <1>1, <1>3, CallFile
  <1>6. /\ (\A x \in Objs : x # o => ~About(job, x)) /\ ~Resizing(job, o)
        /\ Loaded(job) /\ job.op # "erase" /\ Unmarked(job)
    BY <1>1, <1>3, <1>4, CallIs DEF Unmarked
  <1>7. flash[p] = BlankPage /\ cursor' \in 0 .. (B * N) /\ flash[p].lu = Blank
    BY <1>2, <1>3, <1>6, Taken
  <1>8. PICK gl, h1 : /\ Leads(flash, todo', gl, p, IxId(o))
                      /\ StoredAs(gl, o, n, h1) /\ SizeIn(gl[h1]) = n
    <2>1. \E gl, h1 : /\ Leads(flash, Move(job.ixp, p, IxImage), gl, p, IxId(o))
                      /\ StoredAs(gl, o, n, h1) /\ SizeIn(gl[h1]) = SizeIn(flash[h])
      BY <1>3, <1>4, <1>5, <1>6, <1>7, StoreLoaded
    <2> QED BY <1>2, <1>5, <2>1
  <1>9. /\ job.begin <= job.pos /\ job.pos <= job.end /\ job.end <= n
        /\ job.new \in Seq(Values) /\ AtIx(job)
    BY <1>1, <1>3, <1>5 DEF Deciding, ModifyOK
  <1>10. TextOK(flash, o, n, job.new, job.pos, job.end)
    BY <1>1, <1>5, TextForms DEF Whole
  <1>11. DataSame(flash, gl, o) /\ OnlyPagesOf(flash, gl, o) /\ NoTwins(gl)
    BY <1>8 DEF StoredAs
  <1>12. TextOK(gl, o, n, job.new, job.pos, job.end)
    BY <1>4, <1>10, <1>11, TextSame
  <1>13. job.pos \in Nat /\ job.end \in Nat /\ job.begin \in Nat /\ job.new \in Contents
    BY <1>4, CallParts
  <1>14. /\ JobShape(k) /\ Filling(k, calls) /\ CallOK(gl, k) /\ ~Loaded(k) /\ k.op # "erase"
         /\ (\A x \in Objs : x # o => ~About(k, x))
         /\ n = UnitsOf(gl, k, h1, o) /\ HoldsText(gl, k, want, o, n)
    <2>1. CASE job.pos = job.end
      <3>1. k = [op |-> "return", o |-> o, new |-> job.new]
        BY <1>2, <2>1 DEF Returning
      <3> HIDE DEF k
      <3>2. k \in ReturnShape /\ k.op = "return" /\ k.o = o /\ k.new = job.new
        BY <1>4, <1>13, <3>1, CallReturned
      <3>3. /\ JobShape(k) /\ Filling(k, calls) /\ CallOK(gl, k) /\ ~Resizing(k, o)
            /\ ~Loaded(k) /\ (\A x \in Objs : x # o => ~About(k, x))
        BY <3>2, ReturnIs
      <3>4. TextOK(gl, o, n, job.new, n, n)
        <4>1. \A c : ~(job.pos <= c /\ c < job.end) \/ ~(c \in Int)
          BY <1>13, <2>1
        <4>2. \A q \in Pages : gl[q].lu = DataId(o) =>
                 \A c \in 0 .. (U - 1) : gl[q].span * U + c \in Int
          <5>1. PagesOK(gl, Idle)
            BY <1>8 DEF StoredAs
          <5> QED BY <1>4, <5>1, DataPage, Lengths
        <4> QED BY <1>12, <4>1, <4>2 DEF TextOK
      <3>5. HoldsText(gl, k, want, o, n)
        BY <1>5, <1>9, <3>2, <3>4, TextForms
      <3>6. n = UnitsOf(gl, k, h1, o)
        BY <1>8, <3>3 DEF UnitsOf
      <3> QED BY <3>2, <3>3, <3>5, <3>6
    <2>2. CASE job.pos # job.end
      <3>1. k = [job EXCEPT !.ix = NoIx]
        BY <1>2, <2>2
      <3> HIDE DEF k
      <3>2. /\ k \in CallShape /\ k.op = job.op /\ k.o = o /\ k.hdr = job.hdr
            /\ k.begin = job.begin /\ k.pos = job.pos /\ k.end = job.end /\ k.ix = NoIx
            /\ k.new = job.new
        BY <1>4, <3>1 DEF CallShape
      <3>3. JobShape(k) /\ k.op \in Writers /\ k.op = "modify"
        BY <1>1, <1>3, <3>2 DEF JobShape
      <3>4. /\ ~Resizing(k, o) /\ (\A x \in Objs : x # o => ~About(k, x)) /\ ~Loaded(k)
            /\ k.op # "erase"
        BY <3>2, <3>3, CallIs
      <3>5. Filling(k, calls)
        BY <1>3, <3>2 DEF Filling, Deciding
      <3>6. job.pos < job.end
        BY <1>9, <1>13, <2>2
      <3>7. IxSpan(job.pos \div U) # 0
        <4>1. job.ix = IxSpan(PageSpan(job.pos)) /\ job.ix # IxSpan(job.pos \div U)
          BY <1>1, <1>9, <2>2, ZenonT(60) DEF AtIx
        <4>2. /\ IxSpan(job.pos \div U) \in Nat /\ IxSpan(PageSpan(job.pos)) \in Nat
              /\ IxSpan(job.pos \div U) > IxSpan(PageSpan(job.pos))
          BY <1>13, <4>1, IxLater
        <4> DEFINE a == IxSpan(job.pos \div U)
                   b == IxSpan(PageSpan(job.pos))
        <4>3. a \in Nat /\ b \in Nat /\ a > b
          BY <4>2
        <4> HIDE DEF a, b
        <4>4. a # 0
          BY <4>3
        <4> QED BY <4>4 DEF a
      <3>8. ModifyOK(gl, k)
        BY <1>5, <1>9, <3>2, <3>6, <3>7, ZenonT(60) DEF ModifyOK
      <3>9. AppendOK(gl, k) /\ TruncateOK(gl, k) /\ EraseOK(gl, k) /\ LoadedOK(gl, k)
        BY <3>3, <3>4 DEF AppendOK, TruncateOK, EraseOK, LoadedOK
      <3>10. CallOK(gl, k)
        BY <3>8, <3>9 DEF CallOK
      <3>11. HoldsText(gl, k, want, o, n)
        BY <1>5, <1>12, <3>2, <3>3, TextForms
      <3>12. n = UnitsOf(gl, k, h1, o)
        BY <1>8, <3>4 DEF UnitsOf
      <3> QED BY <3>3, <3>4, <3>5, <3>10, <3>11, <3>12
    <2> QED BY <2>1, <2>2
  <1> HIDE DEF k
  <1>15. ThereOK(gl, k, want, o) /\ PagesOK(gl, k)
    BY <1>4, <1>8, <1>14, StoredThere
  <1>16. IxId(o) # Garbled
    BY <1>4, IdsDistinct
  <1> HIDE DEF o
  <1> QED BY <1>1, <1>3, <1>4, <1>6, <1>7, <1>8, <1>11, <1>14, <1>15, <1>16, Stepped DEF k

LEMMA GcStoreSound ==
  ASSUME FlashSound, GcStore
  PROVE  FlashSound'
  <1> DEFINE o == job.o
             k == job'
  <1>1. /\ todo = <<>> /\ job.op = "gc move" /\ UNCHANGED <<flash, want, calls>>
        /\ k = [op |-> "gc", block |-> job.block, o |-> o]
    BY DEF GcStore, Running, Keep
  <1>2. PICK p \in Pages : Take(p) /\ todo' = Move(job.ixp, p, IxImage)
    BY DEF GcStore
  <1>3. Deciding /\ JobShape(job)
    BY <1>1, DecidingFrom DEF Deciding
  <1>4. job \in MoveShape /\ o \in Objs /\ job.ix \in Nat /\ job.block \in 0 .. (B - 1)
        /\ job.ixp \in Pages
    BY <1>1, <1>3, JobKinds, MoveParts
  <1>5. Loaded(job) /\ ~Resizing(job, o) /\ job.op # "erase" /\ Unmarked(job)
        /\ (\A x \in Objs : x # o => ~About(job, x)) /\ ~Calling(job, o) /\ ~Returned(job, o)
    <2>1. job.ix # NoIx /\ job.op \in Writers \cup {"gc move"} /\ job.op \notin Writers
      <3>1. job.op = "gc move" /\ job.ix \in Nat
        BY <1>1, <1>4
      <3>2. \A x \in Nat : x # NoIx
        BY DEF NoIx
      <3> QED BY <3>1, <3>2 DEF Writers
    <2> QED BY <1>1, <2>1, ZenonT(60) DEF Loaded, Resizing, Resizers, Unmarked, Marked, About,
       Calling, Returned, Writers
  <1>6. IsIx(flash, o, job.ix, job.ixp)
    BY <1>3, <1>5 DEF Deciding, LoadedOK
  <1>7. PICK h \in Pages, n \in 0 .. MaxSize : Whole(flash, job, want, o, h, n)
    <2>1. \E q \in Pages : flash[q].lu \in ObjIds(o)
      BY <1>4, <1>6 DEF IsIx, ObjIds
    <2> QED BY <1>3, <1>4, <2>1, FileThere DEF Deciding
  <1>8. flash[p] = BlankPage /\ cursor' \in 0 .. (B * N) /\ flash[p].lu = Blank
    BY <1>2, <1>3, <1>5, Taken
  <1>9. PICK gl, h1 : /\ Leads(flash, todo', gl, p, IxId(o))
                      /\ StoredAs(gl, o, n, h1) /\ SizeIn(gl[h1]) = SizeIn(flash[h])
    BY <1>2, <1>3, <1>4, <1>5, <1>7, <1>8, StoreLoaded
  <1>10. n = SizeIn(flash[h]) /\ HoldsText(flash, job, want, o, n)
    BY <1>5, <1>7 DEF Whole, UnitsOf
  <1>11. DataSame(flash, gl, o) /\ OnlyPagesOf(flash, gl, o) /\ NoTwins(gl)
    BY <1>9 DEF StoredAs
  <1> HIDE DEF k
  <1>12. k.op = "gc" /\ k.block = job.block /\ JobShape(k)
    <2>1. k \in GcShape /\ k.op = "gc"
      BY <1>1, <1>4 DEF GcShape
    <2> QED BY <1>1, <2>1 DEF JobShape
  <1>13. /\ CallOK(gl, k) /\ Filling(k, calls) /\ ~Loaded(k) /\ \A x : ~About(k, x)
    BY <1>12, NoCall
  <1>14. ~Calling(k, o) /\ ~Returned(k, o) /\ ~Resizing(k, o)
    BY <1>13, AboutNot
  <1>15. HoldsText(gl, k, want, o, n)
    <2>1. PICK text \in want[o] : /\ want[o] = {text} /\ text \in Seq(Values) /\ Len(text) = n
                                  /\ TextOK(flash, o, n, text, n, n)
      BY <1>5, <1>10, TextForms
    <2>2. TextOK(gl, o, n, text, n, n)
      BY <1>4, <1>11, <2>1, TextSame
    <2> QED BY <1>14, <2>1, <2>2, TextForms
  <1>16. n = UnitsOf(gl, k, h1, o)
    BY <1>9, <1>10, <1>14 DEF UnitsOf
  <1>17. ThereOK(gl, k, want, o) /\ PagesOK(gl, k) /\ k.op # "erase"
    BY <1>4, <1>9, <1>12, <1>13, <1>15, <1>16, StoredThere
  <1>18. IxId(o) # Garbled
    BY <1>4, IdsDistinct
  <1> HIDE DEF o
  <1> QED BY <1>1, <1>3, <1>4, <1>5, <1>8, <1>9, <1>11, <1>12, <1>13, <1>17, <1>18, Stepped DEF k

LEMMA BlockIn ==
  ASSUME NEW b \in 0 .. (B - 1)
  PROVE  BlockPages(b) \subseteq Pages
  <1> DEFINE f == b * N
  <1>1. b + 1 <= B /\ b \in Nat
    BY Lengths
  <1>2. f \in Nat /\ f + N <= B * N
    <2> HIDE DEF f
    <2>1. (b + 1) * N <= B * N
      <3>1. b + 1 = B \/ b + 1 < B
        BY <1>1, Lengths
      <3>2. b + 1 \in Int /\ B \in Int
        BY <1>1, Lengths
      <3>3. b + 1 < B => (b + 1) * N < B * N
        BY <3>2, MultipleSign, Lengths
      <3>4. (b + 1) * N \in Int /\ B * N \in Int
        BY <3>2, Lengths
      <3> QED BY <3>1, <3>3, <3>4
    <2>2. (b + 1) * N = f + N /\ f \in Nat
      BY <1>1, Lengths DEF f
    <2> QED BY <2>1, <2>2
  <1> HIDE DEF f
  <1> QED BY <1>2, Lengths DEF BlockPages, Pages, f

LEMMA LeastPage ==
  ASSUME NEW S \in SUBSET Pages, S # {}
  PROVE  Min(S) \in S
  <1>1. S \in SUBSET Nat
    BY Lengths DEF Pages
  <1>2. PICK x \in S : \A y \in S : <<y, x>> \notin OpToRel(<, Nat)
    BY <1>1, NatLessThanWellFounded, WFMin
  <1>3. \A y \in S : ~ (y < x)
    BY <1>1, <1>2 DEF OpToRel
  <1>4. \E z \in S : \A y \in S : z <= y
    BY <1>1, <1>3
  <1> QED BY <1>4 DEF Min

-----------------------------------------------------------------------------
(* A page of data moves *)

\* Page p takes the place of page d, with what is new in it: nothing after unit n.
DataMove(gl, o, n, s, d, p, new) ==
    /\ d \in Pages /\ p \in Pages /\ IsData(flash, o, s, d) /\ flash[p] = BlankPage
    /\ gl = Put(Put(flash, p, new), d, Dead(flash[d]))
    /\ new \in PageType /\ new.lu = DataId(o) /\ new.span = s /\ Legible(new)
    /\ DataPageOK(new)
    /\ \A c \in 0 .. (U - 1) : s * U + c >= n => new.cells[c] = Blank
DataMoved(gl, o, n, s, d, p, new) ==
    /\ gl \in Flashes /\ gl[p] = new /\ IsData(gl, o, s, p)
    /\ \A q \in Pages : q # p /\ q # d => gl[q] = flash[q]
    /\ NoTwins(gl) /\ OnlyPagesOf(flash, gl, o) /\ DataSameBut(flash, gl, o, s)
    /\ \A q \in Pages : flash[q].lu = IxId(o) \/ gl[q].lu = IxId(o) => gl[q] = flash[q]
    /\ \A q \in Pages : gl[q].lu = DataId(o) /\ q # p => gl[q] = flash[q] /\ flash[q].span # s
    /\ DataHeld(gl, o, s, n) /\ RefOK(gl, o, n, s, p)
LEMMA MovedData ==
  ASSUME Deciding, Unmarked(job), NEW o \in Objs, NEW n \in Nat, NEW s, NEW d, NEW p, NEW new,
         NEW gl, DataMove(gl, o, n, s, d, p, new),
         NEW refs, NEW top, FileOK(flash, refs, o, n, top)
  PROVE  /\ DataMoved(gl, o, n, s, d, p, new) /\ s \in Spans /\ s <= PageSpan(n)
         /\ \A k : k.op # "erase" => PagesOK(gl, k)
  <1>1. /\ d \in Pages /\ p \in Pages /\ IsData(flash, o, s, d) /\ flash[p] = BlankPage
        /\ gl = Put(Put(flash, p, new), d, Dead(flash[d]))
        /\ new \in PageType /\ new.lu = DataId(o) /\ new.span = s /\ Legible(new)
        /\ DataPageOK(new)
        /\ \A c \in 0 .. (U - 1) : s * U + c >= n => new.cells[c] = Blank
    BY DEF DataMove
  <1>2. flash \in Flashes /\ PagesOK(flash, job) /\ NoTwins(flash)
    BY DEF Deciding
  <1>3. /\ DataId(o) # IxId(o) /\ DataId(o) # Blank /\ IxId(o) # Blank /\ DataId(o) \in Ids
        /\ DataId(o) # Deleted /\ IxId(o) # Deleted
    BY IdsDistinct
  <1>4. d # p
    BY <1>1, <1>3, Blanks DEF IsData
  <1>5. /\ gl \in Flashes /\ gl[p] = new /\ gl[d] = Dead(flash[d])
        /\ \A q \in Pages : q # d /\ q # p => gl[q] = flash[q]
    BY <1>1, <1>2, <1>4, Moved
  <1>6. gl[d].lu = Deleted /\ flash[p].lu = Blank
    <2>1. flash[d] \in PageType
      BY <1>1, <1>2 DEF Flashes
    <2> QED BY <1>1, <1>5, <2>1, DeadParts, Blanks
  <1>7. MovedTo(flash, gl, d, p)
    BY <1>1, <1>4, <1>5 DEF MovedTo
  <1>8. s \in Spans /\ s \in Nat
    BY <1>1, <1>2, DataPage, SpansAre DEF IsData
  <1>9. s <= PageSpan(n)
    BY <1>1 DEF FileOK, DataEnds, IsData
  <1>10. NoTwins(gl)
    BY <1>1, <1>2, <1>5, <1>7, MovedTwins DEF IsData
  <1>11. ASSUME NEW k, k.op # "erase" PROVE PagesOK(gl, k)
    <2>1. PageOK(gl, k, p)
      BY <1>1, <1>5, DataOKPage
    <2> QED BY <1>2, <1>7, <2>1, MovedPages
  <1>12. OnlyPagesOf(flash, gl, o)
    <2>1. {flash[d].lu, gl[d].lu, flash[p].lu, gl[p].lu} \subseteq ObjIds(o) \cup {Blank, Deleted}
      BY <1>1, <1>5, <1>6 DEF ObjIds, IsData
    <2> QED BY <1>5, <2>1 DEF OnlyPagesOf
  <1>13. \A q \in Pages : flash[q].lu = IxId(o) \/ gl[q].lu = IxId(o) => gl[q] = flash[q]
    <2>1. flash[d].lu # IxId(o) /\ gl[d].lu # IxId(o) /\ flash[p].lu # IxId(o) /\ gl[p].lu # IxId(o)
      BY <1>1, <1>3, <1>5, <1>6 DEF IsData
    <2> QED BY <1>5, <2>1
  <1>14. \A q \in Pages : gl[q].lu = DataId(o) /\ q # p => gl[q] = flash[q] /\ flash[q].span # s
    <2>1. SUFFICES ASSUME NEW q \in Pages, gl[q].lu = DataId(o), q # p
                   PROVE  gl[q] = flash[q] /\ flash[q].span # s
      OBVIOUS
    <2>2. q # d
      BY <1>3, <1>6, <2>1
    <2>3. gl[q] = flash[q]
      BY <1>5, <2>1, <2>2
    <2>4. ~IsData(flash, o, s, q)
      BY <1>1, <1>2, <2>2, OneData
    <2> QED BY <2>1, <2>3, <2>4 DEF IsData
  <1>15. DataSameBut(flash, gl, o, s)
    <2>1. SUFFICES ASSUME NEW q \in Pages,
                          (flash[q].lu = DataId(o) /\ flash[q].span # s)
                            \/ (gl[q].lu = DataId(o) /\ gl[q].span # s)
                   PROVE  gl[q] = flash[q]
      BY DEF DataSameBut
    <2>2. q # d
      BY <1>1, <1>3, <1>6, <2>1 DEF IsData
    <2>3. q # p
      BY <1>1, <1>3, <1>5, <1>6, <2>1
    <2> QED BY <1>5, <2>2, <2>3
  <1>16. IsData(gl, o, s, p)
    BY <1>1, <1>5 DEF IsData
  <1>17. DataHeld(gl, o, s, n)
    <2>1. \A q \in Pages : IsData(gl, o, s, q) => q = p
      BY <1>14 DEF IsData
    <2> QED BY <1>1, <1>5, <1>9, <2>1 DEF DataHeld
  <1>18. RefOK(gl, o, n, s, p)
    BY <1>1, <1>9, <1>16 DEF RefOK
  <1>19. DataMoved(gl, o, n, s, d, p, new)
    BY <1>5, <1>10, <1>12, <1>13, <1>14, <1>15, <1>16, <1>17, <1>18, ZenonT(60) DEF DataMoved
  <1> QED BY <1>8, <1>9, <1>11, <1>19

\* The file once the page that is loaded refers to p.
Notes(j, k, s, p) ==
    /\ Loaded(j) /\ j.ix = IxSpan(s) /\ Loaded(k) /\ k.ixp = j.ixp
    /\ k.cells = [j.cells EXCEPT ![IxEntry(s)] = p]
LEMMA MovedDataFile ==
  ASSUME Deciding, NEW o \in Objs, NEW n \in Nat, NEW s \in Spans, NEW d, NEW p, NEW new, NEW gl,
         DataMoved(gl, o, n, s, d, p, new), NEW top,
         job.o = o, NEW k, Notes(job, k, s, p),
         FileOK(flash, View(flash, job), o, n, top)
  PROVE  FileOK(gl, View(gl, k), o, n, top)
  <1>1. /\ DataHeld(gl, o, s, n) /\ RefOK(gl, o, n, s, p) /\ DataSameBut(flash, gl, o, s)
        /\ \A q \in Pages : flash[q].lu = IxId(o) \/ gl[q].lu = IxId(o) => gl[q] = flash[q]
    BY DEF DataMoved
  <1>2. UnitsMove(n, n, s)
    BY DEF UnitsMove
  <1>3. PagesOK(flash, job) /\ NoTwins(flash) /\ JobShape(job) /\ LoadedOK(flash, job)
    BY DEF Deciding
  <1>4. NoteReady(flash, gl, job, k, o, s, p)
    BY <1>1, <1>3, ZenonT(60) DEF NoteReady, Notes
  <1> QED BY <1>1, <1>2, <1>4, NotedFile

LEMMA GcMoveDataSound ==
  ASSUME FlashSound, GcMoveData
  PROVE  FlashSound'
  <1> DEFINE o == job.o
             k == job'
             d == Min(GcMovable)
             s == flash[d].span
             e == IxEntry(s)
  <1>1. /\ todo = <<>> /\ job.op = "gc move" /\ UNCHANGED <<flash, want, calls>>
        /\ GcMovable # {}
    BY DEF GcMoveData, Running, Keep
  <1>2. Deciding
    BY <1>1, DecidingFrom
  <1>3. /\ JobShape(job) /\ flash \in Flashes /\ PagesOK(flash, job) /\ NoTwins(flash)
        /\ LoadedOK(flash, job) /\ FilesOK(flash, job, want)
    BY <1>2 DEF Deciding
  <1>4. job \in MoveShape /\ o \in Objs /\ job.ix \in Nat /\ job.cells \in [Cells -> Values]
        /\ job.ixp \in Pages
    BY <1>1, <1>3, JobKinds, MoveParts
  <1>5. Loaded(job) /\ ~Resizing(job, o) /\ job.op # "erase" /\ Unmarked(job)
        /\ (\A x \in Objs : x # o => ~About(job, x)) /\ ~Calling(job, o) /\ ~Returned(job, o)
    <2>1. job.ix # NoIx /\ job.op \in Writers \cup {"gc move"} /\ job.op \notin Writers
      <3>1. \A x \in Nat : x # NoIx
        BY DEF NoIx
      <3> QED BY <1>1, <1>4, <3>1 DEF Writers
    <2> QED BY <1>1, <2>1, ZenonT(60) DEF Loaded, Resizing, Resizers, Unmarked, Marked, About,
       Calling, Returned, Writers
  <1>6. d \in Pages /\ flash[d].lu = DataId(o) /\ s \in Nat /\ IxSpan(s) = job.ix
    <2>1. GcMovable \in SUBSET Pages
      <3>1. GcMovable \subseteq BlockPages(job.block)
        BY DEF GcMovable, DataIn, UsedIn
      <3>2. job.block \in 0 .. (B - 1)
        BY <1>4, MoveParts
      <3> QED BY <3>1, <3>2, BlockIn
    <2>2. d \in GcMovable
      BY <1>1, <2>1, LeastPage
    <2> QED BY <2>1, <2>2 DEF GcMovable
  <1> HIDE DEF d
  <1>7. "dele" \notin flash[d].flags /\ DataPageOK(flash[d]) /\ Legible(flash[d])
    BY <1>3, <1>4, <1>6, DataPage DEF DataPageOK
  <1>8. PICK p \in Pages : /\ Take(p) /\ todo' = MoveRaw(d, p, flash[d].lu)
                           /\ k = [job EXCEPT !.cells[e] = p]
    BY <1>7, ZenonT(60) DEF GcMoveData, d
  <1>9. flash[p] = BlankPage /\ cursor' \in 0 .. (B * N) /\ flash[p].lu = Blank
    BY <1>2, <1>5, <1>8, Taken
  <1>10. PICK h \in Pages, n \in 0 .. MaxSize : Whole(flash, job, want, o, h, n)
    <2>1. \E q \in Pages : flash[q].lu \in ObjIds(o)
      BY <1>6 DEF ObjIds
    <2> QED BY <1>3, <1>4, <2>1, FileThere
  <1>11. /\ IsIx(flash, o, 0, h) /\ n = SizeIn(flash[h]) /\ n \in Nat
         /\ FileOK(flash, View(flash, job), o, n, IxSpan(PageSpan(n)))
         /\ HoldsText(flash, job, want, o, n)
    BY <1>5, <1>10, Lengths DEF Whole, UnitsOf, TopOf
  <1> DEFINE new == flash[d]
             gl == Put(Put(flash, p, new), d, Dead(flash[d]))
             top == IxSpan(PageSpan(n))
  <1>12. new \in PageType /\ new.lu = DataId(o) /\ DataId(o) \in Ids /\ d # p
    BY <1>3, <1>4, <1>6, <1>9, IdsDistinct DEF Flashes
  <1>13. Leads(flash, todo', gl, p, DataId(o))
    <2>1. Leads(flash, MoveRaw(d, p, flash[d].lu), gl, p, flash[d].lu)
      BY <1>3, <1>6, <1>9, <1>12, LeadsMoveRaw
    <2> QED BY <1>6, <1>8, <2>1
  <1>14. DataMove(gl, o, n, s, d, p, new)
    <2>1. IsData(flash, o, s, d)
      BY <1>6 DEF IsData
    <2>2. \A c \in 0 .. (U - 1) : s * U + c >= n => new.cells[c] = Blank
      BY <1>6, <1>11 DEF FileOK, DataEnds
    <2> QED BY <1>6, <1>7, <1>9, <1>12, <2>1, <2>2 DEF DataMove
  <1> HIDE DEF new, gl, s
  <1>15. /\ DataMoved(gl, o, n, s, d, p, new) /\ s \in Spans
         /\ \A x : x.op # "erase" => PagesOK(gl, x)
    BY <1>2, <1>4, <1>5, <1>11, <1>14, MovedData
  <1> DEFINE cells == [job.cells EXCEPT ![e] = p]
  <1>16. p \in Values /\ p # Garbled /\ e \in Cells
    BY <1>15, SpansAre, Lengths, ValuesAssumption DEF Values, Pages
  <1>17. cells \in [Cells -> Values]
    BY <1>4, <1>16
  <1>18. k = [job EXCEPT !.cells = cells]
    BY <1>4, <1>8 DEF MoveShape
  <1>19. Clean(cells)
    <2>1. Clean(job.cells)
      BY <1>3, <1>5 DEF LoadedOK
    <2> QED BY <1>4, <1>16, <2>1 DEF Clean
  <1>20. cells = [job.cells EXCEPT ![IxEntry(s)] = p]
    OBVIOUS
  <1> HIDE DEF k, cells, e
  <1>21. /\ k \in MoveShape /\ k.op = "gc move" /\ k.o = o /\ k.ix = job.ix /\ k.ixp = job.ixp
         /\ k.cells = cells
    BY <1>1, <1>4, <1>17, <1>18 DEF MoveShape
  <1>22. JobShape(k)
    BY <1>21 DEF JobShape
  <1>23. Loaded(k) /\ ~Resizing(k, o) /\ k.op # "erase" /\ ~Calling(k, o) /\ ~Returned(k, o)
         /\ (\A x \in Objs : x # o => ~About(k, x)) /\ Filling(k, calls)
    <2>1. k.ix # NoIx /\ k.op \in Writers \cup {"gc move"} /\ k.op \notin Writers
      BY <1>5, <1>21 DEF Loaded, Writers
    <2> QED BY <1>21, <2>1, ZenonT(60) DEF Loaded, Resizing, Resizers, About,
       Calling, Returned, Writers, Filling
  <1>24. /\ IsData(gl, o, s, p) /\ NoTwins(gl) /\ OnlyPagesOf(flash, gl, o) /\ gl[p] = new
         /\ \A q \in Pages : flash[q].lu = IxId(o) \/ gl[q].lu = IxId(o) => gl[q] = flash[q]
         /\ \A q \in Pages : gl[q].lu = DataId(o) /\ q # p => gl[q] = flash[q] /\ flash[q].span # s
    BY <1>15 DEF DataMoved
  <1>25. CallOK(gl, k)
    <2>1. IsIx(flash, o, job.ix, job.ixp)
      BY <1>3, <1>5 DEF LoadedOK
    <2>2. LoadedOK(gl, k)
      BY <1>4, <1>19, <1>21, <1>24, <2>1 DEF LoadedOK, IsIx
    <2> QED BY <1>21, <2>2 DEF CallOK, AppendOK, ModifyOK, TruncateOK, EraseOK
  <1>26. FileOK(gl, View(gl, k), o, n, top)
    <2>1. IxSpan(s) = job.ix
      BY <1>6 DEF s
    <2>2. Notes(job, k, s, p)
      BY <1>5, <1>20, <1>21, <1>23, <2>1, ZenonT(60) DEF Notes
    <2> QED BY <1>2, <1>4, <1>11, <1>15, <2>2, MovedDataFile
  <1>27. HoldsText(gl, k, want, o, n)
    <2>1. PICK text \in want[o] : /\ want[o] = {text} /\ text \in Seq(Values) /\ Len(text) = n
                                  /\ TextOK(flash, o, n, text, n, n)
      BY <1>5, <1>11, TextForms
    <2>2. TextOK(gl, o, n, text, n, n)
      <3>1. \A q \in Pages : gl[q].lu = DataId(o) =>
              \E r \in Pages : flash[r].lu = DataId(o) /\ flash[r] = gl[q]
        BY <1>6, <1>24 DEF new
      <3> QED BY <2>1, <3>1 DEF TextOK
    <2> QED BY <1>23, <2>1, <2>2, TextForms
  <1>28. IsIx(gl, o, 0, h) /\ gl[h] = flash[h]
    BY <1>11, <1>24 DEF IsIx
  <1>29. Whole(gl, k, want, o, h, n)
    BY <1>10, <1>11, <1>23, <1>26, <1>27, <1>28 DEF Whole, UnitsOf, TopOf
  <1>30. ThereOK(gl, k, want, o)
    BY <1>4, <1>10, <1>29, ThereWhole
  <1>31. DataId(o) # Garbled
    BY <1>12, IdsDistinct
  <1>32. PagesOK(gl, k)
    BY <1>15, <1>23
  <1> HIDE DEF o
  <1> QED BY <1>1, <1>2, <1>4, <1>5, <1>9, <1>13, <1>22, <1>23, <1>24, <1>25, <1>30, <1>31,
             <1>32, Stepped DEF k

-----------------------------------------------------------------------------
(* Modifying: the data *)

LEMMA LesserOf ==
  ASSUME NEW a \in Int, NEW b \in Int
  PROVE  Min({a, b}) \in {a, b} /\ Min({a, b}) <= a /\ Min({a, b}) <= b
  BY DEF Min

\* The part of a page, from off on, that a call writes next.
LEMMA Portion ==
  ASSUME NEW pos \in Nat, NEW end \in Nat, pos < end, NEW s, NEW off, NEW count,
         s = pos \div U, off = pos % U, count = Min({end - pos, U - off})
  PROVE  /\ s \in Nat /\ off \in 0 .. (U - 1) /\ pos = First(s) + off /\ s <= PageSpan(end)
         /\ count \in Nat /\ count >= 1 /\ count <= end - pos /\ count <= U - off
         /\ pos + count \in Nat
  <1>1. s \in Nat /\ off \in 0 .. (U - 1) /\ pos = First(s) + off
    BY UnitOf
  <1>2. s <= PageSpan(end)
    BY UnitWithin
  <1> DEFINE a == end - pos
             b == U - off
  <1>3. a \in Int /\ b \in Int /\ a >= 1 /\ b >= 1
    BY <1>1, Lengths
  <1>4. count = Min({a, b})
    OBVIOUS
  <1> HIDE DEF a, b
  <1>5. Min({a, b}) \in {a, b} /\ Min({a, b}) <= a /\ Min({a, b}) <= b
    BY <1>3, LesserOf
  <1>6. count \in Nat /\ count >= 1 /\ count <= a /\ count <= b
    BY <1>3, <1>4, <1>5
  <1>7. pos + count \in Nat
    BY <1>6
  <1> QED BY <1>1, <1>2, <1>6, <1>7 DEF a, b

\* What a call writes there, and where: units pos to m.
Portions(s, off, count, m) ==
    /\ job.begin \in Nat /\ job.pos \in Nat /\ job.end \in Nat /\ job.begin <= job.pos
    /\ s \in Nat /\ off \in 0 .. (U - 1) /\ job.pos = First(s) + off /\ job.pos < job.end
    /\ count \in Nat /\ count >= 1 /\ count <= job.end - job.pos /\ count <= U - off
    /\ m = job.pos + count /\ calls \in Nat
    /\ \A k \in (job.begin + 1) .. job.end : job.new[k] = calls
LEMMA UnitsWritten ==
  ASSUME NEW s, NEW off, NEW count, NEW m, Portions(s, off, count, m)
  PROVE  /\ UnitsAre(s, off, count, m) /\ AppendedCells(off, count) \in [Cells -> Values]
         /\ m \in Nat /\ job.pos < m /\ m <= job.end /\ First(s) < m /\ m <= First(s) + U
         /\ First(s) \in Nat /\ U \in Nat
  <1> DEFINE n == job.pos
             data == AppendedCells(off, count)
  <1>1. /\ job.begin \in Nat /\ n \in Nat /\ job.end \in Nat /\ job.begin <= n
        /\ s \in Nat /\ off \in 0 .. (U - 1) /\ n = First(s) + off /\ n < job.end
        /\ count \in Nat /\ count >= 1 /\ count <= job.end - n /\ count <= U - off
        /\ m = n + count /\ calls \in Nat
        /\ \A k \in (job.begin + 1) .. job.end : job.new[k] = calls
    BY DEF Portions
  <1>2. off \in Nat /\ U \in Nat /\ First(s) \in Nat /\ off < U
    BY <1>1, Lengths, FirstUnit
  <1>3. n < m /\ m <= job.end /\ First(s) < m /\ m <= First(s) + U /\ m \in Nat
    <2> HIDE DEF n
    <2> QED BY <1>1, <1>2
  <1>4. \A c \in Cells : data[c] = IF c \in off .. (off + count - 1) THEN calls ELSE Blank
    BY DEF AppendedCells
  <1>5. 0 .. (U - 1) \subseteq Cells
    BY CellsAre
  <1>6. data \in [Cells -> Values]
    <2>1. calls \in Values /\ Blank \in Values
      BY <1>1 DEF Values
    <2> QED BY <2>1 DEF AppendedCells
  <1> HIDE DEF data
  <1>7. \A c \in 0 .. (U - 1) :
              /\ s * U + c < m <=> c < off + count
              /\ s * U + c < n <=> c < off
              /\ c >= off /\ c < off + count => data[c] = calls /\ job.new[s * U + c + 1] = calls
    <2>1. SUFFICES ASSUME NEW c \in 0 .. (U - 1)
                   PROVE  /\ s * U + c < m <=> c < off + count
                          /\ s * U + c < n <=> c < off
                          /\ c >= off /\ c < off + count =>
                               data[c] = calls /\ job.new[s * U + c + 1] = calls
      OBVIOUS
    <2> DEFINE f == s * U
    <2>2. f \in Nat /\ n = f + off /\ m = f + off + count
      BY <1>1, <1>2 DEF First
    <2> HIDE DEF f, n
    <2>3. (f + c < m <=> c < off + count) /\ (f + c < n <=> c < off)
      BY <1>1, <1>2, <2>1, <2>2
    <2>4. ASSUME c >= off, c < off + count PROVE data[c] = calls /\ job.new[f + c + 1] = calls
      <3>1. c \in off .. (off + count - 1) /\ f + c + 1 \in (job.begin + 1) .. job.end
        BY <1>1, <1>2, <1>3, <2>1, <2>2, <2>4
      <3> QED BY <1>1, <1>4, <1>5, <2>1, <3>1
    <2> QED BY <2>3, <2>4 DEF f, n
  <1>8. \A c \in Cells : ~(c \in 0 .. (U - 1) /\ c >= off /\ c < off + count) => data[c] = Blank
    <2>1. \A c : c \in off .. (off + count - 1) => c \in 0 .. (U - 1) /\ c >= off /\ c < off + count
      BY <1>1, <1>2
    <2> QED BY <1>4, <2>1
  <1>9. UnitsAre(s, off, count, m)
    BY <1>7, <1>8, ZenonT(60) DEF UnitsAre, data
  <1> QED BY <1>2, <1>3, <1>6, <1>9 DEF data

LEMMA NewPageFinal ==
  ASSUME NEW id, NEW s, NEW cells
  PROVE  [NewPage(id, s, {}, cells) EXCEPT !.flags = @ \cup {"final"}]
           = NewPage(id, s, {"final"}, cells)
  <1> DEFINE f == {} \cup {"used"} \cup {"final"}
             g == {"final"} \cup {"used"}
  <1>1. f = g
    OBVIOUS
  <1> HIDE DEF f
  <1>2. [NewPage(id, s, {}, cells) EXCEPT !.flags = f] = NewPage(id, s, {"final"}, cells)
    BY <1>1 DEF NewPage
  <1>3. NewPage(id, s, {}, cells).flags \cup {"final"} = f
    BY DEF NewPage, f
  <1> QED BY <1>2, <1>3

\* The writes: the whole page afresh, or a copy of the page d that is written to.
LEMMA ModifyWrites ==
  ASSUME flash \in Flashes, NEW p \in Pages, NEW d \in Pages, p # d, flash[p] = BlankPage,
         NEW id \in Ids, NEW s \in Nat, NEW rest \in [Cells -> Values],
         NEW data \in [Cells -> Values], NEW y \in [Cells -> Values],
         NEW whole \in BOOLEAN,
         y = IF whole THEN data ELSE [c \in Cells |-> Meet(rest[c], data[c])]
  PROVE  Leads(flash, (IF whole THEN Allocate(p, id, s, {}, data, TRUE)
                       ELSE Allocate(p, id, s, {}, rest, FALSE)
                              \o CellsW(p, data) \o FlagsW(p, {"final"})) \o Delete(d),
               Put(Put(flash, p, NewPage(id, s, {"final"}, y)), d, Dead(flash[d])), p, id)
  <1> DEFINE new == NewPage(id, s, {"final"}, y)
             hl == Put(flash, p, new)
  <1>1. {} \in SUBSET Flags /\ {"final"} \in SUBSET Flags /\ {} \cup {"final"} = {"final"}
    BY DEF Flags
  <1>2. new \in PageType
    BY <1>1, NewPageParts
  <1>3. hl \in Flashes /\ hl[d] = flash[d]
    <2> HIDE DEF new
    <2> QED BY <1>2, PutType
  <1>4. Leads(hl, Delete(d), Put(hl, d, Dead(flash[d])), p, id)
    <2> HIDE DEF hl
    <2> QED BY <1>3, LeadsDelete
  <1>5. CASE whole
    <2>1. Leads(flash, Allocate(p, id, s, {}, data, TRUE),
                Put(flash, p, NewPage(id, s, IF TRUE THEN {} \cup {"final"} ELSE {}, data)), p, id)
      BY <1>1, LeadsAllocate
    <2>2. NewPage(id, s, IF TRUE THEN {} \cup {"final"} ELSE {}, data) = new
      BY <1>1, <1>5
    <2>3. Leads(flash, Allocate(p, id, s, {}, data, TRUE), hl, p, id)
      BY <2>1, <2>2
    <2> HIDE DEF hl, new
    <2>4. Leads(flash, Allocate(p, id, s, {}, data, TRUE) \o Delete(d),
                Put(hl, d, Dead(flash[d])), p, id)
      BY <1>4, <2>3, LeadsThen
    <2> QED BY <1>5, <2>4 DEF hl, new
  <1>6. CASE ~whole
    <2> DEFINE x0 == NewPage(id, s, {}, rest)
               x1 == NewPage(id, s, {}, y)
    <2>1. Leads(flash, Allocate(p, id, s, {}, rest, FALSE), Put(flash, p, x0), p, id)
      <3>1. Leads(flash, Allocate(p, id, s, {}, rest, FALSE),
                  Put(flash, p, NewPage(id, s, IF FALSE THEN {} \cup {"final"} ELSE {}, rest)),
                  p, id)
        BY <1>1, LeadsAllocate
      <3> QED BY <3>1
    <2>2. x0 \in PageType /\ x1 \in PageType /\ x0.cells = rest
      BY <1>1, NewPageParts
    <2>3. [x0 EXCEPT !.cells = y] = x1
      BY <1>1, NewPageCells
    <2>4. [x1 EXCEPT !.flags = @ \cup {"final"}] = new
      BY NewPageFinal
    <2> HIDE DEF x0, x1, new
    <2>5. Leads(Put(flash, p, x0), CellsW(p, data), Put(flash, p, x1), p, id)
      <3>1. y = [c \in Cells |-> Meet(x0.cells[c], data[c])]
        BY <1>6, <2>2
      <3>2. Leads(Put(flash, p, x0), CellsW(p, data), Put(flash, p, [x0 EXCEPT !.cells = y]), p, id)
        BY <2>2, <3>1, LeadsCells
      <3> QED BY <2>3, <3>2
    <2>6. Leads(Put(flash, p, x1), FlagsW(p, {"final"}), hl, p, id)
      <3>1. Leads(Put(flash, p, x1), FlagsW(p, {"final"}),
                  Put(flash, p, [x1 EXCEPT !.flags = @ \cup {"final"}]), p, id)
        BY <1>1, <2>2, LeadsFlags
      <3> QED BY <2>4, <3>1
    <2> HIDE DEF hl
    <2>7. Leads(flash, Allocate(p, id, s, {}, rest, FALSE) \o CellsW(p, data),
                Put(flash, p, x1), p, id)
      BY <2>1, <2>5, LeadsThen
    <2>8. Leads(flash, Allocate(p, id, s, {}, rest, FALSE) \o CellsW(p, data)
                         \o FlagsW(p, {"final"}), hl, p, id)
      BY <2>6, <2>7, LeadsThen
    <2>9. Leads(flash, (Allocate(p, id, s, {}, rest, FALSE) \o CellsW(p, data)
                         \o FlagsW(p, {"final"})) \o Delete(d),
                Put(hl, d, Dead(flash[d])), p, id)
      BY <1>4, <2>8, LeadsThen
    <2> QED BY <1>6, <2>9 DEF hl, new
  <1> QED BY <1>5, <1>6

\* What is known of a call that modifies, and of the page d it is at.
Modifying(h, n, s, off, count, m, d) ==
    /\ Deciding /\ todo = <<>> /\ UNCHANGED <<flash, want, calls>>
    /\ job \in CallShape /\ job.op = "modify" /\ job.op \in Writers /\ job.o \in Objs
    /\ Portions(s, off, count, m) /\ job.ix = IxSpan(s) /\ job.ix \in Nat /\ job.ixp \in Pages
    /\ job.cells \in [Cells -> Values] /\ job.end <= n /\ job.new \in Seq(Values)
    /\ Whole(flash, job, want, job.o, h, n) /\ n = Len(job.new) /\ n = SizeIn(flash[h])
    /\ FileOK(flash, View(flash, job), job.o, n, IxSpan(PageSpan(n)))
    /\ TextOK(flash, job.o, n, job.new, job.pos, job.end) /\ IsIx(flash, job.o, 0, h)
    /\ s \in Spans /\ d = job.cells[IxEntry(s)] /\ d \in Pages /\ IsData(flash, job.o, s, d)
    /\ Loaded(job) /\ ~Resizing(job, job.o) /\ Unmarked(job) /\ job.op # "erase"
    /\ \A x \in Objs : x # job.o => ~About(job, x)
    /\ IsIx(flash, job.o, job.ix, job.ixp) /\ Clean(job.cells)
RestCells(off, count, d) ==
    [c \in Cells |-> IF AppendedCells(off, count)[c] = Blank THEN flash[d].cells[c] ELSE Blank]
LEMMA ModifyDataIs ==
  ASSUME FlashSound, ModifyData
  PROVE  \E h \in Pages, n \in 0 .. MaxSize, d \in Pages, p \in Pages : \E s, off, count, m :
           /\ Modifying(h, n, s, off, count, m, d) /\ Take(p)
           /\ todo' = (IF count = U
                       THEN Allocate(p, DataId(job.o), s, {}, AppendedCells(off, count), TRUE)
                       ELSE Allocate(p, DataId(job.o), s, {}, RestCells(off, count, d), FALSE)
                              \o CellsW(p, AppendedCells(off, count)) \o FlagsW(p, {"final"}))
                      \o Delete(d)
           /\ job' = [job EXCEPT !.pos = @ + count, !.cells[IxEntry(s)] = p]
  <1> DEFINE s == job.pos \div U
             off == job.pos % U
             count == Min({job.end - job.pos, U - off})
             m == job.pos + count
             d == job.cells[IxEntry(s)]
             o == job.o
  <1>1. /\ job.op = "modify" /\ todo = <<>> /\ job.pos < job.end /\ job.ix = IxSpan(s)
        /\ UNCHANGED <<flash, want, calls>>
    BY DEF ModifyData, Running, Keep
  <1>2. Deciding /\ job.op \in Writers
    BY <1>1, DecidingFrom DEF Writers
  <1>3. job \in CallShape /\ o \in Objs /\ JobShape(job) /\ LoadedOK(flash, job)
        /\ job.op \in {"append", "modify"} /\ Filling(job, calls) /\ StateTyped
    BY <1>1, <1>2, CallFile DEF Deciding
  <1>4. PICK h \in Pages, n \in 0 .. MaxSize :
          /\ Whole(flash, job, want, o, h, n) /\ n = SizeIn(flash[h]) /\ n = Len(job.new)
    BY <1>1, <1>2, CallFile
  <1>5. /\ job.pos \in Nat /\ job.end \in Nat /\ job.begin \in Nat /\ job.new \in Contents
        /\ job.ix \in Nat \cup {NoIx} /\ job.ixp \in Pages /\ job.cells \in [Cells -> Values]
    BY <1>3, CallParts
  <1>6. /\ job.begin <= job.pos /\ job.end <= n /\ job.new \in Seq(Values)
    BY <1>1, <1>2, <1>4 DEF Deciding, ModifyOK
  <1>7. /\ s \in Nat /\ off \in 0 .. (U - 1) /\ job.pos = First(s) + off /\ s <= PageSpan(job.end)
        /\ count \in Nat /\ count >= 1 /\ count <= job.end - job.pos /\ count <= U - off
        /\ job.pos + count \in Nat
    BY <1>1, <1>5, Portion
  <1> HIDE DEF s, off, count
  <1>8. calls \in Nat /\ \A k \in (job.begin + 1) .. job.end : job.new[k] = calls
    <2>1. calls \in Nat
      BY <1>3, FlashAssumption DEF StateTyped, FlashAssumption
    <2> QED BY <1>3, <2>1 DEF Filling
  <1>9. Portions(s, off, count, m)
    BY <1>1, <1>5, <1>6, <1>7, <1>8 DEF Portions
  <1>10. s <= PageSpan(n) /\ s \in Spans
    <2>1. /\ PageSpan(job.end) <= PageSpan(n) /\ PageSpan(n) <= PageSpan(MaxSize)
          /\ PageSpan(job.end) \in Int /\ PageSpan(n) \in Int /\ PageSpan(MaxSize) \in Int
      BY <1>5, <1>6, Lengths, SpanMonotone, SpanType
    <2> QED BY <1>7, <2>1 DEF Spans, MaxSpan
  <1>11. job.ix \in Nat /\ job.ix # NoIx
    <2>1. \A x \in Nat : x # NoIx
      BY DEF NoIx
    <2>2. job.ix \in Nat
      BY <1>1, <1>10, SpansAre
    <2> QED BY <2>1, <2>2
  <1>12. /\ (\A x \in Objs : x # o => ~About(job, x)) /\ ~Resizing(job, o)
         /\ Loaded(job) /\ job.op # "erase" /\ Unmarked(job)
    BY <1>1, <1>2, <1>3, <1>11, CallIs DEF Unmarked
  <1>13. /\ FileOK(flash, View(flash, job), o, n, IxSpan(PageSpan(n)))
         /\ HoldsText(flash, job, want, o, n) /\ IsIx(flash, o, 0, h)
    BY <1>4, <1>12 DEF Whole, TopOf
  <1>14. TextOK(flash, o, n, job.new, job.pos, job.end)
    BY <1>1, <1>13, TextForms
  <1>15. IsIx(flash, o, IxSpan(s), job.ixp) /\ Clean(job.cells)
    BY <1>1, <1>3, <1>12 DEF LoadedOK
  <1>16. d \in Pages /\ IsData(flash, o, s, d)
    <2>1. View(flash, job)[job.ixp] = job.cells
      BY <1>5, <1>12 DEF View
    <2>2. RefOK(flash, o, n, s, View(flash, job)[job.ixp][IxEntry(s)])
      BY <1>5, <1>10, <1>13, <1>15 DEF FileOK, RefsOK
    <2> QED BY <1>10, <2>1, <2>2 DEF RefOK
  <1>17. Modifying(h, n, s, off, count, m, d)
    BY <1>1, <1>2, <1>3, <1>4, <1>5, <1>6, <1>9, <1>10, <1>11, <1>12, <1>13, <1>14, <1>15, <1>16,
       ZenonT(60) DEF Modifying
  <1>18. \E p \in Pages :
           /\ Take(p)
           /\ todo' = (IF count = U
                       THEN Allocate(p, DataId(job.o), s, {}, AppendedCells(off, count), TRUE)
                       ELSE Allocate(p, DataId(job.o), s, {}, RestCells(off, count, d), FALSE)
                              \o CellsW(p, AppendedCells(off, count)) \o FlagsW(p, {"final"}))
                      \o Delete(d)
           /\ job' = [job EXCEPT !.pos = @ + count, !.cells[IxEntry(s)] = p]
    BY ZenonT(60) DEF ModifyData, AppendedCells, RestCells, s, off, count
  <1> HIDE DEF m, d
  <1> QED BY <1>16, <1>17, <1>18

\* What the new page holds: that of the old one, but for the units that are written.
Rewrites(y, d, off, count) ==
    \A c \in 0 .. (U - 1) :
        y[c] = IF c >= off /\ c < off + count THEN calls ELSE flash[d].cells[c]
\* The page that is written: all of it afresh, or what is left of the old one and the data.
RewrittenCells(off, count, d) ==
    IF count = U THEN AppendedCells(off, count)
    ELSE [c \in Cells |-> Meet(RestCells(off, count, d)[c], AppendedCells(off, count)[c])]
LEMMA RewrittenAre ==
  ASSUME NEW h, NEW n, NEW s, NEW off, NEW count, NEW m, NEW d,
         Modifying(h, n, s, off, count, m, d)
  PROVE  /\ AppendedCells(off, count) \in [Cells -> Values]
         /\ RestCells(off, count, d) \in [Cells -> Values]
         /\ RewrittenCells(off, count, d) \in [Cells -> Values]
         /\ Clean(RewrittenCells(off, count, d))
         /\ Rewrites(RewrittenCells(off, count, d), d, off, count)
  <1> DEFINE data == AppendedCells(off, count)
             rest == RestCells(off, count, d)
             y == RewrittenCells(off, count, d)
             x == flash[d]
  <1>1. /\ Deciding /\ Portions(s, off, count, m) /\ d \in Pages /\ job.o \in Objs
        /\ IsData(flash, job.o, s, d)
    BY ZenonT(60) DEF Modifying
  <1>2. /\ off \in 0 .. (U - 1) /\ count \in Nat /\ count <= U - off /\ calls \in Nat /\ count >= 1
    BY <1>1 DEF Portions
  <1>3. UnitsAre(s, off, count, m) /\ data \in [Cells -> Values] /\ U \in Nat
    BY <1>1, UnitsWritten
  <1>4. x \in PageType /\ Legible(x) /\ x.cells \in [Cells -> Values]
    <2>1. x \in PageType /\ x.lu = DataId(job.o)
      BY <1>1 DEF Deciding, Flashes, IsData
    <2>2. PagesOK(flash, job)
      BY <1>1 DEF Deciding
    <2> QED BY <1>1, <2>1, <2>2, DataPage, PageParts
  <1>5. /\ \A c \in 0 .. (U - 1) : c >= off /\ c < off + count => data[c] = calls
        /\ \A c \in Cells : ~(c \in 0 .. (U - 1) /\ c >= off /\ c < off + count) =>
             data[c] = Blank
    BY <1>3, ZenonT(60) DEF UnitsAre
  <1>6. \A c \in Cells : rest[c] = IF data[c] = Blank THEN x.cells[c] ELSE Blank
    BY DEF RestCells
  <1>7. calls # Blank /\ calls # Garbled /\ Blank # Garbled /\ calls \in Values /\ Blank \in Values
    BY <1>2, ValuesAssumption DEF Values
  <1>8. rest \in [Cells -> Values]
    BY <1>4, <1>7 DEF RestCells
  <1>9. 0 .. (U - 1) \subseteq Cells
    BY CellsAre
  <1>10. \A c \in Cells : data[c] = calls \/ data[c] = Blank
    BY <1>5
  <1>11. \A c \in Cells : y[c] = IF count = U THEN data[c]
                                 ELSE IF data[c] = Blank THEN x.cells[c] ELSE data[c]
    <2> HIDE DEF data, rest
    <2>1. CASE count = U
      BY <2>1 DEF RewrittenCells, data
    <2>2. CASE count # U
      <3>1. \A c \in Cells : y[c] = Meet(rest[c], data[c])
        BY <2>2 DEF RewrittenCells, data, rest
      <3>2. \A c \in Cells :
              Meet(rest[c], data[c]) = IF data[c] = Blank THEN x.cells[c] ELSE data[c]
        BY <1>6, MeetSame
      <3> QED BY <2>2, <3>1, <3>2
    <2> QED BY <2>1, <2>2
  <1>12. DOMAIN y = Cells /\ y = [c \in Cells |-> y[c]]
    <2>1. data = [c \in Cells |-> data[c]]
      BY <1>3
    <2> QED BY <2>1 DEF RewrittenCells
  <1> HIDE DEF data, rest, y, x
  <1>13. y \in [Cells -> Values] /\ Clean(y)
    <2>1. \A c \in Cells : y[c] \in Values /\ y[c] # Garbled
      BY <1>4, <1>7, <1>10, <1>11 DEF Legible
    <2> QED BY <1>12, <2>1 DEF Clean
  <1>14. Rewrites(y, d, off, count)
    <2>1. SUFFICES ASSUME NEW c \in 0 .. (U - 1)
                   PROVE  y[c] = IF c >= off /\ c < off + count THEN calls ELSE x.cells[c]
      BY DEF Rewrites, x
    <2>2. c \in Cells
      BY <1>9
    <2>3. CASE c >= off /\ c < off + count
      BY <1>5, <1>7, <1>11, <2>2, <2>3
    <2>4. CASE ~(c >= off /\ c < off + count)
      <3>1. data[c] = Blank
        BY <1>5, <2>2, <2>4
      <3>2. count # U
        BY <1>2, <1>3, <2>1, <2>4
      <3> QED BY <1>11, <2>2, <2>4, <3>1, <3>2
    <2> QED BY <2>3, <2>4
  <1> QED BY <1>3, <1>8, <1>13, <1>14 DEF data, rest, y

\* The text that is left behind is there up to unit m.
LEMMA ModifiedText ==
  ASSUME NEW h, NEW n \in 0 .. MaxSize, NEW s, NEW off, NEW count, NEW m, NEW d,
         Modifying(h, n, s, off, count, m, d), NEW gl, NEW p, NEW new,
         DataMoved(gl, job.o, n, s, d, p, new), NEW y, new.cells = y, Rewrites(y, d, off, count)
  PROVE  TextOK(gl, job.o, n, job.new, m, job.end)
  <1> DEFINE o == job.o
             new0 == job.new
  <1>1. /\ Deciding /\ Portions(s, off, count, m) /\ d \in Pages /\ o \in Objs
        /\ IsData(flash, o, s, d) /\ TextOK(flash, o, n, job.new, job.pos, job.end) /\ s \in Spans
    BY ZenonT(60) DEF Modifying
  <1>2. /\ job.pos \in Nat /\ job.end \in Nat /\ s \in Nat /\ off \in 0 .. (U - 1)
        /\ job.pos = First(s) + off /\ count \in Nat /\ m = job.pos + count /\ count <= U - off
        /\ job.pos < job.end
    BY <1>1 DEF Portions
  <1>3. /\ UnitsAre(s, off, count, m) /\ m \in Nat /\ job.pos < m /\ m <= job.end
        /\ First(s) < m /\ m <= First(s) + U /\ First(s) \in Nat /\ U \in Nat
    BY <1>1, UnitsWritten
  <1>4. \A c \in 0 .. (U - 1) :
              /\ s * U + c < m <=> c < off + count
              /\ s * U + c < job.pos <=> c < off
              /\ c >= off /\ c < off + count => job.new[s * U + c + 1] = calls
    BY <1>3, ZenonT(60) DEF UnitsAre
  <1>5. /\ gl[p] = new /\ IsData(gl, o, s, p)
        /\ \A q \in Pages : gl[q].lu = DataId(o) /\ q # p => gl[q] = flash[q] /\ flash[q].span # s
    BY DEF DataMoved
  <1>6. PagesOK(flash, job)
    BY <1>1 DEF Deciding
  <1>7. SUFFICES ASSUME NEW q \in Pages, gl[q].lu = DataId(o), NEW c \in 0 .. (U - 1),
                        gl[q].span * U + c < n,
                        ~(m <= gl[q].span * U + c /\ gl[q].span * U + c < job.end)
                 PROVE  gl[q].cells[c] = job.new[gl[q].span * U + c + 1]
    BY DEF TextOK
  <1>8. CASE q = p
    <2>1. gl[q].span = s /\ gl[q].cells[c] = y[c]
      BY <1>5, <1>8 DEF IsData
    <2> DEFINE u == s * U + c
    <2>2. u \in Nat /\ u < n /\ ~(m <= u /\ u < job.end)
      BY <1>2, <1>3, <1>7, <2>1
    <2>3. c >= off /\ c < off + count => y[c] = calls /\ job.new[u + 1] = calls
      BY <1>4 DEF Rewrites
    <2>4. ~(c >= off /\ c < off + count) => y[c] = job.new[u + 1]
      <3>1. SUFFICES ASSUME ~(c >= off /\ c < off + count) PROVE y[c] = job.new[u + 1]
        OBVIOUS
      <3>2. y[c] = flash[d].cells[c]
        BY <3>1 DEF Rewrites
      <3>3. (u < m <=> c < off + count) /\ (u < job.pos <=> c < off)
        BY <1>4
      <3> HIDE DEF u
      <3>4. ~(job.pos <= u /\ u < job.end)
        BY <1>2, <1>3, <2>2, <3>1, <3>3
      <3>5. flash[d].lu = DataId(o) /\ flash[d].span = s
        BY <1>1 DEF IsData
      <3>6. flash[d].span * U + c = u
        BY <3>5 DEF u
      <3>7. flash[d].cells[c] = job.new[u + 1]
        BY <1>1, <2>2, <3>4, <3>5, <3>6 DEF TextOK
      <3> QED BY <3>2, <3>7
    <2> QED BY <2>1, <2>3, <2>4
  <1>9. CASE q # p
    <2>1. gl[q] = flash[q] /\ flash[q].span # s /\ flash[q].lu = DataId(o)
      BY <1>5, <1>7, <1>9
    <2> DEFINE t == flash[q].span
               u == t * U + c
    <2>2. t \in Nat
      BY <1>1, <1>6, <2>1, DataPage
    <2> HIDE DEF t
    <2>3. u \in Nat /\ u = First(t) + c /\ u < n /\ ~(m <= u /\ u < job.end)
      BY <1>3, <1>7, <2>1, <2>2 DEF t, First
    <2>4. First(t) + U <= First(s) \/ First(s) + U <= First(t)
      <3>1. t < s \/ s < t
        BY <1>2, <2>1, <2>2 DEF t
      <3> QED BY <1>2, <2>2, <3>1, FirstUnit
    <2>5. First(t) \in Nat
      BY <2>2, FirstUnit
    <2> HIDE DEF u
    <2>6. ~(job.pos <= u /\ u < m)
      BY <1>2, <1>3, <1>7, <2>3, <2>4, <2>5
    <2>7. ~(job.pos <= u /\ u < job.end)
      BY <1>2, <1>3, <2>3, <2>6
    <2>8. flash[q].span * U + c = u
      BY DEF u, t
    <2>9. flash[q].cells[c] = job.new[u + 1]
      BY <1>1, <2>1, <2>3, <2>7, <2>8 DEF TextOK
    <2> QED BY <2>1, <2>8, <2>9
  <1> QED BY <1>8, <1>9

LEMMA ModifyDataSound ==
  ASSUME FlashSound, ModifyData
  PROVE  FlashSound'
  <1>1. PICK h \in Pages, n \in 0 .. MaxSize, d \in Pages, p \in Pages : \E s, off, count, m :
           /\ Modifying(h, n, s, off, count, m, d) /\ Take(p)
           /\ todo' = (IF count = U
                       THEN Allocate(p, DataId(job.o), s, {}, AppendedCells(off, count), TRUE)
                       ELSE Allocate(p, DataId(job.o), s, {}, RestCells(off, count, d), FALSE)
                              \o CellsW(p, AppendedCells(off, count)) \o FlagsW(p, {"final"}))
                      \o Delete(d)
           /\ job' = [job EXCEPT !.pos = @ + count, !.cells[IxEntry(s)] = p]
    BY ModifyDataIs
  <1>2. PICK s, off, count, m :
           /\ Modifying(h, n, s, off, count, m, d) /\ Take(p)
           /\ todo' = (IF count = U
                       THEN Allocate(p, DataId(job.o), s, {}, AppendedCells(off, count), TRUE)
                       ELSE Allocate(p, DataId(job.o), s, {}, RestCells(off, count, d), FALSE)
                              \o CellsW(p, AppendedCells(off, count)) \o FlagsW(p, {"final"}))
                      \o Delete(d)
           /\ job' = [job EXCEPT !.pos = @ + count, !.cells[IxEntry(s)] = p]
    BY <1>1
  <1> DEFINE o == job.o
             k == job'
             e == IxEntry(s)
             y == RewrittenCells(off, count, d)
             new == NewPage(DataId(o), s, {"final"}, y)
             gl == Put(Put(flash, p, new), d, Dead(flash[d]))
             top == IxSpan(PageSpan(n))
             cells == [job.cells EXCEPT ![e] = p]
  <1>3. /\ Deciding /\ UNCHANGED <<flash, want, calls>>
        /\ job \in CallShape /\ job.op = "modify" /\ job.op \in Writers /\ o \in Objs
        /\ Portions(s, off, count, m) /\ job.ix = IxSpan(s) /\ job.ix \in Nat /\ job.ixp \in Pages
        /\ job.cells \in [Cells -> Values] /\ job.end <= n /\ job.new \in Seq(Values)
        /\ Whole(flash, job, want, o, h, n) /\ n = Len(job.new) /\ n = SizeIn(flash[h])
        /\ FileOK(flash, View(flash, job), o, n, top) /\ IsIx(flash, o, 0, h)
        /\ s \in Spans /\ IsData(flash, o, s, d)
        /\ Loaded(job) /\ ~Resizing(job, o) /\ Unmarked(job) /\ job.op # "erase"
        /\ (\A x \in Objs : x # o => ~About(job, x))
        /\ IsIx(flash, o, job.ix, job.ixp) /\ Clean(job.cells)
    BY <1>2, ZenonT(60) DEF Modifying
  <1>4. /\ job.begin \in Nat /\ job.pos \in Nat /\ job.end \in Nat /\ job.begin <= job.pos
        /\ count \in Nat /\ m = job.pos + count /\ calls \in Nat /\ s \in Nat
        /\ \A i \in (job.begin + 1) .. job.end : job.new[i] = calls
    BY <1>3 DEF Portions
  <1>5. m \in Nat /\ job.pos < m /\ m <= job.end /\ First(s) < m /\ m <= First(s) + U
    BY <1>3, UnitsWritten
  <1>6. /\ AppendedCells(off, count) \in [Cells -> Values]
        /\ RestCells(off, count, d) \in [Cells -> Values]
        /\ y \in [Cells -> Values] /\ Clean(y) /\ Rewrites(y, d, off, count)
    BY <1>2, RewrittenAre
  <1>7. flash[p] = BlankPage /\ cursor' \in 0 .. (B * N) /\ flash[p].lu = Blank
    BY <1>2, <1>3, Taken
  <1>8. flash \in Flashes /\ PagesOK(flash, job) /\ JobShape(job)
    BY <1>3 DEF Deciding
  <1>9. DataId(o) \in Ids /\ DataId(o) # Blank /\ DataId(o) # Garbled /\ d # p
    BY <1>3, <1>7, IdsDistinct DEF IsData
  <1>10. Leads(flash, todo', gl, p, DataId(o))
    <2> DEFINE whole == (count = U)
               data == AppendedCells(off, count)
               rest == RestCells(off, count, d)
    <2>1. y = IF whole THEN data ELSE [c \in Cells |-> Meet(rest[c], data[c])]
      BY DEF RewrittenCells
    <2>2. todo' = (IF whole THEN Allocate(p, DataId(o), s, {}, data, TRUE)
                   ELSE Allocate(p, DataId(o), s, {}, rest, FALSE)
                          \o CellsW(p, data) \o FlagsW(p, {"final"})) \o Delete(d)
      BY <1>2
    <2>3. whole \in BOOLEAN
      OBVIOUS
    <2> HIDE DEF whole, y
    <2>4. data \in [Cells -> Values] /\ rest \in [Cells -> Values] /\ y \in [Cells -> Values]
      BY <1>6 DEF y
    <2> HIDE DEF data, rest
    <2>5. Leads(flash, (IF whole THEN Allocate(p, DataId(o), s, {}, data, TRUE)
                        ELSE Allocate(p, DataId(o), s, {}, rest, FALSE)
                              \o CellsW(p, data) \o FlagsW(p, {"final"})) \o Delete(d),
                gl, p, DataId(o))
      BY <1>4, <1>7, <1>8, <1>9, <2>1, <2>3, <2>4, ModifyWrites
    <2> QED BY <2>2, <2>5
  <1> HIDE DEF y
  <1>11. /\ new \in PageType /\ new.lu = DataId(o) /\ new.id = DataId(o) /\ new.span = s
         /\ new.flags = {"final", "used"} /\ new.size = Blank /\ new.cells = y
    <2>1. {"final"} \in SUBSET Flags /\ {"final"} \cup {"used"} = {"final", "used"}
      BY DEF Flags
    <2>2. s \in Nat /\ y \in [Cells -> Values] /\ DataId(o) \in Ids
      BY <1>4, <1>6, <1>9
    <2> HIDE DEF new, o
    <2> DEFINE id == DataId(o)
    <2>3. /\ NewPage(id, s, {"final"}, y) \in PageType
          /\ NewPage(id, s, {"final"}, y).lu = id /\ NewPage(id, s, {"final"}, y).id = id
          /\ NewPage(id, s, {"final"}, y).span = s
          /\ NewPage(id, s, {"final"}, y).flags = {"final"} \cup {"used"}
          /\ NewPage(id, s, {"final"}, y).size = Blank
          /\ NewPage(id, s, {"final"}, y).cells = y
      <3> HIDE DEF id
      <3> QED BY <2>1, <2>2, NewPageParts DEF id
    <2> QED BY <2>1, <2>3, ZenonT(60) DEF new
  <1> HIDE DEF new
  <1>12. DataMove(gl, o, n, s, d, p, new)
    <2>1. Legible(new) /\ DataPageOK(new)
      <3>1. Blank # Garbled /\ s # Garbled
        BY <1>4, ValuesAssumption
      <3> QED BY <1>3, <1>6, <1>9, <1>11, <3>1 DEF Legible, DataPageOK, Clean
    <2>2. ASSUME NEW c \in 0 .. (U - 1), s * U + c >= n PROVE new.cells[c] = Blank
      <3>1. flash[d].cells[c] = Blank
        BY <1>3, <2>2 DEF FileOK, DataEnds, IsData
      <3>2. ~(c >= off /\ c < off + count)
        <4>1. UnitsAre(s, off, count, m)
          BY <1>3, UnitsWritten
        <4>2. s * U + c < m <=> c < off + count
          BY <4>1, ZenonT(60) DEF UnitsAre
        <4>3. s * U + c \in Nat /\ n \in Nat
          BY <1>4, Lengths
        <4> QED BY <1>3, <1>4, <1>5, <2>2, <4>2, <4>3
      <3> QED BY <1>6, <1>11, <3>1, <3>2 DEF Rewrites
    <2> QED BY <1>3, <1>7, <1>11, <2>1, <2>2 DEF DataMove
  <1> HIDE DEF gl
  <1>13. /\ DataMoved(gl, o, n, s, d, p, new) /\ \A x : x.op # "erase" => PagesOK(gl, x)
    <2>1. n \in Nat
      BY Lengths
    <2> QED BY <1>3, <1>12, <2>1, MovedData
  <1>14. TextOK(gl, o, n, job.new, m, job.end)
    BY <1>2, <1>6, <1>11, <1>13, ModifiedText
  <1>15. p \in Values /\ p # Garbled /\ e \in Cells
    BY <1>4, SpansAre, CellsAre, Lengths, ValuesAssumption DEF Values, Pages
  <1>16. cells \in [Cells -> Values] /\ Clean(cells)
    BY <1>3, <1>15 DEF Clean
  <1>17. k = [job EXCEPT !.pos = m, !.cells = cells]
    BY <1>2, <1>3, <1>4 DEF CallShape
  <1>18. cells = [job.cells EXCEPT ![IxEntry(s)] = p]
    OBVIOUS
  <1> HIDE DEF k, cells, e
  <1>19. /\ k \in CallShape /\ k.op = "modify" /\ k.o = o /\ k.hdr = job.hdr
         /\ k.begin = job.begin /\ k.pos = m /\ k.end = job.end /\ k.ix = job.ix
         /\ k.ixp = job.ixp /\ k.cells = cells /\ k.new = job.new
    BY <1>3, <1>5, <1>16, <1>17 DEF CallShape
  <1>20. JobShape(k) /\ k.op \in Writers
    BY <1>3, <1>19 DEF JobShape
  <1>21. /\ (\A x \in Objs : x # o => ~About(k, x)) /\ ~Resizing(k, o) /\ k.op # "erase"
    BY <1>19, <1>20, CallIs
  <1>22. Loaded(k) /\ Filling(k, calls)
    BY <1>3, <1>4, <1>19 DEF Loaded, Filling
  <1>23. /\ IsData(gl, o, s, p) /\ NoTwins(gl) /\ OnlyPagesOf(flash, gl, o)
         /\ \A q \in Pages : flash[q].lu = IxId(o) \/ gl[q].lu = IxId(o) => gl[q] = flash[q]
    BY <1>13 DEF DataMoved
  <1>24. CallOK(gl, k)
    <2>1. PageSpan(m) = s
      BY <1>4, <1>5, SpanIs
    <2>2. AtIx(k)
      BY <1>3, <1>4, <1>5, <1>19, <2>1 DEF AtIx
    <2>3. k.ix # NoIx
      BY <1>22 DEF Loaded
    <2>4. k.begin <= k.pos /\ k.pos <= k.end /\ k.end <= Len(k.new) /\ k.new \in Seq(Values)
      <3>1. job.end <= Len(job.new) /\ job.begin <= m
        BY <1>3, <1>4, <1>5
      <3> QED BY <1>3, <1>5, <1>19, <3>1
    <2>5. ModifyOK(gl, k)
      BY <2>2, <2>3, <2>4, ZenonT(60) DEF ModifyOK
    <2>6. LoadedOK(gl, k)
      BY <1>3, <1>16, <1>19, <1>23 DEF LoadedOK, IsIx
    <2> QED BY <1>19, <2>5, <2>6 DEF CallOK, AppendOK, TruncateOK, EraseOK
  <1>25. FileOK(gl, View(gl, k), o, n, top)
    <2>1. Notes(job, k, s, p)
      BY <1>3, <1>18, <1>19, <1>22, ZenonT(60) DEF Notes
    <2>2. n \in Nat
      BY Lengths
    <2> QED BY <1>3, <1>13, <2>1, <2>2, MovedDataFile
  <1>26. HoldsText(gl, k, want, o, n)
    BY <1>3, <1>14, <1>19, TextForms
  <1>27. IsIx(gl, o, 0, h) /\ gl[h] = flash[h]
    BY <1>3, <1>23 DEF IsIx
  <1>28. Whole(gl, k, want, o, h, n)
    BY <1>3, <1>21, <1>25, <1>26, <1>27 DEF Whole, UnitsOf, TopOf
  <1>29. ThereOK(gl, k, want, o) /\ PagesOK(gl, k)
    BY <1>3, <1>13, <1>21, <1>28, ThereWhole
  <1> HIDE DEF o
  <1> QED BY <1>2, <1>3, <1>7, <1>9, <1>10, <1>20, <1>21, <1>22, <1>23, <1>24, <1>29, Stepped DEF k

-----------------------------------------------------------------------------
(* Truncating and removing *)

\* What is known of the call.
Shrinking ==
    /\ Deciding /\ todo = <<>> /\ job \in CallShape /\ job.op \in {"truncate", "remove"}
    /\ job.op \in Writers /\ job.o \in Objs /\ JobShape(job) /\ job.op # "erase"
    /\ job.pos \in 0 .. MaxSize /\ job.begin \in Nat /\ job.pos <= job.begin
    /\ job.new = (IF job.op = "remove" THEN Absent ELSE <<>>) /\ job.new \in Contents
    /\ job.hdr \in Pages /\ job.ixp \in Pages /\ job.cells \in [Cells -> Values]
    /\ job.ix \in Nat \cup {NoIx} /\ IsIx(flash, job.o, 0, job.hdr)
    /\ job.ix # NoIx => /\ Loaded(job) /\ IsIx(flash, job.o, job.ix, job.ixp) /\ Clean(job.cells)
                        /\ \/ job.ix = IxSpan(PageSpan(job.pos))
                           \/ job.pos % U = 0 /\ job.ix = IxSpan(job.pos \div U)
    /\ job.ix = 0 => job.ixp = job.hdr
    /\ FileOK(flash, View(flash, job), job.o, job.pos, TopOf(job, job.o, job.pos))
    /\ flash \in Flashes /\ PagesOK(flash, job) /\ NoTwins(flash) /\ Resizing(job, job.o)
    /\ \A x \in Objs : x # job.o => ~About(job, x)
LEMMA ShrinkingIs ==
  ASSUME FlashSound, Truncating
  PROVE  Shrinking
  <1>1. todo = <<>> /\ job.op \in {"truncate", "remove"} /\ job.op \in Writers /\ job.op # "erase"
        /\ job.op \in Resizers /\ job.op # "modify"
    BY DEF Truncating, Writers, Resizers
  <1>2. Deciding
    BY <1>1, DecidingFrom
  <1>3. job \in CallShape /\ job.o \in Objs
    BY <1>1, <1>2, CallFile
  <1>4. PICK h \in Pages, n \in 0 .. MaxSize : Whole(flash, job, want, job.o, h, n) /\ n = job.pos
    BY <1>1, <1>2, CallFile
  <1>5. /\ FileOK(flash, View(flash, job), job.o, job.pos, TopOf(job, job.o, job.pos))
        /\ job.pos \in 0 .. MaxSize
    BY <1>4 DEF Whole
  <1>6. /\ JobShape(job) /\ flash \in Flashes /\ PagesOK(flash, job) /\ NoTwins(flash)
        /\ LoadedOK(flash, job) /\ TruncateOK(flash, job)
    BY <1>2 DEF Deciding
  <1>7. /\ job.begin \in Nat /\ job.new \in Contents /\ job.hdr \in Pages /\ job.ixp \in Pages
        /\ job.cells \in [Cells -> Values] /\ job.ix \in Nat \cup {NoIx}
    BY <1>3, CallParts
  <1>8. /\ (\A x \in Objs : x # job.o => ~About(job, x)) /\ Resizing(job, job.o)
        /\ Loaded(job) <=> job.ix # NoIx
    BY <1>1, <1>6, CallIs
  <1>9. job.ix # NoIx => Loaded(job) /\ IsIx(flash, job.o, job.ix, job.ixp) /\ Clean(job.cells)
    BY <1>6, <1>8 DEF LoadedOK
  <1>10. /\ job.pos <= job.begin /\ job.new = (IF job.op = "remove" THEN Absent ELSE <<>>)
         /\ IsIx(flash, job.o, 0, job.hdr)
         /\ job.ix # NoIx => \/ job.ix = IxSpan(PageSpan(job.pos))
                             \/ job.pos % U = 0 /\ job.ix = IxSpan(job.pos \div U)
         /\ job.ix = 0 => job.ixp = job.hdr
    BY <1>1, <1>6, ZenonT(60) DEF TruncateOK
  <1> QED BY <1>1, <1>2, <1>3, <1>5, <1>6, <1>7, <1>8, <1>9, <1>10, ZenonT(60) DEF Shrinking

\* A page of the file is deleted.
Drops(gl, o, d) ==
    /\ gl \in Flashes /\ gl[d].lu = Deleted /\ (\A q \in Pages : q # d => gl[q] = flash[q])
    /\ NoTwins(gl) /\ OnlyPagesOf(flash, gl, o)
LEMMA Dropped ==
  ASSUME flash \in Flashes, NoTwins(flash), PagesOK(flash, job), job.op # "erase",
         NEW o \in Objs, NEW d \in Pages, flash[d].lu \in ObjIds(o),
         NEW gl, gl = Put(flash, d, Dead(flash[d]))
  PROVE  /\ Drops(gl, o, d)
         /\ \A k : (\A x \in Objs, p \in Pages : p # d /\ Marked(job, x, p) => Marked(k, x, p))
                     => PagesOK(gl, k)
  <1>1. flash[d] \in PageType
    BY DEF Flashes
  <1>2. Dead(flash[d]) \in PageType /\ Dead(flash[d]).lu = Deleted
    BY <1>1, DeadParts
  <1>3. gl \in Flashes /\ gl[d] = Dead(flash[d]) /\ \A q \in Pages : q # d => gl[q] = flash[q]
    BY <1>2, PutType
  <1>4. NoTwins(gl)
    <2>1. \A p \in Pages : gl[p].lu \in Ids => gl[p].lu = flash[p].lu /\ gl[p].span = flash[p].span
      BY <1>2, <1>3, IdsDistinct
    <2> QED BY <2>1, ChangedTwins
  <1>5. OnlyPagesOf(flash, gl, o)
    BY <1>2, <1>3 DEF OnlyPagesOf
  <1>6. ASSUME NEW k, \A x \in Objs, p \in Pages : p # d /\ Marked(job, x, p) => Marked(k, x, p)
        PROVE  PagesOK(gl, k)
    <2>1. Legible(flash[d])
      BY DEF PagesOK, PageOK
    <2>2. PageOK(gl, k, d)
      BY <1>1, <1>3, <2>1, DeadOK
    <2>3. \A x \in Objs, p \in Pages : p # d /\ Marked(job, x, p) /\ flash[p].lu = IxId(x)
             => Marked(k, x, p)
      BY <1>6
    <2> QED BY <1>3, <2>2, <2>3, AddedPages
  <1> QED BY <1>2, <1>3, <1>4, <1>5, <1>6 DEF Drops

LEMMA TruncateDataSound ==
  ASSUME FlashSound, TruncateData
  PROVE  FlashSound'
  <1> DEFINE o == job.o
             k == job'
             n == job.pos
             s == PageSpan(n)
             e == IxEntry(s)
             d == job.cells[e]
             m == s * U
             top == IxSpan(s)
             gl == Put(flash, d, Dead(flash[d]))
             cells == [job.cells EXCEPT ![e] = Blank]
  <1>1. /\ Truncating /\ n > 0 /\ job.ix = IxSpan(s) /\ UNCHANGED <<flash, want, calls>>
        /\ UNCHANGED cursor /\ k = [job EXCEPT !.cells[e] = Blank, !.pos = m]
        /\ todo' = IF d = Blank \/ (d \in Pages /\ Has(d, {"used", "dele"}, {})) THEN <<>>
                   ELSE Delete(d)
    BY DEF TruncateData, Keep, LastIx
  <1>2. Shrinking
    BY <1>1, ShrinkingIs
  <1>3. /\ Deciding /\ todo = <<>> /\ job \in CallShape /\ job.op \in {"truncate", "remove"}
        /\ job.op \in Writers /\ o \in Objs /\ JobShape(job) /\ job.op # "erase"
        /\ n \in 0 .. MaxSize /\ job.begin \in Nat /\ n <= job.begin
        /\ job.new = (IF job.op = "remove" THEN Absent ELSE <<>>) /\ job.new \in Contents
        /\ job.hdr \in Pages /\ job.ixp \in Pages /\ job.cells \in [Cells -> Values]
        /\ IsIx(flash, o, 0, job.hdr)
        /\ job.ix # NoIx => Loaded(job) /\ IsIx(flash, o, job.ix, job.ixp) /\ Clean(job.cells)
        /\ job.ix = 0 => job.ixp = job.hdr
        /\ FileOK(flash, View(flash, job), o, n, TopOf(job, o, n))
        /\ flash \in Flashes /\ PagesOK(flash, job) /\ NoTwins(flash) /\ Resizing(job, o)
        /\ \A x \in Objs : x # o => ~About(job, x)
    BY <1>2, ZenonT(60) DEF Shrinking
  <1>4. n \in Nat \ {0} /\ n <= MaxSize
    BY <1>1, <1>3, Lengths
  <1>5. s \in Nat /\ First(s) < n /\ n <= First(s) + U /\ s \in Spans
    <2>1. s \in Nat /\ First(s) < n /\ n <= First(s) + U
      BY <1>4, SpanOfSome
    <2>2. s <= PageSpan(MaxSize) /\ PageSpan(MaxSize) \in Int
      BY <1>4, SpanMonotone, SpanType, Lengths
    <2> HIDE DEF s
    <2> QED BY <2>1, <2>2 DEF Spans, MaxSpan
  <1> HIDE DEF s
  <1>6. m = First(s) /\ m \in Nat /\ m < n /\ PageSpan(m) = s - 1
    BY <1>5, FirstUnit, SpanOfWhole DEF First
  <1> HIDE DEF m
  <1>7. IxSpan(s) \in Nat /\ e \in Cells /\ job.ix # NoIx /\ IxSpan(s - 1) \in Nat
        /\ IxSpan(s - 1) <= IxSpan(s)
    <2>1. IxSpan(s) \in Nat /\ e \in Cells
      BY <1>5, SpansAre
    <2>2. \A x \in Nat : x # NoIx
      BY DEF NoIx
    <2>3. s - 1 \in Int /\ s - 1 >= -1 /\ s \in Int /\ s - 1 <= s
      BY <1>5
    <2> QED BY <1>1, <2>1, <2>2, <2>3, IxSpanType, IxSpanMonotone
  <1>8. IsIx(flash, o, IxSpan(s), job.ixp) /\ Clean(job.cells) /\ Loaded(job)
    BY <1>1, <1>3, <1>7
  <1>9. TopOf(job, o, n) = top
    BY <1>1, <1>7 DEF TopOf, s
  <1>10. d \in Pages /\ IsData(flash, o, s, d)
    <2>1. View(flash, job)[job.ixp] = job.cells
      BY <1>3, <1>8 DEF View
    <2>2. RefOK(flash, o, n, s, View(flash, job)[job.ixp][IxEntry(s)])
      BY <1>3, <1>5, <1>8 DEF FileOK, RefsOK
    <2>3. s <= PageSpan(n)
      BY <1>5 DEF s
    <2> QED BY <2>1, <2>2, <2>3 DEF RefOK
  <1>11. todo' = Delete(d)
    <2>1. d # Blank
      BY <1>10, Lengths, ValuesAssumption DEF Pages
    <2>2. DataPageOK(flash[d])
      BY <1>3, <1>10, DataPage DEF IsData
    <2>3. "dele" \notin flash[d].flags
      BY <2>2 DEF DataPageOK
    <2> QED BY <1>1, <2>1, <2>3 DEF Has
  <1> HIDE DEF d, gl
  <1>12. gl = Put(flash, d, Dead(flash[d])) /\ flash[d].lu \in ObjIds(o) /\ flash[d].lu = DataId(o)
    BY <1>10 DEF gl, IsData, ObjIds
  <1>13. Leads(flash, todo', gl, NoIx, IxId(o))
    BY <1>3, <1>10, <1>11, <1>12, LeadsDelete
  <1>14. Blank \in Values /\ Blank # Garbled
    BY ValuesAssumption DEF Values
  <1>15. cells \in [Cells -> Values] /\ Clean(cells)
    BY <1>3, <1>7, <1>8, <1>14 DEF Clean
  <1>16. k = [job EXCEPT !.cells = cells, !.pos = m]
    <2> HIDE DEF e
    <2> QED BY <1>1, <1>3 DEF CallShape
  <1>17. cells = [job.cells EXCEPT ![IxEntry(s)] = Blank]
    OBVIOUS
  <1> HIDE DEF k, cells, e
  <1>18. /\ k \in CallShape /\ k.op = job.op /\ k.o = o /\ k.hdr = job.hdr
         /\ k.begin = job.begin /\ k.pos = m /\ k.end = job.end /\ k.ix = job.ix
         /\ k.ixp = job.ixp /\ k.cells = cells /\ k.new = job.new
    BY <1>3, <1>6, <1>15, <1>16 DEF CallShape
  <1>19. JobShape(k) /\ k.op \in Writers
    BY <1>3, <1>18 DEF JobShape
  <1>20. /\ (\A x \in Objs : x # o => ~About(k, x)) /\ Resizing(k, o) /\ k.op # "erase"
         /\ Loaded(k)
    <2>1. k.op # "modify"
      BY <1>3, <1>18
    <2> QED BY <1>7, <1>18, <1>19, <2>1, CallIs
  <1>21. Drops(gl, o, d) /\ PagesOK(gl, k)
    <2>1. \A x \in Objs, p \in Pages : p # d /\ Marked(job, x, p) => Marked(k, x, p)
      BY <1>18 DEF Marked
    <2>2. /\ Drops(gl, o, d)
          /\ \A j : (\A x \in Objs, p \in Pages : p # d /\ Marked(job, x, p) => Marked(j, x, p))
                     => PagesOK(gl, j)
      BY <1>3, <1>10, <1>12, Dropped
    <2> QED BY <2>1, <2>2
  <1>22. /\ gl \in Flashes /\ gl[d].lu = Deleted /\ (\A q \in Pages : q # d => gl[q] = flash[q])
         /\ NoTwins(gl) /\ OnlyPagesOf(flash, gl, o)
    BY <1>21 DEF Drops
  <1>23. \A q \in Pages : flash[q].lu = IxId(o) \/ gl[q].lu = IxId(o) => gl[q] = flash[q]
    BY <1>3, <1>12, <1>22, IdsDistinct
  <1>24. Filling(k, calls)
    BY <1>3, <1>18 DEF Filling
  <1>25. CallOK(gl, k)
    <2>1. m % U = 0 /\ m \div U = s
      <3>1. 0 \in 0 .. (U - 1) /\ First(s) + 0 = First(s)
        BY <1>5, Lengths, FirstUnit
      <3> QED BY <1>5, <1>6, <3>1, UnitUnique
    <2>2. k.pos <= k.begin /\ k.pos % U = 0 /\ k.ix = IxSpan(k.pos \div U)
      BY <1>1, <1>3, <1>4, <1>6, <1>18, <2>1
    <2>3. IsIx(gl, o, 0, k.hdr)
      BY <1>3, <1>18, <1>23 DEF IsIx
    <2>4. TruncateOK(gl, k)
      BY <1>3, <1>18, <2>2, <2>3, ZenonT(60) DEF TruncateOK
    <2>5. LoadedOK(gl, k)
      BY <1>1, <1>3, <1>8, <1>15, <1>18, <1>23 DEF LoadedOK, IsIx
    <2> QED BY <1>3, <1>18, <2>4, <2>5 DEF CallOK, AppendOK, ModifyOK, EraseOK
  <1>26. FileOK(gl, View(gl, k), o, m, top)
    <2>1. \A q \in Pages : ~IsData(gl, o, s, q)
      <3>1. SUFFICES ASSUME NEW q \in Pages, IsData(gl, o, s, q) PROVE FALSE
        OBVIOUS
      <3>2. q # d
        BY <1>3, <1>22, <3>1, IdsDistinct DEF IsData
      <3>3. IsData(flash, o, s, q)
        BY <1>22, <3>1, <3>2 DEF IsData
      <3> QED BY <1>3, <1>10, <3>2, <3>3, OneData
    <2>2. DataHeld(gl, o, s, m)
      BY <2>1 DEF DataHeld
    <2>3. RefOK(gl, o, m, s, Blank)
      BY <1>5, <1>6 DEF RefOK
    <2>4. UnitsMove(n, m, s)
      <3>1. PageSpan(n) = s
        BY DEF s
      <3>2. \A t \in Nat : t # s => (t <= PageSpan(n) <=> t <= PageSpan(m))
        BY <1>5, <1>6, <3>1
      <3>3. ASSUME NEW t \in Nat, NEW c \in 0 .. (U - 1), t # s, t <= PageSpan(n), t * U + c >= m
            PROVE  t * U + c >= n
        <4>1. t < s
          BY <1>5, <3>1, <3>3
        <4>2. First(t) + U <= First(s) /\ First(t) \in Nat /\ First(s) \in Nat /\ U \in Nat
          BY <1>5, <4>1, FirstUnit, Lengths
        <4>3. First(t) + c >= First(s)
          BY <1>6, <3>3 DEF First
        <4> QED BY <4>2, <4>3
      <3> QED BY <3>2, <3>3 DEF UnitsMove
    <2>5. DataSameBut(flash, gl, o, s)
      <3>1. SUFFICES ASSUME NEW q \in Pages,
                            (flash[q].lu = DataId(o) /\ flash[q].span # s)
                              \/ (gl[q].lu = DataId(o) /\ gl[q].span # s)
                     PROVE  gl[q] = flash[q]
        BY DEF DataSameBut
      <3>2. q # d
        BY <1>3, <1>10, <1>22, <3>1, IdsDistinct DEF IsData
      <3> QED BY <1>22, <3>2
    <2>6. /\ job.ix = IxSpan(s) /\ k.ixp = job.ixp
          /\ k.cells = [job.cells EXCEPT ![IxEntry(s)] = Blank]
          /\ LoadedOK(flash, job)
      BY <1>1, <1>3, <1>17, <1>18 DEF Deciding
    <2>7. NoteReady(flash, gl, job, k, o, s, Blank)
      BY <1>3, <1>8, <1>20, <1>23, <2>5, <2>6, ZenonT(60) DEF NoteReady
    <2>8. n \in Nat /\ FileOK(flash, View(flash, job), o, n, top)
      BY <1>3, <1>4, <1>9
    <2> HIDE DEF n
    <2> QED BY <1>3, <1>5, <1>6, <2>2, <2>3, <2>4, <2>7, <2>8, NotedFile
  <1>27. TopOf(k, o, m) = top
    <2>1. k.ix = top /\ IxSpan(PageSpan(m)) = IxSpan(s - 1)
      BY <1>1, <1>6, <1>18
    <2> DEFINE a == IxSpan(PageSpan(m))
    <2>2. top \in Nat /\ a \in Nat /\ a <= top
      BY <1>7, <2>1
    <2>3. TopOf(k, o, m) = IF top > a THEN top ELSE a
      BY <1>20, <2>1 DEF TopOf
    <2> HIDE DEF a, top
    <2> QED BY <2>2, <2>3
  <1>28. ThereOK(gl, k, want, o)
    <2>1. HoldsText(gl, k, want, o, m)
      BY <1>3, <1>18, TextForms
    <2>2. IsIx(gl, o, 0, job.hdr)
      BY <1>3, <1>23 DEF IsIx
    <2>3. m = UnitsOf(gl, k, job.hdr, o) /\ m \in 0 .. MaxSize
      BY <1>4, <1>6, <1>18, <1>20, Lengths DEF UnitsOf
    <2>4. Whole(gl, k, want, o, job.hdr, m)
      BY <1>26, <1>27, <2>1, <2>2, <2>3 DEF Whole
    <2> QED BY <1>3, <2>3, <2>4, ThereWhole
  <1>29. cursor' \in 0 .. (B * N) /\ NoIx \notin Pages /\ IxId(o) # Garbled
    <2>1. StateTyped
      BY <1>3 DEF Deciding
    <2> QED BY <1>1, <1>3, <2>1, Typed, Lengths, IdsDistinct
  <1> HIDE DEF o
  <1> QED BY <1>1, <1>3, <1>13, <1>19, <1>20, <1>21, <1>22, <1>24, <1>25, <1>28,
           <1>29, Stepped DEF k

\* The file when its last index page, which was emptied, is deleted.
IxGone(gl, o, n, hd) ==
    /\ gl \in Flashes /\ NoTwins(gl) /\ OnlyPagesOf(flash, gl, o) /\ DataSame(flash, gl, o)
    /\ IsIx(gl, o, 0, hd) /\ gl[hd] = flash[hd] /\ hd # job.ixp
    /\ (\A q \in Pages : q # job.ixp => gl[q] = flash[q])
    /\ FileOK(gl, Plain(gl), o, n, IxSpan(PageSpan(n)))
LEMMA IxDropped ==
  ASSUME Shrinking, job.ix # NoIx, job.ix # IxSpan(PageSpan(job.pos)),
         NEW gl, gl = Put(flash, job.ixp, Dead(flash[job.ixp]))
  PROVE  /\ IxGone(gl, job.o, job.pos, job.hdr)
         /\ \A k : (\A x \in Objs, p \in Pages : Marked(job, x, p) => Marked(k, x, p))
                     => PagesOK(gl, k)
  <1> DEFINE o == job.o
             n == job.pos
             hd == job.hdr
             d == job.ixp
             i == job.ix
             top == IxSpan(PageSpan(n))
             refs == View(flash, job)
  <1>1. /\ Deciding /\ o \in Objs /\ JobShape(job) /\ job.op # "erase" /\ n \in 0 .. MaxSize
        /\ hd \in Pages /\ d \in Pages /\ IsIx(flash, o, 0, hd) /\ IsIx(flash, o, i, d)
        /\ FileOK(flash, View(flash, job), o, n, TopOf(job, o, n)) /\ Loaded(job)
        /\ flash \in Flashes /\ PagesOK(flash, job) /\ NoTwins(flash) /\ Resizing(job, o)
        /\ n % U = 0 /\ i = IxSpan(n \div U)
    BY ZenonT(60) DEF Shrinking
  <1>2. n \in Nat
    BY <1>1, Lengths
  <1>3. i \in Nat /\ top \in Nat /\ i > top /\ i = top + 1
    <2>1. IxSpan(n \div U) # IxSpan(PageSpan(n))
      BY <1>1
    <2>2. IxSpan(n \div U) \in Nat /\ IxSpan(PageSpan(n)) \in Nat
          /\ IxSpan(n \div U) > IxSpan(PageSpan(n))
      BY <1>2, <2>1, IxLater
    <2>3. IxSpan(n \div U) = IxSpan(PageSpan(n)) + 1
      BY <1>2, <2>2, IxAfter
    <2> QED BY <1>1, <2>2, <2>3
  <1>4. TopOf(job, o, n) = i
    BY <1>1, <1>3 DEF TopOf
  <1> HIDE DEF top
  <1>5. i # 0 /\ hd # d
    <2>1. i # 0
      BY <1>3
    <2> QED BY <1>1, <2>1 DEF IsIx
  <1>6. /\ DataId(o) # IxId(o) /\ DataId(o) # Deleted /\ IxId(o) # Deleted
    BY <1>1, IdsDistinct
  <1>7. /\ Drops(gl, o, d)
        /\ \A j : (\A x \in Objs, p \in Pages : p # d /\ Marked(job, x, p) => Marked(j, x, p))
                   => PagesOK(gl, j)
    <2>1. flash[d].lu \in ObjIds(o)
      BY <1>1 DEF IsIx, ObjIds
    <2> QED BY <1>1, <2>1, Dropped
  <1>8. /\ gl \in Flashes /\ gl[d].lu = Deleted /\ (\A q \in Pages : q # d => gl[q] = flash[q])
        /\ NoTwins(gl) /\ OnlyPagesOf(flash, gl, o)
    BY <1>7 DEF Drops
  <1>9. DataSame(flash, gl, o)
    <2>1. flash[d].lu # DataId(o) /\ gl[d].lu # DataId(o)
      BY <1>1, <1>6, <1>8 DEF IsIx
    <2> QED BY <1>8, <2>1 DEF DataSame
  <1>10. IsIx(gl, o, 0, hd) /\ gl[hd] = flash[hd]
    BY <1>1, <1>5, <1>8 DEF IsIx
  <1>11. \A q \in Pages : (flash[q].lu = IxId(o) \/ gl[q].lu = IxId(o)) /\ q # d =>
            gl[q] = flash[q] /\ flash[q].span # i /\ gl[q].span # i
    <2>1. SUFFICES ASSUME NEW q \in Pages, flash[q].lu = IxId(o) \/ gl[q].lu = IxId(o), q # d
                   PROVE  gl[q] = flash[q] /\ flash[q].span # i
      BY <1>8
    <2>2. gl[q] = flash[q] /\ flash[q].lu = IxId(o)
      BY <1>8, <2>1
    <2>3. ~IsIx(flash, o, i, q)
      BY <1>1, <2>1, OneIx
    <2> QED BY <2>2, <2>3 DEF IsIx
  <1>12. FileOK(gl, Plain(gl), o, n, top)
    <2>1. IxSameBut(flash, gl, refs, Plain(gl), o, i)
      <3>1. SUFFICES ASSUME NEW q \in Pages,
                            (flash[q].lu = IxId(o) /\ flash[q].span # i)
                              \/ (gl[q].lu = IxId(o) /\ gl[q].span # i)
                     PROVE  gl[q].lu = flash[q].lu /\ gl[q].span = flash[q].span
                            /\ Plain(gl)[q] = refs[q]
        BY DEF IxSameBut
      <3>2. q # d
        BY <1>1, <1>6, <1>8, <3>1 DEF IsIx
      <3>3. gl[q] = flash[q]
        BY <1>8, <3>2
      <3>4. refs[q] = flash[q].cells
        BY <3>2 DEF View
      <3> QED BY <3>3, <3>4 DEF Plain
    <2>2. SpanHeld(flash, gl, Plain(gl), o, n, i, top)
      <3>1. \A q \in Pages : ~IsIx(gl, o, i, q)
        BY <1>6, <1>8, <1>11 DEF IsIx
      <3>2. ~(i <= top)
        BY <1>3
      <3> QED BY <3>1, <3>2 DEF SpanHeld
    <2>3. TopMoves(i, i, top)
      BY <1>3 DEF TopMoves
    <2>4. SpansTyped(flash, o)
      BY <1>1, PagesTyped
    <2>5. FileOK(flash, refs, o, n, i)
      BY <1>1, <1>4
    <2>6. top \in Int
      BY <1>3
    <2> HIDE DEF refs
    <2> QED BY <1>1, <1>3, <1>9, <2>1, <2>2, <2>3, <2>4, <2>5, <2>6, FileSpan
  <1>13. ASSUME NEW k, \A x \in Objs, p \in Pages : Marked(job, x, p) => Marked(k, x, p)
         PROVE  PagesOK(gl, k)
    BY <1>7, <1>13
  <1>14. IxGone(gl, o, n, hd)
    BY <1>5, <1>8, <1>9, <1>10, <1>12 DEF IxGone, top
  <1> QED BY <1>13, <1>14

\* The locals when no index page is loaded any more.
LEMMA Forgotten ==
  ASSUME Shrinking, NEW k, NEW hd \in Pages, k = [job EXCEPT !.ix = NoIx, !.hdr = hd],
         NEW gl, IsIx(gl, job.o, 0, hd),
         FileOK(gl, Plain(gl), job.o, job.pos, IxSpan(PageSpan(job.pos)))
  PROVE  /\ JobShape(k) /\ Filling(k, calls) /\ CallOK(gl, k) /\ ThereOK(gl, k, want, job.o)
         /\ k.op = job.op /\ k.o = job.o /\ k.hdr = hd
         /\ \A x \in Objs : x # job.o => ~About(k, x)
  <1> DEFINE o == job.o
             n == job.pos
  <1>1. /\ job \in CallShape /\ job.op \in {"truncate", "remove"} /\ job.op \in Writers
        /\ o \in Objs /\ n \in 0 .. MaxSize /\ job.begin \in Nat /\ n <= job.begin
        /\ job.new = (IF job.op = "remove" THEN Absent ELSE <<>>)
    BY ZenonT(60) DEF Shrinking
  <1>2. /\ k \in CallShape /\ k.op = job.op /\ k.o = o /\ k.hdr = hd /\ k.begin = job.begin
        /\ k.pos = n /\ k.ix = NoIx /\ k.new = job.new
    BY <1>1 DEF CallShape
  <1>3. JobShape(k) /\ k.op \in Writers /\ k.op # "modify"
    BY <1>1, <1>2 DEF JobShape
  <1>4. /\ (\A x \in Objs : x # o => ~About(k, x)) /\ Resizing(k, o) /\ ~Loaded(k)
    BY <1>2, <1>3, CallIs
  <1>5. Filling(k, calls)
    BY <1>1, <1>2 DEF Filling
  <1>6. CallOK(gl, k)
    <2>1. NoIx # 0
      BY DEF NoIx
    <2>2. TruncateOK(gl, k)
      BY <1>1, <1>2, <2>1 DEF TruncateOK
    <2> QED BY <1>1, <1>2, <1>4, <2>2 DEF CallOK, AppendOK, ModifyOK, EraseOK, LoadedOK
  <1>7. ThereOK(gl, k, want, o)
    <2>1. View(gl, k) = Plain(gl) /\ TopOf(k, o, n) = IxSpan(PageSpan(n))
      BY <1>4, PlainView, PlainTop DEF Plain
    <2>2. HoldsText(gl, k, want, o, n)
      BY <1>1, <1>2, TextForms
    <2>3. n = UnitsOf(gl, k, hd, o)
      BY <1>2, <1>4 DEF UnitsOf
    <2>4. Whole(gl, k, want, o, hd, n)
      BY <1>1, <2>1, <2>2, <2>3 DEF Whole
    <2> QED BY <1>1, <2>4, ThereWhole
  <1> QED BY <1>2, <1>3, <1>4, <1>5, <1>6, <1>7

LEMMA TruncateIxSound ==
  ASSUME FlashSound, TruncateIx
  PROVE  FlashSound'
  <1> DEFINE o == job.o
             k == job'
             n == job.pos
             hd == job.hdr
             d == job.ixp
             hl == Put(flash, d, Dead(flash[d]))
  <1>1. /\ Truncating /\ n > 0 /\ job.ix # NoIx /\ job.ix # IxSpan(PageSpan(n))
        /\ UNCHANGED <<flash, want, calls>>
    BY DEF TruncateIx, Keep, LastIx
  <1>2. Shrinking
    BY <1>1, ShrinkingIs
  <1>3. /\ Deciding /\ o \in Objs /\ job \in CallShape /\ job.op \in {"truncate", "remove"}
        /\ JobShape(job) /\ job.op # "erase" /\ n \in 0 .. MaxSize /\ job.op \in Writers
        /\ hd \in Pages /\ d \in Pages /\ flash \in Flashes
        /\ PagesOK(flash, job)
        /\ \A x \in Objs : x # o => ~About(job, x)
    BY <1>2, ZenonT(60) DEF Shrinking
  <1> HIDE DEF hl
  <1>4. /\ IxGone(hl, o, n, hd)
        /\ \A j : (\A x \in Objs, p \in Pages : Marked(job, x, p) => Marked(j, x, p))
                    => PagesOK(hl, j)
    BY <1>1, <1>2, IxDropped DEF hl
  <1>5. /\ hl \in Flashes /\ NoTwins(hl) /\ OnlyPagesOf(flash, hl, o)
        /\ IsIx(hl, o, 0, hd) /\ hl[hd] = flash[hd] /\ hd # d
        /\ (\A q \in Pages : q # d => hl[q] = flash[q])
        /\ FileOK(hl, Plain(hl), o, n, IxSpan(PageSpan(n)))
    BY <1>4 DEF IxGone
  <1>6. \A p, id : Leads(flash, Delete(d), hl, p, id)
    BY <1>3, LeadsDelete DEF hl
  <1>7. IxId(o) # Garbled /\ IxId(o) \in Ids /\ NoIx \notin Pages /\ IxId(o) # Blank
    BY <1>3, Lengths, IdsDistinct
  <1>8. CASE /\ job.op = "remove" /\ todo' = Delete(d) /\ k = [job EXCEPT !.ix = NoIx]
             /\ UNCHANGED cursor
    <2>1. k = [job EXCEPT !.ix = NoIx, !.hdr = hd]
      BY <1>3, <1>8 DEF CallShape
    <2> HIDE DEF k
    <2>2. /\ JobShape(k) /\ Filling(k, calls) /\ CallOK(hl, k) /\ ThereOK(hl, k, want, o)
          /\ k.op = job.op /\ k.o = o /\ k.hdr = hd /\ (\A x \in Objs : x # o => ~About(k, x))
      BY <1>2, <1>3, <1>5, <2>1, Forgotten
    <2>3. PagesOK(hl, k)
      <3>1. \A x \in Objs, p \in Pages : Marked(job, x, p) => Marked(k, x, p)
        BY <2>2 DEF Marked
      <3> QED BY <1>4, <3>1
    <2>4. cursor' \in 0 .. (B * N)
      BY <1>3, <1>8, Typed DEF Deciding
    <2>5. Leads(flash, todo', hl, NoIx, IxId(o))
      BY <1>6, <1>8
    <2> HIDE DEF o
    <2> QED BY <1>1, <1>3, <1>5, <1>7, <2>2, <2>3, <2>4, <2>5, Stepped DEF k
  <1>9. ASSUME job.op = "truncate", NEW p \in Pages, Take(p),
               todo' = Delete(d) \o Move(hd, p, HdrImage(n)),
               k = [job EXCEPT !.ix = NoIx, !.hdr = p]
        PROVE  FlashSound'
    <2> DEFINE x == Resized(flash[hd], n, flash[hd].cells)
               gl == Put(Put(hl, p, x), hd, Dead(hl[hd]))
               top == IxSpan(PageSpan(n))
    <2>1. Unmarked(job) /\ Unmarked(Idle)
      BY <1>3, <1>9, CallIs, IdleShape DEF Unmarked, Marked
    <2>2. flash[p] = BlankPage /\ flash[p].lu = Blank /\ cursor' \in 0 .. (B * N)
      BY <1>3, <1>9, Taken
    <2>3. n \in Values /\ n \in 1 .. MaxSize /\ top \in Nat
      <3>1. n \in Nat
        BY <1>3, Lengths
      <3> QED BY <1>1, <1>3, <3>1, Lengths, IxSpansOf DEF Values
    <2> HIDE DEF top
    <2>4. flash[hd] \in PageType /\ flash[hd].cells \in [Cells -> Values] /\ flash[hd].lu = IxId(o)
      <3>1. flash[hd] \in PageType
        BY <1>3 DEF Flashes
      <3> QED BY <1>5, <3>1, PageParts DEF IsIx
    <2>5. Clean(flash[hd].cells)
      BY <1>3, <2>4, IxPage DEF Legible, Clean
    <2>6. HdrImage(n) = x
      BY <2>3, <2>4, ImageForms DEF HdrImage
    <2>7. PagesOK(hl, Idle)
      <3>1. \A y \in Objs, q \in Pages : ~Marked(job, y, q)
        BY <2>1 DEF Unmarked
      <3> QED BY <1>4, <3>1
    <2>8. p # hd /\ p # d /\ hl[p] = BlankPage
      <3>1. p # d
        <4>1. IsIx(flash, o, job.ix, d)
          BY <1>1, <1>2, ZenonT(60) DEF Shrinking
        <4> QED BY <1>7, <2>2, <4>1 DEF IsIx
      <3> QED BY <1>5, <1>7, <2>2, <2>4, <3>1
    <2> HIDE DEF x
    <2>9. x = Resized(hl[hd], n, flash[hd].cells)
      BY <1>5 DEF x
    <2>10. IxImageIs(hl, o, 0, hd, n, flash[hd].cells, x)
      BY <1>3, <1>5, <2>1, <2>3, <2>4, <2>5, <2>7, <2>9, IxImages
    <2>11. /\ x \in PageType /\ x.lu = IxId(o) /\ x.id = IxId(o) /\ x.span = 0 /\ x.size = n
           /\ x.cells = flash[hd].cells /\ Legible(x) /\ IxPageOK(x, FALSE)
           /\ {"final", "used"} \subseteq x.flags
      BY <2>10 DEF IxImageIs
    <2>12. Leads(hl, Move(hd, p, x), gl, p, IxId(o))
      BY <1>3, <1>5, <1>7, <2>8, <2>11, LeadsMove
    <2>13. MoveReady(hl, gl, Idle, Idle, o, 0, hd, p, x)
      <3>1. IxMove(hl, gl, o, 0, hd, p, x)
        BY <1>3, <1>5, <2>8 DEF IxMove
      <3>2. IxImageOK(gl, Idle, o, 0, p, x)
        BY <2>11 DEF IxImageOK, IxPageOK
      <3> QED BY <1>5, <2>1, <2>7, <3>1, <3>2 DEF MoveReady
    <2> HIDE DEF gl
    <2>14. MoveDone(hl, gl, Idle, o, 0, hd, p, x)
      BY <1>3, <2>13, MovedIx
    <2>15. /\ gl \in Flashes /\ IsIx(gl, o, 0, p) /\ PagesOK(gl, Idle) /\ NoTwins(gl)
           /\ OnlyPagesOf(hl, gl, o)
      BY <2>14 DEF MoveDone
    <2>16. FileOK(gl, Plain(gl), o, n, top)
      <3>1. \A r \in Pages : hl[r].lu = IxId(o) /\ r # hd => Plain(hl)[r] = hl[r].cells
        BY DEF Plain
      <3>2. x.cells = Plain(hl)[hd] /\ 0 \in Nat
        BY <1>3, <1>5, <2>11 DEF Plain
      <3>3. FileOK(hl, Plain(hl), o, n, top)
        BY <1>5 DEF top
      <3> QED BY <1>3, <2>3, <2>13, <3>1, <3>2, <3>3, StoredFile
    <2>17. OnlyPagesOf(flash, gl, o)
      BY <1>5, <2>15, OnlyTwice
    <2>18. Leads(flash, todo', gl, p, IxId(o))
      <3>1. Leads(flash, Delete(d), hl, p, IxId(o))
        BY <1>6
      <3> QED BY <1>9, <2>6, <2>12, <3>1, LeadsThen
    <2> HIDE DEF k
    <2>19. /\ JobShape(k) /\ Filling(k, calls) /\ CallOK(gl, k) /\ ThereOK(gl, k, want, o)
           /\ k.op = job.op /\ k.o = o /\ (\A y \in Objs : y # o => ~About(k, y))
      BY <1>2, <1>9, <2>15, <2>16, Forgotten DEF top
    <2>20. PagesOK(gl, k)
      <3>1. Idle.op # "erase" /\ \A a, b : ~Marked(Idle, a, b)
        BY IdleShape DEF Marked
      <3> QED BY <2>15, <3>1, PagesSame
    <2> HIDE DEF o
    <2> QED BY <1>1, <1>3, <1>7, <2>2, <2>15, <2>17, <2>18, <2>19, <2>20, Stepped DEF k
  <1>10. \/ /\ job.op = "remove" /\ todo' = Delete(d) /\ k = [job EXCEPT !.ix = NoIx]
            /\ UNCHANGED cursor
         \/ /\ job.op = "truncate"
            /\ \E p \in Pages : /\ Take(p) /\ todo' = Delete(d) \o Move(hd, p, HdrImage(n))
                                /\ k = [job EXCEPT !.ix = NoIx, !.hdr = p]
    BY ZenonT(60) DEF TruncateIx
  <1> QED BY <1>8, <1>9, <1>10

\* Nothing is left of the file but its header.
Emptied ==
    /\ Shrinking /\ job.pos = 0 /\ \A p \in Pages : flash[p].lu # DataId(job.o)
    /\ \A q \in Pages : flash[q].lu = IxId(job.o) => q = job.hdr
LEMMA EmptiedIs ==
  ASSUME Shrinking, job.pos = 0
  PROVE  Emptied
  <1> DEFINE o == job.o
             top == TopOf(job, o, 0)
  <1>1. /\ Deciding /\ o \in Objs /\ PagesOK(flash, job) /\ NoTwins(flash) /\ job.hdr \in Pages
        /\ IsIx(flash, o, 0, job.hdr) /\ FileOK(flash, View(flash, job), o, 0, top)
        /\ job.ix \in Nat \cup {NoIx}
        /\ job.ix # NoIx => \/ job.ix = IxSpan(PageSpan(0))
                            \/ job.ix = IxSpan(0 \div U)
    BY ZenonT(60) DEF Shrinking
  <1>2. PageSpan(0) = -1 /\ IxSpan(-1) = 0 /\ IxSpan(0 \div U) = 0
    <2>1. 0 \div U = 0
      BY Lengths
    <2> QED BY <2>1, SpanOfNone, IxSpanType, Lengths
  <1>3. top = 0
    <2>1. Loaded(job) => job.ix = 0
      BY <1>1, <1>2 DEF Loaded
    <2> QED BY <1>2, <2>1 DEF TopOf
  <1>4. ASSUME NEW p \in Pages, flash[p].lu = DataId(o)
        PROVE  FALSE
    <2>1. flash[p].span <= PageSpan(0)
      BY <1>1, <1>4 DEF FileOK, DataEnds
    <2>2. flash[p].span \in Nat
      BY <1>1, <1>4, DataPage
    <2> QED BY <1>2, <2>1, <2>2
  <1>5. ASSUME NEW q \in Pages, flash[q].lu = IxId(o)
        PROVE  q = job.hdr
    <2>1. flash[q].span <= 0
      BY <1>1, <1>3, <1>5 DEF FileOK, TopMost
    <2>2. flash[q].span \in Nat
      BY <1>1, <1>5, IxPage
    <2>3. IsIx(flash, o, 0, q)
      BY <1>5, <2>1, <2>2 DEF IsIx
    <2> QED BY <1>1, <2>3, OneIx
  <1> QED BY <1>4, <1>5 DEF Emptied

\* A file that is a header without references is a file of no units.
LEMMA EmptyFile ==
  ASSUME NEW gl, NEW o \in Objs, NEW p \in Pages, IsIx(gl, o, 0, p), gl[p].cells = NoCells,
         \A q \in Pages : gl[q].lu # DataId(o), \A q \in Pages : gl[q].lu = IxId(o) => q = p
  PROVE  FileOK(gl, Plain(gl), o, 0, 0)
  <1>1. SpansThere(gl, o, 0) /\ TopMost(gl, o, 0) /\ DataEnds(gl, o, 0)
    BY DEF SpansThere, TopMost, DataEnds, IsIx
  <1>2. ASSUME NEW q \in Pages, NEW s \in Spans, IsIx(gl, o, IxSpan(s), q)
        PROVE  RefOK(gl, o, 0, s, Plain(gl)[q][IxEntry(s)])
    <2>1. q = p
      BY <1>2 DEF IsIx
    <2>2. Plain(gl)[q][IxEntry(s)] = Blank
      BY <2>1, SpansAre DEF NoCells, Plain
    <2>3. ~(s <= PageSpan(0))
      BY SpanOfNone, SpansAre
    <2> QED BY <2>2, <2>3 DEF RefOK
  <1> QED BY <1>1, <1>2 DEF FileOK, RefsOK

LEMMA TruncateStoreSound ==
  ASSUME FlashSound, TruncateStore
  PROVE  FlashSound'
  <1> DEFINE o == job.o
             k == job'
             hd == job.hdr
  <1>1. /\ Truncating /\ job.pos = 0 /\ UNCHANGED <<flash, want, calls>>
        /\ k = [op |-> "return", o |-> o, new |-> job.new]
    BY DEF TruncateStore, Keep, Returning
  <1>2. Shrinking /\ Emptied
    BY <1>1, ShrinkingIs, EmptiedIs
  <1>3. /\ Deciding /\ o \in Objs /\ job \in CallShape /\ job.op \in {"truncate", "remove"}
        /\ JobShape(job) /\ job.op # "erase" /\ job.op \in Writers
        /\ hd \in Pages /\ flash \in Flashes /\ PagesOK(flash, job) /\ NoTwins(flash)
        /\ IsIx(flash, o, 0, hd) /\ job.new = (IF job.op = "remove" THEN Absent ELSE <<>>)
        /\ job.new \in Contents
        /\ \A x \in Objs : x # o => ~About(job, x)
    BY <1>2, ZenonT(60) DEF Shrinking
  <1>4. /\ \A q \in Pages : flash[q].lu # DataId(o)
        /\ \A q \in Pages : flash[q].lu = IxId(o) => q = hd
    BY <1>2 DEF Emptied
  <1> HIDE DEF k
  <1>5. k \in ReturnShape /\ k.op = "return" /\ k.o = o /\ k.new = job.new
    BY <1>1, <1>3, CallReturned
  <1>6. /\ JobShape(k) /\ (\A x \in Objs : x # o => ~About(k, x)) /\ k.op # "erase"
        /\ ~Resizing(k, o) /\ ~Loaded(k) /\ Filling(k, calls) /\ (\A fl : CallOK(fl, k))
    BY <1>5, ReturnIs
  <1>7. IxId(o) # Garbled /\ IxId(o) \in Ids /\ NoIx \notin Pages /\ IxId(o) # Blank
        /\ Deleted # IxId(o) /\ Deleted # DataId(o)
    BY <1>3, Lengths, IdsDistinct
  <1>8. CASE job.op = "remove" /\ todo' = Delete(hd) /\ UNCHANGED cursor
    <2> DEFINE gl == Put(flash, hd, Dead(flash[hd]))
    <2>1. Leads(flash, Delete(hd), gl, NoIx, IxId(o))
      BY <1>3, LeadsDelete
    <2>2. flash[hd].lu \in ObjIds(o)
      BY <1>3 DEF IsIx, ObjIds
    <2>3. /\ Drops(gl, o, hd)
          /\ \A j : (\A x \in Objs, p \in Pages : p # hd /\ Marked(job, x, p) => Marked(j, x, p))
                     => PagesOK(gl, j)
      BY <1>3, <2>2, Dropped
    <2> HIDE DEF gl
    <2>4. PagesOK(gl, k)
      <3>1. \A x \in Objs, p \in Pages : p # hd /\ Marked(job, x, p) => Marked(k, x, p)
        BY DEF Marked
      <3> QED BY <2>3, <3>1
    <2>5. /\ gl \in Flashes /\ gl[hd].lu = Deleted /\ (\A q \in Pages : q # hd => gl[q] = flash[q])
          /\ NoTwins(gl) /\ OnlyPagesOf(flash, gl, o)
      BY <2>3 DEF Drops
    <2>6. GoneOK(gl, k, want, o)
      <3>1. NoPages(gl, o)
        BY <1>4, <1>7, <2>5 DEF NoPages
      <3>2. ~Calling(k, o) /\ k.new = Absent /\ Returned(k, o)
        BY <1>3, <1>5, <1>8 DEF Calling, Returned, Writers
      <3> QED BY <3>1, <3>2 DEF GoneOK
    <2>7. cursor' \in 0 .. (B * N)
      BY <1>3, <1>8, Typed DEF Deciding
    <2>8. Leads(flash, todo', gl, NoIx, IxId(o))
      BY <1>8, <2>1
    <2> HIDE DEF o
    <2> QED BY <1>1, <1>3, <1>6, <1>7, <2>4, <2>5, <2>6, <2>7, <2>8, Stepped DEF k
  <1>9. ASSUME job.op = "truncate", NEW p \in Pages, Take(p),
               todo' = Move(hd, p, [HdrImage(Blank) EXCEPT !.cells = NoCells])
        PROVE  FlashSound'
    <2> DEFINE x == Resized(flash[hd], Blank, NoCells)
               gl == Put(Put(flash, p, x), hd, Dead(flash[hd]))
    <2>1. Unmarked(job)
      BY <1>3, <1>9, CallIs DEF Unmarked, Marked
    <2>2. flash[p] = BlankPage /\ flash[p].lu = Blank /\ cursor' \in 0 .. (B * N)
      BY <1>3, <1>9, Taken
    <2>3. flash[hd] \in PageType /\ flash[hd].lu = IxId(o)
      BY <1>3 DEF IsIx, Flashes
    <2>4. Blank \in Values /\ NoCells \in [Cells -> Values] /\ Clean(NoCells)
      BY BlankPageType, ValuesAssumption DEF Values, Clean, NoCells
    <2>5. [HdrImage(Blank) EXCEPT !.cells = NoCells] = x
      <3> DEFINE y == flash[hd]
      <3>1. y \in PageType
        BY <2>3
      <3>2. HdrImage(Blank) = [y EXCEPT !.size = Blank]
        BY DEF HdrImage
      <3> HIDE DEF y
      <3>3. [[y EXCEPT !.size = Blank] EXCEPT !.cells = NoCells] = Resized(y, Blank, NoCells)
        BY <2>4, <3>1 DEF PageType, Resized
      <3> QED BY <3>2, <3>3 DEF x, y
    <2>6. p # hd
      BY <1>7, <2>2, <2>3
    <2> HIDE DEF x
    <2>7. x = Resized(flash[hd], Blank, NoCells)
      BY DEF x
    <2>8. IxImageIs(flash, o, 0, hd, Blank, NoCells, x)
      BY <1>3, <2>1, <2>4, <2>7, IxImages
    <2>9. /\ x \in PageType /\ x.lu = IxId(o) /\ x.id = IxId(o) /\ x.span = 0 /\ x.size = Blank
          /\ x.cells = NoCells /\ Legible(x) /\ IxPageOK(x, FALSE)
          /\ {"final", "used"} \subseteq x.flags
      BY <2>8 DEF IxImageIs
    <2>10. Leads(flash, Move(hd, p, x), gl, p, IxId(o))
      BY <1>3, <1>7, <2>2, <2>6, <2>9, LeadsMove
    <2>11. MoveReady(flash, gl, job, Idle, o, 0, hd, p, x)
      <3>1. IxMove(flash, gl, o, 0, hd, p, x)
        BY <1>3, <2>2, <2>6 DEF IxMove
      <3>2. IxImageOK(gl, Idle, o, 0, p, x)
        BY <2>9 DEF IxImageOK, IxPageOK
      <3> QED BY <1>3, <2>1, <3>1, <3>2 DEF MoveReady
    <2> HIDE DEF gl
    <2>12. MoveDone(flash, gl, Idle, o, 0, hd, p, x)
      BY <1>3, <2>11, MovedIx
    <2>13. /\ gl \in Flashes /\ gl[p] = x /\ DataSame(flash, gl, o) /\ IsIx(gl, o, 0, p)
           /\ \A q \in Pages : gl[q].lu = IxId(o) /\ q # p => q # hd /\ gl[q] = flash[q]
           /\ PagesOK(gl, Idle) /\ NoTwins(gl) /\ OnlyPagesOf(flash, gl, o)
      BY <2>12 DEF MoveDone
    <2>14. FileOK(gl, Plain(gl), o, 0, 0)
      <3>1. \A q \in Pages : gl[q].lu # DataId(o)
        BY <1>4, <2>13 DEF DataSame
      <3>2. \A q \in Pages : gl[q].lu = IxId(o) => q = p
        BY <1>4, <2>13
      <3> QED BY <1>3, <2>9, <2>13, <3>1, <3>2, EmptyFile
    <2>15. StoredAs(gl, o, 0, p)
      <3>1. IxSpan(PageSpan(0)) = 0
        BY SpanOfNone, IxSpanType, Lengths
      <3> QED BY <2>13, <2>14, <3>1 DEF StoredAs
    <2>16. HoldsText(gl, k, want, o, 0)
      <3>1. k.new = <<>>
        BY <1>3, <1>5, <1>9
      <3>2. TextOK(gl, o, 0, k.new, 0, 0)
        BY <1>4, <2>13 DEF TextOK, DataSame
      <3>3. k.new \in Seq(Values) /\ Len(k.new) = 0
        BY <3>1
      <3> QED BY <1>5, <3>2, <3>3, TextForms
    <2>17. 0 = UnitsOf(gl, k, p, o) /\ 0 \in 0 .. MaxSize
      BY <1>6, <2>9, <2>13, Lengths DEF UnitsOf, SizeIn
    <2>18. ThereOK(gl, k, want, o) /\ PagesOK(gl, k)
      BY <1>3, <1>6, <2>15, <2>16, <2>17, StoredThere
    <2>19. Leads(flash, todo', gl, p, IxId(o))
      BY <1>9, <2>5, <2>10
    <2> HIDE DEF o
    <2> QED BY <1>1, <1>3, <1>6, <1>7, <2>2, <2>13, <2>18, <2>19, Stepped DEF k
  <1>10. \/ job.op = "remove" /\ todo' = Delete(hd) /\ UNCHANGED cursor
         \/ /\ job.op = "truncate"
            /\ \E p \in Pages :
                 Take(p) /\ todo' = Move(hd, p, [HdrImage(Blank) EXCEPT !.cells = NoCells])
    BY ZenonT(60) DEF TruncateStore
  <1> QED BY <1>8, <1>9, <1>10

-----------------------------------------------------------------------------
(* The collector *)

\* What is known when the collector looks at its block.
Collecting ==
    /\ Deciding /\ todo = <<>> /\ job.op = "gc" /\ JobShape(job) /\ flash \in Flashes
    /\ PagesOK(flash, job) /\ NoTwins(flash) /\ FilesOK(flash, job, want)
    /\ job.block \in 0 .. (B - 1) /\ UsedIn(job.block) \in SUBSET Pages
    /\ Unmarked(job) /\ ~Loaded(job) /\ CallOK(flash, job)
    /\ \A x : ~About(job, x) /\ ~Calling(job, x) /\ ~Returned(job, x) /\ ~Resizing(job, x)
LEMMA CollectingIs ==
  ASSUME FlashSound, Running("gc")
  PROVE  Collecting
  <1>1. todo = <<>> /\ job.op = "gc"
    BY DEF Running
  <1>2. Deciding
    BY <1>1, DecidingFrom
  <1>3. /\ JobShape(job) /\ flash \in Flashes /\ PagesOK(flash, job) /\ NoTwins(flash)
        /\ FilesOK(flash, job, want) /\ CallOK(flash, job)
    BY <1>2 DEF Deciding
  <1>4. job.block \in 0 .. (B - 1)
    BY <1>1, <1>3, JobKinds
  <1>5. UsedIn(job.block) \in SUBSET Pages
    BY <1>4, BlockIn DEF UsedIn
  <1>6. Unmarked(job) /\ ~Loaded(job) /\ (\A x : ~About(job, x))
    BY <1>1, NoCall DEF Unmarked
  <1>7. \A x : ~Calling(job, x) /\ ~Returned(job, x) /\ ~Resizing(job, x)
    BY <1>6, AboutNot
  <1> QED BY <1>1, <1>2, <1>3, <1>4, <1>5, <1>6, <1>7 DEF Collecting

\* A page in use has an owner, whose file is whole.
LEMMA OwnedFile ==
  ASSUME Collecting, NEW p \in Pages, NEW o \in Objs, flash[p].lu \in ObjIds(o)
  PROVE  \E h \in Pages, n \in 0 .. MaxSize :
           /\ Whole(flash, job, want, o, h, n) /\ n = SizeIn(flash[h]) /\ n \in Nat
           /\ IsIx(flash, o, 0, h) /\ FileOK(flash, Plain(flash), o, n, IxSpan(PageSpan(n)))
           /\ IxSpan(PageSpan(n)) \in Nat
           /\ \E text \in want[o] : /\ want[o] = {text} /\ text \in Seq(Values) /\ Len(text) = n
                                    /\ TextOK(flash, o, n, text, n, n)
  <1>1. /\ FilesOK(flash, job, want) /\ ~Loaded(job) /\ JobShape(job)
        /\ ~Calling(job, o) /\ ~Returned(job, o) /\ ~Resizing(job, o)
    BY DEF Collecting
  <1>2. PICK h \in Pages, n \in 0 .. MaxSize : Whole(flash, job, want, o, h, n)
    BY <1>1, FileThere
  <1>3. View(flash, job) = Plain(flash) /\ TopOf(job, o, n) = IxSpan(PageSpan(n))
    BY <1>1, PlainView, PlainTop DEF Plain
  <1>4. \E text \in want[o] : /\ want[o] = {text} /\ text \in Seq(Values) /\ Len(text) = n
                              /\ TextOK(flash, o, n, text, n, n)
    BY <1>1, <1>2, TextForms DEF Whole
  <1>5. IxSpan(PageSpan(n)) \in Nat
    BY <1>1, TopType
  <1> QED BY <1>1, <1>2, <1>3, <1>4, <1>5, Lengths DEF Whole, UnitsOf

\* The only page the collector can find for data is the one that refers to it.
LEMMA GcFindSound ==
  ASSUME FlashSound, GcFind
  PROVE  FlashSound'
  <1> DEFINE p == Min(DataIn(job.block))
             s == flash[p].span
             i == IxSpan(s)
             k == job'
  <1>1. Running("gc") /\ DataIn(job.block) # {} /\ UNCHANGED <<flash, want, calls, cursor>>
    BY DEF GcFind, Keep
  <1>2. Collecting
    BY <1>1, CollectingIs
  <1>3. /\ Deciding /\ todo = <<>> /\ JobShape(job) /\ job.op = "gc" /\ job.op # "erase"
        /\ PagesOK(flash, job) /\ NoTwins(flash) /\ Unmarked(job) /\ flash \in Flashes
        /\ job.block \in 0 .. (B - 1) /\ UsedIn(job.block) \in SUBSET Pages
        /\ \A x : ~About(job, x)
    BY <1>2 DEF Collecting
  <1>4. p \in Pages /\ p \in DataIn(job.block)
    BY <1>1, <1>3, LeastPage DEF DataIn
  <1>5. PICK o \in Objs : flash[p].lu = DataId(o)
    BY <1>4 DEF DataIn
  <1>6. Owner(p) = o
    <2>1. \A x \in Objs : flash[p].lu \in {DataId(x), IxId(x)} => x = o
      BY <1>5, IdsDistinct
    <2> QED BY <1>5, <2>1 DEF Owner
  <1> HIDE DEF p
  <1>7. PICK h \in Pages, n \in 0 .. MaxSize :
           /\ Whole(flash, job, want, o, h, n) /\ n = SizeIn(flash[h]) /\ n \in Nat
           /\ IsIx(flash, o, 0, h) /\ FileOK(flash, Plain(flash), o, n, IxSpan(PageSpan(n)))
           /\ IxSpan(PageSpan(n)) \in Nat
           /\ \E text \in want[o] : /\ want[o] = {text} /\ text \in Seq(Values) /\ Len(text) = n
                                    /\ TextOK(flash, o, n, text, n, n)
    BY <1>2, <1>4, <1>5, OwnedFile DEF ObjIds
  <1>8. s \in Nat /\ s \in Spans /\ s <= PageSpan(n)
    BY <1>3, <1>4, <1>5, <1>7, DataPage DEF FileOK, DataEnds
  <1> HIDE DEF s
  <1>9. i \in Nat /\ i <= IxSpan(PageSpan(n))
    <2>1. s \in Int /\ s >= -1 /\ PageSpan(n) \in Int
      BY <1>7, <1>8, SpanType
    <2> QED BY <1>8, <2>1, IxSpanMonotone, SpansAre
  <1> HIDE DEF i
  <1>10. PICK q \in Pages : IsIx(flash, o, i, q)
    <2>1. i \in 0 .. IxSpan(PageSpan(n))
      BY <1>7, <1>9
    <2> QED BY <1>7, <2>1 DEF FileOK, SpansThere
  <1>11. IxPagesFor(p) = {q}
    <2>1. Found(IxId(o), i) = {q}
      BY <1>3, <1>9, <1>10, FoundIs DEF Unmarked
    <2> QED BY <1>6, <1>8, <2>1 DEF IxPagesFor, s, i
  <1>12. /\ k = [op |-> "gc move", block |-> job.block, o |-> o, ix |-> i, ixp |-> q,
                 cells |-> flash[q].cells]
         /\ todo' = <<>>
    <2>1. IxPagesFor(p) # {}
      BY <1>11
    <2>2. \/ IxPagesFor(p) = {}
          \/ /\ \E r \in IxPagesFor(p) :
                   k = [op |-> "gc move", block |-> job.block, o |-> Owner(p),
                        ix |-> IxSpan(flash[p].span), ixp |-> r, cells |-> flash[r].cells]
             /\ UNCHANGED todo
      BY ZenonT(60) DEF GcFind, p
    <2> QED BY <1>3, <1>6, <1>11, <2>1, <2>2 DEF i, s
  <1>13. flash[q] \in PageType /\ flash[q].cells \in [Cells -> Values] /\ Clean(flash[q].cells)
    <2>1. flash[q] \in PageType
      BY <1>3 DEF Flashes
    <2>2. Legible(flash[q])
      BY <1>3, <1>10, IxPage DEF IsIx
    <2> QED BY <2>1, <2>2, PageParts DEF Legible, Clean
  <1> HIDE DEF k
  <1>14. /\ k \in MoveShape /\ k.op = "gc move" /\ k.o = o /\ k.ix = i /\ k.ixp = q
         /\ k.cells = flash[q].cells
    BY <1>3, <1>9, <1>12, <1>13 DEF MoveShape
  <1>15. JobShape(k)
    BY <1>14 DEF JobShape
  <1>16. Loaded(k) /\ ~Resizing(k, o) /\ k.op # "erase" /\ ~Calling(k, o) /\ ~Returned(k, o)
         /\ (\A x \in Objs : x # o => ~About(k, x)) /\ Filling(k, calls)
    <2>1. k.ix # NoIx /\ k.op \in Writers \cup {"gc move"} /\ k.op \notin Writers
      <3>1. \A x \in Nat : x # NoIx
        BY DEF NoIx
      <3> QED BY <1>9, <1>14, <3>1 DEF Writers
    <2> QED BY <1>14, <2>1, ZenonT(60) DEF Loaded, Resizing, Resizers, About,
       Calling, Returned, Writers, Filling
  <1>17. CallOK(flash, k)
    <2>1. LoadedOK(flash, k)
      BY <1>10, <1>13, <1>14 DEF LoadedOK
    <2> QED BY <1>14, <2>1 DEF CallOK, AppendOK, ModifyOK, TruncateOK, EraseOK
  <1>18. PagesOK(flash, k)
    BY <1>3, PagesSame DEF Unmarked
  <1>19. ThereOK(flash, k, want, o)
    <2>1. View(flash, k) = Plain(flash)
      BY <1>14, LoadedView DEF Plain
    <2>2. TopOf(k, o, n) = IxSpan(PageSpan(n)) /\ UnitsOf(flash, k, h, o) = n
      BY <1>7, <1>16 DEF TopOf, UnitsOf
    <2>3. HoldsText(flash, k, want, o, n)
      BY <1>7, <1>16, TextForms
    <2>4. Whole(flash, k, want, o, h, n)
      BY <1>7, <2>1, <2>2, <2>3 DEF Whole
    <2> QED BY <1>7, <2>4, ThereWhole
  <1>20. cursor' \in 0 .. (B * N)
    BY <1>1, <1>3, Typed DEF Deciding
  <1>21. \A x \in Objs : x # o => ~About(job, x) /\ ~About(k, x)
    BY <1>3, <1>16
  <1> QED BY <1>1, <1>3, <1>12, <1>15, <1>16, <1>17, <1>18, <1>19, <1>20, <1>21,
             SteppedQuietly DEF k

-----------------------------------------------------------------------------
(* The collector moves an index page *)

\* An index page moves as it is.
LEMMA GcMoveIxSound ==
  ASSUME FlashSound, GcMoveIx
  PROVE  FlashSound'
  <1> DEFINE p == Min(UsedIn(job.block))
             i == flash[p].span
             x == flash[p]
  <1>1. /\ Running("gc") /\ DataIn(job.block) = {} /\ UsedIn(job.block) # {}
        /\ UNCHANGED <<flash, want, calls, job>>
    BY DEF GcMoveIx, Keep
  <1>2. Collecting
    BY <1>1, CollectingIs
  <1>3. /\ Deciding /\ todo = <<>> /\ JobShape(job) /\ job.op = "gc" /\ job.op # "erase"
        /\ PagesOK(flash, job) /\ NoTwins(flash) /\ Unmarked(job) /\ flash \in Flashes
        /\ UsedIn(job.block) \in SUBSET Pages /\ CallOK(flash, job) /\ ~Loaded(job)
        /\ \A y : ~About(job, y) /\ ~Calling(job, y) /\ ~Returned(job, y) /\ ~Resizing(job, y)
    BY <1>2 DEF Collecting
  <1>4. p \in Pages /\ p \in UsedIn(job.block)
    BY <1>1, <1>3, LeastPage
  <1>5. PICK o \in Objs : flash[p].lu = IxId(o)
    <2>1. flash[p].lu \notin {Blank, Deleted} /\ (\A o \in Objs : flash[p].lu # DataId(o))
      BY <1>1, <1>4 DEF UsedIn, DataIn
    <2>2. flash[p].lu # Garbled
      BY <1>3, <1>4 DEF PagesOK, PageOK, Legible
    <2>3. flash[p] \in PageType
      BY <1>3, <1>4 DEF Flashes
    <2>4. flash[p].lu \in Ids
      BY <2>1, <2>2, <2>3, PageParts
    <2> QED BY <2>1, <2>4 DEF Ids
  <1> HIDE DEF p
  <1>6. /\ Legible(x) /\ IxPageOK(x, Marked(job, o, p)) /\ x.id = IxId(o) /\ i \in Nat
        /\ x \in PageType /\ ~Marked(job, o, p)
    <2>1. x \in PageType
      BY <1>3, <1>4 DEF Flashes
    <2> QED BY <1>3, <1>4, <1>5, <2>1, IxPage DEF Unmarked
  <1>7. "dele" \notin x.flags /\ IxPageOK(x, FALSE)
    BY <1>6 DEF IxPageOK
  <1>8. PICK q \in Pages : Take(q) /\ todo' = MoveRaw(p, q, x.lu)
    BY <1>7, ZenonT(60) DEF GcMoveIx, p
  <1>9. flash[q] = BlankPage /\ cursor' \in 0 .. (B * N) /\ flash[q].lu = Blank
    BY <1>3, <1>8, Taken
  <1>10. IxId(o) \in Ids /\ IxId(o) # Garbled /\ IxId(o) # Blank /\ p # q
    BY <1>5, <1>9, IdsDistinct
  <1>11. PICK h \in Pages, n \in 0 .. MaxSize :
           /\ n = SizeIn(flash[h]) /\ IsIx(flash, o, 0, h)
           /\ FileOK(flash, Plain(flash), o, n, IxSpan(PageSpan(n))) /\ IxSpan(PageSpan(n)) \in Nat
           /\ \E text \in want[o] : /\ want[o] = {text} /\ text \in Seq(Values) /\ Len(text) = n
                                    /\ TextOK(flash, o, n, text, n, n)
    BY <1>2, <1>4, <1>5, OwnedFile DEF ObjIds
  <1> DEFINE gl == Put(Put(flash, q, x), p, Dead(flash[p]))
             top == IxSpan(PageSpan(n))
             h1 == IF i = 0 THEN q ELSE h
  <1>12. Leads(flash, todo', gl, q, IxId(o))
    <2>1. Leads(flash, MoveRaw(p, q, flash[p].lu), gl, q, flash[p].lu)
      BY <1>3, <1>4, <1>5, <1>9, <1>10, LeadsMoveRaw
    <2> QED BY <1>5, <1>8, <2>1
  <1>13. MoveReady(flash, gl, job, Idle, o, i, p, q, x)
    <2>1. IxMove(flash, gl, o, i, p, q, x)
      BY <1>4, <1>5, <1>9 DEF IxMove, IsIx
    <2>2. IxImageOK(gl, Idle, o, i, q, x)
      BY <1>5, <1>6, <1>7 DEF IxImageOK, IxPageOK
    <2> QED BY <1>3, <2>1, <2>2 DEF MoveReady
  <1> HIDE DEF gl, x
  <1>14. MoveDone(flash, gl, Idle, o, i, p, q, x)
    <2> HIDE DEF i
    <2> QED BY <1>13, MovedIx
  <1>15. FileOK(gl, Plain(gl), o, n, top)
    <2>1. \A r \in Pages : flash[r].lu = IxId(o) /\ r # p => Plain(flash)[r] = flash[r].cells
      BY DEF Plain
    <2>2. x.cells = Plain(flash)[p]
      BY <1>4 DEF Plain, x
    <2> HIDE DEF i
    <2> QED BY <1>6, <1>11, <1>13, <2>1, <2>2, StoredFile
  <1>16. h1 \in Pages /\ IsIx(gl, o, 0, h1) /\ SizeIn(gl[h1]) = n
    <2>1. /\ IsIx(gl, o, i, q) /\ gl[q] = x
          /\ \A r \in Pages : r # p /\ r # q => gl[r] = flash[r]
      BY <1>14 DEF MoveDone, MovedTo
    <2>2. CASE i = 0
      <3>1. p = h
        BY <1>3, <1>4, <1>5, <1>11, <2>2, OneIx DEF IsIx
      <3> QED BY <1>11, <2>1, <2>2, <3>1 DEF x
    <2>3. CASE i # 0
      <3>1. h # p /\ h # q
        BY <1>9, <1>10, <1>11, <2>3 DEF IsIx
      <3>2. gl[h] = flash[h]
        BY <1>11, <2>1, <3>1
      <3> QED BY <1>11, <2>3, <3>2 DEF IsIx
    <2> QED BY <2>2, <2>3
  <1> HIDE DEF h1
  <1>17. StoredAs(gl, o, n, h1)
    BY <1>14, <1>15, <1>16 DEF StoredAs, MoveDone
  <1>18. DataSame(flash, gl, o) /\ OnlyPagesOf(flash, gl, o) /\ NoTwins(gl)
    BY <1>17 DEF StoredAs
  <1>19. HoldsText(gl, job, want, o, n)
    <2>1. PICK text \in want[o] : /\ want[o] = {text} /\ text \in Seq(Values) /\ Len(text) = n
                                  /\ TextOK(flash, o, n, text, n, n)
      BY <1>11
    <2>2. TextOK(gl, o, n, text, n, n)
      BY <1>18, <2>1, TextSame
    <2> QED BY <1>3, <2>1, <2>2, TextForms
  <1>20. n = UnitsOf(gl, job, h1, o)
    BY <1>3, <1>16 DEF UnitsOf
  <1>21. ThereOK(gl, job, want, o) /\ PagesOK(gl, job)
    BY <1>3, <1>17, <1>19, <1>20, StoredThere
  <1>22. CallOK(gl, job) /\ Filling(job, calls)
    BY <1>3, NoCall
  <1> DEFINE k == job'
  <1>23. /\ ThereOK(gl, k, want, o) /\ PagesOK(gl, k) /\ CallOK(gl, k) /\ Filling(k, calls)
         /\ JobShape(k) /\ \A y \in Objs : y # o => ~About(job, y) /\ ~About(k, y)
    BY <1>1, <1>3, <1>21, <1>22
  <1> HIDE DEF k
  <1> QED BY <1>1, <1>3, <1>9, <1>10, <1>12, <1>18, <1>23, Stepped DEF k

-----------------------------------------------------------------------------
(* The erasure of the block *)

\* Pages that are nobody's become free.
LEMMA EraseStep ==
  ASSUME Deciding, todo = <<>>, UNCHANGED <<cursor, todo, want, calls>>,
         job.op \in {"gc", "erase"}, JobShape(job'), job'.op \in {"erase", "idle"},
         NEW gl \in Flashes, flash' = gl, CallOK(gl, job'), PagesOK(gl, job'),
         \A p \in Pages : gl[p] # flash[p] =>
            flash[p].lu \in {Blank, Deleted} /\ gl[p].lu \in {Blank, Deleted}
  PROVE  FlashSound'
  <1>1. /\ StateTyped /\ JobShape(job) /\ NoTwins(flash) /\ FilesOK(flash, job, want)
        /\ LoadedOK(flash, job)
    BY DEF Deciding
  <1>2. soon' = gl
    <2>1. After(gl, Writes(todo')) = gl
      BY WritesNone, AfterNone
    <2> QED BY <2>1 DEF soon
  <1>3. StateTyped'
    BY <1>1 DEF StateTyped
  <1>4. EntryOnce'
    <2>1. \A p \in Pages : Images(gl, Writes(todo'), p) = {gl[p]}
      BY WritesNone DEF Images, ImagesOf
    <2>2. \A p \in Pages : gl[p].lu # Garbled
      BY DEF PagesOK, PageOK, Legible
    <2> QED BY <2>1, <2>2 DEF EntryOnce
  <1>5. \A v \in {Blank, Deleted} : v \notin Ids
    BY IdsDistinct
  <1>6. NoTwins(gl)
    <2>1. \A p \in Pages : gl[p].lu \in Ids => gl[p].lu = flash[p].lu /\ gl[p].span = flash[p].span
      BY <1>5
    <2> QED BY <1>1, <2>1, ChangedTwins
  <1>7. /\ Filling(job', calls) /\ LoadedOK(gl, job') /\ (\A x : ~About(job', x))
        /\ (\A x : ~About(job, x))
    BY NoCall
  <1>8. FilesOK(gl, job', want)
    <2>1. \A x \in Objs : SamePages(flash, gl, x)
      BY <1>5, IdsDistinct DEF SamePages, ObjIds
    <2> DEFINE k == job'
    <2>2. /\ JobShape(k) /\ LoadedOK(gl, k)
          /\ \A x \in Objs : ~About(job, x) /\ ~About(k, x) /\ SamePages(flash, gl, x)
      BY <1>7, <2>1
    <2> HIDE DEF k
    <2>3. FilesOK(gl, k, want)
      BY <1>1, <2>2, FilesKept
    <2> QED BY <2>3 DEF k
  <1> QED BY <1>2, <1>3, <1>4, <1>6, <1>7, <1>8, SoundNext

LEMMA GcEraseLookupSound ==
  ASSUME FlashSound, GcEraseLookup
  PROVE  FlashSound'
  <1> DEFINE b == job.block
             k == job'
             gl == [p \in Pages |-> IF p \in BlockPages(b) THEN Unlisted(flash[p]) ELSE flash[p]]
  <1>1. /\ Running("gc") /\ UsedIn(b) = {} /\ UNCHANGED <<cursor, todo, want, calls>>
        /\ flash' = gl /\ k = [job EXCEPT !.op = "erase"]
    BY DEF GcEraseLookup, Unlisted
  <1>2. Collecting
    BY <1>1, CollectingIs
  <1>3. /\ Deciding /\ todo = <<>> /\ JobShape(job) /\ job.op = "gc" /\ PagesOK(flash, job)
        /\ flash \in Flashes /\ b \in 0 .. (B - 1)
    BY <1>2 DEF Collecting
  <1>4. job \in GcShape
    BY <1>3, JobKinds
  <1> HIDE DEF k
  <1>5. k \in GcShape /\ k.op = "erase" /\ k.block = b
    BY <1>1, <1>4 DEF GcShape
  <1>6. JobShape(k)
    BY <1>5 DEF JobShape
  <1>7. ASSUME NEW p \in Pages
        PROVE  /\ gl[p] \in PageType
               /\ p \in BlockPages(b) => /\ flash[p].lu \in {Blank, Deleted} /\ gl[p].lu = Blank
                                         /\ Legible(flash[p]) => Legible(gl[p])
               /\ p \notin BlockPages(b) => gl[p] = flash[p]
    <2>1. flash[p] \in PageType
      BY <1>3 DEF Flashes
    <2>2. p \in BlockPages(b) => flash[p].lu \in {Blank, Deleted}
      BY <1>1 DEF UsedIn
    <2> DEFINE x == flash[p]
               y == Unlisted(x)
    <2>3. y \in PageType /\ y.lu = Blank
      BY <2>1, PageWrite DEF Unlisted
    <2>4. y.id = x.id /\ y.span = x.span /\ y.size = x.size /\ y.cells = x.cells
      <3>1. x \in PageType
        BY <2>1
      <3> HIDE DEF x
      <3> QED BY <3>1 DEF PageType, Unlisted
    <2>5. Legible(x) => Legible(y)
      <3> HIDE DEF x, y
      <3> QED BY <2>3, <2>4, ValuesAssumption DEF Legible
    <2>6. gl[p] = IF p \in BlockPages(b) THEN y ELSE x
      OBVIOUS
    <2> HIDE DEF y, gl
    <2> QED BY <2>1, <2>2, <2>3, <2>5, <2>6
  <1>8. gl \in Flashes
    BY <1>7 DEF Flashes
  <1> HIDE DEF gl
  <1>9. CallOK(gl, k)
    BY <1>5, <1>7, BlockIn, <1>3, NoCall DEF CallOK, AppendOK, ModifyOK, TruncateOK, EraseOK,
      Writers
  <1>10. PagesOK(gl, k)
    <2>1. SUFFICES ASSUME NEW p \in Pages PROVE PageOK(gl, k, p)
      BY DEF PagesOK
    <2>2. PageOK(flash, job, p)
      BY <1>3 DEF PagesOK
    <2>3. CASE p \in BlockPages(b)
      <3>1. Legible(gl[p]) /\ gl[p].lu = Blank
        BY <1>7, <2>2, <2>3 DEF PageOK
      <3>2. Erasing(k, p)
        BY <1>5, <2>3 DEF Erasing
      <3> QED BY <3>1, <3>2, IdsDistinct DEF PageOK
    <2>4. CASE p \notin BlockPages(b)
      <3>1. ~Erasing(job, p) /\ \A x \in Objs : ~Marked(job, x, p)
        BY <1>3 DEF Erasing, Marked
      <3> QED BY <1>7, <2>2, <2>4, <3>1, PageKept
    <2> QED BY <2>3, <2>4
  <1>11. \A p \in Pages : gl[p] # flash[p] =>
            flash[p].lu \in {Blank, Deleted} /\ gl[p].lu \in {Blank, Deleted}
    BY <1>7
  <1> QED BY <1>1, <1>3, <1>5, <1>6, <1>8, <1>9, <1>10, <1>11, EraseStep DEF k

LEMMA GcErasePagesSound ==
  ASSUME FlashSound, GcErasePages
  PROVE  FlashSound'
  <1> DEFINE b == job.block
             gl == [p \in Pages |-> IF p \in BlockPages(b) THEN BlankPage ELSE flash[p]]
  <1>1. /\ todo = <<>> /\ job.op = "erase" /\ UNCHANGED <<cursor, todo, want, calls>>
        /\ flash' = gl /\ job' = Idle
    BY DEF GcErasePages, Running
  <1>2. Deciding
    BY <1>1, DecidingFrom
  <1>3. /\ JobShape(job) /\ PagesOK(flash, job) /\ flash \in Flashes /\ EraseOK(flash, job)
    BY <1>2 DEF Deciding, CallOK
  <1>4. \A p \in BlockPages(b) : flash[p].lu = Blank
    BY <1>1, <1>3 DEF EraseOK
  <1>5. \A p \in Pages : /\ p \in BlockPages(b) => gl[p] = BlankPage
                         /\ p \notin BlockPages(b) => gl[p] = flash[p]
    OBVIOUS
  <1>6. gl \in Flashes
    BY <1>3, BlankPageType DEF Flashes
  <1> HIDE DEF gl
  <1>7. JobShape(Idle) /\ Idle.op = "idle"
    BY IdleShape
  <1>8. CallOK(gl, Idle)
    BY <1>7, NoCall
  <1>9. PagesOK(gl, Idle)
    <2>1. SUFFICES ASSUME NEW p \in Pages PROVE PageOK(gl, Idle, p)
      BY DEF PagesOK
    <2>2. PageOK(flash, job, p)
      BY <1>3 DEF PagesOK
    <2>3. CASE p \in BlockPages(b)
      <3>1. gl[p] = BlankPage
        BY <1>5, <2>3
      <3>2. Legible(BlankPage) /\ BlankPage.lu = Blank
        BY Blanks, ValuesAssumption DEF Legible, NoCells
      <3> QED BY <3>1, <3>2, IdsDistinct DEF PageOK
    <2>4. CASE p \notin BlockPages(b)
      <3>1. ~Erasing(job, p) /\ \A x \in Objs : ~Marked(job, x, p)
        BY <1>1, <2>4 DEF Erasing, Marked
      <3> QED BY <1>5, <2>2, <2>4, <3>1, PageKept
    <2> QED BY <2>3, <2>4
  <1>10. \A p \in Pages : gl[p] # flash[p] =>
            flash[p].lu \in {Blank, Deleted} /\ gl[p].lu \in {Blank, Deleted}
    BY <1>4, <1>5, Blanks
  <1> QED BY <1>1, <1>2, <1>6, <1>7, <1>8, <1>9, <1>10, EraseStep

LEMMA NextSound ==
  ASSUME FlashSound, [Next]_vars
  PROVE  FlashSound'
  <1>1. CASE BeginCall
    <2>1. CASE \E o \in Objs : Create(o)
      BY <2>1, CreateSound
    <2>2. CASE \E o \in Objs, k \in 1 .. MaxWrite : BeginAppend(o, k)
      BY <2>2, BeginAppendSound
    <2>3. CASE \E o \in Objs, k \in 1 .. MaxWrite, n \in 0 .. MaxSize : BeginModify(o, n, k)
      BY <2>3, BeginModifySound
    <2>4. CASE \E o \in Objs, op \in {"truncate", "remove"} : BeginTruncate(o, op)
      BY <2>4, BeginTruncateSound, BeginRemoveSound
    <2>5. CASE \E b \in 0 .. (B - 1) : BeginGc(b)
      BY <2>5, BeginGcSound
    <2> QED BY <1>1, <2>1, <2>2, <2>3, <2>4, <2>5 DEF BeginCall
  <1>2. CASE CallStep
    <2>1. CASE Write \/ Return
      BY <2>1, WriteSound, ReturnSound
    <2>2. CASE AppendLoad \/ AppendData \/ AppendStore
      BY <2>2, AppendLoadSound, AppendDataSound, AppendStoreSound
    <2>3. CASE ModifyLoad \/ ModifyData \/ ModifyStore
      BY <2>3, ModifyLoadSound, ModifyDataSound, ModifyStoreSound
    <2>4. CASE TruncateLoad \/ TruncateIx \/ TruncateData \/ TruncateStore
      BY <2>4, TruncateLoadSound, TruncateIxSound, TruncateDataSound, TruncateStoreSound
    <2>5. CASE GcFind \/ GcMoveData \/ GcStore \/ GcMoveIx
      BY <2>5, GcFindSound, GcMoveDataSound, GcStoreSound, GcMoveIxSound
    <2>6. CASE GcEraseLookup \/ GcErasePages
      BY <2>6, GcEraseLookupSound, GcErasePagesSound
    <2> QED BY <1>2, <2>1, <2>2, <2>3, <2>4, <2>5, <2>6 DEF CallStep
  <1>3. CASE UNCHANGED vars
    <2>1. UNCHANGED <<flash, cursor, todo, job, want, calls>>
      BY <1>3 DEF vars
    <2>2. soon' = soon
      BY <2>1 DEF soon
    <2>3. EntryOnce'
      <3>1. EntryOnce
        BY DEF FlashSound
      <3> QED BY <2>1, <3>1 DEF EntryOnce
    <2>4. /\ StateTyped /\ JobShape(job) /\ Filling(job, calls) /\ CallOK(soon, job)
          /\ PagesOK(soon, job) /\ NoTwins(soon) /\ FilesOK(soon, job, want)
      BY SoundParts
    <2>5. StateTyped'
      BY <2>1, <2>4 DEF StateTyped
    <2>6. /\ JobShape(job') /\ Filling(job', calls') /\ CallOK(soon', job')
          /\ PagesOK(soon', job') /\ NoTwins(soon') /\ FilesOK(soon', job', want')
      BY <2>1, <2>2, <2>4
    <2> QED BY <2>3, <2>5, <2>6, SoundNext
  <1> QED BY <1>1, <1>2, <1>3 DEF Next

\* What is written is whole: at any moment, once the writes that are decided on are made,
\* every file is as the call that is running left it so far, or as its last call did.
THEOREM FlashSoundAlways == Spec => []FlashSound
  <1>1. Init => FlashSound
    BY InitSound
  <1>2. FlashSound /\ [Next]_vars => FlashSound'
    BY NextSound
  <1> QED BY <1>1, <1>2, PTL DEF Spec

-----------------------------------------------------------------------------
(* What follows from it *)

LEMMA GarbledStays ==
  ASSUME NEW A, Garbled \in A
  PROVE  Joined(A) = Garbled
  <1>1. Garbled # Blank
    BY ValuesAssumption
  <1>2. CASE A \subseteq {Blank, Garbled}
    BY <1>1, <1>2, JoinedValue
  <1>3. CASE ~(A \subseteq {Blank, Garbled})
    <2>1. PICK u \in A : u # Blank /\ u # Garbled
      BY <1>3
    <2> QED BY <1>1, <2>1, JoinedGarbled
  <1> QED BY <1>2, <1>3

\* A write does not make legible what was not.
LEMMA LegibleNow ==
  ASSUME FlashSound
  PROVE  NoOverwrite
  <1>1. PagesOK(soon, job) /\ EntryOnce
    BY SoundParts
  <1>2. SUFFICES ASSUME NEW p \in Pages PROVE Legible(flash[p])
    BY DEF NoOverwrite
  <1> DEFINE x == flash[p]
             A == Images(flash, Writes(todo), p)
             y == JoinedPage(A)
  <1>3. x \in A /\ x.lu # Garbled
    BY <1>1 DEF EntryOnce, Images
  <1>4. Legible(y)
    BY <1>1 DEF PagesOK, PageOK, soon, After
  <1> HIDE DEF x, A
  <1>5. /\ y.id = Joined({z.id : z \in A}) /\ y.span = Joined({z.span : z \in A})
        /\ y.size = Joined({z.size : z \in A})
        /\ \A c \in Cells : y.cells[c] = Joined({z.cells[c] : z \in A})
    BY DEF JoinedPage
  <1> HIDE DEF y
  <1>6. x.id # Garbled
    <2>1. SUFFICES ASSUME x.id = Garbled PROVE FALSE
      OBVIOUS
    <2>2. Garbled \in {z.id : z \in A}
      BY <1>3, <2>1
    <2> QED BY <1>4, <1>5, <2>2, GarbledStays DEF Legible
  <1>7. x.span # Garbled
    <2>1. SUFFICES ASSUME x.span = Garbled PROVE FALSE
      OBVIOUS
    <2>2. Garbled \in {z.span : z \in A}
      BY <1>3, <2>1
    <2> QED BY <1>4, <1>5, <2>2, GarbledStays DEF Legible
  <1>8. x.size # Garbled
    <2>1. SUFFICES ASSUME x.size = Garbled PROVE FALSE
      OBVIOUS
    <2>2. Garbled \in {z.size : z \in A}
      BY <1>3, <2>1
    <2> QED BY <1>4, <1>5, <2>2, GarbledStays DEF Legible
  <1>9. ASSUME NEW c \in Cells
        PROVE  x.cells[c] # Garbled
    <2>1. SUFFICES ASSUME x.cells[c] = Garbled PROVE FALSE
      OBVIOUS
    <2>2. Garbled \in {z.cells[c] : z \in A}
      BY <1>3, <2>1
    <2> QED BY <1>4, <1>5, <2>2, GarbledStays DEF Legible
  <1> QED BY <1>3, <1>6, <1>7, <1>8, <1>9 DEF Legible, x

LEMMA OneIndexNow ==
  ASSUME FlashSound
  PROVE  OneIndex
  <1>1. SUFFICES ASSUME Quiet, NEW o \in Objs, NEW i \in 0 .. IxSpan(MaxSpan)
                 PROVE  Cardinality(Found(IxId(o), i)) <= 1
    BY DEF OneIndex
  <1> DEFINE S == Found(IxId(o), i)
  <1>2. NoTwins(flash)
    BY <1>1, DecidingFrom DEF Quiet, Deciding
  <1>3. \A p \in S, q \in S : p = q
    BY <1>2, FoundIx, OneIx
  <1>4. CASE S = {}
    BY <1>4, FS_EmptySet
  <1>5. CASE S # {}
    <2>1. PICK p \in S : S = {p}
      BY <1>3, <1>5
    <2>2. Cardinality({p}) = 1
      BY FS_Singleton
    <2> QED BY <2>1, <2>2
  <1> QED BY <1>4, <1>5

LEMMA ReadsBackNow ==
  ASSUME FlashSound
  PROVE  ReadsBack
  <1>1. SUFFICES ASSUME Quiet, NEW o \in Objs PROVE Outcomes(o) \subseteq want[o]
    BY DEF ReadsBack
  <1>2. Deciding /\ job = Idle
    BY <1>1, DecidingFrom DEF Quiet
  <1> QED BY <1>2, IdleFile

LEMMA NothingLostNow ==
  ASSUME FlashSound
  PROVE  NothingLost
  <1>1. SUFFICES ASSUME Quiet, NEW p \in Pages, NEW o \in Objs, flash[p].lu = DataId(o)
                 PROVE  RefsTo(p) # {}
    BY DEF NothingLost
  <1> DEFINE s == flash[p].span
             i == IxSpan(s)
  <1>2. Deciding /\ job = Idle
    BY <1>1, DecidingFrom DEF Quiet
  <1>3. PagesOK(flash, Idle) /\ NoTwins(flash)
    BY <1>2 DEF Deciding
  <1>4. ~NoPages(flash, o)
    BY <1>1 DEF NoPages
  <1>5. PICK h \in Pages, n \in 0 .. MaxSize :
          FileOK(flash, View(flash, Idle), o, n, IxSpan(PageSpan(n)))
    BY <1>2, <1>4, IdleFile DEF GoneOK
  <1>6. s \in Spans /\ s \in Nat /\ s <= PageSpan(n) /\ n \in Nat
    BY <1>1, <1>3, <1>5, DataPage, Lengths DEF FileOK, DataEnds
  <1>7. View(flash, Idle) = Plain(flash)
    BY IdleShape, NoCall, PlainView DEF Plain
  <1> HIDE DEF s
  <1>8. i \in 0 .. IxSpan(PageSpan(n))
    <2>1. s \in Int /\ s >= -1 /\ PageSpan(n) \in Int
      BY <1>6, SpanType
    <2>2. i <= IxSpan(PageSpan(n)) /\ i \in Nat
      BY <1>6, <2>1, IxSpanMonotone, SpansAre
    <2>3. IxSpan(PageSpan(n)) \in Nat
      BY <1>6, IxSpansOf
    <2> HIDE DEF i
    <2> QED BY <2>2, <2>3
  <1>9. PICK q \in Pages : IsIx(flash, o, i, q)
    BY <1>5, <1>8 DEF FileOK, SpansThere
  <1>10. flash[q].cells[IxEntry(s)] \in Pages /\ IsData(flash, o, s, flash[q].cells[IxEntry(s)])
    <2>1. RefOK(flash, o, n, s, Plain(flash)[q][IxEntry(s)])
      BY <1>5, <1>6, <1>7, <1>9 DEF FileOK, RefsOK
    <2> QED BY <1>6, <2>1 DEF RefOK, Plain
  <1>11. IsData(flash, o, s, p)
    BY <1>1 DEF IsData, s
  <1>12. flash[q].cells[IxEntry(s)] = p
    BY <1>3, <1>10, <1>11, OneData
  <1>13. q \in RefsTo(p)
    BY <1>1, <1>9, <1>12 DEF RefsTo, IsIx, s
  <1> QED BY <1>13

\* FlashInv: the state is typed, no write spoils what another one wrote, and there is
\* one index page of a span.
THEOREM FlashInvAlways == Spec => []FlashInv
  <1>1. FlashSound => FlashInv
    BY LegibleNow, OneIndexNow DEF FlashInv, FlashSound
  <1> QED BY <1>1, FlashSoundAlways, PTL

\* ReadsBack: a file reads as its last call left it, whatever the search finds.
THEOREM ReadsBackAlways == Spec => []ReadsBack
  <1>1. FlashSound => ReadsBack
    BY ReadsBackNow
  <1> QED BY <1>1, FlashSoundAlways, PTL

\* NothingLost: a data page in use has an index page that refers to it.
THEOREM NothingLostAlways == Spec => []NothingLost
  <1>1. FlashSound => NothingLost
    BY NothingLostNow
  <1> QED BY <1>1, FlashSoundAlways, PTL

-----------------------------------------------------------------------------
(* Between two writes a file has a header *)

LEMMA HeaderFound ==
  ASSUME NEW x \in Objs
  PROVE  \A g \in Pages : HeaderIs(flash[g], x) <=> g \in Headers(x)
  BY DEF HeaderIs, Headers, Has

LEMMA MadeOfTwo ==
  ASSUME NEW T, NEW a \in Seq(T), NEW b \in Seq(T), NEW i \in 0 .. Len(a \o b)
  PROVE  /\ i <= Len(a) => Made(a \o b, i) \subseteq Writes(a)
         /\ i >= Len(a) => Writes(a) \subseteq Made(a \o b, i)
         /\ Made(a \o b, i) \subseteq Writes(a \o b)
  <1>1. Len(a) \in Nat /\ Len(a \o b) = Len(a) + Len(b) /\ Len(b) \in Nat
    OBVIOUS
  <1>2. \A k \in 1 .. Len(a) : (a \o b)[k] = a[k]
    OBVIOUS
  <1>3. DOMAIN a = 1 .. Len(a) /\ DOMAIN (a \o b) = 1 .. Len(a \o b)
    OBVIOUS
  <1>4. ASSUME i <= Len(a), NEW w \in Made(a \o b, i) PROVE w \in Writes(a)
    <2>1. PICK k \in 1 .. i : w = (a \o b)[k]
      BY <1>4 DEF Made
    <2>2. k \in 1 .. Len(a)
      BY <1>1, <1>4, <2>1
    <2> QED BY <1>2, <1>3, <2>1, <2>2 DEF Writes
  <1>5. ASSUME i >= Len(a), NEW w \in Writes(a) PROVE w \in Made(a \o b, i)
    <2>1. PICK k \in 1 .. Len(a) : w = a[k]
      BY <1>3, <1>5 DEF Writes
    <2>2. k \in 1 .. i
      BY <1>1, <1>5, <2>1
    <2> QED BY <1>2, <2>1, <2>2 DEF Made
  <1>6. ASSUME NEW w \in Made(a \o b, i) PROVE w \in Writes(a \o b)
    <2>1. PICK k \in 1 .. i : w = (a \o b)[k]
      BY <1>6 DEF Made
    <2>2. k \in 1 .. Len(a \o b)
      BY <1>1, <2>1
    <2> QED BY <1>3, <2>1, <2>2 DEF Writes
  <1> QED BY <1>4, <1>5, <1>6

LEMMA MadeFirst ==
  ASSUME NEW T, NEW s \in Seq(T), s # <<>>, NEW i \in 0 .. Len(Tail(s))
  PROVE  i + 1 \in 0 .. Len(s) /\ Made(s, i + 1) = {Head(s)} \cup Made(Tail(s), i)
  <1>1. /\ Len(s) \in Nat /\ Len(s) >= 1 /\ Len(Tail(s)) = Len(s) - 1
        /\ Head(s) = s[1] /\ \A k \in 1 .. (Len(s) - 1) : Tail(s)[k] = s[k + 1]
    OBVIOUS
  <1>2. i \in Nat /\ i + 1 \in 0 .. Len(s)
    BY <1>1
  <1>3. ASSUME NEW w \in Made(s, i + 1) PROVE w \in {Head(s)} \cup Made(Tail(s), i)
    <2>1. PICK k \in 1 .. (i + 1) : w = s[k]
      BY <1>3 DEF Made
    <2>2. CASE k = 1
      BY <1>1, <2>1, <2>2
    <2>3. CASE k # 1
      <3>1. k - 1 \in 1 .. i /\ k - 1 \in 1 .. (Len(s) - 1) /\ (k - 1) + 1 = k
        BY <1>1, <1>2, <2>1, <2>3
      <3>2. Tail(s)[k - 1] = w
        BY <1>1, <2>1, <3>1
      <3> QED BY <3>1, <3>2 DEF Made
    <2> QED BY <2>2, <2>3
  <1>4. Head(s) \in Made(s, i + 1)
    <2>1. 1 \in 1 .. (i + 1)
      BY <1>2
    <2> QED BY <1>1, <2>1 DEF Made
  <1>5. ASSUME NEW w \in Made(Tail(s), i) PROVE w \in Made(s, i + 1)
    <2>1. PICK k \in 1 .. i : w = Tail(s)[k]
      BY <1>5 DEF Made
    <2>2. k \in 1 .. (Len(s) - 1) /\ k + 1 \in 1 .. (i + 1)
      BY <1>1, <1>2, <2>1
    <2> QED BY <1>1, <2>1, <2>2 DEF Made
  <1> QED BY <1>2, <1>3, <1>4, <1>5

\* Some of the values that come to v, v among them, come to v.
LEMMA JoinedBetween ==
  ASSUME NEW A, NEW C, A \subseteq C, NEW v, v \in A, v # Blank, v # Garbled, Joined(C) = v
  PROVE  Joined(A) = v
  <1>1. C \subseteq {Blank, v}
    BY JoinedCases
  <1> QED BY <1>1, JoinedValue

\* A page that is the header before the writes and after them is it all the time.
LEMMA HeaderBetween ==
  ASSUME NEW fl, NEW A, NEW C, A \subseteq C, NEW g \in Pages, NEW x \in Objs,
         HeaderIs(fl[g], x), HeaderIs(After(fl, C)[g], x)
  PROVE  HeaderIs(After(fl, A)[g], x)
  <1> DEFINE S == Images(fl, A, g)
             T == Images(fl, C, g)
             y == JoinedPage(S)
             z == JoinedPage(T)
             id == IxId(x)
  <1>1. S \subseteq T /\ fl[g] \in S
    BY DEF Images, ImagesOf
  <1>2. After(fl, A)[g] = y /\ After(fl, C)[g] = z
    BY DEF After
  <1> HIDE DEF S, T
  <1>3. /\ y.lu = JoinedLu({u.lu : u \in S}) /\ z.lu = JoinedLu({u.lu : u \in T})
        /\ y.id = Joined({u.id : u \in S}) /\ z.id = Joined({u.id : u \in T})
        /\ y.span = Joined({u.span : u \in S}) /\ z.span = Joined({u.span : u \in T})
        /\ y.flags = UNION {u.flags : u \in S} /\ z.flags = UNION {u.flags : u \in T}
    BY DEF JoinedPage
  <1> HIDE DEF y, z
  <1>4. /\ fl[g].lu = id /\ fl[g].id = id /\ fl[g].span = 0 /\ "final" \in fl[g].flags
        /\ z.lu = id /\ z.id = id /\ z.span = 0 /\ z.flags \cap {"dele", "ixdele"} = {}
    BY <1>2 DEF HeaderIs
  <1>5. id \in Ids /\ id # Blank /\ id # Deleted /\ id # Garbled /\ 0 # Blank /\ 0 # Garbled
    BY ValuesAssumption DEF Ids
  <1> HIDE DEF id
  <1>6. y.id = id
    <2>1. {u.id : u \in S} \subseteq {u.id : u \in T} /\ id \in {u.id : u \in S}
      BY <1>1, <1>4
    <2>2. Joined({u.id : u \in T}) = id /\ id # Blank /\ id # Garbled
      BY <1>3, <1>4, <1>5
    <2>3. Joined({u.id : u \in S}) = id
      BY <2>1, <2>2, JoinedBetween
    <2> QED BY <1>3, <2>3
  <1>7. y.span = 0
    <2>1. {u.span : u \in S} \subseteq {u.span : u \in T} /\ 0 \in {u.span : u \in S}
      BY <1>1, <1>4
    <2>2. Joined({u.span : u \in T}) = 0 /\ 0 # Blank /\ 0 # Garbled
      BY <1>3, <1>4, <1>5
    <2>3. Joined({u.span : u \in S}) = 0
      BY <2>1, <2>2, JoinedBetween
    <2> QED BY <1>3, <2>3
  <1>8. y.lu = id
    <2>1. {u.lu : u \in S} \subseteq {u.lu : u \in T} /\ id \in {u.lu : u \in S}
      BY <1>1, <1>4
    <2>2. Deleted \notin {u.lu : u \in T}
      BY <1>3, <1>4, <1>5 DEF JoinedLu
    <2>3. y.lu = Joined({u.lu : u \in S}) /\ Joined({u.lu : u \in T}) = id
      BY <1>3, <1>4, <2>1, <2>2 DEF JoinedLu
    <2> QED BY <1>5, <2>1, <2>3, JoinedBetween
  <1>9. "final" \in y.flags /\ y.flags \cap {"dele", "ixdele"} = {}
    BY <1>1, <1>3, <1>4
  <1> QED BY <1>2, <1>6, <1>7, <1>8, <1>9 DEF HeaderIs, id

-----------------------------------------------------------------------------
(* In what order a page of a file may be deleted *)

\* Page g is not deleted, or it is the last thing that happens, and nothing is written
\* to it before.
Ordered(s, g) ==
    \/ \A w \in Writes(s) : w.page = g => w.image.lu # Deleted
    \/ \E a \in Seq(WriteType) : s = a \o Delete(g) /\ \A w \in Writes(a) : w.page # g

LEMMA DeleteOf ==
  ASSUME NEW g \in Pages
  PROVE  /\ Delete(g) \in Seq(WriteType) /\ \A w \in Writes(Delete(g)) : w.page = g
         /\ \E w \in Writes(Delete(g)) : w.image.lu = Deleted
  <1> DEFINE im1 == [BlankPage EXCEPT !.lu = Deleted]
             im2 == [BlankPage EXCEPT !.flags = {"dele", "used"}]
             w1 == [page |-> g, image |-> im1]
             w2 == [page |-> g, image |-> im2]
  <1>1. im1 \in PageType /\ im2 \in PageType /\ im1.lu = Deleted
    BY BlankPageType, LuWrite, FlagsWrite DEF Flags
  <1> HIDE DEF im1, im2
  <1>2. Delete(g) = <<w1>> \o <<w2>>
    BY DEF Delete, LuW, FlagsW, W, im1, im2
  <1>3. w1 \in WriteType /\ w2 \in WriteType /\ w1.page = g /\ w2.page = g /\ w1.image.lu = Deleted
    BY <1>1 DEF WriteType
  <1> HIDE DEF w1, w2
  <1>4. <<w1>> \in Seq(WriteType) /\ <<w2>> \in Seq(WriteType)
    BY <1>3
  <1>5. /\ Writes(<<w1>> \o <<w2>>) = Writes(<<w1>>) \cup Writes(<<w2>>)
        /\ <<w1>> \o <<w2>> \in Seq(WriteType)
    BY <1>4, WritesConcat
  <1>6. Writes(Delete(g)) = {w1, w2} /\ Delete(g) \in Seq(WriteType)
    BY <1>2, <1>5, WritesOne
  <1> QED BY <1>3, <1>6

\* The header stays where it is, or it is deleted once another one is there.
LEMMA SteadyWrites ==
  ASSUME NEW fl \in Flashes, NEW s \in Seq(WriteType), NEW gl, gl = After(fl, Writes(s)),
         NEW j, PagesOK(gl, j), NoTwins(gl), NEW x \in Objs, NEW g \in Pages, NEW h \in Pages,
         HeaderIs(fl[g], x), HeaderIs(gl[h], x), Ordered(s, g)
  PROVE  Steady(fl, s, x)
  <1> DEFINE T == Images(fl, Writes(s), g)
             z == JoinedPage(T)
             id == IxId(x)
  <1>1. gl[g] = z /\ fl[g] \in T
    BY DEF After, Images
  <1>2. Legible(gl[g])
    BY DEF PagesOK, PageOK
  <1>3. id \in Ids /\ id # Blank /\ id # Deleted /\ id # Garbled /\ 0 # Blank /\ 0 # Garbled
    BY ValuesAssumption DEF Ids
  <1>4. fl[g].lu = id /\ fl[g].span = 0 /\ gl[h].lu = id /\ gl[h].span = 0
    BY DEF HeaderIs
  <1>5. CASE \A w \in Writes(s) : w.page = g => w.image.lu # Deleted
    <2>1. \A u \in T : u.lu # Deleted
      BY <1>3, <1>4, <1>5 DEF Images, ImagesOf
    <2> HIDE DEF T
    <2>2. z.lu = JoinedLu({u.lu : u \in T}) /\ z.span = Joined({u.span : u \in T})
      BY DEF JoinedPage
    <2> HIDE DEF z
    <2>3. z.lu = Joined({u.lu : u \in T})
      <3>1. Deleted \notin {u.lu : u \in T}
        BY <2>1
      <3> QED BY <2>2, <3>1 DEF JoinedLu
    <2>4. z.lu # Garbled /\ z.span # Garbled
      BY <1>1, <1>2 DEF Legible
    <2>5. z.lu = id
      <3>1. id \in {u.lu : u \in T}
        BY <1>1, <1>4
      <3> HIDE DEF id
      <3> QED BY <1>3, <2>3, <2>4, <3>1, JoinedCases
    <2>6. z.span = 0
      <3>1. 0 \in {u.span : u \in T}
        BY <1>1, <1>4
      <3> QED BY <1>3, <2>2, <2>4, <3>1, JoinedCases
    <2>7. g = h
      BY <1>1, <1>3, <1>4, <2>5, <2>6 DEF NoTwins
    <2>8. HeaderIs(After(fl, Writes(s))[g], x)
      BY <2>7
    <2>9. ASSUME NEW i \in 0 .. Len(s) PROVE HeaderIs(After(fl, Made(s, i))[g], x)
      <3>1. <<>> \in Seq(WriteType) /\ s \o <<>> = s
        OBVIOUS
      <3>2. Made(s, i) \subseteq Writes(s)
        BY <2>9, <3>1, MadeOfTwo
      <3> QED BY <2>8, <3>2, HeaderBetween
    <2> QED BY <2>9 DEF Steady, Headed
  <1>6. CASE \E a \in Seq(WriteType) : s = a \o Delete(g) /\ \A w \in Writes(a) : w.page # g
    <2>1. PICK a \in Seq(WriteType) : s = a \o Delete(g) /\ \A w \in Writes(a) : w.page # g
      BY <1>6
    <2> DEFINE b == Delete(g)
    <2>2. /\ b \in Seq(WriteType) /\ \A w \in Writes(b) : w.page = g
          /\ \E w \in Writes(b) : w.image.lu = Deleted
      BY DeleteOf
    <2> HIDE DEF b
    <2>3. Writes(s) = Writes(a) \cup Writes(b)
      BY <2>1, <2>2, WritesConcat DEF b
    <2>4. g # h
      <3>1. \E u \in T : u.lu = Deleted
        BY <2>2, <2>3 DEF Images, ImagesOf
      <3> HIDE DEF T
      <3>2. Deleted \in {u.lu : u \in T}
        BY <3>1
      <3>3. z.lu = Deleted
        BY <3>2 DEF JoinedPage, JoinedLu
      <3> QED BY <1>1, <1>3, <1>4, <3>3
    <2>5. ASSUME NEW i \in 0 .. Len(s) PROVE Headed(After(fl, Made(s, i)), x)
      <3> DEFINE M == Made(s, i)
      <3>1. /\ i <= Len(a) => M \subseteq Writes(a)
            /\ i >= Len(a) => Writes(a) \subseteq M
            /\ M \subseteq Writes(s)
        BY <2>1, <2>2, <2>5, MadeOfTwo DEF b
      <3>2. i \in Nat /\ Len(a) \in Nat
        BY <2>1, <2>5
      <3> HIDE DEF M
      <3>3. CASE i <= Len(a)
        <4>1. Images(fl, M, g) = {fl[g]}
          BY <2>1, <3>1, <3>3 DEF Images, ImagesOf
        <4>2. After(fl, M)[g] = fl[g]
          BY <4>1, JoinedPageOne DEF After, Flashes
        <4> QED BY <4>2 DEF Headed, M
      <3>4. CASE i >= Len(a)
        <4>1. Images(fl, M, h) = Images(fl, Writes(s), h)
          BY <2>2, <2>3, <2>4, <3>1, <3>4 DEF Images, ImagesOf
        <4>2. After(fl, M)[h] = gl[h]
          BY <4>1 DEF After
        <4> QED BY <4>2 DEF Headed, M
      <3> QED BY <3>2, <3>3, <3>4
    <2> QED BY <2>5 DEF Steady
  <1> QED BY <1>5, <1>6 DEF Ordered

-----------------------------------------------------------------------------
(* The steps *)

\* Once its writes are made a file that is not created or removed has a header.
LEMMA SoonHeaded ==
  ASSUME NEW fl, NEW j, NEW w, PagesOK(fl, j), FilesOK(fl, j, w), CallOK(fl, j),
         j.op \in Writers \cup {"return"} => j.new \in w[j.o],
         NEW x \in Objs, Absent \notin w[x]
  PROVE  Headed(fl, x)
  <1>1. ThereOK(fl, j, w, x) \/ GoneOK(fl, j, w, x)
    BY DEF FilesOK
  <1>2. ~GoneOK(fl, j, w, x)
    BY DEF GoneOK, Returned
  <1>3. PICK h \in Pages : IsIx(fl, x, 0, h)
    BY <1>1, <1>2 DEF ThereOK
  <1>4. ~Marked(j, x, h)
    BY DEF Marked, CallOK, TruncateOK, Writers
  <1>5. IxPageOK(fl[h], FALSE) /\ fl[h].lu = IxId(x) /\ fl[h].span = 0
    <2>1. fl[h].lu = IxId(x) /\ PageOK(fl, j, h)
      BY <1>3 DEF PagesOK, IsIx
    <2>2. IxPageOK(fl[h], Marked(j, x, h))
      BY <2>1 DEF PageOK
    <2> QED BY <1>3, <1>4, <2>2 DEF IsIx, IxPageOK
  <1>6. HeaderIs(fl[h], x)
    BY <1>5 DEF HeaderIs, IxPageOK
  <1> QED BY <1>6 DEF Headed

\* Nothing is decided on: what is in the flash is all there is.
LEMMA SteadyNone ==
  ASSUME NEW fl \in Flashes, NEW x
  PROVE  Steady(fl, <<>>, x) <=> Headed(fl, x)
  <1>1. \A i \in 0 .. Len(<<>>) : i = 0 /\ Made(<<>>, i) = {}
    BY DEF Made
  <1>2. 0 \in 0 .. Len(<<>>)
    OBVIOUS
  <1> QED BY <1>1, <1>2, AfterNone DEF Steady

LEMMA SteadyRest ==
  ASSUME NEW fl \in Flashes, NEW s \in Seq(WriteType), s # <<>>, NEW x, Steady(fl, s, x),
         NEW gl, gl = After(fl, {Head(s)})
  PROVE  Steady(gl, Tail(s), x)
  <1>1. SUFFICES ASSUME NEW i \in 0 .. Len(Tail(s))
                 PROVE  Headed(After(gl, Made(Tail(s), i)), x)
    BY DEF Steady
  <1>2. i + 1 \in 0 .. Len(s) /\ Made(s, i + 1) = {Head(s)} \cup Made(Tail(s), i)
    BY MadeFirst
  <1>3. After(fl, Made(s, i + 1)) = After(gl, Made(Tail(s), i))
    BY <1>2, AfterTwice
  <1> QED BY <1>2, <1>3 DEF Steady

LEMMA SoonHeadedNext ==
  ASSUME FlashSound', Promise', NEW x \in Objs, Absent \notin want'[x]
  PROVE  Headed(soon', x)
  <1>1. PagesOK(soon', job') /\ FilesOK(soon', job', want') /\ CallOK(soon', job')
    BY DEF FlashSound, Sound
  <1>2. job'.op \in Writers \cup {"return"} => job'.new \in want'[job'.o]
    BY DEF Promise
  <1> QED BY <1>1, <1>2, SoonHeaded

LEMMA GuardedQuietly ==
  ASSUME FlashSound', Promise', todo' = <<>>
  PROVE  Guarded'
  <1>1. SUFFICES ASSUME NEW x \in Objs, Absent \notin want'[x]
                 PROVE  Steady(flash', todo', x)
    BY DEF Guarded
  <1>2. flash' \in Flashes
    BY DEF FlashSound, TypeOK, Flashes
  <1>3. soon' = flash'
    BY <1>2, AfterNone, WritesNone DEF soon
  <1>4. Headed(flash', x)
    BY <1>1, <1>3, SoonHeadedNext
  <1> QED BY <1>2, <1>4, SteadyNone

\* The next writes are in order.
LEMMA GuardedStep ==
  ASSUME FlashSound, Guarded, FlashSound', Promise', todo = <<>>, UNCHANGED flash,
         \A x \in Objs : want'[x] = want[x] \/ Absent \in want'[x],
         \A x \in Objs, g \in Pages : HeaderIs(flash[g], x) => Ordered(todo', g)
  PROVE  Guarded'
  <1>1. SUFFICES ASSUME NEW x \in Objs, Absent \notin want'[x]
                 PROVE  Steady(flash', todo', x)
    BY DEF Guarded
  <1>2. flash \in Flashes
    BY DEF FlashSound, TypeOK, Flashes
  <1>3. /\ todo' \in Seq(WriteType) /\ soon' = After(flash, Writes(todo'))
        /\ PagesOK(soon', job') /\ NoTwins(soon')
    BY DEF FlashSound, TypeOK, WriteType, Sound, soon
  <1>4. Headed(flash, x)
    <2>1. Steady(flash, <<>>, x)
      BY <1>1 DEF Guarded
    <2> QED BY <1>2, <2>1, SteadyNone
  <1>5. PICK g \in Pages : HeaderIs(flash[g], x)
    BY <1>4 DEF Headed
  <1>6. PICK h \in Pages : HeaderIs(soon'[h], x)
    BY <1>1, SoonHeadedNext DEF Headed
  <1>7. Ordered(todo', g)
    BY <1>5
  <1>8. Steady(flash, todo', x)
    BY <1>2, <1>3, <1>5, <1>6, <1>7, SteadyWrites
  <1> QED BY <1>8

\* The call keeps to what it is to leave behind.
LEMMA PromiseKept ==
  ASSUME Promise, want' = want,
         \/ job'.op \notin Writers \cup {"return"}
         \/ job.op \in Writers /\ job'.new = job.new /\ job'.o = job.o
  PROVE  Promise'
  BY DEF Promise

-----------------------------------------------------------------------------
(* Writes in order *)

\* Writes that delete nothing, and leave alone page d.
Gentle(s, d) ==
    s \in Seq(WriteType) /\ \A w \in Writes(s) : w.page # d /\ w.image.lu # Deleted

LEMMA OrderedNone ==
  ASSUME NEW g
  PROVE  Ordered(<<>>, g)
  BY WritesNone DEF Ordered

LEMMA OrderedGentle ==
  ASSUME NEW s, NEW d, Gentle(s, d), NEW g
  PROVE  Ordered(s, g)
  BY DEF Ordered, Gentle

LEMMA OrderedDelete ==
  ASSUME NEW a, NEW d \in Pages, Gentle(a, d), NEW g \in Pages
  PROVE  Ordered(a \o Delete(d), g)
  <1>1. CASE g = d
    BY <1>1 DEF Ordered, Gentle
  <1>2. CASE g # d
    <2>1. Delete(d) \in Seq(WriteType) /\ \A w \in Writes(Delete(d)) : w.page = d
      BY DeleteOf
    <2>2. Writes(a \o Delete(d)) = Writes(a) \cup Writes(Delete(d))
      BY <2>1, WritesConcat DEF Gentle
    <2>3. \A w \in Writes(a \o Delete(d)) : w.page = g => w.image.lu # Deleted
      BY <1>2, <2>1, <2>2 DEF Gentle
    <2> QED BY <2>3 DEF Ordered
  <1> QED BY <1>1, <1>2

LEMMA OrderedOnlyDelete ==
  ASSUME NEW d \in Pages, NEW g \in Pages
  PROVE  Ordered(Delete(d), g)
  <1>1. Delete(d) \in Seq(WriteType)
    BY DeleteOf
  <1>2. <<>> \o Delete(d) = Delete(d)
    BY <1>1
  <1>3. Gentle(<<>>, d)
    BY WritesNone DEF Gentle
  <1> QED BY <1>2, <1>3, OrderedDelete

\* What is written before to other pages changes nothing about that.
LEMMA OrderedAfter ==
  ASSUME NEW a \in Seq(WriteType), NEW s \in Seq(WriteType), NEW g \in Pages,
         \A w \in Writes(a) : w.page # g, Ordered(s, g)
  PROVE  Ordered(a \o s, g)
  <1>1. Writes(a \o s) = Writes(a) \cup Writes(s)
    BY WritesConcat
  <1>2. CASE \A w \in Writes(s) : w.page = g => w.image.lu # Deleted
    <2>1. \A w \in Writes(a \o s) : w.page = g => w.image.lu # Deleted
      BY <1>1, <1>2
    <2> QED BY <2>1 DEF Ordered
  <1>3. CASE \E b \in Seq(WriteType) : s = b \o Delete(g) /\ \A w \in Writes(b) : w.page # g
    <2>1. PICK b \in Seq(WriteType) : s = b \o Delete(g) /\ \A w \in Writes(b) : w.page # g
      BY <1>3
    <2> DEFINE t == Delete(g)
    <2>2. t \in Seq(WriteType)
      BY DeleteOf
    <2> HIDE DEF t
    <2>3. a \o (b \o t) = (a \o b) \o t
      BY <2>2
    <2>4. a \o b \in Seq(WriteType) /\ Writes(a \o b) = Writes(a) \cup Writes(b)
      BY WritesConcat
    <2>5. \A w \in Writes(a \o b) : w.page # g
      BY <2>1, <2>4
    <2>6. a \o s = (a \o b) \o Delete(g)
      BY <2>1, <2>3 DEF t
    <2> QED BY <2>4, <2>5, <2>6 DEF Ordered
  <1> QED BY <1>2, <1>3 DEF Ordered

LEMMA GentleOne ==
  ASSUME NEW p \in Pages, NEW im \in PageType, im.lu # Deleted, NEW d, d # p
  PROVE  Gentle(W(p, im), d)
  <1> DEFINE w == [page |-> p, image |-> im]
  <1>1. w \in WriteType /\ w.page = p /\ w.image = im
    BY DEF WriteType
  <1> HIDE DEF w
  <1>2. W(p, im) = <<w>> /\ <<w>> \in Seq(WriteType) /\ Writes(<<w>>) = {w}
    BY <1>1, WritesOne DEF W, w
  <1> QED BY <1>1, <1>2 DEF Gentle

LEMMA GentleThen ==
  ASSUME NEW s, NEW t, NEW d, Gentle(s, d), Gentle(t, d)
  PROVE  Gentle(s \o t, d)
  <1>1. s \o t \in Seq(WriteType) /\ Writes(s \o t) = Writes(s) \cup Writes(t)
    BY WritesConcat DEF Gentle
  <1> QED BY <1>1 DEF Gentle

LEMMA GentleNone ==
  ASSUME NEW d
  PROVE  Gentle(<<>>, d)
  BY WritesNone DEF Gentle

LEMMA GentleParts ==
  ASSUME NEW p \in Pages, NEW d, d # p
  PROVE  /\ \A id \in Ids : Gentle(LuW(p, id), d)
         /\ \A flags \in SUBSET Flags : Gentle(FlagsW(p, flags), d)
         /\ \A cells \in [Cells -> Values] : Gentle(CellsW(p, cells), d)
         /\ \A image \in PageType : Gentle(PageW(p, image), d)
         /\ \A id \in Ids, span \in Nat, flags \in SUBSET Flags :
                Gentle(HeaderW(p, id, span, flags), d)
  <1>1. Blank # Deleted /\ \A id \in Ids : id # Deleted
    BY ValuesAssumption
  <1>2. /\ BlankPage \in PageType /\ BlankPage.lu = Blank
        /\ BlankPage.id = Blank /\ BlankPage.span = Blank
    BY BlankPageType, Blanks
  <1>3. ASSUME NEW id \in Ids PROVE Gentle(LuW(p, id), d)
    <2>1. [BlankPage EXCEPT !.lu = id] \in PageType /\ [BlankPage EXCEPT !.lu = id].lu = id
      BY <1>2, LuWrite
    <2> QED BY <1>1, <2>1, GentleOne DEF LuW
  <1>4. ASSUME NEW flags \in SUBSET Flags PROVE Gentle(FlagsW(p, flags), d)
    <2>1. /\ [BlankPage EXCEPT !.flags = flags] \in PageType
          /\ [BlankPage EXCEPT !.flags = flags].lu = Blank
      BY <1>2, FlagsWrite
    <2> QED BY <1>1, <2>1, GentleOne DEF FlagsW
  <1>5. ASSUME NEW cells \in [Cells -> Values] PROVE Gentle(CellsW(p, cells), d)
    <2>1. /\ [BlankPage EXCEPT !.cells = cells] \in PageType
          /\ [BlankPage EXCEPT !.cells = cells].lu = Blank
      BY <1>2, CellsWrite
    <2> QED BY <1>1, <2>1, GentleOne DEF CellsW
  <1>6. ASSUME NEW image \in PageType PROVE Gentle(PageW(p, image), d)
    <2>1. [image EXCEPT !.lu = Blank] \in PageType /\ [image EXCEPT !.lu = Blank].lu = Blank
      BY PageWrite
    <2> QED BY <1>1, <2>1, GentleOne DEF PageW
  <1>7. ASSUME NEW id \in Ids, NEW span \in Nat, NEW flags \in SUBSET Flags
        PROVE  Gentle(HeaderW(p, id, span, flags), d)
    <2>1. /\ [BlankPage EXCEPT !.id = id, !.span = span, !.flags = flags] \in PageType
          /\ [BlankPage EXCEPT !.id = id, !.span = span, !.flags = flags].lu = Blank
      BY <1>2, BlankPageType DEF PageType, Values
    <2> QED BY <1>1, <2>1, GentleOne DEF HeaderW
  <1> QED BY <1>3, <1>4, <1>5, <1>6, <1>7

LEMMA GentleAllocate ==
  ASSUME NEW p \in Pages, NEW d, d # p, NEW id \in Ids, NEW span \in Nat,
         NEW flags \in SUBSET Flags, NEW cells \in [Cells -> Values], NEW finalize
  PROVE  Gentle(Allocate(p, id, span, flags, cells, finalize), d)
  <1> DEFINE s1 == LuW(p, id)
             s2 == HeaderW(p, id, span, flags \cup {"used"})
             s3 == IF cells = NoCells THEN <<>> ELSE CellsW(p, cells)
             s4 == IF finalize /\ "final" \notin flags THEN FlagsW(p, {"final"}) ELSE <<>>
  <1>1. flags \cup {"used"} \in SUBSET Flags /\ {"final"} \in SUBSET Flags
    BY DEF Flags
  <1>2. Gentle(s1, d) /\ Gentle(s2, d)
    BY <1>1, GentleParts
  <1>3. Gentle(s3, d)
    BY GentleParts, GentleNone
  <1>4. Gentle(s4, d)
    BY <1>1, GentleParts, GentleNone
  <1> HIDE DEF s1, s2, s3, s4
  <1>5. Gentle(s1 \o s2, d)
    BY <1>2, GentleThen
  <1>6. Gentle((s1 \o s2) \o s3, d)
    BY <1>3, <1>5, GentleThen
  <1>7. Gentle(((s1 \o s2) \o s3) \o s4, d)
    BY <1>4, <1>6, GentleThen
  <1>8. Allocate(p, id, span, flags, cells, finalize) = ((s1 \o s2) \o s3) \o s4
    BY DEF Allocate, s1, s2, s3, s4
  <1> QED BY <1>7, <1>8

LEMMA OrderedMove ==
  ASSUME NEW src \in Pages, NEW dst \in Pages, src # dst, NEW image \in PageType,
         image.id \in Ids, NEW g \in Pages
  PROVE  Move(src, dst, image) \in Seq(WriteType) /\ Ordered(Move(src, dst, image), g)
  <1> DEFINE x == [image EXCEPT !.flags = (@ \ {"final"}) \cup {"used"}]
             s1 == PageW(dst, x)
             s2 == LuW(dst, image.id)
             s3 == IF "final" \in image.flags THEN FlagsW(dst, {"final", "used"}) ELSE <<>>
             a == (s1 \o s2) \o s3
  <1>1. x \in PageType /\ {"final", "used"} \in SUBSET Flags
    BY DEF PageType, Flags
  <1> HIDE DEF x
  <1>2. Gentle(s1, src) /\ Gentle(s2, src)
    BY <1>1, GentleParts
  <1>3. Gentle(s3, src)
    BY <1>1, GentleParts, GentleNone
  <1> HIDE DEF s1, s2, s3
  <1>4. Gentle(s1 \o s2, src)
    BY <1>2, GentleThen
  <1>5. Gentle(a, src)
    BY <1>3, <1>4, GentleThen
  <1>6. Move(src, dst, image) = a \o Delete(src)
    BY DEF Move, x, s1, s2, s3
  <1> HIDE DEF a
  <1>7. a \o Delete(src) \in Seq(WriteType)
    BY <1>5, DeleteOf, WritesConcat DEF Gentle
  <1> QED BY <1>5, <1>6, <1>7, OrderedDelete

LEMMA OrderedMoveRaw ==
  ASSUME flash \in Flashes, NEW src \in Pages, NEW dst \in Pages, src # dst, NEW id \in Ids,
         NEW g \in Pages
  PROVE  Ordered(MoveRaw(src, dst, id), g)
  <1> DEFINE x == [flash[src] EXCEPT !.cells = NoCells]
             cells == flash[src].cells
             s1 == PageW(dst, x)
             s2 == CellsW(dst, cells)
             s3 == LuW(dst, id)
             a == (s1 \o s2) \o s3
  <1>1. x \in PageType /\ cells \in [Cells -> Values]
    BY BlankPageType DEF PageType, Flashes
  <1> HIDE DEF x, cells
  <1>2. Gentle(s1, src) /\ Gentle(s2, src) /\ Gentle(s3, src)
    BY <1>1, GentleParts
  <1> HIDE DEF s1, s2, s3
  <1>3. Gentle(s1 \o s2, src)
    BY <1>2, GentleThen
  <1>4. Gentle(a, src)
    BY <1>2, <1>3, GentleThen
  <1>5. MoveRaw(src, dst, id) = a \o Delete(src)
    BY DEF MoveRaw, x, cells, s1, s2, s3
  <1> HIDE DEF a
  <1> QED BY <1>4, <1>5, OrderedDelete

-----------------------------------------------------------------------------
(* The actions *)

\* A step that decides on no write, or waits for none.
LEMMA QuietWatched ==
  ASSUME FlashSound', Promise', todo' = <<>>
  PROVE  Watched'
  BY GuardedQuietly DEF Watched

\* A step that decides on writes, and leaves the promises as they are.
LEMMA StepWatched ==
  ASSUME FlashSound, Watched, FlashSound', todo = <<>>, UNCHANGED <<flash, want>>,
         \/ job'.op \notin Writers \cup {"return"}
         \/ job.op \in Writers /\ job'.new = job.new /\ job'.o = job.o,
         \A x \in Objs, g \in Pages : HeaderIs(flash[g], x) => Ordered(todo', g)
  PROVE  Watched'
  <1>1. Promise'
    BY PromiseKept DEF Watched
  <1> QED BY <1>1, GuardedStep DEF Watched

\* The locals a call has left when it stores what it did, or loads a page.
LEMMA LocalsKept ==
  ASSUME job \in CallShape
  PROVE  /\ Returning(job.new).new = job.new /\ Returning(job.new).o = job.o
         /\ \A i : /\ [job EXCEPT !.ix = i].new = job.new /\ [job EXCEPT !.ix = i].o = job.o
         /\ \A i, h : /\ [job EXCEPT !.ix = i, !.hdr = h].new = job.new
                      /\ [job EXCEPT !.ix = i, !.hdr = h].o = job.o
         /\ \A i, p, c : /\ [job EXCEPT !.ix = i, !.ixp = p, !.cells = c].new = job.new
                         /\ [job EXCEPT !.ix = i, !.ixp = p, !.cells = c].o = job.o
         /\ \A m : [job EXCEPT !.pos = m].new = job.new /\ [job EXCEPT !.pos = m].o = job.o
         /\ \A m, c : /\ [job EXCEPT !.pos = m, !.cells = c].new = job.new
                      /\ [job EXCEPT !.pos = m, !.cells = c].o = job.o
  BY DEF CallShape, Returning

\* A page in memory that is to be written.
LEMMA ImagesTyped ==
  ASSUME NEW x \in PageType, NEW size \in Values, NEW cells \in [Cells -> Values]
  PROVE  /\ [x EXCEPT !.size = size] \in PageType /\ [x EXCEPT !.size = size].id = x.id
         /\ [x EXCEPT !.cells = cells] \in PageType /\ [x EXCEPT !.cells = cells].id = x.id
         /\ [[x EXCEPT !.size = size] EXCEPT !.cells = cells] \in PageType
         /\ [[x EXCEPT !.size = size] EXCEPT !.cells = cells].id = x.id
  BY DEF PageType

LEMMA WriteWatched ==
  ASSUME FlashSound, Watched, Write
  PROVE  Watched'
  <1>1. /\ todo # <<>> /\ todo' = Tail(todo) /\ job' = job /\ want' = want
        /\ flash' = [flash EXCEPT ![Head(todo).page] = MeetPage(@, Head(todo).image)]
    BY DEF Write
  <1>2. flash \in Flashes /\ todo \in Seq(WriteType)
    BY DEF FlashSound, TypeOK, Flashes, WriteType
  <1> DEFINE w == Head(todo)
             p == w.page
             im == w.image
  <1>3. w \in WriteType
    BY <1>1, <1>2
  <1>4. p \in Pages /\ w = [page |-> p, image |-> im]
    BY <1>3 DEF WriteType
  <1> HIDE DEF w
  <1>5. After(flash, {[page |-> p, image |-> im]}) = [flash EXCEPT ![p] = MeetPage(@, im)]
    BY <1>2, <1>4, AfterOne, ZenonT(60)
  <1>6. flash' = After(flash, {Head(todo)})
    BY <1>1, <1>4, <1>5 DEF w
  <1>7. Guarded'
    <2>1. SUFFICES ASSUME NEW x \in Objs, Absent \notin want'[x]
                   PROVE  Steady(flash', todo', x)
      BY DEF Guarded
    <2>2. Steady(flash, todo, x)
      BY <1>1, <2>1 DEF Watched, Guarded
    <2>3. Steady(flash', Tail(todo), x)
      BY <1>1, <1>2, <1>6, <2>2, SteadyRest
    <2> QED BY <1>1, <2>3
  <1>8. Promise'
    BY <1>1 DEF Watched, Promise
  <1> QED BY <1>7, <1>8 DEF Watched

LEMMA ReturnWatched ==
  ASSUME FlashSound, FlashSound', Return
  PROVE  Watched'
  <1>1. todo' = <<>> /\ job' = Idle
    BY DEF Return, Running
  <1>2. Promise'
    BY <1>1, IdleShape DEF Promise, Writers
  <1> QED BY <1>1, <1>2, QuietWatched

-----------------------------------------------------------------------------
(* The beginning of a call *)

LEMMA CreateWatched ==
  ASSUME FlashSound, Watched, FlashSound', NEW o \in Objs, Create(o)
  PROVE  Watched'
  <1>1. PICK p \in Pages :
          /\ todo' = LuW(p, IxId(o)) \o HeaderW(p, IxId(o), 0, {"final", "index", "used"})
          /\ todo = <<>> /\ UNCHANGED flash
          /\ job' = [op |-> "return", o |-> o, new |-> <<>>]
          /\ want' = [want EXCEPT ![o] = {Absent, <<>>}]
    BY DEF Create, Start, Quiet
  <1>2. want \in [Objs -> SUBSET Contents]
    BY DEF FlashSound, TypeOK
  <1>3. want'[o] = {Absent, <<>>} /\ \A x \in Objs : x # o => want'[x] = want[x]
    BY <1>1, <1>2
  <1>4. Promise'
    BY <1>1, <1>3 DEF Promise
  <1>5. NoIx \notin Pages /\ IxId(o) \in Ids /\ {"final", "index", "used"} \in SUBSET Flags
        /\ 0 \in Nat
    BY Lengths DEF Ids, Flags
  <1>6. Gentle(LuW(p, IxId(o)), NoIx)
    BY <1>5, GentleParts
  <1>7. Gentle(HeaderW(p, IxId(o), 0, {"final", "index", "used"}), NoIx)
    BY <1>5, GentleParts
  <1>8. Gentle(todo', NoIx)
    BY <1>1, <1>6, <1>7, GentleThen
  <1>9. \A g \in Pages : Ordered(todo', g)
    BY <1>8, OrderedGentle
  <1>10. \A x \in Objs : want'[x] = want[x] \/ Absent \in want'[x]
    BY <1>3
  <1>11. Guarded'
    BY <1>1, <1>4, <1>9, <1>10, GuardedStep DEF Watched
  <1> QED BY <1>4, <1>11 DEF Watched

LEMMA CallNew ==
  ASSUME NEW op, NEW o, NEW h, NEW begin, NEW end, NEW new
  PROVE  Call(op, o, h, begin, end, new).new = new /\ Call(op, o, h, begin, end, new).o = o
         /\ Call(op, o, h, begin, end, new).op = op
  BY DEF Call

LEMMA BeginAppendWatched ==
  ASSUME FlashSound, FlashSound', NEW o \in Objs, NEW k \in 1 .. MaxWrite, BeginAppend(o, k)
  PROVE  Watched'
  <1>1. PICK h, old, n : /\ job' = Call("append", o, h, n, n + k, old \o Fill(k))
                         /\ want' = [want EXCEPT ![o] = {old \o Fill(j) : j \in 0 .. k}]
                         /\ todo' = <<>>
    BY DEF BeginAppend, Start, Quiet
  <1>2. want \in [Objs -> SUBSET Contents] /\ k \in 0 .. k
    BY DEF FlashSound, TypeOK
  <1> DEFINE new == old \o Fill(k)
  <1>3. job'.new = new /\ job'.o = o
    <2>1. job' = Call("append", o, h, n, n + k, new)
      BY <1>1
    <2> HIDE DEF new
    <2> QED BY <2>1, CallNew
  <1>4. want'[o] = {old \o Fill(j) : j \in 0 .. k}
    BY <1>1, <1>2
  <1>5. Promise'
    BY <1>2, <1>3, <1>4 DEF Promise
  <1> QED BY <1>1, <1>5, QuietWatched

LEMMA BeginModifyWatched ==
  ASSUME FlashSound, FlashSound', NEW o \in Objs, NEW k \in 1 .. MaxWrite,
         NEW begin \in 0 .. MaxSize, BeginModify(o, begin, k)
  PROVE  Watched'
  <1> DEFINE over(old, j) == [x \in 1 .. Len(old) |->
                          IF x \in (begin + 1) .. (begin + j) THEN calls + 1 ELSE old[x]]
  <1>1. PICK h \in Headers(o), old \in Outcomes(o) :
          /\ begin + k <= Len(old)
          /\ job' = Call("modify", o, h, begin, begin + k, over(old, k))
          /\ want' = [want EXCEPT ![o] = {over(old, j) : j \in 0 .. k}]
    BY DEF BeginModify
  <1>2. todo' = <<>>
    BY DEF BeginModify, Start, Quiet
  <1> HIDE DEF over
  <1>3. want \in [Objs -> SUBSET Contents] /\ k \in 0 .. k
    BY DEF FlashSound, TypeOK
  <1>4. job'.new = over(old, k) /\ job'.o = o
    BY <1>1, CallNew
  <1>5. want'[o] = {over(old, j) : j \in 0 .. k}
    BY <1>1, <1>3
  <1>6. Promise'
    BY <1>3, <1>4, <1>5 DEF Promise
  <1> QED BY <1>2, <1>6, QuietWatched

LEMMA BeginTruncateWatched ==
  ASSUME FlashSound, Watched, FlashSound', NEW o \in Objs, NEW op \in {"truncate", "remove"},
         BeginTruncate(o, op)
  PROVE  Watched'
  <1>a. PICK h \in Pages : \E old, new, n :
          /\ new = IF op = "remove" THEN Absent ELSE <<>>
          /\ job' = Call(op, o, h, n, 0, new) /\ want' = [want EXCEPT ![o] = {old, new}]
          /\ todo' = IF op = "truncate" THEN <<>>
                     ELSE FlagsW(h, {"used", "index", "final", "ixdele"})
          /\ todo = <<>> /\ UNCHANGED flash
    BY DEF BeginTruncate, Start, Quiet, Headers
  <1>1. PICK old, new, n :
          /\ new = IF op = "remove" THEN Absent ELSE <<>>
          /\ job' = Call(op, o, h, n, 0, new) /\ want' = [want EXCEPT ![o] = {old, new}]
          /\ todo' = IF op = "truncate" THEN <<>>
                     ELSE FlagsW(h, {"used", "index", "final", "ixdele"})
          /\ todo = <<>> /\ UNCHANGED flash
    BY <1>a
  <1>2. want \in [Objs -> SUBSET Contents]
    BY DEF FlashSound, TypeOK
  <1>3. want'[o] = {old, new} /\ \A x \in Objs : x # o => want'[x] = want[x]
    BY <1>1, <1>2
  <1>4. Promise'
    <2>1. job'.new = new /\ job'.o = o
      BY <1>1, CallNew
    <2> QED BY <1>3, <2>1 DEF Promise
  <1>5. CASE op = "truncate"
    BY <1>1, <1>4, <1>5, QuietWatched
  <1>6. CASE op = "remove"
    <2>1. NoIx \notin Pages /\ {"used", "index", "final", "ixdele"} \in SUBSET Flags
      BY Lengths DEF Flags
    <2>2. Gentle(todo', NoIx)
      BY <1>1, <1>6, <2>1, GentleParts
    <2>3. \A g \in Pages : Ordered(todo', g)
      BY <2>2, OrderedGentle
    <2>4. \A x \in Objs : want'[x] = want[x] \/ Absent \in want'[x]
      BY <1>1, <1>3, <1>6
    <2>5. Guarded'
      BY <1>1, <1>4, <2>3, <2>4, GuardedStep DEF Watched
    <2> QED BY <1>4, <2>5 DEF Watched
  <1> QED BY <1>5, <1>6

LEMMA BeginGcWatched ==
  ASSUME FlashSound', NEW b, BeginGc(b)
  PROVE  Watched'
  <1>1. todo' = <<>> /\ job' = [op |-> "gc", block |-> b]
    BY DEF BeginGc, Start, Quiet
  <1>2. Promise'
    BY <1>1 DEF Promise, Writers
  <1> QED BY <1>1, <1>2, QuietWatched

-----------------------------------------------------------------------------
(* spiffs_object_append, spiffs_object_modify *)

LEMMA LoadWatched ==
  ASSUME FlashSound, Watched, FlashSound', todo = <<>>, job.op \in Writers, NEW i, Load(i)
  PROVE  Watched'
  <1>1. /\ todo' = <<>> /\ want' = want
        /\ \E p, c : job' = [job EXCEPT !.ix = i, !.ixp = p, !.cells = c]
    BY DEF Load, Keep
  <1>2. job \in CallShape
    BY JobKinds DEF FlashSound
  <1>3. job'.new = job.new /\ job'.o = job.o
    BY <1>1, <1>2, LocalsKept
  <1>4. Promise'
    BY <1>1, <1>3, PromiseKept DEF Watched
  <1> QED BY <1>1, <1>4, QuietWatched

LEMMA AppendLoadWatched ==
  ASSUME FlashSound, Watched, FlashSound', AppendLoad
  PROVE  Watched'
  <1>1. todo = <<>> /\ job.op = "append" /\ job.op \in Writers
    BY DEF AppendLoad, Running, Writers
  <1>2. Deciding
    BY <1>1, DecidingFrom
  <1>3. CASE AppendIx > 0 /\ FreshIx
    <2>1. PICK p \in Pages :
            /\ todo' = Allocate(p, IxId(job.o), AppendIx, {"final", "index"}, NoCells, TRUE)
            /\ job' = [job EXCEPT !.ix = AppendIx, !.ixp = p, !.cells = NoCells]
            /\ UNCHANGED <<flash, want>>
      BY <1>3 DEF AppendLoad, Keep
    <2>2. PICK h \in Pages : Appending(h)
      BY <1>1, <1>2, AppendingIs
    <2>3. job \in CallShape /\ job.o \in Objs /\ job.pos \in Nat
      BY <2>2 DEF Appending
    <2>4. /\ AppendIx \in Nat /\ IxId(job.o) \in Ids /\ {"final", "index"} \in SUBSET Flags
          /\ NoIx \notin Pages /\ NoCells \in [Cells -> Values]
      BY <2>3, IxSpansOf, Lengths, BlankPageType DEF AppendIx, Ids, Flags
    <2>5. Gentle(todo', NoIx)
      BY <2>1, <2>4, GentleAllocate
    <2>6. \A g \in Pages : Ordered(todo', g)
      BY <2>5, OrderedGentle
    <2>7. job'.new = job.new /\ job'.o = job.o
      BY <2>1, <2>3, LocalsKept
    <2> QED BY <1>1, <2>1, <2>6, <2>7, StepWatched
  <1>4. CASE ~(AppendIx > 0 /\ FreshIx)
    <2>1. Load(AppendIx)
      BY <1>4 DEF AppendLoad
    <2> QED BY <1>1, <2>1, LoadWatched
  <1> QED BY <1>3, <1>4

LEMMA AppendDataWatched ==
  ASSUME FlashSound, Watched, FlashSound', AppendData
  PROVE  Watched'
  <1>1. todo = <<>> /\ job.op = "append" /\ job.op \in Writers /\ UNCHANGED <<flash, want>>
    BY DEF AppendData, Running, Writers, Keep
  <1>2. PICK h \in Pages, s \in Spans, off \in 0 .. (U - 1), count \in Nat, m \in Nat :
          /\ AppendingData(h, s, off, count, m)
          /\ LET data == AppendedCells(off, count)
                 d == job.cells[IxEntry(s)]
                 moved == [job EXCEPT !.pos = @ + count]
             IN  \/ /\ off = 0
                    /\ \E p \in Pages :
                        /\ Take(p)
                        /\ todo' = Allocate(p, DataId(job.o), s, {"final"}, data, TRUE)
                        /\ job' = [moved EXCEPT !.cells[IxEntry(s)] = p]
                 \/ /\ off > 0 /\ DataOK(d, s)
                    /\ todo' = CellsW(d, data) /\ job' = moved /\ UNCHANGED cursor
    BY AppendDataIs
  <1> DEFINE data == AppendedCells(off, count)
             d == job.cells[IxEntry(s)]
  <1>3. /\ job.o \in Objs /\ s \in Nat /\ data \in [Cells -> Values] /\ job \in CallShape
    BY <1>2, AppendedText DEF AppendingData, Appending
  <1>4. NoIx \notin Pages /\ DataId(job.o) \in Ids /\ {"final"} \in SUBSET Flags
    BY <1>3, Lengths DEF Ids, Flags
  <1>5. \/ /\ \E p \in Pages :
                /\ todo' = Allocate(p, DataId(job.o), s, {"final"}, data, TRUE)
                /\ job' = [[job EXCEPT !.pos = @ + count] EXCEPT !.cells[IxEntry(s)] = p]
        \/ /\ d \in Pages /\ todo' = CellsW(d, data) /\ job' = [job EXCEPT !.pos = @ + count]
    BY <1>2 DEF DataOK
  <1> HIDE DEF data, d
  <1>6. job'.new = job.new /\ job'.o = job.o
    BY <1>3, <1>5 DEF CallShape
  <1>7. Gentle(todo', NoIx)
    <2>1. \A p \in Pages : Gentle(Allocate(p, DataId(job.o), s, {"final"}, data, TRUE), NoIx)
      BY <1>3, <1>4, GentleAllocate
    <2>2. \A p \in Pages : Gentle(CellsW(p, data), NoIx)
      BY <1>3, <1>4, GentleParts
    <2> QED BY <1>5, <2>1, <2>2
  <1>8. \A g \in Pages : Ordered(todo', g)
    BY <1>7, OrderedGentle
  <1> QED BY <1>1, <1>6, <1>8, StepWatched

LEMMA AppendStoreWatched ==
  ASSUME FlashSound, Watched, FlashSound', AppendStore
  PROVE  Watched'
  <1>1. UNCHANGED <<flash, want>> /\ job.op \in Writers
    BY DEF AppendStore, Keep, Running, Writers
  <1>2. PICK h \in Pages : Storing(h) /\ todo = <<>>
    BY StoringIs
  <1>3. /\ job \in CallShape /\ job.o \in Objs /\ job.hdr \in Pages /\ job.ixp \in Pages
        /\ flash[job.hdr] \in PageType /\ flash[job.ixp] \in PageType
        /\ job.cells \in [Cells -> Values] /\ job.pos \in Values
        /\ IsIx(flash, job.o, job.ix, job.ixp) /\ IsIx(flash, job.o, 0, job.hdr)
        /\ PagesOK(flash, job)
    BY <1>2, ZenonT(60) DEF Storing, Appending, Values
  <1>4. /\ HdrImageWith(job.pos) \in PageType /\ HdrImage(job.pos) \in PageType
        /\ HdrImageWith(job.pos).id = flash[job.hdr].id
        /\ HdrImage(job.pos).id = flash[job.hdr].id /\ IxImage \in PageType
    BY <1>3, ImagesTyped, ZenonT(60) DEF HdrImageWith, HdrImage, IxImage
  <1>5. flash[job.hdr].id \in Ids /\ flash[job.hdr].lu = IxId(job.o) /\ IxId(job.o) # Blank
        /\ NoIx \notin Pages
    <2>1. flash[job.hdr].lu = IxId(job.o)
      BY <1>3 DEF IsIx
    <2>2. flash[job.hdr].id = IxId(job.o)
      BY <1>3, <2>1, IxPage
    <2> QED BY <1>3, <2>1, <2>2, Lengths, ValuesAssumption DEF Ids
  <1>6. PICK h1 : job' = IF job.pos = job.end THEN Returning(job.new)
                         ELSE [job EXCEPT !.ix = NoIx, !.hdr = h1]
    BY DEF AppendStore
  <1>7. job'.new = job.new /\ job'.o = job.o
    BY <1>3, <1>6, LocalsKept
  <1>8. SUFFICES ASSUME NEW x \in Objs, NEW g \in Pages, HeaderIs(flash[g], x)
                 PROVE  Ordered(todo', g)
    BY <1>1, <1>2, <1>7, StepWatched
  <1>9. \/ todo' = PageW(job.hdr, HdrImageWith(job.pos))
        \/ \E p \in Pages :
             /\ Take(p)
             /\ todo' = IF job.ix = 0 THEN Move(job.hdr, p, HdrImageWith(job.pos))
                        ELSE PageW(job.ixp, IxImage) \o Move(job.hdr, p, HdrImage(job.pos))
    BY DEF AppendStore
  <1>10. CASE todo' = PageW(job.hdr, HdrImageWith(job.pos))
    <2>1. Gentle(todo', NoIx)
      BY <1>3, <1>4, <1>5, <1>10, GentleParts
    <2> QED BY <2>1, OrderedGentle
  <1>11. ASSUME NEW p \in Pages, Take(p),
                todo' = IF job.ix = 0 THEN Move(job.hdr, p, HdrImageWith(job.pos))
                        ELSE PageW(job.ixp, IxImage) \o Move(job.hdr, p, HdrImage(job.pos))
         PROVE  Ordered(todo', g)
    <2>1. p # job.hdr
      BY <1>5, <1>11 DEF Take, NextFree, FreePages
    <2>2. CASE job.ix = 0
      <3>1. Ordered(Move(job.hdr, p, HdrImageWith(job.pos)), g)
        BY <1>3, <1>4, <1>5, <2>1, OrderedMove
      <3> QED BY <1>11, <2>2, <3>1
    <2>3. CASE job.ix # 0
      <3> DEFINE s == Move(job.hdr, p, HdrImage(job.pos))
                 a == PageW(job.ixp, IxImage)
      <3>1. s \in Seq(WriteType) /\ Ordered(s, g)
        BY <1>3, <1>4, <1>5, <2>1, OrderedMove
      <3>2. g # job.ixp
        BY <1>3, <1>8, <2>3 DEF IsIx, HeaderIs
      <3>3. Gentle(a, g)
        BY <1>3, <1>4, <3>2, GentleParts
      <3> HIDE DEF s, a
      <3>4. Ordered(a \o s, g)
        BY <3>1, <3>3, OrderedAfter DEF Gentle
      <3> QED BY <1>11, <2>3, <3>4 DEF s, a
    <2> QED BY <2>2, <2>3
  <1> QED BY <1>9, <1>10, <1>11

LEMMA ModifyLoadWatched ==
  ASSUME FlashSound, Watched, FlashSound', ModifyLoad
  PROVE  Watched'
  <1>1. todo = <<>> /\ job.op \in Writers /\ Load(IxSpan(job.pos \div U))
    BY DEF ModifyLoad, Running, Writers
  <1> QED BY <1>1, LoadWatched

LEMMA ModifyDataWatched ==
  ASSUME FlashSound, Watched, FlashSound', ModifyData
  PROVE  Watched'
  <1>1. todo = <<>> /\ job.op \in Writers /\ UNCHANGED <<flash, want>>
    BY DEF ModifyData, Running, Writers, Keep
  <1>2. PICK h \in Pages, n \in 0 .. MaxSize, d \in Pages, p \in Pages : \E s, off, count, m :
           /\ Modifying(h, n, s, off, count, m, d) /\ Take(p)
           /\ todo' = (IF count = U
                       THEN Allocate(p, DataId(job.o), s, {}, AppendedCells(off, count), TRUE)
                       ELSE Allocate(p, DataId(job.o), s, {}, RestCells(off, count, d), FALSE)
                              \o CellsW(p, AppendedCells(off, count)) \o FlagsW(p, {"final"}))
                      \o Delete(d)
           /\ job' = [job EXCEPT !.pos = @ + count, !.cells[IxEntry(s)] = p]
    BY ModifyDataIs
  <1>3. PICK s, off, count, m :
           /\ Modifying(h, n, s, off, count, m, d) /\ Take(p)
           /\ todo' = (IF count = U
                       THEN Allocate(p, DataId(job.o), s, {}, AppendedCells(off, count), TRUE)
                       ELSE Allocate(p, DataId(job.o), s, {}, RestCells(off, count, d), FALSE)
                              \o CellsW(p, AppendedCells(off, count)) \o FlagsW(p, {"final"}))
                      \o Delete(d)
           /\ job' = [job EXCEPT !.pos = @ + count, !.cells[IxEntry(s)] = p]
    BY <1>2
  <1> DEFINE data == AppendedCells(off, count)
             rest == RestCells(off, count, d)
             t1 == Allocate(p, DataId(job.o), s, {}, data, TRUE)
             t2 == Allocate(p, DataId(job.o), s, {}, rest, FALSE)
             t3 == CellsW(p, data)
             t4 == FlagsW(p, {"final"})
             a == IF count = U THEN t1 ELSE (t2 \o t3) \o t4
  <1>4. data \in [Cells -> Values] /\ rest \in [Cells -> Values]
    BY <1>3, RewrittenAre
  <1>5. job \in CallShape /\ job.o \in Objs /\ s \in Nat /\ IsData(flash, job.o, s, d)
    <2>1. Modifying(h, n, s, off, count, m, d)
      BY <1>3
    <2> QED BY <2>1, ZenonT(60) DEF Modifying, Portions
  <1>6. d # p
    <2>1. DataId(job.o) # Blank
      BY <1>5, ValuesAssumption DEF Ids
    <2> QED BY <1>3, <1>5, <2>1 DEF IsData, Take, NextFree, FreePages
  <1>7. DataId(job.o) \in Ids /\ {} \in SUBSET Flags /\ {"final"} \in SUBSET Flags
    BY <1>5 DEF Ids, Flags
  <1>8. todo' = a \o Delete(d) /\ job' = [job EXCEPT !.pos = @ + count, !.cells[IxEntry(s)] = p]
    BY <1>3
  <1> HIDE DEF data, rest
  <1>9. Gentle(t1, d) /\ Gentle(t2, d)
    BY <1>4, <1>5, <1>6, <1>7, GentleAllocate
  <1>10. Gentle(t3, d) /\ Gentle(t4, d)
    BY <1>4, <1>6, <1>7, GentleParts
  <1> HIDE DEF t1, t2, t3, t4
  <1>11. Gentle(a, d)
    <2>1. Gentle(t2 \o t3, d)
      BY <1>9, <1>10, GentleThen
    <2>2. Gentle((t2 \o t3) \o t4, d)
      BY <1>10, <2>1, GentleThen
    <2> QED BY <1>9, <2>2
  <1> HIDE DEF a
  <1>12. \A g \in Pages : Ordered(todo', g)
    BY <1>8, <1>11, OrderedDelete
  <1>13. job'.new = job.new /\ job'.o = job.o
    BY <1>5, <1>8 DEF CallShape
  <1> QED BY <1>1, <1>12, <1>13, StepWatched

\* The index page that is loaded moves.
LEMMA IxMoveOrdered ==
  ASSUME flash \in Flashes, PagesOK(flash, job), NEW o \in Objs, NEW i,
         job.ixp \in Pages, IsIx(flash, o, i, job.ixp), job.cells \in [Cells -> Values],
         NEW p, Take(p), NEW g \in Pages
  PROVE  Ordered(Move(job.ixp, p, IxImage), g)
  <1>1. p \in Pages /\ flash[p].lu = Blank
    BY DEF Take, NextFree, FreePages
  <1>2. flash[job.ixp].lu = IxId(o) /\ flash[job.ixp].id = IxId(o) /\ flash[job.ixp] \in PageType
    BY IxPage DEF IsIx, Flashes
  <1>3. IxId(o) \in Ids /\ IxId(o) # Blank
    BY ValuesAssumption DEF Ids
  <1>4. IxImage \in PageType /\ IxImage.id = flash[job.ixp].id
    <2>1. 0 \in Values
      BY DEF Values
    <2> QED BY <1>2, <2>1, ImagesTyped DEF IxImage
  <1> QED BY <1>1, <1>2, <1>3, <1>4, OrderedMove

LEMMA ModifyStoreWatched ==
  ASSUME FlashSound, Watched, FlashSound', ModifyStore
  PROVE  Watched'
  <1>1. /\ todo = <<>> /\ job.op = "modify" /\ job.ix # NoIx /\ job.op \in Writers
        /\ UNCHANGED <<flash, want>>
    BY DEF ModifyStore, Running, Keep, Writers
  <1>2. PICK p \in Pages :
          /\ Take(p) /\ todo' = Move(job.ixp, p, IxImage)
          /\ job' = IF job.pos = job.end THEN Returning(job.new) ELSE [job EXCEPT !.ix = NoIx]
    BY DEF ModifyStore
  <1>3. /\ Deciding /\ flash \in Flashes /\ PagesOK(flash, job) /\ JobShape(job)
        /\ LoadedOK(flash, job)
    BY <1>1, DecidingFrom DEF Deciding
  <1>4. job \in CallShape /\ Loaded(job)
    BY <1>1, <1>3, CallIs
  <1>5. job.o \in Objs /\ job.ixp \in Pages /\ job.cells \in [Cells -> Values]
    BY <1>4, CallParts
  <1>6. IsIx(flash, job.o, job.ix, job.ixp)
    BY <1>3, <1>4 DEF LoadedOK
  <1>7. \A g \in Pages : Ordered(todo', g)
    BY <1>2, <1>3, <1>5, <1>6, IxMoveOrdered
  <1>8. job'.new = job.new /\ job'.o = job.o
    BY <1>2, <1>4, LocalsKept
  <1> QED BY <1>1, <1>7, <1>8, StepWatched

-----------------------------------------------------------------------------
(* spiffs_object_truncate *)

LEMMA TruncateLoadWatched ==
  ASSUME FlashSound, Watched, FlashSound', TruncateLoad
  PROVE  Watched'
  <1>1. todo = <<>> /\ job.op \in Writers /\ Load(LastIx)
    BY DEF TruncateLoad, Truncating, Writers
  <1> QED BY <1>1, LoadWatched

\* The header moves, with another size.
LEMMA HdrMoveOrdered ==
  ASSUME flash \in Flashes, PagesOK(flash, job), NEW o \in Objs, job.hdr \in Pages,
         IsIx(flash, o, 0, job.hdr), NEW size \in Values, NEW p, Take(p), NEW g \in Pages
  PROVE  /\ Move(job.hdr, p, HdrImage(size)) \in Seq(WriteType)
         /\ Ordered(Move(job.hdr, p, HdrImage(size)), g)
         /\ Ordered(Move(job.hdr, p, [HdrImage(size) EXCEPT !.cells = NoCells]), g)
  <1>1. p \in Pages /\ flash[p].lu = Blank
    BY DEF Take, NextFree, FreePages
  <1>2. flash[job.hdr].lu = IxId(o) /\ flash[job.hdr].id = IxId(o) /\ flash[job.hdr] \in PageType
    BY IxPage DEF IsIx, Flashes
  <1>3. IxId(o) \in Ids /\ IxId(o) # Blank /\ NoCells \in [Cells -> Values]
    BY ValuesAssumption, BlankPageType DEF Ids
  <1> DEFINE x == HdrImage(size)
             y == [HdrImage(size) EXCEPT !.cells = NoCells]
  <1>4. x \in PageType /\ x.id = flash[job.hdr].id /\ y \in PageType /\ y.id = flash[job.hdr].id
    BY <1>2, <1>3, ImagesTyped DEF HdrImage
  <1> HIDE DEF x, y
  <1>5. Move(job.hdr, p, x) \in Seq(WriteType) /\ Ordered(Move(job.hdr, p, x), g)
    BY <1>1, <1>2, <1>3, <1>4, OrderedMove
  <1>6. Ordered(Move(job.hdr, p, y), g)
    BY <1>1, <1>2, <1>3, <1>4, OrderedMove
  <1> QED BY <1>5, <1>6 DEF x, y

LEMMA TruncateIxWatched ==
  ASSUME FlashSound, Watched, FlashSound', TruncateIx
  PROVE  Watched'
  <1>1. /\ Truncating /\ job.ix # NoIx /\ job.ix # IxSpan(PageSpan(job.pos)) /\ todo = <<>>
        /\ UNCHANGED <<flash, want>> /\ job.op \in Writers
    BY DEF TruncateIx, Keep, LastIx, Truncating, Writers
  <1>2. Shrinking
    BY <1>1, ShrinkingIs
  <1>3. /\ job \in CallShape /\ job.o \in Objs /\ job.hdr \in Pages /\ job.ixp \in Pages
        /\ flash \in Flashes /\ PagesOK(flash, job) /\ IsIx(flash, job.o, 0, job.hdr)
        /\ IsIx(flash, job.o, job.ix, job.ixp) /\ job.pos \in Values /\ NoTwins(flash)
    <2>1. job.pos \in 0 .. MaxSize
      BY <1>2 DEF Shrinking
    <2>2. job.pos \in Values
      BY <2>1, Lengths DEF Values
    <2> QED BY <1>1, <1>2, <2>2, ZenonT(60) DEF Shrinking
  <1>4. job.hdr # job.ixp
    BY <1>1, <1>2, IxDropped DEF IxGone
  <1>5. \/ todo' = Delete(job.ixp) /\ job' = [job EXCEPT !.ix = NoIx]
        \/ \E p : /\ Take(p) /\ todo' = Delete(job.ixp) \o Move(job.hdr, p, HdrImage(job.pos))
                  /\ job' = [job EXCEPT !.ix = NoIx, !.hdr = p]
    BY DEF TruncateIx
  <1>6. job'.new = job.new /\ job'.o = job.o
    <2>1. \E p : job' = [job EXCEPT !.ix = NoIx] \/ job' = [job EXCEPT !.ix = NoIx, !.hdr = p]
      BY <1>5
    <2> QED BY <1>3, <2>1 DEF CallShape
  <1>7. SUFFICES ASSUME NEW x \in Objs, NEW g \in Pages, HeaderIs(flash[g], x)
                 PROVE  Ordered(todo', g)
    BY <1>1, <1>6, StepWatched
  <1>8. CASE todo' = Delete(job.ixp)
    BY <1>3, <1>8, OrderedOnlyDelete
  <1>9. ASSUME NEW p, Take(p), todo' = Delete(job.ixp) \o Move(job.hdr, p, HdrImage(job.pos))
        PROVE  Ordered(todo', g)
    <2> DEFINE s == Move(job.hdr, p, HdrImage(job.pos))
               a == Delete(job.ixp)
    <2>1. s \in Seq(WriteType) /\ Ordered(s, g)
      BY <1>3, <1>9, HdrMoveOrdered
    <2>2. g # job.ixp
      <3>1. SUFFICES ASSUME g = job.ixp PROVE FALSE
        OBVIOUS
      <3>2. IsIx(flash, job.o, 0, job.ixp)
        BY <1>3, <1>7, <3>1 DEF IsIx, HeaderIs
      <3> QED BY <1>3, <1>4, <3>2, OneIx
    <2>3. a \in Seq(WriteType) /\ \A w \in Writes(a) : w.page # g
      BY <1>3, <2>2, DeleteOf
    <2> HIDE DEF s, a
    <2>4. Ordered(a \o s, g)
      BY <2>1, <2>3, OrderedAfter
    <2> QED BY <1>9, <2>4 DEF s, a
  <1> QED BY <1>5, <1>8, <1>9

LEMMA TruncateDataWatched ==
  ASSUME FlashSound, Watched, FlashSound', TruncateData
  PROVE  Watched'
  <1>1. /\ Truncating /\ todo = <<>> /\ UNCHANGED <<flash, want>> /\ job.op \in Writers
    BY DEF TruncateData, Keep, Truncating, Writers
  <1>2. Shrinking
    BY <1>1, ShrinkingIs
  <1>3. job \in CallShape
    BY <1>2 DEF Shrinking
  <1>4. PICK d, c, m : /\ todo' = <<>> \/ (d \in Pages /\ todo' = Delete(d))
                       /\ job' = [job EXCEPT !.cells[c] = Blank, !.pos = m]
    BY DEF TruncateData, DataOK
  <1>5. job'.new = job.new /\ job'.o = job.o
    BY <1>3, <1>4 DEF CallShape
  <1>6. \A g \in Pages : Ordered(todo', g)
    BY <1>4, OrderedNone, OrderedOnlyDelete
  <1> QED BY <1>1, <1>5, <1>6, StepWatched

LEMMA TruncateStoreWatched ==
  ASSUME FlashSound, Watched, FlashSound', TruncateStore
  PROVE  Watched'
  <1>1. /\ Truncating /\ todo = <<>> /\ UNCHANGED <<flash, want>> /\ job.op \in Writers
        /\ job' = Returning(job.new)
    BY DEF TruncateStore, Keep, Truncating, Writers
  <1>2. Shrinking
    BY <1>1, ShrinkingIs
  <1>3. /\ job \in CallShape /\ job.o \in Objs /\ job.hdr \in Pages
        /\ flash \in Flashes /\ PagesOK(flash, job) /\ IsIx(flash, job.o, 0, job.hdr)
    BY <1>2, ZenonT(60) DEF Shrinking
  <1>4. job'.new = job.new /\ job'.o = job.o
    BY <1>1, <1>3, LocalsKept
  <1>5. \/ todo' = Delete(job.hdr)
        \/ \E p : Take(p) /\ todo' = Move(job.hdr, p, [HdrImage(Blank) EXCEPT !.cells = NoCells])
    BY DEF TruncateStore
  <1>6. ASSUME NEW g \in Pages PROVE Ordered(todo', g)
    <2>1. Blank \in Values
      BY DEF Values
    <2> QED BY <1>3, <1>5, <2>1, HdrMoveOrdered, OrderedOnlyDelete
  <1> QED BY <1>1, <1>4, <1>6, StepWatched

-----------------------------------------------------------------------------
(* The collector *)

LEMMA GcFindWatched ==
  ASSUME FlashSound, Watched, FlashSound', GcFind
  PROVE  Watched'
  <1> DEFINE p == Min(DataIn(job.block))
  <1>1. /\ Running("gc") /\ todo = <<>> /\ job.op = "gc" /\ DataIn(job.block) # {}
        /\ UNCHANGED <<flash, want>>
    BY DEF GcFind, Running, Keep
  <1>2. /\ todo' = <<>> \/ todo' = Delete(p)
        /\ job' = job \/ job'.op = "gc move"
    <2>1. \/ todo' = Delete(p) /\ UNCHANGED job
          \/ /\ UNCHANGED todo
             /\ \E b, o, i, q, c : job' = [op |-> "gc move", block |-> b, o |-> o, ix |-> i,
                                         ixp |-> q, cells |-> c]
      BY DEF GcFind
    <2>2. ASSUME NEW b, NEW o, NEW i, NEW q, NEW c,
                 job' = [op |-> "gc move", block |-> b, o |-> o, ix |-> i, ixp |-> q, cells |-> c]
          PROVE  job'.op = "gc move"
      BY <2>2
    <2> HIDE DEF p
    <2> QED BY <1>1, <2>1, <2>2, ZenonT(60)
  <1>3. p \in Pages
    <2>1. UsedIn(job.block) \in SUBSET Pages
      BY <1>1, CollectingIs DEF Collecting
    <2>2. DataIn(job.block) \in SUBSET Pages
      BY <2>1 DEF DataIn
    <2> QED BY <1>1, <2>2, LeastPage DEF DataIn
  <1> HIDE DEF p
  <1>4. \A g \in Pages : Ordered(todo', g)
    BY <1>2, <1>3, OrderedNone, OrderedOnlyDelete
  <1>5. job'.op \notin Writers \cup {"return"}
    BY <1>1, <1>2 DEF Writers
  <1> QED BY <1>1, <1>4, <1>5, StepWatched

\* A page in use that is copied, or deleted.
LEMMA RawMoveOrdered ==
  ASSUME flash \in Flashes, NEW p \in Pages, flash[p].lu \in Ids,
         \/ todo' = Delete(p)
         \/ \E q : Take(q) /\ todo' = MoveRaw(p, q, flash[p].lu),
         NEW g \in Pages
  PROVE  Ordered(todo', g)
  <1>1. CASE todo' = Delete(p)
    BY <1>1, OrderedOnlyDelete
  <1>2. ASSUME NEW q, Take(q), todo' = MoveRaw(p, q, flash[p].lu) PROVE Ordered(todo', g)
    <2>1. q \in Pages /\ q # p
      BY <1>2, ValuesAssumption DEF Take, NextFree, FreePages
    <2> QED BY <1>2, <2>1, OrderedMoveRaw
  <1> QED BY <1>1, <1>2

LEMMA GcMoveDataWatched ==
  ASSUME FlashSound, Watched, FlashSound', GcMoveData
  PROVE  Watched'
  <1> DEFINE p == Min(GcMovable)
  <1>1. /\ todo = <<>> /\ job.op = "gc move" /\ GcMovable # {} /\ UNCHANGED <<flash, want>>
    BY DEF GcMoveData, Running, Keep
  <1>2. \/ todo' = Delete(p)
        \/ \E q : Take(q) /\ todo' = MoveRaw(p, q, flash[p].lu)
    BY <1>1 DEF GcMoveData
  <1>3. Deciding /\ JobShape(job) /\ flash \in Flashes
    BY <1>1, DecidingFrom DEF Deciding
  <1>4. job \in MoveShape
    BY <1>1, <1>3, JobKinds
  <1>5. p \in Pages /\ flash[p].lu \in Ids
    <2>1. GcMovable \subseteq BlockPages(job.block)
      BY DEF GcMovable, DataIn, UsedIn
    <2>2. GcMovable \in SUBSET Pages
      BY <1>4, <2>1, BlockIn, MoveParts
    <2>3. p \in GcMovable
      BY <1>1, <2>2, LeastPage
    <2> QED BY <1>4, <2>2, <2>3, MoveParts DEF GcMovable, Ids
  <1> HIDE DEF p
  <1>6. \A g \in Pages : Ordered(todo', g)
    BY <1>2, <1>3, <1>5, RawMoveOrdered
  <1>7. job'.op \notin Writers \cup {"return"}
    <2>1. \E c, v : job' = [job EXCEPT !.cells[c] = v]
      BY DEF GcMoveData
    <2>2. job'.op = job.op
      BY <1>4, <2>1 DEF MoveShape
    <2> QED BY <1>1, <2>2 DEF Writers
  <1> QED BY <1>1, <1>6, <1>7, StepWatched

LEMMA GcStoreWatched ==
  ASSUME FlashSound, Watched, FlashSound', GcStore
  PROVE  Watched'
  <1>1. /\ todo = <<>> /\ job.op = "gc move" /\ UNCHANGED <<flash, want>> /\ job'.op = "gc"
    BY DEF GcStore, Running, Keep
  <1>2. PICK p : Take(p) /\ todo' = Move(job.ixp, p, IxImage)
    BY DEF GcStore
  <1>3. /\ Deciding /\ JobShape(job) /\ flash \in Flashes /\ PagesOK(flash, job)
        /\ LoadedOK(flash, job)
    BY <1>1, DecidingFrom DEF Deciding
  <1>4. job \in MoveShape
    BY <1>1, <1>3, JobKinds
  <1>5. job.o \in Objs /\ job.ix \in Nat /\ job.ixp \in Pages /\ job.cells \in [Cells -> Values]
    BY <1>4, MoveParts
  <1>6. Loaded(job)
    <2>1. \A x \in Nat : x # NoIx
      BY DEF NoIx
    <2> QED BY <1>1, <1>5, <2>1 DEF Loaded
  <1>7. IsIx(flash, job.o, job.ix, job.ixp)
    BY <1>3, <1>6 DEF LoadedOK
  <1>8. \A g \in Pages : Ordered(todo', g)
    BY <1>2, <1>3, <1>5, <1>7, IxMoveOrdered
  <1>9. job'.op \notin Writers \cup {"return"}
    BY <1>1 DEF Writers
  <1> QED BY <1>1, <1>8, <1>9, StepWatched

LEMMA GcMoveIxWatched ==
  ASSUME FlashSound, Watched, FlashSound', GcMoveIx
  PROVE  Watched'
  <1> DEFINE p == Min(UsedIn(job.block))
  <1>1. /\ Running("gc") /\ todo = <<>> /\ job.op = "gc" /\ UsedIn(job.block) # {} /\ job' = job
        /\ UNCHANGED <<flash, want>>
    BY DEF GcMoveIx, Running, Keep
  <1>2. \/ todo' = Delete(p)
        \/ \E q : Take(q) /\ todo' = MoveRaw(p, q, flash[p].lu)
    BY DEF GcMoveIx
  <1>3. flash \in Flashes /\ PagesOK(flash, job) /\ UsedIn(job.block) \in SUBSET Pages
    BY <1>1, CollectingIs DEF Collecting
  <1>4. p \in Pages /\ p \in UsedIn(job.block)
    BY <1>1, <1>3, LeastPage
  <1>5. flash[p].lu \in Ids
    <2>1. flash[p].lu # Garbled
      BY <1>3, <1>4 DEF PagesOK, PageOK, Legible
    <2>2. flash[p].lu \notin {Blank, Deleted}
      BY <1>4 DEF UsedIn
    <2>3. flash[p] \in PageType
      BY <1>3, <1>4 DEF Flashes
    <2> QED BY <2>1, <2>2, <2>3, PageParts
  <1> HIDE DEF p
  <1>6. \A g \in Pages : Ordered(todo', g)
    BY <1>2, <1>3, <1>4, <1>5, RawMoveOrdered
  <1>7. job'.op \notin Writers \cup {"return"}
    BY <1>1 DEF Writers
  <1> QED BY <1>1, <1>6, <1>7, StepWatched

LEMMA GcEraseWatched ==
  ASSUME FlashSound, FlashSound', GcEraseLookup \/ GcErasePages
  PROVE  Watched'
  <1>1. todo' = <<>> /\ job'.op \in {"erase", "idle"}
    <2>1. CASE GcEraseLookup
      <3>1. JobShape(job) /\ job.op = "gc" /\ job' = [job EXCEPT !.op = "erase"]
            /\ todo = <<>> /\ todo' = todo
        BY <2>1 DEF GcEraseLookup, Running, FlashSound
      <3>2. job \in GcShape
        BY <3>1, JobKinds
      <3> QED BY <3>1, <3>2 DEF GcShape
    <2>2. CASE GcErasePages
      BY <2>2, IdleShape DEF GcErasePages, Running
    <2> QED BY <2>1, <2>2
  <1>2. Promise'
    BY <1>1 DEF Promise, Writers
  <1> QED BY <1>1, <1>2, QuietWatched

LEMMA NextWatched ==
  ASSUME FlashSound, Watched, [Next]_vars
  PROVE  Watched'
  <1>0. FlashSound'
    BY NextSound
  <1>1. CASE BeginCall
    <2>1. CASE \E o \in Objs : Create(o)
      BY <1>0, <2>1, CreateWatched
    <2>2. CASE \E o \in Objs, k \in 1 .. MaxWrite : BeginAppend(o, k)
      BY <1>0, <2>2, BeginAppendWatched
    <2>3. CASE \E o \in Objs, k \in 1 .. MaxWrite, n \in 0 .. MaxSize : BeginModify(o, n, k)
      BY <1>0, <2>3, BeginModifyWatched
    <2>4. CASE \E o \in Objs, op \in {"truncate", "remove"} : BeginTruncate(o, op)
      BY <1>0, <2>4, BeginTruncateWatched
    <2>5. CASE \E b \in 0 .. (B - 1) : BeginGc(b)
      BY <1>0, <2>5, BeginGcWatched
    <2> QED BY <1>1, <2>1, <2>2, <2>3, <2>4, <2>5 DEF BeginCall
  <1>2. CASE CallStep
    <2>1. CASE Write \/ Return
      BY <1>0, <2>1, WriteWatched, ReturnWatched
    <2>2. CASE AppendLoad \/ AppendData \/ AppendStore
      BY <1>0, <2>2, AppendLoadWatched, AppendDataWatched, AppendStoreWatched
    <2>3. CASE ModifyLoad \/ ModifyData \/ ModifyStore
      BY <1>0, <2>3, ModifyLoadWatched, ModifyDataWatched, ModifyStoreWatched
    <2>4. CASE TruncateLoad \/ TruncateIx \/ TruncateData \/ TruncateStore
      BY <1>0, <2>4, TruncateLoadWatched, TruncateIxWatched, TruncateDataWatched,
         TruncateStoreWatched
    <2>5. CASE GcFind \/ GcMoveData \/ GcStore \/ GcMoveIx
      BY <1>0, <2>5, GcFindWatched, GcMoveDataWatched, GcStoreWatched, GcMoveIxWatched
    <2>6. CASE GcEraseLookup \/ GcErasePages
      BY <1>0, <2>6, GcEraseWatched
    <2> QED BY <1>2, <2>1, <2>2, <2>3, <2>4, <2>5, <2>6 DEF CallStep
  <1>3. CASE UNCHANGED vars
    <2>1. flash' = flash /\ todo' = todo /\ job' = job /\ want' = want
      BY <1>3 DEF vars
    <2> QED BY <2>1 DEF Watched, Guarded, Promise
  <1> QED BY <1>1, <1>2, <1>3 DEF Next

\* FlashIInv: between any two writes flash is not spoiled and is whole once the writes decided
\* on are made, and the next ones leave every file its header.
THEOREM FlashIInvAlways == Spec => []FlashIInv
  <1>1. Init => FlashSound /\ Watched
    <2>1. SUFFICES ASSUME Init PROVE FlashSound /\ Watched
      OBVIOUS
    <2>2. FlashSound
      BY <2>1, InitSound
    <2>3. Guarded
      BY <2>1 DEF Init, Guarded
    <2>4. Promise
      BY <2>1, IdleShape DEF Init, Promise, Writers
    <2> QED BY <2>2, <2>3, <2>4 DEF Watched
  <1>2. FlashSound /\ Watched /\ [Next]_vars => (FlashSound /\ Watched)'
    BY NextSound, NextWatched
  <1>3. FlashInv /\ FlashSound /\ Watched => FlashIInv
    BY DEF FlashIInv
  <1> QED BY <1>1, <1>2, <1>3, FlashInvAlways, PTL DEF Spec

\* AlwaysThere: whatever write comes next, a file that no call creates or removes has a
\* complete header, an old one or its successor.
THEOREM AlwaysThereAlways == Spec => []AlwaysThere
  <1>1. FlashIInv => AlwaysThere
    <2>1. SUFFICES ASSUME FlashSound, Watched, NEW x \in Objs, Absent \notin want[x]
                   PROVE  Headers(x) # {}
      BY DEF FlashIInv, AlwaysThere
    <2>2. flash \in Flashes /\ todo \in Seq(WriteType)
      BY <2>1 DEF FlashSound, TypeOK, Flashes, WriteType
    <2>3. 0 \in 0 .. Len(todo) /\ Made(todo, 0) = {}
      BY <2>2 DEF Made
    <2>4. Headed(After(flash, {}), x)
      BY <2>1, <2>3 DEF Watched, Guarded, Steady
    <2>5. Headed(flash, x)
      BY <2>2, <2>4, AfterNone
    <2> QED BY <2>5, HeaderFound DEF Headed
  <1> QED BY <1>1, FlashIInvAlways, PTL
=============================================================================
