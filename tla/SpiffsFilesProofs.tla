------------------------- MODULE SpiffsFilesProofs --------------------------
(***************************************************************************)
(* SpiffsFiles, for every number of files, descriptors and cache pages and *)
(* every page size: no descriptor has the cache page of another file, what *)
(* is cached can be reached and stored, and descriptors know the length    *)
(* and the index header of their file.                                     *)
(*                                                                         *)
(* A call takes the state through several functions; so the invariant,     *)
(* CallInv, is one of states as records, which each of these functions     *)
(* keeps, or restores.                                                     *)
(*                                                                         *)
(* In the second half, SpiffsFiles implements SpiffsBytes: each call on    *)
(* descriptors, with what it does to cache pages and to other descriptors, *)
(* is one of the calls on bytes.                                           *)
(***************************************************************************)
EXTENDS SpiffsFiles, SequenceTheorems, FiniteSetTheorems, WellFoundedInduction, TLAPS

\* Callers do not mix direct descriptors with others, do not open by entry what
\* no event reaches, and neither truncate nor write beyond what is cached; and
\* an index page can always be stored.
Careful == Uses \subseteq {"rename", "glance"} /\ Failures \subseteq {"room", "page"}

FileType == [data : Seqs(MaxSize), size : {Undef} \cup 0 .. MaxSize, exists : BOOLEAN]
FdType == [open : BOOLEAN, obj : Objs \cup {NoObj},
           size : {Undef} \cup 0 .. MaxSize, at : 0 .. MaxSize,
           append : BOOLEAN, direct : BOOLEAN, cp : {NoPage} \cup CachePages,
           hdr : BOOLEAN, used : BOOLEAN]
PageType == [obj : Objs \cup {NoObj}, off : 0 .. MaxSize, data : Seqs(PageSize)]
State == [files : [Objs -> FileType], fds : [Descriptors -> FdType], pages : [CachePages -> PageType]]

\* A closed descriptor has no cache page to leave to the next that is opened as
\* it; an open one is of a file that exists, hears of its events, and shares
\* the way it writes with the others of its file.
Handles(s) ==
    /\ \A d \in Descriptors : ~s.fds[d].open => s.fds[d].cp = NoPage
    /\ \A d \in Descriptors : s.fds[d].open =>
           /\ s.fds[d].obj \in Objs /\ s.files[s.fds[d].obj].exists
           /\ s.fds[d].used /\ s.fds[d].hdr
    /\ \A c, d \in Descriptors :
           s.fds[c].open /\ s.fds[d].open /\ s.fds[c].obj = s.fds[d].obj => s.fds[c].direct = s.fds[d].direct

\* The cache pages in use: one for a file, with descriptors of the file on it.
Caches(s) ==
    /\ \A d \in Descriptors : s.fds[d].open /\ s.fds[d].cp # NoPage =>
           s.pages[s.fds[d].cp].obj = s.fds[d].obj
    /\ \A p, q \in InUse(s) : s.pages[p].obj = s.pages[q].obj => p = q
    /\ \A p \in InUse(s) : \E d \in Descriptors : s.fds[d].open /\ ~s.fds[d].direct /\ s.fds[d].cp = p

\* Lengths: the same in flash and in all descriptors.
Lengths(s) ==
    /\ \A o \in Objs : Length(s.files[o].size) = Len(s.files[o].data) /\ s.files[o].size # 0
    /\ \A d \in Descriptors : s.fds[d].open => Length(s.fds[d].size) = Len(s.files[s.fds[d].obj].data)

\* What is cached begins within the file.
Fits(s) ==
    \A p \in InUse(s) : s.pages[p].off <= Len(s.files[s.pages[p].obj].data) /\ End(s.pages[p]) <= MaxSize

\* A descriptor that will write on in a cache page is within the file or that page.
Within(s, d) ==
    s.fds[d].open /\ ~s.fds[d].append /\ s.fds[d].cp # NoPage =>
        s.fds[d].at <= Larger(Len(s.files[s.fds[d].obj].data), End(s.pages[s.fds[d].cp]))

CoreInv(s) == s \in State /\ Handles(s) /\ Caches(s) /\ Lengths(s) /\ Fits(s)
CallInv(s) == CoreInv(s) /\ \A d \in Descriptors : Within(s, d)

GotType == [obj : Objs \cup {NoObj}, data : Seqs(MaxSize)]
StateInv == CallInv(now) /\ got \in GotType

-----------------------------------------------------------------------------
(* Sequences and records *)

LEMMA Constants ==
  /\ NoObj \notin Objs /\ D \in Nat /\ K \in Nat
  /\ PageSize \in Nat /\ PageSize >= 2 /\ MaxSize \in Nat /\ MaxLen \in Nat
  BY FilesAssumption

LEMMA SeqsAre ==
  ASSUME NEW n \in Nat, NEW q
  PROVE  q \in Seqs(n) <=> q \in Seq(Data) /\ Len(q) <= n
  <1>1. ASSUME q \in Seqs(n)  PROVE q \in Seq(Data) /\ Len(q) <= n
    <2>1. PICK m \in 0 .. n : q \in [1 .. m -> Data]
      BY <1>1 DEF Seqs
    <2> QED BY <2>1
  <1>2. ASSUME q \in Seq(Data), Len(q) <= n  PROVE q \in Seqs(n)
    <2>1. Len(q) \in 0 .. n /\ q \in [1 .. Len(q) -> Data]
      BY <1>2
    <2> QED BY Zenon, <2>1 DEF Seqs
  <1> QED BY <1>1, <1>2

LEMMA NoData ==
  ASSUME NEW n \in Nat
  PROVE  <<>> \in Seqs(n)
  <1> DEFINE q == <<>>
  <1>1. q \in Seq(Data) /\ Len(q) = 0
    OBVIOUS
  <1> HIDE DEF q
  <1>2. q \in Seq(Data) /\ Len(q) <= n
    BY <1>1
  <1>3. q \in Seqs(n)
    BY <1>2, SeqsAre
  <1> QED BY <1>3 DEF q

\* The parts of a state.
LEMMA Parts ==
  ASSUME NEW s \in State
  PROVE  /\ s.files \in [Objs -> FileType] /\ s.fds \in [Descriptors -> FdType]
         /\ s.pages \in [CachePages -> PageType]
         /\ \A o \in Objs : s.files[o].data \in Seq(Data) /\ Len(s.files[o].data) \in 0 .. MaxSize
         /\ \A p \in CachePages : /\ s.pages[p].data \in Seq(Data) /\ Len(s.pages[p].data) \in 0 .. PageSize
                                  /\ s.pages[p].off \in 0 .. MaxSize /\ s.pages[p].obj \in Objs \cup {NoObj}
                                  /\ End(s.pages[p]) \in Nat
  <1>1. /\ s.files \in [Objs -> FileType] /\ s.fds \in [Descriptors -> FdType]
        /\ s.pages \in [CachePages -> PageType]
    BY DEF State
  <1>2. ASSUME NEW o \in Objs  PROVE s.files[o].data \in Seq(Data) /\ Len(s.files[o].data) \in 0 .. MaxSize
    <2>1. s.files[o].data \in Seqs(MaxSize)
      BY <1>1 DEF FileType
    <2> QED BY <2>1, SeqsAre, Constants
  <1>3. ASSUME NEW p \in CachePages
        PROVE  /\ s.pages[p].data \in Seq(Data) /\ Len(s.pages[p].data) \in 0 .. PageSize
               /\ s.pages[p].off \in 0 .. MaxSize /\ s.pages[p].obj \in Objs \cup {NoObj}
               /\ End(s.pages[p]) \in Nat
    <2>1. s.pages[p].data \in Seqs(PageSize) /\ s.pages[p].off \in 0 .. MaxSize /\ s.pages[p].obj \in Objs \cup {NoObj}
      BY <1>1 DEF PageType
    <2>2. s.pages[p].data \in Seq(Data) /\ Len(s.pages[p].data) \in 0 .. PageSize
      BY <2>1, SeqsAre, Constants
    <2> QED BY SMTT(60), <2>1, <2>2, Constants DEF End
  <1> QED BY <1>1, <1>2, <1>3

LEMMA StateIs ==
  ASSUME NEW s \in State, NEW t \in State,
         s.files = t.files, s.fds = t.fds, s.pages = t.pages
  PROVE  s = t
  BY DEF State

LEMMA Becoming ==
  ASSUME NEW t \in State, Becomes(t)
  PROVE  now' = t
  <1>1. now' = [files |-> t.files, fds |-> t.fds, pages |-> t.pages]
    BY DEF Becomes, now
  <1> QED BY <1>1 DEF State

LEMMA Keeping ==
  ASSUME NEW t, CallInv(t), Becomes(t), got' \in GotType
  PROVE  StateInv'
  <1>1. now' = t
    BY Becoming DEF CallInv, CoreInv
  <1>2. CallInv(now)'
    BY <1>1
  <1> QED BY <1>2 DEF StateInv

-----------------------------------------------------------------------------
(* Cache pages let go, taken and found *)

LEMMA ReleaseIs ==
  ASSUME NEW s \in State, NEW gone
  PROVE  LET t == ReleaseAll(s, gone)
         IN  /\ t \in State /\ t.files = s.files
             /\ t.fds = [d \in Descriptors |->
                            IF s.fds[d].open /\ s.fds[d].cp \in gone
                            THEN [s.fds[d] EXCEPT !.cp = NoPage] ELSE s.fds[d]]
             /\ t.pages = [p \in CachePages |->
                            IF p \in gone THEN [s.pages[p] EXCEPT !.obj = NoObj] ELSE s.pages[p]]
  <1> DEFINE fd(d) == IF s.fds[d].open /\ s.fds[d].cp \in gone
                      THEN [s.fds[d] EXCEPT !.cp = NoPage] ELSE s.fds[d]
             page(p) == IF p \in gone THEN [s.pages[p] EXCEPT !.obj = NoObj] ELSE s.pages[p]
             fdsNew == [d \in Descriptors |-> fd(d)]
             pagesNew == [p \in CachePages |-> page(p)]
  <1>1. \A d \in Descriptors : fd(d) \in FdType
    BY SMTT(60), Parts DEF FdType
  <1>2. \A p \in CachePages : page(p) \in PageType
    BY ZenonT(60), Parts DEF PageType
  <1>3. fdsNew \in [Descriptors -> FdType] /\ pagesNew \in [CachePages -> PageType]
    BY <1>1, <1>2
  <1>4. ReleaseAll(s, gone) = [s EXCEPT !.fds = fdsNew, !.pages = pagesNew]
    BY DEF ReleaseAll
  <1> HIDE DEF fdsNew, pagesNew
  <1>5. [s EXCEPT !.fds = fdsNew, !.pages = pagesNew] \in State
    BY <1>3 DEF State
  <1>6. /\ [s EXCEPT !.fds = fdsNew, !.pages = pagesNew].files = s.files
        /\ [s EXCEPT !.fds = fdsNew, !.pages = pagesNew].fds = fdsNew
        /\ [s EXCEPT !.fds = fdsNew, !.pages = pagesNew].pages = pagesNew
    BY DEF State
  <1> QED BY <1>4, <1>5, <1>6 DEF fdsNew, pagesNew

LEMMA Releasing ==
  ASSUME NEW s, CoreInv(s), NEW gone \in SUBSET CachePages
  PROVE  CoreInv(ReleaseAll(s, gone))
  <1> DEFINE t == ReleaseAll(s, gone)
  <1>1. /\ s \in State /\ t \in State /\ t.files = s.files
        /\ t.fds = [d \in Descriptors |->
                       IF s.fds[d].open /\ s.fds[d].cp \in gone
                       THEN [s.fds[d] EXCEPT !.cp = NoPage] ELSE s.fds[d]]
        /\ t.pages = [p \in CachePages |->
                       IF p \in gone THEN [s.pages[p] EXCEPT !.obj = NoObj] ELSE s.pages[p]]
    BY ReleaseIs DEF CoreInv
  <1> HIDE DEF t
  <1>2. /\ s.fds \in [Descriptors -> FdType] /\ s.pages \in [CachePages -> PageType]
    BY <1>1, Parts
  <1>3. ASSUME NEW d \in Descriptors
        PROVE  /\ t.fds[d].cp = IF s.fds[d].open /\ s.fds[d].cp \in gone THEN NoPage ELSE s.fds[d].cp
               /\ t.fds[d].open = s.fds[d].open /\ t.fds[d].obj = s.fds[d].obj
               /\ t.fds[d].used = s.fds[d].used /\ t.fds[d].hdr = s.fds[d].hdr
               /\ t.fds[d].direct = s.fds[d].direct /\ t.fds[d].size = s.fds[d].size
    BY <1>1, <1>2 DEF FdType
  <1>4. ASSUME NEW p \in CachePages
        PROVE  /\ t.pages[p].obj = IF p \in gone THEN NoObj ELSE s.pages[p].obj
               /\ t.pages[p].off = s.pages[p].off /\ t.pages[p].data = s.pages[p].data
    BY <1>1, <1>2 DEF PageType
  <1>5. InUse(t) = InUse(s) \ gone
    BY <1>4 DEF InUse
  <1>6. Handles(t)
    BY <1>1, <1>3 DEF CoreInv, Handles
  <1>7. Caches(t)
    <2>1. ASSUME NEW d \in Descriptors, t.fds[d].open, t.fds[d].cp # NoPage
          PROVE  t.pages[t.fds[d].cp].obj = t.fds[d].obj
      <3>1. s.fds[d].open /\ s.fds[d].cp \notin gone /\ t.fds[d].cp = s.fds[d].cp
        BY <1>3, <2>1
      <3>2. s.fds[d].cp \in CachePages
        BY <1>2, <2>1, <3>1 DEF FdType
      <3> QED BY <1>3, <1>4, <2>1, <3>1, <3>2 DEF CoreInv, Caches
    <2>2. ASSUME NEW p \in InUse(t), NEW q \in InUse(t), t.pages[p].obj = t.pages[q].obj
          PROVE  p = q
      BY <1>4, <1>5, <2>2 DEF CoreInv, Caches, InUse
    <2>3. ASSUME NEW p \in InUse(t)
          PROVE  \E d \in Descriptors : t.fds[d].open /\ ~t.fds[d].direct /\ t.fds[d].cp = p
      <3>1. p \in InUse(s) /\ p \notin gone
        BY <1>5
      <3>2. PICK d \in Descriptors : s.fds[d].open /\ ~s.fds[d].direct /\ s.fds[d].cp = p
        BY <3>1 DEF CoreInv, Caches
      <3> QED BY <1>3, <3>1, <3>2
    <2> QED BY <2>1, <2>2, <2>3 DEF Caches
  <1>8. Lengths(t)
    BY <1>1, <1>3 DEF CoreInv, Lengths
  <1>9. Fits(t)
    <2>1. \A p \in InUse(t) : p \in InUse(s) /\ p \in CachePages /\ t.pages[p].obj = s.pages[p].obj
      BY <1>4, <1>5 DEF InUse
    <2> QED BY <1>1, <1>4, <2>1 DEF CoreInv, Fits, End
  <1> QED BY <1>1, <1>6, <1>7, <1>8, <1>9 DEF CoreInv, t

-----------------------------------------------------------------------------
(* Object events *)

\* What the event of an index header with this size makes of descriptor d of o.
Limited(s, d, size) ==
    LET fd == s.fds[d]
    IN  Smaller(fd.at, IF size > 0 /\ fd.cp # NoPage
                       THEN Larger(size, End(s.pages[fd.cp])) ELSE Length(size))
Hearing(s, o, size, d) ==
    IF s.fds[d].open /\ s.fds[d].obj = o
    THEN [s.fds[d] EXCEPT !.hdr = TRUE, !.size = size, !.at = Limited(s, d, size)]
    ELSE s.fds[d]

LEMMA HearingType ==
  ASSUME NEW s \in State, NEW o, NEW size \in {Undef} \cup 1 .. MaxSize, NEW d \in Descriptors
  PROVE  /\ Hearing(s, o, size, d) \in FdType
         /\ Limited(s, d, size) \in 0 .. MaxSize /\ Limited(s, d, size) <= s.fds[d].at
  <1>1. s.fds[d] \in FdType /\ s.fds[d].at \in 0 .. MaxSize /\ s.fds[d].cp \in {NoPage} \cup CachePages
    BY Parts DEF FdType
  <1>2. s.fds[d].cp # NoPage => End(s.pages[s.fds[d].cp]) \in Nat
    BY <1>1, Parts
  <1>3. Length(size) \in Nat /\ size \in Int /\ (size > 0 => size \in Nat)
    BY Constants DEF Length, Undef
  <1>4. Limited(s, d, size) \in 0 .. MaxSize /\ Limited(s, d, size) <= s.fds[d].at
    BY <1>1, <1>2, <1>3, Constants DEF Limited, Smaller, Larger
  <1>5. size \in {Undef} \cup 0 .. MaxSize
    BY Constants
  <1> QED BY <1>1, <1>4, <1>5 DEF Hearing, FdType

\* The event of an index header with this size lets no cache page go when what
\* is cached begins within the file.
Heard(s, o, size, moved, caller, d) ==
    IF s.fds[d].open /\ s.fds[d].obj = o /\ ~s.fds[d].used
    THEN [s.fds[d] EXCEPT !.hdr = @ /\ (~moved \/ d = caller)] ELSE Hearing(s, o, size, d)

LEMMA HeardType ==
  ASSUME NEW s \in State, NEW o, NEW size \in {Undef} \cup 1 .. MaxSize, NEW moved, NEW caller, NEW d \in Descriptors
  PROVE  /\ Heard(s, o, size, moved, caller, d) \in FdType
         /\ Heard(s, o, size, moved, caller, d).cp = s.fds[d].cp
         /\ Heard(s, o, size, moved, caller, d).used = s.fds[d].used
         /\ Heard(s, o, size, moved, caller, d).obj = s.fds[d].obj
  <1> DEFINE fd == s.fds[d]
             f == [fd EXCEPT !.hdr = fd.hdr /\ (~moved \/ d = caller)]
             at == Limited(s, d, size)
             g == [fd EXCEPT !.hdr = TRUE, !.size = size, !.at = at]
             hdr == fd.hdr /\ (~moved \/ d = caller)
  <1>1. fd \in FdType
    BY Parts
  <1>2. at \in 0 .. MaxSize /\ size \in {Undef} \cup 0 .. MaxSize
    BY HearingType, Constants
  <1>3. Heard(s, o, size, moved, caller, d) =
            IF fd.open /\ fd.obj = o /\ ~fd.used THEN f ELSE IF fd.open /\ fd.obj = o THEN g ELSE fd
    BY DEF Heard, Hearing
  <1>4. hdr \in BOOLEAN
    OBVIOUS
  <1>5. f = [fd EXCEPT !.hdr = hdr]
    OBVIOUS
  <1> HIDE DEF fd, f, at, hdr
  <1>6. f \in FdType /\ f.cp = fd.cp /\ f.used = fd.used /\ f.obj = fd.obj
    BY <1>1, <1>4, <1>5 DEF FdType
  <1>7. g \in FdType /\ g.cp = fd.cp /\ g.used = fd.used /\ g.obj = fd.obj
    BY <1>1, <1>2 DEF FdType
  <1> HIDE DEF g
  <1>8. \/ Heard(s, o, size, moved, caller, d) = f
        \/ Heard(s, o, size, moved, caller, d) = g
        \/ Heard(s, o, size, moved, caller, d) = fd
    BY <1>3
  <1> QED BY <1>1, <1>6, <1>7, <1>8 DEF fd

LEMMA EventHeard ==
  ASSUME NEW s \in State, NEW o \in Objs, NEW size \in {Undef} \cup 1 .. MaxSize,
         NEW moved, NEW caller,
         \A c \in Descriptors : s.fds[c].obj = o /\ s.fds[c].cp # NoPage =>
                                    size > 0 \/ s.pages[s.fds[c].cp].off <= 1
  PROVE  LET t == Event(s, o, size, moved, caller)
         IN  /\ t \in State /\ t.files = s.files /\ t.pages = s.pages
             /\ t.fds = [d \in Descriptors |-> Heard(s, o, size, moved, caller, d)]
  <1> DEFINE limit(fd) == IF size > 0 /\ fd.cp # NoPage
                          THEN Larger(size, End(s.pages[fd.cp])) ELSE Length(size)
             told(d) == Reaches(s, d, o, caller)
             dropped == {s.fds[d].cp : d \in {c \in Descriptors :
                            /\ told(c) /\ size # 0 /\ s.fds[c].cp # NoPage
                            /\ s.pages[s.fds[c].cp].off > limit(s.fds[c]) + 1}}
             after(d) ==
                 LET fd == s.fds[d]
                 IN  IF ~fd.open \/ fd.obj # o THEN fd
                     ELSE IF ~told(d) THEN [fd EXCEPT !.hdr = @ /\ (~moved \/ d = caller)]
                     ELSE IF size = 0 THEN [fd EXCEPT !.hdr = TRUE]
                     ELSE [fd EXCEPT !.hdr = TRUE, !.size = size, !.at = Smaller(@, limit(fd))]
             fdsNew == [d \in Descriptors |-> after(d)]
             hearing == [d \in Descriptors |-> Heard(s, o, size, moved, caller, d)]
  <1>1. size \in Int /\ size # 0
    BY DEF Undef
  <1>2. \A d \in Descriptors : after(d) = Heard(s, o, size, moved, caller, d)
    <2> SUFFICES ASSUME NEW d \in Descriptors PROVE after(d) = Heard(s, o, size, moved, caller, d)
      BY Zenon
    <2>1. s.fds[d] \in FdType
      BY Parts
    <2>2. told(d) <=> s.fds[d].obj = o /\ s.fds[d].used
      BY DEF Reaches
    <2>3. CASE s.fds[d].open /\ s.fds[d].obj = o /\ ~s.fds[d].used
      BY <2>2, <2>3 DEF Heard
    <2>4. CASE s.fds[d].open /\ s.fds[d].obj = o /\ s.fds[d].used
      <3>1. after(d) = Hearing(s, o, size, d)
        BY <1>1, <2>1, <2>2, <2>4 DEF Hearing, Limited, FdType
      <3> QED BY <2>4, <3>1 DEF Heard
    <2>5. CASE ~(s.fds[d].open /\ s.fds[d].obj = o)
      <3>1. after(d) = Hearing(s, o, size, d)
        BY <2>5 DEF Hearing
      <3> QED BY <2>5, <3>1 DEF Heard
    <2> QED BY <2>3, <2>4, <2>5
  <1>3. fdsNew = hearing
    BY Zenon, <1>2
  <1>4. dropped = {}
    <2> SUFFICES ASSUME NEW c \in Descriptors, told(c), s.fds[c].cp # NoPage,
                        s.pages[s.fds[c].cp].off > limit(s.fds[c]) + 1
                 PROVE  FALSE
      BY DEF Smaller
    <2>1. s.fds[c].obj = o
      BY DEF Reaches
    <2>2. s.fds[c].cp \in CachePages
      BY Parts DEF FdType
    <2> DEFINE page == s.pages[s.fds[c].cp]
    <2>3. page.off \in Nat /\ Len(page.data) \in Nat /\ End(page) = page.off + Len(page.data)
      BY <2>2, Parts DEF End
    <2>4. size > 0 \/ page.off <= 1
      BY <2>1
    <2> HIDE DEF page
    <2>5. page.off <= limit(s.fds[c]) + 1 /\ limit(s.fds[c]) \in Int
      <3>1. CASE size > 0
        <4>1. limit(s.fds[c]) = Larger(size, End(page))
          BY <3>1 DEF page
        <4> QED BY <1>1, <2>3, <4>1 DEF Larger
      <3>2. CASE ~(size > 0)
        <4>1. limit(s.fds[c]) = Length(size)
          BY <3>2
        <4> QED BY <1>1, <2>3, <2>4, <3>2, <4>1, Constants DEF Length, Undef
      <3> QED BY <3>1, <3>2
    <2> QED BY <2>3, <2>5 DEF page
  <1>5. Event(s, o, size, moved, caller) = ReleaseAll([s EXCEPT !.fds = fdsNew], dropped)
    BY DEF Event
  <1> HIDE DEF dropped, fdsNew
  <1> DEFINE m == [s EXCEPT !.fds = hearing]
  <1>6. hearing \in [Descriptors -> FdType]
    BY HeardType
  <1> HIDE DEF hearing
  <1>7. m \in State /\ m.files = s.files /\ m.pages = s.pages /\ m.fds = hearing
    BY <1>6 DEF State
  <1> HIDE DEF m
  <1>8. Event(s, o, size, moved, caller) = ReleaseAll(m, {})
    BY <1>3, <1>4, <1>5 DEF m
  <1> DEFINE t == ReleaseAll(m, {})
  <1>9. t \in State /\ t.files = m.files /\ t.fds = [d \in Descriptors |-> m.fds[d]]
        /\ t.pages = [p \in CachePages |-> m.pages[p]]
    BY <1>7, ReleaseIs
  <1>10. t.fds = m.fds /\ t.pages = m.pages
    BY <1>7, <1>9, Parts
  <1> QED BY <1>7, <1>8, <1>9, <1>10 DEF hearing

\* No event lets a cache page go: what is cached begins within the file.
LEMMA EventIs ==
  ASSUME NEW s \in State, Handles(s), NEW o \in Objs, NEW size \in {Undef} \cup 1 .. MaxSize,
         NEW moved, NEW caller,
         \A c \in Descriptors : s.fds[c].open /\ s.fds[c].obj = o /\ s.fds[c].cp # NoPage =>
                                    size > 0 \/ s.pages[s.fds[c].cp].off <= 1
  PROVE  LET t == Event(s, o, size, moved, caller)
         IN  /\ t \in State /\ t.files = s.files /\ t.pages = s.pages
             /\ t.fds = [d \in Descriptors |-> Hearing(s, o, size, d)]
  <1> DEFINE t == Event(s, o, size, moved, caller)
  <1>1. \A c \in Descriptors : s.fds[c].obj = o /\ s.fds[c].cp # NoPage =>
                                    size > 0 \/ s.pages[s.fds[c].cp].off <= 1
    BY DEF Handles
  <1>2. /\ t \in State /\ t.files = s.files /\ t.pages = s.pages
        /\ t.fds = [d \in Descriptors |-> Heard(s, o, size, moved, caller, d)]
    BY <1>1, EventHeard
  <1> HIDE DEF t
  <1>3. \A d \in Descriptors : Heard(s, o, size, moved, caller, d) = Hearing(s, o, size, d)
    BY DEF Handles, Heard
  <1>4. t.fds = [d \in Descriptors |-> Hearing(s, o, size, d)]
    BY <1>2, <1>3
  <1> QED BY <1>2, <1>4 DEF t

\* The event of an index page that moved and has no news of the size.
LEMMA EventMoved ==
  ASSUME NEW s \in State, Handles(s), NEW o \in Objs, NEW moved, NEW caller
  PROVE  Event(s, o, 0, moved, caller) = s
  <1> DEFINE limit(fd) == IF 0 > 0 /\ fd.cp # NoPage
                          THEN Larger(0, End(s.pages[fd.cp])) ELSE Length(0)
             told(d) == Reaches(s, d, o, caller)
             dropped == {s.fds[d].cp : d \in {c \in Descriptors :
                            /\ told(c) /\ 0 # 0 /\ s.fds[c].cp # NoPage
                            /\ s.pages[s.fds[c].cp].off > limit(s.fds[c]) + 1}}
             after(d) ==
                 LET fd == s.fds[d]
                 IN  IF ~fd.open \/ fd.obj # o THEN fd
                     ELSE IF ~told(d) THEN [fd EXCEPT !.hdr = @ /\ (~moved \/ d = caller)]
                     ELSE IF 0 = 0 THEN [fd EXCEPT !.hdr = TRUE]
                     ELSE [fd EXCEPT !.hdr = TRUE, !.size = 0, !.at = Smaller(@, limit(fd))]
             fdsNew == [d \in Descriptors |-> after(d)]
  <1>1. \A d \in Descriptors : after(d) = s.fds[d]
    <2> SUFFICES ASSUME NEW d \in Descriptors PROVE after(d) = s.fds[d]
      OBVIOUS
    <2>1. s.fds[d] \in FdType
      BY Parts
    <2>2. s.fds[d].open /\ s.fds[d].obj = o => told(d) /\ s.fds[d].hdr = TRUE
      BY <2>1 DEF Handles, Reaches, FdType
    <2> QED BY <2>1, <2>2 DEF FdType
  <1>2. fdsNew = s.fds
    BY <1>1, Parts
  <1>3. dropped = {}
    OBVIOUS
  <1>4. Event(s, o, 0, moved, caller) = ReleaseAll([s EXCEPT !.fds = fdsNew], dropped)
    BY DEF Event
  <1> HIDE DEF dropped, fdsNew
  <1>5. [s EXCEPT !.fds = s.fds] = s
    BY DEF State
  <1>6. Event(s, o, 0, moved, caller) = ReleaseAll(s, {})
    BY <1>2, <1>3, <1>4, <1>5
  <1> DEFINE t == ReleaseAll(s, {})
  <1>7. t \in State /\ t.files = s.files /\ t.fds = [d \in Descriptors |-> s.fds[d]]
        /\ t.pages = [p \in CachePages |-> s.pages[p]]
    BY ReleaseIs
  <1>8. t.fds = s.fds /\ t.pages = s.pages
    BY <1>7, Parts
  <1>9. t = s
    BY <1>7, <1>8, StateIs
  <1> QED BY <1>6, <1>9

-----------------------------------------------------------------------------
(* Writing to flash *)

\* File o is as long as before or longer, and all descriptors of it know.  Only
\* one that was beyond the end of the file is moved.
Grown(s, t, o) ==
    /\ t \in State /\ t.pages = s.pages
    /\ \A x \in Objs \ {o} : t.files[x] = s.files[x]
    /\ t.files[o].exists /\ Len(t.files[o].data) >= Len(s.files[o].data)
    /\ Length(t.files[o].size) = Len(t.files[o].data) /\ t.files[o].size # 0
    /\ \A c \in Descriptors :
           IF s.fds[c].open /\ s.fds[c].obj = o
           THEN /\ t.fds[c] = [s.fds[c] EXCEPT !.size = t.fds[c].size, !.at = t.fds[c].at]
                /\ Length(t.fds[c].size) = Len(t.files[o].data)
                /\ \/ t.fds[c].at = s.fds[c].at
                   \/ /\ t.fds[c].at < s.fds[c].at /\ Len(s.files[o].data) < s.fds[c].at
                      /\ s.fds[c].cp # NoPage => End(s.pages[s.fds[c].cp]) < s.fds[c].at
           ELSE t.fds[c] = s.fds[c]

LEMMA GrownFds ==
  ASSUME NEW s \in State, NEW o, NEW t, Grown(s, t, o), NEW c \in Descriptors
  PROVE  /\ t.fds[c].open = s.fds[c].open /\ t.fds[c].obj = s.fds[c].obj /\ t.fds[c].cp = s.fds[c].cp
         /\ t.fds[c].append = s.fds[c].append /\ t.fds[c].direct = s.fds[c].direct
         /\ t.fds[c].hdr = s.fds[c].hdr /\ t.fds[c].used = s.fds[c].used
         /\ t.fds[c].at <= s.fds[c].at
         /\ ~(s.fds[c].open /\ s.fds[c].obj = o) => t.fds[c].size = s.fds[c].size
  <1>1. s.fds[c] \in FdType /\ s.fds[c].at \in 0 .. MaxSize
    BY Parts DEF FdType
  <1> t \in State
    BY Zenon DEF Grown
  <1>2. t.fds[c] \in FdType /\ t.fds[c].at \in 0 .. MaxSize
    BY Parts DEF FdType
  <1>3. CASE s.fds[c].open /\ s.fds[c].obj = o
    <2>1. /\ t.fds[c] = [s.fds[c] EXCEPT !.size = t.fds[c].size, !.at = t.fds[c].at]
          /\ t.fds[c].at = s.fds[c].at \/ t.fds[c].at < s.fds[c].at
      BY Zenon, <1>3 DEF Grown
    <2>2. t.fds[c].at <= s.fds[c].at
      BY <1>1, <1>2, <2>1
    <2> DEFINE size == t.fds[c].size
               at == t.fds[c].at
    <2>3. t.fds[c] = [s.fds[c] EXCEPT !.size = size, !.at = at]
      BY <2>1
    <2> HIDE DEF size, at
    <2> QED BY <1>1, <1>3, <2>2, <2>3 DEF FdType
  <1>4. CASE ~(s.fds[c].open /\ s.fds[c].obj = o)
    <2>1. t.fds[c] = s.fds[c]
      BY Zenon, <1>4 DEF Grown
    <2> QED BY <1>1, <1>4, <2>1
  <1> QED BY <1>3, <1>4

\* What keeps the invariant, whether or not positions stay where they can.
Follows(s, t, o) ==
    /\ t \in State /\ t.pages = s.pages
    /\ \A c \in Descriptors :
            /\ t.fds[c].open = s.fds[c].open /\ t.fds[c].obj = s.fds[c].obj /\ t.fds[c].cp = s.fds[c].cp
            /\ t.fds[c].append = s.fds[c].append /\ t.fds[c].direct = s.fds[c].direct
            /\ t.fds[c].hdr = s.fds[c].hdr /\ t.fds[c].used = s.fds[c].used
            /\ t.fds[c].at <= s.fds[c].at
            /\ ~(s.fds[c].open /\ s.fds[c].obj = o) => t.fds[c].size = s.fds[c].size
    /\ \A x \in Objs : x # o => t.files[x] = s.files[x]
    /\ t.files[o].exists /\ Len(t.files[o].data) >= Len(s.files[o].data)
    /\ Length(t.files[o].size) = Len(t.files[o].data) /\ t.files[o].size # 0
    /\ \A c \in Descriptors : s.fds[c].open /\ s.fds[c].obj = o => Length(t.fds[c].size) = Len(t.files[o].data)

LEMMA FollowsInv ==
  ASSUME NEW s, CoreInv(s), NEW o \in Objs, NEW t, Follows(s, t, o)
  PROVE  /\ CoreInv(t)
         /\ \A c \in Descriptors : Within(s, c) => Within(t, c)
  <1>1. s \in State /\ t \in State /\ t.pages = s.pages
    BY DEF CoreInv, Follows
  <1>2. \A c \in Descriptors :
            /\ t.fds[c].open = s.fds[c].open /\ t.fds[c].obj = s.fds[c].obj /\ t.fds[c].cp = s.fds[c].cp
            /\ t.fds[c].append = s.fds[c].append /\ t.fds[c].direct = s.fds[c].direct
            /\ t.fds[c].hdr = s.fds[c].hdr /\ t.fds[c].used = s.fds[c].used
            /\ t.fds[c].at <= s.fds[c].at
            /\ ~(s.fds[c].open /\ s.fds[c].obj = o) => t.fds[c].size = s.fds[c].size
    BY DEF Follows
  <1>3. /\ \A x \in Objs : x # o => t.files[x] = s.files[x]
        /\ t.files[o].exists /\ Len(t.files[o].data) >= Len(s.files[o].data)
        /\ Length(t.files[o].size) = Len(t.files[o].data) /\ t.files[o].size # 0
        /\ \A c \in Descriptors : s.fds[c].open /\ s.fds[c].obj = o => Length(t.fds[c].size) = Len(t.files[o].data)
    BY DEF Follows
  <1>4. \A x \in Objs : Len(t.files[x].data) >= Len(s.files[x].data) /\ Len(s.files[x].data) \in Nat
                        /\ Len(t.files[x].data) \in Nat
    BY SMTT(60), <1>1, <1>3, Parts
  <1>5. InUse(t) = InUse(s) /\ InUse(s) \subseteq CachePages
    BY <1>1 DEF InUse
  <1>6. Handles(t)
    BY <1>2, <1>3 DEF CoreInv, Handles
  <1>7. Caches(t)
    BY <1>1, <1>2, <1>5 DEF CoreInv, Caches
  <1>8. Lengths(t)
    <2>1. \A x \in Objs : Length(t.files[x].size) = Len(t.files[x].data) /\ t.files[x].size # 0
      BY <1>3 DEF CoreInv, Lengths
    <2>2. ASSUME NEW d \in Descriptors, t.fds[d].open
          PROVE  Length(t.fds[d].size) = Len(t.files[t.fds[d].obj].data)
      <3>1. s.fds[d].open /\ s.fds[d].obj \in Objs /\ Length(s.fds[d].size) = Len(s.files[s.fds[d].obj].data)
        BY <1>2, <2>2 DEF CoreInv, Handles, Lengths
      <3> QED BY <1>2, <1>3, <3>1
    <2> QED BY <2>1, <2>2 DEF Lengths
  <1>9. Fits(t)
    <2>1. ASSUME NEW p \in InUse(t)
          PROVE  t.pages[p].off <= Len(t.files[t.pages[p].obj].data) /\ End(t.pages[p]) <= MaxSize
      <3>1. s.pages[p].off <= Len(s.files[s.pages[p].obj].data) /\ End(s.pages[p]) <= MaxSize
        BY <1>5 DEF CoreInv, Fits
      <3>2. s.pages[p].obj \in Objs /\ s.pages[p].off \in Nat
        BY <1>1, <1>5, Parts DEF InUse
      <3> DEFINE x == s.pages[p].obj
      <3>3. Len(t.files[x].data) >= Len(s.files[x].data) /\ Len(s.files[x].data) \in Nat /\ Len(t.files[x].data) \in Nat
        BY <1>4, <3>2
      <3>4. t.pages[p].off = s.pages[p].off /\ t.pages[p].obj = x /\ End(t.pages[p]) = End(s.pages[p])
        BY <1>1
      <3> HIDE DEF x
      <3>5. s.pages[p].off <= Len(s.files[x].data)
        BY <3>1 DEF x
      <3> DEFINE m == Len(s.files[x].data)
                 n == Len(t.files[x].data)
                 off == s.pages[p].off
      <3>6. n >= m /\ m \in Nat /\ n \in Nat /\ off <= m /\ off \in Nat
        BY <3>2, <3>3, <3>5
      <3> HIDE DEF m, n, off
      <3>7. off <= n
        BY <3>6
      <3> QED BY <3>1, <3>4, <3>7 DEF n, off
    <2> QED BY <2>1 DEF Fits
  <1>10. ASSUME NEW c \in Descriptors, Within(s, c)  PROVE Within(t, c)
    <2> SUFFICES ASSUME t.fds[c].open, ~t.fds[c].append, t.fds[c].cp # NoPage
                 PROVE  t.fds[c].at <= Larger(Len(t.files[t.fds[c].obj].data), End(t.pages[t.fds[c].cp]))
      BY DEF Within
    <2> DEFINE e == End(s.pages[s.fds[c].cp])
    <2>1. s.fds[c].at <= Larger(Len(s.files[s.fds[c].obj].data), e)
      BY <1>2, <1>10 DEF Within
    <2>2. s.fds[c].obj \in Objs /\ s.fds[c].cp \in CachePages
      BY <1>1, <1>2, Parts DEF CoreInv, Handles, FdType
    <2>3. e \in Nat /\ End(t.pages[t.fds[c].cp]) = e
      BY <1>1, <1>2, <2>2, Parts
    <2>4. s.fds[c].at \in Nat /\ t.fds[c].at \in Nat /\ t.fds[c].at <= s.fds[c].at
      BY <1>1, <1>2, Parts DEF FdType
    <2> DEFINE m == Len(s.files[s.fds[c].obj].data)
               n == Len(t.files[t.fds[c].obj].data)
    <2>5. m \in Nat /\ n \in Nat /\ n >= m
      BY <1>2, <1>4, <2>2
    <2> HIDE DEF e, m
    <2>6. s.fds[c].at <= Larger(m, e)
      BY <2>1 DEF m
    <2> HIDE DEF n
    <2>7. t.fds[c].at <= Larger(n, e)
      BY <2>3, <2>4, <2>5, <2>6 DEF Larger
    <2> QED BY <2>3, <2>7 DEF n
  <1> QED BY <1>1, <1>6, <1>7, <1>8, <1>9, <1>10 DEF CoreInv

LEMMA GrownInv ==
  ASSUME NEW s, CoreInv(s), NEW o \in Objs, NEW t, Grown(s, t, o)
  PROVE  /\ CoreInv(t)
         /\ \A c \in Descriptors : Within(s, c) => Within(t, c)
  <1>1. s \in State
    BY DEF CoreInv
  <1>2. \A c \in Descriptors :
            /\ t.fds[c].open = s.fds[c].open /\ t.fds[c].obj = s.fds[c].obj /\ t.fds[c].cp = s.fds[c].cp
            /\ t.fds[c].append = s.fds[c].append /\ t.fds[c].direct = s.fds[c].direct
            /\ t.fds[c].hdr = s.fds[c].hdr /\ t.fds[c].used = s.fds[c].used
            /\ t.fds[c].at <= s.fds[c].at
            /\ ~(s.fds[c].open /\ s.fds[c].obj = o) => t.fds[c].size = s.fds[c].size
    BY <1>1, GrownFds
  <1>3. /\ t \in State /\ t.pages = s.pages
        /\ \A x \in Objs : x # o => t.files[x] = s.files[x]
        /\ t.files[o].exists /\ Len(t.files[o].data) >= Len(s.files[o].data)
        /\ Length(t.files[o].size) = Len(t.files[o].data) /\ t.files[o].size # 0
        /\ \A c \in Descriptors : s.fds[c].open /\ s.fds[c].obj = o => Length(t.fds[c].size) = Len(t.files[o].data)
    BY Zenon DEF Grown
  <1>4. Follows(s, t, o)
    BY <1>2, <1>3 DEF Follows
  <1> QED BY <1>4, FollowsInv

LEMMA GrownAgain ==
  ASSUME NEW s \in State, NEW o \in Objs, NEW t, Grown(s, t, o), NEW u, Grown(t, u, o)
  PROVE  Grown(s, u, o)
  <1>1. t \in State /\ u \in State /\ t.pages = s.pages /\ u.pages = s.pages
    BY Zenon DEF Grown
  <1>2. /\ Len(u.files[o].data) >= Len(t.files[o].data) /\ Len(t.files[o].data) >= Len(s.files[o].data)
        /\ Len(s.files[o].data) \in Nat /\ Len(t.files[o].data) \in Nat /\ Len(u.files[o].data) \in Nat
    <2>1. /\ Len(s.files[o].data) \in Nat /\ Len(t.files[o].data) \in Nat /\ Len(u.files[o].data) \in Nat
      BY <1>1, Parts
    <2> QED BY Zenon, <2>1 DEF Grown
  <1>3. \A x \in Objs \ {o} : u.files[x] = s.files[x]
    BY Zenon DEF Grown
  <1>4. ASSUME NEW c \in Descriptors, s.fds[c].open, s.fds[c].obj = o
        PROVE  /\ u.fds[c] = [s.fds[c] EXCEPT !.size = u.fds[c].size, !.at = u.fds[c].at]
               /\ Length(u.fds[c].size) = Len(u.files[o].data)
               /\ \/ u.fds[c].at = s.fds[c].at
                  \/ /\ u.fds[c].at < s.fds[c].at /\ Len(s.files[o].data) < s.fds[c].at
                     /\ s.fds[c].cp # NoPage => End(s.pages[s.fds[c].cp]) < s.fds[c].at
    <2>1. t.fds[c].open /\ t.fds[c].obj = o /\ t.fds[c].cp = s.fds[c].cp
      BY <1>4, GrownFds
    <2>2. s.fds[c] \in FdType /\ t.fds[c] \in FdType /\ u.fds[c] \in FdType
      BY <1>1, Parts
    <2>3. s.fds[c].at \in Nat /\ t.fds[c].at \in Nat /\ u.fds[c].at \in Nat
      BY <2>2 DEF FdType
    <2>4. /\ u.fds[c] = [t.fds[c] EXCEPT !.size = u.fds[c].size, !.at = u.fds[c].at]
          /\ t.fds[c] = [s.fds[c] EXCEPT !.size = t.fds[c].size, !.at = t.fds[c].at]
      BY Zenon, <1>4, <2>1 DEF Grown
    <2>5. u.fds[c] = [s.fds[c] EXCEPT !.size = u.fds[c].size, !.at = u.fds[c].at]
      BY <2>2, <2>4 DEF FdType
    <2>6. Length(u.fds[c].size) = Len(u.files[o].data)
      BY Zenon, <2>1 DEF Grown
    <2>7. \/ t.fds[c].at = s.fds[c].at
          \/ /\ t.fds[c].at < s.fds[c].at /\ Len(s.files[o].data) < s.fds[c].at
             /\ s.fds[c].cp # NoPage => End(s.pages[s.fds[c].cp]) < s.fds[c].at
      BY Zenon, <1>4 DEF Grown
    <2>8. \/ u.fds[c].at = t.fds[c].at
          \/ /\ u.fds[c].at < t.fds[c].at /\ Len(t.files[o].data) < t.fds[c].at
             /\ s.fds[c].cp # NoPage => End(s.pages[s.fds[c].cp]) < t.fds[c].at
      BY Zenon, <1>1, <2>1 DEF Grown
    <2>9. s.fds[c].cp # NoPage => End(s.pages[s.fds[c].cp]) \in Nat
      BY <2>2, Parts DEF FdType
    <2> QED BY SMTT(60), <1>2, <2>3, <2>5, <2>6, <2>7, <2>8, <2>9
  <1>5. ASSUME NEW c \in Descriptors, ~(s.fds[c].open /\ s.fds[c].obj = o)
        PROVE  u.fds[c] = s.fds[c]
    <2>1. t.fds[c] = s.fds[c]
      BY Zenon, <1>5 DEF Grown
    <2> QED BY Zenon, <1>5, <2>1 DEF Grown
  <1>6. u.files[o].exists /\ Length(u.files[o].size) = Len(u.files[o].data) /\ u.files[o].size # 0
    BY Zenon DEF Grown
  <1>7. Len(u.files[o].data) >= Len(s.files[o].data)
    <2> DEFINE l == Len(s.files[o].data)
               m == Len(t.files[o].data)
               n == Len(u.files[o].data)
    <2>1. n >= m /\ m >= l /\ l \in Nat /\ m \in Nat /\ n \in Nat
      BY <1>2
    <2> HIDE DEF l, m, n
    <2>2. n >= l
      BY <2>1
    <2> QED BY <2>2 DEF l, n
  <1> QED BY Zenon, <1>1, <1>3, <1>4, <1>5, <1>6, <1>7 DEF Grown

LEMMA GrownNot ==
  ASSUME NEW s, CoreInv(s), NEW o \in Objs, s.files[o].exists
  PROVE  Grown(s, s, o)
  <1>1. s \in State /\ Len(s.files[o].data) \in Nat
    BY Parts DEF CoreInv
  <1>2. ASSUME NEW c \in Descriptors, s.fds[c].open, s.fds[c].obj = o
        PROVE  /\ s.fds[c] = [s.fds[c] EXCEPT !.size = s.fds[c].size, !.at = s.fds[c].at]
               /\ Length(s.fds[c].size) = Len(s.files[o].data)
    <2>1. s.fds[c] \in FdType
      BY <1>1, Parts
    <2> QED BY <1>2, <2>1 DEF CoreInv, Lengths, FdType
  <1>3. Length(s.files[o].size) = Len(s.files[o].data) /\ s.files[o].size # 0
    BY DEF CoreInv, Lengths
  <1>4. Len(s.files[o].data) >= Len(s.files[o].data)
    BY <1>1
  <1> QED BY Zenon, <1>1, <1>2, <1>3, <1>4 DEF Grown

\* The index header page of o is stored, with a file of this kind.
Stored(s, o, f, moved, caller) == Event([s EXCEPT !.files[o] = f], o, f.size, moved, caller)

LEMMA StoredGrown ==
  ASSUME NEW s, CoreInv(s), NEW o \in Objs, s.files[o].exists, NEW f \in FileType,
         f.exists, f.size \in 1 .. MaxSize, f.size = Len(f.data), Len(s.files[o].data) <= Len(f.data),
         NEW moved, NEW caller
  PROVE  /\ Grown(s, Stored(s, o, f, moved, caller), o)
         /\ Stored(s, o, f, moved, caller).files[o] = f
         /\ \A c \in Descriptors : s.fds[c].open /\ s.fds[c].obj = o =>
                Stored(s, o, f, moved, caller).fds[c].size = f.size
  <1> DEFINE m == [s EXCEPT !.files[o] = f]
             t == Event(m, o, f.size, moved, caller)
  <1>1. s \in State
    BY DEF CoreInv
  <1>2. /\ m \in State /\ m.files = [s.files EXCEPT ![o] = f] /\ m.fds = s.fds /\ m.pages = s.pages
    BY <1>1 DEF State
  <1> HIDE DEF m
  <1>3. m.files[o] = f /\ \A x \in Objs : x # o => m.files[x] = s.files[x]
    BY <1>1, <1>2, Parts
  <1>4. Handles(m)
    BY <1>2, <1>3 DEF CoreInv, Handles
  <1>5. f.size > 0 /\ f.size \in {Undef} \cup 1 .. MaxSize /\ f.size # 0 /\ Length(f.size) = f.size
    BY Constants DEF Length, Undef
  <1>6. /\ t \in State /\ t.files = m.files /\ t.pages = m.pages
        /\ t.fds = [d \in Descriptors |-> Hearing(m, o, f.size, d)]
    BY <1>2, <1>4, <1>5, EventIs
  <1> HIDE DEF t
  <1>7. ASSUME NEW c \in Descriptors, s.fds[c].open, s.fds[c].obj = o
        PROVE  /\ t.fds[c] = [s.fds[c] EXCEPT !.size = t.fds[c].size, !.at = t.fds[c].at]
               /\ t.fds[c].size = f.size
               /\ \/ t.fds[c].at = s.fds[c].at
                  \/ /\ t.fds[c].at < s.fds[c].at /\ Len(s.files[o].data) < s.fds[c].at
                     /\ s.fds[c].cp # NoPage => End(s.pages[s.fds[c].cp]) < s.fds[c].at
    <2> DEFINE at == Limited(m, c, f.size)
    <2>1. t.fds[c] = [s.fds[c] EXCEPT !.hdr = TRUE, !.size = f.size, !.at = at]
      BY <1>2, <1>6, <1>7 DEF Hearing
    <2>2. s.fds[c] \in FdType /\ s.fds[c].at \in Nat /\ s.fds[c].cp \in {NoPage} \cup CachePages
      BY <1>1, Parts DEF FdType
    <2>3. s.fds[c].hdr = TRUE
      BY <1>7, <2>2 DEF CoreInv, Handles, FdType
    <2>4. s.fds[c].cp # NoPage => End(s.pages[s.fds[c].cp]) \in Nat
      BY <1>1, <2>2, Parts
    <2>5. at = Smaller(s.fds[c].at, IF s.fds[c].cp # NoPage
                                    THEN Larger(f.size, End(s.pages[s.fds[c].cp])) ELSE f.size)
      BY <1>2, <1>5 DEF Limited
    <2> HIDE DEF at
    <2>6. /\ t.fds[c] = [s.fds[c] EXCEPT !.size = t.fds[c].size, !.at = t.fds[c].at]
          /\ t.fds[c].size = f.size /\ t.fds[c].at = at
      BY ZenonT(60), <2>1, <2>2, <2>3 DEF FdType
    <2>7. Len(s.files[o].data) \in Nat
      BY <1>1, Parts
    <2> QED BY <2>2, <2>4, <2>5, <2>6, <2>7 DEF Smaller, Larger
  <1>8. ASSUME NEW c \in Descriptors, ~(s.fds[c].open /\ s.fds[c].obj = o)
        PROVE  t.fds[c] = s.fds[c]
    <2>1. t.fds[c] = Hearing(m, o, f.size, c)
      BY <1>6
    <2> QED BY <1>2, <1>8, <2>1 DEF Hearing
  <1>9. Len(s.files[o].data) \in Nat /\ Len(f.data) \in Nat
    BY <1>1, Parts
  <1>10. Grown(s, t, o)
    <2>1. t.files[o] = f /\ \A x \in Objs \ {o} : t.files[x] = s.files[x]
      BY <1>3, <1>6
    <2>2. Len(f.data) >= Len(s.files[o].data)
      BY <1>9
    <2>3. \A c \in Descriptors : s.fds[c].open /\ s.fds[c].obj = o => Length(t.fds[c].size) = Len(t.files[o].data)
      BY Zenon, <1>5, <1>7, <2>1
    <2>4. t \in State /\ t.pages = s.pages
      BY <1>2, <1>6
    <2> QED BY Zenon, <1>5, <1>7, <1>8, <2>1, <2>2, <2>3, <2>4 DEF Grown
  <1>11. t = Stored(s, o, f, moved, caller)
    BY DEF t, m, Stored
  <1> QED BY Zenon, <1>2, <1>3, <1>6, <1>7, <1>10, <1>11

-----------------------------------------------------------------------------
(* Sequences put into others *)

LEMMA Cut ==
  ASSUME NEW S, NEW q \in Seq(S), NEW m \in Nat \ {0}, NEW n \in Nat, n <= Len(q)
  PROVE  /\ SubSeq(q, m, n) \in Seq(S)
         /\ Len(SubSeq(q, m, n)) = IF m <= n THEN n - m + 1 ELSE 0
         /\ \A i \in 1 .. Len(SubSeq(q, m, n)) : SubSeq(q, m, n)[i] = q[i + m - 1]
  <1>1. CASE m <= n
    <2>1. m \in 1 .. Len(q) + 1 /\ n \in m - 1 .. Len(q)
      BY <1>1
    <2>2. /\ SubSeq(q, m, n) \in Seq(S) /\ Len(SubSeq(q, m, n)) = n - m + 1
          /\ \A i \in 1 .. n - m + 1 : SubSeq(q, m, n)[i] = q[m + i - 1]
      BY <2>1, SubSeqProperties
    <2> DEFINE u == SubSeq(q, m, n)
    <2>3. u \in Seq(S) /\ Len(u) = n - m + 1 /\ \A i \in 1 .. n - m + 1 : u[i] = q[m + i - 1]
      BY <2>2
    <2> HIDE DEF u
    <2>4. \A i \in 1 .. Len(u) : u[i] = q[i + m - 1]
      <3> TAKE i \in 1 .. Len(u)
      <3>1. i \in 1 .. n - m + 1 /\ m + i - 1 = i + m - 1
        BY <2>3
      <3> QED BY <2>3, <3>1
    <2> QED BY <1>1, <2>3, <2>4 DEF u
  <1>2. CASE ~(m <= n)
    <2>1. SubSeq(q, m, n) = << >>
      BY <1>2
    <2> QED BY <1>2, <2>1
  <1> QED BY <1>1, <1>2

LEMMA Joined ==
  ASSUME NEW S, NEW q \in Seq(S), NEW r \in Seq(S)
  PROVE  /\ q \o r \in Seq(S) /\ Len(q \o r) = Len(q) + Len(r)
         /\ \A i \in 1 .. Len(q) + Len(r) : (q \o r)[i] = IF i <= Len(q) THEN q[i] ELSE r[i - Len(q)]
  BY ConcatProperties

LEMMA SameSeq ==
  ASSUME NEW S, NEW q \in Seq(S), NEW r \in Seq(S), Len(q) = Len(r),
         \A i \in 1 .. Len(q) : q[i] = r[i]
  PROVE  q = r
  BY SeqEqual

LEMMA PutIs ==
  ASSUME NEW S, NEW data \in Seq(S), NEW bytes \in Seq(S), NEW off \in Nat
  PROVE  LET at == Smaller(off, Len(data))
             u == Put(data, off, bytes)
         IN  /\ at \in Nat /\ at <= Len(data) /\ at <= off
             /\ u \in Seq(S) /\ Len(u) = Larger(Len(data), at + Len(bytes))
             /\ \A i \in 1 .. Len(u) : u[i] = IF at < i /\ i <= at + Len(bytes) THEN bytes[i - at] ELSE data[i]
  <1> DEFINE at == Smaller(off, Len(data))
             l == Len(data)
             n == Len(bytes)
             head == SubSeq(data, 1, at)
             tail == SubSeq(data, at + n + 1, l)
             u == Put(data, off, bytes)
  <1>1. l \in Nat /\ n \in Nat /\ at \in Nat /\ at <= l /\ at <= off
    BY DEF Smaller
  <1>2. u = (head \o bytes) \o tail
    BY DEF Put
  <1> HIDE DEF at, u
  <1>3. at + n + 1 \in Nat \ {0} /\ at \in Nat /\ at <= Len(data) /\ l <= Len(data) /\ l \in Nat
    BY <1>1
  <1>4. /\ head \in Seq(S) /\ Len(head) = IF 1 <= at THEN at - 1 + 1 ELSE 0
        /\ \A i \in 1 .. Len(head) : head[i] = data[i + 1 - 1]
    BY <1>3, Cut
  <1>5. /\ tail \in Seq(S) /\ Len(tail) = IF at + n + 1 <= l THEN l - (at + n + 1) + 1 ELSE 0
        /\ \A i \in 1 .. Len(tail) : tail[i] = data[i + (at + n + 1) - 1]
    BY <1>3, Cut
  <1> DEFINE h == Len(head)
             t == Len(tail)
  <1>6. h = at /\ t = (IF at + n + 1 <= l THEN l - at - n ELSE 0)
    BY <1>1, <1>4, <1>5
  <1> HIDE DEF head, tail
  <1>7. /\ head \o bytes \in Seq(S) /\ Len(head \o bytes) = h + n
        /\ \A i \in 1 .. h + n : (head \o bytes)[i] = IF i <= h THEN head[i] ELSE bytes[i - h]
    BY <1>4, Joined
  <1> DEFINE hb == head \o bytes
  <1> HIDE DEF hb
  <1>8. hb \in Seq(S) /\ Len(hb) = h + n
        /\ \A i \in 1 .. h + n : hb[i] = IF i <= h THEN head[i] ELSE bytes[i - h]
    BY <1>7 DEF hb
  <1>9. /\ hb \o tail \in Seq(S) /\ Len(hb \o tail) = Len(hb) + t
        /\ \A i \in 1 .. Len(hb) + t : (hb \o tail)[i] = IF i <= Len(hb) THEN hb[i] ELSE tail[i - Len(hb)]
    <2>1. hb \in Seq(S) /\ tail \in Seq(S)
      BY <1>5, <1>8
    <2> QED BY <2>1, Joined
  <1>10. u = hb \o tail
    BY <1>2 DEF hb
  <1> HIDE DEF h, t, l, n
  <1>11. u \in Seq(S) /\ Len(u) = at + n + t
    BY <1>6, <1>8, <1>9, <1>10
  <1>12. Len(u) = Larger(l, at + n)
    BY <1>1, <1>6, <1>11 DEF Larger
  <1>13. ASSUME NEW i \in 1 .. Len(u)
         PROVE  u[i] = IF at < i /\ i <= at + n THEN bytes[i - at] ELSE data[i]
    <2>1. i \in Nat /\ i >= 1 /\ i <= at + n + t
      BY <1>1, <1>6, <1>11
    <2>2. CASE i <= at
      <3>1. i \in 1 .. h + n /\ i \in 1 .. Len(hb) + t /\ i <= Len(hb) /\ i <= h /\ i \in 1 .. h
        BY <1>1, <1>6, <1>8, <2>1, <2>2
      <3>2. u[i] = head[i] /\ head[i] = data[i + 1 - 1]
        BY <1>4, <1>8, <1>9, <1>10, <3>1 DEF h
      <3>3. i + 1 - 1 = i
        BY <2>1
      <3> QED BY <1>1, <2>1, <2>2, <3>2, <3>3
    <2>3. CASE at < i /\ i <= at + n
      <3>1. i \in 1 .. h + n /\ i \in 1 .. Len(hb) + t /\ i <= Len(hb) /\ ~(i <= h)
        BY <1>1, <1>6, <1>8, <2>1, <2>3
      <3>2. u[i] = bytes[i - h]
        BY <1>8, <1>9, <1>10, <3>1
      <3> QED BY <1>6, <2>3, <3>2
    <2>4. CASE at + n < i
      <3>1. i \in 1 .. Len(hb) + t /\ ~(i <= Len(hb)) /\ i - Len(hb) = i - at - n /\ i - Len(hb) \in 1 .. t
        BY <1>1, <1>6, <1>8, <2>1, <2>4
      <3>2. u[i] = tail[i - Len(hb)]
        BY <1>9, <1>10, <3>1
      <3> DEFINE j == i - Len(hb)
      <3>3. j \in 1 .. t
        BY <3>1
      <3>4. tail[j] = data[j + (at + n + 1) - 1]
        BY <1>5, <3>3 DEF t, n
      <3>5. j + (at + n + 1) - 1 = i
        BY <1>1, <2>1, <3>1
      <3> QED BY <1>1, <2>1, <2>4, <3>2, <3>4, <3>5
    <2> QED BY <1>1, <2>1, <2>2, <2>3, <2>4
  <1> QED BY <1>1, <1>11, <1>12, <1>13 DEF at, u, l, n

\* What is written in two parts: what lies within the file, and what follows it.
FirstPut(data, off, bytes, k) == Put(data, off, SubSeq(bytes, 1, k))
RestOf(bytes, k) == SubSeq(bytes, k + 1, Len(bytes))

LEMMA FirstPutIs ==
  ASSUME NEW S, NEW data \in Seq(S), NEW bytes \in Seq(S), NEW off \in Nat, NEW k \in 0 .. Len(bytes),
         k = 0 \/ off + k <= Len(data)
  PROVE  LET v == FirstPut(data, off, bytes, k)
         IN  /\ v \in Seq(S) /\ Len(v) = Len(data)
             /\ \A i \in 1 .. Len(data) : v[i] = IF k > 0 /\ off < i /\ i <= off + k THEN bytes[i - off] ELSE data[i]
  <1> DEFINE part == SubSeq(bytes, 1, k)
             v == FirstPut(data, off, bytes, k)
             l == Len(data)
             n == Len(bytes)
             at == Smaller(off, l)
  <1>1. l \in Nat /\ n \in Nat /\ k \in Nat /\ k <= n /\ 1 \in Nat \ {0}
    OBVIOUS
  <1>2. /\ part \in Seq(S) /\ Len(part) = (IF 1 <= k THEN k - 1 + 1 ELSE 0)
        /\ \A i \in 1 .. Len(part) : part[i] = bytes[i + 1 - 1]
    BY <1>1, Cut
  <1>3. Len(part) = k
    BY <1>1, <1>2
  <1> HIDE DEF part
  <1> DEFINE u == Put(data, off, part)
  <1>4. /\ at \in Nat /\ at <= Len(data) /\ at <= off
        /\ u \in Seq(S) /\ Len(u) = Larger(Len(data), at + Len(part))
        /\ \A i \in 1 .. Len(u) : u[i] = IF at < i /\ i <= at + Len(part) THEN part[i - at] ELSE data[i]
    BY <1>2, PutIs
  <1>5. v = u
    BY DEF FirstPut, part
  <1> HIDE DEF u, v
  <1>6. k = 0 \/ off + k <= l
    OBVIOUS
  <1>7. (k > 0 => at = off) /\ at + k <= l
    <2> HIDE DEF l
    <2> QED BY <1>1, <1>4, <1>6 DEF Smaller, l
  <1>8. Len(u) = l
    <2> DEFINE m == Len(part)
    <2>1. Len(u) = Larger(l, at + m) /\ m = k
      BY <1>3, <1>4
    <2> HIDE DEF l, m, at
    <2> QED BY <1>1, <1>4, <1>7, <2>1 DEF Larger
  <1>9. ASSUME NEW i \in 1 .. l
        PROVE  u[i] = IF k > 0 /\ off < i /\ i <= off + k THEN bytes[i - off] ELSE data[i]
    <2>1. i \in 1 .. Len(u)
      BY <1>8
    <2>2. u[i] = IF at < i /\ i <= at + k THEN part[i - at] ELSE data[i]
      BY <1>3, <1>4, <2>1
    <2> HIDE DEF at, l
    <2>3. CASE k > 0 /\ off < i /\ i <= off + k
      <3>1. at = off /\ i - off \in 1 .. k /\ i - off + 1 - 1 = i - off
        BY <1>1, <1>7, <2>3
      <3>2. u[i] = part[i - off]
        BY <2>2, <2>3, <3>1
      <3> DEFINE j == i - off
      <3>3. j \in 1 .. Len(part) /\ j + 1 - 1 = j
        BY <1>3, <3>1
      <3> HIDE DEF j
      <3>4. part[j] = bytes[j]
        BY <1>2, <3>3
      <3> QED BY <2>3, <3>2, <3>4 DEF j
    <2>4. CASE ~(k > 0 /\ off < i /\ i <= off + k)
      <3>1. ~(at < i /\ i <= at + k)
        BY <1>1, <1>4, <1>7, <2>4
      <3> QED BY <2>2, <2>4, <3>1
    <2> QED BY <2>3, <2>4
  <1>10. u \in Seq(S)
    BY <1>4
  <1> QED BY <1>5, <1>8, <1>9, <1>10 DEF v

LEMMA FirstPutNone ==
  ASSUME NEW S, NEW data \in Seq(S), NEW bytes \in Seq(S), NEW off \in Nat
  PROVE  FirstPut(data, off, bytes, 0) = data
  <1> DEFINE v == FirstPut(data, off, bytes, 0)
  <1>1. 0 \in 0 .. Len(bytes)
    OBVIOUS
  <1>2. /\ v \in Seq(S) /\ Len(v) = Len(data)
        /\ \A i \in 1 .. Len(data) : v[i] = IF 0 > 0 /\ off < i /\ i <= off + 0 THEN bytes[i - off] ELSE data[i]
    BY <1>1, FirstPutIs
  <1> HIDE DEF v
  <1>3. \A i \in 1 .. Len(v) : v[i] = data[i]
    BY <1>2
  <1>4. v = data
    BY <1>2, <1>3, SameSeq
  <1> QED BY <1>4 DEF v

LEMMA FirstPutAll ==
  ASSUME NEW S, NEW data \in Seq(S), NEW bytes \in Seq(S), NEW off \in Nat
  PROVE  FirstPut(data, off, bytes, Len(bytes)) = Put(data, off, bytes)
  <1> DEFINE n == Len(bytes)
             part == SubSeq(bytes, 1, n)
  <1>1. n \in Nat /\ n <= Len(bytes) /\ 1 \in Nat \ {0}
    OBVIOUS
  <1>2. /\ part \in Seq(S) /\ Len(part) = (IF 1 <= n THEN n - 1 + 1 ELSE 0)
        /\ \A i \in 1 .. Len(part) : part[i] = bytes[i + 1 - 1]
    BY <1>1, Cut
  <1>3. Len(part) = Len(bytes)
    BY <1>1, <1>2
  <1> HIDE DEF part
  <1>4. \A i \in 1 .. Len(part) : part[i] = bytes[i]
    <2> TAKE i \in 1 .. Len(part)
    <2>1. part[i] = bytes[i + 1 - 1] /\ i + 1 - 1 = i
      BY <1>1, <1>2, <1>3
    <2> QED BY <2>1
  <1>5. part = bytes
    BY <1>2, <1>3, <1>4, SameSeq
  <1> QED BY <1>5 DEF FirstPut, part

LEMMA PutInTwo ==
  ASSUME NEW S, NEW data \in Seq(S), NEW bytes \in Seq(S), NEW off \in Nat, NEW k \in 0 .. Len(bytes),
         (k = 0 /\ off >= Len(data)) \/ off + k = Len(data)
  PROVE  LET rest == RestOf(bytes, k)
         IN  /\ rest \in Seq(S) /\ Len(rest) = Len(bytes) - k
             /\ FirstPut(data, off, bytes, k) \o rest = Put(data, off, bytes)
  <1> DEFINE l == Len(data)
             n == Len(bytes)
             at == Smaller(off, l)
             rest == RestOf(bytes, k)
             v == FirstPut(data, off, bytes, k)
             u == Put(data, off, bytes)
  <1>1. l \in Nat /\ n \in Nat /\ k \in Nat /\ k <= n /\ k + 1 \in Nat \ {0} /\ n <= Len(bytes)
    OBVIOUS
  <1>2. (k = 0 /\ off >= l) \/ off + k = l
    OBVIOUS
  <1>3. /\ SubSeq(bytes, k + 1, n) \in Seq(S)
        /\ Len(SubSeq(bytes, k + 1, n)) = (IF k + 1 <= n THEN n - (k + 1) + 1 ELSE 0)
        /\ \A i \in 1 .. Len(SubSeq(bytes, k + 1, n)) : SubSeq(bytes, k + 1, n)[i] = bytes[i + (k + 1) - 1]
    BY <1>1, Cut
  <1>4. rest = SubSeq(bytes, k + 1, n)
    BY DEF RestOf
  <1> HIDE DEF rest
  <1>5. /\ rest \in Seq(S) /\ Len(rest) = (IF k + 1 <= n THEN n - (k + 1) + 1 ELSE 0)
        /\ \A i \in 1 .. Len(rest) : rest[i] = bytes[i + (k + 1) - 1]
    BY <1>3, <1>4
  <1>6. Len(rest) = n - k
    <2> DEFINE m == Len(rest)
    <2>1. m = (IF k + 1 <= n THEN n - (k + 1) + 1 ELSE 0)
      BY <1>5
    <2> HIDE DEF m, n
    <2>2. m = n - k
      BY <1>1, <2>1
    <2> QED BY <2>2 DEF m
  <1>7. k = 0 \/ off + k <= Len(data)
    BY <1>1, <1>2
  <1>8. /\ v \in Seq(S) /\ Len(v) = l
        /\ \A i \in 1 .. l : v[i] = IF k > 0 /\ off < i /\ i <= off + k THEN bytes[i - off] ELSE data[i]
    BY <1>7, FirstPutIs
  <1>9. /\ at \in Nat /\ at <= Len(data) /\ at <= off
        /\ u \in Seq(S) /\ Len(u) = Larger(Len(data), at + Len(bytes))
        /\ \A i \in 1 .. Len(u) : u[i] = IF at < i /\ i <= at + Len(bytes) THEN bytes[i - at] ELSE data[i]
    BY PutIs
  <1> HIDE DEF v, u
  <1>10. /\ v \o rest \in Seq(S) /\ Len(v \o rest) = Len(v) + Len(rest)
         /\ \A i \in 1 .. Len(v) + Len(rest) : (v \o rest)[i] = IF i <= Len(v) THEN v[i] ELSE rest[i - Len(v)]
    <2>1. v \in Seq(S) /\ rest \in Seq(S)
      BY <1>5, <1>8
    <2> QED BY <2>1, Joined
  <1> DEFINE w == v \o rest
  <1> HIDE DEF w
  <1>11. /\ w \in Seq(S) /\ Len(w) = l + n - k
         /\ \A i \in 1 .. l + n - k : w[i] = IF i <= l THEN v[i] ELSE rest[i - l]
    <2>1. Len(v) + Len(rest) = l + n - k
      BY <1>1, <1>6, <1>8
    <2> QED BY <1>8, <1>10, <2>1 DEF w
  <1>12. at + k = l
    <2> HIDE DEF l
    <2> QED BY <1>1, <1>2 DEF Smaller
  <1>13. Len(u) = l + n - k
    <2>1. Len(u) = Larger(l, at + n)
      BY <1>9
    <2>2. at \in Nat /\ at <= l
      BY <1>9
    <2> HIDE DEF l, n, at
    <2> QED BY <1>1, <1>12, <2>1, <2>2 DEF Larger
  <1>14. ASSUME NEW i \in 1 .. Len(w)  PROVE w[i] = u[i]
    <2>1. i \in 1 .. l + n - k /\ i \in 1 .. Len(u) /\ i \in Nat /\ i >= 1
      BY <1>1, <1>11, <1>13
    <2>2. /\ w[i] = IF i <= l THEN v[i] ELSE rest[i - l]
          /\ u[i] = IF at < i /\ i <= at + n THEN bytes[i - at] ELSE data[i]
      BY <1>9, <1>11, <2>1
    <2> HIDE DEF at, l
    <2>3. CASE i <= l
      <3>1. i \in 1 .. l
        BY <1>1, <2>1, <2>3
      <3>2. v[i] = IF k > 0 /\ off < i /\ i <= off + k THEN bytes[i - off] ELSE data[i]
        BY <1>8, <3>1
      <3>3. k > 0 => at = off
        BY <1>1, <1>2, <1>9, <1>12
      <3>4. (at < i /\ i <= at + n) <=> (k > 0 /\ off < i /\ i <= off + k)
        BY <1>1, <1>2, <1>9, <1>12, <2>1, <2>3, <3>3
      <3> QED BY <2>2, <2>3, <3>2, <3>3, <3>4
    <2>4. CASE ~(i <= l)
      <3> DEFINE j == i - l
      <3>1. j \in 1 .. Len(rest) /\ at < i /\ i <= at + n /\ j + (k + 1) - 1 = i - at
        BY <1>1, <1>6, <1>9, <1>12, <2>1, <2>4
      <3>2. rest[j] = bytes[j + (k + 1) - 1]
        BY <1>5, <3>1
      <3> HIDE DEF j
      <3>3. rest[j] = bytes[i - at]
        BY <3>1, <3>2
      <3> QED BY <2>2, <2>4, <3>1, <3>3 DEF j
    <2> QED BY <2>3, <2>4
  <1>15. w = u
    BY <1>9, <1>11, <1>13, <1>14, SameSeq
  <1> QED BY <1>5, <1>6, <1>15 DEF w, v, u, rest

-----------------------------------------------------------------------------
(* spiffs_hydro_write *)

LEMMA ModifiedGrown ==
  ASSUME NEW s, CoreInv(s), NEW d \in Descriptors, s.fds[d].open, NEW o, o = s.fds[d].obj,
         NEW data \in Seq(Data), Len(data) = Len(s.files[o].data), Len(data) >= 1,
         NEW u, u = Modified(s, d, data)
  PROVE  Grown(s, u, o) /\ u.files[o].data = data
  <1>1. s \in State /\ o \in Objs /\ s.files[o].exists = TRUE /\ s.files[o] \in FileType
    <2>1. s \in State /\ o \in Objs /\ s.files[o].exists
      BY DEF CoreInv, Handles
    <2> QED BY <2>1, Parts DEF FileType
  <1> DEFINE f == [s.files[o] EXCEPT !.data = data]
  <1>2. [s EXCEPT !.files[o].data = data] = [s EXCEPT !.files[o] = f]
    OBVIOUS
  <1>3. Length(s.files[o].size) = Len(data) /\ s.files[o].size \in {Undef} \cup 0 .. MaxSize /\ s.files[o].size # 0
    BY <1>1 DEF CoreInv, Lengths, FileType
  <1>4. s.files[o].size \in 1 .. MaxSize /\ s.files[o].size = Len(data)
    BY <1>3, Constants DEF Length, Undef
  <1>5. data \in Seqs(MaxSize)
    BY <1>4, SeqsAre, Constants
  <1>6. f \in FileType
    BY <1>1, <1>5 DEF FileType
  <1>7. f.exists /\ f.size = s.files[o].size /\ f.data = data
    BY <1>1 DEF FileType
  <1>8. Len(s.files[o].data) <= Len(data)
    BY <1>1, Parts
  <1> HIDE DEF f
  <1> DEFINE moved == TRUE
             t == Stored(s, o, f, moved, d)
  <1>9. u = t
    BY ZenonT(60), <1>2, <1>7 DEF Modified, Stored
  <1> HIDE DEF moved
  <1>10. Grown(s, t, o) /\ t.files[o] = f
    <2>1. /\ o \in Objs /\ s.files[o].exists /\ f \in FileType /\ f.exists
          /\ f.size \in 1 .. MaxSize /\ f.size = Len(f.data) /\ Len(s.files[o].data) <= Len(f.data)
      BY <1>1, <1>4, <1>6, <1>7, <1>8
    <2>2. Grown(s, t, o)
      BY <2>1, StoredGrown
    <2>3. t.files[o] = f
      BY <2>1, StoredGrown
    <2> QED BY <2>2, <2>3
  <1> QED BY <1>7, <1>9, <1>10

LEMMA AppendedGrown ==
  ASSUME NEW s, CoreInv(s), NEW d \in Descriptors, s.fds[d].open, NEW o, o = s.fds[d].obj,
         NEW data \in Seq(Data), Len(s.files[o].data) <= Len(data), Len(data) \in 1 .. MaxSize,
         NEW u, u = Appended(s, d, data)
  PROVE  Grown(s, u, o) /\ u.files[o].data = data
  <1>1. s \in State /\ o \in Objs /\ s.files[o].exists = TRUE /\ s.files[o].size # 0
    <2>1. s \in State /\ o \in Objs /\ s.files[o].exists /\ s.files[o].size # 0
      BY DEF CoreInv, Handles, Lengths
    <2> QED BY <2>1, Parts DEF FileType
  <1> DEFINE f == [data |-> data, exists |-> TRUE, size |-> Len(data)]
             moved == s.files[o].data # <<>>
             t == Stored(s, o, f, moved, d)
  <1>2. data \in Seqs(MaxSize) /\ Len(data) \in {Undef} \cup 0 .. MaxSize
    BY SeqsAre, Constants
  <1>3. f \in FileType
    BY <1>2 DEF FileType
  <1>4. u = [t EXCEPT !.fds[d].size = Len(data)]
    BY Zenon, <1>1 DEF Appended, Stored
  <1>5. f.exists /\ f.size = Len(data) /\ f.data = data
    OBVIOUS
  <1> HIDE DEF f, moved
  <1>6. /\ Grown(s, t, o) /\ t.files[o] = f
        /\ \A c \in Descriptors : s.fds[c].open /\ s.fds[c].obj = o => t.fds[c].size = f.size
    <2>1. /\ o \in Objs /\ s.files[o].exists /\ f \in FileType /\ f.exists
          /\ f.size \in 1 .. MaxSize /\ f.size = Len(f.data) /\ Len(s.files[o].data) <= Len(f.data)
      BY <1>1, <1>3, <1>5
    <2>2. Grown(s, t, o)
      BY <2>1, StoredGrown
    <2>3. t.files[o] = f
      BY <2>1, StoredGrown
    <2>4. ASSUME NEW c \in Descriptors, s.fds[c].open, s.fds[c].obj = o  PROVE t.fds[c].size = f.size
      BY <2>1, <2>4, StoredGrown
    <2> QED BY <2>2, <2>3, <2>4
  <1> HIDE DEF t
  <1>7. t \in State /\ t.fds[d].size = Len(data)
    BY Zenon, <1>5, <1>6 DEF Grown
  <1>8. t.fds \in [Descriptors -> FdType]
    BY <1>7, Parts
  <1>9. [t EXCEPT !.fds[d].size = Len(data)] = t
    BY <1>7, <1>8 DEF State, FdType
  <1>10. t.files[o] = f
    BY <1>1, <1>6, Parts
  <1> QED BY <1>4, <1>5, <1>6, <1>9, <1>10

\* Between two versions of a file: of the new one a beginning, or what follows in the old.
Between(v, old, new) ==
    /\ Len(old) <= Len(v) /\ Len(v) <= Len(new)
    /\ \A i \in 1 .. Len(v) : (i <= Len(old) /\ v[i] = old[i]) \/ v[i] = new[i]

LEMMA AppendFailsAre ==
  ASSUME Careful, NEW s, NEW d, NEW bytes, NEW t \in AppendFails(s, d, bytes)
  PROVE  LET data == s.files[s.fds[d].obj].data
         IN  \/ t = s
             \/ \E k \in (IF data = <<>> THEN 1 ELSE 0) .. (Len(bytes) - 1) :
                    t = Appended(s, d, data \o SubSeq(bytes, 1, k))
  <1>1. "first" \notin Failures /\ "index" \notin Failures
    BY DEF Careful
  <1> QED BY ZenonT(60), <1>1 DEF AppendFails

LEMMA AppendFailing ==
  ASSUME Careful, NEW s, CoreInv(s), NEW d \in Descriptors, s.fds[d].open, NEW o, o = s.fds[d].obj,
         NEW bytes \in Seq(Data), bytes # <<>>, Len(s.files[o].data) + Len(bytes) <= MaxSize,
         NEW t \in AppendFails(s, d, bytes)
  PROVE  Grown(s, t, o) /\ Between(t.files[o].data, s.files[o].data, s.files[o].data \o bytes)
  <1> DEFINE data == s.files[o].data
             fewest == IF data = <<>> THEN 1 ELSE 0
  <1>1. s \in State /\ o \in Objs /\ s.files[o].exists
    BY DEF CoreInv, Handles
  <1>2. data \in Seq(Data) /\ Len(data) \in Nat /\ Len(bytes) \in Nat
    BY <1>1, Parts
  <1>4. \/ t = s
        \/ \E k \in fewest .. (Len(bytes) - 1) : t = Appended(s, d, data \o SubSeq(bytes, 1, k))
    BY <1>1, AppendFailsAre
  <1> DEFINE new == data \o bytes
  <1>5. /\ new \in Seq(Data) /\ Len(new) = Len(data) + Len(bytes)
        /\ \A i \in 1 .. Len(data) + Len(bytes) : new[i] = IF i <= Len(data) THEN data[i] ELSE bytes[i - Len(data)]
    BY ZenonT(60), <1>2, Joined
  <1> HIDE DEF new
  <1>6. CASE t = s
    <2>1. Grown(s, t, o)
      BY <1>1, <1>6, GrownNot
    <2>2. Between(data, data, new)
      BY <1>2, <1>5 DEF Between
    <2> QED BY ZenonT(60), <1>6, <2>1, <2>2 DEF new
  <1>7. ASSUME NEW k \in fewest .. (Len(bytes) - 1), t = Appended(s, d, data \o SubSeq(bytes, 1, k))
        PROVE  Grown(s, t, o) /\ Between(t.files[o].data, data, new)
    <2> DEFINE part == SubSeq(bytes, 1, k)
               v == data \o part
    <2>1. k \in Nat /\ k < Len(bytes) /\ k <= Len(bytes) /\ 1 \in Nat \ {0}
      BY <1>2
    <2>2. part \in Seq(Data) /\ Len(part) = k /\ \A i \in 1 .. k : part[i] = bytes[i]
      <3>1. /\ SubSeq(bytes, 1, k) \in Seq(Data)
            /\ Len(SubSeq(bytes, 1, k)) = IF 1 <= k THEN k - 1 + 1 ELSE 0
            /\ \A i \in 1 .. Len(SubSeq(bytes, 1, k)) : SubSeq(bytes, 1, k)[i] = bytes[i + 1 - 1]
        BY <2>1, Cut
      <3>2. Len(part) = k
        BY <2>1, <3>1
      <3>3. \A i \in 1 .. k : i \in 1 .. Len(part) /\ i + 1 - 1 = i
        BY <2>1, <3>2
      <3> QED BY <3>1, <3>2, <3>3
    <2> HIDE DEF part
    <2>3. /\ v \in Seq(Data) /\ Len(v) = Len(data) + k
          /\ \A i \in 1 .. Len(data) + k : v[i] = IF i <= Len(data) THEN data[i] ELSE part[i - Len(data)]
      <3>1. data \in Seq(Data) /\ part \in Seq(Data) /\ Len(part) = k
        BY <1>2, <2>2
      <3> HIDE DEF data
      <3> QED BY <3>1, Joined
    <2>4. t = Appended(s, d, v)
      BY <1>7 DEF part
    <2> HIDE DEF v
    <2>5. Len(v) \in 1 .. MaxSize /\ Len(data) <= Len(v)
      <3>1. Len(data) = 0 => k >= 1
        <4>1. Len(data) = 0 => fewest = 1
          BY <1>2
        <4> HIDE DEF fewest
        <4> QED BY <1>2, <1>7, <4>1
      <3>2. Len(data) + Len(bytes) <= MaxSize
        OBVIOUS
      <3> DEFINE l == Len(data)
                 n == Len(bytes)
                 m == Len(v)
      <3>3. l \in Nat /\ n \in Nat /\ m = l + k /\ l + n <= MaxSize /\ (l = 0 => k >= 1)
        BY ZenonT(60), <1>2, <2>3, <3>1, <3>2
      <3>4. k \in Nat /\ k <= n
        BY <2>1
      <3> HIDE DEF l, m, n
      <3>5. m \in 1 .. MaxSize /\ l <= m
        BY <3>3, <3>4, Constants
      <3> QED BY <3>5 DEF l, m
    <2>6. Grown(s, t, o) /\ t.files[o].data = v
      <3>1. Len(s.files[o].data) <= Len(v)
        BY <2>5
      <3>2. v \in Seq(Data) /\ Len(v) \in 1 .. MaxSize
        BY <2>3, <2>5
      <3> HIDE DEF data
      <3> QED BY <2>4, <3>1, <3>2, AppendedGrown
    <2>7. Between(v, data, new)
      <3> HIDE DEF data
      <3>1. Len(v) <= Len(new)
        BY <1>2, <1>5, <2>1, <2>3
      <3>2. ASSUME NEW i \in 1 .. Len(v)  PROVE (i <= Len(data) /\ v[i] = data[i]) \/ v[i] = new[i]
        <4>1. i \in 1 .. Len(data) + k /\ i \in 1 .. Len(data) + Len(bytes)
          BY <1>2, <2>1, <2>3
        <4>2. CASE i <= Len(data)
          BY <2>3, <4>1, <4>2
        <4>3. CASE ~(i <= Len(data))
          <5>1. i - Len(data) \in 1 .. k
            BY <1>2, <2>1, <4>1, <4>3
          <5>2. v[i] = part[i - Len(data)] /\ new[i] = bytes[i - Len(data)]
            BY <1>5, <2>3, <4>1, <4>3
          <5> QED BY <2>2, <5>1, <5>2
        <4> QED BY <4>2, <4>3
      <3> QED BY <2>5, <3>1, <3>2 DEF Between
    <2> QED BY <2>6, <2>7
  <1> QED BY ZenonT(60), <1>4, <1>6, <1>7 DEF new

Outcome == [s : State, ok : BOOLEAN]

\* Of the bytes to write at off, how many lie within a file of this length.
Inside(size, off, bytes) ==
    IF size # Undef /\ off < size THEN Smaller(size - off, Len(bytes)) ELSE 0
Over(s, d, off, bytes, k) ==
    IF k = 0 THEN s ELSE Modified(s, d, FirstPut(s.files[s.fds[d].obj].data, off, bytes, k))

\* The ways spiffs_hydro_write ends: an error and nothing done, all within the
\* file, the rest appended, or some of it.
LEMMA HydroWriteCases ==
  ASSUME NEW s, NEW d, NEW off, NEW bytes, NEW r \in HydroWrite(s, d, off, bytes),
         s.fds[d].hdr = TRUE
  PROVE  LET k == Inside(s.fds[d].size, off, bytes)
             over == Over(s, d, off, bytes, k)
             rest == RestOf(bytes, k)
             whole == over.files[s.fds[d].obj].data \o rest
         IN  \/ r \in [s : {s}, ok : {FALSE}]
             \/ /\ ~(s.fds[d].size = Undef /\ off > 0)
                /\ \/ rest = <<>> /\ r = [s |-> over, ok |-> TRUE]
                   \/ rest # <<>> /\ r = [s |-> Appended(over, d, whole), ok |-> TRUE]
                   \/ rest # <<>> /\ r \in [s : AppendFails(over, d, rest), ok : {FALSE}]
  <1> DEFINE fd == s.fds[d]
             data == s.files[fd.obj].data
             inside == IF fd.size # Undef /\ off < fd.size THEN Smaller(fd.size - off, Len(bytes)) ELSE 0
             rest == SubSeq(bytes, inside + 1, Len(bytes))
             over == IF inside = 0 THEN s ELSE Modified(s, d, Put(data, off, SubSeq(bytes, 1, inside)))
  <1>1. inside = Inside(s.fds[d].size, off, bytes)
    BY DEF Inside
  <1>2. rest = RestOf(bytes, inside) /\ over = Over(s, d, off, bytes, inside)
    BY DEF RestOf, Over, FirstPut
  <1> DEFINE Ok(t) == {[s |-> t, ok |-> TRUE]}
             Error(S) == [s : S, ok : {FALSE}]
  <1>3. r \in IF ~fd.hdr \/ (fd.size = Undef /\ off > 0) THEN Error({s})
              ELSE IF rest = <<>> THEN Ok(over) \cup Error(IF "room" \in Failures THEN {s} ELSE {})
              ELSE UNION {Ok(Appended(over, d, over.files[fd.obj].data \o rest)),
                          Error(AppendFails(over, d, rest)),
                          Error(IF inside > 0 /\ "room" \in Failures THEN {s} ELSE {})}
    BY Zenon DEF HydroWrite
  <1> HIDE DEF inside, rest, over
  <1> DEFINE done == [s |-> Appended(over, d, over.files[fd.obj].data \o rest), ok |-> TRUE]
             fails == AppendFails(over, d, rest)
  <1>4. \A c \in BOOLEAN : \A q \in Error(IF c THEN {s} ELSE {}) : q \in Error({s})
    OBVIOUS
  <1>5. CASE ~fd.hdr \/ (fd.size = Undef /\ off > 0)
    BY <1>3, <1>5
  <1>6. CASE ~(~fd.hdr \/ (fd.size = Undef /\ off > 0)) /\ rest = <<>>
    <2>1. r \in Ok(over) \cup Error(IF "room" \in Failures THEN {s} ELSE {})
      BY <1>3, <1>6
    <2>2. r = [s |-> over, ok |-> TRUE] \/ r \in Error({s})
      BY <2>1
    <2> QED BY <1>1, <1>2, <1>6, <2>2
  <1>7. CASE ~(~fd.hdr \/ (fd.size = Undef /\ off > 0)) /\ rest # <<>>
    <2>1. r \in UNION {{done}, Error(fails), Error(IF inside > 0 /\ "room" \in Failures THEN {s} ELSE {})}
      BY <1>3, <1>7
    <2>2. r = done \/ r \in Error(fails) \/ r \in Error({s})
      <3> DEFINE Last == Error(IF inside > 0 /\ "room" \in Failures THEN {s} ELSE {})
                 Failing == Error(fails)
      <3>1. Last \subseteq Error({s})
        OBVIOUS
      <3>2. r \in UNION {{done}, Failing, Last}
        BY <2>1
      <3> HIDE DEF done, fails, Last, Failing
      <3>3. r = done \/ r \in Failing \/ r \in Last
        BY <3>2
      <3> QED BY <3>1, <3>3 DEF Failing
    <2> HIDE DEF done, fails
    <2> QED BY ZenonT(60), <1>1, <1>2, <1>7, <2>2 DEF done, fails
  <1> QED BY ZenonT(60), <1>5, <1>6, <1>7

\* k of the bytes lie within a file of length l, and the rest beyond it.
Splits(l, off, bytes, k) ==
    \/ k = 0 /\ (off >= l \/ bytes = <<>>)
    \/ k > 0 /\ off + k <= l /\ (k = Len(bytes) \/ off + k = l)

OverFacts(s, t, o, off, bytes, k) ==
    Grown(s, t, o) /\ t.files[o].data = FirstPut(s.files[o].data, off, bytes, k)

LEMMA OverIs ==
  ASSUME NEW s, CoreInv(s), NEW d \in Descriptors, s.fds[d].open, NEW o, o = s.fds[d].obj,
         NEW off \in Nat, NEW bytes \in Seq(Data),
         NEW k, k = Inside(s.fds[d].size, off, bytes), ~(s.fds[d].size = Undef /\ off > 0)
  PROVE  /\ k \in 0 .. Len(bytes)
         /\ Splits(Len(s.files[o].data), off, bytes, k)
         /\ OverFacts(s, Over(s, d, off, bytes, k), o, off, bytes, k)
  <1> DEFINE data == s.files[o].data
             size == s.fds[d].size
             l == Len(data)
             n == Len(bytes)
             v == FirstPut(data, off, bytes, k)
             over == Over(s, d, off, bytes, k)
  <1>1. s \in State /\ o \in Objs /\ s.files[o].exists /\ Length(size) = l
    BY DEF CoreInv, Handles, Lengths
  <1>2. l \in Nat /\ n \in Nat /\ data \in Seq(Data) /\ size \in {Undef} \cup 0 .. MaxSize /\ (n = 0 => bytes = <<>>)
    <2>1. s.fds[d] \in FdType /\ data \in Seq(Data)
      BY <1>1, Parts
    <2>2. Len(bytes) = 0 => bytes = <<>>
      OBVIOUS
    <2>3. size \in {Undef} \cup 0 .. MaxSize
      BY <2>1 DEF FdType
    <2>4. n \in Nat
      OBVIOUS
    <2>5. l \in Nat
      <3> HIDE DEF data
      <3> QED BY <2>1
    <2> QED BY <2>1, <2>2, <2>3, <2>4, <2>5
  <1>3. k = IF size # Undef /\ off < size THEN Smaller(size - off, n) ELSE 0
    BY DEF Inside
  <1>4. ~(size = Undef /\ off > 0)
    OBVIOUS
  <1> HIDE DEF l, n, size
  <1>5. (size = Undef => off = 0 /\ l = 0) /\ (size # Undef => size = l)
    BY <1>1, <1>2, <1>4 DEF Length, Undef
  <1>6. k = IF off < l THEN Smaller(l - off, n) ELSE 0
    BY <1>1, <1>2, <1>3, <1>5 DEF Undef
  <1>7. /\ k \in 0 .. n
        /\ (k = 0 /\ (off >= l \/ n = 0)) \/ (k > 0 /\ off + k <= l /\ (k = n \/ off + k = l))
    BY <1>2, <1>6 DEF Smaller
  <1>8. k \in 0 .. Len(bytes) /\ (k = 0 \/ off + k <= Len(data))
    BY <1>7 DEF l, n
  <1>9. v \in Seq(Data) /\ Len(v) = Len(data)
    BY <1>2, <1>8, FirstPutIs
  <1>10. Grown(s, over, o) /\ over.files[o].data = v
    <2>1. CASE k = 0
      <3>1. over = s
        BY <2>1 DEF Over
      <3>2. v = data
        BY <1>2, <2>1, FirstPutNone
      <3>3. Grown(s, s, o)
        BY <1>1, GrownNot
      <3> HIDE DEF over, v
      <3> QED BY <3>1, <3>2, <3>3
    <2>2. CASE k # 0
      <3> HIDE DEF v
      <3>1. over = Modified(s, d, v)
        BY <2>2 DEF Over, v
      <3>2. Len(v) >= 1
        <4>1. l >= 1
          BY <1>2, <1>7, <2>2
        <4> QED BY <1>9, <4>1 DEF l
      <3>3. v \in Seq(Data) /\ Len(v) = Len(s.files[o].data)
        BY <1>9
      <3> HIDE DEF over, data
      <3> QED BY <3>1, <3>2, <3>3, ModifiedGrown
    <2> QED BY <2>1, <2>2
  <1>11. Splits(l, off, bytes, k)
    BY <1>2, <1>7 DEF Splits, n
  <1> QED BY ZenonT(60), <1>7, <1>10, <1>11 DEF l, n, v, OverFacts

\* The bytes beyond the end of the file follow those within it.
RestFacts(s, d, o, off, bytes, k, over, rest) ==
    /\ CoreInv(over) /\ Grown(s, over, o) /\ over.fds[d].open /\ over.fds[d].obj = o
    /\ rest \in Seq(Data) /\ Len(over.files[o].data) = Len(s.files[o].data)
    /\ Len(rest) >= 1 /\ Len(over.files[o].data) + Len(rest) <= MaxSize
    /\ over.files[o].data = FirstPut(s.files[o].data, off, bytes, k)
    /\ over.files[o].data \o rest = Put(s.files[o].data, off, bytes)
    /\ k \in 0 .. Len(bytes) /\ (k = 0 \/ off + k <= Len(s.files[o].data))

LEMMA RestIs ==
  ASSUME NEW s, CoreInv(s), NEW d \in Descriptors, s.fds[d].open, NEW o, o = s.fds[d].obj,
         NEW off \in Nat, NEW bytes \in Seq(Data), off + Len(bytes) <= MaxSize,
         NEW k, k = Inside(s.fds[d].size, off, bytes), ~(s.fds[d].size = Undef /\ off > 0),
         NEW over, over = Over(s, d, off, bytes, k), NEW rest, rest = RestOf(bytes, k), rest # <<>>
  PROVE  RestFacts(s, d, o, off, bytes, k, over, rest)
  <1> DEFINE data == s.files[o].data
             l == Len(data)
             n == Len(bytes)
             v == FirstPut(data, off, bytes, k)
  <1>1. s \in State /\ o \in Objs
    BY DEF CoreInv, Handles
  <1>2. data \in Seq(Data)
    BY <1>1, Parts
  <1>3. l \in Nat /\ n \in Nat
    <2>1. n \in Nat
      OBVIOUS
    <2>2. l \in Nat
      <3> HIDE DEF data
      <3> QED BY <1>2
    <2> QED BY <2>1, <2>2
  <1>4. k \in 0 .. n
    BY OverIs
  <1>5. (k = 0 /\ (off >= l \/ bytes = <<>>)) \/ (k > 0 /\ off + k <= l /\ (k = n \/ off + k = l))
    <2>1. Splits(l, off, bytes, k)
      BY OverIs
    <2> QED BY <2>1 DEF Splits
  <1>6. OverFacts(s, over, o, off, bytes, k)
    BY OverIs
  <1>7. Grown(s, over, o) /\ over.files[o].data = v
    BY <1>6 DEF OverFacts
  <1>8. k # n
    <2>1. k = n => SubSeq(bytes, k + 1, Len(bytes)) = <<>>
      BY <1>3
    <2> QED BY <2>1 DEF RestOf
  <1>9. bytes # <<>>
    <2>1. bytes = <<>> => n = 0
      OBVIOUS
    <2> QED BY <1>3, <1>4, <1>8, <2>1
  <1>10. (k = 0 /\ off >= Len(data)) \/ off + k = Len(data)
    BY <1>5, <1>8, <1>9
  <1>11. rest \in Seq(Data) /\ Len(rest) = n - k /\ v \o rest = Put(data, off, bytes)
    <2>1. RestOf(bytes, k) \in Seq(Data) /\ Len(RestOf(bytes, k)) = Len(bytes) - k
      BY <1>2, <1>4, <1>10, PutInTwo
    <2>2. FirstPut(data, off, bytes, k) \o RestOf(bytes, k) = Put(data, off, bytes)
      BY ZenonT(60), <1>2, <1>4, <1>10, PutInTwo
    <2>3. rest = RestOf(bytes, k)
      OBVIOUS
    <2> QED BY Zenon, <2>1, <2>2, <2>3
  <1>12. k = 0 \/ off + k <= Len(data)
    BY <1>3, <1>5
  <1>13. Len(v) = l
    BY <1>2, <1>4, <1>12, FirstPutIs
  <1>14. CoreInv(over)
    BY <1>1, <1>7, GrownInv
  <1>15. over.fds[d].open /\ over.fds[d].obj = o
    BY <1>1, <1>7, GrownFds
  <1>16. Len(rest) >= 1 /\ Len(over.files[o].data) + Len(rest) <= MaxSize
    <2> DEFINE m == Len(rest)
    <2>1. Len(over.files[o].data) = l /\ m = n - k /\ off + n <= MaxSize
      BY Zenon, <1>7, <1>11, <1>13
    <2>2. (k = 0 /\ off >= l) \/ off + k = l
      BY <1>10
    <2> HIDE DEF l, n, m
    <2>3. m >= 1 /\ l + m <= MaxSize
      BY <1>3, <1>4, <1>8, <2>1, <2>2, Constants
    <2> QED BY <2>1, <2>3 DEF m
  <1> QED BY Zenon, <1>4, <1>7, <1>11, <1>12, <1>13, <1>14, <1>15, <1>16 DEF RestFacts

\* What a write of bytes at off makes of the file: all of it, or part of it.
LEMMA HydroWriteIs ==
  ASSUME Careful, NEW s, CoreInv(s), NEW d \in Descriptors, s.fds[d].open, NEW o, o = s.fds[d].obj,
         NEW off \in Nat, NEW bytes \in Seq(Data), off + Len(bytes) <= MaxSize,
         NEW r \in HydroWrite(s, d, off, bytes)
  PROVE  /\ r \in Outcome /\ Grown(s, r.s, o)
         /\ r.ok => r.s.files[o].data = Put(s.files[o].data, off, bytes)
         /\ ~r.ok => Between(r.s.files[o].data, s.files[o].data, Put(s.files[o].data, off, bytes))
  <1> DEFINE data == s.files[o].data
             new == Put(data, off, bytes)
             l == Len(data)
             k == Inside(s.fds[d].size, off, bytes)
             over == Over(s, d, off, bytes, k)
             rest == RestOf(bytes, k)
             whole == over.files[o].data \o rest
  <1>1. s \in State /\ o \in Objs /\ s.files[o].exists /\ s.fds[d].hdr = TRUE
    <2>1. s \in State /\ o \in Objs /\ s.files[o].exists /\ s.fds[d].hdr
      BY DEF CoreInv, Handles
    <2> QED BY <2>1, Parts DEF FdType
  <1>2. data \in Seq(Data) /\ l \in Nat
    BY <1>1, Parts
  <1>3. Len(new) \in Nat /\ l <= Len(new)
    <2> DEFINE at == Smaller(off, l)
               n == Len(bytes)
    <2>1. at \in Nat /\ Len(new) = Larger(l, at + n) /\ n \in Nat
      BY SMTT(60), <1>2, PutIs
    <2> HIDE DEF at, n, l, new
    <2> QED BY <1>2, <2>1 DEF Larger
  <1>4. \/ r \in [s : {s}, ok : {FALSE}]
        \/ /\ ~(s.fds[d].size = Undef /\ off > 0)
           /\ \/ rest = <<>> /\ r = [s |-> over, ok |-> TRUE]
              \/ rest # <<>> /\ r = [s |-> Appended(over, d, whole), ok |-> TRUE]
              \/ rest # <<>> /\ r \in [s : AppendFails(over, d, rest), ok : {FALSE}]
    BY ZenonT(60), <1>1, HydroWriteCases
  <1> HIDE DEF rest, over, k
  <1>5. CASE r \in [s : {s}, ok : {FALSE}]
    <2>1. r \in Outcome /\ r.s = s /\ r.ok = FALSE
      BY <1>1, <1>5 DEF Outcome
    <2>2. Grown(s, s, o)
      BY <1>1, GrownNot
    <2>3. Between(data, data, new)
      <3> HIDE DEF data, new
      <3> QED BY <1>2, <1>3 DEF Between
    <2> QED BY <2>1, <2>2, <2>3
  <1>6. ASSUME ~(s.fds[d].size = Undef /\ off > 0), rest = <<>>, r = [s |-> over, ok |-> TRUE]
        PROVE  r \in Outcome /\ Grown(s, r.s, o) /\ r.ok /\ r.s.files[o].data = new
    <2>1. k \in 0 .. Len(bytes)
      BY <1>6, OverIs DEF k
    <2>2. OverFacts(s, over, o, off, bytes, k)
      BY <1>6, OverIs DEF k, over
    <2>3. Grown(s, over, o) /\ over.files[o].data = FirstPut(data, off, bytes, k)
      BY <2>2 DEF OverFacts
    <2>4. k = Len(bytes)
      <3> DEFINE n == Len(bytes)
      <3>1. n \in Nat /\ n <= Len(bytes) /\ k + 1 \in Nat \ {0}
        BY <2>1
      <3>2. Len(SubSeq(bytes, k + 1, n)) = IF k + 1 <= n THEN n - (k + 1) + 1 ELSE 0
        BY <3>1, Cut
      <3>3. Len(SubSeq(bytes, k + 1, n)) = 0
        <4>1. rest = SubSeq(bytes, k + 1, n)
          BY DEF rest, RestOf
        <4>2. rest = <<>>
          BY <1>6
        <4> HIDE DEF n
        <4>3. SubSeq(bytes, k + 1, n) = <<>>
          BY <4>1, <4>2
        <4> DEFINE q == SubSeq(bytes, k + 1, n)
        <4>4. q = <<>>
          BY <4>3
        <4> HIDE DEF q
        <4>5. Len(q) = 0
          BY <4>4
        <4> QED BY <4>5 DEF q
      <3>4. k \in 0 .. n
        BY <2>1
      <3> HIDE DEF n
      <3>5. k = n
        BY <3>1, <3>2, <3>3, <3>4
      <3> QED BY <3>5 DEF n
    <2>5. over.files[o].data = new
      BY <1>2, <2>3, <2>4, FirstPutAll
    <2>6. over \in State
      BY Zenon, <2>3 DEF Grown
    <2> QED BY <1>6, <2>3, <2>5, <2>6 DEF Outcome
  <1>7. ASSUME ~(s.fds[d].size = Undef /\ off > 0), rest # <<>>
        PROVE  /\ CoreInv(over) /\ Grown(s, over, o) /\ over.fds[d].open /\ over.fds[d].obj = o
               /\ rest \in Seq(Data) /\ Len(over.files[o].data) = l
               /\ Len(rest) >= 1 /\ Len(over.files[o].data) + Len(rest) <= MaxSize
               /\ over.files[o].data = FirstPut(data, off, bytes, k)
               /\ whole = new
               /\ k \in 0 .. Len(bytes) /\ (k = 0 \/ off + k <= l)
    <2>1. RestFacts(s, d, o, off, bytes, k, over, rest)
      BY <1>7, RestIs DEF over, rest, k
    <2> QED BY Zenon, <2>1 DEF RestFacts
  <1>8. ASSUME ~(s.fds[d].size = Undef /\ off > 0), rest # <<>>, r = [s |-> Appended(over, d, whole), ok |-> TRUE]
        PROVE  r \in Outcome /\ Grown(s, r.s, o) /\ r.ok /\ r.s.files[o].data = new
    <2> DEFINE u == Appended(over, d, whole)
               old == over.files[o].data
    <2>1. over \in State /\ old \in Seq(Data)
      <3>1. over \in State
        BY Zenon, <1>7, <1>8 DEF CoreInv
      <3> QED BY <1>1, <3>1, Parts
    <2>2. rest \in Seq(Data) /\ Len(rest) >= 1 /\ Len(old) + Len(rest) <= MaxSize
      BY Zenon, <1>7, <1>8
    <2> HIDE DEF old
    <2>3. old \o rest \in Seq(Data) /\ Len(old \o rest) = Len(old) + Len(rest)
      BY <2>1, <2>2, Joined
    <2>4. Len(old) <= Len(old \o rest) /\ Len(old \o rest) \in 1 .. MaxSize
      <3> DEFINE a == Len(old)
                 b == Len(rest)
      <3>1. a \in Nat /\ b \in Nat /\ b >= 1 /\ a + b <= MaxSize /\ Len(old \o rest) = a + b
        BY <2>1, <2>2, <2>3
      <3> HIDE DEF a, b
      <3>2. a <= a + b /\ a + b \in 1 .. MaxSize
        BY <3>1, Constants
      <3> QED BY <3>1, <3>2 DEF a
    <2>5. whole \in Seq(Data) /\ Len(over.files[o].data) <= Len(whole) /\ Len(whole) \in 1 .. MaxSize
      BY <2>3, <2>4 DEF old
    <2>6. CoreInv(over) /\ over.fds[d].open /\ o = over.fds[d].obj /\ whole = new /\ Grown(s, over, o)
      BY Zenon, <1>7, <1>8
    <2> HIDE DEF whole, u, new
    <2>7. Grown(over, u, o) /\ u.files[o].data = whole
      BY <2>5, <2>6, AppendedGrown DEF u
    <2>8. Grown(s, u, o)
      BY <1>1, <2>6, <2>7, GrownAgain
    <2>9. u \in State
      BY Zenon, <2>8 DEF Grown
    <2> QED BY <1>8, <2>6, <2>7, <2>8, <2>9 DEF Outcome, u
  <1>9. ASSUME ~(s.fds[d].size = Undef /\ off > 0), rest # <<>>, r \in [s : AppendFails(over, d, rest), ok : {FALSE}]
        PROVE  r \in Outcome /\ Grown(s, r.s, o) /\ ~r.ok /\ Between(r.s.files[o].data, data, new)
    <2> DEFINE old == over.files[o].data
               u == r.s
    <2>1. u \in AppendFails(over, d, rest) /\ r.ok = FALSE
      BY <1>9
    <2>2. CoreInv(over) /\ over.fds[d].open /\ o = over.fds[d].obj /\ rest \in Seq(Data) /\ rest # <<>>
          /\ Len(over.files[o].data) + Len(rest) <= MaxSize /\ Grown(s, over, o)
      BY Zenon, <1>7, <1>9
    <2> HIDE DEF u
    <2>3. Grown(over, u, o) /\ Between(u.files[o].data, old, old \o rest)
      BY <2>1, <2>2, AppendFailing
    <2>4. Grown(s, u, o)
      BY ZenonT(60), <1>1, <2>2, <2>3, GrownAgain
    <2>5. u \in State
      BY <2>4 DEF Grown
    <2>6. old \o rest = new /\ Len(old) = l /\ old = FirstPut(data, off, bytes, k)
      BY Zenon, <1>7, <1>9
    <2>7. \A i \in 1 .. l : old[i] = data[i] \/ old[i] = new[i]
      <3> DEFINE at == Smaller(off, l)
      <3>1. k \in 0 .. Len(bytes) /\ (k = 0 \/ off + k <= Len(data))
        BY Zenon, <1>7, <1>9
      <3>2. \A i \in 1 .. l : old[i] = IF k > 0 /\ off < i /\ i <= off + k THEN bytes[i - off] ELSE data[i]
        <4> DEFINE v == FirstPut(data, off, bytes, k)
        <4>1. \A i \in 1 .. Len(data) : v[i] = IF k > 0 /\ off < i /\ i <= off + k THEN bytes[i - off] ELSE data[i]
          BY SMTT(60), <1>2, <3>1, FirstPutIs
        <4>2. old = v
          BY Zenon, <2>6
        <4> HIDE DEF v, old
        <4> QED BY <4>1, <4>2
      <3>3. at \in Nat /\ \A i \in 1 .. Len(new) : new[i] = IF at < i /\ i <= at + Len(bytes) THEN bytes[i - at] ELSE data[i]
        BY ZenonT(60), <1>2, PutIs
      <3> TAKE i \in 1 .. l
      <3>4. CASE k > 0 /\ off < i /\ i <= off + k
        <4> DEFINE n == Len(bytes)
        <4>1. n \in Nat /\ k \in 0 .. n /\ off + k <= l
          BY <3>1, <3>4
        <4>2. i \in 1 .. Len(new)
          BY <1>2, <1>3
        <4> HIDE DEF n, l
        <4>3. at = off /\ i <= off + n
          BY <1>2, <3>4, <4>1 DEF Smaller
        <4> HIDE DEF at, new
        <4>4. new[i] = bytes[i - off]
          BY <3>3, <3>4, <4>2, <4>3 DEF n
        <4> QED BY <3>2, <3>4, <4>4
      <3>5. CASE ~(k > 0 /\ off < i /\ i <= off + k)
        BY <3>2, <3>5
      <3> QED BY ZenonT(60), <3>4, <3>5
    <2>8. Between(u.files[o].data, data, new)
      <3> DEFINE w == u.files[o].data
      <3>1. Between(w, old, new) /\ Len(old) = l
        BY Zenon, <2>3, <2>6
      <3> HIDE DEF w, old, new, data
      <3>2. l <= Len(w) /\ Len(w) <= Len(new)
        BY <3>1 DEF Between
      <3>3. ASSUME NEW i \in 1 .. Len(w)  PROVE (i <= Len(data) /\ w[i] = data[i]) \/ w[i] = new[i]
        <4>1. (i <= l /\ w[i] = old[i]) \/ w[i] = new[i]
          BY <3>1 DEF Between
        <4>2. CASE i <= l /\ w[i] = old[i]
          <5>1. i \in 1 .. l
            BY <1>2, <4>2
          <5>2. old[i] = data[i] \/ old[i] = new[i]
            BY <2>7, <5>1
          <5> QED BY <4>2, <5>2
        <4> QED BY <4>1, <4>2
      <3> QED BY <3>2, <3>3 DEF Between, w
    <2> QED BY <2>1, <2>4, <2>5, <2>8, <1>9 DEF Outcome, u
  <1> QED BY ZenonT(60), <1>4, <1>5, <1>6, <1>8, <1>9

-----------------------------------------------------------------------------
(* One descriptor or one cache page changes *)

WithFd(s, d, fd) == [s EXCEPT !.fds[d] = fd]
WithPage(s, p, page) == [s EXCEPT !.pages[p] = page]
WithFile(s, o, file) == [s EXCEPT !.files[o] = file]

\* All but one descriptor, cache page or file is the same.
OnlyFd(s, t, d) ==
    /\ t \in State /\ t.files = s.files /\ t.pages = s.pages
    /\ \A c \in Descriptors : c # d => t.fds[c] = s.fds[c]
OnlyPage(s, t, p) ==
    /\ t \in State /\ t.files = s.files /\ t.fds = s.fds
    /\ \A q \in CachePages : q # p => t.pages[q] = s.pages[q]
OnlyFile(s, t, o) ==
    /\ t \in State /\ t.fds = s.fds /\ t.pages = s.pages
    /\ \A x \in Objs : x # o => t.files[x] = s.files[x]

LEMMA FdSet ==
  ASSUME NEW s \in State, NEW d \in Descriptors, NEW fd \in FdType
  PROVE  OnlyFd(s, WithFd(s, d, fd), d) /\ WithFd(s, d, fd).fds[d] = fd
  <1> DEFINE fdsNew == [s.fds EXCEPT ![d] = fd]
  <1>1. s.fds \in [Descriptors -> FdType]
    BY Parts
  <1>2. /\ fdsNew \in [Descriptors -> FdType] /\ fdsNew[d] = fd
        /\ \A c \in Descriptors : c # d => fdsNew[c] = s.fds[c]
    BY <1>1
  <1>3. WithFd(s, d, fd) = [s EXCEPT !.fds = fdsNew]
    BY DEF WithFd
  <1> HIDE DEF fdsNew
  <1> QED BY <1>2, <1>3 DEF State, OnlyFd

LEMMA PageSet ==
  ASSUME NEW s \in State, NEW p \in CachePages, NEW page \in PageType
  PROVE  OnlyPage(s, WithPage(s, p, page), p) /\ WithPage(s, p, page).pages[p] = page
  <1> DEFINE pagesNew == [s.pages EXCEPT ![p] = page]
  <1>1. s.pages \in [CachePages -> PageType]
    BY Parts
  <1>2. /\ pagesNew \in [CachePages -> PageType] /\ pagesNew[p] = page
        /\ \A q \in CachePages : q # p => pagesNew[q] = s.pages[q]
    BY <1>1
  <1>3. WithPage(s, p, page) = [s EXCEPT !.pages = pagesNew]
    BY DEF WithPage
  <1> HIDE DEF pagesNew
  <1> QED BY <1>2, <1>3 DEF State, OnlyPage

LEMMA FileSet ==
  ASSUME NEW s \in State, NEW o \in Objs, NEW file \in FileType
  PROVE  OnlyFile(s, WithFile(s, o, file), o) /\ WithFile(s, o, file).files[o] = file
  <1> DEFINE filesNew == [s.files EXCEPT ![o] = file]
  <1>1. s.files \in [Objs -> FileType]
    BY Parts
  <1>2. /\ filesNew \in [Objs -> FileType] /\ filesNew[o] = file
        /\ \A x \in Objs : x # o => filesNew[x] = s.files[x]
    BY <1>1
  <1>3. WithFile(s, o, file) = [s EXCEPT !.files = filesNew]
    BY DEF WithFile
  <1> HIDE DEF filesNew
  <1> QED BY <1>2, <1>3 DEF State, OnlyFile

\* Descriptor c is the same but for its position.
SameFd(s, t, c) ==
    /\ t.fds[c].open = s.fds[c].open /\ t.fds[c].obj = s.fds[c].obj /\ t.fds[c].cp = s.fds[c].cp
    /\ t.fds[c].append = s.fds[c].append /\ t.fds[c].direct = s.fds[c].direct
    /\ t.fds[c].hdr = s.fds[c].hdr /\ t.fds[c].used = s.fds[c].used /\ t.fds[c].size = s.fds[c].size

MovedTo(s, d, x) == WithFd(s, d, [s.fds[d] EXCEPT !.at = x])

LEMMA MovedIs ==
  ASSUME NEW s \in State, NEW d \in Descriptors, NEW x \in 0 .. MaxSize
  PROVE  /\ OnlyFd(s, MovedTo(s, d, x), d) /\ MovedTo(s, d, x).fds[d].at = x
         /\ \A c \in Descriptors : SameFd(s, MovedTo(s, d, x), c)
  <1> DEFINE fd == [s.fds[d] EXCEPT !.at = x]
             t == MovedTo(s, d, x)
  <1>1. s.fds[d] \in FdType
    BY Parts
  <1>2. /\ fd \in FdType /\ fd.at = x
        /\ fd.open = s.fds[d].open /\ fd.obj = s.fds[d].obj /\ fd.cp = s.fds[d].cp
        /\ fd.append = s.fds[d].append /\ fd.direct = s.fds[d].direct
        /\ fd.hdr = s.fds[d].hdr /\ fd.used = s.fds[d].used /\ fd.size = s.fds[d].size
    BY <1>1 DEF FdType
  <1>3. t = WithFd(s, d, fd)
    BY DEF MovedTo
  <1> HIDE DEF fd, t
  <1>4. OnlyFd(s, t, d) /\ t.fds[d] = fd
    BY <1>2, <1>3, FdSet
  <1>5. \A c \in Descriptors : SameFd(s, t, c)
    <2> TAKE c \in Descriptors
    <2>1. CASE c = d
      BY <1>2, <1>4, <2>1 DEF SameFd
    <2>2. CASE c # d
      BY <1>4, <2>2 DEF SameFd, OnlyFd
    <2> QED BY <2>1, <2>2
  <1> QED BY <1>2, <1>4, <1>5 DEF t, fd

LEMMA MovedCore ==
  ASSUME NEW s, CoreInv(s), NEW d \in Descriptors, NEW x \in 0 .. MaxSize
  PROVE  /\ CoreInv(MovedTo(s, d, x))
         /\ \A c \in Descriptors : c # d /\ Within(s, c) => Within(MovedTo(s, d, x), c)
         /\ s.fds[d].cp = NoPage => Within(MovedTo(s, d, x), d)
  <1> DEFINE t == MovedTo(s, d, x)
  <1>1. s \in State
    BY DEF CoreInv
  <1>2. /\ t \in State /\ t.files = s.files /\ t.pages = s.pages
        /\ \A c \in Descriptors : c # d => t.fds[c] = s.fds[c]
        /\ \A c \in Descriptors :
             /\ t.fds[c].open = s.fds[c].open /\ t.fds[c].obj = s.fds[c].obj /\ t.fds[c].cp = s.fds[c].cp
             /\ t.fds[c].append = s.fds[c].append /\ t.fds[c].direct = s.fds[c].direct
             /\ t.fds[c].hdr = s.fds[c].hdr /\ t.fds[c].used = s.fds[c].used /\ t.fds[c].size = s.fds[c].size
    <2>1. \A c \in Descriptors : SameFd(s, t, c)
      BY <1>1, MovedIs
    <2>2. OnlyFd(s, t, d)
      BY <1>1, MovedIs
    <2> QED BY <2>1, <2>2 DEF SameFd, OnlyFd
  <1> HIDE DEF t
  <1>3. InUse(t) = InUse(s)
    BY <1>2 DEF InUse
  <1>4. Handles(t)
    BY <1>2 DEF CoreInv, Handles
  <1>5. Caches(t)
    BY <1>2, <1>3 DEF CoreInv, Caches
  <1>6. Lengths(t)
    BY <1>2 DEF CoreInv, Lengths
  <1>7. Fits(t)
    BY <1>2, <1>3 DEF CoreInv, Fits
  <1>8. \A c \in Descriptors : c # d /\ Within(s, c) => Within(t, c)
    BY <1>2 DEF Within
  <1>9. s.fds[d].cp = NoPage => Within(t, d)
    BY <1>2 DEF Within
  <1> QED BY <1>2, <1>4, <1>5, <1>6, <1>7, <1>8, <1>9 DEF CoreInv, t

\* A descriptor with no cache page can be closed, and a closed one changed.
LEMMA Closing ==
  ASSUME NEW s, CoreInv(s), NEW d \in Descriptors, s.fds[d].cp = NoPage,
         NEW t \in State, t.files = s.files, t.pages = s.pages,
         \A c \in Descriptors : c # d => t.fds[c] = s.fds[c],
         ~t.fds[d].open, t.fds[d].cp = NoPage
  PROVE  /\ CoreInv(t)
         /\ \A c \in Descriptors : c = d \/ Within(s, c) => Within(t, c)
  <1>1. InUse(t) = InUse(s)
    BY DEF InUse
  <1>2. \A c \in Descriptors : t.fds[c].open => c # d /\ t.fds[c] = s.fds[c]
    OBVIOUS
  <1>3. Handles(t)
    BY <1>2 DEF CoreInv, Handles
  <1>4. Caches(t)
    <2>1. ASSUME NEW p \in InUse(t)
          PROVE  \E c \in Descriptors : t.fds[c].open /\ ~t.fds[c].direct /\ t.fds[c].cp = p
      <3>1. PICK c \in Descriptors : s.fds[c].open /\ ~s.fds[c].direct /\ s.fds[c].cp = p
        BY <1>1 DEF CoreInv, Caches
      <3>2. p # NoPage
        BY Constants DEF InUse, CachePages, NoPage
      <3> QED BY <3>1, <3>2
    <2> QED BY <1>1, <1>2, <2>1 DEF CoreInv, Caches
  <1>5. Lengths(t)
    BY <1>2 DEF CoreInv, Lengths
  <1>6. Fits(t)
    BY <1>1 DEF CoreInv, Fits
  <1>7. \A c \in Descriptors : c = d \/ Within(s, c) => Within(t, c)
    BY <1>2 DEF Within
  <1> QED BY <1>3, <1>4, <1>5, <1>6, <1>7 DEF CoreInv

-----------------------------------------------------------------------------
(* The cache page of a file, found and written back *)

LEMMA FoundIs ==
  ASSUME NEW s, CoreInv(s), NEW o \in Objs, NEW p \in PagesOf(s, o)
  PROVE  /\ p \in CachePages /\ p \in InUse(s) /\ p # NoPage /\ s.pages[p].obj = o
         /\ \A q \in PagesOf(s, o) : q = p
         /\ \E d \in Descriptors : s.fds[d].open /\ ~s.fds[d].direct /\ s.fds[d].cp = p /\ s.fds[d].obj = o
  <1>1. p \in CachePages /\ s.pages[p].obj = o /\ \A q \in PagesOf(s, o) : q \in CachePages /\ s.pages[q].obj = o
    BY DEF PagesOf
  <1>2. p # NoPage
    BY <1>1, Constants DEF CachePages, NoPage
  <1>3. p \in InUse(s) /\ \A q \in PagesOf(s, o) : q \in InUse(s)
    BY <1>1, Constants DEF InUse
  <1>4. \A q \in PagesOf(s, o) : q = p
    BY <1>1, <1>3 DEF CoreInv, Caches
  <1>5. PICK d \in Descriptors : s.fds[d].open /\ ~s.fds[d].direct /\ s.fds[d].cp = p
    BY <1>3 DEF CoreInv, Caches
  <1>6. s.fds[d].obj = o
    BY <1>1, <1>2, <1>5 DEF CoreInv, Caches
  <1> QED BY <1>1, <1>2, <1>3, <1>4, <1>5, <1>6

\* The cache page of an open descriptor is that of its file.
LEMMA OwnPage ==
  ASSUME NEW s, CoreInv(s), NEW d \in Descriptors, s.fds[d].open, s.fds[d].cp # NoPage
  PROVE  /\ s.fds[d].cp \in PagesOf(s, s.fds[d].obj) /\ s.fds[d].obj \in Objs
         /\ s.fds[d].cp \in InUse(s) /\ s.fds[d].cp \in CachePages
  <1>1. s \in State /\ s.fds[d].obj \in Objs /\ s.pages[s.fds[d].cp].obj = s.fds[d].obj
    BY DEF CoreInv, Handles, Caches
  <1>2. s.fds[d].cp \in CachePages
    BY <1>1, Parts DEF FdType
  <1> QED BY <1>1, <1>2, Constants DEF PagesOf, InUse

\* What a direct descriptor is of has no cache page.
LEMMA DirectApart ==
  ASSUME NEW s, CoreInv(s), NEW d \in Descriptors, s.fds[d].open, s.fds[d].direct
  PROVE  PagesOf(s, s.fds[d].obj) = {} /\ s.fds[d].cp = NoPage
  <1>1. s.fds[d].obj \in Objs
    BY DEF CoreInv, Handles
  <1>2. ASSUME NEW p \in PagesOf(s, s.fds[d].obj)  PROVE FALSE
    <2>1. PICK c \in Descriptors : s.fds[c].open /\ ~s.fds[c].direct /\ s.fds[c].obj = s.fds[d].obj
      BY <1>1, <1>2, FoundIs
    <2>2. s.fds[c].direct = s.fds[d].direct
      BY <2>1 DEF CoreInv, Handles
    <2> QED BY <2>1, <2>2
  <1>3. PagesOf(s, s.fds[d].obj) = {}
    BY <1>2
  <1>4. s.fds[d].cp = NoPage
    BY <1>3, OwnPage
  <1> QED BY <1>3, <1>4

\* Descriptor d is the same but for the cache page of its file.
Linked(s, t, d) ==
    /\ CoreInv(t) /\ OnlyFd(s, t, d)
    /\ t.fds[d].open = s.fds[d].open /\ t.fds[d].obj = s.fds[d].obj /\ t.fds[d].at = s.fds[d].at
    /\ t.fds[d].append = s.fds[d].append /\ t.fds[d].direct = s.fds[d].direct
    /\ t.fds[d].size = s.fds[d].size
    /\ s.fds[d].cp # NoPage => t = s
    /\ t.fds[d].cp = NoPage => PagesOf(t, t.fds[d].obj) = {}
    /\ \A c \in Descriptors : c # d /\ Within(s, c) => Within(t, c)

LEMMA AssociateIs ==
  ASSUME NEW s, CoreInv(s), NEW d \in Descriptors, s.fds[d].open
  PROVE  Linked(s, Associate(s, d), d)
  <1> DEFINE o == s.fds[d].obj
             t == Associate(s, d)
             found == PagesOf(s, o)
             p == CHOOSE p \in found : \A q \in found : p <= q
             fd == [s.fds[d] EXCEPT !.cp = p]
  <1>1. s \in State /\ o \in Objs
    BY DEF CoreInv, Handles
  <1>2. CASE s.fds[d].cp # NoPage \/ found = {}
    <2>1. t = s
      BY <1>2 DEF Associate
    <2>2. OnlyFd(s, s, d)
      BY <1>1 DEF OnlyFd
    <2>3. s.fds[d].cp = NoPage => PagesOf(s, s.fds[d].obj) = {}
      BY <1>2
    <2> HIDE DEF t
    <2> QED BY <2>1, <2>2, <2>3 DEF Linked, t
  <1>3. CASE s.fds[d].cp = NoPage /\ found # {}
    <2>1. PICK x \in found : TRUE
      BY <1>3
    <2>2. x \in CachePages /\ x \in InUse(s) /\ x # NoPage /\ s.pages[x].obj = o /\ \A q \in found : q = x
      BY <1>1, FoundIs
    <2>3. \A q \in found : x <= q
      <3>1. x <= x
        BY <2>2, Constants DEF CachePages
      <3> QED BY <2>2, <3>1
    <2>4. p = x
      <3>1. p \in found
        BY <2>3
      <3> QED BY <2>2, <3>1
    <2>5. \E c \in Descriptors : s.fds[c].open /\ ~s.fds[c].direct /\ s.fds[c].obj = o
      BY <1>1, FoundIs
    <2>6. ~s.fds[d].direct
      BY <2>5 DEF CoreInv, Handles
    <2>7. t = WithFd(s, d, fd)
      <3> HIDE DEF p
      <3> QED BY <1>3 DEF Associate, WithFd, p
    <2>8. s.fds[d] \in FdType
      BY <1>1, Parts
    <2>9. /\ fd \in FdType /\ fd.cp = x
          /\ fd.open = s.fds[d].open /\ fd.obj = s.fds[d].obj /\ fd.at = s.fds[d].at
          /\ fd.append = s.fds[d].append /\ fd.direct = s.fds[d].direct
          /\ fd.size = s.fds[d].size /\ fd.hdr = s.fds[d].hdr /\ fd.used = s.fds[d].used
      <3> HIDE DEF p
      <3> QED BY <2>2, <2>4, <2>8 DEF FdType
    <2> HIDE DEF fd, t
    <2>10. OnlyFd(s, t, d) /\ t.fds[d] = fd
      BY <1>1, <2>7, <2>9, FdSet
    <2>11. /\ t \in State /\ t.files = s.files /\ t.pages = s.pages
           /\ \A c \in Descriptors : c # d => t.fds[c] = s.fds[c]
      BY <2>10 DEF OnlyFd
    <2>12. InUse(t) = InUse(s)
      BY <2>11 DEF InUse
    <2>13. Handles(t)
      <3>1. \A c \in Descriptors :
               /\ t.fds[c].open = s.fds[c].open /\ t.fds[c].obj = s.fds[c].obj
               /\ t.fds[c].direct = s.fds[c].direct
               /\ t.fds[c].used = s.fds[c].used /\ t.fds[c].hdr = s.fds[c].hdr
               /\ ~t.fds[c].open => t.fds[c].cp = s.fds[c].cp
        BY <2>9, <2>10, <2>11
      <3> QED BY <2>11, <3>1 DEF CoreInv, Handles
    <2>14. Caches(t)
      <3>1. ASSUME NEW c \in Descriptors, t.fds[c].open, t.fds[c].cp # NoPage
            PROVE  t.pages[t.fds[c].cp].obj = t.fds[c].obj
        <4>1. CASE c = d
          BY <2>2, <2>9, <2>10, <2>11, <4>1
        <4>2. CASE c # d
          BY <2>11, <3>1, <4>2 DEF CoreInv, Caches
        <4> QED BY <4>1, <4>2
      <3>2. ASSUME NEW q \in InUse(t)
            PROVE  \E c \in Descriptors : t.fds[c].open /\ ~t.fds[c].direct /\ t.fds[c].cp = q
        <4>1. PICK c \in Descriptors : s.fds[c].open /\ ~s.fds[c].direct /\ s.fds[c].cp = q
          BY <2>12 DEF CoreInv, Caches
        <4>2. q # NoPage
          BY Constants DEF InUse, CachePages, NoPage
        <4>3. c # d
          BY <1>3, <4>1, <4>2
        <4> QED BY <2>11, <4>1, <4>3
      <3> QED BY <2>11, <2>12, <3>1, <3>2 DEF CoreInv, Caches
    <2>15. Lengths(t)
      BY <2>9, <2>10, <2>11 DEF CoreInv, Lengths
    <2>16. Fits(t)
      BY <2>11, <2>12 DEF CoreInv, Fits
    <2>17. CoreInv(t)
      BY <2>11, <2>13, <2>14, <2>15, <2>16 DEF CoreInv
    <2>18. \A c \in Descriptors : c # d /\ Within(s, c) => Within(t, c)
      BY <2>11 DEF Within
    <2> QED BY <1>3, <2>2, <2>9, <2>10, <2>17, <2>18 DEF Linked, t
  <1> QED BY <1>2, <1>3

\* What is cached for the file of d has been written, and may be let go of.
Flushed(s, t, d) ==
    /\ CoreInv(t)
    /\ \A c \in Descriptors :
          /\ t.fds[c].open = s.fds[c].open /\ t.fds[c].obj = s.fds[c].obj
          /\ t.fds[c].append = s.fds[c].append /\ t.fds[c].direct = s.fds[c].direct
          /\ t.fds[c].at <= s.fds[c].at
          /\ c = d \/ Within(s, c) => Within(t, c)
    /\ t.fds[d].cp = NoPage /\ PagesOf(t, t.fds[d].obj) = {}
    /\ \A o \in Objs : Len(t.files[o].data) >= Len(s.files[o].data)

LEMMA FlushedNot ==
  ASSUME NEW s, CoreInv(s), NEW d \in Descriptors, s.fds[d].open,
         s.fds[d].cp = NoPage, PagesOf(s, s.fds[d].obj) = {}
  PROVE  Flushed(s, s, d)
  <1>1. s \in State
    BY DEF CoreInv
  <1>2. \A c \in Descriptors : s.fds[c].at <= s.fds[c].at
    BY <1>1, Parts DEF FdType
  <1>3. \A o \in Objs : Len(s.files[o].data) >= Len(s.files[o].data)
    BY <1>1, Parts
  <1>4. Within(s, d)
    BY DEF Within
  <1> QED BY <1>2, <1>3, <1>4 DEF Flushed

LEMMA WriteBackIs ==
  ASSUME Careful, NEW s, CoreInv(s), NEW d \in Descriptors, s.fds[d].open,
         s.fds[d].cp = NoPage => PagesOf(s, s.fds[d].obj) = {},
         NEW q \in WriteBack(s, d)
  PROVE  /\ q \in Outcome /\ Flushed(s, q.s, d)
         /\ q.ok /\ s.fds[d].cp # NoPage =>
                Len(q.s.files[s.fds[d].obj].data) >= End(s.pages[s.fds[d].cp])
  <1> DEFINE o == s.fds[d].obj
             p == s.fds[d].cp
             page == s.pages[p]
  <1>1. s \in State /\ o \in Objs
    BY DEF CoreInv, Handles
  <1>2. CASE p = NoPage
    <2>1. q = [s |-> s, ok |-> TRUE]
      BY <1>2 DEF WriteBack
    <2>2. q \in Outcome /\ q.s = s
      BY <1>1, <2>1 DEF Outcome
    <2>3. Flushed(s, s, d)
      BY <1>2, FlushedNot
    <2> QED BY <1>2, <2>2, <2>3
  <1>3. CASE p # NoPage
    <2>1. p \in PagesOf(s, o) /\ p \in InUse(s) /\ p \in CachePages
      BY <1>3, OwnPage
    <2>2. page.obj = o /\ page.off <= Len(s.files[o].data) /\ End(page) <= MaxSize
      <3>1. page.obj = o
        BY <2>1 DEF PagesOf
      <3>2. page.off <= Len(s.files[page.obj].data) /\ End(page) <= MaxSize
        BY <2>1 DEF CoreInv, Fits
      <3> QED BY <3>1, <3>2
    <2>3. page.off \in Nat /\ page.data \in Seq(Data) /\ End(page) = page.off + Len(page.data)
      BY <1>1, <2>1, Parts DEF End
    <2>4. PICK r \in HydroWrite(s, d, page.off, page.data) : q = [r EXCEPT !.s = Release(@, p)]
      BY <1>3 DEF WriteBack
    <2> DEFINE off == page.off
               bytes == page.data
               data == s.files[o].data
    <2>5. off \in Nat /\ bytes \in Seq(Data) /\ off + Len(bytes) <= MaxSize /\ off <= Len(data)
      BY <2>2, <2>3
    <2>6. data \in Seq(Data)
      BY <1>1, Parts
    <2> HIDE DEF page, off, bytes
    <2>7. r \in HydroWrite(s, d, off, bytes) /\ s.fds[d].open
      BY <2>4 DEF off, bytes
    <2>8. r \in Outcome /\ Grown(s, r.s, o)
      BY <2>5, <2>7, HydroWriteIs
    <2>9. r.ok => r.s.files[o].data = Put(data, off, bytes)
      BY <2>5, <2>7, HydroWriteIs
    <2> DEFINE g == r.s
               t == ReleaseAll(g, {p})
    <2>10. CoreInv(g) /\ \A c \in Descriptors : Within(s, c) => Within(g, c)
      BY <1>1, <2>8, GrownInv
    <2>11. q = [s |-> t, ok |-> r.ok]
      BY <2>4, <2>8 DEF Outcome, Release
    <2>12. \A c \in Descriptors :
              /\ g.fds[c].open = s.fds[c].open /\ g.fds[c].obj = s.fds[c].obj /\ g.fds[c].cp = s.fds[c].cp
              /\ g.fds[c].append = s.fds[c].append /\ g.fds[c].direct = s.fds[c].direct
              /\ g.fds[c].at <= s.fds[c].at
      BY <1>1, <2>8, GrownFds
    <2>13. g \in State /\ g.pages = s.pages
      BY Zenon, <2>8 DEF Grown
    <2> HIDE DEF g
    <2>14. CoreInv(t)
      BY <2>1, <2>10, Releasing
    <2>15. /\ t \in State /\ t.files = g.files
           /\ t.fds = [c \in Descriptors |-> IF g.fds[c].open /\ g.fds[c].cp \in {p}
                                             THEN [g.fds[c] EXCEPT !.cp = NoPage] ELSE g.fds[c]]
           /\ t.pages = [x \in CachePages |-> IF x \in {p} THEN [g.pages[x] EXCEPT !.obj = NoObj] ELSE g.pages[x]]
      BY <2>13, ReleaseIs
    <2> HIDE DEF t
    <2>16. \A c \in Descriptors :
              /\ t.fds[c].open = s.fds[c].open /\ t.fds[c].obj = s.fds[c].obj
              /\ t.fds[c].append = s.fds[c].append /\ t.fds[c].direct = s.fds[c].direct
              /\ t.fds[c].at <= s.fds[c].at /\ t.fds[c].at = g.fds[c].at
              /\ t.fds[c].cp = IF s.fds[c].open /\ s.fds[c].cp = p THEN NoPage ELSE s.fds[c].cp
      <3> TAKE c \in Descriptors
      <3>1. g.fds[c] \in FdType
        BY <2>13, Parts
      <3>2. t.fds[c] = IF g.fds[c].open /\ g.fds[c].cp = p
                       THEN [g.fds[c] EXCEPT !.cp = NoPage] ELSE g.fds[c]
        BY <2>15
      <3> QED BY <2>12, <3>1, <3>2 DEF FdType
    <2>17. \A x \in CachePages : t.pages[x].obj = (IF x = p THEN NoObj ELSE s.pages[x].obj)
                                 /\ t.pages[x].off = s.pages[x].off /\ t.pages[x].data = s.pages[x].data
      <3> TAKE x \in CachePages
      <3>1. g.pages[x] \in PageType /\ g.pages[x] = s.pages[x]
        BY <2>13, Parts
      <3>2. t.pages[x] = IF x = p THEN [g.pages[x] EXCEPT !.obj = NoObj] ELSE g.pages[x]
        BY <2>15
      <3> QED BY <3>1, <3>2 DEF PageType
    <2>18. PagesOf(t, o) = {}
      <3>1. \A x \in PagesOf(s, o) : x = p
        BY <1>1, <2>1, FoundIs
      <3> QED BY <1>1, <2>17, <3>1, Constants DEF PagesOf
    <2>19. ASSUME NEW c \in Descriptors, c = d \/ Within(s, c)  PROVE Within(t, c)
      <3>1. CASE t.fds[c].cp = NoPage
        BY <3>1 DEF Within
      <3>2. CASE t.fds[c].cp # NoPage /\ t.fds[c].open
        <4>1. s.fds[c].cp # p /\ t.fds[c].cp = s.fds[c].cp /\ g.fds[c].cp = s.fds[c].cp
          BY <2>12, <2>16, <3>2
        <4>2. c # d /\ Within(g, c)
          BY <2>10, <2>19, <4>1
        <4>3. s.fds[c].cp \in CachePages
          BY <2>16, <3>2, <4>1, OwnPage
        <4> DEFINE y == s.fds[c].cp
        <4>4. End(t.pages[t.fds[c].cp]) = End(g.pages[g.fds[c].cp])
          <5>1. t.pages[y].off = g.pages[y].off /\ t.pages[y].data = g.pages[y].data
            BY <2>13, <2>17, <4>3
          <5> QED BY <4>1, <5>1 DEF End
        <4>5. t.fds[c].append = g.fds[c].append /\ g.fds[c].open /\ t.fds[c].at = g.fds[c].at
              /\ t.files[t.fds[c].obj] = g.files[g.fds[c].obj]
          BY SMTT(60), <2>12, <2>15, <2>16, <3>2
        <4> QED BY <4>1, <4>2, <4>4, <4>5 DEF Within
      <3>3. CASE ~t.fds[c].open
        BY <3>3 DEF Within
      <3> QED BY <3>1, <3>2, <3>3
    <2>20. \A x \in Objs : Len(t.files[x].data) >= Len(s.files[x].data)
      <3> TAKE x \in Objs
      <3>1. t.files[x] = g.files[x]
        BY <2>15
      <3>2. Len(s.files[x].data) \in Nat
        BY <1>1, Parts
      <3>3. x # o => g.files[x] = s.files[x]
        BY Zenon, <2>8 DEF Grown, g
      <3>4. Len(g.files[o].data) >= Len(s.files[o].data)
        BY Zenon, <2>8 DEF Grown, g
      <3> QED BY <3>1, <3>2, <3>3, <3>4
    <2>21. Flushed(s, t, d)
      <3>1. t.fds[d].cp = NoPage /\ t.fds[d].obj = o
        BY <2>16
      <3> QED BY <2>14, <2>16, <2>18, <2>19, <2>20, <3>1 DEF Flushed
    <2>22. r.ok => Len(t.files[o].data) >= End(page)
      <3> DEFINE at == Smaller(off, Len(data))
                 n == Len(bytes)
                 l == Len(data)
                 new == Put(data, off, bytes)
      <3>1. at \in Nat /\ Len(new) = Larger(Len(data), at + Len(bytes))
        <4> HIDE DEF data
        <4> QED BY <2>5, <2>6, PutIs
      <3>2. l \in Nat /\ n \in Nat /\ off \in Nat /\ off <= l
        <4>1. n \in Nat /\ off \in Nat /\ off <= l
          BY <2>5
        <4>2. l \in Nat
          <5> HIDE DEF data
          <5> QED BY <2>6
        <4> QED BY <4>1, <4>2
      <3>3. Len(new) = Larger(l, at + n) /\ at = Smaller(off, l)
        BY <3>1
      <3>4. r.ok => t.files[o].data = new
        BY ZenonT(60), <2>9, <2>15 DEF g
      <3>5. End(page) = off + n
        BY <2>3 DEF off, bytes
      <3> HIDE DEF at, n, l, new
      <3>6. Len(new) >= off + n
        BY <3>2, <3>3 DEF Smaller, Larger
      <3> QED BY <3>4, <3>5, <3>6
    <2>23. q \in Outcome /\ q.s = t /\ q.ok = r.ok
      BY <2>8, <2>11, <2>15 DEF Outcome
    <2> QED BY <2>21, <2>22, <2>23 DEF page
  <1> QED BY <1>2, <1>3

LEMMA FlushCacheIs ==
  ASSUME Careful, NEW s, CoreInv(s), NEW d \in Descriptors, s.fds[d].open, NEW r \in FlushCache(s, d)
  PROVE  r \in Outcome /\ Flushed(s, r.s, d)
  <1>1. CASE s.fds[d].direct
    <2>1. r = [s |-> s, ok |-> TRUE]
      BY <1>1 DEF FlushCache
    <2>2. r \in Outcome /\ r.s = s
      BY <2>1 DEF Outcome, CoreInv
    <2>3. Flushed(s, s, d)
      BY <1>1, DirectApart, FlushedNot
    <2> QED BY <2>2, <2>3
  <1>2. CASE ~s.fds[d].direct
    <2> DEFINE t == Associate(s, d)
    <2>1. r \in WriteBack(t, d)
      BY <1>2 DEF FlushCache
    <2>2. Linked(s, t, d)
      BY AssociateIs
    <2> HIDE DEF t
    <2>3. CoreInv(t) /\ t.fds[d].open /\ (t.fds[d].cp = NoPage => PagesOf(t, t.fds[d].obj) = {})
      BY <2>2 DEF Linked
    <2>4. r \in Outcome /\ Flushed(t, r.s, d)
      BY <2>1, <2>3, WriteBackIs
    <2>5. s \in State /\ t \in State /\ t.files = s.files
      BY <2>2 DEF Linked, OnlyFd, CoreInv
    <2>6. \A c \in Descriptors :
             /\ t.fds[c].open = s.fds[c].open /\ t.fds[c].obj = s.fds[c].obj
             /\ t.fds[c].append = s.fds[c].append /\ t.fds[c].direct = s.fds[c].direct
             /\ t.fds[c].at = s.fds[c].at
             /\ c # d /\ Within(s, c) => Within(t, c)
      BY <2>2 DEF Linked, OnlyFd
    <2>7. Flushed(s, r.s, d)
      BY <2>4, <2>5, <2>6 DEF Flushed
    <2> QED BY <2>4, <2>7
  <1> QED BY <1>1, <1>2

LEMMA FlushedInv ==
  ASSUME NEW s, CallInv(s), NEW d \in Descriptors, NEW t, Flushed(s, t, d)
  PROVE  CallInv(t)
  BY DEF CallInv, Flushed

LEMMA ReturnIs ==
  ASSUME NEW s, CoreInv(s), NEW d \in Descriptors, s.fds[d].cp = NoPage
  PROVE  /\ CoreInv(Return(s, d))
         /\ \A c \in Descriptors : c = d \/ Within(s, c) => Within(Return(s, d), c)
  <1> DEFINE fd == [FreshFd EXCEPT !.obj = s.fds[d].obj, !.cp = s.fds[d].cp, !.used = s.fds[d].used]
             t == Return(s, d)
  <1>1. s \in State
    BY DEF CoreInv
  <1>2. s.fds[d] \in FdType
    BY <1>1, Parts
  <1>3. fd \in FdType /\ fd.open = FALSE /\ fd.cp = NoPage
    <2> DEFINE obj == s.fds[d].obj
               cp == s.fds[d].cp
               used == s.fds[d].used
    <2>1. fd = [FreshFd EXCEPT !.obj = obj, !.cp = cp, !.used = used]
      OBVIOUS
    <2>2. obj \in Objs \cup {NoObj} /\ cp = NoPage /\ used \in BOOLEAN
      BY <1>2 DEF FdType
    <2> HIDE DEF fd, obj, cp, used
    <2>3. fd = [open |-> FALSE, obj |-> obj, size |-> Undef, at |-> 0, append |-> FALSE,
                direct |-> FALSE, cp |-> cp, hdr |-> TRUE, used |-> used]
      BY <2>1 DEF FreshFd
    <2> QED BY <2>2, <2>3, Constants DEF FdType
  <1>4. t = WithFd(s, d, fd)
    BY DEF Return, WithFd
  <1> HIDE DEF fd, t
  <1>5. OnlyFd(s, t, d) /\ t.fds[d] = fd
    BY <1>1, <1>3, <1>4, FdSet
  <1>6. t \in State /\ t.files = s.files /\ t.pages = s.pages /\ ~t.fds[d].open /\ t.fds[d].cp = NoPage
    BY <1>3, <1>5 DEF OnlyFd
  <1>7. \A c \in Descriptors : c # d => t.fds[c] = s.fds[c]
    BY <1>5 DEF OnlyFd
  <1>8. CoreInv(t) /\ \A c \in Descriptors : c = d \/ Within(s, c) => Within(t, c)
    BY <1>6, <1>7, Closing
  <1> QED BY <1>8 DEF t

LEMMA MovedInv ==
  ASSUME NEW s, CallInv(s), NEW d \in Descriptors, s.fds[d].cp = NoPage, NEW x \in 0 .. MaxSize
  PROVE  CallInv(MovedTo(s, d, x))
  <1>1. /\ CoreInv(MovedTo(s, d, x))
        /\ \A c \in Descriptors : c # d /\ Within(s, c) => Within(MovedTo(s, d, x), c)
        /\ s.fds[d].cp = NoPage => Within(MovedTo(s, d, x), d)
    BY MovedCore DEF CallInv
  <1> QED BY <1>1 DEF CallInv

-----------------------------------------------------------------------------
(* The calls that flush *)

LEMMA Returning ==
  ASSUME NEW t, CallInv(t), Returns(t)
  PROVE  StateInv'
  <1>1. Becomes(t) /\ got' = NoRead
    BY DEF Returns
  <1>2. got' \in GotType
    <2>1. <<>> \in Seqs(MaxSize)
      BY NoData, Constants
    <2> QED BY <1>1, <2>1 DEF NoRead, GotType
  <1> QED BY <1>1, <1>2, Keeping

LEMMA NowFlushes ==
  ASSUME Careful, StateInv, NEW d \in Descriptors, fds[d].open, NEW r \in FlushCache(now, d)
  PROVE  r \in Outcome /\ Flushed(now, r.s, d) /\ CallInv(r.s) /\ CoreInv(r.s)
  <1>1. CallInv(now) /\ CoreInv(now) /\ now.fds[d].open
    BY DEF StateInv, CallInv, now
  <1>2. r \in Outcome /\ Flushed(now, r.s, d)
    BY <1>1, FlushCacheIs
  <1>3. CallInv(r.s)
    BY <1>1, <1>2, FlushedInv
  <1> QED BY <1>2, <1>3 DEF CallInv

LEMMA FlushKeeps ==
  ASSUME Careful, StateInv, NEW d \in Descriptors, Flush(d)
  PROVE  StateInv'
  <1>1. fds[d].open
    BY DEF Flush
  <1>2. PICK r \in FlushCache(now, d) : Returns(r.s)
    BY DEF Flush
  <1>3. CallInv(r.s)
    BY <1>1, NowFlushes
  <1> QED BY <1>2, <1>3, Returning

LEMMA CloseKeeps ==
  ASSUME Careful, StateInv, NEW d \in Descriptors, Close(d)
  PROVE  StateInv'
  <1>1. fds[d].open
    BY DEF Close
  <1>2. PICK r \in FlushCache(now, d) : Returns(IF r.ok THEN Return(r.s, d) ELSE r.s)
    BY DEF Close
  <1>3. Flushed(now, r.s, d) /\ CallInv(r.s) /\ CoreInv(r.s)
    BY <1>1, NowFlushes
  <1>4. CallInv(Return(r.s, d))
    <2>1. r.s.fds[d].cp = NoPage /\ \A c \in Descriptors : Within(r.s, c)
      BY <1>3 DEF Flushed, CallInv
    <2>2. CoreInv(Return(r.s, d)) /\ \A c \in Descriptors : c = d \/ Within(r.s, c) => Within(Return(r.s, d), c)
      BY <1>3, <2>1, ReturnIs
    <2> QED BY <2>1, <2>2 DEF CallInv
  <1>5. CASE r.ok
    BY <1>2, <1>4, <1>5, Returning
  <1>6. CASE ~r.ok
    BY <1>2, <1>3, <1>6, Returning
  <1> QED BY <1>5, <1>6

LEMMA SeekKeeps ==
  ASSUME Careful, StateInv, NEW d \in Descriptors, NEW off \in 0 .. MaxSize, Seek(d, off)
  PROVE  StateInv'
  <1>1. fds[d].open
    BY DEF Seek
  <1>2. PICK r \in FlushCache(now, d) :
           Returns([r.s EXCEPT !.fds[d].at = Smaller(off, Length(r.s.fds[d].size))])
    BY DEF Seek
  <1>3. Flushed(now, r.s, d) /\ CallInv(r.s) /\ CoreInv(r.s)
    BY <1>1, NowFlushes
  <1> DEFINE t == r.s
             x == Smaller(off, Length(t.fds[d].size))
  <1>4. t \in State /\ t.fds[d] \in FdType /\ t.fds[d].cp = NoPage
    BY <1>3, Parts DEF CoreInv, Flushed
  <1>5. x \in 0 .. MaxSize
    <2>1. t.fds[d].size \in {Undef} \cup 0 .. MaxSize
      BY <1>4 DEF FdType
    <2> QED BY <2>1, Constants DEF Smaller, Length, Undef
  <1>6. [t EXCEPT !.fds[d].at = x] = MovedTo(t, d, x)
    BY DEF MovedTo, WithFd
  <1>7. CallInv(MovedTo(t, d, x))
    BY <1>3, <1>4, <1>5, MovedInv
  <1> QED BY <1>2, <1>6, <1>7, Returning

LEMMA ReadKeeps ==
  ASSUME Careful, StateInv, NEW d \in Descriptors, NEW len \in 1 .. MaxSize, Read(d, len)
  PROVE  StateInv'
  <1> DEFINE o == fds[d].obj
             Ended == [obj |-> o, data |-> <<>>]
             piece(t) == [obj |-> o, data |-> ObjectRead(t, d, t.fds[d].at, Smaller(len, Length(t.fds[d].size) - t.fds[d].at))]
  <1>1. fds[d].open /\ CallInv(now) /\ CoreInv(now) /\ now.fds = fds
    BY DEF Read, StateInv, CallInv, now
  <1>2. o \in Objs
    BY <1>1 DEF CoreInv, Handles
  <1>3. CASE fds[d].size = Undef
    <2>1. Becomes(now) /\ got' = Ended
      BY <1>3 DEF Read
    <2>2. got' \in GotType
      <3>1. <<>> \in Seqs(MaxSize)
        BY NoData, Constants
      <3> QED BY <1>2, <2>1, <3>1 DEF GotType
    <2> QED BY <1>1, <2>1, <2>2, Keeping
  <1>4. CASE fds[d].size # Undef
    <2>1. PICK r \in FlushCache(now, d) :
             Becomes([r.s EXCEPT !.fds[d].at = @ + Len(piece(r.s).data)]) /\ got' = piece(r.s)
      BY <1>4 DEF Read
    <2>2. Flushed(now, r.s, d) /\ CallInv(r.s) /\ CoreInv(r.s)
      BY <1>1, NowFlushes
    <2> DEFINE t == r.s
               at == t.fds[d].at
               data == t.files[o].data
               l == Len(data)
               m == Smaller(len, l - at)
               q == SubSeq(data, at + 1, at + m)
    <2>3. t \in State /\ t.fds[d] \in FdType /\ t.fds[d].cp = NoPage /\ t.fds[d].obj = o /\ t.fds[d].open
      BY <1>1, <2>2, Parts DEF CoreInv, Flushed
    <2>4. Length(t.fds[d].size) = l
      BY <2>2, <2>3 DEF CoreInv, Lengths
    <2>5. piece(t) = [obj |-> o, data |-> q]
      BY <2>3, <2>4 DEF ObjectRead
    <2>6. data \in Seq(Data) /\ l \in 0 .. MaxSize /\ at \in 0 .. MaxSize
      BY <1>2, <2>3, Parts DEF FdType
    <2> HIDE DEF l
    <2>7. m \in Int /\ m <= l - at /\ m <= len
      BY <2>6, Constants DEF Smaller
    <2> HIDE DEF m, at, data
    <2>8. q \in Seq(Data) /\ Len(q) \in 0 .. MaxSize /\ at + Len(q) \in 0 .. MaxSize
      <3>1. CASE m >= 1
        <4>1. at + 1 \in Nat \ {0} /\ at + m \in Nat /\ at + m <= Len(data) /\ at + 1 <= at + m
          BY <2>6, <2>7, <3>1 DEF l
        <4>2. q \in Seq(Data) /\ Len(q) = at + m - (at + 1) + 1
          <5> DEFINE a == at + 1
                     b == at + m
          <5>1. a \in Nat \ {0} /\ b \in Nat /\ b <= Len(data) /\ a <= b
            BY <4>1
          <5>0. q = SubSeq(data, a, b)
            OBVIOUS
          <5>4. at + m - (at + 1) + 1 = b - a + 1
            BY <2>6, <2>7
          <5> HIDE DEF a, b, q
          <5>2. SubSeq(data, a, b) \in Seq(Data) /\ Len(SubSeq(data, a, b)) = IF a <= b THEN b - a + 1 ELSE 0
            BY <2>6, <5>1, Cut
          <5>3. Len(SubSeq(data, a, b)) = b - a + 1
            BY <5>1, <5>2
          <5> QED BY <5>0, <5>2, <5>3, <5>4
        <4> DEFINE n == Len(q)
        <4>3. n = m
          <5> HIDE DEF n
          <5>1. n = at + m - (at + 1) + 1
            BY <4>2 DEF n
          <5> QED BY <2>6, <2>7, <5>1
        <4> HIDE DEF n
        <4>4. n \in 0 .. MaxSize /\ at + n \in 0 .. MaxSize
          BY <2>6, <2>7, <3>1, <4>3, Constants
        <4> QED BY <4>2, <4>4 DEF n
      <3>2. CASE ~(m >= 1)
        <4>1. q = <<>>
          BY <2>6, <2>7, <3>2
        <4> HIDE DEF q
        <4>2. q \in Seq(Data) /\ Len(q) = 0
          BY <4>1
        <4> QED BY <2>6, <4>2, Constants
      <3> QED BY <3>1, <3>2
    <2> HIDE DEF q
    <2>9. got' \in GotType
      <3>1. q \in Seqs(MaxSize)
        BY <2>8, SeqsAre, Constants
      <3>2. got' = [obj |-> o, data |-> q]
        BY <2>1, <2>5
      <3> QED BY <1>2, <3>1, <3>2 DEF GotType
    <2> DEFINE x == at + Len(q)
    <2>10. [t EXCEPT !.fds[d].at = @ + Len(piece(t).data)] = MovedTo(t, d, x)
      <3>1. Len(piece(t).data) = Len(q)
        BY <2>5
      <3> QED BY <3>1 DEF MovedTo, WithFd, at
    <2>11. CallInv(MovedTo(t, d, x))
      BY <2>2, <2>3, <2>8, MovedInv
    <2> QED BY <2>1, <2>9, <2>10, <2>11, Keeping
  <1> QED BY <1>3, <1>4

-----------------------------------------------------------------------------
(* SPIFFS_write *)

LEMMA WriteThroughIs ==
  ASSUME Careful, NEW s, CoreInv(s), NEW d \in Descriptors, s.fds[d].open, s.fds[d].cp = NoPage,
         \A c \in Descriptors : c # d => Within(s, c),
         NEW off \in Nat, NEW bytes \in Seq(Data), off + Len(bytes) <= MaxSize, s.fds[d].at <= off,
         NEW u \in WriteThrough(s, d, off, bytes)
  PROVE  CallInv(u)
  <1> DEFINE o == s.fds[d].obj
             n == Len(bytes)
  <1>1. s \in State /\ o \in Objs
    BY DEF CoreInv, Handles
  <1>2. PICK r \in HydroWrite(s, d, off, bytes) : u = IF r.ok THEN [r.s EXCEPT !.fds[d].at = @ + n] ELSE r.s
    BY DEF WriteThrough
  <1>3. r \in Outcome /\ Grown(s, r.s, o)
    BY HydroWriteIs
  <1> DEFINE t == r.s
             x == t.fds[d].at + n
  <1>4. CoreInv(t) /\ \A c \in Descriptors : Within(s, c) => Within(t, c)
    BY <1>1, <1>3, GrownInv
  <1>5. t.fds[d].cp = NoPage /\ t.fds[d].at <= s.fds[d].at /\ t \in State
    <2>1. Grown(s, t, o) /\ t \in State
      BY Zenon, <1>3 DEF Grown
    <2> HIDE DEF t, o
    <2>2. \A c \in Descriptors : t.fds[c].cp = s.fds[c].cp /\ t.fds[c].at <= s.fds[c].at
      BY <1>1, <2>1, GrownFds
    <2> QED BY <2>1, <2>2
  <1>6. CallInv(t)
    <2>1. Within(t, d)
      BY <1>5 DEF Within
    <2> QED BY <1>4, <2>1 DEF CallInv
  <1>7. x \in 0 .. MaxSize
    <2>1. t.fds[d].at \in Nat /\ s.fds[d].at \in Nat /\ n \in Nat
      BY <1>1, <1>5, Parts DEF FdType
    <2>2. off + n <= MaxSize /\ s.fds[d].at <= off
      OBVIOUS
    <2> DEFINE a == t.fds[d].at
               b == s.fds[d].at
    <2>3. a \in Nat /\ b \in Nat /\ a <= b /\ b <= off /\ off + n <= MaxSize
      BY <1>5, <2>1, <2>2
    <2> HIDE DEF a, b, n
    <2>4. a + n \in 0 .. MaxSize
      BY <2>1, <2>3, Constants
    <2> QED BY <2>4 DEF a
  <1>8. [t EXCEPT !.fds[d].at = @ + n] = MovedTo(t, d, x)
    BY DEF MovedTo, WithFd
  <1>9. CallInv(MovedTo(t, d, x))
    BY <1>5, <1>6, <1>7, MovedInv
  <1> QED BY <1>2, <1>6, <1>8, <1>9

LEMMA WriteCachedIs ==
  ASSUME NEW s, CoreInv(s), NEW d \in Descriptors, s.fds[d].open, s.fds[d].cp # NoPage,
         \A c \in Descriptors : c # d => Within(s, c),
         NEW off \in Nat, NEW bytes \in Seq(Data), off + Len(bytes) <= MaxSize, s.fds[d].at <= off,
         NEW page, page = s.pages[s.fds[d].cp],
         page.off <= off, off <= End(page), off + Len(bytes) <= page.off + PageSize
  PROVE  CallInv(WriteCached(s, d, off, bytes))
  <1> DEFINE p == s.fds[d].cp
             n == Len(bytes)
             l == Len(page.data)
             start == page.off
             new == Put(page.data, off - page.off, bytes)
             e == start + l
  <1>1. s \in State /\ p \in CachePages /\ p \in InUse(s) /\ s.fds[d].obj \in Objs
    BY OwnPage DEF CoreInv
  <1>2. /\ page \in PageType /\ start \in 0 .. MaxSize /\ page.data \in Seq(Data) /\ l \in Nat /\ l <= PageSize
        /\ n \in Nat /\ e = End(page) /\ e <= MaxSize
    <2>1. page = s.pages[p] /\ page \in PageType
      BY <1>1, Parts
    <2>2. page.data \in Seq(Data) /\ Len(page.data) \in 0 .. PageSize /\ page.off \in 0 .. MaxSize
      BY <1>1, Parts
    <2>3. End(page) <= MaxSize
      BY <1>1 DEF CoreInv, Fits
    <2>4. l \in Nat /\ l <= PageSize
      <3> HIDE DEF l
      <3> QED BY <2>2, Constants DEF l
    <2> QED BY <2>1, <2>2, <2>3, <2>4, Constants DEF End
  <1>3. start <= off /\ off <= e /\ off + n <= start + PageSize /\ off + n <= MaxSize
    BY <1>2
  <1>4. new \in Seq(Data) /\ Len(new) = Larger(l, (off - start) + n)
    <2> DEFINE k == off - page.off
               at == Smaller(k, l)
    <2>0. k = off - start /\ start \in Nat /\ l \in Nat /\ start <= off /\ off <= start + l
      BY <1>2, <1>3
    <2> HIDE DEF l, start, k
    <2>1. k \in Nat /\ k <= l
      BY <2>0
    <2>2. Put(page.data, k, bytes) \in Seq(Data) /\ Len(Put(page.data, k, bytes)) = Larger(l, at + n)
      <3> DEFINE old == page.data
      <3>1. old \in Seq(Data) /\ k \in Nat
        BY <1>2, <2>1
      <3> HIDE DEF old
      <3>2. Put(old, k, bytes) \in Seq(Data) /\ Len(Put(old, k, bytes)) = Larger(Len(old), Smaller(k, Len(old)) + Len(bytes))
        BY <3>1, PutIs
      <3>3. l = Len(old)
        BY DEF l, old
      <3> QED BY <3>2, <3>3 DEF old
    <2>3. at = k
      BY <2>0, <2>1 DEF Smaller
    <2> HIDE DEF at
    <2> QED BY <2>2, <2>3 DEF k, l, start
  <1> HIDE DEF l, n, start, new, e
  <1> DEFINE m == Len(new)
  <1>5. m \in Nat /\ m >= l /\ m <= PageSize /\ start + m >= off + n /\ start + m <= MaxSize /\ start + m >= e
    <2>1. m = Larger(l, (off - start) + n) /\ e = start + l
      BY <1>4 DEF e
    <2> HIDE DEF m
    <2> QED BY <1>2, <1>3, <2>1, Constants DEF Larger
  <1>6. new \in Seqs(PageSize)
    BY <1>4, <1>5, SeqsAre, Constants
  <1> DEFINE pageNew == [page EXCEPT !.data = new]
             t == WithPage(s, p, pageNew)
             x == s.fds[d].at + n
  <1>7. pageNew \in PageType /\ pageNew.obj = page.obj /\ pageNew.off = page.off /\ pageNew.data = new
    BY ZenonT(60), <1>2, <1>6 DEF PageType
  <1>8. WriteCached(s, d, off, bytes) = MovedTo(t, d, x)
    <2>1. WriteCached(s, d, off, bytes) = [s EXCEPT !.pages[p].data = new, !.fds[d].at = @ + n]
      BY DEF WriteCached, new, n
    <2>2. t = [s EXCEPT !.pages[p].data = new]
      BY <1>2 DEF WithPage
    <2>3. t.fds = s.fds
      BY <1>1, <2>2 DEF State
    <2>4. MovedTo(t, d, x) = [t EXCEPT !.fds[d] = [s.fds[d] EXCEPT !.at = x]]
      BY Zenon, <2>3 DEF MovedTo, WithFd
    <2>5. MovedTo(t, d, x) = [[s EXCEPT !.pages[p].data = new] EXCEPT !.fds[d] = [s.fds[d] EXCEPT !.at = x]]
      BY Zenon, <2>2, <2>4
    <2> QED BY <1>1, <2>1, <2>5 DEF State
  <1> HIDE DEF pageNew, t, p
  <1>9. OnlyPage(s, t, p) /\ t.pages[p] = pageNew
    BY <1>1, <1>7, PageSet DEF t
  <1>10. /\ t \in State /\ t.files = s.files /\ t.fds = s.fds
         /\ \A q \in CachePages : q # p => t.pages[q] = s.pages[q]
    BY <1>9 DEF OnlyPage
  <1>11. page = s.pages[p]
    BY DEF p
  <1>12. \A q \in CachePages : t.pages[q].obj = s.pages[q].obj /\ t.pages[q].off = s.pages[q].off
    BY <1>7, <1>9, <1>10, <1>11
  <1>13. End(t.pages[p]) = start + m /\ End(s.pages[p]) = e
    <2>1. t.pages[p].off = start /\ t.pages[p].data = new
      BY <1>7, <1>9 DEF start
    <2> QED BY <1>2, <1>11, <2>1 DEF End
  <1>14. InUse(t) = InUse(s)
    BY <1>12 DEF InUse
  <1>15. Handles(t)
    BY <1>10 DEF CoreInv, Handles
  <1>16. Caches(t)
    <2>1. \A q \in InUse(t) : q \in InUse(s) /\ q \in CachePages
      BY <1>14 DEF InUse
    <2>2. ASSUME NEW c \in Descriptors, t.fds[c].open, t.fds[c].cp # NoPage
          PROVE  t.pages[t.fds[c].cp].obj = t.fds[c].obj
      <3>1. s.fds[c].cp \in CachePages /\ s.pages[s.fds[c].cp].obj = s.fds[c].obj
        BY <1>10, <2>2, OwnPage DEF CoreInv, Caches
      <3> QED BY <1>10, <1>12, <3>1
    <2> QED BY <1>10, <1>12, <2>1, <2>2 DEF CoreInv, Caches
  <1>17. Lengths(t)
    BY <1>10 DEF CoreInv, Lengths
  <1>18. Fits(t)
    <2>1. ASSUME NEW q \in InUse(t)
          PROVE  t.pages[q].off <= Len(t.files[t.pages[q].obj].data) /\ End(t.pages[q]) <= MaxSize
      <3>1. q \in InUse(s) /\ q \in CachePages
        BY <1>14 DEF InUse
      <3>2. s.pages[q].off <= Len(s.files[s.pages[q].obj].data) /\ End(s.pages[q]) <= MaxSize
        BY <3>1 DEF CoreInv, Fits
      <3>3. t.pages[q].off <= Len(t.files[t.pages[q].obj].data)
        BY <1>10, <1>12, <3>1, <3>2
      <3>4. End(t.pages[q]) <= MaxSize
        <4>1. CASE q = p
          BY <1>5, <1>13, <4>1
        <4>2. CASE q # p
          BY <1>10, <3>1, <3>2, <4>2
        <4> QED BY <4>1, <4>2
      <3> QED BY <3>3, <3>4
    <2> QED BY <2>1 DEF Fits
  <1>19. CoreInv(t)
    BY <1>10, <1>15, <1>16, <1>17, <1>18 DEF CoreInv
  <1>20. ASSUME NEW c \in Descriptors, c # d  PROVE Within(t, c)
    <2>1. CASE t.fds[c].open /\ ~t.fds[c].append /\ t.fds[c].cp = p
      <3> DEFINE a == s.fds[c].at
                 k == Len(s.files[s.fds[c].obj].data)
      <3>1. a <= Larger(k, End(s.pages[p]))
        <4>1. s.fds[c].cp # NoPage
          BY <1>1, <1>10, <2>1, Constants DEF CachePages, NoPage
        <4> QED BY <1>10, <1>20, <2>1, <4>1 DEF Within
      <3>2. a \in Nat /\ k \in Nat
        <4>1. s.fds[c].obj \in Objs
          BY <1>10, <2>1 DEF CoreInv, Handles
        <4> QED BY <1>1, <4>1, Parts DEF FdType
      <3> HIDE DEF a, k
      <3>3. a <= Larger(k, start + m)
        <4>1. a <= Larger(k, e) /\ e \in Nat /\ start + m \in Nat
          BY <1>2, <1>5, <1>13, <3>1, Constants DEF e
        <4> DEFINE g == start + m
        <4>2. g \in Nat /\ g >= e
          BY <1>5, <4>1
        <4> HIDE DEF g
        <4>3. a <= Larger(k, g)
          BY <3>2, <4>1, <4>2 DEF Larger
        <4> QED BY <4>3 DEF g
      <3>4. t.fds[c].at <= Larger(Len(t.files[t.fds[c].obj].data), End(t.pages[t.fds[c].cp]))
        BY <1>10, <1>13, <2>1, <3>3 DEF a, k
      <3> QED BY <3>4 DEF Within
    <2>2. CASE t.fds[c].open /\ ~t.fds[c].append /\ t.fds[c].cp # p /\ t.fds[c].cp # NoPage
      <3>1. s.fds[c].cp \in CachePages
        BY <1>10, <2>2, OwnPage
      <3> QED BY <1>10, <1>20, <2>2, <3>1 DEF Within
    <2>3. CASE ~(t.fds[c].open /\ ~t.fds[c].append /\ t.fds[c].cp # NoPage)
      BY <2>3 DEF Within
    <2> QED BY <2>1, <2>2, <2>3
  <1> DEFINE a == s.fds[d].at
  <1>21. a \in Nat /\ a <= off
    BY <1>1, Parts DEF FdType
  <1> HIDE DEF a
  <1>22. a + n \in 0 .. MaxSize /\ a + n <= start + m
    <2>1. n \in Nat /\ off + n <= start + m /\ off + n <= MaxSize /\ start + m \in Nat
      <3>1. start \in Nat
        BY <1>2
      <3> QED BY <1>2, <1>3, <1>5, <3>1
    <2> DEFINE g == start + m
    <2> HIDE DEF m, g
    <2>2. g \in Nat /\ off + n <= g
      BY <2>1 DEF g
    <2>3. a + n \in 0 .. MaxSize /\ a + n <= g
      BY <1>21, <2>1, <2>2, Constants
    <2> QED BY <2>3 DEF g
  <1>23. x \in 0 .. MaxSize /\ x <= start + m
    BY <1>22 DEF a
  <1> DEFINE u == MovedTo(t, d, x)
  <1> HIDE DEF x
  <1>24. CoreInv(u) /\ \A c \in Descriptors : c # d => Within(u, c)
    BY <1>19, <1>20, <1>23, MovedCore
  <1>25. Within(u, d)
    <2>1. OnlyFd(t, u, d) /\ u.fds[d].at = x /\ SameFd(t, u, d)
      BY <1>10, <1>23, MovedIs
    <2>2. u.files = t.files /\ u.pages = t.pages /\ u.fds[d].cp = p /\ u.fds[d].obj = s.fds[d].obj
      BY <1>10, <2>1 DEF OnlyFd, SameFd, p
    <2>3. End(u.pages[u.fds[d].cp]) = start + m
      BY <1>13, <2>2
    <2> DEFINE k == Len(u.files[u.fds[d].obj].data)
    <2>4. k \in Nat
      BY <1>1, <1>10, <2>2, Parts
    <2> HIDE DEF k, m, u
    <2>5. x <= Larger(k, start + m)
      BY <1>2, <1>5, <1>23, <2>4, Constants DEF Larger
    <2> QED BY <2>1, <2>3, <2>5 DEF Within, k
  <1>26. CallInv(u)
    BY <1>24, <1>25 DEF CallInv
  <1> QED BY <1>8, <1>26

\* A cache page taken for descriptor d, to begin at off.
Taken(s, d, p, off) ==
    WithFd(WithPage(s, p, [obj |-> s.fds[d].obj, off |-> off, data |-> <<>>]), d, [s.fds[d] EXCEPT !.cp = p])

LEMMA TakenIs ==
  ASSUME NEW s, CoreInv(s), NEW d \in Descriptors, s.fds[d].open, ~s.fds[d].direct, s.fds[d].cp = NoPage,
         PagesOf(s, s.fds[d].obj) = {}, \A c \in Descriptors : c # d => Within(s, c),
         NEW off \in 0 .. MaxSize, off <= Len(s.files[s.fds[d].obj].data),
         NEW p \in CachePages, p \notin InUse(s),
         NEW t, t = Taken(s, d, p, off)
  PROVE  /\ CoreInv(t) /\ \A c \in Descriptors : c # d => Within(t, c)
         /\ t.fds[d].open /\ t.fds[d].cp = p /\ t.fds[d].at = s.fds[d].at
         /\ t.pages[p].off = off /\ End(t.pages[p]) = off
  <1> DEFINE o == s.fds[d].obj
             page == [obj |-> o, off |-> off, data |-> <<>>]
             fd == [s.fds[d] EXCEPT !.cp = p]
             m == WithPage(s, p, page)
  <1>1. s \in State /\ o \in Objs /\ s.pages[p].obj = NoObj
    BY DEF CoreInv, Handles, InUse
  <1>2. p # NoPage
    BY Constants DEF CachePages, NoPage
  <1>3. page \in PageType /\ page.obj = o /\ page.off = off /\ page.data = <<>>
    <2>1. <<>> \in Seqs(PageSize)
      BY NoData, Constants
    <2> QED BY <1>1, <2>1 DEF PageType
  <1>4. End(page) = off
    <2>1. Len(<<>>) = 0
      OBVIOUS
    <2>2. Len(page.data) = 0
      BY <1>3, <2>1
    <2> QED BY <1>3, <2>2, Constants DEF End
  <1>5. s.fds[d] \in FdType
    BY <1>1, Parts
  <1>6. /\ fd \in FdType /\ fd.cp = p
        /\ fd.open = s.fds[d].open /\ fd.obj = o /\ fd.at = s.fds[d].at
        /\ fd.append = s.fds[d].append /\ fd.direct = s.fds[d].direct
        /\ fd.size = s.fds[d].size /\ fd.hdr = s.fds[d].hdr /\ fd.used = s.fds[d].used
    BY <1>5 DEF FdType
  <1> HIDE DEF page, fd, m
  <1>7. OnlyPage(s, m, p) /\ m.pages[p] = page
    BY <1>1, <1>3, PageSet DEF m
  <1>8. m \in State
    BY <1>7 DEF OnlyPage
  <1>9. t = WithFd(m, d, fd)
    BY DEF Taken, m, page, fd
  <1>10. OnlyFd(m, t, d) /\ t.fds[d] = fd
    BY <1>6, <1>8, <1>9, FdSet
  <1>11. /\ t \in State /\ t.files = s.files /\ t.pages[p] = page
         /\ \A q \in CachePages : q # p => t.pages[q] = s.pages[q]
         /\ \A c \in Descriptors : c # d => t.fds[c] = s.fds[c]
    BY <1>7, <1>10 DEF OnlyPage, OnlyFd
  <1>12. \A c \in Descriptors :
            /\ t.fds[c].open = s.fds[c].open /\ t.fds[c].obj = s.fds[c].obj
            /\ t.fds[c].direct = s.fds[c].direct /\ t.fds[c].size = s.fds[c].size
            /\ t.fds[c].used = s.fds[c].used /\ t.fds[c].hdr = s.fds[c].hdr
            /\ ~t.fds[c].open => t.fds[c].cp = s.fds[c].cp
    BY <1>6, <1>10, <1>11
  <1>13. InUse(t) = InUse(s) \cup {p}
    BY <1>1, <1>3, <1>11, Constants DEF InUse
  <1>14. Handles(t)
    BY <1>11, <1>12 DEF CoreInv, Handles
  <1>15. \A c \in Descriptors : c # d /\ s.fds[c].open /\ s.fds[c].cp # NoPage => s.fds[c].cp \in CachePages /\ s.fds[c].cp # p
    BY OwnPage
  <1>16. \A q \in InUse(s) : q \in CachePages /\ q # p /\ t.pages[q] = s.pages[q] /\ s.pages[q].obj # o
    BY <1>11 DEF InUse, PagesOf
  <1>17. Caches(t)
    <2>1. ASSUME NEW c \in Descriptors, t.fds[c].open, t.fds[c].cp # NoPage
          PROVE  t.pages[t.fds[c].cp].obj = t.fds[c].obj
      <3>1. CASE c = d
        BY <1>3, <1>6, <1>10, <1>11, <3>1
      <3>2. CASE c # d
        <4>1. s.fds[c].cp \in CachePages /\ s.fds[c].cp # p /\ t.fds[c] = s.fds[c]
          BY <1>11, <1>15, <2>1, <3>2
        <4>2. s.pages[s.fds[c].cp].obj = s.fds[c].obj
          BY <2>1, <4>1 DEF CoreInv, Caches
        <4> QED BY <1>11, <4>1, <4>2
      <3> QED BY <3>1, <3>2
    <2>2. ASSUME NEW x \in InUse(t), NEW y \in InUse(t), t.pages[x].obj = t.pages[y].obj
          PROVE  x = y
      <3>1. CASE x \in InUse(s) /\ y \in InUse(s)
        BY <1>16, <2>2, <3>1 DEF CoreInv, Caches
      <3>2. CASE x = p \/ y = p
        BY <1>3, <1>11, <1>13, <1>16, <2>2, <3>2
      <3> QED BY <1>13, <3>1, <3>2
    <2>3. ASSUME NEW q \in InUse(t)
          PROVE  \E c \in Descriptors : t.fds[c].open /\ ~t.fds[c].direct /\ t.fds[c].cp = q
      <3>1. CASE q = p
        BY <1>6, <1>10, <3>1
      <3>2. CASE q \in InUse(s)
        <4>1. PICK c \in Descriptors : s.fds[c].open /\ ~s.fds[c].direct /\ s.fds[c].cp = q
          BY <3>2 DEF CoreInv, Caches
        <4>2. q # NoPage
          BY <1>16, <3>2, Constants DEF CachePages, NoPage
        <4>3. c # d
          BY <4>1, <4>2
        <4> QED BY <1>11, <4>1, <4>3
      <3> QED BY <1>13, <3>1, <3>2
    <2> QED BY <2>1, <2>2, <2>3 DEF Caches
  <1>18. Lengths(t)
    BY <1>11, <1>12 DEF CoreInv, Lengths
  <1>19. Fits(t)
    <2>1. ASSUME NEW q \in InUse(t)
          PROVE  t.pages[q].off <= Len(t.files[t.pages[q].obj].data) /\ End(t.pages[q]) <= MaxSize
      <3>1. CASE q = p
        BY <1>3, <1>4, <1>11, <3>1
      <3>2. CASE q \in InUse(s)
        BY <1>11, <1>16, <3>2 DEF CoreInv, Fits
      <3> QED BY <1>13, <3>1, <3>2
    <2> QED BY <2>1 DEF Fits
  <1>20. CoreInv(t)
    BY <1>11, <1>14, <1>17, <1>18, <1>19 DEF CoreInv
  <1>21. ASSUME NEW c \in Descriptors, c # d  PROVE Within(t, c)
    <2>1. t.fds[c] = s.fds[c] /\ Within(s, c)
      BY <1>11, <1>21
    <2>2. s.fds[c].open /\ s.fds[c].cp # NoPage => t.pages[s.fds[c].cp] = s.pages[s.fds[c].cp]
      BY <1>11, <1>15, <1>21
    <2> QED BY <1>11, <2>1, <2>2 DEF Within
  <1> QED BY <1>3, <1>4, <1>6, <1>10, <1>11, <1>20, <1>21

LEMMA WriteNewPageIs ==
  ASSUME Careful, NEW s, CoreInv(s), NEW d \in Descriptors, s.fds[d].open, ~s.fds[d].direct, s.fds[d].cp = NoPage,
         PagesOf(s, s.fds[d].obj) = {}, \A c \in Descriptors : c # d => Within(s, c),
         NEW off \in Nat, NEW bytes \in Seq(Data), off + Len(bytes) <= MaxSize, s.fds[d].at <= off,
         off <= Len(s.files[s.fds[d].obj].data), Len(bytes) <= PageSize,
         NEW u \in WriteNewPage(s, d, off, bytes)
  PROVE  CallInv(u)
  <1> DEFINE taken(p) == [s EXCEPT !.pages[p] = [obj |-> s.fds[d].obj, off |-> off, data |-> <<>>],
                                   !.fds[d].cp = p]
             n == Len(bytes)
  <1>1. \/ \E p \in CachePages \ InUse(s) : u = WriteCached(taken(p), d, off, bytes)
        \/ u \in WriteThrough(s, d, off, bytes)
    <2> DEFINE S == {WriteCached(taken(p), d, off, bytes) : p \in CachePages \ InUse(s)}
               T == WriteThrough(s, d, off, bytes)
               C == Cardinality(InUse(s)) >= K - 1
    <2>1. u \in S \cup IF C THEN T ELSE {}
      BY DEF WriteNewPage
    <2> HIDE DEF T, C
    <2>2. u \in S \/ u \in T
      BY <2>1
    <2> QED BY <2>2 DEF T
  <1>2. CASE u \in WriteThrough(s, d, off, bytes)
    BY <1>2, WriteThroughIs
  <1>3. ASSUME NEW p \in CachePages \ InUse(s), u = WriteCached(taken(p), d, off, bytes)
        PROVE  CallInv(u)
    <2> DEFINE t == Taken(s, d, p, off)
    <2>1. s \in State
      BY DEF CoreInv
    <2>2. taken(p) = t
      <3> DEFINE page == [obj |-> s.fds[d].obj, off |-> off, data |-> <<>>]
      <3>1. WithPage(s, p, page).fds = s.fds
        BY <2>1 DEF WithPage, State
      <3>2. t = [[s EXCEPT !.pages[p] = page] EXCEPT !.fds[d] = [s.fds[d] EXCEPT !.cp = p]]
        BY DEF Taken, WithPage, WithFd
      <3> HIDE DEF t, page
      <3>3. [s EXCEPT !.pages[p] = page, !.fds[d].cp = p]
            = [[s EXCEPT !.pages[p] = page] EXCEPT !.fds[d] = [s.fds[d] EXCEPT !.cp = p]]
        BY <2>1 DEF State
      <3> QED BY <3>2, <3>3 DEF page
    <2> HIDE DEF t
    <2>3. n \in Nat /\ off \in 0 .. MaxSize /\ off + n <= MaxSize /\ n <= PageSize
      <3>1. n \in Nat /\ off + n <= MaxSize /\ n <= PageSize
        OBVIOUS
      <3> HIDE DEF n
      <3> QED BY <3>1, Constants
    <2>4. /\ CoreInv(t) /\ \A c \in Descriptors : c # d => Within(t, c)
          /\ t.fds[d].open /\ t.fds[d].cp = p /\ t.fds[d].at = s.fds[d].at
          /\ t.pages[p].off = off /\ End(t.pages[p]) = off
      BY <2>3, TakenIs DEF t
    <2>5. p # NoPage
      BY Constants DEF CachePages, NoPage
    <2> DEFINE page == t.pages[t.fds[d].cp]
    <2>6. page.off <= off /\ off <= End(page) /\ off + n <= page.off + PageSize
      <3>1. page.off = off /\ End(page) = off
        BY <2>4
      <3> HIDE DEF page, n
      <3> QED BY <2>3, <3>1, Constants
    <2>7. t.fds[d].at <= off /\ t.fds[d].cp # NoPage /\ t.fds[d].open
      BY <2>4, <2>5
    <2>8. CallInv(WriteCached(t, d, off, bytes))
      <3>1. CoreInv(t) /\ \A c \in Descriptors : c # d => Within(t, c)
        BY <2>4
      <3> QED BY <2>6, <2>7, <3>1, WriteCachedIs
    <2> QED BY <1>3, <2>2, <2>8
  <1> QED BY <1>1, <1>2, <1>3

\* SPIFFS_write, once the descriptor knows of the cache page of its file.
LEMMA WritingIs ==
  ASSUME Careful, NEW s, CoreInv(s), NEW d \in Descriptors, s.fds[d].open,
         \A c \in Descriptors : c # d => Within(s, c),
         s.fds[d].cp = NoPage => PagesOf(s, s.fds[d].obj) = {},
         NEW off \in Nat, NEW bytes \in Seq(Data), off + Len(bytes) <= MaxSize, s.fds[d].at <= off,
         s.fds[d].cp = NoPage => off <= Len(s.files[s.fds[d].obj].data),
         s.fds[d].cp # NoPage => off <= Larger(Len(s.files[s.fds[d].obj].data), End(s.pages[s.fds[d].cp])),
         ~s.fds[d].direct, NEW r \in WriteBack(s, d)
  PROVE  /\ CallInv(r.s)
         /\ r.ok => \A u \in WriteThrough(r.s, d, off, bytes) : CallInv(u)
         /\ r.ok /\ Len(bytes) <= PageSize => \A u \in WriteNewPage(r.s, d, off, bytes) : CallInv(u)
  <1> DEFINE o == s.fds[d].obj
             t == r.s
  <1>1. s \in State /\ o \in Objs
    BY DEF CoreInv, Handles
  <1>2. Flushed(s, t, d)
    BY WriteBackIs
  <1>3. r.ok /\ s.fds[d].cp # NoPage => Len(t.files[o].data) >= End(s.pages[s.fds[d].cp])
    BY WriteBackIs
  <1> HIDE DEF t
  <1>4. /\ CoreInv(t) /\ t \in State /\ t.fds[d].open /\ t.fds[d].obj = o /\ ~t.fds[d].direct /\ t.fds[d].cp = NoPage
        /\ PagesOf(t, t.fds[d].obj) = {} /\ t.fds[d].at <= s.fds[d].at
        /\ Len(t.files[o].data) >= Len(s.files[o].data)
    BY <1>1, <1>2 DEF Flushed, CoreInv
  <1>5. \A c \in Descriptors : Within(t, c)
    BY <1>2 DEF Flushed
  <1>6. CallInv(t)
    BY <1>4, <1>5 DEF CallInv
  <1>7. t.fds[d].at <= off
    <2> DEFINE a == t.fds[d].at
               b == s.fds[d].at
    <2>1. a \in Nat /\ b \in Nat /\ a <= b /\ b <= off
      BY <1>1, <1>4, Parts DEF FdType
    <2> HIDE DEF a, b
    <2>2. a <= off
      BY <2>1
    <2> QED BY <2>2 DEF a
  <1>8. r.ok => off <= Len(t.files[o].data)
    <2> DEFINE l == Len(s.files[o].data)
               m == Len(t.files[o].data)
               e == End(s.pages[s.fds[d].cp])
    <2>1. l \in Nat /\ m \in Nat /\ m >= l
      BY <1>1, <1>4, Parts
    <2>2. CASE s.fds[d].cp = NoPage
      <3>1. off <= l
        BY <2>2
      <3> HIDE DEF l, m
      <3>2. off <= m
        BY <2>1, <3>1
      <3> QED BY <3>2 DEF m
    <2>3. CASE s.fds[d].cp # NoPage
      <3>1. off <= Larger(l, e) /\ (r.ok => m >= e)
        BY <1>3, <2>3
      <3>2. e \in Nat
        <4>1. s.fds[d].cp \in CachePages
          BY <2>3, OwnPage
        <4> QED BY <1>1, <4>1, Parts
      <3> HIDE DEF l, m, e
      <3>3. r.ok => off <= m
        BY <2>1, <3>1, <3>2 DEF Larger
      <3> QED BY <3>3 DEF m
    <2> QED BY <2>2, <2>3
  <1>9. ASSUME NEW u \in WriteThrough(t, d, off, bytes)  PROVE CallInv(u)
    BY <1>4, <1>5, <1>7, WriteThroughIs
  <1>10. ASSUME r.ok, Len(bytes) <= PageSize, NEW u \in WriteNewPage(t, d, off, bytes)  PROVE CallInv(u)
    <2>1. off <= Len(t.files[t.fds[d].obj].data)
      BY <1>4, <1>8, <1>10
    <2> QED BY ZenonT(60), <1>4, <1>5, <1>7, <1>10, <2>1, WriteNewPageIs
  <1> QED BY <1>6, <1>9, <1>10 DEF t

\* State s is ready for SPIFFS_write through d at off.
Ready(s, d, off) ==
    /\ CoreInv(s) /\ s.fds[d].open /\ s.fds[d].direct = fds[d].direct /\ s.pages = pages
    /\ \A c \in Descriptors : c # d => Within(s, c)
    /\ off \in Nat /\ s.fds[d].at <= off
    /\ s.fds[d].cp = NoPage => /\ PagesOf(s, s.fds[d].obj) = {}
                               /\ off <= Len(s.files[s.fds[d].obj].data)
    /\ s.fds[d].cp # NoPage => off <= Larger(Len(s.files[s.fds[d].obj].data), End(s.pages[s.fds[d].cp]))

LEMMA LargerIs ==
  ASSUME NEW m \in Nat
  PROVE  m <= m /\ \A n \in Nat : Larger(m, n) \in Nat /\ m <= Larger(m, n)
  BY DEF Larger

LEMMA ReadyIs ==
  ASSUME StateInv, NEW d \in Descriptors, fds[d].open, ~Stray(d),
         NEW at, at = IF fds[d].append THEN Length(fds[d].size) ELSE fds[d].at,
         NEW s, s = Associate(MovedTo(now, d, at), d),
         NEW off, off = IF fds[d].append /\ s.fds[d].cp # NoPage
                        THEN Larger(Length(fds[d].size), End(pages[s.fds[d].cp])) ELSE at
  PROVE  Ready(s, d, off)
  <1> DEFINE o == fds[d].obj
             l == Len(files[o].data)
             t == MovedTo(now, d, at)
  <1>1. /\ CoreInv(now) /\ now \in State /\ Within(now, d) /\ \A c \in Descriptors : Within(now, c)
        /\ now.fds = fds /\ now.files = files /\ now.pages = pages
    BY DEF StateInv, CallInv, CoreInv, now
  <1>2. o \in Objs /\ Length(fds[d].size) = l
    BY <1>1 DEF CoreInv, Handles, Lengths
  <1>3. l \in 0 .. MaxSize /\ fds[d].at \in 0 .. MaxSize
    BY ZenonT(60), <1>1, <1>2, Parts DEF FdType
  <1>4. at \in 0 .. MaxSize /\ (fds[d].append => at = l) /\ (~fds[d].append => at = fds[d].at)
    BY ZenonT(60), <1>2, <1>3
  <1>5. CoreInv(t) /\ \A c \in Descriptors : c # d => Within(t, c)
    BY <1>1, <1>4, MovedCore
  <1>6. OnlyFd(now, t, d) /\ t.fds[d].at = at /\ SameFd(now, t, d)
    BY <1>1, <1>4, MovedIs
  <1>7. /\ t.fds[d].open /\ t.fds[d].obj = o /\ t.fds[d].direct = fds[d].direct
        /\ t.fds[d].append = fds[d].append /\ t.fds[d].cp = fds[d].cp
        /\ t.files = files /\ t.pages = pages
    BY ZenonT(60), <1>1, <1>6 DEF OnlyFd, SameFd
  <1> HIDE DEF t
  <1>8. Linked(t, s, d)
    BY <1>5, <1>7, AssociateIs DEF t
  <1>9. /\ CoreInv(s) /\ s.files = files /\ s.pages = pages /\ s.fds[d].open /\ s.fds[d].obj = o
        /\ s.fds[d].at = at /\ s.fds[d].direct = fds[d].direct
        /\ fds[d].cp # NoPage => s.fds[d].cp = fds[d].cp
        /\ s.fds[d].cp = NoPage => PagesOf(s, o) = {}
        /\ \A c \in Descriptors : c # d => Within(s, c)
    <2> HIDE DEF o
    <2>1. s.files = files /\ s.pages = pages
      BY ZenonT(60), <1>7, <1>8 DEF Linked, OnlyFd
    <2>2. /\ CoreInv(s) /\ s.fds[d].open /\ s.fds[d].obj = o
          /\ s.fds[d].at = at /\ s.fds[d].direct = fds[d].direct
      BY ZenonT(60), <1>6, <1>7, <1>8 DEF Linked
    <2>3. fds[d].cp # NoPage => s.fds[d].cp = fds[d].cp
      BY ZenonT(60), <1>7, <1>8 DEF Linked
    <2>4. s.fds[d].cp = NoPage => PagesOf(s, o) = {}
      BY ZenonT(60), <2>2, <1>8 DEF Linked
    <2>5. \A c \in Descriptors : c # d => Within(s, c)
      BY ZenonT(60), <1>5, <1>8 DEF Linked
    <2> QED BY ZenonT(60), <2>1, <2>2, <2>3, <2>4, <2>5
  <1> DEFINE p == s.fds[d].cp
             e == End(pages[p])
  <1>10. p # NoPage => e \in Nat
    <2>1. p # NoPage => p \in CachePages
      BY ZenonT(60), <1>9, OwnPage
    <2> QED BY <1>1, <2>1, Parts
  <1>11. ~fds[d].append /\ fds[d].cp = NoPage => at <= l
    BY <1>2, <1>3, <1>4 DEF Stray
  <1>12. ~fds[d].append /\ fds[d].cp # NoPage => p # NoPage /\ at <= Larger(l, e)
    BY ZenonT(60), <1>1, <1>4, <1>9 DEF Within
  <1> HIDE DEF l, e, p
  <1>13. off = IF fds[d].append /\ p # NoPage THEN Larger(l, e) ELSE at
    BY <1>2 DEF p, e
  <1>14. off \in Nat /\ at <= off
    <2>1. l \in Nat /\ at \in Nat
      BY <1>3, <1>4, Constants
    <2>2. CASE fds[d].append /\ p # NoPage
      <3>1. e \in Nat /\ at = l /\ off = Larger(l, e)
        BY Zenon, <1>4, <1>10, <1>13, <2>2
      <3> QED BY Zenon, <2>1, <3>1, LargerIs
    <2>3. CASE ~(fds[d].append /\ p # NoPage)
      <3>1. off = at
        BY Zenon, <1>13, <2>3
      <3> QED BY Zenon, <2>1, <3>1, LargerIs
    <2> QED BY ZenonT(60), <2>2, <2>3
  <1>15. p = NoPage => off <= l
    BY <1>3, <1>4, <1>11, <1>12, <1>13, Constants
  <1>16. p # NoPage => off <= Larger(l, e)
    BY <1>3, <1>4, <1>10, <1>11, <1>12, <1>13, Constants DEF Larger
  <1> QED BY Zenon, <1>9, <1>14, <1>15, <1>16 DEF Ready, p, l, e

LEMMA BytesAre ==
  ASSUME NEW bytes \in Bytes
  PROVE  bytes \in Seq(Data)
  <1>1. PICK n \in 1 .. MaxLen : bytes \in [1 .. n -> Data]
    BY DEF Bytes
  <1>2. n \in 0 .. MaxLen
    BY Constants
  <1>3. bytes \in Seqs(MaxLen)
    BY <1>1, <1>2 DEF Seqs
  <1> QED BY <1>3, SeqsAre, Constants

LEMMA WriteKeeps ==
  ASSUME Careful, StateInv, NEW d \in Descriptors, NEW bytes \in Bytes, Write(d, bytes)
  PROVE  StateInv'
  <1> DEFINE size == Length(fds[d].size)
             at == IF fds[d].append THEN size ELSE fds[d].at
             s == Associate([now EXCEPT !.fds[d].at = at], d)
             p == s.fds[d].cp
             off == IF fds[d].append /\ p # NoPage THEN Larger(size, End(pages[p])) ELSE at
             small == Len(bytes) < PageSize
             Dumped(r) == IF ~r.ok THEN {r.s}
                          ELSE IF small THEN WriteNewPage(r.s, d, off, bytes)
                          ELSE WriteThrough(r.s, d, off, bytes)
  <1>1. fds[d].open /\ off + Len(bytes) <= MaxSize
    BY Zenon DEF Write
  <1>2. ~Stray(d)
    BY Zenon DEF Write, Careful
  <1>3. PICK t \in (IF fds[d].direct THEN WriteThrough(s, d, off, bytes)
                    ELSE IF small /\ InPage(p, off, Len(bytes)) THEN {WriteCached(s, d, off, bytes)}
                    ELSE UNION {Dumped(r) : r \in WriteBack(s, d)}) : Returns(t)
    BY Zenon DEF Write
  <1>4. Ready(s, d, off)
    <2>1. [now EXCEPT !.fds[d].at = at] = MovedTo(now, d, at)
      BY Zenon DEF MovedTo, WithFd
    <2>2. s = Associate(MovedTo(now, d, at), d)
      BY Zenon, <2>1
    <2> HIDE DEF s
    <2> QED BY Zenon, <1>1, <1>2, <2>2, ReadyIs
  <1>5. bytes \in Seq(Data)
    BY Zenon, BytesAre
  <1> HIDE DEF s, at, off
  <1>6. /\ CoreInv(s) /\ s.fds[d].open /\ s.fds[d].direct = fds[d].direct /\ s.pages = pages
        /\ \A c \in Descriptors : c # d => Within(s, c)
        /\ off \in Nat /\ s.fds[d].at <= off
        /\ s.fds[d].cp = NoPage => PagesOf(s, s.fds[d].obj) = {}
        /\ s.fds[d].cp = NoPage => off <= Len(s.files[s.fds[d].obj].data)
        /\ s.fds[d].cp # NoPage => off <= Larger(Len(s.files[s.fds[d].obj].data), End(s.pages[s.fds[d].cp]))
    BY <1>4 DEF Ready
  <1>7. CallInv(t)
    <2>1. CASE fds[d].direct
      <3>1. t \in WriteThrough(s, d, off, bytes)
        BY <1>3, <2>1
      <3>2. s.fds[d].cp = NoPage
        BY <1>6, <2>1, DirectApart
      <3> QED BY <1>1, <1>5, <1>6, <3>1, <3>2, WriteThroughIs
    <2>2. CASE ~fds[d].direct /\ small /\ InPage(p, off, Len(bytes))
      <3>1. t = WriteCached(s, d, off, bytes)
        BY <1>3, <2>2
      <3>2. /\ p # NoPage /\ s.pages[p].off <= off /\ off <= End(s.pages[p])
            /\ off + Len(bytes) <= s.pages[p].off + PageSize
        BY <1>6, <2>2 DEF InPage
      <3> DEFINE page == s.pages[p]
      <3>3. page.off <= off /\ off <= End(page) /\ off + Len(bytes) <= page.off + PageSize
        BY <3>2
      <3>4. page = s.pages[s.fds[d].cp]
        OBVIOUS
      <3> HIDE DEF page
      <3>5. CallInv(WriteCached(s, d, off, bytes))
        BY <1>1, <1>5, <1>6, <3>2, <3>3, <3>4, WriteCachedIs
      <3> QED BY <3>1, <3>5
    <2>3. CASE ~fds[d].direct /\ ~(small /\ InPage(p, off, Len(bytes)))
      <3>1. PICK r \in WriteBack(s, d) : t \in Dumped(r)
        BY <1>3, <2>3
      <3>2. /\ CallInv(r.s)
            /\ r.ok => \A u \in WriteThrough(r.s, d, off, bytes) : CallInv(u)
            /\ r.ok /\ Len(bytes) <= PageSize => \A u \in WriteNewPage(r.s, d, off, bytes) : CallInv(u)
        <4>1. ~s.fds[d].direct
          BY <1>6, <2>3
        <4> QED BY <1>1, <1>5, <1>6, <4>1, WritingIs
      <3>3. small => Len(bytes) <= PageSize
        <4> DEFINE n == Len(bytes)
        <4>1. n \in Nat /\ (small <=> n < PageSize)
          BY <1>5
        <4> HIDE DEF n, small
        <4>2. small => n <= PageSize
          BY <4>1, Constants
        <4> QED BY <4>2 DEF n
      <3> HIDE DEF small
      <3> QED BY <3>1, <3>2, <3>3
    <2> QED BY <2>1, <2>2, <2>3
  <1> QED BY <1>3, <1>7, Returning

-----------------------------------------------------------------------------
(* Files and descriptors that come and go *)

\* A file no descriptor is of has no cache page, and may change.
LEMMA Unheld ==
  ASSUME NEW s, CoreInv(s), NEW o \in Objs, \A c \in Descriptors : s.fds[c].open => s.fds[c].obj # o,
         NEW file \in FileType, Length(file.size) = Len(file.data), file.size # 0
  PROVE  /\ CoreInv(WithFile(s, o, file))
         /\ \A c \in Descriptors : Within(s, c) => Within(WithFile(s, o, file), c)
  <1> DEFINE t == WithFile(s, o, file)
  <1>1. s \in State
    BY DEF CoreInv
  <1>2. OnlyFile(s, t, o) /\ t.files[o] = file
    BY <1>1, FileSet
  <1> HIDE DEF t
  <1>3. /\ t \in State /\ t.fds = s.fds /\ t.pages = s.pages
        /\ \A x \in Objs : x # o => t.files[x] = s.files[x]
    BY <1>2 DEF OnlyFile
  <1>4. \A c \in Descriptors : s.fds[c].open => /\ s.fds[c].obj \in Objs
                                                /\ t.files[s.fds[c].obj] = s.files[s.fds[c].obj]
    BY <1>3 DEF CoreInv, Handles
  <1>5. InUse(t) = InUse(s)
    BY <1>3 DEF InUse
  <1>6. ASSUME NEW p \in InUse(s)
        PROVE  s.pages[p].obj \in Objs /\ t.files[s.pages[p].obj] = s.files[s.pages[p].obj]
    <2>1. p \in CachePages /\ s.pages[p].obj \in Objs
      BY <1>1, Parts DEF InUse
    <2>2. p \in PagesOf(s, s.pages[p].obj)
      BY <2>1 DEF PagesOf
    <2>3. PICK c \in Descriptors : s.fds[c].open /\ s.fds[c].obj = s.pages[p].obj
      BY <2>1, <2>2, FoundIs
    <2> QED BY <1>4, <2>1, <2>3
  <1>7. Handles(t)
    BY <1>3, <1>4 DEF CoreInv, Handles
  <1>8. Caches(t)
    BY <1>3, <1>5 DEF CoreInv, Caches
  <1>9. Lengths(t)
    <2>1. \A x \in Objs : Length(t.files[x].size) = Len(t.files[x].data) /\ t.files[x].size # 0
      BY <1>2, <1>3 DEF CoreInv, Lengths
    <2>2. \A c \in Descriptors : t.fds[c].open => Length(t.fds[c].size) = Len(t.files[t.fds[c].obj].data)
      BY <1>3, <1>4 DEF CoreInv, Lengths
    <2> QED BY <2>1, <2>2 DEF Lengths
  <1>10. Fits(t)
    BY <1>3, <1>5, <1>6 DEF CoreInv, Fits
  <1>11. \A c \in Descriptors : Within(s, c) => Within(t, c)
    BY <1>3, <1>4 DEF Within
  <1> QED BY <1>3, <1>7, <1>8, <1>9, <1>10, <1>11 DEF CoreInv, t

LEMMA FreshIs ==
  /\ FreshFd \in FdType /\ ~FreshFd.open /\ FreshFd.cp = NoPage
  /\ FreshPage \in PageType /\ FreshPage.obj = NoObj
  /\ EmptyFile \in FileType /\ Length(EmptyFile.size) = Len(EmptyFile.data) /\ EmptyFile.size # 0
  /\ NoFile \in FileType /\ Length(NoFile.size) = Len(NoFile.data) /\ NoFile.size # 0
  <1>1. <<>> \in Seqs(MaxSize) /\ <<>> \in Seqs(PageSize) /\ 0 \in 0 .. MaxSize
    BY NoData, Constants
  <1>2. FreshFd \in FdType /\ ~FreshFd.open /\ FreshFd.cp = NoPage
    BY <1>1 DEF FreshFd, FdType
  <1>3. FreshPage \in PageType /\ FreshPage.obj = NoObj
    BY <1>1 DEF FreshPage, PageType
  <1>4. EmptyFile \in FileType /\ NoFile \in FileType
    BY <1>1 DEF EmptyFile, NoFile, FileType
  <1>5. /\ Length(EmptyFile.size) = Len(EmptyFile.data) /\ EmptyFile.size # 0
        /\ Length(NoFile.size) = Len(NoFile.data) /\ NoFile.size # 0
    BY DEF EmptyFile, NoFile, Length, Undef
  <1> QED BY <1>2, <1>3, <1>4, <1>5

\* Nothing open, nothing cached: the files are in order.
LEMMA Idle ==
  ASSUME NEW s \in State,
         \A d \in Descriptors : ~s.fds[d].open /\ s.fds[d].cp = NoPage,
         \A p \in CachePages : s.pages[p].obj = NoObj,
         \A o \in Objs : Length(s.files[o].size) = Len(s.files[o].data) /\ s.files[o].size # 0
  PROVE  CallInv(s)
  <1>1. InUse(s) = {}
    BY DEF InUse
  <1> QED BY <1>1 DEF CallInv, CoreInv, Handles, Caches, Lengths, Fits, Within

LEMMA MountedIs ==
  ASSUME NEW s, CoreInv(s)
  PROVE  CallInv(Mounted(s))
  <1> DEFINE t == Mounted(s)
             fdsNew == [d \in Descriptors |-> FreshFd]
             pagesNew == [p \in CachePages |-> FreshPage]
  <1>1. s \in State
    BY DEF CoreInv
  <1>2. fdsNew \in [Descriptors -> FdType] /\ pagesNew \in [CachePages -> PageType]
    BY FreshIs
  <1>3. /\ \A d \in Descriptors : ~fdsNew[d].open /\ fdsNew[d].cp = NoPage
        /\ \A p \in CachePages : pagesNew[p].obj = NoObj
    BY FreshIs
  <1>4. t = [s EXCEPT !.fds = fdsNew, !.pages = pagesNew]
    BY DEF Mounted
  <1> HIDE DEF fdsNew, pagesNew, t
  <1>5. t \in State /\ t.files = s.files /\ t.fds = fdsNew /\ t.pages = pagesNew
    BY <1>1, <1>2, <1>4 DEF State
  <1>6. CallInv(t)
    BY <1>3, <1>5, Idle DEF CoreInv, Lengths
  <1> QED BY <1>6 DEF t

LEMMA PowerLossKeeps ==
  ASSUME StateInv, PowerLoss
  PROVE  StateInv'
  <1>1. CoreInv(now) /\ Returns(Mounted(now))
    BY DEF PowerLoss, StateInv, CallInv
  <1> QED BY <1>1, MountedIs, Returning

LEMMA CreatKeeps ==
  ASSUME StateInv, NEW o \in Objs, Creat(o)
  PROVE  StateInv'
  <1> DEFINE t == WithFile(now, o, EmptyFile)
  <1>1. CallInv(now) /\ CoreInv(now) /\ now.files = files
    BY DEF StateInv, CallInv, now
  <1>2. ~files[o].exists /\ Returns(t)
    BY DEF Creat, WithFile
  <1>3. \A c \in Descriptors : now.fds[c].open => now.fds[c].obj # o
    BY <1>1, <1>2 DEF CoreInv, Handles
  <1>4. CallInv(t)
    BY <1>1, <1>3, FreshIs, Unheld DEF CallInv
  <1> QED BY <1>2, <1>4, Returning

\* A closed descriptor stays closed.
LEMMA ClosedFd ==
  ASSUME NEW s, CallInv(s), NEW d \in Descriptors, s.fds[d].cp = NoPage,
         NEW fd \in FdType, ~fd.open, fd.cp = NoPage
  PROVE  CallInv(WithFd(s, d, fd))
  <1> DEFINE t == WithFd(s, d, fd)
  <1>1. CoreInv(s) /\ s \in State
    BY DEF CallInv, CoreInv
  <1>2. OnlyFd(s, t, d) /\ t.fds[d] = fd
    BY <1>1, FdSet
  <1> HIDE DEF t
  <1>3. /\ t \in State /\ t.files = s.files /\ t.pages = s.pages
        /\ \A c \in Descriptors : c # d => t.fds[c] = s.fds[c]
        /\ ~t.fds[d].open /\ t.fds[d].cp = NoPage
    BY <1>2 DEF OnlyFd
  <1>4. CoreInv(t) /\ \A c \in Descriptors : c = d \/ Within(s, c) => Within(t, c)
    BY <1>1, <1>3, Closing
  <1> QED BY <1>4 DEF CallInv, t

LEMMA OpenFailsKeeps ==
  ASSUME StateInv, NEW d \in Descriptors, OpenFails(d)
  PROVE  StateInv'
  <1> DEFINE fd == [fds[d] EXCEPT !.used = TRUE]
  <1>1. CallInv(now) /\ CoreInv(now) /\ now \in State /\ now.fds = fds
    BY DEF StateInv, CallInv, CoreInv, now
  <1>2. ~fds[d].open
    BY DEF OpenFails, Candidate
  <1>3. fds[d] \in FdType /\ fds[d].cp = NoPage
    BY <1>1, <1>2, Parts DEF CoreInv, Handles
  <1>4. fd \in FdType /\ ~fd.open /\ fd.cp = NoPage
    BY <1>2, <1>3 DEF FdType
  <1>5. Returns(WithFd(now, d, fd))
    BY <1>1 DEF OpenFails, WithFd
  <1> HIDE DEF fd
  <1>6. CallInv(WithFd(now, d, fd))
    BY <1>1, <1>3, <1>4, ClosedFd
  <1> QED BY <1>5, <1>6, Returning

LEMMA GcKeeps ==
  ASSUME StateInv, NEW o \in Objs, Gc(o)
  PROVE  StateInv'
  <1> DEFINE moved == TRUE
  <1>1. CallInv(now) /\ now \in State /\ Handles(now)
    BY DEF StateInv, CallInv, CoreInv
  <1>2. Returns(Event(now, o, 0, moved, NoPage))
    BY DEF Gc
  <1> HIDE DEF moved
  <1>3. Event(now, o, 0, moved, NoPage) = now
    BY <1>1, EventMoved
  <1> QED BY <1>1, <1>2, <1>3, Returning

-----------------------------------------------------------------------------
(* SPIFFS_open *)

\* Descriptor d is opened on a file with descriptors that write the way it does.
LEMMA OpenedIs ==
  ASSUME NEW s, CallInv(s), NEW d \in Descriptors, ~s.fds[d].open, NEW o \in Objs, s.files[o].exists,
         NEW fd \in FdType, fd.open, fd.obj = o, fd.size = s.files[o].size, fd.cp = NoPage, fd.hdr, fd.used,
         \A c \in Descriptors : s.fds[c].open /\ s.fds[c].obj = o => s.fds[c].direct = fd.direct
  PROVE  CallInv(WithFd(s, d, fd))
  <1> DEFINE t == WithFd(s, d, fd)
  <1>1. CoreInv(s) /\ s \in State /\ s.fds[d].cp = NoPage
    BY DEF CallInv, CoreInv, Handles
  <1>2. OnlyFd(s, t, d) /\ t.fds[d] = fd
    BY <1>1, FdSet
  <1> HIDE DEF t
  <1>3. /\ t \in State /\ t.files = s.files /\ t.pages = s.pages
        /\ \A c \in Descriptors : c # d => t.fds[c] = s.fds[c]
    BY <1>2 DEF OnlyFd
  <1>4. InUse(t) = InUse(s)
    BY <1>3 DEF InUse
  <1>5. Handles(t)
    <2>1. \A c \in Descriptors : ~t.fds[c].open => t.fds[c].cp = NoPage
      BY <1>1, <1>2, <1>3 DEF CoreInv, Handles
    <2>2. \A c \in Descriptors : t.fds[c].open =>
              /\ t.fds[c].obj \in Objs /\ t.files[t.fds[c].obj].exists
              /\ t.fds[c].used /\ t.fds[c].hdr
      BY <1>1, <1>2, <1>3 DEF CoreInv, Handles
    <2>3. ASSUME NEW b \in Descriptors, NEW c \in Descriptors,
                 t.fds[b].open, t.fds[c].open, t.fds[b].obj = t.fds[c].obj
          PROVE  t.fds[b].direct = t.fds[c].direct
      <3>1. \A x \in Descriptors : x # d /\ t.fds[x].open /\ t.fds[x].obj = o => t.fds[x].direct = fd.direct
        BY <1>3
      <3>2. CASE b = d \/ c = d
        BY <1>2, <2>3, <3>1, <3>2
      <3>3. CASE b # d /\ c # d
        BY <1>1, <1>3, <2>3, <3>3 DEF CoreInv, Handles
      <3> QED BY <3>2, <3>3
    <2> QED BY <2>1, <2>2, <2>3 DEF Handles
  <1>6. Caches(t)
    <2>1. \A c \in Descriptors : t.fds[c].open /\ t.fds[c].cp # NoPage =>
              t.pages[t.fds[c].cp].obj = t.fds[c].obj
      BY <1>1, <1>2, <1>3 DEF CoreInv, Caches
    <2>2. ASSUME NEW p \in InUse(t)
          PROVE  \E c \in Descriptors : t.fds[c].open /\ ~t.fds[c].direct /\ t.fds[c].cp = p
      <3>1. PICK c \in Descriptors : s.fds[c].open /\ ~s.fds[c].direct /\ s.fds[c].cp = p
        BY <1>1, <1>4 DEF CoreInv, Caches
      <3> QED BY <1>3, <3>1
    <2> QED BY <1>1, <1>3, <1>4, <2>1, <2>2 DEF CoreInv, Caches
  <1>7. Lengths(t)
    BY <1>1, <1>2, <1>3 DEF CoreInv, Lengths
  <1>8. Fits(t)
    BY <1>1, <1>3, <1>4 DEF CoreInv, Fits
  <1>9. \A c \in Descriptors : Within(t, c)
    BY <1>2, <1>3 DEF CallInv, Within
  <1> QED BY <1>3, <1>5, <1>6, <1>7, <1>8, <1>9 DEF CallInv, CoreInv, t

\* File o is empty, and its descriptors know and are at its beginning.
Emptied(s, t, o) ==
    /\ t \in State /\ t.pages = s.pages /\ t.files[o] = EmptyFile
    /\ \A x \in Objs : x # o => t.files[x] = s.files[x]
    /\ \A c \in Descriptors :
          /\ t.fds[c].open = s.fds[c].open /\ t.fds[c].obj = s.fds[c].obj /\ t.fds[c].cp = s.fds[c].cp
          /\ t.fds[c].append = s.fds[c].append /\ t.fds[c].direct = s.fds[c].direct
          /\ t.fds[c].hdr = s.fds[c].hdr /\ t.fds[c].used = s.fds[c].used
          /\ s.fds[c].open /\ s.fds[c].obj = o => Length(t.fds[c].size) = 0 /\ t.fds[c].at = 0
          /\ ~(s.fds[c].open /\ s.fds[c].obj = o) => t.fds[c] = s.fds[c]

LEMMA EmptiedInv ==
  ASSUME NEW s, CallInv(s), NEW o \in Objs, PagesOf(s, o) = {}, NEW t, Emptied(s, t, o)
  PROVE  CallInv(t)
  <1>1. /\ t \in State /\ t.pages = s.pages /\ t.files[o] = EmptyFile
        /\ \A x \in Objs : x # o => t.files[x] = s.files[x]
    BY DEF Emptied
  <1>2. \A c \in Descriptors :
          /\ t.fds[c].open = s.fds[c].open /\ t.fds[c].obj = s.fds[c].obj /\ t.fds[c].cp = s.fds[c].cp
          /\ t.fds[c].append = s.fds[c].append /\ t.fds[c].direct = s.fds[c].direct
          /\ t.fds[c].hdr = s.fds[c].hdr /\ t.fds[c].used = s.fds[c].used
    BY DEF Emptied
  <1>3. \A c \in Descriptors :
          /\ s.fds[c].open /\ s.fds[c].obj = o => Length(t.fds[c].size) = 0
          /\ ~(s.fds[c].open /\ s.fds[c].obj = o) => t.fds[c].size = s.fds[c].size /\ t.fds[c].at = s.fds[c].at
    BY DEF Emptied
  <1>4. CoreInv(s) /\ s \in State /\ \A c \in Descriptors : Within(s, c)
    BY DEF CallInv, CoreInv
  <1>5. InUse(t) = InUse(s)
    BY <1>1 DEF InUse
  <1>6. t.files[o].exists /\ Len(t.files[o].data) = 0 /\ Length(t.files[o].size) = 0 /\ t.files[o].size # 0
    BY <1>1 DEF EmptyFile, Length, Undef
  <1>7. Handles(t)
    <2>1. \A c \in Descriptors : t.fds[c].open => t.files[t.fds[c].obj].exists
      BY <1>1, <1>2, <1>4, <1>6 DEF CoreInv, Handles
    <2> QED BY <1>2, <1>4, <2>1 DEF CoreInv, Handles
  <1>8. Caches(t)
    BY <1>1, <1>2, <1>4, <1>5 DEF CoreInv, Caches
  <1>9. Lengths(t)
    <2>1. \A x \in Objs : Length(t.files[x].size) = Len(t.files[x].data) /\ t.files[x].size # 0
      BY <1>1, <1>4, <1>6 DEF CoreInv, Lengths
    <2>2. ASSUME NEW c \in Descriptors, t.fds[c].open
          PROVE  Length(t.fds[c].size) = Len(t.files[t.fds[c].obj].data)
      <3>1. s.fds[c].open /\ t.fds[c].obj = s.fds[c].obj /\ s.fds[c].obj \in Objs
        BY <1>2, <1>4, <2>2 DEF CoreInv, Handles
      <3>2. CASE s.fds[c].obj = o
        BY <1>3, <1>6, <3>1, <3>2
      <3>3. CASE s.fds[c].obj # o
        BY <1>1, <1>3, <1>4, <3>1, <3>3 DEF CoreInv, Lengths
      <3> QED BY <3>2, <3>3
    <2> QED BY <2>1, <2>2 DEF Lengths
  <1>10. Fits(t)
    <2>1. ASSUME NEW p \in InUse(s)  PROVE t.files[s.pages[p].obj] = s.files[s.pages[p].obj]
      <3>1. p \in CachePages /\ s.pages[p].obj \in Objs
        BY <1>4, Parts DEF InUse
      <3>2. s.pages[p].obj # o
        BY <3>1 DEF PagesOf
      <3> QED BY <1>1, <3>1, <3>2
    <2> QED BY <1>1, <1>4, <1>5, <2>1 DEF CoreInv, Fits
  <1>11. ASSUME NEW c \in Descriptors  PROVE Within(t, c)
    <2> SUFFICES ASSUME t.fds[c].open, ~t.fds[c].append, t.fds[c].cp # NoPage
                 PROVE  t.fds[c].at <= Larger(Len(t.files[t.fds[c].obj].data), End(t.pages[t.fds[c].cp]))
      BY DEF Within
    <2>1. s.fds[c].open /\ s.fds[c].cp # NoPage /\ ~s.fds[c].append
      BY <1>2
    <2>2. s.fds[c].obj # o /\ s.fds[c].obj \in Objs
      BY <1>4, <2>1, OwnPage
    <2>3. /\ t.fds[c].at = s.fds[c].at /\ t.fds[c].obj = s.fds[c].obj /\ t.fds[c].cp = s.fds[c].cp
          /\ t.files[s.fds[c].obj] = s.files[s.fds[c].obj]
      BY <1>1, <1>2, <1>3, <2>2
    <2> QED BY <1>1, <1>4, <2>1, <2>3 DEF Within
  <1> QED BY <1>1, <1>7, <1>8, <1>9, <1>10, <1>11 DEF CallInv, CoreInv

\* What becomes of a truncation: it is not needed, fails, or empties the file.
LEMMA TruncatedAre ==
  ASSUME NEW s, CallInv(s), NEW d \in Descriptors, s.fds[d].open, s.fds[d].cp = NoPage,
         NEW t \in Truncated(s, d), s.fds[d].size \notin {Undef, 0} => PagesOf(s, s.fds[d].obj) = {}
  PROVE  IF s.fds[d].size \in {Undef, 0} THEN t = s
         ELSE t = Return(s, d) \/ Emptied(s, t, s.fds[d].obj)
  <1> DEFINE o == s.fds[d].obj
             empty == WithFile(s, o, EmptyFile)
             moved == TRUE
             e == Event(empty, o, Undef, moved, d)
             fd == [e.fds[d] EXCEPT !.size = 0, !.at = 0]
             u == WithFd(e, d, fd)
  <1>1. CoreInv(s) /\ s \in State /\ o \in Objs
    BY DEF CallInv, CoreInv, Handles
  <1>2. ASSUME s.fds[d].size \notin {Undef, 0}, t = [e EXCEPT !.fds[d].size = 0, !.fds[d].at = 0]
        PROVE  Emptied(s, t, o)
    <2>1. PagesOf(s, o) = {}
      BY ZenonT(60), <1>2
    <2>2. OnlyFile(s, empty, o) /\ empty.files[o] = EmptyFile
      BY <1>1, FreshIs, FileSet
    <2> HIDE DEF empty, o
    <2>3. /\ empty \in State /\ empty.fds = s.fds /\ empty.pages = s.pages
          /\ \A x \in Objs : x # o => empty.files[x] = s.files[x]
      BY <2>2 DEF OnlyFile
    <2>4. Handles(empty)
      <3>1. EmptyFile.exists
        BY DEF EmptyFile
      <3> QED BY <1>1, <2>2, <2>3, <3>1 DEF CoreInv, Handles
    <2>5. \A c \in Descriptors : s.fds[c].open /\ s.fds[c].obj = o => s.fds[c].cp = NoPage
      BY <1>1, <2>1, OwnPage
    <2> HIDE DEF moved
    <2>6. /\ e \in State /\ e.files = empty.files /\ e.pages = empty.pages
          /\ e.fds = [c \in Descriptors |-> Hearing(empty, o, Undef, c)]
      <3>1. Undef \in {Undef} \cup 1 .. MaxSize
        OBVIOUS
      <3>2. \A c \in Descriptors : empty.fds[c].open /\ empty.fds[c].obj = o /\ empty.fds[c].cp # NoPage =>
                                    Undef > 0 \/ empty.pages[empty.fds[c].cp].off <= 1
        BY <2>3, <2>5
      <3> DEFINE size == Undef
      <3>3. size \in {Undef} \cup 1 .. MaxSize
        BY <3>1
      <3>4. \A c \in Descriptors : empty.fds[c].open /\ empty.fds[c].obj = o /\ empty.fds[c].cp # NoPage =>
                                    size > 0 \/ empty.pages[empty.fds[c].cp].off <= 1
        BY <3>2
      <3> HIDE DEF size
      <3>5. LET v == Event(empty, o, size, moved, d)
            IN  /\ v \in State /\ v.files = empty.files /\ v.pages = empty.pages
                /\ v.fds = [c \in Descriptors |-> Hearing(empty, o, size, c)]
        BY <1>1, <2>3, <2>4, <3>3, <3>4, EventIs
      <3> QED BY <3>5 DEF size
    <2> HIDE DEF e
    <2>7. ASSUME NEW c \in Descriptors
          PROVE  /\ e.fds[c].open = s.fds[c].open /\ e.fds[c].obj = s.fds[c].obj /\ e.fds[c].cp = s.fds[c].cp
                 /\ e.fds[c].append = s.fds[c].append /\ e.fds[c].direct = s.fds[c].direct
                 /\ e.fds[c].hdr = s.fds[c].hdr /\ e.fds[c].used = s.fds[c].used
                 /\ s.fds[c].open /\ s.fds[c].obj = o => Length(e.fds[c].size) = 0 /\ e.fds[c].at = 0
                 /\ ~(s.fds[c].open /\ s.fds[c].obj = o) => e.fds[c] = s.fds[c]
      <3> DEFINE at == Limited(empty, c, Undef)
                 old == s.fds[c]
      <3>1. e.fds[c] = IF old.open /\ old.obj = o
                       THEN [old EXCEPT !.hdr = TRUE, !.size = Undef, !.at = at] ELSE old
        <4>1. e.fds[c] = Hearing(empty, o, Undef, c)
          BY <2>6
        <4>2. empty.fds[c] = old
          BY <2>3
        <4> HIDE DEF old, at
        <4> QED BY <4>1, <4>2 DEF Hearing, at
      <3>2. old \in FdType /\ (old.open => old.hdr)
        BY <1>1, Parts DEF CoreInv, Handles
      <3>3. old.hdr \in BOOLEAN /\ at = 0
        <4>1. old.at \in Nat /\ empty.fds[c] = old
          BY <2>3, <3>2 DEF FdType
        <4> HIDE DEF old
        <4> QED BY <3>2, <4>1 DEF Limited, Smaller, Length, Undef, FdType
      <3> HIDE DEF at, old
      <3>4. CASE old.open /\ old.obj = o
        <4>1. e.fds[c] = [old EXCEPT !.hdr = TRUE, !.size = Undef, !.at = at]
          BY <3>1, <3>4
        <4>2. /\ e.fds[c].open = old.open /\ e.fds[c].obj = old.obj /\ e.fds[c].cp = old.cp
              /\ e.fds[c].append = old.append /\ e.fds[c].direct = old.direct
              /\ e.fds[c].hdr = TRUE /\ e.fds[c].used = old.used /\ e.fds[c].size = Undef
              /\ e.fds[c].at = at
          BY <3>2, <4>1 DEF FdType
        <4> QED BY <3>2, <3>3, <3>4, <4>2 DEF old, Length
      <3>5. CASE ~(old.open /\ old.obj = o)
        BY <3>1, <3>5 DEF old
      <3> QED BY <3>4, <3>5
    <2>8. e.fds[d] \in FdType
      BY <2>6, Parts
    <2>9. /\ fd \in FdType /\ fd.size = 0 /\ fd.at = 0
          /\ fd.open = e.fds[d].open /\ fd.obj = e.fds[d].obj /\ fd.cp = e.fds[d].cp
          /\ fd.append = e.fds[d].append /\ fd.direct = e.fds[d].direct
          /\ fd.hdr = e.fds[d].hdr /\ fd.used = e.fds[d].used
      <3> DEFINE old == e.fds[d]
      <3>1. old \in FdType /\ 0 \in 0 .. MaxSize
        BY <2>8, Constants
      <3> HIDE DEF old
      <3>2. LET f == [old EXCEPT !.size = 0, !.at = 0]
            IN  /\ f \in FdType /\ f.size = 0 /\ f.at = 0
                /\ f.open = old.open /\ f.obj = old.obj /\ f.cp = old.cp
                /\ f.append = old.append /\ f.direct = old.direct
                /\ f.hdr = old.hdr /\ f.used = old.used
        BY <3>1 DEF FdType
      <3> QED BY <3>2 DEF old
    <2>0. t = u
      <3>1. t = [e EXCEPT !.fds[d].size = 0, !.fds[d].at = 0]
        BY <1>2
      <3>2. u = [e EXCEPT !.fds[d] = [e.fds[d] EXCEPT !.size = 0, !.at = 0]]
        BY DEF WithFd
      <3>3. e.fds \in [Descriptors -> FdType]
        BY <2>6, Parts
      <3> HIDE DEF u, fd
      <3>4. [e EXCEPT !.fds[d].size = 0, !.fds[d].at = 0] = [e EXCEPT !.fds[d] = [e.fds[d] EXCEPT !.size = 0, !.at = 0]]
        BY <2>6, <3>3 DEF State
      <3> QED BY <3>1, <3>2, <3>4
    <2> HIDE DEF fd
    <2>10. OnlyFd(e, u, d) /\ u.fds[d] = fd
      BY <2>6, <2>9, FdSet
    <2> HIDE DEF u
    <2>11. /\ u \in State /\ u.files = e.files /\ u.pages = e.pages
           /\ \A c \in Descriptors : c # d => u.fds[c] = e.fds[c]
      BY <2>10 DEF OnlyFd
    <2>12. ASSUME NEW c \in Descriptors
           PROVE  /\ u.fds[c].open = s.fds[c].open /\ u.fds[c].obj = s.fds[c].obj /\ u.fds[c].cp = s.fds[c].cp
                  /\ u.fds[c].append = s.fds[c].append /\ u.fds[c].direct = s.fds[c].direct
                  /\ u.fds[c].hdr = s.fds[c].hdr /\ u.fds[c].used = s.fds[c].used
                  /\ s.fds[c].open /\ s.fds[c].obj = o => Length(u.fds[c].size) = 0 /\ u.fds[c].at = 0
                  /\ ~(s.fds[c].open /\ s.fds[c].obj = o) => u.fds[c] = s.fds[c]
      <3>1. CASE c # d
        BY <2>7, <2>11, <3>1
      <3>2. CASE c = d
        <4>1. Length(0) = 0 /\ s.fds[d].open /\ s.fds[d].obj = o
          BY DEF Length, Undef, o
        <4> QED BY <2>7, <2>9, <2>10, <3>2, <4>1
      <3> QED BY <3>1, <3>2
    <2>13. Emptied(s, u, o)
      BY <2>2, <2>3, <2>6, <2>11, <2>12 DEF Emptied
    <2> QED BY <2>0, <2>13
  <1>3. IF s.fds[d].size \in {Undef, 0} THEN t = s
        ELSE t = Return(s, d) \/ t = [e EXCEPT !.fds[d].size = 0, !.fds[d].at = 0]
    BY DEF Truncated, WithFile
  <1> HIDE DEF e, o
  <1> QED BY <1>2, <1>3 DEF o

LEMMA TruncatedIs ==
  ASSUME NEW s, CallInv(s), NEW d \in Descriptors, s.fds[d].open, s.fds[d].cp = NoPage,
         NEW t \in Truncated(s, d), s.fds[d].size \notin {Undef, 0} => PagesOf(s, s.fds[d].obj) = {}
  PROVE  CallInv(t)
  <1>1. CoreInv(s) /\ s.fds[d].obj \in Objs
    BY DEF CallInv, CoreInv, Handles
  <1>2. CASE t = s
    BY <1>2
  <1>3. CASE t = Return(s, d)
    <2>1. CoreInv(Return(s, d)) /\ \A c \in Descriptors : Within(Return(s, d), c)
      BY <1>1, ReturnIs DEF CallInv
    <2> QED BY <1>3, <2>1 DEF CallInv
  <1>4. CASE s.fds[d].size \notin {Undef, 0} /\ Emptied(s, t, s.fds[d].obj)
    BY <1>1, <1>4, EmptiedInv
  <1> QED BY <1>2, <1>3, <1>4, TruncatedAre

\* Now, with file o created if need be.
Made(o) == [now EXCEPT !.files[o] = IF @.exists THEN @ ELSE EmptyFile]

LEMMA MadeIs ==
  ASSUME StateInv, NEW o \in Objs
  PROVE  /\ CallInv(Made(o)) /\ Made(o).fds = fds /\ Made(o).pages = now.pages /\ Made(o).files[o].exists
         /\ Made(o).files[o].size \in {Undef} \cup 0 .. MaxSize
         /\ IF files[o].exists THEN Made(o) = now ELSE Made(o) = WithFile(now, o, EmptyFile)
  <1> DEFINE created == [now EXCEPT !.files[o] = IF @.exists THEN @ ELSE EmptyFile]
  <1>1. /\ CallInv(now) /\ CoreInv(now) /\ now \in State /\ now.fds = fds /\ now.files = files
    BY DEF StateInv, CallInv, CoreInv, now
  <1>2. /\ CallInv(created) /\ created.fds = fds /\ created.pages = now.pages /\ created.files[o].exists
        /\ created.files[o].size \in {Undef} \cup 0 .. MaxSize
        /\ IF files[o].exists THEN created = now ELSE created = WithFile(now, o, EmptyFile)
    <2>1. CASE files[o].exists
      <3>1. created = now
        BY <1>1, <2>1 DEF State
      <3>2. files[o].size \in {Undef} \cup 0 .. MaxSize
        BY <1>1, Parts DEF FileType
      <3> QED BY <1>1, <2>1, <3>1, <3>2
    <2>2. CASE ~files[o].exists
      <3>1. created = WithFile(now, o, EmptyFile)
        BY <1>1, <2>2 DEF WithFile
      <3> DEFINE t0 == WithFile(now, o, EmptyFile)
      <3>2. \A c \in Descriptors : now.fds[c].open => now.fds[c].obj # o
        BY <1>1, <2>2 DEF CoreInv, Handles
      <3>3. CallInv(t0)
        BY <1>1, <3>2, FreshIs, Unheld DEF CallInv
      <3>4. OnlyFile(now, t0, o) /\ t0.files[o] = EmptyFile
        BY <1>1, FreshIs, FileSet
      <3>5. EmptyFile.exists /\ EmptyFile.size = Undef
        BY DEF EmptyFile
      <3> HIDE DEF t0, created
      <3>6. created = t0
        BY <3>1 DEF t0
      <3> QED BY <1>1, <2>2, <3>3, <3>4, <3>5, <3>6 DEF OnlyFile, t0
    <2> QED BY <2>1, <2>2
  <1> QED BY <1>2 DEF Made

\* What descriptor d is opened with.
Opening(fd, o, append, direct) ==
    /\ fd \in FdType /\ fd.open /\ fd.obj = o /\ fd.size = Made(o).files[o].size /\ fd.at = 0
    /\ fd.append = append /\ fd.direct = direct /\ fd.cp = NoPage /\ fd.hdr /\ fd.used

LEMMA OpenIs ==
  ASSUME Careful, StateInv, NEW o \in Objs, NEW d \in Descriptors,
         NEW append \in BOOLEAN, NEW direct \in BOOLEAN, NEW trunc \in BOOLEAN, NEW byName \in BOOLEAN,
         Open(o, d, append, direct, trunc, byName)
  PROVE  \E fd, t : /\ Opening(fd, o, append, direct) /\ CallInv(WithFd(Made(o), d, fd))
                    /\ IF trunc THEN t \in Truncated(WithFd(Made(o), d, fd), d) ELSE t = WithFd(Made(o), d, fd)
                    /\ Returns(t)
  <1> DEFINE created == Made(o)
             fd == [open |-> TRUE, obj |-> o, size |-> created.files[o].size, at |-> 0,
                    append |-> append, direct |-> direct, cp |-> created.fds[d].cp, hdr |-> TRUE,
                    used |-> created.fds[d].used \/ byName]
             opened == WithFd(created, d, fd)
  <1>1. /\ CallInv(now) /\ CoreInv(now) /\ now \in State /\ now.fds = fds /\ now.files = files
    BY DEF StateInv, CallInv, CoreInv, now
  <1>2. /\ Candidate(d, byName) /\ (byName \/ fds[d].used)
        /\ ~trunc \/ PagesOf(now, o) = {}
        /\ \A c \in Descriptors : fds[c].open /\ fds[c].obj = o => fds[c].direct = direct
    BY DEF Open, Careful, Pending
  <1>3. ~fds[d].open /\ fds[d].cp = NoPage
    BY <1>1, <1>2 DEF Candidate, CoreInv, Handles
  <1>4. PICK t \in (IF trunc THEN Truncated(opened, d) ELSE {opened}) : Returns(t)
    BY DEF Open, WithFd, Made
  <1>5. /\ CallInv(created) /\ created.fds = fds /\ created.files[o].exists
        /\ created.files[o].size \in {Undef} \cup 0 .. MaxSize
    BY MadeIs
  <1> HIDE DEF created
  <1>6. fd \in FdType /\ fd.open /\ fd.obj = o /\ fd.size = created.files[o].size
        /\ fd.cp = NoPage /\ fd.hdr /\ fd.used /\ fd.direct = direct /\ fd.at = 0 /\ fd.append = append
    <2> DEFINE size == created.files[o].size
               f == [open |-> TRUE, obj |-> o, size |-> size, at |-> 0,
                     append |-> append, direct |-> direct, cp |-> NoPage, hdr |-> TRUE, used |-> TRUE]
    <2>1. size \in {Undef} \cup 0 .. MaxSize
      BY <1>5
    <2>2. fds[d].used \/ byName = TRUE
      <3>1. fds[d].used \in BOOLEAN
        BY <1>1, Parts DEF FdType
      <3> QED BY <1>2, <3>1
    <2>3. fd = f
      BY <1>3, <1>5, <2>2
    <2> HIDE DEF size
    <2>4. /\ f \in FdType /\ f.open /\ f.obj = o /\ f.size = size
          /\ f.cp = NoPage /\ f.hdr /\ f.used /\ f.direct = direct /\ f.at = 0 /\ f.append = append
      BY <2>1, Constants DEF FdType
    <2> HIDE DEF f, fd
    <2> QED BY <2>3, <2>4 DEF size
  <1> HIDE DEF fd
  <1>7. CallInv(opened)
    <2>1. \A c \in Descriptors : created.fds[c].open /\ created.fds[c].obj = o => created.fds[c].direct = fd.direct
      BY <1>2, <1>5, <1>6
    <2> QED BY <1>3, <1>5, <1>6, <2>1, OpenedIs
  <1>8. Opening(fd, o, append, direct)
    BY <1>6 DEF Opening, created
  <1> HIDE DEF opened
  <1>9. IF trunc THEN t \in Truncated(opened, d) ELSE t = opened
    BY <1>4
  <1> QED BY Zenon, <1>4, <1>7, <1>8, <1>9 DEF opened, created

LEMMA OpenKeeps ==
  ASSUME Careful, StateInv, NEW o \in Objs, NEW d \in Descriptors,
         NEW append \in BOOLEAN, NEW direct \in BOOLEAN, NEW trunc \in BOOLEAN, NEW byName \in BOOLEAN,
         Open(o, d, append, direct, trunc, byName)
  PROVE  StateInv'
  <1>1. PICK fd, t : /\ Opening(fd, o, append, direct) /\ CallInv(WithFd(Made(o), d, fd))
                     /\ IF trunc THEN t \in Truncated(WithFd(Made(o), d, fd), d) ELSE t = WithFd(Made(o), d, fd)
                     /\ Returns(t)
    BY OpenIs
  <1> DEFINE opened == WithFd(Made(o), d, fd)
  <1>2. Made(o) \in State /\ Made(o).pages = now.pages
    BY MadeIs DEF CallInv, CoreInv
  <1>3. fd \in FdType /\ fd.open /\ fd.obj = o /\ fd.cp = NoPage
    BY <1>1 DEF Opening
  <1>4. OnlyFd(Made(o), opened, d) /\ opened.fds[d] = fd
    BY <1>2, <1>3, FdSet
  <1>5. CallInv(opened)
    BY <1>1
  <1> HIDE DEF opened
  <1>6. CallInv(t)
    <2>1. CASE ~trunc
      BY <1>1, <1>5, <2>1 DEF opened
    <2>2. CASE trunc
      <3>1. PagesOf(now, o) = {}
        BY <2>2 DEF Open, Careful, Pending
      <3>2. PagesOf(opened, opened.fds[d].obj) = {}
        BY <1>2, <1>3, <1>4, <3>1 DEF PagesOf, OnlyFd
      <3>3. t \in Truncated(opened, d) /\ opened.fds[d].open /\ opened.fds[d].cp = NoPage
        BY <1>1, <1>3, <1>4, <2>2 DEF opened
      <3> QED BY <1>5, <3>2, <3>3, TruncatedIs
    <2> QED BY <2>1, <2>2
  <1> QED BY <1>1, <1>6, Returning

-----------------------------------------------------------------------------
(* SPIFFS_fremove and SPIFFS_remove *)

LEMMA ReleasedWithin ==
  ASSUME NEW s \in State, NEW gone, NEW c \in Descriptors, Within(s, c)
  PROVE  Within(ReleaseAll(s, gone), c)
  <1> DEFINE t == ReleaseAll(s, gone)
  <1>1. /\ t \in State /\ t.files = s.files
        /\ t.fds = [d \in Descriptors |->
                       IF s.fds[d].open /\ s.fds[d].cp \in gone
                       THEN [s.fds[d] EXCEPT !.cp = NoPage] ELSE s.fds[d]]
        /\ t.pages = [p \in CachePages |->
                       IF p \in gone THEN [s.pages[p] EXCEPT !.obj = NoObj] ELSE s.pages[p]]
    BY ReleaseIs
  <1> HIDE DEF t
  <1>2. s.fds[c] \in FdType /\ s.fds[c].cp \in {NoPage} \cup CachePages
    BY Parts DEF FdType
  <1>3. CASE s.fds[c].open /\ s.fds[c].cp \in gone
    <2>1. t.fds[c].cp = NoPage
      BY <1>1, <1>2, <1>3 DEF FdType
    <2> QED BY <2>1 DEF Within, t
  <1>4. CASE ~(s.fds[c].open /\ s.fds[c].cp \in gone)
    <2>1. t.fds[c] = s.fds[c]
      BY <1>1, <1>4
    <2>2. s.fds[c].open /\ s.fds[c].cp # NoPage => t.pages[s.fds[c].cp] = s.pages[s.fds[c].cp]
      BY <1>1, <1>2, <1>4
    <2>3. Within(t, c)
      BY ZenonT(60), <1>1, <2>1, <2>2 DEF Within
    <2> QED BY <2>3 DEF t
  <1> QED BY <1>3, <1>4

\* The cache pages that go with file o, the state then, and what is left of
\* descriptor c.
Gone(s, o) == {s.fds[d].cp : d \in {c \in Descriptors : s.fds[c].open /\ s.fds[c].obj = o}} \ {NoPage}
Let(s, o) == ReleaseAll(s, Gone(s, o))
Left(a, o, c) ==
    IF a.fds[c].obj # o THEN a.fds[c]
    ELSE [FreshFd EXCEPT !.cp = a.fds[c].cp, !.used = a.fds[c].used]
Removed(s, t, o) ==
    /\ t \in State /\ t.pages = Let(s, o).pages
    /\ t.files[o] = NoFile /\ \A x \in Objs : x # o => t.files[x] = s.files[x]
    /\ \A c \in Descriptors : t.fds[c] = Left(Let(s, o), o, c)

LEMMA GoneIs ==
  ASSUME NEW s \in State, NEW o
  PROVE  /\ Gone(s, o) \in SUBSET CachePages
         /\ \A c \in Descriptors : s.fds[c].open /\ s.fds[c].obj = o /\ s.fds[c].cp # NoPage => s.fds[c].cp \in Gone(s, o)
  BY Parts DEF Gone, FdType

LEMMA RemovalIs ==
  ASSUME NEW s \in State, NEW o \in Objs
  PROVE  Removed(s, Removal(s, o), o)
  <1> DEFINE a == Let(s, o)
             t == Removal(s, o)
             filesNew == [a.files EXCEPT ![o] = NoFile]
             fdsNew == [c \in Descriptors |-> Left(a, o, c)]
  <1>1. a \in State /\ a.files = s.files
    BY ReleaseIs DEF Let
  <1>2. t = [a EXCEPT !.files = filesNew, !.fds = fdsNew]
    BY DEF Removal, Gone, Let, Left
  <1> HIDE DEF a, t
  <1>3. a.files \in [Objs -> FileType] /\ a.fds \in [Descriptors -> FdType]
    BY <1>1, Parts
  <1>4. filesNew \in [Objs -> FileType] /\ filesNew[o] = NoFile /\ \A x \in Objs : x # o => filesNew[x] = s.files[x]
    BY <1>1, <1>3, FreshIs
  <1>5. fdsNew \in [Descriptors -> FdType]
    <2>1. ASSUME NEW c \in Descriptors  PROVE Left(a, o, c) \in FdType
      <3> DEFINE fd == a.fds[c]
      <3>1. fd \in FdType /\ FreshFd \in FdType
        BY <1>3, FreshIs
      <3> HIDE DEF fd
      <3>2. fd.cp \in {NoPage} \cup CachePages /\ fd.used \in BOOLEAN
        BY <3>1 DEF FdType
      <3>3. [FreshFd EXCEPT !.cp = fd.cp, !.used = fd.used] \in FdType
        BY <3>1, <3>2 DEF FdType
      <3> QED BY <3>1, <3>3 DEF Left, fd
    <2> QED BY <2>1
  <1>6. \A c \in Descriptors : fdsNew[c] = Left(a, o, c)
    OBVIOUS
  <1> HIDE DEF filesNew, fdsNew
  <1>7. t \in State /\ t.files = filesNew /\ t.fds = fdsNew /\ t.pages = a.pages
    BY <1>1, <1>2, <1>4, <1>5 DEF State
  <1> QED BY <1>4, <1>6, <1>7 DEF Removed, a, t

LEMMA LeftIs ==
  ASSUME NEW a \in State, NEW o, NEW c \in Descriptors
  PROVE  /\ a.fds[c].obj # o => Left(a, o, c) = a.fds[c]
         /\ a.fds[c].obj = o => ~Left(a, o, c).open /\ Left(a, o, c).cp = a.fds[c].cp
  <1>1. FreshFd \in FdType /\ ~FreshFd.open
    BY FreshIs
  <1> DEFINE fd == a.fds[c]
             f == [FreshFd EXCEPT !.cp = fd.cp, !.used = fd.used]
  <1>2. ~f.open /\ f.cp = fd.cp
    <2> HIDE DEF fd
    <2> QED BY <1>1 DEF FdType
  <1>3. Left(a, o, c) = IF fd.obj # o THEN fd ELSE f
    BY DEF Left
  <1> HIDE DEF f
  <1> QED BY <1>2, <1>3

LEMMA RemovedInv ==
  ASSUME NEW s, CoreInv(s), NEW o \in Objs, NEW t, Removed(s, t, o),
         \A c \in Descriptors : Within(s, c)
  PROVE  CallInv(t)
  <1> DEFINE a == Let(s, o)
  <1>1. s \in State
    BY DEF CoreInv
  <1>2. CoreInv(a) /\ a \in State
    <2>1. CoreInv(a)
      BY <1>1, GoneIs, Releasing DEF Let
    <2> QED BY <2>1 DEF CoreInv
  <1>3. \A c \in Descriptors : Within(a, c)
    BY <1>1, ReleasedWithin DEF Let
  <1>4. a.files = s.files
    BY <1>1, ReleaseIs DEF Let
  <1>5. \A c \in Descriptors : a.fds[c].obj = o => a.fds[c].cp = NoPage
    <2> SUFFICES ASSUME NEW c \in Descriptors, a.fds[c].obj = o  PROVE a.fds[c].cp = NoPage
      OBVIOUS
    <2>1. CASE ~a.fds[c].open
      BY <1>2, <2>1 DEF CoreInv, Handles
    <2>2. CASE a.fds[c].open
      <3> DEFINE fd == s.fds[c]
      <3>1. fd \in FdType
        BY <1>1, Parts
      <3>2. a.fds[c] = IF fd.open /\ fd.cp \in Gone(s, o) THEN [fd EXCEPT !.cp = NoPage] ELSE fd
        <4> DEFINE gone == Gone(s, o)
        <4>1. a = ReleaseAll(s, gone)
          BY DEF Let
        <4> HIDE DEF a, gone, fd
        <4>2. a.fds = [x \in Descriptors |->
                          IF s.fds[x].open /\ s.fds[x].cp \in gone
                          THEN [s.fds[x] EXCEPT !.cp = NoPage] ELSE s.fds[x]]
          BY ZenonT(60), <1>1, <4>1, ReleaseIs
        <4> QED BY <4>2 DEF fd, gone
      <3>3. fd.open /\ fd.obj = o /\ fd.cp # NoPage => fd.cp \in Gone(s, o)
        BY <1>1, GoneIs
      <3> HIDE DEF fd, a
      <3>4. fd.open /\ fd.obj = o
        BY <2>2, <3>1, <3>2 DEF FdType
      <3> QED BY <3>1, <3>2, <3>3, <3>4 DEF FdType
    <2> QED BY <2>1, <2>2
  <1>6. PagesOf(a, o) = {}
    <2> SUFFICES ASSUME NEW p \in PagesOf(a, o) PROVE FALSE
      OBVIOUS
    <2>1. p # NoPage /\ \E c \in Descriptors : a.fds[c].cp = p /\ a.fds[c].obj = o
      <3> HIDE DEF a
      <3> QED BY <1>2, FoundIs
    <2> QED BY <1>5, <2>1
  <1> HIDE DEF a
  <1>7. /\ t \in State /\ t.pages = a.pages /\ t.files[o] = NoFile
        /\ \A x \in Objs : x # o => t.files[x] = a.files[x]
    BY <1>4 DEF Removed, a
  <1>8. ASSUME NEW c \in Descriptors
        PROVE  /\ a.fds[c].obj # o => t.fds[c] = a.fds[c]
               /\ a.fds[c].obj = o => ~t.fds[c].open /\ t.fds[c].cp = NoPage
    <2>1. t.fds[c] = Left(a, o, c)
      BY DEF Removed, a
    <2> QED BY <1>2, <1>5, <2>1, LeftIs
  <1>9. \A c \in Descriptors : t.fds[c].open => a.fds[c].obj # o /\ t.fds[c] = a.fds[c]
    BY <1>8
  <1>10. InUse(t) = InUse(a)
    BY <1>7 DEF InUse
  <1>11. ASSUME NEW p \in InUse(a)
         PROVE  p \in CachePages /\ a.pages[p].obj \in Objs /\ a.pages[p].obj # o
    <2>1. p \in CachePages /\ a.pages[p].obj \in Objs
      BY <1>2, Parts DEF InUse
    <2> QED BY <1>6, <2>1 DEF PagesOf
  <1>12. Handles(t)
    <2>1. \A c \in Descriptors : ~t.fds[c].open => t.fds[c].cp = NoPage
      BY <1>2, <1>8 DEF CoreInv, Handles
    <2>2. \A c \in Descriptors : t.fds[c].open =>
              /\ t.fds[c].obj \in Objs /\ t.files[t.fds[c].obj].exists
              /\ t.fds[c].used /\ t.fds[c].hdr
      BY <1>2, <1>7, <1>9 DEF CoreInv, Handles
    <2>3. ASSUME NEW b \in Descriptors, NEW c \in Descriptors,
                 t.fds[b].open, t.fds[c].open, t.fds[b].obj = t.fds[c].obj
          PROVE  t.fds[b].direct = t.fds[c].direct
      BY <1>2, <1>9, <2>3 DEF CoreInv, Handles
    <2> QED BY <2>1, <2>2, <2>3 DEF Handles
  <1>13. Caches(t)
    <2>1. \A c \in Descriptors : t.fds[c].open /\ t.fds[c].cp # NoPage =>
              t.pages[t.fds[c].cp].obj = t.fds[c].obj
      BY <1>2, <1>7, <1>9 DEF CoreInv, Caches
    <2>2. ASSUME NEW p \in InUse(t)
          PROVE  \E c \in Descriptors : t.fds[c].open /\ ~t.fds[c].direct /\ t.fds[c].cp = p
      <3>1. PICK c \in Descriptors : a.fds[c].open /\ ~a.fds[c].direct /\ a.fds[c].cp = p
        BY <1>2, <1>10 DEF CoreInv, Caches
      <3>2. a.fds[c].obj # o
        <4>1. p # NoPage
          BY <1>10, <1>11, Constants DEF CachePages, NoPage
        <4> QED BY <1>5, <3>1, <4>1
      <3> QED BY <1>8, <3>1, <3>2
    <2> QED BY <1>2, <1>7, <1>10, <2>1, <2>2 DEF CoreInv, Caches
  <1>14. Lengths(t)
    <2>1. \A x \in Objs : Length(t.files[x].size) = Len(t.files[x].data) /\ t.files[x].size # 0
      BY <1>2, <1>7, FreshIs DEF CoreInv, Lengths
    <2>2. \A c \in Descriptors : t.fds[c].open => Length(t.fds[c].size) = Len(t.files[t.fds[c].obj].data)
      BY <1>2, <1>7, <1>9 DEF CoreInv, Lengths, Handles
    <2> QED BY <2>1, <2>2 DEF Lengths
  <1>15. Fits(t)
    BY <1>2, <1>7, <1>10, <1>11 DEF CoreInv, Fits
  <1>16. ASSUME NEW c \in Descriptors  PROVE Within(t, c)
    <2> SUFFICES ASSUME t.fds[c].open  PROVE Within(t, c)
      BY DEF Within
    <2>1. a.fds[c].obj # o /\ t.fds[c] = a.fds[c] /\ a.fds[c].obj \in Objs
      BY <1>2, <1>9 DEF CoreInv, Handles
    <2>2. t.files[a.fds[c].obj] = a.files[a.fds[c].obj]
      BY <1>7, <2>1
    <2> QED BY <1>3, <1>7, <2>1, <2>2 DEF Within
  <1> QED BY <1>7, <1>12, <1>13, <1>14, <1>15, <1>16 DEF CallInv, CoreInv

LEMMA FRemoveKeeps ==
  ASSUME StateInv, NEW d \in Descriptors, FRemove(d)
  PROVE  StateInv'
  <1> DEFINE o == fds[d].obj
             p == fds[d].cp
             s == IF p = NoPage THEN now ELSE Release(now, p)
  <1>1. /\ CallInv(now) /\ CoreInv(now) /\ now \in State /\ now.fds = fds
        /\ \A c \in Descriptors : Within(now, c)
    BY DEF StateInv, CallInv, CoreInv, now
  <1>2. fds[d].open /\ Returns(Removal(s, o)) /\ o \in Objs
    BY <1>1 DEF FRemove, CoreInv, Handles
  <1>3. CoreInv(s) /\ \A c \in Descriptors : Within(s, c)
    <2>1. CASE p = NoPage
      BY <1>1, <2>1
    <2>2. CASE p # NoPage
      <3>1. {p} \in SUBSET CachePages
        BY <1>1, <1>2, <2>2, OwnPage
      <3>2. s = ReleaseAll(now, {p})
        BY <2>2 DEF Release
      <3> DEFINE t == ReleaseAll(now, {p})
      <3>3. CoreInv(t)
        BY <1>1, <3>1, Releasing
      <3>4. \A c \in Descriptors : Within(t, c)
        BY <1>1, ReleasedWithin
      <3> HIDE DEF s, t
      <3>5. s = t
        BY <3>2 DEF t
      <3> QED BY <3>3, <3>4, <3>5
    <2> QED BY <2>1, <2>2
  <1> HIDE DEF s, o
  <1>4. CallInv(Removal(s, o))
    <2>1. Removed(s, Removal(s, o), o)
      BY <1>2, <1>3, RemovalIs DEF CoreInv
    <2> QED BY <1>2, <1>3, <2>1, RemovedInv
  <1> QED BY <1>2, <1>4, Returning

\* A descriptor in use for the time of a call.
LEMMA BorrowedIs ==
  ASSUME StateInv, NEW o \in Objs, NEW d \in Descriptors, ~fds[d].open
  PROVE  /\ OnlyFd(now, Borrowed(o, d), d)
         /\ Borrowed(o, d).fds[d] = [fds[d] EXCEPT !.open = TRUE, !.obj = o, !.size = files[o].size, !.at = 0]
         /\ LET fd == Borrowed(o, d).fds[d]
            IN  fd.open /\ fd.obj = o /\ fd.cp = NoPage /\ fd.used = fds[d].used /\ fd.at = 0
  <1> DEFINE fd == [fds[d] EXCEPT !.open = TRUE, !.obj = o, !.size = files[o].size, !.at = 0]
             b == Borrowed(o, d)
  <1>1. now \in State /\ now.fds = fds /\ now.files = files /\ CoreInv(now)
    BY DEF StateInv, CallInv, CoreInv, now
  <1>2. fds[d] \in FdType /\ fds[d].cp = NoPage /\ files[o] \in FileType
    BY <1>1, Parts DEF CoreInv, Handles
  <1>3. files[o].size \in {Undef} \cup 0 .. MaxSize /\ 0 \in 0 .. MaxSize
    BY <1>2, Constants DEF FileType
  <1>4. /\ fd \in FdType /\ fd.open /\ fd.obj = o /\ fd.cp = NoPage /\ fd.used = fds[d].used /\ fd.at = 0
    BY <1>2, <1>3 DEF FdType
  <1>5. b = WithFd(now, d, fd)
    BY <1>1 DEF Borrowed, WithFd
  <1> HIDE DEF fd
  <1>6. OnlyFd(now, WithFd(now, d, fd), d) /\ WithFd(now, d, fd).fds[d] = fd
    BY <1>1, <1>4, FdSet
  <1> QED BY <1>4, <1>5, <1>6 DEF fd

\* A removal through a descriptor in use for its time, as one without it.
LEMMA RemoveIs ==
  ASSUME StateInv, NEW o \in Objs, NEW d \in Descriptors, Remove(o, d)
  PROVE  /\ CallInv(Removal(now, o)) /\ Removal(now, o).fds[d].cp = NoPage
         /\ \E g \in FdType : ~g.open /\ g.cp = NoPage /\ Returns(WithFd(Removal(now, o), d, g))
  <1> DEFINE b == Borrowed(o, d)
             g == [FreshFd EXCEPT !.cp = NoPage, !.used = fds[d].used]
             u == Removal(b, o)
             r == Removal(now, o)
             v == WithFd(r, d, g)
  <1>1. /\ CallInv(now) /\ CoreInv(now) /\ now \in State /\ now.fds = fds
        /\ \A c \in Descriptors : Within(now, c)
    BY DEF StateInv, CallInv, CoreInv, now
  <1>2. ~fds[d].open /\ fds[d].cp = NoPage /\ Returns(u)
    BY <1>1 DEF Remove, Candidate, CoreInv, Handles
  <1>3. OnlyFd(now, b, d) /\ b.fds[d].obj = o /\ b.fds[d].cp = NoPage /\ b.fds[d].used = fds[d].used
    BY ZenonT(60), <1>2, BorrowedIs
  <1> HIDE DEF b
  <1>4. b \in State /\ b.files = now.files /\ b.pages = now.pages /\ \A c \in Descriptors : c # d => b.fds[c] = fds[c]
    BY <1>1, <1>3 DEF OnlyFd
  <1>5. Gone(b, o) = Gone(now, o)
    <2>1. ASSUME NEW x \in Gone(b, o)  PROVE x \in Gone(now, o)
      <3>1. PICK c \in Descriptors : b.fds[c].open /\ b.fds[c].obj = o /\ x = b.fds[c].cp
        BY DEF Gone
      <3>2. x # NoPage
        BY DEF Gone
      <3>3. c # d
        BY <1>3, <3>1, <3>2
      <3> QED BY <1>1, <1>4, <3>1, <3>2, <3>3 DEF Gone
    <2>2. ASSUME NEW x \in Gone(now, o)  PROVE x \in Gone(b, o)
      <3>1. PICK c \in Descriptors : now.fds[c].open /\ now.fds[c].obj = o /\ x = now.fds[c].cp
        BY DEF Gone
      <3>2. x # NoPage
        BY DEF Gone
      <3>3. c # d
        BY <1>1, <1>2, <3>1
      <3> QED BY <1>1, <1>4, <3>1, <3>2, <3>3 DEF Gone
    <2> QED BY <2>1, <2>2
  <1> DEFINE gone == Gone(now, o)
             ab == Let(b, o)
             an == Let(now, o)
  <1>6. NoPage \notin gone
    BY DEF Gone
  <1>7. /\ ab \in State /\ ab.files = b.files
        /\ ab.fds = [c \in Descriptors |->
                       IF b.fds[c].open /\ b.fds[c].cp \in gone
                       THEN [b.fds[c] EXCEPT !.cp = NoPage] ELSE b.fds[c]]
        /\ ab.pages = [p \in CachePages |->
                       IF p \in gone THEN [b.pages[p] EXCEPT !.obj = NoObj] ELSE b.pages[p]]
    <2>1. ab = ReleaseAll(b, gone)
      BY <1>5 DEF Let
    <2> HIDE DEF ab, gone
    <2> QED BY <1>4, <2>1, ReleaseIs
  <1>8. /\ an \in State /\ an.files = now.files
        /\ an.fds = [c \in Descriptors |->
                       IF now.fds[c].open /\ now.fds[c].cp \in gone
                       THEN [now.fds[c] EXCEPT !.cp = NoPage] ELSE now.fds[c]]
        /\ an.pages = [p \in CachePages |->
                       IF p \in gone THEN [now.pages[p] EXCEPT !.obj = NoObj] ELSE now.pages[p]]
    <2>1. an = ReleaseAll(now, gone)
      BY DEF Let
    <2> HIDE DEF an, gone
    <2> QED BY <1>1, <2>1, ReleaseIs
  <1> HIDE DEF gone, ab, an
  <1>9. ab.pages = an.pages /\ \A c \in Descriptors : c # d => ab.fds[c] = an.fds[c]
    BY <1>1, <1>4, <1>7, <1>8
  <1>10. ab.fds[d] = b.fds[d] /\ an.fds[d] = fds[d]
    BY <1>1, <1>2, <1>3, <1>6, <1>7, <1>8
  <1>11. Removed(b, u, o) /\ Removed(now, r, o)
    BY <1>1, <1>4, RemovalIs
  <1> HIDE DEF u, r
  <1>12. CallInv(r) /\ r \in State
    <2>1. CallInv(r)
      BY <1>1, <1>11, RemovedInv
    <2> QED BY <2>1 DEF CallInv, CoreInv
  <1>13. r.fds[d].cp = NoPage
    <2>1. r.fds[d] = Left(an, o, d)
      BY <1>11 DEF Removed, an
    <2> QED BY <1>2, <1>8, <1>10, <2>1, LeftIs
  <1>14. g \in FdType /\ ~g.open /\ g.cp = NoPage
    <2>1. fds[d].used \in BOOLEAN
      BY <1>1, Parts DEF FdType
    <2> DEFINE used == fds[d].used
    <2> HIDE DEF used
    <2>2. LET f == [FreshFd EXCEPT !.cp = NoPage, !.used = used] IN f \in FdType /\ ~f.open /\ f.cp = NoPage
      BY <2>1, FreshIs DEF FdType, used
    <2> QED BY <2>2 DEF used
  <1>15. OnlyFd(r, v, d) /\ v.fds[d] = g
    <2> HIDE DEF g
    <2> QED BY <1>12, <1>14, FdSet
  <1>16. u.fds[d] = g
    <2>1. u.fds[d] = Left(ab, o, d)
      BY <1>11 DEF Removed, ab
    <2> QED BY <1>3, <1>10, <2>1 DEF Left
  <1> HIDE DEF v, g
  <1>17. u = v
    <2>1. u \in State /\ v \in State /\ v.files = r.files /\ v.pages = r.pages
      BY <1>11, <1>15 DEF OnlyFd, Removed
    <2>2. u.pages = v.pages
      BY <1>9, <1>11, <2>1 DEF Removed, ab, an
    <2>3. u.files = v.files
      <3>1. u.files \in [Objs -> FileType] /\ v.files \in [Objs -> FileType]
        BY <2>1, Parts
      <3>2. \A x \in Objs : u.files[x] = v.files[x]
        BY <1>4, <1>11, <2>1 DEF Removed
      <3> QED BY <3>1, <3>2
    <2>4. u.fds = v.fds
      <3>1. u.fds \in [Descriptors -> FdType] /\ v.fds \in [Descriptors -> FdType]
        BY <2>1, Parts
      <3>2. ASSUME NEW c \in Descriptors  PROVE u.fds[c] = v.fds[c]
        <4>1. CASE c = d
          BY <1>15, <1>16, <4>1
        <4>2. CASE c # d
          <5>1. v.fds[c] = r.fds[c]
            BY <1>15, <4>2 DEF OnlyFd
          <5>2. u.fds[c] = Left(ab, o, c) /\ r.fds[c] = Left(an, o, c)
            BY <1>11 DEF Removed, ab, an
          <5> QED BY <1>9, <4>2, <5>1, <5>2 DEF Left
        <4> QED BY <4>1, <4>2
      <3> QED BY <3>1, <3>2
    <2> QED BY <2>1, <2>2, <2>3, <2>4, StateIs
  <1>18. Returns(WithFd(r, d, g))
    BY <1>2, <1>17 DEF v
  <1>19. \E h \in FdType : ~h.open /\ h.cp = NoPage /\ Returns(WithFd(r, d, h))
    BY Zenon, <1>14, <1>18
  <1> QED BY Zenon, <1>12, <1>13, <1>19 DEF r

LEMMA RemoveKeeps ==
  ASSUME StateInv, NEW o \in Objs, NEW d \in Descriptors, Remove(o, d)
  PROVE  StateInv'
  <1>1. PICK g \in FdType : ~g.open /\ g.cp = NoPage /\ Returns(WithFd(Removal(now, o), d, g))
    BY RemoveIs
  <1>2. CallInv(Removal(now, o)) /\ Removal(now, o).fds[d].cp = NoPage
    BY RemoveIs
  <1>3. CallInv(WithFd(Removal(now, o), d, g))
    BY <1>1, <1>2, ClosedFd
  <1> QED BY <1>1, <1>3, Returning

-----------------------------------------------------------------------------
(* SPIFFS_rename *)

LEMMA ReturnedFd ==
  ASSUME NEW s \in State, NEW d \in Descriptors
  PROVE  /\ OnlyFd(s, Return(s, d), d)
         /\ ~Return(s, d).fds[d].open /\ Return(s, d).fds[d].cp = s.fds[d].cp
  <1> DEFINE fd == s.fds[d]
             g == [FreshFd EXCEPT !.obj = fd.obj, !.cp = fd.cp, !.used = fd.used]
  <1>1. fd \in FdType
    BY Parts
  <1>2. Return(s, d) = WithFd(s, d, g)
    BY DEF Return, WithFd
  <1> HIDE DEF fd
  <1>3. g \in FdType /\ ~g.open /\ g.cp = fd.cp
    BY <1>1, FreshIs DEF FdType
  <1> HIDE DEF g
  <1>4. OnlyFd(s, WithFd(s, d, g), d) /\ WithFd(s, d, g).fds[d] = g
    BY <1>3, FdSet
  <1> QED BY <1>2, <1>3, <1>4 DEF fd

\* The event of an index header written again keeps all in order.
LEMMA RewrittenInv ==
  ASSUME NEW s, CallInv(s), NEW o \in Objs, s.files[o].exists, NEW size, size = s.files[o].size,
         NEW moved, NEW caller
  PROVE  LET t == Event(s, o, size, moved, caller)
         IN  /\ CallInv(t) /\ t.files = s.files /\ t.pages = s.pages
             /\ t.fds = [d \in Descriptors |-> Hearing(s, o, size, d)]
  <1> DEFINE t == Event(s, o, size, moved, caller)
             l == Len(s.files[o].data)
  <1>1. CoreInv(s) /\ s \in State /\ \A c \in Descriptors : Within(s, c)
    BY DEF CallInv, CoreInv
  <1>2. l \in 0 .. MaxSize /\ s.files[o].size \in {Undef} \cup 0 .. MaxSize
    BY <1>1, Parts DEF FileType
  <1>3. Length(size) = l /\ size # 0
    BY <1>1 DEF CoreInv, Lengths
  <1>4. size \in {Undef} \cup 1 .. MaxSize
    BY <1>2, <1>3, Constants
  <1>5. ~(size > 0) => l = 0
    BY <1>3, <1>4, Constants DEF Length
  <1>6. ASSUME NEW c \in Descriptors, s.fds[c].open, s.fds[c].obj = o, s.fds[c].cp # NoPage
        PROVE  size > 0 \/ s.pages[s.fds[c].cp].off <= 1
    <2>1. s.fds[c].cp \in InUse(s) /\ s.pages[s.fds[c].cp].obj = o
      BY <1>1, <1>6, OwnPage DEF CoreInv, Caches
    <2>2. s.pages[s.fds[c].cp].off <= l
      BY <1>1, <2>1 DEF CoreInv, Fits
    <2>3. s.pages[s.fds[c].cp].off \in Nat
      BY <1>1, <2>1, Parts DEF InUse
    <2> HIDE DEF l
    <2> QED BY <1>5, <2>2, <2>3
  <1>7. /\ t \in State /\ t.files = s.files /\ t.pages = s.pages
        /\ t.fds = [d \in Descriptors |-> Hearing(s, o, size, d)]
    BY <1>1, <1>4, <1>6, EventIs DEF CoreInv
  <1> HIDE DEF t
  <1>8. ASSUME NEW c \in Descriptors
        PROVE  /\ t.fds[c].open = s.fds[c].open /\ t.fds[c].obj = s.fds[c].obj /\ t.fds[c].cp = s.fds[c].cp
               /\ t.fds[c].append = s.fds[c].append /\ t.fds[c].direct = s.fds[c].direct
               /\ t.fds[c].hdr = s.fds[c].hdr /\ t.fds[c].used = s.fds[c].used
               /\ t.fds[c].at <= s.fds[c].at
               /\ ~(s.fds[c].open /\ s.fds[c].obj = o) => t.fds[c].size = s.fds[c].size
               /\ s.fds[c].open /\ s.fds[c].obj = o => Length(t.fds[c].size) = l
    <2> DEFINE at == Limited(s, c, size)
               fd == s.fds[c]
    <2>1. t.fds[c] = IF fd.open /\ fd.obj = o
                     THEN [fd EXCEPT !.hdr = TRUE, !.size = size, !.at = at] ELSE fd
      <3>1. t.fds[c] = Hearing(s, o, size, c)
        BY <1>7
      <3> QED BY <3>1 DEF Hearing
    <2>2. at <= fd.at /\ fd \in FdType /\ (fd.open => fd.hdr)
      BY <1>1, <1>4, HearingType, Parts DEF CoreInv, Handles
    <2>3. fd.hdr \in BOOLEAN /\ fd.at <= fd.at
      BY <2>2 DEF FdType
    <2> HIDE DEF at, fd, l
    <2>4. CASE fd.open /\ fd.obj = o
      <3>1. t.fds[c] = [fd EXCEPT !.hdr = TRUE, !.size = size, !.at = at]
        BY <2>1, <2>4
      <3>2. /\ t.fds[c].open = fd.open /\ t.fds[c].obj = fd.obj /\ t.fds[c].cp = fd.cp
            /\ t.fds[c].append = fd.append /\ t.fds[c].direct = fd.direct
            /\ t.fds[c].hdr = TRUE /\ t.fds[c].used = fd.used /\ t.fds[c].size = size /\ t.fds[c].at = at
        BY <2>2, <3>1 DEF FdType
      <3> QED BY <1>3, <2>2, <2>3, <2>4, <3>2 DEF fd
    <2>5. CASE ~(fd.open /\ fd.obj = o)
      BY <2>1, <2>3, <2>5 DEF fd
    <2> QED BY <2>4, <2>5
  <1>9. Follows(s, t, o)
    <2>1. l >= l
      BY <1>2
    <2> QED BY ZenonT(60), <1>1, <1>3, <1>7, <1>8, <2>1 DEF Follows
  <1>10. CallInv(t)
    BY <1>1, <1>9, FollowsInv DEF CallInv
  <1> QED BY <1>7, <1>10 DEF t

\* A rename: descriptor d is free again, and the others are as they were or
\* have heard of the index header.
Renamed(t, o, d) ==
    /\ t \in State /\ t.files = now.files /\ t.pages = now.pages
    /\ ~t.fds[d].open /\ t.fds[d].cp = NoPage
    /\ \/ \A c \in Descriptors : c # d => t.fds[c] = now.fds[c]
       \/ \A c \in Descriptors : c # d => t.fds[c] = Hearing(now, o, files[o].size, c)

LEMMA RenameIs ==
  ASSUME StateInv, NEW o \in Objs, NEW d \in Descriptors, Rename(o, d)
  PROVE  \E t : Returns(t) /\ Renamed(t, o, d)
  <1> DEFINE b == Borrowed(o, d)
             moved == TRUE
             size == files[o].size
             e == Event(b, o, size, moved, d)
             u == Return(e, d)
             v == Return(b, d)
  <1>1. /\ CallInv(now) /\ CoreInv(now) /\ now \in State /\ now.fds = fds /\ now.files = files
        /\ \A c \in Descriptors : Within(now, c)
    BY DEF StateInv, CallInv, CoreInv, now
  <1>2. ~fds[d].open /\ fds[d].cp = NoPage /\ files[o].exists
    BY <1>1 DEF Rename, Candidate, CoreInv, Handles
  <1>3. Returns(u) \/ Returns(v)
    BY DEF Rename
  <1>4. OnlyFd(now, b, d) /\ b.fds[d].obj = o /\ b.fds[d].cp = NoPage
    BY Zenon, <1>2, BorrowedIs
  <1> HIDE DEF b
  <1>5. b \in State /\ b.files = now.files /\ b.pages = now.pages /\ \A c \in Descriptors : c # d => b.fds[c] = fds[c]
    BY <1>1, <1>4 DEF OnlyFd
  <1>6. CASE Returns(v)
    <2>1. OnlyFd(b, v, d) /\ ~v.fds[d].open /\ v.fds[d].cp = NoPage
      BY <1>4, <1>5, ReturnedFd
    <2> HIDE DEF v
    <2>2. Renamed(v, o, d)
      BY <1>1, <1>5, <2>1 DEF OnlyFd, Renamed
    <2> QED BY <1>6, <2>2
  <1>7. CASE Returns(u)
    <2> HIDE DEF moved
    <2>2. size \in {Undef} \cup 1 .. MaxSize
      <3>1. now.files[o] \in FileType /\ now.files[o].size # 0
        BY <1>1, Parts DEF CoreInv, Lengths
      <3> QED BY <1>1, <3>1, Constants DEF FileType
    <2>3. ASSUME NEW c \in Descriptors, b.fds[c].obj = o, b.fds[c].cp # NoPage
          PROVE  size > 0 \/ b.pages[b.fds[c].cp].off <= 1
      <3>1. c # d /\ now.fds[c].obj = o /\ now.fds[c].cp # NoPage /\ now.fds[c].cp = b.fds[c].cp
        BY <1>1, <1>4, <1>5, <2>3
      <3>2. now.fds[c].open
        BY <1>1, <3>1 DEF CoreInv, Handles
      <3> DEFINE p == now.fds[c].cp
                 off == now.pages[p].off
      <3>3. p \in InUse(now) /\ now.pages[p].obj = o
        BY <1>1, <3>1, <3>2, OwnPage DEF CoreInv, Caches
      <3>4. off <= Len(now.files[o].data) /\ Length(size) = Len(now.files[o].data)
        BY <1>1, <3>3 DEF CoreInv, Fits, Lengths
      <3>5. off \in Nat /\ off = b.pages[b.fds[c].cp].off
        BY <1>1, <1>5, <3>1, <3>3, Parts DEF InUse
      <3> HIDE DEF off
      <3>6. off <= Length(size)
        BY <3>4
      <3>7. size > 0 \/ off <= 1
        BY <2>2, <3>5, <3>6, Constants DEF Length
      <3> QED BY <3>5, <3>7
    <2> HIDE DEF size
    <2>4. /\ e \in State /\ e.files = b.files /\ e.pages = b.pages
          /\ e.fds = [c \in Descriptors |-> Heard(b, o, size, moved, d, c)]
      BY <1>5, <2>2, <2>3, EventHeard
    <2> HIDE DEF e
    <2>5. e.fds[d].cp = NoPage
      BY <1>4, <1>5, <2>2, <2>4, HeardType
    <2>6. ASSUME NEW c \in Descriptors, c # d  PROVE e.fds[c] = Hearing(now, o, size, c)
      <3>1. b.fds[c] = now.fds[c] /\ b.pages = now.pages
        BY <1>1, <1>5, <2>6
      <3>2. now.fds[c].open => now.fds[c].used
        BY <1>1 DEF CoreInv, Handles
      <3>3. Heard(b, o, size, moved, d, c) = Hearing(now, o, size, c)
        BY <3>1, <3>2 DEF Heard, Hearing, Limited
      <3> QED BY <2>4, <3>3
    <2>7. OnlyFd(e, u, d) /\ ~u.fds[d].open /\ u.fds[d].cp = NoPage
      BY <2>4, <2>5, ReturnedFd
    <2> HIDE DEF u
    <2>8. /\ u \in State /\ u.files = now.files /\ u.pages = now.pages
          /\ \A c \in Descriptors : c # d => u.fds[c] = Hearing(now, o, size, c)
      BY <1>5, <2>4, <2>6, <2>7 DEF OnlyFd
    <2>9. Renamed(u, o, d)
      BY <2>7, <2>8 DEF Renamed, size
    <2> QED BY <1>7, <2>9
  <1> QED BY <1>3, <1>6, <1>7

LEMMA RenameKeeps ==
  ASSUME StateInv, NEW o \in Objs, NEW d \in Descriptors, Rename(o, d)
  PROVE  StateInv'
  <1> DEFINE size == files[o].size
             moved == TRUE
             n == Event(now, o, size, moved, d)
  <1>1. CallInv(now) /\ CoreInv(now) /\ now.files = files /\ now.fds = fds /\ \A c \in Descriptors : Within(now, c)
    BY DEF StateInv, CallInv, CoreInv, now
  <1>2. ~fds[d].open /\ fds[d].cp = NoPage /\ files[o].exists
    BY <1>1 DEF Rename, Candidate, CoreInv, Handles
  <1>3. PICK t : Returns(t) /\ Renamed(t, o, d)
    BY RenameIs
  <1>4. /\ t \in State /\ t.files = now.files /\ t.pages = now.pages
        /\ ~t.fds[d].open /\ t.fds[d].cp = NoPage
    BY <1>3 DEF Renamed
  <1>5. CASE \A c \in Descriptors : c # d => t.fds[c] = now.fds[c]
    <2>1. CoreInv(t) /\ \A c \in Descriptors : c = d \/ Within(now, c) => Within(t, c)
      BY <1>1, <1>2, <1>4, <1>5, Closing
    <2> QED BY <1>1, <1>3, <2>1, Returning DEF CallInv
  <1>6. CASE \A c \in Descriptors : c # d => t.fds[c] = Hearing(now, o, size, c)
    <2> HIDE DEF moved
    <2>1. /\ CallInv(n) /\ n.files = now.files /\ n.pages = now.pages
          /\ n.fds = [c \in Descriptors |-> Hearing(now, o, size, c)]
      <3> HIDE DEF size
      <3>1. size = now.files[o].size
        BY <1>1 DEF size
      <3> QED BY <1>1, <1>2, <3>1, RewrittenInv
    <2> HIDE DEF n, size
    <2>2. n.fds[d].cp = NoPage
      <3>1. n.fds[d] = now.fds[d]
        BY <1>1, <1>2, <2>1 DEF Hearing
      <3> QED BY <1>1, <1>2, <3>1
    <2>3. \A c \in Descriptors : c # d => t.fds[c] = n.fds[c]
      BY <1>6, <2>1
    <2>4. CoreInv(n) /\ \A c \in Descriptors : Within(n, c)
      BY <2>1 DEF CallInv
    <2>5. CoreInv(t) /\ \A c \in Descriptors : c = d \/ Within(n, c) => Within(t, c)
      BY <1>4, <2>1, <2>2, <2>3, <2>4, Closing
    <2> QED BY <1>3, <2>4, <2>5, Returning DEF CallInv
  <1> QED BY <1>3, <1>5, <1>6 DEF Renamed

-----------------------------------------------------------------------------
(* SPIFFS_unmount *)

\* The states after the first n descriptors have been closed, for n up to m.
ClosedOne(s, d) == IF s.fds[d].open THEN {Return(r.s, d) : r \in FlushCache(s, d)} ELSE {s}
ClosedAll(S, d) == UNION {ClosedOne(s, d) : s \in S}
Closes(f, m) == f = [n \in 0 .. m |-> IF n = 0 THEN {now} ELSE ClosedAll(f[n - 1], n)]

LEMMA RemountCloses ==
  ASSUME Remount
  PROVE  \E s \in (CHOOSE f : Closes(f, D))[D] : Returns(Mounted(s))
  BY DEF Remount, Closes, ClosedAll, ClosedOne

LEMMA LeastOf ==
  ASSUME NEW T \in SUBSET Nat, T # {}
  PROVE  \E x \in T : \A y \in T : x <= y
  <1>1. PICK x \in T : \A y \in T : <<y, x>> \notin OpToRel(<, Nat)
    BY NatLessThanWellFounded, WFMin
  <1>2. \A y \in T : ~ (y < x)
    BY <1>1 DEF OpToRel
  <1> QED BY <1>2

\* The function Remount is written with is there.
LEMMA ClosesExists ==
  ASSUME NEW m \in Nat
  PROVE  \E f : Closes(f, m)
  <1> DEFINE T == {n \in Nat : ~ \E f : Closes(f, n)}
  <1>1. ASSUME T # {}  PROVE FALSE
    <2>1. PICK x \in T : \A y \in T : x <= y
      BY <1>1, LeastOf
    <2>2. CASE x = 0
      <3> DEFINE f == [n \in 0 .. 0 |-> {now}]
      <3>1. f = [n \in 0 .. 0 |-> IF n = 0 THEN {now} ELSE ClosedAll(f[n - 1], n)]
        OBVIOUS
      <3> HIDE DEF f
      <3>2. Closes(f, 0)
        BY <3>1 DEF Closes
      <3> QED BY <2>2, <3>2
    <2>3. CASE x # 0
      <3>1. x - 1 \in Nat /\ ~(x <= x - 1) /\ x \in Nat
        BY <2>3
      <3>2. PICK g : Closes(g, x - 1)
        BY <2>1, <3>1
      <3> DEFINE f == [n \in 0 .. x |-> IF n = x THEN ClosedAll(g[x - 1], x) ELSE g[n]]
                 h == [n \in 0 .. x |-> IF n = 0 THEN {now} ELSE ClosedAll(f[n - 1], n)]
      <3>3. ASSUME NEW n \in 0 .. x  PROVE f[n] = IF n = 0 THEN {now} ELSE ClosedAll(f[n - 1], n)
        <4>1. \A k \in 0 .. x - 1 : f[k] = g[k]
          BY <3>1
        <4>2. CASE n = x
          <5>1. n - 1 \in 0 .. x - 1 /\ n # 0
            BY <2>3, <3>1, <4>2
          <5> QED BY <4>1, <4>2, <5>1
        <4>3. CASE n # x
          <5>1. n \in 0 .. x - 1 /\ (n # 0 => n - 1 \in 0 .. x - 1)
            BY <3>1, <4>3
          <5>2. g = [k \in 0 .. x - 1 |-> IF k = 0 THEN {now} ELSE ClosedAll(g[k - 1], k)]
            BY <3>2 DEF Closes
          <5>3. g[n] = IF n = 0 THEN {now} ELSE ClosedAll(g[n - 1], n)
            BY <5>1, <5>2
          <5> HIDE DEF f
          <5> QED BY <4>1, <5>1, <5>3
        <4> QED BY <4>2, <4>3
      <3>4. DOMAIN f = 0 .. x /\ f = [n \in 0 .. x |-> f[n]]
        OBVIOUS
      <3> HIDE DEF f
      <3>5. f = h
        BY <3>3, <3>4
      <3>6. Closes(f, x)
        BY <3>5 DEF Closes
      <3> QED BY <3>6
    <2> QED BY <2>2, <2>3
  <1> QED BY <1>1

LEMMA ClosedOneInv ==
  ASSUME Careful, NEW s, CallInv(s), NEW d \in Descriptors, NEW t \in ClosedOne(s, d)
  PROVE  CallInv(t)
  <1>1. CoreInv(s)
    BY DEF CallInv
  <1>2. CASE ~s.fds[d].open
    BY <1>2 DEF ClosedOne
  <1>3. CASE s.fds[d].open
    <2>1. PICK r \in FlushCache(s, d) : t = Return(r.s, d)
      BY <1>3 DEF ClosedOne
    <2>2. Flushed(s, r.s, d)
      BY <1>1, <1>3, FlushCacheIs
    <2> DEFINE u == r.s
    <2> HIDE DEF u
    <2>3. Flushed(s, u, d) /\ t = Return(u, d)
      BY <2>1, <2>2 DEF u
    <2>4. CallInv(u) /\ CoreInv(u) /\ u.fds[d].cp = NoPage
      BY <2>3, FlushedInv DEF CallInv, Flushed
    <2>5. CoreInv(Return(u, d)) /\ \A c \in Descriptors : c = d \/ Within(u, c) => Within(Return(u, d), c)
      BY <2>4, ReturnIs
    <2> QED BY <2>3, <2>4, <2>5 DEF CallInv
  <1> QED BY <1>2, <1>3

\* What holds of the states after each descriptor holds of the one mounted.
LEMMA RemountIn ==
  ASSUME Remount, NEW G, now \in G[0],
         \A n \in Descriptors : \A s \in G[n - 1] : \A t \in ClosedOne(s, n) : t \in G[n]
  PROVE  \E s \in G[D] : Returns(Mounted(s))
  <1> DEFINE f == CHOOSE g : Closes(g, D)
             T == {n \in 0 .. D : ~(f[n] \subseteq G[n])}
  <1>1. \E g : Closes(g, D)
    BY ClosesExists, Constants
  <1>2. Closes(f, D)
    BY <1>1
  <1> HIDE DEF f
  <1>3. /\ f[0] = {now} /\ D \in 0 .. D
        /\ \A n \in 0 .. D : n # 0 => f[n] = ClosedAll(f[n - 1], n)
    <2> DEFINE h == [n \in 0 .. D |-> IF n = 0 THEN {now} ELSE ClosedAll(f[n - 1], n)]
    <2>1. f = h
      BY <1>2 DEF Closes
    <2>2. 0 \in 0 .. D /\ D \in 0 .. D
      BY Constants
    <2>3. \A n \in 0 .. D : h[n] = IF n = 0 THEN {now} ELSE ClosedAll(f[n - 1], n)
      OBVIOUS
    <2> HIDE DEF h
    <2> QED BY <2>1, <2>2, <2>3
  <1>4. ASSUME T # {}  PROVE FALSE
    <2>1. PICK x \in T : \A y \in T : x <= y
      <3>1. T \in SUBSET Nat
        BY Constants
      <3> QED BY <1>4, <3>1, LeastOf
    <2>2. x \in 0 .. D
      OBVIOUS
    <2>3. PICK s \in f[x] : s \notin G[x]
      OBVIOUS
    <2>4. x # 0
      BY <1>3, <2>3
    <2>5. x - 1 \in 0 .. D /\ ~(x <= x - 1) /\ x \in Descriptors
      BY <2>2, <2>4, Constants DEF Descriptors
    <2>6. \A t \in f[x - 1] : t \in G[x - 1]
      BY <2>1, <2>5
    <2>7. PICK t \in f[x - 1] : s \in ClosedOne(t, x)
      BY <1>3, <2>2, <2>3, <2>4 DEF ClosedAll
    <2> QED BY <2>3, <2>5, <2>6, <2>7
  <1>5. PICK s \in f[D] : Returns(Mounted(s))
    BY RemountCloses DEF f
  <1>6. s \in G[D]
    BY <1>3, <1>4, <1>5
  <1> QED BY <1>5, <1>6

LEMMA RemountKeeps ==
  ASSUME Careful, StateInv, Remount
  PROVE  StateInv'
  <1> DEFINE good == {s \in State : CallInv(s)}
             G == [n \in 0 .. D |-> good]
  <1>1. now \in good
    BY DEF StateInv, CallInv, CoreInv
  <1>2. ASSUME NEW n \in Descriptors, NEW s \in good, NEW t \in ClosedOne(s, n)  PROVE t \in good
    <2>1. CallInv(t)
      BY <1>2, ClosedOneInv
    <2> QED BY <2>1 DEF CallInv, CoreInv
  <1> HIDE DEF good
  <1>3. G[0] = good /\ G[D] = good /\ \A n \in Descriptors : G[n - 1] = good /\ G[n] = good
    BY Constants DEF Descriptors
  <1> HIDE DEF G
  <1>4. PICK s \in G[D] : Returns(Mounted(s))
    BY <1>1, <1>2, <1>3, RemountIn
  <1>5. CoreInv(s)
    BY <1>3 DEF good, CallInv
  <1> QED BY <1>4, <1>5, MountedIs, Returning

-----------------------------------------------------------------------------
(* The invariant and what follows from it *)

LEMMA InitKeeps ==
  ASSUME Init
  PROVE  StateInv
  <1> DEFINE filesNew == [o \in Objs |-> NoFile]
             fdsNew == [d \in Descriptors |-> FreshFd]
             pagesNew == [p \in CachePages |-> FreshPage]
  <1>1. /\ filesNew \in [Objs -> FileType] /\ fdsNew \in [Descriptors -> FdType]
        /\ pagesNew \in [CachePages -> PageType]
    BY FreshIs
  <1>2. /\ \A o \in Objs : Length(filesNew[o].size) = Len(filesNew[o].data) /\ filesNew[o].size # 0
        /\ \A d \in Descriptors : ~fdsNew[d].open /\ fdsNew[d].cp = NoPage
        /\ \A p \in CachePages : pagesNew[p].obj = NoObj
    BY FreshIs
  <1>3. files = filesNew /\ fds = fdsNew /\ pages = pagesNew /\ got = NoRead
    BY DEF Init
  <1> HIDE DEF filesNew, fdsNew, pagesNew
  <1>4. now \in State /\ now.files = filesNew /\ now.fds = fdsNew /\ now.pages = pagesNew
    BY <1>1, <1>3 DEF now, State
  <1>5. CallInv(now)
    BY <1>2, <1>4, Idle
  <1>6. got \in GotType
    BY <1>3, NoData, Constants DEF NoRead, GotType
  <1> QED BY <1>5, <1>6 DEF StateInv

LEMMA NextKeeps ==
  ASSUME Careful, StateInv, Next
  PROVE  StateInv'
  <1>1. ASSUME NEW o \in Objs, Creat(o) \/ Gc(o)  PROVE StateInv'
    BY <1>1, CreatKeeps, GcKeeps
  <1>2. ASSUME NEW o \in Objs, NEW d \in Descriptors, Remove(o, d) \/ Rename(o, d)  PROVE StateInv'
    BY <1>2, RemoveKeeps, RenameKeeps
  <1>3. ASSUME NEW o \in Objs, NEW d \in Descriptors,
               NEW append \in BOOLEAN, NEW direct \in BOOLEAN, NEW trunc \in BOOLEAN, NEW byName \in BOOLEAN,
               Open(o, d, append, direct, trunc, byName)
        PROVE  StateInv'
    BY <1>3, OpenKeeps
  <1>4. ASSUME NEW d \in Descriptors, OpenFails(d) \/ Flush(d) \/ Close(d) \/ FRemove(d)  PROVE StateInv'
    BY <1>4, OpenFailsKeeps, FlushKeeps, CloseKeeps, FRemoveKeeps
  <1>5. ASSUME NEW d \in Descriptors, NEW bytes \in Bytes, Write(d, bytes)  PROVE StateInv'
    BY <1>5, WriteKeeps
  <1>6. ASSUME NEW d \in Descriptors, NEW len \in 1 .. MaxSize, Read(d, len)  PROVE StateInv'
    BY <1>6, ReadKeeps
  <1>7. ASSUME NEW d \in Descriptors, NEW off \in 0 .. MaxSize, Seek(d, off)  PROVE StateInv'
    BY <1>7, SeekKeeps
  <1>8. ASSUME Remount \/ PowerLoss  PROVE StateInv'
    BY <1>8, RemountKeeps, PowerLossKeeps
  <1> QED BY <1>1, <1>2, <1>3, <1>4, <1>5, <1>6, <1>7, <1>8 DEF Next

LEMMA StateInvSame ==
  ASSUME StateInv, UNCHANGED vars
  PROVE  StateInv'
  <1>1. now' = now /\ got' = got
    BY DEF now, vars
  <1> QED BY <1>1 DEF StateInv

\* The inductive invariant of the calls.
THEOREM FilesCorrect ==
  ASSUME Careful
  PROVE  Spec => []StateInv
  <1>1. Init => StateInv
    BY InitKeeps
  <1>2. StateInv /\ [Next]_vars => StateInv'
    BY NextKeeps, StateInvSame
  <1> QED BY <1>1, <1>2, PTL DEF Spec

LEMMA NowState ==
  ASSUME StateInv
  PROVE  /\ CoreInv(now) /\ now \in State /\ now.files = files /\ now.fds = fds /\ now.pages = pages
         /\ files \in [Objs -> FileType] /\ fds \in [Descriptors -> FdType] /\ pages \in [CachePages -> PageType]
  <1>1. CoreInv(now) /\ now \in State /\ now.files = files /\ now.fds = fds /\ now.pages = pages
    BY DEF StateInv, CallInv, CoreInv, now
  <1> QED BY <1>1, Parts

\* Lengths, positions, cache pages and what is in them are of their types: no
\* position or length leaves a file or cache page, however large these are
\* (SPIFFS_write, SPIFFS_read, SPIFFS_lseek, spiffs_cb_object_event).
THEOREM TypesKept ==
  ASSUME Careful
  PROVE  Spec => []TypeOK
  <1>1. ASSUME StateInv  PROVE TypeOK
    BY <1>1, NowState DEF TypeOK, FileType, FdType, PageType, StateInv, GotType
  <1> QED BY <1>1, FilesCorrect, PTL

\* No open descriptor has the cache page of another file, or one let go
\* (spiffs_cache_fd_release, SPIFFS_open).
THEOREM CachePagesOwned ==
  ASSUME Careful
  PROVE  Spec => []CacheOwned
  <1>1. ASSUME StateInv  PROVE CacheOwned
    BY <1>1, NowState DEF CacheOwned, CoreInv, Caches
  <1> QED BY <1>1, FilesCorrect, PTL

\* What is cached for a file is in one cache page, and an open descriptor that
\* is not direct leads there (spiffs_fflush_cache, spiffs_cb_object_event).
THEOREM CachedReachable ==
  ASSUME Careful
  PROVE  Spec => []PendingReachable
  <1>1. ASSUME StateInv  PROVE PendingReachable
    <2>1. /\ CoreInv(now) /\ now.fds = fds /\ \A o \in Objs : \A p, q \in PagesOf(now, o) : p = q
      BY <1>1, NowState, FoundIs
    <2>2. ASSUME NEW o \in Objs  PROVE Cardinality(PagesOf(now, o)) <= 1
      <3>1. CASE PagesOf(now, o) = {}
        <4>1. Cardinality(PagesOf(now, o)) = 0
          BY <3>1, FS_EmptySet
        <4> QED BY <4>1
      <3>2. CASE PagesOf(now, o) # {}
        <4>1. PICK p \in PagesOf(now, o) : TRUE
          BY <3>2
        <4>2. PagesOf(now, o) = {p}
          BY <2>1, <4>1
        <4>3. Cardinality(PagesOf(now, o)) = 1
          BY <4>2, FS_Singleton
        <4> QED BY <4>3
      <3> QED BY <3>1, <3>2
    <2>3. \A p \in InUse(now) : \E d \in Descriptors : fds[d].open /\ ~fds[d].direct /\ fds[d].cp = p
      BY <2>1 DEF CoreInv, Caches
    <2> QED BY <2>2, <2>3 DEF PendingReachable
  <1> QED BY <1>1, FilesCorrect, PTL

\* Every open descriptor knows the length of its file, whoever changed it last
\* (spiffs_cb_object_event, spiffs_object_append).
THEOREM LengthsKnown ==
  ASSUME Careful
  PROVE  Spec => []HandleSizes
  <1>1. ASSUME StateInv  PROVE HandleSizes
    BY <1>1, NowState DEF HandleSizes, CoreInv, Lengths
  <1> QED BY <1>1, FilesCorrect, PTL

\* What is cached begins within its file or at its end, so that it can be stored
\* (SPIFFS_write, spiffs_fflush_cache).
THEOREM CachedFits ==
  ASSUME Careful
  PROVE  Spec => []PendingFits
  <1>1. ASSUME StateInv  PROVE PendingFits
    BY <1>1, NowState DEF PendingFits, CoreInv, Fits
  <1> QED BY <1>1, FilesCorrect, PTL

\* Every open descriptor knows where the index header of its file is
\* (spiffs_cb_object_event).
THEOREM HeadersKnown ==
  ASSUME Careful
  PROVE  Spec => []HeadersFresh
  <1>1. ASSUME StateInv  PROVE HeadersFresh
    BY <1>1, NowState DEF HeadersFresh, CoreInv, Handles
  <1> QED BY <1>1, FilesCorrect, PTL

-----------------------------------------------------------------------------
(* The refinement mapping of a state as a record *)

ContentOf(s, o) ==
    IF PagesOf(s, o) = {} THEN s.files[o].data
    ELSE LET page == s.pages[CHOOSE p \in PagesOf(s, o) : TRUE]
         IN  Put(s.files[o].data, page.off, page.data)
FileOf(s, o) == [exists |-> s.files[o].exists, data |-> ContentOf(s, o), kept |-> s.files[o].data]

StrayIn(s, d) ==
    /\ s.fds[d].open /\ ~s.fds[d].append
    /\ s.fds[d].cp = NoPage /\ s.fds[d].at > Len(s.files[s.fds[d].obj].data)
HandleOf(s, d) ==
    IF s.fds[d].open
    THEN [obj |-> s.fds[d].obj, append |-> s.fds[d].append,
          at |-> IF s.fds[d].append THEN 0 ELSE IF StrayIn(s, d) THEN -1 ELSE s.fds[d].at]
    ELSE [obj |-> NoObj, append |-> FALSE, at |-> 0]

FilesOf(s) == [o \in Objs |-> FileOf(s, o)]
HandlesOf(s) == [d \in Descriptors |-> HandleOf(s, d)]

LEMMA MapsNow == ByteFiles = FilesOf(now) /\ ByteHandles = HandlesOf(now)
  <1>1. ASSUME NEW o \in Objs
        PROVE  FileOf(now, o) = [exists |-> files[o].exists, data |-> Content(o), kept |-> files[o].data]
    BY DEF FileOf, ContentOf, Content, Pending, now
  <1>2. ASSUME NEW d \in Descriptors
        PROVE  HandleOf(now, d) =
                 IF fds[d].open
                 THEN [obj |-> fds[d].obj, append |-> fds[d].append,
                       at |-> IF fds[d].append THEN 0 ELSE IF Stray(d) THEN -1 ELSE fds[d].at]
                 ELSE [obj |-> NoObj, append |-> FALSE, at |-> 0]
    BY DEF HandleOf, StrayIn, Stray, now
  <1>3. ByteFiles = FilesOf(now)
    BY Zenon, <1>1 DEF ByteFiles, FilesOf
  <1>4. ByteHandles = HandlesOf(now)
    BY Zenon, <1>2 DEF ByteHandles, HandlesOf
  <1> QED BY <1>3, <1>4

\* What the mapping makes of a step to state t.
LEMMA MapsNext ==
  ASSUME NEW t \in State, Becomes(t)
  PROVE  ByteFiles' = FilesOf(t) /\ ByteHandles' = HandlesOf(t)
  <1>1. now' = t
    BY Becoming
  <1>2. ASSUME NEW o \in Objs
        PROVE  FileOf(t, o) = [exists |-> files'[o].exists, data |-> Content(o)', kept |-> files'[o].data]
    <2>1. now.pages' = t.pages /\ files' = t.files /\ pages' = t.pages
      BY <1>1 DEF now, Becomes
    <2> QED BY <2>1 DEF FileOf, ContentOf, Content, Pending, PagesOf, now
  <1>3. ASSUME NEW d \in Descriptors
        PROVE  HandleOf(t, d) =
                 IF fds'[d].open
                 THEN [obj |-> fds'[d].obj, append |-> fds'[d].append,
                       at |-> IF fds'[d].append THEN 0 ELSE IF Stray(d)' THEN -1 ELSE fds'[d].at]
                 ELSE [obj |-> NoObj, append |-> FALSE, at |-> 0]
    BY <1>1 DEF HandleOf, StrayIn, Stray, now
  <1>4. ByteFiles' = FilesOf(t)
    BY Zenon, <1>2 DEF ByteFiles, FilesOf
  <1>5. ByteHandles' = HandlesOf(t)
    BY Zenon, <1>3 DEF ByteHandles, HandlesOf
  <1> QED BY <1>4, <1>5

\* The cache page of a file is the only one, so it is the one chosen.
LEMMA ContentIs ==
  ASSUME NEW s, CoreInv(s), NEW o \in Objs, NEW p \in PagesOf(s, o)
  PROVE  ContentOf(s, o) = Put(s.files[o].data, s.pages[p].off, s.pages[p].data)
  <1> DEFINE q == CHOOSE q \in PagesOf(s, o) : TRUE
  <1>1. q \in PagesOf(s, o)
    OBVIOUS
  <1>2. q = p
    BY <1>1, FoundIs
  <1>3. PagesOf(s, o) # {}
    OBVIOUS
  <1>4. ContentOf(s, o) = Put(s.files[o].data, s.pages[q].off, s.pages[q].data)
    BY Zenon, <1>3 DEF ContentOf
  <1> HIDE DEF q
  <1> QED BY Zenon, <1>2, <1>4

LEMMA ContentSeq ==
  ASSUME NEW s, CoreInv(s), NEW o \in Objs
  PROVE  /\ ContentOf(s, o) \in Seq(Data) /\ Len(ContentOf(s, o)) \in 0 .. MaxSize
         /\ Len(s.files[o].data) <= Len(ContentOf(s, o))
         /\ PagesOf(s, o) = {} => ContentOf(s, o) = s.files[o].data
         /\ \A p \in PagesOf(s, o) : Len(ContentOf(s, o)) = Larger(Len(s.files[o].data), End(s.pages[p]))
  <1> DEFINE data == s.files[o].data
  <1>1. s \in State
    BY DEF CoreInv
  <1>2. data \in Seq(Data) /\ Len(data) \in 0 .. MaxSize
    BY <1>1, Parts
  <1>3. CASE PagesOf(s, o) = {}
    <2>1. ContentOf(s, o) = data
      BY <1>3 DEF ContentOf
    <2> HIDE DEF data
    <2> QED BY <1>2, <1>3, <2>1, Constants DEF data
  <1>4. ASSUME NEW p \in PagesOf(s, o)
        PROVE  /\ ContentOf(s, o) \in Seq(Data) /\ Len(ContentOf(s, o)) \in 0 .. MaxSize
               /\ Len(s.files[o].data) <= Len(ContentOf(s, o))
               /\ Len(ContentOf(s, o)) = Larger(Len(data), End(s.pages[p]))
    <2> DEFINE off == s.pages[p].off
               bytes == s.pages[p].data
    <2>1. p \in CachePages /\ p \in InUse(s) /\ s.pages[p].obj = o
      BY FoundIs
    <2>2. off \in Nat /\ bytes \in Seq(Data)
      BY <1>1, <2>1, Parts
    <2>3. off <= Len(data) /\ End(s.pages[p]) <= MaxSize /\ End(s.pages[p]) = off + Len(bytes)
      BY <2>1 DEF CoreInv, Fits, End
    <2>4. ContentOf(s, o) = Put(data, off, bytes)
      BY ContentIs
    <2> HIDE DEF data, off, bytes
    <2>5. /\ Put(data, off, bytes) \in Seq(Data)
          /\ Len(Put(data, off, bytes)) = Larger(Len(data), Smaller(off, Len(data)) + Len(bytes))
      BY <1>2, <2>2, PutIs
    <2>6. Smaller(off, Len(data)) = off
      BY <1>2, <2>2, <2>3 DEF Smaller
    <2> DEFINE l == Len(data)
               e == off + Len(bytes)
    <2>7. l \in 0 .. MaxSize /\ e \in Nat /\ e <= MaxSize
      BY <1>2, <2>2, <2>3
    <2>8. Len(ContentOf(s, o)) = Larger(l, e)
      BY <2>4, <2>5, <2>6
    <2>9. ContentOf(s, o) \in Seq(Data)
      BY <2>4, <2>5
    <2> HIDE DEF l, e
    <2>10. Larger(l, e) \in 0 .. MaxSize /\ l <= Larger(l, e)
      BY <2>7, Constants DEF Larger
    <2> QED BY <2>3, <2>8, <2>9, <2>10 DEF l, e, data
  <1> QED BY <1>3, <1>4

\* A position that is not beyond the end of the file and not kept by a cache page
\* is within what is read of the file.
LEMMA NotStray ==
  ASSUME NEW s, CoreInv(s), NEW c \in Descriptors, Within(s, c),
         s.fds[c].open, ~s.fds[c].append, ~StrayIn(s, c)
  PROVE  s.fds[c].at <= Len(ContentOf(s, s.fds[c].obj))
  <1> DEFINE o == s.fds[c].obj
             l == Len(s.files[o].data)
             n == Len(ContentOf(s, o))
             at == s.fds[c].at
  <1>1. o \in Objs /\ s \in State
    BY DEF CoreInv, Handles
  <1>2. l \in Nat /\ n \in Nat /\ l <= n /\ at \in Nat
    BY <1>1, ContentSeq, Parts DEF FdType
  <1>3. CASE s.fds[c].cp = NoPage
    <2>1. ~(at > l)
      BY Zenon, <1>3 DEF StrayIn
    <2> HIDE DEF l, n, at
    <2> QED BY <1>2, <2>1 DEF n, at, o
  <1>4. CASE s.fds[c].cp # NoPage
    <2>1. at <= Larger(l, End(s.pages[s.fds[c].cp]))
      BY Zenon, <1>4 DEF Within
    <2>2. s.fds[c].cp \in PagesOf(s, o)
      BY <1>4, OwnPage
    <2>3. n = Larger(l, End(s.pages[s.fds[c].cp]))
      BY Zenon, <1>1, <2>2, ContentSeq
    <2> QED BY Zenon, <2>1, <2>3
  <1> QED BY <1>3, <1>4

-----------------------------------------------------------------------------
(* What the calls of SpiffsBytes say of two states *)

\* SpiffsBytes on descriptors that keep their positions, but for those in moved.
HandleKept(s, t, d) ==
    \/ HandleOf(t, d) = HandleOf(s, d)
    \/ /\ \/ HandleOf(s, d).at = -1
          \/ HandleOf(s, d).at > Len(ContentOf(t, HandleOf(s, d).obj)) /\ HandleOf(t, d).at = -1
       /\ HandleOf(t, d) = [HandleOf(s, d) EXCEPT !.at = HandleOf(t, d).at]
KeptBut(s, t, o, moved) == \A d \in Descriptors \ moved :
    IF HandleOf(s, d).obj = o THEN HandleKept(s, t, d) ELSE HandleOf(t, d) = HandleOf(s, d)

\* Of the files only o changes, to f.
Others(s, t, o) == \A x \in Objs \ {o} : FileOf(t, x) = FileOf(s, x)
Stores(s, t, o, f) == Others(s, t, o) /\ FileOf(t, o) = f
Whole(data) == [exists |-> TRUE, data |-> data, kept |-> data]

\* Of each value there is one of some versions, and a length between theirs.
Mixed(data, versions) ==
    /\ \E v \in versions : Len(data) <= Len(v)
    /\ \E v \in versions : Len(data) >= Len(v)
    /\ \A i \in 1 .. Len(data) : \E v \in versions : i <= Len(v) /\ data[i] = v[i]

\* All that was written to o is in flash in t, or some of it is lost.
SettledIn(s, t, o) ==
    /\ Others(s, t, o)
    /\ \/ FileOf(t, o) = Whole(ContentOf(s, o))
       \/ /\ Failures # {} /\ FileOf(t, o) = Whole(t.files[o].data)
          /\ Mixed(t.files[o].data, {ContentOf(s, o), s.files[o].data})

LEMMA StoresIs ==
  ASSUME NEW t \in State, Becomes(t), NEW o \in Objs, NEW f, Stores(now, t, o, f)
  PROVE  ByteFiles' = [ByteFiles EXCEPT ![o] = f]
  <1>1. ByteFiles' = FilesOf(t) /\ ByteFiles = FilesOf(now)
    BY MapsNow, MapsNext
  <1>2. \A x \in Objs : FileOf(t, x) = IF x = o THEN f ELSE FileOf(now, x)
    BY DEF Stores, Others
  <1> QED BY Zenon, <1>1, <1>2 DEF FilesOf

LEMMA KeptIs ==
  ASSUME NEW t \in State, Becomes(t), NEW o \in Objs, NEW moved, KeptBut(now, t, o, moved)
  PROVE  Store!KeepBut(o, moved)
  <1>1. ByteFiles' = FilesOf(t) /\ ByteHandles' = HandlesOf(t) /\ ByteHandles = HandlesOf(now)
    BY MapsNow, MapsNext
  <1>2. ASSUME NEW d \in Descriptors \ moved
        PROVE  IF ByteHandles[d].obj = o THEN Store!Keeps(d) ELSE ByteHandles'[d] = ByteHandles[d]
    <2>1. ByteHandles'[d] = HandleOf(t, d) /\ ByteHandles[d] = HandleOf(now, d)
      BY <1>1 DEF HandlesOf
    <2>2. CASE HandleOf(now, d).obj = o
      <3>1. HandleKept(now, t, d)
        BY <2>2 DEF KeptBut
      <3>2. ByteFiles'[o].data = ContentOf(t, o)
        BY <1>1 DEF FilesOf, FileOf
      <3>3. Store!Keeps(d)
        BY <2>1, <2>2, <3>1, <3>2 DEF HandleKept, Store!Keeps, Store!Lost
      <3> QED BY <2>1, <2>2, <3>3
    <2>3. CASE HandleOf(now, d).obj # o
      BY <2>1, <2>3 DEF KeptBut
    <2> QED BY <2>2, <2>3
  <1> QED BY <1>2 DEF Store!KeepBut, Store!Descriptors, Descriptors

LEMMA SettledIs ==
  ASSUME NEW t \in State, Becomes(t), NEW o \in Objs, SettledIn(now, t, o)
  PROVE  Store!Settled(o)
  <1>1. ByteFiles[o].data = ContentOf(now, o) /\ ByteFiles[o].kept = now.files[o].data
    BY MapsNow DEF FilesOf, FileOf
  <1>2. CASE FileOf(t, o) = Whole(ContentOf(now, o))
    <2>1. Stores(now, t, o, Whole(ContentOf(now, o)))
      BY <1>2 DEF Stores, SettledIn
    <2>2. ByteFiles' = [ByteFiles EXCEPT ![o] = Whole(ByteFiles[o].data)]
      BY <1>1, <2>1, StoresIs
    <2> QED BY <2>2 DEF Store!Settled, Store!Becomes, Whole
  <1>3. CASE /\ Failures # {} /\ FileOf(t, o) = Whole(t.files[o].data)
             /\ Mixed(t.files[o].data, {ContentOf(now, o), now.files[o].data})
    <2> DEFINE f == Whole(t.files[o].data)
    <2>1. Stores(now, t, o, f)
      BY <1>3 DEF Stores, SettledIn
    <2>2. ByteFiles' = [ByteFiles EXCEPT ![o] = f]
      BY <2>1, StoresIs
    <2>3. o \in DOMAIN ByteFiles
      BY DEF ByteFiles
    <2>4. ByteFiles'[o] = f
      BY <2>2, <2>3
    <2>5. f.data = t.files[o].data /\ f.kept = f.data /\ f.exists
      BY DEF Whole
    <2> HIDE DEF f
    <2>6. Store!MixOf(ByteFiles'[o].data, {ByteFiles[o].data, ByteFiles[o].kept})
      BY <1>1, <1>3, <2>4, <2>5 DEF Store!MixOf, Mixed
    <2> QED BY <1>3, <2>2, <2>4, <2>5, <2>6 DEF Store!Settled
  <1> QED BY <1>2, <1>3 DEF SettledIn

-----------------------------------------------------------------------------
(* What keeps a file, and what keeps a descriptor *)

\* The pages of file x are the same, and what is in them.
SamePages(s, t, x) ==
    \A p \in CachePages :
        /\ t.pages[p].obj = x <=> s.pages[p].obj = x
        /\ s.pages[p].obj = x => t.pages[p].off = s.pages[p].off /\ t.pages[p].data = s.pages[p].data

LEMMA SameFile ==
  ASSUME NEW s, NEW t, NEW x, SamePages(s, t, x), t.files[x] = s.files[x]
  PROVE  PagesOf(t, x) = PagesOf(s, x) /\ ContentOf(t, x) = ContentOf(s, x) /\ FileOf(t, x) = FileOf(s, x)
  <1>1. PagesOf(t, x) = PagesOf(s, x)
    BY DEF PagesOf, SamePages
  <1>2. ContentOf(t, x) = ContentOf(s, x)
    <2>1. CASE PagesOf(s, x) = {}
      BY <1>1, <2>1 DEF ContentOf
    <2>2. CASE PagesOf(s, x) # {}
      <3> DEFINE q == CHOOSE q \in PagesOf(s, x) : TRUE
      <3>1. q \in CachePages /\ s.pages[q].obj = x
        BY <2>2 DEF PagesOf
      <3>2. ContentOf(t, x) = Put(t.files[x].data, t.pages[q].off, t.pages[q].data)
        BY Zenon, <1>1, <2>2 DEF ContentOf
      <3>3. ContentOf(s, x) = Put(s.files[x].data, s.pages[q].off, s.pages[q].data)
        BY Zenon, <2>2 DEF ContentOf
      <3>4. t.pages[q].off = s.pages[q].off /\ t.pages[q].data = s.pages[q].data
        BY Zenon, <3>1 DEF SamePages
      <3> QED BY Zenon, <3>2, <3>3, <3>4
    <2> QED BY <2>1, <2>2
  <1> QED BY <1>1, <1>2 DEF FileOf

LEMMA FileIs ==
  ASSUME NEW s, NEW o, PagesOf(s, o) = {}, s.files[o].exists = TRUE
  PROVE  ContentOf(s, o) = s.files[o].data /\ FileOf(s, o) = Whole(s.files[o].data)
  BY DEF ContentOf, FileOf, Whole

\* Descriptor c is of the same file, and moved only if it was beyond its end.
Steady(s, t, c) ==
    /\ t.fds[c].open = s.fds[c].open /\ t.fds[c].obj = s.fds[c].obj /\ t.fds[c].append = s.fds[c].append
    /\ s.fds[c].append \/ t.fds[c].at = s.fds[c].at \/ StrayIn(s, c)

LEMMA SteadyKept ==
  ASSUME NEW s \in State, NEW t \in State, NEW c \in Descriptors, Steady(s, t, c),
         s.fds[c].open, PagesOf(t, s.fds[c].obj) = {}
  PROVE  HandleKept(s, t, c)
  <1> DEFINE o == s.fds[c].obj
  <1>1. ContentOf(t, o) = t.files[o].data
    BY DEF ContentOf
  <1>2. HandleOf(s, c) = [obj |-> o, append |-> s.fds[c].append,
                          at |-> IF s.fds[c].append THEN 0 ELSE IF StrayIn(s, c) THEN -1 ELSE s.fds[c].at]
    BY DEF HandleOf
  <1>3. HandleOf(t, c) = [obj |-> o, append |-> s.fds[c].append,
                          at |-> IF s.fds[c].append THEN 0 ELSE IF StrayIn(t, c) THEN -1 ELSE t.fds[c].at]
    BY DEF HandleOf, Steady
  <1>4. CASE s.fds[c].append
    BY <1>2, <1>3, <1>4 DEF HandleKept
  <1>5. CASE ~s.fds[c].append /\ StrayIn(s, c)
    BY <1>2, <1>3, <1>5 DEF HandleKept
  <1>6. CASE ~s.fds[c].append /\ ~StrayIn(s, c)
    <2>1. t.fds[c].at = s.fds[c].at
      BY <1>6 DEF Steady
    <2>2. CASE StrayIn(t, c)
      <3>1. s.fds[c].at > Len(ContentOf(t, o))
        BY Zenon, <1>1, <2>1, <2>2 DEF StrayIn, Steady
      <3>2. HandleOf(s, c).at = s.fds[c].at /\ HandleOf(t, c).at = -1 /\ HandleOf(s, c).obj = o
        BY <1>2, <1>3, <1>6, <2>2
      <3>3. HandleOf(t, c) = [HandleOf(s, c) EXCEPT !.at = HandleOf(t, c).at]
        BY <1>2, <1>3
      <3> QED BY Zenon, <3>1, <3>2, <3>3 DEF HandleKept
    <2>3. CASE ~StrayIn(t, c)
      BY <1>2, <1>3, <1>6, <2>1, <2>3 DEF HandleKept
    <2> QED BY <2>2, <2>3
  <1> QED BY <1>4, <1>5, <1>6

\* A call on file o: no other file is touched, nor a descriptor of another file,
\* and those of o are steady but for d.
Touches(s, t, o, moved) ==
    /\ Others(s, t, o)
    /\ \A c \in Descriptors \ moved :
          IF s.fds[c].open /\ s.fds[c].obj = o THEN Steady(s, t, c) ELSE HandleOf(t, c) = HandleOf(s, c)

LEMMA TouchesKept ==
  ASSUME NEW s, CoreInv(s), NEW t \in State, NEW o \in Objs, NEW moved, Touches(s, t, o, moved), PagesOf(t, o) = {}
  PROVE  KeptBut(s, t, o, moved)
  <1> SUFFICES ASSUME NEW d \in Descriptors \ moved
               PROVE  IF HandleOf(s, d).obj = o THEN HandleKept(s, t, d) ELSE HandleOf(t, d) = HandleOf(s, d)
    BY Zenon DEF KeptBut
  <1>1. HandleOf(s, d).obj = IF s.fds[d].open THEN s.fds[d].obj ELSE NoObj
    BY DEF HandleOf
  <1>2. s \in State
    BY DEF CoreInv
  <1>3. CASE s.fds[d].open /\ s.fds[d].obj = o
    <2>1. Steady(s, t, d)
      BY <1>3 DEF Touches
    <2>2. HandleKept(s, t, d)
      BY <1>2, <1>3, <2>1, SteadyKept
    <2> QED BY <1>1, <1>3, <2>2
  <1>4. CASE ~(s.fds[d].open /\ s.fds[d].obj = o)
    <2>1. HandleOf(t, d) = HandleOf(s, d)
      BY <1>4 DEF Touches
    <2>2. HandleOf(s, d).obj # o
      BY <1>1, <1>4, Constants
    <2> QED BY <2>1, <2>2
  <1> QED BY <1>3, <1>4

\* Two calls in a row: a descriptor beyond the end after the first was so before.
LEMMA TouchesThen ==
  ASSUME NEW s, NEW m, NEW t, NEW o, NEW moved, Touches(s, m, o, moved), Touches(m, t, o, moved),
         \A c \in Descriptors : m.fds[c].open = s.fds[c].open /\ m.fds[c].obj = s.fds[c].obj,
         \A c \in Descriptors \ moved : s.fds[c].open /\ s.fds[c].obj = o =>
             t.fds[c].at = m.fds[c].at \/ (StrayIn(m, c) => StrayIn(s, c))
  PROVE  Touches(s, t, o, moved)
  <1>1. Others(s, t, o)
    BY DEF Touches, Others
  <1>2. ASSUME NEW c \in Descriptors \ moved
        PROVE  IF s.fds[c].open /\ s.fds[c].obj = o THEN Steady(s, t, c) ELSE HandleOf(t, c) = HandleOf(s, c)
    <2>1. CASE s.fds[c].open /\ s.fds[c].obj = o
      <3>1. Steady(s, m, c) /\ Steady(m, t, c)
        BY <2>1 DEF Touches
      <3> QED BY <2>1, <3>1 DEF Steady
    <2>2. CASE ~(s.fds[c].open /\ s.fds[c].obj = o)
      <3>1. HandleOf(m, c) = HandleOf(s, c) /\ HandleOf(t, c) = HandleOf(m, c)
        BY Zenon, <2>2 DEF Touches
      <3> QED BY <2>2, <3>1
    <2> QED BY <2>1, <2>2
  <1> QED BY <1>1, <1>2 DEF Touches

\* A descriptor that is the same, of a file of the same length.
LEMMA SameHandle ==
  ASSUME NEW s, NEW t, NEW c, t.fds[c].open = s.fds[c].open,
         s.fds[c].open => /\ t.fds[c].obj = s.fds[c].obj /\ t.fds[c].append = s.fds[c].append
                          /\ t.fds[c].at = s.fds[c].at /\ (t.fds[c].cp = NoPage <=> s.fds[c].cp = NoPage)
                          /\ Len(t.files[s.fds[c].obj].data) = Len(s.files[s.fds[c].obj].data)
  PROVE  HandleOf(t, c) = HandleOf(s, c) /\ (StrayIn(t, c) <=> StrayIn(s, c))
  <1>1. CASE s.fds[c].open
    <2>1. StrayIn(t, c) <=> StrayIn(s, c)
      BY Zenon, <1>1 DEF StrayIn
    <2> QED BY <1>1, <2>1 DEF HandleOf
  <1>2. CASE ~s.fds[c].open
    BY <1>2 DEF HandleOf, StrayIn
  <1> QED BY <1>1, <1>2

LEMMA GrownTouches ==
  ASSUME NEW s, CoreInv(s), NEW moved, \A c \in Descriptors \ moved : Within(s, c),
         NEW o \in Objs, NEW t, Grown(s, t, o)
  PROVE  Touches(s, t, o, moved)
  <1>1. s \in State /\ t \in State /\ t.pages = s.pages /\ \A x \in Objs \ {o} : t.files[x] = s.files[x]
    BY Zenon DEF Grown, CoreInv
  <1>2. Others(s, t, o)
    <2> SUFFICES ASSUME NEW x \in Objs \ {o} PROVE FileOf(t, x) = FileOf(s, x)
      BY DEF Others
    <2>1. SamePages(s, t, x)
      BY <1>1 DEF SamePages
    <2> QED BY <1>1, <2>1, SameFile
  <1>3. ASSUME NEW c \in Descriptors \ moved, s.fds[c].open, s.fds[c].obj = o  PROVE Steady(s, t, c)
    <2>1. t.fds[c].open = s.fds[c].open /\ t.fds[c].obj = s.fds[c].obj /\ t.fds[c].append = s.fds[c].append
      BY <1>1, GrownFds
    <2>2. \/ t.fds[c].at = s.fds[c].at
          \/ /\ Len(s.files[o].data) < s.fds[c].at
             /\ s.fds[c].cp # NoPage => End(s.pages[s.fds[c].cp]) < s.fds[c].at
      BY Zenon, <1>3 DEF Grown
    <2>3. CASE /\ Len(s.files[o].data) < s.fds[c].at
               /\ s.fds[c].cp # NoPage => End(s.pages[s.fds[c].cp]) < s.fds[c].at
               /\ ~s.fds[c].append
      <3> DEFINE l == Len(s.files[o].data)
                 at == s.fds[c].at
      <3>1. l \in Nat /\ at \in Nat /\ l < at
        BY <1>1, <2>3, Parts DEF FdType
      <3>2. CASE s.fds[c].cp # NoPage
        <4> DEFINE e == End(s.pages[s.fds[c].cp])
        <4>1. s.fds[c].cp \in CachePages
          BY <1>3, <3>2, OwnPage
        <4>2. e \in Nat /\ e < at
          BY <1>1, <2>3, <3>2, <4>1, Parts
        <4>3. at <= Larger(l, e)
          BY Zenon, <1>3, <2>3, <3>2 DEF Within
        <4> HIDE DEF l, at, e
        <4> QED BY <3>1, <4>2, <4>3 DEF Larger
      <3>3. CASE s.fds[c].cp = NoPage
        <4> HIDE DEF l, at
        <4>1. at > l
          BY <3>1
        <4> QED BY <1>3, <2>1, <2>3, <3>3, <4>1 DEF Steady, StrayIn, l, at
      <3> QED BY <3>2, <3>3
    <2> QED BY <2>1, <2>2, <2>3 DEF Steady
  <1>4. ASSUME NEW c \in Descriptors, ~(s.fds[c].open /\ s.fds[c].obj = o)
        PROVE  HandleOf(t, c) = HandleOf(s, c)
    <2>1. t.fds[c] = s.fds[c]
      BY Zenon, <1>4 DEF Grown
    <2>2. s.fds[c].open => s.fds[c].obj \in Objs \ {o}
      BY <1>4 DEF CoreInv, Handles
    <2>3. s.fds[c].open => t.files[s.fds[c].obj] = s.files[s.fds[c].obj]
      BY Zenon, <1>1, <2>2
    <2> QED BY <2>1, <2>3, SameHandle
  <1> QED BY <1>2, <1>3, <1>4 DEF Touches

LEMMA ReleaseTouches ==
  ASSUME NEW s, CoreInv(s), NEW o \in Objs, NEW p \in PagesOf(s, o), NEW t, t = Release(s, p)
  PROVE  /\ Touches(s, t, o, {}) /\ t \in State /\ t.files = s.files /\ PagesOf(t, o) = {}
         /\ \A c \in Descriptors :
               /\ t.fds[c].open = s.fds[c].open /\ t.fds[c].obj = s.fds[c].obj
               /\ t.fds[c].append = s.fds[c].append /\ t.fds[c].at = s.fds[c].at
               /\ s.fds[c].open /\ s.fds[c].obj = o => t.fds[c].cp = NoPage
  <1>1. /\ s \in State /\ t \in State /\ t.files = s.files
        /\ t.fds = [c \in Descriptors |-> IF s.fds[c].open /\ s.fds[c].cp \in {p}
                                          THEN [s.fds[c] EXCEPT !.cp = NoPage] ELSE s.fds[c]]
        /\ t.pages = [x \in CachePages |-> IF x \in {p} THEN [s.pages[x] EXCEPT !.obj = NoObj] ELSE s.pages[x]]
    BY ReleaseIs DEF CoreInv, Release
  <1>2. p \in CachePages /\ p # NoPage /\ s.pages[p].obj = o /\ \A q \in PagesOf(s, o) : q = p
    BY FoundIs
  <1>3. \A c \in Descriptors :
            /\ t.fds[c].open = s.fds[c].open /\ t.fds[c].obj = s.fds[c].obj
            /\ t.fds[c].append = s.fds[c].append /\ t.fds[c].at = s.fds[c].at
            /\ t.fds[c].cp = IF s.fds[c].open /\ s.fds[c].cp = p THEN NoPage ELSE s.fds[c].cp
    <2> TAKE c \in Descriptors
    <2>1. s.fds[c] \in FdType
      BY <1>1, Parts
    <2>2. t.fds[c] = IF s.fds[c].open /\ s.fds[c].cp = p THEN [s.fds[c] EXCEPT !.cp = NoPage] ELSE s.fds[c]
      BY <1>1
    <2> QED BY <2>1, <2>2 DEF FdType
  <1>4. \A x \in CachePages : t.pages[x].obj = (IF x = p THEN NoObj ELSE s.pages[x].obj)
                              /\ t.pages[x].off = s.pages[x].off /\ t.pages[x].data = s.pages[x].data
    <2> TAKE x \in CachePages
    <2>1. s.pages[x] \in PageType
      BY <1>1, Parts
    <2>2. t.pages[x] = IF x = p THEN [s.pages[x] EXCEPT !.obj = NoObj] ELSE s.pages[x]
      BY <1>1
    <2> QED BY <2>1, <2>2 DEF PageType
  <1>5. PagesOf(t, o) = {}
    BY <1>2, <1>4, Constants DEF PagesOf
  <1>6. Others(s, t, o)
    <2> SUFFICES ASSUME NEW x \in Objs \ {o} PROVE FileOf(t, x) = FileOf(s, x)
      BY DEF Others
    <2>1. SamePages(s, t, x)
      BY <1>2, <1>4, Constants DEF SamePages
    <2> QED BY <1>1, <2>1, SameFile
  <1>7. ASSUME NEW c \in Descriptors, s.fds[c].open, s.fds[c].obj = o  PROVE t.fds[c].cp = NoPage /\ Steady(s, t, c)
    <2>1. s.fds[c].cp # NoPage => s.fds[c].cp = p
      BY <1>2, <1>7, OwnPage
    <2> QED BY <1>3, <1>7, <2>1 DEF Steady
  <1>8. ASSUME NEW c \in Descriptors, ~(s.fds[c].open /\ s.fds[c].obj = o)
        PROVE  HandleOf(t, c) = HandleOf(s, c)
    <2>1. s.fds[c].open => s.fds[c].cp # p
      BY <1>2, <1>8 DEF CoreInv, Caches
    <2>2. t.fds[c].cp = s.fds[c].cp
      BY <1>3, <2>1
    <2>3. /\ t.fds[c].open = s.fds[c].open /\ t.fds[c].obj = s.fds[c].obj
          /\ t.fds[c].append = s.fds[c].append /\ t.fds[c].at = s.fds[c].at
      BY <1>3
    <2>4. Len(t.files[s.fds[c].obj].data) = Len(s.files[s.fds[c].obj].data)
      BY Zenon, <1>1
    <2> QED BY ZenonT(60), <2>2, <2>3, <2>4, SameHandle
  <1>9. Touches(s, t, o, {})
    BY <1>6, <1>7, <1>8 DEF Touches
  <1> QED BY <1>1, <1>3, <1>5, <1>7, <1>9

-----------------------------------------------------------------------------
(* What is cached for a file is written *)

LEMMA BetweenMixed ==
  ASSUME NEW S, NEW v \in Seq(S), NEW old \in Seq(S), NEW new \in Seq(S), Between(v, old, new),
         NEW versions, old \in versions, new \in versions
  PROVE  Mixed(v, versions)
  <1>1. Len(old) <= Len(v) /\ Len(v) <= Len(new)
    BY DEF Between
  <1>2. \A i \in 1 .. Len(v) : \E w \in versions : i <= Len(w) /\ v[i] = w[i]
    <2> TAKE i \in 1 .. Len(v)
    <2>1. (i <= Len(old) /\ v[i] = old[i]) \/ v[i] = new[i]
      BY DEF Between
    <2>2. i <= Len(new)
      <3> DEFINE l == Len(v)
                 n == Len(new)
      <3>1. i \in 1 .. l /\ l \in Nat /\ n \in Nat /\ l <= n
        BY <1>1
      <3> HIDE DEF l, n
      <3> QED BY <3>1 DEF n
    <2> QED BY Zenon, <2>1, <2>2
  <1> QED BY Zenon, <1>1, <1>2 DEF Mixed

\* A write within the file, or at its end, fails for want of room only.
LEMMA HydroWriteFailing ==
  ASSUME NEW s, CoreInv(s), NEW d \in Descriptors, s.fds[d].open, NEW off \in Nat,
         off <= Len(s.files[s.fds[d].obj].data), NEW bytes, NEW r \in HydroWrite(s, d, off, bytes), ~r.ok
  PROVE  Failures # {}
  <1>1. s.fds[d].hdr = TRUE
    <2>1. s.fds[d] \in FdType /\ s.fds[d].hdr
      BY Parts DEF CoreInv, Handles
    <2> QED BY <2>1 DEF FdType
  <1>2. ~(s.fds[d].size = Undef /\ off > 0)
    <2>1. Length(s.fds[d].size) = Len(s.files[s.fds[d].obj].data)
      BY DEF CoreInv, Lengths
    <2> DEFINE l == Len(s.files[s.fds[d].obj].data)
    <2>2. off <= l /\ Length(s.fds[d].size) = l
      BY <2>1
    <2> HIDE DEF l
    <2> QED BY <2>2 DEF Length
  <1> SUFFICES ASSUME Failures = {} PROVE FALSE
    OBVIOUS
  <1> DEFINE fd == s.fds[d]
             data == s.files[fd.obj].data
             inside == IF fd.size # Undef /\ off < fd.size THEN Smaller(fd.size - off, Len(bytes)) ELSE 0
             rest == SubSeq(bytes, inside + 1, Len(bytes))
             over == IF inside = 0 THEN s ELSE Modified(s, d, Put(data, off, SubSeq(bytes, 1, inside)))
             done == [s |-> Appended(over, d, over.files[fd.obj].data \o rest), ok |-> TRUE]
             none == [s |-> over, ok |-> TRUE]
             fails == AppendFails(over, d, rest)
             Error(S) == [s : S, ok : {FALSE}]
  <1>3. r \in IF ~fd.hdr \/ (fd.size = Undef /\ off > 0) THEN Error({s})
              ELSE IF rest = <<>> THEN {none} \cup Error(IF "room" \in Failures THEN {s} ELSE {})
              ELSE UNION {{done}, Error(fails), Error(IF inside > 0 /\ "room" \in Failures THEN {s} ELSE {})}
    BY Zenon DEF HydroWrite
  <1>4. fails = {}
    <2> HIDE DEF over, rest
    <2> QED BY DEF AppendFails
  <1>5. ~(~fd.hdr \/ (fd.size = Undef /\ off > 0))
    BY <1>1, <1>2
  <1> DEFINE Last == Error(IF "room" \in Failures THEN {s} ELSE {})
             LastToo == Error(IF inside > 0 /\ "room" \in Failures THEN {s} ELSE {})
             Failing == Error(fails)
  <1>6. Last = {} /\ LastToo = {}
    <2> HIDE DEF inside
    <2> QED OBVIOUS
  <1>7. Failing = {}
    <2> HIDE DEF fails
    <2> QED BY <1>4
  <1>8. r \in {none} \cup Last \/ r \in UNION {{done}, Failing, LastToo}
    <2> HIDE DEF inside, rest, over, done, none, fails
    <2> QED BY Zenon, <1>3, <1>5
  <1>9. done.ok /\ none.ok
    <2> HIDE DEF over, rest
    <2> QED OBVIOUS
  <1> HIDE DEF done, none, Last, LastToo, Failing
  <1>10. r = none \/ r = done
    BY <1>6, <1>7, <1>8
  <1> QED BY <1>9, <1>10

\* With outcome q, what was cached for file o is in flash, or some of it is lost.
Settles(s, q, o, moved) ==
    /\ q \in Outcome /\ CoreInv(q.s)
    /\ Touches(s, q.s, o, moved) /\ PagesOf(q.s, o) = {} /\ q.s.files[o].exists = TRUE
    /\ \A c \in Descriptors : q.s.fds[c].open = s.fds[c].open /\ q.s.fds[c].obj = s.fds[c].obj
    /\ IF q.ok THEN q.s.files[o].data = ContentOf(s, o)
       ELSE Failures # {} /\ Between(q.s.files[o].data, s.files[o].data, ContentOf(s, o))
    /\ PagesOf(s, o) = {} => q.ok /\ q.s.files = s.files

LEMMA Existing ==
  ASSUME NEW s, CoreInv(s), NEW d \in Descriptors, s.fds[d].open
  PROVE  s.fds[d].obj \in Objs /\ s.files[s.fds[d].obj].exists = TRUE
  <1>1. s.fds[d].obj \in Objs /\ s.files[s.fds[d].obj].exists
    BY DEF CoreInv, Handles
  <1>2. s.files[s.fds[d].obj] \in FileType
    BY <1>1, Parts DEF CoreInv
  <1> QED BY <1>1, <1>2 DEF FileType

\* A call that does nothing.
LEMMA TouchesNot ==
  ASSUME NEW s, NEW o, NEW moved
  PROVE  Touches(s, s, o, moved)
  BY DEF Touches, Others, Steady

LEMMA WriteBackSettles ==
  ASSUME Careful, NEW s, CoreInv(s), NEW moved, \A c \in Descriptors \ moved : Within(s, c),
         NEW d \in Descriptors, s.fds[d].open, NEW o, o = s.fds[d].obj,
         s.fds[d].cp = NoPage => PagesOf(s, o) = {}, NEW q \in WriteBack(s, d)
  PROVE  Settles(s, q, o, moved)
  <1> DEFINE p == s.fds[d].cp
             page == s.pages[p]
             data == s.files[o].data
  <1>1. s \in State /\ o \in Objs /\ CoreInv(s) /\ s.files[o].exists = TRUE
    BY Existing DEF CoreInv
  <1>2. q \in Outcome /\ Flushed(s, q.s, d)
    BY <1>1, WriteBackIs
  <1>3. /\ CoreInv(q.s) /\ q.s \in State
        /\ \A c \in Descriptors : q.s.fds[c].open = s.fds[c].open /\ q.s.fds[c].obj = s.fds[c].obj
        /\ PagesOf(q.s, o) = {}
    <2>1. q.s \in State
      BY <1>2 DEF Outcome
    <2> QED BY <1>2, <2>1 DEF Flushed
  <1>4. q.s.files[o].exists = TRUE
    BY <1>3, Existing
  <1>5. CASE p = NoPage
    <2>1. q = [s |-> s, ok |-> TRUE]
      BY <1>5 DEF WriteBack
    <2>2. q.s = s /\ q.ok /\ ContentOf(s, o) = data
      BY <1>5, <2>1 DEF ContentOf
    <2> HIDE DEF data
    <2> QED BY <1>2, <1>3, <1>4, <2>2, TouchesNot DEF Settles, data
  <1>6. CASE p # NoPage
    <2>1. p \in PagesOf(s, o) /\ p \in InUse(s) /\ p \in CachePages
      BY <1>1, <1>6, OwnPage
    <2>2. page.off <= Len(data) /\ End(page) <= MaxSize
      <3>1. page.obj = o
        BY <2>1 DEF PagesOf
      <3>2. page.off <= Len(s.files[page.obj].data) /\ End(page) <= MaxSize
        BY ZenonT(60), <1>1, <2>1 DEF CoreInv, Fits
      <3> QED BY <3>1, <3>2
    <2>3. page.off \in Nat /\ page.data \in Seq(Data) /\ End(page) = page.off + Len(page.data)
      BY <1>1, <2>1, Parts DEF End
    <2>4. PICK r \in HydroWrite(s, d, page.off, page.data) : q = [r EXCEPT !.s = Release(@, p)]
      BY <1>6 DEF WriteBack
    <2> DEFINE off == page.off
               bytes == page.data
               g == r.s
    <2>5. off \in Nat /\ bytes \in Seq(Data) /\ off + Len(bytes) <= MaxSize /\ off <= Len(data)
      BY <2>2, <2>3
    <2>6. ContentOf(s, o) = Put(data, off, bytes)
      BY <1>1, <2>1, ContentIs
    <2> HIDE DEF page, off, bytes, data
    <2>7. r \in HydroWrite(s, d, off, bytes)
      BY <2>4 DEF off, bytes
    <2>8. /\ r \in Outcome /\ Grown(s, g, o)
          /\ r.ok => g.files[o].data = Put(data, off, bytes)
          /\ ~r.ok => Between(g.files[o].data, data, Put(data, off, bytes))
      BY <1>1, <2>5, <2>7, HydroWriteIs DEF data
    <2>9. ~r.ok => Failures # {}
      BY <1>1, <2>5, <2>7, HydroWriteFailing DEF data
    <2>10. q.s = Release(g, p) /\ q.ok = r.ok
      BY <2>4, <2>8 DEF Outcome
    <2>11. CoreInv(g) /\ g.pages = s.pages /\ \A c \in Descriptors : g.fds[c].open = s.fds[c].open /\ g.fds[c].obj = s.fds[c].obj
      <3>1. CoreInv(g)
        BY <1>1, <2>8, GrownInv
      <3>2. g.pages = s.pages
        BY Zenon, <2>8 DEF Grown
      <3> QED BY <1>1, <2>8, <3>1, <3>2, GrownFds
    <2> HIDE DEF g
    <2>12. p \in PagesOf(g, o)
      BY <2>1, <2>11 DEF PagesOf
    <2>13. /\ Touches(g, q.s, o, moved) /\ q.s.files = g.files
           /\ \A c \in Descriptors : q.s.fds[c].at = g.fds[c].at
      <3>1. /\ Touches(g, q.s, o, {}) /\ q.s.files = g.files
            /\ \A c \in Descriptors : q.s.fds[c].at = g.fds[c].at
        BY <1>1, <2>10, <2>11, <2>12, ReleaseTouches
      <3> QED BY <3>1 DEF Touches
    <2>14. Touches(s, g, o, moved)
      BY <1>1, <2>8, GrownTouches
    <2>15. Touches(s, q.s, o, moved)
      BY <2>11, <2>13, <2>14, TouchesThen
    <2>16. IF q.ok THEN q.s.files[o].data = ContentOf(s, o)
           ELSE Failures # {} /\ Between(q.s.files[o].data, data, ContentOf(s, o))
      BY <2>6, <2>8, <2>9, <2>10, <2>13
    <2>17. PagesOf(s, o) # {}
      BY <2>1
    <2> QED BY ZenonT(60), <1>2, <1>3, <1>4, <2>15, <2>16, <2>17 DEF Settles, data
  <1> QED BY <1>5, <1>6

\* A descriptor that is given the cache page of its file reads what it did.
LEMMA AssociateTouches ==
  ASSUME NEW s, CallInv(s), NEW d \in Descriptors, s.fds[d].open, NEW o, o = s.fds[d].obj,
         NEW t, t = Associate(s, d)
  PROVE  /\ Touches(s, t, o, {}) /\ t.files = s.files /\ PagesOf(t, o) = PagesOf(s, o)
         /\ ContentOf(t, o) = ContentOf(s, o) /\ FileOf(t, o) = FileOf(s, o)
         /\ \A c \in Descriptors : t.fds[c].at = s.fds[c].at /\ (StrayIn(t, c) => StrayIn(s, c))
  <1>1. Linked(s, t, d) /\ s \in State /\ o \in Objs
    BY AssociateIs DEF CallInv, CoreInv, Handles
  <1>2. t \in State /\ t.files = s.files /\ t.pages = s.pages /\ \A c \in Descriptors : c # d => t.fds[c] = s.fds[c]
    BY <1>1 DEF Linked, OnlyFd
  <1>3. \A x : SamePages(s, t, x)
    BY <1>2 DEF SamePages
  <1>4. \A x : PagesOf(t, x) = PagesOf(s, x) /\ ContentOf(t, x) = ContentOf(s, x) /\ FileOf(t, x) = FileOf(s, x)
    BY <1>2, <1>3, SameFile
  <1>5. \A c \in Descriptors : /\ t.fds[c].at = s.fds[c].at /\ t.fds[c].append = s.fds[c].append
                               /\ t.fds[c].open = s.fds[c].open /\ t.fds[c].obj = s.fds[c].obj
    BY <1>1, <1>2 DEF Linked
  <1>6. \A c \in Descriptors : t.fds[c].cp = NoPage => s.fds[c].cp = NoPage
    BY <1>1, <1>2 DEF Linked
  <1>7. \A c \in Descriptors : StrayIn(t, c) => StrayIn(s, c)
    BY <1>2, <1>5, <1>6 DEF StrayIn
  <1>8. ASSUME NEW c \in Descriptors, ~(s.fds[c].open /\ s.fds[c].obj = o)  PROVE HandleOf(t, c) = HandleOf(s, c)
    <2>1. t.fds[c] = s.fds[c]
      BY <1>2, <1>8
    <2> QED BY <1>2, <2>1, SameHandle
  <1>9. Touches(s, t, o, {})
    BY <1>4, <1>5, <1>8 DEF Touches, Others, Steady
  <1> QED BY <1>2, <1>4, <1>5, <1>7, <1>9

LEMMA FlushSettles ==
  ASSUME Careful, NEW s, CallInv(s), NEW d \in Descriptors, s.fds[d].open, NEW o, o = s.fds[d].obj,
         NEW q \in FlushCache(s, d)
  PROVE  Settles(s, q, o, {})
  <1>1. CoreInv(s) /\ (\A c \in Descriptors : Within(s, c)) /\ o \in Objs /\ s.files[o].exists = TRUE
    BY Existing DEF CallInv
  <1>2. CASE s.fds[d].direct
    <2>1. q = [s |-> s, ok |-> TRUE]
      BY <1>2 DEF FlushCache
    <2>2. q.s = s /\ q.ok /\ q \in Outcome
      BY <1>1, <2>1 DEF Outcome, CoreInv
    <2>3. PagesOf(s, o) = {}
      BY <1>1, <1>2, DirectApart
    <2>4. ContentOf(s, o) = s.files[o].data
      BY <2>3 DEF ContentOf
    <2> QED BY <1>1, <2>2, <2>3, <2>4, TouchesNot DEF Settles
  <1>3. CASE ~s.fds[d].direct
    <2> DEFINE m == Associate(s, d)
    <2>1. q \in WriteBack(m, d)
      BY <1>3 DEF FlushCache
    <2>2. /\ Touches(s, m, o, {}) /\ m.files = s.files /\ PagesOf(m, o) = PagesOf(s, o)
          /\ ContentOf(m, o) = ContentOf(s, o)
          /\ \A c \in Descriptors : m.fds[c].at = s.fds[c].at /\ (StrayIn(m, c) => StrayIn(s, c))
      BY AssociateTouches
    <2>3. Linked(s, m, d)
      BY <1>1, AssociateIs
    <2> HIDE DEF m
    <2>4. /\ CoreInv(m) /\ m.fds[d].open /\ m.fds[d].obj = o /\ (m.fds[d].cp = NoPage => PagesOf(m, o) = {})
          /\ \A c \in Descriptors \ {d} : Within(m, c)
          /\ \A c \in Descriptors : m.fds[c].open = s.fds[c].open /\ m.fds[c].obj = s.fds[c].obj
      BY <1>1, <2>3 DEF Linked, OnlyFd
    <2>5. CASE Within(m, d)
      <3>1. Settles(m, q, o, {})
        BY <2>1, <2>4, <2>5, WriteBackSettles
      <3>2. Touches(s, q.s, o, {})
        <4>1. Touches(m, q.s, o, {})
          BY <3>1 DEF Settles
        <4> QED BY <2>2, <2>4, <4>1, TouchesThen
      <3> QED BY ZenonT(60), <2>2, <2>4, <3>1, <3>2 DEF Settles
    <2>6. CASE ~Within(m, d)
      <3>1. Settles(m, q, o, {d})
        BY <2>1, <2>4, WriteBackSettles
      <3>2. StrayIn(s, d)
        <4>1. ~m.fds[d].append /\ m.fds[d].cp # NoPage
              /\ ~(m.fds[d].at <= Larger(Len(m.files[o].data), End(m.pages[m.fds[d].cp])))
          BY <2>4, <2>6 DEF Within
        <4>2. s.fds[d].cp = NoPage
          <5>1. s.fds[d].cp # NoPage => m = s
            BY <2>3 DEF Linked
          <5> QED BY <1>1, <2>6, <5>1
        <4> DEFINE l == Len(m.files[o].data)
                   at == m.fds[d].at
                   e == End(m.pages[m.fds[d].cp])
        <4>3. m \in State /\ m.fds[d] \in FdType
          BY <2>4, Parts DEF CoreInv
        <4>4. l \in Nat /\ at \in Nat /\ e \in Nat
          <5>1. m.fds[d].cp \in CachePages /\ at \in Nat
            BY <4>1, <4>3 DEF FdType
          <5> QED BY <1>1, <4>3, <5>1, Parts
        <4>5. ~(at <= Larger(l, e))
          BY <4>1
        <4>6. s.fds[d].append = m.fds[d].append /\ s.fds[d].at = at /\ l = Len(s.files[o].data)
          BY <2>2, <2>3 DEF Linked
        <4> HIDE DEF l, at, e
        <4>7. at > l
          BY <4>4, <4>5 DEF Larger
        <4> QED BY <4>1, <4>2, <4>6, <4>7 DEF StrayIn
      <3>3. Touches(s, q.s, o, {})
        <4>1. Touches(m, q.s, o, {d}) /\ Touches(s, m, o, {d})
          BY <2>2, <3>1 DEF Settles, Touches
        <4>2. Touches(s, q.s, o, {d})
          BY <2>2, <2>4, <4>1, TouchesThen
        <4>3. Steady(s, q.s, d)
          <5>1. q.s.fds[d].open = s.fds[d].open /\ q.s.fds[d].obj = s.fds[d].obj
            BY ZenonT(60), <2>4, <3>1 DEF Settles
          <5>2. q.s.fds[d].append = s.fds[d].append
            <6>1. Flushed(m, q.s, d)
              BY <2>1, <2>4, WriteBackIs
            <6> QED BY <2>3, <6>1 DEF Flushed, Linked
          <5> QED BY <3>2, <5>1, <5>2 DEF Steady
        <4> QED BY <4>2, <4>3 DEF Touches
      <3> QED BY ZenonT(60), <2>2, <2>4, <3>1, <3>3 DEF Settles
    <2> QED BY <2>5, <2>6
  <1> QED BY <1>2, <1>3

\* What SpiffsBytes says of a call that writes what is cached for o.
LEMMA SettlesIs ==
  ASSUME NEW s, CoreInv(s), NEW o \in Objs, NEW moved, NEW q, Settles(s, q, o, moved)
  PROVE  /\ SettledIn(s, q.s, o) /\ KeptBut(s, q.s, o, moved) /\ q.s \in State
         /\ q.ok => Stores(s, q.s, o, Whole(ContentOf(s, o)))
         /\ Mixed(q.s.files[o].data, {ContentOf(s, o), s.files[o].data})
         /\ FileOf(q.s, o) = Whole(q.s.files[o].data)
  <1> DEFINE t == q.s
             v == t.files[o].data
             old == s.files[o].data
             new == ContentOf(s, o)
  <1>1. s \in State /\ t \in State /\ Touches(s, t, o, moved) /\ PagesOf(t, o) = {}
    BY DEF Settles, Outcome, CoreInv
  <1>2. KeptBut(s, t, o, moved)
    BY <1>1, TouchesKept
  <1>3. FileOf(t, o) = Whole(v)
    BY <1>1, FileIs DEF Settles
  <1>4. q.ok => v = new
    BY DEF Settles
  <1>5. v \in Seq(Data) /\ old \in Seq(Data) /\ new \in Seq(Data)
    BY <1>1, Parts, ContentSeq
  <1>6. ~q.ok => Failures # {} /\ Between(v, old, new)
    BY DEF Settles
  <1> HIDE DEF v, old, new
  <1>7. Mixed(v, {new, old})
    <2>1. CASE q.ok
      <3>1. v = new /\ Len(v) <= Len(new) /\ Len(v) >= Len(new)
        BY <1>4, <1>5, <2>1
      <3> QED BY <1>5, <3>1 DEF Mixed
    <2>2. CASE ~q.ok
      <3>1. Between(v, old, new) /\ old \in {new, old} /\ new \in {new, old}
        BY <1>6, <2>2
      <3> QED BY <1>5, <3>1, BetweenMixed
    <2> QED BY <2>1, <2>2
  <1>8. Others(s, t, o)
    BY <1>1 DEF Touches
  <1>9. SettledIn(s, t, o)
    BY <1>3, <1>4, <1>6, <1>7, <1>8 DEF SettledIn, v, old, new
  <1>10. q.ok => Stores(s, t, o, Whole(new))
    BY <1>3, <1>4, <1>8 DEF Stores
  <1> QED BY <1>1, <1>2, <1>3, <1>7, <1>9, <1>10 DEF v, old, new

-----------------------------------------------------------------------------
(* The calls that flush *)

\* An open descriptor of a file that exists, and the handle and file it is mapped to.
LEMMA OpenHandle ==
  ASSUME StateInv, NEW d \in Descriptors, fds[d].open
  PROVE  /\ fds[d].obj \in Objs /\ fds[d].obj # NoObj /\ now.fds[d] = fds[d] /\ now.files = files
         /\ ByteHandles[d] = HandleOf(now, d) /\ HandleOf(now, d).obj = fds[d].obj
         /\ HandleOf(now, d).append = fds[d].append
         /\ ByteFiles[fds[d].obj] = FileOf(now, fds[d].obj)
         /\ FileOf(now, fds[d].obj).data = ContentOf(now, fds[d].obj)
         /\ FileOf(now, fds[d].obj).kept = files[fds[d].obj].data
         /\ CallInv(now) /\ CoreInv(now) /\ now \in State
  <1>1. CallInv(now) /\ CoreInv(now) /\ now \in State /\ now.fds = fds /\ now.files = files
    BY NowState DEF StateInv
  <1>2. fds[d].obj \in Objs /\ fds[d].obj # NoObj
    BY <1>1, Existing, Constants
  <1>3. ByteHandles[d] = HandleOf(now, d) /\ ByteFiles[fds[d].obj] = FileOf(now, fds[d].obj)
    BY <1>2, MapsNow DEF HandlesOf, FilesOf
  <1> QED BY <1>1, <1>2, <1>3 DEF HandleOf, FileOf

LEMMA NowSettles ==
  ASSUME Careful, StateInv, NEW d \in Descriptors, fds[d].open, NEW r \in FlushCache(now, d)
  PROVE  Settles(now, r, fds[d].obj, {}) /\ r.s \in State /\ CoreInv(r.s)
  <1>1. CallInv(now) /\ now.fds[d] = fds[d]
    BY OpenHandle
  <1>2. Settles(now, r, fds[d].obj, {})
    BY <1>1, FlushSettles
  <1> QED BY <1>2 DEF Settles, Outcome

LEMMA FlushStep ==
  ASSUME Careful, StateInv, NEW d \in Descriptors, Flush(d)
  PROVE  Store!Flush(d)
  <1> DEFINE o == fds[d].obj
  <1>1. fds[d].open
    BY DEF Flush
  <1>2. PICK r \in FlushCache(now, d) : Returns(r.s)
    BY DEF Flush
  <1>3. Settles(now, r, o, {}) /\ r.s \in State
    BY <1>1, NowSettles
  <1>4. o \in Objs /\ o # NoObj /\ ByteHandles[d].obj = o /\ CoreInv(now)
    BY <1>1, OpenHandle
  <1>5. Becomes(r.s) /\ got' = NoRead
    BY <1>2 DEF Returns
  <1>6. SettledIn(now, r.s, o) /\ KeptBut(now, r.s, o, {})
    BY <1>3, <1>4, SettlesIs
  <1>7. Store!Settled(o) /\ Store!KeepBut(o, {})
    BY <1>3, <1>4, <1>5, <1>6, SettledIs, KeptIs
  <1> HIDE DEF o
  <1> QED BY <1>4, <1>5, <1>7 DEF Store!Flush, Store!NoRead, NoRead

\* Descriptor d alone is another one after the rest of a call.
LEMMA KeptAlone ==
  ASSUME NEW s, NEW m, NEW t, NEW o, NEW d \in Descriptors, KeptBut(s, m, o, {}),
         t.files = m.files, t.pages = m.pages, \A c \in Descriptors : c # d => t.fds[c] = m.fds[c]
  PROVE  /\ KeptBut(s, t, o, {d})
         /\ HandleOf(t, d) = HandleOf(m, d) => KeptBut(s, t, o, {})
         /\ \A x : /\ FileOf(t, x) = FileOf(m, x) /\ ContentOf(t, x) = ContentOf(m, x)
                   /\ PagesOf(t, x) = PagesOf(m, x)
  <1>1. \A x : FileOf(t, x) = FileOf(m, x) /\ ContentOf(t, x) = ContentOf(m, x) /\ PagesOf(t, x) = PagesOf(m, x)
    <2> TAKE x
    <2>1. SamePages(m, t, x) /\ t.files[x] = m.files[x]
      BY DEF SamePages
    <2> QED BY <2>1, SameFile
  <1>2. \A c \in Descriptors : c # d => HandleOf(t, c) = HandleOf(m, c)
    <2> TAKE c \in Descriptors
    <2>1. ASSUME c # d PROVE HandleOf(t, c) = HandleOf(m, c)
      <3>1. t.fds[c] = m.fds[c]
        BY <2>1
      <3> QED BY <3>1, SameHandle
    <2> QED BY <2>1
  <1>3. ASSUME NEW c \in Descriptors, HandleOf(t, c) = HandleOf(m, c)
        PROVE  IF HandleOf(s, c).obj = o THEN HandleKept(s, t, c) ELSE HandleOf(t, c) = HandleOf(s, c)
    <2>1. IF HandleOf(s, c).obj = o THEN HandleKept(s, m, c) ELSE HandleOf(m, c) = HandleOf(s, c)
      BY DEF KeptBut
    <2>2. ContentOf(t, HandleOf(s, c).obj) = ContentOf(m, HandleOf(s, c).obj)
      BY <1>1
    <2>3. HandleKept(s, m, c) => HandleKept(s, t, c)
      BY Zenon, <1>3, <2>2 DEF HandleKept
    <2> QED BY <1>3, <2>1, <2>3
  <1> QED BY <1>1, <1>2, <1>3 DEF KeptBut

LEMMA SettledAlone ==
  ASSUME NEW s, NEW m, NEW t, NEW o \in Objs, SettledIn(s, m, o), t.files = m.files,
         \A x : FileOf(t, x) = FileOf(m, x)
  PROVE  SettledIn(s, t, o)
  BY DEF SettledIn, Others

LEMMA CloseStep ==
  ASSUME Careful, StateInv, NEW d \in Descriptors, Close(d)
  PROVE  Store!Close(d) \/ Store!Flush(d)
  <1> DEFINE o == fds[d].obj
  <1>1. fds[d].open
    BY DEF Close
  <1>2. PICK r \in FlushCache(now, d) : Returns(IF r.ok THEN Return(r.s, d) ELSE r.s)
    BY DEF Close
  <1>3. Settles(now, r, o, {}) /\ r.s \in State
    BY <1>1, NowSettles
  <1>4. o \in Objs /\ o # NoObj /\ ByteHandles[d].obj = o /\ CoreInv(now) /\ ByteFiles[o].data = ContentOf(now, o)
    BY <1>1, OpenHandle
  <1>5. SettledIn(now, r.s, o) /\ KeptBut(now, r.s, o, {}) /\ (r.ok => Stores(now, r.s, o, Whole(ContentOf(now, o))))
    BY <1>3, <1>4, SettlesIs
  <1>6. CASE ~r.ok
    <2>1. Becomes(r.s) /\ got' = NoRead
      BY <1>2, <1>6 DEF Returns
    <2>2. Store!Settled(o) /\ Store!KeepBut(o, {})
      BY <1>3, <1>4, <1>5, <2>1, SettledIs, KeptIs
    <2> HIDE DEF o
    <2> QED BY <1>4, <2>1, <2>2 DEF Store!Flush, Store!NoRead, NoRead
  <1>7. CASE r.ok
    <2> DEFINE t == Return(r.s, d)
    <2>1. Becomes(t) /\ got' = NoRead
      BY <1>2, <1>7 DEF Returns
    <2>2. OnlyFd(r.s, t, d) /\ ~t.fds[d].open
      BY <1>3, ReturnedFd
    <2> HIDE DEF t
    <2>3. t \in State /\ t.files = r.s.files /\ t.pages = r.s.pages /\ \A c \in Descriptors : c # d => t.fds[c] = r.s.fds[c]
      BY <2>2 DEF OnlyFd
    <2>4. KeptBut(now, t, o, {d}) /\ \A x : FileOf(t, x) = FileOf(r.s, x)
      BY <1>5, <2>3, KeptAlone
    <2>5. Stores(now, t, o, Whole(ContentOf(now, o)))
      BY <1>5, <1>7, <2>4, <1>4 DEF Stores, Others
    <2>6. ByteFiles' = [ByteFiles EXCEPT ![o] = Whole(ByteFiles[o].data)]
      BY <1>4, <2>1, <2>3, <2>5, StoresIs
    <2>7. Store!KeepBut(o, {d})
      BY <1>4, <2>1, <2>3, <2>4, KeptIs
    <2>8. ByteHandles'[d] = [obj |-> NoObj, append |-> FALSE, at |-> 0]
      BY <2>1, <2>2, <2>3, MapsNext DEF HandlesOf, HandleOf
    <2> HIDE DEF o
    <2> QED BY <1>4, <2>1, <2>6, <2>7, <2>8 DEF Store!Close, Store!Becomes, Store!Closed, Whole, Store!NoRead, NoRead
  <1> QED BY <1>6, <1>7

\* A descriptor at x, within its file or on a cache page.
LEMMA MovedHandle ==
  ASSUME NEW m \in State, NEW d \in Descriptors, NEW x \in 0 .. MaxSize, m.fds[d].open, m.fds[d].obj \in Objs,
         x <= Len(m.files[m.fds[d].obj].data) \/ m.fds[d].cp # NoPage
  PROVE  HandleOf(MovedTo(m, d, x), d) = [obj |-> m.fds[d].obj, append |-> m.fds[d].append,
                                          at |-> IF m.fds[d].append THEN 0 ELSE x]
  <1> DEFINE t == MovedTo(m, d, x)
             l == Len(m.files[m.fds[d].obj].data)
  <1>1. OnlyFd(m, t, d) /\ t.fds[d].at = x /\ SameFd(m, t, d)
    BY MovedIs
  <1>2. /\ t.files = m.files /\ t.fds[d].open /\ t.fds[d].obj = m.fds[d].obj
        /\ t.fds[d].append = m.fds[d].append /\ t.fds[d].cp = m.fds[d].cp
    BY <1>1 DEF OnlyFd, SameFd
  <1>3. l \in Nat
    BY Parts
  <1> HIDE DEF t
  <1>4. ~StrayIn(t, d)
    <2> SUFFICES ASSUME m.fds[d].cp = NoPage, t.fds[d].at > l PROVE FALSE
      BY <1>2 DEF StrayIn
    <2>1. x <= l /\ x > l
      BY <1>1
    <2> HIDE DEF l
    <2> QED BY <1>3, <2>1
  <1> QED BY <1>1, <1>2, <1>4 DEF HandleOf, t

\* Descriptor d is moved to x, within its file, after what is cached was written.
LEMMA SettledMoved ==
  ASSUME Careful, StateInv, NEW d \in Descriptors, fds[d].open, NEW r \in FlushCache(now, d),
         NEW x \in 0 .. MaxSize, x <= Len(r.s.files[fds[d].obj].data), NEW t, t = MovedTo(r.s, d, x), Becomes(t)
  PROVE  /\ Store!Settled(fds[d].obj) /\ Store!KeepBut(fds[d].obj, {d})
         /\ ByteHandles'[d] = IF fds[d].append THEN ByteHandles[d] ELSE [ByteHandles[d] EXCEPT !.at = x]
         /\ ByteFiles'[fds[d].obj].data = r.s.files[fds[d].obj].data
  <1> DEFINE o == fds[d].obj
             m == r.s
  <1>1. o \in Objs /\ o # NoObj /\ ByteHandles[d] = HandleOf(now, d) /\ CoreInv(now) /\ now.fds[d] = fds[d]
    BY OpenHandle
  <1>2. Settles(now, r, o, {}) /\ m \in State
    BY NowSettles
  <1>3. SettledIn(now, m, o) /\ KeptBut(now, m, o, {})
    BY <1>1, <1>2, SettlesIs
  <1>4. m.fds[d].open /\ m.fds[d].obj = o /\ m.fds[d].append = fds[d].append
    BY <1>1, NowFlushes DEF Flushed
  <1>5. t \in State /\ t.files = m.files /\ t.pages = m.pages /\ \A c \in Descriptors : c # d => t.fds[c] = m.fds[c]
    BY <1>2, MovedIs DEF OnlyFd
  <1> HIDE DEF m
  <1>6. KeptBut(now, t, o, {d}) /\ \A y : FileOf(t, y) = FileOf(m, y) /\ ContentOf(t, y) = ContentOf(m, y)
    <2>1. KeptBut(now, t, o, {d})
      BY <1>3, <1>5, KeptAlone
    <2>2. \A y : SamePages(m, t, y) /\ t.files[y] = m.files[y]
      BY <1>5 DEF SamePages
    <2>3. \A y : FileOf(t, y) = FileOf(m, y) /\ ContentOf(t, y) = ContentOf(m, y)
      BY <2>2, SameFile
    <2> QED BY <2>1, <2>3
  <1>7. SettledIn(now, t, o)
    BY <1>1, <1>3, <1>5, <1>6, SettledAlone
  <1>8. ByteHandles'[d] = HandleOf(t, d) /\ ByteFiles'[o] = FileOf(t, o)
    BY <1>1, <1>5, MapsNext DEF HandlesOf, FilesOf
  <1>9. HandleOf(t, d) = [obj |-> o, append |-> fds[d].append, at |-> IF fds[d].append THEN 0 ELSE x]
    <2>1. x <= Len(m.files[m.fds[d].obj].data)
      BY <1>4 DEF m
    <2> QED BY <1>1, <1>2, <1>4, <2>1, MovedHandle DEF m
  <1>10. HandleOf(now, d) = [obj |-> o, append |-> fds[d].append, at |-> HandleOf(now, d).at]
         /\ (fds[d].append => HandleOf(now, d).at = 0)
    BY <1>1 DEF HandleOf
  <1>11. FileOf(t, o).data = m.files[o].data
    <2>1. PagesOf(m, o) = {}
      BY <1>2 DEF Settles, m
    <2> QED BY ZenonT(60), <1>6, <2>1 DEF FileOf, ContentOf
  <1>12. Store!Settled(o) /\ Store!KeepBut(o, {d})
    BY <1>1, <1>5, <1>6, <1>7, SettledIs, KeptIs
  <1> HIDE DEF o
  <1> QED BY <1>1, <1>8, <1>9, <1>10, <1>11, <1>12 DEF o, m

LEMMA SeekStep ==
  ASSUME Careful, StateInv, NEW d \in Descriptors, NEW off \in 0 .. MaxSize, Seek(d, off)
  PROVE  Store!Seek(d, off)
  <1> DEFINE o == fds[d].obj
  <1>1. fds[d].open
    BY DEF Seek
  <1>2. PICK r \in FlushCache(now, d) :
           Returns([r.s EXCEPT !.fds[d].at = Smaller(off, Length(r.s.fds[d].size))])
    BY DEF Seek
  <1> DEFINE l == Len(r.s.files[o].data)
             x == Smaller(off, l)
             t == MovedTo(r.s, d, x)
  <1>3. Flushed(now, r.s, d) /\ CoreInv(r.s)
    BY <1>1, NowFlushes
  <1>4. o \in Objs /\ o # NoObj /\ ByteHandles[d].obj = o /\ ByteHandles[d].append = fds[d].append /\ now.fds[d] = fds[d]
    BY <1>1, OpenHandle
  <1>5. r.s.fds[d].open /\ r.s.fds[d].obj = o
    BY <1>1, <1>3, <1>4 DEF Flushed
  <1>6. Length(r.s.fds[d].size) = l /\ l \in 0 .. MaxSize
    BY ZenonT(60), <1>3, <1>4, <1>5, Parts DEF CoreInv, Lengths
  <1>7. Becomes(t) /\ got' = NoRead
    BY <1>2, <1>6 DEF Returns, MovedTo, WithFd
  <1>8. x \in 0 .. MaxSize /\ x <= l
    <2> HIDE DEF l
    <2> QED BY <1>6, Constants DEF Smaller
  <1> HIDE DEF t, x, l
  <1>9. /\ Store!Settled(o) /\ Store!KeepBut(o, {d})
        /\ ByteHandles'[d] = IF fds[d].append THEN ByteHandles[d] ELSE [ByteHandles[d] EXCEPT !.at = x]
        /\ ByteFiles'[o].data = r.s.files[o].data
    BY <1>1, <1>7, <1>8, SettledMoved DEF t, l
  <1>10. Len(ByteFiles'[o].data) = l
    BY Zenon, <1>9 DEF l
  <1>11. x = Store!Shorter(off, Len(ByteFiles'[o].data))
    BY <1>10 DEF x, Smaller, Store!Shorter
  <1> HIDE DEF o
  <1>12. ByteHandles'[d] = IF ByteHandles[d].append THEN ByteHandles[d]
                           ELSE [ByteHandles[d] EXCEPT !.at = Store!Shorter(off, Len(ByteFiles'[o].data))]
    BY Zenon, <1>4, <1>9, <1>11
  <1> QED BY Zenon, <1>4, <1>7, <1>9, <1>12 DEF Store!Seek, Store!NoRead, NoRead

\* What SPIFFS_read takes of a file from a position on.
LEMMA PieceIs ==
  ASSUME NEW S, NEW data \in Seq(S), NEW at \in Nat, NEW len \in Nat, NEW q,
         q = SubSeq(data, at + 1, at + Smaller(len, Len(data) - at))
  PROVE  /\ q = SubSeq(data, at + 1, Store!Shorter(at + len, Len(data)))
         /\ q = <<>> \/ (Len(q) \in Nat /\ at + Len(q) <= Len(data))
  <1> DEFINE l == Len(data)
             b == at + Smaller(len, l - at)
             a == at + 1
  <1>1. l \in Nat
    OBVIOUS
  <1>2. q = SubSeq(data, a, b)
    OBVIOUS
  <1> HIDE DEF l
  <1>3. b = Store!Shorter(at + len, l) /\ b \in Int /\ b <= l /\ a \in Nat \ {0} /\ a = at + 1
    BY <1>1 DEF Smaller, Store!Shorter
  <1> HIDE DEF a, b
  <1>4. q = SubSeq(data, at + 1, Store!Shorter(at + len, l))
    BY <1>2, <1>3
  <1>5. CASE a <= b
    <2>1. b \in Nat
      BY <1>3, <1>5
    <2>2. Len(q) = b - a + 1
      BY ZenonT(60), <1>2, <1>3, <1>5, <2>1, Cut DEF l
    <2> DEFINE n == Len(q)
    <2>3. n = b - a + 1
      BY <2>2
    <2> HIDE DEF n
    <2>4. n \in Nat /\ at + n <= l
      <3>1. ASSUME NEW x \in Nat, NEW y \in Nat \ {0}, NEW z \in Nat, NEW w \in Nat,
                   y = x + 1, y <= z, z <= w, n = z - y + 1
            PROVE  n \in Nat /\ x + n <= w
        BY <3>1
      <3>2. at \in Nat /\ a \in Nat \ {0} /\ a = at + 1 /\ b <= l
        BY Zenon, <1>3
      <3> QED BY Zenon, <1>1, <1>5, <2>1, <2>3, <3>1, <3>2
    <2> QED BY ZenonT(60), <1>4, <2>4 DEF n, l
  <1>6. CASE ~(a <= b)
    <2>1. SubSeq(data, a, b) = <<>>
      BY <1>3, <1>6
    <2> QED BY <1>2, <1>4, <2>1 DEF l
  <1> QED BY <1>5, <1>6

\* The position SpiffsBytes reads from: that of the descriptor, if it is not lost.
LEMMA ReadFrom ==
  ASSUME StateInv, NEW d \in Descriptors, fds[d].open, ~fds[d].append,
         NEW at \in 0 .. MaxSize, at = fds[d].at \/ StrayIn(now, d)
  PROVE  at \in (IF ByteHandles[d].at = Store!Lost THEN 0 .. MaxSize ELSE {ByteHandles[d].at})
  <1>1. ByteHandles[d] = HandleOf(now, d) /\ now.fds[d] = fds[d]
    BY OpenHandle
  <1>2. ByteHandles[d].at = IF StrayIn(now, d) THEN -1 ELSE fds[d].at
    BY <1>1 DEF HandleOf
  <1> QED BY <1>2 DEF Store!Lost

LEMMA ReadStep ==
  ASSUME Careful, Uses = {}, StateInv, NEW d \in Descriptors, NEW len \in 1 .. MaxSize, Read(d, len)
  PROVE  Store!Read(d, len)
  <1> DEFINE o == fds[d].obj
  <1>1. fds[d].open /\ ~fds[d].append
    BY DEF Read
  <1>2. /\ o \in Objs /\ o # NoObj /\ ByteHandles[d] = HandleOf(now, d) /\ ByteHandles[d].obj = o
        /\ ByteHandles[d].append = fds[d].append
        /\ now.fds = fds /\ CoreInv(now) /\ now \in State /\ now.files = files
    BY <1>1, OpenHandle, NowState
  <1>3. len \in Nat
    BY Constants
  <1>4. CASE fds[d].size = Undef
    <2>1. Becomes(now) /\ got' = [obj |-> o, data |-> <<>>] /\ ~Pending(o)
      BY <1>4 DEF Read
    <2>2. PagesOf(now, o) = {} /\ files[o].exists = TRUE
      BY <1>1, <1>2, <2>1, Existing DEF Pending
    <2>3. FileOf(now, o) = Whole(files[o].data) /\ ContentOf(now, o) = files[o].data
      BY <1>2, <2>2, FileIs
    <2>4. SettledIn(now, now, o)
      BY <2>3 DEF SettledIn, Others
    <2>5. KeptBut(now, now, o, {})
      BY DEF KeptBut, HandleKept
    <2>6. Store!Settled(o) /\ Store!KeepBut(o, {})
      BY <1>2, <2>1, <2>4, <2>5, SettledIs, KeptIs
    <2> DEFINE data == ByteFiles'[o].data
               at == fds[d].at
    <2>7. data = files[o].data
      <3>1. ByteFiles' = FilesOf(now)
        BY <1>2, <2>1, MapsNext
      <3> QED BY <1>2, <2>3, <3>1 DEF FilesOf, Whole
    <2>8. data \in Seq(Data) /\ Len(data) = 0
      <3>1. Length(fds[d].size) = Len(files[o].data)
        BY <1>1, <1>2 DEF CoreInv, Lengths
      <3>2. files[o].data \in Seq(Data)
        BY <1>2, Parts
      <3> QED BY <1>4, <2>7, <3>1, <3>2 DEF Length
    <2>9. at \in 0 .. MaxSize
      BY <1>2, Parts DEF FdType
    <2>10. at \in (IF ByteHandles[d].at = Store!Lost THEN 0 .. MaxSize ELSE {ByteHandles[d].at})
      BY <1>1, <2>9, ReadFrom
    <2>11. got' = [obj |-> o, data |-> SubSeq(data, at + 1, Store!Shorter(at + len, Len(data)))]
           /\ SubSeq(data, at + 1, Store!Shorter(at + len, Len(data))) = <<>>
      <3> HIDE DEF data, at
      <3>1. SubSeq(data, at + 1, Store!Shorter(at + len, Len(data))) = <<>>
        BY <1>3, <2>8, <2>9, Constants DEF Store!Shorter
      <3> QED BY <2>1, <3>1
    <2>12. got'.obj = o
      BY <2>1
    <2> HIDE DEF o
    <2> QED BY Zenon, <1>1, <1>2, <2>6, <2>10, <2>11, <2>12 DEF Store!Read
  <1>5. CASE fds[d].size # Undef
    <2> DEFINE piece(t) == [obj |-> o, data |-> ObjectRead(t, d, t.fds[d].at, Smaller(len, Length(t.fds[d].size) - t.fds[d].at))]
    <2>1. PICK r \in FlushCache(now, d) :
             Becomes([r.s EXCEPT !.fds[d].at = @ + Len(piece(r.s).data)]) /\ got' = piece(r.s)
      BY <1>5 DEF Read
    <2> DEFINE m == r.s
               at == m.fds[d].at
               data == m.files[o].data
               l == Len(data)
               q == SubSeq(data, at + 1, at + Smaller(len, l - at))
               x == at + Len(q)
               t == MovedTo(m, d, x)
    <2>2. Flushed(now, m, d) /\ CoreInv(m) /\ Settles(now, r, o, {}) /\ m \in State
      BY <1>1, NowFlushes, NowSettles
    <2>3. m.fds[d] \in FdType /\ m.fds[d].obj = o /\ m.fds[d].open /\ ~m.fds[d].append
      BY <1>1, <1>2, <2>2, Parts DEF Flushed
    <2>4. Length(m.fds[d].size) = l
      BY <2>2, <2>3 DEF CoreInv, Lengths
    <2>5. piece(m) = [obj |-> o, data |-> q]
      BY <2>3, <2>4 DEF ObjectRead
    <2>6. data \in Seq(Data) /\ l \in 0 .. MaxSize /\ at \in 0 .. MaxSize
      BY <1>2, <2>2, <2>3, Parts DEF FdType
    <2>7. /\ q = SubSeq(data, at + 1, Store!Shorter(at + len, l))
          /\ q = <<>> \/ (Len(q) \in Nat /\ x <= l)
      <3>1. at \in Nat
        BY <2>6
      <3> HIDE DEF data, at
      <3> QED BY <1>3, <2>6, <3>1, PieceIs
    <2>8. Becomes(t) /\ got' = [obj |-> o, data |-> q]
      <3>1. Len(piece(m).data) = Len(q)
        BY ZenonT(60), <2>5
      <3>2. [m EXCEPT !.fds[d].at = @ + Len(piece(m).data)] = t
        BY ZenonT(60), <3>1 DEF MovedTo, WithFd
      <3> QED BY <2>1, <2>5, <3>2
    <2>9. at \in (IF ByteHandles[d].at = Store!Lost THEN 0 .. MaxSize ELSE {ByteHandles[d].at})
      <3>1. Steady(now, m, d)
        BY <1>1, <1>2, <2>2 DEF Settles, Touches
      <3>2. at = fds[d].at \/ StrayIn(now, d)
        BY <1>1, <1>2, <3>1 DEF Steady
      <3> QED BY <1>1, <2>6, <3>2, ReadFrom
    <2>10. x \in 0 .. MaxSize /\ (q = <<>> => x = at)
      <3>1. q = <<>> => Len(q) = 0
        <4> HIDE DEF q
        <4> QED OBVIOUS
      <3> DEFINE n == Len(q)
      <3>2. (n = 0 \/ (n \in Nat /\ at + n <= l)) /\ (q = <<>> => n = 0)
        BY <2>7, <3>1
      <3> HIDE DEF n, l, at, q
      <3> QED BY <2>6, <3>2, Constants DEF n
    <2>11. /\ Store!Settled(o) /\ ByteFiles'[o].data = data
           /\ IF q = <<>> THEN Store!KeepBut(o, {})
              ELSE ByteHandles'[d] = [ByteHandles[d] EXCEPT !.at = at + Len(q)] /\ Store!KeepBut(o, {d})
      <3>1. CASE q # <<>>
        <4> HIDE DEF t, q
        <4>1. x <= l
          BY <2>7, <3>1
        <4> HIDE DEF x
        <4>2. /\ Store!Settled(o) /\ Store!KeepBut(o, {d})
              /\ ByteHandles'[d] = IF fds[d].append THEN ByteHandles[d] ELSE [ByteHandles[d] EXCEPT !.at = x]
              /\ ByteFiles'[o].data = data
          BY <1>1, <2>8, <2>10, <4>1, SettledMoved DEF t
        <4> HIDE DEF o, data, l, at
        <4> QED BY <1>1, <3>1, <4>2 DEF x
      <3>2. CASE q = <<>>
        <4>1. x = at
          BY <2>10, <3>2
        <4>2. SettledIn(now, m, o) /\ KeptBut(now, m, o, {}) /\ PagesOf(m, o) = {}
          BY <1>2, <2>2, SettlesIs DEF Settles
        <4>3. /\ t \in State /\ t.files = m.files /\ t.pages = m.pages /\ \A c \in Descriptors : c # d => t.fds[c] = m.fds[c]
              /\ t.fds[d].at = x /\ SameFd(m, t, d)
          <5> HIDE DEF x, m
          <5> QED BY <2>2, <2>10, MovedIs DEF OnlyFd
        <4> HIDE DEF t, x, q, m
        <4>4. HandleOf(t, d) = HandleOf(m, d)
          BY <4>1, <4>3, SameHandle DEF SameFd
        <4>5. KeptBut(now, t, o, {})
          BY <4>2, <4>3, <4>4, KeptAlone
        <4>6. \A y : SamePages(m, t, y) /\ t.files[y] = m.files[y]
          BY <4>3 DEF SamePages
        <4>7. \A y : FileOf(t, y) = FileOf(m, y)
          BY <4>6, SameFile
        <4>8. SettledIn(now, t, o)
          BY <1>2, <4>2, <4>3, <4>7, SettledAlone
        <4>9. Store!Settled(o) /\ Store!KeepBut(o, {})
          BY <1>2, <2>8, <4>3, <4>5, <4>8, SettledIs, KeptIs
        <4>10. ByteFiles'[o].data = m.files[o].data
          <5>1. ByteFiles' = FilesOf(t)
            BY <2>8, <4>3, MapsNext
          <5> QED BY <1>2, <4>2, <4>7, <5>1 DEF FilesOf, FileOf, ContentOf
        <4> QED BY <3>2, <4>9, <4>10 DEF q, m
      <3> QED BY ZenonT(60), <3>1, <3>2
    <2>12. got'.obj = o
      BY <2>8
    <2>13. q = SubSeq(ByteFiles'[o].data, at + 1, Store!Shorter(at + len, Len(ByteFiles'[o].data)))
      BY Zenon, <2>7, <2>11
    <2> HIDE DEF o, q, at, data, l
    <2> QED BY Zenon, <1>1, <1>2, <2>8, <2>9, <2>11, <2>12, <2>13 DEF Store!Read
  <1> QED BY <1>4, <1>5

-----------------------------------------------------------------------------
(* SPIFFS_write *)

\* Bytes put into what is cached, or into the file with that on top of it.
LEMMA PutTwice ==
  ASSUME NEW S, NEW data \in Seq(S), NEW cached \in Seq(S), NEW bytes \in Seq(S),
         NEW start \in Nat, NEW off \in Nat, start <= Len(data), start <= off, off <= start + Len(cached)
  PROVE  Put(Put(data, start, cached), off, bytes) = Put(data, start, Put(cached, off - start, bytes))
  <1> DEFINE l == Len(data)
             n == Len(cached)
             k == Len(bytes)
             at == off - start
             whole == Put(data, start, cached)
             left == Put(whole, off, bytes)
             part == Put(cached, at, bytes)
             right == Put(data, start, part)
             a == Len(whole)
             b == Len(part)
  <1>1. l \in Nat /\ n \in Nat /\ k \in Nat /\ at \in Nat /\ start <= l /\ at <= n /\ off = start + at
    <2>1. l \in Nat /\ n \in Nat /\ k \in Nat /\ start <= l /\ off <= start + n
      OBVIOUS
    <2> HIDE DEF l, n, k
    <2> QED BY <2>1
  <1> HIDE DEF at, whole, part, left, right
  <1>2. /\ whole \in Seq(S) /\ a = Larger(l, start + n)
        /\ \A i \in 1 .. a : whole[i] = IF start < i /\ i <= start + n THEN cached[i - start] ELSE data[i]
    <2>1. Smaller(start, l) = start
      BY <1>1 DEF Smaller
    <2> QED BY <2>1, PutIs DEF whole
  <1>3. part \in Seq(S) /\ b = Larger(n, at + k)
        /\ \A i \in 1 .. b : part[i] = IF at < i /\ i <= at + k THEN bytes[i - at] ELSE cached[i]
    <2>1. Smaller(at, n) = at
      BY <1>1 DEF Smaller
    <2> QED BY <1>1, <2>1, PutIs DEF part
  <1>4. a \in Nat /\ off <= a /\ b \in Nat
    <2>1. a \in Nat /\ b \in Nat
      BY <1>2, <1>3
    <2> HIDE DEF a, b, l, n, k
    <2> QED BY <1>1, <1>2, <2>1 DEF Larger
  <1>5. left \in Seq(S) /\ Len(left) = Larger(a, off + k)
        /\ \A i \in 1 .. Len(left) : left[i] = IF off < i /\ i <= off + k THEN bytes[i - off] ELSE whole[i]
    <2>1. Smaller(off, a) = off
      BY <1>4 DEF Smaller
    <2>2. whole \in Seq(S)
      BY <1>2
    <2> QED BY SMTT(60), <2>1, <2>2, PutIs DEF left
  <1>6. right \in Seq(S) /\ Len(right) = Larger(l, start + b)
        /\ \A i \in 1 .. Len(right) : right[i] = IF start < i /\ i <= start + b THEN part[i - start] ELSE data[i]
    <2>1. Smaller(start, l) = start
      BY <1>1 DEF Smaller
    <2> QED BY <1>3, <2>1, PutIs DEF right
  <1> DEFINE m == Len(left)
  <1>7. Len(left) \in Nat /\ Len(right) \in Nat
    BY <1>5, <1>6
  <1> HIDE DEF l, n, k, a, b, m
  <1>8. Len(left) = Len(right)
    BY <1>1, <1>2, <1>3, <1>4, <1>5, <1>6 DEF Larger
  <1>9. ASSUME NEW i \in 1 .. Len(left)  PROVE left[i] = right[i]
    <2>1. i \in Nat /\ i >= 1 /\ i <= Larger(a, off + k) /\ i <= Larger(l, start + b)
      BY <1>5, <1>6, <1>7, <1>8
    <2>2. CASE off < i /\ i <= off + k
      <3>1. left[i] = bytes[i - off]
        BY <1>5, <2>2
      <3>2. start < i /\ i - start <= at + k /\ at < i - start /\ i - start - at = i - off /\ i - start \in 1 .. b /\ i <= start + b
        BY <1>1, <1>3, <1>4, <2>1, <2>2 DEF Larger
      <3>3. right[i] = part[i - start]
        BY <1>6, <1>8, <3>2
      <3>4. part[i - start] = bytes[i - start - at]
        BY <1>3, <3>2
      <3> QED BY <3>1, <3>2, <3>3, <3>4
    <2>3. CASE ~(off < i /\ i <= off + k)
      <3>1. left[i] = whole[i]
        BY <1>5, <2>3
      <3>2. i \in 1 .. a
        BY <1>1, <1>4, <2>1, <2>3 DEF Larger
      <3>3. CASE start < i /\ i <= start + n
        <4>1. whole[i] = cached[i - start]
          BY <1>2, <3>2, <3>3
        <4>2. i - start \in 1 .. b /\ i <= start + b /\ ~(at < i - start /\ i - start <= at + k)
          BY <1>1, <1>3, <1>4, <2>1, <2>3, <3>3 DEF Larger
        <4>3. part[i - start] = cached[i - start]
          BY <1>3, <4>2
        <4>4. right[i] = part[i - start]
          BY <1>6, <1>8, <3>3, <4>2
        <4> QED BY <3>1, <4>1, <4>3, <4>4
      <3>4. CASE ~(start < i /\ i <= start + n)
        <4>1. whole[i] = data[i]
          BY <1>2, <3>2, <3>4
        <4>2. ~(start < i /\ i <= start + b)
          BY <1>1, <1>3, <1>4, <2>1, <2>3, <3>4 DEF Larger
        <4>3. right[i] = data[i]
          BY <1>6, <1>8, <4>2
        <4> QED BY <3>1, <4>1, <4>3
      <3> QED BY <3>3, <3>4
    <2> QED BY <2>2, <2>3
  <1>10. left = right
    BY <1>5, <1>6, <1>8, <1>9, SameSeq
  <1> QED BY <1>10 DEF left, right, whole, part, at

\* Nothing put into a file.
LEMMA PutNothing ==
  ASSUME NEW S, NEW data \in Seq(S), NEW off \in Nat
  PROVE  Put(data, off, <<>>) = data
  <1> DEFINE none == <<>>
             u == Put(data, off, none)
             l == Len(data)
  <1>1. none \in Seq(S) /\ Len(none) = 0
    OBVIOUS
  <1> HIDE DEF none, u
  <1>2. /\ Smaller(off, l) \in Nat /\ Smaller(off, l) <= l /\ u \in Seq(S)
        /\ Len(u) = Larger(l, Smaller(off, l) + Len(none))
        /\ \A i \in 1 .. Len(u) : u[i] = IF Smaller(off, l) < i /\ i <= Smaller(off, l) + Len(none)
                                         THEN none[i - Smaller(off, l)] ELSE data[i]
    BY ZenonT(60), <1>1, PutIs DEF u
  <1>3. l \in Nat
    OBVIOUS
  <1> DEFINE m == Smaller(off, l)
  <1>4. m \in Nat /\ m <= l
    BY <1>2
  <1> HIDE DEF m, l
  <1>5. Larger(l, m + 0) = l /\ \A i \in 1 .. l : ~(m < i /\ i <= m + 0)
    BY <1>3, <1>4 DEF Larger
  <1>6. Len(u) = l
    BY <1>1, <1>2, <1>5 DEF m
  <1>7. \A i \in 1 .. Len(u) : u[i] = data[i]
    BY <1>1, <1>2, <1>5, <1>6 DEF m
  <1>8. u = data
    BY <1>2, <1>6, <1>7, SameSeq DEF l
  <1> QED BY <1>8 DEF u, none

\* SpiffsBytes on a write of bytes at off through d, done or failed.
Writes(s, u, o, d, off, bytes) ==
    LET data == Put(FileOf(s, o).data, off, bytes)
    IN  /\ Others(s, u, o) /\ KeptBut(s, u, o, {d})
        /\ HandleOf(u, d) = IF HandleOf(s, d).append THEN HandleOf(s, d)
                            ELSE [HandleOf(s, d) EXCEPT !.at = off + Len(bytes)]
        /\ \E kept \in {FileOf(s, o).kept, FileOf(s, o).data, data} :
              FileOf(u, o) = [exists |-> TRUE, data |-> data, kept |-> kept]
WritesSome(s, u, o, off, bytes) ==
    /\ Failures # {} /\ Others(s, u, o) /\ KeptBut(s, u, o, {})
    /\ FileOf(u, o) = Whole(u.files[o].data)
    /\ Mixed(u.files[o].data, {FileOf(s, o).data, FileOf(s, o).kept, Put(FileOf(s, o).data, off, bytes)})
Writing(s, u, o, d, off, bytes) ==
    u \in State /\ (Writes(s, u, o, d, off, bytes) \/ WritesSome(s, u, o, off, bytes))

\* Two states that are mapped to the same one.
SameView(s, t) ==
    /\ \A x \in Objs : FileOf(t, x) = FileOf(s, x)
    /\ \A c \in Descriptors : HandleOf(t, c) = HandleOf(s, c)

LEMMA WritingView ==
  ASSUME NEW s, NEW m, NEW u, NEW o \in Objs, NEW d \in Descriptors, NEW off, NEW bytes,
         SameView(s, m), Writing(m, u, o, d, off, bytes)
  PROVE  Writing(s, u, o, d, off, bytes)
  <1>1. FileOf(m, o) = FileOf(s, o) /\ HandleOf(m, d) = HandleOf(s, d)
    BY DEF SameView
  <1>2. Others(m, u, o) => Others(s, u, o)
    BY DEF Others, SameView
  <1>3. \A moved : KeptBut(m, u, o, moved) => KeptBut(s, u, o, moved)
    <2> SUFFICES ASSUME NEW moved, KeptBut(m, u, o, moved), NEW c \in Descriptors \ moved
                 PROVE  IF HandleOf(s, c).obj = o THEN HandleKept(s, u, c) ELSE HandleOf(u, c) = HandleOf(s, c)
      BY Zenon DEF KeptBut
    <2>1. HandleOf(m, c) = HandleOf(s, c)
      BY DEF SameView
    <2>2. HandleKept(m, u, c) => HandleKept(s, u, c)
      BY Zenon, <2>1 DEF HandleKept
    <2> QED BY Zenon, <2>1, <2>2 DEF KeptBut
  <1>4. Writes(m, u, o, d, off, bytes) => Writes(s, u, o, d, off, bytes)
    BY Zenon, <1>1, <1>2, <1>3 DEF Writes
  <1>5. WritesSome(m, u, o, off, bytes) => WritesSome(s, u, o, off, bytes)
    BY Zenon, <1>1, <1>2, <1>3 DEF WritesSome
  <1> QED BY <1>4, <1>5 DEF Writing

\* What is written makes a difference to no position that was within the file.
LEMMA KeptThen ==
  ASSUME NEW s, CallInv(s), NEW m, NEW u, NEW o \in Objs, NEW moved, KeptBut(s, m, o, {}), KeptBut(m, u, o, moved),
         ContentOf(m, o) = ContentOf(s, o)
  PROVE  KeptBut(s, u, o, moved)
  <1> SUFFICES ASSUME NEW c \in Descriptors \ moved
               PROVE  IF HandleOf(s, c).obj = o THEN HandleKept(s, u, c) ELSE HandleOf(u, c) = HandleOf(s, c)
    BY Zenon DEF KeptBut
  <1> DEFINE h == HandleOf(s, c)
             g == HandleOf(m, c)
             f == HandleOf(u, c)
  <1>1. CASE h.obj # o
    BY <1>1 DEF KeptBut
  <1>2. CASE h.obj = o
    <2>1. HandleKept(s, m, c)
      BY <1>2 DEF KeptBut
    <2>2. s.fds[c].open /\ s.fds[c].obj = o
      BY <1>2, Constants DEF HandleOf
    <2>3. h = [obj |-> o, append |-> s.fds[c].append, at |-> h.at]
      BY <2>2 DEF HandleOf
    <2>4. h.at = -1 \/ (h.at \in Nat /\ h.at <= Len(ContentOf(s, o)))
      <3>1. CASE s.fds[c].append
        <4>1. h.at = 0
          BY <2>2, <3>1 DEF HandleOf
        <4>2. Len(ContentOf(s, o)) \in Nat
          BY ContentSeq DEF CallInv
        <4> HIDE DEF h
        <4> QED BY <4>1, <4>2
      <3>2. CASE ~s.fds[c].append /\ ~StrayIn(s, c)
        <4>1. h.at = s.fds[c].at
          BY <2>2, <3>2 DEF HandleOf
        <4>2. s.fds[c].at <= Len(ContentOf(s, o)) /\ s.fds[c].at \in Nat
          <5>1. s.fds[c].at <= Len(ContentOf(s, s.fds[c].obj))
            BY <2>2, <3>2, NotStray DEF CallInv
          <5>2. s.fds[c].at \in Nat
            BY Parts DEF FdType, CallInv, CoreInv
          <5> QED BY <2>2, <5>1, <5>2
        <4> HIDE DEF h
        <4> QED BY <4>1, <4>2
      <3>3. CASE ~s.fds[c].append /\ StrayIn(s, c)
        BY <2>2, <3>3 DEF HandleOf
      <3> QED BY <3>1, <3>2, <3>3
    <2>5. g = h \/ (h.at = -1 /\ g = [h EXCEPT !.at = g.at])
      <3>1. g = h \/ (/\ h.at = -1 \/ h.at > Len(ContentOf(m, o))
                      /\ g = [h EXCEPT !.at = g.at])
        BY Zenon, <1>2, <2>1 DEF HandleKept
      <3>2. Len(ContentOf(s, o)) \in Nat
        BY ContentSeq DEF CallInv
      <3> DEFINE l == Len(ContentOf(s, o))
      <3>3. ~(h.at > l) \/ h.at = -1
        <4> HIDE DEF h, l
        <4> QED BY <2>4, <3>2 DEF l
      <3> HIDE DEF h, g, l
      <3> QED BY <3>1, <3>3 DEF l
    <2> HIDE DEF h, g, f
    <2>6. g.obj = o
      BY <1>2, <2>3, <2>5
    <2>7. HandleKept(m, u, c)
      BY <2>6 DEF KeptBut, g
    <2>8. f = g \/ (/\ g.at = -1 \/ (g.at > Len(ContentOf(u, g.obj)) /\ f.at = -1)
                    /\ f = [g EXCEPT !.at = f.at])
      BY Zenon, <2>7 DEF HandleKept, f, g
    <2>9. \/ f = h
          \/ /\ \/ h.at = -1
                \/ h.at > Len(ContentOf(u, h.obj)) /\ f.at = -1
             /\ f = [h EXCEPT !.at = f.at]
      <3>1. CASE g = h
        BY Zenon, <2>8, <3>1
      <3>2. CASE h.at = -1 /\ g = [h EXCEPT !.at = g.at]
        <4>1. g = [obj |-> o, append |-> s.fds[c].append, at |-> g.at]
          BY <2>3, <3>2
        <4>2. f = g \/ f = [g EXCEPT !.at = f.at]
          BY Zenon, <2>8
        <4>3. f = [h EXCEPT !.at = f.at]
          BY <2>3, <4>1, <4>2
        <4> QED BY Zenon, <3>2, <4>3
      <3> QED BY <2>5, <3>1, <3>2
    <2>10. HandleKept(s, u, c)
      BY Zenon, <2>9 DEF HandleKept, f, h
    <2> QED BY <1>2, <2>10 DEF h
  <1> QED BY <1>1, <1>2

LEMMA MixedMore ==
  ASSUME NEW v, NEW few, NEW more, few \subseteq more, Mixed(v, few)
  PROVE  Mixed(v, more)
  BY Zenon DEF Mixed

\* SPIFFS_write past the cache, when nothing is cached for the file.
LEMMA WriteThroughWrites ==
  ASSUME Careful, NEW s, CallInv(s), NEW d \in Descriptors, s.fds[d].open, NEW o, o = s.fds[d].obj,
         PagesOf(s, o) = {}, NEW off \in Nat, NEW bytes \in Seq(Data), off + Len(bytes) <= MaxSize,
         off <= Len(s.files[o].data), s.fds[d].append \/ s.fds[d].at = off, s.fds[d].at <= off,
         NEW u \in WriteThrough(s, d, off, bytes)
  PROVE  Writing(s, u, o, d, off, bytes)
  <1> DEFINE n == Len(bytes)
             data == s.files[o].data
             new == Put(data, off, bytes)
             l == Len(data)
  <1>1. /\ CoreInv(s) /\ s \in State /\ o \in Objs /\ s.files[o].exists = TRUE
        /\ data \in Seq(Data) /\ l \in Nat
    <2>1. CoreInv(s) /\ s \in State
      BY DEF CallInv, CoreInv
    <2>2. o \in Objs /\ s.files[o].exists = TRUE
      BY ZenonT(60), <2>1, Existing
    <2>3. data \in Seq(Data) /\ l \in Nat
      BY SMTT(60), <2>1, <2>2, Parts
    <2> QED BY SMTT(60), <2>1, <2>2, <2>3
  <1>2. PICK r \in HydroWrite(s, d, off, bytes) : u = IF r.ok THEN [r.s EXCEPT !.fds[d].at = @ + n] ELSE r.s
    BY DEF WriteThrough
  <1> DEFINE m == r.s
  <1>3. /\ r \in Outcome /\ Grown(s, m, o)
        /\ r.ok => m.files[o].data = new
        /\ ~r.ok => Between(m.files[o].data, data, new)
    BY SMTT(60), <1>1, HydroWriteIs
  <1>4. ~r.ok => Failures # {}
    BY <1>1, HydroWriteFailing
  <1>5. m \in State /\ m.pages = s.pages /\ m.files[o].exists = TRUE /\ CoreInv(m)
    <2>1. CoreInv(m)
      BY SMTT(60), <1>1, <1>3, GrownInv
    <2>2. m \in State /\ m.pages = s.pages /\ m.files[o].exists
      BY Zenon, <1>3 DEF Grown
    <2>3. m.files[o] \in FileType
      BY <1>1, <2>2, Parts
    <2> QED BY SMTT(60), <2>1, <2>2, <2>3 DEF FileType
  <1>6. m.fds[d].open /\ m.fds[d].obj = o /\ m.fds[d].append = s.fds[d].append /\ m.fds[d].at <= s.fds[d].at
        /\ (m.fds[d].at = s.fds[d].at \/ l < s.fds[d].at)
    <2> HIDE DEF m, data, new, l, n
    <2>1. /\ m.fds[d].open = s.fds[d].open /\ m.fds[d].obj = s.fds[d].obj
          /\ m.fds[d].append = s.fds[d].append /\ m.fds[d].at <= s.fds[d].at
      <3>1. s \in State /\ Grown(s, m, o)
        BY <1>1, <1>3
      <3>2. \A c \in Descriptors : /\ m.fds[c].open = s.fds[c].open /\ m.fds[c].obj = s.fds[c].obj
                                  /\ m.fds[c].append = s.fds[c].append /\ m.fds[c].at <= s.fds[c].at
        BY <3>1, GrownFds
      <3> QED BY <3>2
    <2>2. m.fds[d].at = s.fds[d].at \/ l < s.fds[d].at
      BY Zenon, <1>3 DEF Grown, l, data
    <2> QED BY <2>1, <2>2
  <1>7. Touches(s, m, o, {})
    <2>1. \A c \in Descriptors \ {} : Within(s, c)
      BY DEF CallInv
    <2> QED BY SMTT(60), <1>1, <1>3, <2>1, GrownTouches
  <1>8. PagesOf(m, o) = {}
    BY <1>5 DEF PagesOf
  <1>9. KeptBut(s, m, o, {}) /\ Others(s, m, o) /\ FileOf(m, o) = Whole(m.files[o].data)
    BY ZenonT(60), <1>1, <1>5, <1>7, <1>8, TouchesKept, FileIs DEF Touches
  <1>10. FileOf(s, o).data = data /\ FileOf(s, o).kept = data
    BY DEF FileOf, ContentOf
  <1>11. new \in Seq(Data) /\ Len(new) = Larger(l, off + n)
    <2>1. Smaller(off, l) = off
      <3>1. off <= l
        OBVIOUS
      <3> HIDE DEF l
      <3> QED BY SMTT(60), <1>1, <3>1 DEF Smaller
    <2> HIDE DEF data
    <2> QED BY <1>1, <2>1, PutIs
  <1>12. CASE ~r.ok
    <2>1. u = m
      BY <1>2, <1>12
    <2>2. Between(m.files[o].data, data, new) /\ m.files[o].data \in Seq(Data)
      BY ZenonT(60), <1>1, <1>3, <1>5, <1>12, Parts
    <2> HIDE DEF data, new, m
    <2>3. Mixed(m.files[o].data, {data, new})
      <3>1. data \in {data, new} /\ new \in {data, new}
        OBVIOUS
      <3> QED BY ZenonT(60), <1>1, <1>11, <2>2, <3>1, BetweenMixed
    <2>4. Mixed(m.files[o].data, {data, data, new})
      BY <2>3, MixedMore
    <2>5. WritesSome(s, u, o, off, bytes)
      BY SMTT(60), <1>4, <1>9, <1>10, <1>12, <2>1, <2>4 DEF WritesSome, new
    <2> QED BY <1>5, <2>1, <2>5 DEF Writing
  <1>13. CASE r.ok
    <2> DEFINE x == m.fds[d].at + n
               t == MovedTo(m, d, x)
    <2>1. u = t
      BY <1>2, <1>13 DEF MovedTo, WithFd
    <2>2. /\ m.fds[d].at \in Nat /\ s.fds[d].at \in Nat /\ n \in Nat /\ m.fds[d].at <= off
          /\ (~s.fds[d].append => m.fds[d].at = off)
      <3>1. m.fds[d].at \in Nat /\ s.fds[d].at \in Nat /\ n \in Nat /\ off <= l
        BY SMTT(60), <1>1, <1>5, Parts DEF FdType
      <3> DEFINE a == m.fds[d].at
                 b == s.fds[d].at
      <3>2. a \in Nat /\ b \in Nat /\ a <= b /\ b <= off /\ (a = b \/ l < b) /\ (s.fds[d].append \/ b = off)
        BY <1>6, <3>1
      <3> HIDE DEF a, b, l
      <3>3. a <= off /\ (~s.fds[d].append => a = off)
        BY <1>1, <3>1, <3>2
      <3> QED BY <3>1, <3>3 DEF a, b
    <2>3. x \in 0 .. MaxSize /\ x <= Len(m.files[o].data) /\ (~s.fds[d].append => x = off + n)
      <3> DEFINE a == m.fds[d].at
      <3>1. a \in Nat /\ a <= off /\ n \in Nat /\ off + n <= MaxSize
        BY <2>2
      <3>2. Len(m.files[o].data) = Larger(l, off + n)
        BY ZenonT(60), <1>3, <1>11, <1>13
      <3> HIDE DEF a, n, l, m
      <3>3. a + n \in 0 .. MaxSize /\ a + n <= Larger(l, off + n)
        BY <1>1, <3>1, Constants DEF Larger
      <3> QED BY <2>2, <3>2, <3>3 DEF a
    <2> HIDE DEF x, m
    <2>4. /\ t \in State /\ t.files = m.files /\ t.pages = m.pages /\ \A c \in Descriptors : c # d => t.fds[c] = m.fds[c]
      BY <1>5, <2>3, MovedIs DEF OnlyFd
    <2>5. HandleOf(t, d) = [obj |-> o, append |-> s.fds[d].append, at |-> IF s.fds[d].append THEN 0 ELSE x]
      <3>1. m.fds[d].obj \in Objs /\ x <= Len(m.files[m.fds[d].obj].data)
        BY <1>1, <1>6, <2>3
      <3> QED BY ZenonT(60), <1>5, <1>6, <2>3, <3>1, MovedHandle
    <2> HIDE DEF t
    <2>6. KeptBut(s, t, o, {d})
      BY ZenonT(60), <1>9, <2>4, KeptAlone
    <2>7. \A y : FileOf(t, y) = FileOf(m, y)
      <3>1. \A y : SamePages(m, t, y) /\ t.files[y] = m.files[y]
        BY <2>4 DEF SamePages
      <3> QED BY <3>1, SameFile
    <2>8. Others(s, t, o) /\ FileOf(t, o) = Whole(new)
      BY SMTT(60), <1>1, <1>3, <1>9, <1>13, <2>7 DEF Others, m
    <2>9. HandleOf(s, d) = [obj |-> o, append |-> s.fds[d].append, at |-> HandleOf(s, d).at]
          /\ (s.fds[d].append => HandleOf(s, d).at = 0)
      BY DEF HandleOf
    <2>10. HandleOf(t, d) = IF HandleOf(s, d).append THEN HandleOf(s, d)
                            ELSE [HandleOf(s, d) EXCEPT !.at = off + n]
      <3> HIDE DEF n
      <3> QED BY <2>3, <2>5, <2>9
    <2> HIDE DEF data, new
    <2>11. Writes(s, t, o, d, off, bytes)
      BY <1>10, <2>6, <2>8, <2>10 DEF Writes, Whole, new
    <2> QED BY <2>1, <2>4, <2>11 DEF Writing
  <1> QED BY <1>12, <1>13

\* SPIFFS_write into the cache page of the file.
LEMMA WriteCachedWrites ==
  ASSUME NEW s, CoreInv(s), NEW d \in Descriptors, s.fds[d].open, s.fds[d].cp # NoPage,
         \A c \in Descriptors : c # d => Within(s, c), NEW o, o = s.fds[d].obj,
         NEW off \in Nat, NEW bytes \in Seq(Data), off + Len(bytes) <= MaxSize,
         s.fds[d].append \/ s.fds[d].at = off, s.fds[d].at <= off,
         NEW page, page = s.pages[s.fds[d].cp],
         page.off <= off, off <= End(page), off + Len(bytes) <= page.off + PageSize,
         NEW u, u = WriteCached(s, d, off, bytes)
  PROVE  Writing(s, u, o, d, off, bytes)
  <1> DEFINE p == s.fds[d].cp
             n == Len(bytes)
             data == s.files[o].data
             new == Put(page.data, off - page.off, bytes)
  <1>1. s \in State /\ p \in PagesOf(s, o) /\ p \in CachePages /\ o \in Objs /\ p \in InUse(s) /\ s.files[o].exists = TRUE
    BY ZenonT(60), OwnPage, Existing DEF CoreInv
  <1>2. CallInv(u) /\ CoreInv(u) /\ u \in State
    <2>1. CallInv(u)
      BY WriteCachedIs
    <2> QED BY <2>1 DEF CallInv, CoreInv
  <1>3. /\ u.files = s.files /\ u.fds = [s.fds EXCEPT ![d].at = @ + n]
        /\ u.pages = [s.pages EXCEPT ![p].data = new]
    <2>1. u = [s EXCEPT !.pages[p].data = new, !.fds[d].at = @ + n]
      BY SMTT(60) DEF WriteCached
    <2> HIDE DEF p, n, new
    <2> QED BY <1>1, <2>1 DEF State
  <1>4. /\ \A c \in Descriptors : c # d => u.fds[c] = s.fds[c]
        /\ u.fds[d].open = s.fds[d].open /\ u.fds[d].obj = o /\ u.fds[d].append = s.fds[d].append
        /\ u.fds[d].cp = p /\ u.fds[d].at = s.fds[d].at + n
    <2> DEFINE x == s.fds[d].at + n
    <2>1. s.fds \in [Descriptors -> FdType] /\ s.fds[d] \in FdType
      BY <1>1, Parts
    <2>2. u.fds = [s.fds EXCEPT ![d] = [s.fds[d] EXCEPT !.at = x]]
      BY SMTT(60), <1>3
    <2> HIDE DEF x, p
    <2>3. u.fds[d] = [s.fds[d] EXCEPT !.at = x] /\ \A c \in Descriptors : c # d => u.fds[c] = s.fds[c]
      BY <2>1, <2>2
    <2>4. /\ u.fds[d].open = s.fds[d].open /\ u.fds[d].obj = o /\ u.fds[d].append = s.fds[d].append
          /\ u.fds[d].cp = s.fds[d].cp /\ u.fds[d].at = x
      BY ZenonT(60), <2>1, <2>3 DEF FdType
    <2> QED BY ZenonT(60), <2>3, <2>4 DEF x, p
  <1>5. /\ \A q \in CachePages : q # p => u.pages[q] = s.pages[q]
        /\ u.pages[p].obj = o /\ s.pages[p].obj = o /\ u.pages[p].off = page.off /\ u.pages[p].data = new
    <2>1. s.pages \in [CachePages -> PageType] /\ s.pages[p] \in PageType /\ s.pages[p].obj = o
      BY SMTT(60), <1>1, Parts DEF PagesOf
    <2>2. p \in CachePages /\ page = s.pages[p] /\ u.pages = [s.pages EXCEPT ![p].data = new]
      BY Zenon, <1>1, <1>3
    <2> HIDE DEF p, new
    <2>3. /\ \A q \in CachePages : q # p => u.pages[q] = s.pages[q]
          /\ u.pages[p] = [page EXCEPT !.data = new] /\ page \in PageType /\ page.obj = o
      BY ZenonT(60), <2>1, <2>2
    <2>4. u.pages[p].obj = o /\ u.pages[p].off = page.off /\ u.pages[p].data = new
      BY ZenonT(60), <2>3 DEF PageType
    <2> QED BY Zenon, <2>1, <2>3, <2>4
  <1> HIDE DEF p
  <1>6. Others(s, u, o)
    <2> SUFFICES ASSUME NEW x \in Objs \ {o} PROVE FileOf(u, x) = FileOf(s, x)
      BY DEF Others
    <2>1. SamePages(s, u, x)
      BY <1>5 DEF SamePages
    <2> QED BY SMTT(60), <1>3, <2>1, SameFile
  <1>7. ContentOf(s, o) = Put(data, page.off, page.data) /\ ContentOf(u, o) = Put(data, page.off, new)
    <2>1. ContentOf(s, o) = Put(data, page.off, page.data)
      BY <1>1, ContentIs DEF p
    <2>2. p \in PagesOf(u, o)
      BY <1>1, <1>5 DEF PagesOf
    <2>3. ContentOf(u, o) = Put(u.files[o].data, u.pages[p].off, u.pages[p].data)
      BY <1>1, <1>2, <2>2, ContentIs
    <2> QED BY Zenon, <1>3, <1>5, <2>1, <2>3
  <1>8. ContentOf(u, o) = Put(ContentOf(s, o), off, bytes)
    <2> DEFINE start == page.off
               cached == page.data
    <2>1. data \in Seq(Data) /\ cached \in Seq(Data) /\ start \in Nat
      BY <1>1, Parts DEF p
    <2>2. start <= Len(data)
      BY ZenonT(60), <1>1, <1>5 DEF CoreInv, Fits, p
    <2>3. start <= off /\ off <= start + Len(cached)
      BY DEF End
    <2> HIDE DEF data, cached, start
    <2>4. Put(Put(data, start, cached), off, bytes) = Put(data, start, Put(cached, off - start, bytes))
      BY <2>1, <2>2, <2>3, PutTwice
    <2> QED BY Zenon, <1>7, <2>4 DEF start, cached
  <1>9. FileOf(u, o) = [exists |-> TRUE, data |-> Put(FileOf(s, o).data, off, bytes), kept |-> FileOf(s, o).kept]
    BY ZenonT(60), <1>1, <1>3, <1>8 DEF FileOf
  <1>10. KeptBut(s, u, o, {d})
    <2> SUFFICES ASSUME NEW c \in Descriptors \ {d}
                 PROVE  IF HandleOf(s, c).obj = o THEN HandleKept(s, u, c) ELSE HandleOf(u, c) = HandleOf(s, c)
      BY Zenon DEF KeptBut
    <2>1. u.fds[c] = s.fds[c]
      BY <1>4
    <2>2. u.files = s.files
      BY SMTT(60), <1>3
    <2>3. HandleOf(u, c) = HandleOf(s, c)
      BY ZenonT(60), <2>1, <2>2, SameHandle
    <2> QED BY <2>3 DEF HandleKept
  <1>11. HandleOf(u, d) = IF HandleOf(s, d).append THEN HandleOf(s, d)
                          ELSE [HandleOf(s, d) EXCEPT !.at = off + n]
    <2> HIDE DEF n
    <2>1. HandleOf(s, d) = [obj |-> o, append |-> s.fds[d].append, at |-> HandleOf(s, d).at]
          /\ (s.fds[d].append => HandleOf(s, d).at = 0)
      BY DEF HandleOf
    <2>2. ~StrayIn(u, d)
      BY <1>4 DEF StrayIn, p
    <2>3. HandleOf(u, d) = [obj |-> o, append |-> s.fds[d].append, at |-> IF s.fds[d].append THEN 0 ELSE s.fds[d].at + n]
      BY SMTT(60), <1>4, <2>2 DEF HandleOf
    <2> QED BY <2>1, <2>3
  <1> HIDE DEF n
  <1>12. Writes(s, u, o, d, off, bytes)
    BY Zenon, <1>6, <1>9, <1>10, <1>11 DEF Writes, n
  <1> QED BY <1>2, <1>12 DEF Writing

\* A cache page taken for a file changes nothing of what is read.
LEMMA TakenView ==
  ASSUME NEW s, CoreInv(s), NEW d \in Descriptors, s.fds[d].open, ~s.fds[d].direct, s.fds[d].cp = NoPage,
         NEW o, o = s.fds[d].obj, PagesOf(s, o) = {}, \A c \in Descriptors : c # d => Within(s, c),
         NEW off \in 0 .. MaxSize, off <= Len(s.files[o].data), s.fds[d].append \/ s.fds[d].at = off,
         NEW p \in CachePages, p \notin InUse(s), NEW t, t = Taken(s, d, p, off)
  PROVE  SameView(s, t) /\ t.fds[d].obj = o /\ t.fds[d].append = s.fds[d].append
  <1> DEFINE data == s.files[o].data
             none == <<>>
             page == [obj |-> o, off |-> off, data |-> none]
             fd == [s.fds[d] EXCEPT !.cp = p]
  <1>1. s \in State /\ o \in Objs /\ s.pages[p].obj = NoObj
    BY DEF CoreInv, Handles, InUse
  <1>2. p # NoPage
    BY Constants DEF CachePages, NoPage
  <1>3. CoreInv(t)
    BY TakenIs
  <1>4. t.files = s.files /\ t.fds = [s.fds EXCEPT ![d] = fd] /\ t.pages = [s.pages EXCEPT ![p] = page]
    <2> HIDE DEF none
    <2>1. t = [[s EXCEPT !.pages[p] = page] EXCEPT !.fds[d] = fd]
      BY DEF Taken, WithFd, WithPage, none
    <2> HIDE DEF page, fd
    <2> QED BY <1>1, <2>1 DEF State
  <1>5. /\ \A c \in Descriptors : c # d => t.fds[c] = s.fds[c]
        /\ t.fds[d].open = s.fds[d].open /\ t.fds[d].obj = o /\ t.fds[d].append = s.fds[d].append
        /\ t.fds[d].cp = p /\ t.fds[d].at = s.fds[d].at
    <2>1. s.fds \in [Descriptors -> FdType] /\ s.fds[d] \in FdType
      BY <1>1, Parts
    <2> HIDE DEF fd
    <2>2. t.fds[d] = fd /\ \A c \in Descriptors : c # d => t.fds[c] = s.fds[c]
      BY <1>4, <2>1
    <2> QED BY ZenonT(60), <2>1, <2>2 DEF FdType, fd
  <1>6. /\ \A q \in CachePages : q # p => t.pages[q] = s.pages[q]
        /\ t.pages[p].obj = o /\ t.pages[p].off = off /\ t.pages[p].data = none
    <2>1. s.pages \in [CachePages -> PageType]
      BY <1>1, Parts
    <2> HIDE DEF page, none
    <2>2. t.pages[p] = page /\ \A q \in CachePages : q # p => t.pages[q] = s.pages[q]
      BY <1>4, <2>1
    <2> QED BY <2>2 DEF page
  <1>7. ASSUME NEW x \in Objs  PROVE FileOf(t, x) = FileOf(s, x)
    <2>1. CASE x # o
      <3>1. SamePages(s, t, x)
        BY SMTT(60), <1>1, <1>6, <2>1, Constants DEF SamePages
      <3> QED BY SMTT(60), <1>4, <3>1, SameFile
    <2>2. CASE x = o
      <3>1. p \in PagesOf(t, o)
        BY SMTT(60), <1>6 DEF PagesOf
      <3>2. ContentOf(t, o) = Put(t.files[o].data, t.pages[p].off, t.pages[p].data)
        BY <1>1, <1>3, <3>1, ContentIs
      <3>3. ContentOf(t, o) = Put(data, off, <<>>)
        BY Zenon, <1>4, <1>6, <3>2
      <3>4. data \in Seq(Data) /\ off \in Nat
        BY <1>1, Parts, Constants
      <3>5. ContentOf(t, o) = data
        <4> HIDE DEF data
        <4>1. Put(data, off, <<>>) = data
          BY <3>4, PutNothing
        <4> QED BY Zenon, <3>3, <4>1
      <3>6. ContentOf(s, o) = data
        BY DEF ContentOf
      <3> QED BY <1>4, <2>2, <3>5, <3>6 DEF FileOf
    <2> QED BY <2>1, <2>2
  <1>8. ASSUME NEW c \in Descriptors  PROVE HandleOf(t, c) = HandleOf(s, c)
    <2>1. CASE c # d
      <3>1. t.fds[c] = s.fds[c] /\ t.files = s.files
        BY <1>4, <1>5, <2>1
      <3> QED BY ZenonT(60), <3>1, SameHandle
    <2>2. CASE c = d
      <3>1. ~StrayIn(t, d)
        BY <1>2, <1>5 DEF StrayIn
      <3>2. s.fds[d].append \/ ~StrayIn(s, d)
        <4> SUFFICES ASSUME ~s.fds[d].append, StrayIn(s, d) PROVE FALSE
          OBVIOUS
        <4> DEFINE l == Len(s.files[o].data)
        <4>1. s.fds[d].at > l /\ s.fds[d].at = off
          BY DEF StrayIn
        <4>2. off <= l /\ l \in Nat /\ off \in Nat
          BY SMTT(60), <1>1, Parts, Constants
        <4> HIDE DEF l
        <4> QED BY <4>1, <4>2
      <3> QED BY ZenonT(60), <1>5, <2>2, <3>1, <3>2 DEF HandleOf
    <2> QED BY <2>1, <2>2
  <1> QED BY <1>5, <1>7, <1>8 DEF SameView

\* SPIFFS_write when nothing is cached for the file, into a new cache page or past the cache.
LEMMA WriteNewPageWrites ==
  ASSUME Careful, NEW s, CallInv(s), NEW d \in Descriptors, s.fds[d].open, ~s.fds[d].direct,
         NEW o, o = s.fds[d].obj, PagesOf(s, o) = {},
         NEW off \in Nat, NEW bytes \in Seq(Data), off + Len(bytes) <= MaxSize, Len(bytes) <= PageSize,
         off <= Len(s.files[o].data), s.fds[d].append \/ s.fds[d].at = off, s.fds[d].at <= off,
         NEW u \in WriteNewPage(s, d, off, bytes)
  PROVE  Writing(s, u, o, d, off, bytes)
  <1> DEFINE taken(p) == [s EXCEPT !.pages[p] = [obj |-> s.fds[d].obj, off |-> off, data |-> <<>>],
                                   !.fds[d].cp = p]
             n == Len(bytes)
  <1>1. \/ \E p \in CachePages \ InUse(s) : u = WriteCached(taken(p), d, off, bytes)
        \/ u \in WriteThrough(s, d, off, bytes)
    <2> DEFINE S == {WriteCached(taken(p), d, off, bytes) : p \in CachePages \ InUse(s)}
               T == WriteThrough(s, d, off, bytes)
               C == Cardinality(InUse(s)) >= K - 1
    <2>1. u \in S \cup IF C THEN T ELSE {}
      BY ZenonT(60) DEF WriteNewPage
    <2> HIDE DEF T, C
    <2>2. u \in S \/ u \in T
      BY ZenonT(60), <2>1
    <2> QED BY ZenonT(60), <2>2 DEF T
  <1>2. CASE u \in WriteThrough(s, d, off, bytes)
    BY <1>2, WriteThroughWrites
  <1>3. ASSUME NEW p \in CachePages \ InUse(s), u = WriteCached(taken(p), d, off, bytes)
        PROVE  Writing(s, u, o, d, off, bytes)
    <2> DEFINE t == Taken(s, d, p, off)
    <2>1. CoreInv(s) /\ s \in State /\ (\A c \in Descriptors : c # d => Within(s, c)) /\ s.fds[d].cp = NoPage
      <3>1. CoreInv(s) /\ \A c \in Descriptors : c # d => Within(s, c)
        BY DEF CallInv
      <3>2. s.fds[d].cp = NoPage
        BY <3>1, OwnPage
      <3> QED BY <3>1, <3>2 DEF CoreInv
    <2>2. taken(p) = t
      <3> DEFINE page == [obj |-> s.fds[d].obj, off |-> off, data |-> <<>>]
      <3>1. WithPage(s, p, page).fds = s.fds
        BY <2>1 DEF WithPage, State
      <3>2. t = [[s EXCEPT !.pages[p] = page] EXCEPT !.fds[d] = [s.fds[d] EXCEPT !.cp = p]]
        BY DEF Taken, WithPage, WithFd
      <3> HIDE DEF t, page
      <3>3. [s EXCEPT !.pages[p] = page, !.fds[d].cp = p]
            = [[s EXCEPT !.pages[p] = page] EXCEPT !.fds[d] = [s.fds[d] EXCEPT !.cp = p]]
        BY <2>1 DEF State
      <3> QED BY <3>2, <3>3 DEF page
    <2> HIDE DEF t
    <2>3. n \in Nat /\ off \in 0 .. MaxSize /\ off + n <= MaxSize /\ n <= PageSize
      <3>1. n \in Nat /\ off + n <= MaxSize /\ n <= PageSize
        OBVIOUS
      <3> HIDE DEF n
      <3> QED BY <3>1, Constants
    <2>4. /\ CoreInv(t) /\ \A c \in Descriptors : c # d => Within(t, c)
          /\ t.fds[d].open /\ t.fds[d].cp = p /\ t.fds[d].at = s.fds[d].at
          /\ t.pages[p].off = off /\ End(t.pages[p]) = off
      BY <2>1, <2>3, TakenIs DEF t
    <2>5. p # NoPage
      BY Constants DEF CachePages, NoPage
    <2> DEFINE page == t.pages[t.fds[d].cp]
    <2>6. page.off <= off /\ off <= End(page) /\ off + n <= page.off + PageSize
      <3>1. page.off = off /\ End(page) = off
        BY <2>4
      <3> HIDE DEF page, n
      <3> QED BY <2>3, <3>1, Constants
    <2>7. SameView(s, t) /\ t.fds[d].obj = o /\ t.fds[d].append = s.fds[d].append
      BY <2>1, <2>3, TakenView DEF t
    <2>8. /\ t.fds[d].at <= off /\ t.fds[d].cp # NoPage /\ t.fds[d].open /\ o = t.fds[d].obj
          /\ t.fds[d].append \/ t.fds[d].at = off
      BY <2>4, <2>5, <2>7
    <2>9. u = WriteCached(t, d, off, bytes)
      BY Zenon, <1>3, <2>2
    <2>10. Writing(t, u, o, d, off, bytes)
      <3>1. CoreInv(t) /\ \A c \in Descriptors : c # d => Within(t, c)
        BY <2>4
      <3> HIDE DEF page
      <3> QED BY <2>6, <2>8, <2>9, <3>1, WriteCachedWrites DEF page
    <2>11. o \in Objs
      BY ZenonT(60), <2>1, Existing
    <2> QED BY <2>7, <2>10, <2>11, WritingView
  <1> QED BY ZenonT(60), <1>1, <1>2, <1>3

\* A write after what is cached was written.
LEMMA WritingThen ==
  ASSUME NEW s, CallInv(s), NEW m, NEW u, NEW o \in Objs, NEW d \in Descriptors, NEW off, NEW bytes,
         Others(s, m, o), KeptBut(s, m, o, {}), FileOf(m, o) = Whole(ContentOf(s, o)),
         HandleOf(m, d) = HandleOf(s, d), Writing(m, u, o, d, off, bytes)
  PROVE  Writing(s, u, o, d, off, bytes)
  <1> DEFINE c == ContentOf(s, o)
             new == Put(c, off, bytes)
  <1>1. /\ FileOf(s, o).data = c /\ FileOf(m, o).data = c /\ FileOf(m, o).kept = c
        /\ ContentOf(m, o) = c
    BY DEF FileOf, Whole
  <1>2. Others(m, u, o) => Others(s, u, o)
    BY DEF Others
  <1>3. \A moved : KeptBut(m, u, o, moved) => KeptBut(s, u, o, moved)
    BY <1>1, KeptThen
  <1> HIDE DEF c
  <1>4. CASE Writes(m, u, o, d, off, bytes)
    <2>1. PICK kept \in {FileOf(m, o).kept, FileOf(m, o).data, new} :
             FileOf(u, o) = [exists |-> TRUE, data |-> new, kept |-> kept]
      BY Zenon, <1>1, <1>4 DEF Writes
    <2>2. kept \in {FileOf(s, o).kept, FileOf(s, o).data, new}
      BY Zenon, <1>1
    <2>3. Writes(s, u, o, d, off, bytes)
      BY Zenon, <1>1, <1>2, <1>3, <1>4, <2>1, <2>2 DEF Writes
    <2> QED BY <2>3 DEF Writing
  <1>5. CASE WritesSome(m, u, o, off, bytes)
    <2>1. Mixed(u.files[o].data, {c, c, new})
      BY Zenon, <1>1, <1>5 DEF WritesSome
    <2>2. {c, c, new} \subseteq {c, FileOf(s, o).kept, new}
      OBVIOUS
    <2>3. Mixed(u.files[o].data, {c, FileOf(s, o).kept, new})
      BY <2>1, <2>2, MixedMore
    <2>4. WritesSome(s, u, o, off, bytes)
      BY Zenon, <1>1, <1>2, <1>3, <1>5, <2>3 DEF WritesSome
    <2> QED BY <2>4 DEF Writing
  <1> QED BY <1>4, <1>5 DEF Writing

\* Descriptor d of file o, where it appends or is not beyond the end.
LEMMA WholeIs ==
  ASSUME NEW v, NEW w, Whole(v) = Whole(w)
  PROVE  v = w
  BY DEF Whole

LEMMA FdParts ==
  ASSUME NEW s \in State, NEW d \in Descriptors
  PROVE  s.fds[d] \in FdType /\ s.fds[d].at \in Nat
  BY Parts DEF FdType

LEMMA HandleIs ==
  ASSUME NEW s, NEW d, s.fds[d].open, NEW o, o = s.fds[d].obj,
         s.fds[d].append \/ s.fds[d].cp # NoPage \/ ~(s.fds[d].at > Len(s.files[o].data))
  PROVE  HandleOf(s, d) = [obj |-> o, append |-> s.fds[d].append, at |-> IF s.fds[d].append THEN 0 ELSE s.fds[d].at]
  <1>1. s.fds[d].append \/ ~StrayIn(s, d)
    BY Zenon DEF StrayIn
  <1> QED BY <1>1 DEF HandleOf

\* SPIFFS_write that first writes what is cached.
LEMMA DumpedWrites ==
  ASSUME Careful, NEW s, CoreInv(s), NEW d \in Descriptors, s.fds[d].open, ~s.fds[d].direct,
         \A c \in Descriptors : c # d => Within(s, c), NEW o, o = s.fds[d].obj,
         s.fds[d].cp = NoPage => PagesOf(s, o) = {},
         NEW off \in Nat, NEW bytes \in Seq(Data), off + Len(bytes) <= MaxSize,
         s.fds[d].append \/ s.fds[d].at = off, s.fds[d].at <= off,
         s.fds[d].cp = NoPage => off <= Len(s.files[o].data),
         s.fds[d].cp # NoPage => off <= Larger(Len(s.files[o].data), End(s.pages[s.fds[d].cp])),
         NEW r \in WriteBack(s, d)
  PROVE  /\ ~r.ok => Writing(s, r.s, o, d, off, bytes)
         /\ r.ok => \A u \in WriteThrough(r.s, d, off, bytes) : Writing(s, u, o, d, off, bytes)
         /\ r.ok /\ Len(bytes) <= PageSize => \A u \in WriteNewPage(r.s, d, off, bytes) : Writing(s, u, o, d, off, bytes)
  <1> DEFINE m == r.s
             l == Len(s.files[o].data)
             e == End(s.pages[s.fds[d].cp])
             at == s.fds[d].at
  <1>1. s \in State /\ o \in Objs
    BY ZenonT(60), Existing DEF CoreInv
  <1>2. l \in Nat /\ at \in Nat /\ (s.fds[d].cp # NoPage => e \in Nat)
    <2>1. l \in Nat /\ at \in Nat
      BY <1>1, Parts DEF FdType
    <2>2. s.fds[d].cp # NoPage => s.fds[d].cp \in CachePages
      BY OwnPage
    <2> QED BY <1>1, <2>1, <2>2, Parts
  <1>3. CallInv(s)
    <2>1. Within(s, d)
      <3>1. s.fds[d].cp # NoPage => at <= Larger(l, e)
        <4>1. s.fds[d].cp # NoPage => off <= Larger(l, e)
          OBVIOUS
        <4>2. at <= off
          OBVIOUS
        <4> HIDE DEF at, l, e
        <4> QED BY <1>2, <4>1, <4>2 DEF Larger
      <3> QED BY <3>1 DEF Within
    <2> QED BY <2>1 DEF CallInv
  <1>4. Settles(s, r, o, {})
    <2>1. \A c \in Descriptors \ {} : Within(s, c)
      BY <1>3 DEF CallInv
    <2> QED BY <2>1, WriteBackSettles
  <1>5. /\ KeptBut(s, m, o, {}) /\ m \in State /\ (r.ok => Stores(s, m, o, Whole(ContentOf(s, o))))
        /\ Mixed(m.files[o].data, {ContentOf(s, o), s.files[o].data})
        /\ FileOf(m, o) = Whole(m.files[o].data)
    BY ZenonT(60), <1>1, <1>4, SettlesIs
  <1>6. ASSUME ~r.ok  PROVE Writing(s, m, o, d, off, bytes)
    <2>1. Failures # {} /\ Others(s, m, o)
      BY ZenonT(60), <1>4, <1>6 DEF Settles, Touches
    <2>2. FileOf(s, o).data = ContentOf(s, o) /\ FileOf(s, o).kept = s.files[o].data
      BY DEF FileOf
    <2> HIDE DEF m
    <2>3. Mixed(m.files[o].data, {FileOf(s, o).data, FileOf(s, o).kept, Put(FileOf(s, o).data, off, bytes)})
      <3>1. {ContentOf(s, o), s.files[o].data} \subseteq {FileOf(s, o).data, FileOf(s, o).kept, Put(FileOf(s, o).data, off, bytes)}
        BY SMTT(60), <2>2
      <3> DEFINE few == {ContentOf(s, o), s.files[o].data}
                 more == {FileOf(s, o).data, FileOf(s, o).kept, Put(FileOf(s, o).data, off, bytes)}
      <3>2. Mixed(m.files[o].data, few) /\ few \subseteq more
        BY Zenon, <1>5, <3>1
      <3> HIDE DEF few, more
      <3>3. Mixed(m.files[o].data, more)
        BY Zenon, <3>2, MixedMore
      <3> QED BY Zenon, <3>3 DEF more
    <2>4. WritesSome(s, m, o, off, bytes)
      BY Zenon, <1>5, <2>1, <2>3 DEF WritesSome
    <2> QED BY ZenonT(60), <1>5, <2>4 DEF Writing
  <1>7. Flushed(s, m, d)
    BY WriteBackIs
  <1>8. /\ m.fds[d].open /\ m.fds[d].obj = o /\ ~m.fds[d].direct /\ m.fds[d].append = s.fds[d].append
        /\ PagesOf(m, o) = {} /\ m.fds[d].at <= at /\ CallInv(m)
    <2>1. \A c \in Descriptors : Within(m, c)
      BY <1>3, <1>7 DEF Flushed, CallInv
    <2> QED BY <1>7, <2>1 DEF Flushed, CallInv
  <1>9. m.fds[d].append \/ m.fds[d].at = off
    <2>1. ~s.fds[d].append => ~StrayIn(s, d)
      <3> SUFFICES ASSUME ~s.fds[d].append, StrayIn(s, d) PROVE FALSE
        OBVIOUS
      <3>1. at > l /\ s.fds[d].cp = NoPage /\ at = off
        BY DEF StrayIn
      <3>2. off <= l
        BY <3>1
      <3> HIDE DEF at, l
      <3> QED BY <1>2, <3>1, <3>2
    <2>2. Steady(s, m, d)
      BY <1>4 DEF Settles, Touches
    <2> QED BY <1>8, <2>1, <2>2 DEF Steady
  <1>10. m.fds[d].at <= off
    <2>1. m.fds[d].at \in Nat
      BY Zenon, <1>5, FdParts
    <2> DEFINE a == m.fds[d].at
    <2>2. a \in Nat /\ a <= at /\ at <= off
      BY <1>8, <2>1
    <2> HIDE DEF a, at
    <2> QED BY <1>2, <2>2 DEF a
  <1> HIDE DEF m
  <1>11. ASSUME r.ok
         PROVE  off <= Len(m.files[o].data) /\ HandleOf(m, d) = HandleOf(s, d) /\ FileOf(m, o) = Whole(ContentOf(s, o))
                /\ Others(s, m, o)
    <2>1. FileOf(m, o) = Whole(ContentOf(s, o)) /\ Others(s, m, o)
      BY ZenonT(60), <1>5, <1>11 DEF Stores
    <2>2. m.files[o].data = ContentOf(s, o)
      BY Zenon, <1>5, <2>1, WholeIs
    <2> DEFINE k == Len(ContentOf(s, o))
    <2>3. k \in Nat /\ l <= k /\ (s.fds[d].cp # NoPage => k = Larger(l, e))
      <3>1. s.fds[d].cp # NoPage => s.fds[d].cp \in PagesOf(s, o)
        BY OwnPage
      <3>2. k \in Nat /\ l <= k /\ \A p \in PagesOf(s, o) : k = Larger(l, End(s.pages[p]))
        BY <1>1, ContentSeq
      <3> QED BY Zenon, <3>1, <3>2
    <2>4. off <= k
      <3>1. (s.fds[d].cp = NoPage => off <= l) /\ (s.fds[d].cp # NoPage => off <= Larger(l, e))
        OBVIOUS
      <3> HIDE DEF l, e, k
      <3> QED BY <1>2, <2>3, <3>1
    <2>5. off <= Len(m.files[o].data)
      BY Zenon, <2>2, <2>4
    <2>6. HandleOf(s, d) = [obj |-> o, append |-> s.fds[d].append, at |-> IF s.fds[d].append THEN 0 ELSE at]
      <3>1. s.fds[d].append \/ s.fds[d].cp # NoPage \/ ~(at > l)
        <4>1. s.fds[d].append \/ s.fds[d].cp # NoPage \/ (off <= l /\ at = off)
          OBVIOUS
        <4> HIDE DEF at, l
        <4> QED BY <1>2, <4>1
      <3> QED BY <3>1, HandleIs
    <2>7. HandleOf(m, d) = [obj |-> o, append |-> m.fds[d].append, at |-> IF m.fds[d].append THEN 0 ELSE m.fds[d].at]
      <3>1. m.fds[d].append \/ ~(m.fds[d].at > Len(m.files[o].data))
        <4> DEFINE j == Len(m.files[o].data)
                   a == m.fds[d].at
        <4>1. (m.fds[d].append \/ a = off) /\ off <= j /\ j \in Nat
          BY <1>9, <2>2, <2>3, <2>5
        <4> HIDE DEF j, a
        <4> QED BY <4>1 DEF j, a
      <3> QED BY <1>8, <3>1, HandleIs
    <2>8. m.fds[d].append \/ m.fds[d].at = at
      BY <1>8, <1>9
    <2> QED BY SMTT(60), <1>8, <2>1, <2>5, <2>6, <2>7, <2>8
  <1>12. ASSUME r.ok, NEW u \in WriteThrough(m, d, off, bytes)  PROVE Writing(s, u, o, d, off, bytes)
    <2>1. Writing(m, u, o, d, off, bytes)
      BY ZenonT(60), <1>8, <1>9, <1>10, <1>11, <1>12, WriteThroughWrites
    <2> QED BY ZenonT(60), <1>1, <1>3, <1>5, <1>11, <1>12, <2>1, WritingThen
  <1>13. ASSUME r.ok, Len(bytes) <= PageSize, NEW u \in WriteNewPage(m, d, off, bytes)  PROVE Writing(s, u, o, d, off, bytes)
    <2>1. Writing(m, u, o, d, off, bytes)
      BY <1>8, <1>9, <1>10, <1>11, <1>13, WriteNewPageWrites
    <2> QED BY ZenonT(60), <1>1, <1>3, <1>5, <1>11, <1>13, <2>1, WritingThen
  <1> QED BY <1>6, <1>12, <1>13 DEF m

LEMMA WritingStep ==
  ASSUME StateInv, NEW d \in Descriptors, fds[d].open, NEW o, o = fds[d].obj, NEW bytes,
         NEW off \in Nat, off = IF fds[d].append THEN Len(ContentOf(now, o)) ELSE HandleOf(now, d).at,
         NEW t, Writing(now, t, o, d, off, bytes), Returns(t)
  PROVE  Store!Write(d, bytes) \/ Store!WriteFails(d, bytes)
  <1> DEFINE f == FileOf(now, o)
             new == Put(f.data, off, bytes)
  <1>1. /\ o \in Objs /\ o # NoObj /\ ByteHandles[d] = HandleOf(now, d) /\ HandleOf(now, d).obj = o
        /\ HandleOf(now, d).append = fds[d].append /\ ByteFiles[o] = f /\ f.data = ContentOf(now, o)
    BY OpenHandle
  <1>2. t \in State /\ Becomes(t) /\ got' = NoRead
    BY DEF Writing, Returns
  <1>3. ByteFiles' = FilesOf(t) /\ ByteHandles' = HandlesOf(t)
    BY <1>2, MapsNext
  <1>4. ByteHandles'[d] = HandleOf(t, d) /\ ByteFiles'[o] = FileOf(t, o)
    BY <1>1, <1>3 DEF HandlesOf, FilesOf
  <1> HIDE DEF f
  <1>5. off = IF ByteHandles[d].append THEN Len(ByteFiles[o].data) ELSE ByteHandles[d].at
    BY Zenon, <1>1
  <1>6. off # Store!Lost
    BY DEF Store!Lost
  <1>7. new = Store!Put(ByteFiles[o].data, off, bytes)
    BY Zenon, <1>1 DEF Put, Store!Put, Smaller, Store!Shorter
  <1>8. \A moved : KeptBut(now, t, o, moved) => Store!KeepBut(o, moved)
    BY <1>1, <1>2, KeptIs
  <1>9. got' = Store!NoRead
    BY <1>2 DEF Store!NoRead, NoRead
  <1> DEFINE x == ByteHandles[d].obj
             at == IF ByteHandles[d].append THEN Len(ByteFiles[x].data) ELSE ByteHandles[d].at
             data == Store!Put(ByteFiles[x].data, at, bytes)
  <1> HIDE DEF new
  <1>10. x = o /\ at = off /\ data = new
    BY Zenon, <1>1, <1>5, <1>7
  <1> HIDE DEF x, at, data
  <1>11. CASE Writes(now, t, o, d, off, bytes)
    <2>1. PICK kept \in {f.kept, f.data, new} : FileOf(t, o) = [exists |-> TRUE, data |-> new, kept |-> kept]
      BY Zenon, <1>11 DEF Writes, f, new
    <2>2. Stores(now, t, o, [exists |-> TRUE, data |-> new, kept |-> kept])
      BY <1>11, <2>1 DEF Stores, Writes
    <2>3. ByteFiles' = [ByteFiles EXCEPT ![o] = [exists |-> TRUE, data |-> new, kept |-> kept]]
      BY <1>1, <1>2, <2>2, StoresIs
    <2>4. kept \in {ByteFiles[o].kept, ByteFiles[o].data, new}
      BY Zenon, <1>1
    <2>5. ByteHandles'[d] = IF ByteHandles[d].append THEN ByteHandles[d]
                            ELSE [ByteHandles[d] EXCEPT !.at = off + Len(bytes)]
      BY Zenon, <1>1, <1>4, <1>11 DEF Writes
    <2>6. Store!KeepBut(o, {d})
      BY <1>8, <1>11 DEF Writes
    <2>7. /\ x # NoObj /\ at # Store!Lost /\ got' = Store!NoRead
          /\ ByteHandles'[d] = IF ByteHandles[d].append THEN ByteHandles[d]
                               ELSE [ByteHandles[d] EXCEPT !.at = at + Len(bytes)]
          /\ \E k \in {ByteFiles[x].kept, ByteFiles[x].data, data} :
                ByteFiles' = [ByteFiles EXCEPT ![x] = [exists |-> TRUE, data |-> data, kept |-> k]]
          /\ Store!KeepBut(x, {d})
      BY Zenon, <1>1, <1>6, <1>9, <1>10, <2>3, <2>4, <2>5, <2>6
    <2>8. Store!Write(d, bytes)
      BY Zenon, <2>7 DEF Store!Write, x, at, data
    <2> QED BY <2>8
  <1>12. CASE WritesSome(now, t, o, off, bytes)
    <2> DEFINE g == Whole(t.files[o].data)
    <2>1. /\ Failures # {} /\ FileOf(t, o) = g /\ Others(now, t, o) /\ KeptBut(now, t, o, {})
          /\ Mixed(t.files[o].data, {f.data, f.kept, new})
      BY Zenon, <1>12 DEF WritesSome, f, new
    <2>2. ByteFiles' = [ByteFiles EXCEPT ![o] = g]
      <3>1. Stores(now, t, o, g)
        BY <2>1 DEF Stores
      <3> QED BY <1>1, <1>2, <3>1, StoresIs
    <2>3. ByteFiles'[o] = g /\ g.data = t.files[o].data /\ g.kept = g.data /\ g.exists
      BY <1>4, <2>1 DEF Whole
    <2> HIDE DEF g
    <2>4. Store!MixOf(ByteFiles'[o].data, {ByteFiles[o].data, ByteFiles[o].kept, new})
      <3>1. Mixed(ByteFiles'[o].data, {ByteFiles[o].data, ByteFiles[o].kept, new})
        BY Zenon, <1>1, <2>1, <2>3
      <3> QED BY Zenon, <3>1 DEF Mixed, Store!MixOf
    <2>5. Store!KeepBut(o, {})
      BY <1>8, <2>1
    <2>6. ByteFiles' = [ByteFiles EXCEPT ![o] = ByteFiles'[o]]
      BY Zenon, <2>2, <2>3
    <2>7. ByteFiles'[o].kept = ByteFiles'[o].data /\ ByteFiles'[o].exists
      BY Zenon, <2>3
    <2>8. /\ Failures # {} /\ x # NoObj /\ at # Store!Lost /\ got' = Store!NoRead
          /\ Store!KeepBut(x, {}) /\ ByteFiles' = [ByteFiles EXCEPT ![x] = ByteFiles'[x]]
          /\ Store!MixOf(ByteFiles'[x].data, {ByteFiles[x].data, ByteFiles[x].kept, data})
          /\ ByteFiles'[x].kept = ByteFiles'[x].data /\ ByteFiles'[x].exists
      BY Zenon, <1>1, <1>6, <1>9, <1>10, <2>1, <2>4, <2>5, <2>6, <2>7
    <2>9. Store!WriteFails(d, bytes)
      BY Zenon, <2>8 DEF Store!WriteFails, x, at, data
    <2> QED BY <2>9
  <1> QED BY <1>11, <1>12 DEF Writing

\* The state a write starts from, and where it is to write.
Starts(s, d, o, off) ==
    /\ SameView(now, s) /\ s.fds[d].obj = o
    /\ s.fds[d].append \/ s.fds[d].at = off
    /\ off = IF fds[d].append THEN Len(ContentOf(now, o)) ELSE HandleOf(now, d).at

LEMMA ReadyView ==
  ASSUME StateInv, NEW d \in Descriptors, fds[d].open, ~Stray(d), NEW o, o = fds[d].obj,
         NEW at, at = IF fds[d].append THEN Length(fds[d].size) ELSE fds[d].at,
         NEW s, s = Associate(MovedTo(now, d, at), d),
         NEW off, off = IF fds[d].append /\ s.fds[d].cp # NoPage
                        THEN Larger(Length(fds[d].size), End(pages[s.fds[d].cp])) ELSE at
  PROVE  Starts(s, d, o, off)
  <1> DEFINE l == Len(files[o].data)
             t == MovedTo(now, d, at)
             p == s.fds[d].cp
             e == End(pages[p])
  <1>1. /\ CoreInv(now) /\ now \in State /\ now.fds = fds /\ now.files = files /\ now.pages = pages
        /\ \A c \in Descriptors : Within(now, c)
    BY NowState DEF StateInv, CallInv
  <1>2. o \in Objs /\ Length(fds[d].size) = l
    BY <1>1 DEF CoreInv, Handles, Lengths
  <1>3. l \in 0 .. MaxSize /\ fds[d].at \in 0 .. MaxSize
    BY ZenonT(60), <1>1, <1>2, Parts DEF FdType
  <1>4. at \in 0 .. MaxSize /\ (fds[d].append => at = l) /\ (~fds[d].append => at = fds[d].at)
    BY ZenonT(60), <1>2, <1>3
  <1>5. CoreInv(t)
    BY <1>1, <1>4, MovedCore
  <1>6. OnlyFd(now, t, d) /\ t.fds[d].at = at /\ SameFd(now, t, d)
    BY <1>1, <1>4, MovedIs
  <1>7. /\ t.fds[d].open /\ t.fds[d].obj = o /\ t.fds[d].append = fds[d].append /\ t.fds[d].cp = fds[d].cp
        /\ t.files = files /\ t.pages = pages /\ \A c \in Descriptors : c # d => t.fds[c] = fds[c]
    BY ZenonT(60), <1>1, <1>6 DEF OnlyFd, SameFd
  <1> HIDE DEF t
  <1>8. Linked(t, s, d)
    BY SMTT(60), <1>5, <1>7, AssociateIs DEF t
  <1>9. /\ s.fds[d].open /\ s.fds[d].obj = o /\ s.fds[d].append = fds[d].append /\ s.fds[d].at = at
        /\ (fds[d].cp # NoPage => s.fds[d].cp = fds[d].cp) /\ (s.fds[d].cp = NoPage => PagesOf(s, o) = {})
        /\ s.files = files /\ s.pages = pages /\ \A c \in Descriptors : c # d => s.fds[c] = fds[c]
    <2>1. s.fds[d].open /\ s.fds[d].obj = o /\ s.fds[d].append = fds[d].append /\ s.fds[d].at = at
      BY ZenonT(60), <1>6, <1>7, <1>8 DEF Linked
    <2>2. (fds[d].cp # NoPage => s.fds[d].cp = fds[d].cp) /\ (s.fds[d].cp = NoPage => PagesOf(s, o) = {})
      BY ZenonT(60), <1>7, <1>8, <2>1 DEF Linked
    <2>3. s.files = files /\ s.pages = pages /\ \A c \in Descriptors : c # d => s.fds[c] = fds[c]
      BY ZenonT(60), <1>7, <1>8 DEF Linked, OnlyFd
    <2> QED BY ZenonT(60), <2>1, <2>2, <2>3
  <1>10. \A x : FileOf(s, x) = FileOf(now, x) /\ PagesOf(s, x) = PagesOf(now, x)
    <2> TAKE x
    <2>1. SamePages(now, s, x) /\ s.files[x] = now.files[x]
      BY ZenonT(60), <1>1, <1>9 DEF SamePages
    <2> QED BY <2>1, SameFile
  <1>11. fds[d].append \/ fds[d].cp # NoPage \/ ~(fds[d].at > l)
    BY Zenon DEF Stray
  <1>12. HandleOf(now, d) = [obj |-> o, append |-> fds[d].append, at |-> IF fds[d].append THEN 0 ELSE fds[d].at]
    <2> HIDE DEF l
    <2>1. now.fds[d].append \/ now.fds[d].cp # NoPage \/ ~(now.fds[d].at > Len(now.files[o].data))
      BY <1>1, <1>11 DEF l
    <2> QED BY <1>1, <2>1, HandleIs
  <1>13. HandleOf(s, d) = [obj |-> o, append |-> s.fds[d].append, at |-> IF s.fds[d].append THEN 0 ELSE s.fds[d].at]
    <2>1. s.fds[d].append \/ s.fds[d].cp # NoPage \/ ~(s.fds[d].at > Len(s.files[o].data))
      BY Zenon, <1>4, <1>9, <1>11
    <2>2. s.fds[d].open /\ o = s.fds[d].obj
      BY Zenon, <1>9
    <2> QED BY ZenonT(60), <2>1, <2>2, HandleIs
  <1>14. SameView(now, s)
    <2>1. ASSUME NEW c \in Descriptors  PROVE HandleOf(s, c) = HandleOf(now, c)
      <3>1. CASE c = d
        BY ZenonT(60), <1>4, <1>9, <1>12, <1>13, <3>1
      <3>2. CASE c # d
        <4>1. s.fds[c] = now.fds[c] /\ s.files = now.files
          BY <1>1, <1>9, <3>2
        <4> QED BY <4>1, SameHandle
      <3> QED BY <3>1, <3>2
    <2> QED BY <1>10, <2>1 DEF SameView
  <1>15. off = IF fds[d].append THEN Len(ContentOf(now, o)) ELSE HandleOf(now, d).at
    <2>1. CASE fds[d].append
      <3>1. CASE p = NoPage
        <4>1. ContentOf(now, o) = files[o].data
          BY ZenonT(60), <1>1, <1>9, <1>10, <3>1 DEF ContentOf
        <4> QED BY <1>4, <2>1, <3>1, <4>1
      <3>2. CASE p # NoPage
        <4>1. CoreInv(s)
          BY ZenonT(60), <1>8 DEF Linked
        <4>2. p \in PagesOf(now, o)
          BY ZenonT(60), <1>9, <1>10, <3>2, <4>1, OwnPage
        <4>3. Len(ContentOf(now, o)) = Larger(l, e)
          BY Zenon, <1>1, <1>2, <4>2, ContentSeq
        <4> QED BY Zenon, <1>2, <2>1, <3>2, <4>3
      <3> QED BY ZenonT(60), <3>1, <3>2
    <2>2. CASE ~fds[d].append
      <3>1. off = fds[d].at
        BY <1>4, <2>2
      <3> QED BY <1>12, <2>2, <3>1
    <2> QED BY ZenonT(60), <2>1, <2>2
  <1>16. s.fds[d].append \/ s.fds[d].at = off
    BY ZenonT(60), <1>9
  <1> QED BY ZenonT(60), <1>9, <1>14, <1>15, <1>16 DEF Starts

LEMMA WriteStep ==
  ASSUME Careful, StateInv, NEW d \in Descriptors, NEW bytes \in Bytes, Write(d, bytes)
  PROVE  Store!Write(d, bytes) \/ Store!WriteFails(d, bytes)
  <1> DEFINE o == fds[d].obj
             size == Length(fds[d].size)
             at == IF fds[d].append THEN size ELSE fds[d].at
             s == Associate([now EXCEPT !.fds[d].at = at], d)
             p == s.fds[d].cp
             off == IF fds[d].append /\ p # NoPage THEN Larger(size, End(pages[p])) ELSE at
             small == Len(bytes) < PageSize
             Dumped(r) == IF ~r.ok THEN {r.s}
                          ELSE IF small THEN WriteNewPage(r.s, d, off, bytes)
                          ELSE WriteThrough(r.s, d, off, bytes)
  <1>1. fds[d].open /\ off + Len(bytes) <= MaxSize
    BY Zenon DEF Write
  <1>2. ~Stray(d)
    BY Zenon DEF Write, Careful
  <1>3. PICK t \in (IF fds[d].direct THEN WriteThrough(s, d, off, bytes)
                    ELSE IF small /\ InPage(p, off, Len(bytes)) THEN {WriteCached(s, d, off, bytes)}
                    ELSE UNION {Dumped(r) : r \in WriteBack(s, d)}) : Returns(t)
    BY Zenon DEF Write
  <1>4. s = Associate(MovedTo(now, d, at), d)
    <2>1. [now EXCEPT !.fds[d].at = at] = MovedTo(now, d, at)
      BY Zenon DEF MovedTo, WithFd
    <2> QED BY Zenon, <2>1
  <1>5. Ready(s, d, off)
    <2> HIDE DEF s
    <2> QED BY Zenon, <1>1, <1>2, <1>4, ReadyIs
  <1>6. /\ SameView(now, s) /\ s.fds[d].obj = o
        /\ s.fds[d].append \/ s.fds[d].at = off
        /\ off = IF fds[d].append THEN Len(ContentOf(now, o)) ELSE HandleOf(now, d).at
    <2>1. /\ at = IF fds[d].append THEN Length(fds[d].size) ELSE fds[d].at
          /\ off = IF fds[d].append /\ s.fds[d].cp # NoPage
                   THEN Larger(Length(fds[d].size), End(pages[s.fds[d].cp])) ELSE at
      BY Zenon
    <2>2. fds[d].open /\ o = fds[d].obj
      BY <1>1
    <2> HIDE DEF s, at, off, o
    <2>3. Starts(s, d, o, off)
      BY Zenon, <1>2, <1>4, <2>1, <2>2, ReadyView
    <2> QED BY Zenon, <2>3 DEF Starts
  <1>7. bytes \in Seq(Data)
    BY Zenon, BytesAre
  <1> HIDE DEF s, at, off
  <1>8. /\ CoreInv(s) /\ s.fds[d].open /\ s.fds[d].direct = fds[d].direct /\ s.pages = pages
        /\ \A c \in Descriptors : c # d => Within(s, c)
        /\ off \in Nat /\ s.fds[d].at <= off
        /\ s.fds[d].cp = NoPage => PagesOf(s, s.fds[d].obj) = {}
        /\ s.fds[d].cp = NoPage => off <= Len(s.files[s.fds[d].obj].data)
        /\ s.fds[d].cp # NoPage => off <= Larger(Len(s.files[s.fds[d].obj].data), End(s.pages[s.fds[d].cp]))
    BY <1>5 DEF Ready
  <1> HIDE DEF o
  <1>9. Writing(s, t, o, d, off, bytes)
    <2>1. CASE fds[d].direct
      <3>1. t \in WriteThrough(s, d, off, bytes)
        BY <1>3, <2>1
      <3>2. s.fds[d].cp = NoPage /\ PagesOf(s, o) = {}
        BY <1>6, <1>8, <2>1, DirectApart
      <3>3. CallInv(s)
        <4>1. Within(s, d)
          BY <3>2 DEF Within
        <4> QED BY <1>8, <4>1 DEF CallInv
      <3>4. off <= Len(s.files[o].data)
        BY <1>6, <1>8, <3>2
      <3> QED BY <1>1, <1>6, <1>7, <1>8, <3>1, <3>2, <3>3, <3>4, WriteThroughWrites
    <2>2. CASE ~fds[d].direct /\ small /\ InPage(p, off, Len(bytes))
      <3>1. t = WriteCached(s, d, off, bytes)
        BY <1>3, <2>2
      <3>2. /\ p # NoPage /\ s.pages[p].off <= off /\ off <= End(s.pages[p])
            /\ off + Len(bytes) <= s.pages[p].off + PageSize
        BY <1>8, <2>2 DEF InPage
      <3> DEFINE page == s.pages[p]
      <3>3. page.off <= off /\ off <= End(page) /\ off + Len(bytes) <= page.off + PageSize
        BY <3>2
      <3>4. page = s.pages[s.fds[d].cp]
        OBVIOUS
      <3> HIDE DEF page
      <3> QED BY ZenonT(60), <1>1, <1>6, <1>7, <1>8, <3>1, <3>2, <3>3, <3>4, WriteCachedWrites
    <2>3. CASE ~fds[d].direct /\ ~(small /\ InPage(p, off, Len(bytes)))
      <3>1. PICK r \in WriteBack(s, d) : t \in Dumped(r)
        BY <1>3, <2>3
      <3>2. /\ ~r.ok => Writing(s, r.s, o, d, off, bytes)
            /\ r.ok => \A u \in WriteThrough(r.s, d, off, bytes) : Writing(s, u, o, d, off, bytes)
            /\ r.ok /\ Len(bytes) <= PageSize => \A u \in WriteNewPage(r.s, d, off, bytes) : Writing(s, u, o, d, off, bytes)
        <4>1. ~s.fds[d].direct /\ o = s.fds[d].obj
          BY <1>6, <1>8, <2>3
        <4>2. /\ s.fds[d].cp = NoPage => PagesOf(s, o) = {}
              /\ s.fds[d].cp = NoPage => off <= Len(s.files[o].data)
              /\ s.fds[d].cp # NoPage => off <= Larger(Len(s.files[o].data), End(s.pages[s.fds[d].cp]))
          BY Zenon, <1>8, <4>1
        <4> QED BY ZenonT(60), <1>1, <1>6, <1>7, <1>8, <4>1, <4>2, DumpedWrites
      <3>3. small => Len(bytes) <= PageSize
        <4> DEFINE n == Len(bytes)
        <4>1. n \in Nat /\ (small <=> n < PageSize)
          BY <1>7
        <4> HIDE DEF n, small
        <4>2. small => n <= PageSize
          BY <4>1, Constants
        <4> QED BY <4>2 DEF n
      <3> HIDE DEF small
      <3> QED BY <3>1, <3>2, <3>3
    <2> QED BY <2>1, <2>2, <2>3
  <1>10. o \in Objs
    BY <1>1, OpenHandle DEF o
  <1>11. Writing(now, t, o, d, off, bytes)
    BY <1>6, <1>9, <1>10, WritingView
  <1>12. Returns(t)
    BY <1>3
  <1> QED BY <1>1, <1>6, <1>8, <1>11, <1>12, WritingStep DEF o

-----------------------------------------------------------------------------
(* The calls that write nothing to a file *)

\* A call that changes nothing the mapping shows.
LEMMA IdleStep ==
  ASSUME NEW t \in State, Returns(t), SameView(now, t)
  PROVE  Store!Idle
  <1>1. Becomes(t) /\ got' = NoRead
    BY DEF Returns
  <1>2. ByteFiles' = FilesOf(t) /\ ByteHandles' = HandlesOf(t) /\ ByteFiles = FilesOf(now) /\ ByteHandles = HandlesOf(now)
    BY <1>1, MapsNow, MapsNext
  <1>3. FilesOf(t) = FilesOf(now) /\ HandlesOf(t) = HandlesOf(now)
    BY Zenon DEF SameView, FilesOf, HandlesOf
  <1> QED BY <1>1, <1>2, <1>3 DEF Store!Idle, Store!NoRead, NoRead

LEMMA ViewSame ==
  ASSUME NEW s, NEW t, t.files = s.files, t.pages = s.pages,
         \A c \in Descriptors : t.fds[c] = s.fds[c] \/ (~s.fds[c].open /\ ~t.fds[c].open)
  PROVE  SameView(s, t)
  <1>1. \A x \in Objs : FileOf(t, x) = FileOf(s, x)
    <2> TAKE x \in Objs
    <2>1. SamePages(s, t, x) /\ t.files[x] = s.files[x]
      BY DEF SamePages
    <2> QED BY <2>1, SameFile
  <1>2. ASSUME NEW c \in Descriptors  PROVE HandleOf(t, c) = HandleOf(s, c)
    <2>1. CASE t.fds[c] = s.fds[c]
      BY <2>1, SameHandle
    <2>2. CASE ~s.fds[c].open /\ ~t.fds[c].open
      BY <2>2 DEF HandleOf
    <2> QED BY <2>1, <2>2
  <1> QED BY <1>1, <1>2 DEF SameView

LEMMA GcStep ==
  ASSUME StateInv, NEW o \in Objs, Gc(o)
  PROVE  Store!Idle
  <1> DEFINE moved == TRUE
  <1>1. now \in State /\ Handles(now)
    BY DEF StateInv, CallInv, CoreInv
  <1>2. Returns(Event(now, o, 0, moved, NoPage))
    BY DEF Gc
  <1> HIDE DEF moved
  <1>3. Event(now, o, 0, moved, NoPage) = now
    BY <1>1, EventMoved
  <1>4. SameView(now, now)
    BY DEF SameView
  <1> QED BY <1>1, <1>2, <1>3, <1>4, IdleStep

LEMMA OpenFailsStep ==
  ASSUME StateInv, NEW d \in Descriptors, OpenFails(d)
  PROVE  Store!Idle
  <1> DEFINE fd == [fds[d] EXCEPT !.used = TRUE]
             t == WithFd(now, d, fd)
  <1>1. now \in State /\ now.fds = fds
    BY NowState
  <1>2. ~fds[d].open
    BY DEF OpenFails, Candidate
  <1>3. fds[d] \in FdType
    BY <1>1, Parts
  <1>4. fd \in FdType /\ ~fd.open
    BY <1>2, <1>3 DEF FdType
  <1>5. Returns(t)
    BY <1>1 DEF OpenFails, WithFd
  <1> HIDE DEF fd
  <1>6. OnlyFd(now, t, d) /\ t.fds[d] = fd
    BY <1>1, <1>4, FdSet
  <1> HIDE DEF t
  <1>7. /\ t \in State /\ t.files = now.files /\ t.pages = now.pages
        /\ \A c \in Descriptors : c # d => t.fds[c] = now.fds[c]
    BY <1>6 DEF OnlyFd
  <1>8. SameView(now, t)
    BY <1>1, <1>2, <1>4, <1>6, <1>7, ViewSame
  <1> QED BY <1>5, <1>7, <1>8, IdleStep

\* A file no descriptor is of has nothing cached, and may change.
LEMMA UnheldView ==
  ASSUME NEW s, CoreInv(s), NEW o \in Objs, \A c \in Descriptors : s.fds[c].open => s.fds[c].obj # o,
         NEW file \in FileType, NEW t, t = WithFile(s, o, file)
  PROVE  /\ t \in State /\ PagesOf(s, o) = {} /\ PagesOf(t, o) = {} /\ Others(s, t, o) /\ t.files[o] = file
         /\ FileOf(t, o) = [exists |-> file.exists, data |-> file.data, kept |-> file.data]
         /\ \A c \in Descriptors : HandleOf(t, c) = HandleOf(s, c)
  <1>1. s \in State
    BY DEF CoreInv
  <1>2. OnlyFile(s, t, o) /\ t.files[o] = file
    BY <1>1, FileSet
  <1>3. /\ t \in State /\ t.fds = s.fds /\ t.pages = s.pages
        /\ \A x \in Objs : x # o => t.files[x] = s.files[x]
    BY <1>2 DEF OnlyFile
  <1>4. PagesOf(s, o) = {}
    <2>1. ASSUME NEW p \in PagesOf(s, o)  PROVE FALSE
      BY FoundIs
    <2> QED BY <2>1
  <1>5. PagesOf(t, o) = {}
    BY <1>3, <1>4 DEF PagesOf
  <1>6. ASSUME NEW x \in Objs \ {o}  PROVE FileOf(t, x) = FileOf(s, x)
    <2>1. SamePages(s, t, x) /\ t.files[x] = s.files[x]
      BY <1>3 DEF SamePages
    <2> QED BY <2>1, SameFile
  <1>7. ASSUME NEW c \in Descriptors  PROVE HandleOf(t, c) = HandleOf(s, c)
    <2>1. s.fds[c].open => t.files[s.fds[c].obj] = s.files[s.fds[c].obj]
      BY <1>3 DEF CoreInv, Handles
    <2> QED BY ZenonT(60), <1>3, <2>1, SameHandle
  <1> QED BY <1>2, <1>3, <1>4, <1>5, <1>6, <1>7 DEF FileOf, ContentOf, Others

LEMMA CreatStep ==
  ASSUME StateInv, NEW o \in Objs, Creat(o)
  PROVE  Store!Create(o)
  <1> DEFINE t == WithFile(now, o, EmptyFile)
  <1>1. CoreInv(now) /\ now.files = files
    BY NowState
  <1>2. ~files[o].exists /\ Returns(t)
    BY DEF Creat, WithFile
  <1>3. \A c \in Descriptors : now.fds[c].open => now.fds[c].obj # o
    BY <1>1, <1>2 DEF CoreInv, Handles
  <1> DEFINE file == EmptyFile
  <1>4. file \in FileType /\ file.exists /\ file.data = <<>>
    BY FreshIs DEF EmptyFile
  <1>5. t = WithFile(now, o, file)
    OBVIOUS
  <1> HIDE DEF t, file
  <1>6. /\ t \in State /\ Others(now, t, o)
        /\ FileOf(t, o) = [exists |-> file.exists, data |-> file.data, kept |-> file.data]
        /\ \A c \in Descriptors : HandleOf(t, c) = HandleOf(now, c)
    BY <1>1, <1>3, <1>4, <1>5, UnheldView
  <1>7. Becomes(t) /\ got' = NoRead
    BY <1>2 DEF Returns
  <1>8. FileOf(t, o) = Store!EmptyFile
    BY <1>4, <1>6 DEF Store!EmptyFile, EmptyFile, file
  <1>9. ByteFiles' = [ByteFiles EXCEPT ![o] = Store!EmptyFile]
    <2>1. Stores(now, t, o, Store!EmptyFile)
      BY <1>6, <1>8 DEF Stores
    <2> QED BY <1>6, <1>7, <2>1, StoresIs
  <1>10. ByteHandles' = ByteHandles
    BY Zenon, <1>6, <1>7, MapsNow, MapsNext DEF HandlesOf
  <1>11. ~ByteFiles[o].exists
    BY <1>2, MapsNow DEF ByteFiles
  <1> QED BY <1>7, <1>9, <1>10, <1>11 DEF Store!Create, Store!NoRead, NoRead

-----------------------------------------------------------------------------
(* Mounting *)

LEMMA MountedView ==
  ASSUME NEW s, CoreInv(s), NEW t, t = Mounted(s)
  PROVE  /\ t \in State
         /\ \A o \in Objs : FileOf(t, o) = [exists |-> s.files[o].exists, data |-> s.files[o].data, kept |-> s.files[o].data]
         /\ \A d \in Descriptors : HandleOf(t, d) = [obj |-> NoObj, append |-> FALSE, at |-> 0]
  <1> DEFINE fdsNew == [d \in Descriptors |-> FreshFd]
             pagesNew == [p \in CachePages |-> FreshPage]
  <1>1. s \in State
    BY DEF CoreInv
  <1>2. fdsNew \in [Descriptors -> FdType] /\ pagesNew \in [CachePages -> PageType]
    BY FreshIs
  <1>3. /\ \A d \in Descriptors : ~fdsNew[d].open
        /\ \A p \in CachePages : pagesNew[p].obj = NoObj
    BY FreshIs
  <1>4. t = [s EXCEPT !.fds = fdsNew, !.pages = pagesNew]
    BY DEF Mounted
  <1> HIDE DEF fdsNew, pagesNew
  <1>5. t \in State /\ t.files = s.files /\ t.fds = fdsNew /\ t.pages = pagesNew
    BY <1>1, <1>2, <1>4 DEF State
  <1>6. \A o \in Objs : PagesOf(t, o) = {}
    BY <1>3, <1>5, Constants DEF PagesOf
  <1>7. \A o \in Objs : FileOf(t, o) = [exists |-> s.files[o].exists, data |-> s.files[o].data, kept |-> s.files[o].data]
    BY <1>5, <1>6 DEF FileOf, ContentOf
  <1>8. \A d \in Descriptors : HandleOf(t, d) = [obj |-> NoObj, append |-> FALSE, at |-> 0]
    BY <1>3, <1>5 DEF HandleOf
  <1> QED BY <1>5, <1>7, <1>8

LEMMA MountsAll ==
  ASSUME NEW s, CoreInv(s), Returns(Mounted(s))
  PROVE  /\ Store!AllClosed
         /\ ByteFiles' = [o \in Objs |-> [exists |-> s.files[o].exists, data |-> s.files[o].data, kept |-> s.files[o].data]]
  <1> DEFINE t == Mounted(s)
  <1>1. Becomes(t) /\ got' = NoRead
    BY DEF Returns
  <1> HIDE DEF t
  <1>2. /\ t \in State
        /\ \A o \in Objs : FileOf(t, o) = [exists |-> s.files[o].exists, data |-> s.files[o].data, kept |-> s.files[o].data]
        /\ \A d \in Descriptors : HandleOf(t, d) = [obj |-> NoObj, append |-> FALSE, at |-> 0]
    BY MountedView DEF t
  <1>3. ByteFiles' = FilesOf(t) /\ ByteHandles' = HandlesOf(t)
    BY <1>1, <1>2, MapsNext
  <1>4. ByteFiles' = [o \in Objs |-> [exists |-> s.files[o].exists, data |-> s.files[o].data, kept |-> s.files[o].data]]
    BY Zenon, <1>2, <1>3 DEF FilesOf
  <1>5. ByteHandles' = [d \in Descriptors |-> [obj |-> NoObj, append |-> FALSE, at |-> 0]]
    BY Zenon, <1>2, <1>3 DEF HandlesOf
  <1>6. Store!AllClosed
    BY <1>1, <1>5 DEF Store!AllClosed, Store!Descriptors, Store!Closed, Descriptors, Store!NoRead, NoRead
  <1> QED BY <1>4, <1>6

LEMMA PowerLossStep ==
  ASSUME StateInv, PowerLoss
  PROVE  Store!PowerLoss
  <1>1. CoreInv(now) /\ Returns(Mounted(now)) /\ now.files = files
    BY NowState DEF PowerLoss
  <1>2. /\ Store!AllClosed
        /\ ByteFiles' = [o \in Objs |-> [exists |-> files[o].exists, data |-> files[o].data, kept |-> files[o].data]]
    BY <1>1, MountsAll
  <1>3. \A o \in Objs : [ByteFiles[o] EXCEPT !.data = ByteFiles[o].kept]
                        = [exists |-> files[o].exists, data |-> files[o].data, kept |-> files[o].data]
    BY DEF ByteFiles
  <1>4. ByteFiles' = [o \in Objs |-> [ByteFiles[o] EXCEPT !.data = ByteFiles[o].kept]]
    BY Zenon, <1>2, <1>3
  <1> QED BY <1>2, <1>4 DEF Store!PowerLoss

LEMMA InitStep ==
  ASSUME Init
  PROVE  Store!Init
  <1>1. files = [o \in Objs |-> NoFile] /\ fds = [d \in Descriptors |-> FreshFd]
        /\ pages = [p \in CachePages |-> FreshPage] /\ got = NoRead
    BY DEF Init
  <1>2. \A o \in Objs : PagesOf(now, o) = {}
    BY <1>1, Constants DEF PagesOf, now, FreshPage
  <1>3. \A o \in Objs : [exists |-> files[o].exists, data |-> Content(o), kept |-> files[o].data]
                        = [exists |-> FALSE, data |-> <<>>, kept |-> <<>>]
    BY <1>1, <1>2 DEF Content, Pending, NoFile
  <1>4. ByteFiles = [o \in Objs |-> [exists |-> FALSE, data |-> <<>>, kept |-> <<>>]]
    BY Zenon, <1>3 DEF ByteFiles
  <1>5. \A d \in Descriptors : ~fds[d].open
    BY <1>1 DEF FreshFd
  <1>6. ByteHandles = [d \in Descriptors |-> [obj |-> NoObj, append |-> FALSE, at |-> 0]]
    BY <1>5 DEF ByteHandles
  <1> QED BY <1>1, <1>4, <1>6 DEF Store!Init, Store!NoFile, Store!Closed, Store!Descriptors, Descriptors, Store!NoRead, NoRead

-----------------------------------------------------------------------------
(* Removing a file *)

LEMMA RemovedView ==
  ASSUME NEW s, CallInv(s), NEW o \in Objs, NEW t, t = Removal(s, o)
  PROVE  /\ t \in State /\ CallInv(t) /\ Others(s, t, o)
         /\ FileOf(t, o) = [exists |-> FALSE, data |-> <<>>, kept |-> <<>>]
         /\ \A c \in Descriptors : IF s.fds[c].open /\ s.fds[c].obj = o THEN ~t.fds[c].open
                                   ELSE HandleOf(t, c) = HandleOf(s, c)
  <1> DEFINE gone == Gone(s, o)
             a == Let(s, o)
  <1>1. CoreInv(s) /\ s \in State /\ \A c \in Descriptors : Within(s, c)
    BY DEF CallInv, CoreInv
  <1>2. Removed(s, t, o)
    BY <1>1, RemovalIs
  <1>3. CallInv(t) /\ CoreInv(t) /\ t \in State
    <2>1. CallInv(t)
      BY <1>1, <1>2, RemovedInv
    <2> QED BY <2>1 DEF CallInv, CoreInv
  <1>4. /\ a \in State /\ a.files = s.files
        /\ a.fds = [c \in Descriptors |->
                      IF s.fds[c].open /\ s.fds[c].cp \in gone
                      THEN [s.fds[c] EXCEPT !.cp = NoPage] ELSE s.fds[c]]
        /\ a.pages = [p \in CachePages |->
                      IF p \in gone THEN [s.pages[p] EXCEPT !.obj = NoObj] ELSE s.pages[p]]
    <2>1. a = ReleaseAll(s, gone)
      BY DEF Let
    <2> HIDE DEF a, gone
    <2> QED BY <1>1, <2>1, ReleaseIs
  <1>5. \A p \in gone : s.pages[p].obj = o
    <2> SUFFICES ASSUME NEW p \in gone PROVE s.pages[p].obj = o
      OBVIOUS
    <2>1. PICK c \in Descriptors : s.fds[c].open /\ s.fds[c].obj = o /\ p = s.fds[c].cp /\ p # NoPage
      BY DEF Gone
    <2> QED BY <1>1, <2>1 DEF CoreInv, Caches
  <1> HIDE DEF gone, a
  <1>6. /\ t.pages = a.pages /\ t.files[o] = NoFile /\ \A x \in Objs : x # o => t.files[x] = s.files[x]
        /\ \A c \in Descriptors : t.fds[c] = Left(a, o, c)
    BY <1>2 DEF Removed, a
  <1>7. Others(s, t, o)
    <2> SUFFICES ASSUME NEW x \in Objs \ {o} PROVE FileOf(t, x) = FileOf(s, x)
      BY DEF Others
    <2>1. SamePages(s, t, x)
      <3> SUFFICES ASSUME NEW p \in CachePages
                   PROVE  /\ t.pages[p].obj = x <=> s.pages[p].obj = x
                          /\ s.pages[p].obj = x => t.pages[p].off = s.pages[p].off /\ t.pages[p].data = s.pages[p].data
        BY DEF SamePages
      <3>1. s.pages[p] \in PageType
        BY <1>1, Parts
      <3>2. t.pages[p] = IF p \in gone THEN [s.pages[p] EXCEPT !.obj = NoObj] ELSE s.pages[p]
        BY <1>4, <1>6
      <3>3. CASE p \in gone
        <4>1. t.pages[p].obj = NoObj
          BY <3>1, <3>2, <3>3 DEF PageType
        <4> QED BY <1>5, <3>3, <4>1, Constants
      <3>4. CASE p \notin gone
        BY <3>2, <3>4
      <3> QED BY <3>3, <3>4
    <2> QED BY <1>6, <2>1, SameFile
  <1>8. PagesOf(t, o) = {}
    <2>1. ~t.files[o].exists
      BY <1>6 DEF NoFile
    <2>2. ASSUME NEW p \in PagesOf(t, o)  PROVE FALSE
      <3>1. PICK c \in Descriptors : t.fds[c].open /\ t.fds[c].obj = o
        BY <1>3, <2>2, FoundIs
      <3> QED BY <1>3, <2>1, <3>1 DEF CoreInv, Handles
    <2> QED BY <2>2
  <1>9. FileOf(t, o) = [exists |-> FALSE, data |-> <<>>, kept |-> <<>>]
    BY <1>6, <1>8 DEF FileOf, ContentOf, NoFile
  <1>10. ASSUME NEW c \in Descriptors
         PROVE  IF s.fds[c].open /\ s.fds[c].obj = o THEN ~t.fds[c].open ELSE HandleOf(t, c) = HandleOf(s, c)
    <2>1. s.fds[c] \in FdType
      BY <1>1, Parts
    <2>2. a.fds[c] = IF s.fds[c].open /\ s.fds[c].cp \in gone THEN [s.fds[c] EXCEPT !.cp = NoPage] ELSE s.fds[c]
      BY <1>4
    <2>3. /\ a.fds[c].obj # o => t.fds[c] = a.fds[c]
          /\ a.fds[c].obj = o => ~t.fds[c].open
      <3>1. t.fds[c] = Left(a, o, c) /\ a \in State
        BY <1>4, <1>6
      <3>2. /\ a.fds[c].obj # o => Left(a, o, c) = a.fds[c]
            /\ a.fds[c].obj = o => ~Left(a, o, c).open
        BY <3>1, LeftIs
      <3> QED BY Zenon, <3>1, <3>2
    <2>4. a.fds[c].obj = s.fds[c].obj
      BY <2>1, <2>2 DEF FdType
    <2>5. CASE s.fds[c].open /\ s.fds[c].obj = o
      BY <2>3, <2>4, <2>5
    <2>6. CASE s.fds[c].open /\ s.fds[c].obj # o
      <3>1. s.fds[c].cp \notin gone
        <4>1. NoPage \notin gone
          BY DEF gone, Gone
        <4>2. s.fds[c].cp # NoPage => s.pages[s.fds[c].cp].obj # o
          BY <1>1, <2>6 DEF CoreInv, Caches
        <4> QED BY <1>5, <4>1, <4>2
      <3>2. t.fds[c] = s.fds[c]
        BY <2>2, <2>3, <2>4, <2>6, <3>1
      <3>3. t.files[s.fds[c].obj] = s.files[s.fds[c].obj]
        BY <1>1, <1>6, <2>6 DEF CoreInv, Handles
      <3>4. HandleOf(t, c) = HandleOf(s, c)
        BY <3>2, <3>3, SameHandle
      <3> QED BY <2>6, <3>4
    <2>7. CASE ~s.fds[c].open
      <3>1. ~t.fds[c].open
        BY <2>2, <2>3, <2>7
      <3> QED BY <2>7, <3>1 DEF HandleOf
    <2> QED BY <2>5, <2>6, <2>7
  <1> QED BY <1>3, <1>7, <1>9, <1>10

\* What SpiffsBytes says of a removal.
LEMMA RemovesFile ==
  ASSUME StateInv, NEW o \in Objs, files[o].exists, NEW t \in State, Returns(t), Others(now, t, o),
         FileOf(t, o) = [exists |-> FALSE, data |-> <<>>, kept |-> <<>>],
         \A c \in Descriptors : IF fds[c].open /\ fds[c].obj = o THEN ~t.fds[c].open
                                ELSE HandleOf(t, c) = HandleOf(now, c)
  PROVE  Store!Remove(o)
  <1> DEFINE closed == [obj |-> NoObj, append |-> FALSE, at |-> 0]
  <1>1. Becomes(t) /\ got' = NoRead /\ now.fds = fds
    BY NowState DEF Returns
  <1>2. ByteHandles' = HandlesOf(t) /\ ByteHandles = HandlesOf(now)
    BY <1>1, MapsNow, MapsNext
  <1>3. ASSUME NEW c \in Descriptors
        PROVE  HandleOf(t, c) = IF HandleOf(now, c).obj = o THEN closed ELSE HandleOf(now, c)
    <2>1. HandleOf(now, c).obj = o <=> fds[c].open /\ fds[c].obj = o
      BY <1>1, Constants DEF HandleOf
    <2>2. CASE fds[c].open /\ fds[c].obj = o
      <3>1. HandleOf(t, c) = closed
        BY <2>2 DEF HandleOf
      <3> QED BY <2>1, <2>2, <3>1
    <2>3. CASE ~(fds[c].open /\ fds[c].obj = o)
      BY <2>1, <2>3
    <2> QED BY <2>2, <2>3
  <1>4. ByteHandles' = [c \in Descriptors |-> IF ByteHandles[c].obj = o THEN closed ELSE ByteHandles[c]]
    BY <1>2, <1>3 DEF HandlesOf
  <1>5. Stores(now, t, o, Store!NoFile)
    BY DEF Stores, Store!NoFile
  <1>6. ByteFiles' = [ByteFiles EXCEPT ![o] = Store!NoFile]
    BY <1>1, <1>5, StoresIs
  <1>7. ByteFiles[o].exists
    BY DEF ByteFiles
  <1> QED BY <1>1, <1>4, <1>6, <1>7 DEF Store!Remove, Store!Descriptors, Descriptors, Store!Closed, Store!NoRead, NoRead

LEMMA RemoveStep ==
  ASSUME StateInv, NEW o \in Objs, NEW d \in Descriptors, Remove(o, d)
  PROVE  Store!Remove(o)
  <1> DEFINE m == Removal(now, o)
  <1>1. PICK g \in FdType : ~g.open /\ g.cp = NoPage /\ Returns(WithFd(m, d, g))
    BY RemoveIs
  <1>2. CallInv(now) /\ now.fds = fds /\ now.files = files
    BY NowState DEF StateInv
  <1>3. files[o].exists /\ ~fds[d].open
    BY DEF Remove, Candidate
  <1>4. /\ m \in State /\ Others(now, m, o)
        /\ FileOf(m, o) = [exists |-> FALSE, data |-> <<>>, kept |-> <<>>]
        /\ \A c \in Descriptors : IF now.fds[c].open /\ now.fds[c].obj = o THEN ~m.fds[c].open
                                  ELSE HandleOf(m, c) = HandleOf(now, c)
    BY <1>2, RemovedView
  <1> HIDE DEF m
  <1> DEFINE t == WithFd(m, d, g)
  <1>5. OnlyFd(m, t, d) /\ t.fds[d] = g /\ Returns(t)
    BY <1>1, <1>4, FdSet
  <1> HIDE DEF t
  <1>6. t \in State /\ t.files = m.files /\ t.pages = m.pages /\ \A c \in Descriptors : c # d => t.fds[c] = m.fds[c]
    BY <1>5 DEF OnlyFd
  <1>7. ~t.fds[d].open /\ ~m.fds[d].open
    <2>1. HandleOf(m, d) = HandleOf(now, d) /\ HandleOf(now, d).obj = NoObj
      BY <1>2, <1>3, <1>4 DEF HandleOf
    <2>2. m.fds[d].open => m.fds[d].obj = NoObj
      BY <2>1 DEF HandleOf
    <2>3. CoreInv(m)
      BY RemoveIs DEF m, CallInv
    <2>4. ~m.fds[d].open
      BY <2>2, <2>3, Constants DEF CoreInv, Handles
    <2> QED BY <1>1, <1>5, <2>4
  <1>8. SameView(m, t)
    BY <1>6, <1>7, ViewSame
  <1>9. Others(now, t, o) /\ FileOf(t, o) = FileOf(m, o)
    BY <1>4, <1>8 DEF SameView, Others
  <1>10. ASSUME NEW c \in Descriptors
         PROVE  IF fds[c].open /\ fds[c].obj = o THEN ~t.fds[c].open ELSE HandleOf(t, c) = HandleOf(now, c)
    <2>1. IF fds[c].open /\ fds[c].obj = o THEN ~m.fds[c].open ELSE HandleOf(m, c) = HandleOf(now, c)
      BY Zenon, <1>2, <1>4
    <2>2. HandleOf(t, c) = HandleOf(m, c) /\ (~m.fds[c].open => ~t.fds[c].open)
      BY <1>6, <1>7, <1>8 DEF SameView
    <2> QED BY <2>1, <2>2
  <1> QED BY <1>3, <1>4, <1>5, <1>6, <1>9, <1>10, RemovesFile

LEMMA FRemoveStep ==
  ASSUME StateInv, NEW d \in Descriptors, FRemove(d)
  PROVE  Store!Remove(fds[d].obj)
  <1> DEFINE o == fds[d].obj
             p == fds[d].cp
             s == IF p = NoPage THEN now ELSE Release(now, p)
             t == Removal(s, o)
  <1>1. CallInv(now) /\ CoreInv(now) /\ now \in State /\ now.fds = fds /\ now.files = files /\ \A c \in Descriptors : Within(now, c)
    BY NowState DEF StateInv, CallInv
  <1>2. fds[d].open /\ Returns(t) /\ o \in Objs /\ files[o].exists
    BY <1>1 DEF FRemove, CoreInv, Handles
  <1>3. /\ CallInv(s) /\ Others(now, s, o)
        /\ \A c \in Descriptors : s.fds[c].open = fds[c].open /\ s.fds[c].obj = fds[c].obj
        /\ \A c \in Descriptors : ~(fds[c].open /\ fds[c].obj = o) => HandleOf(s, c) = HandleOf(now, c)
    <2>1. CASE p = NoPage
      BY <1>1, <2>1 DEF Others
    <2>2. CASE p # NoPage
      <3>1. p \in PagesOf(now, o) /\ p \in CachePages
        BY <1>1, <1>2, <2>2, OwnPage
      <3> DEFINE u == Release(now, p)
      <3>2. Touches(now, u, o, {}) /\ \A c \in Descriptors : u.fds[c].open = now.fds[c].open /\ u.fds[c].obj = now.fds[c].obj
        <4> HIDE DEF o, p
        <4> QED BY <1>1, <1>2, <3>1, ReleaseTouches
      <3>3. CoreInv(u) /\ \A c \in Descriptors : Within(u, c)
        <4>1. {p} \in SUBSET CachePages
          BY <3>1
        <4> HIDE DEF p
        <4> QED BY <1>1, <4>1, Releasing, ReleasedWithin DEF Release
      <3>4. s = u
        BY <2>2
      <3> HIDE DEF u, s
      <3> QED BY <1>1, <3>2, <3>3, <3>4 DEF Touches, CallInv
    <2> QED BY <2>1, <2>2
  <1> HIDE DEF s, o
  <1>4. /\ t \in State /\ Others(s, t, o)
        /\ FileOf(t, o) = [exists |-> FALSE, data |-> <<>>, kept |-> <<>>]
        /\ \A c \in Descriptors : IF s.fds[c].open /\ s.fds[c].obj = o THEN ~t.fds[c].open
                                  ELSE HandleOf(t, c) = HandleOf(s, c)
    BY <1>2, <1>3, RemovedView
  <1> HIDE DEF t
  <1>5. Others(now, t, o)
    BY <1>3, <1>4 DEF Others
  <1>6. \A c \in Descriptors : IF fds[c].open /\ fds[c].obj = o THEN ~t.fds[c].open
                               ELSE HandleOf(t, c) = HandleOf(now, c)
    BY <1>3, <1>4
  <1>7. Store!Remove(o)
    BY <1>2, <1>4, <1>5, <1>6, RemovesFile
  <1> QED BY <1>7 DEF o

-----------------------------------------------------------------------------
(* Renaming a file *)

\* The event moves only a descriptor that was beyond the end of a file with
\* nothing cached.
LEMMA HearingSteady ==
  ASSUME NEW s, CoreInv(s), NEW o \in Objs, PagesOf(s, o) = {}, NEW size, size = s.files[o].size,
         NEW c \in Descriptors, s.fds[c].open, s.fds[c].obj = o,
         NEW t, t.fds[c] = Hearing(s, o, size, c)
  PROVE  Steady(s, t, c)
  <1> DEFINE fd == s.fds[c]
             at == Limited(s, c, size)
             l == Len(s.files[o].data)
  <1>1. s \in State /\ fd \in FdType /\ l \in Nat /\ fd.at \in Nat
    BY Parts DEF CoreInv, FdType
  <1>2. fd.cp = NoPage
    BY OwnPage
  <1>3. Length(size) = l
    BY DEF CoreInv, Lengths
  <1>4. at = Smaller(fd.at, l)
    BY <1>2, <1>3 DEF Limited
  <1>5. t.fds[c] = [fd EXCEPT !.hdr = TRUE, !.size = size, !.at = at]
    BY DEF Hearing
  <1>6. l < fd.at \/ at = fd.at
    <2> DEFINE x == fd.at
    <2>1. at = Smaller(x, l) /\ l \in Nat /\ x \in Nat
      BY <1>1, <1>4
    <2> HIDE DEF x, l, at
    <2>2. l < x \/ at = x
      BY <2>1 DEF Smaller
    <2> QED BY <2>2 DEF x
  <1> HIDE DEF fd, at, l
  <1>7. t.fds[c].open = fd.open /\ t.fds[c].obj = fd.obj /\ t.fds[c].append = fd.append /\ t.fds[c].at = at
    BY <1>1, <1>5 DEF FdType
  <1>8. l < fd.at => fd.at > l
    <2> DEFINE x == fd.at
    <2>1. l \in Nat /\ x \in Nat
      BY <1>1
    <2> HIDE DEF x
    <2>2. l < x => x > l
      BY <2>1
    <2> QED BY <2>2 DEF x
  <1>9. ~fd.append /\ l < fd.at => StrayIn(s, c)
    BY Zenon, <1>2, <1>8 DEF StrayIn, fd, l
  <1> QED BY Zenon, <1>6, <1>7, <1>9 DEF Steady, fd

LEMMA RenameStep ==
  ASSUME Careful, Uses = {}, StateInv, NEW o \in Objs, NEW d \in Descriptors, Rename(o, d)
  PROVE  Store!Idle \/ \E c \in Descriptors : Store!Flush(c)
  <1> DEFINE size == files[o].size
  <1>1. CoreInv(now) /\ now \in State /\ now.files = files /\ now.fds = fds
    BY NowState
  <1>2. ~fds[d].open /\ PagesOf(now, o) = {} /\ files[o].exists
    BY DEF Rename, Candidate, Pending
  <1>3. PICK t : Returns(t) /\ Renamed(t, o, d)
    BY RenameIs
  <1>4. /\ t \in State /\ t.files = now.files /\ t.pages = now.pages /\ ~t.fds[d].open
    BY <1>3 DEF Renamed
  <1>5. CASE \A c \in Descriptors : c # d => t.fds[c] = now.fds[c]
    <2>1. SameView(now, t)
      BY <1>1, <1>2, <1>4, <1>5, ViewSame
    <2> QED BY <1>3, <1>4, <2>1, IdleStep
  <1>6. CASE \A c \in Descriptors : c # d => t.fds[c] = Hearing(now, o, size, c)
    <2>1. \A x \in Objs : FileOf(t, x) = FileOf(now, x)
      <3> TAKE x \in Objs
      <3>1. SamePages(now, t, x) /\ t.files[x] = now.files[x]
        BY <1>4 DEF SamePages
      <3> QED BY <3>1, SameFile
    <2>2. ASSUME NEW c \in Descriptors, ~(fds[c].open /\ fds[c].obj = o)
          PROVE  HandleOf(t, c) = HandleOf(now, c)
      <3>1. CASE c = d
        BY <1>1, <1>2, <1>4, <3>1 DEF HandleOf
      <3>2. CASE c # d
        <4>1. t.fds[c] = now.fds[c]
          BY <1>1, <1>6, <2>2, <3>2 DEF Hearing
        <4> QED BY <1>4, <4>1, SameHandle
      <3> QED BY <3>1, <3>2
    <2>3. CASE \A c \in Descriptors : ~(fds[c].open /\ fds[c].obj = o)
      <3>1. SameView(now, t)
        BY <2>1, <2>2, <2>3 DEF SameView
      <3> QED BY <1>3, <1>4, <3>1, IdleStep
    <2>4. ASSUME NEW c \in Descriptors, fds[c].open, fds[c].obj = o
          PROVE  Store!Flush(c)
      <3>1. ASSUME NEW x \in Descriptors, now.fds[x].open, now.fds[x].obj = o  PROVE Steady(now, t, x)
        <4>1. x # d
          BY <1>1, <1>2, <3>1
        <4>2. t.fds[x] = Hearing(now, o, size, x) /\ size = now.files[o].size
          BY <1>1, <1>6, <4>1
        <4> HIDE DEF size
        <4> QED BY <1>1, <1>2, <3>1, <4>2, HearingSteady
      <3>2. Touches(now, t, o, {})
        BY <1>1, <2>1, <2>2, <3>1 DEF Touches, Others
      <3>3. PagesOf(t, o) = {}
        BY <1>2, <1>4 DEF PagesOf
      <3>4. KeptBut(now, t, o, {})
        BY <1>1, <1>4, <3>2, <3>3, TouchesKept
      <3>5. SettledIn(now, t, o)
        <4>1. now.files[o].exists = TRUE
          <5>1. now.files[o] \in FileType
            BY <1>1, Parts
          <5> QED BY <1>1, <1>2, <5>1 DEF FileType
        <4>2. FileOf(now, o) = Whole(now.files[o].data) /\ ContentOf(now, o) = now.files[o].data
          BY <1>2, <4>1, FileIs
        <4> QED BY <2>1, <4>2 DEF SettledIn, Others
      <3>6. Becomes(t) /\ got' = NoRead
        BY <1>3 DEF Returns
      <3>7. Store!Settled(o) /\ Store!KeepBut(o, {})
        BY <1>4, <3>4, <3>5, <3>6, SettledIs, KeptIs
      <3>8. ByteHandles[c].obj = o /\ o # NoObj
        BY <2>4, OpenHandle, Constants
      <3> QED BY <3>6, <3>7, <3>8 DEF Store!Flush, Store!NoRead, NoRead
    <2> QED BY <2>3, <2>4
  <1> QED BY <1>3, <1>5, <1>6 DEF Renamed

-----------------------------------------------------------------------------
(* Opening a file *)

\* What SpiffsBytes says of the other descriptors when d is opened.
OthersOpened(t, o, d, cleared) == \A c \in Descriptors \ {d} :
    HandleOf(t, c) = IF cleared /\ HandleOf(now, c).obj = o THEN [HandleOf(now, c) EXCEPT !.at = 0]
                     ELSE HandleOf(now, c)

LEMMA OpensFile ==
  ASSUME StateInv, NEW o \in Objs, NEW d \in Descriptors, ~fds[d].open,
         NEW append \in BOOLEAN, NEW trunc \in BOOLEAN,
         NEW t \in State, Returns(t), HandleOf(t, d) = [obj |-> o, append |-> append, at |-> 0],
         OthersOpened(t, o, d, trunc /\ ContentOf(now, o) # <<>>), Others(now, t, o),
         FileOf(t, o) = IF files[o].exists /\ ~trunc THEN FileOf(now, o)
                        ELSE [exists |-> TRUE, data |-> <<>>, kept |-> <<>>]
  PROVE  Store!Open(o, d, append, trunc)
  <1> DEFINE f == IF ByteFiles[o].exists /\ ~trunc THEN ByteFiles[o] ELSE Store!EmptyFile
  <1>1. Becomes(t) /\ got' = NoRead /\ now.fds = fds /\ now.files = files
    BY NowState DEF Returns
  <1>2. /\ \A c \in Descriptors : ByteHandles'[c] = HandleOf(t, c) /\ ByteHandles[c] = HandleOf(now, c)
        /\ ByteFiles[o] = FileOf(now, o)
    BY <1>1, MapsNow, MapsNext DEF HandlesOf, FilesOf
  <1>3. ByteFiles[o].data = ContentOf(now, o) /\ ByteFiles[o].exists = files[o].exists
    BY <1>1, <1>2 DEF FileOf
  <1>4. ByteHandles[d] = Store!Closed
    BY <1>1, <1>2 DEF HandleOf, Store!Closed
  <1>5. ByteHandles'[d] = [obj |-> o, append |-> append, at |-> 0]
    BY <1>2
  <1>6. \A c \in Descriptors \ {d} :
            ByteHandles'[c] = IF trunc /\ ByteHandles[c].obj = o /\ ByteFiles[o].data # <<>>
                              THEN [ByteHandles[c] EXCEPT !.at = 0] ELSE ByteHandles[c]
    BY <1>2, <1>3 DEF OthersOpened
  <1>7. Stores(now, t, o, f)
    BY <1>2, <1>3 DEF Stores, Store!EmptyFile
  <1> HIDE DEF f
  <1>8. ByteFiles' = [ByteFiles EXCEPT ![o] = f]
    BY <1>1, <1>7, StoresIs
  <1>9. ByteFiles' = [ByteFiles EXCEPT ![o] = IF @.exists /\ ~trunc THEN @ ELSE Store!EmptyFile]
    BY Zenon, <1>8 DEF f
  <1>10. got' = Store!NoRead
    BY <1>1 DEF NoRead, Store!NoRead
  <1> QED BY Zenon, <1>4, <1>5, <1>6, <1>9, <1>10 DEF Store!Open, Store!Descriptors, Descriptors

\* The file is there, and what d is opened with.
LEMMA OpenedView ==
  ASSUME StateInv, NEW o \in Objs, NEW d \in Descriptors, ~fds[d].open,
         NEW append \in BOOLEAN, NEW direct \in BOOLEAN, NEW fd, Opening(fd, o, append, direct),
         NEW t, t = WithFd(Made(o), d, fd)
  PROVE  /\ t \in State /\ t.pages = pages /\ t.files = Made(o).files /\ t.fds[d] = fd /\ Others(now, t, o)
         /\ \A c \in Descriptors : c # d => t.fds[c] = fds[c] /\ HandleOf(t, c) = HandleOf(now, c)
         /\ HandleOf(t, d) = [obj |-> o, append |-> append, at |-> 0]
         /\ FileOf(t, o) = IF files[o].exists THEN FileOf(now, o) ELSE [exists |-> TRUE, data |-> <<>>, kept |-> <<>>]
  <1> DEFINE m == Made(o)
  <1>1. CoreInv(now) /\ now \in State /\ now.fds = fds /\ now.files = files /\ now.pages = pages
    BY NowState
  <1>2. /\ m \in State /\ m.fds = fds /\ m.pages = now.pages
        /\ IF files[o].exists THEN m = now ELSE m = WithFile(now, o, EmptyFile)
    BY MadeIs DEF CallInv, CoreInv
  <1> HIDE DEF m
  <1>3. /\ Others(now, m, o) /\ \A c \in Descriptors : HandleOf(m, c) = HandleOf(now, c)
        /\ FileOf(m, o) = IF files[o].exists THEN FileOf(now, o) ELSE [exists |-> TRUE, data |-> <<>>, kept |-> <<>>]
    <2>1. CASE files[o].exists
      BY <1>2, <2>1 DEF Others
    <2>2. CASE ~files[o].exists
      <3> DEFINE file == EmptyFile
      <3>1. file \in FileType /\ file.exists = TRUE /\ file.data = <<>>
        BY FreshIs DEF EmptyFile
      <3>2. m = WithFile(now, o, file)
        BY <1>2, <2>2
      <3> HIDE DEF file
      <3>3. \A c \in Descriptors : now.fds[c].open => now.fds[c].obj # o
        BY <1>1, <2>2 DEF CoreInv, Handles
      <3>4. /\ Others(now, m, o) /\ \A c \in Descriptors : HandleOf(m, c) = HandleOf(now, c)
            /\ FileOf(m, o) = [exists |-> file.exists, data |-> file.data, kept |-> file.data]
        BY <1>1, <3>1, <3>2, <3>3, UnheldView
      <3> QED BY <2>2, <3>1, <3>4
    <2> QED BY <2>1, <2>2
  <1>4. fd \in FdType /\ fd.open /\ fd.obj = o /\ fd.at = 0 /\ fd.append = append
    BY DEF Opening
  <1>5. OnlyFd(m, t, d) /\ t.fds[d] = fd
    BY <1>2, <1>4, FdSet DEF m
  <1>6. t \in State /\ t.files = m.files /\ t.pages = m.pages /\ \A c \in Descriptors : c # d => t.fds[c] = m.fds[c]
    BY <1>5 DEF OnlyFd
  <1>7. \A x : FileOf(t, x) = FileOf(m, x)
    <2> TAKE x
    <2>1. SamePages(m, t, x) /\ t.files[x] = m.files[x]
      BY <1>6 DEF SamePages
    <2> QED BY <2>1, SameFile
  <1>8. ASSUME NEW c \in Descriptors, c # d  PROVE t.fds[c] = fds[c] /\ HandleOf(t, c) = HandleOf(now, c)
    <2>1. t.fds[c] = m.fds[c]
      BY <1>6, <1>8
    <2>2. HandleOf(t, c) = HandleOf(m, c)
      BY <1>6, <2>1, SameHandle
    <2> QED BY <1>2, <1>3, <2>1, <2>2
  <1>9. HandleOf(t, d) = [obj |-> o, append |-> append, at |-> 0]
    <2>1. Len(t.files[o].data) \in Nat
      BY <1>6, Parts
    <2>2. ~(t.fds[d].at > Len(t.files[o].data))
      <3> DEFINE l == Len(t.files[o].data)
      <3>1. l \in Nat /\ t.fds[d].at = 0
        BY <1>4, <1>5, <2>1
      <3> HIDE DEF l
      <3>2. ~(t.fds[d].at > l)
        BY <3>1
      <3> QED BY <3>2 DEF l
    <2>3. t.fds[d].open /\ o = t.fds[d].obj
      BY <1>4, <1>5
    <2>4. HandleOf(t, d) = [obj |-> o, append |-> t.fds[d].append, at |-> IF t.fds[d].append THEN 0 ELSE t.fds[d].at]
      BY ZenonT(60), <2>2, <2>3, HandleIs
    <2> QED BY <1>4, <1>5, <2>4
  <1> QED BY <1>1, <1>2, <1>3, <1>5, <1>6, <1>7, <1>8, <1>9 DEF Others, m

LEMMA OpenStep ==
  ASSUME Careful, StateInv, NEW o \in Objs, NEW d \in Descriptors,
         NEW append \in BOOLEAN, NEW direct \in BOOLEAN, NEW trunc \in BOOLEAN, NEW byName \in BOOLEAN,
         Open(o, d, append, direct, trunc, byName)
  PROVE  Store!Open(o, d, append, trunc) \/ Store!Idle
  <1>1. PICK fd, t : /\ Opening(fd, o, append, direct) /\ CallInv(WithFd(Made(o), d, fd))
                     /\ IF trunc THEN t \in Truncated(WithFd(Made(o), d, fd), d) ELSE t = WithFd(Made(o), d, fd)
                     /\ Returns(t)
    BY OpenIs
  <1> DEFINE m == WithFd(Made(o), d, fd)
             l == ContentOf(now, o)
  <1>2. ~fds[d].open /\ (trunc => PagesOf(now, o) = {})
    BY DEF Open, Candidate, Careful, Pending
  <1>3. /\ m \in State /\ m.pages = pages /\ m.files = Made(o).files /\ m.fds[d] = fd /\ Others(now, m, o)
        /\ \A c \in Descriptors : c # d => m.fds[c] = fds[c] /\ HandleOf(m, c) = HandleOf(now, c)
        /\ HandleOf(m, d) = [obj |-> o, append |-> append, at |-> 0]
        /\ FileOf(m, o) = IF files[o].exists THEN FileOf(now, o) ELSE [exists |-> TRUE, data |-> <<>>, kept |-> <<>>]
    BY <1>1, <1>2, OpenedView
  <1>4. CallInv(m) /\ CoreInv(m)
    BY <1>1 DEF CallInv
  <1>5. CoreInv(now) /\ now.files = files /\ now.pages = pages /\ now.fds = fds
    BY NowState
  <1>6. fd.open /\ fd.obj = o /\ fd.cp = NoPage /\ fd.size = m.files[o].size
    BY <1>1, <1>3 DEF Opening
  <1>7. IF trunc THEN t \in Truncated(m, d) ELSE t = m
    BY <1>1
  <1> HIDE DEF m
  <1>8. CASE ~trunc
    <2>1. OthersOpened(m, o, d, FALSE)
      BY <1>3 DEF OthersOpened
    <2>2. OthersOpened(m, o, d, trunc /\ l # <<>>)
      BY <1>8, <2>1
    <2>3. FileOf(m, o) = IF files[o].exists /\ ~trunc THEN FileOf(now, o) ELSE [exists |-> TRUE, data |-> <<>>, kept |-> <<>>]
      BY <1>3, <1>8
    <2>4. t = m
      BY <1>7, <1>8
    <2> QED BY <1>1, <1>2, <1>3, <2>2, <2>3, <2>4, OpensFile
  <1>9. CASE trunc
    <2>1. PagesOf(m, o) = {} /\ PagesOf(now, o) = {}
      BY <1>2, <1>3, <1>5, <1>9 DEF PagesOf
    <2>2. l = files[o].data
      BY <1>5, <2>1 DEF ContentOf
    <2>3. IF fd.size \in {Undef, 0} THEN t = m ELSE t = Return(m, d) \/ Emptied(m, t, o)
      <3>1. m.fds[d].open /\ m.fds[d].cp = NoPage /\ m.fds[d].obj = o /\ PagesOf(m, m.fds[d].obj) = {}
        BY <1>3, <1>6, <2>1
      <3>2. t \in Truncated(m, d)
        BY <1>7, <1>9
      <3> QED BY <1>3, <1>4, <3>1, <3>2, TruncatedAre
    <2>4. CASE fd.size \in {Undef, 0}
      <3>1. t = m /\ Len(m.files[o].data) = 0
        <4>1. Length(fd.size) = Len(m.files[o].data)
          BY <1>4, <1>6 DEF CoreInv, Lengths
        <4>2. Length(fd.size) = 0
          BY <2>4 DEF Length
        <4> QED BY <2>3, <2>4, <4>1, <4>2
      <3>2. m.files[o].data = <<>> /\ m.files[o].exists = TRUE
        <4>1. m.files[o].data \in Seq(Data) /\ m.files[o] \in FileType
          BY <1>3, Parts
        <4>2. m.files[o].exists
          BY <1>3, MadeIs
        <4> QED BY <3>1, <4>1, <4>2 DEF FileType
      <3>3. FileOf(m, o) = [exists |-> TRUE, data |-> <<>>, kept |-> <<>>]
        BY <2>1, <3>2 DEF FileOf, ContentOf
      <3>4. OthersOpened(m, o, d, trunc /\ l # <<>>)
        <4>1. ASSUME NEW c \in Descriptors, HandleOf(now, c).obj = o  PROVE l = <<>>
          <5>1. fds[c].open /\ fds[c].obj = o
            BY <1>5, <4>1, Constants DEF HandleOf
          <5>2. files[o].exists
            BY <1>5, <5>1 DEF CoreInv, Handles
          <5>3. Made(o) = now
            BY <5>2, MadeIs
          <5> QED BY <1>3, <1>5, <2>2, <3>2, <5>3
        <4> HIDE DEF l
        <4> QED BY <1>3, <4>1 DEF OthersOpened
      <3>5. FileOf(m, o) = IF files[o].exists /\ ~trunc THEN FileOf(now, o) ELSE [exists |-> TRUE, data |-> <<>>, kept |-> <<>>]
        BY <1>9, <3>3
      <3> QED BY <1>1, <1>2, <1>3, <3>1, <3>4, <3>5, OpensFile
    <2>5. CASE fd.size \notin {Undef, 0}
      <3>1. files[o].exists /\ Made(o) = now
        <4>1. ASSUME ~files[o].exists  PROVE FALSE
          <5> DEFINE file == EmptyFile
          <5>1. Made(o) = WithFile(now, o, file) /\ now \in State
            BY <4>1, MadeIs, NowState
          <5>2. file \in FileType /\ file.size = Undef
            BY FreshIs DEF EmptyFile
          <5> HIDE DEF file
          <5>3. Made(o).files[o].size = Undef
            BY <5>1, <5>2, FileSet
          <5> QED BY <1>3, <1>6, <2>5, <5>3
        <4> QED BY <4>1, MadeIs
      <3>2. m.files = files
        BY <1>3, <1>5, <3>1
      <3>3. CASE t = Return(m, d)
        <4>1. OnlyFd(m, t, d) /\ ~t.fds[d].open
          BY <1>3, <3>3, ReturnedFd
        <4>2. t \in State /\ t.files = now.files /\ t.pages = now.pages /\ \A c \in Descriptors : c # d => t.fds[c] = now.fds[c]
          BY <1>3, <1>5, <3>2, <4>1 DEF OnlyFd
        <4>3. SameView(now, t)
          BY <1>2, <1>5, <4>1, <4>2, ViewSame
        <4> QED BY <1>1, <4>2, <4>3, IdleStep
      <3>4. CASE Emptied(m, t, o)
        <4>1. /\ t \in State /\ t.pages = m.pages /\ t.files[o] = EmptyFile
              /\ \A x \in Objs : x # o => t.files[x] = m.files[x]
          BY <3>4 DEF Emptied
        <4>2. PagesOf(t, o) = {}
          BY <2>1, <4>1 DEF PagesOf
        <4>3. FileOf(t, o) = [exists |-> TRUE, data |-> <<>>, kept |-> <<>>]
          BY <4>1, <4>2 DEF FileOf, ContentOf, EmptyFile
        <4>4. Others(now, t, o)
          <5> SUFFICES ASSUME NEW x \in Objs \ {o} PROVE FileOf(t, x) = FileOf(now, x)
            BY DEF Others
          <5>1. SamePages(now, t, x) /\ t.files[x] = now.files[x]
            BY <1>3, <1>5, <3>2, <4>1 DEF SamePages
          <5> QED BY <5>1, SameFile
        <4>5. ASSUME NEW c \in Descriptors, m.fds[c].open, m.fds[c].obj = o
              PROVE  HandleOf(t, c) = [obj |-> o, append |-> m.fds[c].append, at |-> 0]
          <5>1. t.fds[c].open /\ t.fds[c].obj = o /\ t.fds[c].append = m.fds[c].append /\ t.fds[c].at = 0
            BY <3>4, <4>5 DEF Emptied
          <5>2. ~(t.fds[c].at > Len(t.files[o].data))
            BY <4>1, <5>1 DEF EmptyFile
          <5>3. HandleOf(t, c) = [obj |-> o, append |-> t.fds[c].append, at |-> IF t.fds[c].append THEN 0 ELSE t.fds[c].at]
            BY <5>1, <5>2, HandleIs
          <5> QED BY <5>1, <5>3
        <4>6. HandleOf(t, d) = [obj |-> o, append |-> append, at |-> 0]
          BY <1>1, <1>3, <1>6, <4>5 DEF Opening
        <4>7. OthersOpened(t, o, d, trunc /\ l # <<>>)
          <5>1. l # <<>>
            <6>1. Length(fd.size) = Len(files[o].data)
              BY <1>4, <1>6, <3>2 DEF CoreInv, Lengths
            <6>2. Length(fd.size) # 0
              BY <2>5 DEF Length
            <6> QED BY <2>2, <6>1, <6>2
          <5>2. ASSUME NEW c \in Descriptors \ {d}
                PROVE  HandleOf(t, c) = IF HandleOf(now, c).obj = o THEN [HandleOf(now, c) EXCEPT !.at = 0]
                                        ELSE HandleOf(now, c)
            <6>1. m.fds[c] = fds[c] /\ HandleOf(m, c) = HandleOf(now, c)
              BY <1>3
            <6>2. CASE fds[c].open /\ fds[c].obj = o
              <7>1. HandleOf(t, c) = [obj |-> o, append |-> fds[c].append, at |-> 0]
                BY <4>5, <6>1, <6>2
              <7>2. HandleOf(now, c) = [obj |-> o, append |-> fds[c].append, at |-> HandleOf(now, c).at]
                BY <1>5, <6>2 DEF HandleOf
              <7> QED BY <7>1, <7>2
            <6>3. CASE ~(fds[c].open /\ fds[c].obj = o)
              <7>1. t.fds[c] = m.fds[c]
                BY <3>4, <6>1, <6>3 DEF Emptied
              <7>2. m.fds[c].open => t.files[m.fds[c].obj] = m.files[m.fds[c].obj]
                BY <1>4, <4>1, <6>1, <6>3 DEF CoreInv, Handles
              <7>3. HandleOf(t, c) = HandleOf(m, c)
                BY <7>1, <7>2, SameHandle
              <7>4. HandleOf(now, c).obj # o
                BY <1>5, <6>3, Constants DEF HandleOf
              <7> QED BY <6>1, <7>3, <7>4
            <6> QED BY <6>2, <6>3
          <5> HIDE DEF l
          <5> QED BY <1>9, <5>1, <5>2 DEF OthersOpened
        <4>8. FileOf(t, o) = IF files[o].exists /\ ~trunc THEN FileOf(now, o) ELSE [exists |-> TRUE, data |-> <<>>, kept |-> <<>>]
          BY <1>9, <4>3
        <4> QED BY <1>1, <1>2, <4>1, <4>4, <4>6, <4>7, <4>8, OpensFile
      <3> QED BY <2>3, <2>5, <3>3, <3>4
    <2> QED BY <2>4, <2>5
  <1> QED BY <1>8, <1>9

-----------------------------------------------------------------------------
(* Unmounting *)

\* A mix of one version is that version.
LEMMA MixedOne ==
  ASSUME NEW S, NEW v \in Seq(S), NEW w \in Seq(S), Mixed(v, {w, w})
  PROVE  v = w
  <1>1. Len(v) <= Len(w) /\ Len(v) >= Len(w)
    BY DEF Mixed
  <1>2. Len(v) = Len(w)
    <2> DEFINE m == Len(v)
               n == Len(w)
    <2>1. m \in Nat /\ n \in Nat /\ m <= n /\ m >= n
      BY <1>1
    <2> HIDE DEF m, n
    <2> QED BY <2>1 DEF m, n
  <1>3. \A i \in 1 .. Len(v) : v[i] = w[i]
    BY DEF Mixed
  <1> QED BY <1>2, <1>3, SameSeq

\* File x while descriptors are closed in turn: as it was, or with all that was
\* cached in flash, or a mix of the two where that failed.
Unmounting(s, x) ==
    /\ s.files[x].exists = files[x].exists
    /\ \/ ContentOf(s, x) = ContentOf(now, x) /\ s.files[x].data = files[x].data
       \/ /\ ContentOf(s, x) = s.files[x].data
          /\ \/ s.files[x].data = ContentOf(now, x)
             \/ Failures # {} /\ Mixed(s.files[x].data, {ContentOf(now, x), files[x].data})

LEMMA UnmountingOne ==
  ASSUME Careful, StateInv, NEW s, CallInv(s), NEW d \in Descriptors, s.fds[d].open,
         NEW q \in FlushCache(s, d), NEW t, t = Return(q.s, d), NEW x \in Objs, Unmounting(s, x)
  PROVE  Unmounting(t, x)
  <1> DEFINE o == s.fds[d].obj
             m == q.s
  <1>1. CoreInv(s) /\ o \in Objs /\ Settles(s, q, o, {})
    BY Existing, FlushSettles DEF CallInv
  <1>2. m \in State /\ CoreInv(m) /\ PagesOf(m, o) = {} /\ m.files[o].exists = TRUE /\ Others(s, m, o)
    BY <1>1 DEF Settles, Outcome, Touches
  <1>3. OnlyFd(m, t, d)
    BY <1>2, ReturnedFd
  <1> HIDE DEF m
  <1>4. t \in State /\ t.files = m.files /\ t.pages = m.pages
    BY <1>3 DEF OnlyFd
  <1>5. ContentOf(t, x) = ContentOf(m, x)
    <2>1. SamePages(m, t, x) /\ t.files[x] = m.files[x]
      BY <1>4 DEF SamePages
    <2> QED BY <2>1, SameFile
  <1>6. CASE x # o
    <2>1. FileOf(m, x) = FileOf(s, x)
      BY <1>2, <1>6 DEF Others
    <2>2. m.files[x].exists = s.files[x].exists /\ ContentOf(m, x) = ContentOf(s, x) /\ m.files[x].data = s.files[x].data
      BY <2>1 DEF FileOf
    <2> QED BY Zenon, <1>4, <1>5, <2>2 DEF Unmounting
  <1>7. CASE x = o
    <2> DEFINE v == m.files[o].data
               old == s.files[o].data
               new == ContentOf(s, o)
    <2>1. /\ q.ok => v = new
          /\ ~q.ok => Failures # {}
          /\ Mixed(v, {new, old})
      BY ZenonT(60), <1>1, SettlesIs DEF Settles, m
    <2>2. ContentOf(m, o) = v
      BY <1>2 DEF ContentOf
    <2>3. v \in Seq(Data) /\ old \in Seq(Data) /\ new \in Seq(Data)
      BY <1>1, <1>2, Parts, ContentSeq DEF CoreInv
    <2>4. t.files[x].exists = files[x].exists
      <3>1. s.files[o].exists = TRUE
        BY <1>1, Existing
      <3> QED BY ZenonT(60), <1>2, <1>4, <1>7, <3>1 DEF Unmounting
    <2>5. new = old => v = old
      BY ZenonT(60), <2>1, <2>3, MixedOne
    <2>6. \/ new = ContentOf(now, o) /\ old = files[o].data
          \/ /\ new = old
             /\ \/ old = ContentOf(now, o)
                \/ Failures # {} /\ Mixed(old, {ContentOf(now, o), files[o].data})
      BY Zenon, <1>7 DEF Unmounting
    <2> HIDE DEF v, old, new, o
    <2>7. v = ContentOf(now, o) \/ (Failures # {} /\ Mixed(v, {ContentOf(now, o), files[o].data}))
      <3>1. CASE new = ContentOf(now, o) /\ old = files[o].data
        BY <2>1, <3>1
      <3>2. CASE /\ new = old
                 /\ \/ old = ContentOf(now, o)
                    \/ Failures # {} /\ Mixed(old, {ContentOf(now, o), files[o].data})
        BY <2>5, <3>2
      <3> QED BY <2>6, <3>1, <3>2
    <2>8. ContentOf(t, x) = t.files[x].data /\ t.files[x].data = v
      BY <1>4, <1>5, <1>7, <2>2 DEF v
    <2> QED BY Zenon, <1>7, <2>4, <2>7, <2>8 DEF Unmounting
  <1> QED BY <1>6, <1>7

LEMMA RemountStep ==
  ASSUME Careful, StateInv, Remount
  PROVE  Store!Remount
  <1> DEFINE good(n) == {s \in State : /\ CallInv(s) /\ \A x \in Objs : Unmounting(s, x)
                                       /\ \A c \in 1 .. n : ~s.fds[c].open}
             G == [n \in 0 .. D |-> good(n)]
  <1>1. now \in good(0)
    <2>1. CallInv(now) /\ now \in State /\ now.files = files
      BY NowState DEF StateInv
    <2>2. \A x \in Objs : Unmounting(now, x)
      BY <2>1 DEF Unmounting
    <2> QED BY <2>1, <2>2
  <1>2. ASSUME NEW n \in Descriptors, NEW s \in good(n - 1), NEW t \in ClosedOne(s, n)  PROVE t \in good(n)
    <2>1. CallInv(s) /\ (\A x \in Objs : Unmounting(s, x)) /\ \A c \in 1 .. n - 1 : ~s.fds[c].open
      OBVIOUS
    <2>2. CallInv(t) /\ t \in State
      <3>1. CallInv(t)
        BY <1>2, <2>1, ClosedOneInv
      <3> QED BY <3>1 DEF CallInv, CoreInv
    <2>3. n \in Nat /\ n <= D
      BY Constants DEF Descriptors
    <2>4. CASE ~s.fds[n].open
      <3>1. t = s
        BY <2>4 DEF ClosedOne
      <3>2. \A c \in 1 .. n : c \in 1 .. n - 1 \/ c = n
        BY <2>3
      <3>3. \A c \in 1 .. n : ~t.fds[c].open
        BY <2>1, <2>4, <3>1, <3>2
      <3> QED BY <2>1, <2>2, <3>1, <3>3
    <2>5. CASE s.fds[n].open
      <3>1. PICK q \in FlushCache(s, n) : t = Return(q.s, n)
        BY <2>5 DEF ClosedOne
      <3>2. \A x \in Objs : Unmounting(t, x)
        BY <2>1, <2>5, <3>1, UnmountingOne
      <3>3. q.s \in State /\ \A c \in Descriptors : q.s.fds[c].open = s.fds[c].open
        <4>1. Settles(s, q, s.fds[n].obj, {})
          BY <2>1, <2>5, FlushSettles
        <4> QED BY <4>1 DEF Settles, Outcome
      <3>4. ~t.fds[n].open /\ \A c \in Descriptors : c # n => t.fds[c] = q.s.fds[c]
        BY <3>1, <3>3, ReturnedFd DEF OnlyFd
      <3>5. \A c \in 1 .. n : c \in Descriptors /\ (c \in 1 .. n - 1 \/ c = n)
        BY <2>3, Constants DEF Descriptors
      <3>6. \A c \in 1 .. n : ~t.fds[c].open
        BY <2>1, <3>3, <3>4, <3>5
      <3> QED BY <2>2, <3>2, <3>6
    <2> QED BY <2>4, <2>5
  <1>3. G[0] = good(0) /\ G[D] = good(D) /\ \A n \in Descriptors : G[n - 1] = good(n - 1) /\ G[n] = good(n)
    BY Constants DEF Descriptors
  <1> HIDE DEF good, G
  <1>4. PICK s \in G[D] : Returns(Mounted(s))
    BY <1>1, <1>2, <1>3, RemountIn
  <1>5. CoreInv(s) /\ (\A x \in Objs : Unmounting(s, x)) /\ \A c \in Descriptors : ~s.fds[c].open
    BY <1>3 DEF good, CallInv, Descriptors
  <1>6. /\ Store!AllClosed
        /\ ByteFiles' = [o \in Objs |-> [exists |-> s.files[o].exists, data |-> s.files[o].data, kept |-> s.files[o].data]]
    BY <1>4, <1>5, MountsAll
  <1>7. ASSUME NEW o \in Objs
        PROVE  LET f == ByteFiles[o]
                   g == ByteFiles'[o]
               IN  /\ g.exists = f.exists /\ g.kept = g.data
                   /\ g.data = f.data \/ (Failures # {} /\ Store!MixOf(g.data, {f.data, f.kept}))
    <2> DEFINE f == ByteFiles[o]
               g == ByteFiles'[o]
    <2>1. g.exists = s.files[o].exists /\ g.data = s.files[o].data /\ g.kept = s.files[o].data
      BY <1>6
    <2>2. f.exists = files[o].exists /\ f.data = ContentOf(now, o) /\ f.kept = files[o].data
      BY MapsNow, NowState DEF FilesOf, FileOf
    <2>3. PagesOf(s, o) = {}
      <3>1. ASSUME NEW p \in PagesOf(s, o)  PROVE FALSE
        BY <1>5, <3>1, FoundIs
      <3> QED BY <3>1
    <2>4. ContentOf(s, o) = s.files[o].data
      BY <2>3 DEF ContentOf
    <2>5. Unmounting(s, o)
      BY <1>5
    <2> HIDE DEF f, g
    <2>6. g.exists = f.exists /\ g.kept = g.data
      BY <2>1, <2>2, <2>5 DEF Unmounting
    <2>7. g.data = f.data \/ (Failures # {} /\ Mixed(g.data, {f.data, f.kept}))
      BY <2>1, <2>2, <2>4, <2>5 DEF Unmounting
    <2>8. Mixed(g.data, {f.data, f.kept}) => Store!MixOf(g.data, {f.data, f.kept})
      BY DEF Mixed, Store!MixOf
    <2> QED BY <2>6, <2>7, <2>8 DEF f, g
  <1>8. DOMAIN ByteFiles' = Objs
    BY <1>6
  <1> QED BY <1>6, <1>7, <1>8 DEF Store!Remount

-----------------------------------------------------------------------------
(* The refinement *)

LEMMA NextStep ==
  ASSUME Careful, Uses = {}, StateInv, Next
  PROVE  Store!Next
  <1>1. Store!Descriptors = Descriptors
    BY DEF Store!Descriptors, Descriptors
  <1>2. ASSUME Store!Idle \/ \E c \in Descriptors : Store!Flush(c)  PROVE Store!Next
    BY <1>1, <1>2 DEF Store!Next
  <1>3. ASSUME NEW o \in Objs, Creat(o) \/ Gc(o)  PROVE Store!Next
    <2>1. Store!Create(o) \/ Store!Idle
      BY <1>3, CreatStep, GcStep
    <2> QED BY <2>1 DEF Store!Next
  <1>4. ASSUME NEW o \in Objs, NEW d \in Descriptors, Remove(o, d) \/ Rename(o, d)  PROVE Store!Next
    <2>1. CASE Remove(o, d)
      <3>1. Store!Remove(o)
        BY <2>1, RemoveStep
      <3> QED BY <3>1 DEF Store!Next
    <2>2. CASE Rename(o, d)
      BY <1>2, <2>2, RenameStep
    <2> QED BY <1>4, <2>1, <2>2
  <1>5. ASSUME NEW o \in Objs, NEW d \in Descriptors,
               NEW append \in BOOLEAN, NEW direct \in BOOLEAN, NEW trunc \in BOOLEAN, NEW byName \in BOOLEAN,
               Open(o, d, append, direct, trunc, byName)
        PROVE  Store!Next
    <2>1. Store!Open(o, d, append, trunc) \/ Store!Idle
      BY <1>5, OpenStep
    <2> QED BY <1>1, <2>1 DEF Store!Next
  <1>6. ASSUME NEW d \in Descriptors, OpenFails(d) \/ Flush(d) \/ Close(d) \/ FRemove(d)  PROVE Store!Next
    <2>1. CASE OpenFails(d)
      BY <1>2, <2>1, OpenFailsStep
    <2>2. CASE Flush(d)
      BY <1>2, <2>2, FlushStep
    <2>3. CASE Close(d)
      <3>1. Store!Close(d) \/ Store!Flush(d)
        BY <2>3, CloseStep
      <3> QED BY <1>1, <3>1 DEF Store!Next
    <2>4. CASE FRemove(d)
      <3>1. fds[d].obj \in Objs
        <4>1. fds[d].open
          BY <2>4 DEF FRemove
        <4> QED BY <4>1, OpenHandle
      <3>2. Store!Remove(fds[d].obj)
        BY <2>4, FRemoveStep
      <3> QED BY <3>1, <3>2 DEF Store!Next
    <2> QED BY <1>6, <2>1, <2>2, <2>3, <2>4
  <1>7. ASSUME NEW d \in Descriptors, NEW bytes \in Bytes, Write(d, bytes)  PROVE Store!Next
    <2>1. Store!Write(d, bytes) \/ Store!WriteFails(d, bytes)
      BY <1>7, WriteStep
    <2> QED BY <1>1, <2>1 DEF Store!Next
  <1>8. ASSUME NEW d \in Descriptors, NEW len \in 1 .. MaxSize, Read(d, len)  PROVE Store!Next
    <2>1. Store!Read(d, len)
      BY <1>8, ReadStep
    <2> QED BY <1>1, <2>1 DEF Store!Next
  <1>9. ASSUME NEW d \in Descriptors, NEW off \in 0 .. MaxSize, Seek(d, off)  PROVE Store!Next
    <2>1. Store!Seek(d, off)
      BY <1>9, SeekStep
    <2> QED BY <1>1, <2>1 DEF Store!Next
  <1>10. ASSUME Remount \/ PowerLoss  PROVE Store!Next
    BY <1>10, RemountStep, PowerLossStep DEF Store!Next
  <1> QED BY <1>3, <1>4, <1>5, <1>6, <1>7, <1>8, <1>9, <1>10 DEF Next

LEMMA VarsSame ==
  ASSUME UNCHANGED vars
  PROVE  UNCHANGED Store!vars
  <1>1. files' = files /\ fds' = fds /\ pages' = pages /\ got' = got
    BY DEF vars
  <1>2. now' = now
    BY <1>1 DEF now
  <1>3. \A o \in Objs : Content(o)' = Content(o)
    BY <1>1, <1>2 DEF Content, Pending
  <1>4. ByteFiles' = ByteFiles
    BY <1>1, <1>3 DEF ByteFiles
  <1>5. ByteHandles' = ByteHandles
    BY <1>1 DEF ByteHandles, Stray
  <1> QED BY <1>1, <1>4, <1>5 DEF Store!vars

\* Reads give what was written last, through whichever descriptor, in flash or
\* in a cache page; what was flushed survives power loss, and a call that fails
\* leaves nothing but a mix of the versions of its file (SPIFFS_write,
\* SPIFFS_read, spiffs_fflush_cache, SPIFFS_lseek, SPIFFS_open, SPIFFS_close,
\* SPIFFS_fremove, SPIFFS_rename, SPIFFS_unmount): where no caller makes one of
\* the uses that go wrong on their own, and an index page can always be stored.
THEOREM StoreKept ==
  ASSUME Careful, Uses = {}
  PROVE  Spec => StoreSpec
  <1>1. Init => Store!Init
    BY InitStep
  <1>2. StateInv /\ [Next]_vars => [Store!Next]_Store!vars
    BY NextStep, VarsSame
  <1> QED BY <1>1, <1>2, FilesCorrect, PTL DEF Spec, StoreSpec, Store!Spec
=============================================================================
