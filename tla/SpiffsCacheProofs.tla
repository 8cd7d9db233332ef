------------------------- MODULE SpiffsCacheProofs -------------------------
(***************************************************************************)
(* SpiffsCache, for every number of cache pages, pages, bits and files and *)
(* every width of the clock: the cache agrees with the flash, and the data *)
(* of files is kept in it.                                                 *)
(***************************************************************************)
EXTENDS SpiffsCache, WellFoundedInduction, TLAPS

-----------------------------------------------------------------------------
(* The inductive invariant *)

\* A cache page has a page of the flash if it is read, and a file if it is written.
Shape ==
    \A s \in Slots :
        /\ slots[s].use = "read" => \E p \in Pages : slots[s].page = {p}
        /\ slots[s].use # "read" => slots[s].page = {}
        /\ slots[s].use = "write" <=> slots[s].obj # NoObj

IInv == CacheInv /\ Shape

-----------------------------------------------------------------------------
(* Least elements, and what the code chooses *)

LEMMA Least ==
  ASSUME NEW T \in SUBSET Nat, T # {}
  PROVE  \E x \in T : \A y \in T : x <= y
  <1>1. PICK x \in T : \A y \in T : <<y, x>> \notin OpToRel(<, Nat)
    BY NatLessThanWellFounded, WFMin
  <1>2. \A y \in T : ~ (y < x)
    BY <1>1 DEF OpToRel
  <1> QED BY <1>2

LEMMA AgeType ==
  ASSUME TypeOK, NEW time \in 0 .. Clock - 1, NEW s \in Slots
  PROVE  Age(s, time) \in 0 .. Clock - 1
  <1>1. slots[s].last \in 0 .. Clock - 1
    BY DEF TypeOK
  <1>2. time + Clock - slots[s].last \in Int /\ Clock \in Nat /\ Clock > 0
    BY <1>1, CacheAssumption
  <1> DEFINE n == time + Clock - slots[s].last
  <1>3. n % Clock \in 0 .. Clock - 1
    <2> HIDE DEF n
    <2> QED BY <1>2 DEF n
  <1> QED BY <1>3 DEF Age

LEMMA SlotsNat == Slots \subseteq Nat
  BY CacheAssumption DEF Slots

\* The oldest of the copies is one of them.
LEMMA OldestExists ==
  ASSUME TypeOK, NEW time \in 0 .. Clock - 1, Evictable(time) # {}
  PROVE  Oldest(time) \in Evictable(time)
  <1> DEFINE E == Evictable(time)
             youth(s) == Clock - Age(s, time)
             T == {youth(s) : s \in E}
  <1>1. E \subseteq Slots
    BY DEF Evictable
  <1>2. \A s \in E : Age(s, time) \in 0 .. Clock - 1
    BY <1>1, AgeType
  <1>3. T \in SUBSET Nat /\ T # {}
    BY <1>2, CacheAssumption
  <1>4. PICK least \in T : \A y \in T : least <= y
    BY <1>3, Least
  <1> DEFINE F == {s \in E : youth(s) = least}
  <1>5. F \in SUBSET Nat /\ F # {}
    BY <1>1, <1>4, SlotsNat
  <1>6. PICK s \in F : \A t \in F : s <= t
    BY <1>5, Least
  <1>7. \A t \in E : Age(t, time) < Age(s, time) \/ (Age(t, time) = Age(s, time) /\ s <= t)
    <2> TAKE t \in E
    <2>1. youth(s) <= youth(t)
      BY <1>4, <1>6
    <2>2. Age(t, time) \in Nat /\ Age(s, time) \in Nat /\ Clock \in Nat
      BY <1>2, <1>6, CacheAssumption
    <2>3. CASE youth(s) = youth(t)
      <3>1. t \in F
        BY <2>3, <1>6
      <3> QED BY <3>1, <1>6, <2>2, <2>3
    <2>4. CASE youth(s) # youth(t)
      BY <2>1, <2>2, <2>4
    <2> QED BY <2>3, <2>4
  <1> QED BY <1>6, <1>7 DEF Oldest

\* A page makes room in a cache page that no file has.
LEMMA RoomSlot ==
  ASSUME TypeOK, NEW time \in 0 .. Clock - 1, NEW s \in Room(time)
  PROVE  s \in Slots /\ slots[s].use \in {"free", "read"}
  <1>1. CASE Full
    <2>1. Evictable(time) # {} /\ s = Oldest(time)
      BY <1>1 DEF Room
    <2> QED BY <2>1, OldestExists DEF Evictable
  <1>2. CASE ~ Full
    <2> DEFINE F == {t \in Slots : slots[t].use = "free"}
    <2>1. F \in SUBSET Nat /\ F # {}
      BY <1>2, SlotsNat DEF Full
    <2>2. \E t \in F : \A u \in F : t <= u
      BY <2>1, Least
    <2>3. s = CHOOSE t \in Slots : slots[t].use = "free" /\ \A u \in Slots : slots[u].use = "free" => t <= u
      BY <1>2 DEF Room
    <2>4. \E t \in Slots : slots[t].use = "free" /\ \A u \in Slots : slots[u].use = "free" => t <= u
      BY <2>2
    <2>5. s \in Slots /\ slots[s].use = "free"
      BY <2>3, <2>4
    <2> QED BY <2>5
  <1> QED BY <1>1, <1>2

\* The copy of a page is the only one.
LEMMA TheCopy ==
  ASSUME IInv, NEW p, Cached(p)
  PROVE  /\ SlotOf(p) \in Slots
         /\ slots[SlotOf(p)].use = "read" /\ slots[SlotOf(p)].page = {p}
         /\ \A t \in Slots : p \in slots[t].page => t = SlotOf(p)
  <1>1. PICK s \in Slots : Holds(s, p)
    BY DEF Cached
  <1>2. \A t \in Slots : p \in slots[t].page => t = s
    BY <1>1 DEF Holds, IInv, CacheInv, OneCopy
  <1>3. \A t \in Slots : Holds(t, p) => s <= t
    <2> TAKE t \in Slots
    <2> HAVE Holds(t, p)
    <2>1. t = s
      BY <1>2 DEF Holds
    <2> QED BY <2>1, SlotsNat
  <1>4. SlotOf(p) \in Slots /\ Holds(SlotOf(p), p)
    BY <1>1, <1>3 DEF SlotOf
  <1>5. SlotOf(p) = s
    BY <1>2, <1>4 DEF Holds
  <1> QED BY <1>2, <1>4, <1>5 DEF Holds

\* A page with no copy is in no cache page.
LEMMA NoCopy ==
  ASSUME IInv, NEW p, ~ Cached(p)
  PROVE  (\A s \in Slots : p \notin slots[s].page) /\ p \notin blind
  <1>1. ASSUME NEW s \in Slots, p \in slots[s].page PROVE FALSE
    <2>1. slots[s].use = "read"
      BY <1>1 DEF IInv, Shape
    <2>2. PICK q \in Pages : slots[s].page = {q}
      BY <2>1 DEF IInv, Shape
    <2> QED BY <1>1, <2>1, <2>2 DEF Cached, Holds
  <1>2. p \notin blind
    BY DEF IInv, CacheInv, Coherent
  <1> QED BY <1>1, <1>2

LEMMA TickType ==
  ASSUME TypeOK
  PROVE  Tick \in 0 .. Clock - 1
  <1>1. now + 1 \in Int /\ Clock \in Nat /\ Clock > 0
    BY CacheAssumption DEF TypeOK
  <1> DEFINE n == now + 1
  <1>2. n % Clock \in 0 .. Clock - 1
    <2> HIDE DEF n
    <2> QED BY <1>1 DEF n
  <1> QED BY <1>2 DEF Tick

-----------------------------------------------------------------------------
(* The steps *)

LEMMA InitInv ==
  ASSUME Init
  PROVE  IInv
  <1>1. TypeOK
    BY CacheAssumption DEF Init, TypeOK, FreeSlot
  <1>2. OneCopy /\ Coherent /\ CopiesBehind /\ Shape
    BY DEF Init, OneCopy, Coherent, CopiesBehind, Shape, FreeSlot
  <1> QED BY <1>1, <1>2 DEF IInv, CacheInv

\* What a cache page s may be given: nothing, a page that has no copy, or a file that has none.
Fits(v) ==
    \/ v = FreeSlot
    \/ \E p \in Pages, last \in 0 .. Clock - 1 : ~ Cached(p) /\ v = ReadSlot(p, flash[p], last)
    \/ \E o \in Objs, last \in 0 .. Clock - 1 :
            (\A t \in Slots : slots[t].obj # o) /\ v = WriteSlot(o, last)

\* One cache page is put to another use, and no page of the flash changes.
LEMMA PutInv ==
  ASSUME IInv, NEW s \in Slots, NEW v, Fits(v),
         slots' = [slots EXCEPT ![s] = v], flash' = flash,
         blind' = blind \ slots[s].page, now' \in 0 .. Clock - 1
  PROVE  IInv'
  <1> USE DEF IInv, CacheInv
  <1>1. /\ \A t \in Slots : t # s => slots'[t] = slots[t]
        /\ slots'[s] = v
    BY DEF TypeOK
  <1>2. v \in [use : {"free", "read", "write"}, page : SUBSET Pages, mem : SUBSET Bits,
                obj : Objs \cup {NoObj}, last : 0 .. Clock - 1]
    BY CacheAssumption DEF Fits, FreeSlot, ReadSlot, WriteSlot, TypeOK
  <1>3. TypeOK'
    BY <1>2 DEF TypeOK
  <1>4. /\ \A t \in Slots : v.page \cap slots[t].page = {}
        /\ \A p \in v.page : v.mem = flash[p]
        /\ v.use = "read" => \E p \in Pages : v.page = {p}
        /\ v.use # "read" => v.page = {}
        /\ v.use = "write" <=> v.obj # NoObj
        /\ v.use = "write" => \A t \in Slots : slots[t].obj # v.obj
    BY NoCopy, NoObjAssumption DEF Fits, FreeSlot, ReadSlot, WriteSlot
  <1>5. OneCopy'
    BY <1>1, <1>4 DEF OneCopy, Shape
  <1>6. Shape'
    BY <1>1, <1>4 DEF Shape
  <1>7. CopiesBehind'
    BY <1>1, <1>4 DEF CopiesBehind
  <1>8. Coherent'
    <2>1. ASSUME NEW t \in Slots, NEW p \in slots'[t].page, p \notin blind' PROVE slots'[t].mem = flash'[p]
      <3>1. CASE t = s
        BY <1>1, <1>4, <3>1, <2>1
      <3>2. CASE t # s
        <4>1. p \notin slots[s].page
          BY <1>1, <3>2, <2>1 DEF OneCopy
        <4> QED BY <1>1, <3>2, <4>1, <2>1 DEF Coherent
      <3> QED BY <3>1, <3>2
    <2>2. ASSUME NEW p \in blind' PROVE Cached(p)'
      <3>1. PICK t \in Slots : Holds(t, p)
        BY <2>2 DEF Coherent, Cached
      <3>2. t # s
        BY <3>1, <2>2 DEF Holds
      <3> QED BY <1>1, <3>1, <3>2 DEF Cached, Holds
    <2> QED BY <2>1, <2>2 DEF Coherent
  <1> QED BY <1>3, <1>5, <1>6, <1>7, <1>8

\* What was done to the access time of a cache page, or to the clock, is nothing to the rest.
LEMMA TouchInv ==
  ASSUME IInv, NEW s \in Slots, NEW last \in 0 .. Clock - 1,
         slots' = [slots EXCEPT ![s].last = last], flash' = flash,
         blind' = blind, now' \in 0 .. Clock - 1
  PROVE  IInv'
  <1> USE DEF IInv, CacheInv
  <1>1. \A t \in Slots : /\ slots'[t].use = slots[t].use /\ slots'[t].page = slots[t].page
                         /\ slots'[t].mem = slots[t].mem /\ slots'[t].obj = slots[t].obj
    BY DEF TypeOK
  <1>2. TypeOK'
    BY DEF TypeOK
  <1>3. OneCopy' /\ CopiesBehind' /\ Shape'
    BY <1>1 DEF OneCopy, CopiesBehind, Shape
  <1>4. \A p : Cached(p)' <=> Cached(p)
    BY <1>1 DEF Cached, Holds
  <1>5. Coherent'
    BY <1>1, <1>4 DEF Coherent
  <1> QED BY <1>2, <1>3, <1>5

LEMMA ReadHitInv ==
  ASSUME IInv, NEW p \in Pages, ReadHit(p)
  PROVE  IInv'
  <1>1. Tick \in 0 .. Clock - 1
    BY TickType DEF IInv, CacheInv
  <1>2. SlotOf(p) \in Slots
    BY TheCopy DEF ReadHit
  <1> QED BY <1>1, <1>2, TouchInv DEF ReadHit

LEMMA ClockInv ==
  ASSUME IInv, UNCHANGED <<flash, slots, blind>>, now' \in 0 .. Clock - 1
  PROVE  IInv'
  <1>1. TypeOK' /\ OneCopy' /\ Coherent' /\ CopiesBehind' /\ Shape'
    BY DEF IInv, CacheInv, TypeOK, OneCopy, Coherent, CopiesBehind, Shape, Cached, Holds
  <1> QED BY <1>1 DEF IInv, CacheInv

LEMMA ReadMissInv ==
  ASSUME IInv, NEW p \in Pages, ReadMiss(p)
  PROVE  IInv'
  <1>1. Tick \in 0 .. Clock - 1
    BY TickType DEF IInv, CacheInv
  <1>2. CASE Room(Tick) = {}
    BY <1>1, <1>2, ClockInv DEF ReadMiss
  <1>3. CASE Room(Tick) # {}
    <2>1. PICK s \in Room(Tick) :
            /\ slots' = [slots EXCEPT ![s] = ReadSlot(p, flash[p], Tick)]
            /\ blind' = blind \ slots[s].page
      BY <1>3 DEF ReadMiss, Forget
    <2>2. s \in Slots
      BY <1>1, RoomSlot DEF IInv, CacheInv
    <2>3. Fits(ReadSlot(p, flash[p], Tick))
      BY <1>1 DEF Fits, ReadMiss
    <2>4. flash' = flash /\ now' = Tick
      BY DEF ReadMiss
    <2> QED BY <1>1, <2>1, <2>2, <2>3, <2>4, PutInv
  <1> QED BY <1>2, <1>3

\* A write leaves every copy but that of the page, and there sets the bits of the part.
Written(p, part, zeros) ==
    /\ \A q \in Pages : q # p => flash'[q] = flash[q]
    /\ flash'[p] = flash[p] \cup zeros
    /\ \A t \in Slots : /\ slots'[t].use = slots[t].use /\ slots'[t].page = slots[t].page
                        /\ slots'[t].obj = slots[t].obj
                        /\ p \notin slots[t].page => slots'[t].mem = slots[t].mem
                        /\ p \in slots[t].page => slots'[t].mem = (slots[t].mem \ part) \cup zeros

LEMMA WriteEffect ==
  ASSUME IInv, NEW p \in Pages, NEW part \in SUBSET Bits, NEW zeros \in SUBSET part,
         Write(p, part, zeros), blind' \subseteq Pages
  PROVE  TypeOK' /\ Written(p, part, zeros)
  <1> USE DEF IInv, CacheInv
  <1>1. Tick \in 0 .. Clock - 1
    BY TickType
  <1>2. /\ flash' \in [Pages -> SUBSET Bits]
        /\ \A q \in Pages : q # p => flash'[q] = flash[q]
        /\ flash'[p] = flash[p] \cup zeros
    BY DEF Write, TypeOK
  <1>3. CASE ~ Cached(p)
    <2>1. slots' = slots /\ now' = now
      BY <1>3 DEF Write
    <2>2. \A t \in Slots : p \notin slots[t].page
      BY <1>3, NoCopy
    <2> QED BY <1>2, <2>1, <2>2 DEF TypeOK, Written
  <1>4. CASE Cached(p)
    <2> DEFINE c == SlotOf(p)
    <2>1. now' = Tick /\ slots' = [slots EXCEPT ![c].mem = (@ \ part) \cup zeros, ![c].last = Tick]
      BY <1>4 DEF Write
    <2>2. c \in Slots /\ slots[c].page = {p} /\ \A t \in Slots : p \in slots[t].page => t = c
      BY <1>4, TheCopy
    <2> HIDE DEF c
    <2>3. /\ \A t \in Slots : t # c => slots'[t] = slots[t]
          /\ slots'[c] = [slots[c] EXCEPT !.mem = (@ \ part) \cup zeros, !.last = Tick]
      BY <2>1, <2>2 DEF TypeOK
    <2>4. slots' \in [Slots -> [use : {"free", "read", "write"}, page : SUBSET Pages, mem : SUBSET Bits,
                               obj : Objs \cup {NoObj}, last : 0 .. Clock - 1]]
      BY ZenonT(60), <1>1, <2>1, <2>2 DEF TypeOK
    <2>5. slots[c] \in [use : {"free", "read", "write"}, page : SUBSET Pages, mem : SUBSET Bits,
                       obj : Objs \cup {NoObj}, last : 0 .. Clock - 1]
      BY <2>2 DEF TypeOK
    <2>6. /\ slots'[c].use = slots[c].use /\ slots'[c].page = slots[c].page
          /\ slots'[c].obj = slots[c].obj /\ slots'[c].mem = (slots[c].mem \ part) \cup zeros
      BY <2>3, <2>5
    <2>7. TypeOK'
      BY <1>1, <1>2, <2>1, <2>4 DEF TypeOK
    <2> QED BY <1>2, <2>2, <2>3, <2>6, <2>7 DEF Written
  <1> QED BY <1>3, <1>4

\* A write to a page keeps the copy coherent if it is known, or the page is in blind.
LEMMA WriteInv ==
  ASSUME IInv, NEW p \in Pages, NEW part \in SUBSET Bits, NEW zeros \in SUBSET part,
         Write(p, part, zeros), blind' \in {blind, blind \cup {p}},
         p \in blind' => Cached(p), p \notin blind' => View(p) \cap part \subseteq zeros \/ ~ Cached(p)
  PROVE  IInv'
  <1>1. blind' \subseteq Pages
    BY DEF IInv, CacheInv, TypeOK
  <1>2. TypeOK' /\ Written(p, part, zeros)
    BY <1>1, WriteEffect
  <1> USE DEF IInv, CacheInv, Written
  <1>3. OneCopy' /\ Shape'
    BY <1>2 DEF OneCopy, Shape
  <1>4. \A t \in Slots : p \in slots[t].page => slots[t].page = {p} /\ slots[t].use = "read"
    BY DEF Shape
  <1>5. CopiesBehind'
    <2> SUFFICES ASSUME NEW t \in Slots, NEW q \in slots[t].page PROVE slots'[t].mem \subseteq flash'[q]
      BY <1>2 DEF CopiesBehind
    <2>1. slots[t].mem \subseteq flash[q] /\ q \in Pages
      BY DEF CopiesBehind, TypeOK
    <2>2. CASE q = p
      BY <1>2, <2>1, <2>2
    <2>3. CASE q # p
      <3>1. p \notin slots[t].page
        BY <1>4, <2>3
      <3> QED BY <1>2, <2>1, <2>3, <3>1
    <2> QED BY <2>2, <2>3
  <1>6. \A q : Cached(q) => Cached(q)'
    BY <1>2 DEF Cached, Holds
  <1>7. Coherent'
    <2>1. ASSUME NEW q \in blind' PROVE Cached(q)'
      BY <1>6, <2>1 DEF Coherent
    <2>2. ASSUME NEW t \in Slots, NEW q \in slots[t].page, q \notin blind' PROVE slots'[t].mem = flash'[q]
      <3>1. q \notin blind /\ q \in Pages
        BY <2>2 DEF TypeOK
      <3>2. slots[t].mem = flash[q]
        BY <3>1 DEF Coherent
      <3>3. CASE q = p
        <4>1. Cached(p)
          BY <3>3, NoCopy
        <4>2. View(p) \cap part \subseteq zeros
          BY <2>2, <3>3, <4>1
        <4>3. t = SlotOf(p)
          BY <3>3, <4>1, TheCopy
        <4>4. View(p) = slots[t].mem
          BY <4>1, <4>3 DEF View
        <4> QED BY ZenonT(60), <1>2, <3>2, <3>3, <4>2, <4>4
      <3>4. CASE q # p
        <4>1. p \notin slots[t].page
          BY <1>4, <3>4
        <4> QED BY <1>2, <3>1, <3>2, <3>4, <4>1
      <3> QED BY <3>3, <3>4
    <2> QED BY <1>2, <2>1, <2>2 DEF Coherent
  <1> QED BY <1>2, <1>3, <1>5, <1>7

LEMMA WriteKnownInv ==
  ASSUME IInv, NEW p \in Pages, NEW part \in SUBSET Bits, NEW zeros \in SUBSET part,
         WriteKnown(p, part, zeros)
  PROVE  IInv'
  <1>1. p \in blind => Cached(p)
    BY DEF IInv, CacheInv, Coherent
  <1> QED BY <1>1, WriteInv DEF WriteKnown

LEMMA WriteBlindInv ==
  ASSUME IInv, NEW p \in Pages, NEW part \in SUBSET Bits, NEW zeros \in SUBSET part,
         WriteBlind(p, part, zeros)
  PROVE  IInv'
  <1>1. p \in blind => Cached(p)
    BY DEF IInv, CacheInv, Coherent
  <1>2. CASE Cached(p)
    <2>1. blind' = blind \cup {p}
      BY <1>2 DEF WriteBlind
    <2> QED BY <1>2, <2>1, WriteInv DEF WriteBlind
  <1>3. CASE ~ Cached(p)
    <2>1. blind' = blind
      BY <1>3 DEF WriteBlind
    <2> QED BY <1>1, <1>3, <2>1, WriteInv DEF WriteBlind
  <1> QED BY <1>2, <1>3

\* Cache pages are given up together with all pages that are erased or deleted:
\* what is left has nothing to do with them.
LEMMA DropInv ==
  ASSUME IInv, NEW ps \in SUBSET Pages,
         flash' \in [Pages -> SUBSET Bits],
         \A q \in Pages \ ps : flash'[q] = flash[q],
         slots' = [s \in Slots |-> IF slots[s].page \cap ps # {} THEN FreeSlot ELSE slots[s]],
         blind' = blind \ ps, now' = now
  PROVE  IInv'
  <1> USE DEF IInv, CacheInv
  <1> DEFINE Gone(s) == slots[s].page \cap ps # {}
  <1>1. \A s \in Slots : /\ Gone(s) => slots'[s] = FreeSlot
                         /\ ~ Gone(s) => slots'[s] = slots[s]
    OBVIOUS
  <1>2. TypeOK'
    <2>1. FreeSlot \in [use : {"free", "read", "write"}, page : SUBSET Pages, mem : SUBSET Bits,
                        obj : Objs \cup {NoObj}, last : 0 .. Clock - 1]
      BY CacheAssumption DEF FreeSlot
    <2> QED BY <2>1 DEF TypeOK
  <1>3. OneCopy' /\ Shape'
    BY <1>1 DEF OneCopy, Shape, FreeSlot
  <1>4. \A s \in Slots : \A q \in slots'[s].page : ~ Gone(s) /\ q \notin ps /\ q \in slots[s].page /\ q \in Pages
    BY <1>1 DEF FreeSlot, TypeOK
  <1>5. CopiesBehind'
    <2> SUFFICES ASSUME NEW s \in Slots, NEW q \in slots'[s].page PROVE slots'[s].mem \subseteq flash'[q]
      BY DEF CopiesBehind
    <2>1. ~ Gone(s) /\ q \notin ps /\ q \in slots[s].page /\ q \in Pages
      BY <1>4
    <2> QED BY <1>1, <2>1 DEF CopiesBehind
  <1>6. Coherent'
    <2>1. ASSUME NEW s \in Slots, NEW q \in slots'[s].page, q \notin blind' PROVE slots'[s].mem = flash'[q]
      <3>1. ~ Gone(s) /\ q \notin ps /\ q \in slots[s].page /\ q \in Pages
        BY <1>4
      <3>2. q \notin blind
        BY <3>1, <2>1
      <3> QED BY <1>1, <3>1, <3>2 DEF Coherent
    <2>2. ASSUME NEW q \in blind' PROVE Cached(q)'
      <3>1. PICK s \in Slots : Holds(s, q)
        BY <2>2 DEF Coherent, Cached
      <3>2. ~ Gone(s)
        BY <3>1, <2>2 DEF Holds
      <3> QED BY <1>1, <3>1, <3>2 DEF Cached, Holds
    <2> QED BY <2>1, <2>2 DEF Coherent
  <1> QED BY <1>2, <1>3, <1>5, <1>6

LEMMA WriteDeletesInv ==
  ASSUME IInv, NEW p \in Pages, NEW part \in SUBSET Bits, NEW zeros \in SUBSET part,
         WriteDeletes(p, part, zeros)
  PROVE  IInv'
  <1>1. /\ flash' \in [Pages -> SUBSET Bits]
        /\ \A q \in Pages \ {p} : flash'[q] = flash[q]
    BY DEF WriteDeletes, IInv, CacheInv, TypeOK
  <1>2. slots' = [s \in Slots |-> IF slots[s].page \cap {p} # {} THEN FreeSlot ELSE slots[s]]
    <2>1. CASE Cached(p)
      <3> DEFINE c == SlotOf(p)
      <3>1. slots' = [slots EXCEPT ![c] = FreeSlot]
        BY <2>1 DEF WriteDeletes
      <3>2. c \in Slots /\ slots[c].page = {p} /\ \A t \in Slots : p \in slots[t].page => t = c
        BY <2>1, TheCopy
      <3> HIDE DEF c
      <3>3. slots = [s \in Slots |-> slots[s]]
        BY DEF IInv, CacheInv, TypeOK
      <3> QED BY <3>1, <3>2, <3>3
    <2>2. CASE ~ Cached(p)
      <3>1. slots' = slots /\ \A t \in Slots : p \notin slots[t].page
        BY <2>2, NoCopy DEF WriteDeletes
      <3>2. slots = [s \in Slots |-> slots[s]]
        BY DEF IInv, CacheInv, TypeOK
      <3> QED BY <3>1, <3>2
    <2> QED BY <2>1, <2>2
  <1>3. blind' = blind \ {p} /\ now' = now
    BY DEF WriteDeletes, Forget
  <1> QED BY <1>1, <1>2, <1>3, DropInv

LEMMA EraseBlockInv ==
  ASSUME IInv, NEW b \in Blocks, NEW count \in SUBSET Bits, NEW last \in b \cap Lookup,
         EraseBlock(b, last, count)
  PROVE  IInv'
  <1>1. b \in SUBSET Pages
    BY DEF Pages
  <1>2. /\ flash' \in [Pages -> SUBSET Bits]
        /\ \A q \in Pages \ b : flash'[q] = flash[q]
    BY DEF EraseBlock, IInv, CacheInv, TypeOK
  <1> QED BY <1>1, <1>2, DropInv DEF EraseBlock, DropPages, Forget

LEMMA AllocateInv ==
  ASSUME IInv, NEW o \in Objs, AllocateByFd(o)
  PROVE  IInv'
  <1>1. now \in 0 .. Clock - 1
    BY DEF IInv, CacheInv, TypeOK
  <1>2. PICK s \in Room(now) : /\ slots' = [slots EXCEPT ![s] = WriteSlot(o, now)]
                               /\ blind' = blind \ slots[s].page
    BY DEF AllocateByFd, Forget
  <1>3. s \in Slots
    BY <1>1, RoomSlot DEF IInv, CacheInv
  <1>4. Fits(WriteSlot(o, now)) /\ flash' = flash /\ now' = now
    BY <1>1 DEF AllocateByFd, Fits
  <1> QED BY <1>1, <1>2, <1>3, <1>4, PutInv

LEMMA ReleaseInv ==
  ASSUME IInv, NEW o \in Objs, FdRelease(o)
  PROVE  IInv'
  <1>1. PICK s \in Slots : slots[s].obj = o /\ slots' = [slots EXCEPT ![s] = FreeSlot]
    BY DEF FdRelease
  <1>2. slots[s].page = {}
    BY <1>1, NoObjAssumption DEF IInv, Shape
  <1>3. Fits(FreeSlot) /\ flash' = flash /\ now' \in 0 .. Clock - 1 /\ blind' = blind \ slots[s].page
    BY <1>2 DEF FdRelease, Fits, IInv, CacheInv, TypeOK
  <1> QED BY <1>1, <1>3, PutInv

LEMMA RemountInv ==
  ASSUME IInv, Remount
  PROVE  IInv'
  <1>1. TypeOK'
    BY CacheAssumption DEF IInv, CacheInv, Remount, TypeOK, FreeSlot
  <1>2. OneCopy' /\ Coherent' /\ CopiesBehind' /\ Shape'
    BY DEF Remount, OneCopy, Coherent, CopiesBehind, Shape, FreeSlot
  <1> QED BY <1>1, <1>2 DEF IInv, CacheInv

LEMMA StepInv ==
  ASSUME IInv, [Next]_vars
  PROVE  IInv'
  <1>1. CASE UNCHANGED vars
    <2>1. now \in 0 .. Clock - 1
      BY DEF IInv, CacheInv, TypeOK
    <2> QED BY <1>1, <2>1, ClockInv DEF vars
  <1>2. ASSUME NEW p \in Pages, ReadHit(p) \/ ReadMiss(p) \/ ReadPast(p) PROVE IInv'
    <2>1. Tick \in 0 .. Clock - 1
      BY TickType DEF IInv, CacheInv
    <2>2. CASE ReadPast(p)
      BY <2>1, <2>2, ClockInv DEF ReadPast
    <2> QED BY <1>2, <2>2, ReadHitInv, ReadMissInv
  <1>3. ASSUME NEW p \in Pages, NEW part \in SUBSET Bits, NEW zeros \in SUBSET part,
               WriteKnown(p, part, zeros) \/ WriteBlind(p, part, zeros) \/ WriteDeletes(p, part, zeros)
        PROVE  IInv'
    BY <1>3, WriteKnownInv, WriteBlindInv, WriteDeletesInv
  <1>4. ASSUME NEW b \in Blocks, NEW count \in SUBSET Bits, NEW last \in b \cap Lookup,
               EraseBlock(b, last, count)
        PROVE  IInv'
    BY <1>4, EraseBlockInv
  <1>5. ASSUME NEW o \in Objs, AllocateByFd(o) \/ FdRelease(o) PROVE IInv'
    BY <1>5, AllocateInv, ReleaseInv
  <1>6. CASE Remount
    BY <1>6, RemountInv
  <1> QED BY <1>1, <1>2, <1>3, <1>4, <1>5, <1>6 DEF Next

-----------------------------------------------------------------------------
(* The theorems *)

\* What the cache holds is what the flash holds, but for copies a blind write went
\* to, and nothing has two copies: spiffs_phys_rd and spiffs_phys_wr, whatever pages are read,
\* written, deleted and erased, and whatever files take cache pages.
THEOREM CacheCorrect == Spec => []CacheInv
  <1>1. Init => IInv
    BY InitInv
  <1>2. IInv /\ [Next]_vars => IInv'
    BY StepInv
  <1>3. IInv => CacheInv
    BY DEF IInv
  <1> QED BY <1>1, <1>2, <1>3, PTL DEF Spec

LEMMA StepKeeps ==
  ASSUME IInv, [Next]_vars
  PROVE  [\A o \in Objs : (\E s \in Slots : slots[s].obj = o)
              => (\E s \in Slots : slots'[s].obj = o) \/ FdRelease(o)]_vars
  <1> SUFFICES ASSUME Next, NEW o \in Objs, NEW f \in Slots, slots[f].obj = o, ~ FdRelease(o)
               PROVE  \E s \in Slots : slots'[s].obj = o
    OBVIOUS
  <1> USE DEF IInv, CacheInv
  <1>1. slots[f].use = "write" /\ slots[f].page = {}
    BY NoObjAssumption DEF Shape
  <1>2. Tick \in 0 .. Clock - 1 /\ now \in 0 .. Clock - 1
    BY TickType DEF TypeOK
  <1>3. ASSUME NEW p \in Pages, ReadHit(p) \/ ReadMiss(p) \/ ReadPast(p) PROVE slots'[f].obj = o
    <2>1. CASE ReadHit(p)
      BY <2>1 DEF ReadHit, TypeOK
    <2>2. CASE ReadMiss(p)
      <3>1. CASE Room(Tick) = {}
        BY <2>2, <3>1 DEF ReadMiss
      <3>2. CASE Room(Tick) # {}
        <4>1. PICK s \in Room(Tick) : slots' = [slots EXCEPT ![s] = ReadSlot(p, flash[p], Tick)]
          BY <2>2, <3>2 DEF ReadMiss
        <4>2. s \in Slots /\ s # f
          BY <1>1, <1>2, RoomSlot
        <4> QED BY <4>1, <4>2 DEF TypeOK
      <3> QED BY <3>1, <3>2
    <2>3. CASE ReadPast(p)
      BY <2>3 DEF ReadPast
    <2> QED BY <1>3, <2>1, <2>2, <2>3
  <1>4. ASSUME NEW p \in Pages, NEW part \in SUBSET Bits, NEW zeros \in SUBSET part,
               WriteKnown(p, part, zeros) \/ WriteBlind(p, part, zeros) \/ WriteDeletes(p, part, zeros)
        PROVE  slots'[f].obj = o
    <2>1. CASE ~ Cached(p)
      BY <1>4, <2>1 DEF WriteKnown, WriteBlind, WriteDeletes, Write
    <2>2. CASE Cached(p)
      <3> DEFINE c == SlotOf(p)
      <3>1. c \in Slots /\ c # f
        BY <1>1, <2>2, TheCopy
      <3>2. \/ slots' = [slots EXCEPT ![c].mem = (@ \ part) \cup zeros, ![c].last = Tick]
            \/ slots' = [slots EXCEPT ![c] = FreeSlot]
        BY <1>4, <2>2 DEF WriteKnown, WriteBlind, WriteDeletes, Write
      <3> HIDE DEF c
      <3> QED BY <3>1, <3>2 DEF TypeOK
    <2> QED BY <2>1, <2>2
  <1>5. ASSUME NEW b \in Blocks, NEW count \in SUBSET Bits, NEW last \in b \cap Lookup,
               EraseBlock(b, last, count)
        PROVE  slots'[f].obj = o
    BY <1>1, <1>5 DEF EraseBlock, DropPages
  <1>6. ASSUME NEW q \in Objs, AllocateByFd(q) PROVE slots'[f].obj = o
    <2>1. PICK s \in Room(now) : slots' = [slots EXCEPT ![s] = WriteSlot(q, now)]
      BY <1>6 DEF AllocateByFd
    <2>2. s \in Slots /\ s # f
      BY <1>1, <1>2, RoomSlot
    <2> QED BY <2>1, <2>2 DEF TypeOK
  <1>7. ASSUME NEW q \in Objs, FdRelease(q) PROVE slots'[f].obj = o
    <2>1. q # o
      BY <1>7
    <2>2. PICK s \in Slots : slots[s].obj = q /\ slots' = [slots EXCEPT ![s] = FreeSlot]
      BY <1>7 DEF FdRelease
    <2> QED BY <2>1, <2>2 DEF TypeOK
  <1>8. ~ Remount
    BY <1>1 DEF Remount
  <1> QED BY <1>3, <1>4, <1>5, <1>6, <1>7, <1>8 DEF Next

\* The data of a file stays in its cache page until spiffs_cache_fd_release gives it up:
\* no read, write, erase or other file takes the page.
THEOREM FilesStay == Spec => FilesKept
  <1>1. Init => IInv
    BY InitInv
  <1>2. IInv /\ [Next]_vars => IInv'
    BY StepInv
  <1>3. IInv /\ [Next]_vars => [\A o \in Objs : (\E s \in Slots : slots[s].obj = o)
              => (\E s \in Slots : slots'[s].obj = o) \/ FdRelease(o)]_vars
    BY StepKeeps
  <1> QED BY <1>1, <1>2, <1>3, PTL DEF Spec, FilesKept
=============================================================================
