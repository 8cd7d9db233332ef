--------------------------- MODULE SpiffsFlashWrites ---------------------------
(***************************************************************************)
(* What the driver writes of SpiffsFlash do: to a page (Joined), to the    *)
(* flash when the functions of the nucleus send several of them (Leads),   *)
(* and to files: to the one they are about, and to the others.  With it    *)
(* the arithmetic of units, pages and index entries, and what the locals   *)
(* of a call look like.                                                    *)
(***************************************************************************)
EXTENDS SpiffsFlashInv, SequenceTheorems, FiniteSetTheorems, WellFoundedInduction, TLAPS

-----------------------------------------------------------------------------
(* Writes: what cells hold that several of them reach *)

LEMMA JoinedBlank ==
  ASSUME NEW A, A \subseteq {Blank}
  PROVE  Joined(A) = Blank
  BY DEF Joined

LEMMA JoinedValue ==
  ASSUME NEW A, NEW v, v \in A, v # Blank, A \subseteq {Blank, v}
  PROVE  Joined(A) = v
  <1>1. A \ {Blank} = {v} /\ ~(A \subseteq {Blank})
    OBVIOUS
  <1>2. (CHOOSE x \in A : x # Blank) = v
    <2>1. \E x \in A : x # Blank
      OBVIOUS
    <2>2. (CHOOSE x \in A : x # Blank) \in A /\ (CHOOSE x \in A : x # Blank) # Blank
      BY <2>1
    <2> QED BY <2>2, <1>1
  <1> QED BY <1>1, <1>2 DEF Joined

LEMMA JoinedGarbled ==
  ASSUME NEW A, NEW v, NEW u, v \in A, u \in A, v # Blank, u # Blank, v # u
  PROVE  Joined(A) = Garbled
  <1>1. ~(A \subseteq {Blank})
    OBVIOUS
  <1>2. ~(\E x \in A : A \ {Blank} = {x})
    OBVIOUS
  <1> QED BY <1>1, <1>2 DEF Joined

\* A set is one of the three.
LEMMA JoinedCases ==
  ASSUME NEW A
  PROVE  \/ A \subseteq {Blank} /\ Joined(A) = Blank
         \/ \E v \in A : v # Blank /\ A \subseteq {Blank, v} /\ Joined(A) = v
         \/ \E v \in A, u \in A : v # Blank /\ u # Blank /\ v # u /\ Joined(A) = Garbled
  <1>1. CASE A \subseteq {Blank}
    BY <1>1, JoinedBlank
  <1>2. CASE ~(A \subseteq {Blank})
    <2>1. PICK v \in A : v # Blank
      BY <1>2
    <2>2. CASE A \subseteq {Blank, v}
      BY <2>1, <2>2, JoinedValue
    <2>3. CASE ~(A \subseteq {Blank, v})
      <3>1. PICK u \in A : u # Blank /\ u # v
        BY <2>3
      <3> QED BY <2>1, <3>1, JoinedGarbled
    <2> QED BY <2>2, <2>3
  <1> QED BY <1>1, <1>2

LEMMA JoinedTwo ==
  ASSUME NEW a, NEW b
  PROVE  Joined({a, b}) = Meet(a, b)
  <1>1. CASE a = Blank /\ b = Blank
    BY <1>1, JoinedBlank DEF Meet
  <1>2. CASE a # Blank /\ (b = Blank \/ b = a)
    BY <1>2, JoinedValue DEF Meet
  <1>3. CASE a = Blank /\ b # Blank
    BY <1>3, JoinedValue DEF Meet
  <1>4. CASE a # Blank /\ b # Blank /\ a # b
    BY <1>4, JoinedGarbled DEF Meet
  <1> QED BY <1>1, <1>2, <1>3, <1>4

\* Some of the writes first, the others after them: it comes to the same.
LEMMA JoinedTwice ==
  ASSUME NEW A, NEW C
  PROVE  Joined(A \cup C) = Joined({Joined(A)} \cup C)
  <1> DEFINE J == Joined(A)
             T == {J} \cup C
             S == A \cup C
  <1>1. CASE A \subseteq {Blank} /\ J = Blank
    <2>1. CASE C \subseteq {Blank}
      <3>1. S \subseteq {Blank} /\ T \subseteq {Blank}
        BY <1>1, <2>1
      <3> QED BY <3>1, JoinedBlank
    <2>2. CASE \E v \in C : v # Blank /\ C \subseteq {Blank, v}
      <3>1. PICK v \in C : v # Blank /\ C \subseteq {Blank, v}
        BY <2>2
      <3>2. /\ v \in S /\ S \subseteq {Blank, v}
            /\ v \in T /\ T \subseteq {Blank, v}
        BY <1>1, <3>1
      <3> HIDE DEF S, T
      <3> QED BY <3>1, <3>2, JoinedValue DEF S, T
    <2>3. CASE \E v \in C, u \in C : v # Blank /\ u # Blank /\ v # u
      <3>1. PICK v \in C, u \in C : v # Blank /\ u # Blank /\ v # u
        BY <2>3
      <3>2. v \in S /\ u \in S /\ v \in T /\ u \in T
        OBVIOUS
      <3> HIDE DEF S, T
      <3> QED BY <3>1, <3>2, JoinedGarbled DEF S, T
    <2> QED BY <2>1, <2>2, <2>3
  <1>2. CASE \E v \in A : v # Blank /\ A \subseteq {Blank, v} /\ J = v
    <2>1. PICK v \in A : v # Blank /\ A \subseteq {Blank, v} /\ J = v
      BY <1>2
    <2>2. CASE C \subseteq {Blank, v}
      <3>1. /\ v \in S /\ S \subseteq {Blank, v}
            /\ v \in T /\ T \subseteq {Blank, v}
        BY <2>1, <2>2
      <3> HIDE DEF S, T
      <3> QED BY <2>1, <3>1, JoinedValue DEF S, T
    <2>3. CASE \E u \in C : u # Blank /\ u # v
      <3>1. PICK u \in C : u # Blank /\ u # v
        BY <2>3
      <3>2. v \in S /\ u \in S /\ v \in T /\ u \in T
        BY <2>1
      <3> HIDE DEF S, T
      <3> QED BY <2>1, <3>1, <3>2, JoinedGarbled DEF S, T
    <2> QED BY <2>2, <2>3
  <1>3. CASE \E v \in A, u \in A : v # Blank /\ u # Blank /\ v # u /\ J = Garbled
    <2>1. PICK v \in A, u \in A : v # Blank /\ u # Blank /\ v # u /\ J = Garbled
      BY <1>3
    <2>2. Joined(S) = Garbled
      <3>1. v \in S /\ u \in S
        OBVIOUS
      <3> HIDE DEF S
      <3> QED BY <2>1, <3>1, JoinedGarbled
    <2>3. Garbled \in T /\ Garbled # Blank
      BY <2>1, ValuesAssumption
    <2>4. Joined(T) = Garbled
      <3>1. CASE T \subseteq {Blank, Garbled}
        <4> HIDE DEF T
        <4> QED BY <2>3, <3>1, JoinedValue
      <3>2. CASE ~(T \subseteq {Blank, Garbled})
        <4> HIDE DEF T
        <4>1. PICK x \in T : x # Blank /\ x # Garbled
          BY <3>2
        <4> QED BY <2>3, <4>1, JoinedGarbled
      <3> QED BY <3>1, <3>2
    <2> QED BY <2>2, <2>4
  <1> QED BY <1>1, <1>2, <1>3, JoinedCases

LEMMA JoinedLuTwo ==
  ASSUME NEW a, NEW b
  PROVE  JoinedLu({a, b}) = IF Deleted \in {a, b} THEN Deleted ELSE Meet(a, b)
  BY JoinedTwo DEF JoinedLu

LEMMA JoinedLuTwice ==
  ASSUME NEW A, NEW C
  PROVE  JoinedLu(A \cup C) = JoinedLu({JoinedLu(A)} \cup C)
  <1>1. CASE Deleted \in A
    <2>1. JoinedLu(A) = Deleted
      BY <1>1 DEF JoinedLu
    <2> QED BY <1>1, <2>1 DEF JoinedLu
  <1>2. CASE Deleted \notin A
    <2>1. JoinedLu(A) = Joined(A)
      BY <1>2 DEF JoinedLu
    <2>2. Joined(A) # Deleted
      BY <1>2, JoinedCases, ValuesAssumption
    <2>3. CASE Deleted \in C
      BY <2>3 DEF JoinedLu
    <2>4. CASE Deleted \notin C
      <3>1. Deleted \notin A \cup C /\ Deleted \notin {Joined(A)} \cup C
        BY <1>2, <2>2, <2>4
      <3>2. JoinedLu(A \cup C) = Joined(A \cup C)
        BY <3>1 DEF JoinedLu
      <3>3. JoinedLu({Joined(A)} \cup C) = Joined({Joined(A)} \cup C)
        BY <3>1 DEF JoinedLu
      <3> QED BY <2>1, <3>2, <3>3, JoinedTwice
    <2> QED BY <2>3, <2>4
  <1> QED BY <1>1, <1>2

LEMMA JoinedPageTwo ==
  ASSUME NEW a, NEW b
  PROVE  JoinedPage({a, b}) = MeetPage(a, b)
  <1>1. /\ {x.lu : x \in {a, b}} = {a.lu, b.lu}
        /\ {x.id : x \in {a, b}} = {a.id, b.id}
        /\ {x.span : x \in {a, b}} = {a.span, b.span}
        /\ UNION {x.flags : x \in {a, b}} = a.flags \cup b.flags
        /\ {x.size : x \in {a, b}} = {a.size, b.size}
    OBVIOUS
  <1>2. \A c \in Cells : Joined({x.cells[c] : x \in {a, b}}) = Meet(a.cells[c], b.cells[c])
    <2> TAKE c \in Cells
    <2>1. {x.cells[c] : x \in {a, b}} = {a.cells[c], b.cells[c]}
      OBVIOUS
    <2> QED BY <2>1, JoinedTwo
  <1>3. [c \in Cells |-> Joined({x.cells[c] : x \in {a, b}})]
          = [c \in Cells |-> Meet(a.cells[c], b.cells[c])]
    BY <1>2
  <1>4. JoinedLu({x.lu : x \in {a, b}})
          = IF Deleted \in {a.lu, b.lu} THEN Deleted ELSE Meet(a.lu, b.lu)
    <2> DEFINE S == {x.lu : x \in {a, b}}
    <2>1. S = {a.lu, b.lu}
      BY <1>1
    <2> HIDE DEF S
    <2>2. JoinedLu(S) = IF Deleted \in {a.lu, b.lu} THEN Deleted ELSE Meet(a.lu, b.lu)
      BY <2>1, JoinedLuTwo
    <2> QED BY <2>2 DEF S
  <1>5. /\ Joined({x.id : x \in {a, b}}) = Meet(a.id, b.id)
        /\ Joined({x.span : x \in {a, b}}) = Meet(a.span, b.span)
        /\ Joined({x.size : x \in {a, b}}) = Meet(a.size, b.size)
    BY <1>1, JoinedTwo, ZenonT(60)
  <1> QED BY <1>1, <1>3, <1>4, <1>5, ZenonT(60) DEF JoinedPage, MeetPage

LEMMA MeetSame == \A v : Meet(v, v) = v /\ Meet(v, Blank) = v /\ Meet(Blank, v) = v
  BY DEF Meet

LEMMA PageParts ==
  ASSUME NEW x \in PageType
  PROVE  /\ x.lu \in Ids \cup {Blank, Deleted, Garbled} /\ x.id \in Ids \cup {Blank, Garbled}
         /\ x.span \in Values /\ x.size \in Values /\ x.flags \in SUBSET Flags
         /\ x.cells \in [Cells -> Values]
         /\ x = [lu |-> x.lu, id |-> x.id, span |-> x.span, flags |-> x.flags,
                 size |-> x.size, cells |-> x.cells]
  BY DEF PageType

LEMMA PageTyped ==
  ASSUME NEW lu \in Ids \cup {Blank, Deleted, Garbled}, NEW id \in Ids \cup {Blank, Garbled},
         NEW span \in Values, NEW flags \in SUBSET Flags, NEW size \in Values,
         NEW cells \in [Cells -> Values]
  PROVE  [lu |-> lu, id |-> id, span |-> span, flags |-> flags, size |-> size,
          cells |-> cells] \in PageType
  BY DEF PageType

LEMMA BlankPageType == NoCells \in [Cells -> Values] /\ BlankPage \in PageType
  <1>1. NoCells \in [Cells -> Values]
    BY DEF NoCells, Values
  <1> QED BY <1>1, PageTyped DEF BlankPage, Values

LEMMA MeetPageSame ==
  ASSUME NEW x \in PageType
  PROVE  MeetPage(x, x) = x
  <1>1. [c \in Cells |-> Meet(x.cells[c], x.cells[c])] = x.cells
    BY MeetSame, PageParts
  <1>2. x.flags \cup x.flags = x.flags
    OBVIOUS
  <1>3. (IF Deleted \in {x.lu, x.lu} THEN Deleted ELSE Meet(x.lu, x.lu)) = x.lu
    BY MeetSame
  <1> QED BY <1>1, <1>2, <1>3, MeetSame, PageParts, ZenonT(60) DEF MeetPage

LEMMA JoinedPageOne ==
  ASSUME NEW x \in PageType
  PROVE  JoinedPage({x}) = x
  <1>1. {x} = {x, x}
    OBVIOUS
  <1>2. JoinedPage({x, x}) = MeetPage(x, x)
    BY JoinedPageTwo
  <1> QED BY <1>1, <1>2, MeetPageSame

LEMMA JoinedPageTwice ==
  ASSUME NEW A, NEW C
  PROVE  JoinedPage(A \cup C) = JoinedPage({JoinedPage(A)} \cup C)
  <1> DEFINE J == JoinedPage(A)
  <1>1. /\ J.lu = JoinedLu({x.lu : x \in A}) /\ J.id = Joined({x.id : x \in A})
        /\ J.span = Joined({x.span : x \in A}) /\ J.flags = UNION {x.flags : x \in A}
        /\ J.size = Joined({x.size : x \in A})
        /\ \A c \in Cells : J.cells[c] = Joined({x.cells[c] : x \in A})
    BY DEF JoinedPage
  <1> HIDE DEF J
  <1>2. /\ {x.lu : x \in A \cup C} = {x.lu : x \in A} \cup {x.lu : x \in C}
        /\ {x.lu : x \in {J} \cup C} = {J.lu} \cup {x.lu : x \in C}
    OBVIOUS
  <1>3. /\ {x.id : x \in A \cup C} = {x.id : x \in A} \cup {x.id : x \in C}
        /\ {x.id : x \in {J} \cup C} = {J.id} \cup {x.id : x \in C}
    OBVIOUS
  <1>4. /\ {x.span : x \in A \cup C} = {x.span : x \in A} \cup {x.span : x \in C}
        /\ {x.span : x \in {J} \cup C} = {J.span} \cup {x.span : x \in C}
    OBVIOUS
  <1>5. /\ {x.size : x \in A \cup C} = {x.size : x \in A} \cup {x.size : x \in C}
        /\ {x.size : x \in {J} \cup C} = {J.size} \cup {x.size : x \in C}
    OBVIOUS
  <1>6. UNION {x.flags : x \in A \cup C} = UNION {x.flags : x \in {J} \cup C}
    <2>1. UNION {x.flags : x \in A \cup C}
            = (UNION {x.flags : x \in A}) \cup (UNION {x.flags : x \in C})
      OBVIOUS
    <2>2. UNION {x.flags : x \in {J} \cup C} = J.flags \cup (UNION {x.flags : x \in C})
      OBVIOUS
    <2> QED BY <1>1, <2>1, <2>2
  <1>7. \A c \in Cells : Joined({x.cells[c] : x \in A \cup C})
                           = Joined({x.cells[c] : x \in {J} \cup C})
    <2> TAKE c \in Cells
    <2> DEFINE S == {x.cells[c] : x \in A \cup C}
               T == {x.cells[c] : x \in {J} \cup C}
               P == {x.cells[c] : x \in A}
               Q == {x.cells[c] : x \in C}
    <2>1. S = P \cup Q /\ T = {J.cells[c]} \cup Q /\ J.cells[c] = Joined(P)
      BY <1>1, <1>1
    <2> HIDE DEF S, T, P, Q
    <2>2. Joined(S) = Joined(T)
      BY <2>1, JoinedTwice
    <2> QED BY <2>2 DEF S, T
  <1>8. JoinedLu({x.lu : x \in A \cup C}) = JoinedLu({x.lu : x \in {J} \cup C})
    <2> DEFINE S == {x.lu : x \in A \cup C}
               T == {x.lu : x \in {J} \cup C}
               P == {x.lu : x \in A}
               Q == {x.lu : x \in C}
    <2>1. S = P \cup Q /\ T = {J.lu} \cup Q /\ J.lu = JoinedLu(P)
      BY <1>1, <1>2
    <2> HIDE DEF S, T, P, Q
    <2>2. JoinedLu(S) = JoinedLu(T)
      BY <2>1, JoinedLuTwice
    <2> QED BY <2>2 DEF S, T
  <1>9. Joined({x.id : x \in A \cup C}) = Joined({x.id : x \in {J} \cup C})
    <2> DEFINE S == {x.id : x \in A \cup C}
               T == {x.id : x \in {J} \cup C}
               P == {x.id : x \in A}
               Q == {x.id : x \in C}
    <2>1. S = P \cup Q /\ T = {J.id} \cup Q /\ J.id = Joined(P)
      BY <1>1, <1>3
    <2> HIDE DEF S, T, P, Q
    <2>2. Joined(S) = Joined(T)
      BY <2>1, JoinedTwice
    <2> QED BY <2>2 DEF S, T
  <1>10. Joined({x.span : x \in A \cup C}) = Joined({x.span : x \in {J} \cup C})
    <2> DEFINE S == {x.span : x \in A \cup C}
               T == {x.span : x \in {J} \cup C}
               P == {x.span : x \in A}
               Q == {x.span : x \in C}
    <2>1. S = P \cup Q /\ T = {J.span} \cup Q /\ J.span = Joined(P)
      BY <1>1, <1>4
    <2> HIDE DEF S, T, P, Q
    <2>2. Joined(S) = Joined(T)
      BY <2>1, JoinedTwice
    <2> QED BY <2>2 DEF S, T
  <1>11. Joined({x.size : x \in A \cup C}) = Joined({x.size : x \in {J} \cup C})
    <2> DEFINE S == {x.size : x \in A \cup C}
               T == {x.size : x \in {J} \cup C}
               P == {x.size : x \in A}
               Q == {x.size : x \in C}
    <2>1. S = P \cup Q /\ T = {J.size} \cup Q /\ J.size = Joined(P)
      BY <1>1, <1>5
    <2> HIDE DEF S, T, P, Q
    <2>2. Joined(S) = Joined(T)
      BY <2>1, JoinedTwice
    <2> QED BY <2>2 DEF S, T
  <1>12. [c \in Cells |-> Joined({x.cells[c] : x \in A \cup C})]
           = [c \in Cells |-> Joined({x.cells[c] : x \in {J} \cup C})]
    BY <1>7
  <1>13. JoinedPage(A \cup C) = JoinedPage({J} \cup C)
    BY <1>6, <1>8, <1>9, <1>10, <1>11, <1>12, ZenonT(60) DEF JoinedPage
  <1> QED BY <1>13 DEF J

-----------------------------------------------------------------------------
(* The flash after some writes *)

Flashes == [Pages -> PageType]
WriteType == [page : Pages, image : PageType]

LEMMA AfterNone ==
  ASSUME NEW fl \in Flashes
  PROVE  After(fl, {}) = fl
  <1>1. \A p \in Pages : JoinedPage(Images(fl, {}, p)) = fl[p]
    <2> TAKE p \in Pages
    <2>1. Images(fl, {}, p) = {fl[p]}
      BY DEF Images, ImagesOf
    <2>2. fl[p] \in PageType
      BY DEF Flashes
    <2> QED BY <2>1, <2>2, JoinedPageOne
  <1> QED BY <1>1 DEF After, Flashes

LEMMA AfterOne ==
  ASSUME NEW fl \in Flashes, NEW p \in Pages, NEW im
  PROVE  After(fl, {[page |-> p, image |-> im]}) = [fl EXCEPT ![p] = MeetPage(@, im)]
  <1> DEFINE ws == {[page |-> p, image |-> im]}
  <1>1. \A q \in Pages : JoinedPage(Images(fl, ws, q))
                           = IF q = p THEN MeetPage(fl[p], im) ELSE fl[q]
    <2> TAKE q \in Pages
    <2>1. CASE q = p
      <3>1. ImagesOf(ws, q) = {im}
        <4>1. {v \in ws : v.page = q} = ws
          BY <2>1
        <4>2. {w.image : w \in ws} = {im}
          OBVIOUS
        <4> QED BY <4>1, <4>2 DEF ImagesOf
      <3>2. Images(fl, ws, q) = {fl[p], im}
        BY <2>1, <3>1 DEF Images
      <3> QED BY <2>1, <3>2, JoinedPageTwo
    <2>2. CASE q # p
      <3>1. ImagesOf(ws, q) = {}
        BY <2>2 DEF ImagesOf
      <3>2. Images(fl, ws, q) = {fl[q]}
        BY <3>1 DEF Images
      <3>3. fl[q] \in PageType
        BY DEF Flashes
      <3> QED BY <2>2, <3>2, <3>3, JoinedPageOne
    <2> QED BY <2>1, <2>2
  <1>2. After(fl, ws) = [q \in Pages |-> JoinedPage(Images(fl, ws, q))]
    BY DEF After
  <1> HIDE DEF ws
  <1>3. After(fl, ws) = [fl EXCEPT ![p] = MeetPage(@, im)]
    BY <1>1, <1>2 DEF Flashes
  <1> QED BY <1>3 DEF ws

LEMMA AfterTwice ==
  ASSUME NEW fl, NEW A, NEW C
  PROVE  After(fl, A \cup C) = After(After(fl, A), C)
  <1>1. \A p \in Pages : JoinedPage(Images(fl, A \cup C, p))
                           = JoinedPage(Images(After(fl, A), C, p))
    <2> TAKE p \in Pages
    <2>1. ImagesOf(A \cup C, p) = ImagesOf(A, p) \cup ImagesOf(C, p)
      BY DEF ImagesOf
    <2>2. Images(fl, A \cup C, p) = Images(fl, A, p) \cup ImagesOf(C, p)
      BY <2>1 DEF Images
    <2>3. After(fl, A)[p] = JoinedPage(Images(fl, A, p))
      BY DEF After
    <2>4. Images(After(fl, A), C, p) = {JoinedPage(Images(fl, A, p))} \cup ImagesOf(C, p)
      BY <2>3 DEF Images
    <2> QED BY <2>2, <2>4, JoinedPageTwice, ZenonT(60)
  <1>2. /\ After(fl, A \cup C) = [p \in Pages |-> JoinedPage(Images(fl, A \cup C, p))]
        /\ After(After(fl, A), C) = [p \in Pages |-> JoinedPage(Images(After(fl, A), C, p))]
    BY DEF After
  <1> QED BY <1>1, <1>2

LEMMA WritesConcat ==
  ASSUME NEW T, NEW s \in Seq(T), NEW t \in Seq(T)
  PROVE  /\ s \o t \in Seq(T)
         /\ Writes(s \o t) = Writes(s) \cup Writes(t)
  <1>1. s \o t \in Seq(T) /\ Len(s \o t) = Len(s) + Len(t)
    OBVIOUS
  <1>2. \A i \in 1 .. Len(s) : (s \o t)[i] = s[i]
    OBVIOUS
  <1>3. \A i \in 1 .. Len(t) : (s \o t)[Len(s) + i] = t[i]
    OBVIOUS
  <1>4. Writes(s) = {s[i] : i \in 1 .. Len(s)} /\ Writes(t) = {t[i] : i \in 1 .. Len(t)}
        /\ Writes(s \o t) = {(s \o t)[i] : i \in 1 .. (Len(s) + Len(t))}
    BY <1>1 DEF Writes
  <1>5. \A x \in Writes(s \o t) : x \in Writes(s) \cup Writes(t)
    <2> TAKE x \in Writes(s \o t)
    <2>1. PICK i \in 1 .. (Len(s) + Len(t)) : x = (s \o t)[i]
      BY <1>4
    <2>2. CASE i <= Len(s)
      BY <1>2, <1>4, <2>1, <2>2
    <2>3. CASE i > Len(s)
      <3>1. i - Len(s) \in 1 .. Len(t) /\ i = Len(s) + (i - Len(s))
        BY <2>1, <2>3
      <3>2. x = t[i - Len(s)]
        BY <1>3, <2>1, <3>1
      <3> QED BY <1>4, <3>1, <3>2
    <2> QED BY <2>1, <2>2, <2>3
  <1>6. \A x \in Writes(s) : x \in Writes(s \o t)
    <2> TAKE x \in Writes(s)
    <2>1. PICK i \in 1 .. Len(s) : x = s[i]
      BY <1>4
    <2>2. i \in 1 .. (Len(s) + Len(t)) /\ x = (s \o t)[i]
      BY <1>2, <2>1
    <2> QED BY <1>4, <2>2
  <1>7. \A x \in Writes(t) : x \in Writes(s \o t)
    <2> TAKE x \in Writes(t)
    <2>1. PICK i \in 1 .. Len(t) : x = t[i]
      BY <1>4
    <2>2. Len(s) + i \in 1 .. (Len(s) + Len(t)) /\ x = (s \o t)[Len(s) + i]
      BY <1>3, <2>1
    <2> QED BY <1>4, <2>2
  <1> QED BY <1>1, <1>5, <1>6, <1>7

LEMMA WritesOne ==
  ASSUME NEW x
  PROVE  Writes(<<x>>) = {x}
  <1>1. DOMAIN <<x>> = {1} /\ <<x>>[1] = x
    OBVIOUS
  <1> QED BY <1>1 DEF Writes

LEMMA WritesNone == Writes(<<>>) = {}
  BY DEF Writes

-----------------------------------------------------------------------------
(* What one write does to a page *)

LEMMA Blanks ==
  /\ \A x \in PageType : [c \in Cells |-> Meet(x.cells[c], NoCells[c])] = x.cells
  /\ \A x \in PageType : [c \in Cells |-> Meet(NoCells[c], x.cells[c])] = x.cells
  /\ BlankPage.lu = Blank /\ BlankPage.id = Blank /\ BlankPage.span = Blank
  /\ BlankPage.flags = {} /\ BlankPage.size = Blank /\ BlankPage.cells = NoCells
  <1>1. \A c \in Cells : NoCells[c] = Blank
    BY DEF NoCells
  <1>2. \A x \in PageType : [c \in Cells |-> Meet(x.cells[c], NoCells[c])] = x.cells
    BY <1>1, MeetSame, PageParts
  <1>3. \A x \in PageType : [c \in Cells |-> Meet(NoCells[c], x.cells[c])] = x.cells
    BY <1>1, MeetSame, PageParts
  <1> QED BY <1>2, <1>3 DEF BlankPage

LEMMA MeetType ==
  ASSUME NEW a \in PageType, NEW b \in PageType
  PROVE  MeetPage(a, b) \in PageType
  <1> DEFINE lu == IF Deleted \in {a.lu, b.lu} THEN Deleted ELSE Meet(a.lu, b.lu)
             cells == [c \in Cells |-> Meet(a.cells[c], b.cells[c])]
  <1>1. lu \in Ids \cup {Blank, Deleted, Garbled}
    BY PageParts DEF Meet
  <1>2. Meet(a.id, b.id) \in Ids \cup {Blank, Garbled}
    BY PageParts DEF Meet
  <1>3. Meet(a.span, b.span) \in Values /\ Meet(a.size, b.size) \in Values
    BY PageParts DEF Meet, Values
  <1>4. cells \in [Cells -> Values]
    <2>1. \A c \in Cells : a.cells[c] \in Values /\ b.cells[c] \in Values
      BY PageParts
    <2>2. \A c \in Cells : Meet(a.cells[c], b.cells[c]) \in Values
      BY <2>1 DEF Meet, Values
    <2> QED BY <2>2
  <1>5. a.flags \cup b.flags \in SUBSET Flags
    BY PageParts
  <1>6. MeetPage(a, b) = [lu |-> lu, id |-> Meet(a.id, b.id), span |-> Meet(a.span, b.span),
                          flags |-> a.flags \cup b.flags, size |-> Meet(a.size, b.size),
                          cells |-> cells]
    BY DEF MeetPage
  <1> HIDE DEF lu, cells
  <1> QED BY <1>1, <1>2, <1>3, <1>4, <1>5, <1>6, PageTyped

\* The entry of the lookup.
LEMMA LuWrite ==
  ASSUME NEW x \in PageType, NEW id \in Ids \cup {Deleted}, id = Deleted \/ x.lu = Blank
  PROVE  /\ [BlankPage EXCEPT !.lu = id] \in PageType
         /\ [BlankPage EXCEPT !.lu = id].lu = id
         /\ MeetPage(x, [BlankPage EXCEPT !.lu = id]) = [x EXCEPT !.lu = id]
  <1> DEFINE im == [BlankPage EXCEPT !.lu = id]
  <1>1. im \in PageType /\ im.lu = id
    BY BlankPageType DEF PageType
  <1>2. /\ im.id = Blank /\ im.span = Blank /\ im.flags = {} /\ im.size = Blank
        /\ im.cells = NoCells
    BY Blanks, BlankPageType DEF PageType
  <1> HIDE DEF im
  <1>3. (IF Deleted \in {x.lu, im.lu} THEN Deleted ELSE Meet(x.lu, im.lu)) = id
    <2>1. id # Deleted => x.lu = Blank /\ Blank # Deleted
      BY ValuesAssumption
    <2> QED BY <1>1, <2>1, MeetSame
  <1>4. MeetPage(x, im) = [lu |-> id, id |-> x.id, span |-> x.span, flags |-> x.flags,
                           size |-> x.size, cells |-> x.cells]
    BY <1>1, <1>2, <1>3, Blanks, MeetSame, ZenonT(60) DEF MeetPage
  <1>5. MeetPage(x, im) = [x EXCEPT !.lu = id]
    BY <1>4 DEF PageType
  <1> QED BY <1>1, <1>5 DEF im

LEMMA FlagsWrite ==
  ASSUME NEW x \in PageType, NEW flags \in SUBSET Flags
  PROVE  /\ [BlankPage EXCEPT !.flags = flags] \in PageType
         /\ [BlankPage EXCEPT !.flags = flags].lu = Blank
         /\ MeetPage(x, [BlankPage EXCEPT !.flags = flags]) = [x EXCEPT !.flags = @ \cup flags]
  <1> DEFINE im == [BlankPage EXCEPT !.flags = flags]
  <1>1. im \in PageType
    BY BlankPageType DEF PageType
  <1>2. /\ im.lu = Blank /\ im.id = Blank /\ im.span = Blank /\ im.flags = flags
        /\ im.size = Blank /\ im.cells = NoCells
    BY Blanks, BlankPageType DEF PageType
  <1> HIDE DEF im
  <1>3. (IF Deleted \in {x.lu, im.lu} THEN Deleted ELSE Meet(x.lu, im.lu)) = x.lu
    BY <1>2, MeetSame, ValuesAssumption
  <1>4. MeetPage(x, im) = [lu |-> x.lu, id |-> x.id, span |-> x.span,
                           flags |-> x.flags \cup flags, size |-> x.size, cells |-> x.cells]
    BY <1>1, <1>2, <1>3, Blanks, MeetSame, ZenonT(60) DEF MeetPage
  <1>5. MeetPage(x, im) = [x EXCEPT !.flags = @ \cup flags]
    BY <1>4 DEF PageType
  <1> QED BY <1>1, <1>2, <1>5 DEF im

LEMMA CellsWrite ==
  ASSUME NEW x \in PageType, NEW cells \in [Cells -> Values]
  PROVE  /\ [BlankPage EXCEPT !.cells = cells] \in PageType
         /\ [BlankPage EXCEPT !.cells = cells].lu = Blank
         /\ MeetPage(x, [BlankPage EXCEPT !.cells = cells])
              = [x EXCEPT !.cells = [c \in Cells |-> Meet(x.cells[c], cells[c])]]
  <1> DEFINE im == [BlankPage EXCEPT !.cells = cells]
             both == [c \in Cells |-> Meet(x.cells[c], cells[c])]
  <1>1. im \in PageType
    BY BlankPageType DEF PageType
  <1>2. /\ im.lu = Blank /\ im.id = Blank /\ im.span = Blank /\ im.flags = {}
        /\ im.size = Blank /\ im.cells = cells
    BY Blanks, BlankPageType DEF PageType
  <1> HIDE DEF im
  <1>3. (IF Deleted \in {x.lu, im.lu} THEN Deleted ELSE Meet(x.lu, im.lu)) = x.lu
    BY <1>2, MeetSame, ValuesAssumption
  <1>4. [c \in Cells |-> Meet(x.cells[c], im.cells[c])] = both
    BY <1>2
  <1> HIDE DEF both
  <1>5. x.flags \cup {} = x.flags
    OBVIOUS
  <1>6. MeetPage(x, im) = [lu |-> x.lu, id |-> x.id, span |-> x.span, flags |-> x.flags,
                           size |-> x.size, cells |-> both]
    BY <1>2, <1>3, <1>4, <1>5, MeetSame, ZenonT(60) DEF MeetPage
  <1>7. MeetPage(x, im) = [x EXCEPT !.cells = both]
    BY <1>6 DEF PageType
  <1> QED BY <1>1, <1>2, <1>7 DEF im, both

LEMMA HeaderMeet ==
  ASSUME NEW x \in PageType, NEW id \in Ids, NEW span \in Nat, NEW flags \in SUBSET Flags,
         x.id = Blank, x.span = Blank, NEW im \in PageType, im.lu = Blank, im.id = id,
         im.span = span, im.flags = flags, im.size = Blank, im.cells = NoCells
  PROVE  MeetPage(x, im) = [lu |-> x.lu, id |-> id, span |-> span,
                            flags |-> x.flags \cup flags, size |-> x.size, cells |-> x.cells]
  <1>1. (IF Deleted \in {x.lu, im.lu} THEN Deleted ELSE Meet(x.lu, im.lu)) = x.lu
    BY MeetSame, ValuesAssumption
  <1> QED BY <1>1, Blanks, MeetSame, ZenonT(60) DEF MeetPage

\* A whole page that was blank.
LEMMA PageWrite ==
  ASSUME NEW x \in PageType
  PROVE  /\ [x EXCEPT !.lu = Blank] \in PageType /\ [x EXCEPT !.lu = Blank].lu = Blank
         /\ MeetPage(BlankPage, [x EXCEPT !.lu = Blank]) = [x EXCEPT !.lu = Blank]
  <1> DEFINE im == [x EXCEPT !.lu = Blank]
  <1>1. im \in PageType /\ im.lu = Blank
    BY DEF PageType
  <1> HIDE DEF im
  <1>2. (IF Deleted \in {BlankPage.lu, im.lu} THEN Deleted ELSE Meet(BlankPage.lu, im.lu)) = Blank
    BY <1>1, Blanks, MeetSame, ValuesAssumption
  <1>3. BlankPage.flags \cup im.flags = im.flags
    BY Blanks
  <1>4. MeetPage(BlankPage, im)
          = [lu |-> Blank, id |-> im.id, span |-> im.span, flags |-> im.flags,
             size |-> im.size, cells |-> im.cells]
    BY <1>1, <1>2, <1>3, Blanks, MeetSame, ZenonT(60) DEF MeetPage
  <1>5. MeetPage(BlankPage, im) = im
    BY <1>1, <1>4 DEF PageType
  <1> QED BY <1>1, <1>5 DEF im

\* A page written again with cells that were blank, or the same.
Rewritable(x, size, cells) ==
    /\ x.size \in {Blank, size} /\ x.lu # Deleted
    /\ \A c \in Cells : x.cells[c] \in {Blank, cells[c]}
Resized(x, size, cells) == [x EXCEPT !.size = size, !.cells = cells]
Unlisted(x) == [x EXCEPT !.lu = Blank]
LEMMA PageRewrite ==
  ASSUME NEW x \in PageType, NEW size \in Values, NEW cells \in [Cells -> Values],
         Rewritable(x, size, cells)
  PROVE  /\ Unlisted(Resized(x, size, cells)) \in PageType
         /\ Unlisted(Resized(x, size, cells)).lu = Blank
         /\ MeetPage(x, Unlisted(Resized(x, size, cells))) = Resized(x, size, cells)
  <1> DEFINE y == Resized(x, size, cells)
             im == Unlisted(y)
  <1>1. /\ y \in PageType /\ y.lu = x.lu /\ y.id = x.id /\ y.span = x.span
        /\ y.flags = x.flags /\ y.size = size /\ y.cells = cells
    BY DEF PageType, Resized
  <1> HIDE DEF y
  <1>2. /\ im \in PageType /\ im.lu = Blank /\ im.id = x.id /\ im.span = x.span
        /\ im.flags = x.flags /\ im.size = size /\ im.cells = cells
    BY <1>1 DEF PageType, Unlisted
  <1> HIDE DEF im
  <1>3. (IF Deleted \in {x.lu, im.lu} THEN Deleted ELSE Meet(x.lu, im.lu)) = x.lu
    BY <1>2, MeetSame, ValuesAssumption DEF Rewritable
  <1>4. [c \in Cells |-> Meet(x.cells[c], im.cells[c])] = cells
    <2>1. \A c \in Cells : Meet(x.cells[c], cells[c]) = cells[c]
      BY MeetSame DEF Rewritable
    <2> QED BY <1>2, <2>1
  <1>5. x.flags \cup im.flags = x.flags /\ Meet(x.size, im.size) = size
    BY <1>2, MeetSame DEF Rewritable
  <1>6. MeetPage(x, im) = [lu |-> x.lu, id |-> x.id, span |-> x.span, flags |-> x.flags,
                           size |-> size, cells |-> cells]
    BY <1>2, <1>3, <1>4, <1>5, MeetSame, ZenonT(60) DEF MeetPage
  <1>7. y = [lu |-> y.lu, id |-> y.id, span |-> y.span, flags |-> y.flags,
             size |-> y.size, cells |-> y.cells]
    BY <1>1, PageParts
  <1>8. im \in PageType /\ im.lu = Blank /\ MeetPage(x, im) = y
    BY <1>1, <1>2, <1>6, <1>7
  <1> QED BY <1>8 DEF im, y

-----------------------------------------------------------------------------
(* Sequences of writes *)

Put(fl, q, x) == [fl EXCEPT ![q] = x]

\* Of the writes s, only those to page p enter id in the lookup; the others enter
\* nothing, or delete an entry.
Takes(s, p, id) ==
    \A w \in Writes(s) : w.image.lu \in {Blank, Deleted} \/ (w.page = p /\ w.image.lu = id)
Leads(fl, s, gl, p, id) ==
    /\ fl \in Flashes /\ gl \in Flashes /\ s \in Seq(WriteType)
    /\ After(fl, Writes(s)) = gl /\ Takes(s, p, id)

LEMMA LeadsNone ==
  ASSUME NEW fl \in Flashes, NEW p, NEW id
  PROVE  Leads(fl, <<>>, fl, p, id)
  BY AfterNone, WritesNone DEF Leads, Takes

LEMMA LeadsThen ==
  ASSUME NEW fl, NEW gl, NEW hl, NEW s, NEW t, NEW p, NEW id,
         Leads(fl, s, gl, p, id), Leads(gl, t, hl, p, id)
  PROVE  Leads(fl, s \o t, hl, p, id)
  <1>1. s \in Seq(WriteType) /\ t \in Seq(WriteType)
    BY DEF Leads
  <1>2. s \o t \in Seq(WriteType) /\ Writes(s \o t) = Writes(s) \cup Writes(t)
    BY <1>1, WritesConcat
  <1>3. After(fl, Writes(s) \cup Writes(t)) = hl
    BY AfterTwice DEF Leads
  <1>4. Takes(s \o t, p, id)
    BY <1>2 DEF Leads, Takes
  <1> QED BY <1>2, <1>3, <1>4 DEF Leads

LEMMA PutType ==
  ASSUME NEW fl \in Flashes, NEW q \in Pages, NEW x \in PageType
  PROVE  /\ Put(fl, q, x) \in Flashes /\ Put(fl, q, x)[q] = x
         /\ \A r \in Pages : r # q => Put(fl, q, x)[r] = fl[r]
         /\ Put(fl, q, fl[q]) = fl
  BY DEF Put, Flashes

LEMMA LeadsOne ==
  ASSUME NEW fl \in Flashes, NEW q \in Pages, NEW x \in PageType, NEW im \in PageType,
         NEW y, NEW p, NEW id, y = MeetPage(x, im),
         im.lu \in {Blank, Deleted} \/ (q = p /\ im.lu = id)
  PROVE  Leads(Put(fl, q, x), W(q, im), Put(fl, q, y), p, id)
  <1> DEFINE w == [page |-> q, image |-> im]
             gl == Put(fl, q, x)
  <1>1. W(q, im) = <<w>> /\ w \in WriteType /\ w.page = q /\ w.image = im
    BY DEF W, WriteType
  <1>2. y \in PageType
    BY MeetType
  <1>3. gl \in Flashes /\ gl[q] = x /\ Put(fl, q, y) \in Flashes
    BY <1>2, PutType
  <1>4. [gl EXCEPT ![q] = MeetPage(@, im)] = Put(fl, q, y)
    <2>1. [gl EXCEPT ![q] = y] = Put(fl, q, y)
      BY DEF Put, Flashes
    <2> HIDE DEF gl
    <2> QED BY <1>3, <2>1
  <1> HIDE DEF gl
  <1>5. After(gl, {w}) = Put(fl, q, y)
    BY <1>3, <1>4, AfterOne
  <1> HIDE DEF w
  <1>6. Writes(<<w>>) = {w} /\ <<w>> \in Seq(WriteType)
    BY <1>1, WritesOne
  <1>7. Takes(<<w>>, p, id)
    BY <1>1, <1>6 DEF Takes
  <1> QED BY <1>1, <1>3, <1>5, <1>6, <1>7 DEF Leads, gl

\* spiffs_page_delete.
Dead(x) == [x EXCEPT !.lu = Deleted, !.flags = @ \cup {"dele", "used"}]

LEMMA DeadParts ==
  ASSUME NEW x \in PageType
  PROVE  /\ Dead(x) \in PageType /\ Dead(x).lu = Deleted /\ Dead(x).id = x.id
         /\ Dead(x).span = x.span /\ Dead(x).size = x.size /\ Dead(x).cells = x.cells
  BY DEF Dead, PageType, Flags

LEMMA LeadsDelete ==
  ASSUME NEW fl \in Flashes, NEW q \in Pages, NEW p, NEW id
  PROVE  Leads(fl, Delete(q), Put(fl, q, Dead(fl[q])), p, id)
  <1> DEFINE x == fl[q]
             y == [x EXCEPT !.lu = Deleted]
             F == {"dele", "used"}
             z == [y EXCEPT !.flags = @ \cup F]
  <1>1. x \in PageType /\ F \in SUBSET Flags
    BY DEF Flashes, Flags
  <1>2. y \in PageType
    BY <1>1 DEF PageType
  <1>3. Leads(Put(fl, q, x), LuW(q, Deleted), Put(fl, q, y), p, id)
    <2> HIDE DEF x
    <2>1. /\ [BlankPage EXCEPT !.lu = Deleted] \in PageType
          /\ [BlankPage EXCEPT !.lu = Deleted].lu = Deleted
          /\ y = MeetPage(x, [BlankPage EXCEPT !.lu = Deleted])
      BY <1>1, LuWrite
    <2> HIDE DEF y
    <2> QED BY <1>1, <2>1, LeadsOne DEF LuW
  <1>4. Leads(Put(fl, q, y), FlagsW(q, F), Put(fl, q, z), p, id)
    <2> HIDE DEF x, y, F
    <2>1. /\ [BlankPage EXCEPT !.flags = F] \in PageType
          /\ [BlankPage EXCEPT !.flags = F].lu = Blank
          /\ z = MeetPage(y, [BlankPage EXCEPT !.flags = F])
      BY <1>1, <1>2, FlagsWrite
    <2> HIDE DEF z
    <2> QED BY <1>2, <2>1, LeadsOne DEF FlagsW
  <1>5. z = Dead(x)
    BY DEF Dead
  <1>6. Put(fl, q, x) = fl
    BY <1>1, PutType
  <1>7. Delete(q) = LuW(q, Deleted) \o FlagsW(q, F)
    BY DEF Delete
  <1> HIDE DEF x, y, z, F
  <1>8. Leads(fl, Delete(q), Put(fl, q, Dead(x)), p, id)
    BY <1>3, <1>4, <1>5, <1>6, <1>7, LeadsThen
  <1> QED BY <1>8 DEF x

\* What spiffs_page_allocate_data leaves behind.
NewPage(id, span, flags, cells) ==
    [lu |-> id, id |-> id, span |-> span, flags |-> flags \cup {"used"}, size |-> Blank,
     cells |-> cells]

LEMMA NewPageParts ==
  ASSUME NEW id \in Ids, NEW span \in Nat, NEW flags \in SUBSET Flags,
         NEW cells \in [Cells -> Values]
  PROVE  /\ NewPage(id, span, flags, cells) \in PageType
         /\ NewPage(id, span, flags, cells).lu = id /\ NewPage(id, span, flags, cells).id = id
         /\ NewPage(id, span, flags, cells).span = span
         /\ NewPage(id, span, flags, cells).flags = flags \cup {"used"}
         /\ NewPage(id, span, flags, cells).size = Blank
         /\ NewPage(id, span, flags, cells).cells = cells
  BY DEF NewPage, PageType, Flags, Values

\* The entry and the header of a new page.
LEMMA LeadsHeader ==
  ASSUME NEW fl \in Flashes, NEW p \in Pages, fl[p] = BlankPage, NEW id \in Ids,
         NEW span \in Nat, NEW flags \in SUBSET Flags
  PROVE  Leads(fl, LuW(p, id) \o HeaderW(p, id, span, flags \cup {"used"}),
               Put(fl, p, NewPage(id, span, flags, NoCells)), p, id)
  <1> DEFINE x == BlankPage
             y == [x EXCEPT !.lu = id]
             F == flags \cup {"used"}
             im == [BlankPage EXCEPT !.id = id, !.span = span, !.flags = F]
             z == [lu |-> y.lu, id |-> id, span |-> span, flags |-> y.flags \cup F,
                   size |-> y.size, cells |-> y.cells]
  <1>1. x \in PageType /\ F \in SUBSET Flags /\ x.lu = Blank
    BY BlankPageType, Blanks DEF Flags
  <1>2. y \in PageType /\ y.id = Blank /\ y.span = Blank
    BY <1>1, Blanks DEF PageType
  <1>3. Leads(Put(fl, p, x), LuW(p, id), Put(fl, p, y), p, id)
    <2>1. /\ [BlankPage EXCEPT !.lu = id] \in PageType
          /\ [BlankPage EXCEPT !.lu = id].lu = id
          /\ y = MeetPage(x, [BlankPage EXCEPT !.lu = id])
      BY <1>1, LuWrite
    <2> HIDE DEF y, x
    <2> QED BY <1>1, <2>1, LeadsOne DEF LuW
  <1>4. Leads(Put(fl, p, y), HeaderW(p, id, span, F), Put(fl, p, z), p, id)
    <2> HIDE DEF x, y, F
    <2>1. im \in PageType /\ im.lu = Blank /\ z = MeetPage(y, im)
      <3>1. /\ im \in PageType /\ im.lu = Blank /\ im.id = id /\ im.span = span
            /\ im.flags = F /\ im.size = Blank /\ im.cells = NoCells
        <4>1. im \in PageType
          BY <1>1, BlankPageType DEF PageType, Values
        <4> QED BY <4>1, Blanks, BlankPageType DEF PageType
      <3> HIDE DEF im
      <3> QED BY <1>1, <1>2, <3>1, HeaderMeet
    <2>2. HeaderW(p, id, span, F) = W(p, im)
      BY DEF HeaderW
    <2> HIDE DEF z, im
    <2> QED BY <1>2, <2>1, <2>2, LeadsOne
  <1>5. z = NewPage(id, span, flags, NoCells)
    <2>1. /\ y.lu = id /\ y.flags = {} /\ y.size = Blank /\ y.cells = NoCells
      BY <1>1, Blanks DEF PageType
    <2> HIDE DEF y
    <2>2. {} \cup F = F
      OBVIOUS
    <2> QED BY <2>1, <2>2, ZenonT(60) DEF NewPage
  <1>6. Put(fl, p, x) = fl
    BY PutType, BlankPageType
  <1> HIDE DEF x, y, z
  <1>7. Leads(fl, LuW(p, id) \o HeaderW(p, id, span, F), Put(fl, p, z), p, id)
    BY <1>3, <1>4, <1>6, LeadsThen
  <1> QED BY <1>5, <1>7

LEMMA NoCellsMeet ==
  ASSUME NEW cells \in [Cells -> Values]
  PROVE  [c \in Cells |-> Meet(NoCells[c], cells[c])] = cells
  <1>1. \A c \in Cells : Meet(NoCells[c], cells[c]) = cells[c]
    BY MeetSame DEF NoCells
  <1> QED BY <1>1

\* The first cells of a page.
LEMMA LeadsCells ==
  ASSUME NEW fl \in Flashes, NEW q \in Pages, NEW x \in PageType,
         NEW cells \in [Cells -> Values], NEW y \in [Cells -> Values], NEW p, NEW id,
         y = [c \in Cells |-> Meet(x.cells[c], cells[c])]
  PROVE  Leads(Put(fl, q, x), CellsW(q, cells), Put(fl, q, [x EXCEPT !.cells = y]), p, id)
  <1> DEFINE im == [BlankPage EXCEPT !.cells = cells]
             z == [x EXCEPT !.cells = y]
  <1>1. im \in PageType /\ im.lu = Blank /\ z = MeetPage(x, im)
    BY CellsWrite, ZenonT(60)
  <1>2. CellsW(q, cells) = W(q, im)
    BY DEF CellsW
  <1> HIDE DEF im, z
  <1>3. Leads(Put(fl, q, x), W(q, im), Put(fl, q, z), p, id)
    BY <1>1, LeadsOne
  <1> QED BY <1>2, <1>3 DEF z

\* A flag more.
LEMMA LeadsFlags ==
  ASSUME NEW fl \in Flashes, NEW q \in Pages, NEW x \in PageType,
         NEW flags \in SUBSET Flags, NEW p, NEW id
  PROVE  Leads(Put(fl, q, x), FlagsW(q, flags), Put(fl, q, [x EXCEPT !.flags = @ \cup flags]),
               p, id)
  <1> DEFINE im == [BlankPage EXCEPT !.flags = flags]
             z == [x EXCEPT !.flags = @ \cup flags]
  <1>1. im \in PageType /\ im.lu = Blank /\ z = MeetPage(x, im)
    BY FlagsWrite, ZenonT(60)
  <1>2. FlagsW(q, flags) = W(q, im)
    BY DEF FlagsW
  <1> HIDE DEF im, z
  <1>3. Leads(Put(fl, q, x), W(q, im), Put(fl, q, z), p, id)
    BY <1>1, LeadsOne
  <1> QED BY <1>2, <1>3 DEF z

\* A new page once cells are added to it.
LEMMA NewPageCells ==
  ASSUME NEW id \in Ids, NEW span \in Nat, NEW flags \in SUBSET Flags,
         NEW old \in [Cells -> Values], NEW cells \in [Cells -> Values]
  PROVE  [NewPage(id, span, flags, old) EXCEPT !.cells = cells] = NewPage(id, span, flags, cells)
  BY DEF NewPage

\* spiffs_page_allocate_data.
LEMMA LeadsAllocate ==
  ASSUME NEW fl \in Flashes, NEW p \in Pages, fl[p] = BlankPage, NEW id \in Ids,
         NEW span \in Nat, NEW flags \in SUBSET Flags, NEW cells \in [Cells -> Values],
         NEW finalize \in BOOLEAN
  PROVE  Leads(fl, Allocate(p, id, span, flags, cells, finalize),
               Put(fl, p, NewPage(id, span, IF finalize THEN flags \cup {"final"} ELSE flags,
                                  cells)), p, id)
  <1> DEFINE s == LuW(p, id) \o HeaderW(p, id, span, flags \cup {"used"})
             t == IF cells = NoCells THEN <<>> ELSE CellsW(p, cells)
             u == IF finalize /\ "final" \notin flags THEN FlagsW(p, {"final"}) ELSE <<>>
             a == NewPage(id, span, flags, NoCells)
             b == NewPage(id, span, flags, cells)
             F == IF finalize THEN flags \cup {"final"} ELSE flags
             d == NewPage(id, span, F, cells)
  <1>1. Leads(fl, s, Put(fl, p, a), p, id)
    BY LeadsHeader
  <1>2. NoCells \in [Cells -> Values] /\ {"final"} \in SUBSET Flags
    BY BlankPageType DEF Flags
  <1>3. a \in PageType /\ b \in PageType /\ a.cells = NoCells
    BY <1>2, NewPageParts
  <1>4. Leads(Put(fl, p, a), t, Put(fl, p, b), p, id)
    <2>1. CASE cells = NoCells
      <3>1. Put(fl, p, a) \in Flashes
        BY <1>3, PutType
      <3> QED BY <2>1, <3>1, LeadsNone
    <2>2. CASE cells # NoCells
      <3>1. cells = [c \in Cells |-> Meet(a.cells[c], cells[c])]
        BY <1>3, NoCellsMeet
      <3>2. [a EXCEPT !.cells = cells] = b
        BY <1>2, NewPageCells
      <3>3. t = CellsW(p, cells)
        BY <2>2
      <3> HIDE DEF a, b, t
      <3>4. Leads(Put(fl, p, a), CellsW(p, cells), Put(fl, p, [a EXCEPT !.cells = cells]), p, id)
        BY <1>3, <3>1, LeadsCells
      <3> QED BY <3>2, <3>3, <3>4
    <2> QED BY <2>1, <2>2
  <1>5. Leads(Put(fl, p, b), u, Put(fl, p, d), p, id)
    <2>1. CASE finalize /\ "final" \notin flags
      <3>1. [b EXCEPT !.flags = @ \cup {"final"}] = d
        <4>1. F = flags \cup {"final"}
          BY <2>1
        <4>2. [b EXCEPT !.flags = @ \cup {"final"}]
                = NewPage(id, span, flags \cup {"final"}, cells)
          <5>1. (flags \cup {"used"}) \cup {"final"} = (flags \cup {"final"}) \cup {"used"}
            OBVIOUS
          <5> QED BY <5>1 DEF NewPage
        <4> QED BY <4>1, <4>2
      <3>2. u = FlagsW(p, {"final"})
        BY <2>1
      <3> HIDE DEF b, d, u
      <3>3. Leads(Put(fl, p, b), FlagsW(p, {"final"}),
                  Put(fl, p, [b EXCEPT !.flags = @ \cup {"final"}]), p, id)
        BY <1>2, <1>3, LeadsFlags
      <3> QED BY <3>1, <3>2, <3>3
    <2>2. CASE ~(finalize /\ "final" \notin flags)
      <3>1. F = flags
        BY <2>2
      <3>2. Put(fl, p, b) \in Flashes
        BY <1>3, PutType
      <3> QED BY <2>2, <3>1, <3>2, LeadsNone
    <2> QED BY <2>1, <2>2
  <1>6. Allocate(p, id, span, flags, cells, finalize) = (s \o t) \o u
    BY DEF Allocate
  <1> HIDE DEF s, t, u, a, b, d
  <1>7. Leads(fl, s \o t, Put(fl, p, b), p, id)
    BY <1>1, <1>4, LeadsThen
  <1>8. Leads(fl, (s \o t) \o u, Put(fl, p, d), p, id)
    BY <1>5, <1>7, LeadsThen
  <1>9. Leads(fl, Allocate(p, id, span, flags, cells, finalize), Put(fl, p, d), p, id)
    BY <1>6, <1>8
  <1> QED BY <1>9 DEF d

\* spiffs_page_move of a page in memory.
LEMMA LeadsMove ==
  ASSUME NEW fl \in Flashes, NEW src \in Pages, NEW dst \in Pages, src # dst,
         fl[dst] = BlankPage, NEW image \in PageType, image.lu = image.id, image.id \in Ids,
         {"final", "used"} \subseteq image.flags
  PROVE  Leads(fl, Move(src, dst, image), Put(Put(fl, dst, image), src, Dead(fl[src])),
               dst, image.id)
  <1> DEFINE id == image.id
             unfinished == [image EXCEPT !.flags = (@ \ {"final"}) \cup {"used"}]
             a == [unfinished EXCEPT !.lu = Blank]
             b == [a EXCEPT !.lu = id]
             F == {"final", "used"}
             d == [b EXCEPT !.flags = @ \cup F]
             s == PageW(dst, unfinished)
             t == LuW(dst, id)
             u == FlagsW(dst, F)
             gl == Put(fl, dst, image)
  <1>1. /\ unfinished \in PageType /\ F \in SUBSET Flags
        /\ unfinished.flags = (image.flags \ {"final"}) \cup {"used"}
        /\ unfinished.lu = image.lu /\ unfinished.id = id /\ unfinished.span = image.span
        /\ unfinished.size = image.size /\ unfinished.cells = image.cells
    BY DEF PageType, Flags
  <1> HIDE DEF unfinished
  <1>2. /\ a \in PageType /\ a.lu = Blank /\ a.flags = unfinished.flags /\ a.id = id
        /\ a.span = image.span /\ a.size = image.size /\ a.cells = image.cells
    BY <1>1 DEF PageType
  <1>3. s = W(dst, a)
    BY DEF PageW
  <1>4. a = MeetPage(BlankPage, a)
    BY <1>1, PageWrite
  <1> HIDE DEF a
  <1>5. /\ b \in PageType /\ b.lu = id /\ b.flags = unfinished.flags /\ b.id = id
        /\ b.span = image.span /\ b.size = image.size /\ b.cells = image.cells
    BY <1>2 DEF PageType
  <1>6. Leads(fl, s, Put(fl, dst, a), dst, id)
    <2>1. BlankPage \in PageType /\ Put(fl, dst, BlankPage) = fl
      BY BlankPageType, PutType
    <2> QED BY <1>2, <1>3, <1>4, <2>1, LeadsOne
  <1>7. Leads(Put(fl, dst, a), t, Put(fl, dst, b), dst, id)
    <2> DEFINE im == [BlankPage EXCEPT !.lu = id]
    <2>1. im \in PageType /\ im.lu = id /\ b = MeetPage(a, im)
      BY <1>2, LuWrite
    <2>2. t = W(dst, im)
      BY DEF LuW
    <2> HIDE DEF im, t, b, id
    <2> QED BY <1>2, <2>1, <2>2, LeadsOne
  <1> HIDE DEF b
  <1>8. Leads(Put(fl, dst, b), u, Put(fl, dst, d), dst, id)
    BY <1>1, <1>5, LeadsFlags
  <1>9. d = image
    <2>1. d \in PageType
      BY <1>1, <1>5 DEF PageType
    <2>2. /\ d.lu = image.lu /\ d.id = image.id /\ d.span = image.span
          /\ d.size = image.size /\ d.cells = image.cells /\ d.flags = b.flags \cup F
      BY <1>5 DEF PageType
    <2>3. b.flags \cup F = image.flags
      BY <1>1, <1>5
    <2> HIDE DEF d
    <2> QED BY <2>1, <2>2, <2>3, PageParts, ZenonT(60)
  <1>10. gl \in Flashes /\ gl[src] = fl[src]
    BY PutType
  <1>11. Leads(gl, Delete(src), Put(gl, src, Dead(fl[src])), dst, id)
    <2> HIDE DEF gl, id
    <2> QED BY <1>10, LeadsDelete
  <1>12. Move(src, dst, image) = ((s \o t) \o u) \o Delete(src)
    BY DEF Move, unfinished
  <1> HIDE DEF s, t, u, id, d
  <1>13. Leads(fl, s \o t, Put(fl, dst, b), dst, id)
    BY <1>6, <1>7, LeadsThen
  <1>14. Leads(fl, (s \o t) \o u, gl, dst, id)
    BY <1>8, <1>9, <1>13, LeadsThen
  <1> HIDE DEF gl
  <1>15. Leads(fl, ((s \o t) \o u) \o Delete(src), Put(gl, src, Dead(fl[src])), dst, id)
    BY <1>11, <1>14, LeadsThen
  <1> QED BY <1>12, <1>15 DEF gl, id

\* spiffs_page_move of a page in flash.
LEMMA LeadsMoveRaw ==
  ASSUME flash \in Flashes, NEW src \in Pages, NEW dst \in Pages, src # dst,
         flash[dst] = BlankPage, flash[src].lu \in Ids
  PROVE  Leads(flash, MoveRaw(src, dst, flash[src].lu),
               Put(Put(flash, dst, flash[src]), src, Dead(flash[src])), dst, flash[src].lu)
  <1> DEFINE x == flash[src]
             id == x.lu
             first == [x EXCEPT !.cells = NoCells]
             a == [first EXCEPT !.lu = Blank]
             b == [a EXCEPT !.cells = x.cells]
             d == [b EXCEPT !.lu = id]
             s == PageW(dst, first)
             t == CellsW(dst, x.cells)
             u == LuW(dst, id)
             gl == Put(flash, dst, x)
  <1>1. x \in PageType /\ NoCells \in [Cells -> Values]
    BY BlankPageType DEF Flashes
  <1>2. s = PageW(dst, [flash[src] EXCEPT !.cells = NoCells]) /\ t = CellsW(dst, flash[src].cells)
        /\ u = LuW(dst, flash[src].lu)
    OBVIOUS
  <1>3. MoveRaw(src, dst, flash[src].lu) = ((s \o t) \o u) \o Delete(src)
    BY <1>2 DEF MoveRaw
  <1> HIDE DEF x
  <1>4. first \in PageType /\ first.cells = NoCells
    BY <1>1 DEF PageType
  <1>5. s = W(dst, a)
    BY DEF PageW
  <1>6. a \in PageType /\ a.lu = Blank /\ a.cells = NoCells
    BY <1>1, <1>4 DEF PageType
  <1>7. a = MeetPage(BlankPage, a)
    <2> HIDE DEF first
    <2> QED BY <1>4, PageWrite
  <1>8. b \in PageType /\ b.lu = Blank
    BY <1>1 DEF PageType
  <1>9. d = x
    <2>1. d \in PageType
      BY <1>1 DEF PageType
    <2>2. /\ d.lu = x.lu /\ d.id = x.id /\ d.span = x.span
          /\ d.size = x.size /\ d.cells = x.cells /\ d.flags = x.flags
      BY <1>1 DEF PageType
    <2> HIDE DEF d
    <2> QED BY <1>1, <2>1, <2>2, PageParts, ZenonT(60)
  <1>10. Leads(flash, s, Put(flash, dst, a), dst, id)
    <2>1. BlankPage \in PageType /\ Put(flash, dst, BlankPage) = flash
      BY BlankPageType, PutType
    <2> HIDE DEF a, s
    <2> QED BY <1>5, <1>6, <1>7, <2>1, LeadsOne
  <1>11. Leads(Put(flash, dst, a), t, Put(flash, dst, b), dst, id)
    <2>1. x.cells \in [Cells -> Values]
      BY <1>1, PageParts
    <2>2. x.cells = [c \in Cells |-> Meet(a.cells[c], x.cells[c])]
      BY <1>6, <2>1, NoCellsMeet
    <2> HIDE DEF a, id
    <2> QED BY <1>6, <2>1, <2>2, LeadsCells
  <1>12. Leads(Put(flash, dst, b), u, Put(flash, dst, d), dst, id)
    <2> DEFINE im == [BlankPage EXCEPT !.lu = id]
    <2>1. id \in Ids
      BY DEF x
    <2> HIDE DEF id, b
    <2>2. im \in PageType /\ im.lu = id /\ d = MeetPage(b, im)
      BY <1>8, <2>1, LuWrite
    <2>3. u = W(dst, im)
      BY DEF LuW
    <2> HIDE DEF im, u, d
    <2> QED BY <1>8, <2>2, <2>3, LeadsOne
  <1>13. gl \in Flashes /\ gl[src] = x
    BY <1>1, PutType DEF x
  <1>14. Leads(gl, Delete(src), Put(gl, src, Dead(x)), dst, id)
    <2> HIDE DEF gl, id
    <2> QED BY <1>13, LeadsDelete
  <1> HIDE DEF s, t, u, id, d, a, b
  <1>15. Leads(flash, s \o t, Put(flash, dst, b), dst, id)
    BY <1>10, <1>11, LeadsThen
  <1>16. Leads(flash, (s \o t) \o u, gl, dst, id)
    BY <1>9, <1>12, <1>15, LeadsThen
  <1> HIDE DEF gl
  <1>17. Leads(flash, ((s \o t) \o u) \o Delete(src), Put(gl, src, Dead(x)), dst, id)
    BY <1>14, <1>16, LeadsThen
  <1> QED BY <1>3, <1>17 DEF gl, id, x

-----------------------------------------------------------------------------
(* Units, pages of data and index pages *)

LEMMA Lengths ==
  /\ B \in Nat \ {0} /\ N \in Nat \ {0} /\ U \in Nat \ {0} /\ HdrLen \in Nat \ {0}
  /\ IxLen \in Nat \ {0} /\ MaxSize \in Nat /\ B * N \in Nat /\ NoIx \notin Pages
  BY FlashAssumption DEF FlashAssumption, NoIx, Pages

LEMMA Division ==
  ASSUME NEW m \in Nat \ {0}, NEW x \in Nat
  PROVE  /\ x \div m \in Nat /\ (x % m) \in 0 .. (m - 1)
         /\ x = (x \div m) * m + (x % m)
  OBVIOUS

LEMMA Multiple ==
  ASSUME NEW m \in Nat \ {0}, NEW j \in Int, j >= 1
  PROVE  j * m >= m
  OBVIOUS

LEMMA MultipleSign ==
  ASSUME NEW m \in Nat \ {0}, NEW a \in Int, NEW b \in Int
  PROVE  /\ a < b <=> a * m < b * m
         /\ a < b <=> a * m + m <= b * m
  <1>1. a < b => a * m + m <= b * m
    <2>1. SUFFICES ASSUME a < b PROVE a * m + m <= b * m
      OBVIOUS
    <2>2. (b - a) * m >= m
      BY <2>1, Multiple
    <2>3. (b - a) * m = b * m - a * m
      OBVIOUS
    <2>4. a * m \in Int /\ b * m \in Int
      OBVIOUS
    <2> QED BY <2>2, <2>3, <2>4
  <1>2. b < a => b * m + m <= a * m
    <2>1. SUFFICES ASSUME b < a PROVE b * m + m <= a * m
      OBVIOUS
    <2>2. (a - b) * m >= m
      BY <2>1, Multiple
    <2>3. (a - b) * m = a * m - b * m
      OBVIOUS
    <2>4. a * m \in Int /\ b * m \in Int
      OBVIOUS
    <2> QED BY <2>2, <2>3, <2>4
  <1>3. a * m \in Int /\ b * m \in Int
    OBVIOUS
  <1> DEFINE x == a * m
             y == b * m
  <1>4. a = b => x = y
    OBVIOUS
  <1> HIDE DEF x, y
  <1>5. (a < b => x + m <= y) /\ (b < a => y + m <= x) /\ x \in Int /\ y \in Int
    BY <1>1, <1>2, <1>3 DEF x, y
  <1>6. (a < b <=> x < y) /\ (a < b <=> x + m <= y)
    BY <1>4, <1>5
  <1> QED BY <1>6 DEF x, y

\* Quotient and remainder are determined.
LEMMA DivisionUnique ==
  ASSUME NEW m \in Nat \ {0}, NEW q \in Nat, NEW r \in 0 .. (m - 1)
  PROVE  /\ (q * m + r) % m = r
         /\ (q * m + r) \div m = q
  <1> DEFINE x == q * m + r
  <1>1. x \in Nat
    OBVIOUS
  <1>2. /\ x \div m \in Nat /\ (x % m) \in 0 .. (m - 1)
        /\ x = (x \div m) * m + (x % m)
    BY <1>1, Division
  <1> HIDE DEF x
  <1>3. x = q * m + r
    BY DEF x
  <1> DEFINE d == x \div m
             s == x % m
  <1>4. d \in Nat /\ s \in 0 .. (m - 1) /\ d * m + s = q * m + r
    BY <1>2, <1>3
  <1> HIDE DEF d, s
  <1>5. ~(d < q) /\ ~(q < d)
    <2> DEFINE y == d * m
               z == q * m
    <2>1. /\ (d < q => y + m <= z) /\ (q < d => z + m <= y)
          /\ y + s = z + r /\ y \in Int /\ z \in Int
      BY <1>4, MultipleSign
    <2> HIDE DEF y, z
    <2> QED BY <1>4, <2>1
  <1>6. d = q
    BY <1>4, <1>5
  <1>7. s = r
    <2>1. q * m \in Int
      OBVIOUS
    <2> QED BY <1>4, <1>6, <2>1
  <1> QED BY <1>6, <1>7 DEF d, s, x

\* The unit a page of data begins with.
First(s) == s * U

LEMMA FirstUnit ==
  ASSUME NEW s \in Nat, NEW t \in Nat
  PROVE  /\ First(s) \in Nat /\ First(s + 1) = First(s) + U
         /\ s < t <=> First(s) < First(t)
         /\ s < t <=> First(s) + U <= First(t)
  BY Lengths, MultipleSign DEF First

LEMMA UnitOf ==
  ASSUME NEW k \in Nat
  PROVE  /\ k \div U \in Nat /\ (k % U) \in 0 .. (U - 1)
         /\ k = First(k \div U) + (k % U)
  BY Lengths, Division DEF First

LEMMA UnitUnique ==
  ASSUME NEW s \in Nat, NEW c \in 0 .. (U - 1)
  PROVE  /\ (First(s) + c) \div U = s
         /\ (First(s) + c) % U = c
  BY Lengths, DivisionUnique DEF First

\* The last of n units is in the page of span PageSpan(n).
LEMMA SpanOfSome ==
  ASSUME NEW n \in Nat \ {0}
  PROVE  /\ PageSpan(n) \in Nat /\ First(PageSpan(n)) < n /\ n <= First(PageSpan(n)) + U
  <1> DEFINE x == n - 1
  <1>1. x \in Nat
    OBVIOUS
  <1>2. /\ x \div U \in Nat /\ (x % U) \in 0 .. (U - 1)
        /\ x = First(x \div U) + (x % U)
    BY <1>1, UnitOf
  <1>3. PageSpan(n) = x \div U
    BY DEF PageSpan
  <1> DEFINE d == x \div U
             s == x % U
  <1>4. First(d) \in Nat
    BY <1>2, FirstUnit
  <1>5. U \in Nat
    BY Lengths
  <1>6. d \in Nat /\ s \in 0 .. (U - 1) /\ x = First(d) + s /\ x = n - 1 /\ PageSpan(n) = d
    BY <1>2, <1>3
  <1> HIDE DEF x, d, s
  <1> QED BY <1>4, <1>5, <1>6

LEMMA SpanOfNone == PageSpan(0) = -1
  <1>1. U \in Nat \ {0}
    BY Lengths
  <1>2. (0 - 1) \div U = -1
    BY <1>1
  <1> QED BY <1>2 DEF PageSpan

LEMMA SpanType ==
  ASSUME NEW n \in Nat
  PROVE  PageSpan(n) \in Int /\ PageSpan(n) >= -1
  BY SpanOfNone, SpanOfSome

LEMMA SpanBelow ==
  ASSUME NEW n \in Nat, NEW s \in Nat
  PROVE  s <= PageSpan(n) <=> First(s) < n
  <1>1. CASE n = 0
    BY <1>1, SpanOfNone, FirstUnit
  <1>2. CASE n # 0
    <2> DEFINE t == PageSpan(n)
    <2>1. t \in Nat /\ First(t) < n /\ n <= First(t) + U
      BY <1>2, SpanOfSome
    <2> HIDE DEF t
    <2>2. First(t) \in Nat /\ First(s) \in Nat /\ U \in Nat
      BY <2>1, FirstUnit, Lengths
    <2>3. (t < s <=> First(t) + U <= First(s)) /\ (s < t <=> First(s) < First(t))
      BY <2>1, FirstUnit
    <2>4. s <= t <=> First(s) < n
      BY <2>1, <2>2, <2>3
    <2> QED BY <2>4 DEF t
  <1> QED BY <1>1, <1>2

\* The span of the last page is the one that SpanBelow says.
LEMMA SpanIs ==
  ASSUME NEW n \in Nat, NEW s \in Nat, First(s) < n, n <= First(s) + U
  PROVE  PageSpan(n) = s
  <1>1. s <= PageSpan(n)
    BY SpanBelow
  <1>2. First(s + 1) = First(s) + U /\ s + 1 \in Nat /\ First(s) \in Nat /\ U \in Nat
    BY FirstUnit, Lengths
  <1>3. ~(s + 1 <= PageSpan(n))
    BY <1>2, SpanBelow
  <1>4. PageSpan(n) \in Int
    BY SpanType
  <1> QED BY <1>1, <1>3, <1>4

LEMMA SpanOfWhole ==
  ASSUME NEW s \in Nat
  PROVE  PageSpan(First(s)) = s - 1
  <1>1. CASE s = 0
    <2>1. 0 * U = 0
      BY Lengths
    <2> QED BY <1>1, <2>1, SpanOfNone DEF First
  <1>2. CASE s # 0
    <2>1. s - 1 \in Nat /\ First(s) = First(s - 1) + U /\ U \in Nat \ {0}
          /\ First(s - 1) \in Nat /\ First(s) \in Nat
      <3>1. s - 1 \in Nat /\ (s - 1) + 1 = s
        BY <1>2
      <3> QED BY <3>1, FirstUnit, Lengths
    <2> QED BY <2>1, SpanIs
  <1> QED BY <1>1, <1>2

LEMMA SpanMonotone ==
  ASSUME NEW m \in Nat, NEW n \in Nat, m <= n
  PROVE  PageSpan(m) <= PageSpan(n)
  <1>1. PageSpan(m) \in Int /\ PageSpan(m) >= -1 /\ PageSpan(n) \in Int /\ PageSpan(n) >= -1
    BY SpanType
  <1>2. CASE PageSpan(m) = -1
    BY <1>1, <1>2
  <1>3. CASE PageSpan(m) >= 0
    <2>1. PageSpan(m) \in Nat
      BY <1>1, <1>3
    <2>2. First(PageSpan(m)) < m /\ First(PageSpan(m)) \in Nat
      BY <1>1, <2>1, SpanBelow, FirstUnit
    <2>3. First(PageSpan(m)) < n
      BY <2>2
    <2> QED BY <2>1, <2>3, SpanBelow
  <1> QED BY <1>1, <1>2, <1>3

\* The next unit is in the page of the last, or in the one after it.
LEMMA NextUnit ==
  ASSUME NEW n \in Nat
  PROVE  /\ n % U = 0 => PageSpan(n) = (n \div U) - 1
         /\ n % U # 0 => PageSpan(n) = n \div U
         /\ n \div U \in Nat
  <1> DEFINE s == n \div U
             c == n % U
  <1>1. s \in Nat /\ c \in 0 .. (U - 1) /\ n = First(s) + c /\ U \in Nat \ {0}
    BY UnitOf, Lengths
  <1> HIDE DEF s, c
  <1>2. First(s) \in Nat
    BY <1>1, FirstUnit
  <1>3. c = 0 => PageSpan(n) = s - 1
    <2>1. c = 0 => n = First(s)
      BY <1>1, <1>2
    <2> QED BY <1>1, <2>1, SpanOfWhole
  <1>4. c # 0 => PageSpan(n) = s
    BY <1>1, <1>2, SpanIs
  <1> QED BY <1>1, <1>3, <1>4 DEF s, c

-----------------------------------------------------------------------------
(* Index pages and their entries *)

LEMMA IxSpanType ==
  ASSUME NEW s \in Int, s >= -1
  PROVE  IxSpan(s) \in Nat /\ (s < HdrLen => IxSpan(s) = 0) /\ (IxSpan(s) = 0 => s < HdrLen)
  <1>1. CASE s < HdrLen
    BY <1>1 DEF IxSpan
  <1>2. CASE ~(s < HdrLen)
    <2>1. s - HdrLen \in Nat /\ IxLen \in Nat \ {0}
      BY <1>2, Lengths
    <2>2. (s - HdrLen) \div IxLen \in Nat
      BY <2>1, Division
    <2> QED BY <1>2, <2>2 DEF IxSpan
  <1> QED BY <1>1, <1>2

LEMMA IxEntryType ==
  ASSUME NEW s \in Nat
  PROVE  /\ s < HdrLen => IxEntry(s) \in 0 .. (HdrLen - 1)
         /\ ~(s < HdrLen) => IxEntry(s) \in 0 .. (IxLen - 1)
  <1>1. CASE s < HdrLen
    BY <1>1, Lengths DEF IxEntry
  <1>2. CASE ~(s < HdrLen)
    <2>1. s - HdrLen \in Nat /\ IxLen \in Nat \ {0}
      BY <1>2, Lengths
    <2>2. (s - HdrLen) % IxLen \in 0 .. (IxLen - 1)
      BY <2>1, Division
    <2> QED BY <1>2, <2>2 DEF IxEntry
  <1> QED BY <1>1, <1>2

\* A span has an entry of its own.
LEMMA EntryUnique ==
  ASSUME NEW s \in Nat, NEW t \in Nat, IxSpan(s) = IxSpan(t), IxEntry(s) = IxEntry(t)
  PROVE  s = t
  <1>1. (s < HdrLen) <=> (t < HdrLen)
    BY IxSpanType
  <1>2. CASE s < HdrLen
    BY <1>1, <1>2 DEF IxEntry
  <1>3. CASE ~(s < HdrLen)
    <2> DEFINE x == s - HdrLen
               y == t - HdrLen
    <2>1. x \in Nat /\ y \in Nat /\ IxLen \in Nat \ {0}
      BY <1>1, <1>3, Lengths
    <2>2. x % IxLen = y % IxLen
      BY <1>1, <1>3 DEF IxEntry
    <2>3. 1 + (x \div IxLen) = 1 + (y \div IxLen)
      BY <1>1, <1>3 DEF IxSpan
    <2>4. /\ x = (x \div IxLen) * IxLen + (x % IxLen)
          /\ y = (y \div IxLen) * IxLen + (y % IxLen)
          /\ x \div IxLen \in Nat /\ y \div IxLen \in Nat
      <3> HIDE DEF x, y
      <3> QED BY <2>1, Division
    <2> HIDE DEF x, y
    <2>5. x \div IxLen = y \div IxLen
      BY <2>3, <2>4
    <2>6. x = y
      BY <2>2, <2>4, <2>5
    <2>7. HdrLen \in Nat
      BY Lengths
    <2> QED BY <2>6, <2>7 DEF x, y
  <1> QED BY <1>2, <1>3

LEMMA IxSpanMonotone ==
  ASSUME NEW s \in Int, NEW t \in Int, s >= -1, s <= t
  PROVE  IxSpan(s) <= IxSpan(t)
  <1>1. CASE s < HdrLen
    <2>1. IxSpan(s) = 0 /\ IxSpan(t) \in Nat
      BY <1>1, IxSpanType
    <2> QED BY <2>1
  <1>2. CASE ~(s < HdrLen)
    <2> DEFINE x == s - HdrLen
               y == t - HdrLen
    <2>1. x \in Nat /\ y \in Nat /\ IxLen \in Nat \ {0} /\ x <= y /\ ~(t < HdrLen)
      BY <1>2, Lengths
    <2>2. IxSpan(s) = 1 + (x \div IxLen) /\ IxSpan(t) = 1 + (y \div IxLen)
      BY <1>2, <2>1 DEF IxSpan
    <2> HIDE DEF x, y
    <2> DEFINE d == x \div IxLen
               e == y \div IxLen
               a == x % IxLen
               b == y % IxLen
    <2>3. /\ d \in Nat /\ e \in Nat /\ a \in 0 .. (IxLen - 1) /\ b \in 0 .. (IxLen - 1)
          /\ x = d * IxLen + a /\ y = e * IxLen + b
      BY <2>1, Division
    <2>4. IxSpan(s) = 1 + d /\ IxSpan(t) = 1 + e
      BY <2>2
    <2> HIDE DEF d, e, a, b
    <2> DEFINE dm == d * IxLen
               em == e * IxLen
    <2>5. (e < d => em + IxLen <= dm) /\ dm \in Int /\ em \in Int
      BY <2>1, <2>3, MultipleSign
    <2>6. x = dm + a /\ y = em + b
      BY <2>3
    <2> HIDE DEF dm, em
    <2>7. ~(e < d)
      BY <2>1, <2>3, <2>5, <2>6
    <2> QED BY <2>3, <2>4, <2>7
  <1> QED BY <1>1, <1>2

LEMMA IxSpanNext ==
  ASSUME NEW s \in Int, s >= -1
  PROVE  IxSpan(s + 1) <= IxSpan(s) + 1
  <1>0. HdrLen \in Nat \ {0} /\ IxLen \in Nat \ {0}
    BY Lengths
  <1>1. CASE s + 1 < HdrLen
    <2>1. IxSpan(s + 1) = 0 /\ IxSpan(s) \in Nat
      BY <1>1, IxSpanType
    <2> QED BY <2>1
  <1>2. CASE s + 1 = HdrLen
    <2>1. (s + 1) - HdrLen = 0 /\ s < HdrLen
      BY <1>0, <1>2
    <2>2. 0 \div IxLen = 0
      BY <1>0
    <2>3. IxSpan(s + 1) = 1
      BY <1>0, <1>2, <2>1, <2>2 DEF IxSpan
    <2>4. IxSpan(s) = 0
      BY <2>1, IxSpanType
    <2> QED BY <2>3, <2>4
  <1>3. CASE s + 1 > HdrLen
    <2> DEFINE x == s - HdrLen
    <2>1. x \in Nat /\ ~(s < HdrLen) /\ ~(s + 1 < HdrLen) /\ (s + 1) - HdrLen = x + 1
      BY <1>0, <1>3
    <2>2. IxSpan(s) = 1 + (x \div IxLen) /\ IxSpan(s + 1) = 1 + ((x + 1) \div IxLen)
      BY <2>1 DEF IxSpan
    <2> HIDE DEF x
    <2> DEFINE d == x \div IxLen
               e == (x + 1) \div IxLen
               a == x % IxLen
               b == (x + 1) % IxLen
    <2>3. /\ d \in Nat /\ e \in Nat /\ a \in 0 .. (IxLen - 1) /\ b \in 0 .. (IxLen - 1)
          /\ x = d * IxLen + a /\ x + 1 = e * IxLen + b
      <3>1. x + 1 \in Nat
        BY <2>1
      <3> QED BY <1>0, <2>1, <3>1, Division
    <2>4. IxSpan(s) = 1 + d /\ IxSpan(s + 1) = 1 + e
      BY <2>2
    <2> HIDE DEF d, e, a, b
    <2> DEFINE dm == (d + 1) * IxLen
               em == e * IxLen
    <2>5. (d + 1 < e => dm + IxLen <= em) /\ dm \in Int /\ em \in Int
      BY <1>0, <2>3, MultipleSign
    <2>6. x = (dm - IxLen) + a /\ x + 1 = em + b
      BY <1>0, <2>3
    <2> HIDE DEF dm, em
    <2>7. ~(d + 1 < e)
      BY <1>0, <2>1, <2>3, <2>5, <2>6
    <2> QED BY <2>3, <2>4, <2>7
  <1> QED BY <1>0, <1>1, <1>2, <1>3

-----------------------------------------------------------------------------
(* The cells of a page *)

LEMMA CellsAre ==
  /\ 0 .. (U - 1) \subseteq Cells
  /\ \A s \in Nat : IxEntry(s) \in Cells
  <1> DEFINE S == {U, HdrLen, IxLen}
             m == Max(S)
  <1>1. U \in Nat \ {0} /\ HdrLen \in Nat \ {0} /\ IxLen \in Nat \ {0}
    BY Lengths
  <1>2. \E x \in S : \A y \in S : x >= y
    <2>1. \E x \in {U, HdrLen, IxLen} : x >= U /\ x >= HdrLen /\ x >= IxLen
      BY <1>1
    <2> QED BY <2>1
  <1>3. m \in S /\ \A y \in S : m >= y
    BY <1>2 DEF Max
  <1>4. m \in Nat /\ m >= U /\ m >= HdrLen /\ m >= IxLen
    BY <1>1, <1>3
  <1>5. Cells = 0 .. (m - 1)
    BY DEF Cells
  <1> HIDE DEF m
  <1>6. \A s \in Nat : IxEntry(s) \in Cells
    BY <1>1, <1>4, <1>5, IxEntryType
  <1> QED BY <1>1, <1>4, <1>5, <1>6

-----------------------------------------------------------------------------
(* The locals of a call *)

LEMMA JobKinds ==
  ASSUME NEW j, JobShape(j)
  PROVE  /\ j.op \in Writers \cup {"gc", "erase", "gc move", "return", "idle"}
         /\ j.op \in Writers => j \in CallShape
         /\ j.op \in {"gc", "erase"} => j \in GcShape /\ j.block \in 0 .. (B - 1)
         /\ j.op = "gc move" => j \in MoveShape
         /\ j.op = "return" => j \in ReturnShape
         /\ j.op = "idle" => j = Idle
  <1>1. CASE j \in CallShape
    <2>1. j.op \in Writers
      BY <1>1 DEF CallShape
    <2> QED BY <1>1, <2>1 DEF Writers
  <1>2. CASE j \in GcShape
    <2>1. j.op \in {"gc", "erase"} /\ j.block \in 0 .. (B - 1)
      BY <1>2 DEF GcShape
    <2> QED BY <1>2, <2>1 DEF Writers
  <1>3. CASE j \in MoveShape
    <2>1. j.op = "gc move"
      BY <1>3 DEF MoveShape
    <2> QED BY <1>3, <2>1 DEF Writers
  <1>4. CASE j \in ReturnShape
    <2>1. j.op = "return"
      BY <1>4 DEF ReturnShape
    <2> QED BY <1>4, <2>1 DEF Writers
  <1>5. CASE j = Idle
    <2>1. j.op = "idle"
      BY <1>5 DEF Idle
    <2> QED BY <1>5, <2>1 DEF Writers
  <1> QED BY <1>1, <1>2, <1>3, <1>4, <1>5 DEF JobShape

LEMMA CallParts ==
  ASSUME NEW j \in CallShape
  PROVE  /\ j.op \in Writers /\ j.o \in Objs /\ j.hdr \in Pages /\ j.begin \in Nat
         /\ j.pos \in Nat /\ j.end \in Nat /\ j.ix \in Nat \cup {NoIx} /\ j.ixp \in Pages
         /\ j.cells \in [Cells -> Values] /\ j.new \in Contents
  BY DEF CallShape

LEMMA MoveParts ==
  ASSUME NEW j \in MoveShape
  PROVE  /\ j.op = "gc move" /\ j.block \in 0 .. (B - 1) /\ j.o \in Objs /\ j.ix \in Nat
         /\ j.ixp \in Pages /\ j.cells \in [Cells -> Values]
  BY DEF MoveShape

\* What a call starts with, and what it returns.
LEMMA CallStarts ==
  ASSUME NEW op \in Writers, NEW o \in Objs, NEW h \in Pages, NEW b \in Nat, NEW e \in Nat,
         NEW new \in Contents, NEW k, k = Call(op, o, h, b, e, new)
  PROVE  /\ k \in CallShape /\ k.op = op /\ k.o = o /\ k.hdr = h /\ k.begin = b /\ k.pos = b
         /\ k.end = e /\ k.ix = NoIx /\ k.ixp = h /\ k.cells = NoCells /\ k.new = new
  BY BlankPageType DEF Call, CallShape

LEMMA CallReturned ==
  ASSUME NEW k, NEW o \in Objs, NEW new \in Contents, k = [op |-> "return", o |-> o, new |-> new]
  PROVE  k \in ReturnShape /\ k.op = "return" /\ k.o = o /\ k.new = new
  BY DEF ReturnShape

-----------------------------------------------------------------------------
(* The types of a state *)

\* What JobOK says of the running call.
Fits(j) ==
    CASE j.op = "idle" -> TRUE
      [] j.op = "return" -> j.o \in Objs /\ j.new \in Contents
      [] j.op \in {"gc", "erase"} -> j.block \in 0 .. (B - 1)
      [] j.op = "gc move" -> j.ixp \in Pages /\ j.cells \in [Cells -> Values]
      [] OTHER -> /\ j.hdr \in Pages /\ j.ixp \in Pages
                  /\ j.cells \in [Cells -> Values]
                  /\ j.pos \in 0 .. Max({j.begin, j.end})

\* Locals that are in order have the types TypeOK says.
LEMMA JobTyped ==
  ASSUME NEW fl, NEW j, JobShape(j), CallOK(fl, j)
  PROVE  Fits(j)
  <1>1. CASE j.op \in Writers
    <2>1. j \in CallShape
      BY <1>1, JobKinds
    <2>2. /\ j.hdr \in Pages /\ j.ixp \in Pages /\ j.cells \in [Cells -> Values]
          /\ j.pos \in Nat /\ j.begin \in Nat /\ j.end \in Nat
      BY <2>1, CallParts
    <2>3. j.pos <= j.begin \/ j.pos <= j.end
      BY <1>1 DEF Writers, CallOK, AppendOK, ModifyOK, TruncateOK
    <2>4. j.pos <= Max({j.begin, j.end}) /\ Max({j.begin, j.end}) \in Nat
      <3> DEFINE S == {j.begin, j.end}
                 m == Max(S)
      <3>1. \E x \in S : \A y \in S : x >= y
        <4>1. \E x \in S : x >= j.begin /\ x >= j.end
          BY <2>2
        <4> QED BY <4>1
      <3>2. m \in S /\ \A y \in S : m >= y
        BY <3>1 DEF Max
      <3> HIDE DEF m
      <3>3. m \in Nat /\ m >= j.begin /\ m >= j.end
        BY <2>2, <3>2
      <3> QED BY <2>2, <2>3, <3>3 DEF m
    <2>5. j.pos \in 0 .. Max({j.begin, j.end})
      <3> DEFINE m == Max({j.begin, j.end})
      <3> HIDE DEF m
      <3>1. j.pos <= m /\ m \in Nat
        BY <2>4 DEF m
      <3> QED BY <2>2, <3>1 DEF m
    <2>6. j.op \notin {"idle", "return", "gc", "erase", "gc move"}
      BY <1>1 DEF Writers
    <2> QED BY <2>2, <2>5, <2>6, ZenonT(60) DEF Fits
  <1>2. CASE j.op \in {"gc", "erase"}
    <2>1. j.block \in 0 .. (B - 1)
      BY <1>2, JobKinds
    <2>2. j.op \notin {"idle", "return"}
      BY <1>2
    <2> QED BY <1>2, <2>1, <2>2, ZenonT(60) DEF Fits
  <1>3. CASE j.op = "gc move"
    <2>1. j.ixp \in Pages /\ j.cells \in [Cells -> Values]
      BY <1>3, JobKinds, MoveParts
    <2>2. j.op \notin {"idle", "return", "gc", "erase"}
      BY <1>3
    <2> QED BY <1>3, <2>1, <2>2, ZenonT(60) DEF Fits
  <1>4. CASE j.op = "return"
    <2>1. j.o \in Objs /\ j.new \in Contents
      BY <1>4, JobKinds DEF ReturnShape
    <2>2. j.op # "idle"
      BY <1>4
    <2> QED BY <1>4, <2>1, <2>2, ZenonT(60) DEF Fits
  <1>5. CASE j.op = "idle"
    BY <1>5, ZenonT(60) DEF Fits
  <1> QED BY <1>1, <1>2, <1>3, <1>4, <1>5, JobKinds DEF Writers

\* What a state is, apart from the locals and the promises.
StateTyped ==
    /\ flash \in Flashes /\ cursor \in 0 .. (B * N) /\ todo \in Seq(WriteType)
    /\ want \in [Objs -> SUBSET Contents] /\ calls \in 0 .. MaxCalls

LEMMA SoundParts ==
  ASSUME FlashSound
  PROVE  /\ StateTyped /\ JobShape(job) /\ Filling(job, calls) /\ EntryOnce
         /\ CallOK(soon, job) /\ PagesOK(soon, job) /\ NoTwins(soon) /\ FilesOK(soon, job, want)
  BY DEF FlashSound, TypeOK, StateTyped, Flashes, WriteType, Sound

LEMMA SoundFrom ==
  ASSUME StateTyped, JobShape(job), Filling(job, calls), EntryOnce, CallOK(soon, job),
         PagesOK(soon, job), NoTwins(soon), FilesOK(soon, job, want)
  PROVE  FlashSound
  <1>1. Fits(job)
    BY JobTyped
  <1>2. JobOK
    BY <1>1 DEF JobOK, Fits
  <1> QED BY <1>2 DEF FlashSound, TypeOK, StateTyped, Flashes, WriteType, Sound

LEMMA SoundNext ==
  ASSUME StateTyped', JobShape(job'), Filling(job', calls'), EntryOnce', CallOK(soon', job'),
         PagesOK(soon', job'), NoTwins(soon'), FilesOK(soon', job', want')
  PROVE  FlashSound'
  <1>1. Fits(job')
    BY JobTyped
  <1>2. JobOK'
    BY <1>1 DEF JobOK, Fits
  <1> QED BY <1>2 DEF FlashSound, TypeOK, StateTyped, Flashes, WriteType, Sound

\* When nothing is left to write, flash is what it will be.
LEMMA SoonNow ==
  ASSUME StateTyped, todo = <<>>
  PROVE  soon = flash
  BY AfterNone, WritesNone DEF StateTyped, soon

LEMMA EntryOnceNow ==
  ASSUME todo = <<>>, \A p \in Pages : flash[p].lu # Garbled
  PROVE  EntryOnce
  <1>1. \A p \in Pages : Images(flash, Writes(todo), p) = {flash[p]}
    BY WritesNone DEF Images, ImagesOf
  <1> QED BY <1>1 DEF EntryOnce

-----------------------------------------------------------------------------
(* A call decides on its next writes *)

LEMMA Decided ==
  ASSUME flash \in Flashes, UNCHANGED flash, NEW gl, NEW p, NEW id, id # Garbled,
         Leads(flash, todo', gl, p, id), p \in Pages => flash[p].lu = Blank,
         \A q \in Pages : flash[q].lu # Garbled
  PROVE  /\ soon' = gl /\ gl \in Flashes /\ todo' \in Seq(WriteType)
         /\ EntryOnce'
  <1>1. soon' = gl
    BY DEF soon, Leads
  <1>2. EntryOnce'
    <2>1. \A q \in Pages : \A x \in Images(flash, Writes(todo'), q) :
             \/ x.lu \in {Blank, Deleted} \/ (q = p /\ x.lu = id)
             \/ (x = flash[q])
      BY DEF Images, ImagesOf, Leads, Takes
    <2>2. SUFFICES ASSUME NEW q \in Pages, NEW x \in Images(flash, Writes(todo'), q),
                          NEW y \in Images(flash, Writes(todo'), q)
                   PROVE  /\ x.lu # Garbled
                          /\ {x.lu, y.lu} \cap {Blank, Deleted} = {} => x.lu = y.lu
      BY DEF EntryOnce
    <2>3. \/ x.lu \in {Blank, Deleted} \/ (q = p /\ x.lu = id) \/ x = flash[q]
      BY <2>1
    <2>4. \/ y.lu \in {Blank, Deleted} \/ (q = p /\ y.lu = id) \/ y = flash[q]
      BY <2>1
    <2>5. q = p => flash[q].lu = Blank
      OBVIOUS
    <2>6. x.lu # Garbled
      BY <2>3, ValuesAssumption
    <2> QED BY <2>3, <2>4, <2>5, <2>6
  <1> QED BY <1>1, <1>2 DEF Leads

\* One of them reaches the flash: what it will be in the end does not change.
LEMMA Written ==
  ASSUME StateTyped, EntryOnce, Write
  PROVE  soon' = soon /\ EntryOnce' /\ StateTyped'
  <1> DEFINE w == Head(todo)
             rest == Tail(todo)
             p == w.page
             im == w.image
  <1>1. /\ todo = <<w>> \o rest /\ rest \in Seq(WriteType) /\ w \in WriteType
        /\ <<w>> \in Seq(WriteType)
    BY DEF StateTyped, Write
  <1>2. Writes(todo) = {w} \cup Writes(rest)
    <2> HIDE DEF w, rest
    <2>1. Writes(<<w>> \o rest) = Writes(<<w>>) \cup Writes(rest)
      BY <1>1, WritesConcat
    <2> QED BY <1>1, <2>1, WritesOne
  <1>3. p \in Pages /\ im \in PageType /\ w = [page |-> p, image |-> im]
    BY <1>1 DEF WriteType
  <1>4. flash' = [flash EXCEPT ![p] = MeetPage(@, im)] /\ todo' = rest
        /\ UNCHANGED <<cursor, want, calls>>
    BY DEF Write
  <1>5. flash \in Flashes
    BY DEF StateTyped
  <1> HIDE DEF rest, p, im
  <1>6. flash' = After(flash, {w})
    <2> HIDE DEF w
    <2>1. After(flash, {[page |-> p, image |-> im]}) = [flash EXCEPT ![p] = MeetPage(@, im)]
      BY <1>3, <1>5, AfterOne
    <2> QED BY <1>3, <1>4, <2>1
  <1>7. soon' = soon
    <2>1. After(flash, {w} \cup Writes(rest)) = After(After(flash, {w}), Writes(rest))
      BY AfterTwice
    <2> HIDE DEF w
    <2> QED BY <1>2, <1>4, <1>6, <2>1 DEF soon
  <1>8. flash[p] \in PageType /\ MeetPage(flash[p], im) \in PageType
    BY <1>3, <1>5, MeetType DEF Flashes
  <1>9. flash' \in Flashes
    BY <1>3, <1>4, <1>5, <1>8 DEF Flashes
  <1>10. StateTyped'
    BY <1>1, <1>4, <1>9 DEF StateTyped
  <1>11. \A q \in Pages : q # p => flash'[q] = flash[q]
    BY <1>4, <1>5 DEF Flashes
  <1>12. flash'[p] = MeetPage(flash[p], im)
    BY <1>3, <1>4, <1>5 DEF Flashes
  <1>13. im \in Images(flash, Writes(todo), p) /\ flash[p] \in Images(flash, Writes(todo), p)
    <2>1. w \in Writes(todo)
      BY <1>2
    <2> QED BY <2>1 DEF Images, ImagesOf, p, im
  <1>14. /\ flash[p].lu # Garbled /\ im.lu # Garbled
         /\ {flash[p].lu, im.lu} \cap {Blank, Deleted} = {} => flash[p].lu = im.lu
    BY <1>3, <1>13 DEF EntryOnce
  <1>15. flash'[p].lu \in {flash[p].lu, im.lu, Deleted} /\ flash'[p].lu # Garbled
    <2>1. flash'[p].lu = IF Deleted \in {flash[p].lu, im.lu} THEN Deleted
                         ELSE Meet(flash[p].lu, im.lu)
      BY <1>12 DEF MeetPage
    <2> QED BY <1>14, <2>1, ValuesAssumption DEF Meet
  <1>16. EntryOnce'
    <2>1. SUFFICES ASSUME NEW q \in Pages, NEW x \in Images(flash', Writes(todo'), q),
                          NEW y \in Images(flash', Writes(todo'), q)
                   PROVE  /\ x.lu # Garbled
                          /\ {x.lu, y.lu} \cap {Blank, Deleted} = {} => x.lu = y.lu
      BY DEF EntryOnce
    <2>2. \A z \in Images(flash', Writes(todo'), q) :
             z.lu # Deleted => \E u \in Images(flash, Writes(todo), q) : u.lu = z.lu
      <3>1. SUFFICES ASSUME NEW z \in Images(flash', Writes(todo'), q), z.lu # Deleted
                     PROVE  \E u \in Images(flash, Writes(todo), q) : u.lu = z.lu
        OBVIOUS
      <3>2. z = flash'[q] \/ z \in ImagesOf(Writes(rest), q)
        BY <1>4, <3>1 DEF Images
      <3>3. CASE z \in ImagesOf(Writes(rest), q)
        <4>1. z \in ImagesOf(Writes(todo), q)
          BY <1>2, <3>3 DEF ImagesOf
        <4> QED BY <4>1 DEF Images
      <3>4. CASE z = flash'[q] /\ q # p
        BY <1>11, <3>4 DEF Images
      <3>5. CASE z = flash'[q] /\ q = p
        BY <1>13, <1>15, <3>1, <3>5
      <3> QED BY <3>2, <3>3, <3>4, <3>5
    <2>3. x.lu # Garbled
      <3>1. CASE x.lu = Deleted
        BY <3>1, ValuesAssumption
      <3>2. CASE x.lu # Deleted
        <4>1. PICK u \in Images(flash, Writes(todo), q) : u.lu = x.lu
          BY <2>2, <3>2
        <4> QED BY <4>1 DEF EntryOnce
      <3> QED BY <3>1, <3>2
    <2>4. ASSUME {x.lu, y.lu} \cap {Blank, Deleted} = {} PROVE x.lu = y.lu
      <3>1. x.lu # Deleted /\ y.lu # Deleted
        BY <2>4
      <3>2. PICK u \in Images(flash, Writes(todo), q) : u.lu = x.lu
        BY <2>2, <3>1
      <3>3. PICK v \in Images(flash, Writes(todo), q) : v.lu = y.lu
        BY <2>2, <3>1
      <3> QED BY <2>4, <3>2, <3>3 DEF EntryOnce
    <2> QED BY <2>3, <2>4
  <1> QED BY <1>7, <1>10, <1>16

-----------------------------------------------------------------------------
(* Ids and spans *)

ObjIds(o) == {DataId(o), IxId(o)}

LEMMA IdsDistinct ==
  /\ \A o \in Objs : DataId(o) \in Ids /\ IxId(o) \in Ids
  /\ \A o \in Objs, x \in Objs : DataId(o) # IxId(x)
  /\ \A o \in Objs, x \in Objs : (DataId(o) = DataId(x) \/ IxId(o) = IxId(x)) => o = x
  /\ \A v \in Ids : v # Blank /\ v # Deleted /\ v # Garbled
  <1>1. \A o \in Objs : DataId(o) \in Ids /\ IxId(o) \in Ids
    BY DEF Ids
  <1>2. \A o \in Objs, x \in Objs : DataId(o) # IxId(x)
    BY DEF DataId, IxId
  <1>3. \A o \in Objs, x \in Objs : (DataId(o) = DataId(x) \/ IxId(o) = IxId(x)) => o = x
    BY DEF DataId, IxId
  <1>4. \A v \in Ids : v # Blank /\ v # Deleted /\ v # Garbled
    BY ValuesAssumption
  <1> QED BY <1>1, <1>2, <1>3, <1>4

LEMMA SpansAre ==
  ASSUME NEW s \in Spans
  PROVE  /\ s \in Nat /\ s <= MaxSpan /\ IxSpan(s) \in Nat /\ IxEntry(s) \in Cells
         /\ IxSpan(s) <= IxSpan(MaxSpan)
  <1>1. MaxSpan \in Int /\ MaxSpan >= -1
    BY SpanType, Lengths DEF MaxSpan
  <1>2. s \in Nat /\ s <= MaxSpan
    BY <1>1 DEF Spans
  <1>3. IxSpan(s) \in Nat /\ IxEntry(s) \in Cells
    BY <1>2, IxSpanType, CellsAre
  <1>4. IxSpan(s) <= IxSpan(MaxSpan)
    BY <1>1, <1>2, IxSpanMonotone
  <1> QED BY <1>2, <1>3, <1>4

-----------------------------------------------------------------------------
(* A file whose pages change *)

\* Neither its data pages nor the references to them: header pages may change.
LEMMA FileSame ==
  ASSUME NEW fl, NEW gl, NEW refs, NEW refs1, NEW o \in Objs, NEW n, NEW top,
         \A p \in Pages : fl[p].lu = DataId(o) \/ gl[p].lu = DataId(o) => gl[p] = fl[p],
         \A q \in Pages : fl[q].lu = IxId(o) \/ gl[q].lu = IxId(o) =>
            gl[q].lu = fl[q].lu /\ gl[q].span = fl[q].span /\ refs1[q] = refs[q],
         FileOK(fl, refs, o, n, top)
  PROVE  FileOK(gl, refs1, o, n, top)
  <1>1. \A q \in Pages, i \in Nat : IsIx(fl, o, i, q) <=> IsIx(gl, o, i, q)
    BY DEF IsIx
  <1>2. SpansThere(gl, o, top)
    BY <1>1 DEF FileOK, SpansThere, IsIx
  <1>3. TopMost(gl, o, top)
    BY DEF FileOK, TopMost
  <1>4. DataEnds(gl, o, n)
    BY DEF FileOK, DataEnds
  <1>5. RefsOK(gl, refs1, o, n)
    <2>1. SUFFICES ASSUME NEW q \in Pages, NEW s \in Spans, IsIx(gl, o, IxSpan(s), q)
                   PROVE  RefOK(gl, o, n, s, refs1[q][IxEntry(s)])
      BY DEF RefsOK
    <2>2. IsIx(fl, o, IxSpan(s), q) /\ refs1[q] = refs[q]
      BY <2>1 DEF IsIx
    <2>3. RefOK(fl, o, n, s, refs[q][IxEntry(s)])
      BY <2>2 DEF FileOK, RefsOK
    <2> QED BY <2>2, <2>3 DEF RefOK, IsData
  <1> QED BY <1>2, <1>3, <1>4, <1>5 DEF FileOK

\* What a step leaves alone of file o: its data, but that of span s; its index pages and
\* what they refer to, but that of index span i.
DataSame(fl, gl, o) ==
    \A p \in Pages : fl[p].lu = DataId(o) \/ gl[p].lu = DataId(o) => gl[p] = fl[p]
DataSameBut(fl, gl, o, s) ==
    \A p \in Pages :
        (fl[p].lu = DataId(o) /\ fl[p].span # s) \/ (gl[p].lu = DataId(o) /\ gl[p].span # s)
          => gl[p] = fl[p]
IxSame(fl, gl, o) ==
    \A q \in Pages : fl[q].lu = IxId(o) \/ gl[q].lu = IxId(o) =>
        gl[q].lu = fl[q].lu /\ gl[q].span = fl[q].span
IxSameBut(fl, gl, refs, refs1, o, i) ==
    \A q \in Pages :
        (fl[q].lu = IxId(o) /\ fl[q].span # i) \/ (gl[q].lu = IxId(o) /\ gl[q].span # i) =>
            gl[q].lu = fl[q].lu /\ gl[q].span = fl[q].span /\ refs1[q] = refs[q]
SpansTyped(fl, o) == \A q \in Pages : fl[q].lu \in {DataId(o), IxId(o)} => fl[q].span \in Nat
\* The page of index span i, when there is one up to span top.
SpanHeld(fl, gl, refs1, o, n, i, top) ==
    /\ \A q \in Pages : IsIx(gl, o, i, q) =>
          i <= top /\ \A s \in Spans : IxSpan(s) = i => RefOK(fl, o, n, s, refs1[q][IxEntry(s)])
    /\ i <= top => \E q \in Pages : IsIx(gl, o, i, q)
TopMoves(i, top, top1) == \A m \in Nat : m # i => (m <= top <=> m <= top1)

\* The page of index span i: it moved, it is new, or it is gone.
LEMMA FileSpan ==
  ASSUME NEW fl, NEW gl, NEW refs, NEW refs1, NEW o \in Objs, NEW n, NEW top \in Nat,
         NEW top1 \in Int, NEW i \in Nat,
         DataSame(fl, gl, o), IxSameBut(fl, gl, refs, refs1, o, i), SpansTyped(fl, o),
         SpanHeld(fl, gl, refs1, o, n, i, top1), TopMoves(i, top, top1),
         FileOK(fl, refs, o, n, top)
  PROVE  FileOK(gl, refs1, o, n, top1)
  <1> USE DEF DataSame, IxSameBut, SpansTyped, SpanHeld, TopMoves
  <1>1. SpansThere(gl, o, top1)
    <2>1. SUFFICES ASSUME NEW m \in 0 .. top1 PROVE \E q \in Pages : IsIx(gl, o, m, q)
      BY DEF SpansThere
    <2>2. CASE m = i
      BY <2>1, <2>2
    <2>3. CASE m # i
      <3>1. m \in 0 .. top
        BY <2>1, <2>3
      <3>2. PICK q \in Pages : IsIx(fl, o, m, q)
        BY <3>1 DEF FileOK, SpansThere
      <3>3. IsIx(gl, o, m, q)
        BY <2>3, <3>2 DEF IsIx
      <3> QED BY <3>3
    <2> QED BY <2>2, <2>3
  <1>2. TopMost(gl, o, top1)
    <2>1. SUFFICES ASSUME NEW q \in Pages, gl[q].lu = IxId(o) PROVE gl[q].span <= top1
      BY DEF TopMost
    <2>2. CASE gl[q].span = i
      BY <2>1, <2>2 DEF IsIx
    <2>3. CASE gl[q].span # i
      <3>1. gl[q].span = fl[q].span /\ fl[q].lu = IxId(o)
        BY <2>1, <2>3
      <3>2. fl[q].span \in Nat /\ fl[q].span <= top
        BY <3>1 DEF FileOK, TopMost
      <3> QED BY <2>3, <3>1, <3>2
    <2> QED BY <2>2, <2>3
  <1>3. DataEnds(gl, o, n)
    BY DEF FileOK, DataEnds
  <1>4. RefsOK(gl, refs1, o, n)
    <2>1. SUFFICES ASSUME NEW q \in Pages, NEW s \in Spans, IsIx(gl, o, IxSpan(s), q)
                   PROVE  RefOK(gl, o, n, s, refs1[q][IxEntry(s)])
      BY DEF RefsOK
    <2>2. RefOK(fl, o, n, s, refs1[q][IxEntry(s)])
      <3>1. CASE IxSpan(s) = i
        BY <2>1, <3>1
      <3>2. CASE IxSpan(s) # i
        <4>1. IsIx(fl, o, IxSpan(s), q) /\ refs1[q] = refs[q]
          BY <2>1, <3>2 DEF IsIx
        <4> QED BY <4>1 DEF FileOK, RefsOK
      <3> QED BY <3>1, <3>2
    <2> QED BY <2>2 DEF RefOK, IsData
  <1> QED BY <1>1, <1>2, <1>3, <1>4 DEF FileOK

\* The data of span s is in the page that entry v of index page q0 names, and ends where
\* the file of m units does; the other spans are what they were in the file of n units.
DataHeld(gl, o, s, m) ==
    \A p \in Pages : IsData(gl, o, s, p) =>
        s <= PageSpan(m) /\ \A c \in 0 .. (U - 1) : s * U + c >= m => gl[p].cells[c] = Blank
EntryHolds(fl, refs, refs1, o, s, q0, v) ==
    /\ refs[q0] \in [Cells -> Values] /\ refs1[q0] = [refs[q0] EXCEPT ![IxEntry(s)] = v]
    /\ \A q \in Pages : fl[q].lu = IxId(o) /\ q # q0 => refs1[q] = refs[q]
UnitsMove(n, m, s) ==
    /\ \A t \in Nat : t # s => (t <= PageSpan(n) <=> t <= PageSpan(m))
    /\ \A t \in Nat, c \in 0 .. (U - 1) :
          t # s /\ t <= PageSpan(n) /\ t * U + c >= m => t * U + c >= n

\* The data of span s: it moved, it is new, it became more, or it is gone; the file
\* has m units then.
LEMMA FileNote ==
  ASSUME NEW fl, NEW gl, NEW refs, NEW refs1, NEW o \in Objs, NEW n \in Nat, NEW m \in Nat,
         NEW top, NEW s \in Spans, NEW q0 \in Pages, NEW v,
         IxSame(fl, gl, o), DataSameBut(fl, gl, o, s), DataHeld(gl, o, s, m),
         IsIx(fl, o, IxSpan(s), q0), NoTwins(fl), EntryHolds(fl, refs, refs1, o, s, q0, v),
         RefOK(gl, o, m, s, v), UnitsMove(n, m, s), SpansTyped(fl, o),
         FileOK(fl, refs, o, n, top)
  PROVE  FileOK(gl, refs1, o, m, top)
  <1> USE DEF IxSame, DataSameBut, DataHeld, EntryHolds, UnitsMove, SpansTyped
  <1>1. SpansThere(gl, o, top)
    BY DEF FileOK, SpansThere, IsIx
  <1>2. TopMost(gl, o, top)
    BY DEF FileOK, TopMost
  <1>3. DataEnds(gl, o, m)
    <2>1. SUFFICES ASSUME NEW p \in Pages, gl[p].lu = DataId(o)
                   PROVE  /\ gl[p].span <= PageSpan(m)
                          /\ \A c \in 0 .. (U - 1) :
                                 gl[p].span * U + c >= m => gl[p].cells[c] = Blank
      BY DEF DataEnds
    <2>2. CASE gl[p].span = s
      <3>1. IsData(gl, o, s, p)
        BY <2>1, <2>2 DEF IsData
      <3> QED BY <2>2, <3>1
    <2>3. CASE gl[p].span # s
      <3>1. gl[p] = fl[p]
        BY <2>1, <2>3
      <3>2. /\ fl[p].span <= PageSpan(n) /\ fl[p].span \in Nat
            /\ \A c \in 0 .. (U - 1) : fl[p].span * U + c >= n => fl[p].cells[c] = Blank
        BY <2>1, <3>1 DEF FileOK, DataEnds
      <3> DEFINE t == fl[p].span
      <3>3. t \in Nat /\ t # s /\ t <= PageSpan(n) /\ gl[p].span = t
        BY <2>3, <3>1, <3>2
      <3>4. \A c \in 0 .. (U - 1) : t * U + c >= n => gl[p].cells[c] = Blank
        BY <3>1, <3>2
      <3> HIDE DEF t
      <3>5. \A c \in 0 .. (U - 1) : t * U + c >= m => gl[p].cells[c] = Blank
        BY <3>3, <3>4
      <3>6. t <= PageSpan(m)
        BY <3>3
      <3> QED BY <3>3, <3>5, <3>6
    <2> QED BY <2>2, <2>3
  <1>4. RefsOK(gl, refs1, o, m)
    <2>1. SUFFICES ASSUME NEW q \in Pages, NEW t \in Spans, IsIx(gl, o, IxSpan(t), q)
                   PROVE  RefOK(gl, o, m, t, refs1[q][IxEntry(t)])
      BY DEF RefsOK
    <2>2. IsIx(fl, o, IxSpan(t), q)
      BY <2>1 DEF IsIx
    <2>3. s \in Nat /\ t \in Nat /\ IxEntry(s) \in Cells /\ IxEntry(t) \in Cells
      BY SpansAre
    <2>4. CASE t = s
      <3>1. q = q0
        BY <2>2, <2>4, IdsDistinct DEF NoTwins, IsIx
      <3>2. refs1[q][IxEntry(t)] = v
        BY <2>3, <2>4, <3>1
      <3> QED BY <2>4, <3>2
    <2>5. CASE t # s
      <3>1. refs1[q][IxEntry(t)] = refs[q][IxEntry(t)]
        <4>1. CASE q # q0
          BY <2>2, <4>1 DEF IsIx
        <4>2. CASE q = q0
          <5>1. IxSpan(t) = IxSpan(s)
            BY <2>2, <4>2 DEF IsIx
          <5>2. IxEntry(t) # IxEntry(s)
            BY <2>3, <2>5, <5>1, EntryUnique
          <5> QED BY <2>3, <4>2, <5>2
        <4> QED BY <4>1, <4>2
      <3> DEFINE d == refs[q][IxEntry(t)]
      <3>2. RefOK(fl, o, n, t, d)
        BY <2>2 DEF FileOK, RefsOK
      <3> HIDE DEF d
      <3>3. t <= PageSpan(n) <=> t <= PageSpan(m)
        BY <2>3, <2>5
      <3>4. d \in Pages /\ IsData(fl, o, t, d) => IsData(gl, o, t, d)
        BY <2>5 DEF IsData
      <3>5. RefOK(gl, o, m, t, d)
        BY <3>2, <3>3, <3>4 DEF RefOK
      <3> QED BY <3>1, <3>5 DEF d
    <2> QED BY <2>4, <2>5
  <1> QED BY <1>1, <1>2, <1>3, <1>4 DEF FileOK

LEMMA TextSame ==
  ASSUME NEW fl, NEW gl, NEW o \in Objs, NEW n, NEW text, NEW from, NEW to,
         DataSame(fl, gl, o), TextOK(fl, o, n, text, from, to)
  PROVE  TextOK(gl, o, n, text, from, to)
  BY DEF TextOK, DataSame

-----------------------------------------------------------------------------
(* The other files *)

\* What a call does to the pages of its file leaves those of another alone.
SamePages(fl, gl, x) ==
    \A p \in Pages : fl[p].lu \in ObjIds(x) \/ gl[p].lu \in ObjIds(x) => gl[p] = fl[p]
\* The call is about file o.
About(j, o) == j.op \in Writers \cup {"return", "gc move"} /\ j.o = o

LEMMA AboutNot ==
  ASSUME NEW j, NEW o, ~About(j, o)
  PROVE  /\ ~Calling(j, o) /\ ~Returned(j, o) /\ ~Resizing(j, o)
         /\ Loaded(j) => j.o # o
  BY DEF About, Calling, Returned, Resizing, Resizers, Writers, Loaded

LEMMA OtherView ==
  ASSUME NEW fl, NEW j, NEW x \in Objs, ~About(j, x), LoadedOK(fl, j), NEW q \in Pages,
         fl[q].lu = IxId(x), Loaded(j) => j.o \in Objs
  PROVE  View(fl, j)[q] = fl[q].cells
  <1>1. Loaded(j) => q # j.ixp
    BY AboutNot, IdsDistinct DEF LoadedOK, IsIx
  <1> QED BY <1>1 DEF View

LEMMA LoadedObj ==
  ASSUME NEW j, JobShape(j), Loaded(j)
  PROVE  j.o \in Objs /\ j.ixp \in Pages /\ j.cells \in [Cells -> Values] /\ j.ix \in Nat
  <1>1. j.op \in Writers \/ j.op = "gc move"
    BY DEF Loaded
  <1>2. CASE j.op \in Writers
    BY <1>2, JobKinds, CallParts DEF Loaded
  <1>3. CASE j.op = "gc move"
    BY <1>3, JobKinds, MoveParts
  <1> QED BY <1>1, <1>2, <1>3

LEMMA OtherFile ==
  ASSUME NEW fl, NEW gl, NEW j, NEW k, NEW v, NEW w, NEW x \in Objs,
         JobShape(j), JobShape(k), ~About(j, x), ~About(k, x),
         LoadedOK(fl, j), LoadedOK(gl, k), SamePages(fl, gl, x), v[x] = w[x],
         ThereOK(fl, j, w, x) \/ GoneOK(fl, j, w, x)
  PROVE  ThereOK(gl, k, v, x) \/ GoneOK(gl, k, v, x)
  <1>1. CASE ThereOK(fl, j, w, x)
    <2>1. PICK h \in Pages :
             LET n == UnitsOf(fl, j, h, x)
             IN  /\ IsIx(fl, x, 0, h) /\ n \in 0 .. MaxSize
                 /\ FileOK(fl, View(fl, j), x, n, TopOf(j, x, n)) /\ HoldsText(fl, j, w, x, n)
      BY <1>1 DEF ThereOK
    <2> DEFINE n == UnitsOf(fl, j, h, x)
    <2>2. IsIx(gl, x, 0, h) /\ gl[h] = fl[h]
      BY <2>1 DEF SamePages, ObjIds, IsIx
    <2>3. UnitsOf(gl, k, h, x) = n
      BY <2>2, AboutNot DEF UnitsOf
    <2>4. TopOf(k, x, n) = TopOf(j, x, n)
      <3> HIDE DEF n
      <3> QED BY AboutNot DEF TopOf
    <2> DEFINE top == TopOf(j, x, n)
    <2>5. FileOK(fl, View(fl, j), x, n, top) /\ HoldsText(fl, j, w, x, n) /\ n \in 0 .. MaxSize
      BY <2>1
    <2> HIDE DEF n, top
    <2>6. \A p \in Pages : fl[p].lu = DataId(x) \/ gl[p].lu = DataId(x) => gl[p] = fl[p]
      BY DEF SamePages, ObjIds
    <2>7. \A q \in Pages : fl[q].lu = IxId(x) \/ gl[q].lu = IxId(x) =>
            gl[q].lu = fl[q].lu /\ gl[q].span = fl[q].span /\ View(gl, k)[q] = View(fl, j)[q]
      <3>1. SUFFICES ASSUME NEW q \in Pages, fl[q].lu = IxId(x) \/ gl[q].lu = IxId(x)
                     PROVE  gl[q].lu = fl[q].lu /\ gl[q].span = fl[q].span
                            /\ View(gl, k)[q] = View(fl, j)[q]
        OBVIOUS
      <3>2. gl[q] = fl[q] /\ fl[q].lu = IxId(x) /\ gl[q].lu = IxId(x)
        BY <3>1 DEF SamePages, ObjIds
      <3>3. View(fl, j)[q] = fl[q].cells /\ View(gl, k)[q] = gl[q].cells
        BY <3>2, OtherView, LoadedObj
      <3> QED BY <3>2, <3>3
    <2>8. FileOK(gl, View(gl, k), x, n, top)
      BY <2>5, <2>6, <2>7, FileSame, ZenonT(60)
    <2>9. HoldsText(gl, k, v, x, n)
      <3>1. \E text \in w[x] : /\ w[x] = {text} /\ text \in Seq(Values) /\ Len(text) = n
                               /\ TextOK(fl, x, n, text, n, n)
        BY <2>5, AboutNot DEF HoldsText
      <3>2. PICK text \in w[x] : /\ w[x] = {text} /\ text \in Seq(Values) /\ Len(text) = n
                                 /\ TextOK(fl, x, n, text, n, n)
        BY <3>1
      <3>3. TextOK(gl, x, n, text, n, n)
        BY <2>6, <3>2, TextSame DEF DataSame
      <3>4. \E txt \in v[x] : /\ v[x] = {txt} /\ txt \in Seq(Values) /\ Len(txt) = n
                              /\ TextOK(gl, x, n, txt, n, n)
        BY <3>2, <3>3
      <3> QED BY <3>4, AboutNot DEF HoldsText
    <2>10. /\ IsIx(gl, x, 0, h) /\ UnitsOf(gl, k, h, x) \in 0 .. MaxSize
           /\ FileOK(gl, View(gl, k), x, UnitsOf(gl, k, h, x), TopOf(k, x, UnitsOf(gl, k, h, x)))
           /\ HoldsText(gl, k, v, x, UnitsOf(gl, k, h, x))
      BY <2>2, <2>3, <2>4, <2>5, <2>8, <2>9 DEF top
    <2> QED BY <2>10 DEF ThereOK
  <1>2. CASE GoneOK(fl, j, w, x)
    <2>1. NoPages(gl, x)
      BY <1>2 DEF GoneOK, NoPages, SamePages, ObjIds
    <2>2. w[x] = {Absent} /\ v[x] = {Absent}
      BY <1>2, AboutNot DEF GoneOK
    <2> QED BY <2>1, <2>2, AboutNot DEF GoneOK
  <1> QED BY <1>1, <1>2

\* A step that is about file o.
LEMMA FilesStep ==
  ASSUME NEW fl, NEW gl, NEW j, NEW k, NEW v, NEW w, NEW o \in Objs,
         JobShape(j), JobShape(k), LoadedOK(fl, j), LoadedOK(gl, k),
         \A x \in Objs : x # o => /\ ~About(j, x) /\ ~About(k, x) /\ SamePages(fl, gl, x)
                                  /\ v[x] = w[x],
         FilesOK(fl, j, w), ThereOK(gl, k, v, o) \/ GoneOK(gl, k, v, o)
  PROVE  FilesOK(gl, k, v)
  <1>1. SUFFICES ASSUME NEW x \in Objs, x # o
                 PROVE  ThereOK(gl, k, v, x) \/ GoneOK(gl, k, v, x)
    BY DEF FilesOK
  <1>2. ThereOK(fl, j, w, x) \/ GoneOK(fl, j, w, x)
    BY DEF FilesOK
  <1> QED BY <1>1, <1>2, OtherFile

\* The file there is, and what is to be shown of it after a step.
Whole(fl, j, w, o, h, n) ==
    /\ IsIx(fl, o, 0, h) /\ n = UnitsOf(fl, j, h, o) /\ n \in 0 .. MaxSize
    /\ FileOK(fl, View(fl, j), o, n, TopOf(j, o, n)) /\ HoldsText(fl, j, w, o, n)

LEMMA ThereWhole ==
  ASSUME NEW fl, NEW j, NEW w, NEW o
  PROVE  ThereOK(fl, j, w, o) <=> \E h \in Pages, n \in 0 .. MaxSize : Whole(fl, j, w, o, h, n)
  BY DEF ThereOK, Whole

-----------------------------------------------------------------------------
(* The pages of a step *)

\* A page that a step leaves alone is in order still, when the call that erases or
\* removes goes on doing so.
LEMMA PageKept ==
  ASSUME NEW fl, NEW gl, NEW j, NEW k, NEW p, gl[p] = fl[p], PageOK(fl, j, p),
         Erasing(j, p) => Erasing(k, p),
         \A o \in Objs : Marked(j, o, p) /\ fl[p].lu = IxId(o) => Marked(k, o, p)
  PROVE  PageOK(gl, k, p)
  BY DEF PageOK, IxPageOK

LEMMA DeadOK ==
  ASSUME NEW x \in PageType, Legible(x), NEW gl, NEW k, NEW p, gl[p] = Dead(x)
  PROVE  PageOK(gl, k, p)
  <1>1. /\ Dead(x).lu = Deleted /\ Dead(x).id = x.id /\ Dead(x).span = x.span
        /\ Dead(x).size = x.size /\ Dead(x).cells = x.cells
    BY DeadParts
  <1>2. Legible(gl[p])
    <2>1. Deleted # Garbled
      BY ValuesAssumption
    <2> QED BY <1>1, <2>1 DEF Legible
  <1>3. Deleted # Blank /\ \A o \in Objs : Deleted # DataId(o) /\ Deleted # IxId(o)
    BY IdsDistinct, ValuesAssumption
  <1> QED BY <1>1, <1>2, <1>3 DEF PageOK

\* A page with an id that is in order.
LEMMA DataOKPage ==
  ASSUME NEW gl, NEW k, NEW p, NEW o \in Objs, gl[p].lu = DataId(o), Legible(gl[p]),
         DataPageOK(gl[p])
  PROVE  PageOK(gl, k, p)
  BY IdsDistinct DEF PageOK

LEMMA IxOKPage ==
  ASSUME NEW gl, NEW k, NEW p, NEW o \in Objs, gl[p].lu = IxId(o), Legible(gl[p]),
         IxPageOK(gl[p], Marked(k, o, p))
  PROVE  PageOK(gl, k, p)
  <1>1. \A x \in Objs : gl[p].lu = IxId(x) => x = o
    BY IdsDistinct
  <1>2. gl[p].lu # Blank /\ \A x \in Objs : gl[p].lu # DataId(x)
    BY IdsDistinct
  <1> QED BY <1>1, <1>2 DEF PageOK

\* The page src moved to the free page dst, as image.
LEMMA Moved ==
  ASSUME NEW fl \in Flashes, NEW src \in Pages, NEW dst \in Pages, src # dst,
         NEW image \in PageType, NEW gl, gl = Put(Put(fl, dst, image), src, Dead(fl[src]))
  PROVE  /\ gl \in Flashes /\ gl[dst] = image /\ gl[src] = Dead(fl[src])
         /\ \A p \in Pages : p # src /\ p # dst => gl[p] = fl[p]
  <1>1. fl[src] \in PageType
    BY DEF Flashes
  <1>2. Dead(fl[src]) \in PageType
    BY <1>1, DeadParts
  <1> DEFINE hl == Put(fl, dst, image)
  <1>3. /\ hl \in Flashes /\ hl[dst] = image /\ \A p \in Pages : p # dst => hl[p] = fl[p]
    BY PutType
  <1> HIDE DEF hl
  <1>4. gl = Put(hl, src, Dead(fl[src]))
    BY DEF hl
  <1>5. /\ gl \in Flashes /\ gl[src] = Dead(fl[src])
        /\ \A p \in Pages : p # src => gl[p] = hl[p]
    <2> DEFINE x == Dead(fl[src])
    <2> HIDE DEF x
    <2>1. x \in PageType /\ gl = Put(hl, src, x)
      BY <1>2, <1>4 DEF x
    <2>2. /\ Put(hl, src, x) \in Flashes /\ Put(hl, src, x)[src] = x
          /\ \A p \in Pages : p # src => Put(hl, src, x)[p] = hl[p]
      BY <1>3, <2>1, PutType, ZenonT(60)
    <2>3. gl \in Flashes /\ gl[src] = x /\ \A p \in Pages : p # src => gl[p] = hl[p]
      BY <2>1, <2>2
    <2> QED BY <2>3 DEF x
  <1> QED BY <1>3, <1>5

\* Page dst is new, or changed; nothing, or page src, went.
MovedTo(fl, gl, src, dst) ==
    /\ src \in Pages /\ dst \in Pages /\ src # dst /\ gl[src] = Dead(fl[src])
    /\ \A p \in Pages : p # src /\ p # dst => gl[p] = fl[p]
Unmarked(j) == j.op # "erase" /\ \A o, p : ~Marked(j, o, p)

LEMMA MovedPages ==
  ASSUME NEW fl \in Flashes, NEW gl, NEW j, NEW k, NEW src, NEW dst, MovedTo(fl, gl, src, dst),
         PagesOK(fl, j), PageOK(gl, k, dst), Unmarked(j)
  PROVE  PagesOK(gl, k)
  <1> USE DEF MovedTo, Unmarked
  <1>1. SUFFICES ASSUME NEW p \in Pages PROVE PageOK(gl, k, p)
    BY DEF PagesOK
  <1>2. CASE p = src
    <2>1. fl[src] \in PageType /\ Legible(fl[src])
      BY DEF Flashes, PagesOK, PageOK
    <2> QED BY <1>2, <2>1, DeadOK
  <1>3. CASE p = dst
    BY <1>3
  <1>4. CASE p # src /\ p # dst
    <2>1. gl[p] = fl[p] /\ PageOK(fl, j, p) /\ ~Erasing(j, p)
      BY <1>4 DEF PagesOK, Erasing
    <2>2. \A o \in Objs : Marked(j, o, p) /\ fl[p].lu = IxId(o) => Marked(k, o, p)
      BY <1>4
    <2> QED BY <2>1, <2>2, PageKept
  <1> QED BY <1>2, <1>3, <1>4

LEMMA MovedTwins ==
  ASSUME NEW fl \in Flashes, NEW gl, NEW src, NEW dst, MovedTo(fl, gl, src, dst),
         gl[dst].lu = fl[src].lu, gl[dst].span = fl[src].span, NoTwins(fl)
  PROVE  NoTwins(gl)
  <1> USE DEF MovedTo
  <1>0. gl[src].lu = Deleted
    <2>1. fl[src] \in PageType
      BY DEF Flashes
    <2> QED BY <2>1, DeadParts
  <1>1. Deleted \notin Ids
    BY ValuesAssumption
  <1> DEFINE f(p) == IF p = dst THEN src ELSE p
  <1>2. \A p \in Pages : gl[p].lu \in Ids =>
           f(p) \in Pages /\ fl[f(p)].lu = gl[p].lu /\ fl[f(p)].span = gl[p].span /\ p # src
    BY <1>0, <1>1
  <1>3. SUFFICES ASSUME NEW p \in Pages, NEW q \in Pages, gl[p].lu \in Ids,
                        gl[q].lu = gl[p].lu, gl[q].span = gl[p].span
                 PROVE  p = q
    BY DEF NoTwins
  <1>4. f(p) = f(q)
    <2> HIDE DEF f
    <2> QED BY <1>2, <1>3 DEF NoTwins
  <1>5. p # src /\ q # src
    BY <1>2, <1>3
  <1> QED BY <1>4, <1>5

\* A new page, in a free one.
LEMMA AddedPages ==
  ASSUME NEW fl, NEW gl, NEW j, NEW k, NEW dst \in Pages,
         \A p \in Pages : p # dst => gl[p] = fl[p],
         PagesOK(fl, j), PageOK(gl, k, dst), j.op # "erase",
         \A o \in Objs, p \in Pages : p # dst /\ Marked(j, o, p) /\ fl[p].lu = IxId(o)
            => Marked(k, o, p)
  PROVE  PagesOK(gl, k)
  <1>1. SUFFICES ASSUME NEW p \in Pages, p # dst PROVE PageOK(gl, k, p)
    BY DEF PagesOK
  <1>2. gl[p] = fl[p] /\ PageOK(fl, j, p) /\ ~Erasing(j, p)
    BY <1>1 DEF PagesOK, Erasing
  <1>3. \A o \in Objs : Marked(j, o, p) /\ fl[p].lu = IxId(o) => Marked(k, o, p)
    BY <1>1
  <1> QED BY <1>2, <1>3, PageKept

LEMMA AddedTwins ==
  ASSUME NEW fl, NEW gl, NEW dst \in Pages, \A p \in Pages : p # dst => gl[p] = fl[p],
         \A p \in Pages : p # dst => ~(fl[p].lu = gl[dst].lu /\ fl[p].span = gl[dst].span),
         NoTwins(fl)
  PROVE  NoTwins(gl)
  <1>1. SUFFICES ASSUME NEW p \in Pages, NEW q \in Pages, gl[p].lu \in Ids,
                        gl[q].lu = gl[p].lu, gl[q].span = gl[p].span
                 PROVE  p = q
    BY DEF NoTwins
  <1>2. CASE p # dst /\ q # dst
    BY <1>1, <1>2 DEF NoTwins
  <1>3. CASE p = dst \/ q = dst
    BY <1>1, <1>3
  <1> QED BY <1>2, <1>3

\* A page that keeps its id and span, or loses its entry.
LEMMA ChangedTwins ==
  ASSUME NEW fl, NEW gl,
         \A p \in Pages : gl[p].lu \in Ids => gl[p].lu = fl[p].lu /\ gl[p].span = fl[p].span,
         NoTwins(fl)
  PROVE  NoTwins(gl)
  BY DEF NoTwins
=============================================================================
