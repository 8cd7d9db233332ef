---------------------- MODULE SpiffsEraseCountProofs ----------------------
(***************************************************************************)
(* SpiffsEraseCount, for every number of blocks and every width of the     *)
(* counter, when no mount falls on the wrap of the counter: the ages of    *)
(* blocks are in the order of their erases, and no block is neglected.     *)
(***************************************************************************)
EXTENDS SpiffsEraseCount, FiniteSetTheorems, WellFoundedInduction, TLAPS

-----------------------------------------------------------------------------
(* The inductive invariant *)

\* How many steps the counter has made since a count was given out.
Dist(b) == IF max > count[b] THEN max - count[b] ELSE Flag - (count[b] - max)

\* No more than there were erases; losses and mounts take some back.
DistBound == \A b \in Blocks : Counted(b) => Dist(b) <= since[b]

\* They are in the order of the erases.
DistOrder ==
    \A a, b \in Blocks : Counted(a) /\ Counted(b) =>
        /\ since[a] > since[b] => Dist(a) > Dist(b)
        /\ since[a] = since[b] => count[a] = count[b]

\* The counter is one step past the newest count.
Newest == (\E b \in Blocks : Counted(b)) => \E b \in Blocks : Counted(b) /\ Dist(b) = 1

\* The blocks that the bound erases before this one.
Older(b) == {c \in Blocks \ {b} : since[c] >= since[b]}

SinceBound == \A b \in Blocks : since[b] + Cardinality(Older(b)) <= MaxSince

\* A block is passed over no more than there were erases, or steps.
PassedBound ==
    \A b \in Blocks : passed[b] < since[b] /\ (Counted(b) => passed[b] < Dist(b))

G == MaxGain \div WAge

\* The blocks that pages can bring before this one, though it is older.
Rivals(b) == {c \in Blocks \ {b} : Counted(c) => Dist(b) - Dist(c) <= G}

\* Once a block is passed over G times, it has one rival less with each time more.
FewRivals ==
    \A b \in Blocks : Counted(b) =>
        \/ passed[b] <= G
        \/ passed[b] + Cardinality(Rivals(b)) <= G + B - 1

IInv ==
    /\ TypeOK /\ DistBound /\ DistOrder /\ Newest /\ SinceBound /\ PassedBound /\ FewRivals

-----------------------------------------------------------------------------
(* Arithmetic *)

LEMMA Constants ==
  /\ Flag \in Nat /\ B \in Nat /\ MaxSince \in Nat /\ WAge \in Nat /\ MaxGain \in Nat
  /\ B >= 1 /\ B < Flag /\ B <= MaxSince /\ MaxSince <= Flag /\ WAge >= 1
  /\ Free = 2 * Flag - 1
  BY CountAssumption, ScoreAssumption DEF Free

LEMMA Next1 ==
  ASSUME NEW m \in 0 .. Flag - 1
  PROVE  NextCount(m) = IF m = Flag - 1 THEN 0 ELSE m + 1
  <1> DEFINE w == 2 * Flag
  <1>1. m + 1 \in Nat /\ w \in Nat /\ m + 1 < w /\ m + 1 <= Flag
    BY Constants
  <1>2. (m + 1) % w = m + 1
    <2> HIDE DEF w
    <2> QED BY <1>1
  <1> QED BY <1>1, <1>2, Constants DEF NextCount

\* G steps of age are worth the pages, one more is worth more than them.
LEMMA GainBound ==
  /\ G \in Nat
  /\ \A n \in Nat : n > G => WAge * n > MaxGain
  <1>1. WAge \in Nat /\ MaxGain \in Nat /\ WAge > 0
    BY Constants
  <1>2. G \in Nat
    BY <1>1 DEF G
  <1>3. WAge * (G + 1) > MaxGain
    BY <1>1, <1>2 DEF G
  <1>4. ASSUME NEW n \in Nat, n > G PROVE WAge * n > MaxGain
    <2>1. n - (G + 1) \in Nat
      BY <1>2, <1>4
    <2>2. WAge * n = WAge * (G + 1) + WAge * (n - (G + 1))
      BY <1>1, <1>2
    <2>3. WAge * (n - (G + 1)) >= 0
      BY <1>1, <2>1
    <2> HIDE DEF G
    <2>4. WAge * (G + 1) \in Int /\ WAge * (n - (G + 1)) \in Int
      BY <1>1, <1>2, <2>1
    <2> QED BY <1>1, <1>3, <2>2, <2>3, <2>4
  <1> QED BY <1>2, <1>4

LEMMA Least ==
  ASSUME NEW T \in SUBSET Nat, T # {}
  PROVE  \E x \in T : \A y \in T : x <= y
  <1>1. PICK x \in T : \A y \in T : <<y, x>> \notin OpToRel(<, Nat)
    BY NatLessThanWellFounded, WFMin
  <1>2. \A y \in T : ~ (y < x)
    BY <1>1 DEF OpToRel
  <1> QED BY <1>2

LEMMA BlocksFinite == IsFiniteSet(Blocks) /\ Cardinality(Blocks) = B
  <1>1. 0 \in Int /\ B - 1 \in Int /\ ~ (0 > B - 1)
    BY Constants
  <1> QED BY <1>1, FS_Interval, Constants DEF Blocks

LEMMA BlockCount ==
  ASSUME NEW S \in SUBSET Blocks
  PROVE  IsFiniteSet(S) /\ Cardinality(S) \in Nat
  BY BlocksFinite, FS_Subset, FS_CardinalityType

\* A set of blocks without one, and a subset that lacks one more.
LEMMA OneLess ==
  ASSUME NEW S \in SUBSET Blocks, NEW T \in SUBSET S, NEW a \in S, a \notin T
  PROVE  Cardinality(T) <= Cardinality(S) - 1
  <1>1. IsFiniteSet(S) /\ Cardinality(S) \in Nat
    BY BlockCount
  <1>2. IsFiniteSet(S \ {a}) /\ Cardinality(S \ {a}) = Cardinality(S) - 1
    BY <1>1, FS_RemoveElement
  <1>3. T \subseteq S \ {a}
    OBVIOUS
  <1> QED BY <1>2, <1>3, FS_Subset

LEMMA NoMore ==
  ASSUME NEW S \in SUBSET Blocks, NEW T \in SUBSET S
  PROVE  Cardinality(T) <= Cardinality(S)
  BY BlockCount, FS_Subset

-----------------------------------------------------------------------------
(* Ages and distances *)

LEMMA DistType ==
  ASSUME TypeOK, NEW b \in Blocks, Counted(b)
  PROVE  /\ Dist(b) \in 1 .. Flag
         /\ count[b] \in 0 .. Flag - 1
         /\ Age(b) = IF max > count[b] THEN Dist(b) ELSE Dist(b) + Flag - 1
  <1>1. count[b] \in 0 .. Flag - 1 /\ max \in 0 .. Flag - 1
    BY DEF TypeOK, Counted
  <1> QED BY <1>1, Constants DEF Dist, Age

LEMMA AgeByDist ==
  ASSUME TypeOK, NEW a \in Blocks, NEW b \in Blocks, Counted(a), Counted(b), Dist(a) > Dist(b)
  PROVE  Age(a) \in Nat /\ Age(b) \in Nat /\ Age(a) - Age(b) >= Dist(a) - Dist(b)
  <1>1. max \in 0 .. Flag - 1 /\ count[a] \in 0 .. Flag - 1 /\ count[b] \in 0 .. Flag - 1
    BY DistType DEF TypeOK
  <1> QED BY <1>1, Constants DEF Dist, Age

LEMMA AgesFollow ==
  ASSUME IInv
  PROVE  AgesOrdered
  BY DistType, AgeByDist, Constants DEF IInv, AgesOrdered, DistOrder

-----------------------------------------------------------------------------
(* The initial state, and an erase *)

LEMMA InitInv ==
  ASSUME Init
  PROVE  IInv
  <1>1. TypeOK
    BY Constants, LossAssumption DEF Init, TypeOK
  <1>2. \A b \in Blocks : Counted(b) /\ Dist(b) = 1 /\ since[b] = 1 /\ passed[b] = 0 /\ count[b] = 0
    BY Constants DEF Init, Counted, Dist
  <1>3. SinceBound
    <2> SUFFICES ASSUME NEW b \in Blocks PROVE since[b] + Cardinality(Older(b)) <= MaxSince
      BY DEF SinceBound
    <2>1. Older(b) \in SUBSET Blocks /\ b \notin Older(b)
      BY DEF Older
    <2>2. Cardinality(Older(b)) <= Cardinality(Blocks) - 1 /\ Cardinality(Older(b)) \in Nat
      BY <2>1, OneLess, BlockCount
    <2> QED BY <1>2, <2>2, BlocksFinite, Constants
  <1>4. 0 \in Blocks
    BY Constants DEF Blocks
  <1>5. DistBound /\ DistOrder /\ Newest /\ PassedBound
    BY <1>2, <1>4 DEF DistBound, DistOrder, Newest, PassedBound
  <1>6. FewRivals
    BY <1>2, GainBound DEF FewRivals
  <1> QED BY <1>1, <1>3, <1>5, <1>6 DEF IInv

\* The bound on since holds because it is always one of the oldest blocks that is erased in time.
LEMMA EraseSince ==
  ASSUME IInv, NEW e \in Blocks, Erase(e)
  PROVE  /\ since' \in [Blocks -> 1 .. MaxSince]
         /\ since'[e] = 1
         /\ \A b \in Blocks : b # e => since'[b] = since[b] + 1
         /\ SinceBound'
  <1>1. since \in [Blocks -> 1 .. MaxSince]
    BY DEF IInv, TypeOK
  <1>2. since' = [c \in Blocks |-> IF c = e THEN 1 ELSE since[c] + 1]
    BY DEF Erase
  <1>3. \A b \in Blocks : Older(b) \in SUBSET Blocks /\ Older(b)' \in SUBSET Blocks
    BY DEF Older
  <1>4. \A b \in Blocks : Cardinality(Older(b)) \in Nat /\ Cardinality(Older(b)') \in Nat
    BY <1>3, BlockCount
  <1>5. ASSUME NEW b \in Blocks, b = e PROVE since'[b] + Cardinality(Older(b)') <= MaxSince
    <2>1. since'[b] = 1
      BY <1>2, <1>5
    <2>2. b \notin Older(b)'
      BY DEF Older
    <2>3. Cardinality(Older(b)') <= B - 1
      BY <1>3, <2>2, OneLess, BlocksFinite
    <2> QED BY <1>4, <2>1, <2>3, Constants
  <1>6. ASSUME NEW b \in Blocks, b # e PROVE since'[b] + Cardinality(Older(b)') <= MaxSince
    <2>1. since'[b] = since[b] + 1
      BY <1>2, <1>6
    <2>2. Older(b)' \subseteq Older(b)
      <3> SUFFICES ASSUME NEW c \in Blocks, c # b, since'[c] >= since'[b] PROVE since[c] >= since[b]
        BY DEF Older
      <3> QED BY <1>1, <1>2, <2>1
    <2>3. e \notin Older(b)'
      BY <1>1, <1>2, <2>1 DEF Older
    <2>4. CASE \A c \in Blocks : since[c] < MaxSince - B
      <3>1. b \notin Older(b)'
        BY DEF Older
      <3>2. Cardinality(Older(b)') <= B - 1
        BY <1>3, <3>1, OneLess, BlocksFinite
      <3> QED BY <1>1, <1>4, <2>1, <2>4, <3>2, Constants
    <2>5. CASE \A c \in Blocks : since[c] <= since[e]
      <3>1. e \in Older(b)
        BY <1>1, <1>6, <2>5 DEF Older
      <3>2. Cardinality(Older(b)') <= Cardinality(Older(b)) - 1
        BY <1>3, <2>2, <2>3, <3>1, OneLess
      <3>3. since[b] + Cardinality(Older(b)) <= MaxSince
        BY DEF IInv, SinceBound
      <3> QED BY <1>1, <1>4, <2>1, <3>2, <3>3, Constants
    <2> QED BY <2>4, <2>5 DEF Erase, InBound
  <1>7. SinceBound'
    BY <1>5, <1>6 DEF SinceBound
  <1>8. ASSUME NEW b \in Blocks PROVE since'[b] \in 1 .. MaxSince
    <2>1. since'[b] \in Nat /\ since'[b] >= 1
      BY <1>1, <1>2, Constants
    <2>2. since'[b] <= MaxSince
      BY <1>4, <1>5, <1>6, <2>1, Constants
    <2> QED BY <2>1, <2>2, Constants
  <1> QED BY <1>2, <1>7, <1>8

\* An erase takes every distance one up, and that of its block to one.
LEMMA EraseDist ==
  ASSUME IInv, NEW e \in Blocks, Erase(e)
  PROVE  /\ max' \in 0 .. Flag - 1
         /\ count' \in [Blocks -> (0 .. Flag - 1) \cup {Free}]
         /\ Counted(e)' /\ Dist(e)' = 1
         /\ \A b \in Blocks : b # e =>
                /\ count'[b] = count[b]
                /\ Counted(b)' <=> Counted(b)
                /\ Counted(b) => Dist(b)' = Dist(b) + 1
  <1>1. max \in 0 .. Flag - 1 /\ count \in [Blocks -> (0 .. Flag - 1) \cup {Free}]
    BY DEF IInv, TypeOK
  <1>2. max' = IF max = Flag - 1 THEN 0 ELSE max + 1
    BY <1>1, Next1 DEF Erase
  <1>3. count' = [count EXCEPT ![e] = max]
    BY DEF Erase
  <1>4. max' \in 0 .. Flag - 1 /\ count' \in [Blocks -> (0 .. Flag - 1) \cup {Free}]
    BY <1>1, <1>2, <1>3, Constants
  <1>5. Counted(e)' /\ Dist(e)' = 1
    BY <1>1, <1>2, <1>3, Constants DEF Counted, Dist
  <1>6. ASSUME NEW b \in Blocks, b # e
        PROVE  count'[b] = count[b] /\ (Counted(b)' <=> Counted(b))
    BY <1>1, <1>3, <1>6 DEF Counted
  <1>7. ASSUME NEW b \in Blocks, b # e, Counted(b)
        PROVE  Dist(b)' = Dist(b) + 1
    <2>1. count[b] \in 0 .. Flag - 1 /\ count'[b] = count[b]
      BY <1>6, <1>7, DistType DEF IInv
    <2>2. since'[b] = since[b] + 1 /\ since'[b] \in 1 .. MaxSince /\ since[b] \in Nat
      BY <1>7, EraseSince DEF IInv, TypeOK
    <2>3. Dist(b) <= since[b]
      BY <1>7 DEF IInv, DistBound
    <2>4. Dist(b) \in 1 .. Flag /\ Dist(b) + 1 <= Flag
      BY <1>7, <2>2, <2>3, DistType, Constants DEF IInv
    <2> QED BY <1>1, <1>2, <2>1, <2>4, Constants DEF Dist
  <1> QED BY <1>4, <1>5, <1>6, <1>7

LEMMA EraseOrder ==
  ASSUME IInv, NEW e \in Blocks, Erase(e)
  PROVE  DistBound' /\ DistOrder' /\ Newest'
  <1> DEFINE Up(b) == /\ count'[b] = count[b]
                      /\ Counted(b)' <=> Counted(b)
                      /\ Counted(b) => Dist(b)' = Dist(b) + 1
  <1>1. Counted(e)' /\ Dist(e)' = 1 /\ \A b \in Blocks : b # e => Up(b)
    BY EraseDist
  <1>2. since'[e] = 1 /\ \A b \in Blocks : b # e => since'[b] = since[b] + 1
    BY EraseSince
  <1>3. \A b \in Blocks : since[b] \in Nat /\ since[b] >= 1
    BY DEF IInv, TypeOK
  <1>4. \A b \in Blocks : Counted(b) => Dist(b) \in Nat /\ Dist(b) >= 1
    BY DistType, Constants DEF IInv
  <1>5. DistBound'
    BY <1>1, <1>2, <1>3, <1>4 DEF IInv, DistBound
  <1>6. DistOrder'
    <2> SUFFICES ASSUME NEW a \in Blocks, NEW b \in Blocks, Counted(a)', Counted(b)'
                 PROVE  /\ since'[a] > since'[b] => Dist(a)' > Dist(b)'
                        /\ since'[a] = since'[b] => count'[a] = count'[b]
      BY DEF DistOrder
    <2>1. CASE a = e /\ b = e
      BY <1>2, <2>1
    <2>2. CASE a = e /\ b # e
      BY <1>2, <1>3, <2>2
    <2>3. CASE a # e /\ b = e
      BY <1>1, <1>2, <1>3, <1>4, <2>3
    <2>4. CASE a # e /\ b # e
      <3>1. Counted(a) /\ Counted(b)
        BY <1>1, <2>4
      <3>2. /\ since[a] > since[b] => Dist(a) > Dist(b)
            /\ since[a] = since[b] => count[a] = count[b]
        BY <3>1 DEF IInv, DistOrder
      <3> QED BY <1>1, <1>2, <1>3, <1>4, <2>4, <3>1, <3>2
    <2> QED BY <2>1, <2>2, <2>3, <2>4
  <1>7. Newest'
    BY <1>1 DEF Newest
  <1> QED BY <1>5, <1>6, <1>7

-----------------------------------------------------------------------------
(* The choice by score *)

Score(gain, b) == gain[b] + WAge * Age(b)

LEMMA ScoreType ==
  ASSUME TypeOK, NEW gain \in [Blocks -> 0 .. MaxGain], NEW b \in Blocks
  PROVE  /\ gain[b] \in 0 .. MaxGain /\ Age(b) \in Nat
         /\ WAge * Age(b) \in Nat /\ Score(gain, b) \in Nat
         /\ Score(gain, b) <= MaxGain + WAge * (2 * Flag)
  <1>1. Age(b) \in Nat /\ Age(b) <= 2 * Flag
    BY Constants DEF TypeOK, Age
  <1>2. gain[b] \in 0 .. MaxGain
    OBVIOUS
  <1> DEFINE age == Age(b)
             left == 2 * Flag - Age(b)
  <1>3. left \in Nat /\ age \in Nat /\ 2 * Flag = age + left
    BY <1>1, Constants
  <1> HIDE DEF age, left
  <1>4. WAge * (age + left) = WAge * age + WAge * left /\ WAge * left \in Nat /\ WAge * age \in Nat
    BY <1>3, Constants
  <1>5. WAge * (2 * Flag) = WAge * age + WAge * left
    BY <1>3, <1>4
  <1>6. WAge * age <= WAge * (2 * Flag)
    BY <1>4, <1>5
  <1>7. gain[b] + WAge * age \in Nat /\ gain[b] + WAge * age <= MaxGain + WAge * (2 * Flag)
    <2>1. WAge * (2 * Flag) \in Nat
      BY <1>4, <1>5
    <2> QED BY <1>2, <1>4, <1>6, <2>1, Constants
  <1> QED BY <1>1, <1>2, <1>4, <1>7 DEF Score, age

LEMMA CandidateIsBest ==
  ASSUME TypeOK, NEW gain \in [Blocks -> 0 .. MaxGain]
  PROVE  /\ Candidate(gain) \in Blocks
         /\ \A c \in Blocks : Score(gain, Candidate(gain)) >= Score(gain, c)
  <1> DEFINE top == MaxGain + WAge * (2 * Flag)
             T == {top - Score(gain, b) : b \in Blocks}
  <1>1. \A b \in Blocks : Score(gain, b) \in Nat /\ Score(gain, b) <= top
    BY ScoreType
  <1>2. top \in Nat
    BY Constants
  <1> HIDE DEF top
  <1>3. T \in SUBSET Nat
    BY <1>1, <1>2
  <1>4. 0 \in Blocks /\ T # {}
    BY Constants DEF Blocks
  <1>5. PICK least \in T : \A y \in T : least <= y
    BY <1>3, <1>4, Least
  <1> DEFINE F == {b \in Blocks : top - Score(gain, b) = least}
  <1>6. F \in SUBSET Nat /\ F # {}
    BY <1>5, Constants DEF Blocks
  <1>7. PICK b \in F : \A c \in F : b <= c
    BY <1>6, Least
  <1>8. \A c \in Blocks : Score(gain, b) >= Score(gain, c) /\ (c < b => Score(gain, b) > Score(gain, c))
    <2> TAKE c \in Blocks
    <2>1. top - Score(gain, b) <= top - Score(gain, c) /\ b \in Blocks
      BY <1>5, <1>7
    <2>2. Score(gain, b) >= Score(gain, c)
      BY <1>1, <1>2, <2>1
    <2>3. ASSUME c < b PROVE Score(gain, b) # Score(gain, c)
      <3>1. c \notin F
        BY <1>6, <1>7, <2>3
      <3> QED BY <1>7, <3>1
    <2> QED BY <1>1, <2>1, <2>2, <2>3
  <1>9. \E x \in Blocks : \A c \in Blocks :
            Score(gain, x) >= Score(gain, c) /\ (c < x => Score(gain, x) > Score(gain, c))
    BY <1>7, <1>8
  <1>10. Candidate(gain) = CHOOSE x \in Blocks : \A c \in Blocks :
            Score(gain, x) >= Score(gain, c) /\ (c < x => Score(gain, x) > Score(gain, c))
    BY DEF Candidate, Score
  <1> HIDE DEF Candidate
  <1> QED BY <1>9, <1>10

\* The block that is chosen is a rival of every other with a count.
LEMMA ChosenRivals ==
  ASSUME TypeOK, NEW gain \in [Blocks -> 0 .. MaxGain], NEW b \in Blocks, Counted(b),
         Candidate(gain) # b
  PROVE  Candidate(gain) \in Rivals(b)
  <1> DEFINE a == Candidate(gain)
  <1>1. a \in Blocks /\ Score(gain, a) >= Score(gain, b)
    BY CandidateIsBest
  <1> HIDE DEF a
  <1>2. ASSUME Counted(a), Dist(b) - Dist(a) > G PROVE FALSE
    <2>1. Dist(a) \in Nat /\ Dist(b) \in Nat /\ G \in Nat
      BY <1>1, <1>2, DistType, GainBound, Constants
    <2>2. Age(b) \in Nat /\ Age(a) \in Nat /\ Age(b) - Age(a) >= Dist(b) - Dist(a)
      BY <1>1, <1>2, <2>1, AgeByDist
    <2> DEFINE n == Age(b) - Age(a)
    <2>3. n \in Nat /\ n > G /\ Age(b) = Age(a) + n
      BY <1>2, <2>1, <2>2
    <2> HIDE DEF n
    <2>4. WAge * n > MaxGain /\ WAge * n \in Nat
      BY <2>3, GainBound, Constants
    <2>5. WAge * Age(b) = WAge * Age(a) + WAge * n
      BY <2>2, <2>3, Constants
    <2>6. gain[a] \in 0 .. MaxGain /\ gain[b] \in 0 .. MaxGain /\ WAge * Age(a) \in Nat /\ WAge * Age(b) \in Nat
      BY <1>1, ScoreType
    <2> QED BY <1>1, <2>4, <2>5, <2>6, Constants DEF Score
  <1>3. a \in Rivals(b)
    <2>1. ASSUME Counted(a) PROVE Dist(b) - Dist(a) <= G
      <3>1. Dist(a) \in Nat /\ Dist(b) \in Nat /\ G \in Nat
        BY <1>1, <2>1, DistType, GainBound, Constants
      <3> QED BY <1>2, <2>1, <3>1
    <2> QED BY <1>1, <2>1 DEF Rivals, a
  <1> QED BY <1>3 DEF a

-----------------------------------------------------------------------------
(* How often a block is passed over *)

\* No block becomes a rival again, and one that is erased is none of those passed over G times.
LEMMA RivalsShrink ==
  ASSUME IInv, NEW e \in Blocks, Erase(e), NEW b \in Blocks, Counted(b), b # e
  PROVE  /\ Rivals(b)' \subseteq Rivals(b) \cup {e}
         /\ Dist(b) > G => e \notin Rivals(b)'
         /\ b \notin Rivals(b) /\ b \notin Rivals(b)'
         /\ Rivals(b) \in SUBSET Blocks /\ Rivals(b)' \in SUBSET Blocks
  <1>1. Counted(e)' /\ Dist(e)' = 1 /\ Dist(b)' = Dist(b) + 1
    BY EraseDist
  <1>2. Dist(b) \in Nat /\ G \in Nat /\ G' = G
    BY DistType, GainBound, Constants DEF IInv, G
  <1>3. ASSUME NEW c \in Rivals(b)', c # e PROVE c \in Rivals(b)
    <2>1. c \in Blocks /\ c # b /\ (Counted(c)' => Dist(b)' - Dist(c)' <= G)
      BY <1>2 DEF Rivals
    <2>2. Counted(c) => Counted(c)' /\ Dist(c)' = Dist(c) + 1 /\ Dist(c) \in Nat
      BY <1>3, <2>1, EraseDist, DistType, Constants DEF IInv
    <2> QED BY <1>1, <1>2, <2>1, <2>2 DEF Rivals
  <1>4. Dist(b) > G => e \notin Rivals(b)'
    BY <1>1, <1>2 DEF Rivals
  <1> QED BY <1>3, <1>4 DEF Rivals

\* What any erase needs of the history: the block erased has been passed over no
\* times now, a rival that was chosen makes the others passed over once more.
LEMMA EraseInv ==
  ASSUME IInv, NEW e \in Blocks, Erase(e),
         passed' \in [Blocks -> Nat], passed'[e] = 0,
         \A b \in Blocks : b # e =>
             \/ passed'[b] = passed[b]
             \/ passed'[b] = passed[b] + 1 /\ (Counted(b) => e \in Rivals(b))
  PROVE  IInv'
  <1>1. /\ since' \in [Blocks -> 1 .. MaxSince] /\ SinceBound'
        /\ since'[e] = 1 /\ \A b \in Blocks : b # e => since'[b] = since[b] + 1
    BY EraseSince
  <1>2. /\ max' \in 0 .. Flag - 1 /\ count' \in [Blocks -> (0 .. Flag - 1) \cup {Free}]
        /\ Dist(e)' = 1
        /\ \A b \in Blocks : b # e => /\ Counted(b)' <=> Counted(b)
                                      /\ Counted(b) => Dist(b)' = Dist(b) + 1
    BY EraseDist
  <1>3. DistBound' /\ DistOrder' /\ Newest'
    BY EraseOrder
  <1>4. /\ \A b \in Blocks : /\ passed[b] \in Nat /\ since[b] \in Nat /\ passed[b] < since[b]
                             /\ passed'[b] \in Nat
        /\ \A b \in Blocks : Counted(b) => Dist(b) \in Nat /\ passed[b] < Dist(b)
    BY DistType, Constants DEF IInv, TypeOK, PassedBound
  <1>5. PassedBound'
    <2> SUFFICES ASSUME NEW b \in Blocks
                 PROVE  passed'[b] < since'[b] /\ (Counted(b)' => passed'[b] < Dist(b)')
      BY DEF PassedBound
    <2>1. CASE b = e
      BY <1>1, <1>2, <2>1
    <2>2. CASE b # e
      BY <1>1, <1>2, <1>4, <2>2
    <2> QED BY <2>1, <2>2
  <1>6. TypeOK'
    <2>1. passed' \in [Blocks -> 0 .. MaxSince]
      <3> SUFFICES ASSUME NEW b \in Blocks PROVE passed'[b] \in 0 .. MaxSince
        OBVIOUS
      <3>1. passed'[b] < since'[b] /\ since'[b] \in 1 .. MaxSince
        BY <1>1, <1>5 DEF PassedBound
      <3> QED BY <1>4, <3>1, Constants
    <2>2. losses' \in 0 .. MaxLosses
      BY DEF Erase, IInv, TypeOK
    <2> QED BY <1>1, <1>2, <2>1, <2>2 DEF TypeOK
  <1>7. FewRivals'
    <2> SUFFICES ASSUME NEW b \in Blocks, Counted(b)'
                 PROVE  passed'[b] <= G \/ passed'[b] + Cardinality(Rivals(b)') <= G + B - 1
      BY DEF FewRivals, G
    <2> DEFINE R == Rivals(b)
               S == Rivals(b)'
    <2>1. CASE b = e
      BY <2>1, GainBound
    <2>2. CASE b # e
      <3>1. Counted(b)
        BY <1>2, <2>2
      <3>2. /\ S \subseteq R \cup {e} /\ (Dist(b) > G => e \notin S) /\ b \notin R
            /\ R \in SUBSET Blocks /\ S \in SUBSET Blocks
        BY <2>2, <3>1, RivalsShrink
      <3> HIDE DEF R, S
      <3>3. Cardinality(R) \in Nat /\ Cardinality(S) \in Nat /\ Cardinality(R) <= B - 1
        BY <3>2, BlockCount, OneLess, BlocksFinite
      <3>4. passed[b] \in Nat /\ passed'[b] \in Nat /\ Dist(b) \in Nat /\ passed[b] < Dist(b) /\ G \in Nat
        BY <1>4, <3>1, GainBound
      <3>5. passed[b] <= G \/ passed[b] + Cardinality(R) <= G + B - 1
        BY <3>1 DEF IInv, FewRivals, R
      <3>6. CASE passed'[b] <= G
        BY <3>6
      <3>7. CASE passed'[b] > G /\ passed'[b] = passed[b]
        <4>1. S \in SUBSET R
          BY <3>2, <3>4, <3>7
        <4>2. Cardinality(S) <= Cardinality(R)
          BY <3>2, <4>1, NoMore
        <4> QED BY <3>3, <3>4, <3>5, <3>7, <4>2, Constants DEF S
      <3>8. CASE passed'[b] > G /\ passed'[b] = passed[b] + 1 /\ e \in R
        <4>1. Dist(b) > G
          BY <3>4, <3>8
        <4>2. S \in SUBSET R /\ e \notin S
          BY <3>2, <3>8, <4>1
        <4>3. Cardinality(S) <= Cardinality(R) - 1
          BY <3>2, <3>8, <4>2, OneLess
        <4>4. passed[b] = G \/ passed[b] + Cardinality(R) <= G + B - 1
          BY <3>4, <3>5, <3>8
        <4> QED BY <3>3, <3>4, <3>8, <4>3, <4>4, Constants DEF S
      <3>9. passed'[b] = passed[b] \/ (passed'[b] = passed[b] + 1 /\ e \in R)
        BY <2>2, <3>1 DEF R
      <3>10. passed'[b] <= G \/ passed'[b] > G
        BY <3>4
      <3> QED BY <3>6, <3>7, <3>8, <3>9, <3>10
    <2> QED BY <2>1, <2>2
  <1> QED BY <1>1, <1>3, <1>5, <1>6, <1>7 DEF IInv

LEMMA EraseByAgeInv ==
  ASSUME IInv, EraseByAge
  PROVE  IInv'
  <1>1. PICK gain \in [Blocks -> 0 .. MaxGain] :
            /\ Erase(Candidate(gain))
            /\ passed' = [c \in Blocks |-> IF c = Candidate(gain) THEN 0 ELSE passed[c] + 1]
    BY DEF EraseByAge
  <1> DEFINE e == Candidate(gain)
  <1>2. e \in Blocks
    BY CandidateIsBest DEF IInv
  <1>3. \A b \in Blocks : Counted(b) /\ b # e => e \in Rivals(b)
    BY ChosenRivals DEF IInv
  <1> HIDE DEF e
  <1>4. /\ passed' \in [Blocks -> Nat] /\ passed'[e] = 0
        /\ \A b \in Blocks : b # e => passed'[b] = passed[b] + 1
    BY <1>1, <1>2 DEF IInv, TypeOK, e
  <1>5. Erase(e)
    BY <1>1 DEF e
  <1> QED BY <1>2, <1>3, <1>4, <1>5, EraseInv

LEMMA EraseAnyInv ==
  ASSUME IInv, EraseAny
  PROVE  IInv'
  <1>1. PICK e \in Blocks : Erase(e) /\ passed' = [passed EXCEPT ![e] = 0]
    BY DEF EraseAny
  <1>2. /\ passed' \in [Blocks -> Nat] /\ passed'[e] = 0
        /\ \A b \in Blocks : b # e => passed'[b] = passed[b]
    BY <1>1 DEF IInv, TypeOK
  <1> QED BY <1>1, <1>2, EraseInv

-----------------------------------------------------------------------------
(* Mounting *)

\* Away from the wrap the newest count is the highest, and the counter one more.
LEMMA NewestIsHighest ==
  ASSUME IInv, ~ AtWrap, \E b \in Blocks : Counted(b)
  PROVE  \E h \in Blocks : /\ Counted(h) /\ max = count[h] + 1
                          /\ \A b \in Blocks : Counted(b) => count[b] <= count[h]
  <1>1. PICK h \in Blocks : Counted(h) /\ Dist(h) = 1
    BY DEF IInv, Newest
  <1>2. max \in 0 .. Flag - 1 /\ \A b \in Blocks : Counted(b) => count[b] \in 0 .. Flag - 1 /\ count[b] # Flag - 1
    BY DistType DEF IInv, TypeOK, AtWrap
  <1>3. max = count[h] + 1
    BY <1>1, <1>2, Constants DEF Dist
  <1>4. ASSUME NEW b \in Blocks, Counted(b), count[b] > count[h] PROVE FALSE
    <2>1. ~ (since[b] > since[h])
      BY <1>1, <1>4 DEF AtWrap
    <2>2. /\ since[h] > since[b] => Dist(h) > Dist(b)
          /\ since[h] = since[b] => count[h] = count[b]
      BY <1>1, <1>4 DEF IInv, DistOrder
    <2>3. Dist(b) \in 1 .. Flag /\ since[b] \in Nat /\ since[h] \in Nat
      BY <1>4, DistType DEF IInv, TypeOK
    <2> QED BY <1>1, <1>2, <1>4, <2>1, <2>2, <2>3, Constants
  <1> QED BY <1>1, <1>2, <1>3, <1>4, Constants

\* What a mount makes of counts below the wrap.
LEMMA MountedIs ==
  ASSUME NEW c \in [Blocks -> (0 .. Flag - 1) \cup {Free}]
  PROVE  \/ (\A b \in Blocks : c[b] = Free) /\ Mounted(c) = 1
         \/ \E h \in Blocks : /\ c[h] # Free /\ Mounted(c) = c[h] + 1
                             /\ \A b \in Blocks : c[b] # Free => c[b] <= c[h]
  <1> DEFINE known == {c[b] : b \in Blocks} \ {Free}
             highest == Max(known \cup {0})
             lowest == Min(known \cup {Free})
  <1>1. known \in SUBSET (0 .. Flag - 1) /\ Free \in Nat /\ Free >= Flag /\ Free = 2 * Flag - 1
    BY Constants
  <1>2. \A b \in Blocks : c[b] # Free => c[b] \in known
    OBVIOUS
  <1>3. known # {} => \E h \in Blocks : c[h] # Free /\ \A k \in known : k <= c[h]
    <2> SUFFICES ASSUME known # {}
                 PROVE  \E h \in Blocks : c[h] # Free /\ \A k \in known : k <= c[h]
      OBVIOUS
    <2> DEFINE T == {Flag - k : k \in known}
    <2>1. T \in SUBSET Nat /\ T # {}
      BY <1>1, Constants
    <2>2. PICK least \in T : \A y \in T : least <= y
      BY <2>1, Least
    <2>3. PICK top \in known : least = Flag - top
      BY <2>2
    <2>4. ASSUME NEW k \in known PROVE k <= top
      <3>1. least <= Flag - k
        BY <2>2
      <3> HIDE DEF known
      <3>2. k \in 0 .. Flag - 1 /\ top \in 0 .. Flag - 1
        BY <1>1
      <3> QED BY <2>3, <3>1, <3>2, Constants
    <2> QED BY <2>3, <2>4
  <1>4. highest \in 0 .. Flag - 1 /\ \A k \in known : k <= highest
    <2>1. \E x \in known \cup {0} : \A y \in known \cup {0} : x >= y
      <3>1. CASE known = {}
        <4> HIDE DEF known
        <4> QED BY <3>1
      <3>2. CASE known # {}
        <4>1. PICK h \in Blocks : c[h] # Free /\ \A k \in known : k <= c[h]
          BY <1>3, <3>2
        <4>2. c[h] \in known
          BY <1>2, <4>1
        <4> HIDE DEF known
        <4> QED BY <1>1, <4>1, <4>2, Constants
      <3> QED BY <3>1, <3>2
    <2>2. highest \in known \cup {0} /\ \A y \in known \cup {0} : highest >= y
      <3> HIDE DEF known
      <3> QED BY <2>1 DEF Max
    <2> QED BY <1>1, <2>2, Constants
  <1>5. lowest \in Nat /\ lowest <= Free
    <2>1. known \cup {Free} \in SUBSET Nat /\ known \cup {Free} # {}
      BY <1>1, Constants
    <2>2. \E x \in known \cup {Free} : \A y \in known \cup {Free} : x <= y
      BY <2>1, Least
    <2>3. lowest \in known \cup {Free} /\ \A y \in known \cup {Free} : lowest <= y
      <3> HIDE DEF known
      <3> QED BY <2>2 DEF Min
    <2> QED BY <1>1, <2>3
  <1>6. Mounted(c) = highest + 1
    <2>1. Free \div 2 = Flag - 1
      BY <1>1, Constants
    <2>2. highest # Free /\ ~ (highest - lowest > Free \div 2)
      BY <1>1, <1>4, <1>5, <2>1, Constants
    <2>3. Mounted(c) = IF lowest = 0 /\ highest = Free THEN 0
                       ELSE IF highest - lowest > Free \div 2 THEN lowest + 1 ELSE highest + 1
      BY DEF Mounted
    <2> HIDE DEF highest, lowest
    <2> QED BY <2>2, <2>3
  <1>7. CASE known = {}
    <2>1. highest = 0
      <3> HIDE DEF known
      <3> QED BY <1>7 DEF Max
    <2>2. \A b \in Blocks : c[b] = Free
      <3> HIDE DEF known
      <3> QED BY <1>2, <1>7
    <2> HIDE DEF highest
    <2> QED BY <1>6, <2>1, <2>2
  <1>8. CASE known # {}
    <2>1. PICK h \in Blocks : c[h] # Free /\ \A k \in known : k <= c[h]
      BY <1>3, <1>8
    <2>2. c[h] \in known /\ c[h] \in 0 .. Flag - 1
      BY <1>1, <1>2, <2>1
    <2>3. highest = c[h]
      <3> HIDE DEF known
      <3>1. highest \in known \cup {0}
        <4>1. c[h] \in known \cup {0} /\ \A y \in known \cup {0} : c[h] >= y
          BY <2>1, <2>2, <1>1, Constants
        <4> QED BY <4>1 DEF Max
      <3> HIDE DEF highest
      <3>2. highest <= c[h] /\ c[h] <= highest
        BY <1>1, <1>4, <2>1, <2>2, <3>1, Constants
      <3> QED BY <1>4, <2>2, <3>2, Constants
    <2> QED BY <1>2, <1>6, <2>1, <2>3
  <1> QED BY <1>7, <1>8

\* Nothing but the counter may change.
LEMMA SameInv ==
  ASSUME IInv, UNCHANGED vars
  PROVE  IInv'
  <1>1. UNCHANGED <<count, max, since, passed, losses>>
    BY DEF vars
  <1>2. TypeOK' /\ SinceBound'
    BY <1>1 DEF IInv, TypeOK, SinceBound, Older
  <1>3. (DistBound /\ DistOrder /\ Newest)'
    BY <1>1 DEF IInv, DistBound, DistOrder, Newest, Dist, Counted
  <1>4. PassedBound' /\ FewRivals'
    BY <1>1 DEF IInv, PassedBound, FewRivals, Rivals, Dist, Counted, G
  <1> QED BY <1>2, <1>3, <1>4 DEF IInv

LEMMA RemountInv ==
  ASSUME IInv, MountAtWrap = FALSE, Remount
  PROVE  IInv'
  <1>1. ~ AtWrap /\ max' = Mounted(count) /\ UNCHANGED <<count, since, passed, losses>>
    BY DEF Remount
  <1>2. count \in [Blocks -> (0 .. Flag - 1) \cup {Free}] /\ max \in 0 .. Flag - 1
    BY DEF IInv, TypeOK
  <1>3. CASE \E b \in Blocks : Counted(b)
    <2>1. PICK h \in Blocks : /\ Counted(h) /\ max = count[h] + 1
                             /\ \A b \in Blocks : Counted(b) => count[b] <= count[h]
      BY <1>1, <1>3, NewestIsHighest
    <2>2. PICK g \in Blocks : /\ count[g] # Free /\ Mounted(count) = count[g] + 1
                             /\ \A b \in Blocks : count[b] # Free => count[b] <= count[g]
      BY <1>2, <2>1, MountedIs DEF Counted
    <2>3. count[g] \in 0 .. Flag - 1 /\ count[h] \in 0 .. Flag - 1
      BY <1>2, <2>1, <2>2 DEF Counted
    <2>4. count[g] = count[h]
      BY <2>1, <2>2, <2>3, Constants DEF Counted
    <2>5. UNCHANGED vars
      BY <1>1, <2>1, <2>2, <2>4 DEF vars
    <2> QED BY <2>5, SameInv
  <1>4. CASE \A b \in Blocks : ~ Counted(b)
    <2>1. max' = 1
      BY <1>1, <1>2, <1>4, MountedIs DEF Counted
    <2>2. \A b \in Blocks : ~ Counted(b)'
      BY <1>1, <1>4 DEF Counted
    <2>3. TypeOK' /\ SinceBound'
      BY <1>1, <2>1, Constants DEF IInv, TypeOK, SinceBound, Older
    <2>4. DistBound' /\ DistOrder' /\ Newest' /\ FewRivals'
      BY <2>2 DEF DistBound, DistOrder, Newest, FewRivals
    <2>5. PassedBound'
      BY <1>1, <2>2 DEF IInv, PassedBound
    <2> QED BY <2>3, <2>4, <2>5 DEF IInv
  <1> QED BY <1>3, <1>4

\* A count is lost and the counter falls back to one past the highest of the others;
\* away from the wrap the order of the distances stays.
LEMMA LoseCountInv ==
  ASSUME IInv, MountAtWrap = FALSE, LoseCount
  PROVE  IInv'
  <1>1. PICK x \in Blocks : count' = [count EXCEPT ![x] = Free]
    BY DEF LoseCount
  <1>2. /\ ~ AtWrap /\ max' = Mounted(count') /\ since' = since
        /\ passed' = [c \in Blocks |-> 0] /\ losses' = losses + 1 /\ losses < MaxLosses
    BY DEF LoseCount
  <1>3. /\ count \in [Blocks -> (0 .. Flag - 1) \cup {Free}] /\ max \in 0 .. Flag - 1
        /\ since \in [Blocks -> 1 .. MaxSince] /\ losses \in 0 .. MaxLosses
    BY DEF IInv, TypeOK
  <1>4. count' \in [Blocks -> (0 .. Flag - 1) \cup {Free}]
    BY <1>1, <1>3
  <1>5. \A b \in Blocks : Counted(b)' => Counted(b) /\ count'[b] = count[b] /\ count[b] \in 0 .. Flag - 2
    <2> SUFFICES ASSUME NEW b \in Blocks, Counted(b)'
                 PROVE  Counted(b) /\ count'[b] = count[b] /\ count[b] \in 0 .. Flag - 2
      OBVIOUS
    <2>1. b # x
      BY <1>1, <1>3 DEF Counted
    <2>2. count'[b] = count[b] /\ Counted(b)
      BY <1>1, <1>3, <2>1 DEF Counted
    <2>3. count[b] # Flag - 1
      BY <1>2 DEF AtWrap
    <2> QED BY <1>3, <2>2, <2>3, Constants DEF Counted
  <1>6. SinceBound' /\ since' \in [Blocks -> 1 .. MaxSince]
    BY <1>2, <1>3 DEF IInv, SinceBound, Older
  <1>7. passed' \in [Blocks -> 0 .. MaxSince] /\ losses' \in 0 .. MaxLosses /\ \A b \in Blocks : passed'[b] = 0
    BY <1>2, <1>3, Constants, LossAssumption
  <1>8. FewRivals'
    BY <1>7, GainBound DEF FewRivals, G
  <1>9. CASE \E b \in Blocks : Counted(b)'
    <2>1. PICK h \in Blocks : /\ count'[h] # Free /\ max' = count'[h] + 1
                             /\ \A b \in Blocks : count'[b] # Free => count'[b] <= count'[h]
      <3>1. PICK y \in Blocks : count'[y] # Free
        BY <1>9 DEF Counted
      <3> QED BY <1>2, <1>4, <3>1, MountedIs
    <2>2. Counted(h)' /\ Counted(h) /\ count'[h] = count[h] /\ count[h] \in 0 .. Flag - 2
      BY <1>5, <2>1 DEF Counted
    <2>3. max' = count[h] + 1 /\ max' \in 0 .. Flag - 1
      BY <2>1, <2>2, Constants
    <2>4. \A b \in Blocks : Counted(b)' => Dist(b)' = count[h] + 1 - count[b] /\ count[b] <= count[h]
      BY <1>5, <2>1, <2>2, <2>3, Constants DEF Dist, Counted
    <2>5. PICK n \in Blocks : /\ Counted(n) /\ max = count[n] + 1
                             /\ \A b \in Blocks : Counted(b) => count[b] <= count[n]
      BY <1>2, <2>2, NewestIsHighest
    <2>6. count[n] \in 0 .. Flag - 1 /\ count[h] <= count[n]
      BY <1>3, <2>2, <2>5 DEF Counted
    <2>7. \A b \in Blocks : Counted(b) => Dist(b) = count[n] + 1 - count[b]
      BY <1>3, <2>5, <2>6, Constants DEF Dist, Counted
    <2>8. DistBound'
      <3> SUFFICES ASSUME NEW b \in Blocks, Counted(b)' PROVE Dist(b)' <= since'[b]
        BY DEF DistBound
      <3>1. Dist(b) <= since[b] /\ Dist(b) = count[n] + 1 - count[b] /\ count[b] \in 0 .. Flag - 2 /\ since[b] \in Nat
        BY <1>3, <1>5, <2>7 DEF IInv, DistBound
      <3> QED BY <1>2, <2>2, <2>4, <2>6, <3>1, Constants
    <2>9. DistOrder'
      <3> SUFFICES ASSUME NEW a \in Blocks, NEW b \in Blocks, Counted(a)', Counted(b)'
                   PROVE  /\ since'[a] > since'[b] => Dist(a)' > Dist(b)'
                          /\ since'[a] = since'[b] => count'[a] = count'[b]
        BY DEF DistOrder
      <3>1. Counted(a) /\ Counted(b) /\ count[a] \in 0 .. Flag - 2 /\ count[b] \in 0 .. Flag - 2
        BY <1>5
      <3>2. /\ since[a] > since[b] => Dist(a) > Dist(b)
            /\ since[a] = since[b] => count[a] = count[b]
        BY <3>1 DEF IInv, DistOrder
      <3>3. Dist(a) = count[n] + 1 - count[a] /\ Dist(b) = count[n] + 1 - count[b]
        BY <2>7, <3>1
      <3> QED BY <1>2, <1>5, <2>2, <2>4, <2>6, <3>1, <3>2, <3>3, Constants
    <2>10. Newest'
      BY <2>2, <2>4, Constants DEF Newest
    <2>11. PassedBound'
      <3> SUFFICES ASSUME NEW b \in Blocks PROVE passed'[b] < since'[b] /\ (Counted(b)' => passed'[b] < Dist(b)')
        BY DEF PassedBound
      <3>1. since'[b] \in 1 .. MaxSince /\ passed'[b] = 0
        BY <1>6, <1>7
      <3>2. Counted(b)' => Dist(b)' = count[h] + 1 - count[b] /\ count[b] <= count[h] /\ count[b] \in 0 .. Flag - 2
        BY <1>5, <2>4
      <3> QED BY <2>2, <3>1, <3>2, Constants
    <2> QED BY <1>4, <1>6, <1>7, <1>8, <2>3, <2>8, <2>9, <2>10, <2>11 DEF IInv, TypeOK
  <1>10. CASE \A b \in Blocks : ~ Counted(b)'
    <2>1. max' = 1
      <3>1. \A b \in Blocks : count'[b] = Free
        BY <1>10 DEF Counted
      <3> QED BY <1>2, <1>4, <3>1, MountedIs
    <2>2. TypeOK'
      BY <1>4, <1>6, <1>7, <2>1, Constants DEF TypeOK
    <2>3. DistBound' /\ DistOrder' /\ Newest'
      BY <1>10 DEF DistBound, DistOrder, Newest
    <2>4. PassedBound'
      BY <1>6, <1>7, <1>10, Constants DEF PassedBound
    <2> QED BY <1>6, <1>8, <2>2, <2>3, <2>4 DEF IInv
  <1> QED BY <1>9, <1>10

LEMMA StepInv ==
  ASSUME MountAtWrap = FALSE, IInv, [Next]_vars
  PROVE  IInv'
  <1>1. CASE EraseByAge
    BY <1>1, EraseByAgeInv
  <1>2. CASE EraseAny
    BY <1>2, EraseAnyInv
  <1>3. CASE Remount
    BY <1>3, RemountInv
  <1>4. CASE LoseCount
    BY <1>4, LoseCountInv
  <1>5. CASE UNCHANGED vars
    BY <1>5, SameInv
  <1> QED BY <1>1, <1>2, <1>3, <1>4, <1>5 DEF Next

-----------------------------------------------------------------------------
(* The theorems *)

\* Without a mount at the wrap, the age the collector computes from counts of any width
\* is in the order of the erases, over every wrap of the counter.
THEOREM AgesCorrect ==
  ASSUME MountAtWrap = FALSE
  PROVE  Spec => []CountsInv
  <1>1. Init => IInv
    BY InitInv
  <1>2. IInv /\ [Next]_vars => IInv'
    BY StepInv
  <1>3. IInv => CountsInv
    BY AgesFollow DEF IInv, CountsInv
  <1> QED BY <1>1, <1>2, <1>3, PTL DEF Spec

LEMMA FewRivalsBound ==
  ASSUME IInv
  PROVE  NotNeglected
  <1> SUFFICES ASSUME NEW b \in Blocks, Counted(b) PROVE passed[b] <= G + B - 1
    BY DEF NotNeglected, G
  <1>1. Rivals(b) \in SUBSET Blocks
    BY DEF Rivals
  <1>2. Cardinality(Rivals(b)) \in Nat /\ passed[b] \in Nat /\ G \in Nat
    BY <1>1, BlockCount, GainBound DEF IInv, TypeOK
  <1>3. passed[b] <= G \/ passed[b] + Cardinality(Rivals(b)) <= G + B - 1
    BY DEF IInv, FewRivals
  <1> QED BY <1>2, <1>3, Constants

\* Without a mount at the wrap, the score of spiffs_gc_find_candidate passes over a block
\* no more often than the weights and the number of blocks allow, whatever pages are in the others.
THEOREM Wear ==
  ASSUME MountAtWrap = FALSE
  PROVE  Spec => []NotNeglected
  <1>1. Init => IInv
    BY InitInv
  <1>2. IInv /\ [Next]_vars => IInv'
    BY StepInv
  <1>3. IInv => NotNeglected
    BY FewRivalsBound
  <1> QED BY <1>1, <1>2, <1>3, PTL DEF Spec
=============================================================================
