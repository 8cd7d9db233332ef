------------------------ MODULE SpiffsObjectIdProofs ------------------------
(***************************************************************************)
(* A file never gets the id of another one, "full" is only said when it is *)
(* true, no group is counted outside of the work buffer, and a name is     *)
(* not given twice: proved for every number of ids and size of the buffer  *)
(* that GroupAssumption allows.                                            *)
(*                                                                         *)
(* None of this is inductive.  What the search does in one scan is right   *)
(* because of what an earlier one found: IdInv says what the counts mean,  *)
(* that the group chosen has a free id, and that the name is not that of a *)
(* file once the headers were looked at.                                   *)
(***************************************************************************)
EXTENDS SpiffsObjectId, FiniteSetTheorems, WellFoundedInduction, TLAPS

\* The ids of a group, when ids are counted from 1.
GroupSpan == MaxObjects \div Work
Members(i) == 1 + i * GroupSpan .. i * GroupSpan + GroupSpan

Shape ==
    /\ files \subseteq Nat \ {0} /\ removing \subseteq files /\ orphans \subseteq Nat \ {0}
    /\ search \in [at : {"idle", "count", "select", "bits"}, min : Nat, max : Nat, group : Nat,
                   count : [0 .. Work - 1 -> Nat], name : Nat, asked : Nat]
    /\ answer \in [is : {"none", "id", "full", "conflict"}, id : Nat]

\* The whole range is counted: it does not fit the bitmap.
Counting ==
    search.at \in {"count", "select"} =>
        /\ MaxObjects > BitmapSize
        /\ search.min = 1 /\ search.max = MaxObjects + 1

\* The scan by groups has compared the name, and its counts are those of the files.
Counted ==
    /\ search.at = "count" => search.name = search.asked
    /\ search.at = "select" =>
           /\ search.asked \notin files
           /\ search.group = GroupSpan
           /\ search.count = [i \in 0 .. Work - 1 |-> Cardinality(files \cap Members(i))]

\* The bitmap is of all ids, or of a group that has a free one.
Narrowed ==
    search.at = "bits" =>
        IF MaxObjects <= BitmapSize
        THEN search.min = 1
        ELSE \E i \in 0 .. Work - 1 :
                 search.min = 1 + i * GroupSpan /\ ~(Members(i) \subseteq files)

\* There is an answer only when the search is over, and it is true.
Answered ==
    /\ search.at # "idle" => answer = NoAnswer
    /\ answer.is = "id" =>
           /\ answer.id \in (Nat \ {0}) \ files
           /\ orphans = {} => answer.id \in Reachable
    /\ answer.is = "full" /\ orphans = {} => Reachable \subseteq files

\* No file has an id that the search cannot give.
InReach == orphans = {} => files \subseteq Reachable

IdInv == Shape /\ Counting /\ Counted /\ Narrowed /\ Answered /\ InReach

-----------------------------------------------------------------------------
(* Division, least elements and constants *)

LEMMA Division ==
  ASSUME NEW m \in Nat \ {0}, NEW x \in Nat
  PROVE  /\ x \div m \in Nat /\ (x % m) \in 0 .. (m - 1)
         /\ x = (x \div m) * m + (x % m)
  OBVIOUS

LEMMA Multiple ==
  ASSUME NEW m \in Nat \ {0}, NEW j \in Int, j >= 1
  PROVE  j * m >= m
  OBVIOUS

LEMMA DivisionUnique ==
  ASSUME NEW m \in Nat \ {0}, NEW q \in Nat, NEW r \in 0 .. (m - 1)
  PROVE  /\ (q * m + r) % m = r
         /\ (q * m + r) \div m = q
  <1> DEFINE x == q * m + r
  <1>1. x \in Nat
    OBVIOUS
  <1>2. /\ x \div m \in Nat /\ (x % m) \in 0 .. (m - 1)
        /\ x = (x \div m) * m + (x % m)
    BY <1>1, Division
  <1> HIDE DEF x
  <1>3. x = q * m + r
    BY DEF x
  <1> DEFINE d == x \div m
             s == x % m
  <1>4. d \in Nat /\ s \in 0 .. (m - 1) /\ d * m + s = q * m + r
    BY <1>2, <1>3
  <1> HIDE DEF d, s
  <1>5. (d - q) * m = r - s
    BY <1>4
  <1>6. ~(d - q >= 1)
    BY <1>4, <1>5, Multiple
  <1>7. (q - d) * m = s - r
    BY <1>4
  <1>8. ~(q - d >= 1)
    BY <1>4, <1>7, Multiple
  <1>9. d = q
    BY <1>4, <1>6, <1>8
  <1>10. s = r
    BY <1>4, <1>9
  <1> QED BY <1>9, <1>10 DEF d, s, x

LEMMA Least ==
  ASSUME NEW T \in SUBSET Nat, T # {}
  PROVE  \E x \in T : \A y \in T : x <= y
  <1>1. PICK x \in T : \A y \in T : <<y, x>> \notin OpToRel(<, Nat)
    BY NatLessThanWellFounded, WFMin
  <1>2. \A y \in T : ~ (y < x)
    BY <1>1 DEF OpToRel
  <1> QED BY <1>2

LEMMA LeastOfIs ==
  ASSUME NEW T \in SUBSET Nat, T # {}
  PROVE  LeastOf(T) \in T /\ \A y \in T : LeastOf(T) <= y
  <1>1. \E x \in T : \A y \in T : x <= y
    BY Least
  <1> QED BY <1>1 DEF LeastOf

LEMMA Sizes ==
  /\ Work \in Nat \ {0} /\ MaxObjects \in Nat /\ BitmapSize \in Nat /\ BitmapSize >= Work
  /\ ByteSize \in Nat /\ GroupSpan \in Nat /\ GroupSpan < ByteSize /\ GroupSpan <= BitmapSize
  /\ Work * GroupSpan \in Nat /\ Work * GroupSpan <= MaxObjects
  /\ MaxObjects > BitmapSize => GroupSpan >= 1
  <1>1. Work \in Nat \ {0} /\ ByteBits \in Nat \ {0} /\ MaxObjects \in Nat
    BY BufferAssumption
  <1>2. BitmapSize \in Nat /\ BitmapSize >= Work
    BY <1>1 DEF BitmapSize
  <1>3. /\ GroupSpan \in Nat /\ (MaxObjects % Work) \in 0 .. (Work - 1)
        /\ MaxObjects = GroupSpan * Work + (MaxObjects % Work)
    BY <1>1, Division DEF GroupSpan
  <1>4. GroupSpan * Work = Work * GroupSpan /\ Work * GroupSpan \in Nat
    BY <1>1, <1>3
  <1>5. GroupSpan = 0 => Work * GroupSpan = 0
    BY <1>1
  <1>6. MaxObjects > BitmapSize => GroupSpan >= 1
    BY <1>1, <1>2, <1>3, <1>4, <1>5
  <1> QED BY <1>1, <1>2, <1>3, <1>4, <1>6, GroupAssumption DEF GroupSpan

\* The members of a group are the ids that are counted in it.
LEMMA GroupIs ==
  ASSUME NEW id \in Nat \ {0}, NEW i \in Nat, GroupSpan >= 1
  PROVE  (id - 1) \div GroupSpan = i <=> id \in Members(i)
  <1> DEFINE g == GroupSpan
             x == id - 1
  <1>1. g \in Nat \ {0} /\ x \in Nat
    BY Sizes
  <1> HIDE DEF g, x
  <1>2. /\ x \div g \in Nat /\ (x % g) \in 0 .. (g - 1)
        /\ x = (x \div g) * g + (x % g)
    BY <1>1, Division
  <1>3. ASSUME x \div g = i  PROVE x >= i * g /\ x < i * g + g /\ i * g \in Nat
    <2>1. x = i * g + (x % g) /\ i * g \in Nat
      BY <1>1, <1>2, <1>3
    <2> QED BY <1>1, <1>2, <2>1
  <1>4. ASSUME x >= i * g, x < i * g + g  PROVE x \div g = i
    <2> DEFINE r == x - i * g
    <2>1. i * g \in Nat
      BY <1>1
    <2>2. r \in 0 .. (g - 1) /\ x = i * g + r
      BY <1>1, <1>4, <2>1
    <2> HIDE DEF r
    <2> QED BY <1>1, <2>2, DivisionUnique
  <1>5. id \in Members(i) <=> x >= i * g /\ x < i * g + g
    <2>1. i * g \in Nat
      BY <1>1
    <2> QED BY <1>1, <2>1 DEF Members, g, x
  <1> QED BY <1>3, <1>4, <1>5 DEF g, x

LEMMA MembersSize ==
  ASSUME NEW i \in 0 .. Work - 1
  PROVE  IsFiniteSet(Members(i)) /\ Cardinality(Members(i)) = GroupSpan
  <1> DEFINE a == 1 + i * GroupSpan
             b == i * GroupSpan + GroupSpan
  <1>1. i * GroupSpan \in Nat
    BY Sizes
  <1>2. a \in Int /\ b \in Int /\ (IF a > b THEN 0 ELSE b - a + 1) = GroupSpan
    BY <1>1, Sizes
  <1> HIDE DEF a, b
  <1>3. IsFiniteSet(a .. b) /\ Cardinality(a .. b) = GroupSpan
    BY <1>2, FS_Interval
  <1> QED BY <1>3 DEF a, b, Members

LEMMA MembersCount ==
  ASSUME NEW i \in 0 .. Work - 1, NEW S
  PROVE  /\ Cardinality(S \cap Members(i)) \in 0 .. GroupSpan
         /\ Cardinality(S \cap Members(i)) = 0 => S \cap Members(i) = {}
         /\ Cardinality(S \cap Members(i)) = GroupSpan => Members(i) \subseteq S
  <1> DEFINE T == S \cap Members(i)
  <1>1. T \in SUBSET Members(i)
    OBVIOUS
  <1> HIDE DEF T
  <1>2. IsFiniteSet(T) /\ Cardinality(T) <= GroupSpan /\ (GroupSpan = Cardinality(T) => Members(i) = T)
    BY <1>1, MembersSize, FS_Subset
  <1>3. Cardinality(T) \in Nat /\ (Cardinality(T) = 0 => T = {})
    BY <1>2, FS_CardinalityType, FS_EmptySet
  <1>4. Cardinality(T) \in 0 .. GroupSpan
    BY <1>2, <1>3, Sizes
  <1> QED BY <1>2, <1>3, <1>4 DEF T

\* In groups, the ids that can be given are those of the groups.
LEMMA InGroups ==
  ASSUME MaxObjects > BitmapSize
  PROVE  /\ Reachable = 1 .. Work * GroupSpan
         /\ \A i \in 0 .. Work - 1 : Members(i) \subseteq Reachable
         /\ \A id \in Reachable : \E i \in 0 .. Work - 1 : id \in Members(i)
  <1>1. Reachable = 1 .. Work * GroupSpan
    BY Sizes DEF Reachable, GroupSpan
  <1>2. ASSUME NEW i \in 0 .. Work - 1  PROVE Members(i) \subseteq Reachable
    <2> DEFINE k == Work - 1 - i
    <2>1. k \in Nat /\ k * GroupSpan >= 0 /\ Work = i + 1 + k
      BY Sizes
    <2> HIDE DEF k
    <2>2. Work * GroupSpan = i * GroupSpan + GroupSpan + k * GroupSpan
      BY <2>1, Sizes
    <2>3. i * GroupSpan \in Nat /\ k * GroupSpan \in Nat /\ GroupSpan \in Nat
      BY <2>1, Sizes
    <2> QED BY <1>1, <2>2, <2>3 DEF Members
  <1>3. ASSUME NEW id \in Reachable  PROVE \E i \in 0 .. Work - 1 : id \in Members(i)
    <2> DEFINE i == (id - 1) \div GroupSpan
    <2>1. id \in Nat \ {0} /\ id <= Work * GroupSpan /\ GroupSpan \in Nat \ {0}
      BY <1>1, Sizes
    <2>2. i \in Nat
      BY <2>1, Division
    <2>3. id \in Members(i)
      BY <2>1, <2>2, GroupIs
    <2>4. id >= 1 + i * GroupSpan
      <3> HIDE DEF i
      <3>1. i * GroupSpan \in Nat
        BY <2>1, <2>2
      <3> QED BY <2>1, <2>3, <3>1 DEF Members
    <2>5. ~(i - Work >= 0)
      <3> HIDE DEF i
      <3> SUFFICES ASSUME i - Work >= 0  PROVE FALSE
        OBVIOUS
      <3>1. (i - Work) * GroupSpan >= 0
        BY <2>1, <2>2, Sizes
      <3>2. (i - Work) * GroupSpan = i * GroupSpan - Work * GroupSpan
        BY <2>1, <2>2, Sizes
      <3>3. i * GroupSpan \in Nat /\ Work * GroupSpan \in Nat
        BY <2>1, <2>2, Sizes
      <3> QED BY <2>1, <2>4, <3>1, <3>2, <3>3
    <2>6. i \in 0 .. Work - 1
      <3> HIDE DEF i
      <3> QED BY <2>2, <2>5, Sizes
    <2> QED BY <2>3, <2>6
  <1> QED BY <1>1, <1>2, <1>3

-----------------------------------------------------------------------------
(* The search *)

LEMMA InitInv == Init => IdInv
  <1> SUFFICES ASSUME Init  PROVE IdInv
    OBVIOUS
  <1>1. /\ files = {} /\ removing = {} /\ orphans = {} /\ search = Idle /\ answer = NoAnswer
    BY DEF Init
  <1>2. Shape
    BY <1>1 DEF Shape, Idle, NoName, NoAnswer
  <1>3. search.at = "idle" /\ answer = NoAnswer /\ answer.is = "none"
    BY <1>1 DEF Idle, NoAnswer
  <1> QED BY <1>1, <1>2, <1>3 DEF IdInv, Counting, Counted, Narrowed, Answered, InReach

\* Whatever is answered ends the search, and has to be true.
LEMMA AnswerInv ==
  ASSUME IdInv, NEW is \in {"id", "full", "conflict"}, NEW id \in Nat, Answer(is, id),
         is = "id" => id \in (Nat \ {0}) \ files /\ (orphans = {} => id \in Reachable),
         is = "full" /\ orphans = {} => Reachable \subseteq files
  PROVE  IdInv'
  <1>1. /\ answer' = [is |-> is, id |-> id] /\ search' = Idle
        /\ files' = files /\ removing' = removing /\ orphans' = orphans
    BY DEF Answer
  <1>2. Shape'
    BY <1>1 DEF IdInv, Shape, Idle, NoName
  <1>3. search'.at = "idle"
    BY <1>1 DEF Idle
  <1>4. Reachable' = Reachable
    BY DEF Reachable
  <1>5. Answered'
    BY <1>1, <1>3, <1>4 DEF Answered
  <1> QED BY <1>1, <1>2, <1>3, <1>4, <1>5 DEF IdInv, Counting, Counted, Narrowed, InReach

LEMMA CreateInv ==
  ASSUME IdInv, NEW name \in files \cup {NoName}, Create(name)
  PROVE  IdInv'
  <1> DEFINE at == Scan(1, MaxObjects + 1)
  <1>1. /\ search' = [Idle EXCEPT !.at = at, !.min = 1, !.max = MaxObjects + 1, !.name = name, !.asked = name]
        /\ files' = files /\ removing' = removing /\ orphans' = orphans /\ answer' = answer
        /\ answer = NoAnswer
    BY DEF Create
  <1>2. at = IF MaxObjects <= BitmapSize THEN "bits" ELSE "count"
    BY Sizes DEF Scan
  <1> HIDE DEF at
  <1>3. name \in Nat
    BY DEF IdInv, Shape, NoName
  <1>4. /\ search'.at = at /\ search'.min = 1 /\ search'.max = MaxObjects + 1
        /\ search'.name = name /\ search'.asked = name
    BY <1>1 DEF Idle
  <1>5. Shape'
    <2>1. at \in {"idle", "count", "select", "bits"} /\ MaxObjects + 1 \in Nat
      BY <1>2, Sizes
    <2>2. search' \in [at : {"idle", "count", "select", "bits"}, min : Nat, max : Nat, group : Nat,
                       count : [0 .. Work - 1 -> Nat], name : Nat, asked : Nat]
      BY <1>1, <1>3, <2>1 DEF Idle
    <2> QED BY <1>1, <2>2 DEF IdInv, Shape
  <1>6. Counting'
    BY <1>2, <1>4, Sizes DEF Counting
  <1>7. Counted' /\ Narrowed'
    BY <1>2, <1>4 DEF Counted, Narrowed
  <1>8. Answered' /\ InReach'
    BY <1>1 DEF IdInv, Answered, InReach, NoAnswer, Reachable
  <1> QED BY <1>5, <1>6, <1>7, <1>8 DEF IdInv

\* What is counted in a byte are the files of its group, and they fit.
LEMMA Counts ==
  ASSUME IdInv, search.at = "count", NEW i \in 0 .. Work - 1
  PROVE  Cardinality({id \in files : InRange(id) /\ Group(id, GroupSize) = i}) % ByteSize
            = Cardinality(files \cap Members(i))
  <1>1. search.min = 1 /\ search.max = MaxObjects + 1 /\ MaxObjects > BitmapSize
    BY DEF IdInv, Counting
  <1>2. GroupSize = GroupSpan
    BY <1>1, Sizes DEF GroupSize, GroupSpan
  <1>3. GroupSpan >= 1 /\ i \in Nat
    BY <1>1, Sizes
  <1>4. ASSUME NEW id \in files
        PROVE  (InRange(id) /\ Group(id, GroupSize) = i) <=> id \in Members(i)
    <2>1. id \in Nat \ {0}
      BY DEF IdInv, Shape
    <2>2. Group(id, GroupSize) = (id - 1) \div GroupSpan
      BY <1>1, <1>2 DEF Group
    <2>3. id \in Members(i) => id \in 1 .. Work * GroupSpan
      BY <1>1, InGroups
    <2>4. id \in Members(i) => InRange(id)
      BY <1>1, <2>1, <2>3, Sizes DEF InRange
    <2> QED BY <1>3, <2>1, <2>2, <2>4, GroupIs
  <1>5. {id \in files : InRange(id) /\ Group(id, GroupSize) = i} = files \cap Members(i)
    BY <1>4
  <1> DEFINE n == Cardinality(files \cap Members(i))
  <1>6. n \in 0 .. GroupSpan
    BY MembersCount
  <1> HIDE DEF n
  <1>7. n \in 0 .. ByteSize - 1 /\ 0 * ByteSize + n = n /\ ByteSize \in Nat \ {0}
    BY <1>6, Sizes
  <1>8. (0 * ByteSize + n) % ByteSize = n
    BY <1>7, DivisionUnique
  <1> QED BY <1>5, <1>7, <1>8 DEF n

LEMMA CountGroupsInv ==
  ASSUME IdInv, CountGroups
  PROVE  IdInv'
  <1>1. search.at = "count" /\ search.name = search.asked /\ answer = NoAnswer
    BY DEF CountGroups, IdInv, Counted, Answered
  <1>2. CASE Conflict(search.name, files)
    <2>1. Answer("conflict", 0)
      BY <1>2 DEF CountGroups
    <2> QED BY <2>1, AnswerInv
  <1>3. CASE ~Conflict(search.name, files)
    <2> DEFINE count == [i \in 0 .. Work - 1 |-> Cardinality(files \cap Members(i))]
    <2>1. search.min = 1 /\ search.max = MaxObjects + 1 /\ MaxObjects > BitmapSize
      BY <1>1 DEF IdInv, Counting
    <2>2. GroupSize = GroupSpan
      BY <2>1, Sizes DEF GroupSize, GroupSpan
    <2>3. [i \in 0 .. Work - 1 |->
              Cardinality({id \in files : InRange(id) /\ Group(id, GroupSize) = i}) % ByteSize] = count
      BY <1>1, Counts
    <2>4. count \in [0 .. Work - 1 -> Nat]
      BY MembersCount, Sizes
    <2> HIDE DEF count
    <2>5. /\ search' = [search EXCEPT !.at = "select", !.group = GroupSpan, !.count = count, !.name = NoName]
          /\ files' = files /\ removing' = removing /\ orphans' = orphans /\ answer' = answer
      BY <1>3, <2>2, <2>3 DEF CountGroups
    <2>6. Shape'
      BY <2>4, <2>5, Sizes DEF IdInv, Shape, NoName
    <2>7. /\ search'.at = "select" /\ search'.min = 1 /\ search'.max = MaxObjects + 1
          /\ search'.asked = search.asked /\ search'.group = GroupSpan /\ search'.count = count
      BY <2>1, <2>5 DEF IdInv, Shape
    <2>8. search.asked \notin files
      BY <1>1, <1>3 DEF Conflict
    <2>9. Counting' /\ Narrowed'
      BY <2>1, <2>7 DEF Counting, Narrowed
    <2>10. Counted'
      BY <2>5, <2>7, <2>8 DEF Counted, count, Members, GroupSpan
    <2>11. Answered' /\ InReach'
      BY <1>1, <2>5 DEF IdInv, Answered, InReach, NoAnswer, Reachable
    <2> QED BY <2>6, <2>9, <2>10, <2>11 DEF IdInv
  <1> QED BY <1>2, <1>3

\* The group chosen is one of the groups, and full only if all are.
LEMMA EmptiestIs ==
  ASSUME NEW count \in [0 .. Work - 1 -> 0 .. GroupSpan], search.count = count
  PROVE  /\ Emptiest \in 0 .. Work - 1
         /\ count[Emptiest] = GroupSpan => \A i \in 0 .. Work - 1 : count[i] = GroupSpan
  <1> DEFINE T == {count[i] : i \in 0 .. Work - 1}
             least == LeastOf(T)
             F == {i \in 0 .. Work - 1 : count[i] = least}
  <1>1. T \in SUBSET Nat /\ 0 \in 0 .. Work - 1
    BY Sizes
  <1>2. least \in T /\ \A y \in T : least <= y
    <2>1. T # {}
      BY <1>1
    <2> HIDE DEF T
    <2> QED BY <1>1, <2>1, LeastOfIs
  <1>3. \A i \in 0 .. Work - 1 : least <= count[i] /\ count[i] \in 0 .. GroupSpan
    BY <1>2
  <1>4. F \in SUBSET Nat /\ F # {}
    <2> HIDE DEF least
    <2> QED BY <1>2
  <1>5. LeastOf(F) \in F
    <2> HIDE DEF F
    <2> QED BY <1>4, LeastOfIs
  <1>6. Emptiest = IF least < ByteSize - 1 THEN LeastOf(F) ELSE 0
    BY DEF Emptiest
  <1>7. least \in Nat
    BY <1>1, <1>2
  <1> HIDE DEF least
  <1>8. CASE least < ByteSize - 1
    <2>1. Emptiest \in 0 .. Work - 1 /\ count[Emptiest] = least
      BY <1>5, <1>6, <1>8
    <2> QED BY <1>3, <1>7, <2>1, Sizes
  <1>9. CASE ~(least < ByteSize - 1)
    <2>1. Emptiest = 0
      BY <1>6, <1>9
    <2>2. \A i \in 0 .. Work - 1 : count[i] = GroupSpan
      BY <1>3, <1>7, <1>9, Sizes
    <2> QED BY <1>1, <2>1, <2>2
  <1> QED BY <1>8, <1>9

LEMMA SelectGroupInv ==
  ASSUME IdInv, SelectGroup
  PROVE  IdInv'
  <1> DEFINE i == Emptiest
             count == search.count
             first == First(i)
  <1>1. /\ search.at = "select" /\ search.min = 1 /\ search.max = MaxObjects + 1
        /\ search.group = GroupSpan /\ MaxObjects > BitmapSize /\ answer = NoAnswer
        /\ count = [j \in 0 .. Work - 1 |-> Cardinality(files \cap Members(j))]
    BY DEF SelectGroup, IdInv, Counting, Counted, Answered
  <1>2. count \in [0 .. Work - 1 -> 0 .. GroupSpan]
    BY <1>1, MembersCount
  <1>3. \A j \in 0 .. Work - 1 : count[j] = Cardinality(files \cap Members(j))
    BY <1>1
  <1>4. i \in 0 .. Work - 1 /\ (count[i] = GroupSpan => \A j \in 0 .. Work - 1 : count[j] = GroupSpan)
    <2> HIDE DEF count
    <2>1. search.count = count
      BY DEF count
    <2> QED BY <1>2, <2>1, EmptiestIs
  <1>5. first = 1 + i * GroupSpan
    BY <1>1 DEF First
  <1>6. GroupSpan \in Nat \ {0} /\ i \in Nat /\ i * GroupSpan \in Nat
    <2> HIDE DEF i
    <2> QED BY <1>1, <1>4, Sizes
  <1>7. first \in Nat \ {0} /\ first \in Members(i)
    <2> HIDE DEF i
    <2> QED BY <1>5, <1>6 DEF Members
  <1>8. \/ count[i] = GroupSpan /\ Answer("full", 0)
        \/ count[i] # GroupSpan /\ count[i] = 0 /\ Answer("id", first)
        \/ /\ count[i] # GroupSpan /\ count[i] # 0
           /\ search' = [search EXCEPT !.at = Scan(first, Last(first)), !.min = first, !.max = Last(first)]
           /\ UNCHANGED <<files, removing, orphans, answer>>
    BY <1>1 DEF SelectGroup
  <1> HIDE DEF i, count, first
  <1>9. CASE count[i] = GroupSpan /\ Answer("full", 0)
    <2>1. \A j \in 0 .. Work - 1 : Members(j) \subseteq files
      BY <1>3, <1>4, <1>9, MembersCount
    <2>2. Reachable \subseteq files
      BY <1>1, <2>1, InGroups
    <2> QED BY <1>9, <2>2, AnswerInv
  <1>10. CASE count[i] # GroupSpan /\ count[i] = 0 /\ Answer("id", first)
    <2>1. files \cap Members(i) = {}
      BY <1>3, <1>4, <1>10, MembersCount
    <2>2. first \notin files /\ first \in Reachable
      BY <1>1, <1>4, <1>7, <2>1, InGroups
    <2> QED BY <1>7, <1>10, <2>2, AnswerInv
  <1>11. CASE /\ count[i] # GroupSpan /\ count[i] # 0
              /\ search' = [search EXCEPT !.at = Scan(first, Last(first)), !.min = first, !.max = Last(first)]
              /\ UNCHANGED <<files, removing, orphans, answer>>
    <2>1. Last(first) = first + GroupSpan
      BY <1>1 DEF Last
    <2>2. Scan(first, Last(first)) = "bits" /\ Last(first) \in Nat
      BY <1>6, <1>7, <2>1, Sizes DEF Scan
    <2>3. /\ search'.at = "bits" /\ search'.min = first
          /\ files' = files /\ removing' = removing /\ orphans' = orphans /\ answer' = answer
      BY <1>11, <2>2 DEF IdInv, Shape
    <2>4. Shape'
      BY <1>7, <1>11, <2>2 DEF IdInv, Shape
    <2>5. ~(Members(i) \subseteq files)
      <3> SUFFICES ASSUME Members(i) \subseteq files  PROVE FALSE
        OBVIOUS
      <3>1. files \cap Members(i) = Members(i) \cap Members(i)
        OBVIOUS
      <3>2. count[i] = Cardinality(Members(i) \cap Members(i))
        BY <1>3, <1>4, <3>1
      <3>3. Cardinality(Members(i)) = GroupSpan
        BY <1>4, MembersSize
      <3> QED BY <1>11, <3>2, <3>3
    <2>6. Narrowed'
      <3>1. ~(MaxObjects <= BitmapSize)
        BY <1>1, Sizes
      <3>2. search'.min = 1 + i * GroupSpan /\ ~(Members(i) \subseteq files')
        BY <1>5, <2>3, <2>5
      <3>3. \E j \in 0 .. Work - 1 : search'.min = 1 + j * GroupSpan /\ ~(Members(j) \subseteq files')
        BY <1>4, <3>2
      <3> QED BY <3>1, <3>3 DEF Narrowed
    <2>7. Counting' /\ Counted'
      BY <2>3 DEF Counting, Counted
    <2>8. Answered' /\ InReach'
      BY <1>1, <2>3 DEF IdInv, Answered, InReach, NoAnswer, Reachable
    <2> QED BY <2>4, <2>6, <2>7, <2>8 DEF IdInv
  <1> QED BY <1>8, <1>9, <1>10, <1>11

LEMMA ScanBitsInv ==
  ASSUME IdInv, ScanBits
  PROVE  IdInv'
  <1> DEFINE free == 0 .. BitmapSize - 1 \ Taken
             min == search.min
  <1>1. search.at = "bits" /\ min \in Nat \ {0} /\ files \subseteq Nat \ {0}
    <2>1. search.at = "bits"
      BY DEF ScanBits
    <2>2. ASSUME NEW i \in 0 .. Work - 1  PROVE 1 + i * GroupSpan \in Nat \ {0}
      <3>1. i * GroupSpan \in Nat
        BY Sizes
      <3> QED BY <3>1
    <2> QED BY <2>1, <2>2 DEF IdInv, Narrowed, Shape
  <1>2. \/ Answer("conflict", 0)
        \/ free = {} /\ Answer("full", 0)
        \/ free # {} /\ Answer("id", min + ClearBit(free))
    BY DEF ScanBits
  <1>3. ASSUME NEW bit \in Nat, min + bit \in files  PROVE bit \in Taken
    <2> DEFINE id == min + bit
    <2>1. id - min = bit /\ min <= id
      BY <1>1
    <2>2. id \in {i \in files \cup orphans : min <= i}
      BY <1>3, <2>1
    <2> HIDE DEF id
    <2> QED BY <2>1, <2>2 DEF Taken
  \* Without orphans a bit that is set is that of a file.
  <1>4. ASSUME orphans = {}, NEW bit \in Nat, bit \in Taken  PROVE min + bit \in files
    <2>1. PICK id \in files : bit = id - min /\ min <= id
      BY <1>4 DEF Taken
    <2>2. id = min + bit
      BY <1>1, <2>1
    <2> QED BY <2>1, <2>2
  <1>5. CASE Answer("conflict", 0)
    BY <1>5, AnswerInv
  <1>6. CASE free = {} /\ Answer("full", 0)
    <2>1. ASSUME orphans = {}  PROVE Reachable \subseteq files
      <3>1. ASSUME NEW bit \in 0 .. BitmapSize - 1  PROVE min + bit \in files
        BY <1>4, <1>6, <2>1, Sizes
      <3>2. CASE MaxObjects <= BitmapSize
        <4>1. min = 1 /\ Reachable = 1 .. BitmapSize
          BY <1>1, <3>2 DEF IdInv, Narrowed, Reachable
        <4>2. ASSUME NEW id \in 1 .. BitmapSize  PROVE id \in files
          <5>1. id - 1 \in 0 .. BitmapSize - 1 /\ id = min + (id - 1)
            BY <4>1, Sizes
          <5> HIDE DEF min
          <5> QED BY <3>1, <5>1
        <4> QED BY <4>1, <4>2
      <3>3. CASE ~(MaxObjects <= BitmapSize)
        <4>1. PICK i \in 0 .. Work - 1 : min = 1 + i * GroupSpan /\ ~(Members(i) \subseteq files)
          BY <1>1, <3>3 DEF IdInv, Narrowed
        <4>2. PICK id \in Members(i) : id \notin files
          BY <4>1
        <4>3. i * GroupSpan \in Nat
          BY Sizes
        <4>4. id - min \in 0 .. BitmapSize - 1 /\ id = min + (id - min)
          BY <4>1, <4>2, <4>3, Sizes DEF Members
        <4> HIDE DEF min
        <4> QED BY <3>1, <4>2, <4>4
      <3> QED BY <3>2, <3>3
    <2> QED BY <1>6, <2>1, AnswerInv
  <1>7. CASE free # {} /\ Answer("id", min + ClearBit(free))
    <2> DEFINE bit == ClearBit(free)
    <2>1. bit \in free /\ \A y \in free : bit <= y
      <3>1. free \in SUBSET Nat
        BY Sizes
      <3> HIDE DEF free
      <3> QED BY <1>7, <3>1, LeastOfIs DEF ClearBit
    <2>2. bit \in 0 .. BitmapSize - 1 /\ bit \notin Taken
      BY <2>1
    <2> HIDE DEF bit
    <2>3. min + bit \in (Nat \ {0}) \ files
      BY <1>1, <1>3, <2>2, Sizes
    <2>4. ASSUME orphans = {}  PROVE min + bit \in Reachable
      <3>1. CASE MaxObjects <= BitmapSize
        <4>1. min = 1 /\ Reachable = 1 .. BitmapSize
          BY <1>1, <3>1 DEF IdInv, Narrowed, Reachable
        <4> QED BY <2>2, <4>1, Sizes
      <3>2. CASE ~(MaxObjects <= BitmapSize)
        <4>1. PICK i \in 0 .. Work - 1 : min = 1 + i * GroupSpan /\ ~(Members(i) \subseteq files)
          BY <1>1, <3>2 DEF IdInv, Narrowed
        <4>2. PICK id \in Members(i) : id \notin files
          BY <4>1
        <4> DEFINE other == id - min
        <4>3. i * GroupSpan \in Nat
          BY Sizes
        <4>4. other \in 0 .. BitmapSize - 1 /\ id = min + other /\ other < GroupSpan
          BY <4>1, <4>2, <4>3, Sizes DEF Members
        <4> HIDE DEF other
        <4>5. other \notin Taken
          BY <1>4, <2>4, <4>2, <4>4
        <4>6. bit <= other
          BY <2>1, <4>4, <4>5
        <4>7. min + bit \in Members(i)
          BY <2>2, <4>1, <4>3, <4>4, <4>6, Sizes DEF Members
        <4>8. MaxObjects > BitmapSize
          BY <3>2, Sizes
        <4> QED BY <4>7, <4>8, InGroups
      <3> QED BY <3>1, <3>2
    <2> QED BY <1>7, <2>3, <2>4, AnswerInv DEF bit
  <1> QED BY <1>2, <1>5, <1>6, <1>7

LEMMA TakeInv ==
  ASSUME IdInv, Take
  PROVE  IdInv'
  <1>1. /\ answer.is = "id" /\ files' = files \cup {answer.id} /\ answer' = NoAnswer
        /\ removing' = removing /\ orphans' = orphans /\ search' = search
    BY DEF Take
  <1>2. answer.id \in Nat \ {0} /\ (orphans = {} => answer.id \in Reachable) /\ search.at = "idle"
    BY <1>1 DEF IdInv, Answered, NoAnswer, Shape
  <1>3. Shape'
    BY <1>1, <1>2 DEF IdInv, Shape, NoAnswer
  <1>4. Counting' /\ Counted' /\ Narrowed'
    BY <1>1, <1>2 DEF Counting, Counted, Narrowed
  <1>5. answer'.is = "none"
    BY <1>1 DEF NoAnswer
  <1>6. Answered' /\ InReach'
    BY <1>1, <1>2, <1>5 DEF IdInv, Answered, InReach, Reachable
  <1> QED BY <1>3, <1>4, <1>6 DEF IdInv

LEMMA GiveUpInv ==
  ASSUME IdInv, GiveUp
  PROVE  IdInv'
  <1>1. /\ answer.is \in {"full", "conflict"} /\ answer' = NoAnswer
        /\ files' = files /\ removing' = removing /\ orphans' = orphans /\ search' = search
    BY DEF GiveUp
  <1>2. search.at = "idle"
    BY <1>1 DEF IdInv, Answered, NoAnswer, Shape
  <1>3. Shape'
    BY <1>1 DEF IdInv, Shape, NoAnswer
  <1>4. Counting' /\ Counted' /\ Narrowed'
    BY <1>1, <1>2 DEF Counting, Counted, Narrowed
  <1>5. answer'.is = "none"
    BY <1>1 DEF NoAnswer
  <1>6. Answered' /\ InReach'
    BY <1>1, <1>5 DEF IdInv, Answered, InReach, Reachable
  <1> QED BY <1>3, <1>4, <1>6 DEF IdInv

\* Between two searches files only go, and orphans only come.
LEMMA QuietInv ==
  ASSUME IdInv, Quiet, files' \subseteq files, removing' \subseteq files',
         orphans \subseteq orphans', orphans' \subseteq Nat \ {0}
  PROVE  IdInv'
  <1>1. search.at = "idle" /\ answer = NoAnswer /\ search' = search /\ answer' = answer
    BY DEF Quiet
  <1>2. Shape'
    BY <1>1 DEF IdInv, Shape
  <1>3. answer'.is = "none"
    BY <1>1 DEF NoAnswer
  <1>4. orphans' = {} => orphans = {}
    OBVIOUS
  <1>5. Answered' /\ InReach'
    BY <1>1, <1>3, <1>4 DEF IdInv, Answered, InReach, Reachable
  <1>6. Counting' /\ Counted' /\ Narrowed'
    BY <1>1 DEF Counting, Counted, Narrowed
  <1> QED BY <1>2, <1>5, <1>6 DEF IdInv

LEMMA NextInv ==
  ASSUME IdInv, [Next]_vars
  PROVE  IdInv'
  <1> USE DEF IdInv, Shape
  <1>1. ASSUME NEW name \in files \cup {NoName}, Create(name)  PROVE IdInv'
    BY <1>1, CreateInv
  <1>2. CASE CountGroups
    BY <1>2, CountGroupsInv
  <1>3. CASE SelectGroup
    BY <1>3, SelectGroupInv
  <1>4. CASE ScanBits
    BY <1>4, ScanBitsInv
  <1>5. CASE Take
    BY <1>5, TakeInv
  <1>6. CASE GiveUp
    BY <1>6, GiveUpInv
  <1>7. ASSUME NEW id \in files, Remove(id)  PROVE IdInv'
    BY <1>7, QuietInv DEF Remove
  <1>8. ASSUME NEW id \in files, RemoveStops(id)  PROVE IdInv'
    BY <1>8, QuietInv DEF RemoveStops
  <1>9. ASSUME NEW id \in files, RemoveLeaves(id)  PROVE IdInv'
    BY <1>9, QuietInv DEF RemoveLeaves
  <1>10. CASE Check
    BY <1>10, QuietInv DEF Check
  <1>11. CASE UNCHANGED vars
    <2>1. /\ files' = files /\ removing' = removing /\ orphans' = orphans
          /\ search' = search /\ answer' = answer
      BY <1>11 DEF vars
    <2> QED BY <2>1 DEF Counting, Counted, Narrowed, Answered, InReach, Reachable, Members, GroupSpan
  <1> QED BY <1>1, <1>2, <1>3, <1>4, <1>5, <1>6, <1>7, <1>8, <1>9, <1>10, <1>11 DEF Next, SearchStep

LEMMA Inductive == Spec => []IdInv
  <1>1. Init => IdInv
    BY InitInv
  <1>2. IdInv /\ [Next]_vars => IdInv'
    BY NextInv
  <1> QED BY <1>1, <1>2, PTL DEF Spec

-----------------------------------------------------------------------------
(* What follows *)

\* For every number of ids and every size of the work buffer that
\* GroupAssumption allows: a new file never gets the id of another one, whatever
\* removals and power losses there were, and while there are no orphan pages
\* "full" is only answered when no id that can be given is left.
THEOREM SearchCorrect == Spec => []SearchInv
  <1>1. IdInv => SearchInv
    BY DEF IdInv, Shape, Answered, SearchInv, TypeOK, IdIsNew, FullIsFull
  <1> QED BY <1>1, Inductive, PTL

\* Under the same assumption the scan by groups counts in the work buffer only,
\* although the code does not check the index.
THEOREM BufferKept == Spec => []CountsInBuffer
  <1>1. ASSUME IdInv  PROVE CountsInBuffer
    <2> SUFFICES ASSUME search.at = "count", orphans = {}, NEW id \in files
                 PROVE  Group(id, GroupSize) < Work
      BY DEF CountsInBuffer
    <2>1. search.min = 1 /\ search.max = MaxObjects + 1 /\ MaxObjects > BitmapSize
      BY <1>1 DEF IdInv, Counting
    <2>2. GroupSize = GroupSpan
      BY <2>1, Sizes DEF GroupSize, GroupSpan
    <2>3. id \in Reachable /\ id \in Nat \ {0}
      BY <1>1 DEF IdInv, InReach, Shape
    <2>4. PICK i \in 0 .. Work - 1 : id \in Members(i)
      BY <2>1, <2>3, InGroups
    <2>5. (id - 1) \div GroupSpan = i
      BY <2>1, <2>3, <2>4, GroupIs, Sizes
    <2> QED BY <2>1, <2>2, <2>5, Sizes DEF Group
  <1>2. IdInv => CountsInBuffer
    BY <1>1
  <1> QED BY <1>2, Inductive, PTL

\* Under the same assumption no search that asks for the name of a file ends
\* with an id, whether it counts groups first or not.
THEOREM NamesRefused == Spec => NameRefused
  <1>1. ASSUME IdInv, [Next]_vars, search.asked \in files \ removing, search.at # "idle"
        PROVE  answer'.is # "id"
    <2>1. answer = NoAnswer /\ search.at \in {"count", "select", "bits"}
      BY <1>1 DEF IdInv, Answered, Shape
    <2>2. answer.is = "none"
      BY <2>1 DEF NoAnswer
    <2>3. search.at # "select"
      BY <1>1 DEF IdInv, Counted
    <2>4. CASE CountGroups
      <3>1. Conflict(search.name, files)
        BY <1>1, <2>4 DEF CountGroups, IdInv, Counted, Conflict
      <3>2. Answer("conflict", 0)
        BY <2>4, <3>1 DEF CountGroups
      <3> QED BY <3>2 DEF Answer
    <2>5. CASE ScanBits
      <3>1. Conflict(search.asked, files \ removing)
        BY <1>1 DEF Conflict
      <3>2. Answer("conflict", 0)
        BY <2>5, <3>1 DEF ScanBits
      <3> QED BY <3>2 DEF Answer
    <2>6. ~(Take \/ GiveUp \/ SelectGroup)
      BY <2>2, <2>3 DEF Take, GiveUp, SelectGroup
    <2>7. ~(\E name \in files \cup {NoName} : Create(name))
      BY <1>1 DEF Create
    <2>8. ~((\E id \in files : Remove(id) \/ RemoveStops(id) \/ RemoveLeaves(id)) \/ Check)
      BY <1>1 DEF Remove, RemoveStops, RemoveLeaves, Check, Quiet
    <2>9. CASE UNCHANGED vars
      BY <2>2, <2>9 DEF vars
    <2> QED BY <1>1, <2>4, <2>5, <2>6, <2>7, <2>8, <2>9 DEF Next, SearchStep
  <1>2. IdInv /\ [Next]_vars => (search.asked \in files \ removing /\ search.at # "idle" => answer'.is # "id")
    BY <1>1
  <1>3. IdInv /\ [Next]_vars => [search.asked \in files \ removing /\ search.at # "idle" => answer'.is # "id"]_vars
    BY <1>2
  <1> QED BY <1>3, Inductive, PTL DEF Spec, NameRefused
=============================================================================
