-------------------------- MODULE SpiffsEraseCount --------------------------
(***************************************************************************)
(* Erase counts and the ages of blocks: the counter in RAM that            *)
(* spiffs_erase_block writes into each block it erases, what a mount makes *)
(* of the counts it finds, and the age of a block in the score by which    *)
(* the collector chooses the next one to erase.                            *)
(*                                                                         *)
(* What is in the blocks is not modelled: for every choice they may have   *)
(* any number of deleted and used pages.                                   *)
(***************************************************************************)
EXTENDS Integers, FiniteSetsExt

CONSTANTS
    B,            \* fs->block_count
    Flag,         \* SPIFFS_OBJ_ID_IX_FLAG, the highest bit of a count (0x8000 in the code)
    WAge,         \* SPIFFS_GC_HEUR_W_ERASE_AGE
    MaxGain,      \* the largest difference that deleted and used pages make in a score
    MountAtWrap,  \* whether the file system is mounted with counts on both sides of the wrap
    MaxSince,     \* bound: no block is left alone for more erases than this
    MaxLosses     \* bound on the blocks whose count is lost to a power loss

ASSUME CountAssumption == Flag \in Nat /\ B \in 1 .. Flag - 1 /\ MaxSince \in B .. Flag
ASSUME ScoreAssumption == WAge \in Nat \ {0} /\ MaxGain \in Nat
ASSUME LossAssumption == MaxLosses \in Nat

VARIABLES
    count,    \* the erase count in each block
    max,      \* fs->max_erase_count
    since,    \* the erases since that of each block, its own included (history)
    passed,   \* of these, how many the collector chose by age since a count was lost (history)
    losses    \* how often power was lost before a count was written

vars == <<count, max, since, passed, losses>>

Blocks == 0 .. B - 1

Free == 2 * Flag - 1    \* SPIFFS_OBJ_ID_FREE, a count that was never written

Counted(b) == count[b] # Free

-----------------------------------------------------------------------------
\* The code's arithmetic

\* max_erase_count after an erase.
NextCount(m) == LET n == (m + 1) % (2 * Flag) IN IF n = Flag THEN 0 ELSE n

\* max_erase_count after mounting with the counts c.
Mounted(c) ==
    LET known   == {c[b] : b \in Blocks} \ {Free}
        highest == Max(known \cup {0})
        lowest  == Min(known \cup {Free})
    IN  IF lowest = 0 /\ highest = Free THEN 0
        ELSE IF highest - lowest > Free \div 2 THEN lowest + 1
        ELSE highest + 1

\* The age of a block by the distance of the counts, whichever is larger.
AgeByDistance(b) == IF max > count[b] THEN max - count[b] ELSE count[b] - max

Age(b) == IF max > count[b] THEN max - count[b] ELSE Free - (count[b] - max)

\* The age does not count.
CandidateCrammed(gain) ==
    CHOOSE b \in Blocks : \A c \in Blocks :
        gain[b] >= gain[c] /\ (c < b => gain[b] > gain[c])

\* The first block with the best score, when deleted and used pages are worth gain.
Candidate(gain) ==
    CHOOSE b \in Blocks : \A c \in Blocks :
        LET score(d) == gain[d] + WAge * Age(d) IN
        score(b) >= score(c) /\ (c < b => score(b) > score(c))

-----------------------------------------------------------------------------
\* SPIFFS_format, and the mount that follows it.
Init ==
    /\ count = [b \in Blocks |-> 0]
    /\ max = 1
    /\ since = [b \in Blocks |-> 1]
    /\ passed = [b \in Blocks |-> 0]
    /\ losses = 0

\* Only the oldest block, once one has been left alone for long (a bound).
InBound(b) ==
    \/ \A c \in Blocks : since[c] < MaxSince - B
    \/ \A c \in Blocks : since[c] <= since[b]

\* spiffs_erase_block
Erase(b) ==
    /\ InBound(b)
    /\ count' = [count EXCEPT ![b] = max]
    /\ max' = NextCount(max)
    /\ since' = [c \in Blocks |-> IF c = b THEN 1 ELSE since[c] + 1]
    /\ UNCHANGED losses

\* The collector chooses a block by its score, age included, and erases it.
EraseByAge ==
    \E gain \in [Blocks -> 0 .. MaxGain] :
        /\ Erase(Candidate(gain))
        /\ passed' = [c \in Blocks |-> IF c = Candidate(gain) THEN 0 ELSE passed[c] + 1]

\* A quick collection, or one of a crammed file system, erases a block of any age.
EraseAny ==
    \E b \in Blocks :
        /\ Erase(b)
        /\ passed' = [passed EXCEPT ![b] = 0]

\* There are counts from before the wrap of the counter, and from after it or soon to be.
AtWrap ==
    \/ \E a, b \in Blocks : Counted(a) /\ Counted(b) /\ since[a] > since[b] /\ count[a] > count[b]
    \/ \E b \in Blocks : count[b] = Flag - 1

Remount ==
    /\ MountAtWrap \/ ~AtWrap
    /\ max' = Mounted(count)
    /\ UNCHANGED <<count, since, passed, losses>>

\* Power is lost after a block is erased and before its count is written.
LoseCount ==
    \E b \in Blocks :
        LET left == [count EXCEPT ![b] = Free] IN
        /\ MountAtWrap \/ ~AtWrap
        /\ losses < MaxLosses
        /\ count' = left
        /\ max' = Mounted(left)
        /\ passed' = [c \in Blocks |-> 0]
        /\ losses' = losses + 1
        /\ UNCHANGED since

Next == EraseByAge \/ EraseAny \/ Remount \/ LoseCount

Spec == Init /\ [][Next]_vars

-----------------------------------------------------------------------------
\* Properties

\* A count is never the one that means free, and the counter never the highest
\* bit: it goes round below it, as spiffs_erase_block has it.
TypeOK ==
    /\ count \in [Blocks -> (0 .. Flag - 1) \cup {Free}]
    /\ max \in 0 .. Flag - 1
    /\ since \in [Blocks -> 1 .. MaxSince]
    /\ passed \in [Blocks -> 0 .. MaxSince]
    /\ losses \in 0 .. MaxLosses

\* "old blocks" are the most prone to be chosen (spiffs_config.h:143, "To have a
\* fair wear-leveling, the erase age is also included in score"): of two blocks
\* that have their counts, the one erased earlier has the greater age, whatever
\* erases, wraps of the counter and mounts there were.
AgesOrdered ==
    \A a, b \in Blocks : Counted(a) /\ Counted(b) /\ since[a] > since[b] => Age(a) > Age(b)

\* No block with a count is passed over for ever: once its age outweighs all the
\* pages there are, every other block comes before it once at the most.
NotNeglected ==
    \A b \in Blocks : Counted(b) => passed[b] <= (MaxGain \div WAge) + B - 1

\* Counter, counts and ages together.
CountsInv == TypeOK /\ AgesOrdered
=============================================================================
