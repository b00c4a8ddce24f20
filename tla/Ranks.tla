-------------------------------- MODULE Ranks --------------------------------
(***************************************************************************)
(* The manual order of a project's items, kept as rank strings.            *)
(*                                                                         *)
(* A rank is a string of digits; ranks are compared as strings.  An item   *)
(* is put between two others by making a string between theirs; when that  *)
(* is too long all ranks of the project are spread out again.  Moves and   *)
(* creations run under the sequence lock and are one step; the operator's  *)
(* RebalanceProject reads the ranks before it waits for that lock.         *)
(***************************************************************************)
EXTENDS Integers, Sequences, FiniteSets, FiniteSetsExt, SequencesExt

CONSTANTS Cards,      \* the items of the project
          NoCard,     \* no item: the top of the list
          Base,       \* length of rankAlphabet
          RankFirst,  \* the digit of the first rank
          Threshold,  \* RankRebalanceThreshold
          MaxChanges  \* bound on the requests of a behaviour

ASSUME RanksAssumption == /\ NoCard \notin Cards
                          /\ Base \in Nat /\ Base > 2
                          /\ RankFirst \in 1..(Base - 1)
                          /\ Threshold \in Nat \ {0}
                          /\ MaxChanges \in Nat

VARIABLES rank,  \* rank[i]: a sequence of digits, empty if there is no item i
          ask,   \* the move that is asked for, or Nothing
          job,   \* the ranks RebalanceProject has read
          count  \* how many requests were made

rankVars == <<rank, ask, job, count>>

Nothing == [item |-> NoCard, after |-> NoCard]

-----------------------------------------------------------------------------
(* Rank strings *)

Less(s, t) == \/ Len(s) < Len(t) /\ s = SubSeq(t, 1, Len(s))
              \/ \E k \in 1..Len(s) : /\ k <= Len(t) /\ s[k] < t[k]
                                      /\ \A m \in 1..(k - 1) : s[m] = t[m]

rankAt(s, i) == IF i > Len(s) THEN 0 ELSE s[i]

(* The positions where the loop of RankBetween stops descending; it never  *)
(* ends if there is none.                                                  *)
Apart(lo, hi) == {i \in 1..Max({Len(lo), Len(hi)}) : rankAt(lo, i) # rankAt(hi, i)}

Ends(lo, hi) == hi = << >> \/ Apart(lo, hi) # {}

Digits(s, n) == [k \in 1..n |-> rankAt(s, k)]

(* After everything: bump the last digit if there is room, else append. *)
RankAfter(lo) == IF lo = << >> THEN <<RankFirst>>
                 ELSE IF Last(lo) < Base - 1 THEN Append(Front(lo), Last(lo) + 1)
                 ELSE Append(lo, RankFirst)

(* Mutant: of adjacent digits the lower one is taken for a digit between. *)
RankBetweenClose(lo, hi) ==
    IF hi = << >> THEN RankAfter(lo)
    ELSE LET i == Min(Apart(lo, hi))
         IN Append(Digits(lo, i - 1), (rankAt(lo, i) + rankAt(hi, i)) \div 2)

(* A digit between the first two that differ; of adjacent ones the lower,  *)
(* and then past what is left of lo.                                       *)
RankBetween(lo, hi) ==
    IF hi = << >> THEN RankAfter(lo)
    ELSE LET i == Min(Apart(lo, hi))
             j == Min({k \in (i + 1)..(i + 1 + Len(lo)) : rankAt(lo, k) < Base - 1})
         IN IF rankAt(hi, i) - rankAt(lo, i) > 1
            THEN Append(Digits(lo, i - 1), (rankAt(lo, i) + rankAt(hi, i)) \div 2)
            ELSE Append(Digits(lo, j - 1), (rankAt(lo, j) + Base) \div 2)

intPow[exp \in Nat] == IF exp = 0 THEN 1 ELSE intPow[exp - 1] * Base

(* A project never has as many items as there are ranks one digit shorter  *)
(* than the threshold: 36^39 in the code.                                  *)
ASSUME RoomAssumption == IsFiniteSet(Cards) /\ intPow[Threshold - 1] >= Cardinality(Cards) + 2

rankEncode(v, width) == [k \in 1..width |-> (v \div intPow[width - k]) % Base]

(* n ranks of one width, evenly spaced, both ends left free. *)
RankSequence(n) ==
    LET width == Min({w \in 1..(n + 2) : intPow[w] >= n + 2})
        capacity == intPow[width]
        step == IF capacity > n + 2 THEN Max({1, (capacity - 2) \div (n + 1)}) ELSE 1
    IN [k \in 1..n |-> rankEncode(k * step, width)]

RankNeedsRebalance(r) == Len(r) > Threshold

(* A new project, or one whose ranks were just spread out. *)
InitRanks == /\ \/ rank = [i \in Cards |-> << >>]
                \/ rank \in Bijection(Cards, ToSet(RankSequence(Cardinality(Cards))))
             /\ ask = Nothing
             /\ job = << >>
             /\ count = 0

Count == count < MaxChanges /\ count' = count + 1

-----------------------------------------------------------------------------
(* The project *)

Present(rk) == {i \in Cards : rk[i] # << >>}

(* The items in the order of their ranks: k - 1 of them are ahead of the   *)
(* k-th.                                                                   *)
Order(rk) ==
    [k \in 1..Cardinality(Present(rk)) |->
        CHOOSE i \in Present(rk) :
            Cardinality({j \in Present(rk) : Less(rk[j], rk[i])}) = k - 1]

(* ListProjectRanks *)
Listed(rk) == [k \in 1..Cardinality(Present(rk)) |-> rk[Order(rk)[k]]]

(* Mutant: ranks the map does not name are left as they are. *)
MapAcceptedPartly(rk, old) == old # << >>

(* sierx_set_project_ranks: every rank of the project must be named. *)
MapAccepted(rk, old) == /\ Len(old) = Cardinality(Present(rk))
                        /\ \A i \in Present(rk) : rk[i] \in ToSet(old)

SetProjectRanks(rk, old) ==
    [i \in Cards |-> IF rk[i] \in ToSet(old)
                     THEN RankSequence(Len(old))[CHOOSE k \in 1..Len(old) : old[k] = rk[i]]
                     ELSE rk[i]]

(* The ranks of the item to follow and of the next one, i itself left out. *)
Neighbours(rk, i, after) ==
    LET lo == IF after = NoCard THEN << >> ELSE rk[after]
        higher == {j \in Present(rk) \ {i} : Less(lo, rk[j])}
    IN <<lo, IF higher = {} THEN << >>
             ELSE rk[CHOOSE j \in higher : \A m \in higher : j = m \/ Less(rk[j], rk[m])]>>

Between(gap) == RankBetween(gap[1], gap[2])

(* rankForNewItem and the insert. *)
Create(i) ==
    LET last(rk) == <<IF Present(rk) = {} THEN << >> ELSE rk[Last(Order(rk))], << >> >>
        rk == IF RankNeedsRebalance(Between(last(rank)))
              THEN SetProjectRanks(rank, Listed(rank)) ELSE rank
    IN /\ rank[i] = << >>
       /\ rank' = [rk EXCEPT ![i] = Between(last(rk))]
       /\ Count
       /\ UNCHANGED <<ask, job>>

AskMove(i, after) ==
    /\ ask = Nothing
    /\ i # after
    /\ {i, after} \ {NoCard} \subseteq Present(rank)
    /\ ask' = [item |-> i, after |-> after]
    /\ Count
    /\ UNCHANGED <<rank, job>>

(* applyReparent, its two attempts; without room in the second the item    *)
(* stays where it was.                                                     *)
Move ==
    LET i == ask.item
        gap == Neighbours(rank, i, ask.after)
        spread == SetProjectRanks(rank, Listed(rank))
        second == Neighbours(spread, i, ask.after)
    IN /\ ask # Nothing
       /\ {i, ask.after} \ {NoCard} \subseteq Present(rank)
       /\ Ends(gap[1], gap[2])
       /\ rank' = IF ~RankNeedsRebalance(Between(gap)) THEN [rank EXCEPT ![i] = Between(gap)]
                  ELSE IF ~RankNeedsRebalance(Between(second))
                       THEN [spread EXCEPT ![i] = Between(second)]
                  ELSE rank
       /\ ask' = Nothing
       /\ UNCHANGED <<job, count>>

(* The item, or the one to follow, is gone: ErrInvalidMove. *)
RefuseMove ==
    /\ ask # Nothing
    /\ ~ {ask.item, ask.after} \ {NoCard} \subseteq Present(rank)
    /\ ask' = Nothing
    /\ UNCHANGED <<rank, job, count>>

HardDelete(i) == /\ rank[i] # << >>
                 /\ rank' = [rank EXCEPT ![i] = << >>]
                 /\ Count
                 /\ UNCHANGED <<ask, job>>

(* RebalanceProject reads, waits for the lock ... *)
RebalanceRead == /\ job = << >>
                 /\ job' = Listed(rank)
                 /\ job' # << >>
                 /\ Count
                 /\ UNCHANGED <<rank, ask>>

(* ... and writes what it read, or fails. *)
RebalanceWrite == /\ job # << >>
                  /\ rank' = IF MapAccepted(rank, job) THEN SetProjectRanks(rank, job) ELSE rank
                  /\ job' = << >>
                  /\ UNCHANGED <<ask, count>>

NextRanks == \/ \E i \in Cards : Create(i) \/ HardDelete(i)
             \/ \E i \in Cards, after \in Cards \cup {NoCard} : AskMove(i, after)
             \/ Move \/ RefuseMove
             \/ RebalanceRead \/ RebalanceWrite

SpecRanks == InitRanks /\ [][NextRanks]_rankVars

-----------------------------------------------------------------------------
(* Properties *)

(* rank.go:44 "returns a rank that sorts strictly between lo and hi": no   *)
(* two items share a rank, none is longer than the column's forty digits,  *)
(* and above, below and between any two neighbours RankBetween ends and    *)
(* makes a rank that lies strictly there; also where a respread has made   *)
(* ranks that end in the lowest digit, after which only some strings have  *)
(* room below.                                                             *)
RoomEverywhere ==
    LET s == <<(<< >>)>> \o Listed(rank) IN
    /\ \A i, j \in Present(rank) : i # j => rank[i] # rank[j]
    /\ \A i \in Present(rank) : ~RankNeedsRebalance(rank[i])
    /\ \A k \in 1..Len(s) :
        LET hi == IF k = Len(s) THEN << >> ELSE s[k + 1] IN
        /\ Ends(s[k], hi)
        /\ Less(s[k], RankBetween(s[k], hi))
        /\ hi # << >> => Less(RankBetween(s[k], hi), hi)

(* The order of the items before and after a step; moved holds of a move   *)
(* that is carried out.                                                    *)
OrderStep ==
    LET i == ask.item
        asked == {i, ask.after} \ {NoCard}
        moved == ask # Nothing /\ ask' = Nothing /\ asked \subseteq Present(rank)
        others == (Present(rank) \cap Present(rank')) \ (IF moved THEN {i} ELSE {})
    IN /\ \A j, m \in others : Less(rank'[j], rank'[m]) <=> Less(rank[j], rank[m])
       /\ moved =>
             /\ Present(rank') = Present(rank)
             /\ \A j \in others :
                   Less(rank'[j], rank'[i]) <=>
                       \/ j = ask.after
                       \/ ask.after # NoCard /\ Less(rank[j], rank[ask.after])

(* SPEC 5.5, move.go rank_after: a move that is carried out leaves the     *)
(* item right after the one it was to follow and the others as they were,  *)
(* with a respread on the way too, and it is never given up for want of    *)
(* room; nothing else reorders items, RebalanceProject with ranks that are *)
(* no longer those of the project (mutate.go:572) included.                *)
OrderAsAsked == [][OrderStep]_rankVars
=============================================================================
