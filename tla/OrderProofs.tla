----------------------------- MODULE OrderProofs -----------------------------
(***************************************************************************)
(* Proofs about the two components that rest on an order: Listing, where a *)
(* page is read in the order of the query, and Ranks, where the order is   *)
(* that of the rank strings.  For every finite set of rows and items, all  *)
(* values, page sizes, alphabets and thresholds.                           *)
(***************************************************************************)
EXTENDS Listing, Ranks, FiniteSetTheorems, SequenceTheorems, WellFoundedInduction, TLAPS

USE ListingAssumption, RanksAssumption

(* The least of a set of numbers. *)
LEMMA LeastNatural ==
  ASSUME NEW S \in SUBSET Nat, S # {}
  PROVE  \E x \in S : \A y \in S : x <= y
<1>1. PICK x \in S : \A y \in S : ~ (<<y, x>> \in OpToRel(<, Nat))
  BY NatLessThanWellFounded, WFMin
<1>2. \A y \in S : ~ (y < x)
  BY <1>1 DEF OpToRel
<1> QED
  BY <1>2

-----------------------------------------------------------------------------
(* Sorting by counting.  R is a set of pairs that orders S. *)

StrictTotal(R, S) ==
    /\ \A i \in S : <<i, i>> \notin R
    /\ \A i, j \in S : i # j => <<i, j>> \in R \/ <<j, i>> \in R
    /\ \A i, j, k \in S : <<i, j>> \in R /\ <<j, k>> \in R => <<i, k>> \in R

Before(R, S, i) == {j \in S : <<j, i>> \in R}

Place(R, S, i) == Cardinality(Before(R, S, i))

(* s lists every member of S, each ahead of those that follow it. *)
Sorted(R, S, s) ==
    /\ s \in [1..Cardinality(S) -> S]
    /\ \A i \in S : \E k \in 1..Cardinality(S) : s[k] = i
    /\ \A k, m \in 1..Cardinality(S) : k < m => <<s[k], s[m]>> \in R

LEMMA PlaceType ==
  ASSUME NEW S, IsFiniteSet(S), NEW R, StrictTotal(R, S), NEW i \in S
  PROVE  /\ Cardinality(S) \in Nat
         /\ Place(R, S, i) \in Nat
         /\ Place(R, S, i) < Cardinality(S)
<1>1. Before(R, S, i) \in SUBSET S /\ Before(R, S, i) # S
  BY DEF Before, StrictTotal
<1>2. Cardinality(S) \in Nat
  BY FS_CardinalityType
<1>3. IsFiniteSet(Before(R, S, i)) /\ Cardinality(Before(R, S, i)) \in Nat
  BY <1>1, FS_Subset, FS_CardinalityType
<1>4. /\ Cardinality(Before(R, S, i)) <= Cardinality(S)
      /\ Cardinality(Before(R, S, i)) # Cardinality(S)
  BY <1>1, FS_Subset
<1> QED
  BY <1>2, <1>3, <1>4 DEF Place

LEMMA PlaceGrows ==
  ASSUME NEW S, IsFiniteSet(S), NEW R, StrictTotal(R, S),
         NEW i \in S, NEW j \in S, <<i, j>> \in R
  PROVE  Place(R, S, i) < Place(R, S, j)
<1>1. Before(R, S, j) \in SUBSET S
  BY DEF Before
<1>2. IsFiniteSet(Before(R, S, j))
  BY <1>1, FS_Subset
<1>3. Before(R, S, i) \in SUBSET Before(R, S, j)
  BY DEF Before, StrictTotal
<1>4. Before(R, S, i) # Before(R, S, j)
  BY DEF Before, StrictTotal
<1>5. /\ Cardinality(Before(R, S, i)) <= Cardinality(Before(R, S, j))
      /\ Cardinality(Before(R, S, i)) # Cardinality(Before(R, S, j))
  BY <1>2, <1>3, <1>4, FS_Subset
<1> QED
  BY <1>5, PlaceType DEF Place

PlacesFilled(R, S) == \A k \in 1..Cardinality(S) : \E i \in S : Place(R, S, i) = k - 1

(* No place is left out: there are as many places as members. *)
LEMMA PlaceOnto ==
  ASSUME NEW S, IsFiniteSet(S), NEW R, StrictTotal(R, S)
  PROVE  PlacesFilled(R, S)
<1> SUFFICES ASSUME NEW n \in Nat, n = Cardinality(S), NEW k \in Nat, k < n
             PROVE  \E i \in S : Place(R, S, i) = k
  <2>1. PICK n \in Nat : n = Cardinality(S)
    BY FS_CardinalityType
  <2>2. \A m \in 1..n : m - 1 \in Nat /\ m - 1 < n
    OBVIOUS
  <2> QED
    BY <2>1, <2>2 DEF PlacesFilled
<1>1. PICK f : f = [i \in S |-> Place(R, S, i)]
  OBVIOUS
<1>2. f \in [S -> 0..(n - 1)]
  BY <1>1, PlaceType
<1>3. \A i, j \in S : f[i] = f[j] => i = j
  <2> SUFFICES ASSUME NEW i \in S, NEW j \in S, f[i] = f[j], i # j PROVE FALSE
    OBVIOUS
  <2>1. <<i, j>> \in R \/ <<j, i>> \in R
    BY DEF StrictTotal
  <2>2. Place(R, S, i) < Place(R, S, j) \/ Place(R, S, j) < Place(R, S, i)
    BY <2>1, PlaceGrows
  <2>3. Place(R, S, i) \in Nat /\ Place(R, S, j) \in Nat
    BY PlaceType
  <2> QED
    BY <1>1, <2>2, <2>3
<1>4. f \in Injection(S, 0..(n - 1))
  BY <1>2, <1>3 DEF Injection, IsInjective
<1>5. IsFiniteSet(0..(n - 1)) /\ Cardinality(0..(n - 1)) = n
  <2>1. 0 \in Int /\ n - 1 \in Int
    OBVIOUS
  <2>2. /\ IsFiniteSet(0..(n - 1))
        /\ Cardinality(0..(n - 1)) = IF 0 > n - 1 THEN 0 ELSE (n - 1) - 0 + 1
    BY <2>1, FS_Interval
  <2> QED
    BY <2>2
<1>6. f \in Surjection(S, 0..(n - 1))
  BY <1>4, <1>5, FS_Injection
<1>7. k \in 0..(n - 1)
  OBVIOUS
<1> QED
  BY <1>1, <1>6, <1>7 DEF Surjection

(* What InOrder and Order compute: the list of the members by place. *)
LEMMA SortedByPlace ==
  ASSUME NEW S, IsFiniteSet(S), NEW R, StrictTotal(R, S),
         NEW s \in [1..Cardinality(S) -> S],
         \A k \in 1..Cardinality(S) : Place(R, S, s[k]) = k - 1
  PROVE  Sorted(R, S, s)
<1> PICK n \in Nat : n = Cardinality(S)
  BY FS_CardinalityType
<1>1. \A k \in 1..n : s[k] \in S /\ Place(R, S, s[k]) = k - 1
  OBVIOUS
<1>2. s \in [1..n -> S]
  BY <1>1
<1>3. \A k, m \in 1..n : k < m => <<s[k], s[m]>> \in R
  <2> SUFFICES ASSUME NEW k \in 1..n, NEW m \in 1..n, k < m, <<s[k], s[m]>> \notin R
               PROVE  FALSE
    OBVIOUS
  <2>1. s[k] # s[m]
    BY <1>1
  <2>2. <<s[m], s[k]>> \in R
    BY <1>1, <2>1 DEF StrictTotal
  <2>3. Place(R, S, s[m]) < Place(R, S, s[k])
    BY <1>1, <2>2, PlaceGrows
  <2> QED
    BY <1>1, <2>3
<1>4. \A i \in S : \E k \in 1..n : s[k] = i
  <2> TAKE i \in S
  <2>1. PICK h \in Nat : h = Place(R, S, i) /\ h < n
    BY PlaceType
  <2>2. PICK k \in 1..n : k = h + 1
    BY <2>1
  <2>3. Place(R, S, s[k]) = h /\ s[k] \in S
    BY <1>1, <2>2
  <2>4. ASSUME s[k] # i PROVE FALSE
    <3>1. <<s[k], i>> \in R \/ <<i, s[k]>> \in R
      BY <2>3, <2>4 DEF StrictTotal
    <3>2. Place(R, S, s[k]) < Place(R, S, i) \/ Place(R, S, i) < Place(R, S, s[k])
      BY <2>3, <3>1, PlaceGrows
    <3> QED
      BY <2>1, <2>3, <3>2
  <2> QED
    BY <2>2, <2>4
<1> QED
  BY <1>2, <1>3, <1>4 DEF Sorted

-----------------------------------------------------------------------------
(* Listing *)

ListTypeOK ==
    /\ rows \in [Ids -> Row \cup {NoRow}]
    /\ hour \in Nat
    /\ list \in [phase : {"none", "reading", "more", "done"},
                 scope : Queries \cup {"none"}, at : Nat, upper : Nat,
                 after : Nat, sort : Values \cup {Null}, seen : Seq(Ids)]
    /\ stable \in SUBSET Ids

Occurs(s, i) == \E k \in 1..Len(s) : s[k] = i

OnlyOnce(s, i) == \A k, m \in 1..Len(s) : s[k] = i /\ s[m] = i => k = m

(* The position says which of the stable rows have been returned: those    *)
(* that are not beyond it, whatever has become of the row it was taken     *)
(* from.  This is what makes ListedOnce inductive.                         *)
PositionTells ==
    \A i \in stable :
        /\ Matches(i, list.at)
        /\ i <= list.upper
        /\ OnlyOnce(list.seen, i)
        /\ list.phase \in {"reading", "more"} => (Occurs(list.seen, i) <=> ~ Beyond(list, i))
        /\ list.phase = "done" => Occurs(list.seen, i)

ListInv ==
    /\ ListTypeOK
    /\ list.phase = "none" => stable = {}
    /\ list.phase # "none" => list.scope \in Queries
    /\ PositionTells

(* The order of a query, as a set of pairs. *)
QueryOrder(q, S) == {p \in S \X S : Precedes(q, p[1], p[2])}

LEMMA RowSort ==
  ASSUME ListTypeOK, NEW i \in Ids
  PROVE  /\ rows[i].sort \in Values \cup {Null}
         /\ i \in Nat /\ i # 0
         /\ rows[i].sort # Null => rows[i].sort \in Nat
<1>1. rows[i] \in Row \cup {NoRow}
  BY DEF ListTypeOK
<1>2. rows[i].sort \in Values \cup {Null}
  <2>1. CASE rows[i] \in Row
    BY <2>1 DEF Row
  <2>2. CASE rows[i] = NoRow
    BY <2>2 DEF NoRow
  <2> QED
    BY <1>1, <2>1, <2>2
<1> QED
  BY <1>2

LEMMA PrecedesIrreflexive ==
  ASSUME ListTypeOK, NEW q \in Queries, NEW i \in Ids
  PROVE  ~ Precedes(q, i, i)
<1>1. ~ (i < i) /\ ~ (i > i)
  OBVIOUS
<1> QED
  BY <1>1 DEF Precedes

LEMMA PrecedesTotal ==
  ASSUME ListTypeOK, NEW q \in Queries, NEW i \in Ids, NEW j \in Ids, i # j
  PROVE  Precedes(q, i, j) \/ Precedes(q, j, i)
<1>1. q \in {"id", "asc", "desc", "history"}
  OBVIOUS
<1> QED
  BY <1>1, RowSort DEF Precedes

LEMMA PrecedesTransitive ==
  ASSUME ListTypeOK, NEW q \in Queries, NEW i \in Ids, NEW j \in Ids, NEW k \in Ids,
         Precedes(q, i, j), Precedes(q, j, k)
  PROVE  Precedes(q, i, k)
<1>0. q \in {"id", "asc", "desc", "history"}
  OBVIOUS
<1>1. CASE q = "id"
  BY <1>1, RowSort DEF Precedes
<1>2. CASE q = "history"
  BY <1>2, RowSort DEF Precedes
<1>3. CASE q = "asc"
  BY <1>3, RowSort DEF Precedes
<1>4. CASE q = "desc"
  BY <1>4, RowSort DEF Precedes
<1> QED
  BY <1>0, <1>1, <1>2, <1>3, <1>4

(* A page's rows are the candidates, each once, in the order of the query. *)
LEMMA PageSorted ==
  ASSUME ListTypeOK, NEW q \in Queries, NEW S \in SUBSET Ids
  PROVE  /\ IsFiniteSet(S)
         /\ Sorted(QueryOrder(q, S), S, InOrder(q, S))
<1>1. IsFiniteSet(S)
  BY FS_Subset
<1>2. PICK R : R = QueryOrder(q, S)
  OBVIOUS
<1>3. \A i, j \in S : <<i, j>> \in R <=> Precedes(q, i, j)
  BY <1>2 DEF QueryOrder
<1>4. StrictTotal(R, S)
  <2>1. S \subseteq Ids
    OBVIOUS
  <2>2. \A i \in S : <<i, i>> \notin R
    BY <1>3, <2>1, PrecedesIrreflexive
  <2>3. \A i, j \in S : i # j => <<i, j>> \in R \/ <<j, i>> \in R
    BY <1>3, <2>1, PrecedesTotal
  <2>4. ASSUME NEW i \in S, NEW j \in S, NEW k \in S, <<i, j>> \in R, <<j, k>> \in R
        PROVE  <<i, k>> \in R
    BY <1>3, <2>1, <2>4, PrecedesTransitive
  <2> QED
    BY <2>2, <2>3, <2>4 DEF StrictTotal
<1>5. \A i \in S : Cardinality({j \in S : Precedes(q, j, i)}) = Place(R, S, i)
  <2> TAKE i \in S
  <2>1. Before(R, S, i) = {j \in S : Precedes(q, j, i)}
    BY <1>3 DEF Before
  <2> QED
    BY <2>1 DEF Place
<1>6. PICK n \in Nat : n = Cardinality(S)
  BY <1>1, FS_CardinalityType
<1>7. PICK s : s = InOrder(q, S)
  OBVIOUS
<1>8. s = [k \in 1..n |->
              CHOOSE i \in S : Cardinality({j \in S : Precedes(q, j, i)}) = k - 1]
  BY <1>6, <1>7 DEF InOrder
<1>9. ASSUME NEW k \in 1..n
      PROVE  s[k] \in S /\ Place(R, S, s[k]) = k - 1
  <2>1. PlacesFilled(R, S)
    BY <1>1, <1>4, PlaceOnto
  <2>2. \E i \in S : Place(R, S, i) = k - 1
    BY <1>6, <2>1 DEF PlacesFilled
  <2> DEFINE Kth(i) == Cardinality({j \in S : Precedes(q, j, i)}) = k - 1
  <2>3. s[k] = CHOOSE i \in S : Kth(i)
    BY <1>8
  <2>4. \A i \in S : Kth(i) <=> Place(R, S, i) = k - 1
    BY <1>5
  <2> HIDE DEF Kth
  <2>5. s[k] \in S /\ Kth(s[k])
    BY <2>2, <2>3, <2>4
  <2> QED
    BY <2>4, <2>5
<1>10. s \in [1..n -> S]
  BY <1>8, <1>9
<1> QED
  BY <1>1, <1>2, <1>4, <1>6, <1>7, <1>9, <1>10, SortedByPlace

(* The predicate built from a cursor is the order itself, seen from the    *)
(* row the cursor was made from.                                           *)
LEMMA BeyondPrecedes ==
  ASSUME ListTypeOK, NEW c, NEW i \in Ids, NEW j \in Ids, c.scope \in Queries,
         c.after = j, c.sort = rows[j].sort
  PROVE  Beyond(c, i) <=> Precedes(c.scope, j, i)
<1>0. c.scope \in {"id", "asc", "desc", "history"} /\ c.after # 0
  BY RowSort
<1>1. CASE c.scope = "id"
  BY <1>0, <1>1, RowSort DEF Precedes, Beyond, BeyondId
<1>2. CASE c.scope = "history"
  BY <1>0, <1>2, RowSort DEF Precedes, Beyond, BeyondSeq
<1>3. CASE c.scope = "asc"
  BY <1>0, <1>3, RowSort DEF Precedes, Beyond, BeyondSort
<1>4. CASE c.scope = "desc"
  BY <1>0, <1>4, RowSort DEF Precedes, Beyond, BeyondSort
<1> QED
  BY <1>0, <1>1, <1>2, <1>3, <1>4

(* What follows a row beyond the position is beyond it too. *)
LEMMA BeyondUpwards ==
  ASSUME ListTypeOK, NEW c, NEW i \in Ids, NEW j \in Ids, c.scope \in Queries,
         c.after \in Nat, c.sort \in Values \cup {Null},
         Beyond(c, j), Precedes(c.scope, j, i)
  PROVE  Beyond(c, i)
<1>0. c.scope \in {"id", "asc", "desc", "history"} /\ (c.sort # Null => c.sort \in Nat)
  OBVIOUS
<1>1. CASE c.after = 0
  BY <1>1 DEF Beyond
<1>2. CASE c.after # 0 /\ c.scope = "id"
  BY <1>0, <1>2, RowSort DEF Precedes, Beyond, BeyondId
<1>3. CASE c.after # 0 /\ c.scope = "history"
  BY <1>0, <1>3, RowSort DEF Precedes, Beyond, BeyondSeq
<1>4. CASE c.after # 0 /\ c.scope = "asc"
  BY <1>0, <1>4, RowSort DEF Precedes, Beyond, BeyondSort
<1>5. CASE c.after # 0 /\ c.scope = "desc"
  BY <1>0, <1>5, RowSort DEF Precedes, Beyond, BeyondSort
<1> QED
  BY <1>0, <1>1, <1>2, <1>3, <1>4, <1>5

(* The rows of a page: all that were found, or as many as a page holds. *)
PageLen(found) == IF Len(found) < Limit THEN Len(found) ELSE Limit

LEMMA ListFields ==
  ASSUME ListTypeOK
  PROVE  /\ list.after \in Nat /\ list.sort \in Values \cup {Null}
         /\ list.seen \in Seq(Ids) /\ list.at \in Nat /\ list.upper \in Nat
         /\ list.phase \in {"none", "reading", "more", "done"}
  BY DEF ListTypeOK

LEMMA PrefixSeq ==
  ASSUME NEW T, NEW s \in Seq(T), NEW n \in 0..Len(s)
  PROVE  /\ SubSeq(s, 1, n) \in Seq(T)
         /\ Len(SubSeq(s, 1, n)) = n
         /\ \A k \in 1..n : SubSeq(s, 1, n)[k] = s[k]
<1>1. \A k \in 1..n : s[k] \in T
  OBVIOUS
<1>2. 1 \in Int /\ n \in Int
  OBVIOUS
<1>3. /\ SubSeq(s, 1, n) \in Seq(T)
      /\ Len(SubSeq(s, 1, n)) = IF 1 <= n THEN n - 1 + 1 ELSE 0
      /\ \A k \in 1..(n - 1 + 1) : SubSeq(s, 1, n)[k] = s[1 + k - 1]
  BY <1>1, <1>2, SubSeqProperties
<1> QED
  BY <1>3

(* What a page does to the listing. *)
PageAdded(c, found, n) ==
    /\ n \in 0..Len(found) /\ (n = 0 => Len(found) = 0)
    /\ (c.phase = "more" /\ n < Len(found)) \/ (c.phase = "done" /\ n = Len(found))
    /\ c.scope = list.scope /\ c.at = list.at /\ c.upper = list.upper
    /\ c.seen = list.seen \o SubSeq(found, 1, n)
    /\ n # 0 => c.after = found[n] /\ c.sort = rows[found[n]].sort
    /\ c \in [phase : {"none", "reading", "more", "done"},
              scope : Queries \cup {"none"}, at : Nat, upper : Nat,
              after : Nat, sort : Values \cup {Null}, seen : Seq(Ids)]

LEMMA PageParts ==
  ASSUME ListTypeOK, NEW found \in Seq(Ids), NEW c, c = Page(list, found),
         NEW n, n = PageLen(found)
  PROVE  PageAdded(c, found, n)
<1>1. n \in 0..Len(found) /\ (n = 0 => Len(found) = 0) /\ (Len(found) > Limit <=> Len(found) > n)
  BY DEF PageLen
<1>2. c = [list EXCEPT !.phase = IF Len(found) > Limit THEN "more" ELSE "done",
                       !.seen = @ \o SubSeq(found, 1, n),
                       !.after = IF n = 0 THEN @ ELSE found[n],
                       !.sort = IF n = 0 THEN @ ELSE rows[found[n]].sort]
  BY DEF Page, PageLen
<1>3. PICK ph \in {"more", "done"} : ph = IF Len(found) > Limit THEN "more" ELSE "done"
  OBVIOUS
<1>31. ASSUME n # 0 PROVE found[n] \in Ids
  <2>1. n \in 1..Len(found)
    BY <1>31, <1>1
  <2> QED
    BY <2>1
<1>4. PICK af \in Nat : af = IF n = 0 THEN list.after ELSE found[n]
  BY <1>31, ListFields
<1>5. PICK so \in Values \cup {Null} : so = IF n = 0 THEN list.sort ELSE rows[found[n]].sort
  <2>1. CASE n = 0
    BY <2>1, ListFields
  <2>2. CASE n # 0
    <3>1. PICK i \in Ids : i = found[n]
      BY <1>31, <2>2
    <3>2. rows[i].sort \in Values \cup {Null}
      BY RowSort
    <3> QED
      BY <2>2, <3>1, <3>2
  <2> QED
    BY <2>1, <2>2
<1>6. PICK se \in Seq(Ids) : se = list.seen \o SubSeq(found, 1, n)
  <2>1. SubSeq(found, 1, n) \in Seq(Ids) /\ list.seen \in Seq(Ids)
    BY <1>1, ListFields, PrefixSeq
  <2> QED
    BY <2>1, ConcatProperties
<1>7. c = [list EXCEPT !.phase = ph, !.seen = se, !.after = af, !.sort = so]
  BY <1>2, <1>3, <1>4, <1>5, <1>6
<1>8. /\ c.phase = ph /\ c.seen = se /\ c.after = af /\ c.sort = so
      /\ c.scope = list.scope /\ c.at = list.at /\ c.upper = list.upper
      /\ c \in [phase : {"none", "reading", "more", "done"},
                scope : Queries \cup {"none"}, at : Nat, upper : Nat,
                after : Nat, sort : Values \cup {Null}, seen : Seq(Ids)]
  <2>1. list \in [phase : {"none", "reading", "more", "done"},
                  scope : Queries \cup {"none"}, at : Nat, upper : Nat,
                  after : Nat, sort : Values \cup {Null}, seen : Seq(Ids)]
    BY DEF ListTypeOK
  <2>2. /\ c.phase = ph /\ c.seen = se /\ c.after = af /\ c.sort = so
        /\ c.scope = list.scope /\ c.at = list.at /\ c.upper = list.upper
    BY <1>7, <2>1
  <2>3. c \in [phase : {"none", "reading", "more", "done"},
               scope : Queries \cup {"none"}, at : Nat, upper : Nat,
               after : Nat, sort : Values \cup {Null}, seen : Seq(Ids)]
    BY <1>3, <1>4, <1>5, <1>6, <1>7, <2>1
  <2> QED
    BY <2>2, <2>3
<1>9. (ph = "more" /\ n < Len(found)) \/ (ph = "done" /\ n = Len(found))
  <2>1. PICK len \in Nat : len = Len(found)
    OBVIOUS
  <2>2. len > Limit => n < len
    BY <2>1 DEF PageLen
  <2>3. len <= Limit => n = len
    BY <2>1 DEF PageLen
  <2>4. len > Limit \/ len <= Limit
    OBVIOUS
  <2> QED
    BY <1>3, <2>1, <2>2, <2>3, <2>4
<1> QED
  BY <1>1, <1>4, <1>5, <1>6, <1>8, <1>9 DEF PageAdded

(* Where a row stands in what has been returned once a page is added. *)
LEMMA SeenGrows ==
  ASSUME NEW old \in Seq(Ids), NEW found \in Seq(Ids), NEW n \in 0..Len(found),
         NEW seen, seen = old \o SubSeq(found, 1, n)
  PROVE  /\ Len(seen) = Len(old) + n
         /\ \A k \in 1..Len(old) : seen[k] = old[k]
         /\ \A k \in 1..n : seen[Len(old) + k] = found[k]
<1>0. PICK t : t = SubSeq(found, 1, n)
  OBVIOUS
<1>1. t \in Seq(Ids) /\ Len(t) = n /\ \A k \in 1..n : t[k] = found[k]
  BY <1>0, PrefixSeq
<1>2. /\ Len(seen) = Len(old) + Len(t)
      /\ \A k \in 1..(Len(old) + Len(t)) :
            seen[k] = IF k <= Len(old) THEN old[k] ELSE t[k - Len(old)]
  BY <1>0, <1>1, ConcatProperties
<1>3. Len(old) \in Nat
  OBVIOUS
<1> QED
  BY <1>1, <1>2, <1>3

-----------------------------------------------------------------------------
LEMMA ListInit == InitList => ListInv
<1> SUFFICES ASSUME InitList PROVE ListInv
  OBVIOUS
<1>1. ListTypeOK
  <2>1. NoList \in [phase : {"none", "reading", "more", "done"},
                    scope : Queries \cup {"none"}, at : Nat, upper : Nat,
                    after : Nat, sort : Values \cup {Null}, seen : Seq(Ids)]
    BY DEF NoList
  <2> QED
    BY <2>1 DEF InitList, ListTypeOK
<1>2. list.phase = "none" /\ stable = {}
  BY DEF InitList, NoList
<1> QED
  BY <1>1, <1>2 DEF ListInv, PositionTells

(* A row that was returned, and one that was not, once a page is added. *)
LEMMA OldRow ==
  ASSUME NEW old \in Seq(Ids), NEW found \in Seq(Ids), NEW n \in 0..Len(found),
         NEW seen, seen = old \o SubSeq(found, 1, n), NEW i \in Ids,
         Occurs(old, i), OnlyOnce(old, i), ~ Occurs(found, i)
  PROVE  Occurs(seen, i) /\ OnlyOnce(seen, i)
<1>1. PICK o \in Nat : o = Len(old)
  OBVIOUS
<1>2. /\ Len(seen) = o + n
      /\ \A k \in 1..o : seen[k] = old[k]
      /\ \A k \in 1..n : seen[o + k] = found[k]
  BY <1>1, SeenGrows
<1>3. \A k \in 1..Len(seen) : seen[k] = i => k \in 1..o
  <2> SUFFICES ASSUME NEW k \in 1..(o + n), seen[k] = i, k \notin 1..o PROVE FALSE
    BY <1>2
  <2>1. PICK h \in 1..n : k = o + h
    <3>1. k - o \in 1..n /\ k = o + (k - o)
      OBVIOUS
    <3> QED
      BY <3>1
  <2>2. h \in 1..Len(found)
    OBVIOUS
  <2> QED
    BY <1>2, <2>1, <2>2 DEF Occurs
<1>4. \A k \in 1..o : k \in 1..Len(seen)
  BY <1>2
<1>5. Occurs(seen, i)
  BY <1>1, <1>2, <1>4 DEF Occurs
<1>6. OnlyOnce(seen, i)
  BY <1>1, <1>2, <1>3 DEF OnlyOnce
<1> QED
  BY <1>5, <1>6

LEMMA NewRow ==
  ASSUME NEW old \in Seq(Ids), NEW found \in Seq(Ids), NEW n \in 0..Len(found),
         NEW seen, seen = old \o SubSeq(found, 1, n), NEW i \in Ids,
         ~ Occurs(old, i), NEW p \in 1..Len(found), found[p] = i, OnlyOnce(found, i)
  PROVE  /\ Occurs(seen, i) <=> p <= n
         /\ OnlyOnce(seen, i)
<1>1. PICK o \in Nat : o = Len(old)
  OBVIOUS
<1>2. /\ Len(seen) = o + n
      /\ \A k \in 1..o : seen[k] = old[k]
      /\ \A k \in 1..n : seen[o + k] = found[k]
  BY <1>1, SeenGrows
<1>3. \A k \in 1..Len(seen) : seen[k] = i => k = o + p /\ p <= n
  <2> SUFFICES ASSUME NEW k \in 1..(o + n), seen[k] = i PROVE k = o + p /\ p <= n
    BY <1>2
  <2>1. k \notin 1..o
    BY <1>1, <1>2 DEF Occurs
  <2>2. PICK h \in 1..n : k = o + h
    <3>1. k - o \in 1..n /\ k = o + (k - o)
      BY <2>1
    <3> QED
      BY <3>1
  <2>3. h \in 1..Len(found) /\ found[h] = i
    BY <1>2, <2>2
  <2>4. h = p
    BY <2>3 DEF OnlyOnce
  <2> QED
    BY <2>2, <2>4
<1>4. p <= n => o + p \in 1..Len(seen) /\ seen[o + p] = i
  <2> SUFFICES ASSUME p <= n PROVE o + p \in 1..Len(seen) /\ seen[o + p] = i
    OBVIOUS
  <2>1. p \in 1..n
    OBVIOUS
  <2> QED
    BY <1>2, <2>1
<1>5. Occurs(seen, i) <=> p <= n
  BY <1>3, <1>4 DEF Occurs
<1>6. OnlyOnce(seen, i)
  BY <1>3 DEF OnlyOnce
<1> QED
  BY <1>5, <1>6

(* A page keeps the position telling: a stable row that has been returned  *)
(* is not found again, one that has not is found, and is returned with     *)
(* this page or lies beyond it.                                            *)
LEMMA ReadPageStep ==
  ASSUME ListInv, ReadPage
  PROVE  ListInv'
<1>1. /\ ListTypeOK /\ PositionTells /\ list.phase = "reading" /\ list.scope \in Queries
      /\ rows' = rows /\ stable' = stable /\ hour' = hour
  BY DEF ListInv, ReadPage
<1>2. PICK S \in SUBSET Ids : S = Candidates(list)
  BY DEF Candidates
<1>3. PICK found : found = InOrder(list.scope, S)
  OBVIOUS
<1>4. PICK len \in Nat : len = Cardinality(S)
  BY <1>1, PageSorted, FS_CardinalityType
<1>5. Sorted(QueryOrder(list.scope, S), S, found)
  BY <1>1, <1>3, PageSorted
<1>6. /\ found \in [1..len -> S]
      /\ \A i \in S : \E k \in 1..len : found[k] = i
      /\ \A k, m \in 1..len : k < m => Precedes(list.scope, found[k], found[m])
  BY <1>4, <1>5 DEF Sorted, QueryOrder
<1>7. found \in Seq(Ids) /\ Len(found) = len
  <2>1. found \in [1..len -> Ids]
    BY <1>6
  <2> QED
    BY <2>1
<1>8. PICK c : c = Page(list, found) /\ list' = c
  BY <1>2, <1>3 DEF ReadPage
<1>9. PICK n : n = PageLen(found)
  OBVIOUS
<1>10. PageAdded(c, found, n)
  BY <1>1, <1>7, <1>8, <1>9, PageParts
<1>11. /\ n \in 0..len /\ (n = 0 => len = 0)
       /\ (c.phase = "more" /\ n < len) \/ (c.phase = "done" /\ n = len)
       /\ c.scope = list.scope /\ c.at = list.at /\ c.upper = list.upper
       /\ c.seen = list.seen \o SubSeq(found, 1, n)
       /\ n # 0 => c.after = found[n] /\ c.sort = rows[found[n]].sort
  BY <1>7, <1>10 DEF PageAdded
<1>12. \A k, m \in 1..len : found[k] = found[m] => k = m
  <2> SUFFICES ASSUME NEW k \in 1..len, NEW m \in 1..len, found[k] = found[m], k # m
               PROVE  FALSE
    OBVIOUS
  <2>1. k < m \/ m < k
    OBVIOUS
  <2>2. found[k] \in Ids
    BY <1>6
  <2> QED
    BY <1>1, <1>6, <2>1, <2>2, PrecedesIrreflexive
<1>13. ASSUME NEW i \in stable
       PROVE  /\ OnlyOnce(c.seen, i)
              /\ c.phase = "more" => (Occurs(c.seen, i) <=> ~ Beyond(c, i))
              /\ c.phase = "done" => Occurs(c.seen, i)
  <2>1. /\ i \in Ids /\ Matches(i, list.at) /\ i <= list.upper
        /\ OnlyOnce(list.seen, i)
        /\ Occurs(list.seen, i) <=> ~ Beyond(list, i)
    BY <1>1 DEF PositionTells, ListTypeOK
  <2>2. i \in S <=> Beyond(list, i)
    BY <1>2, <2>1 DEF Candidates
  <2>3. list.seen \in Seq(Ids)
    BY <1>1, ListFields
  <2>4. ASSUME n # 0 PROVE n \in 1..len /\ found[n] \in S /\ found[n] \in Ids
    <3>1. n \in 1..len
      BY <1>11, <2>4
    <3> QED
      BY <1>6, <3>1
  <2>5. CASE ~ Beyond(list, i)
    <3>1. ~ Occurs(found, i)
      BY <1>6, <1>7, <2>2, <2>5 DEF Occurs
    <3>2. Occurs(c.seen, i) /\ OnlyOnce(c.seen, i)
      BY <1>7, <1>11, <2>1, <2>3, <2>5, <3>1, OldRow
    <3>3. ASSUME n # 0 PROVE ~ Beyond(c, i)
      <4>1. Beyond(list, found[n])
        BY <1>2, <2>4, <3>3 DEF Candidates
      <4>2. ~ Precedes(list.scope, found[n], i)
        BY <1>1, <2>1, <2>4, <2>5, <3>3, <4>1, BeyondUpwards, ListFields
      <4> QED
        BY <1>1, <1>11, <2>1, <2>4, <3>3, <4>2, BeyondPrecedes
    <3>4. n # 0 \/ c.phase = "done"
      BY <1>11
    <3> QED
      BY <3>2, <3>3, <3>4
  <2>6. CASE Beyond(list, i)
    <3>1. PICK p \in 1..len : found[p] = i
      BY <1>6, <2>2, <2>6
    <3>2. OnlyOnce(found, i)
      BY <1>7, <1>12 DEF OnlyOnce
    <3>3. ~ Occurs(list.seen, i)
      BY <2>1, <2>6
    <3>4. (Occurs(c.seen, i) <=> p <= n) /\ OnlyOnce(c.seen, i)
      <4>1. p \in 1..Len(found) /\ n \in 0..Len(found) /\ found[p] = i
        BY <1>7, <1>11, <3>1
      <4>2. PICK seen : seen = c.seen /\ seen = list.seen \o SubSeq(found, 1, n)
        BY <1>11
      <4>3. (Occurs(seen, i) <=> p <= n) /\ OnlyOnce(seen, i)
        BY <1>7, <2>1, <2>3, <3>2, <3>3, <4>1, <4>2, NewRow
      <4> QED
        BY <4>2, <4>3
    <3>5. n # 0
      BY <1>11, <3>1
    <3>6. Beyond(c, i) <=> Precedes(list.scope, found[n], i)
      BY <1>1, <1>11, <2>1, <2>4, <3>5, BeyondPrecedes
    <3>7. Precedes(list.scope, found[n], i) <=> n < p
      <4>1. n \in 1..len
        BY <2>4, <3>5
      <4>2. n < p => Precedes(list.scope, found[n], i)
        BY <1>6, <3>1, <4>1
      <4>3. p = n => ~ Precedes(list.scope, found[n], i)
        BY <1>1, <2>1, <3>1, PrecedesIrreflexive
      <4>4. ASSUME p < n, Precedes(list.scope, found[n], i) PROVE FALSE
        <5>1. Precedes(list.scope, i, found[n])
          BY <1>6, <3>1, <4>1, <4>4
        <5> QED
          BY <1>1, <2>1, <2>4, <3>5, <4>4, <5>1, PrecedesTransitive, PrecedesIrreflexive
      <4> QED
        BY <4>1, <4>2, <4>3, <4>4
    <3>8. (p <= n <=> ~ (n < p)) /\ (c.phase = "done" => p <= n)
      BY <1>11, <3>1
    <3> QED
      BY <3>4, <3>6, <3>7, <3>8
  <2> QED
    BY <2>5, <2>6
<1>14. c.phase \in {"more", "done"}
  BY <1>11
<1>15. PositionTells'
  <2> SUFFICES ASSUME NEW i \in stable
               PROVE  /\ Matches(i, list.at)' /\ i <= list'.upper
                      /\ OnlyOnce(list'.seen, i)
                      /\ list'.phase \in {"reading", "more"} =>
                            (Occurs(list'.seen, i) <=> ~ Beyond(list, i)')
                      /\ list'.phase = "done" => Occurs(list'.seen, i)
    BY <1>1 DEF PositionTells
  <2>1. Matches(i, list.at)' /\ i <= list'.upper
    BY <1>1, <1>8, <1>11 DEF PositionTells, Matches
  <2>2. Beyond(list, i)' <=> Beyond(c, i)
    BY <1>1, <1>8 DEF Beyond, BeyondId, BeyondSeq, BeyondSort
  <2> QED
    BY <1>8, <1>13, <1>14, <2>1, <2>2
<1>16. ListTypeOK'
  BY <1>1, <1>8, <1>10 DEF ListTypeOK, PageAdded
<1> QED
  BY <1>1, <1>8, <1>11, <1>14, <1>15, <1>16 DEF ListInv

(* A finite set of numbers has a largest one. *)
LEMMA LargestNumber ==
  ASSUME NEW S \in SUBSET Nat, IsFiniteSet(S), S # {}
  PROVE  \E x \in S : \A y \in S : y <= x
<1>1. PICK R : R = {p \in S \X S : p[1] < p[2]}
  OBVIOUS
<1>2. \A i, j \in S : <<i, j>> \in R <=> i < j
  BY <1>1
<1>3. StrictTotal(R, S)
  BY <1>2 DEF StrictTotal
<1>4. PICK n \in Nat : n = Cardinality(S) /\ n # 0
  BY FS_CardinalityType, FS_EmptySet
<1>5. PICK x \in S : Place(R, S, x) = n - 1
  <2>1. n \in 1..Cardinality(S)
    BY <1>4
  <2>2. PlacesFilled(R, S)
    BY <1>3, PlaceOnto
  <2> QED
    BY <2>1, <2>2 DEF PlacesFilled
<1>6. ASSUME NEW y \in S, x < y PROVE FALSE
  <2>1. Place(R, S, x) < Place(R, S, y) /\ Place(R, S, y) < n /\ Place(R, S, y) \in Nat
    BY <1>2, <1>3, <1>4, <1>6, PlaceGrows, PlaceType
  <2> QED
    BY <1>5, <2>1
<1> QED
  BY <1>6

(* The first page: nothing is returned, everything that matches is still   *)
(* ahead and within the bound.                                             *)
LEMMA FirstPageStep ==
  ASSUME ListInv, NEW q \in Queries, FirstPage(q)
  PROVE  ListInv'
<1>1. /\ ListTypeOK /\ rows' = rows /\ hour' = hour
      /\ stable' = {i \in Ids : Matches(i, hour)}
  BY DEF ListInv, FirstPage
<1>2. PICK live \in SUBSET Ids : live = {i \in Ids : rows[i].live}
  OBVIOUS
<1>3. PICK u : u = IF \E i \in Ids : rows[i].live
                   THEN CHOOSE i \in Ids : rows[i].live
                          /\ \A j \in Ids : rows[j].live => j <= i
                   ELSE 0
  OBVIOUS
<1>4. u \in Nat /\ \A i \in live : i <= u
  <2>1. CASE live = {}
    <3>1. u = 0
      BY <1>2, <1>3, <2>1
    <3> QED
      BY <2>1, <3>1
  <2>2. CASE live # {}
    <3>1. IsFiniteSet(live) /\ live \in SUBSET Nat
      BY FS_Subset
    <3>2. PICK x \in live : \A y \in live : y <= x
      BY <2>2, <3>1, LargestNumber
    <3>3. u = CHOOSE i \in Ids : rows[i].live /\ \A j \in Ids : rows[j].live => j <= i
      BY <1>2, <1>3, <2>2
    <3>4. x \in Ids /\ rows[x].live /\ \A j \in Ids : rows[j].live => j <= x
      BY <1>2, <3>2
    <3>5. u \in Ids /\ \A j \in Ids : rows[j].live => j <= u
      BY <3>3, <3>4
    <3> QED
      BY <1>2, <3>5
  <2> QED
    BY <2>1, <2>2
<1>5. list' = [NoList EXCEPT !.phase = "reading", !.scope = q, !.at = hour, !.upper = u]
  BY <1>3 DEF FirstPage
<1>51. hour \in Nat
  BY <1>1 DEF ListTypeOK
<1>52. list' = [phase |-> "reading", scope |-> q, at |-> hour, upper |-> u,
               after |-> 0, sort |-> Null, seen |-> << >>]
  BY <1>5 DEF NoList
<1>6. /\ list'.phase = "reading" /\ list'.scope = q /\ list'.at = hour /\ list'.upper = u
      /\ list'.after = 0 /\ list'.seen = << >>
      /\ list' \in [phase : {"none", "reading", "more", "done"},
                    scope : Queries \cup {"none"}, at : Nat, upper : Nat,
                    after : Nat, sort : Values \cup {Null}, seen : Seq(Ids)]
  BY <1>4, <1>51, <1>52
<1>7. ListTypeOK'
  BY <1>1, <1>6 DEF ListTypeOK
<1>8. PositionTells'
  <2> SUFFICES ASSUME NEW i \in stable'
               PROVE  /\ Matches(i, list.at)' /\ i <= list'.upper
                      /\ OnlyOnce(list'.seen, i)
                      /\ ~ Occurs(list'.seen, i) /\ Beyond(list, i)'
    BY <1>6 DEF PositionTells
  <2>1. i \in Ids /\ Matches(i, hour)
    BY <1>1
  <2>2. Matches(i, list.at)' /\ i \in live
    BY <1>1, <1>2, <1>6, <2>1 DEF Matches
  <2>3. OnlyOnce(list'.seen, i) /\ ~ Occurs(list'.seen, i)
    BY <1>6 DEF OnlyOnce, Occurs
  <2>4. Beyond(list, i)'
    BY <1>6 DEF Beyond
  <2> QED
    BY <1>4, <1>6, <2>2, <2>3, <2>4
<1> QED
  BY <1>6, <1>7, <1>8 DEF ListInv

LEMMA NextPageStep ==
  ASSUME ListInv, NEW q \in Queries, NextPage(q)
  PROVE  ListInv'
<1>1. /\ ListTypeOK /\ PositionTells /\ list.phase = "more" /\ list.scope \in Queries
      /\ rows' = rows /\ stable' = stable /\ hour' = hour
  BY DEF ListInv, NextPage
<1>2. list' = [list EXCEPT !.phase = "reading"] \/ list' = list
  BY DEF NextPage, DecodeCursor
<1>3. /\ list'.phase \in {"reading", "more"}
      /\ list'.scope = list.scope /\ list'.at = list.at /\ list'.upper = list.upper
      /\ list'.after = list.after /\ list'.sort = list.sort /\ list'.seen = list.seen
      /\ list' \in [phase : {"none", "reading", "more", "done"},
                    scope : Queries \cup {"none"}, at : Nat, upper : Nat,
                    after : Nat, sort : Values \cup {Null}, seen : Seq(Ids)]
  BY <1>1, <1>2 DEF ListTypeOK
<1>4. ListTypeOK'
  BY <1>1, <1>3 DEF ListTypeOK
<1>5. PositionTells'
  <2> SUFFICES ASSUME NEW i \in stable
               PROVE  /\ Matches(i, list.at)' /\ i <= list'.upper
                      /\ OnlyOnce(list'.seen, i)
                      /\ Occurs(list'.seen, i) <=> ~ Beyond(list, i)'
    BY <1>1, <1>3 DEF PositionTells
  <2>1. /\ Matches(i, list.at) /\ i <= list.upper
        /\ OnlyOnce(list.seen, i) /\ (Occurs(list.seen, i) <=> ~ Beyond(list, i))
    BY <1>1 DEF PositionTells
  <2>2. Matches(i, list.at)'
    BY <1>1, <1>3, <2>1 DEF Matches
  <2>3. Beyond(list, i)' <=> Beyond(list, i)
    BY <1>1, <1>3 DEF Beyond, BeyondId, BeyondSeq, BeyondSort
  <2> QED
    BY <1>3, <2>1, <2>2, <2>3
<1> QED
  BY <1>1, <1>3, <1>4, <1>5 DEF ListInv

(* Rows change under the listing: the one that changes is no longer stable. *)
LEMMA RowsStep ==
  ASSUME ListInv, ListTypeOK', UNCHANGED list, stable' \subseteq stable,
         \A i \in stable' : rows'[i] = rows[i]
  PROVE  ListInv'
<1>1. PositionTells'
  <2> SUFFICES ASSUME NEW i \in stable'
               PROVE  /\ Matches(i, list.at)'
                      /\ Beyond(list, i)' <=> Beyond(list, i)
    BY DEF PositionTells, ListInv
  <2>1. Matches(i, list.at)'
    BY DEF ListInv, PositionTells, Matches
  <2>2. Beyond(list, i)' <=> Beyond(list, i)
    BY DEF Beyond, BeyondId, BeyondSeq, BeyondSort
  <2> QED
    BY <2>1, <2>2
<1> QED
  BY <1>1 DEF ListInv

LEMMA ListStep == ListInv /\ [NextList]_listVars => ListInv'
<1> SUFFICES ASSUME ListInv, [NextList]_listVars PROVE ListInv'
  OBVIOUS
<1>1. ASSUME NEW i \in Ids, Change(i) PROVE ListInv'
  <2>1. PICK w \in Row \cup {NoRow} : rows' = [rows EXCEPT ![i] = w]
    BY <1>1 DEF Change
  <2>2. ListTypeOK' /\ UNCHANGED list /\ stable' \subseteq stable
    BY <1>1, <2>1 DEF Change, ListInv, ListTypeOK
  <2>3. \A j \in stable' : rows'[j] = rows[j]
    BY <1>1, <2>1 DEF Change, ListInv, ListTypeOK
  <2> QED
    BY <2>2, <2>3, RowsStep
<1>2. ASSUME Hour PROVE ListInv'
  <2>1. ListTypeOK' /\ UNCHANGED list /\ stable' \subseteq stable /\ rows' = rows
    BY <1>2 DEF Hour, ListInv, ListTypeOK
  <2> QED
    BY <2>1, RowsStep
<1>3. ASSUME UNCHANGED listVars PROVE ListInv'
  <2>1. ListTypeOK' /\ UNCHANGED list /\ stable' \subseteq stable /\ rows' = rows
    BY <1>3 DEF listVars, ListInv, ListTypeOK
  <2> QED
    BY <2>1, RowsStep
<1> QED
  BY <1>1, <1>2, <1>3, FirstPageStep, NextPageStep, ReadPageStep DEF NextList

(* Counting occurrences. *)
LEMMA CountOnce ==
  ASSUME ListTypeOK, NEW i \in Ids, OnlyOnce(list.seen, i)
  PROVE  Times(i) <= 1 /\ (Occurs(list.seen, i) => Times(i) = 1)
<1>1. PICK T : T = {k \in 1..Len(list.seen) : list.seen[k] = i}
  OBVIOUS
<1>2. Times(i) = Cardinality(T)
  BY <1>1 DEF Times
<1>3. CASE Occurs(list.seen, i)
  <2>1. PICK k \in 1..Len(list.seen) : list.seen[k] = i
    BY <1>3 DEF Occurs
  <2>2. T = {k}
    BY <1>1, <2>1 DEF OnlyOnce
  <2>3. Cardinality(T) = 1
    BY <2>2, FS_Singleton
  <2> QED
    BY <1>2, <2>3
<1>4. CASE ~ Occurs(list.seen, i)
  <2>1. T = {}
    BY <1>1, <1>4 DEF Occurs
  <2>2. Cardinality(T) = 0
    BY <2>1, FS_EmptySet
  <2> QED
    BY <1>2, <1>4, <2>2
<1> QED
  BY <1>3, <1>4

(* cursor.go, listItems: for any table, any page size and any order of the *)
(* four, a row that matched from the first page on and was left alone is   *)
(* returned exactly once by a listing that ends, and never twice,          *)
(* whatever happens to the other rows, that of the cursor included.        *)
THEOREM StableRowsListedOnce == SpecList => []ListedOnce
<1>1. ListInv => ListedOnce
  <2> SUFFICES ASSUME ListInv PROVE ListedOnce
    OBVIOUS
  <2>1. \A i \in stable : i \in Ids
    BY DEF ListInv, ListTypeOK
  <2>2. \A i \in stable : OnlyOnce(list.seen, i) /\ (list.phase = "done" => Occurs(list.seen, i))
    BY DEF ListInv, PositionTells
  <2>3. ListTypeOK
    BY DEF ListInv
  <2> QED
    BY <2>1, <2>2, <2>3, CountOnce DEF ListedOnce
<1> QED
  BY <1>1, ListInit, ListStep, PTL DEF SpecList

-----------------------------------------------------------------------------
(* Ranks.  A string is read as the fraction it stands for: a digit that is *)
(* not there is 0.  Between two strings there is room only if they differ  *)
(* as fractions: between "1" and "10" there is none.                       *)

Strings == Seq(0..(Base - 1))

SameUpTo(s, t, k) == \A m \in Nat \ {0} : m < k => rankAt(s, m) = rankAt(t, m)

Under(s, t) == \E k \in Nat \ {0} : rankAt(s, k) < rankAt(t, k) /\ SameUpTo(s, t, k)

Differ(s, t) == \E k \in Nat \ {0} : rankAt(s, k) # rankAt(t, k)

LEMMA DigitType ==
  ASSUME NEW s \in Strings, NEW k \in Nat \ {0}
  PROVE  /\ rankAt(s, k) \in 0..(Base - 1)
         /\ k > Len(s) => rankAt(s, k) = 0
         /\ k <= Len(s) => rankAt(s, k) = s[k]
<1>1. PICK n \in Nat : n = Len(s) /\ \A m \in 1..n : s[m] \in 0..(Base - 1)
  BY DEF Strings
<1>2. CASE k > n
  BY <1>1, <1>2 DEF rankAt
<1>3. CASE k <= n
  BY <1>1, <1>3 DEF rankAt
<1> QED
  BY <1>1, <1>2, <1>3

(* The digit that decides against a string is one it has. *)
LEMMA DecidingDigit ==
  ASSUME NEW s \in Strings, NEW t \in Strings, NEW k \in Nat \ {0}, rankAt(s, k) < rankAt(t, k)
  PROVE  k <= Len(t) /\ rankAt(t, k) = t[k]
<1>1. rankAt(s, k) \in 0..(Base - 1) /\ rankAt(t, k) \in 0..(Base - 1)
  BY DigitType
<1>2. Len(t) \in Nat
  BY DEF Strings
<1>3. ~ (k > Len(t))
  BY <1>1, DigitType
<1> QED
  BY <1>2, <1>3, DigitType

LEMMA UnderTotal ==
  ASSUME NEW s \in Strings, NEW t \in Strings, Differ(s, t)
  PROVE  Under(s, t) \/ Under(t, s)
<1>1. PICK S \in SUBSET Nat : S = {k \in Nat \ {0} : rankAt(s, k) # rankAt(t, k)}
  OBVIOUS
<1>2. S # {}
  BY <1>1 DEF Differ
<1>3. PICK k \in S : \A m \in S : k <= m
  BY <1>2, LeastNatural
<1>4. k \in Nat \ {0} /\ rankAt(s, k) # rankAt(t, k)
  BY <1>1
<1>5. SameUpTo(s, t, k) /\ SameUpTo(t, s, k)
  BY <1>1, <1>3, <1>4 DEF SameUpTo
<1>6. rankAt(s, k) < rankAt(t, k) \/ rankAt(t, k) < rankAt(s, k)
  BY <1>4, DigitType
<1> QED
  BY <1>4, <1>5, <1>6 DEF Under

LEMMA UnderDiffer ==
  ASSUME NEW s \in Strings, NEW t \in Strings, Under(s, t)
  PROVE  Differ(s, t) /\ Differ(t, s)
<1>1. PICK k \in Nat \ {0} : rankAt(s, k) < rankAt(t, k)
  BY DEF Under
<1>2. rankAt(s, k) # rankAt(t, k)
  BY <1>1, DigitType
<1> QED
  BY <1>2 DEF Differ

LEMMA UnderTransitive ==
  ASSUME NEW s \in Strings, NEW t \in Strings, NEW u \in Strings, Under(s, t), Under(t, u)
  PROVE  Under(s, u)
<1>1. PICK k \in Nat \ {0} : rankAt(s, k) < rankAt(t, k) /\ SameUpTo(s, t, k)
  BY DEF Under
<1>2. PICK h \in Nat \ {0} : rankAt(t, h) < rankAt(u, h) /\ SameUpTo(t, u, h)
  BY DEF Under
<1>3. /\ rankAt(s, k) \in Nat /\ rankAt(t, k) \in Nat /\ rankAt(u, k) \in Nat
      /\ rankAt(s, h) \in Nat /\ rankAt(t, h) \in Nat /\ rankAt(u, h) \in Nat
  BY DigitType
<1>4. CASE k < h
  <2>1. rankAt(u, k) = rankAt(t, k)
    BY <1>2, <1>4 DEF SameUpTo
  <2>2. SameUpTo(s, u, k)
    BY <1>1, <1>2, <1>4 DEF SameUpTo
  <2> QED
    BY <1>1, <1>3, <2>1, <2>2 DEF Under
<1>5. CASE h < k
  <2>1. rankAt(s, h) = rankAt(t, h)
    BY <1>1, <1>5 DEF SameUpTo
  <2>2. SameUpTo(s, u, h)
    BY <1>1, <1>2, <1>5 DEF SameUpTo
  <2> QED
    BY <1>2, <1>3, <2>1, <2>2 DEF Under
<1>6. CASE k = h
  <2>1. SameUpTo(s, u, k)
    BY <1>1, <1>2, <1>6 DEF SameUpTo
  <2>2. rankAt(s, k) < rankAt(u, k)
    BY <1>1, <1>2, <1>3, <1>6
  <2> QED
    BY <2>1, <2>2 DEF Under
<1> QED
  BY <1>4, <1>5, <1>6

LEMMA UnderIrreflexive ==
  ASSUME NEW s \in Strings
  PROVE  ~ Under(s, s)
  BY DigitType DEF Under

(* Comparing strings and comparing fractions. *)
LEMMA UnderIsLess ==
  ASSUME NEW s \in Strings, NEW t \in Strings, Under(s, t)
  PROVE  Less(s, t)
<1>1. PICK k \in Nat \ {0} : rankAt(s, k) < rankAt(t, k) /\ SameUpTo(s, t, k)
  BY DEF Under
<1>2. PICK n \in Nat : n = Len(s)
  BY DEF Strings
<1>3. PICK p \in Nat : p = Len(t)
  BY DEF Strings
<1>4. k <= p
  BY <1>1, <1>3, DecidingDigit
<1>5. CASE k <= n
  <2>1. k \in 1..n /\ s[k] < t[k]
    <3>1. rankAt(s, k) = s[k]
      BY <1>2, <1>5, DigitType
    <3>2. rankAt(t, k) = t[k]
      BY <1>1, DecidingDigit
    <3> QED
      BY <1>1, <1>5, <3>1, <3>2
  <2>2. \A m \in 1..(k - 1) : m \in Nat \ {0} /\ m < k /\ m <= n /\ m <= p
    BY <1>4, <1>5
  <2>3. \A m \in 1..(k - 1) : s[m] = t[m]
    BY <1>1, <1>2, <1>3, <2>2, DigitType DEF SameUpTo
  <2>4. /\ k \in 1..Len(s) /\ k <= Len(t) /\ s[k] < t[k]
        /\ \A m \in 1..(k - 1) : s[m] = t[m]
    BY <1>2, <1>3, <1>4, <2>1, <2>3
  <2> QED
    BY <2>4 DEF Less
<1>6. CASE n < k
  <2>1. \A m \in 1..n : s[m] = t[m]
    <3>1. \A m \in 1..n : m \in Nat \ {0} /\ m < k /\ m <= n /\ m <= p
      BY <1>4, <1>6
    <3> QED
      BY <1>1, <1>2, <1>3, <3>1, DigitType DEF SameUpTo
  <2>2. SubSeq(t, 1, n) \in Strings /\ Len(SubSeq(t, 1, n)) = n
        /\ \A m \in 1..n : SubSeq(t, 1, n)[m] = t[m]
    <3>1. n \in 0..Len(t)
      BY <1>3, <1>4, <1>6
    <3> QED
      BY <3>1, PrefixSeq DEF Strings
  <2>3. s = SubSeq(t, 1, n)
    BY <1>2, <2>1, <2>2 DEF Strings
  <2> QED
    BY <1>2, <1>3, <1>4, <1>6, <2>3 DEF Less
<1> QED
  BY <1>5, <1>6

LEMMA LessNotOver ==
  ASSUME NEW s \in Strings, NEW t \in Strings, Less(s, t)
  PROVE  ~ Under(t, s)
<1> SUFFICES ASSUME Under(t, s) PROVE FALSE
  OBVIOUS
<1>1. PICK k \in Nat \ {0} : rankAt(t, k) < rankAt(s, k) /\ SameUpTo(t, s, k)
  BY DEF Under
<1>2. PICK n \in Nat : n = Len(s)
  BY DEF Strings
<1>3. PICK p \in Nat : p = Len(t)
  BY DEF Strings
<1>4. k <= n /\ rankAt(s, k) = s[k]
  BY <1>1, <1>2, DecidingDigit
<1>5. CASE n < p /\ s = SubSeq(t, 1, n)
  <2>1. \A m \in 1..n : SubSeq(t, 1, n)[m] = t[m]
    <3>1. n \in 0..Len(t)
      BY <1>3, <1>5
    <3> QED
      BY <3>1, PrefixSeq DEF Strings
  <2>2. s[k] = t[k] /\ rankAt(t, k) = t[k]
    <3>1. k \in 1..n /\ k <= Len(t)
      BY <1>3, <1>4, <1>5
    <3>2. rankAt(t, k) = t[k]
      BY <3>1, DigitType
    <3> QED
      BY <1>5, <2>1, <3>1, <3>2
  <2> QED
    BY <1>1, <1>4, <2>2, DigitType
<1>6. ASSUME NEW h \in 1..n, h <= p, s[h] < t[h], \A m \in 1..(h - 1) : s[m] = t[m]
      PROVE  FALSE
  <2>1. rankAt(s, h) = s[h] /\ rankAt(t, h) = t[h] /\ rankAt(s, h) < rankAt(t, h)
        /\ rankAt(s, h) \in Nat /\ rankAt(t, h) \in Nat
    BY <1>2, <1>3, <1>6, DigitType
  <2>2. ~ (h < k)
    BY <1>1, <2>1 DEF SameUpTo
  <2>3. h # k
    BY <1>1, <2>1
  <2>4. k \in 1..(h - 1) /\ k <= p
    BY <1>6, <2>2, <2>3
  <2>5. s[k] = t[k] /\ rankAt(t, k) = t[k]
    BY <1>3, <1>6, <2>4, DigitType
  <2> QED
    BY <1>1, <1>4, <2>5, DigitType
<1> QED
  BY <1>2, <1>3, <1>5, <1>6 DEF Less

LEMMA LessIsUnder ==
  ASSUME NEW s \in Strings, NEW t \in Strings, Differ(s, t)
  PROVE  Less(s, t) <=> Under(s, t)
  BY UnderTotal, UnderIsLess, LessNotOver

(* r has n digits, those of s as far as the last, which is d. *)
Replaces(r, s, n, d) == /\ r \in Strings /\ Len(r) = n
                        /\ rankAt(r, n) = d
                        /\ SameUpTo(s, r, n)

LEMMA AppendDigit ==
  ASSUME NEW s \in Strings, NEW n \in Nat \ {0}, NEW d \in 0..(Base - 1), NEW h, h = n - 1
  PROVE  Replaces(Append(Digits(s, h), d), s, n, d)
<1>1. \A k \in 1..h : k \in Nat \ {0} /\ k < n
  OBVIOUS
<1>2. h \in Nat
  OBVIOUS
<1>3. PICK t : t = Digits(s, h)
  OBVIOUS
<1>4. t \in Strings /\ Len(t) = h /\ \A k \in 1..h : t[k] = rankAt(s, k)
  BY <1>1, <1>2, <1>3, DigitType DEF Digits, Strings
<1>5. PICK r : r = Append(t, d)
  OBVIOUS
<1>6. r \in Strings /\ Len(r) = n /\ r[n] = d /\ \A k \in 1..h : r[k] = t[k]
  BY <1>4, <1>5 DEF Strings
<1>7. rankAt(r, n) = d
  BY <1>6, DigitType
<1>8. ASSUME NEW m \in Nat \ {0}, m < n PROVE rankAt(s, m) = rankAt(r, m)
  <2>1. m \in 1..h /\ m <= n
    BY <1>8
  <2>2. rankAt(r, m) = r[m]
    BY <1>6, <2>1, DigitType
  <2> QED
    BY <1>4, <1>6, <2>1, <2>2
<1> QED
  BY <1>3, <1>5, <1>6, <1>7, <1>8 DEF Replaces, SameUpTo

LEMMA ReplacesOver ==
  ASSUME NEW s \in Strings, NEW n \in Nat \ {0}, NEW d \in 0..(Base - 1), NEW r,
         Replaces(r, s, n, d), rankAt(s, n) < d
  PROVE  Under(s, r)
  BY DEF Under, Replaces

(* Above t's first n - 1 digits, below its n-th. *)
LEMMA ReplacesUnder ==
  ASSUME NEW s \in Strings, NEW t \in Strings, NEW n \in Nat \ {0}, NEW d \in 0..(Base - 1), NEW r,
         Replaces(r, s, n, d), NEW i \in Nat \ {0}, i <= n, SameUpTo(s, t, i),
         i < n => rankAt(s, i) < rankAt(t, i),
         i = n => d < rankAt(t, i)
  PROVE  Under(r, t)
<1>1. SameUpTo(r, t, i)
  BY DEF SameUpTo, Replaces
<1>2. rankAt(r, i) < rankAt(t, i)
  BY DEF SameUpTo, Replaces
<1> QED
  BY <1>1, <1>2 DEF Under

(* Past everything: a string above lo, at most one digit longer. *)
LEMMA RankAfterOver ==
  ASSUME NEW lo \in Strings, NEW r, r = RankAfter(lo)
  PROVE  /\ r \in Strings /\ r # << >>
         /\ Under(lo, r)
         /\ Len(r) <= Len(lo) + 1
<1>1. PICK n \in Nat : n = Len(lo) /\ \A k \in 1..n : lo[k] \in 0..(Base - 1)
  BY DEF Strings
<1>2. ASSUME NEW h \in Nat \ {0}, NEW d \in 0..(Base - 1), Replaces(r, lo, h, d), rankAt(lo, h) < d,
             h <= n + 1
      PROVE  r \in Strings /\ r # << >> /\ Under(lo, r) /\ Len(r) <= Len(lo) + 1
  <2>1. Under(lo, r)
    BY <1>2, ReplacesOver
  <2>2. r \in Strings /\ Len(r) = h
    BY <1>2 DEF Replaces
  <2>3. r # << >>
    BY <2>2
  <2> QED
    BY <1>1, <1>2, <2>1, <2>2, <2>3
<1>3. CASE n # 0 /\ Last(lo) < Base - 1
  <2>1. lo # << >> /\ Last(lo) = lo[n] /\ rankAt(lo, n) = lo[n] /\ lo[n] \in 0..(Base - 1)
    BY <1>1, <1>3, DigitType DEF Last
  <2>2. r = Append(Front(lo), lo[n] + 1)
    BY <1>3, <2>1 DEF RankAfter
  <2>3. PICK h \in Nat : h = n - 1
    BY <1>3
  <2>4. Front(lo) = Digits(lo, h)
    <3>1. Front(lo) = SubSeq(lo, 1, h)
      BY <1>1, <2>3 DEF Front
    <3>2. \A m \in 1..h : lo[m] \in 0..(Base - 1) /\ rankAt(lo, m) = lo[m]
      BY <1>1, <2>3, DigitType
    <3>3. h \in 0..Len(lo)
      BY <1>1, <2>3
    <3>4. PICK t : t = SubSeq(lo, 1, h)
      OBVIOUS
    <3>5. t \in Seq(0..(Base - 1)) /\ Len(t) = h /\ \A m \in 1..h : t[m] = lo[m]
      BY <3>3, <3>4, PrefixSeq DEF Strings
    <3> QED
      BY <3>1, <3>2, <3>4, <3>5 DEF Digits
  <2>5. PICK d \in 0..(Base - 1) : d = lo[n] + 1
    BY <1>3, <2>1
  <2>6. Replaces(r, lo, n, d)
    BY <1>3, <2>2, <2>3, <2>4, <2>5, AppendDigit
  <2> QED
    BY <1>2, <1>3, <2>1, <2>5, <2>6
<1>4. CASE n = 0 \/ ~ (Last(lo) < Base - 1)
  <2>1. r = Append(lo, RankFirst)
    <3>1. CASE n = 0
      <4>1. lo = << >>
        BY <1>1, <3>1, EmptySeq DEF Strings
      <4> QED
        BY <4>1 DEF RankAfter
    <3>2. CASE n # 0
      <4>1. lo # << >>
        BY <1>1, <3>2
      <4> QED
        BY <1>4, <3>2, <4>1 DEF RankAfter
    <3> QED
      BY <3>1, <3>2
  <2>2. lo = Digits(lo, n)
    <3>1. \A m \in 1..n : rankAt(lo, m) = lo[m]
      BY <1>1, DigitType
    <3> QED
      BY <1>1, <3>1 DEF Digits, Strings
  <2>3. PICK h \in Nat \ {0} : h = n + 1 /\ n = h - 1
    OBVIOUS
  <2>4. RankFirst \in 0..(Base - 1) /\ 0 < RankFirst /\ rankAt(lo, h) = 0
    BY <1>1, <2>3, DigitType
  <2>5. Replaces(r, lo, h, RankFirst)
    BY <2>1, <2>2, <2>3, <2>4, AppendDigit
  <2> QED
    BY <1>2, <2>3, <2>4, <2>5
<1> QED
  BY <1>3, <1>4

LEMMA MinIs ==
  ASSUME NEW S \in SUBSET Nat, NEW k \in S, \A m \in S : k <= m
  PROVE  Min(S) = k
<1>1. Min(S) = CHOOSE x \in S : \A y \in S : x <= y
  BY DEF Min
<1>2. Min(S) \in S /\ \A y \in S : Min(S) <= y
  BY <1>1
<1>3. Min(S) <= k /\ k <= Min(S) /\ Min(S) \in Nat /\ k \in Nat
  BY <1>2
<1> QED
  BY <1>3

LEMMA MinExists ==
  ASSUME NEW S \in SUBSET Nat, S # {}
  PROVE  Min(S) \in S /\ \A y \in S : Min(S) <= y
<1>1. PICK k \in S : \A y \in S : k <= y
  BY LeastNatural
<1>2. Min(S) = k
  BY <1>1, MinIs
<1> QED
  BY <1>1, <1>2

LEMMA MaxOfTwo ==
  ASSUME NEW a \in Nat, NEW b \in Nat
  PROVE  Max({a, b}) = IF a >= b THEN a ELSE b
<1>1. Max({a, b}) = CHOOSE x \in {a, b} : \A y \in {a, b} : x >= y
  BY DEF Max
<1>2. \E x \in {a, b} : \A y \in {a, b} : x >= y
  <2>1. CASE a >= b
    BY <2>1
  <2>2. CASE ~ (a >= b)
    BY <2>2
  <2> QED
    BY <2>1, <2>2
<1>3. Max({a, b}) \in {a, b} /\ \A y \in {a, b} : Max({a, b}) >= y
  BY <1>1, <1>2
<1>4. Max({a, b}) >= a /\ Max({a, b}) >= b
  BY <1>3
<1> QED
  BY <1>3, <1>4

(* Where the loop of RankBetween stops descending. *)
LEMMA FirstApart ==
  ASSUME NEW lo \in Strings, NEW hi \in Strings, Under(lo, hi)
  PROVE  /\ Ends(lo, hi)
         /\ Min(Apart(lo, hi)) \in 1..Len(hi)
         /\ rankAt(lo, Min(Apart(lo, hi))) < rankAt(hi, Min(Apart(lo, hi)))
         /\ SameUpTo(lo, hi, Min(Apart(lo, hi)))
<1>1. PICK k \in Nat \ {0} : rankAt(lo, k) < rankAt(hi, k) /\ SameUpTo(lo, hi, k)
  BY DEF Under
<1>2. PICK a \in Nat : a = Len(lo)
  BY DEF Strings
<1>3. PICK b \in Nat : b = Len(hi)
  BY DEF Strings
<1>4. k <= b
  BY <1>1, <1>3, DecidingDigit
<1>5. PICK S : S = Apart(lo, hi)
  OBVIOUS
<1>6. S = {i \in 1..(IF a >= b THEN a ELSE b) : rankAt(lo, i) # rankAt(hi, i)}
  BY <1>2, <1>3, <1>5, MaxOfTwo DEF Apart
<1>7. S \in SUBSET Nat
  BY <1>6
<1>8. k \in S
  <2>1. rankAt(lo, k) \in Nat /\ rankAt(hi, k) \in Nat
    BY DigitType
  <2> QED
    BY <1>1, <1>4, <1>6, <2>1
<1>9. \A m \in S : k <= m
  BY <1>1, <1>6 DEF SameUpTo
<1>10. Min(S) = k
  BY <1>7, <1>8, <1>9, MinIs
<1> QED
  BY <1>1, <1>3, <1>4, <1>5, <1>8, <1>10 DEF Ends

LEMMA DigitBetween ==
  ASSUME NEW a \in 0..(Base - 1), NEW b \in 0..Base, b - a > 1
  PROVE  /\ (a + b) \div 2 \in 0..(Base - 1)
         /\ a < (a + b) \div 2
         /\ (a + b) \div 2 < b
  OBVIOUS

(* Where it stops carrying: at most one digit past what there is of lo. *)
LEMMA FirstRoom ==
  ASSUME NEW lo \in Strings, NEW i \in Nat \ {0}, NEW W \in Nat, Len(lo) <= W, i <= W,
         NEW J, J = {k \in (i + 1)..(i + 1 + Len(lo)) : rankAt(lo, k) < Base - 1}
  PROVE  /\ Min(J) \in Nat \ {0} /\ i < Min(J) /\ Min(J) <= W + 1
         /\ rankAt(lo, Min(J)) < Base - 1
<1>1. PICK a \in Nat : a = Len(lo)
  BY DEF Strings
<1>2. PICK w \in Nat : w = (IF i >= a THEN i ELSE a)
  OBVIOUS
<1>3. w + 1 \in (i + 1)..(i + 1 + a) /\ w + 1 > a /\ w + 1 \in Nat \ {0} /\ w <= W
  BY <1>1, <1>2
<1>4. rankAt(lo, w + 1) = 0
  BY <1>1, <1>3, DigitType
<1>5. w + 1 \in J
  BY <1>1, <1>3, <1>4
<1>6. J \in SUBSET Nat
  BY <1>1
<1>7. Min(J) \in J /\ Min(J) <= w + 1
  BY <1>5, <1>6, MinExists
<1> QED
  BY <1>1, <1>3, <1>7

(* rank.go, RankBetween: between two strings that differ as fractions it   *)
(* ends, and makes one that lies strictly between them, at most one digit  *)
(* longer than the longer of the two.                                      *)
THEOREM RankBetweenIsBetween ==
  ASSUME NEW lo \in Strings, NEW hi \in Strings, Under(lo, hi),
         NEW W \in Nat, Len(lo) <= W, Len(hi) <= W,
         NEW r, r = RankBetween(lo, hi)
  PROVE  /\ r \in Strings /\ r # << >>
         /\ Under(lo, r) /\ Under(r, hi)
         /\ Less(lo, r) /\ Less(r, hi)
         /\ Len(r) <= W + 1
<1>1. PICK i \in Nat \ {0} : /\ i = Min(Apart(lo, hi)) /\ i <= Len(hi)
                             /\ rankAt(lo, i) < rankAt(hi, i) /\ SameUpTo(lo, hi, i)
  BY FirstApart
<1>2. Len(lo) \in Nat /\ Len(hi) \in Nat
  BY DEF Strings
<1>3. i <= W /\ hi # << >>
  BY <1>1, <1>2
<1>4. PICK a \in 0..(Base - 1) : a = rankAt(lo, i)
  BY DigitType
<1>5. PICK b \in 0..(Base - 1) : b = rankAt(hi, i)
  BY DigitType
<1>6. PICK J : J = {k \in (i + 1)..(i + 1 + Len(lo)) : rankAt(lo, k) < Base - 1}
  OBVIOUS
<1>7. PICK j \in Nat \ {0} : j = Min(J) /\ i < j /\ j <= W + 1 /\ rankAt(lo, j) < Base - 1
  BY <1>3, <1>6, FirstRoom
<1>8. r = IF b - a > 1 THEN Append(Digits(lo, i - 1), (a + b) \div 2)
          ELSE Append(Digits(lo, j - 1), (rankAt(lo, j) + Base) \div 2)
  BY <1>1, <1>3, <1>4, <1>5, <1>6, <1>7 DEF RankBetween
<1>9. /\ r \in Strings /\ r # << >> /\ Under(lo, r) /\ Under(r, hi)
      /\ Len(r) <= W + 1
  <2>1. CASE b - a > 1
    <3>1. PICK d \in 0..(Base - 1) : d = (a + b) \div 2 /\ a < d /\ d < b
      BY <2>1, DigitBetween
    <3>2. PICK h : h = i - 1
      OBVIOUS
    <3>3. r = Append(Digits(lo, h), d)
      BY <1>8, <2>1, <3>1, <3>2
    <3>4. Replaces(r, lo, i, d)
      BY <3>2, <3>3, AppendDigit
    <3>5. Under(lo, r)
      BY <1>4, <3>1, <3>4, ReplacesOver
    <3>6. i <= i /\ ~ (i < i) /\ d < rankAt(hi, i)
      BY <1>5, <3>1
    <3>7. Under(r, hi)
      BY <1>1, <3>4, <3>6, ReplacesUnder
    <3>8. r \in Strings /\ Len(r) = i
      BY <3>4 DEF Replaces
    <3> QED
      BY <1>3, <3>5, <3>7, <3>8
  <2>2. CASE ~ (b - a > 1)
    <3>1. PICK c \in 0..(Base - 1) : c = rankAt(lo, j) /\ c < Base - 1
      BY <1>7, DigitType
    <3>2. PICK d \in 0..(Base - 1) : d = (c + Base) \div 2 /\ c < d
      <4>1. Base \in 0..Base /\ Base - c > 1
        BY <3>1
      <4> QED
        BY <4>1, DigitBetween
    <3>3. PICK h : h = j - 1
      OBVIOUS
    <3>4. r = Append(Digits(lo, h), d)
      BY <1>8, <2>2, <3>1, <3>2, <3>3
    <3>5. Replaces(r, lo, j, d)
      BY <3>3, <3>4, AppendDigit
    <3>6. Under(lo, r)
      BY <3>1, <3>2, <3>5, ReplacesOver
    <3>7. i <= j /\ i # j
      BY <1>7
    <3>8. Under(r, hi)
      BY <1>1, <3>5, <3>7, ReplacesUnder
    <3>9. r \in Strings /\ Len(r) = j
      BY <3>5 DEF Replaces
    <3> QED
      BY <1>7, <3>6, <3>8, <3>9
  <2> QED
    BY <2>1, <2>2
<1> QED
  BY <1>9, UnderIsLess

-----------------------------------------------------------------------------
(* Powers.  intPow is the function its recursion describes: its beginnings *)
(* exist, and they agree.                                                  *)

Powers(f, n) == /\ f \in [0..n -> Nat]
                /\ f[0] = 1
                /\ \A m \in 1..n : f[m] = f[m - 1] * Base

LEMMA PowersStep ==
  ASSUME NEW n \in Nat \ {0}, NEW f, Powers(f, n - 1)
  PROVE  \E g : Powers(g, n)
<1>1. PICK h \in Nat : h = n - 1
  OBVIOUS
<1>2. f \in [0..h -> Nat] /\ f[0] = 1 /\ \A m \in 1..h : f[m] = f[m - 1] * Base
  BY <1>1 DEF Powers
<1>3. PICK v \in Nat : v = f[h] * Base
  <2>1. f[h] \in Nat
    BY <1>2
  <2> QED
    BY <2>1
<1>4. PICK g : g = [m \in 0..n |-> IF m = n THEN v ELSE f[m]]
  OBVIOUS
<1>5. g \in [0..n -> Nat]
  <2>1. \A m \in 0..n : m # n => m \in 0..h
    BY <1>1
  <2> QED
    BY <1>2, <1>4, <2>1
<1>6. g[0] = 1
  BY <1>2, <1>4
<1>7. ASSUME NEW m \in 1..n PROVE g[m] = g[m - 1] * Base
  <2>1. CASE m = n
    <3>1. g[m] = v /\ g[m - 1] = f[h]
      BY <1>1, <1>4, <2>1
    <3> QED
      BY <1>3, <3>1
  <2>2. CASE m # n
    <3>1. m \in 1..h /\ m \in 0..n /\ m - 1 \in 0..n /\ m - 1 # n
      BY <1>1, <2>2
    <3>2. g[m] = f[m] /\ g[m - 1] = f[m - 1]
      BY <1>4, <2>2, <3>1
    <3> QED
      BY <1>2, <3>1, <3>2
  <2> QED
    BY <2>1, <2>2
<1> QED
  BY <1>5, <1>6, <1>7 DEF Powers

LEMMA PowersExist ==
  ASSUME NEW n \in Nat
  PROVE  \E f : Powers(f, n)
<1> SUFFICES ASSUME ~ \E f : Powers(f, n) PROVE FALSE
  OBVIOUS
<1>1. PICK S \in SUBSET Nat : S = {m \in Nat : ~ \E f : Powers(f, m)}
  OBVIOUS
<1>2. PICK x \in S : \A y \in S : x <= y
  BY <1>1, LeastNatural
<1>3. ~ \E f : Powers(f, x)
  BY <1>1
<1>4. x # 0
  <2>1. Powers([m \in 0..0 |-> 1], 0)
    BY DEF Powers
  <2> QED
    BY <1>3, <2>1
<1>5. x - 1 \in Nat /\ ~ (x <= x - 1)
  BY <1>4
<1>6. PICK f : Powers(f, x - 1)
  BY <1>1, <1>2, <1>5
<1> QED
  BY <1>3, <1>4, <1>6, PowersStep

LEMMA PowersAgree ==
  ASSUME NEW n \in Nat, NEW p \in Nat, NEW f, NEW g, Powers(f, n), Powers(g, p),
         NEW m \in Nat, m <= n, m <= p
  PROVE  f[m] = g[m]
<1> SUFFICES ASSUME f[m] # g[m] PROVE FALSE
  OBVIOUS
<1>1. PICK S \in SUBSET Nat : S = {k \in Nat : k <= n /\ k <= p /\ f[k] # g[k]}
  OBVIOUS
<1>2. PICK x \in S : \A y \in S : x <= y
  BY <1>1, LeastNatural
<1>3. x \in Nat /\ x <= n /\ x <= p /\ f[x] # g[x]
  BY <1>1
<1>4. x # 0
  BY <1>3 DEF Powers
<1>5. x - 1 \in Nat /\ x - 1 <= n /\ x - 1 <= p /\ ~ (x <= x - 1)
  BY <1>3, <1>4
<1>6. f[x - 1] = g[x - 1]
  BY <1>1, <1>2, <1>5
<1>7. f[x] = f[x - 1] * Base /\ g[x] = g[x - 1] * Base
  BY <1>3, <1>4 DEF Powers
<1> QED
  BY <1>3, <1>6, <1>7

LEMMA IntPowEquation ==
  /\ intPow \in [Nat -> Nat]
  /\ intPow[0] = 1
  /\ \A n \in Nat : intPow[n + 1] = intPow[n] * Base
<1> DEFINE Rec(f) == [exp \in Nat |-> IF exp = 0 THEN 1 ELSE f[exp - 1] * Base]
<1>1. PICK F : F = [n \in Nat |-> (CHOOSE f : Powers(f, n))[n]]
  OBVIOUS
<1>2. \A n \in Nat : \E f : Powers(f, n) /\ F[n] = f[n]
  <2> TAKE n \in Nat
  <2>1. Powers((CHOOSE f : Powers(f, n)), n)
    BY PowersExist
  <2>2. F[n] = (CHOOSE f : Powers(f, n))[n]
    BY <1>1
  <2> QED
    BY <2>1, <2>2
<1>3. F \in [Nat -> Nat]
  <2>1. ASSUME NEW n \in Nat PROVE F[n] \in Nat
    <3>1. PICK f : Powers(f, n) /\ F[n] = f[n]
      BY <1>2
    <3>2. f \in [0..n -> Nat] /\ n \in 0..n
      BY <3>1 DEF Powers
    <3> QED
      BY <3>1, <3>2
  <2> QED
    BY <1>1, <2>1
<1>4. F[0] = 1
  <2>1. PICK f : Powers(f, 0) /\ F[0] = f[0]
    BY <1>2
  <2> QED
    BY <2>1 DEF Powers
<1>5. ASSUME NEW n \in Nat, n # 0 PROVE F[n] = F[n - 1] * Base
  <2>1. PICK f : Powers(f, n) /\ F[n] = f[n]
    BY <1>2
  <2>2. PICK h \in Nat : h = n - 1 /\ h <= n /\ h <= h
    BY <1>5
  <2>3. PICK g : Powers(g, h) /\ F[h] = g[h]
    BY <1>2
  <2>4. f[n] = f[h] * Base
    BY <1>5, <2>1, <2>2 DEF Powers
  <2>5. f[h] = g[h]
    BY <2>1, <2>2, <2>3, PowersAgree
  <2> QED
    BY <2>1, <2>2, <2>3, <2>4, <2>5
<1>6. F = Rec(F)
  <2>1. \A n \in Nat : F[n] = IF n = 0 THEN 1 ELSE F[n - 1] * Base
    BY <1>4, <1>5
  <2> QED
    BY <1>3, <2>1
<1>7. intPow = CHOOSE f : f = Rec(f)
  BY DEF intPow
<1>8. intPow = Rec(intPow)
  BY <1>6, <1>7
<1>9. \A n \in Nat : intPow[n] = IF n = 0 THEN 1 ELSE intPow[n - 1] * Base
  <2>1. \A f : \A n \in Nat : Rec(f)[n] = IF n = 0 THEN 1 ELSE f[n - 1] * Base
    OBVIOUS
  <2> HIDE DEF Rec
  <2> QED
    BY <1>8, <2>1
<1>10. intPow = [n \in Nat |-> intPow[n]]
  <2>1. \A f : Rec(f) = [n \in Nat |-> Rec(f)[n]]
    OBVIOUS
  <2> HIDE DEF Rec
  <2> QED
    BY <1>8, <2>1
<1> HIDE DEF Rec
<1>11. \A n \in Nat : intPow[n + 1] = intPow[n] * Base
  <2> TAKE n \in Nat
  <2>1. n + 1 \in Nat /\ n + 1 # 0 /\ (n + 1) - 1 = n
    OBVIOUS
  <2> QED
    BY <1>9, <2>1
<1>12. \A n \in Nat : intPow[n] \in Nat
  <2> SUFFICES ASSUME NEW n \in Nat, intPow[n] \notin Nat PROVE FALSE
    OBVIOUS
  <2>1. PICK S \in SUBSET Nat : S = {m \in Nat : intPow[m] \notin Nat}
    OBVIOUS
  <2>2. PICK x \in S : \A y \in S : x <= y
    BY <2>1, LeastNatural
  <2>3. x # 0
    BY <1>9, <2>1
  <2>4. x - 1 \in Nat /\ ~ (x <= x - 1)
    BY <2>3
  <2>5. intPow[x - 1] \in Nat
    BY <2>1, <2>2, <2>4
  <2>6. intPow[x] = intPow[x - 1] * Base
    BY <1>9, <2>3
  <2>7. intPow[x] \in Nat
    BY <2>5, <2>6
  <2> QED
    BY <2>1, <2>7
<1> QED
  BY <1>9, <1>10, <1>11, <1>12

LEMMA TimesBase ==
  ASSUME NEW p \in Nat
  PROVE  p * Base \in Nat /\ p * Base >= p + p
<1>1. PICK c \in Nat : Base = c + 2
  <2>1. Base - 2 \in Nat /\ Base = (Base - 2) + 2
    OBVIOUS
  <2> QED
    BY <2>1
<1>2. p * Base = p * c + (p + p) /\ p * c \in Nat
  BY <1>1
<1> QED
  BY <1>2

LEMMA PowExceeds ==
  ASSUME NEW n \in Nat
  PROVE  intPow[n] \in Nat /\ intPow[n] > n
<1> SUFFICES ASSUME ~ (intPow[n] > n) PROVE FALSE
  BY IntPowEquation
<1>1. PICK S \in SUBSET Nat : S = {m \in Nat : ~ (intPow[m] > m)}
  OBVIOUS
<1>2. PICK x \in S : \A y \in S : x <= y
  BY <1>1, LeastNatural
<1>3. x # 0
  BY <1>1, IntPowEquation
<1>4. PICK h \in Nat : x = h + 1 /\ ~ (x <= h)
  <2>1. x - 1 \in Nat /\ x = (x - 1) + 1 /\ ~ (x <= x - 1)
    BY <1>3
  <2> QED
    BY <2>1
<1>5. PICK p \in Nat : p = intPow[h] /\ p > h
  BY <1>1, <1>2, <1>4, IntPowEquation
<1>6. intPow[x] = p * Base
  BY <1>4, <1>5, IntPowEquation
<1>7. intPow[x] > x
  BY <1>4, <1>5, <1>6, TimesBase
<1> QED
  BY <1>1, <1>7

LEMMA DivParts ==
  ASSUME NEW v \in Nat, NEW b \in Nat, b > 0
  PROVE  /\ v \div b \in Nat /\ v % b \in Nat /\ v % b < b
         /\ v = b * (v \div b) + (v % b)
  OBVIOUS

LEMMA QuotientUnique ==
  ASSUME NEW b \in Nat, b > 0, NEW q \in Nat, NEW r \in Nat, r < b,
         NEW p \in Nat, NEW s \in Nat, s < b, b * q + r = b * p + s
  PROVE  q = p
<1>1. ASSUME NEW x \in Nat, NEW y \in Nat, NEW e \in Nat, NEW f \in Nat, e < b,
             b * x + e = b * y + f
      PROVE  ~ (x < y)
  <2> SUFFICES ASSUME x < y PROVE FALSE
    OBVIOUS
  <2>1. PICK d \in Nat : y = x + 1 + d
    <3>1. y - x - 1 \in Nat /\ y = x + 1 + (y - x - 1)
      OBVIOUS
    <3> QED
      BY <3>1
  <2>2. b * y = b * x + b + b * d /\ b * d \in Nat
    BY <2>1
  <2>3. PICK X \in Nat : X = b * x
    OBVIOUS
  <2>4. PICK D \in Nat : D = b * d
    BY <2>2
  <2>5. X + e = X + b + D + f
    BY <1>1, <2>2, <2>3, <2>4
  <2> QED
    BY <1>1, <2>5
<1>2. ~ (q < p) /\ ~ (p < q)
  BY <1>1
<1> QED
  BY <1>2

LEMMA DivOf ==
  ASSUME NEW v \in Nat, NEW b \in Nat, b > 0, NEW q \in Nat, NEW r \in Nat, r < b, v = b * q + r
  PROVE  v \div b = q
  BY DivParts, QuotientUnique

(* Dividing once more. *)
LEMMA DivTwice ==
  ASSUME NEW v \in Nat, NEW p \in Nat, p > 0
  PROVE  v \div (p * Base) = (v \div p) \div Base
<1>1. PICK q \in Nat, r \in Nat : q = v \div p /\ r < p /\ v = p * q + r
  BY DivParts
<1>2. PICK x \in Nat, y \in Nat : x = q \div Base /\ y < Base /\ q = Base * x + y
  BY DivParts
<1>3. PICK b \in Nat : b = p * Base /\ b > 0
  BY TimesBase
<1>4. p * q = b * x + p * y
  BY <1>2, <1>3
<1>5. PICK e \in Nat : e = p * y
  OBVIOUS
<1>6. e + p <= b
  <2>1. PICK d \in Nat : Base = y + 1 + d
    <3>1. Base - y - 1 \in Nat /\ Base = y + 1 + (Base - y - 1)
      BY <1>2
    <3> QED
      BY <3>1
  <2>2. p * Base = p * y + p + p * d /\ p * d \in Nat
    BY <2>1
  <2> QED
    BY <1>3, <1>5, <2>2
<1>7. PICK f \in Nat : f = e + r /\ f < b
  BY <1>1, <1>6
<1>8. v = b * x + f
  <2>1. PICK B \in Nat : B = b * x
    OBVIOUS
  <2> QED
    BY <1>1, <1>4, <1>5, <1>7, <2>1
<1>9. v \div b = x
  BY <1>3, <1>7, <1>8, DivOf
<1> QED
  BY <1>1, <1>2, <1>3, <1>9

LEMMA DivMonotone ==
  ASSUME NEW u \in Nat, NEW v \in Nat, u <= v, NEW p \in Nat, p > 0
  PROVE  u \div p <= v \div p
<1>1. PICK q \in Nat, r \in Nat : q = u \div p /\ r < p /\ u = p * q + r
  BY DivParts
<1>2. PICK x \in Nat, y \in Nat : x = v \div p /\ y < p /\ v = p * x + y
  BY DivParts
<1>3. ASSUME x < q PROVE FALSE
  <2>1. PICK d \in Nat : q = x + 1 + d
    <3>1. q - x - 1 \in Nat /\ q = x + 1 + (q - x - 1)
      BY <1>3
    <3> QED
      BY <3>1
  <2>2. p * q = p * x + p + p * d /\ p * d \in Nat /\ p * x \in Nat
    BY <2>1
  <2>3. PICK X \in Nat : X = p * x
    BY <2>2
  <2>4. PICK D \in Nat : D = p * d
    BY <2>2
  <2>5. u = X + p + D + r /\ v = X + y
    BY <1>1, <1>2, <2>2, <2>3, <2>4
  <2>6. y < p
    BY <1>2
  <2>7. X + p + D + r <= X + y
    BY <2>5
  <2> QED
    BY <2>6, <2>7
<1> QED
  BY <1>1, <1>2, <1>3

(* What is left of v once the digits after the k-th of w are cut off. *)
Upper(v, w, k) == v \div intPow[w - k]

LEMMA HeadSteps ==
  ASSUME NEW v \in Nat, NEW w \in Nat, v < intPow[w]
  PROVE  /\ Upper(v, w, 0) = 0
         /\ Upper(v, w, w) = v
         /\ \A k \in 0..w : Upper(v, w, k) \in Nat
         /\ \A k \in 1..w : Upper(v, w, k - 1) = Upper(v, w, k) \div Base
<1>1. \A n \in Nat : intPow[n] \in Nat /\ intPow[n] > 0
  BY PowExceeds
<1>2. Upper(v, w, 0) = 0
  <2>1. PICK p \in Nat : p = intPow[w] /\ p > 0 /\ v < p
    BY <1>1
  <2>2. v = p * 0 + v
    OBVIOUS
  <2>3. v \div p = 0
    BY <2>1, <2>2, DivOf
  <2> QED
    BY <2>1, <2>3 DEF Upper
<1>3. Upper(v, w, w) = v
  <2>1. intPow[w - w] = 1
    BY IntPowEquation
  <2>2. v \div 1 = v
    OBVIOUS
  <2> QED
    BY <2>1, <2>2 DEF Upper
<1>4. ASSUME NEW k \in 0..w PROVE Upper(v, w, k) \in Nat
  <2>1. w - k \in Nat
    OBVIOUS
  <2>2. PICK p \in Nat : p = intPow[w - k] /\ p > 0
    BY <1>1, <2>1
  <2> QED
    BY <2>2, DivParts DEF Upper
<1>5. ASSUME NEW k \in 1..w PROVE Upper(v, w, k - 1) = Upper(v, w, k) \div Base
  <2>1. PICK n \in Nat : n = w - k /\ w - (k - 1) = n + 1
    <3>1. w - k \in Nat /\ w - (k - 1) = (w - k) + 1
      OBVIOUS
    <3> QED
      BY <3>1
  <2>2. PICK p \in Nat : p = intPow[n] /\ p > 0
    BY <1>1
  <2>3. intPow[n + 1] = p * Base
    BY <2>2, IntPowEquation
  <2>4. v \div (p * Base) = (v \div p) \div Base
    BY <2>2, DivTwice
  <2> QED
    BY <2>1, <2>2, <2>3, <2>4 DEF Upper
<1> QED
  BY <1>2, <1>3, <1>4, <1>5

LEMMA EncodeDigits ==
  ASSUME NEW v \in Nat, NEW w \in Nat, v < intPow[w]
  PROVE  /\ rankEncode(v, w) \in Strings
         /\ Len(rankEncode(v, w)) = w
         /\ \A k \in 1..w : rankAt(rankEncode(v, w), k) = Upper(v, w, k) % Base
<1>1. PICK r : r = rankEncode(v, w)
  OBVIOUS
<1>2. r = [k \in 1..w |-> Upper(v, w, k) % Base]
  BY <1>1 DEF rankEncode, Upper
<1>3. \A k \in 1..w : Upper(v, w, k) % Base \in 0..(Base - 1)
  <2> TAKE k \in 1..w
  <2>1. PICK q \in Nat : q = Upper(v, w, k)
    BY HeadSteps
  <2>2. q % Base \in Nat /\ q % Base < Base
    BY DivParts
  <2> QED
    BY <2>1, <2>2
<1>4. r \in [1..w -> 0..(Base - 1)]
  BY <1>2, <1>3
<1>5. r \in Strings /\ Len(r) = w
  BY <1>4 DEF Strings
<1>6. \A k \in 1..w : rankAt(r, k) = r[k]
  BY <1>5, DigitType
<1> QED
  BY <1>1, <1>2, <1>5, <1>6

(* Encoding keeps the order, for numbers that fit the width. *)
LEMMA EncodeGrows ==
  ASSUME NEW u \in Nat, NEW v \in Nat, u < v, NEW w \in Nat, v < intPow[w]
  PROVE  Under(rankEncode(u, w), rankEncode(v, w))
<1>0. intPow[w] \in Nat
  BY PowExceeds
<1>1. u < intPow[w]
  BY <1>0
<1>2. PICK S : S = {k \in 0..w : Upper(u, w, k) # Upper(v, w, k)}
  OBVIOUS
<1>3. w \in S
  BY <1>1, <1>2, HeadSteps
<1>4. PICK k \in S : \A m \in S : k <= m
  <2>1. S \in SUBSET Nat
    BY <1>2
  <2> QED
    BY <1>3, <2>1, LeastNatural
<1>5. k \in 0..w /\ Upper(u, w, k) # Upper(v, w, k)
  BY <1>2
<1>6. k # 0
  BY <1>1, <1>5, HeadSteps
<1>7. PICK h \in 0..w : h = k - 1 /\ ~ (k <= h)
  <2>1. k - 1 \in 0..w /\ ~ (k <= k - 1)
    BY <1>5, <1>6
  <2> QED
    BY <2>1
<1>8. PICK x \in Nat : x = Upper(u, w, k)
  BY <1>1, <1>5, HeadSteps
<1>9. PICK y \in Nat : y = Upper(v, w, k)
  BY <1>5, HeadSteps
<1>10. x \div Base = y \div Base
  <2>1. Upper(u, w, h) = Upper(v, w, h)
    BY <1>2, <1>4, <1>7
  <2>2. k \in 1..w
    BY <1>5, <1>6
  <2>3. Upper(u, w, k - 1) = x \div Base
    BY <1>1, <1>8, <2>2, HeadSteps
  <2>4. Upper(v, w, k - 1) = y \div Base
    BY <1>9, <2>2, HeadSteps
  <2> QED
    BY <1>7, <2>1, <2>3, <2>4
<1>11. x < y
  <2>1. PICK p \in Nat : p = intPow[w - k] /\ p > 0
    <3>1. w - k \in Nat
      BY <1>5
    <3> QED
      BY <3>1, PowExceeds
  <2>2. x = u \div p /\ y = v \div p
    BY <1>8, <1>9, <2>1 DEF Upper
  <2>3. x <= y
    BY <2>1, <2>2, DivMonotone
  <2> QED
    BY <1>5, <1>8, <1>9, <2>3
<1>12. x % Base < y % Base
  <2>1. PICK q \in Nat, a \in Nat : q = x \div Base /\ a = x % Base /\ x = Base * q + a
    BY DivParts
  <2>2. PICK b \in Nat : b = y % Base /\ y = Base * q + b
    BY <1>10, <2>1, DivParts
  <2>3. PICK X \in Nat : X = Base * q
    OBVIOUS
  <2> QED
    BY <1>11, <2>1, <2>2, <2>3
<1>13. k \in 1..w /\ k \in Nat \ {0}
  BY <1>5, <1>6
<1>14. rankAt(rankEncode(u, w), k) < rankAt(rankEncode(v, w), k)
  BY <1>1, <1>8, <1>9, <1>12, <1>13, EncodeDigits
<1>15. SameUpTo(rankEncode(u, w), rankEncode(v, w), k)
  <2> SUFFICES ASSUME NEW m \in Nat \ {0}, m < k
               PROVE  rankAt(rankEncode(u, w), m) = rankAt(rankEncode(v, w), m)
    BY DEF SameUpTo
  <2>1. m \in 1..w /\ m \in 0..w /\ ~ (k <= m)
    BY <1>5
  <2>2. Upper(u, w, m) = Upper(v, w, m)
    BY <1>2, <1>4, <2>1
  <2>3. rankAt(rankEncode(u, w), m) = Upper(u, w, m) % Base
    BY <1>1, <2>1, EncodeDigits
  <2>4. rankAt(rankEncode(v, w), m) = Upper(v, w, m) % Base
    BY <2>1, EncodeDigits
  <2> QED
    BY <2>2, <2>3, <2>4
<1> QED
  BY <1>13, <1>14, <1>15 DEF Under

LEMMA EncodePositive ==
  ASSUME NEW v \in Nat, 0 < v, NEW w \in Nat, v < intPow[w]
  PROVE  Under(<< >>, rankEncode(v, w))
<1>1. Under(rankEncode(0, w), rankEncode(v, w))
  BY EncodeGrows
<1>2. PICK z : z = rankEncode(0, w)
  OBVIOUS
<1>3. 0 < intPow[w]
  BY PowExceeds
<1>4. z \in Strings /\ Len(z) = w /\ << >> \in Strings
  BY <1>2, <1>3, EncodeDigits DEF Strings
<1>5. ASSUME NEW m \in Nat \ {0} PROVE rankAt(z, m) = 0 /\ rankAt(<< >>, m) = 0
  <2>1. rankAt(<< >>, m) = 0
    BY DEF rankAt
  <2>2. CASE m > w
    BY <1>4, <2>1, <2>2, DigitType
  <2>3. CASE m <= w
    <3>1. m \in 1..w /\ w - m \in Nat
      BY <2>3
    <3>2. PICK p \in Nat : p = intPow[w - m] /\ p > 0
      BY <3>1, PowExceeds
    <3>3. 0 \div p = 0 /\ 0 % Base = 0
      <4>1. 0 = p * 0 + 0 /\ 0 = Base * 0 + 0
        OBVIOUS
      <4>2. 0 \div p = 0
        BY <3>2, <4>1, DivOf
      <4>3. 0 % Base = 0
        OBVIOUS
      <4> QED
        BY <4>2, <4>3
    <3>4. rankAt(z, m) = Upper(0, w, m) % Base
      BY <1>2, <1>3, <3>1, EncodeDigits
    <3> QED
      BY <2>1, <3>2, <3>3, <3>4 DEF Upper
  <2> QED
    BY <2>2, <2>3
<1> QED
  BY <1>1, <1>2, <1>5 DEF Under, SameUpTo

(* n ranks in rising order, above the empty string, with a digit to spare. *)
EvenlySpread(s, n) ==
    /\ s \in Seq(Strings) /\ Len(s) = n
    /\ \A k \in 1..n : /\ s[k] \in Strings /\ s[k] # << >>
                       /\ Len(s[k]) < Threshold
                       /\ Under(<< >>, s[k])
    /\ \A k, m \in 1..n : k < m => Under(s[k], s[m])

LEMMA WidthFits ==
  ASSUME NEW n \in Nat, n <= Cardinality(Cards),
         NEW w, w = Min({x \in 1..(n + 2) : intPow[x] >= n + 2})
  PROVE  w \in Nat \ {0} /\ intPow[w] \in Nat /\ intPow[w] >= n + 2 /\ w < Threshold
<1>1. PICK c \in Nat : c = Cardinality(Cards) /\ n <= c
  BY RoomAssumption, FS_CardinalityType
<1>2. PICK t \in Nat : t = Threshold - 1
  OBVIOUS
<1>3. intPow[t] >= c + 2 /\ intPow[t] \in Nat
  BY <1>1, <1>2, RoomAssumption, PowExceeds
<1>4. t # 0
  BY <1>3, IntPowEquation
<1>5. PICK S : S = {x \in 1..(n + 2) : intPow[x] >= n + 2}
  OBVIOUS
<1>6. S \in SUBSET Nat
  BY <1>5
<1>7. n + 2 \in S
  <2>1. n + 2 \in Nat
    OBVIOUS
  <2>2. intPow[n + 2] \in Nat /\ intPow[n + 2] > n + 2
    BY <2>1, PowExceeds
  <2> QED
    BY <1>5, <2>1, <2>2
<1>8. w \in S /\ \A y \in S : w <= y
  BY <1>5, <1>6, <1>7, MinExists
<1>9. w \in 1..(n + 2) /\ intPow[w] >= n + 2
  BY <1>5, <1>8
<1>10. w < Threshold
  <2>1. CASE t <= n + 2
    <3>1. t \in S
      BY <1>1, <1>3, <1>4, <1>5, <2>1
    <3> QED
      BY <1>2, <1>8, <1>9, <3>1
  <2>2. CASE ~ (t <= n + 2)
    BY <1>2, <1>9, <2>2
  <2> QED
    BY <2>1, <2>2
<1> QED
  BY <1>9, <1>10, PowExceeds

LEMMA StepFits ==
  ASSUME NEW n \in Nat, NEW cap \in Nat, cap >= n + 2,
         NEW st, st = IF cap > n + 2 THEN Max({1, (cap - 2) \div (n + 1)}) ELSE 1
  PROVE  st \in Nat /\ st >= 1 /\ n * st \in Nat /\ n * st < cap
<1>1. CASE st = 1
  BY <1>1
<1>2. CASE st # 1
  <2>1. PICK c \in Nat : c = cap - 2
    OBVIOUS
  <2>2. PICK b \in Nat : b = n + 1 /\ b > 0
    OBVIOUS
  <2>3. PICK q \in Nat, r \in Nat : q = c \div b /\ c = b * q + r
    BY <2>2, DivParts
  <2>4. st = Max({1, q}) /\ cap > n + 2
    BY <1>2, <2>1, <2>2, <2>3
  <2>5. st = q /\ q >= 1
    BY <1>2, <2>4, MaxOfTwo
  <2>6. b * q = n * q + q /\ n * q \in Nat
    BY <2>2
  <2>7. PICK X \in Nat : X = n * q
    BY <2>6
  <2>8. c = X + q + r
    BY <2>3, <2>6, <2>7
  <2> QED
    BY <2>1, <2>5, <2>7, <2>8
<1> QED
  BY <1>1, <1>2

LEMMA Multiples ==
  ASSUME NEW k \in Nat, NEW m \in Nat, k < m, NEW st \in Nat, st >= 1
  PROVE  k * st \in Nat /\ m * st \in Nat /\ k * st < m * st
<1>1. PICK d \in Nat : m = k + 1 + d
  <2>1. m - k - 1 \in Nat /\ m = k + 1 + (m - k - 1)
    OBVIOUS
  <2> QED
    BY <2>1
<1>2. m * st = k * st + st + d * st /\ d * st \in Nat /\ k * st \in Nat
  BY <1>1
<1>3. PICK X \in Nat : X = k * st
  BY <1>2
<1>4. PICK D \in Nat : D = d * st
  BY <1>2
<1> QED
  BY <1>2, <1>3, <1>4

(* rank.go, RankSequence: as many ranks as a project has items are         *)
(* distinct, in order, not zero, and leave a digit below the threshold.    *)
THEOREM RankSequenceSpreads ==
  ASSUME NEW n \in Nat, n <= Cardinality(Cards)
  PROVE  EvenlySpread(RankSequence(n), n)
<1>1. PICK w : w = Min({x \in 1..(n + 2) : intPow[x] >= n + 2})
  OBVIOUS
<1>2. w \in Nat \ {0} /\ intPow[w] \in Nat /\ intPow[w] >= n + 2 /\ w < Threshold
  BY <1>1, WidthFits
<1>3. PICK cap \in Nat : cap = intPow[w]
  BY <1>2
<1>4. PICK st : st = IF cap > n + 2 THEN Max({1, (cap - 2) \div (n + 1)}) ELSE 1
  OBVIOUS
<1>5. st \in Nat /\ st >= 1 /\ n * st \in Nat /\ n * st < cap
  BY <1>2, <1>3, <1>4, StepFits
<1>6. PICK s : s = RankSequence(n)
  OBVIOUS
<1>7. s = [k \in 1..n |-> rankEncode(k * st, w)]
  BY <1>1, <1>3, <1>4, <1>6 DEF RankSequence
<1>8. ASSUME NEW k \in 1..n
      PROVE  k * st \in Nat /\ 0 < k * st /\ k * st < intPow[w]
  <2>1. k \in Nat /\ 0 < k /\ 0 \in Nat /\ (k < n \/ k = n)
    OBVIOUS
  <2>2. k * st \in Nat /\ 0 * st < k * st
    BY <1>5, <2>1, Multiples
  <2>3. 0 * st = 0
    BY <1>5
  <2>4. k * st <= n * st
    BY <1>5, <2>1, <2>2, Multiples
  <2>5. PICK x \in Nat : x = k * st
    BY <2>2
  <2>6. PICK y \in Nat : y = n * st
    BY <1>5
  <2> QED
    BY <1>3, <1>5, <2>2, <2>3, <2>4, <2>5, <2>6
<1>9. ASSUME NEW k \in 1..n
      PROVE  /\ s[k] \in Strings /\ s[k] # << >>
             /\ Len(s[k]) < Threshold
             /\ Under(<< >>, s[k])
  <2>1. PICK v \in Nat : v = k * st /\ 0 < v /\ v < intPow[w]
    BY <1>8
  <2>2. s[k] = rankEncode(v, w)
    BY <1>7, <2>1
  <2>3. s[k] \in Strings /\ Len(s[k]) = w
    BY <1>2, <2>1, <2>2, EncodeDigits
  <2>4. Under(<< >>, s[k])
    BY <1>2, <2>1, <2>2, EncodePositive
  <2>5. s[k] # << >>
    BY <1>2, <2>3
  <2> QED
    BY <1>2, <2>3, <2>4, <2>5
<1>10. ASSUME NEW k \in 1..n, NEW m \in 1..n, k < m
       PROVE  Under(s[k], s[m])
  <2>1. PICK u \in Nat : u = k * st
    BY <1>8
  <2>2. PICK v \in Nat : v = m * st /\ v < intPow[w]
    BY <1>8
  <2>3. u < v
    BY <1>5, <1>10, <2>1, <2>2, Multiples
  <2>4. s[k] = rankEncode(u, w) /\ s[m] = rankEncode(v, w)
    BY <1>7, <2>1, <2>2
  <2> QED
    BY <1>2, <2>2, <2>3, <2>4, EncodeGrows
<1>11. s \in Seq(Strings) /\ Len(s) = n
  <2>1. s \in [1..n -> Strings]
    BY <1>7, <1>9
  <2> QED
    BY <2>1
<1> QED
  BY <1>6, <1>9, <1>10, <1>11 DEF EvenlySpread

-----------------------------------------------------------------------------
(* The ranks of a project. *)

(* No two ranks are the same fraction, none is zero, none too long.  Being *)
(* different as strings is not enough: it leaves no room in between.       *)
RanksGood(rk) ==
    /\ rk \in [Cards -> Strings]
    /\ \A i \in Present(rk) : Len(rk[i]) <= Threshold /\ Under(<< >>, rk[i])
    /\ \A i, j \in Present(rk) : i # j => Differ(rk[i], rk[j])

LEMMA PresentFinite ==
  ASSUME NEW rk
  PROVE  /\ Present(rk) \in SUBSET Cards
         /\ IsFiniteSet(Present(rk))
         /\ Cardinality(Present(rk)) \in Nat
         /\ Cardinality(Cards) \in Nat
         /\ Cardinality(Present(rk)) <= Cardinality(Cards)
<1>1. Present(rk) \in SUBSET Cards
  BY DEF Present
<1> QED
  BY <1>1, RoomAssumption, FS_Subset, FS_CardinalityType

LEMMA LessIrreflexive ==
  ASSUME NEW s \in Strings
  PROVE  ~ Less(s, s)
<1>1. PICK n \in Nat : n = Len(s) /\ \A k \in 1..n : s[k] \in Nat
  BY DEF Strings
<1> QED
  BY <1>1 DEF Less

(* Of two items one is ahead, and both orders agree on which. *)
LEMMA GoodOrder ==
  ASSUME NEW rk, RanksGood(rk), NEW i \in Present(rk), NEW j \in Present(rk)
  PROVE  /\ rk[i] \in Strings /\ rk[j] \in Strings
         /\ Less(rk[i], rk[j]) <=> Under(rk[i], rk[j])
         /\ ~ (Under(rk[i], rk[j]) /\ Under(rk[j], rk[i]))
         /\ i # j => Under(rk[i], rk[j]) \/ Under(rk[j], rk[i])
         /\ Under(rk[i], rk[j]) => i # j
<1>1. rk[i] \in Strings /\ rk[j] \in Strings
  BY DEF RanksGood, Present
<1>2. PICK s \in Strings : s = rk[i]
  BY <1>1
<1>3. PICK t \in Strings : t = rk[j]
  BY <1>1
<1>4. ~ (Under(s, t) /\ Under(t, s))
  BY UnderTransitive, UnderIrreflexive
<1>5. CASE i = j
  <2>1. ~ Under(s, s) /\ ~ Less(s, s)
    BY UnderIrreflexive, LessIrreflexive
  <2> QED
    BY <1>1, <1>2, <1>3, <1>5, <2>1
<1>6. CASE i # j
  <2>1. Differ(s, t)
    BY <1>2, <1>3, <1>6 DEF RanksGood
  <2>2. Less(s, t) <=> Under(s, t)
    BY <2>1, LessIsUnder
  <2>3. Under(s, t) \/ Under(t, s)
    BY <2>1, UnderTotal
  <2> QED
    BY <1>2, <1>3, <1>4, <1>6, <2>2, <2>3
<1> QED
  BY <1>5, <1>6

LEMMA AheadTransitive ==
  ASSUME NEW rk, RanksGood(rk), NEW i \in Present(rk), NEW j \in Present(rk), NEW k \in Present(rk),
         Under(rk[i], rk[j]), Under(rk[j], rk[k])
  PROVE  Under(rk[i], rk[k])
  BY GoodOrder, UnderTransitive

RankOrder(rk) == {p \in Present(rk) \X Present(rk) : Under(rk[p[1]], rk[p[2]])}

LEMMA OrderIsTotal ==
  ASSUME NEW rk, RanksGood(rk)
  PROVE  StrictTotal(RankOrder(rk), Present(rk))
<1>1. \A i, j \in Present(rk) : <<i, j>> \in RankOrder(rk) <=> Under(rk[i], rk[j])
  BY DEF RankOrder
<1>2. \A i \in Present(rk) : <<i, i>> \notin RankOrder(rk)
  BY <1>1, GoodOrder
<1>3. \A i, j \in Present(rk) : i # j => \/ <<i, j>> \in RankOrder(rk)
                                         \/ <<j, i>> \in RankOrder(rk)
  BY <1>1, GoodOrder
<1>4. ASSUME NEW i \in Present(rk), NEW j \in Present(rk), NEW k \in Present(rk),
             <<i, j>> \in RankOrder(rk), <<j, k>> \in RankOrder(rk)
      PROVE  <<i, k>> \in RankOrder(rk)
  BY <1>1, <1>4, AheadTransitive
<1> QED
  BY <1>2, <1>3, <1>4 DEF StrictTotal

LEMMA OrderSorted ==
  ASSUME NEW rk, RanksGood(rk)
  PROVE  Sorted(RankOrder(rk), Present(rk), Order(rk))
<1>1. PICK S : S = Present(rk) /\ IsFiniteSet(S)
  BY PresentFinite
<1>2. PICK R : R = RankOrder(rk) /\ StrictTotal(R, S)
  BY <1>1, OrderIsTotal
<1>3. PICK n \in Nat : n = Cardinality(S)
  BY <1>1, FS_CardinalityType
<1>4. ASSUME NEW i \in S PROVE Cardinality({j \in S : Less(rk[j], rk[i])}) = Place(R, S, i)
  <2>1. \A j \in S : <<j, i>> \in R <=> Less(rk[j], rk[i])
    BY <1>1, <1>2, GoodOrder DEF RankOrder
  <2>2. Before(R, S, i) = {j \in S : Less(rk[j], rk[i])}
    BY <2>1 DEF Before
  <2> QED
    BY <2>2 DEF Place
<1>5. PICK s : s = Order(rk)
  OBVIOUS
<1>6. s = [k \in 1..n |-> CHOOSE i \in S : Cardinality({j \in S : Less(rk[j], rk[i])}) = k - 1]
  BY <1>1, <1>3, <1>5 DEF Order
<1>7. ASSUME NEW k \in 1..n
      PROVE  s[k] \in S /\ Place(R, S, s[k]) = k - 1
  <2>1. PlacesFilled(R, S)
    BY <1>1, <1>2, PlaceOnto
  <2>2. \E i \in S : Place(R, S, i) = k - 1
    BY <1>3, <2>1 DEF PlacesFilled
  <2> DEFINE Kth(i) == Cardinality({j \in S : Less(rk[j], rk[i])}) = k - 1
  <2>3. s[k] = CHOOSE i \in S : Kth(i)
    BY <1>6
  <2>4. \A i \in S : Kth(i) <=> Place(R, S, i) = k - 1
    BY <1>4
  <2> HIDE DEF Kth
  <2>5. s[k] \in S /\ Kth(s[k])
    BY <2>2, <2>3, <2>4
  <2> QED
    BY <2>4, <2>5
<1>8. s \in [1..n -> S]
  BY <1>6, <1>7
<1> QED
  BY <1>1, <1>2, <1>3, <1>5, <1>7, <1>8, SortedByPlace

(* A list of ranks, each above the ones before it. *)
Rising(s) == /\ s \in Seq(Strings)
             /\ \A k \in 1..Len(s) : s[k] \in Strings /\ s[k] # << >>
             /\ \A k, m \in 1..Len(s) : k < m => Under(s[k], s[m])

(* ListProjectRanks lists every rank, in order. *)
LEMMA ListedRising ==
  ASSUME NEW rk, RanksGood(rk), NEW s, s = Listed(rk)
  PROVE  /\ Rising(s)
         /\ Len(s) = Cardinality(Present(rk))
         /\ \A k \in 1..Len(s) : \E i \in Present(rk) : s[k] = rk[i]
         /\ \A i \in Present(rk) : \E k \in 1..Len(s) : s[k] = rk[i]
<1>1. PICK n \in Nat : n = Cardinality(Present(rk))
  BY PresentFinite
<1>2. PICK ord : ord = Order(rk)
  OBVIOUS
<1>3. /\ ord \in [1..n -> Present(rk)]
      /\ \A i \in Present(rk) : \E k \in 1..n : ord[k] = i
      /\ \A k, m \in 1..n : k < m => <<ord[k], ord[m]>> \in RankOrder(rk)
  BY <1>1, <1>2, OrderSorted DEF Sorted
<1>4. s = [k \in 1..n |-> rk[ord[k]]]
  BY <1>1, <1>2 DEF Listed
<1>5. \A k \in 1..n : ord[k] \in Present(rk) /\ s[k] = rk[ord[k]]
  BY <1>3, <1>4
<1>6. \A k \in 1..n : s[k] \in Strings /\ s[k] # << >>
  BY <1>5 DEF Present, RanksGood
<1>7. s \in Seq(Strings) /\ Len(s) = n
  <2>1. s \in [1..n -> Strings]
    BY <1>4, <1>6
  <2> QED
    BY <2>1
<1>8. \A k, m \in 1..n : k < m => Under(s[k], s[m])
  <2> SUFFICES ASSUME NEW k \in 1..n, NEW m \in 1..n, k < m
               PROVE  Under(s[k], s[m])
    OBVIOUS
  <2>1. <<ord[k], ord[m]>> \in RankOrder(rk)
    BY <1>3
  <2>2. Under(rk[ord[k]], rk[ord[m]])
    BY <2>1 DEF RankOrder
  <2> QED
    BY <1>5, <2>2
<1>9. \A i \in Present(rk) : \E k \in 1..n : s[k] = rk[i]
  BY <1>3, <1>5
<1> QED
  BY <1>1, <1>5, <1>6, <1>7, <1>8, <1>9 DEF Rising

(* The same items in the same order, with a digit to spare. *)
Respread(rk, new) ==
    /\ RanksGood(new)
    /\ Present(new) = Present(rk)
    /\ \A i \in Present(rk) : Len(new[i]) < Threshold
    /\ \A i, j \in Present(rk) : Under(rk[i], rk[j]) => Under(new[i], new[j])

LEMMA RisingIndex ==
  ASSUME NEW s, Rising(s), NEW k \in 1..Len(s), NEW m \in 1..Len(s), Under(s[k], s[m])
  PROVE  k < m
<1>1. s[k] \in Strings /\ s[m] \in Strings
  BY DEF Rising
<1>2. Len(s) \in Nat
  BY DEF Rising
<1>3. ASSUME m < k PROVE FALSE
  <2>1. Under(s[m], s[k])
    BY <1>3 DEF Rising
  <2> QED
    BY <1>1, <2>1, UnderTransitive, UnderIrreflexive
<1>4. k # m
  BY <1>1, UnderIrreflexive
<1> QED
  BY <1>2, <1>3, <1>4

(* sierx_set_project_ranks with a map that names every rank. *)
LEMMA MapRespreads ==
  ASSUME NEW rk, RanksGood(rk), NEW old, Rising(old), MapAccepted(rk, old)
  PROVE  Respread(rk, SetProjectRanks(rk, old))
<1>1. PICK n \in Nat : n = Len(old) /\ n = Cardinality(Present(rk)) /\ n <= Cardinality(Cards)
  BY PresentFinite DEF MapAccepted
<1>2. PICK s : s = RankSequence(n) /\ EvenlySpread(s, n)
  BY <1>1, RankSequenceSpreads
<1>3. PICK new : new = SetProjectRanks(rk, old)
  OBVIOUS
<1>4. ToSet(old) = {old[k] : k \in 1..n}
  <2>1. DOMAIN old = 1..Len(old)
    BY DEF Rising
  <2> QED
    BY <1>1, <2>1 DEF ToSet
<1>5. \A i \in Cards : i \notin Present(rk) => new[i] = << >>
  <2> SUFFICES ASSUME NEW i \in Cards, i \notin Present(rk) PROVE new[i] = << >>
    OBVIOUS
  <2>1. rk[i] = << >>
    BY DEF Present
  <2>2. rk[i] \notin ToSet(old)
    BY <1>1, <1>4, <2>1 DEF Rising
  <2> QED
    BY <1>3, <2>1, <2>2 DEF SetProjectRanks
<1>6. \A i \in Present(rk) : \E k \in 1..n : old[k] = rk[i] /\ new[i] = s[k]
  <2> TAKE i \in Present(rk)
  <2>1. i \in Cards /\ rk[i] \in ToSet(old)
    BY DEF Present, MapAccepted
  <2>2. PICK k : k = CHOOSE m \in 1..n : old[m] = rk[i]
    OBVIOUS
  <2>3. k \in 1..n /\ old[k] = rk[i]
    BY <1>4, <2>1, <2>2
  <2>4. new[i] = s[k]
    BY <1>1, <1>2, <1>3, <2>1, <2>2 DEF SetProjectRanks
  <2> QED
    BY <2>3, <2>4
<1>7. \A i \in Present(rk) : /\ new[i] \in Strings /\ new[i] # << >>
                             /\ Len(new[i]) < Threshold /\ Under(<< >>, new[i])
  BY <1>2, <1>6 DEF EvenlySpread
<1>8. \A i, j \in Present(rk) : Under(rk[i], rk[j]) => Under(new[i], new[j])
  <2> SUFFICES ASSUME NEW i \in Present(rk), NEW j \in Present(rk), Under(rk[i], rk[j])
               PROVE  Under(new[i], new[j])
    OBVIOUS
  <2>1. PICK k \in 1..n : old[k] = rk[i] /\ new[i] = s[k]
    BY <1>6
  <2>2. PICK m \in 1..n : old[m] = rk[j] /\ new[j] = s[m]
    BY <1>6
  <2>3. k < m
    BY <1>1, <2>1, <2>2, RisingIndex
  <2> QED
    BY <1>2, <2>1, <2>2, <2>3 DEF EvenlySpread
<1>9. Present(new) = Present(rk)
  BY <1>5, <1>7 DEF Present
<1>10. new \in [Cards -> Strings]
  <2>1. new = [i \in Cards |-> new[i]]
    BY <1>3 DEF SetProjectRanks
  <2>2. << >> \in Strings
    BY DEF Strings
  <2>3. \A i \in Cards : new[i] \in Strings
    BY <1>5, <1>7, <2>2
  <2> QED
    BY <2>1, <2>3
<1>11. \A i, j \in Present(rk) : i # j => Differ(new[i], new[j])
  <2> SUFFICES ASSUME NEW i \in Present(rk), NEW j \in Present(rk), i # j
               PROVE  Differ(new[i], new[j])
    OBVIOUS
  <2>1. Under(rk[i], rk[j]) \/ Under(rk[j], rk[i])
    BY GoodOrder
  <2>2. Under(new[i], new[j]) \/ Under(new[j], new[i])
    BY <1>8, <2>1
  <2> QED
    BY <1>7, <2>2, UnderDiffer
<1>12. \A i \in Present(rk) : Len(new[i]) <= Threshold
  <2> TAKE i \in Present(rk)
  <2>1. Len(new[i]) < Threshold /\ Len(new[i]) \in Nat
    BY <1>7 DEF Strings
  <2> QED
    BY <2>1
<1>13. RanksGood(new)
  BY <1>7, <1>9, <1>10, <1>11, <1>12 DEF RanksGood
<1> QED
  BY <1>3, <1>7, <1>8, <1>9, <1>13 DEF Respread

LEMMA ListedAccepted ==
  ASSUME NEW rk, RanksGood(rk)
  PROVE  Respread(rk, SetProjectRanks(rk, Listed(rk)))
<1>1. PICK s : s = Listed(rk)
  OBVIOUS
<1>2. /\ Rising(s) /\ Len(s) = Cardinality(Present(rk))
      /\ \A i \in Present(rk) : \E k \in 1..Len(s) : s[k] = rk[i]
  BY <1>1, ListedRising
<1>3. DOMAIN s = 1..Len(s)
  BY <1>2 DEF Rising
<1>4. MapAccepted(rk, s)
  BY <1>2, <1>3 DEF MapAccepted, ToSet
<1> QED
  BY <1>1, <1>2, <1>4, MapRespreads

(* A respread reorders nothing. *)
LEMMA RespreadKeeps ==
  ASSUME NEW rk, NEW new, RanksGood(rk), Respread(rk, new),
         NEW i \in Present(rk), NEW j \in Present(rk)
  PROVE  Under(new[i], new[j]) <=> Under(rk[i], rk[j])
<1>1. i \in Present(new) /\ j \in Present(new) /\ RanksGood(new)
  BY DEF Respread
<1>2. ASSUME Under(new[i], new[j]), ~ Under(rk[i], rk[j]) PROVE FALSE
  <2>1. i # j
    BY <1>1, <1>2, GoodOrder
  <2>2. Under(rk[j], rk[i])
    BY <1>2, <2>1, GoodOrder
  <2>3. Under(new[j], new[i])
    BY <2>2 DEF Respread
  <2> QED
    BY <1>1, <1>2, <2>3, GoodOrder
<1> QED
  BY <1>2 DEF Respread

-----------------------------------------------------------------------------
(* A rank for one item *)

(* r lies right behind the rank of after, or below all, leaving out i. *)
Behind(rk, j, after) == j = after \/ (after # NoCard /\ Under(rk[j], rk[after]))

Slot(rk, i, after, r) ==
    /\ r \in Strings /\ r # << >> /\ Under(<< >>, r)
    /\ \A j \in Present(rk) \ {i} : IF Behind(rk, j, after) THEN Under(rk[j], r)
                                    ELSE Under(r, rk[j])

Put(rk, i, r) == [rk EXCEPT ![i] = r]

LEMMA SlotGood ==
  ASSUME NEW rk, RanksGood(rk), NEW i \in Cards, NEW after, NEW r, Slot(rk, i, after, r),
         Len(r) <= Threshold, NEW new, new = Put(rk, i, r)
  PROVE  /\ RanksGood(new)
         /\ Present(new) = Present(rk) \cup {i}
         /\ new[i] = r
         /\ \A j \in Present(rk) \ {i} : new[j] = rk[j]
<1>1. rk \in [Cards -> Strings] /\ r \in Strings /\ r # << >> /\ Under(<< >>, r)
  BY DEF RanksGood, Slot
<1>2. new \in [Cards -> Strings] /\ new[i] = r /\ \A j \in Cards \ {i} : new[j] = rk[j]
  BY <1>1 DEF Put
<1>3. Present(new) = Present(rk) \cup {i}
  BY <1>1, <1>2 DEF Present
<1>4. \A j \in Present(rk) \ {i} : j \in Cards /\ new[j] = rk[j] /\ rk[j] \in Strings
  BY <1>1, <1>2 DEF Present
<1>5. \A j \in Present(rk) \ {i} : Differ(r, rk[j]) /\ Differ(rk[j], r)
  <2> TAKE j \in Present(rk) \ {i}
  <2>1. Under(rk[j], r) \/ Under(r, rk[j])
    BY DEF Slot
  <2> QED
    BY <1>1, <1>4, <2>1, UnderDiffer
<1>6. \A j, m \in Present(new) : j # m => Differ(new[j], new[m])
  <2> SUFFICES ASSUME NEW j \in Present(new), NEW m \in Present(new), j # m
               PROVE  Differ(new[j], new[m])
    OBVIOUS
  <2>1. CASE j = i
    BY <1>2, <1>3, <1>4, <1>5, <2>1
  <2>2. CASE m = i
    BY <1>2, <1>3, <1>4, <1>5, <2>2
  <2>3. CASE j # i /\ m # i
    BY <1>3, <1>4, <2>3 DEF RanksGood
  <2> QED
    BY <2>1, <2>2, <2>3
<1>7. \A j \in Present(new) : Len(new[j]) <= Threshold /\ Under(<< >>, new[j])
  BY <1>1, <1>2, <1>3, <1>4 DEF RanksGood
<1> QED
  BY <1>2, <1>3, <1>4, <1>6, <1>7 DEF RanksGood

LEMMA LeastRank ==
  ASSUME NEW rk, RanksGood(rk), NEW H \in SUBSET Present(rk), H # {}
  PROVE  \E j \in H : \A m \in H : j = m \/ Under(rk[j], rk[m])
<1>1. PICK n \in Nat : n = Cardinality(Present(rk))
  BY PresentFinite
<1>2. PICK ord : ord = Order(rk)
  OBVIOUS
<1>3. /\ ord \in [1..n -> Present(rk)]
      /\ \A i \in Present(rk) : \E k \in 1..n : ord[k] = i
      /\ \A k, m \in 1..n : k < m => <<ord[k], ord[m]>> \in RankOrder(rk)
  BY <1>1, <1>2, OrderSorted DEF Sorted
<1>4. PICK K : K = {k \in 1..n : ord[k] \in H}
  OBVIOUS
<1>5. K \in SUBSET Nat /\ K # {}
  BY <1>3, <1>4
<1>6. PICK k \in K : \A m \in K : k <= m
  BY <1>5, LeastNatural
<1>7. \A m \in H : ord[k] = m \/ Under(rk[ord[k]], rk[m])
  <2> TAKE m \in H
  <2>1. PICK p \in 1..n : ord[p] = m
    BY <1>3
  <2>2. k \in 1..n /\ k <= p
    BY <1>4, <1>6, <2>1
  <2>3. CASE k = p
    BY <2>1, <2>3
  <2>4. CASE k < p
    <3>1. <<ord[k], ord[p]>> \in RankOrder(rk)
      BY <1>3, <2>2, <2>4
    <3> QED
      BY <2>1, <3>1 DEF RankOrder
  <2> QED
    BY <2>2, <2>3, <2>4
<1> QED
  BY <1>4, <1>6, <1>7

(* What Neighbours takes for the ranks above the place that is asked for. *)
LEMMA AboveIsNotBehind ==
  ASSUME NEW rk, RanksGood(rk), NEW after \in Present(rk) \cup {NoCard},
         NEW lo, lo = (IF after = NoCard THEN << >> ELSE rk[after]),
         NEW j \in Present(rk)
  PROVE  /\ lo \in Strings /\ (lo = << >> \/ Under(<< >>, lo))
         /\ Less(lo, rk[j]) <=> ~ Behind(rk, j, after)
         /\ Behind(rk, j, after) => rk[j] = lo \/ Under(rk[j], lo)
         /\ ~ Behind(rk, j, after) => Under(lo, rk[j])
<1>1. /\ rk[j] \in Strings /\ << >> \in Strings /\ Under(<< >>, rk[j])
      /\ j # NoCard /\ NoCard \notin Present(rk)
  BY DEF RanksGood, Present, Strings
<1>2. CASE after = NoCard
  <2>1. Less(<< >>, rk[j])
    BY <1>1, UnderIsLess
  <2> QED
    BY <1>1, <1>2, <2>1 DEF Behind
<1>3. CASE after # NoCard
  <2>1. after \in Present(rk) /\ lo = rk[after]
    BY <1>3
  <2>2. lo \in Strings /\ Under(<< >>, lo)
    BY <2>1 DEF RanksGood, Present
  <2>3. CASE j = after
    BY <2>1, <2>2, <2>3, LessIrreflexive DEF Behind
  <2>4. CASE j # after
    <3>1. Less(lo, rk[j]) <=> Under(lo, rk[j])
      BY <2>1, GoodOrder
    <3>2. Under(lo, rk[j]) <=> ~ Under(rk[j], lo)
      BY <2>1, <2>4, GoodOrder
    <3> QED
      BY <1>3, <2>1, <2>2, <2>4, <3>1, <3>2 DEF Behind
  <2> QED
    BY <2>3, <2>4
<1> QED
  BY <1>2, <1>3

(* The place Neighbours finds: above all that go before it, below the      *)
(* rest.                                                                   *)
Gap(rk, i, after, lo, hi) ==
    /\ lo \in Strings /\ hi \in Strings
    /\ lo = << >> \/ (Under(<< >>, lo) /\ \E j \in Present(rk) : lo = rk[j])
    /\ hi = << >> \/ (Under(lo, hi) /\ \E j \in Present(rk) : hi = rk[j])
    /\ \A j \in Present(rk) \ {i} :
          IF Behind(rk, j, after) THEN rk[j] = lo \/ Under(rk[j], lo)
                                  ELSE hi # << >> /\ (rk[j] = hi \/ Under(hi, rk[j]))

LEMMA NeighboursGap ==
  ASSUME NEW rk, RanksGood(rk), NEW i, NEW after \in Present(rk) \cup {NoCard},
         NEW g, g = Neighbours(rk, i, after)
  PROVE  Gap(rk, i, after, g[1], g[2])
<1>1. PICK lo : lo = (IF after = NoCard THEN << >> ELSE rk[after])
  OBVIOUS
<1>2. PICK H : H = {j \in Present(rk) \ {i} : Less(lo, rk[j])}
  OBVIOUS
<1> DEFINE Lowest(j) == \A m \in H : j = m \/ Less(rk[j], rk[m])
<1>3. PICK c : c = CHOOSE j \in H : Lowest(j)
  OBVIOUS
<1> DEFINE hi == IF H = {} THEN << >> ELSE rk[c]
<1>4. g = <<lo, hi>>
  BY <1>1, <1>2, <1>3 DEF Neighbours
<1>5. << >> \in Strings
  BY DEF Strings
<1>6. /\ lo \in Strings
      /\ lo = << >> \/ (Under(<< >>, lo) /\ \E j \in Present(rk) : lo = rk[j])
  <2>1. CASE after = NoCard
    BY <1>1, <1>5, <2>1
  <2>2. CASE after # NoCard
    BY <1>1, <2>2 DEF RanksGood, Present
  <2> QED
    BY <2>1, <2>2
<1>7. /\ H \in SUBSET Present(rk)
      /\ \A j \in Present(rk) \ {i} : j \in H <=> ~ Behind(rk, j, after)
      /\ \A j \in H : Under(lo, rk[j])
      /\ \A j \in Present(rk) \ {i} : j \notin H => rk[j] = lo \/ Under(rk[j], lo)
  BY <1>1, <1>2, AboveIsNotBehind
<1>8. CASE H = {}
  <2>1. hi = << >>
    BY <1>8
  <2> HIDE DEF hi
  <2> QED
    BY <1>4, <1>5, <1>6, <1>7, <1>8, <2>1 DEF Gap
<1>9. CASE H # {}
  <2>1. PICK p \in H : \A m \in H : p = m \/ Under(rk[p], rk[m])
    BY <1>7, <1>9, LeastRank
  <2>2. \A m \in H : Less(rk[p], rk[m]) <=> Under(rk[p], rk[m])
    BY <1>7, GoodOrder
  <2>3. Lowest(p)
    BY <2>1, <2>2
  <2>4. c \in H /\ Lowest(c)
    <3> HIDE DEF Lowest
    <3> QED
      BY <1>3, <2>1, <2>3
  <2>5. hi = rk[c]
    BY <1>9
  <2> HIDE DEF hi
  <2>6. \A m \in H : Less(rk[c], rk[m]) <=> Under(rk[c], rk[m])
    BY <1>7, <2>4, GoodOrder
  <2>7. \A m \in H : rk[m] = hi \/ Under(hi, rk[m])
    BY <2>4, <2>5, <2>6
  <2>8. /\ hi \in Strings /\ hi # << >> /\ Under(lo, hi)
        /\ \E j \in Present(rk) : hi = rk[j]
    BY <1>7, <2>4, <2>5 DEF RanksGood, Present
  <2> HIDE DEF Lowest
  <2> QED
    BY <1>4, <1>6, <1>7, <2>7, <2>8 DEF Gap
<1> QED
  BY <1>8, <1>9

(* What RankBetween and RankAfter make of it. *)
LEMMA GapHasSlot ==
  ASSUME NEW rk, RanksGood(rk), NEW i, NEW after, NEW lo, NEW hi, Gap(rk, i, after, lo, hi),
         NEW W \in Nat, \A j \in Present(rk) : Len(rk[j]) <= W,
         NEW r, r = RankBetween(lo, hi)
  PROVE  /\ Ends(lo, hi)
         /\ Slot(rk, i, after, r)
         /\ Len(r) <= W + 1
<1>1. /\ lo \in Strings /\ hi \in Strings
      /\ lo = << >> \/ Under(<< >>, lo)
      /\ hi = << >> \/ Under(lo, hi)
  BY DEF Gap
<1>2. Len(lo) <= W /\ Len(hi) <= W
  BY DEF Gap
<1>3. /\ Ends(lo, hi)
      /\ r \in Strings /\ r # << >> /\ Under(lo, r)
      /\ hi = << >> \/ Under(r, hi)
      /\ Len(r) <= W + 1
  <2>1. CASE hi = << >>
    <3>1. r = RankAfter(lo)
      BY <2>1 DEF RankBetween
    <3>2. Len(lo) \in Nat /\ Len(r) \in Nat
      BY <1>1, <3>1, RankAfterOver DEF Strings
    <3> QED
      BY <1>1, <1>2, <2>1, <3>1, <3>2, RankAfterOver DEF Ends
  <2>2. CASE hi # << >>
    BY <1>1, <1>2, <2>2, FirstApart, RankBetweenIsBetween
  <2> QED
    BY <2>1, <2>2
<1>4. Under(<< >>, r)
  <2>1. << >> \in Strings
    BY DEF Strings
  <2> QED
    BY <1>1, <1>3, <2>1, UnderTransitive
<1>5. \A j \in Present(rk) \ {i} : IF Behind(rk, j, after) THEN Under(rk[j], r)
                                   ELSE Under(r, rk[j])
  <2> TAKE j \in Present(rk) \ {i}
  <2>1. rk[j] \in Strings
    BY DEF RanksGood, Present
  <2>2. CASE Behind(rk, j, after)
    <3>1. rk[j] = lo \/ Under(rk[j], lo)
      BY <2>2 DEF Gap
    <3>2. Under(rk[j], r)
      BY <1>1, <1>3, <2>1, <3>1, UnderTransitive
    <3> QED
      BY <2>2, <3>2
  <2>3. CASE ~ Behind(rk, j, after)
    <3>1. hi # << >> /\ (rk[j] = hi \/ Under(hi, rk[j]))
      BY <2>3 DEF Gap
    <3>2. Under(r, rk[j])
      BY <1>1, <1>3, <2>1, <3>1, UnderTransitive
    <3> QED
      BY <2>3, <3>2
  <2> QED
    BY <2>2, <2>3
<1> QED
  BY <1>3, <1>4, <1>5 DEF Slot

(* The place behind all others, where rankForNewItem puts an item. *)
LEMMA TopGap ==
  ASSUME NEW rk, RanksGood(rk), NEW i,
         NEW lo, lo = (IF Present(rk) = {} THEN << >> ELSE rk[Last(Order(rk))])
  PROVE  \E after : Gap(rk, i, after, lo, << >>)
<1>1. << >> \in Strings
  BY DEF Strings
<1>2. CASE Present(rk) = {}
  BY <1>1, <1>2 DEF Gap
<1>3. CASE Present(rk) # {}
  <2>1. PICK n \in Nat : n = Cardinality(Present(rk))
    BY PresentFinite
  <2>2. PICK ord : ord = Order(rk)
    OBVIOUS
  <2>3. /\ ord \in [1..n -> Present(rk)]
        /\ \A j \in Present(rk) : \E k \in 1..n : ord[k] = j
        /\ \A k, m \in 1..n : k < m => <<ord[k], ord[m]>> \in RankOrder(rk)
    BY <2>1, <2>2, OrderSorted DEF Sorted
  <2>4. ord \in Seq(Present(rk)) /\ Len(ord) = n
    BY <2>3
  <2>5. n \in 1..n
    BY <1>3, <2>3
  <2>6. PICK t \in Present(rk) : t = ord[n]
    BY <2>3, <2>5
  <2>7. lo = rk[t]
    BY <1>3, <2>2, <2>4, <2>6 DEF Last
  <2>8. t # NoCard /\ lo \in Strings /\ Under(<< >>, lo)
    BY <2>7 DEF RanksGood, Present
  <2>9. \A j \in Present(rk) : j = t \/ Under(rk[j], lo)
    <3> TAKE j \in Present(rk)
    <3>1. PICK k \in 1..n : ord[k] = j
      BY <2>3
    <3>2. CASE k = n
      BY <2>6, <3>1, <3>2
    <3>3. CASE k < n
      <4>1. <<ord[k], ord[n]>> \in RankOrder(rk)
        BY <2>3, <2>5, <3>1, <3>3
      <4> QED
        BY <2>6, <2>7, <3>1, <4>1 DEF RankOrder
    <3> QED
      BY <2>1, <3>1, <3>2, <3>3
  <2>10. Gap(rk, i, t, lo, << >>)
    BY <1>1, <2>7, <2>8, <2>9 DEF Gap, Behind
  <2> QED
    BY <2>10
<1> QED
  BY <1>2, <1>3

(* After a respread there is room for one more digit everywhere. *)
LEMMA RespreadHasRoom ==
  ASSUME NEW rk, NEW new, Respread(rk, new), NEW i, NEW after, NEW lo, NEW hi,
         Gap(new, i, after, lo, hi), NEW r, r = RankBetween(lo, hi)
  PROVE  Slot(new, i, after, r) /\ Len(r) <= Threshold
<1>1. RanksGood(new) /\ Present(new) = Present(rk)
  BY DEF Respread
<1>2. PICK W \in Nat : W = Threshold - 1
  OBVIOUS
<1>3. \A j \in Present(new) : Len(new[j]) <= W
  <2> TAKE j \in Present(new)
  <2>1. Len(new[j]) \in Nat
    BY <1>1 DEF RanksGood, Present, Strings
  <2>2. Len(new[j]) < Threshold
    BY <1>1 DEF Respread
  <2> QED
    BY <1>2, <2>1, <2>2
<1>4. Slot(new, i, after, r) /\ Len(r) <= W + 1
  BY <1>1, <1>3, GapHasSlot
<1> QED
  BY <1>2, <1>4

LEMMA SlotAsIs ==
  ASSUME NEW rk, RanksGood(rk), NEW i, NEW after, NEW lo, NEW hi,
         Gap(rk, i, after, lo, hi), NEW r, r = RankBetween(lo, hi)
  PROVE  Slot(rk, i, after, r) /\ Ends(lo, hi) /\ Len(r) \in Nat
<1>1. \A j \in Present(rk) : Len(rk[j]) <= Threshold
  BY DEF RanksGood
<1>2. Threshold \in Nat
  OBVIOUS
<1>3. Slot(rk, i, after, r) /\ Ends(lo, hi)
  BY <1>1, <1>2, GapHasSlot
<1> QED
  BY <1>3 DEF Slot, Strings

-----------------------------------------------------------------------------
(* The steps of Ranks *)

(* The ranks of a project are always those of different fractions, and of  *)
(* the column's width; what RebalanceProject holds was such a list once.   *)
RankInv ==
    /\ RanksGood(rank)
    /\ Rising(job)
    /\ ask \in [item : Cards \cup {NoCard}, after : Cards \cup {NoCard}]
    /\ ask # Nothing => ask.item \in Cards /\ ask.item # ask.after

(* Nothing but a move changes the order. *)
SameOrder(rk, new) ==
    \A j, m \in Present(rk) \cap Present(new) : Less(new[j], new[m]) <=> Less(rk[j], rk[m])

LEMMA SameOrderIf ==
  ASSUME NEW rk, NEW new, RanksGood(rk), RanksGood(new),
         \A j, m \in Present(rk) \cap Present(new) : Under(new[j], new[m]) <=> Under(rk[j], rk[m])
  PROVE  SameOrder(rk, new)
<1> SUFFICES ASSUME NEW j \in Present(rk) \cap Present(new), NEW m \in Present(rk) \cap Present(new)
             PROVE  Less(new[j], new[m]) <=> Less(rk[j], rk[m])
  BY DEF SameOrder
<1>1. Less(new[j], new[m]) <=> Under(new[j], new[m])
  BY GoodOrder
<1>2. Less(rk[j], rk[m]) <=> Under(rk[j], rk[m])
  BY GoodOrder
<1> QED
  BY <1>1, <1>2

LEMMA RespreadSameOrder ==
  ASSUME NEW rk, NEW new, RanksGood(rk), Respread(rk, new)
  PROVE  SameOrder(rk, new)
<1>1. RanksGood(new)
  BY DEF Respread
<1>2. \A j, m \in Present(rk) : Under(new[j], new[m]) <=> Under(rk[j], rk[m])
  BY RespreadKeeps
<1> QED
  BY <1>1, <1>2, SameOrderIf

LEMMA NotMoved ==
  ASSUME SameOrder(rank, rank'),
         ask = Nothing \/ ask' # Nothing \/ ~ ({ask.item, ask.after} \ {NoCard} \subseteq Present(rank))
  PROVE  OrderStep
<1>1. \A j, m \in Present(rank) \cap Present(rank') :
          Less(rank'[j], rank'[m]) <=> Less(rank[j], rank[m])
  BY DEF SameOrder
<1> QED
  BY <1>1 DEF OrderStep

LEMMA InitRankInv == InitRanks => RankInv
<1> SUFFICES ASSUME InitRanks PROVE RankInv
  OBVIOUS
<1>1. Rising(job)
  <2>1. job = << >> /\ Len(job) = 0
    BY DEF InitRanks
  <2>2. job \in Seq(Strings)
    BY <2>1
  <2> QED
    BY <2>1, <2>2 DEF Rising
<1>2. ask = Nothing /\ ask \in [item : Cards \cup {NoCard}, after : Cards \cup {NoCard}]
  BY DEF InitRanks, Nothing
<1>3. CASE rank = [i \in Cards |-> << >>]
  <2>1. Present(rank) = {}
    BY <1>3 DEF Present
  <2>2. << >> \in Strings
    BY DEF Strings
  <2>3. rank \in [Cards -> Strings]
    BY <1>3, <2>2
  <2>4. RanksGood(rank)
    BY <2>1, <2>3 DEF RanksGood
  <2> QED
    BY <1>1, <1>2, <2>4 DEF RankInv
<1>4. CASE rank \in Bijection(Cards, ToSet(RankSequence(Cardinality(Cards))))
  <2>1. PICK n \in Nat : n = Cardinality(Cards)
    BY RoomAssumption, FS_CardinalityType
  <2>2. PICK s : s = RankSequence(n) /\ EvenlySpread(s, n)
    BY <2>1, RankSequenceSpreads
  <2>3. DOMAIN s = 1..n
    BY <2>2 DEF EvenlySpread
  <2>4. rank \in Injection(Cards, ToSet(s))
    BY <1>4, <2>1, <2>2 DEF Bijection
  <2>5. rank \in [Cards -> ToSet(s)] /\ \A i, j \in Cards : rank[i] = rank[j] => i = j
    BY <2>4 DEF Injection, IsInjective
  <2>6. \A i \in Cards : \E k \in 1..n : rank[i] = s[k]
    BY <2>3, <2>5 DEF ToSet
  <2>7. \A i \in Cards : /\ rank[i] \in Strings /\ rank[i] # << >>
                         /\ Len(rank[i]) < Threshold /\ Under(<< >>, rank[i])
    BY <2>2, <2>6 DEF EvenlySpread
  <2>8. \A i \in Cards : Len(rank[i]) <= Threshold
    <3> TAKE i \in Cards
    <3>1. Len(rank[i]) < Threshold /\ Len(rank[i]) \in Nat
      BY <2>7 DEF Strings
    <3> QED
      BY <3>1
  <2>9. \A i, j \in Cards : i # j => Differ(rank[i], rank[j])
    <3> SUFFICES ASSUME NEW i \in Cards, NEW j \in Cards, i # j
                 PROVE  Differ(rank[i], rank[j])
      OBVIOUS
    <3>1. PICK k \in 1..n : rank[i] = s[k]
      BY <2>6
    <3>2. PICK m \in 1..n : rank[j] = s[m]
      BY <2>6
    <3>3. k < m \/ m < k
      BY <2>5, <3>1, <3>2
    <3>4. Under(rank[i], rank[j]) \/ Under(rank[j], rank[i])
      BY <2>2, <3>1, <3>2, <3>3 DEF EvenlySpread
    <3> QED
      BY <2>7, <3>4, UnderDiffer
  <2>10. rank \in [Cards -> Strings]
    BY <2>5, <2>7
  <2>11. RanksGood(rank)
    BY <2>7, <2>8, <2>9, <2>10 DEF RanksGood, Present
  <2> QED
    BY <1>1, <1>2, <2>11 DEF RankInv
<1> QED
  BY <1>3, <1>4 DEF InitRanks

LEMMA CreateStep ==
  ASSUME RankInv, NEW i \in Cards, Create(i)
  PROVE  RankInv' /\ OrderStep
<1>0. RanksGood(rank) /\ rank[i] = << >> /\ i \notin Present(rank)
  BY DEF RankInv, Create, Present
<1> DEFINE top(rk) == IF Present(rk) = {} THEN << >> ELSE rk[Last(Order(rk))]
<1>1. PICK sp : sp = SetProjectRanks(rank, Listed(rank)) /\ Respread(rank, sp)
  BY <1>0, ListedAccepted
<1>2. PICK r : r = RankBetween(top(rank), << >>)
  OBVIOUS
<1>3. PICK q : q = RankBetween(top(sp), << >>)
  OBVIOUS
<1>4. rank' = (IF Len(r) > Threshold THEN [sp EXCEPT ![i] = q] ELSE [rank EXCEPT ![i] = r])
  BY <1>1, <1>2, <1>3 DEF Create, Between, RankNeedsRebalance
<1> HIDE DEF top
<1>5. ask' = ask /\ job' = job
  BY DEF Create
<1>6. CASE Len(r) > Threshold
  <2>1. RanksGood(sp) /\ Present(sp) = Present(rank)
    BY <1>1 DEF Respread
  <2>2. PICK after : Gap(sp, i, after, top(sp), << >>)
    BY <2>1, TopGap DEF top
  <2>3. Slot(sp, i, after, q) /\ Len(q) <= Threshold
    BY <1>1, <1>3, <2>2, RespreadHasRoom
  <2>4. rank' = [sp EXCEPT ![i] = q]
    BY <1>4, <1>6
  <2>5. RanksGood(rank') /\ \A j \in Present(sp) \ {i} : rank'[j] = sp[j]
    <3>1. PICK new : new = Put(sp, i, q)
      OBVIOUS
    <3>2. RanksGood(new) /\ \A j \in Present(sp) \ {i} : new[j] = sp[j]
      BY <2>1, <2>3, <3>1, SlotGood
    <3> QED
      BY <2>4, <3>1, <3>2 DEF Put
  <2>6. SameOrder(rank, sp)
    BY <1>0, <1>1, RespreadSameOrder
  <2>7. SameOrder(rank, rank')
    BY <1>0, <2>1, <2>5, <2>6 DEF SameOrder
  <2>8. RankInv'
    BY <1>5, <2>5 DEF RankInv
  <2>9. OrderStep
    BY <1>5, <2>7, NotMoved
  <2> QED
    BY <2>8, <2>9
<1>7. CASE ~ (Len(r) > Threshold)
  <2>1. PICK after : Gap(rank, i, after, top(rank), << >>)
    BY <1>0, TopGap DEF top
  <2>2. Slot(rank, i, after, r) /\ Len(r) \in Nat
    BY <1>0, <1>2, <2>1, SlotAsIs
  <2>3. Len(r) <= Threshold
    BY <1>7, <2>2
  <2>4. rank' = [rank EXCEPT ![i] = r]
    BY <1>4, <1>7
  <2>5. RanksGood(rank') /\ \A j \in Present(rank) \ {i} : rank'[j] = rank[j]
    <3>1. PICK new : new = Put(rank, i, r)
      OBVIOUS
    <3>2. RanksGood(new) /\ \A j \in Present(rank) \ {i} : new[j] = rank[j]
      BY <1>0, <2>2, <2>3, <3>1, SlotGood
    <3> QED
      BY <2>4, <3>1, <3>2 DEF Put
  <2>6. SameOrder(rank, rank')
    BY <1>0, <2>5 DEF SameOrder
  <2>7. RankInv'
    BY <1>5, <2>5 DEF RankInv
  <2>8. OrderStep
    BY <1>5, <2>6, NotMoved
  <2> QED
    BY <2>7, <2>8
<1> QED
  BY <1>6, <1>7

LEMMA HardDeleteStep ==
  ASSUME RankInv, NEW i \in Cards, HardDelete(i)
  PROVE  RankInv' /\ OrderStep
<1>1. /\ RanksGood(rank) /\ rank \in [Cards -> Strings]
      /\ rank' = [rank EXCEPT ![i] = << >>]
      /\ ask' = ask /\ job' = job
  BY DEF RankInv, HardDelete, RanksGood
<1>2. << >> \in Strings
  BY DEF Strings
<1>3. rank' \in [Cards -> Strings] /\ rank'[i] = << >> /\ \A j \in Cards \ {i} : rank'[j] = rank[j]
  BY <1>1, <1>2
<1>4. \A j \in Present(rank') : j \in Present(rank) /\ rank'[j] = rank[j]
  BY <1>3 DEF Present
<1>5. RanksGood(rank')
  BY <1>1, <1>3, <1>4 DEF RanksGood
<1>6. SameOrder(rank, rank')
  BY <1>4 DEF SameOrder
<1> QED
  BY <1>1, <1>5, <1>6, NotMoved DEF RankInv

LEMMA AskMoveStep ==
  ASSUME RankInv, NEW i \in Cards, NEW after \in Cards \cup {NoCard}, AskMove(i, after)
  PROVE  RankInv' /\ OrderStep
<1>1. /\ ask = Nothing /\ i # after /\ ask' = [item |-> i, after |-> after]
      /\ rank' = rank /\ job' = job
  BY DEF AskMove
<1>2. /\ ask' \in [item : Cards \cup {NoCard}, after : Cards \cup {NoCard}]
      /\ ask'.item \in Cards /\ ask'.item # ask'.after
  BY <1>1
<1>3. SameOrder(rank, rank')
  BY <1>1 DEF SameOrder
<1>4. RankInv'
  BY <1>1, <1>2 DEF RankInv
<1> QED
  BY <1>1, <1>3, <1>4, NotMoved

LEMMA RefuseMoveStep ==
  ASSUME RankInv, RefuseMove
  PROVE  RankInv' /\ OrderStep
<1>1. /\ ~ ({ask.item, ask.after} \ {NoCard} \subseteq Present(rank))
      /\ ask' = Nothing /\ rank' = rank /\ job' = job
  BY DEF RefuseMove
<1>2. Nothing \in [item : Cards \cup {NoCard}, after : Cards \cup {NoCard}]
  BY DEF Nothing
<1>3. SameOrder(rank, rank')
  BY <1>1 DEF SameOrder
<1>4. RankInv'
  BY <1>1, <1>2 DEF RankInv
<1> QED
  BY <1>1, <1>3, <1>4, NotMoved

LEMMA RebalanceReadStep ==
  ASSUME RankInv, RebalanceRead
  PROVE  RankInv' /\ OrderStep
<1>1. job' = Listed(rank) /\ rank' = rank /\ ask' = ask
  BY DEF RebalanceRead
<1>2. Rising(job')
  BY <1>1, ListedRising DEF RankInv
<1>3. SameOrder(rank, rank')
  BY <1>1 DEF SameOrder
<1>4. RankInv'
  BY <1>1, <1>2 DEF RankInv
<1> QED
  BY <1>1, <1>3, <1>4, NotMoved

LEMMA RebalanceWriteStep ==
  ASSUME RankInv, RebalanceWrite
  PROVE  RankInv' /\ OrderStep
<1>1. /\ RanksGood(rank) /\ Rising(job)
      /\ rank' = (IF MapAccepted(rank, job) THEN SetProjectRanks(rank, job) ELSE rank)
      /\ job' = << >> /\ ask' = ask
  BY DEF RankInv, RebalanceWrite
<1>2. Rising(job')
  <2>1. job' \in Seq(Strings) /\ Len(job') = 0
    BY <1>1
  <2> QED
    BY <2>1 DEF Rising
<1>3. RanksGood(rank') /\ SameOrder(rank, rank')
  <2>1. CASE MapAccepted(rank, job)
    <3>1. Respread(rank, rank')
      BY <1>1, <2>1, MapRespreads
    <3>2. SameOrder(rank, rank')
      BY <1>1, <3>1, RespreadSameOrder
    <3> QED
      BY <3>1, <3>2 DEF Respread
  <2>2. CASE ~ MapAccepted(rank, job)
    BY <1>1, <2>2 DEF SameOrder
  <2> QED
    BY <2>1, <2>2
<1> QED
  BY <1>1, <1>2, <1>3, NotMoved DEF RankInv

(* Ranks that put the items in one order. *)
Alike(rk, base) ==
    /\ RanksGood(base) /\ Present(base) = Present(rk)
    /\ \A j, m \in Present(rk) : Under(base[j], base[m]) <=> Under(rk[j], rk[m])

(* i has gone right behind after, the others have not moved. *)
Placed(rk, new, i, after) ==
    /\ Present(new) = Present(rk)
    /\ \A j, m \in Present(rk) \ {i} : Less(new[j], new[m]) <=> Less(rk[j], rk[m])
    /\ \A j \in Present(rk) \ {i} :
          Less(new[j], new[i]) <=> j = after \/ (after # NoCard /\ Less(rk[j], rk[after]))

(* An item that is put into its place, in ranks that are those of the      *)
(* project or their respread, is where it was to go; the others stay.      *)
LEMMA PutInPlace ==
  ASSUME NEW rk, RanksGood(rk), NEW base, Alike(rk, base),
         NEW i \in Present(rk), NEW after \in Present(rk) \cup {NoCard}, i # after,
         NEW r, Slot(base, i, after, r), Len(r) <= Threshold,
         NEW new, new = Put(base, i, r)
  PROVE  RanksGood(new) /\ Placed(rk, new, i, after)
<1> USE DEF Alike
<1>1. /\ i \in Cards
      /\ RanksGood(new) /\ Present(new) = Present(base) \cup {i} /\ new[i] = r
      /\ \A j \in Present(base) \ {i} : new[j] = base[j]
  <2>1. i \in Cards
    BY DEF Present
  <2> QED
    BY <2>1, SlotGood
<1>2. Present(new) = Present(rk)
  BY <1>1
<1>3. ASSUME NEW j \in Present(rk) \ {i}, NEW m \in Present(rk) \ {i}
      PROVE  Less(new[j], new[m]) <=> Less(rk[j], rk[m])
  <2>1. Less(new[j], new[m]) <=> Under(new[j], new[m])
    BY <1>1, <1>2, GoodOrder
  <2>2. Less(rk[j], rk[m]) <=> Under(rk[j], rk[m])
    BY GoodOrder
  <2>3. new[j] = base[j] /\ new[m] = base[m]
    BY <1>1
  <2> QED
    BY <2>1, <2>2, <2>3
<1>4. ASSUME NEW j \in Present(rk) \ {i}
      PROVE  Less(new[j], new[i]) <=> j = after \/ (after # NoCard /\ Less(rk[j], rk[after]))
  <2>1. /\ Less(new[j], new[i]) <=> Under(new[j], new[i])
        /\ ~ (Under(new[j], new[i]) /\ Under(new[i], new[j]))
    BY <1>1, <1>2, GoodOrder
  <2>2. new[j] = base[j] /\ new[i] = r
    BY <1>1
  <2>3. Under(new[j], new[i]) <=> Behind(base, j, after)
    BY <2>1, <2>2 DEF Slot
  <2>4. Behind(base, j, after) <=> Behind(rk, j, after)
    BY DEF Behind
  <2>5. after # NoCard => (Less(rk[j], rk[after]) <=> Under(rk[j], rk[after]))
    BY GoodOrder
  <2> QED
    BY <2>1, <2>3, <2>4, <2>5 DEF Behind
<1> QED
  BY <1>1, <1>2, <1>3, <1>4 DEF Placed

(* What a move makes of the ranks; the second attempt always fits. *)
LEMMA MoveWrites ==
  ASSUME RankInv, Move
  PROVE  \E base, r : /\ Alike(rank, base)
                      /\ Slot(base, ask.item, ask.after, r) /\ Len(r) <= Threshold
                      /\ rank' = Put(base, ask.item, r)
<1>1. PICK i, after : i = ask.item /\ after = ask.after
  OBVIOUS
<1>2. RanksGood(rank) /\ after \in Present(rank) \cup {NoCard}
  BY <1>1 DEF RankInv, Move
<1>3. PICK sp : sp = SetProjectRanks(rank, Listed(rank)) /\ Respread(rank, sp)
  BY <1>2, ListedAccepted
<1>4. RanksGood(sp) /\ Present(sp) = Present(rank)
  BY <1>3 DEF Respread
<1>5. PICK g : g = Neighbours(rank, i, after)
  OBVIOUS
<1>6. PICK h : h = Neighbours(sp, i, after)
  OBVIOUS
<1>7. PICK r : r = RankBetween(g[1], g[2])
  OBVIOUS
<1>8. PICK q : q = RankBetween(h[1], h[2])
  OBVIOUS
<1>9. rank' = (IF ~ (Len(r) > Threshold) THEN Put(rank, i, r)
               ELSE IF ~ (Len(q) > Threshold) THEN Put(sp, i, q) ELSE rank)
  BY <1>1, <1>3, <1>5, <1>6, <1>7, <1>8 DEF Move, Between, RankNeedsRebalance, Put
<1>10. Slot(rank, i, after, r) /\ Len(r) \in Nat
  BY <1>2, <1>5, <1>7, NeighboursGap, SlotAsIs
<1>11. Slot(sp, i, after, q) /\ Len(q) <= Threshold
  BY <1>2, <1>3, <1>4, <1>6, <1>8, NeighboursGap, RespreadHasRoom
<1>12. Len(q) \in Nat
  BY <1>11 DEF Slot, Strings
<1>13. CASE Len(r) > Threshold
  <2>1. rank' = Put(sp, i, q)
    BY <1>9, <1>11, <1>12, <1>13
  <2>2. \A j, m \in Present(rank) : Under(sp[j], sp[m]) <=> Under(rank[j], rank[m])
    BY <1>2, <1>3, RespreadKeeps
  <2> QED
    BY <1>1, <1>4, <1>11, <2>1, <2>2 DEF Alike
<1>14. CASE ~ (Len(r) > Threshold)
  <2>1. rank' = Put(rank, i, r)
    BY <1>9, <1>14
  <2>2. Len(r) <= Threshold
    BY <1>10, <1>14
  <2> QED
    BY <1>1, <1>2, <1>10, <2>1, <2>2 DEF Alike
<1> QED
  BY <1>13, <1>14

LEMMA MoveStep ==
  ASSUME RankInv, Move
  PROVE  RankInv' /\ OrderStep
<1>1. PICK base, r : /\ Alike(rank, base)
                     /\ Slot(base, ask.item, ask.after, r) /\ Len(r) <= Threshold
                     /\ rank' = Put(base, ask.item, r)
  BY MoveWrites
<1>2. PICK i, after, new : i = ask.item /\ after = ask.after /\ new = rank'
  OBVIOUS
<1>3. /\ RanksGood(rank) /\ i \in Present(rank) /\ i # after
      /\ after \in Present(rank) \cup {NoCard}
      /\ ask # Nothing /\ ask' = Nothing /\ job' = job
      /\ {i, after} \ {NoCard} \subseteq Present(rank)
  BY <1>2 DEF RankInv, Move
<1>4. RanksGood(new) /\ Placed(rank, new, i, after)
  BY <1>1, <1>2, <1>3, PutInPlace
<1>5. RankInv'
  <2>1. Nothing \in [item : Cards \cup {NoCard}, after : Cards \cup {NoCard}]
    BY DEF Nothing
  <2> QED
    BY <1>2, <1>3, <1>4, <2>1 DEF RankInv
<1>6. OrderStep
  BY <1>2, <1>3, <1>4 DEF OrderStep, Placed
<1> QED
  BY <1>5, <1>6

LEMMA RankStep ==
  ASSUME RankInv, NextRanks
  PROVE  RankInv' /\ OrderStep
<1>1. CASE \E i \in Cards : Create(i) \/ HardDelete(i)
  BY <1>1, CreateStep, HardDeleteStep
<1>2. CASE \E i \in Cards, after \in Cards \cup {NoCard} : AskMove(i, after)
  BY <1>2, AskMoveStep
<1>3. CASE Move
  BY <1>3, MoveStep
<1>4. CASE RefuseMove
  BY <1>4, RefuseMoveStep
<1>5. CASE RebalanceRead
  BY <1>5, RebalanceReadStep
<1>6. CASE RebalanceWrite
  BY <1>6, RebalanceWriteStep
<1> QED
  BY <1>1, <1>2, <1>3, <1>4, <1>5, <1>6 DEF NextRanks

LEMMA RankInvHolds == SpecRanks => []RankInv
<1>1. RankInv /\ UNCHANGED rankVars => RankInv'
  BY DEF RankInv, rankVars
<1>2. RankInv /\ [NextRanks]_rankVars => RankInv'
  BY <1>1, RankStep
<1> QED
  BY InitRankInv, <1>2, PTL DEF SpecRanks

LEMMA DifferApart ==
  ASSUME NEW s, NEW t, Differ(s, t)
  PROVE  s # t
  BY DEF Differ

(* Above a rank of the list, below the next one or at the end. *)
RoomAbove(lo, hi) == /\ Ends(lo, hi)
                     /\ Less(lo, RankBetween(lo, hi))
                     /\ hi # << >> => Less(RankBetween(lo, hi), hi)

LEMMA RoomAboveIf ==
  ASSUME NEW lo \in Strings, NEW hi \in Strings, hi = << >> \/ Under(lo, hi)
  PROVE  RoomAbove(lo, hi)
<1>1. PICK r : r = RankBetween(lo, hi)
  OBVIOUS
<1>2. CASE hi = << >>
  <2>1. r = RankAfter(lo)
    BY <1>1, <1>2 DEF RankBetween
  <2>2. r \in Strings /\ Under(lo, r)
    BY <2>1, RankAfterOver
  <2>3. Less(lo, r)
    BY <2>2, UnderIsLess
  <2> QED
    BY <1>1, <1>2, <2>3 DEF RoomAbove, Ends
<1>3. CASE hi # << >>
  <2>1. Len(lo) \in Nat /\ Len(hi) \in Nat
    BY DEF Strings
  <2>2. PICK W \in Nat : W = Len(lo) + Len(hi)
    BY <2>1
  <2>3. Len(lo) <= W /\ Len(hi) <= W
    BY <2>1, <2>2
  <2>4. Less(lo, r) /\ Less(r, hi)
    BY <1>1, <1>3, <2>3, RankBetweenIsBetween
  <2>5. Ends(lo, hi)
    BY <1>3, FirstApart
  <2> QED
    BY <1>1, <2>4, <2>5 DEF RoomAbove
<1> QED
  BY <1>2, <1>3

LEMMA RoomInRanks == RankInv => RoomEverywhere
<1> SUFFICES ASSUME RankInv PROVE RoomEverywhere
  OBVIOUS
<1>1. RanksGood(rank)
  BY DEF RankInv
<1>2. \A i, j \in Present(rank) : i # j => rank[i] # rank[j]
  BY <1>1, DifferApart DEF RanksGood
<1>3. \A i \in Present(rank) : ~ RankNeedsRebalance(rank[i])
  <2> TAKE i \in Present(rank)
  <2>1. Len(rank[i]) \in Nat /\ Len(rank[i]) <= Threshold
    BY <1>1 DEF RanksGood, Present, Strings
  <2> QED
    BY <2>1 DEF RankNeedsRebalance
<1>4. PICK L : L = Listed(rank)
  OBVIOUS
<1>5. Rising(L) /\ \A k \in 1..Len(L) : \E i \in Present(rank) : L[k] = rank[i]
  BY <1>1, <1>4, ListedRising
<1>6. L \in Seq(Strings) /\ Len(L) \in Nat
  BY <1>5 DEF Rising
<1>7. PICK s : s = <<(<< >>)>> \o L
  OBVIOUS
<1>8. << >> \in Strings
  BY DEF Strings
<1>9. /\ s \in Seq(Strings) /\ Len(s) = Len(L) + 1 /\ s[1] = << >>
      /\ \A k \in 1..Len(L) : s[k + 1] = L[k]
  BY <1>6, <1>7, <1>8
<1>10. ASSUME NEW k \in 1..Len(s), NEW hi, hi = (IF k = Len(s) THEN << >> ELSE s[k + 1])
       PROVE  RoomAbove(s[k], hi)
  <2>1. s[k] \in Strings /\ k \in Nat \ {0} /\ k <= Len(L) + 1
    BY <1>6, <1>9
  <2>2. CASE k = Len(s)
    <3>1. hi = << >>
      BY <1>10, <2>2
    <3> QED
      BY <1>8, <2>1, <3>1, RoomAboveIf
  <2>3. CASE k # Len(s)
    <3>1. k \in 1..Len(L) /\ hi = L[k] /\ hi \in Strings
      <4>1. k \in 1..Len(L)
        BY <1>6, <1>9, <2>1, <2>3
      <4>2. hi = L[k]
        BY <1>9, <1>10, <2>3, <4>1
      <4> QED
        BY <1>6, <4>1, <4>2
    <3>2. CASE k = 1
      <4>1. PICK i \in Present(rank) : L[k] = rank[i]
        BY <1>5, <3>1
      <4>2. Under(<< >>, hi)
        BY <1>1, <3>1, <4>1 DEF RanksGood
      <4> QED
        BY <1>9, <2>1, <3>1, <3>2, <4>2, RoomAboveIf
    <3>3. CASE k # 1
      <4>1. PICK h \in 1..Len(L) : h = k - 1
        BY <1>6, <3>1, <3>3
      <4>2. s[k] = L[h]
        <5>1. s[h + 1] = L[h] /\ h + 1 = k
          BY <1>9, <3>1, <4>1
        <5> QED
          BY <5>1
      <4>3. Under(s[k], hi)
        BY <1>5, <3>1, <4>1, <4>2 DEF Rising
      <4> QED
        BY <2>1, <3>1, <4>3, RoomAboveIf
    <3> QED
      BY <3>2, <3>3
  <2> QED
    BY <2>2, <2>3
<1>11. \A k \in 1..Len(s) : RoomAbove(s[k], IF k = Len(s) THEN << >> ELSE s[k + 1])
  BY <1>10
<1> QED
  BY <1>2, <1>3, <1>4, <1>7, <1>11 DEF RoomEverywhere, RoomAbove

(* rank.go:44: whatever moves, creations, deletions and respreads came     *)
(* before, the ranks of a project are different and fit the column, and    *)
(* RankBetween ends and finds a rank in every gap.                         *)
THEOREM RanksAlwaysHaveRoom == SpecRanks => []RoomEverywhere
  BY RankInvHolds, RoomInRanks, PTL

(* SPEC 5.5, move.go rank_after: a move that is carried out puts the item  *)
(* where it was to go and nothing else reorders items, a respread on the   *)
(* way and a late RebalanceProject included; the second attempt of         *)
(* applyReparent always finds room.                                        *)
THEOREM MovesGoWhereAsked == SpecRanks => OrderAsAsked
<1>1. RankInv /\ [NextRanks]_rankVars => [OrderStep]_rankVars
  BY RankStep
<1> QED
  BY RankInvHolds, <1>1, PTL DEF SpecRanks, OrderAsAsked
=============================================================================
