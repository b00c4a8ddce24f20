-------------------------- MODULE ItemStoreProofs ---------------------------
(***************************************************************************)
(* Proofs about ItemStore, for every set of items and requests, every      *)
(* kind of request and every depth limit.                                  *)
(***************************************************************************)
EXTENDS ItemStore, FiniteSetTheorems, SequenceTheorems, WellFoundedInduction, TLAPS

USE ConstantsAssumption

(* The operators take the rows rw as a parameter, so that one definition   *)
(* speaks of the rows before, during and after a flush.                    *)
StoredIn(rw) == {i \in Items : rw[i].state \in {"live", "deleted"}}

(* The ltree path of i names its ancestors: every label is a stored item   *)
(* whose own path is the beginning of i's up to there, the last label is i *)
(* and the one before it the parent.  PathsAgree says it of the parent     *)
(* only, which is not enough to move a subtree.                            *)
Spine(rw, i) ==
    /\ Len(rw[i].path) \in 1..MaxDepth
    /\ rw[i].path[Len(rw[i].path)] = i
    /\ rw[i].parent = None => Len(rw[i].path) = 1
    /\ rw[i].parent # None => /\ Len(rw[i].path) >= 2
                              /\ rw[i].path[Len(rw[i].path) - 1] = rw[i].parent
    /\ \A k \in 1..Len(rw[i].path) :
          /\ rw[i].path[k] \in StoredIn(rw)
          /\ Len(rw[rw[i].path[k]].path) = k
          /\ \A m \in 1..k : rw[rw[i].path[k]].path[m] = rw[i].path[m]

PathsGood(rw) == \A i \in StoredIn(rw) : Spine(rw, i)

(* The table is finite, a row that was never written holds nothing, and    *)
(* one that is gone is nobody's child.                                     *)
TableInv(rw) == /\ rw \in [Items -> Rows]
                /\ IsFiniteSet(StoredIn(rw))
                /\ \A i \in Items : rw[i].state = "absent" => rw[i] = Absent
                /\ \A i \in Items : rw[i].state = "gone" => rw[i].parent = None

(* The stored rollups are what a recompute by path gives at any time, and  *)
(* a row that is yet to be made gets an all-zero one.                      *)
RollupsGood(rw, ru) ==
    /\ \A i \in StoredIn(rw) : ru[i] = RecomputeRollup(rw, i)
    /\ \A i \in Items : rw[i].state = "absent" => ru[i] = ZeroRollup

(* The request q in the rows rw: an item to be created is absent; the      *)
(* version a client holds is no later than the row's, and while it is the  *)
(* row's, the client has seen what the row holds.                          *)
SameContent(v, w) == /\ v.state = w.state /\ v.parent = w.parent
                     /\ v.path = w.path /\ v.done = w.done

Seen(rw, q) ==
    /\ q.kind = "create" => q.item \in Items /\ rw[q.item].state = "absent"
    /\ q.kind \notin {"free", "create"} =>
          /\ q.item \in Items
          /\ rw[q.item].state # "gone" =>
                /\ q.version <= rw[q.item].version
                /\ q.version = rw[q.item].version => SameContent(rw[q.item], q.seen)

OneCreator == \A r, s \in Requests :
                 req[r].kind = "create" /\ req[s].kind = "create" /\ req[r].item = req[s].item
                    => r = s

RequestsInv == OneCreator /\ \A r \in Requests : Seen(row, req[r])

IInv == /\ TypeOK
        /\ TableInv(row)
        /\ PathsGood(row)
        /\ RollupsGood(row, rollup)
        /\ RequestsInv


-----------------------------------------------------------------------------
(* Paths *)

(* Rows as records: what a field is. *)
LEMMA RowParts ==
  ASSUME NEW rw \in [Items -> Rows], NEW i \in Items
  PROVE  /\ rw[i].path \in Seq(Items) /\ Len(rw[i].path) \in Nat
         /\ \A k \in 1..Len(rw[i].path) : rw[i].path[k] \in Items
         /\ rw[i].parent \in Items \cup {None}
         /\ rw[i].version \in Nat /\ rw[i].changeSeq \in Nat
         /\ rw[i].done \in BOOLEAN /\ rw[i].commented \in BOOLEAN
         /\ rw[i].state \in RowStates
<1>1. rw[i] \in Rows
  OBVIOUS
<1>2. rw[i].path \in Seq(Items)
  BY <1>1 DEF Rows
<1> QED
  BY <1>1, <1>2 DEF Rows

(* Two items with the same label at the end of their paths are one, and a  *)
(* label is an ancestor: it is passed by exactly the paths below it.       *)
LEMMA SpineIsAncestry ==
  ASSUME NEW rw \in [Items -> Rows], PathsGood(rw),
         NEW i \in StoredIn(rw), NEW j \in StoredIn(rw)
  PROVE  /\ Under(rw[j].path, rw[i].path) <=>
               \E k \in 1..Len(rw[j].path) : rw[j].path[k] = i
         /\ \A k \in 1..Len(rw[j].path) : rw[j].path[k] = i => k = Len(rw[i].path)
         /\ j # i => (Under(rw[j].path, rw[i].path) <=> i \in AncestorLabels(rw[j].path))
         /\ Under(rw[j].path, rw[i].path) /\ j # i => Len(rw[i].path) < Len(rw[j].path)
<1>1. Spine(rw, i) /\ Spine(rw, j) /\ i \in Items /\ j \in Items
  BY DEF PathsGood, StoredIn
<1> DEFINE s == rw[i].path
           t == rw[j].path
<1>2. Len(s) \in Nat /\ Len(t) \in Nat
  BY <1>1, RowParts
<1>3. /\ Len(s) \in 1..MaxDepth /\ s[Len(s)] = i
      /\ Len(t) \in 1..MaxDepth /\ t[Len(t)] = j
  BY <1>1 DEF Spine
<1>4. \A k \in 1..Len(t) : t[k] = i => Len(s) = k /\ \A m \in 1..k : s[m] = t[m]
  BY <1>1 DEF Spine
<1> HIDE DEF s, t
<1>5. Under(t, s) <=> \E k \in 1..Len(t) : t[k] = i
  <2>1. ASSUME Under(t, s) PROVE Len(s) \in 1..Len(t) /\ t[Len(s)] = i
    BY <2>1, <1>2, <1>3 DEF Under
  <2>2. ASSUME NEW k \in 1..Len(t), t[k] = i PROVE Under(t, s)
    BY <2>2, <1>2, <1>4 DEF Under
  <2> QED
    BY <2>1, <2>2
<1>6. j # i => (Under(t, s) <=> i \in AncestorLabels(t))
  BY <1>2, <1>3, <1>5 DEF AncestorLabels
<1>7. Under(t, s) /\ j # i => Len(s) < Len(t)
  BY <1>2, <1>3 DEF Under
<1> QED
  BY <1>4, <1>5, <1>6, <1>7 DEF s, t

(* A recompute by path counts the items whose paths pass the item. *)
LEMMA BelowByLabel ==
  ASSUME NEW rw \in [Items -> Rows], PathsGood(rw), NEW i \in StoredIn(rw)
  PROVE  LiveBelow(rw, i) = {j \in Items : /\ rw[j].state = "live"
                                           /\ i \in AncestorLabels(rw[j].path)}
<1> SUFFICES ASSUME NEW j \in Items, rw[j].state = "live"
             PROVE  j # i /\ Under(rw[j].path, rw[i].path) <=> i \in AncestorLabels(rw[j].path)
  BY DEF LiveBelow
<1>1. j \in StoredIn(rw)
  BY DEF StoredIn
<1>2. CASE j # i
  BY <1>1, <1>2, SpineIsAncestry
<1>3. CASE j = i
  <2>1. \A k \in 1..Len(rw[i].path) : rw[i].path[k] = i => k = Len(rw[i].path)
    BY SpineIsAncestry
  <2>2. Len(rw[i].path) \in Nat
    BY <1>3, RowParts
  <2> QED
    BY <1>3, <2>1, <2>2 DEF AncestorLabels
<1> QED
  BY <1>2, <1>3

(* A flush that leaves every path, parent and the set of stored rows.     *)
LEMMA ShapeKept ==
  ASSUME NEW rw, NEW sw, PathsGood(rw), StoredIn(sw) = StoredIn(rw),
         \A i \in Items : sw[i].path = rw[i].path /\ sw[i].parent = rw[i].parent
  PROVE  PathsGood(sw)
<1> SUFFICES ASSUME NEW i \in StoredIn(sw)
             PROVE  Spine(sw, i)
  BY DEF PathsGood
<1>1. Spine(rw, i) /\ i \in Items
  BY DEF PathsGood, StoredIn
<1>2. \A k \in 1..Len(rw[i].path) : rw[i].path[k] \in Items
  BY <1>1 DEF Spine, StoredIn
<1>3. sw[i].path = rw[i].path /\ sw[i].parent = rw[i].parent
  BY <1>1
<1>4. ASSUME NEW k \in 1..Len(sw[i].path)
      PROVE  /\ sw[i].path[k] \in StoredIn(sw)
             /\ Len(sw[sw[i].path[k]].path) = k
             /\ \A m \in 1..k : sw[sw[i].path[k]].path[m] = sw[i].path[m]
  <2>1. /\ rw[i].path[k] \in StoredIn(rw)
        /\ Len(rw[rw[i].path[k]].path) = k
        /\ \A m \in 1..k : rw[rw[i].path[k]].path[m] = rw[i].path[m]
    BY <1>1, <1>3 DEF Spine
  <2>2. sw[rw[i].path[k]].path = rw[rw[i].path[k]].path
    BY <1>2, <1>3
  <2> QED
    BY <1>3, <2>1, <2>2
<1> QED
  BY <1>1, <1>3, <1>4 DEF Spine

(* PathsAgree follows: the parent is the label before the last. *)
LEMMA GoodPathsAgree == TableInv(row) /\ PathsGood(row) => PathsAgree
<1> SUFFICES ASSUME TableInv(row), PathsGood(row), NEW i \in Stored
             PROVE  /\ row[i].parent = None => row[i].path = <<i>>
                    /\ row[i].parent # None =>
                          /\ row[i].parent \in Stored
                          /\ row[i].path = Append(row[row[i].parent].path, i)
                    /\ Len(row[i].path) <= MaxDepth
                    /\ \A k, m \in 1..Len(row[i].path) :
                          row[i].path[k] = row[i].path[m] => k = m
  BY DEF PathsAgree
<1>1. Stored = StoredIn(row) /\ i \in Items /\ row \in [Items -> Rows]
  BY DEF Stored, StoredIn, TableInv
<1>2. Spine(row, i)
  BY <1>1 DEF PathsGood
<1> DEFINE s == row[i].path
           p == row[i].parent
<1>3. s \in Seq(Items) /\ Len(s) \in Nat
  BY <1>1, RowParts
<1>4. p = None => s = <<i>>
  BY <1>2, <1>3 DEF Spine
<1>5. ASSUME p # None PROVE p \in Stored /\ s = Append(row[p].path, i)
  <2> DEFINE t == row[p].path
  <2>1. Len(s) >= 2 /\ s[Len(s) - 1] = p /\ Len(s) - 1 \in 1..Len(s)
    BY <1>2, <1>3, <1>5 DEF Spine
  <2>2. /\ p \in StoredIn(row) /\ Len(t) = Len(s) - 1
        /\ \A m \in 1..(Len(s) - 1) : t[m] = s[m]
    BY <1>2, <2>1 DEF Spine
  <2>3. t \in Seq(Items)
    BY <1>1, <2>2, RowParts DEF StoredIn
  <2>4. s[Len(s)] = i
    BY <1>2 DEF Spine
  <2> HIDE DEF s, t
  <2>5. s = Append(t, i)
    <3>1. Append(t, i) \in Seq(Items) /\ Len(Append(t, i)) = Len(s)
      BY <1>1, <1>3, <2>2, <2>3
    <3>2. \A m \in 1..Len(s) : s[m] = Append(t, i)[m]
      BY <1>1, <1>3, <2>2, <2>3, <2>4
    <3> QED
      BY <1>3, <3>1, <3>2
  <2> QED
    BY <1>1, <2>2, <2>5 DEF t
<1>6. \A k, m \in 1..Len(s) : s[k] = s[m] => k = m
  BY <1>2 DEF Spine
<1> QED
  BY <1>2, <1>4, <1>5, <1>6, <1>3 DEF Spine


-----------------------------------------------------------------------------
(* Moving a subtree *)

(* The path t is s with what lies above its label at depth replaced by b. *)
Graft(t, s, b, depth) ==
    /\ t \in Seq(Items)
    /\ Len(t) = Len(b) + Len(s) - depth + 1
    /\ \A k \in 1..Len(b) : t[k] = b[k]
    /\ \A k \in depth..Len(s) : t[Len(b) + k - depth + 1] = s[k]

(* The array concatenation of ReparentSubtree grafts. *)
LEMMA Concatenation ==
  ASSUME NEW b \in Seq(Items), NEW s \in Seq(Items), NEW depth \in 1..Len(s)
  PROVE  Graft(b \o SubSeq(s, depth, Len(s)), s, b, depth)
<1>1. Len(s) \in Nat /\ Len(b) \in Nat /\ depth \in Nat /\ depth >= 1 /\ depth <= Len(s)
  OBVIOUS
<1>2. PICK t : t = SubSeq(s, depth, Len(s))
  OBVIOUS
<1>3. /\ t \in Seq(Items) /\ Len(t) = Len(s) - depth + 1
      /\ \A k \in 1..(Len(s) - depth + 1) : t[k] = s[depth + k - 1]
  BY <1>1, <1>2
<1>4. PICK u : u = b \o t
  OBVIOUS
<1>5. /\ u \in Seq(Items) /\ Len(u) = Len(b) + Len(t)
      /\ \A k \in 1..Len(b) : u[k] = b[k]
  <2>1. u \in Seq(Items)
    BY <1>3, <1>4, ConcatProperties
  <2>2. Len(u) = Len(b) + Len(t)
    BY <1>3, <1>4, ConcatProperties
  <2>3. \A k \in 1..Len(b) : u[k] = b[k]
    BY <1>3, <1>4
  <2> QED
    BY <2>1, <2>2, <2>3
<1>6. \A k \in 1..Len(t) : u[Len(b) + k] = t[k]
  BY <1>1, <1>3, <1>4
<1>7. ASSUME NEW k \in depth..Len(s)
      PROVE  u[Len(b) + k - depth + 1] = s[k]
  <2>1. k - depth + 1 \in 1..Len(t) /\ k - depth + 1 \in 1..(Len(s) - depth + 1)
    BY <1>1, <1>3
  <2>2. PICK m \in 1..Len(t) : m = k - depth + 1
    BY <2>1
  <2>3. u[Len(b) + m] = t[m] /\ t[m] = s[depth + m - 1]
    BY <1>3, <1>6, <2>1, <2>2
  <2>4. Len(b) + m = Len(b) + k - depth + 1 /\ depth + m - 1 = k
    BY <1>1, <2>2
  <2> QED
    BY <2>3, <2>4
<1>8. Len(u) = Len(b) + Len(s) - depth + 1
  BY <1>1, <1>3, <1>5
<1> QED
  BY <1>2, <1>4, <1>5, <1>7, <1>8 DEF Graft

(* The label at position k of a grafted path, below the base, was at n. *)
BelowBase(k, base, len, depth) == k > base /\ k <= base + len - depth + 1

From(k, base, depth) == k - base + depth - 1

LEMMA GraftedFrom ==
  ASSUME NEW base \in Nat, NEW depth \in Nat, depth >= 1, NEW len \in Nat,
         NEW k \in Nat, BelowBase(k, base, len, depth), NEW n, n = From(k, base, depth)
  PROVE  /\ n \in Nat /\ n \in depth..len /\ n \in 1..len
         /\ n >= depth /\ n <= len /\ k = base + n - depth + 1
BY DEF BelowBase, From

Base(p) == IF p = None THEN << >> ELSE row[p].path

(* The rows rw after i was moved below p. *)
Grafted(rw, i, p) ==
    /\ StoredIn(rw) = StoredIn(row)
    /\ \A j \in Items \ Subtree(i) : rw[j].path = row[j].path /\ rw[j].parent = row[j].parent
    /\ \A j \in Subtree(i) : /\ Graft(rw[j].path, row[j].path, Base(p), Len(row[i].path))
                             /\ rw[j].parent = IF j = i THEN p ELSE row[j].parent
    /\ \A j \in Items : rw[j].path # row[j].path => Len(rw[j].path) <= MaxDepth

(* A path that passes a moved item is a moved path, and the other way      *)
(* round from the moved item on.                                           *)
LEMMA SubtreeByLabel ==
  ASSUME TableInv(row), PathsGood(row), NEW i \in Stored, NEW j \in Stored,
         NEW k \in 1..Len(row[j].path)
  PROVE  /\ row[j].path[k] \in Stored
         /\ row[j].path[k] \in Subtree(i) <=> j \in Subtree(i) /\ k >= Len(row[i].path)
<1>1. Stored = StoredIn(row) /\ row \in [Items -> Rows] /\ j \in Items /\ i \in Items
  BY DEF Stored, StoredIn, TableInv
<1>2. Spine(row, j)
  BY <1>1 DEF PathsGood
<1>3. PICK x : x = row[j].path[k]
  OBVIOUS
<1>4. /\ x \in Stored /\ Len(row[x].path) = k
      /\ \A m \in 1..k : row[x].path[m] = row[j].path[m]
  BY <1>1, <1>2, <1>3 DEF Spine
<1>5. Len(row[j].path) \in Nat /\ Len(row[i].path) \in Nat
  BY <1>1, RowParts
<1>6. Under(row[x].path, row[i].path) <=>
         Under(row[j].path, row[i].path) /\ k >= Len(row[i].path)
  BY <1>4, <1>5 DEF Under
<1> QED
  BY <1>3, <1>4, <1>6 DEF Subtree

LEMMA MovedPathsGood ==
  ASSUME TableInv(row), PathsGood(row), NEW i \in Stored, NEW p \in Stored \cup {None},
         p # None => ~ Under(row[p].path, row[i].path),
         NEW rw \in [Items -> Rows], Grafted(rw, i, p)
  PROVE  PathsGood(rw)
<1> DEFINE depth == Len(row[i].path)
           b == Base(p)
<1>1. /\ Stored = StoredIn(row) /\ Stored = StoredIn(rw) /\ row \in [Items -> Rows]
      /\ Stored \subseteq Items
  BY DEF Stored, StoredIn, TableInv, Grafted
<1>2. \A j \in Stored : Spine(row, j) /\ Len(row[j].path) \in Nat
  BY <1>1, RowParts DEF PathsGood
<1>3. depth \in Nat /\ depth >= 1 /\ i \in Subtree(i)
  BY <1>1, <1>2 DEF Spine, Subtree, Under
<1>4. /\ Len(b) \in Nat
      /\ p # None => p \in Stored \ Subtree(i) /\ b = row[p].path
      /\ p = None => Len(b) = 0
  BY <1>1, <1>2 DEF Base, Subtree
<1>5. \A k \in 1..Len(b) : /\ b[k] \in Stored \ Subtree(i)
                           /\ Len(row[b[k]].path) = k
                           /\ \A m \in 1..k : row[b[k]].path[m] = b[m]
  <2>1. CASE p = None
    BY <1>4, <2>1
  <2>2. CASE p # None
    <3>1. \A k \in 1..Len(row[p].path) :
             /\ row[p].path[k] \in Stored \ Subtree(i)
      BY <1>4, <2>2, SubtreeByLabel
    <3> QED
      BY <1>1, <1>2, <1>4, <2>2, <3>1 DEF Spine
  <2> QED
    BY <2>1, <2>2
<1>6. \A j \in Items \ Subtree(i) : rw[j].path = row[j].path /\ rw[j].parent = row[j].parent
  BY DEF Grafted
<1> SUFFICES ASSUME NEW j \in Stored
             PROVE  Spine(rw, j)
  BY <1>1 DEF PathsGood
<1>7. CASE j \notin Subtree(i)
  <2>1. rw[j].path = row[j].path /\ rw[j].parent = row[j].parent
    BY <1>1, <1>6, <1>7
  <2>2. ASSUME NEW k \in 1..Len(row[j].path)
        PROVE  /\ row[j].path[k] \in Stored
               /\ Len(rw[row[j].path[k]].path) = k
               /\ \A m \in 1..k : rw[row[j].path[k]].path[m] = row[j].path[m]
    <3>1. row[j].path[k] \in Stored \ Subtree(i)
      BY <1>7, SubtreeByLabel
    <3>2. rw[row[j].path[k]].path = row[row[j].path[k]].path
      BY <3>1, <1>1, <1>6
    <3> QED
      BY <3>1, <3>2, <1>2 DEF Spine
  <2> QED
    BY <1>1, <1>2, <2>1, <2>2 DEF Spine
<1>8. CASE j \in Subtree(i)
  <2> DEFINE s == row[j].path
             t == rw[j].path
  <2>1. Graft(t, s, b, depth)
    BY <1>8 DEF Grafted
  <2>2. /\ Len(s) \in Nat /\ depth <= Len(s) /\ \A k \in 1..depth : s[k] = row[i].path[k]
        /\ s[Len(s)] = j /\ row[i].path[depth] = i
    BY <1>2, <1>8 DEF Subtree, Under, Spine
  <2>3. Len(t) = Len(b) + Len(s) - depth + 1 /\ Len(t) \in Nat /\ Len(t) >= 1
    BY <1>3, <1>4, <2>1, <2>2 DEF Graft
  <2>4. \A k \in depth..Len(s) : t[Len(b) + k - depth + 1] = s[k]
    BY <2>1 DEF Graft
  <2>5. t[Len(t)] = j
    <3>1. Len(s) \in depth..Len(s) /\ Len(t) = Len(b) + Len(s) - depth + 1
      BY <1>3, <2>2, <2>3
    <3> QED
      BY <2>2, <2>4, <3>1
  <2>6. Len(t) <= MaxDepth
    BY <1>1, <1>2 DEF Spine, Grafted
  <2>7. /\ rw[j].parent = None => Len(t) = 1
        /\ rw[j].parent # None => Len(t) >= 2 /\ t[Len(t) - 1] = rw[j].parent
    <3>1. CASE j = i
      <4>1. rw[j].parent = p /\ Len(t) = Len(b) + 1
        BY <1>8, <3>1, <1>3, <1>4, <2>3 DEF Grafted
      <4>2. CASE p = None
        BY <1>4, <4>1, <4>2
      <4>3. CASE p # None
        <5>1. Len(b) >= 1 /\ b[Len(b)] = p
          BY <1>2, <1>4, <4>3 DEF Spine
        <5>2. Len(b) \in 1..Len(b) /\ Len(t) - 1 = Len(b)
          BY <1>4, <4>1, <5>1
        <5>3. t[Len(b)] = b[Len(b)]
          BY <2>1, <5>2 DEF Graft
        <5> QED
          BY <4>1, <4>3, <5>1, <5>2, <5>3
      <4> QED
        BY <4>2, <4>3
    <3>2. CASE j # i
      <4>1. rw[j].parent = row[j].parent
        BY <1>8, <3>2 DEF Grafted
      <4>2. Len(s) > depth
        BY <1>3, <2>2, <3>2
      <4>3. row[j].parent # None /\ s[Len(s) - 1] = row[j].parent
        BY <1>2, <1>3, <4>2 DEF Spine
      <4>4. Len(s) - 1 \in depth..Len(s) /\ Len(t) - 1 = Len(b) + (Len(s) - 1) - depth + 1
        <5> HIDE DEF s, t, b, depth
        <5> QED
          BY <1>3, <1>4, <2>2, <2>3, <4>2
      <4>5. Len(t) >= 2
        BY <1>3, <1>4, <2>2, <2>3, <4>2
      <4> QED
        BY <2>4, <4>1, <4>3, <4>4, <4>5
    <3> QED
      BY <3>1, <3>2
  <2>8. ASSUME NEW k \in 1..Len(t)
        PROVE  /\ t[k] \in Stored
               /\ Len(rw[t[k]].path) = k
               /\ \A m \in 1..k : rw[t[k]].path[m] = t[m]
    <3>1. CASE k <= Len(b)
      <4>1. k \in 1..Len(b) /\ \A m \in 1..k : t[m] = b[m]
        BY <1>4, <2>1, <3>1 DEF Graft
      <4>2. t[k] = b[k] /\ b[k] \in Stored \ Subtree(i)
        BY <1>5, <4>1, <2>3
      <4>3. rw[b[k]].path = row[b[k]].path
        BY <1>1, <1>6, <4>2
      <4> QED
        BY <1>5, <4>1, <4>2, <4>3
    <3>2. CASE k > Len(b)
      <4>1. PICK n : n = From(k, Len(b), depth)
        OBVIOUS
      <4>2. /\ n \in depth..Len(s) /\ n \in 1..Len(s) /\ k = Len(b) + n - depth + 1
            /\ n >= depth /\ n <= Len(s) /\ n \in Nat
        <5> HIDE DEF s, t, b, depth
        <5>1. k \in Nat /\ BelowBase(k, Len(b), Len(s), depth)
          BY <2>3, <3>2 DEF BelowBase
        <5>2. Len(b) \in Nat /\ depth \in Nat /\ depth >= 1 /\ Len(s) \in Nat
          BY <1>3, <1>4, <2>2
        <5> QED
          BY <4>1, <5>1, <5>2, GraftedFrom
      <4>3. t[k] = s[n]
        BY <2>4, <4>2
      <4>4. PICK x : x = s[n]
        OBVIOUS
      <4>5. x \in Stored /\ x \in Subtree(i)
        BY <1>8, <4>2, <4>4, SubtreeByLabel
      <4>6. Len(row[x].path) = n /\ \A m \in 1..n : row[x].path[m] = s[m]
        BY <1>2, <4>2, <4>4 DEF Spine
      <4>7. Graft(rw[x].path, row[x].path, b, depth)
        BY <4>5 DEF Grafted
      <4>8. Len(rw[x].path) = k
        BY <4>2, <4>6, <4>7, <1>3, <1>4 DEF Graft
      <4>9. ASSUME NEW m \in 1..k
            PROVE  rw[x].path[m] = t[m]
        <5>1. CASE m <= Len(b)
          BY <5>1, <1>4, <2>1, <4>7 DEF Graft
        <5>2. CASE m > Len(b)
          <6>1. PICK u : u = From(m, Len(b), depth)
            OBVIOUS
          <6>2. u \in depth..n /\ u \in depth..Len(s) /\ u \in 1..n /\ m = Len(b) + u - depth + 1
            <7> HIDE DEF s, t, b, depth
            <7>1. m \in Nat /\ BelowBase(m, Len(b), n, depth)
              BY <4>2, <5>2 DEF BelowBase
            <7>2. Len(b) \in Nat /\ depth \in Nat /\ depth >= 1 /\ n \in Nat
              BY <1>3, <1>4, <4>2
            <7>3. /\ u \in Nat /\ u \in depth..n /\ u \in 1..n /\ u <= n /\ u >= depth
                  /\ m = Len(b) + u - depth + 1
              BY <6>1, <7>1, <7>2, GraftedFrom
            <7>4. u \in depth..Len(s)
              BY <7>2, <7>3, <4>2, <2>2
            <7> QED
              BY <7>3, <7>4
          <6>3. rw[x].path[m] = row[x].path[u]
            BY <4>6, <4>7, <6>2 DEF Graft
          <6>4. t[m] = s[u]
            BY <2>4, <6>2
          <6> QED
            BY <4>6, <6>2, <6>3, <6>4
        <5> QED
          BY <5>1, <5>2, <1>4, <4>2
      <4> QED
        BY <4>3, <4>4, <4>5, <4>8, <4>9
    <3> QED
      BY <3>1, <3>2, <1>4, <2>3
  <2>9. Len(t) \in 1..MaxDepth
    BY <2>3, <2>6
  <2> QED
    BY <1>1, <2>5, <2>7, <2>8, <2>9 DEF Spine
<1> QED
  BY <1>7, <1>8


-----------------------------------------------------------------------------
(* The tail of a flush *)

(* What no flush does to a row: change what it holds under a version that  *)
(* a client may have, or bring back what is gone; only the items in new    *)
(* come into being.                                                        *)
Evolves(rw, new) ==
    \A i \in Items :
        /\ row[i].state = "absent" => rw[i] = row[i] \/ i \in new
        /\ row[i].state = "gone" => rw[i].state = "gone"
        /\ rw[i].state # "gone" => /\ row[i].version <= rw[i].version
                                   /\ \/ SameContent(rw[i], row[i])
                                      \/ row[i].version < rw[i].version

(* The flush marks every ancestor, old and new, of a row whose place,      *)
(* state or category changes.                                              *)
Marks(rw, touched) ==
    \A j \in Items :
        ~ SameContent(rw[j], row[j]) =>
           /\ j \in StoredIn(row) => AncestorLabels(row[j].path) \subseteq Dirty(touched)
           /\ j \in StoredIn(rw) => AncestorLabels(rw[j].path) \subseteq Dirty(touched)

(* So the rollups that are not recomputed did not need it. *)
LEMMA RollupsKept ==
  ASSUME TableInv(row), PathsGood(row), RollupsGood(row, rollup),
         NEW rw, NEW touched, NEW new, NEW n,
         TableInv(rw), PathsGood(rw), Evolves(rw, new), Marks(rw, touched),
         Apply(rw, touched, n)
  PROVE  RollupsGood(rw, rollup')
<1>1. row \in [Items -> Rows] /\ rw \in [Items -> Rows]
  BY DEF TableInv
<1>2. rollup' = [i \in Items |-> IF i \in Dirty(touched) /\ i \in StoredIn(rw)
                                 THEN RecomputeRollup(rw, i) ELSE rollup[i]]
  BY DEF Apply, StoredIn
<1>3. ASSUME NEW i \in Items, rw[i].state = "absent"
      PROVE  rollup'[i] = ZeroRollup
  <2>1. i \notin StoredIn(rw)
    BY <1>3 DEF StoredIn
  <2>2. row[i].state = "absent"
    <3>1. row[i].version <= rw[i].version /\ (SameContent(rw[i], row[i]) \/ row[i].version < rw[i].version)
      BY <1>3 DEF Evolves
    <3>2. rw[i].version = 0 /\ row[i].version \in Nat
      BY <1>1, <1>3, RowParts DEF TableInv, Absent
    <3> QED
      BY <1>3, <3>1, <3>2 DEF SameContent
  <2> QED
    BY <1>2, <2>1, <2>2 DEF RollupsGood
<1>4. ASSUME NEW i \in StoredIn(rw)
      PROVE  rollup'[i] = RecomputeRollup(rw, i)
  <2>1. i \in Items
    BY DEF StoredIn
  <2>2. CASE i \in Dirty(touched)
    BY <1>2, <2>1, <2>2
  <2>3. CASE i \notin Dirty(touched) /\ i \in StoredIn(row)
    <3>1. \A j \in Items : rw[j].state = "live" /\ i \in AncestorLabels(rw[j].path) =>
                              SameContent(rw[j], row[j])
      BY <2>3 DEF Marks, StoredIn
    <3>2. \A j \in Items : row[j].state = "live" /\ i \in AncestorLabels(row[j].path) =>
                              SameContent(rw[j], row[j])
      BY <2>3 DEF Marks, StoredIn
    <3> DEFINE Passing(w) == {j \in Items : w[j].state = "live" /\ i \in AncestorLabels(w[j].path)}
    <3>3. LiveBelow(rw, i) = Passing(rw) /\ LiveBelow(row, i) = Passing(row)
      BY <1>1, <2>3, BelowByLabel
    <3>4. LiveBelow(rw, i) = LiveBelow(row, i)
      BY <3>3, <3>1, <3>2 DEF SameContent
    <3>5. \A j \in LiveBelow(row, i) : rw[j].done = row[j].done
      BY <3>3, <3>2 DEF SameContent
    <3>6. {j \in LiveBelow(rw, i) : rw[j].done} = {j \in LiveBelow(row, i) : row[j].done}
      BY <3>4, <3>5
    <3>7. RecomputeRollup(rw, i) = RecomputeRollup(row, i)
      BY <3>4, <3>6 DEF RecomputeRollup
    <3> QED
      BY <1>2, <2>1, <2>3, <3>7 DEF RollupsGood
  <2>4. CASE i \notin Dirty(touched) /\ i \notin StoredIn(row)
    <3>1. row[i].state = "absent"
      <4>1. row[i].state \in RowStates /\ rw[i].state \in {"live", "deleted"}
        BY <1>1, <2>1, RowParts DEF StoredIn
      <4> QED
        BY <2>1, <2>4, <4>1 DEF RowStates, StoredIn, Evolves
    <3>2. ASSUME NEW j \in Items, rw[j].state = "live", i \in AncestorLabels(rw[j].path)
          PROVE  FALSE
      <4>1. SameContent(rw[j], row[j]) /\ j \in StoredIn(row)
        BY <2>4, <3>2 DEF Marks, StoredIn, SameContent
      <4>2. rw[j].path = row[j].path /\ Len(row[j].path) \in Nat
        BY <1>1, <4>1, RowParts DEF SameContent
      <4>3. \A k \in 1..Len(row[j].path) : row[j].path[k] \in StoredIn(row)
        BY <4>1 DEF PathsGood, Spine
      <4> QED
        BY <2>4, <3>2, <4>2, <4>3 DEF AncestorLabels
    <3>3. LiveBelow(rw, i) = {}
      BY <1>1, <3>2, BelowByLabel
    <3>4. RecomputeRollup(rw, i) = ZeroRollup
      BY <3>3, FS_EmptySet DEF RecomputeRollup, ZeroRollup
    <3> QED
      BY <1>2, <2>1, <2>4, <3>1, <3>4 DEF RollupsGood
  <2> QED
    BY <2>2, <2>3, <2>4
<1> QED
  BY <1>3, <1>4 DEF RollupsGood

(* The counts of a recompute are numbers: the table is finite. *)
LEMMA RecomputeType ==
  ASSUME NEW rw, TableInv(rw), NEW i \in Items
  PROVE  RecomputeRollup(rw, i) \in [descendants : Nat, done : Nat]
<1>1. LiveBelow(rw, i) \subseteq StoredIn(rw)
  BY DEF LiveBelow, StoredIn
<1>2. IsFiniteSet(StoredIn(rw))
  BY DEF TableInv
<1>3. IsFiniteSet(LiveBelow(rw, i))
  BY <1>1, <1>2, FS_Subset
<1>4. IsFiniteSet({j \in LiveBelow(rw, i) : rw[j].done})
  BY <1>3, FS_Subset
<1>5. /\ Cardinality(LiveBelow(rw, i)) \in Nat
      /\ Cardinality({j \in LiveBelow(rw, i) : rw[j].done}) \in Nat
  BY <1>3, <1>4, FS_CardinalityType
<1> QED
  BY <1>5 DEF RecomputeRollup

(* What a client has seen stays what a current version stands for. *)
LEMMA SeenKept ==
  ASSUME NEW rw, NEW new, TableInv(row), TableInv(rw), Evolves(rw, new),
         NEW q, q.version \in Nat, Seen(row, q), q.kind = "create" => q.item \notin new
  PROVE  Seen(rw, q)
<1>1. CASE q.kind = "create"
  <2>1. q.item \in Items /\ row[q.item].state = "absent"
    BY <1>1 DEF Seen
  <2>2. rw[q.item] = row[q.item]
    BY <1>1, <2>1 DEF Evolves
  <2> QED
    BY <1>1, <2>1, <2>2 DEF Seen
<1>2. CASE q.kind \notin {"free", "create"} /\ rw[q.item].state # "gone"
  <2> DEFINE i == q.item
  <2>1. i \in Items /\ row[i].state # "gone"
    BY <1>2 DEF Seen, Evolves
  <2>2. row[i].version \in Nat /\ rw[i].version \in Nat
    BY <2>1, RowParts DEF TableInv
  <2>3. /\ q.version <= row[i].version
        /\ q.version = row[i].version => SameContent(row[i], q.seen)
    BY <1>2, <2>1 DEF Seen
  <2>4. /\ row[i].version <= rw[i].version
        /\ SameContent(rw[i], row[i]) \/ row[i].version < rw[i].version
    BY <1>2, <2>1 DEF Evolves
  <2>5. q.version <= rw[i].version
    BY <2>2, <2>3, <2>4
  <2>6. q.version = rw[i].version => SameContent(rw[i], q.seen)
    <3> SUFFICES ASSUME q.version = rw[i].version PROVE SameContent(rw[i], q.seen)
      OBVIOUS
    <3>1. q.version = row[i].version /\ ~ (row[i].version < rw[i].version)
      BY <2>2, <2>3, <2>4
    <3> QED
      BY <2>3, <2>4, <3>1 DEF SameContent
  <2> QED
    BY <1>2, <2>1, <2>5, <2>6 DEF Seen
<1>3. CASE q.kind \notin {"free", "create"} /\ rw[q.item].state = "gone"
  BY <1>3 DEF Seen
<1>4. CASE q.kind = "free"
  BY <1>4 DEF Seen
<1> QED
  BY <1>1, <1>2, <1>3, <1>4


(* A flush, once its rows are known to be good: everything else follows    *)
(* from the tail.  A request that is answered is free; no other creates    *)
(* what came into being.                                                   *)
Answered(new) ==
    /\ req' \in [Requests -> [kind : RequestKinds, item : Items \cup {None},
                              other : Items \cup {None}, link : Links \cup {NoLink},
                              version : Nat, seen : Rows]]
    /\ \A r \in Requests : \/ req'[r].kind = "free"
                           \/ req'[r] = req[r] /\ (req[r].kind = "create" => req[r].item \notin new)

LEMMA FlushKeeps ==
  ASSUME IInv, NEW rw, NEW touched, NEW new, NEW n \in Nat,
         TableInv(rw), PathsGood(rw), Evolves(rw, new), Marks(rw, touched),
         Apply(rw, touched, n), Answered(new), links' \subseteq Links
  PROVE  IInv'
<1>1. row' = rw
  BY DEF Apply
<1>2. RollupsGood(rw, rollup')
  BY RollupsKept DEF IInv
<1>3. rollup' \in [Items -> [descendants : Nat, done : Nat]]
  BY RecomputeType DEF Apply, IInv, TypeOK
<1>4. TypeOK'
  BY <1>1, <1>3 DEF IInv, TypeOK, TableInv, Apply, Answered
<1>5. ASSUME NEW r \in Requests
      PROVE  Seen(rw, req'[r])
  <2>1. CASE req'[r].kind = "free"
    BY <2>1 DEF Seen
  <2>2. CASE req'[r] = req[r] /\ (req[r].kind = "create" => req[r].item \notin new)
    <3>1. TableInv(row) /\ Seen(row, req[r]) /\ req[r].version \in Nat
      BY DEF IInv, RequestsInv, TypeOK
    <3> QED
      BY <2>2, <3>1, SeenKept
  <2> QED
    BY <2>1, <2>2 DEF Answered
<1>6. OneCreator'
  BY DEF IInv, RequestsInv, OneCreator, Answered
<1>7. RequestsInv'
  BY <1>1, <1>5, <1>6 DEF RequestsInv
<1>8. TableInv(row)' /\ PathsGood(row)' /\ RollupsGood(row, rollup)'
  BY <1>1, <1>2
<1> QED
  BY <1>4, <1>7, <1>8 DEF IInv

LEMMA AnswerOnly ==
  ASSUME IInv, NEW r \in Requests, Answer(r), NEW new,
         \A s \in Requests \ {r} : req[s].kind = "create" => req[s].item \notin new
  PROVE  Answered(new)
<1>1. Free \in [kind : RequestKinds, item : Items \cup {None}, other : Items \cup {None},
                link : Links \cup {NoLink}, version : Nat, seen : Rows]
  BY DEF Free, RequestKinds, Absent, Rows, RowStates
<1>2. /\ req' = [req EXCEPT ![r] = Free]
      /\ req \in [Requests -> [kind : RequestKinds, item : Items \cup {None},
                               other : Items \cup {None}, link : Links \cup {NoLink},
                               version : Nat, seen : Rows]]
  BY DEF Answer, IInv, TypeOK
<1>3. Free.kind = "free"
  BY DEF Free
<1> QED
  BY <1>1, <1>2, <1>3 DEF Answered

(* An operator's step leaves the requests. *)
LEMMA NoneAnswered == ASSUME IInv, req' = req PROVE Answered({})
BY DEF IInv, TypeOK, Answered


-----------------------------------------------------------------------------
(* The changes of one row in place: update, delete, link, unlink, comment *)

InPlace(rw, x) ==
    /\ rw \in [Items -> Rows]
    /\ \A i \in Items \ {x} : rw[i] = row[i]
    /\ rw[x].path = row[x].path /\ rw[x].parent = row[x].parent
    /\ rw[x].state \in {"live", "deleted"}
    /\ rw[x].version = row[x].version + 1

LEMMA InPlaceGood ==
  ASSUME IInv, NEW x \in Items, row[x].state = "live", NEW rw, InPlace(rw, x)
  PROVE  /\ TableInv(rw) /\ PathsGood(rw) /\ Evolves(rw, {})
         /\ Marks(rw, {row[x].path})
         /\ SameContent(rw[x], row[x]) => Marks(rw, {})
<1>1. TableInv(row) /\ PathsGood(row) /\ row \in [Items -> Rows]
  BY DEF IInv, TableInv
<1>2. StoredIn(rw) = StoredIn(row)
  BY DEF InPlace, StoredIn
<1>3. TableInv(rw)
  BY <1>1, <1>2 DEF TableInv, InPlace
<1>4. PathsGood(rw)
  BY <1>1, <1>2, ShapeKept DEF InPlace
<1>5. \A i \in Items : row[i].version \in Nat
  BY <1>1, RowParts
<1>6. Evolves(rw, {})
  BY <1>5 DEF Evolves, InPlace, SameContent
<1>7. Dirty({row[x].path}) = AncestorLabels(row[x].path)
  BY DEF Dirty
<1>8. \A i \in Items \ {x} : SameContent(rw[i], row[i])
  BY DEF InPlace, SameContent
<1>9. Marks(rw, {row[x].path})
  BY <1>7, <1>8 DEF Marks, InPlace
<1>10. SameContent(rw[x], row[x]) => Marks(rw, {})
  BY <1>8 DEF Marks
<1> QED
  BY <1>3, <1>4, <1>6, <1>9, <1>10

(* The version bump itself. *)
LEMMA TouchedRow ==
  ASSUME row \in [Items -> Rows], NEW x \in Items, row[x].state = "live", NEW s \in Nat
  PROVE  /\ InPlace(Touched(row, x, s), x)
         /\ SameContent(Touched(row, x, s)[x], row[x])
         /\ Touched(row, x, s)[x].commented = row[x].commented
<1>1. row[x] \in Rows /\ row[x].version + 1 \in Nat
  BY RowParts
<1>2. PICK rw : rw = Touched(row, x, s)
  OBVIOUS
<1>3. rw = [row EXCEPT ![x] = [row[x] EXCEPT !.version = @ + 1, !.changeSeq = s]]
  BY <1>2 DEF Touched
<1>4. PICK w : w = [row[x] EXCEPT !.version = @ + 1, !.changeSeq = s]
  OBVIOUS
<1>5. /\ w \in Rows /\ SameContent(w, row[x]) /\ w.version = row[x].version + 1
      /\ w.commented = row[x].commented /\ w.state = "live"
  BY <1>1, <1>4 DEF Rows, SameContent
<1>6. rw[x] = w /\ rw \in [Items -> Rows] /\ \A i \in Items \ {x} : rw[i] = row[i]
  BY <1>3, <1>4, <1>5
<1> QED
  BY <1>2, <1>5, <1>6 DEF InPlace, SameContent

LEMMA UpdateInv == ASSUME IInv, NEW r \in Requests, FlushUpdate(r) PROVE IInv'
<1> DEFINE q == req[r]
           x == req[r].item
           tw == Touched(row, x, seqCounter + 1)
           rw == [tw EXCEPT ![x].done = ~ @]
<1>1. /\ q.kind = "update" /\ row[x].state = "live"
      /\ Apply(rw, {row[x].path}, 1) /\ Answer(r) /\ links' = links
  BY DEF FlushUpdate, ExpectedVersion
<1>2. x \in Items /\ row \in [Items -> Rows] /\ seqCounter + 1 \in Nat
  BY <1>1 DEF IInv, RequestsInv, Seen, TypeOK
<1>3. InPlace(tw, x)
  BY <1>1, <1>2, TouchedRow
<1> HIDE DEF tw
<1>4. InPlace(rw, x)
  <2>1. tw \in [Items -> Rows] /\ tw[x] \in Rows
    BY <1>2, <1>3 DEF InPlace
  <2>2. PICK w : w = [tw[x] EXCEPT !.done = ~ @]
    OBVIOUS
  <2>3. w \in Rows /\ w.path = tw[x].path /\ w.parent = tw[x].parent /\ w.state = tw[x].state
        /\ w.version = tw[x].version
    BY <2>1, <2>2 DEF Rows
  <2>4. rw[x] = w /\ rw \in [Items -> Rows] /\ \A i \in Items \ {x} : rw[i] = tw[i]
    BY <1>2, <2>1, <2>2, <2>3
  <2> HIDE DEF rw
  <2> QED
    BY <1>3, <2>3, <2>4 DEF InPlace
<1> HIDE DEF rw
<1>5. /\ TableInv(rw) /\ PathsGood(rw) /\ Evolves(rw, {}) /\ Marks(rw, {row[x].path})
  BY <1>1, <1>2, <1>4, InPlaceGood
<1>6. Answered({}) /\ links' \subseteq Links
  BY <1>1, AnswerOnly DEF IInv, TypeOK
<1> QED
  BY <1>1, <1>5, <1>6, FlushKeeps

LEMMA DeleteInv == ASSUME IInv, NEW r \in Requests, FlushDelete(r) PROVE IInv'
<1> DEFINE q == req[r]
           x == req[r].item
           tw == Touched(row, x, seqCounter + 1)
           rw == [tw EXCEPT ![x].state = "deleted"]
<1>1. /\ q.kind = "delete" /\ row[x].state = "live"
      /\ Apply(rw, {row[x].path}, 1) /\ Answer(r) /\ links' = links
  BY DEF FlushDelete, ExpectedVersion
<1>2. x \in Items /\ row \in [Items -> Rows] /\ seqCounter + 1 \in Nat
  BY <1>1 DEF IInv, RequestsInv, Seen, TypeOK
<1>3. InPlace(tw, x)
  BY <1>1, <1>2, TouchedRow
<1> HIDE DEF tw
<1>4. InPlace(rw, x)
  <2>1. tw \in [Items -> Rows] /\ tw[x] \in Rows
    BY <1>2, <1>3 DEF InPlace
  <2>2. PICK w : w = [tw[x] EXCEPT !.state = "deleted"]
    OBVIOUS
  <2>3. /\ w \in Rows /\ w.path = tw[x].path /\ w.parent = tw[x].parent
        /\ w.state = "deleted" /\ w.version = tw[x].version
    BY <2>1, <2>2 DEF Rows, RowStates
  <2>4. rw[x] = w /\ rw \in [Items -> Rows] /\ \A i \in Items \ {x} : rw[i] = tw[i]
    BY <1>2, <2>1, <2>2, <2>3
  <2> HIDE DEF rw
  <2> QED
    BY <1>3, <2>3, <2>4 DEF InPlace
<1> HIDE DEF rw
<1>5. /\ TableInv(rw) /\ PathsGood(rw) /\ Evolves(rw, {}) /\ Marks(rw, {row[x].path})
  BY <1>1, <1>2, <1>4, InPlaceGood
<1>6. Answered({}) /\ links' \subseteq Links
  BY <1>1, AnswerOnly DEF IInv, TypeOK
<1> QED
  BY <1>1, <1>5, <1>6, FlushKeeps

LEMMA CommentInv == ASSUME IInv, NEW r \in Requests, FlushComment(r) PROVE IInv'
<1> DEFINE q == req[r]
           x == req[r].item
           tw == Touched(row, x, seqCounter + 1)
           rw == [tw EXCEPT ![x].commented = TRUE]
<1>1. /\ q.kind = "comment" /\ row[x].state = "live"
      /\ Apply(rw, {}, 1) /\ Answer(r) /\ links' = links
  BY DEF FlushComment, ExpectedVersion
<1>2. x \in Items /\ row \in [Items -> Rows] /\ seqCounter + 1 \in Nat
  BY <1>1 DEF IInv, RequestsInv, Seen, TypeOK
<1>3. InPlace(tw, x) /\ SameContent(tw[x], row[x])
  BY <1>1, <1>2, TouchedRow
<1> HIDE DEF tw
<1>4. InPlace(rw, x) /\ SameContent(rw[x], row[x])
  <2>1. tw \in [Items -> Rows] /\ tw[x] \in Rows
    BY <1>2, <1>3 DEF InPlace
  <2>2. PICK w : w = [tw[x] EXCEPT !.commented = TRUE]
    OBVIOUS
  <2>3. w \in Rows /\ SameContent(w, tw[x]) /\ w.version = tw[x].version
    BY <2>1, <2>2 DEF Rows, SameContent
  <2>4. rw[x] = w /\ rw \in [Items -> Rows] /\ \A i \in Items \ {x} : rw[i] = tw[i]
    BY <1>2, <2>1, <2>2, <2>3
  <2> HIDE DEF rw
  <2> QED
    BY <1>3, <2>3, <2>4 DEF InPlace, SameContent
<1> HIDE DEF rw
<1>5. TableInv(rw) /\ PathsGood(rw) /\ Evolves(rw, {}) /\ Marks(rw, {})
  BY <1>1, <1>2, <1>4, InPlaceGood
<1>6. Answered({}) /\ links' \subseteq Links
  BY <1>1, AnswerOnly DEF IInv, TypeOK
<1> QED
  BY <1>1, <1>5, <1>6, FlushKeeps

(* changeLink and changeUnlink version the acting end and touch no path. *)
LEMMA LinksInv == ASSUME IInv, NEW r \in Requests, FlushLink(r) \/ FlushUnlink(r) PROVE IInv'
<1> DEFINE q == req[r]
           x == req[r].item
           rw == Touched(row, x, seqCounter + 1)
<1>1. /\ q.kind \in {"link", "unlink"} /\ row[x].state = "live"
      /\ Apply(rw, {}, 1) /\ Answer(r)
  BY DEF FlushLink, FlushUnlink, ExpectedVersion
<1>2. x \in Items /\ row \in [Items -> Rows] /\ seqCounter + 1 \in Nat
  BY <1>1 DEF IInv, RequestsInv, Seen, TypeOK
<1>3. InPlace(rw, x) /\ SameContent(rw[x], row[x])
  BY <1>1, <1>2, TouchedRow
<1> HIDE DEF rw
<1>4. TableInv(rw) /\ PathsGood(rw) /\ Evolves(rw, {}) /\ Marks(rw, {})
  BY <1>1, <1>2, <1>3, InPlaceGood
<1>5. Answered({})
  BY <1>1, AnswerOnly
<1>6. links' \subseteq Links
  BY <1>2 DEF FlushLink, FlushUnlink, IInv, TypeOK, Stored, Links
<1> QED
  BY <1>1, <1>4, <1>5, <1>6, FlushKeeps


-----------------------------------------------------------------------------
(* sierx_set_project_ranks: versions only *)

Respreads(sw, rw) ==
    /\ sw \in [Items -> Rows]
    /\ StoredIn(sw) = StoredIn(rw)
    /\ \A i \in Items : /\ SameContent(sw[i], rw[i]) /\ rw[i].version <= sw[i].version
                        /\ i \notin StoredIn(rw) => sw[i] = rw[i]

LEMMA RespreadKeeps ==
  ASSUME NEW rw \in [Items -> Rows]
  PROVE  Respreads(RespreadRows(rw), rw) /\ \A spread : Respreads(MaybeRespread(spread, rw), rw)
<1>1. ASSUME NEW i \in Items
      PROVE  LET w == [rw[i] EXCEPT !.version = @ + 1]
             IN w \in Rows /\ SameContent(w, rw[i]) /\ rw[i].version <= w.version
  <2>1. rw[i] \in Rows /\ rw[i].version \in Nat
    BY RowParts
  <2> QED
    BY <2>1 DEF Rows, SameContent
<1>2. PICK sw : sw = RespreadRows(rw)
  OBVIOUS
<1>3. \A i \in Items : sw[i] = IF i \in StoredIn(rw)
                               THEN [rw[i] EXCEPT !.version = @ + 1] ELSE rw[i]
  BY <1>2 DEF RespreadRows, StoredIn
<1>4. sw \in [Items -> Rows]
  <2>1. sw = [i \in Items |-> IF i \in StoredIn(rw)
                              THEN [rw[i] EXCEPT !.version = @ + 1] ELSE rw[i]]
    BY <1>2 DEF RespreadRows, StoredIn
  <2> QED
    BY <1>1, <2>1
<1>5. \A i \in Items : rw[i].version \in Nat
  BY RowParts
<1>6. \A i \in Items : /\ SameContent(sw[i], rw[i]) /\ rw[i].version <= sw[i].version
                       /\ i \notin StoredIn(rw) => sw[i] = rw[i]
  <2> TAKE i \in Items
  <2>1. CASE i \in StoredIn(rw)
    <3>1. PICK w : w = [rw[i] EXCEPT !.version = @ + 1]
      OBVIOUS
    <3>2. sw[i] = w
      BY <1>3, <2>1, <3>1
    <3>3. SameContent(w, rw[i]) /\ rw[i].version <= w.version
      BY <1>1, <3>1
    <3> QED
      BY <2>1, <3>2, <3>3
  <2>2. CASE i \notin StoredIn(rw)
    <3>1. sw[i] = rw[i] /\ SameContent(rw[i], rw[i])
      BY <1>3, <2>2 DEF SameContent
    <3>2. rw[i].version <= rw[i].version
      BY <1>5
    <3> QED
      BY <2>2, <3>1, <3>2
  <2> QED
    BY <2>1, <2>2
<1>7. StoredIn(sw) = StoredIn(rw)
  BY <1>6 DEF StoredIn, SameContent
<1>8. Respreads(sw, rw)
  BY <1>4, <1>6, <1>7 DEF Respreads
<1>9. Respreads(rw, rw)
  BY <1>5 DEF Respreads, SameContent
<1> QED
  BY <1>2, <1>8, <1>9 DEF MaybeRespread

LEMMA RebalanceInv == ASSUME IInv, RebalanceProject PROVE IInv'
<1>1. PICK rw : rw = RespreadRows(row)
  OBVIOUS
<1>2. Apply(rw, {}, 1) /\ links' = links /\ req' = req
  BY <1>1 DEF RebalanceProject
<1>3. TableInv(row) /\ PathsGood(row) /\ row \in [Items -> Rows]
  BY DEF IInv, TableInv
<1>4. Respreads(rw, row)
  BY <1>1, <1>3, RespreadKeeps
<1>5. TableInv(rw)
  BY <1>3, <1>4 DEF TableInv, Respreads, SameContent, StoredIn
<1>6. PathsGood(rw)
  BY <1>3, <1>4, ShapeKept DEF Respreads, SameContent
<1>7. Evolves(rw, {}) /\ Marks(rw, {})
  BY <1>4 DEF Evolves, Marks, Respreads, SameContent, StoredIn
<1>8. Answered({}) /\ links' \subseteq Links
  BY <1>2, NoneAnswered DEF IInv, TypeOK
<1> QED
  BY <1>2, <1>5, <1>6, <1>7, <1>8, FlushKeeps

-----------------------------------------------------------------------------
(* applyInsert *)

LEMMA CreateInv == ASSUME IInv, NEW r \in Requests, FlushCreate(r) PROVE IInv'
<1> DEFINE q == req[r]
           x == req[r].item
           p == req[r].other
           created == [Absent EXCEPT !.state = "live", !.parent = p, !.path = NewPath(x, p),
                                     !.version = 1, !.changeSeq = seqCounter + 1]
<1>1. PICK spread \in Respread :
         Apply([MaybeRespread(spread, row) EXCEPT ![x] = created], {created.path}, 1)
  BY DEF FlushCreate
<1>2. /\ q.kind = "create" /\ (p # None => p \in Stored)
      /\ PathCheck(row') /\ Answer(r) /\ links' = links
  BY DEF FlushCreate
<1>3. PICK sw : sw = MaybeRespread(spread, row)
  OBVIOUS
<1>4. PICK c : c = created
  OBVIOUS
<1>5. PICK rw : rw = [sw EXCEPT ![x] = c]
  OBVIOUS
<1>6. Apply(rw, {c.path}, 1)
  BY <1>1, <1>3, <1>4, <1>5
<1>7. /\ TableInv(row) /\ PathsGood(row) /\ row \in [Items -> Rows] /\ seqCounter \in Nat
      /\ Stored = StoredIn(row) /\ p \in Items \cup {None}
  BY DEF IInv, TableInv, TypeOK, Stored, StoredIn
<1>8. x \in Items /\ row[x].state = "absent" /\ row[x] = Absent /\ x \notin Stored
  BY <1>2, <1>7 DEF IInv, RequestsInv, Seen, TableInv, Stored
<1>9. Respreads(sw, row)
  BY <1>3, <1>7, RespreadKeeps
<1>10. /\ c.state = "live" /\ c.parent = p /\ c.path = NewPath(x, p) /\ c.version = 1
       /\ c.changeSeq = seqCounter + 1 /\ c.done = FALSE /\ c.commented = FALSE
  BY <1>4 DEF Absent
<1>11. /\ p = None => c.path \in Seq(Items) /\ Len(c.path) = 1 /\ c.path[1] = x
       /\ p # None => /\ c.path \in Seq(Items) /\ Len(c.path) = Len(row[p].path) + 1
                      /\ c.path[Len(row[p].path) + 1] = x
                      /\ \A k \in 1..Len(row[p].path) : c.path[k] = row[p].path[k]
  <2>1. CASE p = None
    BY <1>8, <1>10, <2>1 DEF NewPath
  <2>2. CASE p # None
    <3>1. row[p].path \in Seq(Items)
      BY <1>7, <2>2, RowParts
    <3>2. c.path = Append(row[p].path, x)
      BY <1>10, <2>2 DEF NewPath
    <3> HIDE DEF x, p
    <3> QED
      BY <1>8, <2>2, <3>1, <3>2
  <2> QED
    BY <2>1, <2>2
<1>12. c.path \in Seq(Items) /\ c \in Rows
  <2>1. c.path \in Seq(Items)
    BY <1>11
  <2>2. /\ c.state \in RowStates /\ c.parent \in Items \cup {None} /\ c.done \in BOOLEAN
        /\ c.commented \in BOOLEAN /\ c.version \in Nat /\ c.changeSeq \in Nat
    <3>1. c.state \in RowStates /\ c.done \in BOOLEAN /\ c.commented \in BOOLEAN
      BY <1>10 DEF RowStates
    <3>2. c.version \in Nat /\ c.changeSeq \in Nat
      BY <1>7, <1>10
    <3> QED
      BY <1>7, <1>10, <3>1, <3>2
  <2>3. c = [state |-> c.state, parent |-> c.parent, path |-> c.path, done |-> c.done,
             commented |-> c.commented, version |-> c.version, changeSeq |-> c.changeSeq]
    BY <1>4 DEF Absent
  <2> QED
    BY <2>1, <2>2, <2>3 DEF Rows
<1> HIDE DEF created
<1>13. rw[x] = c /\ rw \in [Items -> Rows] /\ \A i \in Items \ {x} : rw[i] = sw[i]
  BY <1>5, <1>8, <1>9, <1>12 DEF Respreads
<1>14. /\ \A i \in Items \ {x} : rw[i].path = row[i].path /\ rw[i].parent = row[i].parent
       /\ \A i \in Items \ {x} : SameContent(rw[i], row[i]) /\ row[i].version <= rw[i].version
       /\ \A i \in Items \ {x} : i \notin Stored => rw[i] = row[i]
  BY <1>7, <1>9, <1>13 DEF Respreads, SameContent
<1>15. StoredIn(rw) = Stored \cup {x}
  BY <1>7, <1>8, <1>10, <1>13, <1>14 DEF StoredIn, SameContent
<1>16. TableInv(rw)
  <2>1. IsFiniteSet(StoredIn(rw))
    <3>1. IsFiniteSet(Stored)
      BY <1>7 DEF TableInv
    <3>2. IsFiniteSet(Stored \cup {x})
      BY <3>1, FS_AddElement
    <3> QED
      BY <1>15, <3>2
  <2> QED
    BY <1>7, <1>10, <1>13, <1>14, <2>1 DEF TableInv, SameContent, Stored
<1>17. PathsGood(rw)
  <2>1. \A i \in Stored : Spine(row, i) /\ i \in Items \ {x} /\ Len(row[i].path) \in Nat
    BY <1>7, <1>8, RowParts DEF PathsGood, Stored
  <2>2. ASSUME NEW i \in Stored
        PROVE  Spine(rw, i)
    <3>1. rw[i].path = row[i].path /\ rw[i].parent = row[i].parent
      BY <1>14, <2>1
    <3>2. ASSUME NEW k \in 1..Len(row[i].path)
          PROVE  /\ row[i].path[k] \in StoredIn(rw)
                 /\ Len(rw[row[i].path[k]].path) = k
                 /\ \A m \in 1..k : rw[row[i].path[k]].path[m] = row[i].path[m]
      <4>1. row[i].path[k] \in Stored
        BY <1>7, <2>1 DEF Spine
      <4>2. rw[row[i].path[k]].path = row[row[i].path[k]].path
        BY <1>14, <2>1, <4>1
      <4> QED
        BY <1>15, <2>1, <4>1, <4>2 DEF Spine
    <3> QED
      BY <2>1, <3>1, <3>2 DEF Spine
  <2>3. Spine(rw, x)
    <3>1. rw[x].path = c.path /\ rw[x].parent = p
      BY <1>10, <1>13
    <3>2. Len(c.path) <= MaxDepth
      <4>1. c.path # << >>
        BY <1>7, <1>11, <2>1
      <4>2. row' = rw /\ rw[x].path # row[x].path
        BY <1>6, <1>8, <3>1, <4>1 DEF Apply, Absent
      <4> QED
        BY <1>2, <1>8, <3>1, <4>2 DEF PathCheck
    <3>3. CASE p = None
      <4>1. Len(rw[x].path) = 1 /\ rw[x].path[1] = x /\ rw[x].parent = None
        BY <1>11, <3>1, <3>3
      <4>2. x \in StoredIn(rw) /\ 1..1 = {1}
        BY <1>15
      <4> HIDE DEF x
      <4> QED
        BY <3>1, <3>2, <4>1, <4>2 DEF Spine
    <3>4. CASE p # None
      <4>1. p \in Stored /\ Len(row[p].path) \in Nat /\ Len(row[p].path) >= 1
        BY <1>2, <2>1, <3>4 DEF Spine
      <4>2. PICK n \in Nat : n = Len(row[p].path)
        BY <4>1
      <4>3. /\ Len(c.path) = n + 1 /\ n >= 1 /\ c.path[n + 1] = x
            /\ \A k \in 1..n : c.path[k] = row[p].path[k]
        BY <1>11, <3>4, <4>1, <4>2
      <4>4. c.path[n] = p
        <5>1. Spine(row, p)
          BY <2>1, <4>1
        <5>2. row[p].path[n] = p
          BY <4>2, <5>1 DEF Spine
        <5>3. n \in 1..n
          BY <4>3
        <5> QED
          BY <4>3, <5>2, <5>3
      <4>5. ASSUME NEW k \in 1..(n + 1)
            PROVE  /\ c.path[k] \in StoredIn(rw)
                   /\ Len(rw[c.path[k]].path) = k
                   /\ \A m \in 1..k : rw[c.path[k]].path[m] = c.path[m]
        <5>1. CASE k = n + 1
          BY <1>15, <3>1, <4>3, <5>1
        <5>2. CASE k \in 1..n
          <6>1. /\ c.path[k] = row[p].path[k]
                /\ \A m \in 1..k : c.path[m] = row[p].path[m]
            BY <4>3, <5>2
          <6>2. /\ c.path[k] \in Stored /\ Len(row[c.path[k]].path) = k
                /\ \A m \in 1..k : row[c.path[k]].path[m] = row[p].path[m]
            <7>1. Spine(row, p) /\ k \in 1..Len(row[p].path)
              BY <2>1, <4>1, <4>2, <5>2
            <7>2. /\ row[p].path[k] \in Stored /\ Len(row[row[p].path[k]].path) = k
                  /\ \A m \in 1..k : row[row[p].path[k]].path[m] = row[p].path[m]
              BY <1>7, <7>1 DEF Spine
            <7> QED
              BY <6>1, <7>2
          <6>3. rw[c.path[k]].path = row[c.path[k]].path
            BY <1>14, <2>1, <6>2
          <6> QED
            BY <1>15, <6>1, <6>2, <6>3
        <5> QED
          BY <5>1, <5>2
      <4>6. Len(c.path) \in 1..MaxDepth /\ Len(c.path) >= 2 /\ Len(c.path) - 1 = n
        BY <3>2, <4>3
      <4>7. \A k \in 1..Len(rw[x].path) :
               /\ rw[x].path[k] \in StoredIn(rw)
               /\ Len(rw[rw[x].path[k]].path) = k
               /\ \A m \in 1..k : rw[rw[x].path[k]].path[m] = rw[x].path[m]
        BY <3>1, <4>3, <4>5
      <4>8. /\ Len(rw[x].path) \in 1..MaxDepth /\ Len(rw[x].path) >= 2
            /\ rw[x].path[Len(rw[x].path)] = x /\ rw[x].path[Len(rw[x].path) - 1] = p
            /\ rw[x].parent = p
        BY <3>1, <4>3, <4>4, <4>6
      <4> QED
        BY <3>4, <4>7, <4>8 DEF Spine
    <3> QED
      BY <3>3, <3>4
  <2> QED
    BY <1>15, <2>2, <2>3 DEF PathsGood
<1>18. Evolves(rw, {x})
  BY <1>8, <1>10, <1>13, <1>14 DEF Evolves, SameContent, Stored, Absent
<1>19. Marks(rw, {c.path})
  <2>1. Dirty({c.path}) = AncestorLabels(c.path)
    BY DEF Dirty
  <2> QED
    BY <1>7, <1>8, <1>13, <1>14, <2>1 DEF Marks
<1>20. Answered({x}) /\ links' \subseteq Links
  <2>1. \A s \in Requests \ {r} : req[s].kind = "create" => req[s].item \notin {x}
    BY <1>2 DEF IInv, RequestsInv, OneCreator
  <2> QED
    BY <1>2, <2>1, AnswerOnly DEF IInv, TypeOK
<1> QED
  BY <1>6, <1>16, <1>17, <1>18, <1>19, <1>20, FlushKeeps


-----------------------------------------------------------------------------
(* applyReparent *)

LEMMA MovedRows ==
  ASSUME TableInv(row), PathsGood(row), NEW x \in Stored, NEW p \in Stored \cup {None},
         NEW s \in Nat, NEW mw, mw = Moved(x, p, s)
  PROVE  /\ mw \in [Items -> Rows]
         /\ \A j \in Items \ Subtree(x) : mw[j] = row[j]
         /\ \A j \in Subtree(x) : /\ Graft(mw[j].path, row[j].path, Base(p), Len(row[x].path))
                                  /\ mw[j].parent = IF j = x THEN p ELSE row[j].parent
                                  /\ mw[j].state = row[j].state
                                  /\ mw[j].version = row[j].version + 1
<1> DEFINE depth == Len(row[x].path)
           b == Base(p)
           w(j) == [row[j] EXCEPT !.parent = IF j = x THEN p ELSE @,
                                  !.path = b \o SubSeq(@, depth, Len(@)),
                                  !.version = @ + 1,
                                  !.changeSeq = s]
<1>1. row \in [Items -> Rows] /\ Stored = StoredIn(row) /\ x \in Items /\ Stored \subseteq Items
  BY DEF TableInv, Stored, StoredIn
<1>2. b \in Seq(Items)
  <2>1. p # None => row[p].path \in Seq(Items)
    BY <1>1, RowParts
  <2> QED
    BY <2>1 DEF Base
<1>3. mw = [j \in Items |-> IF j \notin Subtree(x) THEN row[j] ELSE w(j)]
  BY DEF Moved, Base
<1>4. ASSUME NEW j \in Subtree(x)
      PROVE  /\ w(j) \in Rows
             /\ Graft(w(j).path, row[j].path, b, depth)
             /\ w(j).parent = IF j = x THEN p ELSE row[j].parent
             /\ w(j).state = row[j].state /\ w(j).version = row[j].version + 1
  <2>1. j \in Items /\ row[j] \in Rows
    BY <1>1 DEF Subtree
  <2>2. row[j].path \in Seq(Items) /\ row[j].version \in Nat /\ row[j].parent \in Items \cup {None}
    BY <1>1, <2>1, RowParts
  <2>3. depth \in 1..Len(row[j].path)
    <3>1. Spine(row, x) /\ Under(row[j].path, row[x].path)
      BY <1>1 DEF PathsGood, Subtree
    <3> QED
      BY <2>2, <3>1 DEF Spine, Under
  <2>4. PICK t : t = b \o SubSeq(row[j].path, depth, Len(row[j].path))
    OBVIOUS
  <2> HIDE DEF b, depth
  <2>5. Graft(t, row[j].path, b, depth)
    BY <1>2, <2>2, <2>3, <2>4, Concatenation
  <2>6. t \in Seq(Items)
    BY <2>5 DEF Graft
  <2>7. w(j) = [row[j] EXCEPT !.parent = IF j = x THEN p ELSE @, !.path = t,
                              !.version = @ + 1, !.changeSeq = s]
    BY <2>4
  <2>8. (IF j = x THEN p ELSE row[j].parent) \in Items \cup {None}
    BY <1>1, <2>2
  <2>9. w(j) \in Rows
    <3>1. PICK v : v = IF j = x THEN p ELSE row[j].parent
      OBVIOUS
    <3>2. w(j) = [row[j] EXCEPT !.parent = v, !.path = t, !.version = @ + 1, !.changeSeq = s]
      BY <2>7, <3>1
    <3>3. v \in Items \cup {None} /\ row[j].version + 1 \in Nat
      BY <2>2, <2>8, <3>1
    <3>4. s \in Nat
      OBVIOUS
    <3>5. \A o \in Rows : o.version + 1 \in Nat =>
             [o EXCEPT !.parent = v, !.path = t, !.version = @ + 1, !.changeSeq = s] \in Rows
      BY <2>6, <3>3, <3>4 DEF Rows
    <3> HIDE DEF w
    <3> QED
      BY <2>1, <3>2, <3>3, <3>5
  <2>10. /\ w(j).path = t /\ w(j).parent = IF j = x THEN p ELSE row[j].parent
         /\ w(j).state = row[j].state /\ w(j).version = row[j].version + 1
    BY <2>1, <2>7 DEF Rows
  <2> QED
    BY <2>5, <2>9, <2>10
<1> HIDE DEF w
<1>5. Subtree(x) \subseteq Items
  BY <1>1 DEF Subtree
<1>6. mw \in [Items -> Rows]
  BY <1>1, <1>3, <1>4
<1>7. /\ \A j \in Items \ Subtree(x) : mw[j] = row[j]
      /\ \A j \in Subtree(x) : mw[j] = w(j)
  BY <1>3, <1>5
<1> QED
  BY <1>4, <1>6, <1>7

LEMMA MoveInv == ASSUME IInv, NEW r \in Requests, FlushMove(r) PROVE IInv'
<1> DEFINE q == req[r]
           x == req[r].item
           p == req[r].other
<1>1. PICK spread \in Respread :
         LET rw == MaybeRespread(spread, Moved(x, p, seqCounter + 1))
         IN Apply(rw, MoveTouches(x, rw), 1)
  BY DEF FlushMove
<1>2. /\ q.kind = "move" /\ row[x].state = "live" /\ MoveOK(x, p)
      /\ PathCheck(row') /\ Answer(r) /\ links' = links
  BY DEF FlushMove, ExpectedVersion
<1>3. PICK mw : mw = Moved(x, p, seqCounter + 1)
  OBVIOUS
<1>4. PICK rw : rw = MaybeRespread(spread, mw)
  OBVIOUS
<1>5. Apply(rw, MoveTouches(x, rw), 1) /\ row' = rw
  BY <1>1, <1>3, <1>4 DEF Apply
<1>6. /\ TableInv(row) /\ PathsGood(row) /\ row \in [Items -> Rows] /\ seqCounter + 1 \in Nat
      /\ Stored = StoredIn(row) /\ p \in Items \cup {None} /\ Stored \subseteq Items
  BY DEF IInv, TableInv, TypeOK, Stored, StoredIn
<1>7. x \in Items /\ x \in Stored
  BY <1>2 DEF IInv, RequestsInv, Seen, Stored
<1>8. p \in Stored \cup {None} /\ (p # None => ~ Under(row[p].path, row[x].path))
  BY <1>2, <1>6 DEF MoveOK, Live, Stored
<1> HIDE DEF x, p, q
<1>9. /\ mw \in [Items -> Rows]
      /\ \A j \in Items \ Subtree(x) : mw[j] = row[j]
      /\ \A j \in Subtree(x) : /\ Graft(mw[j].path, row[j].path, Base(p), Len(row[x].path))
                               /\ mw[j].parent = IF j = x THEN p ELSE row[j].parent
                               /\ mw[j].state = row[j].state
                               /\ mw[j].version = row[j].version + 1
  BY <1>3, <1>6, <1>7, <1>8, MovedRows
<1>10. Respreads(rw, mw)
  BY <1>4, <1>9, RespreadKeeps
<1>11. rw \in [Items -> Rows] /\ \A j \in Items : rw[j].state = row[j].state
  BY <1>9, <1>10 DEF Respreads, SameContent
<1>12. StoredIn(rw) = Stored
  BY <1>6, <1>11 DEF StoredIn
<1>13. \A j \in Items \ Subtree(x) : /\ SameContent(rw[j], row[j])
                                     /\ row[j].version <= rw[j].version
                                     /\ j \notin Stored => rw[j] = row[j]
  <2>1. StoredIn(mw) = Stored
    BY <1>10, <1>12 DEF Respreads
  <2> QED
    BY <1>9, <1>10, <2>1 DEF Respreads
<1>14. \A j \in Subtree(x) : /\ j \in Stored /\ j \in Items
                             /\ Graft(rw[j].path, row[j].path, Base(p), Len(row[x].path))
                             /\ rw[j].parent = IF j = x THEN p ELSE row[j].parent
                             /\ row[j].version < rw[j].version
  <2> TAKE j \in Subtree(x)
  <2>1. j \in Stored /\ j \in Items
    BY <1>6 DEF Subtree
  <2>2. row[j].version \in Nat /\ rw[j].version \in Nat /\ mw[j].version \in Nat
    BY <1>6, <1>9, <1>11, <2>1, RowParts
  <2>3. /\ mw[j].version <= rw[j].version /\ rw[j].path = mw[j].path /\ rw[j].parent = mw[j].parent
    BY <1>10, <2>1 DEF Respreads, SameContent
  <2> QED
    BY <1>9, <2>1, <2>2, <2>3
<1>15. TableInv(rw)
  <2>1. ASSUME NEW j \in Items, rw[j].state = "absent"
        PROVE  rw[j] = Absent
    <3>1. row[j].state = "absent" /\ j \notin Stored
      BY <1>11, <2>1 DEF Stored
    <3> QED
      BY <1>6, <1>13, <1>14, <3>1 DEF TableInv
  <2>2. ASSUME NEW j \in Items, rw[j].state = "gone"
        PROVE  rw[j].parent = None
    <3>1. row[j].state = "gone" /\ j \notin Stored
      BY <1>11, <2>2 DEF Stored
    <3> QED
      BY <1>6, <1>13, <1>14, <3>1 DEF TableInv
  <2> QED
    BY <1>6, <1>11, <1>12, <2>1, <2>2 DEF TableInv
<1>16. Grafted(rw, x, p)
  <2>1. \A j \in Items : rw[j].path # row[j].path => Len(rw[j].path) <= MaxDepth
    BY <1>2, <1>5 DEF PathCheck
  <2>2. \A j \in Items \ Subtree(x) : rw[j].path = row[j].path /\ rw[j].parent = row[j].parent
    BY <1>13 DEF SameContent
  <2> QED
    BY <1>6, <1>12, <1>14, <2>1, <2>2 DEF Grafted
<1>17. PathsGood(rw)
  BY <1>6, <1>7, <1>8, <1>11, <1>16, MovedPathsGood
<1>18. Evolves(rw, {})
  <2>1. ASSUME NEW j \in Items
        PROVE  /\ row[j].version <= rw[j].version
               /\ SameContent(rw[j], row[j]) \/ row[j].version < rw[j].version
    <3>1. row[j].version \in Nat /\ rw[j].version \in Nat
      BY <1>6, <1>11, RowParts
    <3> QED
      BY <1>13, <1>14, <3>1
  <2>2. ASSUME NEW j \in Items, row[j].state = "absent"
        PROVE  rw[j] = row[j]
    BY <1>13, <1>14, <2>2 DEF Stored
  <2> QED
    BY <1>11, <2>1, <2>2 DEF Evolves
<1>19. Marks(rw, MoveTouches(x, rw))
  <2> SUFFICES ASSUME NEW j \in Items, ~ SameContent(rw[j], row[j])
               PROVE  /\ AncestorLabels(row[j].path) \subseteq Dirty(MoveTouches(x, rw))
                      /\ AncestorLabels(rw[j].path) \subseteq Dirty(MoveTouches(x, rw))
    BY DEF Marks
  <2>1. j \in Subtree(x)
    BY <1>13
  <2>2. /\ AncestorLabels(rw[j].path) \subseteq Dirty(MoveTouches(x, rw))
        /\ AncestorLabels(row[x].path) \subseteq Dirty(MoveTouches(x, rw))
    BY <2>1 DEF MoveTouches, Dirty
  <2> DEFINE s == row[j].path
             t == rw[j].path
             b == Base(p)
             depth == Len(row[x].path)
  <2>3. /\ Len(s) \in Nat /\ depth \in Nat /\ depth <= Len(s) /\ depth >= 1 /\ Len(b) \in Nat
        /\ \A k \in 1..depth : s[k] = row[x].path[k]
    <3>1. Spine(row, x) /\ Under(row[j].path, row[x].path)
      BY <1>6, <1>7, <2>1 DEF PathsGood, Subtree
    <3>2. Len(s) \in Nat /\ depth \in Nat
      BY <1>6, <1>7, RowParts
    <3>3. Len(b) \in Nat
      <4>1. p # None => Len(row[p].path) \in Nat
        BY <1>6, RowParts
      <4> QED
        BY <4>1 DEF Base
    <3> QED
      BY <3>1, <3>2, <3>3 DEF Spine, Under
  <2>4. Graft(t, s, b, depth)
    BY <1>14, <2>1
  <2>5. ASSUME NEW k \in 1..(Len(s) - 1)
        PROVE  s[k] \in AncestorLabels(row[x].path) \cup AncestorLabels(t)
    <3>1. CASE k < depth
      <4>1. k \in 1..depth /\ k \in 1..(Len(row[x].path) - 1)
        BY <2>3, <3>1
      <4> QED
        BY <2>3, <4>1 DEF AncestorLabels
    <3>2. CASE k >= depth
      <4> HIDE DEF s, t, b, depth
      <4>1. k \in depth..Len(s) /\ Len(b) + k - depth + 1 \in 1..(Len(b) + Len(s) - depth)
        BY <2>3, <3>2
      <4>2. t[Len(b) + k - depth + 1] = s[k] /\ Len(t) = Len(b) + Len(s) - depth + 1
        BY <2>4, <4>1 DEF Graft
      <4>3. Len(t) - 1 = Len(b) + Len(s) - depth
        BY <2>3, <4>2
      <4>4. PICK n \in 1..(Len(t) - 1) : n = Len(b) + k - depth + 1
        BY <4>1, <4>3
      <4>5. t[n] = s[k]
        BY <4>2, <4>4
      <4> QED
        BY <4>5 DEF AncestorLabels
    <3> QED
      BY <3>1, <3>2, <2>3
  <2>6. AncestorLabels(s) \subseteq AncestorLabels(row[x].path) \cup AncestorLabels(t)
    BY <2>5 DEF AncestorLabels
  <2> QED
    BY <2>2, <2>6
<1>20. Answered({}) /\ links' \subseteq Links
  BY <1>2, AnswerOnly DEF IInv, TypeOK
<1> QED
  BY <1>5, <1>15, <1>17, <1>18, <1>19, <1>20, FlushKeeps

-----------------------------------------------------------------------------
(* HardDeleteItem: the foreign key on parent_id is what keeps every other  *)
(* path, for a label above the last one is the next one's parent.          *)

LEMMA HardDeleteInv == ASSUME IInv, NEW x \in Items, HardDelete(x) PROVE IInv'
<1>1. PICK c : c = [Absent EXCEPT !.state = "gone"]
  OBVIOUS
<1>2. PICK rw : rw = [row EXCEPT ![x] = c]
  OBVIOUS
<1>3. /\ Apply(rw, {row[x].path}, 1) /\ x \in Stored /\ links' = links /\ req' = req
      /\ \A j \in Stored : row[j].parent # x
  BY <1>1, <1>2 DEF HardDelete
<1>4. /\ TableInv(row) /\ PathsGood(row) /\ row \in [Items -> Rows] /\ Stored = StoredIn(row)
  BY DEF IInv, TableInv, Stored, StoredIn
<1>5. c \in Rows /\ c.state = "gone" /\ c.parent = None
  <2>1. Absent \in Rows
    BY DEF Absent, Rows, RowStates
  <2> QED
    BY <1>1, <2>1 DEF Rows, RowStates, Absent
<1>6. rw \in [Items -> Rows] /\ rw[x] = c /\ \A i \in Items \ {x} : rw[i] = row[i]
  BY <1>2, <1>4, <1>5
<1>7. StoredIn(rw) = Stored \ {x}
  BY <1>4, <1>5, <1>6 DEF StoredIn
<1>8. TableInv(rw)
  <2>1. IsFiniteSet(StoredIn(rw))
    BY <1>4, <1>7, FS_Subset DEF TableInv
  <2> QED
    BY <1>4, <1>5, <1>6, <2>1 DEF TableInv
<1>9. \A i \in Stored : Spine(row, i) /\ i \in Items /\ Len(row[i].path) \in Nat
  BY <1>4, RowParts DEF PathsGood, StoredIn
<1>10. ASSUME NEW j \in Stored \ {x}, NEW k \in 1..Len(row[j].path)
       PROVE  row[j].path[k] # x
  <2> SUFFICES ASSUME row[j].path[k] = x PROVE FALSE
    OBVIOUS
  <2>1. Spine(row, j) /\ Len(row[j].path) \in Nat /\ row[j].path[Len(row[j].path)] = j
    BY <1>9 DEF Spine
  <2>2. k + 1 \in 1..Len(row[j].path) /\ k \in 1..(k + 1) /\ k \in Nat
    BY <2>1
  <2>3. PICK y : y = row[j].path[k + 1]
    OBVIOUS
  <2>4. y \in Stored /\ Len(row[y].path) = k + 1 /\ row[y].path[k] = x
    BY <1>4, <2>1, <2>2, <2>3 DEF Spine
  <2>5. row[y].parent # None /\ row[y].path[Len(row[y].path) - 1] = row[y].parent
    BY <1>9, <2>2, <2>4 DEF Spine
  <2>6. Len(row[y].path) - 1 = k
    BY <2>2, <2>4
  <2> QED
    BY <1>3, <2>4, <2>5, <2>6
<1>11. PathsGood(rw)
  <2> SUFFICES ASSUME NEW j \in Stored \ {x} PROVE Spine(rw, j)
    BY <1>7 DEF PathsGood
  <2>1. rw[j] = row[j] /\ Spine(row, j)
    BY <1>6, <1>9
  <2>2. ASSUME NEW k \in 1..Len(row[j].path)
        PROVE  /\ row[j].path[k] \in StoredIn(rw)
               /\ Len(rw[row[j].path[k]].path) = k
               /\ \A m \in 1..k : rw[row[j].path[k]].path[m] = row[j].path[m]
    <3>1. row[j].path[k] \in Stored /\ row[j].path[k] # x
      BY <1>4, <1>10, <2>1 DEF Spine
    <3>2. rw[row[j].path[k]] = row[row[j].path[k]]
      BY <1>6, <1>9, <3>1
    <3> QED
      BY <1>7, <2>1, <3>1, <3>2 DEF Spine
  <2> QED
    BY <2>1, <2>2 DEF Spine
<1>12. \A i \in Items : row[i].version \in Nat
  BY <1>4, RowParts
<1>13. Evolves(rw, {})
  BY <1>3, <1>4, <1>5, <1>6, <1>12 DEF Evolves, SameContent, StoredIn
<1>14. Marks(rw, {row[x].path})
  <2>1. Dirty({row[x].path}) = AncestorLabels(row[x].path)
    BY DEF Dirty
  <2>2. x \notin StoredIn(rw) /\ \A i \in Items \ {x} : SameContent(rw[i], row[i])
    BY <1>6, <1>7 DEF SameContent
  <2> QED
    BY <2>1, <2>2 DEF Marks
<1>15. Answered({}) /\ links' \subseteq Links
  BY <1>3, NoneAnswered DEF IInv, TypeOK
<1> QED
  BY <1>3, <1>8, <1>11, <1>13, <1>14, <1>15, FlushKeeps


-----------------------------------------------------------------------------
(* Reads and refusals change a request only *)

(* The rows stay; the request r becomes one that is good in them. *)
LEMMA RequestOnly ==
  ASSUME IInv, NEW r \in Requests, UNCHANGED <<row, rollup, links, seqCounter>>,
         NEW q \in [kind : RequestKinds, item : Items \cup {None}, other : Items \cup {None},
                    link : Links \cup {NoLink}, version : Nat, seen : Rows],
         req' = [req EXCEPT ![r] = q], Seen(row, q),
         q.kind = "create" => \A s \in Requests : req[s].kind = "create" => req[s].item # q.item
  PROVE  IInv'
<1>1. TypeOK'
  BY DEF IInv, TypeOK
<1>2. req'[r] = q /\ \A s \in Requests \ {r} : req'[s] = req[s]
  BY DEF IInv, TypeOK
<1>3. \A s \in Requests : Seen(row, req'[s])
  BY <1>2 DEF IInv, RequestsInv
<1>4. OneCreator'
  BY <1>2 DEF IInv, RequestsInv, OneCreator
<1>5. RequestsInv'
  BY <1>3, <1>4 DEF RequestsInv
<1>6. TableInv(row)' /\ PathsGood(row)' /\ RollupsGood(row, rollup)'
  BY DEF IInv
<1> QED
  BY <1>1, <1>5, <1>6 DEF IInv

(* What the client is shown is what the row holds. *)
LEMMA AskInv ==
  ASSUME IInv, NEW r \in Requests, UNCHANGED <<row, rollup, links, seqCounter>>,
         NEW kind \in RequestKinds \ {"free"}, NEW i \in Items, NEW other \in Items \cup {None},
         NEW l \in Links \cup {NoLink},
         req' = [req EXCEPT ![r] = [kind |-> kind, item |-> i, other |-> other, link |-> l,
                                    version |-> row[i].version, seen |-> row[i]]],
         kind = "create" => i \notin Reserved /\ row[i].state = "absent"
  PROVE  IInv'
<1>1. row[i] \in Rows /\ row[i].version \in Nat
  BY RowParts DEF IInv, TypeOK
<1>2. PICK q : q = [kind |-> kind, item |-> i, other |-> other, link |-> l,
                    version |-> row[i].version, seen |-> row[i]]
  OBVIOUS
<1>3. /\ q \in [kind : RequestKinds, item : Items \cup {None}, other : Items \cup {None},
                link : Links \cup {NoLink}, version : Nat, seen : Rows]
      /\ q.kind = kind /\ q.item = i /\ q.version = row[i].version /\ q.seen = row[i]
  BY <1>1, <1>2
<1>4. Seen(row, q)
  BY <1>1, <1>3 DEF Seen, SameContent
<1>5. q.kind = "create" => \A s \in Requests : req[s].kind = "create" => req[s].item # q.item
  BY <1>3 DEF Reserved
<1>6. req' = [req EXCEPT ![r] = q]
  BY <1>2
<1> QED
  BY <1>3, <1>4, <1>5, <1>6, RequestOnly

LEMMA ReadInv == ASSUME IInv, NEW r \in Requests, Read(r) PROVE IInv'
<1>1. UNCHANGED <<row, rollup, links, seqCounter>>
  BY DEF Read
<1>2. Live \subseteq Items /\ NoLink \in Links \cup {NoLink} /\ links \subseteq Links
  BY DEF Live, IInv, TypeOK
<1>3. ASSUME ReadCreate(r) PROVE IInv'
  <2>1. PICK i \in Items \ Reserved, p \in Live \cup {None} :
           row[i].state = "absent" /\ Ask(r, "create", i, p)
    BY <1>3 DEF ReadCreate
  <2> QED
    BY <1>1, <1>2, <2>1, AskInv DEF Ask, RequestKinds
<1>4. ASSUME NEW k \in {"update", "delete", "comment"}, ReadItem(r, k) PROVE IInv'
  <2>1. PICK i \in Items : Ask(r, k, i, None)
    BY <1>2, <1>4 DEF ReadItem
  <2>2. k \in RequestKinds \ {"free"} /\ k # "create" /\ None \in Items \cup {None}
    BY <1>4 DEF RequestKinds
  <2> QED
    BY <1>1, <1>2, <2>1, <2>2, AskInv DEF Ask
<1>5. ASSUME ReadMove(r) \/ ReadLink(r) PROVE IInv'
  <2>1. PICK k \in {"move", "link"}, i \in Items, j \in Items \cup {None} : Ask(r, k, i, j)
    BY <1>2, <1>5 DEF ReadMove, ReadLink
  <2>2. k \in RequestKinds \ {"free"} /\ k # "create"
    BY DEF RequestKinds
  <2> QED
    BY <1>1, <1>2, <2>1, <2>2, AskInv DEF Ask
<1>6. ASSUME ReadUnlink(r) PROVE IInv'
  <2>1. PICK l \in links, i \in Items :
           req' = [req EXCEPT ![r] = [kind |-> "unlink", item |-> i, other |-> None, link |-> l,
                                      version |-> row[i].version, seen |-> row[i]]]
    BY <1>6 DEF ReadUnlink
  <2>2. l \in Links \cup {NoLink} /\ None \in Items \cup {None}
    BY <1>2
  <2>3. "unlink" \in RequestKinds \ {"free"} /\ "unlink" # "create"
    BY DEF RequestKinds
  <2> QED
    BY <1>1, <2>1, <2>2, <2>3, AskInv
<1> QED
  BY <1>3, <1>4, <1>5, <1>6 DEF Read

LEMMA RefuseInv == ASSUME IInv, NEW r \in Requests, Refuse(r) PROVE IInv'
<1>1. Free \in [kind : RequestKinds, item : Items \cup {None}, other : Items \cup {None},
                link : Links \cup {NoLink}, version : Nat, seen : Rows]
  BY DEF Free, RequestKinds, Absent, Rows, RowStates
<1>2. Free.kind = "free" /\ Seen(row, Free)
  BY DEF Free, Seen
<1> QED
  BY <1>1, <1>2, RequestOnly DEF Refuse, Answer

-----------------------------------------------------------------------------
LEMMA InitInv == Init => IInv
<1> SUFFICES ASSUME Init PROVE IInv
  OBVIOUS
<1>1. Absent \in Rows /\ Absent.state = "absent"
  BY DEF Absent, Rows, RowStates
<1>2. StoredIn(row) = {}
  BY <1>1 DEF Init, StoredIn
<1>3. Free \in [kind : RequestKinds, item : Items \cup {None}, other : Items \cup {None},
                link : Links \cup {NoLink}, version : Nat, seen : Rows]
  BY <1>1 DEF Free, RequestKinds
<1>4. TypeOK
  BY <1>1, <1>3 DEF Init, TypeOK, ZeroRollup
<1>5. TableInv(row) /\ PathsGood(row) /\ RollupsGood(row, rollup)
  BY <1>1, <1>2, FS_EmptySet DEF Init, TableInv, PathsGood, RollupsGood
<1>6. RequestsInv
  BY DEF Init, RequestsInv, OneCreator, Seen, Free
<1> QED
  BY <1>4, <1>5, <1>6 DEF IInv

LEMMA NextInv == IInv /\ [Next]_vars => IInv'
<1> SUFFICES ASSUME IInv, [Next]_vars PROVE IInv'
  OBVIOUS
<1>1. CASE UNCHANGED vars
  BY <1>1 DEF vars, IInv, TypeOK, RequestsInv, OneCreator
<1>2. ASSUME NEW r \in Requests, Read(r) \/ Flush(r) \/ Refuse(r) PROVE IInv'
  BY <1>2, ReadInv, RefuseInv, CreateInv, UpdateInv, DeleteInv, MoveInv, LinksInv, CommentInv
     DEF Flush
<1> QED
  BY <1>1, <1>2, HardDeleteInv, RebalanceInv DEF Next

LEMMA Invariance == Spec => []IInv
BY InitInv, NextInv, PTL DEF Spec

(* The schema: whatever requests meet, rows keep their shape and no count  *)
(* that RecomputeRollup stores is negative.                                *)
THEOREM StoreTypeCorrect == Spec => []TypeOK
<1>1. IInv => TypeOK
  BY DEF IInv
<1> QED
  BY <1>1, Invariance, PTL

(* SPEC 5.3, applyInsert, ReparentSubtree and HardDeleteItem: paths and    *)
(* parents agree and no item is its own ancestor, whatever the requests    *)
(* had read before the lock.                                               *)
THEOREM PathsFollowParents == Spec => []PathsAgree
<1>1. IInv => PathsAgree
  BY GoodPathsAgree DEF IInv
<1> QED
  BY <1>1, Invariance, PTL

LEMMA SeenIsContent == IInv => VersionNamesContent
<1> SUFFICES ASSUME IInv, NEW r \in Requests, req[r].kind \notin {"free", "create"},
                    ExpectedVersion(req[r])
             PROVE  Content(row[req[r].item]) = Content(req[r].seen)
  BY DEF VersionNamesContent
<1>1. SameContent(row[req[r].item], req[r].seen)
  BY DEF IInv, RequestsInv, Seen, ExpectedVersion
<1> QED
  BY <1>1 DEF SameContent, Content

(* SPEC 5.4: a version, once handed to a client, stands for one content of *)
(* the item, ancestry included; every statement that changes it bumps it.  *)
THEOREM VersionsNameContent == Spec => []VersionNamesContent
BY SeenIsContent, Invariance, PTL

(* SPEC 5.4: no flush writes over content its client has not seen.  The    *)
(* check under the lock and VersionsNameContent give it.                   *)
THEOREM NoUpdateLost == Spec => NoLostUpdate
<1> DEFINE P == \A r \in Requests :
                   LET q == req[r] IN
                   q.kind \in {"update", "delete", "move"} /\ req'[r].kind = "free"
                   /\ seqCounter' # seqCounter => Content(row[q.item]) = Content(q.seen)
<1>1. IInv /\ [Next]_vars => [P]_vars
  <2> SUFFICES ASSUME IInv, Next, NEW r \in Requests,
                      req[r].kind \in {"update", "delete", "move"},
                      req'[r].kind = "free", seqCounter' # seqCounter
               PROVE  Content(row[req[r].item]) = Content(req[r].seen)
    OBVIOUS
  <2>1. PICK s \in Requests : Flush(s)
    BY DEF Next, Read, Refuse, HardDelete, RebalanceProject
  <2>2. req' = [req EXCEPT ![s] = Free] /\ req \in [Requests -> [kind : RequestKinds,
           item : Items \cup {None}, other : Items \cup {None}, link : Links \cup {NoLink},
           version : Nat, seen : Rows]]
    BY <2>1 DEF Flush, FlushCreate, FlushUpdate, FlushDelete, FlushMove, FlushLink,
                FlushUnlink, FlushComment, Answer, IInv, TypeOK
  <2>3. r = s
    BY <2>2
  <2>4. ExpectedVersion(req[r])
    BY <2>1, <2>3 DEF Flush, FlushCreate, FlushUpdate, FlushDelete, FlushMove, FlushLink,
                      FlushUnlink, FlushComment
  <2> QED
    BY <2>4, SeenIsContent DEF VersionNamesContent
<1> QED
  BY <1>1, Invariance, PTL DEF Spec, NoLostUpdate

(* changeUnlink: the only row a step removes from item_link is the one the *)
(* request that is answered was shown.                                     *)
THEOREM UnlinksExact == Spec => UnlinkExact
<1> DEFINE P == \A l \in links \ links' : \E r \in Requests :
                   req[r].link = l /\ req'[r].kind = "free"
<1>1. IInv /\ [Next]_vars => [P]_vars
  <2> SUFFICES ASSUME IInv, Next, NEW l \in links \ links'
               PROVE  \E r \in Requests : req[r].link = l /\ req'[r].kind = "free"
    OBVIOUS
  <2>1. PICK s \in Requests : FlushUnlink(s)
    BY DEF Next, Read, Flush, FlushCreate, FlushUpdate, FlushDelete, FlushMove, FlushLink,
           FlushComment, Refuse, HardDelete, RebalanceProject
  <2>2. links' = links \ {req[s].link} /\ req' = [req EXCEPT ![s] = Free]
    BY <2>1 DEF FlushUnlink, Answer
  <2>3. req'[s].kind = "free"
    BY <2>2 DEF IInv, TypeOK, Free
  <2> QED
    BY <2>2, <2>3
<1> QED
  BY <1>1, Invariance, PTL DEF Spec, UnlinkExact


-----------------------------------------------------------------------------
(* By path and by parent: the rollups *)

(* The n-th ancestor as the paths give it. *)
Steps(i) == IF i \in Stored THEN Len(row[i].path) ELSE 1

ByPath(n) == [i \in Items |->
                IF n >= Steps(i) THEN None
                ELSE IF i \in Stored THEN row[i].path[Len(row[i].path) - n] ELSE i]

(* One step up by parent_id. *)
Up(f) == [i \in Items |-> IF f[i] = None THEN None ELSE row[f[i]].parent]

LEMMA PathStep ==
  ASSUME TableInv(row), PathsGood(row), NEW n \in Nat
  PROVE  /\ ByPath(0) = [i \in Items |-> i]
         /\ Up(ByPath(n)) = ByPath(n + 1)
<1>1. row \in [Items -> Rows] /\ Stored = StoredIn(row) /\ Stored \subseteq Items
  BY DEF TableInv, Stored, StoredIn
<1>2. \A i \in Stored : Spine(row, i) /\ Len(row[i].path) \in Nat /\ Len(row[i].path) >= 1
  BY <1>1, RowParts DEF PathsGood, Spine
<1>3. ByPath(0) = [i \in Items |-> i]
  <2>1. ASSUME NEW i \in Items
        PROVE  (IF 0 >= Steps(i) THEN None
                ELSE IF i \in Stored THEN row[i].path[Len(row[i].path) - 0] ELSE i) = i
    <3>1. CASE i \in Stored
      <4>1. Len(row[i].path) - 0 = Len(row[i].path) /\ row[i].path[Len(row[i].path)] = i
        BY <1>2, <3>1 DEF Spine
      <4>2. Steps(i) \in Nat /\ Steps(i) >= 1
        BY <1>2, <3>1 DEF Steps
      <4> QED
        BY <3>1, <4>1, <4>2
    <3>2. CASE i \notin Stored
      BY <3>2 DEF Steps
    <3> QED
      BY <3>1, <3>2
  <2> QED
    BY <2>1 DEF ByPath
<1>4. ASSUME NEW i \in Items
      PROVE  Up(ByPath(n))[i] = ByPath(n + 1)[i]
  <2>1. /\ Up(ByPath(n))[i] = IF ByPath(n)[i] = None THEN None ELSE row[ByPath(n)[i]].parent
        /\ ByPath(n)[i] = IF n >= Steps(i) THEN None
                          ELSE IF i \in Stored THEN row[i].path[Len(row[i].path) - n] ELSE i
        /\ ByPath(n + 1)[i] = IF n + 1 >= Steps(i) THEN None
                              ELSE IF i \in Stored THEN row[i].path[Len(row[i].path) - (n + 1)]
                              ELSE i
    BY DEF Up, ByPath
  <2>2. Steps(i) \in Nat
    BY <1>2 DEF Steps
  <2>3. CASE n >= Steps(i)
    BY <2>1, <2>2, <2>3
  <2>4. CASE n < Steps(i) /\ i \notin Stored
    <3>1. n = 0 /\ Steps(i) = 1
      BY <2>4 DEF Steps
    <3>2. row[i].state \in RowStates
      BY <1>1, RowParts
    <3>3. row[i].parent = None
      BY <2>4, <3>2 DEF Stored, RowStates, TableInv, Absent
    <3> QED
      BY <2>1, <2>4, <3>1, <3>3
  <2>5. CASE n < Steps(i) /\ i \in Stored
    <3>1. PICK len \in Nat : len = Len(row[i].path) /\ len = Steps(i) /\ n < len
      BY <1>2, <2>5 DEF Steps
    <3>2. PICK k \in 1..len : k = len - n
      BY <3>1
    <3>3. PICK a : a = row[i].path[k]
      OBVIOUS
    <3>4. /\ a \in Stored /\ Len(row[a].path) = k
          /\ \A m \in 1..k : row[a].path[m] = row[i].path[m]
      <4>1. Spine(row, i) /\ k \in 1..Len(row[i].path)
        BY <1>2, <2>5, <3>1, <3>2
      <4> QED
        BY <1>1, <3>3, <4>1 DEF Spine
    <3>5. ByPath(n)[i] = a /\ a # None /\ Up(ByPath(n))[i] = row[a].parent
      BY <1>1, <2>1, <2>5, <3>1, <3>2, <3>3, <3>4
    <3>6. CASE k = 1
      <4>1. row[a].parent = None
        BY <1>2, <3>4, <3>6 DEF Spine
      <4>2. n + 1 >= Steps(i)
        BY <3>1, <3>2, <3>6
      <4> QED
        BY <2>1, <3>5, <4>1, <4>2
    <3>7. CASE k > 1
      <4>1. row[a].parent # None /\ row[a].path[k - 1] = row[a].parent
        <5>1. Spine(row, a)
          BY <1>2, <3>4
        <5>2. row[a].parent # None
          BY <3>2, <3>4, <3>7, <5>1 DEF Spine
        <5> QED
          BY <3>4, <5>1, <5>2 DEF Spine
      <4>2. k - 1 \in 1..k /\ len - (n + 1) = k - 1 /\ ~ (n + 1 >= Steps(i))
        BY <3>1, <3>2, <3>7
      <4> QED
        BY <2>1, <2>5, <3>1, <3>4, <3>5, <4>1, <4>2
    <3> QED
      BY <3>2, <3>6, <3>7
  <2> QED
    BY <2>2, <2>3, <2>4, <2>5
<1>5. Up(ByPath(n)) = ByPath(n + 1)
  BY <1>4 DEF Up, ByPath
<1> QED
  BY <1>3, <1>5

(* Ascend is the function that its recursion describes: the paths are a    *)
(* solution, and there is no other.                                        *)
LEMMA AscendByPath ==
  ASSUME TableInv(row), PathsGood(row), NEW n \in 0..MaxDepth
  PROVE  Ascend[n] = ByPath(n)
<1> DEFINE Rec(f) == [m \in 0..MaxDepth |-> IF m = 0 THEN [i \in Items |-> i]
                                            ELSE Up(f[m - 1])]
           W == [m \in 0..MaxDepth |-> ByPath(m)]
<1>1. W = Rec(W)
  <2>1. ASSUME NEW m \in 0..MaxDepth
        PROVE  ByPath(m) = IF m = 0 THEN [i \in Items |-> i] ELSE Up(W[m - 1])
    <3>1. CASE m = 0
      BY <3>1, PathStep
    <3>2. CASE m # 0
      <4>1. m - 1 \in 0..MaxDepth /\ m - 1 \in Nat /\ (m - 1) + 1 = m
        BY <3>2
      <4>2. W[m - 1] = ByPath(m - 1)
        BY <4>1
      <4>3. Up(ByPath(m - 1)) = ByPath((m - 1) + 1)
        BY <4>1, PathStep
      <4> QED
        BY <3>2, <4>1, <4>2, <4>3
    <3> QED
      BY <3>1, <3>2
  <2> QED
    BY <2>1
<1>2. Ascend = CHOOSE f : f = Rec(f)
  BY DEF Ascend, Up
<1>3. Ascend = Rec(Ascend)
  BY <1>1, <1>2
<1>4. /\ Ascend[0] = [i \in Items |-> i]
      /\ \A m \in 0..MaxDepth : m # 0 => Ascend[m] = Up(Ascend[m - 1])
  <2>1. \A m \in 0..MaxDepth : Rec(Ascend)[m] = IF m = 0 THEN [i \in Items |-> i]
                                                ELSE Up(Ascend[m - 1])
    OBVIOUS
  <2>2. 0 \in 0..MaxDepth
    OBVIOUS
  <2> HIDE DEF Rec
  <2> QED
    BY <1>3, <2>1, <2>2
<1> HIDE DEF Rec, W
<1> DEFINE Bad == {m \in 0..MaxDepth : Ascend[m] # ByPath(m)}
<1>5. Bad = {}
  <2> SUFFICES ASSUME Bad # {} PROVE FALSE
    OBVIOUS
  <2>1. Bad \subseteq Nat
    OBVIOUS
  <2>2. PICK x \in Bad : \A y \in Bad : ~ (<<y, x>> \in OpToRel(<, Nat))
    <3> HIDE DEF Bad
    <3> QED
      BY <2>1, NatLessThanWellFounded, WFMin
  <2>3. \A y \in Bad : ~ (y < x)
    BY <2>1, <2>2 DEF OpToRel
  <2>4. x # 0
    BY <1>4, PathStep
  <2>5. x - 1 \in 0..MaxDepth /\ x - 1 \in Nat /\ (x - 1) + 1 = x /\ x - 1 < x
    BY <2>4
  <2>6. Ascend[x - 1] = ByPath(x - 1)
    BY <2>3, <2>5
  <2>7. Ascend[x] = Up(Ascend[x - 1])
    BY <1>4, <2>4
  <2>8. Up(ByPath(x - 1)) = ByPath((x - 1) + 1)
    BY <2>5, PathStep
  <2> QED
    BY <2>5, <2>6, <2>7, <2>8
<1> QED
  BY <1>5

(* So the items below another by parent_id are those below it by path. *)
LEMMA DescendsByPath ==
  ASSUME TableInv(row), PathsGood(row), NEW i \in Stored, NEW j \in Stored
  PROVE  Descends(j, i) <=> i \in AncestorLabels(row[j].path)
<1>1. row \in [Items -> Rows] /\ Stored = StoredIn(row) /\ i \in Items /\ j \in Items
  BY DEF TableInv, Stored, StoredIn
<1>2. PICK len \in Nat : len = Len(row[j].path) /\ len >= 1 /\ len <= MaxDepth
  BY <1>1, RowParts DEF PathsGood, Spine
<1>3. \A n \in 0..MaxDepth : Ascend[n][j] = IF n >= len THEN None ELSE row[j].path[len - n]
  BY <1>1, <1>2, AscendByPath DEF ByPath, Steps
<1>4. i # None
  BY <1>1
<1>5. ASSUME NEW n \in 1..MaxDepth, Ascend[n][j] = i
      PROVE  i \in AncestorLabels(row[j].path)
  <2>1. n < len /\ row[j].path[len - n] = i
    BY <1>2, <1>3, <1>4, <1>5
  <2>2. len - n \in 1..(len - 1)
    BY <1>2, <2>1
  <2> QED
    BY <1>2, <2>1, <2>2 DEF AncestorLabels
<1>6. ASSUME i \in AncestorLabels(row[j].path)
      PROVE  \E n \in 1..MaxDepth : Ascend[n][j] = i
  <2>1. PICK k \in 1..(len - 1) : row[j].path[k] = i
    BY <1>2, <1>6 DEF AncestorLabels
  <2>2. PICK n \in 1..MaxDepth : n = len - k
    BY <1>2
  <2>3. n \in 0..MaxDepth /\ ~ (n >= len) /\ len - n = k
    BY <1>2, <2>2
  <2>4. Ascend[n][j] = row[j].path[len - n]
    BY <1>3, <2>3
  <2> QED
    BY <2>1, <2>3, <2>4
<1> QED
  BY <1>5, <1>6 DEF Descends

(* ADR-005, ADR-013: recomputing the dirty ancestors by path keeps every   *)
(* stored rollup equal to a fresh aggregate by parent_id.  Marks is why    *)
(* the others need no recompute, and DescendsByPath why the path may stand *)
(* for the parents.                                                        *)
THEOREM RollupsExact == Spec => []RollupExact
<1>1. IInv => RollupExact
  <2> SUFFICES ASSUME IInv, NEW i \in Stored,
                      NEW below, below = {j \in Live : Descends(j, i)}
               PROVE  /\ rollup[i].descendants = Cardinality(below)
                      /\ rollup[i].done = Cardinality({j \in below : row[j].done})
    BY DEF RollupExact
  <2>1. /\ TableInv(row) /\ PathsGood(row) /\ row \in [Items -> Rows] /\ Stored = StoredIn(row)
        /\ rollup[i] = RecomputeRollup(row, i)
    BY DEF IInv, TableInv, Stored, StoredIn, RollupsGood
  <2>2. Live = {j \in Items : row[j].state = "live"} /\ Live \subseteq Stored
    BY DEF Live, Stored
  <2>3. LiveBelow(row, i) = {j \in Live : i \in AncestorLabels(row[j].path)}
    BY <2>1, <2>2, BelowByLabel
  <2>4. below = LiveBelow(row, i)
    BY <2>1, <2>2, <2>3, DescendsByPath
  <2>5. RecomputeRollup(row, i) = [descendants |-> Cardinality(below),
                                   done |-> Cardinality({j \in below : row[j].done})]
    BY <2>4 DEF RecomputeRollup
  <2> QED
    BY <2>1, <2>5
<1> QED
  BY <1>1, Invariance, PTL
=============================================================================
