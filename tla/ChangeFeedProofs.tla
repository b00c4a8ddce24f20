-------------------------- MODULE ChangeFeedProofs --------------------------
(***************************************************************************)
(* Proofs about ChangeFeed, for every number of writers, readers and       *)
(* items, every page size and every set of mutations; and, from the log's  *)
(* invariant, about FeedClient: what a page shows and where its feed       *)
(* stands, for every number of pages.                                      *)
(***************************************************************************)
EXTENDS FeedClient, FiniteSetTheorems, WellFoundedInduction, TLAPS

USE ConstantsAssumption

(* The row lock is what makes the counter safe: a transaction that has     *)
(* allocated owns the lock, and its block starts right above the committed *)
(* counter.  This is the part that GapFree needs to be inductive.          *)
LockInv == \A w \in Writers :
              /\ tx[w].phase # "idle" => tx[w].events # << >>
              /\ tx[w].phase \in {"allocated", "flushed"} =>
                    /\ seqLock = w
                    /\ tx[w].high = seqCounter + Len(tx[w].events)

(* everHidden really is a history of hidden. *)
HiddenInv == hidden \subseteq everHidden /\ everHidden \subseteq Restrictable

(* No cursor is ahead of the committed log. *)
CursorInv == \A r \in Readers : cursor[r] <= seqCounter

IInv == /\ TypeOK
        /\ LockInv
        /\ GapFree
        /\ ChangeSeqAgrees
        /\ HiddenInv
        /\ CursorInv
        /\ NothingSkipped
-----------------------------------------------------------------------------
(* A non-empty set of naturals with an upper bound has a greatest element. *)
LEMMA GreatestExists ==
  ASSUME NEW S \in SUBSET Nat, NEW n \in Nat, \A s \in S : s <= n, S # {}
  PROVE  \E s \in S : \A u \in S : u <= s
<1> DEFINE T == {n - s : s \in S}
<1>1. T \subseteq Nat /\ T # {}
  <2>1. \A s \in S : n - s \in Nat
    OBVIOUS
  <2>2. PICK s \in S : TRUE
    OBVIOUS
  <2>3. n - s \in T
    OBVIOUS
  <2> QED BY <2>1, <2>3
<1>2. \E x \in T : \A y \in T : ~ (<<y, x>> \in OpToRel(<, Nat))
  <2> HIDE DEF T
  <2> QED BY <1>1, NatLessThanWellFounded, WFMin
<1>3. PICK x \in T : \A y \in T : ~ (<<y, x>> \in OpToRel(<, Nat))
  BY <1>2
<1>4. \A y \in T : ~ (y < x)
  BY <1>1, <1>3 DEF OpToRel
<1>5. PICK s \in S : x = n - s
  OBVIOUS
<1>6. \A u \in S : u <= s
  BY <1>4, <1>5
<1> QED BY <1>6

(* The committed log is finite: its numbers are 1..seqCounter. *)
LEMMA LogFinite ==
  ASSUME TypeOK, GapFree
  PROVE  IsFiniteSet(changeEvent)
<1> DEFINE f == [e \in changeEvent |-> e.seq]
<1>1. f \in Injection(changeEvent, 1..seqCounter)
  BY DEF TypeOK, GapFree, Injection, IsInjective
<1>2. IsFiniteSet(1..seqCounter)
  BY FS_Interval DEF TypeOK
<1> QED BY <1>1, <1>2, FS_Injection

(* A page is the beginning of what lies after the cursor: an event that    *)
(* precedes a row of the page is in the page.                              *)
LEMMA PageIsInitial ==
  ASSUME TypeOK, GapFree, NEW c \in Nat,
         NEW last \in Page(c), NEW e \in After(c), e.seq <= last.seq
  PROVE  e \in Page(c)
<1> DEFINE Upto(g) == {f \in After(c) : f.seq <= g.seq}
<1>1. IsFiniteSet(Upto(last))
  <2>1. Upto(last) \subseteq changeEvent
    BY DEF After
  <2> QED BY <2>1, LogFinite, FS_Subset
<1>2. Upto(e) \subseteq Upto(last)
  BY DEF After, Page, TypeOK, Events
<1>3. /\ Cardinality(Upto(e)) <= Cardinality(Upto(last))
      /\ IsFiniteSet(Upto(e))
  BY <1>1, <1>2, FS_Subset
<1>4. Cardinality(Upto(e)) \in Nat /\ Cardinality(Upto(last)) \in Nat
  BY <1>1, <1>3, FS_CardinalityType
<1>5. Cardinality(Upto(last)) <= Limit
  BY DEF Page
<1>6. Cardinality(Upto(e)) <= Limit
  BY <1>3, <1>4, <1>5
<1> QED BY <1>6 DEF Page

(* The block of a transaction that has allocated: position k carries       *)
(* seqCounter + k, so its numbers are exactly the next Len(events) ones.   *)
LEMMA BlockNumbers ==
  ASSUME TypeOK, LockInv, NEW w \in Writers, tx[w].phase \in {"allocated", "flushed"}
  PROVE  /\ Len(tx[w].events) \in Nat \ {0}
         /\ DOMAIN tx[w].events = 1..Len(tx[w].events)
         /\ \A k \in DOMAIN tx[w].events : /\ EventSeq(tx[w], k) = seqCounter + k
                                           /\ tx[w].events[k] \in EventRows
         /\ tx[w].high = seqCounter + Len(tx[w].events)
<1>1. tx[w].events \in Seq(EventRows) /\ tx[w].events # << >> /\ seqCounter \in Nat
  BY DEF TypeOK, LockInv
<1>2. tx[w].high = seqCounter + Len(tx[w].events)
  BY DEF LockInv
<1>3. /\ Len(tx[w].events) \in Nat \ {0}
      /\ DOMAIN tx[w].events = 1..Len(tx[w].events)
      /\ \A k \in DOMAIN tx[w].events : tx[w].events[k] \in EventRows
  BY <1>1
<1>4. \A k \in DOMAIN tx[w].events : EventSeq(tx[w], k) = seqCounter + k
  BY <1>1, <1>2, <1>3 DEF EventSeq
<1> QED BY <1>2, <1>3, <1>4

(* What the events of such a block look like. *)
LEMMA BlockEvents ==
  ASSUME TypeOK, LockInv, NEW w \in Writers, tx[w].phase \in {"allocated", "flushed"}
  PROVE  /\ NewEvents(tx[w]) \subseteq Events
         /\ \A e \in NewEvents(tx[w]) :
               \E k \in 1..Len(tx[w].events) :
                  e = [seq |-> seqCounter + k, row |-> tx[w].events[k]]
         /\ \A k \in 1..Len(tx[w].events) :
               [seq |-> seqCounter + k, row |-> tx[w].events[k]] \in NewEvents(tx[w])
<1>1. /\ DOMAIN tx[w].events = 1..Len(tx[w].events)
      /\ Len(tx[w].events) \in Nat
      /\ \A k \in DOMAIN tx[w].events : /\ EventSeq(tx[w], k) = seqCounter + k
                                        /\ tx[w].events[k] \in EventRows
  BY BlockNumbers
<1>2. \A k \in 1..Len(tx[w].events) : seqCounter + k \in Nat
  BY <1>1 DEF TypeOK
<1> QED BY <1>1, <1>2 DEF NewEvents, Events

-----------------------------------------------------------------------------
LEMMA InitInv == Init => IInv
<1> SUFFICES ASSUME Init PROVE IInv
  OBVIOUS
<1>1. TypeOK
  BY DEF Init, TypeOK, Idle, Phases, Events
<1>2. LockInv
  BY DEF Init, LockInv, Idle
<1>3. GapFree
  BY DEF Init, GapFree
<1>4. ChangeSeqAgrees /\ HiddenInv /\ CursorInv /\ NothingSkipped
  BY DEF Init, ChangeSeqAgrees, HiddenInv, CursorInv, NothingSkipped
<1> QED BY <1>1, <1>2, <1>3, <1>4 DEF IInv

(* What a step leaves alone keeps the conjuncts about it. *)
LEMMA CommittedUnchanged ==
  ASSUME IInv, UNCHANGED <<seqCounter, changeEvent, changeSeq>>
  PROVE  GapFree' /\ ChangeSeqAgrees'
BY DEF IInv, GapFree, ChangeSeqAgrees

LEMMA ReadersUnchanged ==
  ASSUME IInv, UNCHANGED <<seqCounter, changeEvent, gone, hidden, everHidden, cursor, got>>
  PROVE  HiddenInv' /\ CursorInv' /\ NothingSkipped'
BY DEF IInv, HiddenInv, CursorInv, NothingSkipped

LEMMA BeginInv == ASSUME IInv, NEW w \in Writers, Begin(w) PROVE IInv'
<1> USE DEF IInv
<1>1. PICK m \in Mutations :
        tx' = [tx EXCEPT ![w] = [phase |-> "open", events |-> m, high |-> 0]]
  BY DEF Begin
<1>2. m \in Seq(EventRows) /\ m # << >>
  BY MutationsAssumption
<1>3. TypeOK'
  BY <1>1, <1>2 DEF TypeOK, Begin, hideVars, readerVars, Phases
<1>4. LockInv'
  BY <1>1, <1>2 DEF LockInv, TypeOK, Begin
<1>5. UNCHANGED <<seqCounter, changeEvent, changeSeq, gone, hidden, everHidden, cursor, got>>
  BY DEF Begin, hideVars, readerVars
<1> QED BY <1>3, <1>4, <1>5, CommittedUnchanged, ReadersUnchanged

LEMMA AllocateInv == ASSUME IInv, NEW w \in Writers, AllocateSeq(w) PROVE IInv'
<1> USE DEF IInv
<1>1. tx[w].events \in Seq(EventRows) /\ seqCounter + Len(tx[w].events) \in Nat
  BY DEF TypeOK
<1>2. TypeOK'
  BY <1>1 DEF TypeOK, AllocateSeq, hideVars, readerVars, Phases
<1>3. LockInv'
  BY <1>1 DEF LockInv, TypeOK, AllocateSeq
<1>4. UNCHANGED <<seqCounter, changeEvent, changeSeq, gone, hidden, everHidden, cursor, got>>
  BY DEF AllocateSeq, hideVars, readerVars
<1> QED BY <1>2, <1>3, <1>4, CommittedUnchanged, ReadersUnchanged

LEMMA FlushInv == ASSUME IInv, NEW w \in Writers, Flush(w) PROVE IInv'
<1> USE DEF IInv
<1>1. TypeOK'
  BY DEF TypeOK, Flush, hideVars, readerVars, Phases
<1>2. LockInv'
  BY DEF LockInv, TypeOK, Flush
<1>3. UNCHANGED <<seqCounter, changeEvent, changeSeq, gone, hidden, everHidden, cursor, got>>
  BY DEF Flush, hideVars, readerVars
<1> QED BY <1>1, <1>2, <1>3, CommittedUnchanged, ReadersUnchanged

LEMMA RollbackInv == ASSUME IInv, NEW w \in Writers, Rollback(w) PROVE IInv'
<1> USE DEF IInv
<1>1. TypeOK'
  BY DEF TypeOK, Rollback, Idle, hideVars, readerVars, Phases
<1>2. LockInv'
  BY DEF LockInv, TypeOK, Rollback, Idle
<1>3. UNCHANGED <<seqCounter, changeEvent, changeSeq, gone, hidden, everHidden, cursor, got>>
  BY DEF Rollback, hideVars, readerVars
<1> QED BY <1>1, <1>2, <1>3, CommittedUnchanged, ReadersUnchanged

LEMMA OperateInv == ASSUME IInv, NEW i \in Items, Takedown(i) \/ RestoreContent(i) PROVE IInv'
<1> USE DEF IInv
<1>1. UNCHANGED <<seqCounter, seqLock, tx, changeEvent, changeSeq, gone, cursor, got>>
  BY DEF Takedown, RestoreContent, dbVars, readerVars
<1>2. /\ everHidden \subseteq everHidden'
      /\ hidden' \subseteq everHidden'
      /\ everHidden' \subseteq Restrictable
      /\ everHidden' \subseteq Items
  BY DEF Takedown, RestoreContent, HiddenInv, TypeOK
<1>3. TypeOK'
  BY <1>1, <1>2 DEF TypeOK
<1>4. LockInv'
  BY <1>1 DEF LockInv
<1>5. HiddenInv'
  BY <1>2 DEF HiddenInv
<1>6. CursorInv' /\ NothingSkipped'
  BY <1>1, <1>2 DEF CursorInv, NothingSkipped
<1> QED BY <1>1, <1>3, <1>4, <1>5, <1>6, CommittedUnchanged

LEMMA CommitInv == ASSUME IInv, NEW w \in Writers, Commit(w) PROVE IInv'
<1> USE DEF IInv
<1> DEFINE t == tx[w]
           n == Len(t.events)
<1>1. /\ t.phase \in {"allocated", "flushed"}
      /\ seqCounter' = t.high
      /\ changeEvent' = changeEvent \cup NewEvents(t)
      /\ changeSeq' = [i \in Items |-> Stamped(t, i)]
      /\ gone' = gone \cup Dropped(t)
      /\ seqLock' = NoWriter
      /\ tx' = [tx EXCEPT ![w] = Idle]
      /\ UNCHANGED <<hidden, everHidden, cursor, got>>
  BY DEF Commit, hideVars, readerVars
<1>2. /\ n \in Nat \ {0}
      /\ seqCounter \in Nat
      /\ seqCounter' = seqCounter + n
      /\ DOMAIN t.events = 1..n
      /\ \A k \in 1..n : EventSeq(t, k) = seqCounter + k
  BY <1>1, BlockNumbers DEF TypeOK
<1>3. /\ NewEvents(t) \subseteq Events
      /\ \A e \in NewEvents(t) : \E k \in 1..n :
            e = [seq |-> seqCounter + k, row |-> t.events[k]]
      /\ \A k \in 1..n : [seq |-> seqCounter + k, row |-> t.events[k]] \in NewEvents(t)
  BY <1>1, BlockEvents
<1>4. \A e \in changeEvent : e.seq \in 1..seqCounter
  BY DEF GapFree
<1>5. \A i \in Items : /\ Stamped(t, i) \in Nat
                       /\ \/ Stamps(t, i) = {} /\ Stamped(t, i) = changeSeq[i]
                          \/ /\ Stamped(t, i) \in Stamps(t, i)
                             /\ \A u \in Stamps(t, i) : u <= Stamped(t, i)
  <2> TAKE i \in Items
  <2>1. CASE Stamps(t, i) = {}
    BY <2>1 DEF Stamped, TypeOK
  <2>2. CASE Stamps(t, i) # {}
    <3>1. \A u \in Stamps(t, i) : u \in Nat /\ u <= seqCounter + n
      BY <1>2 DEF Stamps
    <3>2. \E s \in Stamps(t, i) : \A u \in Stamps(t, i) : u <= s
      <4>1. Stamps(t, i) \in SUBSET Nat /\ seqCounter + n \in Nat
        BY <3>1, <1>2
      <4> HIDE DEF n, t
      <4> QED BY <4>1, <3>1, <2>2, GreatestExists
    <3> QED BY <3>1, <3>2, <2>2 DEF Stamped
  <2> QED BY <2>1, <2>2
<1>6. TypeOK'
  <2>1. tx' \in [Writers -> [phase : Phases, events : Seq(EventRows), high : Nat]]
    BY <1>1 DEF TypeOK, Idle, Phases
  <2>2. changeEvent' \subseteq Events
    BY <1>1, <1>3 DEF TypeOK
  <2>3. changeSeq' \in [Items -> Nat]
    BY <1>1, <1>5
  <2>4. gone' \subseteq Deletable
    <3>1. \A k \in DOMAIN t.events : t.events[k].drops \subseteq Deletable
      BY <1>1, BlockNumbers DEF EventRows
    <3>2. Dropped(t) \subseteq Deletable
      BY <3>1 DEF Dropped
    <3> QED BY <1>1, <3>2 DEF TypeOK
  <2> QED BY <1>1, <1>2, <2>1, <2>2, <2>3, <2>4 DEF TypeOK
<1>7. LockInv'
  BY <1>1 DEF LockInv, TypeOK, Idle
<1>8. GapFree'
  <2>1. \A e \in changeEvent' : e.seq \in 1..seqCounter'
    BY <1>1, <1>2, <1>3, <1>4
  <2>2. \A s \in 1..seqCounter' : \E e \in changeEvent' : e.seq = s
    <3> TAKE s \in 1..seqCounter'
    <3>1. CASE s <= seqCounter
      <4>1. s \in 1..seqCounter
        BY <3>1, <1>2
      <4>2. PICK e \in changeEvent : e.seq = s
        BY <4>1 DEF GapFree
      <4> QED BY <4>2, <1>1
    <3>2. CASE s > seqCounter
      <4>1. s - seqCounter \in 1..n
        BY <3>2, <1>2
      <4>2. [seq |-> seqCounter + (s - seqCounter), row |-> t.events[s - seqCounter]]
               \in changeEvent'
        BY <4>1, <1>1, <1>3
      <4> QED BY <4>2, <1>2
    <3> QED BY <3>1, <3>2, <1>2
  <2>3. \A e, f \in changeEvent' : e.seq = f.seq => e = f
    BY <1>1, <1>2, <1>3, <1>4 DEF GapFree
  <2> QED BY <2>1, <2>2, <2>3 DEF GapFree
<1>9. ChangeSeqAgrees'
  <2> SUFFICES ASSUME NEW i \in Items
               PROVE  /\ changeSeq'[i] # 0 =>
                            \E e \in changeEvent' : e.seq = changeSeq'[i] /\ i \in e.row.rows
                      /\ \A e \in changeEvent' : i \in e.row.rows => e.seq <= changeSeq'[i]
    BY DEF ChangeSeqAgrees
  <2>1. changeSeq'[i] = Stamped(t, i)
    BY <1>1
  <2>2. CASE Stamps(t, i) = {}
    <3>1. changeSeq'[i] = changeSeq[i]
      BY <2>1, <2>2, <1>5
    <3>2. \A k \in 1..n : i \notin t.events[k].rows
      BY <2>2, <1>2 DEF Stamps
    <3>3. \A e \in NewEvents(t) : i \notin e.row.rows
      BY <3>2, <1>3
    <3> QED BY <3>1, <3>3, <1>1 DEF ChangeSeqAgrees
  <2>3. CASE Stamps(t, i) # {}
    <3>1. /\ changeSeq'[i] \in Stamps(t, i)
          /\ \A u \in Stamps(t, i) : u <= changeSeq'[i]
      BY <2>1, <2>3, <1>5
    <3>2. PICK k \in 1..n : changeSeq'[i] = seqCounter + k /\ i \in t.events[k].rows
      BY <3>1, <1>2 DEF Stamps
    <3>3. \E e \in changeEvent' : e.seq = changeSeq'[i] /\ i \in e.row.rows
      <4> DEFINE d == [seq |-> seqCounter + k, row |-> t.events[k]]
      <4>1. d \in changeEvent'
        BY <1>1, <1>3
      <4>2. d.seq = changeSeq'[i] /\ i \in d.row.rows
        BY <3>2
      <4> QED BY <4>1, <4>2
    <3>4. ASSUME NEW e \in changeEvent', i \in e.row.rows
          PROVE  e.seq <= changeSeq'[i]
      <4>1. CASE e \in changeEvent
        BY <4>1, <3>2, <1>2, <1>4
      <4>2. CASE e \in NewEvents(t)
        <5>1. PICK j \in 1..n : e = [seq |-> seqCounter + j, row |-> t.events[j]]
          BY <4>2, <1>3
        <5>2. e.seq \in Stamps(t, i)
          BY <5>1, <3>4, <1>2 DEF Stamps
        <5> QED BY <5>2, <3>1
      <4> QED BY <4>1, <4>2, <1>1
    <3> QED BY <3>3, <3>4
  <2> QED BY <2>2, <2>3
<1>10. HiddenInv' /\ CursorInv'
  BY <1>1, <1>2 DEF HiddenInv, CursorInv, TypeOK
<1>11. NothingSkipped'
  <2>1. \A e \in NewEvents(t), r \in Readers : ~ (e.seq <= cursor[r])
    BY <1>2, <1>3 DEF CursorInv, TypeOK
  <2> QED BY <2>1, <1>1 DEF NothingSkipped
<1> QED BY <1>6, <1>7, <1>8, <1>9, <1>10, <1>11

LEMMA PollInv == ASSUME IInv, NEW r \in Readers, Poll(r) PROVE IInv'
<1> USE DEF IInv
<1>1. PICK last \in Page(cursor[r]) :
         /\ \A e \in Page(cursor[r]) : e.seq <= last.seq
         /\ cursor' = [cursor EXCEPT ![r] = last.seq]
         /\ got' = [got EXCEPT ![r] = @ \cup Page(cursor[r])]
  BY DEF Poll
<1>2. UNCHANGED <<seqCounter, seqLock, tx, changeEvent, changeSeq, gone, hidden, everHidden>>
  BY DEF Poll, dbVars, hideVars
<1>3. /\ Page(cursor[r]) \subseteq {e \in changeEvent : e.seq > cursor[r]}
      /\ last \in changeEvent
      /\ last.seq \in 1..seqCounter
      /\ last.seq > cursor[r]
  BY DEF Page, After, GapFree
<1>4. TypeOK'
  BY <1>1, <1>2, <1>3 DEF TypeOK
<1>5. LockInv'
  BY <1>2 DEF LockInv
<1>6. HiddenInv' /\ CursorInv'
  BY <1>1, <1>2, <1>3 DEF HiddenInv, CursorInv, TypeOK
<1>7. NothingSkipped'
  <2> SUFFICES ASSUME NEW q \in Readers
               PROVE  /\ got'[q] \subseteq {e \in changeEvent : e.seq <= cursor'[q]}
                      /\ \A e \in changeEvent :
                            /\ e.seq <= cursor'[q]
                            /\ e.row.item \notin gone
                            /\ {e.row.item, e.row.ref} \cap everHidden = {}
                            => e \in got'[q]
    BY <1>2 DEF NothingSkipped
  <2>1. CASE q # r
    BY <2>1, <1>1 DEF NothingSkipped, TypeOK
  <2>2. CASE q = r
    <3>1. cursor'[q] = last.seq /\ got'[q] = got[r] \cup Page(cursor[r])
      BY <2>2, <1>1 DEF TypeOK
    <3>2. got'[q] \subseteq {e \in changeEvent : e.seq <= cursor'[q]}
      <4>1. \A e \in got[r] : e \in changeEvent /\ e.seq <= last.seq
        BY <1>3 DEF NothingSkipped, TypeOK, Events
      <4> QED BY <4>1, <3>1, <1>1, <1>3
    <3>3. ASSUME NEW e \in changeEvent, e.seq <= last.seq, e.row.item \notin gone,
                 {e.row.item, e.row.ref} \cap everHidden = {}
          PROVE  e \in got[r] \cup Page(cursor[r])
      <4>1. CASE e.seq <= cursor[r]
        BY <4>1, <3>3 DEF NothingSkipped
      <4>2. CASE ~ (e.seq <= cursor[r])
        <5>1. e.seq \in Nat /\ cursor[r] \in Nat
          BY DEF TypeOK, Events
        <5>2. Visible(e)
          BY <3>3 DEF Visible, HiddenInv
        <5>3. e \in After(cursor[r])
          BY <4>2, <5>1, <5>2 DEF After
        <5> QED BY <5>1, <5>3, <3>3, PageIsInitial
      <4> QED BY <4>1, <4>2
    <3> QED BY <3>1, <3>2, <3>3
  <2> QED BY <2>1, <2>2
<1> QED BY <1>2, <1>4, <1>5, <1>6, <1>7, CommittedUnchanged

-----------------------------------------------------------------------------
LEMMA StepInv == IInv /\ [Next]_vars => IInv'
<1> SUFFICES ASSUME IInv, [Next]_vars PROVE IInv'
  OBVIOUS
<1>1. CASE \E w \in Writers : Write(w)
  BY <1>1, BeginInv, AllocateInv, FlushInv, CommitInv, RollbackInv DEF Write
<1>2. CASE Operate
  BY <1>2, OperateInv DEF Operate
<1>3. CASE \E r \in Readers : Poll(r)
  BY <1>3, PollInv
<1>4. CASE UNCHANGED vars
  BY <1>4 DEF vars, dbVars, hideVars, readerVars, IInv, TypeOK, LockInv, GapFree,
              ChangeSeqAgrees, HiddenInv, CursorInv, NothingSkipped
<1> QED BY <1>1, <1>2, <1>3, <1>4 DEF Next, PollEmpty

(* The strengthened invariant holds in every reachable state. *)
THEOREM Inductive == Spec => []IInv
BY InitInv, StepInv, PTL DEF Spec

(* Every reachable state of the feed is well typed. *)
THEOREM TypeCorrect == Spec => []TypeOK
<1>1. IInv => TypeOK
  BY DEF IInv
<1> QED BY <1>1, Inductive, PTL

(* SPEC 5.1: the committed sequence is gap-free, whatever interleaving of  *)
(* allocations, commits, rollbacks and crashes produced it.                *)
THEOREM SequenceGapFree == Spec => []GapFree
<1>1. IInv => GapFree
  BY DEF IInv
<1> QED BY <1>1, Inductive, PTL

(* SPEC 5.1: numbers become visible in commit order. *)
THEOREM SequenceCommitOrdered == Spec => []CommitOrdered
<1>1. IInv => CommitOrdered
  <2> SUFFICES ASSUME IInv, NEW w \in Writers, tx[w].phase \in {"allocated", "flushed"},
                      NEW e \in changeEvent, NEW k \in DOMAIN tx[w].events
               PROVE  e.seq < EventSeq(tx[w], k)
    BY DEF CommitOrdered
  <2>1. EventSeq(tx[w], k) = seqCounter + k /\ k \in Nat \ {0}
    BY BlockNumbers DEF IInv
  <2>2. e.seq \in 1..seqCounter /\ seqCounter \in Nat
    BY DEF IInv, GapFree, TypeOK
  <2> QED BY <2>1, <2>2
<1> QED BY <1>1, Inductive, PTL

(* ADR-002: a poller is handed every committed change up to its cursor     *)
(* that names no item ever taken down and whose own item still exists.     *)
THEOREM PollerSkipsNothing == Spec => []NothingSkipped
<1>1. IInv => NothingSkipped
  BY DEF IInv
<1> QED BY <1>1, Inductive, PTL

(* ADR-002: no poll repeats an event. *)
THEOREM PollerRepeatsNothing == Spec => []NoRedelivery
<1>1. IInv => NoRedelivery
  BY DEF IInv, NoRedelivery, NothingSkipped, Page, After, TypeOK, Events
<1> QED BY <1>1, Inductive, PTL

(* SPEC 5.1: item.change_seq is the number of the last event that covers   *)
(* the item.                                                               *)
THEOREM ChangeSeqIsLastEvent == Spec => []ChangeSeqAgrees
<1>1. IInv => ChangeSeqAgrees
  BY DEF IInv
<1> QED BY <1>1, Inductive, PTL

-----------------------------------------------------------------------------
(* The refinement: an event and the log entry with its number are the same *)
(* thing.                                                                  *)
LogFacts == /\ \A e \in changeEvent : /\ e.seq \in 1..seqCounter
                                      /\ e = [seq |-> e.seq, row |-> CommittedLog[e.seq]]
            /\ \A k \in 1..seqCounter : [seq |-> k, row |-> CommittedLog[k]] \in changeEvent
            /\ CommittedLog \in Seq(EventRows)
            /\ Len(CommittedLog) = seqCounter

LEMMA LogEntries == IInv => LogFacts
<1> SUFFICES ASSUME TypeOK, GapFree PROVE LogFacts
  BY DEF IInv
<1>1. \A e \in changeEvent : e.seq \in 1..seqCounter
  BY DEF GapFree
<1>2. \A e \in changeEvent : e = [seq |-> e.seq, row |-> e.row] /\ e.row \in EventRows
  BY DEF TypeOK, Events
<1>3. \A e \in changeEvent : (CHOOSE f \in changeEvent : f.seq = e.seq) = e
  BY DEF GapFree
<1>4. \A e \in changeEvent : CommittedLog[e.seq] = e.row
  BY <1>1, <1>3 DEF CommittedLog
<1>5. \A k \in 1..seqCounter : \E e \in changeEvent : e.seq = k
  BY DEF GapFree
<1>6. \A k \in 1..seqCounter : /\ [seq |-> k, row |-> CommittedLog[k]] \in changeEvent
                               /\ CommittedLog[k] \in EventRows
  BY <1>2, <1>4, <1>5
<1>7. CommittedLog \in [1..seqCounter -> EventRows] /\ seqCounter \in Nat
  BY <1>6 DEF CommittedLog, TypeOK
<1>8. CommittedLog \in Seq(EventRows) /\ Len(CommittedLog) = seqCounter
  BY <1>7
<1> QED BY <1>1, <1>2, <1>4, <1>6, <1>8 DEF LogFacts

(* A commit appends to the log. *)
LEMMA CommitAppends ==
  ASSUME IInv, IInv', NEW w \in Writers, Commit(w)
  PROVE  Log!Append_
<1> LogFacts /\ LogFacts'
  BY LogEntries, PTL
<1>1. /\ seqCounter \in Nat
      /\ seqCounter' > seqCounter
  <2>1. /\ Len(tx[w].events) \in Nat \ {0}
        /\ tx[w].high = seqCounter + Len(tx[w].events)
    BY BlockNumbers DEF Commit, IInv
  <2> QED BY <2>1 DEF Commit, IInv, TypeOK
<1>2. CommittedLog' \in Seq(EventRows) /\ Len(CommittedLog') = seqCounter'
  BY DEF LogFacts
<1>3. Len(CommittedLog) = seqCounter
  BY DEF LogFacts
<1>4. ASSUME NEW k \in 1..seqCounter
      PROVE  CommittedLog'[k] = CommittedLog[k]
  <2> DEFINE e == [seq |-> k, row |-> CommittedLog[k]]
  <2>1. e \in changeEvent
    BY DEF LogFacts
  <2>2. e \in changeEvent'
    BY <2>1 DEF Commit
  <2>3. \A f \in changeEvent' : f = [seq |-> f.seq, row |-> CommittedLog'[f.seq]]
    BY DEF LogFacts
  <2>4. e = [seq |-> k, row |-> CommittedLog'[k]]
    BY <2>2, <2>3
  <2> QED BY <2>4
<1>5. UNCHANGED <<cursor, got>>
  BY DEF Commit, readerVars
<1> QED BY <1>1, <1>2, <1>3, <1>4, <1>5 DEF Log!Append_

(* A poll delivers the entries between the old and the new cursor, but for *)
(* those of hidden and of deleted items.                                   *)
LEMMA PollDelivers ==
  ASSUME IInv, NEW r \in Readers, Poll(r)
  PROVE  Log!Deliver(r)
<1> LogFacts
  BY LogEntries
<1> DEFINE c == cursor[r]
<1>1. PICK last \in Page(c) :
         /\ \A e \in Page(c) : e.seq <= last.seq
         /\ cursor' = [cursor EXCEPT ![r] = last.seq]
         /\ got' = [got EXCEPT ![r] = @ \cup Page(c)]
  BY DEF Poll
<1>2. /\ Page(c) \subseteq {e \in changeEvent : e.seq > c}
      /\ last \in changeEvent
      /\ c \in Nat
  BY DEF Page, After, IInv, TypeOK
<1>3. /\ last.seq \in (c + 1)..Len(CommittedLog)
      /\ Len(CommittedLog) = seqCounter
      /\ seqCounter \in Nat
  BY <1>1, <1>2 DEF LogFacts, IInv, TypeOK
<1> DEFINE Entry(k) == [seq |-> k, row |-> CommittedLog[k]]
           W == {k \in (c + 1)..last.seq : ~ Visible(Entry(k))}
           D == {Entry(k) : k \in ((c + 1)..last.seq) \ W}
<1>4. Page(c) \subseteq D
  <2> SUFFICES ASSUME NEW e \in Page(c) PROVE e \in D
    OBVIOUS
  <2>1. e.seq \in (c + 1)..last.seq
    BY <1>1, <1>2, <1>3 DEF LogFacts
  <2>2. e = Entry(e.seq)
    BY <1>2 DEF LogFacts
  <2>3. Visible(Entry(e.seq))
    BY <2>2 DEF Page, After
  <2> QED BY <2>1, <2>2, <2>3
<1>5. D \subseteq Page(c)
  <2> SUFFICES ASSUME NEW k \in ((c + 1)..last.seq) \ W
               PROVE  Entry(k) \in Page(c)
    OBVIOUS
  <2> DEFINE e == Entry(k)
  <2>1. e \in changeEvent
    BY <1>2, <1>3 DEF LogFacts
  <2>2. Visible(e)
    OBVIOUS
  <2>3. e \in After(c) /\ e.seq <= last.seq
    BY <2>1, <2>2, <1>2, <1>3 DEF After
  <2> QED BY <2>3, <1>2, PageIsInitial DEF IInv
<1>6. got' = [got EXCEPT ![r] = @ \cup D]
  BY <1>1, <1>4, <1>5
<1>7. UNCHANGED CommittedLog
  BY DEF Poll, dbVars, CommittedLog
<1>8. W \subseteq {k \in (c + 1)..last.seq : CommittedLog[k] \in Withholdable}
  <2> SUFFICES ASSUME NEW k \in (c + 1)..last.seq, ~ Visible(Entry(k))
               PROVE  CommittedLog[k] \in Withholdable
    OBVIOUS
  <2>1. CommittedLog[k] \in EventRows
    BY <1>2, <1>3 DEF LogFacts
  <2>2. \/ CommittedLog[k].item \in gone
        \/ {CommittedLog[k].item, CommittedLog[k].ref} \cap hidden # {}
    BY DEF Visible
  <2>3. hidden \subseteq Restrictable /\ gone \subseteq Deletable
    BY DEF IInv, HiddenInv, TypeOK
  <2> QED BY <2>1, <2>2, <2>3 DEF Withholdable
<1> HIDE DEF D, W
<1>9. W \in SUBSET {k \in (c + 1)..last.seq : CommittedLog[k] \in Withholdable}
  BY <1>8
<1>10. got' = [got EXCEPT ![r] = @ \cup
                 {[seq |-> k, row |-> CommittedLog[k]] : k \in ((c + 1)..last.seq) \ W}]
  BY <1>6 DEF D
<1> QED BY <1>1, <1>3, <1>7, <1>9, <1>10 DEF Log!Deliver

(* ADR-002: the row-locked counter, the transactions and the paged polls   *)
(* implement one append-only log that every poller reads in order, each    *)
(* entry once, with nothing withheld but changes that name restrictable    *)
(* items and changes of deletable ones (sierx_lifecycle_event_visible).    *)
THEOREM FeedImplementsLog == Spec => ImplementsLog
<1>1. Init => Log!Init
  BY DEF Init, Log!Init, CommittedLog
<1>2. IInv /\ IInv' /\ [Next]_vars => [Log!Next]_(Log!vars)
  <2> SUFFICES ASSUME IInv, IInv', [Next]_vars
               PROVE  Log!Next \/ UNCHANGED <<CommittedLog, cursor, got>>
    BY DEF Log!vars
  <2>1. CASE \E w \in Writers : Commit(w)
    BY <2>1, CommitAppends DEF Log!Next
  <2>2. CASE \E w \in Writers : Begin(w) \/ AllocateSeq(w) \/ Flush(w) \/ Rollback(w)
    <3>1. UNCHANGED <<seqCounter, changeEvent, cursor, got>>
      BY <2>2 DEF Begin, AllocateSeq, Flush, Rollback, readerVars
    <3> QED BY <3>1 DEF CommittedLog
  <2>3. CASE Operate
    <3>1. UNCHANGED <<seqCounter, changeEvent, cursor, got>>
      BY <2>3 DEF Operate, Takedown, RestoreContent, dbVars, readerVars
    <3> QED BY <3>1 DEF CommittedLog
  <2>4. CASE \E r \in Readers : Poll(r)
    BY <2>4, PollDelivers DEF Log!Next
  <2>5. CASE UNCHANGED vars
    BY <2>5 DEF vars, dbVars, readerVars, CommittedLog
  <2> QED BY <2>1, <2>2, <2>3, <2>4, <2>5 DEF Next, Write, PollEmpty
<1> QED BY <1>1, <1>2, Inductive, PTL DEF Spec, Log!Spec, ImplementsLog

-----------------------------------------------------------------------------
(***************************************************************************)
(* The web client.                                                         *)
(***************************************************************************)

(* No position a page keeps or is being handed is ahead of the log, and an *)
(* empty page of events says to stay.  Only an open page's session ends.   *)
PositionInv ==
    \A c \in Clients :
        /\ boot[c] <= seqCounter
        /\ sequence[c] <= seqCounter
        /\ reply[c].next_seq <= seqCounter
        /\ loop[c] = "fetching" /\ ~ reply[c].full => reply[c].next_seq = sequence[c]
        /\ expired[c] => Running(c)

(* Whatever is old on the screen of an open page has changed after the     *)
(* bootstrap: this is why a restart from the bootstrap position is safe in *)
(* every state of the loop, the cancelled refetch included.                *)
ScreenInv ==
    \A c \in Clients, i \in Items \ (everHidden \cup gone) :
        /\ shown[c][i] <= changeSeq[i]
        /\ loop[c] \notin {"closed", "rendering"} /\ shown[c][i] < changeSeq[i] =>
              boot[c] < changeSeq[i]

FeedInv == IInv /\ FeedTypeOK /\ PositionInv /\ ScreenInv /\ NeverAheadOfScreen

-----------------------------------------------------------------------------
(* What a step of the database does to the items and to the log, as a page *)
(* sees it: a change_seq that moves gets a number above the whole log.     *)
LogMoves == /\ seqCounter \in Nat /\ seqCounter' \in Nat /\ seqCounter <= seqCounter'
            /\ everHidden \subseteq everHidden' /\ gone \subseteq gone'
            /\ \A i \in Items : /\ changeSeq[i] \in Nat /\ changeSeq'[i] \in Nat
                                /\ changeSeq[i] <= changeSeq'[i]
                                /\ changeSeq'[i] = changeSeq[i] \/ seqCounter < changeSeq'[i]


LEMMA DatabaseStep == ASSUME IInv, IInv', [Next]_vars PROVE LogMoves
<1>1. /\ seqCounter \in Nat /\ seqCounter' \in Nat
      /\ \A i \in Items : changeSeq[i] \in Nat /\ changeSeq'[i] \in Nat
  BY DEF IInv, TypeOK
<1>2. CASE UNCHANGED <<seqCounter, changeSeq, gone>> /\ everHidden \subseteq everHidden'
  BY <1>1, <1>2 DEF LogMoves
<1>3. ASSUME NEW w \in Writers, Commit(w)
      PROVE  LogMoves
  <2> DEFINE n == Len(tx[w].events)
  <2>1. /\ tx[w].phase \in {"allocated", "flushed"}
        /\ seqCounter' = tx[w].high
        /\ changeEvent' = changeEvent \cup NewEvents(tx[w])
        /\ everHidden' = everHidden /\ gone \subseteq gone'
    BY <1>3 DEF Commit, hideVars
  <2>2. n \in Nat \ {0} /\ seqCounter' = seqCounter + n
    BY <2>1, BlockNumbers DEF IInv
  <2>3. \A e \in NewEvents(tx[w]) : \E k \in 1..n :
           e = [seq |-> seqCounter + k, row |-> tx[w].events[k]]
    BY <2>1, BlockEvents DEF IInv
  <2>4. \A e \in NewEvents(tx[w]) : e.seq > seqCounter
    BY <2>2, <2>3, <1>1
  <2>5. ASSUME NEW i \in Items
        PROVE  /\ changeSeq[i] <= changeSeq'[i]
               /\ changeSeq'[i] = changeSeq[i] \/ seqCounter < changeSeq'[i]
    <3>1. changeSeq[i] <= changeSeq'[i]
      <4>1. CASE changeSeq[i] = 0
        BY <4>1, <1>1
      <4>2. CASE changeSeq[i] # 0
        <5>1. PICK e \in changeEvent : e.seq = changeSeq[i] /\ i \in e.row.rows
          BY <4>2 DEF IInv, ChangeSeqAgrees
        <5> QED
          BY <5>1, <2>1 DEF IInv, ChangeSeqAgrees
      <4> QED
        BY <4>1, <4>2
    <3>2. CASE changeSeq'[i] = 0
      BY <3>1, <3>2, <1>1
    <3>3. CASE changeSeq'[i] # 0
      <4>1. PICK e \in changeEvent' : e.seq = changeSeq'[i] /\ i \in e.row.rows
        BY <3>3 DEF IInv, ChangeSeqAgrees
      <4>2. CASE e \in changeEvent
        <5>1. e.seq <= changeSeq[i]
          BY <4>1, <4>2 DEF IInv, ChangeSeqAgrees
        <5> QED
          BY <5>1, <4>1, <3>1, <1>1
      <4>3. CASE e \in NewEvents(tx[w])
        BY <4>1, <4>3, <2>4, <3>1
      <4> QED
        BY <4>1, <4>2, <4>3, <2>1
    <3> QED
      BY <3>1, <3>2, <3>3
  <2>6. seqCounter <= seqCounter'
    BY <2>2, <1>1
  <2> QED
    BY <1>1, <2>1, <2>5, <2>6 DEF LogMoves
<1>4. ASSUME NEW w \in Writers, Begin(w) \/ AllocateSeq(w) \/ Flush(w) \/ Rollback(w)
      PROVE  UNCHANGED <<seqCounter, changeSeq, gone, everHidden>>
  BY <1>4 DEF Begin, AllocateSeq, Flush, Rollback, hideVars
<1>5. ASSUME NEW i \in Items, Takedown(i) \/ RestoreContent(i)
      PROVE  UNCHANGED <<seqCounter, changeSeq, gone>> /\ everHidden \subseteq everHidden'
  BY <1>5 DEF Takedown, RestoreContent, dbVars
<1>6. ASSUME NEW r \in Readers, Poll(r) \/ PollEmpty(r)
      PROVE  UNCHANGED <<seqCounter, changeSeq, gone, everHidden>>
  BY <1>6 DEF Poll, PollEmpty, dbVars, hideVars, vars
<1>7. CASE UNCHANGED vars
  BY <1>7, <1>2 DEF vars, dbVars, hideVars
<1> QED
  BY <1>2, <1>3, <1>4, <1>5, <1>6, <1>7 DEF Next, Write, Operate

(* While the database works, the pages stay as they are: what becomes old  *)
(* on a screen lies above every position.                                  *)
LEMMA WhileDatabaseWorks ==
  ASSUME FeedInv, IInv', LogMoves, UNCHANGED clientVars
  PROVE  FeedInv'
<1>1. FeedTypeOK'
  BY DEF FeedInv, FeedTypeOK, clientVars
<1>2. UNCHANGED <<loop, boot, sequence, reply, shown, expired, broken>>
  BY DEF clientVars
<1>3. \A c \in Clients : /\ boot[c] \in Nat /\ sequence[c] \in Nat /\ reply[c].next_seq \in Nat
                         /\ \A i \in Items : shown[c][i] \in Nat
  BY DEF FeedInv, FeedTypeOK
<1>4. PositionInv'
  BY <1>2, <1>3 DEF FeedInv, PositionInv, Running, LogMoves
<1>5. ScreenInv'
  <2> SUFFICES ASSUME NEW c \in Clients, NEW i \in Items \ (everHidden \cup gone)'
               PROVE  /\ shown[c][i] <= changeSeq'[i]
                      /\ loop[c] \notin {"closed", "rendering"} /\ shown[c][i] < changeSeq'[i] =>
                            boot[c] < changeSeq'[i]
    BY <1>2 DEF ScreenInv
  <2>1. i \in Items \ (everHidden \cup gone)
    BY DEF LogMoves
  <2>2. /\ shown[c][i] <= changeSeq[i]
        /\ loop[c] \notin {"closed", "rendering"} /\ shown[c][i] < changeSeq[i] =>
              boot[c] < changeSeq[i]
        /\ boot[c] <= seqCounter
    BY <2>1 DEF FeedInv, ScreenInv, PositionInv
  <2> QED
    BY <1>3, <2>1, <2>2 DEF LogMoves
<1>6. NeverAheadOfScreen'
  <2> SUFFICES ASSUME NEW c \in Clients, loop[c] \in {"waiting", "fetching"}, ~ broken[c],
                      NEW i \in Items \ (everHidden \cup gone)', shown[c][i] < changeSeq'[i]
               PROVE  sequence[c] < changeSeq'[i]
    BY <1>2 DEF NeverAheadOfScreen
  <2>1. i \in Items \ (everHidden \cup gone)
    BY DEF LogMoves
  <2>2. /\ shown[c][i] < changeSeq[i] => sequence[c] < changeSeq[i]
        /\ sequence[c] <= seqCounter
    BY <2>1 DEF FeedInv, NeverAheadOfScreen, PositionInv
  <2> QED
    BY <1>3, <2>1, <2>2 DEF LogMoves
<1> QED
  BY <1>1, <1>4, <1>5, <1>6 DEF FeedInv

-----------------------------------------------------------------------------
(* What a page is shown now is current, except of what is hidden or gone. *)
LEMMA QueryCurrent ==
  ASSUME IInv
  PROVE  /\ Query \in [Items -> Nat]
         /\ \A i \in Items \ (everHidden \cup gone) : Query[i] = changeSeq[i]
BY DEF IInv, TypeOK, HiddenInv, Query

(* A page's last row is one of the log. *)
LEMMA PageInLog ==
  ASSUME IInv, NEW k \in Nat, NEW e \in Page(k)
  PROVE  e.seq \in Nat /\ e.seq <= seqCounter
BY DEF IInv, TypeOK, GapFree, Page, After, Events

(* The parts of the invariant as they concern one page. *)
OnePage(c) ==
    /\ boot[c] <= seqCounter
    /\ sequence[c] <= seqCounter
    /\ reply[c].next_seq <= seqCounter
    /\ loop[c] = "fetching" /\ ~ reply[c].full => reply[c].next_seq = sequence[c]
    /\ expired[c] => Running(c)
    /\ \A i \in Items \ (everHidden \cup gone) :
          /\ shown[c][i] <= changeSeq[i]
          /\ loop[c] \notin {"closed", "rendering"} /\ shown[c][i] < changeSeq[i] =>
                boot[c] < changeSeq[i]
          /\ loop[c] \in {"waiting", "fetching"} /\ ~ broken[c] /\ shown[c][i] < changeSeq[i] =>
                sequence[c] < changeSeq[i]

EveryPage == \A c \in Clients : OnePage(c)

LEMMA PageByPage == FeedInv <=> IInv /\ FeedTypeOK /\ EveryPage
BY DEF EveryPage, FeedInv, PositionInv, ScreenInv, NeverAheadOfScreen, OnePage

(* One page works: the others, the log and the items are as before. *)
LEMMA OnePageWorks ==
  ASSUME FeedInv, NEW c \in Clients, UNCHANGED vars, FeedTypeOK', OnePage(c)',
         \A d \in Clients \ {c} : /\ loop'[d] = loop[d] /\ boot'[d] = boot[d]
                                  /\ sequence'[d] = sequence[d] /\ reply'[d] = reply[d]
                                  /\ shown'[d] = shown[d] /\ broken'[d] = broken[d]
                                  /\ expired'[d] = expired[d]
  PROVE  FeedInv'
<1>1. IInv'
  BY StepInv DEF FeedInv
<1>2. UNCHANGED <<seqCounter, everHidden, gone, changeSeq>>
  BY DEF vars, dbVars, hideVars
<1>3. ASSUME NEW d \in Clients \ {c}
      PROVE  OnePage(d)'
  <2>1. OnePage(d)
    BY PageByPage DEF EveryPage
  <2> QED
    BY <1>2, <2>1 DEF OnePage, Running
<1>4. EveryPage'
  BY <1>3 DEF EveryPage
<1> QED
  BY <1>1, <1>4, PageByPage, PTL


-----------------------------------------------------------------------------
(* documents.go: the sequence is read before the data, so what changes in  *)
(* between is above the position the feed will start from.                 *)
LEMMA BootstrapInv ==
  ASSUME FeedInv, NEW c \in Clients, Bootstrap(c), UNCHANGED vars
  PROVE  FeedInv'
<1>1. IInv /\ FeedTypeOK /\ OnePage(c)
  BY PageByPage DEF EveryPage
<1>2. UNCHANGED <<seqCounter, everHidden, gone, changeSeq>>
  BY DEF vars, dbVars, hideVars
<1>3. seqCounter \in Nat /\ \A i \in Items : changeSeq[i] \in Nat
  BY <1>1 DEF IInv, TypeOK
<1>4. CASE ReadSequence(c)
  <2>1. FeedTypeOK'
    BY <1>1, <1>3, <1>4 DEF FeedTypeOK, ReadSequence
  <2>2. OnePage(c)'
    BY <1>1, <1>2, <1>3, <1>4 DEF OnePage, Running, FeedTypeOK, ReadSequence
  <2> QED
    BY <2>1, <2>2, <1>1, <1>4, OnePageWorks DEF FeedTypeOK, ReadSequence
<1>5. CASE ReadItems(c)
  <2>1. /\ shown'[c] = Query /\ Query \in [Items -> Nat]
        /\ \A i \in Items \ (everHidden \cup gone) : Query[i] = changeSeq[i]
    BY <1>1, <1>5, QueryCurrent DEF ReadItems, FeedTypeOK
  <2>2. FeedTypeOK'
    BY <1>1, <1>5, <2>1 DEF FeedTypeOK, ReadItems
  <2>3. OnePage(c)'
    BY <1>1, <1>2, <1>3, <1>5, <2>1 DEF OnePage, Running, FeedTypeOK, ReadItems
  <2> QED
    BY <2>2, <2>3, <1>1, <1>5, OnePageWorks DEF FeedTypeOK, ReadItems
<1> QED
  BY <1>4, <1>5 DEF Bootstrap

(* feed.ts: a page moves the position, and its refetch the screen. *)
LEMMA FetchInv ==
  ASSUME FeedInv, NEW c \in Clients, FetchPage(c), UNCHANGED vars
  PROVE  FeedInv'
<1>1. IInv /\ FeedTypeOK /\ OnePage(c)
  BY PageByPage DEF EveryPage
<1>2. UNCHANGED <<seqCounter, everHidden, gone, changeSeq>>
  BY DEF vars, dbVars, hideVars
<1>3. seqCounter \in Nat /\ sequence[c] \in Nat
  BY <1>1 DEF IInv, TypeOK, FeedTypeOK
<1>4. PICK full \in BOOLEAN, k \in Nat :
         /\ reply' = [reply EXCEPT ![c] = [full |-> full, next_seq |-> k]]
         /\ k <= seqCounter /\ (~ full => k = sequence[c])
  <2>1. CASE reply' = [reply EXCEPT ![c] = [full |-> FALSE, next_seq |-> sequence[c]]]
    BY <2>1, <1>1, <1>3 DEF OnePage, Running
  <2>2. CASE \E last \in Page(sequence[c]) :
               reply' = [reply EXCEPT ![c] = [full |-> TRUE, next_seq |-> last.seq]]
    BY <2>2, <1>1, <1>3, PageInLog
  <2> QED
    BY <2>1, <2>2 DEF FetchPage
<1>5. FeedTypeOK'
  BY <1>1, <1>4 DEF FeedTypeOK, FetchPage
<1>6. OnePage(c)'
  BY <1>1, <1>2, <1>3, <1>4 DEF OnePage, Running, FeedTypeOK, FetchPage
<1> QED
  BY <1>1, <1>4, <1>5, <1>6, OnePageWorks DEF FeedTypeOK, FetchPage

LEMMA ReceiveInv ==
  ASSUME FeedInv, NEW c \in Clients, Receive(c) \/ FetchFails(c) \/ RefetchFails(c),
         UNCHANGED vars
  PROVE  FeedInv'
<1>1. IInv /\ FeedTypeOK /\ OnePage(c)
  BY PageByPage DEF EveryPage
<1>2. UNCHANGED <<seqCounter, everHidden, gone, changeSeq>>
  BY DEF vars, dbVars, hideVars
<1>3. FeedTypeOK'
  BY <1>1 DEF FeedTypeOK, Receive, FetchFails, RefetchFails
<1>4. OnePage(c)'
  BY <1>1, <1>2 DEF OnePage, Running, FeedTypeOK, Receive, FetchFails, RefetchFails
<1> QED
  BY <1>1, <1>3, <1>4, OnePageWorks DEF FeedTypeOK, Receive, FetchFails, RefetchFails

LEMMA RefetchInv ==
  ASSUME FeedInv, NEW c \in Clients, Refetch(c), UNCHANGED vars
  PROVE  FeedInv'
<1>1. IInv /\ FeedTypeOK /\ OnePage(c)
  BY PageByPage DEF EveryPage
<1>2. UNCHANGED <<seqCounter, everHidden, gone, changeSeq>>
  BY DEF vars, dbVars, hideVars
<1>3. \A i \in Items : changeSeq[i] \in Nat
  BY <1>1 DEF IInv, TypeOK
<1>4. /\ shown'[c] = Query /\ Query \in [Items -> Nat]
      /\ \A i \in Items \ (everHidden \cup gone) : Query[i] = changeSeq[i]
  BY <1>1, QueryCurrent DEF Refetch, FeedTypeOK
<1>5. FeedTypeOK'
  BY <1>1, <1>4 DEF FeedTypeOK, Refetch
<1>6. OnePage(c)'
  BY <1>1, <1>2, <1>3, <1>4 DEF OnePage, Running, FeedTypeOK, Refetch
<1> QED
  BY <1>1, <1>5, <1>6, OnePageWorks DEF FeedTypeOK, Refetch

(* Shell.tsx: an expiry drops the page or the refetch on its way and goes  *)
(* back to the bootstrap position, below everything the screen lacks.      *)
LEMMA RestartInv ==
  ASSUME FeedInv, NEW c \in Clients, Expire(c) \/ Resume(c), UNCHANGED vars
  PROVE  FeedInv'
<1>1. IInv /\ FeedTypeOK /\ OnePage(c)
  BY PageByPage DEF EveryPage
<1>2. UNCHANGED <<seqCounter, everHidden, gone, changeSeq>>
  BY DEF vars, dbVars, hideVars
<1>3. FeedTypeOK'
  <2>1. CASE Expire(c)
    BY <1>1, <2>1 DEF FeedTypeOK, Expire, Restart
  <2>2. CASE Resume(c)
    BY <1>1, <2>2 DEF FeedTypeOK, Resume, Restart
  <2> QED
    BY <2>1, <2>2
<1>31. /\ loop'[c] = "waiting" /\ sequence'[c] = boot[c] /\ boot' = boot /\ reply' = reply
      /\ shown' = shown /\ broken' = broken
      /\ loop[c] \notin {"closed", "rendering"}
  <2>1. loop'[c] = "waiting" /\ sequence'[c] = boot[c]
    BY <1>1 DEF FeedTypeOK, Expire, Resume, Restart
  <2>2. loop[c] \notin {"closed", "rendering"}
    BY <1>1 DEF OnePage, Running, Expire, Resume
  <2> QED
    BY <2>1, <2>2 DEF Expire, Resume
<1>4. OnePage(c)'
  BY <1>1, <1>2, <1>31 DEF OnePage, Running
<1> QED
  BY <1>1, <1>3, <1>4, OnePageWorks DEF FeedTypeOK, Expire, Resume, Restart


-----------------------------------------------------------------------------
LEMMA FeedInitInv == InitFeed => FeedInv
<1> SUFFICES ASSUME InitFeed PROVE FeedInv
  OBVIOUS
<1>1. IInv
  BY InitInv DEF InitFeed
<1>2. FeedTypeOK
  BY DEF InitFeed, InitClients, FeedTypeOK, NoReply
<1>3. EveryPage
  BY DEF InitFeed, Init, InitClients, EveryPage, OnePage, NoReply
<1> QED
  BY <1>1, <1>2, <1>3, PageByPage

LEMMA FeedStepInv == FeedInv /\ [NextFeed]_allVars => FeedInv'
<1> SUFFICES ASSUME FeedInv, [NextFeed]_allVars PROVE FeedInv'
  OBVIOUS
<1>1. CASE [Next]_vars /\ UNCHANGED clientVars
  <2>1. IInv'
    BY <1>1, StepInv DEF FeedInv
  <2>2. LogMoves
    BY <1>1, <2>1, DatabaseStep DEF FeedInv
  <2> QED
    BY <1>1, <2>1, <2>2, WhileDatabaseWorks
<1>2. CASE UNCHANGED allVars
  BY <1>1, <1>2 DEF allVars
<1>3. CASE (\E w \in Writers : Write(w)) /\ UNCHANGED clientVars
  BY <1>1, <1>3 DEF Next
<1>4. CASE Operate /\ UNCHANGED clientVars
  BY <1>1, <1>4 DEF Next
<1>5. CASE \E c \in Clients : Browse(c) /\ UNCHANGED vars
  BY <1>5, BootstrapInv, FetchInv, ReceiveInv, RefetchInv, RestartInv DEF Browse
<1> QED
  BY <1>2, <1>3, <1>4, <1>5 DEF NextFeed

LEMMA FeedInvariance == SpecFeed => []FeedInv
BY FeedInitInv, FeedStepInv, PTL DEF SpecFeed

(* feed.ts and Shell.tsx keep their state in its shape: every position is  *)
(* a number the server handed out.                                         *)
THEOREM FeedTypeCorrect == SpecFeed => []FeedTypeOK
<1>1. FeedInv => FeedTypeOK
  BY DEF FeedInv
<1> QED
  BY <1>1, FeedInvariance, PTL

(* poll() and the restart of Shell.tsx: wherever commits, expiries and     *)
(* failed polls fall, a feed does not pass a change its page lacks.        *)
THEOREM FeedNeverAhead == SpecFeed => []NeverAheadOfScreen
<1>1. FeedInv => NeverAheadOfScreen
  BY DEF FeedInv
<1> QED
  BY <1>1, FeedInvariance, PTL

(* FRONTEND-CONTRACT.md:29, the bootstrap document, feed.ts: a page whose  *)
(* feed is at the head of the log shows the current copy of everything     *)
(* that exists and was never taken down.  A change_seq on screen is never  *)
(* too new, an old one is above the position, and no change_seq is above   *)
(* the head.                                                               *)
THEOREM CaughtUpPagesCurrent == SpecFeed => []CaughtUpIsCurrent
<1>1. FeedInv => CaughtUpIsCurrent
  <2> SUFFICES ASSUME FeedInv, NEW c \in Clients, loop[c] = "waiting",
                      sequence[c] = seqCounter, ~ broken[c], NEW i \in Items \ (everHidden \cup gone)
               PROVE  shown[c][i] = changeSeq[i]
    BY DEF CaughtUpIsCurrent
  <2>1. /\ shown[c][i] <= changeSeq[i]
        /\ shown[c][i] < changeSeq[i] => sequence[c] < changeSeq[i]
    BY DEF FeedInv, ScreenInv, NeverAheadOfScreen
  <2>2. /\ seqCounter \in Nat /\ changeSeq[i] \in Nat /\ shown[c][i] \in Nat
    BY DEF FeedInv, FeedTypeOK, IInv, TypeOK
  <2>3. changeSeq[i] <= seqCounter
    <3>1. changeSeq[i] # 0 => \E e \in changeEvent : e.seq = changeSeq[i]
      BY DEF FeedInv, IInv, ChangeSeqAgrees
    <3>2. \A e \in changeEvent : e.seq \in 1..seqCounter
      BY DEF FeedInv, IInv, GapFree
    <3> QED
      BY <3>1, <3>2, <2>2
  <2> QED
    BY <2>1, <2>2, <2>3
<1> QED
  BY <1>1, FeedInvariance, PTL
=============================================================================
