----------------------------- MODULE ChangeFeed -----------------------------
(***************************************************************************)
(* Sequence allocation, the change_event log and GET /changes.             *)
(*                                                                         *)
(* Every write is one PostgreSQL transaction that bumps the row-locked     *)
(* seq_counter by the number of events it will write (store.Mutate,        *)
(* store.flush), stamps the item rows and inserts the events.  Pollers     *)
(* read change_event above their cursor.  Row-level security filters out   *)
(* of every page the events of items that the lifecycle operator hides,    *)
(* and of items whose row is gone: a hard delete takes an item's events,   *)
(* its own terminal one included, out of every poller's sight.             *)
(***************************************************************************)
EXTENDS Naturals, Sequences, FiniteSets

CONSTANTS Writers,      \* requests that mutate, each in its own transaction
          Readers,      \* clients polling /changes
          Items,        \* items of one workspace
          NoItem,       \* the NULL item_id
          NoWriter,     \* the seq_counter row is not locked
          Mutations,    \* the event lists a mutation may accumulate
          Restrictable, \* items the operator may take down
          Deletable,    \* items that may be hard deleted
          Limit,        \* page size of /changes
          MaxSeq        \* bound on the sequence numbers of a behaviour

(* What an event says: the item it is about, another item its old or new   *)
(* value names, the item rows whose change_seq its number is written to    *)
(* (the item; a moved item's whole subtree; none for the summary event of  *)
(* a rank rebalance), and the item rows its change deletes (the item of    *)
(* the terminal event of a hard delete).                                   *)
EventRows == [item : Items \cup {NoItem}, ref : Items \cup {NoItem},
              rows : SUBSET Items, drops : SUBSET Deletable]

Events == [seq : Nat, row : EventRows]

ASSUME ConstantsAssumption ==
    /\ NoItem \notin Items
    /\ NoWriter \notin Writers
    /\ Restrictable \subseteq Items
    /\ Deletable \subseteq Items
    /\ Limit \in Nat \ {0}
    /\ MaxSeq \in Nat

(* A mutation that registered nothing, or a change without an event, is    *)
(* refused before the transaction begins (ErrEmpty, ErrNoEvents).          *)
ASSUME MutationsAssumption ==
    \A m \in Mutations : m \in Seq(EventRows) /\ m # << >>

VARIABLES
    seqCounter,   \* committed value of the workspace's seq_counter row
    seqLock,      \* the transaction holding the row lock on it
    tx,           \* tx[w]: the transaction of request w
    changeEvent,  \* committed rows of change_event
    changeSeq,    \* changeSeq[i]: committed item.change_seq, the last one if i is gone
    gone,         \* items whose row was hard deleted; ids are never used again
    hidden,       \* items covered by an operator_content_restriction row
    everHidden,   \* history: items that were ever hidden
    cursor,       \* cursor[r]: the since_seq reader r will send next
    got           \* history: the events r has been handed

dbVars     == <<seqCounter, seqLock, tx, changeEvent, changeSeq, gone>>
hideVars   == <<hidden, everHidden>>
readerVars == <<cursor, got>>
vars       == <<dbVars, hideVars, readerVars>>

-----------------------------------------------------------------------------
(* Writers *)

Idle == [phase |-> "idle", events |-> << >>, high |-> 0]

Phases == {"idle", "open", "allocated", "flushed"}

Init == /\ seqCounter = 0
        /\ seqLock = NoWriter
        /\ tx = [w \in Writers |-> Idle]
        /\ changeEvent = {}
        /\ changeSeq = [i \in Items |-> 0]
        /\ gone = {}
        /\ hidden = {}
        /\ everHidden = {}
        /\ cursor = [r \in Readers |-> 0]
        /\ got = [r \in Readers |-> {}]

(* Mutate: the callback has accumulated the events, the transaction opens. *)
Begin(w) == /\ tx[w].phase = "idle"
            /\ \E m \in Mutations :
                 tx' = [tx EXCEPT ![w] = [phase |-> "open", events |-> m, high |-> 0]]
            /\ UNCHANGED <<seqCounter, seqLock, changeEvent, changeSeq, gone, hideVars, readerVars>>

(* Mutant: numbers are handed out without holding the counter row until    *)
(* commit, as a database sequence would.                                   *)
AllocateUnlocked(w) ==
    /\ tx[w].phase = "open"
    /\ seqCounter + Len(tx[w].events) <= MaxSeq
    /\ seqLock' = w
    /\ tx' = [tx EXCEPT ![w].phase = "allocated",
                        ![w].high = seqCounter + Len(tx[w].events)]
    /\ UNCHANGED <<seqCounter, changeEvent, changeSeq, gone, hideVars, readerVars>>

(* UPDATE seq_counter ... RETURNING value: waits for the row lock, then    *)
(* adds to the committed value.  The new value is visible to others, and   *)
(* the lock released, only when the transaction ends.                      *)
AllocateSeq(w) ==
    /\ tx[w].phase = "open"
    /\ seqLock = NoWriter
    /\ seqCounter + Len(tx[w].events) <= MaxSeq
    /\ seqLock' = w
    /\ tx' = [tx EXCEPT ![w].phase = "allocated",
                        ![w].high = seqCounter + Len(tx[w].events)]
    /\ UNCHANGED <<seqCounter, changeEvent, changeSeq, gone, hideVars, readerVars>>

(* The items whose rows or ids an event touches. *)
Touches(row) == ({row.item, row.ref} \cup row.rows) \ {NoItem}

(* GetItem, the row update or a foreign key fails on an item that is gone. *)
(* While one of the items is hidden the item policy refuses the row        *)
(* update, the event policy the insert, and the subtree guard the move.    *)
(* A hard delete is for a role these policies do not bind: the event       *)
(* policy would refuse the terminal event of a row that is gone.           *)
Accepted(row) == /\ Touches(row) \cap gone = {}
                 /\ row.drops = {} => Touches(row) \cap hidden = {}

(* The foreign key on parent_id: an item with children cannot be deleted,  *)
(* and whoever left its subtree was stamped then.  So no remaining row has *)
(* its change_seq from an event of the item.                               *)
Childless(i) == \A e \in changeEvent, j \in Items \ (gone \cup {i}) :
                   e.row.item = i /\ j \in e.row.rows => changeSeq[j] # e.seq

(* Row changes and InsertEvent, inside the transaction. *)
Flush(w) == /\ tx[w].phase = "allocated"
            /\ \A k \in DOMAIN tx[w].events :
                  /\ Accepted(tx[w].events[k])
                  /\ \A i \in tx[w].events[k].drops : Childless(i)
            /\ tx' = [tx EXCEPT ![w].phase = "flushed"]
            /\ UNCHANGED <<seqCounter, seqLock, changeEvent, changeSeq, gone, hideVars, readerVars>>

(* Mutant: the block is counted down from its lower end. *)
EventSeqDown(t, k) == t.high - Len(t.events) - k

(* The event at position k of the registration order gets lowest + k - 1. *)
EventSeq(t, k) == t.high - Len(t.events) + k

NewEvents(t) == {[seq |-> EventSeq(t, k), row |-> t.events[k]] : k \in DOMAIN t.events}

(* An item's change_seq is the highest number given to one of its events. *)
Stamps(t, i) == {EventSeq(t, k) : k \in {j \in DOMAIN t.events : i \in t.events[j].rows}}

(* Mutant: change_seq becomes the lowest number of the item's events. *)
StampedLowest(t, i) == IF Stamps(t, i) = {} THEN changeSeq[i]
                       ELSE CHOOSE s \in Stamps(t, i) : \A u \in Stamps(t, i) : s <= u

Stamped(t, i) == IF Stamps(t, i) = {} THEN changeSeq[i]
                 ELSE CHOOSE s \in Stamps(t, i) : \A u \in Stamps(t, i) : u <= s

(* The rows a transaction deletes. *)
Dropped(t) == UNION {t.events[k].drops : k \in DOMAIN t.events}

(* The request's transaction commits: counter, rows and events together. *)
Commit(w) == /\ tx[w].phase = "flushed"
             /\ seqCounter' = tx[w].high
             /\ changeEvent' = changeEvent \cup NewEvents(tx[w])
             /\ changeSeq' = [i \in Items |-> Stamped(tx[w], i)]
             /\ gone' = gone \cup Dropped(tx[w])
             /\ seqLock' = NoWriter
             /\ tx' = [tx EXCEPT ![w] = Idle]
             /\ UNCHANGED <<hideVars, readerVars>>

(* Mutant: a rollback keeps the counter it had advanced. *)
RollbackLeaks(w) == /\ tx[w].phase # "idle"
                    /\ tx' = [tx EXCEPT ![w] = Idle]
                    /\ seqCounter' = IF seqLock = w THEN tx[w].high ELSE seqCounter
                    /\ seqLock' = IF seqLock = w THEN NoWriter ELSE seqLock
                    /\ UNCHANGED <<changeEvent, changeSeq, gone, hideVars, readerVars>>

(* A flush error, a cancelled request, a failed commit or a lost           *)
(* connection: the counter update is undone with everything else.          *)
Rollback(w) == /\ tx[w].phase # "idle"
               /\ tx' = [tx EXCEPT ![w] = Idle]
               /\ seqLock' = IF seqLock = w THEN NoWriter ELSE seqLock
               /\ UNCHANGED <<seqCounter, changeEvent, changeSeq, gone, hideVars, readerVars>>

-----------------------------------------------------------------------------
(* The lifecycle operator.  sierx_lifecycle_lock takes item and            *)
(* change_event in SHARE ROW EXCLUSIVE mode, so it waits for every         *)
(* transaction that has written rows.  Both decisions need the item's row. *)

NoneFlushed == \A w \in Writers : tx[w].phase # "flushed"

Takedown(i) == /\ NoneFlushed
               /\ i \in Restrictable \ (hidden \cup gone)
               /\ hidden' = hidden \cup {i}
               /\ everHidden' = everHidden \cup {i}
               /\ UNCHANGED <<dbVars, readerVars>>

RestoreContent(i) == /\ NoneFlushed
                     /\ i \in hidden \ gone
                     /\ hidden' = hidden \ {i}
                     /\ UNCHANGED <<dbVars, everHidden, readerVars>>

-----------------------------------------------------------------------------
(* GET /changes?since_seq=c *)

(* sierx_lifecycle_event_visible: the event is about no item, or about one *)
(* whose row exists and is not restricted; and it names no restricted one. *)
Visible(e) == /\ e.row.item \notin gone
              /\ {e.row.item, e.row.ref} \cap hidden = {}

(* Mutant: the row at the cursor is read again. *)
AfterInclusive(c) == {e \in changeEvent : e.seq >= c /\ Visible(e)}

After(c) == {e \in changeEvent : e.seq > c /\ Visible(e)}

(* Mutant: a page holds one row less than the limit. *)
PageShort(c) == {e \in After(c) : Cardinality({f \in After(c) : f.seq <= e.seq}) < Limit}

(* ... ORDER BY seq LIMIT Limit *)
Page(c) == {e \in After(c) : Cardinality({f \in After(c) : f.seq <= e.seq}) <= Limit}

(* Mutant: next_seq is the head of the log instead of the page's last row. *)
PollToHead(r) == /\ Page(cursor[r]) # {}
                 /\ cursor' = [cursor EXCEPT ![r] = seqCounter]
                 /\ got' = [got EXCEPT ![r] = @ \cup Page(cursor[r])]
                 /\ UNCHANGED <<dbVars, hideVars>>

(* The page arrives and its next_seq, the last row's number, becomes the   *)
(* cursor; an empty page leaves the cursor.  A lost response changes       *)
(* nothing: the same since_seq is sent again.                              *)
Poll(r) == \E last \in Page(cursor[r]) :
             /\ \A e \in Page(cursor[r]) : e.seq <= last.seq
             /\ cursor' = [cursor EXCEPT ![r] = last.seq]
             /\ got' = [got EXCEPT ![r] = @ \cup Page(cursor[r])]
             /\ UNCHANGED <<dbVars, hideVars>>

PollEmpty(r) == /\ Page(cursor[r]) = {}
                /\ UNCHANGED vars

-----------------------------------------------------------------------------
Write(w) == Begin(w) \/ AllocateSeq(w) \/ Flush(w) \/ Commit(w) \/ Rollback(w)

Operate == \E i \in Items : Takedown(i) \/ RestoreContent(i)

Next == \/ \E w \in Writers : Write(w)
        \/ Operate
        \/ \E r \in Readers : Poll(r) \/ PollEmpty(r)

Spec == Init /\ [][Next]_vars

(* The web client polls on a timer for as long as it is open. *)
FairSpec == Spec /\ \A r \in Readers : WF_vars(Poll(r))

-----------------------------------------------------------------------------
(* Properties *)

(* The rows and the transactions stay in the shape the schema and flush    *)
(* give them; in particular no event is ever numbered below zero.          *)
TypeOK == /\ seqCounter \in Nat
          /\ seqLock \in Writers \cup {NoWriter}
          /\ tx \in [Writers -> [phase : Phases, events : Seq(EventRows), high : Nat]]
          /\ changeEvent \subseteq Events
          /\ changeSeq \in [Items -> Nat]
          /\ gone \subseteq Deletable
          /\ hidden \subseteq Items
          /\ everHidden \subseteq Items
          /\ cursor \in [Readers -> Nat]
          /\ got \in [Readers -> SUBSET Events]

(* SPEC 5.1 "gap-free": whatever was rolled back or is still in flight,    *)
(* the committed events carry exactly the numbers 1..seq_counter, each     *)
(* once (flush step (a), AllocateSeq).                                     *)
GapFree == /\ {e.seq : e \in changeEvent} = 1..seqCounter
           /\ \A e, f \in changeEvent : e.seq = f.seq => e = f

(* SPEC 5.1 "commit-ordered": a transaction still in flight can only       *)
(* commit numbers above every number already committed, so no number can   *)
(* appear behind a cursor that has passed it.                              *)
CommitOrdered == \A w \in Writers : tx[w].phase \in {"allocated", "flushed"} =>
                   \A e \in changeEvent, k \in DOMAIN tx[w].events :
                      e.seq < EventSeq(tx[w], k)

(* SPEC 5.1, ADR-002 "every committed change is observed exactly once":    *)
(* up to its cursor a reader has been handed every event that names no     *)
(* item ever taken down and whose own item still exists, and nothing that  *)
(* was not committed.  An item deleted while a reader is behind takes its  *)
(* events along (sierx_lifecycle_event_visible); an item that a change     *)
(* only names may be deleted without any loss.                             *)
NothingSkipped ==
    \A r \in Readers :
        /\ got[r] \subseteq {e \in changeEvent : e.seq <= cursor[r]}
        /\ \A e \in changeEvent :
              /\ e.seq <= cursor[r]
              /\ e.row.item \notin gone
              /\ {e.row.item, e.row.ref} \cap everHidden = {}
              => e \in got[r]

(* SPEC 5.1 "writes the allocated value to both item.change_seq and        *)
(* change_event.seq": an item's change_seq is the number of a committed    *)
(* event that covers the item, and no later event covers it, so a client   *)
(* can compare the two.                                                    *)
ChangeSeqAgrees ==
    \A i \in Items :
        /\ changeSeq[i] # 0 => \E e \in changeEvent : e.seq = changeSeq[i] /\ i \in e.row.rows
        /\ \A e \in changeEvent : i \in e.row.rows => e.seq <= changeSeq[i]

(* ADR-002 "exactly once", the other half: the page a reader would be      *)
(* served next never holds an event it has been handed before, however     *)
(* restrictions came and went in between.                                  *)
NoRedelivery == \A r \in Readers : Page(cursor[r]) \cap got[r] = {}

(* A change that is committed is eventually handed to every reader that    *)
(* keeps polling, unless an item it names is taken down or its own item is *)
(* hard deleted, as that of every terminal event is; no writer can hold    *)
(* this up by sitting on the sequence lock.                                *)
EventuallyDelivered ==
    \A r \in Readers, k \in 1..MaxSeq :
        (\E e \in changeEvent : e.seq = k)
          ~> \E e \in changeEvent : /\ e.seq = k
                                    /\ \/ e \in got[r]
                                       \/ e.row.item \in gone
                                       \/ {e.row.item, e.row.ref} \cap everHidden # {}

(* SPEC.md:471 as written: every committed change whose items a reader     *)
(* may see now, at or below its cursor, has been observed.                 *)
EveryCommittedChangeObserved ==
    \A r \in Readers : \A e \in changeEvent :
        e.seq <= cursor[r] /\ Visible(e) => e \in got[r]

(* The log as the abstract specification sees it. *)
CommittedLog == [k \in 1..seqCounter |-> (CHOOSE e \in changeEvent : e.seq = k).row]

Withholdable == {row \in EventRows : \/ row.item \in Deletable
                                     \/ {row.item, row.ref} \cap Restrictable # {}}

Log == INSTANCE ChangeLog WITH Changes <- EventRows, log <- CommittedLog, pos <- cursor

(* ADR-002: the database and its pollers implement the abstract change     *)
(* log, in which only changes that name items that can be taken down, and  *)
(* changes of items that can be hard deleted, are ever withheld from a     *)
(* reader: nothing else, and nothing out of order or twice.                *)
ImplementsLog == Log!Spec
=============================================================================
