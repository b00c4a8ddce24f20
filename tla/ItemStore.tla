----------------------------- MODULE ItemStore ------------------------------
(***************************************************************************)
(* The item tree of one project and its single write path, store.Mutate.   *)
(*                                                                         *)
(* A request first reads what it needs (the handlers of internal/api),     *)
(* then flushes under the workspace's sequence lock (store.flush).  The    *)
(* lock is held from allocation to commit, so flushes are atomic with      *)
(* respect to each other; everything a handler read before it may be old.  *)
(***************************************************************************)
EXTENDS Naturals, Sequences, FiniteSets

CONSTANTS Items,      \* item ids
          None,       \* no parent
          Requests,   \* requests in flight
          Kinds,      \* the kinds of request that are made
          Respread,   \* whether a new rank may exceed the threshold: set of BOOLEAN
          MaxDepth,   \* maximum depth of the tree (8 in the code)
          MaxSeq      \* bound on the sequence numbers of a behaviour

ASSUME ConstantsAssumption == /\ None \notin Items
                              /\ MaxDepth \in Nat \ {0}
                              /\ MaxSeq \in Nat
                              /\ Respread \subseteq BOOLEAN

VARIABLES
    row,         \* row[i]: the item row
    rollup,      \* rollup[i]: the stored item_rollup row
    links,       \* item_link rows, told apart by the sequence that made them
    seqCounter,  \* committed sequence
    req          \* req[r]: what request r has read and wants

vars == <<row, rollup, links, seqCounter, req>>

Absent == [state |-> "absent", parent |-> None, path |-> << >>, done |-> FALSE,
           commented |-> FALSE, version |-> 0, changeSeq |-> 0]

(* InsertRollupRow: an all-zero row for every created item. *)
ZeroRollup == [descendants |-> 0, done |-> 0]

NoLink == [from |-> None, to |-> None, id |-> 0]

Free == [kind |-> "free", item |-> None, other |-> None, link |-> NoLink,
         version |-> 0, seen |-> Absent]

Init == /\ row = [i \in Items |-> Absent]
        /\ rollup = [i \in Items |-> ZeroRollup]
        /\ links = {}
        /\ seqCounter = 0
        /\ req = [r \in Requests |-> Free]

Stored == {i \in Items : row[i].state \in {"live", "deleted"}}
Live   == {i \in Items : row[i].state = "live"}

-----------------------------------------------------------------------------
(* Paths and rollups *)

(* ltree p <@ q: q is p or one of its ancestors. *)
Under(p, q) == /\ Len(q) <= Len(p)
               /\ \A k \in 1..Len(q) : p[k] = q[k]

Subtree(i) == {j \in Stored : Under(row[j].path, row[i].path)}

(* dirtyAncestors: every label of a touched path but the last. *)
AncestorLabels(p) == {p[k] : k \in 1..(Len(p) - 1)}

Dirty(paths) == UNION {AncestorLabels(p) : p \in paths}

(* RecomputeRollup over rows rw: live descendants by path, itself excluded. *)
LiveBelow(rw, i) == {j \in Items : /\ rw[j].state = "live"
                                   /\ j # i
                                   /\ Under(rw[j].path, rw[i].path)}

(* Mutant: the item is subtracted although the filter leaves it out. *)
RecomputeRollupLess(rw, i) ==
    [descendants |-> Cardinality(LiveBelow(rw, i)) - 1,
     done        |-> Cardinality({j \in LiveBelow(rw, i) : rw[j].done})]

RecomputeRollup(rw, i) ==
    [descendants |-> Cardinality(LiveBelow(rw, i)),
     done        |-> Cardinality({j \in LiveBelow(rw, i) : rw[j].done})]

(* The tail of every flush: the rows as changed, each dirty ancestor's     *)
(* rollup recomputed over them, n numbers consumed.                        *)
Apply(rw, touched, n) ==
    /\ row' = rw
    /\ rollup' = [i \in Items |-> IF i \in Dirty(touched) /\ rw[i].state \in {"live", "deleted"}
                                  THEN RecomputeRollup(rw, i) ELSE rollup[i]]
    /\ seqCounter' = seqCounter + n

Touched(rw, i, s) == [rw EXCEPT ![i].version = @ + 1, ![i].changeSeq = s]

-----------------------------------------------------------------------------
(* What the code and the database check of a change to the tree *)

NewPath(i, p) == IF p = None THEN <<i>> ELSE Append(row[p].path, i)

(* Levels of the subtree of i, soft-deleted rows included. *)
Height(i) == LET deepest == CHOOSE j \in Subtree(i) :
                              \A k \in Subtree(i) : Len(row[k].path) <= Len(row[j].path)
             IN Len(row[deepest].path) - Len(row[i].path) + 1

(* A live parent, no cycle, and room for the whole subtree: checked by     *)
(* moveItem and again by applyReparent.                                    *)
MoveOK(i, p) ==
    /\ p # None => p \in Live /\ ~ Under(row[p].path, row[i].path)
    /\ (IF p = None THEN 0 ELSE Len(row[p].path)) + Height(i) <= MaxDepth

(* Trigger item_path_check on every row whose parent or path is written:   *)
(* the last label is the row, the one before it is the parent, and a new   *)
(* parent does not lie below the row.                                      *)
PathCheck(rw) ==
    \A i \in Items : <<rw[i].parent, rw[i].path>> # <<row[i].parent, row[i].path>> =>
        LET depth == Len(rw[i].path) IN
        /\ depth <= MaxDepth
        /\ rw[i].path[depth] = i
        /\ IF rw[i].parent = None THEN depth = 1
           ELSE depth >= 2 /\ rw[i].path[depth - 1] = rw[i].parent
        /\ i \in Stored /\ rw[i].parent \notin {None, row[i].parent} =>
              ~ Under(row[rw[i].parent].path, row[i].path)

-----------------------------------------------------------------------------
(* What a handler reads before Mutate.  The client sends the version it    *)
(* has, which is refused later unless it is still current.                 *)

Ask(r, kind, i, other) ==
    req' = [req EXCEPT ![r] = [kind |-> kind, item |-> i, other |-> other, link |-> NoLink,
                               version |-> row[i].version, seen |-> row[i]]]

Reserved == {req[r].item : r \in {q \in Requests : req[q].kind = "create"}}

(* createItem: a fresh id, a live parent. *)
ReadCreate(r) == \E i \in Items \ Reserved, p \in Live \cup {None} :
                    row[i].state = "absent" /\ Ask(r, "create", i, p)

(* updateItem, transitionItem, deleteItem, createComment: the item. *)
ReadItem(r, kind) == \E i \in Live : Ask(r, kind, i, None)

ReadMove(r) == \E i \in Live, p \in Live \cup {None} : MoveOK(i, p) /\ Ask(r, "move", i, p)

(* createLink; deleteLink acts on either end of an existing link. *)
ReadLink(r) == \E i, j \in Live : i # j /\ Ask(r, "link", i, j)

ReadUnlink(r) ==
    \E l \in links, i \in Items :
        /\ i \in {l.from, l.to}
        /\ req' = [req EXCEPT ![r] = [kind |-> "unlink", item |-> i, other |-> None, link |-> l,
                                      version |-> row[i].version, seen |-> row[i]]]

Read(r) == /\ req[r].kind = "free"
           /\ seqCounter < MaxSeq
           /\ \/ "create" \in Kinds /\ ReadCreate(r)
              \/ \E k \in Kinds \cap {"update", "delete", "comment"} : ReadItem(r, k)
              \/ "move" \in Kinds /\ ReadMove(r)
              \/ "link" \in Kinds /\ ReadLink(r)
              \/ "unlink" \in Kinds /\ ReadUnlink(r)
           /\ UNCHANGED <<row, rollup, links, seqCounter>>

-----------------------------------------------------------------------------
(* The flush of each kind of change *)

Answer(r) == req' = [req EXCEPT ![r] = Free]

(* Mutant: the version is not checked again under the lock. *)
ExpectedUnchecked(q) == row[q.item].state = "live"

(* SELECT version ... AND deleted_at IS NULL FOR UPDATE *)
ExpectedVersion(q) == row[q.item].state = "live" /\ row[q.item].version = q.version

(* sierx_set_project_ranks: every row of the project is given a new rank   *)
(* and version, and keeps its change_seq.                                  *)
RespreadRows(rw) == [i \in Items |-> IF rw[i].state \in {"live", "deleted"}
                                     THEN [rw[i] EXCEPT !.version = @ + 1] ELSE rw[i]]

MaybeRespread(spread, rw) == IF spread THEN RespreadRows(rw) ELSE rw

(* applyInsert.  The parent must still be stored; that it is still live is *)
(* not checked again.                                                      *)
FlushCreate(r) ==
    LET q == req[r]
        created == [Absent EXCEPT !.state = "live", !.parent = q.other,
                                  !.path = NewPath(q.item, q.other),
                                  !.version = 1, !.changeSeq = seqCounter + 1]
    IN /\ q.kind = "create"
       /\ q.other # None => q.other \in Stored
       /\ \E spread \in Respread :
            Apply([MaybeRespread(spread, row) EXCEPT ![q.item] = created], {created.path}, 1)
       /\ PathCheck(row')
       /\ Answer(r)
       /\ UNCHANGED links

(* applyUpdate, here with the change the rollups see: the status category. *)
FlushUpdate(r) ==
    LET q == req[r] IN
    /\ q.kind = "update"
    /\ ExpectedVersion(q)
    /\ Apply([Touched(row, q.item, seqCounter + 1) EXCEPT ![q.item].done = ~ @],
             {row[q.item].path}, 1)
    /\ Answer(r)
    /\ UNCHANGED links

(* SoftDeleteItem: the row only, not what is below it. *)
FlushDelete(r) ==
    LET q == req[r] IN
    /\ q.kind = "delete"
    /\ ExpectedVersion(q)
    /\ Apply([Touched(row, q.item, seqCounter + 1) EXCEPT ![q.item].state = "deleted"],
             {row[q.item].path}, 1)
    /\ Answer(r)
    /\ UNCHANGED links

(* Mutant: only the moved row is rewritten and versioned. *)
MovedOne(i, p, s) ==
    [row EXCEPT ![i] = [@ EXCEPT !.parent = p, !.path = NewPath(i, p),
                                 !.version = @ + 1, !.changeSeq = s]]

(* Mutant: the descendants' paths move but their versions stay. *)
MovedUnversioned(i, p, s) ==
    LET base == IF p = None THEN << >> ELSE row[p].path
    IN [j \in Items |->
          IF j \notin Subtree(i) THEN row[j]
          ELSE [row[j] EXCEPT !.parent = IF j = i THEN p ELSE @,
                              !.path = base \o SubSeq(@, Len(row[i].path), Len(@)),
                              !.version = IF j = i THEN @ + 1 ELSE @,
                              !.changeSeq = s]]

(* ReparentSubtree: one statement over every row at or below the item. *)
Moved(i, p, s) ==
    LET base == IF p = None THEN << >> ELSE row[p].path
    IN [j \in Items |->
          IF j \notin Subtree(i) THEN row[j]
          ELSE [row[j] EXCEPT !.parent = IF j = i THEN p ELSE @,
                              !.path = base \o SubSeq(@, Len(row[i].path), Len(@)),
                              !.version = @ + 1,
                              !.changeSeq = s]]

(* Mutant: the former ancestors are not recomputed. *)
MoveTouchesNew(i, rw) == {rw[j].path : j \in Subtree(i)}

(* The old path and the new paths of the subtree. *)
MoveTouches(i, rw) == {row[i].path} \cup {rw[j].path : j \in Subtree(i)}

(* applyReparent *)
FlushMove(r) ==
    LET q == req[r] IN
    /\ q.kind = "move"
    /\ ExpectedVersion(q)
    /\ MoveOK(q.item, q.other)
    /\ \E spread \in Respread :
         LET rw == MaybeRespread(spread, Moved(q.item, q.other, seqCounter + 1))
         IN Apply(rw, MoveTouches(q.item, rw), 1)
    /\ PathCheck(row')
    /\ Answer(r)
    /\ UNCHANGED links

(* changeLink, links of one kind: UNIQUE (from, to, kind). *)
FlushLink(r) ==
    LET q == req[r] IN
    /\ q.kind = "link"
    /\ ExpectedVersion(q)
    /\ q.other \in Stored
    /\ \A l \in links : ~ (l.from = q.item /\ l.to = q.other)
    /\ links' = links \cup {[from |-> q.item, to |-> q.other, id |-> seqCounter + 1]}
    /\ Apply(Touched(row, q.item, seqCounter + 1), {}, 1)
    /\ Answer(r)

(* Mutant: the link is found by its ends instead of its id. *)
FlushUnlinkByEnds(r) ==
    LET q == req[r] IN
    /\ q.kind = "unlink"
    /\ ExpectedVersion(q)
    /\ links' = {l \in links : ~ (l.from = q.link.from /\ l.to = q.link.to)}
    /\ Apply(Touched(row, q.item, seqCounter + 1), {}, 1)
    /\ Answer(r)

(* changeUnlink: the acting end is versioned; a link that is already gone  *)
(* is no error.                                                            *)
FlushUnlink(r) ==
    LET q == req[r] IN
    /\ q.kind = "unlink"
    /\ ExpectedVersion(q)
    /\ links' = links \ {q.link}
    /\ Apply(Touched(row, q.item, seqCounter + 1), {}, 1)
    /\ Answer(r)

(* changeComment: the owning item is versioned; comment rows are never     *)
(* removed.                                                                *)
FlushComment(r) ==
    LET q == req[r] IN
    /\ q.kind = "comment"
    /\ ExpectedVersion(q)
    /\ Apply([Touched(row, q.item, seqCounter + 1) EXCEPT ![q.item].commented = TRUE], {}, 1)
    /\ Answer(r)
    /\ UNCHANGED links

(* ErrVersionConflict, ErrInvalidMove, a constraint or a lost connection:  *)
(* the transaction rolls back and the client is told.                      *)
Refuse(r) == /\ req[r].kind # "free"
             /\ Answer(r)
             /\ UNCHANGED <<row, rollup, links, seqCounter>>

Flush(r) == /\ seqCounter < MaxSeq
            /\ \/ FlushCreate(r) \/ FlushUpdate(r) \/ FlushDelete(r) \/ FlushMove(r)
               \/ FlushLink(r) \/ FlushUnlink(r) \/ FlushComment(r)

(* HardDeleteItem, an operator path: foreign keys refuse it while a child, *)
(* a comment or a link refers to the row; the rollup row goes with it and  *)
(* the id is never used again.                                             *)
HardDelete(i) == /\ "hard_delete" \in Kinds
                 /\ seqCounter < MaxSeq
                 /\ i \in Stored
                 /\ \A j \in Stored : row[j].parent # i
                 /\ \A l \in links : i \notin {l.from, l.to}
                 /\ ~ row[i].commented
                 /\ Apply([row EXCEPT ![i] = [Absent EXCEPT !.state = "gone"]],
                          {row[i].path}, 1)
                 /\ UNCHANGED <<links, req>>

(* RebalanceProject: one summary event that names no item. *)
RebalanceProject == /\ "rebalance" \in Kinds
                    /\ seqCounter < MaxSeq
                    /\ Apply(RespreadRows(row), {}, 1)
                    /\ UNCHANGED <<links, req>>

Next == \/ \E r \in Requests : Read(r) \/ Flush(r) \/ Refuse(r)
        \/ \E i \in Items : HardDelete(i)
        \/ RebalanceProject

Spec == Init /\ [][Next]_vars

-----------------------------------------------------------------------------
(* Properties *)

RowStates == {"absent", "live", "deleted", "gone"}

Rows == [state : RowStates, parent : Items \cup {None}, path : Seq(Items),
         done : BOOLEAN, commented : BOOLEAN, version : Nat, changeSeq : Nat]

Links == [from : Items, to : Items, id : Nat]

RequestKinds == {"free", "create", "update", "delete", "comment", "move", "link", "unlink"}

(* Rows, rollup counts, links and requests keep the shape of the schema;   *)
(* no count a recompute stores is negative.                                *)
TypeOK == /\ row \in [Items -> Rows]
          /\ rollup \in [Items -> [descendants : Nat, done : Nat]]
          /\ links \subseteq Links
          /\ seqCounter \in Nat
          /\ req \in [Requests -> [kind : RequestKinds, item : Items \cup {None},
                                   other : Items \cup {None}, link : Links \cup {NoLink},
                                   version : Nat, seen : Rows]]

(* SPEC 5.3: in every interleaving of creates, moves and deletes that read *)
(* the tree before the lock, a stored item's path is its parent's path and *)
(* its own id, its parent is stored, nothing is its own ancestor, and no   *)
(* path is deeper than the limit.                                          *)
PathsAgree ==
    \A i \in Stored :
        /\ row[i].parent = None => row[i].path = <<i>>
        /\ row[i].parent # None => /\ row[i].parent \in Stored
                                   /\ row[i].path = Append(row[row[i].parent].path, i)
        /\ Len(row[i].path) <= MaxDepth
        /\ \A k, m \in 1..Len(row[i].path) : row[i].path[k] = row[i].path[m] => k = m

(* The n-th ancestor by parent_id alone. *)
Ascend[n \in 0..MaxDepth] ==
    IF n = 0 THEN [i \in Items |-> i]
    ELSE [i \in Items |-> IF Ascend[n - 1][i] = None THEN None
                          ELSE row[Ascend[n - 1][i]].parent]

Descends(j, i) == \E n \in 1..MaxDepth : Ascend[n][j] = i

(* SPEC 5.2, ADR-005, ADR-013: the stored rollup of every item, leaf or    *)
(* not, equals what a fresh aggregate over the live items below it by      *)
(* parent_id gives, although only the dirty ancestors are recomputed and   *)
(* only by path.                                                           *)
RollupExact ==
    \A i \in Stored :
        LET below == {j \in Live : Descends(j, i)} IN
        /\ rollup[i].descendants = Cardinality(below)
        /\ rollup[i].done = Cardinality({j \in below : row[j].done})

(* What the client that holds a version was shown of the item. *)
Content(w) == <<w.state, w.parent, w.path, w.done>>

(* SPEC 5.4 "Without this, ... silent last-write-wins": a version stands   *)
(* for one content.  A request whose version is still current is about to  *)
(* overwrite exactly what its client saw, ancestry included.               *)
VersionNamesContent ==
    \A r \in Requests :
        LET q == req[r] IN
        q.kind \notin {"free", "create"} /\ ExpectedVersion(q) =>
            Content(row[q.item]) = Content(q.seen)

(* SPEC 5.4: no step overwrites an item with the change of a request whose *)
(* client has not seen the item's latest content.                          *)
NoLostUpdate ==
    [][\A r \in Requests :
          LET q == req[r] IN
          q.kind \in {"update", "delete", "move"} /\ req'[r].kind = "free" /\ seqCounter' # seqCounter
             => Content(row[q.item]) = Content(q.seen)]_vars

(* deleteLink, from either end: a link that was removed and made again     *)
(* between the client's look and the flush is a new link, and an unlink    *)
(* removes only the one its client was shown.                              *)
UnlinkExact ==
    [][\A l \in links \ links' : \E r \in Requests :
          req[r].link = l /\ req'[r].kind = "free"]_vars
=============================================================================
