--------------------------- MODULE LifecycleProofs ---------------------------
(***************************************************************************)
(* Proofs about Lifecycle, for every number of operator processes,         *)
(* requests, items and holds, and every number of crashes and restores.    *)
(***************************************************************************)
EXTENDS Lifecycle, SequenceTheorems, TLAPS

USE LifecycleAssumption

(* What sierx_lifecycle_plan lets into the journal: a decision names a     *)
(* hold exactly when it is about one.                                      *)
RecordOK(r) == /\ r.kind = "hold-create" => r.hold \in Holds
               /\ r.hold \in Holds => r.kind \in {"hold-create", "hold-release"}

RecordType == {r \in [seq : Nat, kind : AllKinds, hold : Holds \cup {NoOp}, ids : SUBSET Items] :
                  RecordOK(r)}

Journals == Seq(RecordType)

ExportType == [state : {"none", "live", "closed", "account", "workspace"},
               contents : SUBSET Items]

DbType == [head : Journals, holds : [Holds -> {"none", "active", "released"}],
           deleted : SUBSET Items, redacted : SUBSET Items, hidden : SUBSET Items,
           export : ExportType]

OpType == [phase : {"idle", "start", "creating", "loaded", "begun", "written", "synced",
                    "renamed", "appended"},
           mode : {"none", "init", "reconcile", "replay", "apply"},
           todo : Seq(AllKinds), j : Journals, tx : DbType]

TypeInv == /\ journal \in Journals /\ checkpoint \in Journals /\ safeHead \in Journals
           /\ synced \in Nat
           /\ op \in [Ops -> OpType]
           /\ db \in DbType /\ backup \in DbType
           /\ req \in [Requests -> [phase : {"idle", "checking", "serving"}, expected : Journals]]
           /\ export \in ExportType

(* A hold that was created and not released keeps the database from        *)
(* planning what it forbids; what was redacted is gone.                    *)
HoldsKept(d) ==
    \A m \in 1..Len(d.head) :
       /\ d.head[m].kind = "hold-create"
       /\ \A n \in (m + 1)..Len(d.head) :
             ~ (d.head[n].kind = "hold-release" /\ d.head[n].hold = d.head[m].hold)
       => d.holds[d.head[m].hold] = "active"

RedactionsKept(d) ==
    \A m \in 1..Len(d.head) : d.head[m].kind \in Destroying => d.head[m].ids \subseteq d.redacted

ExportClean(d) == d.export.state = "live" => d.export.contents \subseteq Visible(d)

(* A database as decisions make it. *)
GoodDb(d) == d \in DbType /\ HoldsKept(d) /\ RedactionsKept(d)

(* s is what t was before its later records. *)
Below(s, t) == Len(s) <= Len(t) /\ \A k \in 1..Len(s) : s[k] = t[k]

(* One process at a time is between Lock and the end, and from BEGIN on    *)
(* the database's decisions are its own.                                   *)
InTransaction(p) == \/ p.phase \in {"begun", "written", "appended"}
                    \/ p.phase \in {"synced", "renamed"} /\ p.mode # "reconcile"

OpInv(o) ==
    LET p == op[o] IN
    /\ Running(o) => lock = o
    /\ p.phase \in {"loaded", "begun", "written", "synced", "renamed", "appended"} => p.j = journal
    /\ InTransaction(p) => dbLock = o
    /\ p.mode = "apply" => p.todo # << >>
    /\ p.phase = "start" => p.mode = "apply"
    /\ p.phase \in {"loaded", "begun"} => p.mode \in {"apply", "replay"}
    /\ p.phase \in {"written", "appended"} => p.mode = "apply"
    /\ p.phase \in {"synced", "renamed"} => p.mode \in {"apply", "reconcile"}
    /\ GoodDb(p.tx)
    /\ p.phase = "begun" => db.redacted \subseteq p.tx.redacted
    /\ InTransaction(p) /\ p.phase # "begun" =>
          Len(journal) = Len(db.head) + 1 /\ Below(db.head, journal)

(* The records in the journal count up. *)
SeqInv == \A k \in 1..Len(journal) : journal[k].seq = k

(* What a host crash leaves: outside the two steps that are about to sync, *)
(* everything is on disk.                                                  *)
FileInv == /\ Below(checkpoint, journal) /\ Below(safeHead, checkpoint)
           /\ Below(db.head, safeHead) /\ Below(backup.head, safeHead)
           /\ Len(checkpoint) <= synced /\ synced <= Len(journal)
           /\ synced = Len(journal) \/ \E o \in Ops : op[o].phase = "written"
           /\ safeHead = checkpoint \/ \E o \in Ops : op[o].phase = "renamed"
           /\ \A o \in Ops : op[o].phase \in {"loaded", "begun", "renamed", "appended"}
                                => checkpoint = journal

(* A live export and one that is being created hold visible content only,  *)
(* if the creation locks before it reads.                                  *)
ExportInv == /\ ExportClean(db) /\ ExportClean(backup)
             /\ \A o \in Ops : ExportClean(op[o].tx)
             /\ export.state \in {"none", "account"}
             /\ export.state = "account" => /\ dbLock = NoOp
                                            /\ export.contents \subseteq Visible(db)

(* The first five parts need nothing; that crashes lose nothing which was  *)
(* relied on needs the write-back of what a dead process left, and that    *)
(* exports are clean needs a creation that locks before it reads.          *)
LocksFirst == ExportKinds \subseteq {"account"}

IInv == /\ TypeInv
        /\ GoodDb(db) /\ GoodDb(backup)
        /\ \A o \in Ops : OpInv(o)
        /\ SeqInv
        /\ HoldsRespected
        /\ ServedWithoutRedacted
        /\ Writeback => FileInv
        /\ LocksFirst => ExportInv

-----------------------------------------------------------------------------
(* Record chains *)

LEMMA RecordParts ==
  ASSUME NEW s \in Journals
  PROVE  /\ Len(s) \in Nat /\ DOMAIN s = 1..Len(s)
         /\ \A k \in 1..Len(s) : s[k] \in RecordType
BY LenProperties, ElementOfSeq DEF Journals

LEMMA Appending ==
  ASSUME NEW s \in Journals, NEW r \in RecordType
  PROVE  /\ Append(s, r) \in Journals
         /\ Len(s) \in Nat /\ Len(Append(s, r)) = Len(s) + 1
         /\ \A k \in 1..Len(s) : Append(s, r)[k] = s[k]
         /\ Append(s, r)[Len(s) + 1] = r
BY LenProperties, AppendProperties DEF Journals

LEMMA Truncating ==
  ASSUME NEW s \in Journals, NEW n \in 0..Len(s)
  PROVE  /\ SubSeq(s, 1, n) \in Journals
         /\ Len(SubSeq(s, 1, n)) = n
         /\ \A k \in 1..n : SubSeq(s, 1, n)[k] = s[k]
<1>1. Len(s) \in Nat /\ n \in Nat /\ \A k \in 1..n : s[k] \in RecordType
  BY RecordParts
<1>2. 1 \in Int /\ n \in Int /\ \A k \in 1..n : s[k] \in RecordType
  BY <1>1
<1>3. /\ SubSeq(s, 1, n) \in Seq(RecordType)
      /\ Len(SubSeq(s, 1, n)) = IF 1 <= n THEN n - 1 + 1 ELSE 0
      /\ \A k \in 1..(n - 1 + 1) : SubSeq(s, 1, n)[k] = s[1 + k - 1]
  BY <1>2, SubSeqProperties
<1> QED
  BY <1>1, <1>3 DEF Journals

LEMMA SameJournal ==
  ASSUME NEW s \in Journals, NEW t \in Journals, Len(s) = Len(t), Below(s, t)
  PROVE  s = t
BY SeqEqual DEF Journals, Below

LEMMA BelowIsPrefix ==
  ASSUME NEW s \in Journals, NEW t \in Journals
  PROVE  IsPrefix(s, t) <=> Below(s, t)
<1>1. Len(s) \in Nat /\ Len(t) \in Nat
  BY RecordParts
<1>2. ASSUME Len(s) <= Len(t)
      PROVE  SubSeq(s, 1, Len(s)) = SubSeq(t, 1, Len(s)) <=> \A k \in 1..Len(s) : s[k] = t[k]
  <2> DEFINE a == SubSeq(s, 1, Len(s))
             b == SubSeq(t, 1, Len(s))
  <2>1. Len(s) \in 0..Len(s) /\ Len(s) \in 0..Len(t)
    BY <1>1, <1>2
  <2>2. a \in Journals /\ Len(a) = Len(s) /\ \A k \in 1..Len(s) : a[k] = s[k]
    BY <2>1, Truncating
  <2>3. b \in Journals /\ Len(b) = Len(s) /\ \A k \in 1..Len(s) : b[k] = t[k]
    BY <2>1, Truncating
  <2> HIDE DEF a, b
  <2>4. ASSUME \A k \in 1..Len(s) : s[k] = t[k] PROVE a = b
    BY <2>2, <2>3, <2>4, SeqEqual DEF Journals
  <2>5. ASSUME a = b PROVE \A k \in 1..Len(s) : s[k] = t[k]
    BY <2>2, <2>3, <2>5
  <2> QED
    BY <2>4, <2>5 DEF a, b
<1> QED
  BY <1>2 DEF IsPrefix, Below

LEMMA BelowTransitive ==
  ASSUME NEW s \in Journals, NEW t \in Journals, NEW u \in Journals, Below(s, t), Below(t, u)
  PROVE  Below(s, u)
<1>1. Len(s) \in Nat /\ Len(t) \in Nat /\ Len(u) \in Nat
  BY RecordParts
<1> QED
  BY <1>1 DEF Below

LEMMA BelowItself == ASSUME NEW s \in Journals PROVE Below(s, s)
BY RecordParts DEF Below

LEMMA BelowAppended ==
  ASSUME NEW s \in Journals, NEW t \in Journals, NEW r \in RecordType, Below(s, t)
  PROVE  Below(s, Append(t, r))
<1>1. Len(s) \in Nat /\ Len(t) \in Nat
  BY RecordParts
<1> QED
  BY <1>1, Appending DEF Below

-----------------------------------------------------------------------------
(* sierx_lifecycle_apply *)

LEMMA RecordFields ==
  ASSUME NEW r \in RecordType
  PROVE  /\ r.seq \in Nat /\ r.kind \in AllKinds /\ r.hold \in Holds \cup {NoOp}
         /\ r.ids \in SUBSET Items /\ RecordOK(r)
BY DEF RecordType

LEMMA ExportAfterType ==
  ASSUME NEW d \in DbType, NEW r \in RecordType, NEW held \in BOOLEAN
  PROVE  /\ ExportAfter(d, r, held) \in ExportType
         /\ ExportAfter(d, r, held).state = "live" =>
               /\ ExportAfter(d, r, held) = d.export
               /\ r.kind \notin Destroying \cup {"takedown"}
<1>1. d.export \in ExportType /\ NoExport \in ExportType /\ NoExport.state = "none"
  BY DEF DbType, ExportType, NoExport
<1>2. [d.export EXCEPT !.state = "closed"] \in ExportType
      /\ [d.export EXCEPT !.state = "closed"].state = "closed"
  BY <1>1 DEF ExportType
<1> QED
  BY <1>1, <1>2 DEF ExportAfter

LEMMA AppliedFields ==
  ASSUME NEW d \in DbType, NEW r \in RecordType, NEW e, e = Applied(d, r)
  PROVE  /\ e \in DbType
         /\ e.head = Append(d.head, r)
         /\ \A h \in Holds : e.holds[h] = IF h # r.hold THEN d.holds[h]
                                          ELSE IF r.kind = "hold-create" THEN "active"
                                          ELSE "released"
         /\ e.redacted = d.redacted \cup (IF r.kind \in Destroying THEN r.ids ELSE {})
         /\ e.hidden \subseteq d.hidden \cup (IF r.kind = "takedown" THEN r.ids ELSE {})
         /\ e.export.state = "live" => e.export = d.export
                                       /\ r.kind \notin Destroying \cup {"takedown"}
<1> DEFINE holds == [h \in Holds |-> IF h # r.hold THEN d.holds[h]
                                     ELSE IF r.kind = "hold-create" THEN "active" ELSE "released"]
           held == \E h \in Holds : holds[h] = "active"
           hits(kinds) == IF r.kind \in kinds THEN r.ids ELSE {}
           x == ExportAfter(d, r, held)
<1>1. /\ d.head \in Journals /\ d.holds \in [Holds -> {"none", "active", "released"}]
      /\ d.deleted \subseteq Items /\ d.redacted \subseteq Items /\ d.hidden \subseteq Items
  BY DEF DbType
<1>2. holds \in [Holds -> {"none", "active", "released"}]
  BY <1>1
<1>3. held \in BOOLEAN
  OBVIOUS
<1>4. r.ids \subseteq Items /\ Append(d.head, r) \in Journals
  BY <1>1, RecordFields, Appending
<1>5. x \in ExportType /\ (x.state = "live" => x = d.export
                                               /\ r.kind \notin Destroying \cup {"takedown"})
  BY <1>3, ExportAfterType
<1>6. \A kinds : hits(kinds) \subseteq Items
  BY <1>4
<1>7. e = [head |-> Append(d.head, r), holds |-> holds,
           deleted |-> d.deleted \cup hits(Destroying),
           redacted |-> d.redacted \cup hits(Destroying),
           hidden |-> (d.hidden \cup hits({"takedown"})) \ hits({"restore-content"}),
           export |-> x]
  BY DEF Applied
<1> HIDE DEF held, x
<1>8. e \in DbType
  <2>1. /\ d.deleted \cup hits(Destroying) \in SUBSET Items
        /\ d.redacted \cup hits(Destroying) \in SUBSET Items
        /\ (d.hidden \cup hits({"takedown"})) \ hits({"restore-content"}) \in SUBSET Items
    BY <1>1, <1>6
  <2> HIDE DEF holds, hits
  <2> QED
    BY <1>2, <1>4, <1>5, <1>7, <2>1 DEF DbType
<1>9. e.head = Append(d.head, r) /\ e.holds = holds /\ e.export = x
      /\ e.redacted = d.redacted \cup hits(Destroying)
      /\ e.hidden = (d.hidden \cup hits({"takedown"})) \ hits({"restore-content"})
  <2> HIDE DEF holds, hits
  <2> QED
    BY <1>7
<1>10. e.hidden \subseteq d.hidden \cup (IF r.kind = "takedown" THEN r.ids ELSE {})
  BY <1>9
<1> QED
  BY <1>5, <1>8, <1>9, <1>10

(* Applying a decision keeps a database good. *)
LEMMA AppliedGood ==
  ASSUME NEW d, GoodDb(d), NEW r \in RecordType
  PROVE  /\ GoodDb(Applied(d, r))
         /\ Applied(d, r).head = Append(d.head, r)
         /\ d.redacted \subseteq Applied(d, r).redacted
         /\ ExportClean(d) => ExportClean(Applied(d, r))
<1> SUFFICES ASSUME NEW e, e = Applied(d, r)
             PROVE  /\ GoodDb(e) /\ e.head = Append(d.head, r)
                    /\ d.redacted \subseteq e.redacted
                    /\ ExportClean(d) => ExportClean(e)
  OBVIOUS
<1>1. /\ e \in DbType
      /\ e.head = Append(d.head, r)
      /\ \A h \in Holds : e.holds[h] = IF h # r.hold THEN d.holds[h]
                                       ELSE IF r.kind = "hold-create" THEN "active"
                                       ELSE "released"
      /\ e.redacted = d.redacted \cup (IF r.kind \in Destroying THEN r.ids ELSE {})
      /\ e.hidden \subseteq d.hidden \cup (IF r.kind = "takedown" THEN r.ids ELSE {})
      /\ e.export.state = "live" => e.export = d.export
                                    /\ r.kind \notin Destroying \cup {"takedown"}
  BY AppliedFields DEF GoodDb
<1> DEFINE n == Len(d.head)
<1>2. /\ n \in Nat /\ Len(e.head) = n + 1 /\ e.head[n + 1] = r
      /\ \A k \in 1..n : e.head[k] = d.head[k] /\ d.head[k] \in RecordType
  BY <1>1, Appending, RecordParts DEF GoodDb, DbType
<1> HIDE DEF n
<1>3. \A k \in 1..(n + 1) : k \in 1..n \/ k = n + 1
  BY <1>2
<1>4. HoldsKept(e)
  <2> SUFFICES ASSUME NEW m \in 1..(n + 1), e.head[m].kind = "hold-create",
                      \A k \in (m + 1)..(n + 1) :
                        ~ (e.head[k].kind = "hold-release" /\ e.head[k].hold = e.head[m].hold)
               PROVE  e.holds[e.head[m].hold] = "active"
    BY <1>2 DEF HoldsKept
  <2>1. CASE m = n + 1
    BY <1>1, <1>2, <2>1, RecordFields DEF RecordOK
  <2>2. CASE m \in 1..n
    <3> DEFINE h == d.head[m].hold
    <3>1. e.head[m] = d.head[m] /\ d.head[m] \in RecordType
      BY <1>2, <2>2
    <3>2. h \in Holds
      BY <3>1, RecordFields DEF RecordOK
    <3>3. \A k \in (m + 1)..n : k \in (m + 1)..(n + 1) /\ e.head[k] = d.head[k]
      BY <1>2, <2>2
    <3>4. d.holds[h] = "active"
      BY <2>2, <3>1, <3>3 DEF GoodDb, HoldsKept, n
    <3>5. n + 1 \in (m + 1)..(n + 1)
      BY <1>2, <2>2
    <3>6. ~ (r.kind = "hold-release" /\ r.hold = h)
      BY <1>2, <3>1, <3>5
    <3>7. r.hold = h => r.kind = "hold-create"
      BY <3>2, <3>6, RecordFields DEF RecordOK
    <3> QED
      BY <1>1, <3>1, <3>2, <3>4, <3>7
  <2> QED
    BY <1>3, <2>1, <2>2
<1>5. RedactionsKept(e)
  <2>1. ASSUME NEW m \in 1..(n + 1), e.head[m].kind \in Destroying
        PROVE  e.head[m].ids \subseteq e.redacted
    <3>1. CASE m = n + 1
      BY <1>1, <1>2, <2>1, <3>1
    <3>2. CASE m \in 1..n
      BY <1>1, <1>2, <2>1, <3>2 DEF GoodDb, RedactionsKept, n
    <3> QED
      BY <1>3, <3>1, <3>2
  <2> QED
    BY <1>2, <2>1 DEF RedactionsKept
<1>6. ExportClean(d) => ExportClean(e)
  BY <1>1 DEF ExportClean, Visible
<1> QED
  BY <1>1, <1>4, <1>5, <1>6 DEF GoodDb

-----------------------------------------------------------------------------
(* Processes *)

(* A process that holds nothing: what the others do cannot matter to it. *)
Quiet(p) == /\ p.phase \in {"idle", "start"}
            /\ p.mode = "apply" => p.todo # << >>
            /\ p.phase = "start" => p.mode = "apply"
            /\ GoodDb(p.tx)

LEMMA EmptyGood == GoodDb(EmptyDb) /\ ExportClean(EmptyDb)
<1>1. << >> \in Journals /\ Len(<< >>) = 0
  BY EmptySeq DEF Journals
<1>2. NoExport \in ExportType /\ NoExport.state = "none"
  BY DEF NoExport, ExportType
<1>3. EmptyDb \in DbType /\ EmptyDb.head = << >> /\ EmptyDb.export = NoExport
  BY <1>1, <1>2 DEF EmptyDb, DbType
<1>4. \A m \in 1..Len(EmptyDb.head) : FALSE
  BY <1>1, <1>3
<1> QED
  BY <1>2, <1>3, <1>4 DEF GoodDb, HoldsKept, RedactionsKept, ExportClean

LEMMA IdleOpType == /\ IdleOp \in OpType /\ Quiet(IdleOp) /\ ExportClean(IdleOp.tx)
                    /\ IdleOp.phase = "idle"
<1>1. << >> \in Journals /\ << >> \in Seq(AllKinds)
  BY EmptySeq DEF Journals
<1>2. EmptyDb \in DbType
  BY EmptyGood DEF GoodDb
<1>3. /\ IdleOp \in OpType /\ IdleOp.tx = EmptyDb /\ IdleOp.phase = "idle"
      /\ IdleOp.mode = "none"
  BY <1>1, <1>2 DEF IdleOp, OpType
<1> QED
  BY <1>3, EmptyGood DEF Quiet

(* A process ends, or goes on to its next decision. *)
LEMMA ExitOp ==
  ASSUME TypeInv, NEW o \in Ops, Exit(o)
  PROVE  \E q \in OpType : op' = [op EXCEPT ![o] = q] /\ Quiet(q) /\ ExportClean(q.tx)
<1> DEFINE todo == op[o].todo
<1>1. todo \in Seq(AllKinds)
  BY DEF TypeInv, OpType
<1>2. CASE Len(todo) > 1
  <2>1. Tail(todo) \in Seq(AllKinds) /\ Tail(todo) # << >>
    <3>1. todo # << >> /\ Len(todo) \in Nat
      BY <1>1, <1>2, LenProperties, EmptySeq
    <3>2. PICK t : t = Tail(todo) /\ t \in Seq(AllKinds) /\ Len(t) = Len(todo) - 1
      BY <1>1, <3>1, HeadTailProperties
    <3>3. Len(t) # 0
      BY <1>2, <3>1, <3>2
    <3>4. t # << >>
      BY <3>3, EmptySeq
    <3> QED
      BY <3>2, <3>4
  <2> DEFINE q == [IdleOp EXCEPT !.phase = "start", !.mode = "apply", !.todo = Tail(todo)]
  <2>2. op' = [op EXCEPT ![o] = q]
    BY <1>2 DEF Exit
  <2> HIDE DEF todo
  <2>3. q \in OpType /\ q.phase = "start" /\ q.mode = "apply" /\ q.todo = Tail(todo)
        /\ q.tx = IdleOp.tx
    BY <2>1, IdleOpType DEF OpType
  <2> HIDE DEF q
  <2>4. Quiet(q) /\ ExportClean(q.tx)
    BY <2>1, <2>3, IdleOpType DEF Quiet
  <2> QED
    BY <2>2, <2>3, <2>4
<1>3. CASE ~ (Len(todo) > 1)
  <2>1. op' = [op EXCEPT ![o] = IdleOp]
    BY <1>3 DEF Exit
  <2> QED
    BY <2>1, IdleOpType
<1> QED
  BY <1>2, <1>3

LEMMA QuietOp ==
  ASSUME NEW o \in Ops, Quiet(op'[o])
  PROVE  OpInv(o)'
BY DEF Quiet, OpInv, Running, InTransaction

LEMMA NotRunningIsQuiet ==
  ASSUME IInv, NEW o \in Ops, ~ Running(o)
  PROVE  Quiet(op[o])
BY DEF IInv, OpInv, Running, Quiet

(* Between Lock and the end there is one process. *)
LEMMA Alone ==
  ASSUME IInv, NEW o, lock = o
  PROVE  \A p \in Ops : p # o => Quiet(op[p])
<1> SUFFICES ASSUME NEW p \in Ops, p # o PROVE Quiet(op[p])
  OBVIOUS
<1>1. ~ Running(p)
  BY DEF IInv, OpInv
<1> QED
  BY <1>1, NotRunningIsQuiet

(* A step of the process that owns the lock, or takes it. *)
LEMMA StepOp ==
  ASSUME IInv, NEW o \in Ops, lock \in {o, NoOp}, NEW q \in OpType,
         op' = [op EXCEPT ![o] = q], OpInv(o)'
  PROVE  (\A p \in Ops : OpInv(p)') /\ op' \in [Ops -> OpType]
<1>1. op \in [Ops -> OpType]
  BY DEF IInv, TypeInv
<1>2. ASSUME NEW p \in Ops, p # o PROVE OpInv(p)'
  <2>1. op'[p] = op[p]
    BY <1>1, <1>2
  <2>2. p # lock
    BY <1>2
  <2>3. Quiet(op[p])
    BY <2>2, Alone
  <2> QED
    BY <2>1, <2>3, QuietOp
<1> QED
  BY <1>1, <1>2

LEMMA EndOp ==
  ASSUME IInv, NEW o \in Ops, lock = o, NEW q \in OpType,
         op' = [op EXCEPT ![o] = q], Quiet(q)
  PROVE  (\A p \in Ops : OpInv(p)' /\ Quiet(op'[p])) /\ op' \in [Ops -> OpType]
<1>1. op'[o] = q
  BY DEF IInv, TypeInv
<1>2. (\A p \in Ops : OpInv(p)') /\ op' \in [Ops -> OpType]
  BY <1>1, QuietOp, StepOp
<1>3. \A p \in Ops : p # o => op'[p] = op[p]
  BY DEF IInv, TypeInv
<1> QED
  BY <1>1, <1>2, <1>3, Alone

-----------------------------------------------------------------------------
(* What the properties say of a journal and of a request *)

LEMMA HeldBeforeBelow ==
  ASSUME NEW s \in Journals, NEW t \in Journals, NEW k \in 1..Len(s), Below(s, t)
  PROVE  HeldBefore(s, k) <=> HeldBefore(t, k)
<1>1. Len(s) \in Nat /\ \A m \in 1..(k - 1) : /\ s[m] = t[m]
                                              /\ \A n \in (m + 1)..(k - 1) : s[n] = t[n]
  BY RecordParts DEF Below
<1> QED
  BY <1>1 DEF HeldBefore

HoldsIn(s) == \A k \in 1..Len(s) : s[k].kind \in Destroying => ~ HeldBefore(s, k)

LEMMA HoldsRespectedIn == TypeInv => (HoldsRespected <=> HoldsIn(journal))
BY RecordParts DEF TypeInv, HoldsRespected, HoldsIn

LEMMA HoldsInBelow ==
  ASSUME NEW s \in Journals, NEW t \in Journals, Below(s, t), HoldsIn(t)
  PROVE  HoldsIn(s)
<1>1. Len(s) \in Nat /\ Len(t) \in Nat /\ \A k \in 1..Len(s) : k \in 1..Len(t) /\ s[k] = t[k]
  BY RecordParts DEF Below
<1> QED
  BY <1>1, HeldBeforeBelow DEF HoldsIn

(* A decision planned in a database that has applied the whole journal. *)
LEMMA PlannedHolds ==
  ASSUME NEW d, GoodDb(d), HoldsIn(d.head), NEW r \in RecordType, Plan(d, r)
  PROVE  HoldsIn(Append(d.head, r))
<1> DEFINE s == d.head
           t == Append(s, r)
           n == Len(s)
<1>1. s \in Journals /\ t \in Journals /\ n \in Nat /\ Len(t) = n + 1 /\ t[n + 1] = r
      /\ \A k \in 1..n : t[k] = s[k] /\ s[k] \in RecordType
  BY Appending, RecordParts DEF GoodDb, DbType
<1>2. Below(s, t)
  BY <1>1 DEF Below
<1>3. ASSUME r.kind \in Destroying, HeldBefore(t, n + 1) PROVE FALSE
  <2>1. ~ ActiveHold(d)
    BY <1>3 DEF Plan
  <2>2. PICK m \in 1..n :
          /\ t[m].kind = "hold-create"
          /\ \A k \in (m + 1)..n : ~ (t[k].kind = "hold-release" /\ t[k].hold = t[m].hold)
    BY <1>1, <1>3 DEF HeldBefore
  <2>3. \A k \in (m + 1)..n : t[k] = s[k]
    BY <1>1
  <2>4. s[m].kind = "hold-create" /\ s[m] \in RecordType
        /\ \A k \in (m + 1)..n : ~ (s[k].kind = "hold-release" /\ s[k].hold = s[m].hold)
    BY <1>1, <2>2, <2>3
  <2>5. d.holds[s[m].hold] = "active"
    BY <2>4 DEF GoodDb, HoldsKept
  <2>6. s[m].hold \in Holds
    BY <2>4, RecordFields DEF RecordOK
  <2> QED
    BY <2>1, <2>5, <2>6 DEF ActiveHold
<1>4. ASSUME NEW k \in 1..(n + 1), t[k].kind \in Destroying PROVE ~ HeldBefore(t, k)
  <2>1. CASE k = n + 1
    BY <1>1, <1>3, <1>4, <2>1
  <2>2. CASE k \in 1..n
    BY <1>1, <1>2, <1>4, <2>2, HeldBeforeBelow DEF HoldsIn
  <2> QED
    BY <1>1, <2>1, <2>2
<1> QED
  BY <1>1, <1>4 DEF HoldsIn

LEMMA RedactedInDb == ASSUME NEW d, GoodDb(d) PROVE RedactedBy(d.head) \subseteq d.redacted
<1>1. DOMAIN d.head = 1..Len(d.head)
  BY RecordParts DEF GoodDb, DbType
<1> QED
  BY <1>1 DEF GoodDb, RedactionsKept, RedactedBy

LEMMA ServedKept ==
  ASSUME ServedWithoutRedacted, UNCHANGED req, db.redacted \subseteq db'.redacted
  PROVE  ServedWithoutRedacted'
BY DEF ServedWithoutRedacted

-----------------------------------------------------------------------------
(* Steps of the process that owns the lock *)

(* Unless the owner of the lock is about to sync it, all is on disk. *)
LEMMA OnDisk ==
  ASSUME IInv, FileInv, NEW o, lock = o
  PROVE  /\ op[o].phase # "written" \/ o \notin Ops => synced = Len(journal)
         /\ op[o].phase # "renamed" \/ o \notin Ops => safeHead = checkpoint
<1>1. \A p \in Ops : p # o => op[p].phase \in {"idle", "start"}
  BY Alone DEF Quiet
<1> QED
  BY <1>1 DEF FileInv

LEMMA Combine ==
  ASSUME IInv, UNCHANGED <<journal, req>>,
         checkpoint' \in Journals, safeHead' \in Journals, synced' \in Nat,
         export' \in ExportType,
         \A p \in Ops : OpInv(p)', op' \in [Ops -> OpType],
         GoodDb(db'), GoodDb(backup'), db.redacted \subseteq db'.redacted,
         Writeback => FileInv', LocksFirst => ExportInv'
  PROVE  IInv'
<1>1. TypeInv'
  BY DEF IInv, TypeInv, GoodDb
<1>2. SeqInv' /\ HoldsRespected'
  BY DEF IInv, SeqInv, HoldsRespected
<1>3. ServedWithoutRedacted'
  BY ServedKept DEF IInv
<1>4. GoodDb(db)' /\ GoodDb(backup)'
  BY DEF GoodDb, HoldsKept, RedactionsKept
<1> QED
  BY <1>1, <1>2, <1>3, <1>4 DEF IInv

(* A step that moves its phase and nothing that is shared. *)
LEMMA OwnerStep ==
  ASSUME IInv, NEW o \in Ops, lock \in {o, NoOp}, NEW q \in OpType,
         op' = [op EXCEPT ![o] = q], OpInv(o)',
         UNCHANGED <<journal, checkpoint, safeHead, synced, db, backup, req, export>>,
         op[o].phase \notin {"written", "renamed"},
         q.phase \in {"loaded", "begun", "renamed", "appended"} /\ Writeback => checkpoint = journal,
         LocksFirst => ExportClean(q.tx),
         export.state = "account" => dbLock' = dbLock
  PROVE  IInv'
<1>1. (\A p \in Ops : OpInv(p)') /\ op' \in [Ops -> OpType]
  BY StepOp
<1>2. \A p \in Ops : op'[p] = IF p = o THEN q ELSE op[p]
  BY DEF IInv, TypeInv
<1>3. ASSUME Writeback PROVE FileInv'
  <2>1. FileInv
    BY <1>3 DEF IInv
  <2>2. synced = Len(journal) /\ safeHead = checkpoint
    BY <2>1, OnDisk
  <2>3. \A p \in Ops : op'[p].phase \in {"loaded", "begun", "renamed", "appended"}
                          => checkpoint = journal
    BY <1>2, <1>3, <2>1 DEF FileInv
  <2> QED
    BY <2>1, <2>2, <2>3 DEF FileInv, Below
<1>4. ASSUME LocksFirst PROVE ExportInv'
  <2>1. ExportInv
    BY <1>4 DEF IInv
  <2>2. \A p \in Ops : ExportClean(op'[p].tx)
    BY <1>2, <1>4, <2>1 DEF ExportInv
  <2> QED
    BY <2>1, <2>2 DEF ExportInv, ExportClean, Visible
<1>5. /\ checkpoint' \in Journals /\ safeHead' \in Journals /\ synced' \in Nat
      /\ export' \in ExportType /\ GoodDb(db') /\ GoodDb(backup')
  BY DEF IInv, TypeInv
<1> QED
  BY <1>1, <1>3, <1>4, <1>5, Combine

(* The end of a process, by itself or by a fault.  The files are as they   *)
(* were or all is on disk; the database is as it was, or the transaction   *)
(* that held its lock committed.                                           *)
LEMMA OwnerEnds ==
  ASSUME IInv, NEW o \in Ops, lock = o, NEW q \in OpType,
         op' = [op EXCEPT ![o] = q], Quiet(q), ExportClean(q.tx),
         UNCHANGED <<journal, checkpoint, backup, req, export>>,
         safeHead' \in Journals, synced' \in Nat,
         Writeback => synced' = Len(journal) /\ safeHead' = checkpoint,
         Writeback => Below(db'.head, checkpoint),
         dbLock = NoOp => dbLock' = NoOp,
         GoodDb(db'), db.redacted \subseteq db'.redacted,
         ExportClean(db) /\ ExportClean(op[o].tx) => ExportClean(db'),
         db' = db \/ dbLock = o
  PROVE  IInv'
<1>1. (\A p \in Ops : OpInv(p)' /\ Quiet(op'[p])) /\ op' \in [Ops -> OpType]
  BY EndOp
<1>2. \A p \in Ops : op'[p] = IF p = o THEN q ELSE op[p]
  BY DEF IInv, TypeInv
<1>3. ASSUME Writeback PROVE FileInv'
  <2>1. FileInv /\ TypeInv
    BY <1>3 DEF IInv
  <2>2. \A p \in Ops : op'[p].phase \in {"idle", "start"}
    BY <1>1 DEF Quiet
  <2>3. synced' = Len(journal') /\ safeHead' = checkpoint' /\ checkpoint' = checkpoint
        /\ journal' = journal /\ backup' = backup
    BY <1>3
  <2>4. Below(backup.head, checkpoint)
    BY <2>1, BelowTransitive DEF FileInv, TypeInv, DbType
  <2>5. Below(checkpoint, checkpoint) /\ Len(checkpoint) <= Len(journal)
        /\ Len(journal) <= Len(journal)
    BY <2>1, BelowItself, RecordParts DEF FileInv, TypeInv, Below
  <2> QED
    BY <1>3, <2>1, <2>2, <2>3, <2>4, <2>5 DEF FileInv, Below
<1>4. ASSUME LocksFirst PROVE ExportInv'
  <2>1. ExportInv
    BY <1>4 DEF IInv
  <2>2. \A p \in Ops : ExportClean(op'[p].tx)
    BY <1>2, <2>1 DEF ExportInv
  <2>3. ExportClean(db')
    BY <2>1 DEF ExportInv
  <2>4. export.state = "account" => db' = db /\ dbLock' = NoOp
    BY <2>1 DEF ExportInv
  <2> QED
    BY <2>1, <2>2, <2>3, <2>4 DEF ExportInv, ExportClean, Visible
<1>5. checkpoint' \in Journals /\ export' \in ExportType /\ GoodDb(backup')
  BY DEF IInv, TypeInv
<1> QED
  BY <1>1, <1>3, <1>4, <1>5, Combine

-----------------------------------------------------------------------------
(* The actions: sierxctl *)

LEMMA InitInv == Init => IInv
<1> SUFFICES ASSUME Init PROVE IInv
  OBVIOUS
<1>1. << >> \in Journals /\ Len(<< >>) = 0 /\ DOMAIN << >> = 1..0
  BY EmptySeq, RecordParts DEF Journals
<1>2. NoExport \in ExportType /\ NoExport.state = "none"
  BY DEF NoExport, ExportType
<1>3. IdleReq \in [phase : {"idle", "checking", "serving"}, expected : Journals]
      /\ IdleReq.phase = "idle"
  BY <1>1 DEF IdleReq
<1>4. TypeInv
  BY <1>1, <1>2, <1>3, EmptyGood, IdleOpType DEF Init, TypeInv, GoodDb
<1>5. \A o \in Ops : OpInv(o)
  BY IdleOpType DEF Init, OpInv, Quiet, Running, InTransaction
<1>6. SeqInv /\ HoldsRespected /\ ServedWithoutRedacted
  BY <1>1, <1>3 DEF Init, SeqInv, HoldsRespected, ServedWithoutRedacted
<1>7. FileInv
  <2>1. EmptyDb.head = << >>
    BY DEF EmptyDb
  <2> QED
    BY <1>1, <2>1, IdleOpType DEF Init, FileInv, Below
<1>8. ExportInv
  BY <1>2, EmptyGood, IdleOpType DEF Init, ExportInv
<1> QED
  BY <1>4, <1>5, <1>6, <1>7, <1>8, EmptyGood DEF Init, IInv

LEMMA CommandParts ==
  ASSUME NEW c \in Commands
  PROVE  /\ c.mode \in {"init", "reconcile", "replay", "apply"}
         /\ c.todo \in Seq(AllKinds)
         /\ c.mode = "apply" => c.todo # << >>
<1>1. CASE c \in {[mode |-> m, todo |-> << >>] : m \in {"init", "reconcile", "replay"}}
  <2>1. PICK m \in {"init", "reconcile", "replay"} : c = [mode |-> m, todo |-> << >>]
    BY <1>1
  <2>2. << >> \in Seq(AllKinds) /\ c.mode = m /\ c.todo = << >>
    BY <2>1, EmptySeq
  <2> QED
    BY <2>2
<1>2. CASE c \in {[mode |-> "apply", todo |-> <<k>>] : k \in Kinds}
  <2>1. PICK k \in Kinds : c = [mode |-> "apply", todo |-> <<k>>]
    BY <1>2
  <2>2. k \in AllKinds
    OBVIOUS
  <2> QED
    BY <2>1, <2>2
<1>3. CASE c \in {[mode |-> "apply", todo |-> <<k, "cleanup">>] : k \in Kinds \cap {"retention"}}
  <2>1. PICK k \in Kinds : c = [mode |-> "apply", todo |-> <<k, "cleanup">>]
    BY <1>3
  <2>2. k \in AllKinds /\ "cleanup" \in AllKinds
    BY DEF AllKinds
  <2> QED
    BY <2>1, <2>2
<1> QED
  BY <1>1, <1>2, <1>3 DEF Commands

LEMMA OpenInv ==
  ASSUME IInv, NEW o \in Ops, NEW c, Open(o, c), op[o].phase \in {"idle", "start"},
         c.mode \in {"init", "reconcile", "replay", "apply"}, c.todo \in Seq(AllKinds),
         c.mode = "apply" => c.todo # << >>,
         UNCHANGED <<fileVars, dbLock, db, backup, req, export, faults>>
  PROVE  IInv'
<1>1. UNCHANGED <<journal, checkpoint, safeHead, synced, db, backup, req, export>>
  BY DEF fileVars
<1> SUFFICES ASSUME NEW q, q = [IdleOp EXCEPT !.phase = FirstPhase[c.mode], !.mode = c.mode,
                                              !.todo = c.todo, !.j = journal]
             PROVE  IInv'
  OBVIOUS
<1>2. op' = [op EXCEPT ![o] = q] /\ lock' = o /\ lock = NoOp
  BY DEF Open
<1>3. PICK f \in {"creating", "synced", "loaded"} :
        /\ f = FirstPhase[c.mode]
        /\ f = "loaded" => c.mode \in {"apply", "replay"}
        /\ f = "synced" => c.mode = "reconcile"
  BY DEF FirstPhase
<1>4. journal \in Journals
  BY DEF IInv, TypeInv
<1>5. /\ q \in OpType /\ q.phase = f /\ q.mode = c.mode /\ q.todo = c.todo /\ q.j = journal
      /\ q.tx = IdleOp.tx
  BY <1>3, <1>4, IdleOpType DEF OpType
<1>6. op'[o] = q
  BY <1>2 DEF IInv, TypeInv
<1>7. GoodDb(q.tx) /\ ExportClean(q.tx)
  BY <1>5, IdleOpType DEF Quiet
<1>8. OpInv(o)'
  BY <1>1, <1>2, <1>3, <1>5, <1>6, <1>7 DEF OpInv, InTransaction, Running
<1>9. q.phase \in {"loaded", "begun", "renamed", "appended"} => checkpoint = journal
  BY <1>3, <1>5 DEF Open, Loads
<1> QED
  BY <1>1, <1>2, <1>5, <1>7, <1>8, <1>9, OwnerStep

LEMMA StartInv == ASSUME IInv, NEW o \in Ops, Start(o) PROVE IInv'
<1>1. PICK c \in Commands : Open(o, c)
  BY DEF Start
<1> QED
  BY <1>1, CommandParts, OpenInv DEF Start

(* A maintenance run that does not get the lock goes on without it. *)
LEMMA StartNextInv == ASSUME IInv, NEW o \in Ops, StartNext(o) PROVE IInv'
<1>1. CASE Open(o, [mode |-> "apply", todo |-> op[o].todo])
  <2> DEFINE c == [mode |-> "apply", todo |-> op[o].todo]
  <2>1. op[o].todo \in Seq(AllKinds) /\ op[o].todo # << >>
    BY DEF StartNext, IInv, TypeInv, OpType, OpInv
  <2>2. c.mode = "apply" /\ c.todo = op[o].todo
    OBVIOUS
  <2>3. Open(o, c) /\ op[o].phase \in {"idle", "start"}
        /\ UNCHANGED <<fileVars, dbLock, db, backup, req, export, faults>>
    BY <1>1 DEF StartNext
  <2> HIDE DEF c
  <2> QED
    BY <2>1, <2>2, <2>3, OpenInv
<1>2. CASE Exit(o) /\ UNCHANGED lock
  <2>1. TypeInv
    BY DEF IInv
  <2>2. PICK q \in OpType : op' = [op EXCEPT ![o] = q] /\ Quiet(q) /\ ExportClean(q.tx)
    BY <1>2, <2>1, ExitOp
  <2>3. op[o].phase = "start"
        /\ UNCHANGED <<journal, checkpoint, safeHead, synced, lock, dbLock, db, backup, req, export>>
    BY <1>2 DEF StartNext, fileVars
  <2>4. op \in [Ops -> OpType] /\ \A p \in Ops : op'[p] = IF p = o THEN q ELSE op[p]
    BY <2>1, <2>2 DEF TypeInv
  <2>5. op' \in [Ops -> OpType]
    BY <2>2, <2>4
  <2>6. ASSUME NEW p \in Ops PROVE OpInv(p)'
    <3>1. CASE p = o
      BY <2>2, <2>4, <3>1, QuietOp
    <3>2. CASE p # o
      <4>1. op'[p] = op[p] /\ OpInv(p)
        BY <2>4, <3>2 DEF IInv
      <4> QED
        BY <4>1, <2>3 DEF OpInv, Running, InTransaction, GoodDb, HoldsKept, RedactionsKept, Below
    <3> QED
      BY <3>1, <3>2
  <2>7. ASSUME Writeback PROVE FileInv'
    <3>1. FileInv
      BY <2>7 DEF IInv
    <3>2. q.phase \in {"idle", "start"}
      BY <2>2 DEF Quiet
    <3>3. \A p \in Ops : op'[p].phase = op[p].phase \/ (p = o /\ op'[p].phase \in {"idle", "start"})
      BY <2>4, <3>2
    <3> QED
      BY <2>3, <3>1, <3>3 DEF FileInv, Below
  <2>8. ASSUME LocksFirst PROVE ExportInv'
    <3>1. ExportInv
      BY <2>8 DEF IInv
    <3>2. \A p \in Ops : ExportClean(op'[p].tx)
      BY <2>2, <2>4, <3>1 DEF ExportInv
    <3> QED
      BY <2>3, <3>1, <3>2 DEF ExportInv, ExportClean, Visible
  <2>9. /\ checkpoint' \in Journals /\ safeHead' \in Journals /\ synced' \in Nat
        /\ export' \in ExportType /\ GoodDb(db') /\ GoodDb(backup')
    BY <2>3 DEF IInv, TypeInv
  <2> QED
    BY <2>3, <2>5, <2>6, <2>7, <2>8, <2>9, Combine
<1> QED
  BY <1>1, <1>2 DEF StartNext

LEMMA RunningParts ==
  ASSUME IInv, NEW o \in Ops, op[o].phase \notin {"idle", "start"}
  PROVE  lock = o /\ OpInv(o) /\ op[o] \in OpType
BY DEF IInv, TypeInv, OpInv, Running

(* The database's decisions are all below the checkpoint. *)
LEMMA DbBelow ==
  ASSUME IInv, FileInv
  PROVE  Below(db.head, checkpoint) /\ Below(backup.head, checkpoint)
BY BelowTransitive DEF IInv, TypeInv, DbType, FileInv

(* An end that changed nothing. *)
LEMMA EndsUnchanged ==
  ASSUME IInv, NEW o \in Ops, op[o].phase \notin {"idle", "start", "written", "renamed"},
         Exit(o), Release(o),
         UNCHANGED <<journal, checkpoint, safeHead, synced, db, backup, req, export>>
  PROVE  IInv'
<1>1. lock = o
  BY RunningParts
<1>2. PICK q \in OpType : op' = [op EXCEPT ![o] = q] /\ Quiet(q) /\ ExportClean(q.tx)
  BY ExitOp DEF IInv
<1>3. safeHead' \in Journals /\ synced' \in Nat /\ GoodDb(db')
  BY DEF IInv, TypeInv
<1>4. Writeback => synced' = Len(journal) /\ safeHead' = checkpoint
  BY <1>1, OnDisk DEF IInv
<1>5. Writeback => Below(db'.head, checkpoint)
  BY DbBelow DEF IInv
<1>6. dbLock = NoOp => dbLock' = NoOp
  BY DEF Release
<1>7. ExportClean(db) => ExportClean(db')
  OBVIOUS
<1>8. db' = db /\ db.redacted \subseteq db'.redacted
  OBVIOUS
<1> QED
  BY <1>1, <1>2, <1>3, <1>4, <1>5, <1>6, <1>7, <1>8, OwnerEnds

LEMMA InitJournalInv == ASSUME IInv, NEW o \in Ops, InitJournal(o) PROVE IInv'
<1>1. op[o].phase = "creating"
      /\ UNCHANGED <<journal, synced, checkpoint, safeHead, db, backup, req, export>>
  BY DEF InitJournal
<1>2. CASE UNCHANGED <<op, lockVars>>
  <2>1. lock = o /\ OpInv(o) /\ op[o] \in OpType
    BY <1>1, RunningParts
  <2>2. op' = [op EXCEPT ![o] = op[o]] /\ lock' = lock /\ dbLock' = dbLock
    BY <1>2 DEF IInv, TypeInv, lockVars
  <2>3. OpInv(o)'
    BY <1>1, <1>2, <2>1 DEF OpInv, Running, InTransaction, lockVars, GoodDb, HoldsKept,
                            RedactionsKept, Below
  <2>4. LocksFirst => ExportClean(op[o].tx)
    BY DEF IInv, ExportInv
  <2> QED
    BY <1>1, <2>1, <2>2, <2>3, <2>4, OwnerStep
<1>3. CASE Exit(o) /\ Release(o)
  BY <1>1, <1>3, EndsUnchanged
<1> QED
  BY <1>2, <1>3 DEF InitJournal

LEMMA BeginInv == ASSUME IInv, NEW o \in Ops, Begin(o) PROVE IInv'
<1>1. /\ op[o].phase = "loaded" /\ dbLock = NoOp /\ dbLock' = o /\ export.state # "account"
      /\ UNCHANGED <<journal, synced, checkpoint, safeHead, lock, db, backup, req, export>>
      /\ op' = [op EXCEPT ![o].phase = "begun", ![o].tx = db]
  BY DEF Begin, fileVars
<1>2. lock = o /\ OpInv(o) /\ op[o] \in OpType /\ db \in DbType /\ GoodDb(db)
  BY <1>1, RunningParts DEF IInv, TypeInv
<1> SUFFICES ASSUME NEW q, q = [op[o] EXCEPT !.phase = "begun", !.tx = db] PROVE IInv'
  OBVIOUS
<1>3. op' = [op EXCEPT ![o] = q]
  BY <1>1, <1>2 DEF OpType
<1>4. /\ q \in OpType /\ q.phase = "begun" /\ q.tx = db /\ q.mode = op[o].mode
      /\ q.todo = op[o].todo /\ q.j = op[o].j
  BY <1>2 DEF OpType
<1>5. op'[o] = q
  BY <1>3 DEF IInv, TypeInv
<1>6. OpInv(o)'
  BY <1>1, <1>2, <1>4, <1>5 DEF OpInv, Running, InTransaction
<1>7. Writeback => checkpoint = journal
  BY <1>1 DEF IInv, FileInv
<1>8. LocksFirst => ExportClean(q.tx)
  BY <1>4 DEF IInv, ExportInv
<1> QED
  BY <1>1, <1>2, <1>3, <1>4, <1>6, <1>7, <1>8, OwnerStep

(* The record that a replay applies next is one of the journal. *)
LEMMA ReplayStepInv == ASSUME IInv, NEW o \in Ops, ReplayStep(o) PROVE IInv'
<1> DEFINE tx == op[o].tx
           r == op[o].j[Len(tx.head) + 1]
<1>1. /\ op[o].phase = "begun" /\ op[o].mode = "replay" /\ IsStrictPrefix(tx.head, op[o].j)
      /\ UNCHANGED <<journal, synced, checkpoint, safeHead, lock, dbLock, db, backup, req, export>>
      /\ op' = [op EXCEPT ![o].tx = Applied(tx, r)]
  BY DEF ReplayStep, fileVars, lockVars
<1>2. lock = o /\ OpInv(o) /\ op[o] \in OpType
  BY <1>1, RunningParts
<1>3. GoodDb(tx) /\ tx.head \in Journals /\ op[o].j \in Journals
  BY <1>2 DEF OpInv, OpType, DbType
<1>4. r \in RecordType
  <2>1. Below(tx.head, op[o].j) /\ tx.head # op[o].j
    BY <1>1, <1>3, BelowIsPrefix DEF IsStrictPrefix
  <2>2. Len(tx.head) \in Nat /\ Len(op[o].j) \in Nat
    BY <1>3, RecordParts
  <2>3. Len(tx.head) # Len(op[o].j) /\ Len(tx.head) <= Len(op[o].j)
    BY <1>3, <2>1, SameJournal DEF Below
  <2>4. Len(tx.head) + 1 \in 1..Len(op[o].j)
    BY <2>2, <2>3
  <2> QED
    BY <1>3, <2>4, RecordParts
<1> SUFFICES ASSUME NEW e, e = Applied(tx, r), NEW q, q = [op[o] EXCEPT !.tx = e] PROVE IInv'
  OBVIOUS
<1>5. GoodDb(e) /\ tx.redacted \subseteq e.redacted /\ (ExportClean(tx) => ExportClean(e))
  <2> HIDE DEF tx, r
  <2> QED
    BY <1>3, <1>4, AppliedGood
<1>6. op' = [op EXCEPT ![o] = q]
  BY <1>1
<1>7. /\ q \in OpType /\ q.phase = "begun" /\ q.tx = e /\ q.mode = op[o].mode
      /\ q.todo = op[o].todo /\ q.j = op[o].j
  <2>1. e \in DbType
    BY <1>5 DEF GoodDb
  <2> HIDE DEF tx, r
  <2> QED
    BY <1>1, <1>2, <2>1 DEF OpType
<1>8. op'[o] = q
  BY <1>6 DEF IInv, TypeInv
<1>9. OpInv(o)'
  BY <1>1, <1>2, <1>5, <1>7, <1>8 DEF OpInv, Running, InTransaction
<1>10. Writeback => checkpoint = journal
  BY <1>1 DEF IInv, FileInv
<1>11. LocksFirst => ExportClean(q.tx)
  BY <1>5, <1>7 DEF IInv, ExportInv
<1>12. op[o].phase \notin {"written", "renamed"} /\ lock \in {o, NoOp}
  BY <1>1, <1>2
<1> QED
  BY <1>1, <1>6, <1>7, <1>9, <1>10, <1>11, <1>12, OwnerStep

LEMMA ReplayEndInv == ASSUME IInv, NEW o \in Ops, ReplayEnd(o) PROVE IInv'
<1>1. /\ op[o].phase = "begun" /\ Exit(o) /\ Release(o)
      /\ UNCHANGED <<journal, synced, checkpoint, safeHead, backup, req, export>>
  BY DEF ReplayEnd, fileVars
<1>2. CASE db' = db
  BY <1>1, <1>2, EndsUnchanged
<1>3. CASE op[o].tx.head = op[o].j /\ db' = op[o].tx
  <2>1. lock = o /\ OpInv(o) /\ op[o] \in OpType
    BY <1>1, RunningParts
  <2>2. PICK q \in OpType : op' = [op EXCEPT ![o] = q] /\ Quiet(q) /\ ExportClean(q.tx)
    BY <1>1, ExitOp DEF IInv
  <2>3. safeHead' \in Journals /\ synced' \in Nat
    BY <1>1 DEF IInv, TypeInv
  <2>4. Writeback => synced' = Len(journal) /\ safeHead' = checkpoint
    BY <1>1, <2>1, OnDisk DEF IInv
  <2>5. Writeback => Below(db'.head, checkpoint)
    <3>1. Writeback => checkpoint = journal
      BY <1>1 DEF IInv, FileInv
    <3>2. db'.head = journal /\ journal \in Journals
      BY <1>1, <1>3, <2>1 DEF OpInv, IInv, TypeInv
    <3> QED
      BY <3>1, <3>2, BelowItself
  <2>6. GoodDb(db') /\ db.redacted \subseteq db'.redacted /\ dbLock = o
    BY <1>1, <1>3, <2>1 DEF OpInv, InTransaction
  <2>7. dbLock # NoOp
    BY <2>6
  <2> QED
    BY <1>1, <1>3, <2>1, <2>2, <2>3, <2>4, <2>5, <2>6, <2>7, OwnerEnds
<1> QED
  BY <1>2, <1>3 DEF ReplayEnd

LEMMA RefusedInv == ASSUME IInv, NEW o \in Ops, Refused(o) PROVE IInv'
<1>1. /\ op[o].phase = "begun" /\ Exit(o) /\ Release(o)
      /\ UNCHANGED <<journal, synced, checkpoint, safeHead, db, backup, req, export>>
  BY DEF Refused, fileVars
<1> QED
  BY <1>1, EndsUnchanged

LEMMA WriteTornInv == ASSUME IInv, NEW o \in Ops, WriteTorn(o) PROVE IInv'
<1>1. /\ op[o].phase = "begun" /\ Exit(o) /\ Release(o)
      /\ UNCHANGED <<journal, synced, checkpoint, safeHead, db, backup, req, export>>
  BY DEF WriteTorn
<1> QED
  BY <1>1, EndsUnchanged

LEMMA PlannedRecord ==
  ASSUME NEW d, NEW n \in Nat, NEW kind \in AllKinds,
         NEW r \in [seq : {n + 1}, kind : {kind}, hold : Holds \cup {NoOp}, ids : SUBSET Items],
         Plan(d, r)
  PROVE  r \in RecordType /\ r.seq = n + 1
<1>1. r \in [seq : Nat, kind : AllKinds, hold : Holds \cup {NoOp}, ids : SUBSET Items]
      /\ r.seq = n + 1
  OBVIOUS
<1>2. CASE r.kind = "hold-create" \/ r.kind = "hold-release"
  BY <1>1, <1>2 DEF Plan, RecordType, RecordOK
<1>3. CASE r.kind # "hold-create" /\ r.kind # "hold-release"
  <2>1. r.hold = NoOp
    BY <1>3 DEF Plan
  <2> QED
    BY <1>1, <1>3, <2>1 DEF RecordType, RecordOK
<1> QED
  BY <1>1, <1>2, <1>3

(* The record that is written was planned in a database that has applied   *)
(* the whole journal, which nobody else extends meanwhile.                 *)
LEMMA WriteInv == ASSUME IInv, NEW o \in Ops, Write(o) PROVE IInv'
<1>1. /\ op[o].phase = "begun" /\ op[o].mode = "apply" /\ op[o].j = db.head
      /\ UNCHANGED <<synced, checkpoint, safeHead, lock, dbLock, db, backup, req, export>>
  BY DEF Write, lockVars
<1>2. lock = o /\ OpInv(o) /\ op[o] \in OpType /\ TypeInv
  BY <1>1, RunningParts DEF IInv
<1>3. /\ op[o].j = journal /\ journal = db.head /\ journal \in Journals /\ dbLock = o
      /\ GoodDb(db) /\ op[o].todo \in Seq(AllKinds) /\ op[o].todo # << >>
  BY <1>1, <1>2 DEF OpInv, InTransaction, TypeInv, IInv, OpType
<1> DEFINE n == Len(journal)
<1>4. n \in Nat /\ Head(op[o].todo) \in AllKinds
  BY <1>3, RecordParts, HeadTailProperties
<1>5. PICK r \in [seq : {n + 1}, kind : {Head(op[o].todo)}, hold : Holds \cup {NoOp},
                  ids : SUBSET Items] :
        /\ Plan(db, r)
        /\ journal' = Append(journal, r)
        /\ op' = [op EXCEPT ![o].phase = "written", ![o].j = Append(op[o].j, r)]
  BY <1>3 DEF Write
<1>6. r \in RecordType /\ r.seq = n + 1
  BY <1>4, <1>5, PlannedRecord
<1>7. /\ journal' \in Journals /\ Len(journal') = n + 1 /\ journal'[n + 1] = r
      /\ \A k \in 1..n : journal'[k] = journal[k]
  BY <1>3, <1>5, <1>6, Appending
<1>8. \A k \in 1..(n + 1) : k \in 1..n \/ k = n + 1
  BY <1>4
<1> SUFFICES ASSUME NEW q, q = [op[o] EXCEPT !.phase = "written", !.j = journal'] PROVE IInv'
  OBVIOUS
<1>9. op' = [op EXCEPT ![o] = q]
  BY <1>3, <1>5
<1>10. /\ q \in OpType /\ q.phase = "written" /\ q.tx = op[o].tx /\ q.mode = op[o].mode
       /\ q.todo = op[o].todo /\ q.j = journal'
  BY <1>2, <1>7 DEF OpType
<1>11. op'[o] = q /\ \A p \in Ops : p # o => op'[p] = op[p]
  BY <1>2, <1>9 DEF TypeInv
<1>12. Below(journal, journal')
  BY <1>4, <1>7 DEF Below
<1>13. OpInv(o)'
  <2>1. Len(journal') = Len(db'.head) + 1 /\ Below(db'.head, journal')
    BY <1>1, <1>3, <1>7, <1>12
  <2>2. Below(db.head, journal)' /\ GoodDb(op'[o].tx) /\ lock' = o /\ dbLock' = o
    BY <1>1, <1>2, <1>3, <1>10, <1>11, <2>1 DEF OpInv, Below
  <2> QED
    BY <1>1, <1>3, <1>10, <1>11, <2>1, <2>2 DEF OpInv, Running, InTransaction
<1>14. (\A p \in Ops : OpInv(p)') /\ op' \in [Ops -> OpType]
  BY <1>2, <1>9, <1>10, <1>13, StepOp
<1>15. TypeInv'
  BY <1>1, <1>2, <1>7, <1>14 DEF TypeInv
<1>16. SeqInv'
  BY <1>6, <1>7, <1>8 DEF IInv, SeqInv
<1>17. HoldsRespected'
  <2>1. HoldsIn(journal)
    BY HoldsRespectedIn DEF IInv
  <2>2. HoldsIn(journal')
    BY <1>3, <1>5, <1>6, <2>1, PlannedHolds
  <2>3. DOMAIN journal' = 1..Len(journal')
    BY <1>7, RecordParts
  <2> QED
    BY <2>2, <2>3 DEF HoldsRespected, HoldsIn
<1>18. ServedWithoutRedacted'
  BY <1>1, ServedKept DEF IInv
<1>19. ASSUME Writeback PROVE FileInv'
  <2>1. FileInv
    BY <1>19 DEF IInv
  <2>2. checkpoint = journal /\ synced = n /\ safeHead = checkpoint
    BY <1>1, <1>2, <2>1, OnDisk DEF FileInv
  <2>3. \A p \in Ops : p # o => op'[p].phase \in {"idle", "start"}
    BY <1>2, <1>11, Alone DEF Quiet
  <2>4. Below(checkpoint', journal') /\ Below(safeHead', checkpoint') /\ Below(db'.head, safeHead')
        /\ Below(backup'.head, safeHead')
    BY <1>1, <1>12, <2>1, <2>2 DEF FileInv
  <2>5. Len(checkpoint') <= synced' /\ synced' <= Len(journal')
    BY <1>1, <1>4, <1>7, <2>2
  <2>6. \A p \in Ops : op'[p].phase \notin {"loaded", "begun", "renamed", "appended"}
    BY <1>10, <1>11, <2>3
  <2>7. safeHead' = checkpoint'
    BY <1>1, <2>2
  <2>8. Below(checkpoint, journal)' /\ Below(safeHead, checkpoint)' /\ Below(db.head, safeHead)'
        /\ Below(backup.head, safeHead)'
    BY <2>4 DEF Below
  <2>9. \E p \in Ops : op'[p].phase = "written"
    BY <1>10, <1>11
  <2> QED
    BY <2>5, <2>6, <2>7, <2>8, <2>9 DEF FileInv
<1>20. ASSUME LocksFirst PROVE ExportInv'
  <2>1. ExportInv
    BY <1>20 DEF IInv
  <2>2. \A p \in Ops : ExportClean(op'[p].tx)
    <3>1. \A p \in Ops : ExportClean(op[p].tx)
      BY <2>1 DEF ExportInv
    <3>2. ASSUME NEW p \in Ops PROVE op'[p].tx = op[p].tx
      <4>1. CASE p = o
        BY <1>10, <1>11, <4>1
      <4>2. CASE p # o
        BY <1>11, <4>2
      <4> QED
        BY <4>1, <4>2
    <3> QED
      BY <3>1, <3>2
  <2> QED
    BY <1>1, <2>1, <2>2 DEF ExportInv, ExportClean, Visible
<1>21. GoodDb(db)' /\ GoodDb(backup)'
  BY <1>1 DEF IInv, GoodDb, HoldsKept, RedactionsKept
<1> QED
  BY <1>14, <1>15, <1>16, <1>17, <1>18, <1>19, <1>20, <1>21 DEF IInv

(* Sync, Rename and SyncDir move the phase of a written decision. *)
Moves(o, ph) == /\ <<op[o].phase, ph>> \in {<<"written", "synced">>, <<"synced", "renamed">>,
                                            <<"renamed", "appended">>}
                /\ ph = "appended" => op[o].mode # "reconcile"
                /\ op' = [op EXCEPT ![o].phase = ph]

LEMMA PhaseMoved ==
  ASSUME IInv, NEW o \in Ops, NEW ph, Moves(o, ph),
         UNCHANGED <<journal, lock, dbLock, db>>
  PROVE  /\ \A p \in Ops : op'[p].phase = IF p = o THEN ph ELSE op[p].phase
         /\ \A p \in Ops : p # o => op'[p].phase \in {"idle", "start"}
         /\ \A p \in Ops : op'[p].tx = op[p].tx
         /\ (\A p \in Ops : OpInv(p)') /\ op' \in [Ops -> OpType]
<1>1. op[o].phase \notin {"idle", "start"} /\ ph \in {"synced", "renamed", "appended"}
  BY DEF Moves
<1>2. lock = o /\ OpInv(o) /\ op[o] \in OpType /\ op \in [Ops -> OpType]
  BY <1>1, RunningParts DEF IInv, TypeInv
<1> SUFFICES ASSUME NEW q, q = [op[o] EXCEPT !.phase = ph]
             PROVE  /\ \A p \in Ops : op'[p].phase = IF p = o THEN ph ELSE op[p].phase
                    /\ \A p \in Ops : p # o => op'[p].phase \in {"idle", "start"}
                    /\ \A p \in Ops : op'[p].tx = op[p].tx
                    /\ (\A p \in Ops : OpInv(p)') /\ op' \in [Ops -> OpType]
  OBVIOUS
<1>3. op' = [op EXCEPT ![o] = q]
  BY DEF Moves
<1>4. /\ q \in OpType /\ q.phase = ph /\ q.mode = op[o].mode /\ q.todo = op[o].todo
      /\ q.j = op[o].j /\ q.tx = op[o].tx
  BY <1>1, <1>2 DEF OpType
<1>5. \A p \in Ops : op'[p] = IF p = o THEN q ELSE op[p]
  BY <1>2, <1>3
<1>6. \A p \in Ops : p # o => op[p].phase \in {"idle", "start"}
  BY <1>2, Alone DEF Quiet
<1>7. OpInv(o)'
  <2>1. op'[o] = q
    BY <1>5
  <2>2. InTransaction(q) => InTransaction(op[o]) /\ op[o].phase # "begun"
    BY <1>4 DEF InTransaction, Moves
  <2>3. ph \in {"synced", "renamed"} => q.mode \in {"apply", "reconcile"}
    BY <1>2, <1>4 DEF OpInv, Moves
  <2>4. ph = "appended" => q.mode = "apply"
    BY <1>2, <1>4 DEF OpInv, Moves
  <2>5. InTransaction(q) => Len(journal') = Len(db'.head) + 1 /\ Below(db.head, journal)'
                            /\ dbLock' = o
    BY <1>2, <2>2 DEF OpInv, Below
  <2>6. q.j = journal' /\ GoodDb(q.tx) /\ (q.mode = "apply" => q.todo # << >>)
    BY <1>2, <1>4 DEF OpInv, Moves
  <2> QED
    BY <1>1, <1>2, <1>4, <2>1, <2>3, <2>4, <2>5, <2>6 DEF OpInv, Running
<1>8. (\A p \in Ops : OpInv(p)') /\ op' \in [Ops -> OpType]
  BY <1>2, <1>3, <1>4, <1>7, StepOp
<1> QED
  BY <1>4, <1>5, <1>6, <1>8

LEMMA FilesMoved ==
  ASSUME IInv, NEW o \in Ops, NEW ph, Moves(o, ph),
         UNCHANGED <<journal, lock, dbLock, db, backup, req, export>>,
         checkpoint' \in Journals, safeHead' \in Journals, synced' \in Nat,
         Writeback => FileInv'
  PROVE  IInv'
<1>1. /\ \A p \in Ops : op'[p].tx = op[p].tx
      /\ (\A p \in Ops : OpInv(p)') /\ op' \in [Ops -> OpType]
  BY PhaseMoved
<1>2. ASSUME LocksFirst PROVE ExportInv'
  <2>1. ExportInv
    BY <1>2 DEF IInv
  <2>2. \A p \in Ops : ExportClean(op'[p].tx)
    BY <1>1, <2>1 DEF ExportInv
  <2> QED
    BY <2>1, <2>2 DEF ExportInv, ExportClean, Visible
<1>3. export' \in ExportType /\ GoodDb(db') /\ GoodDb(backup') /\ db.redacted \subseteq db'.redacted
  BY DEF IInv, TypeInv
<1> QED
  BY <1>1, <1>2, <1>3, Combine

LEMMA SyncInv == ASSUME IInv, NEW o \in Ops, Sync(o) PROVE IInv'
<1>1. /\ op[o].phase = "written" /\ Moves(o, "synced")
      /\ synced' = Len(journal)
      /\ UNCHANGED <<journal, checkpoint, safeHead, lock, dbLock, db, backup, req, export>>
  BY DEF Sync, lockVars, Moves
<1>2. lock = o /\ TypeInv
  BY <1>1, RunningParts DEF IInv
<1>3. /\ \A p \in Ops : op'[p].phase = IF p = o THEN "synced" ELSE op[p].phase
      /\ \A p \in Ops : p # o => op'[p].phase \in {"idle", "start"}
  BY <1>1, PhaseMoved
<1>4. checkpoint' \in Journals /\ safeHead' \in Journals /\ synced' \in Nat
      /\ Len(journal) \in Nat /\ Len(checkpoint) \in Nat
  BY <1>1, <1>2, RecordParts DEF TypeInv
<1>5. ASSUME Writeback PROVE FileInv'
  <2>1. FileInv
    BY <1>5 DEF IInv
  <2>2. safeHead' = checkpoint'
    BY <1>1, <1>2, <2>1, OnDisk
  <2>3. Below(checkpoint, journal)' /\ Below(safeHead, checkpoint)' /\ Below(db.head, safeHead)'
        /\ Below(backup.head, safeHead)'
    BY <1>1, <2>1 DEF FileInv, Below
  <2>4. Len(checkpoint') <= synced' /\ synced' <= Len(journal') /\ synced' = Len(journal')
    BY <1>1, <1>4, <2>3 DEF Below
  <2>5. \A p \in Ops : op'[p].phase \notin {"loaded", "begun", "renamed", "appended"}
    BY <1>3
  <2> QED
    BY <2>2, <2>3, <2>4, <2>5 DEF FileInv
<1> QED
  BY <1>1, <1>4, <1>5, FilesMoved

LEMMA RenameInv == ASSUME IInv, NEW o \in Ops, Rename(o) PROVE IInv'
<1>1. /\ op[o].phase = "synced" /\ Moves(o, "renamed")
      /\ checkpoint' = op[o].j
      /\ UNCHANGED <<journal, synced, safeHead, lock, dbLock, db, backup, req, export>>
  BY DEF Rename, lockVars, Moves
<1>2. lock = o /\ TypeInv /\ op[o].j = journal
  BY <1>1, RunningParts DEF IInv, OpInv
<1>3. /\ \A p \in Ops : op'[p].phase = IF p = o THEN "renamed" ELSE op[p].phase
      /\ \A p \in Ops : p # o => op'[p].phase \in {"idle", "start"}
  BY <1>1, PhaseMoved
<1>4. checkpoint' \in Journals /\ safeHead' \in Journals /\ synced' \in Nat
      /\ Len(journal) \in Nat
  BY <1>1, <1>2, RecordParts DEF TypeInv
<1>5. ASSUME Writeback PROVE FileInv'
  <2>1. FileInv
    BY <1>5 DEF IInv
  <2>2. synced = Len(journal)
    BY <1>1, <1>2, <2>1, OnDisk
  <2>3. Below(safeHead, journal) /\ Below(journal, journal)
    BY <1>2, <2>1, BelowTransitive, BelowItself DEF FileInv, TypeInv
  <2>4. Below(checkpoint, journal)' /\ Below(safeHead, checkpoint)' /\ Below(db.head, safeHead)'
        /\ Below(backup.head, safeHead)'
    BY <1>1, <1>2, <2>1, <2>3 DEF FileInv, Below
  <2>5. Len(checkpoint') <= synced' /\ synced' <= Len(journal') /\ synced' = Len(journal')
    BY <1>1, <1>2, <1>4, <2>2
  <2>6. checkpoint' = journal' /\ \E p \in Ops : op'[p].phase = "renamed"
    BY <1>1, <1>2, <1>3
  <2> QED
    BY <2>4, <2>5, <2>6 DEF FileInv
<1> QED
  BY <1>1, <1>4, <1>5, FilesMoved

LEMMA SyncDirInv == ASSUME IInv, NEW o \in Ops, SyncDir(o) PROVE IInv'
<1>1. /\ op[o].phase = "renamed" /\ safeHead' = checkpoint
      /\ UNCHANGED <<journal, synced, checkpoint, db, backup, req, export>>
  BY DEF SyncDir
<1>2. lock = o /\ TypeInv /\ GoodDb(db)
  BY <1>1, RunningParts DEF IInv
<1>3. checkpoint' \in Journals /\ safeHead' \in Journals /\ synced' \in Nat
  BY <1>1, <1>2 DEF TypeInv
<1>4. ASSUME Writeback PROVE FileInv /\ synced = Len(journal) /\ checkpoint = journal
  <2>1. FileInv
    BY <1>4 DEF IInv
  <2> QED
    BY <1>1, <1>2, <2>1, OnDisk DEF FileInv
<1>5. CASE Exit(o) /\ Release(o)
  <2>1. PICK q \in OpType : op' = [op EXCEPT ![o] = q] /\ Quiet(q) /\ ExportClean(q.tx)
    BY <1>2, <1>5, ExitOp
  <2>2. Writeback => synced' = Len(journal) /\ safeHead' = checkpoint
    BY <1>1, <1>4
  <2>3. Writeback => Below(db'.head, checkpoint)
    BY <1>1, <1>4, DbBelow
  <2>4. dbLock = NoOp => dbLock' = NoOp
    BY <1>5 DEF Release
  <2>5. db' = db /\ GoodDb(db') /\ db.redacted \subseteq db'.redacted
        /\ (ExportClean(db) => ExportClean(db'))
    BY <1>1, <1>2
  <2> QED
    BY <1>1, <1>2, <1>3, <2>1, <2>2, <2>3, <2>4, <2>5, OwnerEnds
<1>6. CASE op[o].mode # "reconcile" /\ op' = [op EXCEPT ![o].phase = "appended"]
           /\ UNCHANGED lockVars
  <2>1. lock' = lock /\ dbLock' = dbLock /\ Moves(o, "appended")
    BY <1>1, <1>6 DEF lockVars, Moves
  <2>2. /\ \A p \in Ops : op'[p].phase = IF p = o THEN "appended" ELSE op[p].phase
        /\ \A p \in Ops : p # o => op'[p].phase \in {"idle", "start"}
    BY <1>1, <1>6, <2>1, PhaseMoved
  <2>3. ASSUME Writeback PROVE FileInv'
    <3>1. FileInv /\ synced = Len(journal) /\ checkpoint = journal
      BY <1>4, <2>3
    <3>2. Below(db.head, checkpoint) /\ Below(backup.head, checkpoint)
          /\ Below(checkpoint, checkpoint) /\ Len(checkpoint) <= Len(checkpoint)
      BY <1>2, <3>1, DbBelow, BelowItself DEF TypeInv, Below
    <3>3. Below(checkpoint, journal)' /\ Below(safeHead, checkpoint)' /\ Below(db.head, safeHead)'
          /\ Below(backup.head, safeHead)'
      BY <1>1, <3>1, <3>2 DEF Below
    <3>4. Len(checkpoint') <= synced' /\ synced' <= Len(journal') /\ synced' = Len(journal')
          /\ checkpoint' = journal' /\ safeHead' = checkpoint'
      BY <1>1, <3>1, <3>2
    <3> QED
      BY <3>3, <3>4 DEF FileInv
  <2> QED
    BY <1>1, <1>3, <1>6, <2>1, <2>3, FilesMoved
<1> QED
  BY <1>5, <1>6 DEF SyncDir

(* The decision that commits is the last record of the journal, and the    *)
(* database had applied the others.                                        *)
LEMMA CommitInv == ASSUME IInv, NEW o \in Ops, Commit(o) PROVE IInv'
<1> DEFINE r == Last(op[o].j)
<1>1. /\ op[o].phase = "appended" /\ Exit(o) /\ Release(o)
      /\ db' = IF Applies(db, r) THEN Applied(db, r) ELSE db
      /\ UNCHANGED <<journal, synced, checkpoint, safeHead, backup, req, export>>
  BY DEF Commit, fileVars
<1>2. CASE db' = db
  BY <1>1, <1>2, EndsUnchanged
<1>3. CASE db' = Applied(db, r)
  <2>1. lock = o /\ OpInv(o) /\ op[o] \in OpType /\ TypeInv /\ GoodDb(db)
    BY <1>1, RunningParts DEF IInv
  <2>2. /\ op[o].j = journal /\ dbLock = o /\ journal \in Journals /\ db.head \in Journals
        /\ Len(journal) = Len(db.head) + 1 /\ Below(db.head, journal)
    BY <1>1, <2>1 DEF OpInv, InTransaction, TypeInv, DbType
  <2>3. Len(db.head) \in Nat /\ r = journal[Len(db.head) + 1]
    BY <2>2, RecordParts DEF Last
  <2>4. r \in RecordType
    BY <2>2, <2>3, RecordParts
  <2> HIDE DEF r
  <2>5. GoodDb(db') /\ db'.head = Append(db.head, r) /\ db.redacted \subseteq db'.redacted
        /\ (ExportClean(db) => ExportClean(db'))
    BY <1>3, <2>1, <2>4, AppliedGood
  <2>6. Append(db.head, r) = journal
    <3> DEFINE s == Append(db.head, r)
               n == Len(db.head)
    <3>1. s \in Journals /\ Len(s) = n + 1 /\ s[n + 1] = r /\ \A k \in 1..n : s[k] = db.head[k]
      BY <2>2, <2>4, Appending
    <3> HIDE DEF s
    <3>2. \A k \in 1..(n + 1) : s[k] = journal[k]
      BY <2>2, <2>3, <3>1 DEF Below
    <3>3. Below(s, journal) /\ Len(s) = Len(journal)
      BY <2>2, <2>3, <3>1, <3>2 DEF Below
    <3> QED
      BY <2>2, <3>1, <3>3, SameJournal DEF s
  <2>7. PICK q \in OpType : op' = [op EXCEPT ![o] = q] /\ Quiet(q) /\ ExportClean(q.tx)
    BY <1>1, <2>1, ExitOp
  <2>8. safeHead' \in Journals /\ synced' \in Nat
    BY <1>1, <2>1 DEF TypeInv
  <2>9. Writeback => synced' = Len(journal) /\ safeHead' = checkpoint
    BY <1>1, <2>1, OnDisk DEF IInv
  <2>10. Writeback => Below(db'.head, checkpoint)
    <3>1. Writeback => checkpoint = journal
      BY <1>1 DEF IInv, FileInv
    <3> QED
      BY <2>2, <2>5, <2>6, <3>1, BelowItself
  <2>11. dbLock # NoOp
    BY <2>2
  <2> QED
    BY <1>1, <2>1, <2>2, <2>5, <2>7, <2>8, <2>9, <2>10, <2>11, OwnerEnds
<1> QED
  BY <1>1, <1>2, <1>3

(* A process that dies leaves its files to the write-back. *)
LEMMA DiesInv ==
  ASSUME IInv, NEW o \in Ops, Running(o), LeftOver, NEW q \in OpType,
         op' = [op EXCEPT ![o] = q], Quiet(q), ExportClean(q.tx),
         dbLock = NoOp => dbLock' = NoOp,
         UNCHANGED <<journal, checkpoint, db, backup, req, export>>
  PROVE  IInv'
<1>1. lock = o /\ TypeInv /\ GoodDb(db)
  BY DEF IInv, OpInv
<1>2. safeHead' \in Journals /\ synced' \in Nat
  BY <1>1, RecordParts DEF LeftOver, TypeInv
<1>3. Writeback => synced' = Len(journal) /\ safeHead' = checkpoint
  BY DEF LeftOver
<1>4. Writeback => Below(db'.head, checkpoint)
  BY DbBelow DEF IInv
<1>5. db' = db /\ GoodDb(db') /\ db.redacted \subseteq db'.redacted
      /\ (ExportClean(db) => ExportClean(db'))
  BY <1>1
<1> QED
  BY <1>1, <1>2, <1>3, <1>4, <1>5, OwnerEnds

LEMMA FailInv == ASSUME IInv, NEW o \in Ops, Fail(o) PROVE IInv'
<1>1. PICK q \in OpType : op' = [op EXCEPT ![o] = q] /\ Quiet(q) /\ ExportClean(q.tx)
  BY ExitOp DEF IInv, Fail
<1>2. dbLock = NoOp => dbLock' = NoOp
  BY DEF Fail, Release
<1> QED
  BY <1>1, <1>2, DiesInv DEF Fail

LEMMA KillInv == ASSUME IInv, NEW o \in Ops, Kill(o) PROVE IInv'
<1>1. dbLock = NoOp => dbLock' = NoOp
  BY DEF Kill
<1> QED
  BY <1>1, IdleOpType, DiesInv DEF Kill

-----------------------------------------------------------------------------
(* The host, the operator, requests and exports *)

(* The steps that leave every process and the files alone. *)
LEMMA ProcessesKept ==
  ASSUME IInv, UNCHANGED <<op, lock, dbLock, journal>>,
         db'.redacted = db.redacted, db'.head = db.head
  PROVE  \A o \in Ops : OpInv(o)'
<1> SUFFICES ASSUME NEW o \in Ops PROVE OpInv(o)'
  OBVIOUS
<1>1. OpInv(o) /\ op' = op /\ lock' = lock /\ dbLock' = dbLock /\ journal' = journal
  BY DEF IInv
<1>2. Below(db.head, journal) => Below(db.head, journal)'
  BY DEF Below
<1>3. GoodDb(op[o].tx) => GoodDb(op[o].tx)'
  BY DEF GoodDb, HoldsKept, RedactionsKept
<1> QED
  BY <1>1, <1>2, <1>3 DEF OpInv, Running, InTransaction

LEMMA FilesKept ==
  ASSUME FileInv, UNCHANGED <<op, journal, checkpoint, safeHead, synced>>,
         Below(db'.head, safeHead), Below(backup'.head, safeHead)
  PROVE  FileInv'
<1>1. Below(checkpoint, journal)' /\ Below(safeHead, checkpoint)' /\ Below(db.head, safeHead)'
      /\ Below(backup.head, safeHead)'
  BY DEF FileInv, Below
<1> QED
  BY <1>1 DEF FileInv

LEMMA HostCrashInv == ASSUME IInv, HostCrash PROVE IInv'
<1>1. PICK n \in synced..Len(journal) : journal' = SubSeq(journal, 1, n) /\ synced' = n
  BY DEF HostCrash
<1>2. /\ op' = [o \in Ops |-> IdleOp] /\ req' = [r \in Requests |-> IdleReq]
      /\ export' = NoExport /\ dbLock' = NoOp
      /\ checkpoint' \in {checkpoint, safeHead} /\ safeHead' = checkpoint'
      /\ db' = db /\ backup' = backup
  BY DEF HostCrash
<1>3. TypeInv /\ GoodDb(db) /\ GoodDb(backup)
  BY DEF IInv
<1>4. synced \in Nat /\ Len(journal) \in Nat /\ n \in 0..Len(journal) /\ n \in Nat /\ synced <= n
  BY <1>1, <1>3, RecordParts DEF TypeInv
<1>5. journal' \in Journals /\ Len(journal') = n /\ \A k \in 1..n : journal'[k] = journal[k]
  BY <1>1, <1>3, <1>4, Truncating DEF TypeInv
<1>6. Below(journal', journal)
  BY <1>4, <1>5 DEF Below
<1>7. << >> \in Journals
  BY EmptySeq DEF Journals
<1>8. TypeInv'
  <2>1. op' \in [Ops -> OpType]
    BY <1>2, IdleOpType
  <2>2. IdleReq \in [phase : {"idle", "checking", "serving"}, expected : Journals]
    BY <1>7 DEF IdleReq
  <2>3. req' \in [Requests -> [phase : {"idle", "checking", "serving"}, expected : Journals]]
    BY <1>2, <2>2
  <2>4. export' \in ExportType
    BY <1>2 DEF NoExport, ExportType
  <2> QED
    BY <1>1, <1>2, <1>3, <1>4, <1>5, <2>1, <2>3, <2>4 DEF TypeInv
<1>9. \A o \in Ops : OpInv(o)'
  BY <1>2, IdleOpType, QuietOp
<1>10. SeqInv'
  BY <1>4, <1>5 DEF IInv, SeqInv
<1>11. HoldsRespected'
  <2>1. HoldsIn(journal)
    BY HoldsRespectedIn DEF IInv
  <2>2. HoldsIn(journal')
    BY <1>3, <1>5, <1>6, <2>1, HoldsInBelow DEF TypeInv
  <2>3. DOMAIN journal' = 1..Len(journal')
    BY <1>5, RecordParts
  <2> QED
    BY <2>2, <2>3 DEF HoldsRespected, HoldsIn
<1>12. ServedWithoutRedacted'
  BY <1>2 DEF ServedWithoutRedacted, IdleReq
<1>13. ASSUME Writeback PROVE FileInv'
  <2>1. FileInv
    BY <1>13 DEF IInv
  <2>2. Below(db.head, checkpoint) /\ Below(backup.head, checkpoint)
    BY <2>1, DbBelow
  <2>3. checkpoint' \in Journals /\ Below(checkpoint', checkpoint) /\ Below(db.head, checkpoint')
        /\ Below(backup.head, checkpoint')
    BY <1>2, <1>3, <2>1, <2>2, BelowItself DEF TypeInv, FileInv
  <2>4. Len(checkpoint) \in Nat /\ Len(checkpoint') \in Nat /\ Len(checkpoint) <= synced
    BY <1>3, <2>1, <2>3, RecordParts DEF TypeInv, FileInv
  <2>5. Below(checkpoint', journal')
    <3>1. Below(checkpoint', journal)
      BY <1>3, <2>1, <2>3, BelowTransitive DEF TypeInv, FileInv
    <3>2. Len(checkpoint') <= n
      BY <1>4, <2>3, <2>4 DEF Below
    <3> QED
      BY <1>4, <1>5, <2>4, <3>1, <3>2 DEF Below
  <2>6. Len(checkpoint') <= synced' /\ synced' <= Len(journal') /\ synced' = Len(journal')
    BY <1>1, <1>4, <1>5, <2>5 DEF Below
  <2>7. Below(checkpoint, journal)' /\ Below(safeHead, checkpoint)' /\ Below(db.head, safeHead)'
        /\ Below(backup.head, safeHead)'
    BY <1>2, <2>3, <2>4, <2>5 DEF Below
  <2>8. \A o \in Ops : op'[o].phase = "idle"
    BY <1>2, IdleOpType
  <2> QED
    BY <1>2, <2>6, <2>7, <2>8 DEF FileInv
<1>14. ASSUME LocksFirst PROVE ExportInv'
  <2>1. ExportInv
    BY <1>14 DEF IInv
  <2>2. \A o \in Ops : ExportClean(op'[o].tx)
    BY <1>2, IdleOpType
  <2>3. export'.state = "none"
    BY <1>2 DEF NoExport
  <2> QED
    BY <1>2, <2>1, <2>2, <2>3 DEF ExportInv, ExportClean, Visible
<1>15. GoodDb(db)' /\ GoodDb(backup)'
  BY <1>2, <1>3 DEF GoodDb, HoldsKept, RedactionsKept
<1> QED
  BY <1>8, <1>9, <1>10, <1>11, <1>12, <1>13, <1>14, <1>15 DEF IInv

LEMMA RemoveStaleLockInv == ASSUME IInv, RemoveStaleLock PROVE IInv'
<1>1. lock = Stale /\ UNCHANGED <<op, journal, synced, checkpoint, safeHead, dbLock, db, backup,
                                  req, export>>
  BY DEF RemoveStaleLock, fileVars
<1>2. \A p \in Ops : Quiet(op'[p])
  BY <1>1, Alone
<1>3. \A p \in Ops : OpInv(p)'
  BY <1>2, QuietOp
<1>4. Writeback => FileInv'
  BY <1>1, FilesKept DEF IInv, FileInv
<1>5. LocksFirst => ExportInv'
  BY <1>1 DEF IInv, ExportInv, ExportClean, Visible
<1>6. /\ checkpoint' \in Journals /\ safeHead' \in Journals /\ synced' \in Nat
      /\ export' \in ExportType /\ GoodDb(db') /\ GoodDb(backup') /\ op' \in [Ops -> OpType]
  BY <1>1 DEF IInv, TypeInv
<1> QED
  BY <1>1, <1>3, <1>4, <1>5, <1>6, Combine

LEMMA BackupInv == ASSUME IInv, Backup PROVE IInv'
<1>1. backup' = db /\ UNCHANGED <<op, lock, dbLock, journal, synced, checkpoint, safeHead, db,
                                  req, export>>
  BY DEF Backup, fileVars, lockVars
<1>2. \A p \in Ops : OpInv(p)'
  BY <1>1, ProcessesKept
<1>3. Writeback => FileInv'
  BY <1>1, FilesKept DEF IInv, FileInv
<1>4. LocksFirst => ExportInv'
  BY <1>1 DEF IInv, ExportInv, ExportClean, Visible
<1>5. /\ checkpoint' \in Journals /\ safeHead' \in Journals /\ synced' \in Nat
      /\ export' \in ExportType /\ GoodDb(db') /\ GoodDb(backup') /\ op' \in [Ops -> OpType]
  BY <1>1 DEF IInv, TypeInv
<1> QED
  BY <1>1, <1>2, <1>3, <1>4, <1>5, Combine

(* The steps of requests and a restore: the files and the processes stay. *)
LEMMA CombineServed ==
  ASSUME IInv, UNCHANGED <<op, journal, synced, checkpoint, safeHead, export>>,
         \A p \in Ops : OpInv(p)',
         req' \in [Requests -> [phase : {"idle", "checking", "serving"}, expected : Journals]],
         GoodDb(db'), GoodDb(backup'), ServedWithoutRedacted',
         Writeback => FileInv', LocksFirst => ExportInv'
  PROVE  IInv'
<1>1. TypeInv'
  BY DEF IInv, TypeInv, GoodDb
<1>2. SeqInv' /\ HoldsRespected'
  BY DEF IInv, SeqInv, HoldsRespected
<1>3. GoodDb(db)' /\ GoodDb(backup)'
  BY DEF GoodDb, HoldsKept, RedactionsKept
<1> QED
  BY <1>1, <1>2, <1>3 DEF IInv

(* No process and no request is there to notice. *)
LEMMA RestoreInv == ASSUME IInv, Restore PROVE IInv'
<1>1. /\ db' = backup /\ UNCHANGED <<op, lock, dbLock, journal, synced, checkpoint, safeHead,
                                     backup, req, export>>
      /\ \A o \in Ops : ~ Running(o)
      /\ \A r \in Requests : req[r].phase = "idle"
      /\ export = NoExport
  BY DEF Restore, fileVars, lockVars
<1>2. \A p \in Ops : OpInv(p)'
  BY <1>1, NotRunningIsQuiet, QuietOp
<1>3. Writeback => FileInv'
  BY <1>1, FilesKept DEF IInv, FileInv
<1>4. LocksFirst => ExportInv'
  BY <1>1 DEF IInv, ExportInv, ExportClean, Visible, NoExport
<1>5. ServedWithoutRedacted'
  BY <1>1 DEF ServedWithoutRedacted
<1>6. /\ req' \in [Requests -> [phase : {"idle", "checking", "serving"}, expected : Journals]]
      /\ GoodDb(db') /\ GoodDb(backup')
  BY <1>1 DEF IInv, TypeInv
<1> QED
  BY <1>1, <1>2, <1>3, <1>4, <1>5, <1>6, CombineServed

(* A request moves and neither the database nor anything else does. *)
LEMMA OnlyRequest ==
  ASSUME IInv, UNCHANGED <<fileVars, lockVars, op, db, backup, export>>, NEW r \in Requests,
         NEW q \in [phase : {"idle", "checking", "serving"}, expected : Journals],
         req' = [req EXCEPT ![r] = q],
         q.phase = "serving" => RedactedBy(q.expected) \subseteq db.redacted
  PROVE  IInv'
<1>1. UNCHANGED <<op, lock, dbLock, journal, synced, checkpoint, safeHead, db, backup, export>>
  BY DEF fileVars, lockVars
<1>2. \A p \in Ops : OpInv(p)'
  BY <1>1, ProcessesKept
<1>3. Writeback => FileInv'
  BY <1>1, FilesKept DEF IInv, FileInv
<1>4. LocksFirst => ExportInv'
  BY <1>1 DEF IInv, ExportInv, ExportClean, Visible
<1>5. \A p \in Requests : req'[p] = IF p = r THEN q ELSE req[p]
  BY DEF IInv, TypeInv
<1>6. ServedWithoutRedacted'
  BY <1>1, <1>5 DEF IInv, ServedWithoutRedacted
<1>7. /\ req' \in [Requests -> [phase : {"idle", "checking", "serving"}, expected : Journals]]
      /\ GoodDb(db') /\ GoodDb(backup')
  BY <1>1 DEF IInv, TypeInv
<1> QED
  BY <1>1, <1>2, <1>3, <1>4, <1>6, <1>7, CombineServed

LEMMA IdleReqType == /\ IdleReq \in [phase : {"idle", "checking", "serving"}, expected : Journals]
                     /\ IdleReq.phase = "idle"
<1>1. << >> \in Journals
  BY EmptySeq DEF Journals
<1> QED
  BY <1>1 DEF IdleReq

LEMMA GuardReadInv == ASSUME IInv, NEW r \in Requests, GuardRead(r) PROVE IInv'
<1> DEFINE q == [phase |-> "checking", expected |-> checkpoint]
<1>1. q \in [phase : {"idle", "checking", "serving"}, expected : Journals] /\ q.phase # "serving"
  BY DEF IInv, TypeInv
<1>2. req' = [req EXCEPT ![r] = q] /\ UNCHANGED <<fileVars, lockVars, op, db, backup, export>>
  BY DEF GuardRead
<1> HIDE DEF q
<1> QED
  BY <1>1, <1>2, OnlyRequest

(* The guard lets through who expects the head that the database has, and  *)
(* a database has dropped what the decisions of its head redact.           *)
LEMMA GuardCompareInv == ASSUME IInv, NEW r \in Requests, GuardCompare(r) PROVE IInv'
<1>1. UNCHANGED <<fileVars, lockVars, op, db, backup, export>>
  BY DEF GuardCompare
<1>2. req[r] \in [phase : {"idle", "checking", "serving"}, expected : Journals]
  BY DEF IInv, TypeInv
<1>3. CASE db.head = req[r].expected
  <2> SUFFICES ASSUME NEW q, q = [req[r] EXCEPT !.phase = "serving"] PROVE IInv'
    OBVIOUS
  <2>1. q \in [phase : {"idle", "checking", "serving"}, expected : Journals]
        /\ q.expected = db.head
    BY <1>2, <1>3
  <2>2. req' = [req EXCEPT ![r] = q]
    BY <1>3 DEF GuardCompare
  <2>3. RedactedBy(q.expected) \subseteq db.redacted
    BY <2>1, RedactedInDb DEF IInv
  <2> QED
    BY <1>1, <2>1, <2>2, <2>3, OnlyRequest
<1>4. CASE db.head # req[r].expected
  <2>1. req' = [req EXCEPT ![r] = IdleReq]
    BY <1>4 DEF GuardCompare
  <2>2. IdleReq.phase # "serving"
    BY IdleReqType
  <2> QED
    BY <1>1, <2>1, <2>2, IdleReqType, OnlyRequest
<1> QED
  BY <1>3, <1>4

LEMMA HandleInv == ASSUME IInv, NEW r \in Requests, Handle(r) PROVE IInv'
<1>1. req' = [req EXCEPT ![r] = IdleReq] /\ UNCHANGED <<fileVars, lockVars, op, backup, export>>
  BY DEF Handle
<1>2. CASE db' = db
  <2>1. IdleReq.phase # "serving"
    BY IdleReqType
  <2> QED
    BY <1>1, <1>2, <2>1, IdleReqType, OnlyRequest
<1>3. CASE \E i \in Visible(db) \ db.deleted : db' = [db EXCEPT !.deleted = @ \cup {i}]
  <2>1. UNCHANGED <<op, lock, dbLock, journal, synced, checkpoint, safeHead, backup, export>>
    BY <1>1 DEF fileVars, lockVars
  <2>2. PICK i \in Items : db' = [db EXCEPT !.deleted = db.deleted \cup {i}]
    BY <1>3 DEF Visible
  <2>3. db \in DbType /\ GoodDb(db)
    BY DEF IInv, GoodDb
  <2>4. /\ db' \in DbType /\ db'.head = db.head /\ db'.holds = db.holds
        /\ db'.redacted = db.redacted /\ db'.hidden = db.hidden /\ db'.export = db.export
    <3>1. db.deleted \cup {i} \in SUBSET Items
      BY <2>3 DEF DbType
    <3> QED
      BY <2>2, <2>3, <3>1 DEF DbType
  <2>5. GoodDb(db')
    BY <2>3, <2>4 DEF GoodDb, HoldsKept, RedactionsKept
  <2>6. \A p \in Ops : OpInv(p)'
    BY <2>1, <2>4, ProcessesKept
  <2>7. Writeback => FileInv'
    BY <2>1, <2>4, FilesKept DEF IInv, FileInv
  <2>8. LocksFirst => ExportInv'
    BY <2>1, <2>4 DEF IInv, ExportInv, ExportClean, Visible
  <2>9. \A p \in Requests : req'[p] = IF p = r THEN IdleReq ELSE req[p]
    BY <1>1 DEF IInv, TypeInv
  <2>10. ServedWithoutRedacted'
    BY <2>4, <2>9, IdleReqType DEF IInv, ServedWithoutRedacted
  <2>11. req' \in [Requests -> [phase : {"idle", "checking", "serving"}, expected : Journals]]
         /\ GoodDb(backup')
    BY <1>1, <2>1, IdleReqType DEF IInv, TypeInv
  <2> QED
    BY <2>1, <2>5, <2>6, <2>7, <2>8, <2>10, <2>11, CombineServed
<1> QED
  BY <1>2, <1>3 DEF Handle

LEMMA ExportReadInv == ASSUME IInv, ExportRead PROVE IInv'
<1>1. PICK k \in ExportKinds : /\ k = "account" => dbLock = NoOp
                               /\ export' = [state |-> k, contents |-> Visible(db)]
  BY DEF ExportRead
<1>2. UNCHANGED <<op, lock, dbLock, journal, synced, checkpoint, safeHead, db, backup, req>>
  BY DEF ExportRead, fileVars, lockVars
<1>3. export' \in ExportType /\ export'.state = k /\ export'.contents = Visible(db)
  <2>1. Visible(db) \in SUBSET Items /\ k \in {"account", "workspace"}
    BY DEF Visible
  <2> QED
    BY <1>1, <2>1 DEF ExportType
<1>4. \A p \in Ops : OpInv(p)'
  BY <1>2, ProcessesKept
<1>5. Writeback => FileInv'
  BY <1>2, FilesKept DEF IInv, FileInv
<1>6. ASSUME LocksFirst PROVE ExportInv'
  <2>1. ExportInv /\ k = "account"
    BY <1>6 DEF IInv, LocksFirst
  <2> QED
    BY <1>1, <1>2, <1>3, <2>1 DEF ExportInv, ExportClean, Visible
<1>7. /\ checkpoint' \in Journals /\ safeHead' \in Journals /\ synced' \in Nat
      /\ GoodDb(db') /\ GoodDb(backup') /\ op' \in [Ops -> OpType]
  BY <1>2 DEF IInv, TypeInv
<1> QED
  BY <1>2, <1>3, <1>4, <1>5, <1>6, <1>7, Combine

LEMMA ExportInsertInv == ASSUME IInv, ExportInsert PROVE IInv'
<1> DEFINE x == [state |-> "live", contents |-> export.contents]
<1>1. /\ db' = [db EXCEPT !.export = x] /\ export' = NoExport /\ export.state # "none"
      /\ UNCHANGED <<op, lock, dbLock, journal, synced, checkpoint, safeHead, backup, req>>
  BY DEF ExportInsert, fileVars, lockVars
<1>2. x \in ExportType /\ NoExport \in ExportType /\ NoExport.state = "none"
      /\ x.contents = export.contents
  BY DEF IInv, TypeInv, ExportType, NoExport
<1>3. db \in DbType /\ GoodDb(db)
  BY DEF IInv, GoodDb
<1> HIDE DEF x
<1>4. /\ db' \in DbType /\ db'.head = db.head /\ db'.holds = db.holds
      /\ db'.redacted = db.redacted /\ db'.hidden = db.hidden /\ db'.export = x
  BY <1>1, <1>2, <1>3 DEF DbType
<1>5. GoodDb(db')
  BY <1>3, <1>4 DEF GoodDb, HoldsKept, RedactionsKept
<1>6. \A p \in Ops : OpInv(p)'
  BY <1>1, <1>4, ProcessesKept
<1>7. Writeback => FileInv'
  BY <1>1, <1>4, FilesKept DEF IInv, FileInv
<1>8. ASSUME LocksFirst PROVE ExportInv'
  <2>1. ExportInv
    BY <1>8 DEF IInv
  <2>2. export.contents \subseteq Visible(db)
    BY <1>1, <2>1 DEF ExportInv
  <2>3. ExportClean(db')
    BY <1>2, <1>4, <2>2 DEF ExportClean, Visible
  <2> QED
    BY <1>1, <1>2, <2>1, <2>3 DEF ExportInv, ExportClean, Visible
<1>9. /\ checkpoint' \in Journals /\ safeHead' \in Journals /\ synced' \in Nat
      /\ export' \in ExportType /\ GoodDb(backup') /\ op' \in [Ops -> OpType]
  BY <1>1, <1>2 DEF IInv, TypeInv
<1> QED
  BY <1>1, <1>4, <1>5, <1>6, <1>7, <1>8, <1>9, Combine

-----------------------------------------------------------------------------
LEMMA OperateInv == ASSUME IInv, NEW o \in Ops, Operate(o) PROVE IInv'
<1>1. CASE Start(o) \/ StartNext(o) \/ InitJournal(o) \/ Begin(o)
  BY <1>1, StartInv, StartNextInv, InitJournalInv, BeginInv
<1>2. CASE ReplayStep(o) \/ ReplayEnd(o) \/ Write(o) \/ Refused(o)
  BY <1>2, ReplayStepInv, ReplayEndInv, WriteInv, RefusedInv
<1>3. CASE Sync(o) \/ Rename(o) \/ SyncDir(o) \/ Commit(o)
  BY <1>3, SyncInv, RenameInv, SyncDirInv, CommitInv
<1> QED
  BY <1>1, <1>2, <1>3 DEF Operate

LEMMA NextInv == IInv /\ [Next]_vars => IInv'
<1> SUFFICES ASSUME IInv, [Next]_vars PROVE IInv'
  OBVIOUS
<1>1. ASSUME NEW o \in Ops, Operate(o) \/ Fail(o) \/ WriteTorn(o) \/ Kill(o) PROVE IInv'
  BY <1>1, OperateInv, FailInv, WriteTornInv, KillInv
<1>2. CASE HostCrash \/ RemoveStaleLock \/ Backup \/ Restore
  BY <1>2, HostCrashInv, RemoveStaleLockInv, BackupInv, RestoreInv
<1>3. ASSUME NEW r \in Requests, GuardRead(r) \/ GuardCompare(r) \/ Handle(r) PROVE IInv'
  BY <1>3, GuardReadInv, GuardCompareInv, HandleInv
<1>4. CASE ExportRead \/ ExportInsert
  BY <1>4, ExportReadInv, ExportInsertInv
<1>5. CASE UNCHANGED vars
  <2>1. UNCHANGED <<op, lock, dbLock, journal, synced, checkpoint, safeHead, db, backup, req, export>>
    BY <1>5 DEF vars, fileVars, lockVars
  <2>2. \A p \in Ops : OpInv(p)'
    BY <2>1, ProcessesKept
  <2>3. Writeback => FileInv'
    BY <2>1, FilesKept DEF IInv, FileInv
  <2>4. LocksFirst => ExportInv'
    BY <2>1 DEF IInv, ExportInv, ExportClean, Visible
  <2>5. /\ checkpoint' \in Journals /\ safeHead' \in Journals /\ synced' \in Nat
        /\ export' \in ExportType /\ GoodDb(db') /\ GoodDb(backup') /\ op' \in [Ops -> OpType]
    BY <2>1 DEF IInv, TypeInv
  <2> QED
    BY <2>1, <2>2, <2>3, <2>4, <2>5, Combine
<1> QED
  BY <1>1, <1>2, <1>3, <1>4, <1>5 DEF Next

LEMMA Invariance == Spec => []IInv
BY InitInv, NextInv, PTL DEF Spec

-----------------------------------------------------------------------------
(* DATA-LIFECYCLE-DESIGN.md, holds prevent destructive actions: no journal *)
(* that crashes, restores and replays can make has a destruction under a   *)
(* hold.  It rests on the plan being made in a database that has applied   *)
(* the whole journal, and on that database's holds (HoldsKept).            *)
THEOREM HoldsAlwaysRespected == Spec => []HoldsRespected
<1>1. IInv => HoldsRespected
  BY DEF IInv
<1> QED
  BY <1>1, Invariance, PTL

(* Guard.Check: whoever passed the guard meets no content that a decision  *)
(* below its checkpoint redacted, whatever was restored before.            *)
THEOREM GuardHidesRedacted == Spec => []ServedWithoutRedacted
<1>1. IInv => ServedWithoutRedacted
  BY DEF IInv
<1> QED
  BY <1>1, Invariance, PTL

(* journal.go: if the system writes back what a dead process left before   *)
(* the host stops, the journal stays loadable and the checkpoint on disk,  *)
(* however the four steps of an append are interrupted.                    *)
THEOREM JournalStaysLoadable == ASSUME Writeback PROVE Spec => []JournalLoads
<1>1. IInv => JournalLoads
  <2> SUFFICES ASSUME IInv
               PROVE  /\ \A k \in DOMAIN journal : journal[k].seq = k
                      /\ IsPrefix(checkpoint, SubSeq(journal, 1, synced))
    BY DEF JournalLoads
  <2>1. TypeInv /\ FileInv /\ SeqInv
    BY DEF IInv
  <2>2. /\ journal \in Journals /\ checkpoint \in Journals /\ Len(journal) \in Nat
        /\ Len(checkpoint) \in Nat /\ DOMAIN journal = 1..Len(journal)
        /\ synced \in 0..Len(journal) /\ Len(checkpoint) <= synced
    BY <2>1, RecordParts DEF TypeInv, FileInv
  <2> DEFINE s == SubSeq(journal, 1, synced)
  <2>3. s \in Journals /\ Len(s) = synced /\ \A k \in 1..synced : s[k] = journal[k]
    BY <2>2, Truncating
  <2> HIDE DEF s
  <2>4. Below(checkpoint, s)
    <3>1. Below(checkpoint, journal)
      BY <2>1 DEF FileInv
    <3>2. \A k \in 1..Len(checkpoint) : k \in 1..synced /\ checkpoint[k] = journal[k]
      BY <3>1, <2>2 DEF Below
    <3>3. Len(checkpoint) <= Len(s) /\ \A k \in 1..Len(checkpoint) : checkpoint[k] = s[k]
      BY <3>2, <2>2, <2>3
    <3> QED
      BY <3>3 DEF Below
  <2>5. IsPrefix(checkpoint, s)
    BY <2>2, <2>3, <2>4, BelowIsPrefix
  <2> QED
    BY <2>1, <2>2, <2>5 DEF SeqInv, s
<1> QED
  BY <1>1, Invariance, PTL

(* database.go: with the same write-back, no database and no backup ever   *)
(* has a decision that the checkpoint a crash leaves does not have.        *)
THEOREM DatabaseStaysBehind == ASSUME Writeback PROVE Spec => []DatabaseBehindCheckpoint
<1>1. IInv => DatabaseBehindCheckpoint
  BY BelowIsPrefix DEF IInv, TypeInv, DbType, FileInv, DatabaseBehindCheckpoint
<1> QED
  BY <1>1, Invariance, PTL

(* 0014: where every export creation locks before it reads, as an account  *)
(* export does, a live export holds nothing redacted or taken down.        *)
THEOREM LockedExportsClean == ASSUME LocksFirst PROVE Spec => []NoRestrictedExport
<1>1. IInv => NoRestrictedExport
  BY DEF IInv, ExportInv, ExportClean, NoRestrictedExport
<1> QED
  BY <1>1, Invariance, PTL
=============================================================================
