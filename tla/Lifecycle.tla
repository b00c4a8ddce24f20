----------------------------- MODULE Lifecycle -----------------------------
(***************************************************************************)
(* Operator decisions and their recovery: sierxctl lifecycle, the journal  *)
(* and its trusted checkpoint (internal/lifecycle), the decision functions *)
(* in the database (migration 0014), the guard in front of every request,  *)
(* and data exports.                                                       *)
(*                                                                         *)
(* A decision is appended to the journal, the checkpoint file is replaced, *)
(* and the database applies it and remembers it as its head.  A process or *)
(* the host may stop between any two of these, and an older database may   *)
(* be restored.  A head is the hash of a record chain; here it is the      *)
(* chain itself.                                                           *)
(***************************************************************************)
EXTENDS Naturals, Sequences, SequencesExt, FiniteSets

CONSTANTS Ops,          \* sierxctl processes
          Requests,     \* HTTP requests
          Items,        \* content a decision can be about
          Holds,        \* hold ids
          Kinds,        \* the kinds of decision operators take
          ExportKinds,  \* "account", "workspace"
          NoOp,         \* nobody
          Stale,        \* owner of a lock directory whose process died
          Writeback,    \* the system writes a dead process's data to disk in time
          MaxRecords,   \* capacity of the journal file, in records
          MaxFaults     \* bound on crashes, I/O errors and restores

Destroying == {"redact-item", "retention"}

AllKinds == Destroying \cup {"hold-create", "hold-release", "takedown", "restore-content",
                             "cleanup"}

ASSUME LifecycleAssumption ==
    /\ NoOp \notin Ops \cup Holds /\ Stale \notin Ops /\ NoOp # Stale
    /\ Kinds \subseteq AllKinds
    /\ ExportKinds \subseteq {"account", "workspace"}
    /\ Writeback \in BOOLEAN
    /\ MaxRecords \in Nat /\ MaxFaults \in Nat

VARIABLES
    files,      \* how many of key, journal, verification key, checkpoint exist
    journal,    \* the records in the journal file
    synced,     \* how many of them are known to be on disk
    torn,       \* the file ends in part of a record
    checkpoint, \* the head in the checkpoint file
    safeHead,   \* the checkpoint a host crash is sure to leave
    lock,       \* owner of the lock directory
    dbLock,     \* transaction holding sierx_lifecycle_lock
    op,         \* op[o]: the state of process o
    db,         \* the database
    backup,     \* the last database backup
    req,        \* req[r]: a request at the guard
    export,     \* the export being created
    faults      \* crashes, errors and restores so far

fileVars == <<files, journal, synced, torn, checkpoint, safeHead>>
lockVars == <<lock, dbLock>>
vars == <<fileVars, lockVars, op, db, backup, req, export, faults>>

NoExport == [state |-> "none", contents |-> {}]

EmptyDb == [head |-> << >>, holds |-> [h \in Holds |-> "none"], deleted |-> {},
            redacted |-> {}, hidden |-> {}, export |-> NoExport]

IdleOp == [phase |-> "idle", mode |-> "none", todo |-> << >>, j |-> << >>, tx |-> EmptyDb]

IdleReq == [phase |-> "idle", expected |-> << >>]

Init == /\ files = 0 /\ journal = << >> /\ synced = 0 /\ torn = FALSE
        /\ checkpoint = << >> /\ safeHead = << >>
        /\ lock = NoOp /\ dbLock = NoOp
        /\ op = [o \in Ops |-> IdleOp]
        /\ db = EmptyDb /\ backup = EmptyDb
        /\ req = [r \in Requests |-> IdleReq]
        /\ export = NoExport
        /\ faults = 0

-----------------------------------------------------------------------------
(* The database functions *)

ActiveHold(d) == \E h \in Holds : d.holds[h] = "active"

Visible(d) == Items \ (d.hidden \cup d.redacted)

(* sierx_lifecycle_plan accepts the decision and enumerates its targets.   *)
(* Retention takes every deleted item, the cutoff lying after them all.    *)
Plan(d, r) ==
    /\ r.kind \in Destroying => ~ ActiveHold(d)
    /\ CASE r.kind = "hold-create"  -> r.ids = {} /\ r.hold \in Holds /\ d.holds[r.hold] = "none"
         [] r.kind = "hold-release" -> r.ids = {} /\ r.hold \in Holds /\ d.holds[r.hold] = "active"
         [] r.kind = "retention"    -> r.ids = d.deleted \ d.redacted /\ r.hold = NoOp
         [] r.kind = "cleanup"      -> r.ids = {} /\ r.hold = NoOp
         [] OTHER                   -> Cardinality(r.ids) = 1 /\ r.hold = NoOp

(* sierx_lifecycle_apply does not raise. *)
Applies(d, r) == /\ r.seq = Len(d.head) + 1
                 /\ r.kind \in Destroying => ~ ActiveHold(d)
                 /\ r.kind = "retention" => r.ids \subseteq d.deleted

(* Mutant: retention, which deals with deleted content, leaves exports. *)
ExportAfterDeleted(d, r, held) ==
    LET closed == IF d.export.state = "live" /\ r.kind \in {"redact-item", "takedown"}
                  THEN [d.export EXCEPT !.state = "closed"] ELSE d.export
    IN IF closed.state = "closed" /\ ~ held THEN NoExport ELSE closed

(* Exports made before a decision about content are revoked, and their     *)
(* payload erased unless a hold keeps it.                                  *)
ExportAfter(d, r, held) ==
    LET closed == IF /\ d.export.state = "live"
                     /\ r.kind \in Destroying \cup {"takedown"}
                  THEN [d.export EXCEPT !.state = "closed"] ELSE d.export
    IN IF closed.state = "closed" /\ ~ held THEN NoExport ELSE closed

(* What it changes, the head included, in one transaction. *)
Applied(d, r) ==
    LET holds == [h \in Holds |-> IF h # r.hold THEN d.holds[h]
                                  ELSE IF r.kind = "hold-create" THEN "active" ELSE "released"]
        hits(kinds) == IF r.kind \in kinds THEN r.ids ELSE {}
    IN [head     |-> Append(d.head, r),
        holds    |-> holds,
        deleted  |-> d.deleted \cup hits(Destroying),
        redacted |-> d.redacted \cup hits(Destroying),
        hidden   |-> (d.hidden \cup hits({"takedown"})) \ hits({"restore-content"}),
        export   |-> ExportAfter(d, r, \E h \in Holds : holds[h] = "active")]

-----------------------------------------------------------------------------
(* The journal *)

(* load(allowTail = TRUE): the records chain from the first on and contain *)
(* the trusted head.                                                       *)
Loadable == /\ files = 4
            /\ ~ torn
            /\ \A k \in DOMAIN journal : journal[k].seq = k
            /\ IsPrefix(checkpoint, journal)

(* A process ends: the next decision of a maintenance run, or nothing. *)
Exit(o) == op' = [op EXCEPT ![o] =
                    IF Len(op[o].todo) > 1
                    THEN [IdleOp EXCEPT !.phase = "start", !.mode = "apply",
                                        !.todo = Tail(op[o].todo)]
                    ELSE IdleOp]

(* ... releasing what it held. *)
Release(o) == /\ lock' = IF lock = o THEN NoOp ELSE lock
              /\ dbLock' = IF dbLock = o THEN NoOp ELSE dbLock

(* The commands that change something; maintain applies retention, then    *)
(* cleanup.  plan and verify only read.                                    *)
Commands == {[mode |-> m, todo |-> << >>] : m \in {"init", "reconcile", "replay"}}
            \cup {[mode |-> "apply", todo |-> <<k>>] : k \in Kinds}
            \cup {[mode |-> "apply", todo |-> <<k, "cleanup">>] : k \in Kinds \cap {"retention"}}

(* Mutant: reconcile-checkpoint, too, insists on the checkpoint it is to   *)
(* replace.                                                                *)
LoadsStrict(mode) == IF mode = "init" THEN db.head = << >> /\ files = 0
                     ELSE Loadable /\ checkpoint = journal /\ IsPrefix(db.head, journal)

(* The command gets past Init's, Load's or RecoverCheckpoint's checks and  *)
(* the prefix check; otherwise it ends with an error.  A reconciliation    *)
(* has written the checkpoint before its prefix check.                     *)
Loads(mode) == IF mode = "init" THEN db.head = << >> /\ files = 0
               ELSE /\ Loadable
                    /\ mode # "reconcile" => checkpoint = journal /\ IsPrefix(db.head, journal)

FirstPhase == [init |-> "creating", reconcile |-> "synced", replay |-> "loaded",
               apply |-> "loaded"]

(* Lock, DatabaseHead and Load: only the lock's owner and a crash change   *)
(* what is read, so they are one step.                                     *)
Open(o, c) == /\ lock = NoOp
              /\ Loads(c.mode)
              /\ lock' = o
              /\ op' = [op EXCEPT ![o] = [IdleOp EXCEPT
                          !.phase = FirstPhase[c.mode], !.mode = c.mode,
                          !.todo = c.todo, !.j = journal]]

Start(o) == /\ op[o].phase = "idle"
            /\ \E c \in Commands : Open(o, c)
            /\ UNCHANGED <<fileVars, dbLock, db, backup, req, export, faults>>

(* The next decision of a maintenance run, whatever came of the last. *)
StartNext(o) == /\ op[o].phase = "start"
                /\ \/ Open(o, [mode |-> "apply", todo |-> op[o].todo])
                   \/ /\ lock # NoOp \/ ~ Loads("apply")
                      /\ Exit(o)
                      /\ UNCHANGED lock
                /\ UNCHANGED <<fileVars, dbLock, db, backup, req, export, faults>>

(* Init: the four files, one after the other. *)
InitJournal(o) == /\ op[o].phase = "creating"
                  /\ \/ /\ files < 4
                        /\ files' = files + 1
                        /\ UNCHANGED <<op, lockVars>>
                     \/ /\ files = 4
                        /\ Exit(o)
                        /\ Release(o)
                        /\ UNCHANGED files
                  /\ UNCHANGED <<journal, synced, torn, checkpoint, safeHead, db, backup,
                                 req, export, faults>>

(* BEGIN and sierx_lifecycle_lock, which waits for another such            *)
(* transaction and for one that writes exports; the database is read again *)
(* under the lock.                                                         *)
Begin(o) == /\ op[o].phase = "loaded"
            /\ dbLock = NoOp
            /\ export.state # "account"
            /\ dbLock' = o
            /\ op' = [op EXCEPT ![o].phase = "begun", ![o].tx = db]
            /\ UNCHANGED <<fileVars, lock, db, backup, req, export, faults>>

(* replay: the next record beyond the head, inside the transaction. *)
ReplayStep(o) ==
    /\ op[o].phase = "begun" /\ op[o].mode = "replay"
    /\ IsStrictPrefix(op[o].tx.head, op[o].j)
    /\ LET r == op[o].j[Len(op[o].tx.head) + 1] IN
         /\ Applies(op[o].tx, r)
         /\ op' = [op EXCEPT ![o].tx = Applied(@, r)]
    /\ UNCHANGED <<fileVars, lockVars, db, backup, req, export, faults>>

(* All of them are committed together, or an error and nothing. *)
ReplayEnd(o) ==
    /\ op[o].phase = "begun" /\ op[o].mode = "replay"
    /\ \/ /\ op[o].tx.head = op[o].j
          /\ db' = op[o].tx
       \/ /\ \/ ~ IsPrefix(op[o].tx.head, op[o].j)
             \/ /\ IsStrictPrefix(op[o].tx.head, op[o].j)
                /\ ~ Applies(op[o].tx, op[o].j[Len(op[o].tx.head) + 1])
          /\ UNCHANGED db
    /\ Exit(o)
    /\ Release(o)
    /\ UNCHANGED <<fileVars, backup, req, export, faults>>

(* Mutant: a decision is planned although earlier ones are not applied. *)
WriteUnmatched(o) ==
    /\ op[o].phase = "begun" /\ op[o].mode = "apply"
    /\ Len(journal) < MaxRecords
    /\ \E r \in [seq : {Len(op[o].j) + 1}, kind : {Head(op[o].todo)},
                 hold : Holds \cup {NoOp}, ids : SUBSET Items] :
         /\ Plan(db, r)
         /\ journal' = Append(journal, r)
         /\ op' = [op EXCEPT ![o].phase = "written", ![o].j = Append(@, r)]
    /\ UNCHANGED <<files, synced, torn, checkpoint, safeHead, lockVars, db, backup, req,
                   export, faults>>

(* apply: the plan is accepted under the lock and its record written. *)
Write(o) ==
    /\ op[o].phase = "begun" /\ op[o].mode = "apply"
    /\ op[o].j = db.head
    /\ Len(journal) < MaxRecords
    /\ \E r \in [seq : {Len(op[o].j) + 1}, kind : {Head(op[o].todo)},
                 hold : Holds \cup {NoOp}, ids : SUBSET Items] :
         /\ Plan(db, r)
         /\ journal' = Append(journal, r)
         /\ op' = [op EXCEPT ![o].phase = "written", ![o].j = Append(@, r)]
    /\ UNCHANGED <<files, synced, torn, checkpoint, safeHead, lockVars, db, backup, req,
                   export, faults>>

(* A database that needs a replay first, or a refused plan (whose blocked  *)
(* attempt is audited): nothing changes.                                   *)
Refused(o) == /\ op[o].phase = "begun" /\ op[o].mode = "apply"
              /\ Exit(o)
              /\ Release(o)
              /\ UNCHANGED <<fileVars, db, backup, req, export, faults>>

(* Mutant: the record is taken for written without fsync. *)
SyncNot(o) == /\ op[o].phase = "written"
              /\ op' = [op EXCEPT ![o].phase = "synced"]
              /\ UNCHANGED <<fileVars, lockVars, db, backup, req, export, faults>>

Sync(o) == /\ op[o].phase = "written"
           /\ synced' = Len(journal)
           /\ op' = [op EXCEPT ![o].phase = "synced"]
           /\ UNCHANGED <<files, journal, torn, checkpoint, safeHead, lockVars, db, backup,
                          req, export, faults>>

(* writeHead: the new checkpoint, itself synced, takes the old one's name. *)
Rename(o) == /\ op[o].phase = "synced"
             /\ checkpoint' = op[o].j
             /\ op' = [op EXCEPT ![o].phase = "renamed"]
             /\ UNCHANGED <<files, journal, synced, torn, safeHead, lockVars, db, backup,
                            req, export, faults>>

(* Mutant: the decision is applied before the directory is synced. *)
SyncDirNot(o) ==
    /\ op[o].phase = "renamed"
    /\ \/ /\ op[o].mode = "reconcile" /\ Exit(o) /\ Release(o)
       \/ /\ op[o].mode # "reconcile"
          /\ op' = [op EXCEPT ![o].phase = "appended"]
          /\ UNCHANGED lockVars
    /\ UNCHANGED <<fileVars, db, backup, req, export, faults>>

(* syncDir; a reconciliation is done, and its verdict changes nothing. *)
SyncDir(o) ==
    /\ op[o].phase = "renamed"
    /\ safeHead' = checkpoint
    /\ \/ /\ op[o].mode = "reconcile" /\ Exit(o) /\ Release(o)
       \/ /\ op[o].mode # "reconcile"
          /\ op' = [op EXCEPT ![o].phase = "appended"]
          /\ UNCHANGED lockVars
    /\ UNCHANGED <<files, journal, synced, torn, checkpoint, db, backup, req, export, faults>>

(* ApplyRecord and COMMIT.  A commit reported as uncertain is this step or *)
(* Fail.                                                                   *)
Commit(o) == /\ op[o].phase = "appended"
             /\ db' = IF Applies(db, Last(op[o].j)) THEN Applied(db, Last(op[o].j)) ELSE db
             /\ Exit(o)
             /\ Release(o)
             /\ UNCHANGED <<fileVars, backup, req, export, faults>>

-----------------------------------------------------------------------------
(* Faults *)

Fault == faults < MaxFaults /\ faults' = faults + 1

(* What a process wrote or renamed and did not sync, after its end. *)
LeftOver == /\ synced' = IF Writeback THEN Len(journal) ELSE synced
            /\ safeHead' = IF Writeback THEN checkpoint ELSE safeHead

Running(o) == op[o].phase \notin {"idle", "start"}

(* An error of a system call or the database: the transaction rolls back,  *)
(* the lock directory is removed.                                          *)
Fail(o) == /\ Fault
           /\ Running(o)
           /\ Exit(o)
           /\ Release(o)
           /\ LeftOver
           /\ UNCHANGED <<files, journal, torn, checkpoint, db, backup, req, export>>

(* The disk fills while the record is written. *)
WriteTorn(o) == /\ Fault
                /\ op[o].phase = "begun" /\ op[o].mode = "apply" /\ op[o].j = db.head
                /\ torn' = TRUE
                /\ Exit(o)
                /\ Release(o)
                /\ UNCHANGED <<files, journal, synced, checkpoint, safeHead, db, backup, req,
                               export>>

(* The process is killed: the lock directory stays. *)
Kill(o) == /\ Fault
           /\ Running(o)
           /\ op' = [op EXCEPT ![o] = IdleOp]
           /\ lock' = IF lock = o THEN Stale ELSE lock
           /\ dbLock' = IF dbLock = o THEN NoOp ELSE dbLock
           /\ LeftOver
           /\ UNCHANGED <<files, journal, torn, checkpoint, db, backup, req, export>>

(* The host stops: what was not synced may be lost, a record in part. *)
HostCrash ==
    /\ Fault
    /\ \E n \in synced..Len(journal), part \in BOOLEAN :
         /\ part => n < Len(journal)
         /\ journal' = SubSeq(journal, 1, n)
         /\ torn' = (torn \/ part)
         /\ synced' = n
    /\ checkpoint' \in {checkpoint, safeHead}
    /\ safeHead' = checkpoint'
    /\ op' = [o \in Ops |-> IdleOp]
    /\ lock' = IF lock = NoOp THEN NoOp ELSE Stale
    /\ dbLock' = NoOp
    /\ req' = [r \in Requests |-> IdleReq]
    /\ export' = NoExport
    /\ UNCHANGED <<files, db, backup>>

(* The operator has made sure that no process owns the lock. *)
RemoveStaleLock == /\ lock = Stale
                   /\ lock' = NoOp
                   /\ UNCHANGED <<fileVars, dbLock, op, db, backup, req, export, faults>>

Backup == /\ backup # db
          /\ backup' = db
          /\ UNCHANGED <<fileVars, lockVars, op, db, req, export, faults>>

(* Ordinary access and operator commands are stopped, then an older        *)
(* database takes the place of this one; the files stay.                   *)
Restore == /\ Fault
           /\ \A o \in Ops : ~ Running(o)
           /\ \A r \in Requests : req[r].phase = "idle"
           /\ export = NoExport
           /\ db' = backup
           /\ UNCHANGED <<fileVars, lockVars, op, backup, req, export>>

-----------------------------------------------------------------------------
(* Requests: requestLog asks the guard before the handler runs. *)

(* Guard.checkpoint *)
GuardRead(r) == /\ req[r].phase = "idle"
                /\ files = 4
                /\ req' = [req EXCEPT ![r] = [phase |-> "checking", expected |-> checkpoint]]
                /\ UNCHANGED <<fileVars, lockVars, op, db, backup, export, faults>>

(* Mutant: only the checkpoint's authenticity is checked. *)
GuardWaves(r) == /\ req[r].phase = "checking"
                 /\ req' = [req EXCEPT ![r].phase = "serving"]
                 /\ UNCHANGED <<fileVars, lockVars, op, db, backup, export, faults>>

(* Guard.Check: the database's head, read after the checkpoint; 503. *)
GuardCompare(r) == /\ req[r].phase = "checking"
                   /\ req' = [req EXCEPT ![r] = IF db.head = @.expected
                                                THEN [@ EXCEPT !.phase = "serving"]
                                                ELSE IdleReq]
                   /\ UNCHANGED <<fileVars, lockVars, op, db, backup, export, faults>>

(* The handler reads, or soft deletes unless the lifecycle lock is taken. *)
Handle(r) == /\ req[r].phase = "serving"
             /\ req' = [req EXCEPT ![r] = IdleReq]
             /\ \/ UNCHANGED db
                \/ /\ dbLock = NoOp
                   /\ \E i \in Visible(db) \ db.deleted : db' = [db EXCEPT !.deleted = @ \cup {i}]
             /\ UNCHANGED <<fileVars, lockVars, op, backup, export, faults>>

-----------------------------------------------------------------------------
(* Exports *)

(* sierx_create_data_export (account) clears expired rows first, and so    *)
(* owns a lock on the export table that excludes the lifecycle lock before *)
(* it reads; sierx_create_workspace_export only reads ...                  *)
ExportRead == /\ export.state = "none"
              /\ \E k \in ExportKinds :
                   /\ k = "account" => dbLock = NoOp
                   /\ export' = [state |-> k, contents |-> Visible(db)]
              /\ UNCHANGED <<fileVars, lockVars, op, db, backup, req, faults>>

(* ... and waits for it when it inserts. *)
ExportInsert == /\ export.state # "none"
                /\ dbLock = NoOp
                /\ db' = [db EXCEPT !.export = [state |-> "live", contents |-> export.contents]]
                /\ export' = NoExport
                /\ UNCHANGED <<fileVars, lockVars, op, backup, req, faults>>

-----------------------------------------------------------------------------
Operate(o) == \/ Start(o) \/ StartNext(o) \/ InitJournal(o) \/ Begin(o)
              \/ ReplayStep(o) \/ ReplayEnd(o) \/ Write(o) \/ Refused(o) \/ Sync(o) \/ Rename(o)
              \/ SyncDir(o) \/ Commit(o)

Next == \/ \E o \in Ops : Operate(o) \/ Fail(o) \/ WriteTorn(o) \/ Kill(o)
        \/ HostCrash \/ RemoveStaleLock \/ Backup \/ Restore
        \/ \E r \in Requests : GuardRead(r) \/ GuardCompare(r) \/ Handle(r)
        \/ ExportRead \/ ExportInsert

Spec == Init /\ [][Next]_vars

(* The operators remove stale locks, reconcile and replay again and again, *)
(* and a running command runs on: an export is one statement, and the      *)
(* database serves those who wait for a lock in turn.                      *)
Begins(m) == \E o \in Ops : Start(o) /\ op'[o].mode = m

Runs == \E o \in Ops : op[o].phase # "idle" /\ Operate(o)

FairSpec == /\ Spec
            /\ WF_vars(RemoveStaleLock)
            /\ SF_vars(Runs)
            /\ WF_vars(ExportInsert)
            /\ SF_vars(Begins("reconcile"))
            /\ SF_vars(Begins("replay"))

-----------------------------------------------------------------------------
(* Properties *)

(* journal.go "It cannot accept truncation": whoever stops where, a        *)
(* journal without a partial record can be loaded, its records chain, and  *)
(* the checkpoint names a record that is on disk.                          *)
JournalLoads ==
    files = 4 /\ ~ torn =>
        /\ \A k \in DOMAIN journal : journal[k].seq = k
        /\ IsPrefix(checkpoint, SubSeq(journal, 1, synced))

(* database.go "A database ahead of the latest trusted checkpoint is never *)
(* accepted", nor does a crash leave one: what a database or a backup has  *)
(* applied is below the checkpoint that survives a crash.                  *)
DatabaseBehindCheckpoint == /\ IsPrefix(db.head, safeHead)
                            /\ IsPrefix(backup.head, safeHead)

HeldBefore(s, k) == \E m \in 1..(k - 1) :
                       /\ s[m].kind = "hold-create"
                       /\ \A n \in (m + 1)..(k - 1) :
                            ~ (s[n].kind = "hold-release" /\ s[n].hold = s[m].hold)

(* DATA-LIFECYCLE-DESIGN.md: holds prevent destructive actions.  The       *)
(* journal never has a redaction or retention after a hold that no earlier *)
(* record releases, although decisions are planned in a database that may  *)
(* have been restored or may lack the last decisions.                      *)
HoldsRespected == \A k \in DOMAIN journal :
                     journal[k].kind \in Destroying => ~ HeldBefore(journal, k)

RedactedBy(s) == UNION {s[k].ids : k \in {m \in DOMAIN s : s[m].kind \in Destroying}}

(* LIFECYCLE-OPERATIONS.md "Every request still verifies the current       *)
(* checkpoint against the database": content that a decision below the     *)
(* checkpoint removed is not there for any request that passed the guard,  *)
(* even after older databases were restored and decisions interrupted.     *)
ServedWithoutRedacted == \A r \in Requests :
    req[r].phase = "serving" => RedactedBy(req[r].expected) \subseteq db.redacted

(* 0014 "Revoke earlier artifacts whenever access/content changes": an     *)
(* export that can be downloaded holds nothing that is redacted or taken   *)
(* down, whenever its creation fell.                                       *)
NoRestrictedExport == db.export.state = "live" =>
                        db.export.contents \subseteq Visible(db)

(* LIFECYCLE-OPERATIONS.md:80 "Hold releases and redactions are historical *)
(* replay decisions, not new authorization decisions during recovery": the *)
(* database accepts every record of a replay.                              *)
ReplayAccepted == \A o \in Ops :
    op[o].phase = "begun" /\ op[o].mode = "replay" /\ IsStrictPrefix(op[o].tx.head, op[o].j)
       => Applies(op[o].tx, op[o].j[Len(op[o].tx.head) + 1])

(* A pending retention names an item the restored database never deleted. *)
Unqualified == \E k \in (Len(db.head) + 1)..Len(journal) :
                 journal[k].kind = "retention" /\ ~ journal[k].ids \subseteq db.deleted

(* DATA-LIFECYCLE-DESIGN.md "An interrupted apply leaves access blocked    *)
(* until replay succeeds", and it does succeed: wherever commands were     *)
(* interrupted and whatever was restored, the recovery commands bring      *)
(* journal, checkpoint and database together again, but for a partial      *)
(* record, an unfinished init or a retention that no longer qualifies.     *)
Recovers == []<>(\/ journal = checkpoint /\ journal = db.head
                 \/ torn \/ files # 4 \/ Unqualified)
=============================================================================
