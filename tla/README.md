# Verification of sierx

sierx is a small work tracker: a Go server over PostgreSQL, a React client served
by the same binary, and operator tools. Its hard core is a single write path
(`store.Mutate`) that gives every change a sequence number, a change feed that
clients follow by polling, a tree of items with materialised paths, ranks and
rollups, optimistic concurrency from the browser form down to the row, and an
external journal of operator decisions that outlives the database. This directory
models that core in TLA+, checks it with TLC and proves its safety properties with
TLAPS.

Run a check with `tlc -config ChangeFeed.cfg MCChangeFeed` (one line per run of
`PROJECT.json`), a proof with `tlapm ChangeFeedProofs.tla`.

## Inventory

| part | state | operations | what is hard | module |
|---|---|---|---|---|
| write path: `internal/store/mutate.go`, `events.go` | `seq_counter`, `change_event`, item rows | `Mutate`, `flush`, `HardDeleteItem`, `RebalanceProject` | numbers must be commit-ordered and gap-free while transactions overlap and fail; a hard delete, the admin path of events.go:306 that only tests call today, leaves events without an item | ChangeFeed |
| change feed: `internal/api/changes.go` | none (the client's cursor) | `GET /changes` | cursor, limit and rows hidden by row-level security | ChangeFeed |
| bootstrap and feed client: `documents.go`, `feed.ts`, `Shell.tsx` | feed position, query cache, expiry flag | two reads, poll, invalidate, expire, resume | non-atomic reads; position moved before the refetch | FeedClient |
| item tree: `mutate.go`, `rollup.go`, `query/*.sql`, trigger `item_path_check` | parent, path, version, change_seq; rollup row; links; comments | create, update, delete, move, link, unlink, comment, hard delete, respread | handlers read before the lock; only dirty ancestors are recomputed | ItemStore |
| ranks: `rank.go`, `applyReparent`, `RebalanceProject` | rank strings | between, sequence, respread, rebalance | boundaries of the alphabet; a map of ranks read before the lock | Ranks |
| item handlers: `items.go`, `transition.go`, `move.go`, `links.go`, `comments.go` | none | read, validate, `Mutate`, read back, 409 | merging a patch into a stale read | ItemStore, ItemEdit, Workflow |
| request transaction: `db.go` | one transaction per request | begin, commit after the handler | the answer is written before the commit | ChangeFeed, ItemEdit |
| editing client: `ItemActions.tsx`, `Fields.tsx`, `MarkdownEditor.tsx`, `DetailEditor.tsx`, `dialog.tsx`, `client.ts` | controls, the draft's version, optimistic cache, conflict | open, type, submit, receive, retry, cancel, close | a form sends controls filled at its opening under a version that follows refetches; which version a retry stands for; cache rollback | ItemEdit |
| projects and workflow configuration: `projects.go`, `workflow.go`, `config.go`, `transition.go` | project row, configuration versions | create, edit, publish, transition | item, arc and commit are separate reads | Workflow |
| lists: `cursor.go`, `pages.go`, `hierarchy.go`, `history.go`, `sxq.go` | a signed cursor at the client | first page, next page | rows that change between pages; ties, NULLs, `now()` | Listing |
| lifecycle: `internal/lifecycle`, `sierxctl lifecycle`, migration 0014 | journal file, checkpoint file, lock directory, database head, holds, restrictions | init, apply, replay, reconcile, maintain, guard | crash between three durable stores, restore of an old database | Lifecycle |
| exports: migrations 0013, 0014 | `operator_data_export` | create, revoke | content read before a lock is met | Lifecycle |
| accounts and sign-in: `auth.go`, `auth/*.go`, `totp.go`, `admin_members.go`, migrations 0012, 0016 | account row, encrypted TOTP state, sessions, password-work slot | login, enroll, confirm, disable, logout, add member, suspend | one-time codes under concurrent logins; verification before the lock | Accounts |
| attempt limit: `auth.go`, `totp.go` | table of windows | admit, refuse, prune | a full table; a burst around a window's end | Attempts |

What makes the parts correct, in the order the work followed: the log is gap-free,
commit-ordered and complete for every follower; a page that has caught up shows
current data; the tree's paths, parents and rollups agree; nobody overwrites what
they have not seen; what a client was told is saved is saved; what an operator
removed stays removed through crashes and restores, and recovery succeeds; codes
are used once; statuses follow the workflow; lists are complete; the order is the
one that was asked for.

How they interact. Every handler runs in the transaction of `withRequestScope`;
`Mutate` nests in it as a savepoint, so the counter's row lock taken in `flush` is
held until the request commits. Pollers and bootstrap reads are other READ
COMMITTED transactions. The operator tool takes table locks that wait for writers
that have written rows. Every request first passes the lifecycle guard, which
compares the checkpoint file with the database. The web client learns of changes
only by polling.

## Modules

**ChangeLog** is the abstract specification: an append-only log and readers handed
each entry once, in order, except entries of items that may be restricted or
deleted, which may be withheld.

**ChangeFeed** models writers, pollers and the operator. A transaction goes
`idle -> open -> allocated -> flushed -> idle`: `Begin` (`Mutate` has accumulated
the events), `AllocateSeq` (waits for `seqLock`, takes the block), `Flush` (rows
and events, refused while an item they touch is hidden), `Commit`, and `Rollback`
from any of them. An event is the item it is about, a second item its values name,
the rows whose `change_seq` it stamps and the rows its change deletes (`drops`);
this is all that numbering, filtering and stamping look at. A hard delete puts the
item in `gone`. `Visible` is `sierx_lifecycle_event_visible` (0014:73-82): it wants
the row of the event's item to exist, and `change_event.item_id` has no foreign key,
so a hard delete takes all events of the item, the terminal one it has just written
included, out of the pollers' sight. The deleting role is not bound by the row-level
policies, which would refuse that terminal event. `Childless` is the foreign key on
`parent_id`. `Page` is the query of `changes`; `Poll` moves the cursor to
the last row's number. `Takedown` and `RestoreContent` need every writer that has
written rows to be finished, as `sierx_lifecycle_lock` does.

**FeedClient** extends ChangeFeed with open pages. `ReadSequence` and `ReadItems`
are the two statements of the bootstrap, in this order, with commits in between.
`FetchPage`/`Receive`/`FetchFails` and `Refetch`/`RefetchFails` are the two awaits
of `poll`. `Expire` and `Resume` flip `expired`, on which the React effect
depends: its clean-up stops the feed and a new one starts from the bootstrap
position. What is on screen is a `change_seq` per item. A hard-deleted item stays on
the screen, since no event tells the client of it; the properties are about the others.

**ItemStore** is the tree under concurrent requests. `Read` is everything a
handler reads before `Mutate` and the version its client sent; `Flush` is the
whole of `store.flush` for one kind of change: expected version, rows, dirty
ancestors, counter. Since the counter row stays locked from allocation to commit,
flushes are atomic to each other (ChangeFeed is where the lock itself is modelled).
`PathCheck` is the database trigger, `HardDelete` carries the foreign keys,
`Respread` says whether a new rank may trigger `sierx_set_project_ranks`.

**Ranks** is the order that ItemStore leaves out: rank strings over an alphabet of
`Base` digits, `RankBetween` and `RankSequence` as functions, creation at the end,
moves with the respread and second attempt of `applyReparent`, hard deletes, and
`RebalanceProject`, which reads the ranks in one step and writes its map of them in
a later one. The loop of `RankBetween` is written as the position where it stops
(`Apart`), and `Ends` says that there is one. `ORDER BY rank` is `Order`: the k-th
item is the one with k - 1 ahead of it.

**ItemEdit** is one item, people with a form each, the handler and the
transaction. `Layouts` are the forms: the edit form of `ItemActions.tsx`, which sends
every field, and the editors of one field. `Open` fills every control from the cache.
Afterwards a plain input that nobody typed into shows the refetched item (`Display`),
because React sets its `defaultValue` again; the body, the assignee and the selects,
`Captured`, keep what they were opened with. The version the form sends follows the
cache until the first input or a conflict (`Draft`). `Submit` sends what all controls
hold, typed into or not; `shown` is what the user was last shown of each field and
`opened` the version that goes with the captured ones. A 409 shows the item beside the
draft (`Reviewed`); the conflict stays through a retry that fails.
The handler reads (`ReadCurrent`), waits for the lock, compares the
version (`Flush` or `FlushConflict`), writes the map merged from its early read,
and the commit comes after the answer is written. `Fail` covers every error and
lost answer; `Bump` is a change of the item that leaves its fields alone.
`EarlyConflict` is `transitionItem`, which compares the version once more before.
`CommitFails` belongs to `SpecFailing` only.

**Workflow** is a project, its configuration versions and items. `UpdateWorkflow`
checks the version an administrator edited and `ValidDraft` under the project's
lock. A transition is three steps: the item as the client knows it
(`ReadForTransition`), an arc of the latest configuration from the row's present
status (`ReadArc`), and the commit with its version check (`Transition`).

**Listing** is one client that pages through rows that others change. The cursor
is all the state there is: the last row and its sort value, the largest id and the
time of the first page, and the query it belongs to. The queries `id`, `asc`,
`desc`, `history` stand for the four forms the handlers use. `InOrder` is their
`ORDER BY`, by counting what precedes a row, as in Ranks.

**Lifecycle** has a step for every system call that can be the last: the record
written, synced, the checkpoint renamed, its directory synced, the database
committed. The contents of the files and what a host crash would leave of them
are separate variables. A head is the chain of records that its hash stands for. `Fail`,
`WriteTorn`, `Kill`, `HostCrash` and `Restore` are the faults; `RemoveStaleLock`,
`reconcile` and `replay` are what the operator does about them. `GuardRead`,
`GuardCompare` and `Handle` are a request; `ExportRead` and `ExportInsert` the
creation of an export, which waits for the lifecycle lock at different points for
the two kinds of export.

**Accounts** is sign-in on several processes that share the database. A request
passes the attempt limit, takes the process's slot for password work without
waiting, reads, and changes the account in one transaction on the locked row.
`LoginVerify` is the read before the lock, `CheckSecondFactor` the transaction
after it. `accepted` records every code that was accepted.

**Attempts** is the limit of one process: `Pruned`, `Counted`, `IsLimited` are the
lines both handlers repeat under the mutex.

The modules **...Proofs** hold the theorems of the module they are named after;
ChangeFeedProofs also those of FeedClient, which extends ChangeFeed, and
**OrderProofs** those of Listing and Ranks, which share the lemmas about sorting by
counting. **MC...** modules give constants and symmetry sets. MCAccounts checks Accounts and Attempts, and
MCProject checks Workflow, Listing and Ranks: those machines share no variable, so
the specification lets one of them run while the others stay in an initial state.
Each is explored in full, and no product of unrelated states is built.

Definitions after a comment that begins `Mutant:` are the deliberate faults that
each property must detect; nothing else uses them.

## Runs

| run | instance | distinct states | shows |
|---|---|---|---|
| ChangeFeed | 2 writers, 1 poller, 5 kinds of mutation, 3 numbers, pages of 1, an item that comes and goes or is hard deleted | 91,098 | `GapFree`, `CommitOrdered`, `ChangeSeqAgrees`, `NothingSkipped`, `NoRedelivery`; `EventuallyDelivered`; refines ChangeLog |
| FeedClient | 1 page, 1 writer, 3 numbers, takedowns, hard deletes, expiry, failures | 116,449 | `CaughtUpIsCurrent`, `NeverAheadOfScreen`, `EventuallyCurrent` |
| ItemStore | 4 items of which 2 exist, 2 requests of every kind, depth 3, 3 more changes | 1,550,691 | `PathsAgree`, `RollupExact`, `VersionNamesContent`, `NoLostUpdate`, `UnlinkExact` |
| ItemEdit | 2 people, 2 fields (one captured), 2 forms, 2 edits, 3 versions | 1,312,083 | `HistoryReplays`, `SavedIsCommitted`, `NoSilentOverwrite` |
| Lifecycle | 1 operator, 1 request, 1 item, 1 hold, 2 records, 2 faults | 485,720 | `JournalLoads`, `DatabaseBehindCheckpoint`, `HoldsRespected`, `ServedWithoutRedacted`, `NoRestrictedExport` (account exports), `Recovers` |
| Accounts | 2 accounts, 2 processes, 2 requests, 3 periods, 2 secrets; 3 keys, 2 attempts, capacity 2 | 1,311,214 | `CodesOnce`, `SessionsMatchFactor`, `NoSessionOfSuspended`, `SlotNotLeaked`; `AttemptsBounded`, `QuietKeysAdmitted` |
| Project | 2 requests, 3 configurations, 4 drafts; 3 rows, pages of 1, 1 change, 1 hour; 4 ranked items, 4 digits, 4 changes | 626,131 | `StatusRetained`, `StatusFollowsArc`; `ListedOnce`; `RoomEverywhere`, `OrderAsAsked` |

Five runs find what a document or a comment says not to be so:

* **ChangeFeedObserved**. SPEC.md:471 wants "every committed change was observed
  exactly once". A change of a restricted item is filtered out of the page, the
  cursor moves past it, and lifting the restriction writes no event: the change is
  readable again and below every cursor. `NothingSkipped` states what does hold.
* **ItemEditCaptured**. SPEC.md:501 says of `If-Match`: "Without this, two people
  dragging the same card produces silent last-write-wins." Ann opens the edit form;
  Bob changes the assignee; the feed refetches, and Ann's form takes the new version
  but her assignee control keeps the old person (ItemActions.tsx:86, 241). She types
  a title and saves: the old assignee goes back under the new version, without a 409.
  `NoSilentOverwrite` states what does hold: this is the only way.
* **ItemEditCommit**. client.ts:150 says "These endpoints return the complete
  committed item". The commit follows the answer, and an error of the commit is
  only logged (db.go:89): the client keeps a version that does not exist. In
  `Spec`, where a commit that is tried succeeds, `SavedIsCommitted` is proved.
* **LifecycleReplay**. LIFECYCLE-OPERATIONS.md:80 says that redactions "are
  historical replay decisions, not new authorization decisions during recovery".
  A backup is taken, an item soft deleted, retention takes it, the backup is
  restored: replay checks the retention against the restored row, which is not
  deleted, and raises. The replay rolls back as a whole each time it is tried.
  `Recovers` states that this is the only record that can block a recovery.
* **LifecycleExport**. Migration 0014, line 354: "Revoke earlier artifacts whenever
  access/content changes". A workspace export reads the content, waits in its
  INSERT for a decision that holds the lifecycle lock, and is stored after that
  decision has revoked the exports there were. Account exports delete expired rows
  first and so meet the lock before they read; for them the property holds.

### Bounds

`MaxSeq`, `MaxVersion`, `MaxEdits`, `MaxChanges`, `MaxConfigs`, `MaxRecords`,
`MaxSecrets`, `MaxSessions` and the clocks cap counters that never decrease; each
is large enough for the case the property is about: a block of two numbers over
another transaction, an ABA of links, a conflict and a retry that commits, a
hold and a decision it forbids, a code presented in both periods in which it counts.
`MaxFaults` of 2 lets a fault strike the recovery from another. A page of one row
(200 in the client) makes every row the last of a page. `MaxDepth` 3 (8 in the
code) with four items lets a move fail for depth and two moves try to form a cycle;
the run starts from two linked items so that its changes are spent on the tree.
Ranks has four digits (36 in the code) with `RankFirst` the highest, and a threshold
of 3 (40): four changes then reach a respread by creation and one by a move, and all
of the cases of adjacent and lowest digits. Two writers suffice for every pairwise
race of allocation and commit; the proofs remove this bound.

There is one operator process in Lifecycle: the lock directory admits one at a time,
a second would only be turned away at `Open`, and what a dead one leaves is the
`Stale` lock. `Writeback` states an assumption about the host: data a process wrote
and did not sync before it ended reaches the disk before a later crash of the host.
`reconcile-checkpoint` needs it, because it publishes a checkpoint over a record
it does not sync again; with `Writeback = FALSE` TLC finds `JournalLoads` violated
this way, which is recorded as a hazard and not as a finding: no document claims
more.

Symmetry is used over ids, requests, processes and people in runs without
liveness properties. The deadlock check is off where the system may stop: every id
hard deleted (ItemStore), an interrupted `init` (Lifecycle), a listing at its end
(Project).

### Fairness

`FairSpec` of ChangeFeed has weak fairness on `Poll`: the client polls on a timer
while it is open. Writers have none: a writer may sit on the lock for ever, and
delivery of what is committed does not depend on it. `FairFeed` has weak fairness on
`Bootstrap` and `Resume` (a user who stays signs in again) and strong fairness on
`FetchPage`, `Receive` and `Refetch`: requests fail and sessions expire any number
of times, but not every time. `feed.ts` retries for ever with a bounded delay, so the
code does its part; the rest is the network.

`FairSpec` of Lifecycle states what LIFECYCLE-OPERATIONS.md asks of operators: stale
locks are removed, `reconcile-checkpoint` and `replay` are run again and again
(strongly fair, since other commands take the lock directory in between), a started
command runs on, and an export, one statement, ends. Requests, new decisions and faults
have no fairness; faults are bounded by `MaxFaults`.

## Proofs

Every theorem is about the specification itself, `Spec => []P` or `Spec => [][A]_vars`,
for all values of the constants under the named assumptions of the modules. These
say that marker values are not members of the sets they mark, that limits, windows
and page sizes are positive, that a mutation has at least one event, as `Mutate`
requires, that no arc of the seeded workflow leads back to its own status, as
in `internal/store/seed/config.sql`, and that a project has fewer items than there are
ranks one digit shorter than the threshold (`RoomAssumption`; 36^39 in the code). Each module has an inductive invariant, `IInv` (`FeedInv` for
FeedClient, `ListInv` for Listing, `RankInv` for Ranks): a lemma
for the initial states, one or more for every action, and the theorems as
consequences. Two theorems of Lifecycle have `Writeback` as a hypothesis and one
has `LocksFirst`. The first is a constant that speaks of the host (see Bounds), the
second says that only account exports are made; run Lifecycle satisfies both, and
run LifecycleExport shows what happens without the second.

*ChangeFeedProofs*. `GapFree` alone is not inductive: a commit adds a block and one
must know that the block starts right after the counter. `LockInv` says exactly
the holder of the row lock has allocated and its block is the next one;
`HiddenInv` that what is hidden was ever hidden; `CursorInv` that cursors never pass
the counter. With `TypeOK`,
`ChangeSeqAgrees` and `NothingSkipped` they form `IInv`, preserved action by action.
The lemma `PageIsInitial` (a page is an initial part of what lies after the cursor)
carries `Poll`; `BlockNumbers` and `BlockEvents` carry `Commit`. From `IInv` follow `SequenceGapFree`,
`SequenceCommitOrdered`, `PollerSkipsNothing`, `PollerRepeatsNothing`,
`ChangeSeqIsLastEvent` and `FeedImplementsLog`, the refinement of ChangeLog (a commit
is an append, a poll is a delivery that may leave out what is hidden or gone, the
rest stutters). `PollerSkipsNothing` excepts events of items that were taken down or
are gone, and nothing else: an item that a change only names may be deleted without
any loss.

*ChangeFeedProofs*, second part: the feed client. `NeverAheadOfScreen` says nothing while a refetch is under way,
and an expiry can cut that one short. `ScreenInv` is what survives it: whatever is
old on the screen has changed after the bootstrap, so the restart from the bootstrap
position misses nothing. `PositionInv` keeps every position within the log. A step
of the database gives a changed item a number above the whole log (`LogMoves`), hence
above every position. `FeedNeverAhead` and `CaughtUpPagesCurrent` follow.

*ItemStoreProofs*. `PathsAgree` compares an item with its parent only, and a move of
a subtree replaces the beginning of all paths below it. `Spine` says that every label
of a path is a stored item whose path is the beginning up to there; then the move,
whose new parent is not below the item, keeps all paths (`PathsFollowParents`).
`RollupsGood` says that the stored rollups are what a recompute by path gives: a
flush recomputes the ancestors by the old and the new path, and for every other item
the set counted is shown not to change. `RollupsExact` is about descendants by
`parent_id`, a recursive function (`Ascend`); its values are shown to be the labels
of the path, by a least counterexample. `RequestsInv` says that the version a client
holds is not from the future and, while it is the row's, stands for what was read:
`VersionsNameContent`, `NoUpdateLost`. `UnlinksExact` is immediate: a
flush deletes by the id its request was shown, and every link has an id of its own.

*ItemEditProofs*. The argument is that a version names one content: every document
anywhere (in a form, a cache to return to, the server's early read) is not from
the future and, at the current version, equals the row (`Holds`). Optimistic
caches break equality, so of the cache it is claimed only while no request of its
form is on its way. Of a form, `DraftOK` claims that its version and what it shows in
plain inputs belong together, and that what it shows in captured controls belongs to
the version `opened`: two facts, since the two versions part when a refetch comes
before the first input. A flush compares versions under the lock, hence the early
read is the row, hence merged maps and old values are right, and after the commit the
answer is in the history (`Recorded`). `HistoryIsTrue`, `AcknowledgedIsCommitted` and
`NothingOverwrittenUnseen` follow. The last has the captured controls as an exception,
which run ItemEditCaptured shows to happen.

*WorkflowProofs*. Configurations only gain statuses (`ConfigsInv`), so a status known
to one is known to all later ones. A transition holds an arc of a configuration no
older than the item's stamp for as long as the row has the version it read (`ArcInv`);
a later version refuses it at the commit.

*LifecycleProofs*. Without any hypothesis: the process that holds the lock directory
has the journal it loaded (`OpInv`), every database, backup and open transaction is
one that its own decisions made (`GoodDb`: holds created and not released are active,
what was destroyed is gone), and so a decision planned in it respects the holds of
the whole journal. `HoldsAlwaysRespected` and `GuardHidesRedacted` follow. With
`Writeback`, `FileInv` says that outside the two steps about to sync everything is on
disk, in the order database, surviving checkpoint, checkpoint, journal:
`JournalStaysLoadable`, `DatabaseStaysBehind`. With `LocksFirst`, `ExportInv`:
`LockedExportsClean`.

*AccountsProofs*. A secret is drawn once and belongs to one account (`SecretsInv`). The
account that still has the secret of an accepted code remembers it, a period by
`lastStep` and a recovery code by its removal (`UsedInv`); after the secret is
replaced no code of it counts. Slot and working request name each other (`SlotInv`).

*AttemptsProofs*. A key with a window: its count is what was admitted since the
window's start, one attempt was at the start, and in the length of a window before
the start at least one attempt is missing to the limit (`WindowInv`). A key without
one: the same holds of it now (`QuietInv`). A window that ends makes its key quiet,
because the attempt at its start is then out of reach; an attempt of a quiet key opens
a window. A span of a window's length is cut at the start of the window in it: less
than the limit before, at most the limit after. The sums over time are a recursive
function; the lemmas `SumsExist` to `AdmPositive` say that it exists and that it splits,
compares and grows as sums do. `QuietKeysAreAdmitted` counts: every entry of the
pruned table was admitted within the last window.

*OrderProofs*, sorting. Under a strict total order of a finite set the number of
members ahead of one is different for each and takes every value below the size of
the set (`PlaceOnto`), so the sequence that counts is the sorted one (`SortedByPlace`).

*OrderProofs*, Listing. `ListedOnce` says nothing of a row that has not been
returned. `PositionTells` does: such a row lies beyond the cursor, and one that was
returned does not and was returned once. A page is an initial part of the sorted
candidates, and `Beyond` a position is exactly to be preceded by its row, as that
row was when it was returned; an unchanged row therefore passes from beyond the
cursor to `seen` once (`StableRowsListedOnce`).

*OrderProofs*, Ranks. That all ranks differ as strings is not inductive: between `1`
and `10` no string lies, and `RankBetween` would never end. `RanksGood` says that they
differ as fractions, the digits after the end being zeros (`Differ`, `Under`), and
that none is zero. For such strings the order of fractions is that of strings
(`LessIsUnder`). `RankBetweenIsBetween` finds the first digit that differs and the
room behind it; `RankSequenceSpreads` shows that the multiples of the step, written
with `width` digits, ascend and leave one digit under the threshold, by lemmas on
powers and division that are proved from a least counterexample. What a respread
writes is in the same order (`MapRespreads`), also from a map that was read earlier,
as long as it names every rank; and after it a string one digit longer fits, so the
second attempt of `applyReparent` never ends in `ErrRankOrder` (`RespreadHasRoom`).
`Gap` and `Slot` say where a new rank goes: above everything up to the item to
follow, below everything else. From `RankInv` follow `RanksAlwaysHaveRoom` and, with
one lemma per action, `MovesGoWhereAsked`.

The ItemStore run starts from a project of two linked items, a state that `Spec`
reaches from the empty project by three requests; the theorems are about `Spec`.

Only model-checked: the liveness properties `EventuallyDelivered`, `EventuallyCurrent`
and `Recovers` (TLAPS 1.4.5 does not reason about fairness), and what the five
violation runs refute. Every safety property of the passing runs is a theorem.

## Abstractions

* One workspace and one project; roles appear where a handler's effect depends on
  them, tenant isolation does not.
* ItemStore keeps a `done` flag for the content and the two counts of the rollup.
  Keys and titles are absent; links are of one kind; ranks are in Ranks.
* A client's read of a version and its handler's reads are one step of ItemStore;
  ItemEdit and Workflow are where they are apart.
* Taking down covers one item at a time and is not combined with ItemStore. There
  the hidden rows would also drop out of the rollups, which is a listed hazard.
* In ItemEdit a person has one form at a time and does not close it while its request
  is under way; an answer leaves the server when its handler has returned, which holds
  for documents that fit the server's write buffer. A value is the number of the edit
  that made it; a form sent untouched counts as an edit for the bound `MaxEdits`.
* A respread raises the version of every item of the project without an event or a new
  `change_seq` (0014:642). ItemStore and `Bump` have it as such a step; open forms of
  those items then meet a conflict that no event announced, a listed hazard.
* Hiding of a page (`document.hidden`) and delays are timer matters: `FetchPage`
  happens whenever it likes.
* Lifecycle takes encryption, signatures and hash chains to hold: a file is what was
  written, or a part of it after a fault. `plan` and `verify` only read and are not
  actions. Retention's cutoff lies after every soft delete.
* Accounts takes passwords and hashes to hold and codes of different periods or
  secrets to differ; time is counted in code periods, so lifetimes are in proportion,
  not in size.
* In Workflow a project has one item type and statuses are names; what a draft says
  about categories, display and limits of size is left out.
* In Listing rows have one sort value and one date; the signature of a cursor holds.
  The limit of 8192 bytes on a cursor (cursor.go:37) is left out: ordered by a long
  text the server may refuse the cursor it has just issued, and the listing ends early.
* With one workspace a record never names another one (0014:262-263). The refusal of a
  stale version by a move (move.go:100) is in ItemStore and not repeated in Ranks.

## Not modelled

* The query language (`internal/sxq`): a pure parser and SQL generator over
  unbounded strings, covered by golden tests. The order and paging of its results
  are in Listing.
* Documents, themes, projections, settings, saved views, metrics, problem bodies:
  single-row reads and writes and formatting, without a protocol.
* Removal of members and anonymisation of accounts, corrections of history text,
  takedown of subtrees, download and expiry of exports.
* A restart of a server process, which empties its attempt table: `AttemptsBounded`
  is about one process's lifetime.
* Bootstrap, configuration, seed data, partitions, restore test; release, backup,
  deployment and offline scripts: they drive external programs.
* Lock-level deadlocks between the operator's table locks and writers: PostgreSQL
  resolves them with an error, and every model here lets such a step fail.

## Plan

1. *Done*: all modules and runs above; proofs of every safety and action property and
   of the refinement that the runs check.
2. Next, if the model grows: content restrictions together with ItemStore (rollups
   that leave out what is hidden), and a request that removes a link from either end.
3. What stays with TLC: the liveness properties.
