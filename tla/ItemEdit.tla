------------------------------ MODULE ItemEdit ------------------------------
(***************************************************************************)
(* One item, edited by several people at once: the form of the web client  *)
(* (ActionForm, mutateItem), the handlers updateItem and transitionItem,   *)
(* and the transaction around them (withRequestScope, store.flush).        *)
(*                                                                         *)
(* A handler merges a patch into the item as it read it before it waits    *)
(* for the sequence lock, and writes the whole merged map afterwards.  The *)
(* answer is written before the transaction commits; it leaves the server  *)
(* when the handler returns, after the commit was tried.                   *)
(***************************************************************************)
EXTENDS Naturals

CONSTANTS Clients,     \* people with the item's page open, one form at a time each
          NoClient,    \* the sequence lock is free
          Fields,      \* the editable fields of the item
          Captured,    \* those whose control keeps the value it was opened with
          Layouts,     \* the forms: what each one sends and shows at once
          MaxEdits,    \* bound on the edits
          MaxVersion   \* bound on the item's version

ASSUME ConstantsAssumption == /\ NoClient \notin Clients
                              /\ Captured \subseteq Fields
                              /\ Layouts \subseteq [sends : (SUBSET Fields) \ {{}},
                                                    optimistic : SUBSET Fields]
                              /\ MaxEdits \in Nat
                              /\ MaxVersion \in Nat

VARIABLES
    item,     \* the committed row
    lock,     \* whose transaction holds the workspace's seq_counter row
    history,  \* committed field_changed events
    cached,   \* cached[c]: the item in c's query cache
    form,     \* form[c]: c's form and the request it has sent
    edits     \* number of edits so far; names each new value

vars == <<item, lock, history, cached, form, edits>>

First == [version |-> 1, fields |-> [f \in Fields |-> 0]]

Docs == [version : Nat, fields : [Fields -> Nat]]

(* A form: the version it sends in If-Match; the fields it sends, and      *)
(* those it shows in the cache at once; what its controls hold, and        *)
(* which were typed into; what its user was last shown of the item, and at *)
(* which version that was for the captured controls; whether a 409 is      *)
(* under review; once sent, the values, the cache to go back to and the    *)
(* document the server works on or has answered with.                      *)
Blank == [phase |-> "closed", version |-> 1, opened |-> 1, patch |-> {},
          optimistic |-> {}, typed |-> {}, held |-> First.fields, shown |-> First.fields,
          sent |-> First.fields, conflict |-> FALSE, previous |-> First,
          doc |-> First]

Phases == {"closed", "open", "sent", "read", "flushed", "saved", "refused", "failed"}

Init == /\ item = First
        /\ lock = NoClient
        /\ history = {}
        /\ cached = [c \in Clients |-> First]
        /\ form = [c \in Clients |-> Blank]
        /\ edits = 0

-----------------------------------------------------------------------------
(* The form *)

(* The dialog opens and its form is mounted: every control starts with the *)
(* cached value.                                                           *)
Open(c) == /\ form[c].phase = "closed"
           /\ \E l \in Layouts :
                form' = [form EXCEPT ![c] =
                           [Blank EXCEPT !.phase = "open", !.patch = l.sends,
                                         !.optimistic = l.optimistic,
                                         !.version = cached[c].version,
                                         !.opened = cached[c].version,
                                         !.held = cached[c].fields,
                                         !.shown = cached[c].fields]]
           /\ UNCHANGED <<item, lock, history, cached, edits>>

Close(c) == /\ form[c].phase = "open"
            /\ form' = [form EXCEPT ![c] = Blank]
            /\ UNCHANGED <<item, lock, history, cached, edits>>

(* What the controls show: a plain input that nobody typed into follows    *)
(* the cache, a captured control does not.                                 *)
Display(c) == [f \in Fields |-> IF f \in Captured \cup form[c].typed THEN form[c].held[f]
                                ELSE cached[c].fields[f]]

(* What the user has been shown of the item by now. *)
Seen(c) == [f \in Fields |-> IF f \in Captured THEN form[c].shown[f] ELSE cached[c].fields[f]]

(* Mutant: the version goes on following the cache after the first input. *)
DraftFollows(c) == [form[c] EXCEPT !.version = cached[c].version,
                                   !.shown = IF form[c].typed = {} THEN Seen(c) ELSE @]

(* Until the first input, or a conflict, the form's version is the one in  *)
(* the cache.                                                              *)
Draft(c) == IF form[c].typed # {} \/ form[c].conflict THEN form[c]
            ELSE [form[c] EXCEPT !.version = cached[c].version, !.shown = Seen(c)]

(* An input, also while a conflict is under review. *)
Type(c) == /\ form[c].phase = "open"
           /\ edits < MaxEdits
           /\ edits' = edits + 1
           /\ \E f \in form[c].patch :
                form' = [form EXCEPT ![c] = [Draft(c) EXCEPT !.held[f] = edits + 1,
                                                             !.typed = @ \cup {f}]]
           /\ UNCHANGED <<item, lock, history, cached>>

(* Mutant: the patch is taken for the whole map. *)
PatchOnly(fields, patch, values) == [f \in patch |-> values[f]]

(* A patch over a map of fields. *)
Patched(fields, patch, values) ==
    [f \in Fields |-> IF f \in patch THEN values[f] ELSE fields[f]]

(* mutateItem: remember the cache, show the form's optimistic values, send. *)
Send(c, q) == /\ form' = [form EXCEPT ![c] = [q EXCEPT !.phase = "sent",
                                                       !.previous = cached[c]]]
              /\ cached' = [cached EXCEPT ![c].fields = Patched(@, q.optimistic, q.sent)]
              /\ UNCHANGED <<item, lock, history>>

(* The form sends what all its controls show, typed into or not.  One that *)
(* is sent untouched counts as an edit.                                    *)
Submit(c) == /\ form[c].phase = "open"
             /\ ~ form[c].conflict
             /\ \/ form[c].typed # {} /\ UNCHANGED edits
                \/ form[c].typed = {} /\ edits < MaxEdits /\ edits' = edits + 1
             /\ Send(c, [Draft(c) EXCEPT !.sent = Display(c)])

(* Any query of the workspace is fetched again: the feed saw a change, or  *)
(* a mutation ended and invalidated it.                                    *)
Refetch(c) == /\ cached' = [cached EXCEPT ![c] = item]
              /\ UNCHANGED <<item, lock, history, form, edits>>

-----------------------------------------------------------------------------
(* The server *)

Answer(c, phase, doc) == form' = [form EXCEPT ![c].phase = phase, ![c].doc = doc]

(* updateItem reads the item to merge into.  Its version is not compared   *)
(* with If-Match here.                                                     *)
ReadCurrent(c) == /\ form[c].phase = "sent"
                  /\ Answer(c, "read", item)
                  /\ UNCHANGED <<item, lock, history, cached, edits>>

(* transitionItem compares it at once. *)
EarlyConflict(c) == /\ form[c].phase = "sent"
                    /\ item.version # form[c].version
                    /\ Answer(c, "refused", item)
                    /\ UNCHANGED <<item, lock, history, cached, edits>>

(* Mutant: the version is not compared under the lock. *)
ExpectedUnchecked(c) == TRUE

(* SELECT version ... FOR UPDATE, after AllocateSeq. *)
ExpectedVersion(c) == item.version = form[c].version

(* UpdateItemFields: the patch over the map that was read before the lock. *)
Merged(c) == [version |-> item.version + 1,
              fields |-> Patched(form[c].doc.fields, form[c].patch, form[c].sent)]

(* One event for each field that was sent, changed or not.  The old values *)
(* are the ones that were read before the lock.                            *)
Events(c) == {[version |-> item.version + 1, field |-> f, old |-> form[c].doc.fields[f],
               new |-> form[c].sent[f]] : f \in form[c].patch}

(* The lock is free: the update runs and the answer is written.  doc stays *)
(* what was read until the transaction ends.                               *)
Flush(c) == /\ form[c].phase = "read"
            /\ lock = NoClient
            /\ item.version < MaxVersion
            /\ ExpectedVersion(c)
            /\ lock' = c
            /\ form' = [form EXCEPT ![c].phase = "flushed"]
            /\ UNCHANGED <<item, history, cached, edits>>

(* ErrVersionConflict: 409 with the item as it is now. *)
FlushConflict(c) == /\ form[c].phase = "read"
                    /\ lock = NoClient
                    /\ ~ ExpectedVersion(c)
                    /\ Answer(c, "refused", item)
                    /\ UNCHANGED <<item, lock, history, cached, edits>>

(* withRequestScope commits once the handler has returned. *)
Commit(c) == /\ form[c].phase = "flushed"
             /\ item' = Merged(c)
             /\ history' = history \cup Events(c)
             /\ lock' = NoClient
             /\ Answer(c, "saved", Merged(c))
             /\ UNCHANGED <<cached, edits>>

(* The commit fails: it is logged, and the client still gets the answer. *)
CommitFails(c) == /\ form[c].phase = "flushed"
                  /\ lock' = NoClient
                  /\ Answer(c, "saved", Merged(c))
                  /\ UNCHANGED <<item, history, cached, edits>>

(* Invalid input, a database error or a dropped connection before the      *)
(* commit; or an answer that is lost on the way, whatever it said.         *)
Fail(c) == /\ form[c].phase \in {"sent", "read", "flushed", "saved", "refused"}
           /\ lock' = IF lock = c THEN NoClient ELSE lock
           /\ form' = [form EXCEPT ![c].phase = "failed", ![c].doc = First]
           /\ UNCHANGED <<item, history, cached, edits>>

(* A comment, a link or a rank respread of the item: a new version of the  *)
(* same fields.                                                            *)
Bump == /\ lock = NoClient
        /\ item.version < MaxVersion
        /\ item' = [item EXCEPT !.version = @ + 1]
        /\ UNCHANGED <<lock, history, cached, form, edits>>

-----------------------------------------------------------------------------
(* The answer arrives *)

(* Mutant: the answer leaves the server before the commit. *)
ReceiveSavedEarly(c) ==
    LET q == form[c] IN
    /\ q.phase \in {"flushed", "saved"}
    /\ form' = [form EXCEPT ![c] = Blank]
    /\ UNCHANGED <<item, lock, history, cached, edits>>

(* Success: the document replaces an older one in the cache, the dialog    *)
(* closes and the user is told that the changes are saved.                 *)
ReceiveSaved(c) ==
    LET q == form[c] IN
    /\ q.phase = "saved"
    /\ cached' = IF q.doc.version > q.version /\ cached[c].version <= q.doc.version
                 THEN [cached EXCEPT ![c] = q.doc] ELSE cached
    /\ form' = [form EXCEPT ![c] = Blank]
    /\ UNCHANGED <<item, lock, history, edits>>

(* The request is over: what was kept for it is dropped, but a conflict    *)
(* keeps what was sent.                                                    *)
Settled(q) == [q EXCEPT !.phase = "open", !.previous = First, !.doc = First,
                        !.sent = IF q.conflict THEN @ ELSE First.fields]

(* The draft now stands against the document the user is shown beside it. *)
Reviewed(q) == Settled([q EXCEPT !.conflict = TRUE, !.version = q.doc.version,
                                 !.opened = q.doc.version, !.shown = q.doc.fields])

(* 409: the cache goes back, then takes the current item from the answer,  *)
(* and the form shows it beside what was submitted.                        *)
ReceiveConflict(c) ==
    /\ form[c].phase = "refused"
    /\ cached' = [cached EXCEPT ![c] = form[c].doc]
    /\ form' = [form EXCEPT ![c] = Reviewed(@)]
    /\ UNCHANGED <<item, lock, history, edits>>

(* Any other error: the cache goes back and the draft stays, with the      *)
(* conflict it was a retry of.                                             *)
ReceiveError(c) ==
    /\ form[c].phase = "failed"
    /\ cached' = [cached EXCEPT ![c] = form[c].previous]
    /\ form' = [form EXCEPT ![c] = Settled(@)]
    /\ UNCHANGED <<item, lock, history, edits>>

(* What was submitted is sent again. *)
Retry(c) == form[c].phase = "open" /\ form[c].conflict /\ Send(c, form[c]) /\ UNCHANGED edits

CancelRetry(c) == /\ form[c].phase = "open"
                  /\ form[c].conflict
                  /\ form' = [form EXCEPT ![c] = Settled([@ EXCEPT !.conflict = FALSE])]
                  /\ UNCHANGED <<item, lock, history, cached, edits>>

-----------------------------------------------------------------------------
Browser(c) == \/ Open(c) \/ Close(c) \/ Type(c) \/ Submit(c) \/ Refetch(c)
              \/ ReceiveSaved(c) \/ ReceiveConflict(c) \/ ReceiveError(c)
              \/ Retry(c) \/ CancelRetry(c)

Server(c) == \/ ReadCurrent(c) \/ EarlyConflict(c) \/ Flush(c) \/ FlushConflict(c)
             \/ Commit(c) \/ Fail(c)

Next == (\E c \in Clients : Browser(c) \/ Server(c)) \/ Bump

Spec == Init /\ [][Next]_vars

(* The same system where a commit may fail once the answer is written. *)
NextFailing == Next \/ \E c \in Clients : CommitFails(c)

SpecFailing == Init /\ [][NextFailing]_vars

-----------------------------------------------------------------------------
(* Properties *)

HistoryRows == [version : Nat, field : Fields, old : Nat, new : Nat]

Forms == [phase : Phases, version : Nat, opened : Nat, patch : SUBSET Fields,
          optimistic : SUBSET Fields, typed : SUBSET Fields, held : [Fields -> Nat],
          shown : [Fields -> Nat], sent : [Fields -> Nat], conflict : BOOLEAN,
          previous : Docs, doc : Docs]

(* Every document on the server, in a cache or in an answer is complete:   *)
(* it has all the fields of the item, whatever patches it went through.    *)
TypeOK == /\ item \in Docs
          /\ lock \in Clients \cup {NoClient}
          /\ history \subseteq HistoryRows
          /\ cached \in [Clients -> Docs]
          /\ form \in [Clients -> Forms]
          /\ edits \in Nat

(* The other events of d's field. *)
Later(d) == {e \in history : e.field = d.field /\ e.version > d.version}
Earlier(d) == {e \in history : e.field = d.field /\ e.version < d.version}

(* SPEC 4.7, ADR-001: the events of a field, in order, are what happened   *)
(* to it.  Each one's old value is the value it replaced, and the last     *)
(* one's new value is in the row, although old values and the unpatched    *)
(* fields come from a read made before the lock (updateItem, itemPatch).   *)
HistoryReplays ==
    /\ \A f \in Fields : (\A e \in history : e.field # f) => item.fields[f] = 0
    /\ \A d \in history : /\ Earlier(d) = {} => d.old = 0
                          /\ Later(d) = {} => item.fields[d.field] = d.new
    /\ \A d, e \in history : e \in Later(d) /\ Later(d) \cap Earlier(e) = {} => e.old = d.new

(* SPEC 5.4: two people must not get "silent last-write-wins".  A commit   *)
(* replaces the values its user was shown, on the form or in the 409 they  *)
(* reviewed; except in a captured control, when the cache went on to       *)
(* another version between the opening of the form and its first input.    *)
NoSilentOverwrite ==
    [][\A c \in Clients : form[c].phase = "flushed" /\ item' # item =>
          \A f \in form[c].patch : \/ item.fields[f] = form[c].shown[f]
                                   \/ f \in Captured /\ form[c].opened # form[c].version]_vars

(* Without the exception: no commit changes a value that its user was not  *)
(* shown.  The body, the assignee and the selects of ActionForm break it.  *)
ReplacesOnlyShown ==
    [][\A c \in Clients : form[c].phase = "flushed" /\ item' # item =>
          \A f \in form[c].patch : \/ item'.fields[f] = item.fields[f]
                                   \/ item.fields[f] = form[c].shown[f]]_vars

(* A form that was sent closes: its user is told "Changes saved.". *)
ToldSaved(c) == form[c].phase \notin {"closed", "open"} /\ form'[c].phase = "closed"

(* client.ts:150 "These endpoints return the complete committed item": of  *)
(* an edit whose user is told that it is saved, every value that was sent  *)
(* is in the history, at the version of the answer.                        *)
SavedIsCommitted ==
    [][\A c \in Clients : ToldSaved(c) =>
          \A f \in form[c].patch : \E e \in history : /\ e.version = form[c].doc.version
                                                      /\ e.field = f
                                                      /\ e.new = form[c].sent[f]]_vars
=============================================================================
