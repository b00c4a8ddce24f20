--------------------------- MODULE ItemEditProofs ---------------------------
(***************************************************************************)
(* Proofs about ItemEdit, for every number of people and fields.           *)
(***************************************************************************)
EXTENDS ItemEdit, TLAPS

USE ConstantsAssumption

(* A document somebody holds: it is not from the future, and if it has the *)
(* version of the committed row it has its fields.  Commits only ever add  *)
(* one to the version, so this cannot be broken by a later write.          *)
Holds(d) == /\ d.version <= item.version
            /\ d.version = item.version => d.fields = item.fields

(* What is known of a draft.  Its version and what was shown of the plain  *)
(* inputs belong together; what was shown of the captured controls belongs *)
(* to the version they were filled from, or to the 409 that was reviewed.  *)
DraftOK(q) == /\ q.patch # {}
              /\ q.version <= item.version
              /\ q.version = item.version =>
                    \A f \in Fields \ Captured : q.shown[f] = item.fields[f]
              /\ q.opened <= item.version
              /\ q.opened = item.version => \A f \in Captured : q.shown[f] = item.fields[f]

DraftInv(c) == form[c].phase # "closed" => DraftOK(form[c])

(* Every value that was sent is in the history. *)
Recorded(q) == \A f \in q.patch : \E e \in history : /\ e.version = q.doc.version
                                                     /\ e.field = f
                                                     /\ e.new = q.sent[f]

(* What is known of each document of a form in each phase. *)
PreviousInv(c) == form[c].phase \in {"sent", "read", "flushed", "saved", "refused", "failed"}
                     => Holds(form[c].previous)

DocInv(c) == /\ form[c].phase \in {"read", "flushed", "saved", "refused"} => Holds(form[c].doc)
             /\ form[c].phase = "read" => form[c].version <= form[c].doc.version
             /\ form[c].phase = "saved" => /\ form[c].version < form[c].doc.version
                                           /\ Recorded(form[c])

(* The lock protects what was checked under it until the commit. *)
LockInv(c) == form[c].phase = "flushed" => /\ lock = c
                                           /\ form[c].version = item.version
                                           /\ form[c].doc = item

(* Only a form that has been sent may show a value that is not committed,  *)
(* and then under a version its answer will replace.                       *)
CacheInv(c) == /\ cached[c].version <= item.version
               /\ form[c].phase \in {"closed", "open"} => Holds(cached[c])
               /\ form[c].phase = "saved" => \/ Holds(cached[c])
                                             \/ cached[c].version <= form[c].doc.version

ClientInv(c) == DraftInv(c) /\ PreviousInv(c) /\ DocInv(c) /\ LockInv(c) /\ CacheInv(c)

HistoryInv == \A e \in history : e.version <= item.version

IInv == /\ TypeOK
        /\ \A c \in Clients : ClientInv(c)
        /\ HistoryInv
        /\ HistoryReplays

Quiet == UNCHANGED <<item, history>>
-----------------------------------------------------------------------------
(* A step of c that writes neither the row nor the history and leaves the  *)
(* lock of the others alone disturbs nobody else.                          *)
LEMMA OthersUndisturbed ==
  ASSUME IInv, NEW c \in Clients, NEW d \in Clients, d # c, Quiet,
         form'[d] = form[d], cached'[d] = cached[d], lock' = lock \/ lock # d
  PROVE  ClientInv(d)'
BY DEF IInv, ClientInv, DraftInv, DraftOK, PreviousInv, DocInv, Recorded, LockInv, CacheInv,
       Holds, Quiet

(* ... nor the history. *)
LEMMA HistoryUndisturbed ==
  ASSUME IInv, Quiet
  PROVE  HistoryInv' /\ HistoryReplays'
BY DEF IInv, Quiet, HistoryInv, HistoryReplays, Later, Earlier

(* What patching a map of fields gives. *)
LEMMA PatchedType ==
  ASSUME NEW fields \in [Fields -> Nat], NEW patch \in SUBSET Fields, NEW values \in [Fields -> Nat]
  PROVE  Patched(fields, patch, values) \in [Fields -> Nat]
BY DEF Patched

LEMMA BlankType == First \in Docs /\ Blank \in Forms
BY DEF First, Docs, Blank, Forms, Phases

LEMMA InitInv == Init => IInv
<1> SUFFICES ASSUME Init PROVE IInv
  OBVIOUS
<1>1. TypeOK
  BY BlankType DEF Init, TypeOK
<1>2. ASSUME NEW c \in Clients PROVE ClientInv(c)
  <2>1. item.version \in Nat
    BY BlankType DEF Init, Docs
  <2>2. form[c].phase = "closed" /\ cached[c] = item
    BY DEF Init, Blank
  <2> QED BY <2>1, <2>2 DEF ClientInv, DraftInv, PreviousInv, DocInv, LockInv, CacheInv, Holds
<1>3. HistoryInv /\ HistoryReplays
  BY DEF Init, HistoryInv, HistoryReplays, Later, Earlier, First
<1> QED BY <1>1, <1>2, <1>3 DEF IInv

(* A step that only gives c another form, open or closed, and perhaps      *)
(* another document that somebody holds in its cache.                      *)
LEMMA FormPreserves ==
  ASSUME IInv, NEW c \in Clients, NEW q \in Forms, NEW d \in Docs,
         form' = [form EXCEPT ![c] = q], cached' = [cached EXCEPT ![c] = d],
         UNCHANGED <<item, lock, history>>, edits' \in Nat,
         q.phase \in {"closed", "open"}, q.phase = "open" => DraftOK(q), Holds(d)
  PROVE  IInv'
<1>1. form \in [Clients -> Forms] /\ cached \in [Clients -> Docs]
  BY DEF IInv, TypeOK
<1>2. TypeOK'
  BY <1>1 DEF IInv, TypeOK
<1>3. form'[c] = q /\ cached'[c] = d
  BY <1>1
<1>4. ClientInv(c)'
  BY <1>3 DEF ClientInv, DraftInv, DraftOK, PreviousInv, DocInv, LockInv, CacheInv, Holds
<1>5. \A x \in Clients : ClientInv(x)'
  BY <1>1, <1>4, OthersUndisturbed DEF Quiet
<1>6. HistoryInv' /\ HistoryReplays'
  BY HistoryUndisturbed DEF Quiet
<1> QED BY <1>2, <1>5, <1>6 DEF IInv

LEMMA OpenPreserves ==
  ASSUME IInv, NEW c \in Clients, Open(c)
  PROVE  IInv'
<1>1. PICK l \in Layouts :
        form' = [form EXCEPT ![c] =
                   [Blank EXCEPT !.phase = "open", !.patch = l.sends,
                                 !.optimistic = l.optimistic,
                                 !.version = cached[c].version,
                                 !.opened = cached[c].version,
                                 !.held = cached[c].fields,
                                 !.shown = cached[c].fields]]
  BY DEF Open
<1>2. form[c].phase = "closed" /\ UNCHANGED <<item, lock, history, cached, edits>>
  BY DEF Open
<1>3. cached[c] \in Docs /\ cached = [cached EXCEPT ![c] = cached[c]] /\ edits' \in Nat
  BY <1>2 DEF IInv, TypeOK
<1>4. Holds(cached[c])
  BY <1>2 DEF IInv, ClientInv, CacheInv
<1>5. /\ l.sends \subseteq Fields
      /\ l.sends # {}
      /\ l.optimistic \subseteq Fields
  OBVIOUS
<1>6. PICK q : q = [Blank EXCEPT !.phase = "open", !.patch = l.sends,
                                 !.optimistic = l.optimistic,
                                 !.version = cached[c].version,
                                 !.opened = cached[c].version,
                                 !.held = cached[c].fields,
                                 !.shown = cached[c].fields]
  OBVIOUS
<1>7. q \in Forms
  BY <1>3, <1>5, <1>6, BlankType DEF Docs, Forms, Phases
<1>8. /\ q.phase = "open"
      /\ q.patch = l.sends
      /\ q.version = cached[c].version
      /\ q.opened = cached[c].version
      /\ q.shown = cached[c].fields
  BY <1>6 DEF Blank
<1>9. DraftOK(q)
  BY <1>4, <1>5, <1>8 DEF DraftOK, Holds
<1>10. form' = [form EXCEPT ![c] = q] /\ cached' = [cached EXCEPT ![c] = cached[c]]
  BY <1>1, <1>2, <1>3, <1>6
<1> QED BY <1>2, <1>3, <1>4, <1>7, <1>8, <1>9, <1>10, FormPreserves

LEMMA ClosePreserves ==
  ASSUME IInv, NEW c \in Clients, Close(c)
  PROVE  IInv'
<1>1. /\ form[c].phase = "open"
      /\ form' = [form EXCEPT ![c] = Blank]
      /\ UNCHANGED <<item, lock, history, cached, edits>>
  BY DEF Close
<1>2. cached[c] \in Docs /\ cached = [cached EXCEPT ![c] = cached[c]] /\ edits' \in Nat
  BY <1>1 DEF IInv, TypeOK
<1>3. Holds(cached[c])
  BY <1>1 DEF IInv, ClientInv, CacheInv
<1>4. Blank.phase = "closed"
  BY DEF Blank
<1>5. cached' = [cached EXCEPT ![c] = cached[c]]
  BY <1>1, <1>2
<1> QED BY <1>1, <1>2, <1>3, <1>4, <1>5, BlankType, FormPreserves

(* An open form with the version it would send now. *)
LEMMA DraftIsOK ==
  ASSUME IInv, NEW c \in Clients, form[c].phase = "open"
  PROVE  /\ Draft(c) \in Forms
         /\ Draft(c).phase = "open"
         /\ DraftOK(Draft(c))
<1>1. form[c] \in Forms /\ cached[c] \in Docs
  BY DEF IInv, TypeOK
<1>2. DraftOK(form[c]) /\ Holds(cached[c])
  BY DEF IInv, ClientInv, DraftInv, CacheInv
<1>3. CASE form[c].typed # {} \/ form[c].conflict
  <2>1. Draft(c) = form[c]
    BY <1>3 DEF Draft
  <2> QED BY <1>1, <1>2, <2>1
<1>4. CASE ~ (form[c].typed # {} \/ form[c].conflict)
  <2>1. Draft(c) = [form[c] EXCEPT !.version = cached[c].version, !.shown = Seen(c)]
    BY <1>4 DEF Draft
  <2>2. form[c].shown \in [Fields -> Nat] /\ cached[c].fields \in [Fields -> Nat]
    BY <1>1 DEF Forms, Docs
  <2>3. /\ Seen(c) \in [Fields -> Nat]
        /\ \A f \in Fields \ Captured : Seen(c)[f] = cached[c].fields[f]
        /\ \A f \in Captured : Seen(c)[f] = form[c].shown[f]
    BY <2>2 DEF Seen
  <2>4. Draft(c) \in Forms
    BY <1>1, <2>1, <2>3 DEF Forms, Docs
  <2>5. /\ Draft(c).phase = "open"
        /\ Draft(c).patch = form[c].patch
        /\ Draft(c).version = cached[c].version
        /\ Draft(c).opened = form[c].opened
        /\ Draft(c).shown = Seen(c)
    BY <1>1, <2>1 DEF Forms
  <2>6. DraftOK(Draft(c))
    BY <1>2, <2>3, <2>5 DEF DraftOK, Holds
  <2> QED BY <2>4, <2>5, <2>6
<1> QED BY <1>3, <1>4

LEMMA TypePreserves ==
  ASSUME IInv, NEW c \in Clients, Type(c)
  PROVE  IInv'
<1>1. PICK f \in form[c].patch :
        form' = [form EXCEPT ![c] = [Draft(c) EXCEPT !.held[f] = edits + 1,
                                                     !.typed = Draft(c).typed \cup {f}]]
  BY DEF Type
<1>2. /\ form[c].phase = "open"
      /\ UNCHANGED <<item, lock, history, cached>>
      /\ edits' = edits + 1
  BY DEF Type
<1>3. /\ cached[c] \in Docs /\ cached = [cached EXCEPT ![c] = cached[c]]
      /\ form[c] \in Forms /\ edits + 1 \in Nat
  BY DEF IInv, TypeOK
<1>4. PICK r : r = Draft(c)
  OBVIOUS
<1>5. r \in Forms /\ r.phase = "open" /\ DraftOK(r)
  BY <1>2, <1>4, DraftIsOK
<1>6. f \in Fields
  BY <1>1, <1>3 DEF Forms
<1>7. PICK q : q = [r EXCEPT !.held = [r.held EXCEPT ![f] = edits + 1],
                             !.typed = r.typed \cup {f}]
  OBVIOUS
<1>8. [r.held EXCEPT ![f] = edits + 1] \in [Fields -> Nat] /\ r.typed \cup {f} \in SUBSET Fields
  BY <1>3, <1>5, <1>6 DEF Forms
<1>9. q \in Forms
  BY <1>5, <1>7, <1>8 DEF Forms
<1>10. /\ q.phase = "open" /\ q.patch = r.patch /\ q.version = r.version
       /\ q.opened = r.opened /\ q.shown = r.shown
  BY <1>5, <1>7 DEF Forms
<1>11. DraftOK(q)
  BY <1>5, <1>10 DEF DraftOK
<1>12. form' = [form EXCEPT ![c] = q] /\ cached' = [cached EXCEPT ![c] = cached[c]]
  BY <1>1, <1>2, <1>3, <1>4, <1>7
<1>13. Holds(cached[c])
  BY <1>2 DEF IInv, ClientInv, CacheInv
<1> QED BY <1>2, <1>3, <1>9, <1>10, <1>11, <1>12, <1>13, FormPreserves

(* Send, from a draft. *)
LEMMA SendPreserves ==
  ASSUME IInv, NEW c \in Clients, NEW q \in Forms, Send(c, q), edits' \in Nat,
         form[c].phase = "open", DraftOK(q)
  PROVE  IInv'
<1>1. /\ form' = [form EXCEPT ![c] = [q EXCEPT !.phase = "sent", !.previous = cached[c]]]
      /\ UNCHANGED <<item, lock, history>>
      /\ cached' = [cached EXCEPT ![c].fields = Patched(cached[c].fields, q.optimistic, q.sent)]
  BY DEF Send
<1>2. cached \in [Clients -> Docs] /\ form \in [Clients -> Forms] /\ cached[c] \in Docs
  BY DEF IInv, TypeOK
<1>3. Patched(cached[c].fields, q.optimistic, q.sent) \in [Fields -> Nat]
  BY <1>2, PatchedType DEF Docs, Forms
<1>4. cached' \in [Clients -> Docs] /\ cached'[c].version = cached[c].version
  <2> DEFINE shown == [cached[c] EXCEPT !.fields = Patched(cached[c].fields, q.optimistic, q.sent)]
  <2>1. shown \in Docs /\ shown.version = cached[c].version
    BY <1>2, <1>3 DEF Docs
  <2>2. cached' = [cached EXCEPT ![c] = shown]
    BY <1>1
  <2> HIDE DEF shown
  <2> QED BY <1>2, <2>1, <2>2
<1>5. TypeOK'
  BY <1>1, <1>2, <1>4 DEF IInv, TypeOK, Docs, Forms, Phases
<1>6. ClientInv(c)'
  <2>1. Holds(cached[c])
    BY DEF IInv, ClientInv, CacheInv
  <2>2. form'[c] = [q EXCEPT !.phase = "sent", !.previous = cached[c]]
    BY <1>1, <1>2
  <2>3. /\ form'[c].phase = "sent"
        /\ form'[c].previous = cached[c]
        /\ form'[c].patch = q.patch
        /\ form'[c].version = q.version
        /\ form'[c].opened = q.opened
        /\ form'[c].shown = q.shown
    BY <2>2 DEF Forms
  <2> QED BY <1>1, <1>4, <2>1, <2>3
             DEF ClientInv, DraftInv, DraftOK, PreviousInv, DocInv, LockInv, CacheInv, Holds
<1>7. \A d \in Clients : ClientInv(d)'
  BY <1>1, <1>2, <1>6, OthersUndisturbed DEF Quiet
<1>8. HistoryInv' /\ HistoryReplays'
  BY <1>1, HistoryUndisturbed DEF Quiet
<1> QED BY <1>5, <1>7, <1>8 DEF IInv

LEMMA SubmitPreserves ==
  ASSUME IInv, NEW c \in Clients, Submit(c)
  PROVE  IInv'
<1>1. /\ form[c].phase = "open"
      /\ Send(c, [Draft(c) EXCEPT !.sent = Display(c)])
  BY DEF Submit
<1>2. edits' \in Nat
  BY DEF Submit, IInv, TypeOK
<1>3. form[c] \in Forms /\ cached[c] \in Docs
  BY DEF IInv, TypeOK
<1>4. Display(c) \in [Fields -> Nat]
  BY <1>3 DEF Display, Forms, Docs
<1>5. PICK r : r = Draft(c)
  OBVIOUS
<1>6. r \in Forms /\ DraftOK(r)
  BY <1>1, <1>5, DraftIsOK
<1>7. PICK q : q = [r EXCEPT !.sent = Display(c)]
  OBVIOUS
<1>8. q \in Forms
  BY <1>4, <1>6, <1>7 DEF Forms
<1>9. q.patch = r.patch /\ q.version = r.version /\ q.opened = r.opened /\ q.shown = r.shown
  BY <1>6, <1>7 DEF Forms
<1>10. DraftOK(q)
  BY <1>6, <1>9 DEF DraftOK
<1>11. Send(c, q)
  BY <1>1, <1>5, <1>7
<1> QED BY <1>1, <1>2, <1>8, <1>10, <1>11, SendPreserves

LEMMA RetryPreserves ==
  ASSUME IInv, NEW c \in Clients, Retry(c)
  PROVE  IInv'
<1>1. form[c].phase = "open" /\ Send(c, form[c]) /\ UNCHANGED edits
  BY DEF Retry
<1>2. form[c] \in Forms /\ edits' \in Nat
  BY <1>1 DEF IInv, TypeOK
<1>3. DraftOK(form[c])
  BY <1>1 DEF IInv, ClientInv, DraftInv
<1> QED BY <1>1, <1>2, <1>3, SendPreserves

(* The end of a request leaves the draft as it was. *)
LEMMA SettledDraft ==
  ASSUME NEW q \in Forms
  PROVE  /\ Settled(q) \in Forms
         /\ Settled(q).phase = "open"
         /\ DraftOK(q) => DraftOK(Settled(q))
<1>1. First \in Docs /\ First.fields \in [Fields -> Nat]
  BY BlankType DEF Docs
<1>2. PICK values : values = IF q.conflict THEN q.sent ELSE First.fields
  OBVIOUS
<1>3. values \in [Fields -> Nat]
  BY <1>1, <1>2 DEF Forms
<1>4. Settled(q) = [q EXCEPT !.phase = "open", !.previous = First, !.doc = First, !.sent = values]
  BY <1>2 DEF Settled
<1>5. Settled(q) \in Forms
  BY <1>1, <1>3, <1>4 DEF Forms, Phases
<1>6. /\ Settled(q).phase = "open"
      /\ Settled(q).patch = q.patch
      /\ Settled(q).version = q.version
      /\ Settled(q).opened = q.opened
      /\ Settled(q).shown = q.shown
  BY <1>4 DEF Forms
<1> QED BY <1>5, <1>6 DEF DraftOK

LEMMA CancelRetryPreserves ==
  ASSUME IInv, NEW c \in Clients, CancelRetry(c)
  PROVE  IInv'
<1>1. /\ form[c].phase = "open"
      /\ form' = [form EXCEPT ![c] = Settled([form[c] EXCEPT !.conflict = FALSE])]
      /\ UNCHANGED <<item, lock, history, cached, edits>>
  BY DEF CancelRetry
<1>2. /\ cached[c] \in Docs /\ cached' = [cached EXCEPT ![c] = cached[c]] /\ edits' \in Nat
      /\ form[c] \in Forms
  BY <1>1 DEF IInv, TypeOK
<1>3. Holds(cached[c]) /\ DraftOK(form[c])
  BY <1>1 DEF IInv, ClientInv, CacheInv, DraftInv
<1>4. PICK r : r = [form[c] EXCEPT !.conflict = FALSE]
  OBVIOUS
<1>5. r \in Forms
  BY <1>2, <1>4 DEF Forms
<1>6. /\ r.patch = form[c].patch /\ r.version = form[c].version
      /\ r.opened = form[c].opened /\ r.shown = form[c].shown
  BY <1>2, <1>4 DEF Forms
<1>7. DraftOK(r)
  BY <1>3, <1>6 DEF DraftOK
<1>8. PICK q : q = Settled(r)
  OBVIOUS
<1>9. q \in Forms /\ q.phase = "open" /\ DraftOK(q)
  BY <1>5, <1>7, <1>8, SettledDraft
<1>10. form' = [form EXCEPT ![c] = q]
  BY <1>1, <1>4, <1>8
<1> QED BY <1>1, <1>2, <1>3, <1>9, <1>10, FormPreserves

LEMMA RefetchPreserves ==
  ASSUME IInv, NEW c \in Clients, Refetch(c)
  PROVE  IInv'
<1>1. /\ cached' = [cached EXCEPT ![c] = item]
      /\ UNCHANGED <<item, lock, history, form, edits>>
  BY DEF Refetch
<1>2. cached \in [Clients -> Docs] /\ item \in Docs
  BY DEF IInv, TypeOK
<1>3. TypeOK'
  BY <1>1, <1>2 DEF IInv, TypeOK
<1>4. cached'[c] = item /\ item.version \in Nat
  BY <1>1, <1>2 DEF Docs
<1>5. ClientInv(c)'
  BY <1>1, <1>4 DEF IInv, ClientInv, DraftInv, DraftOK, PreviousInv, DocInv, Recorded, LockInv,
                   CacheInv, Holds
<1>6. \A d \in Clients : ClientInv(d)'
  BY <1>1, <1>2, <1>5, OthersUndisturbed DEF Quiet
<1>7. HistoryInv' /\ HistoryReplays'
  BY <1>1, HistoryUndisturbed DEF Quiet
<1> QED BY <1>3, <1>6, <1>7 DEF IInv

LEMMA AnswerType ==
  ASSUME NEW q \in Forms, NEW p \in Phases, NEW doc \in Docs
  PROVE  [q EXCEPT !.phase = p, !.doc = doc] \in Forms
BY DEF Forms

(* A step that only moves c's form to another phase, with another document *)
(* of the server, and perhaps the lock from or to c.                       *)
LEMMA PhasePreserves ==
  ASSUME IInv, NEW c \in Clients, NEW p \in Phases, NEW doc \in Docs,
         form' = [form EXCEPT ![c].phase = p, ![c].doc = doc],
         UNCHANGED <<item, history, cached, edits>>,
         lock' \in Clients \cup {NoClient},
         lock' = lock \/ lock \in {c, NoClient},
         ClientInv(c)'
  PROVE  IInv'
<1>1. form \in [Clients -> Forms]
  BY DEF IInv, TypeOK
<1>2. form'[c] \in Forms
  BY <1>1, AnswerType
<1>3. TypeOK'
  BY <1>1, <1>2 DEF IInv, TypeOK
<1>4. \A d \in Clients : ClientInv(d)'
  BY <1>1, OthersUndisturbed DEF Quiet
<1>5. HistoryInv' /\ HistoryReplays'
  BY HistoryUndisturbed DEF Quiet
<1> QED BY <1>3, <1>4, <1>5 DEF IInv

(* Reading the item, and a 409 that carries it. *)
LEMMA ReadPreserves ==
  ASSUME IInv, NEW c \in Clients,
         ReadCurrent(c) \/ EarlyConflict(c) \/ FlushConflict(c)
  PROVE  IInv'
<1>1. PICK p \in {"read", "refused"} :
        form' = [form EXCEPT ![c].phase = p, ![c].doc = item]
  BY DEF ReadCurrent, EarlyConflict, FlushConflict, Answer
<1>2. /\ form[c].phase \in {"sent", "read"}
      /\ UNCHANGED <<item, lock, history, cached, edits>>
  BY DEF ReadCurrent, EarlyConflict, FlushConflict
<1>3. form[c] \in Forms /\ form \in [Clients -> Forms] /\ item \in Docs
  BY DEF IInv, TypeOK
<1>4. /\ form'[c].phase = p
      /\ form'[c].doc = item
      /\ form'[c].version = form[c].version
      /\ form'[c].opened = form[c].opened
      /\ form'[c].shown = form[c].shown
      /\ form'[c].patch = form[c].patch
      /\ form'[c].previous = form[c].previous
  BY <1>1, <1>3 DEF Forms
<1>5. ClientInv(c)'
  <2>1. Holds(item)
    BY <1>3 DEF Holds, Docs
  <2>2. DraftInv(c)'
    BY <1>2, <1>4 DEF IInv, ClientInv, DraftInv, DraftOK
  <2>3. Holds(item)'
    BY <1>2, <2>1 DEF Holds
  <2>4. DocInv(c)'
    BY <1>1, <1>2, <1>4, <2>3 DEF IInv, ClientInv, DraftInv, DraftOK, DocInv
  <2>5. PreviousInv(c)' /\ LockInv(c)' /\ CacheInv(c)'
    BY <1>1, <1>2, <1>4 DEF IInv, ClientInv, PreviousInv, LockInv, CacheInv, Holds
  <2> QED BY <2>2, <2>4, <2>5 DEF ClientInv
<1> QED BY <1>1, <1>2, <1>3, <1>5, PhasePreserves DEF Phases, IInv, TypeOK

(* Under the lock the version still is the one that was sent, so what the  *)
(* handler read before it is what is in the row.                           *)
LEMMA FlushPreserves ==
  ASSUME IInv, NEW c \in Clients, Flush(c)
  PROVE  IInv'
<1>1. /\ form[c].phase = "read"
      /\ lock = NoClient
      /\ item.version = form[c].version
      /\ lock' = c
      /\ form' = [form EXCEPT ![c].phase = "flushed"]
      /\ UNCHANGED <<item, history, cached, edits>>
  BY DEF Flush, ExpectedVersion
<1>2. form[c] \in Forms /\ form \in [Clients -> Forms] /\ item \in Docs
  BY DEF IInv, TypeOK
<1>3. form' = [form EXCEPT ![c].phase = "flushed", ![c].doc = form[c].doc]
  BY <1>1, <1>2 DEF Forms
<1>4. /\ form'[c].phase = "flushed"
      /\ form'[c].doc = form[c].doc
      /\ form'[c].version = form[c].version
      /\ form'[c].opened = form[c].opened
      /\ form'[c].shown = form[c].shown
      /\ form'[c].patch = form[c].patch
      /\ form'[c].previous = form[c].previous
  BY <1>1, <1>2 DEF Forms
<1>5. form[c].doc = item
  <2>1. /\ form[c].doc \in Docs
        /\ form[c].doc.version <= item.version
        /\ form[c].version <= form[c].doc.version
        /\ form[c].doc.version = item.version => form[c].doc.fields = item.fields
    BY <1>1, <1>2 DEF IInv, ClientInv, DocInv, Holds, Forms
  <2>2. form[c].doc.version = item.version
    BY <1>1, <1>2, <2>1 DEF Docs
  <2> QED BY <1>2, <2>1, <2>2 DEF Docs
<1>6. ClientInv(c)'
  <2>1. DraftInv(c)'
    BY <1>1, <1>4 DEF IInv, ClientInv, DraftInv, DraftOK
  <2>2. PreviousInv(c)' /\ DocInv(c)' /\ LockInv(c)' /\ CacheInv(c)'
    BY <1>1, <1>4, <1>5 DEF IInv, ClientInv, PreviousInv, DocInv, LockInv, CacheInv, Holds
  <2> QED BY <2>1, <2>2 DEF ClientInv
<1>7. form[c].doc \in Docs
  BY <1>2 DEF Forms
<1> QED BY <1>1, <1>3, <1>6, <1>7, PhasePreserves DEF Phases

LEMMA FailPreserves ==
  ASSUME IInv, NEW c \in Clients, Fail(c)
  PROVE  IInv'
<1>1. /\ form[c].phase \in {"sent", "read", "flushed", "saved", "refused"}
      /\ lock' = IF lock = c THEN NoClient ELSE lock
      /\ form' = [form EXCEPT ![c].phase = "failed", ![c].doc = First]
      /\ UNCHANGED <<item, history, cached, edits>>
  BY DEF Fail
<1>2. form[c] \in Forms /\ form \in [Clients -> Forms]
  BY DEF IInv, TypeOK
<1>3. /\ form'[c].phase = "failed"
      /\ form'[c].version = form[c].version
      /\ form'[c].opened = form[c].opened
      /\ form'[c].shown = form[c].shown
      /\ form'[c].patch = form[c].patch
      /\ form'[c].previous = form[c].previous
  BY <1>1, <1>2 DEF Forms
<1>4. ClientInv(c)'
  <2>1. DraftInv(c)'
    <3>1. DraftOK(form[c]) /\ item' = item
      BY <1>1 DEF IInv, ClientInv, DraftInv
    <3> QED BY <1>3, <3>1 DEF DraftInv, DraftOK
  <2>2. PreviousInv(c)' /\ DocInv(c)' /\ LockInv(c)' /\ CacheInv(c)'
    BY <1>1, <1>3 DEF IInv, ClientInv, PreviousInv, DocInv, LockInv, CacheInv, Holds
  <2> QED BY <2>1, <2>2 DEF ClientInv
<1>5. lock' \in Clients \cup {NoClient}
  BY <1>1 DEF IInv, TypeOK
<1> QED BY <1>1, <1>4, <1>5, BlankType, PhasePreserves DEF Phases

(* The answers. *)
LEMMA ReceiveSavedPreserves ==
  ASSUME IInv, NEW c \in Clients, ReceiveSaved(c)
  PROVE  IInv'
<1>1. /\ form[c].phase = "saved"
      /\ form' = [form EXCEPT ![c] = Blank]
      /\ UNCHANGED <<item, lock, history, edits>>
  BY DEF ReceiveSaved
<1>2. \/ cached' = [cached EXCEPT ![c] = form[c].doc]
      \/ cached' = cached /\ ~ (/\ form[c].doc.version > form[c].version
                                /\ cached[c].version <= form[c].doc.version)
  BY DEF ReceiveSaved
<1>3. /\ form[c] \in Forms /\ form[c].doc \in Docs /\ cached[c] \in Docs
      /\ cached = [cached EXCEPT ![c] = cached[c]] /\ edits' \in Nat
  BY <1>1 DEF IInv, TypeOK, Forms
<1>4. /\ Holds(form[c].doc)
      /\ form[c].version < form[c].doc.version
      /\ Holds(cached[c]) \/ cached[c].version <= form[c].doc.version
  BY <1>1 DEF IInv, ClientInv, DocInv, CacheInv
<1>5. PICK d \in Docs : cached' = [cached EXCEPT ![c] = d] /\ Holds(d)
  <2>1. CASE cached' = [cached EXCEPT ![c] = form[c].doc]
    BY <1>3, <1>4, <2>1
  <2>2. CASE cached' = cached /\ ~ (/\ form[c].doc.version > form[c].version
                                    /\ cached[c].version <= form[c].doc.version)
    <3>1. Holds(cached[c])
      BY <1>3, <1>4, <2>2 DEF Docs, Forms
    <3>2. cached' = [cached EXCEPT ![c] = cached[c]]
      BY <1>3, <2>2
    <3> QED BY <1>3, <3>1, <3>2
  <2> QED BY <1>2, <2>1, <2>2
<1>6. Blank.phase = "closed"
  BY DEF Blank
<1> QED BY <1>1, <1>3, <1>5, <1>6, BlankType, FormPreserves

(* The document of a 409 is what its user has seen of the item. *)
LEMMA ReviewedDraft ==
  ASSUME NEW q \in Forms, q.patch # {}, Holds(q.doc)
  PROVE  /\ Reviewed(q) \in Forms
         /\ Reviewed(q).phase = "open"
         /\ DraftOK(Reviewed(q))
<1>1. q.doc \in Docs
  BY DEF Forms
<1>2. PICK r : r = [q EXCEPT !.conflict = TRUE, !.version = q.doc.version,
                             !.opened = q.doc.version, !.shown = q.doc.fields]
  OBVIOUS
<1>3. r \in Forms
  BY <1>1, <1>2 DEF Forms, Docs
<1>4. /\ r.patch = q.patch
      /\ r.version = q.doc.version
      /\ r.opened = q.doc.version
      /\ r.shown = q.doc.fields
  BY <1>2 DEF Forms
<1>5. DraftOK(r)
  BY <1>4 DEF DraftOK, Holds
<1>6. Reviewed(q) = Settled(r)
  BY <1>2 DEF Reviewed
<1> QED BY <1>3, <1>5, <1>6, SettledDraft

LEMMA ReceiveConflictPreserves ==
  ASSUME IInv, NEW c \in Clients, ReceiveConflict(c)
  PROVE  IInv'
<1>1. /\ form[c].phase = "refused"
      /\ cached' = [cached EXCEPT ![c] = form[c].doc]
      /\ form' = [form EXCEPT ![c] = Reviewed(form[c])]
      /\ UNCHANGED <<item, lock, history, edits>>
  BY DEF ReceiveConflict
<1>2. form[c] \in Forms /\ form[c].doc \in Docs /\ edits' \in Nat
  BY <1>1 DEF IInv, TypeOK, Forms
<1>3. Holds(form[c].doc) /\ form[c].patch # {}
  BY <1>1 DEF IInv, ClientInv, DocInv, DraftInv, DraftOK
<1>4. PICK q : q = Reviewed(form[c])
  OBVIOUS
<1>5. q \in Forms /\ q.phase = "open" /\ DraftOK(q)
  BY <1>2, <1>3, <1>4, ReviewedDraft
<1> QED BY <1>1, <1>2, <1>3, <1>4, <1>5, FormPreserves

LEMMA ReceiveErrorPreserves ==
  ASSUME IInv, NEW c \in Clients, ReceiveError(c)
  PROVE  IInv'
<1>1. /\ form[c].phase = "failed"
      /\ cached' = [cached EXCEPT ![c] = form[c].previous]
      /\ form' = [form EXCEPT ![c] = Settled(form[c])]
      /\ UNCHANGED <<item, lock, history, edits>>
  BY DEF ReceiveError
<1>2. form[c] \in Forms /\ form[c].previous \in Docs /\ edits' \in Nat
  BY <1>1 DEF IInv, TypeOK, Forms
<1>3. Holds(form[c].previous) /\ DraftOK(form[c])
  BY <1>1 DEF IInv, ClientInv, PreviousInv, DraftInv
<1>4. PICK q : q = Settled(form[c])
  OBVIOUS
<1>5. q \in Forms /\ q.phase = "open" /\ DraftOK(q)
  BY <1>2, <1>3, <1>4, SettledDraft
<1> QED BY <1>1, <1>2, <1>3, <1>4, <1>5, FormPreserves

(* A write moves the version on, so that whatever anybody holds is old.    *)
LEMMA OldDocuments ==
  ASSUME IInv, NEW d \in Clients, item' \in Docs, item'.version = item.version + 1,
         form'[d] = form[d], cached'[d] = cached[d], form[d].phase # "flushed",
         history \subseteq history'
  PROVE  ClientInv(d)'
<1>1. /\ item \in Docs /\ form[d] \in Forms /\ cached[d] \in Docs
      /\ form[d].previous \in Docs /\ form[d].doc \in Docs /\ form[d].version \in Nat
  BY DEF IInv, TypeOK, Forms
<1>2. \A x \in Docs : x.version <= item.version => Holds(x)'
  BY <1>1 DEF Holds, Docs
<1>3. ClientInv(d)
  BY DEF IInv
<1>4. DraftInv(d)' /\ PreviousInv(d)' /\ LockInv(d)'
  <2>1. form[d].opened \in Nat /\ item.version \in Nat
    BY <1>1 DEF Forms, Docs
  <2>2. DraftInv(d)'
    BY <1>1, <1>3, <2>1 DEF ClientInv, DraftInv, DraftOK
  <2> QED BY <1>1, <1>2, <1>3, <2>2 DEF ClientInv, PreviousInv, LockInv, Holds, Docs
<1>5. DocInv(d)'
  BY <1>1, <1>2, <1>3 DEF ClientInv, DocInv, Recorded, Holds, Docs
<1>6. CacheInv(d)'
  BY <1>1, <1>2, <1>3 DEF ClientInv, CacheInv, Holds, Docs
<1> QED BY <1>4, <1>5, <1>6 DEF ClientInv

LEMMA BumpPreserves ==
  ASSUME IInv, Bump
  PROVE  IInv'
<1>1. /\ lock = NoClient
      /\ item' = [item EXCEPT !.version = item.version + 1]
      /\ UNCHANGED <<lock, history, cached, form, edits>>
  BY DEF Bump
<1>2. /\ item' \in Docs
      /\ item'.version = item.version + 1
      /\ item'.fields = item.fields
  BY <1>1 DEF IInv, TypeOK, Docs
<1>3. TypeOK'
  BY <1>1, <1>2 DEF IInv, TypeOK
<1>4. \A d \in Clients : form[d].phase # "flushed"
  BY <1>1 DEF IInv, ClientInv, LockInv
<1>5. \A d \in Clients : ClientInv(d)'
  BY <1>1, <1>2, <1>4, OldDocuments
<1>6. HistoryInv'
  BY <1>1, <1>2 DEF IInv, TypeOK, HistoryInv, HistoryRows, Docs
<1>7. HistoryReplays'
  BY <1>1, <1>2 DEF IInv, HistoryReplays, Later, Earlier
<1> QED BY <1>3, <1>5, <1>6, <1>7 DEF IInv

(* What a commit writes: one event per patched field, whose old value is   *)
(* the value in the row, and a row that differs only in those fields.      *)
LEMMA CommitWrites ==
  ASSUME IInv, NEW c \in Clients, Commit(c)
  PROVE  /\ lock = c
         /\ item' \in Docs
         /\ item'.version = item.version + 1
         /\ \A f \in Fields : item'.fields[f] = IF f \in form[c].patch THEN form[c].sent[f]
                                                ELSE item.fields[f]
         /\ history' = history \cup Events(c)
         /\ Events(c) \subseteq HistoryRows
         /\ \A e \in Events(c) : /\ e.field \in form[c].patch
                                 /\ e.version = item.version + 1
                                 /\ e.old = item.fields[e.field]
                                 /\ e.new = form[c].sent[e.field]
         /\ \A f \in form[c].patch : \E e \in Events(c) : e.field = f
         /\ form[c].patch \subseteq Fields /\ form[c].patch # {}
<1>1. form[c].phase = "flushed" /\ item' = Merged(c) /\ history' = history \cup Events(c)
  BY DEF Commit
<1>2. lock = c /\ form[c].doc = item /\ form[c].patch # {}
  BY <1>1 DEF IInv, ClientInv, LockInv, DraftInv, DraftOK
<1>3. item \in Docs /\ form[c] \in Forms
  BY DEF IInv, TypeOK
<1>4. /\ item.version + 1 \in Nat /\ item.fields \in [Fields -> Nat]
      /\ form[c].sent \in [Fields -> Nat] /\ form[c].patch \subseteq Fields
  BY <1>3 DEF Docs, Forms
<1>5. item' = [version |-> item.version + 1,
               fields |-> Patched(item.fields, form[c].patch, form[c].sent)]
  BY <1>1, <1>2 DEF Merged
<1>6. Patched(item.fields, form[c].patch, form[c].sent) \in [Fields -> Nat]
  BY <1>3, <1>4, PatchedType
<1>7. /\ item' \in Docs
      /\ item'.version = item.version + 1
      /\ item'.fields = Patched(item.fields, form[c].patch, form[c].sent)
  BY <1>4, <1>5, <1>6 DEF Docs
<1>8. \A f \in Fields : item'.fields[f] = IF f \in form[c].patch THEN form[c].sent[f]
                                           ELSE item.fields[f]
  BY <1>7 DEF Patched
<1>9. Events(c) = {[version |-> item.version + 1, field |-> f, old |-> item.fields[f],
                    new |-> form[c].sent[f]] : f \in form[c].patch}
  BY <1>2 DEF Events
<1>10. Events(c) \subseteq HistoryRows
  BY <1>4, <1>9 DEF HistoryRows
<1>11. \A e \in Events(c) : /\ e.field \in form[c].patch
                             /\ e.version = item.version + 1
                             /\ e.old = item.fields[e.field]
                             /\ e.new = form[c].sent[e.field]
  BY <1>9
<1>12. ASSUME NEW f \in form[c].patch PROVE \E e \in Events(c) : e.field = f
  <2> DEFINE ev == [version |-> item.version + 1, field |-> f, old |-> item.fields[f],
                    new |-> form[c].sent[f]]
  <2>1. ev \in Events(c) /\ ev.field = f
    BY <1>9
  <2> QED BY <2>1
<1> QED BY <1>1, <1>2, <1>4, <1>7, <1>8, <1>10, <1>11, <1>12

(* The events of a commit continue the history of each field. *)
LEMMA CommitReplays ==
  ASSUME IInv, NEW c \in Clients, Commit(c)
  PROVE  HistoryInv' /\ HistoryReplays'
<1> DEFINE N == Events(c)
           P == form[c].patch
<1>1. /\ history' = history \cup N /\ N \subseteq HistoryRows /\ P \subseteq Fields
      /\ item'.version = item.version + 1 /\ item.version \in Nat
      /\ \A f \in Fields : item'.fields[f] = IF f \in P THEN form[c].sent[f] ELSE item.fields[f]
      /\ \A e \in N : /\ e.field \in P
                      /\ e.version = item.version + 1
                      /\ e.old = item.fields[e.field]
                      /\ e.new = form[c].sent[e.field]
      /\ \A f \in P : \E e \in N : e.field = f
  BY CommitWrites DEF IInv, TypeOK, Docs
<1>2. /\ history \subseteq HistoryRows
      /\ \A e \in history : e.version <= item.version /\ e.version \in Nat /\ e.field \in Fields
  BY DEF IInv, TypeOK, HistoryInv, HistoryRows
<1> HIDE DEF N, P
<1>3. HistoryInv'
  BY <1>1, <1>2 DEF HistoryInv
<1>4. /\ \A f \in Fields : (\A e \in history : e.field # f) => item.fields[f] = 0
      /\ \A d \in history : (\A e \in history : e.field = d.field => ~ (e.version < d.version))
                               => d.old = 0
      /\ \A d \in history : (\A e \in history : e.field = d.field => ~ (e.version > d.version))
                               => item.fields[d.field] = d.new
      /\ \A d, e \in history :
            /\ e.field = d.field /\ e.version > d.version
            /\ \A m \in history : m.field = d.field => ~ (m.version > d.version /\ m.version < e.version)
            => e.old = d.new
  BY DEF IInv, HistoryReplays, Later, Earlier
<1>5. \A f \in Fields : (\A e \in history' : e.field # f) => item'.fields[f] = 0
  BY <1>1, <1>4
<1>6. ASSUME NEW d \in history',
             \A e \in history' : e.field = d.field => ~ (e.version < d.version)
      PROVE  d.old = 0
  BY <1>1, <1>2, <1>4, <1>6
<1>7. ASSUME NEW d \in history',
             \A e \in history' : e.field = d.field => ~ (e.version > d.version)
      PROVE  item'.fields[d.field] = d.new
  <2>1. CASE d \in N
    BY <1>1, <2>1
  <2>2. CASE d \in history
    <3>1. d.field \notin P
      BY <1>1, <1>2, <1>7, <2>2
    <3> QED BY <1>1, <1>2, <1>4, <1>7, <2>2, <3>1
  <2> QED BY <1>1, <2>1, <2>2
<1>8. ASSUME NEW d \in history', NEW e \in history', e.field = d.field, e.version > d.version,
             \A m \in history' : m.field = d.field => ~ (m.version > d.version /\ m.version < e.version)
      PROVE  e.old = d.new
  <2>1. d \in history
    BY <1>1, <1>2, <1>8
  <2>2. CASE e \in history
    BY <1>1, <1>4, <1>8, <2>1, <2>2
  <2>3. CASE e \in N
    <3>1. \A m \in history : m.field = d.field => ~ (m.version > d.version)
      BY <1>1, <1>2, <1>8, <2>1, <2>3
    <3> QED BY <1>1, <1>4, <1>8, <2>1, <2>3, <3>1
  <2> QED BY <1>1, <2>2, <2>3
<1>9. HistoryReplays'
  BY <1>5, <1>6, <1>7, <1>8 DEF HistoryReplays, Later, Earlier
<1> QED BY <1>3, <1>9

LEMMA CommitPreserves ==
  ASSUME IInv, NEW c \in Clients, Commit(c)
  PROVE  IInv'
<1>1. /\ form[c].phase = "flushed"
      /\ item' = Merged(c)
      /\ lock' = NoClient
      /\ form' = [form EXCEPT ![c].phase = "saved", ![c].doc = item']
      /\ UNCHANGED <<cached, edits>>
  BY DEF Commit, Answer
<1>2. /\ lock = c /\ item' \in Docs /\ item'.version = item.version + 1
      /\ history' = history \cup Events(c) /\ Events(c) \subseteq HistoryRows
      /\ \A f \in form[c].patch : \E e \in Events(c) : e.field = f
      /\ \A e \in Events(c) : /\ e.version = item.version + 1
                              /\ e.new = form[c].sent[e.field]
  BY CommitWrites
<1>3. form \in [Clients -> Forms] /\ form[c] \in Forms /\ item \in Docs
  BY DEF IInv, TypeOK
<1>4. /\ form'[c] \in Forms
      /\ form'[c].phase = "saved"
      /\ form'[c].doc = item'
      /\ form'[c].sent = form[c].sent
      /\ form'[c].opened = form[c].opened
      /\ form'[c].version = form[c].version
      /\ form'[c].patch = form[c].patch
      /\ form'[c].previous = form[c].previous
  BY <1>1, <1>2, <1>3 DEF Forms, Phases
<1>5. TypeOK'
  BY <1>1, <1>2, <1>3, <1>4 DEF IInv, TypeOK
<1>6. ClientInv(c)'
  <2>1. ClientInv(c) /\ form[c].version \in Nat /\ item.version \in Nat
    BY <1>3 DEF IInv, Forms, Docs
  <2>2. form[c].version = item.version
    BY <1>1, <2>1 DEF ClientInv, LockInv
  <2>3. form[c].previous.version <= item.version /\ form[c].previous \in Docs
    BY <1>1, <1>3, <2>1 DEF ClientInv, PreviousInv, Holds, Forms
  <2>4. cached[c].version <= item.version /\ cached[c] \in Docs
    BY <2>1 DEF ClientInv, CacheInv, IInv, TypeOK
  <2>5. DraftInv(c)' /\ LockInv(c)'
    <3>1. form[c].patch # {} /\ form[c].opened <= item.version /\ form[c].opened \in Nat
      BY <1>1, <1>3, <2>1 DEF ClientInv, DraftInv, DraftOK, Forms
    <3>2. item'.version # form[c].version /\ form[c].version <= item'.version
      BY <1>2, <2>1, <2>2
    <3>3. item'.version # form[c].opened /\ form[c].opened <= item'.version
      BY <1>2, <2>1, <3>1
    <3> QED BY <1>4, <3>1, <3>2, <3>3 DEF DraftInv, DraftOK, LockInv
  <2>6. PreviousInv(c)'
    BY <1>2, <1>4, <2>1, <2>3 DEF PreviousInv, Holds, Docs
  <2>7. DocInv(c)'
    <3>1. Recorded(form[c])'
      BY <1>2, <1>4 DEF Recorded
    <3> QED BY <1>2, <1>4, <2>1, <2>2, <3>1 DEF DocInv, Holds, Docs
  <2>8. CacheInv(c)'
    BY <1>1, <1>2, <1>4, <2>1, <2>4 DEF CacheInv, Docs
  <2> QED BY <2>5, <2>6, <2>7, <2>8 DEF ClientInv
<1>7. ASSUME NEW d \in Clients, d # c PROVE ClientInv(d)'
  <2>1. form[d].phase # "flushed"
    BY <1>2, <1>7 DEF IInv, ClientInv, LockInv
  <2> QED BY <1>1, <1>2, <1>3, <1>7, <2>1, OldDocuments
<1> QED BY <1>5, <1>6, <1>7, CommitReplays DEF IInv

-----------------------------------------------------------------------------
LEMMA NextInv == IInv /\ [Next]_vars => IInv'
<1> SUFFICES ASSUME IInv, [Next]_vars PROVE IInv'
  OBVIOUS
<1>1. ASSUME NEW c \in Clients, Browser(c) PROVE IInv'
  BY <1>1, OpenPreserves, ClosePreserves, TypePreserves, SubmitPreserves,
     RefetchPreserves, ReceiveSavedPreserves, ReceiveConflictPreserves, ReceiveErrorPreserves,
     RetryPreserves, CancelRetryPreserves DEF Browser
<1>2. ASSUME NEW c \in Clients, Server(c) PROVE IInv'
  BY <1>2, ReadPreserves, FlushPreserves, CommitPreserves, FailPreserves DEF Server
<1>3. CASE UNCHANGED vars
  <2>1. UNCHANGED <<item, lock, history, cached, form, edits>>
    BY <1>3 DEF vars
  <2>2. TypeOK' /\ HistoryInv' /\ HistoryReplays'
    BY <2>1, HistoryUndisturbed DEF IInv, TypeOK, Quiet
  <2>3. \A c \in Clients : ClientInv(c)'
    BY <2>1 DEF IInv, ClientInv, DraftInv, DraftOK, PreviousInv, DocInv, Recorded, LockInv,
               CacheInv, Holds
  <2> QED BY <2>2, <2>3 DEF IInv
<1> QED BY <1>1, <1>2, <1>3, BumpPreserves DEF Next

(* The invariant holds in every reachable state. *)
THEOREM Inductive == Spec => []IInv
<1> QED BY InitInv, NextInv, PTL DEF Spec

(* Forms, cache, row and history keep their types (ActionForm, mutateItem, *)
(* updateItem).                                                            *)
THEOREM TypeCorrect == Spec => []TypeOK
<1>1. IInv => TypeOK
  BY DEF IInv
<1> QED BY <1>1, Inductive, PTL

(* However many people edit, the change_event history of each field is     *)
(* exactly what happened to it, although updateItem reads old values and   *)
(* the unpatched fields before it holds the lock.                          *)
THEOREM HistoryIsTrue == Spec => []HistoryReplays
<1>1. IInv => HistoryReplays
  BY DEF IInv
<1> QED BY <1>1, Inductive, PTL

(* While commits that are tried succeed, every value of an edit that a     *)
(* user is told is saved is in the history (withRequestScope, mutateItem). *)
THEOREM AcknowledgedIsCommitted == Spec => SavedIsCommitted
<1>1. ASSUME IInv, Next, NEW c \in Clients, ToldSaved(c) PROVE form[c].phase = "saved"
  <2>1. form \in [Clients -> Forms]
    BY <1>1 DEF IInv, TypeOK
  <2>2. form[c].phase \notin {"closed", "open"} /\ form'[c].phase = "closed"
    BY <1>1 DEF ToldSaved
  <2>3. CASE Bump
    BY <2>2, <2>3 DEF Bump
  <2>4. ASSUME NEW d \in Clients,
               \/ Open(d) \/ Close(d) \/ Type(d) \/ Submit(d)
               \/ Refetch(d) \/ Retry(d) \/ CancelRetry(d)
        PROVE  FALSE
    <3>1. Refetch(d) \/ form[d].phase \in {"closed", "open"}
      BY <2>4 DEF Open, Close, Type, Submit, Retry, CancelRetry
    <3>2. form' = form \/ \E q : form' = [form EXCEPT ![d] = q]
      BY <2>4 DEF Open, Close, Type, Submit, Refetch, Retry, CancelRetry, Send
    <3>3. Refetch(d) => form' = form
      BY DEF Refetch
    <3> QED BY <2>1, <2>2, <3>1, <3>2, <3>3
  <2>5. ASSUME NEW d \in Clients, ReceiveConflict(d) \/ ReceiveError(d) PROVE FALSE
    <3>1. PICK q : form' = [form EXCEPT ![d] = q] /\ q.phase = "open"
      <4>1. form[d] \in Forms
        BY <2>1
      <4>2. ReceiveConflict(d) => form[d].patch # {} /\ Holds(form[d].doc)
        BY <1>1 DEF ReceiveConflict, IInv, ClientInv, DraftInv, DraftOK, DocInv
      <4>3. ReceiveConflict(d) => Reviewed(form[d]).phase = "open"
        BY <4>1, <4>2, ReviewedDraft
      <4>4. Settled(form[d]).phase = "open"
        BY <4>1, SettledDraft
      <4> QED BY <2>5, <4>3, <4>4 DEF ReceiveConflict, ReceiveError
    <3> QED BY <2>1, <2>2, <3>1
  <2>6. ASSUME NEW d \in Clients, Server(d) PROVE FALSE
    <3>1. form[d] \in Forms
      BY <2>1
    <3>2. CASE ReadCurrent(d) \/ EarlyConflict(d) \/ FlushConflict(d) \/ Commit(d) \/ Fail(d)
      <4>1. PICK phase \in Phases \ {"closed"} :
               \E doc : form' = [form EXCEPT ![d].phase = phase, ![d].doc = doc]
        BY <3>2 DEF ReadCurrent, EarlyConflict, FlushConflict, Commit, Fail, Answer, Phases
      <4> QED BY <2>1, <2>2, <3>1, <4>1 DEF Forms
    <3>3. CASE Flush(d)
      BY <2>1, <2>2, <3>1, <3>3 DEF Flush, Forms
    <3> QED BY <2>6, <3>2, <3>3 DEF Server
  <2>7. ASSUME NEW d \in Clients, ReceiveSaved(d) PROVE form[c].phase = "saved"
    BY <2>1, <2>2, <2>7 DEF ReceiveSaved
  <2> QED BY <1>1, <2>3, <2>4, <2>5, <2>6, <2>7, <2>2 DEF Next, Browser, Bump
<1>2. ASSUME IInv, [Next]_vars,
             NEW c \in Clients, ToldSaved(c), NEW f \in form[c].patch
      PROVE  \E e \in history : /\ e.version = form[c].doc.version
                                /\ e.field = f
                                /\ e.new = form[c].sent[f]
  <2>1. CASE Next
    BY <1>1, <1>2, <2>1 DEF IInv, ClientInv, DocInv, Recorded
  <2>2. CASE UNCHANGED vars
    BY <1>2, <2>2 DEF ToldSaved, vars
  <2> QED BY <1>2, <2>1, <2>2
<1>3. IInv /\ [Next]_vars =>
        [\A c \in Clients : ToldSaved(c) =>
            \A f \in form[c].patch : \E e \in history : /\ e.version = form[c].doc.version
                                                        /\ e.field = f
                                                        /\ e.new = form[c].sent[f]]_vars
  BY <1>2
<1> QED BY <1>3, Inductive, PTL DEF Spec, SavedIsCommitted

(* SPEC 5.4: however the form, refetches, conflicts, retries and failures  *)
(* interleave, a commit of ActionForm replaces a value its user was not    *)
(* shown only in a control that was filled at another version than the     *)
(* If-Match it sends.                                                      *)
THEOREM NothingOverwrittenUnseen == Spec => NoSilentOverwrite
<1>1. ASSUME IInv, [Next]_vars,
             NEW c \in Clients, form[c].phase = "flushed", item' # item, NEW f \in form[c].patch
      PROVE  \/ item.fields[f] = form[c].shown[f]
             \/ f \in Captured /\ form[c].opened # form[c].version
  <2>1. form[c].version = item.version /\ DraftOK(form[c])
    BY <1>1 DEF IInv, ClientInv, LockInv, DraftInv
  <2>2. f \in Fields
    BY <1>1 DEF IInv, TypeOK, Forms
  <2> QED BY <2>1, <2>2 DEF DraftOK
<1>2. IInv /\ [Next]_vars =>
        [\A c \in Clients : form[c].phase = "flushed" /\ item' # item =>
            \A f \in form[c].patch : \/ item.fields[f] = form[c].shown[f]
                                     \/ f \in Captured /\ form[c].opened # form[c].version]_vars
  BY <1>1
<1> QED BY <1>2, Inductive, PTL DEF Spec, NoSilentOverwrite
=============================================================================
