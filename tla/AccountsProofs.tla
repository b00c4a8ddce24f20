--------------------------- MODULE AccountsProofs ---------------------------
(***************************************************************************)
(* Proofs about Accounts, for every number of accounts, server processes,  *)
(* requests and recovery codes.                                            *)
(***************************************************************************)
EXTENDS Accounts, SequenceTheorems, TLAPS

USE AccountsAssumption

TotpType == [secret : Nat, active : BOOLEAN, lastStep : Int, pendingUntil : Nat,
             recovery : SUBSET RecoveryCodes]

RowType == [exists : BOOLEAN, active : BOOLEAN, password : BOOLEAN, totp : TotpType]

RequestType == [phase : {"idle", "admitted", "authenticated"} \cup AtWork,
                kind : {None, "login", "enroll", "confirm", "disable", "add"},
                server : Servers \cup {None}, user : Users \cup {None}, session : Nat]

CodeType == [secret : Nat, step : Nat, recovery : RecoveryCodes \cup {None}]

TypeInv == /\ now \in Nat
           /\ account \in [Users -> RowType]
           /\ sessions \subseteq [id : Nat, user : Users, expires : Nat, factor : Nat]
           /\ made \in [secrets : Nat, sessions : Nat]
           /\ slot \in [Servers -> Requests \cup {None}]
           /\ req \in [Requests -> RequestType]
           /\ accepted \in Seq(CodeType)

(* A secret is drawn once: no two accounts hold the same one, and a later  *)
(* one differs from all of them.                                           *)
SecretsInv == /\ \A u \in Users : account[u].totp.secret <= made.secrets
              /\ \A u, v \in Users :
                    /\ account[u].totp.secret = account[v].totp.secret
                    /\ account[u].totp.secret # 0
                    => u = v

(* The account that still holds the secret of a code remembers that the    *)
(* code was used: a period by lastStep, a recovery code by its removal,    *)
(* which a second confirmation cannot undo because the factor is active.   *)
Remembers(totp, code) ==
    totp.secret = code.secret =>
       /\ IsStep(code) => code.step <= totp.lastStep
       /\ ~ IsStep(code) => totp.active /\ code.recovery \notin totp.recovery

UsedInv == \A n \in 1..Len(accepted) :
              /\ accepted[n].secret \in 1..made.secrets
              /\ \A u \in Users : Remembers(account[u].totp, accepted[n])

SessionInv == SessionsMatchFactor /\ NoSessionOfSuspended

AccountInv == \A u \in Users : account[u].active => account[u].exists

(* The slot and the request at work name each other. *)
SlotInv == /\ SlotNotLeaked
           /\ \A r \in Requests : req[r].phase \in AtWork => slot[req[r].server] = r

(* Whom a request acts for; the row a creation has inserted is not there   *)
(* for anybody else.                                                       *)
RequestInv(q) == /\ q.phase # "idle" => q.server \in Servers
                 /\ q.phase \in {"authenticated", "verified", "inserted"} => q.user \in Users
                 /\ /\ q.phase \in {"admitted", "working"}
                    /\ q.kind \in {"enroll", "confirm", "disable", "add"}
                    => q.user \in Users
                 /\ q.phase = "inserted" => ~ account[q.user].exists

InsertedInv == \A p, r \in Requests :
                  /\ req[p].phase = "inserted" /\ req[r].phase = "inserted"
                  /\ req[p].user = req[r].user
                  => p = r

RequestsInv == (\A r \in Requests : RequestInv(req[r])) /\ InsertedInv

IInv == /\ TypeInv /\ SecretsInv /\ UsedInv /\ CodesOnce
        /\ AccountInv /\ SessionInv /\ SlotInv /\ RequestsInv

-----------------------------------------------------------------------------
(* Types *)

LEMMA IdleType == /\ Idle \in RequestType /\ Idle.phase = "idle"
                  /\ Idle.phase \notin AtWork /\ RequestInv(Idle) /\ RequestInv(Idle)'
BY DEF Idle, RequestType, AtWork, RequestInv

LEMMA NoTotpType == /\ NoTotp \in TotpType /\ NoTotp.secret = 0 /\ ~ NoTotp.active
                    /\ NoTotp.recovery = {}
BY DEF NoTotp, TotpType


-----------------------------------------------------------------------------
(* The slot and the requests *)

(* A request that does not start or end its work leaves the slots alone. *)
LEMMA SlotKept ==
  ASSUME TypeInv, SlotInv, NEW r \in Requests, NEW q \in RequestType,
         req' = [req EXCEPT ![r] = q], UNCHANGED slot,
         q.phase \in AtWork <=> req[r].phase \in AtWork,
         q.phase \in AtWork => q.server = req[r].server
  PROVE  SlotInv'
<1>1. \A p \in Requests : req'[p] = IF p = r THEN q ELSE req[p]
  BY DEF TypeInv
<1>2. \A p \in Requests : /\ req'[p].phase \in AtWork <=> req[p].phase \in AtWork
                          /\ req'[p].phase \in AtWork => req'[p].server = req[p].server
  BY <1>1
<1>3. \A s \in Servers : slot[s] # None => slot[s] \in Requests
  BY DEF TypeInv
<1> QED
  BY <1>2, <1>3 DEF SlotInv, SlotNotLeaked

(* The deferred receive: whoever was at work gives its own slot back. *)
LEMMA SlotFreed ==
  ASSUME TypeInv, SlotInv, RequestsInv, NEW r \in Requests, req[r].phase \in AtWork, Done(r)
  PROVE  /\ SlotInv'
         /\ slot' \in [Servers -> Requests \cup {None}]
         /\ req' = [req EXCEPT ![r] = Idle]
<1> DEFINE s == req[r].server
<1>1. s \in Servers /\ slot[s] = r
  BY DEF RequestsInv, RequestInv, SlotInv, AtWork
<1>2. req' = [req EXCEPT ![r] = Idle] /\ slot' = [slot EXCEPT ![s] = None]
  BY DEF Done, Answered
<1>3. \A p \in Requests : req'[p] = IF p = r THEN Idle ELSE req[p]
  BY <1>2 DEF TypeInv
<1>4. \A t \in Servers : slot'[t] = IF t = s THEN None ELSE slot[t]
  BY <1>2 DEF TypeInv
<1>5. SlotNotLeaked'
  <2> SUFFICES ASSUME NEW t \in Servers, slot'[t] # None
               PROVE  req'[slot'[t]].server = t /\ req'[slot'[t]].phase \in AtWork
    BY DEF SlotNotLeaked
  <2>1. t # s /\ slot'[t] = slot[t] /\ slot[t] \in Requests
    BY <1>4 DEF TypeInv
  <2>2. req[slot[t]].server = t /\ req[slot[t]].phase \in AtWork
    BY <2>1 DEF SlotInv, SlotNotLeaked
  <2>3. slot[t] # r
    BY <2>1, <2>2
  <2> QED
    BY <2>1, <2>2, <2>3, <1>3
<1>6. ASSUME NEW p \in Requests, req'[p].phase \in AtWork PROVE slot'[req'[p].server] = p
  <2>1. p # r /\ req'[p] = req[p]
    BY <1>3, <1>6, IdleType
  <2>2. slot[req[p].server] = p /\ req[p].server \in Servers
    BY <1>6, <2>1 DEF SlotInv, RequestsInv, RequestInv, AtWork
  <2> QED
    BY <2>1, <2>2, <1>1, <1>4
<1> QED
  BY <1>1, <1>2, <1>5, <1>6 DEF SlotInv, TypeInv

LEMMA SlotTaken ==
  ASSUME TypeInv, SlotInv, RequestsInv, NEW r \in Requests, TakeSlot(r),
         slot[req[r].server] = None
  PROVE  SlotInv' /\ slot' \in [Servers -> Requests \cup {None}]
<1> DEFINE s == req[r].server
<1>1. s \in Servers /\ req[r].phase = "admitted"
  BY DEF RequestsInv, RequestInv, TakeSlot
<1>2. req' = [req EXCEPT ![r].phase = "working"] /\ slot' = [slot EXCEPT ![s] = r]
  BY DEF TakeSlot
<1>3. /\ \A p \in Requests : p # r => req'[p] = req[p]
      /\ req'[r].phase = "working" /\ req'[r].server = s
  BY <1>2 DEF TypeInv, RequestType
<1>4. \A t \in Servers : slot'[t] = IF t = s THEN r ELSE slot[t]
  BY <1>2 DEF TypeInv
<1>5. \A t \in Servers : slot[t] # None => slot[t] \in Requests /\ slot[t] # r
  BY <1>1 DEF TypeInv, SlotInv, SlotNotLeaked, AtWork
<1>6. SlotNotLeaked'
  BY <1>3, <1>4, <1>5 DEF SlotInv, SlotNotLeaked, AtWork
<1>7. ASSUME NEW p \in Requests, p # r, req[p].phase \in AtWork
      PROVE  slot'[req[p].server] = p
  <2>1. slot[req[p].server] = p /\ req[p].server \in Servers
    BY <1>7 DEF SlotInv, RequestsInv, RequestInv, AtWork
  <2> QED
    BY <2>1, <1>4
<1> QED
  BY <1>1, <1>2, <1>3, <1>4, <1>6, <1>7 DEF SlotInv, TypeInv

(* What the others hold stays true when no row they inserted appears. *)
LEMMA RequestsKept ==
  ASSUME TypeInv, RequestsInv, NEW r \in Requests, NEW q \in RequestType,
         req' = [req EXCEPT ![r] = q],
         RequestInv(q)',
         q.phase = "inserted" => \A p \in Requests : p # r /\ req[p].phase = "inserted"
                                                        => req[p].user # q.user,
         \A p \in Requests : p # r /\ req[p].phase = "inserted"
                                => account'[req[p].user].exists = account[req[p].user].exists
  PROVE  RequestsInv' /\ req' \in [Requests -> RequestType]
<1>1. \A p \in Requests : req'[p] = IF p = r THEN q ELSE req[p]
  BY DEF TypeInv
<1>2. ASSUME NEW p \in Requests PROVE RequestInv(req[p])'
  <2>1. CASE p = r
    BY <1>1, <2>1 DEF RequestInv
  <2>2. CASE p # r
    <3>1. req'[p] = req[p] /\ RequestInv(req[p])
      BY <1>1, <2>2 DEF RequestsInv
    <3> QED
      BY <3>1, <2>2 DEF RequestInv
  <2> QED
    BY <2>1, <2>2
<1>3. InsertedInv'
  BY <1>1 DEF RequestsInv, InsertedInv
<1> QED
  BY <1>2, <1>3 DEF RequestsInv, TypeInv

-----------------------------------------------------------------------------
(* Accounts, codes and sessions *)

FactorInv == SecretsInv /\ UsedInv /\ CodesOnce /\ AccountInv

(* The second factor of one account is replaced. *)
FactorBecomes(u, t) == account' = [account EXCEPT ![u].totp = t]

LEMMA FactorReplaced ==
  ASSUME TypeInv, NEW u \in Users, NEW t \in TotpType, FactorBecomes(u, t)
  PROVE  /\ account' \in [Users -> RowType]
         /\ \A v \in Users : /\ account'[v].totp = IF v = u THEN t ELSE account[v].totp
                             /\ account'[v].active = account[v].active
                             /\ account'[v].exists = account[v].exists
<1>1. account \in [Users -> RowType]
  BY DEF TypeInv
<1>2. account' = [account EXCEPT ![u] = [account[u] EXCEPT !.totp = t]]
  BY DEF FactorBecomes
<1>3. /\ [account[u] EXCEPT !.totp = t] \in RowType
      /\ [account[u] EXCEPT !.totp = t].totp = t
      /\ [account[u] EXCEPT !.totp = t].active = account[u].active
      /\ [account[u] EXCEPT !.totp = t].exists = account[u].exists
  BY <1>1 DEF RowType
<1> QED
  BY <1>1, <1>2, <1>3

LEMMA FactorKept ==
  ASSUME FactorInv, UNCHANGED <<account, accepted>>, made'.secrets = made.secrets
  PROVE  FactorInv'
BY DEF FactorInv, SecretsInv, UsedInv, CodesOnce, AccountInv

(* A code that is accepted was not accepted before. *)
LEMMA AcceptedIsNew ==
  ASSUME TypeInv, UsedInv, NEW u \in Users, NEW code \in Codes, NEW allowed \in BOOLEAN,
         Accepts(account[u].totp, code, allowed)
  PROVE  /\ \A n \in 1..Len(accepted) : accepted[n] # code
         /\ code \in CodeType /\ code.secret \in 1..made.secrets
         /\ code.secret = account[u].totp.secret
<1> DEFINE totp == account[u].totp
<1>1. code \in CodeType /\ code.secret \in 1..made.secrets /\ code.secret = totp.secret
  BY DEF Codes, CodeType, Accepts, TypeInv
<1>2. totp.lastStep \in Int /\ code.step \in Nat
  BY <1>1 DEF TypeInv, RowType, TotpType, CodeType
<1>3. ~ Remembers(totp, code)
  BY <1>1, <1>2 DEF Remembers, Accepts
<1>4. \A n \in 1..Len(accepted) : Remembers(totp, accepted[n])
  BY DEF UsedInv
<1> QED
  BY <1>1, <1>3, <1>4

(* One code more is accepted, and the account that accepted it remembers   *)
(* this one and what it remembered.                                        *)
LEMMA CodeUsed ==
  ASSUME TypeInv, FactorInv, NEW u \in Users, NEW code \in Codes, NEW allowed \in BOOLEAN,
         NEW t \in TotpType,
         Accepts(account[u].totp, code, allowed),
         FactorBecomes(u, t),
         accepted' = Append(accepted, code),
         made'.secrets = made.secrets,
         t.secret \in {0, account[u].totp.secret},
         Remembers(t, code),
         \A c \in CodeType : Remembers(account[u].totp, c) /\ c.secret # 0 => Remembers(t, c)
  PROVE  FactorInv' /\ accepted' \in Seq(CodeType)
<1> DEFINE n == Len(accepted)
<1>1. /\ \A k \in 1..n : accepted[k] # code
      /\ code \in CodeType /\ code.secret \in 1..made.secrets
      /\ code.secret = account[u].totp.secret
  BY AcceptedIsNew DEF FactorInv
<1>2. accepted \in Seq(CodeType) /\ account \in [Users -> RowType] /\ made.secrets \in Nat
  BY DEF TypeInv
<1>3. /\ n \in Nat /\ accepted' \in Seq(CodeType) /\ Len(accepted') = n + 1
      /\ \A k \in 1..n : accepted'[k] = accepted[k] /\ accepted[k] \in CodeType
      /\ accepted'[n + 1] = code
  BY <1>1, <1>2, LenProperties, AppendProperties, ElementOfSeq
<1>4. \A v \in Users : account'[v].totp = IF v = u THEN t ELSE account[v].totp
  BY FactorReplaced
<1>5. AccountInv'
  BY FactorReplaced DEF FactorInv, AccountInv
<1>6. SecretsInv'
  <2>1. \A v \in Users : account'[v].totp.secret \in {0, account[v].totp.secret}
    BY <1>4
  <2>2. \A v \in Users : account'[v].totp.secret <= made.secrets
    BY <2>1, <1>2 DEF FactorInv, SecretsInv
  <2> QED
    BY <2>1, <2>2 DEF FactorInv, SecretsInv
<1>7. UsedInv'
  <2>1. ASSUME NEW k \in 1..n, NEW v \in Users PROVE Remembers(account'[v].totp, accepted[k])
    <3>1. Remembers(account[v].totp, accepted[k]) /\ accepted[k].secret \in 1..made.secrets
      BY DEF FactorInv, UsedInv
    <3>2. accepted[k].secret # 0
      BY <3>1
    <3> QED
      BY <3>1, <3>2, <1>3, <1>4
  <2>2. ASSUME NEW v \in Users PROVE Remembers(account'[v].totp, code)
    <3>1. CASE v = u
      BY <3>1, <1>4
    <3>2. CASE v # u
      <4>1. account[v].totp.secret # code.secret
        BY <3>2, <1>1, <1>2 DEF FactorInv, SecretsInv
      <4> QED
        BY <4>1, <3>2, <1>4 DEF Remembers
    <3> QED
      BY <3>1, <3>2
  <2>3. \A k \in 1..(n + 1) : k \in 1..n \/ k = n + 1
    BY <1>3
  <2>4. ASSUME NEW k \in 1..Len(accepted')
        PROVE  /\ accepted'[k].secret \in 1..made'.secrets
               /\ \A v \in Users : Remembers(account'[v].totp, accepted'[k])
    <3>1. CASE k \in 1..n
      BY <3>1, <2>1, <1>3 DEF FactorInv, UsedInv
    <3>2. CASE k = n + 1
      BY <3>2, <2>2, <1>1, <1>3
    <3> QED
      BY <3>1, <3>2, <2>3, <1>3
  <2> QED
    BY <2>4 DEF UsedInv
<1>8. CodesOnce'
  <2> SUFFICES ASSUME NEW j \in 1..(n + 1), NEW k \in 1..(n + 1), accepted'[j] = accepted'[k]
               PROVE  j = k
    BY <1>3 DEF CodesOnce
  <2>1. CASE j \in 1..n /\ k \in 1..n
    BY <2>1, <1>3 DEF FactorInv, CodesOnce
  <2>2. CASE j = n + 1 /\ k \in 1..n
    BY <2>2, <1>1, <1>3
  <2>3. CASE j \in 1..n /\ k = n + 1
    BY <2>3, <1>1, <1>3
  <2> QED
    BY <2>1, <2>2, <2>3, <1>3
<1> QED
  BY <1>3, <1>5, <1>6, <1>7, <1>8 DEF FactorInv

(* A login's code: the period moves on, or the recovery code is gone. *)
LEMMA ConsumeRemembers ==
  ASSUME NEW totp \in TotpType, NEW code \in CodeType, Accepts(totp, code, TRUE), totp.active,
         now \in Nat
  PROVE  /\ Consume(totp, code) \in TotpType
         /\ Consume(totp, code).secret = totp.secret
         /\ Consume(totp, code).active = totp.active
         /\ Remembers(Consume(totp, code), code)
         /\ \A c \in CodeType : Remembers(totp, c) => Remembers(Consume(totp, code), c)
<1> DEFINE t == Consume(totp, code)
<1>1. CASE IsStep(code)
  <2>1. t = [totp EXCEPT !.lastStep = code.step] /\ code.step > totp.lastStep
    BY <1>1 DEF Consume, Accepts
  <2>2. totp.lastStep \in Int /\ code.step \in Nat /\ code.step \in Int
    BY DEF TotpType, CodeType
  <2>3. /\ t \in TotpType /\ t.secret = totp.secret /\ t.active = totp.active
        /\ t.lastStep = code.step /\ t.recovery = totp.recovery
    BY <2>1, <2>2 DEF TotpType
  <2>4. ASSUME NEW c \in CodeType, Remembers(totp, c) PROVE Remembers(t, c)
    <3>1. c.step \in Nat
      BY DEF CodeType
    <3> HIDE DEF t
    <3> QED
      BY <2>1, <2>2, <2>3, <2>4, <3>1 DEF Remembers
  <2>5. Remembers(t, code)
    <3> HIDE DEF t
    <3> QED
      BY <1>1, <2>2, <2>3 DEF Remembers
  <2> QED
    BY <2>3, <2>4, <2>5
<1>2. CASE ~ IsStep(code)
  <2>1. t = [totp EXCEPT !.recovery = totp.recovery \ {code.recovery}]
    BY <1>2 DEF Consume, TotpType
  <2>2. /\ t \in TotpType /\ t.secret = totp.secret /\ t.active = totp.active
        /\ t.lastStep = totp.lastStep /\ t.recovery = totp.recovery \ {code.recovery}
    BY <2>1 DEF TotpType
  <2>3. Remembers(t, code) /\ \A c \in CodeType : Remembers(totp, c) => Remembers(t, c)
    <3> HIDE DEF t
    <3> QED
      BY <1>2, <2>2 DEF Remembers
  <2> QED
    BY <2>2, <2>3
<1> QED
  BY <1>1, <1>2

(* A confirmation's code: it is not a recovery code, and no recovery code  *)
(* of this secret was used, for the secret was not active.                 *)
Confirmed(totp, code) == [Consume(totp, code) EXCEPT !.active = TRUE, !.pendingUntil = 0,
                                                     !.recovery = RecoveryCodes]

LEMMA ConfirmRemembers ==
  ASSUME NEW totp \in TotpType, NEW code \in CodeType, Accepts(totp, code, FALSE), ~ totp.active,
         NEW t, t = Confirmed(totp, code)
  PROVE  /\ t \in TotpType /\ t.secret = totp.secret /\ t.active
         /\ Remembers(t, code)
         /\ \A c \in CodeType : Remembers(totp, c) => Remembers(t, c)
<1>1. IsStep(code) /\ code.step > totp.lastStep
  BY DEF Accepts
<1>2. Consume(totp, code) = [totp EXCEPT !.lastStep = code.step]
  BY <1>1 DEF Consume
<1>3. totp.lastStep \in Int /\ code.step \in Nat /\ code.step \in Int
  BY DEF TotpType, CodeType
<1>4. /\ t \in TotpType /\ t.secret = totp.secret /\ t.active
      /\ t.lastStep = code.step
  BY <1>2, <1>3 DEF TotpType, Confirmed
<1>5. ASSUME NEW c \in CodeType, Remembers(totp, c) PROVE Remembers(t, c)
  <2>1. c.step \in Nat
    BY DEF CodeType
  <2> QED
    BY <1>1, <1>3, <1>4, <1>5, <2>1 DEF Remembers
<1>6. Remembers(t, code)
  BY <1>1, <1>3, <1>4 DEF Remembers
<1> QED
  BY <1>4, <1>5, <1>6

-----------------------------------------------------------------------------
(* The actions *)

LEMMA InitInv == Init => IInv
<1> SUFFICES ASSUME Init PROVE IInv
  OBVIOUS
<1>1. \A u \in Users : /\ account[u] \in RowType /\ account[u].totp = NoTotp
                       /\ account[u].active => account[u].exists
  <2>1. Missing \in RowType /\ Missing.totp = NoTotp /\ ~ Missing.active
    BY NoTotpType DEF Missing, RowType
  <2>2. ASSUME NEW b \in BOOLEAN,
               NEW m, m = [Missing EXCEPT !.exists = TRUE, !.active = TRUE, !.password = b]
        PROVE  m \in RowType /\ m.totp = NoTotp /\ m.exists
    BY <2>1, <2>2 DEF RowType
  <2>3. (mode = "local") \in BOOLEAN
    OBVIOUS
  <2> QED
    BY <2>1, <2>2, <2>3 DEF Init
<1>2. account \in [Users -> RowType] /\ accepted \in Seq(CodeType) /\ Len(accepted) = 0
  BY <1>1 DEF Init
<1>3. TypeInv
  BY <1>2, IdleType DEF Init, TypeInv
<1>4. SecretsInv /\ UsedInv /\ CodesOnce /\ AccountInv /\ SessionInv
  BY <1>1, <1>2, NoTotpType DEF Init, SecretsInv, UsedInv, CodesOnce, AccountInv, SessionInv,
                                SessionsMatchFactor, NoSessionOfSuspended
<1>5. SlotInv /\ RequestsInv
  BY IdleType DEF Init, SlotInv, SlotNotLeaked, RequestsInv, InsertedInv, AtWork
<1> QED
  BY <1>3, <1>4, <1>5 DEF IInv

LEMMA OnlyRequests ==
  ASSUME IInv, UNCHANGED <<now, account, sessions, made, accepted>>,
         SlotInv', RequestsInv',
         slot' \in [Servers -> Requests \cup {None}], req' \in [Requests -> RequestType]
  PROVE  IInv'
<1>1. TypeInv'
  BY DEF IInv, TypeInv
<1>2. (SecretsInv /\ UsedInv /\ CodesOnce /\ AccountInv)'
  BY FactorKept DEF IInv, FactorInv
<1>3. SessionInv'
  BY DEF IInv, SessionInv, SessionsMatchFactor, NoSessionOfSuspended
<1> QED
  BY <1>1, <1>2, <1>3 DEF IInv

(* A step of one request that neither takes nor gives back a slot. *)
LEMMA OnlyRequest ==
  ASSUME IInv, UNCHANGED <<now, account, sessions, made, slot, accepted>>,
         NEW r \in Requests, NEW q \in RequestType,
         req' = [req EXCEPT ![r] = q],
         q.phase \in AtWork <=> req[r].phase \in AtWork,
         q.phase \in AtWork => q.server = req[r].server,
         RequestInv(q),
         q.phase = "inserted" => \A p \in Requests : p # r /\ req[p].phase = "inserted"
                                                        => req[p].user # q.user
  PROVE  IInv'
<1>1. SlotInv'
  BY SlotKept DEF IInv
<1>2. RequestInv(q)'
  BY DEF RequestInv
<1>3. RequestsInv' /\ req' \in [Requests -> RequestType]
  BY <1>2, RequestsKept DEF IInv
<1>4. slot' \in [Servers -> Requests \cup {None}]
  BY DEF IInv, TypeInv
<1> QED
  BY <1>1, <1>3, <1>4, OnlyRequests

(* An answer that changes nothing, with the slot held or not. *)
LEMMA AnsweredInv ==
  ASSUME IInv, UNCHANGED <<now, account, sessions, made, slot, accepted>>,
         NEW r \in Requests, Answered(r), req[r].phase \notin AtWork
  PROVE  IInv'
<1>1. ~ (Idle.phase = "inserted")
  BY IdleType
<1> QED
  BY <1>1, IdleType, OnlyRequest DEF Answered

LEMMA FailInv ==
  ASSUME IInv, NEW r \in Requests, Fail(r)
  PROVE  IInv'
<1>1. SlotInv' /\ slot' \in [Servers -> Requests \cup {None}] /\ req' = [req EXCEPT ![r] = Idle]
  BY SlotFreed DEF IInv, Fail
<1>2. UNCHANGED <<now, account, sessions, made, accepted>>
  BY DEF Fail
<1>3. ~ (Idle.phase = "inserted")
  BY IdleType
<1>4. RequestsInv' /\ req' \in [Requests -> RequestType]
  BY <1>1, <1>2, <1>3, IdleType, RequestsKept DEF IInv
<1> QED
  BY <1>1, <1>2, <1>4, OnlyRequests

LEMMA TakeSlotInv ==
  ASSUME IInv, NEW r \in Requests, TakeSlot(r)
  PROVE  IInv'
<1>1. UNCHANGED <<now, account, sessions, made, accepted>> /\ req[r].phase = "admitted"
      /\ req[r] \in RequestType /\ RequestInv(req[r])
  BY DEF TakeSlot, IInv, TypeInv, RequestsInv
<1>2. CASE slot[req[r].server] = None
  <2> SUFFICES ASSUME NEW q, q = [req[r] EXCEPT !.phase = "working"] PROVE IInv'
    OBVIOUS
  <2>1. q \in RequestType /\ q.phase = "working" /\ q.kind = req[r].kind
        /\ q.server = req[r].server /\ q.user = req[r].user
    BY <1>1 DEF RequestType, AtWork
  <2>2. req' = [req EXCEPT ![r] = q]
    <3>1. req' = [req EXCEPT ![r].phase = "working"]
      BY <1>2 DEF TakeSlot
    <3> QED
      BY <3>1
  <2>3. RequestInv(q)'
    BY <2>1, <1>1 DEF RequestInv
  <2>4. ~ (q.phase = "inserted")
    BY <2>1
  <2>5. RequestsInv' /\ req' \in [Requests -> RequestType]
    BY <1>1, <2>1, <2>2, <2>3, <2>4, RequestsKept DEF IInv
  <2> QED
    BY <1>1, <1>2, <2>5, SlotTaken, OnlyRequests DEF IInv
<1>3. CASE slot[req[r].server] # None
  BY <1>1, <1>3, AnsweredInv DEF TakeSlot, AtWork
<1> QED
  BY <1>2, <1>3

LEMMA LoginArrivesInv ==
  ASSUME IInv, NEW r \in Requests, NEW s \in Servers, LoginArrives(r, s)
  PROVE  IInv'
<1> DEFINE q == [Idle EXCEPT !.phase = "admitted", !.kind = "login", !.server = s]
<1>1. q \in RequestType /\ q.phase = "admitted" /\ q.kind = "login" /\ q.server = s
  BY DEF Idle, RequestType
<1>2. req[r].phase \notin AtWork /\ q.phase \notin AtWork
  BY <1>1 DEF LoginArrives, AtWork
<1>3. req' = [req EXCEPT ![r] = q] /\ UNCHANGED <<now, account, sessions, made, slot, accepted>>
  BY DEF LoginArrives
<1> HIDE DEF q
<1>4. RequestInv(q) /\ ~ (q.phase = "inserted")
  BY <1>1 DEF RequestInv
<1> QED
  BY <1>1, <1>2, <1>3, <1>4, OnlyRequest

LEMMA LoginVerifyInv ==
  ASSUME IInv, NEW r \in Requests, LoginVerify(r)
  PROVE  IInv'
<1>1. PICK u \in Users : req' = [req EXCEPT ![r].phase = "verified", ![r].user = u]
  BY DEF LoginVerify
<1> DEFINE q == [req[r] EXCEPT !.phase = "verified", !.user = u]
<1>2. req[r].phase = "working" /\ req[r] \in RequestType /\ RequestInv(req[r])
      /\ UNCHANGED <<now, account, sessions, made, slot, accepted>>
  BY DEF LoginVerify, IInv, TypeInv, RequestsInv
<1>3. req' = [req EXCEPT ![r] = q]
  BY <1>1, <1>2
<1>4. q \in RequestType /\ q.phase = "verified" /\ q.server = req[r].server /\ q.user = u
  BY <1>2 DEF RequestType, AtWork
<1> HIDE DEF q
<1>5. RequestInv(q) /\ ~ (q.phase = "inserted") /\ q.phase \in AtWork /\ req[r].phase \in AtWork
  BY <1>2, <1>4 DEF RequestInv, AtWork
<1> QED
  BY <1>2, <1>3, <1>4, <1>5, OnlyRequest

LEMMA AuthenticateInv ==
  ASSUME IInv, NEW r \in Requests, NEW s \in Servers, Authenticate(r, s)
  PROVE  IInv'
<1>1. req[r].phase \notin AtWork /\ UNCHANGED <<now, account, sessions, made, slot, accepted>>
  BY DEF Authenticate, AtWork
<1>2. PICK q : /\ req' = [req EXCEPT ![r] = q] /\ q \in RequestType
               /\ q.phase = "authenticated" /\ q.server = s /\ q.user \in Users
  <2>1. ASSUME NEW u \in Users, NEW n \in Nat,
               NEW q, q = [Idle EXCEPT !.phase = "authenticated", !.server = s, !.user = u,
                                       !.session = n]
        PROVE  q \in RequestType /\ q.phase = "authenticated" /\ q.server = s /\ q.user = u
    BY <2>1 DEF Idle, RequestType
  <2>2. ASSUME NEW u \in Users,
               NEW q, q = [Idle EXCEPT !.phase = "authenticated", !.server = s, !.user = u]
        PROVE  q \in RequestType /\ q.phase = "authenticated" /\ q.server = s /\ q.user = u
    BY <2>2 DEF Idle, RequestType
  <2>3. \A x \in sessions : x.user \in Users /\ x.id \in Nat
    BY DEF IInv, TypeInv
  <2>4. CASE mode = "proxy"
    <3>1. PICK u \in Users : req' = [req EXCEPT ![r] = [Idle EXCEPT !.phase = "authenticated",
                                                         !.server = s, !.user = u]]
      BY <2>4 DEF Authenticate
    <3> DEFINE q == [Idle EXCEPT !.phase = "authenticated", !.server = s, !.user = u]
    <3>2. q \in RequestType /\ q.phase = "authenticated" /\ q.server = s /\ q.user = u
      BY <2>2
    <3>3. req' = [req EXCEPT ![r] = q]
      BY <3>1
    <3> HIDE DEF q
    <3> QED
      BY <3>2, <3>3
  <2>5. CASE mode = "local"
    <3>1. PICK x \in sessions :
            req' = [req EXCEPT ![r] = [Idle EXCEPT !.phase = "authenticated", !.server = s,
                                                   !.user = x.user, !.session = x.id]]
      BY <2>5 DEF Authenticate
    <3>2. PICK u \in Users, n \in Nat :
            req' = [req EXCEPT ![r] = [Idle EXCEPT !.phase = "authenticated", !.server = s,
                                                   !.user = u, !.session = n]]
      BY <3>1, <2>3
    <3> DEFINE q == [Idle EXCEPT !.phase = "authenticated", !.server = s, !.user = u,
                                 !.session = n]
    <3>3. q \in RequestType /\ q.phase = "authenticated" /\ q.server = s /\ q.user = u
      BY <2>1
    <3>4. req' = [req EXCEPT ![r] = q]
      BY <3>2
    <3> HIDE DEF q
    <3> QED
      BY <3>3, <3>4
  <2> QED
    BY <2>4, <2>5 DEF Authenticate
<1>3. RequestInv(q) /\ ~ (q.phase = "inserted") /\ q.phase \notin AtWork
  BY <1>2 DEF RequestInv, AtWork
<1> QED
  BY <1>1, <1>2, <1>3, OnlyRequest

LEMMA ForbiddenInv ==
  ASSUME IInv, NEW r \in Requests, Forbidden(r)
  PROVE  IInv'
BY AnsweredInv DEF Forbidden, AtWork

LEMMA AdmittedInv ==
  ASSUME IInv, NEW r \in Requests, NEW kind \in {"enroll", "confirm", "disable", "add"},
         Admitted(r, kind)
  PROVE  IInv'
<1> DEFINE q == [req[r] EXCEPT !.phase = "admitted", !.kind = kind, !.session = 0]
<1>1. req[r].phase = "authenticated" /\ req[r] \in RequestType /\ RequestInv(req[r])
      /\ UNCHANGED <<now, account, sessions, made, slot, accepted>>
  BY DEF Admitted, IInv, TypeInv, RequestsInv
<1>2. req' = [req EXCEPT ![r] = q]
  BY <1>1 DEF Admitted
<1>3. q \in RequestType /\ q.phase = "admitted" /\ q.server = req[r].server /\ q.user = req[r].user
  BY <1>1 DEF RequestType, AtWork
<1> HIDE DEF q
<1>4. RequestInv(q) /\ ~ (q.phase = "inserted") /\ q.phase \notin AtWork
      /\ req[r].phase \notin AtWork
  BY <1>1, <1>3 DEF RequestInv, AtWork
<1> QED
  BY <1>1, <1>2, <1>3, <1>4, OnlyRequest

(* The address of a new member is one that nobody has inserted. *)
LEMMA AddMemberInv ==
  ASSUME IInv, NEW r \in Requests, AddMember(r)
  PROVE  IInv'
<1>1. PICK u \in Users :
        /\ ~ account[u].exists
        /\ \A p \in Requests : ~ (req[p].phase = "inserted" /\ req[p].user = u)
        /\ req' = [req EXCEPT ![r].phase = "inserted", ![r].user = u]
  BY DEF AddMember
<1> DEFINE q == [req[r] EXCEPT !.phase = "inserted", !.user = u]
<1>2. req[r].phase = "working" /\ req[r] \in RequestType /\ RequestInv(req[r])
      /\ UNCHANGED <<now, account, sessions, made, slot, accepted>>
  BY DEF AddMember, IInv, TypeInv, RequestsInv
<1>3. req' = [req EXCEPT ![r] = q]
  BY <1>1, <1>2
<1>4. q \in RequestType /\ q.phase = "inserted" /\ q.server = req[r].server /\ q.user = u
  BY <1>2 DEF RequestType, AtWork
<1> HIDE DEF q
<1>5. RequestInv(q) /\ q.phase \in AtWork /\ req[r].phase \in AtWork
  BY <1>1, <1>2, <1>4 DEF RequestInv, AtWork
<1>6. \A p \in Requests : p # r /\ req[p].phase = "inserted" => req[p].user # q.user
  BY <1>1, <1>4
<1> QED
  BY <1>2, <1>3, <1>4, <1>5, <1>6, OnlyRequest

(* The work is done, whatever it did to the accounts. *)
LEMMA DoneInv ==
  ASSUME IInv, NEW r \in Requests, req[r].phase \in AtWork, Done(r),
         \A p \in Requests : p # r /\ req[p].phase = "inserted"
                                => account'[req[p].user].exists = account[req[p].user].exists
  PROVE  /\ SlotInv' /\ RequestsInv'
         /\ slot' \in [Servers -> Requests \cup {None}] /\ req' \in [Requests -> RequestType]
<1>1. SlotInv' /\ slot' \in [Servers -> Requests \cup {None}] /\ req' = [req EXCEPT ![r] = Idle]
  BY SlotFreed DEF IInv
<1>2. ~ (Idle.phase = "inserted")
  BY IdleType
<1> QED
  BY <1>1, <1>2, IdleType, RequestsKept DEF IInv

SessionType == [id : Nat, user : Users, expires : Nat, factor : Nat]

LEMMA IssuedSession ==
  ASSUME IInv, NEW u \in Users, NEW factor \in Nat, IssueSession(u, factor)
  PROVE  /\ sessions' \subseteq SessionType
         /\ made' \in [secrets : Nat, sessions : Nat] /\ made'.secrets = made.secrets
         /\ \A x \in sessions' : x \in sessions \/ (x.user = u /\ x.factor = factor)
<1>1. made \in [secrets : Nat, sessions : Nat] /\ now + Lifetime \in Nat
      /\ made.sessions + 1 \in Nat
  BY DEF IInv, TypeInv
<1>2. NewSession(u, factor) \in SessionType /\ NewSession(u, factor).user = u
      /\ NewSession(u, factor).factor = factor
  BY <1>1 DEF NewSession, SessionType
<1>3. made' = [made EXCEPT !.sessions = made.sessions + 1]
      /\ sessions' = sessions \cup {NewSession(u, factor)}
  BY DEF IssueSession
<1>4. sessions \subseteq SessionType
  BY DEF IInv, TypeInv, SessionType
<1> QED
  BY <1>1, <1>2, <1>3, <1>4

(* A login with a second factor. *)
LEMMA CheckCodeInv ==
  ASSUME IInv, NEW r \in Requests, CheckSecondFactor(r), account[req[r].user].totp.active
  PROVE  IInv'
<1> DEFINE u == req[r].user
           totp == account[u].totp
<1>1. /\ u \in Users /\ totp \in TotpType /\ account[u].active /\ req[r].phase \in AtWork
      /\ now \in Nat /\ now' = now /\ Done(r)
  BY DEF CheckSecondFactor, IInv, TypeInv, RowType, RequestsInv, RequestInv, AtWork
<1>2. PICK code \in Codes : /\ Accepts(totp, code, TRUE)
                            /\ account' = [account EXCEPT ![u].totp = Consume(totp, code)]
                            /\ accepted' = Append(accepted, code)
                            /\ IssueSession(u, totp.secret)
  BY DEF CheckSecondFactor
<1>3. code \in CodeType
  BY <1>1, <1>2, AcceptedIsNew DEF IInv
<1> SUFFICES ASSUME NEW t, t = Consume(totp, code) PROVE IInv'
  OBVIOUS
<1>4. /\ t \in TotpType /\ t.secret = totp.secret /\ t.active = totp.active
      /\ Remembers(t, code)
      /\ \A c \in CodeType : Remembers(totp, c) => Remembers(t, c)
  BY <1>1, <1>2, <1>3, ConsumeRemembers
<1>5. FactorBecomes(u, t)
  BY <1>2 DEF FactorBecomes
<1>6. /\ account' \in [Users -> RowType]
      /\ \A v \in Users : /\ account'[v].totp = IF v = u THEN t ELSE account[v].totp
                          /\ account'[v].active = account[v].active
                          /\ account'[v].exists = account[v].exists
  <2>1. TypeInv /\ u \in Users /\ t \in TotpType
    BY <1>1, <1>4 DEF IInv
  <2> HIDE DEF u
  <2> QED
    BY <2>1, <1>5, FactorReplaced
<1>7. totp.secret \in Nat
  BY <1>1 DEF TotpType
<1>8. /\ sessions' \subseteq SessionType
      /\ made' \in [secrets : Nat, sessions : Nat] /\ made'.secrets = made.secrets
      /\ \A x \in sessions' : x \in sessions \/ (x.user = u /\ x.factor = totp.secret)
  BY <1>1, <1>2, <1>7, IssuedSession
<1>9. FactorInv' /\ accepted' \in Seq(CodeType)
  <2>1. FactorInv /\ TypeInv
    BY DEF IInv, FactorInv
  <2> HIDE DEF u, totp
  <2> QED
    BY <1>1, <1>2, <1>4, <1>5, <1>8, <2>1, CodeUsed DEF totp
<1>10. SessionInv'
  <2>1. \A v \in Users : account'[v].totp.secret = account[v].totp.secret
                         /\ account'[v].totp.active = account[v].totp.active
    BY <1>4, <1>6
  <2>2. \A x \in sessions' : x.user \in Users
    BY <1>8 DEF SessionType
  <2>3. ASSUME NEW x \in sessions' PROVE account'[x.user].active
    BY <1>1, <1>6, <1>8, <2>2 DEF IInv, SessionInv, NoSessionOfSuspended
  <2>4. ASSUME NEW x \in sessions'
        PROVE  x.factor = IF account'[x.user].totp.active THEN account'[x.user].totp.secret ELSE 0
    BY <1>8, <2>1, <2>2 DEF IInv, SessionInv, SessionsMatchFactor
  <2> QED
    BY <2>3, <2>4 DEF SessionInv, SessionsMatchFactor, NoSessionOfSuspended
<1>11. \A p \in Requests : p # r /\ req[p].phase = "inserted"
                              => account'[req[p].user].exists = account[req[p].user].exists
  BY <1>6 DEF IInv, RequestsInv, RequestInv
<1>12. /\ SlotInv' /\ RequestsInv'
       /\ slot' \in [Servers -> Requests \cup {None}] /\ req' \in [Requests -> RequestType]
  BY <1>1, <1>11, DoneInv
<1>13. TypeInv'
  BY <1>1, <1>6, <1>8, <1>9, <1>12 DEF TypeInv, SessionType
<1> QED
  BY <1>9, <1>10, <1>12, <1>13 DEF IInv, FactorInv

(* A login without one. *)
LEMMA CheckNoCodeInv ==
  ASSUME IInv, NEW r \in Requests, CheckSecondFactor(r), ~ account[req[r].user].totp.active
  PROVE  IInv'
<1> DEFINE u == req[r].user
<1>1. /\ u \in Users /\ account[u].active /\ req[r].phase \in AtWork
      /\ now' = now /\ Done(r) /\ IssueSession(u, 0) /\ UNCHANGED <<account, accepted>>
  BY DEF CheckSecondFactor, IInv, RequestsInv, RequestInv, AtWork
<1>2. /\ sessions' \subseteq SessionType
      /\ made' \in [secrets : Nat, sessions : Nat] /\ made'.secrets = made.secrets
      /\ \A x \in sessions' : x \in sessions \/ (x.user = u /\ x.factor = 0)
  BY <1>1, IssuedSession
<1>3. FactorInv'
  BY <1>1, <1>2, FactorKept DEF IInv, FactorInv
<1>4. SessionInv'
  BY <1>1, <1>2 DEF IInv, SessionInv, SessionsMatchFactor, NoSessionOfSuspended
<1>5. /\ SlotInv' /\ RequestsInv'
      /\ slot' \in [Servers -> Requests \cup {None}] /\ req' \in [Requests -> RequestType]
  BY <1>1, DoneInv
<1>6. TypeInv'
  BY <1>1, <1>2, <1>5 DEF IInv, TypeInv, SessionType
<1> QED
  BY <1>3, <1>4, <1>5, <1>6 DEF IInv, FactorInv

(* Enrolment: the secret is new, so no accepted code is one of its codes. *)
LEMMA EnrollInv ==
  ASSUME IInv, NEW r \in Requests, Enroll(r)
  PROVE  IInv'
<1> DEFINE u == req[r].user
           n == made.secrets + 1
<1>1. /\ u \in Users /\ ~ account[u].totp.active /\ req[r].phase \in AtWork
      /\ now' = now /\ Done(r) /\ UNCHANGED <<sessions, accepted>>
  BY DEF Enroll, IInv, RequestsInv, RequestInv, AtWork
<1>2. now \in Nat /\ Pending \in Nat /\ made \in [secrets : Nat, sessions : Nat]
      /\ account \in [Users -> RowType] /\ n \in Nat
  BY DEF IInv, TypeInv
<1>3. made' = [made EXCEPT !.secrets = n]
  BY DEF Enroll
<1> SUFFICES ASSUME NEW t, t = [NoTotp EXCEPT !.secret = n, !.pendingUntil = now + Pending]
             PROVE  IInv'
  OBVIOUS
<1>4. t \in TotpType /\ t.secret = n /\ ~ t.active
  <2>1. now + Pending \in Nat
    BY <1>2
  <2> HIDE DEF n
  <2> QED
    BY <1>2, <2>1, NoTotpType DEF TotpType
<1>5. FactorBecomes(u, t)
  BY DEF Enroll, FactorBecomes
<1>6. /\ account' \in [Users -> RowType]
      /\ \A v \in Users : /\ account'[v].totp = IF v = u THEN t ELSE account[v].totp
                          /\ account'[v].active = account[v].active
                          /\ account'[v].exists = account[v].exists
  BY <1>1, <1>4, <1>5, FactorReplaced DEF IInv
<1>7. made' \in [secrets : Nat, sessions : Nat] /\ made'.secrets = n
  BY <1>2, <1>3
<1>8. \A v \in Users : account[v].totp.secret \in Nat /\ account[v].totp.secret <= made.secrets
  BY <1>2 DEF IInv, SecretsInv, RowType, TotpType
<1>9. SecretsInv'
  <2>1. ASSUME NEW v \in Users PROVE account'[v].totp.secret <= n
    <3>1. CASE v = u
      <4>1. account'[v].totp.secret = n
        BY <3>1, <1>4, <1>6
      <4> QED
        BY <4>1, <1>2
    <3>2. CASE v # u
      <4>1. account'[v].totp = account[v].totp
        BY <3>2, <1>6
      <4> QED
        BY <4>1, <1>2, <1>8
    <3> QED
      BY <3>1, <3>2
  <2>2. \A v \in Users : v # u => account'[v].totp.secret # n /\ account'[v].totp = account[v].totp
    BY <1>2, <1>6, <1>8
  <2>3. account'[u].totp.secret = n
    BY <1>1, <1>4, <1>6
  <2> HIDE DEF n
  <2> QED
    BY <1>7, <2>1, <2>2, <2>3 DEF IInv, SecretsInv
<1>10. UsedInv'
  <2> SUFFICES ASSUME NEW k \in 1..Len(accepted), NEW v \in Users
               PROVE  /\ accepted[k].secret \in 1..n
                      /\ Remembers(account'[v].totp, accepted[k])
    BY <1>1, <1>7 DEF UsedInv
  <2>1. accepted[k].secret \in 1..made.secrets /\ Remembers(account[v].totp, accepted[k])
    BY DEF IInv, UsedInv
  <2>2. accepted[k].secret \in 1..n /\ accepted[k].secret # n
    BY <1>2, <2>1
  <2>3. CASE v = u
    BY <2>2, <2>3, <1>4, <1>6 DEF Remembers
  <2>4. CASE v # u
    <3>1. account'[v].totp = account[v].totp
      BY <2>4, <1>6
    <3> QED
      BY <3>1, <2>1, <2>2
  <2> QED
    BY <2>2, <2>3, <2>4
<1>11. CodesOnce' /\ AccountInv'
  BY <1>1, <1>6 DEF IInv, CodesOnce, AccountInv
<1>12. SessionInv'
  <2>1. \A x \in sessions : x.user \in Users
    BY DEF IInv, TypeInv
  <2>2. \A v \in Users : /\ account'[v].active = account[v].active
                         /\ v = u => ~ account'[v].totp.active /\ ~ account[v].totp.active
                         /\ v # u => account'[v].totp = account[v].totp
    BY <1>1, <1>4, <1>6
  <2> QED
    BY <1>1, <2>1, <2>2 DEF IInv, SessionInv, SessionsMatchFactor, NoSessionOfSuspended
<1>13. \A p \in Requests : p # r /\ req[p].phase = "inserted"
                              => account'[req[p].user].exists = account[req[p].user].exists
  BY <1>6 DEF IInv, RequestsInv, RequestInv
<1>14. /\ SlotInv' /\ RequestsInv'
       /\ slot' \in [Servers -> Requests \cup {None}] /\ req' \in [Requests -> RequestType]
  BY <1>1, <1>13, DoneInv
<1>15. TypeInv'
  BY <1>1, <1>6, <1>7, <1>14 DEF IInv, TypeInv
<1> QED
  BY <1>9, <1>10, <1>11, <1>12, <1>14, <1>15 DEF IInv

(* Confirm and Disable: one code is used and every session of the account  *)
(* ends, so none can be of the former state.                               *)
LEMMA FactorSwitched ==
  ASSUME IInv, NEW r \in Requests, NEW u \in Users, NEW t \in TotpType, NEW code \in Codes,
         NEW allowed \in BOOLEAN,
         req[r].phase \in AtWork, Done(r), UNCHANGED <<now, made>>,
         Accepts(account[u].totp, code, allowed),
         FactorBecomes(u, t), accepted' = Append(accepted, code),
         sessions' = {x \in sessions : x.user # u},
         t.secret \in {0, account[u].totp.secret},
         Remembers(t, code),
         \A c \in CodeType : Remembers(account[u].totp, c) /\ c.secret # 0 => Remembers(t, c)
  PROVE  IInv'
<1>1. /\ account' \in [Users -> RowType]
      /\ \A v \in Users : /\ account'[v].totp = IF v = u THEN t ELSE account[v].totp
                          /\ account'[v].active = account[v].active
                          /\ account'[v].exists = account[v].exists
  BY FactorReplaced DEF IInv
<1>2. FactorInv' /\ accepted' \in Seq(CodeType)
  <2>1. TypeInv /\ FactorInv
    BY DEF IInv, FactorInv
  <2> QED
    BY <2>1, CodeUsed
<1>3. SessionInv'
  <2>1. \A x \in sessions' : x \in sessions /\ x.user \in Users /\ x.user # u
    BY DEF IInv, TypeInv
  <2> QED
    BY <1>1, <2>1 DEF IInv, SessionInv, SessionsMatchFactor, NoSessionOfSuspended
<1>4. \A p \in Requests : p # r /\ req[p].phase = "inserted"
                              => account'[req[p].user].exists = account[req[p].user].exists
  BY <1>1 DEF IInv, RequestsInv, RequestInv
<1>5. /\ SlotInv' /\ RequestsInv'
      /\ slot' \in [Servers -> Requests \cup {None}] /\ req' \in [Requests -> RequestType]
  BY <1>4, DoneInv
<1>6. TypeInv'
  BY <1>1, <1>2, <1>5 DEF IInv, TypeInv
<1> QED
  BY <1>2, <1>3, <1>5, <1>6 DEF IInv, FactorInv

LEMMA ConfirmInv ==
  ASSUME IInv, NEW r \in Requests, Confirm(r)
  PROVE  IInv'
<1> DEFINE u == req[r].user
           totp == account[u].totp
<1>1. /\ u \in Users /\ totp \in TotpType /\ ~ totp.active /\ req[r].phase \in AtWork
      /\ UNCHANGED <<now, made>> /\ Done(r) /\ sessions' = {x \in sessions : x.user # u}
  BY DEF Confirm, IInv, TypeInv, RowType, RequestsInv, RequestInv, AtWork
<1>2. PICK code \in Codes :
        /\ Accepts(totp, code, FALSE)
        /\ FactorBecomes(u, Confirmed(totp, code))
        /\ accepted' = Append(accepted, code)
  BY DEF Confirm, Confirmed, FactorBecomes
<1>3. code \in CodeType
  BY <1>1, <1>2, AcceptedIsNew DEF IInv
<1> SUFFICES ASSUME NEW t, t = Confirmed(totp, code) PROVE IInv'
  OBVIOUS
<1>4. /\ t \in TotpType /\ t.secret = totp.secret /\ Remembers(t, code)
      /\ \A c \in CodeType : Remembers(totp, c) => Remembers(t, c)
  <2> HIDE DEF u, totp
  <2> QED
    BY <1>1, <1>2, <1>3, ConfirmRemembers
<1>5. FactorBecomes(u, t)
  BY <1>2
<1> QED
  BY <1>1, <1>2, <1>4, <1>5, FactorSwitched

LEMMA DisableInv ==
  ASSUME IInv, NEW r \in Requests, Disable(r)
  PROVE  IInv'
<1> DEFINE u == req[r].user
<1>1. /\ u \in Users /\ req[r].phase \in AtWork
      /\ UNCHANGED <<now, made>> /\ Done(r) /\ sessions' = {x \in sessions : x.user # u}
      /\ FactorBecomes(u, NoTotp)
  BY DEF Disable, IInv, RequestsInv, RequestInv, AtWork, FactorBecomes
<1>2. PICK code \in Codes : /\ Accepts(account[u].totp, code, TRUE)
                            /\ accepted' = Append(accepted, code)
  BY DEF Disable
<1>3. code.secret # 0
  <2>1. code.secret \in 1..made.secrets
    BY <1>1, <1>2, AcceptedIsNew DEF IInv
  <2> QED
    BY <2>1 DEF IInv, TypeInv
<1>4. \A c : c.secret # 0 => Remembers(NoTotp, c)
  BY NoTotpType DEF Remembers
<1> QED
  BY <1>1, <1>2, <1>3, <1>4, NoTotpType, FactorSwitched

LEMMA LogoutInv ==
  ASSUME IInv, NEW r \in Requests, Logout(r)
  PROVE  IInv'
<1>1. /\ UNCHANGED <<now, account, made, slot, accepted>> /\ sessions' \subseteq sessions
      /\ req' = [req EXCEPT ![r] = Idle] /\ req[r].phase \notin AtWork
  BY DEF Logout, Answered, AtWork
<1>2. ~ (Idle.phase = "inserted")
  BY IdleType
<1>3. SlotInv'
  BY <1>1, IdleType, SlotKept DEF IInv
<1>4. RequestsInv' /\ req' \in [Requests -> RequestType]
  BY <1>1, <1>2, IdleType, RequestsKept DEF IInv
<1>5. FactorInv'
  BY <1>1, FactorKept DEF IInv, FactorInv
<1>6. SessionInv'
  BY <1>1 DEF IInv, SessionInv, SessionsMatchFactor, NoSessionOfSuspended
<1>7. TypeInv'
  BY <1>1, <1>4 DEF IInv, TypeInv
<1> QED
  BY <1>3, <1>4, <1>5, <1>6, <1>7 DEF IInv, FactorInv

(* The new row: there was none, so there is no session and no inserted row *)
(* of the same member.                                                     *)
LEMMA AddCommitInv ==
  ASSUME IInv, NEW r \in Requests, AddCommit(r)
  PROVE  IInv'
<1> DEFINE u == req[r].user
<1>1. /\ u \in Users /\ ~ account[u].exists /\ req[r].phase \in AtWork
      /\ UNCHANGED <<now, sessions, made, accepted>> /\ Done(r)
  BY DEF AddCommit, IInv, RequestsInv, RequestInv, AtWork
<1> SUFFICES ASSUME NEW w, w = [Missing EXCEPT !.exists = TRUE, !.active = TRUE, !.password = TRUE]
             PROVE  IInv'
  OBVIOUS
<1>2. w \in RowType /\ w.totp = NoTotp /\ w.exists /\ w.active
  <2>1. Missing \in RowType /\ Missing.totp = NoTotp
    BY NoTotpType DEF Missing, RowType
  <2> QED
    BY <2>1 DEF RowType
<1>3. account \in [Users -> RowType] /\ account' = [account EXCEPT ![u] = w]
  BY DEF IInv, TypeInv, AddCommit
<1>4. account' \in [Users -> RowType] /\ \A v \in Users : account'[v] = IF v = u THEN w ELSE account[v]
  BY <1>1, <1>2, <1>3
<1>5. \A v \in Users : v # u => account'[v] = account[v]
  BY <1>4
<1>6. account'[u].totp = NoTotp /\ account'[u].exists
  BY <1>1, <1>2, <1>4
<1>7. SecretsInv'
  <2>1. made.secrets \in Nat /\ made' = made
    BY <1>1 DEF IInv, TypeInv
  <2> QED
    BY <1>5, <1>6, <2>1, NoTotpType DEF IInv, SecretsInv
<1>8. UsedInv'
  <2> SUFFICES ASSUME NEW k \in 1..Len(accepted), NEW v \in Users
               PROVE  Remembers(account'[v].totp, accepted[k])
    BY <1>1 DEF IInv, UsedInv
  <2>1. accepted[k].secret \in 1..made.secrets /\ Remembers(account[v].totp, accepted[k])
    BY DEF IInv, UsedInv
  <2>2. accepted[k].secret # 0
    BY <2>1 DEF IInv, TypeInv
  <2>3. CASE v = u
    BY <2>2, <2>3, <1>6, NoTotpType DEF Remembers
  <2>4. CASE v # u
    BY <2>1, <2>4, <1>5
  <2> QED
    BY <2>3, <2>4
<1>9. CodesOnce' /\ AccountInv'
  BY <1>1, <1>5, <1>6 DEF IInv, CodesOnce, AccountInv
<1>10. SessionInv'
  <2>1. \A x \in sessions : x.user \in Users /\ x.user # u
    BY <1>1 DEF IInv, TypeInv, AccountInv, SessionInv, NoSessionOfSuspended
  <2> QED
    BY <1>1, <1>5, <2>1 DEF IInv, SessionInv, SessionsMatchFactor, NoSessionOfSuspended
<1>11. \A p \in Requests : p # r /\ req[p].phase = "inserted"
                              => account'[req[p].user].exists = account[req[p].user].exists
  <2>1. \A p \in Requests : p # r /\ req[p].phase = "inserted" => req[p].user \in Users
                                                                  /\ req[p].user # u
    BY DEF AddCommit, IInv, RequestsInv, InsertedInv, RequestInv
  <2> QED
    BY <2>1, <1>5
<1>12. /\ SlotInv' /\ RequestsInv'
       /\ slot' \in [Servers -> Requests \cup {None}] /\ req' \in [Requests -> RequestType]
  BY <1>1, <1>11, DoneInv
<1>13. TypeInv'
  BY <1>1, <1>4, <1>12 DEF IInv, TypeInv
<1> QED
  BY <1>7, <1>8, <1>9, <1>10, <1>12, <1>13 DEF IInv

LEMMA SetAccountActiveInv ==
  ASSUME IInv, NEW u \in Users, NEW active \in BOOLEAN, SetAccountActive(u, active)
  PROVE  IInv'
<1>1. /\ UNCHANGED <<now, made, slot, req, accepted>> /\ account[u].exists
      /\ sessions' = {x \in sessions : x.user # u}
  BY DEF SetAccountActive
<1>2. account \in [Users -> RowType]
  BY DEF IInv, TypeInv
<1> SUFFICES ASSUME NEW w, w = [account[u] EXCEPT !.active = active] PROVE IInv'
  OBVIOUS
<1>3. w \in RowType /\ w.totp = account[u].totp /\ w.exists = account[u].exists
  BY <1>2 DEF RowType
<1>4. account' = [account EXCEPT ![u] = w]
  BY DEF SetAccountActive
<1>5. /\ account' \in [Users -> RowType]
      /\ \A v \in Users : /\ account'[v].totp = account[v].totp
                          /\ account'[v].exists = account[v].exists
                          /\ v # u => account'[v] = account[v]
  BY <1>2, <1>3, <1>4
<1>6. SecretsInv' /\ UsedInv' /\ CodesOnce'
  BY <1>1, <1>5 DEF IInv, SecretsInv, UsedInv, CodesOnce
<1>7. AccountInv'
  BY <1>1, <1>5 DEF IInv, AccountInv
<1>8. SessionInv'
  <2>1. \A x \in sessions' : x \in sessions /\ x.user \in Users /\ x.user # u
    BY <1>1 DEF IInv, TypeInv
  <2> QED
    BY <1>5, <2>1 DEF IInv, SessionInv, SessionsMatchFactor, NoSessionOfSuspended
<1>9. SlotInv' /\ RequestsInv'
  BY <1>1, <1>5 DEF IInv, SlotInv, SlotNotLeaked, RequestsInv, RequestInv, InsertedInv
<1>10. TypeInv'
  BY <1>1, <1>5 DEF IInv, TypeInv
<1> QED
  BY <1>6, <1>7, <1>8, <1>9, <1>10 DEF IInv

LEMMA TickInv == ASSUME IInv, Tick PROVE IInv'
<1>1. UNCHANGED <<account, sessions, made, slot, req, accepted>> /\ now' \in Nat
  BY DEF Tick, IInv, TypeInv
<1>2. TypeInv'
  BY <1>1 DEF IInv, TypeInv
<1>3. SecretsInv' /\ UsedInv' /\ CodesOnce' /\ AccountInv'
  BY <1>1 DEF IInv, SecretsInv, UsedInv, CodesOnce, AccountInv
<1>4. SessionInv' /\ SlotInv'
  BY <1>1 DEF IInv, SessionInv, SessionsMatchFactor, NoSessionOfSuspended, SlotInv, SlotNotLeaked
<1>5. RequestsInv'
  BY <1>1 DEF IInv, RequestsInv, RequestInv, InsertedInv
<1> QED
  BY <1>2, <1>3, <1>4, <1>5 DEF IInv

-----------------------------------------------------------------------------
LEMMA WorkInv ==
  ASSUME IInv, NEW r \in Requests, Work(r)
  PROVE  IInv'
<1>1. CASE TakeSlot(r) \/ Fail(r) \/ LoginVerify(r) \/ Forbidden(r)
  BY <1>1, TakeSlotInv, FailInv, LoginVerifyInv, ForbiddenInv
<1>2. CASE CheckSecondFactor(r)
  BY <1>2, CheckCodeInv, CheckNoCodeInv
<1>3. CASE TotpArrives(r) \/ AddArrives(r)
  BY <1>3, AdmittedInv DEF TotpArrives, AddArrives
<1>4. CASE Enroll(r) \/ Confirm(r) \/ Disable(r) \/ Logout(r)
  BY <1>4, EnrollInv, ConfirmInv, DisableInv, LogoutInv
<1>5. CASE AddMember(r) \/ AddCommit(r)
  BY <1>5, AddMemberInv, AddCommitInv
<1> QED
  BY <1>1, <1>2, <1>3, <1>4, <1>5 DEF Work

LEMMA NextInv == IInv /\ [Next]_vars => IInv'
<1> SUFFICES ASSUME IInv, [Next]_vars PROVE IInv'
  OBVIOUS
<1>1. ASSUME NEW r \in Requests, Work(r) PROVE IInv'
  BY <1>1, WorkInv
<1>2. ASSUME NEW r \in Requests, NEW s \in Servers, LoginArrives(r, s) \/ Authenticate(r, s)
      PROVE  IInv'
  BY <1>2, LoginArrivesInv, AuthenticateInv
<1>3. ASSUME NEW u \in Users, NEW active \in BOOLEAN, SetAccountActive(u, active) PROVE IInv'
  BY <1>3, SetAccountActiveInv
<1>4. CASE Tick
  BY <1>4, TickInv
<1>5. CASE UNCHANGED vars
  <2>1. UNCHANGED <<now, account, sessions, made, slot, req, accepted>>
    BY <1>5 DEF vars
  <2>2. SlotInv' /\ RequestsInv'
    BY <2>1 DEF IInv, SlotInv, SlotNotLeaked, RequestsInv, RequestInv, InsertedInv
  <2>3. slot' \in [Servers -> Requests \cup {None}] /\ req' \in [Requests -> RequestType]
    BY <2>1 DEF IInv, TypeInv
  <2> QED
    BY <2>1, <2>2, <2>3, OnlyRequests
<1> QED
  BY <1>1, <1>2, <1>3, <1>4, <1>5 DEF Next

LEMMA Invariance == Spec => []IInv
BY InitInv, NextInv, PTL DEF Spec

(* Login, Confirm and Disable of service.go: no one-time code and no       *)
(* recovery code is accepted twice.  Not inductive by itself: it rests on  *)
(* the account that holds a secret remembering every code of it (UsedInv)  *)
(* and on no two accounts and no later enrolment sharing a secret.         *)
THEOREM CodesAcceptedOnce == Spec => []CodesOnce
BY Invariance, PTL DEF IInv

(* Confirm, Disable and checkSecondFactor: every session was opened with   *)
(* the factor its account has now.                                         *)
THEOREM SessionsHaveTheFactor == Spec => []SessionsMatchFactor
<1>1. IInv => SessionsMatchFactor
  BY DEF IInv, SessionInv
<1> QED
  BY <1>1, Invariance, PTL

(* sierx_set_account_active and a login that read the account before:      *)
(* a suspended account, and one that does not exist yet, has no session.   *)
THEOREM SuspendedSignedOut == Spec => []NoSessionOfSuspended
<1>1. IInv => NoSessionOfSuspended
  BY DEF IInv, SessionInv
<1> QED
  BY <1>1, Invariance, PTL

(* The deferred receives of login, totpAllowed's callers and               *)
(* addAdminMember: whoever holds a slot is at work on that server, however *)
(* many servers and requests there are.                                    *)
THEOREM SlotsGivenBack == Spec => []SlotNotLeaked
<1>1. IInv => SlotNotLeaked
  BY DEF IInv, SlotInv
<1> QED
  BY <1>1, Invariance, PTL
=============================================================================
