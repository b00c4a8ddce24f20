------------------------------ MODULE Accounts -------------------------------
(***************************************************************************)
(* Accounts, sessions and one-time codes.                                  *)
(*                                                                         *)
(* Server processes share the database.  Each has in memory one slot for   *)
(* password work and the attempt limit of module Attempts, which here may  *)
(* refuse or admit.  A request passes the limit, takes the slot, reads,    *)
(* and changes the account in one transaction that holds the account's row *)
(* lock from its first statement to its commit; what it read before the    *)
(* lock may be old.  Time counts one-time code periods.  A request's       *)
(* password, code and, once authenticated, handler are chosen where the    *)
(* code looks at them.                                                     *)
(***************************************************************************)
EXTENDS Integers, Sequences, FiniteSets

CONSTANTS Users,         \* accounts, present or still to be added
          Admin,         \* the account that exists from the start
          Servers,       \* server processes
          Requests,      \* requests in flight
          None,
          Pending,       \* periods an enrolment waits (10 minutes in the code)
          Lifetime,      \* periods a session lives (12 hours in the code)
          RecoveryCodes, \* the recovery codes of one secret (8 in the code)
          MaxTime, MaxSecrets, MaxSessions   \* bounds of a behaviour

ASSUME AccountsAssumption ==
    /\ Admin \in Users
    /\ None \notin Users \cup Servers \cup Requests \cup RecoveryCodes
    /\ {Pending, Lifetime} \subseteq Nat \ {0}
    /\ {MaxTime, MaxSecrets, MaxSessions} \subseteq Nat

VARIABLES
    mode,      \* how users sign in: "local" or "proxy"
    now,       \* the current code period
    account,   \* account[u]: the row of user_account
    sessions,  \* the rows of session
    made,      \* how many secrets and session tokens exist
    slot,      \* slot[s]: the request that holds the password-work slot
    req,       \* req[r]: a request
    accepted   \* history: the codes that were accepted, in order

vars == <<mode, now, account, sessions, made, slot, req, accepted>>

(* The encrypted state of the second factor; secret 0 stands for NULL. *)
NoTotp == [secret |-> 0, active |-> FALSE, lastStep |-> -1, pendingUntil |-> 0, recovery |-> {}]

Missing == [exists |-> FALSE, active |-> FALSE, password |-> FALSE, totp |-> NoTotp]

Idle == [phase |-> "idle", kind |-> None, server |-> None, user |-> None, session |-> 0]

Init == /\ mode \in {"local", "proxy"}
        /\ now = 0
        /\ account = [u \in Users |-> IF u = Admin
                          THEN [Missing EXCEPT !.exists = TRUE, !.active = TRUE,
                                               !.password = mode = "local"]
                          ELSE Missing]
        /\ sessions = {}
        /\ made = [secrets |-> 0, sessions |-> 0]
        /\ slot = [s \in Servers |-> None]
        /\ req = [r \in Requests |-> Idle]
        /\ accepted = << >>

-----------------------------------------------------------------------------
(* The slot for password work *)

Answered(r) == req' = [req EXCEPT ![r] = Idle]

(* Mutant: only the answer is sent. *)
DoneHolding(r) == Answered(r) /\ slot' = slot

(* A handler that holds the slot returns: the deferred receive frees it. *)
Done(r) == Answered(r) /\ slot' = [slot EXCEPT ![req[r].server] = None]

(* The slot is not queued for: a busy one answers 429. *)
TakeSlot(r) ==
    LET s == req[r].server IN
    /\ req[r].phase = "admitted"
    /\ IF slot[s] = None
       THEN /\ slot' = [slot EXCEPT ![s] = r]
            /\ req' = [req EXCEPT ![r].phase = "working"]
       ELSE Answered(r) /\ UNCHANGED slot
    /\ UNCHANGED <<mode, now, account, sessions, made, accepted>>

AtWork == {"working", "verified", "inserted"}

(* A body that does not decode, a wrong password or a database error, with *)
(* the slot held: nothing is changed.                                      *)
Fail(r) ==
    /\ req[r].phase \in AtWork
    /\ Done(r)
    /\ UNCHANGED <<mode, now, account, sessions, made, accepted>>

-----------------------------------------------------------------------------
(* One-time codes.  The codes of two periods or two secrets are taken to   *)
(* differ.                                                                 *)

Codes == [secret : 1..made.secrets, step : 0..(MaxTime + 1), recovery : {None}]
         \cup [secret : 1..made.secrets, step : {0}, recovery : RecoveryCodes]

IsStep(code) == code.recovery = None

(* Mutant: a code of the last accepted period is accepted again. *)
AcceptsAgain(totp, code, allowRecovery) ==
    /\ code.secret = totp.secret
    /\ IF IsStep(code) THEN code.step \in (now - 1)..(now + 1) /\ code.step >= totp.lastStep
       ELSE allowRecovery /\ code.recovery \in totp.recovery

(* consumeCode: a period next to the current one and later than the last   *)
(* accepted, or a recovery code that is still there.                       *)
Accepts(totp, code, allowRecovery) ==
    /\ code.secret = totp.secret
    /\ IF IsStep(code) THEN code.step \in (now - 1)..(now + 1) /\ code.step > totp.lastStep
       ELSE allowRecovery /\ code.recovery \in totp.recovery

Consume(totp, code) ==
    IF IsStep(code) THEN [totp EXCEPT !.lastStep = code.step]
    ELSE [totp EXCEPT !.recovery = @ \ {code.recovery}]

-----------------------------------------------------------------------------
(* Login *)

(* login, admitted by the attempt limit; a limited one changes nothing. *)
LoginArrives(r, s) ==
    /\ req[r].phase = "idle"
    /\ mode = "local"
    /\ req' = [req EXCEPT ![r] = [Idle EXCEPT !.phase = "admitted", !.kind = "login", !.server = s]]
    /\ UNCHANGED <<mode, now, account, sessions, made, slot, accepted>>

(* Login reads the account and verifies the password, without a lock. *)
LoginVerify(r) ==
    /\ req[r].phase = "working"
    /\ req[r].kind = "login"
    /\ \E u \in Users :
        /\ account[u].active
        /\ account[u].password
        /\ req' = [req EXCEPT ![r].phase = "verified", ![r].user = u]
    /\ UNCHANGED <<mode, now, account, sessions, made, slot, accepted>>

NewSession(u, factor) == [id |-> made.sessions + 1, user |-> u, expires |-> now + Lifetime,
                          factor |-> factor]

(* sierx_create_session *)
IssueSession(u, factor) ==
    /\ made.sessions < MaxSessions
    /\ sessions' = sessions \cup {NewSession(u, factor)}
    /\ made' = [made EXCEPT !.sessions = @ + 1]

(* Mutant: what was read before the lock decides that the account is active. *)
CheckSecondFactorStale(r) ==
    LET u == req[r].user
        totp == account[u].totp
    IN /\ req[r].phase = "verified"
       /\ IF totp.active
          THEN \E code \in Codes :
                 /\ Accepts(totp, code, TRUE)
                 /\ account' = [account EXCEPT ![u].totp = Consume(totp, code)]
                 /\ accepted' = Append(accepted, code)
                 /\ IssueSession(u, totp.secret)
          ELSE IssueSession(u, 0) /\ UNCHANGED <<account, accepted>>
       /\ Done(r)
       /\ UNCHANGED <<mode, now>>

(* checkSecondFactor: one transaction on the locked row of an active       *)
(* account.                                                                *)
CheckSecondFactor(r) ==
    LET u == req[r].user
        totp == account[u].totp
    IN /\ req[r].phase = "verified"
       /\ account[u].active
       /\ IF totp.active
          THEN \E code \in Codes :
                 /\ Accepts(totp, code, TRUE)
                 /\ account' = [account EXCEPT ![u].totp = Consume(totp, code)]
                 /\ accepted' = Append(accepted, code)
                 /\ IssueSession(u, totp.secret)
          ELSE IssueSession(u, 0) /\ UNCHANGED <<account, accepted>>
       /\ Done(r)
       /\ UNCHANGED <<mode, now>>

-----------------------------------------------------------------------------
(* Authenticated requests *)

(* Session: an unexpired session of an active account. *)
ValidSession(x) == x.expires > now /\ account[x.user].active

(* requireAuth by cookie, or by the header of a trusted proxy, which names *)
(* an account without a password.                                          *)
Authenticate(r, s) ==
    /\ req[r].phase = "idle"
    /\ \/ /\ mode = "local"
          /\ \E x \in sessions :
               /\ ValidSession(x)
               /\ req' = [req EXCEPT ![r] = [Idle EXCEPT !.phase = "authenticated",
                             !.server = s, !.user = x.user, !.session = x.id]]
       \/ /\ mode = "proxy"
          /\ \E u \in Users :
               /\ account[u].active
               /\ ~ account[u].password
               /\ req' = [req EXCEPT ![r] = [Idle EXCEPT !.phase = "authenticated",
                             !.server = s, !.user = u]]
    /\ UNCHANGED <<mode, now, account, sessions, made, slot, accepted>>

(* What only local sign-in offers, what only an administrator may do, and  *)
(* what the attempt limit refuses.                                         *)
Forbidden(r) ==
    /\ req[r].phase = "authenticated"
    /\ Answered(r)
    /\ UNCHANGED <<mode, now, account, sessions, made, slot, accepted>>

Admitted(r, kind) ==
    /\ req[r].phase = "authenticated"
    /\ mode = "local"
    /\ req' = [req EXCEPT ![r].phase = "admitted", ![r].kind = kind, ![r].session = 0]
    /\ UNCHANGED <<mode, now, account, sessions, made, slot, accepted>>

(* totpAllowed, up to the slot, of one of the three handlers. *)
TotpArrives(r) == \E kind \in {"enroll", "confirm", "disable"} : Admitted(r, kind)

(* Enroll: password verified on the locked row, a fresh secret. *)
Enroll(r) ==
    LET u == req[r].user IN
    /\ req[r].phase = "working"
    /\ req[r].kind = "enroll"
    /\ account[u].active
    /\ account[u].password
    /\ ~ account[u].totp.active
    /\ made.secrets < MaxSecrets
    /\ account' = [account EXCEPT ![u].totp =
                      [NoTotp EXCEPT !.secret = made.secrets + 1, !.pendingUntil = now + Pending]]
    /\ made' = [made EXCEPT !.secrets = @ + 1]
    /\ Done(r)
    /\ UNCHANGED <<mode, now, sessions, accepted>>

(* Mutant: who was signed in stays signed in. *)
ConfirmKeeping(r) ==
    LET u == req[r].user
        totp == account[u].totp
    IN /\ req[r].phase = "working"
       /\ req[r].kind = "confirm"
       /\ account[u].active
       /\ totp.secret # 0
       /\ ~ totp.active
       /\ totp.pendingUntil >= now
       /\ \E code \in Codes :
            /\ Accepts(totp, code, FALSE)
            /\ account' = [account EXCEPT ![u].totp =
                              [Consume(totp, code) EXCEPT !.active = TRUE, !.pendingUntil = 0,
                                                          !.recovery = RecoveryCodes]]
            /\ accepted' = Append(accepted, code)
       /\ Done(r)
       /\ UNCHANGED <<mode, now, sessions, made>>

(* Confirm: the pending secret becomes active, every session ends. *)
Confirm(r) ==
    LET u == req[r].user
        totp == account[u].totp
    IN /\ req[r].phase = "working"
       /\ req[r].kind = "confirm"
       /\ account[u].active
       /\ totp.secret # 0
       /\ ~ totp.active
       /\ totp.pendingUntil >= now
       /\ \E code \in Codes :
            /\ Accepts(totp, code, FALSE)
            /\ account' = [account EXCEPT ![u].totp =
                              [Consume(totp, code) EXCEPT !.active = TRUE, !.pendingUntil = 0,
                                                          !.recovery = RecoveryCodes]]
            /\ accepted' = Append(accepted, code)
       /\ sessions' = {x \in sessions : x.user # u}
       /\ Done(r)
       /\ UNCHANGED <<mode, now, made>>

(* Disable: password and code, then every session ends. *)
Disable(r) ==
    LET u == req[r].user
        totp == account[u].totp
    IN /\ req[r].phase = "working"
       /\ req[r].kind = "disable"
       /\ account[u].active
       /\ account[u].password
       /\ totp.active
       /\ \E code \in Codes :
            /\ Accepts(totp, code, TRUE)
            /\ accepted' = Append(accepted, code)
       /\ account' = [account EXCEPT ![u].totp = NoTotp]
       /\ sessions' = {x \in sessions : x.user # u}
       /\ Done(r)
       /\ UNCHANGED <<mode, now, made>>

(* Logout *)
Logout(r) ==
    /\ req[r].phase = "authenticated"
    /\ mode = "local"
    /\ sessions' = {x \in sessions : x.id # req[r].session}
    /\ Answered(r)
    /\ UNCHANGED <<mode, now, account, made, slot, accepted>>

(* addAdminMember, up to the slot: the role is the one authentication read. *)
AddArrives(r) == req[r].user = Admin /\ Admitted(r, "add")

(* sierx_admin_add_member in the request's transaction: an administrator   *)
(* who is still active, an address nobody has or is about to have.  The    *)
(* request now stands for the new row.                                     *)
AddMember(r) ==
    /\ req[r].phase = "working"
    /\ req[r].kind = "add"
    /\ account[req[r].user].active
    /\ \E u \in Users :
        /\ ~ account[u].exists
        /\ \A q \in Requests : ~ (req[q].phase = "inserted" /\ req[q].user = u)
        /\ req' = [req EXCEPT ![r].phase = "inserted", ![r].user = u]
    /\ UNCHANGED <<mode, now, account, sessions, made, slot, accepted>>

(* The commit before the answer, whatever became of the administrator. *)
AddCommit(r) ==
    /\ req[r].phase = "inserted"
    /\ account' = [account EXCEPT ![req[r].user] =
                      [Missing EXCEPT !.exists = TRUE, !.active = TRUE, !.password = TRUE]]
    /\ Done(r)
    /\ UNCHANGED <<mode, now, sessions, made, accepted>>

-----------------------------------------------------------------------------
(* The operator and the clock *)

(* sierx_set_account_active: suspend or reactivate, one transaction. *)
SetAccountActive(u, active) ==
    /\ account[u].exists
    /\ account' = [account EXCEPT ![u].active = active]
    /\ sessions' = {x \in sessions : x.user # u}
    /\ UNCHANGED <<mode, now, made, slot, req, accepted>>

Tick == /\ now < MaxTime
        /\ now' = now + 1
        /\ UNCHANGED <<mode, account, sessions, made, slot, req, accepted>>

Work(r) == \/ TakeSlot(r) \/ Fail(r) \/ LoginVerify(r) \/ CheckSecondFactor(r)
           \/ Forbidden(r) \/ TotpArrives(r) \/ Enroll(r) \/ Confirm(r) \/ Disable(r)
           \/ Logout(r) \/ AddArrives(r) \/ AddMember(r) \/ AddCommit(r)

Next == \/ \E r \in Requests : Work(r) \/ \E s \in Servers : LoginArrives(r, s) \/ Authenticate(r, s)
        \/ \E u \in Users, active \in BOOLEAN : SetAccountActive(u, active)
        \/ Tick

Spec == Init /\ [][Next]_vars

-----------------------------------------------------------------------------
(* Properties *)

(* DECISIONS.md:960 "TOTP step replay and recovery reuse are prevented     *)
(* under a database row lock": over logins, confirmations and disables in  *)
(* every process, no one-time code and no recovery code is accepted twice. *)
CodesOnce == \A m, n \in 1..Len(accepted) : accepted[m] = accepted[n] => m = n

(* Confirm, Disable, checkSecondFactor: while a second factor is active,   *)
(* every session of the account was opened with a code of that secret;     *)
(* while none is, no session of a former secret is left.                   *)
SessionsMatchFactor ==
    \A x \in sessions :
        LET totp == account[x.user].totp IN
        x.factor = IF totp.active THEN totp.secret ELSE 0

(* 0012_account_lifecycle.sql:78: a suspended account has no session, also *)
(* none that a login which read the account before the suspension makes,   *)
(* and so none that could come to life when it is reactivated.             *)
NoSessionOfSuspended == \A x \in sessions : account[x.user].active

(* login, totpAllowed and its callers, addAdminMember: on every path out   *)
(* of a handler, errors included, the slot for password work is given      *)
(* back: whoever holds it is still at work.                                *)
SlotNotLeaked ==
    \A s \in Servers : slot[s] # None =>
        req[slot[s]].server = s /\ req[slot[s]].phase \in AtWork
=============================================================================
