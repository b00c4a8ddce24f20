------------------------------ MODULE Attempts -------------------------------
(***************************************************************************)
(* The attempt limit of one server process: a table of fixed windows, one  *)
(* per address that tries to log in and one per account that handles its   *)
(* second factor, guarded by a mutex.                                      *)
(***************************************************************************)
EXTENDS Integers, FiniteSets

CONSTANTS Keys,         \* addresses and accounts
          MaxAttempts,  \* admitted attempts in a window (10 in the code)
          Capacity,     \* entries at which nobody is admitted (4096 in the code)
          Window,       \* length of a window (a minute in the code)
          MaxClock      \* bound on the time of a behaviour

ASSUME AttemptsAssumption == /\ {MaxAttempts, Capacity, Window} \subseteq Nat \ {0}
                             /\ MaxClock \in Nat

VARIABLES clock,
          attempts,  \* attempts[k]: the window of key k, count 0 if it has none
          admits     \* history: admits[k][t]: attempts of k admitted at time t

limitVars == <<clock, attempts, admits>>

NoWindow == [start |-> 0, count |-> 0]

InitLimit == /\ clock = 0
             /\ attempts = [k \in Keys |-> NoWindow]
             /\ admits = [k \in Keys |-> [t \in 0..MaxClock |-> 0]]

Entries(table) == {k \in Keys : table[k].count > 0}

(* Mutant: the windows that are over stay in the table. *)
PrunedNever == attempts

(* Every attempt, anyone's, first deletes the windows that are over. *)
Pruned == [k \in Keys |-> IF clock - attempts[k].start >= Window THEN NoWindow ELSE attempts[k]]

(* Mutant: an attempt opens its window anew. *)
CountedAnew(table, k) == [start |-> clock, count |-> 1]

(* The entry of key k with this attempt counted. *)
Counted(table, k) == [start |-> IF k \in Entries(table) THEN table[k].start ELSE clock,
                      count |-> table[k].count + 1]

IsLimited(table, k) == \/ Counted(table, k).count > MaxAttempts
                       \/ Cardinality(Entries(table)) >= Capacity

(* The attempt goes on to its handler. *)
Admit(k) == /\ ~ IsLimited(Pruned, k)
            /\ attempts' = [Pruned EXCEPT ![k] = Counted(Pruned, k)]
            /\ admits' = [admits EXCEPT ![k][clock] = @ + 1]
            /\ UNCHANGED clock

(* 429: the attempt is not stored. *)
Limit(k) == /\ IsLimited(Pruned, k)
            /\ attempts' = Pruned
            /\ UNCHANGED <<clock, admits>>

Pass == /\ clock < MaxClock
        /\ clock' = clock + 1
        /\ UNCHANGED <<attempts, admits>>

NextLimit == Pass \/ \E k \in Keys : Admit(k) \/ Limit(k)

SpecLimit == InitLimit /\ [][NextLimit]_limitVars

-----------------------------------------------------------------------------
(* Properties *)

(* Attempts of key k admitted at times from..to. *)
AdmittedBetween(k, from, to) ==
    LET total[t \in -1..MaxClock] ==
            IF t = -1 THEN 0
            ELSE total[t - 1] + (IF t \in from..to THEN admits[k][t] ELSE 0)
    IN total[MaxClock]

(* auth.go:146, totp.go:30: although the windows are fixed and the refused *)
(* are not counted, fewer than twice the limit are admitted for one key in *)
(* any span of a window's length, and the table stays within its capacity. *)
AttemptsBounded ==
    /\ \A k \in Keys, t \in 0..MaxClock :
           AdmittedBetween(k, t, t + Window - 1) <= 2 * MaxAttempts - 1
    /\ Cardinality(Entries(attempts)) <= Capacity

(* auth.go:137: nobody is locked out by attempts of long ago.  Who has     *)
(* made none for the length of a window is admitted, unless that many      *)
(* others have made one meanwhile.                                         *)
QuietKeysAdmitted ==
    \A k \in Keys :
        LET from == clock - Window + 1
            recent == {j \in Keys : AdmittedBetween(j, from, clock) > 0}
        IN k \notin recent /\ Cardinality(recent) < Capacity => ~ IsLimited(Pruned, k)
=============================================================================
