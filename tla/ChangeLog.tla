----------------------------- MODULE ChangeLog -----------------------------
(***************************************************************************)
(* What the change feed promises (SPEC.md section 5.1, ADR-002): committed *)
(* changes form one append-only log, and a reader that follows it with a   *)
(* since_seq cursor is handed every entry exactly once, in order.  Entries *)
(* of items that may be restricted or deleted can be withheld; the others  *)
(* never are.                                                              *)
(***************************************************************************)
EXTENDS Naturals, Sequences

CONSTANTS Readers,  \* clients following the log
          Changes,  \* what one entry of the log can say
          Withholdable  \* the changes a restriction or a deletion may keep from a reader

VARIABLES log,      \* the committed changes, entry k carrying sequence number k
          pos,      \* pos[r]: the sequence number reader r has reached
          got       \* got[r]: the entries handed to r

vars == <<log, pos, got>>

Init == /\ log = << >>
        /\ pos = [r \in Readers |-> 0]
        /\ got = [r \in Readers |-> {}]

(* A transaction commits: its changes follow everything committed before. *)
Append_ == /\ log' \in Seq(Changes)
           /\ Len(log') > Len(log)
           /\ \A k \in 1..Len(log) : log'[k] = log[k]
           /\ UNCHANGED <<pos, got>>

(* Reader r is handed the next entries up to n, none repeated and none     *)
(* left out but withholdable ones.                                         *)
Deliver(r) ==
    \E n \in (pos[r] + 1)..Len(log) :
    \E withheld \in SUBSET {k \in (pos[r] + 1)..n : log[k] \in Withholdable} :
      /\ pos' = [pos EXCEPT ![r] = n]
      /\ got' = [got EXCEPT ![r] = @ \cup
                   {[seq |-> k, row |-> log[k]] : k \in ((pos[r] + 1)..n) \ withheld}]
      /\ UNCHANGED log

Next == Append_ \/ \E r \in Readers : Deliver(r)

Spec == Init /\ [][Next]_vars
=============================================================================
