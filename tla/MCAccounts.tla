----------------------------- MODULE MCAccounts ------------------------------
(* The attempt limit and the accounts share no variable: their behaviours  *)
(* are explored side by side, not interleaved.                             *)
EXTENDS Accounts, Attempts, TLC

Symmetry == Permutations(Requests) \cup Permutations(Servers)

InitBoth == Init /\ InitLimit

NextBoth == \/ Next /\ UNCHANGED limitVars /\ InitLimit
            \/ NextLimit /\ UNCHANGED vars /\ Init

SpecBoth == InitBoth /\ [][NextBoth]_<<vars, limitVars>>
=============================================================================
