----------------------------- MODULE MCItemEdit -----------------------------
(* The edit form, which sends every field, and the editor of the assignee  *)
(* alone (DetailEditor), for the model checker.  People are                *)
(* interchangeable; the fields are not.                                    *)
EXTENDS ItemEdit, TLC

CONSTANTS title,     \* a plain input, shown at once
          assignee   \* a control that keeps the value it was opened with

MCLayouts == {[sends |-> {title, assignee}, optimistic |-> {title}],
              [sends |-> {assignee}, optimistic |-> {}]}

Symmetry == Permutations(Clients)
=============================================================================
