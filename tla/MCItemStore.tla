---------------------------- MODULE MCItemStore -----------------------------
(* Symmetry for the model checker, and a project that already has items.   *)
EXTENDS ItemStore, TLC

CONSTANTS a, b  \* item ids

Symmetry == Permutations(Items) \cup Permutations(Requests)

Row(parent, path, version, seq) ==
    [Absent EXCEPT !.state = "live", !.parent = parent, !.path = path,
                   !.version = version, !.changeSeq = seq]

(* After three changes: a, and b below it, were created and a linked to b. *)
InitPopulated ==
    /\ row = [i \in Items |-> CASE i = a -> Row(None, <<a>>, 2, 3)
                                [] i = b -> Row(a, <<a, b>>, 1, 2)
                                [] OTHER -> Absent]
    /\ rollup = [i \in Items |-> IF i = a THEN [descendants |-> 1, done |-> 0] ELSE ZeroRollup]
    /\ links = {[from |-> a, to |-> b, id |-> 3]}
    /\ seqCounter = 3
    /\ req = [r \in Requests |-> Free]

SpecPopulated == InitPopulated /\ [][Next]_vars

(* The items that are not there yet are interchangeable. *)
PopulatedSymmetry == Permutations(Items \ {a, b}) \cup Permutations(Requests)
=============================================================================
