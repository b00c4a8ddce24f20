---------------------------- MODULE MCChangeFeed ----------------------------
(* Values for the constants of ChangeFeed. *)
EXTENDS ChangeFeed

CONSTANTS a, b  \* items: b is a child of a at times

(* The terminal event of a hard delete. *)
Terminal(i) == [item |-> i, ref |-> NoItem, rows |-> {}, drops |-> {i}]

Edit(i) == [item |-> i, ref |-> NoItem, rows |-> {i}, drops |-> {}]

(* One edit, an edit of two fields, a move of a with its subtree, a link   *)
(* from b that names a, the summary event of a rank rebalance, and a hard  *)
(* delete of a.                                                            *)
MCMutations == { <<Edit(a)>>,
                 <<Edit(b), Edit(b)>>,
                 <<[item |-> a, ref |-> NoItem, rows |-> {a, b}, drops |-> {}]>>,
                 <<[item |-> b, ref |-> a, rows |-> {b}, drops |-> {}]>>,
                 <<[item |-> NoItem, ref |-> NoItem, rows |-> {}, drops |-> {}]>>,
                 <<Terminal(a)>> }

(* Fewer kinds of mutation for the run about SPEC.md:471. *)
MCTwoMutations == { <<Edit(a)>>, <<Edit(b), Edit(b)>> }
=============================================================================
