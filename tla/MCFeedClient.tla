---------------------------- MODULE MCFeedClient ----------------------------
(* Values for the constants of FeedClient. *)
EXTENDS FeedClient

CONSTANTS a, b  \* items: b is a child of a at times

Edit(i) == [item |-> i, ref |-> NoItem, rows |-> {i}, drops |-> {}]

(* Edits of either item, a move that stamps both, a link that names a, and *)
(* a hard delete of a.                                                     *)
MCMutations == { <<Edit(a)>>,
                 <<[item |-> b, ref |-> a, rows |-> {b}, drops |-> {}]>>,
                 <<Edit(b), [item |-> a, ref |-> NoItem, rows |-> {a, b}, drops |-> {}]>>,
                 <<[item |-> a, ref |-> NoItem, rows |-> {}, drops |-> {a}]>> }
=============================================================================
