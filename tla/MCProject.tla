------------------------------ MODULE MCProject ------------------------------
(* A workflow of three statuses and the drafts administrators submit; the  *)
(* listing of rows; the order of ranks.  The three share no variable:      *)
(* their behaviours are explored side by side, not interleaved.            *)
EXTENDS Workflow, Listing, Ranks, TLC

CONSTANTS todo, doing, done, owner

Arc(from, to, requires) == [from |-> from, to |-> to, requires |-> requires]

MCSeed == [statuses |-> {todo, doing}, initial |-> todo,
           arcs |-> {Arc(todo, doing, {}), Arc(doing, todo, {})}]

(* A new status, a new requirement, an arc less; and one status too few.   *)
MCDrafts == { [statuses |-> {todo, doing, done}, initial |-> todo,
               arcs |-> {Arc(todo, doing, {owner}), Arc(doing, done, {owner})}],
              [statuses |-> {todo, doing, done}, initial |-> doing,
               arcs |-> {Arc(doing, todo, {}), Arc(todo, done, {})}],
              [statuses |-> {doing, done}, initial |-> doing,
               arcs |-> {Arc(doing, done, {})}],
              [statuses |-> {todo, doing}, initial |-> done, arcs |-> {}] }

Symmetry == Permutations(Requests) \cup Permutations(Cards)

NoRows == InitList /\ \A i \in Ids : rows[i] = NoRow
NoRanks == InitRanks /\ \A i \in Cards : rank[i] = << >>

InitProject == Init /\ InitList /\ InitRanks /\ (NoRows \/ NoRanks)

NextProject ==
    \/ Next /\ NoRows /\ NoRanks /\ UNCHANGED <<listVars, rankVars>>
    \/ NextList /\ Init /\ NoRanks /\ UNCHANGED <<vars, rankVars>>
    \/ NextRanks /\ Init /\ NoRows /\ UNCHANGED <<vars, listVars>>

SpecProject == InitProject /\ [][NextProject]_<<vars, listVars, rankVars>>
=============================================================================
