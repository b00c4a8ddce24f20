------------------------------- MODULE Listing -------------------------------
(***************************************************************************)
(* Listing rows page by page while they change.                            *)
(*                                                                         *)
(* The server keeps nothing between pages: a signed cursor carries the     *)
(* last row returned, the largest id of the first page, the time of the    *)
(* first page and the scope (user, path and query) it was made for.  Each  *)
(* page is read from the rows as they then are.  Ids and sort values are   *)
(* numbers; a sort value may be NULL.                                      *)
(***************************************************************************)
EXTENDS Integers, Sequences, FiniteSets

CONSTANTS Ids,      \* row ids, a set of positive numbers
          Values,   \* sort values and dates, a set of numbers
          Null,     \* the sort value NULL
          Queries,  \* the queries a client may make
          Limit,    \* rows of a page
          MaxEdits, \* bound on the changes during a behaviour
          MaxHour   \* bound on the time of a behaviour

ASSUME ListingAssumption == /\ Ids \subseteq Nat \ {0} /\ IsFiniteSet(Ids)
                            /\ Values \subseteq Nat
                            /\ Null \notin Values
                            /\ Queries \subseteq {"id", "asc", "desc", "history"}
                            /\ Limit \in Nat \ {0}
                            /\ MaxEdits \in Nat /\ MaxHour \in Nat

VARIABLES rows,    \* rows[i]: whether the row exists, its sort value and its date
          hour,    \* the time
          list,    \* the client's listing
          stable,  \* history: ids that match since the first page and did not change
          edits    \* how many changes were made

listVars == <<rows, hour, list, stable, edits>>

NoRow == [live |-> FALSE, sort |-> Null, date |-> 0]

(* Not started: a client without a cursor. *)
NoList == [phase |-> "none", scope |-> "none", at |-> 0, upper |-> 0,
           after |-> 0, sort |-> Null, seen |-> << >>]

Row == [live : {TRUE}, sort : Values \cup {Null}, date : Values]

InitList == /\ rows \in [Ids -> Row \cup {NoRow}]
            /\ hour = 0
            /\ list = NoList
            /\ stable = {}
            /\ edits = 0

-----------------------------------------------------------------------------
(* Order and position *)

(* A filter on the date as of now(), which is the time of the first page. *)
Matches(i, at) == rows[i].live /\ rows[i].date >= at

(* ORDER BY the sort value, NULLS LAST, then the id. *)
Precedes(q, i, j) ==
    LET x == rows[i].sort
        y == rows[j].sort
    IN IF q = "id" THEN i < j
       ELSE IF q = "history" THEN i > j
       ELSE IF x = y THEN i < j
       ELSE x # Null /\ (y = Null \/ IF q = "asc" THEN x < y ELSE x > y)

(* The rows of S in that order: k - 1 of them precede the k-th. *)
InOrder(q, S) ==
    [k \in 1..Cardinality(S) |->
        CHOOSE i \in S : Cardinality({j \in S : Precedes(q, j, i)}) = k - 1]

(* Mutant: rows without a value are taken to lie before the position. *)
BeyondSortNoNull(c, i) ==
    IF c.sort = Null THEN rows[i].sort = Null /\ i > c.after
    ELSE /\ rows[i].sort # Null
         /\ \/ rows[i].sort = c.sort /\ i > c.after
            \/ IF c.scope = "asc" THEN rows[i].sort > c.sort ELSE rows[i].sort < c.sort

(* The predicate listItems builds from a cursor. *)
BeyondSort(c, i) ==
    IF c.sort = Null THEN rows[i].sort = Null /\ i > c.after
    ELSE \/ rows[i].sort = Null
         \/ rows[i].sort = c.sort /\ i > c.after
         \/ IF c.scope = "asc" THEN rows[i].sort > c.sort ELSE rows[i].sort < c.sort

(* projectedPage, listProjects, listMembers, listAdminMembers: id>After. *)
BeyondId(c, i) == i > c.after

(* itemHistory: seq<After, newest first. *)
BeyondSeq(c, i) == i < c.after

Beyond(c, i) == \/ c.after = 0
                \/ c.scope = "id" /\ BeyondId(c, i)
                \/ c.scope = "history" /\ BeyondSeq(c, i)
                \/ c.scope \notin {"id", "history"} /\ BeyondSort(c, i)

Candidates(c) == {i \in Ids : Matches(i, c.at) /\ i <= c.upper /\ Beyond(c, i)}

-----------------------------------------------------------------------------
(* The listing *)

(* A request without a cursor: the scope is the request's, the bound is    *)
(* the largest id there is.                                                *)
FirstPage(q) ==
    /\ list.phase = "none"
    /\ list' = [NoList EXCEPT !.phase = "reading", !.scope = q, !.at = hour,
                   !.upper = IF \E i \in Ids : rows[i].live
                             THEN CHOOSE i \in Ids : rows[i].live
                                    /\ \A j \in Ids : rows[j].live => j <= i
                             ELSE 0]
    /\ stable' = {i \in Ids : Matches(i, hour)}
    /\ UNCHANGED <<rows, hour, edits>>

(* DecodeCursor: a cursor of another query is refused, and the listing     *)
(* goes on as it was.                                                      *)
DecodeCursor(q) == IF list.scope = q THEN [list EXCEPT !.phase = "reading"] ELSE list

(* A request with the cursor of the last page, for query q. *)
NextPage(q) ==
    /\ list.phase = "more"
    /\ list' = DecodeCursor(q)
    /\ UNCHANGED <<rows, hour, stable, edits>>

(* One row more than the page holds is read to know whether another page   *)
(* follows; the position moves to the last row that is returned.           *)
Page(c, found) ==
    LET n == IF Len(found) < Limit THEN Len(found) ELSE Limit
    IN [c EXCEPT !.phase = IF Len(found) > Limit THEN "more" ELSE "done",
                 !.seen = @ \o SubSeq(found, 1, n),
                 !.after = IF n = 0 THEN @ ELSE found[n],
                 !.sort = IF n = 0 THEN @ ELSE rows[found[n]].sort]

(* The page's query: at most Limit + 1 rows beyond the position, in order. *)
ReadPage ==
    /\ list.phase = "reading"
    /\ list' = Page(list, InOrder(list.scope, Candidates(list)))
    /\ UNCHANGED <<rows, hour, stable, edits>>

(* Somebody creates, edits or deletes a row. *)
Change(i) ==
    /\ edits < MaxEdits
    /\ list.phase \in {"reading", "more"}
    /\ \E w \in Row \cup {NoRow} : w # rows[i] /\ rows' = [rows EXCEPT ![i] = w]
    /\ stable' = stable \ {i}
    /\ edits' = edits + 1
    /\ UNCHANGED <<hour, list>>

Hour == /\ hour < MaxHour
        /\ list.phase \in {"reading", "more"}
        /\ hour' = hour + 1
        /\ UNCHANGED <<rows, list, stable, edits>>

NextList == \/ \E q \in Queries : FirstPage(q) \/ NextPage(q)
            \/ ReadPage
            \/ \E i \in Ids : Change(i)
            \/ Hour

SpecList == InitList /\ [][NextList]_listVars

-----------------------------------------------------------------------------
(* Properties *)

Times(i) == Cardinality({k \in 1..Len(list.seen) : list.seen[k] = i})

(* SPEC 6, cursor pagination: whatever is created, edited or deleted while *)
(* a client pages, every row that matched from the first page on and did   *)
(* not itself change is returned, and returned once; also by the filters   *)
(* that speak of now(), and in an order with ties and NULLs.               *)
ListedOnce ==
    /\ \A i \in stable : Times(i) <= 1
    /\ list.phase = "done" => \A i \in stable : Times(i) = 1
=============================================================================
