----------------------------- MODULE FeedClient -----------------------------
(***************************************************************************)
(* The browser following the change feed: the server-rendered bootstrap    *)
(* (documents.go), the polling loop (web/src/api/feed.ts) and the session  *)
(* expiry that restarts it (web/src/components/Shell.tsx), composed with   *)
(* the writers, the log and the operator of ChangeFeed.                    *)
(***************************************************************************)
EXTENDS ChangeFeed

CONSTANT Clients  \* open pages

VARIABLES
    loop,     \* loop[c]: where the page is: bootstrap, timer, await, await
    boot,     \* boot[c]: change_seq of the bootstrap document
    sequence, \* sequence[c]: the running feed's position
    reply,    \* reply[c]: the page of /changes on its way to c
    shown,    \* shown[c][i]: the change_seq of the copy of i on screen, 0 if none
    expired,  \* expired[c]: the page knows its session has ended
    broken    \* history: the last refetch of c failed

clientVars == <<loop, boot, sequence, reply, shown, expired, broken>>
allVars    == <<vars, clientVars>>

NoReply == [full |-> FALSE, next_seq |-> 0]

InitClients == /\ loop = [c \in Clients |-> "closed"]
               /\ boot = [c \in Clients |-> 0]
               /\ sequence = [c \in Clients |-> 0]
               /\ reply = [c \in Clients |-> NoReply]
               /\ shown = [c \in Clients |-> [i \in Items |-> 0]]
               /\ expired = [c \in Clients |-> FALSE]
               /\ broken = [c \in Clients |-> FALSE]

(* What a list or detail query returns now: hidden items are not returned, *)
(* and neither are deleted ones.                                           *)
Query == [i \in Items |-> IF i \in hidden \cup gone THEN 0 ELSE changeSeq[i]]

-----------------------------------------------------------------------------
(* The bootstrap document.  Each statement of the request sees what is     *)
(* committed when it runs (READ COMMITTED), so writes commit in between.   *)

(* Mutant: the data queries run first ... *)
ReadItemsFirst(c) == /\ loop[c] = "closed"
                     /\ shown' = [shown EXCEPT ![c] = Query]
                     /\ loop' = [loop EXCEPT ![c] = "rendering"]
                     /\ UNCHANGED <<boot, sequence, reply, expired, broken>>

(* SELECT value FROM seq_counter *)
ReadSequence(c) == /\ loop[c] = "closed"
                   /\ boot' = [boot EXCEPT ![c] = seqCounter]
                   /\ loop' = [loop EXCEPT ![c] = "rendering"]
                   /\ UNCHANGED <<sequence, reply, shown, expired, broken>>

(* Mutant: ... and the sequence is read after them. *)
ReadSequenceLast(c) == /\ loop[c] = "rendering"
                       /\ boot' = [boot EXCEPT ![c] = seqCounter]
                       /\ sequence' = [sequence EXCEPT ![c] = seqCounter]
                       /\ loop' = [loop EXCEPT ![c] = "waiting"]
                       /\ UNCHANGED <<reply, shown, expired, broken>>

(* The data queries, and startFeed in the browser. *)
ReadItems(c) == /\ loop[c] = "rendering"
                /\ shown' = [shown EXCEPT ![c] = Query]
                /\ sequence' = [sequence EXCEPT ![c] = boot[c]]
                /\ loop' = [loop EXCEPT ![c] = "waiting"]
                /\ UNCHANGED <<boot, reply, expired, broken>>

(* Mutant: both reads the wrong way round. *)
BootstrapSwapped(c) == ReadItemsFirst(c) \/ ReadSequenceLast(c)

Bootstrap(c) == ReadSequence(c) \/ ReadItems(c)

-----------------------------------------------------------------------------
(* poll() *)

(* The timer fires while active(): fetchPage(sequence) reaches the server. *)
FetchPage(c) ==
    /\ loop[c] = "waiting"
    /\ ~ expired[c]
    /\ LET page == Page(sequence[c]) IN
         \/ /\ page = {}
            /\ reply' = [reply EXCEPT ![c] = [full |-> FALSE, next_seq |-> sequence[c]]]
         \/ \E last \in page :
              /\ \A e \in page : e.seq <= last.seq
              /\ reply' = [reply EXCEPT ![c] = [full |-> TRUE, next_seq |-> last.seq]]
    /\ loop' = [loop EXCEPT ![c] = "fetching"]
    /\ UNCHANGED <<boot, sequence, shown, expired, broken>>

(* Mutant: the position kept is one short of next_seq. *)
ReceiveShort(c) ==
    /\ loop[c] = "fetching"
    /\ sequence' = [sequence EXCEPT ![c] = reply[c].next_seq - 1]
    /\ loop' = [loop EXCEPT ![c] = IF reply[c].full THEN "invalidating" ELSE "waiting"]
    /\ UNCHANGED <<boot, reply, shown, expired, broken>>

(* Mutant: a page of events moves the position and refetches nothing. *)
ReceiveQuietly(c) ==
    /\ loop[c] = "fetching"
    /\ sequence' = [sequence EXCEPT ![c] = reply[c].next_seq]
    /\ loop' = [loop EXCEPT ![c] = "waiting"]
    /\ UNCHANGED <<boot, reply, shown, expired, broken>>

(* The answer arrives: the sequence moves before invalidate() is awaited. *)
Receive(c) ==
    /\ loop[c] = "fetching"
    /\ sequence' = [sequence EXCEPT ![c] = reply[c].next_seq]
    /\ loop' = [loop EXCEPT ![c] = IF reply[c].full THEN "invalidating" ELSE "waiting"]
    /\ UNCHANGED <<boot, reply, shown, expired, broken>>

(* catch: the delay doubles, the sequence stays. *)
FetchFails(c) == /\ loop[c] = "fetching"
                 /\ loop' = [loop EXCEPT ![c] = "waiting"]
                 /\ UNCHANGED <<boot, sequence, reply, shown, expired, broken>>

(* invalidateQueries refetches what is on screen. *)
Refetch(c) == /\ loop[c] = "invalidating"
              /\ shown' = [shown EXCEPT ![c] = Query]
              /\ broken' = [broken EXCEPT ![c] = FALSE]
              /\ loop' = [loop EXCEPT ![c] = "waiting"]
              /\ UNCHANGED <<boot, sequence, reply, expired>>

(* A failed refetch resolves too (retry: false): the old copy stays on     *)
(* screen and the feed does not ask for these events again.                *)
RefetchFails(c) == /\ loop[c] = "invalidating"
                   /\ broken' = [broken EXCEPT ![c] = TRUE]
                   /\ loop' = [loop EXCEPT ![c] = "waiting"]
                   /\ UNCHANGED <<boot, sequence, reply, shown, expired>>

-----------------------------------------------------------------------------
(* Session expiry *)

Running(c) == loop[c] \in {"waiting", "fetching", "invalidating"}

(* Mutant: the new feed carries on from the stopped one's position. *)
RestartKeepsPosition(c) == /\ loop' = [loop EXCEPT ![c] = "waiting"]
                           /\ UNCHANGED sequence

(* The effect's clean-up stops the feed, whose pending page or refetch is  *)
(* then ignored, and a new one starts from the bootstrap position.         *)
Restart(c) == /\ loop' = [loop EXCEPT ![c] = "waiting"]
              /\ sequence' = [sequence EXCEPT ![c] = boot[c]]

(* A 401: sierx:expired, cache.cancelQueries(). *)
Expire(c) == /\ Running(c)
             /\ ~ expired[c]
             /\ expired' = [expired EXCEPT ![c] = TRUE]
             /\ Restart(c)
             /\ UNCHANGED <<boot, reply, shown, broken>>

(* The user signs in again: sierx:resumed. *)
Resume(c) == /\ expired[c]
             /\ expired' = [expired EXCEPT ![c] = FALSE]
             /\ Restart(c)
             /\ UNCHANGED <<boot, reply, shown, broken>>

Browse(c) == \/ Bootstrap(c)
             \/ FetchPage(c) \/ Receive(c) \/ FetchFails(c)
             \/ Refetch(c) \/ RefetchFails(c)
             \/ Expire(c) \/ Resume(c)

InitFeed == Init /\ InitClients

NextFeed == \/ (\E w \in Writers : Write(w)) /\ UNCHANGED clientVars
            \/ Operate /\ UNCHANGED clientVars
            \/ \E c \in Clients : Browse(c) /\ UNCHANGED vars

SpecFeed == InitFeed /\ [][NextFeed]_allVars

(* An open page keeps polling and finishes what it awaits, sessions do not *)
(* expire for ever, and a server that can be reached at all answers in the *)
(* end.                                                                    *)
FairFeed == /\ SpecFeed
            /\ \A c \in Clients : /\ WF_allVars(Bootstrap(c) /\ UNCHANGED vars)
                                  /\ SF_allVars(FetchPage(c) /\ UNCHANGED vars)
                                  /\ SF_allVars(Receive(c) /\ UNCHANGED vars)
                                  /\ SF_allVars(Refetch(c) /\ UNCHANGED vars)
                                  /\ WF_allVars(Resume(c) /\ UNCHANGED vars)

-----------------------------------------------------------------------------
(* Properties *)

(* The state of startFeed and Shell stays in its shape: a feed position is *)
(* always a number the server handed out or the bootstrap one.             *)
FeedTypeOK == /\ loop \in [Clients -> {"closed", "rendering", "waiting", "fetching",
                                       "invalidating"}]
              /\ boot \in [Clients -> Nat]
              /\ sequence \in [Clients -> Nat]
              /\ reply \in [Clients -> [full : BOOLEAN, next_seq : Nat]]
              /\ shown \in [Clients -> [Items -> Nat]]
              /\ expired \in [Clients -> BOOLEAN]
              /\ broken \in [Clients -> BOOLEAN]

(* FRONTEND-CONTRACT.md:29 "nor misses a write between bootstrap reads":   *)
(* a page whose feed has caught up with the log, and whose last refetch    *)
(* did not fail, shows the current copy of every item that exists and was  *)
(* never taken down, wherever commits fell between the two bootstrap       *)
(* reads, the poll and the refetch, and whatever an expiry interrupted.    *)
(* (A copy of a hard deleted item stays on screen until the next refetch:  *)
(* no poller is handed its terminal event.)                                *)
CaughtUpIsCurrent ==
    \A c \in Clients :
        loop[c] = "waiting" /\ sequence[c] = seqCounter /\ ~ broken[c] =>
           \A i \in Items \ (everHidden \cup gone) : shown[c][i] = changeSeq[i]

(* A running feed is never ahead of what its page shows: while the copy of *)
(* an item on screen is old, its change is still above the feed position   *)
(* and the next polls will bring it.  Expiry cancels a refetch after the   *)
(* position has moved, which is why Shell restarts from the bootstrap.     *)
NeverAheadOfScreen ==
    \A c \in Clients :
        loop[c] \in {"waiting", "fetching"} /\ ~ broken[c] =>
           \A i \in Items \ (everHidden \cup gone) :
              shown[c][i] < changeSeq[i] => sequence[c] < changeSeq[i]

(* SPEC.md:457 "polling is the only refresh path": it suffices.  Each      *)
(* change a writer commits is in the end on the screen of every open page, *)
(* unless a refetch fails, an item is taken down or this one is deleted.   *)
EventuallyCurrent ==
    \A c \in Clients, i \in Items, k \in 1..MaxSeq :
        changeSeq[i] = k ~> (shown[c][i] >= k \/ broken[c] \/ i \in gone \/ everHidden # {})
=============================================================================
