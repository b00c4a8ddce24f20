------------------------------ MODULE Workflow -------------------------------
(***************************************************************************)
(* A project, the versions of its workflow configuration, and the items    *)
(* that follow it.                                                         *)
(*                                                                         *)
(* Configuration versions are only added, under the lock of the project    *)
(* row; an item records the version its status was last checked against.   *)
(* A handler's reads are statements of their own (READ COMMITTED), so a    *)
(* new configuration or another change of the item may fall between them   *)
(* and the item's version check under the sequence lock.                   *)
(***************************************************************************)
EXTENDS Naturals, Sequences, FiniteSets

CONSTANTS Items,       \* item ids
          Requests,    \* requests in flight
          None,
          Fields,      \* item fields a transition may require
          Names,       \* contents of the project row: its name and owner
          Seed,        \* the configuration a new project is given
          Drafts,      \* configurations administrators submit, valid or not
          MaxConfigs, MaxVersion   \* bounds of a behaviour

ASSUME WorkflowAssumption ==
    /\ None \notin Items \cup Requests \cup Names
    /\ MaxConfigs \in Nat \ {0} /\ MaxVersion \in Nat \ {0}
    /\ Seed.initial \in Seed.statuses
    /\ \A arc \in Seed.arcs : {arc.from, arc.to} \subseteq Seed.statuses /\ arc.from # arc.to

VARIABLES project,  \* the project row: version 0 until it is created
          configs,  \* configs[v]: configuration version v
          item,     \* item[i]: version 0 until it is created
          req       \* req[r]: what request r has read and wants

vars == <<project, configs, item, req>>

Latest == Len(configs)

NoItem == [version |-> 0, status |-> None, config |-> 0, fields |-> {}]

Free == [kind |-> "free", item |-> None, version |-> 0, seen |-> {}, to |-> None,
         config |-> 0, set |-> {}, clear |-> {}, name |-> None]

Init == /\ project = [version |-> 0, name |-> None]
        /\ configs = << >>
        /\ item = [i \in Items |-> NoItem]
        /\ req = [r \in Requests |-> Free]

Answered(r) == req' = [req EXCEPT ![r] = Free]

(* Not found, forbidden, conflict, invalid or unavailable: rolled back. *)
Refuse(r) == req[r].kind # "free" /\ Answered(r) /\ UNCHANGED <<project, configs, item>>

-----------------------------------------------------------------------------
(* Projects *)

(* createProject: the row and, in the same transaction, its configuration. *)
CreateProject == /\ project.version = 0
                 /\ \E n \in Names : project' = [version |-> 1, name |-> n]
                 /\ configs' = <<Seed>>
                 /\ UNCHANGED <<item, req>>

(* getProject *)
GetProject(r) == /\ req[r].kind = "free"
                 /\ project.version > 0
                 /\ req' = [req EXCEPT ![r] = [Free EXCEPT !.kind = "project",
                               !.version = project.version, !.name = project.name]]
                 /\ UNCHANGED <<project, configs, item>>

(* updateProject, on the locked row. *)
UpdateProject(r) ==
    /\ req[r].kind = "project"
    /\ req[r].version = project.version
    /\ project.version < MaxVersion
    /\ \E n \in Names : project' = [version |-> project.version + 1, name |-> n]
    /\ Answered(r)
    /\ UNCHANGED <<configs, item>>

-----------------------------------------------------------------------------
(* Configurations *)

(* resolvedConfigSQL, for an administrator's editor. *)
GetConfig(r) == /\ req[r].kind = "free"
                /\ Latest > 0
                /\ req' = [req EXCEPT ![r] = [Free EXCEPT !.kind = "workflow", !.version = Latest]]
                /\ UNCHANGED <<project, configs, item>>

(* Mutant: a status may be left out. *)
ValidDraftShrinking(d, current) ==
    /\ d.statuses # {}
    /\ \A arc \in d.arcs : /\ {arc.from, arc.to} \subseteq d.statuses
                           /\ arc.from # arc.to
                           /\ arc.requires \subseteq Fields
    /\ d.initial \in d.statuses

(* Mutant: the initial status is not looked up. *)
ValidDraftAnyInitial(d, current) ==
    /\ d.statuses # {}
    /\ current.statuses \subseteq d.statuses
    /\ \A arc \in d.arcs : /\ {arc.from, arc.to} \subseteq d.statuses
                           /\ arc.from # arc.to
                           /\ arc.requires \subseteq Fields
    /\ \A x, y \in d.arcs : <<x.from, x.to>> = <<y.from, y.to>> => x = y

(* The draft keeps every status, its arcs join different statuses of it at *)
(* most once and require known fields, and items start in one of them.     *)
ValidDraft(d, current) ==
    /\ d.statuses # {}
    /\ current.statuses \subseteq d.statuses
    /\ \A arc \in d.arcs : /\ {arc.from, arc.to} \subseteq d.statuses
                           /\ arc.from # arc.to
                           /\ arc.requires \subseteq Fields
    /\ \A x, y \in d.arcs : <<x.from, x.to>> = <<y.from, y.to>> => x = y
    /\ d.initial \in d.statuses

(* updateWorkflow, under the project's lock. *)
UpdateWorkflow(r) ==
    /\ req[r].kind = "workflow"
    /\ req[r].version = Latest
    /\ Latest < MaxConfigs
    /\ \E d \in Drafts : ValidDraft(d, configs[Latest]) /\ configs' = Append(configs, d)
    /\ Answered(r)
    /\ UNCHANGED <<project, item>>

-----------------------------------------------------------------------------
(* Items *)

Reserved == {req[r].item : r \in {q \in Requests : req[q].kind = "create"}}

(* createItem: the initial status of the latest configuration ... *)
ReadInitial(r) ==
    /\ req[r].kind = "free"
    /\ Latest > 0
    /\ \E i \in Items \ Reserved, f \in SUBSET Fields :
        /\ item[i].version = 0
        /\ req' = [req EXCEPT ![r] = [Free EXCEPT !.kind = "create", !.item = i, !.set = f,
                      !.config = Latest, !.to = configs[Latest].initial]]
    /\ UNCHANGED <<project, configs, item>>

(* ... and the insert. *)
Insert(r) ==
    LET q == req[r] IN
    /\ q.kind = "create"
    /\ item' = [item EXCEPT ![q.item] = [version |-> 1, status |-> q.to, config |-> q.config,
                                         fields |-> q.set]]
    /\ Answered(r)
    /\ UNCHANGED <<project, configs>>

(* transitionItem reads the item, which must have the version the client   *)
(* sends ...                                                               *)
ReadForTransition(r) ==
    /\ req[r].kind = "free"
    /\ \E i \in Items, f, g \in SUBSET Fields :
        /\ item[i].version > 0
        /\ f \cap g = {}
        /\ req' = [req EXCEPT ![r] = [Free EXCEPT !.kind = "reading", !.item = i,
                      !.version = item[i].version, !.seen = item[i].fields,
                      !.set = f, !.clear = g]]
    /\ UNCHANGED <<project, configs, item>>

(* itemPatch: what it was shown, with the submitted fields merged in. *)
Merged(fields, q) == (fields \cup q.set) \ q.clear

(* ... then, from the row as it is now, an arc of the latest configuration *)
(* and what it requires of the merged item ...                             *)
ReadArc(r) ==
    LET q == req[r] IN
    /\ q.kind = "reading"
    /\ \E arc \in configs[Latest].arcs :
        /\ arc.from = item[q.item].status
        /\ arc.requires \subseteq Merged(q.seen, q)
        /\ req' = [req EXCEPT ![r].kind = "transition", ![r].to = arc.to, ![r].config = Latest]
    /\ UNCHANGED <<project, configs, item>>

(* Mutant: the version is not checked again. *)
CurrentAssumed(q) == q.version > 0

(* WithExpectedVersion, under the sequence lock. *)
StillCurrent(q) == item[q.item].version = q.version

(* ... and commits status, configuration version and fields together. *)
Transition(r) ==
    LET q == req[r] IN
    /\ q.kind = "transition"
    /\ StillCurrent(q)
    /\ q.version < MaxVersion
    /\ item' = [item EXCEPT ![q.item] = [version |-> @.version + 1, status |-> q.to,
                                         config |-> q.config, fields |-> Merged(@.fields, q)]]
    /\ Answered(r)
    /\ UNCHANGED <<project, configs>>

(* updateItem: fields only; COALESCE leaves status and version of the      *)
(* configuration alone.  A status may be kept without what led to it.      *)
ReadForUpdate(r) ==
    /\ req[r].kind = "free"
    /\ \E i \in Items, f, g \in SUBSET Fields :
        /\ item[i].version > 0
        /\ f \cap g = {}
        /\ f \cup g # {}
        /\ req' = [req EXCEPT ![r] = [Free EXCEPT !.kind = "update", !.item = i,
                      !.version = item[i].version, !.set = f, !.clear = g]]
    /\ UNCHANGED <<project, configs, item>>

UpdateItemFields(r) ==
    LET q == req[r] IN
    /\ q.kind = "update"
    /\ StillCurrent(q)
    /\ q.version < MaxVersion
    /\ item' = [item EXCEPT ![q.item].version = @ + 1,
                            ![q.item].fields = Merged(@, q)]
    /\ Answered(r)
    /\ UNCHANGED <<project, configs>>

-----------------------------------------------------------------------------

Step(r) == \/ GetProject(r) \/ UpdateProject(r) \/ GetConfig(r) \/ UpdateWorkflow(r)
           \/ ReadInitial(r) \/ Insert(r)
           \/ ReadForTransition(r) \/ ReadArc(r) \/ Transition(r)
           \/ ReadForUpdate(r) \/ UpdateItemFields(r)
           \/ Refuse(r)

Next == CreateProject \/ \E r \in Requests : Step(r)

Spec == Init /\ [][Next]_vars

-----------------------------------------------------------------------------
(* Properties *)

Statuses == UNION {d.statuses : d \in Drafts \cup {Seed}}

(* Rows and requests have the shape of the schema, and every applied       *)
(* configuration is one a check let through.                               *)
WorkflowTypeOK ==
    /\ project \in [version : 0..MaxVersion, name : Names \cup {None}]
    /\ configs \in Seq(Drafts \cup {Seed})
    /\ \A v \in 1..Latest : /\ configs[v].initial \in configs[v].statuses
                            /\ \A arc \in configs[v].arcs :
                                   {arc.from, arc.to} \subseteq configs[v].statuses
    /\ item \in [Items -> [version : 0..MaxVersion, status : Statuses \cup {None},
                           config : 0..MaxConfigs, fields : SUBSET Fields]]

(* workflow.go:41 "existing immutable status definitions are retained":    *)
(* whichever configuration an item was created or moved under, its status  *)
(* is one of that configuration and of every later one, so nothing is ever *)
(* left in a status the current workflow does not know.                    *)
StatusRetained ==
    \A i \in Items : item[i].version > 0 =>
        /\ item[i].config \in 1..Latest
        /\ \A v \in item[i].config..Latest : item[i].status \in configs[v].statuses

(* transition.go:54: an item changes its status only along an arc of the   *)
(* configuration it is then stamped with, and what the arc requires is     *)
(* there in the committed row, although item, arc and commit are separate  *)
(* reads that other changes fall between.  ADR-006, query/item.sql:45      *)
(* "config_version moves only on create/transition/promote": the stamp     *)
(* moves only then, and never back, also when a transition checked against *)
(* an older configuration commits late.                                    *)
StatusFollowsArc ==
    [][\A i \in Items : item[i].version > 0 =>
          /\ item'[i].status # item[i].status =>
              \E arc \in configs[item'[i].config].arcs :
                  /\ arc.from = item[i].status
                  /\ arc.to = item'[i].status
                  /\ arc.requires \subseteq item'[i].fields
          /\ item'[i].config # item[i].config =>
                 item'[i].config > item[i].config /\ item'[i].status # item[i].status]_vars
=============================================================================
