--------------------------- MODULE WorkflowProofs ---------------------------
(***************************************************************************)
(* Proofs about Workflow, for every number of items and requests and every *)
(* set of configurations administrators may submit.                        *)
(***************************************************************************)
EXTENDS Workflow, SequenceTheorems, TLAPS

USE WorkflowAssumption

Configs == Drafts \cup {Seed}

(* The configurations in force: each was let through by a check, and no    *)
(* later one lacks a status of an earlier one.                             *)
ConfigOK(d) == /\ d.initial \in d.statuses
               /\ \A arc \in d.arcs : /\ arc.from \in d.statuses /\ arc.to \in d.statuses
                                      /\ arc.from # arc.to

ConfigsInv == /\ project.version = 0 => configs = << >>
              /\ configs \in Seq(Configs)
              /\ Len(configs) <= MaxConfigs
              /\ \A v \in 1..Len(configs) : ConfigOK(configs[v])
              /\ \A v, w \in 1..Len(configs) :
                    v <= w => configs[v].statuses \subseteq configs[w].statuses

(* Status s is known to configuration v, and so to every later one. *)
Known(s, v) == /\ v \in 1..Len(configs)
               /\ s \in configs[v].statuses

(* What a request has read.  As long as the row has the version it read,   *)
(* the row is the one it read; a later version can only refuse it.         *)
RequestType == [kind : {"free", "project", "workflow", "create", "reading", "transition", "update"},
                item : Items \cup {None}, version : 0..MaxVersion \cup 0..MaxConfigs,
                seen : SUBSET Fields, to : Statuses \cup {None}, config : 0..MaxConfigs,
                set : SUBSET Fields, clear : SUBSET Fields, name : Names \cup {None}]

CreateInv(q) == q.kind = "create" => q.item \in Items /\ Known(q.to, q.config)

EditorInv(q) == q.kind = "workflow" => q.version > 0

ReadInv(q) == q.kind \in {"reading", "transition", "update"} =>
                 /\ q.item \in Items
                 /\ 0 < q.version /\ q.version <= item[q.item].version

SeenInv(q) == q.kind \in {"reading", "transition"} /\ item[q.item].version = q.version
                 => q.seen = item[q.item].fields

ArcInv(q) == q.kind = "transition" =>
                /\ Known(q.to, q.config)
                /\ item[q.item].version = q.version =>
                     /\ item[q.item].config <= q.config
                     /\ \E arc \in configs[q.config].arcs :
                           /\ arc.from = item[q.item].status
                           /\ arc.to = q.to
                           /\ arc.requires \subseteq Merged(item[q.item].fields, q)

RequestInv(q) == CreateInv(q) /\ EditorInv(q) /\ ReadInv(q) /\ SeenInv(q) /\ ArcInv(q)

(* An insert finds no row: the id of a creation is nobody else's. *)
ReservedInv == \A r \in Requests : req[r].kind = "create" =>
                  /\ item[req[r].item].version = 0
                  /\ \A p \in Requests : req[p].kind = "create" /\ req[p].item = req[r].item => p = r

TypeInv == /\ project \in [version : 0..MaxVersion, name : Names \cup {None}]
           /\ item \in [Items -> [version : 0..MaxVersion, status : Statuses \cup {None},
                                  config : 0..MaxConfigs, fields : SUBSET Fields]]
           /\ req \in [Requests -> RequestType]

IInv == /\ TypeInv
        /\ ConfigsInv
        /\ \A i \in Items : item[i].version > 0 => Known(item[i].status, item[i].config)
        /\ \A r \in Requests : RequestInv(req[r])
        /\ ReservedInv

-----------------------------------------------------------------------------
LEMMA FreeType == Free \in RequestType /\ RequestInv(Free) /\ Free.kind = "free"
BY DEF Free, RequestType, RequestInv, CreateInv, EditorInv, ReadInv, SeenInv, ArcInv

LEMMA ConfigTypes ==
  ASSUME ConfigsInv, NEW v \in 1..Len(configs)
  PROVE  /\ Len(configs) \in Nat
         /\ configs[v] \in Configs
         /\ ConfigOK(configs[v])
         /\ configs[v].statuses \subseteq Statuses
         /\ Len(configs) \in 1..MaxConfigs
<1>1. Len(configs) \in Nat /\ configs[v] \in Configs
  BY LenProperties, ElementOfSeq DEF ConfigsInv
<1>2. configs[v].statuses \subseteq Statuses
  BY <1>1 DEF Statuses, Configs
<1> QED
  BY <1>1, <1>2 DEF ConfigsInv

(* A request that only reads changes nothing but what it holds. *)
LEMMA OnlyRequest ==
  ASSUME IInv, NEW r \in Requests, NEW q \in RequestType,
         UNCHANGED <<project, configs, item>>,
         req' = [req EXCEPT ![r] = q],
         RequestInv(q),
         q.kind = "create" =>
            /\ item[q.item].version = 0
            /\ \A p \in Requests : p # r /\ req[p].kind = "create" => req[p].item # q.item
  PROVE  IInv'
<1>1. TypeInv' /\ ConfigsInv'
  BY DEF IInv, TypeInv, ConfigsInv, ConfigOK
<1>2. (\A i \in Items : item[i].version > 0 => Known(item[i].status, item[i].config))'
  BY DEF IInv, Known
<1>3. ASSUME NEW p \in Requests PROVE RequestInv(req[p])'
  <2>1. req'[p] = IF p = r THEN q ELSE req[p]
    BY DEF IInv, TypeInv
  <2>2. RequestInv(req'[p])
    BY <2>1 DEF IInv
  <2> QED
    BY <2>2 DEF RequestInv, CreateInv, EditorInv, ReadInv, SeenInv, ArcInv, Known, Merged
<1>4. ReservedInv'
  BY DEF IInv, TypeInv, ReservedInv
<1> QED
  BY <1>1, <1>2, <1>3, <1>4 DEF IInv

LEMMA InitInv == Init => IInv
<1> SUFFICES ASSUME Init PROVE IInv
  OBVIOUS
<1>1. TypeInv
  BY FreeType DEF Init, TypeInv, NoItem
<1>2. ConfigsInv
  BY EmptySeq DEF Init, ConfigsInv
<1>3. \A i \in Items : item[i].version = 0
  BY DEF Init, NoItem
<1>4. \A r \in Requests : RequestInv(req[r]) /\ req[r].kind = "free"
  BY FreeType DEF Init
<1> QED
  BY <1>1, <1>2, <1>3, <1>4 DEF IInv, ReservedInv

-----------------------------------------------------------------------------
(* Requests that read. *)
LEMMA ReadsInv ==
  ASSUME IInv, NEW r \in Requests,
         \/ Refuse(r) \/ GetProject(r) \/ GetConfig(r) \/ ReadForTransition(r)
         \/ ReadForUpdate(r)
  PROVE  IInv'
<1>1. CASE Refuse(r)
  BY <1>1, FreeType, OnlyRequest DEF Refuse, Answered
<1>2. CASE GetProject(r)
  <2> DEFINE q == [Free EXCEPT !.kind = "project", !.version = project.version, !.name = project.name]
  <2>1. q \in RequestType /\ q.kind = "project"
    BY FreeType DEF IInv, TypeInv, RequestType
  <2>2. RequestInv(q)
    BY <2>1 DEF RequestInv, CreateInv, EditorInv, ReadInv, SeenInv, ArcInv
  <2> QED
    BY <1>2, <2>1, <2>2, OnlyRequest DEF GetProject
<1>3. CASE GetConfig(r)
  <2> DEFINE q == [Free EXCEPT !.kind = "workflow", !.version = Latest]
  <2>1. Latest \in 0..MaxConfigs
    BY <1>3, LenProperties DEF IInv, ConfigsInv, Latest
  <2>2. q \in RequestType /\ q.kind = "workflow"
    BY <2>1, FreeType DEF RequestType
  <2>3. RequestInv(q)
    BY <1>3, <2>1, <2>2, FreeType DEF GetConfig, Free, RequestType, RequestInv, CreateInv, EditorInv, ReadInv, SeenInv, ArcInv
  <2> QED
    BY <1>3, <2>2, <2>3, OnlyRequest DEF GetConfig
<1>4. CASE ReadForTransition(r)
  <2>1. PICK i \in Items, f \in SUBSET Fields, g \in SUBSET Fields :
          /\ item[i].version > 0
          /\ req' = [req EXCEPT ![r] = [Free EXCEPT !.kind = "reading", !.item = i,
                      !.version = item[i].version, !.seen = item[i].fields,
                      !.set = f, !.clear = g]]
    BY <1>4 DEF ReadForTransition
  <2> DEFINE q == [Free EXCEPT !.kind = "reading", !.item = i, !.version = item[i].version,
                               !.seen = item[i].fields, !.set = f, !.clear = g]
  <2>2. item[i] \in [version : 0..MaxVersion, status : Statuses \cup {None},
                     config : 0..MaxConfigs, fields : SUBSET Fields]
    BY DEF IInv, TypeInv
  <2>3. /\ q \in RequestType /\ q.kind = "reading" /\ q.item = i
        /\ q.version = item[i].version /\ q.seen = item[i].fields
    BY <2>2, FreeType DEF RequestType
  <2>4. RequestInv(q)
    BY <2>1, <2>2, <2>3 DEF RequestInv, CreateInv, EditorInv, ReadInv, SeenInv, ArcInv
  <2> QED
    BY <1>4, <2>1, <2>3, <2>4, OnlyRequest DEF ReadForTransition
<1>5. CASE ReadForUpdate(r)
  <2>1. PICK i \in Items, f \in SUBSET Fields, g \in SUBSET Fields :
          /\ item[i].version > 0
          /\ req' = [req EXCEPT ![r] = [Free EXCEPT !.kind = "update", !.item = i,
                      !.version = item[i].version, !.set = f, !.clear = g]]
    BY <1>5 DEF ReadForUpdate
  <2> DEFINE q == [Free EXCEPT !.kind = "update", !.item = i, !.version = item[i].version,
                               !.set = f, !.clear = g]
  <2>2. item[i].version \in 0..MaxVersion
    BY DEF IInv, TypeInv
  <2>3. q \in RequestType /\ q.kind = "update" /\ q.item = i /\ q.version = item[i].version
    BY <2>2, FreeType DEF RequestType
  <2>4. RequestInv(q)
    BY <2>1, <2>2, <2>3 DEF RequestInv, CreateInv, EditorInv, ReadInv, SeenInv, ArcInv
  <2> QED
    BY <1>5, <2>1, <2>3, <2>4, OnlyRequest DEF ReadForUpdate
<1> QED
  BY <1>1, <1>2, <1>3, <1>4, <1>5

(* createItem reads the initial status of the latest configuration. *)
LEMMA ReadInitialInv ==
  ASSUME IInv, NEW r \in Requests, ReadInitial(r)
  PROVE  IInv'
<1>1. PICK i \in Items \ Reserved, f \in SUBSET Fields :
        /\ item[i].version = 0
        /\ req' = [req EXCEPT ![r] = [Free EXCEPT !.kind = "create", !.item = i, !.set = f,
                      !.config = Latest, !.to = configs[Latest].initial]]
  BY DEF ReadInitial
<1> DEFINE q == [Free EXCEPT !.kind = "create", !.item = i, !.set = f, !.config = Latest,
                             !.to = configs[Latest].initial]
<1>2. Latest \in 1..Len(configs) /\ Latest \in 0..MaxConfigs
  BY LenProperties DEF IInv, ConfigsInv, Latest, ReadInitial
<1>3. configs[Latest].initial \in configs[Latest].statuses
      /\ configs[Latest].initial \in Statuses
  BY <1>2, ConfigTypes DEF IInv, ConfigOK
<1>4. /\ q \in RequestType /\ q.kind = "create" /\ q.item = i
      /\ q.config = Latest /\ q.to = configs[Latest].initial
  BY <1>2, <1>3, FreeType DEF RequestType
<1>5. RequestInv(q)
  BY <1>2, <1>3, <1>4 DEF RequestInv, CreateInv, EditorInv, ReadInv, SeenInv, ArcInv, Known
<1>6. \A p \in Requests : req[p].kind = "create" => req[p].item # i
  BY DEF Reserved
<1> QED
  BY <1>1, <1>4, <1>5, <1>6, OnlyRequest DEF ReadInitial

(* transitionItem reads an arc; it is one of the row's as long as the row  *)
(* is the one it read first.                                               *)
LEMMA ReadArcInv ==
  ASSUME IInv, NEW r \in Requests, ReadArc(r)
  PROVE  IInv'
<1> DEFINE p == req[r]
<1>1. PICK arc \in configs[Latest].arcs :
        /\ arc.from = item[p.item].status
        /\ arc.requires \subseteq Merged(p.seen, p)
        /\ req' = [req EXCEPT ![r].kind = "transition", ![r].to = arc.to, ![r].config = Latest]
  BY DEF ReadArc
<1> DEFINE q == [p EXCEPT !.kind = "transition", !.to = arc.to, !.config = Latest]
<1>2. p \in RequestType /\ RequestInv(p) /\ p.kind = "reading"
  BY DEF IInv, TypeInv, ReadArc
<1>3. /\ p.item \in Items /\ 0 < p.version /\ p.version <= item[p.item].version
      /\ item[p.item].version = p.version => p.seen = item[p.item].fields
  BY <1>2 DEF RequestInv, ReadInv, SeenInv
<1>4. Known(item[p.item].status, item[p.item].config)
  BY <1>2, <1>3 DEF IInv, TypeInv, RequestType
<1>5. Latest \in 1..Len(configs) /\ Latest \in 0..MaxConfigs /\ item[p.item].config <= Latest
  BY <1>4, LenProperties DEF IInv, ConfigsInv, Latest, Known
<1>6. arc.to \in configs[Latest].statuses /\ arc.to \in Statuses
  BY <1>1, <1>5, ConfigTypes DEF IInv, ConfigOK
<1>7. /\ q \in RequestType /\ q.kind = "transition" /\ q.to = arc.to /\ q.config = Latest
      /\ q.item = p.item /\ q.version = p.version /\ q.seen = p.seen
      /\ q.set = p.set /\ q.clear = p.clear
  BY <1>2, <1>5, <1>6 DEF RequestType
<1>8. req' = [req EXCEPT ![r] = q]
  BY <1>1, <1>2 DEF IInv, TypeInv, RequestType
<1>9. RequestInv(q)
  <2>1. CreateInv(q) /\ EditorInv(q) /\ ReadInv(q) /\ SeenInv(q)
    BY <1>3, <1>7 DEF CreateInv, EditorInv, ReadInv, SeenInv
  <2>2. Known(q.to, q.config)
    BY <1>5, <1>6, <1>7 DEF Known
  <2>3. Merged(p.seen, p) = Merged(q.seen, q)
    BY <1>7 DEF Merged
  <2>4. ASSUME item[q.item].version = q.version
        PROVE  /\ arc.from = item[q.item].status /\ arc.to = q.to
               /\ arc.requires \subseteq Merged(item[q.item].fields, q)
    BY <2>3, <2>4, <1>1, <1>3, <1>7
  <2>5. ArcInv(q)
    BY <2>2, <2>4, <1>5, <1>7 DEF ArcInv
  <2> QED
    BY <2>1, <2>5 DEF RequestInv
<1> QED
  BY <1>7, <1>8, <1>9, OnlyRequest DEF ReadArc

-----------------------------------------------------------------------------
(* Without a configuration there are no items and no requests that use one. *)
LEMMA CreateProjectInv ==
  ASSUME IInv, CreateProject
  PROVE  IInv'
<1>1. configs = << >> /\ configs' = <<Seed>> /\ item' = item /\ req' = req
  BY DEF IInv, ConfigsInv, CreateProject
<1>2. Len(configs) = 0 /\ Len(configs') = 1 /\ configs'[1] = Seed
  BY <1>1
<1>3. TypeInv'
  BY DEF IInv, TypeInv, CreateProject
<1>4. project'.version = 1
  BY DEF CreateProject
<1>5. configs' \in Seq(Configs)
  BY <1>1 DEF Configs
<1>6. ConfigOK(Seed)
  BY DEF ConfigOK
<1>7. ConfigsInv'
  BY <1>2, <1>4, <1>5, <1>6 DEF ConfigsInv, ConfigOK
<1>8. \A s, v : ~ Known(s, v)
  BY <1>2 DEF Known
<1>9. ASSUME NEW r \in Requests
      PROVE  RequestInv(req[r])'
  <2>1. RequestInv(req[r]) /\ req[r].kind \notin {"create", "transition"}
    BY <1>8 DEF IInv, RequestInv, CreateInv, ArcInv
  <2> QED
    BY <2>1, <1>1 DEF RequestInv, CreateInv, EditorInv, ReadInv, SeenInv, ArcInv
<1> QED
  BY <1>1, <1>3, <1>7, <1>8, <1>9 DEF IInv, ReservedInv

LEMMA UpdateProjectInv ==
  ASSUME IInv, NEW r \in Requests, UpdateProject(r)
  PROVE  IInv'
<1>1. req' = [req EXCEPT ![r] = Free] /\ UNCHANGED <<configs, item>>
  BY DEF UpdateProject, Answered
<1>2. project' \in [version : 0..MaxVersion, name : Names \cup {None}]
      /\ project'.version = project.version + 1 /\ project.version \in Nat
  BY DEF IInv, TypeInv, UpdateProject
<1>3. TypeInv'
  BY <1>1, <1>2, FreeType DEF IInv, TypeInv
<1>4. ConfigsInv'
  <2>1. project'.version # 0
    BY <1>2
  <2> QED
    BY <2>1, <1>1 DEF IInv, ConfigsInv, ConfigOK
<1>5. (\A i \in Items : item[i].version > 0 => Known(item[i].status, item[i].config))'
  BY <1>1 DEF IInv, Known
<1>6. ASSUME NEW p \in Requests PROVE RequestInv(req[p])'
  <2>1. req'[p] = req[p] \/ req'[p] = Free
    BY <1>1 DEF IInv, TypeInv
  <2>2. RequestInv(req'[p])
    BY <2>1, FreeType DEF IInv
  <2> QED
    BY <2>2, <1>1 DEF RequestInv, CreateInv, EditorInv, ReadInv, SeenInv, ArcInv, Known, Merged
<1>7. ReservedInv'
  BY <1>1, FreeType DEF IInv, TypeInv, ReservedInv
<1> QED
  BY <1>3, <1>4, <1>5, <1>6, <1>7 DEF IInv

(* A published configuration knows every status of the ones before it, so  *)
(* what was read from those stays known.                                   *)
LEMMA UpdateWorkflowInv ==
  ASSUME IInv, NEW r \in Requests, UpdateWorkflow(r)
  PROVE  IInv'
<1>1. PICK d \in Drafts : ValidDraft(d, configs[Latest]) /\ configs' = Append(configs, d)
  BY DEF UpdateWorkflow
<1>2. UNCHANGED <<project, item>> /\ req' = [req EXCEPT ![r] = Free] /\ Latest < MaxConfigs
  BY DEF UpdateWorkflow, Answered
<1> DEFINE n == Len(configs)
<1>3. /\ n \in Nat /\ configs' \in Seq(Configs) /\ Len(configs') = n + 1
      /\ \A v \in 1..n : configs'[v] = configs[v]
      /\ configs'[n + 1] = d
  <2>1. configs \in Seq(Configs) /\ d \in Configs
    BY DEF IInv, ConfigsInv, Configs
  <2> QED
    BY <1>1, <2>1, LenProperties, AppendProperties
<1> HIDE DEF n
<1>4. ConfigOK(d) /\ (n > 0 => configs[n].statuses \subseteq d.statuses)
  BY <1>1 DEF ValidDraft, ConfigOK, Latest, n
<1>5. ConfigsInv'
  <2>1. Len(configs') <= MaxConfigs
    BY <1>2, <1>3 DEF Latest, n
  <2>2. ASSUME NEW v \in 1..(n + 1) PROVE ConfigOK(configs'[v])
    <3>1. CASE v = n + 1
      BY <3>1, <1>3, <1>4
    <3>2. CASE v \in 1..n
      BY <3>2, <1>3 DEF IInv, ConfigsInv, n
    <3> QED
      BY <3>1, <3>2, <1>3
  <2>3. ASSUME NEW v \in 1..(n + 1), NEW w \in 1..(n + 1), v <= w
        PROVE  configs'[v].statuses \subseteq configs'[w].statuses
    <3>1. CASE w \in 1..n
      BY <2>3, <3>1, <1>3 DEF IInv, ConfigsInv, n
    <3>2. CASE w = n + 1 /\ v = n + 1
      BY <3>2
    <3>3. CASE w = n + 1 /\ v \in 1..n
      <4>1. configs[v].statuses \subseteq configs[n].statuses
        BY <3>3, <1>3 DEF IInv, ConfigsInv, n
      <4> QED
        BY <4>1, <3>3, <1>3, <1>4
    <3> QED
      BY <2>3, <3>1, <3>2, <3>3, <1>3
  <2>4. project'.version # 0
    <3>1. Len(configs) > 0
      BY DEF IInv, UpdateWorkflow, RequestInv, EditorInv, Latest
    <3> QED
      BY <3>1, <1>2 DEF IInv, ConfigsInv
  <2> QED
    BY <2>1, <2>2, <2>3, <2>4, <1>3 DEF ConfigsInv, ConfigOK
<1>6. TypeInv'
  BY <1>2, FreeType DEF IInv, TypeInv
<1>7. \A s, v : Known(s, v) => /\ v \in 1..Len(configs') /\ s \in configs'[v].statuses
                               /\ configs'[v] = configs[v]
  BY <1>3 DEF Known, n
<1>8. (\A i \in Items : item[i].version > 0 => Known(item[i].status, item[i].config))'
  BY <1>2, <1>7 DEF IInv, Known
<1>9. ASSUME NEW p \in Requests PROVE RequestInv(req[p])'
  <2>1. req'[p] = req[p] \/ req'[p] = Free
    BY <1>2 DEF IInv, TypeInv
  <2>2. RequestInv(req'[p])
    BY <2>1, FreeType DEF IInv
  <2>3. (CreateInv(req[p]) /\ EditorInv(req[p]) /\ ReadInv(req[p]) /\ SeenInv(req[p]))'
    BY <2>2, <1>2, <1>7 DEF RequestInv, CreateInv, EditorInv, ReadInv, SeenInv, Known
  <2>4. ArcInv(req[p])'
    <3> SUFFICES ASSUME NEW q, q = req'[p], q.kind = "transition"
                 PROVE  /\ q.config \in 1..Len(configs')
                        /\ q.to \in configs'[q.config].statuses
                        /\ item'[q.item].version = q.version =>
                             /\ item'[q.item].config <= q.config
                             /\ \E arc \in configs'[q.config].arcs :
                                  /\ arc.from = item'[q.item].status
                                  /\ arc.to = q.to
                                  /\ arc.requires \subseteq Merged(item'[q.item].fields, q)
      BY DEF ArcInv, Known, Merged
    <3>1. ArcInv(q) /\ Known(q.to, q.config)
      BY <2>2 DEF RequestInv, ArcInv
    <3>2. /\ q.config \in 1..Len(configs') /\ q.to \in configs'[q.config].statuses
          /\ configs'[q.config] = configs[q.config]
      BY <3>1, <1>7
    <3> QED
      BY <3>1, <3>2, <1>2 DEF ArcInv
  <2> QED
    BY <2>3, <2>4 DEF RequestInv
<1>10. ReservedInv'
  BY <1>2, FreeType DEF IInv, TypeInv, ReservedInv
<1> QED
  BY <1>5, <1>6, <1>8, <1>9, <1>10 DEF IInv

-----------------------------------------------------------------------------
RowType == [version : 0..MaxVersion, status : Statuses \cup {None},
            config : 0..MaxConfigs, fields : SUBSET Fields]

(* No request but r is about to insert row i. *)
OnlyInserter(r, i) == \A p \in Requests : p # r /\ req[p].kind = "create" => req[p].item # i

(* A row is written and its version goes up: whoever read it before can no *)
(* longer commit, and what the others hold is about other rows.            *)
LEMMA WriteRow ==
  ASSUME IInv, NEW r \in Requests, NEW i \in Items, NEW w \in RowType,
         UNCHANGED <<project, configs>>,
         item' = [item EXCEPT ![i] = w],
         req' = [req EXCEPT ![r] = Free],
         item[i].version < w.version,
         Known(w.status, w.config),
         OnlyInserter(r, i)
  PROVE  IInv'
<1>1. item \in [Items -> RowType] /\ req \in [Requests -> RequestType]
  BY DEF IInv, TypeInv, RowType
<1>2. TypeInv'
  BY <1>1, FreeType DEF IInv, TypeInv, RowType
<1>3. ConfigsInv'
  BY DEF IInv, ConfigsInv, ConfigOK
<1>4. (\A j \in Items : item[j].version > 0 => Known(item[j].status, item[j].config))'
  BY <1>1 DEF IInv, Known
<1>5. \A j \in Items : item'[j] = IF j = i THEN w ELSE item[j]
  BY <1>1
<1>6. ASSUME NEW p \in Requests PROVE RequestInv(req[p])'
  <2>1. CASE p = r
    <3>1. req'[p] = Free
      BY <2>1, <1>1
    <3> QED
      BY <3>1, FreeType DEF RequestInv, CreateInv, EditorInv, ReadInv, SeenInv, ArcInv
  <2>2. CASE p # r
    <3>1. req'[p] = req[p] /\ RequestInv(req[p]) /\ req[p] \in RequestType
      BY <2>2, <1>1 DEF IInv
    <3>2. (CreateInv(req[p]) /\ EditorInv(req[p]))'
      BY <3>1 DEF RequestInv, CreateInv, EditorInv, Known
    <3>3. ASSUME req[p].kind \in {"reading", "transition", "update"}
          PROVE  /\ req[p].item \in Items /\ 0 < req[p].version
                 /\ req[p].version <= item'[req[p].item].version
                 /\ item'[req[p].item].version = req[p].version =>
                       /\ item'[req[p].item] = item[req[p].item]
      <4> DEFINE q == req[p]
      <4>1. q.item \in Items /\ 0 < q.version /\ q.version <= item[q.item].version
        BY <3>1, <3>3 DEF RequestInv, ReadInv
      <4>2. q.version \in Nat /\ item[q.item].version \in Nat /\ w.version \in Nat
            /\ item[i].version \in Nat
        BY <4>1, <3>1, <1>1 DEF RequestType, RowType
      <4> QED
        BY <4>1, <4>2, <1>5
    <3>4. (ReadInv(req[p]) /\ SeenInv(req[p]))'
      BY <3>1, <3>3 DEF RequestInv, ReadInv, SeenInv
    <3>5. ArcInv(req[p])'
      BY <3>1, <3>3 DEF RequestInv, ArcInv, Known, Merged
    <3> QED
      BY <3>2, <3>4, <3>5 DEF RequestInv
  <2> QED
    BY <2>1, <2>2
<1>7. ReservedInv'
  <2>1. \A p \in Requests : req'[p].kind = "create" =>
            p # r /\ req'[p] = req[p] /\ req[p].item # i /\ req[p].item \in Items
    BY <1>1, FreeType DEF IInv, RequestInv, CreateInv, OnlyInserter
  <2> QED
    BY <2>1, <1>5 DEF IInv, ReservedInv
<1> QED
  BY <1>2, <1>3, <1>4, <1>6, <1>7 DEF IInv

LEMMA InsertInv ==
  ASSUME IInv, NEW r \in Requests, Insert(r)
  PROVE  IInv' /\ item[req[r].item].version = 0
<1> DEFINE q == req[r]
           i == q.item
           w == [version |-> 1, status |-> q.to, config |-> q.config, fields |-> q.set]
<1>1. q \in RequestType /\ q.kind = "create" /\ RequestInv(q)
  BY DEF IInv, TypeInv, Insert
<1>2. w \in RowType /\ i \in Items /\ Known(w.status, w.config)
  BY <1>1 DEF RequestType, RowType, RequestInv, CreateInv
<1>3. item[i].version = 0
  BY <1>1 DEF IInv, ReservedInv
<1>4. OnlyInserter(r, i)
  BY <1>1 DEF IInv, ReservedInv, OnlyInserter
<1>5. UNCHANGED <<project, configs>> /\ item' = [item EXCEPT ![i] = w]
      /\ req' = [req EXCEPT ![r] = Free]
  BY DEF Insert, Answered
<1>6. item[i].version < w.version
  BY <1>3
<1>7. IInv'
  <2> HIDE DEF q, i, w
  <2>1. w \in RowType /\ i \in Items
    BY <1>2
  <2>2. Known(w.status, w.config)
    BY <1>2
  <2>3. item' = [item EXCEPT ![i] = w]
    BY <1>5
  <2>4. req' = [req EXCEPT ![r] = Free]
    BY <1>5
  <2> QED
    BY <1>4, <1>5, <1>6, <2>1, <2>2, <2>3, <2>4, WriteRow
<1> QED
  BY <1>3, <1>7

(* What Transition writes, and that it is what was checked. *)
LEMMA TransitionInv ==
  ASSUME IInv, NEW r \in Requests, Transition(r)
  PROVE  /\ IInv'
         /\ req[r].item \in Items
         /\ \A j \in Items : j # req[r].item => item'[j] = item[j]
         /\ item[req[r].item].config <= item'[req[r].item].config
         /\ item'[req[r].item].status # item[req[r].item].status
         /\ \E arc \in configs[item'[req[r].item].config].arcs :
               /\ arc.from = item[req[r].item].status
               /\ arc.to = item'[req[r].item].status
               /\ arc.requires \subseteq item'[req[r].item].fields
<1> DEFINE q == req[r]
           i == q.item
           w == [version |-> item[i].version + 1, status |-> q.to, config |-> q.config,
                 fields |-> Merged(item[i].fields, q)]
<1>1. q \in RequestType /\ q.kind = "transition" /\ RequestInv(q)
      /\ item[i].version = q.version /\ q.version < MaxVersion
  BY DEF IInv, TypeInv, Transition, StillCurrent
<1>2. i \in Items /\ 0 < q.version /\ Known(q.to, q.config) /\ item[i].config <= q.config
  BY <1>1 DEF RequestInv, ReadInv, ArcInv
<1>3. PICK arc \in configs[q.config].arcs :
        arc.from = item[i].status /\ arc.to = q.to /\ arc.requires \subseteq Merged(item[i].fields, q)
  BY <1>1 DEF RequestInv, ArcInv
<1>4. arc.from # arc.to
  BY <1>2, <1>3, ConfigTypes DEF IInv, Known, ConfigOK
<1>5. item[i] \in RowType /\ item \in [Items -> RowType]
  BY <1>2 DEF IInv, TypeInv, RowType
<1>6. w \in RowType
  BY <1>1, <1>5 DEF RowType, RequestType, Merged
<1>7. item' = [item EXCEPT ![i] = w] /\ req' = [req EXCEPT ![r] = Free]
      /\ UNCHANGED <<project, configs>>
  BY DEF Transition, Answered
<1>8. OnlyInserter(r, i)
  BY <1>1, <1>2 DEF IInv, ReservedInv, RequestType, OnlyInserter
<1>9. IInv'
  <2>1. item[i].version < w.version /\ Known(w.status, w.config)
    BY <1>2, <1>5 DEF RowType
  <2> HIDE DEF i, w
  <2> QED
    BY <2>1, <1>2, <1>6, <1>7, <1>8, WriteRow
<1>10. item'[i] = w /\ \A j \in Items : j # i => item'[j] = item[j]
  BY <1>2, <1>5, <1>7
<1> QED
  BY <1>2, <1>3, <1>4, <1>9, <1>10

LEMMA UpdateItemFieldsInv ==
  ASSUME IInv, NEW r \in Requests, UpdateItemFields(r)
  PROVE  /\ IInv'
         /\ \A j \in Items : item'[j].status = item[j].status /\ item'[j].config = item[j].config
<1> DEFINE q == req[r]
           i == q.item
           w == [item[i] EXCEPT !.version = @ + 1, !.fields = Merged(@, q)]
<1>1. q \in RequestType /\ q.kind = "update" /\ RequestInv(q)
      /\ item[i].version = q.version /\ q.version < MaxVersion
  BY DEF IInv, TypeInv, UpdateItemFields, StillCurrent
<1>2. i \in Items /\ 0 < q.version
  BY <1>1 DEF RequestInv, ReadInv
<1>3. item[i] \in RowType /\ item \in [Items -> RowType]
  BY <1>2 DEF IInv, TypeInv, RowType
<1>4. /\ w \in RowType /\ w.status = item[i].status /\ w.config = item[i].config
      /\ w.version = item[i].version + 1
  <2>1. Merged(item[i].fields, q) \in SUBSET Fields /\ item[i].version + 1 \in 0..MaxVersion
    BY <1>1, <1>3 DEF RowType, RequestType, Merged
  <2> HIDE DEF q, i
  <2> QED
    BY <2>1, <1>3 DEF RowType
<1>5. item' = [item EXCEPT ![i] = w] /\ req' = [req EXCEPT ![r] = Free]
      /\ UNCHANGED <<project, configs>>
  BY <1>3 DEF UpdateItemFields, Answered, RowType
<1>6. OnlyInserter(r, i)
  BY <1>1, <1>2 DEF IInv, ReservedInv, RequestType, OnlyInserter
<1>7. Known(w.status, w.config)
  BY <1>1, <1>2, <1>4 DEF IInv, RequestType
<1>8. IInv'
  <2>1. item[i].version < w.version
    BY <1>3, <1>4 DEF RowType
  <2> HIDE DEF i, w
  <2> QED
    BY <2>1, <1>2, <1>4, <1>5, <1>6, <1>7, WriteRow
<1>9. \A j \in Items : item'[j] = IF j = i THEN w ELSE item[j]
  BY <1>2, <1>3, <1>5
<1> QED
  BY <1>4, <1>8, <1>9

-----------------------------------------------------------------------------
LEMMA NextInv == IInv /\ [Next]_vars => IInv'
<1> SUFFICES ASSUME IInv, [Next]_vars PROVE IInv'
  OBVIOUS
<1>1. CASE CreateProject
  BY <1>1, CreateProjectInv
<1>2. ASSUME NEW r \in Requests, Step(r) PROVE IInv'
  BY <1>2, ReadsInv, ReadInitialInv, ReadArcInv, UpdateProjectInv, UpdateWorkflowInv,
     InsertInv, TransitionInv, UpdateItemFieldsInv DEF Step
<1>3. CASE UNCHANGED vars
  BY <1>3 DEF vars, IInv, TypeInv, ConfigsInv, ConfigOK, Known, RequestInv, CreateInv,
              EditorInv, ReadInv, SeenInv, ArcInv, Merged, ReservedInv
<1> QED
  BY <1>1, <1>2, <1>3 DEF Next

LEMMA Invariance == Spec => []IInv
BY InitInv, NextInv, PTL DEF Spec

(* projects.go, workflow.go, items.go: rows have the shape of the schema,  *)
(* and every configuration in force is one that updateWorkflow's checks or *)
(* the seed let through.                                                   *)
THEOREM TypeCorrect == Spec => []WorkflowTypeOK
<1>1. IInv => WorkflowTypeOK
  <2> SUFFICES ASSUME IInv PROVE WorkflowTypeOK
    OBVIOUS
  <2>1. \A v \in 1..Latest : ConfigOK(configs[v])
    BY DEF IInv, ConfigsInv, Latest
  <2> QED
    BY <2>1 DEF IInv, TypeInv, ConfigsInv, WorkflowTypeOK, Configs, ConfigOK
<1> QED
  BY <1>1, Invariance, PTL

(* workflow.go:122: an item's status is one of the configuration it was    *)
(* checked against and of every later one, whatever is published while     *)
(* requests are under way.                                                 *)
THEOREM StatusesRetained == Spec => []StatusRetained
<1>1. IInv => StatusRetained
  <2> SUFFICES ASSUME IInv, NEW i \in Items, item[i].version > 0
               PROVE  /\ item[i].config \in 1..Latest
                      /\ \A v \in item[i].config..Latest : item[i].status \in configs[v].statuses
    BY DEF StatusRetained
  <2>1. item[i].config \in 1..Latest /\ item[i].status \in configs[item[i].config].statuses
    BY DEF IInv, Known, Latest
  <2>2. Latest \in Nat
    BY LenProperties DEF IInv, ConfigsInv, Latest
  <2>3. ASSUME NEW v \in item[i].config..Latest
        PROVE  configs[item[i].config].statuses \subseteq configs[v].statuses
    BY <2>1, <2>2 DEF IInv, ConfigsInv, Latest
  <2> QED
    BY <2>1, <2>3
<1> QED
  BY <1>1, Invariance, PTL

(* transition.go:54: a status changes only along an arc of the             *)
(* configuration the row is then stamped with, with its requirements met,  *)
(* and the stamp only moves forward, in spite of the three separate reads. *)
THEOREM StatusesFollowArcs == Spec => StatusFollowsArc
<1> DEFINE Follows(i) ==
      /\ item'[i].status # item[i].status =>
          \E arc \in configs[item'[i].config].arcs :
              /\ arc.from = item[i].status
              /\ arc.to = item'[i].status
              /\ arc.requires \subseteq item'[i].fields
      /\ item'[i].config # item[i].config =>
             item'[i].config > item[i].config /\ item'[i].status # item[i].status
<1>1. ASSUME IInv, [Next]_vars, NEW i \in Items, item[i].version > 0
      PROVE  Follows(i)
  <2>1. CASE item' = item
    BY <2>1
  <2>2. ASSUME NEW r \in Requests, Insert(r) PROVE Follows(i)
    <3>1. req[r].item # i
      BY <1>1, <2>2, InsertInv
    <3>2. item'[i] = item[i]
      BY <1>1, <2>2, <3>1 DEF Insert, IInv, TypeInv
    <3> QED
      BY <3>2
  <2>3. ASSUME NEW r \in Requests, Transition(r) PROVE Follows(i)
    <3>1. CASE i # req[r].item
      BY <1>1, <2>3, <3>1, TransitionInv
    <3>2. CASE i = req[r].item
      <4>1. IInv'
        BY <1>1, <2>3, TransitionInv
      <4>2. item'[i].config \in Nat /\ item[i].config \in Nat
        BY <1>1, <4>1 DEF IInv, TypeInv
      <4> QED
        BY <1>1, <2>3, <3>2, <4>2, TransitionInv
    <3> QED
      BY <3>1, <3>2
  <2>4. ASSUME NEW r \in Requests, UpdateItemFields(r) PROVE Follows(i)
    BY <1>1, <2>4, UpdateItemFieldsInv
  <2>5. ASSUME NEW r \in Requests, Step(r), ~ Insert(r), ~ Transition(r), ~ UpdateItemFields(r)
        PROVE  item' = item
    BY <2>5 DEF Step, GetProject, UpdateProject, GetConfig, UpdateWorkflow, ReadInitial,
                ReadForTransition, ReadArc, ReadForUpdate, Refuse
  <2>6. CreateProject \/ UNCHANGED vars => item' = item
    BY DEF CreateProject, vars
  <2> HIDE DEF Follows
  <2> QED
    BY <1>1, <2>1, <2>2, <2>3, <2>4, <2>5, <2>6 DEF Next
<1>2. IInv /\ [Next]_vars => [\A i \in Items : item[i].version > 0 => Follows(i)]_vars
  BY <1>1
<1> QED
  BY <1>2, Invariance, PTL DEF Spec, StatusFollowsArc
=============================================================================
