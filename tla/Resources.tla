----------------------------- MODULE Resources -----------------------------
(***************************************************************************)
(* The resources of the control plane: their tables and transactions       *)
(* (resources.go), the requests of the API and of the dashboard's two      *)
(* forms (main.go, Resources.jsx), and the server that Traefik is told to  *)
(* send TCP and UDP traffic to (traefikconfig.go).                         *)
(*                                                                         *)
(* A client has one request under way.  Its statements interleave with     *)
(* those of the others; readers see what is committed; a row being written *)
(* makes other writers wait (READ COMMITTED, as the pool is configured).   *)
(***************************************************************************)
EXTENDS Integers, FiniteSets, Sequences

CONSTANTS
  Names,     \* names of resources
  Nodes,     \* names of mesh nodes
  Addrs,     \* addresses, of nodes and of others
  MeshIP,    \* the address of each node, for life
  Clients,   \* bound: requests under way
  Requests,  \* what the API may be asked to store
  Rests,     \* what else a resource has: entry point, resolver, scheme ...
  Kinds,     \* bound: what clients do, of "create", "update", "delete",
             \* "edit" (the resource form) and "wizard" (the name server's)
  Pair,      \* the two names a wizard gives, for tcp and for udp
  WizardTargets,  \* and the targets it may be told
  DbFaults,  \* whether a statement may fail although nothing is wrong
  None       \* "no domain", "no node", "nobody" ...

Roles == {"primary", "backup"}
Row   == [by : Clients, pos : Nat, node : Nodes \cup {None},
          address : Addrs \cup {None}, role : Roles]

(* A target, and a resource, as they are sent: a string that is not there  *)
(* is None, one that the code does not know is "other".                    *)
Target == [node : Nodes \cup {None}, address : Addrs \cup {None},
           role : Roles \cup {"", "other"}]

(* What is stored of a resource, and what is listed of its targets.        *)
Stored == [protocol : {"http", "tcp", "udp", "other"},
           domain : {None} \cup {req.domain : req \in Requests},
           rest : {"dns"} \cup Rests \cup {req.rest : req \in Requests}]
Listed == [pos : Nat, node : Nodes \cup {None}, address : Addrs \cup {None}, role : Roles]

Payload == [protocol : {"http", "tcp", "udp", "other"},
            domain : {None} \cup {req.domain : req \in Requests},
            rest : {"dns"} \cup Rests \cup {req.rest : req \in Requests},
            targets : Seq(Target)]

(* What a client wants, and the targets its form was filled with.          *)
JobType == [kind : {"create", "update", "delete", "edit", "wizard"}, name : Names,
            req : Payload \cup {None}, loaded : SUBSET Listed]

ASSUME MeshAssumption == MeshIP \in [Nodes -> Addrs]
ASSUME PairAssumption == Pair \in Names \X Names /\ DbFaults \in BOOLEAN
ASSUME NoneAssumption ==
  /\ None \notin Nodes /\ None \notin Addrs /\ None \notin Clients
  /\ None \notin Row /\ None \notin Stored /\ None \notin JobType
ASSUME RequestAssumption ==
  Requests \subseteq Payload /\ WizardTargets \subseteq Seq(Target)

VARIABLES
  resources,  \* committed: protocol, domain and rest of each resource, or None
  targets,    \* committed: the rows of resource_targets of each resource
  nodes,      \* the nodes that have a row
  lock,       \* the client whose transaction has written the resource's row
  pc,         \* how far each client's request is
  job,        \* and what it wants
  gone,       \* rows its transaction has deleted
  new         \* rows its transaction has inserted

tables == <<resources, targets, nodes>>
vars   == <<tables, lock, pc, job, gone, new>>

Stages == {"idle", "form", "begin", "clear", "insert"}

Fields(req) == [protocol |-> req.protocol, domain |-> req.domain, rest |-> req.rest]

DefaultRole(role) == IF role = "" THEN "primary" ELSE role

(* The row that insertTargets makes of the i-th target of a request.       *)
RowOf(c, req, i) ==
  LET t == req.targets[i]
  IN  [by |-> c, pos |-> i, node |-> t.node, address |-> t.address,
       role |-> DefaultRole(t.role)]

(* Rows as the API lists them.                                             *)
Untagged(rows) ==
  {[pos |-> t.pos, node |-> t.node, address |-> t.address, role |-> t.role] : t \in rows}

(* A slip of validateTargets: two targets may have any roles.              *)
CountOnly(req) ==
  /\ req.targets # <<>>
  /\ \A i \in DOMAIN req.targets :
       (req.targets[i].node = None) # (req.targets[i].address = None)
  /\ req.protocol \in {"http", "tcp", "udp"}
  /\ req.protocol \in {"tcp", "udp"} => Len(req.targets) <= 2

(* validateTargets.  The roles of http targets and of single ones are not  *)
(* looked at.                                                              *)
Valid(req) ==
  /\ req.targets # <<>>
  /\ \A i \in DOMAIN req.targets :
       (req.targets[i].node = None) # (req.targets[i].address = None)
  /\ req.protocol \in {"http", "tcp", "udp"}
  /\ req.protocol \in {"tcp", "udp"} =>
       /\ Len(req.targets) <= 2
       /\ Len(req.targets) = 2 =>
            Roles \subseteq {DefaultRole(req.targets[i].role) : i \in {1, 2}}

Init ==
  /\ resources = [n \in Names |-> None]
  /\ targets = [n \in Names |-> {}]
  /\ nodes = {}
  /\ lock = [n \in Names |-> None]
  /\ pc = [c \in Clients |-> "idle"]
  /\ job = [c \in Clients |-> None]
  /\ gone = [c \in Clients |-> {}]
  /\ new = [c \in Clients |-> {}]

(* A node registers for the first time.  No row of nodes is ever deleted.  *)
Register(n) ==
  /\ nodes' = nodes \cup {n}
  /\ UNCHANGED <<resources, targets, lock, pc, job, gone, new>>
-----------------------------------------------------------------------------
(* Requests.                                                               *)

(* The request of client c is being handled, or was turned down at once.   *)
Ask(c, j) ==
  /\ IF j.kind = "delete" \/ Valid(j.req)
     THEN pc' = [pc EXCEPT ![c] = "begin"] /\ job' = [job EXCEPT ![c] = j]
     ELSE pc' = [pc EXCEPT ![c] = "idle"]  /\ job' = [job EXCEPT ![c] = None]
  /\ UNCHANGED <<tables, lock, gone, new>>

Job(kind, n, req) == [kind |-> kind, name |-> n, req |-> req, loaded |-> {}]

Request(c, kind, n) ==
  /\ pc[c] = "idle"
  /\ kind \in Kinds \cap {"create", "update"}
  /\ \E req \in Requests : Ask(c, Job(kind, n, req))

DeleteRequest(c, n) ==
  /\ pc[c] = "idle"
  /\ "delete" \in Kinds
  /\ Ask(c, Job("delete", n, None))

(* A slip of targetFromResource: a node-backed target is shown, and saved, *)
(* as the address it has.                                                  *)
FrozenTarget(t) ==
  [node |-> None, address |-> IF t.node = None THEN t.address ELSE MeshIP[t.node],
   role |-> t.role]

(* targetFromResource and back, targetToPayload: node_name decides.        *)
FormTarget(t) ==
  [node |-> t.node, address |-> IF t.node = None THEN t.address ELSE None,
   role |-> t.role]

(* The orders that ORDER BY role allows: backups first.                    *)
Listings(rows) ==
  {s \in [1..Cardinality(rows) -> rows] :
     \A j \in DOMAIN s : \A i \in 1..j - 1 :
        s[i] # s[j] /\ (s[j].role = "backup" => s[i].role = "backup")}

(* The form is filled with what the API listed: initialFormState.          *)
OpenForm(c, n) ==
  /\ pc[c] = "idle"
  /\ "edit" \in Kinds
  /\ resources[n] # None
  /\ \E rows \in Listings(targets[n]) :
       job' = [job EXCEPT ![c] =
         [kind |-> "edit", name |-> n, loaded |-> Untagged(targets[n]),
          req |-> [protocol |-> resources[n].protocol, domain |-> resources[n].domain,
                   rest |-> resources[n].rest,
                   targets |-> [i \in DOMAIN rows |-> FormTarget(rows[i])]]]]
  /\ pc' = [pc EXCEPT ![c] = "form"]
  /\ UNCHANGED <<tables, lock, gone, new>>

(* It is saved later with another entry point, say.  The payload has a     *)
(* domain only for http.                                                   *)
SaveForm(c, rest) ==
  /\ pc[c] = "form"
  /\ LET req == job[c].req
     IN  Ask(c, [job[c] EXCEPT !.req =
                   [req EXCEPT !.rest = rest,
                               !.domain = IF req.protocol = "http" THEN @ ELSE None]])

(* The wizard asks for the tcp resource first.                             *)
WizardRequest(protocol, ts) ==
  [protocol |-> protocol, domain |-> None, rest |-> "dns", targets |-> ts]

StartWizard(c) ==
  /\ pc[c] = "idle"
  /\ "wizard" \in Kinds
  /\ \E ts \in WizardTargets : Ask(c, Job("wizard", Pair[1], WizardRequest("tcp", ts)))
-----------------------------------------------------------------------------
(* Transactions.                                                           *)

(* The transaction of c ends; so do its locks.                             *)
End(c) ==
  /\ lock' = [n \in Names |-> IF lock[n] = c THEN None ELSE lock[n]]
  /\ gone' = [gone EXCEPT ![c] = {}]
  /\ new' = [new EXCEPT ![c] = {}]

(* A slip of the error paths: the transaction stays open.                  *)
NoRollback(c) ==
  /\ UNCHANGED <<tables, lock>>
  /\ gone' = [gone EXCEPT ![c] = {}]
  /\ new' = [new EXCEPT ![c] = {}]
  /\ pc' = [pc EXCEPT ![c] = "idle"]
  /\ job' = [job EXCEPT ![c] = None]

(* A statement failed: the deferred Rollback runs, and the client is told. *)
Fail(c) ==
  /\ End(c)
  /\ pc' = [pc EXCEPT ![c] = "idle"]
  /\ job' = [job EXCEPT ![c] = None]
  /\ UNCHANGED tables

(* INSERT INTO resources: waits for whoever is writing that name.          *)
InsertRow(c) ==
  LET n == job[c].name
  IN  /\ pc[c] = "begin" /\ job[c].kind \in {"create", "wizard"}
      /\ lock[n] = None
      /\ \/ /\ resources[n] = None
            /\ lock' = [lock EXCEPT ![n] = c]
            /\ pc' = [pc EXCEPT ![c] = "insert"]
            /\ UNCHANGED <<tables, job, gone, new>>
         \/ resources[n] # None /\ Fail(c)

(* A slip of UpdateResource: it only looks the id up, and locks nothing.   *)
LookUp(c) ==
  /\ pc[c] = "begin" /\ job[c].kind \in {"update", "edit"}
  /\ IF resources[job[c].name] # None
     THEN pc' = [pc EXCEPT ![c] = "clear"] /\ UNCHANGED <<tables, lock, job, gone, new>>
     ELSE Fail(c)

(* UPDATE resources: waits for the writer of a row that is there; a row    *)
(* that is not committed is not found.                                     *)
UpdateRow(c) ==
  LET n == job[c].name
  IN  /\ pc[c] = "begin" /\ job[c].kind \in {"update", "edit"}
      /\ \/ /\ resources[n] # None /\ lock[n] = None
            /\ lock' = [lock EXCEPT ![n] = c]
            /\ pc' = [pc EXCEPT ![c] = "clear"]
            /\ UNCHANGED <<tables, job, gone, new>>
         \/ resources[n] = None /\ Fail(c)

(* DELETE FROM resource_targets: the rows that are committed by now.       *)
ClearTargets(c) ==
  /\ pc[c] = "clear"
  /\ gone' = [gone EXCEPT ![c] = targets[job[c].name]]
  /\ pc' = [pc EXCEPT ![c] = "insert"]
  /\ UNCHANGED <<tables, lock, job, new>>

(* insertTargets, one target after the other.  The node must have a row,   *)
(* and the column takes no other roles than the two.                       *)
InsertTarget(c) ==
  LET req == job[c].req
      i   == Cardinality(new[c]) + 1
  IN  /\ pc[c] = "insert" /\ i <= Len(req.targets)
      /\ \/ /\ req.targets[i].node \in nodes \cup {None}
            /\ DefaultRole(req.targets[i].role) \in Roles
            /\ new' = [new EXCEPT ![c] = @ \cup {RowOf(c, req, i)}]
            /\ UNCHANGED <<tables, lock, pc, job, gone>>
         \/ /\ \/ req.targets[i].node \notin nodes \cup {None}
               \/ DefaultRole(req.targets[i].role) \notin Roles
            /\ Fail(c)

Written(c) ==
  /\ resources' = [resources EXCEPT ![job[c].name] = Fields(job[c].req)]
  /\ targets' = [targets EXCEPT ![job[c].name] = (@ \ gone[c]) \cup new[c]]
  /\ UNCHANGED nodes

(* After the first of its two resources the wizard asks for the second.    *)
Answered(c) ==
  IF job[c].kind = "wizard" /\ job[c].req.protocol = "tcp"
  THEN /\ pc' = [pc EXCEPT ![c] = "begin"]
       /\ job' = [job EXCEPT ![c] =
            Job("wizard", Pair[2], WizardRequest("udp", @.req.targets))]
  ELSE /\ pc' = [pc EXCEPT ![c] = "idle"]
       /\ job' = [job EXCEPT ![c] = None]

Commit(c) ==
  /\ pc[c] = "insert" /\ Cardinality(new[c]) = Len(job[c].req.targets)
  /\ Written(c) /\ Answered(c) /\ End(c)

(* A failed commit may have been one all the same.                         *)
CommitUnheard(c) ==
  /\ DbFaults
  /\ pc[c] = "insert" /\ Cardinality(new[c]) = Len(job[c].req.targets)
  /\ Written(c) /\ End(c)
  /\ pc' = [pc EXCEPT ![c] = "idle"]
  /\ job' = [job EXCEPT ![c] = None]

(* DELETE FROM resources: one statement; the targets cascade.              *)
DeleteResource(c) ==
  LET n == job[c].name
  IN  /\ pc[c] = "begin" /\ job[c].kind = "delete"
      /\ resources[n] # None => lock[n] = None
      /\ resources' = [resources EXCEPT ![n] = None]
      /\ targets' = [targets EXCEPT ![n] = {}]
      /\ pc' = [pc EXCEPT ![c] = "idle"]
      /\ job' = [job EXCEPT ![c] = None]
      /\ UNCHANGED <<nodes, lock, gone, new>>

Statement(c) ==
  \/ InsertRow(c) \/ UpdateRow(c) \/ ClearTargets(c) \/ InsertTarget(c)
  \/ Commit(c) \/ DeleteResource(c)

(* The next statement, or the commit, fails though nothing is wrong with   *)
(* it, whether or not it was waiting for a lock.                           *)
Fault(c) ==
  /\ DbFaults
  /\ pc[c] \in {"begin", "clear", "insert"}
  /\ Fail(c)

Handle(c) == Statement(c) \/ Fault(c) \/ CommitUnheard(c)

Next ==
  \/ \E n \in Nodes : Register(n)
  \/ \E c \in Clients :
       \/ \E kind \in Kinds, n \in Names : Request(c, kind, n)
       \/ \E n \in Names : DeleteRequest(c, n) \/ OpenForm(c, n)
       \/ \E rest \in Rests : SaveForm(c, rest)
       \/ StartWizard(c)
       \/ Handle(c)

Spec == Init /\ [][Next]_vars

(* A handler goes on while the database answers, which grants a lock to    *)
(* those who wait for it in turn and does not fail every time: nobody is   *)
(* saved from a lock that is never released by a fault of his own.         *)
LiveSpec == Spec /\ \A c \in Clients : SF_vars(Statement(c))
-----------------------------------------------------------------------------
(* What Traefik is told.                                                   *)

(* The one target whose role is r; with several, the last one listed.      *)
WithRole(rows, r) ==
  IF \E t \in rows : t.role = r THEN CHOOSE t \in rows : t.role = r ELSE None

(* selectMasterBackupTarget.  fresh: the nodes with a recent last_seen.    *)
(* None stands for the zero Target, an empty address.                      *)
SelectTarget(rows, fresh) ==
  LET primary == WithRole(rows, "primary")
  IN  IF Cardinality(rows) = 1 THEN CHOOSE t \in rows : TRUE
      ELSE IF primary # None /\ (primary.node = None \/ primary.node \in fresh) THEN primary
      ELSE WithRole(rows, "backup")

(* Generate: the servers of the one service of each resource.              *)
Servers(n, fresh) ==
  IF resources[n].protocol = "http" THEN targets[n] ELSE {SelectTarget(targets[n], fresh)}
-----------------------------------------------------------------------------
(* Properties.                                                             *)

(* Every variable keeps its type.  A resource has targets, and only one    *)
(* transaction writes it.                                                  *)
TypeOK ==
  /\ \A n \in Names :
       /\ IF targets[n] = {} THEN resources[n] = None ELSE resources[n] \in Stored
       /\ targets[n] \subseteq Row /\ IsFiniteSet(targets[n])
       /\ lock[n] \in Clients \cup {None}
       /\ lock[n] # None => pc[lock[n]] \in {"clear", "insert"} /\ job[lock[n]].name = n
  /\ nodes \subseteq Nodes
  /\ \A c \in Clients :
       /\ pc[c] \in Stages
       /\ IF pc[c] = "idle" THEN job[c] = None ELSE job[c] \in JobType
       /\ pc[c] \in {"clear", "insert"} => lock[job[c].name] = c

(* The value that the tables hold for a resource, and that a request asks  *)
(* to be held.                                                             *)
ValueOf(fields, rows) ==
  [protocol |-> fields.protocol, domain |-> fields.domain, rest |-> fields.rest,
   targets |-> Untagged(rows), size |-> Cardinality(rows)]

StoreBar ==
  [n \in Names |-> IF resources[n] = None THEN None ELSE ValueOf(resources[n], targets[n])]

AskedBar ==
  {<<job[c].name, ValueOf(job[c].req,
        {RowOf(c, job[c].req, i) : i \in DOMAIN job[c].req.targets})>> :
     c \in {d \in Clients : pc[d] \in {"begin", "clear", "insert"} /\ job[d].kind # "delete"}}

Store == INSTANCE ResourceStore WITH asked <- AskedBar, store <- StoreBar

(* However transactions interleave and fail, what is listed under a name   *)
(* is all of one valid request and nothing of another ("an edit can't      *)
(* leave a resource in a state that was never a valid create").            *)
ImplementsStore == Store!SSpec

(* Every service has targets of its own resource as servers, whichever     *)
(* nodes are fresh: never the zero Target, and a tcp or udp service leaves *)
(* its primary only when that is a stale node.                             *)
ServersReal ==
  \A n \in Names, fresh \in SUBSET nodes :
     resources[n] # None =>
        /\ Servers(n, fresh) \subseteq targets[n]
        /\ \A p \in targets[n] \ Servers(n, fresh) :
             p.role = "primary" => p.node \in Nodes \ fresh

Kept(rows) == {[node |-> t.node, address |-> t.address, role |-> t.role] : t \in rows}

(* Saving a form whose targets were not touched stores the targets that it *)
(* was opened with: a live-tracked node is not frozen into an address      *)
(* (README.md: "preserve live tracking").                                  *)
EditsKeepTargets ==
  [][\A c \in Clients :
       pc[c] = "insert" /\ job[c].kind = "edit" /\ targets'[job[c].name] # targets[job[c].name]
         /\ lock'[job[c].name] # c
       => /\ Kept(targets'[job[c].name]) = Kept(job[c].loaded)
          /\ Cardinality(targets'[job[c].name]) = Cardinality(job[c].loaded)]_vars

(* Every request is answered: no transaction waits for ever for another,   *)
(* on whichever paths they fail, and every one of those gives up its lock. *)
Finishes == \A c \in Clients : pc[c] \in {"begin", "clear", "insert"} ~> pc[c] \in {"idle", "form"}
=============================================================================
