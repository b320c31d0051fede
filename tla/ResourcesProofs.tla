-------------------------- MODULE ResourcesProofs --------------------------
(***************************************************************************)
(* What is stored of a resource is always one whole valid request, and a   *)
(* form that is saved with its targets untouched keeps them, for any       *)
(* names, nodes, requests and number of clients.                           *)
(***************************************************************************)
EXTENDS Resources, FunctionTheorems, FiniteSetTheorems, TLAPS

(* The rows of the first k targets of a request, and of all of them.       *)
Rows(c, req, k) == {RowOf(c, req, i) : i \in 1..k}
AllRows(c, req) == {RowOf(c, req, i) : i \in DOMAIN req.targets}

(* A resource is not there at all, or is what one client asked for.        *)
Whole(n) ==
  \/ resources[n] = None /\ targets[n] = {}
  \/ \E req \in Payload, c \in Clients :
        /\ Valid(req)
        /\ resources[n] = Fields(req)
        /\ targets[n] = Rows(c, req, Len(req.targets))
        /\ targets[n] \subseteq Row
        /\ IsFiniteSet(targets[n]) /\ Cardinality(targets[n]) = Len(req.targets)

(* A valid request is under way.                                           *)
Asking(c) == pc[c] \in {"begin", "clear", "insert"} /\ job[c].kind # "delete"

(* What the transaction of c has done so far.                              *)
Inserted(c) ==
  \E k \in 0..Len(job[c].req.targets) :
     /\ new[c] = Rows(c, job[c].req, k)
     /\ IsFiniteSet(new[c]) /\ Cardinality(new[c]) = k
     /\ new[c] \subseteq Row
     /\ gone[c] = targets[job[c].name]

ClientInv(c) ==
  /\ pc[c] \in Stages
  /\ IF pc[c] = "idle" THEN job[c] = None ELSE job[c] \in JobType
  /\ pc[c] = "form" => job[c].req \in Payload /\ job[c].kind = "edit"
  /\ Asking(c) => job[c].req \in Payload /\ Valid(job[c].req)
  /\ pc[c] \in {"clear", "insert"} => job[c].kind # "delete" /\ lock[job[c].name] = c
  /\ IF pc[c] = "insert" THEN Inserted(c) ELSE new[c] = {} /\ gone[c] = {}

NameInv(n) ==
  /\ Whole(n)
  /\ lock[n] \in Clients \cup {None}
  /\ lock[n] # None => pc[lock[n]] \in {"clear", "insert"} /\ job[lock[n]].name = n

Shapes ==
  /\ resources = [n \in Names |-> resources[n]] /\ targets = [n \in Names |-> targets[n]]
  /\ lock = [n \in Names |-> lock[n]]
  /\ pc = [c \in Clients |-> pc[c]] /\ job = [c \in Clients |-> job[c]]
  /\ gone = [c \in Clients |-> gone[c]] /\ new = [c \in Clients |-> new[c]]

ResInv ==
  /\ Shapes
  /\ nodes \subseteq Nodes
  /\ \A c \in Clients : ClientInv(c)
  /\ \A n \in Names : NameInv(n)
-----------------------------------------------------------------------------
(* Rows.                                                                   *)

(* Rows of one more target are one row more.                               *)
LEMMA OneMore ==
  ASSUME NEW c, NEW req, NEW k \in Nat,
         IsFiniteSet(Rows(c, req, k)), Cardinality(Rows(c, req, k)) = k
  PROVE  /\ Rows(c, req, k + 1) = Rows(c, req, k) \cup {RowOf(c, req, k + 1)}
         /\ IsFiniteSet(Rows(c, req, k + 1)) /\ Cardinality(Rows(c, req, k + 1)) = k + 1
<1>1. 1..(k + 1) = (1..k) \cup {k + 1}
  OBVIOUS
<1>2. Rows(c, req, k + 1) = Rows(c, req, k) \cup {RowOf(c, req, k + 1)}
  BY <1>1 DEF Rows
<1>3. RowOf(c, req, k + 1) \notin Rows(c, req, k)
  <2>1. \A i \in 1..k : RowOf(c, req, i).pos # RowOf(c, req, k + 1).pos
    BY DEF RowOf
  <2> QED
    BY <2>1 DEF Rows
<1>4. /\ IsFiniteSet(Rows(c, req, k) \cup {RowOf(c, req, k + 1)})
      /\ Cardinality(Rows(c, req, k) \cup {RowOf(c, req, k + 1)}) = k + 1
  BY <1>3, FS_AddElement
<1> QED
  BY <1>2, <1>4

(* No targets make no rows.                                                *)
LEMMA NoRows ==
  ASSUME NEW c, NEW req
  PROVE  Rows(c, req, 0) = {} /\ IsFiniteSet({}) /\ Cardinality({}) = 0
BY FS_EmptySet DEF Rows

(* The targets of a payload are a sequence.                                *)
LEMMA PayloadTargets ==
  ASSUME NEW req \in Payload
  PROVE  /\ req.targets \in Seq(Target)
         /\ Len(req.targets) \in Nat /\ DOMAIN req.targets = 1..Len(req.targets)
         /\ \A c : AllRows(c, req) = Rows(c, req, Len(req.targets))
BY DEF Payload, AllRows, Rows

(* Fields that are stored, rows that are listed.                           *)
LEMMA StoredFields ==
  ASSUME NEW req \in Payload
  PROVE  Fields(req) \in Stored /\ Fields(req) # None
<1>1. Fields(req) \in Stored
  BY DEF Payload, Fields, Stored
<1> QED
  BY <1>1, NoneAssumption
-----------------------------------------------------------------------------
(* What a step leaves alone.                                               *)

(* A client that does nothing: its locks stay, and what it has locked is   *)
(* not written.                                                            *)
LEMMA ClientKept ==
  ASSUME NEW d \in Clients, ClientInv(d),
         pc'[d] = pc[d], job'[d] = job[d], new'[d] = new[d], gone'[d] = gone[d],
         pc[d] \in {"clear", "insert"} =>
            /\ lock'[job[d].name] = d
            /\ targets'[job[d].name] = targets[job[d].name]
  PROVE  ClientInv(d)'
<1>1. pc[d] = "insert" /\ Inserted(d) => Inserted(d)'
  BY DEF Inserted
<1> QED
  BY <1>1 DEF ClientInv, Asking

(* A resource that is not written, whose writer stays.                     *)
LEMMA NameKept ==
  ASSUME NEW n \in Names, NameInv(n),
         resources'[n] = resources[n], targets'[n] = targets[n], lock'[n] = lock[n],
         lock[n] # None => /\ pc'[lock[n]] \in {"clear", "insert"}
                           /\ job'[lock[n]].name = job[lock[n]].name
  PROVE  NameInv(n)'
<1>1. Whole(n)'
  BY DEF NameInv, Whole
<1> QED
  BY <1>1 DEF NameInv

(* Only c has a step, and it is not one of a transaction.                  *)
LEMMA OutsideKept ==
  ASSUME ResInv, NEW c \in Clients, pc[c] \notin {"clear", "insert"},
         UNCHANGED <<tables, lock, gone, new>>,
         NEW p, NEW j, pc' = [pc EXCEPT ![c] = p], job' = [job EXCEPT ![c] = j],
         ClientInv(c)'
  PROVE  ResInv'
<1>0. /\ resources' = resources /\ targets' = targets /\ nodes' = nodes
      /\ lock' = lock /\ gone' = gone /\ new' = new
  BY DEF tables
<1>1. Shapes'
  BY <1>0 DEF ResInv, Shapes
<1>2. ASSUME NEW d \in Clients, d # c PROVE ClientInv(d)'
  <2>1. /\ pc'[d] = pc[d] /\ job'[d] = job[d] /\ new'[d] = new[d] /\ gone'[d] = gone[d]
        /\ lock'[job[d].name] = lock[job[d].name]
        /\ targets'[job[d].name] = targets[job[d].name]
    BY <1>0, <1>2 DEF ResInv, Shapes
  <2>2. ClientInv(d) /\ (pc[d] \in {"clear", "insert"} => lock[job[d].name] = d)
    BY DEF ResInv, ClientInv
  <2> QED
    BY <2>1, <2>2, ClientKept
<1>3. ASSUME NEW n \in Names PROVE NameInv(n)'
  <2>1. lock[n] # c /\ lock[n] \in Clients \cup {None}
    BY NoneAssumption DEF ResInv, NameInv
  <2> QED
    <3>1. NameInv(n)
      BY DEF ResInv
    <3>2. lock[n] # None => pc'[lock[n]] = pc[lock[n]] /\ job'[lock[n]] = job[lock[n]]
      BY <2>1 DEF ResInv, Shapes
    <3>3. lock[n] # None => pc[lock[n]] \in {"clear", "insert"}
      BY <3>1 DEF NameInv
    <3> QED
      BY <1>0, <3>1, <3>2, <3>3, NameKept
<1> QED
  BY <1>0, <1>1, <1>2, <1>3 DEF ResInv

(* A request is turned down or handled.                                    *)
LEMMA AskKeeps ==
  ASSUME ResInv, NEW c \in Clients, pc[c] \in {"idle", "form"},
         NEW j \in JobType, j.kind # "delete" => j.req \in Payload,
         Ask(c, j)
  PROVE  ResInv'
<1>1. new[c] = {} /\ gone[c] = {} /\ new' = new /\ gone' = gone
  BY DEF ResInv, ClientInv, Ask
<1>2. CASE j.kind = "delete" \/ Valid(j.req)
  <2>1. pc' = [pc EXCEPT ![c] = "begin"] /\ job' = [job EXCEPT ![c] = j]
    BY <1>2 DEF Ask
  <2>2. pc'[c] = "begin" /\ job'[c] = j
    BY <2>1 DEF ResInv, Shapes
  <2>3. ClientInv(c)'
    BY <1>1, <1>2, <2>2 DEF ClientInv, Asking, Stages
  <2> QED
    BY <2>1, <2>3, OutsideKept DEF Ask
<1>3. CASE ~(j.kind = "delete" \/ Valid(j.req))
  <2>1. pc' = [pc EXCEPT ![c] = "idle"] /\ job' = [job EXCEPT ![c] = None]
    BY <1>3 DEF Ask
  <2>2. pc'[c] = "idle" /\ job'[c] = None
    BY <2>1 DEF ResInv, Shapes
  <2>3. ClientInv(c)'
    BY <1>1, <2>2 DEF ClientInv, Asking, Stages
  <2> QED
    BY <2>1, <2>3, OutsideKept DEF Ask
<1> QED
  BY <1>2, <1>3

(* The requests of the API, of the form and of the wizard.                 *)
LEMMA RequestSteps ==
  ASSUME ResInv, NEW c \in Clients,
         \/ \E kind \in Kinds, n \in Names : Request(c, kind, n)
         \/ \E n \in Names : DeleteRequest(c, n)
         \/ \E rest \in Rests : SaveForm(c, rest)
         \/ StartWizard(c)
  PROVE  ResInv'
<1>1. ASSUME NEW kind \in Kinds, NEW n \in Names, Request(c, kind, n) PROVE ResInv'
  <2>1. PICK req \in Requests : Ask(c, Job(kind, n, req))
    BY <1>1 DEF Request
  <2>2. kind \in {"create", "update"} /\ pc[c] = "idle"
    BY <1>1 DEF Request
  <2>3. req \in Payload
    BY RequestAssumption
  <2>4. Job(kind, n, req) \in JobType /\ Job(kind, n, req).req \in Payload
    BY <2>2, <2>3 DEF Job, JobType
  <2> QED
    BY <2>1, <2>2, <2>4, AskKeeps
<1>2. ASSUME NEW n \in Names, DeleteRequest(c, n) PROVE ResInv'
  <2>1. Job("delete", n, None) \in JobType /\ Job("delete", n, None).kind = "delete"
    BY DEF Job, JobType
  <2> QED
    BY <1>2, <2>1, AskKeeps DEF DeleteRequest
<1>3. ASSUME NEW rest \in Rests, SaveForm(c, rest) PROVE ResInv'
  <2>1. pc[c] = "form" /\ job[c] \in JobType /\ job[c].req \in Payload
    BY <1>3, RequestAssumption DEF SaveForm, ResInv, ClientInv
  <2> DEFINE req == [job[c].req EXCEPT !.rest = rest,
                        !.domain = IF job[c].req.protocol = "http" THEN @ ELSE None]
             j == [job[c] EXCEPT !.req = req]
  <2>2. req \in Payload
    BY <2>1, <1>3 DEF Payload
  <2>3. j \in JobType /\ j.req = req
    BY <2>1, <2>2 DEF JobType
  <2>4. Ask(c, j)
    BY <1>3 DEF SaveForm
  <2> HIDE DEF j, req
  <2> QED
    BY <2>1, <2>2, <2>3, <2>4, AskKeeps
<1>4. ASSUME StartWizard(c) PROVE ResInv'
  <2>1. PICK ts \in WizardTargets : Ask(c, Job("wizard", Pair[1], WizardRequest("tcp", ts)))
    BY <1>4 DEF StartWizard
  <2>2. ts \in Seq(Target) /\ Pair[1] \in Names
    BY RequestAssumption, PairAssumption
  <2>3. WizardRequest("tcp", ts) \in Payload
    BY <2>2 DEF WizardRequest, Payload
  <2>4. /\ Job("wizard", Pair[1], WizardRequest("tcp", ts)) \in JobType
        /\ Job("wizard", Pair[1], WizardRequest("tcp", ts)).req \in Payload
    BY <2>2, <2>3 DEF Job, JobType
  <2> QED
    BY <1>4, <2>1, <2>4, AskKeeps DEF StartWizard
<1> QED
  BY <1>1, <1>2, <1>3, <1>4

(* A form is filled with targets as they are stored.                       *)
LEMMA OpenFormKeeps ==
  ASSUME ResInv, NEW c \in Clients, NEW n \in Names, OpenForm(c, n)
  PROVE  ResInv'
<1>1. PICK rows \in Listings(targets[n]) :
         job' = [job EXCEPT ![c] =
           [kind |-> "edit", name |-> n, loaded |-> Untagged(targets[n]),
            req |-> [protocol |-> resources[n].protocol, domain |-> resources[n].domain,
                     rest |-> resources[n].rest,
                     targets |-> [i \in DOMAIN rows |-> FormTarget(rows[i])]]]]
  BY DEF OpenForm
<1>2. pc[c] = "idle" /\ resources[n] # None /\ pc' = [pc EXCEPT ![c] = "form"]
  BY DEF OpenForm
<1>3. resources[n] \in Stored /\ targets[n] \subseteq Row /\ Cardinality(targets[n]) \in Nat
  BY <1>2, StoredFields, PayloadTargets DEF ResInv, NameInv, Whole
<1>4. rows \in [1..Cardinality(targets[n]) -> targets[n]]
  BY DEF Listings
<1>5. \A i \in 1..Cardinality(targets[n]) : FormTarget(rows[i]) \in Target
  <2>1. ASSUME NEW t \in Row PROVE FormTarget(t) \in Target
    BY DEF FormTarget, Target, Row, Roles
  <2>2. \A i \in 1..Cardinality(targets[n]) : rows[i] \in Row
    BY <1>3, <1>4
  <2> QED
    BY <2>1, <2>2
<1> DEFINE ts == [i \in DOMAIN rows |-> FormTarget(rows[i])]
<1>6. ts \in Seq(Target)
  <2>1. ts \in [1..Cardinality(targets[n]) -> Target]
    BY <1>4, <1>5
  <2> HIDE DEF ts
  <2> QED
    BY <1>3, <2>1
<1>7. Untagged(targets[n]) \subseteq Listed
  BY <1>3 DEF Untagged, Listed, Row
<1> DEFINE req == [protocol |-> resources[n].protocol, domain |-> resources[n].domain,
                   rest |-> resources[n].rest, targets |-> ts]
           j == [kind |-> "edit", name |-> n, loaded |-> Untagged(targets[n]), req |-> req]
<1>8. req \in Payload
  <2> HIDE DEF ts
  <2> QED
    BY <1>3, <1>6 DEF Stored, Payload
<1>9. j \in JobType /\ j.req = req /\ j.kind = "edit" /\ job' = [job EXCEPT ![c] = j]
  <2>1. job' = [job EXCEPT ![c] = j]
    BY <1>1
  <2> HIDE DEF req
  <2> QED
    BY <1>7, <1>8, <2>1 DEF JobType
<1> HIDE DEF j, req
<1>10. ClientInv(c)'
  <2>1. pc'[c] = "form" /\ job'[c] = j
    BY <1>2, <1>9 DEF ResInv, Shapes
  <2>2. new'[c] = {} /\ gone'[c] = {}
    BY <1>2 DEF OpenForm, ResInv, ClientInv
  <2> QED
    BY <1>8, <1>9, <2>1, <2>2 DEF ClientInv, Asking, Stages
<1> QED
  BY <1>2, <1>9, <1>10, OutsideKept DEF OpenForm
-----------------------------------------------------------------------------
(* Transactions.                                                           *)

(* c has a step in which it writes nothing and keeps, takes or gives up    *)
(* the lock of its own resource.                                           *)
LEMMA TransactionKept ==
  ASSUME ResInv, NEW c \in Clients, UNCHANGED tables, Shapes',
         \A d \in Clients : d # c => /\ pc'[d] = pc[d] /\ job'[d] = job[d]
                                     /\ new'[d] = new[d] /\ gone'[d] = gone[d],
         ClientInv(c)',
         \A n \in Names :
            \/ /\ lock'[n] = lock[n]
               /\ lock[n] = c => pc'[c] \in {"clear", "insert"} /\ job'[c].name = n
            \/ lock[n] = c /\ lock'[n] = None
            \/ /\ lock[n] = None /\ lock'[n] = c
               /\ pc'[c] \in {"clear", "insert"} /\ job'[c].name = n
  PROVE  ResInv'
<1>0. resources' = resources /\ targets' = targets /\ nodes' = nodes /\ nodes \subseteq Nodes
  BY DEF tables, ResInv
<1>1. ASSUME NEW d \in Clients, d # c PROVE ClientInv(d)'
  <2>1. ClientInv(d)
    BY DEF ResInv
  <2>2. pc[d] \in {"clear", "insert"} => lock[job[d].name] = d /\ job[d].name \in Names
    BY <2>1 DEF ClientInv, JobType
  <2>3. d # None
    BY NoneAssumption
  <2>4. pc[d] \in {"clear", "insert"} => lock'[job[d].name] = d
    BY <1>1, <2>2, <2>3
  <2> QED
    BY <1>0, <1>1, <2>1, <2>4, ClientKept
<1>2. ASSUME NEW n \in Names PROVE NameInv(n)'
  <2>1. NameInv(n) /\ Whole(n)'
    BY <1>0 DEF ResInv, NameInv, Whole
  <2>2. CASE lock'[n] = lock[n] /\ lock[n] # c
    BY <1>0, <2>1, <2>2, NameKept DEF NameInv
  <2>3. CASE lock'[n] = c
    BY <2>1, <2>3 DEF NameInv
  <2>4. CASE lock'[n] = None
    BY <2>1, <2>4 DEF NameInv
  <2> QED
    BY <2>2, <2>3, <2>4
<1> QED
  BY <1>0, <1>1, <1>2 DEF ResInv

(* Whatever fails, the locks and the rows of the transaction are given up. *)
LEMMA FailKeeps ==
  ASSUME ResInv, NEW c \in Clients, Fail(c)
  PROVE  ResInv'
<1>1. /\ lock' = [n \in Names |-> IF lock[n] = c THEN None ELSE lock[n]]
      /\ gone' = [gone EXCEPT ![c] = {}] /\ new' = [new EXCEPT ![c] = {}]
      /\ pc' = [pc EXCEPT ![c] = "idle"] /\ job' = [job EXCEPT ![c] = None]
      /\ UNCHANGED tables
  BY DEF Fail, End
<1>2. Shapes'
  BY <1>1 DEF ResInv, Shapes, tables
<1>3. ClientInv(c)'
  BY <1>1 DEF ResInv, Shapes, ClientInv, Asking, Stages
<1>4. \A d \in Clients : d # c => /\ pc'[d] = pc[d] /\ job'[d] = job[d]
                                  /\ new'[d] = new[d] /\ gone'[d] = gone[d]
  BY <1>1 DEF ResInv, Shapes
<1>5. \A n \in Names : IF lock[n] = c THEN lock'[n] = None ELSE lock'[n] = lock[n]
  BY <1>1
<1> QED
  BY <1>1, <1>2, <1>3, <1>4, <1>5, TransactionKept

(* The name that c writes, and what it has locked.                         *)
LEMMA JobTyped ==
  ASSUME ResInv, NEW c \in Clients, pc[c] # "idle"
  PROVE  job[c] \in JobType /\ job[c].name \in Names
BY DEF ResInv, ClientInv, JobType

(* A row that is not there has no targets.                                 *)
LEMMA NoneEmpty ==
  ASSUME ResInv, NEW n \in Names, resources[n] = None
  PROVE  targets[n] = {}
BY StoredFields DEF ResInv, NameInv, Whole

(* INSERT INTO resources takes the lock of a name that nobody holds.       *)
LEMMA InsertRowKeeps ==
  ASSUME ResInv, NEW c \in Clients, InsertRow(c)
  PROVE  ResInv'
<1>1. CASE Fail(c)
  BY <1>1, FailKeeps
<1>2. CASE ~Fail(c)
  <2> DEFINE n == job[c].name
  <2>1. /\ pc[c] = "begin" /\ job[c].kind \in {"create", "wizard"}
        /\ lock[n] = None /\ resources[n] = None
        /\ lock' = [lock EXCEPT ![n] = c] /\ pc' = [pc EXCEPT ![c] = "insert"]
        /\ UNCHANGED <<tables, job, gone, new>>
    BY <1>2 DEF InsertRow
  <2>2. n \in Names
    BY <2>1, JobTyped
  <2>3. targets[n] = {}
    BY <2>1, <2>2, NoneEmpty
  <2>4. Asking(c) /\ job[c].req \in Payload /\ Valid(job[c].req) /\ new[c] = {} /\ gone[c] = {}
        /\ job[c] \in JobType
    BY <2>1 DEF Asking, ResInv, ClientInv
  <2> HIDE DEF n
  <2>5. /\ job'[c] = job[c] /\ new'[c] = {} /\ gone'[c] = targets'[n] /\ pc'[c] = "insert"
        /\ lock'[n] = c
    BY <2>1, <2>2, <2>3, <2>4 DEF ResInv, Shapes, tables
  <2>6. Inserted(c)'
    <3>1. 0 \in 0..Len(job[c].req.targets)
      BY <2>4, PayloadTargets
    <3> QED
      BY <2>5, <3>1, NoRows DEF Inserted, n
  <2>7. ClientInv(c)'
    BY <2>1, <2>4, <2>5, <2>6 DEF ClientInv, Asking, Stages, n
  <2>8. Shapes'
    BY <2>1 DEF ResInv, Shapes, tables
  <2>9. \A d \in Clients : d # c => /\ pc'[d] = pc[d] /\ job'[d] = job[d]
                                    /\ new'[d] = new[d] /\ gone'[d] = gone[d]
    BY <2>1 DEF ResInv, Shapes
  <2>10. \A m \in Names : m # n => lock'[m] = lock[m] /\ lock[m] # c
    BY <2>1, NoneAssumption DEF ResInv, Shapes, NameInv
  <2>11. job'[c].name = n
    BY <2>5 DEF n
  <2> QED
    BY <2>1, <2>5, <2>7, <2>8, <2>9, <2>10, <2>11, TransactionKept
<1> QED
  BY <1>1, <1>2

(* UPDATE resources takes the lock of a row that is there.                 *)
LEMMA UpdateRowKeeps ==
  ASSUME ResInv, NEW c \in Clients, UpdateRow(c)
  PROVE  ResInv'
<1>1. CASE Fail(c)
  BY <1>1, FailKeeps
<1>2. CASE ~Fail(c)
  <2> DEFINE n == job[c].name
  <2>1. /\ pc[c] = "begin" /\ job[c].kind \in {"update", "edit"} /\ lock[n] = None
        /\ lock' = [lock EXCEPT ![n] = c] /\ pc' = [pc EXCEPT ![c] = "clear"]
        /\ UNCHANGED <<tables, job, gone, new>>
    BY <1>2 DEF UpdateRow
  <2>2. n \in Names
    BY <2>1, JobTyped
  <2>4. Asking(c) /\ job[c].req \in Payload /\ Valid(job[c].req) /\ new[c] = {} /\ gone[c] = {}
        /\ job[c] \in JobType
    BY <2>1 DEF Asking, ResInv, ClientInv
  <2> HIDE DEF n
  <2>5. /\ job'[c] = job[c] /\ new'[c] = {} /\ gone'[c] = {} /\ pc'[c] = "clear"
        /\ lock'[n] = c
    BY <2>1, <2>2, <2>4 DEF ResInv, Shapes
  <2>7. ClientInv(c)'
    BY <2>1, <2>4, <2>5 DEF ClientInv, Asking, Stages, n
  <2>8. Shapes'
    BY <2>1 DEF ResInv, Shapes, tables
  <2>9. \A d \in Clients : d # c => /\ pc'[d] = pc[d] /\ job'[d] = job[d]
                                    /\ new'[d] = new[d] /\ gone'[d] = gone[d]
    BY <2>1 DEF ResInv, Shapes
  <2>10. \A m \in Names : m # n => lock'[m] = lock[m] /\ lock[m] # c
    BY <2>1, NoneAssumption DEF ResInv, Shapes, NameInv
  <2>11. job'[c].name = n
    BY <2>5 DEF n
  <2> QED
    BY <2>1, <2>5, <2>7, <2>8, <2>9, <2>10, <2>11, TransactionKept
<1> QED
  BY <1>1, <1>2

(* A client that holds its lock and keeps it.                              *)
LEMMA HeldKept ==
  ASSUME ResInv, NEW c \in Clients, pc[c] \in {"clear", "insert"}, UNCHANGED <<tables, lock, job>>,
         pc' \in [Clients -> Stages], pc'[c] = "insert", Inserted(c)',
         Shapes',
         \A d \in Clients : d # c => /\ pc'[d] = pc[d]
                                     /\ new'[d] = new[d] /\ gone'[d] = gone[d]
  PROVE  ResInv'
<1>1. ClientInv(c) /\ job[c] \in JobType
  BY DEF ResInv, ClientInv
<1>2. ClientInv(c)'
  BY <1>1 DEF ClientInv, Asking, Stages
<1>3. \A n \in Names : lock[n] = c => job[c].name = n
  BY NoneAssumption DEF ResInv, NameInv
<1>4. \A n \in Names : lock'[n] = lock[n] /\ (lock[n] = c => pc'[c] \in {"clear", "insert"} /\ job'[c].name = n)
  BY <1>3
<1> QED
  BY <1>2, <1>4, TransactionKept

(* What a transaction deletes is what is committed: it has the lock.       *)
LEMMA ClearTargetsKeeps ==
  ASSUME ResInv, NEW c \in Clients, ClearTargets(c)
  PROVE  ResInv'
<1>1. /\ pc[c] = "clear" /\ gone' = [gone EXCEPT ![c] = targets[job[c].name]]
      /\ pc' = [pc EXCEPT ![c] = "insert"]
      /\ UNCHANGED <<tables, lock, job, new>>
  BY DEF ClearTargets
<1>2. job[c].req \in Payload /\ new[c] = {}
  BY <1>1 DEF ResInv, ClientInv, Asking
<1>3. pc' \in [Clients -> Stages]
  BY <1>1 DEF ResInv, Shapes, ClientInv, Stages
<1>4. Shapes'
  BY <1>1 DEF ResInv, Shapes, tables
<1>5. Inserted(c)'
  <2>1. 0 \in 0..Len(job[c].req.targets)
    BY <1>2, PayloadTargets
  <2>2. gone'[c] = targets'[job'[c].name] /\ new'[c] = {} /\ job' = job
    BY <1>1, <1>2 DEF ResInv, Shapes, tables
  <2> QED
    BY <2>1, <2>2, NoRows DEF Inserted
<1> QED
  BY <1>1, <1>3, <1>4, <1>5, HeldKept DEF ResInv, Shapes

(* The row of a target that insertTargets accepts.                         *)
LEMMA RowTyped ==
  ASSUME NEW c \in Clients, NEW req \in Payload, NEW i \in 1..Len(req.targets),
         req.targets[i].node \in nodes \cup {None}, nodes \subseteq Nodes,
         DefaultRole(req.targets[i].role) \in Roles
  PROVE  RowOf(c, req, i) \in Row
<1>1. req.targets[i] \in Target
  BY PayloadTargets
<1>2. i \in Nat
  BY PayloadTargets
<1> QED
  BY <1>1, <1>2 DEF RowOf, Row, Target

(* One target more is written.                                             *)
LEMMA InsertTargetKeeps ==
  ASSUME ResInv, NEW c \in Clients, InsertTarget(c)
  PROVE  ResInv'
<1>1. CASE Fail(c)
  BY <1>1, FailKeeps
<1>2. CASE ~Fail(c)
  <2> DEFINE req == job[c].req
             k == Cardinality(new[c])
  <2>1. /\ pc[c] = "insert" /\ k + 1 <= Len(req.targets)
        /\ req.targets[k + 1].node \in nodes \cup {None}
        /\ DefaultRole(req.targets[k + 1].role) \in Roles
        /\ new' = [new EXCEPT ![c] = @ \cup {RowOf(c, req, k + 1)}]
        /\ UNCHANGED <<tables, lock, pc, job, gone>>
    BY <1>2 DEF InsertTarget
  <2>2. /\ req \in Payload /\ Inserted(c) /\ nodes \subseteq Nodes
    BY <2>1 DEF ResInv, ClientInv, Asking
  <2>3. /\ k \in Nat /\ new[c] = Rows(c, req, k) /\ IsFiniteSet(new[c]) /\ new[c] \subseteq Row
        /\ gone[c] = targets[job[c].name] /\ Len(req.targets) \in Nat
    BY <2>2, PayloadTargets DEF Inserted
  <2> HIDE DEF req, k
  <2>4. RowOf(c, req, k + 1) \in Row
    BY <2>1, <2>2, <2>3, RowTyped
  <2>5. new'[c] = new[c] \cup {RowOf(c, req, k + 1)}
    BY <2>1 DEF ResInv, Shapes
  <2>6. /\ new'[c] = Rows(c, req, k + 1) /\ IsFiniteSet(new'[c]) /\ Cardinality(new'[c]) = k + 1
    <3>1. Cardinality(new[c]) = k
      BY DEF k
    <3>2. IsFiniteSet(Rows(c, req, k)) /\ Cardinality(Rows(c, req, k)) = k
      BY <2>3, <3>1
    <3>3. k \in Nat
      BY <2>3
    <3>4. /\ Rows(c, req, k + 1) = Rows(c, req, k) \cup {RowOf(c, req, k + 1)}
          /\ IsFiniteSet(Rows(c, req, k + 1)) /\ Cardinality(Rows(c, req, k + 1)) = k + 1
      BY <3>2, <3>3, OneMore, Zenon
    <3>5. new'[c] = Rows(c, req, k + 1)
      BY <2>3, <2>5, <3>4
    <3> QED
      BY <3>4, <3>5
  <2>7. job' = job /\ gone' = gone /\ targets' = targets /\ pc' = pc
    BY <2>1 DEF tables
  <2>8. k + 1 \in 0..Len(req.targets)
    BY <2>1, <2>3
  <2>9. Inserted(c)'
    BY <2>3, <2>4, <2>5, <2>6, <2>7, <2>8 DEF Inserted, req
  <2>10. pc' \in [Clients -> Stages] /\ pc'[c] = "insert"
    BY <2>1, <2>7 DEF ResInv, Shapes, ClientInv
  <2>11. Shapes'
    BY <2>1, <2>7 DEF ResInv, Shapes, tables
  <2>12. \A d \in Clients : d # c => new'[d] = new[d]
    BY <2>1 DEF ResInv, Shapes
  <2> QED
    BY <2>1, <2>7, <2>9, <2>10, <2>11, <2>12, HeldKept
<1> QED
  BY <1>1, <1>2

(* What a transaction is about to write: one valid request.                *)
LEMMA Writes ==
  ASSUME ResInv, NEW c \in Clients, pc[c] = "insert",
         Cardinality(new[c]) = Len(job[c].req.targets), Written(c)
  PROVE  LET n == job[c].name
             req == job[c].req
         IN  /\ n \in Names /\ lock[n] = c /\ req \in Payload /\ Valid(req)
             /\ resources' = [resources EXCEPT ![n] = Fields(req)]
             /\ targets' = [targets EXCEPT ![n] = Rows(c, req, Len(req.targets))]
             /\ Rows(c, req, Len(req.targets)) \subseteq Row
             /\ IsFiniteSet(Rows(c, req, Len(req.targets)))
             /\ Cardinality(Rows(c, req, Len(req.targets))) = Len(req.targets)
             /\ nodes' = nodes
<1>1. /\ job[c].name \in Names /\ lock[job[c].name] = c /\ job[c].req \in Payload
      /\ Valid(job[c].req) /\ Inserted(c)
  BY JobTyped DEF ResInv, ClientInv, Asking
<1>2. /\ new[c] = Rows(c, job[c].req, Len(job[c].req.targets))
      /\ new[c] \subseteq Row /\ IsFiniteSet(new[c]) /\ gone[c] = targets[job[c].name]
  BY <1>1 DEF Inserted
<1>3. (targets[job[c].name] \ gone[c]) \cup new[c] = new[c]
  BY <1>2
<1>4. targets' = [targets EXCEPT ![job[c].name] = new[c]]
  BY <1>1, <1>3 DEF Written, ResInv, Shapes
<1> QED
  BY <1>1, <1>2, <1>4 DEF Written

(* c ends its transaction with what it wrote committed.                    *)
LEMMA WrittenKeeps ==
  ASSUME ResInv, NEW c \in Clients, pc[c] = "insert",
         Cardinality(new[c]) = Len(job[c].req.targets), Written(c), End(c),
         ClientInv(c)', pc' = [d \in Clients |-> pc'[d]], job' = [d \in Clients |-> job'[d]],
         \A d \in Clients : d # c => pc'[d] = pc[d] /\ job'[d] = job[d]
  PROVE  ResInv'
<1> DEFINE n == job[c].name
           req == job[c].req
           rows == Rows(c, req, Len(req.targets))
<1>1. /\ n \in Names /\ lock[n] = c /\ req \in Payload /\ Valid(req)
      /\ resources' = [resources EXCEPT ![n] = Fields(req)]
      /\ targets' = [targets EXCEPT ![n] = rows]
      /\ rows \subseteq Row /\ IsFiniteSet(rows) /\ Cardinality(rows) = Len(req.targets)
      /\ nodes' = nodes
  BY Writes
<1> HIDE DEF n, req, rows
<1>2. /\ lock' = [m \in Names |-> IF lock[m] = c THEN None ELSE lock[m]]
      /\ gone' = [gone EXCEPT ![c] = {}] /\ new' = [new EXCEPT ![c] = {}]
  BY DEF End
<1>3. Shapes'
  BY <1>1, <1>2 DEF ResInv, Shapes
<1>4. resources'[n] = Fields(req) /\ targets'[n] = rows
  BY <1>1 DEF ResInv, Shapes
<1>5. ASSUME NEW m \in Names, m = n PROVE Whole(m)'
  <2>1. /\ resources'[m] = Fields(req) /\ targets'[m] = Rows(c, req, Len(req.targets))
        /\ targets'[m] \subseteq Row /\ IsFiniteSet(targets'[m])
        /\ Cardinality(targets'[m]) = Len(req.targets)
    BY <1>1, <1>4, <1>5 DEF rows
  <2> QED
    BY <1>1, <2>1 DEF Whole
<1>6. ASSUME NEW d \in Clients, d # c PROVE ClientInv(d)'
  <2>1. ClientInv(d) /\ d # None
    BY NoneAssumption DEF ResInv
  <2>2. pc[d] \in {"clear", "insert"} => lock[job[d].name] = d /\ job[d].name \in Names
    BY <2>1 DEF ClientInv, JobType
  <2>3. pc[d] \in {"clear", "insert"} => lock'[job[d].name] = d
    BY <1>2, <1>6, <2>2
  <2>4. pc[d] \in {"clear", "insert"} => targets'[job[d].name] = targets[job[d].name]
    BY <1>1, <1>6, <2>2 DEF ResInv, Shapes
  <2>5. pc'[d] = pc[d] /\ job'[d] = job[d] /\ new'[d] = new[d] /\ gone'[d] = gone[d]
    BY <1>2, <1>6 DEF ResInv, Shapes
  <2> QED
    BY <2>1, <2>3, <2>4, <2>5, ClientKept
<1>7. ASSUME NEW m \in Names PROVE NameInv(m)'
  <2>0. NameInv(m) /\ c # None
    BY NoneAssumption DEF ResInv
  <2>1. CASE lock[m] = c
    <3>1. m = n
      BY <2>0, <2>1 DEF NameInv, n
    <3>2. lock'[m] = None
      BY <1>2, <2>1
    <3> QED
      BY <1>5, <3>1, <3>2 DEF NameInv
  <2>2. CASE lock[m] # c
    <3>1. m # n /\ lock'[m] = lock[m]
      BY <1>1, <1>2, <2>2
    <3>2. resources'[m] = resources[m] /\ targets'[m] = targets[m]
      BY <1>1, <3>1 DEF ResInv, Shapes
    <3>3. lock[m] # None => pc'[lock[m]] = pc[lock[m]] /\ job'[lock[m]] = job[lock[m]]
      BY <2>0, <2>2 DEF NameInv
    <3> QED
      BY <2>0, <3>1, <3>2, <3>3, NameKept DEF NameInv
  <2> QED
    BY <2>1, <2>2
<1> QED
  BY <1>1, <1>3, <1>6, <1>7 DEF ResInv

(* The wizard's second request is as valid as its first one.               *)
LEMMA SecondValid ==
  ASSUME NEW req \in Payload, Valid(req), req.protocol = "tcp"
  PROVE  /\ WizardRequest("udp", req.targets) \in Payload
         /\ Valid(WizardRequest("udp", req.targets))
<1>1. WizardRequest("udp", req.targets) \in Payload
  BY DEF WizardRequest, Payload
<1>2. WizardRequest("udp", req.targets).targets = req.targets
  BY DEF WizardRequest
<1>3. WizardRequest("udp", req.targets).protocol = "udp"
  BY DEF WizardRequest
<1> QED
  BY <1>1, <1>2, <1>3 DEF Valid

(* A commit, heard of or not.                                              *)
LEMMA CommitKeeps ==
  ASSUME ResInv, NEW c \in Clients, Commit(c) \/ CommitUnheard(c)
  PROVE  ResInv'
<1> DEFINE j2 == Job("wizard", Pair[2], WizardRequest("udp", job[c].req.targets))
<1>1. /\ pc[c] = "insert" /\ Cardinality(new[c]) = Len(job[c].req.targets)
      /\ Written(c) /\ End(c)
  BY DEF Commit, CommitUnheard
<1>2. \/ pc' = [pc EXCEPT ![c] = "idle"] /\ job' = [job EXCEPT ![c] = None]
      \/ /\ job[c].kind = "wizard" /\ job[c].req.protocol = "tcp"
         /\ pc' = [pc EXCEPT ![c] = "begin"]
         /\ job' = [job EXCEPT ![c] = j2]
  BY DEF Commit, CommitUnheard, Answered
<1>3. new'[c] = {} /\ gone'[c] = {}
  BY <1>1 DEF End, ResInv, Shapes
<1>4. job[c].req \in Payload /\ Valid(job[c].req)
  BY <1>1 DEF ResInv, ClientInv, Asking
<1>5. ClientInv(c)'
  <2>1. CASE pc' = [pc EXCEPT ![c] = "idle"] /\ job' = [job EXCEPT ![c] = None]
    BY <1>3, <2>1 DEF ClientInv, Asking, Stages, ResInv, Shapes
  <2>2. CASE /\ job[c].kind = "wizard" /\ job[c].req.protocol = "tcp"
             /\ pc' = [pc EXCEPT ![c] = "begin"]
             /\ job' = [job EXCEPT ![c] = j2]
    <3>1. WizardRequest("udp", job[c].req.targets) \in Payload
          /\ Valid(WizardRequest("udp", job[c].req.targets))
      BY <1>4, <2>2, SecondValid
    <3>2. j2 \in JobType /\ j2.req \in Payload /\ Valid(j2.req) /\ j2.kind = "wizard"
      BY <3>1, PairAssumption DEF Job, JobType
    <3> HIDE DEF j2
    <3>3. pc'[c] = "begin" /\ job'[c] = j2
      BY <2>2 DEF ResInv, Shapes
    <3> QED
      BY <1>3, <3>2, <3>3 DEF ClientInv, Asking, Stages
  <2> QED
    BY <1>2, <2>1, <2>2
<1> HIDE DEF j2
<1>6. /\ pc' = [d \in Clients |-> pc'[d]] /\ job' = [d \in Clients |-> job'[d]]
      /\ \A d \in Clients : d # c => pc'[d] = pc[d] /\ job'[d] = job[d]
  BY <1>2 DEF ResInv, Shapes
<1> QED
  BY <1>1, <1>5, <1>6, WrittenKeeps

(* A deletion takes a resource that nobody is writing.                     *)
LEMMA DeleteKeeps ==
  ASSUME ResInv, NEW c \in Clients, DeleteResource(c)
  PROVE  ResInv'
<1> DEFINE n == job[c].name
<1>1. /\ pc[c] = "begin" /\ (resources[n] # None => lock[n] = None)
      /\ resources' = [resources EXCEPT ![n] = None]
      /\ targets' = [targets EXCEPT ![n] = {}]
      /\ pc' = [pc EXCEPT ![c] = "idle"] /\ job' = [job EXCEPT ![c] = None]
      /\ nodes' = nodes /\ lock' = lock /\ gone' = gone /\ new' = new
  BY DEF DeleteResource
<1>2. n \in Names
  BY <1>1, JobTyped
<1>3. lock[n] # None => targets[n] = {}
  BY <1>1, <1>2, NoneEmpty
<1> HIDE DEF n
<1>4. resources'[n] = None /\ targets'[n] = {}
  BY <1>1, <1>2 DEF ResInv, Shapes
<1>5. Shapes'
  BY <1>1 DEF ResInv, Shapes
<1>6. ClientInv(c)'
  BY <1>1 DEF ResInv, Shapes, ClientInv, Asking, Stages
<1>7. ASSUME NEW m \in Names PROVE targets'[m] = targets[m] \/ (m = n /\ lock[m] = None)
  BY <1>1, <1>2, <1>3, <1>4 DEF ResInv, Shapes
<1>8. ASSUME NEW d \in Clients, d # c PROVE ClientInv(d)'
  <2>1. ClientInv(d) /\ d # None
    BY NoneAssumption DEF ResInv
  <2>2. pc[d] \in {"clear", "insert"} => lock[job[d].name] = d /\ job[d].name \in Names
    BY <2>1 DEF ClientInv, JobType
  <2>3. pc[d] \in {"clear", "insert"} => targets'[job[d].name] = targets[job[d].name]
    BY <1>7, <2>1, <2>2
  <2>4. pc'[d] = pc[d] /\ job'[d] = job[d] /\ new'[d] = new[d] /\ gone'[d] = gone[d]
    BY <1>1, <1>8 DEF ResInv, Shapes
  <2> QED
    BY <1>1, <2>1, <2>2, <2>3, <2>4, ClientKept
<1>9. ASSUME NEW m \in Names PROVE NameInv(m)'
  <2>0. NameInv(m) /\ lock[m] # c
    BY <1>1, NoneAssumption DEF ResInv, NameInv
  <2>1. lock[m] # None => pc'[lock[m]] = pc[lock[m]] /\ job'[lock[m]] = job[lock[m]]
    BY <1>1, <2>0 DEF NameInv, ResInv, Shapes
  <2>2. CASE m = n
    BY <1>1, <1>4, <2>0, <2>1, <2>2 DEF NameInv, Whole
  <2>3. CASE m # n
    <3>1. resources'[m] = resources[m] /\ targets'[m] = targets[m]
      BY <1>1, <2>3 DEF ResInv, Shapes
    <3> QED
      BY <1>1, <2>0, <2>1, <3>1, NameKept DEF NameInv
  <2> QED
    BY <2>2, <2>3
<1> QED
  BY <1>1, <1>5, <1>6, <1>8, <1>9 DEF ResInv
-----------------------------------------------------------------------------
(* The invariant.                                                          *)

(* Nothing is stored and nothing asked for at first.                       *)
LEMMA ResStarts == Init => ResInv
<1> SUFFICES ASSUME Init PROVE ResInv
  OBVIOUS
<1>1. Shapes /\ nodes \subseteq Nodes
  BY DEF Init, Shapes
<1>2. \A c \in Clients : ClientInv(c)
  BY DEF Init, ClientInv, Asking, Stages
<1>3. \A n \in Names : NameInv(n)
  BY DEF Init, NameInv, Whole
<1> QED
  BY <1>1, <1>2, <1>3 DEF ResInv

(* A node that registers touches no resource.                              *)
LEMMA RegisterKeeps ==
  ASSUME ResInv, NEW n \in Nodes, Register(n)
  PROVE  ResInv'
<1>1. /\ nodes' \subseteq Nodes /\ resources' = resources /\ targets' = targets /\ lock' = lock
      /\ pc' = pc /\ job' = job /\ gone' = gone /\ new' = new
  BY DEF Register, ResInv
<1>2. Shapes'
  BY <1>1 DEF ResInv, Shapes
<1>3. \A c \in Clients : ClientInv(c)'
  BY <1>1, ClientKept DEF ResInv, ClientInv
<1>4. \A m \in Names : NameInv(m)'
  BY <1>1, NameKept DEF ResInv, NameInv
<1> QED
  BY <1>1, <1>2, <1>3, <1>4 DEF ResInv

(* Nor does a step of somebody else.                                       *)
LEMMA StutterKeeps ==
  ASSUME ResInv, UNCHANGED vars
  PROVE  ResInv'
<1>1. /\ resources' = resources /\ targets' = targets /\ nodes' = nodes /\ lock' = lock
      /\ pc' = pc /\ job' = job /\ gone' = gone /\ new' = new
  BY DEF vars, tables
<1>2. Shapes'
  BY <1>1 DEF ResInv, Shapes
<1>3. \A c \in Clients : ClientInv(c)'
  BY <1>1, ClientKept DEF ResInv, ClientInv
<1>4. \A m \in Names : NameInv(m)'
  BY <1>1, NameKept DEF ResInv, NameInv
<1> QED
  BY <1>1, <1>2, <1>3, <1>4 DEF ResInv

(* The strengthened invariant always holds.                                *)
LEMMA ResInductive == Spec => []ResInv
<1>1. ResInv /\ [Next]_vars => ResInv'
  BY RegisterKeeps, StutterKeeps, RequestSteps, OpenFormKeeps, InsertRowKeeps, UpdateRowKeeps,
     ClearTargetsKeeps, InsertTargetKeeps, CommitKeeps, DeleteKeeps, FailKeeps
  DEF Next, Handle, Statement, Fault
<1> QED
  BY <1>1, ResStarts, PTL DEF Spec

(* A resource that is there has at least one target.                       *)
LEMMA SomeTarget ==
  ASSUME NEW n \in Names, Whole(n)
  PROVE  /\ IF targets[n] = {} THEN resources[n] = None ELSE resources[n] \in Stored
         /\ targets[n] \subseteq Row /\ IsFiniteSet(targets[n])
<1>1. CASE resources[n] = None /\ targets[n] = {}
  BY <1>1, FS_EmptySet
<1>2. ASSUME NEW req \in Payload, NEW c \in Clients,
             Valid(req), resources[n] = Fields(req),
             targets[n] = Rows(c, req, Len(req.targets)), targets[n] \subseteq Row,
             IsFiniteSet(targets[n])
      PROVE  targets[n] # {} /\ resources[n] \in Stored
  <2>1. req.targets # <<>> /\ req.targets \in Seq(Target) /\ Len(req.targets) \in Nat
    BY <1>2, PayloadTargets DEF Valid
  <2>2. 1 \in 1..Len(req.targets)
    BY <2>1
  <2> QED
    BY <1>2, <2>2, StoredFields DEF Rows
<1> QED
  BY <1>1, <1>2 DEF Whole

(* Tables, locks and requests under way keep their types; a resource has   *)
(* targets, and the transaction that writes it is the only one.            *)
THEOREM Typed == Spec => []TypeOK
<1>1. ResInv => TypeOK
  <2> SUFFICES ASSUME ResInv PROVE TypeOK
    OBVIOUS
  <2>1. \A n \in Names : /\ IF targets[n] = {} THEN resources[n] = None ELSE resources[n] \in Stored
                         /\ targets[n] \subseteq Row /\ IsFiniteSet(targets[n])
    BY SomeTarget DEF ResInv, NameInv
  <2>2. \A n \in Names :
          /\ lock[n] \in Clients \cup {None}
          /\ lock[n] # None => pc[lock[n]] \in {"clear", "insert"} /\ job[lock[n]].name = n
    BY DEF ResInv, NameInv
  <2>3. \A c \in Clients :
          /\ pc[c] \in Stages
          /\ IF pc[c] = "idle" THEN job[c] = None ELSE job[c] \in JobType
          /\ pc[c] \in {"clear", "insert"} => lock[job[c].name] = c
    BY DEF ResInv, ClientInv
  <2> QED
    BY <2>1, <2>2, <2>3 DEF TypeOK, ResInv
<1> QED
  BY <1>1, ResInductive, PTL
-----------------------------------------------------------------------------
(* The servers of a service.                                               *)

(* A service with one target, or with a primary and a backup.              *)
LEMMA OneServer ==
  ASSUME NEW r, NEW fresh
  PROVE  SelectTarget({r}, fresh) = r
BY FS_Singleton DEF SelectTarget

(* Of a pair the primary serves unless it is a stale node.                 *)
LEMMA TwoServers ==
  ASSUME NEW p \in Row, NEW b \in Row, p.role = "primary", b.role = "backup", NEW fresh
  PROVE  SelectTarget({p, b}, fresh) =
           IF p.node = None \/ p.node \in fresh THEN p ELSE b
<1>1. p # b /\ p # None /\ b # None
  BY NoneAssumption
<1>2. WithRole({p, b}, "primary") = p
  BY DEF WithRole
<1>3. WithRole({p, b}, "backup") = b
  BY DEF WithRole
<1>4. Cardinality({p, b}) # 1
  <2>1. IsFiniteSet({p}) /\ Cardinality({p}) = 1
    BY FS_Singleton
  <2>2. Cardinality({p} \cup {b}) = 2
    BY <1>1, <2>1, FS_AddElement
  <2>3. {p} \cup {b} = {p, b}
    OBVIOUS
  <2> QED
    BY <2>2, <2>3
<1> QED
  BY <1>1, <1>2, <1>3, <1>4 DEF SelectTarget

(* The targets of a stored tcp or udp resource.                            *)
LEMMA TcpTargets ==
  ASSUME NEW n \in Names, Whole(n), resources[n] # None, resources[n].protocol # "http"
  PROVE  \/ \E r \in Row : targets[n] = {r}
         \/ \E p \in Row, b \in Row : /\ targets[n] = {p, b}
                                      /\ p.role = "primary" /\ b.role = "backup"
<1>1. PICK req \in Payload, c \in Clients :
         /\ Valid(req) /\ resources[n] = Fields(req)
         /\ targets[n] = Rows(c, req, Len(req.targets)) /\ targets[n] \subseteq Row
  BY DEF Whole
<1>2. Len(req.targets) \in Nat /\ Len(req.targets) # 0
  <2>1. req.targets # <<>> /\ req.targets \in Seq(Target)
    BY <1>1, PayloadTargets DEF Valid
  <2> QED
    BY <2>1
<1>3. req.protocol \in {"tcp", "udp"}
  BY <1>1 DEF Fields, Valid
<1>4. Len(req.targets) = 1 \/ Len(req.targets) = 2
  <2>1. Len(req.targets) <= 2
    BY <1>1, <1>3, Zenon DEF Valid
  <2>2. \A k \in Nat : k # 0 /\ k <= 2 => k = 1 \/ k = 2
    OBVIOUS
  <2> QED
    BY <1>2, <2>1, <2>2, Zenon
<1>5. CASE Len(req.targets) = 1
  <2>1. targets[n] = {RowOf(c, req, 1)}
    BY <1>1, <1>5 DEF Rows
  <2> QED
    BY <1>1, <2>1
<1>6. CASE Len(req.targets) = 2
  <2>1. targets[n] = {RowOf(c, req, 1), RowOf(c, req, 2)}
    BY <1>1, <1>6 DEF Rows
  <2>2. /\ RowOf(c, req, 1).role = DefaultRole(req.targets[1].role)
        /\ RowOf(c, req, 2).role = DefaultRole(req.targets[2].role)
    BY DEF RowOf
  <2>3. Roles \subseteq {DefaultRole(req.targets[i].role) : i \in {1, 2}}
    BY <1>1, <1>3, <1>6 DEF Valid
  <2>4. \/ RowOf(c, req, 1).role = "primary" /\ RowOf(c, req, 2).role = "backup"
        \/ RowOf(c, req, 2).role = "primary" /\ RowOf(c, req, 1).role = "backup"
    BY <2>2, <2>3 DEF Roles
  <2>5. {RowOf(c, req, 1), RowOf(c, req, 2)} = {RowOf(c, req, 2), RowOf(c, req, 1)}
    OBVIOUS
  <2> QED
    BY <1>1, <2>1, <2>4, <2>5
<1> QED
  BY <1>4, <1>5, <1>6

(* Traefik is never told the zero Target, and a primary is left only when  *)
(* it is a stale node.                                                     *)
THEOREM ServersRealThm == Spec => []ServersReal
<1>1. ResInv => ServersReal
  <2> SUFFICES ASSUME ResInv, NEW n \in Names, NEW fresh \in SUBSET nodes, resources[n] # None
               PROVE  /\ Servers(n, fresh) \subseteq targets[n]
                      /\ \A p \in targets[n] \ Servers(n, fresh) :
                           p.role = "primary" => p.node \in Nodes \ fresh
    BY DEF ServersReal
  <2>1. Whole(n)
    BY DEF ResInv, NameInv
  <2>2. CASE resources[n].protocol = "http"
    BY <2>2 DEF Servers
  <2>3. CASE resources[n].protocol # "http"
    <3>1. Servers(n, fresh) = {SelectTarget(targets[n], fresh)}
      BY <2>3 DEF Servers
    <3>2. ASSUME NEW r \in Row, targets[n] = {r}
          PROVE  Servers(n, fresh) = targets[n]
      BY <3>1, <3>2, OneServer
    <3>3. ASSUME NEW p \in Row, NEW b \in Row, targets[n] = {p, b},
                 p.role = "primary", b.role = "backup"
          PROVE  /\ Servers(n, fresh) \subseteq targets[n]
                 /\ \A t \in targets[n] \ Servers(n, fresh) :
                      t.role = "primary" => t.node \in Nodes \ fresh
      <4>1. Servers(n, fresh) = {IF p.node = None \/ p.node \in fresh THEN p ELSE b}
        BY <3>1, <3>3, TwoServers
      <4>2. p.node \in Nodes \cup {None}
        BY DEF Row
      <4>3. CASE p.node = None \/ p.node \in fresh
        BY <3>3, <4>1, <4>3
      <4>4. CASE ~(p.node = None \/ p.node \in fresh)
        BY <3>3, <4>1, <4>2, <4>4
      <4> QED
        BY <4>3, <4>4
    <3> QED
      BY <2>1, <2>3, <3>2, <3>3, TcpTargets
  <2> QED
    BY <2>2, <2>3
<1> QED
  BY <1>1, ResInductive, PTL
-----------------------------------------------------------------------------
(* Transactions implement the store.                                       *)

(* What validateTargets lets through is acceptable: the kind of each       *)
(* target, ...                                                             *)
LEMMA ValidKinds ==
  ASSUME NEW req \in Payload, NEW c, Valid(req),
         NEW t \in Untagged(Rows(c, req, Len(req.targets)))
  PROVE  t.node = None <=> t.address # None
<1>1. PICK i \in 1..Len(req.targets) :
         t.node = req.targets[i].node /\ t.address = req.targets[i].address
  BY DEF Untagged, Rows, RowOf
<1>2. (req.targets[i].node = None) # (req.targets[i].address = None)
  <2>1. i \in DOMAIN req.targets
    BY PayloadTargets
  <2> QED
    BY <2>1, Zenon DEF Valid
<1> QED
  BY <1>1, <1>2, Zenon

(* ... their number, and the roles of a pair.                              *)
LEMMA ValidSize ==
  ASSUME NEW req \in Payload, Valid(req)
  PROVE  /\ Len(req.targets) \in Nat /\ Len(req.targets) >= 1
         /\ req.protocol # "http" => Len(req.targets) = 1 \/ Len(req.targets) = 2
<1>1. Len(req.targets) \in Nat /\ Len(req.targets) # 0
  <2>1. req.targets # <<>> /\ req.targets \in Seq(Target)
    BY PayloadTargets DEF Valid
  <2> QED
    BY <2>1
<1>2. req.protocol # "http" => Len(req.targets) <= 2
  BY Zenon DEF Valid
<1>3. \A k \in Nat : k # 0 => k >= 1 /\ (k <= 2 => k = 1 \/ k = 2)
  OBVIOUS
<1> QED
  BY <1>1, <1>2, <1>3, Zenon

(* The two targets of tcp and udp resources have a role each.              *)
LEMMA ValidRoles ==
  ASSUME NEW req \in Payload, NEW c, Valid(req), req.protocol # "http",
         Len(req.targets) = 2, Rows(c, req, Len(req.targets)) \subseteq Row
  PROVE  {t.role : t \in Untagged(Rows(c, req, Len(req.targets)))} = {"primary", "backup"}
<1> DEFINE roles == {DefaultRole(req.targets[i].role) : i \in {1, 2}}
<1>1. Roles \subseteq roles
  <2>1. req.protocol \in {"tcp", "udp"}
    BY DEF Valid
  <2> QED
    BY <2>1, Zenon DEF Valid
<1>2. {t.role : t \in Untagged(Rows(c, req, 2))} = roles
  <2>1. 1..2 = {1, 2}
    OBVIOUS
  <2>2. \A i : RowOf(c, req, i).role = DefaultRole(req.targets[i].role)
    BY DEF RowOf
  <2>3. Rows(c, req, 2) = {RowOf(c, req, 1), RowOf(c, req, 2)}
    BY <2>1 DEF Rows
  <2>4. {t.role : t \in Untagged({RowOf(c, req, 1), RowOf(c, req, 2)})}
          = {RowOf(c, req, 1).role, RowOf(c, req, 2).role}
    <3>1. ASSUME NEW a, NEW b
          PROVE  {t.role : t \in Untagged({a, b})} = {a.role, b.role}
      <4> DEFINE List(t) == [pos |-> t.pos, node |-> t.node, address |-> t.address,
                             role |-> t.role]
      <4>1. Untagged({a, b}) = {List(a), List(b)}
        BY DEF Untagged
      <4>2. List(a).role = a.role /\ List(b).role = b.role
        OBVIOUS
      <4> HIDE DEF List
      <4>3. ASSUME NEW x, NEW y PROVE {t.role : t \in {x, y}} = {x.role, y.role}
        OBVIOUS
      <4> QED
        BY <4>1, <4>2, <4>3
    <3> QED
      BY <3>1
  <2>5. roles = {DefaultRole(req.targets[1].role), DefaultRole(req.targets[2].role)}
    OBVIOUS
  <2> QED
    BY <2>2, <2>3, <2>4, <2>5
<1>3. roles \subseteq Roles
  <2>1. \A r \in Rows(c, req, 2) : r.role \in Roles
    BY DEF Row
  <2> QED
    BY <1>2, <2>1 DEF Untagged
<1> QED
  BY <1>1, <1>2, <1>3 DEF Roles

(* So all of it is acceptable.                                             *)
LEMMA ValidAcceptable ==
  ASSUME NEW req \in Payload, NEW c, Valid(req),
         Rows(c, req, Len(req.targets)) \subseteq Row,
         Cardinality(Rows(c, req, Len(req.targets))) = Len(req.targets)
  PROVE  Store!Acceptable(ValueOf(req, Rows(c, req, Len(req.targets))))
<1> DEFINE v == ValueOf(req, Rows(c, req, Len(req.targets)))
<1>1. /\ v.protocol = req.protocol /\ v.size = Len(req.targets)
      /\ v.targets = Untagged(Rows(c, req, Len(req.targets)))
  BY DEF ValueOf
<1> HIDE DEF v
<1>2. \A t \in v.targets : t.node = None <=> t.address # None
  BY <1>1, ValidKinds, Zenon
<1>3. req.protocol \in {"http", "tcp", "udp"}
  BY DEF Valid
<1>4. v.size >= 1 /\ (v.protocol # "http" => v.size = 1 \/ v.size = 2)
  BY <1>1, ValidSize, Zenon
<1>5. v.protocol # "http" /\ v.size = 2 => {t.role : t \in v.targets} = {"primary", "backup"}
  BY <1>1, ValidRoles, Zenon
<1>6. Store!Acceptable(v)
  BY <1>1, <1>2, <1>3, <1>4, <1>5, Zenon DEF Store!Acceptable
<1> QED
  BY <1>6 DEF v

(* A commit takes effect as the request of its client.                     *)
LEMMA CommitPuts ==
  ASSUME ResInv, NEW c \in Clients, pc[c] = "insert",
         Cardinality(new[c]) = Len(job[c].req.targets), Written(c)
  PROVE  \E n \in Names : Store!Put(n)
<1> DEFINE n == job[c].name
           req == job[c].req
           rows == Rows(c, req, Len(req.targets))
           v == ValueOf(req, rows)
<1>1. /\ n \in Names /\ req \in Payload /\ Valid(req)
      /\ resources' = [resources EXCEPT ![n] = Fields(req)]
      /\ targets' = [targets EXCEPT ![n] = rows]
      /\ rows \subseteq Row /\ Cardinality(rows) = Len(req.targets)
  BY Writes
<1>2. <<n, v>> \in AskedBar
  <2>1. job[c].kind # "delete"
    BY DEF ResInv, ClientInv
  <2>2. rows = {RowOf(c, job[c].req, i) : i \in DOMAIN job[c].req.targets}
    BY <1>1, PayloadTargets DEF AllRows
  <2> QED
    BY <2>1, <2>2 DEF AskedBar
<1>3. Store!Acceptable(v)
  BY <1>1, ValidAcceptable
<1>4. Fields(req) # None /\ ValueOf(Fields(req), rows) = v
  BY <1>1, StoredFields DEF ValueOf, Fields
<1> HIDE DEF n, req, rows, v
<1>5. ASSUME NEW m \in Names
      PROVE  /\ resources'[m] = IF m = n THEN Fields(req) ELSE resources[m]
             /\ targets'[m] = IF m = n THEN rows ELSE targets[m]
  BY <1>1 DEF ResInv, Shapes
<1>6. StoreBar' = [StoreBar EXCEPT ![n] = v]
  <2>1. ASSUME NEW m \in Names
        PROVE  (IF resources'[m] = None THEN None ELSE ValueOf(resources'[m], targets'[m]))
               = IF m = n THEN v ELSE StoreBar[m]
    BY <1>4, <1>5 DEF StoreBar
  <2>2. StoreBar' = [m \in Names |-> IF m = n THEN v ELSE StoreBar[m]]
    BY <2>1 DEF StoreBar, ValueOf, Untagged
  <2> QED
    BY <2>2 DEF StoreBar
<1>7. <<n, v>>[1] = n /\ <<n, v>>[2] = v
  OBVIOUS
<1>8. Store!Put(n)
  BY <1>2, <1>3, <1>6, <1>7 DEF Store!Put
<1> QED
  BY <1>1, <1>8

(* A deletion removes.                                                     *)
LEMMA DeleteRemoves ==
  ASSUME ResInv, NEW c \in Clients, DeleteResource(c)
  PROVE  \E n \in Names : Store!Remove(n)
<1> DEFINE n == job[c].name
<1>1. /\ pc[c] = "begin"
      /\ resources' = [resources EXCEPT ![n] = None]
      /\ targets' = [targets EXCEPT ![n] = {}]
  BY DEF DeleteResource
<1>2. n \in Names
  BY <1>1, JobTyped
<1> HIDE DEF n
<1>3. ASSUME NEW m \in Names
      PROVE  /\ resources'[m] = IF m = n THEN None ELSE resources[m]
             /\ targets'[m] = IF m = n THEN {} ELSE targets[m]
  BY <1>1 DEF ResInv, Shapes
<1>4. ASSUME NEW m \in Names
      PROVE  (IF resources'[m] = None THEN None ELSE ValueOf(resources'[m], targets'[m]))
             = IF m = n THEN None ELSE StoreBar[m]
  BY <1>3 DEF StoreBar
<1>5. StoreBar' = [m \in Names |-> IF m = n THEN None ELSE StoreBar[m]]
  BY <1>4 DEF StoreBar, ValueOf, Untagged
<1>6. StoreBar' = [StoreBar EXCEPT ![n] = None]
  BY <1>5 DEF StoreBar
<1> QED
  BY <1>2, <1>6 DEF Store!Remove

(* Whatever writes no table changes nothing that is stored.                *)
LEMMA StoreKept ==
  ASSUME resources' = resources, targets' = targets
  PROVE  StoreBar' = StoreBar
BY DEF StoreBar, ValueOf, Untagged

(* Every step is one of the store, or changes nothing stored.              *)
LEMMA StoreSteps ==
  ASSUME ResInv, Next
  PROVE  Store!SNext
<1>1. ASSUME NEW n \in Nodes, Register(n) PROVE Store!SNext
  BY <1>1, StoreKept DEF Register, Store!SNext
<1>2. ASSUME NEW c \in Clients,
             \/ \E kind \in Kinds, n \in Names : Request(c, kind, n)
             \/ \E n \in Names : DeleteRequest(c, n) \/ OpenForm(c, n)
             \/ \E rest \in Rests : SaveForm(c, rest)
             \/ StartWizard(c)
      PROVE  Store!SNext
  <2>1. UNCHANGED tables
    BY <1>2 DEF Request, DeleteRequest, OpenForm, SaveForm, StartWizard, Ask
  <2> QED
    BY <2>1, StoreKept DEF tables, Store!SNext
<1>3. ASSUME NEW c \in Clients, Handle(c) PROVE Store!SNext
  <2>1. CASE UNCHANGED tables
    BY <2>1, StoreKept DEF tables, Store!SNext
  <2>2. CASE \/ InsertRow(c) \/ UpdateRow(c) \/ ClearTargets(c) \/ InsertTarget(c)
             \/ Fault(c)
    <3>1. UNCHANGED tables
      BY <2>2 DEF InsertRow, UpdateRow, ClearTargets, InsertTarget, Fault, Fail
    <3> QED
      BY <2>1, <3>1
  <2>3. CASE Commit(c) \/ CommitUnheard(c)
    <3>1. /\ pc[c] = "insert" /\ Cardinality(new[c]) = Len(job[c].req.targets)
          /\ Written(c)
      BY <2>3 DEF Commit, CommitUnheard
    <3> QED
      BY <3>1, CommitPuts DEF Store!SNext
  <2>4. CASE DeleteResource(c)
    BY <2>4, DeleteRemoves DEF Store!SNext
  <2> QED
    BY <1>3, <2>2, <2>3, <2>4 DEF Handle, Statement
<1> QED
  BY <1>1, <1>2, <1>3 DEF Next

(* The tables implement the store: however transactions interleave and     *)
(* fail, an edit takes effect as a whole and as somebody asked for it.     *)
THEOREM ImplementsStoreThm == Spec => ImplementsStore
<1>1. Init => Store!SInit
  <2> SUFFICES ASSUME Init PROVE Store!SInit
    OBVIOUS
  <2>1. AskedBar = {}
    BY DEF Init, AskedBar
  <2>2. StoreBar = [n \in Names |-> None]
    BY DEF Init, StoreBar
  <2> QED
    BY <2>1, <2>2 DEF Store!SInit
<1>2. ResInv /\ [Next]_vars => [Store!SNext]_<<AskedBar, StoreBar>>
  <2> SUFFICES ASSUME ResInv, [Next]_vars PROVE Store!SNext
    OBVIOUS
  <2>1. CASE Next
    BY <2>1, StoreSteps
  <2>2. CASE UNCHANGED vars
    BY <2>2, StoreKept DEF vars, tables, Store!SNext
  <2> QED
    BY <2>1, <2>2
<1> QED
  BY <1>1, <1>2, ResInductive, PTL DEF Spec, ImplementsStore, Store!SSpec
-----------------------------------------------------------------------------
(* Forms.                                                                  *)

(* A target as the row that stores it keeps it.                            *)
Sent(t) == [node |-> t.node, address |-> t.address, role |-> DefaultRole(t.role)]

(* A form asks for the targets that it was filled with, as many of each.   *)
FormKept(j) ==
  /\ Kept(j.loaded) = {Sent(j.req.targets[i]) : i \in DOMAIN j.req.targets}
  /\ Cardinality(j.loaded) = Len(j.req.targets)

EditInv == \A c \in Clients : pc[c] # "idle" /\ job[c].kind = "edit" => FormKept(job[c])

(* One client's rows differ in their position, so as many are listed.      *)
LEMMA UntaggedSize ==
  ASSUME NEW rows, IsFiniteSet(rows), NEW by, \A t \in rows : t \in Row /\ t.by = by
  PROVE  IsFiniteSet(Untagged(rows)) /\ Cardinality(Untagged(rows)) = Cardinality(rows)
<1> DEFINE List(t) == [pos |-> t.pos, node |-> t.node, address |-> t.address, role |-> t.role]
           f == [t \in rows |-> List(t)]
<1>1. Untagged(rows) = {List(t) : t \in rows}
  BY DEF Untagged
<1>2. ASSUME NEW t \in rows, NEW u \in rows, List(t) = List(u) PROVE t = u
  <2>1. t \in Row /\ u \in Row /\ t.by = u.by
    OBVIOUS
  <2>2. t.pos = u.pos /\ t.node = u.node /\ t.address = u.address /\ t.role = u.role
    BY <1>2
  <2> QED
    BY <2>1, <2>2 DEF Row
<1> HIDE DEF List
<1>3. f \in [rows -> Untagged(rows)]
  BY <1>1
<1>4. \A t, u \in rows : f[t] = f[u] => t = u
  BY <1>2
<1>5. \A x \in Untagged(rows) : \E t \in rows : f[t] = x
  BY <1>1
<1> HIDE DEF f
<1>6. f \in Bijection(rows, Untagged(rows))
  BY <1>3, <1>4, <1>5, Fun_IsBij
<1>7. ExistsBijection(rows, Untagged(rows))
  BY <1>6 DEF ExistsBijection
<1> QED
  BY <1>7, FS_Bijection

(* What is kept of a row is kept of it as it is listed.                    *)
LEMMA KeptUntagged ==
  ASSUME NEW rows
  PROVE  Kept(Untagged(rows))
           = {[node |-> t.node, address |-> t.address, role |-> t.role] : t \in rows}
<1> DEFINE List(t) == [pos |-> t.pos, node |-> t.node, address |-> t.address, role |-> t.role]
           Keep(t) == [node |-> t.node, address |-> t.address, role |-> t.role]
<1>1. Untagged(rows) = {List(t) : t \in rows}
  BY DEF Untagged
<1>2. Kept(Untagged(rows)) = {Keep(u) : u \in Untagged(rows)}
  BY DEF Kept
<1>3. \A t \in rows : Keep(List(t)) = Keep(t)
  OBVIOUS
<1> HIDE DEF List, Keep
<1>4. {Keep(u) : u \in Untagged(rows)} = {Keep(t) : t \in rows}
  BY <1>1, <1>3
<1> QED
  BY <1>2, <1>4 DEF Keep

(* A listing leaves no row out.                                            *)
LEMMA ListingComplete ==
  ASSUME NEW rows, IsFiniteSet(rows), NEW s \in Listings(rows)
  PROVE  /\ DOMAIN s = 1..Cardinality(rows)
         /\ \A i \in DOMAIN s : s[i] \in rows
         /\ \A t \in rows : \E i \in DOMAIN s : s[i] = t
<1> DEFINE k == Cardinality(rows)
<1>1. k \in Nat
  BY FS_CardinalityType
<1>2. s \in [1..k -> rows]
  BY DEF Listings
<1>3. \A j \in 1..k : \A i \in 1..j - 1 : s[i] # s[j]
  BY <1>2 DEF Listings
<1> HIDE DEF k
<1>4. \A i, j \in 1..k : s[i] = s[j] => i = j
  <2> SUFFICES ASSUME NEW i \in 1..k, NEW j \in 1..k, s[i] = s[j], i # j PROVE FALSE
    OBVIOUS
  <2>1. i \in 1..j - 1 \/ j \in 1..i - 1
    BY <1>1
  <2> QED
    BY <1>3, <2>1
<1>5. s \in Injection(1..k, rows)
  BY <1>2, <1>4, Fun_IsInj
<1>6. Cardinality(1..k) = k
  BY <1>1, FS_Interval
<1>7. s \in Surjection(1..k, rows)
  BY <1>5, <1>6, FS_Injection DEF k
<1> QED
  BY <1>2, <1>7 DEF Surjection, k

(* targetFromResource and targetToPayload keep what insertTargets stored.  *)
LEMMA FormIsRow ==
  ASSUME NEW t \in Row, t.node = None <=> t.address # None
  PROVE  Sent(FormTarget(t)) = [node |-> t.node, address |-> t.address, role |-> t.role]
BY DEF Sent, FormTarget, DefaultRole, Row, Roles

(* What the API lists fills the form with what is stored.                  *)
LEMMA FormFilled ==
  ASSUME NEW n \in Names, Whole(n), resources[n] # None, NEW s \in Listings(targets[n]),
         NEW j, j.loaded = Untagged(targets[n]),
         j.req.targets = [i \in DOMAIN s |-> FormTarget(s[i])]
  PROVE  FormKept(j)
<1> DEFINE rows == targets[n]
           ts == [i \in DOMAIN s |-> FormTarget(s[i])]
<1>1. PICK req \in Payload, c \in Clients :
         /\ Valid(req) /\ rows = Rows(c, req, Len(req.targets))
         /\ rows \subseteq Row /\ IsFiniteSet(rows)
  BY DEF Whole
<1>2. ASSUME NEW t \in rows PROVE t \in Row /\ t.by = c
  BY <1>1 DEF Rows, RowOf
<1>3. ASSUME NEW t \in rows PROVE t.node = None <=> t.address # None
  <2> DEFINE u == [pos |-> t.pos, node |-> t.node, address |-> t.address, role |-> t.role]
  <2>1. u \in Untagged(Rows(c, req, Len(req.targets)))
    BY <1>1 DEF Untagged
  <2>2. u.node = t.node /\ u.address = t.address
    OBVIOUS
  <2> HIDE DEF u
  <2>3. u.node = None <=> u.address # None
    BY <1>1, <2>1, ValidKinds
  <2> QED
    BY <2>2, <2>3
<1>4. Cardinality(Untagged(rows)) = Cardinality(rows) /\ Cardinality(rows) \in Nat
  BY <1>1, <1>2, UntaggedSize, FS_CardinalityType
<1>5. /\ DOMAIN s = 1..Cardinality(rows)
      /\ \A i \in DOMAIN s : s[i] \in rows
      /\ \A t \in rows : \E i \in DOMAIN s : s[i] = t
  BY <1>1, ListingComplete
<1>6. DOMAIN ts = DOMAIN s /\ Len(ts) = Cardinality(rows)
  BY <1>4, <1>5
<1>7. \A i \in DOMAIN s : ts[i] = FormTarget(s[i])
  OBVIOUS
<1>8. ASSUME NEW t \in rows
      PROVE  Sent(FormTarget(t)) = [node |-> t.node, address |-> t.address, role |-> t.role]
  BY <1>2, <1>3, FormIsRow
<1>9. {Sent(ts[i]) : i \in DOMAIN s} = {Sent(FormTarget(t)) : t \in rows}
  BY <1>5, <1>7
<1>10. {Sent(FormTarget(t)) : t \in rows}
         = {[node |-> t.node, address |-> t.address, role |-> t.role] : t \in rows}
  BY <1>8
<1>11. Kept(Untagged(rows))
         = {[node |-> t.node, address |-> t.address, role |-> t.role] : t \in rows}
  BY KeptUntagged
<1>12. j.req.targets = ts /\ j.loaded = Untagged(rows)
  OBVIOUS
<1> HIDE DEF ts, rows
<1>13. Kept(j.loaded) = {Sent(ts[i]) : i \in DOMAIN ts}
  BY <1>6, <1>9, <1>10, <1>11, <1>12, Zenon
<1>14. Cardinality(j.loaded) = Len(ts)
  BY <1>4, <1>6, <1>12
<1> QED
  BY <1>12, <1>13, <1>14, Zenon DEF FormKept

(* A form keeps its targets in a step that leaves it or them alone.        *)
LEMMA JobKept ==
  ASSUME NEW c \in Clients, pc[c] # "idle" /\ job[c].kind = "edit" => FormKept(job[c]),
         \/ pc'[c] = "idle"
         \/ job'[c].kind # "edit"
         \/ pc[c] # "idle" /\ job'[c] = job[c]
         \/ /\ pc[c] # "idle" /\ job'[c].kind = job[c].kind
            /\ job'[c].loaded = job[c].loaded
            /\ job'[c].req.targets = job[c].req.targets
  PROVE  pc'[c] # "idle" /\ job'[c].kind = "edit" => FormKept(job'[c])
BY DEF FormKept

(* A request that is not turned down becomes what its client is doing.     *)
LEMMA NewJob ==
  ASSUME ResInv, NEW c \in Clients, NEW j, Ask(c, j)
  PROVE  pc'[c] = "idle" \/ job'[c] = j
BY DEF Ask, ResInv, Shapes

(* What a client does to its own form.                                     *)
LEMMA OwnForm ==
  ASSUME ResInv, EditInv, NEW c \in Clients,
         \/ \E kind \in Kinds, n \in Names : Request(c, kind, n)
         \/ \E n \in Names : DeleteRequest(c, n) \/ OpenForm(c, n)
         \/ \E rest \in Rests : SaveForm(c, rest)
         \/ StartWizard(c)
         \/ Handle(c)
  PROVE  pc'[c] # "idle" /\ job'[c].kind = "edit" => FormKept(job'[c])
<1>0. pc[c] # "idle" /\ job[c].kind = "edit" => FormKept(job[c])
  BY DEF EditInv
<1>1. ASSUME NEW kind \in Kinds, NEW n \in Names, Request(c, kind, n)
      PROVE  pc'[c] = "idle" \/ job'[c].kind # "edit"
  <2>1. PICK req \in Requests : Ask(c, Job(kind, n, req))
    BY <1>1 DEF Request
  <2>2. Job(kind, n, req).kind # "edit"
    BY <1>1 DEF Request, Job
  <2> QED
    BY <2>1, <2>2, NewJob
<1>2. ASSUME NEW n \in Names, DeleteRequest(c, n)
      PROVE  pc'[c] = "idle" \/ job'[c].kind # "edit"
  <2>1. Ask(c, Job("delete", n, None)) /\ Job("delete", n, None).kind # "edit"
    BY <1>2 DEF DeleteRequest, Job
  <2> QED
    BY <2>1, NewJob
<1>3. ASSUME NEW n \in Names, OpenForm(c, n)
      PROVE  FormKept(job'[c])
  <2>1. PICK s \in Listings(targets[n]) :
          job' = [job EXCEPT ![c] =
            [kind |-> "edit", name |-> n, loaded |-> Untagged(targets[n]),
             req |-> [protocol |-> resources[n].protocol, domain |-> resources[n].domain,
                      rest |-> resources[n].rest,
                      targets |-> [i \in DOMAIN s |-> FormTarget(s[i])]]]]
    BY <1>3 DEF OpenForm
  <2>2. /\ job'[c].loaded = Untagged(targets[n])
        /\ job'[c].req.targets = [i \in DOMAIN s |-> FormTarget(s[i])]
    BY <2>1 DEF ResInv, Shapes
  <2>3. Whole(n) /\ resources[n] # None
    BY <1>3 DEF OpenForm, ResInv, NameInv
  <2> QED
    BY <2>2, <2>3, FormFilled
<1>4. ASSUME NEW rest \in Rests, SaveForm(c, rest)
      PROVE  \/ pc'[c] = "idle"
             \/ /\ pc[c] # "idle" /\ job'[c].kind = job[c].kind
                /\ job'[c].loaded = job[c].loaded
                /\ job'[c].req.targets = job[c].req.targets
  <2> DEFINE req == [job[c].req EXCEPT !.rest = rest,
                        !.domain = IF job[c].req.protocol = "http" THEN @ ELSE None]
             j == [job[c] EXCEPT !.req = req]
  <2>1. pc[c] = "form" /\ Ask(c, j)
    BY <1>4 DEF SaveForm
  <2>2. job[c] \in JobType /\ job[c].req \in Payload
    BY <2>1 DEF ResInv, ClientInv
  <2>3. req.targets = job[c].req.targets
    BY <2>2 DEF Payload
  <2> HIDE DEF req
  <2>4. j.kind = job[c].kind /\ j.loaded = job[c].loaded /\ j.req = req
    BY <2>2 DEF JobType
  <2> HIDE DEF j
  <2> QED
    BY <2>1, <2>3, <2>4, NewJob
<1>5. ASSUME StartWizard(c)
      PROVE  pc'[c] = "idle" \/ job'[c].kind # "edit"
  <2>1. PICK ts \in WizardTargets : Ask(c, Job("wizard", Pair[1], WizardRequest("tcp", ts)))
    BY <1>5 DEF StartWizard
  <2>2. Job("wizard", Pair[1], WizardRequest("tcp", ts)).kind # "edit"
    BY DEF Job
  <2> QED
    BY <2>1, <2>2, NewJob
<1>6. ASSUME Handle(c)
      PROVE  \/ pc'[c] = "idle"
             \/ job'[c].kind # "edit"
             \/ pc[c] # "idle" /\ job'[c] = job[c]
  <2>1. CASE job' = job
    BY <1>6, <2>1 DEF Handle, Statement, Fault, InsertRow, UpdateRow, ClearTargets,
                      InsertTarget, Fail, Commit, Answered, CommitUnheard, DeleteResource
  <2>2. CASE pc' = [pc EXCEPT ![c] = "idle"]
    BY <2>2 DEF ResInv, Shapes
  <2>3. CASE job' = [job EXCEPT ![c] =
                       Job("wizard", Pair[2], WizardRequest("udp", @.req.targets))]
    <3>1. job'[c] = Job("wizard", Pair[2], WizardRequest("udp", job[c].req.targets))
      BY <2>3 DEF ResInv, Shapes
    <3> QED
      BY <3>1 DEF Job
  <2> QED
    BY <1>6, <2>1, <2>2, <2>3
    DEF Handle, Statement, Fault, InsertRow, UpdateRow, ClearTargets, InsertTarget, Fail,
        Commit, Answered, CommitUnheard, DeleteResource
<1> QED
  BY <1>0, <1>1, <1>2, <1>3, <1>4, <1>5, <1>6, JobKept

(* Nobody changes another client's form.                                   *)
LEMMA OtherForm ==
  ASSUME ResInv, NEW c \in Clients, NEW d \in Clients, c # d,
         \/ \E kind \in Kinds, n \in Names : Request(c, kind, n)
         \/ \E n \in Names : DeleteRequest(c, n) \/ OpenForm(c, n)
         \/ \E rest \in Rests : SaveForm(c, rest)
         \/ StartWizard(c)
         \/ Handle(c)
  PROVE  pc'[d] = pc[d] /\ job'[d] = job[d]
<1>1. ASSUME NEW j, Ask(c, j) PROVE pc'[d] = pc[d] /\ job'[d] = job[d]
  BY <1>1 DEF Ask, ResInv, Shapes
<1>2. ASSUME NEW n \in Names, OpenForm(c, n) PROVE pc'[d] = pc[d] /\ job'[d] = job[d]
  BY <1>2 DEF OpenForm, ResInv, Shapes
<1>3. ASSUME Handle(c) PROVE pc'[d] = pc[d] /\ job'[d] = job[d]
  BY <1>3 DEF Handle, Statement, Fault, InsertRow, UpdateRow, ClearTargets, InsertTarget, Fail,
              Commit, Answered, CommitUnheard, DeleteResource, ResInv, Shapes
<1> QED
  BY <1>1, <1>2, <1>3 DEF Request, DeleteRequest, SaveForm, StartWizard

(* Every form on its way asks for the targets that it was filled with.     *)
LEMMA EditInductive == Spec => []EditInv
<1>1. Init => EditInv
  BY DEF Init, EditInv
<1>2. ResInv /\ EditInv /\ [Next]_vars => EditInv'
  <2> SUFFICES ASSUME ResInv, EditInv, [Next]_vars, NEW d \in Clients
               PROVE  pc'[d] # "idle" /\ job'[d].kind = "edit" => FormKept(job'[d])
    BY DEF EditInv, FormKept
  <2>0. pc[d] # "idle" /\ job[d].kind = "edit" => FormKept(job[d])
    BY DEF EditInv
  <2>1. CASE UNCHANGED <<pc, job>>
    BY <2>0, <2>1
  <2>2. ASSUME NEW c \in Clients,
               \/ \E kind \in Kinds, n \in Names : Request(c, kind, n)
               \/ \E n \in Names : DeleteRequest(c, n) \/ OpenForm(c, n)
               \/ \E rest \in Rests : SaveForm(c, rest)
               \/ StartWizard(c)
               \/ Handle(c)
        PROVE  pc'[d] # "idle" /\ job'[d].kind = "edit" => FormKept(job'[d])
    <3>1. CASE c = d
      BY <2>2, <3>1, OwnForm
    <3>2. CASE c # d
      BY <2>0, <2>2, <3>2, OtherForm
    <3> QED
      BY <3>1, <3>2
  <2> QED
    BY <2>1, <2>2 DEF Next, Register, vars
<1> QED
  BY <1>1, <1>2, ResInductive, PTL DEF Spec

(* Only the transaction that holds a resource changes its targets, by      *)
(* committing what it has written.                                         *)
LEMMA HolderWrites ==
  ASSUME ResInv, [Next]_vars, NEW c \in Clients, pc[c] = "insert",
         targets'[job[c].name] # targets[job[c].name]
  PROVE  /\ Cardinality(new[c]) = Len(job[c].req.targets)
         /\ Written(c)
<1> DEFINE n == job[c].name
<1>1. n \in Names /\ lock[n] = c /\ c # None
  BY NoneAssumption, JobTyped DEF ResInv, ClientInv
<1>2. targets' # targets
  OBVIOUS
<1>3. PICK d \in Clients : Handle(d) /\ ~Fail(d)
  BY <1>2 DEF Next, Register, Request, DeleteRequest, OpenForm, SaveForm, StartWizard, Ask,
              Fail, vars, tables
<1>4. CASE /\ pc[d] = "insert" /\ Cardinality(new[d]) = Len(job[d].req.targets)
           /\ Written(d)
  <2>1. job[d].name = n
    BY <1>4 DEF Written, ResInv, Shapes
  <2>2. lock[job[d].name] = d
    BY <1>4 DEF ResInv, ClientInv
  <2> QED
    BY <1>1, <1>4, <2>1, <2>2
<1>5. CASE DeleteResource(d)
  <2>1. /\ pc[d] = "begin" /\ targets' = [targets EXCEPT ![job[d].name] = {}]
        /\ resources[job[d].name] # None => lock[job[d].name] = None
    BY <1>5 DEF DeleteResource
  <2>2. job[d].name = n /\ targets'[n] = {}
    BY <1>1, <2>1 DEF ResInv, Shapes
  <2>3. resources[n] = None
    BY <1>1, <2>1, <2>2
  <2> QED
    BY <1>1, <2>2, <2>3, NoneEmpty
<1> QED
  BY <1>2, <1>3, <1>4, <1>5 DEF Handle, Statement, Fault, InsertRow, UpdateRow, ClearTargets,
                                InsertTarget, Commit, CommitUnheard, tables

(* The rows of a request hold what it sent.                                *)
LEMMA RowsKept ==
  ASSUME NEW req \in Payload, NEW c
  PROVE  Kept(Rows(c, req, Len(req.targets)))
           = {Sent(req.targets[i]) : i \in DOMAIN req.targets}
<1>1. DOMAIN req.targets = 1..Len(req.targets)
  BY PayloadTargets
<1>2. ASSUME NEW i
      PROVE  /\ RowOf(c, req, i).node = req.targets[i].node
             /\ RowOf(c, req, i).address = req.targets[i].address
             /\ RowOf(c, req, i).role = DefaultRole(req.targets[i].role)
  BY DEF RowOf
<1> QED
  BY <1>1, <1>2 DEF Kept, Rows, Sent

(* A form that is saved with its targets as they were stores the targets   *)
(* it was opened with, nodes as nodes, whatever others did meanwhile.      *)
THEOREM EditsKeepTargetsThm == Spec => EditsKeepTargets
<1> DEFINE SameTargets(c) ==
             /\ Kept(targets'[job[c].name]) = Kept(job[c].loaded)
             /\ Cardinality(targets'[job[c].name]) = Cardinality(job[c].loaded)
<1>1. ASSUME ResInv, EditInv, [Next]_vars, NEW c \in Clients,
             pc[c] = "insert", job[c].kind = "edit",
             targets'[job[c].name] # targets[job[c].name]
      PROVE  SameTargets(c)
  <2> DEFINE n == job[c].name
             req == job[c].req
  <2>1. /\ req \in Payload /\ targets'[n] = Rows(c, req, Len(req.targets))
        /\ Cardinality(targets'[n]) = Len(req.targets)
    <3>1. /\ n \in Names /\ req \in Payload
          /\ targets' = [targets EXCEPT ![n] = Rows(c, req, Len(req.targets))]
          /\ Cardinality(Rows(c, req, Len(req.targets))) = Len(req.targets)
      BY <1>1, HolderWrites, Writes
    <3> QED
      BY <1>1, <3>1 DEF ResInv, Shapes
  <2>2. FormKept(job[c])
    BY <1>1 DEF EditInv
  <2>3. Kept(targets'[n]) = {Sent(req.targets[i]) : i \in DOMAIN req.targets}
    BY <2>1, RowsKept
  <2> QED
    BY <2>1, <2>2, <2>3 DEF FormKept
<1>2. ResInv /\ EditInv /\ [Next]_vars =>
        [\A c \in Clients :
           pc[c] = "insert" /\ job[c].kind = "edit" /\ targets'[job[c].name] # targets[job[c].name]
             /\ lock'[job[c].name] # c
           => SameTargets(c)]_vars
  BY <1>1
<1> QED
  BY <1>2, ResInductive, EditInductive, PTL DEF Spec, EditsKeepTargets
=============================================================================
