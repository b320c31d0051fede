-------------------------- MODULE MeshServerProofs --------------------------
(***************************************************************************)
(* Theorems about MeshServer for any number of nodes, keys, addresses and  *)
(* connections: types, addresses, lists, keys that two names share, the    *)
(* refinement of MeshRegistry, mutual discovery.                           *)
(***************************************************************************)
EXTENDS MeshServerRegistry, TLAPS

USE DEF Addresses, Row, Agent, Answer

(* The row an upsert writes is a row.                                      *)
LEMMA NewRowTyped ==
  ASSUME TypeOK, NEW c \in Conns, pc[c] = "upsert"
  PROVE  NewRow(c) \in Row /\ agent[c] \in Agent
<1>1. agent[c] \in Agent
  BY DEF TypeOK
<1>2. meshIP[c] \in Addresses
  BY DEF TypeOK
<1>3. nodes[agent[c].name] = None \/ nodes[agent[c].name].ip \in Addresses
  BY <1>1 DEF TypeOK
<1> QED
  BY <1>1, <1>2, <1>3 DEF NewRow

(* ListNodes returns rows.                                                 *)
LEMMA SnapTyped ==
  ASSUME TypeOK
  PROVE  Rows \in SUBSET Row
BY DEF TypeOK, Rows, Registered

(* Ending goroutines, by a panic or a restart of the process, keeps the    *)
(* types, whatever becomes of the map and the lists in the same step.      *)
LEMMA QuitTyped ==
  ASSUME TypeOK, NEW D \in SUBSET {c \in Conns : pc[c] # "idle"}, Quit(D),
         UNCHANGED <<agent, nodes, fresh, reply>>,
         conns' \in [Keys -> Conns \cup {None}],
         list' \in [Conns -> (SUBSET Row) \cup {None}],
         Pushed' \subseteq alive'
  PROVE  TypeOK'
<1>1. /\ alive' \subseteq {c \in Conns : pc'[c] \notin {"idle", "closed"}}
      /\ hb' \subseteq {c \in Conns : pc'[c] \notin {"idle", "closed"}}
  BY DEF TypeOK, Quit
<1>2. pc' \in [Conns -> Stages]
  BY DEF TypeOK, Quit, Stages
<1>3. \A c \in Conns : agent'[c] = None <=> pc'[c] = "idle"
  BY DEF TypeOK, Quit
<1>4. /\ meshIP' \in [Conns -> Addresses \cup {None}]
      /\ \A c \in Conns :
           meshIP'[c] # None <=> pc'[c] \in {"upsert", "join", "list", "reply"}
  BY DEF TypeOK, Quit
<1>5. snap' \in [Conns -> SUBSET Row]
  BY DEF TypeOK, Quit
<1> QED
  BY <1>1, <1>2, <1>3, <1>4, <1>5 DEF TypeOK, Registered

(* Taking one connection's entry out of a function of them.                *)
LEMMA ClearedTyped ==
  ASSUME NEW S, NEW l \in [Conns -> S \cup {None}], NEW c \in Conns
  PROVE  /\ [l EXCEPT ![c] = None] \in [Conns -> S \cup {None}]
         /\ \A d \in Conns : [l EXCEPT ![c] = None][d] = IF d = c THEN None ELSE l[d]
OBVIOUS

(* A broadcast writes lists of rows (PeerListFor).                         *)
LEMMA PushingTyped ==
  ASSUME TypeOK, NEW c \in Conns, NEW cs \in SUBSET Conns
  PROVE  Pushing(c, cs) \in [Conns -> (SUBSET Row) \cup {None}]
BY DEF TypeOK, Pushing, PeersFor

(* The server starts with an empty table and an empty map (New).           *)
LEMMA InitTyped == Init => TypeOK
<1> SUFFICES ASSUME Init PROVE TypeOK
  OBVIOUS
<1>1. Registered = {} /\ Pushed = {}
  BY DEF Init, Registered, Pushed
<1> QED
  BY <1>1 DEF Init, TypeOK, Stages

(* Every variable keeps its type, whatever fails in between.               *)
THEOREM Typed == Spec => []TypeOK
<1>1. Init => TypeOK
  BY InitTyped
<1>2. TypeOK /\ [Next]_vars => TypeOK'
  <2> SUFFICES ASSUME TypeOK, [Next]_vars
               PROVE  TypeOK'
    OBVIOUS
  <2>1. ASSUME NEW c \in Conns, NEW n \in Names, NEW k \in KeysOf[n], NEW attr \in Attrs,
               Dial(c, n, k, attr)
        PROVE  TypeOK'
    <3>1. [name |-> n, key |-> k, attr |-> attr] \in Agent
      BY KeysAssumption
    <3>2. [name |-> n, key |-> k, attr |-> attr] # None
      BY <3>1, RecordAssumption
    <3> QED
      BY <2>1, <3>1, <3>2 DEF TypeOK, Dial, Stages, Pushed, Registered
  <2>2. ASSUME NEW c \in Conns, AgentGone(c)
        PROVE  TypeOK'
    <3>1. list' \in [Conns -> (SUBSET Row) \cup {None}] /\ Pushed' \subseteq alive'
      BY <2>2, ClearedTyped DEF TypeOK, AgentGone, Pushed
    <3> QED
      BY <2>2, <3>1 DEF TypeOK, AgentGone, Registered
  <2>3. ASSUME NEW c \in Conns, SendHeartbeat(c)
        PROVE  TypeOK'
    BY <2>3 DEF TypeOK, SendHeartbeat, Pushed, Registered
  <2>4. ASSUME NEW c \in Conns, ReadRegister(c)
        PROVE  TypeOK'
    BY <2>4, HostsAssumption DEF TypeOK, ReadRegister, Allocated, Stages, Pushed, Registered
  <2>5. ASSUME NEW c \in Conns, Upsert(c)
        PROVE  TypeOK'
    BY <2>5, NewRowTyped, HostsAssumption, RecordAssumption
       DEF TypeOK, Upsert, WriteRow, Stages, Pushed, Registered
  <2>6. ASSUME NEW c \in Conns, UpsertFails(c)
        PROVE  TypeOK'
    BY <2>6, NewRowTyped, HostsAssumption, RecordAssumption
       DEF TypeOK, UpsertFails, WriteRow, Stages, Pushed, Registered
  <2>7. ASSUME NEW c \in Conns, Join(c)
        PROVE  TypeOK'
    BY <2>7 DEF TypeOK, Join, Stages, Pushed, Registered
  <2>8. ASSUME NEW c \in Conns, List(c)
        PROVE  TypeOK'
    BY <2>8, SnapTyped DEF TypeOK, List, Stages, Pushed, Registered
  <2>9. ASSUME NEW c \in Conns, Reply(c)
        PROVE  TypeOK'
    BY <2>9 DEF TypeOK, Reply, PeersFor, Stages, Pushed, Registered
  <2>10. ASSUME NEW c \in Conns, Broadcast(c)
         PROVE  TypeOK'
    BY <2>10 DEF TypeOK, Broadcast, Pushing, PeersFor, Listening, Stages, Pushed, Registered
  <2>11. ASSUME NEW c \in Conns, ReadHeartbeat(c)
         PROVE  TypeOK'
    BY <2>11 DEF TypeOK, ReadHeartbeat, Touch, Stages, Pushed, Registered
  <2>12. ASSUME NEW c \in Conns, ReadError(c)
         PROVE  TypeOK'
    BY <2>12 DEF TypeOK, ReadError, Stages, Pushed, Registered
  <2>13. ASSUME NEW c \in Conns, NEW d \in Conns, WriteCollision(c, d)
         PROVE  TypeOK'
    <3>1. CASE \E cs \in SUBSET (Listening \ {c, d}) :
                 Quit({d}) /\ list' = [Pushing(d, cs) EXCEPT ![d] = None]
      <4>1. PICK cs \in SUBSET (Listening \ {c, d}) :
                 Quit({d}) /\ list' = [Pushing(d, cs) EXCEPT ![d] = None]
        BY <3>1
      <4>2. cs \subseteq alive /\ cs \subseteq Conns
        BY DEF Listening, TypeOK
      <4>3. list' \in [Conns -> (SUBSET Row) \cup {None}]
        BY <4>1, <4>2, PushingTyped, ClearedTyped
      <4>4. \A e \in Conns : list'[e] # None => e # d /\ (e \in cs \/ list[e] # None)
        BY <4>1, <4>2, PushingTyped, ClearedTyped DEF Pushing
      <4>5. Pushed' \subseteq alive'
        BY <4>1, <4>2, <4>4 DEF Pushed, Quit, TypeOK
      <4> QED
        BY <2>13, <4>1, <4>3, <4>5, QuitTyped DEF WriteCollision, Colliding, TypeOK
    <3>2. CASE Quit({c}) /\ list' = [list EXCEPT ![c] = None]
      <4>1. list' \in [Conns -> (SUBSET Row) \cup {None}] /\ Pushed' \subseteq alive'
        BY <3>2, ClearedTyped DEF TypeOK, Quit, Pushed
      <4> QED
        BY <2>13, <3>2, <4>1, QuitTyped DEF WriteCollision, Colliding, TypeOK
    <3> QED
      BY <2>13, <3>1, <3>2 DEF WriteCollision
  <2>14. ASSUME NEW c \in Conns, NEW d \in Conns, WriteGarbled(c, d)
         PROVE  TypeOK'
    BY <2>2, <2>14 DEF WriteGarbled
  <2>15. CASE ServerRestart
    <3>1. Pushed' = {} /\ list' \in [Conns -> (SUBSET Row) \cup {None}]
      BY <2>15 DEF ServerRestart, Pushed
    <3>2. conns' \in [Keys -> Conns \cup {None}]
      BY <2>15 DEF ServerRestart
    <3> QED
      BY <2>15, <3>1, <3>2, QuitTyped DEF ServerRestart
  <2>16. ASSUME NEW n \in Names, Age(n)
         PROVE  TypeOK'
    BY <2>16 DEF TypeOK, Age, Pushed, Registered
  <2>17. CASE UNCHANGED vars
    BY <2>17 DEF TypeOK, vars, Pushed, Registered
  <2> QED
    BY <2>1, <2>2, <2>3, <2>4, <2>5, <2>6, <2>7, <2>8, <2>9, <2>10, <2>11,
       <2>12, <2>13, <2>14, <2>15, <2>16, <2>17 DEF Next, Serve
<1> QED
  BY <1>1, <1>2, PTL DEF Spec
-----------------------------------------------------------------------------
(* What a step does to the table, to the agents and to the handlers.       *)

(* An agent dials.                                                         *)
Dials ==
  \E c \in Conns, n \in Names, attr \in Attrs : \E k \in KeysOf[n] : Dial(c, n, k, attr)

(* Only the statement of UpsertNode writes the table, and only when the    *)
(* UNIQUE constraints allow it.                                            *)
TableStep ==
  \/ UNCHANGED nodes
  \/ \E c \in Conns : pc[c] = "upsert" /\ UniqueOK(c) /\ WriteRow(c)

SnapStep ==
  \/ UNCHANGED snap
  \/ \E c \in Conns : List(c) \/ Reply(c) \/ Broadcast(c)
  \/ \E D \in SUBSET Conns : Quit(D)

PushStep ==
  \/ UNCHANGED list
  \/ \E c \in Conns : AgentGone(c) \/ Reply(c) \/ Broadcast(c)
  \/ \E c, d \in Conns : WriteCollision(c, d)
  \/ ServerRestart

(* Where goroutines are changes when an agent dials, when one of them      *)
(* runs, and when some of them end; else only agents and time move.        *)
ServerStep ==
  \/ UNCHANGED <<nodes, pc, meshIP, snap, reply>>
  \/ Dials
  \/ \E c \in Conns : Serve(c)
  \/ UNCHANGED <<nodes, reply>> /\ \E D \in SUBSET Conns : Quit(D)

(* Which actions change which variables.                                   *)
Frame ==
  /\ TableStep
  /\ UNCHANGED agent \/ Dials
  /\ UNCHANGED reply \/ \E c \in Conns : Reply(c)
  /\ SnapStep /\ PushStep /\ ServerStep

(* Every step keeps to it.                                                 *)
LEMMA Framed == ASSUME [Next]_vars PROVE Frame
<1> USE DEF Frame
<1>1. ASSUME NEW c \in Conns, NEW n \in Names, NEW attr \in Attrs, NEW k \in KeysOf[n],
             Dial(c, n, k, attr)
      PROVE  Frame
  <2>1. Dials
    BY <1>1 DEF Dials
  <2> QED
    BY <1>1, <2>1 DEF Dial, TableStep, SnapStep, PushStep, ServerStep
<1>2. ASSUME NEW c \in Conns, AgentGone(c)
      PROVE  Frame
  BY <1>2 DEF AgentGone, TableStep, SnapStep, PushStep, ServerStep
<1>3. ASSUME NEW c \in Conns, SendHeartbeat(c)
      PROVE  Frame
  BY <1>3 DEF SendHeartbeat, TableStep, SnapStep, PushStep, ServerStep
<1>4. ASSUME NEW c \in Conns, ReadRegister(c)
      PROVE  Frame
  <2>1. ServerStep
    BY <1>4 DEF ServerStep, Serve
  <2>2. TableStep
    BY <1>4 DEF ReadRegister, TableStep
  <2>3. SnapStep
    BY <1>4 DEF ReadRegister, SnapStep
  <2>4. PushStep
    BY <1>4 DEF ReadRegister, PushStep
  <2>5. UNCHANGED agent /\ (UNCHANGED reply \/ \E d \in Conns : Reply(d))
    BY <1>4 DEF ReadRegister
  <2> QED
    BY <2>1, <2>2, <2>3, <2>4, <2>5
<1>5. ASSUME NEW c \in Conns, Upsert(c)
      PROVE  Frame
  <2>1. ServerStep
    BY <1>5 DEF ServerStep, Serve
  <2>2. TableStep
    BY <1>5 DEF Upsert, TableStep
  <2>3. SnapStep
    BY <1>5 DEF Upsert, SnapStep
  <2>4. PushStep
    BY <1>5 DEF Upsert, PushStep
  <2>5. UNCHANGED agent /\ (UNCHANGED reply \/ \E d \in Conns : Reply(d))
    BY <1>5 DEF Upsert
  <2> QED
    BY <2>1, <2>2, <2>3, <2>4, <2>5
<1>6. ASSUME NEW c \in Conns, UpsertFails(c)
      PROVE  Frame
  <2>1. ServerStep
    BY <1>6 DEF ServerStep, Serve
  <2>2. TableStep
    BY <1>6 DEF UpsertFails, TableStep
  <2>3. SnapStep
    BY <1>6 DEF UpsertFails, SnapStep
  <2>4. PushStep
    BY <1>6 DEF UpsertFails, PushStep
  <2>5. UNCHANGED agent /\ (UNCHANGED reply \/ \E d \in Conns : Reply(d))
    BY <1>6 DEF UpsertFails
  <2> QED
    BY <2>1, <2>2, <2>3, <2>4, <2>5
<1>7. ASSUME NEW c \in Conns, Join(c)
      PROVE  Frame
  <2>1. ServerStep
    BY <1>7 DEF ServerStep, Serve
  <2>2. TableStep
    BY <1>7 DEF Join, TableStep
  <2>3. SnapStep
    BY <1>7 DEF Join, SnapStep
  <2>4. PushStep
    BY <1>7 DEF Join, PushStep
  <2>5. UNCHANGED agent /\ (UNCHANGED reply \/ \E d \in Conns : Reply(d))
    BY <1>7 DEF Join
  <2> QED
    BY <2>1, <2>2, <2>3, <2>4, <2>5
<1>8. ASSUME NEW c \in Conns, List(c)
      PROVE  Frame
  <2>1. ServerStep
    BY <1>8 DEF ServerStep, Serve
  <2>2. TableStep
    BY <1>8 DEF List, TableStep
  <2>3. SnapStep
    BY <1>8 DEF SnapStep
  <2>4. PushStep
    BY <1>8 DEF List, PushStep
  <2>5. UNCHANGED agent /\ (UNCHANGED reply \/ \E d \in Conns : Reply(d))
    BY <1>8 DEF List
  <2> QED
    BY <2>1, <2>2, <2>3, <2>4, <2>5
<1>9. ASSUME NEW c \in Conns, Reply(c)
      PROVE  Frame
  <2>1. ServerStep
    BY <1>9 DEF ServerStep, Serve
  <2>2. TableStep
    BY <1>9 DEF Reply, TableStep
  <2>3. SnapStep
    BY <1>9 DEF SnapStep
  <2>4. PushStep
    BY <1>9 DEF PushStep
  <2>5. UNCHANGED agent /\ (UNCHANGED reply \/ \E d \in Conns : Reply(d))
    BY <1>9 DEF Reply
  <2> QED
    BY <2>1, <2>2, <2>3, <2>4, <2>5
<1>10. ASSUME NEW c \in Conns, Broadcast(c)
      PROVE  Frame
  <2>1. ServerStep
    BY <1>10 DEF ServerStep, Serve
  <2>2. TableStep
    BY <1>10 DEF Broadcast, TableStep
  <2>3. SnapStep
    BY <1>10 DEF SnapStep
  <2>4. PushStep
    BY <1>10 DEF PushStep
  <2>5. UNCHANGED agent /\ (UNCHANGED reply \/ \E d \in Conns : Reply(d))
    BY <1>10 DEF Broadcast
  <2> QED
    BY <2>1, <2>2, <2>3, <2>4, <2>5
<1>11. ASSUME NEW c \in Conns, ReadHeartbeat(c)
      PROVE  Frame
  <2>1. ServerStep
    BY <1>11 DEF ServerStep, Serve
  <2>2. TableStep
    BY <1>11 DEF ReadHeartbeat, TableStep
  <2>3. SnapStep
    BY <1>11 DEF ReadHeartbeat, SnapStep
  <2>4. PushStep
    BY <1>11 DEF ReadHeartbeat, PushStep
  <2>5. UNCHANGED agent /\ (UNCHANGED reply \/ \E d \in Conns : Reply(d))
    BY <1>11 DEF ReadHeartbeat
  <2> QED
    BY <2>1, <2>2, <2>3, <2>4, <2>5
<1>12. ASSUME NEW c \in Conns, ReadError(c)
      PROVE  Frame
  <2>1. ServerStep
    BY <1>12 DEF ServerStep, Serve
  <2>2. TableStep
    BY <1>12 DEF ReadError, TableStep
  <2>3. SnapStep
    BY <1>12 DEF ReadError, SnapStep
  <2>4. PushStep
    BY <1>12 DEF ReadError, PushStep
  <2>5. UNCHANGED agent /\ (UNCHANGED reply \/ \E d \in Conns : Reply(d))
    BY <1>12 DEF ReadError
  <2> QED
    BY <2>1, <2>2, <2>3, <2>4, <2>5
<1>13. ASSUME NEW c \in Conns, NEW d \in Conns, WriteCollision(c, d)
      PROVE  Frame
  <2>1. \E D \in SUBSET Conns : Quit(D)
    <3>1. Quit({c}) \/ Quit({d})
      BY <1>13 DEF WriteCollision
    <3> QED
      BY <3>1
  <2>2. UNCHANGED <<nodes, agent, reply>>
    BY <1>13 DEF WriteCollision
  <2> QED
    BY <1>13, <2>1, <2>2 DEF TableStep, SnapStep, PushStep, ServerStep
<1>14. ASSUME NEW c \in Conns, NEW d \in Conns, WriteGarbled(c, d)
      PROVE  Frame
  BY <1>2, <1>14 DEF WriteGarbled
<1>15. CASE ServerRestart
  <2>1. UNCHANGED <<nodes, agent, reply>> /\ \E D \in SUBSET Conns : Quit(D)
    BY <1>15 DEF ServerRestart
  <2> QED
    BY <1>15, <2>1 DEF TableStep, SnapStep, PushStep, ServerStep
<1>16. ASSUME NEW n \in Names, Age(n)
      PROVE  Frame
  BY <1>16 DEF Age, TableStep, SnapStep, PushStep, ServerStep
<1>17. CASE UNCHANGED vars
  BY <1>17 DEF vars, TableStep, SnapStep, PushStep, ServerStep
<1> HIDE DEF Frame
<1> QED
  BY <1>1, <1>2, <1>3, <1>4, <1>5, <1>6, <1>7, <1>8, <1>9, <1>10, <1>11, <1>12, <1>13, <1>14, <1>15, <1>16, <1>17
     DEF Next, Serve

(* The same, for a step that a proof is about.                             *)
LEMMA TableSteps == ASSUME [Next]_vars PROVE TableStep
BY Framed DEF Frame

(* Rows stay, and keep their addresses (ON CONFLICT (name)).               *)
LEMMA AddressStays ==
  ASSUME TypeOK, [Next]_vars, NEW n \in Registered
  PROVE  n \in Registered' /\ nodes'[n].ip = nodes[n].ip
<1>1. CASE UNCHANGED nodes
  BY <1>1 DEF Registered
<1>2. ASSUME NEW c \in Conns, pc[c] = "upsert", WriteRow(c)
      PROVE  n \in Registered' /\ nodes'[n].ip = nodes[n].ip
  BY <1>2, NewRowTyped, RecordAssumption DEF WriteRow, NewRow, Registered, TypeOK
<1> QED
  BY <1>1, <1>2, TableSteps DEF TableStep

(* A connection has one register message.                                  *)
LEMMA AgentStays ==
  ASSUME TypeOK, [Next]_vars, NEW c \in Conns, agent[c] # None
  PROVE  agent'[c] = agent[c]
<1>1. CASE Dials
  BY <1>1 DEF Dials, Dial, TypeOK
<1>2. CASE UNCHANGED agent
  BY <1>2
<1> QED
  BY <1>1, <1>2, Framed DEF Frame

(* The connections between UpsertNode and the reply.                       *)
Registering == {c \in Conns : pc[c] \in {"join", "list", "reply"}}

(* A handler keeps the address that UpsertNode gave it.                    *)
LEMMA HandlerSteps ==
  ASSUME TypeOK, [Next]_vars, NEW c \in Registering'
  PROVE  \/ c \in Registering /\ meshIP'[c] = meshIP[c]
         \/ Upsert(c)
<1> USE DEF TypeOK, Registering
<1>1. CASE Dials
  BY <1>1 DEF Dials, Dial
<1>2. ASSUME NEW d \in Conns, ReadRegister(d) \/ UpsertFails(d) \/ Join(d)
      PROVE  c \in Registering /\ meshIP'[c] = meshIP[c]
  BY <1>2 DEF ReadRegister, UpsertFails, Join
<1>3. ASSUME NEW d \in Conns,
             List(d) \/ Reply(d) \/ Broadcast(d) \/ ReadHeartbeat(d) \/ ReadError(d)
      PROVE  c \in Registering /\ meshIP'[c] = meshIP[c]
  BY <1>3 DEF List, Reply, Broadcast, ReadHeartbeat, ReadError
<1>4. ASSUME NEW d \in Conns, Upsert(d)
      PROVE  (c \in Registering /\ meshIP'[c] = meshIP[c]) \/ Upsert(c)
  BY <1>4 DEF Upsert
<1>5. ASSUME NEW D \in SUBSET Conns, Quit(D)
      PROVE  c \in Registering /\ meshIP'[c] = meshIP[c]
  BY <1>5 DEF Quit
<1>6. CASE UNCHANGED <<pc, meshIP>>
  BY <1>6
<1> HIDE DEF TypeOK, Registering
<1>7. ServerStep
  BY Framed DEF Frame
<1> QED
  BY <1>1, <1>2, <1>3, <1>4, <1>5, <1>6, <1>7 DEF ServerStep, Serve

(* A reply is never taken back, and is made of the handler's variables.    *)
LEMMA ReplySteps ==
  ASSUME TypeOK, [Next]_vars, NEW c \in Answered'
  PROVE  \/ c \in Answered /\ reply'[c] = reply[c]
         \/ /\ pc[c] = "reply"
            /\ reply'[c] = [ip |-> meshIP[c], peers |-> PeersFor(agent[c].key, snap[c])]
<1>1. ASSUME NEW d \in Conns, Reply(d)
      PROVE  \/ c \in Answered /\ reply'[c] = reply[c]
             \/ /\ pc[c] = "reply"
                /\ reply'[c] = [ip |-> meshIP[c], peers |-> PeersFor(agent[c].key, snap[c])]
  BY <1>1 DEF Reply, TypeOK, Answered
<1>2. CASE UNCHANGED reply
  BY <1>2 DEF Answered
<1> QED
  BY <1>1, <1>2, Framed DEF Frame
-----------------------------------------------------------------------------
(* Addresses.                                                              *)

(* No key and no address is in two rows.                                   *)
TableOK ==
  \A m, n \in Registered :
     m # n => nodes[m].key # nodes[n].key /\ nodes[m].ip # nodes[n].ip

(* A handler is about to reply the address of its agent's row.             *)
HandlersOK ==
  \A c \in Registering : /\ agent[c].name \in Registered
                         /\ meshIP[c] = nodes[agent[c].name].ip

(* What was replied is the address of the row still.                       *)
RepliesOK ==
  \A c \in Answered : /\ agent[c] # None
                      /\ agent[c].name \in Registered
                      /\ reply[c].ip = nodes[agent[c].name].ip

(* Why an address is an identity, as an inductive invariant.               *)
AddressInv == TypeOK /\ TableOK /\ HandlersOK /\ RepliesOK

(* It is inductive: the table changes at UpsertNode only, where the        *)
(* constraints are checked, and addresses in it never change.              *)
LEMMA AddressInvInductive ==
  ASSUME AddressInv, TypeOK', [Next]_vars
  PROVE  AddressInv'
<1> USE DEF AddressInv
<1>1. TableOK'
  <2>1. CASE UNCHANGED nodes
    BY <2>1 DEF TableOK, Registered
  <2>2. ASSUME NEW c \in Conns, pc[c] = "upsert", UniqueOK(c), WriteRow(c)
        PROVE  TableOK'
    BY <2>2, NewRowTyped DEF TableOK, WriteRow, UniqueOK, Registered, TypeOK
  <2> QED
    BY <2>1, <2>2, TableSteps DEF TableStep
<1>2. HandlersOK'
  <2> SUFFICES ASSUME NEW c \in Registering'
               PROVE  /\ agent'[c].name \in Registered'
                      /\ meshIP'[c] = nodes'[agent'[c].name].ip
    BY DEF HandlersOK
  <2>1. CASE c \in Registering /\ meshIP'[c] = meshIP[c]
    <3>1. agent'[c] = agent[c]
      BY <2>1, AgentStays DEF Registering, TypeOK
    <3> QED
      BY <2>1, <3>1, AddressStays DEF HandlersOK
  <2>2. CASE Upsert(c)
    <3>1. c \in Conns /\ agent'[c] = agent[c] /\ pc[c] = "upsert"
      BY <2>2 DEF Upsert, Registering
    <3> QED
      BY <2>2, <3>1, NewRowTyped, RecordAssumption
         DEF Upsert, WriteRow, Registered, TypeOK
  <2> QED
    BY <2>1, <2>2, HandlerSteps
<1>3. RepliesOK'
  <2> SUFFICES ASSUME NEW c \in Answered'
               PROVE  /\ agent'[c] # None
                      /\ agent'[c].name \in Registered'
                      /\ reply'[c].ip = nodes'[agent'[c].name].ip
    BY DEF RepliesOK
  <2>1. c \in Conns /\ agent[c] # None /\ agent[c].name \in Registered
    BY ReplySteps DEF RepliesOK, HandlersOK, Registering, Answered, TypeOK
  <2>2. agent'[c] = agent[c]
    BY <2>1, AgentStays
  <2>3. reply'[c].ip = nodes[agent[c].name].ip
    <3>1. CASE c \in Answered /\ reply'[c] = reply[c]
      BY <3>1 DEF RepliesOK
    <3>2. CASE /\ pc[c] = "reply"
               /\ reply'[c] = [ip |-> meshIP[c], peers |-> PeersFor(agent[c].key, snap[c])]
      BY <2>1, <3>2 DEF HandlersOK, Registering
    <3> QED
      BY <3>1, <3>2, ReplySteps
  <2> QED
    BY <2>1, <2>2, <2>3, AddressStays
<1> QED
  BY <1>1, <1>2, <1>3

(* It holds in every state.                                                *)
LEMMA AddressInvariant == Spec => []AddressInv
<1>1. Init => AddressInv
  <2> SUFFICES ASSUME Init PROVE AddressInv
    OBVIOUS
  <2>1. Registered = {} /\ Registering = {} /\ Answered = {}
    BY DEF Init, Registered, Registering, Answered
  <2> QED
    BY <2>1, InitTyped DEF AddressInv, TableOK, HandlersOK, RepliesOK
<1>2. AddressInv /\ TypeOK' /\ [Next]_vars => AddressInv'
  BY AddressInvInductive
<1> QED
  BY <1>1, <1>2, Typed, PTL DEF Spec

(* Two agents are told the same mesh address exactly when they are agents  *)
(* of one name, for any number of nodes, connections, restarts and failing *)
(* statements of SQL (handleRegister, UpsertNode).                         *)
THEOREM AddressIsIdentityThm == Spec => []AddressIsIdentity
<1>1. AddressInv => AddressIsIdentity
  BY DEF AddressInv, TableOK, RepliesOK, AddressIsIdentity
<1> QED
  BY <1>1, AddressInvariant, PTL
-----------------------------------------------------------------------------
(* Lists.  Everything an agent is shown was in the table at one moment.    *)

(* A snapshot is the table as it was at ListNodes, until it is dropped.    *)
LEMMA SnapSteps ==
  ASSUME TypeOK, [Next]_vars, NEW c \in Conns
  PROVE  snap'[c] \in {snap[c], {}, Rows}
<1> USE DEF TypeOK
<1>1. ASSUME NEW d \in Conns, List(d) \/ Reply(d) \/ Broadcast(d)
      PROVE  snap'[c] \in {snap[c], {}, Rows}
  BY <1>1 DEF List, Reply, Broadcast
<1>2. ASSUME NEW D \in SUBSET Conns, Quit(D)
      PROVE  snap'[c] \in {snap[c], {}, Rows}
  BY <1>2 DEF Quit
<1>3. CASE UNCHANGED snap
  BY <1>3
<1> HIDE DEF TypeOK
<1>4. SnapStep
  BY Framed DEF Frame
<1> QED
  BY <1>1, <1>2, <1>3, <1>4 DEF SnapStep

ListStep(c) ==
  \/ c \in Pushed /\ list'[c] = list[c]
  \/ /\ agent[c] # None
     /\ \E d \in Conns : list'[c] = PeersFor(agent[c].key, snap[d])

(* What a broadcast, or the part of it before a panic, does to a           *)
(* connection.                                                             *)
LEMMA PushingSteps ==
  ASSUME TypeOK, NEW c \in Pushed', NEW d \in Conns, NEW cs \in SUBSET Listening,
         list' = Pushing(d, cs) \/ list' = [Pushing(d, cs) EXCEPT ![d] = None]
  PROVE  ListStep(c)
<1>1. c \in Conns /\ list'[c] # None
  BY DEF Pushed
<1>2. list'[c] = Pushing(d, cs)[c]
  BY <1>1 DEF Pushing
<1>3. CASE c \in cs
  <2>1. agent[c] # None
    BY <1>1, <1>3 DEF Listening, TypeOK
  <2> QED
    BY <1>1, <1>2, <1>3, <2>1 DEF Pushing, ListStep
<1>4. CASE c \notin cs
  BY <1>1, <1>2, <1>4 DEF Pushing, ListStep, Pushed
<1> QED
  BY <1>3, <1>4

(* Every list ever sent was made from a snapshot.                          *)
LEMMA ListSteps ==
  ASSUME TypeOK, [Next]_vars, NEW c \in Pushed'
  PROVE  ListStep(c)
<1>1. ASSUME NEW d \in Conns, AgentGone(d)
      PROVE  ListStep(c)
  BY <1>1 DEF AgentGone, Pushed, ListStep, TypeOK
<1>2. ASSUME NEW d \in Conns, Reply(d)
      PROVE  ListStep(c)
  BY <1>2 DEF Reply, Pushed, ListStep, TypeOK
<1>3. ASSUME NEW d \in Conns, Broadcast(d)
      PROVE  ListStep(c)
  BY <1>3, PushingSteps DEF Broadcast
<1>4. ASSUME NEW e \in Conns, NEW d \in Conns, WriteCollision(e, d)
      PROVE  ListStep(c)
  <2>1. ASSUME NEW cs \in SUBSET (Listening \ {e, d}),
               list' = [Pushing(d, cs) EXCEPT ![d] = None]
        PROVE  ListStep(c)
    BY <2>1, PushingSteps
  <2>2. CASE list' = [list EXCEPT ![e] = None]
    BY <2>2 DEF Pushed, ListStep, TypeOK
  <2> QED
    BY <1>4, <2>1, <2>2 DEF WriteCollision
<1>5. CASE ServerRestart
  BY <1>5 DEF ServerRestart, Pushed
<1>6. CASE UNCHANGED list
  BY <1>6 DEF Pushed, ListStep
<1>7. PushStep
  BY Framed DEF Frame
<1> QED
  BY <1>1, <1>2, <1>3, <1>4, <1>5, <1>6, <1>7 DEF PushStep

Coherent(rows) ==
  \A p, q \in rows : p.ip = q.ip \/ p.key = q.key => p = q

(* Each row is of a name that is in the table, with a key of that name.    *)
Owned(rows) ==
  \A r \in rows : \E n \in Registered : r.ip = nodes[n].ip /\ r.key \in KeysOf[n]

(* Rows and registrations are of a name with a key of that name.           *)
KeysOK ==
  /\ \A n \in Registered : nodes[n].key \in KeysOf[n]
  /\ \A c \in Conns : agent[c] # None => agent[c].key \in KeysOf[agent[c].name]

(* Snapshots are coherent, and what they say is still so.                  *)
SnapsOK == \A c \in Conns : Coherent(snap[c]) /\ Owned(snap[c])

(* So are the lists.                                                       *)
ListsOK == \A c \in Pushed : Coherent(list[c]) /\ Owned(list[c])

(* So is what the replies showed.                                          *)
ShownOK == \A c \in Answered : Owned(reply[c].peers)

(* Why lists are usable although they are sent late, as an inductive       *)
(* invariant.                                                              *)
ListInv == AddressInv /\ KeysOK /\ SnapsOK /\ ListsOK /\ ShownOK

(* Leaving out the receiver (PeerListFor) keeps rows coherent and owned.   *)
LEMMA PeersOK ==
  ASSUME NEW k, NEW rows, Coherent(rows), Owned(rows)
  PROVE  /\ Coherent(PeersFor(k, rows))
         /\ Owned(PeersFor(k, rows))
BY DEF Coherent, Owned, PeersFor

(* The table itself is coherent and owned.                                 *)
LEMMA RowsOK ==
  ASSUME TableOK, KeysOK
  PROVE  Coherent(Rows) /\ Owned(Rows)
BY DEF TableOK, KeysOK, Coherent, Owned, Rows

(* What is owned stays owned, for addresses are for life.                  *)
LEMMA OwnedStays ==
  ASSUME TypeOK, [Next]_vars, NEW rows, Owned(rows)
  PROVE  \A r \in rows : \E n \in Registered' : r.ip = nodes'[n].ip /\ r.key \in KeysOf[n]
BY AddressStays DEF Owned

(* It is inductive: snapshots come from the table, lists and replies from  *)
(* snapshots.                                                              *)
LEMMA ListInvInductive ==
  ASSUME ListInv, AddressInv', [Next]_vars
  PROVE  ListInv'
<1> USE DEF ListInv, AddressInv
<1>1. KeysOK'
  <2>1. ASSUME NEW n \in Registered'
        PROVE  nodes'[n].key \in KeysOf[n]
    <3>1. CASE UNCHANGED nodes
      BY <2>1, <3>1 DEF KeysOK, Registered
    <3>2. ASSUME NEW c \in Conns, pc[c] = "upsert", WriteRow(c)
          PROVE  nodes'[n].key \in KeysOf[n]
      <4>1. agent[c] \in Agent /\ agent[c] # None
        BY <3>2, NewRowTyped, RecordAssumption
      <4> QED
        BY <2>1, <3>2, <4>1 DEF KeysOK, Registered, WriteRow, NewRow, TypeOK
    <3> QED
      BY <3>1, <3>2, TableSteps DEF TableStep
  <2>2. ASSUME NEW c \in Conns, agent'[c] # None
        PROVE  agent'[c].key \in KeysOf[agent'[c].name]
    <3>1. CASE Dials
      BY <2>2, <3>1 DEF Dials, Dial, KeysOK, TypeOK
    <3>2. CASE UNCHANGED agent
      BY <2>2, <3>2 DEF KeysOK
    <3> QED
      BY <3>1, <3>2, Framed DEF Frame
  <2> QED
    BY <2>1, <2>2 DEF KeysOK
<1>2. SnapsOK'
  <2> SUFFICES ASSUME NEW c \in Conns
               PROVE  Coherent(snap'[c]) /\ Owned(snap[c])'
    BY DEF SnapsOK, Coherent
  <2>1. Coherent(snap'[c]) /\ Owned(snap'[c])
    BY SnapSteps, RowsOK DEF SnapsOK, Coherent, Owned
  <2> QED
    BY <2>1, OwnedStays DEF Owned
<1>3. ListsOK'
  <2> SUFFICES ASSUME NEW c \in Pushed'
               PROVE  Coherent(list'[c]) /\ Owned(list[c])'
    BY DEF ListsOK, Coherent
  <2>1. Coherent(list'[c]) /\ Owned(list'[c])
    BY ListSteps, PeersOK DEF ListStep, ListsOK, SnapsOK
  <2> QED
    BY <2>1, OwnedStays DEF Owned
<1>4. ShownOK'
  <2> SUFFICES ASSUME NEW c \in Answered'
               PROVE  Owned(reply[c].peers)'
    BY DEF ShownOK
  <2>1. Owned(reply'[c].peers)
    <3>1. CASE c \in Answered /\ reply'[c] = reply[c]
      BY <3>1 DEF ShownOK
    <3>2. CASE reply'[c] = [ip |-> meshIP[c], peers |-> PeersFor(agent[c].key, snap[c])]
      BY <3>2, PeersOK DEF SnapsOK, Answered
    <3> QED
      BY <3>1, <3>2, ReplySteps
  <2> QED
    BY <2>1, OwnedStays DEF Owned
<1> QED
  BY <1>1, <1>2, <1>3, <1>4

(* It holds in every state.                                                *)
LEMMA ListInvariant == Spec => []ListInv
<1>1. Init => ListInv
  <2> SUFFICES ASSUME Init PROVE ListInv
    OBVIOUS
  <2>1. Registered = {} /\ Registering = {} /\ Answered = {} /\ Pushed = {}
    BY DEF Init, Registered, Registering, Answered, Pushed
  <2> QED
    BY <2>1, InitTyped
       DEF Init, ListInv, AddressInv, TableOK, HandlersOK, RepliesOK, KeysOK, SnapsOK,
           ListsOK, ShownOK, Coherent, Owned
<1>2. ListInv /\ AddressInv' /\ [Next]_vars => ListInv'
  BY ListInvInductive
<1> QED
  BY <1>1, <1>2, AddressInvariant, PTL DEF Spec

(* In no list an agent is sent do two peers share an address or a key,     *)
(* although a list may be older than the one sent before it                *)
(* (broadcastPeerLists, PeerListFor).                                      *)
THEOREM ListsUsableThm == Spec => []ListsUsable
<1>1. ListInv => ListsUsable
  BY DEF ListInv, ListsOK, ListsUsable, Coherent
<1> QED
  BY <1>1, ListInvariant, PTL
-----------------------------------------------------------------------------
(* Keys that two names share.                                              *)

(* Keys are generated at random, so two names have a key in common only    *)
(* when a node was renamed and kept its key file, and then it is the only  *)
(* key of both.                                                            *)
SharedKeysAlone ==
  \A m, n \in Names : m # n =>
     \A k \in KeysOf[m] \cap KeysOf[n] : KeysOf[m] = {k} /\ KeysOf[n] = {k}

(* The row of another name does not hold the key of an agent whose own row *)
(* is there: if it could, both rows would.                                 *)
LEMMA KeysApart ==
  ASSUME SharedKeysAlone, ListInv, NEW c \in Conns, agent[c] # None,
         agent[c].name \in Registered,
         NEW n \in Registered, n # agent[c].name
  PROVE  nodes[n].key # agent[c].key
<1> DEFINE m == agent[c].name
           k == agent[c].key
<1> SUFFICES ASSUME nodes[n].key = k PROVE FALSE
  OBVIOUS
<1>1. k \in KeysOf[m] /\ nodes[m].key \in KeysOf[m] /\ k \in KeysOf[n]
  BY DEF ListInv, KeysOK
<1>2. KeysOf[m] = {k}
  BY <1>1 DEF SharedKeysAlone, Registered
<1>3. nodes[m].key = nodes[n].key
  BY <1>1, <1>2
<1> QED
  BY <1>3 DEF ListInv, AddressInv, TableOK

(* No key is ever answered under two names (UpsertNode: public_key is      *)
(* UNIQUE, and rows are not deleted).                                      *)
THEOREM KeyIsIdentityThm ==
  ASSUME SharedKeysAlone
  PROVE  Spec => []KeyIsIdentity
<1>1. ListInv => KeyIsIdentity
  <2> SUFFICES ASSUME ListInv, NEW c \in Answered, NEW d \in Answered,
                      agent[c].key = agent[d].key, agent[c].name # agent[d].name
               PROVE  FALSE
    BY DEF KeyIsIdentity
  <2>1. ASSUME NEW e \in Answered
        PROVE  /\ e \in Conns /\ agent[e] # None /\ agent[e].name \in Registered
               /\ agent[e].key \in KeysOf[agent[e].name]
               /\ nodes[agent[e].name].key \in KeysOf[agent[e].name]
    BY DEF Answered, ListInv, AddressInv, RepliesOK, KeysOK
  <2>2. /\ KeysOf[agent[c].name] = {agent[c].key}
        /\ KeysOf[agent[d].name] = {agent[c].key}
    BY <2>1 DEF SharedKeysAlone, Registered
  <2>3. nodes[agent[d].name].key = agent[c].key
    BY <2>1, <2>2
  <2> QED
    BY <2>1, <2>3, KeysApart
<1> QED
  BY <1>1, ListInvariant, PTL
-----------------------------------------------------------------------------
(* MeshServer implements MeshRegistry.                                     *)

(* A connection is answered once, at the end of handleRegister.            *)
AnsweredOK ==
  \A c \in Answered : pc[c] \in {"bcast", "serve", "hblist", "closed"}

(* What the mapping needs of the state.                                    *)
RefInv == ListInv /\ AnsweredOK

(* A handler that has replied does not come back to handleRegister.        *)
LEMMA AnsweredSteps ==
  ASSUME TypeOK, [Next]_vars, NEW c \in Conns,
         pc[c] \in {"bcast", "serve", "hblist", "closed"}
  PROVE  pc'[c] \in {"bcast", "serve", "hblist", "closed"}
<1> USE DEF TypeOK
<1>1. CASE Dials
  BY <1>1 DEF Dials, Dial
<1>2. ASSUME NEW d \in Conns,
             ReadRegister(d) \/ Upsert(d) \/ UpsertFails(d) \/ Join(d) \/ Reply(d)
      PROVE  pc'[c] = pc[c]
  BY <1>2 DEF ReadRegister, Upsert, UpsertFails, Join, Reply
<1>3. ASSUME NEW d \in Conns,
             List(d) \/ Broadcast(d) \/ ReadHeartbeat(d) \/ ReadError(d)
      PROVE  pc'[c] \in {"bcast", "serve", "hblist", "closed"}
  BY <1>3 DEF List, Broadcast, ReadHeartbeat, ReadError
<1>4. ASSUME NEW D \in SUBSET Conns, Quit(D)
      PROVE  pc'[c] \in {"bcast", "serve", "hblist", "closed"}
  BY <1>4 DEF Quit
<1>5. CASE UNCHANGED pc
  BY <1>5
<1> HIDE DEF TypeOK
<1>6. ServerStep
  BY Framed DEF Frame
<1> QED
  BY <1>1, <1>2, <1>3, <1>4, <1>5, <1>6 DEF ServerStep, Serve

(* Only a handler at its reply answers.                                    *)
LEMMA AnsweredInductive ==
  ASSUME TypeOK, AnsweredOK, [Next]_vars
  PROVE  AnsweredOK'
<1>1. ASSUME NEW d \in Conns, Reply(d)
      PROVE  AnsweredOK'
  BY <1>1 DEF Reply, TypeOK, AnsweredOK, Answered
<1>2. CASE UNCHANGED reply
  BY <1>2, AnsweredSteps DEF AnsweredOK, Answered
<1> QED
  BY <1>1, <1>2, Framed DEF Frame

(* It holds in every state.                                                *)
LEMMA RefInvariant == Spec => []RefInv
<1>1. Init => AnsweredOK
  BY DEF Init, AnsweredOK, Answered
<1>2. ListInv /\ AnsweredOK /\ [Next]_vars => AnsweredOK'
  BY AnsweredInductive DEF ListInv, AddressInv
<1> QED
  BY <1>1, <1>2, ListInvariant, PTL DEF Spec, RefInv
-----------------------------------------------------------------------------
(* The mapping of one connection, step by step.                            *)

(* What an agent was or will be shown are addresses of the table.          *)
LEMMA ShownOwned ==
  ASSUME ListInv, NEW c \in Conns
  PROVE  Owned(Shown(c))
BY PeersOK DEF ListInv, SnapsOK, ShownOK, Shown, Answered, Owned

(* What was shown keeps its meaning: an old address keeps its owner, a new *)
(* one was not shown.                                                      *)
LEMMA NamesStay ==
  ASSUME ListInv, AddressInv', [Next]_vars, NEW rows, Owned(rows)
  PROVE  {n \in Registered' : nodes'[n].ip \in IPs(rows)} = NamesOf(rows)
<1>1. ASSUME NEW n \in Registered, nodes[n].ip \in IPs(rows)
      PROVE  n \in Registered' /\ nodes'[n].ip \in IPs(rows)
  BY <1>1, AddressStays DEF ListInv, AddressInv
<1>2. ASSUME NEW n \in Registered', nodes'[n].ip \in IPs(rows)
      PROVE  n \in Registered /\ nodes[n].ip \in IPs(rows)
  <2>1. PICK r \in rows : r.ip = nodes'[n].ip
    BY <1>2 DEF IPs
  <2>2. PICK m \in Registered : r.ip = nodes[m].ip
    BY <2>1 DEF Owned
  <2>3. m \in Registered' /\ nodes'[m].ip = nodes'[n].ip
    BY <2>1, <2>2, AddressStays DEF ListInv, AddressInv
  <2>4. m = n
    BY <2>3 DEF AddressInv, TableOK
  <2> QED
    BY <2>1, <2>2, <2>4 DEF IPs
<1> QED
  BY <1>1, <1>2 DEF NamesOf

(* A connection whose stage and reply do not change keeps its image.       *)
LEMMA KnownStays ==
  ASSUME ListInv, AddressInv', [Next]_vars, NEW c \in Conns,
         Shown(c)' = Shown(c), WhoBar'[c] = WhoBar[c]
  PROVE  KnownBar'[c] = KnownBar[c]
BY ShownOwned, NamesStay DEF KnownBar, NamesOf

(* The stages in which the registry sees a session that is not answered.   *)
Between == {"join", "list", "reply"}

(* The steps the registry does not see.                                    *)
Quiet(c) ==
  /\ reply'[c] = reply[c]
  /\ \/ pc'[c] = pc[c] /\ snap'[c] = snap[c]
     \/ pc[c] \notin Between /\ pc'[c] \notin Between
     \/ pc[c] = "join" /\ pc'[c] = "list"

Same(c) ==
  /\ StageBar'[c] = StageBar[c]
  /\ WhoBar'[c] = WhoBar[c]
  /\ KnownBar'[c] = KnownBar[c]

(* Steps that the registry does not see leave a connection's image.        *)
LEMMA QuietStays ==
  ASSUME RefInv, AddressInv', [Next]_vars, NEW c \in Conns, Quiet(c)
  PROVE  Same(c)
<1> USE DEF RefInv, ListInv, AddressInv
<1>1. StageBar'[c] = StageBar[c]
  BY DEF StageBar, Quiet, Between
<1>2. ASSUME StageBar[c] # "none"
      PROVE  agent[c] # None /\ agent'[c] = agent[c]
  <2>1. agent[c] # None
    BY <1>2 DEF StageBar, RepliesOK, Answered, TypeOK
  <2> QED
    BY <2>1, AgentStays
<1>3. WhoBar'[c] = WhoBar[c]
  BY <1>1, <1>2 DEF WhoBar
<1>4. Shown(c)' = Shown(c)
  BY <1>2 DEF Shown, Quiet, StageBar, Between
<1> QED
  BY <1>1, <1>3, <1>4, KnownStays DEF Same

(* The image of all connections is that of each of them.                   *)
LEMMA AllSame ==
  ASSUME \A c \in Conns : Same(c)
  PROVE  StageBar' = StageBar /\ WhoBar' = WhoBar /\ KnownBar' = KnownBar
BY DEF Same, StageBar, WhoBar, KnownBar

(* A step of one handler changes the image of its connection only.         *)
LEMMA OneChanges ==
  ASSUME NEW c \in Conns, \A d \in Conns : d # c => Same(d)
  PROVE  /\ \A x : StageBar'[c] = x => StageBar' = [StageBar EXCEPT ![c] = x]
         /\ WhoBar'[c] = WhoBar[c] => WhoBar' = WhoBar
         /\ KnownBar'[c] = KnownBar[c] => KnownBar' = KnownBar
         /\ \A x : KnownBar'[c] = x => KnownBar' = [KnownBar EXCEPT ![c] = x]
<1>1. /\ StageBar = [d \in Conns |-> StageBar[d]]
      /\ StageBar' = [d \in Conns |-> StageBar'[d]]
  BY DEF StageBar
<1>2. /\ WhoBar = [d \in Conns |-> WhoBar[d]]
      /\ WhoBar' = [d \in Conns |-> WhoBar'[d]]
  BY DEF WhoBar
<1>3. /\ KnownBar = [d \in Conns |-> KnownBar[d]]
      /\ KnownBar' = [d \in Conns |-> KnownBar'[d]]
  BY DEF KnownBar
<1>4. \A x : StageBar'[c] = x => StageBar' = [StageBar EXCEPT ![c] = x]
  BY <1>1 DEF Same
<1>5. WhoBar'[c] = WhoBar[c] => WhoBar' = WhoBar
  BY <1>2 DEF Same
<1>6. /\ KnownBar'[c] = KnownBar[c] => KnownBar' = KnownBar
      /\ \A x : KnownBar'[c] = x => KnownBar' = [KnownBar EXCEPT ![c] = x]
  BY <1>3 DEF Same
<1> QED
  BY <1>4, <1>5, <1>6

(* Writing a row enrolls its name.                                         *)
LEMMA WriteEnrolls ==
  ASSUME TypeOK, NEW c \in Conns, pc[c] = "upsert", UniqueOK(c), WriteRow(c)
  PROVE  agent[c].name \in Names /\ Registry!Enroll(agent[c].name)
<1> DEFINE n == agent[c].name
<1>1. n \in Names /\ NewRow(c) # None /\ NewRow(c).ip \in Int
  BY NewRowTyped, RecordAssumption, HostsAssumption DEF Row, Agent, Addresses
<1>2. nodes' = [nodes EXCEPT ![n] = NewRow(c)]
  BY DEF WriteRow
<1>3. AddrBar' = [AddrBar EXCEPT ![n] = NewRow(c).ip]
  BY <1>1, <1>2 DEF AddrBar, TypeOK
<1>4. CASE nodes[n] = None
  <2>1. AddrBar[n] = None
    BY <1>1, <1>4 DEF AddrBar
  <2>2. ASSUME NEW m \in Names
        PROVE  AddrBar[m] # NewRow(c).ip
    <3>1. NewRow(c).ip # None
      BY <1>1, HostsAssumption
    <3> QED
      BY <1>1, <1>4, <3>1 DEF AddrBar, UniqueOK, Registered
  <2>3. NewRow(c).ip \in Addresses
    BY NewRowTyped DEF Row
  <2> QED
    BY <1>1, <1>3, <2>1, <2>2, <2>3 DEF Registry!Enroll
<1>5. CASE nodes[n] # None
  <2>1. NewRow(c).ip = AddrBar[n] /\ AddrBar[n] # None
    BY <1>1, <1>5, HostsAssumption DEF NewRow, AddrBar
  <2>2. AddrBar' = AddrBar
    BY <1>1, <1>3, <2>1 DEF AddrBar
  <2> QED
    BY <1>1, <2>1, <2>2 DEF Registry!Enroll
<1> QED
  BY <1>4, <1>5

(* UpsertNode admits the session.                                          *)
LEMMA UpsertAdmits ==
  ASSUME RefInv, AddressInv', [Next]_vars, NEW c \in Conns, Upsert(c)
  PROVE  \E n \in Names : Registry!Admit(c, n)
<1> DEFINE n == agent[c].name
<1> USE DEF RefInv, ListInv, AddressInv
<1>1. n \in Names /\ Registry!Enroll(n)
  BY WriteEnrolls DEF Upsert
<1>2. pc[c] = "upsert" /\ reply[c] = None /\ agent' = agent /\ reply' = reply
  BY DEF Upsert, AnsweredOK, Answered
<1>3. pc' = [pc EXCEPT ![c] = "join"] /\ snap' = snap
  BY DEF Upsert
<1>4. ASSUME NEW d \in Conns, d # c
      PROVE  Same(d)
  BY <1>2, <1>3, <1>4, QuietStays DEF Quiet, TypeOK
<1>5. StageBar[c] = "none" /\ StageBar'[c] = "admitted" /\ WhoBar[c] = None /\ WhoBar'[c] = n
  BY <1>2, <1>3 DEF StageBar, WhoBar, TypeOK
<1>6. KnownBar[c] = {} /\ KnownBar'[c] = {}
  BY <1>2, <1>3 DEF KnownBar, Shown, NamesOf, IPs, TypeOK
<1>7. /\ StageBar' = [StageBar EXCEPT ![c] = "admitted"]
      /\ WhoBar' = [WhoBar EXCEPT ![c] = n]
      /\ KnownBar' = KnownBar
  BY <1>4, <1>5, <1>6 DEF Same, StageBar, WhoBar, KnownBar
<1> QED
  BY <1>1, <1>5, <1>7 DEF Registry!Admit

(* A failed UpsertNode that was committed enrolls the name; any other      *)
(* changes nothing.                                                        *)
LEMMA UpsertFailsEnrolls ==
  ASSUME RefInv, AddressInv', [Next]_vars, NEW c \in Conns, UpsertFails(c)
  PROVE  (\E n \in Names : Registry!EnrollOnly(n)) \/ UNCHANGED Registry!rvars
<1> USE DEF RefInv, ListInv, AddressInv
<1>1. \A d \in Conns : Same(d)
  BY QuietStays DEF UpsertFails, Quiet, Between, TypeOK
<1>2. CASE UNCHANGED <<nodes, fresh>>
  BY <1>1, <1>2, AllSame DEF Registry!rvars, AddrBar
<1>3. CASE UniqueOK(c) /\ WriteRow(c)
  <2>1. agent[c].name \in Names /\ Registry!Enroll(agent[c].name)
    BY <1>3, WriteEnrolls DEF UpsertFails
  <2> QED
    BY <1>1, <2>1, AllSame DEF Registry!EnrollOnly
<1> QED
  BY <1>2, <1>3 DEF UpsertFails

(* Handlers that end early: the sessions among them are dropped.           *)
LEMMA EndDrops ==
  ASSUME RefInv, AddressInv', [Next]_vars, NEW D \in SUBSET Conns,
         UNCHANGED <<nodes, reply>>,
         \A c \in Conns \ D : Quiet(c),
         \A c \in D : pc[c] \in Between /\ pc'[c] \notin Between
  PROVE  Registry!Drop(D)
<1> USE DEF RefInv, ListInv, AddressInv
<1>1. ASSUME NEW c \in Conns \ D
      PROVE  Same(c)
  BY QuietStays
<1>2. ASSUME NEW c \in D
      PROVE  /\ StageBar[c] \in {"admitted", "looked"}
             /\ StageBar'[c] = "none" /\ WhoBar'[c] = None /\ KnownBar'[c] = {}
  <2>1. c \in Conns /\ reply[c] = None /\ reply'[c] = None
    BY DEF AnsweredOK, Answered, Between
  <2>2. StageBar[c] \in {"admitted", "looked"} /\ StageBar'[c] = "none"
    BY <2>1 DEF StageBar, Between
  <2>3. WhoBar'[c] = None
    BY <2>1, <2>2 DEF WhoBar
  <2>4. Shown(c)' = {}
    BY <2>1 DEF Shown, Between
  <2> QED
    BY <2>1, <2>2, <2>3, <2>4 DEF KnownBar, NamesOf, IPs
<1>3. AddrBar' = AddrBar
  BY DEF AddrBar
<1>4. StageBar' = [c \in Conns |-> IF c \in D THEN "none" ELSE StageBar[c]]
  BY <1>1, <1>2 DEF Same, StageBar
<1>5. WhoBar' = [c \in Conns |-> IF c \in D THEN None ELSE WhoBar[c]]
  BY <1>1, <1>2 DEF Same, WhoBar
<1>6. KnownBar' = [c \in Conns |-> IF c \in D THEN {} ELSE KnownBar[c]]
  BY <1>1, <1>2 DEF Same, KnownBar
<1> QED
  BY <1>2, <1>3, <1>4, <1>5, <1>6 DEF Registry!Drop

(* ListNodes of handleRegister is the look of the session; when it fails   *)
(* the session is dropped.                                                 *)
LEMMA ListLooks ==
  ASSUME SharedKeysAlone, RefInv, AddressInv', [Next]_vars, NEW c \in Conns, List(c)
  PROVE  Registry!RNext \/ UNCHANGED Registry!rvars
<1> USE DEF RefInv, ListInv, AddressInv
<1>1. ASSUME NEW d \in Conns, d # c
      PROVE  Quiet(d)
  BY <1>1 DEF Quiet, List, TypeOK
<1>2. UNCHANGED <<nodes, agent, reply>> /\ AddrBar' = AddrBar
  BY DEF List, AddrBar
<1>3. CASE pc[c] = "list" /\ pc'[c] = "reply"
  <2> DEFINE n == agent[c].name
  <2>1. snap'[c] = Rows /\ reply[c] = None /\ n \in Registered
    BY <1>3 DEF List, AnsweredOK, Answered, HandlersOK, Registering, TypeOK
  <2>2. StageBar[c] = "admitted" /\ StageBar'[c] = "looked" /\ WhoBar[c] = n /\ WhoBar'[c] = n
    BY <1>2, <1>3, <2>1 DEF StageBar, WhoBar
  <2>3. Shown(c)' = PeersFor(agent[c].key, Rows)
    BY <1>2, <1>3, <2>1 DEF Shown
  <2>4. KnownBar'[c] = {m \in Registered : nodes[m].ip \in IPs(PeersFor(agent[c].key, Rows))} \ {n}
    BY <1>2, <2>2, <2>3 DEF KnownBar, NamesOf, Registered
  <2>5. ASSUME NEW m \in Registered, m # n
        PROVE  nodes[m].ip \in IPs(PeersFor(agent[c].key, Rows))
    <3>1. nodes[m].key # agent[c].key
      BY <1>3, <2>1, <2>5, KeysApart DEF TypeOK
    <3> QED
      BY <3>1 DEF IPs, PeersFor, Rows
  <2>6. Registry!Enrolled = Registered
    BY HostsAssumption DEF Registry!Enrolled, Registered, AddrBar, TypeOK, Row, Addresses
  <2>7. KnownBar'[c] = Registry!Enrolled \ {WhoBar[c]}
    BY <2>2, <2>4, <2>5, <2>6
  <2>8. \A d \in Conns : d # c => Same(d)
    BY <1>1, QuietStays
  <2>9. /\ StageBar' = [StageBar EXCEPT ![c] = "looked"]
        /\ WhoBar' = WhoBar
        /\ KnownBar' = [KnownBar EXCEPT ![c] = Registry!Enrolled \ {WhoBar[c]}]
    BY <2>2, <2>7, <2>8, OneChanges
  <2> QED
    BY <1>2, <2>2, <2>9 DEF Registry!Look, Registry!RNext
<1>4. CASE pc[c] = "list" /\ pc'[c] = "serve"
  <2>1. Registry!Drop({c})
    BY <1>1, <1>2, <1>4, EndDrops DEF Between
  <2> QED
    BY <2>1 DEF Registry!RNext
<1>5. CASE pc[c] = "hblist"
  <2>1. Quiet(c)
    BY <1>2, <1>5 DEF Quiet, Between, List, TypeOK
  <2> QED
    BY <1>1, <1>2, <2>1, QuietStays, AllSame DEF Registry!rvars
<1> QED
  BY <1>3, <1>4, <1>5 DEF List, TypeOK

(* The registered message is the answer, unless the agent has gone.        *)
LEMMA ReplyAnswers ==
  ASSUME RefInv, AddressInv', [Next]_vars, NEW c \in Conns, Reply(c)
  PROVE  Registry!RNext \/ UNCHANGED Registry!rvars
<1> USE DEF RefInv, ListInv, AddressInv
<1>1. ASSUME NEW d \in Conns, d # c
      PROVE  Quiet(d)
  BY <1>1 DEF Quiet, Reply, TypeOK
<1>2. UNCHANGED <<nodes, agent>> /\ AddrBar' = AddrBar /\ pc[c] = "reply" /\ reply[c] = None
  BY DEF Reply, AddrBar, AnsweredOK, Answered
<1>3. pc'[c] \in {"bcast", "serve"}
  BY DEF Reply, TypeOK
<1>4. CASE c \in alive
  <2>1. /\ reply'[c] = [ip |-> meshIP[c], peers |-> PeersFor(agent[c].key, snap[c])]
        /\ reply'[c] # None
    <3>1. meshIP[c] \in Addresses
      BY <1>2 DEF TypeOK
    <3>2. PeersFor(agent[c].key, snap[c]) \in SUBSET Row
      BY DEF PeersFor, TypeOK
    <3>3. reply'[c] = [ip |-> meshIP[c], peers |-> PeersFor(agent[c].key, snap[c])]
      BY <1>4 DEF Reply, TypeOK
    <3> QED
      BY <3>1, <3>2, <3>3, RecordAssumption DEF Answer
  <2>2. StageBar[c] = "looked" /\ StageBar'[c] = "answered"
    BY <1>2, <2>1 DEF StageBar
  <2>3. WhoBar'[c] = WhoBar[c] /\ Shown(c)' = Shown(c)
    BY <1>2, <2>1, <2>2 DEF WhoBar, Shown
  <2>4. KnownBar'[c] = KnownBar[c]
    BY <2>3, KnownStays
  <2>5. \A d \in Conns : d # c => Same(d)
    BY <1>1, QuietStays
  <2>6. /\ StageBar' = [StageBar EXCEPT ![c] = "answered"]
        /\ WhoBar' = WhoBar
        /\ KnownBar' = KnownBar
    BY <2>2, <2>3, <2>4, <2>5, OneChanges
  <2> QED
    BY <1>2, <2>2, <2>6 DEF Registry!Answer, Registry!RNext
<1>5. CASE c \notin alive
  <2>1. reply' = reply
    BY <1>5 DEF Reply
  <2>2. Registry!Drop({c})
    BY <1>1, <1>2, <1>3, <2>1, EndDrops DEF Between
  <2> QED
    BY <2>2 DEF Registry!RNext
<1> QED
  BY <1>4, <1>5

(* A panic or a restart drops the sessions of the handlers it ends.        *)
LEMMA QuitDrops ==
  ASSUME RefInv, AddressInv', [Next]_vars, NEW D \in SUBSET Conns, Quit(D),
         UNCHANGED <<nodes, reply>>
  PROVE  Registry!RNext \/ UNCHANGED Registry!rvars
<1> DEFINE S == {c \in D : pc[c] \in Between}
<1>1. \A c \in Conns \ S : Quiet(c)
  BY DEF Quiet, Quit, Between
<1>2. \A c \in S : pc[c] \in Between /\ pc'[c] \notin Between
  BY DEF Quit, Between
<1>3. Registry!Drop(S)
  BY <1>1, <1>2, EndDrops
<1> QED
  BY <1>3 DEF Registry!RNext

(* If no connection's image changes and no row, nothing does.              *)
LEMMA QuietRefines ==
  ASSUME RefInv, AddressInv', [Next]_vars, UNCHANGED nodes, \A c \in Conns : Quiet(c)
  PROVE  UNCHANGED Registry!rvars
BY QuietStays, AllSame DEF Registry!rvars, AddrBar

(* Every step is one of the registry or a stutter.                         *)
LEMMA StepRefines ==
  ASSUME SharedKeysAlone, RefInv, AddressInv', [Next]_vars
  PROVE  Registry!RNext \/ UNCHANGED Registry!rvars
<1> USE DEF RefInv, ListInv, AddressInv
<1>1. ASSUME Dials
      PROVE  UNCHANGED nodes /\ \A d \in Conns : Quiet(d)
  BY <1>1 DEF Dials, Dial, Quiet, Between, TypeOK
<1>2. ASSUME NEW c \in Conns, ReadRegister(c) \/ Join(c) \/ Broadcast(c)
      PROVE  UNCHANGED nodes /\ \A d \in Conns : Quiet(d)
  BY <1>2 DEF ReadRegister, Join, Broadcast, Quiet, Between, TypeOK
<1>3. ASSUME NEW c \in Conns, ReadHeartbeat(c) \/ ReadError(c)
      PROVE  UNCHANGED nodes /\ \A d \in Conns : Quiet(d)
  BY <1>3 DEF ReadHeartbeat, ReadError, Quiet, Between, TypeOK
<1>4. ASSUME UNCHANGED <<nodes, pc, meshIP, snap, reply>>
      PROVE  UNCHANGED nodes /\ \A d \in Conns : Quiet(d)
  BY <1>4 DEF Quiet
<1>5. ASSUME NEW c \in Conns, Upsert(c) \/ UpsertFails(c)
      PROVE  Registry!RNext \/ UNCHANGED Registry!rvars
  BY <1>5, UpsertAdmits, UpsertFailsEnrolls DEF Registry!RNext
<1>6. ASSUME NEW c \in Conns, List(c) \/ Reply(c)
      PROVE  Registry!RNext \/ UNCHANGED Registry!rvars
  BY <1>6, ListLooks, ReplyAnswers
<1>7. ASSUME UNCHANGED <<nodes, reply>>, NEW D \in SUBSET Conns, Quit(D)
      PROVE  Registry!RNext \/ UNCHANGED Registry!rvars
  BY <1>7, QuitDrops
<1>8. (UNCHANGED nodes /\ \A c \in Conns : Quiet(c))
        => UNCHANGED Registry!rvars
  BY QuietRefines
<1> HIDE DEF RefInv, ListInv, AddressInv
<1>9. ServerStep
  BY Framed DEF Frame
<1> QED
  BY <1>1, <1>2, <1>3, <1>4, <1>5, <1>6, <1>7, <1>8, <1>9 DEF ServerStep, Serve

(* The server keeps the promises of MeshRegistry, also to a node that was  *)
(* renamed: addresses are for life, and an answer shows everybody enrolled *)
(* at one moment after the agent itself was (handleRegister).              *)
THEOREM ImplementsRegistryThm ==
  ASSUME SharedKeysAlone
  PROVE  Spec => ImplementsRegistry
<1>1. Init => Registry!RInit
  <2> SUFFICES ASSUME Init PROVE Registry!RInit
    OBVIOUS
  <2>1. StageBar = [c \in Conns |-> "none"]
    BY DEF Init, StageBar
  <2>2. WhoBar = [c \in Conns |-> None]
    BY <2>1 DEF WhoBar
  <2>3. KnownBar = [c \in Conns |-> {}]
    BY DEF Init, KnownBar, Shown, NamesOf, Registered
  <2> QED
    BY <2>1, <2>2, <2>3 DEF Init, AddrBar, Registry!RInit
<1>2. RefInv /\ AddressInv' /\ [Next]_vars => [Registry!RNext]_(Registry!rvars)
  BY StepRefines
<1> QED
  BY <1>1, <1>2, RefInvariant, AddressInvariant, PTL
     DEF Spec, ImplementsRegistry, Registry!RSpec
-----------------------------------------------------------------------------
(* Mutual discovery.                                                       *)

(* The connections whose handler has listed the table.                     *)
Looked == {c \in Conns : c \in Answered \/ pc[c] = "reply"}

(* What a connection is shown is settled when its handler lists the table. *)
LEMMA LookedSteps ==
  ASSUME RefInv, [Next]_vars, NEW c \in Looked'
  PROVE  \/ c \in Looked /\ Shown(c)' = Shown(c)
         \/ /\ pc[c] = "list" /\ reply[c] = None
            /\ Shown(c)' = PeersFor(agent[c].key, Rows)
<1> DEFINE Old == c \in Looked /\ Shown(c)' = Shown(c)
<1> USE DEF RefInv, ListInv, AddressInv
<1>1. c \in Conns
  BY DEF Looked
<1>2. ASSUME Quiet(c)
      PROVE  Old
  <2>1. c \in Looked /\ pc[c] # "idle"
    BY <1>2 DEF Looked, Quiet, Between, Answered, AnsweredOK
  <2>2. agent'[c] = agent[c]
    BY <2>1, <1>1, AgentStays DEF TypeOK
  <2> QED
    BY <1>2, <2>1, <2>2 DEF Shown, Quiet, Between, Looked, Answered, AnsweredOK
<1>3. ASSUME Dials
      PROVE  Quiet(c)
  BY <1>1, <1>3 DEF Dials, Dial, Quiet, Between, TypeOK
<1>4. ASSUME NEW d \in Conns, ReadRegister(d) \/ UpsertFails(d) \/ Join(d)
      PROVE  Quiet(c)
  BY <1>1, <1>4 DEF ReadRegister, UpsertFails, Join, Quiet, Between, TypeOK
<1>5. ASSUME NEW d \in Conns, Broadcast(d) \/ ReadHeartbeat(d) \/ ReadError(d)
      PROVE  Quiet(c)
  BY <1>1, <1>5 DEF Broadcast, ReadHeartbeat, ReadError, Quiet, Between, TypeOK
<1>6. ASSUME NEW d \in Conns, Upsert(d)
      PROVE  Quiet(c)
  BY <1>1, <1>6 DEF Upsert, Quiet, Between, TypeOK, Looked, AnsweredOK, Answered
<1>7. ASSUME NEW d \in Conns, List(d), ~Quiet(c)
      PROVE  /\ pc[c] = "list" /\ reply[c] = None
             /\ Shown(c)' = PeersFor(agent[c].key, Rows)
  <2>1. d = c /\ UNCHANGED <<agent, reply>>
    BY <1>1, <1>7 DEF List, Quiet, TypeOK
  <2>2. pc[c] = "list"
    BY <1>1, <1>7, <2>1 DEF List, Quiet, Between, TypeOK
  <2>3. reply[c] = None
    BY <1>1, <2>2 DEF AnsweredOK, Answered
  <2>4. pc'[c] = "reply" /\ snap'[c] = Rows
    BY <1>1, <1>7, <2>1, <2>2, <2>3 DEF List, Looked, Answered, TypeOK
  <2> QED
    BY <2>1, <2>2, <2>3, <2>4 DEF Shown
<1>8. ASSUME NEW d \in Conns, Reply(d), ~Quiet(c)
      PROVE  Old
  <2>1. d = c /\ pc[c] = "reply" /\ reply[c] = None
    BY <1>1, <1>8 DEF Reply, Quiet, TypeOK, AnsweredOK, Answered
  <2>2. pc'[c] # "reply" /\ reply'[c] # None
    BY <1>1, <1>8, <2>1 DEF Reply, Looked, Answered, TypeOK
  <2>3. reply'[c].peers = PeersFor(agent[c].key, snap[c])
    BY <1>1, <1>8, <2>1, <2>2 DEF Reply, TypeOK
  <2> QED
    BY <1>1, <2>1, <2>2, <2>3 DEF Shown, Looked
<1>9. ASSUME NEW D \in SUBSET Conns, Quit(D), reply' = reply
      PROVE  Quiet(c)
  <2>1. CASE c \in D
    BY <1>1, <1>9, <2>1 DEF Quit, Quiet, Between, Looked, Answered, AnsweredOK
  <2>2. CASE c \notin D
    BY <1>1, <1>9, <2>2 DEF Quit, Quiet
  <2> QED
    BY <2>1, <2>2
<1>10. ASSUME UNCHANGED <<nodes, pc, meshIP, snap, reply>>
       PROVE  Quiet(c)
  BY <1>10 DEF Quiet
<1> HIDE DEF Old, RefInv, ListInv, AddressInv
<1>11. ServerStep
  BY Framed DEF Frame
<1>12. \/ Old
       \/ /\ pc[c] = "list" /\ reply[c] = None
          /\ Shown(c)' = PeersFor(agent[c].key, Rows)
  BY <1>2, <1>3, <1>4, <1>5, <1>6, <1>7, <1>8, <1>9, <1>10, <1>11
     DEF ServerStep, Serve
<1> QED
  BY <1>12 DEF Old

(* c has the address of d's name in what it was, or will be, answered.     *)
Knows(c, d) == nodes[agent[d].name].ip \in IPs(Shown(c))

(* Mutual discovery, of everyone who has listed the table.                 *)
DiscoveryInv ==
  \A c, d \in Looked : agent[c].name # agent[d].name => Knows(c, d) \/ Knows(d, c)

(* Who has listed the table has a row in it (UpsertNode came first).       *)
LEMMA LookedRegistered ==
  ASSUME AddressInv, NEW c \in Looked
  PROVE  c \in Conns /\ agent[c] # None /\ agent[c].name \in Registered
BY DEF AddressInv, Looked, HandlersOK, RepliesOK, Registering, Answered, TypeOK

(* The later of two connections to list the table finds the other's row.   *)
LEMMA ListKnows ==
  ASSUME SharedKeysAlone, RefInv, NEW c \in Conns, pc[c] = "list",
         NEW n \in Registered, n # agent[c].name
  PROVE  nodes[n].ip \in IPs(PeersFor(agent[c].key, Rows))
<1>1. agent[c] # None /\ agent[c].name \in Registered
  BY DEF RefInv, ListInv, AddressInv, HandlersOK, Registering, TypeOK
<1>2. nodes[n].key # agent[c].key
  BY <1>1, KeysApart DEF RefInv
<1> QED
  BY <1>2 DEF IPs, PeersFor, Rows

(* It is inductive: the later to list the table finds the earlier's row.   *)
LEMMA DiscoveryInductive ==
  ASSUME SharedKeysAlone, RefInv, AddressInv', DiscoveryInv, [Next]_vars
  PROVE  DiscoveryInv'
<1> SUFFICES ASSUME NEW c \in Looked', NEW d \in Looked',
                    agent'[c].name # agent'[d].name
             PROVE  Knows(c, d)' \/ Knows(d, c)'
  BY DEF DiscoveryInv
<1>1. ASSUME NEW e \in Looked'
      PROVE  /\ e \in Conns /\ agent[e] # None /\ agent'[e] = agent[e]
             /\ agent[e].name \in Registered
             /\ nodes'[agent[e].name].ip = nodes[agent[e].name].ip
  <2>1. e \in Conns /\ agent[e] # None /\ agent[e].name \in Registered
    <3>1. CASE e \in Looked
      BY <3>1, LookedRegistered DEF RefInv, ListInv
    <3>2. CASE pc[e] = "list" /\ e \in Conns
      BY <3>2 DEF RefInv, ListInv, AddressInv, HandlersOK, Registering, TypeOK
    <3> QED
      BY <3>1, <3>2, LookedSteps DEF Looked
  <2>2. agent'[e] = agent[e]
    BY <2>1, AgentStays DEF RefInv, ListInv, AddressInv
  <2> QED
    BY <2>1, <2>2, AddressStays DEF RefInv, ListInv, AddressInv
<1>2. ASSUME NEW e \in Looked', NEW f \in Looked', agent[e].name # agent[f].name,
             pc[e] = "list", Shown(e)' = PeersFor(agent[e].key, Rows)
      PROVE  Knows(e, f)'
  BY <1>1, <1>2, ListKnows DEF Knows, IPs
<1>3. CASE c \in Looked /\ Shown(c)' = Shown(c) /\ d \in Looked /\ Shown(d)' = Shown(d)
  BY <1>1, <1>3 DEF DiscoveryInv, Knows, IPs
<1> QED
  BY <1>1, <1>2, <1>3, LookedSteps

(* Of any two agents of different names that were answered, one was told   *)
(* of the other at once, however their handlers interleaved                *)
(* (handleRegister writes the row, then lists the table, then answers).    *)
THEOREM MutualDiscoveryThm ==
  ASSUME SharedKeysAlone
  PROVE  Spec => []MutualDiscovery
<1>1. Init => DiscoveryInv
  BY DEF Init, DiscoveryInv, Looked, Answered
<1>2. RefInv /\ AddressInv' /\ DiscoveryInv /\ [Next]_vars => DiscoveryInv'
  BY DiscoveryInductive
<1>3. RefInv /\ DiscoveryInv => MutualDiscovery
  <2> SUFFICES ASSUME RefInv, DiscoveryInv, NEW c \in Answered, NEW d \in Answered,
                      agent[c].name # agent[d].name
               PROVE  \/ reply[d].ip \in IPs(reply[c].peers)
                      \/ reply[c].ip \in IPs(reply[d].peers)
    BY DEF MutualDiscovery
  <2>1. ASSUME NEW e \in Answered
        PROVE  e \in Looked /\ Shown(e) = reply[e].peers
               /\ reply[e].ip = nodes[agent[e].name].ip
    BY DEF Looked, Shown, Answered, RefInv, ListInv, AddressInv, RepliesOK
  <2> QED
    BY <2>1 DEF DiscoveryInv, Knows
<1> QED
  BY <1>1, <1>2, <1>3, RefInvariant, AddressInvariant, PTL DEF Spec
=============================================================================
