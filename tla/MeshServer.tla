----------------------------- MODULE MeshServer -----------------------------
(***************************************************************************)
(* The control plane's WebSocket endpoint (wsserver.go) with the node      *)
(* table it keeps (db.go, migrations/0001) and the mesh arithmetic it uses *)
(* (mesh.go).  One goroutine serves each connection: it reads a register   *)
(* or a heartbeat message, runs the handler to its end, and reads the next *)
(* message.  Goroutines interleave at every statement of SQL, at every     *)
(* critical section of Server.mu and at every write to a socket; between   *)
(* two of those points a handler only computes on its own variables.       *)
(*                                                                         *)
(* The agents appear as what the server can see of them: they dial, send   *)
(* one register message, send heartbeats and go away.                      *)
(***************************************************************************)
EXTENDS Integers, FiniteSets

CONSTANTS
  Names,      \* node names, chosen by the operators (the key of the nodes table)
  Keys,       \* WireGuard public keys
  KeysOf,     \* the keys the agent of each name has had over time
  Attrs,      \* the rest of a registration: endpoint and advertised subnets
  Hosts,      \* how many addresses of the mesh CIDR AllocateIP can hand out
  Conns,      \* connections, each accepted once: the bound on dials
  None,       \* "no row", "no connection", "nothing yet"
  DbFaults,   \* whether a statement of SQL may fail
  MaxBeats,   \* bound: unread heartbeats, over all connections
  Aging       \* bound: the names whose last_seen may grow old

ASSUME NamesAssumption == None \notin Names /\ IsFiniteSet(Names)
ASSUME KeysAssumption  == KeysOf \in [Names -> SUBSET Keys] /\ None \notin Keys
ASSUME HostsAssumption == Hosts \in Nat /\ None \notin Int
ASSUME ConnsAssumption == None \notin Conns
ASSUME FaultAssumption == DbFaults \in BOOLEAN
ASSUME BoundAssumption == MaxBeats \in Nat /\ Aging \subseteq Names

Addresses == 1..Hosts

(* A row of the nodes table without its name, and also the PeerInfo an     *)
(* agent is sent for it.                                                   *)
Row   == [key : Keys, ip : Addresses, attr : Attrs]
Agent == [name : Names, key : Keys, attr : Attrs]
Answer == [ip : Addresses, peers : SUBSET Row]
ASSUME RecordAssumption ==
  /\ None \notin Row \cup Agent \cup Answer
  /\ \A rows \in SUBSET Row : rows # None

VARIABLES
  nodes,    \* the nodes table: a row or None for each name
  fresh,    \* names whose last_seen is recent (within primaryFreshness)
  conns,    \* Server.conns: public key -> the connection pushed to
  agent,    \* what each connection's register message says
  alive,    \* connections that are up
  hb,       \* connections with an unread heartbeat (at most one each: bound)
  pc,       \* where the goroutine of each connection is
  meshIP,   \* handleRegister's candidateIP, then its meshIP
  snap,     \* the rows a handler's ListNodes returned
  reply,    \* the registered message written to each connection
  list      \* the peers last written to each connection while it is up

vars == <<nodes, fresh, conns, agent, alive, hb, pc, meshIP, snap, reply, list>>

(* idle: not dialled; opened: nothing read yet; upsert, join, list, reply: *)
(* the steps of handleRegister; hblist: of handleHeartbeat; bcast: of      *)
(* either; serve: blocked in ReadJSON; closed: HandleWS has returned.      *)
Stages == {"idle", "opened", "upsert", "join", "list", "reply", "bcast",
           "serve", "hblist", "closed"}

Registered == {n \in Names : nodes[n] # None}
Rows       == {nodes[n] : n \in Registered}
UsedIPs    == {r.ip : r \in Rows}

(* AllocateIP returns the first address of the CIDR that is not in use.    *)
Allocated(a) ==
  /\ a \in Addresses \ UsedIPs
  /\ \A b \in Addresses \ UsedIPs : a <= b

(* A slip of PeerListFor: peers that are not connected are left out.       *)
OnlineOnlyFor(k, rows) == {r \in rows : r.key # k /\ conns[r.key] # None}

(* PeerListFor knows the receiver by its key only.                         *)
PeersFor(k, rows) == {r \in rows : r.key # k}

Init ==
  /\ nodes = [n \in Names |-> None]
  /\ fresh = {}
  /\ conns = [k \in Keys |-> None]
  /\ agent = [c \in Conns |-> None]
  /\ alive = {}
  /\ hb = {}
  /\ pc = [c \in Conns |-> "idle"]
  /\ meshIP = [c \in Conns |-> None]
  /\ snap = [c \in Conns |-> {}]
  /\ reply = [c \in Conns |-> None]
  /\ list = [c \in Conns |-> None]
-----------------------------------------------------------------------------
(* The agents, as far as the server sees them.                             *)

(* An agent dials when it has no connection, and sends its registration.   *)
(* Its previous goroutine on the server may be anywhere.                   *)
Dial(c, n, k, attr) ==
  /\ pc[c] = "idle"
  /\ \A d \in alive : agent[d].name # n
  /\ pc' = [pc EXCEPT ![c] = "opened"]
  /\ agent' = [agent EXCEPT ![c] = [name |-> n, key |-> k, attr |-> attr]]
  /\ alive' = alive \cup {c}
  /\ UNCHANGED <<nodes, fresh, conns, hb, meshIP, snap, reply, list>>

AgentGone(c) ==
  /\ c \in alive
  /\ alive' = alive \ {c}
  /\ list' = [list EXCEPT ![c] = None]
  /\ UNCHANGED <<nodes, fresh, conns, agent, hb, pc, meshIP, snap, reply>>

SendHeartbeat(c) ==
  /\ c \in alive \ hb
  /\ Cardinality(hb) < MaxBeats
  /\ hb' = hb \cup {c}
  /\ UNCHANGED <<nodes, fresh, conns, agent, alive, pc, meshIP, snap, reply, list>>
-----------------------------------------------------------------------------
(* handleRegister, statement by statement.                                 *)

(* The register message is read; UsedMeshIPs and AllocateIP choose a       *)
(* candidate.  With no address left, or a failed query, the handler        *)
(* returns and the agent is not told.                                      *)
ReadRegister(c) ==
  /\ pc[c] = "opened"
  /\ \/ /\ \E a \in Addresses : Allocated(a) /\ meshIP' = [meshIP EXCEPT ![c] = a]
        /\ pc' = [pc EXCEPT ![c] = "upsert"]
     \/ /\ Addresses \subseteq UsedIPs \/ DbFaults
        /\ pc' = [pc EXCEPT ![c] = "serve"]
        /\ UNCHANGED meshIP
  /\ UNCHANGED <<nodes, fresh, conns, agent, alive, hb, snap, reply, list>>

(* INSERT ... ON CONFLICT (name): a known name keeps its address.          *)
NewRow(c) ==
  LET a == agent[c]
  IN  [key  |-> a.key,
       ip   |-> IF nodes[a.name] = None THEN meshIP[c] ELSE nodes[a.name].ip,
       attr |-> a.attr]

(* Slips of the schema: mesh_ip is not UNIQUE; public_key is not.          *)
UniqueKeyOnly(c) ==
  \A m \in Registered \ {agent[c].name} : nodes[m].key # NewRow(c).key
UniqueIPOnly(c) ==
  \A m \in Registered \ {agent[c].name} : nodes[m].ip # NewRow(c).ip

(* The UNIQUE constraints on public_key and mesh_ip.                       *)
UniqueOK(c) ==
  \A m \in Registered \ {agent[c].name} :
     /\ nodes[m].key # NewRow(c).key
     /\ nodes[m].ip # NewRow(c).ip

WriteRow(c) ==
  /\ nodes' = [nodes EXCEPT ![agent[c].name] = NewRow(c)]
  /\ fresh' = fresh \cup {agent[c].name}

Upsert(c) ==
  /\ pc[c] = "upsert"
  /\ UniqueOK(c)
  /\ WriteRow(c)
  /\ meshIP' = [meshIP EXCEPT ![c] = NewRow(c).ip]
  /\ pc' = [pc EXCEPT ![c] = "join"]
  /\ UNCHANGED <<conns, agent, alive, hb, snap, reply, list>>

(* The statement fails: it violates a constraint, or the database is in    *)
(* trouble, and then it may have been committed all the same.              *)
UpsertFails(c) ==
  /\ pc[c] = "upsert"
  /\ \/ (~UniqueOK(c) \/ DbFaults) /\ UNCHANGED <<nodes, fresh>>
     \/ DbFaults /\ UniqueOK(c) /\ WriteRow(c)
  /\ meshIP' = [meshIP EXCEPT ![c] = None]
  /\ pc' = [pc EXCEPT ![c] = "serve"]
  /\ UNCHANGED <<conns, agent, alive, hb, snap, reply, list>>

Join(c) ==
  /\ pc[c] = "join"
  /\ conns' = [conns EXCEPT ![agent[c].key] = c]
  /\ pc' = [pc EXCEPT ![c] = "list"]
  /\ UNCHANGED <<nodes, fresh, agent, alive, hb, meshIP, snap, reply, list>>

(* ListNodes, of either handler.  When it fails the handler returns.       *)
List(c) ==
  /\ pc[c] \in {"list", "hblist"}
  /\ \/ /\ snap' = [snap EXCEPT ![c] = Rows]
        /\ pc' = [pc EXCEPT ![c] = IF pc[c] = "list" THEN "reply" ELSE "bcast"]
        /\ UNCHANGED meshIP
     \/ /\ DbFaults
        /\ pc' = [pc EXCEPT ![c] = "serve"]
        /\ meshIP' = [meshIP EXCEPT ![c] = None]
        /\ UNCHANGED snap
  /\ UNCHANGED <<nodes, fresh, conns, agent, alive, hb, reply, list>>

(* The registered message is written, without Server.mu.  On a connection  *)
(* that is down the write may fail, and then nothing is broadcast.         *)
Reply(c) ==
  /\ pc[c] = "reply"
  /\ LET peers == PeersFor(agent[c].key, snap[c])
     IN  IF c \in alive
         THEN /\ reply' = [reply EXCEPT ![c] = [ip |-> meshIP[c], peers |-> peers]]
              /\ list' = [list EXCEPT ![c] = peers]
         ELSE UNCHANGED <<reply, list>>
  /\ \/ pc' = [pc EXCEPT ![c] = "bcast"] /\ UNCHANGED snap
     \/ /\ c \notin alive
        /\ pc' = [pc EXCEPT ![c] = "serve"]
        /\ snap' = [snap EXCEPT ![c] = {}]
  /\ meshIP' = [meshIP EXCEPT ![c] = None]
  /\ UNCHANGED <<nodes, fresh, conns, agent, alive, hb>>
-----------------------------------------------------------------------------
(* broadcastPeerLists, handleHeartbeat and the end of HandleWS.            *)

(* The connections a broadcast reaches: mapped, and up.                    *)
Listening == {c \in alive : conns[agent[c].key] = c}

(* c pushes the rows it listed earlier to the connections in cs.           *)
Pushing(c, cs) ==
  [d \in Conns |-> IF d \in cs THEN PeersFor(agent[d].key, snap[c]) ELSE list[d]]

(* One critical section of Server.mu; a failed write is only logged.       *)
Broadcast(c) ==
  /\ pc[c] = "bcast"
  /\ list' = Pushing(c, Listening)
  /\ snap' = [snap EXCEPT ![c] = {}]
  /\ pc' = [pc EXCEPT ![c] = "serve"]
  /\ UNCHANGED <<nodes, fresh, conns, agent, alive, hb, meshIP, reply>>

(* Slips of TouchLastSeen: every row is touched; a row need not exist.     *)
TouchAll(k)    == fresh' = Registered
TouchAlways(k) == fresh' = fresh \cup {n \in Names : k \in KeysOf[n]}

(* UPDATE ... WHERE public_key: no row, or the row of whoever holds the    *)
(* key now.                                                                *)
Touch(k) == fresh' = fresh \cup {n \in Registered : nodes[n].key = k}

(* A slip of handleHeartbeat: it does not broadcast.                       *)
HeartbeatTouches(c) ==
  /\ pc[c] = "serve"
  /\ c \in hb
  /\ hb' = hb \ {c}
  /\ Touch(agent[c].key)
  /\ UNCHANGED <<nodes, conns, agent, alive, pc, meshIP, snap, reply, list>>

ReadHeartbeat(c) ==
  /\ pc[c] = "serve"
  /\ c \in hb
  /\ hb' = hb \ {c}
  /\ \/ Touch(agent[c].key) /\ pc' = [pc EXCEPT ![c] = "hblist"]
     \/ DbFaults /\ UNCHANGED <<fresh, pc>>
  /\ UNCHANGED <<nodes, conns, agent, alive, meshIP, snap, reply, list>>

(* ReadJSON fails; unread messages are lost.  The entry of this            *)
(* connection's key is deleted once a register message has been read.      *)
ReadError(c) ==
  /\ pc[c] \in {"opened", "serve"}
  /\ c \notin alive
  /\ conns' = IF pc[c] = "serve" THEN [conns EXCEPT ![agent[c].key] = None] ELSE conns
  /\ pc' = [pc EXCEPT ![c] = "closed"]
  /\ hb' = hb \ {c}
  /\ UNCHANGED <<nodes, fresh, agent, alive, meshIP, snap, reply, list>>

(* The goroutines of D end without reaching the delete after the loop, and *)
(* their connections are closed.                                           *)
Quit(D) ==
  /\ pc' = [d \in Conns |-> IF d \in D THEN "closed" ELSE pc[d]]
  /\ meshIP' = [d \in Conns |-> IF d \in D THEN None ELSE meshIP[d]]
  /\ snap' = [d \in Conns |-> IF d \in D THEN {} ELSE snap[d]]
  /\ alive' = alive \ D
  /\ hb' = hb \ D

(* c writes its reply while d, under the lock, pushes to c: two concurrent *)
(* writers of one gorilla connection, a data race.                         *)
Colliding(c, d) ==
  /\ pc[c] = "reply"
  /\ pc[d] = "bcast"
  /\ c \in Listening

(* Either goroutine may panic ("concurrent write to websocket              *)
(* connection"): net/http recovers it and the deferred Close and Unlock    *)
(* run.  d has by then pushed to some of the others.                       *)
WriteCollision(c, d) ==
  /\ Colliding(c, d)
  /\ \/ \E cs \in SUBSET (Listening \ {c, d}) :
          /\ Quit({d})
          /\ list' = [Pushing(d, cs) EXCEPT ![d] = None]
     \/ /\ Quit({c})
        /\ list' = [list EXCEPT ![c] = None]
  /\ UNCHANGED <<nodes, fresh, conns, agent, reply>>

(* Or neither panics, the two messages garble each other in the shared     *)
(* buffer, and the agent hangs up on what it cannot parse.                 *)
WriteGarbled(c, d) == Colliding(c, d) /\ AgentGone(c)

(* The process ends and a new one starts: sockets and the map are gone,    *)
(* the database is not.                                                    *)
ServerRestart ==
  /\ Quit({c \in Conns : pc[c] # "idle"})
  /\ conns' = [k \in Keys |-> None]
  /\ list' = [c \in Conns |-> None]
  /\ UNCHANGED <<nodes, fresh, agent, reply>>

(* Time passes without a touch of n's last_seen.                           *)
Age(n) ==
  /\ n \in fresh \cap Aging
  /\ fresh' = fresh \ {n}
  /\ UNCHANGED <<nodes, conns, agent, alive, hb, pc, meshIP, snap, reply, list>>
-----------------------------------------------------------------------------
Serve(c) ==
  \/ ReadRegister(c) \/ Upsert(c) \/ UpsertFails(c) \/ Join(c) \/ List(c)
  \/ Reply(c) \/ Broadcast(c) \/ ReadHeartbeat(c) \/ ReadError(c)

Next ==
  \/ \E c \in Conns, n \in Names, attr \in Attrs :
       \E k \in KeysOf[n] : Dial(c, n, k, attr)
  \/ \E c \in Conns : AgentGone(c) \/ SendHeartbeat(c) \/ Serve(c)
  \/ \E c, d \in Conns : WriteCollision(c, d) \/ WriteGarbled(c, d)
  \/ ServerRestart
  \/ \E n \in Names : Age(n)

Spec == Init /\ [][Next]_vars

(* Goroutines are scheduled and the sockets report a lost peer; an agent   *)
(* that stays connected keeps its ticker running; time passes.             *)
Fairness ==
  /\ \A c \in Conns : WF_vars(Serve(c)) /\ WF_vars(SendHeartbeat(c))
  /\ \A n \in Names : WF_vars(Age(n))

LiveSpec == Spec /\ Fairness
-----------------------------------------------------------------------------
(* Properties.                                                             *)

IPs(rows) == {r.ip : r \in rows}
Answered  == {c \in Conns : reply[c] # None}
Pushed    == {c \in Conns : list[c] # None}

(* Every variable keeps its type.                                          *)
TypeOK ==
  /\ nodes \in [Names -> Row \cup {None}]
  /\ fresh \subseteq Registered
  /\ conns \in [Keys -> Conns \cup {None}]
  /\ agent \in [Conns -> Agent \cup {None}]
  /\ \A c \in Conns : agent[c] = None <=> pc[c] = "idle"
  /\ pc \in [Conns -> Stages]
  /\ alive \subseteq {c \in Conns : pc[c] \notin {"idle", "closed"}}
  /\ hb \subseteq {c \in Conns : pc[c] \notin {"idle", "closed"}}
  /\ meshIP \in [Conns -> Addresses \cup {None}]
  /\ \A c \in Conns :
       meshIP[c] # None <=> pc[c] \in {"upsert", "join", "list", "reply"}
  /\ snap \in [Conns -> SUBSET Row]
  /\ reply \in [Conns -> Answer \cup {None}]
  /\ list \in [Conns -> (SUBSET Row) \cup {None}]
  /\ Pushed \subseteq alive

(* A mesh address is an identity: over all registrations ever answered,    *)
(* two agents were told the same address exactly when they have the same   *)
(* name, although the address is chosen from a query made before the row   *)
(* is written (handleRegister, UpsertNode).                                *)
AddressIsIdentity ==
  \A c, d \in Answered :
     reply[c].ip = reply[d].ip <=> agent[c].name = agent[d].name

(* So is a key: a node that is renamed and keeps its key file would have   *)
(* one key under two names, and is never answered under the second one,    *)
(* also when both register at the same time: rows are not deleted, and     *)
(* public_key is UNIQUE (UpsertNode).                                      *)
KeyIsIdentity ==
  \A c, d \in Answered :
     agent[c].key = agent[d].key => agent[c].name = agent[d].name

(* Of any two nodes whose registrations were answered, at least one found  *)
(* the other in its answer: each handler writes its row before it lists    *)
(* the table.  Nobody has to wait for a broadcast to start a handshake.    *)
MutualDiscovery ==
  \A c, d \in Answered :
     agent[c].name # agent[d].name =>
        \/ reply[d].ip \in IPs(reply[c].peers)
        \/ reply[c].ip \in IPs(reply[d].peers)

(* No address and no key occurs twice in a list sent to an agent, so no    *)
(* peer's mesh address takes another's away.  The subnets of two relays    *)
(* may still overlap: what comes of that is WgManager's business.          *)
ListsUsable ==
  \A c \in Pushed : \A p, q \in list[c] :
     p.ip = q.ip \/ p.key = q.key => p = q

(* Whatever the order in which handlers listed the table and got the lock, *)
(* every agent that is still pushed to ends up with the table as it is:    *)
(* the next heartbeats repair what a late broadcast undid.                 *)
Convergence ==
  <>[](\A c \in Listening : list[c] = PeersFor(agent[c].key, Rows))

Connected(n) == \E c \in alive : agent[c].name = n
Served(n)    == \E c \in Listening : agent[c].name = n

(* last_seen tells who is there, which the master/backup choice for the    *)
(* web resources depends on.  An agent that is gone for good goes stale    *)
(* and stays so, whoever else heartbeats (with a key of their own: the     *)
(* touch goes by key); one that is served does not stay stale.             *)
FreshFollowsAgents ==
  \A n \in Aging :
     /\ <>[]~Connected(n) => <>[](n \notin fresh)
     /\ <>[]Served(n) => []<>(n \in fresh)
-----------------------------------------------------------------------------
(* What a comment of the code says, and the code does not do.              *)

(* Broadcasts go to every connected agent whose registration was answered  *)
(* ("sends every currently-connected agent its own personalized            *)
(* peer_list").                                                            *)
ConnectedAgentsMapped == alive \cap Answered \subseteq Listening
=============================================================================
