------------------------------- MODULE Pushes -------------------------------
(***************************************************************************)
(* Who waits for whom, between the agent endpoint (wsserver.go) and the    *)
(* agents' connections (wsclient.go).  A socket holds so many unread       *)
(* messages and then blocks its writer: neither side sets a deadline.      *)
(* Broadcasts write to every mapped connection while they hold Server.mu,  *)
(* which every handler, and every connection that ends, needs.             *)
(*                                                                         *)
(* What the messages say is the business of MeshServer.  Here they are     *)
(* counted.                                                                *)
(***************************************************************************)
EXTENDS Naturals

CONSTANTS
  Conns,  \* connections that may be open at a time
  Room,   \* messages a socket holds in each direction before a write blocks
  None    \* nobody

ASSUME RoomAssumption == Room \in Nat \ {0}
ASSUME NoneAssumption == None \notin Conns

VARIABLES
  stage,     \* where the goroutine of a connection is, on the server
  mu,        \* the goroutine that holds Server.mu
  todo,      \* what is left of the map in the broadcast that holds Server.mu
  at,        \* the connection it is writing to
  mapped,    \* connections in Server.conns
  alive,     \* sockets that are up
  toAgent,   \* messages the agent has not read
  toServer,  \* messages the server has not read
  beating    \* agents whose heartbeatLoop is writing

server == <<stage, mu, todo, at, mapped>>
vars   == <<server, alive, toAgent, toServer, beating>>

Init ==
  /\ stage = [c \in Conns |-> "closed"]
  /\ mu = None /\ todo = {} /\ at = None
  /\ mapped = {}
  /\ alive = {} /\ beating = {}
  /\ toAgent = [c \in Conns |-> 0]
  /\ toServer = [c \in Conns |-> 0]

Goto(c, s) == stage' = [stage EXCEPT ![c] = s]
-----------------------------------------------------------------------------
(* The agents (connectOnce).                                               *)

(* Dial, write the register message, start heartbeatLoop.  A closed        *)
(* connection stands for a new one when no broadcast knows it any more.    *)
Dial(c) ==
  /\ stage[c] = "closed" /\ c \notin alive \cup beating
  /\ c \notin todo /\ at # c
  /\ Goto(c, "greet")
  /\ alive' = alive \cup {c}
  /\ toAgent' = [toAgent EXCEPT ![c] = 0]
  /\ toServer' = [toServer EXCEPT ![c] = 1]
  /\ mapped' = mapped \ {c}
  /\ UNCHANGED <<mu, todo, at, beating>>

(* A slip of connectOnce: one goroutine reads and writes heartbeats.       *)
SoleRead(c) ==
  /\ c \in alive \ beating
  /\ toAgent[c] > 0
  /\ toAgent' = [toAgent EXCEPT ![c] = @ - 1]
  /\ UNCHANGED <<server, alive, toServer, beating>>

(* The read loop takes a message and applies it.  A Reconcile, or a host   *)
(* that hangs, delays the next read.                                       *)
AgentRead(c) ==
  /\ c \in alive
  /\ toAgent[c] > 0
  /\ toAgent' = [toAgent EXCEPT ![c] = @ - 1]
  /\ UNCHANGED <<server, alive, toServer, beating>>

Tick(c) ==
  /\ c \in alive
  /\ beating' = beating \cup {c}
  /\ UNCHANGED <<server, alive, toAgent, toServer>>

(* The heartbeat is written when there is room; when the socket is down    *)
(* the loop ends.                                                          *)
WriteBeat(c) ==
  /\ c \in beating
  /\ beating' = beating \ {c}
  /\ \/ /\ c \in alive /\ toServer[c] < Room
        /\ toServer' = [toServer EXCEPT ![c] = @ + 1]
     \/ c \notin alive /\ UNCHANGED toServer
  /\ UNCHANGED <<server, alive, toAgent>>

(* The connection is lost, or the agent's process ends.                    *)
Lost(c) ==
  /\ c \in alive
  /\ alive' = alive \ {c}
  /\ UNCHANGED <<server, toAgent, toServer, beating>>
-----------------------------------------------------------------------------
(* One goroutine of the server (HandleWS).                                 *)

(* The register message; a handler that fails early returns to the loop.   *)
ReadRegister(c) ==
  /\ stage[c] = "greet" /\ toServer[c] > 0
  /\ toServer' = [toServer EXCEPT ![c] = @ - 1]
  /\ Goto(c, "join") \/ Goto(c, "read")
  /\ UNCHANGED <<mu, todo, at, mapped, alive, toAgent, beating>>

(* s.conns[p.PublicKey] = conn, under the lock, in place of any connection *)
(* d that had the key, which nobody tells; then ListNodes.                 *)
Join(c) ==
  /\ stage[c] = "join" /\ mu = None
  /\ \E d \in Conns : mapped' = (mapped \ {d}) \cup {c}
  /\ Goto(c, "reply") \/ Goto(c, "read")
  /\ UNCHANGED <<mu, todo, at, alive, toAgent, toServer, beating>>

(* The write of the registered message, without the lock.                  *)
Reply(c) ==
  /\ stage[c] = "reply"
  /\ \/ /\ c \in alive /\ toAgent[c] < Room
        /\ toAgent' = [toAgent EXCEPT ![c] = @ + 1]
        /\ Goto(c, "lock")
     \/ /\ c \notin alive
        /\ Goto(c, "read") \/ Goto(c, "lock")
        /\ UNCHANGED toAgent
  /\ UNCHANGED <<mu, todo, at, mapped, alive, toServer, beating>>

(* A heartbeat; with a failed statement nothing is broadcast.              *)
ReadHeartbeat(c) ==
  /\ stage[c] = "read" /\ toServer[c] > 0
  /\ toServer' = [toServer EXCEPT ![c] = @ - 1]
  /\ Goto(c, "lock") \/ UNCHANGED stage
  /\ UNCHANGED <<mu, todo, at, mapped, alive, toAgent, beating>>

(* broadcastPeerLists takes the lock, writes to one connection of the map  *)
(* after the other, in any order, and releases it.                         *)
Lock(c) ==
  /\ stage[c] = "lock" /\ mu = None
  /\ mu' = c /\ todo' = mapped
  /\ Goto(c, "push")
  /\ UNCHANGED <<at, mapped, alive, toAgent, toServer, beating>>

Aim(c, d) ==
  /\ mu = c /\ at = None /\ d \in todo
  /\ at' = d /\ todo' = todo \ {d}
  /\ UNCHANGED <<stage, mu, mapped, alive, toAgent, toServer, beating>>

(* One write: it succeeds when there is room, and fails, which is only     *)
(* logged, when the socket is down.                                        *)
Push(c) ==
  /\ mu = c /\ at # None
  /\ \/ /\ at \in alive /\ toAgent[at] < Room
        /\ toAgent' = [toAgent EXCEPT ![at] = @ + 1]
     \/ at \notin alive /\ UNCHANGED toAgent
  /\ at' = None
  /\ UNCHANGED <<stage, mu, todo, mapped, alive, toServer, beating>>

Unlock(c) ==
  /\ mu = c /\ at = None /\ todo = {}
  /\ mu' = None
  /\ Goto(c, "read")
  /\ UNCHANGED <<todo, at, mapped, alive, toAgent, toServer, beating>>

(* A slip of broadcastPeerLists: no defer, the lock is released after the  *)
(* loop only.                                                              *)
KeepLocked(c) == UNCHANGED mu

(* The deferred Unlock of a goroutine that ends.                           *)
Release(c) == mu' = IF mu = c THEN None ELSE mu

(* Two goroutines write to one connection, c or the other one panics       *)
(* ("concurrent write to websocket connection"), and net/http recovers.    *)
Panic(c) ==
  /\ \/ stage[c] = "reply" /\ at = c
     \/ mu = c /\ at # None /\ stage[at] = "reply"
  /\ Release(c)
  /\ IF mu = c THEN todo' = {} /\ at' = None ELSE UNCHANGED <<todo, at>>
  /\ Goto(c, "closed")
  /\ alive' = alive \ {c}
  /\ UNCHANGED <<mapped, toAgent, toServer, beating>>

(* A slip of HandleWS: it continues after a read that failed.              *)
ReadOn(c) ==
  /\ stage[c] \in {"greet", "read"} /\ c \notin alive
  /\ toServer' = [toServer EXCEPT ![c] = 0]
  /\ UNCHANGED <<server, alive, toAgent, beating>>

(* ReadJSON fails.  Without a register message there is nothing to delete. *)
ReadError(c) ==
  /\ stage[c] \in {"greet", "read"} /\ c \notin alive
  /\ Goto(c, IF stage[c] = "read" THEN "leave" ELSE "closed")
  /\ toServer' = [toServer EXCEPT ![c] = 0]
  /\ UNCHANGED <<mu, todo, at, mapped, alive, toAgent, beating>>

(* delete(s.conns, publicKey), under the lock, and the deferred Close.  If *)
(* another connection d has taken the key over, that one is deleted.       *)
Leave(c) ==
  /\ stage[c] = "leave" /\ mu = None
  /\ \E d \in Conns : (c \in mapped => d = c) /\ mapped' = mapped \ {d}
  /\ Goto(c, "closed")
  /\ UNCHANGED <<mu, todo, at, alive, toAgent, toServer, beating>>
-----------------------------------------------------------------------------
Run(c) ==
  \/ ReadRegister(c) \/ ReadHeartbeat(c) \/ ReadError(c)
  \/ Push(c) \/ Unlock(c) \/ \E d \in Conns : Aim(c, d)

Acquire(c) == Join(c) \/ Lock(c) \/ Leave(c)

Next ==
  \E c \in Conns :
     \/ Dial(c) \/ AgentRead(c) \/ Tick(c) \/ WriteBeat(c) \/ Lost(c)
     \/ Run(c) \/ Acquire(c) \/ Reply(c) \/ Panic(c)

Spec == Init /\ [][Next]_vars

(* Goroutines run; sync.Mutex, and the lock that net.Conn has for writers, *)
(* let nobody starve; an agent that stays connected reads on sooner or     *)
(* later: a host that hangs comes back, or TCP gives its connection up.    *)
Fairness ==
  \A c \in Conns :
     /\ WF_vars(Run(c)) /\ SF_vars(Acquire(c)) /\ SF_vars(Reply(c))
     /\ WF_vars(AgentRead(c)) /\ WF_vars(WriteBeat(c))

LiveSpec == Spec /\ Fairness
-----------------------------------------------------------------------------
(* Properties.                                                             *)

Stages == {"closed", "greet", "join", "reply", "lock", "push", "read", "leave"}

(* Every variable keeps its type; the lock is held exactly while its       *)
(* holder broadcasts.                                                      *)
TypeOK ==
  /\ stage \in [Conns -> Stages]
  /\ mu \in Conns \cup {None} /\ at \in Conns \cup {None}
  /\ \A c \in Conns : stage[c] = "push" <=> mu = c
  /\ todo \subseteq Conns /\ mapped \subseteq Conns
  /\ mu = None => todo = {} /\ at = None
  /\ alive \subseteq Conns /\ beating \subseteq Conns
  /\ toAgent \in [Conns -> 0..Room] /\ toServer \in [Conns -> 0..Room]

(* Whoever waits for Server.mu gets it: to join the map, to broadcast, or  *)
(* to leave.  A broadcast that is held up by a full socket, or that        *)
(* panics, lets the others in sooner or later.                             *)
LockComesFree ==
  \A c \in Conns :
     /\ stage[c] = "join" ~> stage[c] # "join"
     /\ stage[c] = "lock" ~> stage[c] # "lock"
     /\ stage[c] = "leave" ~> stage[c] # "leave"

(* No agent is kept from heartbeating for ever, although its server        *)
(* goroutine reads nothing while it waits for a lock whose holder may be   *)
(* waiting for this agent to read.                                         *)
HeartbeatsHeard == \A c \in Conns : c \in beating ~> c \notin beating

(* The goroutine of a lost connection ends, whatever it was waiting for.   *)
ConnectionsEnd == \A c \in Conns : c \notin alive ~> stage[c] = "closed"
=============================================================================
