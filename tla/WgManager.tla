------------------------------ MODULE WgManager ------------------------------
(***************************************************************************)
(* The agent's start (cmd/agent/main.go), its WireGuard interface          *)
(* (wgmanager.go) and the read loop that drives it (wsclient.go).          *)
(* EnsureInterface and Reconcile run one shell command after another; the  *)
(* kernel and the disk keep what was done when the process dies between    *)
(* two of them.  A step of this module is one command, with the reads it   *)
(* depends on.                                                             *)
(***************************************************************************)
EXTENDS Integers, FiniteSets

CONSTANTS
  Keys,        \* public keys of possible peers
  MeshCidrs,   \* the mesh addresses of the peers, as /32
  Subnets,     \* subnets that relays advertise
  Lists,       \* the peer lists the control plane may send
  Lan,         \* subnets this host has a route to on another device
  CmdFaults,   \* whether a command may fail although nothing is wrong with it
  MaxCrashes,  \* bound: deaths of the agent process, with or without reboot
  None         \* "not a peer"

Cidrs == MeshCidrs \cup Subnets

(* A peer list gives the allowed-ips of each listed peer: its own address  *)
(* and the subnets it advertises (PeerInfo).                               *)
PeerLists == [Keys -> (SUBSET Cidrs) \cup {None}]

ASSUME ListsAssumption == Lists \subseteq PeerLists /\ Lists # {}
ASSUME NoneAssumption  == \A S \in SUBSET Cidrs : S # None
ASSUME CidrAssumption  == MeshCidrs \cap Subnets = {} /\ Lan \subseteq Subnets
ASSUME BoundAssumption == MaxCrashes \in Nat /\ CmdFaults \in BOOLEAN

VARIABLES
  link,       \* the interface: "absent", "down" or "up"
  configured, \* of the interface, what is set: a subset of {"key", "address"}
  peers,      \* in the interface: the allowed-ips of each peer, or None
  routes,     \* the kernel routes through the interface
  pc,         \* where the agent's read loop is
  want,       \* the list being, or last, applied
  stale,      \* peers found in the interface and not wanted
  drop,       \* routes of the last removed peer, still to delete
  todo,       \* wanted peers, still to set
  add,        \* allowed-ips of the last set peer, whose routes are to be added
  result,     \* what became of the last Reconcile: "none", "ok" or "error"
  joined,     \* a registered message has arrived since the process started
  keyfile,    \* the agent's key file: "absent", "empty" or "whole"
  crashes     \* deaths of the process so far

kernel == <<link, configured, peers, routes>>
agent  == <<pc, want, stale, drop, todo, add, result, joined>>
vars   == <<kernel, agent, keyfile, crashes>>

Wanted == {k \in Keys : want[k] # None}
Known  == {k \in Keys : peers[k] # None}

Init ==
  /\ link = "absent" /\ configured = {}
  /\ peers = [k \in Keys |-> None]
  /\ routes = {}
  /\ pc = "off" /\ keyfile = "absent"
  /\ want \in Lists
  /\ stale = {} /\ drop = {} /\ todo = {} /\ add = {}
  /\ result = "none"
  /\ joined = FALSE
  /\ crashes = 0
-----------------------------------------------------------------------------
(* loadOrCreateKeypair.  A process that cannot start ends and is started   *)
(* again.                                                                  *)

Starting(stage) ==
  /\ pc' = stage
  /\ UNCHANGED <<kernel, want, stale, drop, todo, add, result, joined, crashes>>

(* The public key comes from the key file; an empty one has none.          *)
LoadKey ==
  /\ pc = "off" /\ keyfile # "absent"
  /\ Starting(IF keyfile = "whole" THEN "idle" ELSE "off")
  /\ UNCHANGED keyfile

(* No key file, or one that cannot be read just now: os.WriteFile makes an *)
(* empty file of it first.                                                 *)
CreateKey ==
  /\ pc = "off" /\ (keyfile = "absent" \/ CmdFaults)
  /\ keyfile' = "empty"
  /\ Starting("save")

(* A slip of loadOrCreateKeypair: a key that could not be saved is used.   *)
UseUnsaved ==
  /\ pc = "save"
  /\ keyfile' = "whole" \/ UNCHANGED keyfile
  /\ Starting("idle")

(* The key is written to it, or the write fails.                           *)
SaveKey ==
  /\ pc = "save"
  /\ \/ keyfile' = "whole" /\ Starting("idle")
     \/ CmdFaults /\ UNCHANGED keyfile /\ Starting("off")
-----------------------------------------------------------------------------
(* connectOnce: a registered message sets the interface up and applies its *)
(* list, a peer_list message only applies its list.                        *)

Registered(l) ==
  /\ pc = "idle"
  /\ pc' = "link" /\ want' = l /\ result' = "none" /\ joined' = TRUE
  /\ UNCHANGED <<kernel, stale, drop, todo, add, keyfile, crashes>>

PeerList(l) ==
  /\ pc = "idle"
  /\ pc' = "read" /\ want' = l /\ result' = "none"
  /\ UNCHANGED <<kernel, stale, drop, todo, add, joined, keyfile, crashes>>

(* A command fails, and the function returns its error.                    *)
Return(res) ==
  /\ pc' = "idle" /\ result' = res
  /\ stale' = {} /\ drop' = {} /\ todo' = {} /\ add' = {}
  /\ UNCHANGED <<want, joined, keyfile, crashes>>

Fails == Return("error") /\ UNCHANGED kernel

Goto(stage) ==
  /\ pc' = stage
  /\ UNCHANGED <<want, stale, drop, todo, add, result, joined, keyfile, crashes>>

(* A slip of interfaceExists: the link is taken to be there.               *)
AssumeLink == pc = "link" /\ Goto("key") /\ UNCHANGED kernel

(* EnsureInterface: ip link add, wg set private-key, ip addr add, up.  If  *)
(* ip link show fails on a link that is there, ip link add fails too.      *)
EnsureLink ==
  /\ pc = "link"
  /\ \/ /\ link' = IF link = "absent" THEN "down" ELSE link
        /\ Goto("key") /\ UNCHANGED <<configured, peers, routes>>
     \/ CmdFaults /\ Fails

SetKey ==
  /\ pc = "key"
  /\ \/ /\ configured' = configured \cup {"key"}
        /\ Goto("address") /\ UNCHANGED <<link, peers, routes>>
     \/ CmdFaults /\ Fails

(* hasAddress, ip addr add, and once more if that fails.                   *)
AddAddress ==
  /\ pc = "address"
  /\ \/ /\ configured' = configured \cup {"address"}
        /\ Goto("up") /\ UNCHANGED <<link, peers, routes>>
     \/ CmdFaults /\ Fails

BringUp ==
  /\ pc = "up"
  /\ \/ link' = "up" /\ Goto("read") /\ UNCHANGED <<configured, peers, routes>>
     \/ CmdFaults /\ Fails
-----------------------------------------------------------------------------
(* Reconcile.                                                              *)

(* A slip of Reconcile: it removes everybody first.                        *)
RemoveEverybody ==
  /\ pc = "read" /\ pc' = "remove"
  /\ stale' = Known /\ todo' = Wanted
  /\ UNCHANGED <<kernel, want, drop, add, result, joined, keyfile, crashes>>

(* currentPeers.  wg show fails when there is no interface, and may fail   *)
(* otherwise; with nothing printed that reads as "no peers".               *)
ReadPeers ==
  /\ pc = "read"
  /\ \/ /\ stale' = Known \ Wanted \/ (CmdFaults /\ stale' = {})
        /\ todo' = Wanted
        /\ pc' = "remove"
        /\ UNCHANGED <<kernel, want, drop, add, result, joined, keyfile, crashes>>
     \/ CmdFaults /\ Fails

(* What currentPeers makes of a line of wg show: every field after the     *)
(* key.  It once took the first one only.                                  *)
FirstField(cs) == cs \cap MeshCidrs
Parsed(cs) == cs

(* wg set peer remove, for the next peer of the map.  Its routes are       *)
(* deleted next.                                                           *)
RemovePeer(k) ==
  /\ pc = "remove"
  /\ k \in stale
  /\ drop = {}
  /\ \/ /\ peers' = [peers EXCEPT ![k] = None]
        /\ stale' = stale \ {k}
        /\ drop' = Parsed(peers[k])
        /\ UNCHANGED <<link, configured, routes, pc, want, todo, add, result, joined, keyfile, crashes>>
     \/ CmdFaults /\ Fails

(* ip route del, best effort.                                              *)
DropRoute(c) ==
  /\ pc = "remove"
  /\ c \in drop
  /\ drop' = drop \ {c}
  /\ \/ routes' = routes \ {c}
     \/ CmdFaults /\ UNCHANGED routes
  /\ UNCHANGED <<link, configured, peers, pc, want, stale, todo, add, result, joined, keyfile, crashes>>

Removed ==
  /\ pc = "remove"
  /\ stale = {} /\ drop = {}
  /\ Goto("set") /\ UNCHANGED kernel

(* The allowed-ips whose routes Reconcile looks after, for a peer set to   *)
(* cs: all of them.  Slips: the first one only; none for a peer that was   *)
(* there already.                                                          *)
FirstRoute(k, cs)    == cs \cap MeshCidrs
NewPeerRoute(k, cs)  == IF peers[k] = None THEN cs ELSE {}
ToRoute(k, cs)       == cs

(* wg set peer allowed-ips.  An address belongs to one peer only: the      *)
(* kernel takes it from the peer that had it.                              *)
SetPeer(k) ==
  /\ pc = "set"
  /\ k \in todo
  /\ add = {}
  /\ \/ /\ link # "absent"
        /\ peers' = [j \in Keys |-> IF j = k THEN want[k]
                                    ELSE IF peers[j] = None THEN None
                                    ELSE peers[j] \ want[k]]
        /\ todo' = todo \ {k}
        /\ add' = ToRoute(k, want[k])
        /\ UNCHANGED <<link, configured, routes, pc, want, stale, drop, result, joined, keyfile, crashes>>
     \/ (CmdFaults \/ link = "absent") /\ Fails

(* The peer's own address comes first in its allowed-ips.                  *)
NextRoute(c) == c \in add /\ (c \in MeshCidrs \/ add \cap MeshCidrs = {})

(* ip route show and, if there is none, ip route add: refused when the     *)
(* interface is down or another device has the very same route.            *)
AddRoute(c) ==
  /\ pc = "set"
  /\ NextRoute(c)
  /\ \/ /\ c \in routes \/ (link = "up" /\ c \notin Lan)
        /\ routes' = routes \cup {c}
        /\ add' = add \ {c}
        /\ UNCHANGED <<link, configured, peers, pc, want, stale, drop, todo, result, joined, keyfile, crashes>>
     \/ /\ CmdFaults \/ (c \notin routes /\ (link # "up" \/ c \in Lan))
        /\ Fails

Done ==
  /\ pc = "set"
  /\ todo = {} /\ add = {}
  /\ Return("ok") /\ UNCHANGED kernel
-----------------------------------------------------------------------------
(* The process dies and is started again; with a reboot, the interface is  *)
(* gone as well.                                                           *)
Restart ==
  /\ crashes < MaxCrashes
  /\ crashes' = crashes + 1
  /\ pc' = "off" /\ result' = "none" /\ joined' = FALSE
  /\ stale' = {} /\ drop' = {} /\ todo' = {} /\ add' = {}
  /\ UNCHANGED <<want, keyfile>>

Crash == Restart /\ UNCHANGED kernel

Reboot ==
  /\ Restart
  /\ link' = "absent" /\ configured' = {}
  /\ peers' = [k \in Keys |-> None]
  /\ routes' = {}
-----------------------------------------------------------------------------
Start == LoadKey \/ CreateKey \/ SaveKey

Ensure == EnsureLink \/ SetKey \/ AddAddress \/ BringUp

Reconcile ==
  \/ ReadPeers \/ Removed \/ Done
  \/ \E k \in Keys : RemovePeer(k) \/ SetPeer(k)
  \/ \E c \in Cidrs : DropRoute(c) \/ AddRoute(c)

Next ==
  \/ \E l \in Lists : Registered(l) \/ PeerList(l)
  \/ Start \/ Ensure \/ Reconcile
  \/ Crash \/ Reboot

Spec == Init /\ [][Next]_vars

(* Commands end.  A started agent is answered by the control plane sooner  *)
(* or later, and heartbeats bring a new peer list again and again.         *)
Fairness ==
  /\ WF_vars(Start \/ Ensure \/ Reconcile)
  /\ WF_vars(\E l \in Lists : PeerList(l))
  /\ SF_vars(\E l \in Lists : ~joined /\ Registered(l))

LiveSpec == Spec /\ Fairness
-----------------------------------------------------------------------------
(* Properties.                                                             *)

Stages == {"off", "save", "idle", "link", "key", "address", "up", "read", "remove", "set"}

(* Every variable keeps its type; nothing is set on a missing interface.   *)
TypeOK ==
  /\ link \in {"absent", "down", "up"} /\ configured \subseteq {"key", "address"}
  /\ peers \in PeerLists /\ want \in Lists
  /\ routes \subseteq Cidrs /\ drop \subseteq Cidrs /\ add \subseteq Cidrs
  /\ stale \subseteq Keys /\ todo \subseteq Keys
  /\ pc \in Stages
  /\ result \in {"none", "ok", "error"}
  /\ joined \in BOOLEAN
  /\ keyfile \in {"absent", "empty", "whole"}
  /\ crashes \in 0..MaxCrashes
  /\ link = "absent" => configured = {} /\ Known = {} /\ routes = {}

AllOf(l) == UNION {l[k] : k \in {j \in Keys : l[j] # None}}

(* Every wanted peer is in the interface with addresses of its own only;   *)
(* each wanted address goes to one of those that want it, and is routed.   *)
Serving ==
  /\ Wanted \subseteq Known
  /\ \A k \in Wanted : peers[k] \subseteq want[k]
  /\ \A c \in AllOf(want) : c \in routes /\ \E k \in Wanted : c \in peers[k]

Established == Serving /\ Known = Wanted

(* Reconcile that reports success serves every wanted peer, whatever was   *)
(* there, whoever had the addresses before, and whichever commands, wg     *)
(* show among them, failed without its noticing.                           *)
SuccessMeansServing == result = "ok" => Serving

(* When no command fails for no reason it has also removed everybody else  *)
(* ("adds/updates/removes to match exactly"), in whatever order it went,   *)
(* and however many earlier calls died half-way.                           *)
SuccessMeansEstablished == result = "ok" => Established

(* While the peers keep their allowed-ips and the process does not die, no *)
(* route is left behind: after a Reconcile the routes are those of the     *)
(* wanted peers ("adds/removes the kernel routing table entry for each     *)
(* entry in a peer's allowed-ips").                                        *)
NoRouteLeft == result = "ok" /\ crashes = 0 => routes = AllOf(want)

(* k is set up as listed, and nobody else has or is going to have any of   *)
(* its addresses.                                                          *)
Intact(k) == k \in Wanted /\ peers[k] = want[k] /\ want[k] \subseteq routes
Apart(k, l) ==
  \A j \in Keys \ {k} : l[j] = None \/ want[k] = None \/ l[j] \cap want[k] = {}

(* A peer that is listed as before is not disturbed by a Reconcile that    *)
(* changes the others, not even while it runs or when it fails.            *)
Undisturbed ==
  [][\A k \in Keys :
       /\ Intact(k) /\ want'[k] = want[k]
       /\ Apart(k, peers) /\ Apart(k, want) /\ Apart(k, want')
       /\ link' # "absent"
       => Intact(k)']_vars

(* The control plane never hears of a key that would be lost with the      *)
(* process ("a node's identity must survive restarts"): it is on the disk  *)
(* before it is used.  A later start may still fail to read it.            *)
IdentitySaved == joined => keyfile = "whole"

(* All that EnsureInterface does has been done.                            *)
Configured == link = "up" /\ configured = {"key", "address"}

(* When the control plane keeps sending one list, the interface ends up    *)
(* configured and as listed, after any number of crashes and reboots       *)
(* half-way, and whichever message came first.  A crash just when the key  *)
(* file is created is the exception: it leaves an empty file, and the      *)
(* agent ends at every later start.                                        *)
Recovers ==
  \A l \in Lists : <>[](want = l) =>
     <>[](Configured /\ Established) \/ <>[](keyfile = "empty")
=============================================================================
