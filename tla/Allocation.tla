----------------------------- MODULE Allocation -----------------------------
(***************************************************************************)
(* AllocateIP (mesh.go), octet by octet: the first address of the mesh     *)
(* network that no node has, without the network's own address and its     *)
(* broadcast address.  MeshServer's Allocated is what it computes.         *)
(*                                                                         *)
(* An octet has Octet values, 256 in the code.  A mask leaves the octets   *)
(* before one of the four to the network, those after it to the hosts, and *)
(* divides the one in between into blocks.                                 *)
(***************************************************************************)
EXTENDS Integers

CONSTANTS
  Octet,      \* values of an octet
  Blocks,     \* sizes of the blocks a mask can divide an octet into
  Meshes,     \* the networks that may be configured (RVTX_MESH_CIDR)
  UsedIn(_),  \* the sets of addresses nodes may have in a network
  None,       \* no result yet
  Exhausted   \* the error "mesh cidr exhausted"

Index   == 1..4
Byte    == 0..Octet - 1
Address == [Index -> Byte]

(* net.IPNet: the address, already masked by ParseCIDR, and for each octet *)
(* the size of the block the mask leaves to the hosts.                     *)
Masked(x, size) == x - (x % size)

Network ==
  {[ip |-> [i \in Index |-> Masked(a[i], m[i])], size |-> m] :
     a \in Address,
     m \in {[i \in Index |-> IF i < k THEN 1 ELSE IF i = k THEN b ELSE Octet] :
              k \in Index, b \in Blocks}}

ASSUME OctetAssumption ==
  /\ Octet \in Nat \ {0}
  /\ \A b \in Blocks : b \in 1..Octet /\ \E q \in 1..Octet : Octet = q * b
ASSUME MeshesAssumption == Meshes \subseteq Network
ASSUME ResultAssumption ==
  None \notin Address /\ Exhausted \notin Address /\ None # Exhausted

VARIABLES
  mesh,   \* the network
  used,   \* mesh_ip of every row (UsedMeshIPs)
  ip,     \* the loop's address
  result  \* what is returned

vars == <<mesh, used, ip, result>>

Zeros == [i \in Index |-> 0]

(* Slips of incIP: octets do not wrap; the carry stops at the third octet. *)
WideInc(a)    == [a EXCEPT ![4] = @ + 1]
ShortCarry(a) == [a EXCEPT ![4] = (@ + 1) % Octet,
                           ![3] = IF a[4] = Octet - 1 THEN (@ + 1) % Octet ELSE @]

(* incIP: the octets from the last one back, as long as they wrap to zero. *)
Wraps(a, i) == \A j \in Index : j > i => a[j] = Octet - 1
Inc(a) == [i \in Index |-> IF Wraps(a, i) THEN (a[i] + 1) % Octet ELSE a[i]]

(* lastAddr: the network's octets with the bits of the mask set.           *)
LastAddr(n) == [i \in Index |-> n.ip[i] + n.size[i] - 1]

(* A slip of Contains: a mask that ends within an octet takes all of it.   *)
ContainsOctets(n, a) == \A i \in Index : n.size[i] = Octet \/ a[i] = n.ip[i]

(* IPNet.Contains.                                                         *)
Contains(n, a) == \A i \in Index : Masked(a[i], n.size[i]) = n.ip[i]

Init ==
  /\ mesh \in Meshes
  /\ used \in UsedIn(mesh)
  /\ ip = Inc(mesh.ip)
  /\ result = None

(* A slip of the loop: the broadcast address counts.                       *)
ContainsOnly(a) == Contains(mesh, a)

(* The loop condition.                                                     *)
InLoop(a) == Contains(mesh, a) /\ a # LastAddr(mesh)

Take ==
  /\ result = None
  /\ InLoop(ip) /\ ip \notin used
  /\ result' = ip
  /\ UNCHANGED <<mesh, used, ip>>

Skip ==
  /\ result = None
  /\ InLoop(ip) /\ ip \in used
  /\ ip' = Inc(ip)
  /\ UNCHANGED <<mesh, used, result>>

Exhaust ==
  /\ result = None
  /\ ~InLoop(ip)
  /\ result' = Exhausted
  /\ UNCHANGED <<mesh, used, ip>>

Next == Take \/ Skip \/ Exhaust

Spec == Init /\ [][Next]_vars

LiveSpec == Spec /\ WF_vars(Next)
-----------------------------------------------------------------------------
(* Properties.                                                             *)

(* Addresses in the order of the numbers they are.                         *)
a \prec b ==
  \E i \in Index : a[i] < b[i] /\ \A j \in Index : j < i => a[j] = b[j]

(* The hosts of a network: what lies between its first address and its     *)
(* last one.                                                               *)
Hosts(n) == {a \in Address : n.ip \prec a /\ a \prec LastAddr(n)}

(* Every variable keeps its type.                                          *)
TypeOK ==
  /\ mesh \in Meshes
  /\ ip \in Address
  /\ result \in Address \cup {None, Exhausted}

(* What is returned is a host of the network and is nobody's, and there is *)
(* no lower one: the answer that MeshServer chooses in one step.           *)
FirstFreeHost ==
  result \notin {None, Exhausted} =>
     /\ result \in Hosts(mesh) \ used
     /\ \A a \in Hosts(mesh) \ used : ~(a \prec result)

(* The network is called exhausted only when every host has a node, also   *)
(* when it has no host at all (/31, /32), when the octets carry, and when  *)
(* it ends where the addresses wrap.                                       *)
ExhaustedMeansFull == result = Exhausted => Hosts(mesh) \subseteq used

(* A turn of the loop that goes on does so at a higher address of the      *)
(* network: it neither wraps to the start of the network, or of all        *)
(* addresses, nor runs past the broadcast address, where the loop          *)
(* condition could hold again.                                             *)
LoopClimbs == [][ip' # ip => ip \prec ip' /\ Contains(mesh, ip')]_vars

(* The loop ends, even in a network where the address wraps.               *)
Returns == <>(result # None)
=============================================================================
