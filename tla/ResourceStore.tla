--------------------------- MODULE ResourceStore ---------------------------
(***************************************************************************)
(* What the control plane promises about its resources, without            *)
(* transactions, locks or forms.  Whoever asks to store something valid    *)
(* under a name may find it stored there, whole, until somebody else's     *)
(* request replaces or removes it.                                         *)
(***************************************************************************)
EXTENDS Integers

CONSTANTS
  Names,  \* names of resources
  None    \* "no such resource"

VARIABLES
  asked,  \* requests under way: pairs of a name and a value
  store   \* what is stored under each name

(* http resources have any number of targets, the others one, or a primary *)
(* and a backup; a target is a node or an address.                         *)
Acceptable(v) ==
  /\ \A t \in v.targets : t.node = None <=> t.address # None
  /\ v.protocol \in {"http", "tcp", "udp"}
  /\ v.size >= 1
  /\ v.protocol # "http" =>
       v.size = 1 \/ (v.size = 2 /\ {t.role : t \in v.targets} = {"primary", "backup"})

SInit ==
  /\ asked = {}
  /\ store = [n \in Names |-> None]

(* Requests come and go; one or none of those under way takes effect.      *)
Put(n) ==
  \E r \in asked :
     /\ r[1] = n /\ Acceptable(r[2])
     /\ store' = [store EXCEPT ![n] = r[2]]

Remove(n) == store' = [store EXCEPT ![n] = None]

SNext == UNCHANGED store \/ \E n \in Names : Put(n) \/ Remove(n)

SSpec == SInit /\ [][SNext]_<<asked, store>>
=============================================================================
