---------------------------- MODULE MeshRegistry ----------------------------
(***************************************************************************)
(* What the control plane promises the agents of a mesh, without keys,     *)
(* sockets, goroutines or SQL.  A name is given an address once and for    *)
(* ever, a different one from any other name's.  A registration is         *)
(* admitted, then looks once at who is enrolled, then is answered with     *)
(* what it saw; before that it may be dropped without an answer, which is  *)
(* what the code does on every error.                                      *)
(***************************************************************************)
CONSTANTS
  Names,      \* node names
  Addresses,  \* mesh addresses
  Sessions,   \* attempts to register
  None        \* "no address", "no name"

NoneApart == None \notin Addresses /\ None \notin Names

VARIABLES
  addr,   \* the address of each enrolled name
  stage,  \* how far each session got
  who,    \* whose session it is, once admitted
  known   \* the other names a session saw enrolled

rvars == <<addr, stage, who, known>>

Enrolled == {n \in Names : addr[n] # None}

RInit ==
  /\ addr = [n \in Names |-> None]
  /\ stage = [s \in Sessions |-> "none"]
  /\ who = [s \in Sessions |-> None]
  /\ known = [s \in Sessions |-> {}]

(* n is enrolled from now on, with the address it has or a free one.       *)
Enroll(n) ==
  \/ addr[n] # None /\ UNCHANGED addr
  \/ /\ addr[n] = None
     /\ \E a \in Addresses :
          /\ \A m \in Names : addr[m] # a
          /\ addr' = [addr EXCEPT ![n] = a]

(* The session may be lost although its name has been enrolled.            *)
EnrollOnly(n) == Enroll(n) /\ UNCHANGED <<stage, who, known>>

Admit(s, n) ==
  /\ stage[s] = "none"
  /\ Enroll(n)
  /\ stage' = [stage EXCEPT ![s] = "admitted"]
  /\ who' = [who EXCEPT ![s] = n]
  /\ UNCHANGED known

Look(s) ==
  /\ stage[s] = "admitted"
  /\ stage' = [stage EXCEPT ![s] = "looked"]
  /\ known' = [known EXCEPT ![s] = Enrolled \ {who[s]}]
  /\ UNCHANGED <<addr, who>>

Answer(s) ==
  /\ stage[s] = "looked"
  /\ stage' = [stage EXCEPT ![s] = "answered"]
  /\ UNCHANGED <<addr, who, known>>

Drop(S) ==
  /\ \A s \in S : stage[s] \in {"admitted", "looked"}
  /\ stage' = [s \in Sessions |-> IF s \in S THEN "none" ELSE stage[s]]
  /\ who' = [s \in Sessions |-> IF s \in S THEN None ELSE who[s]]
  /\ known' = [s \in Sessions |-> IF s \in S THEN {} ELSE known[s]]
  /\ UNCHANGED addr

RNext ==
  \/ \E n \in Names : EnrollOnly(n)
  \/ \E s \in Sessions, n \in Names : Admit(s, n)
  \/ \E s \in Sessions : Look(s) \/ Answer(s)
  \/ \E S \in SUBSET Sessions : Drop(S)

RSpec == RInit /\ [][RNext]_rvars
-----------------------------------------------------------------------------
RTypeOK ==
  /\ addr \in [Names -> Addresses \cup {None}]
  /\ stage \in [Sessions -> {"none", "admitted", "looked", "answered"}]
  /\ who \in [Sessions -> Names \cup {None}]
  /\ known \in [Sessions -> SUBSET Names]

(* No two names share an address.                                          *)
AddressesDistinct ==
  \A m, n \in Enrolled : addr[m] = addr[n] => m = n

(* Of two names whose sessions have looked, one has seen the other         *)
(* (handleRegister writes the row before it lists the table).              *)
SomeoneKnows ==
  \A s, t \in Sessions :
     /\ stage[s] \in {"looked", "answered"}
     /\ stage[t] \in {"looked", "answered"}
     /\ who[s] # who[t]
     => who[t] \in known[s] \/ who[s] \in known[t]
=============================================================================
