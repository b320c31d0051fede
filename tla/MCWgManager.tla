----------------------------- MODULE MCWgManager -----------------------------
(***************************************************************************)
(* Small instances of WgManager for TLC.                                   *)
(***************************************************************************)
EXTENDS WgManager, TLC

CONSTANTS k1, k2, k3, m1, m2, m3, s1, s2

(* Every subset of the peers of l.                                         *)
SubLists(l) ==
  {[k \in DOMAIN l |-> IF k \in S THEN l[k] ELSE None] : S \in SUBSET DOMAIN l}

(* Two relays advertise the same subnet for ever; the second one has the   *)
(* key k2, or k3 after it lost its key file.                               *)
KeptSubnets ==
  {l \in SubLists(k1 :> {m1, s1} @@ k2 :> {m2, s1} @@ k3 :> {m2, s1}) :
     l[k2] = None \/ l[k3] = None}

(* A relay that advertises one subnet, another, both or none, and a node   *)
(* that replaces another one's key.                                        *)
ChangingRelay ==
  {(k1 :> {m1} \cup S) @@ l : S \in SUBSET {s1, s2},
                               l \in SubLists(k2 :> {m2} @@ k3 :> {m3})}
  \cup {(k1 :> {m1} \cup S) @@ (k2 :> None @@ k3 :> {m2}) : S \in SUBSET {s1, s2}}
=============================================================================
