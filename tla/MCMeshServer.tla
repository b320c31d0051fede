---------------------------- MODULE MCMeshServer ----------------------------
(***************************************************************************)
(* Small instances of MeshServer for TLC.                                  *)
(***************************************************************************)
EXTENDS MeshServerRegistry, TLC

CONSTANTS n1, n2, n3, k1, k2, k3

(* Every agent keeps its key file.                                         *)
StableKeys == n1 :> {k1} @@ n2 :> {k2}

(* The agent of n1 has lost its key file once and generated a new key.     *)
Rekeyed == n1 :> {k1, k3} @@ n2 :> {k2}

(* The node of n2 is called n3 after a while, and keeps its key file.      *)
Renamed == n1 :> {k1} @@ n2 :> {k2} @@ n3 :> {k2}

ConnSymmetry == Permutations(Conns)
=============================================================================
