---------------------------- MODULE MCAllocation ----------------------------
(***************************************************************************)
(* Small instances of Allocation for TLC: octets of two bits.              *)
(***************************************************************************)
EXTENDS Allocation, FiniteSets

(* Every network of up to eight addresses, and the one of all addresses.   *)
SmallMeshes ==
  {n \in Network : n.size[1] = 1 /\ n.size[2] = 1 /\ n.size[3] < 4}
  \cup {n \in Network : n.size[1] = 4}

(* In a small network, any of its addresses; in a large one, those up to   *)
(* some address, but for one, as nodes that come one by one leave them.    *)
Some(n) ==
  LET all == {a \in Address : Contains(n, a)}
      upTo(a) == {b \in all : b = a \/ b \prec a}
  IN  IF Cardinality(all) < 10
      THEN SUBSET all
      ELSE {upTo(a) \ {b} : a \in {c \in all : c[4] = 3}, b \in {Zeros, [Zeros EXCEPT ![2] = 1]}}
=============================================================================
