---------------------------- MODULE MCResources ----------------------------
(***************************************************************************)
(* Small instances of Resources for TLC.                                   *)
(***************************************************************************)
EXTENDS Resources, TLC

CONSTANTS n1, i1, i2

IPs == n1 :> i1

OnNode(role)    == [address |-> None, node |-> n1, role |-> role]
External(role)  == [address |-> i2, node |-> None, role |-> role]

Tcp(ts) == [domain |-> None, protocol |-> "tcp", rest |-> "a", targets |-> ts]

(* A primary and a backup, two primaries, a role that the table refuses,   *)
(* and a load-balanced pool of two ports of a node.                        *)
SomeRequests ==
  {Tcp(<<OnNode("primary"), External("backup")>>),
   Tcp(<<OnNode("primary"), External("")>>),
   Tcp(<<External("other")>>),
   [domain |-> "d", protocol |-> "http", rest |-> "b",
    targets |-> <<OnNode(""), OnNode("")>>]}

SomeWizardTargets == {<<External("primary")>>}

NamePair == <<"t", "u">>
=============================================================================
