--------------------------- MODULE WgManagerProofs ---------------------------
(***************************************************************************)
(* The key file, what a Reconcile that reports success has done, and the   *)
(* peers it has nothing to do with, for any peers, subnets, lists, crashes *)
(* and foreign routes.                                                     *)
(***************************************************************************)
EXTENDS WgManager, TLAPS

(* What the variables hold at each stage.                                  *)
StageInv ==
  /\ TypeOK
  /\ stale \subseteq Known /\ todo \subseteq Wanted
  /\ pc \in {"key", "address", "up"} => link # "absent"
  /\ pc # "remove" => stale = {} /\ drop = {}
  /\ pc \notin {"remove", "set"} => todo = {}
  /\ pc # "set" => add = {}
  /\ pc # "idle" => result = "none"

(* The allowed-ips of a listed peer are a set; "not a peer" is none.       *)
LEMMA AllowedIps ==
  ASSUME NEW l \in PeerLists, NEW k \in Keys
  PROVE  /\ l[k] # None => l[k] \subseteq Cidrs
         /\ \A S \in SUBSET Cidrs : S # None
BY NoneAssumption DEF PeerLists

(* The wanted list is a list.                                              *)
LEMMA WantTyped == TypeOK => want \in PeerLists
BY ListsAssumption DEF TypeOK

(* Deaths are counted within their bound.                                  *)
LEMMA CrashCount ==
  /\ 0 \in 0..MaxCrashes
  /\ TypeOK /\ Restart => crashes' \in 0..MaxCrashes
<1>1. MaxCrashes \in Nat
  BY BoundAssumption, Zenon
<1> QED
  BY <1>1 DEF TypeOK, Restart

(* Initially nothing is there and nothing is under way.                    *)
LEMMA StageStarts == Init => StageInv
<1> SUFFICES ASSUME Init PROVE StageInv
  OBVIOUS
<1>1. TypeOK
  <2>1. peers \in PeerLists
    BY DEF Init, PeerLists
  <2>2. Known = {}
    BY DEF Init, Known
  <2>3. crashes \in 0..MaxCrashes
    BY CrashCount DEF Init
  <2> QED
    BY <2>1, <2>2, <2>3 DEF Init, TypeOK, Stages
<1>2. stale = {} /\ todo = {} /\ drop = {} /\ add = {} /\ result = "none" /\ pc = "off"
  BY DEF Init
<1> QED
  BY <1>1, <1>2 DEF StageInv

(* A function that returns its error forgets what it had to do.            *)
LEMMA FailsKeeps ==
  ASSUME StageInv, Fails
  PROVE  StageInv'
BY DEF StageInv, Fails, Return, TypeOK, Stages, Known, Wanted, kernel

(* The steps that leave the interface and its routes alone.                *)
LEMMA QuietSteps ==
  ASSUME StageInv,
         \/ \E l \in Lists : Registered(l) \/ PeerList(l)
         \/ Start \/ ReadPeers \/ Removed \/ Done \/ Crash \/ UNCHANGED vars
  PROVE  StageInv'
<1> USE DEF StageInv
<1>1. ASSUME NEW l \in Lists, Registered(l) \/ PeerList(l) PROVE StageInv'
  BY <1>1 DEF Registered, PeerList, TypeOK, Stages, Known, Wanted, kernel
<1>2. ASSUME Start PROVE StageInv'
  BY <1>2 DEF Start, LoadKey, CreateKey, SaveKey, Starting, TypeOK, Stages, Known, Wanted, kernel
<1>3. ASSUME ReadPeers PROVE StageInv'
  <2>1. CASE Fails
    BY <2>1, FailsKeeps
  <2>2. CASE ~Fails
    BY <1>3, <2>2 DEF ReadPeers, TypeOK, Stages, Known, Wanted, kernel
  <2> QED
    BY <2>1, <2>2
<1>4. ASSUME Removed PROVE StageInv'
  BY <1>4 DEF Removed, Goto, TypeOK, Stages, Known, Wanted, kernel
<1>5. ASSUME Done PROVE StageInv'
  BY <1>5 DEF Done, Return, TypeOK, Stages, Known, Wanted, kernel
<1>6. ASSUME Crash PROVE StageInv'
  BY <1>6, CrashCount DEF Crash, Restart, TypeOK, Stages, Known, Wanted, kernel
<1>7. ASSUME UNCHANGED vars PROVE StageInv'
  BY <1>7 DEF vars, agent, kernel, TypeOK, Stages, Known, Wanted
<1> QED
  BY <1>1, <1>2, <1>3, <1>4, <1>5, <1>6, <1>7

(* The steps that change the interface or its routes.                      *)
LEMMA KernelSteps ==
  ASSUME StageInv,
         \/ Ensure \/ Reboot
         \/ \E k \in Keys : RemovePeer(k) \/ SetPeer(k)
         \/ \E c \in Cidrs : DropRoute(c) \/ AddRoute(c)
  PROVE  StageInv'
<1>0. peers \in PeerLists /\ want \in PeerLists
  BY WantTyped DEF StageInv, TypeOK
<1>1. ASSUME Ensure PROVE StageInv'
  BY <1>1, FailsKeeps DEF StageInv, Ensure, EnsureLink, SetKey, AddAddress, BringUp, Goto, TypeOK,
       Stages, Known, Wanted
<1>2. ASSUME Reboot PROVE StageInv'
  <2>1. peers' \in PeerLists
    BY <1>2 DEF Reboot, PeerLists
  <2>2. Known' = {} /\ Wanted' = Wanted
    BY <1>2 DEF Reboot, Restart, Known, Wanted
  <2>3. crashes' \in 0..MaxCrashes
    BY <1>2, CrashCount DEF Reboot, StageInv
  <2> QED
    BY <1>2, <2>1, <2>2, <2>3 DEF StageInv, Reboot, Restart, TypeOK, Stages
<1>3. ASSUME NEW k \in Keys, RemovePeer(k) PROVE StageInv'
  <2>1. CASE Fails
    BY <2>1, FailsKeeps
  <2>2. CASE ~Fails
    <3>1. peers' \in PeerLists
      BY <1>0, <1>3, <2>2 DEF RemovePeer, PeerLists
    <3>2. Known' = Known \ {k} /\ Wanted' = Wanted
      BY <1>0, <1>3, <2>2 DEF RemovePeer, Known, Wanted, PeerLists
    <3>3. drop' \subseteq Cidrs
      BY <1>0, <1>3, <2>2, AllowedIps DEF RemovePeer, Parsed, StageInv, Known
    <3> QED
      BY <1>3, <2>2, <3>1, <3>2, <3>3 DEF RemovePeer, StageInv, TypeOK, Stages
  <2> QED
    BY <2>1, <2>2
<1>4. ASSUME NEW k \in Keys, SetPeer(k) PROVE StageInv'
  <2>1. CASE Fails
    BY <2>1, FailsKeeps
  <2>2. CASE ~Fails
    <3>0. want[k] \subseteq Cidrs /\ want[k] # None
      BY <1>0, <1>4, AllowedIps DEF StageInv, Wanted, SetPeer
    <3>1. peers' \in PeerLists
      BY <1>0, <1>4, <2>2, <3>0, AllowedIps DEF SetPeer, PeerLists
    <3>2. Known' = Known \cup {k} /\ Wanted' = Wanted
      <4>1. \A j \in Keys : peers[j] # None => peers[j] \ want[k] # None
        BY <1>0, <3>0, AllowedIps
      <4> QED
        BY <1>0, <1>4, <2>2, <3>0, <4>1 DEF SetPeer, Known, Wanted, PeerLists
    <3>3. add' \subseteq Cidrs
      BY <1>4, <2>2, <3>0 DEF SetPeer, ToRoute
    <3> QED
      BY <1>4, <2>2, <3>1, <3>2, <3>3 DEF SetPeer, StageInv, TypeOK, Stages
  <2> QED
    BY <2>1, <2>2
<1>5. ASSUME NEW c \in Cidrs, DropRoute(c) PROVE StageInv'
  BY <1>5 DEF DropRoute, StageInv, TypeOK, Stages, Known, Wanted
<1>6. ASSUME NEW c \in Cidrs, AddRoute(c) PROVE StageInv'
  BY <1>6, FailsKeeps DEF AddRoute, StageInv, TypeOK, Stages, Known, Wanted
<1> QED
  BY <1>1, <1>2, <1>3, <1>4, <1>5, <1>6

(* StageInv always holds.                                                  *)
LEMMA StageInductive == Spec => []StageInv
<1>1. StageInv /\ [Next]_vars => StageInv'
  BY QuietSteps, KernelSteps DEF Next, Reconcile
<1> QED
  BY <1>1, StageStarts, PTL DEF Spec

(* The interface, the kernel's routes and the agent's variables keep their *)
(* types, and nothing is ever set on a missing interface.                  *)
THEOREM Typed == Spec => []TypeOK
<1>1. StageInv => TypeOK
  BY DEF StageInv
<1> QED
  BY <1>1, StageInductive, PTL
-----------------------------------------------------------------------------
(* The key file.                                                           *)

(* Beyond the start the file is whole; before, no message has come.        *)
KeyInv == IF pc \in {"off", "save"} THEN ~joined ELSE keyfile = "whole"

(* A step that is not of the start leaves the file alone, and starts       *)
(* nothing.                                                                *)
LEMMA KeyKept ==
  ASSUME Next
  PROVE  \/ Start
         \/ keyfile' = keyfile /\ pc \notin {"off", "save"} /\ pc' \notin {"off", "save"}
         \/ keyfile' = keyfile /\ pc' = "off" /\ ~joined'
<1>1. ASSUME NEW l \in Lists, Registered(l) \/ PeerList(l)
      PROVE  keyfile' = keyfile /\ pc = "idle" /\ pc' \in {"link", "read"}
  BY <1>1 DEF Registered, PeerList
<1>2. ASSUME Ensure
      PROVE  keyfile' = keyfile /\ pc \notin {"off", "save"} /\ pc' \notin {"off", "save"}
  BY <1>2 DEF Ensure, EnsureLink, SetKey, AddAddress, BringUp, Goto, Fails, Return
<1>3. ASSUME Reconcile
      PROVE  keyfile' = keyfile /\ pc \notin {"off", "save"} /\ pc' \notin {"off", "save"}
  BY <1>3 DEF Reconcile, ReadPeers, Removed, Done, RemovePeer, SetPeer, DropRoute, AddRoute,
              Goto, Fails, Return
<1>4. ASSUME Crash \/ Reboot PROVE keyfile' = keyfile /\ pc' = "off" /\ ~joined'
  BY <1>4 DEF Crash, Reboot, Restart
<1> QED
  BY <1>1, <1>2, <1>3, <1>4 DEF Next

(* The key is on the disk before the control plane hears of it, through    *)
(* all crashes, failed writes and files that could not be read.            *)
THEOREM IdentitySavedThm == Spec => []IdentitySaved
<1>1. Init => KeyInv
  BY DEF Init, KeyInv
<1>2. ASSUME KeyInv, [Next]_vars PROVE KeyInv'
  <2>1. CASE UNCHANGED vars
    BY <1>2, <2>1 DEF KeyInv, vars, agent
  <2>2. CASE Start
    BY <1>2, <2>2 DEF KeyInv, Start, LoadKey, CreateKey, SaveKey, Starting
  <2>3. CASE Next /\ ~Start
    BY <1>2, <2>3, KeyKept DEF KeyInv
  <2> QED
    BY <1>2, <2>1, <2>2, <2>3
<1>3. KeyInv => IdentitySaved
  BY DEF KeyInv, IdentitySaved
<1> QED
  BY <1>1, <1>2, <1>3, PTL DEF Spec
-----------------------------------------------------------------------------
(* A Reconcile that reports success.                                       *)

(* The wanted peers that are set so far.                                   *)
SetSoFar == Wanted \ todo

(* Each address that a peer set so far wants is with one of them, and      *)
(* routed or about to be.                                                  *)
SetInv ==
  /\ SetSoFar \subseteq Known
  /\ \A k \in SetSoFar : /\ peers[k] \subseteq want[k]
                         /\ \A c \in want[k] : /\ c \in routes \cup add
                                               /\ \E j \in SetSoFar : c \in peers[j]

(* Peers that are not wanted are being removed, and then are gone.         *)
OthersInv ==
  /\ pc = "remove" => Known \ Wanted \subseteq stale
  /\ pc = "set" \/ result = "ok" => Known \subseteq Wanted

(* Only OthersInv needs to know that no command fails for no reason.       *)
ReconcileInv ==
  /\ StageInv
  /\ pc = "remove" => todo = Wanted
  /\ pc = "set" => SetInv
  /\ SuccessMeansServing

(* A Reconcile under way has no result yet.                                *)
LEMMA NoResultYet ==
  ASSUME StageInv, pc # "idle"
  PROVE  result # "ok"
BY DEF StageInv

(* A step after which nothing is under way and nothing is claimed.         *)
LEMMA Unclaimed ==
  ASSUME StageInv', pc' \notin {"remove", "set"}, result' # "ok"
  PROVE  ReconcileInv' /\ OthersInv'
BY DEF ReconcileInv, OthersInv, SuccessMeansServing

(* Everything before the first removal, and every death.                   *)
LEMMA OutsideSteps ==
  ASSUME StageInv, StageInv',
         \/ \E l \in Lists : Registered(l) \/ PeerList(l)
         \/ Start \/ Ensure \/ Crash \/ Reboot
  PROVE  ReconcileInv' /\ OthersInv'
<1>1. ASSUME NEW l \in Lists, Registered(l) \/ PeerList(l) PROVE ReconcileInv' /\ OthersInv'
  BY <1>1, Unclaimed DEF Registered, PeerList
<1>2. ASSUME Start PROVE ReconcileInv' /\ OthersInv'
  BY <1>2, Unclaimed, NoResultYet DEF Start, LoadKey, CreateKey, SaveKey, Starting
<1>3. ASSUME Ensure PROVE ReconcileInv' /\ OthersInv'
  BY <1>3, Unclaimed, NoResultYet
  DEF Ensure, EnsureLink, SetKey, AddAddress, BringUp, Goto, Fails, Return
<1>4. ASSUME Crash \/ Reboot PROVE ReconcileInv' /\ OthersInv'
  BY <1>4, Unclaimed DEF Crash, Reboot, Restart
<1> QED
  BY <1>1, <1>2, <1>3, <1>4

(* A Reconcile that fails claims nothing.                                  *)
LEMMA FailsUnclaimed ==
  ASSUME StageInv', Fails
  PROVE  ReconcileInv' /\ OthersInv'
BY Unclaimed DEF Fails, Return

(* Peers are removed, and nobody is set yet.                               *)
LEMMA RemoveSteps ==
  ASSUME ReconcileInv, StageInv',
         \/ ReadPeers \/ Removed
         \/ \E k \in Keys : RemovePeer(k)
         \/ \E c \in Cidrs : DropRoute(c)
  PROVE  ReconcileInv'
<1>0. ASSUME pc' = "remove", todo' = Wanted', result' # "ok" PROVE ReconcileInv'
  BY <1>0 DEF ReconcileInv, SuccessMeansServing
<1>1. ASSUME ReadPeers PROVE ReconcileInv'
  <2>1. CASE Fails
    BY <2>1, FailsUnclaimed
  <2>2. CASE ~Fails
    BY <1>0, <1>1, <2>2, NoResultYet DEF ReadPeers, ReconcileInv, Wanted
  <2> QED
    BY <2>1, <2>2
<1>2. ASSUME Removed PROVE ReconcileInv'
  <2>1. pc' = "set" /\ SetSoFar' = {}
    BY <1>2 DEF Removed, Goto, ReconcileInv, Wanted, SetSoFar
  <2>2. result' # "ok"
    BY <1>2, NoResultYet DEF Removed, Goto, ReconcileInv
  <2> QED
    BY <2>1, <2>2 DEF ReconcileInv, SuccessMeansServing, SetInv
<1>3. ASSUME NEW k \in Keys, RemovePeer(k) PROVE ReconcileInv'
  <2>1. CASE Fails
    BY <2>1, FailsUnclaimed
  <2>2. CASE ~Fails
    BY <1>0, <1>3, <2>2, NoResultYet DEF RemovePeer, ReconcileInv, Wanted
  <2> QED
    BY <2>1, <2>2
<1>4. ASSUME NEW c \in Cidrs, DropRoute(c) PROVE ReconcileInv'
  BY <1>0, <1>4, NoResultYet DEF DropRoute, ReconcileInv, Wanted
<1> QED
  BY <1>1, <1>2, <1>3, <1>4

(* Setting a peer takes its addresses from the others, and they stay with  *)
(* a peer that is set.                                                     *)
LEMMA SetPeerKeeps ==
  ASSUME ReconcileInv, StageInv', NEW k \in Keys, SetPeer(k), ~Fails
  PROVE  ReconcileInv'
<1>1. /\ pc = "set" /\ pc' = "set" /\ k \in todo /\ todo' = todo \ {k} /\ add = {}
      /\ want' = want /\ routes' = routes /\ add' = want[k] /\ result' = result
      /\ peers' = [j \in Keys |-> IF j = k THEN want[k]
                                  ELSE IF peers[j] = None THEN None
                                  ELSE peers[j] \ want[k]]
  BY DEF SetPeer, ToRoute
<1>2. SetInv /\ todo \subseteq Wanted /\ peers \in PeerLists /\ want \in PeerLists
  BY <1>1, WantTyped DEF ReconcileInv, StageInv, TypeOK
<1>3. Wanted' = Wanted /\ k \in Wanted /\ k \notin SetSoFar /\ SetSoFar' = SetSoFar \cup {k}
  BY <1>1, <1>2 DEF SetSoFar, Wanted
<1>4. want[k] # None /\ want[k] \subseteq Cidrs
  BY <1>2, <1>3, AllowedIps DEF Wanted
<1>5. Known' = Known \cup {k}
  <2>1. \A j \in Keys : peers[j] # None => peers[j] \ want[k] # None
    BY <1>2, <1>4, AllowedIps
  <2> QED
    BY <1>1, <1>4, <2>1 DEF Known
<1>6. \A j \in SetSoFar : j \in Keys /\ j # k /\ peers[j] # None /\ peers'[j] = peers[j] \ want[k]
  BY <1>1, <1>2, <1>3 DEF SetInv, Known
<1>7. ASSUME NEW j \in SetSoFar, NEW c \in want[j]
      PROVE  c \in routes' \cup add' /\ \E i \in SetSoFar' : c \in peers'[i]
  <2>1. c \in routes
    BY <1>1, <1>2 DEF SetInv
  <2>2. PICK i \in SetSoFar : c \in peers[i]
    BY <1>2 DEF SetInv
  <2>3. CASE c \in want[k]
    BY <1>1, <1>3, <2>1, <2>3
  <2>4. CASE c \notin want[k]
    BY <1>1, <1>3, <1>6, <2>1, <2>2, <2>4
  <2> QED
    BY <2>3, <2>4
<1>8. \A c \in want[k] : c \in add' /\ c \in peers'[k]
  BY <1>1
<1>9. SetInv'
  <2>1. \A j \in SetSoFar' : peers'[j] \subseteq want[j]
    BY <1>1, <1>2, <1>3, <1>6 DEF SetInv
  <2>2. \A j \in SetSoFar' : \A c \in want[j] :
           c \in routes' \cup add' /\ \E i \in SetSoFar' : c \in peers'[i]
    BY <1>3, <1>7, <1>8
  <2>3. SetSoFar' \subseteq Known'
    BY <1>2, <1>3, <1>5 DEF SetInv
  <2> QED
    BY <1>1, <2>1, <2>2, <2>3 DEF SetInv
<1> QED
  BY <1>1, <1>9, NoResultYet DEF ReconcileInv, SuccessMeansServing

(* A route that is added is one that was about to be.                      *)
LEMMA AddRouteKeeps ==
  ASSUME ReconcileInv, StageInv', NEW c \in Cidrs, AddRoute(c), ~Fails
  PROVE  ReconcileInv'
<1>1. /\ pc = "set" /\ pc' = "set" /\ todo' = todo /\ peers' = peers /\ want' = want
      /\ routes' = routes \cup {c} /\ add' = add \ {c} /\ result' = result
  BY DEF AddRoute
<1>2. SetInv'
  BY <1>1 DEF ReconcileInv, SetInv, SetSoFar, Known, Wanted
<1> QED
  BY <1>1, <1>2, NoResultYet DEF ReconcileInv, SuccessMeansServing

(* All wanted peers are set and all their routes are there.                *)
LEMMA DoneKeeps ==
  ASSUME ReconcileInv, StageInv', Done
  PROVE  ReconcileInv'
<1>1. /\ pc = "set" /\ todo = {} /\ add = {} /\ pc' = "idle"
      /\ peers' = peers /\ routes' = routes /\ want' = want
  BY DEF Done, Return, kernel
<1>2. SetInv /\ SetSoFar = Wanted
  BY <1>1 DEF ReconcileInv, SetSoFar
<1>3. Wanted \subseteq Known /\ \A k \in Wanted : peers[k] \subseteq want[k]
  BY <1>2 DEF SetInv
<1>4. \A c \in AllOf(want) : c \in routes /\ \E k \in Wanted : c \in peers[k]
  BY <1>1, <1>2 DEF SetInv, AllOf, Wanted
<1>5. Serving'
  BY <1>1, <1>3, <1>4 DEF Serving, Known, Wanted, AllOf
<1> QED
  BY <1>1, <1>5 DEF ReconcileInv, SuccessMeansServing

(* ReconcileInv always holds.                                              *)
LEMMA ReconcileInductive == Spec => []ReconcileInv
<1>1. Init => ReconcileInv
  BY StageStarts DEF Init, ReconcileInv, SuccessMeansServing
<1>2. ASSUME ReconcileInv, StageInv', [Next]_vars PROVE ReconcileInv'
  <2>1. CASE UNCHANGED vars
    BY <1>2, <2>1 DEF ReconcileInv, SetInv, SetSoFar, SuccessMeansServing, Serving, AllOf,
                      Known, Wanted, vars, kernel, agent
  <2>2. ASSUME NEW k \in Keys, SetPeer(k) PROVE ReconcileInv'
    BY <1>2, <2>2, SetPeerKeeps, FailsUnclaimed
  <2>3. ASSUME NEW c \in Cidrs, AddRoute(c) PROVE ReconcileInv'
    BY <1>2, <2>3, AddRouteKeeps, FailsUnclaimed
  <2> QED
    BY <1>2, <2>1, <2>2, <2>3, OutsideSteps, RemoveSteps, DoneKeeps DEF Next, Reconcile, ReconcileInv
<1> QED
  BY <1>1, <1>2, StageInductive, PTL DEF Spec

(* A Reconcile that reports success serves every wanted peer with all it   *)
(* wants, whatever the interface held before, and although commands may    *)
(* have failed: wg show in silence, which leaves peers it should remove.   *)
THEOREM SuccessMeansServingThm == Spec => []SuccessMeansServing
<1>1. ReconcileInv => SuccessMeansServing
  BY DEF ReconcileInv
<1> QED
  BY <1>1, ReconcileInductive, PTL
-----------------------------------------------------------------------------
(* Nobody else is left.                                                    *)

(* Steps of a Reconcile.                                                   *)
LEMMA OthersSteps ==
  ASSUME OthersInv, StageInv, StageInv', CmdFaults = FALSE, Reconcile
  PROVE  OthersInv'
<1>1. ASSUME ReadPeers PROVE OthersInv'
  BY <1>1, NoResultYet DEF ReadPeers, OthersInv, Known, Wanted, kernel
<1>2. ASSUME Removed PROVE OthersInv'
  BY <1>2 DEF Removed, Goto, OthersInv, Known, Wanted, kernel
<1>3. ASSUME NEW k \in Keys, RemovePeer(k) PROVE OthersInv'
  <2>1. Known' = Known \ {k} /\ Wanted' = Wanted /\ stale' = stale \ {k}
    BY <1>3 DEF RemovePeer, Known, Wanted, StageInv, TypeOK, PeerLists
  <2> QED
    BY <1>3, <2>1, NoResultYet DEF RemovePeer, OthersInv
<1>4. ASSUME NEW c \in Cidrs, DropRoute(c) PROVE OthersInv'
  BY <1>4, NoResultYet DEF DropRoute, OthersInv, Known, Wanted
<1>5. ASSUME NEW k \in Keys, SetPeer(k) PROVE OthersInv'
  <2>1. CASE Fails
    BY <2>1, FailsUnclaimed
  <2>2. CASE ~Fails
    <3>1. Wanted' = Wanted /\ Known' \subseteq Known \cup {k} /\ k \in Wanted
      BY <1>5, <2>2 DEF SetPeer, StageInv, Known, Wanted
    <3> QED
      BY <1>5, <2>2, <3>1 DEF SetPeer, OthersInv
  <2> QED
    BY <2>1, <2>2
<1>6. ASSUME NEW c \in Cidrs, AddRoute(c) PROVE OthersInv'
  <2>1. CASE Fails
    BY <2>1, FailsUnclaimed
  <2>2. CASE ~Fails
    BY <1>6, <2>2 DEF AddRoute, OthersInv, Known, Wanted
  <2> QED
    BY <2>1, <2>2
<1>7. ASSUME Done PROVE OthersInv'
  BY <1>7 DEF Done, Return, OthersInv, Known, Wanted, kernel
<1> QED
  BY <1>1, <1>2, <1>3, <1>4, <1>5, <1>6, <1>7 DEF Reconcile

(* OthersInv always holds when no command fails without a reason; a wg     *)
(* show that does is taken for an empty interface.                         *)
LEMMA OthersInductive ==
  ASSUME CmdFaults = FALSE
  PROVE  Spec => []OthersInv
<1>1. Init => OthersInv
  BY DEF Init, OthersInv
<1>2. ASSUME OthersInv, StageInv, StageInv', [Next]_vars PROVE OthersInv'
  <2>1. CASE UNCHANGED vars
    BY <1>2, <2>1 DEF OthersInv, Known, Wanted, vars, kernel, agent
  <2> QED
    BY <1>2, <2>1, OutsideSteps, OthersSteps DEF Next
<1> QED
  BY <1>1, <1>2, StageInductive, PTL DEF Spec

(* A Reconcile that reports success has configured every wanted peer and   *)
(* no other, and routed all they want, whatever the interface held before, *)
(* provided that no command fails without a reason.                        *)
THEOREM SuccessMeansEstablishedThm ==
  ASSUME CmdFaults = FALSE
  PROVE  Spec => []SuccessMeansEstablished
<1>1. ReconcileInv /\ OthersInv => SuccessMeansEstablished
  BY DEF ReconcileInv, OthersInv, SuccessMeansServing, SuccessMeansEstablished, Established, Serving
<1> QED
  BY <1>1, ReconcileInductive, OthersInductive, PTL
-----------------------------------------------------------------------------
(* The routes of what was removed.                                         *)

(* Every list gives a peer that it has the allowed-ips F.                  *)
Keeps(F) ==
  /\ F \in [Keys -> SUBSET Cidrs]
  /\ \A l \in Lists : \A k \in Keys : l[k] # None => l[k] = F[k]

(* While no crash has intervened, a route belongs to a peer or is about to *)
(* be deleted.                                                             *)
RouteInv(F) ==
  /\ \A k \in Keys : peers[k] # None => peers[k] \subseteq F[k]
  /\ add \subseteq AllOf(peers)
  /\ crashes = 0 => routes \subseteq AllOf(peers) \cup drop

(* The addresses of all peers.                                             *)
LEMMA AllOfAll ==
  ASSUME NEW l, NEW c
  PROVE  c \in AllOf(l) <=> \E k \in Keys : l[k] # None /\ c \in l[k]
BY DEF AllOf

(* A step that keeps the peers and what is to be deleted, and adds no      *)
(* route.                                                                  *)
LEMMA RouteKept ==
  ASSUME NEW F, RouteInv(F), peers' = peers, drop' = drop, routes' = routes,
         add' \subseteq add, crashes' = crashes
  PROVE  RouteInv(F)'
BY DEF RouteInv, AllOf

(* A command that fails returns with nothing left to delete.               *)
LEMMA RouteFails ==
  ASSUME NEW F, StageInv, RouteInv(F), Fails, drop = {}
  PROVE  RouteInv(F)'
BY RouteKept DEF Fails, Return, kernel, StageInv

(* Reconcile: what a peer loses is deleted, and what it gains it has.      *)
LEMMA RouteSteps ==
  ASSUME NEW F, Keeps(F), StageInv, RouteInv(F), CmdFaults = FALSE,
         Reconcile
  PROVE  RouteInv(F)'
<1>0. peers \in PeerLists /\ want \in PeerLists /\ want \in Lists
  BY WantTyped DEF StageInv, TypeOK
<1>1. ASSUME ReadPeers \/ Removed \/ Done PROVE RouteInv(F)'
  BY <1>1, RouteKept DEF ReadPeers, Removed, Done, Goto, Return, kernel, StageInv
<1>2. ASSUME NEW k \in Keys, RemovePeer(k) PROVE RouteInv(F)'
  <2>1. /\ peers' = [peers EXCEPT ![k] = None] /\ drop' = peers[k] /\ drop = {}
        /\ routes' = routes /\ add' = add /\ crashes' = crashes /\ add = {}
    BY <1>2 DEF RemovePeer, Parsed, StageInv
  <2>2. \A j \in Keys : peers'[j] = IF j = k THEN None ELSE peers[j]
    BY <1>0, <2>1 DEF PeerLists
  <2>3. AllOf(peers) \subseteq AllOf(peers') \cup drop'
    BY <2>1, <2>2, AllOfAll
  <2>4. \A j \in Keys : peers'[j] # None => peers'[j] \subseteq F[j]
    BY <2>2 DEF RouteInv
  <2>5. crashes' = 0 => routes' \subseteq AllOf(peers') \cup drop'
    BY <2>1, <2>3 DEF RouteInv
  <2> QED
    BY <2>1, <2>4, <2>5 DEF RouteInv, AllOf
<1>3. ASSUME NEW k \in Keys, SetPeer(k) PROVE RouteInv(F)'
  <2>1. CASE Fails
    BY <1>3, <2>1, RouteFails DEF SetPeer, StageInv
  <2>2. CASE ~Fails
    <3>1. /\ k \in Wanted /\ drop' = drop /\ routes' = routes /\ add' = want[k]
          /\ crashes' = crashes
          /\ peers' = [j \in Keys |-> IF j = k THEN want[k]
                                      ELSE IF peers[j] = None THEN None
                                      ELSE peers[j] \ want[k]]
      BY <1>3, <2>2 DEF SetPeer, ToRoute, StageInv
    <3>2. want[k] # None /\ want[k] = F[k] /\ want[k] \subseteq Cidrs
      BY <1>0, <3>1, AllowedIps DEF Wanted, Keeps
    <3>3. /\ peers'[k] = F[k]
          /\ \A j \in Keys \ {k} : peers[j] # None =>
               peers'[j] # None /\ peers'[j] = peers[j] \ F[k]
          /\ \A j \in Keys \ {k} : peers[j] = None => peers'[j] = None
      <4>1. \A j \in Keys : peers[j] # None => peers[j] \ want[k] # None
        BY <1>0, <3>2, AllowedIps
      <4> QED
        BY <3>1, <3>2, <4>1
    <3>4. ASSUME NEW c \in AllOf(peers) PROVE c \in AllOf(peers')
      <4>1. PICK j \in Keys : peers[j] # None /\ c \in peers[j]
        BY AllOfAll
      <4>2. CASE c \in F[k]
        BY <3>2, <3>3, <4>2, AllOfAll
      <4>3. CASE c \notin F[k]
        <5>1. j # k
          BY <4>1, <4>3 DEF RouteInv
        <5> QED
          BY <3>3, <4>1, <4>3, <5>1, AllOfAll
      <4> QED
        BY <4>2, <4>3
    <3>5. \A j \in Keys : peers'[j] # None => peers'[j] \subseteq F[j]
      BY <3>3 DEF RouteInv
    <3>6. add' \subseteq AllOf(peers')
      BY <3>1, <3>2, <3>3, AllOfAll
    <3>7. crashes' = 0 => routes' \subseteq AllOf(peers') \cup drop'
      BY <3>1, <3>4 DEF RouteInv
    <3> QED
      BY <3>5, <3>6, <3>7, Zenon DEF RouteInv, AllOf
  <2> QED
    BY <2>1, <2>2
<1>4. ASSUME NEW c \in Cidrs, DropRoute(c) PROVE RouteInv(F)'
  BY <1>4 DEF DropRoute, RouteInv, AllOf
<1>5. ASSUME NEW c \in Cidrs, AddRoute(c) PROVE RouteInv(F)'
  <2>1. CASE Fails
    BY <1>5, <2>1, RouteFails DEF AddRoute, StageInv
  <2>2. CASE ~Fails
    BY <1>5, <2>2 DEF AddRoute, NextRoute, RouteInv, AllOf
  <2> QED
    BY <2>1, <2>2
<1> QED
  BY <1>1, <1>2, <1>3, <1>4, <1>5 DEF Reconcile

(* What happens outside Reconcile leaves routes and peers alone, unless it *)
(* is a crash.                                                             *)
LEMMA RouteOthers ==
  ASSUME NEW F, StageInv, RouteInv(F),
         \/ \E l \in Lists : Registered(l) \/ PeerList(l)
         \/ Start \/ Ensure \/ Crash \/ Reboot
  PROVE  RouteInv(F)'
<1>1. ASSUME NEW l \in Lists, Registered(l) \/ PeerList(l) PROVE RouteInv(F)'
  BY <1>1, RouteKept DEF Registered, PeerList, kernel
<1>2. ASSUME Start PROVE RouteInv(F)'
  BY <1>2, RouteKept DEF Start, LoadKey, CreateKey, SaveKey, Starting, kernel
<1>3. ASSUME Ensure PROVE RouteInv(F)'
  BY <1>3, RouteKept, RouteFails
  DEF Ensure, EnsureLink, SetKey, AddAddress, BringUp, Goto, StageInv
<1>4. ASSUME Crash \/ Reboot PROVE RouteInv(F)'
  <2>1. crashes' # 0 /\ add' = {}
    <3>1. crashes \in 0..MaxCrashes /\ MaxCrashes \in Nat
      BY BoundAssumption, Zenon DEF StageInv, TypeOK
    <3> QED
      BY <1>4, <3>1 DEF Crash, Reboot, Restart
  <2>2. \A k \in Keys : peers'[k] # None => peers'[k] \subseteq F[k]
    BY <1>4 DEF Crash, Reboot, RouteInv, kernel
  <2> QED
    BY <2>1, <2>2 DEF RouteInv, AllOf
<1> QED
  BY <1>1, <1>2, <1>3, <1>4

(* Peers that keep their allowed-ips leave no route behind, as long as no  *)
(* crash intervenes and no command fails without a reason.                 *)
THEOREM NoRouteLeftThm ==
  ASSUME CmdFaults = FALSE, NEW F, Keeps(F)
  PROVE  Spec => []NoRouteLeft
<1>1. Init => RouteInv(F)
  BY DEF Init, RouteInv
<1>2. ASSUME StageInv, RouteInv(F), [Next]_vars PROVE RouteInv(F)'
  <2>1. CASE UNCHANGED vars
    BY <1>2, <2>1, RouteKept DEF vars, kernel, agent
  <2> QED
    BY <1>2, <2>1, RouteSteps, RouteOthers DEF Next
<1>3. StageInv /\ SuccessMeansEstablished /\ RouteInv(F) => NoRouteLeft
  <2> SUFFICES ASSUME StageInv, SuccessMeansEstablished, RouteInv(F), result = "ok", crashes = 0
               PROVE  routes = AllOf(want)
    BY DEF NoRouteLeft
  <2>1. Established /\ drop = {}
    BY NoResultYet DEF SuccessMeansEstablished, StageInv
  <2>2. routes \subseteq AllOf(peers)
    BY <2>1 DEF RouteInv
  <2>3. AllOf(peers) \subseteq AllOf(want)
    BY <2>1 DEF Established, Serving, AllOf, Known, Wanted
  <2>4. AllOf(want) \subseteq routes
    BY <2>1 DEF Established, Serving
  <2> QED
    BY <2>2, <2>3, <2>4
<1> QED
  BY <1>1, <1>2, <1>3, StageInductive, SuccessMeansEstablishedThm, PTL DEF Spec
-----------------------------------------------------------------------------
(* Peers that are listed as before.                                        *)

(* An address belongs to one peer, a route that is being deleted to none,  *)
(* and nobody who is wanted is being removed.                              *)
OwnersInv ==
  /\ \A j, l \in Keys : j # l /\ peers[j] # None /\ peers[l] # None => peers[j] \cap peers[l] = {}
  /\ \A j \in Keys : peers[j] # None => peers[j] \cap drop = {}
  /\ pc = "remove" => stale \cap Wanted = {}

(* Steps that leave the peers alone and add nothing to what is deleted.    *)
LEMMA OwnersKept ==
  ASSUME OwnersInv, peers' = peers, drop' \subseteq drop,
         pc' = "remove" => stale' \cap Wanted' = {}
  PROVE  OwnersInv'
BY DEF OwnersInv

(* A command that failed ends the Reconcile.                               *)
LEMMA FailsOwners ==
  ASSUME StageInv, OwnersInv, Fails
  PROVE  OwnersInv'
BY OwnersKept DEF Fails, Return, kernel

(* Every step keeps the owners apart: the kernel takes an address from one *)
(* peer when it gives it to another.                                       *)
LEMMA OwnersSteps ==
  ASSUME StageInv, OwnersInv, Next
  PROVE  OwnersInv'
<1>0. peers \in PeerLists /\ want \in PeerLists
  BY WantTyped DEF StageInv, TypeOK
<1>1. ASSUME NEW l \in Lists, Registered(l) \/ PeerList(l) PROVE OwnersInv'
  BY <1>1, OwnersKept DEF Registered, PeerList, kernel
<1>2. ASSUME Start PROVE OwnersInv'
  BY <1>2, OwnersKept DEF Start, LoadKey, CreateKey, SaveKey, Starting, kernel
<1>3. ASSUME Ensure PROVE OwnersInv'
  <2>1. CASE Fails
    BY <2>1, FailsOwners
  <2>2. CASE ~Fails
    BY <1>3, <2>2, OwnersKept DEF Ensure, EnsureLink, SetKey, AddAddress, BringUp, Goto
  <2> QED
    BY <2>1, <2>2
<1>4. ASSUME Crash PROVE OwnersInv'
  BY <1>4, OwnersKept DEF Crash, Restart, kernel
<1>5. ASSUME Reboot PROVE OwnersInv'
  BY <1>5 DEF Reboot, Restart, OwnersInv
<1>6. ASSUME ReadPeers PROVE OwnersInv'
  <2>1. CASE Fails
    BY <2>1, FailsOwners
  <2>2. CASE ~Fails
    BY <1>6, <2>2, OwnersKept DEF ReadPeers, kernel, Wanted
  <2> QED
    BY <2>1, <2>2
<1>7. ASSUME Removed \/ Done PROVE OwnersInv'
  BY <1>7, OwnersKept DEF Removed, Done, Goto, Return, kernel
<1>8. ASSUME NEW k \in Keys, RemovePeer(k) PROVE OwnersInv'
  <2>1. CASE Fails
    BY <2>1, FailsOwners
  <2>2. CASE ~Fails
    <3>1. /\ pc = "remove" /\ k \in stale /\ peers[k] # None
          /\ peers' = [peers EXCEPT ![k] = None] /\ drop' = peers[k]
          /\ stale' = stale \ {k} /\ want' = want
      BY <1>8, <2>2 DEF RemovePeer, Parsed, StageInv, Known
    <3>2. \A j \in Keys : peers'[j] # None => j # k /\ peers'[j] = peers[j]
      BY <1>0, <3>1 DEF PeerLists
    <3>3. stale' \cap Wanted' = {}
      BY <3>1 DEF OwnersInv, Wanted
    <3> QED
      BY <3>1, <3>2, <3>3 DEF OwnersInv
  <2> QED
    BY <2>1, <2>2
<1>9. ASSUME NEW c \in Cidrs, DropRoute(c) PROVE OwnersInv'
  BY <1>9, OwnersKept DEF DropRoute, OwnersInv, Wanted
<1>10. ASSUME NEW k \in Keys, SetPeer(k) PROVE OwnersInv'
  <2>1. CASE Fails
    BY <2>1, FailsOwners
  <2>2. CASE ~Fails
    <3>1. /\ pc = "set" /\ pc' = "set" /\ drop = {} /\ drop' = {}
          /\ peers' = [j \in Keys |-> IF j = k THEN want[k]
                                      ELSE IF peers[j] = None THEN None
                                      ELSE peers[j] \ want[k]]
      BY <1>10, <2>2 DEF SetPeer, StageInv
    <3>2. ASSUME NEW j \in Keys, NEW l \in Keys, j # l, peers'[j] # None, peers'[l] # None
          PROVE  peers'[j] \cap peers'[l] = {}
      <4>1. \A i \in Keys : i # k /\ peers'[i] # None =>
               peers[i] # None /\ peers'[i] = peers[i] \ want[k]
        BY <3>1
      <4>2. peers'[k] = want[k]
        BY <3>1
      <4>3. CASE j # k /\ l # k
        BY <3>2, <4>1, <4>3 DEF OwnersInv
      <4>4. CASE j = k \/ l = k
        BY <3>2, <4>1, <4>2, <4>4
      <4> QED
        BY <4>3, <4>4
    <3> QED
      BY <3>1, <3>2 DEF OwnersInv
  <2> QED
    BY <2>1, <2>2
<1>11. ASSUME NEW c \in Cidrs, AddRoute(c) PROVE OwnersInv'
  <2>1. CASE Fails
    BY <2>1, FailsOwners
  <2>2. CASE ~Fails
    BY <1>11, <2>2, OwnersKept DEF AddRoute
  <2> QED
    BY <2>1, <2>2
<1> QED
  BY <1>1, <1>2, <1>3, <1>4, <1>5, <1>6, <1>7, <1>8, <1>9, <1>10, <1>11 DEF Next, Reconcile

(* OwnersInv always holds.                                                 *)
LEMMA OwnersInductive == Spec => []OwnersInv
<1>1. Init => OwnersInv
  BY DEF Init, OwnersInv
<1>2. StageInv /\ OwnersInv /\ [Next]_vars => OwnersInv'
  <2>1. OwnersInv /\ UNCHANGED vars => OwnersInv'
    BY DEF OwnersInv, Wanted, vars, kernel, agent
  <2> QED
    BY <2>1, OwnersSteps
<1> QED
  BY <1>1, <1>2, StageInductive, PTL DEF Spec

(* One step of anybody leaves k as it is listed.                           *)
LEMMA StepLeaves ==
  ASSUME StageInv, OwnersInv, [Next]_vars, NEW k \in Keys,
         Intact(k), want'[k] = want[k], Apart(k, want), link' # "absent"
  PROVE  Intact(k)'
<1>0. /\ peers \in PeerLists /\ want \in PeerLists /\ want[k] # None /\ peers[k] = want[k]
      /\ want[k] \subseteq routes
  BY WantTyped DEF StageInv, TypeOK, Intact, Wanted
<1> SUFFICES peers'[k] = peers[k] /\ want[k] \subseteq routes'
  BY <1>0 DEF Intact, Wanted
<1>1. CASE peers' = peers /\ routes' = routes
  BY <1>0, <1>1
<1>2. CASE UNCHANGED vars
  BY <1>1, <1>2 DEF vars, kernel
<1>3. ASSUME NEW l \in Lists, Registered(l) \/ PeerList(l) PROVE UNCHANGED kernel
  BY <1>3 DEF Registered, PeerList
<1>4. ASSUME Start \/ Crash \/ ReadPeers \/ Removed \/ Done PROVE UNCHANGED kernel
  BY <1>4 DEF Start, LoadKey, CreateKey, SaveKey, Starting, Crash, ReadPeers, Removed, Done, Fails
<1>5. ASSUME Ensure PROVE peers' = peers /\ routes' = routes
  BY <1>5 DEF Ensure, EnsureLink, SetKey, AddAddress, BringUp, Fails, kernel
<1>6. ~Reboot
  BY DEF Reboot
<1>7. ASSUME NEW j \in Keys, RemovePeer(j)
      PROVE  peers'[k] = peers[k] /\ want[k] \subseteq routes'
  <2>1. CASE Fails
    BY <1>1, <2>1 DEF Fails, kernel
  <2>2. CASE ~Fails
    <3>1. /\ pc = "remove" /\ j \in stale /\ routes' = routes
          /\ peers' = [peers EXCEPT ![j] = None]
      BY <1>7, <2>2 DEF RemovePeer
    <3>2. j # k
      BY <1>0, <3>1 DEF OwnersInv, Wanted
    <3> QED
      BY <1>0, <3>1, <3>2 DEF PeerLists
  <2> QED
    BY <2>1, <2>2
<1>8. ASSUME NEW c \in Cidrs, DropRoute(c)
      PROVE  peers'[k] = peers[k] /\ want[k] \subseteq routes'
  <2>1. c \in drop /\ peers' = peers /\ routes' \in {routes, routes \ {c}}
    BY <1>8 DEF DropRoute
  <2>2. c \notin peers[k]
    BY <1>0, <2>1 DEF OwnersInv
  <2> QED
    BY <1>0, <2>1, <2>2
<1>9. ASSUME NEW j \in Keys, SetPeer(j)
      PROVE  peers'[k] = peers[k] /\ want[k] \subseteq routes'
  <2>1. CASE Fails
    BY <1>1, <2>1 DEF Fails, kernel
  <2>2. CASE ~Fails
    <3>1. /\ routes' = routes /\ want[j] # None
          /\ peers' = [i \in Keys |-> IF i = j THEN want[j]
                                      ELSE IF peers[i] = None THEN None
                                      ELSE peers[i] \ want[j]]
      BY <1>9, <2>2 DEF SetPeer, StageInv, Wanted
    <3>2. CASE j = k
      BY <1>0, <3>1, <3>2
    <3>3. CASE j # k
      <4>1. want[j] \cap want[k] = {}
        BY <1>0, <3>1, <3>3 DEF Apart
      <4>2. want[k] \ want[j] = want[k]
        BY <4>1
      <4> QED
        BY <1>0, <3>1, <3>3, <4>2
    <3> QED
      BY <3>2, <3>3
  <2> QED
    BY <2>1, <2>2
<1>10. ASSUME NEW c \in Cidrs, AddRoute(c)
       PROVE  peers'[k] = peers[k] /\ want[k] \subseteq routes'
  <2>1. peers' = peers /\ routes \subseteq routes'
    BY <1>10 DEF AddRoute, Fails, kernel
  <2> QED
    BY <1>0, <2>1
<1> QED
  BY <1>1, <1>2, <1>3, <1>4, <1>5, <1>6, <1>7, <1>8, <1>9, <1>10 DEF Next, Reconcile, kernel

(* A peer that is listed as before is not disturbed, for any lists, with   *)
(* any crashes and failing commands.  That nobody is about to get its      *)
(* addresses in the end is enough.                                         *)
THEOREM UndisturbedThm == Spec => Undisturbed
<1>1. StageInv /\ OwnersInv /\ [Next]_vars =>
        [\A k \in Keys :
           /\ Intact(k) /\ want'[k] = want[k]
           /\ Apart(k, peers) /\ Apart(k, want) /\ Apart(k, want')
           /\ link' # "absent"
           => Intact(k)']_vars
  BY StepLeaves
<1> QED
  BY <1>1, StageInductive, OwnersInductive, PTL DEF Spec, Undisturbed
=============================================================================
