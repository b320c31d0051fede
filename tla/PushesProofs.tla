---------------------------- MODULE PushesProofs ----------------------------
(***************************************************************************)
(* Pushes keeps its types, and Server.mu is held exactly by the goroutine  *)
(* that broadcasts, for any number of connections and any room in a        *)
(* socket.                                                                 *)
(***************************************************************************)
EXTENDS Pushes, TLAPS

(* TypeOK is inductive.                                                    *)
LEMMA TypeInductive == ASSUME TypeOK, [Next]_vars PROVE TypeOK'
<1> USE RoomAssumption, NoneAssumption DEF TypeOK, Stages, Goto, server
<1>1. ASSUME NEW c \in Conns,
             Dial(c) \/ AgentRead(c) \/ Tick(c) \/ WriteBeat(c) \/ Lost(c)
      PROVE  TypeOK'
  BY <1>1 DEF Dial, AgentRead, Tick, WriteBeat, Lost
<1>2. ASSUME NEW c \in Conns, ReadRegister(c) \/ ReadHeartbeat(c) \/ ReadError(c)
      PROVE  TypeOK'
  BY <1>2 DEF ReadRegister, ReadHeartbeat, ReadError
<1>3. ASSUME NEW c \in Conns, Join(c) \/ Leave(c)
      PROVE  TypeOK'
  BY <1>3 DEF Join, Leave
<1>4. ASSUME NEW c \in Conns, Reply(c)
      PROVE  TypeOK'
  BY <1>4 DEF Reply
<1>5. ASSUME NEW c \in Conns, Lock(c) \/ Unlock(c)
      PROVE  TypeOK'
  BY <1>5 DEF Lock, Unlock
<1>6. ASSUME NEW c \in Conns, Push(c) \/ \E d \in Conns : Aim(c, d)
      PROVE  TypeOK'
  BY <1>6 DEF Push, Aim
<1>7. ASSUME NEW c \in Conns, Panic(c)
      PROVE  TypeOK'
  BY <1>7 DEF Panic, Release
<1>8. CASE UNCHANGED vars
  BY <1>8 DEF vars
<1> QED
  BY <1>1, <1>2, <1>3, <1>4, <1>5, <1>6, <1>7, <1>8 DEF Next, Run, Acquire

(* Every variable keeps its type; whoever holds Server.mu is pushing, and  *)
(* nobody else is: also after a panic in a broadcast, whose deferred       *)
(* Unlock runs (broadcastPeerLists).                                       *)
THEOREM Typed == Spec => []TypeOK
<1>1. Init => TypeOK
  BY RoomAssumption, NoneAssumption DEF Init, TypeOK, Stages
<1> QED
  BY <1>1, TypeInductive, PTL DEF Spec
=============================================================================
