--------------------------- MODULE FailoverProofs ---------------------------
(***************************************************************************)
(* For every interval, freshness, back-off and delay: the age of last_seen *)
(* never exceeds the time that what went wrong since accounts for.         *)
(***************************************************************************)
EXTENDS Failover, TLAPS

(* The two timers never contradict each other: a message is handled before *)
(* the next one is written, and before the agent dials again.              *)
Timers ==
  /\ link = "up" /\ msg # "none" => clock = Interval - MaxDelay + due
  /\ link = "down" /\ waited <= Fresh => clock <= waited
  /\ link = "down" /\ msg # "none" => due < clock /\ 1 <= MaxLosses
  /\ link \in {"dialing", "mute"} => msg = "none"

(* What went wrong so far, without what is still under way.                *)
Spent == missed * Interval + waited + losses * MaxDelay

(* The age, by what the agent is doing: waiting for its ticker, for the    *)
(* handler of what it wrote, for its next attempt to dial, or without any  *)
(* heartbeats, in time that is counted as it passes.                       *)
Accounted ==
  /\ link = "up" /\ msg = "none" => age <= Spent + Interval - clock
  /\ link = "up" /\ msg # "none" => age <= Spent + Interval + MaxDelay - due
  /\ link = "down" => age <= Spent + Interval - clock
  /\ link \in {"dialing", "mute"} => age <= Spent + Interval

(* More than Fresh is not told apart, and not claimed anything about.      *)
Account == known /\ waited <= Fresh => Accounted

IInv == TypeOK /\ Timers /\ Account
-----------------------------------------------------------------------------
(* Adding one to a factor (the missed beats and losses of Budget).         *)
LEMMA Times ==
  ASSUME NEW a \in Nat, NEW b \in Nat
  PROVE  a * b \in Nat /\ (a + 1) * b = a * b + b /\ 0 * b = 0 /\ 1 * b = b
  OBVIOUS

(* The amounts in Spent are numbers, and grow as they should.              *)
LEMMA Amounts ==
  ASSUME TypeOK
  PROVE  /\ missed * Interval \in Nat /\ losses * MaxDelay \in Nat /\ waited \in Nat
         /\ (missed + 1) * Interval = missed * Interval + Interval
         /\ (losses + 1) * MaxDelay = losses * MaxDelay + MaxDelay
         /\ 0 * Interval = 0 /\ 0 * MaxDelay = 0 /\ 1 * MaxDelay = MaxDelay
  <1>1. missed \in Nat /\ losses \in Nat /\ waited \in Nat
    BY BoundAssumption DEF TypeOK
  <1> QED
    BY <1>1, Times, IntervalAssumption, DelayAssumption

(* The agent waits before its first attempt (Run).                         *)
LEMMA Start == Init => IInv
  <1> SUFFICES ASSUME Init PROVE IInv
    OBVIOUS
  <1> USE IntervalAssumption, DelayAssumption, DialAssumption, BackoffAssumption, BoundAssumption
      DEF Init
  <1>1. known \in BOOLEAN /\ ~known
    OBVIOUS
  <1>2. TypeOK
    BY <1>1 DEF TypeOK
  <1>3. Timers
    BY DEF Timers
  <1> QED
    BY <1>1, <1>2, <1>3 DEF IInv, Account

(* Time spent without heartbeats is counted, as far as it is told apart.   *)
LEMMA Waits ==
  ASSUME waited \in 0..(Fresh + 1), NEW t \in Nat, Wait(t)
  PROVE  /\ waited' \in 0..(Fresh + 1)
         /\ waited' <= Fresh => waited <= Fresh /\ waited' = waited + t
  BY IntervalAssumption DEF Wait, Least

(* A second passes on every timer that runs.                               *)
LEMMA TickKeeps == IInv /\ Tick => IInv'
  <1> SUFFICES ASSUME IInv, Tick PROVE IInv'
    OBVIOUS
  <1> USE IntervalAssumption, DelayAssumption, DialAssumption, BackoffAssumption, BoundAssumption
  <1> DEFINE t == IF link \in {"dialing", "mute"} THEN 1 ELSE 0
  <1>1. t \in Nat /\ Wait(t)
    BY DEF Tick
  <1> HIDE DEF t
  <1>2. /\ waited' \in 0..(Fresh + 1)
        /\ waited' <= Fresh => waited <= Fresh /\ waited' = waited + t
    BY <1>1, Waits DEF IInv, TypeOK
  <1>3. TypeOK'
    BY <1>2 DEF IInv, TypeOK, Timers, Tick, Least
  <1>4. Timers'
    BY <1>2 DEF IInv, TypeOK, Timers, Tick, t
  <1>5. waited' <= Fresh => Spent' = Spent + t /\ Spent \in Nat
    BY <1>1, <1>2, Amounts DEF IInv, Spent, Tick
  <1>6. age \in Nat /\ age' <= age + 1
    BY DEF IInv, TypeOK, Tick, Least
  <1>7. Account'
    BY <1>2, <1>3, <1>5, <1>6 DEF IInv, TypeOK, Timers, Account, Accounted, Tick, t
  <1> QED
    BY <1>3, <1>4, <1>7 DEF IInv

(* Starting to dial takes nothing: the delay is over.                      *)
LEMMA StartDialKeeps == IInv /\ StartDial => IInv'
  <1> SUFFICES ASSUME IInv, StartDial PROVE IInv'
    OBVIOUS
  <1> USE IntervalAssumption, DelayAssumption, DialAssumption, BackoffAssumption, BoundAssumption
  <1>1. TypeOK'
    BY DEF IInv, TypeOK, StartDial, server, since
  <1>2. Timers'
    BY DEF IInv, TypeOK, Timers, StartDial, since
  <1>3. Spent' = Spent /\ Spent \in Nat
    BY Amounts DEF IInv, Spent, StartDial, since
  <1>4. Account'
    BY <1>3 DEF IInv, TypeOK, Account, Accounted, StartDial, server, since
  <1> QED
    BY <1>1, <1>2, <1>4 DEF IInv

(* A connection starts with its registration and a new interval.           *)
LEMMA DialKeeps == IInv /\ Dial => IInv'
  <1> SUFFICES ASSUME IInv, Dial PROVE IInv'
    OBVIOUS
  <1> USE IntervalAssumption, DelayAssumption, DialAssumption, BackoffAssumption, BoundAssumption
  <1>1. TypeOK'
    BY DEF IInv, TypeOK, Dial, Write, server, since
  <1>2. Timers'
    BY DEF IInv, TypeOK, Timers, Dial, Write, since
  <1>3. Spent' = Spent /\ Spent \in Nat
    BY Amounts DEF IInv, Spent, Dial, since
  <1>4. Account'
    BY <1>3 DEF IInv, TypeOK, Timers, Account, Accounted, Dial, Write, server, since
  <1> QED
    BY <1>1, <1>2, <1>4 DEF IInv

(* The ticker's next interval starts when a heartbeat is written.          *)
LEMMA HeartbeatKeeps == IInv /\ Heartbeat => IInv'
  <1> SUFFICES ASSUME IInv, Heartbeat PROVE IInv'
    OBVIOUS
  <1> USE IntervalAssumption, DelayAssumption, DialAssumption, BackoffAssumption, BoundAssumption
  <1>1. TypeOK'
    BY DEF IInv, TypeOK, Heartbeat, Write, server, since
  <1>2. Timers'
    BY DEF IInv, TypeOK, Timers, Heartbeat, Write, since
  <1>3. Spent' = Spent /\ Spent \in Nat
    BY Amounts DEF IInv, Spent, Heartbeat, since
  <1>4. Account'
    BY <1>3 DEF IInv, TypeOK, Timers, Account, Accounted, Heartbeat, Write, server, since
  <1> QED
    BY <1>1, <1>2, <1>4 DEF IInv

(* The heartbeat that could not be written was due: the interval is over.  *)
LEMMA HeartbeatFailsKeeps == IInv /\ HeartbeatFails => IInv'
  <1> SUFFICES ASSUME IInv, HeartbeatFails PROVE IInv'
    OBVIOUS
  <1> USE IntervalAssumption, DelayAssumption, DialAssumption, BackoffAssumption, BoundAssumption
  <1>1. TypeOK'
    BY DEF IInv, TypeOK, HeartbeatFails, server, since
  <1>2. Timers'
    BY DEF IInv, TypeOK, Timers, HeartbeatFails, since
  <1>3. Spent' = Spent /\ Spent \in Nat
    BY Amounts DEF IInv, Spent, HeartbeatFails, since
  <1>4. Account'
    BY <1>3 DEF IInv, TypeOK, Account, Accounted, HeartbeatFails, server, since
  <1> QED
    BY <1>1, <1>2, <1>4 DEF IInv

(* What becomes of the message under way when the agent backs off.         *)
Leaves ==
  \/ link \in {"up", "mute"} /\ UNCHANGED <<msg, due>>
  \/ link \in {"up", "mute"} /\ msg' = "none" /\ due' = 0
  \/ link = "dialing" /\ UNCHANGED <<msg, due>>

(* A lost connection: the delay it starts is in waited, and the time       *)
(* of a message that died with it is in losses.                            *)
LEMMA BackOffKeeps ==
  ASSUME IInv, BackOff, UNCHANGED <<server, missed>>, Leaves
  PROVE  IInv'
  <1> USE IntervalAssumption, DelayAssumption, DialAssumption, BackoffAssumption, BoundAssumption
  <1>1. /\ waited' \in 0..(Fresh + 1)
        /\ waited' <= Fresh => waited <= Fresh /\ waited' = waited + backoff
    <2>1. Wait(backoff) /\ backoff \in Nat /\ waited \in 0..(Fresh + 1)
      BY DEF IInv, TypeOK, BackOff
    <2> QED
      BY <2>1, Waits
  <1>2. TypeOK'
    BY <1>1 DEF IInv, TypeOK, BackOff, Leaves, Least, server
  <1>3. Timers'
    BY <1>1 DEF IInv, TypeOK, Timers, BackOff, Leaves, server
  <1>4. waited' <= Fresh => Spent \in Nat /\ Spent' = Spent + backoff + MaxDelay
    <2>1. missed' = missed /\ losses' = losses + 1 /\ backoff \in Nat
      BY DEF IInv, TypeOK, BackOff
    <2> QED
      BY <1>1, <2>1, Amounts DEF IInv, Spent
  <1>5. Account'
    BY <1>1, <1>4 DEF IInv, TypeOK, Timers, Account, Accounted, BackOff, Leaves, server
  <1> QED
    BY <1>2, <1>3, <1>5 DEF IInv

(* Dialling failed: the time it took is in waited already.                 *)
LEMMA DialFailsKeeps == IInv /\ DialFails => IInv'
  <1> SUFFICES ASSUME IInv, DialFails PROVE IInv'
    OBVIOUS
  <1>1. BackOff /\ UNCHANGED <<server, missed>> /\ Leaves
    BY DEF DialFails, Leaves, server
  <1> QED
    BY <1>1, BackOffKeeps

(* An established connection breaks, with or without a message under way.  *)
LEMMA LoseKeeps == IInv /\ Lose => IInv'
  <1> SUFFICES ASSUME IInv, Lose PROVE IInv'
    OBVIOUS
  <1>1. BackOff /\ UNCHANGED <<server, missed>> /\ Leaves
    BY DEF Lose, Leaves, server
  <1> QED
    BY <1>1, BackOffKeeps

(* A handler writes last_seen, or could not and the beat is missed.  The   *)
(* message that it handled was within MaxDelay of being written.           *)
LEMMA HandleKeeps == IInv /\ Handle => IInv'
  <1> SUFFICES ASSUME IInv, Handle PROVE IInv'
    OBVIOUS
  <1> USE IntervalAssumption, DelayAssumption, DialAssumption, BackoffAssumption, BoundAssumption
  <1>1. CASE Touch
    <2>1. TypeOK'
      BY <1>1 DEF IInv, TypeOK, Timers, Handle, Touch, Seen, Least
    <2>2. Timers'
      BY <1>1 DEF IInv, TypeOK, Timers, Handle, Touch, Seen, Least
    <2>3. link \in {"up", "down"}
      BY DEF IInv, TypeOK, Timers, Handle
    <2>4. /\ link = "up" => Spent' = 0
          /\ link = "down" /\ waited' <= Fresh => Spent' = clock + MaxDelay
      BY <1>1, Amounts DEF IInv, TypeOK, Spent, Touch, Seen, Least
    <2>5. Account'
      BY <1>1, <2>3, <2>4 DEF IInv, TypeOK, Timers, Account, Accounted, Handle, Touch, Seen
    <2> QED
      BY <2>1, <2>2, <2>5 DEF IInv
  <1>2. CASE missed < MaxMissed /\ missed' = missed + 1 /\ UNCHANGED <<server, losses, waited>>
    <2>1. TypeOK'
      BY <1>2 DEF IInv, TypeOK, Handle, server
    <2>2. Timers'
      BY <1>2 DEF IInv, TypeOK, Timers, Handle, server
    <2>3. Spent \in Nat /\ Spent' = Spent + Interval
      BY <1>2, Amounts DEF IInv, Spent
    <2>4. Account'
      BY <1>2, <2>3 DEF IInv, TypeOK, Timers, Account, Accounted, Handle, server
    <2> QED
      BY <2>1, <2>2, <2>4 DEF IInv
  <1> QED
    BY <1>1, <1>2 DEF Handle

(* The age of last_seen is accounted for in every state.                   *)
LEMMA Invariant == Spec => []IInv
  <1>1. IInv /\ [Next]_vars => IInv'
    <2> SUFFICES ASSUME IInv, [Next]_vars PROVE IInv'
      OBVIOUS
    <2>1. CASE UNCHANGED vars
      BY <2>1 DEF IInv, TypeOK, Timers, Account, Accounted, Spent, vars, server, since
    <2> QED
      BY <2>1, TickKeeps, StartDialKeeps, DialKeeps, DialFailsKeeps, HeartbeatKeeps,
         HeartbeatFailsKeeps, LoseKeeps, HandleKeeps
      DEF Next
  <1> QED
    BY Start, <1>1, PTL DEF Spec

(* Every variable keeps its type, for all intervals, delays and bounds.    *)
THEOREM Typed == Spec => []TypeOK
  <1>1. IInv => TypeOK
    BY DEF IInv
  <1> QED
    BY Invariant, <1>1, PTL

(* The primary is served by as long as what went wrong accounts for no     *)
(* more than primaryFreshness (selectMasterBackupTarget), whatever the     *)
(* heartbeat interval, the delays of the back-off and the freshness are.   *)
THEOREM StaysPrimaryThm == Spec => []StaysPrimary
  <1>1. IInv => StaysPrimary
    <2> SUFFICES ASSUME IInv, known, Budget <= Fresh PROVE age <= Fresh
      BY DEF StaysPrimary, PrimaryChosen
    <2> USE IntervalAssumption, DelayAssumption
    <2>1. Spent \in Nat /\ Budget = Spent + Interval + MaxDelay
      BY Amounts DEF IInv, Spent, Budget
    <2>2. waited <= Fresh
      BY <2>1, Amounts DEF IInv, Spent
    <2>3. age <= Spent + Interval + MaxDelay
      BY <2>1, <2>2 DEF IInv, TypeOK, Account, Accounted
    <2> QED
      BY <2>1, <2>3 DEF IInv, TypeOK
  <1> QED
    BY Invariant, <1>1, PTL
=============================================================================
