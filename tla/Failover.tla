------------------------------ MODULE Failover ------------------------------
(***************************************************************************)
(* Whether a TCP or UDP resource is served by its primary: the control     *)
(* plane compares the age of the primary's last_seen with                  *)
(* primaryFreshness (selectMasterBackupTarget), and the primary's agent    *)
(* keeps it young by registering on every connection and by a heartbeat    *)
(* each Interval (wsclient.go).  Time is discrete; it does not pass while  *)
(* something is due.                                                       *)
(***************************************************************************)
EXTENDS Integers

CONSTANTS
  Interval,    \* HeartbeatInterval
  Fresh,       \* primaryFreshness
  Backoff,     \* the first delay before the agent dials again
  MaxBackoff,  \* and the longest
  MaxDial,     \* HandshakeTimeout of DefaultDialer: a dial takes no longer
  MaxDelay,    \* bound: from writing a message to the end of its handler
  MaxMissed,   \* bound: messages in a row whose handler could not write last_seen
  MaxLosses    \* bound: losses of the connection between two updates of last_seen

ASSUME IntervalAssumption == Interval \in Nat \ {0} /\ Fresh \in Nat
ASSUME DelayAssumption == MaxDelay \in Nat /\ MaxDelay < Interval /\ MaxDelay < Backoff
ASSUME DialAssumption == MaxDial \in Nat
ASSUME BackoffAssumption == Backoff \in Nat /\ MaxBackoff \in Nat /\ Backoff <= MaxBackoff
ASSUME BoundAssumption == MaxMissed \in Nat /\ MaxLosses \in Nat

VARIABLES
  age,      \* time since last_seen was written; no more than Fresh + 1
  known,    \* last_seen has been written at all
  link,     \* the agent's connection: "down", "dialing", "up", or "mute": without heartbeats
  clock,    \* time to the next dial, to the dial's timeout or to the next heartbeat
  backoff,  \* the delay after the next loss
  msg,      \* the message under way: "none", "register" or "heartbeat"
  due,      \* time by which it has been handled
  missed,   \* since last_seen was written: messages handled in vain,
  losses,   \* connections lost or not established,
  waited    \* time to dial again, dialling and mute, in all; no more than Fresh + 1

server == <<age, known>>
since  == <<missed, losses, waited>>
vars   == <<server, link, clock, backoff, msg, due, since>>

Least(a, b) == IF a <= b THEN a ELSE b

Init ==
  /\ age = Fresh + 1 /\ known = FALSE
  /\ link = "down" /\ clock = 0 /\ backoff = Backoff
  /\ msg = "none" /\ due = 0
  /\ missed = 0 /\ losses = 0 /\ waited = 0

(* The time t is spent without heartbeats.                                 *)
Wait(t) == waited' = Least(waited + t, Fresh + 1)

(* A second passes, when nothing has to happen before.  Nothing has to on  *)
(* a connection without heartbeats: its death may be noticed at any time.  *)
Tick ==
  /\ link # "mute" => clock > 0
  /\ msg # "none" => due > 0
  /\ age' = Least(age + 1, Fresh + 1)
  /\ clock' = IF link = "mute" THEN clock ELSE clock - 1
  /\ due' = IF msg = "none" THEN due ELSE due - 1
  /\ Wait(IF link \in {"dialing", "mute"} THEN 1 ELSE 0)
  /\ UNCHANGED <<known, link, backoff, msg, missed, losses>>
-----------------------------------------------------------------------------
(* The agent (Run, connectOnce, heartbeatLoop).                            *)

Write(m) == msg' = m /\ due' = MaxDelay

(* A slip of the back-off: the delay is not capped.                        *)
Uncapped ==
  /\ losses < MaxLosses
  /\ link' = "down"
  /\ clock' = backoff
  /\ backoff' = 2 * backoff
  /\ losses' = losses + 1
  /\ Wait(backoff)

(* The agent waits for the current delay and doubles the next one.  The    *)
(* delay is never reset.                                                   *)
BackOff ==
  /\ losses < MaxLosses
  /\ link' = "down"
  /\ clock' = backoff
  /\ backoff' = Least(2 * backoff, MaxBackoff)
  /\ losses' = losses + 1
  /\ Wait(backoff)

(* connectOnce starts to dial: connecting and the handshake take time.     *)
StartDial ==
  /\ link = "down" /\ clock = 0
  /\ link' = "dialing"
  /\ clock' = MaxDial
  /\ UNCHANGED <<server, backoff, msg, due, since>>

(* The connection is there: connectOnce registers and starts the ticker.   *)
Dial ==
  /\ link = "dialing"
  /\ link' = "up"
  /\ Write("register")
  /\ clock' = Interval
  /\ UNCHANGED <<server, backoff, since>>

(* The dial fails or times out, or registering on the connection does.     *)
DialFails ==
  /\ link = "dialing"
  /\ BackOff
  /\ UNCHANGED <<server, msg, due, missed>>

Heartbeat ==
  /\ link = "up" /\ clock = 0 /\ msg = "none"
  /\ Write("heartbeat")
  /\ clock' = Interval
  /\ UNCHANGED <<server, link, backoff, since>>

(* Writing it fails: heartbeatLoop returns, and connectOnce reads on.      *)
HeartbeatFails ==
  /\ link = "up" /\ clock = 0 /\ msg = "none"
  /\ link' = "mute"
  /\ UNCHANGED <<server, clock, backoff, msg, due, since>>

(* The connection breaks, and the reader notices; the message under way    *)
(* arrives or is lost.                                                     *)
Lose ==
  /\ link \in {"up", "mute"}
  /\ BackOff
  /\ \/ UNCHANGED <<msg, due>>
     \/ msg # "none" /\ msg' = "none" /\ due' = 0
  /\ UNCHANGED <<server, missed>>
-----------------------------------------------------------------------------
(* The control plane (handleRegister, handleHeartbeat).                    *)

(* A late message may be handled when the agent already waits to dial.     *)
Seen ==
  /\ age' = 0 /\ known' = TRUE
  /\ missed' = 0
  /\ losses' = IF link = "up" THEN 0 ELSE 1
  /\ waited' = IF link = "up" THEN 0 ELSE Least(clock, Fresh + 1)

(* Slips: only one of the two handlers writes last_seen.                   *)
RegisterUnseen  == IF msg = "register"  THEN UNCHANGED <<server, since>> ELSE Seen
HeartbeatUnseen == IF msg = "heartbeat" THEN UNCHANGED <<server, since>> ELSE Seen

(* UpsertNode and TouchLastSeen set last_seen to now().                    *)
Touch == Seen

Handle ==
  /\ msg # "none"
  /\ msg' = "none" /\ due' = 0
  /\ \/ Touch
     \/ /\ missed < MaxMissed
        /\ missed' = missed + 1
        /\ UNCHANGED <<server, losses, waited>>
  /\ UNCHANGED <<link, clock, backoff>>

Next ==
  \/ Tick
  \/ StartDial \/ Dial \/ DialFails
  \/ Heartbeat \/ HeartbeatFails \/ Lose
  \/ Handle

Spec == Init /\ [][Next]_vars

(* Time passes, and what is due happens.                                   *)
LiveSpec == Spec /\ WF_vars(Next)

(* selectMasterBackupTarget, for a primary that is a mesh node.            *)
PrimaryChosen == known /\ age <= Fresh
-----------------------------------------------------------------------------
(* Every variable keeps its type.                                          *)
TypeOK ==
  /\ age \in 0..(Fresh + 1) /\ known \in BOOLEAN
  /\ link \in {"down", "dialing", "up", "mute"}
  /\ clock \in Nat
  /\ link = "down" => clock <= MaxBackoff
  /\ link = "dialing" => clock <= MaxDial
  /\ link = "up" => clock <= Interval
  /\ link = "mute" => clock = 0
  /\ backoff \in Backoff..MaxBackoff
  /\ msg \in {"none", "register", "heartbeat"} /\ due \in 0..MaxDelay
  /\ missed \in 0..MaxMissed /\ losses \in 0..MaxLosses /\ waited \in 0..(Fresh + 1)

(* The time that what went wrong since last_seen was written accounts for: *)
(* the next heartbeat and another one for each missed one, the time spent  *)
(* on delays, on dials and on connections without heartbeats, and the time *)
(* each message took.                                                      *)
Budget == (missed + 1) * Interval + waited + (losses + 1) * MaxDelay

(* As long as that is within primaryFreshness the primary is served by:    *)
(* losses of the connection, dials that hang and updates that fail, as     *)
(* they come together, do not make it flap (primaryFreshness is "3x the    *)
(* agent's default 15s heartbeat interval").                               *)
StaysPrimary == known /\ Budget <= Fresh => PrimaryChosen

(* A primary that is connected and seen again and again is served by again *)
(* in the end, whatever happened to it before.                             *)
Returns == <>[](link = "up" /\ missed = 0) => <>[]PrimaryChosen

(* What the comment of primaryFreshness says: it tolerates "a couple of    *)
(* missed beats without flapping".                                         *)
CoupleTolerated == known /\ losses = 0 /\ waited = 0 /\ missed <= 2 => PrimaryChosen
=============================================================================
