------------------------- MODULE MeshRegistryProofs -------------------------
(***************************************************************************)
(* The promises of MeshRegistry hold for any number of names, addresses    *)
(* and sessions.                                                           *)
(***************************************************************************)
EXTENDS MeshRegistry, TLAPS

(* The variables of the registry keep their types.                         *)
LEMMA RegistryTyped == RSpec => []RTypeOK
<1>1. RInit => RTypeOK
  BY DEF RInit, RTypeOK
<1>2. RTypeOK /\ [RNext]_rvars => RTypeOK'
  <2> SUFFICES ASSUME RTypeOK, [RNext]_rvars
               PROVE  RTypeOK'
    OBVIOUS
  <2> USE DEF RTypeOK
  <2>1. ASSUME NEW n \in Names, Enroll(n)
        PROVE  addr' \in [Names -> Addresses \cup {None}]
    BY <2>1 DEF Enroll
  <2>2. ASSUME NEW n \in Names, EnrollOnly(n)
        PROVE  RTypeOK'
    BY <2>1, <2>2 DEF EnrollOnly
  <2>3. ASSUME NEW s \in Sessions, NEW n \in Names, Admit(s, n)
        PROVE  RTypeOK'
    BY <2>1, <2>3 DEF Admit
  <2>4. ASSUME NEW s \in Sessions, Look(s)
        PROVE  RTypeOK'
    BY <2>4 DEF Look, Enrolled
  <2>5. ASSUME NEW s \in Sessions, Answer(s)
        PROVE  RTypeOK'
    BY <2>5 DEF Answer
  <2>6. ASSUME NEW S \in SUBSET Sessions, Drop(S)
        PROVE  RTypeOK'
    BY <2>6 DEF Drop
  <2>7. CASE UNCHANGED rvars
    BY <2>7 DEF rvars
  <2> QED
    BY <2>2, <2>3, <2>4, <2>5, <2>6, <2>7 DEF RNext
<1> QED
  BY <1>1, <1>2, PTL DEF RSpec

(* No two names ever have the same address: Enroll gives out free ones and *)
(* nothing is taken back (UpsertNode under the UNIQUE constraints).        *)
THEOREM RegistryDistinct == RSpec => []AddressesDistinct
<1>1. RInit => AddressesDistinct
  BY DEF RInit, AddressesDistinct, Enrolled
<1>2. RTypeOK /\ AddressesDistinct /\ [RNext]_rvars => AddressesDistinct'
  <2> SUFFICES ASSUME RTypeOK, AddressesDistinct, [RNext]_rvars
               PROVE  AddressesDistinct'
    OBVIOUS
  <2> USE DEF RTypeOK, AddressesDistinct, Enrolled
  <2>1. ASSUME NEW n \in Names, Enroll(n)
        PROVE  AddressesDistinct'
    BY <2>1 DEF Enroll
  <2>2. CASE UNCHANGED addr
    BY <2>2
  <2> QED
    BY <2>1, <2>2 DEF RNext, EnrollOnly, Admit, Look, Answer, Drop, rvars
<1> QED
  BY <1>1, <1>2, RegistryTyped, PTL DEF RSpec

(* A session that is under way belongs to an enrolled name.                *)
SessionsEnrolled ==
  \A s \in Sessions : stage[s] # "none" => who[s] \in Enrolled

(* Whoever looks has been enrolled before, and stays so.                   *)
LEMMA RegistryEnrolled ==
  ASSUME NoneApart
  PROVE  RSpec => []SessionsEnrolled
<1>1. RInit => SessionsEnrolled
  BY DEF RInit, SessionsEnrolled
<1>2. RTypeOK /\ SessionsEnrolled /\ [RNext]_rvars => SessionsEnrolled'
  <2> SUFFICES ASSUME RTypeOK, SessionsEnrolled, [RNext]_rvars
               PROVE  SessionsEnrolled'
    OBVIOUS
  <2> USE DEF RTypeOK, SessionsEnrolled, Enrolled
  <2>1. ASSUME NEW n \in Names, Enroll(n)
        PROVE  Enrolled \subseteq Enrolled' /\ n \in Enrolled'
    BY <2>1, NoneApart DEF NoneApart, Enroll
  <2>2. ASSUME NEW n \in Names, EnrollOnly(n)
        PROVE  SessionsEnrolled'
    BY <2>1, <2>2 DEF EnrollOnly
  <2>3. ASSUME NEW s \in Sessions, NEW n \in Names, Admit(s, n)
        PROVE  SessionsEnrolled'
    BY <2>1, <2>3 DEF Admit
  <2>4. ASSUME NEW s \in Sessions, Look(s) \/ Answer(s)
        PROVE  SessionsEnrolled'
    BY <2>4 DEF Look, Answer
  <2>5. ASSUME NEW S \in SUBSET Sessions, Drop(S)
        PROVE  SessionsEnrolled'
    BY <2>5 DEF Drop
  <2>6. CASE UNCHANGED rvars
    BY <2>6 DEF rvars
  <2> QED
    BY <2>2, <2>3, <2>4, <2>5, <2>6 DEF RNext
<1> QED
  BY <1>1, <1>2, RegistryTyped, PTL DEF RSpec

(* Of two names whose sessions have looked, one has seen the other.  The   *)
(* later one to look finds the earlier one enrolled.                       *)
THEOREM RegistryDiscovery ==
  ASSUME NoneApart
  PROVE  RSpec => []SomeoneKnows
<1>1. RInit => SomeoneKnows
  BY DEF RInit, SomeoneKnows
<1>2. RTypeOK /\ SessionsEnrolled /\ SomeoneKnows /\ [RNext]_rvars => SomeoneKnows'
  <2> SUFFICES ASSUME RTypeOK, SessionsEnrolled, SomeoneKnows, [RNext]_rvars
               PROVE  SomeoneKnows'
    OBVIOUS
  <2> USE DEF RTypeOK, SomeoneKnows
  <2>1. ASSUME NEW n \in Names, EnrollOnly(n)
        PROVE  SomeoneKnows'
    BY <2>1 DEF EnrollOnly
  <2>2. ASSUME NEW s \in Sessions, NEW n \in Names, Admit(s, n)
        PROVE  SomeoneKnows'
    BY <2>2 DEF Admit
  <2>3. ASSUME NEW s \in Sessions, Look(s)
        PROVE  SomeoneKnows'
    <3>1. ASSUME NEW t \in Sessions, t # s, stage[t] \in {"looked", "answered"},
                 who[s] # who[t]
          PROVE  who[t] \in known'[s]
      BY <2>3, <3>1 DEF Look, SessionsEnrolled
    <3> QED
      BY <2>3, <3>1 DEF Look
  <2>4. ASSUME NEW s \in Sessions, Answer(s)
        PROVE  SomeoneKnows'
    BY <2>4 DEF Answer
  <2>5. ASSUME NEW S \in SUBSET Sessions, Drop(S)
        PROVE  SomeoneKnows'
    BY <2>5 DEF Drop
  <2>6. CASE UNCHANGED rvars
    BY <2>6 DEF rvars
  <2> QED
    BY <2>1, <2>2, <2>3, <2>4, <2>5, <2>6 DEF RNext
<1> QED
  BY <1>1, <1>2, RegistryTyped, RegistryEnrolled, PTL DEF RSpec
=============================================================================
