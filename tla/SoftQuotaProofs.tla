-------------------------- MODULE SoftQuotaProofs --------------------------
(***************************************************************************)
(* How far a limit that is checked before it is used can be overrun, for   *)
(* any limit and any number of requests.                                   *)
(***************************************************************************)
EXTENDS SoftQuota, FiniteSetTheorems, TLAPS

LEMMA ClearedCount ==
  ASSUME QuotaAssumption, TypeOK
  PROVE  /\ IsFiniteSet(cleared)
         /\ Cardinality(cleared) \in Nat /\ Cardinality(Requests) \in Nat
         /\ Cardinality(cleared) <= Cardinality(Requests)
         /\ Cardinality(Requests) >= 1
<1>1. IsFiniteSet(cleared) /\ Cardinality(cleared) <= Cardinality(Requests)
  BY FS_Subset DEF QuotaAssumption, TypeOK
<1>2. Cardinality(cleared) \in Nat /\ Cardinality(Requests) \in Nat
  BY <1>1, FS_CardinalityType DEF QuotaAssumption
<1>3. Cardinality(Requests) # 0
  BY FS_EmptySet DEF QuotaAssumption
<1> QED
  BY <1>1, <1>2, <1>3

LEMMA StepWithinReach ==
  ASSUME QuotaAssumption, TypeOK, WithinReach, [Next]_vars
  PROVE  TypeOK' /\ WithinReach'
<1>0. /\ IsFiniteSet(cleared)
      /\ Cardinality(cleared) \in Nat /\ Cardinality(Requests) \in Nat
      /\ held \in Nat /\ Limit \in Nat
  BY ClearedCount DEF QuotaAssumption, TypeOK
<1>1. CASE UNCHANGED vars
  BY <1>1 DEF vars, TypeOK, WithinReach
<1>2. ASSUME NEW q \in Requests, Clear(q) PROVE TypeOK' /\ WithinReach'
  \* The one that clears is not among the others, so these leave room for it.
  <2>1. TypeOK'
    BY <1>2 DEF Clear, TypeOK
  <2>2. Cardinality(cleared') <= Cardinality(Requests) /\ Cardinality(cleared') \in Nat
    <3>1. IsFiniteSet(cleared')
      BY <2>1, FS_Subset DEF QuotaAssumption, TypeOK
    <3> QED
      BY <2>1, <3>1, FS_Subset, FS_CardinalityType DEF QuotaAssumption, TypeOK
  <2>3. held' = held /\ held + 1 <= Limit
    BY <1>0, <1>2 DEF Clear, Room
  <2> QED
    BY <1>0, <2>1, <2>2, <2>3 DEF WithinReach
<1>3. ASSUME NEW q \in Requests, Store(q) \/ GiveUp(q) PROVE TypeOK' /\ WithinReach'
  <2>1. TypeOK'
    BY <1>0, <1>3 DEF Store, GiveUp, TypeOK
  <2>2. Cardinality(cleared') = Cardinality(cleared) - 1
    BY <1>0, <1>3, FS_RemoveElement DEF Store, GiveUp
  <2>3. held' <= held + 1 /\ held' \in Nat
    BY <1>0, <1>3 DEF Store, GiveUp
  <2> QED
    BY <1>0, <2>1, <2>2, <2>3 DEF WithinReach
<1>4. CASE Release
  BY <1>0, <1>4 DEF Release, TypeOK, WithinReach
<1> QED
  BY <1>1, <1>2, <1>3, <1>4 DEF Next

\* Checked in one statement and used up in the next (create_report,
\* create_favorite), a limit is overrun by less than the number of requests
\* served at the same time, whatever is deleted or fails in between.
THEOREM LimitNearlyHolds ==
  ASSUME QuotaAssumption
  PROVE  Spec => []NearlyHolds
<1>1. Init => TypeOK /\ WithinReach
  <2> SUFFICES ASSUME Init PROVE TypeOK /\ WithinReach
    OBVIOUS
  <2>1. TypeOK
    BY DEF Init, TypeOK
  <2>2. Cardinality(cleared) = 0
    BY FS_EmptySet DEF Init
  <2> QED
    BY <2>1, <2>2, ClearedCount DEF QuotaAssumption, Init, WithinReach
<1>2. TypeOK /\ WithinReach => NearlyHolds
  BY ClearedCount DEF QuotaAssumption, TypeOK, WithinReach, NearlyHolds
<1> QED
  BY <1>1, <1>2, StepWithinReach, PTL DEF Spec
=============================================================================
