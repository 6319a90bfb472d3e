----------------------- MODULE UpstreamRequestProofs -----------------------
(***************************************************************************)
(* The throttle of app/core/http.py for any number of tasks, permits,      *)
(* attempts and cancellations, and any interval.                           *)
(***************************************************************************)
EXTENDS UpstreamRequest, FiniteSetTheorems, TLAPS

Places == {"idle", "queued", "locked", "pacing", "sent", "backoff"}
AtLock == {"locked", "pacing"}

(***************************************************************************)
(* Moving from place to place                                              *)
(***************************************************************************)

\* What a move leaves of the state of every task.
LEMMA Moved ==
  ASSUME TypeOK, NEW c \in Callers, NEW place \in Places, Move(c, place)
  PROVE  /\ pc' \in [Callers -> Places] /\ ahead' \in [Callers -> SUBSET Callers]
         /\ pc'[c] = place /\ ahead'[c] = Behind(place)
         /\ \A d \in Callers \ {c} : pc'[d] = pc[d] /\ ahead'[d] = ahead[d] \ {c}
<1>1. Behind(place) \subseteq Callers
  BY DEF Behind
<1> QED
  BY <1>1 DEF Move, TypeOK, Places

\* A move keeps the queue for the lock in line.
LEMMA MoveKeepsLined ==
  ASSUME TypeOK, Lined, NEW c \in Callers, NEW place \in Places \ {"pacing"},
         Move(c, place), pc[c] # place, place = "locked" => pc[c] # "pacing",
         \A d \in Callers \ {c} : pc[d] = "pacing" => wait'[d] + since' >= MinInterval
  PROVE  Lined'
<1>1. c \notin Behind(place)
  BY DEF Behind
<1>2. \A d \in Callers : d \notin ahead'[d]
  BY <1>1, Moved DEF Lined
<1>3. ASSUME NEW d \in Callers, NEW e \in Callers, d # e, pc'[d] \in AtLock, pc'[e] \in AtLock
      PROVE  d \in ahead'[e] \/ e \in ahead'[d]
  <2>1. CASE d # c /\ e # c
    BY <1>3, <2>1, Moved DEF Lined, AtLock
  <2>2. CASE d = c \/ e = c
    <3>1. place = "locked"
      BY <1>3, <2>2, Moved DEF AtLock
    <3>2. ahead'[c] = {f \in Callers : pc[f] \in AtLock}
      BY <3>1, Moved DEF Behind, AtLock
    <3>3. ASSUME NEW f \in Callers \ {c}, pc'[f] \in AtLock PROVE f \in ahead'[c]
      BY <3>2, <3>3, Moved
    <3> QED
      BY <1>3, <2>2, <3>3
  <2> QED
    BY <2>1, <2>2
<1>4. \A d \in Callers : pc'[d] = "pacing" => ahead'[d] = {} /\ wait'[d] + since' >= MinInterval
  BY Moved DEF Lined
<1> QED
  BY <1>2, <1>3, <1>4 DEF Lined, AtLock

\* Whoever has the lock is the only one that may be asleep with it.
LEMMA LockIsExclusive ==
  ASSUME Lined, NEW c \in Callers, pc[c] \in AtLock, ahead[c] = {}
  PROVE  \A d \in Callers \ {c} : pc[d] # "pacing"
BY DEF Lined, AtLock

(***************************************************************************)
(* Counting permits                                                        *)
(***************************************************************************)

LEMMA HoldingCount ==
  /\ IsFiniteSet(Holding) /\ Cardinality(Holding) \in Nat
  /\ IsFiniteSet(Holding') /\ Cardinality(Holding') \in Nat
<1>1. Holding \subseteq Callers /\ Holding' \subseteq Callers
  BY DEF Holding
<1> QED
  BY <1>1, FS_Subset, FS_CardinalityType, UpstreamAssumption

\* A move between places with a permit, or between places without.
LEMMA MoveKeepsCount ==
  ASSUME TypeOK, NEW c \in Callers, NEW place \in Places, Move(c, place),
         (pc[c] \in {"locked", "pacing", "sent"}) <=> (place \in {"locked", "pacing", "sent"})
  PROVE  Cardinality(Holding') = Cardinality(Holding)
<1>1. Holding' = Holding
  BY Moved DEF Holding
<1> QED
  BY <1>1

LEMMA MoveTakesPermit ==
  ASSUME TypeOK, NEW c \in Callers, NEW place \in {"locked", "sent"}, Move(c, place),
         pc[c] \notin {"locked", "pacing", "sent"}
  PROVE  Cardinality(Holding') = Cardinality(Holding) + 1
<1>1. Holding' = Holding \cup {c} /\ c \notin Holding
  BY Moved DEF Holding, Places
<1> QED
  BY <1>1, HoldingCount, FS_AddElement

LEMMA MoveReturnsPermit ==
  ASSUME TypeOK, NEW c \in Callers, NEW place \in {"idle", "backoff"}, Move(c, place),
         pc[c] \in {"locked", "pacing", "sent"}
  PROVE  Cardinality(Holding') = Cardinality(Holding) - 1
<1>1. Holding' = Holding \ {c} /\ c \in Holding
  BY Moved DEF Holding, Places
<1> QED
  BY <1>1, HoldingCount, FS_RemoveElement

(***************************************************************************)
(* The inductive invariant                                                 *)
(***************************************************************************)

LEMMA InitInv == Init => GateInv
<1> SUFFICES ASSUME Init PROVE GateInv
  OBVIOUS
<1>1. TypeOK /\ Lined
  BY UpstreamAssumption DEF Init, TypeOK, Lined
<1>2. Holding = {}
  BY DEF Init, Holding
<1> QED
  BY <1>1, <1>2, FS_EmptySet, UpstreamAssumption
     DEF Init, GateInv, AttemptLeft, PermitsAccounted

LEMMA CallKeepsInv ==
  ASSUME GateInv, NEW c \in Callers, Call(c) \/ Retry(c)
  PROVE  GateInv'
<1> USE DEF GateInv, Call, Retry
<1>0. /\ Move(c, "queued") /\ pc[c] \in {"idle", "backoff"} /\ "queued" \in Places \ {"pacing"}
      /\ UNCHANGED <<last, wait, permits, since, lost, cancels>>
  BY DEF Places
<1>1. attempt' \in [Callers -> 0..Retries]
  \* The last attempt does not back off.
  BY UpstreamAssumption DEF TypeOK, AttemptLeft
<1>2. TypeOK'
  BY <1>0, <1>1, Moved DEF TypeOK, Places
<1>3. Lined'
  BY <1>0, MoveKeepsLined DEF Lined
<1>4. AttemptLeft'
  BY <1>0, Moved DEF AttemptLeft, TypeOK
<1>5. PermitsAccounted'
  BY <1>0, MoveKeepsCount DEF PermitsAccounted
<1> QED
  BY <1>2, <1>3, <1>4, <1>5

LEMMA AdmitKeepsInv ==
  ASSUME GateInv, NEW c \in Callers, Admit(c)
  PROVE  GateInv'
<1> USE DEF GateInv
<1> DEFINE place == IF MinInterval > 0 THEN "locked" ELSE "sent"
<1>0. /\ Move(c, place) /\ pc[c] = "queued" /\ place \in {"locked", "sent"}
      /\ place \in Places \ {"pacing"}
      /\ permits' = permits - 1 /\ permits > 0
      /\ UNCHANGED <<attempt, last, wait, since, lost, cancels>>
  BY DEF Admit, Places
<1> HIDE DEF place
<1>1. TypeOK'
  BY <1>0, Moved, UpstreamAssumption DEF TypeOK, Places
<1>2. Lined'
  BY <1>0, MoveKeepsLined DEF Lined
<1>3. AttemptLeft'
  BY <1>0, Moved DEF AttemptLeft, TypeOK
<1>4. PermitsAccounted'
  BY <1>0, MoveTakesPermit, HoldingCount, UpstreamAssumption DEF PermitsAccounted, TypeOK
<1> QED
  BY <1>1, <1>2, <1>3, <1>4

\* Sending resets the time, which nobody else is asleep for.
LEMMA SendKeepsInv ==
  ASSUME GateInv, NEW c \in Callers, pc[c] \in AtLock, ahead[c] = {},
         Move(c, "sent"), since' = 0,
         UNCHANGED <<attempt, last, wait, permits, lost, cancels>>
  PROVE  GateInv'
<1> USE DEF GateInv
<1>0. "sent" \in Places \ {"pacing"} /\ pc[c] # "sent"
  BY DEF Places, AtLock
<1>1. TypeOK'
  BY <1>0, Moved, UpstreamAssumption DEF TypeOK, Places
<1>2. Lined'
  BY <1>0, LockIsExclusive, MoveKeepsLined DEF Lined
<1>3. AttemptLeft'
  BY <1>0, Moved DEF AttemptLeft, TypeOK
<1>4. PermitsAccounted'
  BY <1>0, MoveKeepsCount DEF PermitsAccounted, AtLock
<1> QED
  BY <1>1, <1>2, <1>3, <1>4

LEMMA PaceKeepsInv ==
  ASSUME GateInv, NEW c \in Callers, Pace(c)
  PROVE  GateInv'
<1> USE DEF GateInv
<1>0. pc[c] = "locked" /\ ahead[c] = {}
  BY DEF Pace, HasLock
<1>1. CASE Delay > 0
  <2>1. /\ pc' = [pc EXCEPT ![c] = "pacing"]
        /\ wait' = [wait EXCEPT ![c] = MinInterval - since]
        /\ UNCHANGED <<attempt, last, ahead, permits, since, lost, cancels>>
    BY <1>1 DEF Pace, Delay
  <2>2. TypeOK'
    BY <1>1, <2>1, UpstreamAssumption DEF TypeOK, Delay
  <2>3. Lined'
    BY <1>0, <2>1, UpstreamAssumption DEF Lined, TypeOK
  <2>4. Holding' = Holding
    BY <1>0, <2>1 DEF Holding, TypeOK
  <2> QED
    BY <2>1, <2>2, <2>3, <2>4 DEF AttemptLeft, PermitsAccounted, TypeOK
<1>2. CASE ~(Delay > 0)
  BY <1>0, <1>2, SendKeepsInv DEF Pace, AtLock
<1> QED
  BY <1>1, <1>2

LEMMA RespondKeepsInv ==
  ASSUME GateInv, NEW c \in Callers, NEW reply \in Replies, Respond(c, reply)
  PROVE  GateInv'
<1> USE DEF GateInv
<1> DEFINE place == IF TriesAgain(c, reply) THEN "backoff" ELSE "idle"
<1>0. /\ Move(c, place) /\ pc[c] = "sent" /\ place \in {"idle", "backoff"}
      /\ place \in Places \ {"pacing"}
      /\ permits' = permits + 1
      /\ UNCHANGED <<wait, since, lost, cancels>>
  BY DEF Respond, Released, Places
<1>1. /\ attempt' \in [Callers -> 0..Retries]
      /\ last' \in [Callers -> Transient \cup {"none"}]
      /\ place = "backoff" => attempt'[c] < Retries
      /\ \A d \in Callers \ {c} : attempt'[d] = attempt[d]
  BY UpstreamAssumption DEF Respond, Over, TriesAgain, TypeOK
<1> HIDE DEF place
<1>2. PermitsAccounted' /\ permits' \in 0..Limit
  <2>1. c \in Holding
    BY <1>0 DEF Holding
  <2>2. Cardinality(Holding) # 0
    BY <2>1, HoldingCount, FS_EmptySet
  <2> QED
    BY <1>0, <2>2, MoveReturnsPermit, HoldingCount, UpstreamAssumption
       DEF PermitsAccounted, TypeOK
<1>3. TypeOK'
  BY <1>0, <1>1, <1>2, Moved DEF TypeOK, Places
<1>4. Lined'
  BY <1>0, MoveKeepsLined DEF Lined
<1>5. AttemptLeft'
  BY <1>0, <1>1, Moved DEF AttemptLeft, TypeOK, Places
<1> QED
  BY <1>2, <1>3, <1>4, <1>5

LEMMA CancelKeepsInv ==
  ASSUME GateInv, NEW c \in Callers, Cancel(c)
  PROVE  GateInv'
<1> USE DEF GateInv
<1>0. /\ Move(c, "idle") /\ pc[c] # "idle" /\ "idle" \in Places \ {"pacing"}
      /\ "idle" \in {"idle", "backoff"}
      /\ wait' = [wait EXCEPT ![c] = 0] /\ UNCHANGED since
      /\ permits' = (IF pc[c] = "sent" THEN permits + 1 ELSE permits)
      /\ lost' = (IF pc[c] \in AtLock THEN lost + 1 ELSE lost)
      /\ cancels' \in 0..MaxCancels
  BY UpstreamAssumption DEF Cancel, TypeOK, Places, AtLock
<1>1. /\ attempt' \in [Callers -> 0..Retries]
      /\ last' \in [Callers -> Transient \cup {"none"}]
      /\ \A d \in Callers \ {c} : attempt'[d] = attempt[d]
      /\ wait' \in [Callers -> 0..MinInterval]
  BY <1>0, UpstreamAssumption DEF Cancel, Over, TypeOK
<1>2. PermitsAccounted' /\ permits' \in 0..Limit /\ lost' \in 0..Limit
  <2>1. CASE c \in Holding
    <3>1. Cardinality(Holding') = Cardinality(Holding) - 1
      BY <1>0, <2>1, MoveReturnsPermit DEF Holding
    <3>2. \/ permits' = permits + 1 /\ lost' = lost
          \/ permits' = permits /\ lost' = lost + 1
      BY <1>0, <2>1 DEF Holding, AtLock
    <3>3. Cardinality(Holding) # 0
      BY <2>1, HoldingCount, FS_EmptySet
    <3> QED
      BY <3>1, <3>2, <3>3, HoldingCount, UpstreamAssumption DEF PermitsAccounted, TypeOK
  <2>2. CASE c \notin Holding
    <3>1. Cardinality(Holding') = Cardinality(Holding)
      BY <1>0, <2>2, MoveKeepsCount DEF Holding
    <3> QED
      BY <1>0, <2>2, <3>1 DEF PermitsAccounted, TypeOK, Holding, AtLock
  <2> QED
    BY <2>1, <2>2
<1>3. TypeOK'
  BY <1>0, <1>1, <1>2, Moved DEF TypeOK, Places
<1>4. Lined'
  BY <1>0, MoveKeepsLined DEF Lined, TypeOK
<1>5. AttemptLeft'
  BY <1>0, <1>1, Moved DEF AttemptLeft, TypeOK, Places
<1> QED
  BY <1>2, <1>3, <1>4, <1>5

LEMMA TickKeepsInv == GateInv /\ Tick => GateInv'
<1> SUFFICES ASSUME GateInv, Tick PROVE GateInv'
  OBVIOUS
<1> USE DEF GateInv, Tick
<1>1. TypeOK'
  BY UpstreamAssumption DEF TypeOK
<1>2. Lined'
  BY UpstreamAssumption DEF Lined, TypeOK
<1>3. Holding' = Holding
  BY DEF Holding
<1> QED
  BY <1>1, <1>2, <1>3 DEF AttemptLeft, PermitsAccounted

LEMMA StepKeepsInv == GateInv /\ [Next]_vars => GateInv'
<1> SUFFICES ASSUME GateInv, [Next]_vars PROVE GateInv'
  OBVIOUS
<1>1. CASE UNCHANGED vars
  <2>1. Holding' = Holding
    BY <1>1 DEF vars, Holding
  <2> QED
    BY <1>1, <2>1 DEF vars, GateInv, TypeOK, Lined, AttemptLeft, PermitsAccounted
<1>2. CASE Tick
  BY <1>2, TickKeepsInv
<1>3. ASSUME NEW c \in Callers, Wake(c) PROVE GateInv'
  BY <1>3, SendKeepsInv DEF Wake, GateInv, Lined, AtLock
<1>4. ASSUME NEW c \in Callers, Call(c) \/ Step(c) \/ Cancel(c) PROVE GateInv'
  BY <1>3, <1>4, CallKeepsInv, AdmitKeepsInv, PaceKeepsInv, RespondKeepsInv, CancelKeepsInv
     DEF Step, Answered
<1> QED
  BY <1>1, <1>2, <1>4 DEF Next

(***************************************************************************)
(* Theorems                                                                *)
(***************************************************************************)

\* _HostThrottle: the state of the tasks, their queues and the semaphore fit
\* together after any steps, for any number of tasks and permits.
THEOREM GateInvariant == Spec => []GateInv
BY InitInv, StepKeepsInv, PTL DEF Spec

\* request_json gives every permit back, over failures and retries, but for
\* those lost with a task that was cancelled as it paced.
THEOREM NoPermitUnaccounted == Spec => []PermitsAccounted
<1>1. GateInv => PermitsAccounted
  BY DEF GateInv
<1> QED
  BY <1>1, GateInvariant, PTL

(***************************************************************************)
(* The refinement: every step is a step of the gate, or none               *)
(***************************************************************************)

LEMMA FlyingCount ==
  /\ IsFiniteSet(Flying) /\ Cardinality(Flying) \in Nat
  /\ IsFiniteSet(Flying') /\ Cardinality(Flying') \in Nat
<1>1. Flying \subseteq Callers /\ Flying' \subseteq Callers
  BY DEF Flying
<1> QED
  BY <1>1, FS_Subset, FS_CardinalityType, UpstreamAssumption

\* What the gate does when c goes to a place, unless that is a request.
LEMMA MoveEndsOrStutters ==
  ASSUME TypeOK, NEW c \in Callers, NEW place \in Places \ {"sent"}, Move(c, place),
         UNCHANGED since
  PROVE  [Gate!Next]_(Gate!vars)
<1>1. CASE pc[c] = "sent"
  <2>1. Flying' = Flying \ {c} /\ c \in Flying
    BY <1>1, Moved DEF Flying
  <2>2. Cardinality(Flying') = Cardinality(Flying) - 1 /\ Cardinality(Flying) # 0
    BY <2>1, FlyingCount, FS_RemoveElement, FS_EmptySet
  <2> QED
    BY <2>2, FlyingCount DEF Gate!Next, Gate!End
<1>2. CASE pc[c] # "sent"
  <2>1. Flying' = Flying
    BY <1>2, Moved DEF Flying
  <2> QED
    BY <2>1 DEF Gate!vars
<1> QED
  BY <1>1, <1>2

\* A task whose permit is not in flight starts a request the gate allows.
LEMMA SendIsStart ==
  ASSUME GateInv, NEW c \in Callers, Move(c, "sent"), pc[c] # "sent",
         c \in Holding \/ permits > 0,
         since >= MinInterval, since' = 0
  PROVE  Gate!Start
<1> USE DEF GateInv
<1>1. "sent" \in Places
  BY DEF Places
<1>2. Flying' = Flying \cup {c} /\ c \notin Flying
  BY <1>1, Moved DEF Flying
<1>3. Cardinality(Flying') = Cardinality(Flying) + 1
  BY <1>2, FlyingCount, FS_AddElement
<1>4. Cardinality(Flying) < Limit
  <2>1. Flying \subseteq Holding
    BY DEF Holding, Flying
  <2>2. Cardinality(Flying) <= Cardinality(Holding)
        /\ (c \in Holding => Cardinality(Flying) # Cardinality(Holding))
    BY <1>2, <2>1, HoldingCount, FS_Subset
  <2> QED
    BY <2>2, FlyingCount, HoldingCount, UpstreamAssumption DEF TypeOK, PermitsAccounted
<1> QED
  BY <1>3, <1>4 DEF Gate!Start

LEMMA StepIsGateStep == GateInv /\ [Next]_vars => [Gate!Next]_(Gate!vars)
<1> SUFFICES ASSUME GateInv, [Next]_vars PROVE [Gate!Next]_(Gate!vars)
  OBVIOUS
<1> USE DEF GateInv
<1>1. CASE UNCHANGED vars
  <2>1. Flying' = Flying /\ since' = since
    BY <1>1 DEF vars, Flying
  <2> QED
    BY <2>1 DEF Gate!vars
<1>2. CASE Tick
  <2>1. Flying' = Flying
    BY <1>2 DEF Tick, Flying
  <2> QED
    BY <1>2, <2>1 DEF Tick, Gate!Next, Gate!Tick
<1>3. ASSUME NEW c \in Callers, Call(c) \/ Retry(c) \/ Cancel(c) PROVE [Gate!Next]_(Gate!vars)
  BY <1>3, MoveEndsOrStutters DEF Call, Retry, Cancel, Places
<1>4. ASSUME NEW c \in Callers, NEW reply \in Replies, Respond(c, reply)
      PROVE  [Gate!Next]_(Gate!vars)
  BY <1>4, MoveEndsOrStutters DEF Respond, Places
<1>5. ASSUME NEW c \in Callers, Admit(c) PROVE [Gate!Next]_(Gate!vars)
  <2>1. CASE MinInterval > 0
    BY <1>5, <2>1, MoveEndsOrStutters DEF Admit, Places
  <2>2. CASE ~(MinInterval > 0)
    \* The time of a host with no policy stands still at 0.
    <3>1. since' = 0 /\ since >= MinInterval
      BY <1>5, <2>2, UpstreamAssumption DEF Admit, TypeOK
    <3> QED
      BY <1>5, <2>2, <3>1, SendIsStart DEF Admit, Gate!Next
  <2> QED
    BY <2>1, <2>2
<1>6. ASSUME NEW c \in Callers, Pace(c) PROVE [Gate!Next]_(Gate!vars)
  <2>1. CASE Delay > 0
    <3>1. Flying' = Flying /\ since' = since
      BY <1>6, <2>1 DEF Pace, Flying, TypeOK
    <3> QED
      BY <3>1 DEF Gate!vars
  <2>2. CASE ~(Delay > 0)
    BY <1>6, <2>2, SendIsStart, UpstreamAssumption
       DEF Pace, Delay, Holding, TypeOK, Gate!Next
  <2> QED
    BY <2>1, <2>2
<1>7. ASSUME NEW c \in Callers, Wake(c) PROVE [Gate!Next]_(Gate!vars)
  <2>1. since >= MinInterval
    BY <1>7, UpstreamAssumption DEF Wake, Lined, TypeOK
  <2> QED
    BY <1>7, <2>1, SendIsStart DEF Wake, Holding, Gate!Next
<1> QED
  BY <1>1, <1>2, <1>3, <1>4, <1>5, <1>6, <1>7 DEF Next, Step, Answered

\* _HostThrottle implements HostGate: never more than the permitted requests
\* in flight and never two started within the interval, for any number of
\* tasks, any limit and interval, and cancellations anywhere.
THEOREM GateRefined == Spec => GateSpec
<1>1. Init => Gate!Init
  <2> SUFFICES ASSUME Init PROVE Gate!Init
    OBVIOUS
  <2>1. Flying = {}
    BY DEF Init, Flying
  <2> QED
    BY <2>1, FS_EmptySet DEF Init, Gate!Init
<1> QED
  BY <1>1, StepIsGateStep, GateInvariant, PTL DEF Spec, GateSpec, Gate!Spec
=============================================================================
