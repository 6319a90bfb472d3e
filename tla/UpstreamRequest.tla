-------------------------- MODULE UpstreamRequest --------------------------
(***************************************************************************)
(* request_json of app/core/http.py for one upstream host: attempts and    *)
(* their back-off, and the _HostThrottle every attempt passes, a semaphore *)
(* that caps the requests in flight and a lock under which a task sleeps   *)
(* until the host may be asked again.                                      *)
(*                                                                         *)
(* Callers are asyncio tasks. Semaphore and lock of asyncio are fair, and  *)
(* a task waits for one of them at a time, so ahead[c] is the part of c's  *)
(* queue that came before it. Time passes in ticks and matters to pacing   *)
(* only; the length of a back-off is left out.                             *)
(***************************************************************************)
EXTENDS Integers, FiniteSets

CONSTANTS
  Callers,      \* tasks that make requests
  Limit,        \* permits of the host
  MinInterval,  \* ticks between requests; 0 for a host with no policy
  Retries,      \* attempts after the first
  Retryable,    \* retry_statuses: "busy" is 429 and 503, "fault" 500, 502 and 504
  MaxCancels    \* bound: cancelled tasks

ASSUME UpstreamAssumption ==
  /\ IsFiniteSet(Callers)
  /\ Limit \in Nat \ {0} /\ MinInterval \in Nat
  /\ Retries \in Nat /\ MaxCancels \in Nat
  /\ Retryable \subseteq {"busy", "fault"}

VARIABLES
  pc,       \* per task: where it is
  attempt,  \* per task: attempt of the loop, from 0
  last,     \* per task: last_error
  ahead,    \* per task: the tasks before it in the queue it stands in
  wait,     \* per task: ticks left of its pacing sleep
  permits,  \* value of the semaphore
  since,    \* ticks since _last_request, up to MinInterval
  lost,     \* permits a cancelled task took with it
  cancels

vars == <<pc, attempt, last, ahead, wait, permits, since, lost, cancels>>

\* How a request ends: "silence" is a time-out or a network error, "refused" any
\* other status from 400 and a body that is no JSON. Some are worth a retry.
Replies == {"silence", "busy", "fault", "refused", "answer"}
Transient == {"silence"} \cup Retryable

Holding == {c \in Callers : pc[c] \in {"locked", "pacing", "sent"}}
Flying == {c \in Callers : pc[c] = "sent"}

TypeOK ==
  /\ pc \in [Callers -> {"idle", "queued", "locked", "pacing", "sent", "backoff"}]
  /\ attempt \in [Callers -> 0..Retries]
  /\ last \in [Callers -> Transient \cup {"none"}]
  /\ ahead \in [Callers -> SUBSET Callers]
  /\ wait \in [Callers -> 0..MinInterval]
  /\ permits \in 0..Limit /\ lost \in 0..Limit
  /\ since \in 0..MinInterval
  /\ cancels \in 0..MaxCancels

Init ==
  /\ pc = [c \in Callers |-> "idle"]
  /\ attempt = [c \in Callers |-> 0] /\ last = [c \in Callers |-> "none"]
  /\ ahead = [c \in Callers |-> {}] /\ wait = [c \in Callers |-> 0]
  /\ permits = Limit /\ since = MinInterval
  /\ lost = 0 /\ cancels = 0

-----------------------------------------------------------------------------
\* c goes on to a place, behind the tasks that are there already ...
Behind(place) == IF place = "queued" THEN {d \in Callers : pc[d] = "queued"}
                 ELSE IF place = "locked" THEN {d \in Callers : pc[d] \in {"locked", "pacing"}}
                 ELSE {}

\* ... and leaves the queue it stood in.
Move(c, place) ==
  /\ pc' = [pc EXCEPT ![c] = place]
  /\ ahead' = [d \in Callers |-> IF d = c THEN Behind(place) ELSE ahead[d] \ {c}]

\* The loop of the call is left: its attempt and last_error are gone.
Over(c) ==
  /\ attempt' = [attempt EXCEPT ![c] = 0]
  /\ last' = [last EXCEPT ![c] = "none"]

Call(c) ==
  /\ pc[c] = "idle"
  /\ Move(c, "queued")
  /\ UNCHANGED <<attempt, last, wait, permits, since, lost, cancels>>

\* The semaphore lets c in: on to the pacing lock, where the host has a policy.
Admit(c) ==
  /\ pc[c] = "queued" /\ ahead[c] = {} /\ permits > 0
  /\ permits' = permits - 1
  /\ Move(c, IF MinInterval > 0 THEN "locked" ELSE "sent")
  /\ UNCHANGED <<attempt, last, wait, since, lost, cancels>>

\* A task has the lock when nobody is before it.
HasLock_NoLock(c) == TRUE
HasLock(c) == ahead[c] = {}

\* The time the next request has to wait for.
Delay_FromStart == MinInterval - since - 1
Delay == MinInterval - since

\* c has the lock: it sends, or sleeps with the lock until it may.
Pace(c) ==
  /\ pc[c] = "locked" /\ HasLock(c)
  /\ IF Delay > 0
     THEN /\ pc' = [pc EXCEPT ![c] = "pacing"]
          /\ wait' = [wait EXCEPT ![c] = Delay]
          /\ UNCHANGED <<ahead, since>>
     ELSE /\ Move(c, "sent")
          /\ since' = 0
          /\ UNCHANGED wait
  /\ UNCHANGED <<attempt, last, permits, lost, cancels>>

Wake(c) ==
  /\ pc[c] = "pacing" /\ wait[c] = 0
  /\ Move(c, "sent")
  /\ since' = 0
  /\ UNCHANGED <<attempt, last, wait, permits, lost, cancels>>

\* retry_delay is set, and there is an attempt left to wait for.
TriesAgain(c, reply) == reply \in Transient /\ attempt[c] < Retries

\* What becomes of the permit when the request is over: the finally clause.
Released_KeptOverBackoff(c, reply) == IF TriesAgain(c, reply) THEN permits ELSE permits + 1
Released(c, reply) == permits + 1

Respond(c, reply) ==
  /\ pc[c] = "sent"
  /\ permits' = Released(c, reply)
  /\ IF TriesAgain(c, reply)
     THEN /\ Move(c, "backoff")
          /\ last' = [last EXCEPT ![c] = reply]
          /\ UNCHANGED attempt
     ELSE Move(c, "idle") /\ Over(c)
  /\ UNCHANGED <<wait, since, lost, cancels>>

\* The back-off is over: the next attempt passes the throttle again.
Retry(c) ==
  /\ pc[c] = "backoff"
  /\ Move(c, "queued")
  /\ attempt' = [attempt EXCEPT ![c] = @ + 1]
  /\ UNCHANGED <<last, wait, permits, since, lost, cancels>>

\* The task is cancelled where it waits. The try begins after acquire, so its
\* finally clause does not cover the wait for the lock nor the pacing sleep.
Cancel(c) ==
  /\ pc[c] # "idle"
  /\ cancels < MaxCancels /\ cancels' = cancels + 1
  /\ Move(c, "idle") /\ Over(c)
  /\ permits' = IF pc[c] = "sent" THEN permits + 1 ELSE permits
  /\ lost' = IF pc[c] \in {"locked", "pacing"} THEN lost + 1 ELSE lost
  /\ wait' = [wait EXCEPT ![c] = 0]
  /\ UNCHANGED since

Tick ==
  /\ since < MinInterval
  /\ since' = since + 1
  /\ wait' = [c \in Callers |-> IF wait[c] > 0 THEN wait[c] - 1 ELSE 0]
  /\ UNCHANGED <<pc, attempt, last, ahead, permits, lost, cancels>>

-----------------------------------------------------------------------------
Answered(c) == \E reply \in Replies : Respond(c, reply)
Step(c) == Admit(c) \/ Pace(c) \/ Wake(c) \/ Answered(c) \/ Retry(c)

Next == (\E c \in Callers : Call(c) \/ Step(c) \/ Cancel(c)) \/ Tick

Spec == Init /\ [][Next]_vars

\* The event loop runs what can run, its timers go off, and httpx ends every
\* request, with an answer or a time-out.
FairSpec == Spec /\ WF_vars(Tick) /\ \A c \in Callers : WF_vars(Step(c))

-----------------------------------------------------------------------------
\* The throttle: never more than Limit requests in flight, and MinInterval
\* between the starts of two, however tasks queue, sleep, retry and are
\* cancelled.
Gate == INSTANCE HostGate WITH flying <- Cardinality(Flying)
GateSpec == Gate!Spec

\* Every permit is free, with a task that is queueing for the lock, sleeping
\* or waiting for its answer, or was lost with a cancelled task. Nobody keeps
\* one while it backs off.
PermitsAccounted == permits + Cardinality(Holding) + lost = Limit

\* Every call ends, unless the permits of the host are all lost.
EveryCallEnds == \A c \in Callers : pc[c] # "idle" ~> (pc[c] = "idle" \/ lost = Limit)

\* The comment on _HOST_MAX_CONCURRENCY: a slow upstream exhausts nothing for
\* good. It does once every permit was lost with a task cancelled as it paced.
NeverExhausted == \A c \in Callers : pc[c] # "idle" ~> pc[c] = "idle"

\* The comment on _SEND_RETRY_STATUSES: what may have been accepted is not sent
\* again. A time-out is, whatever statuses are given.
AmbiguousNotRepeated ==
  [][\A c \in Callers : Retry(c) => last[c] \in Retryable]_vars

-----------------------------------------------------------------------------
\* One task sleeps or may send at a time, and when its sleep ends the interval
\* has passed: what makes the refinement of the gate inductive.
Lined ==
  /\ \A c \in Callers : c \notin ahead[c]
  /\ \A c, d \in Callers :
       c # d /\ pc[c] \in {"locked", "pacing"} /\ pc[d] \in {"locked", "pacing"}
         => c \in ahead[d] \/ d \in ahead[c]
  /\ \A c \in Callers : pc[c] = "pacing" => ahead[c] = {} /\ wait[c] + since >= MinInterval

\* A task backs off only for an attempt it has left.
AttemptLeft == \A c \in Callers : pc[c] = "backoff" => attempt[c] < Retries

GateInv == TypeOK /\ Lined /\ AttemptLeft /\ PermitsAccounted
=============================================================================
