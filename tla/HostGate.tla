------------------------------ MODULE HostGate ------------------------------
(***************************************************************************)
(* What app/core/http.py promises an upstream host: no more than so many   *)
(* requests in flight, and so much time between the starts of two.         *)
(***************************************************************************)
EXTENDS Integers

CONSTANTS
  Limit,        \* _HOST_MAX_CONCURRENCY
  MinInterval   \* _HOST_MIN_INTERVAL, in ticks; 0 for a host with no policy

VARIABLES
  flying,       \* how many requests are in flight
  since         \* ticks since a request started, up to MinInterval

vars == <<flying, since>>

Init == flying = 0 /\ since = MinInterval

Start ==
  /\ flying < Limit /\ since >= MinInterval
  /\ flying' = flying + 1
  /\ since' = 0

End ==
  /\ flying > 0
  /\ flying' = flying - 1
  /\ UNCHANGED since

Tick ==
  /\ since < MinInterval
  /\ since' = since + 1
  /\ UNCHANGED flying

Next == Start \/ End \/ Tick

Spec == Init /\ [][Next]_vars
=============================================================================
