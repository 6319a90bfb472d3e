----------------------------- MODULE SoftQuota -----------------------------
(***************************************************************************)
(* What a per-device limit promises when it is checked by one statement    *)
(* and used up by a later one, as the routes do for reports and for        *)
(* favourites: count what the device holds, refuse at the limit, insert.   *)
(* Requests that have passed the check and have not inserted yet are not   *)
(* counted, so the limit may be overrun, but by no more than the requests  *)
(* that can be between the two statements.                                 *)
(***************************************************************************)
EXTENDS Integers, FiniteSets

CONSTANTS
  Requests,  \* the requests served at the same time
  Limit      \* what one device may hold

\* What a use of this module owes it.
QuotaAssumption ==
  /\ IsFiniteSet(Requests) /\ Requests # {}
  /\ Limit \in Nat

VARIABLES
  held,      \* how much the device holds
  cleared    \* requests that have passed the check and have not inserted yet

vars == <<held, cleared>>

Init == held = 0 /\ cleared = {}

\* A request counts less than the limit.
Room == held < Limit

Clear(q) ==
  /\ q \notin cleared /\ Room
  /\ cleared' = cleared \cup {q}
  /\ UNCHANGED held

\* It inserts.
Store(q) ==
  /\ q \in cleared
  /\ cleared' = cleared \ {q}
  /\ held' = held + 1

\* It fails before it does.
GiveUp(q) ==
  /\ q \in cleared
  /\ cleared' = cleared \ {q}
  /\ UNCHANGED held

\* Something the device holds is deleted, or no longer counts.
Release ==
  /\ held > 0
  /\ held' = held - 1
  /\ UNCHANGED cleared

Next == (\E q \in Requests : Clear(q) \/ Store(q) \/ GiveUp(q)) \/ Release

Spec == Init /\ [][Next]_vars

-----------------------------------------------------------------------------
TypeOK == held \in Nat /\ cleared \subseteq Requests

\* The requests already past the check count against the overrun.
WithinReach == held + Cardinality(cleared) <= Limit + Cardinality(Requests) - 1

\* The limit is overrun by fewer than the requests served at the same time: a
\* device whose requests do not overlap never exceeds it.
NearlyHolds == held <= Limit + Cardinality(Requests) - 1
=============================================================================
