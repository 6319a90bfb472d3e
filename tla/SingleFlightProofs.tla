------------------------- MODULE SingleFlightProofs -------------------------
(***************************************************************************)
(* Theorems about SingleFlight, for every set of callers and every bound.  *)
(***************************************************************************)
EXTENDS SingleFlight, TLAPS

(***************************************************************************)
(* The inductive invariant                                                 *)
(***************************************************************************)

LEMMA InitInv == Init => FlightInv
BY CacheAssumption DEF Init, FlightInv, TypeOK, OneLeader, AgreeWithLeader,
   Flights, Waiting, Leading

\* Once the leader's future is resolved and taken out of the table nobody
\* leads; the value and the end of its flight agree.
LEMMA ResolveKeepsInv ==
  ASSUME FlightInv,
         NEW c \in Callers, pc[c] \in Leading,
         NEW how \in {"value", "error", "cancelled"},
         Resolve(c, how),
         UNCHANGED flights,
         remote' \in 0..MaxCalls, local' \in 0..MaxCalls, up' \in BOOLEAN,
         overtaken' \subseteq Callers, calls' \in 0..MaxCalls,
         failures' \in 0..MaxFailures, cancels' \in 0..MaxCancels
  PROVE  FlightInv'
<1> USE DEF FlightInv, Resolve, Return
<1>1. flight[c] \in Flights /\ flight[c] = inflight /\ future[flight[c]] = "pending"
  BY CacheAssumption DEF TypeOK, OneLeader, Flights
<1>2. TypeOK'
  BY <1>1, CacheAssumption DEF TypeOK, Waiting, Flights
<1>3. \A d \in Callers : pc'[d] \notin Leading
  BY DEF TypeOK, OneLeader, Leading
<1>4. OneLeader'
  BY <1>1, <1>3, CacheAssumption DEF TypeOK, OneLeader, Flights, Waiting, Leading
<1>5. AgreeWithLeader'
  BY <1>1 DEF TypeOK, AgreeWithLeader, Flights
<1> QED
  BY <1>2, <1>4, <1>5

\* So does a leader that ends without resolving: its future stays pending.
LEMMA UncaughtKeepsInv ==
  ASSUME FlightInv,
         NEW c \in Callers, pc[c] \in Leading,
         Uncaught(c),
         UNCHANGED <<flights, remote, local, up, calls, failures>>,
         overtaken' \subseteq Callers,
         cancels' \in 0..MaxCancels
  PROVE  FlightInv'
<1> USE DEF FlightInv, Uncaught, Return
<1>1. flight[c] \in Flights /\ future[flight[c]] = "pending"
  BY CacheAssumption DEF TypeOK, OneLeader, Flights
<1>2. TypeOK'
  BY <1>1, CacheAssumption DEF TypeOK, Waiting, Flights
<1>3. OneLeader'
  BY CacheAssumption DEF TypeOK, OneLeader, Flights, Waiting, Leading
<1>4. AgreeWithLeader'
  BY <1>1 DEF TypeOK, AgreeWithLeader, Flights
<1> QED
  BY <1>2, <1>3, <1>4

LEMMA StepKeepsInv == FlightInv /\ [Next]_vars => FlightInv'
<1> SUFFICES ASSUME FlightInv, [Next]_vars PROVE FlightInv'
  OBVIOUS
<1> USE DEF FlightInv
<1>0. overtaken' \subseteq Callers
  BY DEF Next, History, Underway, vars, TypeOK
<1>1. CASE UNCHANGED vars
  BY <1>1 DEF vars, TypeOK, OneLeader, AgreeWithLeader
<1>2. CASE Expire
  BY <1>0, <1>2, CacheAssumption DEF Expire, counts, TypeOK, OneLeader, AgreeWithLeader
<1>3. ASSUME NEW c \in Callers, Call(c) PROVE FlightInv'
  <2>1. TypeOK'
    BY <1>0, <1>3, CacheAssumption DEF Call, Asks, caches, TypeOK, Waiting
  <2>2. OneLeader'
    BY <1>3 DEF Call, Asks, TypeOK, OneLeader, Waiting, Leading
  <2> QED
    BY <1>3, <2>1, <2>2 DEF Call, Asks, AgreeWithLeader
<1>4. ASSUME NEW c \in Callers, Hit(c) \/ Resume(c) PROVE FlightInv'
  <2>1. TypeOK'
    BY <1>0, <1>4, CacheAssumption DEF Hit, Resume, Return, caches, counts, TypeOK, Waiting
  <2>2. OneLeader'
    BY <1>4 DEF Hit, Resume, Return, TypeOK, OneLeader, Waiting, Leading
  <2> QED
    BY <1>4, <2>1, <2>2 DEF Hit, Resume, AgreeWithLeader
<1>5. ASSUME NEW c \in Callers, RemoteMiss(c) PROVE FlightInv'
  <2>1. TypeOK'
    BY <1>0, <1>5 DEF RemoteMiss, caches, counts, TypeOK, Waiting
  <2>2. OneLeader'
    BY <1>5 DEF RemoteMiss, TypeOK, OneLeader, Waiting, Leading
  <2> QED
    BY <1>5, <2>1, <2>2 DEF RemoteMiss, AgreeWithLeader
<1>6. ASSUME NEW c \in Callers, GetFails(c) PROVE FlightInv'
  <2>1. TypeOK'
    <3>1. failures' \in 0..MaxFailures
      BY <1>6, CacheAssumption DEF GetFails, Failure, TypeOK
    <3>2. up' \in BOOLEAN
      BY <1>6 DEF GetFails
    <3> QED
      BY <1>0, <1>6, <3>1, <3>2 DEF GetFails, TypeOK, Waiting
  <2>2. OneLeader'
    BY <1>6 DEF GetFails, TypeOK, OneLeader, Waiting, Leading
  <2> QED
    BY <1>6, <2>1, <2>2 DEF GetFails, AgreeWithLeader
<1>7. ASSUME NEW c \in Callers, Lead(c) PROVE FlightInv'
  <2>1. TypeOK'
    BY <1>0, <1>7, CacheAssumption DEF Lead, caches, counts, TypeOK, Waiting, Flights
  <2>2. \A d \in Callers : pc[d] \notin Leading
    BY <1>7 DEF Lead, Vacant, OneLeader
  <2>3. \A d \in Callers : pc'[d] \in Leading => d = c
    BY <1>7, <2>2 DEF Lead, TypeOK
  <2>4. pc'[c] = "fetch" /\ flight'[c] = inflight' /\ inflight' = flights'
        /\ flights' = flights + 1 /\ flights' \in Flights
    BY <1>7, CacheAssumption DEF Lead, TypeOK, Flights
  <2>5. future'[flights'] = "pending" /\ \A f \in Flights : f > flights' => future'[f] = "none"
    BY <1>7, <2>4 DEF Lead, TypeOK, OneLeader, Flights
  <2>6. \A d \in Callers : pc'[d] = "follow" => flight'[d] \in 1..flights'
    BY <1>7, <2>4 DEF Lead, TypeOK, OneLeader
  <2>7. OneLeader'
    BY <2>3, <2>4, <2>5, <2>6, CacheAssumption DEF OneLeader, TypeOK, Flights
  <2>8. AgreeWithLeader'
    BY <1>7, <2>4 DEF Lead, TypeOK, AgreeWithLeader, Flights
  <2> QED
    BY <2>1, <2>7, <2>8
<1>8. ASSUME NEW c \in Callers, Follow(c) PROVE FlightInv'
  <2>1. TypeOK'
    BY <1>0, <1>8 DEF Follow, caches, counts, TypeOK, Waiting
  <2>2. OneLeader'
    BY <1>8, CacheAssumption DEF Follow, TypeOK, OneLeader, Waiting, Leading
  <2> QED
    BY <1>8, <2>1, <2>2 DEF Follow, AgreeWithLeader
<1>9. ASSUME NEW c \in Callers, FetchedRemote(c) \/ RemoteSet(c) PROVE FlightInv'
  <2>1. TypeOK'
    BY <1>0, <1>9 DEF FetchedRemote, RemoteSet, caches, counts, TypeOK, Waiting
  <2>2. OneLeader'
    BY <1>9 DEF FetchedRemote, RemoteSet, TypeOK, OneLeader, Waiting, Leading
  <2> QED
    BY <1>9, <2>1, <2>2 DEF FetchedRemote, RemoteSet, AgreeWithLeader
<1>10. ASSUME NEW c \in Callers, FetchedLocal(c) \/ FetchFails(c) \/ Settle(c)
       PROVE  FlightInv'
  <2>1. pc[c] \in Leading /\ UNCHANGED flights
    BY <1>10 DEF FetchedLocal, FetchFails, Settle, Leading
  <2>2. \E how \in {"value", "error", "cancelled"} : Resolve(c, how)
    BY <1>10 DEF FetchedLocal, FetchFails, Settle
  <2>3. /\ remote' \in 0..MaxCalls /\ local' \in 0..MaxCalls /\ up' \in BOOLEAN
        /\ calls' \in 0..MaxCalls
        /\ failures' \in 0..MaxFailures /\ cancels' \in 0..MaxCancels
    BY <1>10, CacheAssumption
    DEF FetchedLocal, FetchFails, Settle, Failure, caches, counts, TypeOK
  <2> QED
    BY <2>1, <2>2, <2>3, <1>0, ResolveKeepsInv
<1>11. ASSUME NEW c \in Callers, SetFails(c) PROVE FlightInv'
  <2>1. pc[c] \in Leading /\ UNCHANGED flights /\ Resolve(c, "value")
    BY <1>11 DEF SetFails, StoredLocally, Leading
  <2>2. /\ remote' \in 0..MaxCalls /\ local' \in 0..MaxCalls /\ up' \in BOOLEAN
        /\ calls' \in 0..MaxCalls
        /\ failures' \in 0..MaxFailures /\ cancels' \in 0..MaxCancels
    <3>1. up' \in BOOLEAN
      BY <1>11 DEF SetFails
    <3>2. failures' \in 0..MaxFailures
      BY <1>11, CacheAssumption DEF SetFails, Failure, TypeOK
    <3>3. local' \in 0..MaxCalls
      BY <1>11 DEF SetFails, StoredLocally, TypeOK, Flights, OneLeader
    <3> QED
      BY <1>11, <3>1, <3>2, <3>3 DEF SetFails, TypeOK
  <2> QED
    BY <2>1, <2>2, <1>0, ResolveKeepsInv
<1>12. ASSUME NEW c \in Callers, Cancel(c) PROVE FlightInv'
  <2>1. /\ cancels' \in 0..MaxCancels
        /\ UNCHANGED <<calls, flights, failures, remote, local, up>>
    BY <1>12, CacheAssumption DEF Cancel, caches, TypeOK
  <2>2. CASE /\ pc[c] \in {"asked", "read", "join", "follow"}
             /\ Return(c)
             /\ UNCHANGED <<inflight, future, ended>>
    <3>1. TypeOK'
      BY <1>0, <2>1, <2>2, CacheAssumption DEF Return, TypeOK, Waiting
    <3>2. OneLeader'
      BY <2>1, <2>2 DEF Return, TypeOK, OneLeader, Waiting, Leading
    <3> QED
      BY <2>1, <2>2, <3>1, <3>2 DEF AgreeWithLeader
  <2>3. CASE pc[c] = "fetch" /\ Resolve(c, "cancelled")
    <3>1. pc[c] \in Leading
      BY <2>3 DEF Leading
    <3> QED
      BY <2>1, <2>3, <3>1, <1>0, ResolveKeepsInv DEF TypeOK
  <2>4. CASE pc[c] \in {"set", "settle"} /\ Uncaught(c)
    <3>1. pc[c] \in Leading
      BY <2>4 DEF Leading
    <3> QED
      BY <2>1, <2>4, <3>1, <1>0, UncaughtKeepsInv
  <2> QED
    BY <1>12, <2>2, <2>3, <2>4 DEF Cancel, AfterFollowerCancelled, CancelledInFactory
<1> QED
  BY <1>1, <1>2, <1>3, <1>4, <1>5, <1>6, <1>7, <1>8, <1>9, <1>10, <1>11, <1>12
  DEF Next, Step

\* The future registered for a key (Cache.get_or_set) is pending and its leader's, and
\* there is one leader, with or without Redis.
THEOREM Invariant == Spec => []FlightInv
BY InitInv, StepKeepsInv, PTL DEF Spec

\* Every variable of the cache keeps its type, for any number of callers.
THEOREM TypeCorrect == Spec => []TypeOK
<1>1. FlightInv => TypeOK
  BY DEF FlightInv
<1> QED
  BY <1>1, Invariant, PTL

\* Single flight (Cache.get_or_set): for any number of callers, whatever fails
\* or is cancelled, the factory is never running twice.
THEOREM FactoryRunsOnce == Spec => []OneFetch
<1>1. FlightInv => OneFetch
  BY DEF FlightInv, OneLeader, OneFetch, Leading
<1> QED
  BY <1>1, Invariant, PTL

\* Cancelling a follower, or failing, never gives the other followers anything
\* but the outcome of their leader.
THEOREM FollowersAgree == Spec => []AgreeWithLeader
<1>1. FlightInv => AgreeWithLeader
  BY DEF FlightInv
<1> QED
  BY <1>1, Invariant, PTL

(***************************************************************************)
(* The memory store                                                        *)
(***************************************************************************)

LEMMA MemoryInit == ~Redis /\ Init => MemoryInv
BY CacheAssumption DEF Init, MemoryInv, FollowersHaveLeader

LEMMA MemoryStep == FlightInv /\ MemoryInv /\ [Next]_vars => MemoryInv'
<1> SUFFICES ASSUME FlightInv, MemoryInv, [Next]_vars PROVE MemoryInv'
  OBVIOUS
<1> USE DEF FlightInv
<1> DEFINE NoWait == \A d \in Callers : pc[d] \notin {"asked", "join", "set", "settle"}
           Led == inflight # 0 =>
                    \E d \in Callers : pc[d] = "fetch" /\ flight[d] = inflight
           Followed(d) == pc[d] = "follow" =>
                    \/ future[flight[d]] # "pending"
                    \/ \E e \in Callers : pc[e] \in Leading /\ flight[e] = flight[d]
<1>1. MemoryInv' <=> ~up' /\ NoWait' /\ Led' /\ \A d \in Callers : Followed(d)'
  BY DEF MemoryInv, FollowersHaveLeader
<1>2. ~up /\ NoWait /\ Led /\ \A d \in Callers : Followed(d)
  BY DEF MemoryInv, FollowersHaveLeader
<1>3. CASE UNCHANGED vars \/ Expire
  BY <1>1, <1>2, <1>3 DEF vars, Expire, counts
<1>4. ASSUME NEW c \in Callers, Call(c) PROVE MemoryInv'
  BY <1>1, <1>2, <1>4 DEF Call, Asks, caches, TypeOK, Leading
<1>5. ASSUME NEW c \in Callers,
             \/ Hit(c) \/ Resume(c)
             \/ Cancel(c) /\ pc[c] # "fetch"
      PROVE  MemoryInv'
  <2>1. /\ pc[c] \notin Leading
        /\ Return(c) /\ UNCHANGED <<inflight, future, up>>
    BY <1>2, <1>5
    DEF Hit, Resume, Cancel, AfterFollowerCancelled, Leading, caches, TypeOK, Waiting
  <2>2. ~up' /\ NoWait' /\ Led'
    BY <1>2, <2>1 DEF Return, TypeOK, Leading
  <2>3. \A d \in Callers : Followed(d)'
    BY <1>2, <2>1 DEF Return, TypeOK, Leading
  <2> QED
    BY <1>1, <2>2, <2>3
<1>6. ASSUME NEW c \in Callers, Lead(c) PROVE MemoryInv'
  <2>1. ~up' /\ NoWait' /\ Led'
    BY <1>2, <1>6 DEF Lead, caches, TypeOK
  <2>2. \A d \in Callers : pc[d] = "follow" => future[flight[d]] # "pending"
    BY <1>2, <1>6 DEF Lead, Vacant, OneLeader
  <2>3. ASSUME NEW d \in Callers, pc'[d] = "follow" PROVE future'[flight'[d]] # "pending"
    <3>1. d # c /\ pc[d] = "follow" /\ flight'[d] = flight[d]
      BY <1>6, <2>3 DEF Lead, TypeOK
    <3>2. flight[d] \in 1..flights /\ flights \in Nat
      BY <3>1, CacheAssumption DEF OneLeader, TypeOK
    <3>3. future'[flight[d]] = future[flight[d]]
      BY <1>6, <3>2, CacheAssumption DEF Lead, TypeOK, Flights
    <3> QED
      BY <2>2, <3>1, <3>3
  <2> QED
    BY <1>1, <2>1, <2>3
<1>7. ASSUME NEW c \in Callers, Follow(c) PROVE MemoryInv'
  <2>1. ~up' /\ NoWait' /\ Led'
    BY <1>2, <1>7 DEF Follow, Missed, caches, TypeOK
  <2>2. \A d \in Callers : Followed(d)'
    BY <1>2, <1>7 DEF Follow, Missed, TypeOK, Leading
  <2> QED
    BY <1>1, <2>1, <2>2
<1>8. ASSUME NEW c \in Callers, pc[c] = "fetch",
             NEW how \in {"value", "error", "cancelled"}, Resolve(c, how), up' = up
      PROVE  MemoryInv'
  <2>1. ~up' /\ NoWait' /\ Led'
    BY <1>2, <1>8 DEF Resolve, Return, TypeOK
  <2>2. ASSUME NEW d \in Callers, pc'[d] = "follow" PROVE future'[flight'[d]] # "pending"
    <3>1. d # c /\ pc[d] = "follow" /\ flight'[d] = flight[d]
      BY <1>8, <2>2 DEF Resolve, Return, TypeOK
    <3>2. flight[d] \in Flights
      BY <3>1, CacheAssumption DEF OneLeader, TypeOK, Flights
    <3>3. CASE flight[d] = flight[c]
      BY <1>8, <3>1, <3>2, <3>3 DEF Resolve, TypeOK
    <3>4. CASE flight[d] # flight[c]
      <4>1. future[flight[d]] # "pending"
        BY <1>2, <1>8, <3>1, <3>4 DEF OneLeader, Leading
      <4> QED
        BY <1>8, <3>1, <3>2, <3>4, <4>1 DEF Resolve, TypeOK
    <3> QED
      BY <3>3, <3>4
  <2> QED
    BY <1>1, <2>1, <2>2
<1>9. ASSUME NEW c \in Callers,
             FetchedLocal(c) \/ FetchFails(c) \/ (Cancel(c) /\ pc[c] = "fetch")
      PROVE  MemoryInv'
  <2>1. pc[c] = "fetch" /\ up' = up
    BY <1>9 DEF FetchedLocal, FetchFails, Cancel, caches
  <2>2. \E how \in {"value", "error", "cancelled"} : Resolve(c, how)
    BY <1>9 DEF FetchedLocal, FetchFails, Cancel, CancelledInFactory
  <2> QED
    BY <1>8, <2>1, <2>2
<1>10. ASSUME NEW c \in Callers,
              \/ RemoteMiss(c) \/ GetFails(c) \/ FetchedRemote(c) \/ RemoteSet(c)
              \/ SetFails(c) \/ Settle(c)
       PROVE  FALSE
  BY <1>2, <1>10 DEF RemoteMiss, GetFails, FetchedRemote, RemoteSet, SetFails, Settle
<1> QED
  BY <1>3, <1>4, <1>5, <1>6, <1>7, <1>9, <1>10 DEF Next, Step

\* The memory store (_MemoryStore): no task ever waits between a lookup and what
\* follows it, and a registered flight has its leader in the factory.
THEOREM MemoryInvariant == ~Redis /\ Spec => []MemoryInv
BY MemoryInit, MemoryStep, Invariant, PTL DEF Spec

\* Without Redis a follower never waits for a future nobody will resolve,
\* whoever is cancelled and whatever fails. With Redis it may.
THEOREM NobodyOrphaned == ~Redis /\ Spec => []FollowersHaveLeader
<1>1. MemoryInv => FollowersHaveLeader
  BY DEF MemoryInv
<1> QED
  BY <1>1, MemoryInvariant, PTL

(***************************************************************************)
(* Lookups overtaken by a fetch                                            *)
(***************************************************************************)

LEMMA LookupInit == Init => LookupInv
BY DEF Init, LookupInv, Entry

\* One case per way the store in use, or what it holds, may change.
LEMMA LookupStep == FlightInv /\ LookupInv /\ [Next]_vars => LookupInv'
<1> SUFFICES ASSUME FlightInv, LookupInv, [Next]_vars PROVE LookupInv'
  OBVIOUS
<1> DEFINE Missing(d) == pc[d] = "join" \/ (pc[d] = "asked" /\ ~up)
<1>0. TypeOK
  BY DEF FlightInv
<1>1. CASE UNCHANGED vars
  BY <1>1 DEF vars, LookupInv, Entry
<1>2. ASSUME Next PROVE LookupInv'
  <2>1. History
    BY <1>2 DEF Next
  <2>2. (up' => local' = 0) /\ \A d \in Callers : pc'[d] = "read" => ~up'
    BY <1>0, <1>2
    DEF Next, Step, Call, Asks, Hit, RemoteMiss, GetFails, Lead, Follow, FetchedRemote,
        FetchedLocal, FetchFails, RemoteSet, SetFails, StoredLocally, Settle, Resume,
        Cancel, AfterFollowerCancelled, CancelledInFactory, Resolve, Uncaught, Return,
        Expire, caches, counts, LookupInv, TypeOK
  <2>3. ASSUME Entry' # 0, NEW d \in Callers, Missing(d)' PROVE d \in overtaken'
    <3>1. d \in Underway'
      BY <2>3 DEF Underway
    <3>2. CASE <<up, Entry>>' # <<up, Entry>>
      BY <2>1, <2>3, <3>1, <3>2 DEF History
    <3>3. CASE <<up, Entry>>' = <<up, Entry>>
      <4>1. up' = up /\ Entry # 0
        BY <2>3, <3>3
      <4>2. Missing(d)
        BY <1>0, <1>2, <2>3, <4>1
        DEF Next, Step, Call, Asks, Hit, RemoteMiss, GetFails, Lead, Follow, FetchedRemote,
            FetchedLocal, FetchFails, RemoteSet, SetFails, StoredLocally, Settle, Resume,
            Cancel, AfterFollowerCancelled, CancelledInFactory, Resolve, Uncaught, Return,
            Expire, caches, counts, Entry, TypeOK
      <4>3. d \in overtaken
        BY <4>1, <4>2 DEF LookupInv
      <4> QED
        BY <2>1, <3>1, <3>3, <4>3 DEF History
    <3> QED
      BY <3>2, <3>3
  <2> QED
    BY <2>2, <2>3 DEF LookupInv
<1> QED
  BY <1>1, <1>2

\* A value that is still stored (Cache.get_or_set, whose lookup and registration
\* are not one step with Redis) is fetched again only by callers that were looking
\* it up when it was stored, whatever fails or is cancelled, with any number of
\* tasks, with or without Redis.
THEOREM RefetchedByOvertakenOnly == Spec => OnlyOvertakenRefetch
<1> DEFINE Fine == \A c \in Callers :
             Entry # 0 /\ pc[c] # "fetch" /\ pc'[c] = "fetch" => c \in overtaken
<1>1. FlightInv /\ LookupInv /\ [Next]_vars => [Fine]_vars
  <2> SUFFICES ASSUME FlightInv, LookupInv, Next,
                      NEW c \in Callers, Entry # 0, pc[c] # "fetch", pc'[c] = "fetch"
               PROVE  c \in overtaken
    BY DEF vars
  <2>1. Lead(c)
    BY DEF Next, Step, Call, Asks, Hit, RemoteMiss, GetFails, Lead, Follow, FetchedRemote,
       FetchedLocal, FetchFails, RemoteSet, SetFails, StoredLocally, Settle, Resume,
       Cancel, AfterFollowerCancelled, CancelledInFactory, Resolve, Uncaught, Return,
       Expire, counts, FlightInv, TypeOK
  <2> QED
    BY <2>1 DEF Lead, Missed, Entry, LookupInv
<1> QED
  BY <1>1, LookupInit, LookupStep, Invariant, PTL DEF Spec, OnlyOvertakenRefetch
=============================================================================
