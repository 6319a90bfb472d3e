---------------------------- MODULE SingleFlight ----------------------------
(***************************************************************************)
(* The response cache of app/core/cache.py: Cache.get_or_set for one key,  *)
(* the memory and Redis stores behind it, and the in-flight table that     *)
(* collapses concurrent misses into one call of the factory.               *)
(*                                                                         *)
(* Callers are asyncio tasks of one process. A task gives way only where   *)
(* it really waits: on Redis, on the factory, on another task's future.    *)
(* The two asyncio locks are never held across a wait, so they are never   *)
(* contended and taking one is not a step of its own; with the memory      *)
(* store a lookup and the registration after it are one step.              *)
(*                                                                         *)
(* Calls of the factory are numbered: flight n is the future and the value *)
(* of the n-th one, and 0 is no flight. Time is abstracted to the moment   *)
(* an entry expires or is evicted.                                         *)
(***************************************************************************)
EXTENDS Integers

CONSTANTS
  Callers,      \* tasks that want the key
  Redis,        \* REDIS_URL is set and answered at start-up
  MaxCalls,     \* bound: calls of get_or_set
  MaxFailures,  \* bound: failed factories and Redis errors
  MaxCancels    \* bound: cancelled tasks

ASSUME CacheAssumption ==
  /\ Redis \in BOOLEAN
  /\ MaxCalls \in Nat /\ MaxFailures \in Nat /\ MaxCancels \in Nat

VARIABLES
  remote,     \* the value Redis holds
  local,      \* the value the memory store holds
  up,         \* _redis_available
  inflight,   \* _inflight: the registered future
  future,     \* per flight: the state of its future
  ended,      \* per flight: how the call that led it ended
  pc,         \* per task: where it is
  flight,     \* per task: the flight it leads or follows
  overtaken,  \* history: lookups under way when the stored value was stored
  calls, flights, failures, cancels

caches == <<remote, local, up>>
counts == <<calls, failures, cancels>>
vars == <<remote, local, up, inflight, future, ended, pc, flight,
          overtaken, calls, flights, failures, cancels>>

Flights == 1..MaxCalls
Waiting == {"asked", "read", "join", "follow", "fetch", "set", "settle"}
Leading == {"fetch", "set", "settle"}

TypeOK ==
  /\ remote \in 0..MaxCalls /\ local \in 0..MaxCalls /\ inflight \in 0..MaxCalls
  /\ up \in BOOLEAN
  /\ future \in [Flights -> {"none", "pending", "value", "error", "cancelled"}]
  /\ ended \in [Flights -> {"none", "value", "error", "cancelled"}]
  /\ pc \in [Callers -> Waiting \cup {"idle"}]
  /\ flight \in [Callers -> 0..MaxCalls]
  /\ overtaken \subseteq Callers
  /\ calls \in 0..MaxCalls /\ flights \in 0..MaxCalls
  /\ failures \in 0..MaxFailures /\ cancels \in 0..MaxCancels

Init ==
  /\ remote = 0 /\ local = 0 /\ up = Redis /\ inflight = 0
  /\ future = [f \in Flights |-> "none"] /\ ended = [f \in Flights |-> "none"]
  /\ pc = [c \in Callers |-> "idle"] /\ flight = [c \in Callers |-> 0]
  /\ overtaken = {}
  /\ calls = 0 /\ flights = 0 /\ failures = 0 /\ cancels = 0

-----------------------------------------------------------------------------
\* What Cache.get would find now.
Entry == IF up THEN remote ELSE local

Return(c) ==
  /\ pc' = [pc EXCEPT ![c] = "idle"]
  /\ flight' = [flight EXCEPT ![c] = 0]

\* Bound: at most MaxFailures failures.
Failure == failures < MaxFailures /\ failures' = failures + 1

\* A task asks for the key: of Redis, or of the memory store.
Asks_Redis == "asked"
Asks == IF up THEN "asked" ELSE "read"

Call(c) ==
  /\ pc[c] = "idle" /\ calls < MaxCalls
  /\ calls' = calls + 1
  /\ pc' = [pc EXCEPT ![c] = Asks]
  /\ UNCHANGED <<inflight, future, ended, flight, flights, failures, cancels>>
  /\ UNCHANGED caches

\* Cache.get finds the key.
Hit(c) ==
  /\ \/ pc[c] = "asked" /\ remote # 0
     \/ pc[c] = "read" /\ local # 0
  /\ Return(c)
  /\ UNCHANGED <<inflight, future, ended, flights>> /\ UNCHANGED caches /\ UNCHANGED counts

\* Redis answers nil: the reply is on its way while other tasks run.
RemoteMiss(c) ==
  /\ pc[c] = "asked" /\ remote = 0
  /\ pc' = [pc EXCEPT ![c] = "join"]
  /\ UNCHANGED <<inflight, future, ended, flight, flights>>
  /\ UNCHANGED caches /\ UNCHANGED counts

\* Redis GET fails: the memory store is used, for good.
GetFails(c) ==
  /\ pc[c] = "asked"
  /\ Failure
  /\ up' = FALSE
  /\ pc' = [pc EXCEPT ![c] = "read"]
  /\ UNCHANGED <<remote, local, inflight, future, ended, flight, calls, flights, cancels>>

\* The task has missed and is about to look at the in-flight table.
Missed(c) == pc[c] = "join" \/ (pc[c] = "read" /\ local = 0)

Vacant_NotChecked == TRUE
Vacant == inflight = 0

\* Nobody is fetching: register a future and call the factory. A call leads at
\* most once, so MaxCalls bounds the flights as well.
Lead(c) ==
  /\ Missed(c) /\ Vacant /\ flights < MaxCalls
  /\ flights' = flights + 1
  /\ inflight' = flights + 1
  /\ future' = [future EXCEPT ![flights + 1] = "pending"]
  /\ flight' = [flight EXCEPT ![c] = flights + 1]
  /\ pc' = [pc EXCEPT ![c] = "fetch"]
  /\ UNCHANGED ended /\ UNCHANGED caches /\ UNCHANGED counts

\* Someone is: ride along on the registered future.
Follow(c) ==
  /\ Missed(c) /\ inflight # 0
  /\ flight' = [flight EXCEPT ![c] = inflight]
  /\ pc' = [pc EXCEPT ![c] = "follow"]
  /\ UNCHANGED <<inflight, future, ended, flights>>
  /\ UNCHANGED caches /\ UNCHANGED counts

\* The table is emptied and the future resolved without a wait in between.
Resolve(c, how) ==
  /\ inflight' = 0
  /\ future' = [future EXCEPT ![flight[c]] = IF @ = "pending" THEN how ELSE @]
  /\ ended' = [ended EXCEPT ![flight[c]] = how]
  /\ Return(c)

\* The task ends with an exception nothing catches: its future stays.
Uncaught(c) ==
  /\ ended' = [ended EXCEPT ![flight[c]] = "cancelled"]
  /\ Return(c)
  /\ UNCHANGED <<inflight, future>>

\* The factory returned; the value is on its way to Redis ...
FetchedRemote(c) ==
  /\ pc[c] = "fetch" /\ up
  /\ pc' = [pc EXCEPT ![c] = "set"]
  /\ UNCHANGED <<inflight, future, ended, flight, flights>>
  /\ UNCHANGED caches /\ UNCHANGED counts

\* ... or stored in memory, and the call is over.
FetchedLocal(c) ==
  /\ pc[c] = "fetch" /\ ~up
  /\ local' = flight[c]
  /\ Resolve(c, "value")
  /\ UNCHANGED <<remote, up, flights>> /\ UNCHANGED counts

FetchFails(c) ==
  /\ pc[c] = "fetch"
  /\ Failure
  /\ Resolve(c, "error")
  /\ UNCHANGED <<calls, flights, cancels>> /\ UNCHANGED caches

\* Redis has stored the value; its reply is on its way.
RemoteSet(c) ==
  /\ pc[c] = "set"
  /\ remote' = flight[c]
  /\ pc' = [pc EXCEPT ![c] = "settle"]
  /\ UNCHANGED <<local, up, inflight, future, ended, flight, flights>> /\ UNCHANGED counts

\* Redis SET fails, or its reply is lost: the memory store is used, for good.
StoredLocally_Raised(c) == Uncaught(c) /\ UNCHANGED local
StoredLocally(c) == Resolve(c, "value") /\ local' = flight[c]

SetFails(c) ==
  /\ pc[c] \in {"set", "settle"}
  /\ Failure
  /\ up' = FALSE
  /\ StoredLocally(c)
  /\ UNCHANGED <<remote, calls, flights, cancels>>

Settle(c) ==
  /\ pc[c] = "settle"
  /\ Resolve(c, "value")
  /\ UNCHANGED flights /\ UNCHANGED caches /\ UNCHANGED counts

\* A follower wakes up with the result, or the exception, of its leader.
Resume(c) ==
  /\ pc[c] = "follow" /\ future[flight[c]] # "pending"
  /\ Return(c)
  /\ UNCHANGED <<inflight, future, ended, flights>> /\ UNCHANGED caches /\ UNCHANGED counts

\* The future after a follower is cancelled: asyncio.shield leaves it alone.
AfterFollowerCancelled_NoShield(f) == [future EXCEPT ![f] = "cancelled"]
AfterFollowerCancelled(f) == future

\* except BaseException catches the cancellation of a leader in its factory.
CancelledInFactory_Uncaught(c) == Uncaught(c)
CancelledInFactory(c) == Resolve(c, "cancelled")

\* A task is cancelled where it waits. The except clause covers the factory
\* only: a leader cancelled while Redis stores the value leaves its future
\* registered and unresolved.
Cancel(c) ==
  /\ cancels < MaxCancels /\ cancels' = cancels + 1
  /\ \/ /\ pc[c] \in {"asked", "read", "join"}
        /\ Return(c)
        /\ UNCHANGED <<inflight, future, ended>>
     \/ /\ pc[c] = "follow"
        /\ future' = AfterFollowerCancelled(flight[c])
        /\ Return(c)
        /\ UNCHANGED <<inflight, ended>>
     \/ /\ pc[c] = "fetch"
        /\ CancelledInFactory(c)
     \/ /\ pc[c] \in {"set", "settle"}
        /\ Uncaught(c)
  /\ UNCHANGED <<calls, flights, failures>> /\ UNCHANGED caches

\* The time to live passes, or other keys push the entry out.
Expire ==
  /\ \/ remote # 0 /\ remote' = 0 /\ UNCHANGED local
     \/ local # 0 /\ local' = 0 /\ UNCHANGED remote
  /\ UNCHANGED <<up, inflight, future, ended, pc, flight, flights>> /\ UNCHANGED counts

-----------------------------------------------------------------------------
Step(c) ==
  \/ Hit(c) \/ RemoteMiss(c) \/ Lead(c) \/ Follow(c)
  \/ FetchedRemote(c) \/ FetchedLocal(c) \/ RemoteSet(c) \/ Settle(c) \/ Resume(c)

Underway == {c \in Callers : pc[c] \in {"asked", "read", "join"}}

\* Whenever a value is put into the store in use, or the other store is taken
\* into use with one, the lookups under way are overtaken by it.
History ==
  overtaken' = IF Entry' # 0 /\ <<up, Entry>>' # <<up, Entry>> THEN Underway'
               ELSE overtaken \cap Underway'

Next ==
  /\ \/ \E c \in Callers : \/ Call(c) \/ Step(c) \/ Cancel(c)
                           \/ GetFails(c) \/ FetchFails(c) \/ SetFails(c)
     \/ Expire
  /\ History

Spec == Init /\ [][Next]_vars

\* The event loop runs every task that can run, and what a task waits for
\* answers. Nobody has to call, cancel, fail or expire.
FairSpec == Spec /\ \A c \in Callers : WF_vars(Step(c) /\ History)

-----------------------------------------------------------------------------
\* Single flight: the factory is never running twice.
OneFetch ==
  \A c, d \in Callers : pc[c] = "fetch" /\ pc[d] = "fetch" => c = d

\* A follower waits for a future that some task is still going to resolve, or
\* that is resolved already.
FollowersHaveLeader ==
  \A c \in Callers : pc[c] = "follow" =>
    \/ future[flight[c]] # "pending"
    \/ \E d \in Callers : pc[d] \in Leading /\ flight[d] = flight[c]

\* Followers learn exactly what their leader learnt: in particular a follower
\* that is cancelled spoils the fetch for nobody.
AgreeWithLeader ==
  \A f \in Flights : future[f] \notin {"none", "pending"} => future[f] = ended[f]

\* A value the store in use still holds is fetched again only by a caller that
\* was already looking it up when it was stored: one that Redis had told it was
\* not there, or one still waiting for Redis when the others went over to the
\* memory store. Whoever asks after that is served from the cache.
OnlyOvertakenRefetch ==
  [][\A c \in Callers :
       Entry # 0 /\ pc[c] # "fetch" /\ pc'[c] = "fetch" => c \in overtaken]_vars

\* What makes it so: memory holds nothing while Redis is in use, and a task that
\* has missed, or may still be told so by a Redis that is no longer in use, was
\* there before the value.
LookupInv ==
  /\ up => local = 0
  /\ \A c \in Callers : pc[c] = "read" => ~up
  /\ Entry # 0 =>
       \A c \in Callers : pc[c] = "join" \/ (pc[c] = "asked" /\ ~up) => c \in overtaken

\* No fetch starts while the cache holds a fresh value.
FreshNotRefetched ==
  [][flights' > flights => Entry = 0]_vars

\* Every call returns.
CallsReturn == \A c \in Callers : pc[c] # "idle" ~> pc[c] = "idle"

\* What makes OneFetch and AgreeWithLeader inductive. A leader, from the
\* registration of its future to its removal, is the only one, and its future
\* is the registered one and still pending.
OneLeader ==
  /\ inflight <= flights
  /\ \A f \in Flights : f > flights => future[f] = "none"
  /\ \A c \in Callers : pc[c] = "follow" => flight[c] \in 1..flights
  /\ \A c \in Callers : pc[c] \in Leading =>
       flight[c] # 0 /\ flight[c] = inflight /\ future[flight[c]] = "pending"
  /\ \A c, d \in Callers : pc[c] \in Leading /\ pc[d] \in Leading => c = d

FlightInv == TypeOK /\ OneLeader /\ AgreeWithLeader

\* Without Redis nothing waits after the factory, and every registered future
\* has its leader.
MemoryInv ==
  /\ ~up
  /\ \A c \in Callers : pc[c] \notin {"asked", "join", "set", "settle"}
  /\ inflight # 0 => \E c \in Callers : pc[c] = "fetch" /\ flight[c] = inflight
  /\ FollowersHaveLeader
=============================================================================
