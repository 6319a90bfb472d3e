----------------------------- MODULE RateLimiter -----------------------------
(***************************************************************************)
(* app/core/rate_limit.py for one bucket: the sliding-window log in Redis, *)
(* shared by the workers, and the bounded windows in the memory of each    *)
(* worker that take over, for good, once Redis has failed it.              *)
(*                                                                         *)
(* The pipeline of Redis is one atomic step, and so is the check in memory *)
(* (its lock is never held over a wait). Time passes in ticks; an entry    *)
(* Window ticks old no longer counts, and every check drops those first.   *)
(*                                                                         *)
(* The log of Redis and the windows are one set of entries, each with the  *)
(* store it is at.                                                         *)
(***************************************************************************)
EXTENDS Integers, FiniteSets, Sequences

CONSTANTS
  Workers,       \* processes of the API
  Clients,       \* identities: a device, or an address without one
  Calls,         \* requests served at the same time
  RateLimit,     \* requests of a client per window
  Window,        \* rate_limit_window_seconds, in ticks
  MaxKeys,       \* _MAX_MEMORY_KEYS
  SharedLog,     \* REDIS_URL is set and answered at start-up
  MaxMembers,    \* bound: entries of one client in one store
  MaxRateErrors  \* bound: errors of Redis

ASSUME RateAssumption ==
  /\ RateLimit \in Nat \ {0} /\ Window \in Nat \ {0} /\ MaxKeys \in Nat \ {0}
  /\ SharedLog \in BOOLEAN
  /\ MaxMembers \in Nat /\ RateLimit <= MaxMembers /\ MaxRateErrors \in Nat
  /\ IsFiniteSet(Workers) /\ IsFiniteSet(Calls)
  /\ "redis" \notin Workers /\ {"granted", "lost"} \cap Calls = {}

VARIABLES
  entries,       \* the entries of all logs and windows
  order,         \* per worker: _windows, least recently used first
  onRedis,       \* per worker: _redis_available
  check,         \* per request: where its check is
  rateErrors

rateVars == <<entries, order, onRedis, check, rateErrors>>

Stores == Workers \cup {"redis"}

Members == 1..MaxMembers

\* An entry is granted if the request was let through, or will be. Otherwise it
\* names the request that is to roll it back, or is lost: none will.
Entry == [at : Stores, client : Clients, member : Members, age : 0..(Window - 1),
          status : {"granted", "lost"} \cup Calls]

Asking == [at : {"asked", "rollback", "oldest"}, worker : Workers, client : Clients]
LetIn == [at : {"granted"}, client : Clients]

Unchecked == [at |-> "idle"]

RateTypeOK ==
  /\ entries \subseteq Entry
  /\ order \in [Workers -> Seq(Clients)]
  /\ onRedis \in [Workers -> BOOLEAN]
  /\ check \in [Calls -> {Unchecked} \cup Asking \cup LetIn]
  /\ rateErrors \in 0..MaxRateErrors

RateInit ==
  /\ entries = {} /\ order = [w \in Workers |-> <<>>]
  /\ onRedis = [w \in Workers |-> SharedLog]
  /\ check = [q \in Calls |-> Unchecked] /\ rateErrors = 0

-----------------------------------------------------------------------------
Of(es, at, c) == {e \in es : e.at = at /\ e.client = c}

\* The uuid: a member no entry of the key has.
Fresh(es, at, c) == CHOOSE m \in Members : \A e \in Of(es, at, c) : e.member # m

New(es, at, c, status, age) ==
  [at |-> at, client |-> c, member |-> Fresh(es, at, c), age |-> age, status |-> status]

Goes(q, w, c, at) ==
  check' = [check EXCEPT ![q] = [at |-> at, worker |-> w, client |-> c]]
Grant(q, c) == check' = [check EXCEPT ![q] = [at |-> "granted", client |-> c]]
Refuse(q) == check' = [check EXCEPT ![q] = Unchecked]

\* The windows of w once that of c was used: a new one comes last, and so does
\* one that was there (move_to_end).
MovedToEnd(s, k) ==
  [i \in 1..Len(s) |-> IF i < k THEN s[i] ELSE IF i < Len(s) THEN s[i + 1] ELSE s[k]]
Used_NotEntered(w, c) == order[w]
Used(w, c) ==
  LET s == order[w]
  IN IF \E k \in DOMAIN s : s[k] = c
     THEN MovedToEnd(s, CHOOSE k \in DOMAIN s : s[k] = c)
     ELSE Append(s, c)

\* The window of c goes, with what was counted in it.
Evict(es, w, c) == es \ Of(es, w, c)

Overfull(w, c) == Len(Used(w, c)) > MaxKeys

\* _check_memory, with es the entries there are. The least recently used window
\* is evicted when the table is full, empty or not.
CheckMemory(q, w, c, es) ==
  LET used == Used(w, c)
      counted == es \cup {New(es, w, c, "granted", 0)}
  IN IF Cardinality(Of(es, w, c)) >= RateLimit
     THEN /\ Refuse(q)
          /\ entries' = es
          /\ order' = [order EXCEPT ![w] = used]
     ELSE /\ Grant(q, c)
          /\ IF Overfull(w, c)
             THEN /\ entries' = Evict(counted, w, Head(used))
                  /\ order' = [order EXCEPT ![w] = Tail(used)]
             ELSE /\ entries' = counted
                  /\ order' = [order EXCEPT ![w] = used]

\* Bound: Redis has room for another entry of the client.
MembersLeft(c) == Cardinality(Of(entries, "redis", c)) < MaxMembers

\* A request of client c reaches worker w, which asks Redis or its own memory.
Ask(q, w, c) ==
  /\ check[q] = Unchecked
  /\ IF onRedis[w]
     THEN Goes(q, w, c, "asked") /\ UNCHANGED <<entries, order>>
     ELSE CheckMemory(q, w, c, entries)
  /\ UNCHANGED <<onRedis, rateErrors>>

WithinLimit_OneMore(count) == count <= RateLimit + 1
WithinLimit(count) == count <= RateLimit

\* An entry has the time its request was asked about. A tick may have passed
\* since then, and no more: the socket times out after 3 seconds.
Lags == {age \in {0, 1} : age < Window}

\* _check_redis: the pipeline enters the request and counts, itself included.
CheckRedis(q) ==
  LET w == check[q].worker
      c == check[q].client
  IN /\ check[q].at = "asked" /\ MembersLeft(c)
     /\ \E age \in Lags :
          IF WithinLimit(Cardinality(Of(entries, "redis", c)) + 1)
          THEN /\ entries' = entries \cup {New(entries, "redis", c, "granted", age)}
               /\ Grant(q, c)
          ELSE /\ entries' = entries \cup {New(entries, "redis", c, q, age)}
               /\ Goes(q, w, c, "rollback")
     /\ UNCHANGED <<order, onRedis, rateErrors>>

\* zrem: the entry of a refused request is taken back, unless it has aged out.
RolledBack_Kept(q) == entries
RolledBack(q) == {e \in entries : e.status # q}

RollBack(q) ==
  /\ check[q].at = "rollback"
  /\ entries' = RolledBack(q)
  /\ Goes(q, check[q].worker, check[q].client, "oldest")
  /\ UNCHANGED <<order, onRedis, rateErrors>>

\* zrange, for Retry-After.
ReadOldest(q) ==
  /\ check[q].at = "oldest"
  /\ Refuse(q)
  /\ UNCHANGED <<entries, order, onRedis, rateErrors>>

\* An entry the request will not roll back any more.
Abandon(q, e) == IF e.status = q THEN [e EXCEPT !.status = "lost"] ELSE e

\* What the statement that failed may have done before its reply was lost.
AfterError(q) ==
  CASE check[q].at = "asked" ->
         {entries} \cup
         {entries \cup {New(entries, "redis", check[q].client, "lost", age)} : age \in Lags}
    [] check[q].at = "rollback" -> {RolledBack(q), {Abandon(q, e) : e \in entries}}
    [] check[q].at = "oldest" -> {entries}

\* _redis_available after an error of Redis.
AfterFailure_AskedAgain(w) == onRedis
AfterFailure(w) == [onRedis EXCEPT ![w] = FALSE]

\* Redis fails: the worker never asks it again, and checks once more in memory.
RedisFails(q) ==
  /\ check[q].at \in {"asked", "rollback", "oldest"}
  /\ check[q].at = "asked" => MembersLeft(check[q].client)
  /\ rateErrors < MaxRateErrors /\ rateErrors' = rateErrors + 1
  /\ onRedis' = AfterFailure(check[q].worker)
  /\ \E es \in AfterError(q) : CheckMemory(q, check[q].worker, check[q].client, es)

\* A request that was let through is over.
Dismiss(q) ==
  /\ check[q].at = "granted"
  /\ check' = [check EXCEPT ![q] = Unchecked]
  /\ UNCHANGED <<entries, order, onRedis, rateErrors>>

\* A tick: entries a whole window old no longer count anywhere.
Older(e) == [e EXCEPT !.age = @ + 1]

RateTick ==
  /\ entries' = {Older(e) : e \in {f \in entries : f.age + 1 < Window}}
  /\ entries # {}
  /\ UNCHANGED <<order, onRedis, check, rateErrors>>

-----------------------------------------------------------------------------
Asks(q) == \E w \in Workers, c \in Clients : Ask(q, w, c)
Decide(q) == CheckRedis(q) \/ RollBack(q) \/ ReadOldest(q) \/ RedisFails(q)

RateNext == (\E q \in Calls : Asks(q) \/ Decide(q) \/ Dismiss(q)) \/ RateTick

RateSpec == RateInit /\ [][RateNext]_rateVars

-----------------------------------------------------------------------------
Granted(at, c) == {e \in Of(entries, at, c) : e.status = "granted"}

\* No log or window lets a client through more often than the limit allows, in
\* any window of time.
LimitedPerStore ==
  \A at \in Stores, c \in Clients : Cardinality(Granted(at, c)) <= RateLimit

\* What the comments promise of the whole: one limit for all workers that are
\* on Redis, one more for each that has fallen back to memory; what was evicted
\* comes on top.
Fallen == {w \in Workers : ~onRedis[w]}
RateBounded ==
  \A c \in Clients :
    Cardinality({e \in entries : e.client = c /\ e.status = "granted"})
      <= RateLimit * (Cardinality(Fallen) + (IF SharedLog THEN 1 ELSE 0))

\* A refused request does not weigh on the others for longer than its rollback
\* takes, unless an error of Redis came between.
LogAccounted ==
  Cardinality({e \in entries : e.at = "redis" /\ e.status # "granted"})
    <= Cardinality({q \in Calls : check[q].at = "rollback"}) + rateErrors

\* The table of windows is bounded, holds every window there is, and a key once.
TableBounded ==
  \A w \in Workers :
    /\ Len(order[w]) <= MaxKeys
    /\ \A i, j \in DOMAIN order[w] : order[w][i] = order[w][j] => i = j
    /\ \A e \in entries : e.at = w => \E i \in DOMAIN order[w] : order[w][i] = e.client

RateInv == RateTypeOK /\ TableBounded

\* The comment on the rollback: a refused request does not count against the
\* next. It does until it is rolled back.
RefusedAtLimitOnly ==
  [][\A q \in Calls : CheckRedis(q) /\ check'[q].at = "rollback" =>
       Cardinality(Granted("redis", check[q].client)) >= RateLimit]_rateVars

\* The comment on the eviction: empty windows go first. The oldest goes.
EmptyEvictedFirst ==
  [][\A w \in Workers : \A i \in DOMAIN order[w] :
       /\ Of(entries, w, order[w][i]) # {}
       /\ \A j \in DOMAIN order'[w] : order'[w][j] # order[w][i]
       => \A j \in DOMAIN order[w] : Of(entries, w, order[w][j]) # {}]_rateVars
=============================================================================
