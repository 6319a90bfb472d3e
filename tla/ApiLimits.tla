------------------------------ MODULE ApiLimits ------------------------------
(***************************************************************************)
(* The routes of favourites behind their rate limit: every POST and DELETE *)
(* depends on write_limit (app/api/deps.py), which the limiter decides     *)
(* before the handler runs. Devices are the identities the limiter counts. *)
(***************************************************************************)
EXTENDS Favorites, RateLimiter

\* The two modules speak of the same requests and devices.
ASSUME ApiAssumption == Calls = Requests /\ Clients = Devices

VARIABLES
  uncounted   \* history: a device had more requests in service than the limiter
              \* still counted

apiVars == <<favVars, rateVars, uncounted>>

\* The requests of a device that are let through and not over, and the entries
\* that count against it.
InService(d) == {q \in Requests : check[q].at = "granted" /\ check[q].client = d}
CountedFor(d) == {e \in entries : e.client = d /\ e.status = "granted"}

ApiInit ==
  /\ FavInit /\ RateInit
  /\ uncounted = FALSE

\* The dependency: it lets the request through, or answers 429. A request of
\* another route with the same limit ends here.
Depend(q) ==
  /\ Asks(q) \/ Decide(q) \/ (handler[q] = Resting /\ Dismiss(q))
  /\ UNCHANGED favVars

\* The handler runs for the device the limiter counted.
Serve(q) ==
  /\ check[q].at = "granted"
  /\ \/ \E w \in Wishes : Save(q, check[q].client, w)
     \/ \E id \in Ids : id <= made /\ Remove(q, check[q].client, id)
  /\ UNCHANGED rateVars

Run(q) ==
  /\ Handle(q)
  /\ IF handler'[q] = Resting THEN Dismiss(q) ELSE UNCHANGED rateVars

\* Time passes, whatever is being served: nothing bounds a handler.
Pass == RateTick /\ UNCHANGED favVars

ApiNext ==
  /\ (\E q \in Requests : Depend(q) \/ Serve(q) \/ Run(q)) \/ Pass
  /\ uncounted' = (uncounted \/ \E d \in Devices :
                     Cardinality(InService(d)') > Cardinality(CountedFor(d)'))

ApiSpec == ApiInit /\ [][ApiNext]_apiVars

-----------------------------------------------------------------------------
\* The write limit caps the overrun of the limit of saved places, however many
\* requests there are: while all workers share Redis a device passes its limit
\* by less than RateLimit, and by RateLimit more for each worker that has fallen
\* back to memory. This takes handlers that end before their entry does: from
\* the time one outlives the window, or its window is evicted, nothing is said.
RateCapsOverrun ==
  uncounted \/
  \A d \in Devices :
    Cardinality(RowsOf(d)) <= FavLimit + RateLimit * (Cardinality(Fallen) + 1) - 1

\* The same without the exception.
AlwaysCapsOverrun ==
  \A d \in Devices :
    Cardinality(RowsOf(d)) <= FavLimit + RateLimit * (Cardinality(Fallen) + 1) - 1
=============================================================================
