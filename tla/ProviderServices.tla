--------------------------- MODULE ProviderServices ---------------------------
(***************************************************************************)
(* The services over public data: aqi.py, weather.py, disasters.py, geo.py *)
(* and ai.py of app/services, behind their routes. A service reads some    *)
(* sources, each through the cache, and composes an answer of whatever it  *)
(* got: sources fail one by one, and an answer has to say what it rests    *)
(* on.                                                                     *)
(*                                                                         *)
(* A source is asked by UpstreamRequest and cached by SingleFlight: here   *)
(* one step reads it, from the cache or from its provider. What a provider *)
(* replies is abstracted to what the services tell apart:                  *)
(*   "down"   it cannot be reached, refuses, or is not configured          *)
(*   "odd"    an answer of another shape than it documents                 *)
(*   "bare"   the right shape, without the series or list that is wanted   *)
(*   "blank"  the series or list, without values                           *)
(*   "calm"   values, and nothing to warn of                               *)
(*   "hazard" values that call for a warning                               *)
(* Time passes in ticks, and no request takes one: the shortest TTL, five   *)
(* minutes, is at least one. A TTL of 0 would turn a cache off. Everybody  *)
(* asks for one place with the same parameters: entries of other keys do   *)
(* not meet.                                                               *)
(***************************************************************************)
EXTENDS HazardRules

CONSTANTS
  Requests,      \* requests served at the same time
  Services,      \* the services that are asked, of AllServices
  Life,          \* per source and composed answer: its TTL, in ticks
  MaxAsked       \* bound: requests

Events == {"quakes", "eonet", "gdacs", "cases"}
Cached == Events \cup {"air", "stations", "tile", "current", "forecast", "rain", "frames",
                       "articles", "place", "hospitals"}
\* Asked every time: the payload of a nowcast and the language model.
Uncached == {"rain15", "model"}
Sources == Cached \cup Uncached

\* Answers that are cached as a whole.
Composed == {"nowcast", "impact", "disease"}

\* The services, by the router they are asked at. saved asks for the events near a
\* saved place, and all are near; misnamed is the feed of a category there is none
\* of; wider asks for hospitals in a wider radius, of the same whole kilometres.
AirRoutes == {"air", "nearby", "tile", "intel"}
WeatherRoutes == {"weather", "forecast", "nowcast", "radar", "flood"}
DisasterRoutes == {"earthquakes", "events", "alerts", "all", "withoutPandemics", "misnamed", "news"}
FavoriteRoutes == {"saved"}
PlaceRoutes == {"reverse", "hospitals", "wider"}
AiRoutes == {"impact", "health", "chat", "disease"}
AllServices == AirRoutes \cup WeatherRoutes \cup DisasterRoutes \cup FavoriteRoutes
                 \cup PlaceRoutes \cup AiRoutes

ASSUME ServicesAssumption ==
  /\ Services \subseteq AllServices
  /\ Life \in [Cached \cup Composed -> Nat \ {0}]
  /\ MaxAsked \in Nat

VARIABLES
  cache,         \* what is cached of the sources: a reading for some of them
  answers,       \* and of the composed answers: what they were composed of
  request,       \* per request: where it is, and what it read
  asked

vars == <<cache, answers, request, asked>>

-----------------------------------------------------------------------------
\* The sources a service reads, and for health advice the readings its caller sends.
Legs(s) ==
  CASE s \in {"air", "tile", "forecast", "hospitals"} -> {s}
    [] s = "wider" -> {"hospitals"}
    [] s = "nearby" -> {"stations"}
    [] s = "intel" -> {"air", "current", "stations"}
    [] s = "weather" -> {"current"}
    [] s = "nowcast" -> {"rain15", "frames"}
    [] s = "radar" -> {"frames"}
    [] s = "flood" -> {"rain", "gdacs"}
    [] s = "earthquakes" -> {"quakes"}
    [] s = "events" -> {"eonet"}
    [] s = "alerts" -> {"gdacs"}
    [] s \in {"all", "saved", "misnamed"} -> Events
    [] s = "withoutPandemics" -> Events \ {"cases"}
    [] s = "news" -> {"articles"}
    [] s = "reverse" -> {"place"}
    [] s \in {"impact", "chat"} -> {"model"}
    [] s = "health" -> {"caller", "model"}
    [] s = "disease" -> {"place", "current", "air", "model"}

\* The replies of a provider that its reader tells apart. One that cannot be reached
\* and one that answers in another shape are the same to most.
\* USGS, EONET, GDACS and the case counts: a list of events, which may be empty.
QuakeReplies == {"odd", "blank", "hazard"}
EonetReplies == {"odd", "blank", "hazard"}
GdacsReplies == {"odd", "blank", "hazard"}
CaseReplies == {"odd", "blank", "hazard"}
\* WAQI: a reading, with an index or "-" for none; the stations of a place; a tile,
\* which may be too large to keep.
AirReplies == {"down", "blank", "calm", "hazard"}
StationReplies == {"down", "odd", "calm"}
TileReplies == {"down", "blank", "calm"}
\* Open-Meteo: series of values, any of which may be null.
CurrentReplies == {"down", "blank", "calm"}
ForecastReplies == {"down", "bare", "blank", "calm"}
RainReplies == {"down", "bare", "blank", "calm", "hazard"}
Rain15Replies == {"down", "bare", "blank", "calm", "hazard"}
\* RainViewer: the frames of the radar, which may be none.
FrameReplies == {"down", "bare", "calm"}
\* GDELT: a list of articles.
ArticleReplies == {"down", "odd", "calm"}
\* OpenStreetMap: a place, or none; for the wider radius hospitals that the other
\* does not reach.
PlaceReplies == {"down", "blank", "calm"}
HospitalReplies(s) == {"down", IF s = "wider" THEN "far" ELSE "near"}
\* Gemini: a text that does not parse, one without the fields that are wanted, and
\* advice. Diseases that are no list at all make their reader raise.
ModelReplies(s) ==
  {"down", "odd", "blank", "calm", "hazard"} \cup (IF s = "disease" THEN {"bare"} ELSE {})
\* The caller of health advice: mild weather, and an air quality, or none.
CallerReplies == {"blank", "calm", "hazard"}

Replies(s, leg) ==
  CASE leg = "quakes" -> QuakeReplies
    [] leg = "eonet" -> EonetReplies
    [] leg = "gdacs" -> GdacsReplies
    [] leg = "cases" -> CaseReplies
    [] leg = "air" -> AirReplies
    [] leg = "stations" -> StationReplies
    [] leg = "tile" -> TileReplies
    [] leg = "current" -> CurrentReplies
    [] leg = "forecast" -> ForecastReplies
    [] leg = "rain" -> RainReplies
    [] leg = "rain15" -> Rain15Replies
    [] leg = "frames" -> FrameReplies
    [] leg = "articles" -> ArticleReplies
    [] leg = "place" -> PlaceReplies
    [] leg = "hospitals" -> HospitalReplies(s)
    [] leg = "model" -> ModelReplies(s)

\* What makes the reading of a source raise. A body of another shape, or a frame
\* that is not there, is no better than none; a forecast without its daily series
\* fails on the second day.
Raises(leg, reply) ==
  \/ reply = "down"
  \/ reply = "odd" /\ leg # "model"
  \/ reply = "bare" /\ leg = "frames"
  \/ reply = "blank" /\ leg = "forecast"

-----------------------------------------------------------------------------
\* What a service read: a reply and its age for each source, Failed where the
\* reading raised.
Unread == [reply |-> "unread", age |-> 0]
Failed == [reply |-> "failed", age |-> 0]
Reading(reply) == [reply |-> reply, age |-> 0]

Told == {"down", "odd", "bare", "blank", "calm", "hazard", "near", "far"}
AnyReply == {"unread", "failed"} \cup Told
Readings == [reply : AnyReply, age : Nat]

Got(basis, leg) == leg \in DOMAIN basis /\ basis[leg].reply # "failed"
Is(basis, leg, reply) == leg \in DOMAIN basis /\ basis[leg].reply = reply
LostLegs(basis) == {leg \in DOMAIN basis : basis[leg].reply = "failed"}

\* An answer: the rank it gives the danger, 0 for none and Unrated for none it
\* can tell; whether it says that it is complete; the sources it says are
\* missing; whether it says that it is the language model's.
Unrated == -1
Answer(rank, complete, missing, ai) ==
  [rank |-> rank, complete |-> complete, missing |-> missing, ai |-> ai]
Error == Answer(Unrated, FALSE, {}, FALSE)

\* The readings behind the replies.
Aqi(basis) ==
  IF Is(basis, "air", "hazard") THEN 180
  ELSE IF Is(basis, "air", "calm") THEN 30 ELSE NoReading
CallerAqi(basis) ==
  IF Is(basis, "caller", "hazard") THEN 250
  ELSE IF Is(basis, "caller", "calm") THEN 30 ELSE NoReading
RainOf(basis) == IF Is(basis, "rain", "hazard") THEN 900 ELSE 0
FloodsNear(basis) == IF Is(basis, "gdacs", "hazard") THEN 1 ELSE 0

\* by_coords and its like: the reading, or the error.
AirAnswer(basis) ==
  IF Got(basis, "air") THEN Answer(AqiLevel(Aqi(basis)) - 1, TRUE, {}, FALSE) ELSE Error

\* location_intel: what failed is named.
IntelAnswer(basis) ==
  Answer(AqiLevel(Aqi(basis)) - 1, LostLegs(basis) = {}, LostLegs(basis), FALSE)

\* aggregate behind its two routes, and the routes of single sources.
FeedAnswer(basis) ==
  Answer(Cardinality({leg \in DOMAIN basis : Is(basis, leg, "hazard")}),
         LostLegs(basis) = {}, LostLegs(basis), FALSE)
SourceAnswer(basis) == IF LostLegs(basis) = {} THEN FeedAnswer(basis) ELSE Error

\* The filter leaves nothing of a category that no event has.
MisnamedAnswer(basis) == [FeedAnswer(basis) EXCEPT !.rank = 0]

\* flood_risk: complete after both legs. Days are listed if the series came, with
\* 0 mm for a value that did not.
FloodComplete_RainOnly(basis) == Got(basis, "rain")
FloodComplete(basis) == Got(basis, "rain") /\ Got(basis, "gdacs")
FloodDays(basis) == \E r \in {"blank", "calm", "hazard"} : Is(basis, "rain", r)

FloodAnswer(basis) ==
  IF ~FloodComplete(basis) /\ ~FloodDays(basis) THEN Answer(Unrated, FALSE, {}, FALSE)
  ELSE Answer(FloodLevel(FloodScore(RainOf(basis), FloodsNear(basis))),
              FloodComplete(basis), {}, FALSE)

\* nowcast: the summary reads "no rain" where no step is wet. A value that is
\* missing counts as dry, and without a step the answer is not complete.
NowcastAnswer(basis) ==
  IF ~Got(basis, "rain15") THEN Error
  ELSE Answer(IF Is(basis, "rain15", "hazard") THEN 1 ELSE 0,
              ~Is(basis, "rain15", "bare"),
              LostLegs(basis), FALSE)

\* forecast: complete with the series of every model.
ForecastAnswer(basis) ==
  IF Got(basis, "forecast")
  THEN Answer(Unrated, ~Is(basis, "forecast", "bare"), {}, FALSE)
  ELSE Error

\* The others give their data, or fail with their source.
DataAnswer(basis) ==
  IF LostLegs(basis) = {} THEN Answer(Unrated, TRUE, {}, FALSE) ELSE Error

\* The news say that their source was not available.
NewsAnswer(basis) == Answer(Unrated, LostLegs(basis) = {}, LostLegs(basis), FALSE)

\* reverse_geocode: resolved or not, and never an error. The numbers are verified
\* if the country is on file: complete.
PlaceAnswer(basis) == Answer(Unrated, Is(basis, "place", "calm"), LostLegs(basis), FALSE)

\* The model's own words, if they have the fields that are wanted: a reply that
\* does not parse, lacks them or rates the risk in other words is not used.
Spoke(basis) == Is(basis, "model", "calm") \/ Is(basis, "model", "hazard")

\* health_advice: the risk as the model rates it, or as the thresholds rate what the
\* caller sent. Without an air quality they rate the weather alone.
HealthAnswer(basis) ==
  IF Spoke(basis) THEN Answer(IF Is(basis, "model", "hazard") THEN 2 ELSE 0, TRUE, {}, TRUE)
                  ELSE Answer(HealthRisk(20, 50, 3, CallerAqi(basis)), TRUE, {}, FALSE)

\* impact_analysis and chat: a text for lack of the model's.
AiAnswer(basis) == Answer(Unrated, TRUE, {}, Spoke(basis))

\* disease_risk: the same. Its sources that failed are "unknown" to the model, and to
\* nobody else.
DiseaseAnswer(basis) == IF Is(basis, "model", "bare") THEN Error ELSE AiAnswer(basis)

AnswerOf(s, basis) ==
  CASE s = "air" -> AirAnswer(basis)
    [] s = "intel" -> IntelAnswer(basis)
    [] s \in {"all", "withoutPandemics", "saved"} -> FeedAnswer(basis)
    [] s = "misnamed" -> MisnamedAnswer(basis)
    [] s \in {"earthquakes", "events", "alerts"} -> SourceAnswer(basis)
    [] s = "flood" -> FloodAnswer(basis)
    [] s = "nowcast" -> NowcastAnswer(basis)
    [] s = "forecast" -> ForecastAnswer(basis)
    [] s = "news" -> NewsAnswer(basis)
    [] s = "reverse" -> PlaceAnswer(basis)
    [] s = "health" -> HealthAnswer(basis)
    [] s \in {"impact", "chat"} -> AiAnswer(basis)
    [] s = "disease" -> DiseaseAnswer(basis)
    [] OTHER -> DataAnswer(basis)

-----------------------------------------------------------------------------
Resting == [at |-> "idle"]
Serving(at, s, basis) == [at |-> at, service |-> s, basis |-> basis]
Goes(q, r) == request' = [request EXCEPT ![q] = r]

\* The legs of a service, each with what was read.
IsBasis(basis, s) == basis \in [Legs(s) -> Readings]

\* Types. Of a source a reading is cached and never a failure; a composed answer is
\* cached whatever legs it lost, unless it is an error as a whole.
TypeOK ==
  /\ DOMAIN cache \subseteq Cached
  /\ \A leg \in DOMAIN cache : cache[leg] \in Readings /\ cache[leg].reply \in Told
  /\ DOMAIN answers \subseteq Composed
  /\ \A s \in DOMAIN answers : IsBasis(answers[s].basis, s) /\ answers[s].age \in Nat
  /\ \A q \in Requests :
       \/ request[q] = Resting
       \/ /\ request[q].at \in {"reading", "answered"} /\ request[q].service \in Services
          /\ IsBasis(request[q].basis, request[q].service)
  /\ asked \in 0..MaxAsked

Init ==
  /\ cache = [leg \in {} |-> Unread] /\ answers = [s \in {} |-> Unread]
  /\ request = [q \in Requests |-> Resting]
  /\ asked = 0

With(f, key, e) == [k \in DOMAIN f \cup {key} |-> IF k = key THEN e ELSE f[k]]

\* Nothing read yet but what the caller sent.
Unheard(s, sent) == [leg \in Legs(s) |-> IF leg = "caller" THEN Reading(sent) ELSE Unread]

\* A service is asked: a composed answer that is cached is the answer, and so is
\* a text of its own to a message that has nothing left after sanitizing.
Ask(q, s) ==
  /\ request[q] = Resting /\ asked < MaxAsked
  /\ asked' = asked + 1
  /\ \/ s \notin DOMAIN answers
        /\ \E sent \in CallerReplies : Goes(q, Serving("reading", s, Unheard(s, sent)))
     \/ s \in DOMAIN answers /\ Goes(q, Serving("answered", s, answers[s].basis))
     \/ s = "chat" /\ Goes(q, Serving("answered", s, [leg \in Legs(s) |-> Unread]))
  /\ UNCHANGED <<cache, answers>>

Reads(q, leg, r) == request' = [request EXCEPT ![q].basis[leg] = r]

\* The legs of a service run at the same time, those of disease_risk one after the
\* other, which no answer tells apart; the model is asked last.
Due(q, leg) ==
  /\ request[q].at = "reading" /\ leg \in DOMAIN request[q].basis
  /\ request[q].basis[leg] = Unread
  /\ leg = "model" => \A other \in DOMAIN request[q].basis \ {leg} :
                         request[q].basis[other] # Unread

Hit(q, leg) ==
  /\ Due(q, leg) /\ leg \in DOMAIN cache
  /\ Reads(q, leg, cache[leg])
  /\ UNCHANGED <<cache, answers, asked>>

\* Only what was read is cached; a tile above 2 MB is not.
Keeps(leg, reply) ==
  leg \in Cached /\ ~Raises(leg, reply) /\ ~(leg = "tile" /\ reply = "blank")

Fetch(q, leg) ==
  /\ Due(q, leg) /\ leg \notin DOMAIN cache
  /\ \E reply \in Replies(request[q].service, leg) :
       /\ Reads(q, leg, IF Raises(leg, reply) THEN Failed ELSE Reading(reply))
       /\ cache' = IF Keeps(leg, reply)
                   THEN With(cache, leg, IF Raises(leg, reply) THEN Failed ELSE Reading(reply))
                   ELSE cache
  /\ UNCHANGED <<answers, asked>>

\* The answer is composed, and cached unless it is an error.
Compose(q) ==
  LET s == request[q].service
      basis == request[q].basis
  IN /\ request[q].at = "reading" /\ \A leg \in DOMAIN basis : basis[leg] # Unread
     /\ Goes(q, Serving("answered", s, basis))
     /\ answers' = IF s \in Composed /\ AnswerOf(s, basis) # Error
                   THEN With(answers, s, [basis |-> basis, age |-> 0])
                   ELSE answers
     /\ UNCHANGED <<cache, asked>>

Deliver(q) ==
  /\ request[q].at = "answered"
  /\ Goes(q, Resting)
  /\ UNCHANGED <<cache, answers, asked>>

\* A tick: entries grow older, and a TTL later they are gone.
Lasts_Late(key, age) == age < Life[key]
Lasts(key, age) == age + 1 < Life[key]

Older(r) == [r EXCEPT !.age = @ + 1]
OlderBasis(basis) == [leg \in DOMAIN basis |-> Older(basis[leg])]

Tick ==
  /\ \A q \in Requests : request[q] = Resting
  /\ DOMAIN cache \cup DOMAIN answers # {}
  /\ cache' = [leg \in {l \in DOMAIN cache : Lasts(l, cache[l].age)} |-> Older(cache[leg])]
  /\ answers' = [s \in {t \in DOMAIN answers : Lasts(t, answers[t].age)} |->
                   [basis |-> OlderBasis(answers[s].basis), age |-> answers[s].age + 1]]
  /\ UNCHANGED <<request, asked>>

Step(q) ==
  \/ \E s \in Services : Ask(q, s)
  \/ \E leg \in Sources : Hit(q, leg) \/ Fetch(q, leg)
  \/ Compose(q) \/ Deliver(q)

Next == (\E q \in Requests : Step(q)) \/ Tick

Spec == Init /\ [][Next]_vars

-----------------------------------------------------------------------------
Answered == {q \in Requests : request[q].at = "answered"}
Given(q) == AnswerOf(request[q].service, request[q].basis)

\* What can tell of danger.
Warning == Events \cup {"air", "rain", "rain15", "caller", "model"}

\* Nothing is rated lowest because a source failed. An air quality without an index is
\* not good; a flood risk that is very low and a dry nowcast rest on a rainfall answer,
\* a feed without events that calls itself complete on every source it reads. And a
\* warning that was heard is not rated lowest, but for three: a flood nearby alone
\* scores too little, a misspelled category filters all events out, and the model may
\* rate the readings of the caller as it likes. It does not say that what is rated
\* lowest was measured: a value a provider leaves out counts as none (CalmIsMeasured,
\* BenignIsMeasured), and floods nobody reported as none (FloodUnknownIfIncomplete).
LowestIsHeard ==
  \A q \in Answered : Given(q).rank = 0 =>
    LET s == request[q].service
        basis == request[q].basis
    IN /\ s \in {"air", "intel"} => Is(basis, "air", "calm")
       /\ \A leg \in {"rain", "rain15"} \cap Legs(s) : Got(basis, leg)
       /\ Given(q).complete => \A leg \in (Sources \cap Legs(s)) \ {"frames", "model"} : Got(basis, leg)
       /\ \A leg \in Legs(s) \cap Warning : Is(basis, leg, "hazard") =>
            \/ s = "flood" /\ leg = "gdacs"
            \/ s = "misnamed"
            \/ leg = "caller" /\ Spoke(basis)

\* A source that failed shows in the answer: it is named, or the answer is not
\* complete, or not the model's. disease_risk says nothing of the readings it
\* gave to the model.
LossesShown ==
  \A q \in Answered : \A leg \in Sources \cap LostLegs(request[q].basis) :
    \/ leg \in Given(q).missing \/ ~Given(q).complete
    \/ leg = "model" /\ ~Given(q).ai
    \/ request[q].service = "disease"

\* No answer rests on data older than the TTLs it has passed through: that of the
\* source, and that of the composed answer.
Oldest(s, leg) ==
  (IF leg \in Cached THEN Life[leg] - 1 ELSE 0) + (IF s \in Composed THEN Life[s] - 1 ELSE 0)

AgesBounded ==
  /\ \A q \in Answered : \A leg \in DOMAIN request[q].basis :
       request[q].basis[leg].age <= Oldest(request[q].service, leg)
  /\ \A s \in DOMAIN answers : \A leg \in DOMAIN answers[s].basis :
       answers[s].basis[leg].age <= Oldest(s, leg)

-----------------------------------------------------------------------------
\* The description of the route of flood_risk: where a source was unavailable the
\* risk is Unknown. It is rated all the same if the rainfall came.
FloodUnknownIfIncomplete ==
  \A q \in Answered :
    request[q].service = "flood" /\ ~Given(q).complete => Given(q).rank = Unrated

\* The head of weather.py: failures are told from calm weather. Values that are
\* missing are not.
CalmIsMeasured ==
  \A q \in Answered :
    request[q].service \in {"flood", "nowcast"} /\ Given(q).rank = 0 /\ Given(q).complete =>
      \E leg \in {"rain", "rain15"} : Is(request[q].basis, leg, "calm")

\* The docstring of _health_fallback: deliberately conservative. Conditions look benign
\* to it though nobody measured the air.
BenignIsMeasured ==
  \A q \in Answered :
    request[q].service = "health" /\ Given(q).rank = 0 /\ ~Given(q).ai =>
      Is(request[q].basis, "caller", "calm")

\* A source that failed is asked again by the next request, as get_or_set caches no
\* exception. A composed answer swallows those of its legs, and is cached.
FailuresRetried == \A s \in DOMAIN answers : LostLegs(answers[s].basis) = {}

\* The log line of aggregate: unknown categories are ignored. They filter
\* everything out.
UnknownCategoryIgnored ==
  \A q \in Answered :
    request[q].service = "misnamed" => Given(q) = FeedAnswer(request[q].basis)

\* nearby_hospitals answers for the radius it names. A narrower one is cached
\* under the same key.
RadiusAnswered ==
  \A q \in Answered : request[q].service = "wider" => ~Is(request[q].basis, "hospitals", "near")

\* The comment on the TTL of radar frames: they lag by less than the two ticks
\* between two frames. A nowcast keeps its frame for a TTL of its own.
FramesRecent ==
  \A q \in Answered : Got(request[q].basis, "frames") => request[q].basis["frames"].age < 2
=============================================================================
