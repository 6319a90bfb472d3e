------------------------ MODULE ProviderServicesProofs ------------------------
(***************************************************************************)
(* The answers of the services for any number of requests, any TTLs, and   *)
(* whatever the providers reply. At the end the rules they rate hazards by *)
(* (HazardRules): a worse reading is never rated better, nothing           *)
(* unmeasured is rated good, and a rating stays in its scale.              *)
(***************************************************************************)
EXTENDS ProviderServices, FiniteSetTheorems, WellFoundedInduction, TLAPS

LEMMA LegsAreSources ==
  ASSUME NEW s \in AllServices
  PROVE  Legs(s) \subseteq Sources \cup {"caller"} /\ (s # "health" => Legs(s) \subseteq Sources)
BY DEF Legs, AllServices, AirRoutes, WeatherRoutes, DisasterRoutes, FavoriteRoutes, PlaceRoutes,
         AiRoutes, Sources, Cached, Uncached, Events

(***************************************************************************)
(* Types, and what is remembered                                           *)
(***************************************************************************)
LEMMA ReadingTypes ==
  /\ Unread \in Readings /\ Failed \in Readings /\ Unread # Failed
  /\ \A reply \in AnyReply : Reading(reply) \in Readings
  /\ \A r \in Readings : Older(r) \in Readings
BY DEF Unread, Failed, Readings, Reading, AnyReply, Older

LEMMA ReplyTypes ==
  ASSUME NEW s, NEW leg \in Sources, NEW reply \in Replies(s, leg)
  PROVE  reply \in Told
<1>1. Replies(s, leg) \in {QuakeReplies, EonetReplies, GdacsReplies, CaseReplies, AirReplies,
        StationReplies, TileReplies, CurrentReplies, ForecastReplies, RainReplies, Rain15Replies,
        FrameReplies, ArticleReplies, PlaceReplies, HospitalReplies(s), ModelReplies(s)}
  BY ZenonT(60) DEF Replies, Sources, Cached, Uncached, Events
<1> QED
  BY <1>1 DEF Told, QuakeReplies, EonetReplies, GdacsReplies, CaseReplies, AirReplies,
        StationReplies, TileReplies, CurrentReplies, ForecastReplies, RainReplies, Rain15Replies,
        FrameReplies, ArticleReplies, PlaceReplies, HospitalReplies, ModelReplies

\* A request goes on to r, which is well formed.
LEMMA RequestType ==
  ASSUME TypeOK, NEW q \in Requests, NEW r, Goes(q, r),
         \/ r = Resting
         \/ /\ r.at \in {"reading", "answered"} /\ r.service \in Services
            /\ IsBasis(r.basis, r.service)
  PROVE  \A p \in Requests :
           \/ request'[p] = Resting
           \/ /\ request'[p].at \in {"reading", "answered"} /\ request'[p].service \in Services
              /\ IsBasis(request'[p].basis, request'[p].service)
BY DEF TypeOK, Goes

LEMMA InitInv == Init => TypeOK
BY ServicesAssumption DEF Init, TypeOK

LEMMA UnheardType ==
  ASSUME NEW s, NEW sent \in CallerReplies
  PROVE  /\ Unheard(s, sent) \in [Legs(s) -> Readings]
         /\ \A leg \in Legs(s) : Unheard(s, sent)[leg].age = 0
<1>1. sent \in AnyReply
  BY DEF CallerReplies, AnyReply, Told
<1> QED
  BY <1>1, ReadingTypes DEF Unheard, Reading, Unread

LEMMA AskType ==
  ASSUME TypeOK, NEW q \in Requests, NEW s \in Services, Ask(q, s)
  PROVE  TypeOK'
<1>1. [leg \in Legs(s) |-> Unread] \in [Legs(s) -> Readings]
  BY ReadingTypes
<1>2. PICK r : /\ Goes(q, r) /\ r.at \in {"reading", "answered"} /\ r.service = s
               /\ IsBasis(r.basis, s)
  <2>1. CASE \E sent \in CallerReplies : Goes(q, Serving("reading", s, Unheard(s, sent)))
    BY <2>1, UnheardType DEF Serving, IsBasis
  <2>2. CASE s \in DOMAIN answers /\ Goes(q, Serving("answered", s, answers[s].basis))
    BY <2>2 DEF Serving, TypeOK
  <2>3. CASE Goes(q, Serving("answered", s, [leg \in Legs(s) |-> Unread]))
    BY <1>1, <2>3 DEF Serving, IsBasis
  <2> QED
    BY <2>1, <2>2, <2>3 DEF Ask
<1>3. UNCHANGED <<cache, answers>> /\ asked' \in 0..MaxAsked
  BY ServicesAssumption DEF Ask, TypeOK
<1> QED
  BY <1>2, <1>3, RequestType DEF TypeOK, IsBasis

\* A leg is read: the basis of the request has the reading.
LEMMA ReadsType ==
  ASSUME TypeOK, NEW q \in Requests, NEW leg, Due(q, leg), NEW r \in Readings, Reads(q, leg, r)
  PROVE  \A p \in Requests :
           \/ request'[p] = Resting
           \/ /\ request'[p].at \in {"reading", "answered"} /\ request'[p].service \in Services
              /\ IsBasis(request'[p].basis, request'[p].service)
<1> DEFINE read == [request[q].basis EXCEPT ![leg] = r]
           new == [request[q] EXCEPT !.basis = read]
<1>1. request[q].at = "reading" /\ request[q] # Resting
  BY DEF Due, Resting
<1>2. request[q].basis \in [Legs(request[q].service) -> Readings]
  BY <1>1 DEF TypeOK, IsBasis
<1>3. read \in [Legs(request[q].service) -> Readings]
  BY <1>2
<1>4. request' = [request EXCEPT ![q] = new]
  BY DEF Reads
<1> HIDE DEF read
<1>5. \/ new.at = "reading" /\ new.service = request[q].service /\ new.basis = read
      \/ new = request[q]
  BY <1>1
<1> HIDE DEF new
<1>6. \/ new = Resting
      \/ /\ new.at \in {"reading", "answered"} /\ new.service \in Services
         /\ IsBasis(new.basis, new.service)
  BY <1>1, <1>3, <1>5 DEF TypeOK, IsBasis
<1> QED
  BY <1>4, <1>6, RequestType DEF Goes

LEMMA FetchType ==
  ASSUME TypeOK, NEW q \in Requests, NEW leg \in Sources, Fetch(q, leg)
  PROVE  TypeOK'
<1>1. PICK reply \in Replies(request[q].service, leg) :
        /\ Reads(q, leg, IF Raises(leg, reply) THEN Failed ELSE Reading(reply))
        /\ cache' = IF Keeps(leg, reply)
                    THEN With(cache, leg, IF Raises(leg, reply) THEN Failed ELSE Reading(reply))
                    ELSE cache
  BY DEF Fetch
<1> DEFINE r == IF Raises(leg, reply) THEN Failed ELSE Reading(reply)
<1>2. r \in Readings
  BY ReplyTypes, ReadingTypes DEF AnyReply
<1>3. Due(q, leg) /\ UNCHANGED <<answers, asked>>
  BY DEF Fetch
<1>4. /\ DOMAIN cache' \subseteq Cached
      /\ \A l \in DOMAIN cache' : cache'[l] \in Readings /\ cache'[l].reply \in Told
  <2>1. CASE Keeps(leg, reply)
    <3>1. ~Raises(leg, reply) /\ leg \in Cached /\ r = Reading(reply)
      BY <2>1 DEF Keeps
    <3>2. r.reply \in Told
      BY <3>1, ReplyTypes DEF Reading
    <3>3. cache' = With(cache, leg, r)
      BY <1>1, <2>1
    <3> HIDE DEF r
    <3> QED
      BY <1>2, <3>1, <3>2, <3>3 DEF With, TypeOK
  <2> QED
    BY <1>1, <2>1 DEF TypeOK
<1> HIDE DEF r
<1>5. \A p \in Requests :
        \/ request'[p] = Resting
        \/ /\ request'[p].at \in {"reading", "answered"} /\ request'[p].service \in Services
           /\ IsBasis(request'[p].basis, request'[p].service)
  BY <1>1, <1>2, <1>3, ReadsType DEF TypeOK, r
<1> QED
  BY <1>3, <1>4, <1>5 DEF TypeOK, IsBasis

LEMMA ComposeType ==
  ASSUME TypeOK, NEW q \in Requests, Compose(q)
  PROVE  TypeOK'
<1> DEFINE s == request[q].service
           basis == request[q].basis
           e == [basis |-> basis, age |-> 0]
<1>0. request[q] # Resting /\ s \in Services /\ IsBasis(basis, s)
  BY DEF Compose, Resting, TypeOK
<1>1. /\ Goes(q, Serving("answered", s, basis)) /\ UNCHANGED <<cache, asked>>
      /\ \/ answers' = answers
         \/ s \in Composed /\ answers' = With(answers, s, e)
  BY DEF Compose
<1>2. /\ DOMAIN answers' \subseteq Composed
      /\ \A t \in DOMAIN answers' : IsBasis(answers'[t].basis, t) /\ answers'[t].age \in Nat
  <2>1. e.basis = basis /\ e.age = 0
    OBVIOUS
  <2> HIDE DEF e, s, basis
  <2>2. CASE answers' = answers
    BY <2>2 DEF TypeOK
  <2>3. CASE s \in Composed /\ answers' = With(answers, s, e)
    <3>1. DOMAIN answers' = DOMAIN answers \cup {s} /\ DOMAIN answers \subseteq Composed
      BY <2>3 DEF With, TypeOK
    <3>2. ASSUME NEW t \in DOMAIN answers'
          PROVE  IsBasis(answers'[t].basis, t) /\ answers'[t].age \in Nat
      <4>1. CASE t = s
        <5>1. answers'[t] = e
          BY <2>3, <4>1 DEF With
        <5> QED
          BY <1>0, <2>1, <4>1, <5>1
      <4>2. CASE t # s
        <5>1. t \in DOMAIN answers /\ answers'[t] = answers[t]
          BY <2>3, <3>1, <3>2, <4>2 DEF With
        <5> QED
          BY <5>1 DEF TypeOK
      <4> QED
        BY <4>1, <4>2
    <3> QED
      BY <2>3, <3>1, <3>2
  <2> QED
    BY <1>1, <2>2, <2>3
<1>3. Serving("answered", s, basis).at = "answered" /\ Serving("answered", s, basis).service = s
      /\ Serving("answered", s, basis).basis = basis
  BY DEF Serving
<1> HIDE DEF s, basis, e
<1>4. \A p \in Requests :
        \/ request'[p] = Resting
        \/ /\ request'[p].at \in {"reading", "answered"} /\ request'[p].service \in Services
           /\ IsBasis(request'[p].basis, request'[p].service)
  BY <1>0, <1>1, <1>3, RequestType DEF TypeOK
<1> QED
  BY <1>1, <1>2, <1>4 DEF TypeOK, IsBasis

(***************************************************************************)
(* The answers, service by service                                         *)
(***************************************************************************)
LEMMA AnswersAre ==
  ASSUME NEW basis
  PROVE  /\ AnswerOf("air", basis) = AirAnswer(basis)
         /\ AnswerOf("intel", basis) = IntelAnswer(basis)
         /\ \A s \in {"all", "withoutPandemics", "saved"} : AnswerOf(s, basis) = FeedAnswer(basis)
         /\ AnswerOf("misnamed", basis) = MisnamedAnswer(basis)
         /\ \A s \in {"earthquakes", "events", "alerts"} : AnswerOf(s, basis) = SourceAnswer(basis)
         /\ AnswerOf("flood", basis) = FloodAnswer(basis)
         /\ AnswerOf("nowcast", basis) = NowcastAnswer(basis)
         /\ AnswerOf("forecast", basis) = ForecastAnswer(basis)
         /\ AnswerOf("news", basis) = NewsAnswer(basis)
         /\ AnswerOf("reverse", basis) = PlaceAnswer(basis)
         /\ AnswerOf("health", basis) = HealthAnswer(basis)
         /\ \A s \in {"impact", "chat"} : AnswerOf(s, basis) = AiAnswer(basis)
         /\ AnswerOf("disease", basis) = DiseaseAnswer(basis)
         /\ \A s \in {"nearby", "tile", "weather", "radar", "hospitals", "wider"} :
              AnswerOf(s, basis) = DataAnswer(basis)
BY ZenonT(60) DEF AnswerOf

LEMMA TickType ==
  ASSUME TypeOK, Tick
  PROVE  TypeOK'
<1>1. UNCHANGED <<request, asked>>
  BY DEF Tick
<1>2. /\ DOMAIN cache' \subseteq DOMAIN cache
      /\ \A leg \in DOMAIN cache' : cache'[leg] = Older(cache[leg])
  BY DEF Tick
<1>3. \A leg \in DOMAIN cache : Older(cache[leg]) \in Readings /\ Older(cache[leg]).reply = cache[leg].reply
  BY DEF TypeOK, Readings, Older
<1>4. /\ DOMAIN cache' \subseteq Cached
      /\ \A l \in DOMAIN cache' : cache'[l] \in Readings /\ cache'[l].reply \in Told
  BY <1>2, <1>3 DEF TypeOK
<1>5. /\ DOMAIN answers' \subseteq DOMAIN answers
      /\ \A t \in DOMAIN answers' : /\ answers'[t].basis = OlderBasis(answers[t].basis)
                                   /\ answers'[t].age = answers[t].age + 1
  BY DEF Tick
<1>6. ASSUME NEW t \in DOMAIN answers'
      PROVE  IsBasis(answers'[t].basis, t) /\ answers'[t].age \in Nat
  <2>1. t \in DOMAIN answers /\ answers[t].basis \in [Legs(t) -> Readings]
    BY <1>5, <1>6 DEF TypeOK, IsBasis
  <2>2. OlderBasis(answers[t].basis) \in [Legs(t) -> Readings]
    BY <2>1, ReadingTypes DEF OlderBasis
  <2> QED
    BY <1>5, <2>1, <2>2 DEF IsBasis, TypeOK
<1> QED
  BY <1>1, <1>4, <1>5, <1>6 DEF TypeOK, IsBasis

LEMMA HitType ==
  ASSUME TypeOK, NEW q \in Requests, NEW leg \in Sources, Hit(q, leg)
  PROVE  TypeOK'
<1>1. Due(q, leg) /\ cache[leg] \in Readings /\ Reads(q, leg, cache[leg])
  BY DEF Hit, TypeOK
<1>2. UNCHANGED <<cache, answers, asked>>
  BY DEF Hit
<1> QED
  BY <1>1, <1>2, ReadsType DEF TypeOK, IsBasis

LEMMA StepKeepsInv == TypeOK /\ [Next]_vars => TypeOK'
<1> SUFFICES ASSUME TypeOK, [Next]_vars PROVE TypeOK'
  OBVIOUS
<1>1. CASE UNCHANGED vars
  BY <1>1 DEF vars, TypeOK, IsBasis
<1>2. ASSUME NEW q \in Requests, Deliver(q) PROVE TypeOK'
  BY <1>2, RequestType DEF Deliver, TypeOK, IsBasis
<1> QED
  BY <1>1, <1>2, AskType, HitType, FetchType, ComposeType, TickType DEF Next, Step

\* The types hold. Of a source only readings are cached, whenever a provider fails.
THEOREM TypesHold == Spec => []TypeOK
BY InitInv, StepKeepsInv, PTL DEF Spec

(***************************************************************************)
(* What an answer says                                                     *)
(***************************************************************************)
LEMMA LegsAre ==
  /\ \A s \in {"air", "tile", "forecast", "hospitals"} : Legs(s) = {s}
  /\ Legs("wider") = {"hospitals"} /\ Legs("nearby") = {"stations"}
  /\ Legs("weather") = {"current"} /\ Legs("radar") = {"frames"}
  /\ Legs("intel") = {"air", "current", "stations"}
  /\ Legs("nowcast") = {"rain15", "frames"} /\ Legs("flood") = {"rain", "gdacs"}
  /\ Legs("earthquakes") = {"quakes"} /\ Legs("events") = {"eonet"}
  /\ Legs("alerts") = {"gdacs"} /\ Legs("all") = Events /\ Legs("saved") = Events /\ Legs("misnamed") = Events
  /\ Legs("withoutPandemics") = Events \ {"cases"}
  /\ Legs("news") = {"articles"} /\ Legs("reverse") = {"place"}
  /\ \A s \in {"impact", "chat"} : Legs(s) = {"model"}
  /\ Legs("health") = {"caller", "model"}
  /\ Legs("disease") = {"place", "current", "air", "model"}
BY ZenonT(60) DEF Legs

LEMMA ErrorFields == Error.rank = -1 /\ Error.complete = FALSE /\ Error.ai = FALSE
BY DEF Error, Answer, Unrated

LEMMA FeedFields ==
  ASSUME NEW basis
  PROVE  /\ FeedAnswer(basis).rank = Cardinality({leg \in DOMAIN basis : Is(basis, leg, "hazard")})
         /\ FeedAnswer(basis).complete = (LostLegs(basis) = {})
         /\ FeedAnswer(basis).missing = LostLegs(basis)
         /\ FeedAnswer(basis).ai = FALSE
BY DEF FeedAnswer, Answer

LEMMA MisnamedFields ==
  ASSUME NEW basis
  PROVE  /\ MisnamedAnswer(basis).rank = 0
         /\ MisnamedAnswer(basis).complete = FeedAnswer(basis).complete
         /\ MisnamedAnswer(basis).missing = FeedAnswer(basis).missing
         /\ MisnamedAnswer(basis).ai = FeedAnswer(basis).ai
<1>1. FeedAnswer(basis) = Answer(Cardinality({leg \in DOMAIN basis : Is(basis, leg, "hazard")}),
         LostLegs(basis) = {}, LostLegs(basis), FALSE)
  BY DEF FeedAnswer
<1> QED
  BY <1>1 DEF MisnamedAnswer, Answer

LEMMA LostIsShown ==
  ASSUME NEW s \in AllServices, NEW basis, IsBasis(basis, s), NEW leg \in Sources \cap LostLegs(basis)
  PROVE  LET given == AnswerOf(s, basis)
         IN \/ leg \in given.missing \/ ~given.complete
            \/ leg = "model" /\ ~given.ai
            \/ s = "disease"
<1> DEFINE Shown == \/ leg \in AnswerOf(s, basis).missing \/ ~AnswerOf(s, basis).complete
                    \/ leg = "model" /\ ~AnswerOf(s, basis).ai
                    \/ s = "disease"
<1>0. leg \in Legs(s) /\ DOMAIN basis = Legs(s) /\ ~Got(basis, leg) /\ LostLegs(basis) # {}
      /\ \A reply \in Told : ~Is(basis, leg, reply)
  BY DEF IsBasis, LostLegs, Got, Is, Told
<1>1. CASE s = "air"
  BY <1>0, <1>1, LegsAre, AnswersAre, ErrorFields DEF AirAnswer
<1>2. CASE s \in {"intel", "all", "withoutPandemics", "saved", "news"}
  <2>1. AnswerOf(s, basis) \in {IntelAnswer(basis), FeedAnswer(basis), NewsAnswer(basis)}
    BY <1>2, AnswersAre
  <2>2. /\ IntelAnswer(basis).missing = LostLegs(basis)
        /\ NewsAnswer(basis).missing = LostLegs(basis)
    BY DEF IntelAnswer, NewsAnswer, Answer
  <2>3. FeedAnswer(basis).missing = LostLegs(basis)
    BY FeedFields
  <2>4. AnswerOf(s, basis).missing = LostLegs(basis)
    BY <2>1, <2>2, <2>3
  <2> QED
    BY <2>4
<1>3. CASE s = "misnamed"
  <2>1. AnswerOf(s, basis) = MisnamedAnswer(basis)
    BY <1>3, AnswersAre
  <2>2. MisnamedAnswer(basis).missing = LostLegs(basis)
    BY FeedFields, MisnamedFields
  <2> QED
    BY <2>1, <2>2
<1>4. CASE s \in {"earthquakes", "events", "alerts"}
  BY <1>0, <1>4, AnswersAre, ErrorFields DEF SourceAnswer
<1>5. CASE s = "flood"
  <2>1. ~FloodComplete(basis)
    BY <1>0, <1>5, LegsAre DEF FloodComplete
  <2>2. AnswerOf(s, basis) = FloodAnswer(basis)
    BY <1>5, AnswersAre
  <2>3. ~FloodAnswer(basis).complete
    BY <2>1 DEF FloodAnswer, Answer
  <2> QED
    BY <2>2, <2>3
<1>6. CASE s = "nowcast"
  <2>1. AnswerOf(s, basis) = NowcastAnswer(basis)
    BY <1>6, AnswersAre
  <2>2. CASE ~Got(basis, "rain15")
    BY <2>1, <2>2, ErrorFields DEF NowcastAnswer
  <2>3. CASE Got(basis, "rain15")
    <3>1. NowcastAnswer(basis).missing = LostLegs(basis)
      BY <2>3 DEF NowcastAnswer, Answer
    <3> QED
      BY <2>1, <3>1
  <2> QED
    BY <2>2, <2>3
<1>7. CASE s = "forecast"
  BY <1>0, <1>7, LegsAre, AnswersAre, ErrorFields DEF ForecastAnswer
<1>8. CASE s = "reverse"
  <2>1. AnswerOf(s, basis) = PlaceAnswer(basis)
    BY <1>8, AnswersAre
  <2>2. PlaceAnswer(basis).missing = LostLegs(basis)
    BY DEF PlaceAnswer, Answer
  <2> QED
    BY <2>1, <2>2
<1>9. CASE s \in {"health", "impact", "chat"}
  <2>1. leg = "model" /\ ~Spoke(basis)
    BY <1>0, <1>9, LegsAre DEF Spoke, Told, Sources, Cached, Uncached, Events
  <2>2. AnswerOf(s, basis).ai = FALSE
    <3>1. AnswerOf(s, basis) \in {HealthAnswer(basis), AiAnswer(basis)}
      BY <1>9, AnswersAre
    <3>2. HealthAnswer(basis).ai = FALSE
      BY <2>1 DEF HealthAnswer, Answer
    <3>3. AiAnswer(basis).ai = FALSE
      BY <2>1 DEF AiAnswer, Answer
    <3> QED
      BY <3>1, <3>2, <3>3
  <2> QED
    BY <2>1, <2>2
<1>10. CASE s \in {"nearby", "tile", "weather", "radar", "hospitals", "wider"}
  BY <1>0, <1>10, AnswersAre, ErrorFields DEF DataAnswer
<1> QED
  BY <1>1, <1>2, <1>3, <1>4, <1>5, <1>6, <1>7, <1>8, <1>9, <1>10 DEF AllServices, AirRoutes, WeatherRoutes, DisasterRoutes, FavoriteRoutes, PlaceRoutes,
         AiRoutes

\* Whatever a service reads and whichever of its sources fail, its answer shows
\* it: the source is named, the answer calls itself incomplete, or not the
\* model's.
THEOREM LossesAreShown == Spec => []LossesShown
<1>1. TypeOK => LossesShown
  BY LostIsShown, ServicesAssumption DEF TypeOK, LossesShown, Answered, Given, Resting
<1> QED
  BY <1>1, TypesHold, PTL

(***************************************************************************)
(* What is rated lowest                                                    *)
(***************************************************************************)
\* A limit that is passed counts; the rules use sets of limits below 501.
LEMMA LimitPassed ==
  ASSUME NEW limits \in SUBSET (0..500), NEW x \in Int
  PROVE  /\ Passed(x, limits) \in Nat /\ Reached(x, limits) \in Nat
         /\ Passed(x, limits) = 0 <=> \A l \in limits : ~(x > l)
<1>1. IsFiniteSet(0..500)
  <2>1. 0 \in Int /\ 500 \in Int
    OBVIOUS
  <2> QED
    BY <2>1, FS_Interval, Zenon
<1>2. /\ IsFiniteSet({l \in limits : x > l}) /\ IsFiniteSet({l \in limits : x >= l})
  BY <1>1, FS_Subset
<1>3. Passed(x, limits) = 0 <=> {l \in limits : x > l} = {}
  BY <1>2, FS_EmptySet DEF Passed
<1> QED
  BY <1>2, <1>3, FS_CardinalityType DEF Passed, Reached

\* The level is good of a reading alone.
LEMMA GoodIsMeasured ==
  ASSUME NEW basis, AqiLevel(Aqi(basis)) - 1 = 0
  PROVE  Is(basis, "air", "calm") /\ ~Is(basis, "air", "hazard")
<1>1. Aqi(basis) \in {180, 30, NoReading} /\ NoReading = -1000
  BY DEF Aqi, NoReading
<1>2. CASE Aqi(basis) = NoReading
  BY <1>2 DEF AqiLevel
<1>3. CASE Aqi(basis) = 30
  BY <1>1, <1>3 DEF Aqi, NoReading, Is
<1>4. CASE Aqi(basis) = 180
  <2>1. {50, 100, 150, 200, 300} \in SUBSET (0..500)
    OBVIOUS
  <2>2. Passed(180, {50, 100, 150, 200, 300}) \in Nat \ {0}
    BY <2>1, LimitPassed
  <2>3. AqiLevel(180) = 1 + Passed(180, {50, 100, 150, 200, 300})
    BY DEF AqiLevel, NoReading
  <2> QED
    BY <1>4, <2>2, <2>3
<1> QED
  BY <1>1, <1>2, <1>3, <1>4

\* A feed without events heard of none.
LEMMA FeedCounts ==
  ASSUME NEW s, Legs(s) \subseteq Sources, NEW basis, IsBasis(basis, s),
         FeedAnswer(basis).rank = 0, NEW leg \in Legs(s)
  PROVE  ~Is(basis, leg, "hazard")
<1> DEFINE told == {l \in DOMAIN basis : Is(basis, l, "hazard")}
<1>1. IsFiniteSet(Sources)
  <2> DEFINE S1 == {"quakes", "eonet", "gdacs", "cases"}
             S2 == S1 \cup {"air"} \cup {"stations"} \cup {"tile"} \cup {"current"} \cup {"forecast"}
             S3 == S2 \cup {"rain"} \cup {"frames"} \cup {"articles"} \cup {"place"}
             S4 == S3 \cup {"hospitals"} \cup {"rain15"} \cup {"model"}
  <2>1. IsFiniteSet(S1)
    <3>1. IsFiniteSet({"quakes"} \cup {"eonet"})
      BY FS_AddElement, FS_Singleton
    <3>2. IsFiniteSet({"quakes"} \cup {"eonet"} \cup {"gdacs"})
      BY <3>1, FS_AddElement
    <3>3. IsFiniteSet({"quakes"} \cup {"eonet"} \cup {"gdacs"} \cup {"cases"})
      BY <3>2, FS_AddElement
    <3>4. S1 = {"quakes"} \cup {"eonet"} \cup {"gdacs"} \cup {"cases"}
      OBVIOUS
    <3> QED
      BY <3>3, <3>4
  <2> HIDE DEF S1
  <2>2. IsFiniteSet(S2)
    <3>1. IsFiniteSet({"air"}) /\ IsFiniteSet({"stations"}) /\ IsFiniteSet({"tile"})
          /\ IsFiniteSet({"current"}) /\ IsFiniteSet({"forecast"})
      BY FS_Singleton
    <3> QED
      BY <2>1, <3>1, FS_Union
  <2> HIDE DEF S2
  <2>3. IsFiniteSet(S3)
    <3>1. IsFiniteSet({"rain"}) /\ IsFiniteSet({"frames"}) /\ IsFiniteSet({"articles"})
          /\ IsFiniteSet({"place"})
      BY FS_Singleton
    <3> QED
      BY <2>2, <3>1, FS_Union
  <2> HIDE DEF S3
  <2>4. IsFiniteSet(S4)
    <3>1. IsFiniteSet({"hospitals"}) /\ IsFiniteSet({"rain15"}) /\ IsFiniteSet({"model"})
      BY FS_Singleton
    <3> QED
      BY <2>3, <3>1, FS_Union
  <2>5. Sources = S4
    BY DEF Sources, Cached, Uncached, Events, S1, S2, S3
  <2> QED
    BY <2>4, <2>5
<1>2. told \subseteq Sources
  BY DEF IsBasis
<1>3. IsFiniteSet(told) /\ Cardinality(told) = 0
  BY <1>1, <1>2, FS_Subset, FeedFields
<1>4. told = {}
  BY <1>3, FS_EmptySet
<1> QED
  BY <1>4 DEF Is

LEMMA WetIsRated ==
  ASSUME NEW basis, FloodLevel(FloodScore(RainOf(basis), FloodsNear(basis))) = 0
  PROVE  ~Is(basis, "rain", "hazard")
<1> SUFFICES ASSUME Is(basis, "rain", "hazard") PROVE FALSE
  OBVIOUS
<1>1. RainOf(basis) = 900 /\ FloodsNear(basis) \in {0, 1}
  BY DEF RainOf, FloodsNear
<1>2. FloodScore(RainOf(basis), FloodsNear(basis)) \in {72, 87}
  BY <1>1 DEF FloodScore, Least
<1>3. {15, 40, 70} \in SUBSET (0..500)
  OBVIOUS
<1>4. Passed(72, {15, 40, 70}) # 0 /\ Passed(87, {15, 40, 70}) # 0
  BY <1>3, LimitPassed
<1> QED
  BY <1>2, <1>4 DEF FloodLevel

\* A day whose air is bad is rated, however mild it is.
LEMMA BadAirIsRated ==
  ASSUME NEW basis, Is(basis, "caller", "hazard")
  PROVE  HealthRisk(20, 50, 3, CallerAqi(basis)) # 0
<1>1. {6, 8} \in SUBSET (0..500) /\ {100, 200} \in SUBSET (0..500)
  OBVIOUS
<1>2. CallerAqi(basis) = 250 /\ NoReading = -1000
  BY DEF CallerAqi, NoReading
<1>3. SunRisk(3) \in Nat /\ AirRisk(250) \in Nat \ {0} /\ HeatRisk(20, 50) = 0
  <2>1. AirRisk(250) = Passed(250, {100, 200})
    BY <1>2 DEF AirRisk
  <2>2. Passed(250, {100, 200}) \in Nat \ {0}
    BY <1>1, LimitPassed
  <2> QED
    BY <1>1, <2>1, <2>2, LimitPassed DEF SunRisk, HeatRisk
<1> QED
  BY <1>2, <1>3 DEF HealthRisk, Escalate

LEMMA LowestWasHeard ==
  ASSUME NEW s \in AllServices, NEW basis, IsBasis(basis, s), AnswerOf(s, basis).rank = 0
  PROVE  /\ s \in {"air", "intel"} => Is(basis, "air", "calm")
         /\ \A leg \in {"rain", "rain15"} \cap Legs(s) : Got(basis, leg)
         /\ AnswerOf(s, basis).complete =>
              \A leg \in (Sources \cap Legs(s)) \ {"frames", "model"} : Got(basis, leg)
         /\ \A leg \in Legs(s) \cap Warning : Is(basis, leg, "hazard") =>
              \/ s = "flood" /\ leg = "gdacs"
              \/ s = "misnamed"
              \/ leg = "caller" /\ Spoke(basis)
<1>0. DOMAIN basis = Legs(s)
      /\ (LostLegs(basis) = {} => \A leg \in Legs(s) : Got(basis, leg))
      /\ \A leg : Is(basis, leg, "hazard") \/ Is(basis, leg, "calm") => Got(basis, leg)
  BY DEF IsBasis, LostLegs, Got, Is
<1>1. CASE s = "air"
  <2>1. AnswerOf(s, basis) = AirAnswer(basis)
    BY <1>1, AnswersAre
  <2>2. Got(basis, "air") /\ AqiLevel(Aqi(basis)) - 1 = 0
    BY <2>1, ErrorFields DEF AirAnswer, Answer
  <2> QED
    BY <1>1, <2>2, LegsAre, GoodIsMeasured
<1>2. CASE s = "intel"
  <2>1. AnswerOf(s, basis) = IntelAnswer(basis)
    BY <1>2, AnswersAre
  <2>2. IntelAnswer(basis).rank = AqiLevel(Aqi(basis)) - 1
    BY DEF IntelAnswer, Answer
  <2>3. IntelAnswer(basis).complete => LostLegs(basis) = {}
    BY DEF IntelAnswer, Answer
  <2>4. Is(basis, "air", "calm") /\ ~Is(basis, "air", "hazard")
    BY <2>1, <2>2, GoodIsMeasured
  <2>5. Legs(s) \cap Warning = {"air"}
    BY <1>2, LegsAre DEF Warning, Events
  <2>6. {"rain", "rain15"} \cap Legs(s) = {}
    BY <1>2, LegsAre
  <2> QED
    BY <1>0, <1>2, <2>1, <2>3, <2>4, <2>5, <2>6
<1>3. CASE s \in {"all", "withoutPandemics", "saved", "earthquakes", "events", "alerts"}
  <2>1. AnswerOf(s, basis) = FeedAnswer(basis)
    BY <1>3, AnswersAre, ErrorFields DEF SourceAnswer
  <2>2. FeedAnswer(basis).complete => LostLegs(basis) = {}
    BY FeedFields
  <2>3. {"rain", "rain15"} \cap Legs(s) = {}
    BY <1>3, LegsAre DEF Events
  <2>4. \A leg \in Legs(s) : ~Is(basis, leg, "hazard")
    BY <1>3, <2>1, FeedCounts, LegsAreSources
  <2> QED
    BY <1>0, <1>3, <2>1, <2>2, <2>3, <2>4
<1>4. CASE s = "misnamed"
  <2>1. AnswerOf(s, basis) = MisnamedAnswer(basis)
    BY <1>4, AnswersAre
  <2>2. MisnamedAnswer(basis).complete => LostLegs(basis) = {}
    BY FeedFields, MisnamedFields
  <2>3. {"rain", "rain15"} \cap Legs(s) = {}
    BY <1>4, LegsAre DEF Events
  <2> QED
    BY <1>0, <1>4, <2>1, <2>2, <2>3
<1>5. CASE s = "flood"
  <2>1. AnswerOf(s, basis) = FloodAnswer(basis)
    BY <1>5, AnswersAre
  <2>2. FloodAnswer(basis).complete => FloodComplete(basis)
    BY DEF FloodAnswer, Answer
  <2>3. FloodAnswer(basis).rank = 0 =>
          FloodLevel(FloodScore(RainOf(basis), FloodsNear(basis))) = 0
    BY DEF FloodAnswer, Answer, Unrated
  <2>4. ~Is(basis, "rain", "hazard")
    BY <2>1, <2>3, WetIsRated
  <2>5. Got(basis, "rain")
    <3>1. ~(~FloodComplete(basis) /\ ~FloodDays(basis))
      BY <2>1 DEF FloodAnswer, Answer, Unrated
    <3> QED
      BY <3>1 DEF FloodComplete, FloodDays, Got, Is
  <2> QED
    BY <1>5, <2>1, <2>2, <2>4, <2>5, LegsAre DEF FloodComplete
<1>6. CASE s = "nowcast"
  <2>1. AnswerOf(s, basis) = NowcastAnswer(basis)
    BY <1>6, AnswersAre
  <2>2. NowcastAnswer(basis).rank = 0 => Got(basis, "rain15") /\ ~Is(basis, "rain15", "hazard")
    BY ErrorFields DEF NowcastAnswer, Answer
  <2>3. Legs(s) \cap Warning = {"rain15"}
    BY <1>6, LegsAre DEF Warning, Events
  <2> QED
    BY <1>6, <2>1, <2>2, <2>3, LegsAre
<1>7. CASE s = "health"
  <2>1. AnswerOf(s, basis) = HealthAnswer(basis)
    BY <1>7, AnswersAre
  <2>2. Is(basis, "caller", "hazard") => Spoke(basis)
    BY <2>1, BadAirIsRated DEF HealthAnswer, Answer
  <2>3. ~Is(basis, "model", "hazard")
    BY <2>1 DEF HealthAnswer, Answer, Spoke
  <2>4. Legs(s) = {"caller", "model"} /\ "caller" \notin Sources
    BY <1>7, LegsAre DEF Sources, Cached, Uncached, Events
  <2> QED
    BY <1>7, <2>2, <2>3, <2>4
<1>8. CASE s \in {"forecast", "news", "reverse", "impact", "chat", "disease",
                  "nearby", "tile", "weather", "radar", "hospitals", "wider"}
  <2>1. AnswerOf(s, basis) \in {ForecastAnswer(basis), NewsAnswer(basis), PlaceAnswer(basis),
                                AiAnswer(basis), DiseaseAnswer(basis), DataAnswer(basis)}
    BY <1>8, AnswersAre
  <2>2. /\ ForecastAnswer(basis).rank = -1 /\ NewsAnswer(basis).rank = -1
        /\ PlaceAnswer(basis).rank = -1 /\ AiAnswer(basis).rank = -1
        /\ DataAnswer(basis).rank = -1 /\ DiseaseAnswer(basis).rank = -1
    BY DEF ForecastAnswer, NewsAnswer, PlaceAnswer, AiAnswer, DiseaseAnswer, DataAnswer, Error,
           Answer, Unrated
  <2> QED
    BY <2>1, <2>2
<1> QED
  BY <1>1, <1>2, <1>3, <1>4, <1>5, <1>6, <1>7, <1>8 DEF AllServices, AirRoutes, WeatherRoutes, DisasterRoutes, FavoriteRoutes, PlaceRoutes,
         AiRoutes

\* Whichever sources fail, no place is rated lowest because of it, and no warning that
\* was heard is, but for the three that LowestIsHeard names.
THEOREM LowestRatingIsHeard == Spec => []LowestIsHeard
<1>1. TypeOK => LowestIsHeard
  BY LowestWasHeard, ServicesAssumption
  DEF TypeOK, LowestIsHeard, Answered, Given, Resting
<1> QED
  BY <1>1, TypesHold, PTL

(***************************************************************************)
(* The age of what an answer rests on                                      *)
(***************************************************************************)
\* The strengthening: every entry is younger than its TTL, and the readings a
\* composed answer rests on have aged since by its age at most.
Before(leg) == IF leg \in Cached THEN Life[leg] - 1 ELSE 0
Young(basis, more) == \A leg \in DOMAIN basis : basis[leg].age <= Before(leg) + more

AgesInv ==
  /\ \A leg \in DOMAIN cache : cache[leg].age < Life[leg]
  /\ \A s \in DOMAIN answers : /\ answers[s].age < Life[s]
                              /\ Young(answers[s].basis, answers[s].age)
  /\ \A q \in Requests : request[q] # Resting =>
       Young(request[q].basis,
             IF request[q].at = "answered" /\ request[q].service \in Composed
             THEN Life[request[q].service] - 1 ELSE 0)

LEMMA BeforeType == \A leg : Before(leg) \in Nat
BY ServicesAssumption DEF Before

LEMMA AgesInit == Init => AgesInv
BY DEF Init, AgesInv

\* A request goes on to r, whose readings are young.
LEMMA AgesGo ==
  ASSUME TypeOK, AgesInv, NEW q \in Requests, NEW r, Goes(q, r), UNCHANGED <<cache, answers>>,
         r # Resting => Young(r.basis, IF r.at = "answered" /\ r.service \in Composed
                                       THEN Life[r.service] - 1 ELSE 0)
  PROVE  AgesInv'
BY DEF AgesInv, Goes, TypeOK, Young, Before

LEMMA UnreadIsYoung ==
  ASSUME NEW S, NEW more \in Nat
  PROVE  Young([leg \in S |-> Unread], more)
BY BeforeType DEF Young, Unread

LEMMA AgesAsk ==
  ASSUME TypeOK, AgesInv, NEW q \in Requests, NEW s \in Services, Ask(q, s)
  PROVE  AgesInv'
<1>0. UNCHANGED <<cache, answers>>
  BY DEF Ask
<1>1. CASE \E sent \in CallerReplies : Goes(q, Serving("reading", s, Unheard(s, sent)))
  <2>1. PICK sent \in CallerReplies : Goes(q, Serving("reading", s, Unheard(s, sent)))
    BY <1>1
  <2>2. Young(Unheard(s, sent), 0)
    BY UnheardType, BeforeType DEF Young
  <2> QED
    BY <1>0, <2>1, <2>2, AgesGo DEF Serving
<1>2. CASE s \in DOMAIN answers /\ Goes(q, Serving("answered", s, answers[s].basis))
  <2> DEFINE r == Serving("answered", s, answers[s].basis)
  <2>1. r.at = "answered" /\ r.service = s /\ r.basis = answers[s].basis
    BY DEF Serving
  <2>2. s \in Composed /\ answers[s].age \in Nat /\ answers[s].basis \in [Legs(s) -> Readings]
        /\ answers[s].age <= Life[s] - 1 /\ Life[s] \in Nat
    BY <1>2, ServicesAssumption DEF TypeOK, IsBasis, AgesInv
  <2>3. Young(answers[s].basis, answers[s].age)
    BY <1>2 DEF AgesInv
  <2>4. Young(answers[s].basis, Life[s] - 1)
    BY <2>2, <2>3, BeforeType DEF Young, Readings
  <2> HIDE DEF r
  <2> QED
    BY <1>0, <1>2, <2>1, <2>2, <2>4, AgesGo DEF r
<1>3. CASE s = "chat" /\ Goes(q, Serving("answered", s, [leg \in Legs(s) |-> Unread]))
  BY <1>0, <1>3, AgesGo, UnreadIsYoung DEF Serving, Composed
<1> QED
  BY <1>1, <1>2, <1>3 DEF Ask

\* A leg is read at an age its source is cached at, or afresh.
LEMMA AgesRead ==
  ASSUME TypeOK, AgesInv, NEW q \in Requests, NEW leg, Due(q, leg),
         NEW r \in Readings, r.age <= Before(leg), Reads(q, leg, r)
  PROVE  \A p \in Requests : request'[p] # Resting =>
           Young(request'[p].basis,
                 IF request'[p].at = "answered" /\ request'[p].service \in Composed
                 THEN Life[request'[p].service] - 1 ELSE 0)
<1> DEFINE read == [request[q].basis EXCEPT ![leg] = r]
           new == [request[q] EXCEPT !.basis = read]
<1>1. request[q].at = "reading" /\ request[q] # Resting
  BY DEF Due, Resting
<1>2. Young(request[q].basis, 0)
  BY <1>1 DEF AgesInv
<1>3. Young(read, 0)
  BY <1>2, BeforeType DEF Young, Readings
<1>4. request' = [request EXCEPT ![q] = new]
  BY DEF Reads
<1>5. request' = [p \in DOMAIN request |-> IF p = q THEN new ELSE request[p]]
  BY <1>4
<1> HIDE DEF read
<1>6. request[q].basis \in [Legs(request[q].service) -> Readings]
  BY <1>1 DEF TypeOK, IsBasis
<1>7. \/ new.at = "reading" /\ new.basis = read
      \/ new = request[q]
  BY <1>1
<1> HIDE DEF new
<1>8. ASSUME NEW p \in Requests, request'[p] # Resting
      PROVE  Young(request'[p].basis,
                 IF request'[p].at = "answered" /\ request'[p].service \in Composed
                 THEN Life[request'[p].service] - 1 ELSE 0)
  <2>1. CASE request'[p] = request[p]
    BY <1>8, <2>1 DEF AgesInv
  <2>2. CASE request'[p] = new /\ new.at = "reading" /\ new.basis = read
    BY <1>3, <2>2
  <2> QED
    BY <1>4, <1>7, <2>1, <2>2
<1> QED
  BY <1>8

LEMMA AgesHit ==
  ASSUME TypeOK, AgesInv, NEW q \in Requests, NEW leg \in Sources, Hit(q, leg)
  PROVE  AgesInv'
<1>1. Due(q, leg) /\ cache[leg] \in Readings /\ Reads(q, leg, cache[leg])
      /\ UNCHANGED <<cache, answers>>
  BY DEF Hit, TypeOK
<1>2. leg \in Cached /\ cache[leg].age < Life[leg]
  BY DEF Hit, TypeOK, AgesInv
<1>3. cache[leg].age <= Before(leg)
  BY <1>1, <1>2, ServicesAssumption DEF Before, Readings
<1> QED
  BY <1>1, <1>3, AgesRead DEF AgesInv, Young, Before

LEMMA AgesFetch ==
  ASSUME TypeOK, AgesInv, NEW q \in Requests, NEW leg \in Sources, Fetch(q, leg)
  PROVE  AgesInv'
<1>1. PICK reply \in Replies(request[q].service, leg) :
        /\ Reads(q, leg, IF Raises(leg, reply) THEN Failed ELSE Reading(reply))
        /\ cache' = IF Keeps(leg, reply)
                    THEN With(cache, leg, IF Raises(leg, reply) THEN Failed ELSE Reading(reply))
                    ELSE cache
  BY DEF Fetch
<1> DEFINE r == IF Raises(leg, reply) THEN Failed ELSE Reading(reply)
<1>2. r \in Readings /\ r.age = 0
  BY ReplyTypes, ReadingTypes DEF AnyReply, Failed, Reading
<1>3. Due(q, leg) /\ answers' = answers
  BY DEF Fetch
<1> HIDE DEF r
<1>4. \A l \in DOMAIN cache' : cache'[l].age < Life[l]
  <2>1. CASE cache' = cache
    BY <2>1 DEF AgesInv
  <2>2. CASE leg \in Cached /\ cache' = With(cache, leg, r)
    BY <1>2, <2>2, ServicesAssumption DEF With, AgesInv
  <2> QED
    BY <1>1, <2>1, <2>2 DEF Keeps, r
<1>5. r.age <= Before(leg)
  BY <1>2, BeforeType
<1>6. \A p \in Requests : request'[p] # Resting =>
           Young(request'[p].basis,
                 IF request'[p].at = "answered" /\ request'[p].service \in Composed
                 THEN Life[request'[p].service] - 1 ELSE 0)
  BY <1>1, <1>2, <1>3, <1>5, AgesRead DEF r
<1> QED
  BY <1>3, <1>4, <1>6 DEF AgesInv, Young, Before

LEMMA AgesCompose ==
  ASSUME TypeOK, AgesInv, NEW q \in Requests, Compose(q)
  PROVE  AgesInv'
<1> DEFINE s == request[q].service
           basis == request[q].basis
           e == [basis |-> basis, age |-> 0]
           r == Serving("answered", s, basis)
<1>1. /\ Goes(q, r) /\ UNCHANGED <<cache, asked>> /\ request[q] # Resting
      /\ request[q].at = "reading"
      /\ \/ answers' = answers
         \/ s \in Composed /\ answers' = With(answers, s, e)
  BY DEF Compose, Resting
<1>2. Young(basis, 0) /\ basis \in [Legs(s) -> Readings]
  BY <1>1 DEF AgesInv, TypeOK, IsBasis
<1>3. e.basis = basis /\ e.age = 0
  OBVIOUS
<1>4. r.at = "answered" /\ r.service = s /\ r.basis = basis
  BY DEF Serving
<1> HIDE DEF s, basis, e, r
<1>5. s \in Composed => Life[s] - 1 \in Nat
  BY ServicesAssumption
<1>6. Young(basis, IF r.at = "answered" /\ r.service \in Composed THEN Life[r.service] - 1 ELSE 0)
  BY <1>2, <1>4, <1>5, BeforeType DEF Young, Readings
<1>7. \A t \in DOMAIN answers' : answers'[t].age < Life[t] /\ Young(answers'[t].basis, answers'[t].age)
  <2>1. CASE answers' = answers
    BY <2>1 DEF AgesInv
  <2>2. CASE s \in Composed /\ answers' = With(answers, s, e)
    <3>1. ASSUME NEW t \in DOMAIN answers'
          PROVE  answers'[t].age < Life[t] /\ Young(answers'[t].basis, answers'[t].age)
      <4>1. CASE t = s
        <5>1. answers'[t] = e
          BY <2>2, <4>1 DEF With
        <5>2. 0 < Life[s]
          BY <2>2, ServicesAssumption
        <5> QED
          BY <1>2, <1>3, <4>1, <5>1, <5>2
      <4>2. CASE t # s
        <5>1. t \in DOMAIN answers /\ answers'[t] = answers[t]
          BY <2>2, <3>1, <4>2 DEF With
        <5> QED
          BY <5>1 DEF AgesInv
      <4> QED
        BY <4>1, <4>2
    <3> QED
      BY <3>1
  <2> QED
    BY <1>1, <2>1, <2>2
<1>8. ASSUME NEW p \in Requests, request'[p] # Resting
      PROVE  Young(request'[p].basis,
                 IF request'[p].at = "answered" /\ request'[p].service \in Composed
                 THEN Life[request'[p].service] - 1 ELSE 0)
  <2>1. CASE request'[p] = request[p]
    BY <1>8, <2>1 DEF AgesInv
  <2>2. CASE request'[p] = r
    BY <1>4, <1>6, <2>2
  <2> QED
    BY <1>1, <2>1, <2>2 DEF Goes
<1> QED
  BY <1>1, <1>7, <1>8 DEF AgesInv, Young, Before

LEMMA AgesTick ==
  ASSUME TypeOK, AgesInv, Tick
  PROVE  AgesInv'
<1>1. UNCHANGED request /\ \A q \in Requests : request[q] = Resting
  BY DEF Tick
<1>2. ASSUME NEW leg \in DOMAIN cache'
      PROVE  cache'[leg].age < Life[leg]
  <2>1. leg \in DOMAIN cache /\ Lasts(leg, cache[leg].age) /\ cache'[leg] = Older(cache[leg])
    BY DEF Tick
  <2>2. Older(cache[leg]).age = cache[leg].age + 1
    BY <2>1 DEF Older, TypeOK, Readings
  <2> QED
    BY <2>1, <2>2 DEF Lasts
<1>3. ASSUME NEW s \in DOMAIN answers'
      PROVE  answers'[s].age < Life[s] /\ Young(answers'[s].basis, answers'[s].age)
  <2>1. /\ s \in DOMAIN answers /\ Lasts(s, answers[s].age)
        /\ answers'[s].basis = OlderBasis(answers[s].basis)
        /\ answers'[s].age = answers[s].age + 1
    BY DEF Tick
  <2>2. answers[s].basis \in [Legs(s) -> Readings] /\ answers[s].age \in Nat
    BY <2>1 DEF TypeOK, IsBasis
  <2>3. Young(answers[s].basis, answers[s].age)
    BY <2>1 DEF AgesInv
  <2>4. \A leg \in Legs(s) : /\ Older(answers[s].basis[leg]).age = answers[s].basis[leg].age + 1
                            /\ answers[s].basis[leg].age \in Nat
    BY <2>2 DEF Older, Readings
  <2>5. Young(OlderBasis(answers[s].basis), answers[s].age + 1)
    BY <2>2, <2>3, <2>4, BeforeType DEF Young, OlderBasis
  <2> QED
    BY <2>1, <2>5 DEF Lasts
<1> QED
  BY <1>1, <1>2, <1>3 DEF AgesInv, Young, Before

LEMMA StepKeepsAges == TypeOK /\ AgesInv /\ [Next]_vars => AgesInv'
<1> SUFFICES ASSUME TypeOK, AgesInv, [Next]_vars PROVE AgesInv'
  OBVIOUS
<1>1. CASE UNCHANGED vars
  BY <1>1 DEF vars, AgesInv, Young, Before
<1>2. ASSUME NEW q \in Requests, Deliver(q) PROVE AgesInv'
  BY <1>2, AgesGo DEF Deliver
<1> QED
  BY <1>1, <1>2, AgesAsk, AgesHit, AgesFetch, AgesCompose, AgesTick DEF Next, Step

LEMMA AgesInvBounds == TypeOK /\ AgesInv => AgesBounded
<1> SUFFICES ASSUME TypeOK, AgesInv PROVE AgesBounded
  OBVIOUS
<1>1. ASSUME NEW q \in Answered, NEW leg \in DOMAIN request[q].basis
      PROVE  request[q].basis[leg].age <= Oldest(request[q].service, leg)
  BY <1>1 DEF Answered, Resting, AgesInv, Young, Before, Oldest
<1>2. ASSUME NEW s \in DOMAIN answers, NEW leg \in DOMAIN answers[s].basis
      PROVE  answers[s].basis[leg].age <= Oldest(s, leg)
  <2>1. /\ s \in Composed /\ answers[s].basis \in [Legs(s) -> Readings] /\ answers[s].age \in Nat
        /\ answers[s].age <= Life[s] - 1 /\ Life[s] \in Nat
    BY ServicesAssumption DEF TypeOK, IsBasis, AgesInv
  <2>2. answers[s].basis[leg].age <= Before(leg) + answers[s].age
    BY DEF AgesInv, Young
  <2>3. Oldest(s, leg) = Before(leg) + (Life[s] - 1)
    BY <2>1 DEF Oldest, Before
  <2> QED
    BY <2>1, <2>2, <2>3, BeforeType DEF Readings
<1> QED
  BY <1>1, <1>2 DEF AgesBounded

\* No answer rests on data older than the TTLs it passed through, one after the
\* other: for every choice of TTLs.
THEOREM DataAgesBounded == Spec => []AgesBounded
<1>1. Spec => []AgesInv
  BY AgesInit, StepKeepsAges, TypesHold, PTL DEF Spec
<1> QED
  BY <1>1, AgesInvBounds, TypesHold, PTL

-----------------------------------------------------------------------------
(* Limits that are passed.                                                 *)

\* A higher reading has passed as many limits, or more, and no more than there are.
LEMMA PassedGrows ==
  ASSUME NEW limits \in SUBSET Int, IsFiniteSet(limits), NEW x \in Int, NEW y \in Int, x <= y
  PROVE  /\ Passed(x, limits) \in Nat
         /\ Passed(x, limits) <= Passed(y, limits)
         /\ Passed(x, limits) <= Cardinality(limits)
<1> DEFINE low == {l \in limits : x > l}
           high == {l \in limits : y > l}
<1>0. low \in SUBSET limits /\ high \in SUBSET limits
  OBVIOUS
<1>a. low \in SUBSET high
  <2>1. \A l \in Int : x > l => y > l
    OBVIOUS
  <2> QED
    BY <2>1
<1>1. IsFiniteSet(high)
  BY <1>0, FS_Subset
<1>2. IsFiniteSet(low)
  BY <1>0, FS_Subset
<1>3. Passed(x, limits) = Cardinality(low) /\ Passed(y, limits) = Cardinality(high)
  BY DEF Passed
<1> HIDE DEF low, high
<1>4. Cardinality(low) \in Nat
  BY <1>2, FS_CardinalityType
<1>5. Cardinality(low) <= Cardinality(high) /\ Cardinality(low) <= Cardinality(limits)
  BY <1>0, <1>a, <1>1, FS_Subset
<1> QED
  BY <1>3, <1>4, <1>5

LEMMA ReachedGrows ==
  ASSUME NEW limits \in SUBSET Int, IsFiniteSet(limits), NEW x \in Int, NEW y \in Int, x <= y
  PROVE  /\ Reached(x, limits) \in Nat
         /\ Reached(x, limits) <= Reached(y, limits)
         /\ Reached(x, limits) <= Cardinality(limits)
<1> DEFINE low == {l \in limits : x >= l}
           high == {l \in limits : y >= l}
<1>0. low \in SUBSET limits /\ high \in SUBSET limits
  OBVIOUS
<1>a. low \in SUBSET high
  <2>1. \A l \in Int : x >= l => y >= l
    OBVIOUS
  <2> QED
    BY <2>1
<1>1. IsFiniteSet(high)
  BY <1>0, FS_Subset
<1>2. IsFiniteSet(low)
  BY <1>0, FS_Subset
<1>3. Reached(x, limits) = Cardinality(low) /\ Reached(y, limits) = Cardinality(high)
  BY DEF Reached
<1> HIDE DEF low, high
<1>4. Cardinality(low) \in Nat
  BY <1>2, FS_CardinalityType
<1>5. Cardinality(low) <= Cardinality(high) /\ Cardinality(low) <= Cardinality(limits)
  BY <1>0, <1>a, <1>1, FS_Subset
<1> QED
  BY <1>3, <1>4, <1>5

\* Two, three, four limits or five.
LEMMA TwoLimits ==
  ASSUME NEW a \in Int, NEW b \in Int, a < b
  PROVE  IsFiniteSet({a, b}) /\ Cardinality({a, b}) = 2
<1>1. IsFiniteSet({a}) /\ Cardinality({a}) = 1
  BY FS_Singleton
<1>2. IsFiniteSet({a} \cup {b}) /\ Cardinality({a} \cup {b}) = 2
  BY <1>1, FS_AddElement
<1>3. {a} \cup {b} = {a, b}
  OBVIOUS
<1> QED
  BY <1>2, <1>3

LEMMA ThreeLimits ==
  ASSUME NEW a \in Int, NEW b \in Int, NEW c \in Int, a < b, b < c
  PROVE  IsFiniteSet({a, b, c}) /\ Cardinality({a, b, c}) = 3
<1>0. IsFiniteSet({a, b}) /\ Cardinality({a, b}) = 2 /\ c \notin {a, b}
  BY TwoLimits
<1>1. IsFiniteSet({a, b} \cup {c}) /\ Cardinality({a, b} \cup {c}) = 3
  BY <1>0, FS_AddElement
<1>2. {a, b} \cup {c} = {a, b, c}
  OBVIOUS
<1> QED
  BY <1>1, <1>2

LEMMA FourLimits ==
  ASSUME NEW a \in Int, NEW b \in Int, NEW c \in Int, NEW d \in Int, a < b, b < c, c < d
  PROVE  IsFiniteSet({a, b, c, d}) /\ Cardinality({a, b, c, d}) = 4
<1>0. IsFiniteSet({a, b, c}) /\ Cardinality({a, b, c}) = 3 /\ d \notin {a, b, c}
  BY ThreeLimits
<1>1. IsFiniteSet({a, b, c} \cup {d}) /\ Cardinality({a, b, c} \cup {d}) = 4
  BY <1>0, FS_AddElement
<1>2. {a, b, c} \cup {d} = {a, b, c, d}
  OBVIOUS
<1> QED
  BY <1>1, <1>2

LEMMA FiveLimits ==
  ASSUME NEW a \in Int, NEW b \in Int, NEW c \in Int, NEW d \in Int, NEW e \in Int,
         a < b, b < c, c < d, d < e
  PROVE  IsFiniteSet({a, b, c, d, e}) /\ Cardinality({a, b, c, d, e}) = 5
<1>0. IsFiniteSet({a, b, c, d}) /\ Cardinality({a, b, c, d}) = 4 /\ e \notin {a, b, c, d}
  BY FourLimits
<1>1. IsFiniteSet({a, b, c, d} \cup {e}) /\ Cardinality({a, b, c, d} \cup {e}) = 5
  BY <1>0, FS_AddElement
<1>2. {a, b, c, d} \cup {e} = {a, b, c, d, e}
  OBVIOUS
<1> QED
  BY <1>1, <1>2

-----------------------------------------------------------------------------
(* Air quality, earthquakes and floods.                                    *)

\* aqi_category: a missing index alone is Unknown, a worse index never has a better
\* level, and there are six.
THEOREM AirLevelsOrdered ==
  ASSUME NEW x \in Nat, NEW y \in Nat, x <= y
  PROVE  /\ AqiLevel(NoReading) = 0
         /\ AqiLevel(x) \in 1..6 /\ AqiLevel(x) <= AqiLevel(y)
<1> DEFINE bands == {50, 100, 150, 200, 300}
<1>1. bands \in SUBSET Int /\ IsFiniteSet(bands) /\ Cardinality(bands) = 5
  BY FiveLimits
<1> HIDE DEF bands
<1>2. Passed(x, bands) \in Nat /\ Passed(x, bands) <= Passed(y, bands) /\ Passed(x, bands) <= 5
      /\ Passed(y, bands) \in Nat
  BY <1>1, PassedGrows
<1>3. x # NoReading /\ y # NoReading
  BY DEF NoReading
<1>4. AqiLevel(x) = 1 + Passed(x, bands) /\ AqiLevel(y) = 1 + Passed(y, bands)
  BY <1>3 DEF AqiLevel, bands
<1> QED
  BY <1>2, <1>4 DEF AqiLevel

\* _severity_from_mag: a stronger earthquake is never rated lower; five severities.
THEOREM SeverityOrdered ==
  ASSUME NEW m \in Int, NEW n \in Int, m <= n
  PROVE  SeverityFromMag(m) \in 0..4 /\ SeverityFromMag(m) <= SeverityFromMag(n)
<1>1. {40, 50, 60, 70} \in SUBSET Int /\ IsFiniteSet({40, 50, 60, 70}) /\ Cardinality({40, 50, 60, 70}) = 4
  BY FourLimits
<1> QED
  BY <1>1, ReachedGrows DEF SeverityFromMag

\* pandemic_hotspots: more active cases are never rated lower, and below the least
\* number there is no event.
THEOREM CasesOrdered ==
  ASSUME NEW x \in Nat, NEW y \in Nat, x <= y
  PROVE  /\ CaseSeverity(x) \in 0..4 /\ CaseSeverity(x) <= CaseSeverity(y)
         /\ CaseSeverity(x) = 0 <=> x < 10000
<1> DEFINE steps == {50000, 100000, 500000}
<1>1. steps \in SUBSET Int /\ IsFiniteSet(steps) /\ Cardinality(steps) = 3
  BY ThreeLimits
<1> HIDE DEF steps
<1>2. /\ Passed(x, steps) \in Nat /\ Passed(y, steps) \in Nat
      /\ Passed(x, steps) <= Passed(y, steps) /\ Passed(x, steps) <= 3
  BY <1>1, PassedGrows
<1> QED
  BY <1>2 DEF CaseSeverity, steps

\* _score_flood_risk: more rain or more floods nearby never lower the level, and the
\* score stays within 100.
THEOREM FloodRiskRises ==
  ASSUME NEW r \in Nat, NEW s \in Nat, r <= s, NEW f \in Nat, NEW g \in Nat, f <= g
  PROVE  /\ FloodScore(r, f) \in 0..100 /\ FloodLevel(FloodScore(r, f)) \in 0..3
         /\ FloodLevel(FloodScore(r, f)) <= FloodLevel(FloodScore(s, g))
<1> DEFINE wet(x) == (8 * x) \div 100
<1>1. wet(r) \in Nat /\ wet(s) \in Nat /\ wet(r) <= wet(s)
  OBVIOUS
<1> HIDE DEF wet
<1>2. FloodScore(r, f) = Least(100, wet(r) + 15 * f) /\ FloodScore(s, g) = Least(100, wet(s) + 15 * g)
  BY DEF FloodScore, wet
<1>3. FloodScore(r, f) \in 0..100 /\ FloodScore(s, g) \in 0..100 /\ FloodScore(r, f) <= FloodScore(s, g)
  BY <1>1, <1>2 DEF Least
<1>4. {15, 40, 70} \in SUBSET Int /\ IsFiniteSet({15, 40, 70}) /\ Cardinality({15, 40, 70}) = 3
  BY ThreeLimits
<1> QED
  BY <1>3, <1>4, PassedGrows DEF FloodLevel

-----------------------------------------------------------------------------
(* What the models of a forecast agree on.                                 *)

\* _rain_intensity: more rain never has a lower name.
THEOREM IntensityOrdered ==
  ASSUME NEW x \in Nat, NEW y \in Nat, x <= y
  PROVE  RainIntensity(x) \in 0..4 /\ RainIntensity(x) <= RainIntensity(y)
<1> DEFINE steps == {100, 400, 1000}
<1>1. steps \in SUBSET Int /\ IsFiniteSet(steps) /\ Cardinality(steps) = 3
  BY ThreeLimits
<1> HIDE DEF steps
<1>2. /\ Reached(x, steps) \in Nat /\ Reached(y, steps) \in Nat
      /\ Reached(x, steps) <= Reached(y, steps) /\ Reached(x, steps) <= 3
  BY <1>1, ReachedGrows
<1> QED
  BY <1>2 DEF RainIntensity, steps

\* _confidence in precipitation: models that agree on dry weather are trusted like
\* models that agree on rain, and confidence is high where all agree. One model alone
\* gives none.
THEOREM ConfidenceIsFair ==
  ASSUME NEW models \in Nat, NEW wet \in 0..models
  PROVE  /\ RainConfidence(wet, models) = RainConfidence(models - wet, models)
         /\ RainConfidence(wet, models) = 0 <=> models < 2
         /\ models >= 2 /\ wet \in {0, models} => RainConfidence(wet, models) = 3
<1>1. models - wet \in Nat /\ wet \in Nat /\ models - (models - wet) = wet
  OBVIOUS
<1> QED
  BY <1>1 DEF RainConfidence, Agrees

\* _confidence in temperature and wind: a wider spread is never trusted more.
THEOREM SpreadOrdered ==
  ASSUME NEW models \in Nat, NEW limit \in Nat \ {0}, NEW x \in Nat, NEW y \in Nat, x <= y
  PROVE  /\ SpreadConfidence(models, x, limit) \in 0..3
         /\ SpreadConfidence(models, y, limit) <= SpreadConfidence(models, x, limit)
         /\ SpreadConfidence(models, y, limit) = 0 <=> models < 2
<1>1. {limit, 2 * limit} \in SUBSET Int /\ IsFiniteSet({limit, 2 * limit}) /\ Cardinality({limit, 2 * limit}) = 2
  <2>1. limit \in Int /\ 2 * limit \in Int /\ limit < 2 * limit
    OBVIOUS
  <2> QED
    BY <2>1, TwoLimits
<1>2. /\ Passed(x, {limit, 2 * limit}) \in 0..2 /\ Passed(y, {limit, 2 * limit}) \in 0..2
      /\ Passed(x, {limit, 2 * limit}) <= Passed(y, {limit, 2 * limit})
  BY <1>1, PassedGrows
<1> QED
  BY <1>2 DEF SpreadConfidence

-----------------------------------------------------------------------------
(* Advice on health.                                                       *)

\* _health_fallback: the risk is that of the worst reading, whatever the others are.
THEOREM WorstReadingCounts ==
  ASSUME NEW t \in Int, NEW h \in Nat, NEW uv \in Nat, NEW aqi \in Nat \cup {NoReading}
  PROVE  /\ HealthRisk(t, h, uv, aqi) \in 0..2
         /\ HealthRisk(t, h, uv, aqi) \in {HeatRisk(t, h), SunRisk(uv), AirRisk(aqi)}
         /\ HealthRisk(t, h, uv, aqi) >= HeatRisk(t, h)
         /\ HealthRisk(t, h, uv, aqi) >= SunRisk(uv)
         /\ HealthRisk(t, h, uv, aqi) >= AirRisk(aqi)
<1>1. HeatRisk(t, h) \in 0..2
  BY DEF HeatRisk
<1>2. /\ {6, 8} \in SUBSET Int /\ IsFiniteSet({6, 8}) /\ Cardinality({6, 8}) = 2
      /\ {100, 200} \in SUBSET Int /\ IsFiniteSet({100, 200}) /\ Cardinality({100, 200}) = 2
  BY TwoLimits
<1>3. SunRisk(uv) \in 0..2
  BY <1>2, ReachedGrows DEF SunRisk
<1>4. AirRisk(aqi) \in 0..2
  <2>1. CASE aqi = NoReading
    BY <2>1 DEF AirRisk
  <2>2. CASE aqi \in Nat /\ aqi # NoReading
    <3>1. Passed(aqi, {100, 200}) \in Nat /\ Passed(aqi, {100, 200}) <= 2
      BY <1>2, <2>2, PassedGrows
    <3> QED
      BY <2>2, <3>1 DEF AirRisk
  <2> QED
    BY <2>1, <2>2
<1> HIDE DEF HeatRisk, SunRisk, AirRisk
<1> QED
  BY <1>1, <1>3, <1>4 DEF HealthRisk, Escalate

\* _resolve_uv_index: an index is reported only if a provider gave it.
THEOREM UvIsMeasured ==
  ASSUME NEW hours \in Nat, NEW values \in [1..hours -> Nat \cup {NoReading}], NEW hour \in Nat
  PROVE  UvIndex(values, hour) \in {values[h] : h \in 1..hours} \cup {NoReading}
<1> DEFINE known == {h \in DOMAIN values : values[h] # NoReading}
           first == CHOOSE h \in known : \A g \in known : h <= g
<1>1. CASE hour \in DOMAIN values
  BY <1>1 DEF UvIndex
<1>2. CASE hour \notin DOMAIN values /\ known = {}
  BY <1>2 DEF UvIndex
<1>3. CASE hour \notin DOMAIN values /\ known # {}
  <2>1. \E h \in known : \A g \in known : h <= g
    <3>1. known \in SUBSET Nat /\ known # {}
      BY <1>3
    <3> HIDE DEF known
    <3>2. PICK h \in known : \A g \in known : ~(<<g, h>> \in OpToRel(<, Nat))
      BY <3>1, NatLessThanWellFounded, WFMin
    <3>3. \A g \in known : ~(g < h)
      BY <3>1, <3>2 DEF OpToRel
    <3> QED
      BY <3>1, <3>3
  <2>2. first \in known
    BY <2>1
  <2>3. UvIndex(values, hour) = values[first]
    BY <1>3 DEF UvIndex
  <2> QED
    BY <2>2, <2>3
<1> QED
  BY <1>1, <1>2, <1>3

\* location_intel: the rank is one of the places among the stations.
THEOREM RankIsAPlace ==
  ASSUME NEW n \in Nat, NEW stations \in [1..n -> Nat], NEW aqi \in Nat
  PROVE  Rank(aqi, stations) \in 1..(n + 1)
<1>1. IsFiniteSet(1..n) /\ Cardinality(1..n) = n
  BY FS_Interval
<1>2. {s \in DOMAIN stations : stations[s] < aqi} \in SUBSET (1..n)
  OBVIOUS
<1>3. /\ IsFiniteSet({s \in DOMAIN stations : stations[s] < aqi})
      /\ Cardinality({s \in DOMAIN stations : stations[s] < aqi}) <= n
  BY <1>1, <1>2, FS_Subset
<1> QED
  BY <1>3, FS_CardinalityType DEF Rank
=============================================================================
