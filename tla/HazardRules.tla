----------------------------- MODULE HazardRules -----------------------------
(***************************************************************************)
(* The rules by which the services of the app rate what a provider tells   *)
(* them: bands and scores of app/services/aqi.py, weather.py, disasters.py *)
(* and ai.py. A rule takes readings and returns a rank; 0 is always the    *)
(* lowest. Readings with a fraction are integers of the stated unit.       *)
(***************************************************************************)
EXTENDS Integers, FiniteSets

\* None. No index, temperature or amount the providers report is as low.
NoReading == -1000

\* How many of the ascending limits x has passed.
Passed(x, limits) == Cardinality({l \in limits : x > l})
Reached(x, limits) == Cardinality({l \in limits : x >= l})

\* aqi_category: the level of the bands of the US EPA, Unknown for None.
AqiLevel_NoneIsGood(aqi) == 1 + Passed(aqi, {50, 100, 150, 200, 300})
AqiLevel(aqi) == IF aqi = NoReading THEN 0 ELSE 1 + Passed(aqi, {50, 100, 150, 200, 300})

\* _severity_from_mag, of tenths: Low, Minor, Moderate, Severe, Extreme.
SeverityFromMag(mag) == Reached(mag, {40, 50, 60, 70})

\* pandemic_hotspots: 0 is no event, then Minor, Moderate, Severe, Extreme.
CaseSeverity(active) ==
  IF active < 10000 THEN 0 ELSE 1 + Passed(active, {50000, 100000, 500000})

\* _score_flood_risk: from tenths of a millimetre and the number of floods
\* nearby; int cuts the fraction of 0.8 points per millimetre off.
Least(a, b) == IF a <= b THEN a ELSE b
FloodScore(rain, floods) == Least(100, (8 * rain) \div 100 + 15 * floods)

\* Very Low, Low, Moderate, High.
FloodLevel(score) == Passed(score, {15, 40, 70})

\* _rain_intensity, of hundredths of a millimetre: none, light, moderate, heavy,
\* violent.
RainIntensity(rain) ==
  IF rain <= 1 THEN 0 ELSE 1 + Reached(rain, {100, 400, 1000})

\* _confidence in precipitation: wet of the models expect some. Low, medium and
\* high, 1 to 3, and unknown, 0.
Agrees(wet, models, share) == 10 * wet >= share * models \/ 10 * (models - wet) >= share * models
RainConfidence(wet, models) ==
  IF models < 2 THEN 0
  ELSE IF Agrees(wet, models, 8) THEN 3
  ELSE IF Agrees(wet, models, 6) THEN 2 ELSE 1

\* _confidence in temperature and wind: by the spread, in the units of the limit.
SpreadConfidence(models, spread, limit) ==
  IF models < 2 THEN 0 ELSE 3 - Passed(spread, {limit, 2 * limit})

\* _escalate: risk never ratchets back down.
Escalate(risk, candidate) == IF risk >= candidate THEN risk ELSE candidate

\* _health_fallback: Low, Moderate, High, from the worst single reading.
HeatRisk(temperature, humidity) ==
  IF temperature >= 40 \/ (temperature >= 35 /\ humidity >= 60) THEN 2
  ELSE IF temperature >= 33 \/ temperature <= 5 THEN 1 ELSE 0
SunRisk(uv) == Reached(uv, {6, 8})
AirRisk(aqi) == IF aqi = NoReading THEN 0 ELSE Passed(aqi, {100, 200})

HealthRisk(temperature, humidity, uv, aqi) ==
  Escalate(Escalate(HeatRisk(temperature, humidity), SunRisk(uv)), AirRisk(aqi))

\* _resolve_uv_index: the value of the current hour, or else the first there is.
\* values holds one per hour, NoReading where it is null.
UvIndex(values, hour) ==
  LET known == {h \in DOMAIN values : values[h] # NoReading}
  IN IF hour \in DOMAIN values THEN values[hour]
     ELSE IF known = {} THEN NoReading
     ELSE values[CHOOSE h \in known : \A g \in known : h <= g]

\* location_intel: the rank of the place among the stations, cleanest first.
Rank(aqi, stations) == 1 + Cardinality({s \in DOMAIN stations : stations[s] < aqi})
=============================================================================
