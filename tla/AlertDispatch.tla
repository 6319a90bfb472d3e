--------------------------- MODULE AlertDispatch ---------------------------
(***************************************************************************)
(* The push dispatcher: app/services/alert_dispatch.py together with the   *)
(* delivery ledger (SentAlertsRepository), the token table                 *)
(* (PushTokenRepository) and the favourites it reads.                      *)
(*                                                                         *)
(* Several copies of the dispatch pass (Passes) run against one database.  *)
(* Every await of the code that talks to the feed, to the database or to   *)
(* Expo is a step of its own, so that passes, users, the clock, the        *)
(* retention sweep and crashes interleave between any two of them.         *)
(*                                                                         *)
(* Data is abstracted to what the filters compare: an event is a model     *)
(* value with a severity rank; a device's favourites are the set of events *)
(* within the radius of one of them; a quiet window is a set of slots of   *)
(* the day; claimed_at is the age of the row in ticks.                     *)
(***************************************************************************)
EXTENDS Integers, FiniteSets

CONSTANTS
  NumDevices,     \* devices are 1..NumDevices: the keyset order of device_id
  Events,         \* event ids of the merged feed
  Passes,         \* concurrent copies of run_pass (worker, replica, by hand)
  Tokens,         \* Expo push tokens
  NoToken,        \* the token of a device without a token row
  Severity,       \* [Events -> rank], Unranked for an unknown severity
  Floors,         \* min_severity values a device may choose
  DefaultFloor,   \* the column default of min_severity
  Breakthrough,   \* rank of PUSH_QUIET_HOURS_BREAKTHROUGH
  Windows,        \* quiet windows a device may choose: sets of slots
  Areas,          \* sets of events a device's favourites may cover
  DaySlots,       \* slots of one day
  PageSize,       \* PUSH_BATCH_SIZE
  MaxPages,       \* MAX_PAGES_PER_PASS
  ChunkSize,      \* MAX_MESSAGES_PER_REQUEST
  HttpRetries,    \* HTTP_MAX_RETRIES: how often request_json repeats a POST
  SweepLimit,     \* limit of the retryable query
  MaxAttempts,    \* PUSH_MAX_ATTEMPTS
  Cap,            \* PUSH_MAX_PER_DEVICE_PER_PASS
  Interval,       \* PUSH_DISPATCH_INTERVAL_SECONDS, in ticks
  VolumeWindow,   \* VOLUME_WINDOW_HOURS, in ticks
  Retention,      \* SENT_ALERTS_RETENTION_DAYS, in ticks
  MaxAge,         \* bound: ages stop growing here
  PassTime,       \* bound: ticks a pass may take
  MaxFaults,      \* bound: crashes, refused sends, failed feeds
  MaxEdits        \* bound: changes made by users, feeds and Expo

Unranked == -1

Devices == 1..NumDevices
Pairs   == Devices \X Events
Slots   == 0..(DaySlots - 1)

ASSUME ConstantsAssumption ==
  /\ NumDevices \in Nat
  /\ IsFiniteSet(Events)
  /\ NoToken \notin Tokens
  /\ Severity \in [Events -> Nat \cup {Unranked}]
  /\ DefaultFloor \in Floors
  /\ Windows \subseteq SUBSET Slots
  /\ Areas \subseteq SUBSET Events
  /\ DaySlots \in Nat \ {0}
  /\ PageSize \in Nat \ {0} /\ MaxPages \in Nat /\ ChunkSize \in Nat \ {0}
  /\ HttpRetries \in Nat
  /\ SweepLimit \in Nat /\ MaxAttempts \in Nat \ {0} /\ Cap \in Nat
  /\ Interval \in Nat /\ VolumeWindow \in Nat /\ Retention \in Nat
  /\ MaxAge \in Nat /\ Interval < MaxAge /\ VolumeWindow < MaxAge
  /\ PassTime \in Nat /\ PassTime <= Retention
  /\ MaxFaults \in Nat /\ MaxEdits \in Nat

VARIABLES
  slot,       \* the slot of the day
  live,       \* events the providers currently report
  tokens,     \* push_tokens: one row per device
  near,       \* favorites: the events each device's saved places cover
  retired,    \* tokens Expo no longer delivers to
  ledger,     \* sent_alerts: one row per (device, event)
  pass,       \* the local state of every pass
  faults,     \* failures so far
  edits,      \* outside changes so far
  requests,   \* per pair: push requests made since it was last claimed
  notified,   \* per pair: requests Expo queued for the device
  lost,       \* per pair: requests whose outcome was never written
  blind       \* per pair: queued notifications the ledger does not know of

tables == <<tokens, near, ledger>>
ghosts == <<requests, notified, lost, blind>>
vars   == <<slot, live, tokens, near, retired, ledger, pass, faults, edits,
            requests, notified, lost, blind>>

-----------------------------------------------------------------------------
(* Rows and pass states *)

NoClaim == [status |-> "none", attempts |-> 0, age |-> 0]
Absent  == [token |-> NoToken, enabled |-> FALSE, floor |-> DefaultFloor,
            quiet |-> {}]

ClaimRow == [status : {"none", "pending", "sent", "failed"},
             attempts : 0..MaxAttempts, age : 0..MaxAge]
TokenRow == [token : Tokens \cup {NoToken}, enabled : BOOLEAN,
             floor : Floors, quiet : Windows \cup {{}}]

PCs == {"idle", "fetch", "page", "favs", "plan", "claim", "send", "markSent",
        "markFailed", "dropTokens", "sweep", "sweepTokens", "sweepFavs",
        "abandon"}
Outcomes == {"unsent", "ok", "transient", "permanent", "dead"}

Unread == [d \in Devices |-> Absent]
Nowhere == [d \in Devices |-> {}]
Untried == [pr \in Pairs |-> 0]
Unsent  == [pr \in Pairs |-> "unsent"]

\* A pass holds no state between runs.
Idle == [pc |-> "idle", mode |-> "walk", now |-> 0, ticks |-> 0,
         seen |-> {}, after |-> 0, pages |-> 0, rows |-> Unread,
         favs |-> Nowhere, todo |-> {}, plan |-> {}, drop |-> {},
         batch |-> {}, tried |-> Untried, outcome |-> Unsent]

PassState ==
  [pc : PCs, mode : {"walk", "sweep"}, now : Slots, ticks : 0..PassTime,
   seen : SUBSET Events, after : 0..NumDevices, pages : 0..MaxPages,
   rows : [Devices -> TokenRow], favs : [Devices -> SUBSET Events],
   todo : SUBSET Devices, plan : SUBSET Pairs, drop : SUBSET Pairs,
   batch : SUBSET Pairs, tried : [Pairs -> 0..(MaxAttempts - 1)],
   outcome : [Pairs -> Outcomes]]

TypeOK ==
  /\ slot \in Slots
  /\ live \subseteq Events
  /\ tokens \in [Devices -> TokenRow]
  /\ near \in [Devices -> SUBSET Events]
  /\ retired \subseteq Tokens
  /\ ledger \in [Pairs -> ClaimRow]
  /\ pass \in [Passes -> PassState]
  /\ faults \in 0..MaxFaults /\ edits \in 0..MaxEdits
  /\ requests \in [Pairs -> Nat] /\ notified \in [Pairs -> Nat]
  /\ lost \in [Pairs -> Nat] /\ blind \in [Pairs -> Nat]

\* Users register before the first pass; nothing has been claimed yet.
Init ==
  /\ slot \in Slots
  /\ live \in SUBSET Events
  /\ tokens \in [Devices -> [token : Tokens, enabled : {TRUE},
                             floor : Floors, quiet : Windows \cup {{}}]]
  /\ near \in [Devices -> Areas]
  /\ retired = {}
  /\ ledger = [pr \in Pairs |-> NoClaim]
  /\ pass = [p \in Passes |-> Idle]
  /\ faults = 0 /\ edits = 0
  /\ requests = Untried /\ notified = Untried
  /\ lost = Untried /\ blind = Untried

-----------------------------------------------------------------------------
(* Filters and queries *)

Least(a, b) == IF a <= b THEN a ELSE b

Add(count, S, n) == [pr \in Pairs |-> IF pr \in S THEN count[pr] + n ELSE count[pr]]
Plus(count, S) == Add(count, S, 1)
Cleared(count, S) == [pr \in Pairs |-> IF pr \in S THEN 0 ELSE count[pr]]

\* An unrecognised severity passes the floor.
PassesFloor(e, floor) == Severity[e] = Unranked \/ Severity[e] >= floor

\* An unrecognised severity does not break through.
BreaksThrough(e) == Severity[e] >= Breakthrough /\ Breakthrough > 0

InQuiet(row, now) == now \in row.quiet

\* candidates_for_device: one per event, whichever favourite caught it.
Candidates(row, area, seen) == {e \in seen \cap area : PassesFloor(e, row.floor)}

\* What is left of the candidates when the quiet window has been applied.
Audible(row, area, seen, now) ==
  {e \in Candidates(row, area, seen) : InQuiet(row, now) => BreaksThrough(e)}

\* T is what truncating the severity-ranked list C to n entries may leave;
\* the nearest-first tie-break is left open.
IsTop(T, C, n) ==
  /\ Cardinality(T) = Least(n, Cardinality(C))
  /\ \A e \in T, f \in C \ T : Severity[e] >= Severity[f]

Recent_Ever(d) == {e \in Events : ledger[<<d, e>>].status # "none"}
\* recent_count_for_device: claims, whatever became of them.
Recent(d) ==
  {e \in Events : /\ ledger[<<d, e>>].status # "none"
                  /\ ledger[<<d, e>>].age <= VolumeWindow}

Budget_PerPass(d) == Cap
Budget(d) == IF Cardinality(Recent(d)) >= Cap THEN 0 ELSE Cap - Cardinality(Recent(d))

Dispatchable_SkipsOne(after) == {d \in Devices : d > after + 1 /\ tokens[d].enabled}
\* dispatchable_page: the next PageSize devices with alerts on.
Dispatchable(after) == {d \in Devices : d > after /\ tokens[d].enabled}
Page(after) ==
  {d \in Dispatchable(after) :
     Cardinality({c \in Dispatchable(after) : c < d}) < PageSize}

\* The rows an ON CONFLICT DO NOTHING insert creates and returns.
Won_MergeUpsert(plan) == plan
Won(plan) == {pr \in plan : ledger[pr].status = "none"}

\* retryable: unsettled, attempts left, older than one dispatch interval.
Retryable_AnyStatus ==
  {pr \in Pairs : /\ ledger[pr].status # "none"
                  /\ ledger[pr].attempts < MaxAttempts
                  /\ ledger[pr].age > Interval}
Retryable_Fresh ==
  {pr \in Pairs : /\ ledger[pr].status \in {"pending", "failed"}
                  /\ ledger[pr].attempts < MaxAttempts}
Retryable_OnlyFailed ==
  {pr \in Pairs : /\ ledger[pr].status = "failed"
                  /\ ledger[pr].attempts < MaxAttempts
                  /\ ledger[pr].age > Interval}
Retryable ==
  {pr \in Pairs : /\ ledger[pr].status \in {"pending", "failed"}
                  /\ ledger[pr].attempts < MaxAttempts
                  /\ ledger[pr].age > Interval}

\* The oldest SweepLimit of them.
IsOldest(S) ==
  /\ Cardinality(S) = Least(SweepLimit, Cardinality(Retryable))
  /\ \A pr \in S, qr \in Retryable \ S : ledger[pr].age >= ledger[qr].age

\* A mark_* upsert keeps claimed_at, or defaults it when the row was pruned.
Marked(row, status, attempts) ==
  [status |-> status, attempts |-> attempts, age |-> row.age]

-----------------------------------------------------------------------------
(* Where a pass goes next *)

Oks_Transient(s) == {pr \in s.batch : s.outcome[pr] \in {"ok", "transient"}}
Oks(s)    == {pr \in s.batch : s.outcome[pr] = "ok"}
Failed(s) == s.batch \ Oks(s)
DeadTokens(s) == {s.rows[pr[1]].token : pr \in {q \in s.batch : s.outcome[q] = "dead"}}

\* The device ids of the page in hand.
InPage(s) == {d \in Devices : s.rows[d] # Absent}

\* A short page ends the walk.
EndPage(s) ==
  [s EXCEPT !.pc = IF Cardinality(InPage(s)) < PageSize THEN "sweep" ELSE "page",
            !.rows = Unread, !.favs = Nowhere, !.todo = {}, !.plan = {},
            !.batch = {}, !.outcome = Unsent]

EndBatch(s) == IF s.mode = "walk" THEN EndPage(s) ELSE Idle

AfterFailed(s) ==
  IF DeadTokens(s) # {} THEN [s EXCEPT !.pc = "dropTokens"] ELSE EndBatch(s)

AfterSent(s) ==
  IF Failed(s) # {} THEN [s EXCEPT !.pc = "markFailed"] ELSE EndBatch(s)

AfterSend(s) ==
  IF \E pr \in s.batch : s.outcome[pr] = "unsent" THEN s
  ELSE IF Oks(s) # {} THEN [s EXCEPT !.pc = "markSent"] ELSE AfterSent(s)

AfterSweepRead(s) ==
  IF s.drop # {} THEN [s EXCEPT !.pc = "abandon"]
  ELSE IF s.batch # {} THEN [s EXCEPT !.pc = "send"] ELSE Idle

Goto(p, s) == pass' = [pass EXCEPT ![p] = s]

-----------------------------------------------------------------------------
(* The pass *)

\* Bound: at most MaxFaults failures.
Fault == faults < MaxFaults /\ faults' = faults + 1

\* run_pass up to the feed request: the clock is read once, here.
Begin(p) ==
  /\ pass[p].pc = "idle"
  /\ Goto(p, [Idle EXCEPT !.pc = "fetch", !.now = slot])
  /\ UNCHANGED <<slot, live, retired, faults, edits>>
  /\ UNCHANGED tables /\ UNCHANGED ghosts

\* disasters.aggregate: every source, or what is left when some have failed.
\* An empty feed ends the pass, failed sources or not.
Fetch(p) ==
  /\ pass[p].pc = "fetch"
  /\ \E got \in SUBSET live :
       /\ IF got = live THEN UNCHANGED faults ELSE Fault
       /\ Goto(p, IF got = {} THEN Idle
                  ELSE [pass[p] EXCEPT !.pc = "page", !.seen = got])
  /\ UNCHANGED <<slot, live, retired, edits>>
  /\ UNCHANGED tables /\ UNCHANGED ghosts

\* One turn of the loop of _walk_devices.
ReadPage(p) ==
  LET s == pass[p]  page == Page(s.after) IN
  /\ s.pc = "page"
  /\ \/ /\ s.pages = MaxPages \/ page = {}
        /\ Goto(p, [s EXCEPT !.pc = "sweep"])
     \/ /\ s.pages < MaxPages
        /\ \E last \in page :
             /\ \A d \in page : d <= last
             /\ Goto(p, [s EXCEPT !.pc = "favs", !.pages = @ + 1,
                                  !.after = last, !.todo = page,
                                  !.rows = [d \in Devices |->
                                              IF d \in page THEN tokens[d] ELSE Absent]])
  /\ UNCHANGED <<slot, live, retired, faults, edits>>
  /\ UNCHANGED tables /\ UNCHANGED ghosts

\* _dispatch_page reads the page's favourites in one query.
ReadFavorites(p) ==
  LET s == pass[p] IN
  /\ s.pc = "favs"
  /\ Goto(p, [s EXCEPT !.pc = "plan",
                       !.favs = [d \in Devices |-> IF d \in s.todo THEN near[d] ELSE {}]])
  /\ UNCHANGED <<slot, live, retired, faults, edits>>
  /\ UNCHANGED tables /\ UNCHANGED ghosts

\* _plan_for_device: filters, then the volume cap; nothing is claimed yet.
PlanDevice(p) ==
  LET s == pass[p] IN
  /\ s.pc = "plan"
  /\ \E d \in s.todo :
       /\ \A c \in s.todo : d <= c
       /\ \E top \in SUBSET Audible(s.rows[d], s.favs[d], s.seen, s.now) :
            /\ IsTop(top, Audible(s.rows[d], s.favs[d], s.seen, s.now), Budget(d))
            /\ LET plan == s.plan \cup ({d} \X top) IN
               Goto(p, IF s.todo # {d}
                         THEN [s EXCEPT !.todo = @ \ {d}, !.plan = plan]
                       ELSE IF plan = {} THEN EndPage(s)
                       ELSE [s EXCEPT !.pc = "claim", !.todo = {}, !.plan = plan])
  /\ UNCHANGED <<slot, live, retired, faults, edits>>
  /\ UNCHANGED tables /\ UNCHANGED ghosts

\* SentAlertsRepository.claim: the pairs won are the sends this pass owns.
Claim(p) ==
  LET s == pass[p]  won == Won(s.plan) IN
  /\ s.pc = "claim"
  /\ ledger' = [pr \in Pairs |->
                   IF pr \in won
                     THEN [status |-> "pending", attempts |-> 0, age |-> 0]
                     ELSE ledger[pr]]
  /\ Goto(p, IF won = {} THEN EndPage(s)
             ELSE [s EXCEPT !.pc = "send", !.plan = {}, !.batch = won])
  /\ requests' = Cleared(requests, won) /\ notified' = Cleared(notified, won)
  /\ lost' = Cleared(lost, won) /\ blind' = Cleared(blind, won)
  /\ UNCHANGED <<slot, live, tokens, near, retired, faults, edits>>

\* Answers Expo may give one message; only a retired token is reported dead.
Answers(token) == {"ok", "transient", "permanent"} \cup
                  (IF token \in retired THEN {"dead"} ELSE {})

\* The next request of push.send, answered with one ticket per message.
\* request_json repeats a POST that timed out, and Expo may have queued every
\* one of the early ones: those notifications the ledger never hears of.
SendTickets(p) ==
  LET s == pass[p]
      unsent == {pr \in s.batch : s.outcome[pr] = "unsent"} IN
  /\ s.pc = "send"
  /\ \E chunk \in SUBSET unsent :
       /\ Cardinality(chunk) = Least(ChunkSize, Cardinality(unsent))
       /\ requests' = Plus(requests, chunk)
       /\ \E ticket \in [chunk -> Outcomes], early \in 0..HttpRetries :
            /\ \A pr \in chunk : ticket[pr] \in Answers(s.rows[pr[1]].token)
            /\ IF early = 0 /\ \A pr \in chunk : ticket[pr] \in {"ok", "dead"}
                 THEN UNCHANGED faults ELSE Fault
            /\ Goto(p, AfterSend([s EXCEPT !.outcome =
                      [pr \in Pairs |-> IF pr \in chunk THEN ticket[pr] ELSE s.outcome[pr]]]))
            /\ blind' = Add(blind, chunk, early)
            /\ notified' = Add(Plus(notified, {pr \in chunk : ticket[pr] = "ok"}),
                               chunk, early)
  /\ UNCHANGED <<slot, live, tokens, near, retired, ledger, edits, lost>>

\* The request fails as a whole, or its answer cannot be paired with the
\* chunk: a transient failure for every message, however often Expo queued it.
SendFails(p) ==
  LET s == pass[p]
      unsent == {pr \in s.batch : s.outcome[pr] = "unsent"} IN
  /\ s.pc = "send"
  /\ Fault
  /\ \E chunk \in SUBSET unsent, queued \in 0..(HttpRetries + 1) :
       /\ Cardinality(chunk) = Least(ChunkSize, Cardinality(unsent))
       /\ Goto(p, AfterSend([s EXCEPT !.outcome =
                 [pr \in Pairs |-> IF pr \in chunk THEN "transient" ELSE s.outcome[pr]]]))
       /\ requests' = Plus(requests, chunk)
       /\ notified' = Add(notified, chunk, queued)
       /\ blind' = Add(blind, chunk, queued)
  /\ UNCHANGED <<slot, live, tokens, near, retired, ledger, edits, lost>>

\* _settle, first statement: mark_sent.
MarkSent(p) ==
  LET s == pass[p] IN
  /\ s.pc = "markSent"
  /\ ledger' = [pr \in Pairs |-> IF pr \in Oks(s) THEN Marked(ledger[pr], "sent", 1)
                                ELSE ledger[pr]]
  /\ Goto(p, AfterSent(s))
  /\ UNCHANGED <<slot, live, tokens, near, retired, faults, edits>>
  /\ UNCHANGED ghosts

\* The attempt count a failure is recorded with.
AttemptsAfter_NotCounted(s, pr) ==
  IF s.outcome[pr] \in {"permanent", "dead"} THEN MaxAttempts ELSE s.tried[pr]
AttemptsAfter(s, pr) ==
  IF s.outcome[pr] \in {"permanent", "dead"} THEN MaxAttempts ELSE s.tried[pr] + 1

\* _settle, second statement: mark_failed.
MarkFailed(p) ==
  LET s == pass[p] IN
  /\ s.pc = "markFailed"
  /\ ledger' = [pr \in Pairs |->
                   IF pr \in Failed(s)
                     THEN Marked(ledger[pr], "failed", AttemptsAfter(s, pr))
                     ELSE ledger[pr]]
  /\ Goto(p, AfterFailed(s))
  /\ UNCHANGED <<slot, live, tokens, near, retired, faults, edits>>
  /\ UNCHANGED ghosts

\* Rows delete_by_tokens removes: by token value, whoever holds it now.
Dropped_ByDevice(s) == {pr[1] : pr \in {q \in s.batch : s.outcome[q] = "dead"}}
Dropped(s) == {d \in Devices : tokens[d].token \in DeadTokens(s)}

\* _settle, third statement: delete_by_tokens.
DropTokens(p) ==
  LET s == pass[p] IN
  /\ s.pc = "dropTokens"
  /\ tokens' = [d \in Devices |-> IF d \in Dropped(s) THEN Absent ELSE tokens[d]]
  /\ Goto(p, EndBatch(s))
  /\ UNCHANGED <<slot, live, near, retired, ledger, faults, edits>>
  /\ UNCHANGED ghosts

-----------------------------------------------------------------------------
(* The retry sweep *)

\* _sweep_retries: the rows worth another attempt, with their attempt counts.
ReadRetryable(p) ==
  LET s == pass[p] IN
  /\ s.pc = "sweep"
  /\ \E wanted \in SUBSET Retryable :
       /\ IsOldest(wanted)
       /\ Goto(p, IF wanted = {} THEN Idle
                  ELSE [s EXCEPT !.pc = "sweepTokens", !.mode = "sweep",
                                 !.plan = wanted,
                                 !.tried = [pr \in Pairs |->
                                              IF pr \in wanted THEN ledger[pr].attempts ELSE 0]])
  /\ UNCHANGED <<slot, live, retired, faults, edits>>
  /\ UNCHANGED tables /\ UNCHANGED ghosts

ReadSweepTokens(p) ==
  LET s == pass[p] IN
  /\ s.pc = "sweepTokens"
  /\ Goto(p, [s EXCEPT !.pc = "sweepFavs",
                       !.rows = [d \in Devices |->
                                   IF \E pr \in s.plan : pr[1] = d THEN tokens[d] ELSE Absent]])
  /\ UNCHANGED <<slot, live, retired, faults, edits>>
  /\ UNCHANGED tables /\ UNCHANGED ghosts

\* No row, alerts off, or an event that is no longer a candidate.
Hopeless(s, pr, area) ==
  \/ s.rows[pr[1]].token = NoToken \/ ~s.rows[pr[1]].enabled
  \/ pr[2] \notin Candidates(s.rows[pr[1]], area, s.seen)

\* Held back by the quiet window: left unsettled.
Held(s, pr) == InQuiet(s.rows[pr[1]], s.now) /\ ~BreaksThrough(pr[2])

\* Favourites are read, then every wanted row is abandoned, held or re-sent.
ReadSweepFavorites(p) ==
  LET s == pass[p]
      drop == {pr \in s.plan : Hopeless(s, pr, near[pr[1]])} IN
  /\ s.pc = "sweepFavs"
  /\ Goto(p, AfterSweepRead([s EXCEPT
               !.plan = {}, !.drop = drop, !.outcome = Unsent,
               !.batch = {pr \in s.plan \ drop : ~Held(s, pr)}]))
  /\ UNCHANGED <<slot, live, retired, faults, edits>>
  /\ UNCHANGED tables /\ UNCHANGED ghosts

\* mark_failed of the abandoned rows, at the maximum attempt count.
Abandon(p) ==
  LET s == pass[p] IN
  /\ s.pc = "abandon"
  /\ ledger' = [pr \in Pairs |-> IF pr \in s.drop
                                  THEN Marked(ledger[pr], "failed", MaxAttempts)
                                  ELSE ledger[pr]]
  /\ Goto(p, AfterSweepRead([s EXCEPT !.drop = {}]))
  /\ UNCHANGED <<slot, live, tokens, near, retired, faults, edits>>
  /\ UNCHANGED ghosts

-----------------------------------------------------------------------------
(* Failures, the clock, retention and the outside world *)

\* Requests whose outcome pass state s holds and the ledger does not.
Unwritten(s) ==
  CASE s.pc \in {"send", "markSent"} -> {pr \in s.batch : s.outcome[pr] # "unsent"}
    [] s.pc = "markFailed" -> Failed(s)
    [] OTHER -> {}

\* The process dies, or a database call fails and run_pass gives the pass up.
\* A failed call that was committed is a stop after the step, one that was not
\* is a stop before it.
Stop(p) ==
  LET s == pass[p] IN
  /\ s.pc # "idle"
  /\ Fault
  /\ Goto(p, Idle)
  /\ lost' = Plus(lost, Unwritten(s))
  /\ blind' = Plus(blind, {pr \in Unwritten(s) : s.outcome[pr] = "ok"})
  /\ UNCHANGED <<slot, live, tokens, near, retired, ledger, edits, requests, notified>>

\* One tick; no pass takes more than PassTime of them.
Tick ==
  /\ \A p \in Passes : pass[p].pc = "idle" \/ pass[p].ticks < PassTime
  /\ slot' = (slot + 1) % DaySlots
  /\ ledger' = [pr \in Pairs |->
                   IF ledger[pr].status = "none" THEN ledger[pr]
                   ELSE [ledger[pr] EXCEPT !.age = Least(@ + 1, MaxAge)]]
  /\ pass' = [p \in Passes |-> IF pass[p].pc = "idle" THEN pass[p]
                               ELSE [pass[p] EXCEPT !.ticks = @ + 1]]
  /\ UNCHANGED <<live, tokens, near, retired, faults, edits>>
  /\ UNCHANGED ghosts

\* prune_ledger, by the worker, by hand or by pg_cron.
Expired == {pr \in Pairs : ledger[pr].status # "none" /\ ledger[pr].age > Retention}
Prune ==
  /\ Expired # {}
  /\ ledger' = [pr \in Pairs |-> IF pr \in Expired THEN NoClaim ELSE ledger[pr]]
  /\ UNCHANGED <<slot, live, tokens, near, retired, pass, faults, edits>>
  /\ UNCHANGED ghosts

\* Bound: at most MaxEdits outside changes.
Edit == edits < MaxEdits /\ edits' = edits + 1

\* PushTokenRepository.upsert keeps the preferences of a row that exists.
Register(d) ==
  /\ Edit
  /\ \E t \in Tokens : tokens' = [tokens EXCEPT ![d] =
       IF @.token = NoToken
         THEN [token |-> t, enabled |-> TRUE, floor |-> DefaultFloor, quiet |-> {}]
         ELSE [@ EXCEPT !.token = t]]
  /\ UNCHANGED <<slot, live, near, retired, ledger, pass, faults>> /\ UNCHANGED ghosts

Unregister(d) ==
  /\ Edit
  /\ tokens[d].token # NoToken
  /\ tokens' = [tokens EXCEPT ![d] = Absent]
  /\ UNCHANGED <<slot, live, near, retired, ledger, pass, faults>> /\ UNCHANGED ghosts

\* update_preferences; a device without a row is a 404.
SetPreferences(d) ==
  /\ Edit
  /\ tokens[d].token # NoToken
  /\ \E on \in BOOLEAN, f \in Floors, w \in Windows \cup {{}} :
       tokens' = [tokens EXCEPT ![d].enabled = on, ![d].floor = f, ![d].quiet = w]
  /\ UNCHANGED <<slot, live, near, retired, ledger, pass, faults>> /\ UNCHANGED ghosts

EditFavorites(d) ==
  /\ Edit
  /\ \E a \in Areas : near' = [near EXCEPT ![d] = a]
  /\ UNCHANGED <<slot, live, tokens, retired, ledger, pass, faults>> /\ UNCHANGED ghosts

\* The providers report other events.
FeedChange ==
  /\ Edit
  /\ live' \in SUBSET Events
  /\ UNCHANGED <<slot, tokens, near, retired, ledger, pass, faults>> /\ UNCHANGED ghosts

\* The app is uninstalled or the OS rotates its token.
Retire(t) ==
  /\ Edit
  /\ retired' = retired \cup {t}
  /\ UNCHANGED <<slot, live, tokens, near, ledger, pass, faults>> /\ UNCHANGED ghosts

-----------------------------------------------------------------------------
WalkStep(p) == Fetch(p) \/ ReadPage(p) \/ ReadFavorites(p) \/ PlanDevice(p) \/ Claim(p)

SendStep(p) == SendTickets(p) \/ SendFails(p) \/ MarkSent(p) \/ MarkFailed(p) \/ DropTokens(p)

SweepStep(p) == ReadRetryable(p) \/ ReadSweepTokens(p) \/ ReadSweepFavorites(p) \/ Abandon(p)

PassStep(p) == WalkStep(p) \/ SendStep(p) \/ SweepStep(p)

DeviceEdit(d) == Register(d) \/ Unregister(d) \/ SetPreferences(d) \/ EditFavorites(d)

Next ==
  \/ \E p \in Passes : Begin(p) \/ PassStep(p) \/ Stop(p)
  \/ Tick
  \/ Prune
  \/ \E d \in Devices : DeviceEdit(d)
  \/ FeedChange
  \/ \E t \in Tokens : Retire(t)

Spec == Init /\ [][Next]_vars

\* The worker's timer starts a pass in every slot, an await of a running pass
\* returns, and time passes (strongly: a Tick waits for the passes it would
\* make too long). Nothing is assumed of users or of failures.
Fairness ==
  /\ \A p \in Passes : WF_vars(PassStep(p))
  /\ \A p \in Passes, h \in Slots : SF_vars(Begin(p) /\ slot = h)
  /\ SF_vars(Tick)

FairSpec == Spec /\ Fairness

-----------------------------------------------------------------------------
(* Safety, for any number of passes *)

\* The claim is exclusive: two passes walking the devices at the same time
\* never both hold a send for the same (device, event).
ClaimExclusive ==
  \A p, q \in Passes :
    /\ p # q /\ pass[p].mode = "walk" /\ pass[q].mode = "walk"
    => pass[p].batch \cap pass[q].batch = {}

\* A pass that settles its claims within one dispatch interval cannot have
\* them re-sent by the sweep of another pass: this is what stale_after_seconds
\* buys. The one exception is a row so old that retention removes it while it
\* is being swept: then the event is claimed anew, after the sweep began.
SweepSparesFreshClaims ==
  \A p, q \in Passes :
    p # q /\ pass[p].mode = "walk" =>
      \A pr \in pass[p].batch \cap pass[q].batch : ledger[pr].age <= pass[q].ticks

\* The dispatcher deletes the row of a device only when Expo has retired the
\* token the row holds now, even if the device re-registered since the send.
LiveTokenKept ==
  [][\A d \in Devices :
       tokens[d].token \notin retired \cup {NoToken} /\ tokens'[d].token = NoToken
       => edits' # edits]_vars

\* What makes ClaimExclusive inductive: a walk's claim has a row, and that row
\* is no older than the pass, so retention cannot have removed it; a pass holds
\* sends only while it sends and settles, and a sweep sends in sweep mode.
PhaseOK(s) ==
  /\ s.batch # {} =>
       s.pc \in {"send", "markSent", "markFailed", "dropTokens", "abandon"}
  /\ s.pc \in {"sweepTokens", "sweepFavs", "abandon"} => s.mode = "sweep"

Owned(s) ==
  s.mode = "walk" =>
    \A pr \in s.batch : ledger[pr].status # "none" /\ ledger[pr].age <= s.ticks

ClaimInv ==
  /\ TypeOK
  /\ \A p \in Passes : PhaseOK(pass[p]) /\ Owned(pass[p])
  /\ ClaimExclusive

(* Safety, for one pass at a time *)

\* Every request made for a claim is paid for by its attempt budget, except
\* those whose outcome a crash or a failed settle kept out of the ledger.
RequestsBounded ==
  \A pr \in Pairs : requests[pr] <= MaxAttempts + lost[pr]

\* A device is notified of an event once, plus once for every notification
\* Expo queued without the ledger learning of it.
OnceUnlessInDoubt ==
  \A pr \in Pairs : notified[pr] <= 1 + blind[pr]

\* The ledger never records as sent an alert that Expo did not queue, however
\* tickets, failed chunks, partial settles and a row pruned in between mix.
SentMeansQueued ==
  \A pr \in Pairs : ledger[pr].status = "sent" => notified[pr] > 0

\* A sent row stays sent until retention removes it.
SentIsFinal ==
  [][\A pr \in Pairs :
       ledger[pr].status = "sent" => ledger'[pr].status \in {"sent", "none"}]_vars

\* The attempt count of an unsent claim never goes down.
AttemptsNeverDecrease ==
  [][\A pr \in Pairs :
       ledger[pr].status # "none" /\ ledger'[pr].status \in {"pending", "failed"}
       => ledger'[pr].attempts >= ledger[pr].attempts]_vars

\* New claims never take a device over its volume cap for the last window,
\* whatever earlier passes claimed.
CapHonoured ==
  [][\A d \in Devices :
       (\E e \in Events : /\ ledger[<<d, e>>].status = "none"
                         /\ ledger'[<<d, e>>].status = "pending")
       => Cardinality(Recent(d)') <= Cap]_vars

-----------------------------------------------------------------------------
(* Liveness *)

\* A claim with attempts left.
Open(pr) ==
  ledger[pr].status \in {"pending", "failed"} /\ ledger[pr].attempts < MaxAttempts

\* No claim is stuck: as long as the feed is not empty, a claim abandoned by a
\* crash or failed by Expo is sent, exhausted, abandoned or pruned.
ClaimsSettle ==
  <>[](live # {}) => \A pr \in Pairs : Open(pr) ~> ~Open(pr)

\* Device pr[1] wants to hear of event pr[2] and can be reached.
Wanted(pr) ==
  /\ pr[2] \in live \cap near[pr[1]]
  /\ tokens[pr[1]].enabled /\ tokens[pr[1]].token \notin retired
  /\ PassesFloor(pr[2], tokens[pr[1]].floor)

\* Fewer than Cap other live events that device pr[1] would hear of are at
\* least as severe as pr[2].
AmongTop(pr) ==
  Cardinality({e \in live \cap near[pr[1]] :
                 /\ e # pr[2] /\ PassesFloor(e, tokens[pr[1]].floor)
                 /\ Severity[e] >= Severity[pr[2]]}) < Cap

\* It has been sent, or its attempts are used up.
Told(pr) == ledger[pr].status = "sent" \/ ledger[pr].attempts = MaxAttempts

\* What quiet hours, a failure, or the claims that used the budget of the
\* window up hold back is still delivered: an alert that stays wanted, and
\* stays among the Cap most severe of its device, is notified or uses up its
\* attempts. One that is outranked for good may never be: HeldBackIsTold.
EventuallyTold ==
  \A pr \in Pairs : <>[](Wanted(pr) /\ AmongTop(pr)) => <>Told(pr)

\* The docstring of _plan_for_device promises it of every alert the cap holds
\* back, outranked or not: delivered once "the budget frees up".
HeldBackIsTold == \A pr \in Pairs : <>[]Wanted(pr) => <>Told(pr)

\* Retention removes no claim whose event is still in the feed.
PruneSparesLive ==
  [][\A pr \in Pairs : ledger[pr].status # "none" /\ ledger'[pr].status = "none"
       => pr[2] \notin live]_vars

\* The sweep abandons a claim only when the event has left the feed or the
\* device no longer wants it.
AbandonsOnlyGone ==
  \A p \in Passes : \A pr \in pass[p].drop : ~Wanted(pr)
=============================================================================
