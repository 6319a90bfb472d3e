------------------------ MODULE AlertDispatchProofs ------------------------
(***************************************************************************)
(* Theorems about AlertDispatch, for every number of devices, events and   *)
(* overlapping passes.                                                     *)
(***************************************************************************)
EXTENDS AlertDispatch, FiniteSetTheorems, TLAPS

(***************************************************************************)
(* Type correctness                                                        *)
(***************************************************************************)

LEMMA InitialValues ==
  /\ NoClaim \in ClaimRow
  /\ Absent \in TokenRow
  /\ Unread \in [Devices -> TokenRow]
  /\ Nowhere \in [Devices -> SUBSET Events]
  /\ Untried \in [Pairs -> 0..(MaxAttempts - 1)]
  /\ Unsent \in [Pairs -> Outcomes]
  /\ 0 \in Slots
<1>1. NoClaim \in ClaimRow
  BY ConstantsAssumption DEF NoClaim, ClaimRow
<1>2. Absent \in TokenRow
  BY ConstantsAssumption DEF Absent, TokenRow
<1>3. Unread \in [Devices -> TokenRow] /\ Nowhere \in [Devices -> SUBSET Events]
  BY <1>2 DEF Unread, Nowhere
<1>4. Untried \in [Pairs -> 0..(MaxAttempts - 1)] /\ Unsent \in [Pairs -> Outcomes]
  BY ConstantsAssumption DEF Untried, Unsent, Outcomes
<1>5. 0 \in Slots
  BY ConstantsAssumption DEF Slots
<1> QED
  BY <1>1, <1>2, <1>3, <1>4, <1>5

LEMMA IdleType == Idle \in PassState
BY InitialValues, ConstantsAssumption DEF Idle, PassState, PCs

\* The helpers that choose where a pass goes next return pass states.
LEMMA EndBatchType ==
  ASSUME NEW s \in PassState
  PROVE  EndPage(s) \in PassState /\ EndBatch(s) \in PassState
<1>1. EndPage(s) \in PassState
  BY InitialValues DEF EndPage, PassState, PCs
<1> QED
  BY <1>1, IdleType DEF EndBatch

LEMMA SettleType ==
  ASSUME NEW s \in PassState
  PROVE  /\ AfterFailed(s) \in PassState
         /\ AfterSent(s) \in PassState
         /\ AfterSend(s) \in PassState
<1>1. AfterFailed(s) \in PassState
  BY EndBatchType DEF AfterFailed, PassState, PCs
<1>2. AfterSent(s) \in PassState
  BY EndBatchType DEF AfterSent, PassState, PCs
<1>3. AfterSend(s) \in PassState
  BY <1>2 DEF AfterSend, PassState, PCs
<1> QED
  BY <1>1, <1>2, <1>3

LEMMA SweepReadType ==
  ASSUME NEW s \in PassState
  PROVE  AfterSweepRead(s) \in PassState
BY IdleType DEF AfterSweepRead, PassState, PCs

LEMMA GotoType ==
  ASSUME TypeOK, NEW p \in Passes, NEW s \in PassState, Goto(p, s)
  PROVE  pass' \in [Passes -> PassState]
BY DEF Goto, TypeOK

LEMMA PlusType ==
  ASSUME NEW count \in [Pairs -> Nat], NEW S, NEW n \in Nat
  PROVE  Add(count, S, n) \in [Pairs -> Nat] /\ Plus(count, S) \in [Pairs -> Nat]
BY DEF Add, Plus

LEMMA FaultType ==
  ASSUME TypeOK, Fault \/ UNCHANGED faults
  PROVE  faults' \in 0..MaxFaults
BY ConstantsAssumption DEF Fault, TypeOK

\* Marking a row with an attempt count in range keeps the ledger well typed.
LEMMA MarkedType ==
  ASSUME NEW row \in ClaimRow, NEW status \in {"sent", "failed"},
         NEW attempts \in 0..MaxAttempts
  PROVE  Marked(row, status, attempts) \in ClaimRow
BY DEF Marked, ClaimRow

LEMMA AttemptsAfterType ==
  ASSUME NEW s \in PassState, NEW pr \in Pairs
  PROVE  AttemptsAfter(s, pr) \in 0..MaxAttempts
<1>1. s.tried[pr] \in 0..(MaxAttempts - 1)
  BY DEF PassState
<1> QED
  BY <1>1, ConstantsAssumption DEF AttemptsAfter

\* The steps of a pass keep every variable in its type.
LEMMA PassStepType ==
  ASSUME TypeOK, NEW p \in Passes, Begin(p) \/ PassStep(p) \/ Stop(p)
  PROVE  TypeOK'
<1> DEFINE s == pass[p]
<1>0. s \in PassState
  BY DEF TypeOK
<1>1. CASE Begin(p)
  <2>1. [Idle EXCEPT !.pc = "fetch", !.now = slot] \in PassState
    BY IdleType DEF PassState, PCs, TypeOK
  <2> QED
    BY <1>1, <2>1, GotoType DEF Begin, TypeOK, tables, ghosts
<1>2. CASE Fetch(p)
  <2>1. PICK got \in SUBSET live :
          /\ IF got = live THEN UNCHANGED faults ELSE Fault
          /\ Goto(p, IF got = {} THEN Idle
                     ELSE [pass[p] EXCEPT !.pc = "page", !.seen = got])
    BY <1>2 DEF Fetch
  <2>2. (IF got = {} THEN Idle ELSE [pass[p] EXCEPT !.pc = "page", !.seen = got])
          \in PassState
    BY <1>0, IdleType DEF PassState, PCs, TypeOK
  <2>3. faults' \in 0..MaxFaults
    BY <2>1, FaultType
  <2> QED
    BY <1>2, <2>1, <2>2, <2>3, GotoType DEF Fetch, TypeOK, tables, ghosts
<1>3. CASE ReadPage(p)
  <2>1. PICK t \in PassState : Goto(p, t)
    <3>1. CASE Goto(p, [s EXCEPT !.pc = "sweep"])
      <4>1. [s EXCEPT !.pc = "sweep"] \in PassState
        BY <1>0 DEF PassState, PCs
      <4> QED
        BY <3>1, <4>1
    <3>2. CASE s.pages < MaxPages /\ \E last \in Page(s.after) :
                 Goto(p, [s EXCEPT !.pc = "favs", !.pages = @ + 1,
                                  !.after = last, !.todo = Page(s.after),
                                  !.rows = [d \in Devices |->
                                     IF d \in Page(s.after) THEN tokens[d] ELSE Absent]])
      <4>1. PICK last \in Page(s.after) :
                 Goto(p, [s EXCEPT !.pc = "favs", !.pages = @ + 1,
                                  !.after = last, !.todo = Page(s.after),
                                  !.rows = [d \in Devices |->
                                     IF d \in Page(s.after) THEN tokens[d] ELSE Absent]])
        BY <3>2
      <4>2. Page(s.after) \subseteq Devices
        BY DEF Page, Dispatchable
      <4>3. last \in 0..NumDevices
        BY <4>2, ConstantsAssumption DEF Devices
      <4>4. s.pages + 1 \in 0..MaxPages
        BY <1>0, <3>2, ConstantsAssumption DEF PassState
      <4>5. [d \in Devices |-> IF d \in Page(s.after) THEN tokens[d] ELSE Absent]
              \in [Devices -> TokenRow]
        BY InitialValues DEF TypeOK
      <4>6. [s EXCEPT !.pc = "favs", !.pages = @ + 1, !.after = last,
                      !.todo = Page(s.after),
                      !.rows = [d \in Devices |->
                                 IF d \in Page(s.after) THEN tokens[d] ELSE Absent]]
              \in PassState
        BY <1>0, <4>2, <4>3, <4>4, <4>5 DEF PassState, PCs
      <4> QED
        BY <4>1, <4>6
    <3> QED
      BY <1>3, <3>1, <3>2 DEF ReadPage
  <2> QED
    BY <1>3, <2>1, GotoType DEF ReadPage, TypeOK, tables, ghosts
<1>4. CASE ReadFavorites(p)
  <2>1. [d \in Devices |-> IF d \in s.todo THEN near[d] ELSE {}]
          \in [Devices -> SUBSET Events]
    BY DEF TypeOK
  <2>2. [s EXCEPT !.pc = "plan",
                  !.favs = [d \in Devices |-> IF d \in s.todo THEN near[d] ELSE {}]]
          \in PassState
    BY <1>0, <2>1 DEF PassState, PCs
  <2> QED
    BY <1>4, <2>2, GotoType DEF ReadFavorites, TypeOK, tables, ghosts
<1>5. CASE PlanDevice(p)
  <2> DEFINE after(d, top) ==
               IF s.todo # {d}
                 THEN [s EXCEPT !.todo = @ \ {d}, !.plan = s.plan \cup ({d} \X top)]
               ELSE IF s.plan \cup ({d} \X top) = {} THEN EndPage(s)
               ELSE [s EXCEPT !.pc = "claim", !.todo = {},
                              !.plan = s.plan \cup ({d} \X top)]
  <2>1. PICK d \in s.todo :
          \E top \in SUBSET Audible(s.rows[d], s.favs[d], s.seen, s.now) :
            Goto(p, after(d, top))
    BY <1>5 DEF PlanDevice
  <2>2. PICK top \in SUBSET Audible(s.rows[d], s.favs[d], s.seen, s.now) :
          Goto(p, after(d, top))
    BY <2>1
  <2>3. s.plan \cup ({d} \X top) \subseteq Pairs
    BY <1>0 DEF PassState, Pairs, Audible, Candidates
  <2>4. after(d, top) \in PassState
    BY <1>0, <2>3, EndBatchType DEF PassState, PCs
  <2> HIDE DEF after
  <2> QED
    BY <1>5, <2>2, <2>4, GotoType DEF PlanDevice, TypeOK, tables, ghosts
<1>6. CASE Claim(p)
  <2>1. Won(s.plan) \subseteq Pairs
    BY <1>0 DEF Won, PassState
  <2>2. (IF Won(s.plan) = {} THEN EndPage(s)
         ELSE [s EXCEPT !.pc = "send", !.plan = {}, !.batch = Won(s.plan)]) \in PassState
    BY <1>0, <2>1, EndBatchType DEF PassState, PCs
  <2>3. ledger' \in [Pairs -> ClaimRow]
    <3>1. [status |-> "pending", attempts |-> 0, age |-> 0] \in ClaimRow
      BY ConstantsAssumption DEF ClaimRow
    <3> QED
      BY <1>6, <3>1 DEF Claim, TypeOK
  <2>4. /\ requests' \in [Pairs -> Nat] /\ notified' \in [Pairs -> Nat]
        /\ lost' \in [Pairs -> Nat] /\ blind' \in [Pairs -> Nat]
    BY <1>6 DEF Claim, Cleared, TypeOK
  <2> QED
    BY <1>6, <2>2, <2>3, <2>4, GotoType DEF Claim, TypeOK
<1>7. CASE SendTickets(p)
  <2>1. PICK chunk \in SUBSET {pr \in s.batch : s.outcome[pr] = "unsent"} :
          /\ requests' = Plus(requests, chunk)
          /\ \E ticket \in [chunk -> Outcomes], early \in 0..HttpRetries :
               /\ IF early = 0 /\ \A pr \in chunk : ticket[pr] \in {"ok", "dead"}
                    THEN UNCHANGED faults ELSE Fault
               /\ Goto(p, AfterSend([s EXCEPT !.outcome =
                    [pr \in Pairs |-> IF pr \in chunk THEN ticket[pr] ELSE s.outcome[pr]]]))
               /\ blind' = Add(blind, chunk, early)
               /\ notified' = Add(Plus(notified, {pr \in chunk : ticket[pr] = "ok"}),
                                  chunk, early)
    BY <1>7 DEF SendTickets
  <2>2. PICK ticket \in [chunk -> Outcomes], early \in 0..HttpRetries :
          /\ IF early = 0 /\ \A pr \in chunk : ticket[pr] \in {"ok", "dead"}
               THEN UNCHANGED faults ELSE Fault
          /\ Goto(p, AfterSend([s EXCEPT !.outcome =
               [pr \in Pairs |-> IF pr \in chunk THEN ticket[pr] ELSE s.outcome[pr]]]))
          /\ blind' = Add(blind, chunk, early)
          /\ notified' = Add(Plus(notified, {pr \in chunk : ticket[pr] = "ok"}),
                             chunk, early)
    BY <2>1
  <2>3. [pr \in Pairs |-> IF pr \in chunk THEN ticket[pr] ELSE s.outcome[pr]]
          \in [Pairs -> Outcomes]
    BY <1>0 DEF PassState
  <2>4. [s EXCEPT !.outcome =
          [pr \in Pairs |-> IF pr \in chunk THEN ticket[pr] ELSE s.outcome[pr]]] \in PassState
    BY <1>0, <2>3 DEF PassState
  <2>5. pass' \in [Passes -> PassState]
    BY <2>2, <2>4, SettleType, GotoType
  <2>6. faults' \in 0..MaxFaults
    BY <2>2, FaultType
  <2>7. /\ requests' \in [Pairs -> Nat] /\ blind' \in [Pairs -> Nat]
        /\ notified' \in [Pairs -> Nat]
    <3>1. early \in Nat
      BY ConstantsAssumption
    <3>2. Plus(notified, {pr \in chunk : ticket[pr] = "ok"}) \in [Pairs -> Nat]
      BY PlusType DEF TypeOK
    <3> QED
      BY <2>1, <2>2, <3>1, <3>2, PlusType DEF TypeOK
  <2> QED
    BY <1>7, <2>5, <2>6, <2>7 DEF SendTickets, TypeOK
<1>8. CASE SendFails(p)
  <2>1. PICK chunk \in SUBSET {pr \in s.batch : s.outcome[pr] = "unsent"}, queued \in 0..(HttpRetries + 1) :
          /\ Goto(p, AfterSend([s EXCEPT !.outcome =
               [pr \in Pairs |-> IF pr \in chunk THEN "transient" ELSE s.outcome[pr]]]))
          /\ requests' = Plus(requests, chunk)
          /\ notified' = Add(notified, chunk, queued)
          /\ blind' = Add(blind, chunk, queued)
    BY <1>8 DEF SendFails
  <2>2. [pr \in Pairs |-> IF pr \in chunk THEN "transient" ELSE s.outcome[pr]]
          \in [Pairs -> Outcomes]
    BY <1>0 DEF PassState, Outcomes
  <2>3. [s EXCEPT !.outcome =
          [pr \in Pairs |-> IF pr \in chunk THEN "transient" ELSE s.outcome[pr]]] \in PassState
    BY <1>0, <2>2 DEF PassState
  <2>4. pass' \in [Passes -> PassState]
    BY <2>1, <2>3, SettleType, GotoType
  <2>5. faults' \in 0..MaxFaults
    BY <1>8, FaultType DEF SendFails
  <2>6. /\ requests' \in [Pairs -> Nat] /\ notified' \in [Pairs -> Nat]
        /\ blind' \in [Pairs -> Nat]
    <3>1. queued \in Nat
      BY ConstantsAssumption
    <3> QED
      BY <2>1, <3>1, PlusType DEF TypeOK
  <2> QED
    BY <1>8, <2>4, <2>5, <2>6 DEF SendFails, TypeOK
<1>9. CASE MarkSent(p)
  <2>1. ledger' \in [Pairs -> ClaimRow]
    <3>1. 1 \in 0..MaxAttempts
      BY ConstantsAssumption
    <3> QED
      BY <1>9, <3>1, MarkedType DEF MarkSent, TypeOK
  <2> QED
    BY <1>0, <1>9, <2>1, SettleType, GotoType DEF MarkSent, TypeOK, ghosts
<1>10. CASE MarkFailed(p)
  <2>1. ledger' \in [Pairs -> ClaimRow]
    BY <1>0, <1>10, AttemptsAfterType, MarkedType DEF MarkFailed, TypeOK
  <2> QED
    BY <1>0, <1>10, <2>1, SettleType, GotoType DEF MarkFailed, TypeOK, ghosts
<1>11. CASE DropTokens(p)
  <2>1. tokens' \in [Devices -> TokenRow]
    BY <1>11, InitialValues DEF DropTokens, TypeOK
  <2> QED
    BY <1>0, <1>11, <2>1, EndBatchType, GotoType DEF DropTokens, TypeOK, ghosts
<1>12. CASE ReadRetryable(p)
  <2>1. PICK wanted \in SUBSET Retryable :
          Goto(p, IF wanted = {} THEN Idle
                  ELSE [s EXCEPT !.pc = "sweepTokens", !.mode = "sweep", !.plan = wanted,
                                 !.tried = [pr \in Pairs |->
                                    IF pr \in wanted THEN ledger[pr].attempts ELSE 0]])
    BY <1>12 DEF ReadRetryable
  <2>2. wanted \subseteq Pairs
    BY DEF Retryable
  <2>3. [pr \in Pairs |-> IF pr \in wanted THEN ledger[pr].attempts ELSE 0]
          \in [Pairs -> 0..(MaxAttempts - 1)]
    <3>1. \A pr \in wanted : ledger[pr].attempts \in 0..(MaxAttempts - 1)
      BY <2>2, ConstantsAssumption DEF Retryable, TypeOK, ClaimRow
    <3> QED
      BY <3>1, ConstantsAssumption
  <2>4. (IF wanted = {} THEN Idle
         ELSE [s EXCEPT !.pc = "sweepTokens", !.mode = "sweep", !.plan = wanted,
                        !.tried = [pr \in Pairs |->
                           IF pr \in wanted THEN ledger[pr].attempts ELSE 0]]) \in PassState
    BY <1>0, <2>2, <2>3, IdleType DEF PassState, PCs
  <2> QED
    BY <1>12, <2>1, <2>4, GotoType DEF ReadRetryable, TypeOK, tables, ghosts
<1>13. CASE ReadSweepTokens(p)
  <2>1. [d \in Devices |-> IF \E pr \in s.plan : pr[1] = d THEN tokens[d] ELSE Absent]
          \in [Devices -> TokenRow]
    BY InitialValues DEF TypeOK
  <2>2. [s EXCEPT !.pc = "sweepFavs",
                  !.rows = [d \in Devices |->
                     IF \E pr \in s.plan : pr[1] = d THEN tokens[d] ELSE Absent]] \in PassState
    BY <1>0, <2>1 DEF PassState, PCs
  <2> QED
    BY <1>13, <2>2, GotoType DEF ReadSweepTokens, TypeOK, tables, ghosts
<1>14. CASE ReadSweepFavorites(p)
  <2> DEFINE drop == {pr \in s.plan : Hopeless(s, pr, near[pr[1]])}
             next == [s EXCEPT !.plan = {}, !.drop = drop, !.outcome = Unsent,
                               !.batch = {pr \in s.plan \ drop : ~Held(s, pr)}]
  <2>1. next \in PassState
    BY <1>0, InitialValues DEF PassState
  <2>2. Goto(p, AfterSweepRead(next))
    BY <1>14 DEF ReadSweepFavorites
  <2>3. pass' \in [Passes -> PassState]
    BY <2>1, <2>2, SweepReadType, GotoType
  <2> QED
    BY <1>14, <2>3 DEF ReadSweepFavorites, TypeOK, tables, ghosts
<1>15. CASE Abandon(p)
  <2>1. ledger' \in [Pairs -> ClaimRow]
    <3>1. MaxAttempts \in 0..MaxAttempts
      BY ConstantsAssumption
    <3> QED
      BY <1>15, <3>1, MarkedType DEF Abandon, TypeOK
  <2>2. [s EXCEPT !.drop = {}] \in PassState
    BY <1>0 DEF PassState
  <2> QED
    BY <1>15, <2>1, <2>2, SweepReadType, GotoType DEF Abandon, TypeOK, ghosts
<1>16. CASE Stop(p)
  <2>1. faults' \in 0..MaxFaults
    BY <1>16, FaultType DEF Stop
  <2>2. lost' \in [Pairs -> Nat] /\ blind' \in [Pairs -> Nat]
    BY <1>16, PlusType DEF Stop, TypeOK
  <2> QED
    BY <1>16, <2>1, <2>2, IdleType, GotoType DEF Stop, TypeOK
<1> QED
  BY <1>1, <1>2, <1>3, <1>4, <1>5, <1>6, <1>7, <1>8, <1>9, <1>10, <1>11, <1>12,
     <1>13, <1>14, <1>15, <1>16 DEF PassStep, WalkStep, SendStep, SweepStep

LEMMA EditType ==
  ASSUME TypeOK, Edit
  PROVE  edits' \in 0..MaxEdits
BY ConstantsAssumption DEF Edit, TypeOK

\* So do the clock, retention, users, providers and Expo.
LEMMA OutsideStepType ==
  ASSUME TypeOK,
         \/ Tick \/ Prune \/ FeedChange
         \/ (\E d \in Devices : DeviceEdit(d)) \/ (\E t \in Tokens : Retire(t))
  PROVE  TypeOK'
<1>1. CASE Tick
  <2>1. slot' \in Slots
    BY <1>1, ConstantsAssumption DEF Tick, Slots, TypeOK
  <2>2. ledger' \in [Pairs -> ClaimRow]
    BY <1>1, ConstantsAssumption DEF Tick, TypeOK, ClaimRow, Least
  <2>3. pass' \in [Passes -> PassState]
    <3>1. ASSUME NEW p \in Passes, pass[p].pc # "idle"
          PROVE  [pass[p] EXCEPT !.ticks = @ + 1] \in PassState
      <4>1. pass[p].ticks < PassTime
        BY <1>1, <3>1 DEF Tick
      <4>2. pass[p] \in PassState
        BY DEF TypeOK
      <4>3. pass[p].ticks + 1 \in 0..PassTime
        BY <4>1, <4>2, ConstantsAssumption DEF PassState
      <4> QED
        BY <4>2, <4>3 DEF PassState
    <3> QED
      BY <1>1, <3>1 DEF Tick, TypeOK
  <2> QED
    BY <1>1, <2>1, <2>2, <2>3 DEF Tick, TypeOK, ghosts
<1>2. CASE Prune
  BY <1>2, InitialValues DEF Prune, TypeOK, ghosts
<1>3. CASE FeedChange
  BY <1>3, ConstantsAssumption DEF FeedChange, Edit, TypeOK, ghosts
<1>4. ASSUME NEW d \in Devices, DeviceEdit(d)
      PROVE  TypeOK'
  <2>1. edits' \in 0..MaxEdits
    <3>1. Edit
      BY <1>4 DEF DeviceEdit, Register, Unregister, SetPreferences, EditFavorites
    <3> QED
      BY <3>1, EditType
  <2>2. CASE Register(d)
    <3>1. \A t \in Tokens : [token |-> t, enabled |-> TRUE, floor |-> DefaultFloor,
                             quiet |-> {}] \in TokenRow
      BY ConstantsAssumption DEF TokenRow
    <3>2. \A t \in Tokens : [tokens[d] EXCEPT !.token = t] \in TokenRow
      BY DEF TypeOK, TokenRow
    <3>3. tokens' \in [Devices -> TokenRow]
      BY <2>2, <3>1, <3>2 DEF Register, TypeOK
    <3> QED
      BY <2>1, <2>2, <3>3 DEF Register, TypeOK, ghosts
  <2>3. CASE Unregister(d)
    <3>1. tokens' \in [Devices -> TokenRow]
      BY <2>3, InitialValues DEF Unregister, TypeOK
    <3> QED
      BY <2>1, <2>3, <3>1 DEF Unregister, TypeOK, ghosts
  <2>4. CASE SetPreferences(d)
    <3>1. PICK on \in BOOLEAN, f \in Floors, w \in Windows \cup {{}} :
            tokens' = [tokens EXCEPT ![d].enabled = on, ![d].floor = f, ![d].quiet = w]
      BY <2>4 DEF SetPreferences
    <3>2. tokens' \in [Devices -> TokenRow]
      <4>1. tokens \in [Devices -> TokenRow]
        BY DEF TypeOK
      <4>2. tokens' = [tokens EXCEPT ![d] =
                         [tokens[d] EXCEPT !.enabled = on, !.floor = f, !.quiet = w]]
        BY <3>1
      <4>3. [tokens[d] EXCEPT !.enabled = on, !.floor = f, !.quiet = w] \in TokenRow
        BY <4>1 DEF TokenRow
      <4> QED
        BY <4>1, <4>2, <4>3
    <3> QED
      BY <2>1, <2>4, <3>2 DEF SetPreferences, TypeOK, ghosts
  <2>5. CASE EditFavorites(d)
    BY <2>1, <2>5, ConstantsAssumption DEF EditFavorites, TypeOK, ghosts
  <2> QED
    BY <1>4, <2>2, <2>3, <2>4, <2>5 DEF DeviceEdit
<1>5. ASSUME NEW t \in Tokens, Retire(t)
      PROVE  TypeOK'
  BY <1>5, ConstantsAssumption DEF Retire, Edit, TypeOK, ghosts
<1> QED
  BY <1>1, <1>2, <1>3, <1>4, <1>5

LEMMA StutterType ==
  ASSUME TypeOK, UNCHANGED vars
  PROVE  TypeOK'
BY DEF vars, TypeOK

LEMMA InitType == Init => TypeOK
<1> SUFFICES ASSUME Init PROVE TypeOK
  OBVIOUS
<1>1. tokens \in [Devices -> TokenRow]
  BY DEF Init, TokenRow
<1>2. near \in [Devices -> SUBSET Events]
  BY ConstantsAssumption DEF Init
<1>3. ledger \in [Pairs -> ClaimRow] /\ pass \in [Passes -> PassState]
  BY InitialValues, IdleType DEF Init
<1>4. faults \in 0..MaxFaults /\ edits \in 0..MaxEdits
  BY ConstantsAssumption DEF Init
<1>5. Untried \in [Pairs -> Nat]
  BY DEF Untried
<1> QED
  BY <1>1, <1>2, <1>3, <1>4, <1>5 DEF Init, TypeOK

LEMMA NextType == TypeOK /\ [Next]_vars => TypeOK'
BY PassStepType, OutsideStepType, StutterType DEF Next

\* Every variable of the dispatcher keeps its type: in particular attempt
\* counts never pass MaxAttempts, whatever passes overlap or crash.
THEOREM TypeCorrect == Spec => []TypeOK
<1>1. Init => TypeOK
  BY InitType
<1>2. TypeOK /\ [Next]_vars => TypeOK'
  BY NextType
<1> QED
  BY <1>1, <1>2, PTL DEF Spec

(***************************************************************************)
(* The claim is exclusive                                                  *)
(***************************************************************************)

\* Pass state t holds nothing s did not hold, or nothing a walk has to own.
Tame(s, t) ==
  \/ /\ t.batch = {}
     /\ t.pc \in {"sweepTokens", "sweepFavs", "abandon"} => t.mode = "sweep"
  \/ /\ t.batch = s.batch /\ t.mode = s.mode /\ t.ticks = s.ticks
     /\ t.pc \in {"send", "markSent", "markFailed", "dropTokens"}
  \/ t.mode = "sweep" /\ t.pc \in {"send", "abandon"}

\* The rows of the ledger stay, with their claimed_at.
RowsKept ==
  \A pr \in Pairs : ledger[pr].status # "none" =>
    ledger'[pr].status # "none" /\ ledger'[pr].age = ledger[pr].age

LEMMA TameKeepsClaims ==
  ASSUME ClaimInv, NEW p \in Passes, NEW t \in PassState, Goto(p, t),
         Tame(pass[p], t), RowsKept
  PROVE  /\ \A q \in Passes : PhaseOK(pass'[q]) /\ Owned(pass[q])'
         /\ ClaimExclusive'
<1>1. pass' = [pass EXCEPT ![p] = t] /\ pass \in [Passes -> PassState]
  BY DEF Goto, ClaimInv, TypeOK
<1>2. \A q \in Passes : pass'[q].batch \subseteq Pairs
  BY <1>1 DEF PassState
<1>3. PhaseOK(t)
  BY DEF Tame, PhaseOK
<1>4. \A q \in Passes : PhaseOK(pass'[q])
  BY <1>1, <1>3 DEF ClaimInv
<1>5. t.mode = "walk" /\ t.batch # {} =>
        /\ pass[p].mode = "walk" /\ t.batch = pass[p].batch
        /\ t.ticks = pass[p].ticks
  BY DEF Tame
<1>6. \A q \in Passes : Owned(pass[q])'
  <2> SUFFICES ASSUME NEW q \in Passes, pass'[q].mode = "walk",
                      NEW pr \in pass'[q].batch
               PROVE  ledger'[pr].status # "none" /\ ledger'[pr].age <= pass'[q].ticks
    BY DEF Owned
  <2>1. /\ pass[q].mode = "walk" /\ pr \in pass[q].batch
        /\ pass'[q].ticks = pass[q].ticks
    BY <1>1, <1>5
  <2>2. ledger[pr].status # "none" /\ ledger[pr].age <= pass[q].ticks
    BY <2>1 DEF ClaimInv, Owned
  <2> QED
    BY <1>2, <2>1, <2>2 DEF RowsKept
<1>7. ClaimExclusive'
  BY <1>1, <1>5 DEF ClaimExclusive, ClaimInv
<1> QED
  BY <1>4, <1>6, <1>7

LEMMA EndBatchTame ==
  ASSUME NEW s \in PassState
  PROVE  Tame(s, EndPage(s)) /\ Tame(s, EndBatch(s)) /\ Tame(s, Idle)
<1>1. EndPage(s).batch = {} /\ EndPage(s).pc \in {"sweep", "page"}
  BY DEF EndPage, PassState
<1>2. Idle.batch = {} /\ Idle.pc = "idle"
  BY DEF Idle
<1>3. Tame(s, EndPage(s)) /\ Tame(s, Idle)
  BY <1>1, <1>2 DEF Tame
<1> QED
  BY <1>3 DEF EndBatch

LEMMA SettleTame ==
  ASSUME NEW s \in PassState
  PROVE  /\ Tame(s, AfterFailed(s))
         /\ Tame(s, AfterSent(s))
         /\ s.pc = "send" => Tame(s, AfterSend(s))
<1>1. Tame(s, EndBatch(s))
  BY EndBatchTame
<1>2. Tame(s, AfterFailed(s))
  BY <1>1 DEF AfterFailed, Tame, PassState
<1>3. Tame(s, AfterSent(s))
  BY <1>1 DEF AfterSent, Tame, PassState
<1>4. s.pc = "send" => Tame(s, AfterSend(s))
  BY <1>3 DEF AfterSend, Tame, PassState
<1> QED
  BY <1>2, <1>3, <1>4

\* Reassigning the outcomes of a batch does not matter to who owns it.
LEMMA OutcomeTame ==
  ASSUME NEW s \in PassState, NEW f \in [Pairs -> Outcomes], s.pc = "send"
  PROVE  Tame(s, AfterSend([s EXCEPT !.outcome = f]))
<1> DEFINE u == [s EXCEPT !.outcome = f]
<1>1. u \in PassState /\ u.pc = "send"
  BY DEF PassState
<1>2. u.batch = s.batch /\ u.mode = s.mode /\ u.ticks = s.ticks
  BY DEF PassState
<1>3. Tame(u, AfterSend(u))
  BY <1>1, SettleTame
<1> HIDE DEF u
<1>4. Tame(s, AfterSend(u))
  BY <1>2, <1>3 DEF Tame
<1> QED
  BY <1>4 DEF u

\* Every step of a pass but the claim itself is tame and keeps the rows.
LEMMA TameSteps ==
  ASSUME ClaimInv, NEW p \in Passes,
         \/ Begin(p) \/ Fetch(p) \/ ReadPage(p) \/ ReadFavorites(p) \/ PlanDevice(p)
         \/ SendStep(p) \/ SweepStep(p) \/ Stop(p)
  PROVE  RowsKept /\ \E t \in PassState : Goto(p, t) /\ Tame(pass[p], t)
<1> DEFINE s == pass[p]
<1>0. s \in PassState /\ PhaseOK(s) /\ TypeOK /\ pass' \in [Passes -> PassState]
  BY PassStepType DEF ClaimInv, TypeOK, PassStep, WalkStep
<1>t. ASSUME NEW t, Goto(p, t), Tame(s, t)
      PROVE  \E u \in PassState : Goto(p, u) /\ Tame(s, u)
  <2>1. pass'[p] = t
    BY <1>t, <1>0 DEF Goto, TypeOK
  <2> QED
    BY <1>t, <1>0, <2>1
<1>1. CASE Begin(p)
  <2>1. Tame(s, [Idle EXCEPT !.pc = "fetch", !.now = slot])
    BY DEF Tame, Idle
  <2> QED
    BY <1>1, <1>t, <2>1 DEF Begin, RowsKept, tables
<1>2. CASE Fetch(p)
  <2>1. s.batch = {}
    BY <1>0, <1>2 DEF PhaseOK, Fetch
  <2>2. PICK got \in SUBSET live :
          Goto(p, IF got = {} THEN Idle ELSE [s EXCEPT !.pc = "page", !.seen = got])
    BY <1>2 DEF Fetch
  <2>3. Tame(s, [s EXCEPT !.pc = "page", !.seen = got])
    BY <1>0, <2>1 DEF Tame, PassState
  <2>4. Tame(s, IF got = {} THEN Idle ELSE [s EXCEPT !.pc = "page", !.seen = got])
    BY <1>0, <2>3, EndBatchTame
  <2> QED
    BY <1>2, <1>t, <2>2, <2>4 DEF Fetch, RowsKept, tables
<1>3. CASE ReadPage(p)
  <2>1. s.batch = {}
    BY <1>0, <1>3 DEF PhaseOK, ReadPage
  <2>2. CASE Goto(p, [s EXCEPT !.pc = "sweep"])
    <3>1. Tame(s, [s EXCEPT !.pc = "sweep"])
      BY <1>0, <2>1 DEF Tame, PassState
    <3> QED
      BY <1>3, <1>t, <2>2, <3>1 DEF ReadPage, RowsKept, tables
  <2>3. CASE \E last \in Page(s.after) :
               Goto(p, [s EXCEPT !.pc = "favs", !.pages = @ + 1,
                                !.after = last, !.todo = Page(s.after),
                                !.rows = [d \in Devices |->
                                   IF d \in Page(s.after) THEN tokens[d] ELSE Absent]])
    <3> DEFINE next(last) == [s EXCEPT !.pc = "favs", !.pages = @ + 1,
                                !.after = last, !.todo = Page(s.after),
                                !.rows = [d \in Devices |->
                                   IF d \in Page(s.after) THEN tokens[d] ELSE Absent]]
    <3>1. PICK last \in Page(s.after) : Goto(p, next(last))
      BY <2>3
    <3>2. next(last).batch = {} /\ next(last).pc = "favs"
      BY <1>0, <2>1 DEF PassState
    <3> HIDE DEF next
    <3>3. Tame(s, next(last))
      BY <3>2 DEF Tame
    <3> QED
      BY <1>3, <1>t, <3>1, <3>3 DEF ReadPage, RowsKept, tables
  <2> QED
    BY <1>3, <2>2, <2>3 DEF ReadPage
<1>4. CASE ReadFavorites(p)
  <2> DEFINE next == [s EXCEPT !.pc = "plan",
                !.favs = [d \in Devices |-> IF d \in s.todo THEN near[d] ELSE {}]]
  <2>1. s.batch = {}
    BY <1>0, <1>4 DEF PhaseOK, ReadFavorites
  <2>2. next.batch = {} /\ next.pc = "plan"
    BY <1>0, <2>1 DEF PassState
  <2>3. Goto(p, next) /\ RowsKept
    BY <1>4 DEF ReadFavorites, RowsKept, tables
  <2> HIDE DEF next
  <2> QED
    BY <1>t, <2>2, <2>3 DEF Tame
<1>5. CASE PlanDevice(p)
  <2> DEFINE next(d, plan) ==
               IF s.todo # {d} THEN [s EXCEPT !.todo = @ \ {d}, !.plan = plan]
               ELSE IF plan = {} THEN EndPage(s)
               ELSE [s EXCEPT !.pc = "claim", !.todo = {}, !.plan = plan]
  <2>1. s.batch = {} /\ s.pc = "plan"
    BY <1>0, <1>5 DEF PhaseOK, PlanDevice
  <2>2. PICK d, plan : Goto(p, next(d, plan))
    BY <1>5 DEF PlanDevice
  <2>3. Tame(s, [s EXCEPT !.todo = @ \ {d}, !.plan = plan])
    BY <1>0, <2>1 DEF Tame, PassState
  <2>4. Tame(s, [s EXCEPT !.pc = "claim", !.todo = {}, !.plan = plan])
    BY <1>0, <2>1 DEF Tame, PassState
  <2>5. Tame(s, next(d, plan))
    BY <1>0, <2>3, <2>4, EndBatchTame
  <2> HIDE DEF next
  <2> QED
    BY <1>5, <1>t, <2>2, <2>5 DEF PlanDevice, RowsKept, tables
<1>6. CASE SendTickets(p)
  <2>1. PICK chunk \in SUBSET {pr \in s.batch : s.outcome[pr] = "unsent"} :
          \E ticket \in [chunk -> Outcomes] :
            Goto(p, AfterSend([s EXCEPT !.outcome =
                 [pr \in Pairs |-> IF pr \in chunk THEN ticket[pr] ELSE s.outcome[pr]]]))
    BY <1>6 DEF SendTickets
  <2>2. PICK ticket \in [chunk -> Outcomes] :
            Goto(p, AfterSend([s EXCEPT !.outcome =
                 [pr \in Pairs |-> IF pr \in chunk THEN ticket[pr] ELSE s.outcome[pr]]]))
    BY <2>1
  <2>3. [pr \in Pairs |-> IF pr \in chunk THEN ticket[pr] ELSE s.outcome[pr]]
          \in [Pairs -> Outcomes]
    BY <1>0 DEF PassState
  <2>4. s.pc = "send" /\ RowsKept
    BY <1>6 DEF SendTickets, RowsKept
  <2> QED
    BY <1>0, <1>t, <2>2, <2>3, <2>4, OutcomeTame
<1>7. CASE SendFails(p)
  <2>1. PICK chunk \in SUBSET {pr \in s.batch : s.outcome[pr] = "unsent"} :
          Goto(p, AfterSend([s EXCEPT !.outcome =
               [pr \in Pairs |-> IF pr \in chunk THEN "transient" ELSE s.outcome[pr]]]))
    BY <1>7 DEF SendFails
  <2>2. [pr \in Pairs |-> IF pr \in chunk THEN "transient" ELSE s.outcome[pr]]
          \in [Pairs -> Outcomes]
    BY <1>0 DEF PassState, Outcomes
  <2>3. s.pc = "send" /\ RowsKept
    BY <1>7 DEF SendFails, RowsKept
  <2> QED
    BY <1>0, <1>t, <2>1, <2>2, <2>3, OutcomeTame
<1>8. CASE MarkSent(p)
  <2>1. RowsKept
    BY <1>8 DEF MarkSent, RowsKept, Marked
  <2> QED
    BY <1>0, <1>8, <1>t, <2>1, SettleTame DEF MarkSent
<1>9. CASE MarkFailed(p)
  <2>1. RowsKept
    BY <1>9 DEF MarkFailed, RowsKept, Marked
  <2> QED
    BY <1>0, <1>9, <1>t, <2>1, SettleTame DEF MarkFailed
<1>10. CASE DropTokens(p)
  BY <1>0, <1>10, <1>t, EndBatchTame DEF DropTokens, RowsKept
<1>11. CASE ReadRetryable(p)
  <2>1. s.batch = {}
    BY <1>0, <1>11 DEF PhaseOK, ReadRetryable
  <2> DEFINE next(wanted) ==
               [s EXCEPT !.pc = "sweepTokens", !.mode = "sweep", !.plan = wanted,
                         !.tried = [pr \in Pairs |->
                            IF pr \in wanted THEN ledger[pr].attempts ELSE 0]]
  <2>2. PICK wanted : Goto(p, IF wanted = {} THEN Idle ELSE next(wanted))
    BY <1>11 DEF ReadRetryable
  <2>3. next(wanted).batch = {} /\ next(wanted).mode = "sweep"
    BY <1>0, <2>1 DEF PassState
  <2> HIDE DEF next
  <2>4. Tame(s, next(wanted)) /\ Tame(s, Idle)
    BY <1>0, <2>3, EndBatchTame DEF Tame
  <2> QED
    BY <1>11, <1>t, <2>2, <2>4 DEF ReadRetryable, RowsKept, tables
<1>12. CASE ReadSweepTokens(p)
  <2> DEFINE next == [s EXCEPT !.pc = "sweepFavs",
                        !.rows = [d \in Devices |->
                           IF \E pr \in s.plan : pr[1] = d THEN tokens[d] ELSE Absent]]
  <2>1. s.batch = {} /\ s.mode = "sweep"
    BY <1>0, <1>12 DEF PhaseOK, ReadSweepTokens
  <2>2. next.batch = {} /\ next.mode = "sweep"
    BY <1>0, <2>1 DEF PassState
  <2>3. Goto(p, next) /\ RowsKept
    BY <1>12 DEF ReadSweepTokens, RowsKept, tables
  <2> HIDE DEF next
  <2> QED
    BY <1>t, <2>2, <2>3 DEF Tame
<1>13. CASE ReadSweepFavorites(p)
  <2> DEFINE drop == {pr \in s.plan : Hopeless(s, pr, near[pr[1]])}
             next == [s EXCEPT !.plan = {}, !.drop = drop, !.outcome = Unsent,
                               !.batch = {pr \in s.plan \ drop : ~Held(s, pr)}]
  <2>1. next.mode = "sweep" /\ next \in PassState
    BY <1>0, <1>13, InitialValues DEF PhaseOK, ReadSweepFavorites, PassState
  <2>2. Goto(p, AfterSweepRead(next)) /\ RowsKept
    BY <1>13 DEF ReadSweepFavorites, RowsKept, tables
  <2> HIDE DEF next
  <2>3. Tame(s, AfterSweepRead(next))
    BY <1>0, <2>1, EndBatchTame DEF AfterSweepRead, Tame, PassState
  <2> QED
    BY <1>t, <2>2, <2>3
<1>14. CASE Abandon(p)
  <2> DEFINE next == [s EXCEPT !.drop = {}]
  <2>1. next.mode = "sweep" /\ next \in PassState
    BY <1>0, <1>14 DEF PhaseOK, Abandon, PassState
  <2>2. Goto(p, AfterSweepRead(next))
    BY <1>14 DEF Abandon
  <2>3. RowsKept
    BY <1>14 DEF Abandon, RowsKept, Marked
  <2> HIDE DEF next
  <2>4. Tame(s, AfterSweepRead(next))
    BY <1>0, <2>1, EndBatchTame DEF AfterSweepRead, Tame, PassState
  <2> QED
    BY <1>t, <2>2, <2>3, <2>4
<1>15. CASE Stop(p)
  BY <1>0, <1>15, <1>t, EndBatchTame DEF Stop, RowsKept
<1> QED
  BY <1>1, <1>2, <1>3, <1>4, <1>5, <1>6, <1>7, <1>8, <1>9, <1>10, <1>11, <1>12,
     <1>13, <1>14, <1>15 DEF SendStep, SweepStep

\* The claim takes only rows that did not exist, which no other walk can own.
LEMMA ClaimKeepsClaims ==
  ASSUME ClaimInv, NEW p \in Passes, Claim(p)
  PROVE  ClaimInv'
<1> DEFINE s == pass[p]
           won == Won(s.plan)
<1>0. s \in PassState /\ PhaseOK(s) /\ TypeOK /\ s.pc = "claim"
  BY DEF ClaimInv, TypeOK, Claim
<1>1. TypeOK'
  BY <1>0, PassStepType DEF PassStep, WalkStep
<1>2. CASE won = {}
  <2>1. Goto(p, EndPage(s)) /\ RowsKept
    BY <1>2 DEF Claim, RowsKept
  <2> QED
    BY <1>0, <1>1, <2>1, EndBatchType, EndBatchTame, TameKeepsClaims DEF ClaimInv
<1>3. CASE won # {}
  <2> DEFINE t == [s EXCEPT !.pc = "send", !.plan = {}, !.batch = won]
  <2>1. pass' = [pass EXCEPT ![p] = t] /\ pass \in [Passes -> PassState]
    BY <1>0, <1>3 DEF Claim, Goto, TypeOK
  <2>2. /\ t.pc = "send" /\ t.batch = won /\ t.mode = s.mode
        /\ t.ticks = s.ticks /\ t.ticks \in Nat
    BY <1>0, ConstantsAssumption DEF PassState
  <2> HIDE DEF t
  <2>3. \A pr \in won : pr \in Pairs /\ ledger[pr].status = "none"
    BY <1>0 DEF Won, PassState
  <2>4. \A pr \in won : ledger'[pr].status # "none" /\ ledger'[pr].age = 0
    BY <2>3 DEF Claim
  <2>5. RowsKept
    BY <2>3 DEF Claim, RowsKept
  <2>6. \A q \in Passes : PhaseOK(pass'[q])
    BY <2>1, <2>2 DEF ClaimInv, PhaseOK
  <2>7. ASSUME NEW q \in Passes, q # p, pass[q].mode = "walk"
        PROVE  pass[q].batch \cap won = {} /\ Owned(pass[q])'
    <3>1. \A pr \in pass[q].batch : /\ pr \in Pairs /\ ledger[pr].status # "none"
                                    /\ ledger[pr].age <= pass[q].ticks
      BY <2>1, <2>7 DEF ClaimInv, Owned, PassState
    <3>2. pass'[q] = pass[q]
      BY <2>1, <2>7
    <3>3. pass[q].batch \cap won = {}
      BY <2>3, <3>1
    <3>4. Owned(pass[q])'
      BY <2>5, <3>1, <3>2 DEF Owned, RowsKept
    <3> QED
      BY <3>3, <3>4
  <2>8. \A q \in Passes : Owned(pass[q])'
    <3> SUFFICES ASSUME NEW q \in Passes PROVE Owned(pass[q])'
      OBVIOUS
    <3>1. CASE q = p
      BY <2>1, <2>2, <2>4, <3>1 DEF Owned
    <3>2. CASE q # p /\ pass[q].mode = "walk"
      BY <2>7, <3>2
    <3>3. CASE q # p /\ pass[q].mode # "walk"
      BY <2>1, <3>3 DEF Owned
    <3> QED
      BY <3>1, <3>2, <3>3
  <2>9. ClaimExclusive'
    BY <2>1, <2>2, <2>7 DEF ClaimExclusive, ClaimInv
  <2> QED
    BY <1>1, <2>6, <2>8, <2>9 DEF ClaimInv
<1> QED
  BY <1>2, <1>3

\* A pass never outlives retention: a row it owns is at most PassTime old, and
\* the clock ages the row and the pass together.
LEMMA OutsideKeepsClaims ==
  ASSUME ClaimInv,
         \/ Tick \/ Prune \/ FeedChange
         \/ (\E d \in Devices : DeviceEdit(d)) \/ (\E t \in Tokens : Retire(t))
  PROVE  ClaimInv'
<1>0. TypeOK /\ TypeOK'
  BY OutsideStepType DEF ClaimInv
<1>1. CASE Tick
  <2>1. \A q \in Passes :
          /\ pass'[q].batch = pass[q].batch /\ pass'[q].mode = pass[q].mode
          /\ pass'[q].pc = pass[q].pc
          /\ pass[q].batch # {} => pass'[q].ticks = pass[q].ticks + 1
    <3> SUFFICES ASSUME NEW q \in Passes
                 PROVE  /\ pass'[q].batch = pass[q].batch
                        /\ pass'[q].mode = pass[q].mode
                        /\ pass'[q].pc = pass[q].pc
                        /\ pass[q].batch # {} => pass'[q].ticks = pass[q].ticks + 1
      OBVIOUS
    <3>1. pass[q] \in PassState /\ PhaseOK(pass[q])
      BY <1>0 DEF TypeOK, ClaimInv
    <3>2. pass'[q] = IF pass[q].pc = "idle" THEN pass[q]
                     ELSE [pass[q] EXCEPT !.ticks = @ + 1]
      BY <1>1 DEF Tick
    <3>3. pass[q].batch # {} => pass[q].pc # "idle"
      BY <3>1 DEF PhaseOK
    <3> QED
      BY <3>1, <3>2, <3>3 DEF PassState
  <2>2. \A pr \in Pairs : ledger[pr].status # "none" =>
          ledger'[pr].status # "none" /\ ledger'[pr].age <= ledger[pr].age + 1
    BY <1>0, <1>1, ConstantsAssumption DEF Tick, TypeOK, ClaimRow, Least
  <2>3. \A q \in Passes : PhaseOK(pass'[q])
    BY <2>1 DEF ClaimInv, PhaseOK
  <2>4. \A q \in Passes : Owned(pass[q])'
    <3> SUFFICES ASSUME NEW q \in Passes, pass'[q].mode = "walk",
                        NEW pr \in pass'[q].batch
                 PROVE  ledger'[pr].status # "none" /\ ledger'[pr].age <= pass'[q].ticks
      BY DEF Owned
    <3>1. /\ pr \in Pairs /\ pr \in pass[q].batch /\ pass[q].mode = "walk"
          /\ pass'[q].ticks = pass[q].ticks + 1
          /\ pass[q].ticks \in Nat
      BY <1>0, <2>1, ConstantsAssumption DEF TypeOK, PassState
    <3>2. ledger[pr].status # "none" /\ ledger[pr].age <= pass[q].ticks
      BY <3>1 DEF ClaimInv, Owned
    <3>3. ledger[pr].age \in Nat /\ ledger'[pr].age \in Nat
      BY <1>0, <3>1, ConstantsAssumption DEF TypeOK, ClaimRow
    <3> QED
      BY <2>2, <3>1, <3>2, <3>3
  <2>5. ClaimExclusive'
    BY <2>1 DEF ClaimExclusive, ClaimInv
  <2> QED
    BY <1>0, <2>3, <2>4, <2>5 DEF ClaimInv
<1>2. CASE Prune
  <2>1. pass' = pass
    BY <1>2 DEF Prune
  <2>2. \A q \in Passes : Owned(pass[q])'
    <3> SUFFICES ASSUME NEW q \in Passes, pass[q].mode = "walk", NEW pr \in pass[q].batch
                 PROVE  ledger'[pr].status # "none" /\ ledger'[pr].age <= pass[q].ticks
      BY <2>1 DEF Owned
    <3>1. ledger[pr].status # "none" /\ ledger[pr].age <= pass[q].ticks
      BY DEF ClaimInv, Owned
    <3>2. /\ pr \in Pairs /\ pass[q].ticks \in 0..PassTime
          /\ ledger[pr].age \in 0..MaxAge
      BY <1>0 DEF TypeOK, PassState, ClaimRow
    <3>3. pr \notin Expired
      BY <3>1, <3>2, ConstantsAssumption DEF Expired
    <3> QED
      BY <1>2, <3>1, <3>2, <3>3 DEF Prune
  <2> QED
    BY <1>0, <2>1, <2>2 DEF ClaimInv, ClaimExclusive
<1>3. CASE UNCHANGED <<ledger, pass>>
  BY <1>0, <1>3 DEF ClaimInv, Owned, ClaimExclusive
<1> QED
  BY <1>1, <1>2, <1>3 DEF FeedChange, Retire, DeviceEdit, Register, Unregister,
     SetPreferences, EditFavorites

LEMMA ClaimInvInit == Init => ClaimInv
<1> SUFFICES ASSUME Init PROVE ClaimInv
  OBVIOUS
<1>1. \A q \in Passes : pass[q] = Idle
  BY DEF Init
<1>2. Idle.batch = {} /\ Idle.pc = "idle"
  BY DEF Idle
<1> QED
  BY <1>1, <1>2, InitType DEF ClaimInv, PhaseOK, Owned, ClaimExclusive

LEMMA ClaimInvNext == ClaimInv /\ [Next]_vars => ClaimInv'
<1> SUFFICES ASSUME ClaimInv, [Next]_vars PROVE ClaimInv'
  OBVIOUS
<1>0. TypeOK'
  BY NextType DEF ClaimInv
<1>1. ASSUME NEW p \in Passes, Begin(p) \/ PassStep(p) \/ Stop(p)
      PROVE  ClaimInv'
  <2>1. CASE Claim(p)
    BY <2>1, ClaimKeepsClaims
  <2>2. CASE ~Claim(p)
    <3>1. RowsKept /\ \E t \in PassState : Goto(p, t) /\ Tame(pass[p], t)
      BY <1>1, <2>2, TameSteps DEF PassStep, WalkStep
    <3> QED
      BY <1>0, <3>1, TameKeepsClaims DEF ClaimInv
  <2> QED
    BY <2>1, <2>2
<1>2. CASE UNCHANGED vars
  BY <1>0, <1>2 DEF ClaimInv, Owned, ClaimExclusive, vars
<1> QED
  BY <1>1, <1>2, OutsideKeepsClaims DEF Next

\* Who holds what (_dispatch_page, _sweep_retries): a pair a walk has in its batch is
\* claimed in the ledger, by a claim no older than its pass, and in no other walk's
\* batch; a pass holds sends only from the claim to the end of the settlement.
THEOREM ClaimInvariant == Spec => []ClaimInv
BY ClaimInvInit, ClaimInvNext, PTL DEF Spec

\* Two passes that walk the devices at the same time never both own a send,
\* however their steps interleave with users, crashes and retention.
THEOREM ClaimIsExclusive == Spec => []ClaimExclusive
<1>1. ClaimInv => ClaimExclusive
  BY DEF ClaimInv
<1> QED
  BY <1>1, ClaimInvariant, PTL

(***************************************************************************)
(* What a pass holds, by where it is                                       *)
(***************************************************************************)

Sending == {"send", "markSent", "markFailed", "dropTokens"}
Walking == {"fetch", "page", "favs", "plan", "claim", "sweep"}

\* A pass carries outcomes, sends, plans and rows to abandon only in the phase
\* they belong to, and attempt counts only once it sweeps.
Orderly(s) ==
  /\ s.pc \notin Sending => s.outcome = Unsent
  /\ s.pc \notin Sending \cup {"abandon"} => s.batch = {}
  /\ s.pc \notin {"plan", "claim", "sweepTokens", "sweepFavs"} => s.plan = {}
  /\ s.pc # "abandon" => s.drop = {}
  /\ s.drop \cap s.batch = {}
  /\ s.pc \in Walking => s.mode = "walk"
  /\ s.pc \in {"sweepTokens", "sweepFavs", "abandon"} => s.mode = "sweep"
  /\ s.mode = "walk" => s.tried = Untried

OrderlyInv == TypeOK /\ \A p \in Passes : Orderly(pass[p])

\* The claims a pass has taken on and not settled yet.
Due(s) ==
  CASE s.pc \in {"sweepTokens", "sweepFavs"} -> s.plan
    [] s.pc = "abandon" -> s.drop \cup s.batch
    [] s.pc \in {"send", "markSent"} -> s.batch
    [] s.pc = "markFailed" -> Failed(s)
    [] OTHER -> {}

Asked(s, pr) == IF s.outcome[pr] = "unsent" THEN 0 ELSE 1
Queued(s, pr) == IF s.outcome[pr] = "ok" THEN 1 ELSE 0

\* The books of one claim balance. While a pass holds it, its row shows the
\* attempts the pass has read, and the pass knows of one request at most that
\* is in no other account. When none does, a row to be retried accounts for
\* every request, and for every notification.
Accounted(s, pr) ==
  IF pr \in Due(s)
  THEN /\ ledger[pr].status # "sent"
       /\ ledger[pr].status # "none" => ledger[pr].attempts = s.tried[pr]
       /\ requests[pr] <= s.tried[pr] + Asked(s, pr) + lost[pr]
       /\ notified[pr] <= Queued(s, pr) + blind[pr]
       /\ s.outcome[pr] = "ok" => notified[pr] > 0
  ELSE ledger[pr].status \in {"pending", "failed"} =>
       /\ requests[pr] <= ledger[pr].attempts + lost[pr]
       /\ notified[pr] <= blind[pr]

OnceInv ==
  /\ OrderlyInv
  /\ \A p \in Passes, pr \in Pairs : Accounted(pass[p], pr)
  /\ RequestsBounded /\ OnceUnlessInDoubt /\ SentMeansQueued

\* What a device's plan takes of its cap is still free.
Planned(s, d) == {e \in Events : <<d, e>> \in s.plan}
WithinCap(s) ==
  s.pc \in {"plan", "claim"} =>
    /\ \A pr \in s.plan : pr[1] \notin s.todo
    /\ \A d \in Devices : Planned(s, d) # {} =>
         Cardinality(Recent(d)) + Cardinality(Planned(s, d)) <= Cap

CapInv == OrderlyInv /\ \A p \in Passes : WithinCap(pass[p])

\* A pass calls a token dead only if Expo has retired it.
TokenInv == OrderlyInv /\ \A p \in Passes : DeadTokens(pass[p]) \subseteq retired

\* What a sweep has in its hands.
Taken(s) == IF s.mode = "sweep" THEN s.plan \cup s.drop \cup s.batch ELSE {}

\* A sweep holds a claim of a walk only if the claim is younger than the sweep.
Spared ==
  \A p, q \in Passes :
    p # q /\ pass[p].mode = "walk" =>
      \A pr \in pass[p].batch \cap Taken(pass[q]) : ledger[pr].age <= pass[q].ticks

SweepInv == ClaimInv /\ OrderlyInv /\ Spared

LEMMA EndFields ==
  ASSUME NEW s \in PassState
  PROVE  /\ EndPage(s).batch = {} /\ EndPage(s).plan = {} /\ EndPage(s).outcome = Unsent
         /\ EndPage(s).drop = s.drop /\ EndPage(s).tried = s.tried
         /\ EndPage(s).mode = s.mode /\ EndPage(s).pc \in {"sweep", "page"}
BY DEF EndPage, PassState

LEMMA IdleFields ==
  /\ Idle.batch = {} /\ Idle.plan = {} /\ Idle.drop = {} /\ Idle.outcome = Unsent
  /\ Idle.tried = Untried /\ Idle.mode = "walk" /\ Idle.pc = "idle"
BY DEF Idle

\* A pass that holds nothing: what is left of a page, of a sweep or of a pass.
Empty(t) ==
  /\ t.batch = {} /\ t.plan = {} /\ t.drop = {} /\ t.outcome = Unsent
  /\ t.pc \notin Sending \cup {"abandon", "plan", "claim", "sweepTokens", "sweepFavs"}
  /\ t.mode = "walk" /\ t.tried = Untried

LEMMA EmptyOrderly ==
  ASSUME NEW t, Empty(t)
  PROVE  Orderly(t) /\ Due(t) = {} /\ DeadTokens(t) = {} /\ Taken(t) = {}
<1>1. Orderly(t) /\ Taken(t) = {}
  BY DEF Empty, Orderly, Sending, Walking, Taken
<1>2. Due(t) = {}
  BY DEF Empty, Due, Sending
<1>3. DeadTokens(t) = {}
  BY DEF Empty, DeadTokens
<1> QED
  BY <1>1, <1>2, <1>3

LEMMA EndIsEmpty ==
  ASSUME NEW s \in PassState, s.drop = {}, s.mode = "walk" => s.tried = Untried
  PROVE  Empty(EndBatch(s)) /\ Empty(Idle)
<1>1. Empty(Idle)
  BY IdleFields DEF Empty, Sending
<1>2. CASE s.mode = "walk"
  BY <1>1, <1>2, EndFields DEF EndBatch, Empty, Sending
<1>3. CASE s.mode # "walk"
  BY <1>1, <1>3 DEF EndBatch
<1> QED
  BY <1>1, <1>2, <1>3

\* Moving on within the sending phase, with other outcomes or the same.
LEMMA StillSending ==
  ASSUME NEW s \in PassState, Orderly(s), s.pc \in Sending,
         NEW t \in PassState, t.pc \in Sending,
         t.plan = s.plan, t.drop = s.drop, t.mode = s.mode, t.tried = s.tried
  PROVE  Orderly(t)
BY DEF Orderly, Sending, Walking

LEMMA OutcomeFields ==
  ASSUME NEW s \in PassState, NEW f \in [Pairs -> Outcomes]
  PROVE  LET u == [s EXCEPT !.outcome = f]
         IN  /\ u \in PassState /\ u.outcome = f
             /\ u.pc = s.pc /\ u.batch = s.batch /\ u.plan = s.plan /\ u.drop = s.drop
             /\ u.mode = s.mode /\ u.tried = s.tried /\ u.rows = s.rows
             /\ u.ticks = s.ticks
BY DEF PassState

\* Where settling a batch leads: on, to what is left to settle, or to its end.
LEMMA SettleCases ==
  ASSUME NEW s \in PassState, Orderly(s), s.pc \in Sending
  PROVE  /\ \/ Failed(s) # {} /\ AfterSent(s) = [s EXCEPT !.pc = "markFailed"]
            \/ Failed(s) = {} /\ AfterSent(s) = EndBatch(s)
         /\ \/ AfterFailed(s) = [s EXCEPT !.pc = "dropTokens"]
            \/ AfterFailed(s) = EndBatch(s)
         /\ \/ AfterSend(s) = s
            \/ AfterSend(s) = [s EXCEPT !.pc = "markSent"]
            \/ Oks(s) = {} /\ AfterSend(s) = AfterSent(s)
         /\ s.drop = {} /\ (s.mode = "walk" => s.tried = Untried)
BY DEF AfterSent, AfterFailed, AfterSend, Orderly, Sending

LEMMA SettleOrderly ==
  ASSUME NEW s \in PassState, Orderly(s), s.pc \in Sending
  PROVE  /\ Orderly(AfterSent(s)) /\ Orderly(AfterFailed(s))
         /\ Orderly(AfterSend(s)) /\ Orderly(EndBatch(s))
<1>1. ASSUME NEW pc \in {"markSent", "markFailed", "dropTokens"}
      PROVE  Orderly([s EXCEPT !.pc = pc])
  BY StillSending DEF Sending, PassState, PCs
<1>2. Orderly(EndBatch(s))
  BY SettleCases, EndIsEmpty, EmptyOrderly
<1> QED
  BY <1>1, <1>2, SettleCases

LEMMA SweepReadOrderly ==
  ASSUME NEW s \in PassState, s.outcome = Unsent, s.plan = {}, s.mode = "sweep",
         s.drop \cap s.batch = {}
  PROVE  Orderly(AfterSweepRead(s))
<1>1. CASE s.drop # {}
  BY <1>1 DEF AfterSweepRead, Orderly, Sending, Walking, PassState
<1>2. CASE s.drop = {} /\ s.batch # {}
  BY <1>2 DEF AfterSweepRead, Orderly, Sending, Walking, PassState
<1>3. CASE s.drop = {} /\ s.batch = {}
  BY <1>3, EndIsEmpty, EmptyOrderly DEF AfterSweepRead
<1> QED
  BY <1>1, <1>2, <1>3

LEMMA GotoAt ==
  ASSUME TypeOK, NEW p \in Passes, NEW t, Goto(p, t)
  PROVE  pass'[p] = t /\ \A q \in Passes : q # p => pass'[q] = pass[q]
BY DEF Goto, TypeOK

\* A tick changes a pass only by its age.
LEMMA TickFields ==
  ASSUME TypeOK, Tick, NEW p \in Passes
  PROVE  /\ pass'[p].pc = pass[p].pc /\ pass'[p].mode = pass[p].mode
         /\ pass'[p].batch = pass[p].batch /\ pass'[p].plan = pass[p].plan
         /\ pass'[p].drop = pass[p].drop /\ pass'[p].tried = pass[p].tried
         /\ pass'[p].outcome = pass[p].outcome /\ pass'[p].rows = pass[p].rows
         /\ pass'[p].todo = pass[p].todo
         /\ pass'[p].pc # "idle" => pass'[p].ticks = pass[p].ticks + 1
BY DEF Tick, TypeOK, PassState

\* One request of push.send, however it ends: each message of the chunk gets an
\* outcome, and Expo may have queued it more often than it says.
LEMMA SendOutcome ==
  ASSUME TypeOK, NEW p \in Passes, SendTickets(p) \/ SendFails(p)
  PROVE  \E chunk \in SUBSET {pr \in pass[p].batch : pass[p].outcome[pr] = "unsent"},
            f \in [Pairs -> Outcomes], n \in Nat :
           /\ Goto(p, AfterSend([pass[p] EXCEPT !.outcome = f]))
           /\ \A pr \in Pairs :
                IF pr \in chunk
                THEN /\ f[pr] # "unsent"
                     /\ f[pr] = "dead" => pass[p].rows[pr[1]].token \in retired
                     /\ requests'[pr] = requests[pr] + 1
                     /\ blind'[pr] = blind[pr] + n
                     /\ notified'[pr] = notified[pr] + n + (IF f[pr] = "ok" THEN 1 ELSE 0)
                ELSE /\ f[pr] = pass[p].outcome[pr]
                     /\ requests'[pr] = requests[pr] /\ blind'[pr] = blind[pr]
                     /\ notified'[pr] = notified[pr]
<1> DEFINE s == pass[p]
           unsent == {pr \in s.batch : s.outcome[pr] = "unsent"}
           Ends(chunk, f, n) ==
             /\ Goto(p, AfterSend([s EXCEPT !.outcome = f]))
             /\ \A pr \in Pairs :
                  IF pr \in chunk
                  THEN /\ f[pr] # "unsent"
                       /\ f[pr] = "dead" => s.rows[pr[1]].token \in retired
                       /\ requests'[pr] = requests[pr] + 1
                       /\ blind'[pr] = blind[pr] + n
                       /\ notified'[pr] = notified[pr] + n + (IF f[pr] = "ok" THEN 1 ELSE 0)
                  ELSE /\ f[pr] = s.outcome[pr]
                       /\ requests'[pr] = requests[pr] /\ blind'[pr] = blind[pr]
                       /\ notified'[pr] = notified[pr]
<1> SUFFICES \E chunk \in SUBSET unsent, f \in [Pairs -> Outcomes], n \in Nat : Ends(chunk, f, n)
  OBVIOUS
<1>0. s \in PassState
  BY DEF TypeOK
<1>1. CASE SendTickets(p)
  <2>1. PICK chunk \in SUBSET unsent :
          /\ requests' = Plus(requests, chunk)
          /\ \E ticket \in [chunk -> Outcomes], early \in 0..HttpRetries :
               /\ \A pr \in chunk : ticket[pr] \in Answers(s.rows[pr[1]].token)
               /\ Goto(p, AfterSend([s EXCEPT !.outcome =
                    [pr \in Pairs |-> IF pr \in chunk THEN ticket[pr] ELSE s.outcome[pr]]]))
               /\ blind' = Add(blind, chunk, early)
               /\ notified' = Add(Plus(notified, {pr \in chunk : ticket[pr] = "ok"}),
                                  chunk, early)
    BY <1>1 DEF SendTickets
  <2>2. PICK ticket \in [chunk -> Outcomes], early \in 0..HttpRetries :
               /\ \A pr \in chunk : ticket[pr] \in Answers(s.rows[pr[1]].token)
               /\ Goto(p, AfterSend([s EXCEPT !.outcome =
                    [pr \in Pairs |-> IF pr \in chunk THEN ticket[pr] ELSE s.outcome[pr]]]))
               /\ blind' = Add(blind, chunk, early)
               /\ notified' = Add(Plus(notified, {pr \in chunk : ticket[pr] = "ok"}),
                                  chunk, early)
    BY <2>1
  <2> DEFINE f == [pr \in Pairs |-> IF pr \in chunk THEN ticket[pr] ELSE s.outcome[pr]]
  <2>3. f \in [Pairs -> Outcomes]
    BY <1>0 DEF PassState
  <2>4. early \in Nat
    BY ConstantsAssumption
  <2>5. \A pr \in chunk : ticket[pr] # "unsent"
                         /\ (ticket[pr] = "dead" => s.rows[pr[1]].token \in retired)
    BY <2>2 DEF Answers
  <2>6. \A pr \in Pairs :
          /\ requests'[pr] = requests[pr] + (IF pr \in chunk THEN 1 ELSE 0)
          /\ blind'[pr] = blind[pr] + (IF pr \in chunk THEN early ELSE 0)
          /\ notified'[pr] = notified[pr] + (IF pr \in chunk THEN early ELSE 0)
                              + (IF pr \in chunk /\ ticket[pr] = "ok" THEN 1 ELSE 0)
    BY <2>1, <2>2, <2>4 DEF Add, Plus, TypeOK
  <2>7. /\ Goto(p, AfterSend([s EXCEPT !.outcome = f]))
        /\ \A pr \in Pairs : f[pr] = IF pr \in chunk THEN ticket[pr] ELSE s.outcome[pr]
    BY <2>2
  <2>8. requests \in [Pairs -> Nat] /\ blind \in [Pairs -> Nat] /\ notified \in [Pairs -> Nat]
    BY DEF TypeOK
  <2> HIDE DEF f
  <2>9. Ends(chunk, f, early)
    BY <2>4, <2>5, <2>6, <2>7, <2>8
  <2> HIDE DEF Ends
  <2> QED
    BY <2>3, <2>4, <2>9
<1>2. CASE SendFails(p)
  <2>1. PICK chunk \in SUBSET unsent, queued \in 0..(HttpRetries + 1) :
          /\ Goto(p, AfterSend([s EXCEPT !.outcome =
               [pr \in Pairs |-> IF pr \in chunk THEN "transient" ELSE s.outcome[pr]]]))
          /\ requests' = Plus(requests, chunk)
          /\ notified' = Add(notified, chunk, queued)
          /\ blind' = Add(blind, chunk, queued)
    BY <1>2 DEF SendFails
  <2> DEFINE f == [pr \in Pairs |-> IF pr \in chunk THEN "transient" ELSE s.outcome[pr]]
  <2>2. f \in [Pairs -> Outcomes]
    BY <1>0 DEF PassState, Outcomes
  <2>3. queued \in Nat
    BY ConstantsAssumption
  <2>4. \A pr \in Pairs :
          /\ requests'[pr] = requests[pr] + (IF pr \in chunk THEN 1 ELSE 0)
          /\ blind'[pr] = blind[pr] + (IF pr \in chunk THEN queued ELSE 0)
          /\ notified'[pr] = notified[pr] + (IF pr \in chunk THEN queued ELSE 0)
    BY <2>1, <2>3 DEF Add, Plus, TypeOK
  <2>5. /\ Goto(p, AfterSend([s EXCEPT !.outcome = f]))
        /\ \A pr \in Pairs : f[pr] = IF pr \in chunk THEN "transient" ELSE s.outcome[pr]
    BY <2>1
  <2>6. requests \in [Pairs -> Nat] /\ blind \in [Pairs -> Nat] /\ notified \in [Pairs -> Nat]
    BY DEF TypeOK
  <2> HIDE DEF f
  <2>7. Ends(chunk, f, queued)
    BY <2>3, <2>4, <2>5, <2>6
  <2> HIDE DEF Ends
  <2> QED
    BY <2>2, <2>3, <2>7
<1> QED
  BY <1>1, <1>2

\* The sweep splits what it has read into what it abandons, what it sends and
\* what the quiet window holds back.
LEMMA SweepSplit ==
  ASSUME TypeOK, NEW p \in Passes, ReadSweepFavorites(p)
  PROVE  \E u \in PassState :
           /\ Goto(p, AfterSweepRead(u))
           /\ u.plan = {} /\ u.outcome = Unsent
           /\ u.drop \subseteq pass[p].plan /\ u.batch \subseteq pass[p].plan
           /\ u.drop \cap u.batch = {}
           /\ u.mode = pass[p].mode /\ u.tried = pass[p].tried
           /\ u.ticks = pass[p].ticks
<1> DEFINE s == pass[p]
           drop == {pr \in s.plan : Hopeless(s, pr, near[pr[1]])}
           batch == {pr \in s.plan \ drop : ~Held(s, pr)}
           u == [s EXCEPT !.plan = {}, !.drop = drop, !.outcome = Unsent, !.batch = batch]
<1>0. s \in PassState
  BY DEF TypeOK
<1>1. drop \in SUBSET Pairs /\ batch \in SUBSET Pairs /\ drop \cap batch = {}
      /\ drop \subseteq s.plan /\ batch \subseteq s.plan
  BY <1>0 DEF PassState
<1>2. Goto(p, AfterSweepRead(u))
  BY DEF ReadSweepFavorites
<1> HIDE DEF drop, batch
<1>3. /\ u \in PassState /\ u.plan = {} /\ u.outcome = Unsent
      /\ u.drop = drop /\ u.batch = batch
      /\ u.mode = s.mode /\ u.tried = s.tried /\ u.ticks = s.ticks
  BY <1>0, <1>1, InitialValues DEF PassState
<1> QED
  BY <1>1, <1>2, <1>3

\* Each step leaves its pass orderly.
LEMMA StepOrderly ==
  ASSUME OrderlyInv, NEW p \in Passes, Begin(p) \/ PassStep(p) \/ Stop(p)
  PROVE  Orderly(pass'[p])
<1> DEFINE s == pass[p]
<1>0. s \in PassState /\ Orderly(s) /\ TypeOK /\ pass'[p] \in PassState
  BY PassStepType DEF OrderlyInv, TypeOK
<1>1. CASE Begin(p)
  <2>1. pass'[p] = [Idle EXCEPT !.pc = "fetch", !.now = slot]
    BY <1>0, <1>1, GotoAt DEF Begin
  <2> QED
    BY <2>1, IdleFields, IdleType DEF Orderly, Sending, Walking, PassState
<1>2. CASE Fetch(p)
  <2>1. PICK got \in SUBSET live :
          pass'[p] = IF got = {} THEN Idle ELSE [s EXCEPT !.pc = "page", !.seen = got]
    BY <1>0, <1>2, GotoAt DEF Fetch
  <2>2. Orderly([s EXCEPT !.pc = "page", !.seen = got])
    BY <1>0, <1>2 DEF Fetch, Orderly, Sending, Walking, PassState
  <2> QED
    BY <1>0, <1>2, <2>1, <2>2, EndIsEmpty, EmptyOrderly DEF Fetch, Orderly
<1>3. CASE ReadPage(p)
  <2>1. CASE Goto(p, [s EXCEPT !.pc = "sweep"])
    <3>1. pass'[p] = [s EXCEPT !.pc = "sweep"]
      BY <1>0, <2>1, GotoAt
    <3> QED
      BY <1>0, <1>3, <3>1 DEF ReadPage, Orderly, Sending, Walking, PassState
  <2>2. CASE ~Goto(p, [s EXCEPT !.pc = "sweep"])
    <3>1. PICK last, rows :
            Goto(p, [s EXCEPT !.pc = "favs", !.pages = @ + 1, !.after = last,
                              !.todo = Page(s.after), !.rows = rows])
      BY <1>3, <2>2 DEF ReadPage
    <3>2. pass'[p] = [s EXCEPT !.pc = "favs", !.pages = @ + 1, !.after = last,
                               !.todo = Page(s.after), !.rows = rows]
      BY <1>0, <3>1, GotoAt
    <3>3. /\ pass'[p].pc = "favs" /\ pass'[p].mode = s.mode /\ pass'[p].plan = s.plan
          /\ pass'[p].batch = s.batch /\ pass'[p].drop = s.drop
          /\ pass'[p].tried = s.tried /\ pass'[p].outcome = s.outcome
      BY <1>0, <3>2 DEF PassState
    <3> QED
      BY <1>0, <1>3, <3>3 DEF ReadPage, Orderly, Sending, Walking
  <2> QED
    BY <2>1, <2>2
<1>4. CASE ReadFavorites(p)
  <2>1. PICK favs : Goto(p, [s EXCEPT !.pc = "plan", !.favs = favs])
    BY <1>4 DEF ReadFavorites
  <2>2. pass'[p] = [s EXCEPT !.pc = "plan", !.favs = favs]
    BY <1>0, <2>1, GotoAt
  <2>3. /\ pass'[p].pc = "plan" /\ pass'[p].mode = s.mode /\ pass'[p].plan = s.plan
        /\ pass'[p].batch = s.batch /\ pass'[p].drop = s.drop
        /\ pass'[p].tried = s.tried /\ pass'[p].outcome = s.outcome
    BY <1>0, <2>2 DEF PassState
  <2> QED
    BY <1>0, <1>4, <2>3 DEF ReadFavorites, Orderly, Sending, Walking
<1>5. CASE PlanDevice(p)
  <2>1. PICK d, plan :
          Goto(p, IF s.todo # {d} THEN [s EXCEPT !.todo = @ \ {d}, !.plan = plan]
                  ELSE IF plan = {} THEN EndPage(s)
                  ELSE [s EXCEPT !.pc = "claim", !.todo = {}, !.plan = plan])
    BY <1>5 DEF PlanDevice
  <2>2. s.pc = "plan" /\ s.mode = "walk" /\ s.drop = {} /\ s.tried = Untried
    BY <1>0, <1>5 DEF PlanDevice, Orderly, Walking
  <2>3. Orderly(EndPage(s))
    BY <1>0, <2>2, EndIsEmpty, EmptyOrderly DEF EndBatch
  <2>4. Orderly([s EXCEPT !.todo = @ \ {d}, !.plan = plan])
    BY <1>0, <2>2 DEF Orderly, Sending, Walking, PassState
  <2>5. Orderly([s EXCEPT !.pc = "claim", !.todo = {}, !.plan = plan])
    BY <1>0, <2>2 DEF Orderly, Sending, Walking, PassState
  <2> QED
    BY <1>0, <2>1, <2>3, <2>4, <2>5, GotoAt
<1>6. CASE Claim(p)
  <2>1. s.pc = "claim" /\ s.mode = "walk" /\ s.drop = {} /\ s.tried = Untried /\ s.outcome = Unsent
    BY <1>0, <1>6 DEF Claim, Orderly, Walking, Sending
  <2>2. pass'[p] = IF Won(s.plan) = {} THEN EndPage(s)
                   ELSE [s EXCEPT !.pc = "send", !.plan = {}, !.batch = Won(s.plan)]
    BY <1>0, <1>6, GotoAt DEF Claim
  <2>3. Orderly(EndPage(s))
    BY <1>0, <2>1, EndIsEmpty, EmptyOrderly DEF EndBatch
  <2>4. Orderly([s EXCEPT !.pc = "send", !.plan = {}, !.batch = Won(s.plan)])
    BY <1>0, <2>1 DEF Orderly, Sending, Walking, PassState
  <2> QED
    BY <2>2, <2>3, <2>4
<1>7. CASE SendTickets(p) \/ SendFails(p)
  <2>1. PICK f \in [Pairs -> Outcomes] : Goto(p, AfterSend([s EXCEPT !.outcome = f]))
    BY <1>0, <1>7, SendOutcome
  <2>2. s.pc \in Sending
    BY <1>7 DEF SendTickets, SendFails, Sending
  <2> DEFINE u == [s EXCEPT !.outcome = f]
  <2>3. u \in PassState /\ u.pc = s.pc
    BY <1>0, OutcomeFields
  <2>4. Orderly(u)
    BY <1>0, <2>2, <2>3, OutcomeFields, StillSending
  <2>5. pass'[p] = AfterSend(u)
    BY <1>0, <2>1, GotoAt
  <2> HIDE DEF u
  <2> QED
    BY <2>2, <2>3, <2>4, <2>5, SettleOrderly
<1>8. CASE MarkSent(p)
  BY <1>0, <1>8, SettleOrderly, GotoAt DEF MarkSent, Sending
<1>9. CASE MarkFailed(p)
  BY <1>0, <1>9, SettleOrderly, GotoAt DEF MarkFailed, Sending
<1>10. CASE DropTokens(p)
  BY <1>0, <1>10, SettleOrderly, GotoAt DEF DropTokens, Sending
<1>11. CASE ReadRetryable(p)
  <2> DEFINE next(wanted) ==
               [s EXCEPT !.pc = "sweepTokens", !.mode = "sweep", !.plan = wanted,
                         !.tried = [pr \in Pairs |->
                            IF pr \in wanted THEN ledger[pr].attempts ELSE 0]]
  <2>1. PICK wanted : Goto(p, IF wanted = {} THEN Idle ELSE next(wanted))
    BY <1>11 DEF ReadRetryable
  <2>2. pass'[p] = IF wanted = {} THEN Idle ELSE next(wanted)
    BY <1>0, <2>1, GotoAt
  <2>3. /\ next(wanted).pc = "sweepTokens" /\ next(wanted).mode = "sweep"
        /\ next(wanted).batch = s.batch /\ next(wanted).drop = s.drop
        /\ next(wanted).outcome = s.outcome
    BY <1>0 DEF PassState
  <2> HIDE DEF next
  <2>4. Orderly(next(wanted)) /\ Orderly(Idle)
    BY <1>0, <1>11, <2>3, EndIsEmpty, EmptyOrderly
       DEF ReadRetryable, Orderly, Sending, Walking
  <2> QED
    BY <2>2, <2>4
<1>12. CASE ReadSweepTokens(p)
  <2>1. PICK rows : Goto(p, [s EXCEPT !.pc = "sweepFavs", !.rows = rows])
    BY <1>12 DEF ReadSweepTokens
  <2>2. pass'[p] = [s EXCEPT !.pc = "sweepFavs", !.rows = rows]
    BY <1>0, <2>1, GotoAt
  <2>3. /\ pass'[p].pc = "sweepFavs" /\ pass'[p].mode = s.mode
        /\ pass'[p].batch = s.batch /\ pass'[p].drop = s.drop
        /\ pass'[p].tried = s.tried /\ pass'[p].outcome = s.outcome
    BY <1>0, <2>2 DEF PassState
  <2> QED
    BY <1>0, <1>12, <2>3 DEF ReadSweepTokens, Orderly, Sending, Walking
<1>13. CASE ReadSweepFavorites(p)
  <2>1. PICK u \in PassState : /\ Goto(p, AfterSweepRead(u))
                               /\ u.outcome = Unsent /\ u.plan = {} /\ u.mode = s.mode
                               /\ u.drop \cap u.batch = {}
    BY <1>0, <1>13, SweepSplit
  <2>2. s.mode = "sweep"
    BY <1>0, <1>13 DEF ReadSweepFavorites, Orderly
  <2> QED
    BY <1>0, <2>1, <2>2, SweepReadOrderly, GotoAt
<1>14. CASE Abandon(p)
  <2> DEFINE u == [s EXCEPT !.drop = {}]
  <2>1. u \in PassState /\ u.outcome = s.outcome /\ u.plan = s.plan /\ u.mode = s.mode
        /\ u.drop = {}
    BY <1>0 DEF PassState
  <2>2. pass'[p] = AfterSweepRead(u)
    BY <1>0, <1>14, GotoAt DEF Abandon
  <2>3. s.pc = "abandon" /\ s.mode = "sweep" /\ s.plan = {} /\ s.outcome = Unsent
    BY <1>0, <1>14 DEF Abandon, Orderly, Sending
  <2> HIDE DEF u
  <2> QED
    BY <2>1, <2>2, <2>3, SweepReadOrderly
<1>15. CASE Stop(p)
  BY <1>0, <1>15, GotoAt, IdleFields DEF Stop, Orderly, Sending, Walking
<1> QED
  BY <1>1, <1>2, <1>3, <1>4, <1>5, <1>6, <1>7, <1>8, <1>9, <1>10, <1>11, <1>12,
     <1>13, <1>14, <1>15 DEF PassStep, WalkStep, SendStep, SweepStep

\* Up to the claim a pass only reads and plans: it walks on, or it ends.
LEMMA QuietStep ==
  ASSUME TypeOK, NEW p \in Passes,
         Begin(p) \/ Fetch(p) \/ ReadPage(p) \/ ReadFavorites(p) \/ PlanDevice(p)
  PROVE  /\ pass'[p] = Idle \/ pass'[p].pc \in Walking
         /\ pass'[p].pc \in {"plan", "claim"} => ReadFavorites(p) \/ PlanDevice(p)
<1> DEFINE s == pass[p]
<1>0. s \in PassState
  BY DEF TypeOK
<1>1. CASE Begin(p)
  <2>1. pass'[p] = [Idle EXCEPT !.pc = "fetch", !.now = slot]
    BY <1>1, GotoAt DEF Begin
  <2> QED
    BY <2>1, IdleType, IdleFields DEF PassState, Walking
<1>2. CASE Fetch(p)
  <2>1. PICK got : Goto(p, IF got = {} THEN Idle ELSE [s EXCEPT !.pc = "page", !.seen = got])
    BY <1>2 DEF Fetch
  <2>2. pass'[p] = IF got = {} THEN Idle ELSE [s EXCEPT !.pc = "page", !.seen = got]
    BY <2>1, GotoAt
  <2> QED
    BY <1>0, <2>2, IdleFields DEF PassState, Walking
<1>3. CASE ReadPage(p)
  <2>1. PICK last, rows :
          \/ Goto(p, [s EXCEPT !.pc = "sweep"])
          \/ Goto(p, [s EXCEPT !.pc = "favs", !.pages = @ + 1, !.after = last,
                               !.todo = Page(s.after), !.rows = rows])
    BY <1>3 DEF ReadPage
  <2>2. \/ pass'[p] = [s EXCEPT !.pc = "sweep"]
        \/ pass'[p] = [s EXCEPT !.pc = "favs", !.pages = @ + 1, !.after = last,
                                !.todo = Page(s.after), !.rows = rows]
    BY <2>1, GotoAt
  <2> QED
    BY <1>0, <2>2 DEF PassState, Walking
<1>4. CASE ReadFavorites(p)
  <2>1. PICK favs : Goto(p, [s EXCEPT !.pc = "plan", !.favs = favs])
    BY <1>4 DEF ReadFavorites
  <2>2. pass'[p] = [s EXCEPT !.pc = "plan", !.favs = favs]
    BY <2>1, GotoAt
  <2> QED
    BY <1>0, <1>4, <2>2 DEF PassState, Walking
<1>5. CASE PlanDevice(p)
  <2>1. PICK d, plan :
          Goto(p, IF s.todo # {d} THEN [s EXCEPT !.todo = @ \ {d}, !.plan = plan]
                  ELSE IF plan = {} THEN EndPage(s)
                  ELSE [s EXCEPT !.pc = "claim", !.todo = {}, !.plan = plan])
    BY <1>5 DEF PlanDevice
  <2>2. pass'[p] = IF s.todo # {d} THEN [s EXCEPT !.todo = @ \ {d}, !.plan = plan]
                   ELSE IF plan = {} THEN EndPage(s)
                   ELSE [s EXCEPT !.pc = "claim", !.todo = {}, !.plan = plan]
    BY <2>1, GotoAt
  <2>3. /\ [s EXCEPT !.todo = @ \ {d}, !.plan = plan].pc = "plan"
        /\ [s EXCEPT !.pc = "claim", !.todo = {}, !.plan = plan].pc = "claim"
    BY <1>0, <1>5 DEF PlanDevice, PassState
  <2> QED
    BY <1>0, <1>5, <2>2, <2>3, EndFields DEF Walking
<1> QED
  BY <1>1, <1>2, <1>3, <1>4, <1>5

LEMMA StepGoes ==
  ASSUME NEW p \in Passes, Begin(p) \/ PassStep(p) \/ Stop(p)
  PROVE  \E t : Goto(p, t)
BY DEF Begin, Stop, PassStep, WalkStep, SendStep, SweepStep, Fetch, ReadPage, ReadFavorites,
   PlanDevice, Claim, SendTickets, SendFails, MarkSent, MarkFailed, DropTokens,
   ReadRetryable, ReadSweepTokens, ReadSweepFavorites, Abandon

LEMMA OrderlyInit == Init => OrderlyInv
<1> SUFFICES ASSUME Init PROVE OrderlyInv
  OBVIOUS
<1>1. \A p \in Passes : pass[p] = Idle
  BY DEF Init
<1> QED
  BY <1>1, InitType, IdleFields DEF OrderlyInv, Orderly, Sending, Walking

LEMMA OrderlyNext == OrderlyInv /\ [Next]_vars => OrderlyInv'
<1> SUFFICES ASSUME OrderlyInv, [Next]_vars PROVE OrderlyInv'
  OBVIOUS
<1>0. TypeOK /\ TypeOK'
  BY NextType DEF OrderlyInv
<1>1. ASSUME NEW p \in Passes, Begin(p) \/ PassStep(p) \/ Stop(p)
      PROVE  OrderlyInv'
  <2>1. \E t : Goto(p, t)
    BY <1>1, StepGoes
  <2>2. \A q \in Passes : q # p => pass'[q] = pass[q]
    BY <1>0, <2>1, GotoAt
  <2> QED
    BY <1>0, <1>1, <2>2, StepOrderly DEF OrderlyInv
<1>2. CASE Tick
  BY <1>0, <1>2, TickFields DEF OrderlyInv, Orderly
<1>3. CASE UNCHANGED pass
  BY <1>0, <1>3 DEF OrderlyInv
<1> QED
  BY <1>1, <1>2, <1>3 DEF Next, vars, Prune, FeedChange, Retire, DeviceEdit, Register,
     Unregister, SetPreferences, EditFavorites

(***************************************************************************)
(* The books of a claim balance                                            *)
(***************************************************************************)

\* The three invariants of OnceInv, pair by pair.
Booked(pr) ==
  /\ requests[pr] <= MaxAttempts + lost[pr]
  /\ notified[pr] <= 1 + blind[pr]
  /\ ledger[pr].status = "sent" => notified[pr] > 0

\* What a pass must settle next, after each part of settling a batch.
LEMMA SettleDue ==
  ASSUME NEW s \in PassState, Orderly(s), s.pc \in Sending
  PROVE  /\ Due(AfterSent(s)) = Failed(s)
         /\ Failed(s) # {} => /\ AfterSent(s).outcome = s.outcome
                              /\ AfterSent(s).tried = s.tried
         /\ Due(AfterFailed(s)) = {} /\ Due(EndBatch(s)) = {}
<1>1. Due(EndBatch(s)) = {}
  BY SettleCases, EndIsEmpty, EmptyOrderly
<1>2. ASSUME NEW pc \in PCs
      PROVE  LET t == [s EXCEPT !.pc = pc]
             IN  t.pc = pc /\ t.outcome = s.outcome /\ t.tried = s.tried /\ t.batch = s.batch
  BY DEF PassState
<1>3. LET t == [s EXCEPT !.pc = "markFailed"] IN Due(t) = Failed(s)
  BY <1>2 DEF PCs, Due, Failed, Oks
<1>4. LET t == [s EXCEPT !.pc = "dropTokens"] IN Due(t) = {}
  BY <1>2 DEF PCs, Due
<1> QED
  BY <1>1, <1>2, <1>3, <1>4, SettleCases DEF PCs

LEMMA SendDue ==
  ASSUME NEW s \in PassState, Orderly(s), s.pc = "send"
  PROVE  /\ Due(AfterSend(s)) = s.batch
         /\ s.batch # {} => /\ AfterSend(s).outcome = s.outcome
                            /\ AfterSend(s).tried = s.tried
<1>0. s.pc \in Sending
  BY DEF Sending
<1>1. CASE AfterSend(s) = s
  BY <1>1 DEF Due
<1>2. CASE AfterSend(s) = [s EXCEPT !.pc = "markSent"]
  BY <1>2 DEF Due, PassState
<1>3. CASE Oks(s) = {} /\ AfterSend(s) = AfterSent(s)
  BY <1>0, <1>3, SettleDue DEF Failed
<1> QED
  BY <1>0, <1>1, <1>2, <1>3, SettleCases

LEMMA SweepReadDue ==
  ASSUME NEW s \in PassState
  PROVE  /\ Due(AfterSweepRead(s)) = s.drop \cup s.batch
         /\ s.drop \cup s.batch # {} => /\ AfterSweepRead(s).outcome = s.outcome
                                        /\ AfterSweepRead(s).tried = s.tried
<1>1. CASE s.drop # {}
  BY <1>1 DEF AfterSweepRead, Due, PassState
<1>2. CASE s.drop = {} /\ s.batch # {}
  BY <1>2 DEF AfterSweepRead, Due, PassState
<1>3. CASE s.drop = {} /\ s.batch = {}
  BY <1>3, IdleFields DEF AfterSweepRead, Due
<1> QED
  BY <1>1, <1>2, <1>3

\* Each step of the only pass keeps the books of every pair.
LEMMA OnceStep ==
  ASSUME OnceInv, NEW p \in Passes, Begin(p) \/ PassStep(p) \/ Stop(p), NEW pr \in Pairs
  PROVE  Accounted(pass[p], pr)' /\ Booked(pr)'
<1> DEFINE s == pass[p]
<1>0. /\ s \in PassState /\ Orderly(s) /\ TypeOK /\ OrderlyInv
      /\ pass'[p] \in PassState /\ Orderly(pass'[p])
  BY PassStepType, StepOrderly DEF OnceInv, OrderlyInv, TypeOK
<1>1. Accounted(s, pr) /\ Booked(pr)
  BY DEF OnceInv, Booked, RequestsBounded, OnceUnlessInDoubt, SentMeansQueued
<1>2. /\ requests[pr] \in Nat /\ notified[pr] \in Nat /\ lost[pr] \in Nat /\ blind[pr] \in Nat
      /\ ledger[pr].attempts \in Nat
      /\ s.tried[pr] \in Nat /\ s.tried[pr] + 1 <= MaxAttempts
      /\ MaxAttempts \in Nat
  BY <1>0, ConstantsAssumption DEF TypeOK, PassState, ClaimRow
<1> DEFINE kept == UNCHANGED <<requests, notified, lost, blind>>
<1>3. ASSUME ledger'[pr] = ledger[pr], kept, pr \notin Due(s), pr \notin Due(pass'[p])
      PROVE  Accounted(pass[p], pr)' /\ Booked(pr)'
  BY <1>1, <1>3 DEF Accounted, Booked
<1>4. ASSUME s.pc \notin {"sweepTokens", "sweepFavs", "abandon", "send", "markSent", "markFailed"}
      PROVE  Due(s) = {}
  BY <1>4 DEF Due
<1>5. ASSUME pass'[p].pc \notin {"sweepTokens", "sweepFavs", "abandon", "send", "markSent", "markFailed"}
      PROVE  Due(pass'[p]) = {}
  BY <1>5 DEF Due
<1>6. CASE Begin(p) \/ Fetch(p) \/ ReadPage(p) \/ ReadFavorites(p) \/ PlanDevice(p)
  <2>1. Due(s) = {} /\ ledger' = ledger /\ kept
    BY <1>4, <1>6 DEF Begin, Fetch, ReadPage, ReadFavorites, PlanDevice, tables, ghosts
  <2>2. Due(pass'[p]) = {}
    BY <1>0, <1>5, <1>6, QuietStep, IdleFields DEF Walking
  <2> QED
    BY <1>3, <2>1, <2>2
<1>7. CASE Claim(p)
  <2>1. pass'[p] = IF Won(s.plan) = {} THEN EndPage(s)
                   ELSE [s EXCEPT !.pc = "send", !.plan = {}, !.batch = Won(s.plan)]
    BY <1>0, <1>7, GotoAt DEF Claim
  <2>2. /\ Due(s) = {} /\ s.outcome = Unsent /\ s.tried = Untried
    BY <1>0, <1>4, <1>7 DEF Claim, Orderly, Sending, Walking
  <2>3. CASE pr \notin Won(s.plan)
    <3>1. pr \notin Due(pass'[p])
      BY <1>0, <2>1, <2>3, EndFields DEF Due, PassState
    <3>2. ledger'[pr] = ledger[pr] /\ requests'[pr] = requests[pr] /\ notified'[pr] = notified[pr]
          /\ lost'[pr] = lost[pr] /\ blind'[pr] = blind[pr]
      BY <1>7, <2>3 DEF Claim, Cleared
    <3> QED
      BY <1>1, <2>2, <3>1, <3>2 DEF Accounted, Booked
  <2>4. CASE pr \in Won(s.plan)
    <3>1. /\ pr \in Due(pass'[p])
          /\ pass'[p].tried[pr] = 0 /\ pass'[p].outcome[pr] = "unsent"
      BY <1>0, <2>1, <2>2, <2>4 DEF Due, PassState, Untried, Unsent
    <3>2. ledger'[pr].status = "pending" /\ ledger'[pr].attempts = 0 /\ requests'[pr] = 0
          /\ notified'[pr] = 0 /\ lost'[pr] = 0 /\ blind'[pr] = 0
      BY <1>7, <2>4 DEF Claim, Cleared
    <3> QED
      BY <1>2, <3>1, <3>2 DEF Accounted, Booked, Asked, Queued
  <2> QED
    BY <2>3, <2>4
<1>8. CASE SendTickets(p) \/ SendFails(p)
  <2>1. PICK chunk \in SUBSET {qr \in s.batch : s.outcome[qr] = "unsent"},
             f \in [Pairs -> Outcomes], n \in Nat :
           /\ Goto(p, AfterSend([s EXCEPT !.outcome = f]))
           /\ \A qr \in Pairs :
                IF qr \in chunk
                THEN /\ f[qr] # "unsent"
                     /\ f[qr] = "dead" => s.rows[qr[1]].token \in retired
                     /\ requests'[qr] = requests[qr] + 1
                     /\ blind'[qr] = blind[qr] + n
                     /\ notified'[qr] = notified[qr] + n + (IF f[qr] = "ok" THEN 1 ELSE 0)
                ELSE /\ f[qr] = s.outcome[qr]
                     /\ requests'[qr] = requests[qr] /\ blind'[qr] = blind[qr]
                     /\ notified'[qr] = notified[qr]
    BY <1>0, <1>8, SendOutcome
  <2> DEFINE u == [s EXCEPT !.outcome = f]
  <2>2. s.pc = "send" /\ s.pc \in Sending /\ ledger' = ledger /\ lost' = lost
    BY <1>8 DEF SendTickets, SendFails, Sending
  <2>3. /\ u \in PassState /\ u.pc = s.pc /\ u.outcome = f
        /\ u.batch = s.batch /\ u.tried = s.tried
        /\ u.plan = s.plan /\ u.drop = s.drop /\ u.mode = s.mode
    BY <1>0, OutcomeFields
  <2>4. pass'[p] = AfterSend(u)
    BY <1>0, <2>1, GotoAt
  <2> HIDE DEF u
  <2>5. Orderly(u)
    BY <1>0, <2>2, <2>3, StillSending
  <2>6. /\ Due(s) = s.batch /\ Due(pass'[p]) = s.batch
        /\ s.batch # {} => pass'[p].outcome = f /\ pass'[p].tried = s.tried
    BY <2>2, <2>3, <2>5, <2>4, SendDue DEF Due
  <2>7. CASE pr \in chunk
    <3>1. s.outcome[pr] = "unsent" /\ pr \in s.batch
      BY <2>1, <2>7
    <3> QED
      BY <1>1, <1>2, <2>1, <2>2, <2>6, <2>7, <3>1 DEF Accounted, Booked, Asked, Queued
  <2>8. CASE pr \notin chunk
    BY <1>1, <1>2, <2>1, <2>2, <2>6, <2>8 DEF Accounted, Booked, Asked, Queued
  <2> QED
    BY <2>7, <2>8
<1>9. CASE MarkSent(p)
  <2>1. pass'[p] = AfterSent(s) /\ Due(s) = s.batch /\ s.pc \in Sending /\ kept
    BY <1>0, <1>9, GotoAt DEF MarkSent, Due, Sending, ghosts
  <2>2. /\ Due(pass'[p]) = Failed(s)
        /\ Failed(s) # {} => pass'[p].outcome = s.outcome /\ pass'[p].tried = s.tried
    BY <1>0, <2>1, SettleDue
  <2>3. CASE pr \in Oks(s)
    <3>1. ledger'[pr].status = "sent"
      BY <1>9, <2>3 DEF MarkSent, Marked
    <3>2. pr \in Due(s) /\ s.outcome[pr] = "ok" /\ pr \notin Due(pass'[p])
      BY <2>1, <2>2, <2>3 DEF Oks, Failed
    <3> QED
      BY <1>1, <1>2, <2>1, <3>1, <3>2 DEF Accounted, Booked
  <2>4. CASE pr \notin Oks(s)
    <3>1. ledger'[pr] = ledger[pr] /\ (pr \in Due(s) <=> pr \in Due(pass'[p]))
      BY <1>9, <2>1, <2>2, <2>4 DEF MarkSent, Failed
    <3> QED
      BY <1>1, <2>1, <2>2, <3>1 DEF Accounted, Booked, Asked, Queued
  <2> QED
    BY <2>3, <2>4
<1>10. CASE MarkFailed(p)
  <2>1. pass'[p] = AfterFailed(s) /\ Due(s) = Failed(s) /\ s.pc \in Sending /\ kept
    BY <1>0, <1>10, GotoAt DEF MarkFailed, Due, Sending, ghosts
  <2>2. Due(pass'[p]) = {}
    BY <1>0, <2>1, SettleDue
  <2>3. CASE pr \in Failed(s)
    <3>1. ledger'[pr].status = "failed" /\ ledger'[pr].attempts = AttemptsAfter(s, pr)
      BY <1>10, <2>3 DEF MarkFailed, Marked
    <3>2. AttemptsAfter(s, pr) \in Nat /\ AttemptsAfter(s, pr) >= s.tried[pr] + 1
      BY <1>2 DEF AttemptsAfter
    <3>3. s.outcome[pr] # "ok"
      BY <2>3 DEF Failed, Oks
    <3> QED
      BY <1>1, <1>2, <2>1, <2>2, <2>3, <3>1, <3>2, <3>3 DEF Accounted, Booked, Asked, Queued
  <2>4. CASE pr \notin Failed(s)
    <3>1. ledger'[pr] = ledger[pr]
      BY <1>10, <2>4 DEF MarkFailed
    <3> QED
      BY <1>3, <2>1, <2>2, <2>4, <3>1
  <2> QED
    BY <2>3, <2>4
<1>11. CASE DropTokens(p)
  <2>1. pass'[p] = EndBatch(s) /\ Due(s) = {} /\ s.pc \in Sending /\ kept /\ ledger' = ledger
    BY <1>0, <1>11, GotoAt DEF DropTokens, Due, Sending, ghosts
  <2> QED
    BY <1>0, <1>3, <2>1, SettleDue
<1>12. CASE ReadRetryable(p)
  <2> DEFINE next(wanted) ==
               [s EXCEPT !.pc = "sweepTokens", !.mode = "sweep", !.plan = wanted,
                         !.tried = [qr \in Pairs |->
                            IF qr \in wanted THEN ledger[qr].attempts ELSE 0]]
  <2>1. PICK wanted \in SUBSET Retryable : Goto(p, IF wanted = {} THEN Idle ELSE next(wanted))
    BY <1>12 DEF ReadRetryable
  <2>2. pass'[p] = IF wanted = {} THEN Idle ELSE next(wanted)
    BY <1>0, <2>1, GotoAt
  <2>3. /\ next(wanted).pc = "sweepTokens" /\ next(wanted).plan = wanted
        /\ next(wanted).outcome = s.outcome
        /\ pr \in wanted => next(wanted).tried[pr] = ledger[pr].attempts
    BY <1>0 DEF PassState
  <2> HIDE DEF next
  <2>4. Due(s) = {} /\ Due(pass'[p]) = wanted /\ s.outcome = Unsent /\ kept /\ ledger' = ledger
    BY <1>0, <1>12, <2>2, <2>3, IdleFields
       DEF ReadRetryable, Due, Orderly, Sending, tables, ghosts
  <2>5. CASE pr \in wanted
    <3>1. ledger[pr].status \in {"pending", "failed"} /\ s.outcome[pr] = "unsent"
      BY <2>1, <2>4, <2>5 DEF Retryable, Unsent
    <3> QED
      BY <1>1, <1>2, <2>2, <2>3, <2>4, <2>5, <3>1 DEF Accounted, Booked, Asked, Queued
  <2> QED
    BY <1>3, <2>4, <2>5
<1>13. CASE ReadSweepTokens(p)
  <2>1. PICK rows : Goto(p, [s EXCEPT !.pc = "sweepFavs", !.rows = rows])
    BY <1>13 DEF ReadSweepTokens
  <2>2. pass'[p] = [s EXCEPT !.pc = "sweepFavs", !.rows = rows]
    BY <1>0, <2>1, GotoAt
  <2>3. /\ pass'[p].pc = "sweepFavs" /\ pass'[p].plan = s.plan
        /\ pass'[p].tried = s.tried /\ pass'[p].outcome = s.outcome
    BY <1>0, <2>2 DEF PassState
  <2>4. Due(pass'[p]) = Due(s) /\ kept /\ ledger' = ledger
    BY <1>13, <2>3 DEF ReadSweepTokens, Due, tables, ghosts
  <2> QED
    BY <1>1, <2>3, <2>4 DEF Accounted, Booked, Asked, Queued
<1>14. CASE ReadSweepFavorites(p)
  <2>1. PICK u \in PassState :
           /\ Goto(p, AfterSweepRead(u))
           /\ u.outcome = Unsent /\ u.tried = s.tried
           /\ u.drop \subseteq s.plan /\ u.batch \subseteq s.plan
    BY <1>0, <1>14, SweepSplit
  <2>2. /\ Due(s) = s.plan /\ s.outcome = Unsent /\ kept /\ ledger' = ledger
    BY <1>0, <1>14 DEF ReadSweepFavorites, Due, Orderly, Sending, tables, ghosts
  <2>3. pass'[p] = AfterSweepRead(u)
    BY <1>0, <2>1, GotoAt
  <2>4. /\ Due(pass'[p]) \subseteq Due(s)
        /\ Due(pass'[p]) # {} => pass'[p].outcome = s.outcome /\ pass'[p].tried = s.tried
    BY <2>1, <2>2, <2>3, SweepReadDue
  <2>5. s.outcome[pr] = "unsent"
    BY <2>2 DEF Unsent
  <2> QED
    BY <1>1, <1>2, <2>2, <2>4, <2>5 DEF Accounted, Booked, Asked, Queued
<1>15. CASE Abandon(p)
  <2> DEFINE u == [s EXCEPT !.drop = {}]
  <2>1. u \in PassState /\ u.outcome = s.outcome /\ u.tried = s.tried /\ u.drop = {}
        /\ u.batch = s.batch
    BY <1>0 DEF PassState
  <2>2. pass'[p] = AfterSweepRead(u)
    BY <1>0, <1>15, GotoAt DEF Abandon
  <2> HIDE DEF u
  <2>3. /\ Due(s) = s.drop \cup s.batch /\ Due(pass'[p]) = s.batch /\ kept
        /\ Due(pass'[p]) # {} => pass'[p].outcome = s.outcome /\ pass'[p].tried = s.tried
        /\ s.outcome[pr] = "unsent" /\ s.drop \cap s.batch = {}
    BY <1>0, <1>15, <2>1, <2>2, SweepReadDue
       DEF Abandon, Due, Orderly, Sending, Unsent, ghosts
  <2>4. CASE pr \in s.drop
    <3>1. ledger'[pr].status = "failed" /\ ledger'[pr].attempts = MaxAttempts
      BY <1>15, <2>4 DEF Abandon, Marked
    <3> QED
      BY <1>1, <1>2, <2>3, <2>4, <3>1 DEF Accounted, Booked, Asked, Queued
  <2>5. CASE pr \notin s.drop
    <3>1. ledger'[pr] = ledger[pr]
      BY <1>15, <2>5 DEF Abandon
    <3> QED
      BY <1>1, <2>3, <2>5, <3>1 DEF Accounted, Booked, Asked, Queued
  <2> QED
    BY <2>4, <2>5
<1>16. CASE Stop(p)
  <2>1. pass'[p] = Idle /\ Due(pass'[p]) = {} /\ ledger' = ledger
    BY <1>0, <1>16, GotoAt, IdleFields DEF Stop, Due
  <2>2. /\ requests' = requests /\ notified' = notified
        /\ lost'[pr] = lost[pr] + (IF pr \in Unwritten(s) THEN 1 ELSE 0)
        /\ blind'[pr] = blind[pr]
             + (IF pr \in Unwritten(s) /\ s.outcome[pr] = "ok" THEN 1 ELSE 0)
    BY <1>2, <1>16 DEF Stop, Plus, Add
  <2>3. /\ pr \in Unwritten(s) => pr \in Due(s)
        /\ pr \in Due(s) /\ s.outcome[pr] # "unsent" => pr \in Unwritten(s)
    BY <1>0 DEF Unwritten, Due, Orderly, Sending, Unsent, Failed
  <2> QED
    BY <1>1, <1>2, <2>1, <2>2, <2>3 DEF Accounted, Booked, Asked, Queued
<1> QED
  BY <1>6, <1>7, <1>8, <1>9, <1>10, <1>11, <1>12,
     <1>13, <1>14, <1>15, <1>16 DEF PassStep, WalkStep, SendStep, SweepStep

LEMMA OnceInit == Init => OnceInv
<1> SUFFICES ASSUME Init PROVE OnceInv
  OBVIOUS
<1>1. ASSUME NEW pr \in Pairs
      PROVE  /\ requests[pr] = 0 /\ notified[pr] = 0 /\ lost[pr] = 0 /\ blind[pr] = 0
             /\ ledger[pr].status = "none"
  BY <1>1 DEF Init, Untried, NoClaim
<1>2. \A p \in Passes : pass[p] = Idle
  BY DEF Init
<1>3. Due(Idle) = {}
  BY IdleFields DEF Due
<1> QED
  BY <1>1, <1>2, <1>3, OrderlyInit, ConstantsAssumption
     DEF OnceInv, Accounted, RequestsBounded, OnceUnlessInDoubt, SentMeansQueued

\* The clock, retention and the outside world leave the books alone.
LEMMA OnceOutside ==
  ASSUME OnceInv, NEW pr \in Pairs,
         Tick \/ Prune \/ UNCHANGED <<ledger, pass, requests, notified, lost, blind>>
  PROVE  Booked(pr)' /\ \A p \in Passes : Accounted(pass[p], pr)'
<1>0. TypeOK /\ Booked(pr) /\ \A p \in Passes : Accounted(pass[p], pr)
  BY DEF OnceInv, OrderlyInv, Booked, RequestsBounded, OnceUnlessInDoubt, SentMeansQueued
<1>1. CASE Tick
  <2>1. /\ ledger'[pr].status = ledger[pr].status
        /\ ledger'[pr].attempts = ledger[pr].attempts
    BY <1>0, <1>1 DEF Tick, TypeOK, ClaimRow
  <2>2. ASSUME NEW p \in Passes
        PROVE  Accounted(pass[p], pr)'
    <3>1. /\ pass'[p].pc = pass[p].pc /\ pass'[p].batch = pass[p].batch
          /\ pass'[p].plan = pass[p].plan /\ pass'[p].drop = pass[p].drop
          /\ pass'[p].tried = pass[p].tried /\ pass'[p].outcome = pass[p].outcome
      BY <1>0, <1>1, TickFields
    <3>2. Due(pass'[p]) = Due(pass[p])
      BY <3>1 DEF Due, Failed, Oks
    <3> QED
      BY <1>0, <1>1, <2>1, <3>1, <3>2 DEF Tick, ghosts, Accounted, Asked, Queued
  <2> QED
    BY <1>0, <1>1, <2>1, <2>2 DEF Tick, ghosts, Booked
<1>2. CASE Prune
  <2>1. ledger'[pr] = ledger[pr] \/ ledger'[pr].status = "none"
    BY <1>2 DEF Prune, NoClaim
  <2> QED
    BY <1>0, <1>2, <2>1 DEF Prune, ghosts, Accounted, Booked, Asked, Queued
<1>3. CASE UNCHANGED <<ledger, pass, requests, notified, lost, blind>>
  BY <1>0, <1>3 DEF Accounted, Booked, Asked, Queued
<1> QED
  BY <1>1, <1>2, <1>3

\* A step is a pass's, the clock's, retention's, or leaves the books alone.
LEMMA StepKinds ==
  ASSUME [Next]_vars
  PROVE  \/ \E p \in Passes : Begin(p) \/ PassStep(p) \/ Stop(p)
         \/ Tick \/ Prune
         \/ UNCHANGED <<ledger, pass, requests, notified, lost, blind>>
BY DEF Next, vars, ghosts, FeedChange, Retire, DeviceEdit, Register, Unregister,
   SetPreferences, EditFavorites

LEMMA OnceNext ==
  ASSUME \A p, q \in Passes : p = q, OnceInv, [Next]_vars
  PROVE  OnceInv'
<1>1. OrderlyInv'
  BY OrderlyNext DEF OnceInv
<1>2. ASSUME NEW pr \in Pairs
      PROVE  Booked(pr)' /\ \A p \in Passes : Accounted(pass[p], pr)'
  <2>1. CASE \E p \in Passes : Begin(p) \/ PassStep(p) \/ Stop(p)
    BY <2>1, OnceStep
  <2>2. CASE Tick \/ Prune \/ UNCHANGED <<ledger, pass, requests, notified, lost, blind>>
    BY <2>2, OnceOutside
  <2> QED
    BY <2>1, <2>2, StepKinds
<1> QED
  BY <1>1, <1>2 DEF OnceInv, Booked, RequestsBounded, OnceUnlessInDoubt, SentMeansQueued

\* One pass at a time: the books of every claim balance (see OnceInv).
THEOREM OnceInvariant ==
  ASSUME \A p, q \in Passes : p = q
  PROVE  Spec => []OnceInv
<1>1. Init => OnceInv
  BY OnceInit
<1>2. OnceInv /\ [Next]_vars => OnceInv'
  BY OnceNext
<1> QED
  BY <1>1, <1>2, PTL DEF Spec

\* One pass at a time, the requests made for a claim never exceed
\* PUSH_MAX_ATTEMPTS plus those a crash or a failed settle kept out of the
\* ledger, through every retry, abandonment and pruning.
THEOREM RequestsAreBounded ==
  ASSUME \A p, q \in Passes : p = q
  PROVE  Spec => []RequestsBounded
<1>1. OnceInv => RequestsBounded
  BY DEF OnceInv
<1> QED
  BY <1>1, OnceInvariant, PTL

\* One pass at a time, a device is notified of an event once, and once more
\* for each notification the ledger never heard of.
THEOREM NotifiedOnceUnlessInDoubt ==
  ASSUME \A p, q \in Passes : p = q
  PROVE  Spec => []OnceUnlessInDoubt
<1>1. OnceInv => OnceUnlessInDoubt
  BY DEF OnceInv
<1> QED
  BY <1>1, OnceInvariant, PTL

\* One pass at a time, mark_sent records only what Expo queued.
THEOREM SentWasQueued ==
  ASSUME \A p, q \in Passes : p = q
  PROVE  Spec => []SentMeansQueued
<1>1. OnceInv => SentMeansQueued
  BY DEF OnceInv
<1> QED
  BY <1>1, OnceInvariant, PTL

\* What a step may make of a row, given the books: a pass marks failed only
\* what it still owes, with the attempts it has read.
LEMMA RowStep ==
  ASSUME \A p, q \in Passes : p = q, OnceInv, Next, NEW pr \in Pairs
  PROVE  /\ ledger[pr].status = "sent" => ledger'[pr].status \in {"sent", "none"}
         /\ ledger[pr].status # "none" /\ ledger'[pr].status \in {"pending", "failed"}
              => ledger'[pr].attempts >= ledger[pr].attempts
<1>0. TypeOK /\ \A p \in Passes : pass[p] \in PassState /\ Accounted(pass[p], pr)
  BY DEF OnceInv, OrderlyInv, TypeOK
<1>1. ledger[pr].attempts \in 0..MaxAttempts /\ MaxAttempts \in Nat
  BY <1>0, ConstantsAssumption DEF TypeOK, ClaimRow
<1>2. ASSUME NEW p \in Passes, Claim(p)
      PROVE  ledger'[pr] = ledger[pr] \/ ledger[pr].status = "none"
  BY <1>2 DEF Claim, Won
<1>3. ASSUME NEW p \in Passes, MarkSent(p)
      PROVE  ledger'[pr] = ledger[pr] \/ ledger'[pr].status = "sent"
  BY <1>3 DEF MarkSent, Marked
<1>4. ASSUME NEW p \in Passes, MarkFailed(p)
      PROVE  \/ ledger'[pr] = ledger[pr]
             \/ ledger[pr].status # "sent" /\ ledger'[pr].status = "failed"
                /\ (ledger[pr].status # "none" => ledger'[pr].attempts >= ledger[pr].attempts)
  <2>1. CASE pr \notin Failed(pass[p])
    BY <1>4, <2>1 DEF MarkFailed
  <2>2. CASE pr \in Failed(pass[p])
    <3>1. pr \in Due(pass[p])
      BY <1>4, <2>2 DEF MarkFailed, Due
    <3>2. ledger'[pr].status = "failed" /\ ledger'[pr].attempts = AttemptsAfter(pass[p], pr)
      BY <1>4, <2>2 DEF MarkFailed, Marked
    <3>3. ledger[pr].status # "sent"
          /\ (ledger[pr].status # "none" => ledger[pr].attempts = pass[p].tried[pr])
      BY <1>0, <3>1 DEF Accounted
    <3> QED
      BY <1>1, <3>2, <3>3 DEF AttemptsAfter
  <2> QED
    BY <2>1, <2>2
<1>5. ASSUME NEW p \in Passes, Abandon(p)
      PROVE  \/ ledger'[pr] = ledger[pr]
             \/ ledger[pr].status # "sent" /\ ledger'[pr].status = "failed"
                /\ ledger'[pr].attempts >= ledger[pr].attempts
  <2>1. CASE pr \notin pass[p].drop
    BY <1>5, <2>1 DEF Abandon
  <2>2. CASE pr \in pass[p].drop
    <3>1. pr \in Due(pass[p])
      BY <1>5, <2>2 DEF Abandon, Due
    <3>2. ledger'[pr].status = "failed" /\ ledger'[pr].attempts = MaxAttempts
      BY <1>5, <2>2 DEF Abandon, Marked
    <3>3. ledger[pr].status # "sent"
      BY <1>0, <3>1 DEF Accounted
    <3> QED
      BY <1>1, <3>2, <3>3
  <2> QED
    BY <2>1, <2>2
<1>6. CASE Tick
  <2>1. /\ ledger'[pr].status = ledger[pr].status
        /\ ledger'[pr].attempts = ledger[pr].attempts
    BY <1>0, <1>6 DEF Tick, TypeOK, ClaimRow
  <2> QED
    BY <1>1, <2>1
<1>7. CASE Prune
  BY <1>1, <1>7 DEF Prune, NoClaim
<1>8. CASE ledger' = ledger
  BY <1>1, <1>8
<1>9. \/ \E p \in Passes : Claim(p) \/ MarkSent(p) \/ MarkFailed(p) \/ Abandon(p)
      \/ Tick \/ Prune \/ ledger' = ledger
  BY DEF Next, PassStep, WalkStep, SendStep, SweepStep, Begin, Stop, Fetch, ReadPage,
         ReadFavorites, PlanDevice, SendTickets, SendFails, DropTokens, ReadRetryable,
         ReadSweepTokens, ReadSweepFavorites, FeedChange, Retire, DeviceEdit, Register,
         Unregister, SetPreferences, EditFavorites, tables
<1>10. CASE ledger'[pr] = ledger[pr]
  BY <1>1, <1>10
<1> QED
  BY <1>2, <1>3, <1>4, <1>5, <1>6, <1>7, <1>8, <1>9, <1>10

\* One pass at a time, no retry, sweep or late settle turns a sent row back
\* into one to retry.
THEOREM SentStaysSent ==
  ASSUME \A p, q \in Passes : p = q
  PROVE  Spec => SentIsFinal
<1>1. OnceInv /\ [Next]_vars =>
        [\A pr \in Pairs :
           ledger[pr].status = "sent" => ledger'[pr].status \in {"sent", "none"}]_vars
  BY RowStep
<1> QED
  BY <1>1, OnceInvariant, PTL DEF Spec, SentIsFinal

\* One pass at a time, an unsent claim never regains attempts.
THEOREM AttemptsOnlyGrow ==
  ASSUME \A p, q \in Passes : p = q
  PROVE  Spec => AttemptsNeverDecrease
<1>1. OnceInv /\ [Next]_vars =>
        [\A pr \in Pairs :
           ledger[pr].status # "none" /\ ledger'[pr].status \in {"pending", "failed"}
           => ledger'[pr].attempts >= ledger[pr].attempts]_vars
  BY RowStep
<1> QED
  BY <1>1, OnceInvariant, PTL DEF Spec, AttemptsNeverDecrease

(***************************************************************************)
(* Dead tokens                                                             *)
(***************************************************************************)

LEMMA TokenStep ==
  ASSUME TokenInv, NEW p \in Passes, Begin(p) \/ PassStep(p) \/ Stop(p)
  PROVE  DeadTokens(pass'[p]) \subseteq retired
<1> DEFINE s == pass[p]
<1>0. /\ s \in PassState /\ Orderly(s) /\ TypeOK
      /\ pass'[p] \in PassState /\ Orderly(pass'[p])
      /\ DeadTokens(s) \subseteq retired
  BY PassStepType, StepOrderly DEF TokenInv, OrderlyInv, TypeOK
<1>1. ASSUME NEW t \in PassState, t.outcome = Unsent
      PROVE  DeadTokens(t) = {}
  BY <1>1 DEF DeadTokens, Unsent, PassState
<1>2. ASSUME NEW u \in PassState, Orderly(u), u.pc \in Sending, DeadTokens(u) \subseteq retired
      PROVE  /\ DeadTokens(AfterSent(u)) \subseteq retired
             /\ DeadTokens(AfterFailed(u)) \subseteq retired
             /\ DeadTokens(AfterSend(u)) \subseteq retired
             /\ DeadTokens(EndBatch(u)) \subseteq retired
  <2>1. DeadTokens(EndBatch(u)) = {}
    BY <1>2, SettleCases, EndIsEmpty, EmptyOrderly
  <2>2. ASSUME NEW pc \in PCs
        PROVE  DeadTokens([u EXCEPT !.pc = pc]) = DeadTokens(u)
    BY <1>2 DEF DeadTokens, PassState
  <2> QED
    BY <1>2, <2>1, <2>2, SettleCases DEF PCs
<1>3. CASE pass'[p].pc \notin Sending
  BY <1>0, <1>1, <1>3 DEF Orderly
<1>4. CASE Claim(p)
  <2>1. pass'[p] = IF Won(s.plan) = {} THEN EndPage(s)
                   ELSE [s EXCEPT !.pc = "send", !.plan = {}, !.batch = Won(s.plan)]
    BY <1>0, <1>4, GotoAt DEF Claim
  <2>2. pass'[p].outcome = Unsent
    BY <1>0, <1>4, <2>1, EndFields DEF Claim, Orderly, Sending, PassState
  <2> QED
    BY <1>0, <1>1, <2>2
<1>5. CASE SendTickets(p) \/ SendFails(p)
  <2>1. PICK chunk \in SUBSET {qr \in s.batch : s.outcome[qr] = "unsent"},
             f \in [Pairs -> Outcomes], n \in Nat :
           /\ Goto(p, AfterSend([s EXCEPT !.outcome = f]))
           /\ \A qr \in Pairs :
                IF qr \in chunk
                THEN /\ f[qr] # "unsent"
                     /\ f[qr] = "dead" => s.rows[qr[1]].token \in retired
                     /\ requests'[qr] = requests[qr] + 1
                     /\ blind'[qr] = blind[qr] + n
                     /\ notified'[qr] = notified[qr] + n + (IF f[qr] = "ok" THEN 1 ELSE 0)
                ELSE /\ f[qr] = s.outcome[qr]
                     /\ requests'[qr] = requests[qr] /\ blind'[qr] = blind[qr]
                     /\ notified'[qr] = notified[qr]
    BY <1>0, <1>5, SendOutcome
  <2> DEFINE u == [s EXCEPT !.outcome = f]
  <2>2. s.pc \in Sending
    BY <1>5 DEF SendTickets, SendFails, Sending
  <2>3. /\ u \in PassState /\ u.pc = s.pc /\ u.outcome = f
        /\ u.batch = s.batch /\ u.tried = s.tried /\ u.rows = s.rows
        /\ u.plan = s.plan /\ u.drop = s.drop /\ u.mode = s.mode
    BY <1>0, OutcomeFields
  <2>4. pass'[p] = AfterSend(u)
    BY <1>0, <2>1, GotoAt
  <2> HIDE DEF u
  <2>5. Orderly(u)
    BY <1>0, <2>2, <2>3, StillSending
  <2>6. ASSUME NEW qr \in s.batch, f[qr] = "dead"
        PROVE  s.rows[qr[1]].token \in retired
    <3>1. qr \in Pairs
      BY <1>0 DEF PassState
    <3>2. CASE qr \in chunk
      BY <2>1, <2>6, <3>1, <3>2
    <3>3. CASE qr \notin chunk
      <4>1. s.outcome[qr] = "dead"
        BY <2>1, <2>6, <3>1, <3>3
      <4> QED
        BY <1>0, <4>1 DEF DeadTokens
    <3> QED
      BY <3>2, <3>3
  <2>7. DeadTokens(u) \subseteq retired
    BY <2>3, <2>6 DEF DeadTokens
  <2> QED
    BY <1>2, <2>2, <2>3, <2>4, <2>5, <2>7
<1>6. CASE MarkSent(p)
  BY <1>0, <1>2, <1>6, GotoAt DEF MarkSent, Sending
<1>7. CASE MarkFailed(p)
  BY <1>0, <1>2, <1>7, GotoAt DEF MarkFailed, Sending
<1>8. CASE DropTokens(p)
  BY <1>0, <1>2, <1>8, GotoAt DEF DropTokens, Sending
<1>9. CASE ReadSweepFavorites(p)
  <2>1. PICK u \in PassState : Goto(p, AfterSweepRead(u)) /\ u.outcome = Unsent
    BY <1>0, <1>9, SweepSplit
  <2>2. pass'[p] = AfterSweepRead(u)
    BY <1>0, <2>1, GotoAt
  <2>3. pass'[p].outcome = Unsent
    BY <2>1, <2>2, IdleFields DEF AfterSweepRead, PassState
  <2> QED
    BY <1>0, <1>1, <2>3
<1>10. CASE Abandon(p)
  <2> DEFINE u == [s EXCEPT !.drop = {}]
  <2>1. u \in PassState /\ u.outcome = Unsent
    BY <1>0, <1>10 DEF Abandon, Orderly, Sending, PassState
  <2>2. pass'[p] = AfterSweepRead(u)
    BY <1>0, <1>10, GotoAt DEF Abandon
  <2> HIDE DEF u
  <2>3. pass'[p].outcome = Unsent
    BY <2>1, <2>2, IdleFields DEF AfterSweepRead, PassState
  <2> QED
    BY <1>0, <1>1, <2>3
<1>11. CASE Stop(p)
  <2>1. pass'[p] = Idle
    BY <1>0, <1>11, GotoAt DEF Stop
  <2> QED
    BY <1>0, <1>1, <2>1, IdleFields
<1>12. CASE Begin(p) \/ Fetch(p) \/ ReadPage(p) \/ ReadFavorites(p) \/ PlanDevice(p)
  BY <1>0, <1>3, <1>12, QuietStep, IdleFields DEF Walking, Sending
<1>13. CASE ReadRetryable(p)
  <2>1. PICK wanted, tried :
          Goto(p, IF wanted = {} THEN Idle
                  ELSE [s EXCEPT !.pc = "sweepTokens", !.mode = "sweep", !.plan = wanted,
                                 !.tried = tried])
    BY <1>13 DEF ReadRetryable
  <2>2. pass'[p] = IF wanted = {} THEN Idle
                   ELSE [s EXCEPT !.pc = "sweepTokens", !.mode = "sweep", !.plan = wanted,
                                  !.tried = tried]
    BY <1>0, <2>1, GotoAt
  <2>3. pass'[p].pc \in {"idle", "sweepTokens"}
    BY <1>0, <2>2, IdleFields DEF PassState
  <2> QED
    BY <1>3, <2>3 DEF Sending
<1>14. CASE ReadSweepTokens(p)
  <2>1. PICK rows : Goto(p, [s EXCEPT !.pc = "sweepFavs", !.rows = rows])
    BY <1>14 DEF ReadSweepTokens
  <2>2. pass'[p] = [s EXCEPT !.pc = "sweepFavs", !.rows = rows]
    BY <1>0, <2>1, GotoAt
  <2>3. pass'[p].pc = "sweepFavs"
    BY <1>0, <2>2 DEF PassState
  <2> QED
    BY <1>3, <2>3 DEF Sending
<1> QED
  BY <1>4, <1>5, <1>6, <1>7, <1>8, <1>9, <1>10, <1>11, <1>12, <1>13, <1>14
     DEF PassStep, WalkStep, SendStep, SweepStep

LEMMA TokenNext == TokenInv /\ [Next]_vars => TokenInv'
<1> SUFFICES ASSUME TokenInv, [Next]_vars PROVE TokenInv'
  OBVIOUS
<1>0. OrderlyInv' /\ TypeOK
  BY OrderlyNext DEF TokenInv, OrderlyInv
<1>1. ASSUME NEW p \in Passes, Begin(p) \/ PassStep(p) \/ Stop(p)
      PROVE  TokenInv'
  <2>1. retired' = retired
    BY <1>1 DEF Begin, Stop, PassStep, WalkStep, SendStep, SweepStep, Fetch, ReadPage,
       ReadFavorites, PlanDevice, Claim, SendTickets, SendFails, MarkSent, MarkFailed,
       DropTokens, ReadRetryable, ReadSweepTokens, ReadSweepFavorites, Abandon
  <2>2. PICK t : Goto(p, t)
    BY <1>1, StepGoes
  <2>3. \A q \in Passes : q # p => pass'[q] = pass[q]
    BY <1>0, <2>2, GotoAt
  <2>4. DeadTokens(pass'[p]) \subseteq retired
    BY <1>1, TokenStep
  <2>5. ASSUME NEW q \in Passes
        PROVE  DeadTokens(pass'[q]) \subseteq retired'
    BY <2>1, <2>3, <2>4 DEF TokenInv
  <2> QED
    BY <1>0, <2>5 DEF TokenInv
<1>2. CASE Tick
  <2>1. ASSUME NEW p \in Passes
        PROVE  DeadTokens(pass'[p]) = DeadTokens(pass[p])
    BY <1>0, <1>2, TickFields DEF DeadTokens
  <2> QED
    BY <1>0, <1>2, <2>1 DEF Tick, TokenInv
<1>3. CASE UNCHANGED pass /\ retired \subseteq retired'
  BY <1>0, <1>3 DEF TokenInv
<1> QED
  BY <1>1, <1>2, <1>3 DEF Next, vars, Prune, FeedChange, Retire, DeviceEdit, Register,
     Unregister, SetPreferences, EditFavorites

\* Whatever passes, users and Expo do, a pass calls a token dead only after
\* Expo has retired it.
THEOREM TokenInvariant == Spec => []TokenInv
<1>1. Init => TokenInv
  <2> SUFFICES ASSUME Init PROVE TokenInv
    OBVIOUS
  <2>1. \A p \in Passes : pass[p] = Idle
    BY DEF Init
  <2>2. DeadTokens(Idle) = {}
    BY IdleFields DEF DeadTokens
  <2> QED
    BY <2>1, <2>2, OrderlyInit DEF TokenInv
<1> QED
  BY <1>1, TokenNext, PTL DEF Spec

\* delete_by_tokens removes by value, whoever holds the token now; the row of a
\* device whose token Expo still delivers to goes only when its user unregisters
\* it, however the device re-registered between the send and the deletion.
THEOREM LiveTokenIsKept == Spec => LiveTokenKept
<1>1. ASSUME TokenInv, Next, NEW d \in Devices,
             tokens[d].token \notin retired \cup {NoToken}, tokens'[d].token = NoToken
      PROVE  edits' # edits
  <2>0. edits \in Nat
    BY <1>1, ConstantsAssumption DEF TokenInv, OrderlyInv, TypeOK
  <2>1. tokens' # tokens
    BY <1>1
  <2>2. ASSUME NEW p \in Passes, DropTokens(p)
        PROVE  FALSE
    <3>1. d \in Dropped(pass[p])
      BY <1>1, <2>2 DEF DropTokens
    <3> QED
      BY <1>1, <3>1 DEF Dropped, TokenInv
  <2>3. CASE Edit
    BY <2>0, <2>3 DEF Edit
  <2> QED
    BY <1>1, <2>1, <2>2, <2>3
       DEF Next, PassStep, WalkStep, SendStep, SweepStep, Begin, Stop, Fetch, ReadPage,
           ReadFavorites, PlanDevice, Claim, SendTickets, SendFails, MarkSent, MarkFailed,
           ReadRetryable, ReadSweepTokens, ReadSweepFavorites, Abandon, FeedChange, Retire,
           DeviceEdit, Register, Unregister, SetPreferences, EditFavorites, Tick, Prune, tables
<1>2. TokenInv /\ [Next]_vars =>
        [\A d \in Devices :
           tokens[d].token \notin retired \cup {NoToken} /\ tokens'[d].token = NoToken
           => edits' # edits]_vars
  BY <1>1
<1> QED
  BY <1>2, TokenInvariant, PTL DEF Spec, LiveTokenKept

(***************************************************************************)
(* The sweep and the claims of other passes                                *)
(***************************************************************************)

\* Settling a batch keeps what the pass has taken, or ends it.
LEMMA SettleTaken ==
  ASSUME NEW s \in PassState, Orderly(s), s.pc \in Sending,
         NEW t \in {AfterSent(s), AfterFailed(s), AfterSend(s), EndBatch(s)}
  PROVE  \/ Taken(t) = {}
         \/ Taken(t) = Taken(s) /\ t.ticks = s.ticks
<1>1. Taken(EndBatch(s)) = {}
  BY SettleCases, EndIsEmpty, EmptyOrderly
<1>2. ASSUME NEW pc \in PCs
      PROVE  LET u == [s EXCEPT !.pc = pc] IN Taken(u) = Taken(s) /\ u.ticks = s.ticks
  BY DEF Taken, PassState
<1>3. CASE t \in {AfterSent(s), AfterFailed(s), EndBatch(s)}
  BY <1>1, <1>2, <1>3, SettleCases DEF PCs
<1>4. CASE t = AfterSend(s) /\ t # AfterSent(s)
  BY <1>2, <1>4, SettleCases DEF PCs
<1> QED
  BY <1>3, <1>4

LEMMA SweepReadTaken ==
  ASSUME NEW s \in PassState
  PROVE  /\ Taken(AfterSweepRead(s)) \subseteq s.plan \cup s.drop \cup s.batch
         /\ Taken(AfterSweepRead(s)) # {} => AfterSweepRead(s).ticks = s.ticks
<1>1. Taken(Idle) = {}
  BY IdleFields DEF Taken
<1>2. ASSUME NEW pc \in PCs
      PROVE  LET u == [s EXCEPT !.pc = pc]
             IN  Taken(u) \subseteq s.plan \cup s.drop \cup s.batch /\ u.ticks = s.ticks
  BY DEF Taken, PassState
<1> QED
  BY <1>1, <1>2 DEF AfterSweepRead, PCs

\* Only the retryable query puts rows in a sweep's hands.
LEMMA TakesLess ==
  ASSUME OrderlyInv, NEW p \in Passes, Begin(p) \/ PassStep(p) \/ Stop(p), ~ReadRetryable(p)
  PROVE  /\ Taken(pass'[p]) \subseteq Taken(pass[p])
         /\ Taken(pass'[p]) # {} => pass'[p].ticks = pass[p].ticks
<1> DEFINE s == pass[p]
<1>0. /\ s \in PassState /\ Orderly(s) /\ TypeOK
      /\ pass'[p] \in PassState /\ Orderly(pass'[p])
  BY PassStepType, StepOrderly DEF OrderlyInv, TypeOK
<1>1. ASSUME pass'[p].mode = "walk"
      PROVE  Taken(pass'[p]) = {}
  BY <1>1 DEF Taken
<1>2. CASE Begin(p) \/ Fetch(p) \/ ReadPage(p) \/ ReadFavorites(p) \/ PlanDevice(p)
  BY <1>0, <1>1, <1>2, QuietStep, IdleFields DEF Orderly
<1>3. CASE Claim(p)
  <2>1. pass'[p] = IF Won(s.plan) = {} THEN EndPage(s)
                   ELSE [s EXCEPT !.pc = "send", !.plan = {}, !.batch = Won(s.plan)]
    BY <1>0, <1>3, GotoAt DEF Claim
  <2>2. pass'[p].mode = "walk"
    BY <1>0, <1>3, <2>1, EndFields DEF Claim, Orderly, Walking, PassState
  <2> QED
    BY <1>1, <2>2
<1>4. CASE SendTickets(p) \/ SendFails(p)
  <2>1. PICK f \in [Pairs -> Outcomes] : Goto(p, AfterSend([s EXCEPT !.outcome = f]))
    BY <1>0, <1>4, SendOutcome
  <2> DEFINE u == [s EXCEPT !.outcome = f]
  <2>2. s.pc \in Sending
    BY <1>4 DEF SendTickets, SendFails, Sending
  <2>3. /\ u \in PassState /\ u.pc = s.pc /\ u.outcome = f
        /\ u.batch = s.batch /\ u.tried = s.tried /\ u.ticks = s.ticks
        /\ u.plan = s.plan /\ u.drop = s.drop /\ u.mode = s.mode
    BY <1>0, OutcomeFields
  <2>4. pass'[p] = AfterSend(u)
    BY <1>0, <2>1, GotoAt
  <2> HIDE DEF u
  <2>5. Orderly(u)
    BY <1>0, <2>2, <2>3, StillSending
  <2>6. Taken(u) = Taken(s)
    BY <2>3 DEF Taken
  <2> QED
    BY <2>2, <2>3, <2>4, <2>5, <2>6, SettleTaken
<1>5. CASE MarkSent(p) \/ MarkFailed(p) \/ DropTokens(p)
  <2>1. s.pc \in Sending
    BY <1>5 DEF MarkSent, MarkFailed, DropTokens, Sending
  <2>2. pass'[p] \in {AfterSent(s), AfterFailed(s), AfterSend(s), EndBatch(s)}
    BY <1>0, <1>5, GotoAt DEF MarkSent, MarkFailed, DropTokens
  <2> QED
    BY <1>0, <2>1, <2>2, SettleTaken
<1>6. CASE ReadSweepTokens(p)
  <2>1. PICK rows : Goto(p, [s EXCEPT !.pc = "sweepFavs", !.rows = rows])
    BY <1>6 DEF ReadSweepTokens
  <2>2. pass'[p] = [s EXCEPT !.pc = "sweepFavs", !.rows = rows]
    BY <1>0, <2>1, GotoAt
  <2> QED
    BY <1>0, <2>2 DEF Taken, PassState
<1>7. CASE ReadSweepFavorites(p)
  <2>1. PICK u \in PassState :
           /\ Goto(p, AfterSweepRead(u))
           /\ u.plan = {} /\ u.outcome = Unsent
           /\ u.drop \subseteq s.plan /\ u.batch \subseteq s.plan
           /\ u.drop \cap u.batch = {}
           /\ u.mode = s.mode /\ u.tried = s.tried
           /\ u.ticks = s.ticks
    BY <1>0, <1>7, SweepSplit
  <2>2. pass'[p] = AfterSweepRead(u) /\ s.mode = "sweep"
    BY <1>0, <1>7, <2>1, GotoAt DEF ReadSweepFavorites, Orderly
  <2> QED
    BY <2>1, <2>2, SweepReadTaken DEF Taken
<1>8. CASE Abandon(p)
  <2> DEFINE u == [s EXCEPT !.drop = {}]
  <2>1. u \in PassState /\ u.plan = s.plan /\ u.mode = s.mode
        /\ u.drop = {} /\ u.batch = s.batch /\ u.ticks = s.ticks
    BY <1>0 DEF PassState
  <2>2. pass'[p] = AfterSweepRead(u)
    BY <1>0, <1>8, GotoAt DEF Abandon
  <2> HIDE DEF u
  <2>3. s.mode = "sweep"
    BY <1>0, <1>8 DEF Abandon, Orderly
  <2> QED
    BY <2>1, <2>2, <2>3, SweepReadTaken DEF Taken
<1>9. CASE Stop(p)
  BY <1>0, <1>1, <1>9, GotoAt, IdleFields DEF Stop
<1> QED
  BY <1>2, <1>3, <1>4, <1>5, <1>6, <1>7, <1>8, <1>9
     DEF PassStep, WalkStep, SendStep, SweepStep

\* What a pass holds as a walk after a step it held before, or has just claimed.
LEMMA WalkHolds ==
  ASSUME ClaimInv, NEW p \in Passes, Begin(p) \/ PassStep(p) \/ Stop(p),
         pass'[p].mode = "walk", NEW pr \in pass'[p].batch
  PROVE  (pass[p].mode = "walk" /\ pr \in pass[p].batch) \/ ledger'[pr].age = 0
<1>0. TypeOK /\ pass[p] \in PassState
  BY DEF ClaimInv, TypeOK
<1>1. CASE Claim(p)
  <2>1. pass'[p] = IF Won(pass[p].plan) = {} THEN EndPage(pass[p])
                   ELSE [pass[p] EXCEPT !.pc = "send", !.plan = {}, !.batch = Won(pass[p].plan)]
    BY <1>0, <1>1, GotoAt DEF Claim
  <2>2. pr \in Won(pass[p].plan)
    BY <1>0, <2>1, EndFields DEF PassState
  <2>3. pr \in Pairs
    BY <1>0, <2>2 DEF Won, PassState
  <2> QED
    BY <1>1, <2>2, <2>3 DEF Claim
<1>2. CASE ~Claim(p)
  <2>1. PICK t \in PassState : Goto(p, t) /\ Tame(pass[p], t)
    BY <1>2, TameSteps DEF PassStep, WalkStep
  <2>2. pass'[p] = t
    BY <1>0, <2>1, GotoAt
  <2> QED
    BY <2>1, <2>2 DEF Tame
<1> QED
  BY <1>1, <1>2

\* No step of a pass, and no pruning, makes a row older.
LEMMA NeverOlder ==
  ASSUME TypeOK, NEW pr \in Pairs,
         Prune \/ \E p \in Passes : Begin(p) \/ PassStep(p) \/ Stop(p)
  PROVE  ledger'[pr].age <= ledger[pr].age
<1>1. ledger[pr].age \in Nat
  BY ConstantsAssumption DEF TypeOK, ClaimRow
<1>2. CASE Prune
  BY <1>1, <1>2 DEF Prune, NoClaim
<1>3. ASSUME NEW p \in Passes, Claim(p)
      PROVE  ledger'[pr] = ledger[pr] \/ ledger'[pr].age = 0
  BY <1>3 DEF Claim
<1>4. ASSUME NEW p \in Passes, MarkSent(p) \/ MarkFailed(p) \/ Abandon(p)
      PROVE  ledger'[pr].age = ledger[pr].age
  BY <1>4 DEF MarkSent, MarkFailed, Abandon, Marked
<1>5. \/ Prune \/ ledger' = ledger
      \/ \E p \in Passes : Claim(p) \/ MarkSent(p) \/ MarkFailed(p) \/ Abandon(p)
  BY DEF PassStep, WalkStep, SendStep, SweepStep, Begin, Stop, Fetch, ReadPage,
     ReadFavorites, PlanDevice, SendTickets, SendFails, DropTokens, ReadRetryable,
     ReadSweepTokens, ReadSweepFavorites, tables
<1> QED
  BY <1>1, <1>2, <1>3, <1>4, <1>5

\* What the retryable query may put in a sweep's hands no walk holds: its rows
\* are older than one interval, and so older than any pass.
LEMMA RetryableUnheld ==
  ASSUME ClaimInv, PassTime <= Interval, NEW p \in Passes, pass[p].mode = "walk"
  PROVE  pass[p].batch \cap Retryable = {}
<1> SUFFICES ASSUME NEW pr \in pass[p].batch, pr \in Retryable PROVE FALSE
  OBVIOUS
<1>1. pass[p].ticks \in 0..PassTime /\ pr \in Pairs /\ ledger[pr].age \in 0..MaxAge
  BY DEF ClaimInv, TypeOK, PassState, ClaimRow, Retryable
<1>2. ledger[pr].age <= pass[p].ticks
  BY DEF ClaimInv, Owned
<1>3. ledger[pr].age > Interval
  BY DEF Retryable
<1> QED
  BY <1>1, <1>2, <1>3, ConstantsAssumption

LEMMA SweepReadsRetryable ==
  ASSUME OrderlyInv, NEW p \in Passes, ReadRetryable(p)
  PROVE  Taken(pass'[p]) \subseteq Retryable
<1> DEFINE s == pass[p]
<1>0. s \in PassState /\ Orderly(s) /\ TypeOK
  BY DEF OrderlyInv, TypeOK
<1>1. PICK wanted, tried :
        /\ wanted \in SUBSET Retryable
        /\ Goto(p, IF wanted = {} THEN Idle
                   ELSE [s EXCEPT !.pc = "sweepTokens", !.mode = "sweep", !.plan = wanted,
                                  !.tried = tried])
  BY DEF ReadRetryable
<1>2. pass'[p] = IF wanted = {} THEN Idle
                 ELSE [s EXCEPT !.pc = "sweepTokens", !.mode = "sweep", !.plan = wanted,
                                !.tried = tried]
  BY <1>0, <1>1, GotoAt
<1>3. s.drop = {} /\ s.batch = {}
  BY <1>0 DEF ReadRetryable, Orderly, Sending
<1> QED
  BY <1>0, <1>1, <1>2, <1>3, IdleFields DEF Taken, PassState

\* A step of one pass does not make a sweep hold a claim of a walk.
LEMMA SparedStep ==
  ASSUME SweepInv, PassTime <= Interval,
         NEW r \in Passes, Begin(r) \/ PassStep(r) \/ Stop(r)
  PROVE  Spared'
<1>0. /\ TypeOK /\ ClaimInv /\ OrderlyInv /\ Spared
      /\ \A q \in Passes : pass[q] \in PassState /\ pass'[q] \in PassState
  BY PassStepType DEF SweepInv, ClaimInv, TypeOK
<1>1. \A q \in Passes : q # r => pass'[q] = pass[q]
  <2>1. PICK t : Goto(r, t)
    BY StepGoes
  <2> QED
    BY <1>0, <2>1, GotoAt
<1> SUFFICES ASSUME NEW p \in Passes, NEW q \in Passes, p # q, pass'[p].mode = "walk",
                    NEW pr \in pass'[p].batch \cap Taken(pass'[q])
             PROVE  ledger'[pr].age <= pass'[q].ticks
  BY <1>0 DEF Spared, Taken
<1>2. pr \in Pairs /\ pass'[q].ticks \in Nat /\ ledger[pr].age \in Nat /\ ledger'[pr].age \in Nat
      /\ ledger'[pr].age <= ledger[pr].age
  <2>1. pr \in Pairs
    BY <1>0 DEF PassState
  <2>2. TypeOK'
    BY <1>0, PassStepType
  <2> QED
    BY <1>0, <2>1, <2>2, NeverOlder, ConstantsAssumption DEF TypeOK, ClaimRow, PassState
<1>3. CASE ledger'[pr].age = 0
  BY <1>2, <1>3
<1>4. CASE ledger'[pr].age # 0
  <2>1. pass[p].mode = "walk" /\ pr \in pass[p].batch
    BY <1>0, <1>1, <1>4, WalkHolds
  <2>2. CASE q = r /\ ReadRetryable(r)
    BY <1>0, <2>1, <2>2, SweepReadsRetryable, RetryableUnheld
  <2>3. CASE ~(q = r /\ ReadRetryable(r))
    <3>1. pr \in Taken(pass[q]) /\ pass'[q].ticks = pass[q].ticks
      BY <1>0, <1>1, <2>3, TakesLess
    <3>2. ledger[pr].age <= pass[q].ticks
      BY <1>0, <2>1, <3>1 DEF Spared
    <3> QED
      BY <1>2, <3>1, <3>2
  <2> QED
    BY <2>2, <2>3
<1> QED
  BY <1>3, <1>4

\* The clock ages a row and the passes that hold it together.
LEMMA SparedTick ==
  ASSUME SweepInv, Tick
  PROVE  Spared'
<1>0. TypeOK /\ OrderlyInv /\ Spared /\ \A q \in Passes : pass[q] \in PassState /\ Orderly(pass[q])
  BY DEF SweepInv, OrderlyInv, TypeOK
<1> SUFFICES ASSUME NEW p \in Passes, NEW q \in Passes, p # q, pass'[p].mode = "walk",
                    NEW pr \in pass'[p].batch \cap Taken(pass'[q])
             PROVE  ledger'[pr].age <= pass'[q].ticks
  BY DEF Spared, Taken
<1>1. pass[p].mode = "walk" /\ pr \in pass[p].batch /\ pr \in Taken(pass[q])
  BY <1>0, TickFields DEF Taken
<1>2. pass[q].pc # "idle"
  BY <1>0, <1>1 DEF Orderly, Taken, Sending
<1>3. pass'[q].ticks = pass[q].ticks + 1
  BY <1>0, <1>2, TickFields
<1>4. pr \in Pairs /\ pass[q].ticks \in Nat /\ ledger[pr].age \in Nat
  BY <1>0, <1>1, ConstantsAssumption DEF PassState, TypeOK, ClaimRow
<1>5. ledger'[pr].age <= ledger[pr].age + 1 /\ ledger'[pr].age \in Nat
  BY <1>0, <1>4, ConstantsAssumption DEF Tick, TypeOK, ClaimRow, Least
<1>6. ledger[pr].age <= pass[q].ticks
  BY <1>0, <1>1 DEF Spared
<1> QED
  BY <1>3, <1>4, <1>5, <1>6

LEMMA SweepNext ==
  ASSUME PassTime <= Interval, SweepInv, [Next]_vars
  PROVE  SweepInv'
<1>0. ClaimInv' /\ OrderlyInv' /\ TypeOK /\ Spared
      /\ \A p \in Passes : pass[p] \in PassState
  BY ClaimInvNext, OrderlyNext DEF SweepInv, OrderlyInv, TypeOK
<1>1. CASE \E p \in Passes : Begin(p) \/ PassStep(p) \/ Stop(p)
  BY <1>0, <1>1, SparedStep DEF SweepInv
<1>2. CASE Tick
  BY <1>0, <1>2, SparedTick DEF SweepInv
<1>3. CASE Prune
  <2>1. pass' = pass
    BY <1>3 DEF Prune
  <2>2. ASSUME NEW pr \in Pairs, NEW n \in Nat, ledger[pr].age <= n
        PROVE  ledger'[pr].age <= n
    BY <1>3, <2>2 DEF Prune, NoClaim
  <2>3. Spared'
    BY <1>0, <2>1, <2>2, ConstantsAssumption DEF Spared, PassState
  <2> QED
    BY <1>0, <2>3 DEF SweepInv
<1>4. CASE UNCHANGED <<ledger, pass>>
  <2>1. Spared'
    BY <1>0, <1>4 DEF Spared
  <2> QED
    BY <1>0, <2>1 DEF SweepInv
<1> QED
  BY <1>1, <1>2, <1>3, <1>4, StepKinds

\* What the sweeps of other passes may hold, for passes that end within one
\* dispatch interval (see SweepInv).
THEOREM SweepInvariant ==
  ASSUME PassTime <= Interval
  PROVE  Spec => []SweepInv
<1>1. Init => SweepInv
  <2> SUFFICES ASSUME Init PROVE SweepInv
    OBVIOUS
  <2>1. \A p \in Passes : pass[p].batch = {}
    BY IdleFields DEF Init
  <2>2. Spared
    BY <2>1 DEF Spared
  <2> QED
    BY <2>2, ClaimInvInit, OrderlyInit DEF SweepInv
<1>2. SweepInv /\ [Next]_vars => SweepInv'
  BY SweepNext
<1> QED
  BY <1>1, <1>2, PTL DEF Spec

\* stale_after_seconds does what it is for: with any number of workers and
\* replicas, if no pass outlasts a dispatch interval, no sweep re-sends what
\* another pass has claimed and is still sending, but for a row that retention
\* removed under the sweep.
THEOREM FreshClaimsAreSpared ==
  ASSUME PassTime <= Interval
  PROVE  Spec => []SweepSparesFreshClaims
<1>1. SweepInv => SweepSparesFreshClaims
  <2> SUFFICES ASSUME SweepInv, NEW p \in Passes, NEW q \in Passes, p # q,
                      pass[p].mode = "walk", NEW pr \in pass[p].batch \cap pass[q].batch
               PROVE  ledger[pr].age <= pass[q].ticks
    BY DEF SweepSparesFreshClaims
  <2>1. pass[q].mode # "walk"
    BY DEF SweepInv, ClaimInv, ClaimExclusive
  <2>2. pass[q].mode = "sweep"
    BY <2>1 DEF SweepInv, ClaimInv, TypeOK, PassState
  <2> QED
    BY <2>2 DEF SweepInv, Spared, Taken
<1> QED
  BY <1>1, SweepInvariant, PTL

(***************************************************************************)
(* The volume cap                                                          *)
(***************************************************************************)

LEMMA RecentFinite ==
  ASSUME NEW d
  PROVE  /\ IsFiniteSet(Recent(d)) /\ Cardinality(Recent(d)) \in Nat
         /\ IsFiniteSet(Recent(d))' /\ Cardinality(Recent(d))' \in Nat
<1>1. Recent(d) \subseteq Events /\ Recent(d)' \subseteq Events
  BY DEF Recent
<1> QED
  BY <1>1, ConstantsAssumption, FS_Subset, FS_CardinalityType

\* A row counts until it is pruned or too old: only a claim adds to the count.
LEMMA RecentShrinks ==
  ASSUME NEW d \in Devices,
         \A e \in Events : ledger'[<<d, e>>].status # "none" /\ ledger'[<<d, e>>].age <= VolumeWindow
            => ledger[<<d, e>>].status # "none" /\ ledger[<<d, e>>].age <= VolumeWindow
  PROVE  Cardinality(Recent(d))' <= Cardinality(Recent(d))
<1>1. Recent(d)' \subseteq Recent(d)
  BY DEF Recent
<1> QED
  BY <1>1, RecentFinite, FS_Subset

\* The plan of one device takes no more than its budget.
LEMMA BudgetSuffices ==
  ASSUME NEW d, NEW top, NEW C \in SUBSET Events, top \subseteq C,
         IsTop(top, C, Budget(d)), top # {}
  PROVE  Cardinality(Recent(d)) + Cardinality(top) <= Cap
<1>1. IsFiniteSet(C) /\ IsFiniteSet(top)
  BY ConstantsAssumption, FS_Subset
<1>2. Cardinality(C) \in Nat /\ Cardinality(top) \in Nat /\ Cardinality(top) # 0
  BY <1>1, FS_CardinalityType, FS_EmptySet
<1>3. Cardinality(Recent(d)) \in Nat /\ Cap \in Nat
  BY RecentFinite, ConstantsAssumption
<1>4. Budget(d) \in Nat /\ Cardinality(top) <= Budget(d)
  BY <1>2, <1>3 DEF IsTop, Least, Budget
<1> QED
  BY <1>2, <1>3, <1>4 DEF Budget

\* After the claim a pass plans no more.
LEMMA PastPlanning ==
  ASSUME OrderlyInv, NEW p \in Passes, Claim(p) \/ SendStep(p) \/ SweepStep(p) \/ Stop(p)
  PROVE  pass'[p].pc \notin {"plan", "claim"}
<1> DEFINE s == pass[p]
<1>0. s \in PassState /\ Orderly(s) /\ TypeOK
  BY DEF OrderlyInv, TypeOK
<1>1. ASSUME NEW u \in PassState, Orderly(u), u.pc \in Sending,
             NEW t \in {AfterSent(u), AfterFailed(u), AfterSend(u), EndBatch(u)}
      PROVE  t.pc \notin {"plan", "claim"}
  <2>1. EndBatch(u).pc \notin {"plan", "claim"}
    BY <1>1, SettleCases, EndIsEmpty DEF Empty
  <2>2. ASSUME NEW pc \in PCs
        PROVE  [u EXCEPT !.pc = pc].pc = pc
    BY <1>1 DEF PassState
  <2>3. AfterSent(u).pc \notin {"plan", "claim"}
    BY <1>1, <2>1, <2>2, SettleCases DEF PCs
  <2>4. AfterFailed(u).pc \notin {"plan", "claim"}
    BY <1>1, <2>1, <2>2, SettleCases DEF PCs
  <2>5. AfterSend(u).pc \notin {"plan", "claim"}
    BY <1>1, <2>2, <2>3, SettleCases DEF PCs, Sending
  <2> QED
    BY <1>1, <2>1, <2>3, <2>4, <2>5
<1>2. ASSUME NEW u \in PassState
      PROVE  AfterSweepRead(u).pc \notin {"plan", "claim"}
             \/ AfterSweepRead(u) = Idle
  BY <1>2 DEF AfterSweepRead, PassState
<1>3. CASE Claim(p)
  <2>1. pass'[p] = IF Won(s.plan) = {} THEN EndPage(s)
                   ELSE [s EXCEPT !.pc = "send", !.plan = {}, !.batch = Won(s.plan)]
    BY <1>0, <1>3, GotoAt DEF Claim
  <2> QED
    BY <1>0, <2>1, EndFields DEF PassState
<1>4. CASE SendTickets(p) \/ SendFails(p)
  <2>1. PICK f \in [Pairs -> Outcomes] : Goto(p, AfterSend([s EXCEPT !.outcome = f]))
    BY <1>0, <1>4, SendOutcome
  <2> DEFINE u == [s EXCEPT !.outcome = f]
  <2>2. s.pc \in Sending
    BY <1>4 DEF SendTickets, SendFails, Sending
  <2>3. /\ u \in PassState /\ u.pc = s.pc /\ u.outcome = f
        /\ u.batch = s.batch /\ u.tried = s.tried /\ u.ticks = s.ticks
        /\ u.plan = s.plan /\ u.drop = s.drop /\ u.mode = s.mode
    BY <1>0, OutcomeFields
  <2>4. pass'[p] = AfterSend(u)
    BY <1>0, <2>1, GotoAt
  <2> HIDE DEF u
  <2>5. Orderly(u)
    BY <1>0, <2>2, <2>3, StillSending
  <2> QED
    BY <1>1, <2>2, <2>3, <2>4, <2>5
<1>5. CASE MarkSent(p) \/ MarkFailed(p) \/ DropTokens(p)
  <2>1. s.pc \in Sending
    BY <1>5 DEF MarkSent, MarkFailed, DropTokens, Sending
  <2>2. pass'[p] \in {AfterSent(s), AfterFailed(s), AfterSend(s), EndBatch(s)}
    BY <1>0, <1>5, GotoAt DEF MarkSent, MarkFailed, DropTokens
  <2> QED
    BY <1>0, <1>1, <2>1, <2>2
<1>6. CASE ReadRetryable(p)
  <2>1. PICK wanted, tried :
          Goto(p, IF wanted = {} THEN Idle
                  ELSE [s EXCEPT !.pc = "sweepTokens", !.mode = "sweep", !.plan = wanted,
                                 !.tried = tried])
    BY <1>6 DEF ReadRetryable
  <2>2. pass'[p] = IF wanted = {} THEN Idle
                   ELSE [s EXCEPT !.pc = "sweepTokens", !.mode = "sweep", !.plan = wanted,
                                  !.tried = tried]
    BY <1>0, <2>1, GotoAt
  <2> QED
    BY <1>0, <2>2, IdleFields DEF PassState
<1>7. CASE ReadSweepTokens(p)
  <2>1. PICK rows : Goto(p, [s EXCEPT !.pc = "sweepFavs", !.rows = rows])
    BY <1>7 DEF ReadSweepTokens
  <2>2. pass'[p] = [s EXCEPT !.pc = "sweepFavs", !.rows = rows]
    BY <1>0, <2>1, GotoAt
  <2> QED
    BY <1>0, <2>2 DEF PassState
<1>8. CASE ReadSweepFavorites(p)
  <2>1. PICK u \in PassState : Goto(p, AfterSweepRead(u))
    BY <1>0, <1>8, SweepSplit
  <2> QED
    BY <1>0, <1>2, <2>1, GotoAt, IdleFields
<1>9. CASE Abandon(p)
  <2> DEFINE u == [s EXCEPT !.drop = {}]
  <2>1. u \in PassState
    BY <1>0 DEF PassState
  <2>2. pass'[p] = AfterSweepRead(u)
    BY <1>0, <1>9, GotoAt DEF Abandon
  <2> QED
    BY <1>2, <2>1, <2>2, IdleFields
<1>10. CASE Stop(p)
  BY <1>0, <1>10, GotoAt, IdleFields DEF Stop
<1> QED
  BY <1>3, <1>4, <1>5, <1>6, <1>7, <1>8, <1>9, <1>10 DEF SendStep, SweepStep

\* The only pass never plans more than the cap leaves.
LEMMA CapStep ==
  ASSUME CapInv, NEW p \in Passes, Begin(p) \/ PassStep(p) \/ Stop(p)
  PROVE  WithinCap(pass[p])'
<1> DEFINE s == pass[p]
<1>0. s \in PassState /\ Orderly(s) /\ TypeOK /\ OrderlyInv /\ WithinCap(s)
  BY DEF CapInv, OrderlyInv, TypeOK
<1>1. CASE pass'[p].pc \notin {"plan", "claim"}
  BY <1>1 DEF WithinCap
<1>2. CASE ReadFavorites(p)
  <2>1. PICK favs : Goto(p, [s EXCEPT !.pc = "plan", !.favs = favs])
    BY <1>2 DEF ReadFavorites
  <2>2. pass'[p] = [s EXCEPT !.pc = "plan", !.favs = favs]
    BY <1>0, <2>1, GotoAt
  <2>3. pass'[p].plan = {}
    BY <1>0, <1>2, <2>2 DEF ReadFavorites, Orderly, PassState
  <2>4. \A d \in Devices : Planned(pass'[p], d) = {}
    BY <2>3 DEF Planned
  <2> QED
    BY <2>3, <2>4 DEF WithinCap
<1>3. CASE PlanDevice(p)
  <2>1. PICK d \in s.todo :
          \E top \in SUBSET Audible(s.rows[d], s.favs[d], s.seen, s.now) :
            /\ IsTop(top, Audible(s.rows[d], s.favs[d], s.seen, s.now), Budget(d))
            /\ LET plan == s.plan \cup ({d} \X top) IN
               Goto(p, IF s.todo # {d}
                         THEN [s EXCEPT !.todo = @ \ {d}, !.plan = plan]
                       ELSE IF plan = {} THEN EndPage(s)
                       ELSE [s EXCEPT !.pc = "claim", !.todo = {}, !.plan = plan])
    BY <1>3 DEF PlanDevice
  <2> DEFINE C == Audible(s.rows[d], s.favs[d], s.seen, s.now)
  <2>2. PICK top \in SUBSET C :
            /\ IsTop(top, C, Budget(d))
            /\ LET plan == s.plan \cup ({d} \X top) IN
               Goto(p, IF s.todo # {d}
                         THEN [s EXCEPT !.todo = @ \ {d}, !.plan = plan]
                       ELSE IF plan = {} THEN EndPage(s)
                       ELSE [s EXCEPT !.pc = "claim", !.todo = {}, !.plan = plan])
    BY <2>1
  <2> DEFINE plan == s.plan \cup ({d} \X top)
  <2>3. C \in SUBSET Events
    BY <1>0 DEF Audible, Candidates, PassState
  <2>4. s.pc = "plan" /\ d \in Devices /\ s.plan \subseteq Pairs
    BY <1>0, <1>3 DEF PlanDevice, PassState
  <2>5. pass'[p] = IF s.todo # {d} THEN [s EXCEPT !.todo = @ \ {d}, !.plan = plan]
                   ELSE IF plan = {} THEN EndPage(s)
                   ELSE [s EXCEPT !.pc = "claim", !.todo = {}, !.plan = plan]
    BY <1>0, <2>2, GotoAt
  <2>6. \/ pass'[p].plan = plan /\ pass'[p].todo = s.todo \ {d}
        \/ pass'[p].pc \in {"sweep", "page"}
    BY <1>0, <2>5, EndFields DEF PassState
  <2>7. ASSUME pass'[p].plan = plan, pass'[p].todo = s.todo \ {d}
        PROVE  WithinCap(pass[p])'
    <3>1. \A pr \in s.plan : pr[1] \notin s.todo
      BY <1>0, <2>4 DEF WithinCap
    <3>2. \A pr \in plan : pr[1] \notin s.todo \ {d}
      BY <3>1
    <3>3. \A c \in Devices : Recent(c)' = Recent(c)
      BY <1>3 DEF PlanDevice, tables, Recent
    <3>4. Planned(s, d) = {}
      BY <3>1, <2>1 DEF Planned
    <3>5. Planned(pass'[p], d) = top
      BY <2>3, <2>7, <3>4 DEF Planned
    <3>6. \A c \in Devices : c # d => Planned(pass'[p], c) = Planned(s, c)
      BY <2>7 DEF Planned
    <3>7. top # {} => Cardinality(Recent(d)) + Cardinality(top) <= Cap
      BY <2>2, <2>3, BudgetSuffices
    <3>8. ASSUME NEW c \in Devices, Planned(pass'[p], c) # {}
          PROVE  Cardinality(Recent(c)') + Cardinality(Planned(pass'[p], c)) <= Cap
      <4>1. CASE c = d
        BY <3>3, <3>5, <3>7, <3>8, <4>1
      <4>2. CASE c # d
        BY <1>0, <2>4, <3>3, <3>6, <3>8, <4>2 DEF WithinCap
      <4> QED
        BY <4>1, <4>2
    <3> HIDE DEF plan
    <3> QED
      BY <2>7, <3>2, <3>8 DEF WithinCap
  <2> HIDE DEF plan
  <2> QED
    BY <1>1, <2>6, <2>7
<1> QED
  BY <1>0, <1>1, <1>2, <1>3, QuietStep, PastPlanning DEF PassStep, WalkStep

LEMMA CapNext ==
  ASSUME \A p, q \in Passes : p = q, CapInv, [Next]_vars
  PROVE  CapInv'
<1>0. OrderlyInv' /\ TypeOK /\ OrderlyInv
  BY OrderlyNext DEF CapInv, OrderlyInv
<1>1. CASE \E p \in Passes : Begin(p) \/ PassStep(p) \/ Stop(p)
  BY <1>0, <1>1, CapStep DEF CapInv
<1>2. ASSUME \/ Tick \/ Prune \/ UNCHANGED <<ledger, pass, requests, notified, lost, blind>>,
             NEW p \in Passes
      PROVE  WithinCap(pass[p])'
  <2>1. \A d \in Devices : Cardinality(Recent(d))' <= Cardinality(Recent(d))
    <3> SUFFICES ASSUME NEW d \in Devices, NEW e \in Events,
                        ledger'[<<d, e>>].status # "none", ledger'[<<d, e>>].age <= VolumeWindow
                 PROVE  ledger[<<d, e>>].status # "none" /\ ledger[<<d, e>>].age <= VolumeWindow
      BY RecentShrinks
    <3> DEFINE pr == <<d, e>>
    <3>1. pr \in Pairs /\ ledger[pr] \in ClaimRow
      BY <1>0 DEF Pairs, TypeOK
    <3> HIDE DEF pr
    <3>2. CASE Tick
      <4>1. ledger'[pr] = IF ledger[pr].status = "none" THEN ledger[pr]
                          ELSE [ledger[pr] EXCEPT !.age = Least(@ + 1, MaxAge)]
        BY <3>1, <3>2 DEF Tick
      <4>2. ledger[pr].age \in 0..MaxAge /\ VolumeWindow \in Nat /\ MaxAge \in Nat
            /\ VolumeWindow < MaxAge
        BY <3>1, ConstantsAssumption DEF ClaimRow
      <4>3. ledger'[pr].status = ledger[pr].status /\ ledger[pr].age <= VolumeWindow
        BY <3>1, <4>1, <4>2 DEF Least, ClaimRow, pr
      <4> QED
        BY <4>3 DEF pr
    <3>3. CASE Prune
      <4>1. ledger'[pr] = ledger[pr] \/ ledger'[pr].status = "none"
        BY <3>1, <3>3 DEF Prune, NoClaim
      <4> QED
        BY <4>1 DEF pr
    <3>4. CASE ledger' = ledger
      BY <3>4
    <3> QED
      BY <1>2, <3>2, <3>3, <3>4
  <2>2. /\ pass'[p].pc = pass[p].pc /\ pass'[p].plan = pass[p].plan
        /\ pass'[p].todo = pass[p].todo
    BY <1>0, <1>2, TickFields DEF Prune
  <2>3. \A d \in Devices : Planned(pass'[p], d) = Planned(pass[p], d)
    BY <2>2 DEF Planned
  <2>4. \A d \in Devices : Cardinality(Planned(pass[p], d)) \in Nat
    <3>1. \A d \in Devices : Planned(pass[p], d) \subseteq Events
      BY DEF Planned
    <3> QED
      BY <3>1, ConstantsAssumption, FS_Subset, FS_CardinalityType
  <2>5. WithinCap(pass[p])
    BY DEF CapInv
  <2>6. ASSUME pass[p].pc \in {"plan", "claim"}, NEW d \in Devices, Planned(pass[p], d) # {}
        PROVE  Cardinality(Recent(d)') + Cardinality(Planned(pass[p], d)) <= Cap
    <3>1. Cardinality(Recent(d)) + Cardinality(Planned(pass[p], d)) <= Cap
      BY <2>5, <2>6 DEF WithinCap
    <3>2. /\ Cardinality(Recent(d)) \in Nat /\ Cardinality(Recent(d)') \in Nat
          /\ Cardinality(Recent(d)') <= Cardinality(Recent(d))
      BY <2>1, RecentFinite
    <3> QED
      BY <2>4, <3>1, <3>2, ConstantsAssumption
  <2> QED
    BY <2>2, <2>3, <2>5, <2>6 DEF WithinCap
<1> QED
  BY <1>0, <1>1, <1>2, StepKinds DEF CapInv

\* One pass at a time, what a pass plans stays within the volume cap until it
\* claims it, while the clock, retention and users go on (see CapInv).
THEOREM CapInvariant ==
  ASSUME \A p, q \in Passes : p = q
  PROVE  Spec => []CapInv
<1>1. Init => CapInv
  <2> SUFFICES ASSUME Init PROVE CapInv
    OBVIOUS
  <2>1. \A p \in Passes : pass[p].pc = "idle"
    BY IdleFields DEF Init
  <2> QED
    BY <2>1, OrderlyInit DEF CapInv, WithinCap
<1>2. CapInv /\ [Next]_vars => CapInv'
  BY CapNext
<1> QED
  BY <1>1, <1>2, PTL DEF Spec

\* One pass at a time, PUSH_MAX_PER_DEVICE_PER_PASS holds over the whole volume
\* window: no claim takes a device over it, whatever earlier passes claimed.
THEOREM CapIsHonoured ==
  ASSUME \A p, q \in Passes : p = q
  PROVE  Spec => CapHonoured
<1>1. ASSUME CapInv, Next, NEW d \in Devices, NEW e \in Events,
             ledger[<<d, e>>].status = "none", ledger'[<<d, e>>].status = "pending"
      PROVE  Cardinality(Recent(d)') <= Cap
  <2>0. TypeOK /\ <<d, e>> \in Pairs /\ ledger[<<d, e>>] \in ClaimRow
    BY <1>1 DEF CapInv, OrderlyInv, TypeOK, Pairs
  <2>1. PICK p \in Passes : Claim(p)
    <3>1. ASSUME NEW p \in Passes, MarkSent(p) \/ MarkFailed(p) \/ Abandon(p)
          PROVE  ledger'[<<d, e>>] = ledger[<<d, e>>]
                 \/ ledger'[<<d, e>>].status \in {"sent", "failed"}
      BY <2>0, <3>1 DEF MarkSent, MarkFailed, Abandon, Marked
    <3>2. ~Tick
      BY <1>1, <2>0 DEF Tick
    <3>3. ~Prune
      BY <1>1, <2>0 DEF Prune, NoClaim
    <3>4. \/ Tick \/ Prune \/ ledger' = ledger
          \/ \E p \in Passes : Claim(p) \/ MarkSent(p) \/ MarkFailed(p) \/ Abandon(p)
      BY <1>1 DEF Next, PassStep, WalkStep, SendStep, SweepStep, Begin, Stop, Fetch, ReadPage,
         ReadFavorites, PlanDevice, SendTickets, SendFails, DropTokens, ReadRetryable,
         ReadSweepTokens, ReadSweepFavorites, FeedChange, Retire, DeviceEdit, Register,
         Unregister, SetPreferences, EditFavorites, tables
    <3> QED
      BY <1>1, <3>1, <3>2, <3>3, <3>4
  <2> DEFINE s == pass[p]
             planned == Planned(s, d)
  <2>2. /\ s.pc = "claim" /\ s \in PassState /\ WithinCap(s)
        /\ \A pr \in Pairs : ledger'[pr] = ledger[pr] \/ pr \in s.plan
    BY <1>1, <2>0, <2>1 DEF Claim, CapInv, TypeOK, Won
  <2>3. e \in planned
    <3>1. <<d, e>> \in s.plan
      BY <1>1, <2>0, <2>2
    <3> QED
      BY <3>1 DEF Planned
  <2>4. Cardinality(Recent(d)) + Cardinality(planned) <= Cap
    BY <2>2, <2>3 DEF WithinCap
  <2>5. Recent(d)' \subseteq Recent(d) \cup planned
    <3> SUFFICES ASSUME NEW f \in Recent(d)', f \notin Recent(d) PROVE f \in planned
      OBVIOUS
    <3>1. f \in Events /\ <<d, f>> \in Pairs /\ ledger'[<<d, f>>] # ledger[<<d, f>>]
      BY DEF Recent, Pairs
    <3> QED
      BY <2>2, <3>1 DEF Planned
  <2>6. planned \subseteq Events
    BY DEF Planned
  <2>7. IsFiniteSet(planned) /\ Cardinality(planned) \in Nat
    BY <2>6, ConstantsAssumption, FS_Subset, FS_CardinalityType
  <2>8. /\ IsFiniteSet(Recent(d) \cup planned)
        /\ Cardinality(Recent(d) \cup planned)
             = Cardinality(Recent(d)) + Cardinality(planned) - Cardinality(Recent(d) \cap planned)
    BY <2>7, RecentFinite, FS_Union
  <2>9. Cardinality(Recent(d) \cap planned) \in Nat
    BY RecentFinite, FS_Intersection, FS_CardinalityType
  <2>10. Cardinality(Recent(d)') <= Cardinality(Recent(d) \cup planned)
    BY <2>5, <2>8, FS_Subset
  <2>11. Cardinality(Recent(d)) \in Nat /\ Cardinality(Recent(d)') \in Nat /\ Cap \in Nat
    BY RecentFinite, ConstantsAssumption
  <2> HIDE DEF planned
  <2> QED
    BY <2>4, <2>7, <2>8, <2>9, <2>10, <2>11
<1>2. CapInv /\ [Next]_vars =>
        [\A d \in Devices :
           (\E e \in Events : /\ ledger[<<d, e>>].status = "none"
                             /\ ledger'[<<d, e>>].status = "pending")
           => Cardinality(Recent(d)') <= Cap]_vars
  BY <1>1
<1> QED
  BY <1>2, CapInvariant, PTL DEF Spec, CapHonoured
=============================================================================
