----------------------- MODULE CommunityReportsProofs -----------------------
(***************************************************************************)
(* Theorems about CommunityReports, for any number of devices, reports,    *)
(* photos and requests served at the same time.                            *)
(***************************************************************************)
EXTENDS CommunityReports, FiniteSetTheorems, TLAPS

(***************************************************************************)
(* Type correctness                                                        *)
(***************************************************************************)

\* The devices that confirmed a report are devices.
LEMMA TallyType ==
  ASSUME NEW r \in Reports
  PROVE  Tally(r) \in 0..Cardinality(Devices) /\ Tally(r) \in Nat
<1> DEFINE S == {d \in Devices : <<r, d>> \in votes}
<1>1. IsFiniteSet(S) /\ Cardinality(S) <= Cardinality(Devices)
  BY FS_Subset, ReportsAssumption
<1>2. Cardinality(S) \in Nat /\ Cardinality(Devices) \in Nat
  BY <1>1, FS_CardinalityType, ReportsAssumption
<1> QED
  BY <1>1, <1>2 DEF Tally

LEMMA ZeroType == 0 \in 0..Cardinality(Devices)
BY FS_CardinalityType, ReportsAssumption

\* The states a request can be sent to.
LEMMA IdleType == Idle \in RequestState
BY ZeroType, ReportsAssumption DEF Idle, RequestState, PCs

LEMMA UnlinkingType ==
  ASSUME NEW q, NEW p \in Photos \cup {NoPhoto}
  PROVE  Unlinking(q, p) \in RequestState
BY IdleType DEF Unlinking, RequestState, PCs

LEMMA GotoType ==
  ASSUME TypeOK, NEW q \in Requests, NEW s \in RequestState, Goto(q, s)
  PROVE  request' \in [Requests -> RequestState]
BY DEF TypeOK, Goto

LEMMA RowTypes == Unfiled \in Row /\ Deleted \in Row
BY ZeroType DEF Unfiled, Deleted, Row, Shown

LEMMA InitType == Init => TypeOK
BY RowTypes, IdleType, ReportsAssumption DEF Init, TypeOK

LEMMA DropType ==
  ASSUME TypeOK, NEW r \in Reports, Drop(r)
  PROVE  reports' \in [Reports -> Row] /\ votes' \subseteq Reports \X Devices
BY RowTypes DEF TypeOK, Drop

LEMMA GivesUpType ==
  ASSUME TypeOK, NEW r \in Reports, GivesUp(r)
  PROVE  givenUp' \subseteq Reports \X Photos
BY DEF TypeOK, GivesUp, Row

LEMMA FileType ==
  ASSUME TypeOK, NEW q \in Requests,
         \/ CountRecent(q)
         \/ \E d \in Devices, p \in Photos \cup {NoPhoto} : File(q, d, p)
         \/ \E r \in Reports : Insert(q, r)
  PROVE  TypeOK'
<1>1. CASE CountRecent(q)
  <2>1. [request[q] EXCEPT !.pc = "insert"] \in RequestState
    BY <1>1 DEF CountRecent, At, TypeOK, RequestState, PCs
  <2> QED
    BY <1>1, <2>1, IdleType, GotoType DEF CountRecent, storage, TypeOK
<1>2. ASSUME NEW d \in Devices, NEW p \in Photos \cup {NoPhoto}, File(q, d, p) PROVE TypeOK'
  <2>1. [Idle EXCEPT !.pc = "count", !.device = d, !.photo = p] \in RequestState
    BY IdleType, ReportsAssumption DEF RequestState, PCs
  <2> QED
    BY <1>2, <2>1, GotoType DEF File, storage, TypeOK
<1>3. ASSUME NEW r \in Reports, Insert(q, r) PROVE TypeOK'
  <2> DEFINE row == [state |-> IF request[q].photo = NoPhoto THEN "visible" ELSE "hidden",
                     owner |-> request[q].device, photo |-> request[q].photo,
                     upvotes |-> 0, recent |-> TRUE]
  <2>1. row \in Row
    BY ZeroType DEF TypeOK, Row, RequestState, Shown
  <2>2. reports' \in [Reports -> Row]
    BY <1>3, <2>1 DEF Insert, TypeOK
  <2> QED
    BY <1>3, <2>2, IdleType, GotoType DEF Insert, storage, TypeOK
<1> QED
  BY <1>1, <1>2, <1>3

LEMMA VoteType ==
  ASSUME TypeOK, NEW q \in Requests,
         \/ Ballot(q) \/ Recount(q) \/ SetUpvotes(q)
         \/ \E d \in Devices, r \in Reports : Vote(q, d, r)
  PROVE  TypeOK'
<1>0. /\ request[q] \in RequestState
      /\ request[q].report \in Reports
      /\ request[q].total \in 0..Cardinality(Devices)
  BY DEF TypeOK, RequestState
<1>1. ASSUME NEW d \in Devices, NEW r \in Reports, Vote(q, d, r) PROVE TypeOK'
  <2>1. [Idle EXCEPT !.pc = "ballot", !.device = d, !.report = r] \in RequestState
    BY IdleType, ReportsAssumption DEF RequestState, PCs
  <2> QED
    BY <1>1, <2>1, GotoType DEF Vote, storage, TypeOK
<1>2. CASE Recount(q)
  <2>1. [request[q] EXCEPT !.pc = "write", !.total = Counted(request[q].report)] \in RequestState
    BY <1>0, <1>2, TallyType DEF Recount, At, Counted, RequestState, PCs
  <2> QED
    BY <1>2, <2>1, GotoType DEF Recount, storage, TypeOK
<1>3. CASE SetUpvotes(q)
  <2>1. reports' \in [Reports -> Row]
    BY <1>0, <1>3 DEF SetUpvotes, TypeOK, Row
  <2> QED
    BY <1>3, <2>1, IdleType, GotoType DEF SetUpvotes, storage, TypeOK
<1>4. CASE Ballot(q)
  <2>1. CASE Refused(request[q].report, request[q].device)
    BY <1>4, <2>1, IdleType, GotoType DEF Ballot, storage, TypeOK
  <2>2. CASE ~Refused(request[q].report, request[q].device)
    <3>1. [request[q] EXCEPT !.pc = "recount"] \in RequestState
      BY <1>0, <1>4 DEF Ballot, At, RequestState, PCs
    <3>2. request[q].device \in Devices
      BY <1>0, <1>4 DEF Ballot, At, TypeOK, RequestState
    <3> QED
      BY <1>0, <1>4, <2>2, <3>1, <3>2, GotoType DEF Ballot, storage, TypeOK
  <2> QED
    BY <2>1, <2>2
<1> QED
  BY <1>1, <1>2, <1>3, <1>4
LEMMA TakeDownType ==
  ASSUME TypeOK, NEW q \in Requests,
         \/ DeleteOwn(q) \/ Unlink(q) \/ Fail(q)
         \/ \E r \in Reports : \/ \E d \in Devices : Withdraw(q, d, r)
                               \/ \E s \in Shown : Moderate(q, r, s)
  PROVE  TypeOK'
<1>0. /\ request[q] \in RequestState
      /\ request[q].report \in Reports
      /\ request[q].photo \in Photos \cup {NoPhoto}
  BY DEF TypeOK, RequestState
<1>1. ASSUME NEW d \in Devices, NEW r \in Reports, Withdraw(q, d, r) PROVE TypeOK'
  <2>1. [Idle EXCEPT !.pc = "delete", !.device = d, !.report = r, !.photo = reports[r].photo]
          \in RequestState
    BY IdleType, ReportsAssumption DEF RequestState, PCs, TypeOK, Row
  <2> QED
    BY <1>1, <2>1, GotoType DEF Withdraw, storage, TypeOK
<1>2. ASSUME NEW r \in Reports, NEW s \in Shown, Moderate(q, r, s) PROVE TypeOK'
  <2>1. reports' \in [Reports -> Row]
    BY <1>2 DEF Moderate, TypeOK, Row, Shown
  <2>2. request' \in [Requests -> RequestState]
    <3>1. reports[r].photo \in Photos \cup {NoPhoto}
      BY DEF TypeOK, Row
    <3> QED
      BY <1>2, <3>1, IdleType, UnlinkingType, GotoType DEF Moderate
  <2>3. givenUp' \subseteq Reports \X Photos
    BY <1>2, GivesUpType DEF Moderate, TypeOK
  <2> QED
    BY <1>2, <2>1, <2>2, <2>3 DEF Moderate, objects, TypeOK
<1>3. CASE DeleteOwn(q)
  <2>1. CASE Exists(request[q].report) /\ Drop(request[q].report) /\ GivesUp(request[q].report)
             /\ Goto(q, Unlinking(q, request[q].photo))
    BY <1>0, <1>3, <2>1, DropType, GivesUpType, UnlinkingType, GotoType
    DEF DeleteOwn, objects, TypeOK
  <2>2. CASE NotDeleted(q) /\ UNCHANGED <<reports, votes, givenUp>>
    BY <1>3, <2>2, IdleType, GotoType DEF DeleteOwn, NotDeleted, objects, TypeOK
  <2> QED
    BY <1>3, <2>1, <2>2 DEF DeleteOwn
<1>4. CASE Unlink(q)
  <2>1. request[q].photo \in Photos
    BY <1>0, <1>4 DEF Unlink, At, RequestState
  <2> QED
    BY <1>4, <2>1, IdleType, GotoType DEF Unlink, TypeOK
<1>5. CASE Fail(q)
  <2>1. missed' \subseteq Photos
    BY <1>0, <1>5 DEF Fail, At, TypeOK, RequestState
  <2> QED
    BY <1>5, <2>1, IdleType, GotoType, ReportsAssumption DEF Fail, objects, TypeOK
<1> QED
  BY <1>1, <1>2, <1>3, <1>4, <1>5

LEMMA AroundType ==
  ASSUME TypeOK,
         \/ \E p \in Photos : Upload(p) \/ \E d \in Devices : Sign(d, p)
         \/ \E r \in Reports : Age(r) \/ Prune(r)
  PROVE  TypeOK'
<1>1. ASSUME NEW p \in Photos, Upload(p) PROVE TypeOK'
  BY <1>1 DEF Upload, TypeOK
<1>2. ASSUME NEW p \in Photos, NEW d \in Devices, Sign(d, p) PROVE TypeOK'
  BY <1>2 DEF Sign, TypeOK
<1>3. ASSUME NEW r \in Reports, Age(r) PROVE TypeOK'
  BY <1>3 DEF Age, storage, TypeOK, Row
<1>4. ASSUME NEW r \in Reports, Prune(r) PROVE TypeOK'
  BY <1>4, DropType DEF Prune, storage, TypeOK
<1> QED
  BY <1>1, <1>2, <1>3, <1>4

\* Every variable of the reports keeps its type: in particular no count shown
\* exceeds the number of devices.
THEOREM TypeCorrect == Spec => []TypeOK
<1>1. TypeOK /\ [Next]_vars => TypeOK'
  <2> SUFFICES ASSUME TypeOK, [Next]_vars PROVE TypeOK'
    OBVIOUS
  <2>1. CASE UNCHANGED vars
    BY <2>1 DEF vars, TypeOK
  <2>2. ASSUME NEW q \in Requests, Serve(q) PROVE TypeOK'
    BY <2>2, FileType, VoteType, TakeDownType DEF Serve
  <2>3. CASE \/ \E p \in Photos : Upload(p) \/ \E d \in Devices : Sign(d, p)
             \/ \E r \in Reports : Age(r) \/ Prune(r)
    BY <2>3, AroundType
  <2> QED
    BY <2>1, <2>2, <2>3 DEF Next
<1> QED
  BY <1>1, InitType, PTL DEF Spec
(***************************************************************************)
(* Votes                                                                   *)
(***************************************************************************)

\* More votes, a higher count.
LEMMA TallyGrows ==
  ASSUME NEW r \in Reports, \A d \in Devices : <<r, d>> \in votes => <<r, d>> \in votes'
  PROVE  Tally(r) <= Tally(r)' /\ Tally(r) \in Int /\ Tally(r)' \in Int
<1> DEFINE S == {d \in Devices : <<r, d>> \in votes}
           T == {d \in Devices : <<r, d>> \in votes'}
<1>1. S \subseteq T /\ IsFiniteSet(S) /\ IsFiniteSet(T)
  BY FS_Subset, ReportsAssumption
<1>2. Cardinality(S) <= Cardinality(T)
  BY <1>1, FS_Subset
<1>3. Cardinality(S) \in Nat /\ Cardinality(T) \in Nat
  BY <1>1, FS_CardinalityType
<1> QED
  BY <1>2, <1>3 DEF Tally

\* Steps that leave reports and votes alone, and send a request anywhere but
\* on to a vote.
LEMMA ElsewhereKeepsVotes ==
  ASSUME TypeOK, VoteInv, UNCHANGED <<reports, votes>>,
         NEW q \in Requests, NEW s \in RequestState, Goto(q, s),
         s.pc \notin {"ballot", "recount", "write"}
  PROVE  VoteInv'
<1>1. \A r \in Reports : Tally(r)' = Tally(r) /\ Exists(r)' = Exists(r)
  BY DEF Tally, Exists
<1>2. \A p \in Requests : request'[p] = IF p = q THEN s ELSE request[p]
  BY DEF Goto, TypeOK
<1> QED
  BY <1>1, <1>2 DEF VoteInv, AcceptedOnce, NeverOvercounted, TypeOK, RequestState, Exists

\* Steps that leave requests and votes alone, and every report where it is.
LEMMA RowsKeepVotes ==
  ASSUME TypeOK, VoteInv, UNCHANGED <<request, votes>>,
         \A r \in Reports :
           /\ Exists(r)' = Exists(r)
           /\ reports'[r].state = "unfiled" => reports[r].state = "unfiled"
           /\ reports'[r].upvotes = reports[r].upvotes
  PROVE  VoteInv'
<1>1. \A r \in Reports : Tally(r)' = Tally(r)
  BY DEF Tally
<1>2. \A v \in votes : v[1] \in Reports
  BY DEF TypeOK
<1> QED
  BY <1>1, <1>2 DEF VoteInv, AcceptedOnce, NeverOvercounted, TypeOK, RequestState

\* A report that is deleted takes its votes along, and no other.
LEMMA DropKeepsVotes ==
  ASSUME TypeOK, VoteInv, NEW r \in Reports, Exists(r), Drop(r),
         NEW q \in Requests,
         \/ UNCHANGED request
         \/ \E s \in RequestState :
              Goto(q, s) /\ s.pc \notin {"ballot", "recount", "write"}
  PROVE  VoteInv'
<1>1. /\ \A x \in Reports : Exists(x)' <=> Exists(x) /\ x # r
      /\ \A x \in Reports : reports'[x].state = "unfiled" => reports[x].state = "unfiled"
      /\ \A x \in Reports \ {r} : reports'[x] = reports[x]
  BY DEF TypeOK, Drop, Deleted, Unfiled, Exists, Shown
<1>2. \A x \in Reports \ {r} : Tally(x)' = Tally(x)
  <2> SUFFICES ASSUME NEW x \in Reports \ {r} PROVE Tally(x)' = Tally(x)
    OBVIOUS
  <2>1. \A d \in Devices : <<x, d>> \in votes' <=> <<x, d>> \in votes
    BY DEF Drop
  <2>2. {d \in Devices : <<x, d>> \in votes'} = {d \in Devices : <<x, d>> \in votes}
    BY <2>1
  <2> QED
    BY <2>2 DEF Tally
<1>3. \A v \in votes' : v \in votes /\ v[1] # r /\ v[1] \in Reports
  BY DEF Drop, TypeOK
<1>4. \A p \in Requests :
        \/ request'[p] = request[p]
        \/ request'[p].pc \notin {"ballot", "recount", "write"}
  BY DEF Goto, TypeOK
<1>5. \A p \in Requests : request[p].report \in Reports
  BY DEF TypeOK, RequestState
<1>6. \A p \in Requests : <<request[p].report, request[p].device>> \in votes
                           /\ request[p].report # r
        => <<request[p].report, request[p].device>> \in votes'
  BY DEF Drop
<1>7. /\ \A v \in votes' : Exists(v[1])'
      /\ NeverOvercounted'
  BY <1>1, <1>2, <1>3 DEF VoteInv, NeverOvercounted
<1>8. AcceptedOnce'
  BY <1>4 DEF VoteInv, AcceptedOnce
<1>9. ASSUME NEW p \in Requests, request'[p].pc \in {"ballot", "recount", "write"}
      PROVE  /\ reports'[request'[p].report].state # "unfiled"
             /\ request'[p].pc \in {"recount", "write"} /\ Exists(request[p].report)'
                  => <<request'[p].report, request'[p].device>> \in votes'
             /\ request'[p].pc = "write" /\ Exists(request[p].report)'
                  => request'[p].total <= Tally(request[p].report)'
  <2>1. request'[p] = request[p]
    BY <1>4, <1>9
  <2>2. /\ request[p].report \in Reports
        /\ Exists(request[p].report)' => Exists(request[p].report) /\ request[p].report # r
    BY <1>1, <1>5, <2>1 DEF Exists
  <2>3. reports'[request'[p].report].state # "unfiled"
    BY <1>1, <1>9, <2>1, <2>2 DEF VoteInv
  <2>4. Exists(request[p].report)' => Tally(request[p].report)' = Tally(request[p].report)
    BY <1>2, <2>1, <2>2 DEF Tally
  <2> QED
    BY <1>6, <1>9, <2>1, <2>2, <2>3, <2>4 DEF VoteInv
<1> QED
  BY <1>7, <1>8, <1>9 DEF VoteInv
LEMMA VoteKeepsVotes ==
  ASSUME TypeOK, TypeOK', VoteInv,
         NEW q \in Requests, NEW d \in Devices, NEW r \in Reports, Vote(q, d, r)
  PROVE  VoteInv'
<1>1. \A x \in Reports : Tally(x)' = Tally(x) /\ Exists(x)' = Exists(x)
  BY DEF Vote, Tally, Exists
<1>2. /\ request'[q].pc = "ballot" /\ request'[q].report = r
      /\ \A p \in Requests \ {q} : request'[p] = request[p]
  BY IdleType DEF Vote, Goto, TypeOK, RequestState
<1>3. reports[r].state # "unfiled"
  BY DEF Vote, Exists, Shown
<1>4. AcceptedOnce' /\ NeverOvercounted'
  BY <1>1, <1>2 DEF Vote, VoteInv, AcceptedOnce, NeverOvercounted
<1>5. \A v \in votes' : Exists(v[1])'
  BY <1>1 DEF Vote, VoteInv, Exists
<1>6. \A p \in Requests : request[p].report \in Reports
  BY DEF TypeOK, RequestState
<1> QED
  BY <1>1, <1>2, <1>3, <1>4, <1>5, <1>6 DEF Vote, VoteInv

LEMMA BallotKeepsVotes ==
  ASSUME TypeOK, TypeOK', VoteInv, NEW q \in Requests, Ballot(q)
  PROVE  VoteInv'
<1> DEFINE d == request[q].device
           r == request[q].report
<1>0. d \in Devices /\ r \in Reports
  BY DEF Ballot, At, TypeOK, RequestState
<1>1. CASE Refused(r, d)
  BY <1>1, IdleType, ElsewhereKeepsVotes DEF Ballot, Idle
<1>2. CASE ~Refused(r, d)
  <2>1. /\ Exists(r) /\ <<r, d>> \notin votes
        /\ votes' = votes \cup {<<r, d>>} /\ UNCHANGED reports
        /\ Goto(q, [request[q] EXCEPT !.pc = "recount"])
    BY <1>2 DEF Ballot, Refused
  <2>2. /\ request'[q].pc = "recount" /\ request'[q].report = r /\ request'[q].device = d
        /\ \A p \in Requests \ {q} : request'[p] = request[p]
    BY <2>1 DEF Goto, TypeOK, RequestState
  <2>3. \A x \in Reports : Exists(x)' = Exists(x)
    BY <2>1 DEF Exists
  <2>4. \A x \in Reports : Tally(x) <= Tally(x)' /\ Tally(x) \in Int /\ Tally(x)' \in Int
    BY <2>1, TallyGrows
  <2>5. \A v \in votes' : Exists(v[1])'
    BY <1>0, <2>1, <2>3 DEF VoteInv, TypeOK
  <2>6. AcceptedOnce'
    <3>1. \A p \in Requests \ {q} :
            request[p].pc \in {"recount", "write"} /\ request[p].report = r => request[p].device # d
      BY <2>1 DEF VoteInv
    <3> QED
      BY <2>2, <3>1 DEF VoteInv, AcceptedOnce
  <2>7. NeverOvercounted'
    BY <2>1, <2>3, <2>4 DEF VoteInv, NeverOvercounted, TypeOK, Row
  <2>8. ASSUME NEW p \in Requests \ {q}, NEW x \in Reports,
               request[p].pc = "write", request[p].report = x, Exists(x)
        PROVE  request[p].total <= Tally(x)'
    <3>1. request[p].total <= Tally(x)
      BY <2>8 DEF VoteInv
    <3>2. request[p].total \in Int
      BY DEF TypeOK, RequestState
    <3> QED
      BY <2>4, <3>1, <3>2
  <2>9. \A p \in Requests : request[p].report \in Reports
    BY DEF TypeOK, RequestState
  <2>10. reports[r].state # "unfiled"
    BY <2>1 DEF Exists, Shown
  <2> QED
    BY <2>1, <2>2, <2>3, <2>5, <2>6, <2>7, <2>8, <2>9, <2>10 DEF VoteInv
<1> QED
  BY <1>1, <1>2

LEMMA RecountKeepsVotes ==
  ASSUME TypeOK, VoteInv, NEW q \in Requests, Recount(q)
  PROVE  VoteInv'
<1>1. \A x \in Reports : Tally(x)' = Tally(x) /\ Exists(x)' = Exists(x)
  BY DEF Recount, Tally, Exists
<1>2. /\ request'[q].pc = "write" /\ request'[q].total = Tally(request[q].report)
      /\ request'[q].report = request[q].report /\ request'[q].device = request[q].device
      /\ \A p \in Requests \ {q} : request'[p] = request[p]
  BY DEF Recount, Goto, Counted, TypeOK, RequestState
<1>3. \A p \in Requests : request[p].report \in Reports /\ Tally(request[p].report) \in Int
  BY TallyType DEF TypeOK, RequestState
<1> QED
  BY <1>1, <1>2, <1>3 DEF Recount, At, VoteInv, AcceptedOnce, NeverOvercounted, Exists

LEMMA WriteKeepsVotes ==
  ASSUME TypeOK, VoteInv, NEW q \in Requests, SetUpvotes(q)
  PROVE  VoteInv'
<1> DEFINE r == request[q].report
<1>0. r \in Reports
  BY DEF TypeOK, RequestState
<1>1. \A x \in Reports : Tally(x)' = Tally(x)
  BY DEF SetUpvotes, Tally
<1>2. /\ request'[q].pc = "idle"
      /\ \A p \in Requests \ {q} : request'[p] = request[p]
  BY DEF SetUpvotes, Goto, Idle, TypeOK
<1>3. \A x \in Reports : Exists(x)' = Exists(x) /\ reports'[x].state = reports[x].state
  BY <1>0 DEF SetUpvotes, Exists, TypeOK, Row
<1>4. NeverOvercounted'
  <2>1. \A x \in Reports \ {r} : reports'[x] = reports[x]
    BY <1>0 DEF SetUpvotes, TypeOK
  <2>2. Exists(r) => reports'[r].upvotes <= Tally(r)
    BY <1>0 DEF SetUpvotes, At, VoteInv, TypeOK, Row
  <2> QED
    BY <1>1, <1>3, <2>1, <2>2 DEF VoteInv, NeverOvercounted
<1>5. \A p \in Requests : request[p].report \in Reports
  BY DEF TypeOK, RequestState
<1>6. \A v \in votes : v[1] \in Reports
  BY DEF TypeOK
<1> QED
  BY <1>1, <1>2, <1>3, <1>4, <1>5, <1>6 DEF SetUpvotes, VoteInv, AcceptedOnce

LEMMA InsertKeepsVotes ==
  ASSUME TypeOK, VoteInv, NEW q \in Requests, NEW r \in Reports, Insert(q, r)
  PROVE  VoteInv'
<1>1. \A x \in Reports : Tally(x)' = Tally(x) /\ Tally(x) \in Int /\ Tally(x) >= 0
  BY TallyType DEF Insert, Tally
<1>2. /\ request'[q].pc = "idle"
      /\ \A p \in Requests \ {q} : request'[p] = request[p]
  BY DEF Insert, Goto, Idle, TypeOK
<1>3. /\ reports[r].state = "unfiled" /\ reports'[r].state \in Shown /\ reports'[r].upvotes = 0
      /\ \A x \in Reports \ {r} : reports'[x] = reports[x]
  BY DEF Insert, TypeOK, Shown
<1>4. \A v \in votes : v[1] \in Reports /\ v[1] # r
  BY <1>3 DEF VoteInv, Exists, Shown, TypeOK
<1>5. \A p \in Requests :
        /\ request[p].report \in Reports
        /\ request[p].pc \in {"ballot", "recount", "write"} => request[p].report # r
  BY <1>3 DEF VoteInv, TypeOK, RequestState
<1>6. NeverOvercounted'
  BY <1>1, <1>3 DEF VoteInv, NeverOvercounted, Exists
<1>7. AcceptedOnce'
  BY <1>2 DEF VoteInv, AcceptedOnce
<1>8. \A v \in votes' : Exists(v[1])'
  BY <1>3, <1>4 DEF Insert, VoteInv, Exists
<1> QED
  BY <1>1, <1>2, <1>3, <1>5, <1>6, <1>7, <1>8 DEF Insert, VoteInv, Exists

LEMMA StepKeepsVotes == TypeOK /\ TypeOK' /\ VoteInv /\ [Next]_vars => VoteInv'
<1> SUFFICES ASSUME TypeOK, TypeOK', VoteInv, [Next]_vars PROVE VoteInv'
  OBVIOUS
<1>1. CASE UNCHANGED vars
  BY <1>1, RowsKeepVotes DEF vars, Exists
<1>2. ASSUME NEW p \in Photos, Upload(p) \/ \E d \in Devices : Sign(d, p) PROVE VoteInv'
  BY <1>2, RowsKeepVotes DEF Upload, Sign, Exists
<1>3. ASSUME NEW r \in Reports, Age(r) PROVE VoteInv'
  BY <1>3, RowsKeepVotes DEF Age, Exists, TypeOK, Row
<1>4. ASSUME NEW r \in Reports, Prune(r) PROVE VoteInv'
  BY <1>4, DropKeepsVotes, ReportsAssumption DEF Prune
<1>5. ASSUME NEW q \in Requests, Serve(q) PROVE VoteInv'
  <2>1. ASSUME NEW d \in Devices, NEW p \in Photos \cup {NoPhoto}, File(q, d, p) PROVE VoteInv'
    <3>1. [Idle EXCEPT !.pc = "count", !.device = d, !.photo = p] \in RequestState
      BY IdleType, ReportsAssumption DEF RequestState, PCs
    <3> QED
      BY <2>1, <3>1, IdleType, ElsewhereKeepsVotes DEF File, RequestState
  <2>2. CASE CountRecent(q)
    <3>1. [request[q] EXCEPT !.pc = "insert"] \in RequestState
      BY <2>2 DEF CountRecent, At, TypeOK, RequestState, PCs
    <3>2. [request[q] EXCEPT !.pc = "insert"].pc = "insert" /\ Idle.pc = "idle"
      BY DEF TypeOK, RequestState, Idle
    <3> QED
      BY <2>2, <3>1, <3>2, IdleType, ElsewhereKeepsVotes DEF CountRecent
  <2>3. ASSUME NEW r \in Reports, Insert(q, r) PROVE VoteInv'
    BY <2>3, InsertKeepsVotes
  <2>4. ASSUME NEW d \in Devices, NEW r \in Reports, Vote(q, d, r) PROVE VoteInv'
    BY <2>4, VoteKeepsVotes
  <2>5. CASE Ballot(q) \/ Recount(q) \/ SetUpvotes(q)
    BY <2>5, BallotKeepsVotes, RecountKeepsVotes, WriteKeepsVotes
  <2>6. ASSUME NEW d \in Devices, NEW r \in Reports, Withdraw(q, d, r) PROVE VoteInv'
    <3> DEFINE s == [Idle EXCEPT !.pc = "delete", !.device = d, !.report = r,
                                 !.photo = reports[r].photo]
    <3>1. s \in RequestState /\ s.pc = "delete"
      BY IdleType, ReportsAssumption DEF RequestState, PCs, TypeOK, Row
    <3> QED
      BY <2>6, <3>1, ElsewhereKeepsVotes DEF Withdraw
  <2>7. CASE DeleteOwn(q)
    <3>1. /\ request[q].report \in Reports
          /\ Unlinking(q, request[q].photo) \in RequestState
          /\ Unlinking(q, request[q].photo).pc \in {"idle", "unlink"}
          /\ Idle.pc = "idle"
      BY IdleType, UnlinkingType DEF TypeOK, RequestState, Unlinking, Idle
    <3>2. CASE Exists(request[q].report)
      BY <2>7, <3>1, <3>2, DropKeepsVotes DEF DeleteOwn
    <3>3. CASE ~Exists(request[q].report)
      BY <2>7, <3>1, <3>3, IdleType, ElsewhereKeepsVotes DEF DeleteOwn, NotDeleted
    <3> QED
      BY <3>2, <3>3
  <2>8. CASE Unlink(q) \/ Fail(q)
    <3>1. Idle.pc = "idle"
      BY DEF Idle
    <3> QED
      BY <2>8, <3>1, IdleType, ElsewhereKeepsVotes DEF Unlink, Fail
  <2>9. ASSUME NEW r \in Reports, NEW s \in Shown, Moderate(q, r, s) PROVE VoteInv'
    <3>1. \A x \in Reports : /\ Exists(x)' = Exists(x)
                             /\ reports'[x].upvotes = reports[x].upvotes
                             /\ reports'[x].state = "unfiled" => reports[x].state = "unfiled"
      BY <2>9 DEF Moderate, Exists, TypeOK, Row, Shown
    <3>2. \A p \in Requests :
            \/ request'[p] = request[p]
            \/ request'[p].pc \notin {"ballot", "recount", "write"}
      BY <2>9 DEF Moderate, Goto, Unlinking, Idle, TypeOK
    <3>3. \A x \in Reports : Tally(x)' = Tally(x)
      BY <2>9 DEF Moderate, Tally
    <3>4. \A v \in votes : v[1] \in Reports
      BY DEF TypeOK
    <3>5. \A p \in Requests : request[p].report \in Reports
      BY DEF TypeOK, RequestState
    <3> QED
      BY <2>9, <3>1, <3>2, <3>3, <3>4, <3>5 DEF Moderate, VoteInv, AcceptedOnce, NeverOvercounted
  <2> QED
    BY <1>5, <2>1, <2>2, <2>3, <2>4, <2>5, <2>6, <2>7, <2>8, <2>9 DEF Serve
<1> QED
  BY <1>1, <1>2, <1>3, <1>4, <1>5 DEF Next

\* Votes and counts (add_vote): a request past the insert has its vote recorded unless
\* the report is gone, and the count it carries was true when it was read.
THEOREM VotesInvariant == Spec => []VoteInv
<1>1. Init => VoteInv
  BY DEF Init, VoteInv, AcceptedOnce, NeverOvercounted, Exists, Unfiled, Idle, Shown
<1> QED
  BY <1>1, TypeCorrect, StepKeepsVotes, PTL DEF Spec

\* One vote per device (the primary key of report_votes): for any number of
\* concurrent requests no vote is accepted twice.
THEOREM VoteAcceptedOnce == Spec => []AcceptedOnce
<1>1. VoteInv => AcceptedOnce
  BY DEF VoteInv
<1> QED
  BY <1>1, VotesInvariant, PTL

\* The count shown (_set_upvotes) may lag behind the votes, as recounts overtake
\* one another or fail, but never exceeds them.
THEOREM CountNeverTooHigh == Spec => []NeverOvercounted
<1>1. VoteInv => NeverOvercounted
  BY DEF VoteInv
<1> QED
  BY <1>1, VotesInvariant, PTL
(***************************************************************************)
(* The daily quota                                                         *)
(***************************************************************************)

\* Only a report that exists counts against a quota.
RecentInv == \A r \in Reports : reports[r].recent => Exists(r)

LEMMA RecentCount ==
  ASSUME NEW d \in Devices
  PROVE  IsFiniteSet(Recent(d)) /\ Cardinality(Recent(d)) \in Nat
<1>1. Recent(d) \subseteq Reports
  BY DEF Recent
<1>2. IsFiniteSet(Recent(d))
  BY <1>1, FS_Subset, ReportsAssumption
<1> QED
  BY <1>2, FS_CardinalityType

LEMMA StepRecent == TypeOK /\ RecentInv /\ [Next]_vars => RecentInv'
<1> SUFFICES ASSUME TypeOK, RecentInv, [Next]_vars PROVE RecentInv'
  OBVIOUS
<1>1. CASE UNCHANGED reports
  BY <1>1 DEF RecentInv, Exists
<1>2. ASSUME NEW q \in Requests, NEW r \in Reports, Insert(q, r) PROVE RecentInv'
  BY <1>2 DEF Insert, RecentInv, Exists, Shown, TypeOK
<1>3. ASSUME NEW q \in Requests, SetUpvotes(q) PROVE RecentInv'
  BY <1>3 DEF SetUpvotes, RecentInv, Exists, TypeOK, RequestState, Row
<1>4. ASSUME NEW q \in Requests, NEW r \in Reports, NEW s \in Shown, Moderate(q, r, s)
      PROVE  RecentInv'
  BY <1>4 DEF Moderate, RecentInv, Exists, TypeOK, Row
<1>5. ASSUME NEW r \in Reports, Drop(r) PROVE RecentInv'
  BY <1>5 DEF Drop, Deleted, Unfiled, RecentInv, Exists, TypeOK
<1>6. ASSUME NEW q \in Requests, DeleteOwn(q) PROVE RecentInv'
  <2>1. request[q].report \in Reports
    BY DEF TypeOK, RequestState
  <2> QED
    BY <1>1, <1>5, <1>6, <2>1 DEF DeleteOwn
<1>7. ASSUME NEW r \in Reports, Age(r) PROVE RecentInv'
  BY <1>7 DEF Age, RecentInv, Exists, TypeOK, Row
<1> QED
  BY <1>1, <1>2, <1>3, <1>4, <1>5, <1>6, <1>7
  DEF Next, Serve, vars, File, CountRecent, Vote, Ballot, Recount, Withdraw, Unlink, Fail,
      Upload, Sign, Prune

\* A step that changes neither the reports of d nor who inserts for it.
LEMMA Stutters ==
  ASSUME NEW d \in Devices, Recent(d)' = Recent(d), Inserting(d)' = Inserting(d)
  PROVE  [Quota(d)!Next]_(Quota(d)!vars)
BY DEF Quota!vars, Inserting

\* A report of d that is deleted, or a day old.
LEMMA Releases ==
  ASSUME NEW d \in Devices, NEW r \in Recent(d), Recent(d)' = Recent(d) \ {r},
         Inserting(d)' = Inserting(d)
  PROVE  Quota(d)!Next
<1>1. Cardinality(Recent(d)') = Cardinality(Recent(d)) - 1
  BY RecentCount, FS_RemoveElement
<1>2. Cardinality(Recent(d)) \in Nat /\ Cardinality(Recent(d)) # 0
  BY RecentCount, FS_EmptySet
<1>3. Quota(d)!Release
  BY <1>1, <1>2 DEF Quota!Release, Inserting
<1> QED
  BY <1>3 DEF Quota!Next

\* A request that was about to insert for d no longer is: it has, or it failed.
LEMMA Inserts ==
  ASSUME NEW d \in Devices, NEW q \in Requests, q \in Inserting(d),
         Inserting(d)' = Inserting(d) \ {q},
         \/ Recent(d)' = Recent(d)
         \/ \E r \in Reports \ Recent(d) : Recent(d)' = Recent(d) \cup {r}
  PROVE  Quota(d)!Next
<1>1. CASE Recent(d)' = Recent(d)
  BY <1>1 DEF Quota!Next, Quota!GiveUp, Inserting
<1>2. ASSUME NEW r \in Reports \ Recent(d), Recent(d)' = Recent(d) \cup {r}
      PROVE  Quota(d)!Next
  <2>1. Cardinality(Recent(d)') = Cardinality(Recent(d)) + 1
    BY <1>2, RecentCount, FS_AddElement
  <2> QED
    BY <2>1 DEF Quota!Next, Quota!Store, Inserting
<1> QED
  BY <1>1, <1>2

LEMMA DropQuota ==
  ASSUME TypeOK, NEW r \in Reports, Drop(r), NEW d \in Devices, Inserting(d)' = Inserting(d)
  PROVE  [Quota(d)!Next]_(Quota(d)!vars)
<1>1. \A x \in Reports : reports'[x] = IF x = r THEN Deleted ELSE reports[x]
  BY DEF Drop, TypeOK
<1>2. Deleted.owner # d
  BY ReportsAssumption DEF Deleted, Unfiled
<1>3. Recent(d)' = Recent(d) \ {r}
  BY <1>1, <1>2 DEF Recent
<1>4. CASE r \in Recent(d)
  BY <1>3, <1>4, Releases
<1>5. CASE r \notin Recent(d)
  BY <1>3, <1>5, Stutters
<1> QED
  BY <1>4, <1>5

LEMMA StepQuota ==
  ASSUME TypeOK, RecentInv, [Next]_vars, NEW d \in Devices
  PROVE  [Quota(d)!Next]_(Quota(d)!vars)
<1>1. CASE UNCHANGED <<reports, request>>
  BY <1>1, Stutters DEF Recent, Inserting
<1>2. ASSUME NEW q \in Requests, UNCHANGED reports,
             NEW s \in RequestState, Goto(q, s),
             request[q].pc # "insert", s.pc # "insert"
      PROVE  [Quota(d)!Next]_(Quota(d)!vars)
  <2>1. Inserting(d)' = Inserting(d)
    BY <1>2 DEF Inserting, Goto, TypeOK
  <2> QED
    BY <1>2, <2>1, Stutters DEF Recent
<1>3. ASSUME NEW q \in Requests, CountRecent(q) PROVE [Quota(d)!Next]_(Quota(d)!vars)
  <2>1. CASE UnderQuota(request[q].device)
    <3>1. \A p \in Requests : request'[p] = IF p = q THEN [request[q] EXCEPT !.pc = "insert"]
                                                     ELSE request[p]
      BY <1>3, <2>1 DEF CountRecent, Goto, TypeOK
    <3>2. request'[q].pc = "insert" /\ request'[q].device = request[q].device
      BY <3>1 DEF TypeOK, RequestState
    <3>3. Recent(d)' = Recent(d)
      BY <1>3 DEF CountRecent, Recent
    <3>4. CASE request[q].device = d
      <4>1. q \notin Inserting(d) /\ Inserting(d)' = Inserting(d) \cup {q}
        BY <1>3, <3>1, <3>2, <3>4 DEF CountRecent, At, Inserting
      <4>2. Quota(d)!Clear(q)
        BY <2>1, <3>3, <3>4, <4>1 DEF Quota!Clear, Quota!Room, UnderQuota, Inserting
      <4> QED
        BY <4>2 DEF Quota!Next
    <3>5. CASE request[q].device # d
      <4>1. Inserting(d)' = Inserting(d)
        BY <1>3, <3>1, <3>2, <3>5 DEF Inserting
      <4> QED
        BY <3>3, <4>1, Stutters
    <3> QED
      BY <3>4, <3>5
  <2>2. CASE ~UnderQuota(request[q].device)
    BY <1>2, <1>3, <2>2, IdleType DEF CountRecent, At, Idle
  <2> QED
    BY <2>1, <2>2
<1>4. ASSUME NEW q \in Requests, NEW s \in RequestState, Goto(q, s), s.pc # "insert",
             request[q].pc = "insert",
             \/ UNCHANGED reports
             \/ \E r \in Reports : Insert(q, r)
      PROVE  [Quota(d)!Next]_(Quota(d)!vars)
  <2>1. Inserting(d)' = Inserting(d) \ {q}
    BY <1>4 DEF Inserting, Goto, TypeOK
  <2>2. CASE request[q].device # d
    <3>1. Inserting(d)' = Inserting(d)
      BY <2>1, <2>2 DEF Inserting
    <3>2. Recent(d)' = Recent(d)
      BY <1>4, <2>2, ReportsAssumption DEF Recent, Insert, TypeOK, RecentInv, Exists, Shown
    <3> QED
      BY <3>1, <3>2, Stutters
  <2>3. CASE request[q].device = d
    <3>1. q \in Inserting(d)
      BY <1>4, <2>3 DEF Inserting
    <3>2. CASE UNCHANGED reports
      BY <2>1, <3>1, <3>2, Inserts DEF Recent
    <3>3. ASSUME NEW r \in Reports, Insert(q, r) PROVE Quota(d)!Next
      <4>1. r \notin Recent(d)
        BY <3>3 DEF Insert, Recent, RecentInv, Exists, Shown
      <4>2. Recent(d)' = Recent(d) \cup {r}
        BY <2>3, <3>3 DEF Insert, Recent, TypeOK
      <4> QED
        BY <2>1, <3>1, <4>1, <4>2, Inserts
    <3> QED
      BY <1>4, <3>2, <3>3
  <2> QED
    BY <2>2, <2>3
<1>5. ASSUME NEW q \in Requests, SetUpvotes(q) PROVE [Quota(d)!Next]_(Quota(d)!vars)
  <2>1. Recent(d)' = Recent(d)
    BY <1>5 DEF SetUpvotes, Recent, TypeOK, RequestState, Row
  <2>2. Inserting(d)' = Inserting(d)
    BY <1>5 DEF SetUpvotes, At, Goto, Idle, Inserting, TypeOK
  <2> QED
    BY <2>1, <2>2, Stutters
<1>6. ASSUME NEW q \in Requests, NEW r \in Reports, NEW s \in Shown, Moderate(q, r, s)
      PROVE  [Quota(d)!Next]_(Quota(d)!vars)
  <2>1. Recent(d)' = Recent(d)
    BY <1>6 DEF Moderate, Recent, TypeOK, Row
  <2>2. Inserting(d)' = Inserting(d)
    BY <1>6 DEF Moderate, At, Goto, Unlinking, Idle, Inserting, TypeOK
  <2> QED
    BY <2>1, <2>2, Stutters
<1>7. ASSUME NEW q \in Requests, DeleteOwn(q) PROVE [Quota(d)!Next]_(Quota(d)!vars)
  <2>1. Inserting(d)' = Inserting(d)
    <3>1. request[q].pc # "insert"
      BY <1>7 DEF DeleteOwn, At
    <3>2. PICK s : Goto(q, s) /\ (s = Idle \/ s = Unlinking(q, request[q].photo))
      BY <1>7 DEF DeleteOwn, NotDeleted
    <3>3. s.pc # "insert"
      <4>1. Idle.pc # "insert"
        BY DEF Idle
      <4>2. [Idle EXCEPT !.pc = "unlink", !.photo = request[q].photo].pc # "insert"
        BY IdleType DEF RequestState
      <4> QED
        BY <3>2, <4>1, <4>2 DEF Unlinking
    <3> QED
      BY <3>1, <3>2, <3>3 DEF Goto, Inserting, TypeOK
  <2>2. request[q].report \in Reports
    BY DEF TypeOK, RequestState
  <2>3. CASE UNCHANGED reports
    BY <2>1, <2>3, Stutters DEF Recent
  <2> QED
    BY <1>7, <2>1, <2>2, <2>3, DropQuota DEF DeleteOwn
<1>8. ASSUME NEW r \in Reports, Prune(r) PROVE [Quota(d)!Next]_(Quota(d)!vars)
  <2>1. Inserting(d)' = Inserting(d)
    BY <1>8 DEF Prune, Inserting
  <2> QED
    BY <1>8, <2>1, DropQuota DEF Prune
<1>9. ASSUME NEW r \in Reports, Age(r) PROVE [Quota(d)!Next]_(Quota(d)!vars)
  <2>1. Inserting(d)' = Inserting(d)
    BY <1>9 DEF Age, Inserting
  <2>2. Recent(d)' = Recent(d) \ {r}
    BY <1>9 DEF Age, Recent, TypeOK, Row
  <2> QED
    BY <2>1, <2>2, Releases, Stutters
<1>10. ASSUME NEW q \in Requests,
              \/ \E e \in Devices, p \in Photos \cup {NoPhoto} : File(q, e, p)
              \/ \E e \in Devices, r \in Reports : Vote(q, e, r) \/ Withdraw(q, e, r)
              \/ Ballot(q) \/ Recount(q) \/ Unlink(q)
       PROVE  [Quota(d)!Next]_(Quota(d)!vars)
  <2>1. UNCHANGED reports /\ request[q].pc # "insert"
    BY <1>10 DEF File, Vote, Withdraw, Ballot, Recount, Unlink, At
  <2>2. \E s : Goto(q, s) /\ s.pc # "insert"
    <3>1. ASSUME NEW e \in Devices, NEW p \in Photos \cup {NoPhoto}, File(q, e, p)
          PROVE  \E s : Goto(q, s) /\ s.pc # "insert"
      <4> DEFINE s == [Idle EXCEPT !.pc = "count", !.device = e, !.photo = p]
      <4>1. s.pc # "insert"
        BY IdleType DEF RequestState
      <4>2. Goto(q, s)
        BY <3>1 DEF File
      <4> QED
        BY <4>1, <4>2
    <3>2. ASSUME NEW e \in Devices, NEW r \in Reports, Vote(q, e, r)
          PROVE  \E s : Goto(q, s) /\ s.pc # "insert"
      <4> DEFINE s == [Idle EXCEPT !.pc = "ballot", !.device = e, !.report = r]
      <4>1. s.pc # "insert"
        BY IdleType DEF RequestState
      <4>2. Goto(q, s)
        BY <3>2 DEF Vote
      <4> QED
        BY <4>1, <4>2
    <3>3. ASSUME NEW e \in Devices, NEW r \in Reports, Withdraw(q, e, r)
          PROVE  \E s : Goto(q, s) /\ s.pc # "insert"
      <4> DEFINE s == [Idle EXCEPT !.pc = "delete", !.device = e, !.report = r,
                                  !.photo = reports[r].photo]
      <4>1. s.pc # "insert"
        BY IdleType DEF RequestState
      <4>2. Goto(q, s)
        BY <3>3 DEF Withdraw
      <4> QED
        BY <4>1, <4>2
    <3>4. request[q] \in RequestState
      BY DEF TypeOK
    <3>5. CASE Ballot(q)
      <4>1. Goto(q, Idle) \/ Goto(q, [request[q] EXCEPT !.pc = "recount"])
        BY <3>5 DEF Ballot
      <4>2. Idle.pc # "insert" /\ [request[q] EXCEPT !.pc = "recount"].pc # "insert"
        BY <3>4 DEF Idle, RequestState
      <4> QED
        BY <4>1, <4>2
    <3>6. CASE Recount(q)
      <4> DEFINE s == [request[q] EXCEPT !.pc = "write",
                                         !.total = Counted(request[q].report)]
      <4>1. s.pc # "insert"
        BY <3>4 DEF RequestState
      <4>2. Goto(q, s)
        BY <3>6 DEF Recount
      <4> QED
        BY <4>1, <4>2
    <3>7. CASE Unlink(q)
      BY <3>7 DEF Unlink, Idle
    <3> QED
      BY <1>10, <3>1, <3>2, <3>3, <3>5, <3>6, <3>7
  <2>3. Inserting(d)' = Inserting(d)
    BY <2>1, <2>2 DEF Inserting, Goto, TypeOK
  <2> QED
    BY <2>1, <2>3, Stutters DEF Recent
<1>11. ASSUME NEW q \in Requests, Fail(q) \/ \E r \in Reports : Insert(q, r)
       PROVE  [Quota(d)!Next]_(Quota(d)!vars)
  <2>1. Goto(q, Idle) /\ Idle \in RequestState /\ Idle.pc # "insert"
    BY <1>11, IdleType DEF Fail, Insert, Idle
  <2>2. CASE request[q].pc = "insert"
    BY <1>4, <1>11, <2>1, <2>2 DEF Fail
  <2>3. CASE request[q].pc # "insert"
    BY <1>2, <1>11, <2>1, <2>3 DEF Fail, Insert, At
  <2> QED
    BY <2>2, <2>3
<1> QED
  BY <1>1, <1>3, <1>5, <1>6, <1>7, <1>8, <1>9, <1>10, <1>11
  DEF Next, Serve, vars, Upload, Sign

\* create_report implements the soft limit for every device: each step of the
\* reports is a step of SoftQuota or changes nothing it sees. With SoftQuota's
\* own theorem, a device exceeds its quota by less than the requests served at
\* the same time.
THEOREM QuotaRefined == Spec => QuotaIsSoft
<1>1. Init => RecentInv /\ \A d \in Devices : Quota(d)!Init
  <2> SUFFICES ASSUME Init PROVE RecentInv /\ \A d \in Devices : Quota(d)!Init
    OBVIOUS
  <2>1. RecentInv
    BY DEF Init, RecentInv, Unfiled
  <2>2. ASSUME NEW d \in Devices PROVE Quota(d)!Init
    <3>1. Recent(d) = {}
      BY DEF Init, Recent, Unfiled
    <3> QED
      BY <3>1, FS_EmptySet DEF Quota!Init, Inserting, Init, Idle
  <2> QED
    BY <2>1, <2>2
<1>2. TypeOK /\ RecentInv /\ [Next]_vars
        => [\A d \in Devices : [Quota(d)!Next]_(Quota(d)!vars)]_vars
  BY StepQuota
<1> QED
  BY <1>1, <1>2, StepRecent, TypeCorrect, PTL DEF Spec, QuotaIsSoft

(***************************************************************************)
(* How far the quota can be overrun: the argument of SoftQuotaProofs, for  *)
(* the quota of each device.                                               *)
(***************************************************************************)

LEMMA InsertingCount ==
  ASSUME NEW d \in Devices
  PROVE  /\ IsFiniteSet(Inserting(d)) /\ Cardinality(Inserting(d)) \in Nat
         /\ Cardinality(Inserting(d)) <= Cardinality(Requests)
         /\ IsFiniteSet(Inserting(d)') /\ Cardinality(Inserting(d)') \in Nat
         /\ Cardinality(Inserting(d)') <= Cardinality(Requests)
         /\ Cardinality(Requests) \in Nat /\ Cardinality(Requests) >= 1
<1>1. Inserting(d) \subseteq Requests /\ Inserting(d)' \subseteq Requests
  BY DEF Inserting
<1>2. Cardinality(Requests) \in Nat /\ Cardinality(Requests) # 0
  BY FS_CardinalityType, FS_EmptySet, ReportsAssumption
<1> QED
  BY <1>1, <1>2, FS_Subset, FS_CardinalityType, ReportsAssumption

Overrun(d) ==
  Cardinality(Recent(d)) + Cardinality(Inserting(d))
    <= DailyQuota + Cardinality(Requests) - 1

LEMMA StepOverrun ==
  ASSUME NEW d \in Devices, Overrun(d), [Quota(d)!Next]_(Quota(d)!vars)
  PROVE  Overrun(d)'
<1> DEFINE held == Cardinality(Recent(d))
<1>1. held \in Nat /\ held' \in Nat /\ DailyQuota \in Nat
  <2>1. IsFiniteSet(Recent(d)')
    <3>1. Recent(d)' \subseteq Reports
      BY DEF Recent
    <3> QED
      BY <3>1, FS_Subset, ReportsAssumption
  <2> QED
    BY <2>1, RecentCount, FS_CardinalityType, ReportsAssumption
<1>2. CASE UNCHANGED <<held, Inserting(d)>>
  BY <1>2 DEF Overrun
<1>3. ASSUME NEW q \in Requests, Quota(d)!Clear(q) PROVE Overrun(d)'
  <2>1. held' = held /\ held + 1 <= DailyQuota
    BY <1>1, <1>3 DEF Quota!Clear, Quota!Room
  <2> QED
    BY <1>1, <2>1, InsertingCount DEF Overrun
<1>4. ASSUME NEW q \in Requests, Quota(d)!Store(q) \/ Quota(d)!GiveUp(q) PROVE Overrun(d)'
  <2>1. q \in Inserting(d) /\ Inserting(d)' = Inserting(d) \ {q}
    BY <1>4 DEF Quota!Store, Quota!GiveUp
  <2>2. Cardinality(Inserting(d)') = Cardinality(Inserting(d)) - 1
    BY <2>1, InsertingCount, FS_RemoveElement
  <2>3. held' <= held + 1
    BY <1>1, <1>4 DEF Quota!Store, Quota!GiveUp
  <2> QED
    BY <1>1, <2>2, <2>3, InsertingCount DEF Overrun
<1>5. CASE Quota(d)!Release
  <2>1. held' = held - 1 /\ Inserting(d)' = Inserting(d)
    BY <1>5 DEF Quota!Release
  <2> QED
    BY <1>1, <2>1, InsertingCount DEF Overrun
<1> QED
  BY <1>2, <1>3, <1>4, <1>5 DEF Quota!Next, Quota!vars

\* The daily quota of a device is overrun by fewer than the requests served at
\* the same time: create_report keeps what SoftQuota promises.
THEOREM QuotaOverrunBounded == Spec => []OverrunBounded
<1>1. Init => RecentInv /\ OverrunBounded
  <2> SUFFICES ASSUME Init PROVE RecentInv /\ OverrunBounded
    OBVIOUS
  <2>1. RecentInv
    BY DEF Init, RecentInv, Unfiled
  <2>2. ASSUME NEW d \in Devices PROVE Overrun(d)
    <3>1. Recent(d) = {} /\ Inserting(d) = {}
      BY DEF Init, Recent, Unfiled, Inserting, Idle
    <3>2. DailyQuota \in Nat /\ Cardinality(Recent(d)) = 0 /\ Cardinality(Inserting(d)) = 0
      BY <3>1, FS_EmptySet, ReportsAssumption
    <3> QED
      BY <3>2, InsertingCount DEF Overrun
  <2> QED
    BY <2>1, <2>2 DEF OverrunBounded, Overrun
<1>2. TypeOK /\ RecentInv /\ OverrunBounded /\ [Next]_vars => OverrunBounded'
  <2> SUFFICES ASSUME TypeOK, RecentInv, OverrunBounded, [Next]_vars, NEW d \in Devices
               PROVE  Overrun(d)'
    BY DEF OverrunBounded, Overrun
  <2>1. Overrun(d)
    BY DEF OverrunBounded, Overrun
  <2>2. [Quota(d)!Next]_(Quota(d)!vars)
    BY StepQuota
  <2> QED
    BY <2>1, <2>2, StepOverrun
<1> QED
  BY <1>1, <1>2, StepRecent, TypeCorrect, PTL DEF Spec

(***************************************************************************)
(* Photos                                                                  *)
(***************************************************************************)

LEMMA GotoAt ==
  ASSUME TypeOK, NEW q \in Requests, NEW s, Goto(q, s)
  PROVE  request'[q] = s /\ \A q2 \in Requests : q2 # q => request'[q2] = request[q2]
BY DEF Goto, TypeOK

LEMMA PhotoOf ==
  ASSUME TypeOK, NEW q \in Requests
  PROVE  request[q].photo \in Photos \cup {NoPhoto} /\ request[q].report \in Reports
BY DEF TypeOK, RequestState

\* No report is filed a second time, and none that exists changes its photo.
RowsStay ==
  \A x \in Reports :
    /\ reports'[x].state = "unfiled" => reports[x].state = "unfiled"
    /\ Exists(x)' => \/ reports[x].state = "unfiled"
                     \/ Exists(x) /\ reports'[x].photo = reports[x].photo

\* What is given up stays so, and only the photo of such a report is unlinked.
StoreStays ==
  /\ givenUp \subseteq givenUp'
  /\ \A p \in Photos : bucket'[p] = "unlinked" =>
       bucket[p] = "unlinked" \/ \E x \in Reports : <<x, p>> \in givenUp

\* Where a request may go: to delete a report whose photo it knows, or to unlink
\* the photo of one that was given up.
MayGoTo(s) ==
  /\ s.pc = "delete" => /\ s.report \in Reports /\ reports'[s.report].state # "unfiled"
                        /\ Exists(s.report)' => s.photo = reports'[s.report].photo
  /\ s.pc = "unlink" => \E x \in Reports : <<x, s.photo>> \in givenUp'

LEMMA KeepsPhotoInv ==
  ASSUME TypeOK, PhotoInv, RowsStay, StoreStays,
         \/ UNCHANGED request
         \/ \E q \in Requests : \E s : Goto(q, s) /\ MayGoTo(s)
  PROVE  PhotoInv'
<1>1. \A q \in Requests : request'[q] = request[q] \/ \E s : request'[q] = s /\ MayGoTo(s)
  BY DEF Goto, TypeOK
<1>2. ASSUME NEW q \in Requests, request'[q].pc = "delete"
      PROVE  /\ reports'[request'[q].report].state # "unfiled"
             /\ Exists(request[q].report)' => request'[q].photo = reports'[request'[q].report].photo
  <2>1. CASE request'[q] = request[q]
    <3>1. request[q].report \in Reports
      BY PhotoOf
    <3>2. /\ reports[request[q].report].state # "unfiled"
          /\ Exists(request[q].report) => request[q].photo = reports[request[q].report].photo
      BY <1>2, <2>1 DEF PhotoInv, At
    <3>3. reports'[request[q].report].state # "unfiled"
      BY <3>1, <3>2 DEF RowsStay
    <3>4. ASSUME reports'[request[q].report].state \in Shown
          PROVE  request[q].photo = reports'[request[q].report].photo
      BY <3>1, <3>2, <3>4 DEF RowsStay, Exists
    <3> QED
      BY <2>1, <3>3, <3>4 DEF Exists
  <2>2. CASE \E s : request'[q] = s /\ MayGoTo(s)
    BY <1>2, <2>2 DEF MayGoTo, Exists
  <2> QED
    BY <1>1, <2>1, <2>2
<1>3. ASSUME NEW q \in Requests, request'[q].pc = "unlink"
      PROVE  \E x \in Reports : <<x, request'[q].photo>> \in givenUp'
  BY <1>1, <1>3 DEF PhotoInv, At, StoreStays, MayGoTo
<1>4. \A p \in Photos : bucket'[p] = "unlinked" => \E x \in Reports : <<x, p>> \in givenUp'
  BY DEF PhotoInv, StoreStays
<1> QED
  BY <1>2, <1>3, <1>4 DEF PhotoInv, At

LEMMA DropStays ==
  ASSUME TypeOK, NEW r \in Reports, Drop(r)
  PROVE  RowsStay
BY DEF Drop, Deleted, Unfiled, RowsStay, Exists, Shown, TypeOK

LEMMA StepRowsStay ==
  ASSUME TypeOK, [Next]_vars
  PROVE  RowsStay
<1>1. CASE UNCHANGED reports
  BY <1>1 DEF RowsStay, Exists
<1>2. ASSUME NEW q \in Requests, NEW r \in Reports, Insert(q, r) PROVE RowsStay
  BY <1>2 DEF Insert, RowsStay, Exists, Shown, TypeOK
<1>3. ASSUME NEW q \in Requests, SetUpvotes(q) PROVE RowsStay
  BY <1>3, PhotoOf DEF SetUpvotes, RowsStay, Exists, TypeOK, Row
<1>4. ASSUME NEW q \in Requests, DeleteOwn(q) PROVE RowsStay
  BY <1>1, <1>4, DropStays, PhotoOf DEF DeleteOwn
<1>5. ASSUME NEW q \in Requests, NEW r \in Reports, NEW st \in Shown, Moderate(q, r, st)
      PROVE  RowsStay
  BY <1>5 DEF Moderate, RowsStay, Exists, Shown, TypeOK, Row
<1>6. ASSUME NEW r \in Reports, Age(r) PROVE RowsStay
  BY <1>6 DEF Age, RowsStay, Exists, TypeOK, Row
<1>7. ASSUME NEW r \in Reports, Prune(r) PROVE RowsStay
  BY <1>7, DropStays DEF Prune
<1>8. ASSUME NEW q \in Requests,
             \/ \E d \in Devices : \/ \E p \in Photos \cup {NoPhoto} : File(q, d, p)
                                   \/ \E r \in Reports : Vote(q, d, r) \/ Withdraw(q, d, r)
             \/ CountRecent(q) \/ Ballot(q) \/ Recount(q) \/ Unlink(q) \/ Fail(q)
      PROVE  UNCHANGED reports
  BY <1>8 DEF File, Vote, Withdraw, CountRecent, Ballot, Recount, Unlink, Fail
<1>9. ASSUME NEW p \in Photos, Upload(p) \/ \E d \in Devices : Sign(d, p)
      PROVE  UNCHANGED reports
  BY <1>9 DEF Upload, Sign
<1> QED
  BY <1>1, <1>2, <1>3, <1>4, <1>5, <1>6, <1>7, <1>8, <1>9 DEF Next, Serve, vars

\* A request that unlinks the photo of report r, which was given up by this step.
LEMMA GivenUpMay ==
  ASSUME TypeOK, NEW r \in Reports, GivesUp(r), NEW q
  PROVE  MayGoTo(Unlinking(q, reports[r].photo)) /\ givenUp \subseteq givenUp'
<1>1. reports[r].photo # NoPhoto => <<r, reports[r].photo>> \in givenUp'
  BY DEF GivesUp
<1>2. CASE reports[r].photo = NoPhoto
  BY <1>2 DEF Unlinking, Idle, MayGoTo, GivesUp
<1>3. CASE reports[r].photo # NoPhoto
  <2> DEFINE s == [Idle EXCEPT !.pc = "unlink", !.photo = reports[r].photo]
  <2>1. Unlinking(q, reports[r].photo) = s /\ s.pc = "unlink" /\ s.photo = reports[r].photo
    BY <1>3 DEF Unlinking, Idle
  <2> HIDE DEF s
  <2> QED
    BY <1>1, <1>3, <2>1 DEF MayGoTo, GivesUp
<1> QED
  BY <1>2, <1>3

LEMMA IdleMay == MayGoTo(Idle)
BY DEF MayGoTo, Idle

LEMMA StepPhotoInv ==
  ASSUME TypeOK, PhotoInv, [Next]_vars
  PROVE  PhotoInv'
<1>0. RowsStay
  BY StepRowsStay
<1>1. CASE UNCHANGED vars
  BY <1>0, <1>1, KeepsPhotoInv DEF vars, StoreStays
<1>2. ASSUME NEW q \in Requests,
             \/ \E d \in Devices : \/ \E p \in Photos \cup {NoPhoto} : File(q, d, p)
                                   \/ \E r \in Reports : Vote(q, d, r)
             \/ \E r \in Reports : Insert(q, r)
             \/ CountRecent(q) \/ Ballot(q) \/ Recount(q) \/ SetUpvotes(q) \/ Fail(q)
      PROVE  PhotoInv'
  <2>1. StoreStays
    BY <1>2 DEF File, Vote, Insert, CountRecent, Ballot, Recount, SetUpvotes, Fail,
                storage, objects, StoreStays
  <2>2. PICK s : Goto(q, s) /\ s.pc \notin {"delete", "unlink"}
    <3>1. request[q] \in RequestState /\ Idle \in RequestState /\ Idle.pc = "idle"
      BY IdleType DEF TypeOK, Idle
    <3>2. ASSUME NEW d \in Devices, NEW p \in Photos \cup {NoPhoto}, File(q, d, p)
          PROVE  \E s : Goto(q, s) /\ s.pc \notin {"delete", "unlink"}
      <4> DEFINE s == [Idle EXCEPT !.pc = "count", !.device = d, !.photo = p]
      <4>1. Goto(q, s)
        BY <3>2 DEF File
      <4>2. s.pc = "count"
        BY DEF Idle
      <4> HIDE DEF s
      <4> QED
        BY <4>1, <4>2
    <3>3. ASSUME NEW d \in Devices, NEW r \in Reports, Vote(q, d, r)
          PROVE  \E s : Goto(q, s) /\ s.pc \notin {"delete", "unlink"}
      <4> DEFINE s == [Idle EXCEPT !.pc = "ballot", !.device = d, !.report = r]
      <4>1. Goto(q, s)
        BY <3>3 DEF Vote
      <4>2. s.pc = "ballot"
        BY DEF Idle
      <4> HIDE DEF s
      <4> QED
        BY <4>1, <4>2
    <3>4. CASE CountRecent(q)
      <4>1. [request[q] EXCEPT !.pc = "insert"].pc = "insert"
        BY <3>1 DEF RequestState
      <4>2. Goto(q, Idle) \/ Goto(q, [request[q] EXCEPT !.pc = "insert"])
        BY <3>4 DEF CountRecent
      <4> QED
        BY <3>1, <4>1, <4>2
    <3>5. CASE Ballot(q)
      <4>1. [request[q] EXCEPT !.pc = "recount"].pc = "recount"
        BY <3>1 DEF RequestState
      <4>2. Goto(q, Idle) \/ Goto(q, [request[q] EXCEPT !.pc = "recount"])
        BY <3>5 DEF Ballot
      <4> QED
        BY <3>1, <4>1, <4>2
    <3>6. CASE Recount(q)
      <4> DEFINE s == [request[q] EXCEPT !.pc = "write", !.total = Counted(request[q].report)]
      <4>1. s.pc = "write"
        BY <3>1 DEF RequestState
      <4>2. Goto(q, s)
        BY <3>6 DEF Recount
      <4> HIDE DEF s
      <4> QED
        BY <4>1, <4>2
    <3>7. CASE SetUpvotes(q) \/ Fail(q) \/ \E r \in Reports : Insert(q, r)
      BY <3>1, <3>7 DEF SetUpvotes, Fail, Insert
    <3> QED
      BY <1>2, <3>2, <3>3, <3>4, <3>5, <3>6, <3>7
  <2> QED
    BY <1>0, <2>1, <2>2, KeepsPhotoInv DEF MayGoTo
<1>3. ASSUME NEW q \in Requests, NEW d \in Devices, NEW r \in Reports, Withdraw(q, d, r)
      PROVE  PhotoInv'
  <2> DEFINE s == [Idle EXCEPT !.pc = "delete", !.device = d, !.report = r,
                               !.photo = reports[r].photo]
  <2>1. Goto(q, s) /\ UNCHANGED <<reports, bucket, givenUp>> /\ Exists(r)
    BY <1>3 DEF Withdraw, storage
  <2>2. s.pc = "delete" /\ s.report = r /\ s.photo = reports[r].photo
    BY DEF Idle
  <2> HIDE DEF s
  <2>3. MayGoTo(s) /\ StoreStays
    BY <2>1, <2>2 DEF MayGoTo, StoreStays, Exists, Shown
  <2> QED
    BY <1>0, <2>1, <2>3, KeepsPhotoInv
<1>4. ASSUME NEW q \in Requests, DeleteOwn(q) PROVE PhotoInv'
  <2>1. CASE NotDeleted(q) /\ UNCHANGED <<reports, votes, givenUp>>
    BY <1>0, <1>4, <2>1, IdleMay, KeepsPhotoInv DEF DeleteOwn, NotDeleted, objects, StoreStays
  <2>2. ASSUME Exists(request[q].report), GivesUp(request[q].report),
               Goto(q, Unlinking(q, request[q].photo))
        PROVE  PhotoInv'
    <3>1. PICK r \in Reports : r = request[q].report
      BY PhotoOf
    <3>2. reports[r].photo = request[q].photo
      BY <1>4, <2>2, <3>1 DEF DeleteOwn, PhotoInv, At
    <3>3. MayGoTo(Unlinking(q, request[q].photo)) /\ givenUp \subseteq givenUp'
      BY <2>2, <3>1, <3>2, GivenUpMay
    <3>4. StoreStays
      BY <1>4, <3>3 DEF DeleteOwn, objects, StoreStays
    <3> QED
      BY <1>0, <2>2, <3>3, <3>4, KeepsPhotoInv
  <2> QED
    BY <1>4, <2>1, <2>2 DEF DeleteOwn
<1>5. ASSUME NEW q \in Requests, NEW r \in Reports, NEW st \in Shown, Moderate(q, r, st)
      PROVE  PhotoInv'
  <2>1. CASE st = "removed"
    <3>1. GivesUp(r) /\ Goto(q, Unlinking(q, reports[r].photo)) /\ UNCHANGED bucket
      BY <1>5, <2>1 DEF Moderate, Erases, objects
    <3>2. MayGoTo(Unlinking(q, reports[r].photo)) /\ StoreStays
      BY <3>1, GivenUpMay DEF StoreStays
    <3> QED
      BY <1>0, <3>1, <3>2, KeepsPhotoInv
  <2>2. CASE st # "removed"
    <3>1. Goto(q, Idle) /\ StoreStays
      BY <1>5, <2>2 DEF Moderate, Erases, objects, StoreStays
    <3> QED
      BY <1>0, <3>1, IdleMay, KeepsPhotoInv
  <2> QED
    BY <2>1, <2>2
<1>6. ASSUME NEW q \in Requests, Unlink(q) PROVE PhotoInv'
  <2>1. StoreStays
    BY <1>6 DEF Unlink, PhotoInv, StoreStays, TypeOK
  <2> QED
    BY <1>0, <1>6, <2>1, IdleMay, KeepsPhotoInv DEF Unlink
<1>7. ASSUME NEW p \in Photos, Upload(p) \/ \E d \in Devices : Sign(d, p) PROVE PhotoInv'
  <2>1. StoreStays /\ UNCHANGED request
    BY <1>7 DEF Upload, Sign, StoreStays, TypeOK
  <2> QED
    BY <1>0, <2>1, KeepsPhotoInv
<1>8. ASSUME NEW r \in Reports, Age(r) \/ Prune(r) PROVE PhotoInv'
  <2>1. StoreStays /\ UNCHANGED request
    BY <1>8 DEF Age, Prune, storage, StoreStays
  <2> QED
    BY <1>0, <2>1, KeepsPhotoInv
<1> QED
  BY <1>1, <1>2, <1>3, <1>4, <1>5, <1>6, <1>7, <1>8 DEF Next, Serve

\* Whoever unlinks a photo does so for a report that was withdrawn or removed,
\* and the photo delete_report read before it deleted the row is the row's.
THEOREM PhotoInvariant == Spec => []PhotoInv
<1>1. Init => PhotoInv
  BY DEF Init, PhotoInv, Idle, At
<1>2. TypeOK /\ PhotoInv /\ [Next]_vars => PhotoInv'
  BY StepPhotoInv
<1> QED
  BY <1>1, <1>2, TypeCorrect, PTL DEF Spec

\* Whatever photos clients share and moderators restore, a standing report loses
\* its photo only to a report with the same photo that was withdrawn by its owner
\* or removed: never by being hidden, by retention, by a failure, or by a
\* withdrawal that came too late to delete the row.
THEOREM PhotosAreKept == Spec => []PhotoKept
<1>1. TypeOK /\ PhotoInv => PhotoKept
  BY DEF TypeOK, Row, PhotoInv, PhotoKept
<1> QED
  BY <1>1, TypeCorrect, PhotoInvariant, PTL

Erased(p) ==
  \/ bucket[p] = "unlinked" \/ p \in missed
  \/ \E q \in Requests : At(q, "unlink") /\ request[q].photo = p

\* A photo that was dealt with stays so; the request that was to delete it
\* deletes it, fails, or finds no object yet.
LEMMA ErasedStays ==
  ASSUME TypeOK, [Next]_vars, NEW p \in Photos, Erased(p)
  PROVE  Erased(p)'
<1>1. missed \subseteq missed'
  <2>1. ASSUME NEW q \in Requests, Serve(q) PROVE missed \subseteq missed'
    BY <2>1 DEF Serve, File, Vote, Withdraw, Insert, Moderate, CountRecent, Ballot, Recount,
                SetUpvotes, DeleteOwn, Unlink, Fail, storage
  <2>2. ASSUME NEW x \in Photos, Upload(x) \/ \E d \in Devices : Sign(d, x)
        PROVE  missed \subseteq missed'
    BY <2>2 DEF Upload, Sign
  <2>3. ASSUME NEW r \in Reports, Age(r) \/ Prune(r) PROVE missed \subseteq missed'
    BY <2>3 DEF Age, Prune, storage
  <2> QED
    BY <2>1, <2>2, <2>3 DEF Next, vars
<1>2. bucket[p] = "unlinked" => bucket'[p] = "unlinked"
  <2>1. ASSUME NEW q \in Requests, Unlink(q) PROVE bucket[p] = "unlinked" => bucket'[p] = "unlinked"
    BY <2>1 DEF Unlink, TypeOK
  <2>2. ASSUME NEW x \in Photos, Upload(x) PROVE bucket[p] = "unlinked" => bucket'[p] = "unlinked"
    BY <2>2 DEF Upload, TypeOK
  <2>3. ASSUME NEW q \in Requests, Serve(q), ~Unlink(q) PROVE UNCHANGED bucket
    BY <2>3 DEF Serve, File, Vote, Withdraw, Insert, Moderate, CountRecent, Ballot, Recount,
                SetUpvotes, DeleteOwn, Fail, storage, objects
  <2>4. ASSUME NEW x \in Photos, NEW d \in Devices, Sign(d, x) PROVE UNCHANGED bucket
    BY <2>4 DEF Sign
  <2>5. ASSUME NEW r \in Reports, Age(r) \/ Prune(r) PROVE UNCHANGED bucket
    BY <2>5 DEF Age, Prune, storage
  <2> QED
    BY <2>1, <2>2, <2>3, <2>4, <2>5 DEF Next, vars
<1>3. ASSUME NEW q \in Requests, At(q, "unlink"), request[q].photo = p
      PROVE  \/ request'[q] = request[q]
             \/ bucket'[p] = "unlinked" \/ p \in missed'
  <2>1. CASE Unlink(q)
    BY <1>3, <2>1 DEF Unlink, TypeOK
  <2>2. CASE Fail(q)
    BY <1>3, <2>2 DEF Fail
  <2>3. CASE Serve(q)
    BY <1>3, <2>1, <2>2, <2>3 DEF Serve, File, Vote, Withdraw, Insert, Moderate, CountRecent,
                Ballot, Recount, SetUpvotes, DeleteOwn, At
  <2>4. ASSUME NEW q2 \in Requests, q2 # q, Serve(q2) PROVE request'[q] = request[q]
    BY <2>4 DEF Serve, File, Vote, Withdraw, Insert, Moderate, CountRecent, Ballot, Recount,
                SetUpvotes, DeleteOwn, NotDeleted, Unlink, Fail, Goto, TypeOK
  <2>5. CASE \/ \E x \in Photos : Upload(x) \/ \E d \in Devices : Sign(d, x)
             \/ \E r \in Reports : Age(r) \/ Prune(r)
    BY <2>5 DEF Upload, Sign, Age, Prune
  <2> QED
    BY <2>3, <2>4, <2>5 DEF Next, vars
<1> QED
  BY <1>1, <1>2, <1>3 DEF Erased, At

\* A photo that is given up by this step is with the request that will delete it.
LEMMA GivenUpErased ==
  ASSUME TypeOK, NEW r \in Reports, GivesUp(r), NEW q \in Requests,
         Goto(q, Unlinking(q, reports[r].photo)), NEW v \in givenUp', v \notin givenUp
  PROVE  Erased(v[2])'
<1>1. v = <<r, reports[r].photo>> /\ reports[r].photo # NoPhoto
  BY DEF GivesUp
<1>2. request'[q] = [Idle EXCEPT !.pc = "unlink", !.photo = reports[r].photo]
  BY <1>1, GotoAt DEF Unlinking
<1>3. request'[q].pc = "unlink" /\ request'[q].photo = v[2]
  BY <1>1, <1>2 DEF Idle
<1> QED
  BY <1>3 DEF Erased, At

\* A report withdrawn by its owner or removed takes its photo along: it is
\* deleted, or a request is about to delete it, or that failed or came before the
\* upload, however requests interleave and whoever else deletes the row.
THEOREM PhotosAreErased == Spec => []PhotoErased
<1>1. Init => PhotoErased
  BY DEF Init, PhotoErased
<1>2. TypeOK /\ PhotoInv /\ PhotoErased /\ [Next]_vars => PhotoErased'
  <2> SUFFICES ASSUME TypeOK, PhotoInv, PhotoErased, [Next]_vars, NEW v \in givenUp'
               PROVE  Erased(v[2])'
    BY DEF PhotoErased, Erased
  <2>1. CASE v \in givenUp
    <3>1. Erased(v[2]) /\ v[2] \in Photos
      BY <2>1 DEF PhotoErased, Erased, TypeOK
    <3> QED
      BY <3>1, ErasedStays
  <2>2. CASE v \notin givenUp
    <3>1. ASSUME NEW q \in Requests, NEW r \in Reports, NEW st \in Shown, Moderate(q, r, st)
          PROVE  Erased(v[2])'
      <4>1. GivesUp(r) /\ Goto(q, Unlinking(q, reports[r].photo))
        BY <2>2, <3>1 DEF Moderate, Erases
      <4> QED
        BY <2>2, <4>1, GivenUpErased
    <3>2. ASSUME NEW q \in Requests, DeleteOwn(q) PROVE Erased(v[2])'
      <4>1. PICK r \in Reports : r = request[q].report
        BY PhotoOf
      <4>2. Exists(r) /\ GivesUp(r) /\ Goto(q, Unlinking(q, request[q].photo))
        BY <2>2, <3>2, <4>1 DEF DeleteOwn
      <4>3. reports[r].photo = request[q].photo
        BY <3>2, <4>1, <4>2 DEF DeleteOwn, PhotoInv, At
      <4> QED
        BY <2>2, <4>2, <4>3, GivenUpErased
    <3>3. ASSUME NEW q \in Requests, Serve(q)
          PROVE  \/ UNCHANGED givenUp \/ DeleteOwn(q)
                 \/ \E r \in Reports, st \in Shown : Moderate(q, r, st)
      BY <3>3 DEF Serve, File, Vote, Withdraw, Insert, CountRecent, Ballot, Recount,
                  SetUpvotes, Unlink, Fail, storage
    <3>4. ASSUME \/ \E x \in Photos : Upload(x) \/ \E d \in Devices : Sign(d, x)
                 \/ \E r \in Reports : Age(r) \/ Prune(r)
          PROVE  UNCHANGED givenUp
      BY <3>4 DEF Upload, Sign, Age, Prune, storage
    <3> QED
      BY <2>2, <3>1, <3>2, <3>3, <3>4 DEF Next, vars
  <2> QED
    BY <2>1, <2>2
<1> QED
  BY <1>1, <1>2, TypeCorrect, PhotoInvariant, PTL DEF Spec
=============================================================================
