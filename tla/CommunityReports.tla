-------------------------- MODULE CommunityReports --------------------------
(***************************************************************************)
(* Community hazard reports: the routes that file, confirm, withdraw and   *)
(* moderate them (app/api/routes/reports.py and admin.py), the statements  *)
(* they make (ReportsRepository) and the photos kept in private storage    *)
(* (app/services/report_images.py).                                        *)
(*                                                                         *)
(* A request awaits each of its statements and other requests run in       *)
(* between, so every statement is an action; one statement is atomic.      *)
(* Report ids are random and never used twice, as are storage paths.       *)
(***************************************************************************)
EXTENDS Integers, FiniteSets

CONSTANTS
  Devices,
  Reports,       \* ids of reports; bound: reports ever filed
  Photos,        \* storage paths
  NoPhoto,
  Nobody,
  Requests,      \* requests served at the same time
  DailyQuota,    \* MAX_REPORTS_PER_DEVICE_PER_DAY
  MaxFaults      \* bound: statements that fail

ASSUME ReportsAssumption ==
  /\ IsFiniteSet(Devices) /\ IsFiniteSet(Reports) /\ Reports # {}
  /\ IsFiniteSet(Requests) /\ Requests # {}
  /\ NoPhoto \notin Photos /\ Nobody \notin Devices
  /\ DailyQuota \in Nat /\ MaxFaults \in Nat

VARIABLES
  reports,    \* community_reports, by id
  votes,      \* report_votes: <<report, device>>
  signedFor,  \* per path: the device it was made for
  bucket,     \* per path: the object behind it
  givenUp,    \* history: <<report, photo>>, withdrawn by its owner or removed
  missed,     \* history: paths whose deletion failed, or found no object yet
  request,    \* per request: where it is and what it has read
  faults

vars == <<reports, votes, signedFor, bucket, givenUp, missed, request, faults>>
objects == <<signedFor, bucket>>
storage == <<signedFor, bucket, givenUp, missed>>

Shown == {"visible", "hidden", "removed"}

Row == [state  : Shown \cup {"unfiled", "deleted"},
        owner  : Devices \cup {Nobody},
        photo  : Photos \cup {NoPhoto},
        upvotes : 0..Cardinality(Devices),
        recent : BOOLEAN]       \* created in the last 24 hours

Unfiled == [state |-> "unfiled", owner |-> Nobody, photo |-> NoPhoto,
            upvotes |-> 0, recent |-> FALSE]
Deleted == [Unfiled EXCEPT !.state = "deleted"]

PCs == {"idle", "count", "insert", "ballot", "recount", "write", "delete", "unlink"}

\* Except when it is idle or only unlinks, a request has a device; to unlink, a
\* photo.
RequestState ==
  {s \in [pc : PCs,
          device : Devices \cup {Nobody},
          photo  : Photos \cup {NoPhoto},
          report : Reports,
          total  : 0..Cardinality(Devices)] :
     /\ s.pc \in {"idle", "unlink"} \/ s.device # Nobody
     /\ s.pc = "unlink" => s.photo # NoPhoto}

TypeOK ==
  /\ reports \in [Reports -> Row]
  /\ votes \subseteq Reports \X Devices
  /\ signedFor \in [Photos -> Devices \cup {Nobody}]
  /\ bucket \in [Photos -> {"empty", "stored", "unlinked"}]
  /\ givenUp \subseteq Reports \X Photos
  /\ missed \subseteq Photos
  /\ request \in [Requests -> RequestState]
  /\ faults \in 0..MaxFaults

Idle == [pc |-> "idle", device |-> Nobody, photo |-> NoPhoto,
         report |-> CHOOSE r \in Reports : TRUE, total |-> 0]

Init ==
  /\ reports = [r \in Reports |-> Unfiled]
  /\ votes = {}
  /\ signedFor = [p \in Photos |-> Nobody]
  /\ bucket = [p \in Photos |-> "empty"]
  /\ givenUp = {} /\ missed = {}
  /\ request = [q \in Requests |-> Idle]
  /\ faults = 0

-----------------------------------------------------------------------------
Exists(r) == reports[r].state \in Shown
Tally(r) == Cardinality({d \in Devices : <<r, d>> \in votes})
Recent(d) == {r \in Reports : reports[r].owner = d /\ reports[r].recent}

Goto(q, s) == request' = [request EXCEPT ![q] = s]
At(q, pc) == request[q].pc = pc

(* Photos *)

\* image_upload_url: a fresh path under the prefix of the device.
Sign(d, p) ==
  /\ signedFor[p] = Nobody
  /\ signedFor' = [signedFor EXCEPT ![p] = d]
  /\ UNCHANGED <<reports, votes, bucket, givenUp, missed, request, faults>>

\* The client uploads to it, before or after it has filed the report.
Upload(p) ==
  /\ signedFor[p] # Nobody /\ bucket[p] = "empty"
  /\ bucket' = [bucket EXCEPT ![p] = "stored"]
  /\ UNCHANGED <<reports, votes, signedFor, givenUp, missed, request, faults>>

\* is_owned_path: a path of this device, whether or not another report has it.
Attachable(d, p) == p = NoPhoto \/ (p \in Photos /\ signedFor[p] = d)

(* Filing *)

\* create_report checks the photo and asks how much the device filed today ...
File(q, d, p) ==
  /\ At(q, "idle") /\ Attachable(d, p)
  /\ Goto(q, [Idle EXCEPT !.pc = "count", !.device = d, !.photo = p])
  /\ UNCHANGED <<reports, votes, faults>> /\ UNCHANGED storage

\* ... the answer: the quota is used up, or there is room.
UnderQuota_OffByOne(d) == Cardinality(Recent(d)) <= DailyQuota
UnderQuota(d) == Cardinality(Recent(d)) < DailyQuota

CountRecent(q) ==
  /\ At(q, "count")
  /\ Goto(q, IF UnderQuota(request[q].device) THEN [request[q] EXCEPT !.pc = "insert"]
                                              ELSE Idle)
  /\ UNCHANGED <<reports, votes, faults>> /\ UNCHANGED storage

Insert(q, r) ==
  /\ At(q, "insert") /\ reports[r].state = "unfiled"
  /\ reports' = [reports EXCEPT ![r] =
       [state |-> IF request[q].photo = NoPhoto THEN "visible" ELSE "hidden",
        owner |-> request[q].device, photo |-> request[q].photo,
        upvotes |-> 0, recent |-> TRUE]]
  /\ Goto(q, Idle)
  /\ UNCHANGED <<votes, faults>> /\ UNCHANGED storage

(* Confirming *)

\* The vote route finds the report, whatever its status.
Vote(q, d, r) ==
  /\ At(q, "idle") /\ Exists(r)
  /\ Goto(q, [Idle EXCEPT !.pc = "ballot", !.device = d, !.report = r])
  /\ UNCHANGED <<reports, votes, faults>> /\ UNCHANGED storage

\* add_vote inserts. The primary key refuses a second vote, which is reported
\* with the current count; the foreign key refuses a vote for a deleted report.
Refused_NoKey(r, d) == ~Exists(r)
Refused(r, d) == ~Exists(r) \/ <<r, d>> \in votes

Ballot(q) ==
  LET d == request[q].device
      r == request[q].report
  IN /\ At(q, "ballot")
     /\ IF Refused(r, d)
        THEN Goto(q, Idle) /\ UNCHANGED votes
        ELSE /\ votes' = votes \cup {<<r, d>>}
             /\ Goto(q, [request[q] EXCEPT !.pc = "recount"])
     /\ UNCHANGED <<reports, faults>> /\ UNCHANGED storage

\* count_votes; _set_upvotes.
Counted_Added(r) == Tally(r) + 1
Counted(r) == Tally(r)

Recount(q) ==
  /\ At(q, "recount")
  /\ Goto(q, [request[q] EXCEPT !.pc = "write", !.total = Counted(request[q].report)])
  /\ UNCHANGED <<reports, votes, faults>> /\ UNCHANGED storage

SetUpvotes(q) ==
  LET r == request[q].report
  IN /\ At(q, "write")
     /\ reports' = IF Exists(r) THEN [reports EXCEPT ![r].upvotes = request[q].total]
                                ELSE reports
     /\ Goto(q, Idle)
     /\ UNCHANGED <<votes, faults>> /\ UNCHANGED storage

(* Withdrawing and moderating *)

\* The row goes, and its votes with it.
Drop(r) ==
  /\ reports' = [reports EXCEPT ![r] = Deleted]
  /\ votes' = {v \in votes : v[1] # r}

\* delete_report reads the row, and knows its photo from then on.
Withdraw(q, d, r) ==
  /\ At(q, "idle") /\ Exists(r) /\ reports[r].owner = d
  /\ Goto(q, [Idle EXCEPT !.pc = "delete", !.device = d, !.report = r,
                          !.photo = reports[r].photo])
  /\ UNCHANGED <<reports, votes, faults>> /\ UNCHANGED storage

\* What is left to do once the row is taken care of.
Unlinking(q, p) == IF p = NoPhoto THEN Idle
                   ELSE [Idle EXCEPT !.pc = "unlink", !.photo = p]

\* The photo of a report that is withdrawn or removed is to go.
GivesUp(r) ==
  givenUp' = givenUp \cup (IF reports[r].photo = NoPhoto THEN {}
                           ELSE {<<r, reports[r].photo>>})

\* delete_own matched nothing any more: a 404, and nothing is unlinked.
NotDeleted_Unlinked(q) == Goto(q, Unlinking(q, request[q].photo))
NotDeleted(q) == Goto(q, Idle)

DeleteOwn(q) ==
  LET r == request[q].report
  IN /\ At(q, "delete")
     /\ \/ Exists(r) /\ Drop(r) /\ GivesUp(r) /\ Goto(q, Unlinking(q, request[q].photo))
        \/ ~Exists(r) /\ NotDeleted(q) /\ UNCHANGED <<reports, votes, givenUp>>
     /\ UNCHANGED <<missed, faults>> /\ UNCHANGED objects

\* moderate: any status may follow any other. Removing a report deletes its
\* photo.
Erases_Nothing(s) == FALSE
Erases(s) == s = "removed"

Moderate(q, r, s) ==
  /\ At(q, "idle") /\ Exists(r)
  /\ reports' = [reports EXCEPT ![r].state = s]
  /\ IF s = "removed" THEN GivesUp(r) ELSE UNCHANGED givenUp
  /\ Goto(q, IF Erases(s) THEN Unlinking(q, reports[r].photo) ELSE Idle)
  /\ UNCHANGED <<votes, missed, faults>> /\ UNCHANGED objects

\* delete_image: a path without an object is no error, and may get one later.
Unlink(q) ==
  LET p == request[q].photo
  IN /\ At(q, "unlink")
     /\ bucket' = [bucket EXCEPT ![p] = IF @ = "stored" THEN "unlinked" ELSE @]
     /\ missed' = IF bucket[p] = "empty" THEN missed \cup {p} ELSE missed
     /\ Goto(q, Idle)
     /\ UNCHANGED <<reports, votes, signedFor, givenUp, faults>>

(* What happens around the requests *)

\* A statement fails, or the process does: the request ends there. Failures of
\* delete_image are swallowed, which is the same.
Fail(q) ==
  /\ ~At(q, "idle")
  /\ faults < MaxFaults /\ faults' = faults + 1
  /\ Goto(q, Idle)
  /\ missed' = IF At(q, "unlink") THEN missed \cup {request[q].photo} ELSE missed
  /\ UNCHANGED <<reports, votes, givenUp>> /\ UNCHANGED objects

\* 24 hours after it was filed a report stops counting against the quota.
Age(r) ==
  /\ Exists(r) /\ reports[r].recent
  /\ reports' = [reports EXCEPT ![r].recent = FALSE]
  /\ UNCHANGED <<votes, request, faults>> /\ UNCHANGED storage

\* prune_old_data
Prune(r) ==
  /\ Exists(r) /\ ~reports[r].recent
  /\ Drop(r)
  /\ UNCHANGED <<request, faults>> /\ UNCHANGED storage

-----------------------------------------------------------------------------
Serve(q) ==
  \/ \E d \in Devices : \/ \E p \in Photos \cup {NoPhoto} : File(q, d, p)
                        \/ \E r \in Reports : Vote(q, d, r) \/ Withdraw(q, d, r)
  \/ \E r \in Reports : Insert(q, r) \/ \E s \in Shown : Moderate(q, r, s)
  \/ CountRecent(q) \/ Ballot(q) \/ Recount(q) \/ SetUpvotes(q)
  \/ DeleteOwn(q) \/ Unlink(q) \/ Fail(q)

Next ==
  \/ \E q \in Requests : Serve(q)
  \/ \E p \in Photos : Upload(p) \/ \E d \in Devices : Sign(d, p)
  \/ \E r \in Reports : Age(r) \/ Prune(r)

Spec == Init /\ [][Next]_vars

-----------------------------------------------------------------------------
\* A vote is accepted once: no two requests are past the insert with the same
\* vote, however they interleave (the primary key of report_votes).
AcceptedOnce ==
  \A q1, q2 \in Requests :
    /\ request[q1].pc \in {"recount", "write"} /\ request[q2].pc \in {"recount", "write"}
    /\ request[q1].report = request[q2].report
    /\ request[q1].device = request[q2].device
    => q1 = q2

\* The count shown never exceeds the confirmations recorded, whatever recounts
\* overtake one another, fail or meet a deletion.
NeverOvercounted ==
  \A r \in Reports : Exists(r) => reports[r].upvotes <= Tally(r)

\* What makes the two inductive: votes are for reports that exist, and a request
\* past the insert has its vote in the table, and has read a count that was not
\* too high, unless the report has been deleted since. Ids are not used twice.
VoteInv ==
  /\ \A v \in votes : Exists(v[1])
  /\ \A q \in Requests : request[q].pc \in {"ballot", "recount", "write"}
       => reports[request[q].report].state # "unfiled"
  /\ \A q \in Requests : request[q].pc \in {"recount", "write"} /\ Exists(request[q].report)
       => <<request[q].report, request[q].device>> \in votes
  /\ \A q \in Requests : request[q].pc = "write" /\ Exists(request[q].report)
       => request[q].total <= Tally(request[q].report)
  /\ AcceptedOnce /\ NeverOvercounted

\* While nobody is confirming a report, the count shown is the count recorded.
UpvotesSettled ==
  \A r \in Reports :
    Exists(r) /\ (\A q \in Requests :
                    request[q].report = r => request[q].pc \notin {"ballot", "recount", "write"})
    => reports[r].upvotes = Tally(r)

\* Requests that have read a count below the quota and have not inserted yet.
Inserting(d) == {q \in Requests : request[q].pc = "insert" /\ request[q].device = d}

\* Requests that overlap may overrun the quota, but never by as many as there
\* are: those already past the check count against the overrun.
OverrunBounded ==
  \A d \in Devices :
    Cardinality(Recent(d)) + Cardinality(Inserting(d))
      <= DailyQuota + Cardinality(Requests) - 1

\* The quota of each device is the soft one: reports filed today, and requests
\* past the check.
Quota(d) == INSTANCE SoftQuota WITH
  Limit <- DailyQuota,
  held <- Cardinality(Recent(d)),
  cleared <- Inserting(d)

QuotaIsSoft ==
  /\ \A d \in Devices : Quota(d)!Init
  /\ [][\A d \in Devices : [Quota(d)!Next]_(Quota(d)!vars)]_vars

Standing(r) == reports[r].state \in {"visible", "hidden"}

\* A standing report loses its photo only to a report with the same photo that
\* its owner withdrew or a moderator removed: itself, if it was restored, or
\* another one. Hiding a report, retention, and a withdrawal that comes too late
\* to delete the row leave the photo alone.
PhotoKept ==
  \A r \in Reports :
    Standing(r) /\ reports[r].photo # NoPhoto /\ bucket[reports[r].photo] = "unlinked"
    => \E x \in Reports : <<x, reports[r].photo>> \in givenUp

\* A report withdrawn or removed takes its photo along: it is deleted, or a
\* request is about to, or the deletion failed or came before the upload.
PhotoErased ==
  \A v \in givenUp :
    \/ bucket[v[2]] = "unlinked" \/ v[2] \in missed
    \/ \E q \in Requests : At(q, "unlink") /\ request[q].photo = v[2]

\* What makes PhotoKept inductive: whoever unlinks a photo does it for a report
\* that was given up, and the photo read before the row was deleted is the row's.
PhotoInv ==
  /\ \A q \in Requests : At(q, "delete") =>
       /\ reports[request[q].report].state # "unfiled"
       /\ Exists(request[q].report) => request[q].photo = reports[request[q].report].photo
  /\ \A q \in Requests : At(q, "unlink") =>
       \E x \in Reports : <<x, request[q].photo>> \in givenUp
  /\ \A p \in Photos : bucket[p] = "unlinked" => \E x \in Reports : <<x, p>> \in givenUp

\* A report keeps its photo unless it was itself removed.
OthersKeepPhoto ==
  \A r \in Reports :
    Standing(r) /\ reports[r].photo # NoPhoto /\ bucket[reports[r].photo] = "unlinked"
    => <<r, reports[r].photo>> \in givenUp

\* A removal can be reversed: a report that stands again has its photo.
RemovalReversible ==
  \A r \in Reports :
    Standing(r) /\ <<r, reports[r].photo>> \in givenUp
    => bucket[reports[r].photo] # "unlinked"
=============================================================================
