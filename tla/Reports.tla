------------------------------ MODULE Reports -------------------------------
(***************************************************************************)
(* The figures: the marketplace report of an Administrator, the report of  *)
(* an Organization Manager, and the ordinary and correction-history        *)
(* extracts, over the attendance, the credits and the Sponsorships of one  *)
(* Course.  Each handler that writes what they read is one step, and each  *)
(* is computed from what is committed at one instant.                      *)
(***************************************************************************)
EXTENDS Integers, FiniteSetsExt, Sequences

CONSTANTS
  ReportedBookings, Attendees, AttendeeOf,
  HeldSessions, SessionAttended,     \* of each Booking
  SessionStart, UnitTaught,          \* of each Class Session
  Ties, TiedStudent, TiedTo,         \* Sponsorships: Student, Organization
  Cohorted,                          \* Cohort windows, from an acceptance
  SessionLength, TimelyWindow,
  CreditsPerGrant, ListLimit,
  Ranges,                            \* the periods asked for
  AskedFor,          \* bound: Bookings whose review is asked for
  Vacating,          \* bound: Bookings that may be given up
  MaxRevised,        \* bound: corrections of all Bookings
  LastInstant        \* bound: the clock

ASSUME ReportsAssumption ==
  /\ IsFiniteSet(ReportedBookings) /\ IsFiniteSet(Ties)
  /\ SessionStart \in [HeldSessions -> Nat]
  /\ Ranges \subseteq (Nat \X Nat)
  /\ SessionLength \in Nat /\ TimelyWindow \in Nat
  /\ CreditsPerGrant \in Nat /\ ListLimit \in Nat
  /\ \A w \in Cohorted : w.after \in Nat /\ w.until \in Nat

VARIABLES
  today,          \* the clock
  seat,           \* bookings: state, terminal_reason, ended_at, refund
  calledOff,      \* Class Sessions whose state is CANCELLED
  recorded,       \* attendance_records.outcome, or that there is none
  corrected,      \* attendance_record_corrections
  reviewed,       \* attendance_review_requests.state, or that there is none
  earnedWith,     \* lesson_unit_completions: the Booking that earned it
  tie,            \* sponsorships
  frozen,         \* course_progress_snapshots
  revised         \* course_progress_snapshot_revisions

attendanceFacts == <<seat, calledOff, recorded, corrected, reviewed>>
progressFacts == <<earnedWith, frozen, revised>>
reportVars == <<today, attendanceFacts, progressFacts, tie>>

Recordable == {"ATTENDED", "NO_SHOW"}
Missing == "UNRECORDED"
None == "none"
Forever == LastInstant + 1
Starts == "SPONSORSHIP_START"
Finishes == "SPONSORSHIP_END"
TaughtUnits == {UnitTaught[s] : s \in HeldSessions}
Sponsors == {TiedTo[p] : p \in Ties}

StartOf(b) == SessionStart[SessionAttended[b]]
EndOf(b) == StartOf(b) + SessionLength
UnitOfBooking(b) == UnitTaught[SessionAttended[b]]

NotFrozen == [capturedAt |-> Forever, completed |-> 0]

ReportsInit ==
  /\ today = 0
  /\ seat = [b \in ReportedBookings |->
       [state |-> "ACTIVE", reason |-> None, endedAt |-> Forever,
        refunded |-> FALSE]]
  /\ calledOff = {}
  /\ recorded = [b \in ReportedBookings |-> Missing]
  /\ corrected = [b \in ReportedBookings |-> <<>>]
  /\ reviewed = [b \in ReportedBookings |-> None]
  /\ earnedWith = [k \in Attendees \X TaughtUnits |-> None]
  /\ tie = [p \in Ties |->
       [state |-> None, acceptedAt |-> Forever, endedAt |-> Forever]]
  /\ frozen = [p \in Ties |-> [d \in {Starts, Finishes} |-> NotFrozen]]
  /\ revised = [p \in Ties |-> [d \in {Starts, Finishes} |-> <<>>]]

----------------------------------------------------------------------------
(* Seats that are given up or taken away, all before the session starts.   *)

Vacated(reason, refunded) ==
  [state |-> "ENDED", reason |-> reason, endedAt |-> today,
   refunded |-> refunded]

\* excused: the Teacher was replaced, or the Booking was promoted just now.
IsRefunded(b, reason, excused) ==
  CASE reason = "STUDENT_CANCELLATION" ->
         StartOf(b) - today >= TimelyWindow \/ excused
    [] reason = "RESCHEDULED" -> FALSE
    [] OTHER -> TRUE

Leave(b, reason, excused) ==
  /\ seat[b].state = "ACTIVE"
  /\ today < StartOf(b)
  /\ seat' = [seat EXCEPT ![b] =
                Vacated(reason, IsRefunded(b, reason, excused))]
  /\ UNCHANGED <<today, calledOff, recorded, corrected, reviewed,
                 progressFacts, tie>>

CallOff(s) ==
  /\ s \notin calledOff
  /\ today < SessionStart[s]
  /\ calledOff' = calledOff \cup {s}
  /\ seat' = [b \in ReportedBookings |->
       IF SessionAttended[b] = s /\ seat[b].state = "ACTIVE"
       THEN Vacated("CLASS_SESSION_CANCELLATION", TRUE) ELSE seat[b]]
  /\ UNCHANGED <<today, recorded, corrected, reviewed, progressFacts, tie>>

----------------------------------------------------------------------------
(* Attendance and what follows from it.                                    *)

\* The completion that holds once b has the outcome new.
EarnedAfter(b, new) ==
  LET k == <<AttendeeOf[b], UnitOfBooking(b)>>
      others == {c \in ReportedBookings \ {b} :
                   /\ <<AttendeeOf[c], UnitOfBooking(c)>> = k
                   /\ recorded[c] = "ATTENDED"}
  IN
  IF new = "ATTENDED" THEN IF earnedWith[k] = None THEN b ELSE earnedWith[k]
  ELSE IF recorded[b] # "ATTENDED" THEN earnedWith[k]
  ELSE IF others = {} THEN None
  ELSE CHOOSE c \in others : \A d \in others : EndOf(c) <= EndOf(d)

EarnedBefore(earned, u, at) ==
  Cardinality({n \in TaughtUnits :
    earned[u, n] # None /\ EndOf(earned[u, n]) <= at})

\* The frozen boundaries whose count another set of completions changes.
Recounts(earned, p, d) ==
  /\ frozen[p][d] # NotFrozen
  /\ EarnedBefore(earned, TiedStudent[p], frozen[p][d].capturedAt)
       # frozen[p][d].completed

\* What happens to the outcomes, completions and boundaries when the outcomes
\* new are written, each for a Student of its own.
Publish(new) ==
  LET earned == [k \in DOMAIN earnedWith |->
        LET own == {b \in DOMAIN new : <<AttendeeOf[b], UnitOfBooking(b)>> = k}
        IN IF own = {} THEN earnedWith[k]
           ELSE LET b == CHOOSE c \in own : TRUE IN EarnedAfter(b, new[b])]
  IN
  /\ recorded' = [b \in ReportedBookings |->
       IF b \in DOMAIN new THEN new[b] ELSE recorded[b]]
  /\ corrected' = [b \in ReportedBookings |->
       IF b \in DOMAIN new /\ recorded[b] \notin {Missing, new[b]}
       THEN Append(corrected[b], [prior |-> recorded[b], current |-> new[b]])
       ELSE corrected[b]]
  /\ earnedWith' = earned
  /\ frozen' = [p \in Ties |-> [d \in {Starts, Finishes} |->
       IF Recounts(earned, p, d)
       THEN [frozen[p][d] EXCEPT !.completed =
               EarnedBefore(earned, TiedStudent[p], frozen[p][d].capturedAt)]
       ELSE frozen[p][d]]]
  /\ revised' = [p \in Ties |-> [d \in {Starts, Finishes} |->
       IF Recounts(earned, p, d)
       THEN Append(revised[p][d], frozen[p][d].completed)
       ELSE revised[p][d]]]
  /\ UNCHANGED <<today, seat, calledOff, tie>>

MayRevise ==
  Cardinality(UNION {{b} \X DOMAIN corrected[b] : b \in ReportedBookings})
    < MaxRevised

Present(s) ==
  {b \in ReportedBookings : SessionAttended[b] = s /\ seat[b].state = "ACTIVE"}

RecordRoster(s, new) ==
  /\ SessionStart[s] + SessionLength <= today
  /\ Present(s) # {}
  /\ (\E b \in Present(s) : recorded[b] \notin {Missing, new[b]}) => MayRevise
  /\ Publish(new)
  /\ UNCHANGED reviewed

AskForReview(b) ==
  /\ recorded[b] # Missing
  /\ reviewed[b] = None
  /\ reviewed' = [reviewed EXCEPT ![b] = "PENDING"]
  /\ UNCHANGED <<today, seat, calledOff, recorded, corrected, progressFacts,
                 tie>>

CorrectAfterReview(b) ==
  /\ reviewed[b] = "PENDING"
  /\ MayRevise
  /\ Publish([c \in {b} |->
       IF recorded[b] = "ATTENDED" THEN "NO_SHOW" ELSE "ATTENDED"])
  /\ reviewed' = [reviewed EXCEPT ![b] = "CORRECTED"]

----------------------------------------------------------------------------
(* Sponsorships: one of a Student at a time, with a boundary frozen at     *)
(* each end.                                                               *)

Freeze(p, d) ==
  LET u == TiedStudent[p]
      count == Cardinality({n \in TaughtUnits : earnedWith[u, n] # None})
  IN
  frozen' = IF count > 0 \/ frozen[p][Starts] # NotFrozen
            THEN [frozen EXCEPT ![p][d] =
                    [capturedAt |-> today, completed |-> count]]
            ELSE frozen

BeginTie(p) ==
  /\ tie[p].state = None
  /\ \A q \in Ties : tie[q].state = "ACTIVE" =>
       TiedStudent[q] # TiedStudent[p]
  /\ tie' = [tie EXCEPT ![p] =
       [state |-> "ACTIVE", acceptedAt |-> today, endedAt |-> Forever]]
  /\ Freeze(p, Starts)
  /\ UNCHANGED <<today, attendanceFacts, earnedWith, revised>>

EndTie(p) ==
  /\ tie[p].state = "ACTIVE"
  /\ tie' = [tie EXCEPT ![p].state = "ENDED", ![p].endedAt = today]
  /\ Freeze(p, Finishes)
  /\ UNCHANGED <<today, attendanceFacts, earnedWith, revised>>

PassTime ==
  /\ today < LastInstant
  /\ today' = today + 1
  /\ UNCHANGED <<attendanceFacts, progressFacts, tie>>

ReportsNext ==
  \/ \E b \in Vacating, reason \in
        {"STUDENT_CANCELLATION", "RESCHEDULED", "ROLE_ASSIGNMENT_REMOVAL",
         "USER_SUSPENSION"}, excused \in BOOLEAN : Leave(b, reason, excused)
  \/ \E s \in HeldSessions : CallOff(s)
  \/ \E s \in HeldSessions : \E new \in [Present(s) -> Recordable] :
       RecordRoster(s, new)
  \/ \E b \in AskedFor : AskForReview(b)
  \/ \E b \in ReportedBookings : CorrectAfterReview(b)
  \/ \E p \in Ties : BeginTie(p)
  \/ \E p \in Ties : EndTie(p)
  \/ PassTime

----------------------------------------------------------------------------
(* marketplaceOperationalReport.                                           *)

InRange(at, range) == range[1] <= at /\ at < range[2]

IsCompleted(s) == SessionStart[s] <= today - SessionLength

\* Mutant: what was called off is asked about first.
CalledOffFirst(b) ==
  IF ~IsCompleted(SessionAttended[b]) THEN "NOT_YET_REPORTABLE"
  ELSE IF \/ seat[b].reason = "CLASS_SESSION_CANCELLATION"
          \/ SessionAttended[b] \in calledOff
  THEN "CLASS_SESSION_CANCELLATION"
  ELSE IF seat[b].reason = "STUDENT_CANCELLATION"
  THEN IF seat[b].endedAt <= StartOf(b) - TimelyWindow
       THEN "TIMELY_CANCELLATION" ELSE "LATE_CANCELLATION"
  ELSE IF seat[b].reason = "RESCHEDULED" THEN "RESCHEDULED"
  ELSE recorded[b]

\* The first condition that applies, in this order.
ReportedClassification(b) ==
  IF ~IsCompleted(SessionAttended[b]) THEN "NOT_YET_REPORTABLE"
  ELSE IF seat[b].reason = "STUDENT_CANCELLATION"
  THEN IF seat[b].endedAt <= StartOf(b) - TimelyWindow
       THEN "TIMELY_CANCELLATION" ELSE "LATE_CANCELLATION"
  ELSE IF seat[b].reason = "RESCHEDULED" THEN "RESCHEDULED"
  ELSE IF \/ seat[b].reason = "CLASS_SESSION_CANCELLATION"
          \/ SessionAttended[b] \in calledOff
  THEN "CLASS_SESSION_CANCELLATION"
  ELSE recorded[b]

ReportedActivity(range, classes) ==
  {b \in ReportedBookings : /\ InRange(StartOf(b), range)
                            /\ ReportedClassification(b) \in classes}

Cancelled == {"TIMELY_CANCELLATION", "LATE_CANCELLATION"}
Excluded == {"CLASS_SESSION_CANCELLATION", "RESCHEDULED"}

CountsOf(activity) ==
  [attended |-> Cardinality({b \in activity : recorded[b] = "ATTENDED"}),
   noShow |-> Cardinality({b \in activity : recorded[b] = "NO_SHOW"}),
   excludedUnrecorded |-> Cardinality({b \in activity : recorded[b] = Missing}),
   corrected |-> Cardinality({b \in activity : corrected[b] # <<>>})]

AttendanceCounts(range) ==
  CountsOf(ReportedActivity(range, Recordable \cup {Missing}))

CancellationCounts(range) ==
  [class \in Cancelled \cup Excluded |->
     Cardinality(ReportedActivity(range, {class}))]

\* A date is listed once something that is not excluded happened on it.
ListedDates(range) ==
  {StartOf(b) : b \in ReportedActivity(range,
                        Cancelled \cup Recordable \cup {Missing})}
DailyRate(date) ==
  LET day == <<date, date + 1>> IN
  [attendance |-> AttendanceCounts(day),
   cancellations |-> CancellationCounts(day)]

\* The ledger as its writers leave it: a Booking was paid for at the start.
Ledger ==
  {[source |-> "BOOKING_DEDUCTION", amount |-> -1, at |-> 0, of |-> b] :
     b \in ReportedBookings}
  \cup {[source |-> "BOOKING_REFUND", amount |-> 1, at |-> seat[b].endedAt,
         of |-> b] : b \in {c \in ReportedBookings : seat[c].refunded}}
  \cup {[source |-> "ORGANIZATION_CREDIT_GRANT", amount |-> CreditsPerGrant,
         at |-> tie[p].acceptedAt, of |-> p] :
        p \in {q \in Ties : tie[q].state # None}}

CreditReport(range) ==
  LET entries == {e \in Ledger : InRange(e.at, range)}
      net(of) == MapThenSumSet(LAMBDA e : e.amount,
                               {e \in entries : e.source \in of})
  IN
  [granted |-> net({"ORGANIZATION_CREDIT_GRANT"}),
   refunded |-> net({"BOOKING_REFUND"}),
   deducted |-> -net({"BOOKING_DEDUCTION"}),
   change |-> net({e.source : e \in entries})]

\* courseProgressReport: over every Student, now.
MarketplaceProgress ==
  LET held == {k \in DOMAIN earnedWith : earnedWith[k] # None} IN
  [completed |-> Cardinality(held),
   studentsWithProgress |-> Cardinality({k[1] : k \in held})]

CorrectionReport(range) ==
  LET within == {b \in ReportedBookings : InRange(StartOf(b), range)} IN
  [rows |-> UNION {{b} \X DOMAIN corrected[b] : b \in within},
   pending |-> Cardinality({b \in within : reviewed[b] = "PENDING"})]

\* Mutant: the sessions completed by the end of this instant's are left out.
UnrecordedBefore(range) ==
  {b \in ReportedBookings :
    /\ InRange(StartOf(b), range)
    /\ StartOf(b) < today - SessionLength
    /\ SessionAttended[b] \notin calledOff
    /\ seat[b].state = "ACTIVE" /\ recorded[b] = Missing}

\* The Bookings behind the items of each kind of exception.
UnrecordedItems(range) ==
  {b \in ReportedBookings :
    /\ InRange(StartOf(b), range)
    /\ IsCompleted(SessionAttended[b])
    /\ SessionAttended[b] \notin calledOff
    /\ seat[b].state = "ACTIVE" /\ recorded[b] = Missing}

PendingReviewItems(range) ==
  {b \in ReportedBookings :
    reviewed[b] = "PENDING" /\ InRange(StartOf(b), range)}

ExceptionItems(range) ==
  LET items(kind, behind) ==
        {[kind |-> kind, session |-> s, at |-> SessionStart[s],
          affected |-> Cardinality({b \in behind : SessionAttended[b] = s})] :
         s \in {SessionAttended[b] : b \in behind}}
  IN
  items("UNRECORDED_ATTENDANCE", UnrecordedItems(range))
  \cup items("PENDING_ATTENDANCE_REVIEW", PendingReviewItems(range))

\* By the start of the session, then by kind; no two sessions start together.
Precedes(i, j) ==
  \/ i.at < j.at
  \/ /\ i.at = j.at /\ i.kind # j.kind
     /\ i.kind = "PENDING_ATTENDANCE_REVIEW"

ActionableExceptions(range) ==
  LET items == ExceptionItems(range) IN
  [total |-> Cardinality(items),
   listed |-> {i \in items :
                 Cardinality({j \in items : Precedes(j, i)}) < ListLimit}]

----------------------------------------------------------------------------
(* organizationAttendanceAndProgressReport.                                *)

SponsorshipCovers(p, at) ==
  tie[p].state # None /\ tie[p].acceptedAt <= at /\ at < tie[p].endedAt

\* The activity of its Student a Sponsorship reports.
OrganizationActivity(p) ==
  {b \in ReportedBookings :
    /\ AttendeeOf[b] = TiedStudent[p]
    /\ seat[b].state = "ACTIVE" /\ SessionAttended[b] \notin calledOff
    /\ recorded[b] # Missing \/ EndOf(b) <= today
    /\ SponsorshipCovers(p, StartOf(b))}

CompletedNow(u) ==
  Cardinality({n \in TaughtUnits : earnedWith[u, n] # None})

IsFrozen(p, d) == frozen[p][d] # NotFrozen

\* The Cohort windows of a Sponsorship: they begin some time after its
\* acceptance, and its end closes those that run and drops those to come.
Windows(p) ==
  LET placed == {[cohort |-> w.cohort,
                  from |-> tie[p].acceptedAt + w.after,
                  until |-> Min({tie[p].acceptedAt + w.until,
                                 tie[p].endedAt})] : w \in Cohorted}
  IN
  IF tie[p].state = None THEN {}
  ELSE {w \in placed : w.from < tie[p].endedAt}

AttributedCohortIds(p, at) ==
  {w.cohort : w \in {v \in Windows(p) : v.from <= at /\ at < v.until}}

AnyCohort == "any"
CohortsOf == {w.cohort : w \in Cohorted}

\* Mutant: only those who are in the Cohort now.
CurrentMembers(o, cohort) ==
  {p \in Ties :
    /\ TiedTo[p] = o /\ tie[p].state # None
    /\ cohort # AnyCohort =>
         \E w \in Windows(p) : w.cohort = cohort /\ today < w.until}

ReportedSponsorships(o, cohort) ==
  {p \in Ties : /\ TiedTo[p] = o /\ tie[p].state # None
                /\ cohort # AnyCohort =>
                     \E w \in Windows(p) : w.cohort = cohort}

\* What the row of a Student counts when the reader asks for one Cohort.
StudentActivity(p, cohort) ==
  {b \in OrganizationActivity(p) :
    cohort # AnyCohort => cohort \in AttributedCohortIds(p, StartOf(b))}

Plus(c, d) == [attended |-> c.attended + d.attended,
               noShow |-> c.noShow + d.noShow,
               excludedUnrecorded |->
                 c.excludedUnrecorded + d.excludedUnrecorded,
               corrected |-> c.corrected + d.corrected]

\* The sum over a function whose values are counts.
Total(counts) ==
  MapThenFoldSet(Plus, CountsOf({}), LAMBDA x : counts[x],
                 LAMBDA rest : CHOOSE x \in rest : TRUE, DOMAIN counts)

OrganizationTotals(o, cohort) ==
  Total([p \in ReportedSponsorships(o, cohort) |->
           CountsOf(StudentActivity(p, cohort))])

\* The line of a Cohort in the breakdown, whatever the reader asks for.
CohortBreakdown(o, cohort) ==
  LET own == ReportedSponsorships(o, AnyCohort)
      covered(p) == {b \in OrganizationActivity(p) :
                       cohort \in AttributedCohortIds(p, StartOf(b))}
  IN
  [students |-> Cardinality({p \in own :
      \E w \in Windows(p) : w.cohort = cohort /\ w.from <= today}),
   attendance |-> Total([p \in own |-> CountsOf(covered(p))])]

\* The course is reported once it carries a fact; what is still effective of
\* an ended Sponsorship is its ending snapshot.
CourseProgressReport(p) ==
  [isReported |-> \/ \E d \in {Starts, Finishes} : IsFrozen(p, d)
                  \/ tie[p].state = "ACTIVE" /\ CompletedNow(TiedStudent[p]) > 0,
   baseline |-> frozen[p][Starts].completed,
   effective |-> IF tie[p].state = "ACTIVE" THEN CompletedNow(TiedStudent[p])
                 ELSE IF IsFrozen(p, Finishes)
                 THEN frozen[p][Finishes].completed
                 ELSE frozen[p][Starts].completed,
   revisions |-> Len(revised[p][Starts]) + Len(revised[p][Finishes])]

----------------------------------------------------------------------------
(* buildReportExtract.                                                     *)

Everyone == "ALL"
InScope(p, scope) == scope \in {Everyone, TiedTo[p]}

OverlapsRange(p, range) ==
  /\ tie[p].state # None
  /\ tie[p].acceptedAt < range[2] /\ tie[p].endedAt >= range[1]

ReportedWindow(p, range, at) == SponsorshipCovers(p, at) /\ InRange(at, range)

\* Mutant: the sessions that started with the Sponsorship are not counted.
MarkersAfterStart(p, range) ==
  UNION {{b} \X DOMAIN corrected[b] : b \in
    {c \in ReportedBookings : /\ AttendeeOf[c] = TiedStudent[p]
                              /\ tie[p].acceptedAt < StartOf(c)
                              /\ ReportedWindow(p, range, StartOf(c))}}

CorrectionMarkers(p, range) ==
  UNION {{b} \X DOMAIN corrected[b] : b \in
    {c \in ReportedBookings : /\ AttendeeOf[c] = TiedStudent[p]
                              /\ ReportedWindow(p, range, StartOf(c))}}

BoundaryRow(p, d) ==
  [sponsorship |-> p, kind |-> d, completed |-> frozen[p][d].completed,
   corrections |-> Len(revised[p][d])]

CurrentRow(p, range) ==
  [sponsorship |-> p, kind |-> "current",
   completed |-> CompletedNow(TiedStudent[p]),
   corrections |-> Cardinality(CorrectionMarkers(p, range))]

\* Mutant: a live row for an ended Sponsorship too.
CurrentForEvery(p) == tie[p].state # None /\ CompletedNow(TiedStudent[p]) > 0

HasCurrentRow(p) ==
  /\ tie[p].state = "ACTIVE"
  /\ \/ \E d \in {Starts, Finishes} : IsFrozen(p, d)
     \/ CompletedNow(TiedStudent[p]) > 0

OrdinaryRows(scope, range) ==
  LET reported == {p \in Ties : InScope(p, scope) /\ OverlapsRange(p, range)}
  IN
  {BoundaryRow(x[1], x[2]) :
     x \in {y \in reported \X {Starts, Finishes} : IsFrozen(y[1], y[2])}}
  \cup {CurrentRow(p, range) : p \in {q \in reported : HasCurrentRow(q)}}

\* Mutant: any Sponsorship of the Student covers the session.
CoversAnyTime(p, b) ==
  tie[p].state # None /\ TiedStudent[p] = AttendeeOf[b]

CoversSession(p, b) ==
  TiedStudent[p] = AttendeeOf[b] /\ SponsorshipCovers(p, StartOf(b))

\* One row per correction of a session in the period, with the Organization
\* that covered it, and one per revision of a boundary.
AttendanceHistory(scope, range) ==
  LET covering(b) == {p \in Ties : InScope(p, scope) /\ CoversSession(p, b)}
      kept == {b \in ReportedBookings :
                 /\ InRange(StartOf(b), range)
                 /\ scope # Everyone => covering(b) # {}}
  IN
  {[booking |-> x[1], sequence |-> x[2],
    organization |-> IF covering(x[1]) = {} THEN None
                     ELSE TiedTo[CHOOSE p \in covering(x[1]) : TRUE]] :
     x \in UNION {{b} \X DOMAIN corrected[b] : b \in kept}}

BoundaryHistory(scope, range) ==
  UNION {{<<p, d>>} \X DOMAIN revised[p][d] :
    p \in {q \in Ties : InScope(q, scope) /\ OverlapsRange(q, range)},
    d \in {Starts, Finishes}}

----------------------------------------------------------------------------
(* Properties.                                                             *)

LosesSeatToAuthority(b) ==
  /\ seat[b].reason \in {"ROLE_ASSIGNMENT_REMOVAL", "USER_SUSPENSION"}
  /\ SessionAttended[b] \notin calledOff

AffectedBookings(range, kind) ==
  MapThenSumSet(LAMBDA i : i.affected,
                {i \in ExceptionItems(range) : i.kind = kind})

\* Behind the counts of the marketplace report are the exceptions it lists:
\* what it excludes as Unrecorded waits to be recorded, but for the Bookings
\* a suspension or a removal ended, and a review it counts as pending has an
\* item.  A Booking it marks as corrected has a correction that it counts.
ExceptionsExplainCounts ==
  \A range \in Ranges :
    /\ AttendanceCounts(range).excludedUnrecorded =
         AffectedBookings(range, "UNRECORDED_ATTENDANCE")
         + Cardinality({b \in ReportedBookings :
             /\ InRange(StartOf(b), range) /\ LosesSeatToAuthority(b)
             /\ IsCompleted(SessionAttended[b])})
    /\ CorrectionReport(range).pending =
         AffectedBookings(range, "PENDING_ATTENDANCE_REVIEW")
    /\ AttendanceCounts(range).corrected =
         Cardinality({x[1] : x \in CorrectionReport(range).rows})

\* The history an Organization or an Administrator extracts explains the
\* correction markers of the ordinary extract of the same period: those of
\* the sessions a Sponsorship covered, and those of its frozen boundaries.
HistoryExplainsMarkers ==
  \A scope \in Sponsors \cup {Everyone}, range \in Ranges :
    \A row \in OrdinaryRows(scope, range) :
      LET p == row.sponsorship IN
      row.corrections =
        IF row.kind = "current"
        THEN Cardinality({h \in AttendanceHistory(scope, range) :
               /\ h.organization = TiedTo[p]
               /\ AttendeeOf[h.booking] = TiedStudent[p]
               /\ SponsorshipCovers(p, StartOf(h.booking))})
        ELSE Cardinality({h \in BoundaryHistory(scope, range) :
               h[1] = <<p, row.kind>>})

\* What an Organization reads on the page is what it may extract: the same
\* courses with the same figures, live while the Sponsorship is and frozen
\* after it, and the corrections of the same Bookings.
PageMatchesExtract ==
  \A o \in Sponsors :
    LET whole == <<0, Forever>>
        rows == OrdinaryRows(o, whole)
    IN
    \A p \in {q \in Ties : TiedTo[q] = o /\ tie[q].state # None} :
      LET report == CourseProgressReport(p)
          own == {row \in rows : row.sponsorship = p}
          last == IF tie[p].state = "ACTIVE" THEN "current" ELSE Finishes
      IN
      /\ report.isReported <=> own # {}
      /\ \A row \in own :
           /\ row.kind = Starts => row.completed = report.baseline
           /\ tie[p].state = "ENDED" => row.kind # "current"
           /\ row.kind = last => row.completed = report.effective
      /\ {b \in OrganizationActivity(p) : corrected[b] # <<>>} =
           {h.booking : h \in {g \in AttendanceHistory(o, whole) :
              SponsorshipCovers(p, StartOf(g.booking))
              /\ AttendeeOf[g.booking] = TiedStudent[p]}}

\* Nothing a Student did is reported to two Organizations, however closely
\* one Sponsorship follows the other.
NobodyIsReportedTwice ==
  \A p, q \in Ties :
    TiedTo[p] # TiedTo[q] =>
      OrganizationActivity(p) \cap OrganizationActivity(q) = {}

AllTime == <<0, Forever>>

\* The report reads the clock of a Student Cancellation and the ledger by
\* queries of their own, and they tell one story: every credit that came back
\* belongs to a timely cancellation, to a late one that was excused, to a
\* session called off, or to a suspension or a removal.
RefundsAreExplained ==
  LET late == {b \in ReportedActivity(AllTime, {"LATE_CANCELLATION"}) :
                 seat[b].refunded}
      lost == {b \in ReportedBookings : /\ LosesSeatToAuthority(b)
                                        /\ IsCompleted(SessionAttended[b])}
      counts == CancellationCounts(AllTime)
  IN
  (\A s \in HeldSessions : IsCompleted(s)) =>
    CreditReport(AllTime).refunded =
      counts["TIMELY_CANCELLATION"] + counts["CLASS_SESSION_CANCELLATION"]
      + Cardinality(late) + Cardinality(lost)

\* Nothing is lost or counted twice between two periods of which one begins
\* where the other ends, nor between the dates of one.
PeriodsAddUp ==
  /\ \A first, second \in Ranges : first[2] = second[1] =>
       LET both == <<first[1], second[2]>> IN
       /\ CreditReport(both).change =
            CreditReport(first).change + CreditReport(second).change
       /\ AttendanceCounts(both) =
            Plus(AttendanceCounts(first), AttendanceCounts(second))
       /\ \A class \in Cancelled \cup Excluded :
            CancellationCounts(both)[class] =
              CancellationCounts(first)[class]
              + CancellationCounts(second)[class]
  /\ \A class \in Cancelled :
       CancellationCounts(AllTime)[class] =
         MapThenSumSet(LAMBDA d : DailyRate(d).cancellations[class],
                       ListedDates(AllTime))
  /\ AttendanceCounts(AllTime) =
       Total([d \in ListedDates(AllTime) |-> DailyRate(d).attendance])

\* The progress the marketplace reports is that of the outcomes it counts as
\* Attended: each Lesson Unit once for a Student, whatever was corrected.
ProgressIsAttended ==
  LET attended == ReportedActivity(AllTime, {"ATTENDED"}) IN
  /\ MarketplaceProgress.completed =
       Cardinality({<<AttendeeOf[b], UnitOfBooking(b)>> : b \in attended})
  /\ MarketplaceProgress.studentsWithProgress =
       Cardinality({AttendeeOf[b] : b \in attended})

\* Of a Sponsorship whose start was frozen, the gain an Organization reads is
\* what its Student completed while it was the Sponsor, counted between two
\* boundaries that are themselves revised: what was learned before the
\* acceptance stays out of it, even when it is recorded, or corrected, after it.
\* Nothing is said without a frozen start: there, what was attended before the
\* acceptance and recorded after it counts as gain.
GainsAreEarnedMeanwhile ==
  \A p \in {q \in Ties : IsFrozen(q, Starts)} :
    LET report == CourseProgressReport(p)
        earned == earnedWith
        u == TiedStudent[p]
    IN
    report.effective - report.baseline =
      Cardinality({n \in TaughtUnits :
        /\ earned[u, n] # None
        /\ tie[p].acceptedAt < EndOf(earned[u, n])
        /\ EndOf(earned[u, n]) <= tie[p].endedAt})

\* A reader who asks for one Cohort sees the counts of its line in the
\* breakdown, row by row: members who left it included, and a Student whose
\* windows in it overlap counted once.
CohortsAddUp ==
  \A o \in Sponsors, g \in CohortsOf :
    /\ OrganizationTotals(o, g) = CohortBreakdown(o, g).attendance
    /\ CohortBreakdown(o, g).students
         <= Cardinality(ReportedSponsorships(o, g))

\* The reports and the extracts, computed by queries of their own, agree.
ReportsAgree ==
  /\ ExceptionsExplainCounts
  /\ HistoryExplainsMarkers
  /\ PageMatchesExtract
  /\ NobodyIsReportedTwice
  /\ RefundsAreExplained
  /\ PeriodsAddUp
  /\ ProgressIsAttended
  /\ GainsAreEarnedMeanwhile
  /\ CohortsAddUp

=============================================================================
