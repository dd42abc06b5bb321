---------------------------- MODULE Marketplace ----------------------------
(***************************************************************************)
(* The scheduling core of the marketplace: Class Sessions, Bookings, Class *)
(* Credits, Waitlist Entries, Absence Requests, Schedule Commitments,      *)
(* Class Session Reminders and User access.  Every variable is a table (or *)
(* a column of one); every action is one committed database transaction.   *)
(*                                                                         *)
(* A transaction is one step because each handler first takes the per-User *)
(* advisory lock and the row locks of the Class Session, the Booking and   *)
(* the Class Credit Account, and writes only under them.  What runs        *)
(* OUTSIDE a transaction (the authentication of a request, the snapshots   *)
(* of a worker pass) is modelled in RoleAccess and WaitlistWorker.         *)
(***************************************************************************)
EXTENDS Integers, FiniteSets

CONSTANTS
  Students,         \* Users who may hold the Student Role Assignment
  Teachers,         \* Users who may hold the Teacher Role Assignment
  Sessions,         \* identifiers of Class Sessions
  StartsAt,         \* the start instant of each Class Session
  LessonUnit,       \* the Lesson Unit each Class Session delivers
  Qualified,        \* <<teacher, lesson unit>> Teacher Qualifications
  Available,        \* <<teacher, session>> where Teacher Availability fits
  Capacities,       \* Seat Capacities an Administrator may choose
  Adjustments,      \* <<Student, amount>> of a Credit Adjustment
  SuspensionTargets, \* Users an Administrator may suspend and reactivate
  RoleTargets,      \* <<user, role>> an Administrator may remove and grant
  InitialCredits,   \* Class Credits every Student was granted at the start
  MaxBookings,      \* bound: Bookings ever created
  MaxEntries,       \* bound: Waitlist Entries ever created
  MaxAbsences,      \* bound: Absence Requests ever reported
  MaxBalance,       \* bound: no adjustment raises a balance above this
  MaxVersion,       \* bound: no capacity change past this request version
  MaxTime,          \* bound: the clock stops here
  MaxLag,           \* bound: how far a worker's clock may be behind
  BookingLead,      \* 30 minutes: booking closes this long before the start
  WaitlistLead,     \* 2 hours: a Waitlist Entry expires this long before
  RefundLead,       \* 24 hours: cancelling earlier than this is refunded
  ReminderLead,     \* 24 hours: a reminder is due this long before the start
  Duration,         \* 60 minutes: the length of every Class Session
  PromotionGrace    \* 30 minutes: a promoted booking stays refundable

Users == Students \cup Teachers
Roles == {"STUDENT", "TEACHER"}
InitialRoles == (Students \X {"STUDENT"}) \cup (Teachers \X {"TEACHER"})
BookingIds == 1 .. MaxBookings
EntryIds == 1 .. MaxEntries
AbsenceIds == 1 .. MaxAbsences

ASSUME ConstantsAssumption ==
  /\ IsFiniteSet(Sessions)
  /\ StartsAt \in [Sessions -> Nat]
  /\ Capacities \subseteq 2 .. 8
  /\ Adjustments \subseteq Students \X (Int \ {0})
  /\ SuspensionTargets \subseteq Users
  /\ RoleTargets \subseteq InitialRoles
  /\ InitialCredits \in Nat
  /\ MaxBookings \in Nat /\ MaxEntries \in Nat /\ MaxAbsences \in Nat
  /\ MaxBalance \in Nat /\ MaxVersion \in Nat /\ MaxTime \in Nat
  /\ MaxLag \in Nat

NoUser == "no user"
NoSession == "no session"
ASSUME NullAssumption == NoUser \notin Users /\ NoSession \notin Sessions

VARIABLES
  now,              \* the current instant
  sessionState,     \* class_sessions.state, NONE before publication
  teacherOf,        \* class_sessions.teacher_user_id
  seatCapacity,     \* class_sessions.seat_capacity
  occupiedSeats,    \* class_sessions.occupied_seats
  bookings,         \* the bookings table
  commitments,      \* the active rows of schedule_commitments
  balance,          \* class_credit_accounts.available_balance
  adjusted,         \* sum of the CREDIT_ADJUSTMENT rows of the ledger
  ledger,           \* the booking rows of class_credit_ledger_entries
  entries,          \* the waitlist_entries table, ids in join order
  requestVersion,   \* waitlist_promotion_requests.request_version
  requestPending,   \* waitlist_promotion_requests.processed_at is null
  absences,         \* absence_requests with their absence_request_sessions
  reminders,        \* class_session_reminders.terminal_outcome
  accessStatus,     \* users.access_status
  roles             \* role_assignments

sessionVars == <<sessionState, teacherOf, seatCapacity, occupiedSeats>>
creditVars == <<balance, adjusted, ledger>>
requestVars == <<requestVersion, requestPending>>
accessVars == <<accessStatus, roles>>
vars == <<now, sessionVars, bookings, commitments, creditVars, entries,
          requestVars, absences, reminders, accessVars>>

----------------------------------------------------------------------------
(* The pure time rules of packages/core: when a Class Session can still be *)
(* booked, when a cancellation returns the Class Credit, when a Waitlist   *)
(* Entry expires, and when two one-hour sessions overlap.  The source      *)
(* counts milliseconds; here a tick is an abstract unit and the leads keep *)
(* only their order (30 minutes < 2 hours < 24 hours).                     *)

ASSUME LeadAssumption ==
  /\ BookingLead \in Nat \ {0}
  /\ WaitlistLead \in Nat
  /\ RefundLead \in Nat
  /\ ReminderLead \in Nat
  /\ BookingLead < WaitlistLead
  /\ WaitlistLead < RefundLead
  /\ ReminderLead = RefundLead
  /\ Duration \in Nat \ {0}
  /\ PromotionGrace \in Nat \ {0}

(* Instants are integers: a deadline may fall before the model's origin.   *)

BookingWindowIsOpen(t, start) == start - t >= BookingLead

StudentCancellationCreditOutcome(t, start) ==
  IF start <= t THEN "CLOSED"
  ELSE IF start - t >= RefundLead THEN "REFUND"
  ELSE "FORFEIT"

WaitlistExpiresAt(start) == start - WaitlistLead

WaitlistIsOpen(t, start) == t < WaitlistExpiresAt(start)

ReminderDueAt(start) == start - ReminderLead

(* Two half-open sessions [start, start + Duration) meet.                  *)
Overlap(start1, start2) ==
  /\ start1 < start2 + Duration
  /\ start2 < start1 + Duration

----------------------------------------------------------------------------
(* The rows.                                                               *)

EndReasons == {"STUDENT_CANCELLATION", "RESCHEDULED",
               "CLASS_SESSION_CANCELLATION", "USER_SUSPENSION",
               "ROLE_ASSIGNMENT_REMOVAL"}

\* refundUntil is -1 and from is 0 where the column is null.
Booking == [state : {"NONE", "ACTIVE", "ENDED"},
            student : Students \cup {NoUser},
            session : Sessions \cup {NoSession},
            teacher : Teachers \cup {NoUser},
            reason : EndReasons \cup {"NULL"},
            refunded : BOOLEAN,
            refundUntil : Int,
            from : {0} \cup BookingIds]

NoBooking == [state |-> "NONE", student |-> NoUser, session |-> NoSession,
              teacher |-> NoUser, reason |-> "NULL", refunded |-> FALSE,
              refundUntil |-> -1, from |-> 0]

Entry == [state : {"NONE", "ACTIVE", "PROMOTED", "WITHDRAWN", "EXPIRED",
                   "INELIGIBLE"},
          student : Students \cup {NoUser},
          session : Sessions \cup {NoSession},
          booking : {0} \cup BookingIds]

NoEntry == [state |-> "NONE", student |-> NoUser, session |-> NoSession,
            booking |-> 0]

Absence == [state : {"NONE", "OPEN", "RESOLVED"},
            teacher : Teachers \cup {NoUser},
            rows : [Sessions -> {"NONE", "UNRESOLVED", "TEACHER_SUBSTITUTION",
                                 "CLASS_SESSION_CANCELLATION"}]]

NoAbsence == [state |-> "NONE", teacher |-> NoUser,
              rows |-> [s \in Sessions |-> "NONE"]]

Commitments == Users \X Sessions \X Roles
LedgerRows == {"BOOKING_DEDUCTION", "BOOKING_REFUND"} \X BookingIds

TypeOK ==
  /\ now \in 0 .. MaxTime
  /\ sessionState \in [Sessions -> {"NONE", "PUBLISHED", "CANCELLED"}]
  /\ teacherOf \in [Sessions -> Teachers \cup {NoUser}]
  /\ seatCapacity \in [Sessions -> 0 .. 8]
  /\ occupiedSeats \in [Sessions -> Int]
  /\ bookings \in [BookingIds -> Booking]
  /\ commitments \subseteq Commitments
  /\ balance \in [Students -> Int]
  /\ adjusted \in [Students -> Int]
  /\ ledger \subseteq LedgerRows
  /\ entries \in [EntryIds -> Entry]
  /\ requestVersion \in [Sessions -> Nat]
  /\ requestPending \in [Sessions -> BOOLEAN]
  /\ absences \in [AbsenceIds -> Absence]
  /\ reminders \in [Commitments -> {"NONE", "OPEN", "SUPPRESSED", "DELIVERED"}]
  /\ accessStatus \in [Users -> {"ACTIVE", "SUSPENDED"}]
  /\ roles \subseteq Users \X Roles

Init ==
  /\ now = 0
  /\ sessionState = [s \in Sessions |-> "NONE"]
  /\ teacherOf = [s \in Sessions |-> NoUser]
  /\ seatCapacity = [s \in Sessions |-> 0]
  /\ occupiedSeats = [s \in Sessions |-> 0]
  /\ bookings = [b \in BookingIds |-> NoBooking]
  /\ commitments = {}
  /\ balance = [u \in Students |-> InitialCredits]
  /\ adjusted = [u \in Students |-> InitialCredits]
  /\ ledger = {}
  /\ entries = [e \in EntryIds |-> NoEntry]
  /\ requestVersion = [s \in Sessions |-> 0]
  /\ requestPending = [s \in Sessions |-> FALSE]
  /\ absences = [a \in AbsenceIds |-> NoAbsence]
  /\ reminders = [k \in Commitments |-> "NONE"]
  /\ accessStatus = [u \in Users |-> "ACTIVE"]
  /\ roles = InitialRoles

----------------------------------------------------------------------------
(* Queries the handlers share.                                             *)

\* Rows are inserted in id order: the first row not yet used.
FreshBooking(b) ==
  /\ bookings[b].state = "NONE"
  /\ \A c \in BookingIds : c < b => bookings[c].state # "NONE"

FreshEntry(e) ==
  /\ entries[e].state = "NONE"
  /\ \A d \in EntryIds : d < e => entries[d].state # "NONE"

FreshAbsence(a) ==
  /\ absences[a].state = "NONE"
  /\ \A c \in AbsenceIds : c < a => absences[c].state # "NONE"

ActiveBookings(u, s) ==
  {b \in BookingIds : /\ bookings[b].state = "ACTIVE"
                      /\ bookings[b].student = u
                      /\ bookings[b].session = s}

Occupants(s) ==
  {b \in BookingIds : bookings[b].state = "ACTIVE" /\ bookings[b].session = s}

FutureBookings(u) ==
  {b \in BookingIds : /\ bookings[b].state = "ACTIVE"
                      /\ bookings[b].student = u
                      /\ \E s \in Sessions : /\ bookings[b].session = s
                                             /\ StartsAt[s] > now}

ActiveEntries == {e \in EntryIds : entries[e].state = "ACTIVE"}

\* Mutant: one seat too many.
HasFreeSeatOffByOne(s) == occupiedSeats[s] <= seatCapacity[s]

HasFreeSeat(s) == occupiedSeats[s] < seatCapacity[s]

\* Mutant: the access status is not looked at.
AnyActor(u) == u \in Users

\* lockActiveActor, at the start of every mutation's transaction.
ActorIsActive(u) == accessStatus[u] = "ACTIVE"

\* Mutant: an ended Booking counts as well.
IsUsed(b) == bookings[b].state # "NONE"

IsActive(b) == bookings[b].state = "ACTIVE"

\* Mutant: only sessions that start together conflict.
ScheduleConflictSameStart(u, s, exempt) ==
  \E k \in commitments \ exempt : k[1] = u /\ StartsAt[k[2]] = StartsAt[s]

\* A commitment of the User, other than the exempted ones, overlaps s.
ScheduleConflict(u, s, exempt) ==
  \E k \in commitments \ exempt : /\ k[1] = u
                                  /\ Overlap(StartsAt[k[2]], StartsAt[s])

\* createEligibleStudentBooking's three checks.
BookingEligible(u, s) ==
  /\ ActiveBookings(u, s) = {}
  /\ ~ScheduleConflict(u, s, {})
  /\ balance[u] >= 1

AlreadyWaiting(u, s) ==
  \E d \in ActiveEntries : entries[d].student = u /\ entries[d].session = s

AlreadyReported(s) ==
  \E c \in AbsenceIds : absences[c].rows[s] = "UNRESOLVED"

FutureAssignments(t) ==
  {s \in Sessions : /\ teacherOf[s] = t
                    /\ sessionState[s] = "PUBLISHED"
                    /\ StartsAt[s] > now}

----------------------------------------------------------------------------
(* Updates the handlers share: each takes a table and returns it changed.  *)

\* Mutant: a rescheduled Booking is not linked to its original.
NewBookingUnlinked(u, s, refundUntil, from) ==
  [state |-> "ACTIVE", student |-> u, session |-> s, teacher |-> teacherOf[s],
   reason |-> "NULL", refunded |-> FALSE, refundUntil |-> refundUntil,
   from |-> 0]

\* Mutant: a promotion grants no refund grace.
NewBookingNoGrace(u, s, refundUntil, from) ==
  [state |-> "ACTIVE", student |-> u, session |-> s, teacher |-> teacherOf[s],
   reason |-> "NULL", refunded |-> FALSE, refundUntil |-> -1, from |-> from]

NewBooking(u, s, refundUntil, from) ==
  [state |-> "ACTIVE", student |-> u, session |-> s, teacher |-> teacherOf[s],
   reason |-> "NULL", refunded |-> FALSE, refundUntil |-> refundUntil,
   from |-> from]

EndBooking(row, reason, refund) ==
  [row EXCEPT !.state = "ENDED", !.reason = reason, !.refunded = refund]

EndBookings(B, reason) ==
  [b \in BookingIds |-> IF b \in B THEN EndBooking(bookings[b], reason, TRUE)
                                   ELSE bookings[b]]

\* Upsert of a reminder, unless it would already be due at t.
OpenReminder(table, k, t) ==
  IF ReminderDueAt(StartsAt[k[2]]) > t THEN [table EXCEPT ![k] = "OPEN"]
                                       ELSE table

\* Mutant: open reminders are left behind.
KeepReminders(table, K) == table

SuppressReminders(table, K) ==
  [k \in Commitments |-> IF k \in K /\ table[k] = "OPEN" THEN "SUPPRESSED"
                                                         ELSE table[k]]

Refunds(B) == {"BOOKING_REFUND"} \X B

\* Mutant: Waitlist Entries are forgotten.
CloseNoEntries(E) == entries

CloseEntries(E) ==
  [e \in EntryIds |-> IF e \in E THEN [entries[e] EXCEPT !.state = "INELIGIBLE"]
                                 ELSE entries[e]]

Released(u, S) == {u} \X S \X {"STUDENT"}

\* Mutant: the former Teacher keeps the commitment.
NoTeacherCommitment(s) == {}

\* The one TEACHER row of a session, which the trigger of 0007 overwrites.
TeacherCommitment(s) == Users \X {s} \X {"TEACHER"}

SeatsFreed(ended) ==
  [s \in Sessions |-> Cardinality({b \in ended : bookings[b].session = s})]

\* requestWaitlistPromotion, once for each of the n[s] freed seats of s.
RequestPromotions(n) ==
  /\ requestVersion' = [s \in Sessions |-> requestVersion[s] + n[s]]
  /\ requestPending' = [s \in Sessions |-> requestPending[s] \/ n[s] > 0]

\* Mutant: the handler forgets to ask.
Never(s) == [x \in Sessions |-> 0]

Once(s) == [x \in Sessions |-> IF x = s THEN 1 ELSE 0]

----------------------------------------------------------------------------
(* Class Sessions.                                                         *)

PublishClassSession(s, t, capacity) ==
  /\ sessionState[s] = "NONE"
  /\ <<t, LessonUnit[s]>> \in Qualified /\ <<t, "TEACHER">> \in roles
  /\ <<t, s>> \in Available
  /\ ~ScheduleConflict(t, s, {})
  /\ sessionState' = [sessionState EXCEPT ![s] = "PUBLISHED"]
  /\ teacherOf' = [teacherOf EXCEPT ![s] = t]
  /\ seatCapacity' = [seatCapacity EXCEPT ![s] = capacity]
  /\ commitments' = commitments \cup {<<t, s, "TEACHER">>}
  /\ reminders' = OpenReminder(reminders, <<t, s, "TEACHER">>, now)
  /\ UNCHANGED <<now, occupiedSeats, bookings, creditVars, entries,
                 requestVars, absences, accessVars>>

ChangeClassSessionSeatCapacity(s, capacity) ==
  /\ sessionState[s] = "PUBLISHED"
  /\ capacity >= occupiedSeats[s]
  /\ capacity > seatCapacity[s] => requestVersion[s] < MaxVersion
  /\ seatCapacity' = [seatCapacity EXCEPT ![s] = capacity]
  /\ IF capacity > seatCapacity[s] THEN RequestPromotions(Once(s))
                                   ELSE UNCHANGED requestVars
  /\ UNCHANGED <<now, sessionState, teacherOf, occupiedSeats, bookings,
                 commitments, creditVars, entries, absences, reminders,
                 accessVars>>

----------------------------------------------------------------------------
(* Class Credits.                                                          *)

\* Mutant: a decrease may exceed the balance.
AdjustUnchecked(u, amount) ==
  /\ <<u, "STUDENT">> \in roles
  /\ balance[u] + amount <= MaxBalance
  /\ balance' = [balance EXCEPT ![u] = @ + amount]
  /\ adjusted' = [adjusted EXCEPT ![u] = @ + amount]
  /\ UNCHANGED <<now, sessionVars, bookings, commitments, ledger, entries,
                 requestVars, absences, reminders, accessVars>>

AdjustClassCredits(u, amount) ==
  /\ <<u, "STUDENT">> \in roles
  /\ balance[u] + amount >= 0
  /\ balance[u] + amount <= MaxBalance
  /\ balance' = [balance EXCEPT ![u] = @ + amount]
  /\ adjusted' = [adjusted EXCEPT ![u] = @ + amount]
  /\ UNCHANGED <<now, sessionVars, bookings, commitments, ledger, entries,
                 requestVars, absences, reminders, accessVars>>

----------------------------------------------------------------------------
(* Bookings.                                                               *)

\* createEligibleStudentBooking once its checks passed, at the clock t.
CreateBooking(b, u, s, refundUntil, t) ==
  /\ FreshBooking(b)
  /\ bookings' = [bookings EXCEPT ![b] = NewBooking(u, s, refundUntil, 0)]
  /\ commitments' = commitments \cup {<<u, s, "STUDENT">>}
  /\ occupiedSeats' = [occupiedSeats EXCEPT ![s] = @ + 1]
  /\ reminders' = OpenReminder(reminders, <<u, s, "STUDENT">>, t)
  /\ ledger' = ledger \cup {<<"BOOKING_DEDUCTION", b>>}
  /\ balance' = [balance EXCEPT ![u] = @ - 1]

BookClassSession(u, s, b) ==
  /\ ActorIsActive(u)
  /\ sessionState[s] = "PUBLISHED"
  /\ BookingWindowIsOpen(now, StartsAt[s])
  /\ HasFreeSeat(s)
  /\ BookingEligible(u, s)
  /\ CreateBooking(b, u, s, -1, now)
  /\ UNCHANGED <<now, sessionState, teacherOf, seatCapacity, adjusted, entries,
                 requestVars, absences, accessVars>>

\* The Class Credit of booking b comes back if its Student cancels it at t.
CancellationRefunds(b, t) ==
  LET row == bookings[b] IN
  \/ StudentCancellationCreditOutcome(t, StartsAt[row.session]) = "REFUND"
  \/ row.teacher # teacherOf[row.session]
  \/ row.refundUntil # -1 /\ t <= row.refundUntil

CancelBooking(b) ==
  LET u == bookings[b].student
      s == bookings[b].session
      refund == CancellationRefunds(b, now)
  IN
  /\ IsActive(b)
  /\ ActorIsActive(u)
  /\ StudentCancellationCreditOutcome(now, StartsAt[s]) # "CLOSED"
  /\ bookings' = [bookings EXCEPT
                    ![b] = EndBooking(@, "STUDENT_CANCELLATION", refund)]
  /\ commitments' = commitments \ Released(u, {s})
  /\ occupiedSeats' = [occupiedSeats EXCEPT ![s] = @ - 1]
  /\ reminders' = SuppressReminders(reminders, {<<u, s, "STUDENT">>})
  /\ RequestPromotions(Once(s))
  /\ ledger' = IF refund THEN ledger \cup Refunds({b}) ELSE ledger
  /\ balance' = [balance EXCEPT ![u] = IF refund THEN @ + 1 ELSE @]
  /\ UNCHANGED <<now, sessionState, teacherOf, seatCapacity, adjusted, entries,
                 absences, accessVars>>

RescheduleBooking(b, s2, c) ==
  LET u == bookings[b].student
      s1 == bookings[b].session
  IN
  /\ IsActive(b)
  /\ ActorIsActive(u)
  /\ sessionState[s2] = "PUBLISHED"
  /\ BookingWindowIsOpen(now, StartsAt[s2])
  /\ LessonUnit[s2] = LessonUnit[s1]
  /\ s2 # s1
  /\ HasFreeSeat(s2)
  /\ ~ScheduleConflict(u, s2, {<<u, s1, "STUDENT">>})
  /\ FreshBooking(c)
  /\ bookings' = [bookings EXCEPT
                    ![b] = EndBooking(@, "RESCHEDULED", FALSE),
                    ![c] = NewBooking(u, s2, -1, b)]
  /\ commitments' = (commitments \ Released(u, {s1}))
                      \cup {<<u, s2, "STUDENT">>}
  /\ occupiedSeats' = [occupiedSeats EXCEPT ![s1] = @ - 1, ![s2] = @ + 1]
  /\ reminders' = OpenReminder(
                    SuppressReminders(reminders, {<<u, s1, "STUDENT">>}),
                    <<u, s2, "STUDENT">>, now)
  /\ RequestPromotions(Once(s1))
  /\ UNCHANGED <<now, sessionState, teacherOf, seatCapacity, creditVars,
                 entries, absences, accessVars>>

----------------------------------------------------------------------------
(* Waitlists.  The worker's three outcomes take its clock t as a           *)
(* parameter: a pass reads the clock once, before it starts.               *)

JoinWaitlist(u, s, e) ==
  /\ ActorIsActive(u)
  /\ sessionState[s] = "PUBLISHED"
  /\ WaitlistIsOpen(now, StartsAt[s])
  /\ ~HasFreeSeat(s)
  /\ ~AlreadyWaiting(u, s)
  /\ BookingEligible(u, s)
  /\ FreshEntry(e)
  /\ entries' = [entries EXCEPT ![e] =
       [state |-> "ACTIVE", student |-> u, session |-> s, booking |-> 0]]
  /\ UNCHANGED <<now, sessionVars, bookings, commitments, creditVars,
                 requestVars, absences, reminders, accessVars>>

WithdrawWaitlist(e) ==
  /\ entries[e].state = "ACTIVE"
  /\ ActorIsActive(entries[e].student)
  /\ entries' = [entries EXCEPT ![e].state = "WITHDRAWN"]
  /\ UNCHANGED <<now, sessionVars, bookings, commitments, creditVars,
                 requestVars, absences, reminders, accessVars>>

EntryExpired(e, t) == WaitlistExpiresAt(StartsAt[entries[e].session]) <= t

ExpireEntry(e, t) ==
  /\ entries[e].state = "ACTIVE"
  /\ EntryExpired(e, t)
  /\ entries' = [entries EXCEPT ![e].state = "EXPIRED"]
  /\ UNCHANGED <<now, sessionVars, bookings, commitments, creditVars,
                 requestVars, absences, reminders, accessVars>>

\* The worker cannot promote the entry and never will: it closes it.
CloseIneligibleEntry(e, t) ==
  LET u == entries[e].student
      s == entries[e].session
  IN
  /\ entries[e].state = "ACTIVE"
  /\ ~EntryExpired(e, t)
  /\ \/ sessionState[s] # "PUBLISHED"
     \/ HasFreeSeat(s) /\ ~BookingEligible(u, s)
  /\ entries' = [entries EXCEPT ![e].state = "INELIGIBLE"]
  /\ UNCHANGED <<now, sessionVars, bookings, commitments, creditVars,
                 requestVars, absences, reminders, accessVars>>

PromoteEntry(e, b, t) ==
  LET u == entries[e].student
      s == entries[e].session
  IN
  /\ entries[e].state = "ACTIVE"
  /\ ~EntryExpired(e, t)
  /\ sessionState[s] = "PUBLISHED"
  /\ HasFreeSeat(s)
  /\ BookingEligible(u, s)
  /\ CreateBooking(b, u, s, t + PromotionGrace, t)
  /\ entries' = [entries EXCEPT ![e].state = "PROMOTED", ![e].booking = b]
  /\ UNCHANGED <<now, sessionState, teacherOf, seatCapacity, adjusted,
                 requestVars, absences, accessVars>>

MarkRequestProcessed(s) ==
  /\ requestPending[s]
  /\ requestPending' = [requestPending EXCEPT ![s] = FALSE]
  /\ UNCHANGED <<now, sessionVars, bookings, commitments, creditVars, entries,
                 requestVersion, absences, reminders, accessVars>>

----------------------------------------------------------------------------
(* Absences, Teacher Substitution and Class Session Cancellation.          *)

ReportAbsence(t, S, a) ==
  /\ ActorIsActive(t)
  /\ S # {}
  /\ \A s \in S : /\ sessionState[s] = "PUBLISHED"
                  /\ StartsAt[s] > now
                  /\ teacherOf[s] = t
                  /\ ~AlreadyReported(s)
  /\ FreshAbsence(a)
  /\ absences' = [absences EXCEPT ![a] =
       [state |-> "OPEN", teacher |-> t,
        rows |-> [s \in Sessions |-> IF s \in S THEN "UNRESOLVED" ELSE "NONE"]]]
  /\ UNCHANGED <<now, sessionVars, bookings, commitments, creditVars, entries,
                 requestVars, reminders, accessVars>>

\* An unresolved disruption of a session that has not started.
Disrupted(a, s) ==
  /\ absences[a].rows[s] = "UNRESOLVED"
  /\ sessionState[s] = "PUBLISHED"
  /\ StartsAt[s] > now

\* Mutant: the request itself is never closed.
ResolveRowOnly(a, s, resolution) ==
  absences' = [absences EXCEPT ![a].rows[s] = resolution]

\* Record the resolution; the request closes with its last session.
ResolveDisruption(a, s, resolution) ==
  LET rows == [absences[a].rows EXCEPT ![s] = resolution] IN
  absences' = [absences EXCEPT
    ![a].rows = rows,
    ![a].state = IF \E x \in Sessions : rows[x] = "UNRESOLVED"
                 THEN @ ELSE "RESOLVED"]

\* Everything substituteTeacher itself checks about a replacement.
ReplacementAccepted(a, s, t) ==
  /\ Disrupted(a, s)
  /\ t # teacherOf[s]
  /\ <<t, LessonUnit[s]>> \in Qualified
  /\ <<t, "TEACHER">> \in roles
  /\ ~ScheduleConflict(t, s, Users \X {s} \X Roles)

\* The plain insert of the replacement's reminder meets an older row.
ReminderClash(s, t) ==
  /\ ReminderDueAt(StartsAt[s]) > now
  /\ reminders[<<t, s, "TEACHER">>] # "NONE"

\* Two constraints of the database abort the transaction: the exclusion of
\* overlapping commitments and the uniqueness of a reminder.
SubstituteTeacher(a, s, t) ==
  /\ ReplacementAccepted(a, s, t)
  /\ <<t, s, "STUDENT">> \notin commitments
  /\ ~ReminderClash(s, t)
  /\ teacherOf' = [teacherOf EXCEPT ![s] = t]
  /\ commitments' = (commitments \ TeacherCommitment(s))
                      \cup {<<t, s, "TEACHER">>}
  /\ ResolveDisruption(a, s, "TEACHER_SUBSTITUTION")
  /\ reminders' = OpenReminder(
                    SuppressReminders(reminders, TeacherCommitment(s)),
                    <<t, s, "TEACHER">>, now)
  /\ UNCHANGED <<now, sessionState, seatCapacity, occupiedSeats, bookings,
                 creditVars, entries, requestVars, accessVars>>

CancelClassSession(a, s) ==
  LET ended == Occupants(s)
      waiting == {e \in ActiveEntries : entries[e].session = s}
  IN
  /\ Disrupted(a, s)
  /\ bookings' = EndBookings(ended, "CLASS_SESSION_CANCELLATION")
  /\ ledger' = ledger \cup Refunds(ended)
  /\ balance' = [u \in Students |-> balance[u]
                   + Cardinality({b \in ended : bookings[b].student = u})]
  /\ commitments' = commitments \ (Users \X {s} \X Roles)
  /\ entries' = CloseEntries(waiting)
  /\ reminders' = SuppressReminders(reminders, Users \X {s} \X Roles)
  /\ sessionState' = [sessionState EXCEPT ![s] = "CANCELLED"]
  /\ occupiedSeats' = [occupiedSeats EXCEPT ![s] = 0]
  /\ ResolveDisruption(a, s, "CLASS_SESSION_CANCELLATION")
  /\ UNCHANGED <<now, teacherOf, seatCapacity, adjusted, requestVars,
                 accessVars>>

----------------------------------------------------------------------------
(* User access and Role Assignments.                                       *)

\* The cleanup that suspension and removal of the Student role share.
EndStudentCommitments(u, reason) ==
  LET ended == FutureBookings(u)
      freed == SeatsFreed(ended)
      touched == {s \in Sessions : \E b \in ended : bookings[b].session = s}
      waiting == {e \in ActiveEntries : entries[e].student = u}
  IN
  /\ bookings' = EndBookings(ended, reason)
  /\ ledger' = ledger \cup Refunds(ended)
  /\ balance' = [x \in Students |->
                   IF x = u THEN balance[x] + Cardinality(ended) ELSE balance[x]]
  /\ occupiedSeats' = [s \in Sessions |-> occupiedSeats[s] - freed[s]]
  /\ RequestPromotions(freed)
  /\ commitments' = commitments \ Released(u, touched)
  /\ reminders' = SuppressReminders(reminders, {u} \X touched \X Roles)
  /\ entries' = CloseEntries(waiting)

SuspendUser(u) ==
  /\ accessStatus[u] = "ACTIVE"
  /\ EndStudentCommitments(u, "USER_SUSPENSION")
  /\ accessStatus' = [accessStatus EXCEPT ![u] = "SUSPENDED"]
  /\ UNCHANGED <<now, sessionState, teacherOf, seatCapacity, adjusted, absences,
                 roles>>

ReactivateUser(u) ==
  /\ accessStatus[u] = "SUSPENDED"
  /\ accessStatus' = [accessStatus EXCEPT ![u] = "ACTIVE"]
  /\ UNCHANGED <<now, sessionVars, bookings, commitments, creditVars, entries,
                 requestVars, absences, reminders, roles>>

GrantRoleAssignment(u, role) ==
  /\ <<u, role>> \notin roles
  /\ roles' = roles \cup {<<u, role>>}
  /\ UNCHANGED <<now, sessionVars, bookings, commitments, creditVars, entries,
                 requestVars, absences, reminders, accessStatus>>

RemoveStudentRole(u) ==
  /\ <<u, "STUDENT">> \in roles
  /\ EndStudentCommitments(u, "ROLE_ASSIGNMENT_REMOVAL")
  /\ roles' = roles \ {<<u, "STUDENT">>}
  /\ UNCHANGED <<now, sessionState, teacherOf, seatCapacity, adjusted, absences,
                 accessStatus>>

RemoveTeacherRole(t) ==
  /\ <<t, "TEACHER">> \in roles
  /\ FutureAssignments(t) = {}
  /\ roles' = roles \ {<<t, "TEACHER">>}
  /\ UNCHANGED <<now, sessionVars, bookings, commitments, creditVars, entries,
                 requestVars, absences, reminders, accessStatus>>

----------------------------------------------------------------------------
(* The reminder worker, and the clock.                                     *)

DeliverClassSessionReminder(k, t) ==
  LET s == k[2] IN
  /\ reminders[k] = "OPEN"
  /\ ReminderDueAt(StartsAt[s]) <= t
  /\ reminders' = [reminders EXCEPT ![k] =
       IF k \in commitments /\ sessionState[s] = "PUBLISHED" /\ StartsAt[s] > t
       THEN "DELIVERED" ELSE "SUPPRESSED"]
  /\ UNCHANGED <<now, sessionVars, bookings, commitments, creditVars, entries,
                 requestVars, absences, accessVars>>

Tick ==
  /\ now < MaxTime
  /\ now' = now + 1
  /\ UNCHANGED <<sessionVars, bookings, commitments, creditVars, entries,
                 requestVars, absences, reminders, accessVars>>

----------------------------------------------------------------------------

WorkerClocks == {t \in 0 .. now : now - t <= MaxLag}

StudentRequest(u) ==
  \/ \E s \in Sessions, b \in BookingIds : BookClassSession(u, s, b)
  \/ \E b \in BookingIds : bookings[b].student = u /\ CancelBooking(b)
  \/ \E b, c \in BookingIds, s \in Sessions :
       bookings[b].student = u /\ RescheduleBooking(b, s, c)
  \/ \E s \in Sessions, e \in EntryIds : JoinWaitlist(u, s, e)
  \/ \E e \in EntryIds : entries[e].student = u /\ WithdrawWaitlist(e)

TeacherRequest(t) ==
  \E S \in SUBSET Sessions, a \in AbsenceIds : ReportAbsence(t, S, a)

AdministratorRequest ==
  \/ \E s \in Sessions, t \in Teachers, c \in Capacities :
       PublishClassSession(s, t, c)
  \/ \E s \in Sessions, c \in Capacities : ChangeClassSessionSeatCapacity(s, c)
  \/ \E k \in Adjustments : AdjustClassCredits(k[1], k[2])
  \/ \E a \in AbsenceIds, s \in Sessions, t \in Teachers :
       SubstituteTeacher(a, s, t)
  \/ \E a \in AbsenceIds, s \in Sessions : CancelClassSession(a, s)

AccessRequest ==
  \/ \E u \in SuspensionTargets : SuspendUser(u)
  \/ \E u \in SuspensionTargets : ReactivateUser(u)
  \/ \E k \in RoleTargets : GrantRoleAssignment(k[1], k[2])
  \/ \E u \in Students : <<u, "STUDENT">> \in RoleTargets /\ RemoveStudentRole(u)
  \/ \E t \in Teachers : <<t, "TEACHER">> \in RoleTargets /\ RemoveTeacherRole(t)

WaitlistWorkerStep ==
  \/ \E e \in EntryIds, t \in WorkerClocks : ExpireEntry(e, t)
  \/ \E e \in EntryIds, t \in WorkerClocks : CloseIneligibleEntry(e, t)
  \/ \E e \in EntryIds, b \in BookingIds, t \in WorkerClocks :
       PromoteEntry(e, b, t)
  \/ \E s \in Sessions : MarkRequestProcessed(s)

ReminderWorkerStep ==
  \E k \in Commitments, t \in WorkerClocks : DeliverClassSessionReminder(k, t)

Next ==
  \/ \E u \in Students : StudentRequest(u)
  \/ \E t \in Teachers : TeacherRequest(t)
  \/ AdministratorRequest
  \/ AccessRequest
  \/ WaitlistWorkerStep
  \/ ReminderWorkerStep
  \/ Tick

Spec == Init /\ [][Next]_vars

============================================================================
