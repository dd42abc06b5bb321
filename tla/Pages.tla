------------------------------- MODULE Pages --------------------------------
(***************************************************************************)
(* What the pages of the web client show and offer, computed from the      *)
(* tables of Marketplace by the queries they ask, freshly loaded: Class    *)
(* Session Discovery, the schedule of a Teacher, the disruptions an        *)
(* Administrator resolves, and learning access.  The filters of Discovery  *)
(* (language, level, Teacher, topics, dates, page) only narrow its list,   *)
(* and are left out.                                                       *)
(***************************************************************************)
EXTENDS MarketplaceProperties

CONSTANTS
  StudentEarly,     \* 10 minutes: the classroom opens to a Student
  TeacherEarly,     \* 15 minutes: the classroom opens to the Teacher
  TeachingAccess    \* 49 hours: a Teacher reads on after the start

ASSUME PagesAssumption ==
  /\ StudentEarly \in Nat /\ TeacherEarly \in Nat /\ TeachingAccess \in Nat
  /\ StudentEarly < TeacherEarly /\ TeacherEarly <= BookingLead
  /\ Duration < TeachingAccess

HoldsRole(u, role) == <<u, role>> \in roles

----------------------------------------------------------------------------
(* Class Session Discovery.                                                *)

\* Mutant: full sessions are listed until booking closes.
ListedUntilBookingCloses(s) ==
  /\ sessionState[s] = "PUBLISHED"
  /\ StartsAt[s] >= now + BookingLead

Listed(s) ==
  /\ sessionState[s] = "PUBLISHED"
  /\ \/ /\ occupiedSeats[s] < seatCapacity[s]
        /\ StartsAt[s] >= now + BookingLead
     \/ /\ occupiedSeats[s] = seatCapacity[s]
        /\ StartsAt[s] > now + WaitlistLead

HasPublicProfile(t) == HoldsRole(t, "TEACHER")

\* One Teacher without a public profile and the whole page fails.
DiscoveryAnswers ==
  \A s \in Sessions : Listed(s) => HasPublicProfile(teacherOf[s])

ShownBookings(u) ==
  {b \in BookingIds : bookings[b].student = u /\ bookings[b].state = "ACTIVE"}

ShownEntries(u) == {e \in ActiveEntries : entries[e].student = u}

\* Mutant: ended Bookings count as well.
EverBooked(u, s) ==
  \E b \in BookingIds : bookings[b].student = u /\ bookings[b].session = s

HasBooked(u, s) == \E b \in ShownBookings(u) : bookings[b].session = s

IsWaiting(u, s) == \E e \in ShownEntries(u) : entries[e].session = s

MovableTo(u, s) ==
  {b \in ShownBookings(u) :
    /\ bookings[b].session # s
    /\ LessonUnit[bookings[b].session] = LessonUnit[s]}

\* Sessions the Student has no part in yet: what the other buttons are for.
Fresh(u) ==
  {s \in Sessions : Listed(s) /\ ~HasBooked(u, s) /\ ~IsWaiting(u, s)}

OfferedCancellations(u) == ShownBookings(u)

OfferedWithdrawals(u) ==
  {e \in ShownEntries(u) :
    Listed(entries[e].session) /\ ~HasBooked(u, entries[e].session)}

OfferedMoves(u) ==
  {m \in ShownBookings(u) \X Fresh(u) :
    m[1] \in MovableTo(u, m[2]) /\ HasFreeSeat(m[2])}

OfferedSeats(u) ==
  {s \in Fresh(u) : MovableTo(u, s) = {} /\ HasFreeSeat(s)}

OfferedWaits(u) == {s \in Fresh(u) : ~HasFreeSeat(s)}

----------------------------------------------------------------------------
(* The schedule of a Teacher, and the disruptions that wait for an         *)
(* Administrator.                                                          *)

ReportableAbsences(t) ==
  {s \in Sessions : /\ teacherOf[s] = t
                    /\ sessionState[s] = "PUBLISHED"
                    /\ StartsAt[s] > now}

\* Every session of an open request, the resolved ones as well.
ResolvableDisruptions ==
  {d \in AbsenceIds \X Sessions :
    absences[d[1]].state = "OPEN" /\ absences[d[1]].rows[d[2]] # "NONE"}

OfferedReplacements(s) ==
  {t \in Teachers : HoldsRole(t, "TEACHER") /\ t # teacherOf[s]}

----------------------------------------------------------------------------
(* Learning access.                                                        *)

TeachesStill(u, s) ==
  /\ teacherOf[s] = u
  /\ sessionState[s] = "PUBLISHED"
  /\ StartsAt[s] >= now - TeachingAccess

AttendsSession(u, s) ==
  sessionState[s] = "PUBLISHED" /\ HasBooked(u, s)

\* A Student reads on in a Lesson Unit once it is completed.
AccessibleUnits(u, role, completed) ==
  {LessonUnit[s] : s \in {x \in Sessions :
     \/ role = "TEACHER" /\ TeachesStill(u, x)
     \/ role = "STUDENT" /\ AttendsSession(u, x)}}
  \cup IF role = "STUDENT" THEN completed ELSE {}

ShownClassrooms(u, role) ==
  {s \in Sessions : \/ role = "TEACHER" /\ TeachesStill(u, s)
                    \/ role = "STUDENT" /\ AttendsSession(u, s)}

HasRelationship(u, role, s) ==
  /\ sessionState[s] = "PUBLISHED"
  /\ \/ role = "TEACHER" /\ teacherOf[s] = u
     \/ role = "STUDENT" /\ HasBooked(u, s)

EnterClassroom(u, role, s) ==
  LET early == IF role = "TEACHER" THEN TeacherEarly ELSE StudentEarly IN
  /\ ActorIsActive(u)
  /\ HoldsRole(u, role)
  /\ HasRelationship(u, role, s)
  /\ now >= StartsAt[s] - early
  /\ now <= StartsAt[s] + Duration

----------------------------------------------------------------------------
(* Properties.                                                             *)

MayStart(u) == ActorIsActive(u) /\ \E b \in BookingIds : FreshBooking(b)

MayPay(u, s) == balance[u] >= 1 /\ ~ScheduleConflict(u, s, {})

\* What a freshly loaded Discovery offers a Student is refused for nothing
\* but what the page does not know: the Class Credits of the Student, the
\* other commitments, and a suspension.  A cancellation is offered as well
\* for a session that has started, and only then refused.
StudentOffersAreHonoured ==
  \A u \in Students :
    HoldsRole(u, "STUDENT") /\ MayStart(u) =>
      /\ \A s \in OfferedSeats(u) : MayPay(u, s) =>
           ENABLED \E b \in BookingIds : BookClassSession(u, s, b)
      /\ \A m \in OfferedMoves(u) :
           ~ScheduleConflict(u, m[2], {<<u, bookings[m[1]].session, "STUDENT">>})
             => ENABLED \E c \in BookingIds : RescheduleBooking(m[1], m[2], c)
      /\ \A s \in OfferedWaits(u) :
           MayPay(u, s) /\ (\E e \in EntryIds : FreshEntry(e)) =>
             ENABLED \E e \in EntryIds : JoinWaitlist(u, s, e)
      /\ \A e \in OfferedWithdrawals(u) : ENABLED WithdrawWaitlist(e)
      /\ \A b \in OfferedCancellations(u) :
           StartsAt[bookings[b].session] > now => ENABLED CancelBooking(b)

\* And it hides nothing: a seat the handler would give can be taken with a
\* button, unless the Student waits for that session; a session the Student
\* could wait for and an entry that can still be promoted have one as well.
NothingIsHidden ==
  \A u \in Students :
    LET moved == {m[2] : m \in OfferedMoves(u)} IN
    /\ \A s \in Sessions :
         /\ (ENABLED \E b \in BookingIds : BookClassSession(u, s, b))
              => s \in OfferedSeats(u) \cup moved \/ IsWaiting(u, s)
         /\ (ENABLED \E e \in EntryIds : JoinWaitlist(u, s, e))
              => s \in OfferedWaits(u)
    /\ \A e \in ShownEntries(u) :
         LET s == entries[e].session IN
         /\ sessionState[s] = "PUBLISHED" /\ ~EntryExpired(e, now)
         /\ ~HasBooked(u, s)
         => e \in OfferedWithdrawals(u)

\* Every disruption that can still be resolved is offered to Administrators,
\* with every replacement that would be accepted, and every absence a Teacher
\* could report is on the schedule.
DisruptionsAreShown ==
  /\ \A a \in AbsenceIds, s \in Sessions :
       /\ Disrupted(a, s) => <<a, s>> \in ResolvableDisruptions
       /\ \A t \in Teachers :
            ReplacementAccepted(a, s, t) => t \in OfferedReplacements(s)
  /\ \A t \in Teachers, s \in Sessions :
       (ENABLED \E a \in AbsenceIds : ReportAbsence(t, {s}, a))
         => s \in ReportableAbsences(t)

\* Only who is committed to a session enters its classroom: at most its seats
\* and one Teacher, and nobody into two sessions that overlap.  Whoever enters
\* finds the session on the learning page and reads its Lesson Materials.
ClassroomsAreForTheCommitted ==
  \A s \in Sessions :
    LET within(role) == {u \in Users : EnterClassroom(u, role, s)} IN
    /\ Cardinality(within("STUDENT")) <= seatCapacity[s]
    /\ Cardinality(within("TEACHER")) <= 1
    /\ \A role \in Roles : \A u \in within(role) :
         /\ <<u, s, role>> \in commitments
         /\ s \in ShownClassrooms(u, role)
         /\ LessonUnit[s] \in AccessibleUnits(u, role, {})
         /\ \A x \in Sessions, other \in Roles :
              EnterClassroom(u, other, x) /\ Overlap(StartsAt[s], StartsAt[x])
                => x = s /\ other = role

PagesAreTrue ==
  /\ DiscoveryAnswers
  /\ StudentOffersAreHonoured
  /\ NothingIsHidden
  /\ DisruptionsAreShown
  /\ ClassroomsAreForTheCommitted

============================================================================
