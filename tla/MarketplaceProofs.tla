------------------------- MODULE MarketplaceProofs -------------------------
(***************************************************************************)
(* Theorems about Marketplace, for every value of its constants.           *)
(***************************************************************************)
EXTENDS MarketplaceProperties, FiniteSetTheorems, TLAPS

(* Every Booking and Waitlist Entry in the table names a Student and a     *)
(* Class Session: what makes the type invariant inductive.                 *)
RowsNamed ==
  /\ \A b \in BookingIds : bookings[b].state # "NONE" =>
       bookings[b].student \in Students /\ bookings[b].session \in Sessions
  /\ \A e \in EntryIds : entries[e].state # "NONE" =>
       entries[e].student \in Students /\ entries[e].session \in Sessions

TypedRows == TypeOK /\ RowsNamed

ReminderStates == {"NONE", "OPEN", "SUPPRESSED", "DELIVERED"}

----------------------------------------------------------------------------
(* What the shared operators return.                                       *)

LEMMA OpenReminderType ==
  ASSUME NEW table \in [Commitments -> ReminderStates], NEW k, NEW t
  PROVE  OpenReminder(table, k, t) \in [Commitments -> ReminderStates]
BY DEF OpenReminder, ReminderStates

LEMMA SuppressRemindersType ==
  ASSUME NEW table \in [Commitments -> ReminderStates], NEW K
  PROVE  SuppressReminders(table, K) \in [Commitments -> ReminderStates]
BY DEF SuppressReminders, ReminderStates

LEMMA EndBookingType ==
  ASSUME NEW row \in Booking, NEW reason \in EndReasons, NEW refund \in BOOLEAN
  PROVE  /\ EndBooking(row, reason, refund) \in Booking
         /\ EndBooking(row, reason, refund).state = "ENDED"
         /\ EndBooking(row, reason, refund).student = row.student
         /\ EndBooking(row, reason, refund).session = row.session
BY DEF EndBooking, Booking

LEMMA RescheduledType ==
  ASSUME NEW row \in Booking
  PROVE  /\ EndBooking(row, "RESCHEDULED", FALSE) \in Booking
         /\ EndBooking(row, "RESCHEDULED", FALSE).student = row.student
         /\ EndBooking(row, "RESCHEDULED", FALSE).session = row.session
<1>1. "RESCHEDULED" \in EndReasons
  BY DEF EndReasons
<1>2. FALSE \in BOOLEAN
  OBVIOUS
<1> QED BY <1>1, <1>2, EndBookingType

LEMMA NewBookingType ==
  ASSUME TypeOK, NEW u \in Students, NEW s \in Sessions,
         NEW refundUntil \in Int, NEW from \in {0} \cup BookingIds
  PROVE  /\ NewBooking(u, s, refundUntil, from) \in Booking
         /\ NewBooking(u, s, refundUntil, from).state = "ACTIVE"
         /\ NewBooking(u, s, refundUntil, from).student = u
         /\ NewBooking(u, s, refundUntil, from).session = s
BY DEF NewBooking, Booking, TypeOK

LEMMA RefundedType ==
  ASSUME NEW row \in Booking, NEW reason \in EndReasons
  PROVE  /\ EndBooking(row, reason, TRUE) \in Booking
         /\ EndBooking(row, reason, TRUE).state = "ENDED"
         /\ EndBooking(row, reason, TRUE).student = row.student
         /\ EndBooking(row, reason, TRUE).session = row.session
<1>1. TRUE \in BOOLEAN
  OBVIOUS
<1> QED BY <1>1, EndBookingType

LEMMA EndBookingsType ==
  ASSUME TypedRows, NEW B, NEW reason \in EndReasons
  PROVE  /\ EndBookings(B, reason) \in [BookingIds -> Booking]
         /\ \A b \in BookingIds :
              /\ EndBookings(B, reason)[b].student = bookings[b].student
              /\ EndBookings(B, reason)[b].session = bookings[b].session
              /\ EndBookings(B, reason)[b] # bookings[b] => b \in B
              /\ b \in B => EndBookings(B, reason)[b].state = "ENDED"
BY RefundedType DEF EndBookings, TypedRows, TypeOK

LEMMA PromotedEntryType ==
  ASSUME NEW row \in Entry, NEW b \in BookingIds
  PROVE  [row EXCEPT !.state = "PROMOTED", !.booking = b] \in Entry
<1>. DEFINE promoted == [row EXCEPT !.state = "PROMOTED"]
<1>1. promoted \in Entry
  BY DEF Entry
<1>. HIDE DEF promoted
<1>2. [promoted EXCEPT !.booking = b] \in Entry
  BY <1>1 DEF Entry
<1> QED BY <1>2 DEF promoted

LEMMA CloseEntriesType ==
  ASSUME TypedRows, NEW E
  PROVE  /\ CloseEntries(E) \in [EntryIds -> Entry]
         /\ \A e \in EntryIds :
              /\ CloseEntries(E)[e].student = entries[e].student
              /\ CloseEntries(E)[e].session = entries[e].session
BY DEF CloseEntries, TypedRows, TypeOK, Entry

(* A handler that ends active Bookings and closes active Waitlist Entries  *)
(* together keeps both tables well formed.                                 *)
LEMMA CleanupType ==
  ASSUME TypedRows, NEW reason \in EndReasons,
         NEW B \in SUBSET BookingIds, \A b \in B : bookings[b].state = "ACTIVE",
         NEW E \in SUBSET ActiveEntries,
         bookings' = EndBookings(B, reason),
         entries' = CloseEntries(E)
  PROVE  /\ bookings' \in [BookingIds -> Booking]
         /\ entries' \in [EntryIds -> Entry]
         /\ RowsNamed'
<1>1. bookings' \in [BookingIds -> Booking] /\ entries' \in [EntryIds -> Entry]
  BY EndBookingsType, CloseEntriesType
<1>2. ASSUME NEW b \in BookingIds, bookings'[b].state # "NONE"
      PROVE  bookings'[b].student \in Students /\ bookings'[b].session \in Sessions
  <2>1. bookings[b].state # "NONE"
    BY <1>2 DEF EndBookings
  <2>2. bookings[b].student \in Students /\ bookings[b].session \in Sessions
    BY <2>1 DEF TypedRows, RowsNamed
  <2> QED BY <2>2, EndBookingsType
<1>3. ASSUME NEW e \in EntryIds, entries'[e].state # "NONE"
      PROVE  entries'[e].student \in Students /\ entries'[e].session \in Sessions
  <2>1. entries[e].state # "NONE"
    BY <1>3 DEF CloseEntries, ActiveEntries
  <2>2. entries[e].student \in Students /\ entries[e].session \in Sessions
    BY <2>1 DEF TypedRows, RowsNamed
  <2> QED BY <2>2, CloseEntriesType
<1> QED BY <1>1, <1>2, <1>3 DEF RowsNamed

LEMMA BookingIdsFinite ==
  ASSUME NEW B \in SUBSET BookingIds
  PROVE  IsFiniteSet(B) /\ Cardinality(B) \in Nat
<1>1. IsFiniteSet(BookingIds)
  BY ConstantsAssumption, FS_Interval DEF BookingIds
<1>2. IsFiniteSet(B)
  BY <1>1, FS_Subset
<1> QED BY <1>2, FS_CardinalityType

LEMMA SeatsFreedType ==
  ASSUME NEW B \in SUBSET BookingIds
  PROVE  SeatsFreed(B) \in [Sessions -> Nat]
<1>1. \A s \in Sessions : {b \in B : bookings[b].session = s} \in SUBSET BookingIds
  OBVIOUS
<1> QED BY <1>1, BookingIdsFinite DEF SeatsFreed

LEMMA RequestPromotionsType ==
  ASSUME TypeOK, NEW n \in [Sessions -> Nat], RequestPromotions(n)
  PROVE  /\ requestVersion' \in [Sessions -> Nat]
         /\ requestPending' \in [Sessions -> BOOLEAN]
BY DEF TypeOK, RequestPromotions

----------------------------------------------------------------------------
(* Type correctness, one lemma for each group of actions.                  *)

LEMMA CreateBookingType ==
  ASSUME TypedRows, NEW b \in BookingIds, NEW u \in Students,
         NEW s \in Sessions, NEW refundUntil \in Int, NEW t,
         CreateBooking(b, u, s, refundUntil, t)
  PROVE  /\ bookings' \in [BookingIds -> Booking]
         /\ commitments' \subseteq Commitments
         /\ occupiedSeats' \in [Sessions -> Int]
         /\ reminders' \in [Commitments -> ReminderStates]
         /\ ledger' \subseteq LedgerRows
         /\ balance' \in [Students -> Int]
         /\ \A c \in BookingIds : bookings'[c].state # "NONE" =>
              bookings'[c].student \in Students /\ bookings'[c].session \in Sessions
<1>. USE DEF TypedRows
<1>1. NewBooking(u, s, refundUntil, 0) \in Booking
  BY NewBookingType
<1>2. bookings' = [bookings EXCEPT ![b] = NewBooking(u, s, refundUntil, 0)]
  BY DEF CreateBooking
<1>3. bookings' \in [BookingIds -> Booking]
  BY <1>1, <1>2 DEF TypeOK
<1>4. commitments' \subseteq Commitments
  BY DEF CreateBooking, TypeOK, Commitments, Users, Roles
<1>5. reminders' \in [Commitments -> ReminderStates]
  BY OpenReminderType DEF CreateBooking, TypeOK, ReminderStates
<1>6. ledger' \subseteq LedgerRows
  BY DEF CreateBooking, TypeOK, LedgerRows
<1>7. occupiedSeats' \in [Sessions -> Int] /\ balance' \in [Students -> Int]
  BY DEF CreateBooking, TypeOK
<1>8. ASSUME NEW c \in BookingIds, bookings'[c].state # "NONE"
      PROVE  bookings'[c].student \in Students /\ bookings'[c].session \in Sessions
  BY <1>2, <1>8, NewBookingType DEF TypeOK, RowsNamed
<1> QED BY <1>3, <1>4, <1>5, <1>6, <1>7, <1>8

LEMMA StudentRequestType ==
  ASSUME TypedRows, NEW u \in Students, StudentRequest(u)
  PROVE  TypedRows'
<1>. USE DEF TypedRows
<1>1. ASSUME NEW s \in Sessions, NEW b \in BookingIds, BookClassSession(u, s, b)
      PROVE  TypedRows'
  BY <1>1, CreateBookingType
     DEF BookClassSession, TypeOK, RowsNamed, accessVars, requestVars, ReminderStates
<1>2. ASSUME NEW b \in BookingIds, CancelBooking(b)
      PROVE  TypedRows'
  <2>. DEFINE refund == CancellationRefunds(b, now)
              ended == EndBooking(bookings[b], "STUDENT_CANCELLATION", refund)
              s == bookings[b].session
  <2>1. refund \in BOOLEAN
    BY DEF CancellationRefunds
  <2>2. /\ ended \in Booking
        /\ ended.student = bookings[b].student
        /\ ended.session = bookings[b].session
    BY <2>1, EndBookingType DEF TypeOK, EndReasons
  <2>3. /\ bookings' = [bookings EXCEPT ![b] = ended]
        /\ entries' = entries
        /\ bookings[b].state = "ACTIVE"
    BY <1>2 DEF CancelBooking, IsActive
  <2>. HIDE DEF ended, refund
  <2>4. bookings' \in [BookingIds -> Booking]
    BY <2>2, <2>3 DEF TypeOK
  <2>5. \A c \in BookingIds :
          /\ bookings'[c].student = bookings[c].student
          /\ bookings'[c].session = bookings[c].session
          /\ bookings'[c].state # "NONE" => bookings[c].state # "NONE"
    BY <2>2, <2>3 DEF TypeOK
  <2>6. RowsNamed'
    <3>1. entries' = entries
      BY <2>3
    <3> QED BY <2>5, <3>1 DEF RowsNamed
  <2>7. requestVersion' \in [Sessions -> Nat] /\ requestPending' \in [Sessions -> BOOLEAN]
    <3>1. Once(s) \in [Sessions -> Nat]
      BY DEF Once
    <3> QED BY <1>2, <3>1, RequestPromotionsType DEF CancelBooking
  <2>8. reminders' \in [Commitments -> ReminderStates]
    BY <1>2, SuppressRemindersType DEF CancelBooking, TypeOK, ReminderStates
  <2>9. ledger' \subseteq LedgerRows
    BY <1>2 DEF CancelBooking, TypeOK, LedgerRows, Refunds
  <2>10. /\ commitments' \subseteq Commitments
         /\ occupiedSeats' \in [Sessions -> Int]
         /\ balance' \in [Students -> Int]
    <3>1. commitments' \subseteq Commitments
      BY <1>2 DEF CancelBooking, TypeOK
    <3>2. occupiedSeats' \in [Sessions -> Int]
      <4>1. occupiedSeats' = [occupiedSeats EXCEPT ![s] = @ - 1]
        BY <1>2 DEF CancelBooking
      <4>2. s \in Sessions
        BY <1>2 DEF CancelBooking, IsActive, RowsNamed
      <4> QED BY <4>1, <4>2 DEF TypeOK
    <3>3. balance' = balance
            \/ balance' = [balance EXCEPT ![bookings[b].student] = @ + 1]
      BY <1>2 DEF CancelBooking, TypeOK
    <3>4. balance' \in [Students -> Int]
      BY <3>3 DEF TypeOK
    <3> QED BY <3>1, <3>2, <3>4
  <2>11. UNCHANGED <<now, sessionState, teacherOf, seatCapacity, adjusted, entries,
                     absences, accessStatus, roles>>
    BY <1>2 DEF CancelBooking, accessVars
  <2> QED BY <2>4, <2>6, <2>7, <2>8, <2>9, <2>10, <2>11 DEF TypeOK, ReminderStates
<1>3. ASSUME NEW b \in BookingIds, NEW c \in BookingIds, NEW s \in Sessions,
             bookings[b].student = u, RescheduleBooking(b, s, c)
      PROVE  TypedRows'
  <2>. DEFINE ended == EndBooking(bookings[b], "RESCHEDULED", FALSE)
              created == NewBooking(u, s, -1, b)
              s1 == bookings[b].session
  <2>0. -1 \in Int /\ b \in {0} \cup BookingIds
    OBVIOUS
  <2>1. ended \in Booking /\ created \in Booking
    <3>1. ended \in Booking
      BY RescheduledType DEF TypeOK
    <3>2. created \in Booking
      BY <2>0, NewBookingType
    <3> QED BY <3>1, <3>2
  <2>2. /\ bookings' = [bookings EXCEPT ![b] = ended, ![c] = created]
        /\ entries' = entries
        /\ b # c
        /\ bookings[b].state = "ACTIVE"
    BY <1>3 DEF RescheduleBooking, IsActive, FreshBooking
  <2>3. bookings' \in [BookingIds -> Booking]
    BY <2>1, <2>2 DEF TypeOK
  <2>4. /\ ended.student = u /\ ended.session = s1
        /\ created.student = u /\ created.session = s
    <3>1. ended.student = u /\ ended.session = s1
      BY <1>3, RescheduledType DEF TypeOK
    <3>2. created.student = u /\ created.session = s
      BY <2>0, NewBookingType
    <3> QED BY <3>1, <3>2
  <2>5. RowsNamed'
    BY <2>2, <2>4 DEF RowsNamed, TypeOK
  <2>7. requestVersion' \in [Sessions -> Nat] /\ requestPending' \in [Sessions -> BOOLEAN]
    <3>1. Once(s1) \in [Sessions -> Nat]
      BY DEF Once
    <3> QED BY <1>3, <3>1, RequestPromotionsType DEF RescheduleBooking
  <2>8. reminders' \in [Commitments -> ReminderStates]
    BY <1>3, SuppressRemindersType, OpenReminderType
       DEF RescheduleBooking, TypeOK, ReminderStates
  <2>9. commitments' \subseteq Commitments
    BY <1>3 DEF RescheduleBooking, TypeOK, Commitments, Users, Roles
  <2>10. occupiedSeats' \in [Sessions -> Int]
    BY <1>3 DEF RescheduleBooking, TypeOK
  <2>11. UNCHANGED <<now, sessionState, teacherOf, seatCapacity, balance, adjusted,
                     ledger, entries, absences, accessStatus, roles>>
    BY <1>3 DEF RescheduleBooking, accessVars, creditVars
  <2> QED BY <2>3, <2>5, <2>7, <2>8, <2>9, <2>10, <2>11 DEF TypeOK, ReminderStates
<1>4. ASSUME NEW s \in Sessions, NEW e \in EntryIds, JoinWaitlist(u, s, e)
      PROVE  TypedRows'
  BY <1>4 DEF JoinWaitlist, TypeOK, RowsNamed, Entry, sessionVars, creditVars,
              requestVars, accessVars
<1>5. ASSUME NEW e \in EntryIds, WithdrawWaitlist(e)
      PROVE  TypedRows'
  BY <1>5 DEF WithdrawWaitlist, TypeOK, RowsNamed, Entry, sessionVars, creditVars,
              requestVars, accessVars
<1> QED BY <1>1, <1>2, <1>3, <1>4, <1>5 DEF StudentRequest

LEMMA TeacherRequestType ==
  ASSUME TypedRows, NEW t \in Teachers, TeacherRequest(t)
  PROVE  TypedRows'
<1>1. PICK S \in SUBSET Sessions, a \in AbsenceIds : ReportAbsence(t, S, a)
  BY DEF TeacherRequest
<1> QED BY <1>1 DEF TypedRows, ReportAbsence, TypeOK, RowsNamed, Absence,
                    sessionVars, creditVars, requestVars, accessVars

LEMMA ResolveDisruptionType ==
  ASSUME TypeOK, NEW a \in AbsenceIds, NEW s \in Sessions,
         NEW resolution \in {"TEACHER_SUBSTITUTION", "CLASS_SESSION_CANCELLATION"},
         ResolveDisruption(a, s, resolution)
  PROVE  absences' \in [AbsenceIds -> Absence]
<1>. DEFINE rows == [absences[a].rows EXCEPT ![s] = resolution]
            state == IF \E x \in Sessions : rows[x] = "UNRESOLVED"
                     THEN absences[a].state ELSE "RESOLVED"
<1>1. absences[a] \in Absence
  BY DEF TypeOK
<1>2. [absences[a] EXCEPT !.rows = rows, !.state = state] \in Absence
  <2>1. rows \in [Sessions -> {"NONE", "UNRESOLVED", "TEACHER_SUBSTITUTION",
                               "CLASS_SESSION_CANCELLATION"}]
    BY <1>1 DEF Absence
  <2>2. state \in {"NONE", "OPEN", "RESOLVED"}
    BY <1>1 DEF Absence
  <2> HIDE DEF rows, state
  <2> QED BY <1>1, <2>1, <2>2 DEF Absence
<1>3. absences' = [absences EXCEPT ![a] =
                     [absences[a] EXCEPT !.rows = rows, !.state = state]]
  BY DEF ResolveDisruption, TypeOK
<1> HIDE DEF rows, state
<1> QED BY <1>2, <1>3 DEF TypeOK

LEMMA AdministratorRequestType ==
  ASSUME TypedRows, AdministratorRequest
  PROVE  TypedRows'
<1>. USE DEF TypedRows
<1>1. ASSUME NEW s \in Sessions, NEW t \in Teachers, NEW c \in Capacities,
             PublishClassSession(s, t, c)
      PROVE  TypedRows'
  <2>1. commitments' \subseteq Commitments
    BY <1>1 DEF PublishClassSession, TypeOK, Commitments, Users, Roles
  <2>2. reminders' \in [Commitments -> ReminderStates]
    BY <1>1, OpenReminderType DEF PublishClassSession, TypeOK, ReminderStates
  <2>3. c \in 0 .. 8
    BY ConstantsAssumption
  <2>4. /\ sessionState' \in [Sessions -> {"NONE", "PUBLISHED", "CANCELLED"}]
        /\ teacherOf' \in [Sessions -> Teachers \cup {NoUser}]
        /\ seatCapacity' \in [Sessions -> 0 .. 8]
    BY <1>1, <2>3 DEF PublishClassSession, TypeOK
  <2> QED BY <1>1, <2>1, <2>2, <2>4
          DEF PublishClassSession, TypeOK, RowsNamed, creditVars, requestVars,
              accessVars, ReminderStates
<1>2. ASSUME NEW s \in Sessions, NEW c \in Capacities,
             ChangeClassSessionSeatCapacity(s, c)
      PROVE  TypedRows'
  <2>1. c \in 0 .. 8
    BY ConstantsAssumption
  <2>2. seatCapacity' \in [Sessions -> 0 .. 8]
    BY <1>2, <2>1 DEF ChangeClassSessionSeatCapacity, TypeOK
  <2>3. Once(s) \in [Sessions -> Nat]
    BY DEF Once
  <2>4. requestVersion' \in [Sessions -> Nat] /\ requestPending' \in [Sessions -> BOOLEAN]
    <3>1. CASE RequestPromotions(Once(s))
      BY <2>3, <3>1, RequestPromotionsType
    <3>2. CASE UNCHANGED requestVars
      BY <3>2 DEF requestVars, TypeOK
    <3> QED BY <1>2, <3>1, <3>2 DEF ChangeClassSessionSeatCapacity
  <2> QED BY <1>2, <2>2, <2>4
          DEF ChangeClassSessionSeatCapacity, TypeOK, RowsNamed, creditVars,
              accessVars
<1>3. ASSUME NEW k \in Adjustments, AdjustClassCredits(k[1], k[2])
      PROVE  TypedRows'
  <2>1. k[1] \in Students /\ k[2] \in Int
    BY ConstantsAssumption
  <2>2. balance' \in [Students -> Int] /\ adjusted' \in [Students -> Int]
    BY <1>3, <2>1 DEF AdjustClassCredits, TypeOK
  <2> QED BY <1>3, <2>2
          DEF AdjustClassCredits, TypeOK, RowsNamed, sessionVars, requestVars,
              accessVars
<1>4. ASSUME NEW a \in AbsenceIds, NEW s \in Sessions, NEW t \in Teachers,
             SubstituteTeacher(a, s, t)
      PROVE  TypedRows'
  <2>1. commitments' \subseteq Commitments
    BY <1>4 DEF SubstituteTeacher, TypeOK, Commitments, Users, Roles
  <2>2. reminders' \in [Commitments -> ReminderStates]
    BY <1>4, SuppressRemindersType, OpenReminderType
       DEF SubstituteTeacher, TypeOK, ReminderStates
  <2>3. absences' \in [AbsenceIds -> Absence]
    BY <1>4, ResolveDisruptionType DEF SubstituteTeacher
  <2>4. teacherOf' \in [Sessions -> Teachers \cup {NoUser}]
    BY <1>4 DEF SubstituteTeacher, TypeOK
  <2> QED BY <1>4, <2>1, <2>2, <2>3, <2>4
          DEF SubstituteTeacher, TypeOK, RowsNamed, creditVars, requestVars,
              accessVars, ReminderStates
<1>5. ASSUME NEW a \in AbsenceIds, NEW s \in Sessions, CancelClassSession(a, s)
      PROVE  TypedRows'
  <2>. DEFINE ended == Occupants(s)
              waiting == {e \in ActiveEntries : entries[e].session = s}
  <2>1. bookings' = EndBookings(ended, "CLASS_SESSION_CANCELLATION")
    BY <1>5 DEF CancelClassSession
  <2>2. entries' = CloseEntries(waiting)
    BY <1>5 DEF CancelClassSession
  <2>3. ended \in SUBSET BookingIds /\ waiting \in SUBSET ActiveEntries
    BY DEF Occupants
  <2>4. /\ bookings' \in [BookingIds -> Booking]
        /\ entries' \in [EntryIds -> Entry]
        /\ RowsNamed'
    <3>1. \A b \in ended : bookings[b].state = "ACTIVE"
      BY DEF Occupants
    <3>2. "CLASS_SESSION_CANCELLATION" \in EndReasons
      BY DEF EndReasons
    <3>. HIDE DEF ended, waiting
    <3> QED BY <2>1, <2>2, <2>3, <3>1, <3>2, CleanupType
  <2>5. ledger' \subseteq LedgerRows
    BY <1>5, <2>3 DEF CancelClassSession, TypeOK, LedgerRows, Refunds
  <2>6. balance' \in [Students -> Int]
    <3>1. \A u \in Students : {b \in ended : bookings[b].student = u} \in SUBSET BookingIds
      BY <2>3
    <3>2. \A u \in Students :
            Cardinality({b \in ended : bookings[b].student = u}) \in Nat
      BY <3>1, BookingIdsFinite
    <3>3. balance' = [u \in Students |-> balance[u]
                        + Cardinality({b \in ended : bookings[b].student = u})]
      BY <1>5 DEF CancelClassSession
    <3> QED BY <3>2, <3>3 DEF TypeOK
  <2>7. reminders' \in [Commitments -> ReminderStates]
    BY <1>5, SuppressRemindersType DEF CancelClassSession, TypeOK, ReminderStates
  <2>8. absences' \in [AbsenceIds -> Absence]
    BY <1>5, ResolveDisruptionType DEF CancelClassSession
  <2>9. /\ sessionState' \in [Sessions -> {"NONE", "PUBLISHED", "CANCELLED"}]
        /\ occupiedSeats' \in [Sessions -> Int]
        /\ commitments' \subseteq Commitments
    BY <1>5 DEF CancelClassSession, TypeOK
  <2>10. UNCHANGED <<now, teacherOf, seatCapacity, adjusted, requestVersion,
                     requestPending, accessStatus, roles>>
    BY <1>5 DEF CancelClassSession, requestVars, accessVars
  <2> QED BY <2>4, <2>5, <2>6, <2>7, <2>8, <2>9, <2>10 DEF TypeOK, ReminderStates
<1> QED BY <1>1, <1>2, <1>3, <1>4, <1>5 DEF AdministratorRequest

LEMMA EndStudentCommitmentsType ==
  ASSUME TypedRows, NEW u \in Users, NEW reason \in EndReasons,
         EndStudentCommitments(u, reason)
  PROVE  /\ bookings' \in [BookingIds -> Booking]
         /\ entries' \in [EntryIds -> Entry]
         /\ RowsNamed'
         /\ ledger' \subseteq LedgerRows
         /\ balance' \in [Students -> Int]
         /\ occupiedSeats' \in [Sessions -> Int]
         /\ requestVersion' \in [Sessions -> Nat]
         /\ requestPending' \in [Sessions -> BOOLEAN]
         /\ commitments' \subseteq Commitments
         /\ reminders' \in [Commitments -> ReminderStates]
<1>. DEFINE ended == FutureBookings(u)
            freed == SeatsFreed(ended)
            waiting == {e \in ActiveEntries : entries[e].student = u}
<1>1. /\ ended \in SUBSET BookingIds
      /\ \A b \in ended : bookings[b].state = "ACTIVE"
      /\ waiting \in SUBSET ActiveEntries
  BY DEF FutureBookings
<1>2. /\ bookings' = EndBookings(ended, reason)
      /\ entries' = CloseEntries(waiting)
      /\ ledger' = ledger \cup Refunds(ended)
      /\ balance' = [x \in Students |->
           IF x = u THEN balance[x] + Cardinality(ended) ELSE balance[x]]
      /\ occupiedSeats' = [s \in Sessions |-> occupiedSeats[s] - freed[s]]
      /\ RequestPromotions(freed)
  BY DEF EndStudentCommitments
<1>3. freed \in [Sessions -> Nat] /\ Cardinality(ended) \in Nat
  BY <1>1, SeatsFreedType, BookingIdsFinite
<1>4. commitments' \subseteq Commitments
  BY DEF EndStudentCommitments, TypedRows, TypeOK
<1>5. reminders' \in [Commitments -> ReminderStates]
  BY SuppressRemindersType
     DEF EndStudentCommitments, TypedRows, TypeOK, ReminderStates
<1>. HIDE DEF ended, freed, waiting
<1>6. /\ bookings' \in [BookingIds -> Booking]
      /\ entries' \in [EntryIds -> Entry]
      /\ RowsNamed'
  BY <1>1, <1>2, CleanupType
<1>7. ledger' \subseteq LedgerRows
  BY <1>1, <1>2 DEF TypedRows, TypeOK, LedgerRows, Refunds
<1>8. balance' \in [Students -> Int] /\ occupiedSeats' \in [Sessions -> Int]
  BY <1>2, <1>3 DEF TypedRows, TypeOK
<1>9. requestVersion' \in [Sessions -> Nat] /\ requestPending' \in [Sessions -> BOOLEAN]
  BY <1>2, <1>3, RequestPromotionsType DEF TypedRows
<1> QED BY <1>4, <1>5, <1>6, <1>7, <1>8, <1>9

LEMMA AccessRequestType ==
  ASSUME TypedRows, AccessRequest
  PROVE  TypedRows'
<1>. USE DEF TypedRows
<1>1. ASSUME NEW u \in SuspensionTargets, SuspendUser(u)
      PROVE  TypedRows'
  <2>1. u \in Users /\ "USER_SUSPENSION" \in EndReasons
    BY ConstantsAssumption DEF EndReasons
  <2>2. EndStudentCommitments(u, "USER_SUSPENSION")
    BY <1>1 DEF SuspendUser
  <2>3. accessStatus' \in [Users -> {"ACTIVE", "SUSPENDED"}]
    BY <1>1 DEF SuspendUser, TypeOK
  <2>4. UNCHANGED <<now, sessionState, teacherOf, seatCapacity, adjusted, absences,
                    roles>>
    BY <1>1 DEF SuspendUser
  <2> QED BY <2>1, <2>2, <2>3, <2>4, EndStudentCommitmentsType
          DEF TypeOK, ReminderStates
<1>2. ASSUME NEW u \in SuspensionTargets, ReactivateUser(u)
      PROVE  TypedRows'
  BY <1>2 DEF ReactivateUser, TypeOK, RowsNamed, sessionVars, creditVars, requestVars
<1>3. ASSUME NEW k \in RoleTargets, GrantRoleAssignment(k[1], k[2])
      PROVE  TypedRows'
  <2>1. k \in Users \X Roles
    BY ConstantsAssumption DEF InitialRoles, Users, Roles
  <2> QED BY <1>3, <2>1
          DEF GrantRoleAssignment, TypeOK, RowsNamed, sessionVars, creditVars,
              requestVars
<1>4. ASSUME NEW u \in Students, RemoveStudentRole(u)
      PROVE  TypedRows'
  <2>1. u \in Users /\ "ROLE_ASSIGNMENT_REMOVAL" \in EndReasons
    BY DEF Users, EndReasons
  <2>2. EndStudentCommitments(u, "ROLE_ASSIGNMENT_REMOVAL")
    BY <1>4 DEF RemoveStudentRole
  <2>3. roles' \subseteq Users \X Roles
    BY <1>4 DEF RemoveStudentRole, TypeOK
  <2>4. UNCHANGED <<now, sessionState, teacherOf, seatCapacity, adjusted, absences,
                    accessStatus>>
    BY <1>4 DEF RemoveStudentRole
  <2> QED BY <2>1, <2>2, <2>3, <2>4, EndStudentCommitmentsType
          DEF TypeOK, ReminderStates
<1>5. ASSUME NEW t \in Teachers, RemoveTeacherRole(t)
      PROVE  TypedRows'
  BY <1>5 DEF RemoveTeacherRole, TypeOK, RowsNamed, sessionVars, creditVars, requestVars
<1> QED BY <1>1, <1>2, <1>3, <1>4, <1>5 DEF AccessRequest

LEMMA WaitlistWorkerStepType ==
  ASSUME TypedRows, WaitlistWorkerStep
  PROVE  TypedRows'
<1>. USE DEF TypedRows
<1>1. ASSUME NEW e \in EntryIds, NEW t \in WorkerClocks, ExpireEntry(e, t)
      PROVE  TypedRows'
  BY <1>1 DEF ExpireEntry, TypeOK, RowsNamed, Entry, sessionVars, creditVars,
              requestVars, accessVars
<1>2. ASSUME NEW e \in EntryIds, NEW t \in WorkerClocks, CloseIneligibleEntry(e, t)
      PROVE  TypedRows'
  BY <1>2, SMTT(30) DEF CloseIneligibleEntry, TypeOK, RowsNamed, Entry, sessionVars,
              creditVars, requestVars, accessVars
<1>3. ASSUME NEW e \in EntryIds, NEW b \in BookingIds, NEW t \in WorkerClocks,
             PromoteEntry(e, b, t)
      PROVE  TypedRows'
  <2>. DEFINE u == entries[e].student
              s == entries[e].session
  <2>1. u \in Students /\ s \in Sessions
    BY <1>3 DEF PromoteEntry, RowsNamed
  <2>2. t + PromotionGrace \in Int
    BY LeadAssumption DEF WorkerClocks
  <2>3. CreateBooking(b, u, s, t + PromotionGrace, t)
    BY <1>3 DEF PromoteEntry
  <2>4. entries' = [entries EXCEPT ![e].state = "PROMOTED", ![e].booking = b]
    BY <1>3 DEF PromoteEntry
  <2>5. UNCHANGED <<now, sessionState, teacherOf, seatCapacity, adjusted,
                    requestVersion, requestPending, absences, accessStatus, roles>>
    BY <1>3 DEF PromoteEntry, requestVars, accessVars
  <2>6. entries' \in [EntryIds -> Entry]
    <3>. DEFINE row == [entries[e] EXCEPT !.state = "PROMOTED", !.booking = b]
    <3>1. row \in Entry
      BY PromotedEntryType DEF TypeOK
    <3>2. entries' = [entries EXCEPT ![e] = row]
      BY <2>4 DEF TypeOK, Entry
    <3>. HIDE DEF row
    <3> QED BY <3>1, <3>2 DEF TypeOK
  <2>7. \A d \in EntryIds : entries'[d].state # "NONE" =>
          entries'[d].student \in Students /\ entries'[d].session \in Sessions
    BY <2>1, <2>4 DEF TypeOK, RowsNamed, Entry
  <2>. HIDE DEF u, s
  <2> QED BY <2>1, <2>2, <2>3, <2>5, <2>6, <2>7, CreateBookingType
          DEF TypeOK, RowsNamed, ReminderStates
<1>4. ASSUME NEW s \in Sessions, MarkRequestProcessed(s)
      PROVE  TypedRows'
  BY <1>4 DEF MarkRequestProcessed, TypeOK, RowsNamed, sessionVars, creditVars,
              accessVars
<1> QED BY <1>1, <1>2, <1>3, <1>4 DEF WaitlistWorkerStep

LEMMA ReminderWorkerStepType ==
  ASSUME TypedRows, ReminderWorkerStep
  PROVE  TypedRows'
<1>1. PICK k \in Commitments, t \in WorkerClocks : DeliverClassSessionReminder(k, t)
  BY DEF ReminderWorkerStep
<1> QED BY <1>1 DEF TypedRows, DeliverClassSessionReminder, TypeOK, RowsNamed,
                    sessionVars, creditVars, requestVars, accessVars

LEMMA TickType ==
  ASSUME TypedRows, Tick
  PROVE  TypedRows'
BY ConstantsAssumption
   DEF TypedRows, Tick, TypeOK, RowsNamed, sessionVars, creditVars, requestVars,
       accessVars

LEMMA InitType == Init => TypedRows
<1>1. SUFFICES ASSUME Init PROVE TypedRows
  OBVIOUS
<1>2. NoBooking \in Booking /\ NoEntry \in Entry /\ NoAbsence \in Absence
  BY DEF NoBooking, Booking, NoEntry, Entry, NoAbsence, Absence
<1>3. roles \subseteq Users \X Roles
  BY <1>1 DEF Init, InitialRoles, Users, Roles
<1>4. now \in 0 .. MaxTime /\ InitialCredits \in Int
  BY <1>1, ConstantsAssumption DEF Init
<1>5. RowsNamed
  BY <1>1 DEF Init, RowsNamed, NoBooking, NoEntry
<1>6. TypeOK
  BY <1>1, <1>2, <1>3, <1>4 DEF Init, TypeOK
<1> QED BY <1>5, <1>6 DEF TypedRows

LEMMA StepType == TypedRows /\ [Next]_vars => TypedRows'
<1>1. SUFFICES ASSUME TypedRows, [Next]_vars PROVE TypedRows'
  OBVIOUS
<1>2. CASE UNCHANGED vars
  BY <1>1, <1>2
     DEF vars, sessionVars, creditVars, requestVars, accessVars, TypedRows, TypeOK,
         RowsNamed
<1>3. CASE Next
  BY <1>1, <1>3, StudentRequestType, TeacherRequestType, AdministratorRequestType,
     AccessRequestType, WaitlistWorkerStepType, ReminderWorkerStepType, TickType
     DEF Next
<1> QED BY <1>1, <1>2, <1>3

(* Every table keeps its columns' types in every reachable state, and no   *)
(* row names a Student or a Class Session that does not exist: whatever    *)
(* handlers and worker passes run, in whatever order.                      *)
THEOREM TypeCorrect == Spec => []TypeOK
<1>1. Spec => []TypedRows
  BY InitType, StepType, PTL DEF Spec
<1>2. TypedRows => TypeOK
  BY DEF TypedRows
<1> QED BY <1>1, <1>2, PTL

----------------------------------------------------------------------------
(* No double commitment.  Handlers either drop commitments or add the one  *)
(* they have just found free of conflicts.                                 *)

LEMMA OverlapSymmetric ==
  ASSUME NEW x \in Int, NEW y \in Int
  PROVE  Overlap(x, y) <=> Overlap(y, x)
BY LeadAssumption DEF Overlap

LEMMA FewerCommitments ==
  ASSUME NoDoubleCommitment, commitments' \subseteq commitments
  PROVE  NoDoubleCommitment'
BY DEF NoDoubleCommitment

(* What ScheduleConflict protects: a commitment added beside kept ones, of *)
(* which only those of other Users may have been exempted from the search. *)
LEMMA OneMoreCommitment ==
  ASSUME TypedRows, NoDoubleCommitment,
         NEW u, NEW s \in Sessions, NEW role, NEW exempt, NEW kept,
         ~ScheduleConflict(u, s, exempt),
         kept \subseteq commitments,
         \A k \in kept : k[1] = u => k \notin exempt,
         commitments' = kept \cup {<<u, s, role>>}
  PROVE  NoDoubleCommitment'
<1>1. SUFFICES ASSUME NEW k1 \in commitments', NEW k2 \in commitments',
                      k1 # k2, k1[1] = k2[1]
               PROVE  ~Overlap(StartsAt[k1[2]], StartsAt[k2[2]])
  BY DEF NoDoubleCommitment
<1>2. \A k \in kept : k[1] = u => ~Overlap(StartsAt[k[2]], StartsAt[s])
  BY DEF ScheduleConflict
<1>3. \A k \in kept : k[2] \in Sessions
  BY DEF TypedRows, TypeOK, Commitments
<1>4. \A x \in Sessions : StartsAt[x] \in Int
  BY ConstantsAssumption
<1>5. CASE k1 \in kept /\ k2 \in kept
  BY <1>1, <1>5 DEF NoDoubleCommitment
<1>6. CASE k1 \in kept /\ k2 = <<u, s, role>>
  BY <1>1, <1>2, <1>6
<1>7. CASE k2 \in kept /\ k1 = <<u, s, role>>
  <2>1. ~Overlap(StartsAt[k2[2]], StartsAt[s])
    BY <1>1, <1>2, <1>7
  <2>2. StartsAt[k2[2]] \in Int /\ StartsAt[s] \in Int
    BY <1>3, <1>4, <1>7
  <2> QED BY <1>7, <2>1, <2>2, OverlapSymmetric
<1> QED BY <1>1, <1>5, <1>6, <1>7

LEMMA OneMoreNothingExempt ==
  ASSUME TypedRows, NoDoubleCommitment,
         NEW u, NEW s \in Sessions, NEW role,
         ~ScheduleConflict(u, s, {}),
         commitments' = commitments \cup {<<u, s, role>>}
  PROVE  NoDoubleCommitment'
<1>. DEFINE exempt == {}
            kept == commitments
<1>1. /\ ~ScheduleConflict(u, s, exempt)
      /\ kept \subseteq commitments
      /\ \A k \in kept : k[1] = u => k \notin exempt
      /\ commitments' = kept \cup {<<u, s, role>>}
  OBVIOUS
<1>. HIDE DEF exempt, kept
<1> QED BY <1>1, OneMoreCommitment

LEMMA CreateBookingNoConflict ==
  ASSUME TypedRows, NoDoubleCommitment, NEW b, NEW u, NEW s \in Sessions,
         NEW refundUntil, NEW t, BookingEligible(u, s),
         CreateBooking(b, u, s, refundUntil, t)
  PROVE  NoDoubleCommitment'
<1>1. ~ScheduleConflict(u, s, {})
  BY DEF BookingEligible
<1>2. commitments' = commitments \cup {<<u, s, "STUDENT">>}
  BY DEF CreateBooking
<1> QED BY <1>1, <1>2, OneMoreNothingExempt

LEMMA StepNoDoubleCommitment ==
  TypedRows /\ NoDoubleCommitment /\ [Next]_vars => NoDoubleCommitment'
<1>1. SUFFICES ASSUME TypedRows, NoDoubleCommitment, [Next]_vars
               PROVE  NoDoubleCommitment'
  OBVIOUS
<1>. USE <1>1
<1>2. ASSUME NEW u, NEW s \in Sessions, NEW b, BookClassSession(u, s, b)
      PROVE  NoDoubleCommitment'
  BY <1>2, CreateBookingNoConflict DEF BookClassSession
<1>3. ASSUME NEW b, CancelBooking(b)
      PROVE  NoDoubleCommitment'
  <2>1. commitments' \subseteq commitments
    BY <1>3 DEF CancelBooking
  <2> QED BY <2>1, FewerCommitments
<1>4. ASSUME NEW b, NEW s \in Sessions, NEW c, RescheduleBooking(b, s, c)
      PROVE  NoDoubleCommitment'
  <2>. DEFINE u == bookings[b].student
              left == <<u, bookings[b].session, "STUDENT">>
              kept == commitments \ Released(u, {bookings[b].session})
  <2>1. /\ ~ScheduleConflict(u, s, {left})
        /\ commitments' = kept \cup {<<u, s, "STUDENT">>}
    BY <1>4 DEF RescheduleBooking
  <2>2. kept \subseteq commitments /\ \A k \in kept : k[1] = u => k \notin {left}
    BY DEF Released
  <2>. HIDE DEF u, left, kept
  <2> QED BY <2>1, <2>2, OneMoreCommitment
<1>5. ASSUME NEW s \in Sessions, NEW t, NEW c, PublishClassSession(s, t, c)
      PROVE  NoDoubleCommitment'
  <2>1. /\ ~ScheduleConflict(t, s, {})
        /\ commitments' = commitments \cup {<<t, s, "TEACHER">>}
    BY <1>5 DEF PublishClassSession
  <2> QED BY <2>1, OneMoreNothingExempt
<1>6. ASSUME NEW a, NEW s \in Sessions, NEW t \in Teachers, SubstituteTeacher(a, s, t)
      PROVE  NoDoubleCommitment'
  <2>. DEFINE exempt == Users \X {s} \X Roles
              kept == commitments \ TeacherCommitment(s)
  <2>1. /\ ~ScheduleConflict(t, s, exempt)
        /\ <<t, s, "STUDENT">> \notin commitments
        /\ commitments' = kept \cup {<<t, s, "TEACHER">>}
    BY <1>6 DEF SubstituteTeacher, ReplacementAccepted
  <2>2. \A k \in kept : k[1] = t => k \notin exempt
    <3>1. SUFFICES ASSUME NEW k \in kept, k[1] = t, k \in exempt PROVE FALSE
      OBVIOUS
    <3>2. k = <<t, s, "STUDENT">> \/ k = <<t, s, "TEACHER">>
      BY <3>1 DEF Roles
    <3>3. k # <<t, s, "TEACHER">>
      BY <3>1 DEF TeacherCommitment, Users
    <3> QED BY <2>1, <3>1, <3>2, <3>3
  <2>3. kept \subseteq commitments
    OBVIOUS
  <2>. HIDE DEF exempt, kept
  <2> QED BY <2>1, <2>2, <2>3, OneMoreCommitment
<1>7. ASSUME NEW a, NEW s, CancelClassSession(a, s)
      PROVE  NoDoubleCommitment'
  <2>1. commitments' \subseteq commitments
    BY <1>7 DEF CancelClassSession
  <2> QED BY <2>1, FewerCommitments
<1>8. ASSUME NEW u, NEW reason, EndStudentCommitments(u, reason)
      PROVE  NoDoubleCommitment'
  <2>1. commitments' \subseteq commitments
    BY <1>8 DEF EndStudentCommitments
  <2> QED BY <2>1, FewerCommitments
<1>9. ASSUME NEW e \in EntryIds, NEW b, NEW t, PromoteEntry(e, b, t)
      PROVE  NoDoubleCommitment'
  <2>1. entries[e].session \in Sessions
    BY <1>9 DEF PromoteEntry, TypedRows, RowsNamed
  <2> QED BY <1>9, <2>1, CreateBookingNoConflict DEF PromoteEntry
<1>10. CASE UNCHANGED commitments
  BY <1>10, FewerCommitments
<1>11. CASE UNCHANGED vars
  BY <1>10, <1>11 DEF vars
<1>12. ASSUME NEW u \in Students, StudentRequest(u)
       PROVE  NoDoubleCommitment'
  BY <1>2, <1>3, <1>4, <1>10, <1>12
     DEF StudentRequest, JoinWaitlist, WithdrawWaitlist
<1>13. ASSUME NEW t, TeacherRequest(t)
       PROVE  NoDoubleCommitment'
  BY <1>10, <1>13 DEF TeacherRequest, ReportAbsence
<1>14. CASE AdministratorRequest
  BY <1>5, <1>6, <1>7, <1>10, <1>14
     DEF AdministratorRequest, ChangeClassSessionSeatCapacity, AdjustClassCredits
<1>15. CASE AccessRequest
  BY <1>8, <1>10, <1>15
     DEF AccessRequest, SuspendUser, ReactivateUser, GrantRoleAssignment,
         RemoveStudentRole, RemoveTeacherRole
<1>16. CASE WaitlistWorkerStep
  BY <1>9, <1>10, <1>16
     DEF WaitlistWorkerStep, ExpireEntry, CloseIneligibleEntry, MarkRequestProcessed
<1>17. CASE ReminderWorkerStep \/ Tick
  BY <1>10, <1>17 DEF ReminderWorkerStep, DeliverClassSessionReminder, Tick
<1> QED BY <1>11, <1>12, <1>13, <1>14, <1>15, <1>16, <1>17 DEF Next

(* Nobody is ever committed to two overlapping Class Sessions, as Student, *)
(* as Teacher or one of each, for any number of Users, sessions and start  *)
(* instants: the exclusion constraint of migration 0007 never aborts a     *)
(* transaction whose handler has passed its own checks, except for the     *)
(* replacement Teacher who is a Student of the very session.               *)
THEOREM NobodyIsDoubleCommitted == Spec => []NoDoubleCommitment
<1>1. Init => TypedRows /\ NoDoubleCommitment
  BY InitType DEF Init, NoDoubleCommitment
<1>2. TypedRows /\ NoDoubleCommitment /\ [Next]_vars
        => (TypedRows /\ NoDoubleCommitment)'
  BY StepType, StepNoDoubleCommitment
<1> QED BY <1>1, <1>2, PTL DEF Spec

----------------------------------------------------------------------------
(* Seats.  The counter is never recomputed: every handler adds or takes    *)
(* what it changed in the bookings table.                                  *)

(* A session not yet published has no seats, so publication cannot set a   *)
(* capacity below what is occupied.                                        *)
UnpublishedHasNoSeats ==
  \A s \in Sessions : sessionState[s] = "NONE" => seatCapacity[s] = 0

SeatsInvariant == TypedRows /\ SeatsReconcile /\ UnpublishedHasNoSeats

LEMMA OccupantsFinite ==
  ASSUME NEW s
  PROVE  IsFiniteSet(Occupants(s)) /\ Cardinality(Occupants(s)) \in Nat
BY BookingIdsFinite DEF Occupants

LEMMA OccupantAdded ==
  ASSUME TypedRows, NEW b \in BookingIds, NEW row, NEW s \in Sessions,
         bookings[b].state = "NONE",
         row.state = "ACTIVE", row.session = s,
         bookings' = [bookings EXCEPT ![b] = row]
  PROVE  /\ Cardinality(Occupants(s))' = Cardinality(Occupants(s)) + 1
         /\ \A x \in Sessions : x # s => Occupants(x)' = Occupants(x)
<1>1. Occupants(s)' = Occupants(s) \cup {b} /\ b \notin Occupants(s)
  BY DEF Occupants, TypedRows, TypeOK
<1>2. \A x \in Sessions : x # s => Occupants(x)' = Occupants(x)
  BY DEF Occupants, TypedRows, TypeOK
<1> QED BY <1>1, <1>2, OccupantsFinite, FS_AddElement

LEMMA OccupantRemoved ==
  ASSUME TypedRows, NEW b \in BookingIds, NEW row, NEW s \in Sessions,
         bookings[b].state = "ACTIVE", bookings[b].session = s,
         row.state = "ENDED",
         bookings' = [bookings EXCEPT ![b] = row]
  PROVE  /\ Cardinality(Occupants(s))' = Cardinality(Occupants(s)) - 1
         /\ \A x \in Sessions : x # s => Occupants(x)' = Occupants(x)
<1>1. Occupants(s)' = Occupants(s) \ {b} /\ b \in Occupants(s)
  BY DEF Occupants, TypedRows, TypeOK
<1>2. \A x \in Sessions : x # s => Occupants(x)' = Occupants(x)
  BY DEF Occupants, TypedRows, TypeOK
<1> QED BY <1>1, <1>2, OccupantsFinite, FS_RemoveElement, ZenonT(30)

LEMMA OccupantMoved ==
  ASSUME TypedRows, NEW b \in BookingIds, NEW c \in BookingIds,
         NEW s1 \in Sessions, NEW s2 \in Sessions, s1 # s2,
         bookings[b].state = "ACTIVE", bookings[b].session = s1,
         bookings[c].state = "NONE",
         bookings'[b].state = "ENDED",
         bookings'[c].state = "ACTIVE", bookings'[c].session = s2,
         \A d \in BookingIds \ {b, c} : bookings'[d] = bookings[d]
  PROVE  /\ Cardinality(Occupants(s1))' = Cardinality(Occupants(s1)) - 1
         /\ Cardinality(Occupants(s2))' = Cardinality(Occupants(s2)) + 1
         /\ \A x \in Sessions : x # s1 /\ x # s2 => Occupants(x)' = Occupants(x)
<1>1. Occupants(s1)' = Occupants(s1) \ {b} /\ b \in Occupants(s1)
  BY DEF Occupants, TypedRows, TypeOK
<1>2. Occupants(s2)' = Occupants(s2) \cup {c} /\ c \notin Occupants(s2)
  BY DEF Occupants, TypedRows, TypeOK
<1>3. \A x \in Sessions : x # s1 /\ x # s2 => Occupants(x)' = Occupants(x)
  BY DEF Occupants, TypedRows, TypeOK
<1>4. Cardinality(Occupants(s1))' = Cardinality(Occupants(s1)) - 1
  BY <1>1, OccupantsFinite, FS_RemoveElement, ZenonT(30)
<1>5. Cardinality(Occupants(s2))' = Cardinality(Occupants(s2)) + 1
  BY <1>2, OccupantsFinite, FS_AddElement
<1> QED BY <1>3, <1>4, <1>5

(* A booking transaction takes the seat it found free.                     *)
LEMMA CreateBookingSeats ==
  ASSUME SeatsInvariant, NEW b \in BookingIds, NEW u, NEW s \in Sessions,
         NEW refundUntil, NEW t, HasFreeSeat(s),
         CreateBooking(b, u, s, refundUntil, t),
         seatCapacity' = seatCapacity
  PROVE  SeatsReconcile'
<1>. DEFINE row == NewBooking(u, s, refundUntil, 0)
<1>1. /\ bookings[b].state = "NONE"
      /\ bookings' = [bookings EXCEPT ![b] = row]
      /\ occupiedSeats' = [occupiedSeats EXCEPT ![s] = @ + 1]
  BY DEF CreateBooking, FreshBooking
<1>2. row.state = "ACTIVE" /\ row.session = s
  BY DEF NewBooking
<1>. HIDE DEF row
<1>3. /\ Cardinality(Occupants(s))' = Cardinality(Occupants(s)) + 1
      /\ \A x \in Sessions : x # s => Occupants(x)' = Occupants(x)
  BY <1>1, <1>2, OccupantAdded DEF SeatsInvariant
<1>4. occupiedSeats[s] + 1 <= seatCapacity[s]
  BY DEF HasFreeSeat, SeatsInvariant, TypedRows, TypeOK
<1> QED BY <1>1, <1>3, <1>4 DEF SeatsReconcile, SeatsInvariant, TypedRows, TypeOK

LEMMA CancelBookingSeats ==
  ASSUME SeatsInvariant, NEW b \in BookingIds, CancelBooking(b)
  PROVE  SeatsReconcile'
<1>. DEFINE row == EndBooking(bookings[b], "STUDENT_CANCELLATION",
                              CancellationRefunds(b, now))
<1>3. PICK s \in Sessions : s = bookings[b].session
  BY DEF CancelBooking, IsActive, SeatsInvariant, TypedRows, RowsNamed
<1>1. /\ bookings[b].state = "ACTIVE" /\ bookings[b].session = s
      /\ bookings' = [bookings EXCEPT ![b] = row]
      /\ occupiedSeats' = [occupiedSeats EXCEPT ![s] = @ - 1]
      /\ seatCapacity' = seatCapacity
  BY <1>3 DEF CancelBooking, IsActive
<1>2. row.state = "ENDED"
  <2>1. CancellationRefunds(b, now) \in BOOLEAN
    BY DEF CancellationRefunds
  <2> QED BY <2>1, EndBookingType DEF SeatsInvariant, TypedRows, TypeOK, EndReasons
<1>. HIDE DEF row
<1>4. /\ Cardinality(Occupants(s))' = Cardinality(Occupants(s)) - 1
      /\ \A x \in Sessions : x # s => Occupants(x)' = Occupants(x)
  BY <1>1, <1>2, OccupantRemoved DEF SeatsInvariant
<1>5. \A x \in Sessions :
        /\ occupiedSeats'[x] = IF x = s THEN occupiedSeats[x] - 1
                                        ELSE occupiedSeats[x]
        /\ occupiedSeats[x] = Cardinality(Occupants(x))
        /\ occupiedSeats[x] <= seatCapacity[x]
        /\ occupiedSeats[x] \in Int /\ seatCapacity[x] \in Int
  BY <1>1 DEF SeatsReconcile, SeatsInvariant, TypedRows, TypeOK
<1>6. \A x \in Sessions :
        /\ occupiedSeats'[x] = Cardinality(Occupants(x))'
        /\ occupiedSeats'[x] <= seatCapacity'[x]
  BY <1>1, <1>4, <1>5
<1> QED BY <1>6 DEF SeatsReconcile

LEMMA RescheduleBookingSeats ==
  ASSUME SeatsInvariant, NEW b \in BookingIds, NEW c \in BookingIds,
         NEW s2 \in Sessions, RescheduleBooking(b, s2, c)
  PROVE  SeatsReconcile'
<1>. DEFINE ended == EndBooking(bookings[b], "RESCHEDULED", FALSE)
            created == NewBooking(bookings[b].student, s2, -1, b)
<1>2. PICK s1 \in Sessions : s1 = bookings[b].session
  BY DEF RescheduleBooking, IsActive, SeatsInvariant, TypedRows, RowsNamed
<1>1. /\ bookings[b].state = "ACTIVE" /\ bookings[b].session = s1
      /\ bookings[c].state = "NONE"
      /\ s2 # s1
      /\ HasFreeSeat(s2)
      /\ bookings' = [bookings EXCEPT ![b] = ended, ![c] = created]
      /\ occupiedSeats' = [occupiedSeats EXCEPT ![s1] = @ - 1, ![s2] = @ + 1]
      /\ seatCapacity' = seatCapacity
      /\ b # c
  BY <1>2 DEF RescheduleBooking, IsActive, FreshBooking
<1>3. ended.state = "ENDED"
  <2>1. "RESCHEDULED" \in EndReasons /\ FALSE \in BOOLEAN
    BY DEF EndReasons
  <2> QED BY <2>1, EndBookingType DEF SeatsInvariant, TypedRows, TypeOK
<1>4. created.state = "ACTIVE" /\ created.session = s2
  BY DEF NewBooking
<1>. HIDE DEF ended, created
<1>5. /\ Cardinality(Occupants(s1))' = Cardinality(Occupants(s1)) - 1
      /\ Cardinality(Occupants(s2))' = Cardinality(Occupants(s2)) + 1
      /\ \A x \in Sessions : x # s1 /\ x # s2 => Occupants(x)' = Occupants(x)
  <2>1. TypedRows /\ s1 # s2
    BY <1>1 DEF SeatsInvariant
  <2>2. /\ bookings'[b] = ended
        /\ bookings'[c] = created
        /\ \A d \in BookingIds \ {b, c} : bookings'[d] = bookings[d]
    BY <1>1 DEF SeatsInvariant, TypedRows, TypeOK
  <2>3. /\ bookings[b].state = "ACTIVE"
        /\ bookings[b].session = s1
        /\ bookings[c].state = "NONE"
    BY <1>1
  <2>4. /\ bookings'[b].state = "ENDED"
        /\ bookings'[c].state = "ACTIVE"
        /\ bookings'[c].session = s2
    BY <1>3, <1>4, <2>2
  <2>5. \A d \in BookingIds \ {b, c} : bookings'[d] = bookings[d]
    BY <2>2
  <2> QED BY <2>1, <2>3, <2>4, <2>5, OccupantMoved
<1>6. occupiedSeats[s2] + 1 <= seatCapacity[s2]
  BY <1>1 DEF HasFreeSeat, SeatsInvariant, TypedRows, TypeOK
<1>7. \A x \in Sessions :
        /\ occupiedSeats'[x] = IF x = s1 THEN occupiedSeats[x] - 1
                               ELSE IF x = s2 THEN occupiedSeats[x] + 1
                               ELSE occupiedSeats[x]
        /\ occupiedSeats[x] = Cardinality(Occupants(x))
        /\ occupiedSeats[x] <= seatCapacity[x]
        /\ occupiedSeats[x] \in Int /\ seatCapacity[x] \in Int
  BY <1>1 DEF SeatsReconcile, SeatsInvariant, TypedRows, TypeOK
<1>8. \A x \in Sessions :
        /\ occupiedSeats'[x] = Cardinality(Occupants(x))'
        /\ occupiedSeats'[x] <= seatCapacity'[x]
  <2>. TAKE x \in Sessions
  <2>1. seatCapacity'[x] = seatCapacity[x] /\ s1 # s2
    BY <1>1
  <2>2. CASE x = s1
    BY <1>5, <1>7, <2>1, <2>2
  <2>3. CASE x = s2
    BY <1>5, <1>6, <1>7, <2>1, <2>3
  <2>4. CASE x # s1 /\ x # s2
    <3>1. Cardinality(Occupants(x))' = Cardinality(Occupants(x))
      BY <1>5, <2>4
    <3> QED BY <1>7, <2>1, <2>4, <3>1
  <2> QED BY <2>2, <2>3, <2>4
<1> QED BY <1>8 DEF SeatsReconcile

LEMMA CancelClassSessionSeats ==
  ASSUME SeatsInvariant, NEW a, NEW s \in Sessions, CancelClassSession(a, s)
  PROVE  SeatsReconcile'
<1>1. /\ bookings' = EndBookings(Occupants(s), "CLASS_SESSION_CANCELLATION")
      /\ occupiedSeats' = [occupiedSeats EXCEPT ![s] = 0]
      /\ seatCapacity' = seatCapacity
  BY DEF CancelClassSession
<1>2. \A b \in BookingIds :
        /\ b \in Occupants(s) => bookings'[b].state = "ENDED"
        /\ b \notin Occupants(s) => bookings'[b] = bookings[b]
  <2>1. "CLASS_SESSION_CANCELLATION" \in EndReasons
    BY DEF EndReasons
  <2> QED BY <1>1, <2>1, EndBookingsType DEF SeatsInvariant
<1>3. Occupants(s)' = {}
  BY <1>2 DEF Occupants
<1>4. \A x \in Sessions : x # s => Occupants(x)' = Occupants(x)
  BY <1>2 DEF Occupants
<1>5. Cardinality(Occupants(s))' = 0
  BY <1>3, FS_EmptySet
<1>6. \A x \in Sessions :
        /\ occupiedSeats'[x] = IF x = s THEN 0 ELSE occupiedSeats[x]
        /\ occupiedSeats[x] = Cardinality(Occupants(x))
        /\ occupiedSeats[x] <= seatCapacity[x]
        /\ 0 <= seatCapacity'[x] /\ seatCapacity'[x] = seatCapacity[x]
  BY <1>1 DEF SeatsReconcile, SeatsInvariant, TypedRows, TypeOK
<1>7. \A x \in Sessions :
        /\ occupiedSeats'[x] = Cardinality(Occupants(x))'
        /\ occupiedSeats'[x] <= seatCapacity'[x]
  BY <1>4, <1>5, <1>6
<1> QED BY <1>7 DEF SeatsReconcile

(* Suspension and removal of the Student role give back one seat of each   *)
(* future session the Student was booked in.                               *)
LEMMA EndStudentCommitmentsSeats ==
  ASSUME SeatsInvariant, NEW u, NEW reason \in EndReasons,
         EndStudentCommitments(u, reason), seatCapacity' = seatCapacity
  PROVE  SeatsReconcile'
<1>. DEFINE ended == FutureBookings(u)
            left(x) == {b \in ended : bookings[b].session = x}
<1>1. /\ bookings' = EndBookings(ended, reason)
      /\ occupiedSeats' = [x \in Sessions |-> occupiedSeats[x] - SeatsFreed(ended)[x]]
  BY DEF EndStudentCommitments
<1>2. \A b \in BookingIds :
        /\ b \in ended => bookings'[b].state = "ENDED"
        /\ b \notin ended => bookings'[b] = bookings[b]
  <2>. HIDE DEF ended
  <2> QED BY <1>1, EndBookingsType DEF SeatsInvariant
<1>3. ASSUME NEW x \in Sessions
      PROVE  /\ occupiedSeats'[x] = Cardinality(Occupants(x))'
             /\ occupiedSeats'[x] <= seatCapacity'[x]
  <2>1. Occupants(x)' = Occupants(x) \ left(x)
    BY <1>2 DEF Occupants
  <2>2. left(x) \subseteq Occupants(x)
    BY DEF Occupants, FutureBookings
  <2>3. /\ IsFiniteSet(Occupants(x)) /\ Cardinality(Occupants(x)) \in Nat
        /\ IsFiniteSet(left(x)) /\ Cardinality(left(x)) \in Nat
    <3>1. left(x) \in SUBSET BookingIds
      BY DEF FutureBookings
    <3> QED BY <3>1, OccupantsFinite, BookingIdsFinite
  <2>4. Cardinality(Occupants(x))' = Cardinality(Occupants(x)) - Cardinality(left(x))
    <3>1. Occupants(x) \cap left(x) = left(x)
      BY <2>2
    <3>2. Cardinality(Occupants(x) \ left(x))
            = Cardinality(Occupants(x)) - Cardinality(Occupants(x) \cap left(x))
      BY <2>3, FS_Difference
    <3> QED BY <2>1, <3>1, <3>2
  <2>5. occupiedSeats'[x] = occupiedSeats[x] - Cardinality(left(x))
    BY <1>1 DEF SeatsFreed
  <2>6. /\ occupiedSeats[x] = Cardinality(Occupants(x))
        /\ occupiedSeats[x] <= seatCapacity[x]
        /\ seatCapacity[x] \in Int
    BY DEF SeatsInvariant, SeatsReconcile, TypedRows, TypeOK
  <2> HIDE DEF left
  <2> QED BY <2>3, <2>4, <2>5, <2>6
<1> QED BY <1>3 DEF SeatsReconcile

LEMMA SeatsUndisturbed ==
  ASSUME SeatsInvariant, UNCHANGED <<bookings, occupiedSeats, seatCapacity>>
  PROVE  SeatsReconcile'
BY DEF SeatsInvariant, SeatsReconcile, Occupants

LEMMA CapacityChangedSeats ==
  ASSUME SeatsInvariant, NEW s \in Sessions, NEW c \in Capacities,
         UNCHANGED <<bookings, occupiedSeats>>,
         seatCapacity' = [seatCapacity EXCEPT ![s] = c],
         occupiedSeats[s] <= c
  PROVE  SeatsReconcile'
<1>1. \A x \in Sessions : Cardinality(Occupants(x))' = Cardinality(Occupants(x))
  BY DEF Occupants
<1>2. \A x \in Sessions :
        /\ occupiedSeats'[x] = Cardinality(Occupants(x))
        /\ occupiedSeats[x] <= seatCapacity[x]
        /\ seatCapacity'[x] = IF x = s THEN c ELSE seatCapacity[x]
  BY DEF SeatsInvariant, SeatsReconcile, TypedRows, TypeOK
<1>3. \A x \in Sessions :
        /\ occupiedSeats'[x] = Cardinality(Occupants(x))'
        /\ occupiedSeats'[x] <= seatCapacity'[x]
  BY <1>1, <1>2
<1> QED BY <1>3 DEF SeatsReconcile

LEMMA StepSeats == SeatsInvariant /\ [Next]_vars => SeatsReconcile'
<1>1. SUFFICES ASSUME SeatsInvariant, [Next]_vars PROVE SeatsReconcile'
  OBVIOUS
<1>. USE <1>1
<1>2. ASSUME NEW u \in Students, StudentRequest(u)
      PROVE  SeatsReconcile'
  <2>1. ASSUME NEW s \in Sessions, NEW b \in BookingIds, BookClassSession(u, s, b)
        PROVE  SeatsReconcile'
    BY <2>1, CreateBookingSeats DEF BookClassSession
  <2>2. ASSUME NEW b \in BookingIds, CancelBooking(b)
        PROVE  SeatsReconcile'
    BY <2>2, CancelBookingSeats
  <2>3. ASSUME NEW b \in BookingIds, NEW c \in BookingIds, NEW s \in Sessions,
               RescheduleBooking(b, s, c)
        PROVE  SeatsReconcile'
    BY <2>3, RescheduleBookingSeats
  <2>4. ASSUME NEW s \in Sessions, NEW e \in EntryIds,
               JoinWaitlist(u, s, e) \/ WithdrawWaitlist(e)
        PROVE  SeatsReconcile'
    BY <2>4, SeatsUndisturbed DEF JoinWaitlist, WithdrawWaitlist, sessionVars
  <2>5. ASSUME NEW e \in EntryIds, WithdrawWaitlist(e)
        PROVE  SeatsReconcile'
    BY <2>5, SeatsUndisturbed DEF WithdrawWaitlist, sessionVars
  <2> QED BY <1>2, <2>1, <2>2, <2>3, <2>4, <2>5 DEF StudentRequest
<1>3. ASSUME NEW t \in Teachers, TeacherRequest(t)
      PROVE  SeatsReconcile'
  BY <1>3, SeatsUndisturbed DEF TeacherRequest, ReportAbsence, sessionVars
<1>4. CASE AdministratorRequest
  <2>1. ASSUME NEW s \in Sessions, NEW t \in Teachers, NEW c \in Capacities,
               PublishClassSession(s, t, c)
        PROVE  SeatsReconcile'
    <3>1. /\ bookings' = bookings /\ occupiedSeats' = occupiedSeats
          /\ seatCapacity' = [seatCapacity EXCEPT ![s] = c]
          /\ sessionState[s] = "NONE"
      BY <2>1 DEF PublishClassSession
    <3>2. occupiedSeats[s] <= c
      <4>1. /\ occupiedSeats[s] <= 0 /\ occupiedSeats[s] \in Int
            /\ c \in 2 .. 8
        BY <3>1, ConstantsAssumption
           DEF SeatsInvariant, UnpublishedHasNoSeats, SeatsReconcile, TypedRows,
               TypeOK
      <4> QED BY <4>1
    <3> QED BY <3>1, <3>2, CapacityChangedSeats
  <2>2. ASSUME NEW s \in Sessions, NEW c \in Capacities,
               ChangeClassSessionSeatCapacity(s, c)
        PROVE  SeatsReconcile'
    <3>1. /\ bookings' = bookings /\ occupiedSeats' = occupiedSeats
          /\ seatCapacity' = [seatCapacity EXCEPT ![s] = c]
          /\ c >= occupiedSeats[s]
      BY <2>2 DEF ChangeClassSessionSeatCapacity
    <3>2. occupiedSeats[s] <= c
      BY <3>1, ConstantsAssumption DEF SeatsInvariant, TypedRows, TypeOK
    <3> QED BY <3>1, <3>2, CapacityChangedSeats
  <2>3. ASSUME NEW k \in Adjustments, AdjustClassCredits(k[1], k[2])
        PROVE  SeatsReconcile'
    BY <2>3, SeatsUndisturbed DEF AdjustClassCredits, sessionVars
  <2>4. ASSUME NEW a \in AbsenceIds, NEW s \in Sessions, NEW t \in Teachers,
               SubstituteTeacher(a, s, t)
        PROVE  SeatsReconcile'
    BY <2>4, SeatsUndisturbed DEF SubstituteTeacher
  <2>5. ASSUME NEW a \in AbsenceIds, NEW s \in Sessions, CancelClassSession(a, s)
        PROVE  SeatsReconcile'
    BY <2>5, CancelClassSessionSeats
  <2> QED BY <1>4, <2>1, <2>2, <2>3, <2>4, <2>5 DEF AdministratorRequest
<1>5. CASE AccessRequest
  <2>1. ASSUME NEW u, SuspendUser(u)
        PROVE  SeatsReconcile'
    <3>1. "USER_SUSPENSION" \in EndReasons
      BY DEF EndReasons
    <3> QED BY <2>1, <3>1, EndStudentCommitmentsSeats DEF SuspendUser
  <2>2. ASSUME NEW u, RemoveStudentRole(u)
        PROVE  SeatsReconcile'
    <3>1. "ROLE_ASSIGNMENT_REMOVAL" \in EndReasons
      BY DEF EndReasons
    <3> QED BY <2>2, <3>1, EndStudentCommitmentsSeats DEF RemoveStudentRole
  <2>3. ASSUME NEW u, NEW role,
               \/ ReactivateUser(u) \/ GrantRoleAssignment(u, role)
               \/ RemoveTeacherRole(u)
        PROVE  SeatsReconcile'
    BY <2>3, SeatsUndisturbed
       DEF ReactivateUser, GrantRoleAssignment, RemoveTeacherRole, sessionVars
  <2> QED BY <1>5, <2>1, <2>2, <2>3 DEF AccessRequest
<1>6. CASE WaitlistWorkerStep
  <2>1. ASSUME NEW e \in EntryIds, NEW b \in BookingIds, NEW t \in WorkerClocks,
               PromoteEntry(e, b, t)
        PROVE  SeatsReconcile'
    <3>1. PICK s \in Sessions : s = entries[e].session
      BY <2>1 DEF PromoteEntry, SeatsInvariant, TypedRows, RowsNamed
    <3>2. /\ HasFreeSeat(s)
          /\ CreateBooking(b, entries[e].student, s, t + PromotionGrace, t)
          /\ seatCapacity' = seatCapacity
      BY <2>1, <3>1 DEF PromoteEntry
    <3>3. PICK u : u = entries[e].student
      OBVIOUS
    <3>4. CreateBooking(b, u, s, t + PromotionGrace, t)
      BY <3>2, <3>3
    <3> QED BY <3>2, <3>4, CreateBookingSeats
  <2>2. ASSUME NEW e \in EntryIds, NEW t \in WorkerClocks,
               ExpireEntry(e, t) \/ CloseIneligibleEntry(e, t)
        PROVE  SeatsReconcile'
    BY <2>2, SeatsUndisturbed
       DEF ExpireEntry, CloseIneligibleEntry, sessionVars
  <2>3. ASSUME NEW s \in Sessions, MarkRequestProcessed(s)
        PROVE  SeatsReconcile'
    BY <2>3, SeatsUndisturbed DEF MarkRequestProcessed, sessionVars
  <2> QED BY <1>6, <2>1, <2>2, <2>3 DEF WaitlistWorkerStep
<1>7. CASE ReminderWorkerStep
  BY <1>7, SeatsUndisturbed
     DEF ReminderWorkerStep, DeliverClassSessionReminder, sessionVars
<1>8. CASE Tick
  BY <1>8, SeatsUndisturbed DEF Tick, sessionVars
<1>9. CASE UNCHANGED vars
  BY <1>9, SeatsUndisturbed DEF vars, sessionVars
<1> QED BY <1>2, <1>3, <1>4, <1>5, <1>6, <1>7, <1>8, <1>9 DEF Next

LEMMA StepUnpublished ==
  SeatsInvariant /\ [Next]_vars => UnpublishedHasNoSeats'
<1>1. SUFFICES ASSUME SeatsInvariant, [Next]_vars PROVE UnpublishedHasNoSeats'
  OBVIOUS
<1>. USE <1>1
<1>2. ASSUME UNCHANGED <<sessionState, seatCapacity>>
      PROVE  UnpublishedHasNoSeats'
  BY <1>2 DEF SeatsInvariant, UnpublishedHasNoSeats
<1>3. ASSUME NEW u \in Students, StudentRequest(u)
      PROVE  UNCHANGED <<sessionState, seatCapacity>>
  BY <1>3, ZenonT(30) DEF StudentRequest, BookClassSession, CancelBooking,
              RescheduleBooking, JoinWaitlist, WithdrawWaitlist, sessionVars
<1>4. ASSUME NEW t \in Teachers, TeacherRequest(t)
      PROVE  UNCHANGED <<sessionState, seatCapacity>>
  BY <1>4 DEF TeacherRequest, ReportAbsence, sessionVars
<1>5. CASE AdministratorRequest
  <2>1. ASSUME NEW s \in Sessions, NEW t \in Teachers, NEW c \in Capacities,
               PublishClassSession(s, t, c)
        PROVE  UnpublishedHasNoSeats'
    <3>1. /\ sessionState' = [sessionState EXCEPT ![s] = "PUBLISHED"]
          /\ seatCapacity' = [seatCapacity EXCEPT ![s] = c]
      BY <2>1 DEF PublishClassSession
    <3> QED BY <3>1 DEF SeatsInvariant, UnpublishedHasNoSeats, TypedRows, TypeOK
  <2>2. ASSUME NEW s \in Sessions, NEW c \in Capacities,
               ChangeClassSessionSeatCapacity(s, c)
        PROVE  UnpublishedHasNoSeats'
    <3>1. /\ sessionState[s] = "PUBLISHED" /\ sessionState' = sessionState
          /\ seatCapacity' = [seatCapacity EXCEPT ![s] = c]
      BY <2>2 DEF ChangeClassSessionSeatCapacity
    <3> QED BY <3>1 DEF SeatsInvariant, UnpublishedHasNoSeats, TypedRows, TypeOK
  <2>3. ASSUME NEW a \in AbsenceIds, NEW s \in Sessions, CancelClassSession(a, s)
        PROVE  UnpublishedHasNoSeats'
    <3>1. /\ sessionState' = [sessionState EXCEPT ![s] = "CANCELLED"]
          /\ seatCapacity' = seatCapacity
      BY <2>3 DEF CancelClassSession
    <3> QED BY <3>1 DEF SeatsInvariant, UnpublishedHasNoSeats, TypedRows, TypeOK
  <2>4. ASSUME NEW k \in Adjustments, AdjustClassCredits(k[1], k[2])
        PROVE  UnpublishedHasNoSeats'
    BY <1>2, <2>4 DEF AdjustClassCredits, sessionVars
  <2>5. ASSUME NEW a \in AbsenceIds, NEW s \in Sessions, NEW t \in Teachers,
               SubstituteTeacher(a, s, t)
        PROVE  UnpublishedHasNoSeats'
    BY <1>2, <2>5 DEF SubstituteTeacher
  <2> QED BY <1>5, <2>1, <2>2, <2>3, <2>4, <2>5 DEF AdministratorRequest
<1>6. CASE AccessRequest
  <2>1. UNCHANGED <<sessionState, seatCapacity>>
    BY <1>6 DEF AccessRequest, SuspendUser, ReactivateUser, GrantRoleAssignment,
                RemoveStudentRole, RemoveTeacherRole, sessionVars
  <2> QED BY <1>2, <2>1
<1>7. CASE WaitlistWorkerStep
  <2>1. UNCHANGED <<sessionState, seatCapacity>>
    BY <1>7 DEF WaitlistWorkerStep, ExpireEntry, CloseIneligibleEntry,
                PromoteEntry, MarkRequestProcessed, sessionVars
  <2> QED BY <1>2, <2>1
<1>8. CASE ReminderWorkerStep \/ Tick \/ UNCHANGED vars
  <2>1. UNCHANGED <<sessionState, seatCapacity>>
    BY <1>8 DEF ReminderWorkerStep, DeliverClassSessionReminder, Tick, vars,
                sessionVars
  <2> QED BY <1>2, <2>1
<1> QED BY <1>2, <1>3, <1>4, <1>5, <1>6, <1>7, <1>8 DEF Next

(* The seat counter of every Class Session always equals its active        *)
(* Bookings and never exceeds its capacity, for any numbers of Students,   *)
(* sessions and Bookings: the increments and decrements spread over        *)
(* booking, cancellation, rescheduling, promotion, suspension, removal of  *)
(* a role and cancellation of the session never drift from the table, so   *)
(* the deferred check of migration 0012 never aborts a transaction.        *)
THEOREM SeatsAlwaysReconcile == Spec => []SeatsReconcile
<1>1. Init => SeatsInvariant
  <2>1. SUFFICES ASSUME Init PROVE SeatsInvariant
    OBVIOUS
  <2>2. \A s \in Sessions : Occupants(s) = {}
    BY <2>1 DEF Init, Occupants, NoBooking
  <2>3. SeatsReconcile
    BY <2>1, <2>2, FS_EmptySet DEF Init, SeatsReconcile
  <2>4. UnpublishedHasNoSeats
    BY <2>1 DEF Init, UnpublishedHasNoSeats
  <2> QED BY <2>1, <2>3, <2>4, InitType DEF SeatsInvariant
<1>2. SeatsInvariant /\ [Next]_vars => SeatsInvariant'
  BY StepType, StepSeats, StepUnpublished DEF SeatsInvariant
<1>3. SeatsInvariant => SeatsReconcile
  BY DEF SeatsInvariant
<1> QED BY <1>1, <1>2, <1>3, PTL DEF Spec

----------------------------------------------------------------------------
(* Class Credits.  What the handlers do to Bookings and credits comes down *)
(* to four kinds of step; the invariants are shown for each kind.          *)

(* A Booking not yet made is an empty row, and an active one has no end.   *)
RowsAreClean ==
  \A b \in BookingIds :
    /\ bookings[b].state = "NONE" => bookings[b] = NoBooking
    /\ bookings[b].state = "ACTIVE" =>
         bookings[b].reason = "NULL" /\ ~bookings[b].refunded

CreditInvariant ==
  TypedRows /\ RowsAreClean /\ CreditsReconcile /\ CreditFollowsChain

\* A Booking is made and paid with one Class Credit.
Books(b, u, s, refundUntil) ==
  /\ bookings[b].state = "NONE"
  /\ sessionState[s] = "PUBLISHED"
  /\ balance[u] >= 1
  /\ bookings' = [bookings EXCEPT ![b] = NewBooking(u, s, refundUntil, 0)]
  /\ ledger' = ledger \cup {<<"BOOKING_DEDUCTION", b>>}
  /\ balance' = [balance EXCEPT ![u] = @ - 1]
  /\ adjusted' = adjusted

\* The columns of a Booking that no end of it changes.
KeepsIdentity(b) ==
  /\ bookings'[b].student = bookings[b].student
  /\ bookings'[b].session = bookings[b].session
  /\ bookings'[b].from = bookings[b].from
  /\ bookings'[b].refundUntil = bookings[b].refundUntil

\* The Bookings B end, those in R with a refund.
Ends(B, R, reason) ==
  /\ reason # "RESCHEDULED"
  /\ reason = "STUDENT_CANCELLATION" \/ R = B
  /\ bookings' \in [BookingIds -> Booking]
  /\ \A b \in B : /\ bookings[b].state = "ACTIVE"
                  /\ bookings'[b].state = "ENDED"
                  /\ bookings'[b].reason = reason
                  /\ bookings'[b].refunded <=> b \in R
                  /\ KeepsIdentity(b)
  /\ \A b \in BookingIds \ B : bookings'[b] = bookings[b]
  /\ ledger' = ledger \cup Refunds(R)
  /\ \A u \in Students :
       balance'[u] = balance[u] + Cardinality({b \in R : bookings[b].student = u})
  /\ adjusted' = adjusted

\* The Booking b is replaced by the Booking c.
Replaces(b, c) ==
  /\ bookings[b].state = "ACTIVE" /\ bookings[c].state = "NONE"
  /\ sessionState[bookings'[c].session] = "PUBLISHED"
  /\ bookings' \in [BookingIds -> Booking]
  /\ bookings'[b].state = "ENDED"
  /\ bookings'[b].reason = "RESCHEDULED" /\ ~bookings'[b].refunded
  /\ KeepsIdentity(b)
  /\ bookings'[c].state = "ACTIVE"
  /\ bookings'[c].reason = "NULL" /\ ~bookings'[c].refunded
  /\ bookings'[c].refundUntil = -1 /\ bookings'[c].from = b
  /\ \A d \in BookingIds \ {b, c} : bookings'[d] = bookings[d]
  /\ UNCHANGED creditVars

\* A Student is given Class Credits, or some are taken back.
Adjusts(u, amount) ==
  /\ balance[u] + amount >= 0
  /\ balance' = [balance EXCEPT ![u] = @ + amount]
  /\ adjusted' = [adjusted EXCEPT ![u] = @ + amount]
  /\ UNCHANGED <<bookings, ledger>>

CreditStep ==
  \/ UNCHANGED <<bookings, creditVars>>
  \/ \E b \in BookingIds, u \in Students, s \in Sessions, refundUntil \in Int :
       Books(b, u, s, refundUntil)
  \/ \E B \in SUBSET BookingIds : \E R \in SUBSET B, reason \in EndReasons :
       Ends(B, R, reason)
  \/ \E b, c \in BookingIds : Replaces(b, c)
  \/ \E u \in Students, amount \in Int : Adjusts(u, amount)

LEMMA EndBookingFields ==
  ASSUME NEW row \in Booking, NEW reason \in EndReasons, NEW refund \in BOOLEAN
  PROVE  /\ EndBooking(row, reason, refund) \in Booking
         /\ EndBooking(row, reason, refund).state = "ENDED"
         /\ EndBooking(row, reason, refund).reason = reason
         /\ EndBooking(row, reason, refund).refunded = refund
         /\ EndBooking(row, reason, refund).student = row.student
         /\ EndBooking(row, reason, refund).session = row.session
         /\ EndBooking(row, reason, refund).from = row.from
         /\ EndBooking(row, reason, refund).refundUntil = row.refundUntil
BY DEF EndBooking, Booking

----------------------------------------------------------------------------
(* Every step is of one of these kinds.                                    *)

LEMMA CreateBookingBooks ==
  ASSUME NEW b, NEW u, NEW s, NEW refundUntil, NEW t,
         CreateBooking(b, u, s, refundUntil, t), BookingEligible(u, s),
         sessionState[s] = "PUBLISHED", adjusted' = adjusted
  PROVE  Books(b, u, s, refundUntil)
BY DEF CreateBooking, FreshBooking, BookingEligible, Books

LEMMA CancelBookingEnds ==
  ASSUME TypedRows, NEW b \in BookingIds, CancelBooking(b)
  PROVE  \E R \in SUBSET {b} : Ends({b}, R, "STUDENT_CANCELLATION")
<1> DEFINE refund == CancellationRefunds(b, now)
           R == IF refund THEN {b} ELSE {}
<1>1. refund \in BOOLEAN /\ "STUDENT_CANCELLATION" \in EndReasons
  BY DEF CancellationRefunds, EndReasons
<1>2. bookings \in [BookingIds -> Booking] /\ balance \in [Students -> Int]
  BY DEF TypedRows, TypeOK
<1>3. /\ bookings[b].state = "ACTIVE"
      /\ bookings' = [bookings EXCEPT
           ![b] = EndBooking(bookings[b], "STUDENT_CANCELLATION", refund)]
      /\ ledger' = IF refund THEN ledger \cup Refunds({b}) ELSE ledger
      /\ balance' = [balance EXCEPT ![bookings[b].student] =
                       IF refund THEN @ + 1 ELSE @]
      /\ adjusted' = adjusted
  BY DEF CancelBooking, IsActive
<1> HIDE DEF refund
<1>4. /\ bookings'[b] \in Booking
      /\ bookings'[b].state = "ENDED"
      /\ bookings'[b].reason = "STUDENT_CANCELLATION"
      /\ bookings'[b].refunded = refund
      /\ KeepsIdentity(b)
  BY <1>1, <1>2, <1>3, EndBookingFields DEF KeepsIdentity
<1>5. bookings'[b].refunded <=> b \in R
  BY <1>1, <1>4
<1>6. /\ bookings' \in [BookingIds -> Booking]
      /\ \A c \in BookingIds \ {b} : bookings'[c] = bookings[c]
  BY <1>2, <1>3, <1>4
<1>7. ledger' = ledger \cup Refunds(R)
  BY <1>3 DEF Refunds
<1>8. ASSUME NEW u \in Students
      PROVE  balance'[u] = balance[u]
                             + Cardinality({c \in R : bookings[c].student = u})
  <2>1. CASE refund /\ bookings[b].student = u
    <3>1. {c \in R : bookings[c].student = u} = {b}
      BY <2>1
    <3>2. Cardinality({c \in R : bookings[c].student = u}) = 1
      BY <3>1, FS_Singleton
    <3> QED BY <1>2, <1>3, <2>1, <3>2
  <2>2. CASE ~(refund /\ bookings[b].student = u)
    <3>1. {c \in R : bookings[c].student = u} = {}
      BY <2>2
    <3>2. Cardinality({c \in R : bookings[c].student = u}) = 0
      BY <3>1, FS_EmptySet
    <3>3. balance'[u] = balance[u] /\ balance[u] \in Int
      BY <1>2, <1>3, <2>2
    <3> QED BY <3>2, <3>3
  <2> QED BY <2>1, <2>2
<1>9. R \in SUBSET {b}
  OBVIOUS
<1> HIDE DEF R
<1>10. Ends({b}, R, "STUDENT_CANCELLATION")
  BY <1>3, <1>4, <1>5, <1>6, <1>7, <1>8 DEF Ends
<1> QED BY <1>9, <1>10

LEMMA RescheduleBookingReplaces ==
  ASSUME TypedRows, NEW b \in BookingIds, NEW c \in BookingIds,
         NEW s \in Sessions, RescheduleBooking(b, s, c)
  PROVE  Replaces(b, c)
<1> DEFINE ended == EndBooking(bookings[b], "RESCHEDULED", FALSE)
           created == NewBooking(bookings[b].student, s, -1, b)
<1>1. /\ bookings[b].state = "ACTIVE" /\ bookings[c].state = "NONE"
      /\ bookings' = [bookings EXCEPT ![b] = ended, ![c] = created]
      /\ b # c /\ sessionState[s] = "PUBLISHED"
      /\ UNCHANGED creditVars
  BY DEF RescheduleBooking, IsActive, FreshBooking
<1>2. /\ "RESCHEDULED" \in EndReasons /\ FALSE \in BOOLEAN
      /\ -1 \in Int /\ b \in {0} \cup BookingIds
      /\ bookings \in [BookingIds -> Booking]
      /\ bookings[b].student \in Students
  BY <1>1 DEF EndReasons, TypedRows, TypeOK, RowsNamed
<1>3. /\ ended \in Booking /\ ended.state = "ENDED"
      /\ ended.reason = "RESCHEDULED" /\ ended.refunded = FALSE
      /\ ended.student = bookings[b].student
      /\ ended.session = bookings[b].session
      /\ ended.from = bookings[b].from
      /\ ended.refundUntil = bookings[b].refundUntil
  BY <1>2, EndBookingFields
<1>4. created \in Booking
  BY <1>2 DEF NewBooking, Booking, TypedRows, TypeOK
<1>5. /\ created.state = "ACTIVE" /\ created.session = s
      /\ created.reason = "NULL" /\ created.refunded = FALSE
      /\ created.refundUntil = -1 /\ created.from = b
  BY DEF NewBooking
<1> HIDE DEF ended, created
<1>6. /\ bookings' \in [BookingIds -> Booking]
      /\ bookings'[b] = ended /\ bookings'[c] = created
      /\ \A d \in BookingIds \ {b, c} : bookings'[d] = bookings[d]
  BY <1>1, <1>2, <1>3, <1>4
<1> QED BY <1>1, <1>3, <1>5, <1>6 DEF Replaces, KeepsIdentity

LEMMA EndBookingsFields ==
  ASSUME TypedRows, NEW B \in SUBSET BookingIds, NEW reason \in EndReasons,
         bookings' = EndBookings(B, reason)
  PROVE  /\ bookings' \in [BookingIds -> Booking]
         /\ \A b \in B : /\ bookings'[b].state = "ENDED"
                         /\ bookings'[b].reason = reason
                         /\ bookings'[b].refunded = TRUE
                         /\ KeepsIdentity(b)
         /\ \A b \in BookingIds \ B : bookings'[b] = bookings[b]
<1>1. bookings \in [BookingIds -> Booking]
  BY DEF TypedRows, TypeOK
<1>2. ASSUME NEW b \in B
      PROVE  /\ bookings'[b].state = "ENDED"
             /\ bookings'[b].reason = reason
             /\ bookings'[b].refunded = TRUE
             /\ KeepsIdentity(b)
  <2>1. bookings'[b] = EndBooking(bookings[b], reason, TRUE)
    BY DEF EndBookings
  <2> QED BY <1>1, <2>1 DEF EndBooking, Booking, KeepsIdentity
<1>3. \A b \in BookingIds \ B : bookings'[b] = bookings[b]
  BY DEF EndBookings
<1>4. bookings' \in [BookingIds -> Booking]
  BY EndBookingsType
<1> QED BY <1>2, <1>3, <1>4

LEMMA CancelClassSessionEnds ==
  ASSUME TypedRows, NEW a, NEW s \in Sessions, CancelClassSession(a, s)
  PROVE  Ends(Occupants(s), Occupants(s), "CLASS_SESSION_CANCELLATION")
<1> DEFINE B == Occupants(s)
<1>1. "CLASS_SESSION_CANCELLATION" \in EndReasons
  BY DEF EndReasons
<1>2. /\ B \in SUBSET BookingIds
      /\ \A b \in B : bookings[b].state = "ACTIVE"
  BY DEF Occupants
<1>3. /\ bookings' = EndBookings(B, "CLASS_SESSION_CANCELLATION")
      /\ ledger' = ledger \cup Refunds(B)
      /\ \A u \in Students : balance'[u] = balance[u]
           + Cardinality({b \in B : bookings[b].student = u})
      /\ adjusted' = adjusted
  BY DEF CancelClassSession
<1> HIDE DEF B
<1>4. /\ bookings' \in [BookingIds -> Booking]
      /\ \A b \in B : /\ bookings'[b].state = "ENDED"
                      /\ bookings'[b].reason = "CLASS_SESSION_CANCELLATION"
                      /\ bookings'[b].refunded = TRUE
                      /\ KeepsIdentity(b)
      /\ \A b \in BookingIds \ B : bookings'[b] = bookings[b]
  BY <1>1, <1>2, <1>3, EndBookingsFields
<1>5. Ends(B, B, "CLASS_SESSION_CANCELLATION")
  BY <1>2, <1>3, <1>4 DEF Ends
<1> QED BY <1>5 DEF B

LEMMA EndStudentCommitmentsEnds ==
  ASSUME TypedRows, NEW u \in Users, adjusted' = adjusted,
         NEW reason \in {"USER_SUSPENSION", "ROLE_ASSIGNMENT_REMOVAL"},
         EndStudentCommitments(u, reason)
  PROVE  Ends(FutureBookings(u), FutureBookings(u), reason)
<1> DEFINE B == FutureBookings(u)
<1>1. /\ reason \in EndReasons /\ reason # "RESCHEDULED"
      /\ reason # "STUDENT_CANCELLATION"
  BY DEF EndReasons
<1>2. /\ B \in SUBSET BookingIds
      /\ \A b \in B : bookings[b].state = "ACTIVE" /\ bookings[b].student = u
  BY DEF FutureBookings
<1>3. /\ bookings' = EndBookings(B, reason)
      /\ ledger' = ledger \cup Refunds(B)
      /\ \A x \in Students : balance'[x] =
           IF x = u THEN balance[x] + Cardinality(B) ELSE balance[x]
  BY DEF EndStudentCommitments
<1> HIDE DEF B
<1>4. /\ bookings' \in [BookingIds -> Booking]
      /\ \A b \in B : /\ bookings'[b].state = "ENDED"
                      /\ bookings'[b].reason = reason
                      /\ bookings'[b].refunded = TRUE
                      /\ KeepsIdentity(b)
      /\ \A b \in BookingIds \ B : bookings'[b] = bookings[b]
  BY <1>1, <1>2, <1>3, EndBookingsFields
<1>5. ASSUME NEW x \in Students
      PROVE  balance'[x] = balance[x]
                             + Cardinality({b \in B : bookings[b].student = x})
  <2>1. balance[x] \in Int
    BY DEF TypedRows, TypeOK
  <2>2. CASE x = u
    <3>1. {b \in B : bookings[b].student = x} = B
      BY <1>2, <2>2
    <3> QED BY <1>3, <2>2, <3>1
  <2>3. CASE x # u
    <3>1. {b \in B : bookings[b].student = x} = {}
      BY <1>2, <2>3
    <3>2. Cardinality({b \in B : bookings[b].student = x}) = 0
      BY <3>1, FS_EmptySet
    <3> QED BY <1>3, <2>1, <2>3, <3>2
  <2> QED BY <2>2, <2>3
<1>6. Ends(B, B, reason)
  BY <1>1, <1>2, <1>3, <1>4, <1>5 DEF Ends
<1> QED BY <1>6 DEF B


LEMMA NextIsCreditStep == TypedRows /\ [Next]_vars => CreditStep
<1> SUFFICES ASSUME TypedRows, [Next]_vars PROVE CreditStep
  OBVIOUS
<1>1. ASSUME NEW b \in BookingIds, NEW u \in Students, NEW s \in Sessions,
             NEW refundUntil \in Int, Books(b, u, s, refundUntil)
      PROVE  CreditStep
  BY <1>1 DEF CreditStep
<1>2. ASSUME NEW B \in SUBSET BookingIds, NEW R \in SUBSET B,
             NEW reason \in EndReasons, Ends(B, R, reason)
      PROVE  CreditStep
  BY <1>2 DEF CreditStep
<1>3. ASSUME UNCHANGED <<bookings, creditVars>> PROVE CreditStep
  BY <1>3 DEF CreditStep
<1>4. ASSUME NEW u \in Students, StudentRequest(u) PROVE CreditStep
  <2>1. ASSUME NEW s \in Sessions, NEW b \in BookingIds, BookClassSession(u, s, b)
        PROVE  CreditStep
    <3>1. Books(b, u, s, -1)
      BY <2>1, CreateBookingBooks DEF BookClassSession
    <3>2. -1 \in Int
      OBVIOUS
    <3> QED BY <1>1, <3>1, <3>2
  <2>2. ASSUME NEW b \in BookingIds, CancelBooking(b) PROVE CreditStep
    <3>1. PICK R \in SUBSET {b} : Ends({b}, R, "STUDENT_CANCELLATION")
      BY <2>2, CancelBookingEnds
    <3>2. {b} \in SUBSET BookingIds /\ "STUDENT_CANCELLATION" \in EndReasons
      BY DEF EndReasons
    <3> QED BY <1>2, <3>1, <3>2
  <2>3. ASSUME NEW b \in BookingIds, NEW c \in BookingIds, NEW s \in Sessions,
               RescheduleBooking(b, s, c)
        PROVE  CreditStep
    BY <2>3, RescheduleBookingReplaces DEF CreditStep
  <2>4. ASSUME NEW s \in Sessions, NEW e \in EntryIds,
               JoinWaitlist(u, s, e) \/ WithdrawWaitlist(e)
        PROVE  CreditStep
    BY <1>3, <2>4 DEF JoinWaitlist, WithdrawWaitlist
  <2>5. ASSUME NEW e \in EntryIds, WithdrawWaitlist(e) PROVE CreditStep
    BY <1>3, <2>5 DEF WithdrawWaitlist
  <2> QED BY <1>4, <2>1, <2>2, <2>3, <2>4, <2>5 DEF StudentRequest
<1>5. ASSUME NEW t \in Teachers, TeacherRequest(t) PROVE CreditStep
  BY <1>3, <1>5 DEF TeacherRequest, ReportAbsence
<1>6. CASE AdministratorRequest
  <2>1. ASSUME NEW s \in Sessions, NEW t \in Teachers, NEW c \in Capacities,
               PublishClassSession(s, t, c)
        PROVE  CreditStep
    BY <1>3, <2>1 DEF PublishClassSession
  <2>2. ASSUME NEW s \in Sessions, NEW c \in Capacities,
               ChangeClassSessionSeatCapacity(s, c)
        PROVE  CreditStep
    BY <1>3, <2>2 DEF ChangeClassSessionSeatCapacity
  <2>3. ASSUME NEW k \in Adjustments, AdjustClassCredits(k[1], k[2])
        PROVE  CreditStep
    <3>1. k[1] \in Students /\ k[2] \in Int
      BY ConstantsAssumption
    <3>2. Adjusts(k[1], k[2])
      BY <2>3 DEF AdjustClassCredits, Adjusts
    <3> QED BY <3>1, <3>2 DEF CreditStep
  <2>4. ASSUME NEW a \in AbsenceIds, NEW s \in Sessions, NEW t \in Teachers,
               SubstituteTeacher(a, s, t)
        PROVE  CreditStep
    BY <1>3, <2>4 DEF SubstituteTeacher
  <2>5. ASSUME NEW a \in AbsenceIds, NEW s \in Sessions, CancelClassSession(a, s)
        PROVE  CreditStep
    <3>1. /\ Ends(Occupants(s), Occupants(s), "CLASS_SESSION_CANCELLATION")
          /\ Occupants(s) \in SUBSET BookingIds
          /\ "CLASS_SESSION_CANCELLATION" \in EndReasons
      BY <2>5, CancelClassSessionEnds DEF Occupants, EndReasons
    <3> QED BY <1>2, <3>1
  <2> QED BY <1>6, <2>1, <2>2, <2>3, <2>4, <2>5 DEF AdministratorRequest
<1>7. CASE AccessRequest
  <2>1. ASSUME NEW u \in Users, adjusted' = adjusted,
               NEW reason \in {"USER_SUSPENSION", "ROLE_ASSIGNMENT_REMOVAL"},
               EndStudentCommitments(u, reason)
        PROVE  CreditStep
    <3>1. /\ Ends(FutureBookings(u), FutureBookings(u), reason)
          /\ FutureBookings(u) \in SUBSET BookingIds
          /\ reason \in EndReasons
      BY <2>1, EndStudentCommitmentsEnds DEF FutureBookings, EndReasons
    <3> QED BY <1>2, <3>1
  <2>2. ASSUME NEW u \in SuspensionTargets, SuspendUser(u) PROVE CreditStep
    <3>1. u \in Users
      BY ConstantsAssumption
    <3> QED BY <2>1, <2>2, <3>1 DEF SuspendUser
  <2>3. ASSUME NEW u \in Students, RemoveStudentRole(u) PROVE CreditStep
    BY <2>1, <2>3 DEF RemoveStudentRole, Users
  <2>4. ASSUME NEW u, NEW role,
               \/ ReactivateUser(u)
               \/ GrantRoleAssignment(u, role)
               \/ RemoveTeacherRole(u)
        PROVE  CreditStep
    BY <1>3, <2>4 DEF ReactivateUser, GrantRoleAssignment, RemoveTeacherRole
  <2> QED BY <1>7, <2>2, <2>3, <2>4 DEF AccessRequest
<1>8. CASE WaitlistWorkerStep
  <2>1. ASSUME NEW e \in EntryIds, NEW b \in BookingIds, NEW t \in WorkerClocks,
               PromoteEntry(e, b, t)
        PROVE  CreditStep
    <3>1. PICK u \in Students : u = entries[e].student
      BY <2>1 DEF PromoteEntry, TypedRows, RowsNamed
    <3>2. PICK s \in Sessions : s = entries[e].session
      BY <2>1 DEF PromoteEntry, TypedRows, RowsNamed
    <3>3. Books(b, u, s, t + PromotionGrace)
      BY <2>1, <3>1, <3>2, CreateBookingBooks DEF PromoteEntry
    <3>4. t + PromotionGrace \in Int
      BY LeadAssumption DEF WorkerClocks
    <3> QED BY <1>1, <3>3, <3>4
  <2>2. ASSUME NEW e \in EntryIds, NEW t \in WorkerClocks,
               ExpireEntry(e, t) \/ CloseIneligibleEntry(e, t)
        PROVE  CreditStep
    BY <1>3, <2>2 DEF ExpireEntry, CloseIneligibleEntry
  <2>3. ASSUME NEW s \in Sessions, MarkRequestProcessed(s) PROVE CreditStep
    BY <1>3, <2>3 DEF MarkRequestProcessed
  <2> QED BY <1>8, <2>1, <2>2, <2>3 DEF WaitlistWorkerStep
<1>9. CASE ReminderWorkerStep \/ Tick \/ UNCHANGED vars
  BY <1>3, <1>9 DEF ReminderWorkerStep, DeliverClassSessionReminder, Tick, vars
<1> QED BY <1>4, <1>5, <1>6, <1>7, <1>8, <1>9 DEF Next

----------------------------------------------------------------------------
(* Each kind of step keeps the account and the chains.                     *)

\* What the invariant says of the ledger.
LedgerIsExplained ==
  \A b \in BookingIds :
    /\ <<"BOOKING_DEDUCTION", b>> \in ledger <=>
         bookings[b].state # "NONE" /\ bookings[b].from = 0
    /\ <<"BOOKING_REFUND", b>> \in ledger <=> bookings[b].refunded

LEMMA LedgerFacts ==
  ASSUME CreditInvariant
  PROVE  /\ LedgerIsExplained
         /\ \A b \in BookingIds : bookings[b].state = "NONE" =>
              /\ <<"BOOKING_DEDUCTION", b>> \notin ledger
              /\ <<"BOOKING_REFUND", b>> \notin ledger
              /\ bookings[b].from = 0 /\ bookings[b].reason = "NULL"
              /\ ~bookings[b].refunded /\ bookings[b].refundUntil = -1
         /\ \A b \in BookingIds : bookings[b].state = "ACTIVE" =>
              /\ <<"BOOKING_REFUND", b>> \notin ledger
              /\ bookings[b].reason = "NULL"
<1>1. LedgerIsExplained
  BY DEF CreditInvariant, CreditFollowsChain, LedgerIsExplained, Used
<1>2. \A b \in BookingIds : bookings[b].state = "NONE" =>
        /\ bookings[b].from = 0 /\ bookings[b].reason = "NULL"
        /\ ~bookings[b].refunded /\ bookings[b].refundUntil = -1
  BY DEF CreditInvariant, RowsAreClean, NoBooking
<1> QED BY <1>1, <1>2 DEF CreditInvariant, RowsAreClean, LedgerIsExplained

LEMMA AccountsFinite ==
  ASSUME NEW u
  PROVE  /\ IsFiniteSet(Deductions(u)) /\ Cardinality(Deductions(u)) \in Nat
         /\ IsFiniteSet(RefundsOf(u)) /\ Cardinality(RefundsOf(u)) \in Nat
BY BookingIdsFinite DEF Deductions, RefundsOf

LEMMA BooksCredits ==
  ASSUME CreditInvariant, NEW b \in BookingIds, NEW u \in Students,
         NEW s \in Sessions, NEW refundUntil \in Int, Books(b, u, s, refundUntil)
  PROVE  CreditsReconcile'
<1>1. /\ bookings[b].state = "NONE"
      /\ <<"BOOKING_DEDUCTION", b>> \notin ledger
      /\ <<"BOOKING_REFUND", b>> \notin ledger
  BY LedgerFacts DEF Books
<1>2. /\ bookings'[b].student = u
      /\ \A c \in BookingIds \ {b} : bookings'[c] = bookings[c]
      /\ ledger' = ledger \cup {<<"BOOKING_DEDUCTION", b>>}
  <2>1. /\ bookings'[b] = NewBooking(u, s, refundUntil, 0)
        /\ \A c \in BookingIds \ {b} : bookings'[c] = bookings[c]
    BY DEF Books, CreditInvariant, TypedRows, TypeOK
  <2> QED BY <2>1 DEF Books, NewBooking
<1>3. ASSUME NEW x \in Students
      PROVE  /\ balance'[x] = adjusted'[x] - Cardinality(Deductions(x))'
                                + Cardinality(RefundsOf(x))'
             /\ balance'[x] >= 0
  <2>1. RefundsOf(x)' = RefundsOf(x)
    BY <1>1, <1>2 DEF RefundsOf
  <2>2. Deductions(x)' = IF x = u THEN Deductions(x) \cup {b} ELSE Deductions(x)
    BY <1>1, <1>2 DEF Deductions
  <2>3. b \notin Deductions(x)
    BY <1>1 DEF Deductions
  <2>4. Cardinality(Deductions(x))' = IF x = u THEN Cardinality(Deductions(x)) + 1
                                       ELSE Cardinality(Deductions(x))
    BY <2>2, <2>3, AccountsFinite, FS_AddElement
  <2>5. /\ balance'[x] = IF x = u THEN balance[x] - 1 ELSE balance[x]
        /\ adjusted'[x] = adjusted[x]
        /\ balance[x] \in Int /\ adjusted[x] \in Int
        /\ balance[u] >= 1
    BY DEF Books, CreditInvariant, TypedRows, TypeOK
  <2>6. /\ balance[x] = adjusted[x] - Cardinality(Deductions(x))
                          + Cardinality(RefundsOf(x))
        /\ balance[x] >= 0
    BY DEF CreditInvariant, CreditsReconcile
  <2>7. Cardinality(RefundsOf(x))' = Cardinality(RefundsOf(x))
    BY <2>1
  <2> QED BY <2>4, <2>5, <2>6, <2>7, AccountsFinite
<1> QED BY <1>3 DEF CreditsReconcile

LEMMA EndsCredits ==
  ASSUME CreditInvariant, NEW B \in SUBSET BookingIds, NEW R \in SUBSET B,
         NEW reason \in EndReasons, Ends(B, R, reason)
  PROVE  CreditsReconcile'
<1>1. \A c \in BookingIds : bookings'[c].student = bookings[c].student
  BY DEF Ends, KeepsIdentity
<1>2. \A c \in R : <<"BOOKING_REFUND", c>> \notin ledger
  BY LedgerFacts DEF Ends
<1>3. ledger' = ledger \cup Refunds(R)
  BY DEF Ends
<1>4. ASSUME NEW x \in Students
      PROVE  /\ balance'[x] = adjusted'[x] - Cardinality(Deductions(x))'
                                + Cardinality(RefundsOf(x))'
             /\ balance'[x] >= 0
  <2> DEFINE own == {c \in R : bookings[c].student = x}
  <2>1. Deductions(x)' = Deductions(x)
    BY <1>1, <1>3 DEF Deductions, Refunds
  <2>2. RefundsOf(x)' = RefundsOf(x) \cup own /\ RefundsOf(x) \cap own = {}
    BY <1>1, <1>2, <1>3 DEF RefundsOf, Refunds
  <2>3. IsFiniteSet(own) /\ Cardinality(own) \in Nat
    BY BookingIdsFinite
  <2>4. balance'[x] = balance[x] + Cardinality(own) /\ adjusted' = adjusted
    BY DEF Ends
  <2> HIDE DEF own
  <2>5. Cardinality(RefundsOf(x))' = Cardinality(RefundsOf(x)) + Cardinality(own)
    <3>1. Cardinality(RefundsOf(x) \cup own) = Cardinality(RefundsOf(x))
            + Cardinality(own) - Cardinality(RefundsOf(x) \cap own)
      BY <2>3, AccountsFinite, FS_Union
    <3>2. Cardinality(RefundsOf(x) \cap own) = 0
      BY <2>2, FS_EmptySet
    <3> QED BY <2>2, <2>3, <3>1, <3>2, AccountsFinite
  <2>6. /\ balance[x] = adjusted[x] - Cardinality(Deductions(x))
                          + Cardinality(RefundsOf(x))
        /\ balance[x] >= 0 /\ balance[x] \in Int /\ adjusted[x] \in Int
    BY DEF CreditInvariant, CreditsReconcile, TypedRows, TypeOK
  <2>7. Cardinality(Deductions(x))' = Cardinality(Deductions(x))
    BY <2>1
  <2> QED BY <2>3, <2>4, <2>5, <2>6, <2>7, AccountsFinite
<1> QED BY <1>4 DEF CreditsReconcile

LEMMA ReplacesCredits ==
  ASSUME CreditInvariant, NEW b \in BookingIds, NEW c \in BookingIds,
         Replaces(b, c)
  PROVE  CreditsReconcile'
<1>1. /\ <<"BOOKING_DEDUCTION", c>> \notin ledger
      /\ <<"BOOKING_REFUND", c>> \notin ledger
      /\ UNCHANGED <<balance, adjusted, ledger>>
      /\ \A d \in BookingIds \ {c} : bookings'[d].student = bookings[d].student
  BY LedgerFacts DEF Replaces, KeepsIdentity, creditVars
<1>2. ASSUME NEW x \in Students
      PROVE  Deductions(x)' = Deductions(x) /\ RefundsOf(x)' = RefundsOf(x)
  BY <1>1 DEF Deductions, RefundsOf
<1> QED BY <1>1, <1>2 DEF CreditInvariant, CreditsReconcile

LEMMA AdjustsCredits ==
  ASSUME CreditInvariant, NEW u \in Students, NEW amount \in Int,
         Adjusts(u, amount)
  PROVE  CreditsReconcile'
<1>1. ASSUME NEW x \in Students
      PROVE  /\ balance'[x] = adjusted'[x] - Cardinality(Deductions(x))'
                                + Cardinality(RefundsOf(x))'
             /\ balance'[x] >= 0
  <2>1. Deductions(x)' = Deductions(x) /\ RefundsOf(x)' = RefundsOf(x)
    BY DEF Adjusts, Deductions, RefundsOf
  <2>2. /\ Cardinality(Deductions(x))' = Cardinality(Deductions(x))
        /\ Cardinality(RefundsOf(x))' = Cardinality(RefundsOf(x))
    BY <2>1
  <2>3. /\ balance'[x] = IF x = u THEN balance[x] + amount ELSE balance[x]
        /\ adjusted'[x] = IF x = u THEN adjusted[x] + amount ELSE adjusted[x]
        /\ balance[u] + amount >= 0
        /\ balance[x] \in Int /\ adjusted[x] \in Int
    BY DEF Adjusts, CreditInvariant, TypedRows, TypeOK
  <2>4. /\ balance[x] = adjusted[x] - Cardinality(Deductions(x))
                          + Cardinality(RefundsOf(x))
        /\ balance[x] >= 0
    BY DEF CreditInvariant, CreditsReconcile
  <2> QED BY <2>2, <2>3, <2>4, AccountsFinite
<1> QED BY <1>1 DEF CreditsReconcile


(* A Booking has a successor exactly when it was rescheduled; the rest of  *)
(* its row explains the ledger and its refund.                             *)
HasItsSuccessor(b) ==
  Cardinality(Successors(b)) = IF bookings[b].reason = "RESCHEDULED" THEN 1 ELSE 0

RefundIsDue(row) ==
  /\ row.reason = "RESCHEDULED" => ~row.refunded
  /\ row.state = "ENDED"
       /\ row.reason \notin {"RESCHEDULED", "STUDENT_CANCELLATION"}
     => row.refunded

LEMMA ChainParts ==
  CreditFollowsChain <=>
    /\ LedgerIsExplained
    /\ \A b \in BookingIds : HasItsSuccessor(b) /\ RefundIsDue(bookings[b])
BY DEF CreditFollowsChain, LedgerIsExplained, HasItsSuccessor, RefundIsDue, Used

LEMMA SuccessorsFinite ==
  ASSUME NEW b
  PROVE  IsFiniteSet(Successors(b)) /\ Cardinality(Successors(b)) \in Nat
BY BookingIdsFinite DEF Successors

LEMMA BooksChain ==
  ASSUME CreditInvariant, NEW b \in BookingIds, NEW u \in Students,
         NEW s \in Sessions, NEW refundUntil \in Int, Books(b, u, s, refundUntil)
  PROVE  CreditFollowsChain' /\ RowsAreClean'
<1>1. /\ bookings[b].state = "NONE" /\ bookings[b].from = 0
      /\ bookings[b].reason = "NULL"
      /\ <<"BOOKING_REFUND", b>> \notin ledger
      /\ LedgerIsExplained
  BY LedgerFacts DEF Books
<1>2. /\ bookings'[b].state = "ACTIVE" /\ bookings'[b].from = 0
      /\ bookings'[b].reason = "NULL" /\ bookings'[b].refunded = FALSE
      /\ \A c \in BookingIds \ {b} : bookings'[c] = bookings[c]
      /\ ledger' = ledger \cup {<<"BOOKING_DEDUCTION", b>>}
  <2>1. /\ bookings'[b] = NewBooking(u, s, refundUntil, 0)
        /\ \A c \in BookingIds \ {b} : bookings'[c] = bookings[c]
    BY DEF Books, CreditInvariant, TypedRows, TypeOK
  <2> QED BY <2>1 DEF Books, NewBooking
<1>3. LedgerIsExplained'
  BY <1>1, <1>2 DEF LedgerIsExplained
<1>4. ASSUME NEW d \in BookingIds
      PROVE  HasItsSuccessor(d)' /\ RefundIsDue(bookings[d])'
  <2>1. Successors(d)' = Successors(d)
    BY <1>1, <1>2 DEF Successors
  <2>2. bookings'[d].reason = bookings[d].reason
    BY <1>1, <1>2
  <2>3. HasItsSuccessor(d) /\ RefundIsDue(bookings[d])
    BY ChainParts DEF CreditInvariant
  <2>4. HasItsSuccessor(d)'
    BY <2>1, <2>2, <2>3 DEF HasItsSuccessor
  <2>5. RefundIsDue(bookings[d])'
    BY <1>2, <2>3 DEF RefundIsDue
  <2> QED BY <2>4, <2>5
<1>5. CreditFollowsChain'
  BY <1>3, <1>4
     DEF CreditFollowsChain, LedgerIsExplained, HasItsSuccessor, RefundIsDue,
         Used
<1>6. RowsAreClean'
  BY <1>2 DEF CreditInvariant, RowsAreClean
<1> QED BY <1>5, <1>6

LEMMA EndsChain ==
  ASSUME CreditInvariant, NEW B \in SUBSET BookingIds, NEW R \in SUBSET B,
         NEW reason \in EndReasons, Ends(B, R, reason)
  PROVE  CreditFollowsChain' /\ RowsAreClean'
<1>1. /\ \A b \in B : /\ bookings[b].state = "ACTIVE"
                      /\ bookings[b].reason = "NULL"
                      /\ <<"BOOKING_REFUND", b>> \notin ledger
                      /\ bookings'[b].state = "ENDED"
                      /\ bookings'[b].reason = reason
                      /\ bookings'[b].refunded <=> b \in R
      /\ \A b \in BookingIds \ B : bookings'[b] = bookings[b]
      /\ \A b \in BookingIds : bookings'[b].from = bookings[b].from
      /\ LedgerIsExplained
  BY LedgerFacts DEF Ends, KeepsIdentity
<1>2. /\ reason # "RESCHEDULED"
      /\ reason = "STUDENT_CANCELLATION" \/ R = B
      /\ ledger' = ledger \cup Refunds(R)
  BY DEF Ends
<1>3. LedgerIsExplained'
  <2>1. ASSUME NEW b \in BookingIds
        PROVE  /\ <<"BOOKING_DEDUCTION", b>> \in ledger' <=>
                    <<"BOOKING_DEDUCTION", b>> \in ledger
               /\ <<"BOOKING_REFUND", b>> \in ledger' <=>
                    <<"BOOKING_REFUND", b>> \in ledger \/ b \in R
    BY <1>2 DEF Refunds
  <2>2. ASSUME NEW b \in BookingIds
        PROVE  /\ <<"BOOKING_DEDUCTION", b>> \in ledger' <=>
                    bookings'[b].state # "NONE" /\ bookings'[b].from = 0
               /\ <<"BOOKING_REFUND", b>> \in ledger' <=> bookings'[b].refunded
    <3>1. CASE b \in B
      BY <1>1, <2>1, <3>1 DEF LedgerIsExplained
    <3>2. CASE b \notin B
      BY <1>1, <2>1, <3>2 DEF LedgerIsExplained
    <3> QED BY <3>1, <3>2
  <2> QED BY <2>2 DEF LedgerIsExplained
<1>4. ASSUME NEW d \in BookingIds
      PROVE  HasItsSuccessor(d)' /\ RefundIsDue(bookings[d])'
  <2>1. Successors(d)' = Successors(d)
    BY <1>1 DEF Successors
  <2>2. HasItsSuccessor(d) /\ RefundIsDue(bookings[d])
    BY ChainParts DEF CreditInvariant
  <2>3. bookings'[d].reason = "RESCHEDULED" <=> bookings[d].reason = "RESCHEDULED"
    BY <1>1, <1>2
  <2>4. HasItsSuccessor(d)'
    BY <2>1, <2>2, <2>3 DEF HasItsSuccessor
  <2>5. RefundIsDue(bookings[d])'
    BY <1>1, <1>2, <2>2 DEF RefundIsDue
  <2> QED BY <2>4, <2>5
<1>5. CreditFollowsChain'
  BY <1>3, <1>4
     DEF CreditFollowsChain, LedgerIsExplained, HasItsSuccessor, RefundIsDue,
         Used
<1>6. RowsAreClean'
  BY <1>1, ZenonT(30) DEF CreditInvariant, RowsAreClean
<1> QED BY <1>5, <1>6

LEMMA ReplacesChain ==
  ASSUME CreditInvariant, NEW b \in BookingIds, NEW c \in BookingIds,
         Replaces(b, c)
  PROVE  CreditFollowsChain' /\ RowsAreClean'
<1>1. /\ bookings[b].reason = "NULL" /\ bookings[b].state = "ACTIVE"
      /\ <<"BOOKING_REFUND", b>> \notin ledger
      /\ bookings[c].state = "NONE" /\ bookings[c].from = 0
      /\ bookings[c].reason = "NULL"
      /\ <<"BOOKING_DEDUCTION", c>> \notin ledger
      /\ <<"BOOKING_REFUND", c>> \notin ledger
      /\ LedgerIsExplained
  BY LedgerFacts DEF Replaces
<1>2. /\ bookings'[b].state = "ENDED" /\ bookings'[b].reason = "RESCHEDULED"
      /\ ~bookings'[b].refunded /\ bookings'[b].from = bookings[b].from
      /\ bookings'[c].state = "ACTIVE" /\ bookings'[c].reason = "NULL"
      /\ ~bookings'[c].refunded /\ bookings'[c].from = b
      /\ \A d \in BookingIds \ {b, c} : bookings'[d] = bookings[d]
      /\ ledger' = ledger
      /\ b # 0 /\ b # c
  <2>1. b # 0
    BY DEF BookingIds
  <2>2. b # c
    BY <1>1
  <2> QED BY <2>1, <2>2 DEF Replaces, KeepsIdentity, creditVars
<1>3. LedgerIsExplained'
  <2>1. ASSUME NEW d \in BookingIds
        PROVE  /\ <<"BOOKING_DEDUCTION", d>> \in ledger' <=>
                    bookings'[d].state # "NONE" /\ bookings'[d].from = 0
               /\ <<"BOOKING_REFUND", d>> \in ledger' <=> bookings'[d].refunded
    <3>1. CASE d = b
      BY <1>1, <1>2, <3>1 DEF LedgerIsExplained
    <3>2. CASE d = c
      BY <1>1, <1>2, <3>2
    <3>3. CASE d # b /\ d # c
      BY <1>1, <1>2, <3>3 DEF LedgerIsExplained
    <3> QED BY <3>1, <3>2, <3>3
  <2> QED BY <2>1 DEF LedgerIsExplained
<1>4. ASSUME NEW d \in BookingIds
      PROVE  HasItsSuccessor(d)' /\ RefundIsDue(bookings[d])'
  <2>1. HasItsSuccessor(d) /\ RefundIsDue(bookings[d])
    BY ChainParts DEF CreditInvariant
  <2>2. d # 0
    BY DEF BookingIds
  <2>3. CASE d = b
    <3>1. Successors(b) = {}
      BY <1>1, <2>1, <2>3, SuccessorsFinite, FS_EmptySet DEF HasItsSuccessor
    <3>2. Successors(b)' = {c}
      BY <1>1, <1>2, <3>1 DEF Successors
    <3>3. Cardinality(Successors(b))' = 1
      BY <3>2, FS_Singleton
    <3> QED BY <1>2, <2>3, <3>3 DEF HasItsSuccessor, RefundIsDue
  <2>4. CASE d # b
    <3>1. Successors(d)' = Successors(d)
      BY <1>1, <1>2, <2>2, <2>4 DEF Successors
    <3>2. bookings'[d].reason = bookings[d].reason
      BY <1>1, <1>2, <2>4
    <3>3. HasItsSuccessor(d)'
      BY <2>1, <3>1, <3>2 DEF HasItsSuccessor
    <3>4. RefundIsDue(bookings[d])'
      BY <1>2, <2>1, <2>4 DEF RefundIsDue
    <3> QED BY <3>3, <3>4
  <2> QED BY <2>3, <2>4
<1>5. CreditFollowsChain'
  BY <1>3, <1>4
     DEF CreditFollowsChain, LedgerIsExplained, HasItsSuccessor, RefundIsDue,
         Used
<1>6. RowsAreClean'
  BY <1>2 DEF CreditInvariant, RowsAreClean
<1> QED BY <1>5, <1>6

LEMMA StepCredits ==
  CreditInvariant /\ [Next]_vars => CreditInvariant'
<1> SUFFICES ASSUME CreditInvariant, [Next]_vars PROVE CreditInvariant'
  OBVIOUS
<1>1. TypedRows' /\ CreditStep
  BY StepType, NextIsCreditStep DEF CreditInvariant
<1>2. CASE UNCHANGED <<bookings, creditVars>>
  BY <1>1, <1>2, SMTT(30)
     DEF CreditInvariant, RowsAreClean, CreditsReconcile, CreditFollowsChain,
         Deductions, RefundsOf, Successors, Used, creditVars
<1>3. ASSUME NEW b \in BookingIds, NEW u \in Students, NEW s \in Sessions,
             NEW refundUntil \in Int, Books(b, u, s, refundUntil)
      PROVE  CreditInvariant'
  BY <1>1, <1>3, BooksCredits, BooksChain DEF CreditInvariant
<1>4. ASSUME NEW B \in SUBSET BookingIds, NEW R \in SUBSET B,
             NEW reason \in EndReasons, Ends(B, R, reason)
      PROVE  CreditInvariant'
  BY <1>1, <1>4, EndsCredits, EndsChain DEF CreditInvariant
<1>5. ASSUME NEW b \in BookingIds, NEW c \in BookingIds, Replaces(b, c)
      PROVE  CreditInvariant'
  BY <1>1, <1>5, ReplacesCredits, ReplacesChain DEF CreditInvariant
<1>6. ASSUME NEW u \in Students, NEW amount \in Int, Adjusts(u, amount)
      PROVE  CreditInvariant'
  <2>1. CreditsReconcile'
    BY <1>6, AdjustsCredits
  <2>2. CreditFollowsChain' /\ RowsAreClean'
    BY <1>6 DEF Adjusts, CreditInvariant, CreditFollowsChain, RowsAreClean,
                Successors, Used
  <2> QED BY <1>1, <2>1, <2>2 DEF CreditInvariant
<1> QED BY <1>1, <1>2, <1>3, <1>4, <1>5, <1>6 DEF CreditStep

LEMMA InitCredits == Init => CreditInvariant
<1> SUFFICES ASSUME Init PROVE CreditInvariant
  OBVIOUS
<1>1. RowsAreClean
  BY DEF Init, RowsAreClean, NoBooking
<1>2. \A u \in Students : Deductions(u) = {} /\ RefundsOf(u) = {}
  BY DEF Init, Deductions, RefundsOf
<1>3. CreditsReconcile
  <2>1. ASSUME NEW u \in Students
        PROVE  /\ balance[u] = adjusted[u] - Cardinality(Deductions(u))
                                 + Cardinality(RefundsOf(u))
               /\ balance[u] >= 0
    <3>1. Cardinality(Deductions(u)) = 0 /\ Cardinality(RefundsOf(u)) = 0
      BY <1>2, FS_EmptySet
    <3>2. /\ balance[u] = InitialCredits /\ adjusted[u] = InitialCredits
          /\ InitialCredits \in Nat
      BY ConstantsAssumption DEF Init
    <3> QED BY <3>1, <3>2
  <2> QED BY <2>1 DEF CreditsReconcile
<1>4. \A b \in BookingIds : Successors(b) = {}
  BY DEF Init, Successors, NoBooking, BookingIds
<1>5. CreditFollowsChain
  BY <1>4, FS_EmptySet DEF Init, CreditFollowsChain, NoBooking, Used
<1> QED BY <1>1, <1>3, <1>5, InitType DEF CreditInvariant

(* The stored balance of every Student is at any time the sum of the       *)
(* ledger and never negative, for any number of Students, sessions and     *)
(* Bookings: no order of bookings, cancellations, reschedules, promotions, *)
(* adjustments and cleanups moves a credit without its row.                *)
THEOREM CreditsAlwaysReconcile == Spec => []CreditsReconcile
<1>1. CreditInvariant => CreditsReconcile
  BY DEF CreditInvariant
<1> QED BY <1>1, InitCredits, StepCredits, PTL DEF Spec

(* One credit follows each chain of reschedules, however long: it is       *)
(* deducted at the head and given back at most once, at the tail, and      *)
(* always when the platform and not the Student ended the Booking.         *)
THEOREM OneCreditPerChain == Spec => []CreditFollowsChain
<1>1. CreditInvariant => CreditFollowsChain
  BY DEF CreditInvariant
<1> QED BY <1>1, InitCredits, StepCredits, PTL DEF Spec


----------------------------------------------------------------------------
(* Promotion.  A step either promotes a Waitlist Entry or gives no Booking *)
(* the grace of a promotion.                                               *)

PromotionInvariant == CreditInvariant /\ PromotionIsOneToOne

\* Entries that still wait, or are new, may change, and none is promoted.
NobodyIsPromoted ==
  /\ entries' \in [EntryIds -> Entry]
  /\ \A e \in EntryIds :
       \/ entries'[e] = entries[e]
       \/ /\ entries[e].state \in {"NONE", "ACTIVE"}
          /\ entries'[e].state # "PROMOTED"
          /\ entries'[e].booking \in {0, entries[e].booking}

\* No Booking is given a grace, and none becomes another one.
NoGraceIsGiven ==
  \A b \in BookingIds :
    /\ bookings'[b].refundUntil = bookings[b].refundUntil
    /\ bookings[b].state # "NONE" =>
         /\ bookings'[b].student = bookings[b].student
         /\ bookings'[b].session = bookings[b].session

QuietStep == NobodyIsPromoted /\ NoGraceIsGiven

Promotes(e, b, u, s, refundUntil) ==
  /\ entries[e].state = "ACTIVE"
  /\ entries[e].student = u /\ entries[e].session = s
  /\ refundUntil # -1
  /\ Books(b, u, s, refundUntil)
  /\ entries' = [entries EXCEPT ![e].state = "PROMOTED", ![e].booking = b]

LEMMA EntriesUnchanged ==
  ASSUME TypedRows, entries' = entries
  PROVE  NobodyIsPromoted
BY DEF TypedRows, TypeOK, NobodyIsPromoted

LEMMA ClosedEntries ==
  ASSUME TypedRows, NEW E \in SUBSET ActiveEntries, entries' = CloseEntries(E)
  PROVE  NobodyIsPromoted
<1>1. entries' \in [EntryIds -> Entry]
  BY CloseEntriesType
<1>2. ASSUME NEW e \in EntryIds
      PROVE  \/ entries'[e] = entries[e]
             \/ /\ entries[e].state \in {"NONE", "ACTIVE"}
                /\ entries'[e].state # "PROMOTED"
                /\ entries'[e].booking \in {0, entries[e].booking}
  <2>1. entries[e] \in Entry
    BY DEF TypedRows, TypeOK
  <2>2. CASE e \in E
    <3>1. entries'[e] = [entries[e] EXCEPT !.state = "INELIGIBLE"]
      BY <2>2 DEF CloseEntries
    <3>2. entries[e].state = "ACTIVE"
      BY <2>2 DEF ActiveEntries
    <3> QED BY <2>1, <3>1, <3>2 DEF Entry
  <2>3. CASE e \notin E
    BY <2>3 DEF CloseEntries
  <2> QED BY <2>2, <2>3
<1> QED BY <1>1, <1>2 DEF NobodyIsPromoted

LEMMA OneEntryLeaves ==
  ASSUME TypedRows, NEW e \in EntryIds, entries[e].state = "ACTIVE",
         NEW state \in {"WITHDRAWN", "EXPIRED", "INELIGIBLE"},
         entries' = [entries EXCEPT ![e].state = state]
  PROVE  NobodyIsPromoted
BY DEF TypedRows, TypeOK, NobodyIsPromoted, Entry

LEMMA UnchangedBookings ==
  ASSUME bookings' = bookings
  PROVE  NoGraceIsGiven
BY DEF NoGraceIsGiven

LEMMA BooksNoGrace ==
  ASSUME CreditInvariant, NEW b \in BookingIds, NEW u \in Students,
         NEW s \in Sessions, Books(b, u, s, -1)
  PROVE  NoGraceIsGiven
<1>1. /\ bookings[b].state = "NONE" /\ bookings[b].refundUntil = -1
  BY LedgerFacts DEF Books
<1>2. /\ bookings'[b] = NewBooking(u, s, -1, 0)
      /\ \A c \in BookingIds \ {b} : bookings'[c] = bookings[c]
  BY DEF Books, CreditInvariant, TypedRows, TypeOK
<1> QED BY <1>1, <1>2 DEF NoGraceIsGiven, NewBooking

LEMMA EndsNoGrace ==
  ASSUME NEW B \in SUBSET BookingIds, NEW R, NEW reason, Ends(B, R, reason)
  PROVE  NoGraceIsGiven
BY DEF Ends, KeepsIdentity, NoGraceIsGiven

LEMMA ReplacesNoGrace ==
  ASSUME CreditInvariant, NEW b \in BookingIds, NEW c \in BookingIds,
         Replaces(b, c)
  PROVE  NoGraceIsGiven
<1>1. bookings[c].state = "NONE" /\ bookings[c].refundUntil = -1
  BY LedgerFacts DEF Replaces
<1> QED BY <1>1 DEF Replaces, KeepsIdentity, NoGraceIsGiven

LEMMA NextIsQuietOrPromotes ==
  CreditInvariant /\ [Next]_vars =>
    \/ QuietStep
    \/ \E e \in EntryIds, b \in BookingIds, u \in Students, s \in Sessions,
          refundUntil \in Int :
         Promotes(e, b, u, s, refundUntil)
<1> DEFINE Goal ==
      \/ QuietStep
      \/ \E e \in EntryIds, b \in BookingIds, u \in Students, s \in Sessions,
            refundUntil \in Int :
           Promotes(e, b, u, s, refundUntil)
<1> SUFFICES ASSUME CreditInvariant, [Next]_vars PROVE Goal
  OBVIOUS
<1>0. TypedRows
  BY DEF CreditInvariant
<1>1. ASSUME NobodyIsPromoted, NoGraceIsGiven PROVE Goal
  BY <1>1 DEF QuietStep
<1>2. ASSUME UNCHANGED <<bookings, entries>> PROVE Goal
  BY <1>0, <1>1, <1>2, EntriesUnchanged, UnchangedBookings
<1>3. ASSUME NEW e \in EntryIds, NEW b \in BookingIds, NEW u \in Students,
             NEW s \in Sessions, NEW refundUntil \in Int,
             Promotes(e, b, u, s, refundUntil)
      PROVE  Goal
  BY <1>3
<1> HIDE DEF Goal
<1>4. ASSUME NEW u \in Students, StudentRequest(u) PROVE Goal
  <2>1. ASSUME NEW s \in Sessions, NEW b \in BookingIds, BookClassSession(u, s, b)
        PROVE  Goal
    <3>1. Books(b, u, s, -1) /\ entries' = entries
      BY <2>1, CreateBookingBooks DEF BookClassSession
    <3> QED BY <1>0, <1>1, <3>1, BooksNoGrace, EntriesUnchanged
  <2>2. ASSUME NEW b \in BookingIds, CancelBooking(b) PROVE Goal
    <3>1. PICK R \in SUBSET {b} : Ends({b}, R, "STUDENT_CANCELLATION")
      BY <1>0, <2>2, CancelBookingEnds
    <3>2. NoGraceIsGiven
      BY <3>1, EndsNoGrace
    <3>3. entries' = entries
      BY <2>2 DEF CancelBooking
    <3> QED BY <1>0, <1>1, <3>2, <3>3, EntriesUnchanged
  <2>3. ASSUME NEW b \in BookingIds, NEW c \in BookingIds, NEW s \in Sessions,
               RescheduleBooking(b, s, c)
        PROVE  Goal
    <3>1. NoGraceIsGiven
      BY <1>0, <2>3, RescheduleBookingReplaces, ReplacesNoGrace
    <3>2. entries' = entries
      BY <2>3 DEF RescheduleBooking
    <3> QED BY <1>0, <1>1, <3>1, <3>2, EntriesUnchanged
  <2>4. ASSUME NEW s \in Sessions, NEW e \in EntryIds, JoinWaitlist(u, s, e)
        PROVE  Goal
    <3>1. NobodyIsPromoted
      BY <1>0, <2>4
         DEF JoinWaitlist, FreshEntry, NobodyIsPromoted, TypedRows, TypeOK, Entry
    <3>2. bookings' = bookings
      BY <2>4 DEF JoinWaitlist
    <3> QED BY <1>1, <3>1, <3>2, UnchangedBookings
  <2>5. ASSUME NEW e \in EntryIds, WithdrawWaitlist(e) PROVE Goal
    <3>1. /\ entries[e].state = "ACTIVE"
          /\ entries' = [entries EXCEPT ![e].state = "WITHDRAWN"]
          /\ bookings' = bookings
      BY <2>5 DEF WithdrawWaitlist
    <3> QED BY <1>0, <1>1, <3>1, OneEntryLeaves, UnchangedBookings
  <2> QED BY <1>4, <2>1, <2>2, <2>3, <2>4, <2>5 DEF StudentRequest
<1>5. ASSUME NEW t \in Teachers, TeacherRequest(t) PROVE Goal
  BY <1>2, <1>5 DEF TeacherRequest, ReportAbsence
<1>6. CASE AdministratorRequest
  <2>1. ASSUME NEW a \in AbsenceIds, NEW s \in Sessions, CancelClassSession(a, s)
        PROVE  Goal
    <3> DEFINE waiting == {e \in ActiveEntries : entries[e].session = s}
    <3>1. Ends(Occupants(s), Occupants(s), "CLASS_SESSION_CANCELLATION")
      BY <1>0, <2>1, CancelClassSessionEnds
    <3>2. NoGraceIsGiven
      BY <3>1, EndsNoGrace DEF Occupants
    <3>3. entries' = CloseEntries(waiting) /\ waiting \in SUBSET ActiveEntries
      BY <2>1 DEF CancelClassSession
    <3> HIDE DEF waiting
    <3> QED BY <1>0, <1>1, <3>2, <3>3, ClosedEntries
  <2>2. AdministratorRequest =>
          \/ UNCHANGED <<bookings, entries>>
          \/ \E a \in AbsenceIds, s \in Sessions : CancelClassSession(a, s)
    BY DEF AdministratorRequest, PublishClassSession, AdjustClassCredits,
           ChangeClassSessionSeatCapacity, SubstituteTeacher
  <2> QED BY <1>2, <1>6, <2>1, <2>2
<1>7. CASE AccessRequest
  <2>1. ASSUME NEW u \in Users, adjusted' = adjusted,
               NEW reason \in {"USER_SUSPENSION", "ROLE_ASSIGNMENT_REMOVAL"},
               EndStudentCommitments(u, reason)
        PROVE  Goal
    <3> DEFINE waiting == {e \in ActiveEntries : entries[e].student = u}
    <3>1. Ends(FutureBookings(u), FutureBookings(u), reason)
      BY <1>0, <2>1, EndStudentCommitmentsEnds
    <3>2. NoGraceIsGiven
      BY <3>1, EndsNoGrace DEF FutureBookings
    <3>3. entries' = CloseEntries(waiting) /\ waiting \in SUBSET ActiveEntries
      BY <2>1 DEF EndStudentCommitments
    <3> HIDE DEF waiting
    <3> QED BY <1>0, <1>1, <3>2, <3>3, ClosedEntries
  <2>2. ASSUME NEW u \in SuspensionTargets, SuspendUser(u) PROVE Goal
    <3>1. u \in Users
      BY ConstantsAssumption
    <3> QED BY <2>1, <2>2, <3>1 DEF SuspendUser
  <2>3. ASSUME NEW u \in Students, RemoveStudentRole(u) PROVE Goal
    BY <2>1, <2>3 DEF RemoveStudentRole, Users
  <2>4. ASSUME NEW u, NEW role,
               \/ ReactivateUser(u)
               \/ GrantRoleAssignment(u, role)
               \/ RemoveTeacherRole(u)
        PROVE  Goal
    BY <1>2, <2>4 DEF ReactivateUser, GrantRoleAssignment, RemoveTeacherRole
  <2> QED BY <1>7, <2>2, <2>3, <2>4 DEF AccessRequest
<1>8. CASE WaitlistWorkerStep
  <2>1. ASSUME NEW e \in EntryIds, NEW b \in BookingIds, NEW t \in WorkerClocks,
               PromoteEntry(e, b, t)
        PROVE  Goal
    <3>1. PICK u \in Students : u = entries[e].student
      BY <1>0, <2>1 DEF PromoteEntry, TypedRows, RowsNamed
    <3>2. PICK s \in Sessions : s = entries[e].session
      BY <1>0, <2>1 DEF PromoteEntry, TypedRows, RowsNamed
    <3>3. Books(b, u, s, t + PromotionGrace)
      BY <2>1, <3>1, <3>2, CreateBookingBooks DEF PromoteEntry
    <3>4. t + PromotionGrace \in Int /\ t + PromotionGrace # -1
      BY LeadAssumption DEF WorkerClocks
    <3>5. Promotes(e, b, u, s, t + PromotionGrace)
      BY <2>1, <3>1, <3>2, <3>3, <3>4 DEF PromoteEntry, Promotes
    <3> QED BY <1>3, <3>4, <3>5
  <2>2. ASSUME NEW e \in EntryIds, NEW t \in WorkerClocks,
               ExpireEntry(e, t) \/ CloseIneligibleEntry(e, t)
        PROVE  Goal
    <3>1. /\ entries[e].state = "ACTIVE"
          /\ \E state \in {"EXPIRED", "INELIGIBLE"} :
               entries' = [entries EXCEPT ![e].state = state]
          /\ bookings' = bookings
      BY <2>2 DEF ExpireEntry, CloseIneligibleEntry
    <3> QED BY <1>0, <1>1, <3>1, OneEntryLeaves, UnchangedBookings
  <2>3. ASSUME NEW s \in Sessions, MarkRequestProcessed(s) PROVE Goal
    BY <1>2, <2>3 DEF MarkRequestProcessed
  <2> QED BY <1>8, <2>1, <2>2, <2>3 DEF WaitlistWorkerStep
<1>9. CASE ReminderWorkerStep \/ Tick \/ UNCHANGED vars
  BY <1>2, <1>9 DEF ReminderWorkerStep, DeliverClassSessionReminder, Tick, vars
<1>10. Goal
  BY <1>4, <1>5, <1>6, <1>7, <1>8, <1>9 DEF Next
<1> QED BY <1>10 DEF Goal

\* The entries that name a Booking.
By(b) == {e \in EntryIds : entries[e].booking = b}

LEMMA PromotionParts ==
  ASSUME PromotionInvariant
  PROVE  /\ \A e \in EntryIds :
              entries[e].state = "PROMOTED" <=> entries[e].booking # 0
         /\ \A b \in BookingIds :
              Cardinality(By(b)) = IF bookings[b].refundUntil = -1 THEN 0 ELSE 1
         /\ \A b \in BookingIds : \A e \in By(b) :
              /\ entries[e].student = bookings[b].student
              /\ entries[e].session = bookings[b].session
BY DEF PromotionInvariant, PromotionIsOneToOne, By

LEMMA ByIsFinite ==
  ASSUME NEW b
  PROVE  IsFiniteSet(By(b)) /\ Cardinality(By(b)) \in Nat
<1>1. IsFiniteSet(EntryIds)
  BY ConstantsAssumption, FS_Interval DEF EntryIds
<1>2. IsFiniteSet(By(b))
  BY <1>1, FS_Subset DEF By
<1> QED BY <1>2, FS_CardinalityType

\* A Booking an entry names has its grace, so it was made.
LEMMA NamedBookings ==
  ASSUME PromotionInvariant, NEW b \in BookingIds, NEW e \in By(b)
  PROVE  bookings[b].refundUntil # -1 /\ bookings[b].state # "NONE"
<1>1. By(b) # {}
  OBVIOUS
<1>2. bookings[b].refundUntil # -1
  BY <1>1, PromotionParts, ByIsFinite, FS_EmptySet
<1>3. bookings[b].state = "NONE" => bookings[b].refundUntil = -1
  BY LedgerFacts DEF PromotionInvariant
<1> QED BY <1>2, <1>3

LEMMA QuietPromotion ==
  ASSUME PromotionInvariant, QuietStep
  PROVE  PromotionIsOneToOne'
<1>1. /\ NobodyIsPromoted /\ NoGraceIsGiven
      /\ \A e \in EntryIds :
           entries[e].state = "PROMOTED" <=> entries[e].booking # 0
  BY PromotionParts DEF QuietStep
<1>2. ASSUME NEW e \in EntryIds
      PROVE  /\ entries'[e].booking = entries[e].booking
             /\ entries'[e].state = "PROMOTED" <=> entries'[e].booking # 0
             /\ entries[e].booking # 0 => entries'[e] = entries[e]
  BY <1>1 DEF NobodyIsPromoted
<1>3. ASSUME NEW b \in BookingIds
      PROVE  /\ By(b)' = By(b)
             /\ Cardinality(By(b))' =
                  IF bookings'[b].refundUntil = -1 THEN 0 ELSE 1
             /\ \A e \in By(b) : /\ entries'[e].student = bookings'[b].student
                                 /\ entries'[e].session = bookings'[b].session
  <2>1. By(b)' = By(b)
    BY <1>2 DEF By
  <2>2. Cardinality(By(b))' = IF bookings'[b].refundUntil = -1 THEN 0 ELSE 1
    BY <1>1, <2>1, PromotionParts DEF NoGraceIsGiven
  <2>3. ASSUME NEW e \in By(b)
        PROVE  /\ entries'[e].student = bookings'[b].student
               /\ entries'[e].session = bookings'[b].session
    <3>1. e \in EntryIds /\ entries[e].booking # 0
      BY DEF By, BookingIds
    <3>2. bookings[b].state # "NONE"
      BY NamedBookings
    <3>3. /\ entries[e].student = bookings[b].student
          /\ entries[e].session = bookings[b].session
      BY PromotionParts
    <3> QED BY <1>1, <1>2, <3>1, <3>2, <3>3 DEF NoGraceIsGiven
  <2> QED BY <2>1, <2>2, <2>3
<1> QED BY <1>2, <1>3 DEF PromotionIsOneToOne, By

LEMMA PromotesOne ==
  ASSUME PromotionInvariant, NEW e \in EntryIds, NEW b \in BookingIds,
         NEW u \in Students, NEW s \in Sessions, NEW refundUntil \in Int,
         Promotes(e, b, u, s, refundUntil)
  PROVE  PromotionIsOneToOne'
<1>1. /\ bookings[b].state = "NONE" /\ bookings[b].refundUntil = -1
      /\ entries[e].state = "ACTIVE"
      /\ entries[e].student = u /\ entries[e].session = s
      /\ refundUntil # -1
  BY LedgerFacts DEF Promotes, Books, PromotionInvariant
<1>2. /\ bookings'[b].refundUntil = refundUntil
      /\ bookings'[b].student = u /\ bookings'[b].session = s
      /\ \A c \in BookingIds \ {b} : bookings'[c] = bookings[c]
  <2>1. /\ bookings'[b] = NewBooking(u, s, refundUntil, 0)
        /\ \A c \in BookingIds \ {b} : bookings'[c] = bookings[c]
    BY DEF Promotes, Books, PromotionInvariant, CreditInvariant, TypedRows,
           TypeOK
  <2> QED BY <2>1 DEF NewBooking
<1>3. /\ entries'[e].state = "PROMOTED" /\ entries'[e].booking = b
      /\ entries'[e].student = u /\ entries'[e].session = s
      /\ \A d \in EntryIds \ {e} : entries'[d] = entries[d]
  <2>1. entries \in [EntryIds -> Entry]
    BY DEF PromotionInvariant, CreditInvariant, TypedRows, TypeOK
  <2>2. /\ entries'[e] = [entries[e] EXCEPT !.state = "PROMOTED", !.booking = b]
        /\ \A d \in EntryIds \ {e} : entries'[d] = entries[d]
    BY <2>1 DEF Promotes
  <2> QED BY <1>1, <2>1, <2>2 DEF Entry
<1>4. By(b) = {} /\ entries[e].booking = 0 /\ b # 0
  <2>1. By(b) = {}
    BY <1>1, PromotionParts, ByIsFinite, FS_EmptySet
  <2>2. entries[e].booking = 0
    BY <1>1, PromotionParts
  <2> QED BY <2>1, <2>2 DEF BookingIds
<1>5. By(b)' = {e} /\ \A c \in BookingIds \ {b} : By(c)' = By(c)
  <2>1. By(b)' = {e}
    BY <1>3, <1>4 DEF By
  <2>2. ASSUME NEW c \in BookingIds \ {b} PROVE By(c)' = By(c)
    <3>1. c # 0
      BY DEF BookingIds
    <3> QED BY <1>3, <1>4, <3>1 DEF By
  <2> QED BY <2>1, <2>2
<1>6. \A d \in EntryIds : entries'[d].state = "PROMOTED" <=> entries'[d].booking # 0
  BY <1>3, <1>4, PromotionParts
<1>7. ASSUME NEW c \in BookingIds
      PROVE  /\ Cardinality(By(c))' =
                  IF bookings'[c].refundUntil = -1 THEN 0 ELSE 1
             /\ \A d \in By(c)' : /\ entries'[d].student = bookings'[c].student
                                  /\ entries'[d].session = bookings'[c].session
  <2>1. CASE c = b
    <3>1. Cardinality(By(b))' = 1
      BY <1>5, FS_Singleton
    <3> QED BY <1>1, <1>2, <1>3, <1>5, <2>1, <3>1
  <2>2. CASE c # b
    <3>1. By(c)' = By(c) /\ bookings'[c] = bookings[c]
      BY <1>2, <1>5, <2>2
    <3>2. e \notin By(c) /\ By(c) \subseteq EntryIds
      BY <1>4 DEF By, BookingIds
    <3> QED BY <1>3, <3>1, <3>2, PromotionParts
  <2> QED BY <2>1, <2>2
<1> QED BY <1>6, <1>7 DEF PromotionIsOneToOne, By

LEMMA StepPromotion ==
  PromotionInvariant /\ [Next]_vars => PromotionInvariant'
<1> SUFFICES ASSUME PromotionInvariant, [Next]_vars PROVE PromotionInvariant'
  OBVIOUS
<1>1. CreditInvariant'
  BY StepCredits DEF PromotionInvariant
<1>2. PromotionIsOneToOne'
  BY NextIsQuietOrPromotes, QuietPromotion, PromotesOne DEF PromotionInvariant
<1> QED BY <1>1, <1>2 DEF PromotionInvariant

LEMMA InitPromotion == Init => PromotionInvariant
<1> SUFFICES ASSUME Init PROVE PromotionInvariant
  OBVIOUS
<1>1. \A b \in BookingIds : {e \in EntryIds : entries[e].booking = b} = {}
  BY DEF Init, NoEntry, BookingIds
<1>2. PromotionIsOneToOne
  BY <1>1, FS_EmptySet DEF Init, PromotionIsOneToOne, NoEntry, NoBooking
<1> QED BY <1>2, InitCredits DEF PromotionInvariant

(* Promotions and Bookings match one to one through any number of worker   *)
(* passes with late clocks: no entry is promoted twice, no Booking answers *)
(* two entries, and none but a promoted Booking carries the grace.         *)
THEOREM PromotionsAreOneToOne == Spec => []PromotionIsOneToOne
<1>1. PromotionInvariant => PromotionIsOneToOne
  BY DEF PromotionInvariant
<1> QED BY <1>1, InitPromotion, StepPromotion, PTL DEF Spec


----------------------------------------------------------------------------
(* History.  Beside the Bookings and the entries, disruptions and sessions *)
(* only move forward.                                                      *)

\* A request not yet reported covers no session.
UnreportedIsEmpty ==
  \A a \in AbsenceIds : absences[a].state = "NONE" =>
    \A s \in Sessions : absences[a].rows[s] = "NONE"

CancelledIsEmpty ==
  \A s \in Sessions : sessionState[s] = "CANCELLED" => Occupants(s) = {}

HistoryInvariant ==
  /\ PromotionInvariant /\ SeatsInvariant
  /\ UnreportedIsEmpty /\ CancelledIsEmpty

\* What a step does to the Absence Requests and the state of the sessions.
AbsencesMoveForward ==
  \A a \in AbsenceIds :
    /\ absences'[a].state = "NONE" => absences'[a] = absences[a]
    /\ \A s \in Sessions :
         absences[a].rows[s] \notin {"NONE", "UNRESOLVED"}
           => absences'[a].rows[s] = absences[a].rows[s]

SessionsMoveForward ==
  \A s \in Sessions :
    /\ sessionState[s] = "CANCELLED" => sessionState'[s] = "CANCELLED"
    /\ sessionState'[s] = "CANCELLED" =>
         sessionState[s] = "CANCELLED" \/ Occupants(s)' = {}

LEMMA ResolvedDisruption ==
  ASSUME TypedRows, UnreportedIsEmpty, NEW a \in AbsenceIds,
         NEW s \in Sessions, Disrupted(a, s),
         NEW resolution \in {"TEACHER_SUBSTITUTION",
                             "CLASS_SESSION_CANCELLATION"},
         ResolveDisruption(a, s, resolution)
  PROVE  AbsencesMoveForward
<1> DEFINE rows == [absences[a].rows EXCEPT ![s] = resolution]
           state == IF \E x \in Sessions : rows[x] = "UNRESOLVED"
                    THEN absences[a].state ELSE "RESOLVED"
<1>1. /\ absences \in [AbsenceIds -> Absence]
      /\ absences[a].rows[s] = "UNRESOLVED"
  BY DEF TypedRows, TypeOK, Disrupted
<1>2. absences[a].state # "NONE"
  BY <1>1 DEF UnreportedIsEmpty
<1>3. /\ absences'[a] = [absences[a] EXCEPT !.rows = rows, !.state = state]
      /\ \A c \in AbsenceIds \ {a} : absences'[c] = absences[c]
  BY <1>1 DEF ResolveDisruption
<1>4. state # "NONE"
  BY <1>2
<1>5. \A x \in Sessions : x # s => rows[x] = absences[a].rows[x]
  BY <1>1 DEF Absence
<1> HIDE DEF rows, state
<1>6. absences'[a].rows = rows /\ absences'[a].state = state
  BY <1>1, <1>3 DEF Absence
<1> QED BY <1>1, <1>3, <1>4, <1>5, <1>6 DEF AbsencesMoveForward

LEMMA NextAbsences ==
  TypedRows /\ UnreportedIsEmpty /\ [Next]_vars => AbsencesMoveForward
<1> SUFFICES ASSUME TypedRows, UnreportedIsEmpty, [Next]_vars
             PROVE  AbsencesMoveForward
  OBVIOUS
<1>1. ASSUME absences' = absences PROVE AbsencesMoveForward
  BY <1>1 DEF AbsencesMoveForward
<1>2. ASSUME NEW u \in Students, StudentRequest(u) PROVE absences' = absences
  BY <1>2 DEF StudentRequest, BookClassSession, CancelBooking,
              RescheduleBooking, JoinWaitlist, WithdrawWaitlist
<1>3. ASSUME NEW t \in Teachers, TeacherRequest(t) PROVE AbsencesMoveForward
  <2>1. PICK S \in SUBSET Sessions, a \in AbsenceIds : ReportAbsence(t, S, a)
    BY <1>3 DEF TeacherRequest
  <2>2. /\ absences[a].state = "NONE"
        /\ absences'[a].state = "OPEN"
        /\ \A c \in AbsenceIds \ {a} : absences'[c] = absences[c]
    BY <2>1 DEF ReportAbsence, FreshAbsence, TypedRows, TypeOK
  <2> QED BY <2>2 DEF AbsencesMoveForward, UnreportedIsEmpty
<1>4. CASE AdministratorRequest
  <2>1. ASSUME NEW a \in AbsenceIds, NEW s \in Sessions, NEW t \in Teachers,
               SubstituteTeacher(a, s, t)
        PROVE  AbsencesMoveForward
    BY <2>1, ResolvedDisruption DEF SubstituteTeacher, ReplacementAccepted
  <2>2. ASSUME NEW a \in AbsenceIds, NEW s \in Sessions, CancelClassSession(a, s)
        PROVE  AbsencesMoveForward
    BY <2>2, ResolvedDisruption DEF CancelClassSession
  <2>3. AdministratorRequest =>
          \/ absences' = absences
          \/ \E a \in AbsenceIds, s \in Sessions, t \in Teachers :
               SubstituteTeacher(a, s, t)
          \/ \E a \in AbsenceIds, s \in Sessions : CancelClassSession(a, s)
    BY DEF AdministratorRequest, PublishClassSession, AdjustClassCredits,
           ChangeClassSessionSeatCapacity
  <2> QED BY <1>1, <1>4, <2>1, <2>2, <2>3
<1>5. CASE AccessRequest
  <2>1. absences' = absences
    BY <1>5 DEF AccessRequest, SuspendUser, ReactivateUser,
                GrantRoleAssignment, RemoveStudentRole, RemoveTeacherRole
  <2> QED BY <1>1, <2>1
<1>6. CASE WaitlistWorkerStep
  <2>1. absences' = absences
    BY <1>6 DEF WaitlistWorkerStep, ExpireEntry, CloseIneligibleEntry,
                PromoteEntry, MarkRequestProcessed
  <2> QED BY <1>1, <2>1
<1>7. CASE ReminderWorkerStep \/ Tick \/ UNCHANGED vars
  <2>1. absences' = absences
    BY <1>7 DEF ReminderWorkerStep, DeliverClassSessionReminder, Tick, vars
  <2> QED BY <1>1, <2>1
<1> QED BY <1>1, <1>2, <1>3, <1>4, <1>5, <1>6, <1>7 DEF Next

LEMMA NextSessions ==
  TypedRows /\ [Next]_vars => SessionsMoveForward
<1> SUFFICES ASSUME TypedRows, [Next]_vars PROVE SessionsMoveForward
  OBVIOUS
<1>1. ASSUME sessionState' = sessionState PROVE SessionsMoveForward
  BY <1>1 DEF SessionsMoveForward
<1>2. ASSUME NEW u \in Students, StudentRequest(u)
      PROVE  sessionState' = sessionState
  BY <1>2 DEF StudentRequest, BookClassSession, CancelBooking,
              RescheduleBooking, JoinWaitlist, WithdrawWaitlist, sessionVars
<1>3. ASSUME NEW t \in Teachers, TeacherRequest(t)
      PROVE  sessionState' = sessionState
  BY <1>3 DEF TeacherRequest, ReportAbsence, sessionVars
<1>4. CASE AdministratorRequest
  <2>1. ASSUME NEW s \in Sessions, NEW t \in Teachers, NEW c \in Capacities,
               PublishClassSession(s, t, c)
        PROVE  SessionsMoveForward
    <3>1. /\ sessionState[s] = "NONE"
          /\ sessionState' = [sessionState EXCEPT ![s] = "PUBLISHED"]
      BY <2>1 DEF PublishClassSession
    <3> QED BY <3>1 DEF SessionsMoveForward, TypedRows, TypeOK
  <2>2. ASSUME NEW a \in AbsenceIds, NEW s \in Sessions, CancelClassSession(a, s)
        PROVE  SessionsMoveForward
    <3>1. sessionState' = [sessionState EXCEPT ![s] = "CANCELLED"]
      BY <2>2 DEF CancelClassSession
    <3>2. Occupants(s)' = {}
      <4>1. Ends(Occupants(s), Occupants(s), "CLASS_SESSION_CANCELLATION")
        BY <2>2, CancelClassSessionEnds
      <4> QED BY <4>1 DEF Ends, Occupants
    <3> QED BY <3>1, <3>2 DEF SessionsMoveForward, TypedRows, TypeOK
  <2>3. AdministratorRequest =>
          \/ sessionState' = sessionState
          \/ \E s \in Sessions, t \in Teachers, c \in Capacities :
               PublishClassSession(s, t, c)
          \/ \E a \in AbsenceIds, s \in Sessions : CancelClassSession(a, s)
    BY DEF AdministratorRequest, SubstituteTeacher, AdjustClassCredits,
           ChangeClassSessionSeatCapacity, sessionVars
  <2> QED BY <1>1, <1>4, <2>1, <2>2, <2>3
<1>5. CASE AccessRequest
  <2>1. sessionState' = sessionState
    BY <1>5 DEF AccessRequest, SuspendUser, ReactivateUser, sessionVars,
                GrantRoleAssignment, RemoveStudentRole, RemoveTeacherRole
  <2> QED BY <1>1, <2>1
<1>6. CASE WaitlistWorkerStep
  <2>1. sessionState' = sessionState
    BY <1>6 DEF WaitlistWorkerStep, ExpireEntry, CloseIneligibleEntry,
                PromoteEntry, MarkRequestProcessed, sessionVars
  <2> QED BY <1>1, <2>1
<1>7. CASE ReminderWorkerStep \/ Tick \/ UNCHANGED vars
  <2>1. sessionState' = sessionState
    BY <1>7 DEF ReminderWorkerStep, DeliverClassSessionReminder, Tick, vars,
                sessionVars
  <2> QED BY <1>1, <2>1
<1> QED BY <1>1, <1>2, <1>3, <1>4, <1>5, <1>6, <1>7 DEF Next

LEMMA StaysEmpty ==
  ASSUME CreditInvariant, CreditStep, NEW s \in Sessions,
         sessionState[s] = "CANCELLED", Occupants(s) = {}
  PROVE  Occupants(s)' = {}
<1>1. CASE UNCHANGED <<bookings, creditVars>>
  BY <1>1 DEF Occupants
<1>2. ASSUME NEW b \in BookingIds, NEW u \in Students, NEW x \in Sessions,
             NEW refundUntil \in Int, Books(b, u, x, refundUntil)
      PROVE  Occupants(s)' = {}
  <2>1. /\ bookings'[b] = NewBooking(u, x, refundUntil, 0) /\ x # s
        /\ \A c \in BookingIds \ {b} : bookings'[c] = bookings[c]
    BY <1>2 DEF Books, CreditInvariant, TypedRows, TypeOK
  <2>2. bookings'[b].session = x
    BY <2>1 DEF NewBooking
  <2> QED BY <2>1, <2>2 DEF Occupants
<1>3. ASSUME NEW B \in SUBSET BookingIds, NEW R \in SUBSET B,
             NEW reason \in EndReasons, Ends(B, R, reason)
      PROVE  Occupants(s)' = {}
  BY <1>3 DEF Ends, Occupants
<1>4. ASSUME NEW b \in BookingIds, NEW c \in BookingIds, Replaces(b, c)
      PROVE  Occupants(s)' = {}
  <2>1. /\ bookings'[b].state = "ENDED" /\ bookings'[c].session # s
        /\ \A d \in BookingIds \ {b, c} : bookings'[d] = bookings[d]
    BY <1>4 DEF Replaces
  <2> QED BY <2>1 DEF Occupants
<1>5. ASSUME NEW u \in Students, NEW amount \in Int, Adjusts(u, amount)
      PROVE  Occupants(s)' = {}
  BY <1>5 DEF Adjusts, Occupants
<1> QED BY <1>1, <1>2, <1>3, <1>4, <1>5 DEF CreditStep

LEMMA StepHistory ==
  HistoryInvariant /\ [Next]_vars => HistoryInvariant'
<1> SUFFICES ASSUME HistoryInvariant, [Next]_vars PROVE HistoryInvariant'
  OBVIOUS
<1>1. TypedRows /\ CreditInvariant /\ CreditStep
  BY NextIsCreditStep DEF HistoryInvariant, PromotionInvariant, CreditInvariant
<1>2. PromotionInvariant' /\ SeatsInvariant'
  BY StepPromotion, StepType, StepSeats, StepUnpublished
     DEF HistoryInvariant, SeatsInvariant
<1>3. UnreportedIsEmpty'
  BY <1>1, NextAbsences
     DEF HistoryInvariant, AbsencesMoveForward, UnreportedIsEmpty
<1>4. CancelledIsEmpty'
  BY <1>1, NextSessions, StaysEmpty
     DEF HistoryInvariant, SessionsMoveForward, CancelledIsEmpty
<1> QED BY <1>2, <1>3, <1>4 DEF HistoryInvariant

LEMMA InitHistory == Init => HistoryInvariant
<1> SUFFICES ASSUME Init PROVE HistoryInvariant
  OBVIOUS
<1>1. SeatsInvariant
  <2>1. \A s \in Sessions : Occupants(s) = {}
    BY DEF Init, Occupants, NoBooking
  <2>2. SeatsReconcile
    BY <2>1, FS_EmptySet DEF Init, SeatsReconcile
  <2> QED BY <2>2, InitType DEF SeatsInvariant, UnpublishedHasNoSeats, Init
<1>2. UnreportedIsEmpty /\ CancelledIsEmpty
  BY DEF Init, UnreportedIsEmpty, CancelledIsEmpty, NoAbsence
<1> QED BY <1>1, <1>2, InitPromotion DEF HistoryInvariant

LEMMA EndedBookingsStay ==
  ASSUME CreditInvariant, CreditStep
  PROVE  /\ \A b \in BookingIds :
              bookings[b].state = "ENDED" => bookings'[b] = bookings[b]
         /\ ledger \subseteq ledger'
<1>1. CASE UNCHANGED <<bookings, creditVars>>
  BY <1>1 DEF creditVars
<1>2. ASSUME NEW b \in BookingIds, NEW u \in Students, NEW s \in Sessions,
             NEW refundUntil \in Int, Books(b, u, s, refundUntil)
      PROVE  /\ \A c \in BookingIds :
                  bookings[c].state = "ENDED" => bookings'[c] = bookings[c]
             /\ ledger \subseteq ledger'
  BY <1>2 DEF Books, CreditInvariant, TypedRows, TypeOK
<1>3. ASSUME NEW B \in SUBSET BookingIds, NEW R \in SUBSET B,
             NEW reason \in EndReasons, Ends(B, R, reason)
      PROVE  /\ \A c \in BookingIds :
                  bookings[c].state = "ENDED" => bookings'[c] = bookings[c]
             /\ ledger \subseteq ledger'
  BY <1>3 DEF Ends
<1>4. ASSUME NEW b \in BookingIds, NEW c \in BookingIds, Replaces(b, c)
      PROVE  /\ \A d \in BookingIds :
                  bookings[d].state = "ENDED" => bookings'[d] = bookings[d]
             /\ ledger \subseteq ledger'
  BY <1>4 DEF Replaces, creditVars
<1>5. ASSUME NEW u \in Students, NEW amount \in Int, Adjusts(u, amount)
      PROVE  UNCHANGED <<bookings, ledger>>
  BY <1>5 DEF Adjusts
<1> QED BY <1>1, <1>2, <1>3, <1>4, <1>5 DEF CreditStep

\* The action of HistoryIsFinal.
KeepsHistory ==
  /\ \A b \in BookingIds :
       bookings[b].state = "ENDED" => bookings'[b] = bookings[b]
  /\ \A e \in EntryIds :
       entries[e].state \notin {"NONE", "ACTIVE"} => entries'[e] = entries[e]
  /\ \A a \in AbsenceIds, s \in Sessions :
       absences[a].rows[s] \notin {"NONE", "UNRESOLVED"}
         => absences'[a].rows[s] = absences[a].rows[s]
  /\ \A s \in Sessions : sessionState[s] = "CANCELLED"
         => sessionState'[s] = "CANCELLED" /\ occupiedSeats'[s] = 0
  /\ ledger \subseteq ledger'

LEMMA NextKeepsHistory == HistoryInvariant /\ [Next]_vars => KeepsHistory
<1> SUFFICES ASSUME HistoryInvariant, [Next]_vars PROVE KeepsHistory
  OBVIOUS
<1>1. TypedRows /\ CreditInvariant /\ CreditStep
  BY NextIsCreditStep DEF HistoryInvariant, PromotionInvariant, CreditInvariant
<1>2. /\ \A b \in BookingIds :
           bookings[b].state = "ENDED" => bookings'[b] = bookings[b]
      /\ ledger \subseteq ledger'
  BY <1>1, EndedBookingsStay
<1>3. \A e \in EntryIds :
        entries[e].state \notin {"NONE", "ACTIVE"} => entries'[e] = entries[e]
  <2>1. CASE QuietStep
    BY <2>1 DEF QuietStep, NobodyIsPromoted
  <2>2. ASSUME NEW e \in EntryIds, NEW b \in BookingIds, NEW u \in Students,
               NEW s \in Sessions, NEW refundUntil \in Int,
               Promotes(e, b, u, s, refundUntil)
        PROVE  \A d \in EntryIds :
                 entries[d].state \notin {"NONE", "ACTIVE"} => entries'[d] = entries[d]
    BY <1>1, <2>2 DEF Promotes, TypedRows, TypeOK
  <2> QED BY <1>1, <2>1, <2>2, NextIsQuietOrPromotes
<1>4. \A a \in AbsenceIds, s \in Sessions :
        absences[a].rows[s] \notin {"NONE", "UNRESOLVED"}
          => absences'[a].rows[s] = absences[a].rows[s]
  BY <1>1, NextAbsences DEF HistoryInvariant, AbsencesMoveForward
<1>5. ASSUME NEW s \in Sessions, sessionState[s] = "CANCELLED"
      PROVE  sessionState'[s] = "CANCELLED" /\ occupiedSeats'[s] = 0
  <2>1. sessionState'[s] = "CANCELLED"
    BY <1>1, <1>5, NextSessions DEF SessionsMoveForward
  <2>2. Occupants(s)' = {}
    BY <1>1, <1>5, StaysEmpty DEF HistoryInvariant, CancelledIsEmpty
  <2>3. occupiedSeats'[s] = Cardinality(Occupants(s))'
    BY StepSeats DEF HistoryInvariant, SeatsReconcile
  <2> QED BY <2>1, <2>2, <2>3, FS_EmptySet
<1> QED BY <1>2, <1>3, <1>4, <1>5 DEF KeepsHistory

(* What is over stays over: whatever requests and worker passes come late, *)
(* none revives a Booking, an entry, a disruption or a session, or takes a *)
(* row out of the ledger.                                                  *)
THEOREM HistoryStaysFinal == Spec => HistoryIsFinal
<1>1. HistoryInvariant /\ [Next]_vars => [KeepsHistory]_vars
  BY NextKeepsHistory
<1>2. HistoryIsFinal <=> [][KeepsHistory]_vars
  BY DEF HistoryIsFinal, KeepsHistory
<1> QED BY <1>1, <1>2, InitHistory, StepHistory, PTL DEF Spec

----------------------------------------------------------------------------
(* Freed seats.                                                            *)

IsFreed(s) ==
  /\ sessionState[s] = "PUBLISHED" /\ sessionState'[s] = "PUBLISHED"
  /\ seatCapacity'[s] - occupiedSeats'[s] > seatCapacity[s] - occupiedSeats[s]

IsRequested(s) == requestPending'[s] /\ requestVersion'[s] > requestVersion[s]

\* The action of FreedSeatIsRequested.
RequestsFreedSeats ==
  \A s \in Sessions :
    /\ sessionState[s] = "PUBLISHED" /\ sessionState'[s] = "PUBLISHED"
    /\ seatCapacity'[s] - occupiedSeats'[s]
         > seatCapacity[s] - occupiedSeats[s]
    => /\ requestPending'[s]
       /\ requestVersion'[s] > requestVersion[s]

LEMMA FreedIsRequested ==
  ASSUME TypedRows, NEW n \in [Sessions -> Nat], RequestPromotions(n),
         NEW s \in Sessions, n[s] > 0
  PROVE  IsRequested(s)
<1>1. requestVersion'[s] > requestVersion[s]
  BY DEF TypedRows, TypeOK, RequestPromotions
<1>2. requestPending'[s] = (requestPending[s] \/ n[s] > 0)
  BY DEF RequestPromotions
<1> QED BY <1>1, <1>2 DEF IsRequested

LEMMA OneIsFreed ==
  ASSUME TypedRows, NEW s \in Sessions, RequestPromotions(Once(s)),
         \A x \in Sessions : x # s => ~IsFreed(x)
  PROVE  RequestsFreedSeats
<1>1. Once(s) \in [Sessions -> Nat] /\ Once(s)[s] = 1
  BY DEF Once
<1>2. IsRequested(s)
  BY <1>1, FreedIsRequested
<1> QED BY <1>2 DEF RequestsFreedSeats, IsFreed, IsRequested

LEMMA NothingIsFreed ==
  ASSUME TypedRows, UNCHANGED seatCapacity, occupiedSeats' \in [Sessions -> Int],
         \A s \in Sessions : occupiedSeats'[s] >= occupiedSeats[s]
  PROVE  RequestsFreedSeats
<1> SUFFICES ASSUME NEW s \in Sessions PROVE ~IsFreed(s)
  BY DEF RequestsFreedSeats, IsFreed, IsRequested
<1>1. /\ seatCapacity[s] \in Int /\ seatCapacity'[s] \in Int
      /\ occupiedSeats[s] \in Int /\ occupiedSeats'[s] \in Int
  BY DEF TypedRows, TypeOK
<1> QED BY <1>1 DEF IsFreed

LEMMA CleanupFreesSeats ==
  ASSUME TypedRows, NEW u, NEW reason,
         EndStudentCommitments(u, reason), UNCHANGED seatCapacity
  PROVE  RequestsFreedSeats
<1> DEFINE ended == FutureBookings(u)
           freed == SeatsFreed(ended)
<1>1. freed \in [Sessions -> Nat]
  BY SeatsFreedType DEF FutureBookings
<1>2. /\ occupiedSeats' = [s \in Sessions |-> occupiedSeats[s] - freed[s]]
      /\ RequestPromotions(freed)
  BY DEF EndStudentCommitments
<1> HIDE DEF freed
<1> SUFFICES ASSUME NEW s \in Sessions, IsFreed(s) PROVE IsRequested(s)
  BY DEF RequestsFreedSeats, IsFreed, IsRequested
<1>3. freed[s] > 0
  <2>1. /\ seatCapacity[s] \in Int /\ occupiedSeats[s] \in Int
        /\ freed[s] \in Nat /\ occupiedSeats'[s] = occupiedSeats[s] - freed[s]
    BY <1>1, <1>2 DEF TypedRows, TypeOK
  <2> QED BY <2>1 DEF IsFreed
<1> QED BY <1>1, <1>2, <1>3, FreedIsRequested

LEMMA NextRequestsFreedSeats ==
  TypedRows /\ [Next]_vars => RequestsFreedSeats
<1> SUFFICES ASSUME TypedRows, [Next]_vars PROVE RequestsFreedSeats
  OBVIOUS
<1>1. /\ occupiedSeats \in [Sessions -> Int] /\ seatCapacity \in [Sessions -> Int]
      /\ bookings \in [BookingIds -> Booking]
  BY DEF TypedRows, TypeOK
<1>2. ASSUME UNCHANGED <<seatCapacity, occupiedSeats>> PROVE RequestsFreedSeats
  BY <1>1, <1>2, NothingIsFreed
<1>3. ASSUME NEW s \in Sessions,
             occupiedSeats' = [occupiedSeats EXCEPT ![s] = @ + 1],
             UNCHANGED seatCapacity
      PROVE  RequestsFreedSeats
  BY <1>1, <1>3, NothingIsFreed
<1>4. CASE \E u \in Students : StudentRequest(u)
  <2>1. ASSUME NEW u \in Students, NEW s \in Sessions, NEW b \in BookingIds,
               BookClassSession(u, s, b)
        PROVE  RequestsFreedSeats
    BY <1>3, <2>1 DEF BookClassSession, CreateBooking
  <2>2. ASSUME NEW b \in BookingIds, CancelBooking(b)
        PROVE  RequestsFreedSeats
    <3> DEFINE s == bookings[b].session
    <3>1. s \in Sessions
      BY <2>2 DEF CancelBooking, IsActive, TypedRows, RowsNamed
    <3>2. /\ occupiedSeats' = [occupiedSeats EXCEPT ![s] = @ - 1]
          /\ UNCHANGED seatCapacity /\ RequestPromotions(Once(s))
      BY <2>2 DEF CancelBooking
    <3> HIDE DEF s
    <3>3. \A x \in Sessions : x # s => ~IsFreed(x)
      BY <1>1, <3>1, <3>2 DEF IsFreed
    <3> QED BY <3>1, <3>2, <3>3, OneIsFreed
  <2>3. ASSUME NEW b \in BookingIds, NEW c \in BookingIds, NEW s2 \in Sessions,
               RescheduleBooking(b, s2, c)
        PROVE  RequestsFreedSeats
    <3> DEFINE s1 == bookings[b].session
    <3>1. s1 \in Sessions
      BY <2>3 DEF RescheduleBooking, IsActive, TypedRows, RowsNamed
    <3>2. /\ occupiedSeats' = [occupiedSeats EXCEPT ![s1] = @ - 1, ![s2] = @ + 1]
          /\ UNCHANGED seatCapacity /\ RequestPromotions(Once(s1)) /\ s2 # s1
      BY <2>3 DEF RescheduleBooking
    <3> HIDE DEF s1
    <3>3. \A x \in Sessions : x # s1 => ~IsFreed(x)
      BY <1>1, <3>1, <3>2 DEF IsFreed
    <3> QED BY <3>1, <3>2, <3>3, OneIsFreed
  <2>4. ASSUME NEW u \in Students, NEW s \in Sessions, NEW e \in EntryIds,
               JoinWaitlist(u, s, e)
        PROVE  RequestsFreedSeats
    BY <1>2, <2>4 DEF JoinWaitlist, sessionVars
  <2>5. ASSUME NEW e \in EntryIds, WithdrawWaitlist(e)
        PROVE  RequestsFreedSeats
    BY <1>2, <2>5 DEF WithdrawWaitlist, sessionVars
  <2> QED BY <1>4, <2>1, <2>2, <2>3, <2>4, <2>5 DEF StudentRequest
<1>5. CASE \E t \in Teachers : TeacherRequest(t)
  BY <1>2, <1>5 DEF TeacherRequest, ReportAbsence, sessionVars
<1>6. CASE AdministratorRequest
  <2>1. ASSUME NEW s \in Sessions, NEW t \in Teachers, NEW c \in Capacities,
               PublishClassSession(s, t, c)
        PROVE  RequestsFreedSeats
    <3>1. /\ sessionState[s] = "NONE" /\ UNCHANGED occupiedSeats
          /\ seatCapacity' = [seatCapacity EXCEPT ![s] = c]
      BY <2>1 DEF PublishClassSession
    <3> QED BY <1>1, <3>1 DEF RequestsFreedSeats, IsFreed, IsRequested
  <2>2. ASSUME NEW s \in Sessions, NEW c \in Capacities,
               ChangeClassSessionSeatCapacity(s, c)
        PROVE  RequestsFreedSeats
    <3>1. /\ seatCapacity' = [seatCapacity EXCEPT ![s] = c]
          /\ UNCHANGED occupiedSeats /\ c \in Int
          /\ c > seatCapacity[s] => RequestPromotions(Once(s))
      BY <2>2, ConstantsAssumption DEF ChangeClassSessionSeatCapacity
    <3>2. \A x \in Sessions : x # s => ~IsFreed(x)
      BY <1>1, <3>1 DEF IsFreed
    <3>3. CASE c > seatCapacity[s]
      BY <3>1, <3>2, <3>3, OneIsFreed
    <3>4. CASE ~(c > seatCapacity[s])
      <4>1. ~IsFreed(s)
        BY <1>1, <3>1, <3>4 DEF IsFreed
      <4> QED BY <3>2, <4>1 DEF RequestsFreedSeats, IsFreed, IsRequested
    <3> QED BY <3>3, <3>4
  <2>3. ASSUME NEW a \in AbsenceIds, NEW s \in Sessions, CancelClassSession(a, s)
        PROVE  RequestsFreedSeats
    <3>1. /\ sessionState' = [sessionState EXCEPT ![s] = "CANCELLED"]
          /\ occupiedSeats' = [occupiedSeats EXCEPT ![s] = 0]
          /\ UNCHANGED seatCapacity
      BY <2>3 DEF CancelClassSession
    <3>2. sessionState'[s] = "CANCELLED"
      BY <3>1 DEF TypedRows, TypeOK
    <3> QED BY <1>1, <3>1, <3>2 DEF RequestsFreedSeats, IsFreed, IsRequested
  <2>4. AdministratorRequest =>
          \/ UNCHANGED <<seatCapacity, occupiedSeats>>
          \/ \E s \in Sessions, t \in Teachers, c \in Capacities :
               PublishClassSession(s, t, c)
          \/ \E s \in Sessions, c \in Capacities :
               ChangeClassSessionSeatCapacity(s, c)
          \/ \E a \in AbsenceIds, s \in Sessions : CancelClassSession(a, s)
    BY DEF AdministratorRequest, AdjustClassCredits, SubstituteTeacher,
           sessionVars
  <2> QED BY <1>2, <1>6, <2>1, <2>2, <2>3, <2>4
<1>7. CASE AccessRequest
  <2>1. ASSUME NEW u \in SuspensionTargets, SuspendUser(u)
        PROVE  RequestsFreedSeats
    BY <2>1, CleanupFreesSeats, ConstantsAssumption DEF SuspendUser
  <2>2. ASSUME NEW u \in Students, RemoveStudentRole(u)
        PROVE  RequestsFreedSeats
    BY <2>2, CleanupFreesSeats DEF RemoveStudentRole
  <2>3. AccessRequest =>
          \/ UNCHANGED <<seatCapacity, occupiedSeats>>
          \/ \E u \in SuspensionTargets : SuspendUser(u)
          \/ \E u \in Students : RemoveStudentRole(u)
    BY DEF AccessRequest, ReactivateUser, GrantRoleAssignment,
           RemoveTeacherRole, sessionVars
  <2> QED BY <1>2, <1>7, <2>1, <2>2, <2>3
<1>8. CASE WaitlistWorkerStep
  <2>1. ASSUME NEW e \in EntryIds, NEW b \in BookingIds, NEW t \in WorkerClocks,
               PromoteEntry(e, b, t)
        PROVE  RequestsFreedSeats
    <3>1. entries[e].session \in Sessions
      BY <2>1 DEF PromoteEntry, TypedRows, RowsNamed
    <3> QED BY <1>3, <2>1, <3>1 DEF PromoteEntry, CreateBooking
  <2>2. WaitlistWorkerStep =>
          \/ UNCHANGED <<seatCapacity, occupiedSeats>>
          \/ \E e \in EntryIds, b \in BookingIds, t \in WorkerClocks :
               PromoteEntry(e, b, t)
    BY DEF WaitlistWorkerStep, ExpireEntry, CloseIneligibleEntry,
           MarkRequestProcessed, sessionVars
  <2> QED BY <1>2, <1>8, <2>1, <2>2
<1>9. CASE ReminderWorkerStep \/ Tick \/ UNCHANGED vars
  BY <1>2, <1>9
     DEF ReminderWorkerStep, DeliverClassSessionReminder, Tick, vars, sessionVars
<1> QED BY <1>4, <1>5, <1>6, <1>7, <1>8, <1>9 DEF Next

(* No seat of a published session comes free, or is added, without a       *)
(* request that its Waitlist be looked at in the same transaction.         *)
THEOREM FreedSeatsAreRequested == Spec => FreedSeatIsRequested
<1>1. TypedRows /\ [Next]_vars => [RequestsFreedSeats]_vars
  BY NextRequestsFreedSeats
<1>2. FreedSeatIsRequested <=> [][RequestsFreedSeats]_vars
  BY DEF FreedSeatIsRequested, RequestsFreedSeats
<1> QED BY <1>1, <1>2, InitType, StepType, PTL DEF Spec

----------------------------------------------------------------------------
(* Disruptions.                                                            *)

LEMMA ResolvedRows ==
  ASSUME TypedRows, NEW a \in AbsenceIds, NEW s \in Sessions,
         NEW resolution \in {"TEACHER_SUBSTITUTION",
                             "CLASS_SESSION_CANCELLATION"},
         ResolveDisruption(a, s, resolution)
  PROVE  /\ absences'[a].rows[s] = resolution
         /\ absences'[a].teacher = absences[a].teacher
         /\ \A x \in Sessions \ {s} :
              absences'[a].rows[x] = absences[a].rows[x]
         /\ \A c \in AbsenceIds \ {a} : absences'[c] = absences[c]
         /\ absences'[a].state =
              IF \E x \in Sessions : absences'[a].rows[x] = "UNRESOLVED"
              THEN absences[a].state ELSE "RESOLVED"
<1> DEFINE rows == [absences[a].rows EXCEPT ![s] = resolution]
           state == IF \E x \in Sessions : rows[x] = "UNRESOLVED"
                    THEN absences[a].state ELSE "RESOLVED"
<1>1. absences \in [AbsenceIds -> Absence]
  BY DEF TypedRows, TypeOK
<1>2. /\ absences'[a] = [absences[a] EXCEPT !.rows = rows, !.state = state]
      /\ \A c \in AbsenceIds \ {a} : absences'[c] = absences[c]
  BY <1>1 DEF ResolveDisruption
<1>3. /\ rows[s] = resolution
      /\ \A x \in Sessions \ {s} : rows[x] = absences[a].rows[x]
  BY <1>1 DEF Absence
<1> HIDE DEF rows
<1>4. absences'[a].rows = rows /\ absences'[a].teacher = absences[a].teacher
  <2> HIDE DEF state
  <2> QED BY <1>1, <1>2 DEF Absence
<1>5. absences'[a].state = state
  <2> HIDE DEF state
  <2> QED BY <1>1, <1>2 DEF Absence
<1> QED BY <1>2, <1>3, <1>4, <1>5

\* What ReportAbsence does to the Absence Requests, and when.
Reports(t, S, a) ==
  /\ \A s \in S : /\ sessionState[s] = "PUBLISHED" /\ teacherOf[s] = t
                  /\ ~AlreadyReported(s)
  /\ absences' = [absences EXCEPT ![a] =
       [state |-> "OPEN", teacher |-> t,
        rows |-> [s \in Sessions |-> IF s \in S THEN "UNRESOLVED" ELSE "NONE"]]]
  /\ S # {}
  /\ UNCHANGED <<sessionState, teacherOf>>

LEMMA ReportedDisruption ==
  ASSUME TypedRows, AbsencesAreConsistent, NEW t \in Teachers,
         NEW S \in SUBSET Sessions, NEW a \in AbsenceIds,
         absences[a].state = "NONE", Reports(t, S, a)
  PROVE  AbsencesAreConsistent'
<1>1. /\ absences'[a].state = "OPEN" /\ absences'[a].teacher = t
      /\ \A s \in Sessions : absences'[a].rows[s] =
           IF s \in S THEN "UNRESOLVED" ELSE "NONE"
      /\ \A c \in AbsenceIds \ {a} : absences'[c] = absences[c]
  BY DEF Reports, TypedRows, TypeOK
<1>2. \A s \in S : \A c \in AbsenceIds : absences[c].rows[s] # "UNRESOLVED"
  BY DEF Reports, AlreadyReported
<1>3. /\ UNCHANGED <<sessionState, teacherOf>> /\ S # {}
      /\ \A s \in S : sessionState[s] = "PUBLISHED" /\ teacherOf[s] = t
  BY DEF Reports
<1>4. ASSUME NEW d \in AbsenceIds, NEW c \in AbsenceIds, NEW s \in Sessions,
             absences'[d].rows[s] = "UNRESOLVED"
      PROVE  /\ absences'[c].rows[s] = "UNRESOLVED" => d = c
             /\ sessionState'[s] = "PUBLISHED"
             /\ teacherOf'[s] = absences'[d].teacher
  BY <1>1, <1>2, <1>3, <1>4 DEF AbsencesAreConsistent
<1>5. \A d \in AbsenceIds :
        absences'[d].state = "OPEN" <=>
          \E s \in Sessions : absences'[d].rows[s] = "UNRESOLVED"
  BY <1>1, <1>3 DEF AbsencesAreConsistent
<1>6. \A d \in AbsenceIds, s \in Sessions :
        absences'[d].rows[s] = "CLASS_SESSION_CANCELLATION"
          => sessionState'[s] = "CANCELLED"
  BY <1>1, <1>3 DEF AbsencesAreConsistent
<1> QED BY <1>4, <1>5, <1>6 DEF AbsencesAreConsistent

\* The session that is resolved has one unresolved disruption and no other.
LEMMA ResolvedConsistently ==
  ASSUME TypedRows, AbsencesAreConsistent, NEW a \in AbsenceIds,
         NEW s \in Sessions, absences[a].rows[s] = "UNRESOLVED",
         NEW resolution \in {"TEACHER_SUBSTITUTION",
                             "CLASS_SESSION_CANCELLATION"},
         ResolveDisruption(a, s, resolution),
         resolution = "CLASS_SESSION_CANCELLATION" => sessionState'[s] = "CANCELLED",
         \A x \in Sessions \ {s} : /\ sessionState'[x] = sessionState[x]
                                   /\ teacherOf'[x] = teacherOf[x]
  PROVE  AbsencesAreConsistent'
<1>1. /\ absences'[a].rows[s] = resolution
      /\ absences'[a].teacher = absences[a].teacher
      /\ \A x \in Sessions \ {s} : absences'[a].rows[x] = absences[a].rows[x]
      /\ \A c \in AbsenceIds \ {a} : absences'[c] = absences[c]
      /\ absences'[a].state =
           IF \E x \in Sessions : absences'[a].rows[x] = "UNRESOLVED"
           THEN absences[a].state ELSE "RESOLVED"
  BY ResolvedRows
<1>2. \A c \in AbsenceIds : absences'[c].rows[s] # "UNRESOLVED"
  BY <1>1 DEF AbsencesAreConsistent
<1>3. absences[a].state = "OPEN"
  BY DEF AbsencesAreConsistent
<1>4. ASSUME NEW d \in AbsenceIds, NEW c \in AbsenceIds, NEW x \in Sessions,
             absences'[d].rows[x] = "UNRESOLVED"
      PROVE  /\ absences'[c].rows[x] = "UNRESOLVED" => d = c
             /\ sessionState'[x] = "PUBLISHED"
             /\ teacherOf'[x] = absences'[d].teacher
  BY <1>1, <1>2, <1>4 DEF AbsencesAreConsistent
<1>5. \A d \in AbsenceIds :
        absences'[d].state = "OPEN" <=>
          \E x \in Sessions : absences'[d].rows[x] = "UNRESOLVED"
  BY <1>1, <1>3 DEF AbsencesAreConsistent
<1>6. ASSUME NEW d \in AbsenceIds, NEW x \in Sessions,
             absences'[d].rows[x] = "CLASS_SESSION_CANCELLATION"
      PROVE  sessionState'[x] = "CANCELLED"
  <2>1. CASE x # s
    BY <1>1, <1>6, <2>1 DEF AbsencesAreConsistent
  <2>2. CASE x = s /\ d # a
    BY <1>1, <1>6, <2>2 DEF AbsencesAreConsistent
  <2>3. CASE x = s /\ d = a
    BY <1>1, <1>6, <2>3
  <2> QED BY <2>1, <2>2, <2>3
<1> QED BY <1>4, <1>5, <1>6 DEF AbsencesAreConsistent

LEMMA StepDisruptions ==
  TypedRows /\ AbsencesAreConsistent /\ [Next]_vars => AbsencesAreConsistent'
<1> SUFFICES ASSUME TypedRows, AbsencesAreConsistent, [Next]_vars
             PROVE  AbsencesAreConsistent'
  OBVIOUS
<1>1. ASSUME UNCHANGED <<absences, sessionState, teacherOf>>
      PROVE  AbsencesAreConsistent'
  BY <1>1 DEF AbsencesAreConsistent
<1>2. ASSUME NEW u \in Students, StudentRequest(u)
      PROVE  UNCHANGED <<absences, sessionState, teacherOf>>
  BY <1>2 DEF StudentRequest, BookClassSession, CancelBooking,
              RescheduleBooking, JoinWaitlist, WithdrawWaitlist, sessionVars
<1>3. ASSUME NEW t \in Teachers, TeacherRequest(t)
      PROVE  AbsencesAreConsistent'
  <2>1. PICK S \in SUBSET Sessions, a \in AbsenceIds : ReportAbsence(t, S, a)
    BY <1>3 DEF TeacherRequest
  <2>2. Reports(t, S, a) /\ absences[a].state = "NONE"
    BY <2>1 DEF ReportAbsence, FreshAbsence, Reports, sessionVars
  <2> QED BY <2>2, ReportedDisruption
<1>4. CASE AdministratorRequest
  <2>1. ASSUME NEW s \in Sessions, NEW t \in Teachers, NEW c \in Capacities,
               PublishClassSession(s, t, c)
        PROVE  AbsencesAreConsistent'
    <3>1. /\ sessionState[s] = "NONE" /\ UNCHANGED absences
          /\ \A x \in Sessions \ {s} : /\ sessionState'[x] = sessionState[x]
                                       /\ teacherOf'[x] = teacherOf[x]
      BY <2>1 DEF PublishClassSession, TypedRows, TypeOK
    <3> QED BY <3>1 DEF AbsencesAreConsistent
  <2>2. ASSUME NEW a \in AbsenceIds, NEW s \in Sessions, NEW t \in Teachers,
               SubstituteTeacher(a, s, t)
        PROVE  AbsencesAreConsistent'
    <3>1. /\ absences[a].rows[s] = "UNRESOLVED"
          /\ ResolveDisruption(a, s, "TEACHER_SUBSTITUTION")
          /\ UNCHANGED sessionState
          /\ \A x \in Sessions \ {s} : teacherOf'[x] = teacherOf[x]
      BY <2>2 DEF SubstituteTeacher, ReplacementAccepted, Disrupted, TypedRows,
                  TypeOK
    <3> QED BY <3>1, ResolvedConsistently
  <2>3. ASSUME NEW a \in AbsenceIds, NEW s \in Sessions, CancelClassSession(a, s)
        PROVE  AbsencesAreConsistent'
    <3>1. /\ absences[a].rows[s] = "UNRESOLVED"
          /\ ResolveDisruption(a, s, "CLASS_SESSION_CANCELLATION")
          /\ UNCHANGED teacherOf
          /\ sessionState' = [sessionState EXCEPT ![s] = "CANCELLED"]
      BY <2>3 DEF CancelClassSession, Disrupted
    <3>2. /\ sessionState'[s] = "CANCELLED"
          /\ \A x \in Sessions \ {s} : sessionState'[x] = sessionState[x]
      BY <3>1 DEF TypedRows, TypeOK
    <3> QED BY <3>1, <3>2, ResolvedConsistently
  <2>4. AdministratorRequest =>
          \/ UNCHANGED <<absences, sessionState, teacherOf>>
          \/ \E s \in Sessions, t \in Teachers, c \in Capacities :
               PublishClassSession(s, t, c)
          \/ \E a \in AbsenceIds, s \in Sessions, t \in Teachers :
               SubstituteTeacher(a, s, t)
          \/ \E a \in AbsenceIds, s \in Sessions : CancelClassSession(a, s)
    BY DEF AdministratorRequest, AdjustClassCredits,
           ChangeClassSessionSeatCapacity, sessionVars
  <2> QED BY <1>1, <1>4, <2>1, <2>2, <2>3, <2>4
<1>5. CASE AccessRequest
  <2>1. UNCHANGED <<absences, sessionState, teacherOf>>
    BY <1>5 DEF AccessRequest, SuspendUser, ReactivateUser, sessionVars,
                GrantRoleAssignment, RemoveStudentRole, RemoveTeacherRole
  <2> QED BY <1>1, <2>1
<1>6. CASE WaitlistWorkerStep
  <2>1. UNCHANGED <<absences, sessionState, teacherOf>>
    BY <1>6 DEF WaitlistWorkerStep, ExpireEntry, CloseIneligibleEntry,
                PromoteEntry, MarkRequestProcessed, sessionVars
  <2> QED BY <1>1, <2>1
<1>7. CASE ReminderWorkerStep \/ Tick \/ UNCHANGED vars
  <2>1. UNCHANGED <<absences, sessionState, teacherOf>>
    BY <1>7 DEF ReminderWorkerStep, DeliverClassSessionReminder, Tick, vars,
                sessionVars
  <2> QED BY <1>1, <2>1
<1> QED BY <1>1, <1>2, <1>3, <1>4, <1>5, <1>6, <1>7 DEF Next

----------------------------------------------------------------------------
(* Commitments.  A Student has one active Booking of a session at most:    *)
(* its end releases the commitment.                                        *)

OneActiveBooking ==
  \A b, c \in BookingIds :
    /\ bookings[b].state = "ACTIVE" /\ bookings[c].state = "ACTIVE"
    /\ bookings[b].student = bookings[c].student
    /\ bookings[b].session = bookings[c].session
    => b = c

Attends(u, s) ==
  \E b \in BookingIds : /\ bookings[b].state = "ACTIVE"
                        /\ bookings[b].student = u
                        /\ bookings[b].session = s

Teaches(u, s) == sessionState[s] = "PUBLISHED" /\ teacherOf[s] = u

\* CommitmentsMatch, in two parts.
StudentCommitmentsMatch ==
  \A u \in Users, s \in Sessions :
    <<u, s, "STUDENT">> \in commitments <=> Attends(u, s)

TeacherCommitmentsMatch ==
  \A u \in Users, s \in Sessions :
    <<u, s, "TEACHER">> \in commitments <=> Teaches(u, s)

\* What a step does to the Bookings and the commitments of Students.
SameStudents ==
  /\ UNCHANGED bookings
  /\ \A u \in Users, s \in Sessions :
       <<u, s, "STUDENT">> \in commitments' <=> <<u, s, "STUDENT">> \in commitments

Enters(b, u, s) ==
  /\ bookings'[b].state = "ACTIVE"
  /\ bookings'[b].student = u /\ bookings'[b].session = s

EntersOne(b, u, s) ==
  /\ bookings[b].state = "NONE" /\ Enters(b, u, s) /\ ~Attends(u, s)
  /\ \A c \in BookingIds \ {b} : bookings'[c] = bookings[c]
  /\ \A v \in Users, x \in Sessions :
       <<v, x, "STUDENT">> \in commitments' <=>
         <<v, x, "STUDENT">> \in commitments \/ (v = u /\ x = s)

LeavesWith(B, u, s) ==
  \E b \in B : bookings[b].student = u /\ bookings[b].session = s

\* All the active Bookings of a Student and session end, or none.
Leaves(B) ==
  /\ \A b \in B : bookings[b].state = "ACTIVE" /\ bookings'[b].state = "ENDED"
  /\ \A b \in BookingIds \ B : bookings'[b] = bookings[b]
  /\ \A u \in Users, s \in Sessions :
       <<u, s, "STUDENT">> \in commitments' <=>
         <<u, s, "STUDENT">> \in commitments /\ ~LeavesWith(B, u, s)
  /\ \A b \in B, c \in BookingIds :
       /\ bookings[c].state = "ACTIVE"
       /\ bookings[c].student = bookings[b].student
       /\ bookings[c].session = bookings[b].session
       => c \in B

Moves(b, c, u, s1, s2) ==
  /\ bookings[b].state = "ACTIVE" /\ bookings'[b].state = "ENDED"
  /\ bookings[b].student = u /\ bookings[b].session = s1
  /\ bookings[c].state = "NONE" /\ Enters(c, u, s2) /\ s1 # s2
  /\ ~Attends(u, s2)
  /\ \A d \in BookingIds \ {b, c} : bookings'[d] = bookings[d]
  /\ \A v \in Users, x \in Sessions :
       <<v, x, "STUDENT">> \in commitments' <=>
         IF v = u /\ x \in {s1, s2} THEN x = s2
                                    ELSE <<v, x, "STUDENT">> \in commitments

StudentStep ==
  \/ SameStudents
  \/ \E b \in BookingIds, u \in Students, s \in Sessions : EntersOne(b, u, s)
  \/ \E B \in SUBSET BookingIds : Leaves(B)
  \/ \E b, c \in BookingIds, u \in Students, s1, s2 \in Sessions :
       Moves(b, c, u, s1, s2)

StudentsMatch == OneActiveBooking /\ StudentCommitmentsMatch

LEMMA SameStudentsMatch ==
  ASSUME StudentsMatch, SameStudents PROVE StudentsMatch'
BY DEF StudentsMatch, SameStudents, OneActiveBooking, StudentCommitmentsMatch,
       Attends

LEMMA EntersMatch ==
  ASSUME StudentsMatch, NEW b \in BookingIds, NEW u \in Students,
         NEW s \in Sessions, EntersOne(b, u, s)
  PROVE  StudentsMatch'
<1>1. OneActiveBooking'
  BY DEF StudentsMatch, EntersOne, Enters, OneActiveBooking, Attends
<1>2. \A v \in Users, x \in Sessions :
        Attends(v, x)' <=> Attends(v, x) \/ (v = u /\ x = s)
  BY DEF EntersOne, Enters, Attends
<1>3. StudentCommitmentsMatch'
  BY <1>2 DEF StudentsMatch, EntersOne, StudentCommitmentsMatch
<1> QED BY <1>1, <1>3 DEF StudentsMatch

LEMMA LeavesMatch ==
  ASSUME StudentsMatch, NEW B \in SUBSET BookingIds, Leaves(B)
  PROVE  StudentsMatch'
<1>1. OneActiveBooking'
  BY DEF StudentsMatch, Leaves, OneActiveBooking
<1>2. \A u \in Users, s \in Sessions :
        Attends(u, s)' <=> Attends(u, s) /\ ~LeavesWith(B, u, s)
  BY DEF Leaves, LeavesWith, Attends
<1>3. StudentCommitmentsMatch'
  BY <1>2 DEF StudentsMatch, Leaves, StudentCommitmentsMatch
<1> QED BY <1>1, <1>3 DEF StudentsMatch

LEMMA MovesMatch ==
  ASSUME StudentsMatch, NEW b \in BookingIds, NEW c \in BookingIds,
         NEW u \in Students, NEW s1 \in Sessions, NEW s2 \in Sessions,
         Moves(b, c, u, s1, s2)
  PROVE  StudentsMatch'
<1>1. OneActiveBooking'
  BY DEF StudentsMatch, Moves, Enters, OneActiveBooking, Attends
<1>2. \A v \in Users, x \in Sessions :
        Attends(v, x)' <=> IF v = u /\ x \in {s1, s2} THEN x = s2
                                                      ELSE Attends(v, x)
  <2> SUFFICES ASSUME NEW v \in Users, NEW x \in Sessions
               PROVE  Attends(v, x)' <=> IF v = u /\ x \in {s1, s2} THEN x = s2
                                                      ELSE Attends(v, x)
    OBVIOUS
  <2>1. CASE v = u /\ x = s2
    BY <2>1 DEF Moves, Enters, Attends
  <2>2. CASE v = u /\ x = s1
    <3>1. \A d \in BookingIds : ~(/\ bookings'[d].state = "ACTIVE"
                                  /\ bookings'[d].student = u
                                  /\ bookings'[d].session = s1)
      BY DEF StudentsMatch, OneActiveBooking, Moves, Enters
    <3> QED BY <2>2, <3>1 DEF Moves, Attends
  <2>3. CASE ~(v = u /\ x \in {s1, s2})
    BY <2>3 DEF Moves, Enters, Attends
  <2> QED BY <2>1, <2>2, <2>3
<1>3. StudentCommitmentsMatch'
  BY <1>2 DEF StudentsMatch, Moves, StudentCommitmentsMatch
<1> QED BY <1>1, <1>3 DEF StudentsMatch

LEMMA StudentStepMatches == StudentsMatch /\ StudentStep => StudentsMatch'
BY SameStudentsMatch, EntersMatch, LeavesMatch, MovesMatch DEF StudentStep

LEMMA OverlapReflexive ==
  ASSUME NEW s \in Sessions PROVE Overlap(StartsAt[s], StartsAt[s])
<1>1. StartsAt[s] \in Int /\ Duration \in Int /\ Duration > 0
  BY ConstantsAssumption, LeadAssumption
<1> QED BY <1>1 DEF Overlap

LEMMA CreateBookingEnters ==
  ASSUME TypedRows, NEW b \in BookingIds, NEW u \in Students,
         NEW s \in Sessions, NEW refundUntil, NEW t,
         BookingEligible(u, s), CreateBooking(b, u, s, refundUntil, t)
  PROVE  EntersOne(b, u, s)
<1>1. /\ bookings[b].state = "NONE"
      /\ bookings'[b] = NewBooking(u, s, refundUntil, 0)
      /\ \A c \in BookingIds \ {b} : bookings'[c] = bookings[c]
      /\ commitments' = commitments \cup {<<u, s, "STUDENT">>}
  BY DEF CreateBooking, FreshBooking, TypedRows, TypeOK
<1>2. Enters(b, u, s)
  BY <1>1 DEF Enters, NewBooking
<1>3. ~Attends(u, s)
  BY DEF BookingEligible, ActiveBookings, Attends
<1> QED BY <1>1, <1>2, <1>3 DEF EntersOne

LEMMA CancelBookingLeaves ==
  ASSUME TypedRows, StudentsMatch, NEW b \in BookingIds, CancelBooking(b)
  PROVE  Leaves({b})
<1>1. PICK R \in SUBSET {b} : Ends({b}, R, "STUDENT_CANCELLATION")
  BY CancelBookingEnds
<1>2. /\ bookings[b].state = "ACTIVE" /\ bookings'[b].state = "ENDED"
      /\ \A c \in BookingIds \ {b} : bookings'[c] = bookings[c]
  BY <1>1 DEF Ends
<1>3. commitments' = commitments \ Released(bookings[b].student,
                                            {bookings[b].session})
  BY DEF CancelBooking
<1>4. \A u \in Users, s \in Sessions :
        <<u, s, "STUDENT">> \in commitments' <=>
          <<u, s, "STUDENT">> \in commitments /\ ~LeavesWith({b}, u, s)
  BY <1>3 DEF Released, LeavesWith
<1> QED BY <1>2, <1>4 DEF Leaves, StudentsMatch, OneActiveBooking

LEMMA RescheduleBookingMoves ==
  ASSUME TypedRows, StudentsMatch, NEW b \in BookingIds, NEW c \in BookingIds,
         NEW s \in Sessions, RescheduleBooking(b, s, c)
  PROVE  Moves(b, c, bookings[b].student, bookings[b].session, s)
<1> DEFINE u == bookings[b].student
           s1 == bookings[b].session
<1>1. /\ bookings[b].state = "ACTIVE" /\ bookings'[b].state = "ENDED"
      /\ bookings[c].state = "NONE"
      /\ \A d \in BookingIds \ {b, c} : bookings'[d] = bookings[d]
  BY RescheduleBookingReplaces DEF Replaces
<1>2. u \in Students /\ s1 \in Sessions
  BY <1>1 DEF TypedRows, RowsNamed
<1>3. Enters(c, u, s)
  <2>1. bookings'[c] = NewBooking(u, s, -1, b)
    BY <1>1 DEF RescheduleBooking, TypedRows, TypeOK
  <2> QED BY <2>1 DEF Enters, NewBooking
<1>4. s # s1 /\ ~ScheduleConflict(u, s, {<<u, s1, "STUDENT">>})
  BY DEF RescheduleBooking
<1>5. ~Attends(u, s)
  <2> SUFFICES ASSUME Attends(u, s) PROVE FALSE
    OBVIOUS
  <2>1. <<u, s, "STUDENT">> \in commitments \ {<<u, s1, "STUDENT">>}
    BY <1>2, <1>4 DEF StudentsMatch, StudentCommitmentsMatch, Users
  <2> QED BY <1>4, <2>1, OverlapReflexive DEF ScheduleConflict
<1>6. commitments' = (commitments \ Released(u, {s1})) \cup {<<u, s, "STUDENT">>}
  BY DEF RescheduleBooking
<1>7. \A v \in Users, x \in Sessions :
        <<v, x, "STUDENT">> \in commitments' <=>
          IF v = u /\ x \in {s1, s} THEN x = s
                                    ELSE <<v, x, "STUDENT">> \in commitments
  <2> HIDE DEF u, s1
  <2> QED BY <1>4, <1>6 DEF Released
<1> QED BY <1>1, <1>3, <1>4, <1>5, <1>7 DEF Moves

LEMMA CancelClassSessionLeaves ==
  ASSUME TypedRows, StudentsMatch, NEW a, NEW s \in Sessions,
         CancelClassSession(a, s)
  PROVE  Leaves(Occupants(s))
<1>1. Ends(Occupants(s), Occupants(s), "CLASS_SESSION_CANCELLATION")
  BY CancelClassSessionEnds
<1>2. commitments' = commitments \ (Users \X {s} \X Roles)
  BY DEF CancelClassSession
<1>3. ASSUME NEW u \in Users, NEW x \in Sessions
      PROVE  <<u, x, "STUDENT">> \in commitments' <=>
               <<u, x, "STUDENT">> \in commitments
                 /\ ~LeavesWith(Occupants(s), u, x)
  <2>1. CASE x = s
    <3>1. <<u, s, "STUDENT">> \notin commitments'
      BY <1>2 DEF Roles
    <3>2. <<u, s, "STUDENT">> \in commitments => LeavesWith(Occupants(s), u, s)
      BY DEF StudentsMatch, StudentCommitmentsMatch, Attends, Occupants,
             LeavesWith
    <3> QED BY <2>1, <3>1, <3>2
  <2>2. CASE x # s
    <3>1. ~LeavesWith(Occupants(s), u, x)
      BY <2>2 DEF Occupants, LeavesWith
    <3> QED BY <1>2, <2>2, <3>1
  <2> QED BY <2>1, <2>2
<1> QED BY <1>1, <1>3 DEF Leaves, Ends, Occupants

LEMMA EndStudentCommitmentsLeaves ==
  ASSUME TypedRows, NEW u \in Users, adjusted' = adjusted,
         NEW reason \in {"USER_SUSPENSION", "ROLE_ASSIGNMENT_REMOVAL"},
         EndStudentCommitments(u, reason)
  PROVE  Leaves(FutureBookings(u))
<1> DEFINE B == FutureBookings(u)
           touched == {s \in Sessions : \E b \in B : bookings[b].session = s}
<1>1. Ends(B, B, reason)
  BY EndStudentCommitmentsEnds
<1>2. commitments' = commitments \ Released(u, touched)
  BY DEF EndStudentCommitments
<1>3. \A b \in B : bookings[b].student = u
  BY DEF FutureBookings
<1>4. \A b \in B, c \in BookingIds :
        /\ bookings[c].state = "ACTIVE"
        /\ bookings[c].student = bookings[b].student
        /\ bookings[c].session = bookings[b].session
        => c \in B
  BY DEF FutureBookings
<1> HIDE DEF B
<1>5. \A v \in Users, x \in Sessions :
        <<v, x, "STUDENT">> \in commitments' <=>
          <<v, x, "STUDENT">> \in commitments /\ ~LeavesWith(B, v, x)
  BY <1>2, <1>3 DEF Released, LeavesWith
<1> QED BY <1>1, <1>4, <1>5 DEF Leaves, Ends, B

LEMMA NextIsStudentStep ==
  TypedRows /\ StudentsMatch /\ [Next]_vars => StudentStep
<1> SUFFICES ASSUME TypedRows, StudentsMatch, [Next]_vars PROVE StudentStep
  OBVIOUS
<1>1. ASSUME UNCHANGED <<bookings, commitments>> PROVE StudentStep
  BY <1>1 DEF StudentStep, SameStudents
<1>2. CASE \E u \in Students : StudentRequest(u)
  <2>1. ASSUME NEW u \in Students, NEW s \in Sessions, NEW b \in BookingIds,
               BookClassSession(u, s, b)
        PROVE  StudentStep
    BY <2>1, CreateBookingEnters DEF BookClassSession, StudentStep
  <2>2. ASSUME NEW b \in BookingIds, CancelBooking(b) PROVE StudentStep
    BY <2>2, CancelBookingLeaves DEF StudentStep
  <2>3. ASSUME NEW b \in BookingIds, NEW c \in BookingIds, NEW s \in Sessions,
               RescheduleBooking(b, s, c)
        PROVE  StudentStep
    <3>1. bookings[b].student \in Students /\ bookings[b].session \in Sessions
      BY <2>3 DEF RescheduleBooking, IsActive, TypedRows, RowsNamed
    <3> QED BY <2>3, <3>1, RescheduleBookingMoves DEF StudentStep
  <2>4. ASSUME NEW u \in Students, StudentRequest(u)
        PROVE  \/ UNCHANGED <<bookings, commitments>>
               \/ \E s \in Sessions, b \in BookingIds : BookClassSession(u, s, b)
               \/ \E b \in BookingIds : CancelBooking(b)
               \/ \E b, c \in BookingIds, s \in Sessions :
                    RescheduleBooking(b, s, c)
    BY <2>4 DEF StudentRequest, JoinWaitlist, WithdrawWaitlist
  <2> QED BY <1>1, <1>2, <2>1, <2>2, <2>3, <2>4
<1>3. CASE \E t \in Teachers : TeacherRequest(t)
  BY <1>1, <1>3 DEF TeacherRequest, ReportAbsence
<1>4. CASE AdministratorRequest
  <2>1. ASSUME NEW s \in Sessions, NEW t \in Teachers, NEW c \in Capacities,
               PublishClassSession(s, t, c)
        PROVE  StudentStep
    BY <2>1 DEF PublishClassSession, StudentStep, SameStudents
  <2>2. ASSUME NEW a \in AbsenceIds, NEW s \in Sessions, NEW t \in Teachers,
               SubstituteTeacher(a, s, t)
        PROVE  StudentStep
    BY <2>2 DEF SubstituteTeacher, TeacherCommitment, StudentStep, SameStudents
  <2>3. ASSUME NEW a \in AbsenceIds, NEW s \in Sessions, CancelClassSession(a, s)
        PROVE  StudentStep
    BY <2>3, CancelClassSessionLeaves DEF StudentStep, Occupants
  <2>4. AdministratorRequest =>
          \/ UNCHANGED <<bookings, commitments>>
          \/ \E s \in Sessions, t \in Teachers, c \in Capacities :
               PublishClassSession(s, t, c)
          \/ \E a \in AbsenceIds, s \in Sessions, t \in Teachers :
               SubstituteTeacher(a, s, t)
          \/ \E a \in AbsenceIds, s \in Sessions : CancelClassSession(a, s)
    BY DEF AdministratorRequest, AdjustClassCredits,
           ChangeClassSessionSeatCapacity
  <2> QED BY <1>1, <1>4, <2>1, <2>2, <2>3, <2>4
<1>5. CASE AccessRequest
  <2>1. ASSUME NEW u \in SuspensionTargets, SuspendUser(u) PROVE StudentStep
    <3>1. Leaves(FutureBookings(u))
      BY <2>1, EndStudentCommitmentsLeaves, ConstantsAssumption DEF SuspendUser
    <3> QED BY <3>1 DEF StudentStep, FutureBookings
  <2>2. ASSUME NEW u \in Students, RemoveStudentRole(u) PROVE StudentStep
    <3>1. Leaves(FutureBookings(u))
      BY <2>2, EndStudentCommitmentsLeaves DEF RemoveStudentRole, Users
    <3> QED BY <3>1 DEF StudentStep, FutureBookings
  <2>3. AccessRequest =>
          \/ UNCHANGED <<bookings, commitments>>
          \/ \E u \in SuspensionTargets : SuspendUser(u)
          \/ \E u \in Students : RemoveStudentRole(u)
    BY DEF AccessRequest, ReactivateUser, GrantRoleAssignment, RemoveTeacherRole
  <2> QED BY <1>1, <1>5, <2>1, <2>2, <2>3
<1>6. CASE WaitlistWorkerStep
  <2>1. ASSUME NEW e \in EntryIds, NEW b \in BookingIds, NEW t \in WorkerClocks,
               PromoteEntry(e, b, t)
        PROVE  StudentStep
    <3>1. entries[e].student \in Students /\ entries[e].session \in Sessions
      BY <2>1 DEF PromoteEntry, TypedRows, RowsNamed
    <3>2. EntersOne(b, entries[e].student, entries[e].session)
      BY <2>1, <3>1, CreateBookingEnters DEF PromoteEntry
    <3> QED BY <3>1, <3>2 DEF StudentStep
  <2>2. WaitlistWorkerStep =>
          \/ UNCHANGED <<bookings, commitments>>
          \/ \E e \in EntryIds, b \in BookingIds, t \in WorkerClocks :
               PromoteEntry(e, b, t)
    BY DEF WaitlistWorkerStep, ExpireEntry, CloseIneligibleEntry,
           MarkRequestProcessed
  <2> QED BY <1>1, <1>6, <2>1, <2>2
<1>7. CASE ReminderWorkerStep \/ Tick \/ UNCHANGED vars
  BY <1>1, <1>7 DEF ReminderWorkerStep, DeliverClassSessionReminder, Tick, vars
<1> QED BY <1>2, <1>3, <1>4, <1>5, <1>6, <1>7 DEF Next

\* What a step does to the sessions and the commitments of Teachers.
SameTeachers ==
  /\ UNCHANGED <<sessionState, teacherOf>>
  /\ \A u \in Users, s \in Sessions :
       <<u, s, "TEACHER">> \in commitments' <=> <<u, s, "TEACHER">> \in commitments

OthersSame(s) ==
  /\ \A x \in Sessions \ {s} : /\ sessionState'[x] = sessionState[x]
                               /\ teacherOf'[x] = teacherOf[x]
  /\ \A u \in Users, x \in Sessions \ {s} :
       <<u, x, "TEACHER">> \in commitments' <=> <<u, x, "TEACHER">> \in commitments

Assigns(s, t) ==
  /\ OthersSame(s)
  /\ sessionState'[s] = "PUBLISHED" /\ teacherOf'[s] = t
  /\ \A u \in Users : <<u, s, "TEACHER">> \in commitments' <=> u = t

CallsOff(s) ==
  /\ OthersSame(s)
  /\ sessionState'[s] = "CANCELLED"
  /\ \A u \in Users : <<u, s, "TEACHER">> \notin commitments'

TeacherStep ==
  \/ SameTeachers
  \/ \E s \in Sessions, t \in Teachers : Assigns(s, t)
  \/ \E s \in Sessions : CallsOff(s)

LEMMA TeacherStepMatches ==
  TeacherCommitmentsMatch /\ TeacherStep => TeacherCommitmentsMatch'
<1> SUFFICES ASSUME TeacherCommitmentsMatch, TeacherStep
             PROVE  TeacherCommitmentsMatch'
  OBVIOUS
<1>1. CASE SameTeachers
  BY <1>1 DEF SameTeachers, TeacherCommitmentsMatch, Teaches
<1>2. ASSUME NEW s \in Sessions, NEW t \in Teachers, Assigns(s, t)
      PROVE  TeacherCommitmentsMatch'
  BY <1>2 DEF Assigns, OthersSame, TeacherCommitmentsMatch, Teaches
<1>3. ASSUME NEW s \in Sessions, CallsOff(s) PROVE TeacherCommitmentsMatch'
  BY <1>3 DEF CallsOff, OthersSame, TeacherCommitmentsMatch, Teaches
<1> QED BY <1>1, <1>2, <1>3 DEF TeacherStep

LEMMA NextIsTeacherStep ==
  TypedRows /\ TeacherCommitmentsMatch /\ [Next]_vars => TeacherStep
<1> SUFFICES ASSUME TypedRows, TeacherCommitmentsMatch, [Next]_vars
             PROVE  TeacherStep
  OBVIOUS
<1>1. ASSUME UNCHANGED <<sessionState, teacherOf, commitments>>
      PROVE  TeacherStep
  BY <1>1 DEF TeacherStep, SameTeachers
<1>2. CASE \E u \in Students : StudentRequest(u)
  <2>1. \E u \in Students :
          \/ UNCHANGED <<sessionState, teacherOf, commitments>>
          \/ \E s \in Sessions, b \in BookingIds : BookClassSession(u, s, b)
          \/ \E b \in BookingIds : CancelBooking(b)
          \/ \E b, c \in BookingIds, s \in Sessions : RescheduleBooking(b, s, c)
    BY <1>2 DEF StudentRequest, JoinWaitlist, WithdrawWaitlist, sessionVars
  <2>2. ASSUME NEW u, NEW s, NEW b, BookClassSession(u, s, b)
        PROVE  TeacherStep
    BY <2>2 DEF BookClassSession, CreateBooking, TeacherStep, SameTeachers
  <2>3. ASSUME NEW b, CancelBooking(b) PROVE TeacherStep
    <3>1. /\ UNCHANGED <<sessionState, teacherOf>>
          /\ \E u, s : commitments' = commitments \ Released(u, {s})
      BY <2>3 DEF CancelBooking
    <3> QED BY <3>1 DEF Released, TeacherStep, SameTeachers
  <2>4. ASSUME NEW b, NEW c, NEW s, RescheduleBooking(b, s, c)
        PROVE  TeacherStep
    <3>1. /\ UNCHANGED <<sessionState, teacherOf>>
          /\ \E u, x : commitments' = (commitments \ Released(u, {x}))
                                         \cup {<<u, s, "STUDENT">>}
      BY <2>4 DEF RescheduleBooking
    <3> QED BY <3>1 DEF Released, TeacherStep, SameTeachers
  <2> QED BY <1>1, <2>1, <2>2, <2>3, <2>4
<1>3. CASE \E t \in Teachers : TeacherRequest(t)
  BY <1>1, <1>3 DEF TeacherRequest, ReportAbsence, sessionVars
<1>4. CASE AdministratorRequest
  <2>1. ASSUME NEW s \in Sessions, NEW t \in Teachers, NEW c \in Capacities,
               PublishClassSession(s, t, c)
        PROVE  TeacherStep
    <3>1. /\ sessionState[s] = "NONE"
          /\ sessionState' = [sessionState EXCEPT ![s] = "PUBLISHED"]
          /\ teacherOf' = [teacherOf EXCEPT ![s] = t]
          /\ commitments' = commitments \cup {<<t, s, "TEACHER">>}
      BY <2>1 DEF PublishClassSession
    <3>2. \A u \in Users : <<u, s, "TEACHER">> \notin commitments
      BY <3>1 DEF TeacherCommitmentsMatch, Teaches
    <3>3. Assigns(s, t)
      BY <3>1, <3>2 DEF Assigns, OthersSame, TypedRows, TypeOK
    <3> QED BY <3>3 DEF TeacherStep
  <2>2. ASSUME NEW a \in AbsenceIds, NEW s \in Sessions, NEW t \in Teachers,
               SubstituteTeacher(a, s, t)
        PROVE  TeacherStep
    <3>1. /\ sessionState[s] = "PUBLISHED" /\ UNCHANGED sessionState
          /\ teacherOf' = [teacherOf EXCEPT ![s] = t]
          /\ commitments' = (commitments \ TeacherCommitment(s))
                              \cup {<<t, s, "TEACHER">>}
      BY <2>2 DEF SubstituteTeacher, ReplacementAccepted, Disrupted
    <3>2. Assigns(s, t)
      BY <3>1 DEF Assigns, OthersSame, TeacherCommitment, TypedRows, TypeOK
    <3> QED BY <3>2 DEF TeacherStep
  <2>3. ASSUME NEW a \in AbsenceIds, NEW s \in Sessions, CancelClassSession(a, s)
        PROVE  TeacherStep
    <3>1. /\ sessionState' = [sessionState EXCEPT ![s] = "CANCELLED"]
          /\ UNCHANGED teacherOf
          /\ commitments' = commitments \ (Users \X {s} \X Roles)
      BY <2>3 DEF CancelClassSession
    <3>2. CallsOff(s)
      BY <3>1 DEF CallsOff, OthersSame, Roles, TypedRows, TypeOK
    <3> QED BY <3>2 DEF TeacherStep
  <2>4. AdministratorRequest =>
          \/ UNCHANGED <<sessionState, teacherOf, commitments>>
          \/ \E s \in Sessions, t \in Teachers, c \in Capacities :
               PublishClassSession(s, t, c)
          \/ \E a \in AbsenceIds, s \in Sessions, t \in Teachers :
               SubstituteTeacher(a, s, t)
          \/ \E a \in AbsenceIds, s \in Sessions : CancelClassSession(a, s)
    BY DEF AdministratorRequest, AdjustClassCredits,
           ChangeClassSessionSeatCapacity, sessionVars
  <2> QED BY <1>1, <1>4, <2>1, <2>2, <2>3, <2>4
<1>5. CASE AccessRequest
  <2>1. ASSUME NEW u, NEW reason, EndStudentCommitments(u, reason),
               UNCHANGED <<sessionState, teacherOf>>
        PROVE  TeacherStep
    <3>1. \E S : commitments' = commitments \ Released(u, S)
      BY <2>1 DEF EndStudentCommitments
    <3> QED BY <2>1, <3>1 DEF Released, TeacherStep, SameTeachers
  <2>2. AccessRequest =>
          \/ UNCHANGED <<sessionState, teacherOf, commitments>>
          \/ /\ UNCHANGED <<sessionState, teacherOf>>
             /\ \E u, reason : EndStudentCommitments(u, reason)
    BY DEF AccessRequest, SuspendUser, RemoveStudentRole, ReactivateUser,
           GrantRoleAssignment, RemoveTeacherRole, sessionVars
  <2> QED BY <1>1, <1>5, <2>1, <2>2
<1>6. CASE WaitlistWorkerStep
  <2>1. ASSUME NEW e, NEW b, NEW t, PromoteEntry(e, b, t)
        PROVE  TeacherStep
    BY <2>1 DEF PromoteEntry, CreateBooking, TeacherStep, SameTeachers
  <2>2. WaitlistWorkerStep =>
          \/ UNCHANGED <<sessionState, teacherOf, commitments>>
          \/ \E e \in EntryIds, b \in BookingIds, t \in WorkerClocks :
               PromoteEntry(e, b, t)
    BY DEF WaitlistWorkerStep, ExpireEntry, CloseIneligibleEntry,
           MarkRequestProcessed, sessionVars
  <2> QED BY <1>1, <1>6, <2>1, <2>2
<1>7. CASE ReminderWorkerStep \/ Tick \/ UNCHANGED vars
  BY <1>1, <1>7
     DEF ReminderWorkerStep, DeliverClassSessionReminder, Tick, vars, sessionVars
<1> QED BY <1>2, <1>3, <1>4, <1>5, <1>6, <1>7 DEF Next

----------------------------------------------------------------------------
(* Reminders.  A step adds a commitment and opens its reminder, gives      *)
(* commitments up and suppresses theirs, or does one after the other.      *)

LEMMA AddedReminder ==
  ASSUME TypedRows, RemindersFollowCommitments, now' = now,
         NEW k0 \in Commitments, NEW t \in Nat, t <= now,
         commitments' = commitments \cup {k0},
         reminders' = OpenReminder(reminders, k0, t)
  PROVE  RemindersFollowCommitments'
<1> SUFFICES ASSUME NEW k \in Commitments
             PROVE  /\ k \in commitments' /\ ReminderDueAt(StartsAt[k[2]]) > now
                         => reminders'[k] = "OPEN"
                    /\ reminders'[k] = "OPEN" => k \in commitments'
  BY DEF RemindersFollowCommitments
<1>1. reminders'[k] =
        IF k = k0 /\ ReminderDueAt(StartsAt[k0[2]]) > t THEN "OPEN"
                                                        ELSE reminders[k]
  BY DEF OpenReminder, TypedRows, TypeOK
<1>2. ReminderDueAt(StartsAt[k[2]]) > now => ReminderDueAt(StartsAt[k[2]]) > t
  <2>1. k[2] \in Sessions
    BY DEF Commitments
  <2> QED BY <2>1, ConstantsAssumption, LeadAssumption
          DEF ReminderDueAt, TypedRows, TypeOK
<1> QED BY <1>1, <1>2 DEF RemindersFollowCommitments

LEMMA RemovedReminders ==
  ASSUME TypedRows, RemindersFollowCommitments, now' = now,
         NEW K, NEW K2, K \subseteq K2,
         commitments' = commitments \ K,
         \A k \in K2 : k \notin commitments',
         reminders' = SuppressReminders(reminders, K2)
  PROVE  RemindersFollowCommitments'
<1> SUFFICES ASSUME NEW k \in Commitments
             PROVE  /\ k \in commitments' /\ ReminderDueAt(StartsAt[k[2]]) > now
                         => reminders'[k] = "OPEN"
                    /\ reminders'[k] = "OPEN" => k \in commitments'
  BY DEF RemindersFollowCommitments
<1>1. reminders'[k] = IF k \in K2 /\ reminders[k] = "OPEN" THEN "SUPPRESSED"
                                                           ELSE reminders[k]
  BY DEF SuppressReminders
<1> QED BY <1>1 DEF RemindersFollowCommitments

LEMMA ReplacedReminder ==
  ASSUME TypedRows, RemindersFollowCommitments, now' = now,
         NEW K, NEW k0 \in Commitments,
         commitments' = (commitments \ K) \cup {k0},
         reminders' = OpenReminder(SuppressReminders(reminders, K), k0, now)
  PROVE  RemindersFollowCommitments'
<1> SUFFICES ASSUME NEW k \in Commitments
             PROVE  /\ k \in commitments' /\ ReminderDueAt(StartsAt[k[2]]) > now
                         => reminders'[k] = "OPEN"
                    /\ reminders'[k] = "OPEN" => k \in commitments'
  BY DEF RemindersFollowCommitments
<1>1. reminders'[k] =
        IF k = k0 /\ ReminderDueAt(StartsAt[k0[2]]) > now THEN "OPEN"
        ELSE IF k \in K /\ reminders[k] = "OPEN" THEN "SUPPRESSED"
        ELSE reminders[k]
  BY DEF OpenReminder, SuppressReminders
<1> QED BY <1>1 DEF RemindersFollowCommitments

\* Nobody teaches a session they attend: their suspension suppresses no
\* reminder of a session they teach.
LEMMA CleanupReminders ==
  ASSUME TypedRows, StudentsMatch, NoDoubleCommitment,
         RemindersFollowCommitments, now' = now,
         NEW u \in Users, NEW reason, EndStudentCommitments(u, reason)
  PROVE  RemindersFollowCommitments'
<1> DEFINE touched == {s \in Sessions : \E b \in FutureBookings(u) :
                                          bookings[b].session = s}
           K == Released(u, touched)
           K2 == {u} \X touched \X Roles
<1>1. /\ commitments' = commitments \ K
      /\ reminders' = SuppressReminders(reminders, K2)
  BY DEF EndStudentCommitments
<1>2. K \subseteq K2
  BY DEF Released, Roles
<1>3. \A s \in touched : <<u, s, "STUDENT">> \in commitments
  BY DEF FutureBookings, Attends, StudentsMatch, StudentCommitmentsMatch
<1>4. \A s \in touched : <<u, s, "TEACHER">> \notin commitments
  <2> SUFFICES ASSUME NEW s \in touched, <<u, s, "TEACHER">> \in commitments
               PROVE  FALSE
    OBVIOUS
  <2>1. <<u, s, "TEACHER">> # <<u, s, "STUDENT">>
    OBVIOUS
  <2>2. ~Overlap(StartsAt[s], StartsAt[s])
    BY <1>3, <2>1 DEF NoDoubleCommitment
  <2> QED BY <2>2, OverlapReflexive
<1>5. \A k \in K2 : k \notin commitments'
  BY <1>1, <1>4 DEF Released, Roles
<1> HIDE DEF K, K2
<1> QED BY <1>1, <1>2, <1>5, RemovedReminders

LEMMA StepReminders ==
  /\ TypedRows /\ StudentsMatch /\ NoDoubleCommitment
  /\ RemindersFollowCommitments /\ [Next]_vars
  => RemindersFollowCommitments'
<1> SUFFICES ASSUME TypedRows, StudentsMatch, NoDoubleCommitment,
                    RemindersFollowCommitments, [Next]_vars
             PROVE  RemindersFollowCommitments'
  OBVIOUS
<1>1. ASSUME UNCHANGED <<now, commitments, reminders>>
      PROVE  RemindersFollowCommitments'
  BY <1>1 DEF RemindersFollowCommitments
<1>2. now \in Nat
  BY ConstantsAssumption DEF TypedRows, TypeOK
<1>3. CASE \E u \in Students : StudentRequest(u)
  <2>1. ASSUME NEW u \in Students, NEW s \in Sessions, NEW b \in BookingIds,
               BookClassSession(u, s, b)
        PROVE  RemindersFollowCommitments'
    <3>1. /\ now' = now
          /\ commitments' = commitments \cup {<<u, s, "STUDENT">>}
          /\ reminders' = OpenReminder(reminders, <<u, s, "STUDENT">>, now)
      BY <2>1 DEF BookClassSession, CreateBooking
    <3>2. <<u, s, "STUDENT">> \in Commitments
      BY DEF Commitments, Users, Roles
    <3> QED BY <1>2, <3>1, <3>2, AddedReminder
  <2>2. ASSUME NEW b \in BookingIds, CancelBooking(b)
        PROVE  RemindersFollowCommitments'
    <3> DEFINE k0 == <<bookings[b].student, bookings[b].session, "STUDENT">>
    <3>1. /\ now' = now /\ commitments' = commitments \ {k0}
          /\ reminders' = SuppressReminders(reminders, {k0})
      BY <2>2 DEF CancelBooking, Released
    <3> HIDE DEF k0
    <3> QED BY <3>1, RemovedReminders
  <2>3. ASSUME NEW b \in BookingIds, NEW c \in BookingIds, NEW s \in Sessions,
               RescheduleBooking(b, s, c)
        PROVE  RemindersFollowCommitments'
    <3> DEFINE u == bookings[b].student
               k1 == <<u, bookings[b].session, "STUDENT">>
               k2 == <<u, s, "STUDENT">>
    <3>1. /\ now' = now /\ commitments' = (commitments \ {k1}) \cup {k2}
          /\ reminders' =
               OpenReminder(SuppressReminders(reminders, {k1}), k2, now)
      BY <2>3 DEF RescheduleBooking, Released
    <3>2. k2 \in Commitments
      BY <2>3 DEF RescheduleBooking, IsActive, TypedRows, RowsNamed,
                  Commitments, Users, Roles
    <3> HIDE DEF k1, k2
    <3> QED BY <3>1, <3>2, ReplacedReminder
  <2>4. \E u \in Students :
          \/ UNCHANGED <<now, commitments, reminders>>
          \/ \E s \in Sessions, b \in BookingIds : BookClassSession(u, s, b)
          \/ \E b \in BookingIds : CancelBooking(b)
          \/ \E b, c \in BookingIds, s \in Sessions : RescheduleBooking(b, s, c)
    BY <1>3 DEF StudentRequest, JoinWaitlist, WithdrawWaitlist
  <2> QED BY <1>1, <2>1, <2>2, <2>3, <2>4
<1>4. CASE \E t \in Teachers : TeacherRequest(t)
  BY <1>1, <1>4 DEF TeacherRequest, ReportAbsence
<1>5. CASE AdministratorRequest
  <2>1. ASSUME NEW s \in Sessions, NEW t \in Teachers, NEW c \in Capacities,
               PublishClassSession(s, t, c)
        PROVE  RemindersFollowCommitments'
    <3>1. /\ now' = now
          /\ commitments' = commitments \cup {<<t, s, "TEACHER">>}
          /\ reminders' = OpenReminder(reminders, <<t, s, "TEACHER">>, now)
      BY <2>1 DEF PublishClassSession
    <3>2. <<t, s, "TEACHER">> \in Commitments
      BY DEF Commitments, Users, Roles
    <3> QED BY <1>2, <3>1, <3>2, AddedReminder
  <2>2. ASSUME NEW a \in AbsenceIds, NEW s \in Sessions, NEW t \in Teachers,
               SubstituteTeacher(a, s, t)
        PROVE  RemindersFollowCommitments'
    <3>1. /\ now' = now
          /\ commitments' = (commitments \ TeacherCommitment(s))
                              \cup {<<t, s, "TEACHER">>}
          /\ reminders' = OpenReminder(
                            SuppressReminders(reminders, TeacherCommitment(s)),
                            <<t, s, "TEACHER">>, now)
      BY <2>2 DEF SubstituteTeacher
    <3>2. <<t, s, "TEACHER">> \in Commitments
      BY DEF Commitments, Users, Roles
    <3> QED BY <3>1, <3>2, ReplacedReminder
  <2>3. ASSUME NEW a \in AbsenceIds, NEW s \in Sessions, CancelClassSession(a, s)
        PROVE  RemindersFollowCommitments'
    <3> DEFINE K == Users \X {s} \X Roles
    <3>1. /\ now' = now /\ commitments' = commitments \ K
          /\ reminders' = SuppressReminders(reminders, K)
      BY <2>3 DEF CancelClassSession
    <3> HIDE DEF K
    <3> QED BY <3>1, RemovedReminders
  <2>4. AdministratorRequest =>
          \/ UNCHANGED <<now, commitments, reminders>>
          \/ \E s \in Sessions, t \in Teachers, c \in Capacities :
               PublishClassSession(s, t, c)
          \/ \E a \in AbsenceIds, s \in Sessions, t \in Teachers :
               SubstituteTeacher(a, s, t)
          \/ \E a \in AbsenceIds, s \in Sessions : CancelClassSession(a, s)
    BY DEF AdministratorRequest, AdjustClassCredits,
           ChangeClassSessionSeatCapacity
  <2> QED BY <1>1, <1>5, <2>1, <2>2, <2>3, <2>4
<1>6. CASE AccessRequest
  <2>1. AccessRequest =>
          \/ UNCHANGED <<now, commitments, reminders>>
          \/ \E u \in SuspensionTargets : SuspendUser(u)
          \/ \E u \in Students : RemoveStudentRole(u)
    BY DEF AccessRequest, ReactivateUser, GrantRoleAssignment, RemoveTeacherRole
  <2>2. ASSUME NEW u \in SuspensionTargets, SuspendUser(u)
        PROVE  RemindersFollowCommitments'
    BY <2>2, CleanupReminders, ConstantsAssumption DEF SuspendUser
  <2>3. ASSUME NEW u \in Students, RemoveStudentRole(u)
        PROVE  RemindersFollowCommitments'
    BY <2>3, CleanupReminders DEF RemoveStudentRole, Users
  <2> QED BY <1>1, <1>6, <2>1, <2>2, <2>3
<1>7. CASE WaitlistWorkerStep
  <2>1. ASSUME NEW e \in EntryIds, NEW b \in BookingIds, NEW t \in WorkerClocks,
               PromoteEntry(e, b, t)
        PROVE  RemindersFollowCommitments'
    <3> DEFINE k0 == <<entries[e].student, entries[e].session, "STUDENT">>
    <3>1. /\ now' = now /\ commitments' = commitments \cup {k0}
          /\ reminders' = OpenReminder(reminders, k0, t)
      BY <2>1 DEF PromoteEntry, CreateBooking
    <3>2. k0 \in Commitments
      BY <2>1 DEF PromoteEntry, TypedRows, RowsNamed, Commitments, Users, Roles
    <3>3. t \in Nat /\ t <= now
      BY <1>2 DEF WorkerClocks
    <3> HIDE DEF k0
    <3> QED BY <3>1, <3>2, <3>3, AddedReminder
  <2>2. WaitlistWorkerStep =>
          \/ UNCHANGED <<now, commitments, reminders>>
          \/ \E e \in EntryIds, b \in BookingIds, t \in WorkerClocks :
               PromoteEntry(e, b, t)
    BY DEF WaitlistWorkerStep, ExpireEntry, CloseIneligibleEntry,
           MarkRequestProcessed
  <2> QED BY <1>1, <1>7, <2>1, <2>2
<1>8. CASE ReminderWorkerStep
  <2>1. PICK k \in Commitments, t \in WorkerClocks :
               DeliverClassSessionReminder(k, t)
    BY <1>8 DEF ReminderWorkerStep
  <2>2. /\ UNCHANGED <<now, commitments>>
        /\ reminders'[k] # "OPEN"
        /\ \A c \in Commitments \ {k} : reminders'[c] = reminders[c]
        /\ ReminderDueAt(StartsAt[k[2]]) <= t
    BY <2>1 DEF DeliverClassSessionReminder, TypedRows, TypeOK
  <2>3. ~(ReminderDueAt(StartsAt[k[2]]) > now)
    <3>1. k[2] \in Sessions /\ t \in Nat /\ t <= now
      BY <1>2 DEF Commitments, WorkerClocks
    <3> QED BY <1>2, <2>2, <3>1, ConstantsAssumption, LeadAssumption
            DEF ReminderDueAt
  <2> QED BY <2>2, <2>3 DEF RemindersFollowCommitments
<1>9. CASE Tick
  <2>1. now' = now + 1 /\ UNCHANGED <<commitments, reminders>>
    BY <1>9 DEF Tick
  <2>2. \A k \in Commitments :
          ReminderDueAt(StartsAt[k[2]]) > now' => ReminderDueAt(StartsAt[k[2]]) > now
    BY <1>2, <2>1, ConstantsAssumption, LeadAssumption
       DEF Commitments, ReminderDueAt
  <2> QED BY <2>1, <2>2 DEF RemindersFollowCommitments
<1>10. CASE UNCHANGED vars
  BY <1>1, <1>10 DEF vars
<1> QED BY <1>3, <1>4, <1>5, <1>6, <1>7, <1>8, <1>9, <1>10 DEF Next

LEMMA CommitmentsMatchParts ==
  ASSUME TypedRows, StudentsMatch, TeacherCommitmentsMatch
  PROVE  CommitmentsMatch
<1> SUFFICES ASSUME NEW u \in Users, NEW s \in Sessions, NEW role \in Roles
             PROVE  <<u, s, role>> \in commitments <=>
                      IF role = "STUDENT"
                      THEN u \in Students /\ ActiveBookings(u, s) # {}
                      ELSE sessionState[s] = "PUBLISHED" /\ teacherOf[s] = u
  BY DEF CommitmentsMatch, Commitments
<1>1. CASE role = "STUDENT"
  <2>1. Attends(u, s) <=> u \in Students /\ ActiveBookings(u, s) # {}
    BY DEF Attends, ActiveBookings, TypedRows, RowsNamed
  <2> QED BY <1>1, <2>1 DEF StudentsMatch, StudentCommitmentsMatch
<1>2. CASE role = "TEACHER"
  BY <1>2 DEF TeacherCommitmentsMatch, Teaches
<1> QED BY <1>1, <1>2 DEF Roles

CommitmentInvariant ==
  /\ HistoryInvariant /\ NoDoubleCommitment
  /\ StudentsMatch /\ TeacherCommitmentsMatch
  /\ RemindersFollowCommitments /\ AbsencesAreConsistent

LEMMA StepCommitments ==
  CommitmentInvariant /\ [Next]_vars => CommitmentInvariant'
<1> SUFFICES ASSUME CommitmentInvariant, [Next]_vars PROVE CommitmentInvariant'
  OBVIOUS
<1>1. TypedRows
  BY DEF CommitmentInvariant, HistoryInvariant, SeatsInvariant
<1>2. HistoryInvariant' /\ NoDoubleCommitment'
  BY <1>1, StepHistory, StepNoDoubleCommitment DEF CommitmentInvariant
<1>3. StudentsMatch'
  BY <1>1, NextIsStudentStep, StudentStepMatches DEF CommitmentInvariant
<1>4. TeacherCommitmentsMatch'
  BY <1>1, NextIsTeacherStep, TeacherStepMatches DEF CommitmentInvariant
<1>5. RemindersFollowCommitments'
  BY <1>1, StepReminders DEF CommitmentInvariant
<1>6. AbsencesAreConsistent'
  BY <1>1, StepDisruptions DEF CommitmentInvariant
<1> QED BY <1>2, <1>3, <1>4, <1>5, <1>6 DEF CommitmentInvariant

LEMMA InitCommitments == Init => CommitmentInvariant
<1> SUFFICES ASSUME Init PROVE CommitmentInvariant
  OBVIOUS
<1>1. NoDoubleCommitment
  BY DEF Init, NoDoubleCommitment
<1>2. \A u \in Users, s \in Sessions : ~Attends(u, s) /\ ~Teaches(u, s)
  BY DEF Init, Attends, Teaches, NoBooking
<1>3. StudentsMatch /\ TeacherCommitmentsMatch
  BY <1>2 DEF Init, StudentsMatch, OneActiveBooking, StudentCommitmentsMatch,
              TeacherCommitmentsMatch, NoBooking
<1>4. RemindersFollowCommitments /\ AbsencesAreConsistent
  BY DEF Init, RemindersFollowCommitments, AbsencesAreConsistent, NoAbsence
<1> QED BY <1>1, <1>3, <1>4, InitHistory DEF CommitmentInvariant

(* The tables that follow agree with what they follow: commitments with    *)
(* the active Bookings and the assigned Teachers, reminders with the       *)
(* commitments, and disruptions with the sessions they are about.          *)
THEOREM CommitmentsAreAlwaysKept == Spec => []CommitmentsAreKept
<1>1. CommitmentInvariant => CommitmentsAreKept
  BY CommitmentsMatchParts
     DEF CommitmentInvariant, HistoryInvariant, SeatsInvariant, CommitmentsAreKept
<1> QED BY <1>1, InitCommitments, StepCommitments, PTL DEF Spec

----------------------------------------------------------------------------
(* Cleanups.  What a session or a User no longer holds can only come back  *)
(* by a new entry or a new Booking, which both look at what was cleaned.   *)

NoneWaitsForCancelled ==
  \A e \in EntryIds : entries[e].state = "ACTIVE" =>
    sessionState[entries[e].session] # "CANCELLED"

CancelledIsRecorded ==
  \A s \in Sessions : sessionState[s] = "CANCELLED" =>
    \E a \in AbsenceIds : absences[a].rows[s] = "CLASS_SESSION_CANCELLATION"

SuspendedWaitForNothing ==
  \A e \in EntryIds : entries[e].state = "ACTIVE" =>
    accessStatus[entries[e].student] = "ACTIVE"

SuspendedAttendNothing ==
  \A b \in BookingIds :
    bookings[b].state = "ACTIVE" /\ StartsAt[bookings[b].session] > now =>
      accessStatus[bookings[b].student] = "ACTIVE"

CleanupInvariant ==
  /\ CommitmentInvariant
  /\ NoneWaitsForCancelled /\ CancelledIsRecorded
  /\ SuspendedWaitForNothing /\ SuspendedAttendNothing
  /\ FutureTeachersHoldRole

\* A new entry, and a new Booking.
Joins(e) ==
  /\ UNCHANGED <<sessionState, accessStatus>>
  /\ sessionState[entries'[e].session] = "PUBLISHED"
  /\ accessStatus[entries'[e].student] = "ACTIVE"

Attains(b) ==
  /\ UNCHANGED accessStatus
  /\ accessStatus[bookings'[b].student] = "ACTIVE"

EntriesClose ==
  \A e \in EntryIds : entries'[e].state = "ACTIVE" =>
    entries'[e] = entries[e] \/ Joins(e)

BookingsEnd ==
  \A b \in BookingIds : bookings'[b].state = "ACTIVE" =>
    bookings'[b] = bookings[b] \/ Attains(b)

LEMMA EntriesCloseHere ==
  ASSUME NEW E \in SUBSET EntryIds, entries' = CloseEntries(E), TypedRows
  PROVE  /\ EntriesClose
         /\ \A e \in E : entries'[e].state # "ACTIVE"
<1>1. \A e \in E : entries'[e] = [entries[e] EXCEPT !.state = "INELIGIBLE"]
  BY DEF CloseEntries
<1>2. \A e \in EntryIds : entries[e] \in Entry
  BY DEF TypedRows, TypeOK
<1>3. \A e \in E : entries'[e].state = "INELIGIBLE"
  BY <1>1, <1>2 DEF Entry
<1>4. \A e \in EntryIds \ E : entries'[e] = entries[e]
  BY DEF CloseEntries
<1> QED BY <1>3, <1>4 DEF EntriesClose

LEMMA OneEntryCloses ==
  ASSUME TypedRows, NEW e \in EntryIds,
         \A d \in EntryIds \ {e} : entries'[d] = entries[d],
         entries'[e].state # "ACTIVE"
  PROVE  EntriesClose
BY DEF EntriesClose

LEMMA NextEntriesClose == TypedRows /\ [Next]_vars => EntriesClose
<1> SUFFICES ASSUME TypedRows, [Next]_vars PROVE EntriesClose
  OBVIOUS
<1>1. ASSUME UNCHANGED entries PROVE EntriesClose
  BY <1>1 DEF EntriesClose
<1>2. entries \in [EntryIds -> Entry]
  BY DEF TypedRows, TypeOK
<1>3. ASSUME NEW e \in EntryIds,
             NEW state \in {"WITHDRAWN", "EXPIRED", "INELIGIBLE"},
             entries' = [entries EXCEPT ![e].state = state]
      PROVE  EntriesClose
  <2>1. entries'[e].state = state
    BY <1>2, <1>3 DEF Entry
  <2> QED BY <1>2, <1>3, <2>1, OneEntryCloses
<1>4. CASE \E u \in Students : StudentRequest(u)
  <2>1. ASSUME NEW u \in Students, NEW s \in Sessions, NEW e \in EntryIds,
               JoinWaitlist(u, s, e)
        PROVE  EntriesClose
    <3>1. /\ accessStatus[u] = "ACTIVE" /\ sessionState[s] = "PUBLISHED"
          /\ UNCHANGED <<sessionState, accessStatus>>
          /\ entries'[e].student = u /\ entries'[e].session = s
          /\ \A d \in EntryIds \ {e} : entries'[d] = entries[d]
      BY <1>2, <2>1 DEF JoinWaitlist, ActorIsActive, sessionVars, accessVars
    <3> QED BY <3>1 DEF EntriesClose, Joins
  <2>2. ASSUME NEW e \in EntryIds, WithdrawWaitlist(e) PROVE EntriesClose
    BY <1>3, <2>2 DEF WithdrawWaitlist
  <2>3. \/ UNCHANGED entries
        \/ \E u \in Students, s \in Sessions, e \in EntryIds : JoinWaitlist(u, s, e)
        \/ \E e \in EntryIds : WithdrawWaitlist(e)
    BY <1>4, ZenonT(30) DEF StudentRequest, BookClassSession, CancelBooking,
                RescheduleBooking
  <2> QED BY <1>1, <2>1, <2>2, <2>3
<1>5. CASE \E t \in Teachers : TeacherRequest(t)
  BY <1>1, <1>5 DEF TeacherRequest, ReportAbsence
<1>6. CASE AdministratorRequest
  <2>1. ASSUME NEW a, NEW s, CancelClassSession(a, s) PROVE EntriesClose
    BY <2>1, EntriesCloseHere DEF CancelClassSession, ActiveEntries
  <2>2. UNCHANGED entries \/ \E a, s : CancelClassSession(a, s)
    BY <1>6 DEF AdministratorRequest, PublishClassSession, AdjustClassCredits,
                ChangeClassSessionSeatCapacity, SubstituteTeacher
  <2> QED BY <1>1, <2>1, <2>2
<1>7. CASE AccessRequest
  <2>1. ASSUME NEW u, NEW reason, EndStudentCommitments(u, reason)
        PROVE  EntriesClose
    BY <2>1, EntriesCloseHere DEF EndStudentCommitments, ActiveEntries
  <2>2. UNCHANGED entries \/ \E u, reason : EndStudentCommitments(u, reason)
    BY <1>7 DEF AccessRequest, SuspendUser, RemoveStudentRole, ReactivateUser,
                GrantRoleAssignment, RemoveTeacherRole
  <2> QED BY <1>1, <2>1, <2>2
<1>8. CASE WaitlistWorkerStep
  <2>1. ASSUME NEW e \in EntryIds, NEW t, ExpireEntry(e, t) PROVE EntriesClose
    BY <1>3, <2>1 DEF ExpireEntry
  <2>2. ASSUME NEW e \in EntryIds, NEW t, CloseIneligibleEntry(e, t)
        PROVE  EntriesClose
    BY <1>3, <2>2 DEF CloseIneligibleEntry
  <2>3. ASSUME NEW e \in EntryIds, NEW b \in BookingIds, NEW t,
               PromoteEntry(e, b, t)
        PROVE  EntriesClose
    <3> DEFINE promoted == [entries[e] EXCEPT !.state = "PROMOTED"]
    <3>1. promoted \in Entry /\ promoted.state = "PROMOTED"
      BY <1>2 DEF Entry
    <3>2. /\ entries'[e] = [promoted EXCEPT !.booking = b]
          /\ \A d \in EntryIds \ {e} : entries'[d] = entries[d]
      BY <1>2, <2>3 DEF PromoteEntry
    <3> HIDE DEF promoted
    <3>3. entries'[e].state = "PROMOTED"
      BY <3>1, <3>2 DEF Entry
    <3> QED BY <3>2, <3>3, OneEntryCloses
  <2>4. \/ UNCHANGED entries
        \/ \E e \in EntryIds, t \in WorkerClocks : ExpireEntry(e, t)
        \/ \E e \in EntryIds, t \in WorkerClocks : CloseIneligibleEntry(e, t)
        \/ \E e \in EntryIds, b \in BookingIds, t \in WorkerClocks :
             PromoteEntry(e, b, t)
    BY <1>8 DEF WaitlistWorkerStep, MarkRequestProcessed
  <2> QED BY <1>1, <2>1, <2>2, <2>3, <2>4
<1>9. CASE ReminderWorkerStep \/ Tick \/ UNCHANGED vars
  BY <1>1, <1>9 DEF ReminderWorkerStep, DeliverClassSessionReminder, Tick, vars
<1> QED BY <1>4, <1>5, <1>6, <1>7, <1>8, <1>9 DEF Next

LEMMA EndsOnlyEnds ==
  ASSUME NEW B \in SUBSET BookingIds, Leaves(B) PROVE BookingsEnd
BY DEF Leaves, BookingsEnd

LEMMA NextBookingsEnd ==
  TypedRows /\ StudentsMatch /\ SuspendedWaitForNothing /\ [Next]_vars
    => BookingsEnd
<1> SUFFICES ASSUME TypedRows, StudentsMatch, SuspendedWaitForNothing, [Next]_vars
             PROVE  BookingsEnd
  OBVIOUS
<1>1. ASSUME UNCHANGED bookings PROVE BookingsEnd
  BY <1>1 DEF BookingsEnd
<1>2. CASE \E u \in Students : StudentRequest(u)
  <2>1. ASSUME NEW u \in Students, NEW s \in Sessions, NEW b \in BookingIds,
               BookClassSession(u, s, b)
        PROVE  BookingsEnd
    <3>1. EntersOne(b, u, s)
      BY <2>1, CreateBookingEnters DEF BookClassSession
    <3>2. Attains(b)
      BY <2>1, <3>1 DEF BookClassSession, ActorIsActive, accessVars, EntersOne,
                        Enters, Attains
    <3> QED BY <3>1, <3>2 DEF EntersOne, BookingsEnd
  <2>2. ASSUME NEW b \in BookingIds, CancelBooking(b) PROVE BookingsEnd
    BY <2>2, CancelBookingLeaves, EndsOnlyEnds
  <2>3. ASSUME NEW b \in BookingIds, NEW c \in BookingIds, NEW s \in Sessions,
               RescheduleBooking(b, s, c)
        PROVE  BookingsEnd
    <3> DEFINE u == bookings[b].student
    <3>1. Moves(b, c, u, bookings[b].session, s)
      BY <2>3, RescheduleBookingMoves
    <3>2. accessStatus[u] = "ACTIVE" /\ UNCHANGED accessStatus
      BY <2>3 DEF RescheduleBooking, ActorIsActive, accessVars
    <3> HIDE DEF u
    <3>3. Attains(c)
      BY <3>1, <3>2 DEF Moves, Enters, Attains
    <3> QED BY <3>1, <3>3 DEF Moves, BookingsEnd
  <2>4. \E u \in Students :
          \/ UNCHANGED bookings
          \/ \E s \in Sessions, b \in BookingIds : BookClassSession(u, s, b)
          \/ \E b \in BookingIds : CancelBooking(b)
          \/ \E b, c \in BookingIds, s \in Sessions : RescheduleBooking(b, s, c)
    BY <1>2 DEF StudentRequest, JoinWaitlist, WithdrawWaitlist
  <2> QED BY <1>1, <2>1, <2>2, <2>3, <2>4
<1>3. CASE \E t \in Teachers : TeacherRequest(t)
  BY <1>1, <1>3 DEF TeacherRequest, ReportAbsence
<1>4. CASE AdministratorRequest
  <2>1. ASSUME NEW a, NEW s \in Sessions, CancelClassSession(a, s)
        PROVE  BookingsEnd
    BY <2>1, CancelClassSessionLeaves, EndsOnlyEnds DEF Occupants
  <2>2. \/ UNCHANGED bookings
        \/ \E a \in AbsenceIds, s \in Sessions : CancelClassSession(a, s)
    BY <1>4 DEF AdministratorRequest, PublishClassSession, AdjustClassCredits,
                ChangeClassSessionSeatCapacity, SubstituteTeacher
  <2> QED BY <1>1, <2>1, <2>2
<1>5. CASE AccessRequest
  <2>1. ASSUME NEW u \in SuspensionTargets, SuspendUser(u) PROVE BookingsEnd
    BY <2>1, EndStudentCommitmentsLeaves, EndsOnlyEnds, ConstantsAssumption
       DEF SuspendUser, FutureBookings
  <2>2. ASSUME NEW u \in Students, RemoveStudentRole(u) PROVE BookingsEnd
    BY <2>2, EndStudentCommitmentsLeaves, EndsOnlyEnds
       DEF RemoveStudentRole, FutureBookings, Users
  <2>3. \/ UNCHANGED bookings
        \/ \E u \in SuspensionTargets : SuspendUser(u)
        \/ \E u \in Students : RemoveStudentRole(u)
    BY <1>5 DEF AccessRequest, ReactivateUser, GrantRoleAssignment,
                RemoveTeacherRole
  <2> QED BY <1>1, <2>1, <2>2, <2>3
<1>6. CASE WaitlistWorkerStep
  <2>1. ASSUME NEW e \in EntryIds, NEW b \in BookingIds, NEW t \in WorkerClocks,
               PromoteEntry(e, b, t)
        PROVE  BookingsEnd
    <3> DEFINE u == entries[e].student
    <3>1. u \in Students /\ entries[e].session \in Sessions
      BY <2>1 DEF PromoteEntry, TypedRows, RowsNamed
    <3>2. EntersOne(b, u, entries[e].session)
      BY <2>1, <3>1, CreateBookingEnters DEF PromoteEntry
    <3>3. accessStatus[u] = "ACTIVE" /\ UNCHANGED accessStatus
      BY <2>1 DEF PromoteEntry, SuspendedWaitForNothing, accessVars
    <3> HIDE DEF u
    <3>4. Attains(b)
      BY <3>2, <3>3 DEF EntersOne, Enters, Attains
    <3> QED BY <3>2, <3>4 DEF EntersOne, BookingsEnd
  <2>2. \/ UNCHANGED bookings
        \/ \E e \in EntryIds, b \in BookingIds, t \in WorkerClocks :
             PromoteEntry(e, b, t)
    BY <1>6 DEF WaitlistWorkerStep, ExpireEntry, CloseIneligibleEntry,
                MarkRequestProcessed
  <2> QED BY <1>1, <2>1, <2>2
<1>7. CASE ReminderWorkerStep \/ Tick \/ UNCHANGED vars
  BY <1>1, <1>7 DEF ReminderWorkerStep, DeliverClassSessionReminder, Tick, vars
<1> QED BY <1>2, <1>3, <1>4, <1>5, <1>6, <1>7 DEF Next

\* Who cancels a session, and who suspends a User.
LEMMA CancelledNowOrBefore ==
  ASSUME TypedRows, [Next]_vars, NEW s \in Sessions,
         sessionState'[s] = "CANCELLED"
  PROVE  \/ sessionState[s] = "CANCELLED"
         \/ \E a \in AbsenceIds : CancelClassSession(a, s)
<1>1. \/ UNCHANGED sessionState
      \/ \E x \in Sessions, t \in Teachers, c \in Capacities :
           PublishClassSession(x, t, c)
      \/ \E a \in AbsenceIds, x \in Sessions : CancelClassSession(a, x)
  <2>1. CASE AdministratorRequest
    BY <2>1 DEF AdministratorRequest, AdjustClassCredits, sessionVars,
                ChangeClassSessionSeatCapacity, SubstituteTeacher
  <2>2. CASE (\E u \in Students : StudentRequest(u)) \/ WaitlistWorkerStep
    BY <2>2, ZenonT(30) DEF StudentRequest, BookClassSession, CancelBooking,
                RescheduleBooking, JoinWaitlist, WithdrawWaitlist, sessionVars,
                WaitlistWorkerStep, ExpireEntry, CloseIneligibleEntry,
                PromoteEntry, MarkRequestProcessed
  <2>3. CASE \/ \E t \in Teachers : TeacherRequest(t)
             \/ AccessRequest \/ ReminderWorkerStep \/ Tick \/ UNCHANGED vars
    BY <2>3 DEF TeacherRequest, ReportAbsence, sessionVars, AccessRequest,
                SuspendUser, ReactivateUser, GrantRoleAssignment,
                RemoveStudentRole, RemoveTeacherRole, ReminderWorkerStep,
                DeliverClassSessionReminder, Tick, vars
  <2> QED BY <2>1, <2>2, <2>3 DEF Next
<1>2. ASSUME NEW x \in Sessions, NEW t, NEW c, PublishClassSession(x, t, c)
      PROVE  sessionState[s] = "CANCELLED"
  <2>1. sessionState' = [sessionState EXCEPT ![x] = "PUBLISHED"]
    BY <1>2 DEF PublishClassSession
  <2> QED BY <2>1 DEF TypedRows, TypeOK
<1>3. ASSUME NEW a \in AbsenceIds, NEW x \in Sessions, CancelClassSession(a, x),
             x # s
      PROVE  sessionState[s] = "CANCELLED"
  <2>1. sessionState' = [sessionState EXCEPT ![x] = "CANCELLED"]
    BY <1>3 DEF CancelClassSession
  <2> QED BY <1>3, <2>1 DEF TypedRows, TypeOK
<1> QED BY <1>1, <1>2, <1>3

LEMMA SuspendedNowOrBefore ==
  ASSUME TypedRows, [Next]_vars, NEW u \in Users,
         accessStatus'[u] # "ACTIVE"
  PROVE  accessStatus[u] # "ACTIVE" \/ SuspendUser(u)
<1>1. \/ UNCHANGED accessStatus
      \/ \E v \in SuspensionTargets : SuspendUser(v)
      \/ \E v \in SuspensionTargets : ReactivateUser(v)
  <2>1. CASE AdministratorRequest
    BY <2>1 DEF AdministratorRequest, AdjustClassCredits, accessVars,
                ChangeClassSessionSeatCapacity, SubstituteTeacher,
                PublishClassSession, CancelClassSession
  <2>2. CASE (\E v \in Students : StudentRequest(v)) \/ WaitlistWorkerStep
    BY <2>2, ZenonT(30) DEF StudentRequest, BookClassSession, CancelBooking,
                RescheduleBooking, JoinWaitlist, WithdrawWaitlist, accessVars,
                WaitlistWorkerStep, ExpireEntry, CloseIneligibleEntry,
                PromoteEntry, MarkRequestProcessed
  <2>3. CASE \/ \E t \in Teachers : TeacherRequest(t)
             \/ AccessRequest \/ ReminderWorkerStep \/ Tick \/ UNCHANGED vars
    BY <2>3 DEF TeacherRequest, ReportAbsence, accessVars, AccessRequest,
                GrantRoleAssignment, RemoveStudentRole, RemoveTeacherRole,
                ReminderWorkerStep, DeliverClassSessionReminder, Tick, vars
  <2> QED BY <2>1, <2>2, <2>3 DEF Next
<1>2. ASSUME NEW v \in SuspensionTargets, SuspendUser(v), v # u
      PROVE  accessStatus[u] # "ACTIVE"
  <2>1. accessStatus' = [accessStatus EXCEPT ![v] = "SUSPENDED"]
    BY <1>2 DEF SuspendUser
  <2> QED BY <1>2, <2>1 DEF TypedRows, TypeOK
<1>3. ASSUME NEW v \in SuspensionTargets, ReactivateUser(v)
      PROVE  accessStatus[u] # "ACTIVE"
  <2>1. accessStatus' = [accessStatus EXCEPT ![v] = "ACTIVE"]
    BY <1>3 DEF ReactivateUser
  <2> QED BY <2>1 DEF TypedRows, TypeOK
<1> QED BY <1>1, <1>2, <1>3

LEMMA StepFutureTeachers ==
  TypedRows /\ FutureTeachersHoldRole /\ [Next]_vars => FutureTeachersHoldRole'
<1> SUFFICES ASSUME TypedRows, FutureTeachersHoldRole, [Next]_vars
             PROVE  FutureTeachersHoldRole'
  OBVIOUS
<1>1. ASSUME UNCHANGED <<now, sessionState, teacherOf>>, roles \subseteq roles'
      PROVE  FutureTeachersHoldRole'
  BY <1>1 DEF FutureTeachersHoldRole
<1>2. CASE (\E u \in Students : StudentRequest(u)) \/ WaitlistWorkerStep
  <2>1. UNCHANGED <<now, sessionState, teacherOf, roles>>
    BY <1>2, ZenonT(30) DEF StudentRequest, BookClassSession, CancelBooking,
                RescheduleBooking, JoinWaitlist, WithdrawWaitlist, sessionVars,
                accessVars, WaitlistWorkerStep, ExpireEntry,
                CloseIneligibleEntry, PromoteEntry, MarkRequestProcessed
  <2> QED BY <1>1, <2>1
<1>3. CASE \/ \E t \in Teachers : TeacherRequest(t)
           \/ ReminderWorkerStep \/ UNCHANGED vars
  <2>1. UNCHANGED <<now, sessionState, teacherOf, roles>>
    BY <1>3 DEF TeacherRequest, ReportAbsence, sessionVars, accessVars,
                ReminderWorkerStep, DeliverClassSessionReminder, vars
  <2> QED BY <1>1, <2>1
<1>4. CASE AdministratorRequest
  <2>1. ASSUME NEW s \in Sessions, NEW t \in Teachers, <<t, "TEACHER">> \in roles,
               teacherOf' = [teacherOf EXCEPT ![s] = t],
               \A x \in Sessions \ {s} : sessionState'[x] = sessionState[x],
               UNCHANGED <<now, roles>>
        PROVE  FutureTeachersHoldRole'
    BY <2>1 DEF FutureTeachersHoldRole, TypedRows, TypeOK
  <2>2. ASSUME NEW s \in Sessions, NEW t \in Teachers, NEW c \in Capacities,
               PublishClassSession(s, t, c)
        PROVE  FutureTeachersHoldRole'
    <3>1. sessionState' = [sessionState EXCEPT ![s] = "PUBLISHED"]
      BY <2>2 DEF PublishClassSession
    <3>2. \A x \in Sessions \ {s} : sessionState'[x] = sessionState[x]
      BY <3>1 DEF TypedRows, TypeOK
    <3> QED BY <2>1, <2>2, <3>2 DEF PublishClassSession, accessVars
  <2>3. ASSUME NEW a \in AbsenceIds, NEW s \in Sessions, NEW t \in Teachers,
               SubstituteTeacher(a, s, t)
        PROVE  FutureTeachersHoldRole'
    BY <2>1, <2>3 DEF SubstituteTeacher, ReplacementAccepted, accessVars
  <2>4. ASSUME NEW a \in AbsenceIds, NEW s \in Sessions, CancelClassSession(a, s)
        PROVE  FutureTeachersHoldRole'
    <3>1. /\ sessionState' = [sessionState EXCEPT ![s] = "CANCELLED"]
          /\ UNCHANGED <<now, teacherOf, roles>>
      BY <2>4 DEF CancelClassSession, accessVars
    <3> QED BY <3>1 DEF FutureTeachersHoldRole, TypedRows, TypeOK
  <2>5. \/ UNCHANGED <<now, sessionState, teacherOf, roles>>
        \/ \E s \in Sessions, t \in Teachers, c \in Capacities :
             PublishClassSession(s, t, c)
        \/ \E a \in AbsenceIds, s \in Sessions, t \in Teachers :
             SubstituteTeacher(a, s, t)
        \/ \E a \in AbsenceIds, s \in Sessions : CancelClassSession(a, s)
    BY <1>4 DEF AdministratorRequest, AdjustClassCredits, accessVars,
                ChangeClassSessionSeatCapacity, sessionVars
  <2> QED BY <1>1, <2>2, <2>3, <2>4, <2>5
<1>5. CASE AccessRequest
  <2>1. ASSUME NEW t \in Teachers, RemoveTeacherRole(t)
        PROVE  FutureTeachersHoldRole'
    <3>1. /\ FutureAssignments(t) = {} /\ roles' = roles \ {<<t, "TEACHER">>}
          /\ UNCHANGED <<now, sessionState, teacherOf>>
      BY <2>1 DEF RemoveTeacherRole, sessionVars
    <3> QED BY <3>1 DEF FutureTeachersHoldRole, FutureAssignments
  <2>2. ASSUME NEW u \in Students, RemoveStudentRole(u)
        PROVE  FutureTeachersHoldRole'
    <3>1. /\ roles' = roles \ {<<u, "STUDENT">>}
          /\ UNCHANGED <<now, sessionState, teacherOf>>
      BY <2>2 DEF RemoveStudentRole
    <3> QED BY <3>1 DEF FutureTeachersHoldRole
  <2>3. \/ UNCHANGED <<now, sessionState, teacherOf>> /\ roles \subseteq roles'
        \/ \E u \in Students : RemoveStudentRole(u)
        \/ \E t \in Teachers : RemoveTeacherRole(t)
    BY <1>5 DEF AccessRequest, SuspendUser, ReactivateUser, sessionVars,
                GrantRoleAssignment
  <2> QED BY <1>1, <2>1, <2>2, <2>3
<1>6. CASE Tick
  <2>1. now' = now + 1 /\ UNCHANGED <<sessionState, teacherOf, roles>>
    BY <1>6 DEF Tick, sessionVars, accessVars
  <2>2. \A s \in Sessions : StartsAt[s] > now' => StartsAt[s] > now
    BY <2>1, ConstantsAssumption DEF TypedRows, TypeOK
  <2> QED BY <2>1, <2>2 DEF FutureTeachersHoldRole
<1> QED BY <1>2, <1>3, <1>4, <1>5, <1>6 DEF Next

LEMMA StepWaiting ==
  /\ TypedRows /\ NoneWaitsForCancelled /\ SuspendedWaitForNothing
  /\ [Next]_vars
  => NoneWaitsForCancelled' /\ SuspendedWaitForNothing'
<1> SUFFICES ASSUME TypedRows, NoneWaitsForCancelled, SuspendedWaitForNothing,
                    [Next]_vars, NEW e \in EntryIds, entries'[e].state = "ACTIVE"
             PROVE  /\ sessionState'[entries'[e].session] # "CANCELLED"
                    /\ accessStatus'[entries'[e].student] = "ACTIVE"
  BY DEF NoneWaitsForCancelled, SuspendedWaitForNothing
<1>1. CASE Joins(e)
  BY <1>1 DEF Joins
<1>2. CASE entries'[e] = entries[e]
  <2>1. /\ entries[e].state = "ACTIVE" /\ entries[e].session \in Sessions
        /\ entries[e].student \in Users
    BY <1>2 DEF TypedRows, RowsNamed, Users
  <2>2. sessionState'[entries[e].session] # "CANCELLED"
    <3>1. ASSUME NEW a \in AbsenceIds, CancelClassSession(a, entries[e].session)
          PROVE  FALSE
      <4> DEFINE E == {d \in ActiveEntries :
                         entries[d].session = entries[e].session}
      <4>1. entries' = CloseEntries(E) /\ e \in E /\ E \subseteq EntryIds
        BY <2>1, <3>1 DEF CancelClassSession, ActiveEntries
      <4> HIDE DEF E
      <4> QED BY <4>1, EntriesCloseHere
    <3> QED BY <2>1, <3>1, CancelledNowOrBefore DEF NoneWaitsForCancelled
  <2>3. accessStatus'[entries[e].student] = "ACTIVE"
    <3>1. ASSUME SuspendUser(entries[e].student) PROVE FALSE
      <4> DEFINE E == {d \in ActiveEntries :
                         entries[d].student = entries[e].student}
      <4>1. entries' = CloseEntries(E) /\ e \in E /\ E \subseteq EntryIds
        BY <2>1, <3>1 DEF SuspendUser, EndStudentCommitments, ActiveEntries
      <4> HIDE DEF E
      <4> QED BY <4>1, EntriesCloseHere
    <3> QED BY <2>1, <3>1, SuspendedNowOrBefore DEF SuspendedWaitForNothing
  <2> QED BY <1>2, <2>2, <2>3
<1> QED BY <1>1, <1>2, NextEntriesClose DEF EntriesClose

LEMMA StepAttending ==
  /\ TypedRows /\ StudentsMatch /\ SuspendedWaitForNothing
  /\ SuspendedAttendNothing /\ [Next]_vars
  => SuspendedAttendNothing'
<1> SUFFICES ASSUME TypedRows, StudentsMatch, SuspendedWaitForNothing,
                    SuspendedAttendNothing, [Next]_vars,
                    NEW b \in BookingIds, bookings'[b].state = "ACTIVE",
                    StartsAt[bookings'[b].session] > now'
             PROVE  accessStatus'[bookings'[b].student] = "ACTIVE"
  BY DEF SuspendedAttendNothing
<1>1. CASE Attains(b)
  BY <1>1 DEF Attains
<1>2. CASE bookings'[b] = bookings[b]
  <2>1. /\ bookings[b].state = "ACTIVE" /\ bookings[b].session \in Sessions
        /\ bookings[b].student \in Users
    BY <1>2 DEF TypedRows, RowsNamed, Users
  <2>2. StartsAt[bookings[b].session] > now
    <3>1. now' = now \/ now' = now + 1
      BY ZenonT(30) DEF Next, StudentRequest, BookClassSession, CancelBooking,
             RescheduleBooking, JoinWaitlist, WithdrawWaitlist, TeacherRequest,
             ReportAbsence, AdministratorRequest, PublishClassSession,
             ChangeClassSessionSeatCapacity, AdjustClassCredits,
             SubstituteTeacher, CancelClassSession, AccessRequest, SuspendUser,
             ReactivateUser, GrantRoleAssignment, RemoveStudentRole,
             RemoveTeacherRole, WaitlistWorkerStep, ExpireEntry,
             CloseIneligibleEntry, PromoteEntry, MarkRequestProcessed,
             ReminderWorkerStep, DeliverClassSessionReminder, Tick, vars
    <3> QED BY <1>2, <2>1, <3>1, ConstantsAssumption DEF TypedRows, TypeOK
  <2>3. ASSUME SuspendUser(bookings[b].student) PROVE FALSE
    <3>1. b \in FutureBookings(bookings[b].student)
      BY <2>1, <2>2 DEF FutureBookings
    <3>2. Leaves(FutureBookings(bookings[b].student))
      BY <2>1, <2>3, EndStudentCommitmentsLeaves DEF SuspendUser
    <3> QED BY <3>1, <3>2 DEF Leaves
  <2> QED BY <1>2, <2>1, <2>2, <2>3, SuspendedNowOrBefore
          DEF SuspendedAttendNothing
<1> QED BY <1>1, <1>2, NextBookingsEnd DEF BookingsEnd

LEMMA StepCleanups == CleanupInvariant /\ [Next]_vars => CleanupInvariant'
<1> SUFFICES ASSUME CleanupInvariant, [Next]_vars PROVE CleanupInvariant'
  OBVIOUS
<1>1. TypedRows /\ StudentsMatch /\ UnreportedIsEmpty
  BY DEF CleanupInvariant, CommitmentInvariant, HistoryInvariant, SeatsInvariant
<1>2. CommitmentInvariant'
  BY StepCommitments DEF CleanupInvariant
<1>3. NoneWaitsForCancelled' /\ SuspendedWaitForNothing'
  BY <1>1, StepWaiting DEF CleanupInvariant
<1>4. SuspendedAttendNothing'
  BY <1>1, StepAttending DEF CleanupInvariant
<1>5. FutureTeachersHoldRole'
  BY <1>1, StepFutureTeachers DEF CleanupInvariant
<1>6. CancelledIsRecorded'
  <2> SUFFICES ASSUME NEW s \in Sessions, sessionState'[s] = "CANCELLED"
               PROVE  \E a \in AbsenceIds :
                        absences'[a].rows[s] = "CLASS_SESSION_CANCELLATION"
    BY DEF CancelledIsRecorded
  <2>1. CASE sessionState[s] = "CANCELLED"
    BY <1>1, <2>1, NextAbsences
       DEF CleanupInvariant, CancelledIsRecorded, AbsencesMoveForward
  <2>2. ASSUME NEW a \in AbsenceIds, CancelClassSession(a, s)
        PROVE  absences'[a].rows[s] = "CLASS_SESSION_CANCELLATION"
    BY <1>1, <2>2, ResolvedRows DEF CancelClassSession
  <2> QED BY <1>1, <2>1, <2>2, CancelledNowOrBefore
<1> QED BY <1>2, <1>3, <1>4, <1>5, <1>6 DEF CleanupInvariant

LEMMA InitCleanups == Init => CleanupInvariant
<1> SUFFICES ASSUME Init PROVE CleanupInvariant
  OBVIOUS
<1>1. /\ NoneWaitsForCancelled /\ CancelledIsRecorded
      /\ SuspendedWaitForNothing /\ SuspendedAttendNothing
      /\ FutureTeachersHoldRole
  BY DEF Init, NoneWaitsForCancelled, CancelledIsRecorded, NoEntry, NoBooking,
         SuspendedWaitForNothing, SuspendedAttendNothing, FutureTeachersHoldRole
<1> QED BY <1>1, InitCommitments DEF CleanupInvariant

LEMMA CleanupsFollow == CleanupInvariant => CleanupsAreComplete
<1> SUFFICES ASSUME CleanupInvariant PROVE CleanupsAreComplete
  OBVIOUS
<1>1. ASSUME NEW s \in Sessions, sessionState[s] = "CANCELLED"
      PROVE  /\ Occupants(s) = {}
             /\ \A e \in ActiveEntries : entries[e].session # s
             /\ \A k \in Commitments :
                  k[2] = s => k \notin commitments /\ reminders[k] # "OPEN"
             /\ \E a \in AbsenceIds :
                  absences[a].rows[s] = "CLASS_SESSION_CANCELLATION"
  <2>1. Occupants(s) = {}
    BY <1>1 DEF CleanupInvariant, CommitmentInvariant, HistoryInvariant,
                CancelledIsEmpty
  <2>2. \A u \in Users : ~Attends(u, s) /\ ~Teaches(u, s)
    BY <1>1, <2>1 DEF Attends, Teaches, Occupants
  <2>3. ASSUME NEW k \in Commitments, k[2] = s
        PROVE  k \notin commitments /\ reminders[k] # "OPEN"
    <3>1. k[1] \in Users /\ k = <<k[1], s, k[3]>> /\ k[3] \in {"STUDENT", "TEACHER"}
      BY <2>3 DEF Commitments, Roles
    <3>2. k \notin commitments
      BY <2>2, <3>1 DEF CleanupInvariant, CommitmentInvariant, StudentsMatch,
                        StudentCommitmentsMatch, TeacherCommitmentsMatch
    <3> QED BY <2>3, <3>2
            DEF CleanupInvariant, CommitmentInvariant, RemindersFollowCommitments
  <2> QED BY <1>1, <2>1, <2>3 DEF CleanupInvariant, NoneWaitsForCancelled,
                                  CancelledIsRecorded, ActiveEntries
<1>2. ASSUME NEW u \in Students, accessStatus[u] = "SUSPENDED"
      PROVE  /\ FutureBookings(u) = {}
             /\ \A e \in ActiveEntries : entries[e].student # u
  BY <1>2 DEF CleanupInvariant, SuspendedAttendNothing, SuspendedWaitForNothing,
              FutureBookings, ActiveEntries
<1> QED BY <1>1, <1>2
        DEF CleanupsAreComplete, CancelledHoldsNothing, CleanupInvariant,
            CommitmentsAheadArePermitted, SuspendedHoldNothingAhead

(* A cancelled session holds nothing, a suspended Student has nothing      *)
(* ahead, and no role is taken from the Teacher of a future session,       *)
(* whatever was under way when the session, the access or the role ended.  *)
THEOREM CleanupsAreAlwaysComplete == Spec => []CleanupsAreComplete
<1> QED BY InitCleanups, StepCleanups, CleanupsFollow, PTL DEF Spec

============================================================================
