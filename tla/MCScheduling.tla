---------------------------- MODULE MCScheduling ----------------------------
(* Marketplace in two parts for TLC: three Students book, cancel and        *)
(* reschedule; Teachers, of whom one is also a Student, are absent and      *)
(* replaced.                                                                *)
EXTENDS MCMarketplace, Pages

VARIABLE focus

schedulingVars == <<vars, focus>>

Learners == {u1, u2, u3}

SchedulingInit ==
  /\ Init
  /\ focus \in {"bookings", "substitutions"}

\* At most one reminder is delivered, of the first session.
AtMostOneDelivered ==
  LET delivered == {k \in Commitments : reminders'[k] = "DELIVERED"}
  IN  Cardinality(delivered) <= 1 /\ \A k \in delivered : k[2] = "s1"

\* Nobody is absent, and each Teacher has a session of their own.
OnlyBookings ==
  /\ focus = "bookings"
  /\ \A b \in BookingIds : bookings'[b].student \in Learners \cup {NoUser}
  /\ \A a \in AbsenceIds : absences'[a] = NoAbsence
  /\ \A s \in Sessions :
       teacherOf'[s] # NoUser => <<teacherOf'[s], s>> \in OwnSession

\* One Student beside the one who is a Teacher, and three
\* Bookings and absences.
OnlySubstitutions ==
  /\ focus = "substitutions"
  /\ now' < MaxTime
  /\ Cardinality({b \in BookingIds : bookings'[b] # NoBooking})
       + Cardinality({a \in AbsenceIds : absences'[a] # NoAbsence}) <= 3
  /\ Cardinality(Learners \cap {bookings'[b].student : b \in BookingIds}) <= 1

SchedulingNext ==
  /\ Next
  /\ AtMostOneDelivered
  /\ OnlyBookings \/ OnlySubstitutions
  /\ UNCHANGED focus

SchedulingSpec == SchedulingInit /\ [][SchedulingNext]_schedulingVars

LearnerSymmetry == Permutations(Learners)

=============================================================================
