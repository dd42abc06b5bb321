------------------------------ MODULE MCAccess ------------------------------
(***************************************************************************)
(* Two instances of one run: the Bookings and access of a small            *)
(* marketplace, and the reports over attendance and Sponsorships.  What a  *)
(* behaviour explores is chosen at its start.                              *)
(***************************************************************************)
EXTENDS MCMarketplace, Pages, Reports

CONSTANTS v1, v2

VARIABLE focus

\* Two consecutive sessions of two Lesson Units, the second Student in the
\* first of them; two Sponsorships of the first Student.
ConsecutiveStarts == [s1 |-> 1, s2 |-> 2]
UnitOfSession == [s1 |-> "n1", s2 |-> "n2"]
ThreeBookings == {"b1", "b2", "b3"}
AttendeeOfBooking == [b1 |-> v1, b2 |-> v1, b3 |-> v2]
SessionOfBooking == [b1 |-> "s1", b2 |-> "s2", b3 |-> "s1"]
TwoTies == {"t1", "t2"}
StudentOfTie == [t1 |-> v1, t2 |-> v1]
OrganizationOfTie == [t1 |-> "o1", t2 |-> "o2"]
SomeRanges == {<<0, 4>>, <<1, 2>>, <<2, 3>>}
\* A Cohort whose windows overlap, and one that a Student joins later and
\* leaves again.
SomeWindows == {[cohort |-> "g1", after |-> 0, until |-> 2],
                [cohort |-> "g1", after |-> 1, until |-> 9],
                [cohort |-> "g2", after |-> 1, until |-> 2]}

AccessInit == focus \in {"marketplace", "reports"} /\ Init /\ ReportsInit

\* An adjustment comes before the Waitlist and before a Booking ends.
EarlyAdjustment ==
  adjusted' # adjusted =>
    /\ \A e \in EntryIds : entries[e] = NoEntry
    /\ \A b \in BookingIds :
         bookings[b] = NoBooking \/ bookings[b].state = "ACTIVE"

\* The Teacher loses the role while the Student acted on keeps theirs.
OneAccessAtATime ==
  <<t1, "TEACHER">> \notin roles' =>
    accessStatus'[u1] = "ACTIVE" /\ <<u1, "STUDENT">> \in roles'

\* A session is called off, or a Booking leaves one; and of the Sponsorships,
\* which are alike, the first begins first.
OneVacancy ==
  /\ tie'["t1"].state = None => tie'["t2"].state = None
  /\ Cardinality(calledOff') <= 1
  /\ calledOff' # {} =>
       \A b \in ReportedBookings :
         seat'[b].state = "ENDED" => SessionAttended[b] \in calledOff'

AccessNext ==
  /\ UNCHANGED focus
  /\ \/ focus = "marketplace" /\ Next /\ EarlyAdjustment /\ OneAccessAtATime
         /\ UNCHANGED reportVars
     \/ focus = "reports" /\ ReportsNext /\ OneVacancy /\ UNCHANGED vars

\* The reports of their own instance.
ReportsHold == focus = "reports" => ReportsAgree

AccessSpec == AccessInit /\ [][AccessNext]_<<focus, vars, reportVars>>

=============================================================================
