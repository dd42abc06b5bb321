-------------------------- MODULE AtomicAttendance --------------------------
(***************************************************************************)
(* What the attendance of a Course promises to those who read it (ADR 0053 *)
(* and 0054): an outcome never disappears once published, a Lesson Unit is *)
(* completed exactly when the Student attended one of its sessions, and a  *)
(* review is decided once.  Each change is one step.                       *)
(***************************************************************************)
CONSTANTS Students, Units, Bookings, Sessions, StudentOf, SessionOf, UnitOf

VARIABLES
  effective,   \* the outcome in force for each Booking
  completed,   \* the pairs of Student and Lesson Unit completed
  review       \* how far the review of each Booking has come

atomicVars == <<effective, completed, review>>

AttendedUnits(outcomes) ==
  {k \in Students \X Units : \E b \in Bookings :
     /\ outcomes[b] = "ATTENDED"
     /\ k = <<StudentOf[b], UnitOf[SessionOf[b]]>>}

AtomicInit ==
  /\ effective = [b \in Bookings |-> "UNRECORDED"]
  /\ completed = {}
  /\ review = [b \in Bookings |-> "NONE"]

\* The roster of one session is published or corrected.
PublishRoster(s) ==
  /\ \E new \in [{b \in Bookings : SessionOf[b] = s} ->
               {"ATTENDED", "NO_SHOW"}] :
       effective' = [b \in Bookings |->
         IF SessionOf[b] = s THEN new[b] ELSE effective[b]]
  /\ completed' = AttendedUnits(effective')
  /\ UNCHANGED review

AskForReview(b) ==
  /\ effective[b] # "UNRECORDED"
  /\ review[b] = "NONE"
  /\ review' = [review EXCEPT ![b] = "PENDING"]
  /\ UNCHANGED <<effective, completed>>

Uphold(b) ==
  /\ review[b] = "PENDING"
  /\ review' = [review EXCEPT ![b] = "UPHELD"]
  /\ UNCHANGED <<effective, completed>>

Correct(b) ==
  /\ review[b] = "PENDING"
  /\ review' = [review EXCEPT ![b] = "CORRECTED"]
  /\ \E o \in {"ATTENDED", "NO_SHOW"} :
       effective' = [effective EXCEPT ![b] = o]
  /\ completed' = AttendedUnits(effective')

AtomicNext ==
  \/ \E s \in Sessions : PublishRoster(s)
  \/ \E b \in Bookings : AskForReview(b) \/ Uphold(b) \/ Correct(b)

AtomicSpec == AtomicInit /\ [][AtomicNext]_atomicVars

=============================================================================
