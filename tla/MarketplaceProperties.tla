----------------------- MODULE MarketplaceProperties -----------------------
(***************************************************************************)
(* What the scheduling core promises: invariants and action properties of  *)
(* Marketplace.                                                            *)
(***************************************************************************)
EXTENDS Marketplace

Used(b) == bookings[b].state # "NONE"

Deductions(u) ==
  {b \in BookingIds : /\ <<"BOOKING_DEDUCTION", b>> \in ledger
                      /\ bookings[b].student = u}

RefundsOf(u) ==
  {b \in BookingIds : /\ <<"BOOKING_REFUND", b>> \in ledger
                      /\ bookings[b].student = u}

Successors(b) == {c \in BookingIds : bookings[c].from = b}

(* The seat counter every handler updates incrementally equals the number  *)
(* of active Bookings and never passes the Seat Capacity, so neither the   *)
(* deferred seat reconciliation of migration 0012 nor the check of 0007    *)
(* ever aborts a transaction of booking-service, the suspension cleanup or *)
(* the cancellation of a session.                                          *)
SeatsReconcile ==
  \A s \in Sessions :
    /\ occupiedSeats[s] = Cardinality(Occupants(s))
    /\ occupiedSeats[s] <= seatCapacity[s]

(* The stored balance is the sum of the ledger rows that explain it, and   *)
(* is never negative: no handler moves a credit without its ledger row.    *)
CreditsReconcile ==
  \A u \in Students :
    /\ balance[u] = adjusted[u] - Cardinality(Deductions(u))
                      + Cardinality(RefundsOf(u))
    /\ balance[u] >= 0

(* One deducted credit follows a chain of reschedules: only the first      *)
(* Booking of a chain is deducted, every rescheduled one has exactly one   *)
(* successor and is not refunded, and a refund row exists exactly for a    *)
(* Booking that says it was refunded.  So a chain is refunded at most      *)
(* once, at its tail, and what the platform ends it always refunds.        *)
CreditFollowsChain ==
  \A b \in BookingIds :
    LET row == bookings[b] IN
    /\ <<"BOOKING_DEDUCTION", b>> \in ledger <=> Used(b) /\ row.from = 0
    /\ <<"BOOKING_REFUND", b>> \in ledger <=> row.refunded
    /\ Cardinality(Successors(b)) = IF row.reason = "RESCHEDULED" THEN 1 ELSE 0
    /\ row.reason = "RESCHEDULED" => ~row.refunded
    /\ row.state = "ENDED"
         /\ row.reason \notin {"RESCHEDULED", "STUDENT_CANCELLATION"}
       => row.refunded

(* Nobody is committed to two overlapping Class Sessions, in one role or   *)
(* across both: what the exclusion constraint of migration 0007 demands is *)
(* already ensured by the checks of publication, booking, rescheduling,    *)
(* promotion and substitution taken together.                              *)
NoDoubleCommitment ==
  \A k1, k2 \in commitments :
    k1 # k2 /\ k1[1] = k2[1] => ~Overlap(StartsAt[k1[2]], StartsAt[k2[2]])

(* The active Schedule Commitments are those of the active Bookings and of *)
(* the assigned Teachers of published sessions, and no other.              *)
CommitmentsMatch ==
  \A k \in Commitments :
    k \in commitments <=>
      IF k[3] = "STUDENT"
      THEN k[1] \in Students /\ ActiveBookings(k[1], k[2]) # {}
      ELSE sessionState[k[2]] = "PUBLISHED" /\ teacherOf[k[2]] = k[1]

(* A cancelled Class Session holds nothing: no active Booking or Waitlist  *)
(* Entry, no commitment, no open reminder, and its disruption is recorded. *)
CancelledHoldsNothing ==
  \A s \in Sessions :
    sessionState[s] = "CANCELLED" =>
      /\ Occupants(s) = {}
      /\ \A e \in ActiveEntries : entries[e].session # s
      /\ \A k \in Commitments :
           k[2] = s => k \notin commitments /\ reminders[k] # "OPEN"
      /\ \E a \in AbsenceIds :
           absences[a].rows[s] = "CLASS_SESSION_CANCELLATION"

(* A suspended User has no active Booking of a future session and no       *)
(* active Waitlist Entry, whatever requests and worker passes were under   *)
(* way when an Administrator suspended them.                               *)
SuspendedHoldNothingAhead ==
  \A u \in Students :
    accessStatus[u] = "SUSPENDED" =>
      /\ FutureBookings(u) = {}
      /\ \A e \in ActiveEntries : entries[e].student # u

(* A future published session always has a Teacher with the Teacher role:  *)
(* removal of the role cannot cross publication or substitution.           *)
FutureTeachersHoldRole ==
  \A s \in Sessions :
    sessionState[s] = "PUBLISHED" /\ StartsAt[s] > now
      => <<teacherOf[s], "TEACHER">> \in roles

(* Nobody has a future commitment they may no longer enter into: neither a *)
(* suspended Student nor a Teacher without the role.                       *)
CommitmentsAheadArePermitted ==
  SuspendedHoldNothingAhead /\ FutureTeachersHoldRole

(* Promotion is one to one: a promoted Waitlist Entry names the Booking    *)
(* made for its own Student and session, no two entries name the same one, *)
(* and only those Bookings carry the 30-minute refund grace.               *)
PromotionIsOneToOne ==
  /\ \A e \in EntryIds :
       entries[e].state = "PROMOTED" <=> entries[e].booking # 0
  /\ \A b \in BookingIds :
       LET by == {e \in EntryIds : entries[e].booking = b} IN
       /\ Cardinality(by) = IF bookings[b].refundUntil = -1 THEN 0 ELSE 1
       /\ \A e \in by : /\ entries[e].student = bookings[b].student
                        /\ entries[e].session = bookings[b].session

(* No reminder is lost and none is left over: while the reminder of an     *)
(* active commitment of a published session is not yet due it is open,     *)
(* through every cancel, rebook, reschedule and substitution; and an open  *)
(* reminder always belongs to an active commitment.                        *)
RemindersFollowCommitments ==
  \A k \in Commitments :
    /\ k \in commitments /\ ReminderDueAt(StartsAt[k[2]]) > now
         => reminders[k] = "OPEN"
    /\ reminders[k] = "OPEN" => k \in commitments

(* At most one unresolved disruption exists per session; it is about a     *)
(* published session still assigned to the Teacher who reported it; a      *)
(* request is resolved exactly when all its sessions are; and a session is *)
(* cancelled exactly when a disruption says so.                            *)
AbsencesAreConsistent ==
  /\ \A a, c \in AbsenceIds, s \in Sessions :
       absences[a].rows[s] = "UNRESOLVED" =>
         /\ absences[c].rows[s] = "UNRESOLVED" => a = c
         /\ sessionState[s] = "PUBLISHED"
         /\ teacherOf[s] = absences[a].teacher
  /\ \A a \in AbsenceIds :
       absences[a].state = "OPEN" <=>
         \E s \in Sessions : absences[a].rows[s] = "UNRESOLVED"
  /\ \A a \in AbsenceIds, s \in Sessions :
       absences[a].rows[s] = "CLASS_SESSION_CANCELLATION"
         => sessionState[s] = "CANCELLED"

----------------------------------------------------------------------------
(* What no step may do.                                                    *)

(* History is final: an ended Booking, a closed Waitlist Entry, a resolved *)
(* disruption and a cancelled session never change again, and the ledger   *)
(* is append-only (0009, 0015): nothing is refunded or revived later.      *)
HistoryIsFinal ==
  [][/\ \A b \in BookingIds :
          bookings[b].state = "ENDED" => bookings'[b] = bookings[b]
     /\ \A e \in EntryIds :
          entries[e].state \notin {"NONE", "ACTIVE"} => entries'[e] = entries[e]
     /\ \A a \in AbsenceIds, s \in Sessions :
          absences[a].rows[s] \notin {"NONE", "UNRESOLVED"}
            => absences'[a].rows[s] = absences[a].rows[s]
     /\ \A s \in Sessions : sessionState[s] = "CANCELLED"
            => sessionState'[s] = "CANCELLED" /\ occupiedSeats'[s] = 0
     /\ ledger \subseteq ledger'
    ]_vars

(* Every seat freed while the session stays published raises a promotion   *)
(* request in the same transaction, and so does every added seat: this is  *)
(* what the waitlist worker relies on to hear of it.                       *)
FreedSeatIsRequested ==
  [][\A s \in Sessions :
       /\ sessionState[s] = "PUBLISHED" /\ sessionState'[s] = "PUBLISHED"
       /\ seatCapacity'[s] - occupiedSeats'[s]
            > seatCapacity[s] - occupiedSeats[s]
       => /\ requestPending'[s]
          /\ requestVersion'[s] > requestVersion[s]
    ]_vars

----------------------------------------------------------------------------
(* A statement of the documentation that the code does not keep.           *)

(* ADR 0006 answers every expected failure with a typed outcome: a         *)
(* replacement that passes all the checks of substituteTeacher does not    *)
(* fail on the uniqueness of Class Session Reminders.                      *)
AcceptedReplacementSucceeds ==
  \A a \in AbsenceIds, s \in Sessions, t \in Teachers :
    ReplacementAccepted(a, s, t) => ~ReminderClash(s, t)

(* The tables that follow the Bookings, the sessions and the absences      *)
(* agree with them: commitments, reminders and disruptions.                *)
CommitmentsAreKept ==
  CommitmentsMatch /\ RemindersFollowCommitments /\ AbsencesAreConsistent

(* What an end of a session, a User's access or a role takes away is gone, *)
(* whatever the requests that were under way do afterwards.                *)
CleanupsAreComplete == CancelledHoldsNothing /\ CommitmentsAheadArePermitted

============================================================================
