----------------------------- MODULE Attendance -----------------------------
(***************************************************************************)
(* Attendance after the sessions of one Course: recording and correcting   *)
(* by Teacher and Administrator, the Student's request for a review and    *)
(* its decision, the Lesson Unit Completions that follow, and the Course   *)
(* Progress Snapshots a Sponsorship freezes at its start and end.  Each of *)
(* these is a transaction of several statements: what it reads is what is  *)
(* committed when the statement runs, what it writes shows when it         *)
(* commits, and it may be rolled back at any point.                        *)
(***************************************************************************)
EXTENDS Integers, FiniteSets, Sequences

CONSTANTS
  Students, Bookings,
  Units,              \* active Lesson Units of the Course
  Sessions,           \* published Class Sessions
  StudentOf, SessionOf,   \* of each Booking that is active at the end
  UnitOf, EndsAt,         \* of each Class Session
  Transactions,       \* bound: transactions under way at once
  RecordingWindow,    \* how long after the end a Teacher may record
  ReviewWindow,       \* how long after publication a review may be asked
  MaxCorrections,     \* bound: corrections of all Bookings
  Reviewed,           \* bound: the Bookings whose review is asked for
  MaxLag,             \* bound: how far behind the clock a transaction may be
  MaxTime             \* bound: the clock

ASSUME AttendanceAssumption ==
  /\ IsFiniteSet(Bookings) /\ Reviewed \subseteq Bookings
  /\ IsFiniteSet(Units)
  /\ StudentOf \in [Bookings -> Students]
  /\ SessionOf \in [Bookings -> Sessions]
  /\ \A b, c \in Bookings :     \* bookings_one_active_student_session_idx
       StudentOf[b] = StudentOf[c] /\ SessionOf[b] = SessionOf[c] => b = c
  /\ UnitOf \in [Sessions -> Units]
  /\ EndsAt \in [Sessions -> Nat]
  /\ RecordingWindow \in Nat /\ ReviewWindow \in Nat
  /\ MaxCorrections \in Nat /\ MaxLag \in Nat /\ MaxTime \in Nat

VARIABLES
  clock,
  outcome,        \* attendance_records.outcome, or that there is none
  publishedAt,    \* attendance_records.submitted_at
  corrections,    \* attendance_record_corrections
  completion,     \* lesson_unit_completions
  reviews,        \* attendance_review_requests
  sponsorship,    \* sponsorships.state, or that there is none
  snapshots,      \* course_progress_snapshots
  revisions,      \* course_progress_snapshot_revisions
  work            \* the transactions under way

recordVars == <<outcome, publishedAt, corrections, completion, reviews>>
snapshotVars == <<sponsorship, snapshots, revisions>>
attendanceVars == <<clock, recordVars, snapshotVars, work>>

Outcomes == {"ATTENDED", "NO_SHOW"}
Unrecorded == "UNRECORDED"
NoInstant == -1
NoBooking == "none"
Boundaries == {"SPONSORSHIP_START", "SPONSORSHIP_END"}
Keys == Students \X Units

KeyOf(b) == <<StudentOf[b], UnitOf[SessionOf[b]]>>
Ended(b) == EndsAt[SessionOf[b]]
Roster(s) == {b \in Bookings : SessionOf[b] = s}

NoCompletion == [booking |-> NoBooking, earnedAt |-> NoInstant]
NoSnapshot == [capturedAt |-> NoInstant, completed |-> 0, revision |-> 0]

\* A transaction: its kind and step, the clock it started with, the outcomes
\* it writes and those it read before, the completions it has written, the
\* snapshots it has read and what it has counted for them.
NoWork == [kind |-> "NONE", step |-> "IDLE", at |-> NoInstant, new |-> <<>>,
           prior |-> <<>>, earned |-> <<>>, seen |-> <<>>, counted |-> <<>>]

AttendanceInit ==
  /\ clock = 0
  /\ outcome = [b \in Bookings |-> Unrecorded]
  /\ publishedAt = [b \in Bookings |-> NoInstant]
  /\ corrections = [b \in Bookings |-> <<>>]
  /\ completion = [k \in Keys |-> NoCompletion]
  /\ reviews = [b \in Bookings |-> "NONE"]
  /\ sponsorship = [u \in Students |-> "NONE"]
  /\ snapshots = [u \in Students |-> [d \in Boundaries |-> NoSnapshot]]
  /\ revisions = [u \in Students |-> [d \in Boundaries |-> <<>>]]
  /\ work = [t \in Transactions |-> NoWork]

----------------------------------------------------------------------------
(* Transactions and the locks they hold.                                   *)

Idle(t) == work[t].step = "IDLE"

Written(t) == DOMAIN work[t].new

\* lockLessonUnitCompletion, held until the transaction ends.
Locked(t) ==
  IF work[t].step \in {"IDLE", "WAITING"} THEN {}
  ELSE {KeyOf(b) : b \in Written(t)}

\* Mutant: no advisory lock is taken.
FreeOfLocks(keys) == TRUE

Free(keys) == \A t \in Transactions : Locked(t) \cap keys = {}

MayCorrect ==
  Cardinality(UNION {{b} \X DOMAIN corrections[b] : b \in Bookings})
    < MaxCorrections

Finish(t) == work' = [work EXCEPT ![t] = NoWork]

\* The process stops or a statement fails.
RollBack(t) ==
  /\ ~Idle(t)
  /\ Finish(t)
  /\ UNCHANGED <<clock, recordVars, snapshotVars>>

----------------------------------------------------------------------------
(* What every outcome brings with it: reconcileLessonUnitCompletion.       *)

OtherAttended(b) ==
  {c \in Bookings \ {b} : KeyOf(c) = KeyOf(b) /\ outcome[c] = "ATTENDED"}

Earliest(S) == CHOOSE c \in S : \A d \in S : Ended(c) <= Ended(d)

EarnedBy(b) == [booking |-> b, earnedAt |-> Ended(b)]

\* applyLessonUnitCompletion
Reconciled(b, prior, new) ==
  LET held == completion[KeyOf(b)] IN
  IF new = "ATTENDED"
  THEN IF held = NoCompletion THEN EarnedBy(b) ELSE held
  ELSE IF prior # "ATTENDED" THEN held
  ELSE IF OtherAttended(b) = {} THEN NoCompletion
  ELSE IF held = NoCompletion THEN held
  ELSE EarnedBy(Earliest(OtherAttended(b)))

\* With its locks held a transaction writes its completions and reads the
\* snapshots they may revise, with the counts and revision numbers of now.
Reconcile(t, kind, at, new, prior) ==
  work' = [work EXCEPT ![t] =
    [kind |-> kind, step |-> "RECONCILED", at |-> at,
     new |-> new, prior |-> prior,
     earned |-> [k \in {KeyOf(b) : b \in DOMAIN new} |->
       LET b == CHOOSE c \in DOMAIN new : KeyOf(c) = k
       IN Reconciled(b, prior[b], new[b])],
     seen |-> snapshots, counted |-> <<>>]]

----------------------------------------------------------------------------
(* Recording and correcting: recordAttendanceAs.                           *)

\* The roster is complete: either every Booking of it has an outcome or none.
RecordAttendance(t, s, actor, new) ==
  /\ EndsAt[s] <= clock
  /\ actor = "TEACHER" => clock <= EndsAt[s] + RecordingWindow
  /\ Roster(s) # {}
  /\ \A r \in Transactions :
       work[r].kind = "RECORD" => Written(r) # Roster(s)
  /\ Free({KeyOf(b) : b \in Roster(s)})
  /\ (\E b \in Roster(s) : outcome[b] \notin {Unrecorded, new[b]}) => MayCorrect
  /\ Idle(t)
  /\ Reconcile(t, "RECORD", clock, new, [b \in Roster(s) |-> outcome[b]])
  /\ UNCHANGED <<clock, recordVars, snapshotVars>>

----------------------------------------------------------------------------
(* The review of an outcome.                                               *)

RequestAttendanceReview(b) ==
  /\ outcome[b] # Unrecorded
  /\ clock <= publishedAt[b] + ReviewWindow
  /\ reviews[b] = "NONE"
  /\ reviews' = [reviews EXCEPT ![b] = "PENDING"]
  /\ UNCHANGED <<clock, outcome, publishedAt, corrections, completion,
                 snapshotVars, work>>

Opposite(o) == IF o = "ATTENDED" THEN "NO_SHOW" ELSE "ATTENDED"

\* The decision locks the request.
AwaitsDecision(b) == reviews[b] = "PENDING"

Undecided(b) ==
  /\ AwaitsDecision(b)
  /\ \A r \in Transactions : work[r].kind = "CORRECT" => Written(r) # {b}

\* decideAttendanceReview reads the outcome to correct, and only then asks for
\* the completion lock.
DecideCorrection(t, b) ==
  /\ Undecided(b)
  /\ MayCorrect
  /\ Idle(t)
  /\ work' = [work EXCEPT ![t] =
       [kind |-> "CORRECT", step |-> "WAITING", at |-> clock,
        new |-> [x \in {b} |-> Opposite(outcome[b])],
        prior |-> [x \in {b} |-> outcome[b]],
        earned |-> <<>>, seen |-> <<>>, counted |-> <<>>]]
  /\ UNCHANGED <<clock, recordVars, snapshotVars>>

CorrectAttendance(t) ==
  /\ work[t].step = "WAITING"
  /\ Free({KeyOf(b) : b \in Written(t)})
  /\ Reconcile(t, "CORRECT", work[t].at, work[t].new, work[t].prior)
  /\ UNCHANGED <<clock, recordVars, snapshotVars>>

\* A decision to uphold changes the request alone.
UpholdReview(b) ==
  /\ Undecided(b)
  /\ reviews' = [reviews EXCEPT ![b] = "UPHELD"]
  /\ UNCHANGED <<clock, outcome, publishedAt, corrections, completion,
                 snapshotVars, work>>

----------------------------------------------------------------------------
(* The snapshots that change with the completions.                         *)

\* What the transaction sees: its own completions and the committed others.
Completions(t) ==
  [k \in Keys |-> IF k \in DOMAIN work[t].earned
                  THEN work[t].earned[k] ELSE completion[k]]

CountAt(t, u, at) ==
  Cardinality({n \in Units : /\ Completions(t)[<<u, n>>] # NoCompletion
                             /\ Completions(t)[<<u, n>>].earnedAt <= at})

Captured(snapshot) == snapshot.capturedAt # NoInstant

Affected(t) == {StudentOf[b] : b \in Written(t)}

\* The recount within the frozen time scope.
Counted(t, u, d) == CountAt(t, u, work[t].seen[u][d].capturedAt)

Revises(t, u, d) ==
  /\ u \in Affected(t)
  /\ Captured(work[t].seen[u][d])
  /\ Counted(t, u, d) # work[t].seen[u][d].completed

\* Mutant: no unique constraint on (snapshot_id, revision_sequence).
AnyRevisionNumber(t) == TRUE

\* The revision rows have their numbers to themselves.
RevisionsAreNew(t) ==
  \A u \in Students, d \in Boundaries :
    Revises(t, u, d) =>
      snapshots[u][d].revision = work[t].seen[u][d].revision

ReviseSnapshots(t) ==
  /\ snapshots' = [u \in Students |-> [d \in Boundaries |->
       IF Revises(t, u, d)
       THEN [capturedAt |-> snapshots[u][d].capturedAt,
             completed |-> Counted(t, u, d),
             revision |-> snapshots[u][d].revision + 1]
       ELSE snapshots[u][d]]]
  /\ revisions' = [u \in Students |-> [d \in Boundaries |->
       IF Revises(t, u, d)
       THEN Append(revisions[u][d],
                   [prior |-> work[t].seen[u][d].completed,
                    current |-> Counted(t, u, d)])
       ELSE revisions[u][d]]]

----------------------------------------------------------------------------
(* Commit.  The recount is taken with it: a revision committed in between  *)
(* has taken the number of this one.                                       *)

\* Mutant: the correction row names the outcome twice.
CorrectionOfNew(t, b) ==
  [prior |-> work[t].prior[b], corrected |-> work[t].prior[b]]

Correction(t, b) ==
  [prior |-> work[t].prior[b], corrected |-> work[t].new[b]]

Corrects(t, b) ==
  /\ b \in Written(t)
  /\ work[t].prior[b] \notin {Unrecorded, work[t].new[b]}

WriteOutcomes(t) ==
  /\ outcome' = [b \in Bookings |->
       IF b \in Written(t) THEN work[t].new[b] ELSE outcome[b]]
  /\ publishedAt' = [b \in Bookings |->
       IF b \in Written(t) /\ work[t].prior[b] = Unrecorded
       THEN work[t].at ELSE publishedAt[b]]
  /\ corrections' = [b \in Bookings |->
       IF Corrects(t, b) THEN Append(corrections[b], Correction(t, b))
       ELSE corrections[b]]
  /\ completion' = Completions(t)

CommitAttendance(t) ==
  /\ work[t].step = "RECONCILED"
  /\ RevisionsAreNew(t)
  /\ WriteOutcomes(t)
  /\ ReviseSnapshots(t)
  /\ reviews' = IF work[t].kind = "CORRECT"
                THEN [b \in Bookings |->
                        IF b \in Written(t) THEN "CORRECTED" ELSE reviews[b]]
                ELSE reviews
  /\ Finish(t)
  /\ UNCHANGED <<clock, sponsorship>>

----------------------------------------------------------------------------
(* The boundaries of a Sponsorship: captureCourseProgressSnapshot.         *)

\* The Sponsorship, or the Student who accepts it, is locked, and the
\* completions are counted, whichever instant they were earned at.
StartBoundary(t, u, kind, from) ==
  /\ sponsorship[u] = from
  /\ \A r \in Transactions :
       work[r].kind \in {"ACCEPT", "END"} => u \notin DOMAIN work[r].counted
  /\ Idle(t)
  /\ work' = [work EXCEPT ![t] =
       [kind |-> kind, step |-> "COUNTED", at |-> clock,
        new |-> <<>>, prior |-> <<>>, earned |-> <<>>, seen |-> <<>>,
        counted |-> [v \in {u} |->
          Cardinality({n \in Units : completion[<<u, n>>] # NoCompletion})]]]
  /\ UNCHANGED <<clock, recordVars, snapshotVars>>

AcceptSponsorship(t, u) == StartBoundary(t, u, "ACCEPT", "NONE")
EndSponsorship(t, u) == StartBoundary(t, u, "END", "ACTIVE")

\* A Course without a completion is left out, unless the start reported it.
CaptureCourseProgressSnapshot(t, u, d) ==
  /\ snapshots' =
       IF \/ work[t].counted[u] > 0
          \/ Captured(snapshots[u]["SPONSORSHIP_START"])
       THEN [snapshots EXCEPT ![u][d] =
               [capturedAt |-> work[t].at, revision |-> 0,
                completed |-> work[t].counted[u]]]
       ELSE snapshots
  /\ UNCHANGED revisions

CommitBoundary(t, kind, to, d) ==
  /\ work[t].kind = kind
  /\ \E u \in DOMAIN work[t].counted :
       /\ sponsorship' = [sponsorship EXCEPT ![u] = to]
       /\ CaptureCourseProgressSnapshot(t, u, d)
  /\ Finish(t)
  /\ UNCHANGED <<clock, recordVars>>

CommitAcceptance(t) ==
  CommitBoundary(t, "ACCEPT", "ACTIVE", "SPONSORSHIP_START")
CommitEnd(t) == CommitBoundary(t, "END", "ENDED", "SPONSORSHIP_END")

----------------------------------------------------------------------------

Tick ==
  /\ clock < MaxTime
  /\ \A t \in Transactions : ~Idle(t) => clock < work[t].at + MaxLag
  /\ clock' = clock + 1
  /\ UNCHANGED <<recordVars, snapshotVars, work>>

AttendanceNext ==
  \/ \E t \in Transactions, s \in Sessions,
        actor \in {"TEACHER", "PLATFORM_ADMINISTRATOR"} :
       \E new \in [Roster(s) -> Outcomes] : RecordAttendance(t, s, actor, new)
  \/ \E b \in Reviewed : RequestAttendanceReview(b)
  \/ \E b \in Bookings : UpholdReview(b)
  \/ \E t \in Transactions, b \in Bookings : DecideCorrection(t, b)
  \/ \E t \in Transactions :
       \/ CorrectAttendance(t)
       \/ CommitAttendance(t)
       \/ RollBack(t)
       \/ CommitAcceptance(t)
       \/ CommitEnd(t)
  \/ \E t \in Transactions, u \in Students : AcceptSponsorship(t, u)
  \/ \E t \in Transactions, u \in Students : EndSponsorship(t, u)
  \/ Tick

AttendanceSpec == AttendanceInit /\ [][AttendanceNext]_attendanceVars

----------------------------------------------------------------------------
(* Properties.                                                             *)

Instants == 0 .. MaxTime
CompletionRows ==
  {NoCompletion} \cup [booking : Bookings, earnedAt : {EndsAt[s] : s \in Sessions}]
SnapshotRows ==
  [capturedAt : Instants \cup {NoInstant}, completed : 0 .. Cardinality(Units),
   revision : Nat]

\* Every table of the model holds rows of its kind, and a transaction is in
\* one of its steps.
AttendanceTypeOK ==
  /\ clock \in Instants
  /\ outcome \in [Bookings -> Outcomes \cup {Unrecorded}]
  /\ publishedAt \in [Bookings -> Instants \cup {NoInstant}]
  /\ corrections \in [Bookings ->
       Seq([prior : Outcomes, corrected : Outcomes])]
  /\ completion \in [Keys -> CompletionRows]
  /\ reviews \in [Bookings -> {"NONE", "PENDING", "UPHELD", "CORRECTED"}]
  /\ sponsorship \in [Students -> {"NONE", "ACTIVE", "ENDED"}]
  /\ snapshots \in [Students -> [Boundaries -> SnapshotRows]]
  /\ \A u \in Students, d \in Boundaries :
       revisions[u][d] \in Seq([prior : Nat, current : Nat])
  /\ \A t \in Transactions :
       /\ work[t].kind \in
            {"NONE", "RECORD", "CORRECT", "ACCEPT", "END"}
       /\ work[t].step \in
            {"IDLE", "WAITING", "RECONCILED", "COUNTED"}

\* The history of a snapshot can be replayed to its present value: as many
\* revisions as it counts, each taking up where the one before left off.
\* Two transactions that recount the same snapshot for different Lesson
\* Units hold no lock in common.
SnapshotHistoryReconciles ==
  \A u \in Students, d \in Boundaries :
    LET history == revisions[u][d] IN
    /\ Len(history) = snapshots[u][d].revision
    /\ \A i \in 1 .. Len(history) :
         history[i].current =
           IF i = Len(history) THEN snapshots[u][d].completed
           ELSE history[i + 1].prior

\* The outcome in force is the one the last correction gives, whether it was
\* a Teacher, an Administrator or the decision of a review that came last.
LastCorrectionIsEffective ==
  \A b \in Bookings :
    corrections[b] # <<>> =>
      corrections[b][Len(corrections[b])].corrected = outcome[b]

\* Every correction is accounted for, in the Record and in the snapshots.
CorrectionsReconcile ==
  AttendanceTypeOK /\ SnapshotHistoryReconciles /\ LastCorrectionIsEffective

\* What a frozen snapshot counts, with no transaction under way, is the
\* Lesson Units with an attended session that ended within its period.
SnapshotReflectsPeriod ==
  (\A t \in Transactions : Idle(t)) =>
    \A u \in Students, d \in Boundaries :
      Captured(snapshots[u][d]) =>
        snapshots[u][d].completed =
          Cardinality({n \in Units : \E b \in Bookings :
            /\ KeyOf(b) = <<u, n>>
            /\ outcome[b] = "ATTENDED"
            /\ Ended(b) <= snapshots[u][d].capturedAt})

\* What a reader of the records sees, with every correction and what
\* depends on it in one step.
Effective == INSTANCE AtomicAttendance WITH
  effective <- outcome,
  completed <- {k \in Keys : completion[k] # NoCompletion},
  review <- reviews

\* Attendance implements it: an outcome, the Lesson Unit Completion that
\* rests on it and the decision of its review change together, whatever
\* transactions are under way, and a decision is never taken twice.
ImplementsAtomicAttendance == Effective!AtomicSpec

============================================================================
