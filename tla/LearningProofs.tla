--------------------------- MODULE LearningProofs ---------------------------
(***************************************************************************)
(* Theorems about what precedes a session and what follows it: what it     *)
(* teaches, who may teach it and when, the feedback written about it and   *)
(* the attendance recorded for it, for every value of the constants.       *)
(***************************************************************************)
EXTENDS Attendance, Feedback, Availability, Teaching, FiniteSetTheorems,
        SequenceTheorems, WellFoundedInduction, TLAPS

----------------------------------------------------------------------------
(* Feedback and ratings.                                                   *)

\* Only an anonymization adds to the redactions an Administrator may make,
\* and nothing is redacted after it.
RedactionsAreBounded ==
  anonymized \/ \A b \in Booked :
    feedback[b].redactions <= MaxRedactions
      /\ rating[b].redactions <= MaxRedactions

\* Feedback that was never saved has no text.
UnsavedIsEmpty ==
  \A b \in Booked : feedback[b].state = "NONE" => feedback[b].text = "EMPTY"

FeedbackInv ==
  /\ FeedbackTypeOK /\ SubmissionAnnouncedOnce /\ FormerStudentIsRedacted
  /\ RedactionsAreBounded /\ UnsavedIsEmpty

FeedbackRows ==
  [state : States, submittedAt : 0 .. LastTime \cup {NoTime},
   text : Texts, redactions : 0 .. MaxRedactions + 1]
RatingRows == [text : Texts, redactions : 0 .. MaxRedactions + 1]
Announcements ==
  [submission : Nat, teacherRedaction : Nat, studentRedaction : Nat]

LEMMA FeedbackInitInv == FeedbackInit => FeedbackInv
<1> SUFFICES ASSUME FeedbackInit PROVE FeedbackInv
  OBVIOUS
<1>1. FeedbackTypeOK
  <2>1. time \in 0 .. LastTime /\ 0 \in 0 .. MaxRedactions + 1
    BY FeedbackAssumption DEF FeedbackInit
  <2>2. NoFeedback \in FeedbackRows /\ NoRating \in RatingRows
    BY <2>1 DEF NoFeedback, NoRating, FeedbackRows, RatingRows, States, Texts
  <2>3. feedback \in [Booked -> FeedbackRows] /\ rating \in [Booked -> RatingRows]
    BY <2>2 DEF FeedbackInit
  <2>4. anonymized \in BOOLEAN
    BY DEF FeedbackInit
  <2>5. announced \in [Booked -> Announcements]
    BY DEF FeedbackInit, Announcements
  <2>6. attendance \in [Booked ->
          [outcome : {"UNRECORDED", "ATTENDED", "NO_SHOW"},
           correctedAt : 0 .. LastTime \cup {NoTime}]]
    BY DEF FeedbackInit
  <2> QED BY <2>1, <2>3, <2>4, <2>5, <2>6
          DEF FeedbackTypeOK, FeedbackRows, RatingRows, Announcements
<1> QED BY <1>1, FeedbackAssumption
        DEF FeedbackInit, FeedbackInv, SubmissionAnnouncedOnce,
            FormerStudentIsRedacted, RedactionsAreBounded, UnsavedIsEmpty,
            NoFeedback, NoRating

LEMMA RedactedRows ==
  ASSUME NEW row \in FeedbackRows, row.redactions <= MaxRedactions
  PROVE  /\ RedactedFeedback(row) \in FeedbackRows
         /\ RedactedFeedback(row).state = row.state
         /\ RedactedFeedback(row).submittedAt = row.submittedAt
         /\ RedactedFeedback(row).text = "REDACTED"
         /\ RedactedFeedback(row).redactions = row.redactions + 1
BY FeedbackAssumption DEF RedactedFeedback, FeedbackRows, Texts

LEMMA RedactedRatings ==
  ASSUME NEW row \in RatingRows, row.redactions <= MaxRedactions
  PROVE  /\ RedactedRating(row) \in RatingRows
         /\ RedactedRating(row).text = "REDACTED"
BY FeedbackAssumption DEF RedactedRating, RatingRows, Texts

LEMMA AttendInv ==
  ASSUME FeedbackInv, NEW b \in Booked,
         NEW o \in {"ATTENDED", "NO_SHOW"}, Attend(b, o)
  PROVE  FeedbackInv'
<1>1. FeedbackTypeOK'
  BY DEF FeedbackInv, FeedbackTypeOK, Attend
<1> QED BY <1>1
        DEF FeedbackInv, Attend, SubmissionAnnouncedOnce,
            FormerStudentIsRedacted, RedactionsAreBounded, UnsavedIsEmpty

LEMMA SaveFeedbackInv ==
  ASSUME FeedbackInv, NEW b \in Booked, NEW submit \in BOOLEAN,
         SaveLearningFeedback(b, submit)
  PROVE  FeedbackInv'
<1> DEFINE state == SavedState(b, submit)
           at == IF state = "DRAFT" THEN NoTime
                 ELSE IF feedback[b].submittedAt # NoTime
                 THEN feedback[b].submittedAt ELSE time
           row == [state |-> state, submittedAt |-> at, text |-> "WRITTEN",
                   redactions |-> feedback[b].redactions]
<1>1. /\ feedback[b] \in FeedbackRows /\ ~anonymized
      /\ time \in 0 .. LastTime
      /\ feedback[b].submittedAt # NoTime <=> feedback[b].state = "SUBMITTED"
  BY DEF FeedbackInv, FeedbackTypeOK, FeedbackRows, SaveLearningFeedback,
         MayBeWritten, SubmissionAnnouncedOnce
<1>2. state \in {"DRAFT", "SUBMITTED"}
      /\ (feedback[b].state = "SUBMITTED" => state = "SUBMITTED")
  BY DEF SavedState
<1>3. at \in 0 .. LastTime \cup {NoTime}
      /\ (at # NoTime <=> state = "SUBMITTED")
  BY <1>1, <1>2, FeedbackAssumption DEF FeedbackRows, NoTime
<1> HIDE DEF state, at
<1>4. row \in FeedbackRows
  BY <1>1, <1>2, <1>3 DEF FeedbackRows, States, Texts
<1>5. /\ feedback' = [feedback EXCEPT ![b] = row]
      /\ UNCHANGED <<time, attendance, rating, anonymized>>
      /\ announced' = IF state = "SUBMITTED" /\ feedback[b].state # "SUBMITTED"
                      THEN [announced EXCEPT ![b].submission = @ + 1]
                      ELSE announced
  BY DEF SaveLearningFeedback, state, at
<1>6. FeedbackTypeOK'
  <2>1. feedback' \in [Booked -> FeedbackRows]
    BY <1>4, <1>5 DEF FeedbackInv, FeedbackTypeOK, FeedbackRows
  <2>2. announced' \in [Booked -> Announcements]
    <3>1. announced \in [Booked -> Announcements]
      BY DEF FeedbackInv, FeedbackTypeOK, Announcements
    <3>2. [announced[b] EXCEPT !.submission = @ + 1] \in Announcements
      BY <3>1 DEF Announcements
    <3> QED BY <1>5, <3>1, <3>2
  <2> QED BY <1>5, <2>1, <2>2
          DEF FeedbackInv, FeedbackTypeOK, FeedbackRows, Announcements
<1>7. SubmissionAnnouncedOnce'
  BY <1>1, <1>2, <1>3, <1>5
     DEF FeedbackInv, FeedbackTypeOK, SubmissionAnnouncedOnce
<1>8. FormerStudentIsRedacted' /\ RedactionsAreBounded' /\ UnsavedIsEmpty'
  BY <1>1, <1>2, <1>5
     DEF FeedbackInv, FeedbackTypeOK, FormerStudentIsRedacted,
         RedactionsAreBounded, UnsavedIsEmpty
<1> QED BY <1>6, <1>7, <1>8 DEF FeedbackInv

LEMMA RedactFeedbackInv ==
  ASSUME FeedbackInv, NEW b \in Booked, RedactLearningFeedback(b)
  PROVE  FeedbackInv'
<1> DEFINE row == RedactedFeedback(feedback[b])
<1>1. /\ feedback[b] \in FeedbackRows /\ ~anonymized
      /\ feedback[b].redactions < MaxRedactions
      /\ feedback[b].state # "NONE"
  BY DEF FeedbackInv, FeedbackTypeOK, FeedbackRows, RedactLearningFeedback,
         MayBeWritten
<1>2. /\ row \in FeedbackRows /\ row.state = feedback[b].state
      /\ row.submittedAt = feedback[b].submittedAt
      /\ row.redactions <= MaxRedactions
  BY <1>1, RedactedRows, FeedbackAssumption DEF FeedbackRows
<1> HIDE DEF row
<1>3. /\ feedback' = [feedback EXCEPT ![b] = row]
      /\ UNCHANGED <<time, attendance, rating, anonymized>>
  BY DEF RedactLearningFeedback, row
<1>4. /\ announced' \in [Booked -> Announcements]
      /\ \A c \in Booked : announced'[c].submission = announced[c].submission
      /\ \A c \in Booked : announced'[c].studentRedaction > 0 =>
           announced[c].studentRedaction > 0
             \/ (c = b /\ feedback[b].state = "SUBMITTED")
  <2>1. announced \in [Booked -> Announcements]
    BY DEF FeedbackInv, FeedbackTypeOK, Announcements
  <2> DEFINE told == [submission |-> announced[b].submission,
                      teacherRedaction |-> announced[b].teacherRedaction + 1,
                      studentRedaction |-> announced[b].studentRedaction
                        + (IF TellsStudent(b) THEN 1 ELSE 0)]
  <2>2. announced' = [announced EXCEPT ![b] = told]
    BY <2>1 DEF RedactLearningFeedback
  <2>3. /\ told \in Announcements
        /\ told.submission = announced[b].submission
        /\ told.studentRedaction > 0 =>
             announced[b].studentRedaction > 0 \/ TellsStudent(b)
    BY <2>1 DEF Announcements
  <2> HIDE DEF told
  <2>4. /\ announced' \in [Booked -> Announcements]
        /\ \A c \in Booked :
             announced'[c] = IF c = b THEN told ELSE announced[c]
    BY <2>1, <2>2, <2>3
  <2>5. \A c \in Booked : announced'[c].submission = announced[c].submission
    BY <2>3, <2>4
  <2>6. ASSUME NEW c \in Booked, announced'[c].studentRedaction > 0
        PROVE  announced[c].studentRedaction > 0
                 \/ (c = b /\ feedback[b].state = "SUBMITTED")
    BY <2>3, <2>4, <2>6 DEF TellsStudent
  <2> QED BY <2>4, <2>5, <2>6
<1>5. FeedbackTypeOK'
  BY <1>2, <1>3, <1>4
     DEF FeedbackInv, FeedbackTypeOK, FeedbackRows, Announcements
<1>6. \A c \in Booked : /\ feedback'[c].state = feedback[c].state
                        /\ feedback'[c].submittedAt = feedback[c].submittedAt
  BY <1>2, <1>3 DEF FeedbackInv, FeedbackTypeOK
<1>7. SubmissionAnnouncedOnce'
  BY <1>4, <1>6 DEF FeedbackInv, SubmissionAnnouncedOnce
<1>8. FormerStudentIsRedacted' /\ RedactionsAreBounded' /\ UnsavedIsEmpty'
  BY <1>1, <1>2, <1>3
     DEF FeedbackInv, FeedbackTypeOK, FormerStudentIsRedacted,
         RedactionsAreBounded, UnsavedIsEmpty
<1> QED BY <1>5, <1>7, <1>8 DEF FeedbackInv

LEMMA RatingInv ==
  ASSUME FeedbackInv, NEW b \in Booked,
         SaveSessionRating(b) \/ RedactSessionRatingComment(b)
  PROVE  FeedbackInv'
<1>1. /\ ~anonymized /\ rating[b] \in RatingRows
      /\ UNCHANGED <<time, attendance, feedback, anonymized, announced>>
  BY DEF SaveSessionRating, RedactSessionRatingComment, MayBeWritten,
         FeedbackInv, FeedbackTypeOK, RatingRows
<1>2. PICK row \in RatingRows :
        /\ rating' = [rating EXCEPT ![b] = row]
        /\ row.redactions <= MaxRedactions
  <2>1. CASE SaveSessionRating(b)
    <3> DEFINE row == [text |-> "WRITTEN", redactions |-> rating[b].redactions]
    <3>1. rating' = [rating EXCEPT ![b] = row]
      <4>1. [rating[b] EXCEPT !.text = "WRITTEN"] = row
        BY <1>1 DEF RatingRows
      <4>2. rating \in [Booked -> RatingRows]
        BY DEF FeedbackInv, FeedbackTypeOK, RatingRows
      <4>3. rating' = [rating EXCEPT ![b].text = "WRITTEN"]
        BY <2>1 DEF SaveSessionRating
      <4> HIDE DEF row
      <4> QED BY <4>1, <4>2, <4>3
    <3>2. row \in RatingRows /\ row.redactions <= MaxRedactions
      BY <1>1 DEF RatingRows, Texts, FeedbackInv, RedactionsAreBounded
    <3> QED BY <3>1, <3>2
  <2>2. CASE RedactSessionRatingComment(b)
    <3> DEFINE row == RedactedRating(rating[b])
    <3>1. rating' = [rating EXCEPT ![b] = row]
      BY <2>2 DEF RedactSessionRatingComment
    <3>2. row \in RatingRows /\ row.redactions <= MaxRedactions
      BY <1>1, <2>2, FeedbackAssumption
         DEF RedactSessionRatingComment, RedactedRating, RatingRows, Texts
    <3> QED BY <3>1, <3>2
  <2> QED BY <2>1, <2>2
<1>3. FeedbackTypeOK'
  BY <1>1, <1>2 DEF FeedbackInv, FeedbackTypeOK, RatingRows
<1>4. SubmissionAnnouncedOnce' /\ FormerStudentIsRedacted' /\ UnsavedIsEmpty'
  BY <1>1
     DEF FeedbackInv, SubmissionAnnouncedOnce, FormerStudentIsRedacted,
         UnsavedIsEmpty
<1>5. RedactionsAreBounded'
  BY <1>1, <1>2 DEF FeedbackInv, FeedbackTypeOK, RedactionsAreBounded
<1> QED BY <1>3, <1>4, <1>5 DEF FeedbackInv

LEMMA AnonymizationInv ==
  ASSUME FeedbackInv, RedactForAnonymization
  PROVE  FeedbackInv'
<1>1. ~anonymized /\ anonymized' /\ UNCHANGED <<time, attendance, announced>>
  BY DEF RedactForAnonymization, MayAnonymize
<1>2. ASSUME NEW b \in Booked
      PROVE  /\ feedback'[b] \in FeedbackRows /\ rating'[b] \in RatingRows
             /\ feedback'[b].state = feedback[b].state
             /\ feedback'[b].submittedAt = feedback[b].submittedAt
             /\ feedback'[b].text # "WRITTEN" /\ rating'[b].text # "WRITTEN"
             /\ feedback'[b].state = "NONE" => feedback'[b].text = "EMPTY"
  <2>1. /\ feedback[b] \in FeedbackRows /\ rating[b] \in RatingRows
        /\ feedback[b].redactions <= MaxRedactions
        /\ rating[b].redactions <= MaxRedactions
        /\ feedback[b].state = "NONE" => feedback[b].text = "EMPTY"
    BY <1>1
       DEF FeedbackInv, FeedbackTypeOK, FeedbackRows, RatingRows,
           RedactionsAreBounded, UnsavedIsEmpty
  <2>2. /\ feedback'[b] = IF feedback[b].state = "NONE" THEN feedback[b]
                          ELSE RedactedFeedback(feedback[b])
        /\ rating'[b] = IF rating[b].text = "EMPTY" THEN rating[b]
                        ELSE RedactedRating(rating[b])
    BY DEF RedactForAnonymization
  <2> QED BY <2>1, <2>2, RedactedRows, RedactedRatings
<1>3. feedback' \in [Booked -> FeedbackRows] /\ rating' \in [Booked -> RatingRows]
  BY <1>2 DEF RedactForAnonymization
<1>4. FeedbackTypeOK'
  BY <1>1, <1>3 DEF FeedbackInv, FeedbackTypeOK, FeedbackRows, RatingRows
<1> QED BY <1>1, <1>2, <1>4
        DEF FeedbackInv, SubmissionAnnouncedOnce, FormerStudentIsRedacted,
            RedactionsAreBounded, UnsavedIsEmpty

LEMMA FeedbackStepInv ==
  FeedbackInv /\ [FeedbackNext]_feedbackVars => FeedbackInv'
<1>1. SUFFICES ASSUME FeedbackInv, [FeedbackNext]_feedbackVars
               PROVE  FeedbackInv'
  OBVIOUS
<1>2. CASE FeedbackTick
  <2>1. FeedbackTypeOK'
    BY <1>1, <1>2, FeedbackAssumption
       DEF FeedbackInv, FeedbackTypeOK, FeedbackTick
  <2> QED BY <1>1, <1>2, <2>1
          DEF FeedbackInv, FeedbackTick, SubmissionAnnouncedOnce,
              FormerStudentIsRedacted, RedactionsAreBounded, UnsavedIsEmpty
<1>3. CASE UNCHANGED feedbackVars
  <2>1. FeedbackTypeOK'
    BY <1>1, <1>3 DEF FeedbackInv, FeedbackTypeOK, feedbackVars
  <2> QED BY <1>1, <1>3, <2>1
          DEF FeedbackInv, feedbackVars, SubmissionAnnouncedOnce,
              FormerStudentIsRedacted, RedactionsAreBounded, UnsavedIsEmpty
<1> QED BY <1>1, <1>2, <1>3, AttendInv, SaveFeedbackInv, RedactFeedbackInv,
           RatingInv, AnonymizationInv
        DEF FeedbackNext

\* A Student is told of feedback exactly once, when it is first submitted,
\* and of its redaction only if they were told of it; and no written text
\* about them outlives their anonymization.
THEOREM FeedbackStaysAccountable == FeedbackSpec => []FeedbackIsAccountable
<1>1. FeedbackInv => FeedbackIsAccountable
  BY DEF FeedbackInv, FeedbackIsAccountable
<1> QED BY <1>1, FeedbackInitInv, FeedbackStepInv, PTL DEF FeedbackSpec

----------------------------------------------------------------------------
(* Attendance.  A transaction under way holds what it read; the invariant  *)
(* says what of it is still true when it commits, and in what two          *)
(* transactions under way never meet.                                      *)

ReviewStates == {"NONE", "PENDING", "UPHELD", "CORRECTED"}
CorrectionRows == [prior : Outcomes, corrected : Outcomes]
RevisionRows == [prior : Nat, current : Nat]
Frozen == [Students -> [Boundaries -> SnapshotRows]]

RecordsAreTyped ==
  /\ clock \in Instants
  /\ outcome \in [Bookings -> Outcomes \cup {Unrecorded}]
  /\ publishedAt \in [Bookings -> Instants \cup {NoInstant}]
  /\ corrections \in [Bookings -> Seq(CorrectionRows)]
  /\ completion \in [Keys -> CompletionRows]
  /\ reviews \in [Bookings -> ReviewStates]

SnapshotsAreTyped ==
  /\ sponsorship \in [Students -> {"NONE", "ACTIVE", "ENDED"}]
  /\ snapshots \in Frozen
  /\ revisions \in [Students -> [Boundaries -> Seq(RevisionRows)]]

\* What has no outcome was never corrected and is not under review.
UnrecordedIsUntouched ==
  \A b \in Bookings :
    outcome[b] = Unrecorded => corrections[b] = <<>> /\ reviews[b] = "NONE"

AttendedIn(outcomes, k) ==
  \E b \in Bookings : KeyOf(b) = k /\ outcomes[b] = "ATTENDED"

\* A Lesson Unit is completed exactly when one of its sessions was attended.
CompletionsAreAttended ==
  \A k \in Keys : completion[k] # NoCompletion <=> AttendedIn(outcome, k)

\* A boundary is captured once, when the Sponsorship passes it.
FrozenOnce ==
  \A u \in Students :
    /\ sponsorship[u] = "NONE" =>
         ~Captured(snapshots[u]["SPONSORSHIP_START"])
    /\ sponsorship[u] # "ENDED" =>
         ~Captured(snapshots[u]["SPONSORSHIP_END"])
    /\ \A d \in Boundaries :
         ~Captured(snapshots[u][d]) => snapshots[u][d].revision = 0

RecordsInv ==
  /\ RecordsAreTyped /\ UnrecordedIsUntouched
  /\ CompletionsAreAttended /\ LastCorrectionIsEffective

SnapshotsInv == SnapshotsAreTyped /\ FrozenOnce /\ SnapshotHistoryReconciles

\* A transaction that records or corrects, waiting for its locks or with
\* them.
IsWriting(row) ==
  /\ row.kind \in {"RECORD", "CORRECT"}
  /\ row.step \in {"WAITING", "RECONCILED"}
  /\ row.at \in Instants
  /\ row.counted = <<>>
  /\ DOMAIN row.new \subseteq Bookings
  /\ row.new \in [DOMAIN row.new -> Outcomes]
  /\ row.prior \in [DOMAIN row.new -> Outcomes \cup {Unrecorded}]
  /\ row.kind = "RECORD" =>
       /\ row.step = "RECONCILED"
       /\ \E s \in Sessions : DOMAIN row.new = Roster(s)
  /\ row.kind = "CORRECT" =>
       \E b \in Bookings :
         /\ DOMAIN row.new = {b}
         /\ row.prior[b] \in Outcomes
         /\ row.new[b] = Opposite(row.prior[b])

LockedBy(row) ==
  IF row.step \in {"IDLE", "WAITING"} THEN {}
  ELSE {KeyOf(b) : b \in DOMAIN row.new}

\* The outcomes once it commits.
OutcomesAfter(row) ==
  [b \in Bookings |->
     IF b \in DOMAIN row.new THEN row.new[b] ELSE outcome[b]]

\* A snapshot that was read is the present one, or has been revised since.
IsPast(seen) ==
  \A u \in Students, d \in Boundaries :
    Captured(seen[u][d]) =>
      /\ Captured(snapshots[u][d])
      /\ seen[u][d].revision <= snapshots[u][d].revision
      /\ seen[u][d].revision = snapshots[u][d].revision =>
           seen[u][d].completed = snapshots[u][d].completed

\* With its locks, what it has written of the completions agrees with the
\* outcomes it leaves.
IsReconciled(row) ==
  /\ row.earned \in [LockedBy(row) -> CompletionRows]
  /\ row.seen \in Frozen
  /\ IsPast(row.seen)
  /\ \A k \in LockedBy(row) :
       row.earned[k] # NoCompletion <=> AttendedIn(OutcomesAfter(row), k)

\* What a recording read is still in force, and a decision still awaited.
IsEffective(row) ==
  \A b \in DOMAIN row.new :
    /\ row.kind = "RECORD" => row.prior[b] = outcome[b]
    /\ row.kind = "CORRECT" => reviews[b] = "PENDING"

\* A transaction that has counted for a boundary of a Sponsorship.
IsCounting(row) ==
  /\ row.kind \in {"ACCEPT", "END"}
  /\ row.step = "COUNTED"
  /\ row.at \in Instants
  /\ row.new = <<>>
  /\ \E u \in Students :
       /\ DOMAIN row.counted = {u}
       /\ row.counted[u] \in 0 .. Cardinality(Units)
       /\ sponsorship[u] = IF row.kind = "ACCEPT" THEN "NONE" ELSE "ACTIVE"

IsSound(row) ==
  \/ row = NoWork
  \/ /\ IsWriting(row)
     /\ IsEffective(row)
     /\ row.step = "RECONCILED" => IsReconciled(row)
  \/ IsCounting(row)

\* Two transactions hold no lock in common, pass no boundary of one
\* Sponsorship and decide about no one review.
AreApart(row, other) ==
  /\ LockedBy(row) \cap LockedBy(other) = {}
  /\ DOMAIN row.counted \cap DOMAIN other.counted = {}
  /\ row.kind = "CORRECT" /\ other.kind = "CORRECT" =>
       DOMAIN row.new # DOMAIN other.new

WorkInv ==
  /\ DOMAIN work = Transactions
  /\ \A t \in Transactions : IsSound(work[t])
  /\ \A t, r \in Transactions : t # r => AreApart(work[t], work[r])

AttendanceInv == RecordsInv /\ SnapshotsInv /\ WorkInv
LEMMA EarliestIsOneOfThem ==
  ASSUME NEW S \in SUBSET Bookings, S # {}
  PROVE  Earliest(S) \in S
<1> DEFINE T == {Ended(c) : c \in S}
<1>1. T \subseteq Nat /\ T # {}
  BY AttendanceAssumption DEF Ended
<1> DEFINE R == {ss \in Nat \X Nat : ss[1] < ss[2]}
<1>2. PICK x \in T : \A y \in T : ~(<<y, x>> \in R)
  <2>1. IsWellFoundedOn(R, Nat)
    BY NatLessThanWellFounded DEF OpToRel
  <2> HIDE DEF T, R
  <2> QED BY <1>1, <2>1, WFMin
<1>3. PICK c \in S : \A d \in S : Ended(c) <= Ended(d)
  <2>1. PICK c \in S : x = Ended(c)
    OBVIOUS
  <2>2. ASSUME NEW d \in S
        PROVE  Ended(c) <= Ended(d)
    <3>1. Ended(d) \in T
      OBVIOUS
    <3> HIDE DEF T
    <3>2. /\ Ended(c) \in Nat /\ Ended(d) \in Nat
          /\ ~(<<Ended(d), Ended(c)>> \in R)
      BY <1>1, <1>2, <2>1, <3>1
    <3> QED BY <3>2
  <2> QED BY <2>2
<1> QED BY <1>3 DEF Earliest

\* The Bookings of one transaction are completed apart.
LEMMA WrittenKeys ==
  ASSUME NEW row, IsWriting(row), NEW b \in DOMAIN row.new,
         NEW c \in DOMAIN row.new, KeyOf(b) = KeyOf(c)
  PROVE  b = c
<1>1. StudentOf[b] = StudentOf[c]
  BY DEF KeyOf
<1>2. CASE row.kind = "RECORD"
  <2>1. PICK s \in Sessions : DOMAIN row.new = Roster(s)
    BY <1>2 DEF IsWriting
  <2> QED BY <1>1, <2>1, AttendanceAssumption DEF Roster
<1>3. CASE row.kind = "CORRECT"
  BY <1>3 DEF IsWriting
<1> QED BY <1>2, <1>3 DEF IsWriting

LEMMA KeysAreKeys ==
  ASSUME NEW b \in Bookings
  PROVE  KeyOf(b) \in Keys
BY AttendanceAssumption DEF KeyOf, Keys

LEMMA ReconciledCompletions ==
  ASSUME RecordsInv, NEW b \in Bookings, NEW prior \in Outcomes \cup {Unrecorded},
         NEW new \in Outcomes, prior = outcome[b] \/ prior = Opposite(new)
  PROVE  /\ Reconciled(b, prior, new) \in CompletionRows
         /\ Reconciled(b, prior, new) # NoCompletion <=>
              new = "ATTENDED" \/ OtherAttended(b) # {}
<1> DEFINE held == completion[KeyOf(b)]
<1>1. held \in CompletionRows
  BY KeysAreKeys DEF RecordsInv, RecordsAreTyped
<1>2. ASSUME NEW c \in Bookings
      PROVE  EarnedBy(c) \in CompletionRows /\ EarnedBy(c) # NoCompletion
  <2>1. SessionOf[c] \in Sessions /\ Ended(c) \in Nat
    BY AttendanceAssumption DEF Ended
  <2>2. EarnedBy(c).earnedAt # NoCompletion.earnedAt
    BY <2>1 DEF EarnedBy, NoCompletion, NoInstant
  <2> QED BY <2>1, <2>2 DEF EarnedBy, CompletionRows, Ended
<1>3. held # NoCompletion <=> OtherAttended(b) # {} \/ outcome[b] = "ATTENDED"
  <2>1. held # NoCompletion <=> AttendedIn(outcome, KeyOf(b))
    BY KeysAreKeys DEF RecordsInv, CompletionsAreAttended
  <2>2. OtherAttended(b) # {} <=>
          \E c \in Bookings \ {b} : KeyOf(c) = KeyOf(b) /\ outcome[c] = "ATTENDED"
    BY DEF OtherAttended
  <2> QED BY <2>1, <2>2 DEF AttendedIn
<1>4. CASE new = "ATTENDED"
  BY <1>1, <1>2, <1>4 DEF Reconciled
<1>5. CASE new # "ATTENDED" /\ prior # "ATTENDED"
  <2>1. Reconciled(b, prior, new) = held
    BY <1>5 DEF Reconciled
  <2>2. outcome[b] # "ATTENDED"
    BY <1>5 DEF Opposite, Outcomes
  <2> QED BY <1>1, <1>3, <1>5, <2>1, <2>2
<1>6. CASE new # "ATTENDED" /\ prior = "ATTENDED"
  <2>1. CASE OtherAttended(b) = {}
    BY <1>6, <2>1 DEF Reconciled, CompletionRows
  <2>2. CASE OtherAttended(b) # {}
    <3>1. OtherAttended(b) \in SUBSET Bookings
      BY DEF OtherAttended
    <3>2. Earliest(OtherAttended(b)) \in Bookings
      BY <2>2, <3>1, EarliestIsOneOfThem
    <3>3. held # NoCompletion
      BY <1>3, <2>2
    <3>4. Reconciled(b, prior, new) = EarnedBy(Earliest(OtherAttended(b)))
      BY <1>6, <2>2, <3>3 DEF Reconciled
    <3> QED BY <1>2, <2>2, <3>2, <3>4
  <2> QED BY <2>1, <2>2
<1> QED BY <1>4, <1>5, <1>6

\* A step that changes one transaction and nothing else.
LEMMA WorkStep ==
  ASSUME AttendanceInv, NEW t \in Transactions, NEW row, IsSound(row),
         \A r \in Transactions \ {t} : AreApart(row, work[r]),
         work' = [work EXCEPT ![t] = row],
         UNCHANGED <<clock, recordVars, snapshotVars>>
  PROVE  AttendanceInv'
<1>1. RecordsInv'
  BY DEF AttendanceInv, RecordsInv, RecordsAreTyped, UnrecordedIsUntouched,
         CompletionsAreAttended, AttendedIn, LastCorrectionIsEffective,
         recordVars
<1>2. SnapshotsInv'
  BY DEF AttendanceInv, SnapshotsInv, SnapshotsAreTyped, FrozenOnce,
         SnapshotHistoryReconciles, snapshotVars
<1>3. ASSUME NEW r \in Transactions
      PROVE  IsSound(work[r])'
  <2>1. PICK kept : kept = work'[r] /\ IsSound(kept)
    <3>1. work'[r] = IF r = t THEN row ELSE work[r]
      BY DEF AttendanceInv, WorkInv
    <3>2. IsSound(IF r = t THEN row ELSE work[r])
      BY DEF AttendanceInv, WorkInv
    <3> QED BY <3>1, <3>2
  <2>2. CASE kept = NoWork
    BY <2>1, <2>2 DEF IsSound
  <2>3. CASE IsWriting(kept) /\ IsEffective(kept)
               /\ (kept.step = "RECONCILED" => IsReconciled(kept))
    <3>1. IsEffective(kept)'
      BY <2>3 DEF IsEffective, recordVars
    <3>2. OutcomesAfter(kept)' = OutcomesAfter(kept)
      BY DEF OutcomesAfter, recordVars
    <3>3. ASSUME IsReconciled(kept)
          PROVE  IsReconciled(kept)'
      BY <3>2, <3>3 DEF IsReconciled, AttendedIn, IsPast, snapshotVars
    <3> QED BY <2>1, <2>3, <3>1, <3>3 DEF IsSound
  <2>4. CASE IsCounting(kept)
    <3>1. IsCounting(kept)'
      BY <2>4 DEF IsCounting, snapshotVars
    <3> QED BY <2>1, <3>1 DEF IsSound
  <2> QED BY <2>1, <2>2, <2>3, <2>4 DEF IsSound
<1>4. \A p, q \in Transactions : p # q => AreApart(work[p], work[q])'
  BY DEF AttendanceInv, WorkInv, AreApart
<1>5. DOMAIN work' = Transactions
  BY DEF AttendanceInv, WorkInv
<1> QED BY <1>1, <1>2, <1>3, <1>4, <1>5 DEF AttendanceInv, WorkInv

LEMMA NewlyReconciled ==
  ASSUME RecordsInv, SnapshotsInv, NEW row, IsWriting(row),
         row.step = "RECONCILED",
         row.seen = snapshots,
         row.earned = [k \in {KeyOf(b) : b \in DOMAIN row.new} |->
           LET b == CHOOSE c \in DOMAIN row.new : KeyOf(c) = k
           IN Reconciled(b, row.prior[b], row.new[b])],
         \A b \in DOMAIN row.new :
           row.prior[b] = outcome[b] \/ row.prior[b] = Opposite(row.new[b])
  PROVE  IsReconciled(row)
<1>1. LockedBy(row) = {KeyOf(b) : b \in DOMAIN row.new}
  BY DEF LockedBy
<1>2. ASSUME NEW b \in DOMAIN row.new
      PROVE  /\ row.earned[KeyOf(b)] \in CompletionRows
             /\ row.earned[KeyOf(b)] # NoCompletion <=>
                  AttendedIn(OutcomesAfter(row), KeyOf(b))
  <2>1. (CHOOSE c \in DOMAIN row.new : KeyOf(c) = KeyOf(b)) = b
    BY WrittenKeys
  <2>2. row.earned[KeyOf(b)] = Reconciled(b, row.prior[b], row.new[b])
    BY <2>1
  <2>3. /\ b \in Bookings /\ row.new[b] \in Outcomes
        /\ row.prior[b] \in Outcomes \cup {Unrecorded}
    BY DEF IsWriting
  <2>4. /\ Reconciled(b, row.prior[b], row.new[b]) \in CompletionRows
        /\ Reconciled(b, row.prior[b], row.new[b]) # NoCompletion <=>
             row.new[b] = "ATTENDED" \/ OtherAttended(b) # {}
    BY <2>3, ReconciledCompletions
  <2>5. AttendedIn(OutcomesAfter(row), KeyOf(b)) <=>
          row.new[b] = "ATTENDED" \/ OtherAttended(b) # {}
    <3>1. ASSUME NEW c \in Bookings, KeyOf(c) = KeyOf(b), c # b
          PROVE  OutcomesAfter(row)[c] = outcome[c]
      BY <3>1, WrittenKeys DEF OutcomesAfter
    <3>2. OutcomesAfter(row)[b] = row.new[b]
      BY <2>3 DEF OutcomesAfter
    <3>3. OtherAttended(b) # {} <=>
            \E c \in Bookings \ {b} :
              KeyOf(c) = KeyOf(b) /\ outcome[c] = "ATTENDED"
      BY DEF OtherAttended
    <3> QED BY <2>3, <3>1, <3>2, <3>3 DEF AttendedIn
  <2> QED BY <2>2, <2>4, <2>5
<1>3. row.earned \in [LockedBy(row) -> CompletionRows]
  BY <1>1, <1>2
<1>4. IsPast(row.seen) /\ row.seen \in Frozen
  BY DEF IsPast, SnapshotsInv, SnapshotsAreTyped, Frozen, SnapshotRows
<1>5. ASSUME NEW k \in LockedBy(row)
      PROVE  row.earned[k] # NoCompletion <=> AttendedIn(OutcomesAfter(row), k)
  <2>1. PICK b \in DOMAIN row.new : k = KeyOf(b)
    BY <1>1
  <2> QED BY <1>2, <2>1
<1> QED BY <1>3, <1>4, <1>5 DEF IsReconciled

LEMMA RecordStep ==
  ASSUME AttendanceInv, NEW t \in Transactions, NEW s \in Sessions, NEW actor,
         NEW new \in [Roster(s) -> Outcomes], RecordAttendance(t, s, actor, new)
  PROVE  AttendanceInv'
<1> DEFINE prior == [b \in Roster(s) |-> outcome[b]]
           row == [kind |-> "RECORD", step |-> "RECONCILED", at |-> clock,
                   new |-> new, prior |-> prior,
                   earned |-> [k \in {KeyOf(b) : b \in DOMAIN new} |->
                     LET b == CHOOSE c \in DOMAIN new : KeyOf(c) = k
                     IN Reconciled(b, prior[b], new[b])],
                   seen |-> snapshots, counted |-> <<>>]
<1>1. /\ work' = [work EXCEPT ![t] = row]
      /\ UNCHANGED <<clock, recordVars, snapshotVars>>
  BY DEF RecordAttendance, Reconcile
<1>2. /\ row.kind = "RECORD" /\ row.step = "RECONCILED" /\ row.at = clock
      /\ row.new = new /\ row.prior = prior /\ row.seen = snapshots
      /\ row.counted = <<>>
      /\ row.earned = [k \in {KeyOf(b) : b \in DOMAIN row.new} |->
           LET b == CHOOSE c \in DOMAIN row.new : KeyOf(c) = k
           IN Reconciled(b, row.prior[b], row.new[b])]
  OBVIOUS
<1> HIDE DEF row
<1>3. /\ DOMAIN row.new = Roster(s) /\ Roster(s) \subseteq Bookings
      /\ \A b \in DOMAIN row.new : row.prior[b] = outcome[b]
  BY <1>2 DEF Roster
<1>4. IsWriting(row)
  BY <1>2, <1>3
     DEF IsWriting, AttendanceInv, RecordsInv, RecordsAreTyped
<1>5. IsReconciled(row)
  BY <1>2, <1>3, <1>4, NewlyReconciled DEF AttendanceInv
<1>6. IsSound(row)
  BY <1>2, <1>3, <1>4, <1>5 DEF IsSound, IsEffective
<1>7. ASSUME NEW r \in Transactions \ {t}
      PROVE  AreApart(row, work[r])
  <2>1. LockedBy(work[r]) = Locked(r)
    BY DEF LockedBy, Locked, Written
  <2>2. LockedBy(row) = {KeyOf(b) : b \in Roster(s)}
    BY <1>2, <1>3 DEF LockedBy
  <2> QED BY <1>2, <2>1, <2>2 DEF AreApart, RecordAttendance, Free
<1> QED BY <1>1, <1>6, <1>7, WorkStep

LEMMA DecideStep ==
  ASSUME AttendanceInv, NEW t \in Transactions, NEW b \in Bookings,
         DecideCorrection(t, b)
  PROVE  AttendanceInv'
<1> DEFINE row == [kind |-> "CORRECT", step |-> "WAITING", at |-> clock,
                   new |-> [x \in {b} |-> Opposite(outcome[b])],
                   prior |-> [x \in {b} |-> outcome[b]],
                   earned |-> <<>>, seen |-> <<>>, counted |-> <<>>]
<1>1. /\ work' = [work EXCEPT ![t] = row]
      /\ UNCHANGED <<clock, recordVars, snapshotVars>>
      /\ reviews[b] = "PENDING"
  BY DEF DecideCorrection, Undecided, AwaitsDecision
<1>2. /\ row.kind = "CORRECT" /\ row.step = "WAITING" /\ row.at = clock
      /\ DOMAIN row.new = {b} /\ row.new[b] = Opposite(outcome[b])
      /\ DOMAIN row.prior = {b} /\ row.prior[b] = outcome[b]
      /\ row.new = [x \in {b} |-> Opposite(outcome[b])]
      /\ row.prior = [x \in {b} |-> outcome[b]]
      /\ row.counted = <<>>
  OBVIOUS
<1> HIDE DEF row
<1>3. outcome[b] \in Outcomes
  BY <1>1 DEF AttendanceInv, RecordsInv, RecordsAreTyped, UnrecordedIsUntouched
<1>4. IsWriting(row)
  BY <1>2, <1>3
     DEF IsWriting, Opposite, Outcomes, AttendanceInv, RecordsInv,
         RecordsAreTyped
<1>5. IsSound(row)
  BY <1>1, <1>2, <1>4 DEF IsSound, IsEffective
<1>6. ASSUME NEW r \in Transactions \ {t}
      PROVE  AreApart(row, work[r])
  BY <1>2 DEF AreApart, LockedBy, DecideCorrection, Undecided, Written
<1> QED BY <1>1, <1>5, <1>6, WorkStep

LEMMA CorrectStep ==
  ASSUME AttendanceInv, NEW t \in Transactions, CorrectAttendance(t)
  PROVE  AttendanceInv'
<1>1. PICK old : old = work[t]
  OBVIOUS
<1>2. /\ IsWriting(old) /\ IsEffective(old)
      /\ old.kind = "CORRECT" /\ old.step = "WAITING"
  <2>1. IsSound(old) /\ old.step = "WAITING"
    BY <1>1 DEF AttendanceInv, WorkInv, CorrectAttendance
  <2> QED BY <2>1 DEF IsSound, IsWriting, IsCounting, NoWork
<1> DEFINE row == [kind |-> "CORRECT", step |-> "RECONCILED", at |-> old.at,
                   new |-> old.new, prior |-> old.prior,
                   earned |-> [k \in {KeyOf(b) : b \in DOMAIN old.new} |->
                     LET b == CHOOSE c \in DOMAIN old.new : KeyOf(c) = k
                     IN Reconciled(b, old.prior[b], old.new[b])],
                   seen |-> snapshots, counted |-> <<>>]
<1>3. /\ work' = [work EXCEPT ![t] = row]
      /\ UNCHANGED <<clock, recordVars, snapshotVars>>
  BY <1>1 DEF CorrectAttendance, Reconcile
<1>4. /\ row.kind = "CORRECT" /\ row.step = "RECONCILED" /\ row.at = old.at
      /\ row.new = old.new /\ row.prior = old.prior /\ row.seen = snapshots
      /\ row.counted = <<>>
      /\ row.earned = [k \in {KeyOf(b) : b \in DOMAIN row.new} |->
           LET b == CHOOSE c \in DOMAIN row.new : KeyOf(c) = k
           IN Reconciled(b, row.prior[b], row.new[b])]
  OBVIOUS
<1> HIDE DEF row
<1>5. IsWriting(row)
  BY <1>2, <1>4 DEF IsWriting
<1>6. \A b \in DOMAIN row.new : row.prior[b] = Opposite(row.new[b])
  BY <1>4, <1>5 DEF IsWriting, Opposite, Outcomes
<1>7. IsReconciled(row)
  BY <1>4, <1>5, <1>6, NewlyReconciled DEF AttendanceInv
<1>8. IsSound(row)
  BY <1>2, <1>4, <1>5, <1>7 DEF IsSound, IsEffective
<1>9. ASSUME NEW r \in Transactions \ {t}
      PROVE  AreApart(row, work[r])
  <2>1. LockedBy(work[r]) = Locked(r)
    BY DEF LockedBy, Locked, Written
  <2>2. LockedBy(row) = {KeyOf(b) : b \in DOMAIN old.new}
    BY <1>4 DEF LockedBy
  <2>3. AreApart(old, work[r])
    BY <1>1 DEF AttendanceInv, WorkInv
  <2> QED BY <1>1, <1>2, <1>4, <2>1, <2>2, <2>3
          DEF AreApart, CorrectAttendance, Free, Written
<1> QED BY <1>3, <1>8, <1>9, WorkStep

LEMMA RollBackStep ==
  ASSUME AttendanceInv, NEW t \in Transactions, RollBack(t)
  PROVE  AttendanceInv'
<1>1. IsSound(NoWork)
  BY DEF IsSound
<1>2. \A r \in Transactions \ {t} : AreApart(NoWork, work[r])
  BY DEF AreApart, LockedBy, NoWork
<1> QED BY <1>1, <1>2, WorkStep DEF RollBack, Finish

\* What is counted is at most the units of the Course.
LEMMA CountsAreBounded ==
  ASSUME NEW S \in SUBSET Units
  PROVE  Cardinality(S) \in 0 .. Cardinality(Units)
BY AttendanceAssumption, FS_Subset, FS_CardinalityType

LEMMA StartBoundaryStep ==
  ASSUME AttendanceInv, NEW t \in Transactions, NEW u \in Students,
         NEW kind, NEW from,
         <<kind, from>> \in {<<"ACCEPT", "NONE">>, <<"END", "ACTIVE">>},
         StartBoundary(t, u, kind, from)
  PROVE  AttendanceInv'
<1> DEFINE count == Cardinality({n \in Units : completion[<<u, n>>] # NoCompletion})
           row == [kind |-> kind, step |-> "COUNTED", at |-> clock,
                   new |-> <<>>, prior |-> <<>>, earned |-> <<>>,
                   seen |-> <<>>, counted |-> [v \in {u} |-> count]]
<1>1. /\ work' = [work EXCEPT ![t] = row]
      /\ UNCHANGED <<clock, recordVars, snapshotVars>>
  BY DEF StartBoundary
<1>2. count \in 0 .. Cardinality(Units)
  BY CountsAreBounded
<1> HIDE DEF count
<1>3. /\ row.kind = kind /\ row.step = "COUNTED" /\ row.at = clock
      /\ row.new = <<>> /\ row.counted = [v \in {u} |-> count]
      /\ DOMAIN row.new = {}
  OBVIOUS
<1> HIDE DEF row
<1>4. IsSound(row)
  <2>1. clock \in Instants /\ sponsorship[u] = from
    BY DEF AttendanceInv, RecordsInv, RecordsAreTyped, StartBoundary
  <2>2. DOMAIN row.counted = {u} /\ row.counted[u] = count
    BY <1>3
  <2> QED BY <1>2, <1>3, <2>1, <2>2 DEF IsSound, IsCounting
<1>5. ASSUME NEW r \in Transactions \ {t}
      PROVE  AreApart(row, work[r])
  <2>1. PICK other : other = work[r] /\ IsSound(other)
    BY DEF AttendanceInv, WorkInv
  <2>2. u \notin DOMAIN other.counted
    <3>1. other.kind \in {"ACCEPT", "END"} => u \notin DOMAIN other.counted
      BY <2>1 DEF StartBoundary
    <3>2. other.kind \notin {"ACCEPT", "END"} => other.counted = <<>>
      BY <2>1 DEF IsSound, IsWriting, IsCounting, NoWork
    <3> QED BY <3>1, <3>2
  <2>3. LockedBy(row) = {} /\ row.kind # "CORRECT"
    BY <1>3 DEF LockedBy
  <2> QED BY <1>3, <2>1, <2>2, <2>3 DEF AreApart
<1> QED BY <1>1, <1>4, <1>5, WorkStep

LEMMA ReviewStep ==
  ASSUME AttendanceInv, NEW b \in Bookings, NEW verdict \in ReviewStates \ {"NONE"},
         outcome[b] # Unrecorded,
         reviews' = [reviews EXCEPT ![b] = verdict],
         \A t \in Transactions : work[t].kind = "CORRECT" => Written(t) # {b},
         UNCHANGED <<clock, outcome, publishedAt, corrections, completion,
                     snapshotVars, work>>
  PROVE  AttendanceInv'
<1>1. RecordsInv'
  BY DEF AttendanceInv, RecordsInv, RecordsAreTyped, UnrecordedIsUntouched,
         CompletionsAreAttended, AttendedIn, LastCorrectionIsEffective
<1>2. SnapshotsInv'
  BY DEF AttendanceInv, SnapshotsInv, SnapshotsAreTyped, FrozenOnce,
         SnapshotHistoryReconciles, snapshotVars
<1>3. ASSUME NEW t \in Transactions
      PROVE  IsSound(work[t])'
  <2>1. PICK row : row = work[t] /\ IsSound(row)
    BY DEF AttendanceInv, WorkInv
  <2>2. CASE row = NoWork
    BY <2>1, <2>2 DEF IsSound
  <2>3. CASE IsWriting(row) /\ IsEffective(row)
               /\ (row.step = "RECONCILED" => IsReconciled(row))
    <3>1. IsEffective(row)'
      <4>1. row.kind = "CORRECT" => b \notin DOMAIN row.new
        BY <2>1, <2>3 DEF IsWriting, Written
      <4>2. reviews \in [Bookings -> ReviewStates] /\ DOMAIN row.new \subseteq Bookings
        BY <2>3 DEF IsWriting, AttendanceInv, RecordsInv, RecordsAreTyped
      <4> QED BY <2>3, <4>1, <4>2 DEF IsEffective
    <3>2. OutcomesAfter(row)' = OutcomesAfter(row)
      BY DEF OutcomesAfter
    <3>3. ASSUME IsReconciled(row)
          PROVE  IsReconciled(row)'
      BY <3>2, <3>3 DEF IsReconciled, AttendedIn, IsPast, snapshotVars
    <3> QED BY <2>1, <2>3, <3>1, <3>3 DEF IsSound
  <2>4. CASE IsCounting(row)
    <3>1. IsCounting(row)'
      BY <2>4 DEF IsCounting, snapshotVars
    <3> QED BY <2>1, <3>1 DEF IsSound
  <2> QED BY <2>1, <2>2, <2>3, <2>4 DEF IsSound
<1>4. \A p, q \in Transactions : p # q => AreApart(work[p], work[q])'
  BY DEF AttendanceInv, WorkInv, AreApart
<1> QED BY <1>1, <1>2, <1>3, <1>4 DEF AttendanceInv, WorkInv

LEMMA RequestStep ==
  ASSUME AttendanceInv, NEW b \in Bookings, RequestAttendanceReview(b)
  PROVE  AttendanceInv'
<1>1. ASSUME NEW t \in Transactions, work[t].kind = "CORRECT"
      PROVE  Written(t) # {b}
  <2>1. PICK row : row = work[t] /\ IsSound(row)
    BY DEF AttendanceInv, WorkInv
  <2>2. IsEffective(row)
    BY <1>1, <2>1 DEF IsSound, IsCounting, NoWork
  <2> QED BY <1>1, <2>1, <2>2
          DEF IsEffective, Written, RequestAttendanceReview
<1> QED BY <1>1, ReviewStep DEF RequestAttendanceReview, ReviewStates

LEMMA UpholdStep ==
  ASSUME AttendanceInv, NEW b \in Bookings, UpholdReview(b)
  PROVE  AttendanceInv'
<1>1. outcome[b] # Unrecorded
  BY DEF AttendanceInv, RecordsInv, UnrecordedIsUntouched, UpholdReview,
         Undecided, AwaitsDecision
<1> QED BY <1>1, ReviewStep DEF UpholdReview, Undecided, ReviewStates

LEMMA TickStep ==
  ASSUME AttendanceInv, Tick
  PROVE  AttendanceInv'
<1>1. clock' \in Instants
  BY AttendanceAssumption
     DEF Tick, Instants, AttendanceInv, RecordsInv, RecordsAreTyped
<1>2. RecordsInv'
  BY <1>1
     DEF Tick, recordVars, AttendanceInv, RecordsInv, RecordsAreTyped,
         UnrecordedIsUntouched, CompletionsAreAttended, AttendedIn,
         LastCorrectionIsEffective
<1>3. SnapshotsInv'
  BY DEF Tick, snapshotVars, AttendanceInv, SnapshotsInv, SnapshotsAreTyped,
         FrozenOnce, SnapshotHistoryReconciles
<1>4. ASSUME NEW t \in Transactions
      PROVE  IsSound(work[t])'
  <2>1. PICK row : row = work[t] /\ IsSound(row)
    BY DEF AttendanceInv, WorkInv
  <2>2. OutcomesAfter(row)' = OutcomesAfter(row)
    BY DEF OutcomesAfter, Tick, recordVars
  <2>3. IsSound(row)'
    BY <2>1, <2>2, SMTT(30)
       DEF IsSound, IsEffective, IsReconciled, AttendedIn, IsPast, IsCounting,
           Tick, recordVars, snapshotVars
  <2> QED BY <2>1, <2>3 DEF Tick
<1>5. \A p, q \in Transactions : p # q => AreApart(work[p], work[q])'
  BY DEF AttendanceInv, WorkInv, AreApart, Tick
<1> QED BY <1>2, <1>3, <1>4, <1>5 DEF AttendanceInv, WorkInv, Tick

\* What a commit leaves of the transaction that makes it, and of the others.
LEMMA WorkEnds ==
  ASSUME WorkInv, NEW t \in Transactions, Finish(t),
         \A r \in Transactions \ {t} : IsSound(work[r])'
  PROVE  WorkInv'
<1>1. \A r \in Transactions : work'[r] = IF r = t THEN NoWork ELSE work[r]
  BY DEF WorkInv, Finish
<1>2. IsSound(work[t])'
  BY <1>1 DEF IsSound
<1>3. ASSUME NEW p \in Transactions, NEW q \in Transactions, p # q
      PROVE  AreApart(work[p], work[q])'
  <2>1. CASE p = t \/ q = t
    BY <1>1, <1>3, <2>1 DEF AreApart, LockedBy, NoWork
  <2>2. CASE p # t /\ q # t
    BY <1>1, <1>3, <2>2 DEF WorkInv, AreApart
  <2> QED BY <2>1, <2>2
<1>4. DOMAIN work' = Transactions
  BY DEF WorkInv, Finish
<1> QED BY <1>2, <1>3, <1>4 DEF WorkInv

\* What is committed for a transaction with its locks.
LEMMA CommittedRecords ==
  ASSUME AttendanceInv, NEW t \in Transactions, CommitAttendance(t),
         NEW row, row = work[t]
  PROVE  /\ IsWriting(row) /\ IsEffective(row) /\ IsReconciled(row)
         /\ row.step = "RECONCILED"
         /\ outcome' = OutcomesAfter(row)
         /\ corrections' = [b \in Bookings |->
              IF b \in DOMAIN row.new
                 /\ row.prior[b] \notin {Unrecorded, row.new[b]}
              THEN Append(corrections[b],
                     [prior |-> row.prior[b], corrected |-> row.new[b]])
              ELSE corrections[b]]
         /\ completion' = [k \in Keys |->
              IF k \in LockedBy(row) THEN row.earned[k] ELSE completion[k]]
         /\ reviews' = [b \in Bookings |->
              IF row.kind = "CORRECT" /\ b \in DOMAIN row.new
              THEN "CORRECTED" ELSE reviews[b]]
         /\ Finish(t) /\ UNCHANGED <<clock, sponsorship>>
<1>1. row.step = "RECONCILED" /\ IsSound(row)
  BY DEF CommitAttendance, AttendanceInv, WorkInv
<1>2. IsWriting(row) /\ IsEffective(row) /\ IsReconciled(row)
  BY <1>1 DEF IsSound, IsCounting, NoWork
<1>3. DOMAIN row.earned = LockedBy(row)
  BY <1>2 DEF IsReconciled
<1>4. reviews' = [b \in Bookings |->
              IF row.kind = "CORRECT" /\ b \in DOMAIN row.new
              THEN "CORRECTED" ELSE reviews[b]]
  <2>1. reviews = [b \in Bookings |-> reviews[b]]
    BY DEF AttendanceInv, RecordsInv, RecordsAreTyped
  <2> QED BY <2>1 DEF CommitAttendance, Written
<1>5. outcome' = OutcomesAfter(row)
  BY DEF CommitAttendance, WriteOutcomes, OutcomesAfter, Written
<1>6. corrections' = [b \in Bookings |->
              IF b \in DOMAIN row.new
                 /\ row.prior[b] \notin {Unrecorded, row.new[b]}
              THEN Append(corrections[b],
                     [prior |-> row.prior[b], corrected |-> row.new[b]])
              ELSE corrections[b]]
  BY DEF CommitAttendance, WriteOutcomes, Corrects, Correction, Written
<1>7. completion' = [k \in Keys |->
              IF k \in LockedBy(row) THEN row.earned[k] ELSE completion[k]]
  BY <1>3 DEF CommitAttendance, WriteOutcomes, Completions
<1> QED BY <1>1, <1>2, <1>4, <1>5, <1>6, <1>7 DEF CommitAttendance

LEMMA CommitKeepsRecords ==
  ASSUME AttendanceInv, NEW t \in Transactions, CommitAttendance(t)
  PROVE  RecordsInv'
<1>1. PICK row : row = work[t]
  OBVIOUS
<1>2. /\ IsWriting(row) /\ IsEffective(row) /\ IsReconciled(row)
      /\ row.step = "RECONCILED"
      /\ outcome' = OutcomesAfter(row)
      /\ corrections' = [b \in Bookings |->
           IF b \in DOMAIN row.new
              /\ row.prior[b] \notin {Unrecorded, row.new[b]}
           THEN Append(corrections[b],
                  [prior |-> row.prior[b], corrected |-> row.new[b]])
           ELSE corrections[b]]
      /\ completion' = [k \in Keys |->
           IF k \in LockedBy(row) THEN row.earned[k] ELSE completion[k]]
      /\ reviews' = [b \in Bookings |->
           IF row.kind = "CORRECT" /\ b \in DOMAIN row.new
           THEN "CORRECTED" ELSE reviews[b]]
      /\ UNCHANGED clock
  BY <1>1, CommittedRecords
<1>3. RecordsAreTyped /\ UnrecordedIsUntouched /\ LastCorrectionIsEffective
      /\ CompletionsAreAttended
  BY DEF AttendanceInv, RecordsInv
<1>4. LockedBy(row) = {KeyOf(b) : b \in DOMAIN row.new}
      /\ DOMAIN row.new \subseteq Bookings
  BY <1>2 DEF LockedBy, IsWriting
<1>5. ASSUME NEW b \in DOMAIN row.new
      PROVE  /\ row.new[b] \in Outcomes
             /\ row.prior[b] \in Outcomes \cup {Unrecorded}
             /\ outcome'[b] = row.new[b]
             /\ [prior |-> row.prior[b], corrected |-> row.new[b]] \in CorrectionRows
                  \/ row.prior[b] = Unrecorded
  BY <1>2, <1>4 DEF IsWriting, OutcomesAfter, CorrectionRows
<1>6. \A b \in Bookings \ DOMAIN row.new :
        /\ outcome'[b] = outcome[b]
        /\ corrections'[b] = corrections[b]
        /\ reviews'[b] = reviews[b]
  BY <1>2 DEF OutcomesAfter
<1>7. RecordsAreTyped'
  <2>1. outcome' \in [Bookings -> Outcomes \cup {Unrecorded}]
    BY <1>2, <1>3, <1>5 DEF OutcomesAfter, RecordsAreTyped
  <2>2. publishedAt' \in [Bookings -> Instants \cup {NoInstant}]
    <3>1. publishedAt' = [b \in Bookings |->
            IF b \in DOMAIN row.new /\ row.prior[b] = Unrecorded
            THEN row.at ELSE publishedAt[b]]
      BY <1>1 DEF CommitAttendance, WriteOutcomes, Written
    <3> QED BY <1>2, <1>3, <3>1 DEF RecordsAreTyped, IsWriting
  <2>3. corrections' \in [Bookings -> Seq(CorrectionRows)]
    <3>1. ASSUME NEW b \in Bookings
          PROVE  corrections'[b] \in Seq(CorrectionRows)
      BY <1>2, <1>3, <1>5, AppendProperties DEF RecordsAreTyped
    <3> QED BY <1>2, <3>1
  <2>4. completion' \in [Keys -> CompletionRows]
    BY <1>2, <1>3 DEF IsReconciled, RecordsAreTyped
  <2>5. reviews' \in [Bookings -> ReviewStates]
    BY <1>2, <1>3 DEF RecordsAreTyped, ReviewStates
  <2> QED BY <1>2, <1>3, <2>1, <2>2, <2>3, <2>4, <2>5 DEF RecordsAreTyped
<1>8. UnrecordedIsUntouched'
  BY <1>3, <1>5, <1>6 DEF UnrecordedIsUntouched, Outcomes, Unrecorded
<1>9. CompletionsAreAttended'
  <2>1. ASSUME NEW k \in Keys, k \in LockedBy(row)
        PROVE  completion'[k] # NoCompletion <=> AttendedIn(outcome', k)
    BY <1>2, <2>1 DEF IsReconciled
  <2>2. ASSUME NEW k \in Keys, k \notin LockedBy(row)
        PROVE  completion'[k] # NoCompletion <=> AttendedIn(outcome', k)
    <3>1. \A b \in Bookings : KeyOf(b) = k => outcome'[b] = outcome[b]
      BY <1>4, <1>6, <2>2
    <3>2. AttendedIn(outcome', k) <=> AttendedIn(outcome, k)
      BY <3>1 DEF AttendedIn
    <3> QED BY <1>2, <1>3, <2>2, <3>2 DEF CompletionsAreAttended
  <2> QED BY <2>1, <2>2 DEF CompletionsAreAttended
<1>10. LastCorrectionIsEffective'
  <2>1. ASSUME NEW b \in Bookings, corrections'[b] # <<>>
        PROVE  corrections'[b][Len(corrections'[b])].corrected = outcome'[b]
    <3>1. CASE b \notin DOMAIN row.new
      BY <1>3, <1>6, <2>1, <3>1 DEF LastCorrectionIsEffective
    <3>2. CASE b \in DOMAIN row.new /\ row.prior[b] \notin {Unrecorded, row.new[b]}
      <4> DEFINE new == [prior |-> row.prior[b], corrected |-> row.new[b]]
      <4>1. corrections'[b] = Append(corrections[b], new)
        BY <1>2, <3>2
      <4>2. new \in CorrectionRows /\ corrections[b] \in Seq(CorrectionRows)
        BY <1>3, <1>5, <3>2 DEF RecordsAreTyped
      <4>3. new.corrected = outcome'[b]
        BY <1>5, <3>2
      <4> HIDE DEF new
      <4>4. corrections'[b][Len(corrections'[b])] = new
        BY <4>1, <4>2, AppendProperties
      <4> QED BY <4>3, <4>4
    <3>3. CASE b \in DOMAIN row.new /\ row.prior[b] = Unrecorded
      <4>1. row.kind = "RECORD" /\ row.prior[b] = outcome[b]
        BY <1>2, <3>3 DEF IsWriting, IsEffective, Outcomes, Unrecorded
      <4> QED BY <1>2, <1>3, <2>1, <3>3, <4>1 DEF UnrecordedIsUntouched
    <3>4. CASE b \in DOMAIN row.new /\ row.prior[b] = row.new[b]
      <4>1. row.kind = "RECORD" /\ row.prior[b] = outcome[b]
        BY <1>2, <3>4 DEF IsWriting, IsEffective, Outcomes, Opposite
      <4>2. corrections'[b] = corrections[b] /\ outcome'[b] = outcome[b]
        BY <1>2, <1>5, <3>4, <4>1
      <4> QED BY <1>3, <2>1, <4>2 DEF LastCorrectionIsEffective
    <3> QED BY <3>1, <3>2, <3>3, <3>4
  <2> QED BY <2>1 DEF LastCorrectionIsEffective
<1> QED BY <1>7, <1>8, <1>9, <1>10 DEF RecordsInv

\* What happens to a snapshot when a transaction with its locks commits: it
\* stays, or the revision continues its history.
LEMMA CommittedSnapshot ==
  ASSUME AttendanceInv, NEW t \in Transactions, CommitAttendance(t),
         NEW u \in Students, NEW d \in Boundaries
  PROVE  \/ /\ snapshots'[u][d] = snapshots[u][d]
            /\ revisions'[u][d] = revisions[u][d]
         \/ \E count \in 0 .. Cardinality(Units) :
              /\ Captured(snapshots[u][d])
              /\ snapshots'[u][d] = [capturedAt |-> snapshots[u][d].capturedAt,
                                     completed |-> count,
                                     revision |-> snapshots[u][d].revision + 1]
              /\ revisions'[u][d] =
                   Append(revisions[u][d],
                          [prior |-> snapshots[u][d].completed,
                           current |-> count])
<1>1. PICK row : row = work[t]
  OBVIOUS
<1>2. IsReconciled(row)
  BY <1>1, CommittedRecords
<1>3. CASE Revises(t, u, d)
  <2>1. /\ Captured(row.seen[u][d])
        /\ snapshots[u][d].revision = row.seen[u][d].revision
    BY <1>1, <1>3 DEF Revises, CommitAttendance, RevisionsAreNew
  <2>2. /\ Captured(snapshots[u][d])
        /\ row.seen[u][d].completed = snapshots[u][d].completed
    BY <1>2, <2>1 DEF IsReconciled, IsPast
  <2>3. Counted(t, u, d) \in 0 .. Cardinality(Units)
    BY CountsAreBounded DEF Counted, CountAt
  <2>4. /\ snapshots'[u][d] = [capturedAt |-> snapshots[u][d].capturedAt,
                               completed |-> Counted(t, u, d),
                               revision |-> snapshots[u][d].revision + 1]
        /\ revisions'[u][d] = Append(revisions[u][d],
                                     [prior |-> work[t].seen[u][d].completed,
                                      current |-> Counted(t, u, d)])
    BY <1>3 DEF CommitAttendance, ReviseSnapshots
  <2> QED BY <1>1, <2>2, <2>3, <2>4
<1>4. CASE ~Revises(t, u, d)
  BY <1>4 DEF CommitAttendance, ReviseSnapshots
<1> QED BY <1>3, <1>4

\* The history of one snapshot, continued.
LeadsTo(history, present) ==
  \A i \in 1 .. Len(history) :
    history[i].current =
      IF i = Len(history) THEN present ELSE history[i + 1].prior

LEMMA HistoryContinues ==
  ASSUME NEW history \in Seq(RevisionRows), NEW last \in Nat, NEW next \in Nat,
         LeadsTo(history, last),
         NEW longer,
         longer = Append(history, [prior |-> last, current |-> next])
  PROVE  /\ longer \in Seq(RevisionRows)
         /\ Len(longer) = Len(history) + 1
         /\ LeadsTo(longer, next)
<1> DEFINE new == [prior |-> last, current |-> next]
<1>1. new \in RevisionRows /\ new.prior = last /\ new.current = next
  BY DEF RevisionRows
<1> HIDE DEF new
<1>2. /\ longer \in Seq(RevisionRows) /\ Len(longer) = Len(history) + 1
      /\ longer[Len(history) + 1] = new
      /\ \A i \in 1 .. Len(history) : longer[i] = history[i]
      /\ Len(history) \in Nat
  BY <1>1, AppendProperties, LenProperties DEF new
<1>3. ASSUME NEW i \in 1 .. Len(longer)
      PROVE  longer[i].current =
               IF i = Len(longer) THEN next ELSE longer[i + 1].prior
  <2>1. CASE i = Len(longer)
    BY <1>1, <1>2, <2>1
  <2>2. CASE i = Len(history)
    BY <1>1, <1>2, <2>2 DEF LeadsTo
  <2>3. CASE i < Len(history)
    BY <1>2, <2>3 DEF LeadsTo
  <2> QED BY <1>2, <2>1, <2>2, <2>3
<1> QED BY <1>2, <1>3 DEF LeadsTo

LEMMA CommitKeepsSnapshots ==
  ASSUME AttendanceInv, NEW t \in Transactions, CommitAttendance(t)
  PROVE  SnapshotsInv'
<1>1. SnapshotsAreTyped /\ FrozenOnce /\ SnapshotHistoryReconciles
  BY DEF AttendanceInv, SnapshotsInv
<1>2. UNCHANGED sponsorship
  BY DEF CommitAttendance
<1>3. /\ snapshots' = [u \in Students |-> [d \in Boundaries |-> snapshots'[u][d]]]
      /\ revisions' = [u \in Students |-> [d \in Boundaries |-> revisions'[u][d]]]
  BY DEF CommitAttendance, ReviseSnapshots
<1>4. ASSUME NEW u \in Students, NEW d \in Boundaries
      PROVE  /\ snapshots'[u][d] \in SnapshotRows
             /\ revisions'[u][d] \in Seq(RevisionRows)
             /\ Captured(snapshots'[u][d]) <=> Captured(snapshots[u][d])
             /\ ~Captured(snapshots'[u][d]) => snapshots'[u][d].revision = 0
             /\ Len(revisions'[u][d]) = snapshots'[u][d].revision
             /\ LeadsTo(revisions'[u][d], snapshots'[u][d].completed)
  <2>1. /\ snapshots[u][d] \in SnapshotRows
        /\ revisions[u][d] \in Seq(RevisionRows)
        /\ ~Captured(snapshots[u][d]) => snapshots[u][d].revision = 0
        /\ Len(revisions[u][d]) = snapshots[u][d].revision
        /\ LeadsTo(revisions[u][d], snapshots[u][d].completed)
    BY <1>1
       DEF SnapshotsAreTyped, Frozen, FrozenOnce, SnapshotHistoryReconciles,
           LeadsTo
  <2>2. CASE /\ snapshots'[u][d] = snapshots[u][d]
             /\ revisions'[u][d] = revisions[u][d]
    BY <2>1, <2>2
  <2>3. CASE \E count \in 0 .. Cardinality(Units) :
              /\ Captured(snapshots[u][d])
              /\ snapshots'[u][d] = [capturedAt |-> snapshots[u][d].capturedAt,
                                     completed |-> count,
                                     revision |-> snapshots[u][d].revision + 1]
              /\ revisions'[u][d] =
                   Append(revisions[u][d],
                          [prior |-> snapshots[u][d].completed,
                           current |-> count])
    <3>1. PICK count \in 0 .. Cardinality(Units) :
            /\ Captured(snapshots[u][d])
            /\ snapshots'[u][d] = [capturedAt |-> snapshots[u][d].capturedAt,
                                   completed |-> count,
                                   revision |-> snapshots[u][d].revision + 1]
            /\ revisions'[u][d] =
                 Append(revisions[u][d],
                        [prior |-> snapshots[u][d].completed,
                         current |-> count])
      BY <2>3
    <3>2. Cardinality(Units) \in Nat
      BY AttendanceAssumption, FS_CardinalityType
    <3>3. /\ snapshots[u][d].completed \in Nat /\ count \in Nat
          /\ snapshots[u][d].revision \in Nat
          /\ snapshots[u][d].capturedAt \in Instants \cup {NoInstant}
      BY <2>1, <3>2 DEF SnapshotRows
    <3>4. /\ revisions'[u][d] \in Seq(RevisionRows)
          /\ Len(revisions'[u][d]) = Len(revisions[u][d]) + 1
          /\ LeadsTo(revisions'[u][d], count)
      <4>1. PICK history, last, longer :
              /\ history = revisions[u][d] /\ last = snapshots[u][d].completed
              /\ longer = revisions'[u][d]
        OBVIOUS
      <4>2. /\ history \in Seq(RevisionRows) /\ last \in Nat
            /\ longer = Append(history, [prior |-> last, current |-> count])
        BY <2>1, <3>1, <3>3, <4>1
      <4>3. LeadsTo(history, last)
        BY <2>1, <4>1
      <4>4. /\ longer \in Seq(RevisionRows)
            /\ Len(longer) = Len(history) + 1
            /\ LeadsTo(longer, count)
        BY <3>3, <4>2, <4>3, HistoryContinues
      <4> QED BY <4>1, <4>4
    <3>5. /\ snapshots'[u][d] \in SnapshotRows
          /\ snapshots'[u][d].completed = count
          /\ snapshots'[u][d].revision = snapshots[u][d].revision + 1
          /\ Captured(snapshots'[u][d]) <=> Captured(snapshots[u][d])
      BY <3>1, <3>3 DEF SnapshotRows, Captured
    <3> QED BY <2>1, <3>1, <3>4, <3>5
  <2> QED BY <2>2, <2>3, CommittedSnapshot
<1>5. SnapshotsAreTyped'
  <2>1. snapshots' \in Frozen
    BY <1>3, <1>4 DEF Frozen
  <2>2. revisions' \in [Students -> [Boundaries -> Seq(RevisionRows)]]
    BY <1>3, <1>4
  <2> QED BY <1>1, <1>2, <2>1, <2>2 DEF SnapshotsAreTyped
<1>6. FrozenOnce'
  BY <1>1, <1>2, <1>4 DEF FrozenOnce, Boundaries
<1>7. SnapshotHistoryReconciles'
  BY <1>4 DEF SnapshotHistoryReconciles, LeadsTo
<1> QED BY <1>5, <1>6, <1>7 DEF SnapshotsInv

LEMMA CommitKeepsOthers ==
  ASSUME AttendanceInv, NEW t \in Transactions, CommitAttendance(t),
         NEW r \in Transactions \ {t}
  PROVE  IsSound(work[r])'
<1>1. PICK own : own = work[t]
  OBVIOUS
<1>2. PICK row : row = work[r] /\ IsSound(row) /\ AreApart(own, row)
  BY <1>1 DEF AttendanceInv, WorkInv
<1>3. work'[r] = row
  BY <1>2 DEF CommitAttendance, Finish, AttendanceInv, WorkInv
<1>4. /\ IsWriting(own) /\ own.step = "RECONCILED"
      /\ outcome' = OutcomesAfter(own)
      /\ reviews' = [b \in Bookings |->
           IF own.kind = "CORRECT" /\ b \in DOMAIN own.new
           THEN "CORRECTED" ELSE reviews[b]]
      /\ UNCHANGED <<clock, sponsorship>>
  BY <1>1, CommittedRecords
<1>5. CASE row = NoWork
  BY <1>3, <1>5 DEF IsSound
<1>6. CASE IsWriting(row) /\ IsEffective(row)
             /\ (row.step = "RECONCILED" => IsReconciled(row))
  <2>1. ASSUME row.step = "RECONCILED", NEW b \in Bookings,
               KeyOf(b) \in LockedBy(row)
        PROVE  outcome'[b] = outcome[b]
    <3>1. b \notin DOMAIN own.new
      BY <1>2, <1>4, <2>1 DEF AreApart, LockedBy
    <3> QED BY <1>4, <3>1 DEF OutcomesAfter
  <2>2. IsEffective(row)'
    <3>1. ASSUME NEW b \in DOMAIN row.new, row.kind = "RECORD"
          PROVE  row.prior[b] = outcome'[b]
      <4>1. row.step = "RECONCILED" /\ b \in Bookings
        BY <1>6, <3>1 DEF IsWriting
      <4>2. KeyOf(b) \in LockedBy(row)
        BY <4>1 DEF LockedBy
      <4> QED BY <1>6, <2>1, <3>1, <4>1, <4>2 DEF IsEffective
    <3>2. ASSUME NEW b \in DOMAIN row.new, row.kind = "CORRECT"
          PROVE  reviews'[b] = "PENDING"
      <4>1. b \in Bookings /\ DOMAIN row.new = {b}
        BY <1>6, <3>2 DEF IsWriting
      <4>2. ~(own.kind = "CORRECT" /\ b \in DOMAIN own.new)
        BY <1>2, <1>4, <3>2, <4>1 DEF AreApart, IsWriting
      <4> QED BY <1>4, <1>6, <3>2, <4>1, <4>2 DEF IsEffective
    <3> QED BY <3>1, <3>2 DEF IsEffective
  <2>3. ASSUME row.step = "RECONCILED"
        PROVE  IsReconciled(row)'
    <3>1. IsReconciled(row)
      BY <1>6, <2>3
    <3>2. IsPast(row.seen)'
      <4>1. ASSUME NEW u \in Students, NEW d \in Boundaries,
                   Captured(row.seen[u][d])
            PROVE  /\ Captured(snapshots'[u][d])
                   /\ row.seen[u][d].revision <= snapshots'[u][d].revision
                   /\ row.seen[u][d].revision = snapshots'[u][d].revision =>
                        row.seen[u][d].completed = snapshots'[u][d].completed
        <5>1. /\ Captured(snapshots[u][d])
              /\ row.seen[u][d].revision <= snapshots[u][d].revision
              /\ row.seen[u][d].revision = snapshots[u][d].revision =>
                   row.seen[u][d].completed = snapshots[u][d].completed
          BY <3>1, <4>1 DEF IsReconciled, IsPast
        <5>2. /\ row.seen[u][d].revision \in Nat
              /\ snapshots[u][d].revision \in Nat
          BY <3>1 DEF IsReconciled, Frozen, SnapshotRows, AttendanceInv,
                      SnapshotsInv, SnapshotsAreTyped
        <5>3. \/ snapshots'[u][d] = snapshots[u][d]
              \/ /\ snapshots'[u][d].capturedAt = snapshots[u][d].capturedAt
                 /\ snapshots'[u][d].revision = snapshots[u][d].revision + 1
          <6>1. ASSUME NEW count,
                       snapshots'[u][d] =
                         [capturedAt |-> snapshots[u][d].capturedAt,
                          completed |-> count,
                          revision |-> snapshots[u][d].revision + 1]
                PROVE  /\ snapshots'[u][d].capturedAt = snapshots[u][d].capturedAt
                       /\ snapshots'[u][d].revision = snapshots[u][d].revision + 1
            BY <6>1
          <6> QED BY <6>1, CommittedSnapshot
        <5> QED BY <5>1, <5>2, <5>3 DEF Captured
      <4> QED BY <4>1 DEF IsPast
    <3>3. ASSUME NEW k \in LockedBy(row)
          PROVE  AttendedIn(OutcomesAfter(row)', k) <=>
                   AttendedIn(OutcomesAfter(row), k)
      <4>1. ASSUME NEW b \in Bookings, KeyOf(b) = k
            PROVE  OutcomesAfter(row)'[b] = OutcomesAfter(row)[b]
        BY <2>1, <2>3, <4>1 DEF OutcomesAfter
      <4> QED BY <4>1 DEF AttendedIn
    <3> QED BY <3>1, <3>2, <3>3 DEF IsReconciled
  <2> QED BY <1>3, <1>6, <2>2, <2>3 DEF IsSound
<1>7. CASE IsCounting(row)
  <2>1. IsCounting(row)'
    BY <1>4, <1>7 DEF IsCounting
  <2> QED BY <1>3, <2>1 DEF IsSound
<1> QED BY <1>2, <1>5, <1>6, <1>7 DEF IsSound

LEMMA CommitStep ==
  ASSUME AttendanceInv, NEW t \in Transactions, CommitAttendance(t)
  PROVE  AttendanceInv'
<1>1. WorkInv'
  BY CommitKeepsOthers, WorkEnds DEF AttendanceInv, CommitAttendance
<1> QED BY <1>1, CommitKeepsRecords, CommitKeepsSnapshots DEF AttendanceInv

LEMMA CommitBoundaryStep ==
  ASSUME AttendanceInv, NEW t \in Transactions, NEW kind, NEW to, NEW d,
         \/ kind = "ACCEPT" /\ to = "ACTIVE" /\ d = "SPONSORSHIP_START"
         \/ kind = "END" /\ to = "ENDED" /\ d = "SPONSORSHIP_END",
         CommitBoundary(t, kind, to, d)
  PROVE  AttendanceInv'
<1> DEFINE from == IF kind = "ACCEPT" THEN "NONE" ELSE "ACTIVE"
<1>1. PICK row : row = work[t] /\ IsSound(row)
  BY DEF AttendanceInv, WorkInv
<1>2. IsCounting(row) /\ row.kind = kind
  BY <1>1 DEF IsSound, IsWriting, NoWork, CommitBoundary
<1>3. PICK u \in Students :
        /\ DOMAIN row.counted = {u}
        /\ row.counted[u] \in 0 .. Cardinality(Units)
        /\ sponsorship[u] = from
  BY <1>2 DEF IsCounting
<1> DEFINE captured == [capturedAt |-> row.at, revision |-> 0,
                        completed |-> row.counted[u]]
<1>4. /\ sponsorship' = [sponsorship EXCEPT ![u] = to]
      /\ snapshots' = [snapshots EXCEPT ![u][d] = captured]
           \/ snapshots' = snapshots
      /\ Finish(t)
      /\ UNCHANGED <<clock, recordVars, revisions>>
  BY <1>1, <1>3 DEF CommitBoundary, CaptureCourseProgressSnapshot
<1>5. SnapshotsAreTyped /\ FrozenOnce /\ SnapshotHistoryReconciles
  BY DEF AttendanceInv, SnapshotsInv
<1>6. captured \in SnapshotRows /\ captured.revision = 0
  BY <1>2, <1>3 DEF IsCounting, SnapshotRows
<1> HIDE DEF captured
<1>7. d \in Boundaries /\ to \in {"ACTIVE", "ENDED"}
  BY DEF Boundaries
<1>8. ~Captured(snapshots[u][d]) /\ snapshots[u][d].revision = 0
  BY <1>3, <1>5, <1>7 DEF FrozenOnce
<1>9. ASSUME NEW v \in Students, NEW e \in Boundaries
      PROVE  /\ \/ snapshots'[v][e] = snapshots[v][e]
                \/ v = u /\ e = d /\ snapshots'[v][e] = captured
             /\ snapshots'[v][e] \in SnapshotRows
             /\ snapshots'[v][e].revision = snapshots[v][e].revision
             /\ Captured(snapshots[v][e]) => snapshots'[v][e] = snapshots[v][e]
  <2>1. snapshots[v][e] \in SnapshotRows
    BY <1>5 DEF SnapshotsAreTyped, Frozen
  <2>2. \/ snapshots'[v][e] = snapshots[v][e]
        \/ v = u /\ e = d /\ snapshots'[v][e] = captured
    <3>1. CASE snapshots' = snapshots
      BY <3>1
    <3>2. CASE snapshots' = [snapshots EXCEPT ![u][d] = captured]
      <4>1. snapshots'[v] = IF v = u THEN [snapshots[u] EXCEPT ![d] = captured]
                            ELSE snapshots[v]
        BY <1>5, <3>2 DEF SnapshotsAreTyped, Frozen
      <4>2. snapshots[u] \in [Boundaries -> SnapshotRows]
        BY <1>5 DEF SnapshotsAreTyped, Frozen
      <4>3. v = u => snapshots'[v][e] = IF e = d THEN captured ELSE snapshots[v][e]
        BY <4>1, <4>2
      <4> QED BY <4>1, <4>3
    <3> QED BY <1>4, <3>1, <3>2
  <2> QED BY <1>6, <1>8, <2>1, <2>2
<1>10. RecordsInv'
  BY <1>4
     DEF AttendanceInv, RecordsInv, RecordsAreTyped, UnrecordedIsUntouched,
         CompletionsAreAttended, AttendedIn, LastCorrectionIsEffective,
         recordVars
<1>11. SnapshotsInv'
  <2>1. SnapshotsAreTyped'
    <3>1. snapshots' \in Frozen
      <4>1. snapshots' = [v \in Students |-> [e \in Boundaries |-> snapshots'[v][e]]]
        <5>1. snapshots = [v \in Students |-> [e \in Boundaries |-> snapshots[v][e]]]
          BY <1>5 DEF SnapshotsAreTyped, Frozen
        <5> QED BY <1>4, <1>5, <5>1 DEF SnapshotsAreTyped, Frozen
      <4> QED BY <1>9, <4>1 DEF Frozen
    <3> QED BY <1>4, <1>5, <1>7, <3>1 DEF SnapshotsAreTyped
  <2>2. FrozenOnce'
    <3>1. ASSUME NEW v \in Students
          PROVE  /\ sponsorship'[v] = "NONE" =>
                      ~Captured(snapshots'[v]["SPONSORSHIP_START"])
                 /\ sponsorship'[v] # "ENDED" =>
                      ~Captured(snapshots'[v]["SPONSORSHIP_END"])
      <4>1. sponsorship'[v] = IF v = u THEN to ELSE sponsorship[v]
        BY <1>4, <1>5 DEF SnapshotsAreTyped
      <4>2. "SPONSORSHIP_START" \in Boundaries /\ "SPONSORSHIP_END" \in Boundaries
        BY DEF Boundaries
      <4> QED BY <1>3, <1>5, <1>9, <4>1, <4>2 DEF FrozenOnce
    <3>2. ASSUME NEW v \in Students, NEW e \in Boundaries,
                 ~Captured(snapshots'[v][e])
          PROVE  snapshots'[v][e].revision = 0
      BY <1>5, <1>6, <1>9, <3>2 DEF FrozenOnce
    <3> QED BY <3>1, <3>2 DEF FrozenOnce
  <2>3. SnapshotHistoryReconciles'
    <3>1. ASSUME NEW v \in Students, NEW e \in Boundaries
          PROVE  /\ Len(revisions[v][e]) = snapshots'[v][e].revision
                 /\ \A i \in 1 .. Len(revisions[v][e]) :
                      revisions[v][e][i].current =
                        IF i = Len(revisions[v][e])
                        THEN snapshots'[v][e].completed
                        ELSE revisions[v][e][i + 1].prior
      <4>1. Len(revisions[v][e]) = snapshots[v][e].revision
        BY <1>5 DEF SnapshotHistoryReconciles
      <4>2. CASE snapshots'[v][e] = snapshots[v][e]
        BY <1>5, <4>2 DEF SnapshotHistoryReconciles
      <4>3. CASE v = u /\ e = d
        <5>1. Len(revisions[v][e]) = 0
          BY <1>8, <4>1, <4>3
        <5>2. snapshots'[v][e].revision = 0
          BY <1>9, <4>1, <5>1
        <5> QED BY <5>1, <5>2
      <4> QED BY <1>9, <4>2, <4>3
    <3> QED BY <1>4, <3>1 DEF SnapshotHistoryReconciles
  <2> QED BY <2>1, <2>2, <2>3 DEF SnapshotsInv
<1>12. ASSUME NEW r \in Transactions \ {t}
       PROVE  IsSound(work[r])'
  <2>1. PICK other : other = work[r] /\ IsSound(other) /\ AreApart(row, other)
    BY <1>1 DEF AttendanceInv, WorkInv
  <2>2. work'[r] = other
    BY <1>4, <2>1 DEF Finish, AttendanceInv, WorkInv
  <2>3. CASE other = NoWork
    BY <2>2, <2>3 DEF IsSound
  <2>4. CASE IsWriting(other) /\ IsEffective(other)
               /\ (other.step = "RECONCILED" => IsReconciled(other))
    <3>1. IsEffective(other)'
      BY <1>4, <2>4 DEF IsEffective, recordVars
    <3>2. OutcomesAfter(other)' = OutcomesAfter(other)
      BY <1>4 DEF OutcomesAfter, recordVars
    <3>3. ASSUME other.step = "RECONCILED"
          PROVE  IsReconciled(other)'
      <4>1. IsReconciled(other)
        BY <2>4, <3>3
      <4>2. IsPast(other.seen)'
        BY <1>9, <4>1 DEF IsReconciled, IsPast
      <4> QED BY <3>2, <4>1, <4>2 DEF IsReconciled, AttendedIn
    <3> QED BY <2>2, <2>4, <3>1, <3>3 DEF IsSound
  <2>5. CASE IsCounting(other)
    <3>1. PICK v \in Students :
            /\ DOMAIN other.counted = {v}
            /\ other.counted[v] \in 0 .. Cardinality(Units)
            /\ sponsorship[v] = IF other.kind = "ACCEPT" THEN "NONE" ELSE "ACTIVE"
      BY <2>5 DEF IsCounting
    <3>2. v # u
      BY <1>3, <2>1, <3>1 DEF AreApart
    <3>3. sponsorship'[v] = sponsorship[v]
      BY <1>4, <1>5, <3>2 DEF SnapshotsAreTyped
    <3>4. IsCounting(other)'
      BY <2>5, <3>1, <3>3 DEF IsCounting
    <3> QED BY <2>2, <3>4 DEF IsSound
  <2> QED BY <2>1, <2>3, <2>4, <2>5 DEF IsSound
<1>13. WorkInv'
  BY <1>4, <1>12, WorkEnds DEF AttendanceInv
<1> QED BY <1>10, <1>11, <1>13 DEF AttendanceInv

LEMMA AttendanceInitInv == AttendanceInit => AttendanceInv
<1> SUFFICES ASSUME AttendanceInit PROVE AttendanceInv
  OBVIOUS
<1>1. RecordsInv
  <2>1. RecordsAreTyped
    <3>1. clock \in Instants /\ NoCompletion \in CompletionRows
      BY AttendanceAssumption DEF AttendanceInit, Instants, CompletionRows
    <3>2. corrections \in [Bookings -> Seq(CorrectionRows)]
      BY EmptySeq DEF AttendanceInit
    <3> QED BY <3>1, <3>2 DEF AttendanceInit, RecordsAreTyped, ReviewStates
  <2>2. UnrecordedIsUntouched /\ LastCorrectionIsEffective
    BY DEF AttendanceInit, UnrecordedIsUntouched, LastCorrectionIsEffective
  <2>3. CompletionsAreAttended
    BY DEF AttendanceInit, CompletionsAreAttended, AttendedIn, Unrecorded
  <2> QED BY <2>1, <2>2, <2>3 DEF RecordsInv
<1>2. SnapshotsInv
  <2>1. NoSnapshot \in SnapshotRows /\ NoSnapshot.revision = 0
    <3>1. 0 \in 0 .. Cardinality(Units)
      BY CountsAreBounded, FS_CardinalityType, AttendanceAssumption
    <3> QED BY <3>1 DEF NoSnapshot, SnapshotRows
  <2>2. ~Captured(NoSnapshot)
    BY DEF Captured, NoSnapshot
  <2>3. /\ snapshots = [u \in Students |-> [d \in Boundaries |-> NoSnapshot]]
        /\ revisions = [u \in Students |-> [d \in Boundaries |-> <<>>]]
        /\ sponsorship = [u \in Students |-> "NONE"]
    BY DEF AttendanceInit
  <2> HIDE DEF NoSnapshot
  <2>4. SnapshotsAreTyped
    <3>1. snapshots \in Frozen
      BY <2>1, <2>3 DEF Frozen
    <3>2. revisions \in [Students -> [Boundaries -> Seq(RevisionRows)]]
      BY <2>3, EmptySeq
    <3> QED BY <2>3, <3>1, <3>2 DEF SnapshotsAreTyped
  <2>5. FrozenOnce
    BY <2>1, <2>2, <2>3 DEF FrozenOnce, Boundaries
  <2>6. SnapshotHistoryReconciles
    BY <2>1, <2>3, EmptySeq DEF SnapshotHistoryReconciles
  <2> QED BY <2>4, <2>5, <2>6 DEF SnapshotsInv
<1>3. WorkInv
  <2>1. IsSound(NoWork) /\ AreApart(NoWork, NoWork)
    BY DEF IsSound, AreApart, LockedBy, NoWork
  <2> HIDE DEF NoWork
  <2> QED BY <2>1 DEF AttendanceInit, WorkInv
<1> QED BY <1>1, <1>2, <1>3 DEF AttendanceInv

LEMMA AttendanceStepInv ==
  AttendanceInv /\ [AttendanceNext]_attendanceVars => AttendanceInv'
<1> SUFFICES ASSUME AttendanceInv, [AttendanceNext]_attendanceVars
             PROVE  AttendanceInv'
  OBVIOUS
<1>1. CASE UNCHANGED attendanceVars
  <2>1. /\ outcome' = outcome /\ corrections' = corrections
        /\ completion' = completion /\ reviews' = reviews
        /\ publishedAt' = publishedAt /\ clock' = clock
    BY <1>1 DEF attendanceVars, recordVars
  <2>2. /\ sponsorship' = sponsorship /\ snapshots' = snapshots
        /\ revisions' = revisions /\ work' = work
    BY <1>1 DEF attendanceVars, snapshotVars
  <2>3. RecordsInv'
    BY <2>1
       DEF AttendanceInv, RecordsInv, RecordsAreTyped, UnrecordedIsUntouched,
           CompletionsAreAttended, AttendedIn, LastCorrectionIsEffective
  <2>4. SnapshotsAreTyped' /\ FrozenOnce'
    BY <2>1, <2>2 DEF AttendanceInv, SnapshotsInv, SnapshotsAreTyped, FrozenOnce
  <2>5. SnapshotHistoryReconciles'
    BY <2>2 DEF AttendanceInv, SnapshotsInv, SnapshotHistoryReconciles
  <2>6. WorkInv'
    BY <1>1
       DEF AttendanceInv, attendanceVars, recordVars, snapshotVars, WorkInv,
           IsSound, IsEffective, IsReconciled, OutcomesAfter, AttendedIn,
           IsPast, IsCounting, AreApart
  <2> QED BY <2>3, <2>4, <2>5, <2>6 DEF AttendanceInv, SnapshotsInv
<1>2. ASSUME NEW t \in Transactions, NEW u \in Students,
             AcceptSponsorship(t, u) \/ EndSponsorship(t, u)
      PROVE  AttendanceInv'
  BY <1>2, StartBoundaryStep DEF AcceptSponsorship, EndSponsorship
<1>3. ASSUME NEW t \in Transactions, CommitAcceptance(t) \/ CommitEnd(t)
      PROVE  AttendanceInv'
  BY <1>3, CommitBoundaryStep DEF CommitAcceptance, CommitEnd
<1>4. ASSUME NEW b \in Reviewed, RequestAttendanceReview(b)
      PROVE  AttendanceInv'
  BY <1>4, RequestStep, AttendanceAssumption
<1> QED BY <1>1, <1>2, <1>3, <1>4, RecordStep, UpholdStep, DecideStep,
           CorrectStep, CommitStep, RollBackStep, TickStep
        DEF AttendanceNext

\* Every correction of an outcome is accounted for: the outcome in force is
\* the one the last correction gives, and a snapshot's history leads to its
\* present value, however the transactions that record, correct and count
\* interleave.
THEOREM CorrectionsAlwaysReconcile == AttendanceSpec => []CorrectionsReconcile
<1>1. AttendanceInv => CorrectionsReconcile
  <2> SUFFICES ASSUME AttendanceInv PROVE CorrectionsReconcile
    OBVIOUS
  <2>1. \A t \in Transactions :
          /\ work[t].kind \in {"NONE", "RECORD", "CORRECT", "ACCEPT", "END"}
          /\ work[t].step \in {"IDLE", "WAITING", "RECONCILED", "COUNTED"}
    BY DEF AttendanceInv, WorkInv, IsSound, IsWriting, IsCounting, NoWork
  <2>2. \A u \in Students, d \in Boundaries : revisions[u][d] \in Seq(RevisionRows)
    BY DEF AttendanceInv, SnapshotsInv, SnapshotsAreTyped
  <2> QED BY <2>1, <2>2
          DEF AttendanceInv, RecordsInv, SnapshotsInv, RecordsAreTyped,
              SnapshotsAreTyped, CorrectionsReconcile, AttendanceTypeOK,
              CorrectionRows, RevisionRows, ReviewStates, Frozen
<1> QED BY <1>1, AttendanceInitInv, AttendanceStepInv, PTL DEF AttendanceSpec

----------------------------------------------------------------------------
(* Attendance as its readers see it.                                       *)

LEMMA CompletedIsAttended ==
  ASSUME NEW earned, NEW outcomes,
         \A k \in Keys : earned[k] # NoCompletion <=> AttendedIn(outcomes, k)
  PROVE  {k \in Keys : earned[k] # NoCompletion}
           = Effective!AttendedUnits(outcomes)
<1>1. Effective!AttendedUnits(outcomes) =
        {k \in Keys : \E b \in Bookings :
           outcomes[b] = "ATTENDED" /\ k = KeyOf(b)}
  BY DEF Effective!AttendedUnits, Keys, KeyOf
<1>2. \A k \in Keys :
        AttendedIn(outcomes, k) <=>
          \E b \in Bookings : outcomes[b] = "ATTENDED" /\ k = KeyOf(b)
  BY DEF AttendedIn
<1> QED BY <1>1, <1>2

LEMMA CommitIsAtomic ==
  ASSUME AttendanceInv, AttendanceInv', NEW t \in Transactions,
         CommitAttendance(t)
  PROVE  Effective!AtomicNext
<1> DEFINE completed == {k \in Keys : completion[k] # NoCompletion}
<1>1. completed' = Effective!AttendedUnits(outcome')
  <2>1. \A k \in Keys : completion'[k] # NoCompletion <=> AttendedIn(outcome', k)
    BY DEF AttendanceInv, RecordsInv, CompletionsAreAttended
  <2> QED BY <2>1, CompletedIsAttended
<1>2. PICK row : row = work[t]
  OBVIOUS
<1>3. /\ IsWriting(row) /\ IsEffective(row)
      /\ outcome' = OutcomesAfter(row)
      /\ reviews' = [b \in Bookings |->
           IF row.kind = "CORRECT" /\ b \in DOMAIN row.new
           THEN "CORRECTED" ELSE reviews[b]]
  BY <1>2, CommittedRecords
<1>4. /\ reviews = [b \in Bookings |-> reviews[b]]
      /\ outcome = [b \in Bookings |-> outcome[b]]
  BY DEF AttendanceInv, RecordsInv, RecordsAreTyped
<1>5. CASE row.kind = "RECORD"
  <2>1. PICK s \in Sessions : DOMAIN row.new = Roster(s)
    BY <1>3, <1>5 DEF IsWriting
  <2>2. Roster(s) = {b \in Bookings : SessionOf[b] = s}
    BY DEF Roster
  <2>3. row.new \in [{b \in Bookings : SessionOf[b] = s} -> Outcomes]
    BY <1>3, <2>1, <2>2 DEF IsWriting
  <2>4. outcome' = [b \in Bookings |->
                      IF SessionOf[b] = s THEN row.new[b] ELSE outcome[b]]
    BY <1>3, <2>1, <2>2 DEF OutcomesAfter
  <2>5. reviews' = reviews
    BY <1>3, <1>4, <1>5
  <2>6. Effective!PublishRoster(s)
    BY <1>1, <2>3, <2>4, <2>5 DEF Effective!PublishRoster, Outcomes
  <2> QED BY <2>6 DEF Effective!AtomicNext
<1>6. CASE row.kind = "CORRECT"
  <2>1. PICK b \in Bookings : DOMAIN row.new = {b}
    BY <1>3, <1>6 DEF IsWriting
  <2>2. row.new[b] \in Outcomes /\ reviews[b] = "PENDING"
    BY <1>3, <1>6, <2>1 DEF IsWriting, IsEffective
  <2>3. outcome' = [outcome EXCEPT ![b] = row.new[b]]
    BY <1>3, <1>4, <2>1 DEF OutcomesAfter
  <2>4. reviews' = [reviews EXCEPT ![b] = "CORRECTED"]
    BY <1>3, <1>4, <1>6, <2>1
  <2>5. Effective!Correct(b)
    BY <1>1, <2>2, <2>3, <2>4 DEF Effective!Correct, Outcomes
  <2> QED BY <2>5 DEF Effective!AtomicNext
<1> QED BY <1>3, <1>5, <1>6 DEF IsWriting

LEMMA AtomicStep ==
  AttendanceInv /\ AttendanceInv' /\ [AttendanceNext]_attendanceVars
    => [Effective!AtomicNext]_(Effective!atomicVars)
<1> SUFFICES ASSUME AttendanceInv, AttendanceInv',
                    [AttendanceNext]_attendanceVars
             PROVE  [Effective!AtomicNext]_(Effective!atomicVars)
  OBVIOUS
<1>1. UNCHANGED <<outcome, completion, reviews>> =>
        UNCHANGED Effective!atomicVars
  BY DEF Effective!atomicVars
<1>2. CASE UNCHANGED attendanceVars
  BY <1>1, <1>2 DEF attendanceVars, recordVars
<1>3. ASSUME NEW t \in Transactions, NEW s \in Sessions, NEW actor,
             NEW new \in [Roster(s) -> Outcomes],
             RecordAttendance(t, s, actor, new)
      PROVE  UNCHANGED Effective!atomicVars
  BY <1>1, <1>3 DEF RecordAttendance, recordVars
<1>4. ASSUME NEW b \in Bookings, RequestAttendanceReview(b)
      PROVE  Effective!AtomicNext
  <2>1. Effective!AskForReview(b)
    BY <1>4 DEF RequestAttendanceReview, Effective!AskForReview, Unrecorded
  <2> QED BY <2>1 DEF Effective!AtomicNext
<1>5. ASSUME NEW b \in Bookings, UpholdReview(b)
      PROVE  Effective!AtomicNext
  <2>1. Effective!Uphold(b)
    BY <1>5 DEF UpholdReview, Undecided, AwaitsDecision, Effective!Uphold
  <2> QED BY <2>1 DEF Effective!AtomicNext
<1>6. ASSUME NEW t \in Transactions, NEW b \in Bookings, DecideCorrection(t, b)
      PROVE  UNCHANGED Effective!atomicVars
  BY <1>1, <1>6 DEF DecideCorrection, recordVars
<1>7. ASSUME NEW t \in Transactions, CorrectAttendance(t) \/ RollBack(t)
      PROVE  UNCHANGED Effective!atomicVars
  BY <1>1, <1>7 DEF CorrectAttendance, RollBack, recordVars
<1>8. ASSUME NEW t \in Transactions, CommitAcceptance(t) \/ CommitEnd(t)
      PROVE  UNCHANGED Effective!atomicVars
  BY <1>1, <1>8 DEF CommitAcceptance, CommitEnd, CommitBoundary, recordVars
<1>9. ASSUME NEW t \in Transactions, NEW u \in Students,
             AcceptSponsorship(t, u) \/ EndSponsorship(t, u)
      PROVE  UNCHANGED Effective!atomicVars
  BY <1>1, <1>9
     DEF AcceptSponsorship, EndSponsorship, StartBoundary, recordVars
<1>10. CASE Tick
  BY <1>1, <1>10 DEF Tick, recordVars
<1> QED BY <1>2, <1>3, <1>4, <1>5, <1>6, <1>7, <1>8, <1>9, <1>10,
           CommitIsAtomic, AttendanceAssumption
        DEF AttendanceNext

\* What a reader of the records sees changes atomically: an outcome, the
\* Lesson Unit Completion that rests on it and the decision of its review
\* change together, and a decision is taken once.
THEOREM AttendanceIsAtomic == AttendanceSpec => ImplementsAtomicAttendance
<1>1. AttendanceInit => Effective!AtomicInit
  <2> SUFFICES ASSUME AttendanceInit PROVE Effective!AtomicInit
    OBVIOUS
  <2>1. {k \in Keys : completion[k] # NoCompletion} = {}
    BY DEF AttendanceInit
  <2> QED BY <2>1 DEF AttendanceInit, Effective!AtomicInit, Unrecorded
<1> QED BY <1>1, AttendanceInitInv, AttendanceStepInv, AtomicStep, PTL
        DEF AttendanceSpec, ImplementsAtomicAttendance, Effective!AtomicSpec

----------------------------------------------------------------------------
(* The schedules of a Teacher.                                             *)

Ranges == [hours : Hours, from : Dates, until : Dates \cup {Open}]

(* A range ends before a later one begins: what makes the dates of ranges  *)
(* that begin on different days disjoint, whoever ended or prolonged them. *)
RangesFollow ==
  \A r, q \in ranges : r.from < q.from => r.until < q.from

RangesInvariant == ranges \subseteq Ranges /\ RangesFollow

LEMMA DatesAreNumbers ==
  /\ LastDate \in Nat \ {0} /\ Dates \subseteq Nat \ {0} /\ Open \in Nat
  /\ \A d \in Dates : d < Open
BY AvailabilityAssumption DEF Dates, Open

LEMMA RangeTyped ==
  ASSUME ranges \subseteq Ranges, NEW r \in ranges
  PROVE  r.from \in Dates /\ r.from \in Nat /\ r.until \in Nat
         /\ r.hours \in Hours
BY DatesAreNumbers DEF Ranges

(* Every nonempty set of natural numbers has a least element.              *)
LEMMA LeastNumber ==
  ASSUME NEW S \in SUBSET Nat, S # {}
  PROVE  Min(S) \in S /\ \A n \in S : Min(S) <= n
<1> DEFINE Less == {ss \in Nat \X Nat : ss[1] < ss[2]}
<1>1. IsWellFoundedOn(Less, Nat)
  BY NatLessThanWellFounded DEF OpToRel
<1>2. PICK m \in S : \A n \in S : <<n, m>> \notin Less
  <2> HIDE DEF Less
  <2> QED BY <1>1, WFMin
<1>3. ASSUME NEW n \in S PROVE m <= n
  <2>1. m \in Nat /\ n \in Nat /\ <<n, m>> \notin Less
    BY <1>2
  <2> QED BY <2>1
<1> QED BY <1>3 DEF Min

(* A new range ends before the next one begins, and not before it begins.  *)
LEMMA LastDayIsFree ==
  ASSUME ranges \subseteq Ranges, NEW from \in Dates
  PROVE  /\ LastDay(from) \in Dates \cup {Open}
         /\ \A r \in ranges : from < r.from => LastDay(from) < r.from
<1>1. /\ StartsAfter(from) \in SUBSET Nat
      /\ \A n \in StartsAfter(from) : n \in Dates /\ n > from
      /\ \A r \in ranges : from < r.from => r.from \in StartsAfter(from)
  BY DatesAreNumbers, RangeTyped DEF StartsAfter
<1>2. CASE StartsAfter(from) = {}
  BY <1>1, <1>2 DEF LastDay
<1>3. CASE StartsAfter(from) # {}
  <2> DEFINE m == Min(StartsAfter(from))
  <2>1. m \in StartsAfter(from) /\ \A n \in StartsAfter(from) : m <= n
    BY <1>1, <1>3, LeastNumber
  <2>2. LastDay(from) = m - 1
    BY <1>3 DEF LastDay
  <2>3. m \in Dates /\ m > from
    BY <1>1, <2>1
  <2> HIDE DEF m
  <2>4. m - 1 \in Dates
    BY <2>3, DatesAreNumbers DEF Dates
  <2>5. ASSUME NEW r \in ranges, from < r.from PROVE m - 1 < r.from
    BY <1>1, <2>1, <2>3, <2>5, RangeTyped, DatesAreNumbers
  <2> QED BY <2>2, <2>4, <2>5
<1> QED BY <1>2, <1>3

\* What becomes of a range when a schedule is saved from a day on.
Trimmed(r, from) ==
  IF IsCut(r, from) THEN [r EXCEPT !.until = from - 1] ELSE r

LEMMA TrimmedRange ==
  ASSUME ranges \subseteq Ranges, NEW r \in ranges, NEW from \in Dates
  PROVE  LET t == Trimmed(r, from) IN
         /\ t \in Ranges /\ t.from = r.from /\ t.hours = r.hours
         /\ t.until <= r.until
         /\ r.from < from => t.until < from
         /\ ~IsCut(r, from) => t = r
         /\ \A d \in Dates : Covers(t, d) <=>
              Covers(r, d) /\ (IsCut(r, from) => d < from)
<1>0. /\ r \in Ranges /\ r.from \in Dates /\ r.from \in Nat /\ r.until \in Nat
      /\ from \in Nat \ {0}
  BY RangeTyped, DatesAreNumbers
<1>1. CASE IsCut(r, from)
  <2>1. r.from < from /\ from <= r.until
    BY <1>0, <1>1 DEF IsCut
  <2>2. from - 1 \in Dates
    BY <1>0, <2>1, DatesAreNumbers DEF Dates
  <2>3. Trimmed(r, from) = [r EXCEPT !.until = from - 1]
    BY <1>1 DEF Trimmed
  <2>4. LET t == Trimmed(r, from) IN
        /\ t \in Ranges /\ t.from = r.from /\ t.hours = r.hours
        /\ t.until = from - 1
    BY <1>0, <2>2, <2>3 DEF Ranges
  <2> QED BY <1>0, <1>1, <2>1, <2>4, DatesAreNumbers DEF Covers
<1>2. CASE ~IsCut(r, from)
  BY <1>0, <1>2 DEF Trimmed, IsCut
<1> QED BY <1>1, <1>2

LEMMA SaveKeepsRanges ==
  ASSUME RangesInvariant, NEW h \in Hours, NEW from \in Dates,
         SaveTeacherAvailabilityRange(h, from)
  PROVE  RangesInvariant'
<1> DEFINE fresh == [hours |-> h, from |-> from, until |-> LastDay(from)]
<1>1. /\ ranges \subseteq Ranges /\ RangesFollow
      /\ ranges' = {Trimmed(r, from) : r \in ranges} \cup {fresh}
  BY DEF RangesInvariant, SaveTeacherAvailabilityRange, Trimmed
<1>2. /\ fresh \in Ranges /\ fresh.from = from
      /\ fresh.until = LastDay(from)
  BY <1>1, LastDayIsFree DEF Ranges
<1>3. ranges' \subseteq Ranges
  BY <1>1, <1>2, TrimmedRange
<1> HIDE DEF fresh
<1>4. ASSUME NEW r \in ranges, NEW q \in ranges,
             Trimmed(r, from).from < Trimmed(q, from).from
      PROVE  Trimmed(r, from).until < Trimmed(q, from).from
  <2>1. /\ Trimmed(r, from).from = r.from /\ Trimmed(q, from).from = q.from
        /\ Trimmed(r, from).until <= r.until
        /\ Trimmed(r, from) \in Ranges
    BY <1>1, TrimmedRange
  <2>2. r.until < q.from
    BY <1>1, <1>4, <2>1 DEF RangesFollow
  <2>3. /\ r.until \in Nat /\ q.from \in Nat
        /\ Trimmed(r, from).until \in Nat
    BY <1>1, <2>1, RangeTyped, DatesAreNumbers DEF Ranges
  <2> QED BY <2>1, <2>2, <2>3
<1>5. \A r \in ranges :
        /\ Trimmed(r, from).from < from => Trimmed(r, from).until < from
        /\ from < Trimmed(r, from).from
             => LastDay(from) < Trimmed(r, from).from
  BY <1>1, TrimmedRange, LastDayIsFree
<1>6. RangesFollow'
  <2> SUFFICES ASSUME NEW r \in ranges', NEW q \in ranges', r.from < q.from
               PROVE  r.until < q.from
    BY DEF RangesFollow
  <2>1. CASE r = fresh /\ q = fresh
    BY <1>2, <2>1, DatesAreNumbers
  <2>2. CASE r = fresh /\ q # fresh
    <3>1. PICK q0 \in ranges : q = Trimmed(q0, from)
      BY <1>1, <2>2
    <3> QED BY <1>2, <1>5, <2>2, <3>1
  <2>3. CASE r # fresh /\ q = fresh
    <3>1. PICK r0 \in ranges : r = Trimmed(r0, from)
      BY <1>1, <2>3
    <3> QED BY <1>2, <1>5, <2>3, <3>1
  <2>4. CASE r # fresh /\ q # fresh
    <3>1. PICK r0 \in ranges : r = Trimmed(r0, from)
      BY <1>1, <2>4
    <3>2. PICK q0 \in ranges : q = Trimmed(q0, from)
      BY <1>1, <2>4
    <3> QED BY <1>4, <3>1, <3>2
  <2> QED BY <2>1, <2>2, <2>3, <2>4
<1> QED BY <1>3, <1>6 DEF RangesInvariant

LEMMA EndKeepsRanges ==
  ASSUME RangesInvariant, NEW r \in ranges, NEW until \in Dates,
         EndTeacherAvailabilityRange(r, until)
  PROVE  RangesInvariant'
<1> DEFINE t == [r EXCEPT !.until = until]
<1>1. /\ ranges \subseteq Ranges /\ RangesFollow
      /\ ranges' = (ranges \ {r}) \cup {t}
      /\ MayEnd(r, until)
  BY DEF RangesInvariant, EndTeacherAvailabilityRange
<1>2. t \in Ranges /\ t.from = r.from /\ t.until = until
  BY <1>1 DEF Ranges
<1>3. \A q \in ranges : r.from < q.from => until < q.from
  BY <1>1, RangeTyped DEF MayEnd, StartsAfter
<1> HIDE DEF t
<1>4. RangesFollow'
  BY <1>1, <1>2, <1>3, RangeTyped DEF RangesFollow
<1> QED BY <1>1, <1>2, <1>4 DEF RangesInvariant

LEMMA RangesAreInvariant == AvailabilitySpec => []RangesInvariant
<1>1. AvailabilityInit => RangesInvariant
  BY DEF AvailabilityInit, RangesInvariant, RangesFollow
<1>2. RangesInvariant /\ [AvailabilityNext]_ranges => RangesInvariant'
  <2>1. RangesInvariant /\ UNCHANGED ranges => RangesInvariant'
    BY DEF RangesInvariant, RangesFollow
  <2> QED
    BY <2>1, SaveKeepsRanges, EndKeepsRanges DEF AvailabilityNext
<1> QED BY <1>1, <1>2, PTL DEF AvailabilitySpec

\* A change concerns the dates from the day on, up to the next schedule.
ConcernsOneSchedule ==
  \E from \in Dates : \A d \in Dates :
    OfferedOn(d)' # OfferedOn(d) =>
      from <= d /\ \A r \in ranges : r.from <= from \/ d < r.from


LEMMA SaveConcernsOneSchedule ==
  ASSUME RangesInvariant, NEW h \in Hours, NEW from \in Dates,
         SaveTeacherAvailabilityRange(h, from)
  PROVE  ConcernsOneSchedule
<1> DEFINE fresh == [hours |-> h, from |-> from, until |-> LastDay(from)]
<1>1. /\ ranges \subseteq Ranges /\ RangesFollow
      /\ ranges' = {Trimmed(r, from) : r \in ranges} \cup {fresh}
      /\ fresh.from = from /\ fresh.until = LastDay(from)
  BY DEF RangesInvariant, SaveTeacherAvailabilityRange, Trimmed
<1> HIDE DEF fresh
<1>2. ASSUME NEW d \in Dates, ~Covers(fresh, d),
             \A r \in ranges : Covers(Trimmed(r, from), d) <=> Covers(r, d)
      PROVE  OfferedOn(d)' = OfferedOn(d)
  <2>1. \A r \in ranges : Trimmed(r, from).hours = r.hours
    BY <1>1, TrimmedRange
  <2>2. OfferedOn(d)' = {r.hours : r \in {q \in ranges' : Covers(q, d)}}
    BY DEF OfferedOn, Covers
  <2>3. ASSUME NEW x \in OfferedOn(d) PROVE x \in OfferedOn(d)'
    <3>1. PICK r \in ranges : Covers(r, d) /\ x = r.hours
      BY <2>3 DEF OfferedOn
    <3>2. /\ Trimmed(r, from) \in ranges' /\ Covers(Trimmed(r, from), d)
          /\ Trimmed(r, from).hours = x
      BY <1>1, <1>2, <2>1, <3>1
    <3> QED BY <2>2, <3>2
  <2>4. ASSUME NEW x \in OfferedOn(d)' PROVE x \in OfferedOn(d)
    <3>1. PICK q \in ranges' : Covers(q, d) /\ x = q.hours
      BY <2>2, <2>4
    <3>2. PICK r \in ranges : q = Trimmed(r, from)
      BY <1>1, <1>2, <3>1
    <3>3. Covers(r, d) /\ r.hours = x
      BY <1>2, <2>1, <3>1, <3>2
    <3> QED BY <3>3 DEF OfferedOn
  <2> QED BY <2>3, <2>4
<1>3. ASSUME NEW d \in Dates, d < from
      PROVE  OfferedOn(d)' = OfferedOn(d)
  <2>1. ~Covers(fresh, d)
    BY <1>1, <1>3, DatesAreNumbers DEF Covers
  <2>2. \A r \in ranges : Covers(Trimmed(r, from), d) <=> Covers(r, d)
    BY <1>1, <1>3, TrimmedRange
  <2> QED BY <1>2, <2>1, <2>2
<1>4. ASSUME NEW d \in Dates, NEW q \in ranges, from < q.from, q.from <= d
      PROVE  OfferedOn(d)' = OfferedOn(d)
  <2>1. LastDay(from) < q.from /\ LastDay(from) \in Nat /\ d \in Nat
    BY <1>1, <1>4, LastDayIsFree, DatesAreNumbers
  <2>2. ~Covers(fresh, d)
    BY <1>1, <1>4, <2>1, RangeTyped DEF Covers
  <2>3. ASSUME NEW r \in ranges
        PROVE  Covers(Trimmed(r, from), d) <=> Covers(r, d)
    <3>1. CASE IsCut(r, from)
      <4>1. r.from < q.from /\ r.until < q.from
        BY <1>1, <1>4, <3>1, RangeTyped, DatesAreNumbers
           DEF IsCut, RangesFollow
      <4>2. ~Covers(r, d)
        BY <1>1, <1>4, <2>1, <4>1, RangeTyped DEF Covers
      <4> QED BY <1>1, <4>2, TrimmedRange
    <3>2. CASE ~IsCut(r, from)
      BY <1>1, <3>2, TrimmedRange
    <3> QED BY <3>1, <3>2
  <2> QED BY <1>2, <2>2, <2>3
<1>5. ASSUME NEW d \in Dates, OfferedOn(d)' # OfferedOn(d)
      PROVE  from <= d /\ \A r \in ranges : r.from <= from \/ d < r.from
  BY <1>1, <1>3, <1>4, <1>5, RangeTyped, DatesAreNumbers
<1> QED BY <1>5 DEF ConcernsOneSchedule

LEMMA EndConcernsOneSchedule ==
  ASSUME RangesInvariant, NEW r \in ranges, NEW until \in Dates,
         EndTeacherAvailabilityRange(r, until)
  PROVE  ConcernsOneSchedule
<1> DEFINE t == [r EXCEPT !.until = until]
<1>1. /\ ranges \subseteq Ranges /\ RangesFollow
      /\ ranges' = (ranges \ {r}) \cup {t}
      /\ r \in Ranges /\ MayEnd(r, until)
  BY DEF RangesInvariant, EndTeacherAvailabilityRange
<1>2. t.from = r.from /\ t.until = until
  BY <1>1 DEF Ranges
<1>3. \A q \in ranges : r.from < q.from => until < q.from /\ r.until < q.from
  BY <1>1, RangeTyped DEF MayEnd, StartsAfter, RangesFollow
<1> HIDE DEF t
<1>4. ASSUME NEW d \in Dates, OfferedOn(d)' # OfferedOn(d)
      PROVE  Covers(r, d) \/ Covers(t, d)
  <2> SUFFICES ASSUME ~Covers(r, d), ~Covers(t, d) PROVE FALSE
    OBVIOUS
  <2>1. {q \in ranges' : Covers(q, d)} = {q \in ranges : Covers(q, d)}
    BY <1>1
  <2>2. OfferedOn(d)' = {q.hours : q \in {p \in ranges' : Covers(p, d)}}
    BY DEF OfferedOn, Covers
  <2> QED BY <1>4, <2>1, <2>2 DEF OfferedOn
<1>5. ASSUME NEW d \in Dates, Covers(r, d) \/ Covers(t, d)
      PROVE  r.from <= d /\ \A q \in ranges : q.from <= r.from \/ d < q.from
  <2>1. r.from <= d /\ (d <= r.until \/ d <= until)
    BY <1>2, <1>5 DEF Covers
  <2>2. ASSUME NEW q \in ranges, r.from < q.from PROVE d < q.from
    BY <1>1, <1>3, <2>1, <2>2, RangeTyped, DatesAreNumbers
  <2> QED BY <1>1, <2>1, <2>2, RangeTyped
<1>6. r.from \in Dates
  BY <1>1, RangeTyped
<1> QED BY <1>4, <1>5, <1>6 DEF ConcernsOneSchedule

(* Whoever saves, ends and prolongs ranges, in whatever order: no two      *)
(* schedules hold on one date, and a change leaves the dates before it and *)
(* those of later schedules alone.                                         *)
THEOREM SchedulesStayApart == AvailabilitySpec => SchedulesAreApart
<1>1. RangesInvariant => DatesHaveOneSchedule
  <2> SUFFICES ASSUME RangesInvariant, NEW r \in ranges, NEW q \in ranges,
                      NEW d \in Dates, Covers(r, d), Covers(q, d)
               PROVE  r.from = q.from
    BY DEF DatesHaveOneSchedule
  <2>1. ranges \subseteq Ranges /\ RangesFollow
    BY DEF RangesInvariant
  <2>2. r.from <= d /\ d <= r.until /\ q.from <= d /\ d <= q.until
    BY DEF Covers
  <2>3. ~(r.from < q.from) /\ ~(q.from < r.from)
    BY <2>1, <2>2, RangeTyped, DatesAreNumbers DEF RangesFollow
  <2> QED BY <2>1, <2>3, RangeTyped
<1>2. RangesInvariant /\ RangesInvariant' /\ [AvailabilityNext]_ranges
        => [/\ DatesHaveOneSchedule'
            /\ \E from \in Dates : \A d \in Dates :
                 OfferedOn(d)' # OfferedOn(d) =>
                   /\ from <= d
                   /\ \A r \in ranges : r.from <= from \/ d < r.from]_ranges
  <2>1. RangesInvariant' => DatesHaveOneSchedule'
    BY <1>1, PTL
  <2> QED
    BY <2>1, SaveConcernsOneSchedule, EndConcernsOneSchedule
       DEF AvailabilityNext, ConcernsOneSchedule
<1> QED
  BY <1>2, RangesAreInvariant, PTL DEF AvailabilitySpec, SchedulesAreApart


----------------------------------------------------------------------------
(* Local times.                                                            *)

LEMMA LeastAndGreatestOfTwo ==
  ASSUME NEW a \in Int, NEW b \in Int
  PROVE  /\ Min({a}) = a /\ Max({a}) = a
         /\ Min({a, b}) = IF a <= b THEN a ELSE b
         /\ Max({a, b}) = IF a <= b THEN b ELSE a
<1>1. Min({a}) = a /\ Max({a}) = a
  BY DEF Min, Max
<1>2. Min({a, b}) = IF a <= b THEN a ELSE b
  BY DEF Min
<1>3. Max({a, b}) = IF a <= b THEN b ELSE a
  BY DEF Max
<1> QED BY <1>1, <1>2, <1>3

ZoneTyped == zone \in [change : Changes, shift : Shifts]

LEMMA ZoneIsTyped ==
  ASSUME ZoneTyped
  PROVE  /\ Day \in Nat \ {0} /\ Hour \in Nat \ {0}
         /\ zone.change \in Nat /\ zone.shift \in Int
         /\ -Day <= zone.shift /\ zone.shift <= Day
<1>1. zone.change \in Nat /\ zone.shift \in -Day .. Day
  BY LocalTimeAssumption DEF ZoneTyped
<1>2. Day \in Nat \ {0} /\ Hour \in Nat \ {0} /\ -Day \in Int
  BY LocalTimeAssumption
<1> QED BY <1>1, <1>2

(* A clock shows a time at the candidates only, so at two instants at most.*)
LEMMA OnlyCandidates ==
  ASSUME ZoneTyped, NEW l \in Int
  PROVE  /\ \A i \in Int : LocalOf(i) = l => i \in InstantsAt(l)
         /\ Candidates(l) \subseteq Int
         /\ InstantsAt(l) \subseteq Candidates(l)
         /\ \A i \in InstantsAt(l) : i \in Int /\ LocalOf(i) = l
BY ZoneIsTyped DEF LocalOf, InstantsAt, Candidates

(* The earlier and the later possible instant of a local time: those at    *)
(* which the clock shows it, unless there are none.                        *)
LEMMA PossibleInstants ==
  ASSUME ZoneTyped, NEW l \in Int
  PROVE  /\ Earlier(l) \in Possible(l) /\ Later(l) \in Possible(l)
         /\ \A i \in Possible(l) : Earlier(l) <= i /\ i <= Later(l)
         /\ Possible(l) \subseteq Candidates(l) /\ Possible(l) \subseteq Int
<1>1. /\ l \in Int /\ l - zone.shift \in Int
      /\ Candidates(l) = {l, l - zone.shift}
  BY ZoneIsTyped DEF Candidates
<1>2. \/ Possible(l) = {l, l - zone.shift}
      \/ Possible(l) = {l} \/ Possible(l) = {l - zone.shift}
  BY <1>1 DEF Possible, InstantsAt
<1> DEFINE a == l
           b == l - zone.shift
<1>3. a \in Int /\ b \in Int
  BY <1>1
<1>4. /\ Earlier(l) = Min(Possible(l)) /\ Later(l) = Max(Possible(l))
      /\ Candidates(l) = {a, b}
      /\ Possible(l) = {a, b} \/ Possible(l) = {a} \/ Possible(l) = {b}
  BY <1>1, <1>2 DEF Earlier, Later
<1> HIDE DEF a, b
<1>5. CASE Possible(l) = {a, b}
  <2>1. /\ Min({a, b}) = IF a <= b THEN a ELSE b
        /\ Max({a, b}) = IF a <= b THEN b ELSE a
    BY <1>3, LeastAndGreatestOfTwo
  <2>2. /\ Earlier(l) = IF a <= b THEN a ELSE b
        /\ Later(l) = IF a <= b THEN b ELSE a
    BY <1>4, <1>5, <2>1
  <2> QED BY <1>3, <1>4, <1>5, <2>2
<1>6. CASE Possible(l) = {a}
  BY <1>3, <1>4, <1>6, LeastAndGreatestOfTwo
<1>7. CASE Possible(l) = {b}
  BY <1>3, <1>4, <1>7, LeastAndGreatestOfTwo
<1> QED BY <1>4, <1>5, <1>6, <1>7

(* A time is in a gap exactly if the clock never shows it.                 *)
LEMMA GapsAreNotShown ==
  ASSUME ZoneTyped, NEW l \in Int
  PROVE  /\ IsGap(l) <=> InstantsAt(l) = {}
         /\ ~IsGap(l) => /\ Possible(l) = InstantsAt(l)
                         /\ LocalOf(Earlier(l)) = l /\ LocalOf(Later(l)) = l
<1>1. CASE InstantsAt(l) = {}
  <2>1. \A i \in Int : LocalOf(i) # l
    BY <1>1, OnlyCandidates
  <2>2. Earlier(l) \in Int /\ Later(l) \in Int
    BY PossibleInstants
  <2> QED BY <1>1, <2>1, <2>2 DEF IsGap
<1>2. CASE InstantsAt(l) # {}
  <2>1. Possible(l) = InstantsAt(l)
    BY <1>2 DEF Possible
  <2>2. LocalOf(Earlier(l)) = l /\ LocalOf(Later(l)) = l
    BY <2>1, PossibleInstants, OnlyCandidates
  <2> QED BY <1>2, <2>1, <2>2 DEF IsGap
<1> QED BY <1>1, <1>2

LEMMA FoundIsShown ==
  ASSUME ZoneTyped, NEW l \in Int, NEW choice, Outcome(l, choice) = "FOUND"
  PROVE  LocalOf(Resolved(l, choice)) = l /\ Resolved(l, choice) \in Int
<1>1. ~IsGap(l)
  BY DEF Outcome
<1> QED BY <1>1, GapsAreNotShown, PossibleInstants DEF Resolved

AroundChange == -Day .. 3 * Day

(* In a fold the clock shows the time twice.                               *)
LEMMA FoldsAreShownTwice ==
  ASSUME ZoneTyped, NEW l \in Locals, NEW choice,
         Outcome(l, choice) = "FOLD"
  PROVE  Cardinality({i \in AroundChange : LocalOf(i) = l}) = 2
<1>0. l \in Int /\ 0 <= l /\ l <= 2 * Day - 1 /\ Day \in Nat
  BY ZoneIsTyped DEF Locals
<1>1. ~IsGap(l) /\ Earlier(l) # Later(l)
  BY DEF Outcome
<1>2. /\ Possible(l) = InstantsAt(l)
      /\ Earlier(l) \in InstantsAt(l) /\ Later(l) \in InstantsAt(l)
  BY <1>0, <1>1, GapsAreNotShown, PossibleInstants
<1>3. InstantsAt(l) = {l, l - zone.shift} /\ l # l - zone.shift
  BY <1>1, <1>2 DEF InstantsAt, Candidates
<1>4. l \in AroundChange /\ l - zone.shift \in AroundChange
  BY <1>0, ZoneIsTyped DEF AroundChange
<1>5. {i \in AroundChange : LocalOf(i) = l} = {l, l - zone.shift}
  <2>1. \A i \in AroundChange : i \in Int
    BY DEF AroundChange
  <2> QED BY <1>0, <1>3, <1>4, <2>1, OnlyCandidates
<1>6. Cardinality({l, l - zone.shift}) = 2
  <2>1. {l, l - zone.shift} = {l} \cup {l - zone.shift}
    OBVIOUS
  <2>2. IsFiniteSet({l}) /\ Cardinality({l}) = 1
    BY FS_Singleton
  <2>3. Cardinality({l} \cup {l - zone.shift}) = Cardinality({l}) + 1
    BY <1>3, <2>2, FS_AddElement
  <2> QED BY <2>1, <2>2, <2>3
<1> QED BY <1>5, <1>6

(* The earlier instant of a time is no later than any instant at which the *)
(* clock shows as much or more, on whichever side of the change; and so    *)
(* for the later instant.                                                  *)
LEMMA EarlierIsFirst ==
  ASSUME ZoneTyped, NEW l \in Int, NEW i \in Int, l <= LocalOf(i)
  PROVE  Earlier(l) <= i
<1>0. zone.change \in Nat /\ zone.shift \in Int
  BY ZoneIsTyped
<1>1. \A p \in Possible(l) : Earlier(l) <= p /\ p \in Int
  BY PossibleInstants
<1>2. Earlier(l) \in Int
  BY PossibleInstants
<1>3. CASE i < zone.change
  <2>1. l <= i /\ LocalOf(l) = l
    BY <1>0, <1>3 DEF LocalOf
  <2>2. l \in Possible(l)
    BY <2>1 DEF Possible, InstantsAt, Candidates
  <2> QED BY <1>1, <1>2, <2>1, <2>2
<1>4. CASE ~(i < zone.change)
  <2>1. l - zone.shift <= i /\ zone.change <= i
    BY <1>0, <1>4 DEF LocalOf
  <2>2. CASE l - zone.shift \in Possible(l)
    BY <1>0, <1>1, <1>2, <2>1, <2>2
  <2>3. CASE l - zone.shift \notin Possible(l)
    <3>1. l \in Possible(l) /\ LocalOf(l) = l
      BY <2>3 DEF Possible, InstantsAt, Candidates
    <3>2. l < zone.change
      BY <1>0, <2>3, <3>1 DEF LocalOf
    <3> QED BY <1>0, <1>1, <1>2, <2>1, <3>1, <3>2
  <2> QED BY <2>2, <2>3
<1> QED BY <1>3, <1>4

LEMMA LaterIsLast ==
  ASSUME ZoneTyped, NEW l \in Int, NEW i \in Int, LocalOf(i) <= l
  PROVE  i <= Later(l)
<1>0. zone.change \in Nat /\ zone.shift \in Int
  BY ZoneIsTyped
<1>1. \A p \in Possible(l) : p <= Later(l) /\ p \in Int
  BY PossibleInstants
<1>2. Later(l) \in Int
  BY PossibleInstants
<1>3. CASE ~(i < zone.change)
  <2>1. i <= l - zone.shift /\ LocalOf(l - zone.shift) = l
    BY <1>0, <1>3 DEF LocalOf
  <2>2. l - zone.shift \in Possible(l)
    BY <2>1 DEF Possible, InstantsAt, Candidates
  <2> QED BY <1>0, <1>1, <1>2, <2>1, <2>2
<1>4. CASE i < zone.change
  <2>1. i <= l
    BY <1>0, <1>4 DEF LocalOf
  <2>2. CASE l \in Possible(l)
    BY <1>1, <1>2, <2>1, <2>2
  <2>3. CASE l \notin Possible(l)
    <3>1. l - zone.shift \in Possible(l) /\ LocalOf(l - zone.shift) = l
      BY <2>3 DEF Possible, InstantsAt, Candidates
    <3>2. zone.change <= l - zone.shift
      BY <1>0, <2>3, <3>1 DEF LocalOf
    <3> QED BY <1>0, <1>1, <1>2, <1>4, <3>1, <3>2
  <2> QED BY <2>2, <2>3
<1> QED BY <1>3, <1>4


SessionRequests ==
  [kind : {"SESSION"}, local : Locals, choice : Disambiguations,
   hours : WorkingHours]
ExceptionRequests ==
  [kind : {"EXCEPTION"}, local : Locals, until : Locals,
   choice : Disambiguations, choiceOfEnd : Disambiguations]

TimeInvariant ==
  /\ ZoneTyped
  /\ request \in SessionRequests \/ request \in ExceptionRequests
  /\ LocalTimesAreKept

LEMMA RequestTyped ==
  ASSUME TimeInvariant
  PROVE  /\ request.local \in Locals /\ request.local \in Int
         /\ request.kind = "SESSION" =>
              /\ request.hours.from \in Nat /\ request.hours.to \in Nat
              /\ request.hours.from < request.hours.to
         /\ request.kind = "EXCEPTION" =>
              request.until \in Locals /\ request.until \in Int
         /\ request.kind = "SESSION" \/ request.kind = "EXCEPTION"
<1>0. \A l \in Locals : l \in Int
  BY DEF Locals
<1>1. CASE request \in SessionRequests
  BY <1>0, <1>1 DEF SessionRequests, WorkingHours
<1>2. CASE request \in ExceptionRequests
  BY <1>0, <1>2 DEF ExceptionRequests
<1> QED BY <1>1, <1>2 DEF TimeInvariant

(* What an answer may be for the times asked for.                          *)
LEMMA RefusalsAreTrue ==
  ASSUME TimeInvariant, NEW l \in Asked, l \in Locals, NEW choice,
         UNCHANGED <<zone, request>>,
         answer' = Answered(Outcome(l, choice)),
         Outcome(l, choice) # "FOUND"
  PROVE  LocalTimesAreKept'
<1>0. ZoneTyped /\ l \in Int
  BY DEF TimeInvariant, Locals
<1>1. answer'.outcome = Outcome(l, choice) /\ answer'.outcome \in {"GAP", "FOLD"}
  BY DEF Answered, Outcome
<1>2. Outcome(l, choice) = "GAP" => \A i \in -Day .. 3 * Day : LocalOf(i) # l
  <2>1. Outcome(l, choice) = "GAP" => InstantsAt(l) = {}
    BY <1>0, GapsAreNotShown DEF Outcome
  <2>2. \A i \in -Day .. 3 * Day : i \in Int
    OBVIOUS
  <2> QED BY <1>0, <2>1, <2>2, OnlyCandidates
<1>3. Outcome(l, choice) = "FOLD" =>
        Cardinality({i \in -Day .. 3 * Day : LocalOf(i) = l}) = 2
  BY <1>0, FoldsAreShownTwice DEF AroundChange
<1>4. l \in Asked' /\ \A i : LocalOf(i)' = LocalOf(i)
  BY DEF Asked, LocalOf
<1> QED
  BY <1>1, <1>2, <1>3, <1>4
     DEF LocalTimesAreKept, TimesAreNeverShifted, SessionsFitHours, IsPlaced

LEMMA OtherAnswers ==
  ASSUME NEW refusal, answer' = Answered(refusal),
         refusal \in {"UNAVAILABLE", "INVALID", "FAILED"}
  PROVE  LocalTimesAreKept'
<1>1. answer'.outcome \in {"UNAVAILABLE", "INVALID", "FAILED"}
  BY DEF Answered
<1> QED
  BY <1>1
     DEF LocalTimesAreKept, TimesAreNeverShifted, SessionsFitHours, IsPlaced

(* A date and a time of day are a local time.                              *)
LEMMA DateAndTime ==
  ASSUME NEW l \in Int
  PROVE  /\ DateOf(l) \in Int /\ TimeOf(l) \in Int
         /\ DateOf(l) * Day \in Int
         /\ l = DateOf(l) * Day + TimeOf(l)
BY LocalTimeAssumption DEF DateOf, TimeOf

LEMMA PublishKeeps ==
  ASSUME TimeInvariant, PublishAt
  PROVE  LocalTimesAreKept'
<1> DEFINE r == request
           start == Resolved(r.local, r.choice)
           end == LocalOf(start + Hour)
<1>0. /\ ZoneTyped /\ r.kind = "SESSION" /\ UNCHANGED <<zone, request>>
      /\ r.local \in Locals /\ r.local \in Int
      /\ r.hours.from \in Nat /\ r.hours.to \in Nat
      /\ Hour \in Nat /\ zone.shift \in Int
  BY RequestTyped, ZoneIsTyped DEF TimeInvariant, PublishAt
<1>1. CASE Outcome(r.local, r.choice) # "FOUND"
  <2>1. answer' = Answered(Outcome(r.local, r.choice)) /\ r.local \in Asked
    BY <1>0, <1>1 DEF PublishAt, Asked
  <2> QED BY <1>0, <1>1, <2>1, RefusalsAreTrue
<1>2. CASE Outcome(r.local, r.choice) = "FOUND" /\ ~Fits(r.local, end, r.hours)
  <2>1. answer' = Answered("UNAVAILABLE")
    BY <1>2 DEF PublishAt
  <2> QED BY <2>1, OtherAnswers
<1>3. CASE Outcome(r.local, r.choice) = "FOUND" /\ Fits(r.local, end, r.hours)
  <2>1. answer' = Placed(start, start + Hour)
    BY <1>3 DEF PublishAt
  <2>2. LocalOf(start) = r.local /\ start \in Int
    BY <1>0, <1>3, FoundIsShown
  <2>3. start + Hour \in Int /\ end \in Int
    BY <1>0, <2>2 DEF LocalOf
  <2>4. /\ r.hours.from <= TimeOf(r.local) /\ TimeOf(end) <= r.hours.to
        /\ DateOf(r.local) = DateOf(end)
    BY <1>3 DEF Fits, EndsSameDay
  <2> HIDE DEF start
  <2> DEFINE midnight == DateOf(r.local) * Day
  <2>5. /\ midnight \in Int /\ TimeOf(r.local) \in Int /\ TimeOf(end) \in Int
        /\ r.local = midnight + TimeOf(r.local)
        /\ end = midnight + TimeOf(end)
    BY <1>0, <2>3, <2>4, DateAndTime
  <2> HIDE DEF midnight
  <2>6. /\ midnight + r.hours.from \in Int
        /\ midnight + r.hours.from <= LocalOf(start)
        /\ midnight + r.hours.to \in Int
        /\ LocalOf(start + Hour) <= midnight + r.hours.to
    BY <1>0, <2>2, <2>4, <2>5
  <2>7. /\ Earlier(midnight + r.hours.from) <= start
        /\ start + Hour <= Later(midnight + r.hours.to)
    BY <1>0, <2>2, <2>3, <2>6, EarlierIsFirst, LaterIsLast
  <2>8. /\ answer'.outcome = "PLACED" /\ answer'.starts = start
        /\ answer'.ends = start + Hour
    BY <2>1 DEF Placed
  <2>9. /\ \A i : LocalOf(i)' = LocalOf(i)
        /\ \A l : Earlier(l)' = Earlier(l) /\ Later(l)' = Later(l)
    BY <1>0 DEF LocalOf, Earlier, Later, Possible, InstantsAt, Candidates
  <2>10. TimesAreNeverShifted'
    BY <1>0, <2>2, <2>8, <2>9 DEF TimesAreNeverShifted, IsPlaced
  <2>11. SessionsFitHours'
    BY <1>0, <2>7, <2>8, <2>9 DEF SessionsFitHours, IsPlaced, midnight, DateOf
  <2> QED BY <2>10, <2>11 DEF LocalTimesAreKept
<1> QED BY <1>1, <1>2, <1>3

LEMMA ExceptKeeps ==
  ASSUME TimeInvariant, ExceptBetween
  PROVE  LocalTimesAreKept'
<1> DEFINE r == request
           start == Resolved(r.local, r.choice)
           end == Resolved(r.until, r.choiceOfEnd)
           startsAt == Outcome(r.local, r.choice)
           endsAt == Outcome(r.until, r.choiceOfEnd)
<1>0. /\ ZoneTyped /\ r.kind = "EXCEPTION" /\ UNCHANGED <<zone, request>>
      /\ r.local \in Locals /\ r.local \in Int
      /\ r.until \in Locals /\ r.until \in Int
      /\ r.local \in Asked /\ r.until \in Asked
  BY RequestTyped DEF TimeInvariant, ExceptBetween, Asked
<1>1. CASE startsAt # "FOUND"
  <2>1. answer' = Answered(startsAt)
    BY <1>1 DEF ExceptBetween
  <2> QED BY <1>0, <1>1, <2>1, RefusalsAreTrue
<1>2. CASE startsAt = "FOUND" /\ endsAt # "FOUND"
  <2>1. answer' = Answered(endsAt)
    BY <1>2 DEF ExceptBetween
  <2> QED BY <1>0, <1>2, <2>1, RefusalsAreTrue
<1>3. CASE startsAt = "FOUND" /\ endsAt = "FOUND"
  <2>1. \/ answer' = Answered("INVALID") \/ answer' = Answered("FAILED")
        \/ answer' = Placed(start, end)
    BY <1>3 DEF ExceptBetween
  <2>2. CASE answer' = Answered("INVALID") \/ answer' = Answered("FAILED")
    BY <2>2, OtherAnswers
  <2>3. CASE answer' = Placed(start, end)
    <3>1. LocalOf(start) = r.local /\ LocalOf(end) = r.until
      BY <1>0, <1>3, FoundIsShown
    <3>2. /\ answer'.outcome = "PLACED" /\ answer'.starts = start
          /\ answer'.ends = end
      BY <2>3 DEF Placed
    <3>3. \A i : LocalOf(i)' = LocalOf(i)
      BY <1>0 DEF LocalOf
    <3> HIDE DEF start, end
    <3> QED
      BY <1>0, <3>1, <3>2, <3>3
         DEF LocalTimesAreKept, TimesAreNeverShifted, SessionsFitHours, IsPlaced
  <2> QED BY <2>1, <2>2, <2>3
<1> QED BY <1>1, <1>2, <1>3

(* Local times are where the clock shows them: for any change of any       *)
(* offset by a day at most, no session and no exception is moved by it,    *)
(* and nothing that exists once is refused.                                *)
THEOREM LocalTimesKeep == TimeSpec => []LocalTimesAreKept
<1>1. TimeInit => TimeInvariant
  <2> SUFFICES ASSUME TimeInit PROVE TimeInvariant
    OBVIOUS
  <2>1. answer.outcome = "NONE"
    BY DEF TimeInit, Unanswered, Answered
  <2> QED
    BY <2>1
       DEF TimeInit, TimeInvariant, ZoneTyped, SessionRequests,
           ExceptionRequests, LocalTimesAreKept, TimesAreNeverShifted,
           SessionsFitHours, IsPlaced
<1>2. TimeInvariant /\ [TimeNext]_timeVars => TimeInvariant'
  <2> SUFFICES ASSUME TimeInvariant, [TimeNext]_timeVars
               PROVE  TimeInvariant'
    OBVIOUS
  <2>1. UNCHANGED <<zone, request>>
    BY DEF TimeNext, PublishAt, ExceptBetween, timeVars
  <2>2. LocalTimesAreKept'
    <3>1. CASE UNCHANGED timeVars
      BY <3>1
         DEF timeVars, TimeInvariant, LocalTimesAreKept, TimesAreNeverShifted,
             SessionsFitHours, IsPlaced, Asked, LocalOf, Earlier, Later,
             Possible, InstantsAt, Candidates
    <3> QED BY <3>1, PublishKeeps, ExceptKeeps DEF TimeNext
  <2> QED BY <2>1, <2>2 DEF TimeInvariant, ZoneTyped
<1>3. TimeInvariant => LocalTimesAreKept
  BY DEF TimeInvariant
<1> QED BY <1>1, <1>2, <1>3, PTL DEF TimeSpec


----------------------------------------------------------------------------
(* The curriculum and who teaches it.  The invariant has two halves: what  *)
(* is committed is sound, and each transaction that has read has reason to *)
(* write, which no other transaction can take away while it holds its      *)
(* locks.                                                                  *)

UnitRows ==
  [course : Courses, order : Int, state : {"ACTIVE", "RETIRED"},
   identity : Nat, replacement : Nat]

SessionRows ==
  [unit : DOMAIN unit, teacher : Teachers, start : Starts, identity : Nat]

UnitsSound ==
  /\ \E n \in 0 .. MaxUnits : unit \in [1 .. n -> UnitRows]
  /\ \A u \in DOMAIN unit :
       /\ unit[u].state = "ACTIVE" => unit[u].replacement = 0
       /\ unit[u].replacement # 0 => unit[u].replacement \in DOMAIN unit
  /\ CourseIsOrdered /\ NoMutualReplacement

SessionsSound ==
  /\ DOMAIN session \subseteq NewSessions
  /\ session \in [DOMAIN session -> SessionRows]
  /\ IdentityIsKept

\* Nobody teaches while off, in the words of the triggers.
NobodyIsOff ==
  \A s \in DOMAIN session : \A x \in off :
    x.teacher = session[s].teacher => ~Meets(x, session[s].start)

PermissionsSound ==
  /\ qualified \subseteq Teachers \X Courses /\ teachersRole \subseteq Teachers
  /\ off \subseteq Exceptions
  /\ TeachersMayTeach /\ NobodyIsOff

CommittedSound == UnitsSound /\ SessionsSound /\ PermissionsSound

Locks ==
  ({"teacher"} \X Teachers) \cup ({"session"} \X NewSessions)
    \cup ({"unit"} \X Nat) \cup ({"course"} \X Courses)
    \cup ({"grant", "granted"} \X Teachers \X Courses)

LockLists == Seq(Locks)

\* The shapes of a transaction's state, by its operation.
EditRows ==
  [op : {"NONE"}, at : {"UNSENT", "OVER"}, wants : {<<>>}]
  \cup [op : {"CREATE"}, at : {"WRITE"}, course : Courses, wants : LockLists]
  \cup [op : {"REVISE"}, at : {"READ", "WRITE"}, unit : Nat,
        wants : LockLists]
  \cup [op : {"RETIRE"}, at : {"READ", "WRITE"}, unit : Nat,
        replacement : Nat, wants : LockLists]
  \cup [op : {"PUBLISH"}, at : {"READ", "WRITE"}, teacher : Teachers,
        unit : Nat, start : Starts, wants : LockLists]
  \cup [op : {"SUBSTITUTE"}, at : {"READ", "WRITE"}, teacher : Teachers,
        session : NewSessions, wants : LockLists]
  \cup [op : {"CANCEL"}, at : {"WRITE"}, session : NewSessions,
        wants : LockLists]
  \cup [op : {"GRANT", "REMOVE"}, at : {"READ", "WRITE"}, teacher : Teachers,
        course : Courses, wants : LockLists]
  \cup [op : {"REMOVE ROLE"}, at : {"READ", "WRITE"}, teacher : Teachers,
        wants : LockLists]
  \cup [op : {"ADD", "TAKE BACK"}, at : {"READ", "WRITE"},
        exception : Exceptions, wants : LockLists]

\* A placement lists its locks once it holds the Course.
IsPlacement(e) ==
  e = [op |-> "PLACE", at |-> e.at, unit |-> e.unit, order |-> e.order,
       wants |-> e.wants]
  /\ e.at \in {"UNITS", "READ"} /\ e.order \in Int

Wanted(e) == {e.wants[i] : i \in 1 .. Len(e.wants)}

(* A transaction holds, or still waits for, the locks its write relies on. *)
ClaimsLocks(e, held) ==
  LET Claims(lock) == lock \in held \cup Wanted(e) IN
  /\ e.op \in {"REVISE", "RETIRE", "PUBLISH"} => Claims(<<"unit", e.unit>>)
  /\ e.op \in {"PUBLISH", "SUBSTITUTE", "REMOVE ROLE"} =>
       Claims(<<"teacher", e.teacher>>)
  /\ e.op \in {"SUBSTITUTE", "CANCEL"} => Claims(<<"session", e.session>>)
  /\ e.op = "REMOVE" => Claims(<<"granted", e.teacher, e.course>>)

(* What a transaction has read still holds when it writes.                 *)
ReadsHold(e) ==
  /\ e.op \in {"PLACE", "REVISE", "RETIRE", "PUBLISH"} =>
       e.unit \in DOMAIN unit
  /\ e.at = "WRITE" =>
       /\ e.op = "REVISE" => Published(e.unit) = {}
       /\ e.op = "RETIRE" /\ e.replacement # 0 =>
            /\ e.replacement \in DOMAIN unit /\ e.replacement # e.unit
            /\ unit[e.replacement].replacement # e.unit
       /\ e.op \in {"PUBLISH", "SUBSTITUTE"} => e.teacher \in teachersRole
       /\ e.op = "SUBSTITUTE" => e.session \in DOMAIN session
       /\ e.op = "REMOVE" =>
            \A s \in SessionsOf(e.teacher) : CourseTaught(s) # e.course
       /\ e.op = "REMOVE ROLE" => SessionsOf(e.teacher) = {}

EditSound(e, held) ==
  /\ e \in EditRows \/ IsPlacement(e)
  /\ e.at = "WRITE" /\ e.op \notin {"CREATE", "CANCEL"} => e.wants = <<>>
  /\ ClaimsLocks(e, held)
  /\ ReadsHold(e)

TablesOfEdits ==
  /\ edit = [c \in Edits |-> edit[c]]
  /\ locked = [c \in Edits |-> locked[c]]

TeachingInvariant ==
  /\ CommittedSound
  /\ TablesOfEdits
  /\ \A c \in Edits : EditSound(edit[c], locked[c])
  /\ \A c, d \in Edits : c # d => locked[c] \cap locked[d] = {}

(* The tables of the curriculum.                                           *)
LEMMA UnitsTyped ==
  ASSUME UnitsSound
  PROVE  /\ IsFiniteSet(DOMAIN unit)
         /\ unit = [u \in DOMAIN unit |-> unit[u]]
         /\ \A u \in DOMAIN unit : u \in Nat \ {0} /\ unit[u] \in UnitRows
         /\ DOMAIN unit = 1 .. Cardinality(DOMAIN unit)
         /\ Cardinality(DOMAIN unit) \in 0 .. MaxUnits
<1>1. PICK n \in 0 .. MaxUnits : unit \in [1 .. n -> UnitRows]
  BY DEF UnitsSound
<1>2. n \in Nat /\ DOMAIN unit = 1 .. n
  BY <1>1, CurriculumAssumption
<1>3. IsFiniteSet(1 .. n) /\ Cardinality(1 .. n) = n
  BY <1>2, FS_Interval
<1> QED BY <1>1, <1>2, <1>3

(* What a transaction that takes a lock no longer waits for.               *)
LEMMA WantedHead ==
  ASSUME NEW wants \in LockLists, wants # <<>>
  PROVE  /\ Tail(wants) \in LockLists
         /\ {wants[i] : i \in 1 .. Len(wants)}
              = {Head(wants)} \cup {Tail(wants)[i] : i \in 1 .. Len(Tail(wants))}
<1>1. /\ Len(wants) \in Nat \ {0} /\ Tail(wants) \in LockLists
      /\ Len(Tail(wants)) = Len(wants) - 1 /\ Head(wants) = wants[1]
      /\ \A i \in 1 .. Len(wants) - 1 : Tail(wants)[i] = wants[i + 1]
  BY DEF LockLists
<1>2. \A i \in 1 .. Len(wants) :
        i = 1 \/ (i - 1 \in 1 .. Len(wants) - 1 /\ Tail(wants)[i - 1] = wants[i])
  BY <1>1
<1> QED BY <1>1, <1>2

LEMMA LockTaken ==
  ASSUME NEW e, NEW held, EditSound(e, held), e.wants # <<>>, NEW f,
         f = [e EXCEPT !.wants = Tail(e.wants)]
  PROVE  EditSound(f, held \cup {Head(e.wants)})
<1>1. e \in EditRows \/ IsPlacement(e)
  BY DEF EditSound
<1>2. CASE IsPlacement(e)
  <2>1. /\ f.op = "PLACE" /\ f.at = e.at /\ f.unit = e.unit
        /\ f.order = e.order
        /\ f = [op |-> "PLACE", at |-> f.at, unit |-> f.unit,
                order |-> f.order, wants |-> f.wants]
        /\ e.op = "PLACE"
    BY <1>2 DEF IsPlacement
  <2> QED BY <1>2, <2>1 DEF EditSound, IsPlacement, ClaimsLocks, ReadsHold
<1>3. CASE e \in EditRows
  <2> DEFINE Kept(field) == f[field] = e[field]
  <2>0. e.wants \in LockLists
    BY <1>3 DEF EditRows, LockLists
  <2>1. Tail(e.wants) \in LockLists
    BY <2>0, WantedHead
  <2>2. f \in EditRows /\ f.op = e.op /\ f.at = e.at /\ f.wants = Tail(e.wants)
    BY <1>3, <2>1 DEF EditRows
  <2>3. /\ e.op \in {"REVISE", "RETIRE", "PUBLISH", "PLACE"} => Kept("unit")
        /\ e.op \in {"RETIRE"} => Kept("replacement")
        /\ e.op \in {"PUBLISH", "SUBSTITUTE", "REMOVE", "REMOVE ROLE"}
             => Kept("teacher")
        /\ e.op \in {"SUBSTITUTE", "CANCEL"} => Kept("session")
        /\ e.op \in {"REMOVE"} => Kept("course")
    BY <1>3 DEF EditRows
  <2>4. Wanted(e) = {Head(e.wants)} \cup Wanted(f)
    BY <2>0, <2>2, WantedHead DEF Wanted
  <2>5. ClaimsLocks(f, held \cup {Head(e.wants)})
    BY <2>2, <2>3, <2>4 DEF EditSound, ClaimsLocks
  <2>6. ReadsHold(f)
    BY <2>2, <2>3 DEF EditSound, ReadsHold
  <2> QED BY <2>2, <2>5, <2>6 DEF EditSound
<1> QED BY <1>1, <1>2, <1>3

LEMMA EditsChange ==
  ASSUME TeachingInvariant, NEW c \in Edits, NEW e, NEW held,
         edit' = [edit EXCEPT ![c] = e],
         locked' = [locked EXCEPT ![c] = held],
         CommittedSound', EditSound(e, held)',
         \A d \in Edits \ {c} :
           held \cap locked[d] = {} /\ ReadsHold(edit[d])'
  PROVE  TeachingInvariant'
<1>1. /\ edit'[c] = e /\ locked'[c] = held
      /\ \A d \in Edits \ {c} : edit'[d] = edit[d] /\ locked'[d] = locked[d]
      /\ TablesOfEdits'
  BY DEF TeachingInvariant, TablesOfEdits
<1>2. ASSUME NEW d \in Edits PROVE EditSound(edit[d], locked[d])'
  <2>1. CASE d = c
    BY <1>1, <2>1
  <2>2. CASE d # c
    <3>1. EditSound(edit[d], locked[d])
      BY DEF TeachingInvariant
    <3>2. ReadsHold(edit[d])'
      BY <2>2
    <3>3. PICK f : f = edit[d]
      OBVIOUS
    <3>4. PICK mine : mine = locked[d]
      OBVIOUS
    <3>5. edit'[d] = f /\ locked'[d] = mine
      BY <1>1, <2>2, <3>3, <3>4
    <3>6. ReadsHold(f)' /\ EditSound(f, mine)
      BY <3>1, <3>2, <3>3, <3>4, <3>5
    <3>7. EditSound(f, mine)'
      BY <3>6 DEF EditSound, ClaimsLocks, Wanted, IsPlacement
    <3> QED BY <3>5, <3>7
  <2> QED BY <2>1, <2>2
<1>3. \A d, x \in Edits : d # x => (locked[d] \cap locked[x] = {})'
  BY <1>1 DEF TeachingInvariant
<1> QED BY <1>1, <1>2, <1>3 DEF TeachingInvariant

(* A step that writes no table keeps what is committed and was read.       *)
LEMMA NothingWritten ==
  ASSUME CommittedSound, UNCHANGED <<unit, session, permissionVars>>
  PROVE  /\ CommittedSound'
         /\ \A e : ReadsHold(e) => ReadsHold(e)'
         /\ \A e, held : EditSound(e, held) => EditSound(e, held)'
<1>1. UnitsSound'
  BY DEF CommittedSound, UnitsSound, CourseIsOrdered, NoMutualReplacement,
         UnitsIn
<1>2. SessionsSound'
  BY DEF CommittedSound, SessionsSound, IdentityIsKept, SessionRows
<1>3. PermissionsSound'
  BY DEF CommittedSound, PermissionsSound, TeachersMayTeach, NobodyIsOff,
         MayLead, CourseTaught, permissionVars
<1>4. ASSUME NEW e, ReadsHold(e) PROVE ReadsHold(e)'
  BY <1>4
     DEF ReadsHold, Published, SessionsOf, CourseTaught, permissionVars
<1>5. ASSUME NEW e, NEW held, EditSound(e, held) PROVE EditSound(e, held)'
  BY <1>4, <1>5 DEF EditSound, ClaimsLocks, Wanted, IsPlacement
<1> QED BY <1>1, <1>2, <1>3, <1>4, <1>5 DEF CommittedSound

LEMMA RequestMoves ==
  ASSUME TeachingInvariant, NEW c \in Edits, NEW e, NEW held,
         edit' = [edit EXCEPT ![c] = e],
         locked' = [locked EXCEPT ![c] = held],
         EditSound(e, held),
         \A d \in Edits \ {c} : held \cap locked[d] = {},
         UNCHANGED <<unit, session, permissionVars>>
  PROVE  TeachingInvariant'
<1>1. \A d \in Edits : ReadsHold(edit[d])
  BY DEF TeachingInvariant, EditSound
<1>2. CommittedSound' /\ EditSound(e, held)'
  BY NothingWritten DEF TeachingInvariant
<1>3. ASSUME NEW d \in Edits \ {c} PROVE ReadsHold(edit[d])'
  <2>1. PICK f : f = edit[d]
    OBVIOUS
  <2>2. edit'[d] = f
    BY <2>1 DEF TeachingInvariant, TablesOfEdits
  <2>3. ReadsHold(f)'
    BY <1>1, <2>1, NothingWritten DEF TeachingInvariant
  <2> QED BY <2>2, <2>3 DEF ReadsHold
<1> QED BY <1>2, <1>3, EditsChange

(* The locks a request lists.                                              *)
LEMMA OneLock ==
  ASSUME NEW a \in Locks
  PROVE  /\ << a >> \in LockLists
         /\ a \in {<< a >>[i] : i \in 1 .. Len(<< a >>)}
BY DEF LockLists

LEMMA TwoLocks ==
  ASSUME NEW a \in Locks, NEW b \in Locks, NEW e, e.wants = <<a, b>>
  PROVE  e.wants \in LockLists /\ b \in Wanted(e)
<1>1. Len(e.wants) = 2 /\ e.wants[2] = b /\ e.wants \in LockLists
  BY DEF LockLists
<1> QED BY <1>1 DEF Wanted

LEMMA FourLocks ==
  ASSUME NEW a \in Locks, NEW b \in Locks, NEW x \in Locks, NEW y \in Locks,
         NEW e, e.wants = <<a, b, x, y>>
  PROVE  e.wants \in LockLists /\ {a, b} \subseteq Wanted(e)
<1>1. /\ Len(e.wants) = 4 /\ e.wants[1] = a /\ e.wants[2] = b
      /\ e.wants \in LockLists
  BY DEF LockLists
<1> QED BY <1>1 DEF Wanted

LEMMA LocksTyped ==
  /\ \A t \in Teachers : <<"teacher", t>> \in Locks
  /\ \A s \in NewSessions : <<"session", s>> \in Locks
  /\ \A u \in Nat : <<"unit", u>> \in Locks
  /\ \A k \in Courses : <<"course", k>> \in Locks
  /\ \A t \in Teachers, k \in Courses :
       <<"grant", t, k>> \in Locks /\ <<"granted", t, k>> \in Locks
BY DEF Locks

LEMMA EditsAreApart ==
  ASSUME TeachingInvariant, NEW c \in Edits
  PROVE  /\ EditSound(edit[c], locked[c])
         /\ locked = [locked EXCEPT ![c] = locked[c]]
         /\ \A d \in Edits \ {c} : locked[c] \cap locked[d] = {}
BY DEF TeachingInvariant, TablesOfEdits

LEMMA EndedStep ==
  ASSUME TeachingInvariant, NEW c \in Edits, EndEdit(c),
         UNCHANGED <<unit, session, permissionVars>>
  PROVE  TeachingInvariant'
<1>1. EditSound(Over, {})
  BY DEF EditSound, EditRows, Over, ClaimsLocks, ReadsHold
<1> QED BY <1>1, RequestMoves DEF EndEdit

LEMMA RollbackStep ==
  ASSUME TeachingInvariant, NEW c \in Edits, Rollback(c),
         UNCHANGED permissionVars
  PROVE  TeachingInvariant'
BY EndedStep DEF Rollback

LEMMA LockStep ==
  ASSUME TeachingInvariant, NEW c \in Edits, TakeLock(c),
         UNCHANGED permissionVars
  PROVE  TeachingInvariant'
<1>1. PICK e, held : e = edit[c] /\ held = locked[c]
  OBVIOUS
<1>2. PICK f : f = [e EXCEPT !.wants = Tail(e.wants)]
  OBVIOUS
<1>3. PICK now : now = held \cup {Head(e.wants)}
  OBVIOUS
<1>4. EditSound(f, now)
  BY <1>1, <1>2, <1>3, EditsAreApart, LockTaken DEF TakeLock
<1>5. edit' = [edit EXCEPT ![c] = f] /\ locked' = [locked EXCEPT ![c] = now]
  BY <1>1, <1>2, <1>3 DEF TakeLock, TeachingInvariant, TablesOfEdits
<1>6. \A d \in Edits \ {c} : now \cap locked[d] = {}
  BY <1>1, <1>3, EditsAreApart DEF TakeLock, LockIsFree
<1> QED BY <1>4, <1>5, <1>6, RequestMoves DEF TakeLock

(* Requests.                                                               *)
LEMMA EditBegins ==
  ASSUME TeachingInvariant, NEW c \in Edits, NEW e, Request(c, e),
         EditSound(e, {}), UNCHANGED permissionVars
  PROVE  TeachingInvariant'
<1>1. PICK held : held = locked[c]
  OBVIOUS
<1>2. EditSound(e, held)
  BY DEF EditSound, ClaimsLocks
<1> QED BY <1>1, <1>2, EditsAreApart, RequestMoves DEF Request

LEMMA CurriculumRequests ==
  ASSUME TeachingInvariant, NEW c \in Edits, UNCHANGED permissionVars,
         \/ \E k \in Courses : AskToCreate(c, k)
         \/ \E u \in 1 .. MaxUnits :
              \/ \E n \in 0 .. MaxUnits + 1 : AskToPlace(c, u, n)
              \/ AskToRevise(c, u)
              \/ \E r \in Replacements : AskToRetire(c, u, r)
  PROVE  TeachingInvariant'
<1>1. ASSUME NEW k \in Courses, AskToCreate(c, k) PROVE TeachingInvariant'
  <2> DEFINE e == [op |-> "CREATE", at |-> "WRITE", course |-> k,
                   wants |-> << <<"course", k>> >>]
  <2>1. e.wants \in LockLists
    BY OneLock, LocksTyped
  <2>2. EditSound(e, {})
    BY <2>1 DEF EditSound, EditRows, ClaimsLocks, ReadsHold
  <2> QED BY <1>1, <2>2, EditBegins DEF AskToCreate
<1>2. ASSUME NEW u \in 1 .. MaxUnits, NEW n \in 0 .. MaxUnits + 1,
             AskToPlace(c, u, n)
      PROVE  TeachingInvariant'
  <2>1. PICK wants : wants = << <<"course", unit[u].course>> >>
    OBVIOUS
  <2> DEFINE e == [op |-> "PLACE", at |-> "UNITS", unit |-> u, order |-> n,
                   wants |-> wants]
  <2>2. EditSound(e, {})
    BY <1>2, CurriculumAssumption
       DEF EditSound, IsPlacement, ClaimsLocks, ReadsHold, AskToPlace
  <2>3. Request(c, e)
    BY <1>2, <2>1 DEF AskToPlace
  <2> QED BY <2>2, <2>3, EditBegins
<1>3. ASSUME NEW u \in 1 .. MaxUnits, AskToRevise(c, u)
      PROVE  TeachingInvariant'
  <2> DEFINE e == [op |-> "REVISE", at |-> "READ", unit |-> u,
                   wants |-> IdentityLocks(u)]
  <2>0. u \in Nat
    BY CurriculumAssumption
  <2>1. e.wants \in LockLists /\ <<"unit", u>> \in Wanted(e)
    BY <2>0, OneLock, LocksTyped DEF IdentityLocks, Wanted
  <2>2. EditSound(e, {})
    BY <1>3, <2>0, <2>1
       DEF EditSound, EditRows, ClaimsLocks, ReadsHold, AskToRevise
  <2> QED BY <1>3, <2>2, EditBegins DEF AskToRevise
<1>4. ASSUME NEW u \in 1 .. MaxUnits, NEW r \in Replacements,
             AskToRetire(c, u, r)
      PROVE  TeachingInvariant'
  <2> DEFINE e == [op |-> "RETIRE", at |-> "READ", unit |-> u,
                   replacement |-> r, wants |-> << <<"unit", u>> >>]
  <2>0. u \in Nat /\ r \in Nat
    BY CurriculumAssumption
  <2>1. e.wants \in LockLists /\ <<"unit", u>> \in Wanted(e)
    BY <2>0, OneLock, LocksTyped DEF Wanted
  <2>2. EditSound(e, {})
    BY <1>4, <2>0, <2>1
       DEF EditSound, EditRows, ClaimsLocks, ReadsHold, AskToRetire
  <2> QED BY <1>4, <2>2, EditBegins DEF AskToRetire
<1> QED BY <1>1, <1>2, <1>3, <1>4

LEMMA CommittedTyped ==
  ASSUME CommittedSound
  PROVE  /\ \A u \in DOMAIN unit :
              /\ u \in Nat \ {0} /\ unit[u] \in UnitRows
              /\ unit[u].course \in Courses
         /\ \A s \in DOMAIN session :
              /\ s \in NewSessions /\ session[s] \in SessionRows
              /\ session[s].unit \in DOMAIN unit
              /\ session[s].teacher \in Teachers
              /\ session[s].start \in Nat
              /\ CourseTaught(s) \in Courses
         /\ session = [s \in DOMAIN session |-> session[s]]
<1>1. \A u \in DOMAIN unit :
        /\ u \in Nat \ {0} /\ unit[u] \in UnitRows
        /\ unit[u].course \in Courses
  BY UnitsTyped DEF CommittedSound, UnitRows
<1>2. \A s \in DOMAIN session :
        s \in NewSessions /\ session[s] \in SessionRows
  BY DEF CommittedSound, SessionsSound
<1> QED
  BY <1>1, <1>2, TeachingAssumption
     DEF SessionRows, CourseTaught, CommittedSound, SessionsSound

LEMMA TeachingRequests ==
  ASSUME TeachingInvariant, NEW c \in Edits,
         \/ \E t \in Teachers :
              \/ \E u \in 1 .. MaxUnits, start \in Starts :
                   AskToPublish(c, t, u, start)
              \/ \E s \in NewSessions : AskToSubstitute(c, s, t)
              \/ \E k \in Courses, op \in {"GRANT", "REMOVE"} :
                   AskToChange(c, op, t, k)
              \/ AskToRemoveRole(c, t)
         \/ \E s \in NewSessions : AskToCancel(c, s)
         \/ \E x \in Exceptions, op \in {"ADD", "TAKE BACK"} :
              AskForException(c, op, x)
  PROVE  TeachingInvariant'
<1>0. CommittedSound
  BY DEF TeachingInvariant
<1>1. ASSUME NEW t \in Teachers, NEW u \in 1 .. MaxUnits, NEW start \in Starts,
             AskToPublish(c, t, u, start)
      PROVE  TeachingInvariant'
  <2>1. PICK k : k = unit[u].course
    OBVIOUS
  <2>2. u \in Nat /\ k \in Courses
    BY <1>0, <1>1, <2>1, CommittedTyped DEF AskToPublish
  <2> DEFINE e == [op |-> "PUBLISH", at |-> "READ", teacher |-> t, unit |-> u,
                   start |-> start,
                   wants |-> << <<"teacher", t>>, <<"unit", u>>,
                                <<"course", k>>, <<"grant", t, k>> >>]
  <2>3. /\ e.wants \in LockLists
        /\ <<"unit", u>> \in Wanted(e) /\ <<"teacher", t>> \in Wanted(e)
    <3>1. PICK a, b, x, y :
            /\ a = <<"teacher", t>> /\ b = <<"unit", u>>
            /\ x = <<"course", k>> /\ y = <<"grant", t, k>>
      OBVIOUS
    <3>2. a \in Locks /\ b \in Locks /\ x \in Locks /\ y \in Locks
      BY <2>2, <3>1, LocksTyped
    <3>3. e.wants = <<a, b, x, y>>
      BY <3>1
    <3> HIDE DEF e
    <3>4. e.wants \in LockLists /\ {a, b} \subseteq Wanted(e)
      BY <3>2, <3>3, FourLocks
    <3> QED BY <3>1, <3>4
  <2>4. EditSound(e, {})
    BY <1>1, <2>2, <2>3
       DEF EditSound, EditRows, ClaimsLocks, ReadsHold, AskToPublish
  <2> QED BY <1>1, <2>1, <2>4, EditBegins DEF AskToPublish
<1>2. ASSUME NEW t \in Teachers, NEW s \in NewSessions,
             AskToSubstitute(c, s, t)
      PROVE  TeachingInvariant'
  <2>1. PICK u, k : u = session[s].unit /\ k = CourseTaught(s)
    OBVIOUS
  <2>2. u \in Nat /\ k \in Courses
    BY <1>0, <1>2, <2>1, CommittedTyped DEF AskToSubstitute
  <2> DEFINE e == [op |-> "SUBSTITUTE", at |-> "READ", teacher |-> t,
                   session |-> s,
                   wants |-> << <<"teacher", t>>, <<"session", s>>,
                                <<"unit", u>>, <<"course", k>> >>]
  <2>3. /\ e.wants \in LockLists
        /\ <<"session", s>> \in Wanted(e) /\ <<"teacher", t>> \in Wanted(e)
    <3>1. PICK a, b, x, y :
            /\ a = <<"teacher", t>> /\ b = <<"session", s>>
            /\ x = <<"unit", u>> /\ y = <<"course", k>>
      OBVIOUS
    <3>2. a \in Locks /\ b \in Locks /\ x \in Locks /\ y \in Locks
      BY <2>2, <3>1, LocksTyped
    <3>3. e.wants = <<a, b, x, y>>
      BY <3>1
    <3> HIDE DEF e
    <3>4. e.wants \in LockLists /\ {a, b} \subseteq Wanted(e)
      BY <3>2, <3>3, FourLocks
    <3> QED BY <3>1, <3>4
  <2>4. EditSound(e, {})
    BY <2>3 DEF EditSound, EditRows, ClaimsLocks, ReadsHold
  <2> QED BY <1>2, <2>1, <2>4, EditBegins DEF AskToSubstitute
<1>3. ASSUME NEW t \in Teachers, NEW k \in Courses,
             NEW op \in {"GRANT", "REMOVE"}, AskToChange(c, op, t, k)
      PROVE  TeachingInvariant'
  <2> DEFINE e == [op |-> op, at |-> "READ", teacher |-> t, course |-> k,
                   wants |-> QualificationLocks(t, k)]
  <2>1. e.wants \in LockLists /\ <<"granted", t, k>> \in Wanted(e)
    <3>1. PICK a, b : a = <<"grant", t, k>> /\ b = <<"granted", t, k>>
      OBVIOUS
    <3>2. a \in Locks /\ b \in Locks
      BY <3>1, LocksTyped
    <3>3. e.wants = <<a, b>>
      BY <3>1 DEF QualificationLocks
    <3> HIDE DEF e
    <3>4. e.wants \in LockLists /\ b \in Wanted(e)
      BY <3>2, <3>3, TwoLocks
    <3> QED BY <3>1, <3>4
  <2>2. EditSound(e, {})
    BY <2>1 DEF EditSound, EditRows, ClaimsLocks, ReadsHold
  <2> QED BY <1>3, <2>2, EditBegins DEF AskToChange
<1>4. ASSUME NEW t \in Teachers, AskToRemoveRole(c, t)
      PROVE  TeachingInvariant'
  <2> DEFINE e == [op |-> "REMOVE ROLE", at |-> "READ", teacher |-> t,
                   wants |-> << <<"teacher", t>> >>]
  <2>1. e.wants \in LockLists /\ <<"teacher", t>> \in Wanted(e)
    BY OneLock, LocksTyped DEF Wanted
  <2>2. EditSound(e, {})
    BY <2>1 DEF EditSound, EditRows, ClaimsLocks, ReadsHold
  <2> QED BY <1>4, <2>2, EditBegins DEF AskToRemoveRole
<1>5. ASSUME NEW s \in NewSessions, AskToCancel(c, s)
      PROVE  TeachingInvariant'
  <2> DEFINE e == [op |-> "CANCEL", at |-> "WRITE", session |-> s,
                   wants |-> << <<"session", s>> >>]
  <2>1. e.wants \in LockLists /\ <<"session", s>> \in Wanted(e)
    BY OneLock, LocksTyped DEF Wanted
  <2>2. EditSound(e, {})
    BY <2>1 DEF EditSound, EditRows, ClaimsLocks, ReadsHold
  <2> QED BY <1>5, <2>2, EditBegins DEF AskToCancel
<1>6. ASSUME NEW x \in Exceptions, NEW op \in {"ADD", "TAKE BACK"},
             AskForException(c, op, x)
      PROVE  TeachingInvariant'
  <2> DEFINE e == [op |-> op, at |-> "READ", exception |-> x,
                   wants |-> << <<"teacher", x.teacher>> >>]
  <2>1. x.teacher \in Teachers
    BY TeachingAssumption
  <2>2. e.wants \in LockLists
    BY <2>1, OneLock, LocksTyped
  <2>3. EditSound(e, {})
    BY <2>2 DEF EditSound, EditRows, ClaimsLocks, ReadsHold
  <2> QED BY <1>6, <2>3, EditBegins DEF AskForException
<1> QED BY <1>1, <1>2, <1>3, <1>4, <1>5, <1>6

(* Reads.                                                                  *)
LEMMA ReadRow ==
  ASSUME NEW e, NEW held, EditSound(e, held), e.at = "READ", e.wants = <<>>,
         e.op # "PLACE", NEW f, f = [e EXCEPT !.at = "WRITE"]
  PROVE  /\ f \in EditRows /\ f.op = e.op /\ f.at = "WRITE" /\ f.wants = <<>>
         /\ ClaimsLocks(f, held)
         /\ e.op \in {"REVISE", "RETIRE", "PUBLISH"} => f.unit = e.unit
         /\ e.op = "RETIRE" => f.replacement = e.replacement
         /\ e.op \in {"PUBLISH", "SUBSTITUTE", "REMOVE", "REMOVE ROLE"}
              => f.teacher = e.teacher
         /\ e.op = "SUBSTITUTE" => f.session = e.session
         /\ e.op = "REMOVE" => f.course = e.course
<1>1. e \in EditRows
  BY DEF EditSound, IsPlacement
<1>2. /\ f \in EditRows /\ f.op = e.op /\ f.at = "WRITE" /\ f.wants = <<>>
      /\ e.op \in {"REVISE", "RETIRE", "PUBLISH"} => f.unit = e.unit
      /\ e.op = "RETIRE" => f.replacement = e.replacement
      /\ e.op \in {"PUBLISH", "SUBSTITUTE", "REMOVE", "REMOVE ROLE"}
           => f.teacher = e.teacher
      /\ e.op \in {"SUBSTITUTE", "CANCEL"} => f.session = e.session
      /\ e.op = "REMOVE" => f.course = e.course
  <2>1. f.op = e.op /\ f.at = "WRITE" /\ f.wants = <<>>
    BY <1>1 DEF EditRows
  <2>2. CASE e.op \in {"REVISE", "RETIRE", "PUBLISH"}
    <3>1. f.unit = e.unit /\ (e.op = "RETIRE" => f.replacement = e.replacement)
      BY <1>1, <2>2 DEF EditRows
    <3>2. e.op = "PUBLISH" => f.teacher = e.teacher
      BY <1>1 DEF EditRows
    <3>3. f \in EditRows
      BY <1>1, <2>2 DEF EditRows
    <3> QED BY <2>1, <2>2, <3>1, <3>2, <3>3
  <2>3. CASE e.op \in {"SUBSTITUTE", "REMOVE", "REMOVE ROLE", "CANCEL"}
    <3>1. e.op # "CANCEL" => f.teacher = e.teacher
      BY <1>1, <2>3 DEF EditRows
    <3>2. e.op \in {"SUBSTITUTE", "CANCEL"} => f.session = e.session
      BY <1>1 DEF EditRows
    <3>3. e.op = "REMOVE" => f.course = e.course
      BY <1>1 DEF EditRows
    <3>4. f \in EditRows
      BY <1>1, <2>3 DEF EditRows
    <3> QED BY <2>1, <2>3, <3>1, <3>2, <3>3, <3>4
  <2>4. CASE e.op \notin {"REVISE", "RETIRE", "PUBLISH", "SUBSTITUTE",
                         "REMOVE", "REMOVE ROLE", "CANCEL"}
    <3>1. f \in EditRows
      BY <1>1, <2>4 DEF EditRows
    <3> QED BY <2>1, <2>4, <3>1
  <2> QED BY <2>2, <2>3, <2>4
<1>3. ClaimsLocks(f, held)
  <2>1. ClaimsLocks(e, held)
    BY DEF EditSound
  <2>2. Wanted(f) = Wanted(e)
    BY <1>2 DEF Wanted
  <2> QED BY <1>2, <2>1, <2>2 DEF ClaimsLocks
<1> QED BY <1>2, <1>3

LEMMA ReadStep ==
  ASSUME TeachingInvariant, NEW c \in Edits, NEW allowed \in BOOLEAN,
         edit[c].op # "PLACE", Ready(c, edit[c].op, "READ"),
         Decide(c, allowed), UNCHANGED permissionVars,
         allowed => ReadsHold([edit[c] EXCEPT !.at = "WRITE"])
  PROVE  TeachingInvariant'
<1>1. CASE ~allowed
  BY <1>1, EndedStep DEF Decide
<1>2. CASE allowed
  <2>1. PICK e, held : e = edit[c] /\ held = locked[c]
    OBVIOUS
  <2>2. PICK f : f = [e EXCEPT !.at = "WRITE"]
    OBVIOUS
  <2>3. EditSound(e, held) /\ e.at = "READ" /\ e.wants = <<>> /\ e.op # "PLACE"
    BY <2>1, EditsAreApart DEF Ready
  <2>4. EditSound(f, held)
    BY <1>2, <2>1, <2>2, <2>3, ReadRow DEF EditSound
  <2>5. edit' = [edit EXCEPT ![c] = f] /\ locked' = [locked EXCEPT ![c] = held]
    BY <1>2, <2>1, <2>2, EditsAreApart
       DEF Decide, TeachingInvariant, TablesOfEdits
  <2> QED
    BY <1>2, <2>1, <2>4, <2>5, EditsAreApart, RequestMoves DEF Decide
<1> QED BY <1>1, <1>2

(* What each read has found out allows the write.                          *)
LEMMA CurriculumReads ==
  ASSUME TeachingInvariant, NEW c \in Edits, UNCHANGED permissionVars,
         ReadPublished(c) \/ ReadReplacement(c)
  PROVE  TeachingInvariant'
<1>0. PICK e, f, held : /\ e = edit[c] /\ f = [e EXCEPT !.at = "WRITE"]
                        /\ held = locked[c]
  OBVIOUS
<1>1. EditSound(e, held) /\ ReadsHold(e)
  BY <1>0, EditsAreApart DEF EditSound
<1>9. f = [e EXCEPT !.at = "WRITE"]
  BY <1>0
<1>2. CASE ReadPublished(c)
  <2>1. PICK allowed \in BOOLEAN : allowed = (Published(e.unit) = {})
    OBVIOUS
  <2>2. e.op = "REVISE" /\ e.at = "READ" /\ e.wants = <<>>
    BY <1>0, <1>2 DEF ReadPublished, Ready
  <2>3. f.op = "REVISE" /\ f.unit = e.unit /\ f.at = "WRITE"
    BY <1>1, <1>9, <2>2, ReadRow
  <2>4. allowed => ReadsHold(f)
    BY <1>1, <2>1, <2>2, <2>3 DEF ReadsHold
  <2>5. Decide(c, allowed)
    BY <1>0, <1>2, <2>1 DEF ReadPublished
  <2> QED BY <1>0, <1>2, <2>2, <2>4, <2>5, ReadStep DEF ReadPublished, Ready
<1>3. CASE ReadReplacement(c)
  <2>1. PICK allowed \in BOOLEAN : allowed = MayReplace(e.unit, e.replacement)
    BY DEF MayReplace
  <2>2. e.op = "RETIRE" /\ e.at = "READ" /\ e.wants = <<>>
    BY <1>0, <1>3 DEF ReadReplacement, Ready
  <2>3. /\ f.op = "RETIRE" /\ f.unit = e.unit /\ f.at = "WRITE"
        /\ f.replacement = e.replacement
    BY <1>1, <1>9, <2>2, ReadRow
  <2>4. ASSUME allowed, e.replacement # 0
        PROVE  /\ e.replacement \in DOMAIN unit /\ e.replacement # e.unit
               /\ unit[e.replacement].replacement # e.unit
    <3>1. /\ e.replacement \in DOMAIN unit /\ e.replacement # e.unit
          /\ unit[e.replacement].state = "ACTIVE"
      BY <2>1, <2>4 DEF MayReplace
    <3>2. unit[e.replacement].replacement = 0
      BY <3>1 DEF TeachingInvariant, CommittedSound, UnitsSound
    <3>3. e.unit # 0
      BY <1>1, <2>2, CommittedTyped DEF ReadsHold, TeachingInvariant
    <3> QED BY <3>1, <3>2, <3>3
  <2>5. allowed => ReadsHold(f)
    BY <1>1, <2>2, <2>3, <2>4 DEF ReadsHold
  <2>6. Decide(c, allowed)
    BY <1>0, <1>3, <2>1 DEF ReadReplacement
  <2> QED BY <1>0, <1>3, <2>2, <2>5, <2>6, ReadStep DEF ReadReplacement, Ready
<1> QED BY <1>2, <1>3

LEMMA TeachingReads ==
  ASSUME TeachingInvariant, NEW c \in Edits,
         \/ ReadForPublication(c) \/ ReadForSubstitution(c)
         \/ ReadForGrant(c) \/ ReadForRemoval(c)
         \/ ReadAssignments(c) \/ ReadConflicts(c)
  PROVE  TeachingInvariant'
<1>0. PICK e, f, held : /\ e = edit[c] /\ f = [e EXCEPT !.at = "WRITE"]
                        /\ held = locked[c]
  OBVIOUS
<1>1. EditSound(e, held) /\ ReadsHold(e)
  BY <1>0, EditsAreApart DEF EditSound
<1>9. f = [e EXCEPT !.at = "WRITE"]
  BY <1>0
<1>2. CASE ReadForPublication(c)
  <2>1. PICK allowed \in BOOLEAN : allowed =
          (/\ unit[e.unit].state = "ACTIVE"
           /\ MayLead(e.teacher, unit[e.unit].course)
           /\ ~IsOff(e.teacher, e.start)
           /\ ~HasConflict(e.teacher, e.start, {}))
    BY DEF MayLead
  <2>2. e.op = "PUBLISH" /\ e.at = "READ" /\ e.wants = <<>>
    BY <1>0, <1>2 DEF ReadForPublication, Ready
  <2>3. /\ f.op = "PUBLISH" /\ f.unit = e.unit /\ f.teacher = e.teacher
        /\ f.at = "WRITE"
    BY <1>1, <1>9, <2>2, ReadRow
  <2>4. allowed => ReadsHold(f)
    BY <1>1, <2>1, <2>2, <2>3 DEF ReadsHold, MayLead
  <2>5. Decide(c, allowed)
    BY <1>0, <1>2, <2>1 DEF ReadForPublication
  <2> QED
    BY <1>0, <1>2, <2>2, <2>4, <2>5, ReadStep DEF ReadForPublication, Ready
<1>3. CASE ReadForSubstitution(c)
  <2>1. PICK allowed \in BOOLEAN : allowed =
          (/\ e.session \in DOMAIN session
           /\ e.teacher # session[e.session].teacher
           /\ MayLead(e.teacher, CourseTaught(e.session))
           /\ ~HasConflict(e.teacher, session[e.session].start, {e.session}))
    BY DEF MayLead
  <2>2. e.op = "SUBSTITUTE" /\ e.at = "READ" /\ e.wants = <<>>
    BY <1>0, <1>3 DEF ReadForSubstitution, Ready
  <2>3. /\ f.op = "SUBSTITUTE" /\ f.session = e.session
        /\ f.teacher = e.teacher /\ f.at = "WRITE"
    BY <1>1, <1>9, <2>2, ReadRow
  <2>4. allowed => ReadsHold(f)
    BY <2>1, <2>3 DEF ReadsHold, MayLead
  <2>5. Decide(c, allowed)
    BY <1>0, <1>3, <2>1 DEF ReadForSubstitution
  <2> QED
    BY <1>0, <1>3, <2>2, <2>4, <2>5, ReadStep DEF ReadForSubstitution, Ready
<1>4. CASE ReadForGrant(c)
  <2>1. PICK allowed \in BOOLEAN : allowed =
          (<<e.teacher, e.course>> \notin qualified
             /\ e.teacher \in teachersRole)
    OBVIOUS
  <2>2. e.op = "GRANT" /\ e.at = "READ" /\ e.wants = <<>>
    BY <1>0, <1>4 DEF ReadForGrant, Ready
  <2>3. f.op = "GRANT"
    BY <1>1, <1>9, <2>2, ReadRow
  <2>4. ReadsHold(f)
    BY <2>3 DEF ReadsHold
  <2>5. Decide(c, allowed)
    BY <1>0, <1>4, <2>1 DEF ReadForGrant
  <2> QED BY <1>0, <1>4, <2>2, <2>4, <2>5, ReadStep DEF ReadForGrant, Ready
<1>5. CASE ReadForRemoval(c)
  <2>1. PICK allowed \in BOOLEAN : allowed =
          (/\ <<e.teacher, e.course>> \in qualified
           /\ \A s \in SessionsOf(e.teacher) : CourseTaught(s) # e.course)
    OBVIOUS
  <2>2. e.op = "REMOVE" /\ e.at = "READ" /\ e.wants = <<>>
    BY <1>0, <1>5 DEF ReadForRemoval, Ready
  <2>3. f.op = "REMOVE" /\ f.teacher = e.teacher /\ f.course = e.course
    BY <1>1, <1>9, <2>2, ReadRow
  <2>4. allowed => ReadsHold(f)
    BY <2>1, <2>3 DEF ReadsHold
  <2>5. Decide(c, allowed)
    BY <1>0, <1>5, <2>1 DEF ReadForRemoval
  <2> QED BY <1>0, <1>5, <2>2, <2>4, <2>5, ReadStep DEF ReadForRemoval, Ready
<1>6. CASE ReadAssignments(c)
  <2>1. PICK allowed \in BOOLEAN : allowed = (SessionsOf(e.teacher) = {})
    OBVIOUS
  <2>2. e.op = "REMOVE ROLE" /\ e.at = "READ" /\ e.wants = <<>>
    BY <1>0, <1>6 DEF ReadAssignments, Ready
  <2>3. f.op = "REMOVE ROLE" /\ f.teacher = e.teacher
    BY <1>1, <1>9, <2>2, ReadRow
  <2>4. allowed => ReadsHold(f)
    BY <2>1, <2>3 DEF ReadsHold
  <2>5. Decide(c, allowed)
    BY <1>0, <1>6, <2>1 DEF ReadAssignments
  <2> QED BY <1>0, <1>6, <2>2, <2>4, <2>5, ReadStep DEF ReadAssignments, Ready
<1>7. CASE ReadConflicts(c)
  <2>1. PICK allowed \in BOOLEAN : allowed = ~IsTaught(e.exception)
    OBVIOUS
  <2>2. e.op = "ADD" /\ e.at = "READ" /\ e.wants = <<>>
    BY <1>0, <1>7 DEF ReadConflicts, Ready
  <2>3. f.op = "ADD"
    BY <1>1, <1>9, <2>2, ReadRow
  <2>4. ReadsHold(f)
    BY <2>3 DEF ReadsHold
  <2>5. Decide(c, allowed)
    BY <1>0, <1>7, <2>1 DEF ReadConflicts
  <2> QED BY <1>0, <1>7, <2>2, <2>4, <2>5, ReadStep DEF ReadConflicts, Ready
<1> QED BY <1>2, <1>3, <1>4, <1>5, <1>6, <1>7

LEMMA ListStep ==
  ASSUME TeachingInvariant, NEW c \in Edits, ListCourseUnits(c),
         UNCHANGED permissionVars
  PROVE  TeachingInvariant'
<1>1. PICK e, held, list :
        e = edit[c] /\ held = locked[c] /\ list = UnitLocks(unit[e.unit].course)
  OBVIOUS
<1>2. PICK f : f = [e EXCEPT !.at = "READ", !.wants = list]
  OBVIOUS
<1>3. EditSound(e, held) /\ e.op = "PLACE"
  BY <1>1, EditsAreApart DEF ListCourseUnits, Ready
<1>4. IsPlacement(e)
  BY <1>3 DEF EditSound, EditRows
<1>8. PICK at, u, n, wants :
        e = [op |-> "PLACE", at |-> at, unit |-> u, order |-> n,
             wants |-> wants]
  BY <1>4 DEF IsPlacement
<1>9. f = [op |-> "PLACE", at |-> "READ", unit |-> u, order |-> n,
           wants |-> list]
  BY <1>2, <1>8
<1>5. /\ f.op = "PLACE" /\ f.at = "READ" /\ f.unit = e.unit
      /\ f.order = e.order /\ f.wants = list
      /\ f = [op |-> "PLACE", at |-> f.at, unit |-> f.unit,
              order |-> f.order, wants |-> f.wants]
  BY <1>8, <1>9
<1>6. EditSound(f, held)
  BY <1>3, <1>4, <1>5 DEF EditSound, IsPlacement, ClaimsLocks, ReadsHold
<1>7. edit' = [edit EXCEPT ![c] = f] /\ locked' = [locked EXCEPT ![c] = held]
  BY <1>1, <1>2, EditsAreApart
     DEF ListCourseUnits, TeachingInvariant, TablesOfEdits
<1> QED
  BY <1>1, <1>6, <1>7, EditsAreApart, RequestMoves DEF ListCourseUnits

(* Writes.                                                                 *)
LEMMA ReadsAreLocked ==
  ASSUME TeachingInvariant, NEW d \in Edits, NEW f, f = edit[d]
  PROVE  /\ EditSound(f, locked[d]) /\ ReadsHold(f)
         /\ f.wants = <<>> =>
              /\ f.op \in {"REVISE", "RETIRE", "PUBLISH"} =>
                   <<"unit", f.unit>> \in locked[d]
              /\ f.op \in {"PUBLISH", "SUBSTITUTE", "REMOVE ROLE"} =>
                   <<"teacher", f.teacher>> \in locked[d]
              /\ f.op \in {"SUBSTITUTE", "CANCEL"} =>
                   <<"session", f.session>> \in locked[d]
              /\ f.op = "REMOVE" =>
                   <<"granted", f.teacher, f.course>> \in locked[d]
<1>1. EditSound(f, locked[d]) /\ ReadsHold(f)
  BY EditsAreApart DEF EditSound
<1>2. f.wants = <<>> => Wanted(f) = {}
  BY DEF Wanted
<1> QED BY <1>1, <1>2 DEF EditSound, ClaimsLocks

LEMMA EditCommits ==
  ASSUME TeachingInvariant, NEW c \in Edits, EndEdit(c), CommittedSound',
         \A d \in Edits \ {c} : \A f : f = edit[d] => ReadsHold(f)'
  PROVE  TeachingInvariant'
<1>1. EditSound(Over, {})'
  BY DEF EditSound, EditRows, Over, ClaimsLocks, ReadsHold
<1>2. ASSUME NEW d \in Edits \ {c} PROVE ReadsHold(edit[d])'
  <2>1. PICK f : f = edit[d]
    OBVIOUS
  <2>2. edit'[d] = f
    BY <2>1 DEF EndEdit, TeachingInvariant, TablesOfEdits
  <2>3. ReadsHold(f)'
    BY <2>1
  <2> QED BY <2>2, <2>3 DEF ReadsHold
<1> QED BY <1>1, <1>2, EditsChange DEF EndEdit, Over

(* What a write of the curriculum leaves to those who teach it.            *)
LEMMA UnitsWritten ==
  ASSUME CommittedSound, UNCHANGED <<session, permissionVars>>,
         DOMAIN unit \subseteq DOMAIN unit',
         \A u \in DOMAIN unit :
           /\ unit'[u].course = unit[u].course
           /\ unit'[u].identity = unit[u].identity \/ Published(u) = {}
  PROVE  SessionsSound' /\ PermissionsSound'
<1>1. \A s \in DOMAIN session :
        /\ session[s].unit \in DOMAIN unit /\ s \in Published(session[s].unit)
        /\ CourseTaught(s)' = CourseTaught(s)
  BY CommittedTyped DEF Published, CourseTaught
<1>2. SessionsSound'
  BY <1>1 DEF CommittedSound, SessionsSound, SessionRows, IdentityIsKept
<1>3. PermissionsSound'
  BY <1>1
     DEF CommittedSound, PermissionsSound, TeachersMayTeach, MayLead,
         NobodyIsOff, permissionVars
<1> QED BY <1>2, <1>3

LEMMA ReadsSurvive ==
  ASSUME CommittedSound, NEW f, ReadsHold(f),
         UNCHANGED <<session, teachersRole>>,
         DOMAIN unit \subseteq DOMAIN unit',
         \A u \in DOMAIN unit :
           /\ unit'[u].course = unit[u].course
           /\ unit'[u].replacement = unit[u].replacement
  PROVE  ReadsHold(f)'
<1>1. \A s \in DOMAIN session : CourseTaught(s)' = CourseTaught(s)
  BY CommittedTyped DEF CourseTaught
<1> QED BY <1>1 DEF ReadsHold, Published, SessionsOf

LEMMA MaxOfPlaces ==
  ASSUME NEW m \in Nat
  PROVE  Max({0} \cup 1 .. m) = m
<1>1. m \in {0} \cup 1 .. m /\ \A y \in {0} \cup 1 .. m : m >= y
  OBVIOUS
<1> QED BY <1>1 DEF Max

LEMMA UnitsOfCourse ==
  ASSUME UnitsSound, NEW k \in Courses
  PROVE  /\ IsFiniteSet(UnitsIn(k)) /\ Cardinality(UnitsIn(k)) \in Nat
         /\ {unit[u].order : u \in UnitsIn(k)}
              = 1 .. Cardinality(UnitsIn(k))
BY UnitsTyped, FS_Subset, FS_CardinalityType
   DEF UnitsIn, UnitsSound, CourseIsOrdered

LEMMA CreateStep ==
  ASSUME TeachingInvariant, NEW c \in Edits, CreateLessonUnit(c),
         UNCHANGED permissionVars
  PROVE  TeachingInvariant'
<1>0. CommittedSound /\ UnitsSound
  BY DEF TeachingInvariant, CommittedSound
<1>1. PICK e, n : e = edit[c] /\ n = Cardinality(DOMAIN unit)
  OBVIOUS
<1>2. e.course \in Courses
  <2>1. EditSound(e, locked[c]) /\ e.op = "CREATE"
    BY <1>1, EditsAreApart DEF CreateLessonUnit, Ready
  <2>2. e \in EditRows
    BY <2>1 DEF EditSound, IsPlacement
  <2> QED BY <2>1, <2>2 DEF EditRows
<1>3. PICK k \in Courses : k = e.course
  BY <1>2
<1>4. PICK m \in Nat : m = Cardinality(UnitsIn(k))
  BY <1>0, UnitsOfCourse
<1>5. NextOrder(k) = m + 1
  BY <1>0, <1>4, UnitsOfCourse, MaxOfPlaces DEF NextOrder
<1>6. PICK row : row = NewUnit(k, m + 1)
  OBVIOUS
<1>7. /\ row \in UnitRows /\ row.course = k /\ row.order = m + 1
      /\ row.state = "ACTIVE" /\ row.replacement = 0
  BY <1>6 DEF NewUnit, UnitRows
<1>8. /\ n \in Nat /\ DOMAIN unit = 1 .. n /\ n + 1 <= MaxUnits
      /\ unit' = Inserted(unit, n + 1, row)
  BY <1>0, <1>1, <1>3, <1>5, <1>6, UnitsTyped, CurriculumAssumption
     DEF CreateLessonUnit
<1>9. /\ DOMAIN unit' = 1 .. n + 1 /\ unit'[n + 1] = row
      /\ \A u \in DOMAIN unit : unit'[u] = unit[u]
      /\ unit' \in [1 .. n + 1 -> UnitRows]
  BY <1>0, <1>7, <1>8, UnitsTyped DEF Inserted
<1>10. CourseIsOrdered'
  <2> SUFFICES ASSUME NEW j \in Courses
               PROVE  {unit'[u].order : u \in UnitsIn(j)'}
                        = 1 .. Cardinality(UnitsIn(j)')
    BY DEF CourseIsOrdered
  <2>1. CASE j = k
    <3>1. UnitsIn(j)' = UnitsIn(k) \cup {n + 1} /\ n + 1 \notin UnitsIn(k)
      BY <1>7, <1>8, <1>9, <2>1 DEF UnitsIn
    <3>2. Cardinality(UnitsIn(j)') = m + 1
      BY <1>0, <1>4, <3>1, UnitsOfCourse, FS_AddElement
    <3>3. {unit'[u].order : u \in UnitsIn(k)}
            = {unit[u].order : u \in UnitsIn(k)}
      BY <1>9 DEF UnitsIn
    <3>4. {unit'[u].order : u \in UnitsIn(j)'}
            = {unit'[u].order : u \in UnitsIn(k)} \cup {m + 1}
      BY <1>7, <1>9, <3>1
    <3>5. {unit[u].order : u \in UnitsIn(k)} = 1 .. m
      BY <1>0, <1>4, UnitsOfCourse
    <3>6. 1 .. m \cup {m + 1} = 1 .. m + 1
      OBVIOUS
    <3> QED BY <3>2, <3>3, <3>4, <3>5, <3>6
  <2>2. CASE j # k
    <3>1. UnitsIn(j)' = UnitsIn(j)
      BY <1>7, <1>8, <1>9, <2>2 DEF UnitsIn
    <3>2. \A u \in UnitsIn(j) : unit'[u] = unit[u]
      BY <1>9 DEF UnitsIn
    <3> QED BY <1>0, <3>1, <3>2 DEF UnitsSound, CourseIsOrdered
  <2> QED BY <2>1, <2>2
<1>11. UnitsSound'
  <2>1. NoMutualReplacement'
    BY <1>0, <1>7, <1>8, <1>9 DEF UnitsSound, NoMutualReplacement
  <2>2. \A u \in DOMAIN unit' :
          /\ unit'[u].state = "ACTIVE" => unit'[u].replacement = 0
          /\ unit'[u].replacement # 0 => unit'[u].replacement \in DOMAIN unit'
    BY <1>0, <1>7, <1>8, <1>9 DEF UnitsSound
  <2>3. n + 1 \in 0 .. MaxUnits
    BY <1>8, CurriculumAssumption
  <2> QED BY <1>9, <1>10, <2>1, <2>2, <2>3 DEF UnitsSound
<1>12. session' = session /\ EndEdit(c) /\ teachersRole' = teachersRole
  BY DEF CreateLessonUnit, permissionVars
<1>13. DOMAIN unit \subseteq DOMAIN unit'
  BY <1>8, <1>9
<1>14. CommittedSound'
  BY <1>0, <1>9, <1>11, <1>12, <1>13, UnitsWritten DEF CommittedSound
<1> QED
  BY <1>0, <1>9, <1>12, <1>13, <1>14, EditCommits, ReadsSurvive, ReadsAreLocked

(* The places of a Course after a unit has moved.                          *)
LEMMA PlacesAreTaken ==
  ASSUME UnitsSound, NEW u \in DOMAIN unit, NEW n,
         InCourse(n, unit[u].course), NEW U, U = UnitsIn(unit[u].course)
  PROVE  {OrderAfter(w, u, n) : w \in U} = 1 .. Cardinality(U)
<1> DEFINE m == Cardinality(U)
           from == unit[u].order
<1>1. unit[u].course \in Courses
  BY UnitsTyped DEF UnitRows
<1>2. m \in Nat /\ {unit[w].order : w \in U} = 1 .. m
  BY <1>1, UnitsOfCourse
<1>3. u \in U /\ from \in 1 .. m /\ n \in 1 .. m
  BY <1>2 DEF UnitsIn, InCourse
<1> HIDE DEF m
<1>4. ASSUME NEW w \in U PROVE OrderAfter(w, u, n) \in 1 .. m
  <2>1. unit[w].order \in 1 .. m
    BY <1>2
  <2> QED BY <1>2, <1>3, <2>1 DEF OrderAfter
<1>5. ASSUME NEW p \in 1 .. m PROVE \E w \in U : OrderAfter(w, u, n) = p
  <2>1. CASE p = n
    BY <1>3, <2>1 DEF OrderAfter
  <2>2. CASE n < p /\ p <= from
    <3>1. p - 1 \in 1 .. m
      BY <1>2, <1>3, <2>2
    <3>2. PICK w \in U : unit[w].order = p - 1
      BY <1>2, <3>1
    <3>3. OrderAfter(w, u, n) = p
      BY <1>2, <1>3, <2>2, <3>2 DEF OrderAfter
    <3> QED BY <3>3
  <2>3. CASE from <= p /\ p < n
    <3>1. p + 1 \in 1 .. m
      BY <1>2, <1>3, <2>3
    <3>2. PICK w \in U : unit[w].order = p + 1
      BY <1>2, <3>1
    <3>3. OrderAfter(w, u, n) = p
      BY <1>2, <1>3, <2>3, <3>2 DEF OrderAfter
    <3> QED BY <3>3
  <2>4. CASE p # n /\ ~(n < p /\ p <= from) /\ ~(from <= p /\ p < n)
    <3>1. PICK w \in U : unit[w].order = p
      BY <1>2
    <3>2. OrderAfter(w, u, n) = p
      BY <1>2, <1>3, <2>4, <3>1 DEF OrderAfter
    <3> QED BY <3>2
  <2> QED BY <2>1, <2>2, <2>3, <2>4
<1> QED BY <1>4, <1>5 DEF m

LEMMA PlaceStep ==
  ASSUME TeachingInvariant, NEW c \in Edits, PlaceLessonUnitInCourse(c),
         UNCHANGED permissionVars
  PROVE  TeachingInvariant'
<1>0. CommittedSound /\ UnitsSound
  BY DEF TeachingInvariant, CommittedSound
<1>1. PICK e, u, k : e = edit[c] /\ u = e.unit /\ k = unit[u].course
  OBVIOUS
<1>2. u \in DOMAIN unit
  <2>1. e.op = "PLACE" /\ ReadsHold(e)
    BY <1>1, ReadsAreLocked DEF PlaceLessonUnitInCourse, Ready
  <2> QED BY <1>1, <2>1 DEF ReadsHold
<1>3. CASE ~InCourse(e.order, k)
  BY <1>1, <1>3, EndedStep DEF PlaceLessonUnitInCourse
<1>4. CASE InCourse(e.order, k)
  <2>1. PICK n : n = e.order
    OBVIOUS
  <2>2. unit' = [w \in DOMAIN unit |->
                   IF w \in UnitsIn(k)
                   THEN [unit[w] EXCEPT !.order = OrderAfter(w, u, n)]
                   ELSE unit[w]]
    BY <1>1, <1>4, <2>1 DEF PlaceLessonUnitInCourse
  <2>3. {OrderAfter(w, u, n) : w \in UnitsIn(k)}
          = 1 .. Cardinality(UnitsIn(k))
    BY <1>0, <1>1, <1>2, <1>4, <2>1, PlacesAreTaken
  <2>4. k \in Courses /\ Cardinality(UnitsIn(k)) \in Nat
    BY <1>0, <1>1, <1>2, CommittedTyped, UnitsOfCourse
  <2>5. \A w \in UnitsIn(k) : OrderAfter(w, u, n) \in Int
    BY <2>3, <2>4
  <2>6. ASSUME NEW w \in DOMAIN unit
        PROVE  /\ unit'[w] \in UnitRows
               /\ unit'[w].course = unit[w].course
               /\ unit'[w].state = unit[w].state
               /\ unit'[w].identity = unit[w].identity
               /\ unit'[w].replacement = unit[w].replacement
               /\ w \in UnitsIn(k) => unit'[w].order = OrderAfter(w, u, n)
               /\ w \notin UnitsIn(k) => unit'[w] = unit[w]
    <3>1. unit[w] \in UnitRows
      BY <1>0, CommittedTyped
    <3> QED BY <2>2, <2>5, <3>1 DEF UnitRows
  <2>7. DOMAIN unit' = DOMAIN unit /\ unit' \in [DOMAIN unit -> UnitRows]
    BY <2>2, <2>6
  <2>8. \A j : UnitsIn(j)' = UnitsIn(j)
    BY <2>6, <2>7 DEF UnitsIn
  <2>9. CourseIsOrdered'
    <3> SUFFICES ASSUME NEW j \in Courses
                 PROVE  {unit'[w].order : w \in UnitsIn(j)}
                          = 1 .. Cardinality(UnitsIn(j))
      BY <2>8 DEF CourseIsOrdered
    <3>1. CASE j = k
      <4>1. {unit'[w].order : w \in UnitsIn(k)}
              = {OrderAfter(w, u, n) : w \in UnitsIn(k)}
        BY <2>6 DEF UnitsIn
      <4> QED BY <2>3, <3>1, <4>1
    <3>2. CASE j # k
      <4>1. \A w \in UnitsIn(j) : unit'[w] = unit[w]
        BY <2>6, <3>2 DEF UnitsIn
      <4> QED BY <1>0, <4>1 DEF UnitsSound, CourseIsOrdered
    <3> QED BY <3>1, <3>2
  <2>10. UnitsSound'
    <3>1. NoMutualReplacement'
      BY <1>0, <2>6, <2>7 DEF UnitsSound, NoMutualReplacement
    <3>2. \A w \in DOMAIN unit' :
            /\ unit'[w].state = "ACTIVE" => unit'[w].replacement = 0
            /\ unit'[w].replacement # 0
                 => unit'[w].replacement \in DOMAIN unit'
      BY <1>0, <2>6, <2>7 DEF UnitsSound
    <3>3. \E i \in 0 .. MaxUnits : unit' \in [1 .. i -> UnitRows]
      BY <1>0, <2>7, UnitsTyped
    <3> QED BY <2>9, <3>1, <3>2, <3>3 DEF UnitsSound
  <2>11. session' = session /\ EndEdit(c) /\ teachersRole' = teachersRole
    BY DEF PlaceLessonUnitInCourse, permissionVars
  <2>12. CommittedSound'
    BY <1>0, <2>6, <2>7, <2>10, <2>11, UnitsWritten DEF CommittedSound
  <2> QED
    BY <1>0, <2>6, <2>7, <2>11, <2>12, EditCommits, ReadsSurvive, ReadsAreLocked
<1> QED BY <1>3, <1>4

LEMMA ReviseStep ==
  ASSUME TeachingInvariant, NEW c \in Edits, ReviseLessonUnitIdentity(c),
         UNCHANGED permissionVars
  PROVE  TeachingInvariant'
<1>0. CommittedSound /\ UnitsSound
  BY DEF TeachingInvariant, CommittedSound
<1>1. PICK e, u : e = edit[c] /\ u = e.unit
  OBVIOUS
<1>2. u \in DOMAIN unit /\ Published(u) = {}
  <2>1. e.op = "REVISE" /\ e.at = "WRITE" /\ ReadsHold(e)
    BY <1>1, ReadsAreLocked DEF ReviseLessonUnitIdentity, Ready
  <2> QED BY <1>1, <2>1 DEF ReadsHold
<1>3. ASSUME NEW w \in DOMAIN unit
      PROVE  /\ unit'[w] \in UnitRows
             /\ unit'[w].course = unit[w].course
             /\ unit'[w].state = unit[w].state
             /\ unit'[w].order = unit[w].order
             /\ unit'[w].replacement = unit[w].replacement
             /\ unit'[w].identity = unit[w].identity \/ Published(w) = {}
  <2>1. unit[w] \in UnitRows
    BY <1>0, CommittedTyped
  <2> QED
    BY <1>1, <1>2, <2>1 DEF ReviseLessonUnitIdentity, UnitRows
<1>4. DOMAIN unit' = DOMAIN unit /\ unit' \in [DOMAIN unit -> UnitRows]
  BY <1>0, <1>1, <1>3, UnitsTyped DEF ReviseLessonUnitIdentity
<1>5. UnitsSound'
  <2>1. CourseIsOrdered'
    <3>1. \A j : UnitsIn(j)' = UnitsIn(j)
      BY <1>3, <1>4 DEF UnitsIn
    <3>2. \A j : {unit'[w].order : w \in UnitsIn(j)}
                  = {unit[w].order : w \in UnitsIn(j)}
      BY <1>3 DEF UnitsIn
    <3> QED BY <1>0, <3>1, <3>2 DEF UnitsSound, CourseIsOrdered
  <2>2. NoMutualReplacement'
    BY <1>0, <1>3, <1>4 DEF UnitsSound, NoMutualReplacement
  <2>3. \A w \in DOMAIN unit' :
          /\ unit'[w].state = "ACTIVE" => unit'[w].replacement = 0
          /\ unit'[w].replacement # 0 => unit'[w].replacement \in DOMAIN unit'
    BY <1>0, <1>3, <1>4 DEF UnitsSound
  <2>4. \E i \in 0 .. MaxUnits : unit' \in [1 .. i -> UnitRows]
    BY <1>0, <1>4, UnitsTyped
  <2> QED BY <2>1, <2>2, <2>3, <2>4 DEF UnitsSound
<1>6. session' = session /\ EndEdit(c) /\ teachersRole' = teachersRole
  BY DEF ReviseLessonUnitIdentity, permissionVars
<1>7. CommittedSound'
  BY <1>0, <1>3, <1>4, <1>5, <1>6, UnitsWritten DEF CommittedSound
<1> QED
  BY <1>0, <1>3, <1>4, <1>6, <1>7, EditCommits, ReadsSurvive, ReadsAreLocked

LEMMA RetireStep ==
  ASSUME TeachingInvariant, NEW c \in Edits, RetireLessonUnit(c),
         UNCHANGED permissionVars
  PROVE  TeachingInvariant'
<1>0. CommittedSound /\ UnitsSound
  BY DEF TeachingInvariant, CommittedSound
<1>1. PICK e, u, r : e = edit[c] /\ u = e.unit /\ r = e.replacement
  OBVIOUS
<1>2. /\ e.op = "RETIRE" /\ e.at = "WRITE" /\ e.wants = <<>>
      /\ ReadsHold(e) /\ EditSound(e, locked[c])
  BY <1>1, ReadsAreLocked DEF RetireLessonUnit, Ready
<1>3. /\ u \in DOMAIN unit /\ r \in Nat
      /\ r # 0 => /\ r \in DOMAIN unit /\ r # u
                  /\ unit[r].replacement # u
  <2>1. e \in EditRows
    BY <1>2 DEF EditSound, IsPlacement
  <2>2. r \in Nat
    BY <1>1, <1>2, <2>1 DEF EditRows
  <2> QED BY <1>1, <1>2, <2>2 DEF ReadsHold
<1>4. unit' = [unit EXCEPT ![u].state = "RETIRED", ![u].replacement = r]
  BY <1>1 DEF RetireLessonUnit
<1>5. ASSUME NEW w \in DOMAIN unit
      PROVE  /\ unit'[w] \in UnitRows
             /\ unit'[w].course = unit[w].course
             /\ unit'[w].order = unit[w].order
             /\ unit'[w].identity = unit[w].identity
             /\ w # u => unit'[w] = unit[w]
             /\ w = u => /\ unit'[w].state = "RETIRED"
                         /\ unit'[w].replacement = r
  <2>1. unit[w] \in UnitRows
    BY <1>0, CommittedTyped
  <2> QED BY <1>3, <1>4, <2>1 DEF UnitRows
<1>6. DOMAIN unit' = DOMAIN unit /\ unit' \in [DOMAIN unit -> UnitRows]
  BY <1>0, <1>4, <1>5, UnitsTyped
<1>7. UnitsSound'
  <2>1. CourseIsOrdered'
    <3>1. \A j : UnitsIn(j)' = UnitsIn(j)
      BY <1>5, <1>6 DEF UnitsIn
    <3>2. \A j : {unit'[w].order : w \in UnitsIn(j)}
                  = {unit[w].order : w \in UnitsIn(j)}
      BY <1>5 DEF UnitsIn
    <3> QED BY <1>0, <3>1, <3>2 DEF UnitsSound, CourseIsOrdered
  <2>2. NoMutualReplacement'
    <3>1. \A w \in DOMAIN unit :
            unit[w].replacement # 0 =>
              /\ unit[w].replacement \in DOMAIN unit
              /\ unit[unit[w].replacement].replacement # w
      BY <1>0 DEF UnitsSound, NoMutualReplacement
    <3> SUFFICES ASSUME NEW w \in DOMAIN unit, NEW q,
                        q = unit'[w].replacement, q # 0
                 PROVE  unit'[q].replacement # w
      BY <1>6 DEF NoMutualReplacement
    <3>2. CASE w = u
      BY <1>3, <1>5, <3>2
    <3>3. CASE w # u
      <4>1. q = unit[w].replacement /\ q \in DOMAIN unit /\ w # 0
        BY <1>0, <1>5, <3>1, <3>3, CommittedTyped
      <4> QED BY <1>3, <1>5, <3>1, <3>3, <4>1
    <3> QED BY <3>2, <3>3
  <2>3. \A w \in DOMAIN unit' :
          /\ unit'[w].state = "ACTIVE" => unit'[w].replacement = 0
          /\ unit'[w].replacement # 0 => unit'[w].replacement \in DOMAIN unit'
    BY <1>0, <1>3, <1>5, <1>6 DEF UnitsSound
  <2>4. \E i \in 0 .. MaxUnits : unit' \in [1 .. i -> UnitRows]
    BY <1>0, <1>6, UnitsTyped
  <2> QED BY <2>1, <2>2, <2>3, <2>4 DEF UnitsSound
<1>8. session' = session /\ EndEdit(c) /\ teachersRole' = teachersRole
  BY DEF RetireLessonUnit, permissionVars
<1>9. CommittedSound'
  BY <1>0, <1>5, <1>6, <1>7, <1>8, UnitsWritten DEF CommittedSound
<1>10. ASSUME NEW d \in Edits \ {c}, NEW f, f = edit[d]
       PROVE  ReadsHold(f)'
  <2>1. ReadsHold(f) /\ EditSound(f, locked[d])
    BY <1>10, ReadsAreLocked
  <2>2. \A s \in DOMAIN session : CourseTaught(s)' = CourseTaught(s)
    BY <1>0, <1>5, <1>8, CommittedTyped DEF CourseTaught
  <2>3. CASE f.op = "RETIRE" /\ f.at = "WRITE" /\ f.replacement # 0
    <3>1. f.wants = <<>>
      BY <2>1, <2>3 DEF EditSound
    <3>2. <<"unit", f.unit>> \in locked[d]
      BY <1>10, <2>3, <3>1, ReadsAreLocked
    <3>3. f.unit # r
      BY <1>1, <3>2 DEF RetireLessonUnit, ReplacementIsFree, LockIsFree
    <3>4. /\ f.unit \in DOMAIN unit /\ f.replacement \in DOMAIN unit
          /\ f.replacement # f.unit
          /\ unit[f.replacement].replacement # f.unit
      BY <2>1, <2>3 DEF ReadsHold
    <3>5. unit'[f.replacement].replacement # f.unit
      BY <1>5, <3>3, <3>4
    <3> QED BY <1>6, <2>3, <3>4, <3>5 DEF ReadsHold
  <2>4. CASE ~(f.op = "RETIRE" /\ f.at = "WRITE" /\ f.replacement # 0)
    BY <1>6, <1>8, <2>1, <2>2, <2>4 DEF ReadsHold, Published, SessionsOf
  <2> QED BY <2>3, <2>4
<1> QED BY <1>8, <1>9, <1>10, EditCommits

(* What a write of the sessions, of a qualification or of an exception     *)
(* leaves to the curriculum.                                               *)
LEMMA UnitsKept ==
  ASSUME UnitsSound, unit' = unit
  PROVE  UnitsSound'
<1>1. \A k : UnitsIn(k)' = UnitsIn(k)
  BY DEF UnitsIn
<1>2. CourseIsOrdered' /\ NoMutualReplacement'
  BY <1>1 DEF UnitsSound, CourseIsOrdered, NoMutualReplacement
<1> QED BY <1>2 DEF UnitsSound

LEMMA PublishStep ==
  ASSUME TeachingInvariant, NEW c \in Edits, NEW s \in NewSessions,
         PublishClassSession(c, s)
  PROVE  TeachingInvariant'
<1>0. CommittedSound /\ UnitsSound
  BY DEF TeachingInvariant, CommittedSound
<1>1. PICK e, u, t, k : /\ e = edit[c] /\ u = e.unit /\ t = e.teacher
                        /\ k = unit[u].course
  OBVIOUS
<1>2. /\ e.op = "PUBLISH" /\ e.at = "WRITE" /\ e.wants = <<>>
      /\ ReadsHold(e) /\ EditSound(e, locked[c])
      /\ <<"unit", u>> \in locked[c] /\ <<"teacher", t>> \in locked[c]
  BY <1>1, ReadsAreLocked DEF PublishClassSession, Ready
<1>3. /\ u \in DOMAIN unit /\ t \in teachersRole
      /\ t \in Teachers /\ e.start \in Starts
  <2>1. e \in EditRows
    BY <1>2 DEF EditSound, IsPlacement
  <2>2. t \in Teachers /\ e.start \in Starts
    BY <1>1, <1>2, <2>1 DEF EditRows
  <2> QED BY <1>1, <1>2, <2>2 DEF ReadsHold
<1>4. CASE ~TriggersAccept(t, k, e.start)
  BY <1>1, <1>4, EndedStep DEF PublishClassSession, permissionVars
<1>5. CASE TriggersAccept(t, k, e.start)
  <2>1. PICK row : row = [unit |-> u, teacher |-> t, start |-> e.start,
                          identity |-> unit[u].identity]
    OBVIOUS
  <2>2. s \notin DOMAIN session /\ session' = Inserted(session, s, row)
    BY <1>1, <1>5, <2>1 DEF PublishClassSession
  <2>3. unit' = unit /\ UNCHANGED permissionVars /\ EndEdit(c)
    BY DEF PublishClassSession
  <2>4. /\ DOMAIN session' = DOMAIN session \cup {s} /\ session'[s] = row
        /\ \A q \in DOMAIN session : session'[q] = session[q]
        /\ session' = [q \in DOMAIN session' |-> session'[q]]
    BY <2>2 DEF Inserted
  <2>5. row \in SessionRows
    <3>1. unit[u].identity \in Nat
      BY <1>0, <1>3, CommittedTyped DEF UnitRows
    <3> QED BY <1>3, <2>1, <3>1 DEF SessionRows
  <2>6. SessionsSound'
    <3>1. \A q \in DOMAIN session' :
            q \in NewSessions /\ session'[q] \in SessionRows
      BY <1>0, <2>4, <2>5, CommittedTyped
    <3>2. IdentityIsKept'
      BY <1>0, <2>1, <2>3, <2>4
         DEF CommittedSound, SessionsSound, IdentityIsKept
    <3>3. SessionRows' = SessionRows
      BY <2>3 DEF SessionRows
    <3> QED BY <2>4, <3>1, <3>2, <3>3 DEF SessionsSound
  <2>7. PermissionsSound'
    <3>1. TeachersMayTeach'
      <4>1. <<t, k>> \in qualified
        BY <1>5 DEF TriggersAccept
      <4> QED
        BY <1>0, <1>1, <1>3, <2>1, <2>3, <2>4, <4>1
           DEF CommittedSound, PermissionsSound, TeachersMayTeach, MayLead,
               CourseTaught, permissionVars
    <3>2. NobodyIsOff'
      BY <1>0, <1>5, <2>1, <2>3, <2>4
         DEF CommittedSound, PermissionsSound, NobodyIsOff, TriggersAccept,
             IsOff, permissionVars
    <3> QED
      BY <1>0, <2>3, <3>1, <3>2
         DEF CommittedSound, PermissionsSound, permissionVars
  <2>8. CommittedSound'
    BY <1>0, <2>3, <2>6, <2>7, UnitsKept DEF CommittedSound
  <2>9. ASSUME NEW d \in Edits \ {c}, NEW f, f = edit[d]
        PROVE  ReadsHold(f)'
    <3>1. ReadsHold(f) /\ EditSound(f, locked[d])
      BY <2>9, ReadsAreLocked
    <3>2. locked[c] \cap locked[d] = {}
      BY EditsAreApart
    <3>3. \A q \in DOMAIN session : CourseTaught(q)' = CourseTaught(q)
      BY <2>3, <2>4 DEF CourseTaught
    <3>4. CASE f.at = "WRITE" /\ f.op \in {"REVISE", "REMOVE", "REMOVE ROLE"}
      <4>1. f.wants = <<>>
        BY <3>1, <3>4 DEF EditSound
      <4>2. CASE f.op = "REVISE"
        <5>1. f.unit # u
          BY <1>2, <2>9, <3>2, <4>1, <4>2, ReadsAreLocked
        <5>2. Published(f.unit)' = Published(f.unit)
          BY <2>1, <2>4, <5>1 DEF Published
        <5> QED BY <2>3, <3>1, <4>2, <5>2 DEF ReadsHold
      <4>3. CASE f.op = "REMOVE"
        <5>1. <<"granted", f.teacher, f.course>> \in locked[d]
          BY <2>9, <4>1, <4>3, ReadsAreLocked
        <5>2. <<f.teacher, f.course>> # <<t, k>>
          BY <1>1, <5>1 DEF PublishClassSession, GrantIsFree, LockIsFree
        <5>3. CourseTaught(s)' = k
          BY <1>1, <2>1, <2>3, <2>4 DEF CourseTaught
        <5>4. \A q \in SessionsOf(f.teacher)' : CourseTaught(q)' # f.course
          BY <2>1, <2>4, <3>1, <3>3, <3>4, <4>3, <5>2, <5>3
             DEF SessionsOf, ReadsHold
        <5> QED BY <4>3, <5>4 DEF ReadsHold
      <4>4. CASE f.op = "REMOVE ROLE"
        <5>1. f.teacher # t
          BY <1>2, <2>9, <3>2, <4>1, <4>4, ReadsAreLocked
        <5>2. SessionsOf(f.teacher)' = SessionsOf(f.teacher)
          BY <2>1, <2>4, <5>1 DEF SessionsOf
        <5> QED BY <3>1, <4>4, <5>2 DEF ReadsHold
      <4> QED BY <3>4, <4>2, <4>3, <4>4
    <3>5. CASE ~(f.at = "WRITE" /\ f.op \in {"REVISE", "REMOVE", "REMOVE ROLE"})
      BY <2>3, <2>4, <3>1, <3>5 DEF ReadsHold, permissionVars
    <3> QED BY <3>4, <3>5
  <2> QED BY <2>3, <2>8, <2>9, EditCommits
<1> QED BY <1>4, <1>5

LEMMA SubstituteStep ==
  ASSUME TeachingInvariant, NEW c \in Edits, SubstituteTeacher(c)
  PROVE  TeachingInvariant'
<1>0. CommittedSound /\ UnitsSound
  BY DEF TeachingInvariant, CommittedSound
<1>1. PICK e, s, t : e = edit[c] /\ s = e.session /\ t = e.teacher
  OBVIOUS
<1>2. /\ e.op = "SUBSTITUTE" /\ e.at = "WRITE" /\ e.wants = <<>>
      /\ ReadsHold(e) /\ EditSound(e, locked[c])
      /\ <<"teacher", t>> \in locked[c]
  BY <1>1, ReadsAreLocked DEF SubstituteTeacher, Ready
<1>3. s \in DOMAIN session /\ t \in teachersRole /\ t \in Teachers
  <2>1. e \in EditRows
    BY <1>2 DEF EditSound, IsPlacement
  <2>2. t \in Teachers
    BY <1>1, <1>2, <2>1 DEF EditRows
  <2> QED BY <1>1, <1>2, <2>2 DEF ReadsHold
<1>4. PICK k : k = CourseTaught(s)
  OBVIOUS
<1>5. CASE ~TriggersAccept(t, k, session[s].start)
  BY <1>1, <1>4, <1>5, EndedStep DEF SubstituteTeacher, permissionVars
<1>6. CASE TriggersAccept(t, k, session[s].start)
  <2>1. session' = [session EXCEPT ![s].teacher = t]
    BY <1>1, <1>4, <1>6 DEF SubstituteTeacher
  <2>2. unit' = unit /\ UNCHANGED permissionVars /\ EndEdit(c)
    BY DEF SubstituteTeacher
  <2>3. ASSUME NEW q \in DOMAIN session
        PROVE  /\ session'[q] \in SessionRows
               /\ session'[q].unit = session[q].unit
               /\ session'[q].start = session[q].start
               /\ session'[q].identity = session[q].identity
               /\ session'[q].teacher
                    = IF q = s THEN t ELSE session[q].teacher
               /\ q \in NewSessions /\ CourseTaught(q)' = CourseTaught(q)
    <3>1. session[q] \in SessionRows /\ q \in NewSessions
      BY <1>0, CommittedTyped
    <3> QED BY <1>3, <2>1, <2>2, <3>1 DEF SessionRows, CourseTaught
  <2>4. /\ DOMAIN session' = DOMAIN session
        /\ session' = [q \in DOMAIN session' |-> session'[q]]
    BY <1>0, <2>1, CommittedTyped
  <2>5. SessionsSound'
    <3>1. SessionRows' = SessionRows
      BY <2>2 DEF SessionRows
    <3>2. IdentityIsKept'
      BY <1>0, <2>2, <2>3, <2>4
         DEF CommittedSound, SessionsSound, IdentityIsKept
    <3> QED BY <2>3, <2>4, <3>1, <3>2 DEF SessionsSound
  <2>6. PermissionsSound'
    <3>1. TeachersMayTeach'
      <4>1. <<t, k>> \in qualified
        BY <1>6 DEF TriggersAccept
      <4>2. ASSUME NEW q \in DOMAIN session
            PROVE  MayLead(session'[q].teacher, CourseTaught(q))
        BY <1>0, <1>3, <1>4, <2>3, <4>1
           DEF CommittedSound, PermissionsSound, TeachersMayTeach, MayLead
      <4> QED
        BY <2>2, <2>3, <2>4, <4>2
           DEF TeachersMayTeach, MayLead, permissionVars
    <3>2. NobodyIsOff'
      BY <1>0, <1>6, <2>2, <2>3, <2>4
         DEF CommittedSound, PermissionsSound, NobodyIsOff, TriggersAccept,
             IsOff, permissionVars
    <3> QED
      BY <1>0, <2>2, <3>1, <3>2
         DEF CommittedSound, PermissionsSound, permissionVars
  <2>7. CommittedSound'
    BY <1>0, <2>2, <2>5, <2>6, UnitsKept DEF CommittedSound
  <2>8. ASSUME NEW d \in Edits \ {c}, NEW f, f = edit[d]
        PROVE  ReadsHold(f)'
    <3>1. ReadsHold(f) /\ EditSound(f, locked[d])
      BY <2>8, ReadsAreLocked
    <3>2. \A u : Published(u)' = Published(u)
      BY <2>3, <2>4 DEF Published
    <3>3. CASE f.at = "WRITE" /\ f.op \in {"REMOVE", "REMOVE ROLE"}
      <4>1. f.wants = <<>>
        BY <3>1, <3>3 DEF EditSound
      <4>2. CASE f.op = "REMOVE"
        <5>1. <<"granted", f.teacher, f.course>> \in locked[d]
          BY <2>8, <4>1, <4>2, ReadsAreLocked
        <5>2. <<f.teacher, f.course>> # <<t, k>>
          BY <1>1, <1>4, <5>1 DEF SubstituteTeacher, GrantIsFree, LockIsFree
        <5>3. ASSUME NEW q \in SessionsOf(f.teacher)'
              PROVE  CourseTaught(q) # f.course
          <6>1. q \in DOMAIN session /\ session'[q].teacher = f.teacher
            BY <2>4 DEF SessionsOf
          <6>2. CASE q = s
            BY <1>4, <2>3, <5>2, <6>1, <6>2
          <6>3. CASE q # s
            BY <2>3, <3>1, <3>3, <4>2, <6>1, <6>3 DEF SessionsOf, ReadsHold
          <6> QED BY <6>2, <6>3
        <5>4. \A q \in SessionsOf(f.teacher)' : CourseTaught(q)' # f.course
          BY <2>3, <2>4, <5>3 DEF SessionsOf
        <5> QED BY <4>2, <5>4 DEF ReadsHold
      <4>3. CASE f.op = "REMOVE ROLE"
        <5>1. f.teacher # t
          BY <1>2, <2>8, <4>1, <4>3, EditsAreApart, ReadsAreLocked
        <5>2. SessionsOf(f.teacher)' \subseteq SessionsOf(f.teacher)
          BY <2>3, <2>4, <5>1 DEF SessionsOf
        <5> QED BY <3>1, <4>3, <5>2 DEF ReadsHold
      <4> QED BY <3>3, <4>2, <4>3
    <3>4. CASE ~(f.at = "WRITE" /\ f.op \in {"REMOVE", "REMOVE ROLE"})
      BY <2>2, <2>4, <3>1, <3>2, <3>4 DEF ReadsHold, permissionVars
    <3> QED BY <3>3, <3>4
  <2> QED BY <2>2, <2>7, <2>8, EditCommits
<1> QED BY <1>5, <1>6

LEMMA CancelStep ==
  ASSUME TeachingInvariant, NEW c \in Edits, CancelClassSession(c)
  PROVE  TeachingInvariant'
<1>0. CommittedSound /\ UnitsSound
  BY DEF TeachingInvariant, CommittedSound
<1>1. PICK e, s : e = edit[c] /\ s = e.session
  OBVIOUS
<1>2. e.op = "CANCEL" /\ <<"session", s>> \in locked[c]
  BY <1>1, ReadsAreLocked DEF CancelClassSession, Ready
<1>3. /\ DOMAIN session' = DOMAIN session \ {s}
      /\ \A q \in DOMAIN session' : session'[q] = session[q]
      /\ session' = [q \in DOMAIN session' |-> session'[q]]
  BY <1>1 DEF CancelClassSession
<1>4. unit' = unit /\ UNCHANGED permissionVars /\ EndEdit(c)
  BY DEF CancelClassSession
<1>5. /\ \A q \in DOMAIN session' : CourseTaught(q)' = CourseTaught(q)
      /\ \A u : Published(u)' \subseteq Published(u)
      /\ \A t : SessionsOf(t)' \subseteq SessionsOf(t)
  BY <1>3, <1>4 DEF CourseTaught, Published, SessionsOf
<1>6. SessionsSound'
  <2>1. SessionRows' = SessionRows
    BY <1>4 DEF SessionRows
  <2>2. IdentityIsKept'
    BY <1>0, <1>3, <1>4 DEF CommittedSound, SessionsSound, IdentityIsKept
  <2>3. \A q \in DOMAIN session' :
          q \in NewSessions /\ session'[q] \in SessionRows
    BY <1>0, <1>3, CommittedTyped
  <2> QED BY <1>3, <2>1, <2>2, <2>3 DEF SessionsSound
<1>7. PermissionsSound'
  <2>1. TeachersMayTeach'
    BY <1>0, <1>3, <1>4, <1>5
       DEF CommittedSound, PermissionsSound, TeachersMayTeach, MayLead,
           permissionVars
  <2>2. NobodyIsOff'
    BY <1>0, <1>3, <1>4
       DEF CommittedSound, PermissionsSound, NobodyIsOff, permissionVars
  <2> QED
    BY <1>0, <1>4, <2>1, <2>2
       DEF CommittedSound, PermissionsSound, permissionVars
<1>8. CommittedSound'
  BY <1>0, <1>4, <1>6, <1>7, UnitsKept DEF CommittedSound
<1>9. ASSUME NEW d \in Edits \ {c}, NEW f, f = edit[d]
      PROVE  ReadsHold(f)'
  <2>1. ReadsHold(f) /\ EditSound(f, locked[d])
    BY <1>9, ReadsAreLocked
  <2>2. CASE f.at = "WRITE" /\ f.op = "SUBSTITUTE"
    <3>1. f.wants = <<>>
      BY <2>1, <2>2 DEF EditSound
    <3>2. f.session # s
      BY <1>2, <1>9, <2>2, <3>1, EditsAreApart, ReadsAreLocked
    <3> QED BY <1>3, <1>4, <2>1, <2>2, <3>2 DEF ReadsHold, permissionVars
  <2>3. CASE ~(f.at = "WRITE" /\ f.op = "SUBSTITUTE")
    <3>1. \A q : q \in SessionsOf(f.teacher)' =>
            q \in SessionsOf(f.teacher) /\ CourseTaught(q)' = CourseTaught(q)
      BY <1>5 DEF SessionsOf
    <3> QED
      BY <1>4, <1>5, <2>1, <2>3, <3>1 DEF ReadsHold, permissionVars
  <2> QED BY <2>2, <2>3
<1> QED BY <1>4, <1>8, <1>9, EditCommits

(* A write of the permissions alone.                                       *)
LEMMA PermissionStep ==
  ASSUME TeachingInvariant, NEW c \in Edits, EndEdit(c),
         UNCHANGED <<unit, session>>, PermissionsSound',
         \A d \in Edits \ {c} : \A f :
           f = edit[d] /\ f.at = "WRITE" /\ f.op \in {"PUBLISH", "SUBSTITUTE"}
             => f.teacher \in teachersRole'
  PROVE  TeachingInvariant'
<1>1. CommittedSound'
  <2>1. SessionsSound'
    BY DEF TeachingInvariant, CommittedSound, SessionsSound, SessionRows,
           IdentityIsKept
  <2> QED BY <2>1, UnitsKept DEF TeachingInvariant, CommittedSound
<1>2. ASSUME NEW d \in Edits \ {c}, NEW f, f = edit[d] PROVE ReadsHold(f)'
  <2>1. ReadsHold(f)
    BY <1>2, ReadsAreLocked
  <2> QED
    BY <1>2, <2>1 DEF ReadsHold, Published, SessionsOf, CourseTaught
<1> QED BY <1>1, <1>2, EditCommits

LEMMA QualificationStep ==
  ASSUME TeachingInvariant, NEW c \in Edits,
         GrantQualification(c) \/ RemoveQualification(c)
  PROVE  TeachingInvariant'
<1>0. CommittedSound
  BY DEF TeachingInvariant
<1>1. PICK e, t, k : e = edit[c] /\ t = e.teacher /\ k = e.course
  OBVIOUS
<1>2. /\ EditSound(e, locked[c]) /\ ReadsHold(e)
      /\ e.op \in {"GRANT", "REMOVE"} /\ e.at = "WRITE"
  BY <1>1, ReadsAreLocked DEF GrantQualification, RemoveQualification, Ready
<1>3. t \in Teachers /\ k \in Courses
  <2>1. e \in EditRows
    BY <1>2 DEF EditSound, IsPlacement
  <2> QED BY <1>1, <1>2, <2>1 DEF EditRows
<1>4. UNCHANGED <<unit, session, teachersRole, off>> /\ EndEdit(c)
  BY DEF GrantQualification, RemoveQualification
<1>5. qualified' \subseteq Teachers \X Courses
  BY <1>0, <1>1, <1>3
     DEF CommittedSound, PermissionsSound, GrantQualification,
         RemoveQualification
<1>6. TeachersMayTeach'
  <2> SUFFICES ASSUME NEW s \in DOMAIN session
               PROVE  <<session[s].teacher, CourseTaught(s)>> \in qualified'
    BY <1>0, <1>4
       DEF CommittedSound, PermissionsSound, TeachersMayTeach, MayLead,
           CourseTaught
  <2>1. <<session[s].teacher, CourseTaught(s)>> \in qualified
    BY <1>0
       DEF CommittedSound, PermissionsSound, TeachersMayTeach, MayLead
  <2>2. CASE GrantQualification(c)
    BY <2>1, <2>2 DEF GrantQualification
  <2>3. CASE RemoveQualification(c)
    <3>1. e.op = "REMOVE"
      BY <1>1, <2>3 DEF RemoveQualification, Ready
    <3>2. <<session[s].teacher, CourseTaught(s)>> # <<t, k>>
      BY <1>1, <1>2, <3>1 DEF ReadsHold, SessionsOf
    <3> QED BY <1>1, <2>1, <2>3, <3>2 DEF RemoveQualification
  <2> QED BY <2>2, <2>3
<1>7. PermissionsSound'
  BY <1>0, <1>4, <1>5, <1>6 DEF CommittedSound, PermissionsSound, NobodyIsOff
<1>8. \A d \in Edits \ {c} : \A f :
        f = edit[d] /\ f.at = "WRITE" /\ f.op \in {"PUBLISH", "SUBSTITUTE"}
          => f.teacher \in teachersRole
  BY ReadsAreLocked DEF ReadsHold
<1> QED BY <1>4, <1>7, <1>8, PermissionStep

LEMMA RoleStep ==
  ASSUME TeachingInvariant, NEW c \in Edits, RemoveTeacherRole(c)
  PROVE  TeachingInvariant'
<1>0. CommittedSound
  BY DEF TeachingInvariant
<1>1. PICK e, t : e = edit[c] /\ t = e.teacher
  OBVIOUS
<1>2. /\ e.op = "REMOVE ROLE" /\ e.at = "WRITE" /\ ReadsHold(e)
      /\ <<"teacher", t>> \in locked[c]
  BY <1>1, ReadsAreLocked DEF RemoveTeacherRole, Ready
<1>3. /\ UNCHANGED <<unit, session, qualified, off>> /\ EndEdit(c)
      /\ teachersRole' = teachersRole \ {t}
  BY <1>1 DEF RemoveTeacherRole
<1>4. \A s \in DOMAIN session : session[s].teacher # t
  BY <1>1, <1>2 DEF ReadsHold, SessionsOf
<1>5. PermissionsSound'
  BY <1>0, <1>3, <1>4
     DEF CommittedSound, PermissionsSound, TeachersMayTeach, MayLead,
         CourseTaught, NobodyIsOff
<1>6. ASSUME NEW d \in Edits \ {c}, NEW f, f = edit[d], f.at = "WRITE",
             f.op \in {"PUBLISH", "SUBSTITUTE"}
      PROVE  f.teacher \in teachersRole'
  <2>1. ReadsHold(f) /\ EditSound(f, locked[d])
    BY <1>6, ReadsAreLocked
  <2>2. f.wants = <<>>
    BY <1>6, <2>1 DEF EditSound
  <2>3. f.teacher # t
    BY <1>2, <1>6, <2>2, EditsAreApart, ReadsAreLocked
  <2> QED BY <1>3, <1>6, <2>1, <2>3 DEF ReadsHold
<1> QED BY <1>3, <1>5, <1>6, PermissionStep

LEMMA ExceptionStep ==
  ASSUME TeachingInvariant, NEW c \in Edits,
         AddAvailabilityException(c) \/ RemoveAvailabilityException(c)
  PROVE  TeachingInvariant'
<1>0. CommittedSound
  BY DEF TeachingInvariant
<1>1. PICK e, x : e = edit[c] /\ x = e.exception
  OBVIOUS
<1>2. EditSound(e, locked[c]) /\ e.op \in {"ADD", "TAKE BACK"}
  BY <1>1, ReadsAreLocked
     DEF AddAvailabilityException, RemoveAvailabilityException, Ready
<1>3. x \in Exceptions
  <2>1. e \in EditRows \/ IsPlacement(e)
    BY <1>2 DEF EditSound
  <2>2. e.op # "PLACE"
    BY <1>2
  <2>3. e \in EditRows
    BY <2>1, <2>2 DEF IsPlacement
  <2> QED BY <1>1, <1>2, <2>3 DEF EditRows
<1>4. UNCHANGED <<unit, session, qualified, teachersRole>> /\ EndEdit(c)
  BY DEF AddAvailabilityException, RemoveAvailabilityException
<1>5. off' \subseteq off \cup {x} /\ (IsTaught(x) => off' \subseteq off)
  BY <1>1 DEF AddAvailabilityException, RemoveAvailabilityException
<1>6. NobodyIsOff'
  BY <1>0, <1>4, <1>5
     DEF CommittedSound, PermissionsSound, NobodyIsOff, IsTaught, SessionsOf
<1>7. PermissionsSound'
  BY <1>0, <1>3, <1>4, <1>5, <1>6
     DEF CommittedSound, PermissionsSound, TeachersMayTeach, MayLead,
         CourseTaught
<1>8. \A d \in Edits \ {c} : \A f :
        f = edit[d] /\ f.at = "WRITE" /\ f.op \in {"PUBLISH", "SUBSTITUTE"}
          => f.teacher \in teachersRole
  BY ReadsAreLocked DEF ReadsHold
<1> QED BY <1>4, <1>7, <1>8, PermissionStep

LEMMA TeachingInitSound ==
  TeachingInit => TeachingInvariant
<1> SUFFICES ASSUME TeachingInit PROVE TeachingInvariant
  OBVIOUS
<1>1. PICK n \in 0 .. MaxUnits, k \in Courses :
        unit = [u \in 1 .. n |-> NewUnit(k, u)]
  BY DEF TeachingInit, CurriculumInit
<1>2. n \in Nat /\ DOMAIN unit = 1 .. n
  BY <1>1, CurriculumAssumption
<1>3. \A u \in 1 .. n :
        /\ unit[u] \in UnitRows /\ unit[u].course = k /\ unit[u].order = u
        /\ unit[u].replacement = 0 /\ unit[u].identity = 0
  BY <1>1, <1>2 DEF NewUnit, UnitRows
<1>4. UnitsSound
  <2>1. ASSUME NEW j \in Courses
        PROVE  {unit[u].order : u \in UnitsIn(j)}
                 = 1 .. Cardinality(UnitsIn(j))
    <3>1. CASE j = k
      <4>1. UnitsIn(j) = 1 .. n
        BY <1>2, <1>3, <3>1 DEF UnitsIn
      <4>2. Cardinality(1 .. n) = n
        BY <1>2, FS_Interval
      <4>3. {unit[u].order : u \in 1 .. n} = 1 .. n
        BY <1>3
      <4> QED BY <4>1, <4>2, <4>3
    <3>2. CASE j # k
      <4>1. UnitsIn(j) = {}
        BY <1>2, <1>3, <3>2 DEF UnitsIn
      <4>2. Cardinality({}) = 0
        BY FS_EmptySet
      <4> QED BY <4>1, <4>2
    <3> QED BY <3>1, <3>2
  <2>2. CourseIsOrdered
    BY <2>1 DEF CourseIsOrdered
  <2>3. unit \in [1 .. n -> UnitRows]
    BY <1>1, <1>3
  <2> QED
    BY <1>2, <1>3, <2>2, <2>3 DEF UnitsSound, NoMutualReplacement
<1>5. PICK S \in SUBSET NewSessions :
        session \in [S -> [unit : DOMAIN unit, teacher : Teachers,
                           start : Starts, identity : {0}]]
  BY DEF TeachingInit
<1>6. SessionsSound
  <2>1. DOMAIN session = S /\ session \in [S -> SessionRows]
    BY <1>5 DEF SessionRows
  <2>2. IdentityIsKept
    BY <1>2, <1>3, <1>5 DEF IdentityIsKept
  <2> QED BY <2>1, <2>2 DEF SessionsSound
<1>7. PermissionsSound
  BY <1>5 DEF TeachingInit, PermissionsSound, TeachersMayTeach, MayLead,
              NobodyIsOff
<1>8. /\ edit = [c \in Edits |-> Unsent] /\ locked = [c \in Edits |-> {}]
      /\ EditSound(Unsent, {})
  BY DEF TeachingInit, CurriculumInit, EditSound, EditRows, Unsent,
         ClaimsLocks, ReadsHold
<1> QED
  BY <1>4, <1>6, <1>7, <1>8
     DEF TeachingInvariant, CommittedSound, TablesOfEdits

LEMMA TeachingStepSound ==
  TeachingInvariant /\ [TeachingNext]_teachingVars => TeachingInvariant'
<1> SUFFICES ASSUME TeachingInvariant, [TeachingNext]_teachingVars
             PROVE  TeachingInvariant'
  OBVIOUS
<1>1. CASE CurriculumNext /\ UNCHANGED permissionVars
  <2>1. PICK c \in Edits :
          \/ \E k \in Courses : AskToCreate(c, k)
          \/ \E u \in 1 .. MaxUnits :
               \/ \E n \in 0 .. MaxUnits + 1 : AskToPlace(c, u, n)
               \/ AskToRevise(c, u)
               \/ \E r \in Replacements : AskToRetire(c, u, r)
          \/ TakeLock(c) \/ Rollback(c)
          \/ CreateLessonUnit(c) \/ ListCourseUnits(c)
          \/ PlaceLessonUnitInCourse(c)
          \/ ReadPublished(c) \/ ReviseLessonUnitIdentity(c)
          \/ ReadReplacement(c) \/ RetireLessonUnit(c)
    BY <1>1 DEF CurriculumNext
  <2> QED
    BY <1>1, <2>1, CurriculumRequests, LockStep, RollbackStep, CreateStep,
       ListStep, PlaceStep, CurriculumReads, ReviseStep, RetireStep
<1>2. CASE UNCHANGED teachingVars
  <2>1. CommittedSound'
    BY <1>2, NothingWritten DEF TeachingInvariant, teachingVars, permissionVars
  <2>2. TablesOfEdits'
    BY <1>2 DEF TeachingInvariant, TablesOfEdits, teachingVars
  <2>3. ASSUME NEW c \in Edits PROVE EditSound(edit[c], locked[c])'
    <3>1. PICK e, held : e = edit[c] /\ held = locked[c]
      OBVIOUS
    <3>2. EditSound(e, held)'
      BY <1>2, <3>1, NothingWritten
         DEF TeachingInvariant, teachingVars, permissionVars
    <3>3. edit'[c] = e /\ locked'[c] = held
      BY <1>2, <3>1 DEF teachingVars
    <3> QED BY <3>2, <3>3
  <2> QED
    BY <1>2, <2>1, <2>2, <2>3 DEF TeachingInvariant, teachingVars
<1>3. CASE TeachingNext /\ ~(CurriculumNext /\ UNCHANGED permissionVars)
  <2>1. PICK c \in Edits :
          \/ \E t \in Teachers :
               \/ \E u \in 1 .. MaxUnits, start \in Starts :
                    AskToPublish(c, t, u, start)
               \/ \E s \in NewSessions : AskToSubstitute(c, s, t)
               \/ \E k \in Courses, op \in {"GRANT", "REMOVE"} :
                    AskToChange(c, op, t, k)
               \/ AskToRemoveRole(c, t)
          \/ \E s \in NewSessions :
               AskToCancel(c, s) \/ PublishClassSession(c, s)
          \/ \E x \in Exceptions, op \in {"ADD", "TAKE BACK"} :
               AskForException(c, op, x)
          \/ ReadForPublication(c) \/ ReadForSubstitution(c)
          \/ SubstituteTeacher(c) \/ CancelClassSession(c)
          \/ ReadForGrant(c) \/ GrantQualification(c)
          \/ ReadForRemoval(c) \/ RemoveQualification(c)
          \/ ReadAssignments(c) \/ RemoveTeacherRole(c)
          \/ ReadConflicts(c) \/ AddAvailabilityException(c)
          \/ RemoveAvailabilityException(c)
    BY <1>3 DEF TeachingNext
  <2> QED
    BY <2>1, TeachingRequests, TeachingReads, PublishStep, SubstituteStep,
       CancelStep, QualificationStep, RoleStep, ExceptionStep
<1> QED BY <1>1, <1>2, <1>3

LEMMA TeachingInvariantHolds ==
  TeachingSpec => []TeachingInvariant
BY TeachingInitSound, TeachingStepSound, PTL DEF TeachingSpec

(* Whatever Administrators and Teachers do at once, the units of a Course  *)
(* stay in order, two units never replace each other, no published session *)
(* changes its identity, and whoever teaches a session ahead may           *)
(* (curriculum-service.ts:259-371, class-session-disruption-service.ts:221).*)
THEOREM TeachingStaysSound ==
  TeachingSpec => []TeachingIsSound
<1>1. TeachingInvariant => TeachingIsSound
  BY DEF TeachingInvariant, CommittedSound, UnitsSound, SessionsSound,
         PermissionsSound, TeachingIsSound, CurriculumIsSound
<1> QED BY <1>1, TeachingInvariantHolds, PTL

(* A Teacher's Availability Exceptions and the sessions they teach share   *)
(* no instant, whichever was written first                                 *)
(* (0006_teacher_availability.sql:42-88).                                  *)
THEOREM ExceptionsStayFree ==
  TeachingSpec => []ExceptionsAreFree
<1>1. ASSUME TeachingInvariant PROVE ExceptionsAreFree
  <2> SUFFICES ASSUME NEW s \in DOMAIN session, NEW x \in off,
                      x.teacher = session[s].teacher
               PROVE  Lasts(x.from, x.to)
                        \cap Lasts(session[s].start, session[s].start + Span)
                        = {}
    BY DEF ExceptionsAreFree
  <2>1. session[s].start \in Nat
    BY <1>1, CommittedTyped DEF TeachingInvariant
  <2>2. x.from \in Nat /\ x.to \in Nat /\ Span \in Nat
    BY <1>1, TeachingAssumption
       DEF TeachingInvariant, CommittedSound, PermissionsSound
  <2>3. ~Meets(x, session[s].start)
    BY <1>1
       DEF TeachingInvariant, CommittedSound, PermissionsSound, NobodyIsOff
  <2> QED BY <2>1, <2>2, <2>3 DEF Meets, Lasts
<1> QED BY <1>1, TeachingInvariantHolds, PTL

=============================================================================
