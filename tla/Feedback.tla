------------------------------ MODULE Feedback ------------------------------
(***************************************************************************)
(* What Teacher and Student write about an attended Booking: the Teacher's *)
(* Learning Feedback, a draft until it is submitted, and the Student's     *)
(* Session Rating.  Both may be written while a window is open that starts *)
(* when the session ends, or when a correction makes the Booking attended; *)
(* an Administrator may redact either, and the anonymization of the        *)
(* Student redacts both.  Each operation holds an advisory lock for its    *)
(* Booking and is one step.                                                *)
(***************************************************************************)
EXTENDS Integers

CONSTANTS
  Booked,           \* the Bookings of one Student
  SessionEnd,       \* classSessionEndsAt of each
  FeedbackWindow,   \* 48 hours
  RatingWindow,     \* seven days
  MaxRedactions,    \* bound: redactions of each row
  LastTime          \* bound: the clock

ASSUME FeedbackAssumption ==
  /\ SessionEnd \in [Booked -> Nat]
  /\ FeedbackWindow \in Nat /\ RatingWindow \in Nat
  /\ MaxRedactions \in Nat /\ LastTime \in Nat

VARIABLES
  time,
  attendance,       \* the effective outcome, and when it was last corrected
  feedback,         \* learning_feedback
  rating,           \* session_ratings
  anonymized,       \* whether the Student's User is anonymized
  announced         \* notifications sent about the feedback of a Booking

feedbackVars == <<time, attendance, feedback, rating, anonymized, announced>>

NoTime == -1
States == {"NONE", "DRAFT", "SUBMITTED"}
Texts == {"EMPTY", "WRITTEN", "REDACTED"}

NoFeedback == [state |-> "NONE", submittedAt |-> NoTime, text |-> "EMPTY",
               redactions |-> 0]
NoRating == [text |-> "EMPTY", redactions |-> 0]

FeedbackInit ==
  /\ time = 0
  /\ attendance = [b \in Booked |->
       [outcome |-> "UNRECORDED", correctedAt |-> NoTime]]
  /\ feedback = [b \in Booked |-> NoFeedback]
  /\ rating = [b \in Booked |-> NoRating]
  /\ anonymized = FALSE
  /\ announced = [b \in Booked |->
       [submission |-> 0, teacherRedaction |-> 0, studentRedaction |-> 0]]

\* bookingFeedbackContext
EligibleFrom(b) ==
  IF attendance[b].correctedAt # NoTime /\ attendance[b].outcome = "ATTENDED"
  THEN attendance[b].correctedAt ELSE SessionEnd[b]

WindowIsOpen(b, length) ==
  /\ attendance[b].outcome = "ATTENDED"
  /\ time <= EligibleFrom(b) + length

\* Mutant: no trigger guards what is written about a former Student.
MayBeWrittenAlways == TRUE

\* prevent_private_data_for_anonymized_user raises under the Student's lock.
MayBeWritten == ~anonymized

Attend(b, outcome) ==
  /\ SessionEnd[b] <= time
  /\ attendance[b].outcome # outcome
  /\ attendance' = [attendance EXCEPT ![b] =
       [outcome |-> outcome,
        correctedAt |-> IF @.outcome = "UNRECORDED" THEN NoTime ELSE time]]
  /\ UNCHANGED <<time, feedback, rating, anonymized, announced>>

\* Mutant: what is saved is what the input says.
StateOfInput(b, submit) == IF submit THEN "SUBMITTED" ELSE "DRAFT"

\* Feedback once submitted stays submitted.
SavedState(b, submit) ==
  IF submit \/ feedback[b].state = "SUBMITTED" THEN "SUBMITTED" ELSE "DRAFT"

SaveLearningFeedback(b, submit) ==
  LET state == SavedState(b, submit)
      first == state = "SUBMITTED" /\ feedback[b].state # "SUBMITTED"
      submittedAt == IF state = "DRAFT" THEN NoTime
                     ELSE IF feedback[b].submittedAt # NoTime
                     THEN feedback[b].submittedAt ELSE time
  IN /\ WindowIsOpen(b, FeedbackWindow)
     /\ MayBeWritten
     /\ feedback' = [feedback EXCEPT ![b] =
          [state |-> state, submittedAt |-> submittedAt, text |-> "WRITTEN",
           redactions |-> @.redactions]]
     /\ announced' = IF first
                     THEN [announced EXCEPT ![b].submission = @ + 1]
                     ELSE announced
     /\ UNCHANGED <<time, attendance, rating, anonymized>>

\* What a redaction leaves of a row.
RedactedFeedback(row) ==
  [state |-> row.state, submittedAt |-> row.submittedAt,
   text |-> "REDACTED", redactions |-> row.redactions + 1]
RedactedRating(row) == [text |-> "REDACTED", redactions |-> row.redactions + 1]

TellsStudent(b) == feedback[b].state = "SUBMITTED"

RedactLearningFeedback(b) ==
  /\ feedback[b].state # "NONE"
  /\ feedback[b].redactions < MaxRedactions
  /\ MayBeWritten
  /\ feedback' = [feedback EXCEPT ![b] = RedactedFeedback(@)]
  /\ announced' = [announced EXCEPT ![b] =
       [submission |-> @.submission,
        teacherRedaction |-> @.teacherRedaction + 1,
        studentRedaction |->
          @.studentRedaction + (IF TellsStudent(b) THEN 1 ELSE 0)]]
  /\ UNCHANGED <<time, attendance, rating, anonymized>>

SaveSessionRating(b) ==
  /\ MayBeWritten
  /\ WindowIsOpen(b, RatingWindow)
  /\ rating' = [rating EXCEPT ![b].text = "WRITTEN"]
  /\ UNCHANGED <<time, attendance, feedback, anonymized, announced>>

RedactSessionRatingComment(b) ==
  /\ rating[b].text # "EMPTY"
  /\ rating[b].redactions < MaxRedactions
  /\ MayBeWritten
  /\ rating' = [rating EXCEPT ![b] = RedactedRating(@)]
  /\ UNCHANGED <<time, attendance, feedback, anonymized, announced>>

MayAnonymize == ~anonymized

\* What anonymizeUser does to feedback and ratings: no notification is sent.
RedactForAnonymization ==
  /\ MayAnonymize
  /\ anonymized' = TRUE
  /\ feedback' = [b \in Booked |->
       IF feedback[b].state = "NONE" THEN feedback[b]
       ELSE RedactedFeedback(feedback[b])]
  /\ rating' = [b \in Booked |->
       IF rating[b].text = "EMPTY" THEN rating[b]
       ELSE RedactedRating(rating[b])]
  /\ UNCHANGED <<time, attendance, announced>>

FeedbackTick ==
  /\ time < LastTime
  /\ time' = time + 1
  /\ UNCHANGED <<attendance, feedback, rating, anonymized, announced>>

FeedbackNext ==
  \/ \E b \in Booked, outcome \in {"ATTENDED", "NO_SHOW"} : Attend(b, outcome)
  \/ \E b \in Booked, submit \in BOOLEAN : SaveLearningFeedback(b, submit)
  \/ \E b \in Booked : RedactLearningFeedback(b)
  \/ \E b \in Booked : SaveSessionRating(b)
  \/ \E b \in Booked : RedactSessionRatingComment(b)
  \/ RedactForAnonymization
  \/ FeedbackTick

FeedbackSpec == FeedbackInit /\ [][FeedbackNext]_feedbackVars

----------------------------------------------------------------------------
(* Properties.                                                             *)

\* Every row of the model has its shape.
FeedbackTypeOK ==
  /\ time \in 0 .. LastTime
  /\ attendance \in [Booked ->
       [outcome : {"UNRECORDED", "ATTENDED", "NO_SHOW"},
        correctedAt : 0 .. LastTime \cup {NoTime}]]
  /\ feedback \in [Booked ->
       [state : States, submittedAt : 0 .. LastTime \cup {NoTime},
        text : Texts, redactions : 0 .. MaxRedactions + 1]]
  /\ rating \in [Booked -> [text : Texts, redactions : 0 .. MaxRedactions + 1]]
  /\ anonymized \in BOOLEAN
  /\ announced \in [Booked -> [submission : Nat, teacherRedaction : Nat,
                               studentRedaction : Nat]]

\* The Student is told of feedback once, when it is first submitted, through
\* any number of drafts, revisions, corrections of attendance that hide and
\* reopen it, and redactions; and is never told that feedback was redacted
\* which they were never told of.
SubmissionAnnouncedOnce ==
  \A b \in Booked :
    /\ announced[b].submission =
         IF feedback[b].state = "SUBMITTED" THEN 1 ELSE 0
    /\ (feedback[b].submittedAt # NoTime) <=> (feedback[b].state = "SUBMITTED")
    /\ announced[b].studentRedaction > 0 => announced[b].submission = 1

\* No private feedback about a Student is left once they are anonymized, and
\* what a Teacher writes or an Administrator redacts meanwhile leaves none.
FormerStudentIsRedacted ==
  anonymized =>
    \A b \in Booked : feedback[b].text # "WRITTEN" /\ rating[b].text # "WRITTEN"

\* What a Student is told of their feedback and what is left of it agree with
\* what was decided about it.
FeedbackIsAccountable ==
  FeedbackTypeOK /\ SubmissionAnnouncedOnce /\ FormerStudentIsRedacted

=============================================================================
