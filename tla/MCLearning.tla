----------------------------- MODULE MCLearning -----------------------------
(* A small instance of the curriculum, of who teaches it and when, and of  *)
(* what happens after the sessions, for TLC.  The components write         *)
(* different tables and are examined one at a time; the transactions of    *)
(* Teaching are examined in six groups.                                   *)
EXTENDS Attendance, Cohorts, Feedback, Teaching, Availability, TLC

CONSTANTS u1, n1, n2, b1, b2, b3, s1, s2, s3, t1, t2, c1, m1, m2,
          d1, d2, d3, k1, k2, r1, r2, a1, h1, h2, w1, w2, w3, c2

\* Two sessions of one Lesson Unit, and the only session of another, which
\* ends with the second of them.
StudentOfBooking == [b \in {b1, b2, b3} |-> u1]
SessionOfBooking == [b \in {b1, b2, b3} |->
  CASE b = b1 -> s1 [] b = b2 -> s2 [] b = b3 -> s3]
UnitOfSession == [s \in {s1, s2, s3} |-> IF s = s3 THEN n2 ELSE n1]
EndOfSession == [s \in {s1, s2, s3} |-> IF s = s1 THEN 0 ELSE 1]

EndOfBooked == [b \in {b1} |-> 1]

\* It begins when a session started one instant earlier ends.
OneException == {[teacher |-> r1, from |-> 3, to |-> 5]}

AnHour == {0, Hour, -Hour}

\* Two of the names differ in their case alone.
WithoutCase == [w \in {w1, w2, w3} |-> IF w = w3 THEN w3 ELSE w1]

VARIABLE focus

learningVars ==
  <<focus, attendanceVars, cohortVars, feedbackVars, teachingVars, ranges,
    timeVars>>

\* The session of the other Lesson Unit was attended.
OtherUnitIsAttended ==
  \A t \in Transactions :
    b3 \in DOMAIN work'[t].new => work'[t].new[b3] = "ATTENDED"

\* The transactions that run at once in each group.
OpsOf(group) ==
  CASE group = "order" -> {"CREATE", "PLACE"}
    [] group = "retirement" -> {"CREATE", "RETIRE"}
    [] group = "identity" -> {"PUBLISH", "REVISE"}
    [] group = "assignment" ->
         {"PUBLISH", "SUBSTITUTE", "GRANT", "REMOVE"}
    [] group = "departure" -> {"SUBSTITUTE", "CANCEL", "GRANT", "REMOVE ROLE"}
    [] group = "exceptions" -> {"PUBLISH", "SUBSTITUTE", "ADD", "TAKE BACK"}
    [] OTHER -> {}

Groups ==
  {"order", "retirement", "identity", "assignment", "departure", "exceptions"}

\* The names of transactions are given in the order they begin.
InTurn ==
  /\ edit'[d1] = Unsent => edit'[d2] = Unsent
  /\ edit'[d2] = Unsent => edit'[d3] = Unsent

\* Three transactions, of which two run at once, or three retirements.
AtMostTwo ==
  Cardinality({c \in Edits : edit'[c] \notin {Unsent, Over}})
    <= IF focus = "retirement" THEN 3 ELSE 2

\* Groups that may begin with a session.
Occupied == {"assignment", "departure", "exceptions"}

\* Sessions are about the only unit of one Course.
TeachingBegins ==
  /\ TeachingInit
  /\ \A u \in DOMAIN unit : unit[u].course = k1
  /\ focus \notin Occupied => session = <<>>
  /\ focus \in Occupied \cup {"identity"} => DOMAIN unit = {1}
  /\ focus \notin Groups => unit = <<>>
  /\ qualified \subseteq Teachers \X {k1}
  /\ focus \notin {"assignment", "departure"} => qualified = Teachers \X {k1}

LearningInit ==
  /\ focus \in {"attendance", "cohorts", "names", "feedback", "availability",
                "time"}
               \cup Groups
  /\ AttendanceInit
  /\ CohortInit
  /\ focus # "names" => nameOf = [c \in Cohorts |-> IF c = c1 THEN w1 ELSE w3]
  /\ FeedbackInit
  /\ TeachingBegins
  /\ AvailabilityInit
  /\ TimeInit
  /\ focus # "time" =>
       /\ zone = [change |-> Day, shift |-> 0]
       /\ request = [kind |-> "SESSION", local |-> 0, choice |-> "REJECT",
                     hours |-> [from |-> 0, to |-> 1]]

LearningNext ==
  \/ /\ focus = "attendance"
     /\ AttendanceNext
     /\ OtherUnitIsAttended
     /\ UNCHANGED <<focus, cohortVars, feedbackVars, teachingVars, ranges,
                    timeVars>>
  \/ /\ focus \in {"cohorts", "names"}
     /\ CohortNext
     /\ IF focus = "names" THEN UNCHANGED <<now, memberships, endedAt>>
        ELSE UNCHANGED cohortNameVars
     /\ UNCHANGED <<focus, attendanceVars, feedbackVars, teachingVars, ranges,
                    timeVars>>
  \/ /\ focus = "feedback"
     /\ FeedbackNext
     /\ UNCHANGED <<focus, attendanceVars, cohortVars, teachingVars, ranges,
                    timeVars>>
  \/ /\ focus \in Groups
     /\ TeachingNext
     /\ \A c \in Edits : edit'[c].op \in OpsOf(focus) \cup {"NONE"}
     /\ InTurn /\ AtMostTwo
     /\ focus \in {"assignment", "departure"} =>
          \A c \in Edits : edit'[c].op \in {"GRANT", "REMOVE"} =>
            edit'[c].course = k1
     /\ UNCHANGED <<focus, attendanceVars, cohortVars, feedbackVars, ranges,
                    timeVars>>
  \/ /\ focus = "availability"
     /\ AvailabilityNext
     /\ UNCHANGED <<focus, attendanceVars, cohortVars, feedbackVars,
                    teachingVars, timeVars>>
  \/ /\ focus = "time"
     /\ TimeNext
     /\ UNCHANGED <<focus, attendanceVars, cohortVars, feedbackVars,
                    teachingVars, ranges>>

LearningSpec == LearningInit /\ [][LearningNext]_learningVars

LearningSymmetry ==
  Permutations(Transactions) \cup Permutations(Memberships)

=============================================================================
