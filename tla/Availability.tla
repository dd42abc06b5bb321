---------------------------- MODULE Availability ----------------------------
(***************************************************************************)
(* When a Teacher is available.  First, the weekly, effective-dated ranges *)
(* of one weekday of one Teacher: other weekdays and Teachers have ranges  *)
(* of their own, and every change holds the lock of the Teacher's          *)
(* availability, so it is one step.  Then, what the local times of ranges  *)
(* and exceptions come to on the days around a change of the offset.       *)
(***************************************************************************)
EXTENDS Integers, FiniteSets, FiniteSetsExt

CONSTANTS
  Hours,           \* local start and end times
  LastDate,        \* bound: dates run from 1 to it
  Day,             \* slots of a day
  Hour,            \* slots of the 60 minutes of a session
  Changes,         \* instants the offset may change at
  Shifts           \* 0, an hour forward or an hour back; a day at most

ASSUME AvailabilityAssumption == LastDate \in Nat \ {0}

ASSUME LocalTimeAssumption ==
  /\ Day \in Nat \ {0} /\ Hour \in Nat \ {0}
  /\ Changes \subseteq Nat /\ Shifts \subseteq -Day .. Day

VARIABLE ranges    \* teacher_availability_ranges

Dates == 1 .. LastDate
Open == LastDate + 1            \* effective_until is null

Covers(r, d) == r.from <= d /\ d <= r.until
OfferedOn(d) == {r.hours : r \in {q \in ranges : Covers(q, d)}}

StartsAfter(from) == {r.from : r \in {q \in ranges : q.from > from}}

\* The day before the next schedule, or none.
LastDay(from) ==
  IF StartsAfter(from) = {} THEN Open ELSE Min(StartsAfter(from)) - 1

\* Mutant: a range that ends on the date itself is left as it is.
LastsBeyond(r, from) == r.from < from /\ r.until > from

IsCut(r, from) == r.from < from /\ r.until >= from

\* A range that exists with the same hours and date is refused by the unique
\* key, and nothing of the change stays.
SaveTeacherAvailabilityRange(hours, from) ==
  /\ \A r \in ranges : ~(r.hours = hours /\ r.from = from)
  /\ ranges' = {IF IsCut(r, from) THEN [r EXCEPT !.until = from - 1] ELSE r :
                  r \in ranges}
               \cup {[hours |-> hours, from |-> from, until |-> LastDay(from)]}

MayEnd(r, until) ==
  r.from <= until /\ \A n \in StartsAfter(r.from) : until < n

\* A range is ended, or what was ended goes on, within its schedule.
EndTeacherAvailabilityRange(r, until) ==
  /\ r \in ranges
  /\ MayEnd(r, until)
  /\ ranges' = (ranges \ {r}) \cup {[r EXCEPT !.until = until]}

AvailabilityInit == ranges = {}

AvailabilityNext ==
  \/ \E h \in Hours, d \in Dates : SaveTeacherAvailabilityRange(h, d)
  \/ \E r \in ranges, d \in Dates : EndTeacherAvailabilityRange(r, d)

AvailabilitySpec == AvailabilityInit /\ [][AvailabilityNext]_ranges

-----------------------------------------------------------------------------
(* Properties *)

\* On no date do two schedules hold: ranges that cover one date began on the
\* same day, in whichever order schedules were saved, ended and prolonged
\* (teacher-availability-service.ts:113-132, 247-257).
DatesHaveOneSchedule ==
  \A r, q \in ranges : \A d \in Dates :
    Covers(r, d) /\ Covers(q, d) => r.from = q.from

\* Dates keep one schedule, and a change concerns the schedule of one day on:
\* what is offered on earlier dates stays, and so does what later schedules
\* offer (teacher-availability-service.ts:123-132, 257).
SchedulesAreApart ==
  [][/\ DatesHaveOneSchedule'
     /\ \E from \in Dates : \A d \in Dates :
          OfferedOn(d)' # OfferedOn(d) =>
            /\ from <= d
            /\ \A r \in ranges : r.from <= from \/ d < r.from]_ranges

-----------------------------------------------------------------------------
(* Local times of a regional zone on the two days around a change of its   *)
(* offset, and what is scheduled by them: a Class Session within the hours *)
(* of an availability range, and an Availability Exception.  An instant is *)
(* a number; before the change the clock shows the number itself, from the *)
(* change on it has been put forward by shift, or back.                    *)

VARIABLES zone, request, answer

timeVars == <<zone, request, answer>>

Disambiguations == {"REJECT", "EARLIER", "LATER"}
Locals == 0 .. 2 * Day - 1

LocalOf(i) == IF i < zone.change THEN i ELSE i + zone.shift

(* Temporal *)

\* The local time under the offsets of both sides of the change.
Candidates(l) == {l, l - zone.shift}
InstantsAt(l) == {i \in Candidates(l) : LocalOf(i) = l}
Possible(l) == IF InstantsAt(l) = {} THEN Candidates(l) ELSE InstantsAt(l)
Earlier(l) == Min(Possible(l))
Later(l) == Max(Possible(l))

(* Resolution *)

IsGap(l) == LocalOf(Earlier(l)) # l /\ LocalOf(Later(l)) # l

Outcome(l, choice) ==
  IF IsGap(l) THEN "GAP"
  ELSE IF Earlier(l) # Later(l) /\ choice = "REJECT" THEN "FOLD" ELSE "FOUND"

Resolved(l, choice) == IF choice = "LATER" THEN Later(l) ELSE Earlier(l)

DateOf(l) == l \div Day
TimeOf(l) == l % Day

\* Mutant: the end may be on the next day.
EndsSometime(l, end) == TRUE

EndsSameDay(l, end) == DateOf(l) = DateOf(end)

\* The range of the weekday is in the zone of the session.
Fits(l, end, hours) ==
  /\ hours.from <= TimeOf(l) /\ TimeOf(end) <= hours.to
  /\ hours.to - hours.from >= Hour
  /\ EndsSameDay(l, end)

Answered(outcome) == [outcome |-> outcome]
Unanswered == Answered("NONE")
Placed(start, end) == [outcome |-> "PLACED", starts |-> start, ends |-> end]

PublishAt ==
  LET r == request IN
  LET start == Resolved(r.local, r.choice) IN
  /\ r.kind = "SESSION" /\ answer = Unanswered
  /\ answer' = IF Outcome(r.local, r.choice) # "FOUND"
               THEN Answered(Outcome(r.local, r.choice))
               ELSE IF Fits(r.local, LocalOf(start + Hour), r.hours)
                    THEN Placed(start, start + Hour)
                    ELSE Answered("UNAVAILABLE")
  /\ UNCHANGED <<zone, request>>

\* The table requires of the local times what the service requires of the
\* instants: in a fold the insertion may fail.
ExceptBetween ==
  LET r == request IN
  LET start == Resolved(r.local, r.choice)
      end == Resolved(r.until, r.choiceOfEnd) IN
  /\ r.kind = "EXCEPTION" /\ answer = Unanswered
  /\ answer' = CASE Outcome(r.local, r.choice) # "FOUND" ->
                      Answered(Outcome(r.local, r.choice))
                 [] /\ Outcome(r.local, r.choice) = "FOUND"
                    /\ Outcome(r.until, r.choiceOfEnd) # "FOUND" ->
                      Answered(Outcome(r.until, r.choiceOfEnd))
                 [] OTHER ->
                      IF start >= end THEN Answered("INVALID")
                      ELSE IF r.local >= r.until THEN Answered("FAILED")
                      ELSE Placed(start, end)
  /\ UNCHANGED <<zone, request>>

WorkingHours ==
  {h \in [from : 0 .. Day - 1, to : 0 .. Day - 1] : h.from < h.to}

TimeInit ==
  /\ zone \in [change : Changes, shift : Shifts]
  /\ answer = Unanswered
  /\ \/ request \in [kind : {"SESSION"}, local : Locals,
                     choice : Disambiguations, hours : WorkingHours]
     \/ request \in [kind : {"EXCEPTION"}, local : Locals, until : Locals,
                     choice : Disambiguations, choiceOfEnd : Disambiguations]

TimeNext == PublishAt \/ ExceptBetween

TimeSpec == TimeInit /\ [][TimeNext]_timeVars

-----------------------------------------------------------------------------
(* Properties *)

Asked ==
  IF request.kind = "SESSION" THEN {request.local}
  ELSE {request.local, request.until}

IsPlaced == answer.outcome = "PLACED"

\* The clock of the zone shows the times that were asked for at the instants
\* that were stored, and a time that exists once is never refused
\* (ADR 0005, line 3; teacher-availability-time.ts:20-25).
TimesAreNeverShifted ==
  /\ IsPlaced => /\ LocalOf(answer.starts) = request.local
                 /\ request.kind = "EXCEPTION" =>
                      LocalOf(answer.ends) = request.until
  /\ answer.outcome = "GAP" =>
       \E l \in Asked : \A i \in -Day .. 3 * Day : LocalOf(i) # l
  /\ answer.outcome = "FOLD" =>
       \E l \in Asked :
         Cardinality({i \in -Day .. 3 * Day : LocalOf(i) = l}) = 2

\* A published session lies between the first instant at which the clock
\* shows the start of the range on its date and the last instant at which it
\* shows the end, on either side of a change
\* (class-session-service.ts:150-166).
SessionsFitHours ==
  IsPlaced /\ request.kind = "SESSION" =>
    LET midnight == DateOf(request.local) * Day IN
    /\ Earlier(midnight + request.hours.from) <= answer.starts
    /\ answer.ends <= Later(midnight + request.hours.to)

\* What is scheduled by local times is where the clock shows them.
LocalTimesAreKept == TimesAreNeverShifted /\ SessionsFitHours

=============================================================================
