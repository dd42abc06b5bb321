------------------------------ MODULE Teaching ------------------------------
(***************************************************************************)
(* Who may teach what and when: publication, substitution and cancellation *)
(* of Class Sessions, Teacher Qualifications, the Teacher role and         *)
(* Availability Exceptions, as transactions that run at once with those of *)
(* the curriculum.  Several of them take different locks: the triggers of  *)
(* class_sessions and availability_exceptions are part of the writes.  A   *)
(* Course stands for its target language and Curriculum Level.  What a     *)
(* publication reads besides these tables only denies it (Rollback), and   *)
(* every session still lies ahead.                                         *)
(***************************************************************************)
EXTENDS Curriculum

CONSTANTS
  Teachers,
  Starts,          \* instants a session may start at
  Span,            \* the 60 minutes of a session, in those instants
  Exceptions,      \* [teacher, from, to], from the first instant to the last
  NewSessions      \* bound: sessions, by name

ASSUME TeachingAssumption ==
  /\ Starts \subseteq Nat /\ Span \in Nat \ {0}
  /\ Exceptions \subseteq [teacher : Teachers, from : Nat, to : Nat]
  /\ \A x \in Exceptions : x.from < x.to

VARIABLES
  qualified,       \* teacher_qualifications: Teacher and Course
  teachersRole,    \* Users with the TEACHER Role Assignment
  off              \* availability_exceptions that are not removed

teachingVars == <<unit, session, edit, locked, qualified, teachersRole, off>>
permissionVars == <<qualified, teachersRole, off>>

CourseTaught(s) == unit[session[s].unit].course
SessionsOf(t) == {s \in DOMAIN session : session[s].teacher = t}

\* Mutant: only the start of the session is looked for.
StartsIn(x, start) == x.from <= start /\ start < x.to

Meets(x, start) == x.from < start + Span /\ x.to > start

IsOff(t, start) == \E x \in off : x.teacher = t /\ Meets(x, start)

\* schedule_commitments of a Teacher are those of the sessions.
HasConflict(t, start, except) ==
  \E s \in SessionsOf(t) \ except :
    session[s].start < start + Span /\ start < session[s].start + Span

MayLead(t, k) == <<t, k>> \in qualified /\ t \in teachersRole

\* The trigger locks the Teacher Qualification FOR KEY SHARE.
GrantIsFree(c, t, k) == LockIsFree(c, <<"granted", t, k>>)

\* Both triggers of class_sessions accept the Teacher.
TriggersAccept(t, k, start) == ~IsOff(t, start) /\ <<t, k>> \in qualified

(* Class Sessions *)

AskToPublish(c, t, u, start) ==
  /\ u \in DOMAIN unit
  /\ Request(c, [op |-> "PUBLISH", at |-> "READ", teacher |-> t, unit |-> u,
       start |-> start,
       wants |-> << <<"teacher", t>>, <<"unit", u>>,
                    <<"course", unit[u].course>>,
                    <<"grant", t, unit[u].course>> >>])
  /\ UNCHANGED permissionVars

ReadForPublication(c) ==
  LET e == edit[c] IN
  /\ Ready(c, "PUBLISH", "READ")
  /\ Decide(c, /\ unit[e.unit].state = "ACTIVE"
               /\ MayLead(e.teacher, unit[e.unit].course)
               /\ ~IsOff(e.teacher, e.start)
               /\ ~HasConflict(e.teacher, e.start, {}))
  /\ UNCHANGED permissionVars

PublishClassSession(c, s) ==
  LET e == edit[c] IN LET k == unit[e.unit].course IN
  /\ Ready(c, "PUBLISH", "WRITE")
  /\ s \notin DOMAIN session
  /\ GrantIsFree(c, e.teacher, k)
  /\ session' = IF TriggersAccept(e.teacher, k, e.start)
                THEN Inserted(session, s,
                       [unit |-> e.unit, teacher |-> e.teacher,
                        start |-> e.start,
                        identity |-> unit[e.unit].identity])
                ELSE session
  /\ EndEdit(c)
  /\ UNCHANGED <<unit, permissionVars>>

\* The row locks of the query are those of every table it joins.
AskToSubstitute(c, s, t) ==
  /\ s \in DOMAIN session
  /\ Request(c, [op |-> "SUBSTITUTE", at |-> "READ", teacher |-> t,
       session |-> s,
       wants |-> << <<"teacher", t>>, <<"session", s>>,
                    <<"unit", session[s].unit>>,
                    <<"course", CourseTaught(s)>> >>])
  /\ UNCHANGED permissionVars

ReadForSubstitution(c) ==
  LET e == edit[c] IN
  /\ Ready(c, "SUBSTITUTE", "READ")
  /\ Decide(c, /\ e.session \in DOMAIN session
               /\ e.teacher # session[e.session].teacher
               /\ MayLead(e.teacher, CourseTaught(e.session))
               /\ ~HasConflict(e.teacher, session[e.session].start,
                               {e.session}))
  /\ UNCHANGED permissionVars

SubstituteTeacher(c) ==
  LET e == edit[c] IN
  /\ Ready(c, "SUBSTITUTE", "WRITE")
  /\ GrantIsFree(c, e.teacher, CourseTaught(e.session))
  /\ session' = IF TriggersAccept(e.teacher, CourseTaught(e.session),
                                  session[e.session].start)
                THEN [session EXCEPT ![e.session].teacher = e.teacher]
                ELSE session
  /\ EndEdit(c)
  /\ UNCHANGED <<unit, permissionVars>>

AskToCancel(c, s) ==
  /\ s \in DOMAIN session
  /\ Request(c, [op |-> "CANCEL", at |-> "WRITE", session |-> s,
                 wants |-> << <<"session", s>> >>])
  /\ UNCHANGED permissionVars

\* The curriculum trigger locks the unit of a cancelled session too.
CancelClassSession(c) ==
  LET s == edit[c].session IN
  /\ Ready(c, "CANCEL", "WRITE")
  /\ s \in DOMAIN session => LockIsFree(c, <<"unit", session[s].unit>>)
  /\ session' = [q \in DOMAIN session \ {s} |-> session[q]]
  /\ EndEdit(c)
  /\ UNCHANGED <<unit, permissionVars>>

(* Teacher Qualifications and the Teacher role *)

\* Mutant: the qualification is read without FOR UPDATE.
AdvisoryOnly(t, k) == << <<"grant", t, k>> >>

QualificationLocks(t, k) == << <<"grant", t, k>>, <<"granted", t, k>> >>

AskToChange(c, op, t, k) ==
  /\ Request(c, [op |-> op, at |-> "READ", teacher |-> t, course |-> k,
                 wants |-> QualificationLocks(t, k)])
  /\ UNCHANGED permissionVars

ReadForGrant(c) ==
  LET e == edit[c] IN
  /\ Ready(c, "GRANT", "READ")
  /\ Decide(c, <<e.teacher, e.course>> \notin qualified
               /\ e.teacher \in teachersRole)
  /\ UNCHANGED permissionVars

GrantQualification(c) ==
  /\ Ready(c, "GRANT", "WRITE")
  /\ qualified' = qualified \cup {<<edit[c].teacher, edit[c].course>>}
  /\ EndEdit(c)
  /\ UNCHANGED <<unit, session, teachersRole, off>>

\* Every future session of the Teacher in the Course has to be resolved.
ReadForRemoval(c) ==
  LET e == edit[c] IN
  /\ Ready(c, "REMOVE", "READ")
  /\ Decide(c, /\ <<e.teacher, e.course>> \in qualified
               /\ \A s \in SessionsOf(e.teacher) : CourseTaught(s) # e.course)
  /\ UNCHANGED permissionVars

RemoveQualification(c) ==
  /\ Ready(c, "REMOVE", "WRITE")
  /\ GrantIsFree(c, edit[c].teacher, edit[c].course)
  /\ qualified' = qualified \ {<<edit[c].teacher, edit[c].course>>}
  /\ EndEdit(c)
  /\ UNCHANGED <<unit, session, teachersRole, off>>

AskToRemoveRole(c, t) ==
  /\ Request(c, [op |-> "REMOVE ROLE", at |-> "READ", teacher |-> t,
                 wants |-> << <<"teacher", t>> >>])
  /\ UNCHANGED permissionVars

\* The sessions are read FOR UPDATE: one that is being given away is waited
\* for.
ReadAssignments(c) ==
  /\ Ready(c, "REMOVE ROLE", "READ")
  /\ \A s \in SessionsOf(edit[c].teacher) : LockIsFree(c, <<"session", s>>)
  /\ Decide(c, SessionsOf(edit[c].teacher) = {})
  /\ UNCHANGED permissionVars

RemoveTeacherRole(c) ==
  /\ Ready(c, "REMOVE ROLE", "WRITE")
  /\ teachersRole' = teachersRole \ {edit[c].teacher}
  /\ EndEdit(c)
  /\ UNCHANGED <<unit, session, qualified, off>>

(* Availability Exceptions *)

AskForException(c, op, x) ==
  /\ Request(c, [op |-> op, at |-> "READ", exception |-> x,
                 wants |-> << <<"teacher", x.teacher>> >>])
  /\ UNCHANGED permissionVars

IsTaught(x) ==
  \E s \in SessionsOf(x.teacher) : Meets(x, session[s].start)

ReadConflicts(c) ==
  /\ Ready(c, "ADD", "READ")
  /\ Decide(c, ~IsTaught(edit[c].exception))
  /\ UNCHANGED permissionVars

\* The trigger looks once more, under the lock the transaction holds.
AddAvailabilityException(c) ==
  LET x == edit[c].exception IN
  /\ Ready(c, "ADD", "WRITE")
  /\ off' = IF IsTaught(x) THEN off ELSE off \cup {x}
  /\ EndEdit(c)
  /\ UNCHANGED <<unit, session, qualified, teachersRole>>

RemoveAvailabilityException(c) ==
  /\ Ready(c, "TAKE BACK", "READ")
  /\ off' = off \ {edit[c].exception}
  /\ EndEdit(c)
  /\ UNCHANGED <<unit, session, qualified, teachersRole>>

TeachingNext ==
  \/ CurriculumNext /\ UNCHANGED permissionVars
  \/ \E c \in Edits :
       \/ \E t \in Teachers :
            \/ \E u \in 1 .. MaxUnits, start \in Starts :
                 AskToPublish(c, t, u, start)
            \/ \E s \in NewSessions : AskToSubstitute(c, s, t)
            \/ \E k \in Courses, op \in {"GRANT", "REMOVE"} :
                 AskToChange(c, op, t, k)
            \/ AskToRemoveRole(c, t)
       \/ \E s \in NewSessions : AskToCancel(c, s) \/ PublishClassSession(c, s)
       \/ \E x \in Exceptions, op \in {"ADD", "TAKE BACK"} :
            AskForException(c, op, x)
       \/ ReadForPublication(c) \/ ReadForSubstitution(c)
       \/ SubstituteTeacher(c) \/ CancelClassSession(c)
       \/ ReadForGrant(c) \/ GrantQualification(c)
       \/ ReadForRemoval(c) \/ RemoveQualification(c)
       \/ ReadAssignments(c) \/ RemoveTeacherRole(c)
       \/ ReadConflicts(c) \/ AddAvailabilityException(c)
       \/ RemoveAvailabilityException(c)

\* Nobody is off, and whoever teaches a session may.
TeachingInit ==
  /\ CurriculumInit
  /\ qualified \in SUBSET (Teachers \X Courses)
  /\ teachersRole = Teachers
  /\ off = {}
  /\ \E S \in SUBSET NewSessions :
       session \in [S -> [unit : DOMAIN unit, teacher : Teachers,
                          start : Starts, identity : {0}]]
  /\ \A s \in DOMAIN session :
       /\ <<session[s].teacher, CourseTaught(s)>> \in qualified
       /\ ~HasConflict(session[s].teacher, session[s].start, {s})

TeachingSpec == TeachingInit /\ [][TeachingNext]_teachingVars

-----------------------------------------------------------------------------
(* Properties *)

\* Whoever teaches a future session is a Teacher with the qualification for
\* it, although a substitution takes no lock of the qualification
\* (class-session-disruption-service.ts:221; ADR 0055, line 3).
TeachersMayTeach ==
  \A s \in DOMAIN session : MayLead(session[s].teacher, CourseTaught(s))

\* Concurrent changes of the curriculum, of qualifications and of sessions,
\* whose reads are not all under a lock, leave a curriculum in order and only
\* qualified Teachers in the sessions ahead (curriculum-service.ts:259-371).
TeachingIsSound == CurriculumIsSound /\ TeachersMayTeach

Lasts(from, to) == from .. (to - 1)

\* No session of a Teacher shares an instant with an Availability Exception
\* of theirs, whichever came first (0006_teacher_availability.sql:42-88).
ExceptionsAreFree ==
  \A s \in DOMAIN session : \A x \in off :
    x.teacher = session[s].teacher =>
      Lasts(x.from, x.to)
        \cap Lasts(session[s].start, session[s].start + Span) = {}

=============================================================================
