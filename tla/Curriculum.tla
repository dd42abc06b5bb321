----------------------------- MODULE Curriculum -----------------------------
(***************************************************************************)
(* The Lesson Units of the curriculum while Platform Administrators edit   *)
(* them at the same time, and the row and advisory locks their             *)
(* transactions take.  A transaction takes its locks one after the other,  *)
(* in the order of its statements, reads what is committed, and writes: a  *)
(* write and its commit are one step, because only a lock held by another  *)
(* can hold it up.  Titles, summaries, objectives and topics are one value *)
(* that is counted up, the instructional identity.                         *)
(***************************************************************************)
EXTENDS Integers, FiniteSets, FiniteSetsExt, Sequences

CONSTANTS
  Edits,           \* transactions of Administrators and Teachers
  Courses,
  MaxUnits,        \* bound: Lesson Units, numbered in the order of their ids
  Replacements     \* bound: units a retirement may name, 0 for none

ASSUME CurriculumAssumption == MaxUnits \in Nat /\ Replacements \subseteq Nat

VARIABLES
  unit,            \* lesson_units
  session,         \* the PUBLISHED class_sessions
  edit,            \* the transaction of each request
  locked           \* the locks each transaction holds FOR UPDATE

Unsent == [op |-> "NONE", at |-> "UNSENT", wants |-> <<>>]
Over == [op |-> "NONE", at |-> "OVER", wants |-> <<>>]

UnitsIn(k) == {u \in DOMAIN unit : unit[u].course = k}
Published(u) == {s \in DOMAIN session : session[s].unit = u}

NewUnit(k, n) ==
  [course |-> k, order |-> n, state |-> "ACTIVE", identity |-> 0,
   replacement |-> 0]

\* A row inserted into a table.
Inserted(rows, id, row) ==
  [i \in DOMAIN rows \cup {id} |-> IF i = id THEN row ELSE rows[i]]

(* Transactions and locks *)

LockIsFree(c, lock) == \A d \in Edits \ {c} : lock \notin locked[d]

Request(c, e) ==
  /\ edit[c] = Unsent
  /\ edit' = [edit EXCEPT ![c] = e]
  /\ UNCHANGED <<unit, session, locked>>

TakeLock(c) ==
  /\ edit[c].wants # <<>>
  /\ LockIsFree(c, Head(edit[c].wants))
  /\ locked' = [locked EXCEPT ![c] = @ \cup {Head(edit[c].wants)}]
  /\ edit' = [edit EXCEPT ![c].wants = Tail(@)]
  /\ UNCHANGED <<unit, session>>

Ready(c, op, phase) ==
  edit[c].op = op /\ edit[c].at = phase /\ edit[c].wants = <<>>

\* The end of a transaction releases its locks.
EndEdit(c) ==
  /\ edit' = [edit EXCEPT ![c] = Over]
  /\ locked' = [locked EXCEPT ![c] = {}]

\* What was read allows the write, or the request is denied.
Decide(c, allowed) ==
  /\ IF allowed
     THEN edit' = [edit EXCEPT ![c].at = "WRITE"] /\ UNCHANGED locked
     ELSE EndEdit(c)
  /\ UNCHANGED <<unit, session>>

\* A transaction that is denied for another reason, is chosen to break a
\* deadlock, or loses its connection.
Rollback(c) ==
  /\ edit[c] \notin {Unsent, Over}
  /\ EndEdit(c)
  /\ UNCHANGED <<unit, session>>

(* Lesson Units and their order *)

AskToCreate(c, k) ==
  Request(c, [op |-> "CREATE", at |-> "WRITE", course |-> k,
              wants |-> << <<"course", k>> >>])

NextOrder(k) == 1 + Max({0} \cup {unit[u].order : u \in UnitsIn(k)})

CreateLessonUnit(c) ==
  /\ Ready(c, "CREATE", "WRITE")
  /\ Cardinality(DOMAIN unit) < MaxUnits
  /\ unit' = Inserted(unit, Cardinality(DOMAIN unit) + 1,
                      NewUnit(edit[c].course, NextOrder(edit[c].course)))
  /\ EndEdit(c)
  /\ UNCHANGED session

AskToPlace(c, u, n) ==
  /\ u \in DOMAIN unit
  /\ Request(c, [op |-> "PLACE", at |-> "UNITS", unit |-> u, order |-> n,
                 wants |-> << <<"course", unit[u].course>> >>])

\* In the order of their ids.
UnitLocks(k) ==
  SelectSeq([u \in 1 .. MaxUnits |-> <<"unit", u>>],
            LAMBDA lock : lock[2] \in UnitsIn(k))

\* With the Course locked, its units are locked.
ListCourseUnits(c) ==
  /\ Ready(c, "PLACE", "UNITS")
  /\ edit' = [edit EXCEPT ![c].at = "READ",
                          ![c].wants = UnitLocks(unit[edit[c].unit].course)]
  /\ UNCHANGED <<unit, session, locked>>

InCourse(n, k) == n \in 1 .. Cardinality(UnitsIn(k))

\* The units between the two places move over by one.
OrderAfter(w, u, n) ==
  LET from == unit[u].order IN LET mine == unit[w].order IN
  CASE w = u -> n
    [] w # u /\ n <= mine /\ mine < from -> mine + 1
    [] w # u /\ from < mine /\ mine <= n -> mine - 1
    [] OTHER -> mine

PlaceLessonUnitInCourse(c) ==
  LET u == edit[c].unit IN LET k == unit[u].course IN
  /\ Ready(c, "PLACE", "READ")
  /\ unit' = IF InCourse(edit[c].order, k)
             THEN [w \in DOMAIN unit |->
                    IF w \in UnitsIn(k)
                    THEN [unit[w] EXCEPT !.order =
                           OrderAfter(w, u, edit[c].order)]
                    ELSE unit[w]]
             ELSE unit
  /\ EndEdit(c)
  /\ UNCHANGED session

(* Instructional identity and retirement *)

\* Mutant: the unit is read without FOR UPDATE.
NoLocks(u) == <<>>

IdentityLocks(u) == << <<"unit", u>> >>

AskToRevise(c, u) ==
  /\ u \in DOMAIN unit
  /\ Request(c, [op |-> "REVISE", at |-> "READ", unit |-> u,
                 wants |-> IdentityLocks(u)])

ReadPublished(c) ==
  /\ Ready(c, "REVISE", "READ")
  /\ Decide(c, Published(edit[c].unit) = {})

ReviseLessonUnitIdentity(c) ==
  /\ Ready(c, "REVISE", "WRITE")
  /\ unit' = [unit EXCEPT ![edit[c].unit].identity = @ + 1]
  /\ EndEdit(c)
  /\ UNCHANGED session

AskToRetire(c, u, r) ==
  /\ u \in DOMAIN unit
  /\ Request(c, [op |-> "RETIRE", at |-> "READ", unit |-> u,
                 replacement |-> r, wants |-> << <<"unit", u>> >>])

\* The replacement is read without a lock.
MayReplace(u, r) ==
  r # 0 => /\ r \in DOMAIN unit /\ r # u
           /\ unit[r].course = unit[u].course /\ unit[r].state = "ACTIVE"

ReadReplacement(c) ==
  /\ Ready(c, "RETIRE", "READ")
  /\ Decide(c, MayReplace(edit[c].unit, edit[c].replacement))

\* The foreign key locks the replacement FOR KEY SHARE.
ReplacementIsFree(c, r) == LockIsFree(c, <<"unit", r>>)

RetireLessonUnit(c) ==
  /\ Ready(c, "RETIRE", "WRITE")
  /\ ReplacementIsFree(c, edit[c].replacement)
  /\ unit' = [unit EXCEPT ![edit[c].unit].state = "RETIRED",
                          ![edit[c].unit].replacement = edit[c].replacement]
  /\ EndEdit(c)
  /\ UNCHANGED session

CurriculumNext ==
  \E c \in Edits :
    \/ \E k \in Courses : AskToCreate(c, k)
    \/ \E u \in 1 .. MaxUnits :
         \/ \E n \in 0 .. MaxUnits + 1 : AskToPlace(c, u, n)
         \/ AskToRevise(c, u)
         \/ \E r \in Replacements : AskToRetire(c, u, r)
    \/ TakeLock(c) \/ Rollback(c)
    \/ CreateLessonUnit(c) \/ ListCourseUnits(c)
    \/ PlaceLessonUnitInCourse(c)
    \/ ReadPublished(c) \/ ReviseLessonUnitIdentity(c)
    \/ ReadReplacement(c) \/ RetireLessonUnit(c)

\* Lesson Units that were there before, in order.
CurriculumInit ==
  /\ \E n \in 0 .. MaxUnits, k \in Courses :
       unit = [u \in 1 .. n |-> NewUnit(k, u)]
  /\ edit = [c \in Edits |-> Unsent]
  /\ locked = [c \in Edits |-> {}]

-----------------------------------------------------------------------------
(* Properties *)

\* A published Class Session teaches the Lesson Unit it was published with,
\* although a revision looks for published sessions before it writes
\* (curriculum-service.ts:210).
IdentityIsKept ==
  \A s \in DOMAIN session :
    unit[session[s].unit].identity = session[s].identity

\* The units of a Course hold the places from 1 to their number, whichever
\* are created and placed at once (curriculum-service.ts:185, 235-243).
CourseIsOrdered ==
  \A k \in Courses :
    {unit[u].order : u \in UnitsIn(k)} = 1 .. Cardinality(UnitsIn(k))

\* Two units never replace each other, although a retirement does not lock
\* the replacement it reads (curriculum-service.ts:259).
NoMutualReplacement ==
  \A u \in DOMAIN unit :
    LET r == unit[u].replacement IN r # 0 => unit[r].replacement # u

\* What Administrators do to the curriculum at once leaves it in order.
CurriculumIsSound == IdentityIsKept /\ CourseIsOrdered /\ NoMutualReplacement

=============================================================================
