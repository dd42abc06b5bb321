------------------------------ MODULE Cohorts ------------------------------
(***************************************************************************)
(* The Cohorts an Organization sorts its sponsored Students into, for one  *)
(* Sponsorship: a membership covers the instants [from, until), begins and *)
(* ends no earlier than now, and no longer than the Sponsorship that       *)
(* authorizes the report.  Adding a membership locks the Sponsorship, as   *)
(* ending the Sponsorship does; ending a membership locks nothing before   *)
(* it writes what it decided from an earlier read.  A Cohort is created or *)
(* renamed in two steps, of which the second finds the unique index.       *)
(***************************************************************************)
EXTENDS Integers, FiniteSets, FiniteSetsExt

CONSTANTS
  Cohorts,          \* the Cohorts of the Organization
  CohortNames, CanonicalName, \* names, and names without their case
  Memberships,      \* bound: the memberships ever recorded
  CohortLag,        \* bound: how far behind a transaction's clock may be
  LastInstant       \* bound: the clock and the instants managers name

ASSUME CohortAssumption ==
  /\ IsFiniteSet(Memberships)
  /\ DOMAIN CanonicalName = CohortNames
  /\ CohortLag \in Nat /\ LastInstant \in Nat

VARIABLES
  nameOf,           \* cohorts.name
  naming,           \* names found free but not yet written
  now,              \* the clock
  memberships,      \* cohort_memberships, or that there is none
  endedAt,          \* sponsorships.ended_at, Never while it is ACTIVE
  endings           \* membership ends decided but not yet written

cohortNameVars == <<nameOf, naming>>
cohortVars == <<cohortNameVars, now, memberships, endedAt, endings>>

Never == LastInstant + 2
NoMembership == [cohort |-> "none", from |-> Never, until |-> Never]
NoEnding == [until |-> Never, at |-> Never]

Unnamed == "UNNAMED"
Created == {c \in Cohorts : nameOf[c] # Unnamed}
SameName(a, b) == CanonicalName[a] = CanonicalName[b]

\* Some Cohorts are there from the beginning.
CohortInit ==
  /\ nameOf \in [Cohorts -> CohortNames \cup {Unnamed}]
  /\ \A c, d \in Created : c # d => ~SameName(nameOf[c], nameOf[d])
  /\ naming = [c \in Cohorts |-> Unnamed]
  /\ now = 0
  /\ memberships = [m \in Memberships |-> NoMembership]
  /\ endedAt = Never
  /\ endings = [m \in Memberships |-> NoEnding]

\* nameIsTaken, by another Cohort.
NameIsTaken(c, name) ==
  \E d \in Created \ {c} : SameName(nameOf[d], name)

\* createCohort and renameCohort up to the statement that writes.
ChooseName(c, name) ==
  /\ naming[c] = Unnamed
  /\ ~NameIsTaken(c, name)
  /\ naming' = [naming EXCEPT ![c] = name]
  /\ UNCHANGED <<nameOf, now, memberships, endedAt, endings>>

\* Mutant: what was free when it was looked up is free.
WasFree(c) == TRUE

\* cohorts_organization_name_idx
IsFree(c) == ~NameIsTaken(c, naming[c])

\* A statement that breaks the index raises, and nothing is written.
WriteName(c) ==
  /\ naming[c] # Unnamed
  /\ nameOf' = IF IsFree(c) THEN [nameOf EXCEPT ![c] = naming[c]] ELSE nameOf
  /\ naming' = [naming EXCEPT ![c] = Unnamed]
  /\ UNCHANGED <<now, memberships, endedAt, endings>>

Recorded == {m \in Memberships : memberships[m] # NoMembership}

\* A transaction reads the clock when it begins and may wait for a lock.
Readings == {at \in 0 .. now : now <= at + CohortLag}
NamedInstants == 0 .. LastInstant + 1

CohortMembershipIsEffectiveAt(membership, at) ==
  membership.from <= at /\ at < membership.until

WindowsOverlap(first, second) ==
  first.from < second.until /\ second.from < first.until

SponsorshipReportingIncludes(at) == at < endedAt

\* A report counts an outcome of the Student once for every membership that
\* was effective when its session began: windows that overlap count it twice.
CreditedMemberships(occurredAt) ==
  IF SponsorshipReportingIncludes(occurredAt)
  THEN {m \in Recorded :
          CohortMembershipIsEffectiveAt(memberships[m], occurredAt)}
  ELSE {}

AttendanceOutcomes == {"ATTENDED", "NO_SHOW"}
Activity(m, occurrences, outcome) ==
  Cardinality({o \in occurrences : /\ o.outcome = outcome
                                   /\ m \in CreditedMemberships(o.at)})

\* projectCohorts: by Cohort, under the name it has.
MembershipsOf(c) == {m \in Recorded : memberships[m].cohort = c}
AttributedActivity(c, occurrences) ==
  [outcome \in AttendanceOutcomes |->
     MapThenSumSet(LAMBDA m : Activity(m, occurrences, outcome),
                   MembershipsOf(c))]

SponsorshipIsActive == endedAt = Never

\* Mutant: any instant will do.
StartsAnyTime(from, at) == TRUE

IsProspective(from, at) == from >= at

AddCohortMembership(m, c, from, until, at) ==
  /\ memberships[m] = NoMembership
  /\ c \in Created
  /\ SponsorshipIsActive
  /\ IsProspective(from, at)
  /\ until > from
  /\ LET proposed == [cohort |-> c, from |-> from, until |-> until] IN
     /\ \A n \in Recorded :
          memberships[n].cohort = c => ~WindowsOverlap(memberships[n], proposed)
     /\ memberships' = [memberships EXCEPT ![m] = proposed]
  /\ UNCHANGED <<cohortNameVars, now, endedAt, endings>>

\* endCohortMembership up to its update: a plain read, then the checks.
DecideMembershipEnd(m, until, at) ==
  /\ m \in Recorded
  /\ endings[m] = NoEnding
  /\ memberships[m].until > at
  /\ IsProspective(until, at)
  /\ until > memberships[m].from
  /\ endings' = [endings EXCEPT ![m] = [until |-> until, at |-> at]]
  /\ UNCHANGED <<cohortNameVars, now, memberships, endedAt>>

\* A membership discarded in between is not there to be updated.
EndCohortMembership(m) ==
  /\ endings[m] # NoEnding
  /\ memberships' =
       IF m \in Recorded
       THEN [memberships EXCEPT ![m].until = endings[m].until]
       ELSE memberships
  /\ endings' = [endings EXCEPT ![m] = NoEnding]
  /\ UNCHANGED <<cohortNameVars, now, endedAt>>

AbandonMembershipEnd(m) ==
  /\ endings[m] # NoEnding
  /\ endings' = [endings EXCEPT ![m] = NoEnding]
  /\ UNCHANGED <<cohortNameVars, now, memberships, endedAt>>

\* closeCohortMembershipsAtSponsorshipEnd
ClosedAt(membership, at) ==
  IF membership.from >= at THEN NoMembership
  ELSE IF membership.until > at THEN [membership EXCEPT !.until = at]
  ELSE membership

EndSponsorshipOfCohorts(at) ==
  /\ SponsorshipIsActive
  /\ endedAt' = at
  /\ memberships' = [m \in Memberships |->
       IF m \in Recorded THEN ClosedAt(memberships[m], at) ELSE NoMembership]
  /\ UNCHANGED <<cohortNameVars, now, endings>>

CohortTick ==
  /\ now < LastInstant
  /\ \A m \in Memberships :
       endings[m] # NoEnding => now < endings[m].at + CohortLag
  /\ now' = now + 1
  /\ UNCHANGED <<cohortNameVars, memberships, endedAt, endings>>

CohortNext ==
  \/ \E c \in Cohorts : \/ \E name \in CohortNames : ChooseName(c, name)
                        \/ WriteName(c)
  \/ \E m \in Memberships, c \in Cohorts, from \in NamedInstants,
        until \in NamedInstants \cup {Never}, at \in Readings :
       AddCohortMembership(m, c, from, until, at)
  \/ \E m \in Memberships, until \in NamedInstants, at \in Readings :
       DecideMembershipEnd(m, until, at)
  \/ \E m \in Memberships : EndCohortMembership(m)
  \/ \E m \in Memberships : AbandonMembershipEnd(m)
  \/ \E at \in Readings : EndSponsorshipOfCohorts(at)
  \/ CohortTick

CohortSpec == CohortInit /\ [][CohortNext]_cohortVars

----------------------------------------------------------------------------
(* Properties.                                                             *)

\* What a Cohort's report counts of the past does not change (ADR 0057),
\* whatever memberships are added, shortened, extended or closed, up to the
\* age of a transaction's clock, nor is it ever shown under the name of
\* another Cohort of the Organization, whoever renames what at once.
PastAttributionIsFixed ==
  [][/\ \A at \in 0 .. LastInstant, c \in Cohorts,
           outcome \in AttendanceOutcomes :
          at < now - CohortLag =>
            LET occurrences == {[at |-> at, outcome |-> outcome]}
            IN  AttributedActivity(c, occurrences)'
                  = AttributedActivity(c, occurrences)
     /\ \A c \in Created' : ~NameIsTaken(c, nameOf[c])'
    ]_cohortVars

============================================================================
