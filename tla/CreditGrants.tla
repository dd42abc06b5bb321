---------------------------- MODULE CreditGrants ----------------------------
(***************************************************************************)
(* What Subscription and Sponsorship share: the clock, the Users, and the  *)
(* ledger of the Class Credits both of them grant; and the calendar of     *)
(* monthlySubscriptionAnniversary: an anniversary falls on the day of the  *)
(* month of the first instant, or on the last day of a month too short for *)
(* it.  An instant is a day: an anniversary keeps the time of day of its   *)
(* instant, which is left out.                                             *)
(***************************************************************************)
EXTENDS Integers, FiniteSets

CONSTANTS
  MonthStart,     \* first day of each month
  LastMonth,      \* bound: the calendar ends a month after the clock at least
  MaxTime         \* bound of the clock

Days == 0 .. MaxTime

ASSUME CalendarAssumption ==
  /\ LastMonth \in Nat \ {0} /\ MaxTime \in Nat
  /\ MonthStart \in [0 .. LastMonth -> Nat]
  /\ MonthStart[0] = 0
  /\ \A m \in 0 .. LastMonth - 1 : MonthStart[m] < MonthStart[m + 1]
  /\ MaxTime < MonthStart[LastMonth - 1]

MonthLength(m) == MonthStart[m + 1] - MonthStart[m]

MonthOf(t) ==
  CHOOSE m \in 0 .. LastMonth - 1 : MonthStart[m] <= t /\ t < MonthStart[m + 1]

\* Counted from zero; getUTCDate counts from one.
DayOfMonth(t) == t - MonthStart[MonthOf(t)]

Anniversary(t, offset) ==
  LET m == MonthOf(t) + offset IN
  MonthStart[m] + IF DayOfMonth(t) < MonthLength(m) THEN DayOfMonth(t)
                                                    ELSE MonthLength(m) - 1

----------------------------------------------------------------------------
(* Users and their credits.                                                *)

CONSTANTS
  Students,
  Suspendable,    \* Students whom an Administrator suspends or reactivates
  Removable,      \* Students whose Student role comes and goes
  ClockLag        \* bound: how long a transaction runs after reading the clock

ASSUME StudentsAssumption ==
  IsFiniteSet(Students) /\ Suspendable \subseteq Students
    /\ Removable \subseteq Students

ASSUME ClockLagAssumption == ClockLag \in Nat

VARIABLES
  now,            \* the clock
  accessStatus,   \* users.access_status
  studentRole,    \* the Users with a Student Role Assignment
  grants,         \* grant entries of the ledger: Student, source, owner, period
  balance         \* class_credit_accounts.available_balance

userVars == <<accessStatus, studentRole>>
creditVars == <<grants, balance>>

GrantSources == {"SUBSCRIPTION_GRANT", "ORGANIZATION_CREDIT_GRANT"}

GrantSize == 8

CreditInit ==
  /\ now = 0
  /\ accessStatus = [u \in Students |-> "ACTIVE"]
  /\ studentRole = Students
  /\ grants = {}
  /\ balance = [u \in Students |-> 0]

\* A request reads the clock when its transaction begins and may wait for
\* row locks before it takes effect.
ClockReadings == {t \in Days : t <= now /\ now <= t + ClockLag}

\* source_reference names the owner, a Subscription or a Sponsorship, and
\* the period.
Entry(u, source, owner, period) ==
  [student |-> u, source |-> source, owner |-> owner, period |-> period]

\* Mutant: the account is forgotten.
GrantLedgerOnly(u, source, owner, period) ==
  /\ grants' = grants \cup {Entry(u, source, owner, period)}
  /\ UNCHANGED balance

\* Ledger entry and balance in one transaction, which the uniqueness of
\* (source, source_reference) aborts when the period has its entry already.
Grant(u, source, owner, period) ==
  /\ Entry(u, source, owner, period) \notin grants
  /\ grants' = grants \cup {Entry(u, source, owner, period)}
  /\ balance' = [balance EXCEPT ![u] = @ + GrantSize]

\* What suspendUser and reactivateUser leave for the handlers below.
SuspendUser(u) ==
  /\ accessStatus[u] = "ACTIVE"
  /\ accessStatus' = [accessStatus EXCEPT ![u] = "SUSPENDED"]
  /\ UNCHANGED <<now, studentRole, creditVars>>

ReactivateUser(u) ==
  /\ accessStatus[u] = "SUSPENDED"
  /\ accessStatus' = [accessStatus EXCEPT ![u] = "ACTIVE"]
  /\ UNCHANGED <<now, studentRole, creditVars>>

GrantStudentRole(u) ==
  /\ u \notin studentRole
  /\ studentRole' = studentRole \cup {u}
  /\ UNCHANGED <<now, accessStatus, creditVars>>

Tick ==
  /\ now < MaxTime
  /\ now' = now + 1
  /\ UNCHANGED <<userVars, creditVars>>

============================================================================
