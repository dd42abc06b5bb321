--------------------------- MODULE BenefitsProofs ---------------------------
(***************************************************************************)
(* Theorems about Benefits, for every calendar and any number of Students, *)
(* provider events, Organizations and invitations.                         *)
(***************************************************************************)
EXTENDS Benefits, FiniteSetTheorems, TLAPS

----------------------------------------------------------------------------
(* The calendar.                                                           *)

(* Every nonempty set of natural numbers has a least element.              *)
LEMMA LeastNumber ==
  ASSUME NEW S \in SUBSET Nat, S # {}
  PROVE  \E m \in S : \A n \in S : m <= n
<1> DEFINE Less == {ss \in Nat \X Nat : ss[1] < ss[2]}
<1>1. IsWellFoundedOn(Less, Nat)
  BY NatLessThanWellFounded DEF OpToRel
<1>2. PICK m \in S : \A n \in S : <<n, m>> \notin Less
  <2> HIDE DEF Less
  <2> QED BY <1>1, WFMin
<1>3. ASSUME NEW n \in S PROVE m <= n
  <2>1. m \in Nat /\ n \in Nat /\ <<n, m>> \notin Less
    BY <1>2
  <2> QED BY <2>1
<1> QED BY <1>3

Months == 0 .. LastMonth

LEMMA MonthStarts ==
  /\ LastMonth \in Nat /\ MaxTime \in Nat
  /\ \A m \in Months : MonthStart[m] \in Nat
BY CalendarAssumption DEF Months

(* Later months start later: else there would be a first later month that  *)
(* does not.                                                               *)
LEMMA MonthsFollow ==
  ASSUME NEW m \in Months, NEW n \in Months, m < n
  PROVE  MonthStart[m] < MonthStart[n]
<1> DEFINE Wrong == {k \in Months : m < k /\ ~(MonthStart[m] < MonthStart[k])}
<1> SUFFICES ASSUME Wrong # {} PROVE FALSE
  OBVIOUS
<1>1. Wrong \in SUBSET Nat
  BY MonthStarts DEF Months
<1> PICK k \in Wrong : \A l \in Wrong : k <= l
  <2> HIDE DEF Wrong
  <2> QED BY <1>1, LeastNumber
<1>2. k - 1 \in Months /\ k - 1 \in 0 .. LastMonth - 1
  BY MonthStarts DEF Months
<1>3. MonthStart[k - 1] < MonthStart[k]
  <2>1. MonthStart[k - 1] < MonthStart[(k - 1) + 1]
    BY <1>2, CalendarAssumption
  <2>2. (k - 1) + 1 = k
    BY <1>1
  <2> QED BY <2>1, <2>2
<1>4. m = k - 1 \/ MonthStart[m] < MonthStart[k - 1]
  <2>1. k - 1 \notin Wrong
    BY <1>1, <1>2
  <2> QED BY <1>2, <2>1 DEF Months
<1> QED BY <1>2, <1>3, <1>4, MonthStarts

(* Every day of the clock is in a month, with one more after it.           *)
LEMMA MonthOfDay ==
  ASSUME NEW t \in Days
  PROVE  /\ MonthOf(t) \in 0 .. LastMonth - 2
         /\ MonthStart[MonthOf(t)] <= t /\ t < MonthStart[MonthOf(t) + 1]
<1> DEFINE Later == {k \in Months : t < MonthStart[k]}
<1>0. t \in Nat /\ t <= MaxTime
  BY MonthStarts DEF Days
<1>1. LastMonth - 1 \in Later
  BY <1>0, CalendarAssumption DEF Months
<1>2. Later \in SUBSET Nat /\ 0 \notin Later
  BY <1>0, CalendarAssumption DEF Months
<1> PICK k \in Later : \A l \in Later : k <= l
  <2> HIDE DEF Later
  <2> QED BY <1>1, <1>2, LeastNumber
<1>3. k \in Nat \ {0} /\ k <= LastMonth - 1 /\ k - 1 \in 0 .. LastMonth - 1
  BY <1>1, <1>2, MonthStarts
<1>4. k - 1 \in Months /\ k - 1 \notin Later
  BY <1>3, MonthStarts DEF Months
<1>5. MonthStart[k - 1] <= t /\ t < MonthStart[(k - 1) + 1]
  BY <1>0, <1>3, <1>4, MonthStarts
<1>6. /\ MonthOf(t) \in 0 .. LastMonth - 1
      /\ MonthStart[MonthOf(t)] <= t /\ t < MonthStart[MonthOf(t) + 1]
  BY <1>3, <1>5 DEF MonthOf
<1>7. MonthOf(t) # LastMonth - 1
  <2> SUFFICES ASSUME MonthOf(t) = LastMonth - 1 PROVE FALSE
    OBVIOUS
  <2> QED BY <1>0, <1>6, CalendarAssumption
<1> QED BY <1>6, <1>7, MonthStarts

\* The calendar holds the offset-th anniversary of t.
Holds(t, offset) == MonthOf(t) + offset <= LastMonth - 1

(* The anniversary falls into the month it is for.                         *)
LEMMA AnniversaryInMonth ==
  ASSUME NEW t \in Days, NEW offset \in Nat, Holds(t, offset)
  PROVE  /\ Anniversary(t, offset) \in Nat
         /\ MonthOf(t) + offset \in 0 .. LastMonth - 1
         /\ MonthStart[MonthOf(t) + offset] <= Anniversary(t, offset)
         /\ Anniversary(t, offset) < MonthStart[MonthOf(t) + offset + 1]
<1> DEFINE m == MonthOf(t) + offset
<1>1. MonthOf(t) \in Nat /\ DayOfMonth(t) \in Nat
  BY MonthOfDay, MonthStarts DEF DayOfMonth, Days, Months
<1>2. m \in 0 .. LastMonth - 1
  BY <1>1, MonthStarts DEF Holds
<1>3. /\ m \in Months /\ m + 1 \in Months
      /\ MonthStart[m] \in Nat /\ MonthStart[m + 1] \in Nat
      /\ MonthStart[m] < MonthStart[m + 1]
  BY <1>2, MonthStarts, CalendarAssumption DEF Months
<1>4. Anniversary(t, offset) =
        MonthStart[m] + IF DayOfMonth(t) < MonthStart[m + 1] - MonthStart[m]
                        THEN DayOfMonth(t)
                        ELSE MonthStart[m + 1] - MonthStart[m] - 1
  BY DEF Anniversary, MonthLength
<1> HIDE DEF m
<1>5. /\ Anniversary(t, offset) \in Nat
      /\ MonthStart[m] <= Anniversary(t, offset)
      /\ Anniversary(t, offset) < MonthStart[m + 1]
  BY <1>1, <1>3, <1>4
<1> QED BY <1>2, <1>5 DEF m

(* Anniversaries follow each other, the first one the day itself: no       *)
(* period is reached twice, however short the months between.              *)
LEMMA AnniversariesFollow ==
  ASSUME NEW t \in Days, NEW n \in Nat, Holds(t, n + 1)
  PROVE  Anniversary(t, n + 1) \notin Periods(t, n)
<1>0. MonthOf(t) \in Nat /\ n + 1 \in Nat /\ LastMonth \in Nat
  BY MonthOfDay, MonthStarts
<1> DEFINE start == MonthStart[MonthOf(t) + (n + 1)]
<1>1. /\ start <= Anniversary(t, n + 1) /\ Anniversary(t, n + 1) \in Nat
      /\ MonthOf(t) + (n + 1) \in Months /\ start \in Nat
  BY <1>0, AnniversaryInMonth, MonthStarts DEF Months
<1>2. t < start
  <2>1. MonthOf(t) + 1 \in Months /\ t < MonthStart[MonthOf(t) + 1]
    BY <1>0, MonthOfDay DEF Months
  <2>2. MonthOf(t) + 1 = MonthOf(t) + (n + 1)
          \/ MonthStart[MonthOf(t) + 1] < start
    <3>1. n = 0 \/ MonthOf(t) + 1 < MonthOf(t) + (n + 1)
      BY <1>0
    <3> QED BY <1>0, <1>1, <2>1, <3>1, MonthsFollow
  <2> QED BY <1>1, <2>1, <2>2, MonthStarts DEF Days
<1>3. ASSUME NEW k \in 1 .. n PROVE Anniversary(t, k) < start
  <2>1. k \in Nat /\ Holds(t, k)
    BY <1>0 DEF Holds
  <2>2. /\ Anniversary(t, k) \in Nat
        /\ Anniversary(t, k) < MonthStart[MonthOf(t) + k + 1]
    BY <2>1, AnniversaryInMonth
  <2>3. /\ MonthOf(t) + k + 1 \in Months
        /\ MonthOf(t) + k + 1 = MonthOf(t) + (n + 1)
              \/ MonthOf(t) + k + 1 < MonthOf(t) + (n + 1)
    BY <1>0, <1>1 DEF Months
  <2>4. MonthStart[MonthOf(t) + k + 1] <= start
    BY <1>1, <2>3, MonthsFollow, MonthStarts
  <2> QED BY <1>1, <2>2, <2>3, <2>4, MonthStarts
<1> QED BY <1>1, <1>2, <1>3 DEF Periods, Days

(* If an anniversary is on a day of the clock the calendar holds the next. *)
LEMMA NextIsHeld ==
  ASSUME NEW t \in Days, NEW n \in Nat, Holds(t, n),
         Anniversary(t, n) \in Days
  PROVE  Holds(t, n + 1)
<1> DEFINE m == MonthOf(t) + n
<1>1. /\ m \in Months /\ LastMonth - 1 \in Months
      /\ MonthStart[m] <= Anniversary(t, n)
      /\ MonthOf(t) \in Nat /\ LastMonth \in Nat /\ m <= LastMonth - 1
  BY AnniversaryInMonth, MonthOfDay, MonthStarts DEF Months
<1>2. Anniversary(t, n) <= MaxTime /\ MaxTime < MonthStart[LastMonth - 1]
  BY CalendarAssumption DEF Days
<1>3. m # LastMonth - 1
  BY <1>1, <1>2, MonthStarts DEF Days
<1> QED BY <1>1, <1>3 DEF Holds

----------------------------------------------------------------------------
(* The inductive invariant: what each part must know of itself for the     *)
(* properties to follow.                                                   *)

UserTypes ==
  /\ now \in Days
  /\ accessStatus \in [Students -> {"ACTIVE", "SUSPENDED"}]
  /\ studentRole \subseteq Students

(* The ledger is finite, and its sum is the account's balance.             *)
CreditTypes ==
  /\ grants \subseteq [student : Students, source : GrantSources,
                       owner : Students \cup Invitations, period : Int]
  /\ IsFiniteSet(grants)
  /\ balance \in [Students -> Nat]
  /\ BalanceFollowsLedger

CreditsInvariant == UserTypes /\ CreditTypes

SubscriptionTyped ==
  /\ subscription \in [Students -> Subscriptions]
  /\ outcome \in [EventIds -> {"NONE", "SUCCESS", "DENIED"}]

Running(s) == s.state \in {"ACTIVE", "CANCELLATION_SCHEDULED"}

(* The calendar holds the next period of a Subscription that runs: a       *)
(* renewal needs an event on a day of the clock.                           *)
SubscriptionSound(u) ==
  LET s == subscription[u] IN
  /\ \A g \in SubscriptionGrants(u) :
       s.state # "NONE" /\ g.period \in Periods(s.activatedAt, s.renewals)
  /\ Running(s) =>
       /\ s.activatedAt \in Days /\ Holds(s.activatedAt, s.renewals + 1)
       /\ s.next = Anniversary(s.activatedAt, s.renewals + 1)
  /\ s.state = "CANCELLATION_SCHEDULED" => s.cancelAt = s.next

SubscriptionInvariant ==
  SubscriptionTyped /\ \A u \in Students : SubscriptionSound(u)

SponsorshipTyped ==
  /\ invitations \in
       [Invitations ->
          [state : {"NONE", "PENDING", "ACCEPTED", "DECLINED", "EXPIRED"},
           student : Students \cup {Nobody},
           organization : Organizations \cup {Nobody}, expiresAt : Int]]
  /\ sponsorships \in
       [Invitations ->
          [state : {"NONE", "ACTIVE", "ENDED"}, acceptedAt : Int,
           grantCount : Nat, next : Int, endedAt : Int]]

(* An invitation names its Student, only an accepted one has a             *)
(* Sponsorship, and only a Sponsorship has grants.                         *)
SponsorshipSound(i) ==
  LET s == sponsorships[i] IN
  /\ invitations[i].state # "NONE" => invitations[i].student \in Students
  /\ s.state # "NONE" => /\ invitations[i].state = "ACCEPTED"
                         /\ s.acceptedAt < invitations[i].expiresAt
  /\ \A g \in SponsorshipGrants(i) :
       /\ s.state # "NONE"
       /\ g.period \in Periods(s.acceptedAt, s.grantCount)
       /\ g.period <= now
       /\ s.state = "ENDED" => g.period <= s.endedAt + ClockLag
  /\ s.state = "ACTIVE" =>
       /\ s.acceptedAt \in Days /\ Holds(s.acceptedAt, s.grantCount + 1)
       /\ s.next = Anniversary(s.acceptedAt, s.grantCount + 1)
  /\ s.state = "ENDED" => s.endedAt <= now

SponsorshipInvariant ==
  /\ SponsorshipTyped
  /\ \A i \in Invitations : SponsorshipSound(i)
  /\ \A i, j \in Invitations : SameStudent(i, j) => Apart(i, j, ClockLag)

BenefitsInvariant ==
  CreditsInvariant /\ SubscriptionInvariant /\ SponsorshipInvariant

----------------------------------------------------------------------------
(* Steps of the ledger.                                                    *)

(* A grant is an entry of its Student that was not there, and no other     *)
(* Student's, and eight credits: the sum stays the balance.                *)
LEMMA GrantKeepsBalance ==
  ASSUME CreditTypes, NEW u \in Students, NEW source \in GrantSources,
         NEW owner \in Students \cup Invitations, NEW period \in Int,
         Grant(u, source, owner, period)
  PROVE  CreditTypes'
<1> DEFINE e == Entry(u, source, owner, period)
<1>1. /\ e \notin grants /\ grants' = grants \cup {e} /\ e.student = u
      /\ balance' = [balance EXCEPT ![u] = @ + GrantSize]
      /\ e \in [student : Students, source : GrantSources,
                owner : Students \cup Invitations, period : Int]
  BY DEF Grant, Entry
<1> HIDE DEF e
<1>2. /\ grants' \subseteq [student : Students, source : GrantSources,
                            owner : Students \cup Invitations, period : Int]
      /\ IsFiniteSet(grants')
  BY <1>1, FS_AddElement DEF CreditTypes
<1>3. balance' \in [Students -> Nat]
  BY <1>1 DEF CreditTypes, GrantSize
<1>4. ASSUME NEW v \in Students
      PROVE  balance'[v] = GrantSize * Cardinality(GrantsTo(v)')
  <2>1. /\ IsFiniteSet(GrantsTo(v))
        /\ balance[v] = GrantSize * Cardinality(GrantsTo(v))
    <3>1. GrantsTo(v) \subseteq grants
      BY DEF GrantsTo
    <3> QED BY <3>1, FS_Subset DEF CreditTypes, BalanceFollowsLedger
  <2>2. CASE v = u
    <3>1. GrantsTo(v)' = GrantsTo(v) \cup {e} /\ e \notin GrantsTo(v)
      BY <1>1, <2>2 DEF GrantsTo
    <3>2. /\ Cardinality(GrantsTo(v)') = Cardinality(GrantsTo(v)) + 1
          /\ Cardinality(GrantsTo(v)) \in Nat
      BY <2>1, <3>1, FS_AddElement, FS_CardinalityType
    <3>3. balance'[v] = balance[v] + GrantSize
      BY <1>1, <2>2 DEF CreditTypes
    <3> QED BY <2>1, <3>2, <3>3 DEF GrantSize
  <2>3. CASE v # u
    <3>1. GrantsTo(v)' = GrantsTo(v)
      BY <1>1, <2>3 DEF GrantsTo
    <3>2. balance'[v] = balance[v]
      BY <1>1, <2>3 DEF CreditTypes
    <3> QED BY <2>1, <3>1, <3>2
  <2> QED BY <2>2, <2>3
<1> QED BY <1>2, <1>3, <1>4 DEF CreditTypes, BalanceFollowsLedger

LEMMA CreditsFrame ==
  ASSUME CreditTypes, UNCHANGED creditVars
  PROVE  CreditTypes'
BY DEF CreditTypes, creditVars, BalanceFollowsLedger, GrantsTo

(* The grants of a Subscription change with those of its own Student only. *)
LEMMA GrantsOfSubscriptions ==
  ASSUME NEW v, NEW u, NEW source, NEW owner, NEW period,
         \/ UNCHANGED creditVars
         \/ /\ Grant(u, source, owner, period)
            /\ source = "SUBSCRIPTION_GRANT" => v # u
  PROVE  SubscriptionGrants(v)' = SubscriptionGrants(v)
<1>1. CASE UNCHANGED creditVars
  BY <1>1 DEF SubscriptionGrants, GrantsTo, creditVars
<1>2. CASE Grant(u, source, owner, period)
             /\ (source = "SUBSCRIPTION_GRANT" => v # u)
  BY <1>2 DEF SubscriptionGrants, GrantsTo, Grant, Entry
<1> QED BY <1>1, <1>2

LEMMA GrantsOfSponsorships ==
  ASSUME NEW i, NEW u, NEW source, NEW owner, NEW period,
         \/ UNCHANGED creditVars
         \/ /\ Grant(u, source, owner, period)
            /\ source = "ORGANIZATION_CREDIT_GRANT" => i # owner
  PROVE  SponsorshipGrants(i)' = SponsorshipGrants(i)
<1>1. CASE UNCHANGED creditVars
  BY <1>1 DEF SponsorshipGrants, creditVars
<1>2. CASE Grant(u, source, owner, period)
             /\ (source = "ORGANIZATION_CREDIT_GRANT" => i # owner)
  BY <1>2 DEF SponsorshipGrants, Grant, Entry
<1> QED BY <1>1, <1>2

(* A grant to an owner adds its period, and nothing else, to the owner's.  *)
LEMMA GrantIsOwned ==
  ASSUME NEW u, NEW source, NEW owner, NEW period,
         Grant(u, source, owner, period)
  PROVE  /\ source = "SUBSCRIPTION_GRANT" =>
              \A g \in SubscriptionGrants(u)' :
                g \in SubscriptionGrants(u) \/ g.period = period
         /\ source = "ORGANIZATION_CREDIT_GRANT" =>
              \A g \in SponsorshipGrants(owner)' :
                g \in SponsorshipGrants(owner) \/ g.period = period
BY DEF Grant, Entry, SubscriptionGrants, SponsorshipGrants, GrantsTo

LEMMA PeriodsGrow ==
  ASSUME NEW start, NEW n \in Nat
  PROVE  /\ start \in Periods(start, n)
         /\ Periods(start, n) \subseteq Periods(start, n + 1)
         /\ Anniversary(start, n + 1) \in Periods(start, n + 1)
BY DEF Periods

(* A benefit may start on any day of the clock.                            *)
LEMMA FirstIsHeld ==
  ASSUME NEW t \in Days
  PROVE  Holds(t, 1) /\ Anniversary(t, 1) \in Nat /\ t \in Nat
<1>1. MonthOf(t) \in 0 .. LastMonth - 2 /\ LastMonth \in Nat /\ t \in Nat
  BY MonthOfDay, MonthStarts DEF Days
<1>2. Holds(t, 1)
  BY <1>1 DEF Holds
<1> QED BY <1>1, <1>2, AnniversaryInMonth

(* The period after the one that begins today is held too.                 *)
LEMMA NextPeriod ==
  ASSUME NEW t \in Days, NEW n \in Nat, Holds(t, n + 1),
         Anniversary(t, n + 1) \in Days
  PROVE  /\ Holds(t, (n + 1) + 1) /\ Anniversary(t, n + 2) \in Nat
         /\ (n + 1) + 1 = n + 2
<1>1. n + 1 \in Nat /\ n + 2 \in Nat /\ (n + 1) + 1 = n + 2
  OBVIOUS
<1>2. Holds(t, (n + 1) + 1)
  BY <1>1, NextIsHeld
<1>3. Anniversary(t, n + 2) \in Nat
  BY <1>1, <1>2, AnniversaryInMonth
<1> QED BY <1>1, <1>2, <1>3

----------------------------------------------------------------------------
(* Steps of Subscriptions.                                                 *)

LEMMA SubscriptionFrame ==
  ASSUME SubscriptionInvariant, UNCHANGED subscriptionVars,
         \A v \in Students : SubscriptionGrants(v)' = SubscriptionGrants(v)
  PROVE  SubscriptionInvariant'
<1>1. ASSUME NEW v \in Students PROVE SubscriptionSound(v)'
  <2>1. SubscriptionSound(v) /\ UNCHANGED subscription
    BY DEF SubscriptionInvariant, subscriptionVars
  <2> QED BY <2>1 DEF SubscriptionSound, Running, Periods
<1> QED
  BY <1>1 DEF SubscriptionInvariant, SubscriptionTyped, subscriptionVars

(* A step of one Subscription need only keep that one sound.               *)
LEMMA SubscriptionUpdate ==
  ASSUME SubscriptionInvariant, NEW u \in Students,
         NEW s \in Subscriptions,
         subscription' = [subscription EXCEPT ![u] = s],
         outcome' \in [EventIds -> {"NONE", "SUCCESS", "DENIED"}],
         \A v \in Students \ {u} :
           SubscriptionGrants(v)' = SubscriptionGrants(v),
         SubscriptionSound(u)'
  PROVE  SubscriptionInvariant'
<1>1. SubscriptionTyped'
  BY DEF SubscriptionInvariant, SubscriptionTyped
<1>2. ASSUME NEW v \in Students, v # u PROVE SubscriptionSound(v)'
  <2>1. subscription'[v] = subscription[v] /\ SubscriptionSound(v)
        /\ SubscriptionGrants(v)' = SubscriptionGrants(v)
    BY <1>2 DEF SubscriptionInvariant, SubscriptionTyped
  <2> QED BY <2>1 DEF SubscriptionSound, Running, Periods
<1> QED BY <1>1, <1>2 DEF SubscriptionInvariant

LEMMA EventTypes ==
  ASSUME NEW e \in Events
  PROVE  /\ e.id \in EventIds /\ e.student \in Students /\ e.at \in Days
         /\ e.at \in Int
BY EventsAssumption, MonthStarts DEF EventIds, Days

(* What an event that reaches a period does to the ledger.                 *)
LEMMA EventCredits ==
  ASSUME CreditsInvariant, NEW e \in Events, GrantUnlessSuspended(e)
  PROVE  /\ CreditTypes'
         /\ \A v \in Students \ {e.student} :
              SubscriptionGrants(v)' = SubscriptionGrants(v)
         /\ \A g \in SubscriptionGrants(e.student)' :
              g \in SubscriptionGrants(e.student) \/ g.period = e.at
         /\ \A i : SponsorshipGrants(i)' = SponsorshipGrants(i)
<1> DEFINE u == e.student
<1>0. u \in Students /\ e.at \in Int /\ CreditTypes
  BY EventTypes DEF CreditsInvariant
<1>1. CASE UNCHANGED creditVars
  <2>1. /\ \A v : SubscriptionGrants(v)' = SubscriptionGrants(v)
        /\ \A i : SponsorshipGrants(i)' = SponsorshipGrants(i)
    BY <1>1 DEF SubscriptionGrants, SponsorshipGrants, GrantsTo, creditVars
  <2> QED BY <1>0, <1>1, <2>1, CreditsFrame
<1>2. CASE Grant(u, "SUBSCRIPTION_GRANT", u, e.at)
  <2>1. CreditTypes'
    BY <1>0, <1>2, GrantKeepsBalance DEF GrantSources
  <2>2. \A v \in Students \ {u} :
          SubscriptionGrants(v)' = SubscriptionGrants(v)
    BY <1>2, GrantsOfSubscriptions
  <2>3. \A i : SponsorshipGrants(i)' = SponsorshipGrants(i)
    BY <1>2, GrantsOfSponsorships
  <2>4. \A g \in SubscriptionGrants(u)' :
          g \in SubscriptionGrants(u) \/ g.period = e.at
    BY <1>2, GrantIsOwned
  <2> QED BY <2>1, <2>2, <2>3, <2>4
<1> QED BY <1>1, <1>2 DEF GrantUnlessSuspended

LEMMA DecidedTyped ==
  ASSUME SubscriptionInvariant, NEW e \in Events,
         NEW result \in {"SUCCESS", "DENIED"}, Decide(e, result)
  PROVE  outcome' \in [EventIds -> {"NONE", "SUCCESS", "DENIED"}]
BY DEF Decide, SubscriptionInvariant, SubscriptionTyped

LEMMA SubscriptionOf ==
  ASSUME SubscriptionInvariant, NEW u \in Students
  PROVE  /\ subscription[u] \in Subscriptions /\ SubscriptionSound(u)
         /\ subscription \in [Students -> Subscriptions]
BY DEF SubscriptionInvariant, SubscriptionTyped

(* An activation starts the periods of a Student who had none.             *)
LEMMA ActivateKeeps ==
  ASSUME CreditsInvariant, SubscriptionInvariant, NEW e \in Events,
         ActivateSubscription(e)
  PROVE  SubscriptionInvariant'
<1> DEFINE u == e.student
           s == Activated(e.at)
<1>1. /\ u \in Students /\ e.at \in Days /\ e.at \in Int
      /\ subscription[u].state = "NONE"
      /\ subscription' = [subscription EXCEPT ![u] = s]
      /\ GrantUnlessSuspended(e) /\ Decide(e, "SUCCESS")
  BY EventTypes DEF ActivateSubscription, CanActivate
<1>2. /\ Holds(e.at, 1) /\ Anniversary(e.at, 1) \in Nat
      /\ s.state = "ACTIVE" /\ s.activatedAt = e.at /\ s.renewals = 0
      /\ s.next = Anniversary(e.at, 1)
      /\ s \in Subscriptions
  BY <1>1, FirstIsHeld
     DEF Activated, Subscriptions, SubscriptionStates, Never
<1> HIDE DEF s
<1>3. subscription'[u] = s
  BY <1>1, SubscriptionOf
<1>4. \A g \in SubscriptionGrants(u)' : g.period = e.at
  BY <1>1, EventCredits, SubscriptionOf DEF SubscriptionSound
<1>5. SubscriptionSound(u)'
  <2>1. e.at \in Periods(e.at, 0)
    BY DEF Periods
  <2> QED
    BY <1>1, <1>2, <1>3, <1>4, <2>1
       DEF SubscriptionSound, Running, Periods
<1> QED
  BY <1>1, <1>2, <1>5, EventCredits, DecidedTyped, SubscriptionUpdate

(* A renewal reaches exactly the next period.                              *)
LEMMA RenewKeeps ==
  ASSUME CreditsInvariant, SubscriptionInvariant, NEW e \in Events,
         RenewSubscription(e)
  PROVE  SubscriptionInvariant'
<1> DEFINE u == e.student
           r == subscription[u]
           s == Renewed(r)
<1>1. /\ u \in Students /\ e.at \in Days /\ e.at \in Int
      /\ r.state = "ACTIVE" /\ r.next = e.at
      /\ subscription' = [subscription EXCEPT ![u] = s]
      /\ GrantUnlessSuspended(e) /\ Decide(e, "SUCCESS")
  BY EventTypes DEF RenewSubscription, CanRenew
<1>2. /\ r \in Subscriptions /\ r.renewals \in Nat /\ r.activatedAt \in Days
      /\ Holds(r.activatedAt, r.renewals + 1)
      /\ e.at = Anniversary(r.activatedAt, r.renewals + 1)
      /\ \A g \in SubscriptionGrants(u) :
           g.period \in Periods(r.activatedAt, r.renewals)
  <2>1. SubscriptionSound(u) /\ r \in Subscriptions
    BY <1>1, SubscriptionOf
  <2> QED BY <1>1, <2>1 DEF SubscriptionSound, Running, Subscriptions
<1>3. /\ Holds(r.activatedAt, (r.renewals + 1) + 1)
      /\ Anniversary(r.activatedAt, r.renewals + 2) \in Nat
      /\ (r.renewals + 1) + 1 = r.renewals + 2
  BY <1>1, <1>2, NextPeriod
<1>4. /\ s \in Subscriptions /\ s.state = "ACTIVE"
      /\ s.activatedAt = r.activatedAt /\ s.renewals = r.renewals + 1
      /\ s.next = Anniversary(r.activatedAt, r.renewals + 2)
  <2> DEFINE next == Anniversary(r.activatedAt, r.renewals + 2)
  <2>1. s = [r EXCEPT !.renewals = r.renewals + 1, !.next = next]
    BY DEF Renewed
  <2>2. r \in Subscriptions /\ next \in Int /\ r.renewals + 1 \in Nat
    BY <1>2, <1>3
  <2> HIDE DEF next, s, r
  <2>3. /\ s \in Subscriptions /\ s.state = r.state
        /\ s.activatedAt = r.activatedAt /\ s.renewals = r.renewals + 1
        /\ s.next = next
    BY <2>1, <2>2 DEF Subscriptions
  <2> QED BY <1>1, <2>3 DEF next
<1> HIDE DEF s
<1>5. subscription'[u] = s
  BY <1>1, SubscriptionOf
<1>6. \A g \in SubscriptionGrants(u)' :
        g.period \in Periods(r.activatedAt, r.renewals + 1)
  BY <1>1, <1>2, EventCredits, PeriodsGrow
<1>7. SubscriptionSound(u)'
  BY <1>2, <1>3, <1>4, <1>5, <1>6 DEF SubscriptionSound, Running, Periods
<1> QED
  BY <1>1, <1>4, <1>7, EventCredits, DecidedTyped, SubscriptionUpdate

LEMMA NeverTyped == Never \in Int
BY DEF Never

(* Steps that leave the ledger and the periods of a Subscription alone.    *)
LEMMA StateUpdate ==
  ASSUME SubscriptionInvariant, NEW u \in Students,
         NEW s \in Subscriptions,
         subscription' = [subscription EXCEPT ![u] = s],
         outcome' \in [EventIds -> {"NONE", "SUCCESS", "DENIED"}],
         UNCHANGED creditVars,
         s.activatedAt = subscription[u].activatedAt,
         s.renewals = subscription[u].renewals,
         s.state # "NONE", subscription[u].state # "NONE",
         Running(s) =>
           Running(subscription[u]) /\ s.next = subscription[u].next,
         s.state = "CANCELLATION_SCHEDULED" => s.cancelAt = s.next
  PROVE  SubscriptionInvariant'
<1>1. subscription'[u] = s /\ SubscriptionSound(u)
  BY SubscriptionOf
<1>2. \A v : SubscriptionGrants(v)' = SubscriptionGrants(v)
  BY DEF SubscriptionGrants, GrantsTo, creditVars
<1>3. SubscriptionSound(u)'
  BY <1>1, <1>2 DEF SubscriptionSound, Running, Periods
<1> QED BY <1>2, <1>3, SubscriptionUpdate

LEMMA ReactivateKeeps ==
  ASSUME SubscriptionInvariant, NEW e \in Events, ReactivateSubscription(e)
  PROVE  SubscriptionInvariant'
<1> DEFINE u == e.student
           r == subscription[u]
           s == [r EXCEPT !.state = "ACTIVE", !.cancelAt = Never]
<1>1. /\ u \in Students /\ r.state = "CANCELLATION_SCHEDULED"
      /\ subscription' = [subscription EXCEPT ![u] = s]
      /\ Decide(e, "SUCCESS") /\ UNCHANGED creditVars
      /\ r \in Subscriptions
  BY EventTypes, SubscriptionOf DEF ReactivateSubscription, CanReactivate
<1>2. /\ s \in Subscriptions /\ s.state = "ACTIVE" /\ s.next = r.next
      /\ s.activatedAt = r.activatedAt /\ s.renewals = r.renewals
  <2> HIDE DEF r
  <2> QED BY <1>1, NeverTyped DEF Subscriptions, SubscriptionStates
<1> HIDE DEF s
<1> QED BY <1>1, <1>2, DecidedTyped, StateUpdate DEF Running

LEMMA CancelKeeps ==
  ASSUME SubscriptionInvariant, NEW e \in Events, CancelSubscription(e)
  PROVE  SubscriptionInvariant'
<1> DEFINE u == e.student
           r == subscription[u]
           s == [r EXCEPT !.state = "CANCELLED", !.next = Never]
<1>1. /\ u \in Students /\ r.state = "CANCELLATION_SCHEDULED"
      /\ subscription' = [subscription EXCEPT ![u] = s]
      /\ Decide(e, "SUCCESS") /\ UNCHANGED creditVars
      /\ r \in Subscriptions
  BY EventTypes, SubscriptionOf DEF CancelSubscription, CanCancel
<1>2. /\ s \in Subscriptions /\ s.state = "CANCELLED"
      /\ s.activatedAt = r.activatedAt /\ s.renewals = r.renewals
  <2> HIDE DEF r
  <2> QED BY <1>1, NeverTyped DEF Subscriptions, SubscriptionStates
<1> HIDE DEF s
<1> QED BY <1>1, <1>2, DecidedTyped, StateUpdate DEF Running

LEMMA DenyKeeps ==
  ASSUME SubscriptionInvariant, NEW e \in Events, DenyEvent(e)
  PROVE  SubscriptionInvariant'
<1>1. /\ UNCHANGED <<creditVars, subscription>>
      /\ outcome' \in [EventIds -> {"NONE", "SUCCESS", "DENIED"}]
  BY DecidedTyped DEF DenyEvent
<1>2. ASSUME NEW v \in Students PROVE SubscriptionSound(v)'
  <2>1. SubscriptionGrants(v)' = SubscriptionGrants(v)
    BY <1>1 DEF SubscriptionGrants, GrantsTo, creditVars
  <2> QED BY <1>1, <2>1, SubscriptionOf DEF SubscriptionSound, Running, Periods
<1> QED BY <1>1, <1>2 DEF SubscriptionInvariant, SubscriptionTyped

LEMMA ScheduleKeeps ==
  ASSUME SubscriptionInvariant, NEW u \in Students,
         ScheduleSubscriptionCancellation(u)
  PROVE  SubscriptionInvariant'
<1> DEFINE r == subscription[u]
           s == [r EXCEPT !.state = "CANCELLATION_SCHEDULED",
                          !.cancelAt = r.next]
<1>1. /\ r.state = "ACTIVE" /\ r \in Subscriptions
      /\ subscription' = [subscription EXCEPT ![u] = s]
      /\ UNCHANGED <<creditVars, outcome>>
      /\ outcome' \in [EventIds -> {"NONE", "SUCCESS", "DENIED"}]
  BY SubscriptionOf
     DEF ScheduleSubscriptionCancellation, SubscriptionInvariant,
         SubscriptionTyped
<1>2. /\ s \in Subscriptions /\ s.state = "CANCELLATION_SCHEDULED"
      /\ s.next = r.next /\ s.cancelAt = r.next
      /\ s.activatedAt = r.activatedAt /\ s.renewals = r.renewals
  <2> HIDE DEF r
  <2> QED BY <1>1 DEF Subscriptions, SubscriptionStates
<1> HIDE DEF s
<1> QED BY <1>1, <1>2, StateUpdate DEF Running

LEMMA UndoKeeps ==
  ASSUME SubscriptionInvariant, NEW u \in Students, NEW at \in ClockReadings,
         UndoSubscriptionCancellation(u, at)
  PROVE  SubscriptionInvariant'
<1> DEFINE r == subscription[u]
           s == [r EXCEPT !.state = "ACTIVE", !.cancelAt = Never]
<1>1. /\ r.state = "CANCELLATION_SCHEDULED" /\ r \in Subscriptions
      /\ subscription' = [subscription EXCEPT ![u] = s]
      /\ UNCHANGED <<creditVars, outcome>>
      /\ outcome' \in [EventIds -> {"NONE", "SUCCESS", "DENIED"}]
  BY SubscriptionOf
     DEF UndoSubscriptionCancellation, SubscriptionInvariant,
         SubscriptionTyped
<1>2. /\ s \in Subscriptions /\ s.state = "ACTIVE" /\ s.next = r.next
      /\ s.activatedAt = r.activatedAt /\ s.renewals = r.renewals
  <2> HIDE DEF r
  <2> QED BY <1>1, NeverTyped DEF Subscriptions, SubscriptionStates
<1> HIDE DEF s
<1> QED BY <1>1, <1>2, StateUpdate DEF Running

LEMMA RemoveRoleKeeps ==
  ASSUME SubscriptionInvariant, NEW u \in Students, NEW at \in ClockReadings,
         RemoveStudentRole(u, at)
  PROVE  SubscriptionInvariant'
<1> DEFINE r == subscription[u]
           s == IF Running(r)
                THEN [r EXCEPT !.state = "CANCELLED", !.next = Never,
                               !.cancelAt = at]
                ELSE r
<1>1. /\ r \in Subscriptions /\ at \in Int
      /\ subscription' = [subscription EXCEPT ![u] = s]
      /\ UNCHANGED <<creditVars, outcome>>
      /\ outcome' \in [EventIds -> {"NONE", "SUCCESS", "DENIED"}]
  BY SubscriptionOf, MonthStarts
     DEF RemoveStudentRole, SubscriptionInvariant, SubscriptionTyped, Running,
         ClockReadings, Days
<1>2. CASE Running(r)
  <2>1. /\ s \in Subscriptions /\ s.state = "CANCELLED"
        /\ s.activatedAt = r.activatedAt /\ s.renewals = r.renewals
    <3> HIDE DEF r
    <3> QED BY <1>1, <1>2, NeverTyped DEF Subscriptions, SubscriptionStates
  <2> HIDE DEF s
  <2> QED BY <1>1, <1>2, <2>1, StateUpdate DEF Running
<1>3. CASE ~Running(r)
  <2>1. UNCHANGED subscriptionVars
    BY <1>1, <1>3, SubscriptionOf DEF subscriptionVars
  <2>2. \A v : SubscriptionGrants(v)' = SubscriptionGrants(v)
    BY <1>1 DEF SubscriptionGrants, GrantsTo, creditVars
  <2> QED BY <2>1, <2>2, SubscriptionFrame
<1> QED BY <1>2, <1>3

----------------------------------------------------------------------------
(* Steps of Sponsorships.                                                  *)

SponsorshipRows ==
  [state : {"NONE", "ACTIVE", "ENDED"}, acceptedAt : Int,
   grantCount : Nat, next : Int, endedAt : Int]

LEMMA SponsorshipOf ==
  ASSUME SponsorshipInvariant, NEW i \in Invitations
  PROVE  /\ sponsorships[i] \in SponsorshipRows /\ SponsorshipSound(i)
         /\ sponsorships \in [Invitations -> SponsorshipRows]
         /\ invitations[i].expiresAt \in Int
BY DEF SponsorshipInvariant, SponsorshipTyped, SponsorshipRows

LEMMA ClockTyped ==
  /\ ClockLag \in Nat /\ InvitationLife \in Nat /\ Days \subseteq Nat
  /\ \A at \in ClockReadings : at \in Days /\ at \in Int
BY ClockLagAssumption, SponsorshipAssumption, MonthStarts
   DEF Days, ClockReadings

LEMMA PeriodsTyped ==
  ASSUME CreditTypes, NEW i
  PROVE  \A g \in SponsorshipGrants(i) : g.period \in Int
BY DEF CreditTypes, SponsorshipGrants

LEMMA SponsorshipFrame ==
  ASSUME SponsorshipInvariant, CreditTypes, UserTypes, UserTypes', now <= now',
         UNCHANGED sponsorshipVars,
         \A i \in Invitations : SponsorshipGrants(i)' = SponsorshipGrants(i)
  PROVE  SponsorshipInvariant'
<1>1. UNCHANGED <<invitations, sponsorships>> /\ now \in Int /\ now' \in Int
  BY ClockTyped DEF sponsorshipVars, UserTypes
<1>2. ASSUME NEW i \in Invitations PROVE SponsorshipSound(i)'
  <2>1. SponsorshipSound(i) /\ sponsorships[i] \in SponsorshipRows
    BY SponsorshipOf
  <2>2. \A g \in SponsorshipGrants(i) : g.period <= now'
    <3> SUFFICES ASSUME NEW g \in SponsorshipGrants(i) PROVE g.period <= now'
      OBVIOUS
    <3>1. g.period <= now /\ g.period \in Int
      BY <2>1, PeriodsTyped DEF SponsorshipSound
    <3> QED BY <1>1, <3>1
  <2> QED
    BY <1>1, <2>1, <2>2 DEF SponsorshipSound, Periods, SponsorshipRows
<1>3. \A i, j \in Invitations :
        SameStudent(i, j)' => Apart(i, j, ClockLag)'
  BY <1>1 DEF SponsorshipInvariant, SameStudent, Apart
<1> QED BY <1>1, <1>2, <1>3 DEF SponsorshipInvariant, SponsorshipTyped

(* A step of one invitation and its Sponsorship need only keep that one    *)
(* sound, and apart from the others.                                       *)
LEMMA SponsorshipUpdate ==
  ASSUME SponsorshipInvariant, UNCHANGED now, SponsorshipTyped',
         NEW i \in Invitations,
         \A j \in Invitations \ {i} :
           /\ invitations'[j] = invitations[j]
           /\ sponsorships'[j] = sponsorships[j]
           /\ SponsorshipGrants(j)' = SponsorshipGrants(j),
         SponsorshipSound(i)',
         \A j \in Invitations \ {i} :
           SameStudent(i, j)' => Apart(i, j, ClockLag)'
  PROVE  SponsorshipInvariant'
<1>1. ASSUME NEW j \in Invitations, j # i PROVE SponsorshipSound(j)'
  <2>1. /\ invitations'[j] = invitations[j]
        /\ sponsorships'[j] = sponsorships[j]
        /\ SponsorshipGrants(j)' = SponsorshipGrants(j)
        /\ SponsorshipSound(j)
    BY <1>1, SponsorshipOf
  <2> QED BY <2>1 DEF SponsorshipSound, Periods
<1>2. ASSUME NEW j \in Invitations, NEW k \in Invitations,
             SameStudent(j, k)'
      PROVE  Apart(j, k, ClockLag)'
  <2>1. CASE j = i
    BY <1>2, <2>1 DEF SameStudent
  <2>2. CASE k = i
    <3>1. SameStudent(i, j)' /\ j # i
      BY <1>2, <2>2 DEF SameStudent
    <3>2. Apart(i, j, ClockLag)'
      BY <3>1
    <3> QED BY <2>2, <3>2 DEF Apart
  <2>3. CASE j # i /\ k # i
    <3>1. /\ invitations'[j] = invitations[j] /\ invitations'[k] = invitations[k]
          /\ sponsorships'[j] = sponsorships[j]
          /\ sponsorships'[k] = sponsorships[k]
      BY <2>3
    <3>2. SameStudent(j, k)
      BY <1>2, <3>1 DEF SameStudent
    <3>3. Apart(j, k, ClockLag)
      BY <3>2 DEF SponsorshipInvariant
    <3> QED BY <3>1, <3>3 DEF Apart
  <2> QED BY <2>1, <2>2, <2>3
<1> QED BY <1>1, <1>2 DEF SponsorshipInvariant

LEMMA InviteKeeps ==
  ASSUME CreditsInvariant, SponsorshipInvariant, NEW o \in Organizations,
         NEW u \in Students, NEW i \in Invitations,
         InviteToSponsorship(o, u, i)
  PROVE  SponsorshipInvariant'
<1> DEFINE r == [state |-> "PENDING", student |-> u, organization |-> o,
                 expiresAt |-> now + InvitationLife]
<1>1. /\ invitations[i].state = "NONE" /\ UNCHANGED <<now, creditVars>>
      /\ invitations' = [invitations EXCEPT ![i] = r]
      /\ UNCHANGED sponsorships /\ now \in Nat /\ InvitationLife \in Nat
  BY ClockTyped
     DEF InviteToSponsorship, FreshInvitation, CreditsInvariant, UserTypes
<1>2. sponsorships[i].state = "NONE" /\ SponsorshipGrants(i) = {}
  BY <1>1, SponsorshipOf DEF SponsorshipSound
<1>3. SponsorshipTyped'
  BY <1>1 DEF SponsorshipInvariant, SponsorshipTyped
<1>4. /\ \A j : SponsorshipGrants(j)' = SponsorshipGrants(j)
      /\ invitations'[i] = r
      /\ \A j \in Invitations \ {i} : invitations'[j] = invitations[j]
  BY <1>1 DEF SponsorshipGrants, creditVars, SponsorshipInvariant,
              SponsorshipTyped
<1>5. SponsorshipSound(i)'
  BY <1>1, <1>2, <1>4 DEF SponsorshipSound
<1>6. \A j \in Invitations : ~SameStudent(i, j)'
  BY <1>1, <1>2 DEF SameStudent
<1> QED BY <1>1, <1>3, <1>4, <1>5, <1>6, SponsorshipUpdate

LEMMA ClosedTyped ==
  ASSUME SponsorshipTyped, NEW i \in Invitations,
         NEW state \in {"ACCEPTED", "DECLINED", "EXPIRED"},
         CloseInvitation(i, state),
         sponsorships' \in [Invitations -> SponsorshipRows]
  PROVE  SponsorshipTyped'
<1> DEFINE Rows ==
      [state : {"NONE", "PENDING", "ACCEPTED", "DECLINED", "EXPIRED"},
       student : Students \cup {Nobody},
       organization : Organizations \cup {Nobody}, expiresAt : Int]
<1>1. invitations \in [Invitations -> Rows]
  BY DEF SponsorshipTyped
<1>2. invitations' = [invitations EXCEPT ![i].state = state]
  BY DEF CloseInvitation
<1>3. invitations' \in [Invitations -> Rows]
  BY <1>1, <1>2
<1> QED BY <1>3 DEF SponsorshipTyped, SponsorshipRows

(* Closing an invitation that was not accepted.                            *)
LEMMA CloseKeeps ==
  ASSUME SponsorshipInvariant, NEW i \in Invitations,
         NEW state \in {"DECLINED", "EXPIRED"},
         invitations[i].state = "PENDING", CloseInvitation(i, state),
         UNCHANGED <<now, creditVars, sponsorships>>
  PROVE  SponsorshipInvariant'
<1>1. /\ sponsorships[i].state = "NONE" /\ SponsorshipGrants(i) = {}
      /\ invitations[i].student \in Students
  BY SponsorshipOf DEF SponsorshipSound
<1>2. SponsorshipTyped'
  BY DEF SponsorshipInvariant, SponsorshipTyped, CloseInvitation
<1>3. /\ \A j : SponsorshipGrants(j)' = SponsorshipGrants(j)
      /\ invitations'[i].student = invitations[i].student
      /\ \A j \in Invitations \ {i} : invitations'[j] = invitations[j]
  BY DEF SponsorshipGrants, creditVars, SponsorshipInvariant,
         SponsorshipTyped, CloseInvitation
<1>4. SponsorshipSound(i)'
  BY <1>1, <1>3 DEF SponsorshipSound
<1>5. \A j \in Invitations : ~SameStudent(i, j)'
  BY <1>1 DEF SameStudent
<1> QED BY <1>2, <1>3, <1>4, <1>5, SponsorshipUpdate

(* An acceptance finds the Student's other Sponsorships ended, none of     *)
(* them later than the clock.                                              *)
LEMMA AcceptKeeps ==
  ASSUME CreditsInvariant, SponsorshipInvariant, NEW i \in Invitations,
         NEW at \in ClockReadings, AcceptSponsorshipInvitation(i, at)
  PROVE  SponsorshipInvariant' /\ CreditTypes'
<1> DEFINE u == invitations[i].student
           s == [state |-> "ACTIVE", acceptedAt |-> at, grantCount |-> 0,
                 next |-> Anniversary(at, 1), endedAt |-> NoInstant]
<1>1. /\ invitations[i].state = "PENDING" /\ ~(invitations[i].expiresAt <= at)
      /\ ~Sponsored(u)
      /\ sponsorships' = [sponsorships EXCEPT ![i] = s]
      /\ Grant(u, "ORGANIZATION_CREDIT_GRANT", i, at)
      /\ invitations' = [invitations EXCEPT ![i].state = "ACCEPTED"]
      /\ UNCHANGED now
  BY DEF AcceptSponsorshipInvitation, CanRespond, ExpiredAt, CloseInvitation
<1>2. /\ u \in Students /\ sponsorships[i].state = "NONE"
      /\ SponsorshipGrants(i) = {}
  BY <1>1, SponsorshipOf DEF SponsorshipSound
<1>3. /\ at \in Days /\ at \in Int /\ now \in Int /\ at <= now
      /\ now <= at + ClockLag /\ ClockLag \in Nat
      /\ Holds(at, 1) /\ Anniversary(at, 1) \in Nat
  BY ClockTyped, FirstIsHeld DEF ClockReadings, CreditsInvariant, UserTypes
<1>4. /\ CreditTypes'
      /\ \A g \in SponsorshipGrants(i)' : g.period = at
      /\ \A j \in Invitations \ {i} :
           SponsorshipGrants(j)' = SponsorshipGrants(j)
  <2>1. CreditTypes'
    BY <1>1, <1>2, <1>3, GrantKeepsBalance DEF CreditsInvariant, GrantSources
  <2>2. \A g \in SponsorshipGrants(i)' : g.period = at
    BY <1>1, <1>2, GrantIsOwned
  <2>3. \A j \in Invitations \ {i} :
          SponsorshipGrants(j)' = SponsorshipGrants(j)
    BY <1>1, GrantsOfSponsorships
  <2> QED BY <2>1, <2>2, <2>3
<1>5. SponsorshipTyped'
  <2>1. s \in SponsorshipRows
    BY <1>3 DEF SponsorshipRows, NoInstant
  <2> HIDE DEF s
  <2>2. sponsorships' \in [Invitations -> SponsorshipRows]
    BY <1>1, <2>1, SponsorshipOf
  <2>3. SponsorshipTyped /\ CloseInvitation(i, "ACCEPTED")
    BY <1>1 DEF SponsorshipInvariant, CloseInvitation
  <2> QED BY <2>2, <2>3, ClosedTyped
<1>6. /\ sponsorships'[i] = s
      /\ invitations'[i].state = "ACCEPTED"
      /\ invitations'[i].student = u
      /\ invitations'[i].expiresAt = invitations[i].expiresAt
      /\ \A j \in Invitations \ {i} :
           /\ sponsorships'[j] = sponsorships[j]
           /\ invitations'[j] = invitations[j]
  BY <1>1 DEF SponsorshipInvariant, SponsorshipTyped
<1>7. SponsorshipSound(i)'
  <2>1. /\ s.state = "ACTIVE" /\ s.acceptedAt = at /\ s.grantCount = 0
        /\ s.next = Anniversary(at, 1)
    OBVIOUS
  <2>2. at < invitations[i].expiresAt
    BY <1>1, <1>3, SponsorshipOf
  <2>3. at \in Periods(at, 0)
    BY DEF Periods
  <2> HIDE DEF s
  <2> QED
    BY <1>1, <1>2, <1>3, <1>4, <1>6, <2>1, <2>2, <2>3
       DEF SponsorshipSound, Periods
<1>8. ASSUME NEW j \in Invitations \ {i}, SameStudent(i, j)'
      PROVE  Apart(i, j, ClockLag)'
  <2>1. /\ sponsorships[j].state # "NONE" /\ invitations[j].student = u
        /\ sponsorships'[j] = sponsorships[j]
    BY <1>6, <1>8 DEF SameStudent
  <2>2. sponsorships[j].state = "ENDED"
    BY <1>1, <2>1, SponsorshipOf DEF Sponsored, SponsorshipRows
  <2>3. sponsorships[j].endedAt <= now /\ sponsorships[j].endedAt \in Int
    BY <2>2, SponsorshipOf DEF SponsorshipSound, SponsorshipRows
  <2>4. sponsorships[j].endedAt <= at + ClockLag
    BY <1>3, <2>3
  <2>5. sponsorships'[i].acceptedAt = at
    BY <1>6
  <2> QED BY <2>1, <2>2, <2>4, <2>5 DEF Apart
<1> QED BY <1>1, <1>4, <1>5, <1>6, <1>7, <1>8, SponsorshipUpdate

(* What the invariant says of a Sponsorship that is active.                *)
LEMMA ActiveSponsorship ==
  ASSUME SponsorshipInvariant, NEW i \in Invitations,
         sponsorships[i].state = "ACTIVE"
  PROVE  LET s == sponsorships[i] IN
         /\ s.acceptedAt \in Days /\ s.acceptedAt \in Int
         /\ s.grantCount \in Nat
         /\ Holds(s.acceptedAt, s.grantCount + 1)
         /\ s.next = Anniversary(s.acceptedAt, s.grantCount + 1)
         /\ invitations[i].state = "ACCEPTED"
         /\ invitations[i].student \in Students
         /\ s.acceptedAt < invitations[i].expiresAt
         /\ \A g \in SponsorshipGrants(i) :
              /\ g.period \in Periods(s.acceptedAt, s.grantCount)
              /\ g.period <= now
BY SponsorshipOf DEF SponsorshipSound, SponsorshipRows

(* A step of an active Sponsorship that keeps its start: whoever was apart *)
(* from it had ended before it began.                                      *)
LEMMA ActiveUpdate ==
  ASSUME SponsorshipInvariant, NEW i \in Invitations,
         NEW s \in SponsorshipRows,
         sponsorships[i].state = "ACTIVE", s.state # "NONE",
         s.acceptedAt = sponsorships[i].acceptedAt,
         sponsorships' = [sponsorships EXCEPT ![i] = s],
         UNCHANGED <<now, invitations>>,
         \A j \in Invitations \ {i} :
           SponsorshipGrants(j)' = SponsorshipGrants(j),
         SponsorshipSound(i)'
  PROVE  SponsorshipInvariant'
<1>1. /\ sponsorships' \in [Invitations -> SponsorshipRows]
      /\ sponsorships'[i] = s
      /\ \A j \in Invitations \ {i} : sponsorships'[j] = sponsorships[j]
  BY SponsorshipOf
<1>2. SponsorshipTyped'
  BY <1>1 DEF SponsorshipInvariant, SponsorshipTyped, SponsorshipRows
<1>3. ASSUME NEW j \in Invitations \ {i}, SameStudent(i, j)'
      PROVE  Apart(i, j, ClockLag)'
  <2>1. SameStudent(i, j)
    BY <1>1, <1>3 DEF SameStudent
  <2>2. Apart(i, j, ClockLag)
    BY <2>1 DEF SponsorshipInvariant
  <2>3. /\ sponsorships[j].state = "ENDED"
        /\ sponsorships[j].endedAt <= sponsorships[i].acceptedAt + ClockLag
    BY <2>2 DEF Apart
  <2> QED BY <1>1, <2>3 DEF Apart
<1> QED BY <1>1, <1>2, <1>3, SponsorshipUpdate

LEMMA EndKeeps ==
  ASSUME CreditsInvariant, SponsorshipInvariant, NEW i \in Invitations,
         NEW at \in ClockReadings, EndSponsorship(i, at)
  PROVE  SponsorshipInvariant'
<1> DEFINE r == sponsorships[i]
           s == [r EXCEPT !.state = "ENDED", !.endedAt = at]
<1>1. /\ r.state = "ACTIVE" /\ r \in SponsorshipRows
      /\ sponsorships' = [sponsorships EXCEPT ![i] = s]
      /\ UNCHANGED <<now, creditVars, invitations>>
  BY SponsorshipOf DEF EndSponsorship
<1>2. /\ at \in Int /\ now \in Int /\ at <= now /\ now <= at + ClockLag
      /\ ClockLag \in Nat
  BY ClockTyped DEF ClockReadings, CreditsInvariant, UserTypes
<1>3. /\ s \in SponsorshipRows /\ s.state = "ENDED" /\ s.endedAt = at
      /\ s.acceptedAt = r.acceptedAt /\ s.grantCount = r.grantCount
  <2> HIDE DEF r
  <2> QED BY <1>1, <1>2 DEF SponsorshipRows
<1>4. \A j : SponsorshipGrants(j)' = SponsorshipGrants(j)
  BY <1>1 DEF SponsorshipGrants, creditVars
<1> HIDE DEF s
<1>5. sponsorships'[i] = s
  BY <1>1, SponsorshipOf
<1>6. \A g \in SponsorshipGrants(i) : g.period <= at + ClockLag
  <2> SUFFICES ASSUME NEW g \in SponsorshipGrants(i)
               PROVE  g.period <= at + ClockLag
    OBVIOUS
  <2>1. g.period \in Int /\ g.period <= now
    BY <1>1, PeriodsTyped, ActiveSponsorship DEF CreditsInvariant
  <2> QED BY <1>2, <2>1
<1>7. SponsorshipSound(i)'
  BY <1>1, <1>2, <1>3, <1>4, <1>5, <1>6, ActiveSponsorship
     DEF SponsorshipSound, Periods
<1> QED BY <1>1, <1>3, <1>4, <1>7, ActiveUpdate

(* The worker reaches exactly the next period, in whichever way.           *)
LEMMA GrantDueKeeps ==
  ASSUME CreditsInvariant, SponsorshipInvariant, NEW i \in Invitations,
         GrantDueSponsorshipCredits(i)
  PROVE  SponsorshipInvariant' /\ CreditTypes'
<1> DEFINE r == sponsorships[i]
           s == Advanced(r)
           u == invitations[i].student
<1>1. /\ r.state = "ACTIVE" /\ r \in SponsorshipRows /\ r.next <= now
      /\ sponsorships' = [sponsorships EXCEPT ![i] = s]
      /\ UNCHANGED <<now, invitations>>
      /\ \/ UNCHANGED creditVars
         \/ Grant(u, "ORGANIZATION_CREDIT_GRANT", i, r.next)
  BY SponsorshipOf DEF GrantDueSponsorshipCredits, Due
<1>2. /\ r.acceptedAt \in Days /\ r.grantCount \in Nat
      /\ Holds(r.acceptedAt, r.grantCount + 1)
      /\ r.next = Anniversary(r.acceptedAt, r.grantCount + 1)
      /\ u \in Students
      /\ \A g \in SponsorshipGrants(i) :
           /\ g.period \in Periods(r.acceptedAt, r.grantCount)
           /\ g.period <= now
  BY <1>1, ActiveSponsorship
<1>3. r.next \in Days /\ r.next \in Int
  <2>1. r.grantCount + 1 \in Nat /\ r.next \in Nat
    BY <1>2, AnniversaryInMonth
  <2>2. now \in Nat /\ now <= MaxTime
    BY ClockTyped DEF CreditsInvariant, UserTypes, Days
  <2> QED BY <1>1, <2>1, <2>2, MonthStarts DEF Days
<1>4. /\ Holds(r.acceptedAt, (r.grantCount + 1) + 1)
      /\ Anniversary(r.acceptedAt, r.grantCount + 2) \in Nat
      /\ (r.grantCount + 1) + 1 = r.grantCount + 2
  BY <1>2, <1>3, NextPeriod
<1>5. /\ s \in SponsorshipRows /\ s.state = "ACTIVE"
      /\ s.acceptedAt = r.acceptedAt /\ s.grantCount = r.grantCount + 1
      /\ s.next = Anniversary(r.acceptedAt, r.grantCount + 2)
  <2> DEFINE next == Anniversary(r.acceptedAt, r.grantCount + 2)
  <2>1. s = [r EXCEPT !.grantCount = r.grantCount + 1, !.next = next]
    BY DEF Advanced
  <2>2. r \in SponsorshipRows /\ next \in Int /\ r.grantCount + 1 \in Nat
    BY <1>1, <1>2, <1>4
  <2> HIDE DEF next, s, r
  <2>3. /\ s \in SponsorshipRows /\ s.state = r.state
        /\ s.acceptedAt = r.acceptedAt /\ s.grantCount = r.grantCount + 1
        /\ s.next = next
    BY <2>1, <2>2 DEF SponsorshipRows
  <2> QED BY <1>1, <2>3 DEF next
<1>6. /\ CreditTypes'
      /\ \A g \in SponsorshipGrants(i)' :
           g \in SponsorshipGrants(i) \/ g.period = r.next
      /\ \A j \in Invitations \ {i} :
           SponsorshipGrants(j)' = SponsorshipGrants(j)
  <2>1. CreditTypes
    BY DEF CreditsInvariant
  <2>2. CASE UNCHANGED creditVars
    <3>1. \A j : SponsorshipGrants(j)' = SponsorshipGrants(j)
      BY <2>2 DEF SponsorshipGrants, creditVars
    <3> QED BY <2>1, <2>2, <3>1, CreditsFrame
  <2>3. CASE Grant(u, "ORGANIZATION_CREDIT_GRANT", i, r.next)
    <3>1. CreditTypes'
      BY <1>2, <1>3, <2>1, <2>3, GrantKeepsBalance DEF GrantSources
    <3>2. \A g \in SponsorshipGrants(i)' :
            g \in SponsorshipGrants(i) \/ g.period = r.next
      BY <2>3, GrantIsOwned
    <3>3. \A j \in Invitations \ {i} :
            SponsorshipGrants(j)' = SponsorshipGrants(j)
      BY <2>3, GrantsOfSponsorships
    <3> QED BY <3>1, <3>2, <3>3
  <2> QED BY <1>1, <2>2, <2>3
<1> HIDE DEF s
<1>7. sponsorships'[i] = s
  BY <1>1, SponsorshipOf
<1>8. \A g \in SponsorshipGrants(i)' :
        /\ g.period \in Periods(r.acceptedAt, r.grantCount + 1)
        /\ g.period <= now
  BY <1>1, <1>2, <1>6, PeriodsGrow
<1>9. SponsorshipSound(i)'
  BY <1>1, <1>2, <1>4, <1>5, <1>7, <1>8, ActiveSponsorship
     DEF SponsorshipSound, Periods
<1> QED BY <1>1, <1>5, <1>6, <1>9, ActiveUpdate

----------------------------------------------------------------------------
(* The invariant.                                                          *)

\* What the steps that only pass time or change Users leave alone.
Elsewhere == UNCHANGED <<creditVars, subscriptionVars, sponsorshipVars>>

LEMMA ElsewhereKeeps ==
  ASSUME BenefitsInvariant, UserTypes', now <= now', Elsewhere
  PROVE  BenefitsInvariant'
<1>1. /\ CreditsInvariant /\ SubscriptionInvariant /\ SponsorshipInvariant
      /\ CreditTypes /\ UserTypes
      /\ UNCHANGED creditVars /\ UNCHANGED subscriptionVars
      /\ UNCHANGED sponsorshipVars
  BY DEF BenefitsInvariant, CreditsInvariant, Elsewhere
<1>2. /\ \A v : SubscriptionGrants(v)' = SubscriptionGrants(v)
      /\ \A i : SponsorshipGrants(i)' = SponsorshipGrants(i)
  BY <1>1 DEF SubscriptionGrants, SponsorshipGrants, GrantsTo, creditVars
<1> QED
  BY <1>1, <1>2, CreditsFrame, SubscriptionFrame, SponsorshipFrame
     DEF BenefitsInvariant, CreditsInvariant

\* A step of Subscriptions: it may grant to them.
LEMMA SubscriptionStepKeeps ==
  ASSUME BenefitsInvariant, SubscriptionInvariant', CreditTypes', UserTypes',
         UNCHANGED now, UNCHANGED sponsorshipVars,
         \A i : SponsorshipGrants(i)' = SponsorshipGrants(i)
  PROVE  BenefitsInvariant'
<1>1. now <= now' /\ SponsorshipInvariant /\ UserTypes /\ CreditTypes
  BY ClockTyped DEF UserTypes, BenefitsInvariant, CreditsInvariant
<1> QED BY <1>1, SponsorshipFrame DEF BenefitsInvariant, CreditsInvariant

\* A step of Sponsorships: it may grant to them.
LEMMA SponsorshipStepKeeps ==
  ASSUME BenefitsInvariant, SponsorshipInvariant', CreditTypes',
         UNCHANGED <<now, userVars>>, UNCHANGED subscriptionVars,
         \A v \in Students : SubscriptionGrants(v)' = SubscriptionGrants(v)
  PROVE  BenefitsInvariant'
<1>1. SubscriptionInvariant'
  BY SubscriptionFrame DEF BenefitsInvariant
<1> QED
  BY <1>1 DEF BenefitsInvariant, CreditsInvariant, UserTypes, userVars

LEMMA CreditsStand ==
  ASSUME CreditTypes, UNCHANGED creditVars
  PROVE  /\ CreditTypes'
         /\ \A v : SubscriptionGrants(v)' = SubscriptionGrants(v)
         /\ \A i : SponsorshipGrants(i)' = SponsorshipGrants(i)
BY CreditsFrame DEF SubscriptionGrants, SponsorshipGrants, GrantsTo, creditVars

LEMMA BenefitsInit == Init => BenefitsInvariant
<1> SUFFICES ASSUME Init PROVE BenefitsInvariant
  OBVIOUS
<1> USE DEF Init, CreditInit, SubscriptionInit, SponsorshipInit
<1>1. UserTypes
  BY MonthStarts DEF UserTypes, Days
<1>2. CreditTypes
  <2>1. \A u \in Students : GrantsTo(u) = {}
    BY DEF GrantsTo
  <2>2. IsFiniteSet({}) /\ Cardinality({}) = 0
    BY FS_EmptySet
  <2> QED BY <2>1, <2>2 DEF CreditTypes, BalanceFollowsLedger, GrantSize
<1>3. SubscriptionInvariant
  <2>1. NoSubscription \in Subscriptions /\ NoSubscription.state = "NONE"
    BY NeverTyped DEF NoSubscription, Subscriptions, SubscriptionStates
  <2>2. \A u \in Students : SubscriptionGrants(u) = {}
    BY DEF SubscriptionGrants, GrantsTo
  <2> HIDE DEF NoSubscription
  <2> QED
    BY <2>1, <2>2
       DEF SubscriptionInvariant, SubscriptionTyped, SubscriptionSound, Running
<1>4. SponsorshipInvariant
  <2>1. \A i \in Invitations : SponsorshipGrants(i) = {}
    BY DEF SponsorshipGrants
  <2>2. SponsorshipTyped
    BY DEF SponsorshipTyped, NoInvitation, NoSponsorship, NoInstant
  <2>3. \A i \in Invitations :
          /\ sponsorships[i].state = "NONE" /\ invitations[i].state = "NONE"
    BY DEF NoInvitation, NoSponsorship
  <2> QED
    BY <2>1, <2>2, <2>3
       DEF SponsorshipInvariant, SponsorshipSound, SameStudent
<1> QED BY <1>1, <1>2, <1>3, <1>4 DEF BenefitsInvariant, CreditsInvariant

LEMMA BenefitsStep == BenefitsInvariant /\ [Next]_vars => BenefitsInvariant'
<1> SUFFICES ASSUME BenefitsInvariant, [Next]_vars PROVE BenefitsInvariant'
  OBVIOUS
<1>0. /\ CreditsInvariant /\ SubscriptionInvariant /\ SponsorshipInvariant
      /\ CreditTypes /\ UserTypes
  BY DEF BenefitsInvariant, CreditsInvariant
<1>1. ASSUME NEW e \in Events, ProviderEvent(e), UNCHANGED sponsorshipVars
      PROVE  BenefitsInvariant'
  <2>0. UNCHANGED now /\ UserTypes'
    BY <1>0, <1>1
       DEF ProviderEvent, ActivateSubscription, RenewSubscription,
           ReactivateSubscription, CancelSubscription, DenyEvent, UserTypes,
           userVars
  <2>1. CASE ActivateSubscription(e)
    <3>1. GrantUnlessSuspended(e)
      BY <2>1 DEF ActivateSubscription
    <3> QED
      BY <1>0, <1>1, <2>0, <2>1, <3>1, ActivateKeeps, EventCredits,
         SubscriptionStepKeeps
  <2>2. CASE RenewSubscription(e)
    <3>1. GrantUnlessSuspended(e)
      BY <2>2 DEF RenewSubscription
    <3> QED
      BY <1>0, <1>1, <2>0, <2>2, <3>1, RenewKeeps, EventCredits,
         SubscriptionStepKeeps
  <2>3. CASE ReactivateSubscription(e)
    <3>1. UNCHANGED creditVars
      BY <2>3 DEF ReactivateSubscription
    <3> QED
      BY <1>0, <1>1, <2>0, <2>3, <3>1, ReactivateKeeps, CreditsStand,
         SubscriptionStepKeeps
  <2>4. CASE CancelSubscription(e)
    <3>1. UNCHANGED creditVars
      BY <2>4 DEF CancelSubscription
    <3> QED
      BY <1>0, <1>1, <2>0, <2>4, <3>1, CancelKeeps, CreditsStand,
         SubscriptionStepKeeps
  <2>5. CASE DenyEvent(e)
    <3>1. UNCHANGED creditVars
      BY <2>5 DEF DenyEvent
    <3> QED
      BY <1>0, <1>1, <2>0, <2>5, <3>1, DenyKeeps, CreditsStand,
         SubscriptionStepKeeps
  <2> QED BY <1>1, <2>1, <2>2, <2>3, <2>4, <2>5 DEF ProviderEvent
<1>2. ASSUME NEW u \in Students, ScheduleSubscriptionCancellation(u),
             UNCHANGED sponsorshipVars
      PROVE  BenefitsInvariant'
  <2>1. UNCHANGED creditVars /\ UNCHANGED now /\ UserTypes'
    BY <1>0, <1>2
       DEF ScheduleSubscriptionCancellation, UserTypes, userVars
  <2> QED
    BY <1>0, <1>2, <2>1, ScheduleKeeps, CreditsStand, SubscriptionStepKeeps
<1>3. ASSUME NEW u \in Students, NEW at \in ClockReadings,
             UndoSubscriptionCancellation(u, at), UNCHANGED sponsorshipVars
      PROVE  BenefitsInvariant'
  <2>1. UNCHANGED creditVars /\ UNCHANGED now /\ UserTypes'
    BY <1>0, <1>3 DEF UndoSubscriptionCancellation, UserTypes, userVars
  <2> QED BY <1>0, <1>3, <2>1, UndoKeeps, CreditsStand, SubscriptionStepKeeps
<1>4. ASSUME NEW u \in Removable, NEW at \in ClockReadings,
             RemoveStudentRole(u, at), UNCHANGED sponsorshipVars
      PROVE  BenefitsInvariant'
  <2>1. UNCHANGED creditVars /\ UNCHANGED now /\ UserTypes' /\ u \in Students
    BY <1>0, <1>4, StudentsAssumption DEF RemoveStudentRole, UserTypes
  <2> QED
    BY <1>0, <1>4, <2>1, RemoveRoleKeeps, CreditsStand, SubscriptionStepKeeps
<1>5. ASSUME NEW o \in Organizations, NEW u \in Students,
             NEW i \in Invitations, InviteToSponsorship(o, u, i),
             UNCHANGED subscriptionVars
      PROVE  BenefitsInvariant'
  <2>1. UNCHANGED creditVars /\ UNCHANGED <<now, userVars>>
    BY <1>5 DEF InviteToSponsorship
  <2> QED
    BY <1>0, <1>5, <2>1, InviteKeeps, CreditsStand, SponsorshipStepKeeps
<1>6. ASSUME NEW i \in Invitations, NEW at \in ClockReadings,
             AcceptSponsorshipInvitation(i, at), UNCHANGED subscriptionVars
      PROVE  BenefitsInvariant'
  <2>1. UNCHANGED <<now, userVars>>
    BY <1>6 DEF AcceptSponsorshipInvitation
  <2>2. \A v \in Students : SubscriptionGrants(v)' = SubscriptionGrants(v)
    <3>1. Grant(invitations[i].student, "ORGANIZATION_CREDIT_GRANT", i, at)
      BY <1>6 DEF AcceptSponsorshipInvitation
    <3> QED BY <3>1, GrantsOfSubscriptions
  <2> QED BY <1>0, <1>6, <2>1, <2>2, AcceptKeeps, SponsorshipStepKeeps
<1>7. ASSUME NEW i \in Invitations, NEW at \in ClockReadings,
             DeclineSponsorshipInvitation(i, at), UNCHANGED subscriptionVars
      PROVE  BenefitsInvariant'
  <2>1. /\ UNCHANGED <<now, creditVars, sponsorships>>
        /\ UNCHANGED <<now, userVars>> /\ UNCHANGED creditVars
        /\ invitations[i].state = "PENDING" /\ CloseInvitation(i, "DECLINED")
    BY <1>7 DEF DeclineSponsorshipInvitation, CanRespond
  <2> QED BY <1>0, <1>7, <2>1, CloseKeeps, CreditsStand, SponsorshipStepKeeps
<1>8. ASSUME NEW i \in Invitations, NEW at \in ClockReadings,
             EndSponsorship(i, at), UNCHANGED subscriptionVars
      PROVE  BenefitsInvariant'
  <2>1. UNCHANGED creditVars /\ UNCHANGED <<now, userVars>>
    BY <1>8 DEF EndSponsorship
  <2> QED BY <1>0, <1>8, <2>1, EndKeeps, CreditsStand, SponsorshipStepKeeps
<1>9. ASSUME NEW i \in Invitations, ExpireInvitation(i),
             UNCHANGED subscriptionVars
      PROVE  BenefitsInvariant'
  <2>1. /\ UNCHANGED <<now, creditVars, sponsorships>>
        /\ UNCHANGED <<now, userVars>> /\ UNCHANGED creditVars
        /\ invitations[i].state = "PENDING" /\ CloseInvitation(i, "EXPIRED")
    BY <1>9 DEF ExpireInvitation
  <2> QED BY <1>0, <1>9, <2>1, CloseKeeps, CreditsStand, SponsorshipStepKeeps
<1>10. ASSUME NEW i \in Invitations, GrantDueSponsorshipCredits(i),
              UNCHANGED subscriptionVars
       PROVE  BenefitsInvariant'
  <2>1. UNCHANGED <<now, userVars>>
    BY <1>10 DEF GrantDueSponsorshipCredits
  <2>2. \A v \in Students : SubscriptionGrants(v)' = SubscriptionGrants(v)
    <3>1. \/ UNCHANGED creditVars
          \/ Grant(invitations[i].student, "ORGANIZATION_CREDIT_GRANT", i,
                   sponsorships[i].next)
      BY <1>10 DEF GrantDueSponsorshipCredits
    <3> QED BY <3>1, GrantsOfSubscriptions
  <2> QED BY <1>0, <1>10, <2>1, <2>2, GrantDueKeeps, SponsorshipStepKeeps
<1>11. ASSUME NEW u \in Students,
              SuspendUser(u) \/ ReactivateUser(u) \/ GrantStudentRole(u),
              UNCHANGED <<subscriptionVars, sponsorshipVars>>
       PROVE  BenefitsInvariant'
  <2>1. UserTypes' /\ now <= now' /\ Elsewhere
    BY <1>0, <1>11, ClockTyped
       DEF SuspendUser, ReactivateUser, GrantStudentRole, UserTypes, Elsewhere
  <2> QED BY <2>1, ElsewhereKeeps
<1>12. ASSUME Tick, UNCHANGED <<subscriptionVars, sponsorshipVars>>
       PROVE  BenefitsInvariant'
  <2>1. UserTypes' /\ now <= now' /\ Elsewhere
    BY <1>0, <1>12, MonthStarts DEF Tick, UserTypes, userVars, Elsewhere, Days
  <2> QED BY <2>1, ElsewhereKeeps
<1>13. CASE UNCHANGED vars
  <2>1. UserTypes' /\ now <= now' /\ Elsewhere
    BY <1>0, <1>13, ClockTyped DEF vars, UserTypes, userVars, Elsewhere
  <2> QED BY <2>1, ElsewhereKeeps
<1> QED
  BY <1>1, <1>2, <1>3, <1>4, <1>5, <1>6, <1>7, <1>8, <1>9, <1>10, <1>11,
     <1>12, <1>13, StudentsAssumption DEF Next

LEMMA BenefitsAreInvariant == Spec => []BenefitsInvariant
<1> QED BY BenefitsInit, BenefitsStep, PTL DEF Spec

(* The ledger and the accounts agree, for any provider, worker and number  *)
(* of Students: the grants of GrantUnlessSuspended, of an acceptance and   *)
(* of the worker are an entry and its eight credits or neither.            *)
THEOREM BenefitsReconcile == Spec => []BalanceFollowsLedger
<1>1. BenefitsInvariant => BalanceFollowsLedger
  BY DEF BenefitsInvariant, CreditsInvariant, CreditTypes
<1> QED BY <1>1, BenefitsAreInvariant, PTL

(* Subscriptions and Sponsorships grant for what they reached, keep their  *)
(* anniversaries in any calendar, and Sponsorships of one Student overlap  *)
(* by no more than a transaction takes.                                    *)
THEOREM BenefitsKeepPeriods == Spec => []BenefitsFollowPeriods
<1>1. ASSUME BenefitsInvariant PROVE BenefitsFollowPeriods
  <2>1. SubscriptionFollowsPeriods
    BY <1>1
       DEF BenefitsInvariant, SubscriptionInvariant, SubscriptionSound,
           SubscriptionFollowsPeriods, Running
  <2>2. SponsorshipFollowsPeriods
    BY <1>1
       DEF BenefitsInvariant, SponsorshipInvariant, SponsorshipSound,
           SponsorshipFollowsPeriods
  <2>3. OneSponsorshipAtATime
    BY <1>1
       DEF BenefitsInvariant, SponsorshipInvariant, SponsorshipSound,
           OneSponsorshipAtATime
  <2> QED BY <2>1, <2>2, <2>3 DEF BenefitsFollowPeriods
<1> QED BY <1>1, BenefitsAreInvariant, PTL

(* Every reachable state of the benefits is well-typed: no instant is ever *)
(* taken from outside the calendar.                                        *)
THEOREM BenefitsTyped == Spec => []TypeOK
<1>1. BenefitsInvariant => TypeOK
  BY DEF BenefitsInvariant, CreditsInvariant, CreditTypes, UserTypes,
         SubscriptionInvariant, SubscriptionTyped, SponsorshipInvariant,
         SponsorshipTyped, TypeOK
<1> QED BY <1>1, BenefitsAreInvariant, PTL

----------------------------------------------------------------------------
(* What no step may do.                                                    *)

LEMMA NoGrantNoBackfill ==
  ASSUME UNCHANGED creditVars
  PROVE  NoBackfillStep
BY DEF NoBackfillStep, creditVars

(* A grant to an active User for a period that was not reached before.     *)
LEMMA GrantIsTimely ==
  ASSUME CreditTypes, UserTypes, NEW u \in Students, NEW source, NEW owner,
         NEW period, Grant(u, source, owner, period),
         accessStatus[u] # "SUSPENDED",
         ~Reached(Entry(u, source, owner, period))
  PROVE  NoBackfillStep
<1>1. \A g \in grants' \ grants : g = Entry(u, source, owner, period)
  BY DEF Grant
<1>2. \A v \in Students : v # u => balance'[v] = balance[v]
  BY DEF Grant, CreditTypes
<1> QED BY <1>1, <1>2 DEF NoBackfillStep

LEMMA EventGrantIsTimely ==
  ASSUME CreditsInvariant, NEW e \in Events, GrantUnlessSuspended(e),
         subscription[e.student].state # "NONE" =>
           e.at \notin Periods(subscription[e.student].activatedAt,
                              subscription[e.student].renewals)
  PROVE  NoBackfillStep
<1> DEFINE u == e.student
           g == Entry(u, "SUBSCRIPTION_GRANT", u, e.at)
<1>1. ~Reached(g)
  BY DEF Reached, Entry
<1> QED
  BY <1>1, EventTypes, NoGrantNoBackfill, GrantIsTimely
     DEF GrantUnlessSuspended, Suspended, CreditsInvariant

LEMMA NothingIsGrantedLate ==
  ASSUME BenefitsInvariant, [Next]_vars
  PROVE  NoBackfillStep
<1>0. /\ CreditsInvariant /\ SubscriptionInvariant /\ SponsorshipInvariant
      /\ CreditTypes /\ UserTypes
  BY DEF BenefitsInvariant, CreditsInvariant
<1>1. ASSUME NEW e \in Events, ActivateSubscription(e) PROVE NoBackfillStep
  <2>1. GrantUnlessSuspended(e) /\ subscription[e.student].state = "NONE"
    BY <1>1 DEF ActivateSubscription, CanActivate
  <2> QED BY <1>0, <2>1, EventGrantIsTimely
<1>2. ASSUME NEW e \in Events, RenewSubscription(e) PROVE NoBackfillStep
  <2> DEFINE r == subscription[e.student]
  <2>1. GrantUnlessSuspended(e) /\ r.state = "ACTIVE" /\ r.next = e.at
    BY <1>2 DEF RenewSubscription, CanRenew
  <2>2. r \in Subscriptions /\ SubscriptionSound(e.student)
    BY <1>0, EventTypes, SubscriptionOf
  <2>3. /\ r.activatedAt \in Days /\ r.renewals \in Nat
        /\ Holds(r.activatedAt, r.renewals + 1)
        /\ e.at = Anniversary(r.activatedAt, r.renewals + 1)
    BY <2>1, <2>2 DEF SubscriptionSound, Running, Subscriptions
  <2>4. e.at \notin Periods(r.activatedAt, r.renewals)
    BY <2>3, AnniversariesFollow
  <2> QED BY <1>0, <2>1, <2>4, EventGrantIsTimely
<1>3. ASSUME NEW i \in Invitations, NEW at \in ClockReadings,
             AcceptSponsorshipInvitation(i, at)
      PROVE  NoBackfillStep
  <2> DEFINE u == invitations[i].student
             g == Entry(u, "ORGANIZATION_CREDIT_GRANT", i, at)
  <2>1. /\ invitations[i].state = "PENDING" /\ accessStatus[u] = "ACTIVE"
        /\ Grant(u, "ORGANIZATION_CREDIT_GRANT", i, at)
    BY <1>3 DEF AcceptSponsorshipInvitation, CanRespond
  <2>2. u \in Students /\ sponsorships[i].state = "NONE"
    BY <1>0, <2>1, SponsorshipOf DEF SponsorshipSound
  <2>3. ~Reached(g)
    BY <2>2 DEF Reached, Entry
  <2> QED BY <1>0, <2>1, <2>2, <2>3, GrantIsTimely
<1>4. ASSUME NEW i \in Invitations, GrantDueSponsorshipCredits(i)
      PROVE  NoBackfillStep
  <2> DEFINE u == invitations[i].student
             r == sponsorships[i]
             g == Entry(u, "ORGANIZATION_CREDIT_GRANT", i, r.next)
  <2>1. /\ r.state = "ACTIVE"
        /\ \/ UNCHANGED creditVars
           \/ /\ accessStatus[u] # "SUSPENDED"
              /\ Grant(u, "ORGANIZATION_CREDIT_GRANT", i, r.next)
    BY <1>4 DEF GrantDueSponsorshipCredits, Due
  <2>2. /\ u \in Students
        /\ r.next \notin Periods(r.acceptedAt, r.grantCount)
    BY <1>0, <2>1, ActiveSponsorship, AnniversariesFollow
  <2>3. ~Reached(g)
    BY <2>2 DEF Reached, Entry
  <2> QED BY <1>0, <2>1, <2>2, <2>3, NoGrantNoBackfill, GrantIsTimely
<1>5. ASSUME NEW e \in Events,
             \/ ReactivateSubscription(e) \/ CancelSubscription(e)
             \/ DenyEvent(e)
      PROVE  NoBackfillStep
  BY <1>5, NoGrantNoBackfill
     DEF ReactivateSubscription, CancelSubscription, DenyEvent
<1>6. ASSUME NEW u, NEW at,
             \/ ScheduleSubscriptionCancellation(u)
             \/ UndoSubscriptionCancellation(u, at)
             \/ RemoveStudentRole(u, at)
             \/ SuspendUser(u) \/ ReactivateUser(u) \/ GrantStudentRole(u)
      PROVE  NoBackfillStep
  BY <1>6, NoGrantNoBackfill
     DEF ScheduleSubscriptionCancellation, UndoSubscriptionCancellation,
         RemoveStudentRole, SuspendUser, ReactivateUser, GrantStudentRole
<1>7. ASSUME NEW i, NEW at, NEW o, NEW u,
             \/ InviteToSponsorship(o, u, i)
             \/ DeclineSponsorshipInvitation(i, at)
             \/ EndSponsorship(i, at) \/ ExpireInvitation(i)
      PROVE  NoBackfillStep
  BY <1>7, NoGrantNoBackfill
     DEF InviteToSponsorship, DeclineSponsorshipInvitation, EndSponsorship,
         ExpireInvitation
<1>8. CASE Tick \/ UNCHANGED vars
  BY <1>8, NoGrantNoBackfill DEF Tick, vars
<1> QED
  BY <1>1, <1>2, <1>3, <1>4, <1>5, <1>6, <1>7, <1>8 DEF Next, ProviderEvent

(* An event that is decided was undecided, and its Subscription had not    *)
(* ended.                                                                  *)
LEMMA EventsKeepEnded ==
  ASSUME SubscriptionInvariant, NEW e \in Events, ProviderEvent(e)
  PROVE  /\ \A u \in Students :
              subscription[u].state = "CANCELLED"
                => subscription'[u] = subscription[u]
         /\ \A i \in EventIds : outcome[i] # "NONE" => outcome'[i] = outcome[i]
<1>0. /\ e.student \in Students /\ e.id \in EventIds
      /\ subscription \in [Students -> Subscriptions]
      /\ outcome \in [EventIds -> {"NONE", "SUCCESS", "DENIED"}]
  BY EventTypes DEF SubscriptionInvariant, SubscriptionTyped
<1>1. outcome[e.id] = "NONE"
      /\ \E result : outcome' = [outcome EXCEPT ![e.id] = result]
  BY DEF ProviderEvent, ActivateSubscription, RenewSubscription,
         ReactivateSubscription, CancelSubscription, DenyEvent, Undecided,
         Decide
<1>2. \/ UNCHANGED subscription
      \/ /\ subscription[e.student].state # "CANCELLED"
         /\ \E s : subscription' = [subscription EXCEPT ![e.student] = s]
  BY <1>0 DEF ProviderEvent, ActivateSubscription, RenewSubscription,
         ReactivateSubscription, CancelSubscription, DenyEvent,
         CanActivate, CanRenew, CanReactivate, CanCancel
<1> QED BY <1>0, <1>1, <1>2

LEMMA NothingEndedChanges ==
  ASSUME BenefitsInvariant, [Next]_vars
  PROVE  KeepsEndedStep
<1>0. /\ SubscriptionInvariant /\ SponsorshipInvariant
      /\ subscription \in [Students -> Subscriptions]
      /\ sponsorships \in [Invitations -> SponsorshipRows]
  BY DEF BenefitsInvariant, SubscriptionInvariant, SubscriptionTyped,
         SponsorshipInvariant, SponsorshipTyped, SponsorshipRows
<1>1. ASSUME NEW e \in Events, ProviderEvent(e), UNCHANGED sponsorshipVars
      PROVE  KeepsEndedStep
  BY <1>0, <1>1, EventsKeepEnded DEF KeepsEndedStep, sponsorshipVars
<1>2. ASSUME NEW u \in Students, NEW at, UNCHANGED sponsorshipVars,
             \/ ScheduleSubscriptionCancellation(u)
             \/ UndoSubscriptionCancellation(u, at)
             \/ RemoveStudentRole(u, at)
      PROVE  KeepsEndedStep
  BY <1>0, <1>2
     DEF ScheduleSubscriptionCancellation, UndoSubscriptionCancellation,
         RemoveStudentRole, KeepsEndedStep, sponsorshipVars
<1>3. ASSUME NEW i \in Invitations, NEW at, UNCHANGED subscriptionVars,
             \/ AcceptSponsorshipInvitation(i, at) \/ EndSponsorship(i, at)
             \/ GrantDueSponsorshipCredits(i)
      PROVE  KeepsEndedStep
  <2>1. sponsorships[i].state # "ENDED"
    BY <1>0, <1>3, SponsorshipOf
       DEF AcceptSponsorshipInvitation, EndSponsorship,
           GrantDueSponsorshipCredits, Due, CanRespond, SponsorshipSound
  <2>2. \E s : sponsorships' = [sponsorships EXCEPT ![i] = s]
    BY <1>0, <1>3
       DEF AcceptSponsorshipInvitation, EndSponsorship,
           GrantDueSponsorshipCredits
  <2> QED BY <1>0, <1>3, <2>1, <2>2 DEF KeepsEndedStep, subscriptionVars
<1>4. ASSUME UNCHANGED <<subscriptionVars, sponsorships>>
      PROVE  KeepsEndedStep
  BY <1>4 DEF KeepsEndedStep, subscriptionVars
<1>5. ASSUME NEW o, NEW u, NEW i, NEW at, UNCHANGED subscriptionVars,
             \/ InviteToSponsorship(o, u, i)
             \/ DeclineSponsorshipInvitation(i, at) \/ ExpireInvitation(i)
      PROVE  KeepsEndedStep
  BY <1>4, <1>5
     DEF InviteToSponsorship, DeclineSponsorshipInvitation, ExpireInvitation
<1> QED
  BY <1>1, <1>2, <1>3, <1>4, <1>5, StudentsAssumption
     DEF Next, vars, sponsorshipVars

(* No grant is made up for, and nothing that ended begins again, however   *)
(* late, repeated or out of order events and worker runs are.              *)
THEOREM NothingLateRevives == Spec => NothingIsRevived
<1>1. BenefitsInvariant /\ [Next]_vars
        => [NoBackfillStep /\ KeepsEndedStep]_vars
  BY NothingIsGrantedLate, NothingEndedChanges
<1> QED BY <1>1, BenefitsAreInvariant, PTL DEF Spec, NothingIsRevived

============================================================================
