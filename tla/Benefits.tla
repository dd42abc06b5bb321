------------------------------ MODULE Benefits ------------------------------
(***************************************************************************)
(* The two benefits together: a Student may hold a Subscription and a      *)
(* Sponsorship at once, while an Administrator suspends the User or takes  *)
(* the Student role away and gives it back.                                *)
(***************************************************************************)
EXTENDS Subscription, Sponsorship

vars == <<now, userVars, creditVars, subscriptionVars, sponsorshipVars>>

Init == CreditInit /\ SubscriptionInit /\ SponsorshipInit

Next ==
  \/ \E e \in Events : ProviderEvent(e) /\ UNCHANGED sponsorshipVars
  \/ \E u \in Students :
       ScheduleSubscriptionCancellation(u) /\ UNCHANGED sponsorshipVars
  \/ \E u \in Students, at \in ClockReadings :
       UndoSubscriptionCancellation(u, at) /\ UNCHANGED sponsorshipVars
  \/ \E u \in Removable, at \in ClockReadings :
       RemoveStudentRole(u, at) /\ UNCHANGED sponsorshipVars
  \/ \E o \in Organizations, u \in Students, i \in Invitations :
       InviteToSponsorship(o, u, i) /\ UNCHANGED subscriptionVars
  \/ \E i \in Invitations, at \in ClockReadings :
       AcceptSponsorshipInvitation(i, at) /\ UNCHANGED subscriptionVars
  \/ \E i \in Invitations, at \in ClockReadings :
       DeclineSponsorshipInvitation(i, at) /\ UNCHANGED subscriptionVars
  \/ \E i \in Invitations, at \in ClockReadings :
       EndSponsorship(i, at) /\ UNCHANGED subscriptionVars
  \/ \E i \in Invitations : ExpireInvitation(i) /\ UNCHANGED subscriptionVars
  \/ \E i \in Invitations :
       GrantDueSponsorshipCredits(i) /\ UNCHANGED subscriptionVars
  \/ \E u \in Suspendable :
       SuspendUser(u) /\ UNCHANGED <<subscriptionVars, sponsorshipVars>>
  \/ \E u \in Suspendable :
       ReactivateUser(u) /\ UNCHANGED <<subscriptionVars, sponsorshipVars>>
  \/ \E u \in Removable :
       GrantStudentRole(u) /\ UNCHANGED <<subscriptionVars, sponsorshipVars>>
  \/ Tick /\ UNCHANGED <<subscriptionVars, sponsorshipVars>>

Spec == Init /\ [][Next]_vars

----------------------------------------------------------------------------
(* Invariants.                                                             *)

Subscriptions ==
  [state : SubscriptionStates, activatedAt : Int, renewals : Nat, next : Int,
   cancelAt : Int]

TypeOK ==
  /\ now \in Days
  /\ accessStatus \in [Students -> {"ACTIVE", "SUSPENDED"}]
  /\ studentRole \subseteq Students
  /\ grants \subseteq [student : Students, source : GrantSources,
                       owner : Students \cup Invitations, period : Int]
  /\ balance \in [Students -> Nat]
  /\ subscription \in [Students -> Subscriptions]
  /\ outcome \in [EventIds -> {"NONE", "SUCCESS", "DENIED"}]
  /\ invitations \in
       [Invitations ->
          [state : {"NONE", "PENDING", "ACCEPTED", "DECLINED", "EXPIRED"},
           student : Students \cup {Nobody},
           organization : Organizations \cup {Nobody}, expiresAt : Int]]
  /\ sponsorships \in
       [Invitations ->
          [state : {"NONE", "ACTIVE", "ENDED"}, acceptedAt : Int,
           grantCount : Nat, next : Int, endedAt : Int]]

GrantsTo(u) == {g \in grants : g.student = u}

SubscriptionGrants(u) == {g \in GrantsTo(u) : g.source = "SUBSCRIPTION_GRANT"}

SponsorshipGrants(i) ==
  {g \in grants : g.source = "ORGANIZATION_CREDIT_GRANT" /\ g.owner = i}

\* The periods a benefit has reached: its start and n anniversaries of it.
Periods(start, n) == {start} \cup {Anniversary(start, k) : k \in 1 .. n}

(* The ledger and the account agree on what was granted: eight credits for *)
(* each period with an entry, however often its event or job is repeated   *)
(* (ADR 0011).  What Bookings and adjustments do to the account is         *)
(* Marketplace's CreditsReconcile.                                         *)
BalanceFollowsLedger ==
  \A u \in Students : balance[u] = GrantSize * Cardinality(GrantsTo(u))

(* However late, repeated or out of order the provider's events are, every *)
(* Subscription grant is for a period the Subscription has reached, and    *)
(* the next period is the next anniversary of the activation itself, never *)
(* one drifting with the short months in between.                          *)
SubscriptionFollowsPeriods ==
  \A u \in Students :
    LET s == subscription[u] IN
    /\ \A g \in SubscriptionGrants(u) :
         s.state # "NONE" /\ g.period \in Periods(s.activatedAt, s.renewals)
    /\ s.state \in {"ACTIVE", "CANCELLATION_SCHEDULED"}
         => s.next = Anniversary(s.activatedAt, s.renewals + 1)
    /\ s.state = "CANCELLATION_SCHEDULED" => s.cancelAt = s.next

(* A Sponsorship grants for reached periods only, none of them later than  *)
(* the clock or, by more than the time a transaction takes, than its end,  *)
(* and keeps its anniversary however late the worker comes.                *)
SponsorshipFollowsPeriods ==
  \A i \in Invitations :
    LET s == sponsorships[i] IN
    /\ \A g \in SponsorshipGrants(i) :
         /\ g.period \in Periods(s.acceptedAt, s.grantCount)
         /\ g.period <= now
         /\ s.state = "ENDED" => g.period <= s.endedAt + ClockLag
    /\ s.state = "ACTIVE" =>
         s.next = Anniversary(s.acceptedAt, s.grantCount + 1)

\* As half-open intervals, slack apart.
Apart(i, j, slack) ==
  LET Before(s, r) == s.state = "ENDED" /\ s.endedAt <= r.acceptedAt + slack IN
  \/ Before(sponsorships[i], sponsorships[j])
  \/ Before(sponsorships[j], sponsorships[i])

SameStudent(i, j) ==
  /\ i # j
  /\ sponsorships[i].state # "NONE" /\ sponsorships[j].state # "NONE"
  /\ invitations[i].student = invitations[j].student

(* Whatever invitations of several Organizations are open at once, a       *)
(* Student has one active Sponsorship at most, and two Sponsorships        *)
(* overlap by no more than the time a transaction takes; each began while  *)
(* its invitation was open.                                                *)
OneSponsorshipAtATime ==
  /\ \A i \in Invitations :
       sponsorships[i].state # "NONE" =>
         /\ invitations[i].state = "ACCEPTED"
         /\ sponsorships[i].acceptedAt < invitations[i].expiresAt
  /\ \A i, j \in Invitations : SameStudent(i, j) => Apart(i, j, ClockLag)

(* Subscriptions and Sponsorships keep their anniversaries, grant for what *)
(* they reached, and do not overlap.                                       *)
BenefitsFollowPeriods ==
  /\ SubscriptionFollowsPeriods
  /\ SponsorshipFollowsPeriods
  /\ OneSponsorshipAtATime

----------------------------------------------------------------------------
(* What no step may do.                                                    *)

\* The owner of an entry has reached the entry's period.
Reached(g) ==
  IF g.source = "SUBSCRIPTION_GRANT"
  THEN LET s == subscription[g.owner] IN
       s.state # "NONE" /\ g.period \in Periods(s.activatedAt, s.renewals)
  ELSE LET s == sponsorships[g.owner] IN
       s.state # "NONE" /\ g.period \in Periods(s.acceptedAt, s.grantCount)

(* A grant is made as its period is reached or never: a period skipped     *)
(* because its Student was suspended is not made up for by a repeated      *)
(* event or a late worker, and a suspended Student gains nothing (ADR      *)
(* 0049, "skipped without backfill").                                      *)
NoBackfillStep ==
  /\ \A g \in grants' \ grants : ~Reached(g)
  /\ \A u \in Students :
       accessStatus[u] = "SUSPENDED" => balance'[u] = balance[u]

(* A Subscription that has ended stays ended, although events for it may   *)
(* still arrive and the Student role may be granted again (ADR 0033), and  *)
(* an event once decided keeps its outcome.                                *)
KeepsEndedStep ==
  /\ \A u \in Students :
       subscription[u].state = "CANCELLED"
         => subscription'[u] = subscription[u]
  /\ \A i \in EventIds : outcome[i] # "NONE" => outcome'[i] = outcome[i]
  /\ \A i \in Invitations :
       sponsorships[i].state = "ENDED" => sponsorships'[i] = sponsorships[i]

(* What is over is over: no grant is made up for, nothing that has ended   *)
(* begins again, whatever arrives late.                                    *)
NothingIsRevived == [][NoBackfillStep /\ KeepsEndedStep]_vars

============================================================================
