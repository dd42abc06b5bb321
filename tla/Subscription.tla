---------------------------- MODULE Subscription ----------------------------
(***************************************************************************)
(* Monthly Subscriptions, driven by the events of a provider that may be   *)
(* delivered late, repeatedly and in any order.  An event is decided once: *)
(* its outcome, a denial included, is stored under its identifier, and     *)
(* later deliveries only read it (no action).                              *)
(***************************************************************************)
EXTENDS CreditGrants

CONSTANT Events      \* the provider's events: id, type, student, at

EventIds == {e.id : e \in Events}

ASSUME EventsAssumption ==
  Events \subseteq [id : EventIds, student : Students, at : Days,
                    type : {"ACTIVATED", "RENEWED", "CANCELLED", "REACTIVATED"}]

VARIABLES
  subscription,  \* subscriptions, one row for each Student at most
  outcome        \* subscription_provider_events

subscriptionVars == <<subscription, outcome>>

Never == -1

SubscriptionStates == {"NONE", "ACTIVE", "CANCELLATION_SCHEDULED", "CANCELLED"}

NoSubscription ==
  [state |-> "NONE", activatedAt |-> Never, renewals |-> 0, next |-> Never,
   cancelAt |-> Never]

SubscriptionInit ==
  /\ subscription = [u \in Students |-> NoSubscription]
  /\ outcome = [i \in EventIds |-> "NONE"]

----------------------------------------------------------------------------
(* Provider events.  A User without the Student role is not found, and     *)
(* nothing is remembered of the event.                                     *)

Undecided(e) == outcome[e.id] = "NONE" /\ e.student \in studentRole

Suspended(u) == accessStatus[u] = "SUSPENDED"

Decide(e, result) == outcome' = [outcome EXCEPT ![e.id] = result]

PeriodGranted(u, period) ==
  Entry(u, "SUBSCRIPTION_GRANT", u, period) \in grants

CanActivate(e) ==
  e.type = "ACTIVATED" /\ subscription[e.student].state = "NONE"

CanRenew(e) ==
  LET s == subscription[e.student] IN
  /\ e.type = "RENEWED"
  /\ s.state = "ACTIVE"
  /\ s.next = e.at
  /\ ~Suspended(e.student) => ~PeriodGranted(e.student, e.at)

\* Mutant: whatever the state.
CanReactivateCancelled(e) ==
  /\ e.type = "REACTIVATED"
  /\ subscription[e.student].state \in {"CANCELLATION_SCHEDULED", "CANCELLED"}

CanReactivate(e) ==
  LET s == subscription[e.student] IN
  /\ e.type = "REACTIVATED"
  /\ s.state = "CANCELLATION_SCHEDULED"
  /\ e.at < s.cancelAt

CanCancel(e) ==
  LET s == subscription[e.student] IN
  /\ e.type = "CANCELLED"
  /\ s.state = "CANCELLATION_SCHEDULED"
  /\ s.cancelAt = e.at

Activated(at) ==
  [state |-> "ACTIVE", activatedAt |-> at, renewals |-> 0,
   next |-> Anniversary(at, 1), cancelAt |-> Never]

\* Mutant: the anniversary of the anniversary.
RenewedFromLast(s) ==
  [s EXCEPT !.renewals = @ + 1, !.next = Anniversary(s.next, 1)]

Renewed(s) ==
  [s EXCEPT !.renewals = @ + 1,
            !.next = Anniversary(s.activatedAt, s.renewals + 2)]

\* Mutant: suspension is not looked at.
GrantAnyway(e) == Grant(e.student, "SUBSCRIPTION_GRANT", e.student, e.at)

\* A suspended Student gets a period without its credits.
GrantUnlessSuspended(e) ==
  IF Suspended(e.student)
  THEN UNCHANGED creditVars
  ELSE Grant(e.student, "SUBSCRIPTION_GRANT", e.student, e.at)

ActivateSubscription(e) ==
  /\ Undecided(e)
  /\ CanActivate(e)
  /\ subscription' = [subscription EXCEPT ![e.student] = Activated(e.at)]
  /\ GrantUnlessSuspended(e)
  /\ Decide(e, "SUCCESS")
  /\ UNCHANGED <<now, userVars>>

RenewSubscription(e) ==
  /\ Undecided(e)
  /\ CanRenew(e)
  /\ subscription' = [subscription EXCEPT ![e.student] = Renewed(@)]
  /\ GrantUnlessSuspended(e)
  /\ Decide(e, "SUCCESS")
  /\ UNCHANGED <<now, userVars>>

ReactivateSubscription(e) ==
  /\ Undecided(e)
  /\ CanReactivate(e)
  /\ subscription' = [subscription EXCEPT ![e.student].state = "ACTIVE",
                                          ![e.student].cancelAt = Never]
  /\ Decide(e, "SUCCESS")
  /\ UNCHANGED <<now, userVars, creditVars>>

CancelSubscription(e) ==
  /\ Undecided(e)
  /\ CanCancel(e)
  /\ subscription' = [subscription EXCEPT ![e.student].state = "CANCELLED",
                                          ![e.student].next = Never]
  /\ Decide(e, "SUCCESS")
  /\ UNCHANGED <<now, userVars, creditVars>>

DenyEvent(e) ==
  /\ Undecided(e)
  /\ ~(CanActivate(e) \/ CanRenew(e) \/ CanReactivate(e) \/ CanCancel(e))
  /\ Decide(e, "DENIED")
  /\ UNCHANGED <<now, userVars, creditVars, subscription>>

ProviderEvent(e) ==
  \/ ActivateSubscription(e)
  \/ RenewSubscription(e)
  \/ ReactivateSubscription(e)
  \/ CancelSubscription(e)
  \/ DenyEvent(e)

----------------------------------------------------------------------------
(* The Student's own requests, and the end of the Student role.            *)

ScheduleSubscriptionCancellation(u) ==
  /\ ~Suspended(u)
  /\ subscription[u].state = "ACTIVE"
  /\ subscription' = [subscription EXCEPT
                        ![u].state = "CANCELLATION_SCHEDULED",
                        ![u].cancelAt = subscription[u].next]
  /\ UNCHANGED <<now, userVars, creditVars, outcome>>

UndoSubscriptionCancellation(u, at) ==
  /\ ~Suspended(u)
  /\ subscription[u].state = "CANCELLATION_SCHEDULED"
  /\ at < subscription[u].cancelAt
  /\ subscription' = [subscription EXCEPT ![u].state = "ACTIVE",
                                          ![u].cancelAt = Never]
  /\ UNCHANGED <<now, userVars, creditVars, outcome>>

\* What removeRoleAssignment does to the Subscription and the role; what it
\* does to Bookings and Waitlist Entries is RoleAccess's.
RemoveStudentRole(u, at) ==
  /\ u \in studentRole
  /\ studentRole' = studentRole \ {u}
  /\ subscription' = [subscription EXCEPT ![u] =
       IF @.state \in {"ACTIVE", "CANCELLATION_SCHEDULED"}
       THEN [@ EXCEPT !.state = "CANCELLED", !.next = Never, !.cancelAt = at]
       ELSE @]
  /\ UNCHANGED <<now, accessStatus, creditVars, outcome>>

============================================================================
