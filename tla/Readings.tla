------------------------------ MODULE Readings ------------------------------
(***************************************************************************)
(* How the operational watch reads the deployment, which conditions it     *)
(* finds firing, and the one incident it keeps in memory: that PostgreSQL  *)
(* cannot be reached (src/apps/backend/src/observability,                  *)
(* operational-observations.ts, alert-evaluation.ts, operational-watch.ts).*)
(*                                                                         *)
(* A reading begins with a probe.  Its queries then run side by side on    *)
(* connections of their own, so each sees the deployment at an instant of  *)
(* its own; what it saw is a choice among what was there since the probe.  *)
(* The durable incidents are taken here as the fingerprints that are open; *)
(* their lifecycle is module Incidents.                                    *)
(*                                                                         *)
(* Ages, depths and counts go up to the value that passes their limit;     *)
(* MaxChanges bounds the changes of the deployment and MaxReadings the     *)
(* readings.                                                               *)
(***************************************************************************)
EXTENDS Naturals

CONSTANTS
  JobTypes,        \* tasks of the worker that may be exhausted
  FailureCodes,    \* safe failure codes of exhausted emails
  Integrations,    \* third-party integrations
  Limit,           \* every limit of the policy
  Probes,          \* readings that confirm and that clear an outage
  MaxRebuildAttempts,
  MaxChanges, MaxReadings

ASSUME ReadingsAssumption ==
  /\ Limit \in Nat \ {0} /\ Probes \in Nat \ {0}
  /\ MaxRebuildAttempts \in Nat /\ MaxChanges \in Nat /\ MaxReadings \in Nat

VARIABLES
  facts,           \* the deployment
  changes,         \* how often it changed
  sights,          \* the deployment at each instant since the probe, or {}
  readings,        \* how many readings began
  outage,          \* the watch's memory of an unreachable database
  streak,          \* unreachable readings in a row (history)
  alerts,          \* alerts sent about outages
  untold,          \* confirmed outages whose recovery nobody will hear of
  durable,         \* fingerprints of the open incidents
  lastReading      \* what the last complete reading saw and did (history)

readingVars == <<facts, changes, sights, readings, outage, streak, alerts,
                 untold, durable, lastReading>>

NoOutage == [observations |-> 0, healthy |-> 0, confirmed |-> FALSE]
Ages == 0 .. Limit + 1
NoAge == Limit + 2     \* nothing to measure from: past every limit

-----------------------------------------------------------------------------
(* What fires of a snapshot.  A fingerprint is the family of the condition  *)
(* and a discriminator, the condition itself where it needs no other, or    *)
(* the number of the rebuild.                                               *)

Readiness == "api-database-readiness"
Worker == "worker-heartbeat-backlog-exhaustion"
Fixtures == "canonical-rebuild-fixture-reconciliation"
Notifications == "notification-reconciliation"
ThirdParties == "third-party-integrations"
Abuse == "abusive-traffic-and-credential-exposure"

\* Mutant: conditions of a family share an incident.
OfFamily(condition, family, discriminator) ==
  [condition |-> condition, print |-> <<family, "all", 0>>]
Fires(condition, family, discriminator) ==
  [condition |-> condition, print |-> <<family, discriminator, 0>>]
OfRebuild(condition, attempt) ==
  [condition |-> condition, print |-> <<Fixtures, "rebuild", attempt>>]
Once(condition, family) == Fires(condition, family, condition)
When(holds, firing) == IF holds THEN {firing} ELSE {}

Unreachable == Once("readiness.database-unreachable", Readiness)

ReadinessFiring(s) ==
  When(s.schema # "EXPECTED", Once("readiness.schema-incompatible", Readiness))

\* A worker that never wrote a heartbeat is stale; the age of a heartbeat may
\* reach its limit, those of the queue must pass theirs.
WorkerFiring(s) ==
  When(s.heartbeat >= Limit, Once("worker.heartbeat-stale", Worker))
  \cup When(s.runnable > Limit, Once("worker.queue-backlog", Worker))
  \cup {Fires("worker.jobs-exhausted", Worker, j) : j \in s.exhausted}

\* Both rebuild conditions are about one attempt; without an anchor a rebuild
\* and a reconciliation are overdue.
FixturesFiring(s) ==
  (IF s.maintenance = "INDETERMINATE"
   THEN {OfRebuild("fixtures.rebuild-indeterminate", s.attempt)}
   ELSE When(s.rebuilt = "ROLLED_BACK",
             OfRebuild("fixtures.rebuild-rolled-back", s.attempt)))
  \cup When(s.sinceRebuild >= Limit, Once("fixtures.rebuild-overdue", Fixtures))
  \cup When(s.sinceReconciled >= Limit,
            Once("fixtures.reconciliation-overdue", Fixtures))

\* An integration's reading counts failures and correlations, and fires where
\* both reach their limits; one number stands for both here.
DeliveryFiring(s) ==
  {Fires("notifications.delivery-exhausted", Notifications, c) : c \in s.emails}
  \cup {Fires("integrations.repeated-failures", ThirdParties, i) :
          i \in {j \in Integrations : s.failures[j] >= Limit}}

\* Refusals that present no verifiable source are counted apart.
AbuseFiring(s) ==
  When(s.atLimit >= Limit, Once("abuse.source-at-limit", Abuse))
  \cup When(s.refused >= Limit, Once("abuse.aggregate-refusals", Abuse))
  \cup When(s.denied >= Limit, Once("abuse.denied-authorization", Abuse))
  \cup When(s.unverified >= Limit,
            Once("abuse.unverified-source-refusals", Abuse))

\* Of an unreachable database nothing else is known.
Evaluated(s) ==
  IF ~s.reachable THEN {Unreachable}
  ELSE ReadinessFiring(s) \cup WorkerFiring(s) \cup FixturesFiring(s)
       \cup DeliveryFiring(s) \cup AbuseFiring(s)

PrintsOf(s) == {f.print : f \in Evaluated(s)}

-----------------------------------------------------------------------------
(* The deployment.                                                         *)

Healthy ==
  [reachable |-> TRUE, schema |-> "EXPECTED", heartbeat |-> 0, runnable |-> 0,
   exhausted |-> {}, maintenance |-> "AVAILABLE", rebuilt |-> "NONE",
   attempt |-> 0, sinceRebuild |-> 0, sinceReconciled |-> 0, emails |-> {},
   failures |-> [i \in Integrations |-> 0], atLimit |-> 0, refused |-> 0,
   denied |-> 0, unverified |-> 0]

ReadingsInit ==
  /\ facts = Healthy
  /\ changes = 0 /\ readings = 0
  /\ sights = {}
  /\ outage = NoOutage /\ streak = 0
  /\ alerts = [confirmed |-> 0, recovered |-> 0, after |-> Probes]
  /\ untold = 0
  /\ durable = {}
  /\ lastReading = [sights |-> {Healthy}, firing |-> {}, opened |-> {},
                    cleared |-> {}]

WatchUnchanged ==
  UNCHANGED <<readings, outage, streak, alerts, untold, durable, lastReading>>

\* The deployment changes, also while it is being read.
Turned(f) ==
  /\ changes < MaxChanges /\ changes' = changes + 1
  /\ f # facts
  /\ facts' = f
  /\ sights' = IF sights = {} THEN {} ELSE sights \cup {f}
  /\ WatchUnchanged

Toggled(set, x) == IF x \in set THEN set \ {x} ELSE set \cup {x}

DatabaseChanges ==
  \/ Turned([facts EXCEPT !.reachable = ~@])
  \/ Turned([facts EXCEPT !.schema =
                 IF @ = "OLDER" THEN "EXPECTED" ELSE "OLDER"])
WorkerChanges ==
  \/ \E a \in Ages \cup {NoAge} : Turned([facts EXCEPT !.heartbeat = a])
  \/ \E a \in Ages : Turned([facts EXCEPT !.runnable = a])
  \/ \E j \in JobTypes : Turned([facts EXCEPT !.exhausted = Toggled(@, j)])
  \/ \E c \in FailureCodes : Turned([facts EXCEPT !.emails = Toggled(@, c)])
CountsChange ==
  \/ \E i \in Integrations, n \in Ages :
       Turned([facts EXCEPT !.failures[i] = n])
  \/ \E n \in Ages : \/ Turned([facts EXCEPT !.atLimit = n])
                     \/ Turned([facts EXCEPT !.refused = n])
                     \/ Turned([facts EXCEPT !.denied = n])
                     \/ Turned([facts EXCEPT !.unverified = n])
\* A rebuild starts, and completes, is rolled back or is left indeterminate,
\* also after it was completed; the owner reopens what is indeterminate.
RebuildTurns(state, outcome) ==
  Turned([facts EXCEPT !.maintenance = state, !.rebuilt = outcome])
RebuildChanges ==
  \/ /\ facts.maintenance # "REBUILDING"
     /\ facts.attempt < MaxRebuildAttempts
     /\ Turned([facts EXCEPT !.maintenance = "REBUILDING",
                              !.rebuilt = "STARTED", !.attempt = @ + 1])
  \/ /\ facts.maintenance = "REBUILDING"
     /\ \/ Turned([facts EXCEPT !.maintenance = "AVAILABLE",
                                 !.rebuilt = "COMPLETED", !.sinceRebuild = 0])
        \/ RebuildTurns("AVAILABLE", "ROLLED_BACK")
        \/ RebuildTurns("INDETERMINATE", "INDETERMINATE")
  \/ /\ facts.maintenance = "AVAILABLE" /\ facts.rebuilt = "COMPLETED"
     /\ \E outcome \in {"COMPLETED", "INDETERMINATE"} :
          RebuildTurns("INDETERMINATE", outcome)
  \/ /\ facts.maintenance = "INDETERMINATE"
     /\ RebuildTurns("AVAILABLE", facts.rebuilt)
  \/ \E a \in Ages : \/ Turned([facts EXCEPT !.sinceRebuild = a])
                     \/ Turned([facts EXCEPT !.sinceReconciled = a])

-----------------------------------------------------------------------------
(* A reading.                                                              *)

\* observing: one at a time.
Probe ==
  /\ sights = {}
  /\ readings < MaxReadings /\ readings' = readings + 1
  /\ sights' = {facts}
  /\ UNCHANGED <<facts, changes, outage, streak, alerts, untold, durable,
                 lastReading>>

\* Each query saw one of the sights.
Seen(field) == {s[field] : s \in sights}
Snapshots ==
  {[Healthy EXCEPT !.schema = a, !.heartbeat = b, !.runnable = c,
                   !.exhausted = d, !.maintenance = e,
                   !.rebuilt = f.rebuilt, !.attempt = f.attempt,
                   !.sinceRebuild = g, !.sinceReconciled = h, !.emails = i,
                   !.failures = k.failures, !.atLimit = k.atLimit,
                   !.refused = k.refused, !.denied = k.denied,
                   !.unverified = k.unverified] :
     a \in Seen("schema"), b \in Seen("heartbeat"), c \in Seen("runnable"),
     d \in Seen("exhausted"), e \in Seen("maintenance"), f \in sights,
     g \in Seen("sinceRebuild"), h \in Seen("sinceReconciled"),
     i \in Seen("emails"), k \in sights}

WasUnreachable == \E s \in sights : ~s.reachable

\* The probe failed.  A healthy reading before the confirmation restarts it.
OutageInterrupted == outage.healthy > 0 /\ ~outage.confirmed

\* Mutant: every unreachable reading since the first counts.
DownSoFar ==
  LET n == outage.observations + 1
  IN  [observations |-> IF n > Probes THEN Probes ELSE n, healthy |-> 0,
       confirmed |-> outage.confirmed \/ n >= Probes]

Down ==
  LET n == IF OutageInterrupted THEN 1 ELSE outage.observations + 1
  IN  [observations |-> IF n > Probes THEN Probes ELSE n, healthy |-> 0,
       confirmed |-> outage.confirmed \/ n >= Probes]

ReadUnreachable ==
  /\ WasUnreachable
  /\ sights' = {}
  /\ outage' = Down
  /\ streak' = IF streak = Probes THEN Probes ELSE streak + 1
  /\ alerts' = IF Down.confirmed /\ ~outage.confirmed
             THEN [alerts EXCEPT !.confirmed = @ + 1, !.after = streak']
             ELSE alerts
  /\ UNCHANGED <<facts, changes, readings, untold, durable, lastReading>>

\* The probe was answered, and so is what follows; the outage is over after
\* its number of readings.
Up ==
  IF outage = NoOutage THEN NoOutage
  ELSE [outage EXCEPT !.healthy = @ + 1]
Ends == outage # NoOutage /\ Up.healthy >= Probes
EndsToldOutage == Ends /\ outage.confirmed
ProbeAnswered ==
  /\ sights # {} /\ \E s \in sights : s.reachable
  /\ sights' = {}
  /\ outage' = IF Ends THEN NoOutage ELSE Up
  /\ streak' = 0
  /\ UNCHANGED <<facts, changes, readings>>

\* A fingerprint that does not fire is cleared when its rule is satisfied: by
\* the owner alone for rebuilds, integrations and abuse, at once where the
\* records are the condition, and after a time otherwise.
VerifiedByOwner ==
  {"fixtures.rebuild-rolled-back", "fixtures.rebuild-indeterminate",
   "integrations.repeated-failures"}
NeverCleared ==
  VerifiedByOwner \cup
  {"abuse.source-at-limit", "abuse.aggregate-refusals",
   "abuse.denied-authorization", "abuse.unverified-source-refusals"}
ClearedAtOnce ==
  {"worker.jobs-exhausted", "fixtures.rebuild-overdue",
   "fixtures.reconciliation-overdue", "notifications.delivery-exhausted"}

ReadAnswered(snapshot) ==
  LET firing == Evaluated(snapshot)
      prints == {f.print : f \in firing}
      open == {f.print : f \in durable}
      quiet == {f \in durable : f.print \notin prints}
      may == {f \in quiet : f.condition \notin NeverCleared}
      must == {f \in quiet : f.condition \in ClearedAtOnce}
      opened == {f \in firing : f.print \notin open}
  IN  /\ ProbeAnswered
      /\ alerts' = IF EndsToldOutage
                   THEN [alerts EXCEPT !.recovered = @ + 1] ELSE alerts
      /\ \E cleared \in SUBSET may :
           /\ must \subseteq cleared
           /\ durable' = (durable \ cleared) \cup opened
           /\ lastReading' = [sights |-> sights, firing |-> firing,
                              opened |-> opened, cleared |-> cleared]
      /\ UNCHANGED untold

\* A query that fails after the probe: the reading counts for nothing.
QueriesFail ==
  /\ WasUnreachable /\ \E s \in sights : s.reachable
  /\ sights' = {}
  /\ UNCHANGED <<facts, changes, readings, outage, streak, alerts, untold,
                 durable, lastReading>>

\* The reading was answered and its record fails: an outage that it ended is
\* forgotten and its alerts are not sent.
RecordFails ==
  /\ ProbeAnswered
  /\ untold' = IF EndsToldOutage THEN untold + 1 ELSE untold
  /\ UNCHANGED <<alerts, durable, lastReading>>

\* The process of the API restarts and forgets.
RestartWatch ==
  /\ outage # NoOutage
  /\ outage' = NoOutage /\ sights' = {} /\ streak' = 0
  /\ untold' = IF outage.confirmed THEN untold + 1 ELSE untold
  /\ UNCHANGED <<facts, changes, readings, alerts, durable, lastReading>>

\* The owner clears what the readings may not.
OwnerVerifies(f) ==
  /\ f \in durable /\ f.condition \in NeverCleared
  /\ durable' = durable \ {f}
  /\ UNCHANGED <<facts, changes, sights, readings, outage, streak, alerts,
                 untold, lastReading>>

ReadingsNext ==
  \/ DatabaseChanges \/ WorkerChanges \/ CountsChange \/ RebuildChanges
  \/ Probe \/ ReadUnreachable \/ QueriesFail \/ RecordFails \/ RestartWatch
  \/ \E s \in Snapshots : ReadAnswered(s)
  \/ \E f \in durable : OwnerVerifies(f)

ReadingsSpec == ReadingsInit /\ [][ReadingsNext]_readingVars

-----------------------------------------------------------------------------
\* An outage is told of once: every confirmation is answered by a recovery,
\* belongs to the outage that lasts, or was forgotten when the process stopped
\* or the record of the reading failed; and it follows the number of
\* unreachable readings in a row (operational-watch.ts, observe).
OutagesAreToldOnce ==
  /\ alerts.confirmed = alerts.recovered + untold
                        + (IF outage.confirmed THEN 1 ELSE 0)
  /\ alerts.after >= Probes

RebuildConditions ==
  {"fixtures.rebuild-rolled-back", "fixtures.rebuild-indeterminate"}
EverFired(f) ==
  \E s \in lastReading.sights : f \in Evaluated([s EXCEPT !.reachable = TRUE])
EverQuiet(f) ==
  \E s \in lastReading.sights :
    f.print \notin PrintsOf([s EXCEPT !.reachable = TRUE])

\* Although the queries of a reading see different instants, what it opens
\* fired and what it clears did not fire at one of them; only a rebuild that
\* starts during the reading may be taken for the one before it.  Nor do two
\* conditions of one reading share an incident, which would be opened twice
\* (evaluateOperationalAlerts, observeOperationalState).
ReadingsAreTrue ==
  /\ \A f \in lastReading.opened :
       \/ EverFired(f)
       \/ /\ f.condition \in RebuildConditions
          /\ \E s, t \in lastReading.sights : s.attempt # t.attempt
  /\ \A f \in lastReading.cleared : EverQuiet(f)
  /\ \A f, g \in lastReading.firing : f.print = g.print => f = g

WatchIsHonest == OutagesAreToldOnce /\ ReadingsAreTrue
=============================================================================
