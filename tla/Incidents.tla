----------------------------- MODULE Incidents -----------------------------
(***************************************************************************)
(* Operational incidents and the alerts about them.  The watch reads the   *)
(* state of the deployment at an interval and folds the conditions that    *)
(* hold into the open incidents; the API reports a condition outright; the *)
(* owner clears what they verified.  None of them uses a transaction: each *)
(* decides from the rows it read first, each statement commits by itself,  *)
(* and what it has to tell the owner is sent when the call has come to its *)
(* end, so a statement that fails loses it.                                *)
(* A window of time is measured in observations: one that is sustained may *)
(* be taken as over from the second observation on, and is over after its  *)
(* number of them.                                                         *)
(***************************************************************************)
EXTENDS Naturals, FiniteSets

CONSTANTS
  Conditions, Reported,       \* all of them, and those the API reports
  Fingerprints, FingerprintOf,
  Severe,                     \* severity IMMEDIATE
  ConfirmAfter, Sustained,    \* confirmation: observations, or a time of them
  ClearAfter, HealthyFor,     \* clearing: healthy readings, or a time of them
  OwnerVerified,              \* cleared by the owner alone
  MaxIncidents,               \* rows ever inserted
  Reporters, Owners

Watch == "WATCH"

\* A reported condition has a fingerprint of its own.
ASSUME IncidentsAssumption ==
  /\ Watch \notin Reporters \cup Owners
  /\ \A c \in Reported, d \in Conditions :
       FingerprintOf[d] = FingerprintOf[c] => d = c
  /\ FingerprintOf \in [Conditions -> Fingerprints]
  /\ Reported \subseteq Conditions /\ Severe \subseteq Conditions
  /\ ConfirmAfter \in [Conditions -> Nat \ {0}]
  /\ ClearAfter \in [Conditions -> Nat \ {0}]
  /\ MaxIncidents \in Nat

VARIABLES
  holding,         \* conditions that hold of the deployment
  incident,        \* operational_incidents
  call,            \* what the watch, each reporter and each owner is doing
  alerted          \* alerts sent about each incident, by kind

incidentVars == <<holding, incident, call, alerted>>

Incidents == 1 .. MaxIncidents
Callers == {Watch} \cup Reporters \cup Owners
Kinds == {"CONFIRMED", "ESCALATED", "RECOVERED"}
NoRow == [state |-> "ABSENT"]
Silent == [k \in Kinds |-> 0]
NoCall == [step |-> "IDLE"]

IncidentsInit ==
  /\ holding = {}
  /\ incident = [i \in Incidents |-> NoRow]
  /\ call = [p \in Callers |-> NoCall]
  /\ alerted = [i \in Incidents |-> Silent]

IsOpen(i) == incident[i].state = "OPEN"
Exists(i) == incident[i].state \in {"OPEN", "CLEARED"}
OpenRows == {i \in Incidents : IsOpen(i)}

\* Conditions of one fingerprint are alternatives: of the two about a rebuild
\* the worse is evaluated first.
Change(c) ==
  /\ c \notin Reported
  /\ LET others == {d \in holding : FingerprintOf[d] # FingerprintOf[c]}
     IN holding' = IF c \in holding THEN others ELSE others \cup {c}
  /\ UNCHANGED <<incident, call, alerted>>

Prints(conditions) == {FingerprintOf[c] : c \in conditions}
Firing(i, conditions) == incident[i].print \in Prints(conditions)

\* What a caller has read, by the incident; the rows it will not look at again
\* are left out.
Reads(wanted) == [i \in wanted |-> incident[i]]
Unread(seen, i) == [j \in DOMAIN seen \ {i} |-> seen[j]]

\* openIncidentRows, and what the caller is going to do.
Begins(p, firing, sweeping) ==
  call' = [call EXCEPT ![p] =
    [step |-> "NEXT", firing |-> firing, sweep |-> sweeping,
     alerts |-> {}, at |-> 0,
     seen |-> Reads({i \in OpenRows : i \in sweeping \/ Firing(i, firing)})]]

\* One observation at a time: observing is set while it lasts.
Observe ==
  /\ call[Watch] = NoCall
  /\ Begins(Watch, holding,
       {i \in OpenRows : ~Firing(i, holding)})
  /\ UNCHANGED <<holding, incident, alerted>>

\* A report sweeps nothing.
Report(p, c) ==
  /\ call[p] = NoCall
  /\ Begins(p, {c}, {})
  /\ UNCHANGED <<holding, incident, alerted>>

CallIs(p, step) == call[p].step = step
SeenOf(p, c) ==
  {i \in DOMAIN call[p].seen : call[p].seen[i].print = FingerprintOf[c]}

\* A statement that finds no row, or breaks the unique index, raises: the
\* call is over and what it had to tell is lost.
Raises(p) == call' = [call EXCEPT ![p] = NoCall]

ConfirmationIsSatisfied(c, count) ==
  IF c \in Sustained
  THEN IF count >= ConfirmAfter[c] THEN {TRUE}
       ELSE IF count = 1 THEN {FALSE} ELSE BOOLEAN
  ELSE {count >= ConfirmAfter[c]}

\* The next statement about this incident, or the next condition.
ConfirmsNext(p, c, i, confirms) ==
  call' = [call EXCEPT ![p] =
    [step |-> IF confirms THEN "CONFIRM" ELSE "NEXT",
     seen |-> Unread(@.seen, i), firing |-> @.firing \ {c},
     sweep |-> @.sweep, alerts |-> @.alerts,
     at |-> IF confirms THEN i ELSE 0]]

Rows == {i \in Incidents : incident[i] # NoRow}

\* A condition whose fingerprint was in no open row opens an incident.
OpenIncident(p, c) ==
  /\ CallIs(p, "NEXT") /\ c \in call[p].firing
  /\ SeenOf(p, c) = {}
  /\ IF \E j \in OpenRows : incident[j].print = FingerprintOf[c]
     THEN Raises(p) /\ UNCHANGED incident
     ELSE \E i \in Incidents :
          /\ i = Cardinality(Rows) + 1
          /\ incident' = [incident EXCEPT ![i] =
               [state |-> "OPEN", condition |-> c, print |-> FingerprintOf[c],
                severe |-> c \in Severe, count |-> 1, healthy |-> 0,
                confirmed |-> FALSE, escalated |-> FALSE]]
          /\ \E confirms \in ConfirmationIsSatisfied(c, 1) :
               ConfirmsNext(p, c, i, confirms)
  /\ UNCHANGED <<holding, alerted>>

\* confirmed_at, escalated_at and healthy_since are as they were read.
Rising(c, row) ==
  c \in Severe /\ ~row.severe /\ row.confirmed /\ ~row.escalated

Interrupted(row) == row.healthy > 0 /\ ~row.confirmed

\* Counts are capped where no rule asks further.
Capped(n, c) == IF n > ConfirmAfter[c] THEN ConfirmAfter[c] ELSE n

JoinIncident(p, c, i) ==
  /\ CallIs(p, "NEXT") /\ c \in call[p].firing
  /\ i \in SeenOf(p, c)
  /\ LET row == call[p].seen[i]
         count == IF Interrupted(row) THEN 1 ELSE Capped(row.count + 1, c)
     IN IF ~Exists(i)
        THEN Raises(p) /\ UNCHANGED incident
        ELSE /\ incident' = [incident EXCEPT
                  ![i].condition = c, ![i].count = count, ![i].healthy = 0,
                  ![i].severe = IF c \in Severe /\ ~row.severe THEN TRUE ELSE @,
                  ![i].escalated = @ \/ Rising(c, row)]
             /\ IF Rising(c, row)
                THEN call' = [call EXCEPT ![p].firing = @ \ {c},
                       ![p].seen = Unread(@, i),
                       ![p].alerts = @ \cup {<<i, "ESCALATED">>}]
                ELSE \E confirms \in ConfirmationIsSatisfied(c, count) :
                       ConfirmsNext(p, c, i, ~row.confirmed /\ confirms)
  /\ UNCHANGED <<holding, alerted>>

\* Mutant: whoever saw the incident unconfirmed confirms it.
ConfirmsAnyway(i) == Exists(i)

Confirms(i) == Exists(i) /\ ~incident[i].confirmed

\* confirmOnce
ConfirmOnce(p) ==
  LET i == call[p].at
  IN /\ CallIs(p, "CONFIRM")
     /\ incident' = IF Confirms(i)
          THEN [incident EXCEPT ![i].confirmed = TRUE] ELSE incident
     /\ call' = [call EXCEPT ![p].step = "NEXT", ![p].at = 0,
          ![p].alerts = IF Confirms(i) THEN @ \cup {<<i, "CONFIRMED">>} ELSE @]
     /\ UNCHANGED <<holding, alerted>>

ClearingIsSatisfied(c, healthy) ==
  IF c \in OwnerVerified THEN {FALSE}
  ELSE IF c \in HealthyFor
  THEN IF healthy >= ClearAfter[c] THEN {TRUE}
       ELSE IF healthy = 1 THEN {FALSE} ELSE BOOLEAN
  ELSE {healthy >= ClearAfter[c]}

HealthyAgain(n, c) == IF n >= ClearAfter[c] THEN n ELSE n + 1

\* The sweep counts a healthy reading of an incident that was read as open.
CountHealthy(p, i) ==
  /\ CallIs(p, "NEXT") /\ call[p].firing = {} /\ i \in call[p].sweep
  /\ LET row == call[p].seen[i]
         healthy == HealthyAgain(row.healthy, row.condition)
     IN IF ~Exists(i)
        THEN Raises(p) /\ UNCHANGED incident
        ELSE /\ incident' = [incident EXCEPT ![i].healthy = healthy]
             /\ \E clears \in ClearingIsSatisfied(row.condition, healthy) :
                  call' = [call EXCEPT ![p] =
                    [step |-> IF clears THEN "CLEAR" ELSE "NEXT",
                     seen |-> IF clears THEN @.seen ELSE Unread(@.seen, i),
                     firing |-> {}, sweep |-> @.sweep \ {i},
                     alerts |-> @.alerts, at |-> IF clears THEN i ELSE 0]]
  /\ UNCHANGED <<holding, alerted>>

Recovers(row) == row.confirmed

\* An incident that was read as confirmed is cleared, one that was not is
\* forgotten: by the sweep and by the owner alike.
ClearOrForget(p) ==
  LET i == call[p].at
      row == call[p].seen[i]
  IN /\ CallIs(p, "CLEAR")
     /\ incident' = IF ~row.confirmed
          THEN [incident EXCEPT ![i].state = "FORGOTTEN"]
          ELSE IF Exists(i)
          THEN [incident EXCEPT ![i].state = "CLEARED"]
          ELSE incident
     /\ call' = [call EXCEPT ![p].step = "NEXT", ![p].at = 0,
          ![p].seen = Unread(@, i),
          ![p].alerts = IF Recovers(row) 
                         THEN @ \cup {<<i, "RECOVERED">>} ELSE @]
     /\ UNCHANGED <<holding, alerted>>

\* The owner clears one incident, or those of a family, that are open.
OwnerClears(p, chosen) ==
  /\ call[p] = NoCall
  /\ chosen # {} /\ chosen \subseteq OpenRows
  /\ Begins(p, {}, chosen)
  /\ UNCHANGED <<holding, incident, alerted>>

OwnerNext(p, i) ==
  /\ CallIs(p, "NEXT") /\ i \in call[p].sweep
  /\ call' = [call EXCEPT ![p] =
       [step |-> "CLEAR", seen |-> @.seen, firing |-> {},
        sweep |-> @.sweep \ {i}, alerts |-> @.alerts, at |-> i]]
  /\ UNCHANGED <<holding, incident, alerted>>

\* More than two of a kind are counted as two.
Twice(n) == IF n = 2 THEN 2 ELSE n + 1

Tell(p) ==
  /\ CallIs(p, "NEXT") /\ call[p].firing = {} /\ call[p].sweep = {}
  /\ alerted' = [i \in Incidents |-> [k \in Kinds |->
       IF <<i, k>> \in call[p].alerts
       THEN Twice(alerted[i][k]) ELSE alerted[i][k]]]
  /\ call' = [call EXCEPT ![p] = NoCall]
  /\ UNCHANGED <<holding, incident>>

\* The process stops, or its connection does.
Break(p) ==
  /\ call[p] # NoCall
  /\ Raises(p)
  /\ UNCHANGED <<holding, incident, alerted>>

FoldStep(p) ==
  \/ \E c \in Conditions : \/ OpenIncident(p, c)
                           \/ \E i \in Incidents : JoinIncident(p, c, i)
  \/ ConfirmOnce(p) \/ ClearOrForget(p) \/ Tell(p)
WatchStep ==
  \/ Observe \/ FoldStep(Watch)
  \/ \E i \in Incidents : CountHealthy(Watch, i)

IncidentsNext ==
  \/ \E c \in Conditions : Change(c)
  \/ WatchStep
  \/ \E p \in Reporters : \/ \E c \in Reported : Report(p, c)
                          \/ FoldStep(p)
  \/ \E p \in Owners : \/ \E chosen \in SUBSET OpenRows : OwnerClears(p, chosen)
                       \/ \E i \in Incidents : OwnerNext(p, i)
                       \/ ClearOrForget(p) \/ Tell(p)
  \/ \E p \in Callers : Break(p)

IncidentsSpec == IncidentsInit /\ [][IncidentsNext]_incidentVars

----------------------------------------------------------------------------
(* Properties.                                                             *)

\* The rows have their shapes.
IncidentsTypeOK ==
  /\ holding \subseteq Conditions \ Reported
  /\ \A i \in Rows :
       /\ incident[i].state \in {"OPEN", "CLEARED", "FORGOTTEN"}
       /\ incident[i].condition \in Conditions
       /\ incident[i].print = FingerprintOf[incident[i].condition]
       /\ incident[i].count \in Nat \ {0} /\ incident[i].healthy \in Nat
  /\ alerted \in [Incidents -> [Kinds -> 0 .. 2]]
  /\ \A i, j \in OpenRows : incident[i].print = incident[j].print => i = j

\* The operator guide: an incident sends one confirmation and one more alert
\* if its severity rises, whatever the watch, two reports and an owner read
\* before the others wrote; and none of an incident nobody confirmed.
AlertsAreSparing ==
  IncidentsTypeOK /\ \A i \in Incidents :
    /\ alerted[i]["CONFIRMED"] <= 1 /\ alerted[i]["ESCALATED"] <= 1
    /\ (\E k \in Kinds : alerted[i][k] > 0) => incident[i].confirmed
=============================================================================
