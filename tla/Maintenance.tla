---------------------------- MODULE Maintenance ----------------------------
(***************************************************************************)
(* Canonical Data Rebuilds and the recovery from them.  One workflow runs  *)
(* at a time, in the queue production-maintenance of GitHub Actions.  A    *)
(* rebuild publishes that maintenance has begun, replaces the mutable data *)
(* in one transaction under the exclusive side of a lock of which every    *)
(* write of the marketplace takes the shared side, verifies what it left,  *)
(* and reopens.  The outcome of each of its transactions may fail to reach *)
(* it, and it may stop anywhere.                                           *)
(***************************************************************************)
EXTENDS Naturals, FiniteSets

CONSTANTS
  MaxRebuilds,     \* attempts ever started; an attempt has its own dispatch
  Writers          \* transactions of the API and of the worker

ASSUME MaintenanceAssumption == MaxRebuilds \in Nat

VARIABLES
  maintenance,     \* maintenance_state
  rebuild,         \* canonical_data_rebuilds
  terminal,        \* terminal audit entries of each attempt
  workflow,        \* the workflow that runs
  lease,           \* who holds which side of CANONICAL_REBUILD_LOCK
  writer,          \* how far each transaction of the marketplace is
  baseline,        \* the attempt that last replaced the data, 0 before any
  vouched,         \* the owner has verified the data since
  authorized,      \* attempts audited as a clean recovery rebuild
  unheard          \* attempts that did not hear of a commit of theirs

maintenanceVars ==
  <<maintenance, rebuild, terminal, workflow, lease, writer, baseline, vouched,
    authorized, unheard>>

Rebuilds == 1 .. MaxRebuilds
RebuildOutcomes == {"COMPLETED", "ROLLED_BACK", "INDETERMINATE"}
RebuildStates == {"NONE", "STARTED"} \cup RebuildOutcomes
WorkflowSteps ==
  {"NONE", "STARTED", "REPLACING", "VERIFYING", "VERIFIED", "FAILED", "SMOKE"}
Smoke == MaxRebuilds + 1       \* the holder post-rebuild-smoke

Available == [state |-> "AVAILABLE", holder |-> 0, generation |-> 0]
Queued == [step |-> "NONE", attempt |-> 0, committed |-> FALSE]
Free == [exclusive |-> FALSE, shared |-> {}]

MaintenanceInit ==
  /\ maintenance = Available
  /\ rebuild = [d \in Rebuilds |-> "NONE"]
  /\ terminal = [d \in Rebuilds |-> {}]
  /\ workflow = Queued
  /\ lease = Free
  /\ writer = [w \in Writers |-> "IDLE"]
  /\ baseline = 0
  /\ vouched = FALSE
  /\ authorized = {}
  /\ unheard = {}

Is(state) == maintenance.state = state
Step(step) == workflow.step = step
Attempt == workflow.attempt

\* The row of the table; holder_id and correlation_id go with the attempt.
Turns(state, holder) ==
  maintenance' = [state |-> state, holder |-> holder,
                  generation |-> maintenance.generation]
Goes(step) == workflow' = [workflow EXCEPT !.step = step]
EndsWorkflow == workflow' = Queued

\* A routine rebuild starts from AVAILABLE, a clean one, which cites the
\* incident the owner was told of, from INDETERMINATE.
StartRebuild(d, expected) ==
  /\ Step("NONE")
  /\ d = Cardinality({e \in Rebuilds : rebuild[e] # "NONE"}) + 1
  /\ Is(expected)
  /\ rebuild' = [rebuild EXCEPT ![d] = "STARTED"]
  /\ Turns("REBUILDING", d)
  /\ workflow' = [step |-> "STARTED", attempt |-> d, committed |-> FALSE]
  /\ authorized' = IF expected = "INDETERMINATE"
                   THEN authorized \cup {d} ELSE authorized
  /\ UNCHANGED <<terminal, lease, writer, baseline, vouched, unheard>>

\* The exclusive side waits until every shared one is released.
TakeLease ==
  /\ Step("STARTED")
  /\ lease.shared = {}
  /\ lease' = [lease EXCEPT !.exclusive = TRUE]
  /\ Goes("REPLACING")
  /\ UNCHANGED <<maintenance, rebuild, terminal, writer, baseline, vouched,
                 authorized, unheard>>

\* replaceMutableState, the reconciliation of the rolling fixtures, and the
\* commit, of which the workflow may not hear.
ReplaceMutableState ==
  /\ Step("REPLACING")
  /\ baseline' = Attempt
  /\ vouched' = FALSE
  /\ lease' = [lease EXCEPT !.exclusive = FALSE]
  /\ \/ /\ workflow' =
             [step |-> "VERIFYING", attempt |-> Attempt, committed |-> TRUE]
        /\ UNCHANGED unheard
     \/ /\ Goes("FAILED")
        /\ unheard' = unheard \cup {Attempt}
  /\ UNCHANGED <<maintenance, rebuild, terminal, writer, authorized>>

\* Whatever fails before the reopening leaves nothing of its transaction.
FailAttempt ==
  /\ workflow.step \in {"STARTED", "REPLACING", "VERIFYING", "VERIFIED"}
  /\ Goes("FAILED")
  /\ lease' = [lease EXCEPT !.exclusive = FALSE]
  /\ UNCHANGED <<maintenance, rebuild, terminal, writer, baseline, vouched,
                 authorized, unheard>>

\* Three probes, an advancing heartbeat and the protected role verification.
VerifyReadiness ==
  /\ Step("VERIFYING")
  /\ Goes("VERIFIED")
  /\ UNCHANGED <<maintenance, rebuild, terminal, lease, writer, baseline,
                 vouched, authorized, unheard>>

EndsAttempt(d, outcome) ==
  /\ rebuild' = [rebuild EXCEPT ![d] = outcome]
  /\ terminal' = [terminal EXCEPT ![d] = @ \cup {outcome}]

Reopen ==
  /\ Step("VERIFIED")
  /\ EndsAttempt(Attempt, "COMPLETED")
  /\ maintenance' =
       [state |-> "AVAILABLE", holder |-> 0,
        generation |-> maintenance.generation + 1]
  /\ \/ Goes("SMOKE") /\ UNCHANGED unheard
     \/ Goes("FAILED") /\ unheard' = unheard \cup {Attempt}
  /\ UNCHANGED <<lease, writer, baseline, vouched, authorized>>

\* Mutant: what was committed was not remembered.
SafeWhenHeld ==
  IF Is("REBUILDING") /\ maintenance.holder = Attempt THEN BOOLEAN ELSE {FALSE}

\* rollbackIsSafe: the aggregates may not reconcile, or not be read.
RollbackIsSafe ==
  IF ~workflow.committed /\ Is("REBUILDING") /\ maintenance.holder = Attempt
  THEN BOOLEAN ELSE {FALSE}

RecordOutcome ==
  /\ Step("FAILED")
  /\ \E safe \in RollbackIsSafe :
       IF safe
       THEN EndsAttempt(Attempt, "ROLLED_BACK") /\ Turns("AVAILABLE", 0)
       ELSE /\ EndsAttempt(Attempt, "INDETERMINATE")
            /\ Turns("INDETERMINATE", Attempt)
  /\ EndsWorkflow
  /\ UNCHANGED <<lease, writer, baseline, vouched, authorized, unheard>>

\* The deployed role smoke follows a completed rebuild.
PassSmoke ==
  /\ Step("SMOKE")
  /\ EndsWorkflow
  /\ UNCHANGED <<maintenance, rebuild, terminal, lease, writer, baseline,
                 vouched, authorized, unheard>>

ContainFailedSmoke ==
  /\ Step("SMOKE")
  /\ IF Is("AVAILABLE")
     THEN Turns("INDETERMINATE", Smoke) ELSE UNCHANGED maintenance
  /\ EndsWorkflow
  /\ UNCHANGED <<rebuild, terminal, lease, writer, baseline, vouched,
                 authorized, unheard>>

\* The workflow is stopped, or its connection is lost in the catch.
StopWorkflow ==
  /\ ~Step("NONE")
  /\ EndsWorkflow
  /\ lease' = [lease EXCEPT !.exclusive = FALSE]
  /\ UNCHANGED <<maintenance, rebuild, terminal, writer, baseline, vouched,
                 authorized, unheard>>

\* The owner's recovery: the current state passes every check again.
VerifyAndReopen ==
  /\ Step("NONE")
  /\ Is("INDETERMINATE")
  /\ Turns("AVAILABLE", 0)
  /\ vouched' = TRUE
  /\ UNCHANGED <<rebuild, terminal, workflow, lease, writer, baseline,
                 authorized, unheard>>

\* guard_marketplace_write reads the state, and then waits for the lock.
AdmitWrite(w) ==
  /\ writer[w] = "IDLE"
  /\ Is("AVAILABLE")
  /\ writer' = [writer EXCEPT ![w] = "ADMITTED"]
  /\ UNCHANGED <<maintenance, rebuild, terminal, workflow, lease, baseline,
                 vouched, authorized, unheard>>

ShareLease(w) ==
  /\ writer[w] = "ADMITTED"
  /\ ~lease.exclusive
  /\ lease' = [lease EXCEPT !.shared = @ \cup {w}]
  /\ writer' = [writer EXCEPT ![w] = "WRITING"]
  /\ UNCHANGED <<maintenance, rebuild, terminal, workflow, baseline, vouched,
                 authorized, unheard>>

\* Commit or rollback: one that reads the guard again under maintenance fails.
EndWrite(w) ==
  /\ writer[w] # "IDLE"
  /\ writer' = [writer EXCEPT ![w] = "IDLE"]
  /\ lease' = [lease EXCEPT !.shared = @ \ {w}]
  /\ UNCHANGED <<maintenance, rebuild, terminal, workflow, baseline, vouched,
                 authorized, unheard>>

MaintenanceNext ==
  \/ \E d \in Rebuilds : \/ StartRebuild(d, "AVAILABLE")
                         \/ StartRebuild(d, "INDETERMINATE")
  \/ TakeLease \/ ReplaceMutableState \/ FailAttempt \/ VerifyReadiness
  \/ Reopen \/ RecordOutcome \/ PassSmoke \/ ContainFailedSmoke
  \/ StopWorkflow \/ VerifyAndReopen
  \/ \E w \in Writers : AdmitWrite(w) \/ ShareLease(w) \/ EndWrite(w)

MaintenanceSpec == MaintenanceInit /\ [][MaintenanceNext]_maintenanceVars

----------------------------------------------------------------------------
(* Properties.                                                             *)

\* The row of each table has its shape, and the lease its holders.
MaintenanceTypeOK ==
  /\ maintenance \in
       [state : {"AVAILABLE", "REBUILDING", "INDETERMINATE"},
        holder : 0 .. Smoke, generation : 0 .. MaxRebuilds]
  /\ Is("AVAILABLE") <=> maintenance.holder = 0
  /\ rebuild \in [Rebuilds -> RebuildStates]
  /\ terminal \in [Rebuilds -> SUBSET RebuildOutcomes]
  /\ workflow \in
       [step : WorkflowSteps, attempt : 0 .. MaxRebuilds, committed : BOOLEAN]
  /\ Step("NONE") <=> Attempt = 0
  /\ writer \in [Writers -> {"IDLE", "ADMITTED", "WRITING"}]
  /\ lease.exclusive <=> Step("REPLACING")
  /\ lease.shared = {w \in Writers : writer[w] = "WRITING"}
  /\ lease.exclusive => lease.shared = {}
  /\ baseline \in 0 .. MaxRebuilds
  /\ vouched \in BOOLEAN
  /\ authorized \subseteq Rebuilds /\ unheard \subseteq Rebuilds

\* Nobody replaced the data, or the replacement was verified by its attempt or
\* by the owner.
Verified == baseline = 0 \/ vouched \/ rebuild[baseline] = "COMPLETED"

\* A clean rebuild that failed before it replaced anything is rolled back to
\* the state it was to recover.
FellBack ==
  \E d \in authorized : d > baseline /\ rebuild[d] = "ROLLED_BACK"

\* The marketplace is open on verified data only, but for a replacement whose
\* commit its attempt never heard of and for a recovery that fell back.
OpenDataIsVerified ==
  Is("AVAILABLE") => Verified \/ baseline \in unheard \/ FellBack

\* ADR 0030: one terminal audit entry of every attempt that has ended, or two
\* of one that did not hear of its own reopening.
EndsAreAudited ==
  \A d \in Rebuilds :
    /\ rebuild[d] \in RebuildOutcomes <=> terminal[d] # {}
    /\ d \notin unheard => Cardinality(terminal[d]) <= 1

ReopensAccountably ==
  MaintenanceTypeOK /\ OpenDataIsVerified /\ EndsAreAudited

=============================================================================
