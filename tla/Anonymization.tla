---------------------------- MODULE Anonymization ----------------------------
(***************************************************************************)
(* The end of a User's identity.  anonymizeUser leaves a pending request;  *)
(* passes of the worker, which may overlap, delete the identity at the     *)
(* provider outside of any transaction and then record it.  Each failure   *)
(* is counted in a transaction of its own, and the fourth opens a task for *)
(* the Administrator who asked.                                            *)
(***************************************************************************)
EXTENDS Naturals

CONSTANTS
  Anonymized,       \* Users whose anonymization may be requested
  Deleters,         \* passes of the worker that overlap
  FailuresToTask,   \* 4, the failures before a task is opened
  MaxFailures,      \* bound: failures counted
  MaxStops          \* bound: times a worker is stopped in the middle

ASSUME AnonymizationAssumption ==
  FailuresToTask \in Nat \ {0} /\ MaxFailures \in Nat /\ MaxStops \in Nat

VARIABLES
  userAccess,       \* users.access_status
  identity,         \* whether the provider still has the identity
  request,          \* user_anonymization_requests
  reconciliation,   \* the administrator_task_items row of each request: a task
                    \* is RESOLVED by an Administrator or RECOVERED by a worker
  deletion,         \* what each pass is doing
  stops             \* counter of the bound MaxStops

anonymizationVars ==
  <<userAccess, identity, request, reconciliation, deletion, stops>>

NoDeletion == [step |-> "IDLE"]

AnonymizationInit ==
  /\ userAccess \in [Anonymized -> {"ACTIVE", "SUSPENDED"}]
  /\ identity = [u \in Anonymized |-> TRUE]
  /\ request = [u \in Anonymized |-> [state |-> "NONE", attempts |-> 0]]
  /\ reconciliation = [u \in Anonymized |-> "NONE"]
  /\ deletion = [p \in Deleters |-> NoDeletion]
  /\ stops = 0

\* The User, who may be suspended, has no commitment left; what else it
\* deletes and redacts is in Delivery and Feedback.
AnonymizeUser(u) ==
  /\ userAccess[u] \in {"ACTIVE", "SUSPENDED"}
  /\ userAccess' = [userAccess EXCEPT ![u] = "ANONYMIZATION_PENDING"]
  /\ request' = [request EXCEPT ![u].state = "PENDING"]
  /\ UNCHANGED <<identity, reconciliation, deletion, stops>>

\* A pass comes to a request that was pending when it started.
TakeRequest(p, u) ==
  /\ deletion[p].step = "IDLE"
  /\ request[u].state = "PENDING"
  /\ deletion' = [deletion EXCEPT ![p] = [step |-> "DELETE", user |-> u]]
  /\ UNCHANGED <<userAccess, identity, request, reconciliation, stops>>

Proceeds(p, step) == deletion' = [deletion EXCEPT ![p].step = step]
Leaves(p) == deletion' = [deletion EXCEPT ![p] = NoDeletion]

\* Deleting an identity that is gone succeeds.
DeleteIdentity(p) ==
  /\ deletion[p].step = "DELETE"
  /\ identity' = [identity EXCEPT ![deletion[p].user] = FALSE]
  /\ Proceeds(p, "FINALIZE")
  /\ UNCHANGED <<userAccess, request, reconciliation, stops>>

\* The provider refuses, or answers too late: it may have deleted it.
DeletionFails(p) ==
  /\ deletion[p].step = "DELETE"
  /\ \E kept \in {identity[deletion[p].user], FALSE} :
       identity' = [identity EXCEPT ![deletion[p].user] = kept]
  /\ Proceeds(p, "FAILED")
  /\ UNCHANGED <<userAccess, request, reconciliation, stops>>

\* Mutant: the task of an earlier failure stays open.
LeavesTask(u) == reconciliation[u]

Recovered(u) ==
  IF reconciliation[u] = "OPEN" THEN "RECOVERED" ELSE reconciliation[u]

NextAttempt(u) ==
  IF request[u].attempts < MaxFailures THEN request[u].attempts + 1 ELSE MaxFailures

\* The request is claimed with skipLocked: another pass may have it.
FinalizeAnonymization(p) ==
  LET u == deletion[p].user
  IN /\ deletion[p].step = "FINALIZE"
     /\ \/ /\ request[u].state = "PENDING"
           /\ request' = [request EXCEPT ![u] =
                [state |-> "COMPLETED", attempts |-> NextAttempt(u)]]
           /\ userAccess' = [userAccess EXCEPT ![u] = "ANONYMIZED"]
           /\ reconciliation' = [reconciliation EXCEPT ![u] = Recovered(u)]
        \/ /\ request[u].state # "PENDING"
           /\ UNCHANGED <<userAccess, request, reconciliation>>
     /\ Leaves(p)
     /\ UNCHANGED <<identity, stops>>

FinalizationFails(p) ==
  /\ deletion[p].step = "FINALIZE"
  /\ Proceeds(p, "FAILED")
  /\ UNCHANGED <<userAccess, identity, request, reconciliation, stops>>

\* Mutant: a failure is counted while there is an identity to delete.
CountsDeletions(u) == request[u].state = "PENDING" /\ identity[u]

Counts(u) == request[u].state = "PENDING"

\* Mutant: the failure that reaches the limit opens no task.
AsksLater(u, failures) ==
  failures > FailuresToTask /\ reconciliation[u] = "NONE"

\* A second task of the request would conflict with the first, open or not.
AsksAdministrator(u, failures) ==
  failures >= FailuresToTask /\ reconciliation[u] = "NONE"

RecordWorkerFailure(p) ==
  LET u == deletion[p].user
      failures == NextAttempt(u)
  IN /\ deletion[p].step = "FAILED"
     /\ IF Counts(u)
        THEN /\ request' = [request EXCEPT ![u].attempts = failures]
             /\ reconciliation' = [reconciliation EXCEPT ![u] =
                  IF AsksAdministrator(u, failures) THEN "OPEN" ELSE @]
        ELSE UNCHANGED <<request, reconciliation>>
     /\ Leaves(p)
     /\ UNCHANGED <<userAccess, identity, stops>>

StopDeletion(p) ==
  /\ deletion[p].step # "IDLE"
  /\ stops < MaxStops /\ stops' = stops + 1
  /\ Leaves(p)
  /\ UNCHANGED <<userAccess, identity, request, reconciliation>>

\* resolveAdministratorTask
ResolveReconciliation(u) ==
  /\ reconciliation[u] = "OPEN"
  /\ reconciliation' = [reconciliation EXCEPT ![u] = "RESOLVED"]
  /\ UNCHANGED <<userAccess, identity, request, deletion, stops>>

DeleterStep(p) ==
  \/ \E u \in Anonymized : TakeRequest(p, u)
  \/ DeleteIdentity(p) \/ DeletionFails(p)
  \/ FinalizeAnonymization(p) \/ FinalizationFails(p) \/ RecordWorkerFailure(p)

AnonymizationNext ==
  \/ \E u \in Anonymized : AnonymizeUser(u) \/ ResolveReconciliation(u)
  \/ \E p \in Deleters : DeleterStep(p) \/ StopDeletion(p)

AnonymizationSpec == AnonymizationInit /\ [][AnonymizationNext]_anonymizationVars

----------------------------------------------------------------------------
(* Properties.                                                             *)

AccessStates == {"ACTIVE", "SUSPENDED", "ANONYMIZATION_PENDING", "ANONYMIZED"}
TaskStates == {"NONE", "OPEN", "RESOLVED", "RECOVERED"}

\* The rows have their shapes.
AnonymizationTypeOK ==
  /\ userAccess \in [Anonymized -> AccessStates]
  /\ identity \in [Anonymized -> BOOLEAN]
  /\ request \in [Anonymized ->
       [state : {"NONE", "PENDING", "COMPLETED"}, attempts : 0 .. MaxFailures]]
  /\ reconciliation \in [Anonymized -> TaskStates]
  /\ stops \in 0 .. MaxStops
  /\ \A p \in Deleters : deletion[p].step # "IDLE" =>
       /\ deletion[p].step \in {"DELETE", "FINALIZE", "FAILED"}
       /\ deletion[p].user \in Anonymized

\* Through overlapping passes that fail after one another: a User is recorded
\* as anonymized only once the identity is gone, and from then on nobody is
\* asked to reconcile it.
AnonymizedIsSettled ==
  \A u \in Anonymized :
    /\ (request[u].state = "COMPLETED") <=> (userAccess[u] = "ANONYMIZED")
    /\ userAccess[u] = "ANONYMIZED" => ~identity[u] /\ reconciliation[u] # "OPEN"

\* Through overlapping passes whose failures count towards one limit: an
\* anonymization that is not completed and has failed FailuresToTask times is
\* before an Administrator until an Administrator, and nobody else, resolves
\* the task; and no task is opened before as many attempts.
FailedIsEscalated ==
  \A u \in Anonymized :
    /\ request[u].state # "COMPLETED" /\ request[u].attempts >= FailuresToTask
         => reconciliation[u] \in {"OPEN", "RESOLVED"}
    /\ reconciliation[u] # "NONE" => request[u].attempts >= FailuresToTask

\* A pending anonymization is completed, or an Administrator is asked,
\* whatever the provider answers and however often a worker is stopped.
AnonymizationIsNoticed ==
  \A u \in Anonymized : request[u].state = "PENDING" ~>
    request[u].state = "COMPLETED" \/ reconciliation[u] # "NONE"

=============================================================================
