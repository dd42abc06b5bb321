---------------------------- MODULE ReportExport ----------------------------
(***************************************************************************)
(* Report Exports.  A requester queues one export at a time; a pass of the *)
(* worker claims it in a transaction of its own, builds the extract, and   *)
(* records the end and tells the requester in statements that each commit  *)
(* by themselves.  Any of them may fail, and a failed attempt is repeated  *)
(* by a later pass until the attempts are used up.                         *)
(***************************************************************************)
EXTENDS Naturals

CONSTANTS
  Exports,          \* report_exports rows ever requested
  Requesters,
  ExportPasses,     \* passes of the worker that overlap
  MaxGenerations    \* MAXIMUM_GENERATION_ATTEMPTS

ASSUME ReportExportAssumption == MaxGenerations \in Nat \ {0}

VARIABLES
  authority,        \* reportingAuthorityFor each User
  export,           \* report_exports
  told,             \* what the requester of each export was told of it
  generation        \* what each pass is doing

exportVars == <<authority, export, told, generation>>

Authorities == {"ORGANIZATION_MANAGER", "PLATFORM_ADMINISTRATOR"}
NoRole == "NONE"
InFlight == {"QUEUED", "RUNNING"}
Ended == {"COMPLETED", "FAILED", "EXPIRED"}
Ends == {"COMPLETED", "FAILED"}
GenerationSteps ==
  {"CLAIMED", "BUILDING", "COMPLETED", "FAILED", "TELL_COMPLETED",
   "TELL_FAILED", "RAISED", "GIVE_UP", "TELL_GIVEN_UP"}

\* A row before it is requested.
Unrequested == [state |-> "NONE", attempts |-> 0]
Resting == [step |-> "IDLE"]
Working(p) == generation[p].step # "IDLE"

ExportInit ==
  /\ authority \in [Requesters -> Authorities]
  /\ export = [x \in Exports |-> Unrequested]
  /\ told = [x \in Exports |-> {}]
  /\ generation = [p \in ExportPasses |-> Resting]

\* Role Assignments and Organizations change.
ChangeAuthority(u, role) ==
  /\ authority[u] # role
  /\ authority' = [authority EXCEPT ![u] = role]
  /\ UNCHANGED <<export, told, generation>>

HasInFlight(u) ==
  \E x \in Exports : export[x].state \in InFlight /\ export[x].by = u

\* The requests of one User are serialized by lockActiveActor.
RequestReportExport(u, x) ==
  /\ authority[u] # NoRole
  /\ export[x].state = "NONE"
  /\ ~HasInFlight(u)
  /\ export' = [export EXCEPT ![x] =
       [state |-> "QUEUED", attempts |-> 0, by |-> u, role |-> authority[u]]]
  /\ UNCHANGED <<authority, told, generation>>

ClaimExport(p, x) ==
  /\ ~Working(p)
  /\ export[x].state = "QUEUED"
  /\ export' = [export EXCEPT ![x] =
       [state |-> "RUNNING", attempts |-> @.attempts + 1, by |-> @.by,
        role |-> @.role]]
  /\ generation' = [generation EXCEPT ![p] =
       [step |-> "CLAIMED", export |-> x, attempt |-> export[x].attempts + 1]]
  /\ UNCHANGED <<authority, told>>

To(p, step) == generation' = [generation EXCEPT ![p].step = step]
Rests(p) == generation' = [generation EXCEPT ![p] = Resting]

\* reportExportAuthorizationStillHolds
CheckAuthority(p) ==
  LET x == generation[p].export
  IN /\ generation[p].step = "CLAIMED"
     /\ To(p, IF authority[export[x].by] = export[x].role
              THEN "BUILDING" ELSE "FAILED")
     /\ UNCHANGED <<authority, export, told>>

\* The extract is built, or refused for its size.
BuildExtract(p) ==
  /\ generation[p].step = "BUILDING"
  /\ \E end \in Ends : To(p, end)
  /\ UNCHANGED <<authority, export, told>>

\* Only an export that is running ends or returns to the queue.
Moves(x, state) ==
  export' = [export EXCEPT ![x].state =
    IF @ = "RUNNING" THEN state ELSE @]

RecordEnd(p) ==
  /\ generation[p].step \in Ends
  /\ Moves(generation[p].export, generation[p].step)
  /\ To(p, IF generation[p].step = "COMPLETED"
           THEN "TELL_COMPLETED" ELSE "TELL_FAILED")
  /\ UNCHANGED <<authority, told>>

\* notifyReportExportRequester
TellRequester(p) ==
  /\ generation[p].step \in {"TELL_COMPLETED", "TELL_FAILED", "TELL_GIVEN_UP"}
  /\ told' = [told EXCEPT ![generation[p].export] = @ \cup
       {IF generation[p].step = "TELL_COMPLETED" THEN "COMPLETED" ELSE "FAILED"}]
  /\ Rests(p)
  /\ UNCHANGED <<authority, export>>

\* A statement of the generation fails.
Raise(p) ==
  /\ generation[p].step \in
       {"CLAIMED", "BUILDING", "COMPLETED", "FAILED",
        "TELL_COMPLETED", "TELL_FAILED"}
  /\ To(p, IF generation[p].attempt >= MaxGenerations THEN "GIVE_UP" ELSE "RAISED")
  /\ UNCHANGED <<authority, export, told>>

\* Mutant: whatever was claimed returns to the queue.
MovesAnyway(x, state) == export' = [export EXCEPT ![x].state = state]

Returns(x, state) == Moves(x, state)

ReturnToQueue(p) ==
  /\ generation[p].step = "RAISED"
  /\ Returns(generation[p].export, "QUEUED")
  /\ Rests(p)
  /\ UNCHANGED <<authority, told>>

GiveUp(p) ==
  /\ generation[p].step = "GIVE_UP"
  /\ Moves(generation[p].export, "FAILED")
  /\ To(p, "TELL_GIVEN_UP")
  /\ UNCHANGED <<authority, told>>

\* The worker stops in the middle of a generation.
StopGeneration(p) ==
  /\ Working(p)
  /\ Rests(p)
  /\ UNCHANGED <<authority, export, told>>

ExpireReportExport(x) ==
  /\ export[x].state = "COMPLETED"
  /\ export' = [export EXCEPT ![x].state = "EXPIRED"]
  /\ UNCHANGED <<authority, told, generation>>

GenerationStep(p) ==
  \/ \E x \in Exports : ClaimExport(p, x)
  \/ CheckAuthority(p) \/ BuildExtract(p) \/ RecordEnd(p) \/ TellRequester(p)
  \/ ReturnToQueue(p) \/ GiveUp(p)

ExportNext ==
  \/ \E u \in Requesters :
       \/ \E role \in Authorities \cup {NoRole} : ChangeAuthority(u, role)
       \/ \E x \in Exports : RequestReportExport(u, x)
  \/ \E p \in ExportPasses : GenerationStep(p) \/ Raise(p) \/ StopGeneration(p)
  \/ \E x \in Exports : ExpireReportExport(x)

ExportSpec == ExportInit /\ [][ExportNext]_exportVars

----------------------------------------------------------------------------
(* Properties.                                                             *)

\* The rows have their shapes, and a pass at work knows its export.
ExportTypeOK ==
  /\ authority \in [Requesters -> Authorities \cup {NoRole}]
  /\ \A x \in Exports :
       /\ export[x].state \in {"NONE"} \cup InFlight \cup Ended
       /\ export[x].attempts \in 0 .. MaxGenerations
       /\ export[x].state # "NONE" =>
            export[x].by \in Requesters /\ export[x].role \in Authorities
  /\ told \in [Exports -> SUBSET Ends]
  /\ \A p \in ExportPasses : Working(p) =>
       /\ generation[p].step \in GenerationSteps
       /\ generation[p].export \in Exports
       /\ generation[p].attempt \in 1 .. MaxGenerations

\* However passes overlap and statements fail after the end was recorded, an
\* export that ended is not generated again: it stays as it ended, or expires.
EndedExportIsFinal ==
  [][\A x \in Exports : export[x].state \in Ended =>
       export'[x] \in {export[x], [export[x] EXCEPT !.state = "EXPIRED"]}]_exportVars

\* A worker stopped and left the export running: no pass claims it again.
Abandoned(x) ==
  /\ export[x].state = "RUNNING"
  /\ \A p \in ExportPasses : Working(p) => generation[p].export # x

\* Every export ends, unless a worker stopped while it had it.
ExportsEnd ==
  \A x \in Exports : export[x].state \in InFlight ~>
    export[x].state \in Ended \/ \E y \in Exports : Abandoned(y)

=============================================================================
