----------------------------- MODULE RoleAccess -----------------------------
(***************************************************************************)
(* Student mutations as the API runs them: studentFor looks the Student    *)
(* role up first, outside any transaction; the mutation's own transaction  *)
(* then takes the per-User lock and looks only at the access status.       *)
(* Between the two an Administrator may suspend the User or remove the     *)
(* role.  Everything else is Marketplace's.                                *)
(***************************************************************************)
EXTENDS MarketplaceProperties

VARIABLE authenticated      \* Students with a request past studentFor

accessRequestVars == <<vars, authenticated>>

RoleInit == Init /\ authenticated = {}

Authenticate(u) ==
  /\ u \notin authenticated
  /\ <<u, "STUDENT">> \in roles
  /\ authenticated' = authenticated \cup {u}
  /\ UNCHANGED vars

\* The transaction commits; StudentRequest holds lockActiveActor's check.
CommitRequest(u) ==
  /\ u \in authenticated
  /\ StudentRequest(u)
  /\ authenticated' = authenticated \ {u}

\* Denied, or the User was suspended meanwhile: nothing but audit is written.
RefuseRequest(u) ==
  /\ u \in authenticated
  /\ authenticated' = authenticated \ {u}
  /\ UNCHANGED vars

OtherStep ==
  /\ \/ \E t \in Teachers : TeacherRequest(t)
     \/ AdministratorRequest
     \/ AccessRequest
     \/ WaitlistWorkerStep
     \/ ReminderWorkerStep
     \/ Tick
  /\ UNCHANGED authenticated

RoleNext ==
  \/ \E u \in Students : Authenticate(u) \/ CommitRequest(u) \/ RefuseRequest(u)
  \/ OtherStep

RoleSpec == RoleInit /\ [][RoleNext]_accessRequestVars

----------------------------------------------------------------------------

(* The comment in removeRoleAssignment says of its cleanup that no new     *)
(* future commitment can cross it: a User without the Student role holds   *)
(* no active Booking of a future session and no active Waitlist Entry.     *)
NoCommitmentCrossesRemoval ==
  \A u \in Students :
    <<u, "STUDENT">> \notin roles =>
      /\ FutureBookings(u) = {}
      /\ \A e \in ActiveEntries : entries[e].student # u

============================================================================
