------------------------- MODULE AdministratorAccess -------------------------
(***************************************************************************)
(* Suspension and Role Assignments of the Platform Administrators          *)
(* themselves.  A request is authenticated (administratorFor: does the     *)
(* User hold the role?) before its transaction; the transaction rechecks   *)
(* only that the actor is not suspended (lockActiveActor), then decides    *)
(* with every administrator row locked.                                    *)
(***************************************************************************)
EXTENDS Naturals, FiniteSets

CONSTANTS
  Administrators,   \* Users who may ever hold the role
  Holders           \* those who hold it at the start

ASSUME HoldersAssumption ==
  /\ IsFiniteSet(Administrators)
  /\ Holders \subseteq Administrators
  /\ Holders # {}

VARIABLES
  access,           \* users.access_status
  holders,          \* PLATFORM_ADMINISTRATOR rows of role_assignments
  requests          \* authenticated requests whose transaction is to come

adminVars == <<access, holders, requests>>

Operations == {"SUSPEND", "REACTIVATE", "GRANT", "REMOVE"}
Requests == [actor : Administrators, op : Operations, target : Administrators]

AdminTypeOK ==
  /\ access \in [Administrators -> {"ACTIVE", "SUSPENDED"}]
  /\ holders \subseteq Administrators
  /\ requests \subseteq Requests

AdminInit ==
  /\ access = [a \in Administrators |-> "ACTIVE"]
  /\ holders = Holders
  /\ requests = {}

ActiveHolders == {a \in holders : access[a] = "ACTIVE"}

\* One request of an actor is under way at a time.
Authenticate(r) ==
  /\ r.actor \in holders
  /\ \A q \in requests : q.actor # r.actor
  /\ requests' = requests \cup {r}
  /\ UNCHANGED <<access, holders>>

\* Mutant: the final active administrator is not protected.
SuspendAnyAdministrator(r) ==
  /\ r.op = "SUSPEND"
  /\ r.target # r.actor
  /\ access[r.target] = "ACTIVE"
  /\ access' = [access EXCEPT ![r.target] = "SUSPENDED"]
  /\ UNCHANGED holders

SuspendAdministrator(r) ==
  /\ r.op = "SUSPEND"
  /\ r.target # r.actor
  /\ access[r.target] = "ACTIVE"
  /\ r.target \in holders => Cardinality(ActiveHolders) # 1
  /\ access' = [access EXCEPT ![r.target] = "SUSPENDED"]
  /\ UNCHANGED holders

ReactivateAdministrator(r) ==
  /\ r.op = "REACTIVATE"
  /\ access[r.target] = "SUSPENDED"
  /\ access' = [access EXCEPT ![r.target] = "ACTIVE"]
  /\ UNCHANGED holders

GrantAdministrator(r) ==
  /\ r.op = "GRANT"
  /\ r.target \notin holders
  /\ holders' = holders \cup {r.target}
  /\ UNCHANGED access

\* Mutant: nobody counts.
RemoveAnyAdministrator(r) ==
  /\ r.op = "REMOVE"
  /\ r.target \in holders
  /\ r.target # r.actor
  /\ holders' = holders \ {r.target}
  /\ UNCHANGED access

\* The count is of every assignment, suspended administrators included.
RemoveAdministrator(r) ==
  /\ r.op = "REMOVE"
  /\ r.target \in holders
  /\ Cardinality(holders) # 1
  /\ r.target # r.actor
  /\ holders' = holders \ {r.target}
  /\ UNCHANGED access

Commit(r) ==
  /\ access[r.actor] = "ACTIVE"
  /\ \/ SuspendAdministrator(r)
     \/ ReactivateAdministrator(r)
     \/ GrantAdministrator(r)
     \/ RemoveAdministrator(r)
  /\ requests' = requests \ {r}

\* The transaction denies the request, or the actor was suspended meanwhile.
Refuse(r) ==
  /\ requests' = requests \ {r}
  /\ UNCHANGED <<access, holders>>

AdminNext ==
  \/ \E r \in Requests : Authenticate(r)
  \/ \E r \in requests : Commit(r) \/ Refuse(r)

AdminSpec == AdminInit /\ [][AdminNext]_adminVars

----------------------------------------------------------------------------

(* However removals authenticated before one another interleave, somebody  *)
(* keeps the role: mutual removals cannot empty it.                        *)
SomebodyHoldsRole == holders # {}

(* Two administrators who suspend each other at once do not both succeed:  *)
(* whatever requests were authenticated before, only the removal of a Role *)
(* Assignment can leave the platform without an active administrator.      *)
OnlyRemovalLocksOut ==
  [][ActiveHolders # {} /\ ActiveHolders' = {} => holders' # holders]_adminVars

(* ADR 0033: Platform Administrator removal cannot eliminate the final     *)
(* active administrator.                                                   *)
ActiveAdministratorRemains == ActiveHolders # {}

============================================================================
