----------------------------- MODULE Workspace -----------------------------
(***************************************************************************)
(* The role workspaces of one User in one browser tab, and what the server *)
(* remembers of them (src/apps/web/src/app.tsx, student-workspace.tsx and  *)
(* the backend's authorization/role-workspace-service.ts).                 *)
(*                                                                         *)
(* A place belongs to a role.  The tab keeps the acting role and a path    *)
(* per role across page loads; the routed component keeps a confirmed role *)
(* and the screen in it the answer to its query, for as long as they are   *)
(* mounted.  A route whose role is neither stored, nor confirmed, nor      *)
(* explicit in the navigation meets the deep-link guard.                   *)
(*                                                                         *)
(* Bounds: the User opens or returns to MaxVisits pages and asks the       *)
(* server at most MaxRemembers times at once to remember a place.          *)
(***************************************************************************)
EXTENDS Naturals, FiniteSets

CONSTANTS
  ActingRoles,      \* the roles a User may hold
  Places,           \* the places of their journeys
  RoleOfPlace,      \* the role each place belongs to
  DefaultPlace,     \* the place of each role nobody remembered another for
  FirstRole,        \* the role of the landing page "/student"
  Landing,          \* that page
  NoPlace,
  NoRole,
  MaxVisits,
  MaxRemembers

ASSUME WorkspaceAssumption ==
  /\ IsFiniteSet(ActingRoles)
  /\ NoRole \notin ActingRoles /\ FirstRole \in ActingRoles
  /\ NoPlace \notin Places /\ Landing \notin Places
  /\ RoleOfPlace \in [Places -> ActingRoles]
  /\ DefaultPlace \in [ActingRoles -> Places]
  /\ \A r \in ActingRoles : RoleOfPlace[DefaultPlace[r]] = r
  /\ MaxVisits \in Nat /\ MaxRemembers \in Nat

VARIABLES
  userRoles,        \* role_assignments of the User
  blocked,          \* whether the User is suspended
  kept,             \* role_workspace_places: a place per role, or NoPlace
  tab,              \* sessionStorage: the acting role and a path per role
  route,            \* where the tab is: the path and the explicit role
  backEntries,      \* entries that Back and Forward lead to
  shown,            \* the mounted route: its guard, query and answer
  remembers,        \* rememberRoleWorkspacePlace calls under way
  visits,           \* navigations so far
  chosen,           \* roles the User has chosen to act in (history)
  verifiedRoles     \* roles the server has answered for (history)

workspaceVars == <<userRoles, blocked, kept, tab, route, backEntries, shown,
                   remembers, visits, chosen, verifiedRoles>>

NoAnswer == [r \in ActingRoles |-> NoPlace]

RoleAt(path) == IF path = Landing THEN FirstRole ELSE RoleOfPlace[path]
Route(path, role) == [path |-> path, explicit |-> role]

-----------------------------------------------------------------------------
(* Where the tab leads. *)

\* The path the tab remembers for a role, or its default.
RememberedPath(r) ==
  IF tab.paths[r] = NoPlace THEN DefaultPlace[r] ELSE tab.paths[r]

\* Where a guard, a denial and an unknown path lead back to.
SafeReturn ==
  IF tab.role # NoRole THEN Route(RememberedPath(tab.role), NoRole)
  ELSE Route(Landing, FirstRole)

\* The routed component as it is first rendered at an entry.
InitiallyConfirmed(e, t) ==
  IF \/ RoleAt(e.path) \in {t.role, e.explicit}
     \/ e.path = Landing /\ t.role = NoRole
  THEN RoleAt(e.path) ELSE NoRole

Screen(confirmed, query, remembering) ==
  [confirmed |-> confirmed, query |-> query, answer |-> NoAnswer,
   remembering |-> remembering]

\* Two places are the same component on two routes, which keeps its state;
\* the landing page is another component.  A query of another role is asked
\* anew, one of the same role is not.
Rendered(e, t, fresh) ==
  LET remounted == fresh \/ (e.path = Landing) # (route.path = Landing)
      confirmed == IF remounted THEN InitiallyConfirmed(e, t)
                   ELSE shown.confirmed
  IN  IF RoleAt(e.path) \notin {confirmed, e.explicit, t.role}
      THEN Screen(confirmed, "GUARD", NoPlace)
      ELSE IF remounted \/ shown.query = "GUARD"
      THEN Screen(confirmed, "SENT", NoPlace)
      ELSE IF RoleAt(e.path) # RoleAt(route.path)
      THEN Screen(confirmed, "SENT", shown.remembering)
      ELSE shown

\* What the tab stores of an answer about role r.
Stored(r, answer) == [role |-> r, paths |-> answer]

Call(r, p, follows) ==
  [role |-> r, place |-> p, stage |-> "SENT", follows |-> follows]

\* The effect of an answer on the entry: the acting role and every role's
\* place are stored and the explicit role is spent.  The landing page leads
\* on to the remembered place; another place is remembered, once.
Settle(e, screen, calls) ==
  LET r == RoleAt(e.path)
      stored == Stored(r, screen.answer)
      onward == Route(screen.answer[r], r)
      moved == e.path \notin {Landing, screen.answer[r], screen.remembering}
  IN  /\ tab' = stored
      /\ IF e.path = Landing
         THEN /\ route' = onward
              /\ shown' = Screen(InitiallyConfirmed(onward, stored), "SENT",
                                 NoPlace)
         ELSE /\ route' = Route(e.path,
                                IF e.explicit = r THEN NoRole ELSE e.explicit)
              /\ shown' = IF moved
                          THEN [screen EXCEPT !.remembering = e.path]
                          ELSE screen
      /\ remembers' = calls \cup
                        (IF moved THEN {Call(r, e.path, FALSE)} ELSE {})

\* An entry is rendered in the page: a screen that has its answer settles on
\* it again.
Render(e, t, calls) ==
  LET screen == Rendered(e, t, FALSE)
  IN  IF screen.query = "SHOWN" THEN Settle(e, screen, calls)
      ELSE /\ route' = e /\ shown' = screen /\ tab' = t
           /\ remembers' = calls

-----------------------------------------------------------------------------
(* The User in the tab. *)

WorkspaceInit ==
  /\ userRoles \in {roles \in SUBSET ActingRoles : FirstRole \in roles}
  /\ blocked = FALSE
  /\ kept = NoAnswer
  /\ tab = [role |-> NoRole, paths |-> NoAnswer]
  /\ route = Route(Landing, NoRole)
  /\ backEntries = {}
  /\ shown = Screen(FirstRole, "SENT", NoPlace)
  /\ remembers = {}
  /\ visits = 0
  /\ chosen = {FirstRole}
  /\ verifiedRoles = {}

Visit == visits < MaxVisits /\ visits' = visits + 1
ServerUnchanged == UNCHANGED <<userRoles, blocked, kept>>

\* A link or an address is opened: the page is loaded, the tab's storage
\* stays, and nobody waits for the calls of the page before.  Back to an entry
\* of an earlier load is such a load.
FollowLink(p) ==
  /\ Visit
  /\ backEntries' = {}
  /\ LET e == IF p = NoPlace THEN SafeReturn ELSE Route(p, NoRole)
     IN  route' = e /\ shown' = Rendered(e, tab, TRUE)
  /\ remembers' =
      {[c EXCEPT !.stage =
           IF @ \in {"READ", "GONE"} THEN "GONE" ELSE "ALONE"] :
         c \in {d \in remembers : d.stage # "KEPT"}}
  /\ ServerUnchanged /\ UNCHANGED <<tab, chosen, verifiedRoles>>

\* Back or Forward within the page.
GoBack(e) ==
  /\ Visit
  /\ e \in backEntries
  /\ backEntries' = (backEntries \ {e}) \cup {route}
  /\ Render(e, tab, remembers)
  /\ ServerUnchanged /\ UNCHANGED <<chosen, verifiedRoles>>

\* The guard's two answers.
ChangeRole ==
  /\ shown.query = "GUARD"
  /\ chosen' = chosen \cup {RoleAt(route.path)}
  /\ shown' = Screen(RoleAt(route.path), "SENT", NoPlace)
  /\ ServerUnchanged
  /\ UNCHANGED <<tab, route, backEntries, remembers, visits, verifiedRoles>>

ReturnSafely ==
  /\ shown.query \in {"GUARD", "DENIED"}
  /\ Visit
  /\ Render(SafeReturn, tab, remembers)
  /\ ServerUnchanged /\ UNCHANGED <<backEntries, chosen, verifiedRoles>>

\* A place of the journey, which is remembered before it is shown.
SelectPlace(p) ==
  /\ shown.query = "SHOWN"
  /\ RoleOfPlace[p] = RoleAt(route.path)
  /\ Cardinality(remembers) < MaxRemembers
  /\ shown' = [shown EXCEPT !.remembering = p]
  /\ remembers' = remembers \cup {Call(RoleOfPlace[p], p, TRUE)}
  /\ ServerUnchanged
  /\ UNCHANGED <<tab, route, backEntries, visits, chosen, verifiedRoles>>

\* Another role, at the place the answer gave for it.
SelectRole(r) ==
  /\ shown.query = "SHOWN"
  /\ shown.answer[r] # NoPlace
  /\ Visit
  /\ backEntries' = backEntries \cup {route}
  /\ chosen' = chosen \cup {r}
  /\ Render(Route(shown.answer[r], r), tab, remembers)
  /\ ServerUnchanged /\ UNCHANGED verifiedRoles

-----------------------------------------------------------------------------
(* The server and its answers. *)

\* loadRoleWorkspace, in one transaction: the roles the User holds with the
\* place of each, for a role among them.
MayActIn(r) == r \in userRoles /\ ~blocked
PlacesOfRoles ==
  [r \in ActingRoles |-> IF r \notin userRoles THEN NoPlace
                   ELSE IF kept[r] = NoPlace THEN DefaultPlace[r] ELSE kept[r]]

LoadWorkspace ==
  /\ shown.query = "SENT"
  /\ IF MayActIn(RoleAt(route.path))
     THEN /\ verifiedRoles' = verifiedRoles \cup {RoleAt(route.path)}
          /\ shown' = [shown EXCEPT !.query = "ANSWERED",
                                    !.answer = PlacesOfRoles]
     ELSE shown' = [shown EXCEPT !.query = "DENIED"] /\ UNCHANGED verifiedRoles
  /\ ServerUnchanged
  /\ UNCHANGED <<tab, route, backEntries, remembers, visits, chosen>>

WorkspaceLoads ==
  /\ shown.query = "ANSWERED"
  /\ Settle(route, [shown EXCEPT !.query = "SHOWN"], remembers)
  /\ ServerUnchanged
  /\ UNCHANGED <<backEntries, visits, chosen, verifiedRoles>>

\* A query that fails is a denial to the screen.
QueryFails ==
  /\ shown.query = "SENT"
  /\ shown' = [shown EXCEPT !.query = "DENIED"]
  /\ ServerUnchanged
  /\ UNCHANGED <<tab, route, backEntries, remembers, visits, chosen, verifiedRoles>>

\* The same User asks for any place from elsewhere.
AskElsewhere(r, p) ==
  /\ Cardinality(remembers) < MaxRemembers
  /\ remembers' = remembers \cup
       {[role |-> r, place |-> p, stage |-> "ALONE", follows |-> FALSE]}
  /\ ServerUnchanged
  /\ UNCHANGED <<tab, route, backEntries, shown, visits, chosen, verifiedRoles>>

\* A call whose page is gone is ALONE, then GONE: nobody hears its answer.
\* rememberRoleWorkspacePlace reads the roles first: a role the User lacks
\* and a place of another role are refused.
\* Mutant: a place of any role is remembered.
AnyPlaceFits(c) == MayActIn(c.role)
CanRemember(c) == MayActIn(c.role) /\ RoleOfPlace[c.place] = c.role
Becomes(c, stage) == (remembers \ {c}) \cup {[c EXCEPT !.stage = stage]}

ReadRoles(c) ==
  /\ c \in remembers /\ c.stage \in {"SENT", "ALONE"}
  /\ remembers' =
       IF CanRemember(c)
       THEN Becomes(c, IF c.stage = "SENT" THEN "READ" ELSE "GONE")
       ELSE remembers \ {c}
  /\ ServerUnchanged
  /\ UNCHANGED <<tab, route, backEntries, shown, visits, chosen, verifiedRoles>>

\* Then it remembers the place, unless the User was suspended meanwhile.  A
\* call that is refused, or fails, navigates nowhere.
KeepPlace(c) ==
  /\ c \in remembers /\ c.stage \in {"READ", "GONE"}
  /\ kept' = IF blocked THEN kept ELSE [kept EXCEPT ![c.role] = c.place]
  /\ remembers' = IF blocked \/ c.stage = "GONE" THEN remembers \ {c}
                  ELSE Becomes(c, "KEPT")
  /\ UNCHANGED <<userRoles, blocked, tab, route, backEntries, shown, visits,
                 chosen, verifiedRoles>>

\* Its answer is written to the tab; a place that was selected is opened,
\* wherever the tab is by then.
PlaceIsKept(c) ==
  /\ c \in remembers /\ c.stage = "KEPT"
  /\ LET t == [tab EXCEPT !.paths[c.role] = c.place]
         others == remembers \ {c}
     IN  IF c.follows
         THEN /\ Visit
              /\ backEntries' = backEntries \cup {route}
              /\ Render(Route(c.place, NoRole), t, others)
         ELSE /\ tab' = t /\ remembers' = others
              /\ UNCHANGED <<route, backEntries, shown, visits>>
  /\ ServerUnchanged /\ UNCHANGED <<chosen, verifiedRoles>>

-----------------------------------------------------------------------------
(* The administrators: roles and suspension change at any time. *)

SetRoles(roles) ==
  /\ roles # userRoles /\ FirstRole \in roles
  /\ userRoles' = roles
  /\ UNCHANGED <<blocked, kept, tab, route, backEntries, shown, remembers, visits,
                 chosen, verifiedRoles>>

SetBlocked ==
  /\ blocked' = ~blocked
  /\ UNCHANGED <<userRoles, kept, tab, route, backEntries, shown, remembers, visits,
                 chosen, verifiedRoles>>

WorkspaceNext ==
  \/ \E p \in Places \cup {Landing, NoPlace} : FollowLink(p)
  \/ \E e \in backEntries : GoBack(e)
  \/ ChangeRole
  \/ ReturnSafely
  \/ \E p \in Places : SelectPlace(p)
  \/ \E r \in ActingRoles : SelectRole(r)
  \/ LoadWorkspace
  \/ WorkspaceLoads
  \/ QueryFails
  \/ \E r \in ActingRoles, p \in Places : AskElsewhere(r, p)
  \/ \E c \in remembers : ReadRoles(c) \/ KeepPlace(c) \/ PlaceIsKept(c)
  \/ \E roles \in SUBSET ActingRoles : SetRoles(roles)
  \/ SetBlocked

WorkspaceSpec == WorkspaceInit /\ [][WorkspaceNext]_workspaceVars

-----------------------------------------------------------------------------
(* A workspace opens only in a role that the User chose and that the server *)
(* verified.  The acting role the tab stores is such a role, and every path *)
(* it or the server remembers for a role is a place of that role, so that a *)
(* safe return leads to no guard (GuardedWorkspaceRoute, app.tsx, and       *)
(* canRememberWorkspacePlace), whatever links, late answers, other devices  *)
(* and administrators do meanwhile.                                         *)

OpensAsChosen ==
  shown.query = "SHOWN" =>
    /\ RoleAt(route.path) \in chosen \cap verifiedRoles
    /\ tab.role = RoleAt(route.path)
ActingRoleIsVerified ==
  tab.role # NoRole => tab.role \in chosen \cap verifiedRoles
PlacesFitRoles ==
  \A r \in ActingRoles :
    /\ kept[r] # NoPlace => RoleOfPlace[kept[r]] = r
    /\ RoleAt(RememberedPath(r)) = r
ReturnIsUnguarded ==
  Rendered(SafeReturn, tab, FALSE).query # "GUARD"

WorkspaceIsChosen ==
  OpensAsChosen /\ ActingRoleIsVerified /\ PlacesFitRoles /\ ReturnIsUnguarded

=============================================================================
