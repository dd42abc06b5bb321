---------------------------- MODULE Sponsorship ----------------------------
(***************************************************************************)
(* Sponsorship Invitations, Sponsorships, and the worker that expires the  *)
(* former and grants the monthly credits of the latter.  A Sponsorship has *)
(* the number of the invitation it was accepted from.                      *)
(***************************************************************************)
EXTENDS CreditGrants

CONSTANTS
  Organizations,
  MaxInvitations,     \* bound: rows of sponsorship_invitations
  InvitationLife      \* days an invitation stays open

ASSUME SponsorshipAssumption ==
  /\ IsFiniteSet(Organizations)
  /\ MaxInvitations \in Nat
  /\ InvitationLife \in Nat \ {0}

Invitations == 1 .. MaxInvitations

VARIABLES
  invitations,    \* sponsorship_invitations
  sponsorships    \* sponsorships

sponsorshipVars == <<invitations, sponsorships>>

NoInstant == -1
Nobody == "nobody"

NoInvitation ==
  [state |-> "NONE", student |-> Nobody, organization |-> Nobody,
   expiresAt |-> NoInstant]

NoSponsorship ==
  [state |-> "NONE", acceptedAt |-> NoInstant, grantCount |-> 0,
   next |-> NoInstant, endedAt |-> NoInstant]

SponsorshipInit ==
  /\ invitations = [i \in Invitations |-> NoInvitation]
  /\ sponsorships = [i \in Invitations |-> NoSponsorship]

----------------------------------------------------------------------------
(* Invitations.                                                            *)

Sponsored(u) ==
  \E i \in Invitations :
    invitations[i].student = u /\ sponsorships[i].state = "ACTIVE"

FreshInvitation(i) ==
  /\ invitations[i].state = "NONE"
  /\ \A j \in 1 .. i - 1 : invitations[j].state # "NONE"

InviteToSponsorship(o, u, i) ==
  /\ FreshInvitation(i)
  /\ u \in studentRole
  /\ ~Sponsored(u)
  /\ \A j \in Invitations :
       invitations[j].state = "PENDING"
         => <<invitations[j].student, invitations[j].organization>> # <<u, o>>
  /\ invitations' = [invitations EXCEPT ![i] =
       [state |-> "PENDING", student |-> u, organization |-> o,
        expiresAt |-> now + InvitationLife]]
  /\ UNCHANGED <<now, userVars, creditVars, sponsorships>>

ExpiredAt(i, at) == invitations[i].expiresAt <= at

\* at is a reading of the clock since the invitation was made.
CanRespond(i, at) ==
  /\ invitations[i].state = "PENDING"
  /\ accessStatus[invitations[i].student] = "ACTIVE"
  /\ invitations[i].expiresAt - InvitationLife <= at
  /\ ~ExpiredAt(i, at)

CloseInvitation(i, state) ==
  invitations' = [invitations EXCEPT ![i].state = state]

AcceptSponsorshipInvitation(i, at) ==
  LET u == invitations[i].student IN
  /\ CanRespond(i, at)
  /\ ~Sponsored(u)
  /\ sponsorships' = [sponsorships EXCEPT ![i] =
       [state |-> "ACTIVE", acceptedAt |-> at, grantCount |-> 0,
        next |-> Anniversary(at, 1), endedAt |-> NoInstant]]
  /\ Grant(u, "ORGANIZATION_CREDIT_GRANT", i, at)
  /\ CloseInvitation(i, "ACCEPTED")
  /\ UNCHANGED <<now, userVars>>

DeclineSponsorshipInvitation(i, at) ==
  /\ CanRespond(i, at)
  /\ CloseInvitation(i, "DECLINED")
  /\ UNCHANGED <<now, userVars, creditVars, sponsorships>>

\* By the worker, or by a response that comes too late.
ExpireInvitation(i) ==
  /\ invitations[i].state = "PENDING"
  /\ ExpiredAt(i, now)
  /\ CloseInvitation(i, "EXPIRED")
  /\ UNCHANGED <<now, userVars, creditVars, sponsorships>>

----------------------------------------------------------------------------
(* Sponsorships.  An Organization Manager may end one at any time, and so  *)
(* a suspended Student's too.  Cohort memberships and progress snapshots,  *)
(* which start and end with a Sponsorship, are left out.                   *)

\* The end may not precede the start: a check of the table.
EndSponsorship(i, at) ==
  /\ sponsorships[i].state = "ACTIVE"
  /\ sponsorships[i].acceptedAt <= at
  /\ sponsorships' = [sponsorships EXCEPT ![i].state = "ENDED",
                                          ![i].endedAt = at]
  /\ UNCHANGED <<now, userVars, creditVars, invitations>>

Due(i) == sponsorships[i].state = "ACTIVE" /\ sponsorships[i].next <= now

Advanced(s) ==
  [s EXCEPT !.grantCount = @ + 1,
            !.next = Anniversary(s.acceptedAt, s.grantCount + 2)]

\* One due Sponsorship of grantDueSponsorshipCredits.  The pointer moves on in
\* any case: to a period granted before, past a suspended Student, or with
\* the period's credits.
GrantDueSponsorshipCredits(i) ==
  LET u == invitations[i].student
      period == sponsorships[i].next
      prior == Entry(u, "ORGANIZATION_CREDIT_GRANT", i, period) \in grants
  IN
  /\ Due(i)
  /\ sponsorships' = [sponsorships EXCEPT ![i] = Advanced(@)]
  /\ IF prior \/ accessStatus[u] = "SUSPENDED"
     THEN UNCHANGED creditVars
     ELSE Grant(u, "ORGANIZATION_CREDIT_GRANT", i, period)
  /\ UNCHANGED <<now, userVars, invitations>>

============================================================================
