---------------------------- MODULE MCOperations ----------------------------
(* A small instance of what keeps the platform going, for TLC: who          *)
(* administers it, which requests it serves and how often, its incidents,   *)
(* rebuilds and releases.  The components write different tables and are    *)
(* examined one at a time.                                                  *)
EXTENDS AdministratorAccess, Requests, Incidents, Maintenance, Admission,
        Releases, AuditLog, WebClient, Workspace, Readings, TLC

CONSTANTS a1, a2, a3, u1, q1, q2, q3, k1, i1, i2,
          rolledBack, indeterminate, backlog, reached, f1, f2, f3, s1, s2, o1,
          m1, m2, proxy, prober, nobody, v1, v2, v3, u2, j1, c1, g1

ActorOfKey == [k \in {k1} |-> u1]

\* The two alternatives about a rebuild, a sustained condition, and one that
\* the API reports.
FingerprintOfCondition ==
  [c \in {rolledBack, indeterminate, backlog, reached} |->
    CASE c = backlog -> f2 [] c = reached -> f3 [] OTHER -> f1]
Twos == [c \in {rolledBack, indeterminate, backlog, reached} |->
          IF c = backlog THEN 2 ELSE 1]

TwoRoles == {"STUDENT", "TEACHER"}
RoleOfEachPlace == [STUDENT_DISCOVERY |-> "STUDENT",
                    STUDENT_LEARNING |-> "STUDENT",
                    TEACHER_SCHEDULE |-> "TEACHER"]
DefaultOfRole == [STUDENT |-> "STUDENT_DISCOVERY",
                  TEACHER |-> "TEACHER_SCHEDULE"]

VARIABLE focus

operationsVars ==
  <<focus, adminVars, requestVars, incidentVars, maintenanceVars,
    admissionVars, releaseVars, auditVars, clientVars, workspaceVars,
    readingVars>>

AboutReadings ==
  {"outages", "rebuild readings", "queue readings", "count readings"}
AboutIncidents == {"backlog", "rebuild incidents", "reports"}
AboutAdmission == {"sources", "denials", "charges"}
AboutReleases == {"rollouts", "gates"}
AboutAuditLog == {"pages", "filters", "scopes", "files", "retention"}

OperationsInit ==
  /\ focus \in {"administrators", "requests", "maintenance", "panels",
                "workspaces"}
               \cup AboutIncidents \cup AboutAdmission \cup AboutReleases
               \cup AboutAuditLog \cup AboutReadings
  /\ AdminInit
  /\ RequestsInit
  /\ IncidentsInit
  /\ MaintenanceInit
  /\ AdmissionInit
  /\ ReleasesInit
  /\ web = v1
  /\ AuditLogInit
  /\ ClientInit
  /\ WorkspaceInit /\ userRoles = TwoRoles
  /\ ReadingsInit
  /\ focus # "panels" => openPanel = "credits"
  /\ focus \notin {"scopes", "files"} => administers

OnlyAdministrators ==
  /\ focus = "administrators"
  /\ UNCHANGED <<focus, requestVars, incidentVars, maintenanceVars,
                 admissionVars, releaseVars, auditVars, clientVars,
                 workspaceVars, readingVars>>
OnlyRequests ==
  /\ focus = "requests"
  /\ UNCHANGED <<focus, adminVars, incidentVars, maintenanceVars,
                 admissionVars, releaseVars, auditVars, clientVars,
                 workspaceVars, readingVars>>
OnlyIncidents ==
  /\ focus \in AboutIncidents
  /\ UNCHANGED <<focus, adminVars, requestVars, maintenanceVars,
                 admissionVars, releaseVars, auditVars, clientVars,
                 workspaceVars, readingVars>>
OnlyMaintenance ==
  /\ focus = "maintenance"
  /\ UNCHANGED <<focus, adminVars, requestVars, incidentVars,
                 admissionVars, releaseVars, auditVars, clientVars,
                 workspaceVars, readingVars>>
OnlyAdmission ==
  /\ focus \in AboutAdmission
  /\ UNCHANGED <<focus, adminVars, requestVars, incidentVars,
                 maintenanceVars, releaseVars, auditVars, clientVars,
                 workspaceVars, readingVars>>
OnlyReleases ==
  /\ focus \in AboutReleases
  /\ UNCHANGED <<focus, adminVars, requestVars, incidentVars,
                 maintenanceVars, admissionVars, auditVars, clientVars,
                 workspaceVars, readingVars>>
OnlyAuditLog ==
  /\ focus \in AboutAuditLog
  /\ UNCHANGED <<focus, adminVars, requestVars, incidentVars,
                 maintenanceVars, admissionVars, releaseVars, clientVars,
                 workspaceVars, readingVars>>
OnlyPanels ==
  /\ focus = "panels"
  /\ UNCHANGED <<focus, adminVars, requestVars, incidentVars, maintenanceVars,
                 admissionVars, releaseVars, auditVars, workspaceVars,
                 readingVars>>
OnlyWorkspaces ==
  /\ focus = "workspaces"
  /\ UNCHANGED <<focus, adminVars, requestVars, incidentVars, maintenanceVars,
                 admissionVars, releaseVars, auditVars, clientVars,
                 readingVars>>
OnlyReadings ==
  /\ focus \in AboutReadings
  /\ UNCHANGED <<focus, adminVars, requestVars, incidentVars, maintenanceVars,
                 admissionVars, releaseVars, auditVars, clientVars,
                 workspaceVars>>

\* In a panel of several forms another form does what another target does.
TargetsOfPanel(p) == IF Cardinality(FormsOf(p)) = 1 THEN {s1, s2} ELSE {s1}

\* The first call is of one form of those that wait for one another; a form
\* that keeps no key sends two calls to one page, and two forms of a panel
\* are used.
OneOpening ==
  /\ calls' # <<>> =>
       calls'[1].form \notin
         {CancelOwn, RescheduleOwn, WithdrawEntry}
           \cup {f \in ChangeAssignment : f.action # "grant"}
  /\ Len(calls') > 2 \/ reloads' > 0 =>
       \E f \in FormsOf(openPanel) : f.keys # "FRESH"
  /\ Cardinality({calls'[i].form : i \in DOMAIN calls'}) <= 2

\* The requests are alike, and arrive in the order of their names.
InOrder ==
  /\ mutation'[q1] = Fresh => mutation'[q2] = Fresh
  /\ mutation'[q2] = Fresh => mutation'[q3] = Fresh
  /\ mutation'[q1] # Fresh => mutation'[q1].input = i1

\* Two incidents one after the other of the sustained condition; one incident
\* of the others, which an owner or two reports are about at a time.
OneTopic ==
  /\ holding' \subseteq
       CASE focus = "backlog" -> {backlog}
         [] focus = "rebuild incidents" -> {rolledBack, indeterminate}
         [] OTHER -> {}
  /\ focus # "reports" => \A s \in Reporters : call'[s] = NoCall
  /\ focus # "backlog" =>
       Cardinality({i \in Incidents : incident'[i] # NoRow}) <= 1

\* One slot is taken before the other.  Four requests of one source, of the
\* proxy and of both; three that are denied; or three that charge a User.
OneBudget ==
  /\ \A q \in Slots :
       slot'[q] # Vacant =>
         /\ focus \in {"sources", "denials"} =>
              slot'[q].class = "QUERY" /\ slot'[q].source = s1
         /\ focus = "sources" =>
              slot'[q].user = u1 /\ slot'[q].stage = "RECEIVED" /\ q = q1
         /\ focus = "charges" =>
              slot'[q].user = u1 /\ slot'[q].class = "MUTATION"
         /\ q = q2 /\ slot[q2] = Vacant => slot[q1] # Vacant
  /\ Cardinality({h \in history' : h.kind = "REQUEST"})
       <= IF focus = "sources" THEN 4 ELSE 3
  /\ \A h \in history' :
       /\ focus # "sources" =>
            /\ h.kind \notin {"REFUSED", "UNVERIFIED"}
            /\ h.who \notin {proxy, prober}
       /\ focus = "charges" => h.kind # "DENIED"
       /\ focus = "sources" => h.who # prober

\* Three rollouts whose gates are always answered, beside one worker; or one
\* of another release whose gate may be answered or not, beside both workers.
OneRollout ==
  IF focus = "gates"
  THEN /\ rollouts' <= 1
       /\ rollout'.release # v1
  ELSE /\ \A r \in ReleaseNames : workers'[r] # -1 => r = heartbeat'.release
       /\ \A r \in ReleaseNames :
            workers[r] # -1 /\ workers'[r] = -1 => rollout.stage = "WORKER"
       /\ gate # NoGate => rollout' # NoRollout
       /\ gate' # NoGate /\ gate'.probed => gate'.consecutive > 0
       /\ rollout'.stage = "GATES" \/ heartbeat'.age = 0

\* What a manager did and what the viewer was refused.
KindsOfEntries ==
  {[by |-> u2, as |-> "ORGANIZATION_MANAGER", outcome |-> "SUCCEEDED"],
   [by |-> u1, as |-> "STUDENT", outcome |-> "DENIED"]}
TwoFilters == {[outcome |-> "ANY"], [outcome |-> "DENIED"]}

\* Ids are drawn in order, and entries written within a day.  Pages of
\* one filter, of two, and of a viewer whose roles change; files; or one
\* entry through the months of its retention.
OneReading ==
  /\ {e.id : e \in written'} = 1 .. Cardinality(written')
  /\ CASE focus = "pages" ->
           sweep' = Idle /\ export' = Unasked /\ instant' < 3
           /\ UNCHANGED <<administers, managers>>
           /\ panel'.applied.outcome = "ANY"
      [] focus = "filters" ->
           sweep' = Idle /\ export' = Unasked /\ instant' < 2
           /\ UNCHANGED <<administers, managers>>
           /\ Cardinality(written') <= 3
      [] focus = "scopes" ->
           sweep' = Idle /\ export' = Unasked /\ instant' < 3
           /\ panel'.applied.outcome = "ANY" /\ Cardinality(written') <= 3
           /\ Cardinality({e \in written' : e.by = Viewer}) <= 1
      [] focus = "files" ->
           sweep' = Idle /\ ~panel'.paging /\ instant' < 2
           /\ UNCHANGED managers /\ panel'.applied.outcome = "ANY"
           /\ Cardinality({e \in written' : e.by = Viewer}) <= 1
      [] OTHER ->
           Cardinality(written') <= 1
           /\ UNCHANGED <<administers, managers, panel>>

\* The User is suspended for good, loses or gains the second role, and asks
\* from elsewhere for a place of the wrong role or another of their own.
OneUser ==
  /\ blocked => blocked'
  /\ userRoles' # userRoles => TwoRoles \in {userRoles, userRoles'}
  /\ \A c \in remembers' \ remembers :
       c.stage = "ALONE" => RoleOfPlace[c.place] # c.role
                              \/ DefaultPlace[c.role] # c.place

\* The connection and the schema change, or a rebuild, the queue, or what is
\* counted.
OneSight ==
  /\ \A fact \in DOMAIN facts :
       fact \notin (CASE focus = "outages" -> {"reachable", "schema"}
                     [] focus = "rebuild readings" ->
                          {"maintenance", "rebuilt", "attempt", "sinceRebuild"}
                     [] focus = "queue readings" ->
                          {"heartbeat", "runnable", "exhausted", "emails"}
                     [] OTHER -> {"sinceReconciled", "failures", "atLimit",
                                  "refused", "denied", "unverified"})
         => facts'[fact] = facts[fact]
  /\ changes' <= CASE focus = "outages" -> 5
                   [] focus = "rebuild readings" -> 3
                   [] OTHER -> 2
  /\ readings' <= CASE focus = "outages" -> 6
                    [] focus = "rebuild readings" -> 3
                    [] OTHER -> 2

OperationsNext ==
  \/ OnlyAdministrators /\ AdminNext
  \/ OnlyRequests /\ RequestsNext /\ InOrder
  \/ OnlyIncidents /\ IncidentsNext /\ OneTopic
  \/ OnlyMaintenance /\ MaintenanceNext
  \/ OnlyAdmission /\ AdmissionNext /\ OneBudget
  \/ OnlyReleases /\ ReleasesNext /\ OneRollout
  \/ OnlyAuditLog /\ AuditLogNext /\ OneReading
  \/ OnlyPanels /\ ClientNext /\ OneOpening
  \/ OnlyWorkspaces /\ WorkspaceNext /\ OneUser
  \/ OnlyReadings /\ ReadingsNext /\ OneSight

\* What the owner is told.
AlertsAreTrue ==
  AlertsAreSparing /\ (focus \in AboutReadings => WatchIsHonest)

\* What the browser shows and repeats.
ClientIsSound == RetriesAreSafe /\ WorkspaceIsChosen

OperationsSpec == OperationsInit /\ [][OperationsNext]_operationsVars

=============================================================================
