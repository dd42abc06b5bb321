------------------------------ MODULE WebClient ------------------------------
(***************************************************************************)
(* The forms of the web client that ask for a mutation, and the idempotency *)
(* keys they send.  A form that keeps its key in its panel sends a          *)
(* retry of an unanswered attempt under the same key; another makes a fresh *)
(* key at each press.  The API answers a key it remembers as it did before  *)
(* (Requests); here is what a kept key is worth in front of it.             *)
(***************************************************************************)
EXTENDS Naturals, Sequences, FiniteSets

CONSTANTS
  TargetsOf(_),    \* what the forms of a panel can be about
  MaxCalls,        \* bound: calls a panel sends
  MaxReloads       \* bound: times a page is loaded again

ASSUME WebClientAssumption == MaxCalls \in Nat /\ MaxReloads \in Nat

----------------------------------------------------------------------------
(* The forms.  "group" names the forms whose buttons are disabled while a   *)
(* call of one of them waits.  "again" is what the API does with an attempt *)
(* that has taken effect and comes back under another key.                  *)

Form(action, panel, keys, group, again) ==
  [action |-> action, panel |-> panel, keys |-> keys, group |-> group,
   again |-> again]

Refused == {"REFUSED"}
Repeated == {"REPEATED"}
Harmless == {"HARMLESS"}
Enabled == "NEVER DISABLED"

\* The key of an unanswered attempt is kept until any answer comes.
Kept(action, panel, group, again) == Form(action, panel, "KEPT", group, again)

\* A key for every press; the form is a panel of its own.
FreshKey(action, group, again) == Form(action, action, "FRESH", group, again)

Book == Kept("book", "discovery", "booking", Refused)
CancelOwn == Kept("cancel", "discovery", "booking", Refused)
RescheduleOwn == Kept("reschedule", "discovery", "booking", Refused)
JoinList == Kept("joinWaitlist", "discovery", "waitlist", Refused)
WithdrawEntry == Kept("withdrawWaitlist", "discovery", "waitlist", Refused)

ChangeSubscription ==
  {Kept(action, "subscription", action, Refused) :
     action \in {"schedule", "undo"}}
Adjust == Kept("adjustClassCredits", "credits", "credits", Repeated)

CreateCohort == Kept("createCohort", "cohorts", "create", Refused)
AddMembership == Kept("addCohortMembership", "cohorts", "add", Refused)
EndMembership == Kept("endCohortMembership", "cohorts", "end", Refused)

AnswerInvitation ==
  {Kept(action, "invitations", "respond", Refused) :
     action \in {"accept", "decline"}}
EndOwnSponsorship == Kept("endOwn", "own sponsorship", "end", Refused)
Invite == Kept("invite", "organization", "invite", Refused)
EndSponsored == Kept("endSponsored", "organization", "end", Refused)

\* The key belongs to the kind and range asked for: a refused request keeps it
\* for the same range, but for a busy queue, and a corrected range is another
\* target with a key of its own, though the comment in the code counts it as
\* the same attempt.  A range may be asked for again once its export has ended.
RequestExport ==
  Form("requestExport", "exports", "KEPT WHEN REFUSED", "request",
       Refused \cup Repeated)

ChangeAssignment ==
  {Form(action, "roles", "FRESH", "roles", Refused) :
     action \in {"grant", "remove", "suspend", "reactivate", "anonymize"}}

PublishSession == FreshKey("publish", "publish", Refused)
ChangeSeats == FreshKey("changeCapacity", Enabled, Harmless)
CancelSession == FreshKey("cancelSession", Enabled, Refused)
SubstituteSession == FreshKey("substitute", Enabled, Refused)
ReportOwnAbsence == FreshKey("reportAbsence", "reportAbsence", Refused)

CreateCourse == FreshKey("createCourse", Enabled, Refused)
CreateLessonUnit == FreshKey("createLessonUnit", Enabled, Repeated)
RetireLessonUnit == FreshKey("retireLessonUnit", Enabled, Harmless)
AddMaterial == FreshKey("addMaterial", Enabled, Repeated)
ReviseMaterial == FreshKey("reviseMaterial", Enabled, Harmless)
SaveTopic == FreshKey("saveTopic", Enabled, Harmless)
SaveProfile == FreshKey("saveProfile", Enabled, Harmless)
ChangeQualification == FreshKey("qualification", Enabled, Refused)

DecideTask == FreshKey("decideTask", Enabled, Refused)
RequestReview == FreshKey("requestReview", "review", Refused)
DecideReview == FreshKey("decideReview", "review", Refused)
RecordRoster == FreshKey("recordRoster", "roster", Harmless)
SaveFeedback == FreshKey("saveFeedback", "feedback", Harmless)
SaveRating == FreshKey("saveRating", "rating", Harmless)

\* The form of a redaction stays disabled when its call is lost.
Redact == Form("redact", "redact", "STUCK", "redact", Repeated)

AddRange == FreshKey("addRange", "addRange", Refused)
AddException == FreshKey("addException", "addException", Repeated)
EndRange == FreshKey("endRange", Enabled, Harmless)
RemoveException == FreshKey("removeException", Enabled, Refused)

Forms ==
  {Book, CancelOwn, RescheduleOwn, JoinList, WithdrawEntry, Adjust,
   CreateCohort, AddMembership, EndMembership, EndOwnSponsorship, Invite,
   EndSponsored, RequestExport, PublishSession, ChangeSeats, CancelSession,
   SubstituteSession, ReportOwnAbsence, CreateCourse, CreateLessonUnit,
   RetireLessonUnit, AddMaterial, ReviseMaterial, SaveTopic, SaveProfile,
   ChangeQualification, DecideTask, RequestReview, DecideReview,
   RecordRoster, SaveFeedback, SaveRating, Redact, AddRange, AddException,
   EndRange, RemoveException}
    \cup ChangeSubscription \cup AnswerInvitation \cup ChangeAssignment

Panels == {f.panel : f \in Forms}
FormsOf(p) == {f \in Forms : f.panel = p}

----------------------------------------------------------------------------
VARIABLES
  openPanel,       \* the panel that is open
  pending,         \* its pendingAttempt
  calls,           \* the calls it has sent, with what became of each
  told,            \* answers shown about a form and target: an attempt ends
  reloads,
  displaced        \* attempts whose key the panel lost, and by what

clientVars == <<openPanel, pending, calls, told, reloads, displaced>>

Indexes == DOMAIN calls
NoAttempt == [kept |-> FALSE]
Pending(f, t, k) == [kept |-> TRUE, form |-> f, target |-> t, key |-> k]

ClientInit ==
  /\ openPanel \in Panels
  /\ pending = NoAttempt
  /\ calls = <<>>
  /\ told = [at \in FormsOf(openPanel) \X TargetsOf(openPanel) |-> 0]
  /\ reloads = 0
  /\ displaced = {}

\* The attempt the panel holds, and the loss of its key.
AttemptOf(f, t) == [form |-> f, target |-> t, number |-> told[<<f, t>>]]
Lost(cause) ==
  IF pending.kept
  THEN {[attempt |-> AttemptOf(pending.form, pending.target),
         cause |-> cause]}
  ELSE {}

Waits(i) == calls[i].client = "WAITING"
Busy(f) ==
  \/ \E i \in Indexes : Waits(i) /\ calls[i].form.group = f.group
  \/ /\ f.keys = "STUCK"
     /\ \E i \in Indexes : calls[i].form = f /\ calls[i].client = "LOST"

KeepsKey(f) == f.keys \in {"KEPT", "KEPT WHEN REFUSED"}
HeldFor(f, t) == pending.kept /\ pending.form = f /\ pending.target = t

\* The form is sent, under the key of its unanswered attempt or a new one.
Press(f, t) ==
  /\ Len(calls) < MaxCalls
  /\ ~Busy(f)
  /\ LET new == Len(calls) + 1
         key == IF KeepsKey(f) /\ HeldFor(f, t) THEN pending.key ELSE new
     IN  /\ calls' = Append(calls,
               [form |-> f, target |-> t, key |-> key,
                number |-> told[<<f, t>>], client |-> "WAITING",
                server |-> "SENT", effect |-> FALSE])
         /\ IF KeepsKey(f)
            THEN /\ pending' = Pending(f, t, key)
                 /\ displaced' = displaced \cup
                      (IF key = new THEN Lost("PRESS") ELSE {})
            ELSE UNCHANGED <<pending, displaced>>
  /\ UNCHANGED <<openPanel, told, reloads>>

----------------------------------------------------------------------------
(* The API in front of the panel.                                          *)

Decided(i) == calls[i].server \in {"ACCEPTED", "REFUSED"}
SameKey(i, j) == calls[i].form = calls[j].form /\ calls[i].key = calls[j].key
SameAttempt(i, j) ==
  /\ calls[i].form = calls[j].form
  /\ calls[i].target = calls[j].target
  /\ calls[i].number = calls[j].number

TookEffect(i) == \E j \in Indexes : SameAttempt(i, j) /\ calls[j].effect
ServedWith(i, answer, effect) ==
  calls' = [calls EXCEPT ![i].server = answer, ![i].effect = effect]

\* The record of a key answers for it, and refuses another input under it.
Remember(i) ==
  \E j \in Indexes :
    /\ Decided(j) /\ SameKey(i, j)
    /\ ServedWith(i, IF calls[j].target = calls[i].target
                   THEN calls[j].server ELSE "REFUSED", FALSE)

\* A key without a record is decided, by the state it finds.
Decide(i) ==
  /\ ~ \E j \in Indexes : Decided(j) /\ SameKey(i, j)
  /\ \/ ~TookEffect(i) /\ ServedWith(i, "ACCEPTED", TRUE)
     \/ ~TookEffect(i) /\ ServedWith(i, "REFUSED", FALSE)
     \/ /\ TookEffect(i)
        /\ \E again \in calls[i].form.again :
             CASE again = "REFUSED" -> ServedWith(i, "REFUSED", FALSE)
               [] again = "HARMLESS" -> ServedWith(i, "ACCEPTED", FALSE)
               [] again = "REPEATED" -> ServedWith(i, "ACCEPTED", TRUE)

\* A call reaches the API at any time, after its panel has given it up too.
Serve(i) ==
  /\ calls[i].server = "SENT"
  /\ Remember(i) \/ Decide(i)
  /\ UNCHANGED <<openPanel, pending, told, reloads, displaced>>

----------------------------------------------------------------------------
(* What becomes of a call at the panel.                                    *)

\* A refused export keeps its key, unless the queue was busy.
KeepsItStill(i) ==
  \/ ~KeepsKey(calls[i].form)
  \/ /\ calls[i].form.keys = "KEPT WHEN REFUSED"
     /\ calls[i].server = "REFUSED"

OwnAnswer(i) == HeldFor(calls[i].form, calls[i].target)

\* An answer is shown, and forgets the pending attempt, whichever it is.
Hear(i) ==
  /\ Waits(i) /\ Decided(i)
  /\ calls' = [calls EXCEPT ![i].client = calls[i].server]
  /\ told' = [told EXCEPT ![<<calls[i].form, calls[i].target>>] = @ + 1]
  /\ \/ /\ KeepsKey(calls[i].form)
        /\ pending' = NoAttempt
        /\ displaced' = displaced \cup
             (IF OwnAnswer(i) THEN {} ELSE Lost("ANSWER"))
     \/ KeepsItStill(i) /\ UNCHANGED <<pending, displaced>>
  /\ UNCHANGED <<openPanel, reloads>>

\* Mutant: a failed call forgets the pending attempt as an answer does.
MissAndForget(i) ==
  /\ Waits(i)
  /\ calls' = [calls EXCEPT ![i].client = "LOST"]
  /\ pending' = NoAttempt
  /\ UNCHANGED <<openPanel, told, reloads, displaced>>

\* The call fails at the client, whatever it has done or will do.
Miss(i) ==
  /\ Waits(i)
  /\ calls' = [calls EXCEPT ![i].client = "LOST"]
  /\ UNCHANGED <<openPanel, pending, told, reloads, displaced>>

\* The page is loaded again: its state is gone, its calls may go on.
Reload ==
  /\ reloads < MaxReloads
  /\ pending' = NoAttempt
  /\ calls' = [i \in Indexes |->
       IF calls[i].client \in {"WAITING", "LOST"}
       THEN [calls[i] EXCEPT !.client = "GONE"] ELSE calls[i]]
  /\ reloads' = reloads + 1
  /\ displaced' = displaced \cup
       {[attempt |-> AttemptOf(calls[i].form, calls[i].target),
         cause |-> "RELOAD"] :
           i \in {j \in Indexes : calls[j].form.keys # "FRESH"}}
  /\ UNCHANGED <<openPanel, told>>

\* Another student's id is typed in: the credits' attempt is given up.
ChangeStudent ==
  /\ openPanel = Adjust.panel
  /\ pending' = NoAttempt
  /\ displaced' = displaced \cup Lost("PRESS")
  /\ UNCHANGED <<openPanel, calls, told, reloads>>

ClientNext ==
  \/ \E f \in FormsOf(openPanel), t \in TargetsOf(openPanel) : Press(f, t)
  \/ \E i \in Indexes : Serve(i) \/ Hear(i) \/ Miss(i)
  \/ Reload
  \/ ChangeStudent

ClientSpec == ClientInit /\ [][ClientNext]_clientVars

----------------------------------------------------------------------------
(* Properties.                                                             *)

\* Every form of the panel waits for every other: at most one call waits.
Exclusive ==
  \A f, g \in FormsOf(openPanel) : f.group = g.group /\ f.group # Enabled

Displaced(i) ==
  \E d \in displaced :
    d.attempt = [form |-> calls[i].form, target |-> calls[i].target,
                 number |-> calls[i].number]

\* However often a form that keeps its key, or is stuck, is pressed for one
\* attempt, and whatever is lost or late: the attempt takes effect once, and
\* nobody is told it was refused when it was not, for as long as the panel has
\* its key.  The key is lost when the page is loaded again, when the User turns
\* to another attempt or Student, or, only where a panel's forms do not wait
\* for each other, with the answer of another form.  An attempt whose key was
\* lost, and one of a form with fresh keys, still takes effect once where the
\* API refuses or ignores its repetition; what the API repeats (Class Credits
\* adjusted, a unit created) may then be done twice.
RetriesAreSafe ==
  /\ \A i \in Indexes :
       calls[i].form.keys # "FRESH" /\ ~Displaced(i)
         => /\ Cardinality({j \in Indexes :
                  SameAttempt(i, j) /\ calls[j].effect}) <= 1
            /\ calls[i].client = "REFUSED" => ~TookEffect(i)
  /\ \A i \in Indexes : "REPEATED" \notin calls[i].form.again =>
       Cardinality({j \in Indexes : SameAttempt(i, j) /\ calls[j].effect}) <= 1
  /\ Exclusive => \A d \in displaced : d.cause # "ANSWER"

=============================================================================
