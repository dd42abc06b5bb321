------------------------------ MODULE Delivery ------------------------------
(***************************************************************************)
(* The delivery of email notifications.  A transaction of the platform     *)
(* leaves an intent; a pass of the delivery worker, started every minute   *)
(* whether or not the one before has ended, claims the due intents one by  *)
(* one, and a claim uses up an attempt and pushes the next a day away.     *)
(* What became of an email stays in a receipt when the intent is compacted.*)
(* The clock is left out: an intent is due when next_attempt_at has come,  *)
(* and Later says that it comes, a day's stall of a pass included.  A pass *)
(* takes the due intents in any order, that of next_attempt_at included.   *)
(***************************************************************************)
EXTENDS Naturals

CONSTANTS
  Emails,          \* source_reference and recipient_user_id of an intent
  Recipients, RecipientOf,
  Passes,          \* passes of the worker that overlap
  MaxAttempts      \* 4, the largest attempt_count

ASSUME DeliveryAssumption ==
  /\ RecipientOf \in [Emails -> Recipients]
  /\ MaxAttempts \in Nat \ {0}

VARIABLES
  intent,          \* email_notification_intents
  due,             \* the pending ones whose next_attempt_at has come
  receipt,         \* delivery_receipts
  mailed,          \* mails the adapter accepted under each idempotency key
  task,            \* administrator_task_items about each email
  former,          \* recipients whose anonymization is requested
  pass             \* what each pass is doing

deliveryVars == <<intent, due, receipt, mailed, task, former, pass>>

IntentStates == {"ABSENT", "PENDING", "DELIVERED", "SUPPRESSED", "EXHAUSTED"}
Outcomes == {"NONE", "DELIVERED", "SUPPRESSED"}
NoIntent == [state |-> "ABSENT", attempts |-> 0]

\* todo: the intents the pass has read and not yet come to; retryable: what it
\* knows of the failure.
Idle == [step |-> "NEXT", todo |-> {}]
Steps == {"NEXT", "CLAIMED", "REUSING", "SENDING", "FAILED"}
Holding(p) == pass[p].step # "NEXT"

DeliveryInit ==
  /\ intent = [e \in Emails |-> NoIntent]
  /\ due = {}
  /\ receipt = [e \in Emails |-> "NONE"]
  /\ mailed = [e \in Emails |-> 0]
  /\ task = [e \in Emails |-> "NONE"]
  /\ former = {}
  /\ pass = [p \in Passes |-> Idle]

Decide(e, state) ==
  /\ intent' = [intent EXCEPT ![e].state = state]
  /\ due' = due \ {e}

\* A transaction notifies the recipient; the trigger of migration 0029 drops
\* the intents of former Users, and a row that is there is not added twice.
Enqueue(e) ==
  /\ intent[e].state = "ABSENT"
  /\ RecipientOf[e] \notin former
  /\ intent' = [intent EXCEPT ![e] = [state |-> "PENDING", attempts |-> 0]]
  /\ due' = due \cup {e}
  /\ UNCHANGED <<receipt, mailed, task, former, pass>>

Later(e) ==
  /\ intent[e].state = "PENDING"
  /\ e \notin due
  /\ due' = due \cup {e}
  /\ UNCHANGED <<intent, receipt, mailed, task, former, pass>>

StartPass(p) ==
  /\ pass[p] = Idle
  /\ due # {}
  /\ pass' = [pass EXCEPT ![p].todo = due]
  /\ UNCHANGED <<intent, due, receipt, mailed, task, former>>

\* The row is claimed if it is still due.  With no attempt left the update
\* breaks the check on attempt_count, and the error ends the pass.
Claim(p) ==
  /\ pass[p].step = "NEXT"
  /\ \E e \in pass[p].todo :
     LET claimable == intent[e].state = "PENDING" /\ e \in due
     IN \/ /\ claimable /\ intent[e].attempts < MaxAttempts
           /\ intent' = [intent EXCEPT ![e].attempts = @ + 1]
           /\ due' = due \ {e}
           /\ pass' = [pass EXCEPT ![p] =
                [step |-> "CLAIMED", todo |-> @.todo \ {e}, email |-> e,
                 attempt |-> intent[e].attempts + 1]]
        \/ /\ claimable /\ intent[e].attempts = MaxAttempts
           /\ pass' = [pass EXCEPT ![p] = Idle]
           /\ UNCHANGED <<intent, due>>
        \/ /\ ~claimable
           /\ pass' = [pass EXCEPT ![p].todo = @ \ {e}]
           /\ UNCHANGED <<intent, due>>
  /\ UNCHANGED <<receipt, mailed, task, former>>

\* The pass goes on with what is left of its list.
GoesOn(p) == pass' = [pass EXCEPT ![p] = [step |-> "NEXT", todo |-> @.todo]]
Becomes(p, step) == pass' = [pass EXCEPT ![p].step = step]

ReadReceipt(p) ==
  /\ pass[p].step = "CLAIMED"
  /\ Becomes(p, IF receipt[pass[p].email] = "NONE" THEN "SENDING" ELSE "REUSING")
  /\ UNCHANGED <<intent, due, receipt, mailed, task, former>>

\* A receipt never changes, so it need not be remembered.
ReuseReceipt(p) ==
  LET e == pass[p].email
  IN /\ pass[p].step = "REUSING"
     /\ IF intent[e].state = "PENDING"
        THEN Decide(e, receipt[e]) ELSE UNCHANGED <<intent, due>>
     /\ GoesOn(p)
     /\ UNCHANGED <<receipt, mailed, task, former>>

\* localRecordingEmailAdapter accepts each idempotency key once.
Accepted(e) == [mailed EXCEPT ![e] = IF @ = 0 THEN 1 ELSE @]

\* Mutant: the adapter does not write in the transaction it is given.
StillAccepted(e) == \E m \in {mailed, Accepted(e)} : mailed' = m

\* What a failed delivery transaction leaves of the adapter's work.
NothingAccepted(e) == mailed' = mailed

\* The delivery transaction, under the lock of the recipient.
Deliver(p) ==
  LET e == pass[p].email
      pending == intent[e].state = "PENDING"
      gone == RecipientOf[e] \in former
  IN /\ pass[p].step = "SENDING"
     /\ \/ /\ ~pending
           /\ GoesOn(p)
           /\ UNCHANGED <<intent, due, receipt, mailed>>
        \/ /\ pending /\ gone
           /\ intent' = [intent EXCEPT ![e] = NoIntent]
           /\ due' = due \ {e}
           /\ receipt' = [receipt EXCEPT ![e] =
                IF @ = "NONE" THEN "SUPPRESSED" ELSE @]
           /\ GoesOn(p)
           /\ UNCHANGED mailed
        \/ /\ pending /\ ~gone /\ receipt[e] = "NONE"
           /\ mailed' = Accepted(e)
           /\ receipt' = [receipt EXCEPT ![e] = "DELIVERED"]
           /\ Decide(e, "DELIVERED")
           /\ GoesOn(p)
        \* The adapter fails, or a row after it: a second receipt breaks the
        \* unique key.  What is not an EmailDeliveryFailure is not retried.
        \/ /\ pending /\ ~gone
           /\ \E retryable \in IF receipt[e] = "NONE" THEN BOOLEAN ELSE {FALSE} :
                pass' = [pass EXCEPT ![p] =
                  [step |-> "FAILED", todo |-> @.todo, email |-> e,
                   attempt |-> @.attempt, retryable |-> retryable]]
           /\ NothingAccepted(e)
           /\ UNCHANGED <<intent, due, receipt>>
     /\ UNCHANGED <<task, former>>

Exhausted(p) == ~pass[p].retryable \/ pass[p].attempt >= MaxAttempts

OpensTask(p) == Exhausted(p)

RecordFailure(p) ==
  LET e == pass[p].email
  IN /\ pass[p].step = "FAILED"
     /\ IF intent[e].state = "PENDING" /\ Exhausted(p)
        THEN Decide(e, "EXHAUSTED")
        ELSE UNCHANGED intent /\ due' = due \ {e}
     /\ task' = IF intent[e].state = "PENDING" /\ OpensTask(p) /\ task[e] = "NONE"
                THEN [task EXCEPT ![e] = "OPEN"] ELSE task
     /\ GoesOn(p)
     /\ UNCHANGED <<receipt, mailed, former>>

\* The worker stops with a claim in its hands.
Stop(p) ==
  /\ Holding(p)
  /\ pass' = [pass EXCEPT ![p] = Idle]
  /\ UNCHANGED <<intent, due, receipt, mailed, task, former>>

ResolveTask(e) ==
  /\ task[e] = "OPEN"
  /\ task' = [task EXCEPT ![e] = "RESOLVED"]
  /\ IF intent[e].state = "EXHAUSTED"
     THEN Decide(e, "SUPPRESSED") ELSE UNCHANGED <<intent, due>>
  /\ receipt' = [receipt EXCEPT ![e] = IF @ = "NONE" THEN "SUPPRESSED" ELSE @]
  /\ UNCHANGED <<mailed, former, pass>>

KeepsReceipt(e) == UNCHANGED receipt

\* Thirty days after the decision: no pass still holds the row.
Compact(e) ==
  /\ intent[e].state \in {"DELIVERED", "SUPPRESSED"}
  /\ \A p \in Passes : Holding(p) => pass[p].email # e
  /\ intent' = [intent EXCEPT ![e] = NoIntent]
  /\ KeepsReceipt(e)
  /\ UNCHANGED <<due, mailed, task, former, pass>>

\* anonymizeUser deletes the intents of the User, under the same lock.
Forget(u) ==
  /\ u \notin former
  /\ former' = former \cup {u}
  /\ intent' = [e \in Emails |->
       IF RecipientOf[e] = u THEN NoIntent ELSE intent[e]]
  /\ due' = {e \in due : RecipientOf[e] # u}
  /\ UNCHANGED <<receipt, mailed, task, pass>>

PassStep(p) ==
  \/ StartPass(p) \/ Claim(p) \/ ReadReceipt(p)
  \/ ReuseReceipt(p) \/ Deliver(p) \/ RecordFailure(p)

DeliveryNext ==
  \/ \E p \in Passes : PassStep(p) \/ Stop(p)
  \/ \E e \in Emails : Enqueue(e) \/ Later(e) \/ ResolveTask(e) \/ Compact(e)
  \/ \E u \in Recipients : Forget(u)

DeliverySpec == DeliveryInit /\ [][DeliveryNext]_deliveryVars

----------------------------------------------------------------------------
(* Properties.                                                             *)

\* The rows have their shapes, and a pass knows what its step needs.
DeliveryTypeOK ==
  /\ intent \in [Emails -> [state : IntentStates, attempts : 0 .. MaxAttempts]]
  /\ due \subseteq Emails
  /\ receipt \in [Emails -> Outcomes]
  /\ mailed \in [Emails -> Nat]
  /\ task \in [Emails -> {"NONE", "OPEN", "RESOLVED"}]
  /\ former \subseteq Recipients
  /\ \A p \in Passes :
       /\ pass[p].step \in Steps
       /\ pass[p].todo \subseteq Emails
       /\ Holding(p) => /\ pass[p].email \in Emails
                        /\ pass[p].attempt \in 1 .. MaxAttempts
       /\ pass[p].step = "FAILED" => pass[p].retryable \in BOOLEAN

\* However passes overlap, stop and retry, and whatever is compacted, enqueued
\* again, resolved or forgotten between: the platform keeps to OneMail.
Mail == INSTANCE OneMail WITH outcome <- receipt, sent <- mailed
SendsOneMail == Mail!MailSpec

\* An email the worker gave up on is before an Administrator, who has not yet
\* decided, and nobody has sent it or ruled it out: what is resolved or
\* compacted cannot come back as given up with its task already closed.
GivenUpIsEscalated ==
  \A e \in Emails : intent[e].state = "EXHAUSTED" =>
    task[e] = "OPEN" /\ receipt[e] = "NONE"

\* A pass stopped on the last attempt: the intent is pending and cannot be
\* claimed any more.
Spent(e) ==
  /\ intent[e].state = "PENDING" /\ intent[e].attempts = MaxAttempts
  /\ \A p \in Passes : Holding(p) => pass[p].email # e

\* Every email is delivered, suppressed or given up on, unless a pass stopped
\* on the last attempt of some email.
EmailsAreDecided ==
  \A e \in Emails : intent[e].state = "PENDING" ~>
    intent[e].state # "PENDING" \/ \E x \in Emails : Spent(x)

\* ADR 0046: unresolved failures remain actionable.
FailuresRemainActionable ==
  \A e \in Emails : intent[e].state = "PENDING" ~> intent[e].state # "PENDING"

=============================================================================
