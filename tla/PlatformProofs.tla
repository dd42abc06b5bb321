--------------------------- MODULE PlatformProofs ---------------------------
(***************************************************************************)
(* Theorems about the workers of emails, exports and anonymizations, for   *)
(* every value of the constants.                                           *)
(***************************************************************************)
EXTENDS MCPlatform, TLAPS

----------------------------------------------------------------------------
(* Emails: what makes the receipt of an email decide it once.              *)

\* What a pass holds, step by step.
PassRows ==
  [step : {"NEXT"}, todo : SUBSET Emails]
    \cup [step : {"CLAIMED", "REUSING", "SENDING"}, todo : SUBSET Emails,
          email : Emails, attempt : 1 .. MaxAttempts]
    \cup [step : {"FAILED"}, todo : SUBSET Emails, email : Emails,
          attempt : 1 .. MaxAttempts, retryable : BOOLEAN]

\* The receipt is written by the transaction that mails.
UnsentIsUnmailed ==
  \A e \in Emails : receipt[e] = "NONE" => mailed[e] = 0

\* A former User has no intent, and gets none.
FormerHaveNoIntent ==
  \A e \in Emails : RecipientOf[e] \in former => intent[e].state = "ABSENT"

\* An open task is about an email that was given up; a resolved one left a
\* receipt.
TasksFollowIntents ==
  \A e \in Emails :
    /\ task[e] = "OPEN" =>
         intent[e].state = "EXHAUSTED" \/ RecipientOf[e] \in former
    /\ task[e] = "RESOLVED" => receipt[e] # "NONE"

\* What a pass read of the receipt holds for as long as it may act on it.
PassesKnowReceipt ==
  \A p \in Passes :
    /\ pass[p].step = "REUSING" => receipt[pass[p].email] # "NONE"
    /\ pass[p].step \in {"SENDING", "FAILED"} =>
         \/ receipt[pass[p].email] = "NONE"
         \/ intent[pass[p].email].state \in {"DELIVERED", "SUPPRESSED"}
         \/ RecipientOf[pass[p].email] \in former

DeliveryInv ==
  /\ DeliveryTypeOK /\ pass \in [Passes -> PassRows]
  /\ GivenUpIsEscalated
  /\ UnsentIsUnmailed /\ FormerHaveNoIntent /\ TasksFollowIntents
  /\ PassesKnowReceipt

LEMMA DeliveryInitInv == DeliveryInit => DeliveryInv
<1>1. SUFFICES ASSUME DeliveryInit PROVE DeliveryInv
  OBVIOUS
<1>2. DeliveryTypeOK /\ pass \in [Passes -> PassRows]
  BY <1>1, DeliveryAssumption
     DEF DeliveryInit, DeliveryTypeOK, PassRows, NoIntent, Idle, IntentStates,
         Outcomes, Steps, Holding
<1> QED BY <1>1, <1>2
        DEF DeliveryInit, DeliveryInv, NoIntent, Idle, GivenUpIsEscalated,
            UnsentIsUnmailed, FormerHaveNoIntent, TasksFollowIntents,
            PassesKnowReceipt

\* A pass in its shape knows what its step needs.
LEMMA PassRowType ==
  ASSUME NEW row \in PassRows
  PROVE  /\ row.step \in Steps /\ row.todo \subseteq Emails
         /\ row.step # "NEXT" => /\ row.email \in Emails
                                 /\ row.attempt \in 1 .. MaxAttempts
         /\ row.step = "FAILED" => row.retryable \in BOOLEAN
         /\ row.step = "NEXT" =>
              row \in [step : {"NEXT"}, todo : SUBSET Emails]
         /\ row.step \in {"CLAIMED", "REUSING", "SENDING"} =>
              row \in [step : {"CLAIMED", "REUSING", "SENDING"},
                       todo : SUBSET Emails, email : Emails,
                       attempt : 1 .. MaxAttempts]
BY DEF PassRows, Steps

\* The rows keep their shapes when the tables do.
LEMMA DeliveryTyped ==
  ASSUME intent' \in [Emails -> [state : IntentStates,
                                 attempts : 0 .. MaxAttempts]],
         due' \subseteq Emails,
         receipt' \in [Emails -> Outcomes],
         mailed' \in [Emails -> Nat],
         task' \in [Emails -> {"NONE", "OPEN", "RESOLVED"}],
         former' \subseteq Recipients,
         pass' \in [Passes -> PassRows]
  PROVE  DeliveryTypeOK'
<1>1. ASSUME NEW p \in Passes
      PROVE  /\ pass'[p].step \in Steps /\ pass'[p].todo \subseteq Emails
             /\ pass'[p].step # "NEXT" => /\ pass'[p].email \in Emails
                                          /\ pass'[p].attempt \in 1 .. MaxAttempts
             /\ pass'[p].step = "FAILED" => pass'[p].retryable \in BOOLEAN
  <2>1. pass'[p] \in PassRows
    OBVIOUS
  <2> QED BY <2>1, PassRowType
<1> QED BY <1>1 DEF DeliveryTypeOK, Holding

LEMMA GoesOnRow ==
  ASSUME pass \in [Passes -> PassRows], NEW p \in Passes, GoesOn(p)
  PROVE  /\ pass' \in [Passes -> PassRows] /\ pass'[p].step = "NEXT"
         /\ \A q \in Passes \ {p} : pass'[q] = pass[q]
<1>1. pass[p].todo \subseteq Emails
  BY PassRowType
<1>2. [step |-> "NEXT", todo |-> pass[p].todo] \in PassRows
  BY <1>1 DEF PassRows
<1>3. pass' = [pass EXCEPT ![p] = [step |-> "NEXT", todo |-> pass[p].todo]]
  BY DEF GoesOn
<1> QED BY <1>2, <1>3

LEMMA BecomesRow ==
  ASSUME pass \in [Passes -> PassRows], NEW p \in Passes,
         pass[p].step \in {"CLAIMED", "REUSING", "SENDING"},
         NEW step \in {"REUSING", "SENDING"}, Becomes(p, step)
  PROVE  /\ pass' \in [Passes -> PassRows] /\ pass'[p].step = step
         /\ pass'[p].email = pass[p].email
         /\ \A q \in Passes \ {p} : pass'[q] = pass[q]
<1>1. pass[p] \in [step : {"CLAIMED", "REUSING", "SENDING"},
                   todo : SUBSET Emails, email : Emails,
                   attempt : 1 .. MaxAttempts]
  BY PassRowType
<1>2. /\ [pass[p] EXCEPT !.step = step] \in PassRows
      /\ [pass[p] EXCEPT !.step = step].step = step
      /\ [pass[p] EXCEPT !.step = step].email = pass[p].email
  BY <1>1 DEF PassRows
<1>3. pass' = [pass EXCEPT ![p] = [pass[p] EXCEPT !.step = step]]
  BY DEF Becomes
<1> QED BY <1>2, <1>3

\* A step of one pass that decides nothing and reads nothing of a receipt.
LEMMA PassAlone ==
  ASSUME DeliveryInv, NEW p \in Passes, pass' \in [Passes -> PassRows],
         \A q \in Passes \ {p} : pass'[q] = pass[q],
         pass'[p].step \in {"NEXT", "CLAIMED"},
         intent' \in [Emails -> [state : IntentStates,
                                 attempts : 0 .. MaxAttempts]],
         \A e \in Emails : intent'[e].state = intent[e].state,
         due' \subseteq Emails,
         UNCHANGED <<receipt, mailed, task, former>>
  PROVE  DeliveryInv'
<1>1. DeliveryTypeOK'
  BY DeliveryTyped DEF DeliveryInv, DeliveryTypeOK
<1>2. PassesKnowReceipt'
  <2>1. \A q \in Passes : pass[q] \in PassRows
    BY DEF DeliveryInv
  <2> QED BY <2>1, PassRowType DEF DeliveryInv, PassesKnowReceipt
<1> QED BY <1>1, <1>2
        DEF DeliveryInv, GivenUpIsEscalated, UnsentIsUnmailed,
            FormerHaveNoIntent, TasksFollowIntents

LEMMA StartPassInv ==
  ASSUME DeliveryInv, NEW p \in Passes, StartPass(p)
  PROVE  DeliveryInv'
<1> DEFINE started == [step |-> "NEXT", todo |-> due]
<1>4. [pass[p] EXCEPT !.todo = due] = started
  BY DEF StartPass, Idle
<1>1. pass' = [pass EXCEPT ![p] = started]
  BY <1>4 DEF StartPass
<1>2. [step |-> "NEXT", todo |-> due] \in PassRows
  BY DEF DeliveryInv, DeliveryTypeOK, PassRows
<1>3. pass' \in [Passes -> PassRows] /\ pass'[p].step = "NEXT"
  BY <1>1, <1>2 DEF DeliveryInv
<1> QED BY <1>1, <1>3, PassAlone DEF StartPass, DeliveryInv, DeliveryTypeOK

LEMMA ClaimInv ==
  ASSUME DeliveryInv, NEW p \in Passes, Claim(p)
  PROVE  DeliveryInv'
<1>1. /\ pass[p] \in [step : {"NEXT"}, todo : SUBSET Emails]
      /\ pass \in [Passes -> PassRows] /\ DeliveryTypeOK
  BY PassRowType DEF Claim, DeliveryInv
<1>2. PICK e \in pass[p].todo :
        \/ /\ intent[e].attempts < MaxAttempts
           /\ intent' = [intent EXCEPT ![e].attempts = @ + 1]
           /\ due' = due \ {e}
           /\ pass' = [pass EXCEPT ![p] =
                [step |-> "CLAIMED", todo |-> @.todo \ {e}, email |-> e,
                 attempt |-> intent[e].attempts + 1]]
        \/ pass' = [pass EXCEPT ![p] = Idle] /\ UNCHANGED <<intent, due>>
        \/ /\ pass' = [pass EXCEPT ![p].todo = @ \ {e}]
           /\ UNCHANGED <<intent, due>>
  BY DEF Claim
<1>3. e \in Emails
  BY <1>1
<1>4. CASE /\ intent[e].attempts < MaxAttempts
           /\ intent' = [intent EXCEPT ![e].attempts = @ + 1]
           /\ due' = due \ {e}
           /\ pass' = [pass EXCEPT ![p] =
                [step |-> "CLAIMED", todo |-> @.todo \ {e}, email |-> e,
                 attempt |-> intent[e].attempts + 1]]
  <2>1. intent[e].attempts + 1 \in 1 .. MaxAttempts
    BY <1>1, <1>3, <1>4, DeliveryAssumption DEF DeliveryTypeOK
  <2>2. [step |-> "CLAIMED", todo |-> pass[p].todo \ {e}, email |-> e,
         attempt |-> intent[e].attempts + 1] \in PassRows
    BY <1>1, <1>3, <2>1 DEF PassRows
  <2>3. /\ pass' \in [Passes -> PassRows] /\ pass'[p].step = "CLAIMED"
        /\ \A q \in Passes \ {p} : pass'[q] = pass[q]
    BY <1>1, <1>4, <2>2
  <2>4. /\ intent' \in [Emails -> [state : IntentStates,
                                   attempts : 0 .. MaxAttempts]]
        /\ \A x \in Emails : intent'[x].state = intent[x].state
    BY <1>1, <1>3, <1>4, <2>1, DeliveryAssumption DEF DeliveryTypeOK
  <2> QED BY <1>1, <1>4, <2>3, <2>4, PassAlone DEF Claim, DeliveryTypeOK
<1>5. CASE pass' = [pass EXCEPT ![p] = Idle] /\ UNCHANGED <<intent, due>>
  <2>1. Idle \in PassRows /\ Idle.step = "NEXT"
    BY DEF Idle, PassRows
  <2>2. /\ pass' \in [Passes -> PassRows] /\ pass'[p].step = "NEXT"
        /\ \A q \in Passes \ {p} : pass'[q] = pass[q]
    BY <1>1, <1>5, <2>1
  <2> QED BY <1>1, <1>5, <2>2, PassAlone DEF Claim, DeliveryTypeOK
<1>6. CASE pass' = [pass EXCEPT ![p].todo = @ \ {e}] /\ UNCHANGED <<intent, due>>
  <2>1. [pass[p] EXCEPT !.todo = @ \ {e}] \in [step : {"NEXT"},
                                              todo : SUBSET Emails]
    BY <1>1
  <2>2. /\ pass' = [pass EXCEPT ![p] = [pass[p] EXCEPT !.todo = @ \ {e}]]
        /\ [pass[p] EXCEPT !.todo = @ \ {e}] \in PassRows
        /\ [pass[p] EXCEPT !.todo = @ \ {e}].step = "NEXT"
    BY <1>6, <2>1 DEF PassRows
  <2>3. /\ pass' \in [Passes -> PassRows] /\ pass'[p].step = "NEXT"
        /\ \A q \in Passes \ {p} : pass'[q] = pass[q]
    BY <1>1, <2>2
  <2> QED BY <1>1, <1>6, <2>3, PassAlone DEF Claim, DeliveryTypeOK
<1> QED BY <1>2, <1>4, <1>5, <1>6

LEMMA StopInv ==
  ASSUME DeliveryInv, NEW p \in Passes, Stop(p)
  PROVE  DeliveryInv'
<1>1. Idle \in PassRows /\ Idle.step = "NEXT"
  BY DEF Idle, PassRows
<1>2. /\ pass' \in [Passes -> PassRows] /\ pass'[p].step = "NEXT"
      /\ \A q \in Passes \ {p} : pass'[q] = pass[q]
  BY <1>1 DEF DeliveryInv, Stop
<1> QED BY <1>2, PassAlone DEF Stop, DeliveryInv, DeliveryTypeOK

LEMMA ReadReceiptInv ==
  ASSUME DeliveryInv, NEW p \in Passes, ReadReceipt(p)
  PROVE  DeliveryInv'
<1>1. pass \in [Passes -> PassRows] /\ pass[p].step = "CLAIMED"
  BY DEF DeliveryInv, ReadReceipt
<1>2. PICK step \in {"REUSING", "SENDING"} :
        /\ Becomes(p, step)
        /\ step = IF receipt[pass[p].email] = "NONE"
                  THEN "SENDING" ELSE "REUSING"
  BY DEF ReadReceipt
<1>3. /\ pass' \in [Passes -> PassRows] /\ pass'[p].step = step
      /\ pass'[p].email = pass[p].email
      /\ \A q \in Passes \ {p} : pass'[q] = pass[q]
  BY <1>1, <1>2, BecomesRow
<1>4. UNCHANGED <<intent, due, receipt, mailed, task, former>>
  BY DEF ReadReceipt
<1>5. DeliveryTypeOK'
  BY <1>3, <1>4, DeliveryTyped DEF DeliveryInv, DeliveryTypeOK
<1>6. PassesKnowReceipt'
  BY <1>2, <1>3, <1>4 DEF DeliveryInv, PassesKnowReceipt
<1> QED BY <1>3, <1>4, <1>5, <1>6
        DEF DeliveryInv, GivenUpIsEscalated, UnsentIsUnmailed,
            FormerHaveNoIntent, TasksFollowIntents

LEMMA ReuseReceiptInv ==
  ASSUME DeliveryInv, NEW p \in Passes, ReuseReceipt(p)
  PROVE  DeliveryInv'
<1> DEFINE e == pass[p].email
<1>1. /\ pass \in [Passes -> PassRows] /\ DeliveryTypeOK
      /\ pass[p].step = "REUSING" /\ e \in Emails
  BY PassRowType DEF DeliveryInv, ReuseReceipt
<1>2. receipt[e] \in {"DELIVERED", "SUPPRESSED"}
  BY <1>1 DEF DeliveryInv, PassesKnowReceipt, DeliveryTypeOK, Outcomes
<1>3. /\ pass' \in [Passes -> PassRows] /\ pass'[p].step = "NEXT"
      /\ \A q \in Passes \ {p} : pass'[q] = pass[q]
  BY <1>1, GoesOnRow DEF ReuseReceipt
<1>4. UNCHANGED <<receipt, mailed, task, former>>
  BY DEF ReuseReceipt
<1>5. CASE UNCHANGED <<intent, due>>
  BY <1>1, <1>3, <1>4, <1>5, PassAlone DEF DeliveryTypeOK
<1>6. CASE intent[e].state = "PENDING" /\ Decide(e, receipt[e])
  <2>1. /\ intent' = [intent EXCEPT ![e].state = receipt[e]]
        /\ due' = due \ {e}
    BY <1>6 DEF Decide
  <2>2. /\ intent' \in [Emails -> [state : IntentStates,
                                   attempts : 0 .. MaxAttempts]]
        /\ intent'[e].state = receipt[e]
        /\ \A x \in Emails \ {e} : intent'[x] = intent[x]
    BY <1>1, <1>2, <2>1 DEF DeliveryTypeOK, IntentStates
  <2>3. DeliveryTypeOK'
    BY <1>1, <1>3, <1>4, <2>1, <2>2, DeliveryTyped DEF DeliveryTypeOK
  <2>4. PassesKnowReceipt'
    BY <1>2, <1>3, <1>4, <2>2, PassRowType DEF DeliveryInv, PassesKnowReceipt
  <2>5. GivenUpIsEscalated'
    BY <1>2, <1>4, <2>2 DEF DeliveryInv, GivenUpIsEscalated
  <2>6. RecipientOf[e] \notin former
    BY <1>1, <1>6 DEF DeliveryInv, FormerHaveNoIntent
  <2>7. FormerHaveNoIntent' /\ TasksFollowIntents'
    BY <1>1, <1>4, <1>6, <2>2, <2>6
       DEF DeliveryInv, FormerHaveNoIntent, TasksFollowIntents
  <2> QED BY <1>3, <1>4, <2>3, <2>4, <2>5, <2>7
          DEF DeliveryInv, UnsentIsUnmailed
<1> QED BY <1>5, <1>6 DEF ReuseReceipt

\* The delivery transaction: while the intent is pending the recipient is not
\* gone and nothing was decided before, for the pass that holds it.
LEMMA DeliverInv ==
  ASSUME DeliveryInv, NEW p \in Passes, Deliver(p)
  PROVE  DeliveryInv'
<1> DEFINE e == pass[p].email
<1>1. /\ pass \in [Passes -> PassRows] /\ DeliveryTypeOK
      /\ pass[p].step = "SENDING" /\ e \in Emails
  BY PassRowType DEF DeliveryInv, Deliver
<1>2. UNCHANGED <<task, former>>
  BY DEF Deliver
<1>3. CASE GoesOn(p) /\ UNCHANGED <<intent, due, receipt, mailed>>
  <2>1. /\ pass' \in [Passes -> PassRows] /\ pass'[p].step = "NEXT"
        /\ \A q \in Passes \ {p} : pass'[q] = pass[q]
    BY <1>1, <1>3, GoesOnRow
  <2> QED BY <1>1, <1>2, <1>3, <2>1, PassAlone DEF DeliveryTypeOK
<1>4. ASSUME intent[e].state = "PENDING"
      PROVE  receipt[e] = "NONE" /\ RecipientOf[e] \notin former
  BY <1>1, <1>4 DEF DeliveryInv, PassesKnowReceipt, FormerHaveNoIntent
<1>5. CASE /\ intent[e].state = "PENDING"
           /\ mailed' = Accepted(e)
           /\ receipt' = [receipt EXCEPT ![e] = "DELIVERED"]
           /\ Decide(e, "DELIVERED")
           /\ GoesOn(p)
  <2>1. /\ pass' \in [Passes -> PassRows] /\ pass'[p].step = "NEXT"
        /\ \A q \in Passes \ {p} : pass'[q] = pass[q]
    BY <1>1, <1>5, GoesOnRow
  <2>2. /\ intent' = [intent EXCEPT ![e].state = "DELIVERED"]
        /\ due' = due \ {e}
        /\ mailed' = [mailed EXCEPT ![e] = IF @ = 0 THEN 1 ELSE @]
    BY <1>5 DEF Decide, Accepted
  <2>3. /\ intent' \in [Emails -> [state : IntentStates,
                                   attempts : 0 .. MaxAttempts]]
        /\ intent'[e].state = "DELIVERED"
        /\ \A x \in Emails \ {e} : intent'[x] = intent[x]
    BY <1>1, <2>2 DEF DeliveryTypeOK, IntentStates
  <2>4. /\ receipt' \in [Emails -> Outcomes] /\ receipt'[e] = "DELIVERED"
        /\ \A x \in Emails \ {e} :
             receipt'[x] = receipt[x] /\ mailed'[x] = mailed[x]
        /\ mailed' \in [Emails -> Nat]
    BY <1>1, <1>5, <2>2 DEF DeliveryTypeOK, Outcomes
  <2>5. DeliveryTypeOK'
    BY <1>1, <1>2, <2>1, <2>2, <2>3, <2>4, DeliveryTyped DEF DeliveryTypeOK
  <2>6. PassesKnowReceipt'
    BY <1>2, <2>1, <2>3, <2>4, PassRowType DEF DeliveryInv, PassesKnowReceipt
  <2>7. GivenUpIsEscalated' /\ UnsentIsUnmailed'
    BY <1>2, <2>3, <2>4 DEF DeliveryInv, GivenUpIsEscalated, UnsentIsUnmailed
  <2>8. FormerHaveNoIntent' /\ TasksFollowIntents'
    BY <1>1, <1>2, <1>4, <1>5, <2>3, <2>4
       DEF DeliveryInv, FormerHaveNoIntent, TasksFollowIntents
  <2> QED BY <2>1, <2>5, <2>6, <2>7, <2>8 DEF DeliveryInv
<1>6. CASE /\ intent[e].state = "PENDING"
           /\ \E retryable \in BOOLEAN :
                pass' = [pass EXCEPT ![p] =
                  [step |-> "FAILED", todo |-> @.todo, email |-> e,
                   attempt |-> @.attempt, retryable |-> retryable]]
           /\ UNCHANGED <<intent, due, receipt, mailed>>
  <2>1. PICK retryable \in BOOLEAN :
          pass' = [pass EXCEPT ![p] =
            [step |-> "FAILED", todo |-> pass[p].todo, email |-> e,
             attempt |-> pass[p].attempt, retryable |-> retryable]]
    BY <1>6
  <2>2. [step |-> "FAILED", todo |-> pass[p].todo, email |-> e,
         attempt |-> pass[p].attempt, retryable |-> retryable] \in PassRows
    BY <1>1, PassRowType DEF PassRows
  <2>3. /\ pass' \in [Passes -> PassRows]
        /\ pass'[p].step = "FAILED" /\ pass'[p].email = e
        /\ \A q \in Passes \ {p} : pass'[q] = pass[q]
    BY <1>1, <2>1, <2>2
  <2>4. DeliveryTypeOK'
    BY <1>1, <1>2, <1>6, <2>3, DeliveryTyped DEF DeliveryTypeOK
  <2>5. PassesKnowReceipt'
    BY <1>1, <1>2, <1>6, <2>3 DEF DeliveryInv, PassesKnowReceipt
  <2> QED BY <1>2, <1>6, <2>3, <2>4, <2>5
          DEF DeliveryInv, GivenUpIsEscalated, UnsentIsUnmailed,
              FormerHaveNoIntent, TasksFollowIntents
<1> QED BY <1>3, <1>4, <1>5, <1>6 DEF Deliver, NothingAccepted

LEMMA RecordFailureInv ==
  ASSUME DeliveryInv, NEW p \in Passes, RecordFailure(p)
  PROVE  DeliveryInv'
<1> DEFINE e == pass[p].email
<1>1. /\ pass \in [Passes -> PassRows] /\ DeliveryTypeOK
      /\ pass[p].step = "FAILED" /\ e \in Emails
  BY PassRowType DEF DeliveryInv, RecordFailure
<1>2. /\ pass' \in [Passes -> PassRows] /\ pass'[p].step = "NEXT"
      /\ \A q \in Passes \ {p} : pass'[q] = pass[q]
  BY <1>1, GoesOnRow DEF RecordFailure
<1>3. UNCHANGED <<receipt, mailed, former>> /\ due' = due \ {e}
  BY DEF RecordFailure, Decide
<1>4. CASE intent[e].state = "PENDING" /\ Exhausted(p)
  <2>1. /\ intent' = [intent EXCEPT ![e].state = "EXHAUSTED"]
        /\ task' = IF task[e] = "NONE"
                   THEN [task EXCEPT ![e] = "OPEN"] ELSE task
    BY <1>4 DEF RecordFailure, Decide, OpensTask
  <2>2. /\ intent' \in [Emails -> [state : IntentStates,
                                   attempts : 0 .. MaxAttempts]]
        /\ intent'[e].state = "EXHAUSTED"
        /\ \A x \in Emails \ {e} : intent'[x] = intent[x]
    BY <1>1, <2>1 DEF DeliveryTypeOK, IntentStates
  <2>3. receipt[e] = "NONE" /\ RecipientOf[e] \notin former
    BY <1>1, <1>4 DEF DeliveryInv, PassesKnowReceipt, FormerHaveNoIntent
  <2>4. /\ task' \in [Emails -> {"NONE", "OPEN", "RESOLVED"}]
        /\ task'[e] = "OPEN"
        /\ \A x \in Emails \ {e} : task'[x] = task[x]
    BY <1>1, <2>1, <2>3 DEF DeliveryInv, DeliveryTypeOK, TasksFollowIntents
  <2>5. DeliveryTypeOK'
    BY <1>1, <1>2, <1>3, <2>2, <2>4, DeliveryTyped DEF DeliveryTypeOK
  <2>6. PassesKnowReceipt'
    BY <1>2, <1>3, <2>2, <2>3, PassRowType DEF DeliveryInv, PassesKnowReceipt
  <2>7. GivenUpIsEscalated' /\ FormerHaveNoIntent' /\ TasksFollowIntents'
    BY <1>3, <2>2, <2>3, <2>4
       DEF DeliveryInv, GivenUpIsEscalated, FormerHaveNoIntent,
           TasksFollowIntents
  <2> QED BY <1>2, <1>3, <2>5, <2>6, <2>7 DEF DeliveryInv, UnsentIsUnmailed
<1>5. CASE ~(intent[e].state = "PENDING" /\ Exhausted(p))
  <2>1. UNCHANGED <<intent, task>>
    BY <1>5 DEF RecordFailure, OpensTask
  <2> QED BY <1>1, <1>2, <1>3, <2>1, PassAlone DEF DeliveryTypeOK
<1> QED BY <1>4, <1>5

LEMMA EnqueueInv ==
  ASSUME DeliveryInv, NEW e \in Emails, Enqueue(e)
  PROVE  DeliveryInv'
<1>1. /\ DeliveryTypeOK /\ pass \in [Passes -> PassRows]
      /\ UNCHANGED <<receipt, mailed, task, former, pass>>
      /\ due' = due \cup {e}
  BY DEF DeliveryInv, Enqueue
<1>2. /\ intent' \in [Emails -> [state : IntentStates,
                                 attempts : 0 .. MaxAttempts]]
      /\ intent'[e].state = "PENDING"
      /\ \A x \in Emails \ {e} : intent'[x] = intent[x]
  BY <1>1, DeliveryAssumption DEF Enqueue, DeliveryTypeOK, IntentStates
<1>3. DeliveryTypeOK'
  BY <1>1, <1>2, DeliveryTyped DEF DeliveryTypeOK
<1>4. PassesKnowReceipt'
  BY <1>1, <1>2, PassRowType DEF DeliveryInv, PassesKnowReceipt, Enqueue
<1>5. GivenUpIsEscalated' /\ FormerHaveNoIntent' /\ TasksFollowIntents'
  BY <1>1, <1>2
     DEF DeliveryInv, GivenUpIsEscalated, FormerHaveNoIntent,
         TasksFollowIntents, Enqueue
<1> QED BY <1>1, <1>3, <1>4, <1>5 DEF DeliveryInv, UnsentIsUnmailed

LEMMA LaterInv ==
  ASSUME DeliveryInv, NEW e \in Emails, Later(e)
  PROVE  DeliveryInv'
<1>1. UNCHANGED <<intent, receipt, mailed, task, former, pass>>
      /\ due' = due \cup {e}
  BY DEF Later
<1>2. DeliveryTypeOK'
  BY <1>1, DeliveryTyped DEF DeliveryInv, DeliveryTypeOK
<1> QED BY <1>1, <1>2
        DEF DeliveryInv, GivenUpIsEscalated, UnsentIsUnmailed,
            FormerHaveNoIntent, TasksFollowIntents, PassesKnowReceipt

LEMMA ResolveTaskInv ==
  ASSUME DeliveryInv, NEW e \in Emails, ResolveTask(e)
  PROVE  DeliveryInv'
<1>1. /\ DeliveryTypeOK /\ pass \in [Passes -> PassRows]
      /\ UNCHANGED <<mailed, former, pass>>
      /\ task' = [task EXCEPT ![e] = "RESOLVED"]
      /\ receipt' = [receipt EXCEPT ![e] =
           IF @ = "NONE" THEN "SUPPRESSED" ELSE @]
      /\ task[e] = "OPEN"
  BY DEF DeliveryInv, ResolveTask
<1>2. /\ task' \in [Emails -> {"NONE", "OPEN", "RESOLVED"}]
      /\ task'[e] = "RESOLVED"
      /\ receipt' \in [Emails -> Outcomes] /\ receipt'[e] # "NONE"
      /\ \A x \in Emails \ {e} : task'[x] = task[x] /\ receipt'[x] = receipt[x]
  BY <1>1 DEF DeliveryTypeOK, Outcomes
<1>3. \/ /\ intent[e].state = "EXHAUSTED"
         /\ intent' = [intent EXCEPT ![e].state = "SUPPRESSED"]
         /\ due' = due \ {e}
      \/ /\ intent[e].state # "EXHAUSTED"
         /\ UNCHANGED <<intent, due>>
  BY DEF ResolveTask, Decide
<1>4. /\ intent' \in [Emails -> [state : IntentStates,
                                 attempts : 0 .. MaxAttempts]]
      /\ due' \subseteq Emails
      /\ \A x \in Emails \ {e} : intent'[x] = intent[x]
      /\ intent'[e].state =
           IF intent[e].state = "EXHAUSTED"
           THEN "SUPPRESSED" ELSE intent[e].state
  <2>1. CASE /\ intent[e].state = "EXHAUSTED"
             /\ intent' = [intent EXCEPT ![e].state = "SUPPRESSED"]
             /\ due' = due \ {e}
    BY <1>1, <2>1 DEF DeliveryTypeOK, IntentStates
  <2>2. CASE intent[e].state # "EXHAUSTED" /\ UNCHANGED <<intent, due>>
    BY <1>1, <2>2 DEF DeliveryTypeOK
  <2> QED BY <1>3, <2>1, <2>2
<1>5. intent'[e].state = "SUPPRESSED" \/ RecipientOf[e] \in former
  BY <1>1, <1>4 DEF DeliveryInv, TasksFollowIntents
<1>6. DeliveryTypeOK'
  BY <1>1, <1>2, <1>4, DeliveryTyped DEF DeliveryTypeOK
<1>7. PassesKnowReceipt'
  BY <1>1, <1>2, <1>4, <1>5, PassRowType DEF DeliveryInv, PassesKnowReceipt
<1>8. /\ GivenUpIsEscalated' /\ FormerHaveNoIntent' /\ TasksFollowIntents'
      /\ UnsentIsUnmailed'
  BY <1>1, <1>2, <1>4
     DEF DeliveryInv, GivenUpIsEscalated, FormerHaveNoIntent,
         TasksFollowIntents, UnsentIsUnmailed
<1> QED BY <1>1, <1>6, <1>7, <1>8 DEF DeliveryInv

LEMMA CompactInv ==
  ASSUME DeliveryInv, NEW e \in Emails, Compact(e)
  PROVE  DeliveryInv'
<1>1. /\ DeliveryTypeOK /\ pass \in [Passes -> PassRows]
      /\ UNCHANGED <<due, receipt, mailed, task, former, pass>>
  BY DEF DeliveryInv, Compact, KeepsReceipt
<1>2. /\ intent' \in [Emails -> [state : IntentStates,
                                 attempts : 0 .. MaxAttempts]]
      /\ intent'[e].state = "ABSENT"
      /\ \A x \in Emails \ {e} : intent'[x] = intent[x]
  BY <1>1, DeliveryAssumption DEF Compact, DeliveryTypeOK, IntentStates, NoIntent
<1>3. DeliveryTypeOK'
  BY <1>1, <1>2, DeliveryTyped DEF DeliveryTypeOK
<1>4. PassesKnowReceipt'
  BY <1>1, <1>2, PassRowType
     DEF DeliveryInv, PassesKnowReceipt, Compact, Holding
<1>5. GivenUpIsEscalated' /\ FormerHaveNoIntent' /\ TasksFollowIntents'
  BY <1>1, <1>2
     DEF DeliveryInv, GivenUpIsEscalated, FormerHaveNoIntent,
         TasksFollowIntents, Compact
<1> QED BY <1>1, <1>3, <1>4, <1>5 DEF DeliveryInv, UnsentIsUnmailed

LEMMA ForgetInv ==
  ASSUME DeliveryInv, NEW u \in Recipients, Forget(u)
  PROVE  DeliveryInv'
<1>1. /\ DeliveryTypeOK /\ pass \in [Passes -> PassRows]
      /\ UNCHANGED <<receipt, mailed, task, pass>>
      /\ former' = former \cup {u} /\ due' \subseteq due
  BY DEF DeliveryInv, Forget
<1>2. /\ intent' \in [Emails -> [state : IntentStates,
                                 attempts : 0 .. MaxAttempts]]
      /\ \A x \in Emails : IF RecipientOf[x] = u
                           THEN intent'[x].state = "ABSENT"
                           ELSE intent'[x] = intent[x]
  BY <1>1, DeliveryAssumption DEF Forget, DeliveryTypeOK, IntentStates, NoIntent
<1>3. DeliveryTypeOK'
  BY <1>1, <1>2, DeliveryTyped DEF DeliveryTypeOK
<1>4. PassesKnowReceipt'
  BY <1>1, <1>2, PassRowType DEF DeliveryInv, PassesKnowReceipt
<1>5. GivenUpIsEscalated' /\ FormerHaveNoIntent' /\ TasksFollowIntents'
  BY <1>1, <1>2
     DEF DeliveryInv, GivenUpIsEscalated, FormerHaveNoIntent,
         TasksFollowIntents
<1> QED BY <1>1, <1>3, <1>4, <1>5 DEF DeliveryInv, UnsentIsUnmailed

LEMMA DeliveryStepInv ==
  DeliveryInv /\ [DeliveryNext]_deliveryVars => DeliveryInv'
<1>1. SUFFICES ASSUME DeliveryInv, [DeliveryNext]_deliveryVars
               PROVE  DeliveryInv'
  OBVIOUS
<1>2. ASSUME NEW p \in Passes, PassStep(p) \/ Stop(p)
      PROVE  DeliveryInv'
  BY <1>1, <1>2, StartPassInv, ClaimInv, ReadReceiptInv, ReuseReceiptInv,
     DeliverInv, RecordFailureInv, StopInv DEF PassStep
<1>3. ASSUME NEW e \in Emails,
             Enqueue(e) \/ Later(e) \/ ResolveTask(e) \/ Compact(e)
      PROVE  DeliveryInv'
  BY <1>1, <1>3, EnqueueInv, LaterInv, ResolveTaskInv, CompactInv
<1>4. CASE UNCHANGED deliveryVars
  BY <1>1, <1>4
     DEF deliveryVars, DeliveryInv, DeliveryTypeOK, Holding, UnsentIsUnmailed,
         GivenUpIsEscalated, FormerHaveNoIntent, TasksFollowIntents,
         PassesKnowReceipt
<1> QED BY <1>1, <1>2, <1>3, <1>4, ForgetInv DEF DeliveryNext

\* What a step does to the receipts and the mails, on the abstract level.
LEMMA StepSendsOneMail ==
  ASSUME DeliveryInv, [DeliveryNext]_deliveryVars
  PROVE  [Mail!MailNext]_(Mail!mailVars)
<1>1. ASSUME NEW p \in Passes, Deliver(p)
      PROVE  [Mail!MailNext]_(Mail!mailVars)
  <2> DEFINE e == pass[p].email
  <2>1. e \in Emails /\ pass[p].step = "SENDING" /\ DeliveryTypeOK
    BY <1>1, PassRowType DEF Deliver, DeliveryInv
  <2>2. CASE /\ receipt[e] = "NONE" /\ mailed' = Accepted(e)
             /\ receipt' = [receipt EXCEPT ![e] = "DELIVERED"]
    <3>1. mailed[e] = 0
      BY <2>1, <2>2 DEF DeliveryInv, UnsentIsUnmailed
    <3>2. mailed' = [mailed EXCEPT ![e] = mailed[e] + 1]
      BY <2>1, <2>2, <3>1 DEF Accepted, DeliveryTypeOK
    <3>3. Mail!Send(e)
      BY <2>2, <3>2 DEF Mail!Send
    <3> QED BY <2>1, <3>3 DEF Mail!MailNext
  <2>3. CASE /\ receipt' = [receipt EXCEPT ![e] =
                  IF @ = "NONE" THEN "SUPPRESSED" ELSE @]
             /\ UNCHANGED mailed
    <3>1. CASE receipt[e] = "NONE"
      BY <2>1, <2>3, <3>1 DEF Mail!MailNext, Mail!Suppress
    <3>2. CASE receipt[e] # "NONE"
      BY <2>1, <2>3, <3>2 DEF DeliveryTypeOK, Mail!mailVars
    <3> QED BY <3>1, <3>2
  <2>4. CASE UNCHANGED <<receipt, mailed>>
    BY <2>4 DEF Mail!mailVars
  <2> QED BY <1>1, <2>2, <2>3, <2>4 DEF Deliver, NothingAccepted
<1>2. ASSUME NEW e \in Emails, ResolveTask(e)
      PROVE  [Mail!MailNext]_(Mail!mailVars)
  <2>1. CASE receipt[e] = "NONE"
    BY <1>2, <2>1 DEF ResolveTask, Mail!MailNext, Mail!Suppress
  <2>2. CASE receipt[e] # "NONE"
    BY <1>2, <2>2 DEF ResolveTask, DeliveryInv, DeliveryTypeOK, Mail!mailVars
  <2> QED BY <2>1, <2>2
<1>3. ASSUME UNCHANGED <<receipt, mailed>>
      PROVE  [Mail!MailNext]_(Mail!mailVars)
  BY <1>3 DEF Mail!mailVars
<1> QED BY <1>1, <1>2, <1>3
        DEF DeliveryNext, deliveryVars, PassStep, StartPass, Claim,
            ReadReceipt, ReuseReceipt, RecordFailure, Stop, Enqueue, Later,
            Compact, KeepsReceipt, Forget

(* However passes of the delivery worker overlap, stop and retry: what     *)
(* becomes of an email is decided once, and it is mailed once if it is     *)
(* delivered and never if it is suppressed.  Delivery implements OneMail.  *)
THEOREM DeliverySendsOneMail == DeliverySpec => SendsOneMail
<1>1. DeliveryInit => Mail!MailInit
  BY DEF DeliveryInit, Mail!MailInit
<1>2. DeliveryInv /\ [DeliveryNext]_deliveryVars
        => [Mail!MailNext]_(Mail!mailVars)
  BY StepSendsOneMail
<1> QED BY <1>1, <1>2, DeliveryInitInv, DeliveryStepInv, PTL
        DEF DeliverySpec, SendsOneMail, Mail!MailSpec

----------------------------------------------------------------------------
(* Anonymizations: what a pass knows of the identity it deletes.           *)

DeletionRows ==
  {NoDeletion} \cup [step : {"DELETE", "FINALIZE", "FAILED"}, user : Anonymized]

\* What is finalized was deleted at the provider.
DeletionsAreDone ==
  \A p \in Deleters : deletion[p].step = "FINALIZE" =>
    ~identity[deletion[p].user]

AnonymizationInv ==
  /\ AnonymizationTypeOK /\ deletion \in [Deleters -> DeletionRows]
  /\ AnonymizedIsSettled /\ FailedIsEscalated /\ DeletionsAreDone

LEMMA AnonymizationInitInv == AnonymizationInit => AnonymizationInv
BY AnonymizationAssumption
   DEF AnonymizationInit, AnonymizationInv, AnonymizationTypeOK, DeletionRows,
       NoDeletion, AnonymizedIsSettled, FailedIsEscalated, DeletionsAreDone,
       AccessStates, TaskStates

LEMMA DeletionRowType ==
  ASSUME NEW row \in DeletionRows, row.step # "IDLE"
  PROVE  /\ row \in [step : {"DELETE", "FINALIZE", "FAILED"}, user : Anonymized]
         /\ row.user \in Anonymized
BY DEF DeletionRows, NoDeletion

LEMMA ProceedsRow ==
  ASSUME deletion \in [Deleters -> DeletionRows], NEW p \in Deleters,
         deletion[p].step # "IDLE", NEW step \in {"FINALIZE", "FAILED"},
         Proceeds(p, step)
  PROVE  /\ deletion' \in [Deleters -> DeletionRows]
         /\ deletion'[p].step = step /\ deletion'[p].user = deletion[p].user
         /\ \A q \in Deleters \ {p} : deletion'[q] = deletion[q]
<1>1. deletion[p] \in [step : {"DELETE", "FINALIZE", "FAILED"},
                       user : Anonymized]
  BY DeletionRowType
<1>2. /\ [deletion[p] EXCEPT !.step = step] \in DeletionRows
      /\ [deletion[p] EXCEPT !.step = step].step = step
      /\ [deletion[p] EXCEPT !.step = step].user = deletion[p].user
  BY <1>1 DEF DeletionRows
<1>3. deletion' = [deletion EXCEPT ![p] = [deletion[p] EXCEPT !.step = step]]
  BY DEF Proceeds
<1> QED BY <1>2, <1>3

LEMMA LeavesRow ==
  ASSUME deletion \in [Deleters -> DeletionRows], NEW p \in Deleters, Leaves(p)
  PROVE  /\ deletion' \in [Deleters -> DeletionRows]
         /\ deletion'[p].step = "IDLE"
         /\ \A q \in Deleters \ {p} : deletion'[q] = deletion[q]
BY DEF Leaves, DeletionRows, NoDeletion

LEMMA AnonymizationTyped ==
  ASSUME userAccess' \in [Anonymized -> AccessStates],
         identity' \in [Anonymized -> BOOLEAN],
         request' \in [Anonymized ->
           [state : {"NONE", "PENDING", "COMPLETED"},
            attempts : 0 .. MaxFailures]],
         reconciliation' \in [Anonymized -> TaskStates],
         stops' \in 0 .. MaxStops,
         deletion' \in [Deleters -> DeletionRows]
  PROVE  AnonymizationTypeOK'
<1>1. ASSUME NEW p \in Deleters, deletion'[p].step # "IDLE"
      PROVE  /\ deletion'[p].step \in {"DELETE", "FINALIZE", "FAILED"}
             /\ deletion'[p].user \in Anonymized
  <2>1. deletion'[p] \in DeletionRows
    OBVIOUS
  <2> QED BY <1>1, <2>1, DeletionRowType
<1> QED BY <1>1 DEF AnonymizationTypeOK

LEMMA NextAttemptType ==
  ASSUME AnonymizationTypeOK, NEW u \in Anonymized
  PROVE  /\ NextAttempt(u) \in 0 .. MaxFailures
         /\ request[u].attempts \in 0 .. MaxFailures
         /\ NextAttempt(u) >= request[u].attempts
BY AnonymizationAssumption DEF AnonymizationTypeOK, NextAttempt

LEMMA UserStepInv ==
  ASSUME AnonymizationInv, NEW u \in Anonymized,
         AnonymizeUser(u) \/ ResolveReconciliation(u)
  PROVE  AnonymizationInv'
<1>1. /\ AnonymizationTypeOK /\ deletion \in [Deleters -> DeletionRows]
      /\ UNCHANGED <<identity, deletion, stops>>
  BY DEF AnonymizationInv, AnonymizeUser, ResolveReconciliation
<1>2. CASE AnonymizeUser(u)
  <2>1. /\ userAccess' \in [Anonymized -> AccessStates]
        /\ userAccess'[u] = "ANONYMIZATION_PENDING"
        /\ request' \in [Anonymized ->
             [state : {"NONE", "PENDING", "COMPLETED"},
              attempts : 0 .. MaxFailures]]
        /\ request'[u].state = "PENDING"
        /\ request'[u].attempts = request[u].attempts
        /\ \A v \in Anonymized \ {u} :
             userAccess'[v] = userAccess[v] /\ request'[v] = request[v]
        /\ UNCHANGED reconciliation
    BY <1>1, <1>2 DEF AnonymizeUser, AnonymizationTypeOK, AccessStates
  <2>2. request[u].state # "COMPLETED"
    BY <1>2 DEF AnonymizeUser, AnonymizationInv, AnonymizedIsSettled
  <2>3. AnonymizationTypeOK'
    BY <1>1, <2>1, AnonymizationTyped DEF AnonymizationTypeOK
  <2>4. AnonymizedIsSettled'
    BY <1>1, <2>1 DEF AnonymizationInv, AnonymizedIsSettled
  <2>5. FailedIsEscalated'
    BY <2>1, <2>2 DEF AnonymizationInv, FailedIsEscalated
  <2> QED BY <1>1, <2>3, <2>4, <2>5 DEF AnonymizationInv, DeletionsAreDone
<1>3. CASE ResolveReconciliation(u)
  <2>1. /\ reconciliation' \in [Anonymized -> TaskStates]
        /\ reconciliation'[u] = "RESOLVED" /\ reconciliation[u] = "OPEN"
        /\ \A v \in Anonymized \ {u} : reconciliation'[v] = reconciliation[v]
        /\ UNCHANGED <<userAccess, request>>
    BY <1>1, <1>3 DEF ResolveReconciliation, AnonymizationTypeOK, TaskStates
  <2>2. AnonymizationTypeOK'
    BY <1>1, <2>1, AnonymizationTyped DEF AnonymizationTypeOK
  <2>3. AnonymizedIsSettled'
    BY <1>1, <2>1 DEF AnonymizationInv, AnonymizedIsSettled
  <2>4. FailedIsEscalated'
    BY <2>1 DEF AnonymizationInv, FailedIsEscalated
  <2> QED BY <1>1, <2>2, <2>3, <2>4 DEF AnonymizationInv, DeletionsAreDone
<1> QED BY <1>2, <1>3

\* A step of a pass that writes no request.
LEMMA DeleterAlone ==
  ASSUME AnonymizationInv, NEW p \in Deleters,
         deletion' \in [Deleters -> DeletionRows],
         \A q \in Deleters \ {p} : deletion'[q] = deletion[q],
         identity' \in [Anonymized -> BOOLEAN],
         \A u \in Anonymized : identity'[u] => identity[u],
         deletion'[p].step = "FINALIZE" => ~identity'[deletion'[p].user],
         UNCHANGED <<userAccess, request, reconciliation>>,
         stops' \in 0 .. MaxStops
  PROVE  AnonymizationInv'
<1>1. AnonymizationTypeOK'
  BY AnonymizationTyped DEF AnonymizationInv, AnonymizationTypeOK
<1>2. AnonymizedIsSettled'
  BY DEF AnonymizationInv, AnonymizedIsSettled
<1>3. DeletionsAreDone'
  BY DeletionRowType DEF AnonymizationInv, DeletionsAreDone
<1>4. FailedIsEscalated'
  BY DEF AnonymizationInv, FailedIsEscalated
<1> QED BY <1>1, <1>2, <1>3, <1>4 DEF AnonymizationInv

LEMMA DeleterStepInv ==
  ASSUME AnonymizationInv, NEW p \in Deleters, DeleterStep(p) \/ StopDeletion(p)
  PROVE  AnonymizationInv'
<1> DEFINE u == deletion[p].user
<1>1. /\ AnonymizationTypeOK /\ deletion \in [Deleters -> DeletionRows]
      /\ stops \in 0 .. MaxStops /\ identity \in [Anonymized -> BOOLEAN]
      /\ deletion[p].step # "IDLE" => u \in Anonymized
  BY DeletionRowType DEF AnonymizationInv, AnonymizationTypeOK
<1>2. ASSUME NEW v \in Anonymized, TakeRequest(p, v)
      PROVE  AnonymizationInv'
  <2>1. /\ deletion' \in [Deleters -> DeletionRows]
        /\ deletion'[p].step = "DELETE"
        /\ \A q \in Deleters \ {p} : deletion'[q] = deletion[q]
    BY <1>1, <1>2 DEF TakeRequest, DeletionRows
  <2> QED BY <1>1, <1>2, <2>1, DeleterAlone DEF TakeRequest
<1>3. CASE DeleteIdentity(p)
  <2>1. /\ deletion' \in [Deleters -> DeletionRows] /\ deletion'[p].user = u
        /\ \A q \in Deleters \ {p} : deletion'[q] = deletion[q]
        /\ u \in Anonymized
    BY <1>1, <1>3, ProceedsRow DEF DeleteIdentity
  <2>2. identity' = [identity EXCEPT ![u] = FALSE]
    BY <1>3 DEF DeleteIdentity
  <2>3. /\ identity' \in [Anonymized -> BOOLEAN] /\ ~identity'[u]
        /\ \A v \in Anonymized : identity'[v] => identity[v]
    BY <1>1, <2>1, <2>2, Zenon
  <2> QED BY <1>1, <1>3, <2>1, <2>3, DeleterAlone DEF DeleteIdentity
<1>4. CASE DeletionFails(p)
  <2>1. /\ deletion' \in [Deleters -> DeletionRows]
        /\ deletion'[p].step = "FAILED"
        /\ \A q \in Deleters \ {p} : deletion'[q] = deletion[q]
        /\ u \in Anonymized
    BY <1>1, <1>4, ProceedsRow DEF DeletionFails
  <2>2. PICK kept \in {identity[u], FALSE} :
          identity' = [identity EXCEPT ![u] = kept]
    BY <1>4 DEF DeletionFails
  <2>3. kept \in BOOLEAN /\ (kept => identity[u])
    BY <1>1, <2>1, <2>2
  <2>4. /\ identity' \in [Anonymized -> BOOLEAN]
        /\ \A v \in Anonymized : identity'[v] => identity[v]
    BY <1>1, <2>1, <2>2, <2>3
  <2> QED BY <1>1, <1>4, <2>1, <2>4, DeleterAlone DEF DeletionFails
<1>5. CASE FinalizationFails(p)
  <2>1. /\ deletion' \in [Deleters -> DeletionRows]
        /\ deletion'[p].step = "FAILED"
        /\ \A q \in Deleters \ {p} : deletion'[q] = deletion[q]
    BY <1>1, <1>5, ProceedsRow DEF FinalizationFails
  <2> QED BY <1>1, <1>5, <2>1, DeleterAlone DEF FinalizationFails
<1>6. CASE StopDeletion(p)
  <2>1. stops' \in 0 .. MaxStops
    BY <1>1, <1>6, AnonymizationAssumption DEF StopDeletion
  <2> QED BY <1>1, <1>6, <2>1, LeavesRow, DeleterAlone DEF StopDeletion
<1>7. CASE FinalizeAnonymization(p)
  <2>1. /\ deletion' \in [Deleters -> DeletionRows]
        /\ deletion'[p].step = "IDLE" /\ UNCHANGED <<identity, stops>>
        /\ \A q \in Deleters \ {p} : deletion'[q] = deletion[q]
    BY <1>1, <1>7, LeavesRow DEF FinalizeAnonymization
  <2>2. CASE UNCHANGED <<userAccess, request, reconciliation>>
    BY <1>1, <2>1, <2>2, DeleterAlone
  <2>3. CASE /\ request' = [request EXCEPT ![u] =
                  [state |-> "COMPLETED", attempts |-> NextAttempt(u)]]
             /\ userAccess' = [userAccess EXCEPT ![u] = "ANONYMIZED"]
             /\ reconciliation' = [reconciliation EXCEPT ![u] = Recovered(u)]
    <3>1. u \in Anonymized /\ ~identity[u]
      BY <1>1, <1>7
         DEF FinalizeAnonymization, AnonymizationInv, DeletionsAreDone
    <3>2. /\ NextAttempt(u) \in 0 .. MaxFailures
          /\ request[u].attempts \in 0 .. MaxFailures
          /\ NextAttempt(u) >= request[u].attempts
      BY <1>1, <3>1, NextAttemptType
    <3>3. /\ Recovered(u) \in TaskStates \ {"OPEN"}
          /\ Recovered(u) # "NONE" => reconciliation[u] # "NONE"
      BY <1>1, <3>1 DEF Recovered, AnonymizationTypeOK, TaskStates
    <3>4. /\ request' \in [Anonymized ->
               [state : {"NONE", "PENDING", "COMPLETED"},
                attempts : 0 .. MaxFailures]]
          /\ request'[u].state = "COMPLETED"
          /\ request'[u].attempts = NextAttempt(u)
          /\ userAccess' \in [Anonymized -> AccessStates]
          /\ userAccess'[u] = "ANONYMIZED"
          /\ reconciliation' \in [Anonymized -> TaskStates]
          /\ reconciliation'[u] = Recovered(u)
          /\ \A v \in Anonymized \ {u} :
               /\ userAccess'[v] = userAccess[v] /\ request'[v] = request[v]
               /\ reconciliation'[v] = reconciliation[v]
      BY <1>1, <2>3, <3>1, <3>2, <3>3 DEF AnonymizationTypeOK, AccessStates
    <3>5. AnonymizationTypeOK'
      BY <1>1, <2>1, <3>4, AnonymizationTyped
    <3>6. AnonymizedIsSettled'
      BY <2>1, <3>1, <3>3, <3>4 DEF AnonymizationInv, AnonymizedIsSettled
    <3>7. FailedIsEscalated'
      <4>1. reconciliation'[u] # "NONE"
              => request'[u].attempts >= FailuresToTask
        BY <3>1, <3>2, <3>3, <3>4, AnonymizationAssumption
           DEF AnonymizationInv, FailedIsEscalated
      <4> QED BY <3>4, <4>1 DEF AnonymizationInv, FailedIsEscalated
    <3>8. DeletionsAreDone'
      BY <2>1 DEF AnonymizationInv, DeletionsAreDone
    <3> QED BY <2>1, <3>5, <3>6, <3>7, <3>8 DEF AnonymizationInv
  <2> QED BY <1>7, <2>2, <2>3 DEF FinalizeAnonymization
<1>8. CASE RecordWorkerFailure(p)
  <2>1. /\ deletion' \in [Deleters -> DeletionRows]
        /\ deletion'[p].step = "IDLE"
        /\ UNCHANGED <<userAccess, identity, stops>>
        /\ \A q \in Deleters \ {p} : deletion'[q] = deletion[q]
        /\ u \in Anonymized
    BY <1>1, <1>8, LeavesRow DEF RecordWorkerFailure
  <2>2. CASE UNCHANGED <<request, reconciliation>>
    BY <1>1, <2>1, <2>2, DeleterAlone
  <2>3. CASE /\ Counts(u)
             /\ request' = [request EXCEPT ![u].attempts = NextAttempt(u)]
             /\ reconciliation' = [reconciliation EXCEPT ![u] =
                  IF AsksAdministrator(u, NextAttempt(u)) THEN "OPEN" ELSE @]
    <3>1. /\ NextAttempt(u) \in 0 .. MaxFailures
          /\ request[u].attempts \in 0 .. MaxFailures
          /\ NextAttempt(u) >= request[u].attempts
      BY <1>1, <2>1, NextAttemptType
    <3>2. /\ request' \in [Anonymized ->
               [state : {"NONE", "PENDING", "COMPLETED"},
                attempts : 0 .. MaxFailures]]
          /\ request'[u].attempts = NextAttempt(u)
          /\ \A v \in Anonymized : request'[v].state = request[v].state
          /\ \A v \in Anonymized \ {u} : request'[v] = request[v]
      BY <1>1, <2>1, <2>3, <3>1 DEF AnonymizationTypeOK
    <3>3. /\ reconciliation' \in [Anonymized -> TaskStates]
          /\ reconciliation'[u] = IF AsksAdministrator(u, NextAttempt(u))
                                  THEN "OPEN" ELSE reconciliation[u]
          /\ \A v \in Anonymized \ {u} : reconciliation'[v] = reconciliation[v]
      BY <1>1, <2>1, <2>3 DEF AnonymizationTypeOK, TaskStates
    <3>4. AnonymizationTypeOK'
      BY <1>1, <2>1, <3>2, <3>3, AnonymizationTyped DEF AnonymizationTypeOK
    <3>5. userAccess[u] # "ANONYMIZED"
      BY <2>1, <2>3 DEF Counts, AnonymizationInv, AnonymizedIsSettled
    <3>6. AnonymizedIsSettled'
      BY <2>1, <3>2, <3>3, <3>5 DEF AnonymizationInv, AnonymizedIsSettled
    <3>7. FailedIsEscalated'
      <4>1. request[u].state = "PENDING" /\ request'[u].state = "PENDING"
        BY <2>1, <2>3, <3>2 DEF Counts
      \* Below the limit before, there was no task; at it, there was one.
      <4>2. /\ request[u].attempts >= FailuresToTask
                 => reconciliation[u] \in {"OPEN", "RESOLVED"}
            /\ reconciliation[u] # "NONE"
                 => request[u].attempts >= FailuresToTask
        BY <2>1, <4>1 DEF AnonymizationInv, FailedIsEscalated
      <4>3. /\ request'[u].attempts >= FailuresToTask
                 => reconciliation'[u] \in {"OPEN", "RESOLVED"}
            /\ reconciliation'[u] # "NONE"
                 => request'[u].attempts >= FailuresToTask
        BY <3>1, <3>2, <3>3, <4>2, AnonymizationAssumption
           DEF AsksAdministrator
      <4> QED BY <3>2, <3>3, <4>3 DEF AnonymizationInv, FailedIsEscalated
    <3>8. DeletionsAreDone'
      BY <2>1 DEF AnonymizationInv, DeletionsAreDone
    <3> QED BY <2>1, <3>4, <3>6, <3>7, <3>8 DEF AnonymizationInv
  <2> QED BY <1>8, <2>2, <2>3 DEF RecordWorkerFailure
<1> QED BY <1>2, <1>3, <1>4, <1>5, <1>6, <1>7, <1>8 DEF DeleterStep

LEMMA AnonymizationStepInv ==
  AnonymizationInv /\ [AnonymizationNext]_anonymizationVars
    => AnonymizationInv'
<1>1. SUFFICES ASSUME AnonymizationInv,
                      [AnonymizationNext]_anonymizationVars
               PROVE  AnonymizationInv'
  OBVIOUS
<1>2. CASE UNCHANGED anonymizationVars
  BY <1>1, <1>2
     DEF anonymizationVars, AnonymizationInv, AnonymizationTypeOK,
         AnonymizedIsSettled, FailedIsEscalated, DeletionsAreDone
<1> QED BY <1>1, <1>2, UserStepInv, DeleterStepInv DEF AnonymizationNext


----------------------------------------------------------------------------
(* Report Exports: why an attempt is never begun beyond the last.          *)

ExportRows ==
  [state : InFlight \cup Ended, attempts : 0 .. MaxGenerations,
   by : Requesters, role : Authorities]

GenerationRows ==
  [step : GenerationSteps, export : Exports, attempt : 1 .. MaxGenerations]

ExportData ==
  /\ authority \in [Requesters -> Authorities \cup {NoRole}]
  /\ export \in [Exports -> {Unrequested} \cup ExportRows]
  /\ told \in [Exports -> SUBSET Ends]
  /\ generation \in [ExportPasses -> {Resting} \cup GenerationRows]

\* A queued export has an attempt left.
QueuedHasAttempts ==
  \A x \in Exports :
    export[x].state = "QUEUED" => export[x].attempts < MaxGenerations

\* A pass at work is at the latest attempt of an export that left the queue.
PassesOwnAttempts ==
  \A p \in ExportPasses : Working(p) =>
    /\ export[generation[p].export].state \notin {"NONE", "QUEUED"}
    /\ export[generation[p].export].attempts = generation[p].attempt

\* No two passes work at one export.
OnePassPerExport ==
  \A p, q \in ExportPasses :
    Working(p) /\ Working(q) /\ p # q =>
      generation[p].export # generation[q].export

\* What is raised for a repetition has an attempt left.
RaisedHasAttempts ==
  \A p \in ExportPasses :
    generation[p].step = "RAISED" => generation[p].attempt < MaxGenerations

ExportInv ==
  /\ ExportData
  /\ QueuedHasAttempts /\ PassesOwnAttempts /\ OnePassPerExport
  /\ RaisedHasAttempts

LEMMA ExportInvTyped == ExportInv => ExportTypeOK
BY ReportExportAssumption
   DEF ExportInv, ExportData, ExportTypeOK, ExportRows, GenerationRows,
       Unrequested, Resting, Working

LEMMA ExportInitInv == ExportInit => ExportInv
BY ReportExportAssumption
   DEF ExportInit, ExportInv, ExportData, QueuedHasAttempts,
       PassesOwnAttempts, OnePassPerExport, RaisedHasAttempts, Unrequested,
       Resting, Working

\* A step of one pass that leaves every export as it is.
LEMMA GenerationAlone ==
  ASSUME ExportInv, NEW p \in ExportPasses, NEW row,
         generation' = [generation EXCEPT ![p] = row],
         UNCHANGED <<authority, export>>,
         told' \in [Exports -> SUBSET Ends],
         \/ row = Resting
         \/ /\ Working(p)
            /\ row \in GenerationRows
            /\ row.export = generation[p].export
            /\ row.attempt = generation[p].attempt
            /\ row.step = "RAISED" => row.attempt < MaxGenerations
  PROVE  ExportInv'
<1>1. ExportData'
  BY DEF ExportInv, ExportData
<1>2. generation'[p] = row
      /\ \A q \in ExportPasses \ {p} : generation'[q] = generation[q]
  BY DEF ExportInv, ExportData
<1>3. \A q \in ExportPasses : Working(q)' =>
        /\ Working(q)
        /\ generation'[q].export = generation[q].export
        /\ generation'[q].attempt = generation[q].attempt
  BY <1>2 DEF Working, Resting
<1>4. PassesOwnAttempts'
  BY <1>3 DEF ExportInv, PassesOwnAttempts
<1>5. OnePassPerExport'
  BY <1>3 DEF ExportInv, OnePassPerExport
<1>6. RaisedHasAttempts'
  BY <1>2 DEF ExportInv, RaisedHasAttempts, Resting
<1>7. QueuedHasAttempts'
  BY DEF ExportInv, QueuedHasAttempts
<1> QED BY <1>1, <1>4, <1>5, <1>6, <1>7 DEF ExportInv

\* A pass that moves on keeps its export and its attempt.
LEMMA PassMoves ==
  ASSUME ExportInv, NEW p \in ExportPasses, Working(p),
         NEW step \in GenerationSteps
  PROVE  [generation EXCEPT ![p].step = step] =
           [generation EXCEPT ![p] =
             [step |-> step, export |-> generation[p].export,
              attempt |-> generation[p].attempt]]
         /\ [step |-> step, export |-> generation[p].export,
             attempt |-> generation[p].attempt] \in GenerationRows
<1>1. generation[p] \in GenerationRows
  BY DEF ExportInv, ExportData, Working, Resting
<1>2. [generation[p] EXCEPT !.step = step] =
        [step |-> step, export |-> generation[p].export,
         attempt |-> generation[p].attempt]
  BY <1>1 DEF GenerationRows
<1> QED BY <1>1, <1>2 DEF GenerationRows

LEMMA KeepsExports ==
  ASSUME ExportInv, NEW p \in ExportPasses, Working(p),
         NEW step \in GenerationSteps, To(p, step),
         UNCHANGED <<authority, export, told>>,
         step = "RAISED" => generation[p].attempt < MaxGenerations
  PROVE  ExportInv'
<1> DEFINE row == [step |-> step, export |-> generation[p].export,
                   attempt |-> generation[p].attempt]
<1>1. generation' = [generation EXCEPT ![p] = row] /\ row \in GenerationRows
  BY PassMoves DEF To
<1>2. told' \in [Exports -> SUBSET Ends]
  BY DEF ExportInv, ExportData
<1> QED BY <1>1, <1>2, GenerationAlone

\* The end of an export that is running, or nothing.
LEMMA MovesRow ==
  ASSUME ExportInv, NEW x \in Exports, NEW state \in InFlight \cup Ended,
         Moves(x, state)
  PROVE  /\ export' \in [Exports -> {Unrequested} \cup ExportRows]
         /\ \A y \in Exports \ {x} : export'[y] = export[y]
         /\ export'[x].attempts = export[x].attempts
         /\ export[x].state = "RUNNING" => export'[x].state = state
         /\ export[x].state # "RUNNING" => export'[x] = export[x]
<1>1. CASE export[x].state = "RUNNING"
  BY <1>1 DEF ExportInv, ExportData, Moves, ExportRows, Unrequested
<1>2. CASE export[x].state # "RUNNING"
  BY <1>2 DEF ExportInv, ExportData, Moves, ExportRows, Unrequested
<1> QED BY <1>1, <1>2

\* A pass records an end and goes on.
LEMMA EndsExport ==
  ASSUME ExportInv, NEW p \in ExportPasses, Working(p),
         NEW step \in GenerationSteps \ {"RAISED"}, To(p, step),
         NEW state \in Ended, Moves(generation[p].export, state),
         UNCHANGED <<authority, told>>
  PROVE  ExportInv'
<1> DEFINE x == generation[p].export
           row == [step |-> step, export |-> x,
                   attempt |-> generation[p].attempt]
<1>1. x \in Exports
  BY DEF ExportInv, ExportData, Working, Resting, GenerationRows
<1>2. generation' = [generation EXCEPT ![p] = row] /\ row \in GenerationRows
  BY PassMoves DEF To
<1>3. /\ export' \in [Exports -> {Unrequested} \cup ExportRows]
      /\ \A y \in Exports : export'[y].attempts = export[y].attempts
      /\ \A y \in Exports : export'[y].state = export[y].state
                              \/ export'[y].state = state
  <2>1. state \in InFlight \cup Ended
    OBVIOUS
  <2> QED BY <1>1, <2>1, MovesRow
<1>4. ExportData'
  BY <1>2, <1>3 DEF ExportInv, ExportData
<1>5. \A q \in ExportPasses : Working(q)' =>
        /\ Working(q)
        /\ generation'[q].export = generation[q].export
        /\ generation'[q].attempt = generation[q].attempt
        /\ generation[q].export \in Exports
  BY <1>2 DEF ExportInv, ExportData, Working, Resting, GenerationRows
<1>6. QueuedHasAttempts' /\ PassesOwnAttempts'
  BY <1>3, <1>5
     DEF ExportInv, QueuedHasAttempts, PassesOwnAttempts, Ended
<1>7. OnePassPerExport'
  BY <1>5 DEF ExportInv, OnePassPerExport
<1>8. RaisedHasAttempts'
  BY <1>2 DEF ExportInv, ExportData, RaisedHasAttempts
<1> QED BY <1>4, <1>6, <1>7, <1>8 DEF ExportInv

\* A step that is of no pass.
LEMMA NoPassStepInv ==
  ASSUME ExportInv,
         \/ \E u \in Requesters :
              \/ \E role \in Authorities \cup {NoRole} :
                   ChangeAuthority(u, role)
              \/ \E x \in Exports : RequestReportExport(u, x)
         \/ \E x \in Exports : ExpireReportExport(x)
  PROVE  ExportInv'
<1>1. ASSUME NEW u \in Requesters, NEW role \in Authorities \cup {NoRole},
             ChangeAuthority(u, role)
      PROVE  ExportInv'
  BY <1>1
     DEF ChangeAuthority, ExportInv, ExportData, QueuedHasAttempts,
         PassesOwnAttempts, OnePassPerExport, RaisedHasAttempts, Working
<1>2. ASSUME NEW u \in Requesters, NEW x \in Exports,
             RequestReportExport(u, x)
      PROVE  ExportInv'
  <2>1. export' \in [Exports -> {Unrequested} \cup ExportRows]
        /\ export'[x].state = "QUEUED" /\ export'[x].attempts = 0
        /\ \A y \in Exports \ {x} : export'[y] = export[y]
    BY <1>2, ReportExportAssumption
       DEF RequestReportExport, ExportInv, ExportData, ExportRows, NoRole,
           InFlight
  <2>2. \A p \in ExportPasses : Working(p) => generation[p].export # x
    BY <1>2 DEF RequestReportExport, ExportInv, PassesOwnAttempts
  <2> QED BY <1>2, <2>1, <2>2, ReportExportAssumption
          DEF RequestReportExport, ExportInv, ExportData,
              QueuedHasAttempts, PassesOwnAttempts, OnePassPerExport,
              RaisedHasAttempts, Working, Resting, GenerationRows
<1>3. ASSUME NEW x \in Exports, ExpireReportExport(x)
      PROVE  ExportInv'
  <2>1. export' \in [Exports -> {Unrequested} \cup ExportRows]
        /\ export'[x].state = "EXPIRED"
        /\ export'[x].attempts = export[x].attempts
        /\ \A y \in Exports \ {x} : export'[y] = export[y]
    BY <1>3
       DEF ExpireReportExport, ExportInv, ExportData, ExportRows,
           Unrequested, Ended
  <2> QED BY <1>3, <2>1
          DEF ExpireReportExport, ExportInv, ExportData,
              QueuedHasAttempts, PassesOwnAttempts, OnePassPerExport,
              RaisedHasAttempts, Working, Resting, GenerationRows
<1> QED BY <1>1, <1>2, <1>3

LEMMA ClaimExportInv ==
  ASSUME ExportInv, NEW p \in ExportPasses, NEW x \in Exports,
         ClaimExport(p, x)
  PROVE  ExportInv'
<1>1. /\ export[x] \in ExportRows /\ export[x].attempts < MaxGenerations
      /\ \A q \in ExportPasses : Working(q) => generation[q].export # x
  BY DEF ClaimExport, ExportInv, ExportData, QueuedHasAttempts,
         PassesOwnAttempts, Unrequested
<1>2. /\ export' \in [Exports -> {Unrequested} \cup ExportRows]
      /\ export'[x].state = "RUNNING"
      /\ export'[x].attempts = export[x].attempts + 1
      /\ \A y \in Exports \ {x} : export'[y] = export[y]
  BY <1>1, ReportExportAssumption
     DEF ClaimExport, ExportInv, ExportData, ExportRows, InFlight
<1>3. /\ generation' \in [ExportPasses -> {Resting} \cup GenerationRows]
      /\ generation'[p] = [step |-> "CLAIMED", export |-> x,
                           attempt |-> export[x].attempts + 1]
      /\ \A q \in ExportPasses \ {p} : generation'[q] = generation[q]
  BY <1>1, ReportExportAssumption
     DEF ClaimExport, ExportInv, ExportData, ExportRows, GenerationRows,
         GenerationSteps
<1>4. ExportData'
  BY <1>2, <1>3 DEF ClaimExport, ExportInv, ExportData
<1>5. QueuedHasAttempts'
  BY <1>2 DEF ExportInv, QueuedHasAttempts
<1>6. PassesOwnAttempts' /\ OnePassPerExport'
  BY <1>1, <1>2, <1>3
     DEF ExportInv, ExportData, PassesOwnAttempts, OnePassPerExport, Working,
         Resting, GenerationRows
<1>7. RaisedHasAttempts'
  BY <1>3 DEF ExportInv, RaisedHasAttempts
<1> QED BY <1>4, <1>5, <1>6, <1>7 DEF ExportInv

LEMMA ReturnToQueueInv ==
  ASSUME ExportInv, NEW p \in ExportPasses, ReturnToQueue(p)
  PROVE  ExportInv'
<1> DEFINE x == generation[p].export
<1>1. /\ Working(p) /\ x \in Exports
      /\ export[x].attempts < MaxGenerations
      /\ \A q \in ExportPasses \ {p} :
           Working(q) => generation[q].export # x
  BY DEF ReturnToQueue, ExportInv, ExportData, Working, Resting,
         GenerationRows, PassesOwnAttempts, OnePassPerExport,
         RaisedHasAttempts
<1>2. /\ export' \in [Exports -> {Unrequested} \cup ExportRows]
      /\ \A y \in Exports \ {x} : export'[y] = export[y]
      /\ export'[x].attempts = export[x].attempts
  <2>1. Moves(x, "QUEUED") /\ "QUEUED" \in InFlight \cup Ended
    BY DEF ReturnToQueue, Returns, InFlight
  <2> QED BY <1>1, <2>1, MovesRow
<1>3. /\ generation' \in [ExportPasses -> {Resting} \cup GenerationRows]
      /\ generation'[p] = Resting
      /\ \A q \in ExportPasses \ {p} : generation'[q] = generation[q]
  BY DEF ReturnToQueue, Rests, ExportInv, ExportData
<1>4. ExportData'
  BY <1>2, <1>3 DEF ReturnToQueue, ExportInv, ExportData
<1>5. QueuedHasAttempts'
  BY <1>1, <1>2 DEF ExportInv, QueuedHasAttempts
<1>6. PassesOwnAttempts' /\ OnePassPerExport'
  BY <1>1, <1>2, <1>3
     DEF ExportInv, ExportData, PassesOwnAttempts, OnePassPerExport, Working,
         Resting, GenerationRows
<1>7. RaisedHasAttempts'
  BY <1>3 DEF ExportInv, RaisedHasAttempts, Resting
<1> QED BY <1>4, <1>5, <1>6, <1>7 DEF ExportInv

LEMMA GenerationInv ==
  ASSUME ExportInv, NEW p \in ExportPasses,
         GenerationStep(p) \/ Raise(p) \/ StopGeneration(p)
  PROVE  ExportInv'
<1>1. ASSUME NEW x \in Exports, ClaimExport(p, x) PROVE ExportInv'
  BY <1>1, ClaimExportInv
<1>2. CASE CheckAuthority(p)
  <2>1. PICK step \in {"BUILDING", "FAILED"} : To(p, step)
    BY <1>2 DEF CheckAuthority
  <2> QED BY <1>2, <2>1, KeepsExports
          DEF CheckAuthority, GenerationSteps, Working
<1>3. CASE BuildExtract(p)
  BY <1>3, KeepsExports DEF BuildExtract, GenerationSteps, Ends, Working
<1>4. CASE RecordEnd(p)
  <2>1. PICK step \in {"TELL_COMPLETED", "TELL_FAILED"} : To(p, step)
    BY <1>4 DEF RecordEnd
  <2> QED BY <1>4, <2>1, EndsExport
          DEF RecordEnd, GenerationSteps, Ends, Ended, Working
<1>5. CASE TellRequester(p)
  <2>1. told' \in [Exports -> SUBSET Ends]
    BY <1>5 DEF TellRequester, ExportInv, ExportData, Ends
  <2> QED BY <1>5, <2>1, GenerationAlone DEF TellRequester, Rests
<1>6. CASE ReturnToQueue(p)
  BY <1>6, ReturnToQueueInv
<1>7. CASE GiveUp(p)
  BY <1>7, EndsExport DEF GiveUp, GenerationSteps, Ended, Working
<1>8. CASE Raise(p)
  <2>1. PICK step \in {"GIVE_UP", "RAISED"} :
          To(p, step) /\ (step = "RAISED" =>
            ~(generation[p].attempt >= MaxGenerations))
    BY <1>8 DEF Raise
  <2>2. Working(p)
    BY <1>8 DEF Raise, Working
  <2>3. generation[p].attempt \in 1 .. MaxGenerations
    BY <2>2 DEF ExportInv, ExportData, Working, Resting, GenerationRows
  <2> QED BY <1>8, <2>1, <2>2, <2>3, KeepsExports, ReportExportAssumption
          DEF Raise, GenerationSteps
<1>9. CASE StopGeneration(p)
  BY <1>9, GenerationAlone DEF StopGeneration, Rests, ExportInv, ExportData
<1> QED BY <1>1, <1>2, <1>3, <1>4, <1>5, <1>6, <1>7, <1>8, <1>9
        DEF GenerationStep

LEMMA ExportStepInv == ExportInv /\ [ExportNext]_exportVars => ExportInv'
<1>1. SUFFICES ASSUME ExportInv, [ExportNext]_exportVars PROVE ExportInv'
  OBVIOUS
<1>2. CASE UNCHANGED exportVars
  BY <1>1, <1>2
     DEF exportVars, ExportInv, ExportData, QueuedHasAttempts,
         PassesOwnAttempts, OnePassPerExport, RaisedHasAttempts, Working
<1> QED BY <1>1, <1>2, NoPassStepInv, GenerationInv DEF ExportNext

\* What happens to one export that ended.
EndedStays ==
  \A x \in Exports : export[x].state \in Ended =>
    export'[x] \in {export[x], [export[x] EXCEPT !.state = "EXPIRED"]}

\* A move leaves an export that ended as it is.
LEMMA MovesKeepEnded ==
  ASSUME ExportInv, NEW p \in ExportPasses, Working(p),
         NEW state \in InFlight \cup Ended,
         Moves(generation[p].export, state)
  PROVE  EndedStays
<1>1. generation[p].export \in Exports
  BY DEF ExportInv, ExportData, Working, Resting, GenerationRows
<1>2. \A x \in Exports : export[x].state \in Ended => export'[x] = export[x]
  BY <1>1, MovesRow DEF Ended
<1> QED BY <1>2 DEF EndedStays

LEMMA EndedStepStays ==
  ExportInv /\ [ExportNext]_exportVars => EndedStays
<1>1. SUFFICES ASSUME ExportInv, [ExportNext]_exportVars PROVE EndedStays
  OBVIOUS
<1>2. CASE UNCHANGED export
  BY <1>2 DEF EndedStays
<1>3. ASSUME NEW u \in Requesters, NEW x \in Exports,
             RequestReportExport(u, x)
      PROVE  EndedStays
  BY <1>1, <1>3
     DEF RequestReportExport, EndedStays, Ended, ExportInv, ExportData
<1>4. ASSUME NEW p \in ExportPasses, NEW x \in Exports, ClaimExport(p, x)
      PROVE  EndedStays
  BY <1>1, <1>4 DEF ClaimExport, EndedStays, Ended, ExportInv, ExportData
<1>5. ASSUME NEW p \in ExportPasses,
             RecordEnd(p) \/ ReturnToQueue(p) \/ GiveUp(p)
      PROVE  EndedStays
  BY <1>1, <1>5, MovesKeepEnded
     DEF RecordEnd, ReturnToQueue, GiveUp, Returns, InFlight, Ended, Ends,
         Working
<1>6. ASSUME NEW x \in Exports, ExpireReportExport(x) PROVE EndedStays
  BY <1>1, <1>6
     DEF ExpireReportExport, EndedStays, ExportInv, ExportData
<1> QED BY <1>1, <1>2, <1>3, <1>4, <1>5, <1>6
        DEF ExportNext, GenerationStep, exportVars, ChangeAuthority,
            CheckAuthority, BuildExtract, TellRequester, Raise,
            StopGeneration

LEMMA ExportInvariant == ExportSpec => []ExportInv
BY ExportInitInv, ExportStepInv, PTL DEF ExportSpec

\* An export that ended is never generated again, whichever passes overlap
\* and whichever of their statements fail: it may only expire.
THEOREM EndedExportsStayEnded == ExportSpec => EndedExportIsFinal
<1>1. ExportInv /\ [ExportNext]_exportVars
        => [\A x \in Exports : export[x].state \in Ended =>
              export'[x] \in {export[x],
                              [export[x] EXCEPT !.state = "EXPIRED"]}]_exportVars
  BY EndedStepStays DEF EndedStays
<1> QED BY <1>1, ExportInvariant, PTL DEF ExportSpec, EndedExportIsFinal

----------------------------------------------------------------------------
(* The three workers together.                                             *)

\* For any passes that overlap and stop: an email given up is before an
\* Administrator for as long as it is undecided; an anonymization that failed
\* FailuresToTask times is, until an Administrator resolves its task or a later
\* pass completes it; and no row of the three tables leaves its shape.
THEOREM FailuresStaySettled ==
  DeliverySpec /\ ExportSpec /\ AnonymizationSpec => []FailuresAreSettled
<1>1. DeliveryInv /\ ExportInv /\ AnonymizationInv => FailuresAreSettled
  BY ExportInvTyped
     DEF DeliveryInv, AnonymizationInv, FailuresAreSettled, PlatformTypeOK
<1>2. DeliverySpec => []DeliveryInv
  BY DeliveryInitInv, DeliveryStepInv, PTL DEF DeliverySpec
<1>3. AnonymizationSpec => []AnonymizationInv
  BY AnonymizationInitInv, AnonymizationStepInv, PTL DEF AnonymizationSpec
<1> QED BY <1>1, <1>2, <1>3, ExportInvariant, PTL

=============================================================================
