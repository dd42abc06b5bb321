------------------------------ MODULE OneMail ------------------------------
(***************************************************************************)
(* What the platform promises of the emails it owes (ADR 0002 and 0046):   *)
(* whatever becomes of an email is decided once, and it is sent once if it *)
(* is delivered and never if it is suppressed.                             *)
(***************************************************************************)
EXTENDS Naturals

CONSTANT Emails

VARIABLES outcome, sent

mailVars == <<outcome, sent>>

MailInit ==
  /\ outcome = [e \in Emails |-> "NONE"]
  /\ sent = [e \in Emails |-> 0]

Send(e) ==
  /\ outcome[e] = "NONE"
  /\ outcome' = [outcome EXCEPT ![e] = "DELIVERED"]
  /\ sent' = [sent EXCEPT ![e] = @ + 1]

Suppress(e) ==
  /\ outcome[e] = "NONE"
  /\ outcome' = [outcome EXCEPT ![e] = "SUPPRESSED"]
  /\ UNCHANGED sent

MailNext == \E e \in Emails : Send(e) \/ Suppress(e)

MailSpec == MailInit /\ [][MailNext]_mailVars

============================================================================
