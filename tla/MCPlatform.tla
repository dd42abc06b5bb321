----------------------------- MODULE MCPlatform -----------------------------
(* A small instance of the workers of emails, exports and anonymizations,   *)
(* for TLC.  They write different tables and are examined one at a time.    *)
EXTENDS Delivery, ReportExport, Anonymization, TLC

CONSTANTS e1, e2, r1, p1, p2, x1, x2, u1, w1, w2

RecipientOfEmail == [e \in {e1, e2} |-> r1]

VARIABLE focus

platformVars == <<focus, deliveryVars, exportVars, anonymizationVars>>

PlatformInit ==
  /\ focus \in {"delivery", "exports", "anonymization"}
  /\ DeliveryInit
  /\ ExportInit
  /\ focus # "exports" =>
       authority = [u \in Requesters |-> "ORGANIZATION_MANAGER"]
  /\ AnonymizationInit
  /\ focus # "anonymization" => userAccess = [u \in Anonymized |-> "ACTIVE"]

OnlyDelivery ==
  /\ focus = "delivery"
  /\ UNCHANGED <<focus, exportVars, anonymizationVars>>
OnlyExports ==
  /\ focus = "exports"
  /\ UNCHANGED <<focus, deliveryVars, anonymizationVars>>
OnlyAnonymization ==
  /\ focus = "anonymization"
  /\ UNCHANGED <<focus, deliveryVars, exportVars>>

PlatformNext ==
  \/ OnlyDelivery /\ DeliveryNext
  \/ OnlyExports /\ ExportNext
  \/ OnlyAnonymization /\ AnonymizationNext

PlatformSpec == PlatformInit /\ [][PlatformNext]_platformVars

\* Every task is started each minute and its passes go on, and time passes.
PlatformFairness ==
  /\ \A p \in Passes : WF_platformVars(OnlyDelivery /\ PassStep(p))
  /\ \A e \in Emails : WF_platformVars(OnlyDelivery /\ Later(e))
  /\ \A p \in ExportPasses : WF_platformVars(OnlyExports /\ GenerationStep(p))
  /\ \A p \in Deleters : WF_platformVars(OnlyAnonymization /\ DeleterStep(p))

FairPlatformSpec == PlatformSpec /\ PlatformFairness

\* The rows of the three tables have their shapes.
PlatformTypeOK == DeliveryTypeOK /\ ExportTypeOK /\ AnonymizationTypeOK

\* An email that was given up is before an Administrator for as long as it is
\* undecided.  So is an anonymization that failed FailuresToTask times, until
\* an Administrator resolves its task or a later pass completes it, which
\* closes the task.  Of exports that failed, whose requester is told, it says
\* nothing.
FailuresAreSettled ==
  /\ PlatformTypeOK
  /\ GivenUpIsEscalated
  /\ AnonymizedIsSettled /\ FailedIsEscalated

\* What the workers of emails, exports and anonymizations have been given
\* they come to an end with, or an Administrator is asked.
WorkIsFinished == EmailsAreDecided /\ ExportsEnd /\ AnonymizationIsNoticed

=============================================================================
