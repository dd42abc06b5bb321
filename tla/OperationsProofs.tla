-------------------------- MODULE OperationsProofs --------------------------
(***************************************************************************)
(* Theorems about what keeps the platform going, for every value of the    *)
(* constants: who administers it, the idempotent requests it serves, the   *)
(* rebuilds it is closed for, the releases that replace one another, the   *)
(* alerts that tell the owner of an incident, the role a User acts in, and *)
(* the keys that make the retries of a browser safe.                       *)
(***************************************************************************)
EXTENDS AdministratorAccess, Requests, Maintenance, Releases,
        Incidents, Workspace, WebClient, FiniteSetTheorems, TLAPS

----------------------------------------------------------------------------
(* Administrators: any number of them and of requests under way.           *)

LEMMA AdminInitType == AdminInit => AdminTypeOK
BY HoldersAssumption DEF AdminInit, AdminTypeOK

LEMMA AdminStepType == AdminTypeOK /\ [AdminNext]_adminVars => AdminTypeOK'
<1>1. SUFFICES ASSUME AdminTypeOK, [AdminNext]_adminVars PROVE AdminTypeOK'
  OBVIOUS
<1>. USE <1>1
<1>2. ASSUME NEW r \in Requests, Authenticate(r)
      PROVE  AdminTypeOK'
  BY <1>2 DEF Authenticate, AdminTypeOK
<1>3. ASSUME NEW r \in requests, Commit(r)
      PROVE  AdminTypeOK'
  <2>1. r.target \in Administrators /\ requests' \subseteq Requests
    BY <1>3 DEF Commit, AdminTypeOK, Requests
  <2>2. CASE SuspendAdministrator(r)
    BY <2>1, <2>2 DEF SuspendAdministrator, AdminTypeOK
  <2>3. CASE ReactivateAdministrator(r)
    BY <2>1, <2>3 DEF ReactivateAdministrator, AdminTypeOK
  <2>4. CASE GrantAdministrator(r)
    BY <2>1, <2>4 DEF GrantAdministrator, AdminTypeOK
  <2>5. CASE RemoveAdministrator(r)
    BY <2>1, <2>5 DEF RemoveAdministrator, AdminTypeOK
  <2> QED BY <1>3, <2>2, <2>3, <2>4, <2>5 DEF Commit
<1>4. ASSUME NEW r \in requests, Refuse(r)
      PROVE  AdminTypeOK'
  BY <1>4 DEF Refuse, AdminTypeOK
<1>5. CASE UNCHANGED adminVars
  BY <1>5 DEF adminVars, AdminTypeOK
<1> QED BY <1>2, <1>3, <1>4, <1>5 DEF AdminNext

(* Every reachable state has its types: access is a status for each        *)
(* administrator and every request under way is well formed.               *)
THEOREM AdminTypeCorrect == AdminSpec => []AdminTypeOK
<1>1. AdminTypeOK /\ [AdminNext]_adminVars => AdminTypeOK'
  BY AdminStepType
<1> QED BY <1>1, AdminInitType, PTL DEF AdminSpec

\* A set that loses one member and becomes empty had exactly that one.
LEMMA LastMember ==
  ASSUME NEW S, NEW x \in S, Cardinality(S) # 1
  PROVE  S \ {x} # {}
<1>1. SUFFICES ASSUME S \ {x} = {} PROVE FALSE
  OBVIOUS
<1>2. S = {x}
  BY <1>1
<1> QED BY <1>2, FS_Singleton

(* However many administrators remove one another at once, somebody keeps  *)
(* the role: the count taken with every administrator row locked suffices, *)
(* although the actor's own role is never looked at again.                 *)
THEOREM RoleIsNeverEmptied == AdminSpec => []SomebodyHoldsRole
<1>1. AdminInit => SomebodyHoldsRole
  BY HoldersAssumption DEF AdminInit, SomebodyHoldsRole
<1>2. SomebodyHoldsRole /\ [AdminNext]_adminVars => SomebodyHoldsRole'
  <2>1. SUFFICES ASSUME SomebodyHoldsRole, [AdminNext]_adminVars
                 PROVE  SomebodyHoldsRole'
    OBVIOUS
  <2>2. ASSUME NEW r \in requests, Commit(r)
        PROVE  SomebodyHoldsRole'
    <3>1. CASE RemoveAdministrator(r)
      BY <3>1, LastMember DEF RemoveAdministrator, SomebodyHoldsRole
    <3>2. CASE ~RemoveAdministrator(r)
      BY <2>1, <2>2, <3>2
         DEF Commit, SuspendAdministrator, ReactivateAdministrator,
             GrantAdministrator, SomebodyHoldsRole
    <3> QED BY <3>1, <3>2
  <2>3. ASSUME UNCHANGED holders
        PROVE  SomebodyHoldsRole'
    BY <2>1, <2>3 DEF SomebodyHoldsRole
  <2> QED BY <2>1, <2>2, <2>3 DEF AdminNext, Authenticate, Refuse, adminVars
<1> QED BY <1>1, <1>2, PTL DEF AdminSpec

LEMMA SuspensionLeavesOne ==
  ASSUME AdminTypeOK, NEW r \in Requests, SuspendAdministrator(r),
         ActiveHolders # {}
  PROVE  ActiveHolders' # {}
<1>1. /\ holders' = holders
      /\ access' = [access EXCEPT ![r.target] = "SUSPENDED"]
      /\ access[r.target] = "ACTIVE"
      /\ r.target \in holders => Cardinality(ActiveHolders) # 1
  BY DEF SuspendAdministrator
<1>2. ActiveHolders \ {r.target} \subseteq ActiveHolders'
  BY <1>1 DEF ActiveHolders, AdminTypeOK
<1>3. CASE r.target \in holders
  <2>1. r.target \in ActiveHolders
    BY <1>1, <1>3 DEF ActiveHolders
  <2>2. ActiveHolders \ {r.target} # {}
    BY <1>1, <1>3, <2>1, LastMember
  <2> QED BY <1>2, <2>2
<1>4. CASE r.target \notin holders
  BY <1>2, <1>4 DEF ActiveHolders
<1> QED BY <1>3, <1>4

(* Suspensions alone never lock every administrator out, in whatever order *)
(* and from however many authenticated requests they commit.               *)
THEOREM SuspensionNeverLocksOut == AdminSpec => OnlyRemovalLocksOut
<1>1. AdminTypeOK /\ [AdminNext]_adminVars
        => [ActiveHolders # {} /\ ActiveHolders' = {}
              => holders' # holders]_adminVars
  <2>1. SUFFICES ASSUME AdminTypeOK, AdminNext, ActiveHolders # {},
                        holders' = holders
                 PROVE  ActiveHolders' # {}
    OBVIOUS
  <2>2. ASSUME NEW r \in requests, Commit(r)
        PROVE  ActiveHolders' # {}
    <3>1. r \in Requests
      BY <2>1 DEF AdminTypeOK
    <3>2. CASE SuspendAdministrator(r)
      BY <2>1, <3>1, <3>2, SuspensionLeavesOne
    <3>3. CASE ReactivateAdministrator(r)
      BY <2>1, <3>1, <3>3
         DEF ReactivateAdministrator, ActiveHolders, AdminTypeOK
    <3>4. CASE GrantAdministrator(r)
      BY <2>1, <3>4 DEF GrantAdministrator
    <3>5. CASE RemoveAdministrator(r)
      BY <2>1, <3>5 DEF RemoveAdministrator
    <3> QED BY <2>2, <3>2, <3>3, <3>4, <3>5 DEF Commit
  <2>3. ASSUME UNCHANGED access
        PROVE  ActiveHolders' # {}
    BY <2>1, <2>3 DEF ActiveHolders
  <2> QED BY <2>1, <2>2, <2>3 DEF AdminNext, Authenticate, Refuse
<1> QED BY <1>1, AdminTypeCorrect, PTL DEF AdminSpec, OnlyRemovalLocksOut

----------------------------------------------------------------------------
(* Requests: what makes the answer to a retry the outcome of one effect.   *)

\* A record is that of an effect under its key.
RecordsAreOfEffects ==
  \A k \in Keys : Recorded(k) =>
    \E e \in effect :
      /\ e.key = k /\ e.input = record[k].input
      /\ e.outcome = record[k].outcome /\ e.now = record[k].since

\* Of every effect there is a record, and no later effect than the recorded.
EffectsAreRecorded ==
  \A e \in effect : Recorded(e.key) /\ e.now <= record[e.key].since

RequestsInv ==
  RetriesTakeEffectOnce /\ RecordsAreOfEffects /\ EffectsAreRecorded

LEMMA RequestsInitInv == RequestsInit => RequestsInv
BY RequestsAssumption
   DEF RequestsInit, RequestsInv, RetriesTakeEffectOnce, RequestsTypeOK,
       EffectsAreApart, AnswersAreOfEffects, RecordsAreOfEffects,
       EffectsAreRecorded, Recorded, NoRecord, Fresh, Nobody, Decisions

\* What an answered or failed arrival becomes.
LEMMA AnswerType ==
  ASSUME RequestsTypeOK, NEW r \in Arrivals, mutation[r] # Fresh,
         NEW answer \in RequestSteps, Answers(r, answer)
  PROVE  /\ mutation' \in [Arrivals -> {Fresh} \cup RequestRecords]
         /\ KeyOf(r)' = KeyOf(r) /\ mutation'[r].step = answer
         /\ mutation'[r].input = mutation[r].input
         /\ mutation'[r].now = mutation[r].now
         /\ \A q \in Arrivals \ {r} : mutation'[q] = mutation[q]
<1>1. mutation[r] \in RequestRecords
  BY DEF RequestsTypeOK
<1>2. /\ mutation' = [mutation EXCEPT ![r] = [mutation[r] EXCEPT !.step = answer]]
      /\ mutation \in [Arrivals -> {Fresh} \cup RequestRecords]
  BY DEF Answers, RequestsTypeOK
<1>3. [mutation[r] EXCEPT !.step = answer] \in RequestRecords
  BY <1>1 DEF RequestRecords
<1>4. mutation'[r] = [mutation[r] EXCEPT !.step = answer]
  BY <1>2
<1> QED BY <1>1, <1>2, <1>3, <1>4 DEF KeyOf, RequestRecords

\* A begun arrival has its key, its input and the time it began.
LEMMA BegunType ==
  ASSUME RequestsTypeOK, NEW r \in Arrivals, mutation[r].step # "UNSENT"
  PROVE  /\ mutation[r] \in RequestRecords /\ mutation[r] # Fresh
         /\ KeyOf(r) \in Keys /\ mutation[r].input \in Inputs
         /\ mutation[r].now \in 0 .. MaxClock
         /\ Actor(r) \in Actors
         /\ Released(r) \in [Actors -> Arrivals \cup {Nobody}]
<1>1. mutation[r] \in RequestRecords
  BY DEF RequestsTypeOK, Fresh
<1>2. KeyOf(r) \in Keys /\ mutation[r].input \in Inputs
      /\ mutation[r].now \in 0 .. MaxClock /\ mutation[r] # Fresh
  BY <1>1 DEF RequestRecords, KeyOf, Fresh
<1> QED BY <1>1, <1>2, RequestsAssumption
        DEF Actor, Released, RequestsTypeOK

LEMMA RecordType ==
  ASSUME RequestsTypeOK, NEW k \in Keys, Recorded(k)
  PROVE  /\ record[k].input \in Inputs /\ record[k].outcome \in Decisions
         /\ record[k].since \in 0 .. MaxClock
<1>1. record[k] # NoRecord
  BY DEF Recorded, NoRecord
<1>2. record[k] \in [kept : {TRUE}, input : Inputs, outcome : Decisions,
                     since : 0 .. MaxClock]
  BY <1>1 DEF RequestsTypeOK
<1> QED BY <1>2

\* What is audited of an arrival is one of the entries.
LEMMA AuditType ==
  ASSUME RequestsTypeOK, NEW r \in Arrivals,
         NEW entries \in SUBSET {"REPLAY_SUCCEEDED", "REPLAY_DENIED",
                                "KEY_REUSED", "SUSPENDED", "FAILED"},
         audit' = [audit EXCEPT ![r] = @ \cup entries]
  PROVE  audit' \in [Arrivals -> SUBSET
           {"REPLAY_SUCCEEDED", "REPLAY_DENIED", "KEY_REUSED", "SUSPENDED",
            "FAILED"}]
BY DEF RequestsTypeOK

\* A step that neither performs a mutation nor answers with a decision.
LEMMA PlainStep ==
  ASSUME RequestsInv, RequestsTypeOK', UNCHANGED <<record, effect>>,
         \A r \in Arrivals :
           mutation'[r] = mutation[r] \/ mutation'[r].step \notin Decisions
  PROVE  RequestsInv'
BY DEF RequestsInv, RetriesTakeEffectOnce, EffectsAreApart, KeyOf,
       AnswersAreOfEffects, RecordsAreOfEffects, EffectsAreRecorded, Recorded

LEMMA ArriveInv ==
  ASSUME RequestsInv, NEW r \in Arrivals, NEW k \in Keys, NEW i \in Inputs,
         Arrive(r, k, i)
  PROVE  RequestsInv'
<1> DEFINE begun == [step |-> "WAITING", key |-> k, input |-> i, now |-> clock]
<1>1. RequestsTypeOK
  BY DEF RequestsInv, RetriesTakeEffectOnce
<1>2. begun \in RequestRecords
  BY <1>1 DEF RequestsTypeOK, RequestRecords, RequestSteps
<1>3. RequestsTypeOK'
  BY <1>1, <1>2 DEF RequestsTypeOK, Arrive
<1>4. ASSUME NEW q \in Arrivals
      PROVE  mutation'[q] = mutation[q] \/ mutation'[q].step \notin Decisions
  BY <1>1 DEF RequestsTypeOK, Arrive, Decisions
<1> QED BY <1>1, <1>3, <1>4, PlainStep DEF Arrive

LEMMA LockActiveActorInv ==
  ASSUME RequestsInv, NEW r \in Arrivals, LockActiveActor(r)
  PROVE  RequestsInv'
<1>1. RequestsTypeOK /\ mutation[r].step # "UNSENT"
  BY DEF RequestsInv, RetriesTakeEffectOnce, LockActiveActor, StepIs
<1>2. PICK step \in {"SUSPENDED", "ADMITTED"} : Answers(r, step)
  BY DEF LockActiveActor, Answers
<1>3. step \in RequestSteps /\ step \notin Decisions
  BY DEF RequestSteps, Decisions
<1>4. lockedBy' \in [Actors -> Arrivals \cup {Nobody}]
  BY <1>1, BegunType DEF LockActiveActor, RequestsTypeOK
<1>5. RequestsTypeOK'
  BY <1>1, <1>2, <1>3, <1>4, AnswerType, BegunType
     DEF RequestsTypeOK, LockActiveActor
<1>6. \A q \in Arrivals :
        mutation'[q] = mutation[q] \/ mutation'[q].step \notin Decisions
  BY <1>1, <1>2, <1>3, AnswerType, BegunType
<1> QED BY <1>5, <1>6, PlainStep DEF LockActiveActor

LEMMA FailInv ==
  ASSUME RequestsInv, NEW r \in Arrivals, Fail(r)
  PROVE  RequestsInv'
<1>1. RequestsTypeOK /\ mutation[r].step # "UNSENT"
  BY DEF RequestsInv, RetriesTakeEffectOnce, Fail, StepIs
<1>2. "FAILED" \in RequestSteps /\ "FAILED" \notin Decisions
  BY DEF RequestSteps, Decisions
<1>3. RequestsTypeOK'
  BY <1>1, <1>2, AnswerType, BegunType DEF RequestsTypeOK, Fail
<1>4. \A q \in Arrivals :
        mutation'[q] = mutation[q] \/ mutation'[q].step \notin Decisions
  BY <1>1, <1>2, AnswerType, BegunType DEF Fail
<1> QED BY <1>3, <1>4, PlainStep DEF Fail

LEMMA AuditFailureInv ==
  ASSUME RequestsInv, NEW r \in Arrivals, AuditFailure(r)
  PROVE  RequestsInv'
<1>1. RequestsTypeOK /\ mutation[r].step # "UNSENT"
  BY DEF RequestsInv, RetriesTakeEffectOnce, AuditFailure, StepIs
<1>2. /\ "REPORTED" \in RequestSteps /\ "REPORTED" \notin Decisions
      /\ Answers(r, "REPORTED")
  BY DEF RequestSteps, Decisions, AuditFailure, Answers
<1>3. mutation[r].step \in {"SUSPENDED", "FAILED"}
  BY DEF AuditFailure, StepIs
<1>. PICK entry \in {{}, {mutation[r].step}} :
       audit' = [audit EXCEPT ![r] = @ \cup entry]
  BY DEF AuditFailure
<1>6. entry \in SUBSET {"REPLAY_SUCCEEDED", "REPLAY_DENIED", "KEY_REUSED",
                        "SUSPENDED", "FAILED"}
  BY <1>3
<1>4. RequestsTypeOK'
  BY <1>1, <1>2, <1>6, AnswerType, BegunType, AuditType
     DEF RequestsTypeOK, AuditFailure
<1>5. \A q \in Arrivals :
        mutation'[q] = mutation[q] \/ mutation'[q].step \notin Decisions
  BY <1>1, <1>2, AnswerType, BegunType
<1> QED BY <1>4, <1>5, PlainStep DEF AuditFailure

LEMMA ReplayInv ==
  ASSUME RequestsInv, NEW r \in Arrivals, Replay(r)
  PROVE  RequestsInv'
<1>1. RequestsTypeOK /\ mutation[r].step # "UNSENT"
  BY DEF RequestsInv, RetriesTakeEffectOnce, Replay, StepIs
<1> DEFINE k == KeyOf(r)
           answer == IF SameInput(r) THEN record[k].outcome ELSE "KEY_REUSED"
<1>2. k \in Keys /\ Recorded(k) /\ ~Expired(r)
  BY <1>1, BegunType DEF Replay
<1>8. mutation[r].now < record[k].since + Retention
  BY <1>1, <1>2, BegunType, RecordType, RequestsAssumption DEF Expired
<1>3. Answers(r, answer) /\ UNCHANGED <<clock, suspended, record, effect>>
  BY DEF Replay
<1>4. answer \in Decisions \cup {"KEY_REUSED"}
  BY <1>1, <1>2, RecordType
<1>5. answer \in RequestSteps
  BY <1>4 DEF RequestSteps, Decisions, Answered
<1>. HIDE DEF answer
<1>9. PICK entry \in {"REPLAY_SUCCEEDED", "REPLAY_DENIED", "KEY_REUSED"} :
        audit' = [audit EXCEPT ![r] = @ \cup {entry}]
  BY DEF Replay
<1>10. {entry} \in SUBSET {"REPLAY_SUCCEEDED", "REPLAY_DENIED", "KEY_REUSED",
                          "SUSPENDED", "FAILED"}
  OBVIOUS
<1>6. RequestsTypeOK'
  BY <1>1, <1>3, <1>5, <1>9, <1>10, AnswerType, BegunType, AuditType
     DEF RequestsTypeOK, Replay
<1>7. AnswersAreOfEffects'
  <2>1. ASSUME NEW q \in Arrivals, mutation'[q].step \in Decisions
        PROVE  \E e \in effect :
                 /\ e.key = KeyOf(q)' /\ e.input = mutation'[q].input
                 /\ e.outcome = mutation'[q].step
                 /\ mutation'[q].now < e.now + Retention
    <3>1. CASE q # r
      <4>1. mutation'[q] = mutation[q]
        BY <1>1, <1>3, <1>5, <3>1, AnswerType, BegunType
      <4> QED BY <2>1, <4>1 DEF RequestsInv, RetriesTakeEffectOnce,
                               AnswersAreOfEffects, KeyOf
    <3>2. CASE q = r
      <4>1. /\ mutation'[r].step = answer /\ KeyOf(r)' = k
            /\ mutation'[r].input = mutation[r].input
            /\ mutation'[r].now = mutation[r].now
        BY <1>1, <1>3, <1>5, AnswerType, BegunType
      <4>2. SameInput(r) /\ answer = record[k].outcome
        BY <2>1, <3>2, <4>1 DEF answer, Decisions
      <4>3. PICK e \in effect :
              /\ e.key = k /\ e.input = record[k].input
              /\ e.outcome = record[k].outcome /\ e.now = record[k].since
        BY <1>2 DEF RequestsInv, RecordsAreOfEffects
      <4>4. record[k].input = mutation[r].input
        BY <4>2 DEF SameInput
      <4>5. mutation[r].now < e.now + Retention
        BY <1>8, <4>3
      <4> QED BY <3>2, <4>1, <4>2, <4>3, <4>4, <4>5
    <3> QED BY <3>1, <3>2
  <2> QED BY <1>3, <2>1 DEF AnswersAreOfEffects
<1> QED BY <1>3, <1>6, <1>7
        DEF RequestsInv, RetriesTakeEffectOnce, EffectsAreApart,
            RecordsAreOfEffects, EffectsAreRecorded, Recorded

LEMMA PerformInv ==
  ASSUME RequestsInv, NEW r \in Arrivals, Perform(r)
  PROVE  RequestsInv'
<1>1. RequestsTypeOK /\ mutation[r].step # "UNSENT"
  BY DEF RequestsInv, RetriesTakeEffectOnce, Perform, StepIs
<1> DEFINE k == KeyOf(r)
           n == mutation[r].now
<1>2. PICK outcome \in Decisions :
        /\ record' = Remembered(r, outcome)
        /\ effect' = effect \cup
             {[by |-> r, key |-> k, input |-> mutation[r].input,
               outcome |-> outcome, now |-> n]}
        /\ Answers(r, outcome)
  BY DEF Perform
<1> DEFINE done == [by |-> r, key |-> k, input |-> mutation[r].input,
                    outcome |-> outcome, now |-> n]
<1>3. /\ k \in Keys /\ n \in 0 .. MaxClock /\ mutation[r].input \in Inputs
      /\ outcome \in RequestSteps
  BY <1>1, BegunType DEF RequestSteps, Decisions, Answered
<1>4. /\ KeyOf(r)' = k /\ mutation'[r].step = outcome
      /\ mutation'[r].input = mutation[r].input /\ mutation'[r].now = n
      /\ \A q \in Arrivals \ {r} : mutation'[q] = mutation[q]
      /\ mutation' \in [Arrivals -> {Fresh} \cup RequestRecords]
  BY <1>1, <1>2, <1>3, AnswerType, BegunType
<1>5. /\ \A l \in Keys \ {k} : record'[l] = record[l]
      /\ record'[k] = [kept |-> TRUE, input |-> mutation[r].input,
                       outcome |-> outcome, since |-> n]
      /\ record' \in [Keys -> {NoRecord} \cup
           [kept : {TRUE}, input : Inputs, outcome : Decisions,
            since : 0 .. MaxClock]]
  BY <1>1, <1>2, <1>3 DEF Remembered, RequestsTypeOK
\* What was done under the key is a whole retention away.
<1>6. ASSUME NEW e \in effect, e.key = k
      PROVE  e.now \in Nat /\ n >= e.now + Retention
  <2>1. Recorded(k) /\ e.now <= record[k].since
    BY <1>6 DEF RequestsInv, EffectsAreRecorded
  <2>2. Expired(r)
    BY <2>1 DEF Perform
  <2>3. record[k].since \in Nat
    BY <1>1, <1>3, <2>1, RecordType, RequestsAssumption
  <2>4. e.now \in Nat
    BY <1>1, RequestsAssumption DEF RequestsTypeOK
  <2> QED BY <1>3, <2>1, <2>2, <2>3, <2>4, RequestsAssumption
          DEF Expired
<1>7. RequestsTypeOK'
  <2>1. done \in [by : Arrivals, key : Keys, input : Inputs,
                  outcome : Decisions, now : 0 .. MaxClock]
    BY <1>3
  <2>2. lockedBy' \in [Actors -> Arrivals \cup {Nobody}]
    BY <1>1, BegunType DEF Perform
  <2> QED BY <1>1, <1>2, <1>4, <1>5, <2>1, <2>2 DEF RequestsTypeOK, Perform
<1>. HIDE DEF k, n
<1>8. EffectsAreApart'
  <2>1. ASSUME NEW e \in effect', NEW f \in effect', e # f, e.key = f.key
        PROVE  Apart(e.now, f.now)
    <3>1. CASE e \in effect /\ f \in effect
      BY <2>1, <3>1 DEF RequestsInv, RetriesTakeEffectOnce, EffectsAreApart
    <3>2. CASE e \in effect /\ f = done
      BY <1>6, <2>1, <3>2 DEF Apart
    <3>3. CASE e = done /\ f \in effect
      BY <1>6, <2>1, <3>3 DEF Apart
    <3> QED BY <1>2, <2>1, <3>1, <3>2, <3>3
  <2> QED BY <2>1 DEF EffectsAreApart, Apart
<1>9. AnswersAreOfEffects'
  <2>1. ASSUME NEW q \in Arrivals, mutation'[q].step \in Decisions
        PROVE  \E e \in effect' :
                 /\ e.key = KeyOf(q)' /\ e.input = mutation'[q].input
                 /\ e.outcome = mutation'[q].step
                 /\ mutation'[q].now < e.now + Retention
    <3>1. CASE q # r
      BY <1>2, <1>4, <2>1, <3>1
         DEF RequestsInv, RetriesTakeEffectOnce, AnswersAreOfEffects, KeyOf
    <3>2. CASE q = r
      <4>1. done \in effect' /\ n < done.now + Retention
        BY <1>2, <1>3, RequestsAssumption
      <4> QED BY <1>4, <3>2, <4>1
    <3> QED BY <3>1, <3>2
  <2> QED BY <2>1 DEF AnswersAreOfEffects
<1>10. RecordsAreOfEffects'
  <2>1. ASSUME NEW l \in Keys, Recorded(l)'
        PROVE  \E e \in effect' :
                 /\ e.key = l /\ e.input = record'[l].input
                 /\ e.outcome = record'[l].outcome /\ e.now = record'[l].since
    <3>1. CASE l = k
      <4>1. /\ done \in effect'
            /\ done.key = k /\ done.input = record'[k].input
            /\ done.outcome = record'[k].outcome
            /\ done.now = record'[k].since
        BY <1>2, <1>5
      <4> QED BY <3>1, <4>1
    <3>2. CASE l # k
      BY <1>2, <1>5, <2>1, <3>2 DEF RequestsInv, RecordsAreOfEffects, Recorded
    <3> QED BY <3>1, <3>2
  <2> QED BY <2>1 DEF RecordsAreOfEffects
<1>11. EffectsAreRecorded'
  <2>1. ASSUME NEW e \in effect'
        PROVE  Recorded(e.key)' /\ e.now <= record'[e.key].since
    <3>1. CASE e = done
      BY <1>3, <1>5, <3>1, RequestsAssumption DEF Recorded
    <3>2. CASE e \in effect /\ e.key = k
      BY <1>3, <1>5, <1>6, <3>2, RequestsAssumption DEF Recorded
    <3>3. CASE e \in effect /\ e.key # k
      <4>1. e.key \in Keys
        BY <1>1, <3>3 DEF RequestsTypeOK
      <4> QED BY <1>5, <3>3, <4>1
              DEF RequestsInv, EffectsAreRecorded, Recorded
    <3> QED BY <1>2, <3>1, <3>2, <3>3
  <2> QED BY <2>1 DEF EffectsAreRecorded
<1> QED BY <1>7, <1>8, <1>9, <1>10, <1>11
        DEF RequestsInv, RetriesTakeEffectOnce

LEMMA RequestsStepInv ==
  RequestsInv /\ [RequestsNext]_requestVars => RequestsInv'
<1>1. SUFFICES ASSUME RequestsInv, [RequestsNext]_requestVars
               PROVE  RequestsInv'
  OBVIOUS
<1>2. ASSUME NEW r \in Arrivals, NEW k \in Keys, NEW i \in Inputs,
             Arrive(r, k, i)
      PROVE  RequestsInv'
  BY <1>1, <1>2, ArriveInv
<1>3. ASSUME NEW r \in Arrivals, RequestStep(r)
      PROVE  RequestsInv'
  BY <1>1, <1>3, LockActiveActorInv, ReplayInv, PerformInv, FailInv,
     AuditFailureInv DEF RequestStep
<1>4. ASSUME UNCHANGED <<record, mutation, effect>>, RequestsTypeOK'
      PROVE  RequestsInv'
  BY <1>1, <1>4, PlainStep
<1>5. ASSUME NEW a \in Actors, SuspendActor(a) \/ ReactivateActor(a)
      PROVE  RequestsInv'
  <2>1. RequestsTypeOK'
    BY <1>1, <1>5
       DEF RequestsInv, RetriesTakeEffectOnce, RequestsTypeOK, SuspendActor,
           ReactivateActor
  <2> QED BY <1>4, <1>5, <2>1 DEF SuspendActor, ReactivateActor
<1>6. CASE PassTime
  <2>1. clock' \in 0 .. MaxClock
    BY <1>1, <1>6, RequestsAssumption
       DEF RequestsInv, RetriesTakeEffectOnce, RequestsTypeOK, PassTime
  <2>2. RequestsTypeOK'
    BY <1>1, <1>6, <2>1
       DEF RequestsInv, RetriesTakeEffectOnce, RequestsTypeOK, PassTime
  <2> QED BY <1>4, <1>6, <2>2 DEF PassTime
<1>7. CASE UNCHANGED requestVars
  <2>1. RequestsTypeOK'
    BY <1>1, <1>7
       DEF RequestsInv, RetriesTakeEffectOnce, RequestsTypeOK, requestVars
  <2> QED BY <1>4, <1>7, <2>1 DEF requestVars
<1> QED BY <1>1, <1>2, <1>3, <1>5, <1>6, <1>7 DEF RequestsNext

(* However many arrivals carry one idempotency key, whenever they began    *)
(* and however they wait, fail or find their actor suspended: two effects  *)
(* of the key are a whole retention apart, and whoever is told a decision  *)
(* is told that of an effect with the same input (lockIdempotencyKey and   *)
(* the record written by the transaction of the mutation).                 *)
THEOREM RetriesAreIdempotent == RequestsSpec => []RetriesTakeEffectOnce
<1>1. RequestsInv => RetriesTakeEffectOnce
  BY DEF RequestsInv
<1> QED BY <1>1, RequestsInitInv, RequestsStepInv, PTL DEF RequestsSpec

----------------------------------------------------------------------------
(* Rebuilds: what is known of the running workflow and of its data.        *)

\* Attempts are started one after the other.
Begun == {e \in Rebuilds : rebuild[e] # "NONE"}
Unreopened == {"STARTED", "REPLACING", "VERIFYING", "VERIFIED"}

\* Whatever replaced the data, the marketplace may be opened on it.
OpenableData == Verified \/ baseline \in unheard \/ FellBack

\* The lease has its two sides; a dispatch is numbered by those before it,
\* and what is known of an attempt is about one that was started.
AttemptsAreNumbered ==
  /\ lease \in [exclusive : BOOLEAN, shared : SUBSET Writers]
  /\ Begun = 1 .. Cardinality(Begun)
  /\ authorized \subseteq Begun /\ baseline \in {0} \cup Begun
  /\ maintenance.generation <= Cardinality(Begun)

\* The running workflow is that of the last attempt.  Until it reopens the
\* marketplace is closed and the attempt has not ended; an attempt that failed
\* has not ended either, unless it did not hear of its own reopening.
WorkflowIsOfLast ==
  /\ ~Step("NONE") => Attempt = Cardinality(Begun)
  /\ workflow.step \in Unreopened =>
       /\ Is("REBUILDING") /\ maintenance.generation < Attempt
       /\ rebuild[Attempt] = "STARTED"
  /\ Step("FAILED") => rebuild[Attempt] = "STARTED" \/ Attempt \in unheard

\* The attempt remembers that it replaced the data, or did not hear of it, and
\* before it did a routine one is the successor of data that may be open.
ReplacementIsRemembered ==
  /\ workflow.step \in {"VERIFYING", "VERIFIED"} => baseline = Attempt
  /\ ~Step("NONE") /\ baseline = Attempt =>
       workflow.committed \/ Attempt \in unheard
  /\ ~Step("NONE") /\ Attempt \notin authorized /\ baseline # Attempt =>
       OpenableData

MaintenanceInv ==
  /\ MaintenanceTypeOK /\ OpenDataIsVerified /\ EndsAreAudited
  /\ AttemptsAreNumbered /\ WorkflowIsOfLast /\ ReplacementIsRemembered

LEMMA MaintenanceInitInv == MaintenanceInit => MaintenanceInv
<1>1. SUFFICES ASSUME MaintenanceInit PROVE MaintenanceInv
  OBVIOUS
<1>2. Begun = {} /\ Cardinality({}) = 0 /\ 1 .. 0 = {}
  BY <1>1, FS_EmptySet DEF Begun, MaintenanceInit
<1>3. MaintenanceTypeOK /\ OpenDataIsVerified
  <2>1. /\ maintenance \in
             [state : {"AVAILABLE", "REBUILDING", "INDETERMINATE"},
              holder : 0 .. Smoke, generation : 0 .. MaxRebuilds]
        /\ Is("AVAILABLE") /\ maintenance.holder = 0
    BY <1>1, MaintenanceAssumption DEF MaintenanceInit, Available, Smoke, Is
  <2>2. /\ workflow \in
             [step : WorkflowSteps, attempt : 0 .. MaxRebuilds,
              committed : BOOLEAN]
        /\ Step("NONE") /\ ~Step("REPLACING") /\ Attempt = 0
    BY <1>1, MaintenanceAssumption
       DEF MaintenanceInit, Queued, WorkflowSteps, Step, Attempt
  <2>3. /\ ~lease.exclusive /\ lease.shared = {}
        /\ {w \in Writers : writer[w] = "WRITING"} = {}
    BY <1>1, Zenon DEF MaintenanceInit, Free
  <2>4. /\ rebuild \in [Rebuilds -> RebuildStates]
        /\ terminal \in [Rebuilds -> SUBSET RebuildOutcomes]
        /\ writer \in [Writers -> {"IDLE", "ADMITTED", "WRITING"}]
        /\ baseline \in 0 .. MaxRebuilds
        /\ authorized \subseteq Rebuilds /\ unheard \subseteq Rebuilds
    BY <1>1, MaintenanceAssumption DEF MaintenanceInit, RebuildStates
  <2>6. vouched \in BOOLEAN
    BY <1>1, Zenon DEF MaintenanceInit
  <2>5. Verified
    BY <1>1 DEF MaintenanceInit, Verified
  <2> QED BY <2>1, <2>2, <2>3, <2>4, <2>5, <2>6
          DEF MaintenanceTypeOK, OpenDataIsVerified
<1>4. EndsAreAudited
  BY <1>1, FS_EmptySet DEF MaintenanceInit, EndsAreAudited, RebuildOutcomes
<1> QED BY <1>1, <1>2, <1>3, <1>4, MaintenanceAssumption
        DEF MaintenanceInv, AttemptsAreNumbered, WorkflowIsOfLast, Unreopened,
            ReplacementIsRemembered, MaintenanceInit, Available, Queued, Free,
            Step

\* The attempt of the running workflow was started, and is the last.
LEMMA RunningAttempt ==
  ASSUME MaintenanceInv, ~Step("NONE")
  PROVE  Attempt \in Begun /\ Attempt \in Rebuilds /\ Attempt # 0
<1>1. Attempt \in 0 .. MaxRebuilds /\ Attempt # 0
  BY DEF MaintenanceInv, MaintenanceTypeOK, Attempt
<1>2. Attempt = Cardinality(Begun) /\ Begun = 1 .. Cardinality(Begun)
  BY DEF MaintenanceInv, AttemptsAreNumbered, WorkflowIsOfLast
<1> QED BY <1>1, <1>2, MaintenanceAssumption DEF Rebuilds

\* A step that starts no attempt leaves the numbering as it is.
LEMMA SameAttempts ==
  ASSUME MaintenanceInv, UNCHANGED authorized,
         \/ UNCHANGED rebuild
         \/ /\ ~Step("NONE")
            /\ \E outcome \in RebuildOutcomes :
                 rebuild' = [rebuild EXCEPT ![Attempt] = outcome],
         \/ UNCHANGED baseline
         \/ ~Step("NONE") /\ baseline' = Attempt,
         lease' \in [exclusive : BOOLEAN, shared : SUBSET Writers],
         maintenance'.generation <= Cardinality(Begun)
  PROVE  AttemptsAreNumbered' /\ Begun' = Begun
<1>1. Begun' = Begun
  BY RunningAttempt
     DEF MaintenanceInv, MaintenanceTypeOK, Begun, RebuildOutcomes
<1> QED BY <1>1, RunningAttempt DEF MaintenanceInv, AttemptsAreNumbered

\* How many attempts were started is a number.
LEMMA StartedNumber ==
  Cardinality(Begun) \in 0 .. MaxRebuilds
<1>1. IsFiniteSet(Rebuilds) /\ Cardinality(Rebuilds) = MaxRebuilds
  BY FS_Interval, MaintenanceAssumption DEF Rebuilds
<1>2. Begun \subseteq Rebuilds
  BY DEF Begun
<1>3. IsFiniteSet(Begun) /\ Cardinality(Begun) <= Cardinality(Rebuilds)
  BY <1>1, <1>2, FS_Subset
<1>4. Cardinality(Begun) \in Nat
  BY <1>3, FS_CardinalityType
<1> QED BY <1>1, <1>3, <1>4, MaintenanceAssumption

LEMMA StartRebuildInv ==
  ASSUME MaintenanceInv, NEW d \in Rebuilds,
         NEW expected \in {"AVAILABLE", "INDETERMINATE"},
         StartRebuild(d, expected)
  PROVE  MaintenanceInv'
<1> DEFINE last == Cardinality(Begun)
<1>1. /\ d = last + 1 /\ Begun = 1 .. last
      /\ last \in Nat /\ last < MaxRebuilds
  <2>1. d = last + 1
    BY DEF StartRebuild, Begun
  <2>2. Begun = 1 .. last /\ d \in 1 .. MaxRebuilds
    BY DEF MaintenanceInv, AttemptsAreNumbered, Rebuilds
  <2> QED BY <2>1, <2>2, StartedNumber, MaintenanceAssumption
<1>2. rebuild[d] = "NONE"
  <2>1. d \notin Begun
    BY <1>1
  <2> QED BY <2>1 DEF Begun
<1>4. MaintenanceTypeOK
  BY DEF MaintenanceInv
<1>3. /\ maintenance' = [state |-> "REBUILDING", holder |-> d,
                         generation |-> maintenance.generation]
      /\ rebuild' = [rebuild EXCEPT ![d] = "STARTED"]
      /\ workflow' = [step |-> "STARTED", attempt |-> d, committed |-> FALSE]
      /\ authorized' = IF expected = "INDETERMINATE"
                       THEN authorized \cup {d} ELSE authorized
      /\ UNCHANGED <<terminal, lease, writer, baseline, vouched, unheard>>
      /\ Step("NONE") /\ maintenance.state = expected
  BY DEF StartRebuild, Turns, Is
<1>5. Begun' = 1 .. (last + 1) /\ Cardinality(Begun') = last + 1
  <2>1. Begun' = Begun \cup {d}
    BY <1>1, <1>3, <1>4 DEF Begun, MaintenanceTypeOK
  <2>2. Begun' = 1 .. (last + 1)
    BY <1>1, <2>1
  <2> QED BY <1>1, <2>2, FS_Interval
<1>. HIDE DEF last
<1>6. MaintenanceTypeOK'
  <2>1. /\ maintenance' \in
             [state : {"AVAILABLE", "REBUILDING", "INDETERMINATE"},
              holder : 0 .. Smoke, generation : 0 .. MaxRebuilds]
        /\ maintenance'.state = "REBUILDING" /\ maintenance'.holder # 0
    BY <1>1, <1>3, <1>4, MaintenanceAssumption DEF MaintenanceTypeOK, Smoke
  <2>2. /\ workflow' \in
             [step : WorkflowSteps, attempt : 0 .. MaxRebuilds,
              committed : BOOLEAN]
        /\ workflow'.step = "STARTED" /\ workflow'.attempt # 0
    BY <1>1, <1>3, MaintenanceAssumption DEF WorkflowSteps
  <2>3. /\ rebuild' \in [Rebuilds -> RebuildStates]
        /\ authorized' \subseteq Rebuilds
    BY <1>3, <1>4 DEF MaintenanceTypeOK, RebuildStates
  <2>4. ~lease.exclusive
    BY <1>3, <1>4 DEF MaintenanceTypeOK, Step
  <2> QED BY <1>3, <1>4, <2>1, <2>2, <2>3, <2>4
          DEF MaintenanceTypeOK, Is, Step, Attempt
<1>7. OpenDataIsVerified'
  BY <1>3, <1>4 DEF OpenDataIsVerified, Is, MaintenanceTypeOK
<1>8. EndsAreAudited'
  BY <1>2, <1>3, <1>4
     DEF MaintenanceInv, EndsAreAudited, MaintenanceTypeOK, RebuildOutcomes
<1>9. AttemptsAreNumbered'
  <2>1. maintenance'.generation \in Nat /\ maintenance'.generation <= last + 1
    BY <1>1, <1>3, <1>4, MaintenanceAssumption
       DEF last, MaintenanceInv, AttemptsAreNumbered, MaintenanceTypeOK
  <2> QED BY <1>1, <1>3, <1>5, <2>1
          DEF last, MaintenanceInv, AttemptsAreNumbered
<1>10. WorkflowIsOfLast'
  <2>1. maintenance'.generation = maintenance.generation
        /\ maintenance'.state = "REBUILDING"
        /\ maintenance.generation \in Nat
    BY <1>3, <1>4 DEF MaintenanceTypeOK
  <2>2. maintenance.generation < d
    BY <1>1, <2>1 DEF last, MaintenanceInv, AttemptsAreNumbered
  <2> QED BY <1>1, <1>3, <1>4, <1>5, <2>1, <2>2
          DEF WorkflowIsOfLast, Is, Step, Attempt, MaintenanceTypeOK
<1>11. ReplacementIsRemembered'
  <2>1. baseline # d
    BY <1>1 DEF MaintenanceInv, AttemptsAreNumbered
  <2>2. CASE expected = "AVAILABLE"
    <3>1. OpenableData
      BY <1>3, <2>2 DEF MaintenanceInv, OpenDataIsVerified, OpenableData, Is
    <3>2. ASSUME NEW e \in Rebuilds, rebuild[e] \in RebuildOutcomes
          PROVE  rebuild'[e] = rebuild[e]
      BY <1>2, <1>3, <1>4, <3>2 DEF RebuildOutcomes, MaintenanceTypeOK
    <3>3. OpenableData'
      BY <1>3, <1>4, <2>2, <3>1, <3>2
         DEF OpenableData, Verified, FellBack, RebuildOutcomes,
             MaintenanceTypeOK, Rebuilds
    <3> QED BY <1>3, <2>1, <3>3 DEF ReplacementIsRemembered, Step, Attempt
  <2>3. CASE expected = "INDETERMINATE"
    <3>1. d \in authorized'
      BY <2>3 DEF StartRebuild
    <3> QED BY <1>3, <2>1, <3>1 DEF ReplacementIsRemembered, Step, Attempt
  <2> QED BY <2>2, <2>3
<1> QED BY <1>6, <1>7, <1>8, <1>9, <1>10, <1>11 DEF MaintenanceInv

\* Data that may be open stays so while its attempts keep their outcomes.
LEMMA OpenableDataStays ==
  ASSUME OpenableData, UNCHANGED <<baseline, vouched, authorized>>,
         unheard \subseteq unheard', authorized \subseteq Rebuilds,
         baseline \in {0} \cup Rebuilds,
         \A e \in Rebuilds :
           \/ rebuild'[e] = rebuild[e]
           \/ rebuild[e] \notin {"COMPLETED", "ROLLED_BACK"}
           \/ e # baseline /\ e \notin authorized
  PROVE  OpenableData'
<1>1. CASE baseline = 0 \/ vouched \/ baseline \in unheard
  BY <1>1 DEF OpenableData, Verified
<1>2. CASE baseline # 0 /\ rebuild[baseline] = "COMPLETED"
  BY <1>2 DEF OpenableData, Verified
<1>3. CASE FellBack
  BY <1>3 DEF OpenableData, FellBack
<1> QED BY <1>1, <1>2, <1>3 DEF OpenableData, Verified

\* A step of the workflow or of a writer that no row is changed by.
LEMMA QuietStep ==
  ASSUME MaintenanceInv, MaintenanceTypeOK',
         UNCHANGED <<maintenance, rebuild, terminal, baseline, vouched,
                     authorized, unheard>>,
         lease' \in [exclusive : BOOLEAN, shared : SUBSET Writers],
         workflow'.step # "NONE" =>
           /\ workflow.step # "NONE"
           /\ workflow'.attempt = workflow.attempt
           /\ workflow'.committed = workflow.committed,
         workflow'.step \in Unreopened => workflow.step \in Unreopened,
         workflow'.step \in {"VERIFYING", "VERIFIED"} =>
           workflow.step \in {"VERIFYING", "VERIFIED"},
         workflow'.step = "FAILED" => workflow.step \in Unreopened \cup {"FAILED"}
  PROVE  MaintenanceInv'
<1>1. OpenDataIsVerified'
  BY DEF MaintenanceInv, OpenDataIsVerified, Is, Verified, FellBack
<1>2. EndsAreAudited'
  BY DEF MaintenanceInv, EndsAreAudited
<1>3. Begun' = Begun
  BY DEF Begun
<1>4. AttemptsAreNumbered'
  BY <1>3 DEF MaintenanceInv, AttemptsAreNumbered
<1>5. WorkflowIsOfLast'
  <2>1. workflow'.step # "NONE" => workflow'.attempt = Cardinality(Begun')
    BY <1>3 DEF MaintenanceInv, WorkflowIsOfLast, Step, Attempt
  <2>2. workflow'.step \in Unreopened =>
          /\ maintenance'.state = "REBUILDING"
          /\ maintenance'.generation < workflow'.attempt
          /\ rebuild'[workflow'.attempt] = "STARTED"
    BY DEF MaintenanceInv, WorkflowIsOfLast, Unreopened, Step, Attempt, Is
  <2>3. workflow'.step = "FAILED" =>
          \/ rebuild'[workflow'.attempt] = "STARTED"
          \/ workflow'.attempt \in unheard'
    BY DEF MaintenanceInv, WorkflowIsOfLast, Unreopened, Step, Attempt, Is
  <2> QED BY <2>1, <2>2, <2>3 DEF WorkflowIsOfLast, Step, Attempt, Is
<1>6. OpenableData' = OpenableData
  BY DEF OpenableData, Verified, FellBack
<1>7. ReplacementIsRemembered'
  BY <1>6 DEF MaintenanceInv, ReplacementIsRemembered, Step, Attempt
<1> QED BY <1>1, <1>2, <1>4, <1>5, <1>7 DEF MaintenanceInv

LEMMA GoesStep ==
  ASSUME MaintenanceTypeOK, NEW step \in WorkflowSteps \ {"NONE"},
         ~Step("NONE"), Goes(step)
  PROVE  /\ workflow' \in [step : WorkflowSteps, attempt : 0 .. MaxRebuilds,
                           committed : BOOLEAN]
         /\ workflow'.step = step /\ workflow'.attempt = workflow.attempt
         /\ workflow'.committed = workflow.committed
         /\ workflow'.attempt # 0
BY DEF MaintenanceTypeOK, Goes, Step, Attempt

LEMMA QuietWorkflowInv ==
  ASSUME MaintenanceInv,
         TakeLease \/ FailAttempt \/ VerifyReadiness \/ PassSmoke
           \/ StopWorkflow
  PROVE  MaintenanceInv'
<1>1. MaintenanceTypeOK /\ lease \in [exclusive : BOOLEAN, shared : SUBSET Writers]
  BY DEF MaintenanceInv, AttemptsAreNumbered
<1>2. ASSUME EndsWorkflow, UNCHANGED <<maintenance, rebuild, terminal, writer,
               baseline, vouched, authorized, unheard>>,
             lease' \in [exclusive : BOOLEAN, shared : SUBSET Writers],
             ~lease'.exclusive, lease'.shared = lease.shared
      PROVE  MaintenanceInv'
  <2>1. /\ workflow' \in [step : WorkflowSteps, attempt : 0 .. MaxRebuilds,
                          committed : BOOLEAN]
        /\ workflow'.step = "NONE" /\ workflow'.attempt = 0
    BY <1>2, MaintenanceAssumption DEF EndsWorkflow, Queued, WorkflowSteps
  <2>2. MaintenanceTypeOK'
    BY <1>1, <1>2, <2>1 DEF MaintenanceTypeOK, Is, Step, Attempt
  <2> QED BY <1>2, <2>1, <2>2, QuietStep DEF Unreopened
<1>3. ASSUME NEW step \in {"REPLACING", "FAILED", "VERIFIED"}, Goes(step),
             UNCHANGED <<maintenance, rebuild, terminal, writer, baseline,
               vouched, authorized, unheard>>,
             lease' \in [exclusive : BOOLEAN, shared : SUBSET Writers],
             lease'.exclusive <=> step = "REPLACING",
             lease'.shared = lease.shared,
             step = "REPLACING" => lease.shared = {},
             workflow.step \in Unreopened,
             step = "VERIFIED" => workflow.step = "VERIFYING"
      PROVE  MaintenanceInv'
  <2>1. step \in WorkflowSteps \ {"NONE"} /\ ~Step("NONE")
    BY <1>3 DEF WorkflowSteps, Unreopened, Step
  <2>2. MaintenanceTypeOK'
    BY <1>1, <1>3, <2>1, GoesStep DEF MaintenanceTypeOK, Is, Step, Attempt
  <2> QED BY <1>1, <1>3, <2>1, <2>2, GoesStep, QuietStep DEF Step
<1>4. CASE TakeLease
  BY <1>1, <1>3, <1>4 DEF TakeLease, Unreopened, Step
<1>5. CASE FailAttempt
  BY <1>1, <1>3, <1>5 DEF FailAttempt, Unreopened
<1>6. CASE VerifyReadiness
  BY <1>1, <1>3, <1>6 DEF VerifyReadiness, Unreopened, Step, MaintenanceTypeOK
<1>7. CASE PassSmoke
  BY <1>1, <1>2, <1>7 DEF PassSmoke, Step, MaintenanceTypeOK
<1>8. CASE StopWorkflow
  BY <1>1, <1>2, <1>8 DEF StopWorkflow
<1> QED BY <1>4, <1>5, <1>6, <1>7, <1>8

LEMMA WriterInv ==
  ASSUME MaintenanceInv, NEW w \in Writers,
         AdmitWrite(w) \/ ShareLease(w) \/ EndWrite(w)
  PROVE  MaintenanceInv'
<1>1. MaintenanceTypeOK /\ lease \in [exclusive : BOOLEAN, shared : SUBSET Writers]
  BY DEF MaintenanceInv, AttemptsAreNumbered
<1>2. /\ writer' \in [Writers -> {"IDLE", "ADMITTED", "WRITING"}]
      /\ lease' \in [exclusive : BOOLEAN, shared : SUBSET Writers]
      /\ lease'.exclusive = lease.exclusive
      /\ lease'.exclusive => lease'.shared = {}
      /\ UNCHANGED <<maintenance, rebuild, terminal, workflow, baseline,
                     vouched, authorized, unheard>>
  BY <1>1 DEF AdmitWrite, ShareLease, EndWrite, MaintenanceTypeOK
<1>3. lease'.shared = {v \in Writers : writer'[v] = "WRITING"}
  BY <1>1 DEF AdmitWrite, ShareLease, EndWrite, MaintenanceTypeOK
<1>4. MaintenanceTypeOK'
  BY <1>1, <1>2, <1>3 DEF MaintenanceTypeOK, Is, Step, Attempt
<1> QED BY <1>2, <1>4, QuietStep

LEMMA ReplaceMutableStateInv ==
  ASSUME MaintenanceInv, ReplaceMutableState
  PROVE  MaintenanceInv'
<1>1. /\ MaintenanceTypeOK
      /\ lease \in [exclusive : BOOLEAN, shared : SUBSET Writers]
      /\ workflow.step = "REPLACING" /\ ~Step("NONE")
  BY DEF MaintenanceInv, AttemptsAreNumbered, ReplaceMutableState, Step
<1>2. /\ Attempt \in Rebuilds /\ Attempt \in Begun /\ Attempt # 0
      /\ Is("REBUILDING") /\ maintenance.generation < Attempt
      /\ rebuild[Attempt] = "STARTED"
  BY <1>1, RunningAttempt DEF MaintenanceInv, WorkflowIsOfLast, Unreopened
<1>3. /\ baseline' = Attempt /\ vouched' = FALSE
      /\ lease' = [lease EXCEPT !.exclusive = FALSE]
      /\ UNCHANGED <<maintenance, rebuild, terminal, writer, authorized>>
  BY DEF ReplaceMutableState
<1>4. /\ workflow' \in [step : WorkflowSteps, attempt : 0 .. MaxRebuilds,
                        committed : BOOLEAN]
      /\ workflow'.attempt = Attempt
      /\ workflow'.step \in {"VERIFYING", "FAILED"}
      /\ workflow'.step = "VERIFYING" =>
           workflow'.committed = TRUE /\ unheard' = unheard
      /\ workflow'.step = "FAILED" => unheard' = unheard \cup {Attempt}
  <2>1. CASE workflow' =
               [step |-> "VERIFYING", attempt |-> Attempt, committed |-> TRUE]
             /\ UNCHANGED unheard
    BY <1>1, <2>1 DEF MaintenanceTypeOK, WorkflowSteps, Attempt
  <2>2. CASE Goes("FAILED") /\ unheard' = unheard \cup {Attempt}
    BY <1>1, <2>2, GoesStep DEF WorkflowSteps, Attempt
  <2> QED BY <2>1, <2>2 DEF ReplaceMutableState
<1>5. unheard \subseteq unheard' /\ unheard' \subseteq Rebuilds
  BY <1>1, <1>2, <1>4 DEF MaintenanceTypeOK
<1>6. MaintenanceTypeOK'
  BY <1>1, <1>2, <1>3, <1>4, <1>5, MaintenanceAssumption
     DEF MaintenanceTypeOK, Is, Step, Attempt, Rebuilds
<1>7. OpenDataIsVerified'
  BY <1>2, <1>3 DEF OpenDataIsVerified, Is
<1>8. EndsAreAudited'
  BY <1>3, <1>5 DEF MaintenanceInv, EndsAreAudited
<1>9. Begun' = Begun
  BY <1>3 DEF Begun
<1>10. AttemptsAreNumbered'
  BY <1>1, <1>2, <1>3, <1>9 DEF MaintenanceInv, AttemptsAreNumbered
<1>11. WorkflowIsOfLast'
  BY <1>1, <1>2, <1>3, <1>4, <1>9
     DEF MaintenanceInv, WorkflowIsOfLast, Is, Step, Attempt, Unreopened
<1>12. ReplacementIsRemembered'
  BY <1>3, <1>4 DEF ReplacementIsRemembered, Step, Attempt
<1> QED BY <1>6, <1>7, <1>8, <1>10, <1>11, <1>12 DEF MaintenanceInv

\* An attempt that had not ended, or did not hear that it had, ends.
LEMMA EndsAttemptAudited ==
  ASSUME MaintenanceInv, ~Step("NONE"), NEW outcome \in RebuildOutcomes,
         EndsAttempt(Attempt, outcome), unheard \subseteq unheard',
         rebuild[Attempt] = "STARTED" \/ Attempt \in unheard
  PROVE  /\ EndsAreAudited'
         /\ rebuild' \in [Rebuilds -> RebuildStates]
         /\ terminal' \in [Rebuilds -> SUBSET RebuildOutcomes]
         /\ rebuild'[Attempt] = outcome
         /\ \A e \in Rebuilds \ {Attempt} : rebuild'[e] = rebuild[e]
         /\ Begun' = Begun
<1>1. MaintenanceTypeOK /\ EndsAreAudited
  BY DEF MaintenanceInv
<1>2. Attempt \in Rebuilds /\ Attempt \in Begun
  BY RunningAttempt
<1>3. /\ rebuild' = [rebuild EXCEPT ![Attempt] = outcome]
      /\ terminal' = [terminal EXCEPT ![Attempt] = @ \cup {outcome}]
  BY DEF EndsAttempt
<1>4. /\ rebuild' \in [Rebuilds -> RebuildStates]
      /\ terminal' \in [Rebuilds -> SUBSET RebuildOutcomes]
      /\ rebuild'[Attempt] = outcome
      /\ terminal'[Attempt] = terminal[Attempt] \cup {outcome}
      /\ \A e \in Rebuilds \ {Attempt} :
           rebuild'[e] = rebuild[e] /\ terminal'[e] = terminal[e]
  BY <1>1, <1>2, <1>3 DEF MaintenanceTypeOK, RebuildStates
<1>5. Begun' = Begun
  BY <1>2, <1>4 DEF Begun, RebuildOutcomes
<1>6. ASSUME NEW d \in Rebuilds
      PROVE  /\ rebuild'[d] \in RebuildOutcomes <=> terminal'[d] # {}
             /\ d \notin unheard' => Cardinality(terminal'[d]) <= 1
  <2>1. CASE d # Attempt
    BY <1>1, <1>4, <2>1 DEF EndsAreAudited
  <2>2. CASE d = Attempt
    <3>1. ASSUME d \notin unheard'
          PROVE  Cardinality(terminal'[d]) <= 1
      <4>1. rebuild[Attempt] \notin RebuildOutcomes
        BY <2>2, <3>1 DEF RebuildOutcomes
      <4>2. terminal[Attempt] = {}
        BY <1>1, <1>2, <4>1 DEF EndsAreAudited
      <4>3. terminal'[d] = {outcome}
        BY <1>4, <2>2, <4>2
      <4>4. Cardinality({outcome}) = 1
        BY FS_Singleton
      <4> QED BY <4>3, <4>4
    <3> QED BY <1>4, <2>2, <3>1
  <2> QED BY <2>1, <2>2
<1> QED BY <1>4, <1>5, <1>6 DEF EndsAreAudited

LEMMA ReopenInv ==
  ASSUME MaintenanceInv, Reopen
  PROVE  MaintenanceInv'
<1>1. /\ MaintenanceTypeOK
      /\ lease \in [exclusive : BOOLEAN, shared : SUBSET Writers]
      /\ workflow.step = "VERIFIED" /\ ~Step("NONE")
  BY DEF MaintenanceInv, AttemptsAreNumbered, Reopen, Step
<1>2. /\ Attempt \in Rebuilds /\ Attempt \in Begun /\ Attempt # 0
      /\ maintenance.generation < Attempt /\ rebuild[Attempt] = "STARTED"
      /\ Attempt = Cardinality(Begun) /\ baseline = Attempt
  BY <1>1, RunningAttempt
     DEF MaintenanceInv, WorkflowIsOfLast, Unreopened, ReplacementIsRemembered
<1>3. /\ maintenance' = [state |-> "AVAILABLE", holder |-> 0,
                         generation |-> maintenance.generation + 1]
      /\ UNCHANGED <<lease, writer, baseline, vouched, authorized>>
      /\ EndsAttempt(Attempt, "COMPLETED")
  BY DEF Reopen
<1>4. /\ workflow' \in [step : WorkflowSteps, attempt : 0 .. MaxRebuilds,
                        committed : BOOLEAN]
      /\ workflow'.attempt = Attempt
      /\ workflow'.committed = workflow.committed
      /\ workflow'.step \in {"SMOKE", "FAILED"}
      /\ unheard' \in {unheard, unheard \cup {Attempt}}
      /\ workflow'.step = "FAILED" => Attempt \in unheard'
  BY <1>1, GoesStep DEF Reopen, WorkflowSteps, Attempt
<1>5. unheard \subseteq unheard' /\ unheard' \subseteq Rebuilds
  BY <1>1, <1>2, <1>4 DEF MaintenanceTypeOK
<1>6. /\ EndsAreAudited' /\ rebuild'[Attempt] = "COMPLETED"
      /\ rebuild' \in [Rebuilds -> RebuildStates]
      /\ terminal' \in [Rebuilds -> SUBSET RebuildOutcomes]
      /\ Begun' = Begun
  BY <1>1, <1>2, <1>3, <1>5, EndsAttemptAudited DEF RebuildOutcomes
<1>7. /\ maintenance' \in
           [state : {"AVAILABLE", "REBUILDING", "INDETERMINATE"},
            holder : 0 .. Smoke, generation : 0 .. MaxRebuilds]
      /\ maintenance'.state = "AVAILABLE" /\ maintenance'.holder = 0
      /\ maintenance'.generation <= Attempt
  BY <1>1, <1>2, <1>3, MaintenanceAssumption
     DEF MaintenanceTypeOK, Rebuilds, Smoke
<1>8. MaintenanceTypeOK'
  BY <1>1, <1>2, <1>3, <1>4, <1>5, <1>6, <1>7
     DEF MaintenanceTypeOK, Is, Step, Attempt
<1>9. OpenDataIsVerified'
  BY <1>2, <1>3, <1>6 DEF OpenDataIsVerified, Verified
<1>10. AttemptsAreNumbered'
  BY <1>1, <1>2, <1>3, <1>6, <1>7 DEF MaintenanceInv, AttemptsAreNumbered
<1>11. WorkflowIsOfLast'
  BY <1>2, <1>4, <1>6 DEF WorkflowIsOfLast, Is, Step, Attempt, Unreopened
<1>12. ReplacementIsRemembered'
  BY <1>1, <1>2, <1>3, <1>4
     DEF MaintenanceInv, ReplacementIsRemembered, Step, Attempt
<1> QED BY <1>6, <1>8, <1>9, <1>10, <1>11, <1>12 DEF MaintenanceInv

LEMMA RecordOutcomeInv ==
  ASSUME MaintenanceInv, RecordOutcome
  PROVE  MaintenanceInv'
<1>1. /\ MaintenanceTypeOK
      /\ lease \in [exclusive : BOOLEAN, shared : SUBSET Writers]
      /\ workflow.step = "FAILED" /\ ~Step("NONE")
  BY DEF MaintenanceInv, AttemptsAreNumbered, RecordOutcome, Step
<1>2. /\ Attempt \in Rebuilds /\ Attempt \in Begun /\ Attempt # 0
      /\ rebuild[Attempt] = "STARTED" \/ Attempt \in unheard
      /\ Attempt = Cardinality(Begun)
  BY <1>1, RunningAttempt DEF MaintenanceInv, WorkflowIsOfLast, Step
<1>3. /\ workflow' = Queued
      /\ UNCHANGED <<lease, writer, baseline, vouched, authorized, unheard>>
  BY DEF RecordOutcome, EndsWorkflow
<1>4. PICK safe \in RollbackIsSafe :
        IF safe
        THEN EndsAttempt(Attempt, "ROLLED_BACK") /\ Turns("AVAILABLE", 0)
        ELSE /\ EndsAttempt(Attempt, "INDETERMINATE")
             /\ Turns("INDETERMINATE", Attempt)
  BY DEF RecordOutcome
<1>5. PICK outcome \in RebuildOutcomes :
        /\ EndsAttempt(Attempt, outcome)
        /\ outcome = IF safe THEN "ROLLED_BACK" ELSE "INDETERMINATE"
  BY <1>4 DEF RebuildOutcomes
<1>6. /\ EndsAreAudited' /\ rebuild'[Attempt] = outcome
      /\ rebuild' \in [Rebuilds -> RebuildStates]
      /\ terminal' \in [Rebuilds -> SUBSET RebuildOutcomes]
      /\ \A e \in Rebuilds \ {Attempt} : rebuild'[e] = rebuild[e]
      /\ Begun' = Begun
  BY <1>1, <1>2, <1>3, <1>5, EndsAttemptAudited
<1>7. /\ maintenance' \in
           [state : {"AVAILABLE", "REBUILDING", "INDETERMINATE"},
            holder : 0 .. Smoke, generation : 0 .. MaxRebuilds]
      /\ maintenance'.state = "AVAILABLE" <=> maintenance'.holder = 0
      /\ maintenance'.generation = maintenance.generation
      /\ maintenance'.state = "AVAILABLE" => safe
  <2>1. /\ Attempt \in 0 .. Smoke /\ 0 \in 0 .. Smoke
        /\ maintenance.generation \in 0 .. MaxRebuilds
    BY <1>1, <1>2, MaintenanceAssumption
       DEF MaintenanceTypeOK, Rebuilds, Smoke
  <2> QED BY <1>2, <1>4, <2>1 DEF Turns
<1>8. /\ workflow' \in [step : WorkflowSteps, attempt : 0 .. MaxRebuilds,
                        committed : BOOLEAN]
      /\ workflow'.step = "NONE" /\ workflow'.attempt = 0
  BY <1>3, MaintenanceAssumption DEF Queued, WorkflowSteps
<1>9. MaintenanceTypeOK'
  BY <1>1, <1>3, <1>6, <1>7, <1>8 DEF MaintenanceTypeOK, Is, Step, Attempt
<1>10. OpenDataIsVerified'
  <2>1. SUFFICES ASSUME maintenance'.state = "AVAILABLE"
                 PROVE  OpenableData'
    BY DEF OpenDataIsVerified, OpenableData, Is
  <2>2. safe /\ outcome = "ROLLED_BACK" /\ ~workflow.committed
    BY <1>4, <1>5, <1>7, <2>1 DEF RollbackIsSafe
  <2>3. CASE baseline = Attempt
    BY <1>1, <1>3, <2>2, <2>3
       DEF MaintenanceInv, ReplacementIsRemembered, OpenableData
  <2>4. CASE baseline # Attempt /\ Attempt \in authorized
    <3>1. Attempt > baseline
      BY <1>2, <2>4, StartedNumber, MaintenanceAssumption
         DEF MaintenanceInv, AttemptsAreNumbered
    <3> QED BY <1>3, <1>6, <2>2, <2>4, <3>1 DEF OpenableData, FellBack
  <2>5. CASE baseline # Attempt /\ Attempt \notin authorized
    <3>1. OpenableData
      BY <1>1, <2>5 DEF MaintenanceInv, ReplacementIsRemembered
    <3>2. authorized \subseteq Rebuilds /\ baseline \in {0} \cup Rebuilds
      BY <1>1 DEF MaintenanceTypeOK, MaintenanceInv, AttemptsAreNumbered,
                  Begun
    <3> QED BY <1>3, <1>6, <2>5, <3>1, <3>2, OpenableDataStays
  <2> QED BY <2>3, <2>4, <2>5
<1>11. AttemptsAreNumbered'
  BY <1>1, <1>3, <1>6, <1>7 DEF MaintenanceInv, AttemptsAreNumbered
<1>12. WorkflowIsOfLast' /\ ReplacementIsRemembered'
  BY <1>8 DEF WorkflowIsOfLast, ReplacementIsRemembered, Step, Unreopened
<1> QED BY <1>6, <1>9, <1>10, <1>11, <1>12 DEF MaintenanceInv

\* What is closed, or opened on data that may be open, without an attempt.
LEMMA TurnedInv ==
  ASSUME MaintenanceInv,
         workflow' \in [step : WorkflowSteps, attempt : 0 .. MaxRebuilds,
                       committed : BOOLEAN],
         workflow'.step = "NONE" /\ workflow'.attempt = 0,
         NEW state \in {"AVAILABLE", "INDETERMINATE"}, NEW holder \in 0 .. Smoke,
         Turns(state, holder), state = "AVAILABLE" <=> holder = 0,
         UNCHANGED <<rebuild, terminal, lease, writer, baseline, authorized,
                     unheard>>,
         vouched' \in BOOLEAN, state = "AVAILABLE" => vouched', ~lease.exclusive
  PROVE  MaintenanceInv'
<1>1. MaintenanceTypeOK
  BY DEF MaintenanceInv
<1>2. /\ maintenance' \in
           [state : {"AVAILABLE", "REBUILDING", "INDETERMINATE"},
            holder : 0 .. Smoke, generation : 0 .. MaxRebuilds]
      /\ maintenance'.state = state /\ maintenance'.holder = holder
      /\ maintenance'.generation = maintenance.generation
  BY <1>1 DEF Turns, MaintenanceTypeOK
<1>4. MaintenanceTypeOK'
  BY <1>1, <1>2 DEF MaintenanceTypeOK, Is, Step, Attempt
<1>5. OpenDataIsVerified'
  BY <1>2 DEF OpenDataIsVerified, Is, Verified
<1>6. EndsAreAudited' /\ Begun' = Begun
  BY DEF MaintenanceInv, EndsAreAudited, Begun
<1>7. AttemptsAreNumbered'
  BY <1>2, <1>6 DEF MaintenanceInv, AttemptsAreNumbered
<1>8. WorkflowIsOfLast' /\ ReplacementIsRemembered'
  BY DEF WorkflowIsOfLast, ReplacementIsRemembered, Step, Unreopened
<1> QED BY <1>4, <1>5, <1>6, <1>7, <1>8 DEF MaintenanceInv

LEMMA ContainFailedSmokeInv ==
  ASSUME MaintenanceInv, ContainFailedSmoke
  PROVE  MaintenanceInv'
<1>1. /\ MaintenanceTypeOK /\ ~lease.exclusive /\ workflow' = Queued
      /\ UNCHANGED <<rebuild, terminal, lease, writer, baseline, vouched,
                     authorized, unheard>>
  BY DEF MaintenanceInv, MaintenanceTypeOK, ContainFailedSmoke, EndsWorkflow,
         Step
<1>4. /\ workflow' \in [step : WorkflowSteps, attempt : 0 .. MaxRebuilds,
                        committed : BOOLEAN]
      /\ workflow'.step = "NONE" /\ workflow'.attempt = 0
  BY <1>1, MaintenanceAssumption DEF Queued, WorkflowSteps
<1>2. CASE UNCHANGED maintenance
  <2>2. MaintenanceTypeOK'
    BY <1>1, <1>4, <1>2 DEF MaintenanceTypeOK, Is, Step, Attempt
  <2>3. lease \in [exclusive : BOOLEAN, shared : SUBSET Writers]
    BY DEF MaintenanceInv, AttemptsAreNumbered
  <2> QED BY <1>1, <1>4, <1>2, <2>2, <2>3, QuietStep DEF Unreopened
<1>3. CASE Turns("INDETERMINATE", Smoke)
  <2>1. Smoke \in 0 .. Smoke /\ Smoke # 0
    BY MaintenanceAssumption DEF Smoke
  <2>2. vouched' \in BOOLEAN
    BY <1>1 DEF MaintenanceTypeOK
  <2> QED BY <1>1, <1>4, <1>3, <2>1, <2>2, TurnedInv
<1> QED BY <1>2, <1>3 DEF ContainFailedSmoke

LEMMA VerifyAndReopenInv ==
  ASSUME MaintenanceInv, VerifyAndReopen
  PROVE  MaintenanceInv'
<1>1. /\ MaintenanceTypeOK /\ ~lease.exclusive /\ Turns("AVAILABLE", 0)
      /\ vouched' = TRUE
      /\ UNCHANGED <<rebuild, terminal, workflow, lease, writer, baseline,
                     authorized, unheard>>
  BY DEF MaintenanceInv, MaintenanceTypeOK, VerifyAndReopen, Step
<1>2. vouched' \in BOOLEAN
  BY <1>1
<1>3. 0 \in 0 .. Smoke
  BY MaintenanceAssumption DEF Smoke
<1>4. /\ workflow' \in [step : WorkflowSteps, attempt : 0 .. MaxRebuilds,
                        committed : BOOLEAN]
      /\ workflow'.step = "NONE" /\ workflow'.attempt = 0
  BY <1>1 DEF MaintenanceTypeOK, VerifyAndReopen, Step, Attempt
<1> QED BY <1>1, <1>2, <1>3, <1>4, TurnedInv

LEMMA MaintenanceStepInv ==
  MaintenanceInv /\ [MaintenanceNext]_maintenanceVars => MaintenanceInv'
<1>1. SUFFICES ASSUME MaintenanceInv, [MaintenanceNext]_maintenanceVars
               PROVE  MaintenanceInv'
  OBVIOUS
<1>2. ASSUME NEW d \in Rebuilds,
             StartRebuild(d, "AVAILABLE") \/ StartRebuild(d, "INDETERMINATE")
      PROVE  MaintenanceInv'
  BY <1>1, <1>2, StartRebuildInv
<1>3. ASSUME NEW w \in Writers, AdmitWrite(w) \/ ShareLease(w) \/ EndWrite(w)
      PROVE  MaintenanceInv'
  BY <1>1, <1>3, WriterInv
<1>4. CASE UNCHANGED maintenanceVars
  <2>1. MaintenanceTypeOK'
    BY <1>1, <1>4 DEF MaintenanceInv, MaintenanceTypeOK, maintenanceVars, Is,
                      Step, Attempt
  <2> QED BY <1>1, <1>4, <2>1, QuietStep
          DEF MaintenanceInv, AttemptsAreNumbered, maintenanceVars
<1> QED BY <1>1, <1>2, <1>3, <1>4, QuietWorkflowInv, ReplaceMutableStateInv,
           ReopenInv, RecordOutcomeInv, ContainFailedSmokeInv,
           VerifyAndReopenInv DEF MaintenanceNext

(* However many rebuilds are started, stopped, failed or unaware of their  *)
(* own commits: the marketplace is open on verified data only, but for the *)
(* two exceptions OpenDataIsVerified names (a replacement whose commit was  *)
(* not heard of, a clean recovery that failed), and an attempt that ended  *)
(* has one terminal audit entry, or two if it did not hear of its own      *)
(* reopening.                                                              *)
THEOREM RebuildsReopenAccountably == MaintenanceSpec => []ReopensAccountably
<1>1. MaintenanceInv => ReopensAccountably
  BY DEF MaintenanceInv, ReopensAccountably
<1> QED BY <1>1, MaintenanceInitInv, MaintenanceStepInv, PTL
        DEF MaintenanceSpec

----------------------------------------------------------------------------
(* Releases.  The API accepts the bundle while a rollout that found the     *)
(* two of one release has not replaced them both, and a gate that has seen *)
(* the heartbeat become younger has seen its worker write.                 *)

NewestFirst ==
  /\ newest \in ReleaseNames
  /\ recorded = <<newest>> \/ \E q \in ReleaseNames : recorded = <<newest, q>>

StagesSound ==
  /\ rollout = [release |-> rollout.release, stage |-> rollout.stage]
  /\ candidate # NoProcess =>
       /\ rollout.stage = "API" /\ candidate.release = rollout.release
       /\ candidate.release \in candidate.accepts
  /\ rollout.stage \in {"WORKER", "GATES", "VERIFY"} =>
       serving.release = rollout.release
  /\ rollout.stage # "NONE" => rollout.release \in ReleaseNames
  /\ serving.release \in serving.accepts \cap ReleaseNames
  /\ gate # NoGate => rollout.stage = "GATES"

\* What the recorded releases say of the bundle that is served.
AcceptsBundle ==
  /\ web \in serving.accepts
  /\ serving.release # web =>
       newest \in {serving.release, web} /\ web \in Range(recorded)
  /\ rollout.stage = "API" =>
       /\ serving.release = web /\ web \in Range(recorded)
       /\ newest \in {web, rollout.release}
       /\ candidate = NoProcess => newest = web
       /\ candidate # NoProcess => web \in candidate.accepts

Gates ==
  [kind : {"API", "WORKER"}, elapsed : Nat, consecutive : Nat,
   advanced : BOOLEAN, previous : Nat, wrote : BOOLEAN, probed : BOOLEAN]

\* Until its worker writes, a heartbeat of its release grows older.
GateSound(g) ==
  /\ g \in Gates
  /\ g.kind = "WORKER" =>
       /\ g.consecutive = 0 => ~g.advanced /\ g.previous = StaleAfter + 1
       /\ g.consecutive > 0 => g.previous <= StaleAfter
       /\ g.advanced => g.wrote
       /\ g.consecutive > 0 /\ ~g.wrote
            /\ heartbeat.release = rollout.release =>
              heartbeat.age >= g.previous

HeartbeatSound ==
  /\ heartbeat = [release |-> heartbeat.release, age |-> heartbeat.age]
  /\ heartbeat.age \in 0 .. StaleAfter

ReleasesInvariant ==
  /\ NewestFirst /\ StagesSound
  /\ behind \/ AcceptsBundle
  /\ HeartbeatSound
  /\ gate = NoGate \/ GateSound(gate)

LEMMA Recording ==
  ASSUME NewestFirst, NEW r \in ReleaseNames, NEW after,
         after = WithRelease(r)
  PROVE  /\ after = <<r>> \/ \E q \in ReleaseNames : after = <<r, q>>
         /\ {r, newest} \subseteq Range(after)
         /\ newest \in Range(recorded)
         /\ r = newest => after = recorded
<1>1. newest \in Range(recorded) /\ Head(recorded) = newest
  BY DEF NewestFirst, Range
<1>2. CASE r = newest
  BY <1>1, <1>2 DEF WithRelease, NewestFirst
<1>3. CASE r # newest
  <2>1. after = <<r, newest>>
    BY <1>1, <1>3 DEF WithRelease
  <2>2. {r, newest} \subseteq Range(after)
    BY <2>1 DEF Range
  <2> QED BY <1>1, <1>3, <2>1, <2>2 DEF NewestFirst
<1> QED BY <1>2, <1>3

LEMMA ReleasesInitSound == ReleasesInit => ReleasesInvariant
<1> SUFFICES ASSUME ReleasesInit PROVE ReleasesInvariant
  OBVIOUS
<1>1. NewestFirst /\ StagesSound
  BY DEF ReleasesInit, NewestFirst, StagesSound, NoProcess, NoRollout, NoGate
<1>2. AcceptsBundle
  BY DEF ReleasesInit, AcceptsBundle, NoRollout
<1>3. HeartbeatSound
  BY ReleaseAssumption DEF ReleasesInit, HeartbeatSound, Written
<1> QED BY <1>1, <1>2, <1>3 DEF ReleasesInvariant, ReleasesInit

(* A gate is sound as long as the heartbeat it has seen and the release of  *)
(* the rollout stay.                                                       *)
LEMMA GateKeeps ==
  ASSUME gate = NoGate \/ GateSound(gate), UNCHANGED <<gate, heartbeat>>,
         gate # NoGate => rollout'.release = rollout.release
  PROVE  (gate = NoGate \/ GateSound(gate))'
BY DEF GateSound

LEMMA BeginRolloutStep ==
  ASSUME ReleasesInvariant, NEW r \in ReleaseNames, BeginRollout(r)
  PROVE  ReleasesInvariant'
<1>0. UNCHANGED <<recorded, serving, candidate, web, heartbeat, gate, newest>>
  BY DEF BeginRollout
<1>1. gate = NoGate /\ candidate = NoProcess /\ rollout = NoRollout
  BY DEF BeginRollout, ReleasesInvariant, StagesSound, NoRollout
<1>2. NewestFirst' /\ StagesSound' /\ HeartbeatSound'
  BY <1>0, <1>1
     DEF BeginRollout, ReleasesInvariant, NewestFirst, StagesSound,
         HeartbeatSound
<1>3. behind' \/ AcceptsBundle'
  <2>1. newest \in Range(recorded)
    BY DEF ReleasesInvariant, NewestFirst, Range
  <2> QED
    BY <1>0, <1>1, <2>1
       DEF BeginRollout, ReleasesInvariant, AcceptsBundle, StagesSound
<1> QED BY <1>0, <1>1, <1>2, <1>3 DEF ReleasesInvariant

LEMMA StartApiStep ==
  ASSUME ReleasesInvariant, StartApi
  PROVE  ReleasesInvariant'
<1>0. /\ UNCHANGED <<serving, web, heartbeat, rollout, gate, behind>>
      /\ rollout.stage = "API" /\ candidate = NoProcess /\ gate = NoGate
      /\ newest' = rollout.release
  BY DEF StartApi, ReleasesInvariant, StagesSound
<1>1. PICK r \in ReleaseNames : r = rollout.release
  BY <1>0 DEF ReleasesInvariant, StagesSound
<1>2. PICK after : after = WithRelease(r)
  OBVIOUS
<1>3. /\ recorded' = after
      /\ candidate' = [release |-> r, accepts |-> Range(after)]
  BY <1>1, <1>2 DEF StartApi, Started
<1>4. /\ after = <<r>> \/ \E q \in ReleaseNames : after = <<r, q>>
      /\ {r, newest} \subseteq Range(after)
  BY <1>2, Recording DEF ReleasesInvariant
<1>5. NewestFirst' /\ StagesSound' /\ HeartbeatSound'
  BY <1>0, <1>1, <1>3, <1>4
     DEF ReleasesInvariant, NewestFirst, StagesSound, HeartbeatSound
<1>6. behind' \/ AcceptsBundle'
  <2>1. candidate' # NoProcess
    BY <1>3, <1>4 DEF NoProcess
  <2> QED
    BY <1>0, <1>1, <1>3, <1>4, <2>1 DEF ReleasesInvariant, AcceptsBundle
<1> QED BY <1>0, <1>5, <1>6 DEF ReleasesInvariant

LEMMA ApiIsHealthyStep ==
  ASSUME ReleasesInvariant, ApiIsHealthy
  PROVE  ReleasesInvariant'
<1>0. /\ UNCHANGED <<recorded, web, heartbeat, gate, behind, newest>>
      /\ candidate # NoProcess /\ rollout.stage = "API"
      /\ serving' = candidate /\ candidate' = NoProcess
      /\ candidate.release = rollout.release
      /\ candidate.release \in candidate.accepts
      /\ rollout.release \in ReleaseNames /\ gate = NoGate
  BY DEF ApiIsHealthy, ReleasesInvariant, StagesSound
<1>1. rollout' = [release |-> rollout.release, stage |-> "WORKER"]
  BY DEF ApiIsHealthy, ReleasesInvariant, StagesSound
<1>2. NewestFirst' /\ StagesSound' /\ HeartbeatSound'
  BY <1>0, <1>1
     DEF ReleasesInvariant, NewestFirst, StagesSound, HeartbeatSound
<1>3. behind' \/ AcceptsBundle'
  BY <1>0, <1>1 DEF ReleasesInvariant, AcceptsBundle
<1> QED BY <1>0, <1>2, <1>3 DEF ReleasesInvariant

LEMMA RestartApiStep ==
  ASSUME ReleasesInvariant, RestartApi
  PROVE  ReleasesInvariant'
<1>0. UNCHANGED <<candidate, web, heartbeat, rollout, gate, behind>>
  BY DEF RestartApi
<1>1. PICK r \in ReleaseNames : r = serving.release
  BY DEF ReleasesInvariant, StagesSound
<1>2. PICK after : after = WithRelease(r)
  OBVIOUS
<1>3. /\ recorded' = after /\ newest' = r
      /\ serving' = [release |-> r, accepts |-> Range(after)]
  BY <1>1, <1>2 DEF RestartApi, Started
<1>4. /\ after = <<r>> \/ \E q \in ReleaseNames : after = <<r, q>>
      /\ {r, newest} \subseteq Range(after)
      /\ r = newest => after = recorded
  BY <1>2, Recording DEF ReleasesInvariant
<1>5. NewestFirst' /\ StagesSound' /\ HeartbeatSound'
  BY <1>0, <1>1, <1>3, <1>4
     DEF ReleasesInvariant, NewestFirst, StagesSound, HeartbeatSound
<1>6. behind' \/ AcceptsBundle'
  BY <1>0, <1>1, <1>3, <1>4 DEF ReleasesInvariant, AcceptsBundle
<1>7. (gate = NoGate \/ GateSound(gate))'
  BY <1>0, GateKeeps DEF ReleasesInvariant
<1> QED BY <1>5, <1>6, <1>7 DEF ReleasesInvariant

LEMMA DeployWorkerStep ==
  ASSUME ReleasesInvariant, DeployWorker
  PROVE  ReleasesInvariant'
<1>0. /\ UNCHANGED <<recorded, serving, candidate, web, behind, newest>>
      /\ rollout.stage = "WORKER" /\ candidate = NoProcess
      /\ heartbeat' = [release |-> rollout.release, age |-> 0]
      /\ rollout' = [release |-> rollout.release, stage |-> "GATES"]
      /\ gate' = Opened("API")
  BY DEF DeployWorker, ReleasesInvariant, StagesSound, Written
<1>1. NewestFirst' /\ StagesSound' /\ HeartbeatSound'
  BY <1>0, ReleaseAssumption
     DEF ReleasesInvariant, NewestFirst, StagesSound, HeartbeatSound
<1>2. behind' \/ AcceptsBundle'
  BY <1>0 DEF ReleasesInvariant, AcceptsBundle
<1>3. GateSound(gate)'
  BY <1>0, ReleaseAssumption DEF GateSound, Opened, Gates
<1> QED BY <1>1, <1>2, <1>3 DEF ReleasesInvariant

LEMMA BeatStep ==
  ASSUME ReleasesInvariant, NEW r \in ReleaseNames, Beat(r)
  PROVE  ReleasesInvariant'
<1>0. UNCHANGED <<recorded, serving, candidate, web, rollout, behind, newest>>
  BY DEF Beat
<1>1. behind' \/ AcceptsBundle'
  BY <1>0 DEF ReleasesInvariant, AcceptsBundle
<1>2. CASE UNCHANGED <<heartbeat, gate>>
  <2>1. NewestFirst' /\ StagesSound' /\ HeartbeatSound'
    BY <1>0, <1>2
       DEF ReleasesInvariant, NewestFirst, StagesSound, HeartbeatSound
  <2>2. (gate = NoGate \/ GateSound(gate))'
    BY <1>0, <1>2, GateKeeps DEF ReleasesInvariant
  <2> QED BY <1>1, <2>1, <2>2 DEF ReleasesInvariant
<1>3. CASE /\ heartbeat' = Written(r)
           /\ gate' = IF gate.kind = "WORKER" /\ r = rollout.release
                      THEN [gate EXCEPT !.wrote = TRUE] ELSE gate
  <2>1. gate' # NoGate => gate # NoGate
    BY <1>3 DEF NoGate
  <2>2. NewestFirst' /\ StagesSound' /\ HeartbeatSound'
    BY <1>0, <1>3, <2>1, ReleaseAssumption
       DEF ReleasesInvariant, NewestFirst, StagesSound, HeartbeatSound, Written
  <2>3. CASE gate.kind = "WORKER" /\ r = rollout.release
    <3>1. GateSound(gate) /\ gate' = [gate EXCEPT !.wrote = TRUE]
      BY <1>3, <2>3 DEF ReleasesInvariant, NoGate
    <3>2. GateSound(gate)'
      BY <3>1 DEF GateSound, Gates
    <3> QED BY <1>1, <2>2, <3>2 DEF ReleasesInvariant
  <2>4. CASE ~(gate.kind = "WORKER" /\ r = rollout.release)
    <3>1. (gate = NoGate \/ GateSound(gate))'
      BY <1>0, <1>3, <2>4 DEF ReleasesInvariant, GateSound, Written
    <3> QED BY <1>1, <2>2, <3>1 DEF ReleasesInvariant
  <2> QED BY <2>3, <2>4
<1> QED BY <1>2, <1>3 DEF Beat

(* What an EXCEPT leaves of a gate.                                        *)
LEMMA GateFields ==
  ASSUME NEW g \in Gates
  PROVE  /\ g.kind \in {"API", "WORKER"} /\ g.elapsed \in Nat
         /\ g.consecutive \in Nat /\ g.previous \in Nat
         /\ g.advanced \in BOOLEAN /\ g.wrote \in BOOLEAN
         /\ g.probed \in BOOLEAN
         /\ DOMAIN g = {"kind", "elapsed", "consecutive", "advanced",
                        "previous", "wrote", "probed"}
         /\ g = [i \in DOMAIN g |-> g[i]]
BY DEF Gates

LEMMA ReleaseTickStep ==
  ASSUME ReleasesInvariant, ReleaseTick
  PROVE  ReleasesInvariant'
<1>0. UNCHANGED <<recorded, serving, candidate, web, rollout, behind, newest>>
  BY DEF ReleaseTick
<1>1. /\ heartbeat' = [release |-> heartbeat.release,
                       age |-> Older(heartbeat.age)]
      /\ heartbeat.age \in 0 .. StaleAfter
  BY DEF ReleaseTick, ReleasesInvariant, HeartbeatSound
<1>2. Older(heartbeat.age) \in 0 .. StaleAfter
  BY <1>1, ReleaseAssumption DEF Older
<1>3. behind' \/ AcceptsBundle'
  BY <1>0 DEF ReleasesInvariant, AcceptsBundle
<1>4. gate = NoGate => gate' = NoGate
  BY DEF ReleaseTick
<1>5. NewestFirst' /\ StagesSound' /\ HeartbeatSound'
  BY <1>0, <1>1, <1>2, <1>4
     DEF ReleasesInvariant, NewestFirst, StagesSound, HeartbeatSound
<1>6. ASSUME gate # NoGate PROVE GateSound(gate)'
  <2>1. PICK g : g = gate
    OBVIOUS
  <2>2. GateSound(g) /\ g \in Gates
    BY <1>6, <2>1 DEF ReleasesInvariant, GateSound
  <2>3. PICK now \in Nat :
          now = IF g.previous <= StaleAfter THEN Older(g.previous)
                ELSE g.previous
    BY <2>2, ReleaseAssumption DEF Gates, Older
  <2>4. gate' = [g EXCEPT !.elapsed = g.elapsed + 1, !.previous = now,
                          !.probed = FALSE]
    BY <1>6, <2>1, <2>3 DEF ReleaseTick
  <2>5. /\ gate' \in Gates /\ gate'.kind = g.kind
        /\ gate'.consecutive = g.consecutive /\ gate'.advanced = g.advanced
        /\ gate'.wrote = g.wrote /\ gate'.previous = now
    <3>1. gate' \in Gates
      <4>1. gate' = [kind |-> g.kind, elapsed |-> g.elapsed + 1,
                     consecutive |-> g.consecutive, advanced |-> g.advanced,
                     previous |-> now, wrote |-> g.wrote, probed |-> FALSE]
        BY <2>2, <2>4, Zenon DEF Gates
      <4>2. /\ g.kind \in {"API", "WORKER"} /\ g.elapsed + 1 \in Nat
            /\ g.consecutive \in Nat /\ g.advanced \in BOOLEAN
            /\ now \in Nat /\ g.wrote \in BOOLEAN
        BY <2>2, <2>3 DEF Gates
      <4> QED BY <4>1, <4>2 DEF Gates
    <3>2. gate'.kind = g.kind /\ gate'.previous = now
          /\ gate'.consecutive = g.consecutive
      BY <2>2, <2>4, GateFields
    <3>3. gate'.wrote = g.wrote /\ gate'.advanced = g.advanced
      BY <2>2, <2>4, GateFields, Zenon
    <3> QED BY <3>1, <3>2, <3>3
  <2>6. g.previous <= StaleAfter => now <= StaleAfter
    BY <2>2, <2>3, ReleaseAssumption DEF Gates, Older
  <2>7. heartbeat.age >= g.previous => Older(heartbeat.age) >= now
    BY <1>1, <2>2, <2>3, ReleaseAssumption DEF Gates, Older
  <2>8. g.previous = StaleAfter + 1 => now = StaleAfter + 1
    BY <2>3, ReleaseAssumption
  <2> QED
    BY <1>0, <1>1, <2>2, <2>5, <2>6, <2>7, <2>8 DEF GateSound
<1> QED BY <1>3, <1>4, <1>5, <1>6 DEF ReleasesInvariant

(* Probes.                                                                 *)
LEMMA GateAnswered ==
  ASSUME HeartbeatSound, NEW g, GateSound(g),
         g.kind = "WORKER" => heartbeat.release = rollout.release
  PROVE  GateSound(Confirmed(g))
<1>1. g \in Gates /\ heartbeat.age \in 0 .. StaleAfter
  BY DEF GateSound, HeartbeatSound
<1>2. PICK before \in BOOLEAN :
        before = (g.advanced \/ (/\ g.kind = "WORKER"
                                 /\ g.previous <= StaleAfter
                                 /\ heartbeat.age < g.previous))
  BY <1>1 DEF Gates
<1>3. PICK f : f = Confirmed(g)
  OBVIOUS
<1>4. /\ f \in Gates /\ f.kind = g.kind /\ f.consecutive = g.consecutive + 1
      /\ f.advanced = before
      /\ f.previous = IF g.kind = "WORKER" THEN heartbeat.age ELSE g.previous
      /\ f.wrote = (g.consecutive > 0 /\ g.wrote)
  <2>1. PICK wrote \in BOOLEAN : wrote = (g.consecutive > 0 /\ g.wrote)
    BY <1>1, GateFields
  <2>2. f = [g EXCEPT !.consecutive = g.consecutive + 1, !.advanced = before,
                      !.previous = IF g.kind = "WORKER" THEN heartbeat.age
                                   ELSE g.previous,
                      !.wrote = wrote, !.probed = TRUE]
    BY <1>2, <1>3, <2>1, Zenon DEF Confirmed
  <2>3. PICK seen \in Nat :
          seen = IF g.kind = "WORKER" THEN heartbeat.age ELSE g.previous
    BY <1>1, GateFields, ReleaseAssumption
  <2>4. f = [kind |-> g.kind, elapsed |-> g.elapsed,
             consecutive |-> g.consecutive + 1, advanced |-> before,
             previous |-> seen, wrote |-> wrote, probed |-> TRUE]
    BY <1>1, <2>2, <2>3, GateFields
  <2>5. f \in Gates
    BY <1>1, <2>1, <2>3, <2>4, GateFields DEF Gates
  <2> QED BY <2>1, <2>3, <2>4, <2>5
<1>5. GateSound(f)
  <2>1. g.consecutive \in Nat /\ g.previous \in Nat /\ StaleAfter \in Nat
        /\ g.wrote \in BOOLEAN /\ g.advanced \in BOOLEAN
    BY <1>1, ReleaseAssumption DEF Gates
  <2>2. CASE g.kind # "WORKER"
    BY <1>4, <2>2 DEF GateSound
  <2>3. CASE g.kind = "WORKER"
    <3>1. f.previous = heartbeat.age /\ f.consecutive # 0
      BY <1>4, <2>1, <2>3
    <3>2. f.advanced => f.wrote
      BY <1>1, <1>2, <1>4, <2>1, <2>3 DEF GateSound
    <3> QED BY <1>1, <1>4, <2>1, <3>1, <3>2 DEF GateSound
  <2> QED BY <2>2, <2>3
<1> QED BY <1>3, <1>5

(* An answer that does not count begins the gate again.                    *)
LEMMA GateBroken ==
  ASSUME NEW g, GateSound(g)
  PROVE  GateSound(Broken(g))
<1>1. PICK f : f = Broken(g)
  OBVIOUS
<1>2. g \in Gates
  BY DEF GateSound
<1>3. /\ f \in Gates /\ f.kind = g.kind /\ f.consecutive = 0
      /\ f.advanced = (g.kind = "API") /\ f.previous = StaleAfter + 1
  <2>1. PICK api \in BOOLEAN : api = (g.kind = "API")
    OBVIOUS
  <2>2. f = [g EXCEPT !.consecutive = 0, !.advanced = api,
                      !.previous = StaleAfter + 1, !.probed = TRUE]
    BY <1>1, <2>1, Zenon DEF Broken
  <2>3. f = [kind |-> g.kind, elapsed |-> g.elapsed, consecutive |-> 0,
             advanced |-> api, previous |-> StaleAfter + 1,
             wrote |-> g.wrote, probed |-> TRUE]
    BY <1>2, <2>2, GateFields
  <2>4. StaleAfter + 1 \in Nat
    BY ReleaseAssumption
  <2>5. f \in Gates
    BY <1>2, <2>1, <2>3, <2>4, GateFields DEF Gates
  <2> QED BY <2>1, <2>3, <2>5
<1>4. GateSound(f)
  <2>1. f.kind = "WORKER" => ~f.advanced
    BY <1>3
  <2> QED BY <1>3, <2>1 DEF GateSound
<1> QED BY <1>1, <1>4

LEMMA ProceedStep ==
  ASSUME ReleasesInvariant, gate # NoGate, NEW g, GateSound(g), Proceed(g),
         UNCHANGED <<recorded, serving, candidate, heartbeat, newest>>
  PROVE  ReleasesInvariant'
<1>0. /\ rollout.stage = "GATES" /\ candidate = NoProcess
      /\ serving.release = rollout.release
      /\ rollout.release \in ReleaseNames
      /\ serving.release \in serving.accepts
  BY DEF ReleasesInvariant, StagesSound
<1>1. NewestFirst' /\ HeartbeatSound'
  BY DEF ReleasesInvariant, NewestFirst, HeartbeatSound
<1>2. CASE ~IsReady(g)
  <2>1. /\ UNCHANGED <<web, behind>>
        /\ \/ gate' = NoGate /\ rollout' = NoRollout
           \/ gate' = g /\ rollout' = rollout
    BY <1>2 DEF Proceed
  <2>2. StagesSound'
    BY <1>0, <2>1 DEF ReleasesInvariant, StagesSound, NoRollout
  <2>3. behind' \/ AcceptsBundle'
    BY <1>0, <2>1 DEF ReleasesInvariant, AcceptsBundle, NoRollout
  <2>4. (gate = NoGate \/ GateSound(gate))'
    BY <2>1 DEF GateSound
  <2> QED BY <1>1, <2>2, <2>3, <2>4 DEF ReleasesInvariant
<1>3. CASE IsReady(g) /\ g.kind = "API"
  <2>1. gate' = Opened("WORKER") /\ UNCHANGED <<rollout, web, behind>>
    BY <1>3 DEF Proceed
  <2>2. StagesSound' /\ (behind' \/ AcceptsBundle')
    BY <1>0, <2>1 DEF ReleasesInvariant, StagesSound, AcceptsBundle
  <2>3. GateSound(gate)'
    <3>1. PICK f : f = Opened("WORKER")
      OBVIOUS
    <3>2. StaleAfter + 1 \in Nat
      BY ReleaseAssumption
    <3>3. f = [kind |-> "WORKER", elapsed |-> 0, consecutive |-> 0,
               advanced |-> FALSE, previous |-> StaleAfter + 1,
               wrote |-> FALSE, probed |-> FALSE]
      BY <3>1 DEF Opened
    <3>4. f \in Gates
      BY <3>2, <3>3 DEF Gates
    <3>5. gate' = f
      BY <2>1, <3>1
    <3> QED BY <3>3, <3>4, <3>5 DEF GateSound
  <2> QED BY <1>1, <2>2, <2>3 DEF ReleasesInvariant
<1>4. CASE IsReady(g) /\ g.kind # "API"
  <2>1. /\ gate' = NoGate /\ web' = rollout.release
        /\ rollout' = [rollout EXCEPT !.stage = "VERIFY"]
    BY <1>4 DEF Proceed
  <2>2. rollout' = [release |-> rollout.release, stage |-> "VERIFY"]
    BY <2>1 DEF ReleasesInvariant, StagesSound
  <2>3. StagesSound' /\ AcceptsBundle'
    BY <1>0, <2>1, <2>2 DEF ReleasesInvariant, StagesSound, AcceptsBundle
  <2> QED BY <1>1, <2>1, <2>3 DEF ReleasesInvariant
<1> QED BY <1>2, <1>3, <1>4

LEMMA ProbeStep ==
  ASSUME ReleasesInvariant, NEW answers \in BOOLEAN,
         ProbeApi(answers) \/ ProbeWorker(answers)
  PROVE  ReleasesInvariant'
<1>1. GateSound(gate) /\ gate # NoGate
  BY DEF ReleasesInvariant, ProbeApi, ProbeWorker, NoGate
<1>2. UNCHANGED <<recorded, serving, candidate, heartbeat, newest>>
  BY DEF ProbeApi, ProbeWorker
<1>3. PICK g : /\ Proceed(g) /\ GateSound(g)
  <2>1. CASE ProbeApi(answers)
    <3>1. Proceed(IF answers THEN Confirmed(gate) ELSE Broken(gate))
          /\ gate.kind = "API"
      BY <2>1 DEF ProbeApi
    <3>2. GateSound(Confirmed(gate)) /\ GateSound(Broken(gate))
      BY <1>1, <3>1, GateAnswered, GateBroken DEF ReleasesInvariant
    <3> QED BY <3>1, <3>2
  <2>2. CASE ProbeWorker(answers)
    <3>1. Proceed(IF answers /\ IsFresh /\ heartbeat.release = rollout.release
                  THEN Confirmed(gate) ELSE Broken(gate))
      BY <2>2 DEF ProbeWorker
    <3>2. GateSound(Broken(gate))
      BY <1>1, GateBroken
    <3>3. heartbeat.release = rollout.release => GateSound(Confirmed(gate))
      BY <1>1, GateAnswered DEF ReleasesInvariant
    <3> QED BY <3>1, <3>2, <3>3
  <2> QED BY <2>1, <2>2
<1> QED BY <1>1, <1>2, <1>3, ProceedStep

LEMMA EndRolloutStep ==
  ASSUME ReleasesInvariant, EndRollout
  PROVE  ReleasesInvariant'
<1>1. /\ UNCHANGED <<recorded, serving, web, heartbeat, gate, behind, newest>>
      /\ rollout.stage # "GATES" /\ gate = NoGate
      /\ rollout' = NoRollout /\ candidate' = NoProcess
  BY DEF EndRollout, ReleasesInvariant, StagesSound
<1>2. NewestFirst' /\ StagesSound' /\ HeartbeatSound'
  BY <1>1
     DEF ReleasesInvariant, NewestFirst, StagesSound, HeartbeatSound, NoRollout
<1>3. behind' \/ AcceptsBundle'
  BY <1>1 DEF ReleasesInvariant, AcceptsBundle, NoRollout
<1> QED BY <1>1, <1>2, <1>3 DEF ReleasesInvariant

LEMMA NothingReleased ==
  ASSUME ReleasesInvariant,
         UNCHANGED <<recorded, serving, candidate, web, heartbeat, rollout,
                     gate, newest, behind>>
  PROVE  ReleasesInvariant'
<1>1. (gate = NoGate \/ GateSound(gate))'
  BY GateKeeps DEF ReleasesInvariant
<1> QED
  BY <1>1
     DEF ReleasesInvariant, NewestFirst, StagesSound, HeartbeatSound,
         AcceptsBundle

LEMMA ReleasesStepSound ==
  ReleasesInvariant /\ [ReleasesNext]_releaseVars => ReleasesInvariant'
<1> SUFFICES ASSUME ReleasesInvariant, [ReleasesNext]_releaseVars
             PROVE  ReleasesInvariant'
  OBVIOUS
<1>1. CASE UNCHANGED releaseVars
  BY <1>1, NothingReleased DEF releaseVars
<1>2. ASSUME NEW r \in ReleaseNames, StopWorker(r) PROVE ReleasesInvariant'
  BY <1>2, NothingReleased DEF StopWorker
<1> QED
  BY <1>1, <1>2, BeginRolloutStep, BeatStep, StartApiStep, ApiIsHealthyStep,
     RestartApiStep, DeployWorkerStep, ProbeStep, EndRolloutStep,
     ReleaseTickStep DEF ReleasesNext

LEMMA ReleasesInvariantHolds ==
  ReleasesSpec => []ReleasesInvariant
BY ReleasesInitSound, ReleasesStepSound, PTL DEF ReleasesSpec

(* Through any rollouts that begin where the API, the bundle and the last  *)
(* recorded release are one, restarts and stages that fail, the API accepts*)
(* what the served bundle sends (ADR 0038,                                 *)
(* persisted-operation-releases.ts:7-21).                                  *)
THEOREM BundleStaysAccepted ==
  ReleasesSpec => []BundleIsAccepted
<1>1. ReleasesInvariant => BundleIsAccepted
  BY DEF ReleasesInvariant, AcceptsBundle, BundleIsAccepted
<1> QED BY <1>1, ReleasesInvariantHolds, PTL

(* The bundle is replaced only by that of the release whose API answers,   *)
(* and when its worker has written since the first of the answers that     *)
(* opened the gate (release-gates.ts:76-108).                              *)
THEOREM BundleComesLast ==
  ReleasesSpec => BundleFollowsWorker
<1>1. ASSUME ReleasesInvariant, ReleasesNext, web' # web
      PROVE  /\ serving.release = web' /\ heartbeat.release = web'
             /\ gate.wrote
  <2>1. PICK answers \in BOOLEAN : ProbeApi(answers) \/ ProbeWorker(answers)
    BY <1>1
       DEF ReleasesNext, BeginRollout, Beat, StopWorker, StartApi,
           ApiIsHealthy, RestartApi, DeployWorker, EndRollout, ReleaseTick
  <2>2. GateSound(gate) /\ gate # NoGate /\ gate \in Gates
    BY <1>1, <2>1
       DEF ReleasesInvariant, ProbeApi, ProbeWorker, NoGate, GateSound
  <2>3. CASE ProbeApi(answers)
    <3>1. Confirmed(gate).kind = "API" /\ Broken(gate).kind = "API"
      BY <2>2, <2>3 DEF ProbeApi, Confirmed, Broken, Gates
    <3>2. \A g : Proceed(g) /\ g.kind = "API" => web' = web
      BY DEF Proceed
    <3> QED BY <1>1, <2>3, <3>1, <3>2 DEF ProbeApi
  <2>4. CASE ProbeWorker(answers)
    <3>1. gate.kind = "WORKER" /\ web' = rollout.release
      BY <1>1, <2>4 DEF ProbeWorker, Proceed
    <3>2. serving.release = web'
      BY <1>1, <2>2, <3>1 DEF ReleasesInvariant, StagesSound
    <3>3. ~IsReady(Broken(gate))
      BY <2>2, <3>1, ReleaseAssumption DEF IsReady, Broken, Gates
    <3>4. /\ IsReady(Confirmed(gate)) /\ heartbeat.release = rollout.release
      BY <1>1, <2>4, <3>3 DEF ProbeWorker, Proceed
    <3>5. \/ gate.advanced
          \/ gate.previous <= StaleAfter /\ heartbeat.age < gate.previous
      BY <2>2, <3>4 DEF IsReady, Confirmed, Gates
    <3>6. gate.wrote
      <4>1. /\ gate.consecutive \in Nat /\ gate.previous \in Nat
            /\ heartbeat.age \in Nat /\ StaleAfter \in Nat
        BY <1>1, <2>2, ReleaseAssumption
           DEF Gates, ReleasesInvariant, HeartbeatSound
      <4> QED BY <2>2, <3>1, <3>4, <3>5, <4>1 DEF GateSound
    <3> QED BY <3>1, <3>2, <3>4, <3>6
  <2> QED BY <2>1, <2>3, <2>4
<1>2. ReleasesInvariant /\ [ReleasesNext]_releaseVars =>
        [web' # web => /\ serving.release = web'
                       /\ heartbeat.release = web'
                       /\ gate.wrote]_releaseVars
  BY <1>1
<1> QED
  BY <1>2, ReleasesInvariantHolds, PTL DEF ReleasesSpec, BundleFollowsWorker

----------------------------------------------------------------------------
(* Incidents.  What a caller read of an incident may be old, but only the  *)
(* watch raises a severity, and what is said of an incident is said of one *)
(* that was confirmed before it is sent.                                   *)

SoundRows ==
  {row \in [state : {"OPEN", "CLEARED", "FORGOTTEN"}, condition : Conditions,
            print : Fingerprints, severe : BOOLEAN, count : Nat \ {0},
            healthy : Nat, confirmed : BOOLEAN, escalated : BOOLEAN] :
     /\ row.print = FingerprintOf[row.condition]
     /\ row.condition \in Reported \cap Severe => row.severe}

RowsSound ==
  /\ incident \in [Incidents -> SoundRows \cup {NoRow}]
  /\ Rows = 1 .. Cardinality(Rows)
  /\ \A i, j \in OpenRows : incident[i].print = incident[j].print => i = j

\* What p has read and has to do; row says what has changed since.
CallSound(p, c) ==
  c # NoCall =>
    /\ c = [step |-> c.step, firing |-> c.firing, sweep |-> c.sweep,
            alerts |-> c.alerts, at |-> c.at, seen |-> c.seen]
    /\ c.seen = [j \in DOMAIN c.seen |-> c.seen[j]]
    /\ DOMAIN c.seen \subseteq Rows
    /\ \A j \in DOMAIN c.seen :
         /\ c.seen[j] \in SoundRows
         /\ c.seen[j].print = incident[j].print
         /\ c.seen[j].confirmed => incident[j].confirmed
         /\ p = Watch => c.seen[j].escalated = incident[j].escalated
    /\ c.firing \subseteq (IF p = Watch THEN Conditions ELSE Reported)
    /\ c.sweep \subseteq DOMAIN c.seen
    /\ \A j \in c.sweep : c.seen[j].print \notin Prints(c.firing)
    /\ c.step = "CONFIRM" => c.at \in Rows
    /\ c.step = "CLEAR" => c.at \in DOMAIN c.seen \ c.sweep

HasToTell(p, i, k) == call[p] # NoCall /\ <<i, k>> \in call[p].alerts

\* At most one caller has a confirmation to send, and none when it was sent.
AlertsSound ==
  /\ alerted \in [Incidents -> [Kinds -> 0 .. 2]]
  /\ \A i \in Incidents :
       /\ alerted[i]["CONFIRMED"] <= 1 /\ alerted[i]["ESCALATED"] <= 1
       /\ \A k \in Kinds :
            alerted[i][k] > 0 => i \in Rows /\ incident[i].confirmed
       /\ alerted[i]["ESCALATED"] > 0 => incident[i].escalated
  /\ \A p \in Callers, i \in Incidents, k \in Kinds : HasToTell(p, i, k) =>
       /\ i \in Rows /\ incident[i].confirmed
       /\ k = "CONFIRMED" =>
            /\ alerted[i][k] = 0
            /\ \A q \in Callers : HasToTell(q, i, k) => q = p
       /\ k = "ESCALATED" =>
            p = Watch /\ incident[i].escalated /\ alerted[i][k] = 0

IncidentsInvariant ==
  /\ holding \subseteq Conditions \ Reported
  /\ RowsSound
  /\ call = [p \in Callers |-> call[p]]
  /\ \A p \in Callers : CallSound(p, call[p])
  /\ AlertsSound

\* What every step does to the rows that are there.
RowsEvolve ==
  \A j \in Rows :
    /\ j \in Rows' /\ incident'[j].print = incident[j].print
    /\ incident[j].confirmed => incident'[j].confirmed
    /\ incident[j].escalated => incident'[j].escalated

SameEscalations == \A j \in Rows : incident'[j].escalated = incident[j].escalated

LEMMA NoRowIsUnsound == NoRow \notin SoundRows
BY DEF NoRow, SoundRows

LEMMA RowsOfIncidents ==
  ASSUME RowsSound
  PROVE  \A i \in Incidents : i \in Rows <=> incident[i] \in SoundRows
BY NoRowIsUnsound DEF RowsSound, Rows

\* A row that is revised keeps its print, and nothing that was said of it.
LEMMA RowRevised ==
  ASSUME RowsSound, NEW i \in Rows, NEW row \in SoundRows,
         incident' = [incident EXCEPT ![i] = row],
         row.print = incident[i].print,
         row.state = "OPEN" => incident[i].state = "OPEN",
         incident[i].confirmed => row.confirmed,
         incident[i].escalated => row.escalated
  PROVE  RowsSound' /\ RowsEvolve /\ Rows' = Rows /\ incident'[i] = row
<1>1. i \in Incidents /\ incident'[i] = row
  BY DEF Rows, RowsSound
<1>2. \A j \in Incidents : j # i => incident'[j] = incident[j]
  BY DEF RowsSound
<1>3. Rows' = Rows
  BY <1>1, <1>2, NoRowIsUnsound DEF Rows
<1>4. incident' \in [Incidents -> SoundRows \cup {NoRow}]
  BY <1>1 DEF RowsSound
<1>5. \A j \in OpenRows' :
        j \in OpenRows /\ incident'[j].print = incident[j].print
  BY <1>1, <1>2 DEF OpenRows, IsOpen
<1>6. RowsSound'
  BY <1>3, <1>4, <1>5 DEF RowsSound
<1>7. RowsEvolve
  BY <1>1, <1>2, <1>3 DEF RowsEvolve, Rows
<1> QED BY <1>1, <1>3, <1>6, <1>7

LEMMA RowsUnchanged ==
  ASSUME RowsSound, UNCHANGED incident
  PROVE  RowsSound' /\ RowsEvolve /\ Rows' = Rows /\ SameEscalations
BY DEF RowsSound, RowsEvolve, Rows, OpenRows, IsOpen, SameEscalations

\* What a caller read stays a past of what there is.
LEMMA CallEvolves ==
  ASSUME RowsSound, RowsEvolve, NEW p, NEW c, CallSound(p, c),
         p = Watch => SameEscalations
  PROVE  CallSound(p, c)'
<1>1. SUFFICES ASSUME c # NoCall PROVE CallSound(p, c)'
  BY DEF CallSound
<1>2. \A j \in DOMAIN c.seen :
        /\ j \in Rows' /\ c.seen[j].print = incident'[j].print
        /\ c.seen[j].confirmed => incident'[j].confirmed
        /\ p = Watch => c.seen[j].escalated = incident'[j].escalated
  BY <1>1 DEF CallSound, RowsEvolve, SameEscalations
<1>3. c.step = "CONFIRM" => c.at \in Rows'
  BY <1>1 DEF CallSound, RowsEvolve
<1>4. DOMAIN c.seen \subseteq Rows'
  BY <1>2
<1> QED BY <1>1, <1>2, <1>3, <1>4 DEF CallSound, Prints

\* A step of p that adds nothing to tell.
LEMMA AlertsKept ==
  ASSUME AlertsSound, RowsEvolve, UNCHANGED alerted,
         \A p \in Callers, i \in Incidents, k \in Kinds :
           HasToTell(p, i, k)' => HasToTell(p, i, k)
  PROVE  AlertsSound'
<1>1. \A j \in Incidents :
        alerted[j]["ESCALATED"] > 0 => j \in Rows /\ incident[j].escalated
  BY DEF AlertsSound, Kinds
<1>2. \A p \in Callers, i \in Incidents, k \in Kinds : HasToTell(p, i, k)' =>
        /\ i \in Rows' /\ incident'[i].confirmed
        /\ k = "CONFIRMED" =>
             /\ alerted[i][k] = 0
             /\ \A q \in Callers : HasToTell(q, i, k)' => q = p
        /\ k = "ESCALATED" =>
             p = Watch /\ incident'[i].escalated /\ alerted[i][k] = 0
  BY DEF AlertsSound, RowsEvolve
<1>3. /\ alerted \in [Incidents -> [Kinds -> 0 .. 2]]
      /\ \A i \in Incidents :
           /\ alerted[i]["CONFIRMED"] <= 1 /\ alerted[i]["ESCALATED"] <= 1
           /\ \A k \in Kinds :
                alerted[i][k] > 0 => i \in Rows' /\ incident'[i].confirmed
           /\ alerted[i]["ESCALATED"] > 0 => incident'[i].escalated
  BY <1>1 DEF AlertsSound, RowsEvolve
<1> QED BY <1>2, <1>3 DEF AlertsSound

LEMMA AlertAdded ==
  ASSUME AlertsSound, RowsEvolve, UNCHANGED alerted,
         NEW p \in Callers, NEW i \in Incidents, NEW k \in Kinds,
         \A q \in Callers, j \in Incidents, l \in Kinds :
           HasToTell(q, j, l)' => \/ HasToTell(q, j, l)
                                  \/ q = p /\ j = i /\ l = k,
         i \in Rows', incident'[i].confirmed,
         k = "CONFIRMED" => ~incident[i].confirmed,
         k = "ESCALATED" =>
           p = Watch /\ incident'[i].escalated /\ ~incident[i].escalated
  PROVE  AlertsSound'
<1>1. /\ k = "CONFIRMED" =>
           alerted[i][k] = 0 /\ \A q \in Callers : ~HasToTell(q, i, k)
      /\ k = "ESCALATED" => alerted[i][k] = 0
  BY DEF AlertsSound, Kinds
<1>2. /\ alerted' \in [Incidents -> [Kinds -> 0 .. 2]]
      /\ \A j \in Incidents :
           /\ alerted'[j]["CONFIRMED"] <= 1 /\ alerted'[j]["ESCALATED"] <= 1
           /\ \A l \in Kinds :
                alerted'[j][l] > 0 => j \in Rows' /\ incident'[j].confirmed
           /\ alerted'[j]["ESCALATED"] > 0 => incident'[j].escalated
  <2>1. \A j \in Incidents :
          alerted[j]["ESCALATED"] > 0 => j \in Rows /\ incident[j].escalated
    BY DEF AlertsSound, Kinds
  <2> QED BY <2>1 DEF AlertsSound, RowsEvolve
<1>3. ASSUME NEW q \in Callers, NEW j \in Incidents, NEW l \in Kinds,
             HasToTell(q, j, l)'
      PROVE  /\ j \in Rows' /\ incident'[j].confirmed
             /\ l = "CONFIRMED" =>
                  /\ alerted'[j][l] = 0
                  /\ \A r \in Callers : HasToTell(r, j, l)' => r = q
             /\ l = "ESCALATED" =>
                  q = Watch /\ incident'[j].escalated /\ alerted'[j][l] = 0
  <2>1. CASE q = p /\ j = i /\ l = k
    BY <1>1, <2>1
  <2>2. CASE HasToTell(q, j, l)
    <3>1. j \in Rows' /\ incident'[j].confirmed
      BY <2>2 DEF AlertsSound, RowsEvolve
    <3>2. ASSUME l = "CONFIRMED"
          PROVE  /\ alerted'[j][l] = 0
                 /\ \A r \in Callers : HasToTell(r, j, l)' => r = q
      <4>1. alerted[j][l] = 0 /\ \A r \in Callers : HasToTell(r, j, l) => r = q
        BY <2>2, <3>2 DEF AlertsSound
      <4>2. ~(j = i /\ l = k)
        BY <1>1, <2>2, <3>2
      <4> QED BY <4>1, <4>2
    <3>3. l = "ESCALATED" =>
            q = Watch /\ incident'[j].escalated /\ alerted'[j][l] = 0
      BY <2>2 DEF AlertsSound, RowsEvolve
    <3> QED BY <3>1, <3>2, <3>3
  <2> QED BY <1>3, <2>1, <2>2
<1> QED BY <1>2, <1>3 DEF AlertsSound

\* A step of one caller leaves the others what they read.
LEMMA CallChanges ==
  ASSUME IncidentsInvariant, RowsEvolve, NEW p \in Callers, NEW c,
         call' = [call EXCEPT ![p] = c], CallSound(p, c)',
         p # Watch => SameEscalations
  PROVE  \A q \in Callers : CallSound(q, call[q])'
<1>1. call'[p] = c /\ \A q \in Callers : q # p => call'[q] = call[q]
  BY DEF IncidentsInvariant
<1>2. TAKE q \in Callers
<1>3. CASE q = p
  BY <1>1, <1>3 DEF CallSound
<1>4. CASE q # p
  <2>1. PICK d : d = call[q]
    OBVIOUS
  <2>2. CallSound(q, d) /\ (q = Watch => SameEscalations)
    BY <1>4, <2>1 DEF IncidentsInvariant
  <2>3. CallSound(q, d)'
    BY <2>2, CallEvolves DEF IncidentsInvariant
  <2>4. call'[q] = d
    BY <1>1, <1>4, <2>1
  <2> QED BY <2>3, <2>4 DEF CallSound
<1> QED BY <1>3, <1>4

\* A step of one caller, who has nothing more to tell or one thing.
LEMMA CallMade ==
  ASSUME IncidentsInvariant, RowsSound', RowsEvolve,
         UNCHANGED <<holding, alerted>>,
         NEW p \in Callers, NEW c, call' = [call EXCEPT ![p] = c],
         CallSound(p, c)', p # Watch => SameEscalations,
         c # NoCall =>
           (call[p] # NoCall /\ c.alerts \subseteq call[p].alerts)
             \/ c.alerts = {}
  PROVE  IncidentsInvariant'
<1>1. call' = [q \in Callers |-> call'[q]] /\ call'[p] = c
      /\ \A q \in Callers : q # p => call'[q] = call[q]
  BY DEF IncidentsInvariant
<1>2. \A q \in Callers : CallSound(q, call[q])'
  BY CallChanges
<1>3. \A q \in Callers, i \in Incidents, k \in Kinds :
        HasToTell(q, i, k)' => HasToTell(q, i, k)
  BY <1>1 DEF HasToTell
<1>4. AlertsSound'
  BY <1>3, AlertsKept DEF IncidentsInvariant
<1> QED BY <1>1, <1>2, <1>4 DEF IncidentsInvariant

LEMMA CallAlerts ==
  ASSUME IncidentsInvariant, RowsSound', RowsEvolve,
         UNCHANGED <<holding, alerted>>,
         NEW p \in Callers, NEW c, call' = [call EXCEPT ![p] = c],
         CallSound(p, c)', p # Watch => SameEscalations,
         NEW i \in Rows, NEW k \in Kinds,
         call[p] # NoCall, c.alerts = call[p].alerts \cup {<<i, k>>},
         incident'[i].confirmed,
         k = "CONFIRMED" => ~incident[i].confirmed,
         k = "ESCALATED" =>
           p = Watch /\ incident'[i].escalated /\ ~incident[i].escalated
  PROVE  IncidentsInvariant'
<1>1. call' = [q \in Callers |-> call'[q]] /\ call'[p] = c
      /\ \A q \in Callers : q # p => call'[q] = call[q]
  BY DEF IncidentsInvariant
<1>2. \A q \in Callers : CallSound(q, call[q])'
  BY CallChanges
<1>3. \A q \in Callers, j \in Incidents, l \in Kinds :
        HasToTell(q, j, l)' => HasToTell(q, j, l) \/ (q = p /\ j = i /\ l = k)
  BY <1>1 DEF HasToTell
<1>4. i \in Incidents /\ i \in Rows'
  BY DEF Rows, RowsEvolve
<1>5. AlertsSound'
  BY <1>3, <1>4, AlertAdded DEF IncidentsInvariant
<1> QED BY <1>1, <1>2, <1>5 DEF IncidentsInvariant

LEMMA EndCall ==
  ASSUME IncidentsInvariant, NEW p \in Callers, Raises(p),
         UNCHANGED <<holding, incident, alerted>>
  PROVE  IncidentsInvariant'
<1>1. RowsSound' /\ RowsEvolve /\ SameEscalations
  BY RowsUnchanged DEF IncidentsInvariant
<1>2. CallSound(p, NoCall)'
  BY DEF CallSound
<1> QED BY <1>1, <1>2, CallMade DEF Raises

\* What is read at the beginning of a call is all that there is.
LEMMA BeginCall ==
  ASSUME IncidentsInvariant, NEW p \in Callers,
         NEW firing \in SUBSET (IF p = Watch THEN Conditions ELSE Reported),
         NEW sweeping \in SUBSET OpenRows,
         \A i \in sweeping : ~Firing(i, firing),
         Begins(p, firing, sweeping),
         UNCHANGED <<holding, incident, alerted>>
  PROVE  IncidentsInvariant'
<1> DEFINE wanted == {i \in OpenRows : i \in sweeping \/ Firing(i, firing)}
<1>1. RowsSound' /\ RowsEvolve /\ SameEscalations /\ Rows' = Rows
  BY RowsUnchanged DEF IncidentsInvariant
<1>2. PICK seen : seen = [i \in wanted |-> incident[i]]
  OBVIOUS
<1>3. PICK c : c = [step |-> "NEXT", firing |-> firing, sweep |-> sweeping,
                    alerts |-> {}, at |-> 0, seen |-> seen]
  OBVIOUS
<1>4. call' = [call EXCEPT ![p] = c]
  BY <1>2, <1>3 DEF Begins, Reads
<1>5. \A i \in wanted : i \in Rows /\ incident[i] \in SoundRows
  BY RowsOfIncidents DEF OpenRows, IsOpen, Rows, NoRow, IncidentsInvariant
<1>6. CallSound(p, c)'
  BY <1>1, <1>2, <1>3, <1>5 DEF CallSound, Prints, Firing
<1>7. c.alerts = {}
  BY <1>3
<1> QED BY <1>1, <1>4, <1>6, <1>7, CallMade

LEMMA ChangeStep ==
  ASSUME IncidentsInvariant, NEW c \in Conditions, Change(c)
  PROVE  IncidentsInvariant'
<1>1. RowsSound' /\ RowsEvolve /\ SameEscalations /\ Rows' = Rows
  BY RowsUnchanged DEF IncidentsInvariant, Change
<1>2. holding' \subseteq Conditions \ Reported
  BY DEF IncidentsInvariant, Change
<1>3. \A p \in Callers : CallSound(p, call[p])'
  <2>1. TAKE p \in Callers
  <2>2. PICK d : d = call[p] /\ CallSound(p, d)
    BY DEF IncidentsInvariant
  <2>3. CallSound(p, d)'
    BY <1>1, <2>2, CallEvolves DEF IncidentsInvariant
  <2> QED BY <2>2, <2>3 DEF Change, CallSound
<1>4. AlertsSound'
  BY <1>1, AlertsKept DEF IncidentsInvariant, Change, HasToTell
<1> QED BY <1>1, <1>2, <1>3, <1>4 DEF IncidentsInvariant, Change

LEMMA ConfirmationIsBoolean ==
  ASSUME NEW c \in Conditions, NEW n \in Nat
  PROVE  ConfirmationIsSatisfied(c, n) \subseteq BOOLEAN
<1>1. PICK after \in Nat : after = ConfirmAfter[c]
  BY IncidentsAssumption
<1>2. (n >= after) \in BOOLEAN
  BY <1>1
<1> QED BY <1>1, <1>2, Zenon DEF ConfirmationIsSatisfied

LEMMA OpenIncidentStep ==
  ASSUME IncidentsInvariant, NEW p \in Callers, NEW f \in Conditions,
         OpenIncident(p, f)
  PROVE  IncidentsInvariant'
<1>1. CASE \E j \in OpenRows : incident[j].print = FingerprintOf[f]
  BY <1>1, EndCall DEF OpenIncident
<1>2. CASE ~\E j \in OpenRows : incident[j].print = FingerprintOf[f]
  <2>1. PICK severe \in BOOLEAN, i \in Incidents, confirms \in BOOLEAN :
          /\ severe = (f \in Severe) /\ i = Cardinality(Rows) + 1
          /\ incident' = [incident EXCEPT ![i] =
               [state |-> "OPEN", condition |-> f, print |-> FingerprintOf[f],
                severe |-> severe, count |-> 1, healthy |-> 0,
                confirmed |-> FALSE, escalated |-> FALSE]]
          /\ ConfirmsNext(p, f, i, confirms)
    <3>1. PICK severe \in BOOLEAN : severe = (f \in Severe)
      <4>1. (f \in Severe) \in BOOLEAN
        OBVIOUS
      <4> QED BY <4>1, Zenon
    <3>2. \E i \in Incidents :
            /\ i = Cardinality(Rows) + 1
            /\ incident' = [incident EXCEPT ![i] =
                 [state |-> "OPEN", condition |-> f,
                  print |-> FingerprintOf[f], severe |-> severe, count |-> 1,
                  healthy |-> 0, confirmed |-> FALSE, escalated |-> FALSE]]
            /\ \E confirms \in ConfirmationIsSatisfied(f, 1) :
                 ConfirmsNext(p, f, i, confirms)
      <4>1. \E i \in Incidents :
              /\ i = Cardinality(Rows) + 1
              /\ incident' = [incident EXCEPT ![i] =
                   [state |-> "OPEN", condition |-> f,
                    print |-> FingerprintOf[f], severe |-> f \in Severe,
                    count |-> 1, healthy |-> 0, confirmed |-> FALSE,
                    escalated |-> FALSE]]
              /\ \E confirms \in ConfirmationIsSatisfied(f, 1) :
                   ConfirmsNext(p, f, i, confirms)
        BY <1>2, Zenon DEF OpenIncident
      <4> QED BY <3>1, <4>1, Zenon
    <3>3. ConfirmationIsSatisfied(f, 1) \subseteq BOOLEAN
      BY ConfirmationIsBoolean
    <3> QED BY <3>1, <3>2, <3>3, Zenon
  <2>2. PICK row :
          /\ row = [state |-> "OPEN", condition |-> f,
                    print |-> FingerprintOf[f], severe |-> severe, count |-> 1,
                    healthy |-> 0, confirmed |-> FALSE, escalated |-> FALSE]
          /\ row \in SoundRows /\ incident' = [incident EXCEPT ![i] = row]
    <3>1. FingerprintOf[f] \in Fingerprints /\ (f \in Severe => severe)
      BY <2>1, IncidentsAssumption, Zenon
    <3>2. PICK row :
            row = [state |-> "OPEN", condition |-> f,
                   print |-> FingerprintOf[f], severe |-> severe, count |-> 1,
                   healthy |-> 0, confirmed |-> FALSE, escalated |-> FALSE]
      OBVIOUS
    <3>3. row \in SoundRows
      BY <3>1, <3>2 DEF SoundRows
    <3> QED BY <2>1, <3>2, <3>3, Zenon
  <2>3. PICK n \in Nat : Rows = 1 .. n /\ i = n + 1
    <3>1. Rows = 1 .. Cardinality(Rows)
      BY DEF IncidentsInvariant, RowsSound
    <3>2. IsFiniteSet(1 .. MaxIncidents) /\ Rows \subseteq 1 .. MaxIncidents
      <4>1. MaxIncidents \in Nat
        BY IncidentsAssumption
      <4>2. IsFiniteSet(1 .. MaxIncidents)
        BY <4>1, FS_Interval
      <4> QED BY <4>2 DEF Rows, Incidents
    <3>3. IsFiniteSet(Rows)
      BY <3>2, FS_Subset
    <3> QED BY <2>1, <3>1, <3>3, FS_CardinalityType
  <2>4. i \notin Rows /\ incident'[i] = row
        /\ \A j \in Incidents : j # i => incident'[j] = incident[j]
    <3>1. i \notin Rows
      BY <2>3
    <3>2. DOMAIN incident = Incidents
      BY DEF IncidentsInvariant, RowsSound
    <3> QED BY <2>2, <3>1, <3>2
  <2>5. Rows' = Rows \cup {i} /\ Rows' = 1 .. (n + 1)
    <3>1. Rows' = Rows \cup {i}
      BY <2>2, <2>4, NoRowIsUnsound DEF Rows
    <3> QED BY <2>3, <3>1
  <2>6. RowsSound'
    <3>1. Cardinality(Rows') = n + 1
      <4>1. Cardinality(1 .. (n + 1)) = n + 1
        BY FS_Interval
      <4> QED BY <2>5, <4>1, Zenon
    <3>2. incident' \in [Incidents -> SoundRows \cup {NoRow}]
      BY <2>2 DEF IncidentsInvariant, RowsSound
    <3>3. \A j \in OpenRows' :
            j = i \/ (j \in OpenRows /\ incident'[j] = incident[j])
      BY <2>4 DEF OpenRows, IsOpen
    <3>4. \A j, k \in OpenRows' : incident'[j].print = incident'[k].print
                                   => j = k
      BY <1>2, <2>2, <2>4, <3>3 DEF IncidentsInvariant, RowsSound
    <3> QED BY <2>5, <3>1, <3>2, <3>4 DEF RowsSound
  <2>7. RowsEvolve /\ SameEscalations
    BY <2>4, <2>5 DEF RowsEvolve, SameEscalations, Rows
  <2>8. PICK c : c = call[p]
    OBVIOUS
  <2>9. c # NoCall /\ c.step = "NEXT" /\ f \in c.firing /\ CallSound(p, c)
    BY <2>8 DEF OpenIncident, CallIs, NoCall, IncidentsInvariant
  <2>10. Unread(c.seen, i) = c.seen
    <3>1. DOMAIN c.seen \ {i} = DOMAIN c.seen
      BY <2>4, <2>9 DEF CallSound
    <3> QED BY <2>9, <3>1 DEF Unread, CallSound
  <2>11. PICK d : d = [step |-> IF confirms THEN "CONFIRM" ELSE "NEXT",
                       seen |-> c.seen, firing |-> c.firing \ {f},
                       sweep |-> c.sweep, alerts |-> c.alerts,
                       at |-> IF confirms THEN i ELSE 0]
    OBVIOUS
  <2>12. call' = [call EXCEPT ![p] = d]
    BY <2>1, <2>8, <2>10, <2>11 DEF ConfirmsNext, IncidentsInvariant
  <2>13. CallSound(p, c)'
    BY <2>7, <2>9, CallEvolves DEF IncidentsInvariant
  <2>14. CallSound(p, d)'
    BY <2>5, <2>9, <2>11, <2>13 DEF CallSound, Prints
  <2>15. call[p] # NoCall /\ d.alerts \subseteq call[p].alerts
    BY <2>8, <2>9, <2>11
  <2> QED BY <2>6, <2>7, <2>12, <2>14, <2>15, CallMade DEF OpenIncident
<1> QED BY <1>1, <1>2

\* An incident that was dealt with is not looked at again.
LEMMA CallReads ==
  ASSUME NEW p, NEW c, CallSound(p, c), c # NoCall, RowsEvolve, NEW i, NEW d,
         d = [step |-> d.step, firing |-> d.firing, sweep |-> d.sweep,
              alerts |-> d.alerts, at |-> d.at, seen |-> Unread(c.seen, i)],
         d.firing \subseteq c.firing, d.sweep \subseteq c.sweep \ {i},
         p = Watch => \A j \in Rows \ {i} :
                        incident'[j].escalated = incident[j].escalated,
         d.step = "CONFIRM" => d.at \in Rows, d.step # "CLEAR"
  PROVE  CallSound(p, d)'
<1>1. /\ DOMAIN d.seen = DOMAIN c.seen \ {i}
      /\ d.seen = [j \in DOMAIN d.seen |-> d.seen[j]]
      /\ \A j \in DOMAIN d.seen : d.seen[j] = c.seen[j]
  BY DEF Unread
<1>2. \A j \in DOMAIN d.seen :
        /\ j \in Rows' /\ d.seen[j] \in SoundRows
        /\ d.seen[j].print = incident'[j].print
        /\ d.seen[j].confirmed => incident'[j].confirmed
        /\ p = Watch => d.seen[j].escalated = incident'[j].escalated
  BY <1>1 DEF CallSound, RowsEvolve
<1>3. d.sweep \subseteq DOMAIN d.seen
      /\ \A j \in d.sweep : d.seen[j].print \notin Prints(d.firing)
  BY <1>1 DEF CallSound, Prints
<1>4. d.step = "CONFIRM" => d.at \in Rows'
  BY DEF RowsEvolve
<1>5. d.firing \subseteq (IF p = Watch THEN Conditions ELSE Reported)
  BY DEF CallSound
<1>6. d = [step |-> d.step, firing |-> d.firing, sweep |-> d.sweep,
           alerts |-> d.alerts, at |-> d.at, seen |-> d.seen]
  BY DEF Unread
<1> QED BY <1>1, <1>2, <1>3, <1>4, <1>5, <1>6 DEF CallSound, Prints

\* The call of a caller that is about to do something.
LEMMA CallOf ==
  ASSUME IncidentsInvariant, NEW p \in Callers, call[p] # NoCall
  PROVE  \E c : /\ c = call[p] /\ c # NoCall /\ CallSound(p, c)
               /\ c \in [step : {c.step}, firing : {c.firing},
                        sweep : {c.sweep}, alerts : {c.alerts},
                        at : {c.at}, seen : {c.seen}]
<1>1. PICK c : c = call[p] /\ c # NoCall /\ CallSound(p, c)
  BY DEF IncidentsInvariant
<1>2. c = [step |-> c.step, firing |-> c.firing, sweep |-> c.sweep,
           alerts |-> c.alerts, at |-> c.at, seen |-> c.seen]
  BY <1>1 DEF CallSound
<1> QED BY <1>1, <1>2

\* Only the watch raises a severity, and it has read whether it did.
LEMMA RisingIsOfTheWatch ==
  ASSUME NEW p, NEW c, CallSound(p, c), c # NoCall, NEW f \in c.firing,
         NEW i \in DOMAIN c.seen, c.seen[i].print = FingerprintOf[f],
         Rising(f, c.seen[i])
  PROVE  p = Watch /\ incident[i].confirmed /\ ~incident[i].escalated
<1>1. PICK row \in SoundRows : row = c.seen[i]
  BY DEF CallSound
<1>2. /\ row.confirmed /\ ~row.escalated /\ ~row.severe /\ f \in Severe
      /\ row.print = FingerprintOf[f] /\ row.condition \in Conditions
      /\ row.print = FingerprintOf[row.condition]
      /\ row.condition \in Reported \cap Severe => row.severe
  BY <1>1 DEF Rising, SoundRows
<1>3. p = Watch
  <2>1. f \in Reported => row.condition = f
    BY <1>2, IncidentsAssumption
  <2> QED BY <1>2, <2>1 DEF CallSound
<1> QED BY <1>1, <1>2, <1>3 DEF CallSound

Joined(old, f, count, seen, risen) ==
  [old EXCEPT !.condition = f, !.count = count, !.healthy = 0,
              !.severe = IF f \in Severe /\ ~seen THEN TRUE ELSE @,
              !.escalated = @ \/ risen]

LEMMA JoinedRow ==
  ASSUME NEW old \in SoundRows, NEW f \in Conditions,
         NEW count \in Nat \ {0}, NEW risen \in BOOLEAN, NEW seen \in BOOLEAN,
         old.print = FingerprintOf[f],
         f \in Reported \cap Severe => old.severe
  PROVE  LET new == Joined(old, f, count, seen, risen) IN
           /\ new \in SoundRows
           /\ new.print = old.print /\ new.state = old.state
           /\ new.confirmed = old.confirmed
           /\ new.escalated = (old.escalated \/ risen)
<1>1. PICK severe \in BOOLEAN :
        severe = IF f \in Severe /\ ~seen THEN TRUE ELSE old.severe
  BY DEF SoundRows
<1>2. PICK escalated \in BOOLEAN : escalated = (old.escalated \/ risen)
  BY DEF SoundRows
<1>3. PICK new : new = [old EXCEPT !.condition = f, !.count = count,
                          !.healthy = 0, !.severe = severe,
                          !.escalated = escalated]
  OBVIOUS
<1>4. new = [state |-> old.state, condition |-> f, print |-> old.print,
             severe |-> severe, count |-> count, healthy |-> 0,
             confirmed |-> old.confirmed, escalated |-> escalated]
  <2>1. old \in [state : {"OPEN", "CLEARED", "FORGOTTEN"},
                condition : Conditions, print : Fingerprints,
                severe : BOOLEAN, count : Nat \ {0}, healthy : Nat,
                confirmed : BOOLEAN, escalated : BOOLEAN]
    BY DEF SoundRows
  <2> QED BY <1>3, <2>1, Zenon
<1>5. new \in SoundRows
  <2>1. f \in Reported \cap Severe => severe
    BY <1>1
  <2> QED BY <1>4, <2>1 DEF SoundRows
<1>6. /\ new.print = old.print /\ new.state = old.state
      /\ new.confirmed = old.confirmed /\ new.escalated = escalated
  BY <1>4
<1>7. new = Joined(old, f, count, seen, risen)
  BY <1>1, <1>2, <1>3, Zenon DEF Joined
<1> QED BY <1>2, <1>5, <1>6, <1>7

LEMMA JoinIncidentStep ==
  ASSUME IncidentsInvariant, NEW p \in Callers, NEW f \in Conditions,
         NEW i \in Incidents, JoinIncident(p, f, i)
  PROVE  IncidentsInvariant'
<1>1. CASE ~Exists(i)
  BY <1>1, EndCall DEF JoinIncident
<1>2. CASE Exists(i)
  <2>1. call[p] # NoCall
    BY DEF JoinIncident, CallIs, NoCall
  <2>2. PICK c : /\ c = call[p] /\ c # NoCall /\ CallSound(p, c)
                 /\ c \in [step : {c.step}, firing : {c.firing},
                          sweep : {c.sweep}, alerts : {c.alerts},
                          at : {c.at}, seen : {c.seen}]
    BY <2>1, CallOf
  <2>3. /\ c.step = "NEXT" /\ f \in c.firing /\ i \in DOMAIN c.seen
        /\ c.seen[i].print = FingerprintOf[f] /\ i \in Rows
    BY <2>2 DEF JoinIncident, CallIs, SeenOf, CallSound
  <2>4. PICK row \in SoundRows : row = c.seen[i]
    BY <2>2, <2>3 DEF CallSound
  <2>5. PICK count \in Nat \ {0} :
          count = IF Interrupted(row) THEN 1 ELSE Capped(row.count + 1, f)
    <3>1. row.count \in Nat \ {0} /\ ConfirmAfter[f] \in Nat \ {0}
      BY <2>4, IncidentsAssumption DEF SoundRows
    <3> QED BY <3>1 DEF Capped
  <2>6. PICK risen \in BOOLEAN : risen = Rising(f, row)
    <3>1. (f \in Severe) \in BOOLEAN /\ row.severe \in BOOLEAN
          /\ row.confirmed \in BOOLEAN /\ row.escalated \in BOOLEAN
      BY <2>4 DEF SoundRows
    <3>2. Rising(f, row) \in BOOLEAN
      BY <3>1 DEF Rising
    <3> QED BY <3>2, Zenon
  <2>7. incident' = [incident EXCEPT
           ![i].condition = f, ![i].count = count, ![i].healthy = 0,
           ![i].severe = IF f \in Severe /\ ~row.severe THEN TRUE ELSE @,
           ![i].escalated = @ \/ risen]
    BY <1>2, <2>2, <2>4, <2>5, <2>6, Zenon DEF JoinIncident
  <2>8. incident[i].print = FingerprintOf[f]
    BY <2>2, <2>3 DEF CallSound
  <2>9. f \in Reported \cap Severe => incident[i].severe
    <3>1. PICK old \in SoundRows : old = incident[i]
      BY <2>3, RowsOfIncidents DEF IncidentsInvariant, Rows
    <3>2. f \in Reported => old.condition = f
      BY <2>8, <3>1, IncidentsAssumption DEF SoundRows
    <3> QED BY <3>1, <3>2 DEF SoundRows
  <2>10. /\ RowsSound' /\ RowsEvolve
         /\ incident'[i].confirmed = incident[i].confirmed
         /\ incident'[i].escalated = (incident[i].escalated \/ risen)
         /\ \A j \in Rows \ {i} :
              incident'[j].escalated = incident[j].escalated
    <3>1. PICK old \in SoundRows : old = incident[i]
      BY <2>3, RowsOfIncidents DEF IncidentsInvariant, Rows
    <3>2. PICK severe \in BOOLEAN : severe = row.severe
      BY <2>4 DEF SoundRows
    <3>3. old.print = FingerprintOf[f]
          /\ (f \in Reported \cap Severe => old.severe)
      BY <2>8, <2>9, <3>1
    <3>4. PICK new : new = Joined(old, f, count, severe, risen)
      OBVIOUS
    <3>5. /\ new \in SoundRows
          /\ new.print = old.print /\ new.state = old.state
          /\ new.confirmed = old.confirmed
          /\ new.escalated = (old.escalated \/ risen)
      BY <3>3, <3>4, JoinedRow
    <3>6. incident' = [incident EXCEPT ![i] = new]
      BY <2>7, <3>1, <3>2, <3>4, Zenon DEF Joined
    <3>7. /\ i \in Rows /\ RowsSound /\ new.print = incident[i].print
          /\ new.state = "OPEN" => incident[i].state = "OPEN"
          /\ incident[i].confirmed => new.confirmed
          /\ incident[i].escalated => new.escalated
      BY <2>3, <3>1, <3>5 DEF IncidentsInvariant
    <3>8. RowsSound' /\ RowsEvolve /\ incident'[i] = new
      BY <3>5, <3>6, <3>7, RowRevised
    <3>9. \A j \in Rows \ {i} : incident'[j] = incident[j]
      BY <3>6 DEF IncidentsInvariant, RowsSound, Rows
    <3> QED BY <3>1, <3>5, <3>8, <3>9
  <2>11. risen => p = Watch /\ incident[i].confirmed /\ ~incident[i].escalated
    BY <2>2, <2>3, <2>4, <2>6, RisingIsOfTheWatch
  <2>12. i \notin c.sweep
    BY <2>2, <2>3 DEF CallSound, Prints
  <2>13. CASE risen
    <3>1. PICK d : d = [c EXCEPT !.firing = c.firing \ {f},
                          !.seen = Unread(c.seen, i),
                          !.alerts = c.alerts \cup {<<i, "ESCALATED">>}]
      OBVIOUS
    <3>2. d = [step |-> c.step, firing |-> c.firing \ {f}, sweep |-> c.sweep,
               alerts |-> c.alerts \cup {<<i, "ESCALATED">>}, at |-> c.at,
               seen |-> Unread(c.seen, i)]
      BY <2>2, <3>1, Zenon
    <3>3. call' = [call EXCEPT ![p].firing = @ \ {f},
                     ![p].seen = Unread(@, i),
                     ![p].alerts = @ \cup {<<i, "ESCALATED">>}]
      BY <1>2, <2>2, <2>4, <2>6, <2>13, Zenon DEF JoinIncident
    <3>4. call' = [call EXCEPT ![p] = d]
      BY <2>2, <3>1, <3>3, Zenon
    <3>5. CallSound(p, d)'
      <4>1. /\ d.firing \subseteq c.firing /\ d.sweep \subseteq c.sweep \ {i}
            /\ d.step = "NEXT"
        BY <2>3, <2>12, <3>2
      <4> QED BY <2>2, <2>10, <3>2, <4>1, CallReads
    <3>6. /\ UNCHANGED <<holding, alerted>> /\ incident'[i].confirmed
          /\ incident'[i].escalated /\ "ESCALATED" \in Kinds
          /\ d.alerts = call[p].alerts \cup {<<i, "ESCALATED">>}
      BY <2>2, <2>10, <2>11, <2>13, <3>2 DEF JoinIncident, Kinds
    <3> QED BY <2>1, <2>3, <2>10, <2>11, <2>13, <3>4, <3>5, <3>6, CallAlerts
  <2>14. CASE ~risen
    <3>1. PICK confirms \in BOOLEAN : ConfirmsNext(p, f, i, confirms)
      <4>1. PICK more \in BOOLEAN :
              ConfirmsNext(p, f, i, ~row.confirmed /\ more)
        <5>1. \E more \in ConfirmationIsSatisfied(f, count) :
                ConfirmsNext(p, f, i, ~row.confirmed /\ more)
          BY <1>2, <2>2, <2>4, <2>5, <2>6, <2>14, Zenon DEF JoinIncident
        <5>2. ConfirmationIsSatisfied(f, count) \subseteq BOOLEAN
          BY ConfirmationIsBoolean
        <5> QED BY <5>1, <5>2
      <4>2. (~row.confirmed /\ more) \in BOOLEAN
        BY <2>4 DEF SoundRows
      <4> QED BY <4>1, <4>2
    <3>2. PICK d : d = [step |-> IF confirms THEN "CONFIRM" ELSE "NEXT",
                        seen |-> Unread(c.seen, i), firing |-> c.firing \ {f},
                        sweep |-> c.sweep, alerts |-> c.alerts,
                        at |-> IF confirms THEN i ELSE 0]
      OBVIOUS
    <3>3. call' = [call EXCEPT ![p] = d]
      BY <2>2, <3>1, <3>2 DEF ConfirmsNext, IncidentsInvariant
    <3>4. CallSound(p, d)'
      <4>1. /\ d.firing \subseteq c.firing /\ d.sweep \subseteq c.sweep \ {i}
            /\ d.step # "CLEAR" /\ (d.step = "CONFIRM" => d.at \in Rows)
        BY <2>3, <2>12, <3>2
      <4> QED BY <2>2, <2>10, <3>2, <4>1, CallReads
    <3>5. SameEscalations
      <4>1. (incident[i].escalated \/ FALSE) = incident[i].escalated
        <5>1. incident[i] \in SoundRows
          BY <2>3, RowsOfIncidents DEF IncidentsInvariant, Rows
        <5> QED BY <5>1 DEF SoundRows
      <4> QED BY <2>10, <2>14, <4>1 DEF SameEscalations
    <3>6. d.alerts \subseteq call[p].alerts /\ UNCHANGED <<holding, alerted>>
      BY <2>2, <3>2 DEF JoinIncident
    <3> QED BY <2>1, <2>10, <3>3, <3>4, <3>5, <3>6, CallMade
  <2> QED BY <2>13, <2>14
<1> QED BY <1>1, <1>2

ConfirmedRow(old) == [old EXCEPT !.confirmed = TRUE]
Healthier(old, healthy) == [old EXCEPT !.healthy = healthy]
Closed(old, state) == [old EXCEPT !.state = state]

LEMMA RowsRevised ==
  ASSUME NEW old \in SoundRows, NEW n \in Nat, NEW s \in {"CLEARED", "FORGOTTEN"}
  PROVE  LET a == ConfirmedRow(old)
             b == Healthier(old, n)
             c == Closed(old, s)
         IN /\ \A r \in {a, b, c} :
                 /\ r \in SoundRows /\ r.print = old.print
                 /\ r.escalated = old.escalated
                 /\ old.confirmed => r.confirmed
                 /\ r.state = "OPEN" => old.state = "OPEN"
            /\ a.confirmed
<1>1. old \in [state : {"OPEN", "CLEARED", "FORGOTTEN"},
              condition : Conditions, print : Fingerprints,
              severe : BOOLEAN, count : Nat \ {0}, healthy : Nat,
              confirmed : BOOLEAN, escalated : BOOLEAN]
  BY DEF SoundRows
<1>2. PICK a : a = ConfirmedRow(old)
  OBVIOUS
<1>3. PICK b : b = Healthier(old, n)
  OBVIOUS
<1>4. PICK c : c = Closed(old, s)
  OBVIOUS
<1>5. a = [state |-> old.state, condition |-> old.condition,
           print |-> old.print, severe |-> old.severe, count |-> old.count,
           healthy |-> old.healthy, confirmed |-> TRUE,
           escalated |-> old.escalated]
  BY <1>1, <1>2, Zenon DEF ConfirmedRow
<1>6. b = [state |-> old.state, condition |-> old.condition,
           print |-> old.print, severe |-> old.severe, count |-> old.count,
           healthy |-> n, confirmed |-> old.confirmed,
           escalated |-> old.escalated]
  BY <1>1, <1>3, Zenon DEF Healthier
<1>7. c = [state |-> s, condition |-> old.condition,
           print |-> old.print, severe |-> old.severe, count |-> old.count,
           healthy |-> old.healthy, confirmed |-> old.confirmed,
           escalated |-> old.escalated]
  BY <1>1, <1>4, Zenon DEF Closed
<1>8. a \in SoundRows /\ b \in SoundRows /\ c \in SoundRows
  BY <1>5, <1>6, <1>7 DEF SoundRows
<1> QED BY <1>2, <1>3, <1>4, <1>5, <1>6, <1>7, <1>8

\* A row that is confirmed, is healthier, or is closed.
LEMMA RowRewritten ==
  ASSUME RowsSound, NEW i \in Rows, NEW row,
         \/ row = ConfirmedRow(incident[i])
         \/ \E n \in Nat : row = Healthier(incident[i], n)
         \/ \E s \in {"CLEARED", "FORGOTTEN"} : row = Closed(incident[i], s),
         incident' = [incident EXCEPT ![i] = row]
  PROVE  /\ RowsSound' /\ RowsEvolve /\ SameEscalations
         /\ incident'[i] = row
         /\ row = ConfirmedRow(incident[i]) => row.confirmed
<1>1. PICK old \in SoundRows : old = incident[i]
  BY RowsOfIncidents DEF Rows
<1>2. /\ row \in SoundRows /\ row.print = old.print
      /\ row.escalated = old.escalated
      /\ old.confirmed => row.confirmed
      /\ row.state = "OPEN" => old.state = "OPEN"
      /\ row = ConfirmedRow(old) => row.confirmed
  <2>1. CASE row = ConfirmedRow(old)
    BY <2>1, RowsRevised
  <2>2. ASSUME NEW n \in Nat, row = Healthier(old, n)
        PROVE <1>2!1 /\ <1>2!2 /\ <1>2!3 /\ <1>2!4 /\ <1>2!5
    BY <2>2, RowsRevised
  <2>3. ASSUME NEW s \in {"CLEARED", "FORGOTTEN"}, row = Closed(old, s)
        PROVE <1>2!1 /\ <1>2!2 /\ <1>2!3 /\ <1>2!4 /\ <1>2!5
    BY <2>3, RowsRevised
  <2>4. row = ConfirmedRow(old) => row.confirmed
    BY RowsRevised
  <2> QED BY <1>1, <2>1, <2>2, <2>3, <2>4
<1>3. RowsSound' /\ RowsEvolve /\ incident'[i] = row
  BY <1>1, <1>2, RowRevised
<1>4. \A j \in Rows \ {i} : incident'[j] = incident[j]
  BY DEF RowsSound, Rows
<1>5. SameEscalations
  BY <1>1, <1>2, <1>3, <1>4 DEF SameEscalations
<1> QED BY <1>1, <1>2, <1>3, <1>5

\* A call that goes on to its next statement.
LEMMA CallGoesOn ==
  ASSUME NEW p, NEW c, CallSound(p, c)', c # NoCall, NEW alerts, NEW d,
         d = [step |-> "NEXT", firing |-> c.firing, sweep |-> c.sweep,
              alerts |-> alerts, at |-> 0, seen |-> c.seen]
  PROVE  CallSound(p, d)'
BY DEF CallSound

LEMMA ConfirmOnceStep ==
  ASSUME IncidentsInvariant, NEW p \in Callers, ConfirmOnce(p)
  PROVE  IncidentsInvariant'
<1>1. call[p] # NoCall
  BY DEF ConfirmOnce, CallIs, NoCall
<1>2. PICK c : /\ c = call[p] /\ c # NoCall /\ CallSound(p, c)
               /\ c \in [step : {c.step}, firing : {c.firing},
                        sweep : {c.sweep}, alerts : {c.alerts},
                        at : {c.at}, seen : {c.seen}]
  BY <1>1, CallOf
<1>3. PICK i : i = c.at
  OBVIOUS
<1>4. c.step = "CONFIRM" /\ i \in Rows /\ i \in Incidents
  BY <1>2, <1>3 DEF ConfirmOnce, CallIs, CallSound, Rows
<1>5. UNCHANGED <<holding, alerted>>
  BY DEF ConfirmOnce
<1>6. CASE Confirms(i)
  <2>1. PICK row : row = ConfirmedRow(incident[i])
    OBVIOUS
  <2>2. incident' = [incident EXCEPT ![i] = row]
    BY <1>2, <1>3, <1>6, <2>1, Zenon DEF ConfirmOnce, ConfirmedRow
  <2>3. RowsSound' /\ RowsEvolve /\ SameEscalations /\ incident'[i].confirmed
    BY <1>4, <2>1, <2>2, RowRewritten DEF IncidentsInvariant
  <2>4. PICK d : d = [c EXCEPT !.step = "NEXT", !.at = 0,
                        !.alerts = c.alerts \cup {<<i, "CONFIRMED">>}]
    OBVIOUS
  <2>5. d = [step |-> "NEXT", firing |-> c.firing, sweep |-> c.sweep,
             alerts |-> c.alerts \cup {<<i, "CONFIRMED">>}, at |-> 0,
             seen |-> c.seen]
    BY <1>2, <2>4, Zenon
  <2>6. call' = [call EXCEPT ![p].step = "NEXT", ![p].at = 0,
                   ![p].alerts = @ \cup {<<i, "CONFIRMED">>}]
    BY <1>2, <1>3, <1>6, Zenon DEF ConfirmOnce
  <2>7. call' = [call EXCEPT ![p] = d]
    BY <1>2, <2>4, <2>6, Zenon
  <2>8. CallSound(p, c)'
    BY <1>2, <2>3, CallEvolves DEF IncidentsInvariant
  <2>9. CallSound(p, d)'
    BY <1>2, <2>5, <2>8, CallGoesOn
  <2>10. /\ d.alerts = call[p].alerts \cup {<<i, "CONFIRMED">>}
         /\ "CONFIRMED" \in Kinds
    BY <1>2, <2>5 DEF Kinds
  <2>11. ~incident[i].confirmed
    BY <1>6 DEF Confirms
  <2> QED BY <1>1, <1>4, <1>5, <2>3, <2>7, <2>9, <2>10, <2>11, CallAlerts
<1>7. CASE ~Confirms(i)
  <2>1. UNCHANGED incident
    BY <1>2, <1>3, <1>7, Zenon DEF ConfirmOnce
  <2>2. RowsSound' /\ RowsEvolve /\ SameEscalations
    BY <2>1, RowsUnchanged DEF IncidentsInvariant
  <2>3. PICK d : d = [c EXCEPT !.step = "NEXT", !.at = 0]
    OBVIOUS
  <2>4. d = [step |-> "NEXT", firing |-> c.firing, sweep |-> c.sweep,
             alerts |-> c.alerts, at |-> 0, seen |-> c.seen]
    BY <1>2, <2>3, Zenon
  <2>5. call' = [call EXCEPT ![p].step = "NEXT", ![p].at = 0,
                   ![p].alerts = @]
    BY <1>2, <1>3, <1>7, Zenon DEF ConfirmOnce
  <2>6. call' = [call EXCEPT ![p] = [c EXCEPT !.step = "NEXT", !.at = 0,
                                       !.alerts = c.alerts]]
    BY <1>2, <2>5, Zenon
  <2>7. [c EXCEPT !.step = "NEXT", !.at = 0, !.alerts = c.alerts] = d
    <3>1. PICK e : e = [c EXCEPT !.step = "NEXT", !.at = 0,
                          !.alerts = c.alerts]
      OBVIOUS
    <3>2. e = [step |-> "NEXT", firing |-> c.firing, sweep |-> c.sweep,
               alerts |-> c.alerts, at |-> 0, seen |-> c.seen]
      BY <1>2, <3>1, Zenon
    <3> QED BY <2>4, <3>1, <3>2, Zenon
  <2>8. call' = [call EXCEPT ![p] = d]
    BY <2>6, <2>7, Zenon
  <2>9. CallSound(p, c)'
    BY <1>2, <2>2, CallEvolves DEF IncidentsInvariant
  <2>10. CallSound(p, d)'
    BY <1>2, <2>4, <2>9, CallGoesOn
  <2>11. d.alerts \subseteq call[p].alerts
    BY <1>2, <2>4
  <2> QED BY <1>1, <1>5, <2>2, <2>8, <2>10, <2>11, CallMade
<1> QED BY <1>6, <1>7

LEMMA CountHealthyStep ==
  ASSUME IncidentsInvariant, NEW p \in Callers, NEW i \in Incidents,
         CountHealthy(p, i)
  PROVE  IncidentsInvariant'
<1>1. CASE ~Exists(i)
  BY <1>1, EndCall DEF CountHealthy
<1>2. CASE Exists(i)
  <2>1. call[p] # NoCall
    BY DEF CountHealthy, CallIs, NoCall
  <2>2. PICK c : /\ c = call[p] /\ c # NoCall /\ CallSound(p, c)
                 /\ c \in [step : {c.step}, firing : {c.firing},
                          sweep : {c.sweep}, alerts : {c.alerts},
                          at : {c.at}, seen : {c.seen}]
    BY <2>1, CallOf
  <2>3. /\ c.step = "NEXT" /\ c.firing = {} /\ i \in c.sweep
        /\ i \in DOMAIN c.seen /\ i \in Rows
    BY <2>2 DEF CountHealthy, CallIs, CallSound
  <2>4. PICK row \in SoundRows : row = c.seen[i]
    BY <2>2, <2>3 DEF CallSound
  <2>5. PICK healthy \in Nat : healthy = HealthyAgain(row.healthy, row.condition)
    <3>1. row.healthy \in Nat /\ ClearAfter[row.condition] \in Nat \ {0}
      BY <2>4, IncidentsAssumption DEF SoundRows
    <3> QED BY <3>1 DEF HealthyAgain
  <2>6. PICK new : new = Healthier(incident[i], healthy)
    OBVIOUS
  <2>7. incident' = [incident EXCEPT ![i] = new]
    <3>1. incident' = [incident EXCEPT ![i].healthy = healthy]
      BY <1>2, <2>2, <2>4, <2>5, Zenon DEF CountHealthy
    <3> QED BY <2>6, <3>1, Zenon DEF Healthier
  <2>8. RowsSound' /\ RowsEvolve /\ SameEscalations
    BY <2>3, <2>6, <2>7, RowRewritten DEF IncidentsInvariant
  <2>9. PICK clears \in BOOLEAN :
          call' = [call EXCEPT ![p] =
             [step |-> IF clears THEN "CLEAR" ELSE "NEXT",
              seen |-> IF clears THEN @.seen ELSE Unread(@.seen, i),
              firing |-> {}, sweep |-> @.sweep \ {i},
              alerts |-> @.alerts, at |-> IF clears THEN i ELSE 0]]
    <3>1. PICK clears \in ClearingIsSatisfied(row.condition, healthy) :
          call' = [call EXCEPT ![p] =
             [step |-> IF clears THEN "CLEAR" ELSE "NEXT",
              seen |-> IF clears THEN @.seen ELSE Unread(@.seen, i),
              firing |-> {}, sweep |-> @.sweep \ {i},
              alerts |-> @.alerts, at |-> IF clears THEN i ELSE 0]]
      BY <1>2, <2>2, <2>4, <2>5, Zenon DEF CountHealthy
    <3>2. ClearingIsSatisfied(row.condition, healthy) \subseteq BOOLEAN
      <4>1. PICK after \in Nat : after = ClearAfter[row.condition]
        BY <2>4, IncidentsAssumption DEF SoundRows
      <4>2. (healthy >= after) \in BOOLEAN
        BY <4>1
      <4> QED BY <4>1, <4>2, Zenon DEF ClearingIsSatisfied
    <3> QED BY <3>1, <3>2, Zenon
  <2>10. CallSound(p, c)'
    BY <2>2, <2>8, CallEvolves DEF IncidentsInvariant
  <2>11. CASE clears
    <3>1. PICK d : d = [step |-> "CLEAR", firing |-> {}, sweep |-> c.sweep \ {i},
                        alerts |-> c.alerts, at |-> i, seen |-> c.seen]
      OBVIOUS
    <3>2. call' = [call EXCEPT ![p] = d]
      BY <2>2, <2>9, <2>11, <3>1 DEF IncidentsInvariant
    <3>3. CallSound(p, d)'
      BY <2>2, <2>3, <2>10, <3>1 DEF CallSound, Prints
    <3>4. d.alerts \subseteq call[p].alerts /\ UNCHANGED <<holding, alerted>>
      BY <2>2, <3>1 DEF CountHealthy
    <3> QED BY <2>1, <2>8, <3>2, <3>3, <3>4, CallMade
  <2>12. CASE ~clears
    <3>1. PICK d : d = [step |-> "NEXT", firing |-> {}, sweep |-> c.sweep \ {i},
                        alerts |-> c.alerts, at |-> 0,
                        seen |-> Unread(c.seen, i)]
      OBVIOUS
    <3>2. call' = [call EXCEPT ![p] = d]
      BY <2>2, <2>9, <2>12, <3>1 DEF IncidentsInvariant
    <3>3. CallSound(p, d)'
      <4>1. /\ d = [step |-> d.step, firing |-> d.firing, sweep |-> d.sweep,
                    alerts |-> d.alerts, at |-> d.at,
                    seen |-> Unread(c.seen, i)]
            /\ d.firing \subseteq c.firing /\ d.sweep \subseteq c.sweep \ {i}
            /\ d.step = "NEXT"
        BY <3>1
      <4>2. \A j \in Rows \ {i} :
              incident'[j].escalated = incident[j].escalated
        BY <2>8 DEF SameEscalations
      <4> QED BY <2>2, <2>8, <4>1, <4>2, CallReads
    <3>4. d.alerts \subseteq call[p].alerts /\ UNCHANGED <<holding, alerted>>
      BY <2>2, <3>1 DEF CountHealthy
    <3> QED BY <2>1, <2>8, <3>2, <3>3, <3>4, CallMade
  <2> QED BY <2>9, <2>11, <2>12
<1> QED BY <1>1, <1>2

LEMMA OwnerNextStep ==
  ASSUME IncidentsInvariant, NEW p \in Callers, NEW i \in Incidents,
         OwnerNext(p, i)
  PROVE  IncidentsInvariant'
<1>1. call[p] # NoCall
  BY DEF OwnerNext, CallIs, NoCall
<1>2. PICK c : c = call[p] /\ c # NoCall /\ CallSound(p, c)
  BY <1>1, CallOf
<1>3. i \in c.sweep /\ i \in DOMAIN c.seen
  BY <1>2 DEF OwnerNext, CallSound
<1>4. RowsSound' /\ RowsEvolve /\ SameEscalations
  BY RowsUnchanged DEF IncidentsInvariant, OwnerNext
<1>5. CallSound(p, c)'
  BY <1>2, <1>4, CallEvolves DEF IncidentsInvariant
<1>6. PICK d : d = [step |-> "CLEAR", firing |-> {}, sweep |-> c.sweep \ {i},
                    alerts |-> c.alerts, at |-> i, seen |-> c.seen]
  OBVIOUS
<1>7. call' = [call EXCEPT ![p] = d]
  BY <1>2, <1>6 DEF OwnerNext
<1>8. CallSound(p, d)'
  BY <1>2, <1>3, <1>5, <1>6 DEF CallSound, Prints
<1>9. d.alerts \subseteq call[p].alerts /\ UNCHANGED <<holding, alerted>>
  BY <1>2, <1>6 DEF OwnerNext
<1> QED BY <1>1, <1>4, <1>7, <1>8, <1>9, CallMade

LEMMA ClearOrForgetStep ==
  ASSUME IncidentsInvariant, NEW p \in Callers, ClearOrForget(p)
  PROVE  IncidentsInvariant'
<1>1. call[p] # NoCall
  BY DEF ClearOrForget, CallIs, NoCall
<1>2. PICK c : /\ c = call[p] /\ c # NoCall /\ CallSound(p, c)
               /\ c \in [step : {c.step}, firing : {c.firing},
                        sweep : {c.sweep}, alerts : {c.alerts},
                        at : {c.at}, seen : {c.seen}]
  BY <1>1, CallOf
<1>3. PICK i : i = c.at
  OBVIOUS
<1>4. i \in DOMAIN c.seen /\ i \notin c.sweep /\ i \in Rows /\ i \in Incidents
  BY <1>2, <1>3 DEF ClearOrForget, CallIs, CallSound, Rows
<1>5. PICK row \in SoundRows : row = c.seen[i]
  BY <1>2, <1>4 DEF CallSound
<1>6. UNCHANGED <<holding, alerted>>
  BY DEF ClearOrForget
<1>7. incident' = IF ~row.confirmed
        THEN [incident EXCEPT ![i].state = "FORGOTTEN"]
        ELSE IF Exists(i)
        THEN [incident EXCEPT ![i].state = "CLEARED"]
        ELSE incident
  BY <1>2, <1>3, <1>5, Zenon DEF ClearOrForget
<1>8. RowsSound' /\ RowsEvolve /\ SameEscalations
  <2>1. CASE ~row.confirmed
    <3>1. PICK new : new = Closed(incident[i], "FORGOTTEN")
      OBVIOUS
    <3>2. incident' = [incident EXCEPT ![i] = new]
      BY <1>7, <2>1, <3>1, Zenon DEF Closed
    <3> QED BY <1>4, <3>1, <3>2, RowRewritten DEF IncidentsInvariant
  <2>2. CASE row.confirmed /\ Exists(i)
    <3>1. PICK new : new = Closed(incident[i], "CLEARED")
      OBVIOUS
    <3>2. incident' = [incident EXCEPT ![i] = new]
      BY <1>7, <2>2, <3>1, Zenon DEF Closed
    <3> QED BY <1>4, <3>1, <3>2, RowRewritten DEF IncidentsInvariant
  <2>3. CASE row.confirmed /\ ~Exists(i)
    <3>1. UNCHANGED incident
      BY <1>7, <2>3, Zenon
    <3> QED BY <3>1, RowsUnchanged DEF IncidentsInvariant
  <2> QED BY <2>1, <2>2, <2>3
<1>9. \A j \in Rows \ {i} : incident'[j].escalated = incident[j].escalated
  BY <1>8 DEF SameEscalations
<1>10. ASSUME NEW alerts, NEW d,
              d = [c EXCEPT !.step = "NEXT", !.at = 0,
                     !.seen = Unread(c.seen, i), !.alerts = alerts]
       PROVE  CallSound(p, d)' /\ d.alerts = alerts
  <2>1. d = [step |-> "NEXT", firing |-> c.firing, sweep |-> c.sweep,
             alerts |-> alerts, at |-> 0, seen |-> Unread(c.seen, i)]
    BY <1>2, <1>10, Zenon
  <2>2. /\ d = [step |-> d.step, firing |-> d.firing, sweep |-> d.sweep,
                alerts |-> d.alerts, at |-> d.at,
                seen |-> Unread(c.seen, i)]
        /\ d.firing \subseteq c.firing /\ d.sweep \subseteq c.sweep \ {i}
        /\ d.step = "NEXT" /\ d.alerts = alerts
    BY <1>4, <2>1
  <2> QED BY <1>2, <1>8, <1>9, <2>2, CallReads
<1>11. call' = [call EXCEPT ![p].step = "NEXT", ![p].at = 0,
                  ![p].seen = Unread(@, i),
                  ![p].alerts = IF Recovers(row)
                     THEN @ \cup {<<i, "RECOVERED">>} ELSE @]
  BY <1>2, <1>3, <1>5, Zenon DEF ClearOrForget
<1>12. CASE row.confirmed
  <2>1. PICK d : d = [c EXCEPT !.step = "NEXT", !.at = 0,
                        !.seen = Unread(c.seen, i),
                        !.alerts = c.alerts \cup {<<i, "RECOVERED">>}]
    OBVIOUS
  <2>2. call' = [call EXCEPT ![p] = d]
    BY <1>2, <1>11, <1>12, <2>1, Zenon DEF Recovers
  <2>3. CallSound(p, d)' /\ d.alerts = call[p].alerts \cup {<<i, "RECOVERED">>}
    BY <1>2, <1>10, <2>1
  <2>4. incident[i].confirmed /\ "RECOVERED" \in Kinds
    BY <1>2, <1>4, <1>5, <1>12 DEF CallSound, Kinds
  <2>5. incident'[i].confirmed
    BY <1>4, <1>8, <2>4 DEF RowsEvolve
  <2> QED BY <1>1, <1>4, <1>6, <1>8, <2>2, <2>3, <2>4, <2>5, CallAlerts
<1>13. CASE ~row.confirmed
  <2>1. PICK d : d = [c EXCEPT !.step = "NEXT", !.at = 0,
                        !.seen = Unread(c.seen, i), !.alerts = c.alerts]
    OBVIOUS
  <2>2. call' = [call EXCEPT ![p] = d]
    BY <1>2, <1>11, <1>13, <2>1, Zenon DEF Recovers
  <2>3. CallSound(p, d)' /\ d.alerts \subseteq call[p].alerts
    BY <1>2, <1>10, <2>1
  <2> QED BY <1>1, <1>6, <1>8, <2>2, <2>3, CallMade
<1> QED BY <1>12, <1>13

\* What is told was told by nobody, and can be told by nobody else.
LEMMA TellStep ==
  ASSUME IncidentsInvariant, NEW p \in Callers, Tell(p)
  PROVE  IncidentsInvariant'
<1>1. call[p] # NoCall
  BY DEF Tell, CallIs, NoCall
<1>2. /\ RowsSound' /\ RowsEvolve /\ SameEscalations /\ Rows' = Rows
      /\ UNCHANGED <<holding, incident>>
  BY RowsUnchanged DEF IncidentsInvariant, Tell
<1>3. call' = [call EXCEPT ![p] = NoCall] /\ CallSound(p, NoCall)'
  BY DEF Tell, CallSound
<1>4. \A q \in Callers : CallSound(q, call[q])'
  BY <1>2, <1>3, CallChanges
<1>5. \A q \in Callers, i \in Incidents, k \in Kinds :
        HasToTell(q, i, k)' => q # p /\ HasToTell(q, i, k)
  BY <1>3 DEF HasToTell, IncidentsInvariant
<1>6. \A i \in Incidents, k \in Kinds :
        /\ HasToTell(p, i, k) => alerted'[i][k] = Twice(alerted[i][k])
        /\ ~HasToTell(p, i, k) => alerted'[i][k] = alerted[i][k]
  BY <1>1 DEF Tell, HasToTell
<1>7. \A i \in Incidents, k \in Kinds : alerted[i][k] \in 0 .. 2
  BY DEF IncidentsInvariant, AlertsSound
<1>8. alerted' \in [Incidents -> [Kinds -> 0 .. 2]]
  <2>1. \A n \in 0 .. 2 : Twice(n) \in 0 .. 2
    BY DEF Twice
  <2>2. \A i \in Incidents, k \in Kinds :
          (IF <<i, k>> \in call[p].alerts
           THEN Twice(alerted[i][k]) ELSE alerted[i][k]) \in 0 .. 2
    BY <1>7, <2>1
  <2> QED BY <2>2 DEF Tell
<1>9. \A i \in Incidents :
        /\ alerted'[i]["CONFIRMED"] <= 1 /\ alerted'[i]["ESCALATED"] <= 1
        /\ alerted'[i]["ESCALATED"] > 0 => incident[i].escalated
  <2>1. TAKE i \in Incidents
  <2>2. "CONFIRMED" \in Kinds /\ "ESCALATED" \in Kinds /\ Twice(0) = 1
    BY DEF Kinds, Twice
  <2>3. alerted'[i]["CONFIRMED"] <= 1
    <3>1. CASE HasToTell(p, i, "CONFIRMED")
      BY <1>6, <2>2, <3>1 DEF IncidentsInvariant, AlertsSound
    <3>2. CASE ~HasToTell(p, i, "CONFIRMED")
      BY <1>6, <2>2, <3>2 DEF IncidentsInvariant, AlertsSound
    <3> QED BY <3>1, <3>2
  <2>4. /\ alerted'[i]["ESCALATED"] <= 1
        /\ alerted'[i]["ESCALATED"] > 0 => incident[i].escalated
    <3>1. CASE HasToTell(p, i, "ESCALATED")
      BY <1>6, <2>2, <3>1 DEF IncidentsInvariant, AlertsSound
    <3>2. CASE ~HasToTell(p, i, "ESCALATED")
      BY <1>6, <2>2, <3>2 DEF IncidentsInvariant, AlertsSound
    <3> QED BY <3>1, <3>2
  <2> QED BY <2>3, <2>4
<1>10. \A i \in Incidents, k \in Kinds :
         alerted'[i][k] > 0 => i \in Rows /\ incident[i].confirmed
  <2>1. TAKE i \in Incidents, k \in Kinds
  <2>2. CASE HasToTell(p, i, k)
    BY <2>2 DEF IncidentsInvariant, AlertsSound
  <2>3. CASE ~HasToTell(p, i, k)
    BY <1>6, <2>3 DEF IncidentsInvariant, AlertsSound
  <2> QED BY <2>2, <2>3
<1>11. ASSUME NEW q \in Callers, NEW i \in Incidents, NEW k \in Kinds,
              HasToTell(q, i, k)'
       PROVE  /\ i \in Rows /\ incident[i].confirmed
              /\ k = "CONFIRMED" =>
                   /\ alerted'[i][k] = 0
                   /\ \A r \in Callers : HasToTell(r, i, k)' => r = q
              /\ k = "ESCALATED" =>
                   q = Watch /\ incident[i].escalated /\ alerted'[i][k] = 0
  <2>1. q # p /\ HasToTell(q, i, k)
    BY <1>5, <1>11
  <2>2. k \in {"CONFIRMED", "ESCALATED"} => ~HasToTell(p, i, k)
    BY <2>1 DEF IncidentsInvariant, AlertsSound
  <2>3. k \in {"CONFIRMED", "ESCALATED"} => alerted'[i][k] = alerted[i][k]
    BY <1>6, <2>2
  <2>4. k = "CONFIRMED" => \A r \in Callers : HasToTell(r, i, k)' => r = q
    BY <1>5, <2>1 DEF IncidentsInvariant, AlertsSound
  <2> QED BY <2>1, <2>3, <2>4 DEF IncidentsInvariant, AlertsSound
<1>12. AlertsSound'
  BY <1>2, <1>8, <1>9, <1>10, <1>11 DEF AlertsSound
<1> QED BY <1>2, <1>3, <1>4, <1>12 DEF IncidentsInvariant

LEMMA IncidentsStart ==
  ASSUME IncidentsInit PROVE IncidentsInvariant
<1>1. Rows = {} /\ OpenRows = {}
  BY DEF IncidentsInit, Rows, OpenRows, IsOpen, NoRow
<1>2. Rows = 1 .. Cardinality(Rows)
  <2>1. Cardinality({}) = 0
    BY FS_EmptySet
  <2> QED BY <1>1, <2>1
<1>3. RowsSound
  BY <1>1, <1>2 DEF RowsSound, IncidentsInit
<1>4. AlertsSound
  BY DEF AlertsSound, IncidentsInit, HasToTell, Silent, Kinds
<1> QED BY <1>3, <1>4 DEF IncidentsInvariant, IncidentsInit, CallSound

LEMMA IncidentsStutter ==
  ASSUME IncidentsInvariant, UNCHANGED incidentVars
  PROVE  IncidentsInvariant'
<1>1. /\ RowsSound' /\ RowsEvolve /\ SameEscalations
      /\ UNCHANGED <<holding, incident, call, alerted>>
  BY RowsUnchanged DEF IncidentsInvariant, incidentVars
<1>2. \A p \in Callers : CallSound(p, call[p])'
  <2>1. TAKE p \in Callers
  <2>2. PICK d : d = call[p] /\ CallSound(p, d)
    BY DEF IncidentsInvariant
  <2>3. CallSound(p, d)'
    BY <1>1, <2>2, CallEvolves DEF IncidentsInvariant
  <2> QED BY <1>1, <2>2, <2>3 DEF CallSound
<1>3. AlertsSound'
  BY <1>1, AlertsKept DEF IncidentsInvariant, HasToTell
<1> QED BY <1>1, <1>2, <1>3 DEF IncidentsInvariant

LEMMA FoldStepKeeps ==
  ASSUME IncidentsInvariant, NEW p \in Callers, FoldStep(p)
  PROVE  IncidentsInvariant'
<1>1. CASE \E f \in Conditions : OpenIncident(p, f)
  BY <1>1, OpenIncidentStep
<1>2. CASE \E f \in Conditions, i \in Incidents : JoinIncident(p, f, i)
  BY <1>2, JoinIncidentStep
<1>3. CASE ConfirmOnce(p)
  BY <1>3, ConfirmOnceStep
<1>4. CASE ClearOrForget(p)
  BY <1>4, ClearOrForgetStep
<1>5. CASE Tell(p)
  BY <1>5, TellStep
<1> QED BY <1>1, <1>2, <1>3, <1>4, <1>5 DEF FoldStep

LEMMA IncidentsStep ==
  ASSUME IncidentsInvariant, IncidentsNext
  PROVE  IncidentsInvariant'
<1>1. CASE \E c \in Conditions : Change(c)
  BY <1>1, ChangeStep
<1>2. CASE WatchStep
  <2>1. Watch \in Callers
    BY DEF Callers
  <2>2. CASE Observe
    <3>1. /\ holding \in SUBSET (IF Watch = Watch THEN Conditions ELSE Reported)
          /\ {i \in OpenRows : ~Firing(i, holding)} \in SUBSET OpenRows
          /\ \A i \in {i \in OpenRows : ~Firing(i, holding)} :
               ~Firing(i, holding)
      BY DEF IncidentsInvariant
    <3> QED BY <2>1, <2>2, <3>1, BeginCall DEF Observe
  <2>3. CASE FoldStep(Watch)
    BY <2>1, <2>3, FoldStepKeeps
  <2>4. CASE \E i \in Incidents : CountHealthy(Watch, i)
    BY <2>1, <2>4, CountHealthyStep
  <2> QED BY <1>2, <2>2, <2>3, <2>4 DEF WatchStep
<1>3. ASSUME NEW p \in Reporters,
             (\E c \in Reported : Report(p, c)) \/ FoldStep(p)
      PROVE  IncidentsInvariant'
  <2>1. p \in Callers
    BY DEF Callers
  <2>2. CASE FoldStep(p)
    BY <2>1, <2>2, FoldStepKeeps
  <2>3. ASSUME NEW c \in Reported, Report(p, c) PROVE IncidentsInvariant'
    <3>1. /\ {c} \in SUBSET (IF p = Watch THEN Conditions ELSE Reported)
          /\ {} \in SUBSET OpenRows
      BY IncidentsAssumption
    <3> QED BY <2>1, <2>3, <3>1, BeginCall DEF Report
  <2> QED BY <1>3, <2>2, <2>3
<1>4. ASSUME NEW p \in Owners,
             \/ \E picked \in SUBSET OpenRows : OwnerClears(p, picked)
             \/ \E i \in Incidents : OwnerNext(p, i)
             \/ ClearOrForget(p) \/ Tell(p)
      PROVE  IncidentsInvariant'
  <2>1. p \in Callers
    BY DEF Callers
  <2>2. ASSUME NEW picked \in SUBSET OpenRows, OwnerClears(p, picked)
        PROVE  IncidentsInvariant'
    <3>1. /\ {} \in SUBSET (IF p = Watch THEN Conditions ELSE Reported)
          /\ \A i \in picked : ~Firing(i, {})
      BY DEF Firing, Prints
    <3> QED BY <2>1, <2>2, <3>1, BeginCall DEF OwnerClears
  <2>3. CASE \E i \in Incidents : OwnerNext(p, i)
    BY <2>1, <2>3, OwnerNextStep
  <2>4. CASE ClearOrForget(p)
    BY <2>1, <2>4, ClearOrForgetStep
  <2>5. CASE Tell(p)
    BY <2>1, <2>5, TellStep
  <2> QED BY <1>4, <2>2, <2>3, <2>4, <2>5
<1>5. CASE \E p \in Callers : Break(p)
  BY <1>5, EndCall DEF Break
<1> QED BY <1>1, <1>2, <1>3, <1>4, <1>5 DEF IncidentsNext

LEMMA IncidentsAreSparing ==
  ASSUME IncidentsInvariant PROVE AlertsAreSparing
<1>1. \A i \in Rows : incident[i] \in SoundRows
  BY RowsOfIncidents DEF IncidentsInvariant, Rows
<1>2. IncidentsTypeOK
  BY <1>1 DEF IncidentsInvariant, IncidentsTypeOK, RowsSound, AlertsSound,
              SoundRows
<1> QED BY <1>2 DEF IncidentsInvariant, AlertsSound, AlertsAreSparing

\* An incident sends one confirmation and at most one rise of its severity,
\* and nothing before it is confirmed, whatever the watch, the reports and the
\* owners had read before the others wrote (operational-watch.ts).
THEOREM AlertsStaySparing == IncidentsSpec => []AlertsAreSparing
<1>1. IncidentsInit => IncidentsInvariant
  BY IncidentsStart
<1>2. IncidentsInvariant /\ [IncidentsNext]_incidentVars => IncidentsInvariant'
  BY IncidentsStep, IncidentsStutter
<1>3. IncidentsInvariant => AlertsAreSparing
  BY IncidentsAreSparing
<1> QED BY <1>1, <1>2, <1>3, PTL DEF IncidentsSpec

----------------------------------------------------------------------------
(* Workspaces.  Whatever the tab, the screen and the calls carry of a role  *)
(* is a place of that role, and a role they carry was chosen.               *)

PathsFit(paths) ==
  /\ paths \in [ActingRoles -> Places \cup {NoPlace}]
  /\ \A r \in ActingRoles : paths[r] # NoPlace => RoleOfPlace[paths[r]] = r

\* The roles chosen so far, and those the server has answered for.
RolesSound(C, V) ==
  C \subseteq ActingRoles /\ FirstRole \in C /\ V \subseteq ActingRoles

TabSound(t, C, V) ==
  /\ t = [role |-> t.role, paths |-> t.paths]
  /\ t.role = NoRole \/ t.role \in C \cap V
  /\ PathsFit(t.paths)

EntrySound(e, C) ==
  /\ e = [path |-> e.path, explicit |-> e.explicit]
  /\ e.path = Landing \/ e.path \in Places
  /\ e.explicit = NoRole \/ e.explicit \in C

\* The screen of an entry: what the guard lets through was chosen, and what
\* the server has answered it has verified.
ScreenSound(s, e, C, V) ==
  /\ s = [confirmed |-> s.confirmed, query |-> s.query, answer |-> s.answer,
          remembering |-> s.remembering]
  /\ s.confirmed = NoRole \/ s.confirmed \in C
  /\ PathsFit(s.answer)
  /\ s.query # "GUARD" => RoleAt(e.path) \in C
  /\ s.query \in {"ANSWERED", "SHOWN"} =>
       /\ RoleAt(e.path) \in V
       /\ s.answer[RoleAt(e.path)] # NoPlace

RememberSound(c) ==
  /\ c = [role |-> c.role, place |-> c.place, stage |-> c.stage,
          follows |-> c.follows]
  /\ c.role \in ActingRoles /\ c.place \in Places
  /\ c.stage \in {"READ", "GONE", "KEPT"} => RoleOfPlace[c.place] = c.role

TabAgrees == shown.query = "SHOWN" => tab.role = RoleAt(route.path)

WorkspaceInvariant ==
  /\ RolesSound(chosen, verifiedRoles)
  /\ userRoles \subseteq ActingRoles
  /\ PathsFit(kept)
  /\ TabSound(tab, chosen, verifiedRoles)
  /\ EntrySound(route, chosen)
  /\ \A e \in backEntries : EntrySound(e, chosen)
  /\ ScreenSound(shown, route, chosen, verifiedRoles)
  /\ TabAgrees
  /\ \A c \in remembers : RememberSound(c)

LEMMA RolesOfPaths ==
  ASSUME NEW C, NEW e, EntrySound(e, C)
  PROVE  RoleAt(e.path) \in ActingRoles
BY WorkspaceAssumption DEF EntrySound, RoleAt

\* Nothing chosen or verified is forgotten.
LEMMA NothingIsForgotten ==
  ASSUME NEW C, NEW V, NEW D, NEW W, C \subseteq D, V \subseteq W
  PROVE  /\ \A t : TabSound(t, C, V) => TabSound(t, D, W)
         /\ \A e : EntrySound(e, C) => EntrySound(e, D)
         /\ \A s, e : ScreenSound(s, e, C, V) => ScreenSound(s, e, D, W)
BY DEF TabSound, EntrySound, ScreenSound

LEMMA NoAnswerFits == PathsFit(NoAnswer)
BY DEF PathsFit, NoAnswer

\* A screen that has not asked, or waits for an answer.
LEMMA NewScreen ==
  ASSUME NEW C, NEW V, NEW confirmed, confirmed = NoRole \/ confirmed \in C,
         NEW query \in {"GUARD", "SENT"}, NEW p, NEW e,
         query # "GUARD" => RoleAt(e.path) \in C
  PROVE  ScreenSound(Screen(confirmed, query, p), e, C, V)
BY NoAnswerFits DEF ScreenSound, Screen

LEMMA ConfirmedIsChosen ==
  ASSUME NEW C, NEW V, RolesSound(C, V), NEW e, EntrySound(e, C),
         NEW t, TabSound(t, C, V)
  PROVE  LET c == InitiallyConfirmed(e, t) IN c = NoRole \/ c \in C
BY WorkspaceAssumption
   DEF InitiallyConfirmed, EntrySound, TabSound, RoleAt, RolesSound

\* Rendering: what passes the guard is a role the User has chosen.
LEMMA RenderedIsSound ==
  ASSUME NEW C, NEW V, RolesSound(C, V), ScreenSound(shown, route, C, V),
         NEW e, EntrySound(e, C), NEW t, TabSound(t, C, V),
         NEW fresh \in BOOLEAN
  PROVE  LET s == Rendered(e, t, fresh) IN
           /\ ScreenSound(s, e, C, V)
           /\ s.query = "SHOWN" => s = shown /\ RoleAt(e.path) = RoleAt(route.path)
           /\ fresh => s.query # "SHOWN"
<1>1. PICK remounted \in BOOLEAN :
        remounted = (fresh \/ (e.path = Landing) # (route.path = Landing))
  OBVIOUS
<1>2. PICK confirmed : confirmed = IF remounted THEN InitiallyConfirmed(e, t)
                                   ELSE shown.confirmed
  OBVIOUS
<1>3. confirmed = NoRole \/ confirmed \in C
  <2>1. InitiallyConfirmed(e, t) = NoRole \/ InitiallyConfirmed(e, t) \in C
    BY ConfirmedIsChosen
  <2> QED BY <1>2, <2>1 DEF ScreenSound
<1>4. PICK s : s = Rendered(e, t, fresh)
  OBVIOUS
<1>5. s = IF RoleAt(e.path) \notin {confirmed, e.explicit, t.role}
          THEN Screen(confirmed, "GUARD", NoPlace)
          ELSE IF remounted \/ shown.query = "GUARD"
          THEN Screen(confirmed, "SENT", NoPlace)
          ELSE IF RoleAt(e.path) # RoleAt(route.path)
          THEN Screen(confirmed, "SENT", shown.remembering)
          ELSE shown
  BY <1>1, <1>2, <1>4, Zenon DEF Rendered
<1>6. RoleAt(e.path) \in {confirmed, e.explicit, t.role} =>
        RoleAt(e.path) \in C
  BY <1>3, RolesOfPaths, WorkspaceAssumption DEF EntrySound, TabSound
<1>7. \A p, q : Screen(confirmed, q, p).query = q
  BY DEF Screen
<1>8. CASE RoleAt(e.path) \notin {confirmed, e.explicit, t.role}
  <2>1. s = Screen(confirmed, "GUARD", NoPlace)
    BY <1>5, <1>8
  <2> QED BY <1>3, <1>4, <1>7, <2>1, NewScreen
<1>9. CASE /\ RoleAt(e.path) \in {confirmed, e.explicit, t.role}
           /\ \/ remounted \/ shown.query = "GUARD"
              \/ RoleAt(e.path) # RoleAt(route.path)
  <2>1. PICK p : s = Screen(confirmed, "SENT", p)
    BY <1>5, <1>9
  <2>2. s.query = "SENT"
    BY <1>7, <2>1
  <2>3. ScreenSound(s, e, C, V)
    BY <1>3, <1>6, <1>9, <2>1, NewScreen
  <2> QED BY <1>4, <2>2, <2>3
<1>10. CASE /\ RoleAt(e.path) \in {confirmed, e.explicit, t.role}
            /\ ~remounted /\ shown.query # "GUARD"
            /\ RoleAt(e.path) = RoleAt(route.path)
  <2>1. s = shown /\ ~fresh
    BY <1>1, <1>5, <1>10
  <2> QED BY <1>4, <1>10, <2>1 DEF ScreenSound
<1> QED BY <1>8, <1>9, <1>10

\* The effect of an answer.
LEMMA SettleIsSound ==
  ASSUME NEW C, NEW V, RolesSound(C, V), NEW e, EntrySound(e, C),
         NEW s, ScreenSound(s, e, C, V), s.query = "SHOWN",
         NEW asks, \A c \in asks : RememberSound(c), Settle(e, s, asks)
  PROVE  /\ TabSound(tab', C, V) /\ EntrySound(route', C)
         /\ ScreenSound(shown', route', C, V) /\ TabAgrees'
         /\ \A c \in remembers' : RememberSound(c)
<1>1. PICK r : r = RoleAt(e.path)
  OBVIOUS
<1>2. /\ r \in C \cap V /\ r \in ActingRoles /\ r # NoRole
      /\ s.answer[r] # NoPlace /\ s.answer[r] \in Places
      /\ RoleOfPlace[s.answer[r]] = r /\ PathsFit(s.answer)
  <2>1. r \in C \cap V /\ s.answer[r] # NoPlace /\ PathsFit(s.answer)
    BY <1>1 DEF ScreenSound
  <2>2. r \in ActingRoles /\ r # NoRole
    BY <2>1, WorkspaceAssumption DEF RolesSound
  <2> QED BY <2>1, <2>2 DEF PathsFit
<1>3. PICK stored : stored = Stored(r, s.answer)
  OBVIOUS
<1>4. tab' = stored /\ tab'.role = r /\ TabSound(stored, C, V)
  BY <1>1, <1>2, <1>3 DEF Settle, Stored, TabSound
<1>5. /\ EntrySound(route', C) /\ ScreenSound(shown', route', C, V)
      /\ TabAgrees'
  <2>1. CASE e.path = Landing
    <3>1. PICK onward : onward = Route(s.answer[r], r)
      OBVIOUS
    <3>2. /\ route' = onward
          /\ shown' = Screen(InitiallyConfirmed(onward, stored), "SENT", NoPlace)
      BY <1>1, <1>3, <2>1, <3>1 DEF Settle
    <3>3. EntrySound(onward, C) /\ RoleAt(onward.path) \in C
      BY <1>2, <3>1, WorkspaceAssumption DEF Route, EntrySound, RoleAt
    <3>4. ScreenSound(shown', route', C, V)
      BY <1>4, <3>2, <3>3, ConfirmedIsChosen, NewScreen
    <3>5. shown'.query = "SENT"
      BY <3>2 DEF Screen
    <3> QED BY <3>2, <3>3, <3>4, <3>5 DEF TabAgrees
  <2>2. CASE e.path # Landing
    <3>1. route' = Route(e.path, IF e.explicit = r THEN NoRole ELSE e.explicit)
      BY <1>1, <2>2, Zenon DEF Settle
    <3>2. route'.path = e.path /\ EntrySound(route', C)
      BY <3>1 DEF Route, EntrySound
    <3>3. shown' = s \/ shown' = [s EXCEPT !.remembering = e.path]
      BY <2>2, Zenon DEF Settle
    <3>4. /\ shown'.confirmed = s.confirmed /\ shown'.query = s.query
          /\ shown'.answer = s.answer
          /\ shown' = [confirmed |-> shown'.confirmed, query |-> shown'.query,
                       answer |-> shown'.answer,
                       remembering |-> shown'.remembering]
      <4>1. PICK p, q, a, m : s = [confirmed |-> p, query |-> q, answer |-> a,
                                   remembering |-> m]
        BY DEF ScreenSound
      <4>2. [s EXCEPT !.remembering = e.path] =
              [confirmed |-> p, query |-> q, answer |-> a,
               remembering |-> e.path]
        BY <4>1
      <4> QED BY <3>3, <4>1, <4>2
    <3>5. ScreenSound(shown', route', C, V)
      BY <3>2, <3>4 DEF ScreenSound
    <3>6. tab'.role = RoleAt(route'.path)
      BY <1>1, <1>4, <3>2
    <3> QED BY <3>2, <3>5, <3>6 DEF TabAgrees
  <2> QED BY <2>1, <2>2
<1>6. \A c \in remembers' : RememberSound(c)
  <2>1. e.path # Landing => RememberSound(Call(r, e.path, FALSE))
    BY <1>2 DEF Call, RememberSound, EntrySound
  <2>2. \A c \in remembers' :
          c \in asks \/ (e.path # Landing /\ c = Call(r, e.path, FALSE))
    BY <1>1 DEF Settle
  <2> QED BY <2>1, <2>2
<1> QED BY <1>4, <1>5, <1>6

LEMMA RenderIsSound ==
  ASSUME NEW C, NEW V, RolesSound(C, V), ScreenSound(shown, route, C, V),
         TabAgrees, NEW e, EntrySound(e, C), NEW t, TabSound(t, C, V),
         NEW asks, \A c \in asks : RememberSound(c), Render(e, t, asks)
  PROVE  /\ TabSound(tab', C, V) /\ EntrySound(route', C)
         /\ ScreenSound(shown', route', C, V) /\ TabAgrees'
         /\ \A c \in remembers' : RememberSound(c)
<1>1. PICK s : s = Rendered(e, t, FALSE)
  OBVIOUS
<1>2. ScreenSound(s, e, C, V)
  BY <1>1, RenderedIsSound
<1>3. CASE s.query = "SHOWN"
  <2>1. Settle(e, s, asks)
    BY <1>1, <1>3 DEF Render
  <2> QED BY <1>2, <1>3, <2>1, SettleIsSound
<1>4. CASE s.query # "SHOWN"
  BY <1>1, <1>2, <1>4 DEF Render, TabAgrees
<1> QED BY <1>3, <1>4

\* Roles and places, and the answer a query is given.
LEMMA PlacesFit ==
  ASSUME PathsFit(kept)
  PROVE  /\ PathsFit(PlacesOfRoles)
         /\ \A r \in userRoles \cap ActingRoles : PlacesOfRoles[r] # NoPlace
BY WorkspaceAssumption DEF PathsFit, PlacesOfRoles

LEMMA RememberedFits ==
  ASSUME NEW C, NEW V, TabSound(tab, C, V), NEW r \in ActingRoles
  PROVE  RememberedPath(r) \in Places /\ RoleAt(RememberedPath(r)) = r
BY WorkspaceAssumption DEF TabSound, PathsFit, RememberedPath, RoleAt

LEMMA ReturnIsSound ==
  ASSUME NEW C, NEW V, RolesSound(C, V), TabSound(tab, C, V)
  PROVE  EntrySound(SafeReturn, C)
         /\ (tab.role # NoRole => RoleAt(SafeReturn.path) = tab.role)
         /\ (tab.role = NoRole => RoleAt(SafeReturn.path) = SafeReturn.explicit)
<1>1. CASE tab.role = NoRole
  BY <1>1 DEF SafeReturn, EntrySound, Route, RolesSound, RoleAt
<1>2. CASE tab.role # NoRole
  <2>1. tab.role \in ActingRoles
    BY <1>2 DEF TabSound, RolesSound
  <2> QED BY <1>2, <2>1, RememberedFits DEF SafeReturn, EntrySound, Route
<1> QED BY <1>1, <1>2

LEMMA WorkspaceStart ==
  ASSUME WorkspaceInit PROVE WorkspaceInvariant
<1>1. RolesSound(chosen, verifiedRoles) /\ userRoles \subseteq ActingRoles
  BY WorkspaceAssumption DEF WorkspaceInit, RolesSound
<1>2. PathsFit(kept) /\ TabSound(tab, chosen, verifiedRoles)
  BY NoAnswerFits DEF WorkspaceInit, TabSound
<1>3. EntrySound(route, chosen) /\ RoleAt(route.path) = FirstRole
  BY DEF WorkspaceInit, EntrySound, Route, RoleAt
<1>4. ScreenSound(shown, route, chosen, verifiedRoles)
  BY <1>3, NewScreen DEF WorkspaceInit
<1>5. TabAgrees
  BY DEF WorkspaceInit, TabAgrees, Screen
<1> QED BY <1>1, <1>2, <1>3, <1>4, <1>5 DEF WorkspaceInvariant, WorkspaceInit

LEMMA FollowLinkStep ==
  ASSUME WorkspaceInvariant, NEW p \in Places \cup {Landing, NoPlace},
         FollowLink(p)
  PROVE  WorkspaceInvariant'
<1>1. PICK e : e = IF p = NoPlace THEN SafeReturn ELSE Route(p, NoRole)
  OBVIOUS
<1>2. EntrySound(e, chosen)
  <2>1. CASE p = NoPlace
    BY <1>1, <2>1, ReturnIsSound DEF WorkspaceInvariant
  <2>2. CASE p # NoPlace
    BY <1>1, <2>2 DEF EntrySound, Route
  <2> QED BY <2>1, <2>2
<1>3. route' = e /\ shown' = Rendered(e, tab, TRUE)
  BY <1>1 DEF FollowLink
<1>4. ScreenSound(shown', e, chosen, verifiedRoles) /\ shown'.query # "SHOWN"
  BY <1>2, <1>3, RenderedIsSound DEF WorkspaceInvariant
<1>5. \A c \in remembers' : RememberSound(c)
  <2>1. ASSUME NEW c \in remembers, c.stage # "KEPT"
        PROVE  RememberSound([c EXCEPT !.stage =
                 IF @ \in {"READ", "GONE"} THEN "GONE" ELSE "ALONE"])
    <3>1. PICK stage : stage = IF c.stage \in {"READ", "GONE"}
                               THEN "GONE" ELSE "ALONE"
      OBVIOUS
    <3>2. RememberSound(c)
      BY DEF WorkspaceInvariant
    <3>3. PICK r, q, f : c = [role |-> r, place |-> q, stage |-> c.stage,
                              follows |-> f]
      BY <3>2 DEF RememberSound
    <3>4. [c EXCEPT !.stage =
             IF @ \in {"READ", "GONE"} THEN "GONE" ELSE "ALONE"]
            = [role |-> r, place |-> q, stage |-> stage, follows |-> f]
      BY <3>1, <3>3
    <3> QED BY <3>1, <3>2, <3>3, <3>4 DEF RememberSound
  <2> QED BY <2>1 DEF FollowLink
<1> QED BY <1>2, <1>3, <1>4, <1>5
        DEF WorkspaceInvariant, FollowLink, ServerUnchanged, TabAgrees

LEMMA GoBackStep ==
  ASSUME WorkspaceInvariant, NEW e \in backEntries, GoBack(e)
  PROVE  WorkspaceInvariant'
<1>1. EntrySound(e, chosen) /\ Render(e, tab, remembers)
  BY DEF GoBack, WorkspaceInvariant
<1>2. /\ TabSound(tab', chosen, verifiedRoles) /\ EntrySound(route', chosen)
      /\ ScreenSound(shown', route', chosen, verifiedRoles) /\ TabAgrees'
      /\ \A c \in remembers' : RememberSound(c)
  BY <1>1, RenderIsSound DEF WorkspaceInvariant
<1> QED BY <1>2 DEF WorkspaceInvariant, GoBack, ServerUnchanged

LEMMA ChangeRoleStep ==
  ASSUME WorkspaceInvariant, ChangeRole
  PROVE  WorkspaceInvariant'
<1>1. RoleAt(route.path) \in ActingRoles
  BY RolesOfPaths DEF WorkspaceInvariant
<1>2. RolesSound(chosen', verifiedRoles)
  BY <1>1 DEF WorkspaceInvariant, ChangeRole, RolesSound
<1>3. /\ TabSound(tab, chosen', verifiedRoles) /\ EntrySound(route, chosen')
      /\ \A e \in backEntries : EntrySound(e, chosen')
  BY NothingIsForgotten DEF WorkspaceInvariant, ChangeRole
<1>4. ScreenSound(shown', route, chosen', verifiedRoles)
  BY NewScreen DEF ChangeRole
<1>5. TabAgrees'
  BY DEF ChangeRole, TabAgrees, Screen
<1> QED BY <1>2, <1>3, <1>4, <1>5
        DEF WorkspaceInvariant, ChangeRole, ServerUnchanged

LEMMA ReturnSafelyStep ==
  ASSUME WorkspaceInvariant, ReturnSafely
  PROVE  WorkspaceInvariant'
<1>1. PICK e : e = SafeReturn
  OBVIOUS
<1>2. EntrySound(e, chosen) /\ Render(e, tab, remembers)
  BY <1>1, ReturnIsSound DEF ReturnSafely, WorkspaceInvariant
<1>3. /\ TabSound(tab', chosen, verifiedRoles) /\ EntrySound(route', chosen)
      /\ ScreenSound(shown', route', chosen, verifiedRoles) /\ TabAgrees'
      /\ \A c \in remembers' : RememberSound(c)
  BY <1>2, RenderIsSound DEF WorkspaceInvariant
<1> QED BY <1>3 DEF WorkspaceInvariant, ReturnSafely, ServerUnchanged

LEMMA SelectPlaceStep ==
  ASSUME WorkspaceInvariant, NEW p \in Places, SelectPlace(p)
  PROVE  WorkspaceInvariant'
<1>1. /\ shown'.confirmed = shown.confirmed /\ shown'.query = shown.query
      /\ shown'.answer = shown.answer
      /\ shown' = [confirmed |-> shown'.confirmed, query |-> shown'.query,
                   answer |-> shown'.answer,
                   remembering |-> shown'.remembering]
  <2>1. PICK c, q, a, m : shown = [confirmed |-> c, query |-> q, answer |-> a,
                                   remembering |-> m]
    BY DEF WorkspaceInvariant, ScreenSound
  <2>2. [shown EXCEPT !.remembering = p] =
          [confirmed |-> c, query |-> q, answer |-> a, remembering |-> p]
    BY <2>1
  <2> QED BY <2>1, <2>2 DEF SelectPlace
<1>2. ScreenSound(shown', route, chosen, verifiedRoles)
  BY <1>1 DEF WorkspaceInvariant, ScreenSound
<1>3. RememberSound(Call(RoleOfPlace[p], p, TRUE))
  BY WorkspaceAssumption DEF RememberSound, Call
<1> QED BY <1>1, <1>2, <1>3
        DEF WorkspaceInvariant, SelectPlace, ServerUnchanged, TabAgrees

LEMMA SelectRoleStep ==
  ASSUME WorkspaceInvariant, NEW r \in ActingRoles, SelectRole(r)
  PROVE  WorkspaceInvariant'
<1>1. chosen \subseteq chosen' /\ RolesSound(chosen', verifiedRoles)
  BY DEF WorkspaceInvariant, SelectRole, RolesSound
<1>2. /\ TabSound(tab, chosen', verifiedRoles) /\ EntrySound(route, chosen')
      /\ \A e \in backEntries : EntrySound(e, chosen')
      /\ ScreenSound(shown, route, chosen', verifiedRoles)
  BY <1>1, NothingIsForgotten DEF WorkspaceInvariant
<1>3. PICK e : e = Route(shown.answer[r], r)
  OBVIOUS
<1>4. EntrySound(e, chosen') /\ Render(e, tab, remembers)
  BY <1>3 DEF SelectRole, WorkspaceInvariant, ScreenSound, PathsFit, Route,
              EntrySound
<1>5. /\ TabSound(tab', chosen', verifiedRoles) /\ EntrySound(route', chosen')
      /\ ScreenSound(shown', route', chosen', verifiedRoles) /\ TabAgrees'
      /\ \A c \in remembers' : RememberSound(c)
  BY <1>1, <1>2, <1>4, RenderIsSound DEF WorkspaceInvariant
<1> QED BY <1>1, <1>2, <1>5 DEF WorkspaceInvariant, SelectRole, ServerUnchanged

LEMMA LoadWorkspaceStep ==
  ASSUME WorkspaceInvariant, LoadWorkspace
  PROVE  WorkspaceInvariant'
<1>1. PICK r : r = RoleAt(route.path)
  OBVIOUS
<1>2. r \in ActingRoles /\ r \in chosen
  BY <1>1, RolesOfPaths
     DEF WorkspaceInvariant, LoadWorkspace, ScreenSound
<1>3. PICK c, q, a, m : shown = [confirmed |-> c, query |-> q, answer |-> a,
                                 remembering |-> m]
  BY DEF WorkspaceInvariant, ScreenSound
<1>4. CASE MayActIn(r)
  <2>1. /\ verifiedRoles' = verifiedRoles \cup {r}
        /\ shown' = [shown EXCEPT !.query = "ANSWERED",
                                  !.answer = PlacesOfRoles]
    BY <1>1, <1>4 DEF LoadWorkspace
  <2>2. shown' = [confirmed |-> c, query |-> "ANSWERED",
                  answer |-> PlacesOfRoles, remembering |-> m]
    BY <1>3, <2>1
  <2>3. PathsFit(PlacesOfRoles) /\ PlacesOfRoles[r] # NoPlace
    BY <1>2, <1>4, PlacesFit DEF MayActIn, WorkspaceInvariant
  <2>4. ScreenSound(shown', route, chosen, verifiedRoles')
    BY <1>1, <1>2, <1>3, <2>1, <2>2, <2>3 DEF ScreenSound, WorkspaceInvariant
  <2>5. RolesSound(chosen, verifiedRoles')
        /\ TabSound(tab, chosen, verifiedRoles')
    BY <1>2, <2>1 DEF WorkspaceInvariant, RolesSound, TabSound
  <2>6. TabAgrees'
    BY <2>2 DEF TabAgrees
  <2> QED BY <2>4, <2>5, <2>6
          DEF WorkspaceInvariant, LoadWorkspace, ServerUnchanged
<1>5. CASE ~MayActIn(r)
  <2>1. shown' = [shown EXCEPT !.query = "DENIED"] /\ UNCHANGED verifiedRoles
    BY <1>1, <1>5 DEF LoadWorkspace
  <2>2. shown' = [confirmed |-> c, query |-> "DENIED", answer |-> a,
                  remembering |-> m]
    BY <1>3, <2>1
  <2>3. ScreenSound(shown', route, chosen, verifiedRoles)
    BY <1>1, <1>2, <1>3, <2>2 DEF ScreenSound, WorkspaceInvariant
  <2>4. TabAgrees'
    BY <2>2 DEF TabAgrees
  <2> QED BY <2>1, <2>3, <2>4
          DEF WorkspaceInvariant, LoadWorkspace, ServerUnchanged
<1> QED BY <1>4, <1>5

LEMMA WorkspaceLoadsStep ==
  ASSUME WorkspaceInvariant, WorkspaceLoads
  PROVE  WorkspaceInvariant'
<1>1. PICK s : s = [shown EXCEPT !.query = "SHOWN"]
  OBVIOUS
<1>2. PICK c, q, a, m : shown = [confirmed |-> c, query |-> q, answer |-> a,
                                 remembering |-> m]
  BY DEF WorkspaceInvariant, ScreenSound
<1>3. s = [confirmed |-> c, query |-> "SHOWN", answer |-> a,
           remembering |-> m]
  BY <1>1, <1>2
<1>4. ScreenSound(s, route, chosen, verifiedRoles) /\ s.query = "SHOWN"
  BY <1>2, <1>3 DEF WorkspaceInvariant, WorkspaceLoads, ScreenSound
<1>5. Settle(route, s, remembers)
  BY <1>1 DEF WorkspaceLoads
<1>6. /\ TabSound(tab', chosen, verifiedRoles) /\ EntrySound(route', chosen)
      /\ ScreenSound(shown', route', chosen, verifiedRoles) /\ TabAgrees'
      /\ \A d \in remembers' : RememberSound(d)
  BY <1>4, <1>5, SettleIsSound DEF WorkspaceInvariant
<1> QED BY <1>6 DEF WorkspaceInvariant, WorkspaceLoads, ServerUnchanged

LEMMA QueryFailsStep ==
  ASSUME WorkspaceInvariant, QueryFails
  PROVE  WorkspaceInvariant'
<1>1. PICK c, q, a, m : shown = [confirmed |-> c, query |-> q, answer |-> a,
                                 remembering |-> m]
  BY DEF WorkspaceInvariant, ScreenSound
<1>2. shown' = [confirmed |-> c, query |-> "DENIED", answer |-> a,
                remembering |-> m]
  BY <1>1 DEF QueryFails
<1>3. ScreenSound(shown', route, chosen, verifiedRoles) /\ TabAgrees'
  BY <1>1, <1>2 DEF WorkspaceInvariant, QueryFails, ScreenSound, TabAgrees
<1> QED BY <1>3 DEF WorkspaceInvariant, QueryFails, ServerUnchanged

LEMMA AskElsewhereStep ==
  ASSUME WorkspaceInvariant, NEW r \in ActingRoles, NEW p \in Places,
         AskElsewhere(r, p)
  PROVE  WorkspaceInvariant'
BY DEF WorkspaceInvariant, AskElsewhere, ServerUnchanged, RememberSound,
       TabAgrees

\* A call at a later stage.
LEMMA LaterStage ==
  ASSUME WorkspaceInvariant, NEW c \in remembers, NEW stage,
         RoleOfPlace[c.place] = c.role
  PROVE  \A d \in Becomes(c, stage) : RememberSound(d)
<1>1. PICK r, p, q, f : c = [role |-> r, place |-> p, stage |-> q,
                             follows |-> f]
  BY DEF WorkspaceInvariant, RememberSound
<1>2. [c EXCEPT !.stage = stage] =
        [role |-> r, place |-> p, stage |-> stage, follows |-> f]
  BY <1>1
<1>3. RememberSound([c EXCEPT !.stage = stage])
  BY <1>1, <1>2 DEF WorkspaceInvariant, RememberSound
<1> QED BY <1>3 DEF Becomes, WorkspaceInvariant

LEMMA ReadRolesStep ==
  ASSUME WorkspaceInvariant, NEW c \in remembers, ReadRoles(c)
  PROVE  WorkspaceInvariant'
<1>1. \A d \in remembers' : RememberSound(d)
  <2>1. CASE CanRemember(c)
    <3>1. PICK stage : remembers' = Becomes(c, stage)
      BY <2>1 DEF ReadRoles
    <3> QED BY <2>1, <3>1, LaterStage DEF CanRemember
  <2>2. CASE ~CanRemember(c)
    BY <2>2 DEF ReadRoles, WorkspaceInvariant
  <2> QED BY <2>1, <2>2
<1> QED BY <1>1
        DEF WorkspaceInvariant, ReadRoles, ServerUnchanged, TabAgrees

LEMMA KeepPlaceStep ==
  ASSUME WorkspaceInvariant, NEW c \in remembers, KeepPlace(c)
  PROVE  WorkspaceInvariant'
<1>1. /\ c.role \in ActingRoles /\ c.place \in Places
      /\ RoleOfPlace[c.place] = c.role
  BY DEF WorkspaceInvariant, KeepPlace, RememberSound
<1>2. PathsFit(kept')
  BY <1>1 DEF WorkspaceInvariant, KeepPlace, PathsFit
<1>3. \A d \in remembers' : RememberSound(d)
  BY <1>1, LaterStage DEF KeepPlace, WorkspaceInvariant
<1> QED BY <1>2, <1>3 DEF WorkspaceInvariant, KeepPlace, TabAgrees

LEMMA PlaceIsKeptStep ==
  ASSUME WorkspaceInvariant, NEW c \in remembers, PlaceIsKept(c)
  PROVE  WorkspaceInvariant'
<1>1. /\ c.role \in ActingRoles /\ c.place \in Places
      /\ RoleOfPlace[c.place] = c.role
  BY DEF WorkspaceInvariant, PlaceIsKept, RememberSound
<1>2. PICK t : t = [tab EXCEPT !.paths[c.role] = c.place]
  OBVIOUS
<1>3. t.role = tab.role /\ TabSound(t, chosen, verifiedRoles)
  <2>1. PICK r, f : tab = [role |-> r, paths |-> f]
    BY DEF WorkspaceInvariant, TabSound
  <2>2. t = [role |-> r, paths |-> [f EXCEPT ![c.role] = c.place]]
    BY <1>2, <2>1
  <2>3. PathsFit(f)
    BY <2>1 DEF WorkspaceInvariant, TabSound
  <2>4. PathsFit([f EXCEPT ![c.role] = c.place])
    BY <1>1, <2>3 DEF PathsFit
  <2> QED BY <2>1, <2>2, <2>4 DEF WorkspaceInvariant, TabSound
<1>4. CASE c.follows
  <2>1. PICK e : e = Route(c.place, NoRole)
    OBVIOUS
  <2>2. EntrySound(e, chosen) /\ Render(e, t, remembers \ {c})
    BY <1>1, <1>2, <1>4, <2>1 DEF PlaceIsKept, EntrySound, Route
  <2>3. /\ TabSound(tab', chosen, verifiedRoles) /\ EntrySound(route', chosen)
        /\ ScreenSound(shown', route', chosen, verifiedRoles) /\ TabAgrees'
        /\ \A d \in remembers' : RememberSound(d)
    BY <1>3, <2>2, RenderIsSound DEF WorkspaceInvariant
  <2> QED BY <1>4, <2>3 DEF WorkspaceInvariant, PlaceIsKept, ServerUnchanged
<1>5. CASE ~c.follows
  <2>1. /\ tab' = t /\ remembers' = remembers \ {c}
        /\ UNCHANGED <<route, backEntries, shown, visits>>
    BY <1>2, <1>5 DEF PlaceIsKept
  <2> QED BY <1>3, <2>1
          DEF WorkspaceInvariant, PlaceIsKept, ServerUnchanged, TabAgrees
<1> QED BY <1>4, <1>5

LEMMA WorkspaceStep ==
  ASSUME WorkspaceInvariant, [WorkspaceNext]_workspaceVars
  PROVE  WorkspaceInvariant'
<1>1. CASE \E roles \in SUBSET ActingRoles : SetRoles(roles)
  BY <1>1 DEF WorkspaceInvariant, SetRoles, TabAgrees
<1>2. CASE SetBlocked
  BY <1>2 DEF WorkspaceInvariant, SetBlocked, TabAgrees
<1>3. CASE UNCHANGED workspaceVars
  BY <1>3 DEF WorkspaceInvariant, workspaceVars, TabAgrees
<1> QED BY <1>1, <1>2, <1>3, FollowLinkStep, GoBackStep, ChangeRoleStep,
           ReturnSafelyStep, SelectPlaceStep, SelectRoleStep,
           LoadWorkspaceStep, WorkspaceLoadsStep, QueryFailsStep,
           AskElsewhereStep, ReadRolesStep, KeepPlaceStep, PlaceIsKeptStep
        DEF WorkspaceNext

\* The way back from a guard or a denial meets no guard.
LEMMA NoGuardOnReturn ==
  ASSUME WorkspaceInvariant PROVE ReturnIsUnguarded
<1>1. PICK e : e = SafeReturn
  OBVIOUS
<1>2. RoleAt(e.path) \in {e.explicit, tab.role}
  BY <1>1, ReturnIsSound DEF WorkspaceInvariant
<1>3. \A c, q, p : Screen(c, q, p).query = q
  BY DEF Screen
<1>4. Rendered(e, tab, FALSE).query # "GUARD"
  BY <1>2, <1>3 DEF Rendered
<1> QED BY <1>1, <1>4 DEF ReturnIsUnguarded

(* However links, Back, late answers, other devices and administrators     *)
(* interleave, a workspace is shown only in a role that the User chose and *)
(* the server verified, places stay with their roles, and a safe return    *)
(* meets no guard (GuardedWorkspaceRoute, app.tsx, and                     *)
(* canRememberWorkspacePlace).                                             *)
THEOREM WorkspaceStaysChosen == WorkspaceSpec => []WorkspaceIsChosen
<1>1. ASSUME WorkspaceInvariant PROVE WorkspaceIsChosen
  <2>1. OpensAsChosen /\ ActingRoleIsVerified
    BY <1>1 DEF WorkspaceInvariant, ScreenSound, TabAgrees, TabSound,
                OpensAsChosen, ActingRoleIsVerified
  <2>2. PlacesFitRoles
    BY <1>1, RememberedFits DEF WorkspaceInvariant, PathsFit, PlacesFitRoles
  <2> QED BY <1>1, <2>1, <2>2, NoGuardOnReturn DEF WorkspaceIsChosen
<1> QED BY <1>1, WorkspaceStart, WorkspaceStep, PTL DEF WorkspaceSpec

----------------------------------------------------------------------------
(* The web client.  Of an attempt that was not displaced all calls have one *)
(* key, and a key is decided once.                                          *)

CallRows ==
  [form : FormsOf(openPanel), target : TargetsOf(openPanel), key : Nat,
   number : Nat, client : {"WAITING", "LOST", "GONE", "ACCEPTED", "REFUSED"},
   server : {"SENT", "ACCEPTED", "REFUSED"}, effect : BOOLEAN]

ClientTyped ==
  /\ calls \in Seq(CallRows)
  /\ told \in [FormsOf(openPanel) \X TargetsOf(openPanel) -> Nat]
  /\ \/ pending = NoAttempt
     \/ pending \in [kept : {TRUE}, form : FormsOf(openPanel),
                     target : TargetsOf(openPanel), key : 1 .. Len(calls)]

KeysSound ==
  /\ \A i \in Indexes : calls[i].key \in 1 .. Len(calls)
  /\ \A i, j \in Indexes : calls[i].key = calls[j].key =>
       calls[i].form = calls[j].form /\ calls[i].target = calls[j].target
  /\ pending.kept =>
       /\ KeepsKey(pending.form)
       /\ \A i \in Indexes : calls[i].key = pending.key =>
            calls[i].form = pending.form /\ calls[i].target = pending.target

AnswersSound ==
  \A i \in Indexes :
    /\ calls[i].effect => calls[i].server = "ACCEPTED"
    /\ calls[i].client \in {"ACCEPTED", "REFUSED"} =>
         calls[i].server = calls[i].client
    /\ \A j \in Indexes : calls[i].key = calls[j].key =>
         /\ Decided(i) /\ Decided(j) => calls[i].server = calls[j].server
         /\ calls[i].effect /\ calls[j].effect => i = j

\* What the API does not repeat took effect once, under whatever keys.
EffectsSound ==
  \A i, j \in Indexes :
    SameAttempt(i, j) /\ calls[i].effect /\ calls[j].effect =>
      i = j \/ "REPEATED" \in calls[i].form.again

IsCurrent(i) == calls[i].number = told[<<calls[i].form, calls[i].target>>]

\* The attempt that goes on is the one the panel holds the key of, or the
\* one that its form is stuck with.
KeptSound(i) ==
  /\ \A j \in Indexes : SameAttempt(i, j) => calls[j].key = calls[i].key
  /\ IsCurrent(i) => /\ HeldFor(calls[i].form, calls[i].target)
                     /\ pending.key = calls[i].key

StuckSound(i) ==
  /\ \A j \in Indexes : SameAttempt(i, j) => j = i
  /\ IsCurrent(i) => calls[i].client \in {"WAITING", "LOST"}

AttemptsSound ==
  \A i \in Indexes :
    /\ calls[i].number <= told[<<calls[i].form, calls[i].target>>]
    /\ KeepsKey(calls[i].form) /\ ~Displaced(i) => KeptSound(i)
    /\ calls[i].form.keys = "STUCK" /\ ~Displaced(i) => StuckSound(i)

WaitingSound ==
  Exclusive =>
    /\ \A d \in displaced : d.cause # "ANSWER"
    /\ \A i, j \in Indexes : Waits(i) /\ Waits(j) => i = j
    /\ \A i \in Indexes :
         Waits(i) /\ KeepsKey(calls[i].form) /\ pending.kept =>
           pending.form = calls[i].form /\ pending.target = calls[i].target

ClientInvariant ==
  /\ ClientTyped /\ KeysSound /\ AnswersSound /\ EffectsSound
  /\ AttemptsSound /\ WaitingSound

\* What a step leaves of the calls that were sent.
SameSending ==
  /\ Indexes' = Indexes /\ UNCHANGED openPanel
  /\ \A i \in Indexes :
       /\ calls'[i].form = calls[i].form /\ calls'[i].target = calls[i].target
       /\ calls'[i].key = calls[i].key /\ calls'[i].number = calls[i].number

SameAnswers ==
  \A i \in Indexes : calls'[i].server = calls[i].server
                     /\ calls'[i].effect = calls[i].effect

LEMMA KeysOfForms ==
  \A f \in Forms : f.keys \in {"KEPT", "KEPT WHEN REFUSED", "FRESH", "STUCK"}
<1>1. \A a, p, g, s : /\ Kept(a, p, g, s).keys = "KEPT"
                      /\ FreshKey(a, g, s).keys = "FRESH"
  BY DEF Kept, FreshKey, Form
<1>2. RequestExport.keys = "KEPT WHEN REFUSED" /\ Redact.keys = "STUCK"
  BY DEF RequestExport, Redact, Form
<1>3. \A f \in ChangeSubscription \cup AnswerInvitation : f.keys = "KEPT"
  BY <1>1 DEF ChangeSubscription, AnswerInvitation
<1>4. \A f \in ChangeAssignment : f.keys = "FRESH"
  BY DEF ChangeAssignment, Form
<1>5. \A f \in {Book, CancelOwn, RescheduleOwn, JoinList, WithdrawEntry,
                Adjust, CreateCohort, AddMembership, EndMembership,
                EndOwnSponsorship, Invite, EndSponsored} : f.keys = "KEPT"
  BY <1>1 DEF Book, CancelOwn, RescheduleOwn, JoinList, WithdrawEntry, Adjust,
              CreateCohort, AddMembership, EndMembership, EndOwnSponsorship,
              Invite, EndSponsored
<1>6. \A f \in {PublishSession, ChangeSeats, CancelSession, SubstituteSession,
                ReportOwnAbsence, CreateCourse, CreateLessonUnit,
                RetireLessonUnit, AddMaterial, ReviseMaterial, SaveTopic,
                SaveProfile, ChangeQualification, DecideTask, RequestReview,
                DecideReview, RecordRoster, SaveFeedback, SaveRating,
                AddRange, AddException, EndRange, RemoveException} :
        f.keys = "FRESH"
  BY <1>1 DEF PublishSession, ChangeSeats, CancelSession, SubstituteSession,
              ReportOwnAbsence, CreateCourse, CreateLessonUnit,
              RetireLessonUnit, AddMaterial, ReviseMaterial, SaveTopic,
              SaveProfile, ChangeQualification, DecideTask, RequestReview,
              DecideReview, RecordRoster, SaveFeedback, SaveRating,
              AddRange, AddException, EndRange, RemoveException
<1>7. SUFFICES ASSUME NEW f \in Forms
               PROVE  f.keys \in {"KEPT", "KEPT WHEN REFUSED", "FRESH", "STUCK"}
  OBVIOUS
<1>8. CASE f \in ChangeSubscription \cup AnswerInvitation \cup ChangeAssignment
  BY <1>3, <1>4, <1>8
<1>9. CASE f = RequestExport \/ f = Redact
  BY <1>2, <1>9
<1>10. CASE f \notin ChangeSubscription \cup AnswerInvitation
                       \cup ChangeAssignment /\ f # RequestExport /\ f # Redact
  <2>1. f \in {Book, CancelOwn, RescheduleOwn, JoinList, WithdrawEntry,
                Adjust, CreateCohort, AddMembership, EndMembership,
                EndOwnSponsorship, Invite, EndSponsored}
        \/ f \in {PublishSession, ChangeSeats, CancelSession, SubstituteSession,
                ReportOwnAbsence, CreateCourse, CreateLessonUnit,
                RetireLessonUnit, AddMaterial, ReviseMaterial, SaveTopic,
                SaveProfile, ChangeQualification, DecideTask, RequestReview,
                DecideReview, RecordRoster, SaveFeedback, SaveRating,
                AddRange, AddException, EndRange, RemoveException}
    BY <1>10, SMTT(60) DEF Forms
  <2> QED BY <1>5, <1>6, <2>1
<1> QED BY <1>8, <1>9, <1>10

LEMMA AgainsOfForms ==
  \A f \in Forms : f.again \subseteq {"REFUSED", "REPEATED", "HARMLESS"}
<1> DEFINE Known(f) == f.again \subseteq {"REFUSED", "REPEATED", "HARMLESS"}
<1>1. \A a, p, k, g : \A s \in {Refused, Repeated, Harmless} :
        /\ Known(Form(a, p, k, g, s)) /\ Known(Kept(a, p, g, s))
        /\ Known(FreshKey(a, g, s))
  BY DEF Kept, FreshKey, Form, Refused, Repeated, Harmless
<1>2. Known(RequestExport) /\ Known(Redact)
  BY DEF RequestExport, Redact, Form, Refused, Repeated
<1>3. \A f \in ChangeSubscription \cup AnswerInvitation : Known(f)
  BY <1>1 DEF ChangeSubscription, AnswerInvitation
<1>4. \A f \in ChangeAssignment : Known(f)
  BY <1>1 DEF ChangeAssignment
<1>5. \A f \in {Book, CancelOwn, RescheduleOwn, JoinList, WithdrawEntry,
                Adjust, CreateCohort, AddMembership, EndMembership,
                EndOwnSponsorship, Invite, EndSponsored} : Known(f)
  BY <1>1 DEF Book, CancelOwn, RescheduleOwn, JoinList, WithdrawEntry, Adjust,
              CreateCohort, AddMembership, EndMembership, EndOwnSponsorship,
              Invite, EndSponsored
<1>6. \A f \in {PublishSession, ChangeSeats, CancelSession, SubstituteSession,
                ReportOwnAbsence, CreateCourse, CreateLessonUnit,
                RetireLessonUnit, AddMaterial, ReviseMaterial, SaveTopic,
                SaveProfile, ChangeQualification, DecideTask, RequestReview,
                DecideReview, RecordRoster, SaveFeedback, SaveRating,
                AddRange, AddException, EndRange, RemoveException} :
        Known(f)
  BY <1>1 DEF PublishSession, ChangeSeats, CancelSession, SubstituteSession,
              ReportOwnAbsence, CreateCourse, CreateLessonUnit,
              RetireLessonUnit, AddMaterial, ReviseMaterial, SaveTopic,
              SaveProfile, ChangeQualification, DecideTask, RequestReview,
              DecideReview, RecordRoster, SaveFeedback, SaveRating,
              AddRange, AddException, EndRange, RemoveException
<1>7. SUFFICES ASSUME NEW f \in Forms
               PROVE  Known(f)
  OBVIOUS
<1>8. CASE f \in ChangeSubscription \cup AnswerInvitation \cup ChangeAssignment
  BY <1>3, <1>4, <1>8
<1>9. CASE f = RequestExport \/ f = Redact
  BY <1>2, <1>9
<1>10. CASE f \notin ChangeSubscription \cup AnswerInvitation
                       \cup ChangeAssignment /\ f # RequestExport /\ f # Redact
  <2>1. f \in {Book, CancelOwn, RescheduleOwn, JoinList, WithdrawEntry,
                Adjust, CreateCohort, AddMembership, EndMembership,
                EndOwnSponsorship, Invite, EndSponsored}
        \/ f \in {PublishSession, ChangeSeats, CancelSession, SubstituteSession,
                ReportOwnAbsence, CreateCourse, CreateLessonUnit,
                RetireLessonUnit, AddMaterial, ReviseMaterial, SaveTopic,
                SaveProfile, ChangeQualification, DecideTask, RequestReview,
                DecideReview, RecordRoster, SaveFeedback, SaveRating,
                AddRange, AddException, EndRange, RemoveException}
    BY <1>10, SMTT(60) DEF Forms
  <2> QED BY <1>5, <1>6, <2>1
<1> QED BY <1>8, <1>9, <1>10

LEMMA RowsOfCalls ==
  ASSUME ClientTyped
  PROVE  /\ Indexes = 1 .. Len(calls) /\ Len(calls) \in Nat
         /\ \A i \in Indexes :
              /\ calls[i] \in CallRows /\ calls[i].form \in FormsOf(openPanel)
              /\ calls[i].target \in TargetsOf(openPanel)
              /\ calls[i].key \in Nat /\ calls[i].number \in Nat
              /\ calls[i].effect \in BOOLEAN
         /\ \A f \in FormsOf(openPanel), t \in TargetsOf(openPanel) :
              told[<<f, t>>] \in Nat
<1>1. Indexes = 1 .. Len(calls) /\ Len(calls) \in Nat
      /\ \A i \in Indexes : calls[i] \in CallRows
  BY DEF ClientTyped, Indexes
<1>2. \A c \in CallRows :
        /\ c.form \in FormsOf(openPanel) /\ c.target \in TargetsOf(openPanel)
        /\ c.key \in Nat /\ c.number \in Nat /\ c.effect \in BOOLEAN
  BY DEF CallRows
<1>3. \A f \in FormsOf(openPanel), t \in TargetsOf(openPanel) :
        told[<<f, t>>] \in Nat
  BY DEF ClientTyped
<1> QED BY <1>1, <1>2, <1>3

LEMMA HeldAttempt ==
  ASSUME ClientTyped
  PROVE  /\ pending.kept \in BOOLEAN
         /\ pending.kept => /\ pending.form \in FormsOf(openPanel)
                            /\ pending.target \in TargetsOf(openPanel)
                            /\ pending.key \in 1 .. Len(calls)
         /\ pending # NoAttempt => pending.kept
<1>1. NoAttempt.kept = FALSE
  BY DEF NoAttempt
<1> QED BY <1>1 DEF ClientTyped

LEMMA HeldForms ==
  ASSUME ClientTyped, NEW i \in Indexes
  PROVE  calls[i].form.keys \in {"KEPT", "KEPT WHEN REFUSED", "FRESH", "STUCK"}
BY RowsOfCalls, KeysOfForms DEF FormsOf

\* A call of its own, or one more of the attempt that is held.
LEMMA PressStep ==
  ASSUME ClientInvariant, NEW f \in FormsOf(openPanel),
         NEW t \in TargetsOf(openPanel), Press(f, t)
  PROVE  ClientInvariant'
<1>1. PICK n : n = Len(calls) + 1
  OBVIOUS
<1>2. PICK key : key = IF KeepsKey(f) /\ HeldFor(f, t) THEN pending.key ELSE n
  OBVIOUS
<1>3. PICK row : row = [form |-> f, target |-> t, key |-> key,
                        number |-> told[<<f, t>>], client |-> "WAITING",
                        server |-> "SENT", effect |-> FALSE]
  OBVIOUS
<1>4. /\ calls' = Append(calls, row) /\ UNCHANGED <<openPanel, told, reloads>>
      /\ ~Busy(f)
  BY <1>1, <1>2, <1>3 DEF Press
<1>5. /\ KeepsKey(f) => /\ pending' = Pending(f, t, key)
                        /\ displaced' = displaced \cup
                             (IF key = n THEN Lost("PRESS") ELSE {})
      /\ ~KeepsKey(f) => UNCHANGED <<pending, displaced>>
  BY <1>1, <1>2 DEF Press
<1>6. /\ Indexes = 1 .. Len(calls) /\ Len(calls) \in Nat
      /\ \A i \in Indexes : calls[i] \in CallRows
      /\ told[<<f, t>>] \in Nat
  BY RowsOfCalls DEF ClientInvariant
<1>7. key \in 1 .. n /\ (key = n \/ key \in 1 .. Len(calls))
  BY <1>1, <1>2, <1>6, HeldAttempt DEF ClientInvariant, HeldFor
<1>8. row \in CallRows
  BY <1>3, <1>6, <1>7, <1>1 DEF CallRows
<1>9. /\ Indexes' = Indexes \cup {n} /\ n \notin Indexes /\ Len(calls') = n
      /\ calls'[n] = row /\ \A i \in Indexes : calls'[i] = calls[i]
      /\ calls' \in Seq(CallRows)
  <2>1. calls \in Seq(CallRows)
    BY DEF ClientInvariant, ClientTyped
  <2> QED BY <1>1, <1>4, <1>6, <1>8, <2>1 DEF Indexes
<1>10. ClientTyped'
  <2>1. CallRows' = CallRows /\ 1 .. Len(calls) \subseteq 1 .. Len(calls')
    BY <1>1, <1>4, <1>6, <1>9 DEF CallRows, FormsOf
  <2>2. \/ pending' = pending
        \/ pending' \in [kept : {TRUE}, form : FormsOf(openPanel),
                          target : TargetsOf(openPanel), key : 1 .. Len(calls')]
    <3>1. key \in 1 .. Len(calls')
      BY <1>7, <1>9
    <3>2. CASE KeepsKey(f)
      <4>1. Pending(f, t, key) \in
              [kept : {TRUE}, form : FormsOf(openPanel),
               target : TargetsOf(openPanel), key : 1 .. Len(calls')]
        BY <3>1 DEF Pending
      <4> QED BY <1>5, <3>2, <4>1
    <3>3. CASE ~KeepsKey(f)
      BY <1>5, <3>3
    <3> QED BY <3>2, <3>3
  <2>3. FormsOf(openPanel)' = FormsOf(openPanel)
        /\ TargetsOf(openPanel)' = TargetsOf(openPanel)
    BY <1>4 DEF FormsOf
  <2>4. NoAttempt' = NoAttempt
    BY DEF NoAttempt
  <2>5. \/ pending' = NoAttempt
        \/ pending' \in [kept : {TRUE}, form : FormsOf(openPanel),
                          target : TargetsOf(openPanel), key : 1 .. Len(calls')]
    BY <2>1, <2>2 DEF ClientInvariant, ClientTyped
  <2> QED BY <1>4, <1>9, <2>1, <2>3, <2>4, <2>5 DEF ClientInvariant, ClientTyped
<1>11. \A i \in Indexes : calls[i].key \in 1 .. Len(calls)
  BY DEF ClientInvariant, KeysSound
<1>12. \A i \in Indexes : calls[i].key = key =>
         calls[i].form = f /\ calls[i].target = t
  <2>1. key = n => \A i \in Indexes : calls[i].key # key
    BY <1>1, <1>6, <1>11
  <2>2. key # n => KeepsKey(f) /\ HeldFor(f, t) /\ key = pending.key
    BY <1>2
  <2> QED BY <2>1, <2>2 DEF ClientInvariant, KeysSound, HeldFor
<1>13. KeysSound'
  <2>1. \A i \in Indexes' : calls'[i].key \in 1 .. Len(calls')
    BY <1>1, <1>3, <1>6, <1>7, <1>9, <1>11
  <2>2. \A i, j \in Indexes' : calls'[i].key = calls'[j].key =>
          calls'[i].form = calls'[j].form /\ calls'[i].target = calls'[j].target
    <3>1. \A i, j \in Indexes : calls[i].key = calls[j].key =>
            calls[i].form = calls[j].form /\ calls[i].target = calls[j].target
      BY DEF ClientInvariant, KeysSound
    <3>2. row.form = f /\ row.target = t /\ row.key = key
      BY <1>3
    <3> QED BY <1>9, <1>12, <3>1, <3>2
  <2>3. CASE KeepsKey(f)
    <3>1. pending'.form = f /\ pending'.target = t /\ pending'.key = key
      BY <1>5, <2>3 DEF Pending
    <3>2. \A i \in Indexes' : calls'[i].key = key =>
            calls'[i].form = f /\ calls'[i].target = t
      BY <1>3, <1>9, <1>12
    <3> QED BY <2>1, <2>2, <2>3, <3>1, <3>2 DEF KeysSound, KeepsKey
  <2>4. CASE ~KeepsKey(f)
    <3>1. key = n /\ pending' = pending
      BY <1>2, <1>5, <2>4
    <3>2. pending.kept => pending.key # n
      BY <1>1, <1>6, HeldAttempt DEF ClientInvariant
    <3>3. pending'.kept =>
            /\ KeepsKey(pending'.form)
            /\ \A i \in Indexes' : calls'[i].key = pending'.key =>
                 /\ calls'[i].form = pending'.form
                 /\ calls'[i].target = pending'.target
      BY <1>3, <1>9, <3>1, <3>2 DEF ClientInvariant, KeysSound
    <3> QED BY <2>1, <2>2, <3>3 DEF KeysSound, KeepsKey
  <2> QED BY <2>3, <2>4
<1>14. AnswersSound'
  <2>1. \A i \in Indexes : calls[i].key = n => FALSE
    BY <1>1, <1>6, <1>11
  <2>2. row.server = "SENT" /\ row.effect = FALSE /\ row.client = "WAITING"
    BY <1>3
  <2> QED BY <1>9, <2>2 DEF ClientInvariant, AnswersSound, Decided
<1>19. EffectsSound'
  <2>1. row.effect = FALSE
    BY <1>3
  <2> QED BY <1>9, <2>1 DEF ClientInvariant, EffectsSound, SameAttempt
<1>15. row.form = f /\ row.target = t /\ row.key = key
       /\ row.number = told[<<f, t>>] /\ row.client = "WAITING"
  BY <1>3
<1>16. \A i \in Indexes' : Displaced(i)' \/ i = n \/ ~Displaced(i)
  BY <1>5, <1>9 DEF Displaced
<1>17. AttemptsSound'
  <2> SUFFICES ASSUME NEW i \in Indexes'
               PROVE  /\ calls'[i].number <= told'[<<calls'[i].form, calls'[i].target>>]
                      /\ KeepsKey(calls'[i].form) /\ ~Displaced(i)' => KeptSound(i)'
                      /\ calls'[i].form.keys = "STUCK" /\ ~Displaced(i)'
                           => StuckSound(i)'
    BY DEF AttemptsSound, KeepsKey
  <2>1. told' = told
    BY <1>4
  <2>2. calls'[i].number <= told'[<<calls'[i].form, calls'[i].target>>]
    <3>1. CASE i = n
      BY <1>6, <1>9, <1>15, <2>1, <3>1
    <3>2. CASE i # n
      BY <1>9, <2>1, <3>2 DEF ClientInvariant, AttemptsSound
    <3> QED BY <3>1, <3>2
  <2>3. \A j \in Indexes : KeepsKey(calls[j].form) /\ ~Displaced(j) => KeptSound(j)
    BY DEF ClientInvariant, AttemptsSound
  <2>4. \A j \in Indexes : calls[j].form.keys = "STUCK" /\ ~Displaced(j)
                            => StuckSound(j)
    BY DEF ClientInvariant, AttemptsSound
  <2>5. \A j \in Indexes : calls[j].form = f /\ calls[j].target = t
                            /\ calls[j].number = row.number /\ ~Displaced(j)
                            /\ KeepsKey(f) => calls[j].key = key
    <3> SUFFICES ASSUME NEW j \in Indexes, calls[j].form = f,
                        calls[j].target = t, calls[j].number = row.number,
                        ~Displaced(j), KeepsKey(f)
                 PROVE  calls[j].key = key
      OBVIOUS
    <3>1. KeptSound(j) /\ IsCurrent(j)
      BY <1>15, <2>3 DEF IsCurrent
    <3> QED BY <1>2, <3>1 DEF KeptSound
  <2>6. \A j \in Indexes : calls[j].form = f /\ calls[j].target = t
                            /\ calls[j].number = row.number /\ ~Displaced(j)
                            /\ f.keys = "STUCK" => FALSE
    <3> SUFFICES ASSUME NEW j \in Indexes, calls[j].form = f,
                        calls[j].target = t, calls[j].number = row.number,
                        ~Displaced(j), f.keys = "STUCK"
                 PROVE  FALSE
      OBVIOUS
    <3>1. StuckSound(j) /\ IsCurrent(j)
      BY <1>15, <2>4 DEF IsCurrent
    <3> QED BY <1>4, <3>1 DEF StuckSound, Busy, Waits
  <2>7. CASE i = n
    <3>1. \A j \in Indexes : calls[j].form = f /\ calls[j].target = t
            /\ calls[j].number = row.number => (Displaced(j) => Displaced(n)')
      BY <1>5, <1>9, <1>15 DEF Displaced
    <3>2. KeepsKey(f) => HeldFor(f, t)' /\ pending'.key = key
      BY <1>5 DEF Pending, HeldFor
    <3>3. KeepsKey(f) /\ ~Displaced(n)' => KeptSound(n)'
      BY <1>9, <1>15, <2>5, <3>1, <3>2 DEF KeptSound, SameAttempt, HeldFor
    <3>4. f.keys = "STUCK" /\ ~Displaced(n)' => StuckSound(n)'
      BY <1>9, <1>15, <2>6, <3>1 DEF StuckSound, SameAttempt
    <3> QED BY <1>9, <1>15, <2>2, <2>7, <3>3, <3>4 DEF KeepsKey
  <2>8. CASE i # n
    <3>1. i \in Indexes /\ calls'[i] = calls[i] /\ (Displaced(i) => Displaced(i)')
          /\ (IsCurrent(i)' <=> IsCurrent(i))
      BY <1>9, <1>16, <2>1, <2>8 DEF IsCurrent
    <3>2. ASSUME KeepsKey(calls[i].form), ~Displaced(i)'
          PROVE  KeptSound(i)'
      <4>1. KeptSound(i) /\ ~Displaced(i)
        BY <2>3, <3>1, <3>2
      <4>2. \A j \in Indexes' : SameAttempt(i, j)' => calls'[j].key = calls'[i].key
        BY <1>9, <1>15, <2>5, <3>1, <3>2, <4>1 DEF KeptSound, SameAttempt
      <4>3. ASSUME IsCurrent(i)
            PROVE  HeldFor(calls[i].form, calls[i].target)'
                   /\ pending'.key = calls[i].key
        <5>1. HeldFor(calls[i].form, calls[i].target) /\ pending.key = calls[i].key
          BY <4>1, <4>3 DEF KeptSound
        <5>2. CASE ~KeepsKey(f)
          BY <1>5, <3>1, <5>1, <5>2 DEF HeldFor
        <5>3. CASE KeepsKey(f) /\ HeldFor(f, t)
          BY <1>2, <1>5, <3>1, <5>1, <5>3 DEF HeldFor, Pending
        <5>4. CASE KeepsKey(f) /\ ~HeldFor(f, t)
          <6>1. Lost("PRESS") \subseteq displaced'
            BY <1>2, <1>5, <5>4
          <6>2. [attempt |-> AttemptOf(calls[i].form, calls[i].target),
                 cause |-> "PRESS"] \in Lost("PRESS")
            BY <5>1 DEF Lost, HeldFor
          <6>3. AttemptOf(calls[i].form, calls[i].target)
                  = [form |-> calls[i].form, target |-> calls[i].target,
                     number |-> calls[i].number]
            BY <4>3 DEF AttemptOf, IsCurrent
          <6> QED BY <3>1, <3>2, <6>1, <6>2, <6>3 DEF Displaced
        <5> QED BY <5>2, <5>3, <5>4
      <4> QED BY <3>1, <4>2, <4>3 DEF KeptSound, HeldFor
    <3>3. ASSUME calls[i].form.keys = "STUCK", ~Displaced(i)'
          PROVE  StuckSound(i)'
      <4>1. StuckSound(i) /\ ~Displaced(i)
        BY <2>4, <3>1, <3>3
      <4>2. \A j \in Indexes' : SameAttempt(i, j)' => j = i
        BY <1>9, <1>15, <2>6, <3>1, <3>3, <4>1 DEF StuckSound, SameAttempt
      <4> QED BY <3>1, <4>1, <4>2 DEF StuckSound
    <3> QED BY <2>2, <3>1, <3>2, <3>3 DEF KeepsKey
  <2> QED BY <2>7, <2>8
<1>18. WaitingSound'
  <2> SUFFICES ASSUME Exclusive
               PROVE  /\ \A d \in displaced' : d.cause # "ANSWER"
                      /\ \A i, j \in Indexes' : Waits(i)' /\ Waits(j)' => i = j
                      /\ \A i \in Indexes' :
                           Waits(i)' /\ KeepsKey(calls'[i].form) /\ pending'.kept =>
                             /\ pending'.form = calls'[i].form
                             /\ pending'.target = calls'[i].target
    <3>1. Exclusive' <=> Exclusive
      BY <1>4 DEF Exclusive, FormsOf
    <3> QED BY <3>1 DEF WaitingSound, KeepsKey
  <2>1. \A d \in displaced' : d.cause # "ANSWER"
    BY <1>5 DEF ClientInvariant, WaitingSound, Lost
  <2>2. \A i \in Indexes : ~Waits(i)
    BY <1>4, RowsOfCalls DEF ClientInvariant, Exclusive, Busy
  <2>3. \A i \in Indexes' : Waits(i)' => i = n
    BY <1>9, <2>2 DEF Waits
  <2> QED BY <1>5, <1>9, <1>15, <2>1, <2>3 DEF Pending
<1> QED BY <1>10, <1>13, <1>14, <1>17, <1>18, <1>19 DEF ClientInvariant

\* What every step but a press leaves: the calls, as they were sent.
LEMMA SendingStays ==
  ASSUME ClientInvariant, SameSending, pending' \in {pending, NoAttempt},
         calls' \in Seq(CallRows),
         told' \in [FormsOf(openPanel) \X TargetsOf(openPanel) -> Nat]
  PROVE  /\ ClientTyped' /\ KeysSound'
         /\ pending'.kept => pending' = pending
         /\ Exclusive' <=> Exclusive
<1>1. /\ Indexes' = Indexes /\ Len(calls') = Len(calls) /\ openPanel' = openPanel
      /\ FormsOf(openPanel)' = FormsOf(openPanel)
      /\ TargetsOf(openPanel)' = TargetsOf(openPanel)
  BY RowsOfCalls DEF ClientInvariant, SameSending, Indexes, FormsOf
<1>2. CallRows' = CallRows
  BY <1>1 DEF CallRows
<1>3. NoAttempt' = NoAttempt /\ NoAttempt.kept = FALSE
  BY DEF NoAttempt
<1>4. ClientTyped'
  BY <1>1, <1>2, <1>3 DEF ClientInvariant, ClientTyped
<1>5. pending'.kept => pending' = pending
  BY <1>3
<1>6. KeysSound'
  <2>1. pending'.kept =>
          /\ KeepsKey(pending'.form)
          /\ \A i \in Indexes' : calls'[i].key = pending'.key =>
               /\ calls'[i].form = pending'.form
               /\ calls'[i].target = pending'.target
    BY <1>1, <1>5 DEF ClientInvariant, KeysSound, SameSending
  <2>2. \A i, j \in Indexes' : calls'[i].key = calls'[j].key =>
          calls'[i].form = calls'[j].form /\ calls'[i].target = calls'[j].target
    BY <1>1 DEF ClientInvariant, KeysSound, SameSending
  <2>3. \A i \in Indexes' : calls'[i].key \in 1 .. Len(calls')
    BY <1>1 DEF ClientInvariant, KeysSound, SameSending
  <2> QED BY <2>1, <2>2, <2>3 DEF KeysSound, KeepsKey
<1>7. Exclusive' <=> Exclusive
  BY <1>1 DEF Exclusive
<1> QED BY <1>4, <1>5, <1>6, <1>7

\* An attempt that goes on keeps its key, or the loss of the key is recorded.
LEMMA AttemptsStay ==
  ASSUME ClientInvariant, SameSending, displaced \subseteq displaced',
         pending' \in {pending, NoAttempt},
         \A i \in Indexes :
           /\ calls[i].number <= told'[<<calls[i].form, calls[i].target>>]
           /\ IsCurrent(i)' => IsCurrent(i)
           /\ IsCurrent(i)' /\ KeepsKey(calls[i].form) /\ pending.kept
               /\ HeldFor(calls[i].form, calls[i].target) =>
                pending' = pending \/ Displaced(i)'
           /\ IsCurrent(i)' /\ calls[i].form.keys = "STUCK"
               /\ calls[i].client \in {"WAITING", "LOST"} =>
                calls'[i].client \in {"WAITING", "LOST"} \/ Displaced(i)'
  PROVE  AttemptsSound'
<1> SUFFICES ASSUME NEW i \in Indexes
             PROVE  /\ calls'[i].number <= told'[<<calls'[i].form, calls'[i].target>>]
                    /\ KeepsKey(calls'[i].form) /\ ~Displaced(i)' => KeptSound(i)'
                    /\ calls'[i].form.keys = "STUCK" /\ ~Displaced(i)'
                         => StuckSound(i)'
  BY DEF AttemptsSound, KeepsKey, SameSending
<1>1. calls'[i].form = calls[i].form /\ calls'[i].target = calls[i].target
      /\ calls'[i].key = calls[i].key /\ calls'[i].number = calls[i].number
  BY DEF SameSending
<1>2. \A j \in Indexes : SameAttempt(i, j)' <=> SameAttempt(i, j)
  BY DEF SameSending, SameAttempt
<1>3. Displaced(i) => Displaced(i)'
  BY <1>1 DEF Displaced
<1>4. ASSUME KeepsKey(calls[i].form), ~Displaced(i)'
      PROVE  KeptSound(i)'
  <2>1. KeptSound(i)
    BY <1>3, <1>4 DEF ClientInvariant, AttemptsSound
  <2>2. \A j \in Indexes' : SameAttempt(i, j)' => calls'[j].key = calls'[i].key
    BY <1>2, <2>1 DEF KeptSound, SameSending
  <2>3. IsCurrent(i)' => /\ HeldFor(calls[i].form, calls[i].target)
                         /\ pending.key = calls[i].key /\ pending' = pending
    BY <1>4, <2>1 DEF KeptSound, HeldFor
  <2> QED BY <1>1, <2>2, <2>3 DEF KeptSound, HeldFor
<1>5. ASSUME calls[i].form.keys = "STUCK", ~Displaced(i)'
      PROVE  StuckSound(i)'
  <2>1. StuckSound(i)
    BY <1>3, <1>5 DEF ClientInvariant, AttemptsSound
  <2> QED BY <1>2, <1>5, <2>1 DEF StuckSound, SameSending
<1> QED BY <1>1, <1>4, <1>5 DEF KeepsKey

LEMMA OtherFieldsStay ==
  ASSUME ClientTyped, NEW i \in Indexes,
         NEW w \in {"WAITING", "LOST", "GONE", "ACCEPTED", "REFUSED"},
         NEW s \in {"SENT", "ACCEPTED", "REFUSED"}, NEW e \in BOOLEAN,
         calls' = [calls EXCEPT ![i] =
           [calls[i] EXCEPT !.client = w, !.server = s, !.effect = e]],
         UNCHANGED openPanel
  PROVE  /\ SameSending /\ calls' \in Seq(CallRows)
         /\ calls'[i].client = w /\ calls'[i].server = s /\ calls'[i].effect = e
         /\ \A j \in Indexes : j # i => calls'[j] = calls[j]
<1>1. calls \in Seq(CallRows) /\ calls[i] \in CallRows
      /\ i \in 1 .. Len(calls) /\ Len(calls) \in Nat
  BY RowsOfCalls DEF ClientTyped
<1> DEFINE row == [calls[i] EXCEPT !.client = w, !.server = s, !.effect = e]
<1>2. /\ row \in CallRows /\ row.form = calls[i].form
      /\ row.target = calls[i].target /\ row.key = calls[i].key
      /\ row.number = calls[i].number
      /\ row.client = w /\ row.server = s /\ row.effect = e
  BY <1>1 DEF CallRows
<1>3. calls' = [calls EXCEPT ![i] = row]
  OBVIOUS
<1> HIDE DEF row
<1>4. calls' \in Seq(CallRows)
  BY <1>1, <1>2, <1>3
<1>5. Indexes' = Indexes /\ calls'[i] = row
      /\ \A j \in Indexes : j # i => calls'[j] = calls[j]
  BY <1>1, <1>3 DEF Indexes
<1> QED BY <1>2, <1>4, <1>5 DEF SameSending

\* A step that decides no call leaves what took effect.
LEMMA EffectsStay ==
  ASSUME ClientInvariant, SameSending, SameAnswers
  PROVE  EffectsSound'
BY DEF ClientInvariant, EffectsSound, SameSending, SameAnswers, SameAttempt

\* A record answers with what it remembers; without one the key is decided.
LEMMA ServeStep ==
  ASSUME ClientInvariant, NEW i \in Indexes, Serve(i)
  PROVE  ClientInvariant'
<1>1. PICK s \in {"ACCEPTED", "REFUSED"}, e \in BOOLEAN :
        /\ ServedWith(i, s, e)
        /\ e => /\ s = "ACCEPTED"
                /\ ~TookEffect(i) \/ "REPEATED" \in calls[i].form.again
        /\ \/ /\ ~e
              /\ \E j \in Indexes : /\ Decided(j) /\ SameKey(i, j)
                                    /\ calls[j].server = s
           \/ ~ \E j \in Indexes : Decided(j) /\ SameKey(i, j)
  <2>1. CASE Remember(i)
    <3>1. PICK j \in Indexes :
            /\ Decided(j) /\ SameKey(i, j)
            /\ ServedWith(i, IF calls[j].target = calls[i].target
                             THEN calls[j].server ELSE "REFUSED", FALSE)
      BY <2>1 DEF Remember
    <3>2. calls[j].target = calls[i].target
      BY <3>1 DEF ClientInvariant, KeysSound, SameKey
    <3>3. calls[j].server \in {"ACCEPTED", "REFUSED"}
      BY <3>1 DEF Decided
    <3> QED BY <3>1, <3>2, <3>3
  <2>2. CASE Decide(i)
    <3>1. ~ \E j \in Indexes : Decided(j) /\ SameKey(i, j)
      BY <2>2 DEF Decide
    <3>2. \/ /\ ServedWith(i, "ACCEPTED", TRUE)
             /\ ~TookEffect(i) \/ "REPEATED" \in calls[i].form.again
          \/ ServedWith(i, "REFUSED", FALSE) \/ ServedWith(i, "ACCEPTED", FALSE)
      <4>1. CASE \E again \in calls[i].form.again :
               CASE again = "REFUSED" -> ServedWith(i, "REFUSED", FALSE)
                 [] again = "HARMLESS" -> ServedWith(i, "ACCEPTED", FALSE)
                 [] again = "REPEATED" -> ServedWith(i, "ACCEPTED", TRUE)
        BY <4>1, AgainsOfForms, RowsOfCalls DEF ClientInvariant, FormsOf
      <4> QED BY <2>2, <4>1 DEF Decide
    <3> QED BY <3>1, <3>2
  <2> QED BY <2>1, <2>2 DEF Serve
<1>2. /\ UNCHANGED <<openPanel, pending, told, reloads, displaced>>
      /\ calls[i].server = "SENT"
  BY DEF Serve
<1>3. /\ ClientTyped /\ calls[i] \in CallRows
      /\ calls[i].client \in {"WAITING", "LOST", "GONE", "ACCEPTED", "REFUSED"}
  BY RowsOfCalls DEF ClientInvariant, CallRows
<1>4. calls' = [calls EXCEPT ![i] = [calls[i] EXCEPT
                  !.client = calls[i].client, !.server = s, !.effect = e]]
  BY <1>1, <1>3 DEF ServedWith, CallRows, ClientTyped, Indexes
<1>5. /\ SameSending /\ calls' \in Seq(CallRows)
      /\ calls'[i].client = calls[i].client
      /\ calls'[i].server = s /\ calls'[i].effect = e
      /\ \A j \in Indexes : j # i => calls'[j] = calls[j]
  BY <1>1, <1>2, <1>3, <1>4, OtherFieldsStay
<1>6. told' \in [FormsOf(openPanel) \X TargetsOf(openPanel) -> Nat]
  BY <1>2 DEF ClientInvariant, ClientTyped
<1>7. ClientTyped' /\ KeysSound' /\ (Exclusive' <=> Exclusive)
  BY <1>2, <1>5, <1>6, SendingStays
<1>8. \A j \in Indexes : calls'[j].client = calls[j].client
                         /\ calls'[j].form = calls[j].form
                         /\ calls'[j].target = calls[j].target
                         /\ calls'[j].key = calls[j].key
  BY <1>5 DEF SameSending
<1>9. AttemptsSound'
  <2>1. \A j \in Indexes :
          /\ calls[j].number <= told'[<<calls[j].form, calls[j].target>>]
          /\ IsCurrent(j)' => IsCurrent(j)
    BY <1>2, <1>5 DEF ClientInvariant, AttemptsSound, IsCurrent, SameSending
  <2> QED BY <1>2, <1>5, <1>8, <2>1, AttemptsStay
<1>10. WaitingSound'
  <2>1. Indexes' = Indexes /\ \A j \in Indexes : Waits(j)' <=> Waits(j)
    BY <1>5, <1>8 DEF Waits, SameSending
  <2> QED BY <1>2, <1>7, <1>8, <2>1 DEF ClientInvariant, WaitingSound, KeepsKey
<1>11. AnswersSound'
  <2>1. \A j \in Indexes : calls[j].key = calls[i].key => SameKey(i, j)
    BY DEF ClientInvariant, KeysSound, SameKey
  <2>2. \A j \in Indexes : calls[j].key = calls[i].key /\ j # i =>
          /\ Decided(j) => calls[j].server = s
          /\ ~(e /\ calls[j].effect)
    <3> SUFFICES ASSUME NEW j \in Indexes, calls[j].key = calls[i].key, j # i
                 PROVE  /\ Decided(j) => calls[j].server = s
                        /\ ~(e /\ calls[j].effect)
      OBVIOUS
    <3>1. calls[j].effect => Decided(j)
      BY DEF ClientInvariant, AnswersSound, Decided
    <3>2. ASSUME Decided(j)
          PROVE  calls[j].server = s /\ ~e
      <4>1. PICK k \in Indexes : /\ Decided(k) /\ SameKey(i, k)
                                 /\ calls[k].server = s /\ ~e
        BY <1>1, <2>1, <3>2
      <4> QED BY <3>2, <4>1 DEF ClientInvariant, AnswersSound, SameKey
    <3> QED BY <3>1, <3>2
  <2>3. calls[i].client \notin {"ACCEPTED", "REFUSED"}
    BY <1>2 DEF ClientInvariant, AnswersSound
  <2>4. Indexes' = Indexes /\ Decided(i)'
        /\ \A j \in Indexes : j # i => (Decided(j)' <=> Decided(j))
    BY <1>1, <1>5 DEF Decided, SameSending
  <2>5. \A j \in Indexes :
          /\ calls'[j].effect => calls'[j].server = "ACCEPTED"
          /\ calls'[j].client \in {"ACCEPTED", "REFUSED"} =>
               calls'[j].server = calls'[j].client
    BY <1>1, <1>5, <2>3 DEF ClientInvariant, AnswersSound
  <2>6. \A j, k \in Indexes : calls'[j].key = calls'[k].key =>
          /\ Decided(j)' /\ Decided(k)' => calls'[j].server = calls'[k].server
          /\ calls'[j].effect /\ calls'[k].effect => j = k
    <3> SUFFICES ASSUME NEW j \in Indexes, NEW k \in Indexes,
                        calls[j].key = calls[k].key
                 PROVE  /\ Decided(j)' /\ Decided(k)' =>
                             calls'[j].server = calls'[k].server
                        /\ calls'[j].effect /\ calls'[k].effect => j = k
      BY <1>8
    <3>1. CASE j = i /\ k = i
      BY <3>1
    <3>2. CASE j = i /\ k # i
      BY <1>5, <2>2, <2>4, <3>2
    <3>3. CASE j # i /\ k = i
      BY <1>5, <2>2, <2>4, <3>3
    <3>4. CASE j # i /\ k # i
      BY <1>5, <2>4, <3>4 DEF ClientInvariant, AnswersSound
    <3> QED BY <3>1, <3>2, <3>3, <3>4
  <2> QED BY <2>4, <2>5, <2>6 DEF AnswersSound, Decided
<1>12. EffectsSound'
  <2>1. \A j \in Indexes : SameAttempt(i, j) /\ e /\ calls[j].effect =>
          "REPEATED" \in calls[i].form.again
    BY <1>1 DEF TookEffect
  <2>2. Indexes' = Indexes /\ \A j, k \in Indexes :
          SameAttempt(j, k)' <=> SameAttempt(j, k)
    BY <1>5 DEF SameSending, SameAttempt
  <2>3. \A j, k \in Indexes : SameAttempt(j, k) =>
          SameAttempt(k, j) /\ calls[j].form = calls[k].form
    BY DEF SameAttempt
  <2>4. \A j, k \in Indexes :
          SameAttempt(j, k) /\ calls'[j].effect /\ calls'[k].effect =>
            j = k \/ "REPEATED" \in calls[j].form.again
    BY <1>5, <2>1, <2>3 DEF ClientInvariant, EffectsSound
  <2> QED BY <1>8, <2>2, <2>4 DEF EffectsSound
<1> QED BY <1>7, <1>9, <1>10, <1>11, <1>12 DEF ClientInvariant

\* What answers one call says nothing of another, and changes no answer.
LEMMA AnswersStay ==
  ASSUME ClientInvariant, SameSending, SameAnswers,
         \A i \in Indexes :
           calls'[i].client \in {calls[i].client, "LOST", "GONE"}
             \/ calls'[i].client = calls[i].server
  PROVE  AnswersSound'
<1>1. Indexes' = Indexes /\ \A i \in Indexes :
        /\ calls'[i].server = calls[i].server /\ calls'[i].effect = calls[i].effect
        /\ calls'[i].key = calls[i].key /\ (Decided(i)' <=> Decided(i))
  BY DEF SameSending, SameAnswers, Decided
<1>2. \A i \in Indexes :
        /\ calls'[i].effect => calls'[i].server = "ACCEPTED"
        /\ calls'[i].client \in {"ACCEPTED", "REFUSED"} =>
             calls'[i].server = calls'[i].client
  BY <1>1 DEF ClientInvariant, AnswersSound
<1> QED BY <1>1, <1>2 DEF ClientInvariant, AnswersSound, Decided

\* An answer ends the attempt of its call; the key it takes from another
\* attempt is lost, and recorded so.
LEMMA HearStep ==
  ASSUME ClientInvariant, NEW i \in Indexes, Hear(i)
  PROVE  ClientInvariant'
<1> DEFINE at(j) == <<calls[j].form, calls[j].target>>
<1>1. /\ ClientTyped /\ calls[i] \in CallRows /\ calls[i].effect \in BOOLEAN
      /\ \A j \in Indexes : /\ calls[j].number \in Nat
                            /\ at(j) \in FormsOf(openPanel) \X TargetsOf(openPanel)
      /\ told \in [FormsOf(openPanel) \X TargetsOf(openPanel) -> Nat]
  BY RowsOfCalls DEF ClientInvariant, ClientTyped
<1>2. /\ calls' = [calls EXCEPT ![i].client = calls[i].server]
      /\ told' = [told EXCEPT ![at(i)] = @ + 1]
      /\ UNCHANGED <<openPanel, reloads>> /\ Decided(i) /\ Waits(i)
      /\ pending' \in {pending, NoAttempt} /\ displaced \subseteq displaced'
  BY DEF Hear
<1>3. calls' = [calls EXCEPT ![i] = [calls[i] EXCEPT
                  !.client = calls[i].server, !.server = calls[i].server,
                  !.effect = calls[i].effect]]
  BY <1>1, <1>2 DEF CallRows, ClientTyped, Indexes
<1>4. /\ SameSending /\ calls' \in Seq(CallRows)
      /\ calls'[i].client = calls[i].server
      /\ calls'[i].server = calls[i].server /\ calls'[i].effect = calls[i].effect
      /\ \A j \in Indexes : j # i => calls'[j] = calls[j]
  <2>1. calls[i].server \in {"ACCEPTED", "REFUSED"}
    BY <1>2 DEF Decided
  <2> QED BY <1>1, <1>2, <1>3, <2>1, OtherFieldsStay
<1>5. /\ told' \in [FormsOf(openPanel) \X TargetsOf(openPanel) -> Nat]
      /\ told'[at(i)] = told[at(i)] + 1
      /\ \A j \in Indexes : at(j) # at(i) => told'[at(j)] = told[at(j)]
      /\ \A j \in Indexes : told[at(j)] \in Nat
  BY <1>1, <1>2
<1>6. /\ ClientTyped' /\ KeysSound' /\ (Exclusive' <=> Exclusive)
      /\ pending'.kept => pending' = pending
  BY <1>2, <1>4, <1>5, SendingStays
<1>7. AnswersSound'
  BY <1>4, AnswersStay DEF SameAnswers
<1>8. \A j \in Indexes :
        /\ calls[j].number <= told'[at(j)]
        /\ IsCurrent(j)' => IsCurrent(j) /\ at(j) # at(i)
  <2> SUFFICES ASSUME NEW j \in Indexes
               PROVE  /\ calls[j].number <= told'[at(j)]
                      /\ IsCurrent(j)' => IsCurrent(j) /\ at(j) # at(i)
    OBVIOUS
  <2>1. calls[j].number <= told[at(j)]
    BY DEF ClientInvariant, AttemptsSound
  <2>2. IsCurrent(j)' <=> calls[j].number = told'[at(j)]
    BY <1>4 DEF IsCurrent, SameSending
  <2>3. IsCurrent(j) <=> calls[j].number = told[at(j)]
    BY DEF IsCurrent
  <2>4. CASE at(j) = at(i)
    <3>1. told'[at(j)] = told[at(j)] + 1
      BY <1>5, <2>4
    <3> HIDE DEF at
    <3> QED BY <1>1, <1>5, <2>1, <2>2, <2>4, <3>1
  <2>5. CASE at(j) # at(i)
    <3>1. told'[at(j)] = told[at(j)]
      BY <1>5, <2>5
    <3> HIDE DEF at
    <3> QED BY <2>1, <2>2, <2>3, <2>5, <3>1
  <2> QED BY <2>4, <2>5
<1>9. AttemptsSound'
  <2>1. \A j \in Indexes :
          IsCurrent(j)' /\ KeepsKey(calls[j].form) /\ pending.kept
          /\ HeldFor(calls[j].form, calls[j].target) =>
            pending' = pending \/ Displaced(j)'
    <3> SUFFICES ASSUME NEW j \in Indexes, IsCurrent(j)', pending.kept,
                        HeldFor(calls[j].form, calls[j].target),
                        pending' # pending
                 PROVE  Displaced(j)'
      OBVIOUS
    <3>1. ~OwnAnswer(i)
      BY <1>8 DEF OwnAnswer, HeldFor
    <3>2. Lost("ANSWER") \subseteq displaced'
      BY <3>1 DEF Hear
    <3>3. [attempt |-> AttemptOf(calls[j].form, calls[j].target),
           cause |-> "ANSWER"] \in Lost("ANSWER")
      BY DEF Lost, HeldFor
    <3>4. AttemptOf(calls[j].form, calls[j].target)
            = [form |-> calls[j].form, target |-> calls[j].target,
               number |-> calls[j].number]
      BY <1>8 DEF AttemptOf, IsCurrent
    <3>5. calls'[j].form = calls[j].form /\ calls'[j].target = calls[j].target
          /\ calls'[j].number = calls[j].number
      BY <1>4 DEF SameSending
    <3> QED BY <3>2, <3>3, <3>4, <3>5 DEF Displaced
  <2>2. \A j \in Indexes : IsCurrent(j)' => calls'[j].client = calls[j].client
    BY <1>4, <1>8
  <2> QED BY <1>2, <1>4, <1>8, <2>1, <2>2, AttemptsStay
<1>10. WaitingSound'
  <2>1. ~Waits(i)' /\ \A j \in Indexes' : Waits(j)' => j \in Indexes /\ Waits(j)
    BY <1>2, <1>4 DEF Waits, Decided, SameSending
  <2>2. ASSUME Exclusive
        PROVE  \A d \in displaced' : d.cause # "ANSWER"
    <3>1. \A d \in displaced : d.cause # "ANSWER"
      BY <2>2 DEF ClientInvariant, WaitingSound
    <3>2. CASE KeepsKey(calls[i].form)
                 /\ displaced' = displaced \cup
                      (IF OwnAnswer(i) THEN {} ELSE Lost("ANSWER"))
      <4>1. pending.kept => OwnAnswer(i)
        BY <1>2, <2>2, <3>2 DEF ClientInvariant, WaitingSound, OwnAnswer, HeldFor
      <4>2. displaced' = displaced
        BY <3>2, <4>1 DEF Lost
      <4> QED BY <3>1, <4>2
    <3>3. CASE displaced' = displaced
      BY <3>1, <3>3
    <3> QED BY <3>2, <3>3 DEF Hear
  <2>3. \A j \in Indexes : /\ calls'[j].form = calls[j].form
                           /\ calls'[j].target = calls[j].target
    BY <1>4 DEF SameSending
  <2> QED BY <1>6, <2>1, <2>2, <2>3 DEF ClientInvariant, WaitingSound, KeepsKey
<1>11. EffectsSound'
  BY <1>4, EffectsStay DEF SameAnswers
<1> QED BY <1>6, <1>7, <1>9, <1>10, <1>11 DEF ClientInvariant

LEMMA MissStep ==
  ASSUME ClientInvariant, NEW i \in Indexes, Miss(i)
  PROVE  ClientInvariant'
<1>1. /\ ClientTyped /\ calls[i] \in CallRows /\ calls[i].effect \in BOOLEAN
      /\ calls[i].server \in {"SENT", "ACCEPTED", "REFUSED"}
      /\ told \in [FormsOf(openPanel) \X TargetsOf(openPanel) -> Nat]
  BY RowsOfCalls DEF ClientInvariant, ClientTyped, CallRows
<1>2. /\ calls' = [calls EXCEPT ![i].client = "LOST"]
      /\ UNCHANGED <<openPanel, pending, told, reloads, displaced>>
  BY DEF Miss
<1>3. calls' = [calls EXCEPT ![i] = [calls[i] EXCEPT
                  !.client = "LOST", !.server = calls[i].server,
                  !.effect = calls[i].effect]]
  BY <1>1, <1>2 DEF CallRows, ClientTyped, Indexes
<1>4. /\ SameSending /\ calls' \in Seq(CallRows)
      /\ calls'[i].client = "LOST"
      /\ calls'[i].server = calls[i].server /\ calls'[i].effect = calls[i].effect
      /\ \A j \in Indexes : j # i => calls'[j] = calls[j]
  <2>1. PICK w, s, e : /\ w = "LOST" /\ s = calls[i].server
                       /\ e = calls[i].effect
    OBVIOUS
  <2>2. /\ w \in {"WAITING", "LOST", "GONE", "ACCEPTED", "REFUSED"}
        /\ s \in {"SENT", "ACCEPTED", "REFUSED"} /\ e \in BOOLEAN
    BY <1>1, <2>1
  <2>3. calls' = [calls EXCEPT ![i] =
          [calls[i] EXCEPT !.client = w, !.server = s, !.effect = e]]
    BY <1>3, <2>1
  <2>4. ClientTyped /\ UNCHANGED openPanel
    BY <1>1, <1>2
  <2>5. /\ SameSending /\ calls' \in Seq(CallRows)
        /\ calls'[i].client = w /\ calls'[i].server = s /\ calls'[i].effect = e
        /\ \A j \in Indexes : j # i => calls'[j] = calls[j]
    BY <2>2, <2>3, <2>4, OtherFieldsStay, ZenonT(40)
  <2> QED BY <2>1, <2>5
<1>5. ClientTyped' /\ KeysSound' /\ (Exclusive' <=> Exclusive)
  BY <1>1, <1>2, <1>4, SendingStays
<1>6. AnswersSound'
  BY <1>4, AnswersStay DEF SameAnswers
<1>7. AttemptsSound'
  <2>1. \A j \in Indexes :
          /\ calls[j].number <= told'[<<calls[j].form, calls[j].target>>]
          /\ IsCurrent(j)' => IsCurrent(j)
    BY <1>2, <1>4 DEF ClientInvariant, AttemptsSound, IsCurrent, SameSending
  <2>2. \A j \in Indexes : calls[j].client \in {"WAITING", "LOST"} =>
                             calls'[j].client \in {"WAITING", "LOST"}
    BY <1>4
  <2> QED BY <1>2, <1>4, <2>1, <2>2, AttemptsStay
<1>8. WaitingSound'
  <2>1. \A j \in Indexes' : j \in Indexes /\ (Waits(j)' => Waits(j))
                            /\ calls'[j].form = calls[j].form
                            /\ calls'[j].target = calls[j].target
    BY <1>4 DEF Waits, SameSending
  <2> QED BY <1>2, <1>5, <2>1 DEF ClientInvariant, WaitingSound, KeepsKey
<1>9. EffectsSound'
  BY <1>4, EffectsStay DEF SameAnswers
<1> QED BY <1>5, <1>6, <1>7, <1>8, <1>9 DEF ClientInvariant

\* A page that is loaded again holds no key, and every attempt it was about
\* is recorded as given up.
LEMMA ReloadStep ==
  ASSUME ClientInvariant, Reload
  PROVE  ClientInvariant'
<1>1. /\ pending' = NoAttempt /\ UNCHANGED <<openPanel, told>>
      /\ calls' = [i \in Indexes |->
           IF calls[i].client \in {"WAITING", "LOST"}
           THEN [calls[i] EXCEPT !.client = "GONE"] ELSE calls[i]]
      /\ displaced' = displaced \cup
           {[attempt |-> AttemptOf(calls[i].form, calls[i].target),
             cause |-> "RELOAD"] :
               i \in {j \in Indexes : calls[j].form.keys # "FRESH"}}
  BY DEF Reload
<1>2. /\ Indexes = 1 .. Len(calls) /\ Len(calls) \in Nat
      /\ \A i \in Indexes : calls[i] \in CallRows
      /\ told \in [FormsOf(openPanel) \X TargetsOf(openPanel) -> Nat]
  BY RowsOfCalls DEF ClientInvariant, ClientTyped
<1>3. \A c \in CallRows :
        LET gone == [c EXCEPT !.client = "GONE"]
        IN  /\ gone \in CallRows /\ gone.form = c.form /\ gone.target = c.target
            /\ gone.key = c.key /\ gone.number = c.number
            /\ gone.client = "GONE" /\ gone.server = c.server
            /\ gone.effect = c.effect
  BY DEF CallRows
<1>4. /\ DOMAIN calls' = Indexes
      /\ \A i \in Indexes :
           calls'[i] = IF calls[i].client \in {"WAITING", "LOST"}
                       THEN [calls[i] EXCEPT !.client = "GONE"] ELSE calls[i]
  BY <1>1
<1>5. \A i \in Indexes :
        /\ calls'[i] \in CallRows
        /\ calls'[i].form = calls[i].form /\ calls'[i].target = calls[i].target
        /\ calls'[i].key = calls[i].key /\ calls'[i].number = calls[i].number
        /\ calls'[i].server = calls[i].server /\ calls'[i].effect = calls[i].effect
        /\ calls'[i].client \in {calls[i].client, "GONE"} /\ ~Waits(i)'
  <2> SUFFICES ASSUME NEW i \in Indexes
               PROVE  LET new == calls'[i] old == calls[i]
                      IN  /\ new \in CallRows /\ new.form = old.form
                          /\ new.target = old.target /\ new.key = old.key
                          /\ new.number = old.number /\ new.server = old.server
                          /\ new.effect = old.effect
                          /\ new.client \in {old.client, "GONE"}
                          /\ new.client # "WAITING"
    BY <1>4 DEF Waits
  <2>1. CASE calls[i].client \in {"WAITING", "LOST"}
    <3>1. calls'[i] = [calls[i] EXCEPT !.client = "GONE"]
      BY <1>4, <2>1
    <3> QED BY <1>2, <1>3, <3>1
  <2>2. CASE calls[i].client \notin {"WAITING", "LOST"}
    <3>1. calls'[i] = calls[i]
      BY <1>4, <2>2
    <3> QED BY <1>2, <2>2, <3>1
  <2> QED BY <2>1, <2>2
<1>6. SameSending /\ SameAnswers
  BY <1>1, <1>4, <1>5 DEF SameSending, SameAnswers, Indexes
<1>7. calls' \in Seq(CallRows)
  <2>1. calls' \in [1 .. Len(calls) -> CallRows]
    BY <1>1, <1>2, <1>5
  <2> QED BY <1>2, <2>1
<1>8. /\ ClientTyped' /\ KeysSound' /\ (Exclusive' <=> Exclusive)
      /\ pending'.kept => pending' = pending
  BY <1>1, <1>2, <1>6, <1>7, SendingStays
<1>9. AnswersSound'
  BY <1>5, <1>6, AnswersStay
<1>10. \A j \in Indexes : IsCurrent(j)' /\ calls[j].form.keys # "FRESH"
                           => Displaced(j)'
  <2> SUFFICES ASSUME NEW j \in Indexes, IsCurrent(j)',
                      calls[j].form.keys # "FRESH"
               PROVE  Displaced(j)'
    OBVIOUS
  <2>1. AttemptOf(calls[j].form, calls[j].target)
          = [form |-> calls[j].form, target |-> calls[j].target,
             number |-> calls[j].number]
    BY <1>1, <1>5 DEF AttemptOf, IsCurrent
  <2>2. [attempt |-> AttemptOf(calls[j].form, calls[j].target),
         cause |-> "RELOAD"] \in displaced'
    BY <1>1
  <2>3. \E d \in displaced' :
          d.attempt = AttemptOf(calls[j].form, calls[j].target)
    BY <2>2
  <2> QED BY <1>5, <2>1, <2>3 DEF Displaced
<1>11. AttemptsSound'
  <2>1. \A j \in Indexes :
          /\ calls[j].number <= told'[<<calls[j].form, calls[j].target>>]
          /\ IsCurrent(j)' => IsCurrent(j)
    BY <1>1, <1>5 DEF ClientInvariant, AttemptsSound, IsCurrent
  <2>2. \A j \in Indexes : KeepsKey(calls[j].form) => calls[j].form.keys # "FRESH"
    BY DEF KeepsKey
  <2> QED BY <1>1, <1>6, <1>10, <2>1, <2>2, AttemptsStay
<1>12. WaitingSound'
  <2>1. Exclusive => \A d \in displaced' : d.cause # "ANSWER"
    BY <1>1 DEF ClientInvariant, WaitingSound
  <2>2. Indexes' = Indexes
    BY <1>6 DEF SameSending
  <2> QED BY <1>5, <1>8, <2>1, <2>2 DEF WaitingSound
<1> QED BY <1>6, <1>8, <1>9, <1>11, <1>12, EffectsStay DEF ClientInvariant

LEMMA ChangeStudentStep ==
  ASSUME ClientInvariant, ChangeStudent
  PROVE  ClientInvariant'
<1>1. /\ pending' = NoAttempt /\ displaced' = displaced \cup Lost("PRESS")
      /\ UNCHANGED <<openPanel, calls, told, reloads>>
  BY DEF ChangeStudent
<1>2. /\ SameSending /\ SameAnswers /\ calls' \in Seq(CallRows)
      /\ told' \in [FormsOf(openPanel) \X TargetsOf(openPanel) -> Nat]
  BY <1>1 DEF SameSending, SameAnswers, ClientInvariant, ClientTyped, Indexes
<1>3. /\ ClientTyped' /\ KeysSound' /\ (Exclusive' <=> Exclusive)
      /\ pending'.kept => pending' = pending
  BY <1>1, <1>2, SendingStays
<1>4. AnswersSound'
  BY <1>1, <1>2, AnswersStay
<1>5. \A j \in Indexes : IsCurrent(j) /\ HeldFor(calls[j].form, calls[j].target)
                          => Displaced(j)'
  <2> SUFFICES ASSUME NEW j \in Indexes, IsCurrent(j),
                      HeldFor(calls[j].form, calls[j].target)
               PROVE  Displaced(j)'
    OBVIOUS
  <2>1. AttemptOf(calls[j].form, calls[j].target)
          = [form |-> calls[j].form, target |-> calls[j].target,
             number |-> calls[j].number]
    BY DEF AttemptOf, IsCurrent
  <2>2. [attempt |-> AttemptOf(calls[j].form, calls[j].target),
         cause |-> "PRESS"] \in Lost("PRESS")
    BY DEF Lost, HeldFor
  <2> QED BY <1>1, <2>1, <2>2 DEF Displaced
<1>6. AttemptsSound'
  <2>1. \A j \in Indexes :
          /\ calls[j].number <= told'[<<calls[j].form, calls[j].target>>]
          /\ IsCurrent(j)' => IsCurrent(j)
    BY <1>1 DEF ClientInvariant, AttemptsSound, IsCurrent
  <2> QED BY <1>1, <1>2, <1>5, <2>1, AttemptsStay
<1>7. WaitingSound'
  <2>1. Exclusive => \A d \in displaced' : d.cause # "ANSWER"
    BY <1>1 DEF ClientInvariant, WaitingSound, Lost
  <2>2. NoAttempt.kept = FALSE
    BY DEF NoAttempt
  <2>3. Indexes' = Indexes /\ \A i \in Indexes : Waits(i)' <=> Waits(i)
    BY <1>1 DEF Indexes, Waits
  <2> QED BY <1>1, <1>3, <2>1, <2>2, <2>3 DEF ClientInvariant, WaitingSound
<1> QED BY <1>2, <1>3, <1>4, <1>6, <1>7, EffectsStay DEF ClientInvariant

LEMMA ClientStep ==
  ASSUME ClientInvariant, [ClientNext]_clientVars
  PROVE  ClientInvariant'
<1>1. CASE ClientNext
  BY <1>1, PressStep, ServeStep, HearStep, MissStep, ReloadStep,
     ChangeStudentStep DEF ClientNext
<1>2. CASE UNCHANGED clientVars
  <2>1. UNCHANGED <<openPanel, calls, told, pending, displaced>>
    BY <1>2 DEF clientVars
  <2>2. /\ SameSending /\ SameAnswers /\ calls' \in Seq(CallRows)
        /\ told' \in [FormsOf(openPanel) \X TargetsOf(openPanel) -> Nat]
    BY <2>1 DEF SameSending, SameAnswers, ClientInvariant, ClientTyped, Indexes
  <2>3. ClientTyped' /\ KeysSound' /\ (Exclusive' <=> Exclusive)
    BY <2>1, <2>2, SendingStays
  <2>4. AnswersSound'
    BY <2>1, <2>2, AnswersStay
  <2>5. \A j \in Indexes :
          /\ calls[j].number <= told'[<<calls[j].form, calls[j].target>>]
          /\ IsCurrent(j)' => IsCurrent(j)
    BY <2>1 DEF ClientInvariant, AttemptsSound, IsCurrent
  <2>6. AttemptsSound'
    BY <2>1, <2>2, <2>5, AttemptsStay
  <2>7. Indexes' = Indexes /\ \A i \in Indexes : Waits(i)' <=> Waits(i)
    BY <2>1 DEF Indexes, Waits
  <2>8. WaitingSound'
    BY <2>1, <2>3, <2>7 DEF ClientInvariant, WaitingSound, KeepsKey
  <2> QED BY <2>2, <2>3, <2>4, <2>6, <2>8, EffectsStay DEF ClientInvariant
<1> QED BY <1>1, <1>2

LEMMA ClientStart == ClientInit => ClientInvariant
<1> SUFFICES ASSUME ClientInit
             PROVE  ClientInvariant
  OBVIOUS
<1>1. calls = <<>> /\ pending = NoAttempt /\ displaced = {} /\ Indexes = {}
      /\ told = [at \in FormsOf(openPanel) \X TargetsOf(openPanel) |-> 0]
  BY DEF ClientInit, Indexes
<1>2. NoAttempt.kept = FALSE
  BY DEF NoAttempt
<1>3. ClientTyped
  BY <1>1 DEF ClientTyped
<1> QED BY <1>1, <1>2, <1>3 DEF ClientInvariant, KeysSound, AnswersSound,
        EffectsSound, AttemptsSound, WaitingSound

\* Effects of which any two are one.
LEMMA TakenOnce ==
  ASSUME NEW i \in Indexes,
         \A j, k \in Indexes :
           SameAttempt(i, j) /\ calls[j].effect
             /\ SameAttempt(i, k) /\ calls[k].effect => j = k
  PROVE  Cardinality({j \in Indexes : SameAttempt(i, j) /\ calls[j].effect}) <= 1
<1> DEFINE effects == {j \in Indexes : SameAttempt(i, j) /\ calls[j].effect}
<1>1. \A j, k \in effects : j = k
  OBVIOUS
<1>2. SUFFICES Cardinality(effects) <= 1
  OBVIOUS
<1> HIDE DEF effects
<1>3. CASE effects = {}
  BY <1>3, FS_EmptySet
<1>4. CASE effects # {}
  <2>1. PICK only : only \in effects
    BY <1>4
  <2>2. effects = {only}
    BY <1>1, <2>1, Zenon
  <2>3. Cardinality({only}) = 1
    BY FS_Singleton
  <2> QED BY <2>2, <2>3
<1> QED BY <1>3, <1>4

LEMMA RetriesSafeIn == ClientInvariant => RetriesAreSafe
<1> SUFFICES ASSUME ClientInvariant
             PROVE  RetriesAreSafe
  OBVIOUS
<1>1. ASSUME NEW i \in Indexes, calls[i].form.keys # "FRESH", ~Displaced(i)
      PROVE  /\ Cardinality({j \in Indexes :
                   SameAttempt(i, j) /\ calls[j].effect}) <= 1
             /\ calls[i].client = "REFUSED" => ~TookEffect(i)
  <2>1. \A j, k \in Indexes :
          SameAttempt(i, j) /\ SameAttempt(i, k) =>
            j = k \/ calls[j].key = calls[k].key
    <3>1. CASE KeepsKey(calls[i].form)
      <4>1. KeptSound(i)
        BY <1>1, <3>1 DEF ClientInvariant, AttemptsSound
      <4> QED BY <4>1 DEF KeptSound
    <3>2. CASE ~KeepsKey(calls[i].form)
      <4>1. calls[i].form.keys = "STUCK"
        BY <1>1, <3>2, HeldForms DEF ClientInvariant, KeepsKey
      <4>2. StuckSound(i)
        BY <1>1, <4>1 DEF ClientInvariant, AttemptsSound
      <4> QED BY <4>2 DEF StuckSound
    <3> QED BY <3>1, <3>2
  <2>2. SameAttempt(i, i)
    BY DEF SameAttempt
  <2>3. \A j, k \in Indexes :
          SameAttempt(i, j) /\ calls[j].effect
            /\ SameAttempt(i, k) /\ calls[k].effect => j = k
    <3> SUFFICES ASSUME NEW j \in Indexes, NEW k \in Indexes,
                        SameAttempt(i, j), calls[j].effect,
                        SameAttempt(i, k), calls[k].effect
                 PROVE  j = k
      OBVIOUS
    <3>1. j = k \/ calls[j].key = calls[k].key
      BY <2>1
    <3> QED BY <3>1 DEF ClientInvariant, AnswersSound
  <2>4. Cardinality({j \in Indexes : SameAttempt(i, j) /\ calls[j].effect}) <= 1
    BY <2>3, TakenOnce
  <2>5. ASSUME calls[i].client = "REFUSED", TookEffect(i)
        PROVE  FALSE
    <3>1. PICK j \in Indexes : SameAttempt(i, j) /\ calls[j].effect
      BY <2>5 DEF TookEffect
    <3>2. calls[i].server = "REFUSED" /\ calls[j].server = "ACCEPTED"
      BY <2>5, <3>1 DEF ClientInvariant, AnswersSound
    <3> QED BY <2>1, <2>2, <3>1, <3>2 DEF ClientInvariant, AnswersSound, Decided
  <2> QED BY <2>4, <2>5
<1>2. Exclusive => \A d \in displaced : d.cause # "ANSWER"
  BY DEF ClientInvariant, WaitingSound
<1>3. ASSUME NEW i \in Indexes, "REPEATED" \notin calls[i].form.again
      PROVE  Cardinality({j \in Indexes :
               SameAttempt(i, j) /\ calls[j].effect}) <= 1
  <2>1. \A j, k \in Indexes :
          SameAttempt(i, j) /\ calls[j].effect
            /\ SameAttempt(i, k) /\ calls[k].effect => j = k
    <3> SUFFICES ASSUME NEW j \in Indexes, NEW k \in Indexes,
                        SameAttempt(i, j), calls[j].effect,
                        SameAttempt(i, k), calls[k].effect
                 PROVE  j = k
      OBVIOUS
    <3>1. SameAttempt(j, k) /\ calls[j].form = calls[i].form
      BY DEF SameAttempt
    <3>2. j = k \/ "REPEATED" \in calls[j].form.again
      BY <3>1 DEF ClientInvariant, EffectsSound
    <3> QED BY <1>3, <3>1, <3>2
  <2> QED BY <2>1, TakenOnce
<1> QED BY <1>1, <1>2, <1>3 DEF RetriesAreSafe

(* Of a form that keeps its key, or is stuck, and of an attempt whose key   *)
(* the panel has not lost, however often it is pressed and whatever is lost *)
(* or late: it takes effect once, and nobody is told it was refused when it *)
(* was not (pendingAttempt, student-discovery.tsx and its like).  A page    *)
(* loaded again loses the keys; then, as with a key for every press, only   *)
(* what the API does not repeat is done once.                               *)
THEOREM RetriesStaySafe == ClientSpec => []RetriesAreSafe
<1>1. ClientInit => ClientInvariant
  BY ClientStart
<1>2. ClientInvariant /\ [ClientNext]_clientVars => ClientInvariant'
  BY ClientStep
<1>3. ClientInvariant => RetriesAreSafe
  BY RetriesSafeIn
<1> QED BY <1>1, <1>2, <1>3, PTL DEF ClientSpec

=============================================================================
