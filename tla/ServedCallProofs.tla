-------------------------- MODULE ServedCallProofs --------------------------
(***************************************************************************)
(* Theorems about ServedCall, for any number of requests, attempts,        *)
(* crashes and I/O errors and any budget.                                  *)
(***************************************************************************)
EXTENDS ServedCall, TLAPS

\* Billing one more request keeps what was forwarded and adds that request:
\* the ledger of Deployment::admit is only appended to.
LEMMA ForwardedAppend ==
    ASSUME NEW s \in Seq(Requests), NEW q \in Requests, NEW r
    PROVE  Forwarded(r, Append(s, q)) <=> (Forwarded(r, s) \/ r = q)
<1> DEFINE t == Append(s, q)
<1>1. /\ DOMAIN t = 1 .. Len(s) + 1 /\ DOMAIN s = 1 .. Len(s) /\ Len(s) \in Nat
      /\ t[Len(s) + 1] = q
      /\ \A i \in 1 .. Len(s) : t[i] = s[i]
  OBVIOUS
<1>2. ASSUME Forwarded(r, t) PROVE Forwarded(r, s) \/ r = q
  <2>1. PICK i \in 1 .. Len(s) + 1 : t[i] = r BY ZenonT(30), <1>1, <1>2 DEF Forwarded
  <2>2. CASE i \in 1 .. Len(s) BY ZenonT(30), <1>1, <2>1, <2>2 DEF Forwarded
  <2>3. CASE i = Len(s) + 1 BY ZenonT(30), <1>1, <2>1, <2>3
  <2> QED BY <1>1, <2>1, <2>2, <2>3
<1>3. ASSUME Forwarded(r, s) PROVE Forwarded(r, t)
  <2>1. PICK i \in 1 .. Len(s) : s[i] = r BY ZenonT(30), <1>1, <1>3 DEF Forwarded
  <2>2. i \in DOMAIN t /\ t[i] = r BY <1>1, <2>1
  <2> HIDE DEF t
  <2> QED BY ZenonT(30), <2>2 DEF Forwarded
<1>4. ASSUME r = q PROVE Forwarded(r, t)
  <2>2. Len(s) + 1 \in DOMAIN t /\ t[Len(s) + 1] = r BY <1>1, <1>4
  <2> HIDE DEF t
  <2> QED BY ZenonT(30), <2>2 DEF Forwarded
<1> QED BY ZenonT(30), <1>2, <1>3, <1>4

\* Rolling back an appended charge gives the ledger before it.
LEMMA RollbackAppend ==
    ASSUME NEW s \in Seq(Requests), NEW q \in Requests
    PROVE  SubSeq(Append(s, q), 1, Len(Append(s, q)) - 1) = s
OBVIOUS

-----------------------------------------------------------------------------
(* Type correctness *)

\* The empty stores of a new deployment are well typed.
LEMMA TypeInit == Init => TypeOK
<1> SUFFICES ASSUME Init PROVE TypeOK OBVIOUS
<1> USE ConstantsAssumption DEF Init
<1>1. core \subseteq Requests \X Attempts OBVIOUS
<1>2. exec \in [Attempts -> Dispositions] BY ZenonT(30) DEF Dispositions
<1>3. marker \in [req : MaybeRequest, att : Attempts \cup {0}, state : States]
  BY ZenonT(30) DEF NoMarker, MaybeRequest, States
<1>4. billed \in Seq(Requests) /\ charged \in Seq(Requests) OBVIOUS
<1>5. receipt \in MaybeRequest /\ pending \in MaybeRequest /\ cur \in MaybeRequest
  BY ZenonT(30) DEF MaybeRequest
<1>6. reply \in [Attempts -> [req : MaybeRequest, answer : Results]]
  BY ZenonT(30) DEF NoReply, MaybeRequest, Results
<1>7. /\ resolved \subseteq Requests /\ pc \in Points /\ att \in Attempts \cup {0}
      /\ result \in Results /\ handle \in {"open", "poisoned"}
      /\ crashes \in 0 .. MaxCrashes /\ faults \in 0 .. MaxFaults
  BY DEF Points, Results
<1> QED BY ZenonT(30), <1>1, <1>2, <1>3, <1>4, <1>5, <1>6, <1>7 DEF TypeOK

\* An append to the execution journal gives an attempt another disposition.
LEMMA ExecUpdate ==
    ASSUME TypeOK, NEW a, NEW d \in Dispositions
    PROVE  [exec EXCEPT ![a] = d] \in [Attempts -> Dispositions]
BY ZenonT(30) DEF TypeOK

\* Taking a call and deciding on it keeps the types.
LEMMA TypeServe ==
    ASSUME TypeOK, NEW r \in Requests, Serve(r)
    PROVE  TypeOK'
<1> USE ConstantsAssumption DEF TypeOK, Arrive, Admissible, Faulty, Attempts, MaybeRequest,
        Points, Results, durable, memory, call, bounds
<1>1. CASE CorrelationFails(r) BY <1>1 DEF CorrelationFails
<1>2. CASE ProjectionBlocks(r) BY <1>2 DEF ProjectionBlocks
<1>3. CASE RetryProjection(r) BY <1>3 DEF RetryProjection
<1>4. CASE Replay(r) BY <1>4 DEF Replay
<1>5. CASE Refuse(r) BY <1>5 DEF Refuse
<1>6. CASE Admit(r) BY <1>6 DEF Admit
<1> QED BY ZenonT(30), <1>1, <1>2, <1>3, <1>4, <1>5, <1>6 DEF Serve

\* Running the tool, or failing to, keeps the types.
LEMMA TypeDispatch ==
    ASSUME TypeOK, CallInv, LedgerInv, Dispatch \/ DispatchFault
    PROVE  TypeOK'
<1> USE ConstantsAssumption DEF TypeOK, CallInv, Calling, Goto, Faulty, Append1, Append1Fails,
        OnError, Mark, MaybeRequest, Points, Results, States, durable, memory, call, bounds
<1>0. {"requested", "started"} \cup Results \subseteq Dispositions BY ZenonT(30) DEF Dispositions
<1>1. CASE ToolRequested BY ZenonT(30), <1>0, <1>1, ExecUpdate DEF ToolRequested
<1>2. CASE ToolStarted BY ZenonT(30), <1>0, <1>2, ExecUpdate DEF ToolStarted
<1>3. CASE MarkStarted BY ZenonT(30), <1>3 DEF MarkStarted
<1>4. CASE CoreSucceeds BY <1>4 DEF CoreSucceeds
<1>5. CASE CoreFails BY <1>5 DEF CoreFails
<1>6. CASE MarkSucceeded BY ZenonT(30), <1>6 DEF MarkSucceeded
<1>7. CASE MarkFailed BY ZenonT(30), <1>7 DEF MarkFailed
<1>8. CASE ToolFinished BY <1>0, <1>8, ExecUpdate DEF ToolFinished
<1>9. CASE ToolRequestedFails
  <2>1. exec' \in [Attempts -> Dispositions] BY ZenonT(30), <1>0, <1>9, ExecUpdate DEF ToolRequestedFails
  <2> QED BY <1>9, <2>1 DEF ToolRequestedFails
<1>10. CASE ToolStartedFails
  <2>1. exec' \in [Attempts -> Dispositions] BY ZenonT(30), <1>0, <1>10, ExecUpdate DEF ToolStartedFails
  <2> QED BY <1>10, <2>1 DEF ToolStartedFails
<1>11. CASE MarkStartedFails BY <1>11 DEF MarkStartedFails
<1>12. CASE CheckpointSplits BY <1>12 DEF CheckpointSplits
<1>13. CASE MarkSucceededFails BY <1>13 DEF MarkSucceededFails
<1>14. CASE MarkFailedFails BY <1>14 DEF MarkFailedFails
<1>15. CASE ToolFinishedFails
  <2>1. exec' \in [Attempts -> Dispositions] BY ZenonT(30), <1>0, <1>15, ExecUpdate DEF ToolFinishedFails
  <2> QED BY <1>15, <2>1 DEF ToolFinishedFails
<1>16. CASE DirectFailed
  <2>1. charged = Append(billed, cur) /\ cur \in Requests
    BY ZenonT(30), <1>16 DEF DirectFailed, LedgerInv, Reserved
  <2>2. charged' = billed BY ZenonT(30), <1>16, <2>1, RollbackAppend DEF DirectFailed
  <2>3. exec' \in [Attempts -> Dispositions] BY ZenonT(30), <1>0, <1>16, ExecUpdate DEF DirectFailed
  <2> QED BY SMTT(30), <1>16, <2>2, <2>3 DEF DirectFailed
<1>17. CASE PublicationUncertain BY <1>17 DEF PublicationUncertain
<1> QED BY ZenonT(30), <1>1, <1>2, <1>3, <1>4, <1>5, <1>6, <1>7, <1>8, <1>9, <1>10, <1>11, <1>12,
          <1>13, <1>14, <1>15, <1>16, <1>17 DEF Dispatch, DispatchFault

\* Rolling back, persisting, projecting and answering keep the types.
LEMMA TypeAfter ==
    ASSUME TypeOK, CallInv, LedgerInv, AfterError \/ AfterCall
    PROVE  TypeOK'
<1> USE ConstantsAssumption DEF TypeOK, CallInv, Calling, Goto, Faulty, Answer, Settled,
        MaybeRequest, Points, Results, States, durable, memory, call, bounds
<1>1. CASE VerdictPoisons BY <1>1 DEF VerdictPoisons
<1>2. CASE Rollback
  <2>1. charged = Append(billed, cur) /\ cur \in Requests
    BY ZenonT(30), <1>2 DEF Rollback, LedgerInv, Reserved
  <2>2. charged' = billed BY ZenonT(30), <1>2, <2>1, RollbackAppend DEF Rollback
  <2> QED BY SMTT(30), <1>2, <2>2 DEF Rollback
<1>3. CASE ReconcileFailed
  <2>1. exec' \in [Attempts -> Dispositions]
    BY ZenonT(30), <1>3, ExecUpdate DEF ReconcileFailed, Reconcile, Outcome1, Dispositions
  <2> QED BY <1>3, <2>1 DEF ReconcileFailed
<1>4. CASE ReconcileFailedFails BY <1>4 DEF ReconcileFailedFails
<1>5. CASE SettleFailed BY ZenonT(30), <1>5 DEF SettleFailed
<1>6. CASE SettleFailedFails
  <2>1. marker' \in [req : MaybeRequest, att : Attempts \cup {0}, state : States]
    BY ZenonT(30), <1>6 DEF SettleFailedFails
  <2> QED BY <1>6, <2>1 DEF SettleFailedFails
<1>7. CASE PersistDeployment BY <1>7 DEF PersistDeployment
<1>8. CASE PersistDeploymentFails BY <1>8 DEF PersistDeploymentFails
<1>9. CASE PrepareProjection BY <1>9 DEF PrepareProjection
<1>10. CASE PrepareProjectionFails BY <1>10 DEF PrepareProjectionFails
<1>11. CASE Project BY <1>11 DEF Project
<1>12. CASE ProjectFails BY <1>12 DEF ProjectFails
<1>13. CASE ClearProjection BY SMTT(30), <1>13 DEF ClearProjection
<1>14. CASE ClearProjectionFails BY <1>14 DEF ClearProjectionFails
<1>15. CASE Settle BY ZenonT(30), <1>15 DEF Settle
<1>16. CASE SettleFails BY SMTT(30), <1>16 DEF SettleFails
<1> QED BY ZenonT(30), <1>1, <1>2, <1>3, <1>4, <1>5, <1>6, <1>7, <1>8, <1>9, <1>10, <1>11, <1>12,
          <1>13, <1>14, <1>15, <1>16 DEF AfterError, AfterCall

\* A start and a crash keep the types.
LEMMA TypeRecover ==
    ASSUME TypeOK, WitnessInv, Recover \/ Crash
    PROVE  TypeOK'
<1> USE ConstantsAssumption DEF TypeOK, Goto, Settled, MaybeRequest, Points, Results, States,
        durable, memory, call, bounds
<1>1. CASE Boot BY <1>1 DEF Boot
<1>2. CASE BootReconcile
  <2>1. exec' \in [Attempts -> Dispositions]
    BY ZenonT(30), <1>2, ExecUpdate DEF BootReconcile, Reconcile, Outcome1, Dispositions
  <2> QED BY <1>2, <2>1 DEF BootReconcile
<1>3. CASE BootSettle
  <2>1. marker.req \in Requests BY ZenonT(30), <1>3 DEF BootSettle, WitnessInv
  <2>2. billed' \in Seq(Requests) /\ charged' \in Seq(Requests)
    <3>1. CASE Forwarded(marker.req, charged) BY ZenonT(30), <1>3, <3>1 DEF BootSettle
    <3>2. CASE ~Forwarded(marker.req, charged)
      <4>1. Append(charged, marker.req) \in Seq(Requests) BY <2>1
      <4>2. charged' \in {charged, Append(charged, marker.req)} /\ billed' = charged'
        BY ZenonT(30), <1>3, <3>2 DEF BootSettle
      <4> QED BY ZenonT(30), <4>1, <4>2
    <3> QED BY ZenonT(30), <3>1, <3>2
  <2>3. pc' \in Points BY ZenonT(30), <1>3 DEF BootSettle
  <2> QED BY <1>3, <2>2, <2>3 DEF BootSettle
<1>4. CASE BootPrepare BY <1>4 DEF BootPrepare
<1>5. CASE BootMark BY ZenonT(30), <1>5 DEF BootMark
<1>6. CASE BootCheck BY <1>6 DEF BootCheck
<1>7. CASE Crash BY <1>7 DEF Crash
<1> QED BY ZenonT(30), <1>1, <1>2, <1>3, <1>4, <1>5, <1>6, <1>7 DEF Recover

-----------------------------------------------------------------------------
(* The call in flight *)

\* No step answers an attempt twice or hands out an attempt in use.
LEMMA CallStep ==
    ASSUME TypeOK, CallInv, [Next]_vars
    PROVE  CallInv'
<1> USE ConstantsAssumption DEF TypeOK, CallInv, Calling, Goto, Faulty, Answer, Attempts,
        durable, memory, call, bounds
<1>1. ASSUME NEW r \in Requests, Serve(r) PROVE CallInv'
  BY SMTT(30), <1>1 DEF Serve, Arrive, Admissible, CorrelationFails, ProjectionBlocks, RetryProjection,
     Replay, Refuse, Admit
<1>2. CASE Dispatch
  BY ZenonT(30), <1>2 DEF Dispatch, Append1, ToolRequested, ToolStarted, MarkStarted, CoreSucceeds,
     CoreFails, MarkSucceeded, MarkFailed, ToolFinished, DirectFailed
<1>3. CASE DispatchFault
  BY ZenonT(30), <1>3 DEF DispatchFault, Append1Fails, OnError, ToolRequestedFails, ToolStartedFails,
     MarkStartedFails, CheckpointSplits, PublicationUncertain, MarkSucceededFails, MarkFailedFails,
     ToolFinishedFails
<1>4. CASE AfterError
  <2>1. CASE VerdictPoisons \/ ReconcileFailed \/ ReconcileFailedFails \/ SettleFailedFails
    BY ZenonT(30), <2>1 DEF VerdictPoisons, ReconcileFailed, ReconcileFailedFails, SettleFailedFails
  <2>2. CASE Rollback
    <3>1. att \in Attempts /\ att' = att /\ cur' = cur /\ Calling BY ZenonT(30), <2>2 DEF Rollback
    <3>2. CASE pc' = "idle" /\ Answer("failed") BY <3>1, <3>2
    <3>3. CASE pc' = "reconcile" /\ reply' = reply BY ZenonT(30), <3>1, <3>3
    <3> QED BY ZenonT(30), <2>2, <3>2, <3>3 DEF Rollback
  <2>3. CASE SettleFailed BY <2>3 DEF SettleFailed
  <2> QED BY ZenonT(30), <1>4, <2>1, <2>2, <2>3 DEF AfterError
<1>5. CASE AfterCall
  <2>1. CASE PersistDeployment \/ PersistDeploymentFails \/ PrepareProjection
             \/ PrepareProjectionFails
    BY <2>1 DEF PersistDeployment, PersistDeploymentFails, PrepareProjection,
       PrepareProjectionFails
  <2>2. CASE Project \/ ProjectFails \/ ClearProjection \/ ClearProjectionFails
    BY <2>2 DEF Project, ProjectFails, ClearProjection, ClearProjectionFails
  <2>3. CASE Settle \/ SettleFails
    BY SMTT(30), <2>3 DEF Settle, SettleFails
  <2> QED BY ZenonT(30), <1>5, <2>1, <2>2, <2>3 DEF AfterCall
<1>6. CASE Recover
  BY ZenonT(30), <1>6 DEF Recover, Boot, BootReconcile, BootSettle, BootPrepare, BootMark, BootCheck
<1>7. CASE Crash BY ZenonT(30), <1>7 DEF Crash
<1>8. CASE UNCHANGED vars BY ZenonT(30), <1>8 DEF vars
<1> QED BY ZenonT(30), <1>1, <1>2, <1>3, <1>4, <1>5, <1>6, <1>7, <1>8 DEF Next

-----------------------------------------------------------------------------
(* The ledger in memory and the ledger on disk *)

\* Billing a request that is not billed yet keeps the ledger free of repeats.
LEMMA DistinctAppend ==
    ASSUME NEW s \in Seq(Requests), NEW q \in Requests, ~Forwarded(q, s),
           \A i, j \in DOMAIN s : s[i] = s[j] => i = j
    PROVE  \A i, j \in DOMAIN Append(s, q) :
               Append(s, q)[i] = Append(s, q)[j] => i = j
<1> DEFINE t == Append(s, q)
<1>1. /\ DOMAIN t = 1 .. Len(s) + 1 /\ DOMAIN s = 1 .. Len(s) /\ Len(s) \in Nat
      /\ t[Len(s) + 1] = q
      /\ \A i \in 1 .. Len(s) : t[i] = s[i]
  OBVIOUS
<1>2. \A i \in 1 .. Len(s) : t[i] # q BY ZenonT(30), <1>1 DEF Forwarded
<1> HIDE DEF t
<1> SUFFICES ASSUME NEW i \in DOMAIN t, NEW j \in DOMAIN t, t[i] = t[j]
             PROVE  i = j
  BY ZenonT(30) DEF t
<1>3. CASE i = Len(s) + 1 BY <1>1, <1>2, <1>3
<1>4. CASE j = Len(s) + 1 BY <1>1, <1>2, <1>4
<1>5. CASE i \in 1 .. Len(s) /\ j \in 1 .. Len(s) BY ZenonT(30), <1>1, <1>5
<1> QED BY <1>1, <1>3, <1>4, <1>5

\* No step lets memory drift from the ledger on disk by more than the charge
\* in flight, or puts a request into it twice.
LEMMA LedgerStep ==
    ASSUME TypeOK, CallInv, LedgerInv, WitnessInv, [Next]_vars
    PROVE  LedgerInv'
<1> USE ConstantsAssumption DEF TypeOK, LedgerInv, Reserved, Level, Goto, Faulty,
        durable, memory, call, bounds
<1>1. ASSUME NEW r \in Requests, Serve(r) PROVE LedgerInv'
  BY ZenonT(30), <1>1 DEF Serve, Arrive, Admissible, CorrelationFails, ProjectionBlocks, RetryProjection,
     Replay, Refuse, Admit
<1>2. CASE Dispatch
  <2>1. CASE DirectFailed
    <3>1. charged = Append(billed, cur) /\ cur \in Requests
      BY ZenonT(30), <2>1 DEF DirectFailed, Append1, CallInv, Calling
    <3>2. charged' = billed BY ZenonT(30), <2>1, <3>1, RollbackAppend DEF DirectFailed
    <3> QED BY ZenonT(30), <2>1, <3>2 DEF DirectFailed, Append1
  <2> QED BY ZenonT(30), <1>2, <2>1 DEF Dispatch, Append1, ToolRequested, ToolStarted, MarkStarted,
          CoreSucceeds, CoreFails, MarkSucceeded, MarkFailed, ToolFinished
<1>3. CASE DispatchFault
  BY ZenonT(30), <1>3 DEF DispatchFault, Append1Fails, OnError, ToolRequestedFails, ToolStartedFails,
     MarkStartedFails, CheckpointSplits, PublicationUncertain, MarkSucceededFails, MarkFailedFails,
     ToolFinishedFails
<1>4. CASE AfterError
  <2>1. CASE VerdictPoisons \/ ReconcileFailed \/ ReconcileFailedFails \/ SettleFailedFails
             \/ SettleFailed
    BY ZenonT(30), <2>1 DEF VerdictPoisons, ReconcileFailed, ReconcileFailedFails, SettleFailedFails,
       SettleFailed
  <2>2. CASE Rollback
    <3>1. charged = Append(billed, cur) /\ cur \in Requests
      BY ZenonT(30), <2>2 DEF Rollback, CallInv, Calling
    <3>2. charged' = billed BY ZenonT(30), <2>2, <3>1, RollbackAppend DEF Rollback
    <3> QED BY ZenonT(30), <2>2, <3>2 DEF Rollback
  <2> QED BY ZenonT(30), <1>4, <2>1, <2>2 DEF AfterError
<1>5. CASE AfterCall
  <2>1. ASSUME pc = "persist", billed' \in {billed, charged}
        PROVE  /\ \A i, j \in DOMAIN billed' : billed'[i] = billed'[j] => i = j
               /\ Len(billed') <= Limit
    <3>1. CASE billed' = billed BY ZenonT(30), <3>1
    <3>2. CASE result # "ok" BY ZenonT(30), <2>1, <3>2
    <3>3. CASE result = "ok" /\ billed' = charged
      <4>1. charged = Append(billed, cur) /\ ~Forwarded(cur, billed) /\ Len(billed) < Limit
        BY ZenonT(30), <2>1, <3>3
      <4>2. cur \in Requests BY ZenonT(30), <2>1 DEF CallInv, Calling
      <4>3. \A i, j \in DOMAIN charged : charged[i] = charged[j] => i = j
        BY ZenonT(30), <4>1, <4>2, DistinctAppend
      <4>4. Len(charged) = Len(billed) + 1 BY <4>1, <4>2
      <4> QED BY <3>3, <4>1, <4>3, <4>4
    <3> QED BY ZenonT(30), <2>1, <3>1, <3>2, <3>3
  <2>2. CASE PersistDeployment BY ZenonT(30), <2>1, <2>2 DEF PersistDeployment
  <2>3. CASE PersistDeploymentFails BY ZenonT(30), <2>1, <2>3 DEF PersistDeploymentFails
  <2>4. CASE PrepareProjection \/ PrepareProjectionFails \/ Project \/ ProjectFails
    BY ZenonT(30), <2>4 DEF PrepareProjection, PrepareProjectionFails, Project, ProjectFails
  <2>5. CASE ClearProjection \/ ClearProjectionFails \/ Settle \/ SettleFails
    BY ZenonT(30), <2>5 DEF ClearProjection, ClearProjectionFails, Settle, SettleFails
  <2> QED BY ZenonT(30), <1>5, <2>2, <2>3, <2>4, <2>5 DEF AfterCall
<1>6. CASE Recover
  <2>1. CASE Boot BY ZenonT(30), <2>1 DEF Boot
  <2>2. CASE BootSettle
    <3>1. marker.req \in Requests /\ charged = billed BY ZenonT(30), <2>2 DEF BootSettle, WitnessInv
    <3>2. CASE Forwarded(marker.req, charged) \/ Len(charged) >= Limit
      BY <2>2, <3>1, <3>2 DEF BootSettle
    <3>3. CASE ~Forwarded(marker.req, charged) /\ Len(charged) < Limit
      <4>1. charged' = Append(billed, marker.req) /\ billed' = charged'
        BY ZenonT(30), <2>2, <3>1, <3>3 DEF BootSettle
      <4>2. \A i, j \in DOMAIN billed' : billed'[i] = billed'[j] => i = j
        BY <3>1, <3>3, <4>1, DistinctAppend
      <4>3. Len(billed') <= Limit BY <3>1, <3>3, <4>1
      <4>4. pc' \in {"boot_prepare", "boot_mark"} BY SMTT(30), <2>2, <3>3 DEF BootSettle
      <4> QED BY ZenonT(30), <4>1, <4>2, <4>3, <4>4
    <3> QED BY SMTT(30), <3>1, <3>2, <3>3
  <2>3. CASE BootReconcile \/ BootPrepare \/ BootMark \/ BootCheck
    BY ZenonT(30), <2>3 DEF BootReconcile, BootPrepare, BootMark, BootCheck
  <2> QED BY ZenonT(30), <1>6, <2>1, <2>2, <2>3 DEF Recover
<1>7. CASE Crash BY ZenonT(30), <1>7 DEF Crash
<1>8. CASE UNCHANGED vars BY ZenonT(30), <1>8 DEF vars
<1> QED BY ZenonT(30), <1>1, <1>2, <1>3, <1>4, <1>5, <1>6, <1>7, <1>8 DEF Next

-----------------------------------------------------------------------------
(* What the marker, the receipt and the results stand for *)

\* What is forwarded stays forwarded in every step: the ledger on disk is kept
\* or extended by one request.
LEMMA BilledGrows ==
    ASSUME TypeOK, CallInv, LedgerInv, WitnessInv, [Next]_vars
    PROVE  \/ billed' = billed
           \/ /\ pc = "persist" /\ result = "ok" /\ billed' = Append(billed, cur)
              /\ cur \in Requests
           \/ /\ pc = "boot_settle" /\ billed' = Append(billed, marker.req)
              /\ marker.req \in Requests
<1> USE DEF Goto, LedgerInv, Reserved, Level, durable, memory, call, bounds
<1>1. ASSUME NEW r \in Requests, Serve(r) PROVE billed' = billed
  BY ZenonT(30), <1>1
     DEF Serve, CorrelationFails, ProjectionBlocks, RetryProjection, Replay, Refuse, Admit
<1>2. CASE Dispatch
  BY ZenonT(30), <1>2 DEF Dispatch, ToolRequested, ToolStarted, MarkStarted, CoreSucceeds,
     CoreFails, MarkSucceeded, MarkFailed, ToolFinished, DirectFailed
<1>3. CASE DispatchFault
  BY ZenonT(30), <1>3 DEF DispatchFault, ToolRequestedFails, ToolStartedFails, MarkStartedFails,
     CheckpointSplits, PublicationUncertain, MarkSucceededFails, MarkFailedFails, ToolFinishedFails
<1>4. CASE AfterError
  BY ZenonT(30), <1>4 DEF AfterError, VerdictPoisons, Rollback, ReconcileFailed, ReconcileFailedFails,
     SettleFailed, SettleFailedFails
<1>5. CASE PersistDeployment \/ PersistDeploymentFails
  <2>1. pc = "persist" /\ billed' \in {billed, charged}
    BY ZenonT(30), <1>5 DEF PersistDeployment, PersistDeploymentFails
  <2> QED BY ZenonT(30), <2>1 DEF CallInv, Calling
<1>6. CASE AfterCall
  BY ZenonT(30), <1>5, <1>6 DEF AfterCall, PrepareProjection, PrepareProjectionFails, Project,
     ProjectFails, ClearProjection, ClearProjectionFails, Settle, SettleFails
<1>7. CASE Recover
  <2>1. CASE BootSettle BY ZenonT(30), <2>1 DEF BootSettle, WitnessInv
  <2> QED BY ZenonT(30), <1>7, <2>1 DEF Recover, Boot, BootReconcile, BootPrepare, BootMark, BootCheck
<1>8. CASE Crash BY ZenonT(30), <1>8 DEF Crash
<1>9. CASE UNCHANGED vars BY ZenonT(30), <1>9 DEF vars
<1> QED BY ZenonT(30), <1>1, <1>2, <1>3, <1>4, <1>6, <1>7, <1>8, <1>9 DEF Next

\* A billed request stays billed.
COROLLARY ForwardedStays ==
    ASSUME TypeOK, CallInv, LedgerInv, WitnessInv, [Next]_vars, NEW r, Forwarded(r, billed)
    PROVE  Forwarded(r, billed')
<1>1. billed \in Seq(Requests) BY ZenonT(30) DEF TypeOK
<1>2. CASE billed' = billed BY ZenonT(30), <1>2
<1>3. ASSUME NEW q \in Requests, billed' = Append(billed, q) PROVE Forwarded(r, billed')
  BY ZenonT(30), <1>1, <1>3, ForwardedAppend
<1> QED BY ZenonT(30), <1>2, <1>3, BilledGrows

\* Effects are never taken back.
LEMMA CoreGrows ==
    ASSUME [Next]_vars
    PROVE  \/ core' = core
           \/ pc = "core" /\ core' = core \cup {<<cur, att>>}
<1> USE DEF Goto, durable, memory, call, bounds
<1>1. ASSUME NEW r \in Requests, Serve(r) PROVE core' = core
  BY ZenonT(30), <1>1
     DEF Serve, CorrelationFails, ProjectionBlocks, RetryProjection, Replay, Refuse, Admit
<1>2. CASE Dispatch
  BY ZenonT(30), <1>2 DEF Dispatch, ToolRequested, ToolStarted, MarkStarted, CoreSucceeds,
     CoreFails, MarkSucceeded, MarkFailed, ToolFinished, DirectFailed
<1>3. CASE DispatchFault
  BY ZenonT(30), <1>3 DEF DispatchFault, ToolRequestedFails, ToolStartedFails, MarkStartedFails,
     CheckpointSplits, PublicationUncertain, MarkSucceededFails, MarkFailedFails, ToolFinishedFails
<1>4. CASE AfterError
  BY ZenonT(30), <1>4 DEF AfterError, VerdictPoisons, Rollback, ReconcileFailed, ReconcileFailedFails,
     SettleFailed, SettleFailedFails
<1>5. CASE AfterCall
  BY ZenonT(30), <1>5 DEF AfterCall, PersistDeployment, PersistDeploymentFails, PrepareProjection,
     PrepareProjectionFails, Project, ProjectFails, ClearProjection, ClearProjectionFails,
     Settle, SettleFails
<1>6. CASE Recover
  BY ZenonT(30), <1>6 DEF Recover, Boot, BootReconcile, BootSettle, BootPrepare, BootMark, BootCheck
<1>7. CASE Crash BY ZenonT(30), <1>7 DEF Crash
<1>8. CASE UNCHANGED vars BY ZenonT(30), <1>8 DEF vars
<1> QED BY ZenonT(30), <1>1, <1>2, <1>3, <1>4, <1>5, <1>6, <1>7, <1>8 DEF Next

\* No step leaves a marker, receipt or ledger entry that stands for nothing.
LEMMA WitnessStep ==
    ASSUME TypeOK, CallInv, LedgerInv, WitnessInv, [Next]_vars
    PROVE  WitnessInv'
<1>1. \A r : Forwarded(r, billed) => Forwarded(r, billed') BY ZenonT(30), ForwardedStays
<1>2. core \subseteq core' BY ZenonT(30), CoreGrows
<1>3. billed \in Seq(Requests) BY ZenonT(30) DEF TypeOK
<1>4. \A r \in Requests : Forwarded(r, billed') => \E a \in Attempts : <<r, a>> \in core'
  <2> SUFFICES ASSUME NEW r \in Requests, Forwarded(r, billed')
               PROVE  \E a \in Attempts : <<r, a>> \in core'
    OBVIOUS
  <2>1. CASE Forwarded(r, billed) BY ZenonT(30), <1>2, <2>1 DEF WitnessInv
  <2>2. CASE ~Forwarded(r, billed)
    <3>1. CASE pc = "persist" /\ result = "ok" /\ billed' = Append(billed, cur) /\ cur \in Requests
      <4>1. r = cur BY ZenonT(30), <1>3, <2>2, <3>1, ForwardedAppend
      <4> QED BY ZenonT(30), <1>2, <3>1, <4>1 DEF WitnessInv, CallInv, Calling
    <3>2. CASE pc = "boot_settle" /\ billed' = Append(billed, marker.req) /\ marker.req \in Requests
      <4>1. r = marker.req BY ZenonT(30), <1>3, <2>2, <3>2, ForwardedAppend
      <4> QED BY ZenonT(30), <1>2, <3>2, <4>1 DEF WitnessInv
    <3> QED BY ZenonT(30), <2>2, <3>1, <3>2, BilledGrows
  <2> QED BY ZenonT(30), <2>1, <2>2
<1> USE ConstantsAssumption, <1>1, <1>2, <1>4
    DEF TypeOK, WitnessInv, Goto, Faulty, durable, memory, call, bounds
<1>5. ASSUME NEW r \in Requests, Serve(r) PROVE WitnessInv'
  BY ZenonT(30), <1>5 DEF Serve, Arrive, Admissible, CorrelationFails, ProjectionBlocks, RetryProjection,
     Replay, Refuse, Admit, LedgerInv, Level
<1>6. CASE Dispatch
  <2>1. CASE ToolRequested \/ ToolStarted \/ CoreFails
    BY ZenonT(30), <2>1 DEF ToolRequested, ToolStarted, CoreFails, Append1
  <2>2. CASE MarkStarted \/ MarkFailed
    <3>1. marker'.state \in {"started", "failed"} BY SMTT(30), <2>2 DEF MarkStarted, MarkFailed, Mark
    <3> QED BY ZenonT(30), <2>2, <3>1 DEF MarkStarted, MarkFailed
  <2>3. CASE MarkSucceeded BY ZenonT(30), <2>3 DEF MarkSucceeded, Mark, CallInv, Calling
  <2>4. CASE CoreSucceeds BY ZenonT(30), <2>4 DEF CoreSucceeds
  <2>5. CASE ToolFinished \/ DirectFailed
    BY ZenonT(30), <2>5 DEF ToolFinished, DirectFailed, Append1
  <2> QED BY ZenonT(30), <1>6, <2>1, <2>2, <2>3, <2>4, <2>5 DEF Dispatch
<1>7. CASE DispatchFault
  <2>0. \A next : OnError(next) \in {"poisoned", next} BY ZenonT(30) DEF OnError
  <2>1. CASE ToolRequestedFails \/ ToolStartedFails \/ ToolFinishedFails
    BY ZenonT(30), <2>0, <2>1 DEF ToolRequestedFails, ToolStartedFails, ToolFinishedFails, Append1Fails
  <2>2. CASE MarkStartedFails \/ MarkFailedFails
    <3>1. marker' = marker \/ marker'.state \in {"started", "failed"}
      BY <2>2 DEF MarkStartedFails, MarkFailedFails, Mark
    <3> QED BY ZenonT(30), <2>0, <2>2, <3>1 DEF MarkStartedFails, MarkFailedFails
  <2>3. CASE MarkSucceededFails
    <3>1. marker' = marker \/ (marker'.req = cur /\ marker'.att = att)
      BY SMTT(30), <2>3 DEF MarkSucceededFails, Mark
    <3>2. cur \in Requests /\ att \in Attempts /\ <<cur, att>> \in core
      BY ZenonT(30), <2>3 DEF MarkSucceededFails, CallInv, Calling
    <3> QED BY ZenonT(30), <2>0, <2>3, <3>1, <3>2 DEF MarkSucceededFails
  <2>4. CASE CheckpointSplits \/ PublicationUncertain
    BY ZenonT(30), <2>4 DEF CheckpointSplits, PublicationUncertain
  <2> QED BY ZenonT(30), <1>7, <2>1, <2>2, <2>3, <2>4 DEF DispatchFault
<1>8. CASE AfterError
  BY ZenonT(30), <1>8 DEF AfterError, VerdictPoisons, Rollback, ReconcileFailed, ReconcileFailedFails,
     SettleFailed, SettleFailedFails, Settled
<1>9. CASE AfterCall
  <2>1. CASE PersistDeployment
    <3>1. ASSUME result = "ok" PROVE Forwarded(cur, billed')
      <4>1. billed' = Append(billed, cur) /\ cur \in Requests
        BY ZenonT(30), <2>1, <3>1 DEF PersistDeployment, LedgerInv, Reserved, CallInv, Calling
      <4> QED BY ZenonT(30), <1>3, <4>1, ForwardedAppend
    <3> QED BY ZenonT(30), <2>1, <3>1 DEF PersistDeployment
  <2>2. CASE PersistDeploymentFails \/ PrepareProjection \/ PrepareProjectionFails
    BY ZenonT(30), <2>2 DEF PersistDeploymentFails, PrepareProjection, PrepareProjectionFails
  <2>3. CASE Project \/ ProjectFails \/ ClearProjection \/ ClearProjectionFails
    BY ZenonT(30), <2>3 DEF Project, ProjectFails, ClearProjection, ClearProjectionFails
  <2>4. CASE Settle \/ SettleFails
    BY ZenonT(30), <2>4 DEF Settle, SettleFails, Settled
  <2> QED BY ZenonT(30), <1>9, <2>1, <2>2, <2>3, <2>4 DEF AfterCall
<1>10. CASE Recover
  <2>1. CASE Boot
    <3>1. pc' \in {"boot_check", "refused", "boot_reconcile"} BY ZenonT(30), <2>1 DEF Boot
    <3>2. pc' = "boot_reconcile" => marker.state \in {"succeeded", "failed"}
      BY ZenonT(30), <2>1 DEF Boot, States
    <3> QED BY ZenonT(30), <2>1, <3>1, <3>2 DEF Boot
  <2>2. CASE BootSettle
    <3>1. ASSUME pc' = "boot_prepare" PROVE Forwarded(marker.req, billed')
      <4>1. marker.req \in Requests /\ charged = billed
        BY ZenonT(30), <2>2 DEF BootSettle, LedgerInv, Level
      <4>2. CASE Forwarded(marker.req, charged) BY ZenonT(30), <4>1, <4>2
      <4>3. CASE ~Forwarded(marker.req, charged)
        <5>1. billed' = Append(billed, marker.req) BY SMTT(30), <2>2, <3>1, <4>1, <4>3 DEF BootSettle
        <5> QED BY ZenonT(30), <1>3, <4>1, <5>1, ForwardedAppend
      <4> QED BY ZenonT(30), <4>2, <4>3
    <3>2. pc' \in {"refused", "boot_prepare", "boot_mark"} BY ZenonT(30), <2>2 DEF BootSettle
    <3> QED BY ZenonT(30), <2>2, <3>1, <3>2 DEF BootSettle
  <2>3. CASE BootReconcile \/ BootPrepare
    BY ZenonT(30), <2>3 DEF BootReconcile, BootPrepare
  <2>4. CASE BootMark \/ BootCheck
    BY ZenonT(30), <2>4 DEF BootMark, BootCheck, Settled
  <2> QED BY ZenonT(30), <1>10, <2>1, <2>2, <2>3, <2>4 DEF Recover
<1>11. CASE Crash BY ZenonT(30), <1>11 DEF Crash
<1>12. CASE UNCHANGED vars BY ZenonT(30), <1>12 DEF vars
<1> QED BY ZenonT(30), <1>5, <1>6, <1>7, <1>8, <1>9, <1>10, <1>11, <1>12 DEF Next

-----------------------------------------------------------------------------
(* The invariant, and what follows from it whatever fails *)

\* The invariant holds of a new deployment.
LEMMA ServedInit == Init => ServedInv
<1> SUFFICES ASSUME Init PROVE ServedInv OBVIOUS
<1>1. TypeOK BY ZenonT(30), TypeInit
<1>2. CallInv BY ZenonT(30) DEF Init, CallInv, Calling
<1>3. LedgerInv BY ConstantsAssumption DEF Init, LedgerInv, Reserved, Level
<1>4. WitnessInv BY DEF Init, WitnessInv, NoMarker, Forwarded
<1> QED BY ZenonT(30), <1>1, <1>2, <1>3, <1>4 DEF ServedInv

\* Every step keeps the invariant.
LEMMA ServedStep == ServedInv /\ [Next]_vars => ServedInv'
<1> SUFFICES ASSUME TypeOK, CallInv, LedgerInv, WitnessInv, [Next]_vars PROVE ServedInv'
  BY ZenonT(30) DEF ServedInv
<1>1. TypeOK'
  <2>1. CASE UNCHANGED vars
    BY ZenonT(30), <2>1 DEF TypeOK, vars, durable, memory, call, bounds
  <2> QED BY ZenonT(30), <2>1, TypeServe, TypeDispatch, TypeAfter, TypeRecover DEF Next
<1>2. CallInv' BY ZenonT(30), CallStep
<1>3. LedgerInv' BY ZenonT(30), LedgerStep
<1>4. WitnessInv' BY ZenonT(30), WitnessStep
<1> QED BY ZenonT(30), <1>1, <1>2, <1>3, <1>4 DEF ServedInv

\* Every reachable state of a server satisfies the invariant: memory and disk
\* disagree by at most the one charge in flight, and every durable witness
\* (marker, receipt, ledger entry) stands for something that happened.
THEOREM ServedInvariant == Spec => []ServedInv
BY ServedInit, ServedStep, PTL DEF Spec

\* Type correctness, for all constants.
THEOREM TypeCorrect == Spec => []TypeOK
<1>1. ServedInv => TypeOK BY ZenonT(30) DEF ServedInv
<1> QED BY <1>1, ServedInvariant, PTL

\* A request is billed at most once, only when its effect is durable, and never
\* beyond the budget, even when Core's checkpoint fails half way: no crash
\* between Core, journal, marker and ledger makes recovery bill twice.
THEOREM BillingSafe == Spec => []BilledOnce
<1>1. ServedInv => BilledOnce
  BY ZenonT(30) DEF ServedInv, LedgerInv, WitnessInv, BilledOnce, Billed, Done
<1> QED BY <1>1, ServedInvariant, PTL

-----------------------------------------------------------------------------
(* Effects, when a checkpoint that reports an error left nothing behind *)

\* At these points every effect is billed; Core is one of them.
LEMMA AllBilled ==
    ASSUME EffectInv,
           pc \notin {"succeed", "finish", "verdict", "persist", "poisoned", "down",
                      "refused", "boot_reconcile", "boot_settle"}
    PROVE  \A r \in Requests : \A a \in Attempts : <<r, a>> \in core => Forwarded(r, billed)
BY ZenonT(30) DEF EffectInv

\* No step runs Core for a request whose effect exists, or loses track of an
\* effect not billed yet.
LEMMA EffectStep ==
    ASSUME SplitCheckpoint = FALSE, ServedInv, EffectInv, EffectOnce, [Next]_vars
    PROVE  EffectInv' /\ EffectOnce'
<1>1. TypeOK /\ CallInv /\ LedgerInv /\ WitnessInv BY ZenonT(30) DEF ServedInv
<1>2. \A r : Forwarded(r, billed) => Forwarded(r, billed') BY ZenonT(30), <1>1, ForwardedStays
<1>3. billed \in Seq(Requests) BY ZenonT(30), <1>1 DEF TypeOK
<1>4. CASE CoreSucceeds
  <2>1. cur \in Requests /\ att \in Attempts /\ ~Forwarded(cur, billed)
    BY ZenonT(30), <1>1, <1>4 DEF CoreSucceeds, Goto, CallInv, Calling, LedgerInv, Reserved
  <2>2. \A r \in Requests : \A a \in Attempts : <<r, a>> \in core => Forwarded(r, billed)
    BY ZenonT(30), <1>4, AllBilled DEF CoreSucceeds, Goto
  <2>3. /\ core' = core \cup {<<cur, att>>} /\ pc = "core" /\ pc' = "succeed"
        /\ cur' = cur /\ marker' = marker
    BY ZenonT(30), <1>4 DEF CoreSucceeds, Goto, call
  <2>4. EffectInv' BY ZenonT(30), <1>2, <2>2, <2>3 DEF EffectInv
  <2>5. EffectOnce' BY ZenonT(30), <2>1, <2>2, <2>3 DEF EffectOnce
  <2> QED BY ZenonT(30), <2>4, <2>5
<1>14. CASE PublicationUncertain
  <2>1. cur \in Requests /\ att \in Attempts /\ ~Forwarded(cur, billed)
    BY ZenonT(30), <1>1, <1>14 DEF PublicationUncertain, Goto, CallInv, Calling, LedgerInv, Reserved
  <2>2. \A r \in Requests : \A a \in Attempts : <<r, a>> \in core => Forwarded(r, billed)
    BY ZenonT(30), <1>14, AllBilled DEF PublicationUncertain, Goto
  <2>3. /\ core' \in {core, core \cup {<<cur, att>>}} /\ pc = "core" /\ pc' = "poisoned"
        /\ marker' = marker
    BY ZenonT(30), <1>14 DEF PublicationUncertain, Goto
  <2>4. EffectInv' BY ZenonT(30), <1>2, <2>2, <2>3 DEF EffectInv
  <2>5. EffectOnce' BY ZenonT(30), <2>1, <2>2, <2>3 DEF EffectOnce
  <2> QED BY ZenonT(30), <2>4, <2>5
<1>5. ASSUME core' = core PROVE EffectOnce' BY ZenonT(30), <1>5 DEF EffectOnce
<1> USE <1>2, <1>5 DEF Goto, Faulty, durable, memory, call, bounds
<1>6. ASSUME NEW r \in Requests, Serve(r) PROVE EffectInv' /\ EffectOnce'
  <2>1. pc = "idle" /\ core' = core /\ pc' \notin {"core", "succeed", "finish"}
    BY ZenonT(30), <1>6
       DEF Serve, Arrive, Admissible, CorrelationFails, ProjectionBlocks, RetryProjection,
       Replay, Refuse, Admit
  <2> QED BY ZenonT(30), <2>1, AllBilled DEF EffectInv
<1>7. CASE Dispatch
  <2>1. CASE ToolRequested \/ ToolStarted \/ CoreFails
    <3>1. pc \in {"request", "start", "core"} /\ core' = core /\ pc' \in {"start", "arm", "fail"}
      BY ZenonT(30), <2>1 DEF ToolRequested, ToolStarted, CoreFails, Append1
    <3> QED BY ZenonT(30), <3>1, AllBilled DEF EffectInv
  <2>2. CASE MarkStarted \/ MarkFailed
    <3>1. /\ pc \in {"arm", "fail"} /\ core' = core /\ cur' = cur
          /\ \/ pc' = "finish" /\ marker' = Mark("failed")
             \/ pc' = "core" /\ marker' = Mark("started")
      BY ZenonT(30), <2>2 DEF MarkStarted, MarkFailed
    <3> QED BY <3>1, AllBilled DEF EffectInv, Mark
  <2>3. CASE MarkSucceeded
    <3>1. /\ pc = "succeed" /\ pc' = "finish" /\ core' = core /\ cur' = cur /\ billed' = billed
          /\ marker'.req = cur /\ marker'.state = "succeeded" /\ result' = "ok"
      BY ZenonT(30), <2>3 DEF MarkSucceeded, Mark
    <3> QED BY ZenonT(30), <3>1 DEF EffectInv
  <2>4. CASE ToolFinished
    <3>1. /\ pc = "finish" /\ core' = core /\ cur' = cur /\ billed' = billed /\ marker' = marker
          /\ result' = result /\ pc' = (IF result = "ok" THEN "persist" ELSE "verdict")
      BY ZenonT(30), <2>4 DEF ToolFinished, Append1
    <3> QED BY ZenonT(30), <3>1 DEF EffectInv
  <2>5. CASE DirectFailed
    <3>1. /\ pc = "finish" /\ core' = core /\ pc' = "settle_failed"
          /\ cur \in Direct /\ result # "ok"
      BY ZenonT(30), <2>5 DEF DirectFailed, Append1
    <3>2. \A r \in Requests : \A a \in Attempts : <<r, a>> \in core => Forwarded(r, billed)
      BY ZenonT(30), <3>1 DEF EffectInv
    <3> QED BY ZenonT(30), <3>1, <3>2 DEF EffectInv
  <2> QED BY ZenonT(30), <1>4, <1>7, <2>1, <2>2, <2>3, <2>4, <2>5 DEF Dispatch
<1>8. CASE DispatchFault
  <2>1. CASE ToolRequestedFails \/ ToolStartedFails
    <3>1. pc \in {"request", "start"} /\ core' = core /\ pc' \in {"verdict", "poisoned"}
      BY ZenonT(30), <2>1 DEF ToolRequestedFails, ToolStartedFails, Append1Fails, OnError
    <3> QED BY ZenonT(30), <3>1, AllBilled DEF EffectInv
  <2>2. CASE MarkStartedFails \/ MarkFailedFails
    <3>1. /\ pc \in {"arm", "fail"} /\ core' = core /\ cur' = cur
          /\ pc' = "poisoned" \/ (pc' = "finish" /\ cur \notin Direct)
      BY ZenonT(30), <2>2 DEF MarkStartedFails, MarkFailedFails, OnError
    <3> QED BY ZenonT(30), <3>1, AllBilled DEF EffectInv
  <2>3. CASE MarkSucceededFails
    <3>1. /\ pc = "succeed" /\ core' = core /\ cur' = cur /\ billed' = billed
          /\ pc' = "poisoned" \/ (pc' = "finish" /\ cur \notin Direct)
          /\ marker' = marker \/ (marker'.req = cur /\ marker'.state = "succeeded")
      BY SMTT(30), <2>3 DEF MarkSucceededFails, Mark, OnError
    <3> QED BY ZenonT(30), <3>1 DEF EffectInv
  <2>4. CASE ToolFinishedFails
    <3>1. /\ pc = "finish" /\ core' = core /\ cur' = cur /\ billed' = billed /\ marker' = marker
          /\ pc' \in {"verdict", "poisoned"}
      BY ZenonT(30), <2>4 DEF ToolFinishedFails, Append1Fails, OnError
    <3> QED BY ZenonT(30), <3>1 DEF EffectInv
  <2>5. ~CheckpointSplits BY ZenonT(30) DEF CheckpointSplits
  <2> QED BY ZenonT(30), <1>8, <1>14, <2>1, <2>2, <2>3, <2>4, <2>5 DEF DispatchFault
<1>9. CASE AfterError
  <2>1. CASE VerdictPoisons
    <3>1. /\ pc = "verdict" /\ pc' = "poisoned" /\ core' = core /\ billed' = billed
          /\ marker' = marker
      BY ZenonT(30), <2>1 DEF VerdictPoisons
    <3> QED BY ZenonT(30), <3>1 DEF EffectInv
  <2>2. CASE Rollback
    <3>1. pc = "verdict" /\ core' = core /\ ~Uncertain /\ pc' \in {"idle", "reconcile"}
      BY ZenonT(30), <2>2 DEF Rollback
    <3>2. \A r \in Requests : \A a \in Attempts : <<r, a>> \in core => Forwarded(r, billed)
      BY ZenonT(30), <3>1 DEF EffectInv, Uncertain
    <3> QED BY ZenonT(30), <3>1, <3>2 DEF EffectInv
  <2>3. CASE ReconcileFailed \/ ReconcileFailedFails \/ SettleFailed \/ SettleFailedFails
    <3>1. /\ pc \in {"reconcile", "settle_failed"} /\ core' = core
          /\ pc' \in {"settle_failed", "poisoned", "idle"}
      BY ZenonT(30), <2>3 DEF ReconcileFailed, ReconcileFailedFails, SettleFailed, SettleFailedFails
    <3>2. \A r \in Requests : \A a \in Attempts : <<r, a>> \in core => Forwarded(r, billed)
      BY ZenonT(30), <3>1, AllBilled
    <3>3. /\ \A r \in Requests : \A a \in Attempts : <<r, a>> \in core' => Forwarded(r, billed')
          /\ pc' \notin {"core", "succeed", "finish"}
      BY ZenonT(30), <1>2, <3>1, <3>2
    <3>4. EffectInv' BY ZenonT(30), <3>3 DEF EffectInv, Attempts
    <3> QED BY ZenonT(30), <3>1, <3>4 DEF EffectOnce
  <2> QED BY ZenonT(30), <1>9, <2>1, <2>2, <2>3 DEF AfterError
<1>10. CASE AfterCall
  <2>1. CASE PersistDeployment
    <3>1. /\ pc = "persist" /\ core' = core /\ billed' = charged
          /\ pc' \in {"prepare", "settle", "idle"}
      BY ZenonT(30), <2>1 DEF PersistDeployment
    <3>2. \A r \in Requests : \A a \in Attempts : <<r, a>> \in core => Forwarded(r, billed')
      <4>1. CASE result = "ok"
        <5>1. billed' = Append(billed, cur) /\ cur \in Requests
          BY ZenonT(30), <1>1, <3>1, <4>1 DEF LedgerInv, Reserved, CallInv, Calling
        <5>2. Forwarded(cur, billed') BY ZenonT(30), <1>3, <5>1, ForwardedAppend
        <5> QED BY ZenonT(30), <3>1, <5>2 DEF EffectInv
      <4>2. CASE result # "ok" BY ZenonT(30), <3>1, <4>2 DEF EffectInv
      <4> QED BY ZenonT(30), <4>1, <4>2
    <3> QED BY ZenonT(30), <3>1, <3>2 DEF EffectInv
  <2>2. CASE PersistDeploymentFails
    <3>1. pc = "persist" /\ pc' = "poisoned" /\ core' = core /\ marker' = marker
      BY ZenonT(30), <2>2 DEF PersistDeploymentFails
    <3> QED BY ZenonT(30), <3>1 DEF EffectInv
  <2>3. CASE \/ PrepareProjection \/ PrepareProjectionFails \/ Project \/ ProjectFails
             \/ ClearProjection \/ ClearProjectionFails \/ Settle \/ SettleFails
    <3>1. /\ pc \in {"prepare", "project", "clear", "settle"} /\ core' = core
          /\ pc' \in {"project", "clear", "settle", "idle", "poisoned"}
      BY ZenonT(30), <2>3 DEF PrepareProjection, PrepareProjectionFails, Project, ProjectFails,
         ClearProjection, ClearProjectionFails, Settle, SettleFails
    <3> QED BY ZenonT(30), <3>1, AllBilled DEF EffectInv
  <2> QED BY ZenonT(30), <1>10, <2>1, <2>2, <2>3 DEF AfterCall
<1>11. CASE Recover
  <2>1. CASE Boot
    <3>1. /\ pc = "down" /\ core' = core /\ billed' = billed /\ marker' = marker
          /\ pc' \in {"boot_check", "refused", "boot_reconcile"}
          /\ pc' = "boot_check" => marker.state \in {"none", "settled"}
      BY ZenonT(30), <2>1 DEF Boot
    <3> QED BY ZenonT(30), <3>1 DEF EffectInv
  <2>2. CASE BootReconcile
    <3>1. /\ pc = "boot_reconcile" /\ core' = core /\ billed' = billed /\ marker' = marker
          /\ pc' \in {"boot_settle", "boot_mark", "refused"}
          /\ pc' = "boot_mark" => marker.state # "succeeded"
      BY ZenonT(30), <2>2 DEF BootReconcile
    <3>2. marker.state \in {"succeeded", "failed"} BY ZenonT(30), <1>1, <3>1 DEF WitnessInv
    <3> QED BY ZenonT(30), <3>1, <3>2 DEF EffectInv
  <2>3. CASE BootSettle
    <3>1. /\ pc = "boot_settle" /\ core' = core /\ marker' = marker
          /\ pc' \in {"refused", "boot_prepare", "boot_mark"}
          /\ charged = billed /\ marker.req \in Requests
      BY ZenonT(30), <1>1, <2>3 DEF BootSettle, LedgerInv, Level, WitnessInv
    <3>2. CASE pc' = "refused" BY ZenonT(30), <3>1, <3>2 DEF EffectInv
    <3>3. CASE pc' # "refused"
      <4>1. Forwarded(marker.req, billed')
        <5>1. CASE Forwarded(marker.req, billed) BY ZenonT(30), <5>1
        <5>2. CASE ~Forwarded(marker.req, billed)
          <6>1. Len(charged) < Limit
            BY SMTT(30), <1>3, <2>3, <3>1, <3>3, <5>2, ConstantsAssumption DEF BootSettle
          <6>2. billed' = Append(billed, marker.req) BY ZenonT(30), <2>3, <3>1, <5>2, <6>1 DEF BootSettle
          <6> QED BY ZenonT(30), <1>3, <3>1, <6>2, ForwardedAppend
        <5> QED BY ZenonT(30), <5>1, <5>2
      <4> QED BY ZenonT(30), <3>1, <3>3, <4>1 DEF EffectInv
    <3> QED BY ZenonT(30), <3>2, <3>3
  <2>4. CASE BootPrepare \/ BootMark \/ BootCheck
    <3>1. /\ pc \in {"boot_prepare", "boot_mark", "boot_check"} /\ core' = core
          /\ pc' \in {"boot_mark", "refused", "boot_check", "idle"}
      BY ZenonT(30), <2>4 DEF BootPrepare, BootMark, BootCheck
    <3> QED BY ZenonT(30), <3>1, AllBilled DEF EffectInv
  <2> QED BY ZenonT(30), <1>11, <2>1, <2>2, <2>3, <2>4 DEF Recover
<1>12. CASE Crash
  <2>1. core' = core /\ billed' = billed /\ marker' = marker /\ pc' = "down"
    BY ZenonT(30), <1>12 DEF Crash
  <2> QED BY ZenonT(30), <2>1 DEF EffectInv
<1>13. CASE UNCHANGED vars
  BY ZenonT(30), <1>13 DEF EffectInv, vars
<1> QED BY ZenonT(30), <1>6, <1>7, <1>8, <1>9, <1>10, <1>11, <1>12, <1>13 DEF Next

\* What the theorems on effects rest on.
LEMMA EffectInvariant ==
    ASSUME SplitCheckpoint = FALSE
    PROVE  Spec => [](ServedInv /\ EffectInv /\ EffectOnce)
<1>1. Init => EffectInv /\ EffectOnce BY ZenonT(30) DEF Init, EffectInv, EffectOnce
<1>2. ServedInv /\ EffectInv /\ EffectOnce /\ [Next]_vars => EffectInv' /\ EffectOnce'
  BY ZenonT(30), EffectStep
<1> QED BY <1>1, <1>2, ServedInit, ServedStep, PTL DEF Spec

\* When a checkpoint that reports an error wrote nothing, no sequence of
\* retries, crashes, restarts and I/O errors makes the effect of a request
\* reach the Core workspace twice.
THEOREM EffectsHappenOnce ==
    ASSUME SplitCheckpoint = FALSE
    PROVE  Spec => []EffectOnce
BY EffectInvariant, PTL

\* Under the same condition a server that takes calls has billed every effect,
\* and its memory agrees with the ledger on disk.
THEOREM EffectsAreBilled ==
    ASSUME SplitCheckpoint = FALSE
    PROVE  Spec => []NoFreeEffect
<1>1. ServedInv /\ EffectInv => NoFreeEffect
  <2> SUFFICES ASSUME ServedInv, EffectInv, pc = "idle" PROVE Billed = Done /\ charged = billed
    BY ZenonT(30) DEF NoFreeEffect
  <2>1. charged = billed BY ZenonT(30) DEF ServedInv, LedgerInv, Level
  <2>2. Done \subseteq Billed BY ZenonT(30), AllBilled DEF Done, Billed
  <2>3. Billed \subseteq Done BY ZenonT(30) DEF ServedInv, WitnessInv, Done, Billed
  <2> QED BY ZenonT(30), <2>1, <2>2, <2>3
<1> QED BY <1>1, EffectInvariant, PTL

-----------------------------------------------------------------------------
(* The contract *)

\* Which requests are acknowledged changes only where an answer is given, and
\* only for a request that is billed.
LEMMA AckedStep ==
    ASSUME ServedInv, [Next]_vars
    PROVE  \/ Acked' = Acked
           \/ /\ cur \in Requests /\ Forwarded(cur, billed)
              /\ core' = core /\ billed' = billed
              /\ Acked' = Acked \cup {cur}
<1>1. TypeOK /\ CallInv /\ LedgerInv /\ WitnessInv BY ZenonT(30) DEF ServedInv
<1>2. ASSUME reply' = reply PROVE Acked' = Acked BY ZenonT(30), <1>2 DEF Acked
<1>3. ASSUME Calling, NEW x \in Results, reply' = [reply EXCEPT ![att] = [req |-> cur, answer |-> x]]
      PROVE  Acked' = IF x \in {"ok", "replayed"} THEN Acked \cup {cur} ELSE Acked
  <2>1. cur \in Requests /\ att \in Attempts /\ reply[att].answer = "none"
    BY SMTT(30), <1>1, <1>3 DEF CallInv, NoReply
  <2>2. /\ reply'[att].req = cur /\ reply'[att].answer = x
        /\ \A a \in Attempts : a # att => reply'[a] = reply[a]
    BY ZenonT(30), <1>1, <1>3, <2>1 DEF TypeOK
  <2>3. ASSUME NEW r \in Acked PROVE r \in Acked' BY ZenonT(30), <2>1, <2>2, <2>3 DEF Acked
  <2>4. ASSUME NEW r \in Acked' PROVE r \in Acked \/ (r = cur /\ x \in {"ok", "replayed"})
    <3>1. /\ r \in Requests
          /\ \E a \in Attempts : reply'[a].req = r /\ reply'[a].answer \in {"ok", "replayed"}
      BY ZenonT(30), <2>4 DEF Acked, Attempts
    <3>2. PICK a \in Attempts : reply'[a].req = r /\ reply'[a].answer \in {"ok", "replayed"}
      BY ZenonT(30), <3>1
    <3>3. CASE a = att BY ZenonT(30), <2>2, <3>2, <3>3
    <3>4. CASE a # att BY ZenonT(30), <2>2, <3>1, <3>2, <3>4 DEF Acked
    <3> QED BY ZenonT(30), <3>3, <3>4
  <2>5. x \in {"ok", "replayed"} => cur \in Acked'
    <3>1. ASSUME x \in {"ok", "replayed"} PROVE cur \in Acked'
      BY ZenonT(30), <2>1, <2>2, <3>1 DEF Acked, Attempts
    <3> QED BY ZenonT(30), <3>1
  <2> QED BY ZenonT(30), <2>3, <2>4, <2>5
<1> USE DEF Goto, Answer, Calling, durable, memory, call, bounds
<1>4. ASSUME NEW r \in Requests, Serve(r) PROVE reply' = reply
  BY ZenonT(30), <1>4
     DEF Serve, CorrelationFails, ProjectionBlocks, RetryProjection, Replay, Refuse, Admit
<1>5. CASE Dispatch \/ DispatchFault
  BY ZenonT(30), <1>2, <1>5 DEF Dispatch, DispatchFault, ToolRequested, ToolStarted, MarkStarted,
     CoreSucceeds, CoreFails, MarkSucceeded, MarkFailed, ToolFinished, DirectFailed,
     ToolRequestedFails, ToolStartedFails, MarkStartedFails, CheckpointSplits,
     PublicationUncertain, MarkSucceededFails, MarkFailedFails, ToolFinishedFails
<1>6. CASE AfterError
  <2>1. CASE Rollback
    <3>1. pc = "verdict" /\ (reply' = reply \/ Answer("failed")) BY ZenonT(30), <2>1 DEF Rollback
    <3> QED BY ZenonT(30), <1>2, <1>3, <3>1 DEF Results
  <2>2. CASE SettleFailed
    <3>1. pc = "settle_failed" /\ Answer("failed") BY ZenonT(30), <2>2 DEF SettleFailed
    <3> QED BY ZenonT(30), <1>3, <3>1 DEF Results
  <2> QED BY ZenonT(30), <1>2, <1>6, <2>1, <2>2 DEF AfterError, VerdictPoisons, ReconcileFailed,
          ReconcileFailedFails, SettleFailedFails
<1>7. CASE AfterCall
  <2>1. CASE PersistDeployment
    <3>1. CASE result = "ok" BY ZenonT(30), <1>2, <2>1, <3>1 DEF PersistDeployment
    <3>2. CASE result # "ok"
      <4>1. pc = "persist" /\ Answer(result) /\ core' = core /\ billed' = billed
        BY ZenonT(30), <1>1, <2>1, <3>2 DEF PersistDeployment, LedgerInv, Level
      <4>2. result \in {"replayed", "refused"} /\ (result = "replayed" => Forwarded(cur, billed))
        BY ZenonT(30), <1>1, <3>2, <4>1 DEF WitnessInv
      <4>3. cur \in Requests BY ZenonT(30), <1>1, <4>1 DEF CallInv
      <4> QED BY ZenonT(30), <1>3, <4>1, <4>2, <4>3 DEF Results
    <3> QED BY ZenonT(30), <3>1, <3>2
  <2>2. CASE ClearProjection \/ Settle
    <3>1. /\ pc \in {"clear", "settle"} /\ core' = core /\ billed' = billed
          /\ reply' = reply \/ Answer("replayed") \/ Answer("ok")
      BY ZenonT(30), <2>2 DEF ClearProjection, Settle
    <3>2. cur \in Requests /\ Forwarded(cur, billed) BY ZenonT(30), <1>1, <3>1 DEF CallInv, WitnessInv
    <3> QED BY ZenonT(30), <1>2, <1>3, <3>1, <3>2 DEF Results
  <2> QED BY ZenonT(30), <1>2, <1>7, <2>1, <2>2 DEF AfterCall, PersistDeploymentFails, PrepareProjection,
          PrepareProjectionFails, Project, ProjectFails, ClearProjectionFails, SettleFails
<1>8. CASE Recover \/ Crash
  BY ZenonT(30), <1>2, <1>8
     DEF Recover, Boot, BootReconcile, BootSettle, BootPrepare, BootMark, BootCheck,
     Crash
<1>9. CASE UNCHANGED vars BY ZenonT(30), <1>2, <1>9 DEF vars
<1> QED BY ZenonT(30), <1>2, <1>4, <1>5, <1>6, <1>7, <1>8, <1>9 DEF Next

\* Every step of the transaction is a step of the contract or changes nothing
\* the contract speaks of: Core performs, the ledger write of a call or of a
\* recovery bills, an answer acknowledges.
LEMMA ContractStep ==
    ASSUME ServedInv, EffectInv, [Next]_vars
    PROVE  [Contract!Next]_<<core, Billed, Acked>>
<1>1. TypeOK /\ CallInv /\ LedgerInv /\ WitnessInv BY ZenonT(30) DEF ServedInv
<1>2. CASE core' # core
  <2>1. pc = "core" /\ core' = core \cup {<<cur, att>>} BY ZenonT(30), <1>2, CoreGrows
  <2>2. cur \in Requests /\ att \in Attempts /\ ~Forwarded(cur, billed)
    BY ZenonT(30), <1>1, <2>1 DEF CallInv, Calling, LedgerInv, Reserved
  <2>3. \A n \in Attempts : <<cur, n>> \notin core BY ZenonT(30), <2>1, <2>2, AllBilled
  <2>4. billed' = billed BY ZenonT(30), <1>1, <2>1, BilledGrows
  <2>5. Billed' = Billed BY ZenonT(30), <2>4 DEF Billed
  <2>6. Acked' = Acked BY ZenonT(30), <1>2, AckedStep
  <2>7. Contract!Perform(cur, att)
    BY ZenonT(30), <2>1, <2>3, <2>5, <2>6 DEF Contract!Perform, Contract!HasRun
  <2> QED BY ZenonT(30), <2>2, <2>7 DEF Contract!Next
<1>3. ASSUME core' = core, NEW q \in Requests, billed' = Append(billed, q), billed' # billed
      PROVE  [Contract!Next]_<<core, Billed, Acked>>
  <2>1. billed \in Seq(Requests) BY ZenonT(30), <1>1 DEF TypeOK
  <2>2. Billed' = Billed \cup {q} BY ZenonT(30), <1>3, <2>1, ForwardedAppend DEF Billed
  <2>3. Acked' = Acked BY ZenonT(30), <1>3, AckedStep
  <2>4. PICK a \in Attempts : <<q, a>> \in core'
    BY ZenonT(30), <1>1, <2>2, WitnessStep DEF WitnessInv, Billed
  <2>5. CASE q \notin Billed
    <3>1. Contract!Bill(q) BY ZenonT(30), <1>3, <2>2, <2>3, <2>4, <2>5 DEF Contract!Bill, Contract!HasRun
    <3> QED BY ZenonT(30), <1>3, <3>1 DEF Contract!Next
  <2> QED BY ZenonT(30), <1>3, <2>2, <2>3, <2>5
<1>4. ASSUME core' = core, billed' = billed PROVE [Contract!Next]_<<core, Billed, Acked>>
  <2>1. Billed' = Billed BY ZenonT(30), <1>4 DEF Billed
  <2>2. ASSUME cur \in Requests, Forwarded(cur, billed), Acked' = Acked \cup {cur}
        PROVE  Contract!Next
    <3>1. PICK a \in Attempts : <<cur, a>> \in core BY ZenonT(30), <1>1, <2>2 DEF WitnessInv
    <3>2. cur \in Billed BY ZenonT(30), <2>2 DEF Billed
    <3>3. Contract!Acknowledge(cur)
      BY ZenonT(30), <1>4, <2>1, <2>2, <3>1, <3>2 DEF Contract!Acknowledge, Contract!HasRun
    <3> QED BY ZenonT(30), <2>2, <3>3 DEF Contract!Next
  <2> QED BY ZenonT(30), <1>4, <2>1, <2>2, AckedStep
<1> QED BY ZenonT(30), <1>1, <1>2, <1>3, <1>4, BilledGrows

\* The transaction implements its contract: whatever fails and whenever the
\* process dies, a request's effect happens at most once, is billed at most
\* once and only after it happened, and is acknowledged only after both.
THEOREM ImplementsContract ==
    ASSUME SplitCheckpoint = FALSE
    PROVE  Spec => RefinesContract
<1>1. Init => Contract!Init
  BY DEF Init, Contract!Init, Billed, Acked, Forwarded, NoReply
<1>2. ServedInv /\ EffectInv /\ [Next]_vars => [Contract!Next]_<<core, Billed, Acked>>
  BY ZenonT(30), ContractStep
<1> QED BY <1>1, <1>2, EffectInvariant, PTL DEF Spec, RefinesContract, Contract!Spec

-----------------------------------------------------------------------------
(* The projection of a billed ingest *)

\* What is billed stays billed, and grows only with the request being billed.
LEMMA BilledStep ==
    ASSUME TypeOK, CallInv, LedgerInv, WitnessInv, [Next]_vars
    PROVE  \/ Billed' = Billed
           \/ pc = "persist" /\ result = "ok" /\ cur \in Requests /\ Billed' = Billed \cup {cur}
           \/ pc = "boot_settle" /\ marker.req \in Requests /\ Billed' = Billed \cup {marker.req}
<1>1. billed \in Seq(Requests) BY ZenonT(30) DEF TypeOK
<1>2. ASSUME billed' = billed PROVE Billed' = Billed BY ZenonT(30), <1>2 DEF Billed
<1>3. ASSUME NEW q \in Requests, billed' = Append(billed, q) PROVE Billed' = Billed \cup {q}
  BY ZenonT(30), <1>1, <1>3, ForwardedAppend DEF Billed
<1> QED BY ZenonT(30), <1>2, <1>3, BilledGrows

\* No step drops the last thing that asks for a projection.
LEMMA ProjectionStep ==
    ASSUME ServedInv, ProjectionInv, [Next]_vars
    PROVE  ProjectionInv'
<1>1. TypeOK /\ CallInv /\ LedgerInv /\ WitnessInv BY ZenonT(30) DEF ServedInv
<1>2. /\ Billed' = Billed \/ pc \in {"persist", "boot_settle"}
      /\ pc = "persist" => Billed' = Billed \/ (result = "ok" /\ Billed' = Billed \cup {cur})
      /\ pc = "boot_settle" => Billed' = Billed \/ Billed' = Billed \cup {marker.req}
  BY ZenonT(30), <1>1, BilledStep
<1> USE DEF Goto, Faulty, Reserved, durable, memory, call, bounds
<1>11. /\ pc \notin {"persist", "boot_settle"} => Billed' = Billed
       /\ pc = "finish" /\ result = "ok" => marker.req = cur /\ marker.state = "succeeded"
  BY ZenonT(30), <1>2 DEF ProjectionInv
<1>12. ASSUME pc \in {"request", "start", "arm", "core", "succeed", "fail", "finish", "verdict",
                      "reconcile", "settle_failed"},
              pc' \in {"start", "arm", "core", "succeed", "fail", "finish", "verdict", "persist",
                       "reconcile", "settle_failed", "idle", "poisoned"},
              UNCHANGED <<receipt, pending, resolved, cur>>, Reserved' => Reserved,
              pc' \in {"finish", "persist"} /\ result' = "ok" =>
                  marker'.req = cur /\ marker'.state = "succeeded"
       PROVE  ProjectionInv'
  <2>1. \A r \in Ingests \cap Billed : r \in resolved \/ receipt = r
    BY ZenonT(30), <1>12 DEF ProjectionInv
  <2>2. ProjectionNotLost' /\ \A r \in Ingests \cap Billed' : r \in resolved' \/ receipt' = r
    BY ZenonT(30), <1>11, <1>12, <2>1 DEF ProjectionNotLost
  <2>3. receipt \in {NoRequest, pending} /\ (Reserved /\ cur \in Ingests => pending = NoRequest)
    BY ZenonT(30), <1>12 DEF ProjectionInv
  <2>4. Reserved' /\ cur' \in Ingests => pending' = NoRequest
    BY ZenonT(30), <1>12, <2>3
  <2> QED BY ZenonT(30), <1>12, <2>2, <2>3, <2>4 DEF ProjectionInv
<1>4. CASE Dispatch
  <2>1. CASE ToolRequested BY ZenonT(30), <1>12, <2>1 DEF ToolRequested, Append1
  <2>2. CASE ToolStarted BY ZenonT(30), <1>12, <2>2 DEF ToolStarted, Append1
  <2>3. CASE MarkStarted BY ZenonT(30), <1>12, <2>3 DEF MarkStarted
  <2>4. CASE CoreSucceeds BY ZenonT(30), <1>12, <2>4 DEF CoreSucceeds
  <2>5. CASE CoreFails BY ZenonT(30), <1>12, <2>5 DEF CoreFails
  <2>6. CASE MarkSucceeded BY ZenonT(30), <1>12, <2>6 DEF MarkSucceeded, Mark
  <2>7. CASE MarkFailed BY ZenonT(30), <1>12, <2>7 DEF MarkFailed
  <2>8. CASE ToolFinished BY ZenonT(30), <1>11, <1>12, <2>8 DEF ToolFinished, Append1
  <2>9. CASE DirectFailed BY ZenonT(30), <1>12, <2>9 DEF DirectFailed, Append1
  <2> QED BY ZenonT(30), <1>4, <2>1, <2>2, <2>3, <2>4, <2>5, <2>6, <2>7, <2>8, <2>9 DEF Dispatch
<1>5. CASE DispatchFault
  <2>0. \A next : OnError(next) \in {"poisoned", next} BY ZenonT(30) DEF OnError
  <2>1. CASE ToolRequestedFails BY ZenonT(30), <1>12, <2>0, <2>1 DEF ToolRequestedFails, Append1Fails
  <2>2. CASE ToolStartedFails BY ZenonT(30), <1>12, <2>0, <2>2 DEF ToolStartedFails, Append1Fails
  <2>3. CASE MarkStartedFails BY ZenonT(30), <1>12, <2>0, <2>3 DEF MarkStartedFails
  <2>4. CASE CheckpointSplits BY ZenonT(30), <1>12, <2>4 DEF CheckpointSplits
  <2>5. CASE PublicationUncertain BY ZenonT(30), <1>12, <2>5 DEF PublicationUncertain
  <2>6. CASE MarkSucceededFails BY ZenonT(30), <1>12, <2>0, <2>6 DEF MarkSucceededFails
  <2>7. CASE MarkFailedFails BY ZenonT(30), <1>12, <2>0, <2>7 DEF MarkFailedFails
  <2>8. CASE ToolFinishedFails BY ZenonT(30), <1>12, <2>0, <2>8 DEF ToolFinishedFails, Append1Fails
  <2> QED BY ZenonT(30), <1>5, <2>1, <2>2, <2>3, <2>4, <2>5, <2>6, <2>7, <2>8 DEF DispatchFault
<1>6. CASE AfterError
  <2>1. CASE VerdictPoisons BY ZenonT(30), <1>12, <2>1 DEF VerdictPoisons
  <2>2. CASE Rollback BY ZenonT(30), <1>12, <2>2 DEF Rollback
  <2>3. CASE ReconcileFailed BY ZenonT(30), <1>12, <2>3 DEF ReconcileFailed
  <2>4. CASE ReconcileFailedFails BY ZenonT(30), <1>12, <2>4 DEF ReconcileFailedFails
  <2>5. CASE SettleFailed BY ZenonT(30), <1>12, <2>5 DEF SettleFailed
  <2>6. CASE SettleFailedFails BY ZenonT(30), <1>12, <2>6 DEF SettleFailedFails
  <2> QED BY ZenonT(30), <1>6, <2>1, <2>2, <2>3, <2>4, <2>5, <2>6 DEF AfterError
<1> USE <1>2 DEF ProjectionInv, ProjectionNotLost
<1>3. ASSUME NEW r \in Requests, Serve(r) PROVE ProjectionInv'
  BY ZenonT(30), <1>3 DEF Serve, Arrive, Admissible, CorrelationFails, ProjectionBlocks, RetryProjection,
     Replay, Refuse, Admit
<1>7. CASE AfterCall
  <2>1. CASE PersistDeployment BY ZenonT(30), <2>1 DEF PersistDeployment
  <2>2. CASE PersistDeploymentFails BY ZenonT(30), <2>2 DEF PersistDeploymentFails
  <2>3. CASE PrepareProjection
    <3>1. /\ pc = "prepare" /\ pc' = "project" /\ receipt = NoRequest
          /\ receipt' = cur /\ pending' = cur /\ cur' = cur /\ Billed' = Billed /\ resolved' = resolved
      BY ZenonT(30), <2>3 DEF PrepareProjection
    <3>2. \A r \in Ingests \cap Billed : r \in resolved \/ r = cur
      BY ZenonT(30), <3>1, ConstantsAssumption
    <3> QED BY ZenonT(30), <3>1, <3>2
  <2>4. CASE PrepareProjectionFails
    <3>1. /\ pc = "prepare" /\ pc' = "poisoned" /\ receipt = NoRequest /\ Billed' = Billed
          /\ marker' = marker /\ resolved' = resolved
      BY ZenonT(30), <2>4 DEF PrepareProjectionFails
    <3>2. \A r \in Ingests \cap Billed :
              r \in resolved \/ (marker.req = r /\ marker.state = "succeeded")
      BY ZenonT(30), <3>1, ConstantsAssumption
    <3> QED BY ZenonT(30), <3>1, <3>2
  <2>5. CASE Project BY ZenonT(30), <2>5 DEF Project
  <2>6. CASE ProjectFails BY ZenonT(30), <2>6 DEF ProjectFails
  <2>7. CASE ClearProjection BY ZenonT(30), <2>7 DEF ClearProjection
  <2>8. CASE ClearProjectionFails BY ZenonT(30), <2>8 DEF ClearProjectionFails
  <2>9. CASE Settle BY ZenonT(30), <2>9 DEF Settle
  <2>10. CASE SettleFails BY ZenonT(30), <2>10 DEF SettleFails
  <2> QED BY ZenonT(30), <1>7, <2>1, <2>2, <2>3, <2>4, <2>5, <2>6, <2>7, <2>8, <2>9, <2>10 DEF AfterCall
<1>8. CASE Recover
  <2>1. CASE Boot BY ZenonT(30), <2>1 DEF Boot
  <2>2. CASE BootReconcile BY ZenonT(30), <1>1, <2>2 DEF BootReconcile, WitnessInv
  <2>3. CASE BootSettle BY ZenonT(30), <1>1, <2>3 DEF BootSettle, WitnessInv
  <2>4. CASE BootPrepare
    <3>1. /\ pc = "boot_prepare" /\ Billed' = Billed /\ marker' = marker /\ resolved' = resolved
          /\ receipt \in {NoRequest, pending}
      BY ZenonT(30), <2>4 DEF BootPrepare
    <3>2. CASE pending \in {NoRequest, marker.req}
      <4>1. receipt' = marker.req /\ pending' = marker.req /\ pc' = "boot_mark"
        BY ZenonT(30), <2>4, <3>2 DEF BootPrepare
      <4>2. \A r \in Ingests \cap Billed : r \in resolved \/ r = marker.req
        <5>1. receipt \in {NoRequest, marker.req} BY ZenonT(30), <3>1, <3>2
        <5>2. \A r \in Ingests : r # NoRequest BY ZenonT(30), ConstantsAssumption
        <5> QED BY ZenonT(30), <5>1, <5>2
      <4> QED BY ZenonT(30), <3>1, <4>1, <4>2
    <3>3. CASE pending \notin {NoRequest, marker.req}
      <4>1. receipt' = receipt /\ pc' = "refused" BY ZenonT(30), <2>4, <3>3 DEF BootPrepare
      <4> QED BY ZenonT(30), <3>1, <4>1
    <3> QED BY ZenonT(30), <3>2, <3>3
  <2>5. CASE BootMark BY ZenonT(30), <2>5 DEF BootMark
  <2>6. CASE BootCheck BY ZenonT(30), <2>6 DEF BootCheck
  <2> QED BY ZenonT(30), <1>8, <2>1, <2>2, <2>3, <2>4, <2>5, <2>6 DEF Recover
<1>9. CASE Crash
  <2>1. /\ pc' = "down" /\ Billed' = Billed /\ marker' = marker
        /\ receipt' = receipt /\ resolved' = resolved
    BY ZenonT(30), <1>9 DEF Crash, Billed
  <2> QED BY ZenonT(30), <2>1
<1>10. CASE UNCHANGED vars
  <2>1. Billed' = Billed BY ZenonT(30), <1>10 DEF vars, Billed
  <2> QED BY ZenonT(30), <1>10, <2>1 DEF vars
<1> QED BY ZenonT(30), <1>3, <1>4, <1>5, <1>6, <1>7, <1>8, <1>9, <1>10 DEF Next

-----------------------------------------------------------------------------
(* Answers *)

\* No step answers an attempt with something that did not happen, and none
\* touches an attempt not drawn yet.
LEMMA AnswerStep ==
    ASSUME SplitCheckpoint = FALSE, ServedInv, EffectInv, AnswerInv, [Next]_vars
    PROVE  AnswerInv'
<1>1. TypeOK /\ CallInv /\ LedgerInv /\ WitnessInv BY ZenonT(30) DEF ServedInv
<1>2. \A r : Forwarded(r, billed) => Forwarded(r, billed') BY ZenonT(30), <1>1, ForwardedStays
<1>3. core' = core \/ (pc = "core" /\ core' = core \cup {<<cur, att>>}) BY ZenonT(30), CoreGrows
<1>4. Replied /\ Fresh /\ (Unrun => <<cur, att>> \notin core) BY ZenonT(30) DEF AnswerInv
<1>5. ASSUME reply' = reply PROVE Replied'
  <2>1. ASSUME NEW a \in Attempts, reply'[a].answer \in {"ok", "replayed"}
        PROVE  reply'[a].req \in Requests /\ Forwarded(reply'[a].req, billed')
    BY ZenonT(30), <1>2, <1>4, <1>5, <2>1 DEF Replied
  <2>2. ASSUME NEW a \in Attempts, reply'[a].answer \in {"failed", "refused"}
        PROVE  <<reply'[a].req, a>> \notin core'
    <3>1. <<reply[a].req, a>> \notin core /\ reply'[a] = reply[a]
      BY ZenonT(30), <1>4, <1>5, <2>2 DEF Replied
    <3>2. pc = "core" => reply[att].answer = "none" BY <1>1 DEF CallInv, Calling, NoReply
    <3>3. pc = "core" => a # att BY ZenonT(30), <2>2, <3>1, <3>2
    <3> QED BY SMTT(30), <1>3, <3>1, <3>3
  <2> QED BY ZenonT(30), <2>1, <2>2 DEF Replied
<1>6. ASSUME Calling, NEW x \in Results, Answer(x), core' = core,
             x \in {"ok", "replayed"} => Forwarded(cur, billed'),
             x \in {"failed", "refused"} => <<cur, att>> \notin core
      PROVE  Replied'
  <2>1. cur \in Requests /\ att \in Attempts BY ZenonT(30), <1>1, <1>6 DEF CallInv
  <2>2. /\ reply'[att].req = cur /\ reply'[att].answer = x
        /\ \A a \in Attempts : a # att => reply'[a] = reply[a]
    BY ZenonT(30), <1>1, <1>6, <2>1 DEF TypeOK, Answer
  <2>3. ASSUME NEW a \in Attempts, reply'[a].answer \in {"ok", "replayed"}
        PROVE  reply'[a].req \in Requests /\ Forwarded(reply'[a].req, billed')
    <3>1. CASE a = att BY ZenonT(30), <1>6, <2>1, <2>2, <2>3, <3>1
    <3>2. CASE a # att BY ZenonT(30), <1>2, <1>4, <2>2, <2>3, <3>2 DEF Replied
    <3> QED BY ZenonT(30), <3>1, <3>2
  <2>4. ASSUME NEW a \in Attempts, reply'[a].answer \in {"failed", "refused"}
        PROVE  <<reply'[a].req, a>> \notin core'
    <3>1. CASE a = att BY ZenonT(30), <1>6, <2>1, <2>2, <2>4, <3>1
    <3>2. CASE a # att BY ZenonT(30), <1>4, <1>6, <2>2, <2>4, <3>2 DEF Replied
    <3> QED BY ZenonT(30), <3>1, <3>2
  <2> QED BY ZenonT(30), <2>3, <2>4 DEF Replied
\* Attempts beyond the one in flight keep their state.
<1>7. ASSUME att' = att, \A a \in Attempts : a > att => exec'[a] = exec[a] PROVE Fresh'
  <2> SUFFICES ASSUME NEW a \in Attempts, a > att
               PROVE  exec'[a] = "absent" /\ \A r \in Requests : <<r, a>> \notin core'
    BY ZenonT(30), <1>7 DEF Fresh
  <2>1. exec[a] = "absent" /\ \A r \in Requests : <<r, a>> \notin core BY ZenonT(30), <1>4 DEF Fresh
  <2>2. a # att BY <1>1 DEF TypeOK, Attempts
  <2> QED BY ZenonT(30), <1>3, <1>7, <2>1, <2>2
<1>8. ASSUME NEW d, exec' = [exec EXCEPT ![att] = d] PROVE \A a \in Attempts : a > att => exec'[a] = exec[a]
  BY <1>1, <1>8 DEF TypeOK, Attempts
<1>9. ASSUME Reconcilable, Reconcile PROVE \A a \in Attempts : a > att => exec'[a] = exec[a]
  <2> SUFFICES ASSUME NEW a \in Attempts, a > att PROVE exec'[a] = exec[a] OBVIOUS
  <2>1. exec[a] = "absent" BY ZenonT(30), <1>4 DEF Fresh
  <2>2. exec[marker.att] # "absent" BY ZenonT(30), <1>9 DEF Reconcilable, Outcome1
  <2>3. a # marker.att BY ZenonT(30), <2>1, <2>2
  <2> QED BY ZenonT(30), <1>1, <1>9, <2>3 DEF Reconcile, TypeOK
<1>10. ASSUME exec' = exec PROVE \A a \in Attempts : a > att => exec'[a] = exec[a] BY ZenonT(30), <1>10
\* The effect of the call in flight is open at these points.
<1>11. ASSUME Reserved, ~(marker.req = cur /\ marker.state \in {"started", "succeeded"})
       PROVE  <<cur, att>> \notin core
  <2>1. cur \in Requests /\ att \in Attempts /\ ~Forwarded(cur, billed)
    BY ZenonT(30), <1>1, <1>11 DEF Reserved, CallInv, Calling, LedgerInv
  <2> QED BY ZenonT(30), <1>11, <2>1 DEF EffectInv
<1> USE DEF Goto, Unrun, Calling, durable, memory, call, bounds
<1>12. ASSUME NEW r \in Requests, Serve(r) PROVE AnswerInv'
  <2>1. /\ reply' = reply /\ core' = core /\ exec' = exec /\ att' = att + 1 /\ att < MaxAttempts
        /\ cur' = r
    BY ZenonT(30), <1>12
       DEF Serve, Arrive, Admissible, CorrelationFails, ProjectionBlocks, RetryProjection,
       Replay, Refuse, Admit
  <2>2. att' \in Attempts /\ att' > att BY <1>1, <2>1, ConstantsAssumption DEF TypeOK, Attempts
  <2>3. <<cur', att'>> \notin core' BY ZenonT(30), <1>4, <2>1, <2>2 DEF Fresh
  <2>4. \A a \in Attempts : a > att' => a > att BY <1>1, <2>1, ConstantsAssumption DEF TypeOK, Attempts
  <2>5. Fresh' BY ZenonT(30), <1>4, <2>1, <2>4 DEF Fresh
  <2> QED BY ZenonT(30), <1>5, <2>1, <2>3, <2>5 DEF AnswerInv
<1>13. CASE Dispatch
  <2>1. CASE CoreSucceeds BY ZenonT(30), <1>5, <1>7, <1>10, <2>1 DEF CoreSucceeds, AnswerInv
  <2>2. CASE DirectFailed
    <3>1. /\ pc = "finish" /\ core' = core /\ reply' = reply /\ att' = att /\ cur' = cur
          /\ exec' = [exec EXCEPT ![att] = result] /\ cur \in Direct /\ result # "ok"
      BY ZenonT(30), <2>2 DEF DirectFailed, Append1
    <3>2. <<cur, att>> \notin core BY ZenonT(30), <1>11, <3>1 DEF EffectInv, Reserved
    <3> QED BY ZenonT(30), <1>5, <1>7, <1>8, <3>1, <3>2 DEF AnswerInv
  <2>3. CASE ToolRequested \/ ToolStarted
    <3>1. /\ pc \in {"request", "start"} /\ core' = core /\ reply' = reply /\ att' = att /\ cur' = cur
          /\ \E d : exec' = [exec EXCEPT ![att] = d]
      BY ZenonT(30), <2>3 DEF ToolRequested, ToolStarted, Append1
    <3> QED BY ZenonT(30), <1>4, <1>5, <1>7, <1>8, <3>1 DEF AnswerInv
  <2>4. CASE MarkStarted \/ CoreFails
    <3>1. /\ pc \in {"arm", "core"} /\ core' = core /\ reply' = reply /\ att' = att /\ cur' = cur
          /\ exec' = exec
      BY ZenonT(30), <2>4 DEF MarkStarted, CoreFails
    <3> QED BY ZenonT(30), <1>4, <1>5, <1>7, <1>10, <3>1 DEF AnswerInv
  <2>5. CASE MarkSucceeded \/ MarkFailed
    <3>1. pc' = "finish" /\ reply' = reply /\ att' = att /\ exec' = exec
      BY ZenonT(30), <2>5 DEF MarkSucceeded, MarkFailed
    <3> QED BY ZenonT(30), <1>5, <1>7, <1>10, <3>1 DEF AnswerInv
  <2>6. CASE ToolFinished
    <3>1. /\ pc' = (IF result' = "ok" THEN "persist" ELSE "verdict") /\ reply' = reply /\ att' = att
          /\ exec' = [exec EXCEPT ![att] = result]
      BY ZenonT(30), <2>6 DEF ToolFinished, Append1
    <3> QED BY ZenonT(30), <1>5, <1>7, <1>8, <3>1 DEF AnswerInv
  <2> QED BY ZenonT(30), <1>13, <2>1, <2>2, <2>3, <2>4, <2>5, <2>6 DEF Dispatch
<1>14. CASE DispatchFault
  <2>1. /\ reply' = reply /\ att' = att
        /\ pc' \in {"verdict", "poisoned", "finish", "fail"}
        /\ pc' = "fail" => CheckpointSplits
        /\ exec' = exec \/ \E d : exec' = [exec EXCEPT ![att] = d]
    BY ZenonT(30), <1>14
       DEF DispatchFault, ToolRequestedFails, ToolStartedFails, MarkStartedFails, CheckpointSplits,
       PublicationUncertain, MarkSucceededFails, MarkFailedFails, ToolFinishedFails,
       Append1Fails, OnError
  <2>2. pc' # "fail" BY ZenonT(30), <2>1 DEF CheckpointSplits
  <2>3. Fresh' BY ZenonT(30), <1>7, <1>8, <1>10, <2>1
  <2> QED BY ZenonT(30), <1>5, <2>1, <2>2, <2>3 DEF AnswerInv
<1>15. CASE AfterError
  <2>1. CASE Rollback
    <3>1. /\ pc = "verdict" /\ core' = core /\ att' = att /\ cur' = cur /\ exec' = exec
          /\ ~(marker.req = cur /\ marker.state \in {"started", "succeeded"})
          /\ reply' = reply \/ Answer("failed")
      BY ZenonT(30), <2>1 DEF Rollback, Uncertain
    <3>2. <<cur, att>> \notin core BY ZenonT(30), <1>11, <3>1 DEF Reserved
    <3>3. Replied' BY ZenonT(30), <1>5, <1>6, <3>1, <3>2 DEF Results
    <3> QED BY ZenonT(30), <1>7, <1>10, <3>1, <3>2, <3>3 DEF AnswerInv
  <2>2. CASE SettleFailed
    <3>1. /\ pc = "settle_failed" /\ pc' = "idle" /\ core' = core /\ att' = att /\ exec' = exec
          /\ Answer("failed")
      BY ZenonT(30), <2>2 DEF SettleFailed
    <3>2. Replied' BY ZenonT(30), <1>4, <1>6, <3>1 DEF Results
    <3> QED BY ZenonT(30), <1>7, <1>10, <3>1, <3>2 DEF AnswerInv
  <2>3. CASE ReconcileFailed
    <3>1. /\ pc = "reconcile" /\ core' = core /\ att' = att /\ cur' = cur /\ reply' = reply
          /\ Reconcilable /\ Reconcile
      BY ZenonT(30), <2>3 DEF ReconcileFailed
    <3> QED BY ZenonT(30), <1>4, <1>5, <1>7, <1>9, <3>1 DEF AnswerInv
  <2>4. CASE VerdictPoisons \/ ReconcileFailedFails \/ SettleFailedFails
    <3>1. pc' = "poisoned" /\ reply' = reply /\ att' = att /\ exec' = exec
      BY ZenonT(30), <2>4 DEF VerdictPoisons, ReconcileFailedFails, SettleFailedFails
    <3> QED BY ZenonT(30), <1>5, <1>7, <1>10, <3>1 DEF AnswerInv
  <2> QED BY ZenonT(30), <1>15, <2>1, <2>2, <2>3, <2>4 DEF AfterError
<1>16. CASE AfterCall
  <2>1. /\ pc \in {"persist", "prepare", "project", "clear", "settle"}
        /\ core' = core /\ att' = att /\ exec' = exec
        /\ pc' \in {"idle", "poisoned", "prepare", "settle", "project", "clear"}
    BY ZenonT(30), <1>16 DEF AfterCall, PersistDeployment, PersistDeploymentFails, PrepareProjection,
       PrepareProjectionFails, Project, ProjectFails, ClearProjection, ClearProjectionFails,
       Settle, SettleFails
  <2>2. Fresh' /\ ~Unrun' BY ZenonT(30), <1>7, <1>10, <2>1
  <2>3. Replied'
    <3>1. CASE PersistDeployment
      <4>1. CASE result = "ok" BY ZenonT(30), <1>5, <3>1, <4>1 DEF PersistDeployment
      <4>2. CASE result # "ok"
        <5>1. pc = "persist" /\ Answer(result) BY ZenonT(30), <3>1, <4>2 DEF PersistDeployment
        <5>2. result \in {"replayed", "refused"} /\ (result = "replayed" => Forwarded(cur, billed))
          BY ZenonT(30), <1>1, <4>2, <5>1 DEF WitnessInv
        <5>3. <<cur, att>> \notin core BY ZenonT(30), <1>4, <4>2, <5>1
        <5> QED BY ZenonT(30), <1>2, <1>6, <2>1, <5>1, <5>2, <5>3 DEF Results
      <4> QED BY ZenonT(30), <4>1, <4>2
    <3>2. CASE ClearProjection \/ Settle
      <4>1. pc \in {"clear", "settle"} /\ (reply' = reply \/ Answer("replayed") \/ Answer("ok"))
        BY ZenonT(30), <3>2 DEF ClearProjection, Settle
      <4>2. Forwarded(cur, billed') BY ZenonT(30), <1>1, <1>2, <4>1 DEF WitnessInv
      <4> QED BY ZenonT(30), <1>5, <1>6, <2>1, <4>1, <4>2 DEF Results
    <3> QED
      BY ZenonT(30), <1>5, <1>16, <3>1, <3>2
         DEF AfterCall, PersistDeploymentFails, PrepareProjection,
            PrepareProjectionFails, Project, ProjectFails, ClearProjectionFails, SettleFails
  <2> QED BY ZenonT(30), <2>2, <2>3 DEF AnswerInv
<1>17. CASE Recover
  <2>1. /\ reply' = reply /\ att' = att
        /\ exec' = exec \/ (Reconcilable /\ Reconcile)
        /\ pc' \in {"refused", "boot_check", "boot_reconcile", "boot_settle", "boot_prepare",
                    "boot_mark", "idle"}
    BY ZenonT(30), <1>17 DEF Recover, Boot, BootReconcile, BootSettle, BootPrepare, BootMark, BootCheck
  <2>2. Fresh' BY ZenonT(30), <1>7, <1>9, <1>10, <2>1
  <2> QED BY ZenonT(30), <1>5, <2>1, <2>2 DEF AnswerInv
<1>18. CASE Crash
  <2>1. reply' = reply /\ att' = att /\ exec' = exec /\ pc' = "down" BY ZenonT(30), <1>18 DEF Crash
  <2> QED BY ZenonT(30), <1>5, <1>7, <1>10, <2>1 DEF AnswerInv
<1>19. CASE UNCHANGED vars
  <2>1. /\ reply' = reply /\ att' = att /\ exec' = exec /\ pc' = pc /\ cur' = cur /\ result' = result
        /\ core' = core
    BY ZenonT(30), <1>19 DEF vars
  <2> QED BY ZenonT(30), <1>4, <1>5, <1>7, <1>10, <2>1 DEF AnswerInv
<1> QED BY ZenonT(30), <1>12, <1>13, <1>14, <1>15, <1>16, <1>17, <1>18, <1>19 DEF Next

-----------------------------------------------------------------------------
(* The execution journal *)

\* No step lets the execution journal drift from the effects.
LEMMA JournalStep ==
    ASSUME SplitCheckpoint = FALSE, ServedInv, EffectInv, AnswerInv, JournalInv, [Next]_vars
    PROVE  JournalInv'
<1>1. TypeOK /\ CallInv /\ LedgerInv /\ WitnessInv BY ZenonT(30) DEF ServedInv
<1>2. JournalPoints /\ JournalExact /\ JournalOpen BY ZenonT(30) DEF JournalInv
<1>3. exec \in [Attempts -> Dispositions] BY ZenonT(30), <1>1 DEF TypeOK
<1> DEFINE Running == {"arm", "core", "succeed", "fail", "finish"}
\* An append changes one attempt, which keeps the journal exact when the
\* attempt was not known as done, or now rightly is.
<1>4. ASSUME core' = core, NEW n, NEW d, exec' = [exec EXCEPT ![n] = d],
             exec[n] # "ok" \/ d = "ok",
             d = "ok" => \E r \in Requests : <<r, n>> \in core,
             \A r \in Requests : \A a \in Attempts :
                 Untold(r, a) => (n = a /\ d = "ok") \/ Untold(r, a)'
      PROVE  JournalExact'
  <2>1. \A a \in Attempts : exec'[a] = IF a = n THEN d ELSE exec[a] BY ZenonT(30), <1>3, <1>4
  <2>2. ASSUME NEW a \in Attempts, exec'[a] = "ok" PROVE \E r \in Requests : <<r, a>> \in core'
    BY ZenonT(30), <1>2, <1>4, <2>1, <2>2 DEF JournalExact
  <2>3. ASSUME NEW r \in Requests, NEW a \in Attempts, <<r, a>> \in core'
        PROVE  exec'[a] = "ok" \/ Untold(r, a)'
    <3>1. exec[a] = "ok" \/ Untold(r, a) BY ZenonT(30), <1>2, <1>4, <2>3 DEF JournalExact
    <3>2. CASE exec[a] = "ok" BY ZenonT(30), <1>4, <2>1, <3>2
    <3>3. CASE Untold(r, a) BY ZenonT(30), <1>4, <2>1, <3>3
    <3> QED BY ZenonT(30), <3>1, <3>2, <3>3
  <2> QED BY ZenonT(30), <2>2, <2>3 DEF JournalExact
<1>5. ASSUME core' = core, exec' = exec,
             \A r \in Requests : \A a \in Attempts : Untold(r, a) => Untold(r, a)'
      PROVE  JournalExact'
  BY ZenonT(30), <1>2, <1>5 DEF JournalExact
<1>6. ASSUME NEW d, exec' = [exec EXCEPT ![att] = d], Calling, att' = att,
             handle' \in {handle, "poisoned"},
             d # "started" \/ pc' \in Running \/ handle' = "poisoned"
      PROVE  JournalOpen' /\ exec'[att] = d
  <2>0. att \in Attempts BY ZenonT(30), <1>1, <1>6 DEF CallInv
  <2>1. \A a \in Attempts : exec'[a] = IF a = att THEN d ELSE exec[a] BY ZenonT(30), <1>3, <1>6
  <2>2. ASSUME NEW a \in Attempts,
  exec'[a] = "started" PROVE handle' = "poisoned" \/ (a = att' /\ pc' \in Running)
    <3>1. CASE a = att BY ZenonT(30), <1>6, <2>1, <2>2, <3>1
    <3>2. CASE a # att BY ZenonT(30), <1>2, <1>6, <2>1, <2>2, <3>2 DEF JournalOpen
    <3> QED BY ZenonT(30), <3>1, <3>2
  <2> QED BY ZenonT(30), <2>0, <2>1, <2>2 DEF JournalOpen
<1>7. ASSUME exec' = exec, handle' = handle, pc = "idle" \/ Calling,
             pc \in Running => pc' \in Running /\ att' = att
      PROVE  JournalOpen'
  BY ZenonT(30), <1>2, <1>7 DEF JournalOpen
<1>8. ASSUME pc' # "idle", ~Calling' PROVE JournalOpen' BY ZenonT(30), <1>8 DEF JournalOpen
<1> HIDE DEF Running
<1> USE DEF Goto, durable, memory, call, bounds
<1>9. ASSUME NEW r \in Requests, Serve(r) PROVE JournalInv'
  <2>1. /\ core' = core /\ exec' = exec /\ att' = att + 1 /\ att < MaxAttempts /\ pc = "idle"
        /\ handle' = handle
        /\ pc' \in {"poisoned", "idle", "project", "persist", "request"}
    BY ZenonT(30), <1>9
       DEF Serve, Arrive, Admissible, CorrelationFails, ProjectionBlocks, RetryProjection,
       Replay, Refuse, Admit
  <2>2. att' \in Attempts /\ att' > att BY <1>1, <2>1, ConstantsAssumption DEF TypeOK, Attempts
  <2>3. exec'[att'] = "absent" BY ZenonT(30), <2>1, <2>2 DEF AnswerInv, Fresh
  <2>4. JournalExact' BY ZenonT(30), <1>5, <2>1 DEF Untold
  <2>5. JournalOpen' BY ZenonT(30), <1>7, <2>1 DEF Running
  <2>6. JournalPoints' BY ZenonT(30), <2>1, <2>3 DEF JournalPoints
  <2> QED BY ZenonT(30), <2>4, <2>5, <2>6 DEF JournalInv
<1>10. CASE Dispatch
  <2>1. CASE ToolRequested \/ ToolStarted
    <3>1. /\ core' = core /\ att' = att /\ handle' = handle
          /\ \/ pc = "request" /\ pc' = "start" /\ exec' = [exec EXCEPT ![att] = "requested"]
             \/ pc = "start" /\ pc' = "arm" /\ exec' = [exec EXCEPT ![att] = "started"]
      BY ZenonT(30), <2>1 DEF ToolRequested, ToolStarted, Append1
    <3>2. exec[att] # "ok" BY ZenonT(30), <1>2, <3>1 DEF JournalPoints
    <3>3. JournalExact' BY ZenonT(30), <1>4, <3>1, <3>2 DEF Untold
    <3>4. JournalOpen' /\ JournalPoints' BY ZenonT(30), <1>6, <3>1 DEF JournalPoints, Calling, Running
    <3> QED BY ZenonT(30), <3>3, <3>4 DEF JournalInv
  <2>2. CASE MarkStarted
    <3>1. /\ core' = core /\ exec' = exec /\ att' = att /\ cur' = cur /\ handle' = handle
          /\ pc = "arm" /\ pc' = "core" /\ marker' = Mark("started")
      BY ZenonT(30), <2>2 DEF MarkStarted
    <3>2. JournalExact' BY ZenonT(30), <1>5, <3>1 DEF Untold
    <3>3. JournalOpen' BY ZenonT(30), <1>7, <3>1 DEF Calling, Running
    <3>4. JournalPoints' BY ZenonT(30), <1>2, <3>1 DEF JournalPoints, Mark
    <3> QED BY ZenonT(30), <3>2, <3>3, <3>4 DEF JournalInv
  <2>3. CASE CoreSucceeds
    <3>1. /\ core' = core \cup {<<cur, att>>} /\ exec' = exec /\ att' = att /\ cur' = cur
          /\ handle' = handle /\ pc = "core" /\ pc' = "succeed" /\ marker' = marker
      BY ZenonT(30), <2>3 DEF CoreSucceeds
    <3>2. marker.req = cur /\ marker.att = att /\ marker.state = "started"
      BY <1>2, <3>1 DEF JournalPoints, Mark
    <3>3. JournalExact'
      <4>2. \A r \in Requests : \A a \in Attempts : <<r, a>> \in core => exec[a] = "ok"
        BY ZenonT(30), <1>2, <3>1 DEF JournalExact, Untold
      <4>3. ASSUME NEW r \in Requests, NEW a \in Attempts, <<r, a>> \in core'
            PROVE  exec'[a] = "ok" \/ Untold(r, a)'
        <5>1. CASE <<r, a>> \in core BY ZenonT(30), <3>1, <4>2, <5>1
        <5>2. CASE r = cur /\ a = att BY ZenonT(30), <3>1, <3>2, <5>2 DEF Untold
        <5> QED BY ZenonT(30), <3>1, <4>3, <5>1, <5>2
      <4>4. \A a \in Attempts : exec'[a] = "ok" => \E r \in Requests : <<r, a>> \in core'
        BY ZenonT(30), <1>2, <3>1 DEF JournalExact
      <4> QED BY ZenonT(30), <4>3, <4>4 DEF JournalExact
    <3>4. JournalOpen' BY ZenonT(30), <1>7, <3>1 DEF Calling, Running
    <3>5. JournalPoints' BY ZenonT(30), <1>2, <3>1 DEF JournalPoints, Mark
    <3> QED BY ZenonT(30), <3>3, <3>4, <3>5 DEF JournalInv
  <2>4. CASE CoreFails \/ MarkFailed
    <3>1. /\ core' = core /\ exec' = exec /\ att' = att /\ handle' = handle
          /\ pc \in {"core", "fail"} /\ pc' \in {"fail", "finish"}
      BY ZenonT(30), <2>4 DEF CoreFails, MarkFailed
    <3>2. JournalExact' BY ZenonT(30), <1>5, <3>1 DEF Untold
    <3>3. JournalOpen' BY ZenonT(30), <1>7, <3>1 DEF Calling, Running
    <3>4. JournalPoints' BY ZenonT(30), <1>2, <3>1 DEF JournalPoints
    <3> QED BY ZenonT(30), <3>2, <3>3, <3>4 DEF JournalInv
  <2>5. CASE MarkSucceeded
    <3>1. /\ core' = core /\ exec' = exec /\ att' = att /\ cur' = cur /\ handle' = handle
          /\ pc = "succeed" /\ pc' = "finish"
          /\ marker'.req = cur /\ marker'.att = att /\ marker'.state = "succeeded"
      BY ZenonT(30), <2>5 DEF MarkSucceeded, Mark
    <3>2. JournalExact' BY ZenonT(30), <1>5, <3>1 DEF Untold
    <3>3. JournalOpen' BY ZenonT(30), <1>7, <3>1 DEF Calling, Running
    <3>4. JournalPoints' BY ZenonT(30), <1>2, <3>1 DEF JournalPoints
    <3> QED BY ZenonT(30), <3>2, <3>3, <3>4 DEF JournalInv
  <2>6. CASE ToolFinished
    <3>1. /\ core' = core /\ exec' = [exec EXCEPT ![att] = result] /\ att' = att /\ cur' = cur
          /\ handle' = handle /\ marker' = marker /\ pc = "finish"
          /\ pc' = (IF result = "ok" THEN "persist" ELSE "verdict")
      BY ZenonT(30), <2>6 DEF ToolFinished, Append1
    <3>2. exec[att] = "started" BY ZenonT(30), <1>2, <3>1 DEF JournalPoints
    <3>3. result = "ok" => \E r \in Requests : <<r, att>> \in core
      BY ZenonT(30), <1>1, <3>1 DEF WitnessInv, CallInv, Calling
    <3>4. JournalExact' BY ZenonT(30), <1>4, <3>1, <3>2, <3>3 DEF Untold
    <3>5. result # "started" BY ZenonT(30), <1>1 DEF TypeOK, Results
    <3>6. JournalOpen' BY ZenonT(30), <1>6, <3>1, <3>5 DEF Calling
    <3>7. JournalPoints' BY ZenonT(30), <3>1 DEF JournalPoints
    <3> QED BY ZenonT(30), <3>4, <3>6, <3>7 DEF JournalInv
  <2>7. CASE DirectFailed
    <3>1. /\ core' = core /\ exec' = [exec EXCEPT ![att] = result] /\ att' = att
          /\ handle' = handle /\ pc = "finish" /\ pc' = "settle_failed"
          /\ cur \in Direct /\ result # "ok"
      BY ZenonT(30), <2>7 DEF DirectFailed, Append1
    <3>2. exec[att] = "started" BY ZenonT(30), <1>2, <3>1 DEF JournalPoints
    <3>3. marker.state = "failed" BY ZenonT(30), <3>1 DEF EffectInv
    <3>4. JournalExact' BY ZenonT(30), <1>4, <3>1, <3>2, <3>3 DEF Untold
    <3>5. result # "started" BY ZenonT(30), <1>1 DEF TypeOK, Results
    <3>6. JournalOpen' BY ZenonT(30), <1>6, <3>1, <3>5 DEF Calling
    <3>7. JournalPoints' BY ZenonT(30), <3>1 DEF JournalPoints
    <3> QED BY ZenonT(30), <3>4, <3>6, <3>7 DEF JournalInv
  <2> QED BY ZenonT(30), <1>10, <2>1, <2>2, <2>3, <2>4, <2>5, <2>6, <2>7 DEF Dispatch
<1>11. CASE DispatchFault
  <2>0. \A next : OnError(next) \in {"poisoned", next} BY ZenonT(30) DEF OnError
  <2>1. CASE ToolRequestedFails \/ ToolStartedFails
    <3>1. /\ core' = core /\ att' = att /\ pc \in {"request", "start"}
          /\ pc' \in {"poisoned", "verdict"}
          /\ handle' = "poisoned"
          /\ \/ exec' = exec
             \/ exec' = [exec EXCEPT ![att] = "requested"]
             \/ exec' = [exec EXCEPT ![att] = "started"]
      BY ZenonT(30), <2>0, <2>1 DEF ToolRequestedFails, ToolStartedFails, Append1Fails
    <3>2. exec[att] # "ok" BY ZenonT(30), <1>2, <3>1 DEF JournalPoints
    <3>3. JournalExact' BY ZenonT(30), <1>4, <1>5, <3>1, <3>2 DEF Untold
    <3>4. JournalOpen' BY ZenonT(30), <3>1 DEF JournalOpen
    <3>5. JournalPoints' BY ZenonT(30), <3>1 DEF JournalPoints
    <3> QED BY ZenonT(30), <3>3, <3>4, <3>5 DEF JournalInv
  <2>2. CASE MarkStartedFails \/ MarkFailedFails
    <3>1. /\ core' = core /\ exec' = exec /\ att' = att /\ handle' = handle
          /\ pc \in {"arm", "fail"} /\ pc' \in {"poisoned", "finish"}
      BY ZenonT(30), <2>0, <2>2 DEF MarkStartedFails, MarkFailedFails
    <3>2. JournalExact' BY ZenonT(30), <1>5, <3>1 DEF Untold
    <3>3. JournalOpen'
      BY ZenonT(30), <1>7, <1>8, <3>1 DEF Calling, Running
    <3>4. JournalPoints' BY ZenonT(30), <1>2, <3>1 DEF JournalPoints
    <3> QED BY ZenonT(30), <3>2, <3>3, <3>4 DEF JournalInv
  <2>3. CASE PublicationUncertain
    <3>1. /\ core' \in {core, core \cup {<<cur, att>>}} /\ exec' = exec /\ pc = "core"
          /\ pc' = "poisoned" /\ marker' = marker
      BY ZenonT(30), <2>3 DEF PublicationUncertain
    <3>2. marker.req = cur /\ marker.att = att /\ marker.state = "started"
      BY <1>2, <3>1 DEF JournalPoints, Mark
    <3>3. JournalExact'
      <4>1. \A r \in Requests : \A a \in Attempts : <<r, a>> \in core => exec[a] = "ok"
        BY ZenonT(30), <1>2, <3>1 DEF JournalExact, Untold
      <4>2. ASSUME NEW r \in Requests, NEW a \in Attempts, <<r, a>> \in core'
            PROVE  exec'[a] = "ok" \/ Untold(r, a)'
        <5>1. CASE <<r, a>> \in core BY ZenonT(30), <3>1, <4>1, <5>1
        <5>2. CASE r = cur /\ a = att BY ZenonT(30), <3>1, <3>2, <5>2 DEF Untold
        <5> QED BY <3>1, <4>2, <5>1, <5>2
      <4>3. core \subseteq core' BY ZenonT(30), <3>1
      <4>4. \A a \in Attempts : exec'[a] = "ok" => \E r \in Requests : <<r, a>> \in core'
        BY ZenonT(30), <1>2, <3>1, <4>3 DEF JournalExact
      <4> QED BY ZenonT(30), <4>2, <4>4 DEF JournalExact
    <3>4. JournalOpen' BY ZenonT(30), <1>8, <3>1 DEF Calling
    <3>5. JournalPoints' BY ZenonT(30), <3>1 DEF JournalPoints
    <3> QED BY ZenonT(30), <3>3, <3>4, <3>5 DEF JournalInv
  <2>4. CASE MarkSucceededFails
    <3>1. /\ core' = core /\ exec' = exec /\ att' = att /\ cur' = cur /\ handle' = handle
          /\ pc = "succeed" /\ pc' \in {"poisoned", "finish"}
          /\ marker' \in {marker, Mark("succeeded")}
      BY ZenonT(30), <2>0, <2>4 DEF MarkSucceededFails
    <3>2. \/ marker' = marker
          \/ marker'.req = cur /\ marker'.att = att /\ marker'.state = "succeeded"
      BY <3>1 DEF Mark
    <3>3. JournalExact' BY ZenonT(30), <1>5, <3>1, <3>2 DEF Untold
    <3>4. JournalOpen' BY ZenonT(30), <1>7, <1>8, <3>1 DEF Calling, Running
    <3>5. JournalPoints' BY ZenonT(30), <1>2, <3>1 DEF JournalPoints
    <3> QED BY ZenonT(30), <3>3, <3>4, <3>5 DEF JournalInv
  <2>5. CASE ToolFinishedFails
    <3>1. /\ core' = core /\ att' = att /\ cur' = cur /\ handle' = "poisoned" /\ marker' = marker
          /\ pc = "finish" /\ pc' \in {"poisoned", "verdict"}
          /\ exec' = exec \/ exec' = [exec EXCEPT ![att] = result]
      BY ZenonT(30), <2>0, <2>5 DEF ToolFinishedFails, Append1Fails
    <3>2. exec[att] = "started" BY ZenonT(30), <1>2, <3>1 DEF JournalPoints
    <3>3. result = "ok" => \E r \in Requests : <<r, att>> \in core
      BY ZenonT(30), <1>1, <3>1 DEF WitnessInv, CallInv, Calling
    <3>4. JournalExact' BY ZenonT(30), <1>4, <1>5, <3>1, <3>2, <3>3 DEF Untold
    <3>5. JournalOpen' BY ZenonT(30), <3>1 DEF JournalOpen
    <3>6. JournalPoints' BY ZenonT(30), <3>1 DEF JournalPoints
    <3> QED BY ZenonT(30), <3>4, <3>5, <3>6 DEF JournalInv
  <2>6. ~CheckpointSplits BY ZenonT(30) DEF CheckpointSplits
  <2> QED BY ZenonT(30), <1>11, <2>1, <2>2, <2>3, <2>4, <2>5, <2>6 DEF DispatchFault
<1>12. CASE AfterError
  <2>1. CASE Rollback
    <3>1. /\ core' = core /\ exec' = exec /\ handle' = handle /\ marker' = marker /\ pc = "verdict"
          /\ ~(marker.req = cur /\ marker.state \in {"started", "succeeded"})
          /\ \/ pc' = "reconcile" /\ marker.state = "failed"
             \/ pc' = "idle"
      BY ZenonT(30), <2>1 DEF Rollback, Uncertain
    <3>2. JournalExact' BY ZenonT(30), <1>5, <3>1 DEF Untold
    <3>3. JournalOpen' BY ZenonT(30), <1>7, <3>1 DEF Calling, Running
    <3>4. JournalPoints' BY ZenonT(30), <3>1 DEF JournalPoints
    <3> QED BY ZenonT(30), <3>2, <3>3, <3>4 DEF JournalInv
  <2>2. CASE ReconcileFailed
    <3>1. /\ core' = core /\ pc = "reconcile" /\ pc' = "settle_failed"
          /\ Reconcilable /\ Reconcile
      BY ZenonT(30), <2>2 DEF ReconcileFailed
    <3>2. marker.state = "failed" BY ZenonT(30), <1>2, <3>1 DEF JournalPoints
    <3>3. exec' = [exec EXCEPT ![marker.att] = "failed"] /\ exec[marker.att] # "ok" /\ handle = "open"
      BY ZenonT(30), <3>1, <3>2 DEF Reconcilable, Reconcile, Outcome1
    <3>4. JournalExact' BY ZenonT(30), <1>4, <3>1, <3>3 DEF Untold
    <3>5. \A a \in Attempts : exec'[a] = "started" => exec[a] = "started" BY ZenonT(30), <1>3, <3>3
    <3>6. JournalOpen' BY ZenonT(30), <1>2, <3>1, <3>3, <3>5 DEF JournalOpen, Calling
    <3>7. JournalPoints' BY ZenonT(30), <3>1 DEF JournalPoints
    <3> QED BY ZenonT(30), <3>4, <3>6, <3>7 DEF JournalInv
  <2>3. CASE SettleFailed
    <3>1. /\ core' = core /\ exec' = exec /\ handle' = handle /\ pc = "settle_failed" /\ pc' = "idle"
      BY ZenonT(30), <2>3 DEF SettleFailed
    <3>2. JournalExact' BY ZenonT(30), <1>5, <3>1 DEF Untold
    <3>3. JournalOpen' BY ZenonT(30), <1>7, <3>1 DEF Calling, Running
    <3>4. JournalPoints' BY ZenonT(30), <3>1 DEF JournalPoints
    <3> QED BY ZenonT(30), <3>2, <3>3, <3>4 DEF JournalInv
  <2>4. CASE VerdictPoisons \/ ReconcileFailedFails \/ SettleFailedFails
    <3>1. /\ core' = core /\ exec' = exec /\ pc' = "poisoned"
          /\ pc = "verdict" => marker' = marker
          /\ pc \in {"verdict", "reconcile", "settle_failed"}
      BY ZenonT(30), <2>4 DEF VerdictPoisons, ReconcileFailedFails, SettleFailedFails
    <3>2. JournalExact' BY ZenonT(30), <1>5, <3>1 DEF Untold
    <3>3. JournalOpen' BY ZenonT(30), <1>8, <3>1 DEF Calling
    <3>4. JournalPoints' BY ZenonT(30), <3>1 DEF JournalPoints
    <3> QED BY ZenonT(30), <3>2, <3>3, <3>4 DEF JournalInv
  <2> QED BY ZenonT(30), <1>12, <2>1, <2>2, <2>3, <2>4 DEF AfterError
<1>13. CASE AfterCall
  <2>1. /\ core' = core /\ exec' = exec /\ handle' = handle
        /\ pc \in {"persist", "prepare", "project", "clear", "settle"}
        /\ pc' \in {"idle", "poisoned", "prepare", "settle", "project", "clear"}
    BY ZenonT(30), <1>13 DEF AfterCall, PersistDeployment, PersistDeploymentFails, PrepareProjection,
       PrepareProjectionFails, Project, ProjectFails, ClearProjection, ClearProjectionFails,
       Settle, SettleFails
  <2>2. JournalExact' BY ZenonT(30), <1>5, <2>1 DEF Untold
  <2>3. JournalOpen' BY ZenonT(30), <1>7, <2>1 DEF Calling, Running
  <2>4. JournalPoints' BY ZenonT(30), <2>1 DEF JournalPoints
  <2> QED BY ZenonT(30), <2>2, <2>3, <2>4 DEF JournalInv
<1>14. CASE Recover
  <2>0. pc' \in {"refused", "boot_check", "boot_reconcile", "boot_settle", "boot_prepare",
                 "boot_mark", "idle"}
    BY ZenonT(30), <1>14 DEF Recover, Boot, BootReconcile, BootSettle, BootPrepare, BootMark, BootCheck
  <2>1. JournalPoints' BY ZenonT(30), <2>0 DEF JournalPoints
  <2>2. CASE Boot
    <3>1. /\ core' = core /\ exec' = exec /\ marker' = marker /\ pc = "down"
          /\ \/ pc' \in {"refused", "boot_reconcile"}
             \/ pc' = "boot_check" /\ marker.state \in {"none", "settled"}
      BY ZenonT(30), <2>2 DEF Boot
    <3>2. JournalExact' BY ZenonT(30), <1>5, <3>1 DEF Untold
    <3>3. JournalOpen' BY ZenonT(30), <1>8, <3>1 DEF Calling
    <3> QED BY ZenonT(30), <2>1, <3>2, <3>3 DEF JournalInv
  <2>3. CASE BootReconcile
    <3>1. core' = core /\ marker' = marker /\ pc = "boot_reconcile" BY ZenonT(30), <2>3 DEF BootReconcile
    <3>2. marker.state \in {"succeeded", "failed"} BY ZenonT(30), <1>1, <3>1 DEF WitnessInv
    <3>3. CASE Reconcilable
      <4>1. exec' = [exec EXCEPT ![marker.att] = Outcome1] /\ pc' \in {"boot_settle", "boot_mark"}
            /\ exec[marker.att] \in {"started", Outcome1}
        BY ZenonT(30), <2>3, <3>3 DEF BootReconcile, Reconcile, Reconcilable
      <4>2. CASE marker.state = "succeeded"
        <5>1. Outcome1 = "ok" BY ZenonT(30), <4>2 DEF Outcome1
        <5>2. \E r \in Requests : <<r, marker.att>> \in core BY ZenonT(30), <1>1, <4>2 DEF WitnessInv
        <5>3. JournalExact' BY ZenonT(30), <1>4, <3>1, <4>1, <5>1, <5>2 DEF Untold
        <5> QED BY ZenonT(30), <1>8, <2>1, <4>1, <5>3 DEF JournalInv, Calling
      <4>3. CASE marker.state = "failed"
        <5>1. Outcome1 = "failed" BY ZenonT(30), <4>3 DEF Outcome1
        <5>2. JournalExact' BY ZenonT(30), <1>4, <3>1, <4>1, <4>3, <5>1 DEF Untold
        <5> QED BY ZenonT(30), <1>8, <2>1, <4>1, <5>2 DEF JournalInv, Calling
      <4> QED BY ZenonT(30), <3>2, <4>2, <4>3
    <3>4. CASE ~Reconcilable
      <4>1. exec' = exec /\ pc' = "refused" BY ZenonT(30), <2>3, <3>4 DEF BootReconcile
      <4>2. JournalExact' BY ZenonT(30), <1>5, <3>1, <4>1 DEF Untold
      <4> QED BY ZenonT(30), <1>8, <2>1, <4>1, <4>2 DEF JournalInv, Calling
    <3> QED BY ZenonT(30), <3>3, <3>4
  <2>4. CASE BootSettle \/ BootPrepare \/ BootMark
    <3>1. /\ core' = core /\ exec' = exec
          /\ pc \in {"boot_settle", "boot_prepare", "boot_mark"} /\ pc' # "idle"
      BY ZenonT(30), <2>4 DEF BootSettle, BootPrepare, BootMark
    <3>2. JournalExact' BY ZenonT(30), <1>5, <3>1 DEF Untold
    <3>3. JournalOpen' BY ZenonT(30), <1>8, <2>0, <3>1 DEF Calling
    <3> QED BY ZenonT(30), <2>1, <3>2, <3>3 DEF JournalInv
  <2>5. CASE BootCheck
    <3>1. /\ core' = core /\ exec' = exec /\ pc = "boot_check"
          /\ \/ pc' = "refused"
             \/ pc' = "idle" /\ \A a \in Attempts : exec[a] # "started"
      BY ZenonT(30), <2>5 DEF BootCheck
    <3>2. JournalExact' BY ZenonT(30), <1>5, <3>1 DEF Untold
    <3>3. JournalOpen' BY ZenonT(30), <3>1 DEF JournalOpen, Calling
    <3> QED BY ZenonT(30), <2>1, <3>2, <3>3 DEF JournalInv
  <2> QED BY ZenonT(30), <1>14, <2>2, <2>3, <2>4, <2>5 DEF Recover
<1>15. CASE Crash
  <2>1. core' = core /\ exec' = exec /\ marker' = marker /\ pc' = "down" BY ZenonT(30), <1>15 DEF Crash
  <2>2. JournalExact' BY ZenonT(30), <1>5, <2>1 DEF Untold
  <2>3. JournalOpen' /\ JournalPoints' BY ZenonT(30), <1>8, <2>1 DEF Calling, JournalPoints
  <2> QED BY ZenonT(30), <2>2, <2>3 DEF JournalInv
<1>16. CASE UNCHANGED vars
  <2>1. /\ core' = core /\ exec' = exec /\ marker' = marker /\ pc' = pc /\ att' = att
        /\ cur' = cur /\ handle' = handle
    BY ZenonT(30), <1>16 DEF vars
  <2>2. JournalPoints' BY ZenonT(30), <1>2, <2>1 DEF JournalPoints, Mark
  <2>3. JournalExact' BY ZenonT(30), <1>5, <2>1 DEF Untold
  <2>4. JournalOpen' BY ZenonT(30), <1>2, <2>1 DEF JournalOpen, Calling
  <2> QED BY ZenonT(30), <2>2, <2>3, <2>4 DEF JournalInv
<1> QED BY ZenonT(30), <1>9, <1>10, <1>11, <1>12, <1>13, <1>14, <1>15, <1>16 DEF Next

-----------------------------------------------------------------------------
(* What a start relies on *)

\* The marker is replaced where a call is armed or its outcome known, and
\* settled; at no other point is it written.
LEMMA MarkerStep ==
    ASSUME [Next]_vars
    PROVE  \/ marker' = marker
           \/ marker' = Settled
           \/ pc = "arm" /\ marker' = Mark("started")
           \/ pc = "succeed" /\ marker' = Mark("succeeded")
           \/ pc = "fail" /\ marker' = Mark("failed")
<1> USE DEF Goto, durable, memory, call, bounds
<1>1. ASSUME NEW r \in Requests, Serve(r) PROVE marker' = marker
  BY ZenonT(30), <1>1
     DEF Serve, CorrelationFails, ProjectionBlocks, RetryProjection, Replay, Refuse, Admit
<1>2. CASE Dispatch
  BY ZenonT(30), <1>2 DEF Dispatch, ToolRequested, ToolStarted, MarkStarted, CoreSucceeds,
     CoreFails, MarkSucceeded, MarkFailed, ToolFinished, DirectFailed
<1>3. CASE DispatchFault
  BY ZenonT(30), <1>3 DEF DispatchFault, ToolRequestedFails, ToolStartedFails, MarkStartedFails,
     CheckpointSplits, PublicationUncertain, MarkSucceededFails, MarkFailedFails, ToolFinishedFails
<1>4. CASE AfterError
  BY ZenonT(30), <1>4 DEF AfterError, VerdictPoisons, Rollback, ReconcileFailed, ReconcileFailedFails,
     SettleFailed, SettleFailedFails
<1>5. CASE AfterCall
  BY ZenonT(30), <1>5 DEF AfterCall, PersistDeployment, PersistDeploymentFails, PrepareProjection,
     PrepareProjectionFails, Project, ProjectFails, ClearProjection, ClearProjectionFails,
     Settle, SettleFails
<1>6. CASE Recover
  BY ZenonT(30), <1>6 DEF Recover, Boot, BootReconcile, BootSettle, BootPrepare, BootMark, BootCheck
<1>7. CASE Crash BY ZenonT(30), <1>7 DEF Crash
<1>8. CASE UNCHANGED vars BY ZenonT(30), <1>8 DEF vars
<1> QED BY ZenonT(30), <1>1, <1>2, <1>3, <1>4, <1>5, <1>6, <1>7, <1>8 DEF Next

\* The receipt is written for the call in flight or the effect recovered.
LEMMA ReceiptStep ==
    ASSUME [Next]_vars
    PROVE  \/ receipt' \in {receipt, NoRequest}
           \/ pc = "prepare" /\ receipt' = cur
           \/ pc = "boot_prepare" /\ receipt' = marker.req
<1> USE DEF Goto, durable, memory, call, bounds
<1>1. ASSUME NEW r \in Requests, Serve(r) PROVE receipt' = receipt
  BY ZenonT(30), <1>1
     DEF Serve, CorrelationFails, ProjectionBlocks, RetryProjection, Replay, Refuse, Admit
<1>2. CASE Dispatch
  BY ZenonT(30), <1>2 DEF Dispatch, ToolRequested, ToolStarted, MarkStarted, CoreSucceeds,
     CoreFails, MarkSucceeded, MarkFailed, ToolFinished, DirectFailed
<1>3. CASE DispatchFault
  BY ZenonT(30), <1>3 DEF DispatchFault, ToolRequestedFails, ToolStartedFails, MarkStartedFails,
     CheckpointSplits, PublicationUncertain, MarkSucceededFails, MarkFailedFails, ToolFinishedFails
<1>4. CASE AfterError
  BY ZenonT(30), <1>4 DEF AfterError, VerdictPoisons, Rollback, ReconcileFailed, ReconcileFailedFails,
     SettleFailed, SettleFailedFails
<1>5. CASE AfterCall
  BY ZenonT(30), <1>5 DEF AfterCall, PersistDeployment, PersistDeploymentFails, PrepareProjection,
     PrepareProjectionFails, Project, ProjectFails, ClearProjection, ClearProjectionFails,
     Settle, SettleFails
<1>6. CASE Recover
  BY ZenonT(30), <1>6 DEF Recover, Boot, BootReconcile, BootSettle, BootPrepare, BootMark, BootCheck
<1>7. CASE Crash BY ZenonT(30), <1>7 DEF Crash
<1>8. CASE UNCHANGED vars BY ZenonT(30), <1>8 DEF vars
<1> QED BY ZenonT(30), <1>1, <1>2, <1>3, <1>4, <1>5, <1>6, <1>7, <1>8 DEF Next

\* No effect comes after the one the marker tells of.
LEMMA LatestStep ==
    ASSUME ServedInv, AnswerInv, JournalInv, Latest, [Next]_vars
    PROVE  Latest'
<1>1. TypeOK /\ CallInv BY ZenonT(30) DEF ServedInv
<1>2. CASE core' # core
  <2>1. pc = "core" /\ core' = core \cup {<<cur, att>>} BY ZenonT(30), <1>2, CoreGrows
  <2>2. marker.att = att BY <2>1 DEF JournalInv, JournalPoints, Mark
  <2>3. marker'.att = marker.att BY ZenonT(30), <1>1, <2>1, MarkerStep DEF Settled, TypeOK
  <2> QED BY <1>1, <2>1, <2>2, <2>3 DEF Latest, TypeOK, Attempts
<1>3. CASE core' = core
  <2>1. CASE marker'.att = marker.att BY ZenonT(30), <1>3, <2>1 DEF Latest
  <2>2. CASE marker'.att = att
    <3>1. \A r \in Requests : \A a \in Attempts : <<r, a>> \in core => ~(a > att)
      BY ZenonT(30) DEF AnswerInv, Fresh
    <3> QED BY <1>1, <1>3, <2>2, <3>1 DEF Latest, TypeOK, Attempts
  <2>3. marker'.att \in {marker.att, att} BY <1>1, MarkerStep DEF Settled, Mark, TypeOK
  <2> QED BY ZenonT(30), <2>1, <2>2, <2>3
<1> QED BY ZenonT(30), <1>2, <1>3

\* A success the marker tells of stays recoverable.
LEMMA RecoverableStep ==
    ASSUME ServedInv, ProjectionInv, Recoverable, [Next]_vars
    PROVE  Recoverable'
<1>1. TypeOK /\ CallInv /\ LedgerInv /\ WitnessInv BY ZenonT(30) DEF ServedInv
<1>2. \A r : Forwarded(r, billed) => Forwarded(r, billed') BY ZenonT(30), <1>1, ForwardedStays
<1>3. ASSUME marker'.state = "succeeded" PROVE marker' = marker \/ (pc = "succeed" /\ marker' = Mark("succeeded"))
  BY <1>1, <1>3, MarkerStep DEF Settled, Mark, TypeOK
<1>4. ASSUME marker'.state = "succeeded", marker'.req \in Ingests PROVE receipt' \in {NoRequest, marker'.req}
  <2>1. CASE marker' = marker
    BY ZenonT(30), <1>4, <2>1, ReceiptStep DEF Recoverable, ProjectionInv
  <2>2. CASE pc = "succeed" /\ marker' = Mark("succeeded")
    <3>1. receipt' \in {receipt, NoRequest} BY ZenonT(30), <2>2, ReceiptStep
    <3>2. pending = NoRequest BY ZenonT(30), <1>4, <2>2 DEF Mark, ProjectionInv, Reserved
    <3>3. receipt \in {NoRequest, pending} BY ZenonT(30), <2>2 DEF ProjectionInv
    <3> QED BY ZenonT(30), <3>1, <3>2, <3>3
  <2> QED BY ZenonT(30), <1>3, <1>4, <2>1, <2>2
<1>5. ASSUME marker'.state = "succeeded", ~Forwarded(marker'.req, billed') PROVE Len(billed') < Limit
  <2>1. billed \in Seq(Requests) BY ZenonT(30), <1>1 DEF TypeOK
  <2>2. CASE billed' = billed
    <3>1. CASE marker' = marker BY ZenonT(30), <1>5, <2>2, <3>1 DEF Recoverable
    <3>2. CASE pc = "succeed" BY ZenonT(30), <1>1, <2>2, <3>2 DEF LedgerInv, Reserved
    <3> QED BY ZenonT(30), <1>3, <1>5, <3>1, <3>2
  <2>3. CASE pc = "persist" /\ result = "ok" /\ billed' = Append(billed, cur) /\ cur \in Requests
    <3>1. marker' = marker /\ marker.req = cur BY ZenonT(30), <1>3, <1>5, <2>3 DEF ProjectionInv
    <3> QED BY ZenonT(30), <1>5, <2>1, <2>3, <3>1, ForwardedAppend
  <2>4. CASE pc = "boot_settle" /\ billed' = Append(billed, marker.req) /\ marker.req \in Requests
    <3>1. marker' = marker BY ZenonT(30), <1>3, <1>5, <2>4
    <3> QED BY ZenonT(30), <1>5, <2>1, <2>4, <3>1, ForwardedAppend
  <2> QED BY ZenonT(30), <1>1, <2>2, <2>3, <2>4, BilledGrows
<1> DEFINE Mid == {"boot_reconcile", "boot_settle", "boot_prepare"}
           At == /\ pc' \in Mid => handle' = "open" /\ pending' = receipt'
                 /\ pc' = "boot_prepare" => marker'.state = "succeeded" /\ marker'.req \in Ingests
<1>6. At
  <2> USE DEF Goto, durable, memory, call, bounds
  <2>1. CASE Recover
    <3>1. CASE Boot
      <4>1. handle' = "open" /\ pending' = receipt' /\ pc' # "boot_prepare" BY ZenonT(30), <3>1 DEF Boot
      <4> QED BY ZenonT(30), <4>1
    <3>2. CASE BootReconcile
      <4>1. /\ pc \in Mid /\ handle' = handle /\ pending' = pending /\ receipt' = receipt
            /\ pc' # "boot_prepare"
        BY ZenonT(30), <3>2 DEF BootReconcile
      <4> QED BY ZenonT(30), <4>1 DEF Recoverable
    <3>3. CASE BootSettle
      <4>1. /\ pc = "boot_settle" /\ handle' = handle /\ pending' = pending /\ receipt' = receipt
            /\ marker' = marker /\ (pc' = "boot_prepare" => marker.req \in Ingests)
        BY ZenonT(30), <3>3 DEF BootSettle
      <4>2. marker.state = "succeeded" BY ZenonT(30), <1>1, <4>1 DEF WitnessInv
      <4> QED BY ZenonT(30), <4>1, <4>2 DEF Recoverable
    <3>4. CASE BootPrepare \/ BootMark \/ BootCheck
      <4>1. pc' \in {"boot_mark", "refused", "boot_check", "idle"}
        BY ZenonT(30), <3>4 DEF BootPrepare, BootMark, BootCheck
      <4> QED BY ZenonT(30), <4>1
    <3> QED BY ZenonT(30), <2>1, <3>1, <3>2, <3>3, <3>4 DEF Recover
  <2>2. ASSUME pc' \notin Mid PROVE At BY ZenonT(30), <2>2
  <2>3. ASSUME NEW r \in Requests, Serve(r) PROVE pc' \notin Mid
    BY ZenonT(30), <2>3
       DEF Serve, CorrelationFails, ProjectionBlocks, RetryProjection, Replay, Refuse, Admit
  <2>4. CASE Dispatch
    <3>1. pc' \notin Mid
      BY ZenonT(30), <2>4 DEF Dispatch, Append1, ToolRequested, ToolStarted, MarkStarted, CoreSucceeds,
         CoreFails, MarkSucceeded, MarkFailed, ToolFinished, DirectFailed
    <3> QED BY ZenonT(30), <2>2, <3>1
  <2>5. CASE DispatchFault
    <3>1. pc' \notin Mid
      BY ZenonT(30), <2>5 DEF DispatchFault, Append1Fails, OnError, ToolRequestedFails, ToolStartedFails,
         MarkStartedFails, CheckpointSplits, PublicationUncertain, MarkSucceededFails,
         MarkFailedFails, ToolFinishedFails
    <3> QED BY ZenonT(30), <2>2, <3>1
  <2>6. CASE AfterError
    <3>1. pc' \notin Mid
      BY ZenonT(30), <2>6
         DEF AfterError, VerdictPoisons, Rollback, ReconcileFailed, ReconcileFailedFails,
         SettleFailed, SettleFailedFails
    <3> QED BY ZenonT(30), <2>2, <3>1
  <2>7. CASE AfterCall
    <3>1. pc' \notin Mid
      BY ZenonT(30), <2>7 DEF AfterCall, PersistDeployment, PersistDeploymentFails, PrepareProjection,
         PrepareProjectionFails, Project, ProjectFails, ClearProjection, ClearProjectionFails,
         Settle, SettleFails
    <3> QED BY ZenonT(30), <2>2, <3>1
  <2>8. CASE Crash
    <3>1. pc' = "down" BY ZenonT(30), <2>8 DEF Crash
    <3> QED BY ZenonT(30), <3>1
  <2>9. CASE UNCHANGED vars
    <3>1. pc' = pc /\ handle' = handle /\ pending' = pending /\ receipt' = receipt /\ marker' = marker
      BY ZenonT(30), <2>9 DEF vars
    <3> QED BY ZenonT(30), <3>1 DEF Recoverable
  <2> QED BY ZenonT(30), <2>1, <2>2, <2>3, <2>4, <2>5, <2>6, <2>7, <2>8, <2>9 DEF Next
<1> QED BY ZenonT(30), <1>4, <1>5, <1>6 DEF Recoverable

-----------------------------------------------------------------------------
(* Runs without I/O errors *)

\* An I/O error is counted and never forgotten.
LEMMA FaultStep ==
    ASSUME [Next]_vars
    PROVE  faults' = faults \/ Faulty
<1> USE DEF durable, memory, call, bounds
<1>1. ASSUME NEW r \in Requests, Serve(r) PROVE faults' = faults \/ Faulty
  BY ZenonT(30), <1>1
     DEF Serve, CorrelationFails, ProjectionBlocks, RetryProjection, Replay, Refuse, Admit
<1>2. CASE Dispatch
  BY ZenonT(30), <1>2 DEF Dispatch, ToolRequested, ToolStarted, MarkStarted, CoreSucceeds,
     CoreFails, MarkSucceeded, MarkFailed, ToolFinished, DirectFailed
<1>3. CASE DispatchFault
  BY ZenonT(30), <1>3
     DEF DispatchFault, Append1Fails, ToolRequestedFails, ToolStartedFails, MarkStartedFails,
     CheckpointSplits, PublicationUncertain, MarkSucceededFails, MarkFailedFails, ToolFinishedFails
<1>4. CASE AfterError
  BY ZenonT(30), <1>4 DEF AfterError, VerdictPoisons, Rollback, ReconcileFailed, ReconcileFailedFails,
     SettleFailed, SettleFailedFails
<1>5. CASE AfterCall
  BY ZenonT(30), <1>5 DEF AfterCall, PersistDeployment, PersistDeploymentFails, PrepareProjection,
     PrepareProjectionFails, Project, ProjectFails, ClearProjection, ClearProjectionFails,
     Settle, SettleFails
<1>6. CASE Recover
  BY ZenonT(30), <1>6 DEF Recover, Boot, BootReconcile, BootSettle, BootPrepare, BootMark, BootCheck
<1>7. CASE Crash BY ZenonT(30), <1>7 DEF Crash
<1>8. CASE UNCHANGED vars BY ZenonT(30), <1>8 DEF vars
<1> QED BY ZenonT(30), <1>1, <1>2, <1>3, <1>4, <1>5, <1>6, <1>7, <1>8 DEF Next

\* Without I/O errors no step lets the journal and the marker disagree.
LEMMA QuietStep ==
    ASSUME ServedInv, ProjectionInv, JournalInv, faults = 0 => Quiet, [Next]_vars, faults' = 0
    PROVE  Quiet'
<1>1. TypeOK /\ CallInv /\ LedgerInv /\ WitnessInv BY ZenonT(30) DEF ServedInv
<1>2. ~Faulty BY <1>1, ConstantsAssumption DEF Faulty, TypeOK
<1>3. Quiet BY ZenonT(30), <1>2, FaultStep
<1>4. JournalPoints /\ JournalOpen BY ZenonT(30) DEF JournalInv
<1>5. exec \in [Attempts -> Dispositions] /\ reply \in [Attempts -> [req : MaybeRequest, answer : Results]]
  BY ZenonT(30), <1>1 DEF TypeOK
<1> USE DEF Goto, durable, memory, call, bounds
\* An answer is given for an attempt the journal does not hold as started.
<1>6. ASSUME exec' = exec, Calling, pc \notin {"arm", "core", "succeed", "fail", "finish"},
             NEW x, Answer(x)
      PROVE  \A a \in Attempts : exec'[a] = "started" => reply'[a] = NoReply
  <2> SUFFICES ASSUME NEW a \in Attempts, exec[a] = "started" PROVE reply'[a] = NoReply
    BY ZenonT(30), <1>6
  <2>1. a # att BY ZenonT(30), <1>3, <1>4, <1>6 DEF Quiet, JournalOpen
  <2> QED BY ZenonT(30), <1>3, <1>5, <1>6, <2>1 DEF Answer, Quiet
<1>7. ASSUME NEW r \in Requests, Serve(r) PROVE Quiet'
  <2>1. /\ exec' = exec /\ reply' = reply /\ marker' = marker /\ handle' = handle /\ pc = "idle"
        /\ pc' \in {"idle", "project", "persist", "request"}
        /\ result' \in {result, "retry", "replayed", "refused", "none"}
    BY ZenonT(30), <1>2, <1>7
       DEF Serve, Arrive, Admissible, CorrelationFails, ProjectionBlocks, RetryProjection,
       Replay, Refuse, Admit
  <2> QED BY ZenonT(30), <1>3, <2>1 DEF Quiet
<1>8. CASE Dispatch
  <2>0. ASSUME Calling, NEW d, exec' = [exec EXCEPT ![att] = d]
        PROVE  /\ exec'[att] = d /\ att \in Attempts /\ reply[att] = NoReply
               /\ \A a \in Attempts : a # att => exec'[a] = exec[a]
    BY ZenonT(30), <1>1, <1>5, <2>0 DEF CallInv
  <2>1. CASE ToolRequested \/ ToolStarted
    <3>1. /\ reply' = reply /\ marker' = marker /\ handle' = handle /\ result' = result
          /\ \/ pc = "request" /\ pc' = "start" /\ exec' = [exec EXCEPT ![att] = "requested"]
             \/ pc = "start" /\ pc' = "arm" /\ exec' = [exec EXCEPT ![att] = "started"]
      BY ZenonT(30), <2>1 DEF ToolRequested, ToolStarted, Append1
    <3>2. exec[att] \in {"absent", "requested"} BY ZenonT(30), <1>4, <3>1 DEF JournalPoints
    <3>3. marker.state \in {"started", "succeeded", "failed"} => marker.att # att
      BY ZenonT(30), <1>3, <3>1, <3>2 DEF Quiet

    <3>4. /\ att \in Attempts /\ reply[att] = NoReply /\ \A a \in Attempts : a # att => exec'[a] = exec[a]
      BY ZenonT(30), <2>0, <3>1 DEF Calling
    <3>5. \A a \in Attempts : exec'[a] = "started" => reply'[a] = NoReply
      BY ZenonT(30), <1>3, <3>1, <3>4 DEF Quiet
    <3> QED BY ZenonT(30), <1>3, <3>1, <3>3, <3>4, <3>5 DEF Quiet
  <2>2. CASE MarkStarted
    <3>1. /\ reply' = reply /\ exec' = exec /\ handle' = handle /\ result' = result
          /\ pc = "arm" /\ pc' = "core" /\ marker'.state = "started" /\ marker'.att = att
      BY ZenonT(30), <2>2 DEF MarkStarted, Mark
    <3>2. exec[att] = "started" /\ att \in Attempts /\ reply[att] = NoReply
      BY ZenonT(30), <1>1, <1>4, <3>1 DEF JournalPoints, CallInv, Calling
    <3> QED BY ZenonT(30), <1>3, <3>1, <3>2 DEF Quiet
  <2>3. CASE CoreSucceeds \/ CoreFails
    <3>1. /\ reply' = reply /\ exec' = exec /\ handle' = handle /\ result' = result /\ marker' = marker
          /\ pc' \in {"succeed", "fail"}
      BY ZenonT(30), <2>3 DEF CoreSucceeds, CoreFails
    <3> QED BY ZenonT(30), <1>3, <3>1 DEF Quiet
  <2>4. CASE MarkSucceeded \/ MarkFailed
    <3>1. /\ reply' = reply /\ exec' = exec /\ handle' = handle /\ pc \in {"succeed", "fail"}
          /\ att' = att /\ cur' = cur /\ pc' = "finish"
          /\ \/ marker' = Mark("succeeded") /\ result' = "ok"
             \/ marker' = Mark("failed") /\ result' = "failed"
      BY ZenonT(30), <2>4 DEF MarkSucceeded, MarkFailed
    <3>2. exec[att] = "started" /\ att \in Attempts
      BY ZenonT(30), <1>1, <1>4, <3>1 DEF JournalPoints, CallInv, Calling
    <3>3. /\ marker'.att = att /\ marker'.state \in {"succeeded", "failed"}
          /\ result' = "failed" => marker' = Mark("failed")'
      BY <3>1 DEF Mark
    <3> QED BY ZenonT(30), <1>3, <3>1, <3>2, <3>3 DEF Quiet
  <2>5. CASE ToolFinished \/ DirectFailed
    <3>1. /\ reply' = reply /\ exec' = [exec EXCEPT ![att] = result] /\ handle' = handle
          /\ pc = "finish" /\ marker' = marker /\ result' = result
          /\ pc' \in {"persist", "verdict", "settle_failed"} /\ (pc' = "verdict" => result # "ok")
      BY ZenonT(30), <2>5 DEF ToolFinished, DirectFailed, Append1
    <3>2. \/ result = "ok" /\ marker.state = "succeeded"
          \/ result = "failed" /\ marker.state = "failed"
      <4>1. result \in {"ok", "failed"} /\ (result = "failed" => marker = Mark("failed"))
        BY ZenonT(30), <1>3, <3>1 DEF Quiet
      <4>2. Mark("failed").state = "failed"
        BY ZenonT(30) DEF Mark
      <4>3. result = "ok" => marker.state = "succeeded"
        BY ZenonT(30), <1>3, <3>1 DEF ProjectionInv
      <4> QED BY ZenonT(30), <4>1, <4>2, <4>3
    <3>3. /\ exec'[att] = result /\ att \in Attempts
          /\ \A a \in Attempts : a # att => exec'[a] = exec[a]
      BY ZenonT(30), <2>0, <3>1 DEF Calling
    <3>4. \A a \in Attempts : exec'[a] = "started" => exec[a] = "started"
      BY ZenonT(30), <3>2, <3>3
    <3>5. \A a \in Attempts : exec'[a] = exec[a] \/ exec'[a] = result BY ZenonT(30), <3>3
    <3> QED BY ZenonT(30), <1>3, <3>1, <3>2, <3>4, <3>5 DEF Quiet
  <2> QED BY ZenonT(30), <1>8, <2>1, <2>2, <2>3, <2>4, <2>5 DEF Dispatch
<1>9. ~DispatchFault
  BY ZenonT(30), <1>2, <1>3 DEF DispatchFault, ToolRequestedFails, ToolStartedFails, Append1Fails,
     MarkStartedFails, CheckpointSplits, PublicationUncertain, MarkSucceededFails,
     MarkFailedFails, ToolFinishedFails, Quiet
<1>10. CASE AfterError
  <2>1. ~VerdictPoisons BY ZenonT(30), <1>2, <1>3 DEF VerdictPoisons, Uncertain, Quiet
  <2>2. ~SettleFailedFails BY ZenonT(30), <1>2 DEF SettleFailedFails
  <2>3. ~ReconcileFailedFails
    <3>1. SUFFICES ASSUME ReconcileFailedFails PROVE FALSE OBVIOUS
    <3>2. marker.state = "failed" /\ ~Reconcilable
      BY ZenonT(30), <1>4, <3>1 DEF ReconcileFailedFails, JournalPoints
    <3> QED BY ZenonT(30), <1>3, <3>2 DEF Quiet, Reconcilable, Outcome1
  <2>4. CASE Rollback
    <3>1. /\ exec' = exec /\ marker' = marker /\ handle' = handle /\ result' = result /\ pc = "verdict"
          /\ pc' \in {"reconcile", "idle"} /\ (reply' = reply \/ Answer("failed"))
      BY ZenonT(30), <2>4 DEF Rollback
    <3>2. \A a \in Attempts : exec'[a] = "started" => reply'[a] = NoReply
      BY ZenonT(30), <1>3, <1>6, <3>1 DEF Calling, Quiet
    <3> QED BY ZenonT(30), <1>3, <3>1, <3>2 DEF Quiet
  <2>5. CASE ReconcileFailed
    <3>1. /\ reply' = reply /\ marker' = marker /\ handle' = handle /\ result' = result
          /\ pc = "reconcile" /\ pc' = "settle_failed" /\ exec' = [exec EXCEPT ![marker.att] = Outcome1]
      BY ZenonT(30), <2>5 DEF ReconcileFailed, Reconcile
    <3>2. marker.state = "failed" /\ Outcome1 = "failed"
      BY ZenonT(30), <1>4, <3>1 DEF JournalPoints, Outcome1
    <3>3. \A a \in Attempts : exec'[a] = exec[a] \/ exec'[a] = "failed" BY ZenonT(30), <1>5, <3>1, <3>2
    <3> QED BY ZenonT(30), <1>3, <3>1, <3>2, <3>3 DEF Quiet
  <2>6. CASE SettleFailed
    <3>1. /\ exec' = exec /\ handle' = handle /\ result' = result /\ pc = "settle_failed"
          /\ pc' = "idle" /\ Answer("failed") /\ marker' = Settled
      BY ZenonT(30), <2>6 DEF SettleFailed
    <3>2. \A a \in Attempts : exec'[a] = "started" => reply'[a] = NoReply
      BY ZenonT(30), <1>6, <3>1 DEF Calling
    <3>3. marker'.state = "settled" BY ZenonT(30), <1>1, <3>1 DEF Settled, TypeOK
    <3> QED BY ZenonT(30), <1>3, <3>1, <3>2, <3>3 DEF Quiet
  <2> QED BY ZenonT(30), <1>10, <2>1, <2>2, <2>3, <2>4, <2>5, <2>6 DEF AfterError
<1>11. CASE AfterCall
  <2>1. /\ exec' = exec /\ handle' = handle /\ result' = result
        /\ pc \in {"persist", "prepare", "project", "clear", "settle"}
        /\ pc' \in {"idle", "prepare", "settle", "project", "clear"}
        /\ reply' = reply \/ \E x : Answer(x)
        /\ marker' \in {marker, Settled}
    BY ZenonT(30), <1>2, <1>11
       DEF AfterCall, PersistDeployment, PersistDeploymentFails, PrepareProjection,
       PrepareProjectionFails, Project, ProjectFails, ClearProjection, ClearProjectionFails,
       Settle, SettleFails
  <2>2. \A a \in Attempts : exec'[a] = "started" => reply'[a] = NoReply
    BY ZenonT(30), <1>3, <1>6, <2>1 DEF Calling, Quiet
  <2>3. marker' = marker \/ marker'.state = "settled" BY ZenonT(30), <1>1, <2>1 DEF Settled, TypeOK
  <2> QED BY ZenonT(30), <1>3, <2>1, <2>2, <2>3 DEF Quiet
<1>12. CASE Recover
  <2>1. CASE BootReconcile
    <3>1. /\ reply' = reply /\ marker' = marker /\ handle' = handle /\ result' = result
          /\ pc = "boot_reconcile" /\ pc' \in {"boot_settle", "boot_mark", "refused"}
          /\ exec' = exec \/ exec' = [exec EXCEPT ![marker.att] = Outcome1]
      BY ZenonT(30), <2>1 DEF BootReconcile, Reconcile
    <3>2. \/ marker.state = "succeeded" /\ Outcome1 = "ok"
          \/ marker.state = "failed" /\ Outcome1 = "failed"
      BY ZenonT(30), <1>1, <3>1 DEF WitnessInv, Outcome1
    <3>3. \A a \in Attempts : exec'[a] = exec[a] \/ exec'[a] = Outcome1 BY ZenonT(30), <1>5, <3>1
    <3> QED BY ZenonT(30), <1>3, <3>1, <3>2, <3>3 DEF Quiet
  <2>2. CASE Boot \/ BootSettle \/ BootPrepare \/ BootMark \/ BootCheck
    <3>1. /\ reply' = reply /\ exec' = exec /\ handle' \in {handle, "open"} /\ result' = result
          /\ pc' \notin {"finish", "verdict", "poisoned"}
          /\ marker' = marker \/ marker' = Settled
          /\ \/ pc = "down" /\ pc' = "refused"
             \/ pc = "down" /\ marker'.state # "started"
             \/ pc \in {"boot_settle", "boot_prepare", "boot_mark", "boot_check"}
      BY ZenonT(30), <2>2 DEF Boot, BootSettle, BootPrepare, BootMark, BootCheck
    <3>2. marker' = marker \/ marker'.state = "settled" BY ZenonT(30), <1>1, <3>1 DEF Settled, TypeOK
    <3> QED BY ZenonT(30), <1>3, <3>1, <3>2 DEF Quiet
  <2> QED BY ZenonT(30), <1>12, <2>1, <2>2 DEF Recover
<1>13. CASE Crash
  <2>1. /\ reply' = reply /\ exec' = exec /\ marker' = marker /\ handle' = "open" /\ result' = "none"
        /\ pc' = "down"
    BY ZenonT(30), <1>13 DEF Crash
  <2> QED BY ZenonT(30), <1>3, <2>1 DEF Quiet
<1>14. CASE UNCHANGED vars
  <2>1. /\ reply' = reply /\ exec' = exec /\ marker' = marker /\ handle' = handle /\ result' = result
        /\ pc' = pc /\ cur' = cur /\ att' = att
    BY ZenonT(30), <1>14 DEF vars
  <2> QED BY ZenonT(30), <1>3, <2>1 DEF Quiet, Mark
<1> QED BY ZenonT(30), <1>7, <1>8, <1>9, <1>10, <1>11, <1>12, <1>13, <1>14 DEF Next

\* A start is refused at these places of Server::new and nowhere else.
LEMMA RefusedOnlyAtStart ==
    ASSUME [Next]_vars, pc' = "refused"
    PROVE  Recover \/ UNCHANGED vars
<1> USE DEF Goto, durable, memory, call, bounds
<1>1. ASSUME NEW r \in Requests, Serve(r) PROVE pc' # "refused"
  BY ZenonT(30), <1>1
     DEF Serve, CorrelationFails, ProjectionBlocks, RetryProjection, Replay, Refuse, Admit
<1>2. ASSUME Dispatch PROVE pc' # "refused"
  BY ZenonT(30), <1>2 DEF Dispatch, Append1, ToolRequested, ToolStarted, MarkStarted, CoreSucceeds,
     CoreFails, MarkSucceeded, MarkFailed, ToolFinished, DirectFailed
<1>3. ASSUME DispatchFault PROVE pc' # "refused"
  BY ZenonT(30), <1>3 DEF DispatchFault, Append1Fails, OnError, ToolRequestedFails, ToolStartedFails,
     MarkStartedFails, CheckpointSplits, PublicationUncertain, MarkSucceededFails,
     MarkFailedFails, ToolFinishedFails
<1>4. ASSUME AfterError PROVE pc' # "refused"
  BY ZenonT(30), <1>4 DEF AfterError, VerdictPoisons, Rollback, ReconcileFailed, ReconcileFailedFails,
     SettleFailed, SettleFailedFails
<1>5. ASSUME AfterCall PROVE pc' # "refused"
  BY ZenonT(30), <1>5 DEF AfterCall, PersistDeployment, PersistDeploymentFails, PrepareProjection,
     PrepareProjectionFails, Project, ProjectFails, ClearProjection, ClearProjectionFails,
     Settle, SettleFails
<1>6. ASSUME Crash PROVE pc' # "refused" BY ZenonT(30), <1>6 DEF Crash
<1> QED BY ZenonT(30), <1>1, <1>2, <1>3, <1>4, <1>5, <1>6 DEF Next

\* Without I/O errors each of them has an attempt of unknown outcome to show.
LEMMA RefusalStep ==
    ASSUME Audits = {}, ServedInv, ProjectionInv, Latest, Recoverable, faults = 0 => Quiet,
           RefusalExplained, [Next]_vars
    PROVE  RefusalExplained'
<1> SUFFICES ASSUME pc' = "refused", faults' = 0
             PROVE  \E a \in Attempts : exec'[a] = "started" /\ reply'[a] = NoReply
  BY ZenonT(30) DEF RefusalExplained, Attempts
<1>1. TypeOK /\ LedgerInv /\ WitnessInv BY ZenonT(30) DEF ServedInv
<1>2. faults = 0 BY <1>1, FaultStep, ConstantsAssumption DEF Faulty, TypeOK
<1>3. Quiet BY ZenonT(30), <1>2
<1> USE DEF Goto, durable, memory, call, bounds
<1>4. CASE UNCHANGED vars
  <2>1. pc' = pc /\ exec' = exec /\ reply' = reply BY ZenonT(30), <1>4 DEF vars
  <2> QED BY ZenonT(30), <1>2, <2>1 DEF RefusalExplained
<1>5. CASE Boot
  <2>1. exec' = exec /\ reply' = reply BY ZenonT(30), <1>5 DEF Boot
  <2>2. ~Foreign BY ZenonT(30) DEF Foreign
  <2>3. ReceiptMatches
    <3> SUFFICES ASSUME NEW r \in Direct, NEW a \in Attempts, <<r, a>> \in core PROVE a <= marker.att
      BY ZenonT(30) DEF ReceiptMatches
    <3>1. r \in Requests BY ZenonT(30), DirectAssumption
    <3> QED BY ZenonT(30), <3>1 DEF Latest
  <2>4. marker.state = "started"
    <3>1. CASE marker.state \in {"none", "settled"} BY ZenonT(30), <1>5, <2>2, <3>1 DEF Boot
    <3>2. CASE marker.state \in {"succeeded", "failed"} BY ZenonT(30), <1>5, <2>2, <2>3, <3>2 DEF Boot
    <3> QED BY ZenonT(30), <1>1, <3>1, <3>2 DEF TypeOK, States
  <2> QED BY ZenonT(30), <1>3, <2>1, <2>4 DEF Quiet
<1>6. ASSUME BootReconcile PROVE FALSE
  <2>1. pc = "boot_reconcile" /\ ~Reconcilable BY ZenonT(30), <1>6 DEF BootReconcile
  <2>2. marker.state \in {"succeeded", "failed"} /\ handle = "open"
    BY ZenonT(30), <1>1, <2>1 DEF WitnessInv, Recoverable
  <2> QED BY ZenonT(30), <1>3, <2>1, <2>2 DEF Quiet, Reconcilable, Outcome1
<1>7. ASSUME BootSettle PROVE FALSE
  <2>1. pc = "boot_settle" /\ ~Forwarded(marker.req, charged) /\ Len(charged) >= Limit
    BY ZenonT(30), <1>7 DEF BootSettle
  <2>2. charged = billed /\ marker.state = "succeeded"
    BY ZenonT(30), <1>1, <2>1 DEF LedgerInv, Level, WitnessInv
  <2>3. Len(billed) < Limit BY ZenonT(30), <2>1, <2>2 DEF Recoverable
  <2> QED BY <1>1, <2>1, <2>2, <2>3, ConstantsAssumption DEF TypeOK
<1>8. ASSUME BootPrepare PROVE FALSE
  <2>1. pc = "boot_prepare" /\ pending \notin {NoRequest, marker.req} BY ZenonT(30), <1>8 DEF BootPrepare
  <2> QED BY ZenonT(30), <2>1 DEF Recoverable
<1>9. ~BootMark BY ZenonT(30) DEF BootMark
<1>10. CASE BootCheck
  <2>1. exec' = exec /\ reply' = reply /\ \E a \in Attempts : exec[a] = "started"
    BY ZenonT(30), <1>10 DEF BootCheck
  <2> QED BY ZenonT(30), <1>3, <2>1 DEF Quiet
<1> QED BY ZenonT(30), <1>4, <1>5, <1>6, <1>7, <1>8, <1>9, <1>10, RefusedOnlyAtStart DEF Recover

-----------------------------------------------------------------------------
(* What the server says, keeps and refuses *)

\* What the theorems on projections rest on.
LEMMA ProjectionInvariant == Spec => [](ServedInv /\ ProjectionInv)
<1>1. Init => ProjectionInv
  <2> SUFFICES ASSUME Init PROVE ProjectionInv OBVIOUS
  <2>1. Billed = {} BY DEF Init, Billed, Forwarded
  <2> QED BY ZenonT(30), <2>1 DEF Init, ProjectionInv, ProjectionNotLost, Reserved
<1> QED BY <1>1, ProjectionStep, ServedInit, ServedStep, PTL DEF Spec

\* No billed ingest loses its skill projection, whatever fails and whenever the
\* process dies: the skill store has it, or the receipt on disk or the marker
\* still asks for it, even when Core's checkpoint fails half way.
THEOREM ProjectionsKept == Spec => []ProjectionNotLost
<1>1. ProjectionInv => ProjectionNotLost BY ZenonT(30) DEF ProjectionInv
<1> QED BY <1>1, ProjectionInvariant, PTL

\* What the theorems on answers and on the journal rest on.
LEMMA RecordsInvariant ==
    ASSUME SplitCheckpoint = FALSE
    PROVE  Spec => [](ServedInv /\ EffectInv /\ AnswerInv /\ JournalInv)
<1>1. Init => AnswerInv /\ JournalInv
  <2> SUFFICES ASSUME Init PROVE AnswerInv /\ JournalInv OBVIOUS
  <2>1. AnswerInv BY ZenonT(30) DEF Init, AnswerInv, Replied, Fresh, Unrun, NoReply
  <2>2. JournalInv
    BY ZenonT(30) DEF Init, JournalInv, JournalPoints, JournalExact, JournalOpen, Calling
  <2> QED BY ZenonT(30), <2>1, <2>2
<1>2. ServedInv /\ EffectInv /\ AnswerInv /\ JournalInv /\ [Next]_vars => AnswerInv' /\ JournalInv'
  BY ZenonT(30), AnswerStep, JournalStep
<1> QED BY <1>1, <1>2, EffectInvariant, PTL DEF Spec

\* What the server says of an attempt is what happened: an acknowledged request
\* is durable and billed, one reported failed or refused left nothing behind,
\* and whenever the server takes calls its execution journal has finished
\* exactly the attempts whose effect exists.
THEOREM RecordsAreTruthful ==
    ASSUME SplitCheckpoint = FALSE
    PROVE  Spec => []RecordsTruthful
<1>1. ServedInv /\ AnswerInv => AnswersTruthful
  <2> SUFFICES ASSUME ServedInv, AnswerInv, NEW a \in Attempts
               PROVE  LET r == reply[a].req
                      IN  CASE reply[a].answer \in {"ok", "replayed"} -> r \in Done \cap Billed
                            [] reply[a].answer \in {"failed", "refused"} -> <<r, a>> \notin core
                            [] OTHER -> TRUE
    BY ZenonT(30) DEF AnswersTruthful
  <2>1. Replied BY ZenonT(30) DEF AnswerInv
  <2>2. CASE reply[a].answer \in {"ok", "replayed"}
    <3>1. reply[a].req \in Requests /\ Forwarded(reply[a].req, billed)
      BY ZenonT(30), <2>1, <2>2 DEF Replied
    <3>2. reply[a].req \in Billed BY ZenonT(30), <3>1 DEF Billed
    <3>3. reply[a].req \in Done BY ZenonT(30), <3>1 DEF ServedInv, WitnessInv, Done
    <3> QED BY ZenonT(30), <2>2, <3>2, <3>3
  <2>3. CASE reply[a].answer \in {"failed", "refused"}
    <3>1. <<reply[a].req, a>> \notin core BY ZenonT(30), <2>1, <2>3 DEF Replied
    <3> QED BY ZenonT(30), <2>3, <3>1
  <2>4. CASE reply[a].answer \notin {"ok", "replayed", "failed", "refused"} BY ZenonT(30), <2>4
  <2> QED BY ZenonT(30), <2>2, <2>3, <2>4
<1>2. JournalInv => JournalTruthful
  <2> SUFFICES ASSUME JournalInv, pc = "idle", NEW a \in Attempts
               PROVE  /\ exec[a] = "ok" <=> (\E r \in Requests : <<r, a>> \in core)
                      /\ exec[a] = "started" => handle = "poisoned"
    BY ZenonT(30) DEF JournalTruthful
  <2>1. \A r \in Requests : <<r, a>> \in core => exec[a] = "ok"
    BY ZenonT(30) DEF JournalInv, JournalExact, Untold
  <2>2. exec[a] = "ok" => \E r \in Requests : <<r, a>> \in core
    BY ZenonT(30) DEF JournalInv, JournalExact
  <2>3. exec[a] = "started" => handle = "poisoned" BY ZenonT(30) DEF JournalInv, JournalOpen
  <2> QED BY ZenonT(30), <2>1, <2>2, <2>3
<1>3. ServedInv /\ AnswerInv /\ JournalInv => RecordsTruthful
  BY ZenonT(30), <1>1, <1>2 DEF RecordsTruthful
<1> QED BY <1>3, RecordsInvariant, PTL

\* Without I/O errors, and where every call comes from the configured principal,
\* Server::new refuses to start for one reason: the process died with an attempt
\* journaled as started and not answered.  A success it recovers always fits the
\* budget, its projection and the journal, and no settled call stands in the way.
THEOREM RefusalsAreExplained ==
    ASSUME SplitCheckpoint = FALSE, Audits = {}
    PROVE  Spec => []RefusalExplained
<1>1. Init => RestartInv
  <2> SUFFICES ASSUME Init PROVE RestartInv OBVIOUS
  <2>1. marker.state = "none" /\ core = {} /\ pc = "down" BY ZenonT(30) DEF Init, NoMarker
  <2> QED BY ZenonT(30), <2>1 DEF Init, RestartInv, Latest, Recoverable, Quiet, RefusalExplained
<1>2. ASSUME ServedInv, ProjectionInv, AnswerInv, JournalInv, RestartInv, [Next]_vars
      PROVE  RestartInv'
  <2>1. Latest /\ Recoverable /\ (faults = 0 => Quiet) /\ RefusalExplained
    BY ZenonT(30), <1>2 DEF RestartInv
  <2>2. Latest' BY ZenonT(30), <1>2, <2>1, LatestStep
  <2>3. Recoverable' BY ZenonT(30), <1>2, <2>1, RecoverableStep
  <2>4. (faults = 0 => Quiet)' BY ZenonT(30), <1>2, <2>1, QuietStep
  <2>5. RefusalExplained' BY ZenonT(30), <1>2, <2>1, RefusalStep
  <2> QED BY ZenonT(30), <2>2, <2>3, <2>4, <2>5 DEF RestartInv
<1>3. RestartInv => RefusalExplained BY ZenonT(30) DEF RestartInv
<1>4. ServedInv /\ ProjectionInv /\ AnswerInv /\ JournalInv /\ RestartInv /\ [Next]_vars => RestartInv'
  BY ZenonT(30), <1>2
<1> QED BY <1>1, <1>3, <1>4, ProjectionInvariant, RecordsInvariant, PTL DEF Spec
=============================================================================
