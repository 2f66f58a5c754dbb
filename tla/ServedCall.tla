----------------------------- MODULE ServedCall -----------------------------
(***************************************************************************)
(* One tool call through ccos-enterprise-mcp-server, from `call_tool` down *)
(* to the tenant's Core workspace and back, and the recovery `Server::new` *)
(* runs at the next start.                                                 *)
(*                                                                         *)
(* Five durable stores take part, each written at its own moment: the Core *)
(* workspace, the execution journal, the single effect marker, the         *)
(* deployment ledger and the skill-projection receipt.  The process may    *)
(* die between any two of those writes, and a write may fail: an atomic    *)
(* replacement that reports an error may still have replaced the file, an  *)
(* append that reports an error may still have written its line.           *)
(*                                                                         *)
(* A request is a stable idempotency identity; an attempt is one physical  *)
(* call and has an identity of its own, which the host draws afresh.       *)
(* Those of Ingests are `memory.ingest` calls and also feed the skill      *)
(* store.  Those of Direct never reach Core: the server answers them       *)
(* itself, from the skill stores or the governed provider, under the same  *)
(* marker, journal and ledger; their effect is the generation published,   *)
(* or the answer read.  Every other request is a write in Core.            *)
(*                                                                         *)
(* The ledger is written as a whole here; DurableDeployment opens it up.   *)
(***************************************************************************)
EXTENDS Integers, Sequences

CONSTANTS
    Requests,      \* idempotency identities clients use
    Ingests,       \* those that are memory.ingest calls
    Direct,        \* those the server answers without Core
    Audits,        \* those of them the operator sends under another identity
    NoRequest,     \* the absent request
    Limit,         \* calls the tenant's budget pays for
    MaxAttempts,   \* bound: physical calls
    MaxCrashes,    \* bound: process deaths and failed starts
    MaxFaults,     \* bound: I/O errors while serving
    SplitCheckpoint  \* TRUE: Core's checkpoint, two files one after the
                     \* other, may fail with the memory already written

ASSUME ConstantsAssumption ==
    /\ Ingests \subseteq Requests
    /\ NoRequest \notin Requests
    /\ Limit \in Nat /\ MaxAttempts \in Nat
    /\ MaxCrashes \in Nat /\ MaxFaults \in Nat
    /\ SplitCheckpoint \in BOOLEAN

ASSUME DirectAssumption == Direct \subseteq Requests \ Ingests /\ Audits \subseteq Direct

Attempts == 1 .. MaxAttempts

VARIABLES
    \* durable
    core,      \* <<request, attempt>> pairs whose effect Core checkpointed, or
               \* that were published or read by the server itself
    exec,      \* disposition of each attempt in the execution journal
    marker,    \* the effect marker
    billed,    \* forwarded decisions of the durable deployment ledger
    receipt,   \* request of the skill-projection receipt on disk
    resolved,  \* requests the skill store has observed or quarantined
    \* the process
    pc,        \* where the single-threaded server is
    cur,       \* the request being served
    att,       \* the attempt being served; also the last one drawn
    result,    \* what the backend or admission said of it
    charged,   \* forwarded decisions of the deployment in memory
    handle,    \* the execution journal's handle, open or poisoned
    pending,   \* the skill projection pending in memory
    \* history
    reply,     \* what each attempt was answered
    crashes, faults

durable == <<core, exec, marker, billed, receipt, resolved>>
memory == <<charged, handle, pending>>
call == <<cur, att, result>>
bounds == <<crashes, faults>>
vars == <<durable, pc, memory, call, reply, bounds>>

NoMarker == [req |-> NoRequest, att |-> 0, state |-> "none"]
NoReply == [req |-> NoRequest, answer |-> "none"]

\* EffectRecord::from_request in a given EffectState.
Mark(state) == [req |-> cur, att |-> att, state |-> state]

\* The request has a forwarded decision in this ledger.
Forwarded(r, decisions) == \E i \in DOMAIN decisions : decisions[i] = r

Goto(from, to) == pc = from /\ pc' = to

\* The attempt's answer leaves the server, which then waits for the next call.
Answer(answer) == reply' = [reply EXCEPT ![att] = [req |-> cur, answer |-> answer]]

\* An I/O error reported to the server.
Faulty == faults < MaxFaults /\ faults' = faults + 1 /\ UNCHANGED crashes

-----------------------------------------------------------------------------
Init ==
    /\ core = {} /\ exec = [a \in Attempts |-> "absent"]
    /\ marker = NoMarker /\ billed = <<>> /\ receipt = NoRequest /\ resolved = {}
    /\ pc = "down" /\ cur = NoRequest /\ att = 0 /\ result = "none"
    /\ charged = <<>> /\ handle = "open" /\ pending = NoRequest
    /\ reply = [a \in Attempts |-> NoReply]
    /\ crashes = 0 /\ faults = 0

-----------------------------------------------------------------------------
(* call_tool up to the admission decision *)

\* A call arrives under a fresh attempt, its host correlation made durable.
Arrive(r) ==
    /\ pc = "idle" /\ att < MaxAttempts
    /\ cur' = r /\ att' = att + 1

\* The correlation record could not be written: the server stops serving.
CorrelationFails(r) ==
    /\ Arrive(r) /\ pc' = "poisoned" /\ Faulty
    /\ UNCHANGED <<durable, memory, result, reply>>

\* An ingest, or a skill read, while the projection of another request is
\* pending: an error.
ProjectionBlocks(r) ==
    /\ Arrive(r) /\ r \in Ingests \cup Direct /\ pending \notin {NoRequest, r}
    /\ pc' = "idle"
    /\ UNCHANGED <<durable, memory, result, reply, bounds>>

\* recover_pending_projection: an ingest whose own projection is pending only
\* finishes that projection.
RetryProjection(r) ==
    /\ Arrive(r) /\ r \in Ingests /\ pending = r
    /\ pc' = "project" /\ result' = "retry"
    /\ UNCHANGED <<durable, memory, reply, bounds>>

Admissible(r) == Arrive(r) /\ (r \in Ingests => pending = NoRequest)

\* Deployment::admit: a forwarded request is suppressed, ...
Replay(r) ==
    /\ Admissible(r) /\ Forwarded(r, charged)
    /\ pc' = "persist" /\ result' = "replayed"
    /\ UNCHANGED <<durable, memory, reply, bounds>>

\* ... an exhausted budget refuses, ...
Refuse(r) ==
    /\ Admissible(r) /\ ~Forwarded(r, charged) /\ Len(charged) >= Limit
    /\ pc' = "persist" /\ result' = "refused"
    /\ UNCHANGED <<durable, memory, reply, bounds>>

\* Mutants: the replay check is missing; the budget check is off by one.
AdmitForwarded(r) ==
    /\ Admissible(r) /\ Len(charged) < Limit
    /\ charged' = Append(charged, r)
    /\ pc' = "request" /\ result' = "none"
    /\ UNCHANGED <<durable, handle, pending, reply, bounds>>
AdmitOverBudget(r) ==
    /\ Admissible(r) /\ ~Forwarded(r, charged) /\ Len(charged) <= Limit
    /\ charged' = Append(charged, r)
    /\ pc' = "request" /\ result' = "none"
    /\ UNCHANGED <<durable, handle, pending, reply, bounds>>

\* ... and otherwise the call is charged, in memory, and dispatched.
Admit(r) ==
    /\ Admissible(r) /\ ~Forwarded(r, charged) /\ Len(charged) < Limit
    /\ charged' = Append(charged, r)
    /\ pc' = "request" /\ result' = "none"
    /\ UNCHANGED <<durable, handle, pending, reply, bounds>>

-----------------------------------------------------------------------------
(* ExecutionBackend::dispatch_with_context around TenantBackend::dispatch, and *)
(* the handlers of direct calls, which take the same steps                     *)

\* Where a dispatch goes on with an error, a direct call stops the server.
OnError(next) == IF cur \in Direct THEN "poisoned" ELSE next

\* An append to the execution journal, which a poisoned handle refuses.
Append1(from, to, disposition) ==
    /\ Goto(from, to) /\ handle = "open"
    /\ exec' = [exec EXCEPT ![att] = disposition]

\* The append failed, with or without its line in the file; no further append
\* is tried on this handle and the dispatch ends in a backend error.
Append1Fails(from, disposition) ==
    /\ Goto(from, OnError("verdict"))
    /\ \/ handle = "poisoned" /\ UNCHANGED <<exec, handle, bounds>>
       \/ /\ handle = "open" /\ Faulty /\ handle' = "poisoned"
          /\ exec' \in {exec, [exec EXCEPT ![att] = disposition]}

ToolRequested ==
    /\ Append1("request", "start", "requested")
    /\ UNCHANGED <<core, marker, billed, receipt, resolved, memory, call, reply, bounds>>

ToolRequestedFails ==
    /\ Append1Fails("request", "requested")
    /\ UNCHANGED <<core, marker, billed, receipt, resolved, charged, pending, call, reply>>

ToolStarted ==
    /\ Append1("start", "arm", "started")
    /\ UNCHANGED <<core, marker, billed, receipt, resolved, memory, call, reply, bounds>>

ToolStartedFails ==
    /\ Append1Fails("start", "started")
    /\ UNCHANGED <<core, marker, billed, receipt, resolved, charged, pending, call, reply>>

\* write_effect: an atomic replacement of the one marker.
MarkStarted ==
    /\ Goto("arm", "core")
    /\ marker' = Mark("started")
    /\ UNCHANGED <<core, exec, billed, receipt, resolved, memory, call, reply, bounds>>

\* A marker that could not be written ends the dispatch before Core runs.
MarkStartedFails ==
    /\ Goto("arm", OnError("finish")) /\ Faulty
    /\ marker' \in {marker, Mark("started")}
    /\ result' = "unrecorded"
    /\ UNCHANGED <<core, exec, billed, receipt, resolved, memory, cur, att, reply>>

\* Core runs the tool and checkpoints the workspace; PreparedMutation::commit
\* publishes a generation; a read has its answer.
CoreSucceeds ==
    /\ Goto("core", "succeed")
    /\ core' = core \cup {<<cur, att>>}
    /\ UNCHANGED <<exec, marker, billed, receipt, resolved, memory, call, reply, bounds>>

\* Core reports an error; what it did in memory goes with the session.  A read
\* fails, or a mutation before anything is published.
CoreFails ==
    /\ Goto("core", "fail")
    /\ UNCHANGED <<durable, memory, call, reply, bounds>>

\* The checkpoint reports an error after the memory file was replaced: the
\* operation log that follows it could not be written.
CheckpointSplits ==
    /\ SplitCheckpoint /\ cur \notin Direct
    /\ Goto("core", "fail") /\ Faulty
    /\ core' = core \cup {<<cur, att>>}
    /\ UNCHANGED <<exec, marker, billed, receipt, resolved, memory, call, reply>>

\* Mutant: an error of the publication is taken for a known failure.
PublicationFailed ==
    /\ cur \in Direct
    /\ Goto("core", "fail") /\ Faulty
    /\ core' \in {core, core \cup {<<cur, att>>}}
    /\ UNCHANGED <<exec, marker, billed, receipt, resolved, memory, call, reply>>

\* commit reports an error once publication may be visible (or the output of a
\* read cannot be hashed): the marker stays as it is, nothing is rolled back.
PublicationUncertain ==
    /\ cur \in Direct
    /\ Goto("core", "poisoned") /\ Faulty
    /\ core' \in {core, core \cup {<<cur, att>>}}
    /\ UNCHANGED <<exec, marker, billed, receipt, resolved, memory, call, reply>>

MarkSucceeded ==
    /\ Goto("succeed", "finish")
    /\ marker' = Mark("succeeded") /\ result' = "ok"
    /\ UNCHANGED <<core, exec, billed, receipt, resolved, memory, cur, att, reply, bounds>>

\* outcome_uncertain: Core succeeded and nothing durable may say so.
MarkSucceededFails ==
    /\ Goto("succeed", OnError("finish")) /\ Faulty
    /\ marker' \in {marker, Mark("succeeded")} /\ result' = "uncertain"
    /\ UNCHANGED <<core, exec, billed, receipt, resolved, memory, cur, att, reply>>

MarkFailed ==
    /\ Goto("fail", "finish")
    /\ marker' = Mark("failed") /\ result' = "failed"
    /\ UNCHANGED <<core, exec, billed, receipt, resolved, memory, cur, att, reply, bounds>>

\* The error text, and with it the output hash, now tells of both failures.
MarkFailedFails ==
    /\ Goto("fail", OnError("finish")) /\ Faulty
    /\ marker' \in {marker, Mark("failed")} /\ result' = "unrecorded"
    /\ UNCHANGED <<core, exec, billed, receipt, resolved, memory, cur, att, reply>>

\* The journal's record of the attempt: its success and its output hash, told
\* apart as far as the results differ.
ToolFinished ==
    /\ cur \in Direct => result = "ok"
    /\ Append1("finish", IF result = "ok" THEN "persist" ELSE "verdict", result)
    /\ UNCHANGED <<core, marker, billed, receipt, resolved, memory, call, reply, bounds>>

\* fail_governed_evidence_without_side_effect, and the same lines of the reads:
\* the journal has the failure, and the admission is rolled back.
DirectFailed ==
    /\ cur \in Direct /\ result # "ok"
    /\ Append1("finish", "settle_failed", result)
    /\ charged' = SubSeq(charged, 1, Len(charged) - 1)
    /\ UNCHANGED <<core, marker, billed, receipt, resolved, handle, pending, call, reply, bounds>>

ToolFinishedFails ==
    /\ Append1Fails("finish", result)
    /\ UNCHANGED <<core, marker, billed, receipt, resolved, charged, pending, call, reply>>

-----------------------------------------------------------------------------
(* call_tool after a backend error *)

\* The marker of this request, or the backend, leaves the outcome open.
Uncertain ==
    \/ result = "uncertain"
    \/ marker.req = cur /\ marker.state \in {"started", "succeeded"}

\* Fail closed, nothing rolled back; also when the marker cannot be read.
VerdictPoisons ==
    /\ Goto("verdict", "poisoned")
    /\ \/ Uncertain /\ UNCHANGED bounds
       \/ Faulty
    /\ UNCHANGED <<durable, memory, call, reply>>

\* Otherwise the session is discarded and the deployment restored from the
\* checkpoint taken before admission; a failed effect is then settled.
Rollback ==
    /\ pc = "verdict" /\ ~Uncertain
    /\ charged' = SubSeq(charged, 1, Len(charged) - 1)
    /\ IF marker.req = cur /\ marker.state = "failed"
       THEN pc' = "reconcile" /\ UNCHANGED reply
       ELSE pc' = "idle" /\ Answer("failed")
    /\ UNCHANGED <<durable, handle, pending, call, bounds>>

\* Mutant: an attempt already finished is a mismatch.
ReconcilableUnfinished == handle = "open" /\ exec[marker.att] = "started"

\* reconcile_finished: a started attempt gets the outcome the marker holds, a
\* completed one must agree with it.
Outcome1 == IF marker.state = "succeeded" THEN "ok" ELSE "failed"
Reconcilable == handle = "open" /\ exec[marker.att] \in {"started", Outcome1}
Reconcile == exec' = [exec EXCEPT ![marker.att] = Outcome1]

ReconcileFailed ==
    /\ Goto("reconcile", "settle_failed")
    /\ Reconcilable /\ Reconcile
    /\ UNCHANGED <<core, marker, billed, receipt, resolved, memory, call, reply, bounds>>

\* The journal's handle is poisoned, or holds another outcome.  (It never still
\* waits for one here, so reconciling appends nothing that could fail.)
ReconcileFailedFails ==
    /\ Goto("reconcile", "poisoned")
    /\ ~Reconcilable
    /\ UNCHANGED <<durable, memory, call, reply, bounds>>

Settled == [marker EXCEPT !.state = "settled"]

SettleFailed ==
    /\ Goto("settle_failed", "idle")
    /\ marker' = Settled
    /\ Answer("failed")
    /\ UNCHANGED <<core, exec, billed, receipt, resolved, memory, call, bounds>>

SettleFailedFails ==
    /\ Goto("settle_failed", "poisoned") /\ Faulty
    /\ marker' \in {marker, Settled}
    /\ UNCHANGED <<core, exec, billed, receipt, resolved, memory, call, reply>>

-----------------------------------------------------------------------------
(* call_tool after an admitted, replayed or refused call *)

\* Mutant: the ledger is not written.
PersistDeploymentSkipped ==
    /\ pc = "persist"
    /\ IF result = "ok"
       THEN pc' = (IF cur \in Ingests THEN "prepare" ELSE "settle") /\ UNCHANGED reply
       ELSE pc' = "idle" /\ Answer(result)
    /\ UNCHANGED <<durable, memory, call, bounds>>

\* persist_deployment; a replay or a refusal is answered at once.
PersistDeployment ==
    /\ pc = "persist"
    /\ billed' = charged
    /\ IF result = "ok"
       THEN pc' = (IF cur \in Ingests THEN "prepare" ELSE "settle") /\ UNCHANGED reply
       ELSE pc' = "idle" /\ Answer(result)
    /\ UNCHANGED <<core, exec, marker, receipt, resolved, memory, call, bounds>>

PersistDeploymentFails ==
    /\ Goto("persist", "poisoned") /\ Faulty
    /\ billed' \in {billed, charged}
    /\ UNCHANGED <<core, exec, marker, receipt, resolved, memory, call, reply>>

\* ProjectionState::prepare: the receipt of a projection still to be done.  It
\* refuses when another one is pending, which no ingest gets past admission to.
PrepareProjection ==
    /\ Goto("prepare", "project")
    /\ pending = NoRequest
    /\ receipt' = cur /\ pending' = cur
    /\ UNCHANGED <<core, exec, marker, billed, resolved, charged, handle, call, reply, bounds>>

PrepareProjectionFails ==
    /\ Goto("prepare", "poisoned") /\ Faulty
    /\ receipt' \in {receipt, cur}
    /\ UNCHANGED <<core, exec, marker, billed, resolved, memory, call, reply>>

\* finish_skill_projection: the skill store observes the source, or the source
\* is quarantined; observing it again changes nothing.
Project ==
    /\ Goto("project", "clear")
    /\ resolved' = resolved \cup {cur}
    /\ UNCHANGED <<core, exec, marker, billed, receipt, memory, call, reply, bounds>>

\* The projection stays pending; the caller sees an error and may retry.
ProjectFails ==
    /\ Goto("project", "idle") /\ Faulty
    /\ resolved' \in {resolved, resolved \cup {cur}}
    /\ UNCHANGED <<core, exec, marker, billed, receipt, memory, call, reply>>

\* A retry settles the marker only when it is this request's success.
ClearProjection ==
    /\ pc = "clear" /\ receipt # NoRequest
    /\ receipt' = NoRequest /\ pending' = NoRequest
    /\ IF result = "retry" /\ ~(marker.req = cur /\ marker.state = "succeeded")
       THEN pc' = "idle" /\ Answer("replayed")
       ELSE pc' = "settle" /\ UNCHANGED reply
    /\ UNCHANGED <<core, exec, marker, billed, resolved, charged, handle, call, bounds>>

\* Removing the receipt fails when it is already gone; when the directory sync
\* fails the receipt may be gone while the projection stays pending in memory.
ClearProjectionFails ==
    /\ Goto("clear", "idle")
    /\ \/ receipt = NoRequest /\ UNCHANGED <<receipt, bounds>>
       \/ receipt # NoRequest /\ Faulty /\ receipt' \in {receipt, NoRequest}
    /\ UNCHANGED <<core, exec, marker, billed, resolved, memory, call, reply>>

\* settle_marker, then the answer.
Settle ==
    /\ Goto("settle", "idle")
    /\ marker.req = cur
    /\ marker' = Settled
    /\ Answer(IF result = "retry" THEN "replayed" ELSE "ok")
    /\ UNCHANGED <<core, exec, billed, receipt, resolved, memory, call, bounds>>

\* A retry reports the error and goes on; a first answer poisons the server.
SettleFails ==
    /\ Goto("settle", IF result = "retry" THEN "idle" ELSE "poisoned") /\ Faulty
    /\ marker' \in {marker, Settled}
    /\ UNCHANGED <<core, exec, billed, receipt, resolved, memory, call, reply>>

-----------------------------------------------------------------------------
(* Server::new *)

\* A marker under another identity is accepted only when it is settled.
Foreign == marker.req \in Audits /\ marker.state # "settled"

\* validate_recovered_evidence_effect: the generation the marker tells of is the
\* one selected, so that nothing was published after it.
ReceiptMatches ==
    marker.req \in Direct =>
        \A r \in Direct, a \in Attempts : <<r, a>> \in core => a <= marker.att

\* The deployment, the receipt and the execution journal are read back, then
\* the marker decides what is left to do.
Boot ==
    /\ pc = "down"
    /\ charged' = billed /\ pending' = receipt /\ handle' = "open"
    /\ pc' = IF Foreign \/ marker.state = "started" THEN "refused"
             ELSE IF marker.state \in {"none", "settled"} THEN "boot_check"
             ELSE IF marker.state = "succeeded" /\ ~ReceiptMatches THEN "refused"
             ELSE "boot_reconcile"
    /\ UNCHANGED <<durable, call, reply, bounds>>

BootReconcile ==
    /\ pc = "boot_reconcile"
    /\ IF Reconcilable
       THEN /\ Reconcile
            /\ pc' = IF marker.state = "succeeded" THEN "boot_settle" ELSE "boot_mark"
       ELSE pc' = "refused" /\ UNCHANGED exec
    /\ UNCHANGED <<core, marker, billed, receipt, resolved, memory, call, reply, bounds>>

\* settle_recovered_success: bill the effect unless the ledger already does.
BootSettle ==
    /\ pc = "boot_settle"
    /\ LET r == marker.req
       IN  IF Forwarded(r, charged)
           THEN UNCHANGED <<charged, billed>>
           ELSE /\ charged' = IF Len(charged) < Limit THEN Append(charged, r) ELSE charged
                /\ billed' = charged'
    /\ pc' = IF ~Forwarded(marker.req, charged) /\ Len(charged) >= Limit THEN "refused"
             ELSE IF marker.req \in Ingests THEN "boot_prepare" ELSE "boot_mark"
    /\ UNCHANGED <<core, exec, marker, receipt, resolved, handle, pending, call, reply, bounds>>

\* Mutant: the recovered projection is noted in memory only.
BootPrepareInMemory ==
    /\ Goto("boot_prepare", "boot_mark")
    /\ pending' = marker.req
    /\ UNCHANGED <<durable, charged, handle, call, reply, bounds>>

BootPrepare ==
    /\ pc = "boot_prepare"
    /\ IF pending \in {NoRequest, marker.req}
       THEN /\ receipt' = marker.req /\ pending' = marker.req
            /\ pc' = "boot_mark"
       ELSE pc' = "refused" /\ UNCHANGED <<receipt, pending>>
    /\ UNCHANGED <<core, exec, marker, billed, resolved, charged, handle, call, reply, bounds>>

BootMark ==
    /\ Goto("boot_mark", "boot_check")
    /\ marker' = Settled
    /\ UNCHANGED <<core, exec, billed, receipt, resolved, memory, call, reply, bounds>>

\* Mutant: attempts of unknown outcome are not looked for.
BootUnchecked ==
    /\ Goto("boot_check", "idle")
    /\ UNCHANGED <<durable, memory, call, reply, bounds>>

\* ensure_no_unknown_outcomes, the last word on whether to serve.
BootCheck ==
    /\ pc = "boot_check"
    /\ pc' = IF \E a \in Attempts : exec[a] = "started" THEN "refused" ELSE "idle"
    /\ UNCHANGED <<durable, memory, call, reply, bounds>>

-----------------------------------------------------------------------------
\* The process dies, exits, or gives up a start because of an I/O error (whose
\* write may have reached the disk: the same as dying before or after it).
Crash ==
    /\ pc \notin {"down", "refused"}
    /\ crashes < MaxCrashes /\ crashes' = crashes + 1
    /\ pc' = "down" /\ cur' = NoRequest /\ result' = "none"
    /\ charged' = <<>> /\ handle' = "open" /\ pending' = NoRequest
    /\ UNCHANGED <<durable, att, reply, faults>>

Recover ==
    \/ Boot \/ BootReconcile \/ BootSettle \/ BootPrepare \/ BootMark \/ BootCheck
Dispatch ==
    \/ ToolRequested \/ ToolStarted \/ MarkStarted \/ CoreSucceeds \/ CoreFails
    \/ MarkSucceeded \/ MarkFailed \/ ToolFinished \/ DirectFailed
DispatchFault ==
    \/ ToolRequestedFails \/ ToolStartedFails \/ MarkStartedFails \/ CheckpointSplits
    \/ PublicationUncertain \/ MarkSucceededFails \/ MarkFailedFails \/ ToolFinishedFails
AfterError ==
    \/ VerdictPoisons \/ Rollback \/ ReconcileFailed \/ ReconcileFailedFails
    \/ SettleFailed \/ SettleFailedFails
AfterCall ==
    \/ PersistDeployment \/ PersistDeploymentFails
    \/ PrepareProjection \/ PrepareProjectionFails
    \/ Project \/ ProjectFails \/ ClearProjection \/ ClearProjectionFails
    \/ Settle \/ SettleFails
Serve(r) ==
    \/ CorrelationFails(r) \/ ProjectionBlocks(r) \/ RetryProjection(r)
    \/ Replay(r) \/ Refuse(r) \/ Admit(r)

Next ==
    \/ \E r \in Requests : Serve(r)
    \/ Dispatch \/ DispatchFault \/ AfterError \/ AfterCall \/ Recover \/ Crash

\* One thread that waits for nothing but the file system finishes the call, or
\* the start, it has begun.
Spec ==
    /\ Init /\ [][Next]_vars
    /\ WF_vars(Dispatch \/ DispatchFault \/ AfterError \/ AfterCall \/ Recover)

-----------------------------------------------------------------------------
(* Properties *)

\* Requests whose effect is in the Core workspace, requests billed, requests
\* some attempt of which was acknowledged.
Done == {r \in Requests : \E a \in Attempts : <<r, a>> \in core}
Billed == {r \in Requests : Forwarded(r, billed)}
Acked == {r \in Requests : \E a \in Attempts :
             reply[a].req = r /\ reply[a].answer \in {"ok", "replayed"}}

Points ==
    {"down", "refused", "poisoned", "idle", "request", "start", "arm", "core",
     "succeed", "fail", "finish", "verdict", "reconcile", "settle_failed",
     "persist", "prepare", "project", "clear", "settle",
     "boot_reconcile", "boot_settle", "boot_prepare", "boot_mark", "boot_check"}
States == {"none", "started", "succeeded", "failed", "settled"}
Results == {"none", "ok", "failed", "unrecorded", "uncertain", "replayed", "refused", "retry"}
Dispositions == {"absent", "requested", "started"} \cup Results
MaybeRequest == Requests \cup {NoRequest}

\* Type correctness of the durable stores, the process and the history.
TypeOK ==
    /\ core \subseteq Requests \X Attempts
    /\ exec \in [Attempts -> Dispositions]
    /\ marker \in [req : MaybeRequest, att : Attempts \cup {0}, state : States]
    /\ billed \in Seq(Requests) /\ charged \in Seq(Requests)
    /\ receipt \in MaybeRequest /\ pending \in MaybeRequest
    /\ resolved \subseteq Requests
    /\ pc \in Points /\ cur \in MaybeRequest /\ att \in Attempts \cup {0}
    /\ result \in Results /\ handle \in {"open", "poisoned"}
    /\ reply \in [Attempts -> [req : MaybeRequest, answer : Results]]
    /\ crashes \in 0 .. MaxCrashes /\ faults \in 0 .. MaxFaults

\* However often a request is retried, through failures, crashes and restarts,
\* its effect reaches the Core workspace at most once: a known success is
\* settled without running Core again and an unknown one stops the server.
EffectOnce ==
    \A r \in Requests : \A a, b \in Attempts :
        <<r, a>> \in core /\ <<r, b>> \in core => a = b

\* Only effects are billed, each once and within the budget, however a call or
\* a start is cut short: persist_deployment and settle_recovered_success never
\* both bill a request.
BilledOnce ==
    /\ Billed \subseteq Done
    /\ \A i, j \in DOMAIN billed : billed[i] = billed[j] => i = j
    /\ Len(billed) <= Limit

\* Whenever the server takes calls every effect is billed and memory agrees
\* with the ledger on disk: rollback and recovery leave no free effect behind.
NoFreeEffect == pc = "idle" => Billed = Done /\ charged = billed

\* An attempt is acknowledged only once its request's effect and charge are
\* durable; one reported failed or refused left nothing behind.
AnswersTruthful ==
    \A a \in Attempts :
        LET r == reply[a].req
        IN  CASE reply[a].answer \in {"ok", "replayed"} -> r \in Done \cap Billed
              [] reply[a].answer \in {"failed", "refused"} -> <<r, a>> \notin core
              [] OTHER -> TRUE

\* While the server takes calls the execution journal tells the truth about
\* every attempt: it finished successfully exactly when Core did its work, and
\* none is left between its start and its end unless an append failed on this
\* very journal, which then refuses every further attempt.
JournalTruthful ==
    pc = "idle" =>
        \A a \in Attempts :
            /\ exec[a] = "ok" <=> (\E r \in Requests : <<r, a>> \in core)
            /\ exec[a] = "started" => handle = "poisoned"

\* What the server says of an attempt is what happened, in its answers and in
\* its execution journal.
RecordsTruthful == AnswersTruthful /\ JournalTruthful

\* No billed ingest loses its skill projection: it was observed, or a receipt
\* or the unsettled marker still asks for it.
ProjectionNotLost ==
    \A r \in Ingests \cap Billed :
        \/ r \in resolved
        \/ receipt = r
        \/ marker.req = r /\ marker.state = "succeeded"

\* Without I/O errors the server refuses to start for one reason only: the
\* process died after an attempt was journaled as started and before its
\* outcome was recorded.  In particular a recovered success always fits the
\* budget, and no settled call makes a later start fail.
RefusalExplained ==
    pc = "refused" /\ faults = 0 =>
        \E a \in Attempts : exec[a] = "started" /\ reply[a] = NoReply

\* An effect does not stay free: it is billed, unless the server is stopped or
\* refuses to start.
EffectGetsBilled ==
    \A r \in Requests :
        (r \in Done) ~> (r \in Billed \/ pc \in {"poisoned", "refused"})

\* The whole transaction implements the contract clients rely on.
Contract == INSTANCE EffectContract
                WITH Runs <- Attempts, done <- core, billed <- Billed, acked <- Acked
RefinesContract == Contract!Spec

-----------------------------------------------------------------------------
(* The invariant the proofs rest on *)

\* The call holds a charge that only memory knows of, respectively none.
Reserved ==
    \/ pc \in {"request", "start", "arm", "core", "succeed", "fail", "finish", "verdict"}
    \/ pc = "persist" /\ result = "ok"
Level ==
    \/ pc \in {"idle", "reconcile", "settle_failed", "prepare", "project", "clear", "settle",
               "boot_reconcile", "boot_settle", "boot_prepare", "boot_mark", "boot_check"}
    \/ pc = "persist" /\ result # "ok"
Calling ==
    pc \in {"request", "start", "arm", "core", "succeed", "fail", "finish", "verdict",
            "reconcile", "settle_failed", "persist", "prepare", "project", "clear", "settle"}

\* A call in flight is a request under an attempt nobody was answered for.
CallInv ==
    /\ Calling => cur \in Requests /\ att \in Attempts
    /\ Calling => reply[att] = NoReply
    /\ \A a \in Attempts : a > att => reply[a] = NoReply

\* Memory is the ledger on disk, plus at most the one charge in flight.
LedgerInv ==
    /\ Reserved => /\ charged = Append(billed, cur)
                   /\ ~Forwarded(cur, billed) /\ Len(billed) < Limit
    /\ Level => charged = billed
    /\ \A i, j \in DOMAIN billed : billed[i] = billed[j] => i = j
    /\ Len(billed) <= Limit

\* What the marker, the receipt and the results stand for.
WitnessInv ==
    /\ marker.state = "succeeded" =>
          marker.req \in Requests /\ marker.att \in Attempts /\ <<marker.req, marker.att>> \in core
    /\ pc = "succeed" \/ (pc \in {"finish", "persist"} /\ result = "ok") => <<cur, att>> \in core
    /\ pc = "persist" => result \in {"ok", "replayed", "refused"}
    /\ pc = "persist" /\ result = "replayed" => Forwarded(cur, billed)
    /\ pc = "boot_reconcile" => marker.state \in {"succeeded", "failed"}
    /\ pc = "boot_settle" => marker.state = "succeeded"
    /\ pc = "boot_prepare" => marker.req \in Requests /\ Forwarded(marker.req, billed)
    /\ pc \in {"prepare", "project", "clear", "settle"} => Forwarded(cur, billed)
    /\ pending # NoRequest => Forwarded(pending, billed)
    /\ receipt # NoRequest => Forwarded(receipt, billed)
    /\ \A r \in Requests : Forwarded(r, billed) => \E a \in Attempts : <<r, a>> \in core

ServedInv == TypeOK /\ CallInv /\ LedgerInv /\ WitnessInv

\* An effect not billed yet is the one the marker tells of, and no call can
\* run Core, move the marker on or be taken before it is billed.
EffectInv ==
    /\ \A r \in Requests : \A a \in Attempts :
          <<r, a>> \in core =>
              \/ Forwarded(r, billed)
              \/ /\ marker.req = r /\ marker.state \in {"started", "succeeded"}
                 /\ pc \in {"succeed", "finish", "verdict", "persist", "poisoned", "down",
                            "refused", "boot_reconcile", "boot_settle"}
                 /\ pc \in {"succeed", "finish", "verdict", "persist"} => cur = r
                 /\ pc = "persist" => result = "ok"
    /\ pc \in {"core", "succeed"} => marker.req = cur /\ marker.state = "started"
    /\ pc = "finish" /\ cur \in Direct /\ result # "ok" => marker.state = "failed"

\* Where the receipt alone asks for what the skill store has not seen, it is the
\* one memory knows of, and no ingest gets past admission while it is pending.
ProjectionInv ==
    /\ ProjectionNotLost
    /\ pc \notin {"down", "refused", "poisoned"} => receipt \in {NoRequest, pending}
    /\ Reserved /\ cur \in Ingests => pending = NoRequest
    /\ pc = "prepare" => pending = NoRequest
    /\ pc \in {"project", "clear"} => pending = cur
    /\ pc = "clear" => cur \in resolved
    /\ pc = "prepare" \/ (pc \in {"finish", "persist"} /\ result = "ok") =>
          marker.req = cur /\ marker.state = "succeeded"
    /\ pc \notin {"down", "refused", "poisoned", "boot_reconcile", "boot_settle", "boot_prepare"} =>
          \A r \in Ingests \cap Billed :
              r \in resolved \/ receipt = r \/ (pc = "prepare" /\ r = cur)

\* The call has not run Core, or what it ran left nothing behind.
Unrun ==
    \/ pc \in {"request", "start", "arm", "core", "fail", "reconcile", "settle_failed"}
    \/ pc = "persist" /\ result # "ok"

\* Every answer given, by what it stands for.
Replied ==
    /\ \A a \in Attempts : reply[a].answer \in {"ok", "replayed"} =>
          reply[a].req \in Requests /\ Forwarded(reply[a].req, billed)
    /\ \A a \in Attempts : reply[a].answer \in {"failed", "refused"} =>
          <<reply[a].req, a>> \notin core

\* Attempts not drawn yet have left no trace.
Fresh ==
    \A a \in Attempts : a > att =>
        exec[a] = "absent" /\ \A r \in Requests : <<r, a>> \notin core

AnswerInv == Replied /\ Fresh /\ (Unrun => <<cur, att>> \notin core)

\* What the journal and the marker say of the call in flight.
JournalPoints ==
    /\ pc = "request" => exec[att] = "absent"
    /\ pc = "start" => exec[att] = "requested"
    /\ pc \in {"arm", "core", "succeed", "fail", "finish"} => exec[att] = "started"
    /\ pc \in {"core", "succeed"} => marker = Mark("started")
    /\ pc = "reconcile" => marker.state = "failed"

\* The effect is the one the marker tells of and the journal does not know yet.
Untold(r, a) ==
    /\ marker.req = r /\ marker.att = a /\ marker.state \in {"started", "succeeded"}
    /\ pc \in {"succeed", "finish", "verdict", "poisoned", "down", "refused", "boot_reconcile"}
    /\ pc \in {"succeed", "finish", "verdict"} => cur = r /\ att = a

\* The journal knows of every effect but that one, and of no other.
JournalExact ==
    /\ \A a \in Attempts : exec[a] = "ok" => \E r \in Requests : <<r, a>> \in core
    /\ \A r \in Requests : \A a \in Attempts :
          <<r, a>> \in core => exec[a] = "ok" \/ Untold(r, a)

\* An attempt it holds as started is the one in flight, or its handle is
\* poisoned.
JournalOpen ==
    pc = "idle" \/ Calling =>
        \A a \in Attempts : exec[a] = "started" =>
            \/ handle = "poisoned"
            \/ a = att /\ pc \in {"arm", "core", "succeed", "fail", "finish"}

JournalInv == JournalPoints /\ JournalExact /\ JournalOpen

\* Nothing was published after the effect the marker tells of.
Latest == \A r \in Requests : \A a \in Attempts : <<r, a>> \in core => a <= marker.att

\* A success the marker tells of fits the budget, and no other projection takes
\* the place of its own.
Recoverable ==
    /\ marker.state = "succeeded" /\ marker.req \in Ingests => receipt \in {NoRequest, marker.req}
    /\ marker.state = "succeeded" /\ ~Forwarded(marker.req, billed) => Len(billed) < Limit
    /\ pc \in {"boot_reconcile", "boot_settle", "boot_prepare"} => handle = "open" /\ pending = receipt
    /\ pc = "boot_prepare" => marker.state = "succeeded" /\ marker.req \in Ingests

\* Where no I/O error happened the journal agrees with the marker, and nobody
\* was answered for an attempt it holds as started.
Quiet ==
    /\ handle = "open" /\ pc # "poisoned" /\ result \notin {"uncertain", "unrecorded"}
    /\ pc = "finish" => result \in {"ok", "failed"} /\ (result = "failed" => marker = Mark("failed"))
    /\ pc = "verdict" => marker.state = "failed"
    /\ marker.state \in {"started", "succeeded", "failed"} => marker.att \in Attempts
    /\ marker.state = "started" =>
          /\ reply[marker.att] = NoReply
          /\ exec[marker.att] = "started" /\ pc \in {"core", "succeed", "fail", "down", "refused"}
    /\ marker.state = "succeeded" => exec[marker.att] \in {"started", "ok"}
    /\ marker.state = "failed" => exec[marker.att] \in {"started", "failed"}
    /\ \A a \in Attempts : exec[a] = "started" => reply[a] = NoReply

RestartInv == Latest /\ Recoverable /\ (faults = 0 => Quiet) /\ RefusalExplained

-----------------------------------------------------------------------------
(* What a comment of the server says and the code does not keep *)

\* The audit's marker "closes the crash window between the physical read and the
\* governance ledger commit, exactly as memory.skills does" (call_skill_audit):
\* a crash after a completed audit does not keep the server from starting.  (The
\* operator is never the configured actor, so Server::new refuses the marker.)
AuditWindowClosed ==
    pc = "refused" => ~(marker.req \in Audits /\ marker.state = "succeeded")
=============================================================================
