-------------------------- MODULE DurableDeployment --------------------------
(***************************************************************************)
(* The durable half of a CCOS Enterprise deployment: the files `Store`     *)
(* keeps under one root, the order in which `persist_deployment` writes    *)
(* them, and what `Store::open`, `Store::load` and `Deployment::restore`   *)
(* make of them at the next start.                                         *)
(*                                                                         *)
(* A decision is a record with its sequence, its tenant and its cost: 1    *)
(* when it was forwarded, 0 when it was refused.  The rule change that     *)
(* matters to the ledgers, provisioning a tenant, stands for all of them.  *)
(*                                                                         *)
(* The process can die before any write, inside any append (leaving any    *)
(* prefix of the bytes) and between any two steps; a write can also fail   *)
(* and be reported to the code.  Both are bounded by constants.            *)
(***************************************************************************)
EXTENDS JournalFile

CONSTANTS
    Tenants,          \* tenants that calls name
    FirstTenants,     \* those a new install is provisioned with
    Limit,            \* every tenant's token budget
    MaxDecisions,     \* bound: decisions in the trail
    MaxCrashes,       \* bound: process deaths
    MaxFaults,        \* bound: I/O errors returned to the store
    Threshold,        \* live journal length at which persist compacts
    RefuseTornTail    \* TRUE: the caller is the MCP server, which will not
                      \* start on a torn tail; FALSE: a caller that follows
                      \* the store's documentation and goes on

VARIABLES
    \* durable files
    live,        \* audit.jsonl (absent and empty read the same)
    segments,    \* rotated segments, in the order of their `last`
    governance,  \* governance.jsonl
    snapshot,    \* deployment.json, or NoSnapshot
    \* the process
    pc,          \* where the single-threaded owner is
    trail,       \* decisions of the deployment in memory
    ledger,      \* spent, per provisioned tenant, in memory
    changes,     \* journaled rule changes in memory
    nextSeq,     \* Store::next_sequence
    nextOrd,     \* Store::next_ordinal
    unflushed,   \* bytes a failed append left in the journal's BufWriter
    unflushedGov,\* the same for the governance journal
    \* history, read by properties and by the bounds only
    acked,       \* decisions answered to a client
    refusal,     \* why the last start was refused
    crashes, faults

files == <<live, segments, governance, snapshot>>
memory == <<trail, ledger, changes>>
handle == <<nextSeq, nextOrd, unflushed, unflushedGov>>
history == <<acked, refusal, crashes, faults>>
vars == <<files, pc, memory, handle, history>>

NoSnapshot == [watermark |-> -1, ledger |-> <<>>]

\* Deployment::snapshot of the state in memory.
Snapshot == [watermark |-> Len(trail), ledger |-> ledger]

\* What the decisions at some places of a trail, and all of them, cost one tenant.
CostAt(records, places, t) ==
    LET upto[n \in 0 .. Len(records)] ==
            IF n = 0 THEN 0
            ELSE upto[n - 1] + (IF n \in places /\ records[n].tenant = t THEN records[n].cost ELSE 0)
    IN  upto[Len(records)]
Cost(records, t) == CostAt(records, DOMAIN records, t)

-----------------------------------------------------------------------------
(* Reading the files back *)

\* read_audit_history: every segment in order, then the live file.
AuditFiles == Append(segments, live)
AuditHistory == FlattenSeq([i \in DOMAIN AuditFiles |-> Records(AuditFiles[i])])

\* Segments are sealed whole, so a torn one is refused; the records of all of
\* them together are dense from zero.
HistoryReadable ==
    /\ \A i \in DOMAIN segments : TornTail(segments[i]) = 0
    /\ \A i \in DOMAIN AuditFiles : WellFramed(AuditFiles[i])
    /\ DenseFrom(AuditHistory, 0)

GovernanceReadable == WellFramed(governance) /\ DenseFrom(Records(governance), 0)

\* Mutants: the first decision past the watermark is skipped; every decision is
\* folded onto the snapshot again.
PastWatermarkStrict(records, s) == {j \in DOMAIN records : records[j].seq > s.watermark}
RestoredLedgerTwice(records, s) ==
    [t \in DOMAIN s.ledger |-> s.ledger[t] + Cost(records, t)]

\* Where the decisions are whose cost the restore folds onto a snapshot: those at
\* or past its watermark.
PastWatermark(records, s) == {j \in DOMAIN records : records[j].seq >= s.watermark}

RestoredLedger(records, s) ==
    [t \in DOMAIN s.ledger |-> s.ledger[t] + CostAt(records, PastWatermark(records, s), t)]

\* The error a start ends with, "none" when a deployment serves again.
StartRefusal ==
    IF ~HistoryReadable \/ ~GovernanceReadable THEN "corrupt"
    ELSE IF snapshot = NoSnapshot
         THEN IF AuditHistory = <<>> THEN "none" ELSE "snapshot_missing"
    ELSE IF RefuseTornTail /\ TornTail(live) + TornTail(governance) # 0
         THEN "torn_tail"
    ELSE IF \E j \in PastWatermark(AuditHistory, snapshot) :
               /\ AuditHistory[j].cost = 1
               /\ AuditHistory[j].tenant \notin DOMAIN snapshot.ledger
         THEN "tenant_unknown"
    ELSE IF \E t \in DOMAIN snapshot.ledger :
               RestoredLedger(AuditHistory, snapshot)[t] > Limit
         THEN "over_limit"
    ELSE IF Len(AuditHistory) < snapshot.watermark THEN "discontinuity"
    ELSE "none"

-----------------------------------------------------------------------------
Init ==
    /\ live = <<>> /\ segments = <<>> /\ governance = <<>>
    /\ snapshot = NoSnapshot
    /\ pc = "down"
    /\ trail = <<>> /\ ledger = <<>> /\ changes = <<>>
    /\ nextSeq = 0 /\ nextOrd = 0 /\ unflushed = <<>> /\ unflushedGov = <<>>
    /\ acked = <<>> /\ refusal = "none" /\ crashes = 0 /\ faults = 0

\* Store::open and Store::load answered: restore the deployment, or provision
\* a new one and checkpoint it before serving.
Start ==
    /\ pc = "down" /\ StartRefusal = "none"
    /\ pc' = "idle" /\ refusal' = "none"
    /\ nextSeq' = Len(AuditHistory)
    /\ nextOrd' = Len(Records(governance))
    /\ unflushed' = <<>> /\ unflushedGov' = <<>>
    /\ IF snapshot = NoSnapshot
       THEN /\ trail' = <<>> /\ changes' = <<>>
            /\ ledger' = [t \in FirstTenants |-> 0]
            /\ snapshot' = [watermark |-> 0, ledger |-> ledger']
       ELSE /\ trail' = AuditHistory
            /\ changes' = Records(governance)
            /\ ledger' = RestoredLedger(AuditHistory, snapshot)
            /\ UNCHANGED snapshot
    /\ UNCHANGED <<live, segments, governance, acked, crashes, faults>>

\* Any error on the way: nothing is written and nobody is served.
StartRefused ==
    /\ pc = "down" /\ StartRefusal # "none"
    /\ pc' = "refused" /\ refusal' = StartRefusal
    /\ UNCHANGED <<files, memory, handle, acked, crashes, faults>>

\* Deployment::admit for one call: refused at no cost when the tenant is
\* unknown or its budget is exhausted, charged otherwise.
Decide(t) ==
    /\ pc = "idle" /\ Len(trail) < MaxDecisions
    /\ LET charged == t \in DOMAIN ledger /\ ledger[t] + 1 <= Limit
       IN  /\ trail' = Append(trail, [seq |-> Len(trail), tenant |-> t,
                                      cost |-> IF charged THEN 1 ELSE 0])
           /\ ledger' = IF charged THEN [ledger EXCEPT ![t] = @ + 1] ELSE ledger
    /\ pc' = "append"
    /\ UNCHANGED <<files, changes, handle, history>>

\* Deployment::add_tenant; journaled once the deployment has a history.
AddTenant(t) ==
    /\ pc = "idle" /\ t \notin DOMAIN ledger
    /\ ledger' = [u \in DOMAIN ledger \cup {t} |-> IF u = t THEN 0 ELSE ledger[u]]
    /\ changes' = IF trail = <<>> /\ changes = <<>>
                  THEN changes
                  ELSE Append(changes, [seq |-> Len(changes), tenant |-> t])
    /\ UNCHANGED <<files, pc, trail, handle, history>>

\* persist_deployment called after a rule change, with no new decision.
PersistRules ==
    /\ pc = "idle" /\ (nextOrd < Len(changes) \/ snapshot # Snapshot)
    /\ pc' = "governance"
    /\ UNCHANGED <<files, memory, handle, history>>

-----------------------------------------------------------------------------
(* persist_deployment, one durable write per step *)

\* Mutant: the first decision not yet in the journal is left out.
AuditBatchShort == Encode(SubSeq(trail, nextSeq + 2, Len(trail)))

\* Decisions, rule changes not yet in their journal, as the bytes of one write.
AuditBatch == Encode(SubSeq(trail, nextSeq + 1, Len(trail)))
GovernanceBatch == Encode(SubSeq(changes, nextOrd + 1, Len(changes)))

\* Store::append: one write and one sync, then the sequence advances.
AppendAudit ==
    /\ pc = "append"
    /\ live' = live \o AuditBatch
    /\ nextSeq' = Len(trail)
    /\ pc' = "governance"
    /\ UNCHANGED <<segments, governance, snapshot, memory, nextOrd,
                   unflushed, unflushedGov, history>>

\* Store::append_governance, skipped when there is nothing to write.
AppendGovernance ==
    /\ pc = "governance"
    /\ governance' = governance \o GovernanceBatch
    /\ nextOrd' = Len(changes)
    /\ pc' = "snapshot"
    /\ UNCHANGED <<live, segments, snapshot, memory, nextSeq,
                   unflushed, unflushedGov, history>>

\* A write that failed after k fragments.  The store truncates back to the
\* length before the write (best effort) and poisons itself; what a buffered
\* write did not get out stays in the BufWriter.
FailedWrite(file, batch, kept, k, rolledBack, buffered) ==
    /\ file' = IF rolledBack THEN file ELSE file \o Partial(batch, k)
    /\ kept' = IF buffered THEN Remainder(batch, k) ELSE <<>>

AppendAuditFails ==
    /\ pc = "append" /\ faults < MaxFaults
    /\ \E k \in 0 .. Len(AuditBatch), rolledBack, buffered \in BOOLEAN :
          FailedWrite(live, AuditBatch, unflushed, k, rolledBack, buffered)
    /\ pc' = "poisoned" /\ faults' = faults + 1
    /\ UNCHANGED <<segments, governance, snapshot, memory, nextSeq, nextOrd,
                   unflushedGov, acked, refusal, crashes>>

AppendGovernanceFails ==
    /\ pc = "governance" /\ GovernanceBatch # <<>> /\ faults < MaxFaults
    /\ \E k \in 0 .. Len(GovernanceBatch), rolledBack, buffered \in BOOLEAN :
          FailedWrite(governance, GovernanceBatch, unflushedGov, k, rolledBack, buffered)
    /\ pc' = "poisoned" /\ faults' = faults + 1
    /\ UNCHANGED <<live, segments, snapshot, memory, nextSeq, nextOrd,
                   unflushed, acked, refusal, crashes>>

\* Store::save_snapshot, then compaction when the live journal is long enough;
\* without it the call is answered.
SaveSnapshot ==
    /\ pc = "snapshot"
    /\ snapshot' = Snapshot
    /\ IF Len(live) >= Threshold
       THEN pc' = "rotate" /\ UNCHANGED acked
       ELSE pc' = "idle" /\ acked' = trail
    /\ UNCHANGED <<live, segments, governance, memory, handle, refusal, crashes, faults>>

\* The rename may have happened before the error (a directory sync failed).
SaveSnapshotFails ==
    /\ pc = "snapshot" /\ faults < MaxFaults
    /\ snapshot' \in {snapshot, Snapshot}
    /\ pc' = "poisoned" /\ faults' = faults + 1
    /\ UNCHANGED <<live, segments, governance, memory, handle, acked, refusal, crashes>>

\* Sequences the sealed segments hold; `last` of the newest one is one less.
SealedThrough == Len(FlattenSeq([i \in DOMAIN segments |-> Records(segments[i])]))
SegmentExists == nextSeq = 0 \/ (segments # <<>> /\ SealedThrough = nextSeq)

\* Mutant: the new segment replaces the earlier ones.
SealSegmentOver ==
    /\ pc = "rotate" /\ ~SegmentExists
    /\ segments' = <<live>>
    /\ live' = <<>>
    /\ pc' = "fresh"
    /\ UNCHANGED <<governance, snapshot, memory, handle, history>>

\* Store::compact past its snapshot: the live journal becomes a segment.
SealSegment ==
    /\ pc = "rotate" /\ ~SegmentExists
    /\ segments' = Append(segments, live)
    /\ live' = <<>>
    /\ pc' = "fresh"
    /\ UNCHANGED <<governance, snapshot, memory, handle, history>>

\* A refused compaction (no new decision to seal, or a segment of that name)
\* and a failed flush, sync or rename: nothing moves, the server stops.
SealRefused ==
    /\ pc = "rotate"
    /\ \/ SegmentExists /\ UNCHANGED faults
       \/ ~SegmentExists /\ faults < MaxFaults /\ faults' = faults + 1
    /\ pc' = "poisoned"
    /\ UNCHANGED <<files, memory, handle, acked, refusal, crashes>>

\* The fresh live file and the directory sync that pins both names.
OpenFresh ==
    /\ pc = "fresh"
    /\ pc' = "idle" /\ acked' = trail
    /\ UNCHANGED <<files, memory, handle, refusal, crashes, faults>>

OpenFreshFails ==
    /\ pc = "fresh" /\ faults < MaxFaults
    /\ pc' = "poisoned" /\ faults' = faults + 1
    /\ UNCHANGED <<files, memory, handle, acked, refusal, crashes>>

-----------------------------------------------------------------------------
(* The process ends *)

Forget ==
    /\ pc' = "down"
    /\ trail' = <<>> /\ ledger' = <<>> /\ changes' = <<>>
    /\ nextSeq' = 0 /\ nextOrd' = 0 /\ unflushed' = <<>> /\ unflushedGov' = <<>>

\* An orderly exit drops the store, and dropping a BufWriter writes out what
\* it still holds; that write may again stop anywhere.
Close ==
    /\ pc \in {"idle", "poisoned"}
    /\ \E k \in 0 .. Len(unflushed) : live' = live \o Partial(unflushed, k)
    /\ \E k \in 0 .. Len(unflushedGov) :
          governance' = governance \o Partial(unflushedGov, k)
    /\ Forget
    /\ crashes < MaxCrashes /\ crashes' = crashes + 1
    /\ UNCHANGED <<segments, snapshot, acked, refusal, faults>>

\* The process dies.  A write in flight leaves any prefix of its bytes, an
\* atomic replacement the old file or the new one, a rename whose directory
\* was not synced the old name or the new one.
Crash ==
    /\ pc \notin {"down", "refused"}
    /\ crashes < MaxCrashes /\ crashes' = crashes + 1
    /\ IF pc = "append"
       THEN \E k \in 0 .. Len(AuditBatch) : live' = live \o Partial(AuditBatch, k)
       ELSE IF pc = "fresh"
       THEN live' \in {live, segments[Len(segments)]}
       ELSE live' = live
    /\ segments' = IF live' # live /\ pc = "fresh" THEN Front(segments) ELSE segments
    /\ IF pc = "governance"
       THEN \E k \in 0 .. Len(GovernanceBatch) :
               governance' = governance \o Partial(GovernanceBatch, k)
       ELSE governance' = governance
    /\ snapshot' \in {snapshot, IF pc = "snapshot" THEN Snapshot ELSE snapshot}
    /\ Forget
    /\ UNCHANGED <<acked, refusal, faults>>

Persist ==
    \/ AppendAudit \/ AppendGovernance \/ SaveSnapshot \/ SealSegment \/ OpenFresh
    \/ SealRefused
Fault ==
    \/ AppendAuditFails \/ AppendGovernanceFails \/ SaveSnapshotFails
    \/ OpenFreshFails

Next ==
    \/ Start \/ StartRefused
    \/ \E t \in Tenants : Decide(t) \/ AddTenant(t)
    \/ PersistRules \/ Persist \/ Fault
    \/ Close \/ Crash

Spec == Init /\ [][Next]_vars

-----------------------------------------------------------------------------
(* Properties *)

Up == pc \notin {"down", "refused"}

\* The whole decision journal as one run of bytes, segments first.
AuditBytes == FlattenSeq(AuditFiles)

\* The decisions an auditor can still read off those bytes: the longest run of
\* complete lines, dense from zero, at their beginning.
ReadableTrail ==
    LET bytes == AuditBytes
        most == Len(bytes) \div 2
        Line(j) == /\ bytes[2 * j - 1] = Head1(bytes[2 * j].rec)
                   /\ bytes[2 * j] = Tail2(bytes[2 * j].rec)
                   /\ bytes[2 * j].rec.seq = j - 1
        n == CHOOSE n \in 0 .. most :
                /\ n < most => ~Line(n + 1)
                /\ \A j \in 1 .. n : Line(j)
    IN  [j \in 1 .. n |-> bytes[2 * j].rec]

\* A decision a client was told about stays readable in the journal files
\* through failed writes, rollbacks, rotations, crashes and restarts: the
\* contract of Store::append ("make them durable before returning").
AckedStaysReadable == IsPrefix(acked, ReadableTrail)

\* A running deployment, restored or not, knows every answered decision, and
\* its ledgers are exactly what its trail charged, within the budget: a restart
\* neither resets a quota nor bills a decision twice (Deployment::restore folds
\* only the costs at or past the snapshot's watermark).
LedgerMatchesTrail ==
    Up => /\ IsPrefix(acked, trail)
          /\ \A t \in Tenants :
                IF t \in DOMAIN ledger
                THEN ledger[t] = Cost(trail, t) /\ ledger[t] <= Limit
                ELSE Cost(trail, t) = 0

\* A start the MCP server refuses has one of three causes: a torn tail, a
\* tenant provisioned and charged but never checkpointed, or, only after a
\* failed write, bytes that no longer parse.  Order of writes and rotation
\* alone never lose the snapshot, cut the journal short of it or overcharge.
RefusalKnown == refusal \in {"none", "torn_tail", "tenant_unknown", "corrupt"}
RefusalExplained == RefusalKnown /\ (refusal = "corrupt" => faults > 0)

\* The trail as an auditor reads it implements the abstract ledger.
Abstract == INSTANCE AuditLedger WITH book <- ReadableTrail, answered <- acked
RefinesAuditLedger == Abstract!Spec

-----------------------------------------------------------------------------
(* What the documentation says of the store and the code does not keep *)

\* Store crate documentation, "Fail closed, and the one exception": a torn tail
\* is discarded at the next start, so no crash alone makes the store refuse to
\* open.  (Store::open appends after the torn bytes instead of cutting them.)
TornTailDiscarded == faults = 0 => refusal # "corrupt"

\* StoreError::Poisoned: reopening after a failed append "rolls any partial
\* write back out of the replay".  (Dropping the store writes the rest of the
\* failed batch after the truncation.)
ReopenRollsBack == faults > 0 => refusal # "corrupt"
=============================================================================
