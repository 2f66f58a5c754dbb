--------------------------- MODULE ApprovalStore ----------------------------
(***************************************************************************)
(* Human approvals (crate ccos-enterprise-approval): the registry that the *)
(* gate evaluates, the snapshot file it is saved to, and the append-only   *)
(* sidecar journal of revocations that is merged into it when it is loaded.*)
(*                                                                         *)
(* What a file shows and what a power loss leaves of it are kept apart:    *)
(* saved / disk for the snapshot, the first `synced` lines for the sidecar.*)
(* An operation of the store is one step with every outcome it can report; *)
(* a process that dies inside one is that step followed by Crash.          *)
(* The caller is free to record, revoke, save and append in any order, and *)
(* may save a copy of the registry it took earlier.                        *)
(***************************************************************************)
EXTENDS Integers, Sequences, FiniteSets, Functions

CONSTANTS
    Count,      \* how many different requests there are
    Requests,   \* requests that can be recorded, see ApprovalAssumption
    Artifacts,  \* tenant, action and artifact a gate is asked about
    Never,      \* no expiry
    MaxNow,     \* bound: the clock
    MaxFaults,  \* bound: I/O errors
    MaxCrashes  \* bound: process deaths and power losses

ASSUME ApprovalAssumption ==
    /\ Count \in Nat
    /\ \A r \in Requests :
           /\ r.artifact \in Artifacts /\ r.decision \in {"approved", "denied"}
           /\ r.version \in {"v1", "v2"} /\ r.expires \in Nat \cup {Never}
    /\ Never \notin Nat
    /\ MaxNow \in Nat /\ MaxFaults \in Nat /\ MaxCrashes \in Nat

\* Approval ids: numbers, ordered as the digests are.
Ids == 1 .. Count

VARIABLES
    what,     \* the request behind each id
    proc,     \* "up": a process has loaded the registry; "down"
    reg,      \* ApprovalRegistry: approvals, revocations (records [id, at])
    copy,     \* a snapshot of the registry the caller took earlier
    saved,    \* approvals.json as the file system shows it
    disk,     \* the snapshots one of which a power loss leaves in its place
    lines,    \* revocations.jsonl: its complete lines
    tail,     \* "torn": a piece of a line follows them; "whole"
    synced,   \* lines that no power loss takes away
    now,      \* the clock
    acked,    \* revocations append_revocation wrote and returned Ok for
    written,  \* snapshots save was given, since the last one it returned Ok for
    unsaved,  \* revoked approvals that were not, or not so, in a snapshot in use
    faults,
    crashes

files == <<saved, disk, lines, tail, synced>>
history == <<acked, written, unsaved>>
vars == <<what, proc, reg, copy, files, now, history, faults, crashes>>

up == proc = "up"
Snap(a, r) == [approvals |-> a, revocations |-> r]
Empty == Snap({}, {})
Revocations == [id : Ids, at : 0 .. MaxNow]
Snapshots == [approvals : SUBSET Ids, revocations : SUBSET Revocations]

\* A deployment that was upgraded holds v1 records already.
Legacy == {i \in Ids : what[i].version = "v1"}

Init ==
    /\ what \in {w \in [Ids -> Requests] : \A i, j \in Ids : w[i] = w[j] => i = j}
    /\ reg = Snap(Legacy, {})
    /\ copy = reg /\ saved = reg /\ disk = {reg} /\ written = {reg}
    /\ lines = <<>> /\ tail = "whole" /\ synced = 0
    /\ proc = "up" /\ now = 0 /\ faults = 0 /\ crashes = 0
    /\ acked = {} /\ unsaved = {}

-----------------------------------------------------------------------------
(* The gate *)

is_revoked(i) == \E r \in reg.revocations : r.id = i

Expired(i) == what[i].expires \in Nat /\ what[i].expires <= now

\* The records of an artifact the gate does not pass over.
Candidates(a) ==
    {i \in reg.approvals :
        what[i].artifact = a /\ what[i].version = "v2" /\ what[i].decision = "approved"}

Verdict(i) ==
    IF is_revoked(i) THEN "revoked" ELSE IF Expired(i) THEN "expired" ELSE "approved"

\* ApprovalRegistry::evaluate: the candidate with the largest id decides.
evaluate(a) ==
    IF Candidates(a) = {} THEN "denied"
    ELSE Verdict(CHOOSE i \in Candidates(a) : \A j \in Candidates(a) : j <= i)

\* ApprovalRegistry::evaluate_id: the one record decides.
evaluate_id(i, a) == IF i \in Candidates(a) THEN Verdict(i) ELSE "denied"

-----------------------------------------------------------------------------
(* The registry in memory *)

\* A request is recorded before it expires (ApprovalRequest::new); a second
\* record of the same request is refused.
record(i) ==
    /\ up /\ i \notin reg.approvals
    /\ what[i].version = "v2" /\ ~Expired(i)
    /\ reg' = Snap(reg.approvals \cup {i}, reg.revocations)
    /\ UNCHANGED <<what, proc, copy, files, now, history, faults, crashes>>

revoke(i) ==
    /\ up /\ i \in reg.approvals /\ ~is_revoked(i)
    /\ what[i].decision = "approved"
    /\ reg' = Snap(reg.approvals, reg.revocations \cup {[id |-> i, at |-> now]})
    /\ UNCHANGED <<what, proc, copy, files, now, history, faults, crashes>>

\* The caller keeps `snapshot().clone()`.
TakeCopy ==
    /\ up /\ copy # reg
    /\ copy' = reg
    /\ UNCHANGED <<what, proc, reg, files, now, history, faults, crashes>>

-----------------------------------------------------------------------------
(* The store *)

Fault == faults < MaxFaults /\ faults' = faults + 1

\* The rename and the sync of the directory went through.
SavedDurably(s) ==
    saved' = s /\ disk' = {s} /\ written' = {s} /\ faults' = faults

\* ApprovalStore::save: temporary file, sync, rename, sync of the directory.
\* An error before the rename leaves the file, one after it the new one.
save(s) ==
    /\ up
    /\ \/ SavedDurably(s)
       \/ Fault /\ saved' \in {saved, s} /\ disk' = disk \cup {saved'} /\ written' = written \cup {s}
    /\ unsaved' = unsaved \cup {r.id : r \in (saved.revocations \cup Range(lines)) \ s.revocations}
    /\ UNCHANGED <<what, proc, reg, copy, lines, tail, synced, now, acked, crashes>>

\* A variant that leaves out sync_data and the sync of the directory.
AppendedUnsynced(r) ==
    /\ lines' = Append(lines, r) /\ tail' = "whole" /\ synced' = synced
    /\ acked' = acked \cup {r}
    /\ faults' = faults

Appended(r) ==
    /\ lines' = Append(lines, r) /\ tail' = "whole" /\ synced' = Len(lines')
    /\ acked' = acked \cup {r}
    /\ faults' = faults

\* An error: nothing happened, the torn tail was cut, a piece of the new line
\* or all of it was written, and nothing more is known to be on disk.
AppendFailed(r) ==
    /\ Fault
    /\ \/ lines' = lines /\ tail' \in {"whole", "torn"}
       \/ lines' = Append(lines, r) /\ tail' = "whole"
    /\ UNCHANGED <<synced, acked>>

\* A record that is in the file: Ok at once, after the torn tail was cut.  The
\* line is not synced, so that this Ok adds nothing to `acked`.
AlreadyThere(r) ==
    /\ r \in Range(lines)
    /\ \/ tail' = "whole" /\ faults' = faults
       \/ Fault /\ tail' \in {"whole", tail}
    /\ UNCHANGED <<lines, synced, acked>>

\* ApprovalStore::append_revocation of a record the registry holds.
append_revocation(r) ==
    /\ up /\ r \in reg.revocations
    /\ \/ AlreadyThere(r)
       \/ /\ \A s \in Range(lines) : s.id # r.id
          /\ Appended(r) \/ AppendFailed(r)
    /\ unsaved' = unsaved \cup {i \in {r.id} : \E s \in disk : i \notin s.approvals}
    /\ UNCHANGED <<what, proc, reg, copy, saved, disk, now, written, crashes>>

\* load_registry: what the snapshot and the sidecar come to.
Merged == Snap(saved.approvals, saved.revocations \cup Range(lines))

\* A sidecar line that names no approved record of the snapshot, or that the
\* snapshot contradicts.
Mergeable ==
    \A r \in Range(lines) :
        /\ r.id \in saved.approvals /\ what[r.id].decision = "approved"
        /\ \A s \in saved.revocations : s.id = r.id => s = r

\* A new process takes the lock and loads; when it cannot, it stays down.
load_registry ==
    /\ ~up /\ Mergeable
    /\ proc' = "up" /\ reg' = Merged /\ copy' = Merged
    /\ UNCHANGED <<what, files, now, history, faults, crashes>>

-----------------------------------------------------------------------------
(* The world *)

Tick ==
    /\ now < MaxNow /\ now' = now + 1
    /\ UNCHANGED <<what, proc, reg, copy, files, history, faults, crashes>>

Crash ==
    /\ up /\ crashes < MaxCrashes
    /\ proc' = "down" /\ reg' = Empty /\ copy' = Empty /\ crashes' = crashes + 1
    /\ UNCHANGED <<what, files, now, history, faults>>

\* What a power loss makes of the sidecar when k of its lines survive.
Surviving(k) == lines' = SubSeq(lines, 1, k) /\ synced' = k

\* A rename and lines nobody synced may be lost, a line may be cut in two.
PowerLoss ==
    /\ crashes < MaxCrashes
    /\ proc' = "down" /\ reg' = Empty /\ copy' = Empty /\ crashes' = crashes + 1
    /\ saved' \in disk /\ disk' = {saved'}
    /\ \E k \in synced .. Len(lines) :
           /\ Surviving(k)
           /\ tail' \in IF k < Len(lines) THEN {"whole", "torn"} ELSE {"whole", tail}
    /\ UNCHANGED <<what, now, history, faults>>

Next ==
    \/ \E i \in Ids : record(i) \/ revoke(i)
    \/ \E s \in {reg, copy} : save(s)
    \/ \E r \in reg.revocations : append_revocation(r)
    \/ TakeCopy \/ load_registry \/ Tick \/ Crash \/ PowerLoss

Spec == Init /\ [][Next]_vars

-----------------------------------------------------------------------------
(* Properties *)

TypeOK ==
    /\ what \in [Ids -> Requests] /\ proc \in {"up", "down"}
    /\ reg \in Snapshots /\ copy \in Snapshots /\ saved \in Snapshots
    /\ disk \subseteq Snapshots /\ saved \in disk /\ written \subseteq Snapshots
    /\ lines \in Seq(Revocations) /\ tail \in {"whole", "torn"} /\ synced \in 0 .. Len(lines)
    /\ now \in 0 .. MaxNow /\ faults \in 0 .. MaxFaults /\ crashes \in 0 .. MaxCrashes
    /\ acked \subseteq Revocations /\ unsaved \subseteq Ids

\* A revocation that append_revocation wrote and acknowledged is in force in
\* every registry loaded from then on: crashes, power losses, torn tails and
\* saves of copies taken before the revocation included.
AckedRevocationHolds == up => \A r \in acked : r \in reg.revocations

\* What an approval has to be, said without the gate: recorded, of the current
\* version, approved, for this artifact, its expiry ahead, and revoked neither in
\* the registry nor by an acknowledged record.
Usable(i, a) ==
    /\ i \in reg.approvals /\ what[i].version = "v2"
    /\ what[i].decision = "approved" /\ what[i].artifact = a
    /\ what[i].expires = Never \/ now < what[i].expires
    /\ \A r \in reg.revocations \cup acked : r.id # i

\* Both evaluations let an artifact through only for a usable approval, and
\* evaluate turns away an artifact that has one only when an approval of the same
\* artifact has expired or was revoked.  Denials and records of version 1 neither
\* authorize nor stand in the way.
GateSound ==
    up => \A a \in Artifacts :
        /\ \A i \in Ids : evaluate_id(i, a) = "approved" <=> Usable(i, a)
        /\ evaluate(a) = "approved" => \E i \in Ids : Usable(i, a)
        /\ evaluate(a) = "denied" => Candidates(a) = {}

\* The snapshot file is the last one save returned Ok for, or one that a later
\* save that failed had begun to put in its place, across power losses.
SnapshotIsASave == saved \in written /\ disk \subseteq written

\* A load is refused only over a revocation whose approval the caller had not
\* saved durably when it appended the record, or that it left out of a snapshot
\* it saved: a caller that saves what it holds before it appends, and never an
\* older copy, can always load.
LoadRefusalExplained ==
    ~up /\ ~Mergeable => \E r \in Range(lines) : r.id \in unsaved

-----------------------------------------------------------------------------
(* What a comment says and the code does not keep *)

\* approval_gate: "Ok(()) ... when a live approval exists for exactly this
\* artifact", here for artifacts none of whose approvals was revoked.  (An expired
\* approval with a larger digest decides before its renewal is looked at.)
LiveApprovalSuffices ==
    up => \A a \in Artifacts :
        (\E i \in Ids : Usable(i, a)) /\ ~(\E i \in Candidates(a) : is_revoked(i))
            => evaluate(a) = "approved"
=============================================================================
