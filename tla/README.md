# A TLA+ verification project for CCOS Enterprise

CCOS Enterprise puts a governed, multi-tenant deployment in front of the CCOS Core memory
engine.  This directory models the parts of it that are hard to test — what is durable when,
what a crash or a failed write leaves behind, and what the next start makes of it — as TLA+
modules, checks them with TLC on small instances and proves the most important results with
TLAPS for every value of the constants.

Paths below are relative to the repository.  `mcp-server` is
`crates/ccos-enterprise-mcp/src/bin/ccos-enterprise-mcp-server.rs`.

## The system and its parts

| Part | State | Operations that change it | What makes it hard |
|---|---|---|---|
| MCP server (`mcp-server`, `mcp/src/server.rs`) | one principal, one tenant, one thread; `poisoned` | `call_tool`, `Server::new` | five durable stores written one after the other; a crash between any two |
| Execution journal (`execution`, `mcp/src/execution_backend.rs`) | one disposition per attempt; a handle that poisons itself | append, `recover_tools`, `reconcile_finished` | an append that reports an error may be on disk |
| Effect marker (`mcp-server`) | one file, four states | `write_effect`, `settle_marker` | a replacement that reports an error may have happened |
| Deployment (`runtime`) | tenants, roles, budgets, replay memory, audit trail | `admit`, rule changes, `snapshot`, `restore` | bounded memories; rollback; restore from snapshot and journal |
| Store (`store`) | snapshot, decision journal, segments, rule journal | `open`, `load`, `append`, `append_governance`, `save_snapshot`, `compact` | torn tails, truncation, buffered writers, rotation |
| Skill projection receipt (`mcp/src/skill_projection.rs`) | one receipt, a copy in memory | `prepare`, `clear` | receipt and memory part ways on an error |
| Core session (`core/src/agent_session.rs`) | memory file, operation log | `checkpoint` | two files, one error |
| Durable replacement (`core/src/util.rs`) | a file and its temporary sibling | `write_durable` | errors after publication |
| Approvals (`approval`) | registry in memory, snapshot file, revocation sidecar | `record`, `revoke`, `save`, `append_revocation`, `load_registry` | two files merged at a load; power loss; which of several approvals decides |
| Provider generations (`octasoma`) | selector, purge intent and floor; governance and image artifact of each generation | `initialize`, `advance`, `prepare_purge`, `commit_prepared_purge`, `open`, `recover_pending_purge` | interruption at every durable step; orphans; purge rolled forward; power loss |
| Encrypted artifacts (`octasoma/src/encrypted_artifacts.rs`, `envelope`) | the key that seals each file; rotation intent; temporary envelopes | `rotate_encryption`, `resume_rotation`, writes of an advance | rewrap file by file; resumed at every open; keys retired afterwards; power loss |
| Backups (`backup`) | backup generations, `current`, staging, live generations, `live`, `writes_frozen` | `create_backup`, `stage_restore`, `promote_staged`, `run_disaster_recovery` | no lock; pointers and generations synced separately; retries over left-overs |
| Knowledge and decisions (`knowledge*`, `decision*`) | two journals and the states replayed from them | `append_knowledge`, `record`, `record_outcome`, `open` | bitemporal facts; conflicts re-opened; a decision anchored to a state of another journal |
| Rules and cells of the deployment (`runtime`, `rbac`, `qpages`) | role book, governed tools, models, variants, cells, byte counter | 16 rule changes, `put_cell`, `remove_cell`, `switch_tenant_model`, `restore` | refund after admission; rollback of a callback; journal against state |
| DeepSeek Harness adapter (`adapters/deepseek-harness`) | turns in memory, outbox directory, drain passes, child process and its pipes | turn events, `#capture`, `put`, `list`, `remove`, `callTool`, `dispose` | two promise chains on one loop; late answers; deaths of either process; directory never synced |
| Revocations (`auth`, `store`) | deny-list in memory, `revocations.jsonl`, snapshot with a watermark; a replica's list | `revoke_token`, `revoke_actor`, `restore_actor`, checkpoint, start, `refresh_shared_revocations` | two files read one after the other; failed appends; expiry and capacity at a replay |
| Claim counter (`tools/ccos-license-server`) | `vault.json`, the daemon's copy and fingerprint; one-time codes | `Counter::handle_claim`, `claim.php`, `ccos-license-admin` | a file edited under a daemon that caches it; saves that fail after their rename |
| Retention, sessions, skills | journals and pointers of their own | see the plan | crash points between journal and memory |

How they meet: a client (the DeepSeek Harness adapter's outbox) sends a call under a stable
`request_id`; `call_tool` takes it through `Deployment::admit`, the execution journal, the
effect marker and Core, and answers only after `persist_deployment` wrote the ledger through
the store.  `Server::new` replays the same stores in the opposite direction.

The complete list of components, with the reason for each one that is not modelled, is in
`PROJECT.json` under `components`; the hazards, each at its line, are under `hazards`.

## Modules

| Module | Models |
|---|---|
| `JournalFile` | line framing of the store's journals: torn tails, committed lines, density |
| `AuditLedger` | abstract: an append-only trail within every tenant's budget, answers behind it |
| `DurableDeployment` | the store's files, `persist_deployment` and `restore`; implements AuditLedger |
| `DurableDeploymentProofs` | TLAPS proofs about DurableDeployment |
| `EffectContract` | abstract: an effect once, billed once, acknowledged after both |
| `ServedCall` | one call through the server and the recovery at a start; implements EffectContract |
| `ServedCallProofs` | TLAPS proofs about ServedCall |
| `ReplayMemory` | the runtime's bounded memory of idempotency keys |
| `ReplayMemoryProofs` | TLAPS proofs about ReplayMemory |
| `ApprovalStore` | approvals: the gate, the snapshot and the revocation sidecar |
| `ApprovalStoreProofs` | TLAPS proofs about ApprovalStore and RevocationStore |
| `GenerationStore` | a tenant's provider generations: publication, opening, physical purge |
| `GenerationStoreProofs` | TLAPS proofs about GenerationStore and KeyRotation |
| `KeyRotation` | the envelopes of a tenant's provider store and their rotation to another key |
| `BackupRestore` | backups of a tenant, their restoration and disaster recovery |
| `BackupRestoreProofs` | TLAPS proofs about BackupRestore |
| `KnowledgePlane` | the knowledge operations, their checks and replay (operators) |
| `DecisionService` | both journals and the service that owns them, under failed appends, crashes and power losses |
| `DecisionServiceProofs` | TLAPS proofs about DecisionService and KnowledgePlane |
| `DecisionQueries` | the bounded traversals of decisions against paths in the precedent graph |
| `RoleBook` | roles, grants and `allows` (operators) |
| `Admission` | the deployment: gates, cells, rule changes, model switch, restore |
| `MCGovernedState` | one run over ApprovalStore, three instances of Admission, three of the decision modules, RevocationStore and ClaimCounter |
| `MCServedTight` | one run over two instances of ServedCall and CaptureOutbox |
| `MCDurableState` | one run over DurableDeployment and GenerationStore |
| `CaptureOutbox` | the adapter: captures, outbox, drain, child process; the server is EffectContract |
| `RevocationStore` | the deny-list, its journal and snapshot, a leader and a replica |
| `ClaimCounter` | the vendor's claim counter: daemon or PHP endpoint, admin tool, the ledger file |
| `ClaimCounterProofs` | TLAPS proofs about ClaimCounter |

## How state and actions correspond to the code

**JournalFile** models a journal as a sequence of half lines.  A record is a *head* (any part
of the line without its newline) and a *tail* (the rest with the newline): a write cut short
leaves a head, and later bytes are glued to it.  That is exactly what `read_lines` can tell apart.

**DurableDeployment** keeps the four durable files (`live`, `segments`, `governance`,
`snapshot`), the deployment in memory (`trail`, `ledger`, `changes`) and the store's handle
(`nextSeq`, `nextOrd`, bytes left in a `BufWriter`).  `Decide` is `Deployment::admit`;
`AppendAudit`, `AppendGovernance`, `SaveSnapshot`, `SealSegment`, `OpenFresh` are the durable
writes of `persist_deployment` in their order; each has a failing twin.  `Start` and
`StartRefused` are `Store::open`, `Store::load` and `Deployment::restore` with all their
refusals.  A decision costs 1 or 0; provisioning a tenant stands for every journaled rule change.

**ServedCall** has one step per durable write of a call.  `pc` names the place in the code:
`request`, `start`, `arm`, `core`, `succeed`/`fail`, `finish` are the dispatch; `verdict`,
`reconcile`, `settle_failed` the backend-error path of `call_tool`; `persist`, `prepare`,
`project`, `clear`, `settle` the path after a call; `boot_*` the recovery of `Server::new`.
`poisoned` is a server that answers nothing any more, `refused` one that will not start.  A
request is a model value, an attempt a number drawn afresh for each physical call.  The ledger is
written as a whole here; DurableDeployment opens that step up.  The requests of `Direct` are those the server
answers itself, from the skill stores or the governed provider (`call_skill_tool`, `call_skill_audit`,
`call_governed_context`, `call_governed_mutation`): they take the same steps under the same marker, journal
and ledger, and where a dispatch through Core goes on with an error, they stop the server (`OnError`).
Those of `Audits` come from the operator, whose identity is not the configured one.

**ReplayMemory.**  `decided`, `queue` and `order` are the runtime's `decided`, `decided_per_tenant`
and `decided_order`; `journal` is the history of the decisions that reached `remember`, and `gone`
what the last one evicted.  `Decided` is steps 7 and 8 of `decide` where both gates let the call
through; `CellRefused` is the same for a cell access that the cell store then turns away.  A key the
tenant's own bound evicts stays in `order`, as in the code: it counts towards the common bound
(`replay_flood`), and it can take a key that was used again out of `decided` early, which is why
`FreshKeyKept` speaks of keys decided once.

**ApprovalStore.**  An id is a number, ordered as the digests are (`evaluate` walks them from the
largest down); `what` gives the request behind it, so that TLC checks every order.  `saved` is the
snapshot file and `disk` the snapshots one of which a power loss would leave there: a rename nobody
synced adds to it, a `save` that returned Ok leaves only its own.  Of the sidecar the first
`synced` lines survive.  The crate has no caller in the server yet, so the caller here is free: it
records, revokes, saves (the registry or a copy it took earlier) and appends revocations the
registry holds, in any order.  `acked`, `written` and `unsaved` are history.

**GenerationStore.**  A generation's content is its population: for each asset absent, active,
inactive or a tombstone; digests are compared as populations.  The lineage is given as the set of
descendants of each asset (`Below`), which is what `invalidate` computes.  `root` is the tenant
directory (selector, intent, floor), `art` the two generation directories; `rootDisk` and `artDisk`
are the contents a power loss may leave, a sync leaves one.  Every method that writes consumes the
owner, so an I/O error and the death of the process come to the same: the step's effect is there,
partly there or not, and the store is closed.  The lock makes the process the only actor.  A step is
one durable write (`publish_governance`, `publish_image`, `publish_selector`, `write_floor`,
`retire_intent`) or unlink (`erase_next`, `sweep`).  A torn artifact counts as holding the payload
of what was written.  `acked` and `promised` are history.

**KeyRotation.**  A file is the key that seals it (or `missing`, or `torn`); the selector also names a
generation.  `now` is what the directories hold, `disk` what a power loss may leave of each file;
`temps` and `ghosts` are the same for the temporary envelopes of `atomic_raw` and `write_selector`.
`Rewrap` is one round of the loop of `resume_rotation`, in the order of the sorted paths; `Clean` is one
directory of its cleanup.  The operator is part of the model: `Reconfigure` makes another key active while
the store is closed, `Retire` forgets a key once a rotation to the active one has been answered (`receipt`).
An artifact of an advance that was cut short stops a rotation until the operator repairs it, as
`docs/TENANT_ENVELOPE_KMS.md` says; `NeedsRepair` names that case.

**BackupRestore.**  The tenant's data is a version number; a generation is named by its time stamp
and its version (for the digest).  A directory is the set of what is in it.  `pub[p].pc` is the
place of a publisher in `publish_backup`, `rec.pc` that of the restore under way; one step per
file operation, and `Stop*` and `PowerLoss` between any two.  `loose`, `currentDisk`, `liveLoose` and
`liveDisk` say what a power loss may undo.  The two callbacks of `run_disaster_recovery` are
modelled by their contract: `replay_tail` applies the tail or, when it goes wrong, any part of it and
may report either; `verify_recovered` accepts nothing that misses a record from before the freeze, and
may refuse anything.  `writes_frozen` is kept by the caller, and is assumed to survive a crash; no code
reads it, so the tenant writes at any time and what is written during a recovery may be missing
from what it publishes.  `rec.owed` is history: the version asked for, or the journal's at the freeze.  A staging directory half removed is refused like one that
holds another backup, so the model has one step for the removal.

**KnowledgePlane, DecisionService, DecisionQueries.**  An operation is a record; `Admits` are the
checks and `After` the effect of `KnowledgeState::apply`, so that a journal is a sequence of operations and
the state its fold.  A store is one record: handle, directory entry, complete lines, a torn one behind them, how many
lines are synced, and what memory stands for.  Nothing syncs the directory in which `open` creates a
journal, so a power loss may take the whole file until the kernel has written the directory back
(`WriteBack`) or the file has survived a power loss.  `Broken` leaves any part of a failed batch, because
`recovery_required` is set before the first byte; `Loaded` repairs as `open` does and syncs only when it
cut something.  `AnchorSound` therefore excepts decisions made on lines nobody synced and those made before
the knowledge journal's entry was on disk (`firm` is false), and `JournalsKept` speaks of the file that is
there: acknowledged lines go all together or not at all.  The hash of
an anchor is the state itself.  The loops of the traversals are recursive operators with the code's
queue, visited set and the places where depth and results are counted.

**RoleBook, Admission.**  `d` is the `Deployment`, and an operator with the method's name maps a deployment
to the one the method leaves: methods take it mutably, so they do not interleave.  `Gates` lists
the refusals of `decide` in its order.  A `TenantRules` guard is one change and the records its `Drop`
writes (`Dropped`).  The callback of a model switch does nothing, one call or one change
(`Transition`), and then succeeds or fails.  `inside`, `undone` and `base` are history.  Four
exceptions are written into the properties because the code has them: the id of a cell write that the
store refused stays remembered (`ReplayExact`, `RestoreFaithful`); a refused call that named no possible
tenant is journaled, and makes `restore` refuse the journal (`RestoreFaithful`); a reverted switch gives back
what its callback spent and keeps the callback's records (`BooksBalance`); `redefine_role` of an
unknown name defines it without a record (`TrailExplains`).

**MCDurableState, MCServedTight, MCGovernedState.**  Parts that share no state are checked in one run: `part`, chosen in the
initial state, says which of them moves; the others rest.  A property of an instance is restated
under its name.

**CaptureOutbox.**  A step is what runs between two awaits of the event loop.  `chain` is
`capturePromise`, `passes` and `dpc` are `drainPromise`; `mem` is `bridge.turns`.  A file's name is a
number (the digest of tenant, session and turn), its content the request id that `#capture` drew.
`child` is what the client believes, `srv` the process: after a death of the host the old server
may still work through its pipe while a new one cannot take the store.  An answer is `live` while
somebody waits for it.  The server does what EffectContract allows, so the composition with ServedCall is by its
refinement.  `stored` and `taken` are history.  What the code does and the properties say: retained
captures wait for the next captured turn or the next start; an entry the server always refuses keeps those
behind it from being delivered; `put` and `remove` leave the directory unsynced, so that a power loss
can take a capture or bring a delivered one back, which the server then suppresses.  `list` says
"oldest-first" and sorts by digest.

**RevocationStore.**  The journal is its complete lines, a torn piece behind them and how many lines
are durable; `buffer` is what the `BufWriter` still holds after a failed append, written when an
orderly exit drops the store.  `Boot` is `Store::open`, `load_revocations` and the checkpoint of
`Server::new`; `Checkpoint` is the same save called later (the methods are public; in the repository only a
start calls it, and nothing in the server calls `revoke_*`).  `must`, `due` and `owed` are history: what was
acknowledged, what a refresh under way has to find and what the last one had to.  Seen while
modelling: an entry is pruned at the token's expiry although `authenticate` accepts it for
`leeway_secs` longer; a restore reported as failed may be in force after the next start; a
replica may take over a line that is cut back afterwards; a start checkpoints a watermark over
complete lines that nobody synced, after which a power loss makes the next start refuse.

**ClaimCounter.**  The ledger is a function from codes to entries; a missing, a torn and an unread
file are functions of the same shape, so that a fingerprint can be the content.  Claims take turns
(the daemon's mutex, the endpoint's `flock`); each read and write of the file is a step of its own,
and the admin tool loads and saves between any two of them.  A token records the machine, the
claim time that fixes the expiry, how often the code had been re-armed (`arm`) and whether its
revocation had been saved when the claim came in (`barred`).  `raced` holds once an edit met a
claim under way or was saved over a write it had not read: the comment of `refresh_vault`
excuses that.  `undone` holds once a power loss took back what `write_durable` had reported
as an error, what `claim.php` wrote (it syncs nothing) or a deletion.  Seen while modelling: the
fingerprint that is remembered comes from a read after the load, so that an upload landing between the
two is neither adopted nor noticed and the next sale overwrites it; a claim answered
"nothing was issued" may have taken the seat.

## Runs

| Run | Expect | Properties | What it shows |
|---|---|---|---|
| `durable_state` | pass | AckedGenerationKept, PurgedPayloadGone, AckedStaysReadable, LedgerMatchesTrail, RefusalExplained, RetiredKeyUnneeded, PurgeCompletes, RefinesAuditLedger, RotationResumes | Decisions, rule changes, rotations, failed writes and crashes of a deployment whose owner refuses torn tails: answered decisions survive, quotas neither reset nor double, and the trail implements the abstract ledger. Beside it, advances and purges of a provider's generations with three interruptions or power losses at any durable step: acknowledged generations are kept, purges go through and leave no payload. And the keys that seal those generations: a rotation interrupted anywhere is resumed, and a key retired after it is needed by nothing, not even by what a power loss brings back. |
| `store_torn_tail` | violation | TornTailDiscarded | A caller that goes on after a torn tail, as the store's documentation says, appends to the torn line and makes the journal unreadable at the start after. |
| `store_poison` | violation | ReopenRollsBack | A failed append whose remainder stays in the BufWriter is flushed when the store is dropped, after the rollback, and the next start finds a corrupt journal. |
| `served_call` | pass | EffectOnce, RecordsTruthful, ProjectionNotLost, RefusalExplained, TightSafe, CapturedExactly, FlushDelivers, EffectGetsBilled, RefinesContract, CaptureDelivered | An ingest and a call the server answers itself, three attempts, two crashes and two I/O errors anywhere in a call or a start: effects happen once, are billed once, are answered truthfully, and the transaction implements its contract. Beside it, two ingests compete for a budget of one call while checkpoints may fail between their two files: billing stays exact and no projection is lost. And the adapter that calls the server: captures end, are retained, sent, timed out and retried, and each reaches the server under one request id and leaves the outbox only then. |
| `served_split` | violation | EffectOnce | A checkpoint that fails between its two files is taken for a known failure, and the retry runs the effect a second time. |
| `served_audit` | violation | AuditWindowClosed | The process dies after an operator's audit is done and before its marker is settled, and no later start accepts the marker. |
| `replay_memory` | pass | FreshKeyKept, ShareKept | Seven decisions over a memory of four keys, a second tenant provisioned at any point, ids retried after they were forgotten: fresh keys are kept as long as the shares promise. |
| `replay_flood` | violation | FloodEvictsOnlyOwn | Two tenants and a memory of eight: one tenant's fifth key in a row pushes out a key of the other tenant that is within its share. |
| `approval_renewal` | violation | LiveApprovalSuffices | An approval expires, its renewal is recorded under a smaller digest, and the gate still answers Expired. |
| `backup_restore` | pass | BackupsComplete, LiveDurable, RecoveredWhole, RecoveryCompletes | Backups, an operator's restore and disaster recoveries interleave, with two errors, process deaths or power losses between any two file operations: `current` and `live` only ever name complete durable generations, a restore publishes the backup it located, a recovery nothing that misses a record from before its freeze, and a frozen tenant is recovered at last. |
| `governed_state` | pass | AckedRevocationHolds, BooksBalance, RestoreFaithful, ReplayExact, TrailExplains, NoSilentContradiction, HistoryMatchesReplay, AnchorSound, JournalsKept, QueriesExact, DenialsHold, RevocationsLoad, SeatSoldOnce, RevokedNotSold, SwitchTransacts | The parts that share no state, side by side in one run. Approvals: any order of record, revoke, save, append and load with errors, crashes and power losses. The deployment, in three instances (cells and model switches, roles, variants): meters, bytes, answers and the journal agree through refunds, rollbacks and restarts. Knowledge and decisions, in three instances (contradictions, faults, traversals). Revocations: a leader that mutates, checkpoints and restarts and a replica that refreshes. The claim counter: claims, failed saves, operator edits and restarts around one ledger file. |
| `claim_reissue` | violation | TokenSurvives | After a save that failed behind its rename, the machine's retry is served from the visible file without writing it, and a power loss may take the record of its token away. |

`violation` runs state what a document or comment of the repository says and show a behaviour of
the code that disagrees; `findings` in `PROJECT.json` quotes the lines.

## Bounds, and why they are enough

* `durable_state`, deployment: two tenants, one of them provisioned later, a budget of one call (so that charges and refusals both happen), four decisions with rotation at two records (so that several segments are sealed), two crashes (one in a write, one in the recovery from it), one I/O error.
* `served_call`: two requests, an ingest and one the server answers itself, three attempts (a request can be retried after a failure and again after a recovery), two crashes, two I/O errors (an error in a call and one in its error path). Its second instance: both requests ingests, a budget of one, one crash, one error.
* `replay_memory`: the smallest memory the code allows (four keys), five ids, seven decisions: enough to fill the memory, to forget a key, to use it again and to let the stale entry surface, before and after a second tenant halves the share. `replay_flood` provisions both tenants first, so that the memory has its floor of four per tenant.
* `governed_state`, approvals: two ids for four kinds of requests (an approval that expires, its renewal, a denial, a legacy record), one tick of the clock across the expiry, one I/O error, one crash or power loss: a revocation can be appended with an error, retried, lost and loaded. By hand also with two crashes (776 thousand states) and with two I/O errors (4.1 million); the proof has no bound.
* `durable_state`, generations: an asset and one derived from it, generations 0 to 2 (two purges, or an advance and a purge with files of two generations to clean up), three interruptions. Also run once with generations 0 to 3 and two interruptions (526 thousand states). A store whose directories were made and whose selector was not is opened by nobody, so deadlock is not checked.
* `durable_state`, rotation: two keys (there and back), generations 0 and 1 (an orphan of an interrupted advance beside the selected generation), two errors, deaths or power losses (one in a rotation and one in resuming it).
* `backup_restore`: one publisher, two backups, one restore, two versions of the data, any number of recoveries, two errors, deaths or power losses (one in an attempt, one in its retry). By hand also, safety only: two publishers and one interruption (706,582 states), and two changes of the data and the clock (4.7 million states).
* `governed_state`, decisions: eight knowledge lines with two entities' worth of competing, overlapping and adjacent facts (so that a set is resolved, re-opened and resolved again), six lines with three faults for the journals, four decisions with every shape of precedents for the traversals, limits 1 to 3.
* `governed_state`, deployment: cells and switches with three decisions, two changes and one restart (a refused write, its retry and a switch around them); roles with three changes; variants with four changes and an approval that expires. The calls presented include one whose tenant is no identifier.
* `served_call`, adapter: two turns and a file that is no entry, a batch of one (so that a pass takes several), two errors, timeouts or deaths of the child, one death of the host or power loss.
* `governed_state`, revocations: two tokens of one actor issued and expiring at different times, room for one of them, two mutations, one I/O error, two ends of the leader.
* `governed_state`, claim counter: two codes, two machines, one operator action (an edit or a deletion), one failed write, one end of the daemon or power loss, two instants. States behind an excused event are not explored further (`Explored`): the properties hold there by their excuse, and it is never taken back.
* `claim_reissue`: one code, two machines, one failed write.

## Fairness

`ServedCall` assumes weak fairness of the steps of a dispatch or a start that has begun, taken as
one action; no liveness is checked of `DurableDeployment`.  The server is one thread that waits for nothing but
the file system, and every system call returns, with success or with an error; both outcomes are
steps.  Nothing is assumed of clients, of crashes or of when a start is attempted again
in ServedCall beyond that a process that is down is started again.
* GenerationStore: weak fairness of the steps of an open or a publication under way, and of opening a closed store: a server that is restarted opens its tenants' stores. No fairness of callers, and interruptions are finitely many.
* KeyRotation: weak fairness of opening a closed store and of the steps under way; none of the owner, the operator or the interruptions.
`BackupRestore` assumes weak fairness of a backup and of a restore that has begun, as above, and strong fairness of beginning a recovery and of clearing staging while the tenant is frozen: the operator of a frozen tenant tries again, and empties a staging directory that `stage_restore` refuses, as its error asks.
* CaptureOutbox: weak fairness of the event loop, of the server's work and of a harness that is stopped and started again some time. The last is needed: nothing else retries a capture whose pass failed when no further turn ends.

## Proofs

**ServedCall** (`ServedCallProofs`).  From `ConstantsAssumption` alone (any set of requests, any
budget, any bounds): `ServedInvariant`, `TypeCorrect`, `BillingSafe`.  With the further assumption
that a checkpoint reporting an error wrote nothing (`SplitCheckpoint = FALSE`), which the run
`served_split` shows to be needed: `EffectsHappenOnce`, `EffectsAreBilled`, `ImplementsContract`.

The argument: `BilledOnce` is not inductive.  `LedgerInv` says that the deployment in memory is the
ledger on disk plus at most the one charge in flight (`Reserved` program points) and equals it at
the others (`Level`); `CallInv` ties the call in flight to an attempt nobody was answered for;
`WitnessInv` says what each durable witness stands for — a marker in `succeeded` or a `persist` step
stands for an effect in Core, a receipt for a billed request.  Together with `TypeOK` they are
`ServedInv`.  For `EffectOnce`, `EffectInv` adds that an effect not billed yet is the one the marker
tells of, at a program point from which Core cannot run again before it is billed; an effect that is billed
is kept from running by the replay check.

`ProjectionsKept` needs no assumption on checkpoints.  `ProjectionInv` adds to the invariant itself
that the receipt on disk is the one memory knows of and that no ingest gets past admission while one
is pending, so that a receipt is never overwritten before its projection is in the store.  The last
two theorems assume `SplitCheckpoint = FALSE`.  `RecordsAreTruthful` rests on `AnswerInv` (every
answer by what it stands for, attempts not drawn yet without a trace) and `JournalInv` (the journal
knows of every effect but the one the marker tells of).  `RefusalsAreExplained` rests on `RestartInv`:
nothing is published after the effect of the marker, a recovered success fits the budget and the
receipt, and without I/O errors journal and marker agree (`Quiet`).  It also assumes that there are no
audits by somebody else than the configured principal (`Audits = {}`), whose markers
`served_audit` shows to stop the next start.

TLC checked each conjunct before it was proved.  The second instance of the run, `TightSafe`, is
covered by these theorems for every budget; it stays in the run for its mutants and its liveness.

**DurableDeployment** (`DurableDeploymentProofs`).  For any tenants, budget, segment size and bounds on
crashes and errors, for the owner that does not start on a torn tail, as `Server::new` does
(`DeploymentSane`): `DeploymentSafe`, `AckedReadable`, `LedgersMatch`, `RefusalsKnown`,
`ImplementsAuditLedger`.  None of the properties is inductive.  `DeploymentInv` says, beside types, what the files
are (`FilesInv`: segments are whole lines, and a line of the live file that does not parse is the rest
of one that a failed write rolled back), what they say (`BookInv`: the history is dense, begins
with every answered decision and is within the budgets, and the checkpoint's ledger is what the part
before its watermark charged), and what memory is to them (`MemoryInv`: the same history and at most the decision
in flight, of which nothing, half or the rest is in the file or in the writer, by program point).  The lemmas
below it are about framing (what `CommittedLen`, `Records` and `FlattenSeq` make of a file that is
extended, cut or sealed) and about running sums (what the restore folds past a watermark and what
is before it add up to the cost of the trail).  Both are inductions over the length, see below.
`ImplementsAuditLedger` takes each step to a step of `AuditLedger` or a stutter under the mapping of the run
`durable_state`.  `RefusalsKnown` is the first half of `RefusalExplained`.  Its second half, that a
`corrupt` refusal needs an I/O error, also needs an invariant of the rule journal; it and
`AnswersOnlyGrow` stay with TLC.

**ReplayMemory** (`ReplayMemoryProofs`).  For any finite set of tenants, any ids, any capacity:
`TypesKept`, `StructuresAlwaysAgree`, `MemoryStaysBounded`, `SingleTenantIsWindow`,
`ShareAlwaysKept`.  `StructuresAgree` is inductive only with the bound on `order` (the loop over the
common queue then runs at most once), which in turn needs its exact length, the smaller of the
number of decisions and the memory.  `SingleTenantWindow` needs `Lockstep`: with one tenant the
common queue is the tenant's queue, entry by entry, so that both bounds let go of the same key.  The
step is `RememberAgrees`, built on two lemmas about sequences: what removing an id from a queue
without repeats leaves (`WithoutIdLemma`) and what the tenant's bound keeps (`OwnLemma`).

`FreshKeysAreKept` is the theorem clients rely on.  `FreshKeyKept` counts later decisions of the
tenant, the code evicts by position in two queues; `QueuesFollowJournal` ties them together: the common
queue is the end of the journal, and a key has no more keys behind it in its tenant's queue than the
tenant decided afterwards.  With it the key can leave neither by the share nor by the common bound.
The step is proved per eviction; a tenant added meanwhile only makes the share, and so the
promise, smaller.

**ApprovalStore** (`ApprovalStoreProofs`).  From `ApprovalAssumption` (any number of ids, any
requests, any bounds): `StoreTypes`, `AcknowledgedRevocationsHold`, `SnapshotAlwaysASave`,
`LoadRefusalsExplained`, `GateAlwaysSound`.  `AckedRevocationHolds` is not inductive, because a
process that is down holds nothing: `AckedOnDisk` says that every acknowledged record is among the
synced lines.  `LoadRefusalExplained` needs `AgreeInv`: every snapshot that can be found after a
power loss is one `from_snapshot` accepts (`AllSound`), contradicts no line of the sidecar
(`SidecarAgrees`), and holds no revocation that the process does not know (`MemoryKnows`), each up
to what the caller left out of a save.  `GateAlwaysSound` rests on `LargestExists` (a nonempty set
of numbers below a bound has a largest member), proved from the well-foundedness of the naturals.

**GenerationStore** (`GenerationStoreProofs`).  From `GenerationAssumption` (any lineage that is
transitive and irreflexive, any number of generations and interruptions): `Typing`, `Readability`,
`AckedKept`, `Recovery`, `PurgeIsPhysical`.  All follow from `IInv`: each step but an open starts from
a synced tenant directory and the generation its selector names (`Flow`), what is being published
has the tombstones of the owner or those of the intent (`JobOK`), selector, intent and floor agree in
every content of the directory that can be left (`AllAgree`), the artifacts a selector is about to
name are durable (`Written`), and each promised purge is pending in all contents or gone from all
(`PromisesOK`).  The documentation of the purge claims no guarantee for power cuts; the proofs show
what follows if a sync makes renames, unlinks and files durable and nothing else is lost.
`PurgeCompletes` is liveness and only model-checked.

**KeyRotation** (in `GenerationStoreProofs`, as `Rot`).  For any keys, generations and interruptions, as long as the
marks of the model are not keys (`KeysSane`): `RetiredKeysUnneeded`, that is `Rot!Spec => []Rot!RetiredKeyUnneeded`
(the run `durable_state` checks it under an instance of the module, as part of its own invariants).
Three arguments meet.  No step leaves behind a file or a temporary that was not there and is not under
the active key (`WritesActive`).  Each phase of a rotation has achieved something for good
(`PhasesInv`): the loop rewraps file by file, the cleanup settles directory by directory, and only then
the intent goes.  So what a rotation answers for has converged, on disk as well, when the operator
retires a key (`KeysInv`).  `RotationResumes` is liveness and only model-checked.

**BackupRestore** (`BackupRestoreProofs`).  For any number of publishers, generations, versions and
interruptions: `BackupTypes`, `LiveStaysDurable`, `RecoveriesAreWhole`; and `BackupsStayComplete` where no
two callers publish the same generation at once (`Together = FALSE`), without which it is false.  Types
are inductive with what staging holds at each step (`StagedInv`).  `PublishInv` says what a publisher has
established at each point of `publish_backup` — its directory is its own, what it renames is what it
read back, an earlier attempt's rename is synced before the directory is written again — `PromoteInv`
which live generation may still be unsynced, and `RecoveryInv` that what was located, or was replayed and
passed the verification, is what is promoted and linked, with the flag set from the first step.  The steps are
split by actor: a publisher and a recovery write disjoint files (`PublishingFrame` and its
twin), so each invariant has work in one half only.  `RecoveryCompletes` is liveness and
only model-checked.

**KnowledgePlane, DecisionService** (`DecisionServiceProofs`).  For any sources, evidence, entities, facts, drafts
and batches of operations, as long as a journal stays shorter than the number that stands for "never"
(`ServiceSane`): `ServiceSafe`, `DurableLinesKept`, `ContradictionsShown`, `HistoryReplays`, `AnchorsStaySound`,
`JournalsStayKept`.  The first half is about the pure state: `Sound(st, n)` holds of the state after n admitted
operations (facts are dated within the journal, and every pair of contradicting facts in force is exposed
by a conflict set that was not resolved after both), by induction over the journal with one lemma per
kind of operation; what the state of n lines shows of an earlier transaction is what the state of that
transaction has.  The second half is about the files: `ServiceInv` says that memory is a prefix of the
lines and all of them while the store is open, that acknowledged lines are among the synced ones, that both
journals replay, and that every `firm` decision names a synced line, in a file whose entry is on disk, whose state is its anchor.  `Kept` is
what every step of a store satisfies (it takes no synced line, or the whole file while its entry is
loose); it carries the anchors from one step to the next.

**RevocationStore** (in `ApprovalStoreProofs`, as `Rev`).  For any tokens, times of issue and expiry
that are numbers, and capacity (`RevocationSane`): `RevocationSafe`, `DenialsAlwaysHold`,
`RevocationsAlwaysLoad`.  Neither property is inductive: a leader that is down holds no list, and a replica's list comes
from a snapshot and a journal read at different moments.  `DenialInv` therefore says of every snapshot that
can be found, also after a power loss, and of the one a refresh has read, that it and the durable
lines past its watermark have every owed denial with no restore behind it (`Covers`), and that a restore
which is in the file uncounted, or still in the `BufWriter`, was asked for (`RestoresAsked`).
`LoadInv` relates lists to the lines they count (`Standing`) and lines to the ones before
them (`Fits`); both are stated up to what has expired by now, and `StandsLater` is the reason why a replay that prunes by a
later clock refuses nothing.  What the recursive `Replay` computes is an induction over the lines past the
watermark (`AppliedExists`, `Along`).

**ClaimCounter** (`ClaimCounterProofs`).  For any machines and bounds and any nonempty set of
codes: `SeatIsSoldOnce`, `RevokedIsNotSold`.  Neither is inductive: `IInv` adds, while nothing excused
has happened, that the file, and the daemon's copy when the file is gone, knows every seat that was sold, revoked
or handed out (`Keeps`, `LedgerInv`); that the daemon's copy is what its fingerprint stands for
and equals the file from the refresh to the token (`ClaimInv`); and that a token's arming is not in
the future (`TokensInv`).  The steps are grouped by actor: `DaemonReads`, `DaemonSaves`,
`TokenDisclosed`, `OtherSteps`, `OperatorWrites`.

Some invariants are proved and no longer in a run, because the proof says more than the run did:
the type invariants of these modules, `BilledOnce` and `NoFreeEffect` (ServedCall),
`StructuresAgree`, `MemoryBounded` and `SingleTenantWindow` (ReplayMemory), `SnapshotIsASave`,
`LoadRefusalExplained` and `GateSound` (ApprovalStore), `SelectedReadable` and `RecoveryAccepts`
(GenerationStore).

What stays with TLC, and why:

* Liveness under fairness, everywhere: `ENABLED` is beyond this prover.
* `Admission` and `RoleBook` (`BooksBalance`, `RestoreFaithful`, `ReplayExact`, `TrailExplains`, `SwitchTransacts`): the inductive invariant
  would have to relate a whole deployment to a snapshot of it, component by component; the runs check it on
  small deployments.
* `CaptureOutbox` (`CapturedExactly`, `FlushDelivers`): not attempted.
* `QueriesExact`: the traversals are `RECURSIVE` operators, in whose modules the prover loses its SMT backend.
* The second half of `RefusalExplained` (DurableDeployment), and what the violation runs state, which is false.

Induction over data is available in one form.  The library's induction theorems take an operator as a
parameter, which no backend here instantiates; the proofs use the set form instead (`Counting`: a set of naturals
that has 0 and with each number its successor has all of them), proved from the well-foundedness of
the naturals.  A recursive function is first shown to exist on every initial segment, by that
induction, and then unfolded.

## What is not modelled, and the limits of what is

* Process death, not power loss, in DurableDeployment and ServedCall: what `write` returned for is kept, `sync`
  failures are errors.
* ServedCall: unknown tools, host lifecycle events, what a read returns, and a rollback whose
  in-memory restore itself fails.  Replay
  memory never evicts there (`ReplayMemory` models it).
* The adapter: the harness's own hooks, the recall and context tools, and what a capture says.
* Revocations: verification of tokens and certificates, and the guard against replayed single-use
  tokens, which keeps nothing on disk.
* The claim counter: signatures, HTTP framing, and the licence a token opens.
* Hash chains, encryption, tokens and certificates are taken as working.
* Numerical parts (ranking, embedding, compression) are outside a model checker's reach.

## Plan

1. **Core transaction** (done): DurableDeployment, ServedCall, their abstract specifications, proofs about ServedCall.
2. The bounded replay memory of the runtime, with proofs (done: ReplayMemory).
3. The full admission order of `Deployment::decide`, cells, roles, variants and the model switch (done: Admission, RoleBook); the store of approvals, with proofs (done: ApprovalStore).
4. Octasoma's generation store: selector, artifacts, purge intent and floor, with proofs (done: GenerationStore); key rotation (done: KeyRotation).
5. Backup generations, knowledge and decision journals, revocations (done: BackupRestore, KnowledgePlane, DecisionService, RevocationStore); the claim counter, with proofs (done: ClaimCounter).
6. The adapter's outbox (done: CaptureOutbox); the calls the server answers itself (done: ServedCall); open: the composition of the outbox with every program point of ServedCall.
7. Open: retention, sessions, skills, the projection store.
