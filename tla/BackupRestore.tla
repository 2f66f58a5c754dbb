--------------------------- MODULE BackupRestore ---------------------------
(***************************************************************************)
(* One tenant's backups and their recovery: create_backup publishes an     *)
(* immutable generation and then the `current` pointer; stage_restore and  *)
(* promote_staged bring one back behind the `live` pointer;                *)
(* run_disaster_recovery does so with the journal tail replayed.           *)
(* Recovery sets BackupPolicy.writes_frozen, but no code reads the flag:   *)
(* the tenant may write at any time.                                       *)
(*                                                                         *)
(* Nothing locks the directories: publishers and a recovery interleave at  *)
(* every file operation.  Any of them may stop there, with an error or     *)
(* with its process, and the power may fail.  write_durable syncs the file *)
(* and every directory above it; a rename that no sync of its directory    *)
(* followed may be undone by a power loss.                                 *)
(*                                                                         *)
(* The tenant's data is a version number, `head`: what its journal holds.  *)
(* A backup's segments hold a version; replaying the tail brings them to   *)
(* `head`.  A generation is named by its time stamp and its digest, which  *)
(* stands for its version.                                                 *)
(***************************************************************************)
EXTENDS Integers

CONSTANTS
    Publishers,        \* processes that create backups
    Together,          \* TRUE: two of them may publish one generation at once
    MaxHead,           \* bound: versions of the tenant's data
    MaxClock,          \* bound: seconds that pass
    MaxChanges,        \* bound: both together
    MaxBackups,        \* bound: calls of create_backup
    MaxRestores,       \* bound: restores an operator begins
    MaxStops           \* bound: errors, process deaths, power losses

ASSUME BoundsAssumption == MaxHead \in Nat /\ MaxClock \in Nat

Gens == [at : 0 .. MaxClock, body : 0 .. MaxHead]
NoGen == [at |-> -1, body |-> -1]

\* A `live` that is a directory of an older layout, not a symlink.
LegacyLive == [at |-> -2, body |-> -1]

\* A generation's directory is the set of what is in it, {} if it is not there.
Complete == {"dir", "segments", "manifest"}

VARIABLES
    temp, gens,        \* generations/tmp-<id> and generations/<id>
    loose,             \* ids whose rename into place no sync has followed
    current,           \* the generation `current` names
    currentDisk,       \* what `current` may be after a power loss
    pub,               \* each publisher: where it is and its generation
    head, frozen,      \* the tenant's data, and BackupPolicy.writes_frozen
    rec,               \* the restore or recovery under way
    staging,           \* the staging directory
    lives, liveLoose,  \* live generations, and those renamed but not synced
    live, liveDisk,    \* the `live` symlink, and what a power loss may leave
    cut,               \* history: promotions that stopped before their sync
    sealed,            \* history: backups whose create_backup returned Ok
    clock, stops,
    calls              \* how many backups and restores were begun

target == <<temp, gens, loose, current, currentDisk>>
restored == <<lives, liveLoose, live, liveDisk, cut>>
vars == <<target, pub, head, frozen, rec, staging, restored, sealed,
                clock, stops, calls>>

NoStaging == [state |-> "absent", man |-> NoGen, body |-> -1]
Idle == [pc |-> "idle", gen |-> NoGen]

\* `owed` is history: the version a restore was asked for, or that the journal
\* held when a recovery set the freeze.
AtRest == [pc |-> "idle", mode |-> "none", gen |-> NoGen, now |-> 0, owed |-> 0]

Init ==
    /\ temp = [g \in Gens |-> {}] /\ gens = [g \in Gens |-> {}]
    /\ loose = {} /\ current = NoGen /\ currentDisk = {NoGen}
    /\ pub = [p \in Publishers |-> Idle]
    /\ head = 0 /\ frozen = FALSE /\ rec = AtRest
    /\ staging \in {NoStaging, [NoStaging EXCEPT !.state = "empty"]}
    /\ lives = {} /\ liveLoose = {} /\ live \in {NoGen, LegacyLive} /\ liveDisk = {live}
    /\ cut = {} /\ sealed = {} /\ clock = 0 /\ stops = 0
    /\ calls = [backups |-> 0, restores |-> 0]

-----------------------------------------------------------------------------
(* create_backup *)

\* read_backup: `current` names a generation that is there and verifies.
ReadsBack == current \in {g \in Gens : gens[g] = Complete}

At(p, from, to) == pub[p].pc = from /\ pub' = [pub EXCEPT ![p].pc = to]
Stop(p) == pub' = [pub EXCEPT ![p] = Idle]
KeepRecovery == UNCHANGED <<head, frozen, rec, staging, restored, clock, stops>>
Begun(kind, most) == calls[kind] < most /\ calls' = [calls EXCEPT ![kind] = @ + 1]

\* The caller hands over the tenant's segments and the time.
Publish(p) ==
    LET g == [at |-> clock, body |-> head] IN
    /\ pub[p].pc = "idle" /\ Begun("backups", MaxBackups)
    /\ Together \/ \A q \in Publishers : pub[q].gen # g
    /\ pub' = [pub EXCEPT ![p] = [pc |-> "clear", gen |-> g]]
    /\ UNCHANGED <<target, sealed>> /\ KeepRecovery

\* A left-over temporary directory is removed, an empty one created.
ClearTemp(p) ==
    /\ At(p, "clear", "segments")
    /\ temp' = [temp EXCEPT ![pub[p].gen] = {"dir"}]
    /\ UNCHANGED <<gens, loose, current, currentDisk, sealed>> /\ KeepRecovery

\* Mutant: only the file's own directory is synced, not those above it.
WriteFileUnsynced(p, from, to, file) ==
    /\ At(p, from, to)
    /\ temp' = [temp EXCEPT ![pub[p].gen] = @ \cup {"dir", file}]
    /\ UNCHANGED <<gens, loose, current, currentDisk, sealed>> /\ KeepRecovery

\* write_durable of the segments and then of the manifest: `generations` is
\* one of the directories it syncs.
WriteFile(p, from, to, file) ==
    /\ At(p, from, to)
    /\ temp' = [temp EXCEPT ![pub[p].gen] = @ \cup {"dir", file}]
    /\ loose' = {}
    /\ UNCHANGED <<gens, current, currentDisk, sealed>> /\ KeepRecovery

\* The temporary directory is read back and verified.
CheckTemp(p) ==
    LET g == pub[p].gen IN
    /\ pub[p].pc = "check"
    /\ \/ temp[g] = Complete /\ At(p, "check", "place")
       \/ temp[g] # Complete /\ Stop(p)
    /\ UNCHANGED <<target, sealed>> /\ KeepRecovery

\* The same generation is there already: it is verified and the new copy is
\* removed.  Otherwise the copy is renamed into place, then synced.
PlaceTemp(p) ==
    LET g == pub[p].gen IN
    /\ pub[p].pc = "place"
    /\ \/ /\ gens[g] = Complete /\ At(p, "place", "current")
          /\ temp' = [temp EXCEPT ![g] = {}] /\ UNCHANGED <<gens, loose>>
       \/ /\ gens[g] = {} /\ temp[g] # {} /\ At(p, "place", "sync")
          /\ gens' = [gens EXCEPT ![g] = temp[g]]
          /\ temp' = [temp EXCEPT ![g] = {}]
          /\ loose' = loose \cup {g}
       \/ /\ gens[g] \notin {{}, Complete} \/ (gens[g] = {} /\ temp[g] = {})
          /\ Stop(p) /\ UNCHANGED <<temp, gens, loose>>
    /\ UNCHANGED <<current, currentDisk, sealed>> /\ KeepRecovery

SyncGenerations(p) ==
    /\ At(p, "sync", "current") /\ loose' = {}
    /\ UNCHANGED <<temp, gens, current, currentDisk, sealed>> /\ KeepRecovery

\* write_durable of `current`: the rename, and then the sync of its directory.
PointCurrent(p) ==
    /\ At(p, "current", "pointed")
    /\ current' = pub[p].gen /\ currentDisk' = currentDisk \cup {pub[p].gen}
    /\ UNCHANGED <<temp, gens, loose, sealed>> /\ KeepRecovery

SyncCurrent(p) ==
    /\ At(p, "pointed", "verify") /\ currentDisk' = {current}
    /\ UNCHANGED <<temp, gens, loose, current, sealed>> /\ KeepRecovery

\* verify_backup: what `current` names now has to be this very backup.
VerifyBackup(p) ==
    /\ pub[p].pc = "verify" /\ Stop(p)
    /\ sealed' = IF ReadsBack /\ current = pub[p].gen
                THEN sealed \cup {current} ELSE sealed
    /\ UNCHANGED target /\ KeepRecovery

PublishStep(p) ==
    /\ \/ ClearTemp(p)
       \/ WriteFile(p, "segments", "manifest", "segments")
       \/ WriteFile(p, "manifest", "check", "manifest")
       \/ CheckTemp(p) \/ PlaceTemp(p) \/ SyncGenerations(p)
       \/ PointCurrent(p) \/ SyncCurrent(p) \/ VerifyBackup(p)
    /\ UNCHANGED calls

-----------------------------------------------------------------------------
(* stage_restore, promote_staged and run_disaster_recovery *)

Step(from, to) == rec.pc = from /\ rec' = [rec EXCEPT !.pc = to]
KeepTarget == UNCHANGED <<target, pub, sealed, head, clock>>
Count == stops < MaxStops /\ stops' = stops + 1

\* An error: the attempt is over, a recovery stays frozen.
FailClosed == rec' = AtRest

\* run_disaster_recovery sets the freeze first; an operator's restore does not.
BeginRecovery ==
    /\ rec.pc = "idle"
    /\ rec' = [AtRest EXCEPT !.pc = "locate", !.mode = "recovery", !.now = clock, !.owed = head]
    /\ frozen' = TRUE
    /\ KeepTarget /\ UNCHANGED <<staging, restored, stops, calls>>

BeginRestore ==
    /\ rec.pc = "idle" /\ Begun("restores", MaxRestores)
    /\ rec' = [AtRest EXCEPT !.pc = "locate", !.mode = "restore"]
    /\ KeepTarget /\ UNCHANGED <<frozen, staging, restored, stops>>

\* read_manifest: a published generation that reads back.
Locate ==
    /\ rec.pc = "locate"
    /\ \/ /\ ReadsBack
          /\ rec' = [rec EXCEPT !.pc = IF rec.mode = "recovery" THEN "verify" ELSE "stage",
                               !.gen = current,
                               !.owed = IF rec.mode = "recovery" THEN @ ELSE current.body]
       \/ ~ReadsBack /\ FailClosed
    /\ KeepTarget /\ UNCHANGED <<frozen, staging, restored, stops>>

\* verify_backup reads `current` again.
VerifyLocated ==
    /\ rec.pc = "verify"
    /\ \/ ReadsBack /\ current = rec.gen /\ Step("verify", "stage")
       \/ ~(ReadsBack /\ current = rec.gen) /\ FailClosed
    /\ KeepTarget /\ UNCHANGED <<frozen, staging, restored, stops>>

StagedAs(g) == [state |-> "full", man |-> g, body |-> g.body]

\* stage_restore reads `current` a third time.  A staging directory that holds
\* exactly this backup is used, an empty one replaced, any other one refused.
Stage ==
    /\ rec.pc = "stage"
    /\ \/ /\ ReadsBack /\ current = rec.gen
          /\ staging.state # "full" \/ staging = StagedAs(rec.gen)
          /\ staging' = StagedAs(rec.gen)
          /\ Step("stage", IF rec.mode = "recovery" THEN "replay" ELSE "promote")
       \/ /\ \/ ~(ReadsBack /\ current = rec.gen)
             \/ staging.state = "full" /\ staging # StagedAs(rec.gen)
          /\ FailClosed /\ UNCHANGED staging
    /\ KeepTarget /\ UNCHANGED <<frozen, restored, stops>>

\* The caller's replay of the journal tail into staging.  One that goes wrong
\* has applied any part of the tail, and says so or does not.
ReplayTail ==
    /\ rec.pc = "replay"
    /\ \/ /\ staging' = [staging EXCEPT !.body = head]
          /\ Step("replay", "reseal") /\ UNCHANGED stops
       \/ /\ \E b \in staging.body .. head : staging' = [staging EXCEPT !.body = b]
          /\ FailClosed \/ Step("replay", "reseal")
          /\ Count
    /\ KeepTarget /\ UNCHANGED <<frozen, restored>>

\* Mutant: promoted first, and verified in its public place.
ResealPublished ==
    /\ Step("reseal", "promote")
    /\ staging' = [staging EXCEPT !.man = [at |-> rec.now, body |-> staging.body]]
    /\ KeepTarget /\ UNCHANGED <<frozen, restored, stops>>

\* reseal_staged_after_replay: a manifest of what is in staging now.
Reseal ==
    /\ Step("reseal", "examine")
    /\ staging' = [staging EXCEPT !.man = [at |-> rec.now, body |-> staging.body]]
    /\ KeepTarget /\ UNCHANGED <<frozen, restored, stops>>

\* The caller's end-to-end verification of the replayed candidate: it accepts
\* none that misses a record from before the freeze, and may refuse any.
Examine ==
    /\ rec.pc = "examine"
    /\ \/ staging.body >= rec.owed /\ Step("examine", "promote") /\ UNCHANGED stops
       \/ staging.body >= rec.owed /\ FailClosed /\ Count
       \/ staging.body < rec.owed /\ FailClosed /\ UNCHANGED stops
    /\ KeepTarget /\ UNCHANGED <<frozen, staging, restored>>

\* Mutant: the rename of the new generation is not synced.
PromoteUnsettled ==
    LET g == staging.man IN
    /\ rec.pc = "promote"
    /\ \/ /\ live # LegacyLive /\ g.body = staging.body
          /\ rec' = [rec EXCEPT !.pc = "link", !.gen = g]
          /\ staging' = NoStaging
          /\ lives' = lives \cup {g} /\ liveLoose' = liveLoose \cup {g}
       \/ /\ live = LegacyLive \/ g.body # staging.body
          /\ FailClosed /\ UNCHANGED <<staging, lives, liveLoose>>
    /\ KeepTarget /\ UNCHANGED <<frozen, live, liveDisk, cut, stops>>

\* Mutant: a generation an interrupted promotion left in place is an error.
PromoteOnce ==
    LET g == staging.man IN
    /\ rec.pc = "promote"
    /\ \/ /\ live # LegacyLive /\ g.body = staging.body /\ g \notin lives
          /\ rec' = [rec EXCEPT !.pc = "settle", !.gen = g]
          /\ staging' = NoStaging
          /\ lives' = lives \cup {g} /\ liveLoose' = liveLoose \cup {g}
       \/ /\ live = LegacyLive \/ g.body # staging.body \/ g \in lives
          /\ FailClosed /\ UNCHANGED <<staging, lives, liveLoose>>
    /\ KeepTarget /\ UNCHANGED <<frozen, live, liveDisk, cut, stops>>

\* promote_staged verifies staging once more and refuses a legacy `live`; a
\* generation of the same id is kept and staging removed, otherwise staging
\* becomes the generation.
Promote ==
    LET g == staging.man IN
    /\ rec.pc = "promote"
    /\ \/ /\ live # LegacyLive /\ g.body = staging.body /\ g \in lives
          /\ rec' = [rec EXCEPT !.pc = "link", !.gen = g]
          /\ staging' = NoStaging /\ UNCHANGED <<lives, liveLoose>>
       \/ /\ live # LegacyLive /\ g.body = staging.body /\ g \notin lives
          /\ rec' = [rec EXCEPT !.pc = "settle", !.gen = g]
          /\ staging' = NoStaging
          /\ lives' = lives \cup {g} /\ liveLoose' = liveLoose \cup {g}
       \/ /\ live = LegacyLive \/ g.body # staging.body
          /\ FailClosed /\ UNCHANGED <<staging, lives, liveLoose>>
    /\ KeepTarget /\ UNCHANGED <<frozen, live, liveDisk, cut, stops>>

SettleLive ==
    /\ Step("settle", "link") /\ liveLoose' = {}
    /\ KeepTarget /\ UNCHANGED <<frozen, staging, lives, live, liveDisk, cut, stops>>

\* A new symlink is renamed over `live`, ...
LinkLive ==
    /\ Step("link", "linked") /\ live' = rec.gen /\ liveDisk' = liveDisk \cup {rec.gen}
    /\ KeepTarget /\ UNCHANGED <<frozen, staging, lives, liveLoose, cut, stops>>

\* ... its directory synced, and a recovery lifts the freeze.
Unfreeze ==
    /\ rec.pc = "linked" /\ rec' = AtRest /\ liveDisk' = {live}
    /\ frozen' = (frozen /\ rec.mode # "recovery")
    /\ KeepTarget /\ UNCHANGED <<staging, lives, liveLoose, live, cut, stops>>

RecoveryStep ==
    /\ \/ Locate \/ VerifyLocated \/ Stage \/ ReplayTail \/ Reseal \/ Examine
       \/ Promote \/ SettleLive \/ LinkLive \/ Unfreeze
    /\ UNCHANGED calls

-----------------------------------------------------------------------------
(* The environment *)

\* The tenant writes, whether or not writes are frozen: admission does not ask.
TenantWrites ==
    /\ head < MaxHead /\ head + clock < MaxChanges /\ head' = head + 1
    /\ UNCHANGED <<target, pub, frozen, rec, staging, restored, sealed, clock, stops, calls>>

Tick ==
    /\ clock < MaxClock /\ head + clock < MaxChanges /\ clock' = clock + 1
    /\ UNCHANGED <<target, pub, head, frozen, rec, staging, restored, sealed, stops, calls>>

\* The operator empties a staging directory nothing is using.
ClearStaging ==
    /\ rec.pc = "idle" /\ staging.state = "full" /\ staging' = NoStaging
    /\ UNCHANGED <<target, pub, head, frozen, rec, restored, sealed, clock, stops, calls>>

\* A promotion that stops between its rename and its sync.
CutShort == IF rec.pc = "settle" THEN cut \cup {rec.gen} ELSE cut

StopPublisher(p) ==
    /\ Count /\ pub[p].pc # "idle" /\ Stop(p)
    /\ UNCHANGED <<target, head, frozen, rec, staging, restored, sealed, clock, calls>>

StopRecovery ==
    /\ Count /\ rec.pc # "idle" /\ rec' = AtRest
    /\ cut' = CutShort
    /\ UNCHANGED <<target, pub, head, frozen, staging, lives, liveLoose, live,
                   liveDisk, sealed, clock, calls>>

\* Every process stops; each rename not synced is kept or undone.
PowerLoss ==
    /\ Count
    /\ pub' = [p \in Publishers |-> Idle] /\ rec' = AtRest
    /\ \E undone \in SUBSET loose :
          /\ gens' = [g \in Gens |-> IF g \in undone THEN {} ELSE gens[g]]
          /\ temp' = [g \in Gens |-> IF g \in undone THEN gens[g] ELSE temp[g]]
    /\ loose' = {}
    /\ \E c \in currentDisk : current' = c /\ currentDisk' = {c}
    /\ \E undone \in SUBSET liveLoose :
          /\ lives' = lives \ undone
          /\ staging' \in {staging} \cup {StagedAs(g) : g \in undone}
    /\ liveLoose' = {}
    /\ \E l \in liveDisk : live' = l /\ liveDisk' = {l}
    /\ cut' = CutShort
    /\ UNCHANGED <<head, frozen, sealed, clock, calls>>

Next ==
    \/ \E p \in Publishers : Publish(p) \/ PublishStep(p) \/ StopPublisher(p)
    \/ BeginRecovery \/ BeginRestore \/ RecoveryStep \/ StopRecovery
    \/ TenantWrites \/ Tick \/ ClearStaging \/ PowerLoss

\* Nobody waits for anybody: a backup or a restore that has begun goes on, and
\* a frozen tenant is recovered again, after the operator cleared staging.
Fairness ==
    /\ \A p \in Publishers : WF_vars(PublishStep(p))
    /\ WF_vars(RecoveryStep)
    /\ SF_vars(frozen /\ BeginRecovery)
    /\ SF_vars(frozen /\ ClearStaging)

Spec == Init /\ [][Next]_vars /\ Fairness

-----------------------------------------------------------------------------
(* Properties *)

\* Where the two kinds of process can be between two steps.
PublisherAt == {"clear", "segments", "manifest", "check", "place", "sync", "current", "pointed", "verify"}
RecoveryAt == {"locate", "verify", "stage", "replay", "reseal", "examine", "promote", "settle", "link",
               "linked"}

\* Type correctness of the directories, the pointers and the two processes.
TypeOK ==
    /\ temp \in [Gens -> SUBSET Complete] /\ gens \in [Gens -> SUBSET Complete]
    /\ loose \subseteq Gens /\ current \in currentDisk /\ currentDisk \subseteq Gens \cup {NoGen}
    /\ pub \in [Publishers -> {Idle} \cup [pc : PublisherAt, gen : Gens]]
    /\ head \in 0 .. MaxHead /\ frozen \in BOOLEAN /\ clock \in 0 .. MaxClock
    /\ rec \in [pc : {"idle"} \cup RecoveryAt, mode : {"none", "restore", "recovery"},
               gen : Gens \cup {NoGen}, now : 0 .. MaxClock, owed : 0 .. MaxHead]
    /\ staging \in [state : {"absent", "empty", "full"}, man : Gens \cup {NoGen}, body : -1 .. MaxHead]
    /\ lives \subseteq Gens /\ liveLoose \subseteq Gens /\ cut \subseteq Gens
    /\ live \in liveDisk /\ liveDisk \subseteq Gens \cup {NoGen, LegacyLive}
    /\ sealed \subseteq Gens
    /\ stops \in Nat /\ calls \in [backups : Nat, restores : Nat]

\* A complete generation is published before `current` names it, in whatever
\* state a power loss leaves the two directories: publish_backup, retried over
\* what an interrupted one left, and beside other publishers.  And creating a
\* backup never touches an earlier one: what create_backup returned Ok for
\* stays complete.
BackupsComplete ==
    \A g \in (currentDisk \cup sealed) \ {NoGen} : gens[g] = Complete /\ g \notin loose

\* The live generation is there whatever a power loss takes away, unless an
\* earlier promotion of the same generation stopped between its rename and its
\* sync: promote_staged does not sync a generation it finds in place.
LiveDurable ==
    \A g \in liveDisk : g \in Gens => g \in cut \/ (g \in lives /\ g \notin liveLoose)

\* What the restore under way may publish: the backup that was asked for, or, in
\* a recovery, at least what the journal held when writes were to be frozen.
Settles(body) ==
    IF rec.mode = "recovery" THEN body >= rec.owed ELSE body = rec.owed

\* Nothing is published that misses a record it owes.  stage_restore and
\* promote_staged move `live` to the very backup that was located, whatever is
\* published between the reads of `current`; run_disaster_recovery moves it to a
\* candidate with every record from before the freeze, verified before it is
\* public, whatever the replay reported and an earlier attempt left in staging.
\* "Any error leaves policy.writes_frozen": the flag is set at that move, and only
\* a recovery that got there clears it.  (Records the tenant writes during the
\* recovery may be missing: admission does not read the flag.)
RecoveredWhole ==
    [][/\ live' # live /\ stops' = stops =>
             Settles(live'.body) /\ (rec.mode = "recovery" => frozen)
       /\ frozen /\ ~frozen' => rec.mode = "recovery" /\ Settles(live'.body)]_vars

\* A tenant that is frozen and has an acknowledged backup is recovered at last:
\* left-over work directories, interrupted promotions and backups published in
\* between delay a recovery and never block it, if the operator clears a staging
\* directory that stage_restore refuses.
RecoveryCompletes ==
    (frozen /\ sealed # {} /\ live # LegacyLive) ~> ~frozen

-----------------------------------------------------------------------------
(* Inductive invariants *)

\* What publish_backup has established at each step, when no two callers publish
\* one generation at once: its directory is its own; from write_durable of the
\* segments on, an earlier attempt's rename is synced; what it renames is what
\* it read back, and what it points `current` at is in place.
PublishInv ==
    /\ \A p, q \in Publishers : pub[p].pc # "idle" /\ pub[p].gen = pub[q].gen => p = q
    /\ \A p \in Publishers :
          /\ pub[p].pc \in {"manifest", "check", "place", "current"} => pub[p].gen \notin loose
          /\ pub[p].pc = "place" => temp[pub[p].gen] = Complete
          /\ pub[p].pc \in {"sync", "current"} => gens[pub[p].gen] = Complete
    /\ BackupsComplete

\* A staging directory the recovery works on holds a backup.
StagedInv ==
    /\ rec.pc \in {"replay", "reseal", "examine", "promote"} =>
          staging.man \in Gens /\ staging.body \in 0 .. MaxHead
    /\ rec.pc \in {"settle", "link"} => rec.gen \in Gens

\* A live generation whose rename is not synced is the one being settled, or was
\* left by a promotion that was cut short.
PromoteInv ==
    /\ \A g \in liveLoose : g \in cut \/ (rec.pc = "settle" /\ rec.gen = g)
    /\ rec.pc = "settle" => rec.gen \in lives
    /\ rec.pc = "link" => rec.gen \in cut \/ (rec.gen \in lives /\ rec.gen \notin liveLoose)
    /\ LiveDurable

\* The flag is set throughout a recovery; what passed the verification, or was
\* located and staged, is what is promoted and linked.
RecoveryInv ==
    /\ rec.mode = "recovery" => frozen
    /\ rec.pc \in {"verify", "replay", "reseal", "examine"} => rec.mode = "recovery"
    /\ rec.pc = "stage" /\ rec.mode # "recovery" => rec.gen.body = rec.owed
    /\ rec.pc = "promote" => Settles(staging.body)
    /\ rec.pc \in {"settle", "link"} => Settles(rec.gen.body)
    /\ rec.pc = "linked" => Settles(live.body)
=============================================================================
