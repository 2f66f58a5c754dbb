------------------------- MODULE BackupRestoreProofs ------------------------
(***************************************************************************)
(* Proofs about backups and their recovery, for any number of publishers   *)
(* and any bounds: backups stay complete, the live generation stays on     *)
(* disk, and a restore publishes all that it owes.  Each rests on an       *)
(* inductive invariant of BackupRestore; the steps are split by who takes  *)
(* them, since a publisher and a recovery write disjoint files.            *)
(***************************************************************************)
EXTENDS BackupRestore, TLAPS

\* The steps of the two kinds of process.
Publishing(p) == Publish(p) \/ PublishStep(p) \/ StopPublisher(p)
Recovering == BeginRecovery \/ BeginRestore \/ RecoveryStep \/ StopRecovery

\* create_backup touches nothing a recovery works on.
LEMMA PublishingFrame ==
    ASSUME NEW p \in Publishers, Publishing(p)
    PROVE  /\ head' = head /\ frozen' = frozen /\ rec' = rec /\ staging' = staging
           /\ lives' = lives /\ liveLoose' = liveLoose /\ live' = live /\ liveDisk' = liveDisk
           /\ cut' = cut /\ clock' = clock
<1>1. CASE Publish(p)
  BY ZenonT(30), <1>1 DEF Publish, KeepRecovery, restored
<1>2. CASE StopPublisher(p)
  BY ZenonT(30), <1>2 DEF StopPublisher, restored
<1>3. CASE PublishStep(p)
  BY ZenonT(30), <1>3 DEF PublishStep, ClearTemp, WriteFile, CheckTemp, PlaceTemp, SyncGenerations,
     PointCurrent, SyncCurrent, VerifyBackup, KeepRecovery, restored
<1> QED BY ZenonT(30), <1>1, <1>2, <1>3 DEF Publishing

\* A restore or a recovery leaves the backups and the journal alone.
LEMMA RecoveringFrame ==
    ASSUME Recovering
    PROVE  /\ temp' = temp /\ gens' = gens /\ loose' = loose /\ current' = current
           /\ currentDisk' = currentDisk /\ pub' = pub /\ sealed' = sealed /\ head' = head
           /\ clock' = clock
<1>1. CASE BeginRecovery \/ BeginRestore \/ StopRecovery
  BY ZenonT(30), <1>1 DEF BeginRecovery, BeginRestore, StopRecovery, KeepTarget, target
<1>2. CASE RecoveryStep
  BY ZenonT(30), <1>2
     DEF RecoveryStep, Locate, VerifyLocated, Stage, ReplayTail, Reseal, Examine, Promote,
     SettleLive, LinkLive, Unfreeze, KeepTarget, target
<1> QED BY ZenonT(30), <1>1, <1>2 DEF Recovering

\* The steps, by who takes them.
LEMMA NextCases ==
    ASSUME [Next]_vars
    PROVE  \/ \E p \in Publishers : Publishing(p)
           \/ Recovering
           \/ TenantWrites \/ Tick \/ ClearStaging \/ PowerLoss
           \/ UNCHANGED vars
BY ZenonT(30) DEF Next, Publishing, Recovering

-----------------------------------------------------------------------------
(* Types *)

\* Type correctness is inductive with what staging holds at each step.
TypeInv == TypeOK /\ StagedInv

\* What create_backup writes is well typed.
LEMMA PublishingTypes ==
    ASSUME TypeInv, NEW p \in Publishers, Publishing(p)
    PROVE  TypeInv'
<1> USE BoundsAssumption
<1>1. /\ pub[p] \in {Idle} \cup [pc : PublisherAt, gen : Gens]
      /\ pub[p].pc # "idle" => pub[p].gen \in Gens
  BY DEF TypeInv, TypeOK, Idle, PublisherAt
<1>2. StagedInv'
  BY ZenonT(30), PublishingFrame DEF TypeInv, StagedInv
<1> DEFINE Backups == /\ temp' \in [Gens -> SUBSET Complete] /\ gens' \in [Gens -> SUBSET Complete]
                      /\ loose' \subseteq Gens /\ sealed' \subseteq Gens
                      /\ current' \in currentDisk' /\ currentDisk' \subseteq Gens \cup {NoGen}
           Pubs == [Publishers -> {Idle} \cup [pc : PublisherAt, gen : Gens]]
<1>3. Backups
  <2>1. CASE Publish(p) \/ StopPublisher(p)
    BY ZenonT(30), <2>1 DEF Publish, StopPublisher, TypeInv, TypeOK, target
  <2>2. CASE ClearTemp(p)
    BY ZenonT(30), <1>1, <2>2 DEF ClearTemp, At, TypeInv, TypeOK, Complete
  <2>3. ASSUME NEW from, NEW to, NEW file \in {"segments", "manifest"}, from # "idle",
               WriteFile(p, from, to, file)
        PROVE  Backups
    BY ZenonT(30), <1>1, <2>3 DEF WriteFile, At, TypeInv, TypeOK, Complete
  <2>4. CASE CheckTemp(p)
    BY ZenonT(30), <2>4 DEF CheckTemp, TypeInv, TypeOK, target
  <2>5. CASE PlaceTemp(p)
    BY <1>1, <2>5 DEF PlaceTemp, TypeInv, TypeOK
  <2>6. CASE SyncGenerations(p) \/ SyncCurrent(p)
    BY ZenonT(30), <2>6 DEF SyncGenerations, SyncCurrent, TypeInv, TypeOK
  <2>7. CASE PointCurrent(p)
    BY ZenonT(30), <1>1, <2>7 DEF PointCurrent, At, TypeInv, TypeOK
  <2>8. CASE VerifyBackup(p)
    BY ZenonT(30), <1>1, <2>8 DEF VerifyBackup, TypeInv, TypeOK, target
  <2>9. CASE \/ WriteFile(p, "segments", "manifest", "segments")
             \/ WriteFile(p, "manifest", "check", "manifest")
    BY ZenonT(30), <2>3, <2>9
  <2> HIDE DEF Backups
  <2> QED BY ZenonT(30), <2>1, <2>2, <2>4, <2>5, <2>6, <2>7, <2>8, <2>9 DEF Publishing, PublishStep
<1>4. pub' \in Pubs
  <2>1. pub \in Pubs
    BY ZenonT(30) DEF TypeInv, TypeOK
  <2>2. CASE Publish(p)
    <3>1. [at |-> clock, body |-> head] \in Gens
      BY ZenonT(30) DEF TypeInv, TypeOK, Gens
    <3> QED BY ZenonT(30), <2>1, <2>2, <3>1 DEF Publish, PublisherAt
  <2>3. CASE Stop(p)
    BY ZenonT(30), <2>1, <2>3 DEF Stop
  <2>4. ASSUME NEW from \in PublisherAt, NEW to \in PublisherAt, At(p, from, to)
        PROVE  pub' \in Pubs
    <3>1. pub[p] \in [pc : PublisherAt, gen : Gens]
      BY ZenonT(30), <1>1, <2>4 DEF At, PublisherAt, Idle
    <3>2. [pub[p] EXCEPT !.pc = to] \in [pc : PublisherAt, gen : Gens]
      BY ZenonT(30), <3>1
    <3>3. pub' = [pub EXCEPT ![p] = [pub[p] EXCEPT !.pc = to]]
      BY ZenonT(30), <2>4 DEF At
    <3> QED BY ZenonT(30), <2>1, <3>2, <3>3
  <2>5. CASE PublishStep(p)
    <3>1. Stop(p) \/ \E from, to \in PublisherAt : At(p, from, to)
      <4>1. CASE \/ ClearTemp(p) \/ SyncGenerations(p) \/ PointCurrent(p) \/ SyncCurrent(p)
        BY ZenonT(30), <4>1 DEF ClearTemp, SyncGenerations, PointCurrent, SyncCurrent, PublisherAt
      <4>2. CASE \/ WriteFile(p, "segments", "manifest", "segments")
                 \/ WriteFile(p, "manifest", "check", "manifest")
        BY ZenonT(30), <4>2 DEF WriteFile, PublisherAt
      <4>3. CASE CheckTemp(p) \/ PlaceTemp(p) \/ VerifyBackup(p)
        BY ZenonT(30), <4>3 DEF CheckTemp, PlaceTemp, VerifyBackup, PublisherAt
      <4> QED BY ZenonT(30), <2>5, <4>1, <4>2, <4>3 DEF PublishStep
    <3> QED BY ZenonT(30), <2>3, <2>4, <3>1
  <2>6. StopPublisher(p) => Stop(p)
    BY ZenonT(30) DEF StopPublisher
  <2> QED BY ZenonT(30), <2>2, <2>3, <2>5, <2>6 DEF Publishing
<1>5. stops' \in Nat /\ calls' \in [backups : Nat, restores : Nat]
  <2>1. CASE Publish(p)
    BY <2>1 DEF Publish, Begun, KeepRecovery, TypeInv, TypeOK
  <2>2. CASE StopPublisher(p)
    BY <2>2 DEF StopPublisher, Count, TypeInv, TypeOK
  <2>3. CASE PublishStep(p)
    BY ZenonT(30), <2>3 DEF PublishStep, ClearTemp, WriteFile, CheckTemp, PlaceTemp, SyncGenerations,
       PointCurrent, SyncCurrent, VerifyBackup, KeepRecovery, TypeInv, TypeOK
  <2> QED BY ZenonT(30), <2>1, <2>2, <2>3 DEF Publishing
<1> QED BY <1>2, <1>3, <1>4, <1>5, PublishingFrame DEF TypeInv, TypeOK

\* What a restore or a recovery writes is well typed.
LEMMA RecoveringTypes ==
    ASSUME TypeInv, Recovering
    PROVE  TypeInv'
<1> USE BoundsAssumption
<1> DEFINE Recs == [pc : {"idle"} \cup RecoveryAt, mode : {"none", "restore", "recovery"},
                    gen : Gens \cup {NoGen}, now : 0 .. MaxClock, owed : 0 .. MaxHead]
           Stagings == [state : {"absent", "empty", "full"}, man : Gens \cup {NoGen}, body : -1 .. MaxHead]
<1>0. rec \in Recs /\ staging \in Stagings /\ AtRest \in Recs /\ NoStaging \in Stagings
  BY DEF TypeInv, TypeOK, AtRest, NoStaging, RecoveryAt
<1>1. ASSUME rec' \in Recs, staging' \in Stagings, StagedInv',
             frozen' \in BOOLEAN, lives' \subseteq Gens, liveLoose' \subseteq Gens, cut' \subseteq Gens,
             live' \in liveDisk', liveDisk' \subseteq Gens \cup {NoGen, LegacyLive},
             stops' \in Nat, calls' \in [backups : Nat, restores : Nat]
      PROVE  TypeInv'
  BY ZenonT(30), <1>1, RecoveringFrame DEF TypeInv, TypeOK
<1>2. ASSUME rec' = AtRest PROVE StagedInv'
  BY ZenonT(30), <1>2 DEF StagedInv, AtRest
<1>3. CASE BeginRecovery
  <2>1. rec' \in Recs /\ rec'.pc = "locate"
    BY ZenonT(30), <1>0, <1>3, ZenonT(30) DEF BeginRecovery, TypeInv, TypeOK, RecoveryAt
  <2> QED BY ZenonT(30), <1>0, <1>1, <1>3, <2>1 DEF BeginRecovery, TypeInv, TypeOK, StagedInv, restored
<1>4. CASE BeginRestore
  <2>1. rec' \in Recs /\ rec'.pc = "locate"
    BY ZenonT(30), <1>0, <1>4, ZenonT(30) DEF BeginRestore, RecoveryAt
  <2>2. calls' \in [backups : Nat, restores : Nat]
    BY <1>4 DEF BeginRestore, Begun, TypeInv, TypeOK
  <2> QED
    BY ZenonT(30), <1>0, <1>1, <1>4, <2>1, <2>2
       DEF BeginRestore, TypeInv, TypeOK, StagedInv, restored
<1>5. CASE StopRecovery
  <2>1. cut' \subseteq Gens /\ stops' \in Nat
    BY <1>5 DEF StopRecovery, Count, CutShort, TypeInv, TypeOK, StagedInv
  <2> QED BY ZenonT(30), <1>0, <1>1, <1>2, <1>5, <2>1 DEF StopRecovery, TypeInv, TypeOK
<1>6. ASSUME NEW g \in Gens PROVE StagedAs(g) \in Stagings /\ g.body \in 0 .. MaxHead
  BY DEF StagedAs, Gens
<1>7. calls' = calls \/ BeginRestore \/ BeginRecovery \/ StopRecovery
  BY ZenonT(30) DEF Recovering, RecoveryStep
<1>8. CASE RecoveryStep /\ Locate
  <2>1. CASE rec' = AtRest
    BY ZenonT(30), <1>0, <1>1, <1>2, <1>8, <2>1 DEF RecoveryStep, Locate, TypeInv, TypeOK, restored
  <2>2. CASE rec' # AtRest
    <3>1. current \in Gens /\ current.body \in 0 .. MaxHead
      BY ZenonT(30), <1>6, <1>8, <2>2 DEF Locate, FailClosed, ReadsBack
    <3>2. rec' \in Recs /\ rec'.pc \in {"verify", "stage"}
      BY ZenonT(30), <1>0, <1>8, <2>2, <3>1 DEF Locate, FailClosed, RecoveryAt
    <3> QED
      BY ZenonT(30), <1>0, <1>1, <1>8, <3>2
         DEF RecoveryStep, Locate, TypeInv, TypeOK, StagedInv, restored
  <2> QED BY ZenonT(30), <2>1, <2>2
<1>9. CASE RecoveryStep /\ VerifyLocated
  BY <1>0, <1>1, <1>2, <1>9 DEF RecoveryStep, VerifyLocated, Step, FailClosed, TypeInv, TypeOK,
     StagedInv, RecoveryAt, restored
<1>10. CASE RecoveryStep /\ Stage
  <2>1. CASE rec' = AtRest /\ staging' = staging
    BY <1>0, <1>1, <1>2, <1>10, <2>1 DEF RecoveryStep, Stage, TypeInv, TypeOK, restored
  <2>2. CASE ReadsBack /\ current = rec.gen /\ staging' = StagedAs(rec.gen)
               /\ Step("stage", IF rec.mode = "recovery" THEN "replay" ELSE "promote")
    <3>1. rec.gen \in Gens /\ rec' \in Recs /\ rec'.pc \in {"replay", "promote"}
      BY ZenonT(30), <1>0, <2>2 DEF ReadsBack, Step, RecoveryAt
    <3>2. staging' \in Stagings /\ staging'.man \in Gens /\ staging'.body \in 0 .. MaxHead
      BY ZenonT(30), <1>6, <2>2, <3>1 DEF StagedAs
    <3> QED
      BY ZenonT(30), <1>1, <1>10, <3>1, <3>2
         DEF RecoveryStep, Stage, TypeInv, TypeOK, StagedInv, restored
  <2> QED BY ZenonT(30), <1>10, <2>1, <2>2 DEF Stage, FailClosed
<1>11. CASE RecoveryStep /\ ReplayTail
  <2>1. staging.man \in Gens /\ staging.body \in 0 .. MaxHead /\ head \in 0 .. MaxHead
    BY ZenonT(30), <1>11 DEF ReplayTail, TypeInv, TypeOK, StagedInv
  <2>2. \E b \in 0 .. MaxHead : staging' = [staging EXCEPT !.body = b]
    BY <1>11, <2>1 DEF ReplayTail
  <2>3. staging' \in Stagings /\ staging'.man \in Gens /\ staging'.body \in 0 .. MaxHead
    BY <1>0, <2>1, <2>2
  <2>4. rec' \in Recs /\ rec'.pc \in {"idle", "reseal"}
    BY ZenonT(30), <1>0, <1>11 DEF ReplayTail, Step, FailClosed, AtRest, RecoveryAt
  <2> QED BY <1>1, <1>11, <2>3, <2>4 DEF RecoveryStep, ReplayTail, Count, TypeInv, TypeOK, StagedInv,
       restored
<1>12. CASE RecoveryStep /\ Reseal
  <2>1. staging.body \in 0 .. MaxHead /\ rec.now \in 0 .. MaxClock
    BY ZenonT(30), <1>0, <1>12 DEF Reseal, Step, TypeInv, StagedInv
  <2>2. [at |-> rec.now, body |-> staging.body] \in Gens
    BY ZenonT(30), <2>1 DEF Gens
  <2>3. staging' \in Stagings /\ staging'.man \in Gens /\ staging'.body \in 0 .. MaxHead
    BY ZenonT(30), <1>0, <1>12, <2>1, <2>2 DEF Reseal
  <2>4. rec' \in Recs /\ rec'.pc = "examine"
    BY ZenonT(30), <1>0, <1>12 DEF Reseal, Step, RecoveryAt
  <2> QED
    BY ZenonT(30), <1>1, <1>12, <2>3, <2>4
       DEF RecoveryStep, Reseal, TypeInv, TypeOK, StagedInv, restored
<1>13. CASE RecoveryStep /\ Examine
  BY <1>0, <1>1, <1>2, <1>13 DEF RecoveryStep, Examine, Step, FailClosed, Count, TypeInv, TypeOK,
     StagedInv, RecoveryAt, restored
<1>14. CASE RecoveryStep /\ Promote
  <2>1. staging.man \in Gens
    BY ZenonT(30), <1>14 DEF Promote, TypeInv, StagedInv
  <2>2. /\ rec' \in Recs /\ staging' \in Stagings /\ StagedInv'
        /\ lives' \subseteq Gens /\ liveLoose' \subseteq Gens
    BY ZenonT(30), <1>0, <1>2, <1>14, <2>1
       DEF Promote, FailClosed, TypeInv, TypeOK, StagedInv, RecoveryAt
  <2> QED BY ZenonT(30), <1>1, <1>14, <2>2 DEF RecoveryStep, Promote, TypeInv, TypeOK
<1>15. CASE RecoveryStep /\ SettleLive
  BY ZenonT(30), <1>0, <1>1, <1>15
     DEF RecoveryStep, SettleLive, Step, TypeInv, TypeOK, StagedInv, RecoveryAt
<1>16. CASE RecoveryStep /\ LinkLive
  BY ZenonT(30), <1>0, <1>1, <1>16
     DEF RecoveryStep, LinkLive, Step, TypeInv, TypeOK, StagedInv, RecoveryAt
<1>17. CASE RecoveryStep /\ Unfreeze
  BY <1>0, <1>1, <1>2, <1>17 DEF RecoveryStep, Unfreeze, TypeInv, TypeOK
<1> QED
  BY ZenonT(30), <1>3, <1>4, <1>5, <1>8, <1>9, <1>10, <1>11, <1>12, <1>13, <1>14, <1>15, <1>16,
     <1>17
     DEF Recovering, RecoveryStep

\* A power loss leaves directories and pointers of the right types.
LEMMA PowerLossTypes ==
    ASSUME TypeInv, PowerLoss
    PROVE  TypeInv'
<1> USE BoundsAssumption
<1>1. /\ temp' \in [Gens -> SUBSET Complete] /\ gens' \in [Gens -> SUBSET Complete]
      /\ loose' \subseteq Gens /\ sealed' \subseteq Gens
  BY ZenonT(30) DEF PowerLoss, TypeInv, TypeOK
<1>2. /\ current' \in currentDisk' /\ currentDisk' \subseteq Gens \cup {NoGen}
      /\ live' \in liveDisk' /\ liveDisk' \subseteq Gens \cup {NoGen, LegacyLive}
  BY DEF PowerLoss, TypeInv, TypeOK
<1>3. pub' \in [Publishers -> {Idle} \cup [pc : PublisherAt, gen : Gens]]
  BY ZenonT(30) DEF PowerLoss
<1>4. PICK undone \in SUBSET liveLoose :
          /\ lives' = lives \ undone
          /\ staging' \in {staging} \cup {StagedAs(g) : g \in undone}
  BY ZenonT(30) DEF PowerLoss
<1>5. staging' \in [state : {"absent", "empty", "full"}, man : Gens \cup {NoGen}, body : -1 .. MaxHead]
  <2>1. ASSUME NEW g \in Gens PROVE StagedAs(g) \in [state : {"absent", "empty", "full"},
                                     man : Gens \cup {NoGen}, body : -1 .. MaxHead]
    BY DEF StagedAs, Gens
  <2>2. staging \in [state : {"absent", "empty", "full"}, man : Gens \cup {NoGen}, body : -1 .. MaxHead]
    BY ZenonT(30) DEF TypeInv, TypeOK
  <2>3. undone \subseteq Gens
    BY ZenonT(30) DEF TypeInv, TypeOK
  <2> QED BY ZenonT(30), <1>4, <2>1, <2>2, <2>3
<1>6. rec' = AtRest /\ StagedInv'
  BY ZenonT(30) DEF PowerLoss, AtRest, StagedInv
<1>7. rec' \in [pc : {"idle"} \cup RecoveryAt, mode : {"none", "restore", "recovery"},
               gen : Gens \cup {NoGen}, now : 0 .. MaxClock, owed : 0 .. MaxHead]
  BY <1>6 DEF AtRest
<1>8. cut' \subseteq Gens
  BY ZenonT(30) DEF PowerLoss, CutShort, TypeInv, TypeOK, StagedInv
<1>9. /\ head' = head /\ frozen' = frozen /\ clock' = clock /\ calls' = calls /\ stops' \in Nat
      /\ lives' \subseteq Gens /\ liveLoose' \subseteq Gens
  BY <1>4 DEF PowerLoss, Count, TypeInv, TypeOK
<1> QED BY ZenonT(30), <1>1, <1>2, <1>3, <1>5, <1>6, <1>7, <1>8, <1>9 DEF TypeInv, TypeOK

\* Every step keeps the types.
LEMMA TypeStep ==
    ASSUME TypeInv, [Next]_vars
    PROVE  TypeInv'
<1> USE BoundsAssumption
<1>1. ASSUME NEW p \in Publishers, Publishing(p) PROVE TypeInv'
  BY ZenonT(30), <1>1, PublishingTypes
<1>2. CASE TenantWrites
  BY <1>2 DEF TenantWrites, TypeInv, TypeOK, StagedInv, target, restored
<1>3. CASE Tick
  BY <1>3 DEF Tick, TypeInv, TypeOK, StagedInv, target, restored
<1>4. CASE ClearStaging
  BY <1>4 DEF ClearStaging, NoStaging, TypeInv, TypeOK, StagedInv, target, restored
<1>5. CASE UNCHANGED vars
  BY <1>5 DEF vars, TypeInv, TypeOK, StagedInv, target, restored
<1> QED BY ZenonT(30), <1>1, <1>2, <1>3, <1>4, <1>5, NextCases, RecoveringTypes, PowerLossTypes

\* A new deployment is well typed.
LEMMA TypeInit ==
    ASSUME Init
    PROVE  TypeInv
<1> USE BoundsAssumption
<1>2. TypeOK
  <2>1. /\ temp \in [Gens -> SUBSET Complete] /\ gens \in [Gens -> SUBSET Complete]
        /\ loose \subseteq Gens /\ current \in currentDisk /\ currentDisk \subseteq Gens \cup {NoGen}
        /\ lives \subseteq Gens /\ liveLoose \subseteq Gens /\ cut \subseteq Gens
        /\ live \in liveDisk /\ liveDisk \subseteq Gens \cup {NoGen, LegacyLive}
        /\ sealed \subseteq Gens
    BY ZenonT(30) DEF Init
  <2>2. pub \in [Publishers -> {Idle} \cup [pc : PublisherAt, gen : Gens]]
    BY ZenonT(30) DEF Init
  <2>6. head \in 0 .. MaxHead /\ clock \in 0 .. MaxClock
    BY DEF Init
  <2>7. frozen \in BOOLEAN
    BY ZenonT(30) DEF Init
  <2>5. stops \in Nat /\ calls \in [backups : Nat, restores : Nat]
    BY ZenonT(30) DEF Init
  <2>3. rec \in [pc : {"idle"} \cup RecoveryAt, mode : {"none", "restore", "recovery"},
                 gen : Gens \cup {NoGen}, now : 0 .. MaxClock, owed : 0 .. MaxHead]
    BY DEF Init, AtRest
  <2>4. staging \in [state : {"absent", "empty", "full"}, man : Gens \cup {NoGen}, body : -1 .. MaxHead]
    BY DEF Init, NoStaging
  <2> QED BY ZenonT(30), <2>1, <2>2, <2>3, <2>4, <2>5, <2>6, <2>7 DEF TypeOK
<1>3. StagedInv
  BY ZenonT(30) DEF Init, StagedInv, AtRest
<1> QED BY ZenonT(30), <1>2, <1>3 DEF TypeInv

\* The directories, the pointers and the two processes of the backup store are
\* always of their types (create_backup, stage_restore, promote_staged).
THEOREM BackupTypes == Spec => []TypeOK
<1>1. Init => TypeInv
  BY ZenonT(30), TypeInit
<1>2. TypeInv /\ [Next]_vars => TypeInv'
  BY ZenonT(30), TypeStep
<1>3. TypeInv => TypeOK
  BY ZenonT(30) DEF TypeInv
<1> QED BY <1>1, <1>2, <1>3, PTL DEF Spec

-----------------------------------------------------------------------------
(* Backups *)

\* What a publisher at `g` may change: the directories of `g`, and of a complete
\* generation nothing.  Only the pointer it writes and what it verified are new.
LEMMA PublishingFootprint ==
    ASSUME TypeInv, NEW p \in Publishers, Publishing(p)
    PROVE  /\ \A h \in Gens \ {pub[p].gen} : temp'[h] = temp[h] /\ gens'[h] = gens[h]
           /\ loose' \subseteq loose \cup {pub[p].gen}
           /\ \A h \in Gens : gens[h] = Complete => gens'[h] = Complete /\ (h \in loose' => h \in loose)
           /\ sealed' \subseteq sealed \cup currentDisk
           /\ currentDisk' \subseteq currentDisk \cup {g \in {pub[p].gen} : pub[p].pc = "current"}
           /\ \A q \in Publishers \ {p} : pub'[q] = pub[q]
<1>1. /\ temp \in [Gens -> SUBSET Complete] /\ gens \in [Gens -> SUBSET Complete]
      /\ pub \in [Publishers -> {Idle} \cup [pc : PublisherAt, gen : Gens]]
      /\ current \in currentDisk
  BY ZenonT(30) DEF TypeInv, TypeOK
<1>2. Complete # {}
  BY ZenonT(30) DEF Complete
<1>3. CASE Publish(p) \/ StopPublisher(p)
  BY ZenonT(30), <1>1, <1>3 DEF Publish, StopPublisher, Stop, target
<1>4. CASE ClearTemp(p)
  BY ZenonT(30), <1>1, <1>4 DEF ClearTemp, At
<1>5. CASE \/ WriteFile(p, "segments", "manifest", "segments")
           \/ WriteFile(p, "manifest", "check", "manifest")
  BY <1>1, <1>5 DEF WriteFile, At
<1>6. CASE CheckTemp(p)
  BY ZenonT(30), <1>1, <1>6 DEF CheckTemp, At, Stop, target
<1>7. CASE PlaceTemp(p)
  BY ZenonT(30), <1>1, <1>2, <1>7 DEF PlaceTemp, At, Stop
<1>8. CASE SyncGenerations(p)
  BY ZenonT(30), <1>1, <1>8 DEF SyncGenerations, At
<1>9. CASE PointCurrent(p)
  BY ZenonT(30), <1>1, <1>9 DEF PointCurrent, At
<1>10. CASE SyncCurrent(p)
  BY ZenonT(30), <1>1, <1>10 DEF SyncCurrent, At
<1>11. CASE VerifyBackup(p)
  BY ZenonT(30), <1>1, <1>11 DEF VerifyBackup, Stop, target
<1> QED BY ZenonT(30), <1>3, <1>4, <1>5, <1>6, <1>7, <1>8, <1>9, <1>10, <1>11 DEF Publishing, PublishStep

\* What publish_backup relies on at the step it has come to.
Ready(p) ==
    /\ pub[p].pc \in {"manifest", "check", "place", "current"} => pub[p].gen \notin loose
    /\ pub[p].pc = "place" => temp[pub[p].gen] = Complete
    /\ pub[p].pc \in {"sync", "current"} => gens[pub[p].gen] = Complete

\* A publisher at its next step finds what that step relies on.
LEMMA PublisherReady ==
    ASSUME TypeInv, NEW p \in Publishers, Ready(p), Publishing(p)
    PROVE  Ready(p)'
<1>1. /\ temp \in [Gens -> SUBSET Complete] /\ gens \in [Gens -> SUBSET Complete]
      /\ pub \in [Publishers -> {Idle} \cup [pc : PublisherAt, gen : Gens]]
      /\ pub[p].pc # "idle" => pub[p].gen \in Gens
  BY DEF TypeInv, TypeOK, Idle, PublisherAt
<1>2. ASSUME pub'[p].pc \in {"idle", "clear", "segments", "pointed", "verify"}
      PROVE  Ready(p)'
  BY ZenonT(30), <1>2 DEF Ready
<1>3. Stop(p) => pub'[p].pc = "idle"
  BY <1>1 DEF Stop, Idle
<1>4. ASSUME NEW from, NEW to, At(p, from, to)
      PROVE  pub[p].pc = from /\ pub'[p].pc = to /\ pub'[p].gen = pub[p].gen
  BY <1>1, <1>4 DEF At
<1>5. CASE Publish(p) \/ StopPublisher(p) \/ VerifyBackup(p)
  <2>1. pub'[p].pc \in {"idle", "clear"}
    BY <1>1, <1>3, <1>5 DEF Publish, StopPublisher, VerifyBackup
  <2> QED BY ZenonT(30), <1>2, <2>1
<1>6. CASE ClearTemp(p) \/ PointCurrent(p) \/ SyncCurrent(p)
  <2>1. pub'[p].pc \in {"segments", "pointed", "verify"}
    BY ZenonT(30), <1>4, <1>6 DEF ClearTemp, PointCurrent, SyncCurrent
  <2> QED BY ZenonT(30), <1>2, <2>1
<1>7. CASE \/ WriteFile(p, "segments", "manifest", "segments")
           \/ WriteFile(p, "manifest", "check", "manifest")
  <2>1. pub'[p].pc \in {"manifest", "check"} /\ loose' = {}
    BY ZenonT(30), <1>4, <1>7 DEF WriteFile
  <2> QED BY ZenonT(30), <2>1 DEF Ready
<1>8. CASE CheckTemp(p)
  <2>1. CASE Stop(p)
    BY ZenonT(30), <1>2, <1>3, <2>1
  <2>2. CASE temp[pub[p].gen] = Complete /\ At(p, "check", "place")
    <3>1. /\ pub[p].pc = "check" /\ pub'[p].pc = "place" /\ pub'[p].gen = pub[p].gen
          /\ temp' = temp /\ loose' = loose
      BY ZenonT(30), <1>4, <1>8, <2>2 DEF CheckTemp, target
    <3> QED BY ZenonT(30), <2>2, <3>1 DEF Ready
  <2> QED BY ZenonT(30), <1>8, <2>1, <2>2 DEF CheckTemp
<1>9. CASE PlaceTemp(p)
  <2>1. CASE Stop(p)
    BY ZenonT(30), <1>2, <1>3, <2>1
  <2>2. CASE gens[pub[p].gen] = Complete /\ At(p, "place", "current") /\ UNCHANGED <<gens, loose>>
    <3>1. pub[p].pc = "place" /\ pub'[p].pc = "current" /\ pub'[p].gen = pub[p].gen
      BY ZenonT(30), <1>4, <2>2
    <3> QED BY ZenonT(30), <2>2, <3>1 DEF Ready
  <2>3. CASE At(p, "place", "sync") /\ gens' = [gens EXCEPT ![pub[p].gen] = temp[pub[p].gen]]
    <3>1. pub[p].pc = "place" /\ pub'[p].pc = "sync" /\ pub'[p].gen = pub[p].gen
      BY ZenonT(30), <1>4, <2>3
    <3>2. gens'[pub'[p].gen] = Complete
      BY ZenonT(30), <1>1, <2>3, <3>1 DEF Ready
    <3> QED BY ZenonT(30), <3>1, <3>2 DEF Ready
  <2> QED BY ZenonT(30), <1>9, <2>1, <2>2, <2>3 DEF PlaceTemp
<1>10. CASE SyncGenerations(p)
  <2>1. /\ pub[p].pc = "sync" /\ pub'[p].pc = "current" /\ pub'[p].gen = pub[p].gen
        /\ gens' = gens /\ loose' = {}
    BY ZenonT(30), <1>4, <1>10 DEF SyncGenerations
  <2> QED BY ZenonT(30), <2>1 DEF Ready
<1> QED BY ZenonT(30), <1>5, <1>6, <1>7, <1>8, <1>9, <1>10 DEF Publishing, PublishStep

\* create_backup keeps every backup complete, its own and the others', when no
\* two callers publish one generation at once.
LEMMA PublishingKeeps ==
    ASSUME TypeInv, Together = FALSE, PublishInv, NEW p \in Publishers, Publishing(p)
    PROVE  PublishInv'
<1>1. /\ pub \in [Publishers -> {Idle} \cup [pc : PublisherAt, gen : Gens]]
      /\ \A q \in Publishers : pub[q].pc # "idle" => pub[q].gen \in Gens
  BY DEF TypeInv, TypeOK, Idle, PublisherAt
<1>2. \A q, r \in Publishers : pub[q].pc # "idle" /\ pub[q].gen = pub[r].gen => q = r
  BY ZenonT(30) DEF PublishInv
<1>3. \A q \in Publishers \ {p} : pub'[q] = pub[q]
  BY ZenonT(30), PublishingFootprint
<1>4. \/ pub'[p] = Idle
      \/ pub'[p].gen = pub[p].gen /\ pub[p].pc # "idle"
      \/ pub'[p].gen \in Gens /\ \A q \in Publishers : pub[q].gen # pub'[p].gen
  <2>1. CASE Publish(p)
    <3>1. [at |-> clock, body |-> head] \in Gens
      BY ZenonT(30) DEF TypeInv, TypeOK, Gens
    <3> QED BY ZenonT(30), <1>1, <2>1, <3>1 DEF Publish
  <2>2. CASE StopPublisher(p) \/ VerifyBackup(p)
    BY ZenonT(30), <1>1, <2>2 DEF StopPublisher, VerifyBackup, Stop
  <2>3. ASSUME NEW from, NEW to, At(p, from, to), from # "idle"
        PROVE  pub'[p].gen = pub[p].gen /\ pub[p].pc # "idle"
    BY <1>1, <2>3 DEF At
  <2>4. CASE \/ ClearTemp(p) \/ SyncGenerations(p) \/ PointCurrent(p) \/ SyncCurrent(p)
             \/ WriteFile(p, "segments", "manifest", "segments")
             \/ WriteFile(p, "manifest", "check", "manifest")
    BY ZenonT(30), <2>3, <2>4 DEF ClearTemp, SyncGenerations, PointCurrent, SyncCurrent, WriteFile
  <2>5. CASE CheckTemp(p) \/ PlaceTemp(p)
    BY ZenonT(30), <1>1, <2>3, <2>5 DEF CheckTemp, PlaceTemp, Stop
  <2> QED BY ZenonT(30), <2>1, <2>2, <2>4, <2>5 DEF Publishing, PublishStep
<1>5. NoGen \notin Gens /\ Idle.gen = NoGen /\ Idle.pc = "idle"
  BY DEF NoGen, Gens, Idle
<1>6. \A q, r \in Publishers : pub'[q].pc # "idle" /\ pub'[q].gen = pub'[r].gen => q = r
  BY <1>1, <1>2, <1>3, <1>4, <1>5
<1>7. ASSUME NEW q \in Publishers PROVE Ready(q)'
  <2>1. Ready(q)
    BY ZenonT(30) DEF PublishInv, Ready
  <2>2. CASE q = p
    BY ZenonT(30), <2>1, <2>2, PublisherReady
  <2>3. CASE q # p /\ pub[q].pc = "idle"
    BY ZenonT(30), <1>3, <2>3 DEF Ready
  <2>4. CASE q # p /\ pub[q].pc # "idle"
    <3>1. pub'[q] = pub[q] /\ pub[q].gen \in Gens /\ pub[q].gen # pub[p].gen
      BY ZenonT(30), <1>1, <1>2, <1>3, <2>4
    <3>2. /\ temp'[pub[q].gen] = temp[pub[q].gen] /\ gens'[pub[q].gen] = gens[pub[q].gen]
          /\ pub[q].gen \in loose' => pub[q].gen \in loose
      BY ZenonT(30), <3>1, PublishingFootprint
    <3> QED BY ZenonT(30), <2>1, <3>1, <3>2 DEF Ready
  <2> QED BY ZenonT(30), <2>2, <2>3, <2>4
<1>8. BackupsComplete'
  <2>1. ASSUME NEW g \in (currentDisk' \cup sealed') \ {NoGen}
        PROVE  gens'[g] = Complete /\ g \notin loose'
    <3>1. Ready(p) /\ BackupsComplete
      BY ZenonT(30) DEF PublishInv, Ready
    <3>2. g \in (currentDisk \cup sealed) \ {NoGen} \/ (pub[p].pc = "current" /\ g = pub[p].gen)
      BY ZenonT(30), PublishingFootprint
    <3>3. gens[g] = Complete /\ g \notin loose
      BY ZenonT(30), <3>1, <3>2 DEF BackupsComplete, Ready
    <3>4. g \in Gens
      BY ZenonT(30), <1>1, <3>2 DEF TypeInv, TypeOK
    <3> QED BY ZenonT(30), <3>3, <3>4, PublishingFootprint
  <2> QED BY ZenonT(30), <2>1 DEF BackupsComplete
<1> QED BY ZenonT(30), <1>6, <1>7, <1>8 DEF PublishInv, Ready

\* A power loss undoes renames no pointer and no acknowledged backup rests on.
LEMMA PowerLossKeeps ==
    ASSUME TypeInv, PublishInv, PowerLoss
    PROVE  PublishInv'
<1>1. \A p \in Publishers : pub'[p].pc = "idle"
  BY ZenonT(30) DEF PowerLoss, Idle
<1>2. currentDisk' \subseteq currentDisk /\ sealed' = sealed /\ loose' = {}
  BY ZenonT(30) DEF PowerLoss
<1>3. \A g \in Gens : g \notin loose => gens'[g] = gens[g]
  BY ZenonT(30) DEF PowerLoss
<1>4. BackupsComplete'
  BY ZenonT(30), <1>2, <1>3 DEF PublishInv, BackupsComplete, TypeInv, TypeOK
<1> QED BY ZenonT(30), <1>1, <1>4 DEF PublishInv

\* Every step keeps backups complete.
LEMMA PublishInvStep ==
    ASSUME TypeInv, Together = FALSE, PublishInv, [Next]_vars
    PROVE  PublishInv'
<1>1. ASSUME UNCHANGED <<temp, gens, loose, currentDisk, sealed, pub>>
      PROVE  PublishInv'
  BY ZenonT(30), <1>1 DEF PublishInv, BackupsComplete
<1>2. CASE Recovering
  BY ZenonT(30), <1>1, <1>2, RecoveringFrame
<1>3. CASE TenantWrites \/ Tick \/ ClearStaging
  BY ZenonT(30), <1>1, <1>3 DEF TenantWrites, Tick, ClearStaging, target
<1>4. CASE UNCHANGED vars
  BY ZenonT(30), <1>1, <1>4 DEF vars, target
<1> QED BY ZenonT(30), <1>2, <1>3, <1>4, NextCases, PublishingKeeps, PowerLossKeeps

\* Whatever stops or loses power between two file operations of create_backup,
\* and whoever else publishes another generation, `current` and every backup
\* that was answered Ok name a generation that is complete and on disk, if no two
\* callers publish the very same generation at once.
THEOREM BackupsStayComplete ==
    ASSUME Together = FALSE
    PROVE  Spec => []BackupsComplete
<1>1. Init => TypeInv /\ PublishInv
  <2>1. Init => PublishInv
    BY DEF Init, PublishInv, BackupsComplete, Idle
  <2> QED BY ZenonT(30), <2>1, TypeInit
<1>2. TypeInv /\ PublishInv /\ [Next]_vars => TypeInv' /\ PublishInv'
  BY ZenonT(30), TypeStep, PublishInvStep
<1>3. PublishInv => BackupsComplete
  BY ZenonT(30) DEF PublishInv
<1> QED BY <1>1, <1>2, <1>3, PTL DEF Spec

-----------------------------------------------------------------------------
(* The live generation *)

\* stage_restore, promote_staged and the recovery around them, one action each:
\* a rename is synced before the link is written, or the promotion was cut short.
LEMMA PromoteInvStep ==
    ASSUME TypeInv, PromoteInv, [Next]_vars
    PROVE  PromoteInv'
<1>1. ASSUME UNCHANGED <<lives, liveLoose, liveDisk, cut>>,
             rec'.pc \notin {"settle", "link"}, rec.pc # "settle"
      PROVE  PromoteInv'
  BY ZenonT(30), <1>1 DEF PromoteInv, LiveDurable
<1>2. ASSUME UNCHANGED <<lives, liveLoose, liveDisk, cut, rec>>
      PROVE  PromoteInv'
  BY ZenonT(30), <1>2 DEF PromoteInv, LiveDurable
<1>3. rec \in [pc : {"idle"} \cup RecoveryAt, mode : {"none", "restore", "recovery"},
               gen : Gens \cup {NoGen}, now : 0 .. MaxClock, owed : 0 .. MaxHead]
  BY ZenonT(30) DEF TypeInv, TypeOK
<1>4. ASSUME NEW p \in Publishers, Publishing(p) PROVE PromoteInv'
  BY ZenonT(30), <1>2, <1>4, PublishingFrame
<1>5. CASE TenantWrites \/ Tick \/ ClearStaging
  BY ZenonT(30), <1>2, <1>5 DEF TenantWrites, Tick, ClearStaging, restored
<1>6. CASE UNCHANGED vars
  BY ZenonT(30), <1>2, <1>6 DEF vars, restored
<1>7. CASE BeginRecovery \/ BeginRestore
  <2>1. rec.pc = "idle" /\ rec'.pc = "locate"
    BY ZenonT(30), <1>7 DEF BeginRecovery, BeginRestore, AtRest
  <2> QED BY ZenonT(30), <1>1, <1>7, <2>1 DEF BeginRecovery, BeginRestore, restored
<1>8. AtRest.pc = "idle"
  BY ZenonT(30) DEF AtRest
<1>9. CASE Locate \/ VerifyLocated \/ Stage \/ ReplayTail \/ Reseal \/ Examine
  <2>1. rec.pc # "settle" /\ rec'.pc \notin {"settle", "link"}
    BY ZenonT(30), <1>3, <1>8, <1>9
       DEF Locate, VerifyLocated, Stage, ReplayTail, Reseal, Examine, Step, FailClosed
  <2>2. UNCHANGED <<lives, liveLoose, liveDisk, cut>>
    BY ZenonT(30), <1>9 DEF Locate, VerifyLocated, Stage, ReplayTail, Reseal, Examine, restored
  <2> QED BY ZenonT(30), <1>1, <2>1, <2>2
<1>10. CASE Promote
  <2>1. rec.pc = "promote" /\ UNCHANGED <<liveDisk, cut>>
    BY ZenonT(30), <1>10 DEF Promote
  <2>2. CASE /\ staging.man \in lives /\ rec' = [rec EXCEPT !.pc = "link", !.gen = staging.man]
             /\ UNCHANGED <<lives, liveLoose>>
    <3>1. rec'.pc = "link" /\ rec'.gen = staging.man
      BY ZenonT(30), <1>3, <2>2
    <3> QED BY <2>1, <2>2, <3>1 DEF PromoteInv, LiveDurable
  <2>3. CASE /\ staging.man \notin lives /\ rec' = [rec EXCEPT !.pc = "settle", !.gen = staging.man]
             /\ lives' = lives \cup {staging.man} /\ liveLoose' = liveLoose \cup {staging.man}
    <3>1. rec'.pc = "settle" /\ rec'.gen = staging.man
      BY ZenonT(30), <1>3, <2>3
    <3>2. LiveDurable'
      BY ZenonT(30), <2>1, <2>3 DEF PromoteInv, LiveDurable
    <3> QED BY <2>1, <2>3, <3>1, <3>2 DEF PromoteInv
  <2>4. CASE rec' = AtRest /\ UNCHANGED <<lives, liveLoose>>
    BY ZenonT(30), <1>1, <1>8, <2>1, <2>4
  <2> QED BY ZenonT(30), <1>10, <2>2, <2>3, <2>4 DEF Promote, FailClosed
<1>11. CASE SettleLive
  <2>1. rec.pc = "settle" /\ rec'.pc = "link" /\ rec'.gen = rec.gen
    BY ZenonT(30), <1>3, <1>11 DEF SettleLive, Step
  <2> QED BY ZenonT(30), <1>11, <2>1 DEF SettleLive, PromoteInv, LiveDurable
<1>12. CASE LinkLive
  <2>1. rec.pc = "link" /\ rec'.pc = "linked"
    BY ZenonT(30), <1>3, <1>12 DEF LinkLive, Step
  <2> QED BY ZenonT(30), <1>12, <2>1 DEF LinkLive, PromoteInv, LiveDurable
<1>13. CASE Unfreeze
  <2>1. live \in liveDisk /\ rec.pc = "linked" /\ rec'.pc = "idle"
    BY ZenonT(30), <1>8, <1>13 DEF Unfreeze, TypeInv, TypeOK
  <2> QED BY ZenonT(30), <1>13, <2>1 DEF Unfreeze, PromoteInv, LiveDurable
<1>14. CASE StopRecovery
  <2>1. /\ rec'.pc = "idle" /\ UNCHANGED <<lives, liveLoose, liveDisk>>
        /\ cut \subseteq cut' /\ (rec.pc = "settle" => rec.gen \in cut')
    BY ZenonT(30), <1>8, <1>14 DEF StopRecovery, CutShort
  <2> QED BY ZenonT(30), <2>1 DEF PromoteInv, LiveDurable
<1>15. CASE PowerLoss
  <2>1. /\ rec'.pc = "idle" /\ liveLoose' = {} /\ liveDisk' \subseteq liveDisk
        /\ cut \subseteq cut' /\ \A g \in lives : g \notin liveLoose => g \in lives'
    BY ZenonT(30), <1>8, <1>15 DEF PowerLoss, CutShort
  <2> QED BY ZenonT(30), <2>1 DEF PromoteInv, LiveDurable
<1> QED BY ZenonT(30), <1>4, <1>5, <1>6, <1>7, <1>9, <1>10, <1>11, <1>12, <1>13, <1>14, <1>15, NextCases
     DEF Recovering, RecoveryStep

\* The generation `live` names, now or after a power loss, is there and stays,
\* unless an earlier promotion of it stopped between its rename and its sync
\* (promote_staged).
THEOREM LiveStaysDurable == Spec => []LiveDurable
<1>1. Init => TypeInv /\ PromoteInv
  <2>1. Init => PromoteInv
    BY DEF Init, PromoteInv, LiveDurable, AtRest, Gens, NoGen, LegacyLive
  <2> QED BY ZenonT(30), <2>1, TypeInit
<1>2. TypeInv /\ PromoteInv /\ [Next]_vars => TypeInv' /\ PromoteInv'
  BY ZenonT(30), TypeStep, PromoteInvStep
<1>3. PromoteInv => LiveDurable
  BY ZenonT(30) DEF PromoteInv
<1> QED BY <1>1, <1>2, <1>3, PTL DEF Spec

-----------------------------------------------------------------------------
(* Disaster recovery *)

\* The flag stays set in a recovery, and what was located or verified is carried
\* to the link (stage_restore, run_disaster_recovery).
LEMMA RecoveryInvStep ==
    ASSUME TypeInv, RecoveryInv, [Next]_vars
    PROVE  RecoveryInv'
<1>1. rec \in [pc : {"idle"} \cup RecoveryAt, mode : {"none", "restore", "recovery"},
               gen : Gens \cup {NoGen}, now : 0 .. MaxClock, owed : 0 .. MaxHead]
  BY ZenonT(30) DEF TypeInv, TypeOK
<1>2. ASSUME rec' = AtRest PROVE RecoveryInv'
  BY ZenonT(30), <1>2 DEF RecoveryInv, AtRest
<1>3. ASSUME NEW from, NEW to, Step(from, to)
      PROVE  rec.pc = from /\ rec'.pc = to /\ rec'.mode = rec.mode /\ rec'.gen = rec.gen /\ rec'.owed = rec.owed
  BY ZenonT(30), <1>1, <1>3 DEF Step
<1>4. ASSUME UNCHANGED <<frozen, rec, staging, live>> PROVE RecoveryInv'
  BY ZenonT(30), <1>4 DEF RecoveryInv, Settles
<1>5. ASSUME NEW p \in Publishers, Publishing(p) PROVE RecoveryInv'
  BY ZenonT(30), <1>4, <1>5, PublishingFrame
<1>6. CASE Tick \/ TenantWrites \/ UNCHANGED vars
  BY ZenonT(30), <1>4, <1>6 DEF Tick, TenantWrites, vars, restored
<1>7. CASE ClearStaging
  BY ZenonT(30), <1>7 DEF ClearStaging, RecoveryInv
<1>8. CASE BeginRecovery \/ BeginRestore
  <2>1. rec'.pc = "locate" /\ (rec'.mode = "recovery" => frozen')
    BY ZenonT(30), <1>8 DEF BeginRecovery, BeginRestore, AtRest
  <2> QED BY ZenonT(30), <2>1 DEF RecoveryInv
<1>9. CASE StopRecovery \/ PowerLoss \/ Unfreeze
  BY ZenonT(30), <1>2, <1>9 DEF StopRecovery, PowerLoss, Unfreeze
<1>10. CASE Locate
  <2>1. CASE rec' # AtRest
    <3>1. /\ rec'.pc = IF rec.mode = "recovery" THEN "verify" ELSE "stage"
          /\ rec'.mode = rec.mode /\ frozen' = frozen
          /\ rec.mode # "recovery" => rec'.gen.body = rec'.owed
      BY ZenonT(30), <1>1, <1>10, <2>1 DEF Locate, FailClosed
    <3> QED BY ZenonT(30), <3>1 DEF RecoveryInv
  <2> QED BY ZenonT(30), <1>2, <2>1
<1>11. CASE VerifyLocated
  <2>1. CASE Step("verify", "stage")
    <3>1. rec.pc = "verify" /\ rec'.pc = "stage" /\ rec'.mode = rec.mode
      BY ZenonT(30), <1>3, <2>1
    <3>2. frozen' = frozen
      BY ZenonT(30), <1>11 DEF VerifyLocated
    <3> QED BY ZenonT(30), <3>1, <3>2 DEF RecoveryInv
  <2> QED BY ZenonT(30), <1>2, <1>11, <2>1 DEF VerifyLocated, FailClosed
<1>12. CASE Stage
  <2>1. CASE /\ staging' = StagedAs(rec.gen)
             /\ Step("stage", IF rec.mode = "recovery" THEN "replay" ELSE "promote")
    <3>1. /\ rec.pc = "stage" /\ rec'.pc = IF rec.mode = "recovery" THEN "replay" ELSE "promote"
          /\ rec'.mode = rec.mode /\ rec'.owed = rec.owed
      BY ZenonT(30), <1>3, <2>1
    <3>2. frozen' = frozen /\ staging'.body = rec.gen.body
      BY ZenonT(30), <1>12, <2>1 DEF Stage, StagedAs
    <3> QED BY ZenonT(30), <3>1, <3>2 DEF RecoveryInv, Settles
  <2> QED BY ZenonT(30), <1>2, <1>12, <2>1 DEF Stage, FailClosed
<1>13. CASE ReplayTail
  <2>1. CASE Step("replay", "reseal")
    <3>1. rec.pc = "replay" /\ rec'.pc = "reseal" /\ rec'.mode = rec.mode
      BY ZenonT(30), <1>3, <2>1
    <3>2. frozen' = frozen
      BY ZenonT(30), <1>13 DEF ReplayTail
    <3> QED BY ZenonT(30), <3>1, <3>2 DEF RecoveryInv
  <2> QED BY ZenonT(30), <1>2, <1>13, <2>1 DEF ReplayTail, FailClosed
<1>14. CASE Reseal
  <2>1. Step("reseal", "examine") /\ frozen' = frozen
    BY ZenonT(30), <1>14 DEF Reseal
  <2>2. rec.pc = "reseal" /\ rec'.pc = "examine" /\ rec'.mode = rec.mode
    BY ZenonT(30), <1>3, <2>1
  <2> QED BY ZenonT(30), <2>1, <2>2 DEF RecoveryInv
<1>15. CASE Examine
  <2>1. CASE staging.body >= rec.owed /\ Step("examine", "promote")
    <3>1. frozen' = frozen /\ staging' = staging
      BY ZenonT(30), <1>15 DEF Examine
    <3>2. /\ rec.pc = "examine" /\ rec'.pc = "promote"
          /\ rec'.mode = rec.mode /\ rec'.owed = rec.owed
      BY ZenonT(30), <1>3, <2>1
    <3> QED BY ZenonT(30), <2>1, <3>1, <3>2 DEF RecoveryInv, Settles
  <2> QED BY ZenonT(30), <1>2, <1>15, <2>1 DEF Examine, FailClosed
<1>16. CASE Promote
  <2>1. CASE rec' # AtRest
    <3>1. /\ rec.pc = "promote" /\ rec'.pc \in {"settle", "link"} /\ rec'.mode = rec.mode
          /\ rec'.owed = rec.owed /\ rec'.gen.body = staging.body /\ frozen' = frozen
      BY ZenonT(30), <1>1, <1>16, <2>1 DEF Promote, FailClosed
    <3> QED BY ZenonT(30), <3>1 DEF RecoveryInv, Settles
  <2> QED BY ZenonT(30), <1>2, <2>1
<1>17. CASE SettleLive
  <2>1. Step("settle", "link") /\ frozen' = frozen
    BY ZenonT(30), <1>17 DEF SettleLive
  <2>2. /\ rec.pc = "settle" /\ rec'.pc = "link" /\ rec'.mode = rec.mode
        /\ rec'.gen = rec.gen /\ rec'.owed = rec.owed
    BY ZenonT(30), <1>3, <2>1
  <2> QED BY ZenonT(30), <2>1, <2>2 DEF RecoveryInv, Settles
<1>18. CASE LinkLive
  <2>1. Step("link", "linked") /\ live' = rec.gen /\ frozen' = frozen
    BY ZenonT(30), <1>18 DEF LinkLive
  <2>2. rec.pc = "link" /\ rec'.pc = "linked" /\ rec'.mode = rec.mode /\ rec'.owed = rec.owed
    BY ZenonT(30), <1>3, <2>1
  <2> QED BY ZenonT(30), <2>1, <2>2 DEF RecoveryInv, Settles
<1> QED
  BY ZenonT(30), <1>5, <1>6, <1>7, <1>8, <1>9, <1>10, <1>11, <1>12, <1>13, <1>14, <1>15, <1>16,
     <1>17, <1>18, NextCases DEF Recovering, RecoveryStep

\* A step that moves `live` is the link of a promotion, or a power loss.
LEMMA LiveMoves ==
    ASSUME TypeInv, [Next]_vars, live' # live
    PROVE  PowerLoss \/ LinkLive
<1>1. CASE Recovering
  BY ZenonT(30), <1>1 DEF Recovering, BeginRecovery, BeginRestore, StopRecovery, RecoveryStep,
     Locate, VerifyLocated,
     Stage, ReplayTail, Reseal, Examine, Promote, SettleLive, Unfreeze, restored
<1>2. CASE TenantWrites \/ Tick \/ ClearStaging \/ UNCHANGED vars
  BY ZenonT(30), <1>2 DEF TenantWrites, Tick, ClearStaging, vars, restored
<1> QED BY ZenonT(30), <1>1, <1>2, NextCases, PublishingFrame

\* Only the last step of a recovery lifts the freeze.
LEMMA FreezeLifted ==
    ASSUME TypeInv, [Next]_vars, frozen, ~frozen'
    PROVE  Unfreeze
<1>1. CASE Recovering
  BY ZenonT(30), <1>1 DEF Recovering, BeginRecovery, BeginRestore, StopRecovery, RecoveryStep,
     Locate, VerifyLocated,
     Stage, ReplayTail, Reseal, Examine, Promote, SettleLive, LinkLive
<1>2. CASE TenantWrites \/ Tick \/ ClearStaging \/ PowerLoss \/ UNCHANGED vars
  BY ZenonT(30), <1>2 DEF TenantWrites, Tick, ClearStaging, PowerLoss, vars
<1> QED BY ZenonT(30), <1>1, <1>2, NextCases, PublishingFrame

\* stage_restore and promote_staged move `live` only to the backup that was located,
\* and run_disaster_recovery only to a candidate with every record the journal held
\* when it set the freeze, with the flag still set; and nothing but a recovery that
\* got there clears it.
THEOREM RecoveriesAreWhole == Spec => RecoveredWhole
<1>1. Init => TypeInv /\ RecoveryInv
  <2>1. Init => RecoveryInv
    BY DEF Init, RecoveryInv, AtRest
  <2> QED BY ZenonT(30), <2>1, TypeInit
<1>2. TypeInv /\ RecoveryInv /\ [Next]_vars => TypeInv' /\ RecoveryInv'
  BY ZenonT(30), TypeStep, RecoveryInvStep
<1> DEFINE Whole ==
             /\ live' # live /\ stops' = stops =>
                    Settles(live'.body) /\ (rec.mode = "recovery" => frozen)
             /\ frozen /\ ~frozen' => rec.mode = "recovery" /\ Settles(live'.body)
<1>3. TypeInv /\ RecoveryInv /\ [Next]_vars => Whole
  <2> SUFFICES ASSUME TypeInv, RecoveryInv, [Next]_vars PROVE Whole
    OBVIOUS
  <2>1. ASSUME live' # live, stops' = stops
        PROVE  Settles(live'.body) /\ (rec.mode = "recovery" => frozen)
    <3>1. ~PowerLoss
      BY <2>1 DEF PowerLoss, Count, TypeInv, TypeOK
    <3>2. rec.pc = "link" /\ live' = rec.gen
      BY ZenonT(30), <2>1, <3>1, LiveMoves DEF LinkLive, Step
    <3> QED BY ZenonT(30), <3>2 DEF RecoveryInv
  <2>2. ASSUME frozen, ~frozen'
        PROVE  rec.mode = "recovery" /\ Settles(live'.body)
    <3>1. rec.pc = "linked" /\ live' = live /\ frozen' = (frozen /\ rec.mode # "recovery")
      BY ZenonT(30), <2>2, FreezeLifted DEF Unfreeze
    <3>2. rec.mode = "recovery"
      BY ZenonT(30), <2>2, <3>1
    <3> QED BY ZenonT(30), <3>1, <3>2 DEF RecoveryInv
  <2> QED BY ZenonT(30), <2>1, <2>2
<1>4. Whole => [Whole]_vars
  OBVIOUS
<1> HIDE DEF Whole
<1>5. Spec => [][Whole]_vars
  BY <1>1, <1>2, <1>3, <1>4, PTL DEF Spec
<1> USE DEF Whole
<1> QED BY ZenonT(30), <1>5 DEF RecoveredWhole
=============================================================================
