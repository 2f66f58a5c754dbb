----------------------- MODULE GenerationStoreProofs ------------------------
(***************************************************************************)
(* The safety properties of GenerationStore, for every lineage, every      *)
(* number of generations and every number of interruptions.                *)
(***************************************************************************)
EXTENDS GenerationStore, TLAPS

-----------------------------------------------------------------------------
(* The inductive invariant *)

Working == {"gov", "img", "select", "erase_img", "erase_gov"}
Cleaning == {"sweep_img", "sweep_gov", "floor", "retire"}

\* Every step but an open starts from a tenant directory that is synced, and
\* from the generation its selector names.
Flow ==
    /\ dirs = "absent" => rootDisk = {root} /\ root.sel = NoSelector /\ root.intent = NoIntent
    /\ pc = "closed" => own = NoSelector
    /\ pc # "closed" => dirs = "made" /\ rootDisk = {root}
    /\ pc \notin {"closed", "open"} => own = root.sel
    /\ pc \in Working => own.gen < MaxGen
    /\ pc = "owner" => root.intent = NoIntent

\* What is published: under an intent what it names, otherwise no new purge.
JobOK ==
    pc \in Working =>
        IF root.intent = NoIntent THEN Purged(job) = Purged(own.pop)
        ELSE own.gen = root.intent.base /\ job = root.intent.to

CleaningOK ==
    pc \in Cleaning =>
        root.intent # NoIntent /\ own.gen = root.intent.base + 1 /\ own.pop = root.intent.to

\* validate_floor, of a tenant directory.
FloorExact(r) ==
    IF r.floor = NoFloor THEN Purged(r.sel.pop) = {}
    ELSE /\ r.floor.gen <= r.sel.gen /\ r.floor.purged # {}
         /\ r.floor.purged = Purged(r.sel.pop)

FloorPending(r) ==
    r.floor # NoFloor =>
        /\ r.floor.gen <= r.sel.gen /\ r.floor.purged # {}
        /\ r.floor.purged \subseteq Purged(r.sel.pop)

AtBase(r) == r.sel.gen = r.intent.base /\ r.sel.pop = r.intent.from /\ FloorExact(r)
AtTarget(r) == r.sel.gen = r.intent.base + 1 /\ r.sel.pop = r.intent.to /\ FloorPending(r)

\* Selector, intent and floor agree.
Agree(r) ==
    IF r.intent = NoIntent THEN FloorExact(r)
    ELSE /\ r.intent.base + 1 \in Gens
         /\ r.intent.to = prepare_purge(r.intent.from, r.intent.asset)
         /\ AtBase(r) \/ AtTarget(r)

AllAgree == \A r \in rootDisk : Agree(r) /\ (r.sel = NoSelector \/ r.sel.gen \in Gens)

RetireOK == pc = "retire" => FloorExact(root)

\* The artifacts that the selector is about to name.
Written ==
    \A f \in artDisk :
        /\ pc \in {"img", "select"} => f["gov"][own.gen + 1] = Body("whole", Content("gov", job))
        /\ pc = "select" => f["img"][own.gen + 1] = Body("whole", Content("img", job))

SweptOK ==
    pc \in {"sweep_gov", "floor", "retire"} =>
        \A f \in artDisk : \A g \in Gens : g # own.gen => f["img"][g] = Missing

\* A promised purge has left nothing behind, or its intent is still there.
Clean(a) == \A f \in artDisk : \A g \in Gens : f["img"][g].pop[a] \in {"absent", "purged"}
Gone(a) == Clean(a) /\ \A r \in rootDisk : r.sel.pop[a] = "purged"
Pending(a) == \A r \in rootDisk : r.intent # NoIntent /\ r.intent.to[a] = "purged"
PromisesOK == \A a \in promised : Gone(a) \/ Pending(a)

IInv ==
    /\ TypeOK /\ Flow /\ JobOK /\ CleaningOK /\ AllAgree /\ RetireOK
    /\ Written /\ SelectedReadable /\ AckedGenerationKept /\ SweptOK /\ PromisesOK

-----------------------------------------------------------------------------
(* Data *)

\* The values that stand for nothing have their types.
LEMMA NothingTypes ==
    /\ Blank \in Populations /\ NoSelector \in Selectors
    /\ NoIntent \in Intents /\ NoFloor \in Floors /\ Missing \in Bodies
    /\ Purged(Blank) = {}
<1>1. Blank \in Populations
    BY ZenonT(30), GenerationAssumption DEF Blank, Populations, WellFormed, States
<1>2. Blank \in [Assets -> States]
    BY ZenonT(30) DEF Blank, States
<1>3. (CHOOSE a \in Assets : TRUE) \in Assets
    BY ZenonT(30), GenerationAssumption
<1>4. Purged(Blank) = {}
    BY ZenonT(30) DEF Purged, Blank
<1> QED
    BY ZenonT(30), <1>1, <1>2, <1>3, <1>4
       DEF NoSelector, Selectors, NoIntent, Intents, NoFloor, Floors, Missing, Body, Bodies

\* prepare_purge returns a population that a restore accepts, in which the asset
\* and all that was purged before are tombstones.
LEMMA PurgeType ==
    ASSUME NEW p \in Populations, NEW a \in Assets, p[a] # "absent"
    PROVE  /\ prepare_purge(p, a) \in Populations
           /\ Purged(p) \subseteq Purged(prepare_purge(p, a))
           /\ Targets(p, a) \subseteq Purged(prepare_purge(p, a))
           /\ a \in Purged(prepare_purge(p, a))
<1> DEFINE q == prepare_purge(p, a)
<1>1. p \in [Assets -> States] /\ WellFormed(p)
    BY ZenonT(30) DEF Populations
<1>2. Targets(p, a) \subseteq Assets /\ a \in Targets(p, a)
    BY ZenonT(30), GenerationAssumption DEF Targets
<1>3. \A b \in Assets : q[b] = IF b \in Targets(p, a) THEN "purged" ELSE p[b]
    BY ZenonT(30) DEF prepare_purge
<1>4. q \in [Assets -> States]
    BY ZenonT(30), <1>1 DEF prepare_purge, States
<1>5. WellFormed(q)
  <2> SUFFICES ASSUME NEW c \in Assets, NEW b \in Below[c]
               PROVE  /\ q[b] # "absent" => q[c] # "absent"
                      /\ q[b] = "active" => q[c] = "active"
      BY ZenonT(30) DEF WellFormed
  <2>1. b \in Assets
      BY ZenonT(30), GenerationAssumption
  <2>2. p[b] # "absent" => p[c] # "absent"
      BY ZenonT(30), <1>1 DEF WellFormed
  <2>3. p[b] = "active" => p[c] = "active"
      BY ZenonT(30), <1>1 DEF WellFormed
  <2>4. c \in Targets(p, a) /\ p[b] # "absent" => b \in Targets(p, a)
      BY ZenonT(30), GenerationAssumption DEF Targets
  <2>5. b \in Targets(p, a) => p[b] # "absent"
      BY ZenonT(30) DEF Targets
  <2> QED
      BY ZenonT(30), <1>3, <2>1, <2>2, <2>3, <2>4, <2>5
<1> QED
    BY ZenonT(30), <1>2, <1>3, <1>4, <1>5 DEF Populations, Purged

\* Whatever the population, tombstones stay tombstones.
LEMMA PurgeGrows ==
    ASSUME NEW p \in Populations, NEW a \in Assets
    PROVE  /\ Purged(p) \subseteq Purged(prepare_purge(p, a))
           /\ a \in Purged(prepare_purge(p, a))
    BY ZenonT(30) DEF Purged, prepare_purge, Targets

\* What publish_generation writes is a body, and not a missing one.
LEMMA ContentType ==
    ASSUME NEW p \in Populations, NEW d \in Dirs, NEW s \in {"torn", "whole"}
    PROVE  Body(s, Content(d, p)) \in Bodies /\ Body(s, Content(d, p)) # Missing
<1>1. p \in [Assets -> States]
    BY ZenonT(30) DEF Populations
<1>2. Governance(p) \in [Assets -> States]
    BY ZenonT(30), <1>1 DEF Governance, States
<1>3. Content(d, p) \in [Assets -> States]
    BY ZenonT(30), <1>1, <1>2 DEF Content
<1> QED
    BY ZenonT(30), <1>3 DEF Body, Bodies, Missing

\* One file of the directories set.
LEMMA PutAt ==
    ASSUME NEW f \in Artifacts, NEW d \in Dirs, NEW g \in Gens, NEW b \in Bodies
    PROVE  /\ Put(f, d, g, b) \in Artifacts
           /\ Put(f, d, g, b)[d][g] = b
           /\ \A e \in Dirs, h \in Gens : e # d \/ h # g => Put(f, d, g, b)[e][h] = f[e][h]
    BY ZenonT(30) DEF Put, Artifacts

\* A directory from which all but the selected generation were removed.
LEMMA OnlyOwnAt ==
    ASSUME NEW f \in Artifacts, NEW d \in Dirs
    PROVE  /\ OnlyOwn(f, d) \in Artifacts
           /\ \A h \in Gens : h # own.gen => OnlyOwn(f, d)[d][h] = Missing
           /\ \A e \in Dirs, h \in Gens :
                  e # d \/ h = own.gen \/ f[e][h] = Missing => OnlyOwn(f, d)[e][h] = f[e][h]
    BY ZenonT(30), NothingTypes DEF OnlyOwn, Artifacts

\* One file of the tenant directory set.
LEMMA SetTypes ==
    ASSUME NEW r \in Roots
    PROVE  /\ r.sel \in Selectors /\ r.intent \in Intents /\ r.floor \in Floors
           /\ \A v \in Selectors :
                  /\ SetSelector(r, v) \in Roots /\ SetSelector(r, v).sel = v
                  /\ SetSelector(r, v).intent = r.intent /\ SetSelector(r, v).floor = r.floor
           /\ \A v \in Intents :
                  /\ SetIntent(r, v) \in Roots /\ SetIntent(r, v).sel = r.sel
                  /\ SetIntent(r, v).intent = v /\ SetIntent(r, v).floor = r.floor
           /\ \A v \in Floors :
                  /\ SetFloor(r, v) \in Roots /\ SetFloor(r, v).sel = r.sel
                  /\ SetFloor(r, v).intent = r.intent /\ SetFloor(r, v).floor = v
    BY ZenonT(30) DEF Roots, SetSelector, SetIntent, SetFloor

-----------------------------------------------------------------------------
(* Steps that leave the tenant directory alone *)

\* The part of the invariant that only the files can disturb.
FilesOK ==
    AllAgree /\ SelectedReadable /\ AckedGenerationKept /\ PromisesOK

\* An artifact k has the body of f, none, or one that is being published.
FromOrJob(k, f) ==
    \A h \in Gens : \/ k["img"][h] = f["img"][h]
                    \/ k["img"][h] = Missing
                    \/ pc \in Working /\ k["img"][h].pop = job

\* What is published keeps every tombstone.
LEMMA JobKeeps ==
    ASSUME IInv, pc \in Working, NEW a \in Assets, own.pop[a] = "purged"
    PROVE  job[a] = "purged"
<1>1. own = root.sel /\ rootDisk = {root}
    BY ZenonT(30) DEF IInv, Flow, Working
<1>2. CASE root.intent = NoIntent
    BY ZenonT(30), <1>2 DEF IInv, JobOK, Purged
<1>3. CASE root.intent # NoIntent
  <2>1. own.gen = root.intent.base /\ job = root.intent.to
      BY ZenonT(30), <1>3 DEF IInv, JobOK
  <2>2. root \in Roots /\ own \in Selectors
      BY ZenonT(30) DEF IInv, TypeOK
  <2>3. root.intent.asset \in Assets /\ own.pop \in Populations /\ own.gen \in Int
      BY <2>2 DEF Roots, Intents, Selectors, Gens
  <2>4. own.pop = root.intent.from /\ job = prepare_purge(own.pop, root.intent.asset)
      BY <1>1, <1>3, <2>1, <2>3 DEF IInv, AllAgree, Agree, AtBase, AtTarget
  <2> QED
      BY ZenonT(30), <2>3, <2>4, PurgeGrows DEF Purged
<1> QED BY ZenonT(30), <1>2, <1>3

\* Steps on artifacts other than the selected ones.
LEMMA ArtifactStep ==
    ASSUME IInv, pc \notin {"closed", "open"}, UNCHANGED <<root, rootDisk, history>>,
           \A k \in artDisk' : \E f \in artDisk :
               /\ own.gen \in Gens => \A e \in Dirs : k[e][own.gen] = f[e][own.gen]
               /\ FromOrJob(k, f)
    PROVE  FilesOK'
<1>1. rootDisk = {root} /\ own = root.sel
    BY ZenonT(30) DEF IInv, Flow
<1>2. AllAgree' /\ AckedGenerationKept'
    BY ZenonT(30) DEF IInv, AllAgree, AckedGenerationKept, history
<1>3. SelectedReadable'
  <2> SUFFICES ASSUME NEW k \in artDisk', root.sel # NoSelector
               PROVE  Readable(root.sel, k)
      BY ZenonT(30), <1>1 DEF SelectedReadable
  <2>1. own.gen \in Gens
      BY ZenonT(30), <1>1 DEF IInv, AllAgree
  <2>2. PICK f \in artDisk : \A e \in Dirs : k[e][own.gen] = f[e][own.gen]
      BY ZenonT(30), <2>1
  <2>3. Readable(root.sel, f)
      BY ZenonT(30), <1>1 DEF IInv, SelectedReadable
  <2> QED
      BY ZenonT(30), <1>1, <2>2, <2>3 DEF Readable
<1>4. PromisesOK'
  <2> SUFFICES ASSUME NEW a \in promised, ~Pending(a)
               PROVE  Gone(a)'
      BY ZenonT(30) DEF PromisesOK, Pending, history
  <2>1. Gone(a) /\ a \in Assets
      BY ZenonT(30) DEF IInv, PromisesOK, TypeOK
  <2>2. own.pop[a] = "purged"
      BY ZenonT(30), <1>1, <2>1 DEF Gone
  <2>3. pc \in Working => job[a] = "purged"
      BY ZenonT(30), <2>1, <2>2, JobKeeps
  <2>4. Missing.pop[a] = "absent"
      BY ZenonT(30), <2>1 DEF Missing, Body, Blank
  <2>5. Clean(a)'
    <3> SUFFICES ASSUME NEW k \in artDisk', NEW h \in Gens
                 PROVE  k["img"][h].pop[a] \in {"absent", "purged"}
        BY ZenonT(30) DEF Clean
    <3>1. PICK f \in artDisk : FromOrJob(k, f)
        OBVIOUS
    <3>2. f["img"][h].pop[a] \in {"absent", "purged"}
        BY ZenonT(30), <2>1 DEF Gone, Clean
    <3> QED
        BY ZenonT(30), <2>3, <2>4, <3>1, <3>2 DEF FromOrJob
  <2> QED
      BY ZenonT(30), <2>1, <2>5 DEF Gone
<1> QED
    BY ZenonT(30), <1>2, <1>3, <1>4 DEF FilesOK

\* The part of the invariant that depends on where the process is.
ControlOK == Flow /\ JobOK /\ CleaningOK /\ RetireOK /\ Written /\ SweptOK

Fresh == dirs = "absent" => rootDisk = {root} /\ root.sel = NoSelector /\ root.intent = NoIntent

\* A closed store is nowhere.
LEMMA ClosedControl ==
    ASSUME Closed, Fresh'
    PROVE  ControlOK'
    BY ZenonT(30) DEF Closed, Fresh, ControlOK, Flow, JobOK, CleaningOK, RetireOK, Written,
       SweptOK, Working,
           Cleaning

\* The directories are made before anything else.
LEMMA StillFresh ==
    ASSUME IInv, dirs' = dirs, UNCHANGED <<root, rootDisk>>
    PROVE  Fresh'
    BY ZenonT(30) DEF IInv, Flow, Fresh

\* The types of a step on artifacts.
ArtifactTypes == art \in artDisk /\ artDisk \subseteq Artifacts

\* A step on artifacts, or one that closes the store, keeps the types.
LEMMA TypesOfStep ==
    ASSUME TypeOK, ArtifactTypes', UNCHANGED <<dirs, root, rootDisk, history>>,
           \/ Closed /\ Break
           \/ Closed /\ breaks' = breaks
           \/ /\ UNCHANGED <<own, job, breaks>>
              /\ pc' \in {"gov", "img", "select", "erase_gov", "sweep_img", "sweep_gov", "floor"}
    PROVE  TypeOK'
    BY NothingTypes, GenerationAssumption DEF TypeOK, ArtifactTypes, Closed, Break, history

\* A step of the process between two steps of its own, an error or its death.
LEMMA CrashStep ==
    ASSUME IInv, Crash
    PROVE  IInv'
<1>1. TypeOK'
    BY ZenonT(30), TypesOfStep DEF Crash, files, IInv, TypeOK, ArtifactTypes
<1>2. ControlOK'
    BY ZenonT(30), ClosedControl, StillFresh DEF Crash, files
<1>3. FilesOK'
    BY ZenonT(30) DEF IInv, Crash, files, history, FilesOK, AllAgree, SelectedReadable,
       AckedGenerationKept,
           PromisesOK, Gone, Clean, Pending
<1> QED BY ZenonT(30), <1>1, <1>2, <1>3 DEF IInv, ControlOK, FilesOK

-----------------------------------------------------------------------------
(* Publication of an artifact *)

\* An artifact of the next generation is written, found or refused
\* (write_new_or_verify_exact): the selected one is untouched.
LEMMA WriteStep ==
    ASSUME IInv, NEW d \in Dirs, NEW next,
           WriteArtifact(d, next), UNCHANGED <<dirs, root, rootDisk, history>>,
           pc = d, next = IF d = "gov" THEN "img" ELSE "select"
    PROVE  IInv'
<1> DEFINE g == own.gen + 1
           b == Body("whole", Content(d, job))
           torn == Body("torn", Content(d, job))
<1>1. pc \in Working /\ pc \notin {"closed", "open"} /\ own = root.sel
    BY ZenonT(30) DEF Dirs, Working, IInv, Flow
<1>2. own \in Selectors /\ job \in Populations /\ artDisk \subseteq Artifacts /\ art \in artDisk
    BY ZenonT(30) DEF IInv, TypeOK
<1>3. g \in Gens /\ g # own.gen
    BY <1>1, <1>2, GenerationAssumption DEF IInv, Flow, Selectors, Gens
<1>4. b \in Bodies /\ torn \in Bodies /\ b # Missing
    BY ZenonT(30), <1>2, ContentType
<1>5. b.pop = Content(d, job) /\ torn.pop = Content(d, job)
    BY ZenonT(30) DEF Body
<1> HIDE DEF g, b, torn
<1>w. \/ /\ pc' = next /\ UNCHANGED <<own, job, breaks>>
         /\ artDisk' = {Put(f, d, g, b) : f \in artDisk}
         /\ art' = Put(art, d, g, b) \/ (art' = art /\ art[d][g] = b)
      \/ Closed /\ UNCHANGED <<art, artDisk, breaks>>
      \/ /\ Break /\ Closed
         /\ \E c \in {b, torn} : art' = Put(art, d, g, c)
         /\ artDisk' = artDisk \cup {Put(f, d, g, c) : f \in artDisk, c \in {b, torn}}
    BY DEF WriteArtifact, FoundExact, g, b, torn
<1>6. \A k \in artDisk' : \E f \in artDisk :
          k = f \/ (\E c \in {b, torn} : k = Put(f, d, g, c))
    BY <1>w
<1>7. ArtifactTypes'
  <2>1. \A f \in artDisk, c \in {b, torn} : Put(f, d, g, c) \in Artifacts
      BY ZenonT(30), <1>2, <1>3, <1>4, PutAt
  <2>2. art[d][g] = b => Put(art, d, g, b) = art
      BY ZenonT(30), <1>2, <1>3 DEF Put, Artifacts
  <2>3. art' \in artDisk'
      BY <1>2, <1>w, <2>2
  <2> QED BY <1>2, <1>6, <2>1, <2>3 DEF ArtifactTypes
<1>8. TypeOK'
    BY <1>7, <1>w, TypesOfStep DEF IInv, Dirs
<1>9. FilesOK'
  <2> SUFFICES ASSUME NEW k \in artDisk'
               PROVE  \E f \in artDisk :
                         /\ own.gen \in Gens => \A e \in Dirs : k[e][own.gen] = f[e][own.gen]
                         /\ FromOrJob(k, f)
      BY ZenonT(30), <1>1, ArtifactStep
  <2>1. PICK f \in artDisk : k = f \/ (\E c \in {b, torn} : k = Put(f, d, g, c))
      BY ZenonT(30), <1>6
  <2>2. CASE k = f
      BY ZenonT(30), <2>2 DEF FromOrJob
  <2>3. ASSUME NEW c \in {b, torn}, k = Put(f, d, g, c)
        PROVE  /\ own.gen \in Gens => \A e \in Dirs : k[e][own.gen] = f[e][own.gen]
               /\ FromOrJob(k, f)
    <3>1. f \in Artifacts /\ c \in Bodies
        BY ZenonT(30), <1>2, <1>4
    <3>2. k[d][g] = c /\ \A e \in Dirs, h \in Gens : e # d \/ h # g => k[e][h] = f[e][h]
        BY <1>3, <2>3, <3>1, PutAt
    <3>3. d = "img" => c.pop = job
        BY ZenonT(30), <1>5 DEF Content
    <3> QED
        BY ZenonT(30), <1>1, <1>3, <3>2, <3>3 DEF FromOrJob, Dirs
  <2> QED BY ZenonT(30), <2>1, <2>2, <2>3
<1>10. CASE Closed
    BY ZenonT(30), <1>8, <1>9, <1>10, ClosedControl, StillFresh DEF IInv, ControlOK, FilesOK
<1>11. CASE /\ pc' = next /\ UNCHANGED <<own, job>>
            /\ \A k \in artDisk' : \E f \in artDisk : k = Put(f, d, g, b)
  <2>1. Flow' /\ JobOK'
      BY ZenonT(30), <1>1, <1>11 DEF IInv, Flow, JobOK, Working, Dirs
  <2>2. CleaningOK' /\ RetireOK' /\ SweptOK'
      BY ZenonT(30), <1>11 DEF CleaningOK, RetireOK, SweptOK, Cleaning, Dirs
  <2>3. Written'
    <3> SUFFICES ASSUME NEW k \in artDisk'
                 PROVE  /\ pc' \in {"img", "select"} => k["gov"][g] = Body("whole", Content("gov", job))
                        /\ pc' = "select" => k["img"][g] = Body("whole", Content("img", job))
        BY ZenonT(30), <1>11 DEF Written, g
    <3>1. PICK f \in artDisk : k = Put(f, d, g, b)
        BY ZenonT(30), <1>11
    <3>2. k[d][g] = b /\ \A e \in Dirs, h \in Gens : e # d \/ h # g => k[e][h] = f[e][h]
        BY <1>2, <1>3, <1>4, <3>1, PutAt
    <3>3. CASE d = "gov"
        BY ZenonT(30), <1>11, <3>2, <3>3 DEF b
    <3>4. CASE d = "img"
      <4>1. f["gov"][g] = Body("whole", Content("gov", job))
          BY ZenonT(30), <3>4 DEF IInv, Written, g
      <4> QED
          BY ZenonT(30), <1>3, <3>2, <3>4, <4>1 DEF b, Dirs
    <3> QED BY ZenonT(30), <3>3, <3>4 DEF Dirs
  <2> QED
      BY ZenonT(30), <1>8, <1>9, <2>1, <2>2, <2>3 DEF IInv, FilesOK
<1>12. Closed \/ /\ pc' = next /\ UNCHANGED <<own, job>>
                 /\ \A k \in artDisk' : \E f \in artDisk : k = Put(f, d, g, b)
    BY <1>w
<1> QED BY ZenonT(30), <1>10, <1>11, <1>12

\* Both artifacts of publish_generation.
LEMMA PublishArtifactSteps ==
    ASSUME IInv, publish_governance \/ publish_image
    PROVE  IInv'
<1>1. CASE publish_governance
    BY ZenonT(30), <1>1, WriteStep DEF publish_governance, Dirs
<1>2. CASE publish_image
    BY ZenonT(30), <1>2, WriteStep DEF publish_image, Dirs
<1> QED BY ZenonT(30), <1>1, <1>2

-----------------------------------------------------------------------------
(* Removal of artifacts *)

\* The removal of what is there of the recorded next generation.
LEMMA EraseStep ==
    ASSUME IInv, erase_next
    PROVE  IInv'
<1>1. PICK d \in Dirs : \E next \in {"erase_gov", "gov"} :
          erase(d, next) /\ pc \in {"erase_img", "erase_gov"}
    BY ZenonT(30) DEF erase_next, Dirs
<1>2. UNCHANGED <<dirs, root, rootDisk, history>>
    BY ZenonT(30) DEF erase_next
<1> DEFINE g == own.gen + 1
<1>3. pc \in Working /\ pc \notin {"closed", "open"} /\ own = root.sel
    BY ZenonT(30), <1>1 DEF Working, IInv, Flow
<1>4. own \in Selectors /\ artDisk \subseteq Artifacts /\ art \in artDisk
    BY ZenonT(30) DEF IInv, TypeOK
<1>5. g \in Gens /\ g # own.gen
    BY <1>3, <1>4, GenerationAssumption DEF IInv, Flow, Selectors, Gens
<1> HIDE DEF g
<1>6. /\ art' = Put(art, d, g, Missing)
      /\ \/ artDisk' = {Put(f, d, g, Missing) : f \in artDisk}
         \/ artDisk' = artDisk \cup {Put(f, d, g, Missing) : f \in artDisk}
      /\ \/ pc' \in {"erase_gov", "gov"} /\ UNCHANGED <<own, job, breaks>>
         \/ Break /\ Closed
    BY ZenonT(30), <1>1 DEF erase, EraseNext, g
<1>7. \A k \in artDisk' : \E f \in artDisk : k = f \/ k = Put(f, d, g, Missing)
    BY ZenonT(30), <1>6
<1>8. \A f \in artDisk :
          /\ Put(f, d, g, Missing) \in Artifacts
          /\ Put(f, d, g, Missing)[d][g] = Missing
          /\ \A e \in Dirs, h \in Gens : e # d \/ h # g => Put(f, d, g, Missing)[e][h] = f[e][h]
    BY <1>4, <1>5, NothingTypes, PutAt
<1>9. ArtifactTypes'
    BY ZenonT(30), <1>4, <1>6, <1>7, <1>8 DEF ArtifactTypes
<1>10. TypeOK'
    BY ZenonT(30), <1>2, <1>6, <1>9, TypesOfStep DEF IInv
<1>11. FilesOK'
  <2> SUFFICES ASSUME NEW k \in artDisk'
               PROVE  \E f \in artDisk :
                         /\ own.gen \in Gens => \A e \in Dirs : k[e][own.gen] = f[e][own.gen]
                         /\ FromOrJob(k, f)
      BY ZenonT(30), <1>2, <1>3, ArtifactStep
  <2>1. PICK f \in artDisk : k = f \/ k = Put(f, d, g, Missing)
      BY ZenonT(30), <1>7
  <2>2. \A e \in Dirs, h \in Gens : k[e][h] = f[e][h] \/ (h = g /\ k[e][h] = Missing)
      BY <1>8, <2>1
  <2> QED
      BY ZenonT(30), <1>5, <2>2 DEF FromOrJob, Dirs
<1>12. CASE Closed
    BY ZenonT(30), <1>2, <1>10, <1>11, <1>12, ClosedControl, StillFresh DEF IInv, ControlOK, FilesOK
<1>13. CASE pc' \in {"erase_gov", "gov"} /\ UNCHANGED <<own, job, breaks>>
  <2>1. Flow' /\ JobOK'
      BY ZenonT(30), <1>2, <1>3, <1>13 DEF IInv, Flow, JobOK, Working
  <2>2. CleaningOK' /\ RetireOK' /\ SweptOK' /\ Written'
      BY ZenonT(30), <1>13 DEF CleaningOK, RetireOK, SweptOK, Written, Cleaning
  <2> QED
      BY ZenonT(30), <1>10, <1>11, <2>1, <2>2 DEF IInv, FilesOK
<1> QED BY ZenonT(30), <1>6, <1>12, <1>13

\* The removal of every generation but the selected one.
LEMMA SweepStep ==
    ASSUME IInv, sweep
    PROVE  IInv'
<1>1. PICK d \in Dirs : /\ sweep_file(d) \/ sweep_done(d, IF d = "img" THEN "sweep_gov" ELSE "floor")
                        /\ pc = IF d = "img" THEN "sweep_img" ELSE "sweep_gov"
    BY ZenonT(30) DEF sweep, Dirs
<1>2. UNCHANGED <<own, job, dirs, root, rootDisk, history, breaks>>
    BY ZenonT(30) DEF sweep
<1>3. pc \in Cleaning /\ pc \notin {"closed", "open"}
    BY ZenonT(30), <1>1 DEF Cleaning
<1>4. artDisk \subseteq Artifacts /\ art \in artDisk
    BY ZenonT(30) DEF IInv, TypeOK
<1>5. \A k \in artDisk' : \E f \in artDisk :
          /\ k \in Artifacts
          /\ \A e \in Dirs, h \in Gens : k[e][h] = f[e][h] \/ (h # own.gen /\ k[e][h] = Missing)
  <2>1. CASE sweep_file(d)
    <3>1. PICK g \in Gens \ {own.gen} :
              artDisk' = artDisk \cup {Put(f, d, g, Missing) : f \in artDisk}
        BY ZenonT(30), <2>1 DEF sweep_file
    <3>2. \A f \in artDisk :
              /\ Put(f, d, g, Missing) \in Artifacts
              /\ Put(f, d, g, Missing)[d][g] = Missing
              /\ \A e \in Dirs, h \in Gens : e # d \/ h # g => Put(f, d, g, Missing)[e][h] = f[e][h]
        BY <1>4, NothingTypes, PutAt
    <3>3. \A f \in artDisk : \A e \in Dirs, h \in Gens :
              \/ Put(f, d, g, Missing)[e][h] = f[e][h]
              \/ h # own.gen /\ Put(f, d, g, Missing)[e][h] = Missing
        BY <3>2
    <3> QED
        BY <1>4, <3>1, <3>2, <3>3
  <2>2. CASE SweptSynced(d)
    <3>1. artDisk' = {OnlyOwn(f, d) : f \in artDisk}
        BY ZenonT(30), <2>2 DEF SweptSynced
    <3>2. \A f \in artDisk :
              /\ OnlyOwn(f, d) \in Artifacts
              /\ \A e \in Dirs, h \in Gens :
                    \/ OnlyOwn(f, d)[e][h] = f[e][h]
                    \/ h # own.gen /\ OnlyOwn(f, d)[e][h] = Missing
        BY <1>4, OnlyOwnAt
    <3> QED
        BY <3>1, <3>2
  <2> QED BY ZenonT(30), <1>1, <2>1, <2>2 DEF sweep_done
<1>6. art' \in artDisk'
  <2>1. CASE sweep_file(d)
      BY ZenonT(30), <1>4, <2>1 DEF sweep_file
  <2>2. CASE Swept(d) /\ SweptSynced(d) /\ art' = art
    <3>1. OnlyOwn(art, d) = art
        BY SMTT(30), <1>4, <2>2 DEF OnlyOwn, Swept, Artifacts
    <3> QED
        BY ZenonT(30), <1>4, <2>2, <3>1 DEF SweptSynced
  <2> QED BY ZenonT(30), <1>1, <2>1, <2>2 DEF sweep_done
<1>7. TypeOK'
  <2>1. pc' \in {"sweep_img", "sweep_gov", "floor"}
      BY ZenonT(30), <1>1 DEF sweep_file, sweep_done
  <2> QED
      BY ZenonT(30), <1>2, <1>5, <1>6, <2>1, TypesOfStep DEF ArtifactTypes, IInv
<1>8. FilesOK'
  <2>1. \A k \in artDisk' : \E f \in artDisk :
            /\ own.gen \in Gens => \A e \in Dirs : k[e][own.gen] = f[e][own.gen]
            /\ FromOrJob(k, f)
      BY ZenonT(30), <1>5 DEF FromOrJob, Dirs
  <2> QED
      BY ZenonT(30), <1>2, <1>3, <2>1, ArtifactStep
<1>9. Flow' /\ JobOK' /\ CleaningOK' /\ RetireOK' /\ Written'
  <2>1. pc' \in {"sweep_img", "sweep_gov", "floor"}
      BY ZenonT(30), <1>1 DEF sweep_file, sweep_done
  <2> QED
      BY ZenonT(30), <1>2, <1>3, <2>1
         DEF IInv, Flow, JobOK, CleaningOK, RetireOK, Written, Working, Cleaning
<1>10. SweptOK'
  <2> SUFFICES ASSUME pc' \in {"sweep_gov", "floor"}, NEW k \in artDisk', NEW g \in Gens,
                      g # own.gen
               PROVE  k["img"][g] = Missing
      BY ZenonT(30), <1>1, <1>2 DEF SweptOK, sweep_file, sweep_done
  <2>1. CASE pc = "sweep_gov"
    <3>1. PICK f \in artDisk : k["img"][g] = f["img"][g] \/ k["img"][g] = Missing
        BY ZenonT(30), <1>5 DEF Dirs
    <3>2. f["img"][g] = Missing
        BY ZenonT(30), <2>1 DEF IInv, SweptOK
    <3> QED BY ZenonT(30), <3>1, <3>2
  <2>2. CASE d = "img" /\ SweptSynced(d)
    <3>1. PICK f \in artDisk : k = OnlyOwn(f, d)
        BY ZenonT(30), <2>2 DEF SweptSynced
    <3> QED
        BY ZenonT(30), <1>4, <2>2, <3>1, OnlyOwnAt
  <2>3. pc = "sweep_gov" \/ (d = "img" /\ SweptSynced(d))
      BY ZenonT(30), <1>1 DEF sweep_file, sweep_done, Dirs
  <2> QED BY ZenonT(30), <2>1, <2>2, <2>3
<1> QED
    BY ZenonT(30), <1>7, <1>8, <1>9, <1>10 DEF IInv, FilesOK

-----------------------------------------------------------------------------
(* Steps on the tenant directory *)

\* A rename or unlink in the tenant directory, synced or not.
LEMMA RootStep ==
    ASSUME IInv, pc # "closed", NEW n \in Roots,
           root' \in rootDisk', rootDisk' \subseteq {root, n}, UNCHANGED <<art, artDisk>>,
           Agree(n), n.sel = NoSelector \/ n.sel.gen \in Gens,
           n.sel # NoSelector => \A f \in artDisk : Readable(n.sel, f)
    PROVE  AllAgree' /\ SelectedReadable' /\ rootDisk' \subseteq Roots
<1>1. rootDisk = {root} /\ root \in Roots
    BY ZenonT(30) DEF IInv, Flow, TypeOK
<1> QED
    BY ZenonT(30), <1>1 DEF IInv, AllAgree, SelectedReadable

\* The types of such a step.
LEMMA RootTypes ==
    ASSUME TypeOK, root' \in rootDisk', rootDisk' \subseteq Roots,
           UNCHANGED <<dirs, art, artDisk>>,
           promised' \subseteq Assets, acked' \in Selectors,
           \/ Closed /\ Break
           \/ own' = own /\ job' \in Populations /\ breaks' = breaks
              /\ pc' \in {"gov", "open", "retire", "owner"}
    PROVE  TypeOK'
    BY NothingTypes, GenerationAssumption DEF TypeOK, Closed, Break

\* The selector replaced: both artifacts of the generation are durable by then.
LEMMA SelectorStep ==
    ASSUME IInv, publish_selector
    PROVE  IInv'
<1> DEFINE s == [gen |-> own.gen + 1, pop |-> job]
           n == SetSelector(root, s)
<1>1. pc = "select" /\ pc \in Working /\ rootDisk = {root} /\ own = root.sel
    BY ZenonT(30) DEF publish_selector, Working, IInv, Flow
<1>2. own \in Selectors /\ job \in Populations /\ root \in Roots
    BY ZenonT(30) DEF IInv, TypeOK
<1>3. own.gen + 1 \in Gens /\ own.gen \in Int
    BY <1>1, <1>2, GenerationAssumption DEF IInv, Flow, Selectors, Gens
<1>4. s \in Selectors /\ s.gen = own.gen + 1 /\ s.pop = job
    BY ZenonT(30), <1>2, <1>3 DEF Selectors
<1> HIDE DEF s
<1>5. n \in Roots /\ n.sel = s /\ n.intent = root.intent /\ n.floor = root.floor
    BY ZenonT(30), <1>2, <1>4, SetTypes
<1>6. /\ UNCHANGED <<dirs, art, artDisk, acked, promised>>
      /\ \/ root' = n /\ rootDisk' = {n} /\ pc' = "open" /\ UNCHANGED <<own, job, breaks>>
         \/ /\ Break /\ Closed
            /\ \/ root' = root /\ rootDisk' = rootDisk
               \/ root' = n /\ rootDisk' = {root, n}
    BY ZenonT(30), <1>1 DEF publish_selector, RootDone, RootInterrupted, history, s
<1>7. root' \in rootDisk' /\ rootDisk' \subseteq {root, n}
    BY ZenonT(30), <1>1, <1>6
<1> HIDE DEF n
<1>8. root.floor.gen \in Int /\ Agree(root)
    BY <1>1, <1>2 DEF Roots, Floors, Gens, IInv, AllAgree
<1>9. Agree(n)
  <2>1. CASE root.intent = NoIntent
    <3>1. Purged(job) = Purged(own.pop)
        BY ZenonT(30), <1>1, <2>1 DEF IInv, JobOK
    <3> QED
        BY <1>1, <1>3, <1>4, <1>5, <1>8, <2>1, <3>1 DEF Agree, FloorExact
  <2>2. CASE root.intent # NoIntent
    <3>1. own.gen = root.intent.base /\ job = root.intent.to
        BY ZenonT(30), <1>1, <2>2 DEF IInv, JobOK
    <3>2. root.intent.asset \in Assets /\ own.pop \in Populations
        BY ZenonT(30), <1>2 DEF Roots, Intents, Selectors
    <3>3. AtBase(root) /\ job = prepare_purge(own.pop, root.intent.asset)
        BY <1>1, <1>3, <1>8, <2>2, <3>1 DEF Agree, AtBase, AtTarget
    <3>4. Purged(own.pop) \subseteq Purged(job)
        BY ZenonT(30), <3>2, <3>3, PurgeGrows
    <3>5. AtTarget(n)
        BY SMTT(30), <1>1, <1>3, <1>4, <1>5, <1>8, <3>1, <3>3, <3>4
           DEF AtBase, AtTarget, FloorExact, FloorPending
    <3> QED
        BY ZenonT(30), <1>5, <1>8, <2>2, <3>5 DEF Agree
  <2> QED BY ZenonT(30), <2>1, <2>2
<1>10. \A f \in artDisk : Readable(n.sel, f)
    BY ZenonT(30), <1>1, <1>4, <1>5 DEF IInv, Written, Readable, Dirs
<1>11. AllAgree' /\ SelectedReadable' /\ rootDisk' \subseteq Roots
    BY ZenonT(30), <1>1, <1>3, <1>4, <1>5, <1>6, <1>7, <1>9, <1>10, RootStep
<1>12. TypeOK'
    BY ZenonT(30), <1>2, <1>6, <1>7, <1>11, RootTypes DEF IInv, TypeOK
<1>13. AckedGenerationKept'
  <2>1. acked.gen \in Int
      BY DEF IInv, TypeOK, Selectors, Gens
  <2>2. own.gen > acked.gen \/ own = acked
      BY ZenonT(30), <1>1 DEF IInv, AckedGenerationKept
  <2>3. n.sel.gen > acked.gen
      BY <1>3, <1>4, <1>5, <2>1, <2>2
  <2> QED
      BY ZenonT(30), <1>1, <1>6, <1>7, <2>2, <2>3 DEF AckedGenerationKept
<1>14. PromisesOK'
  <2> SUFFICES ASSUME NEW a \in promised
               PROVE  Gone(a)' \/ Pending(a)'
      BY ZenonT(30), <1>6 DEF PromisesOK
  <2>1. CASE Gone(a)
    <3>1. own.pop[a] = "purged" /\ a \in Assets
        BY ZenonT(30), <1>1, <2>1 DEF Gone, IInv, TypeOK
    <3>2. n.sel.pop[a] = "purged"
        BY ZenonT(30), <1>1, <1>4, <1>5, <3>1, JobKeeps
    <3> QED
        BY ZenonT(30), <1>1, <1>6, <1>7, <2>1, <3>1, <3>2 DEF Gone, Clean
  <2>2. CASE Pending(a)
      BY ZenonT(30), <1>1, <1>5, <1>7, <2>2 DEF Pending
  <2> QED
      BY ZenonT(30), <2>1, <2>2 DEF IInv, PromisesOK
<1>15. ControlOK'
  <2>1. CASE Closed
      BY ZenonT(30), <1>1, <1>6, <2>1, ClosedControl DEF IInv, Flow, Fresh
  <2>2. CASE pc' = "open" /\ root' = n /\ rootDisk' = {n}
      BY ZenonT(30), <1>1, <1>6, <2>2
         DEF IInv, ControlOK, Flow, JobOK, CleaningOK, RetireOK, Written, SweptOK, Working, Cleaning
  <2> QED BY ZenonT(30), <1>6, <2>1, <2>2
<1> QED
    BY ZenonT(30), <1>11, <1>12, <1>13, <1>14, <1>15 DEF IInv, ControlOK

\* The purge intent written by commit_prepared_purge.
LEMMA PurgeStep ==
    ASSUME IInv, NEW a \in Assets, commit_prepared_purge(a)
    PROVE  IInv'
<1> DEFINE to == prepare_purge(own.pop, a)
           i == [base |-> own.gen, from |-> own.pop, to |-> to, asset |-> a]
           n == SetIntent(root, i)
<1>1. /\ pc = "owner" /\ own.gen < MaxGen /\ own.pop[a] # "absent"
      /\ root.intent = NoIntent /\ rootDisk = {root} /\ own = root.sel /\ dirs = "made"
    BY ZenonT(30) DEF commit_prepared_purge, HasNext, IInv, Flow
<1>2. own \in Selectors /\ own.pop \in Populations /\ root \in Roots
    BY ZenonT(30) DEF IInv, TypeOK, Selectors
<1>3. own.gen + 1 \in Gens /\ own.gen \in Int
    BY <1>1, <1>2, GenerationAssumption DEF Selectors, Gens
<1>4. /\ to \in Populations /\ a \in Purged(to) /\ Targets(own.pop, a) \subseteq Purged(to)
    BY ZenonT(30), <1>1, <1>2, PurgeType
<1>5. /\ i \in Intents /\ i.base = own.gen /\ i.from = own.pop /\ i.asset = a
      /\ i.to = prepare_purge(own.pop, a)
    BY ZenonT(30), <1>2, <1>4 DEF Intents, Selectors
<1>6. i # NoIntent
  <2>1. i.to[a] = "purged" /\ NoIntent.to[a] = "absent"
      BY ZenonT(30), <1>4, <1>5 DEF NoIntent, Blank, Purged
  <2> QED BY ZenonT(30), <2>1
<1> HIDE DEF i, to
<1>7. n \in Roots /\ n.sel = root.sel /\ n.intent = i /\ n.floor = root.floor
    BY ZenonT(30), <1>2, <1>5, SetTypes
<1>8. /\ UNCHANGED <<dirs, art, artDisk, acked>>
      /\ \/ /\ root' = n /\ rootDisk' = {n} /\ pc' = "gov" /\ job' = to
            /\ promised' = promised \cup Targets(own.pop, a) /\ UNCHANGED <<own, breaks>>
         \/ /\ Break /\ Closed /\ promised' = promised
            /\ \/ root' = root /\ rootDisk' = rootDisk
               \/ root' = n /\ rootDisk' = {root, n}
    BY ZenonT(30), <1>1 DEF commit_prepared_purge, RootDone, RootInterrupted, history, i, to
<1>9. root' \in rootDisk' /\ rootDisk' \subseteq {root, n}
    BY ZenonT(30), <1>1, <1>8
<1> HIDE DEF n
<1>10. Agree(n)
  <2>1. FloorExact(root)
      BY ZenonT(30), <1>1 DEF IInv, AllAgree, Agree
  <2>2. AtBase(n)
      BY ZenonT(30), <1>1, <1>5, <1>7, <2>1 DEF AtBase, FloorExact
  <2> QED
      BY ZenonT(30), <1>3, <1>5, <1>6, <1>7, <2>2 DEF Agree
<1>11. AllAgree' /\ SelectedReadable' /\ rootDisk' \subseteq Roots
  <2>1. root.sel = NoSelector \/ root.sel.gen \in Gens
      BY ZenonT(30), <1>1 DEF IInv, AllAgree
  <2>2. root.sel # NoSelector => \A f \in artDisk : Readable(root.sel, f)
      BY ZenonT(30), <1>1 DEF IInv, SelectedReadable
  <2> QED
      BY ZenonT(30), <1>1, <1>7, <1>8, <1>9, <1>10, <2>1, <2>2, RootStep
<1>12. TypeOK'
  <2>1. promised' \subseteq Assets /\ acked' \in Selectors
      BY ZenonT(30), <1>4, <1>8 DEF IInv, TypeOK, Purged
  <2> QED
      BY ZenonT(30), <1>4, <1>8, <1>9, <1>11, <2>1, RootTypes DEF IInv
<1>13. AckedGenerationKept'
    BY ZenonT(30), <1>1, <1>7, <1>8, <1>9 DEF IInv, AckedGenerationKept
<1>14. PromisesOK'
  <2>1. ASSUME NEW b \in promised PROVE Gone(b)'
    <3>1. Gone(b)
        BY ZenonT(30), <1>1 DEF IInv, PromisesOK, Pending
    <3> QED
        BY ZenonT(30), <1>1, <1>7, <1>8, <1>9, <3>1 DEF Gone, Clean
  <2>2. ASSUME NEW b \in Targets(own.pop, a), rootDisk' = {n} PROVE Pending(b)'
      BY ZenonT(30), <1>4, <1>5, <1>6, <1>7, <2>2 DEF Pending, Purged, to
  <2> QED
      BY ZenonT(30), <1>8, <2>1, <2>2 DEF PromisesOK
<1>15. ControlOK'
  <2>1. CASE Closed
      BY ZenonT(30), <1>1, <1>8, <2>1, ClosedControl DEF Fresh
  <2>2. CASE pc' = "gov" /\ root' = n /\ rootDisk' = {n} /\ job' = to /\ own' = own
    <3>1. Flow'
        BY ZenonT(30), <1>1, <1>7, <1>8, <2>2 DEF Flow
    <3>2. JobOK'
        BY ZenonT(30), <1>5, <1>6, <1>7, <2>2 DEF JobOK, to
    <3>3. CleaningOK' /\ RetireOK' /\ Written' /\ SweptOK'
        BY ZenonT(30), <2>2 DEF CleaningOK, RetireOK, Written, SweptOK, Cleaning
    <3> QED
        BY ZenonT(30), <3>1, <3>2, <3>3 DEF ControlOK
  <2> QED BY ZenonT(30), <1>8, <2>1, <2>2
<1> QED
    BY ZenonT(30), <1>11, <1>12, <1>13, <1>14, <1>15 DEF IInv, ControlOK

\* The purge floor written after the sweep.
LEMMA FloorStep ==
    ASSUME IInv, write_floor
    PROVE  IInv'
<1> DEFINE fl == [gen |-> own.gen, purged |-> Purged(root.intent.to)]
           n == SetFloor(root, fl)
<1>1. /\ pc = "floor" /\ rootDisk = {root} /\ own = root.sel /\ dirs = "made"
      /\ root.intent # NoIntent /\ own.gen = root.intent.base + 1 /\ own.pop = root.intent.to
    BY ZenonT(30) DEF write_floor, IInv, Flow, CleaningOK, Cleaning
<1>2. own \in Selectors /\ root \in Roots /\ own.gen \in Int /\ job \in Populations
    BY DEF IInv, TypeOK, Selectors, Gens
<1>3. /\ fl \in Floors /\ fl.gen = own.gen /\ fl.purged = Purged(root.intent.to)
    BY ZenonT(30), <1>2 DEF Floors, Selectors, Purged
<1> HIDE DEF fl
<1>4. n \in Roots /\ n.sel = root.sel /\ n.intent = root.intent /\ n.floor = fl
    BY ZenonT(30), <1>2, <1>3, SetTypes
<1>5. /\ UNCHANGED <<dirs, art, artDisk, acked, promised>>
      /\ \/ root' = n /\ rootDisk' = {n} /\ pc' = "retire" /\ UNCHANGED <<own, job, breaks>>
         \/ /\ Break /\ Closed
            /\ \/ root' = root /\ rootDisk' = rootDisk
               \/ root' = n /\ rootDisk' = {root, n}
    BY ZenonT(30), <1>1 DEF write_floor, RootDone, RootInterrupted, history, fl
<1>6. root' \in rootDisk' /\ rootDisk' \subseteq {root, n}
    BY ZenonT(30), <1>1, <1>5
<1> HIDE DEF n
<1>7. root.intent.from \in Populations /\ root.intent.asset \in Assets /\ root.intent.base \in Int
    BY <1>2 DEF Roots, Intents, Gens
<1>8. Agree(root)
    BY ZenonT(30), <1>1 DEF IInv, AllAgree
<1>9. FloorExact(n) /\ Agree(n)
  <2>1. Purged(root.intent.to) # {}
      BY ZenonT(30), <1>1, <1>7, <1>8, PurgeGrows DEF Agree
  <2>2. fl # NoFloor
      BY SMTT(30), <1>3, <2>1 DEF NoFloor
  <2>3. FloorExact(n) /\ AtTarget(n)
      BY SMTT(30), <1>1, <1>2, <1>3, <1>4, <2>1, <2>2 DEF FloorExact, FloorPending, AtTarget
  <2> QED
      BY ZenonT(30), <1>1, <1>4, <1>8, <2>3 DEF Agree
<1>10. AllAgree' /\ SelectedReadable' /\ rootDisk' \subseteq Roots
  <2>1. root.sel = NoSelector \/ root.sel.gen \in Gens
      BY ZenonT(30), <1>1 DEF IInv, AllAgree
  <2>2. root.sel # NoSelector => \A f \in artDisk : Readable(root.sel, f)
      BY ZenonT(30), <1>1 DEF IInv, SelectedReadable
  <2> QED
      BY ZenonT(30), <1>1, <1>4, <1>5, <1>6, <1>9, <2>1, <2>2, RootStep
<1>11. TypeOK'
    BY ZenonT(30), <1>2, <1>5, <1>6, <1>10, RootTypes DEF IInv, TypeOK
<1>12. AckedGenerationKept'
    BY ZenonT(30), <1>1, <1>4, <1>5, <1>6 DEF IInv, AckedGenerationKept
<1>13. PromisesOK'
  <2> SUFFICES ASSUME NEW a \in promised
               PROVE  Gone(a)' \/ Pending(a)'
      BY ZenonT(30), <1>5 DEF PromisesOK
  <2>1. CASE Gone(a)
      BY ZenonT(30), <1>1, <1>4, <1>5, <1>6, <2>1 DEF Gone, Clean
  <2>2. CASE Pending(a)
      BY ZenonT(30), <1>1, <1>4, <1>6, <2>2 DEF Pending
  <2> QED
      BY ZenonT(30), <2>1, <2>2 DEF IInv, PromisesOK
<1>14. ControlOK'
  <2>1. CASE Closed
      BY ZenonT(30), <1>1, <1>5, <2>1, ClosedControl DEF Fresh
  <2>2. CASE pc' = "retire" /\ root' = n /\ rootDisk' = {n} /\ UNCHANGED <<own, job>>
    <3>1. Flow' /\ CleaningOK'
        BY ZenonT(30), <1>1, <1>4, <1>5, <2>2 DEF Flow, CleaningOK, Working
    <3>2. RetireOK'
        BY ZenonT(30), <1>9, <2>2 DEF RetireOK
    <3>3. JobOK' /\ Written'
        BY ZenonT(30), <2>2 DEF JobOK, Written, Working
    <3>4. SweptOK'
        BY ZenonT(30), <1>1, <1>5, <2>2 DEF IInv, SweptOK
    <3> QED
        BY ZenonT(30), <3>1, <3>2, <3>3, <3>4 DEF ControlOK
  <2> QED BY ZenonT(30), <1>5, <2>1, <2>2
<1> QED
    BY ZenonT(30), <1>10, <1>11, <1>12, <1>13, <1>14 DEF IInv, ControlOK

\* The purge intent removed: only now is a purge no longer pending, and nothing
\* of the payload is left.
LEMMA RetireStep ==
    ASSUME IInv, retire_intent
    PROVE  IInv'
<1> DEFINE n == SetIntent(root, NoIntent)
<1>1. /\ pc = "retire" /\ rootDisk = {root} /\ own = root.sel /\ dirs = "made"
      /\ root.intent # NoIntent /\ own.gen = root.intent.base + 1 /\ own.pop = root.intent.to
    BY ZenonT(30) DEF retire_intent, IInv, Flow, CleaningOK, Cleaning
<1>2. own \in Selectors /\ root \in Roots /\ job \in Populations
    BY ZenonT(30) DEF IInv, TypeOK
<1>3. n \in Roots /\ n.sel = root.sel /\ n.intent = NoIntent /\ n.floor = root.floor
    BY <1>2, NothingTypes, SetTypes
<1>4. /\ UNCHANGED <<dirs, art, artDisk, promised>>
      /\ \/ /\ root' = n /\ rootDisk' = {n} /\ pc' = "owner" /\ acked' = own
            /\ UNCHANGED <<own, job, breaks>>
         \/ /\ Break /\ Closed /\ acked' = acked
            /\ \/ root' = root /\ rootDisk' = rootDisk
               \/ root' = n /\ rootDisk' = {root, n}
    BY ZenonT(30), <1>1 DEF retire_intent, Return, RootDone, RootInterrupted, history
<1>5. root' \in rootDisk' /\ rootDisk' \subseteq {root, n}
    BY ZenonT(30), <1>1, <1>4
<1> HIDE DEF n
<1>6. Agree(n)
    BY ZenonT(30), <1>1, <1>3 DEF IInv, RetireOK, Agree, FloorExact
<1>7. root.sel = NoSelector \/ root.sel.gen \in Gens
    BY ZenonT(30), <1>1 DEF IInv, AllAgree
<1>8. root.sel # NoSelector => \A f \in artDisk : Readable(root.sel, f)
    BY ZenonT(30), <1>1 DEF IInv, SelectedReadable
<1>9. AllAgree' /\ SelectedReadable' /\ rootDisk' \subseteq Roots
    BY ZenonT(30), <1>1, <1>3, <1>4, <1>5, <1>6, <1>7, <1>8, RootStep
<1>10. TypeOK'
    BY ZenonT(30), <1>2, <1>4, <1>5, <1>9, RootTypes DEF IInv, TypeOK
<1>11. AckedGenerationKept'
    BY ZenonT(30), <1>1, <1>3, <1>4, <1>5 DEF IInv, AckedGenerationKept
<1>12. PromisesOK'
  <2> SUFFICES ASSUME NEW a \in promised
               PROVE  Gone(a)'
      BY ZenonT(30), <1>4 DEF PromisesOK
  <2>1. CASE Gone(a)
      BY ZenonT(30), <1>1, <1>3, <1>4, <1>5, <2>1 DEF Gone, Clean
  <2>2. CASE Pending(a)
    <3>1. own.pop[a] = "purged" /\ a \in Assets
        BY ZenonT(30), <1>1, <2>2 DEF Pending, IInv, TypeOK
    <3>2. own # NoSelector
        BY <3>1 DEF NoSelector, Blank
    <3>3. ASSUME NEW f \in artDisk, NEW g \in Gens
          PROVE  f["img"][g].pop[a] \in {"absent", "purged"}
      <4>1. CASE g = own.gen
        <5>1. f["img"][own.gen] = Body("whole", own.pop)
            BY ZenonT(30), <1>1, <1>8, <3>2 DEF Readable, Dirs, Content
        <5> QED
            BY <3>1, <4>1, <5>1 DEF Body
      <4>2. CASE g # own.gen
        <5>1. f["img"][g] = Missing
            BY ZenonT(30), <1>1, <4>2 DEF IInv, SweptOK
        <5> QED
            BY <3>1, <5>1 DEF Missing, Body, Blank
      <4> QED BY ZenonT(30), <4>1, <4>2
    <3> QED
        BY ZenonT(30), <1>1, <1>3, <1>4, <1>5, <3>1, <3>3 DEF Gone, Clean
  <2> QED
      BY ZenonT(30), <2>1, <2>2 DEF IInv, PromisesOK
<1>13. ControlOK'
  <2>1. CASE Closed
      BY ZenonT(30), <1>1, <1>4, <2>1, ClosedControl DEF Fresh
  <2>2. CASE pc' = "owner" /\ root' = n /\ rootDisk' = {n} /\ UNCHANGED <<own, job>>
      BY ZenonT(30), <1>1, <1>3, <1>4, <2>2
         DEF ControlOK, Flow, JobOK, CleaningOK, RetireOK, Written, SweptOK, Working, Cleaning
  <2> QED BY ZenonT(30), <1>4, <2>1, <2>2
<1> QED
    BY ZenonT(30), <1>9, <1>10, <1>11, <1>12, <1>13 DEF IInv, ControlOK

-----------------------------------------------------------------------------
(* Opening, recovery and callers *)

\* sync_visible_selector and the loading of the selected generation.
LEMMA OpenStep ==
    ASSUME IInv, open
    PROVE  IInv'
<1>1. /\ root.sel # NoSelector /\ rootDisk' = {root} /\ root' = root
      /\ pc' = "recover" /\ own' = root.sel /\ job' = Blank
      /\ promised' = promised \cup Purged(root.intent.to)
      /\ UNCHANGED <<dirs, art, artDisk, acked, breaks>>
    BY ZenonT(30) DEF open, sync_visible_selector
<1>2. root \in rootDisk /\ root \in Roots /\ root.sel \in Selectors
    BY ZenonT(30) DEF IInv, TypeOK, Roots
<1>3. TypeOK'
    BY ZenonT(30), <1>1, <1>2, NothingTypes DEF IInv, TypeOK, Purged
<1>4. AllAgree' /\ SelectedReadable' /\ AckedGenerationKept'
    BY ZenonT(30), <1>1, <1>2 DEF IInv, AllAgree, SelectedReadable, AckedGenerationKept
<1>5. PromisesOK'
  <2>1. ASSUME NEW a \in promised PROVE Gone(a)' \/ Pending(a)'
    <3>1. CASE Gone(a)
        BY ZenonT(30), <1>1, <1>2, <3>1 DEF Gone, Clean
    <3>2. CASE Pending(a)
        BY ZenonT(30), <1>1, <1>2, <3>2 DEF Pending
    <3> QED
        BY ZenonT(30), <3>1, <3>2 DEF IInv, PromisesOK
  <2>2. ASSUME NEW a \in Purged(root.intent.to) PROVE Pending(a)'
    <3>1. NoIntent.to = Blank
        BY ZenonT(30) DEF NoIntent
    <3>2. root.intent # NoIntent
        BY ZenonT(30), <2>2, <3>1, NothingTypes
    <3> QED
        BY ZenonT(30), <1>1, <2>2, <3>2 DEF Pending, Purged
  <2> QED
      BY ZenonT(30), <1>1, <2>1, <2>2 DEF PromisesOK
<1>6. Flow'
  <2>1. dirs = "made"
      BY ZenonT(30), <1>1 DEF IInv, TypeOK, Flow
  <2> QED
      BY ZenonT(30), <1>1, <2>1 DEF Flow, Working
<1>7. JobOK' /\ CleaningOK' /\ RetireOK' /\ Written' /\ SweptOK'
    BY ZenonT(30), <1>1 DEF JobOK, CleaningOK, RetireOK, Written, SweptOK, Working, Cleaning
<1> QED
    BY ZenonT(30), <1>3, <1>4, <1>5, <1>6, <1>7 DEF IInv

\* Steps that change no file.
LEMMA NoFileStep ==
    ASSUME IInv, UNCHANGED <<files, promised>>,
           acked' = acked \/ (rootDisk = {root} /\ acked' = root.sel)
    PROVE  FilesOK'
<1>1. AllAgree' /\ SelectedReadable' /\ PromisesOK'
    BY ZenonT(30) DEF IInv, files, AllAgree, SelectedReadable, PromisesOK, Gone, Clean, Pending
<1>2. AckedGenerationKept'
    BY ZenonT(30) DEF IInv, files, AckedGenerationKept
<1> QED BY ZenonT(30), <1>1, <1>2 DEF FilesOK

\* The decision of recover_pending_purge.
LEMMA RecoverStep ==
    ASSUME IInv, recover_pending_purge
    PROVE  IInv'
<1>1. /\ pc = "recover" /\ rootDisk = {root} /\ own = root.sel /\ dirs = "made"
      /\ UNCHANGED <<own, files, promised, breaks>>
    BY ZenonT(30) DEF recover_pending_purge, IInv, Flow
<1>2. root \in Roots /\ own \in Selectors /\ Agree(root)
    BY ZenonT(30), <1>1 DEF IInv, TypeOK, AllAgree
<1>3. root.intent.to \in Populations
    BY ZenonT(30), <1>2 DEF Roots, Intents
<1>4. FilesOK'
    BY ZenonT(30), <1>1, NoFileStep DEF recover_pending_purge, Return
<1>5. CASE NothingPending /\ Return /\ job' = job
  <2>1. TypeOK'
      BY ZenonT(30), <1>1, <1>2, <1>5 DEF IInv, TypeOK, Return, files
  <2>2. ControlOK'
      BY ZenonT(30), <1>1, <1>5
         DEF NothingPending, Return, files, ControlOK, Flow, JobOK, CleaningOK, RetireOK, Written,
             SweptOK, Working, Cleaning
  <2> QED BY ZenonT(30), <1>4, <2>1, <2>2 DEF IInv, ControlOK, FilesOK
<1>6. CASE BaseSelected /\ pc' = "erase_img" /\ job' = root.intent.to /\ acked' = acked
  <2>1. TypeOK'
      BY ZenonT(30), <1>1, <1>3, <1>6 DEF IInv, TypeOK, files
  <2>2. own.gen < MaxGen
      BY SMTT(30), <1>2, <1>6, GenerationAssumption DEF Agree, BaseSelected, Gens, Roots, Intents
  <2>3. ControlOK'
      BY ZenonT(30), <1>1, <1>6, <2>2
         DEF BaseSelected, files, ControlOK, Flow, JobOK, CleaningOK, RetireOK, Written,
             SweptOK, Working, Cleaning
  <2> QED BY ZenonT(30), <1>4, <2>1, <2>3 DEF IInv, ControlOK, FilesOK
<1>7. CASE TargetSelected /\ pc' = "sweep_img" /\ job' = job /\ acked' = acked
  <2>1. TypeOK'
      BY ZenonT(30), <1>1, <1>7 DEF IInv, TypeOK, files
  <2>2. ControlOK'
      BY ZenonT(30), <1>1, <1>7
         DEF TargetSelected, files, ControlOK, Flow, JobOK, CleaningOK, RetireOK, Written,
             SweptOK, Working, Cleaning
  <2> QED BY ZenonT(30), <1>4, <2>1, <2>2 DEF IInv, ControlOK, FilesOK
<1> QED BY ZenonT(30), <1>5, <1>6, <1>7 DEF recover_pending_purge

\* An ordinary write begins.
LEMMA AdvanceStep ==
    ASSUME IInv, NEW p \in Populations, advance(p)
    PROVE  IInv'
<1>1. /\ pc = "owner" /\ rootDisk = {root} /\ own = root.sel /\ dirs = "made"
      /\ root.intent = NoIntent /\ own.gen < MaxGen /\ Purged(p) = Purged(own.pop)
      /\ pc' = "gov" /\ job' = p /\ UNCHANGED <<own, files, acked, promised, breaks>>
    BY ZenonT(30) DEF advance, HasNext, SamePurges, IInv, Flow, history
<1>2. FilesOK'
    BY ZenonT(30), <1>1, NoFileStep
<1>3. TypeOK'
    BY ZenonT(30), <1>1 DEF IInv, TypeOK, files
<1>4. ControlOK'
    BY ZenonT(30), <1>1
       DEF files, ControlOK, Flow, JobOK, CleaningOK, RetireOK, Written, SweptOK, Working,
                Cleaning
<1> QED BY ZenonT(30), <1>2, <1>3, <1>4 DEF IInv, ControlOK, FilesOK

\* initialize_with_cipher makes the directories.
LEMMA InitializeStep ==
    ASSUME IInv, NEW p \in Populations, initialize(p)
    PROVE  IInv'
<1>1. /\ pc = "closed" /\ dirs = "absent" /\ Purged(p) = {} /\ dirs' = "made"
      /\ UNCHANGED <<root, rootDisk, art, artDisk, acked, promised>>
      /\ \/ pc' = "gov" /\ job' = p /\ UNCHANGED <<own, breaks>>
         \/ Break /\ Closed
    BY ZenonT(30) DEF initialize, history
<1>2. rootDisk = {root} /\ root.sel = NoSelector /\ root.intent = NoIntent /\ own = NoSelector
    BY ZenonT(30), <1>1 DEF IInv, Flow
<1>3. FilesOK'
    BY ZenonT(30), <1>1 DEF IInv, FilesOK, AllAgree, SelectedReadable, AckedGenerationKept,
       PromisesOK, Gone,
                Clean, Pending
<1>4. TypeOK'
    BY <1>1, NothingTypes, GenerationAssumption DEF IInv, TypeOK, Closed, Break
<1>5. CASE Closed
    BY ZenonT(30), <1>1, <1>3, <1>4, <1>5, ClosedControl DEF Fresh, IInv, ControlOK, FilesOK
<1>6. CASE pc' = "gov" /\ job' = p /\ own' = own
  <2>1. own.gen < MaxGen /\ Purged(own.pop) = {}
      BY SMTT(30), <1>2, NothingTypes, GenerationAssumption DEF NoSelector
  <2>2. ControlOK'
      BY ZenonT(30), <1>1, <1>2, <1>6, <2>1
         DEF ControlOK, Flow, JobOK, CleaningOK, RetireOK, Written, SweptOK, Working, Cleaning
  <2> QED BY ZenonT(30), <1>3, <1>4, <2>2 DEF IInv, ControlOK, FilesOK
<1> QED BY ZenonT(30), <1>1, <1>5, <1>6

\* A power loss leaves one of the contents that were possible.
LEMMA PowerLossStep ==
    ASSUME IInv, PowerLoss
    PROVE  IInv'
<1>1. /\ Break /\ Closed /\ root' \in rootDisk /\ rootDisk' = {root'}
      /\ art' \in artDisk /\ artDisk' = {art'} /\ UNCHANGED <<dirs, acked, promised>>
    BY ZenonT(30) DEF PowerLoss, history
<1>2. TypeOK'
    BY SMTT(30), <1>1, NothingTypes, GenerationAssumption DEF IInv, TypeOK, Closed, Break
<1>3. AllAgree' /\ SelectedReadable' /\ AckedGenerationKept'
    BY ZenonT(30), <1>1 DEF IInv, AllAgree, SelectedReadable, AckedGenerationKept
<1>4. PromisesOK'
  <2> SUFFICES ASSUME NEW a \in promised PROVE Gone(a)' \/ Pending(a)'
      BY ZenonT(30), <1>1 DEF PromisesOK
  <2>1. CASE Gone(a)
      BY ZenonT(30), <1>1, <2>1 DEF Gone, Clean
  <2>2. CASE Pending(a)
      BY ZenonT(30), <1>1, <2>2 DEF Pending
  <2> QED BY ZenonT(30), <2>1, <2>2 DEF IInv, PromisesOK
<1>5. ControlOK'
  <2>1. Fresh'
      BY ZenonT(30), <1>1 DEF IInv, Flow, Fresh
  <2> QED BY ZenonT(30), <1>1, <2>1, ClosedControl
<1> QED
    BY ZenonT(30), <1>2, <1>3, <1>4, <1>5 DEF IInv, ControlOK

-----------------------------------------------------------------------------
(* Theorems *)

\* A tenant root without any file.
LEMMA InitInvariant == Init => IInv
<1> SUFFICES ASSUME Init PROVE IInv
    OBVIOUS
<1>1. /\ root.sel = NoSelector /\ root.intent = NoIntent /\ root.floor = NoFloor
      /\ rootDisk = {root} /\ artDisk = {art}
    BY ZenonT(30) DEF Init
<1>2. root \in Roots
    BY ZenonT(30), NothingTypes DEF Init, Roots
<1>3. art \in Artifacts
    BY ZenonT(30), NothingTypes DEF Init, Artifacts
<1>4. TypeOK
    BY SMTT(30), <1>2, <1>3, NothingTypes, GenerationAssumption DEF Init, TypeOK
<1>5. AllAgree
  <2>1. Purged(NoSelector.pop) = {}
      BY ZenonT(30), NothingTypes DEF NoSelector
  <2> QED
      BY ZenonT(30), <1>1, <2>1 DEF AllAgree, Agree, FloorExact
<1>6. SelectedReadable /\ AckedGenerationKept /\ PromisesOK
    BY ZenonT(30), <1>1 DEF Init, SelectedReadable, AckedGenerationKept, PromisesOK
<1>7. Flow /\ JobOK /\ CleaningOK /\ RetireOK /\ Written /\ SweptOK
    BY ZenonT(30), <1>1 DEF Init, Flow, JobOK, CleaningOK, RetireOK, Written, SweptOK, Working, Cleaning
<1> QED BY ZenonT(30), <1>4, <1>5, <1>6, <1>7 DEF IInv

\* Every step keeps the invariant.
LEMMA NextInvariant == IInv /\ [Next]_vars => IInv'
<1> SUFFICES ASSUME IInv, [Next]_vars PROVE IInv'
    OBVIOUS
<1>1. CASE \E p \in Populations : initialize(p) \/ advance(p)
    BY ZenonT(30), <1>1, InitializeStep, AdvanceStep
<1>2. CASE \E a \in Assets : commit_prepared_purge(a)
    BY ZenonT(30), <1>2, PurgeStep
<1>3. CASE Steps
    BY ZenonT(30), <1>3, PublishArtifactSteps, SelectorStep, OpenStep, RecoverStep, EraseStep, SweepStep,
       FloorStep, RetireStep DEF Steps
<1>4. CASE Crash \/ PowerLoss
    BY ZenonT(30), <1>4, CrashStep, PowerLossStep
<1>5. CASE UNCHANGED vars
  <2>1. TypeOK'
      BY ZenonT(30), <1>5 DEF IInv, vars, files, history, TypeOK
  <2>2. ControlOK'
      BY ZenonT(30), <1>5 DEF IInv, vars, files, history, ControlOK, Flow, JobOK, CleaningOK,
         RetireOK, Written,
                  SweptOK
  <2>3. FilesOK'
      BY ZenonT(30), <1>5, NoFileStep DEF vars, history
  <2> QED BY ZenonT(30), <2>1, <2>2, <2>3 DEF IInv, ControlOK, FilesOK
<1> QED BY ZenonT(30), <1>1, <1>2, <1>3, <1>4, <1>5 DEF Next

\* The inductive invariant holds in every state of the store.
THEOREM Invariance == Spec => []IInv
    BY InitInvariant, NextInvariant, PTL DEF Spec

\* Every value the store writes or loads is one its readers accept: generations
\* in range, populations closed under lineage (prepare_purge takes along all
\* that was derived from the asset).
THEOREM Typing == Spec => []TypeOK
<1>1. IInv => TypeOK
    BY ZenonT(30) DEF IInv
<1> QED BY <1>1, Invariance, PTL

\* Whatever is interrupted and whatever a power loss takes away, the selector
\* names a generation both of whose artifacts are whole and match it
\* (publish_generation writes and syncs them before the selector, and nothing
\* is removed before sync_visible_selector).
THEOREM Readability == Spec => []SelectedReadable
<1>1. IInv => SelectedReadable
    BY ZenonT(30) DEF IInv
<1> QED BY <1>1, Invariance, PTL

\* A generation that was returned to a caller stays selected until a later one
\* is, power losses included.
THEOREM AckedKept == Spec => []AckedGenerationKept
<1>1. IInv => AckedGenerationKept
    BY ZenonT(30) DEF IInv
<1> QED BY <1>1, Invariance, PTL

\* recover_pending_purge refuses nothing that interruptions leave behind: its
\* checks of intent, digests and floor hold at every open.
THEOREM Recovery == Spec => []RecoveryAccepts
<1>1. IInv => RecoveryAccepts
  <2> SUFFICES ASSUME IInv, pc = "recover"
               PROVE  NothingPending \/ BaseSelected \/ TargetSelected
      BY ZenonT(30) DEF RecoveryAccepts
  <2>1. own = root.sel /\ Agree(root)
      BY ZenonT(30) DEF IInv, Flow, AllAgree
  <2>2. CASE root.intent = NoIntent
    <3>1. FloorExact(root)
        BY ZenonT(30), <2>1, <2>2 DEF Agree
    <3> QED
        BY ZenonT(30), <2>1, <2>2, <3>1 DEF FloorExact, NothingPending, FloorOk
  <2>3. CASE root.intent # NoIntent /\ AtBase(root)
      BY ZenonT(30), <2>1, <2>3 DEF Agree, AtBase, FloorExact, BaseSelected, FloorOk
  <2>4. CASE root.intent # NoIntent /\ AtTarget(root)
      BY ZenonT(30), <2>1, <2>4 DEF AtTarget, FloorPending, TargetSelected, FloorOk
  <2> QED BY ZenonT(30), <2>1, <2>2, <2>3, <2>4 DEF Agree
<1> QED BY <1>1, Invariance, PTL

\* An owner is returned only when every purge with a durable intent has gone
\* through: the assets are tombstones, and no file that is left, nor one a power
\* loss could bring back, holds their payload.
THEOREM PurgeIsPhysical == Spec => []PurgedPayloadGone
<1>1. IInv => PurgedPayloadGone
  <2> SUFFICES ASSUME IInv, pc = "owner", NEW a \in promised
               PROVE  /\ own.pop[a] = "purged"
                      /\ \A f \in artDisk : \A g \in Gens : f["img"][g].pop[a] \in {"absent", "purged"}
      BY ZenonT(30) DEF PurgedPayloadGone
  <2>1. rootDisk = {root} /\ own = root.sel /\ root.intent = NoIntent
      BY ZenonT(30) DEF IInv, Flow
  <2>2. Gone(a)
      BY ZenonT(30), <2>1 DEF IInv, PromisesOK, Pending
  <2> QED
      BY ZenonT(30), <2>1, <2>2 DEF Gone, Clean
<1> QED BY <1>1, Invariance, PTL

-----------------------------------------------------------------------------
(* Rotation of the keys.  A retired key is not needed, for any number of   *)
(* keys, generations and failures.  Three arguments meet: every write of   *)
(* the store seals under the active key (WritesActive); the phases of a    *)
(* rotation leave, one after the other, no file and no temporary under     *)
(* another key (PhasesInv); so that what a rotation answers for is         *)
(* converged (KeysInv) when the operator retires a key.                    *)

\* KeyRotation's own parameters and variables; its program counter, job and
\* bounds have the names they have here.
CONSTANTS Keys, FirstKey
VARIABLES now, disk, temps, ghosts, active, retired, receipt, todo
Rot == INSTANCE KeyRotation


\* What the key service and the bounds are: the active key is one of its keys,
\* and the marks of the model are none.
KeysSane ==
    /\ FirstKey \in Keys /\ "missing" \notin Keys /\ "torn" \notin Keys /\ "none" \notin Keys
    /\ MaxGen \in Nat /\ MaxBreaks \in Nat

\* The file half of the types.
FilesTyped ==
    /\ now \in [Rot!Files -> Rot!Body] /\ disk \in [Rot!Files -> SUBSET Rot!Body]
    /\ temps \subseteq Rot!Dirs \X Keys /\ ghosts \subseteq Rot!Dirs \X Keys

\* A step leaves nothing behind that was not there before and is not under the
\* active key: what every write of the store comes down to.
WritesActive ==
    /\ \A f \in Rot!Files : \A b \in disk'[f] \cup {now'[f]} :
          b \in disk[f] \cup {now[f]} \/ b.key \in {active, "missing", "torn"}
    /\ \A x \in temps' \cup ghosts' : x \in temps \cup ghosts \/ x[2] = active

-----------------------------------------------------------------------------
(* Files *)

\* Every file is in one of the directories.
LEMMA FilesInDirs ==
    /\ \A f \in Rot!Files : f[1] \in Rot!Dirs
    /\ Rot!Selector \in Rot!Files /\ Rot!Floor \in Rot!Files /\ Rot!Intent \in Rot!Files
    /\ Rot!Selector # Rot!Intent /\ Rot!Selector[1] = "root" /\ Rot!Intent[1] = "root"
    /\ \A g \in 0 .. MaxGen, d \in {"image", "governance"} :
          <<d, g>> \in Rot!Files /\ <<d, g>>[1] = d /\ <<d, g>> # Rot!Selector
            /\ <<d, g>> # Rot!Intent
BY DEF Rot!Files, Rot!Dirs, Rot!Selector, Rot!Floor, Rot!Intent

\* What is sealed under the active key at a generation in range is a file body.
LEMMA SealedBodies ==
    ASSUME KeysSane, active \in Keys
    PROVE  /\ \A g \in 0 .. MaxGen : Rot!Sealed(active, g) \in Rot!Body
              /\ Rot!Sealed(active, g).key = active
                                   /\ Rot!Sealed(active, g).gen = g
           /\ Rot!Missing \in Rot!Body /\ Rot!Missing.key = "missing" /\ Rot!Torn \in Rot!Body
              /\ Rot!Torn.key = "torn"
BY DEF KeysSane, Rot!Sealed, Rot!Body, Rot!Missing, Rot!Torn

\* sync_directory makes nothing appear that is not there.
LEMMA SyncFiles ==
    ASSUME FilesTyped, NEW d \in Rot!Dirs, Rot!Sync(d), now' \in [Rot!Files -> Rot!Body],
           temps' \subseteq Rot!Dirs \X Keys
    PROVE  /\ FilesTyped'
           /\ \A f \in Rot!Files : disk'[f] = IF f[1] = d THEN {now'[f]} ELSE disk[f]
           /\ \A x \in ghosts' : x \in ghosts \/ x \in temps'
           /\ \A x \in ghosts' : x[1] = d => x \in temps'
<1>1. disk' = [f \in Rot!Files |-> IF f[1] = d THEN {now'[f]} ELSE disk[f]]
  BY ZenonT(30) DEF Rot!Sync, Rot!Synced
<1>2. ghosts' = {x \in ghosts : x[1] # d} \cup {x \in temps' : x[1] = d}
  BY ZenonT(30) DEF Rot!Sync, Rot!SyncedTemps
<1>3. disk' \in [Rot!Files -> SUBSET Rot!Body]
  BY ZenonT(30), <1>1 DEF FilesTyped
<1>4. ghosts' \subseteq Rot!Dirs \X Keys
  BY ZenonT(30), <1>2 DEF FilesTyped
<1> QED BY ZenonT(30), <1>1, <1>2, <1>3, <1>4 DEF FilesTyped

\* atomic_raw and write_selector, done.
LEMMA ReplaceFiles ==
    ASSUME FilesTyped, NEW f \in Rot!Files, NEW b \in Rot!Body, b.key = active, Rot!Replace(f, b)
    PROVE  /\ FilesTyped' /\ WritesActive /\ now' = [now EXCEPT ![f] = b]
           /\ now'[f] = b /\ \A g \in Rot!Files \ {f} : now'[g] = now[g]
           /\ \A d \in Rot!Dirs : Rot!Cleaned(d) => Rot!Cleaned(d)'
<1>1. now' = [now EXCEPT ![f] = b] /\ temps' = temps /\ Rot!Sync(f[1])
  BY ZenonT(30) DEF Rot!Replace
<1>2. now' \in [Rot!Files -> Rot!Body] /\ now'[f] = b /\ \A g \in Rot!Files \ {f} : now'[g] = now[g]
  BY ZenonT(30), <1>1 DEF FilesTyped
<1>3. f[1] \in Rot!Dirs /\ temps' \subseteq Rot!Dirs \X Keys
  BY ZenonT(30), <1>1, FilesInDirs DEF FilesTyped
<1>4. /\ FilesTyped'
      /\ \A g \in Rot!Files : disk'[g] = IF g[1] = f[1] THEN {now'[g]} ELSE disk[g]
      /\ \A x \in ghosts' : x \in ghosts \/ x \in temps
  BY ZenonT(30), <1>1, <1>2, <1>3, SyncFiles
<1>5. WritesActive
  BY ZenonT(30), <1>1, <1>2, <1>4 DEF WritesActive
<1>6. \A d \in Rot!Dirs : Rot!Cleaned(d) => Rot!Cleaned(d)'
  BY ZenonT(30), <1>1, <1>2, <1>4 DEF Rot!Cleaned
<1> QED BY ZenonT(30), <1>1, <1>2, <1>4, <1>5, <1>6

\* ... and broken off.
LEMMA ReplaceBreaksFiles ==
    ASSUME FilesTyped, active \in Keys, NEW f \in Rot!Files, NEW b \in Rot!Body, b.key = active,
           Rot!ReplaceBreaks(f, b)
    PROVE  FilesTyped' /\ WritesActive
<1>1. f[1] \in Rot!Dirs /\ <<f[1], active>> \in Rot!Dirs \X Keys /\ <<f[1], active>>[2] = active
  BY ZenonT(30), FilesInDirs
<1>2. ghosts' = ghosts \cup {<<f[1], active>>}
  BY ZenonT(30) DEF Rot!ReplaceBreaks
<1>3. CASE temps' \in {temps, temps \cup {<<f[1], active>>}} /\ UNCHANGED <<now, disk>>
  BY ZenonT(30), <1>1, <1>2, <1>3 DEF FilesTyped, WritesActive
<1>4. CASE /\ now' = [now EXCEPT ![f] = b] /\ disk' = [disk EXCEPT ![f] = @ \cup {b}]
           /\ temps' = temps
  <2>1. /\ now' \in [Rot!Files -> Rot!Body] /\ now'[f] = b
           /\ \A g \in Rot!Files \ {f} : now'[g] = now[g]
        /\ disk' \in [Rot!Files -> SUBSET Rot!Body] /\ disk'[f] = disk[f] \cup {b}
        /\ \A g \in Rot!Files \ {f} : disk'[g] = disk[g]
    BY ZenonT(30), <1>4 DEF FilesTyped
  <2>2. WritesActive
    BY ZenonT(30), <1>1, <1>2, <1>4, <2>1 DEF WritesActive
  <2> QED BY ZenonT(30), <1>1, <1>2, <1>4, <2>1, <2>2 DEF FilesTyped
<1> QED BY ZenonT(30), <1>3, <1>4 DEF Rot!ReplaceBreaks

\* A step that touches no file writes nothing under another key.
LEMMA SameFiles ==
    ASSUME FilesTyped, UNCHANGED Rot!files
    PROVE  FilesTyped' /\ WritesActive
BY ZenonT(30) DEF Rot!files, FilesTyped, WritesActive

\* What the files need to know of the control: an advance is within its bound.
Ready ==
    /\ Rot!TypeOK
    /\ pc \in {"write_governance", "write_image", "select"} => Rot!gen < MaxGen

\* Every step keeps the files well typed, and seals what it writes under the
\* active key.
LEMMA FileStep ==
    ASSUME KeysSane, Ready, [Rot!Next]_(Rot!vars)
    PROVE  FilesTyped' /\ WritesActive
<1>1. FilesTyped /\ active \in Keys /\ MaxGen \in Nat
  BY ZenonT(30) DEF Ready, Rot!TypeOK, FilesTyped, KeysSane
<1>2. \A g \in 0 .. MaxGen : Rot!Sealed(active, g) \in Rot!Body
        /\ Rot!Sealed(active, g).key = active
  BY ZenonT(30), <1>1, SealedBodies
<1>3. \A f \in Rot!Files : now[f].gen \in 0 .. MaxGen
  BY ZenonT(30), <1>1 DEF FilesTyped, Rot!Body
<1>4. ASSUME UNCHANGED Rot!files PROVE FilesTyped' /\ WritesActive
  BY ZenonT(30), <1>1, <1>4, SameFiles
<1>5. CASE Rot!Open \/ Rot!Resume \/ Rot!Rewrapped \/ Rot!Advance \/ Rot!Close \/ Rot!Die
           \/ (\E k \in Keys : Rot!Reconfigure(k) \/ Rot!Retire(k)) \/ UNCHANGED Rot!vars
  <2>1. UNCHANGED Rot!files
    BY ZenonT(30), <1>5
       DEF Rot!Open, Rot!Resume, Rot!Refuse, Rot!Rewrapped, Rot!Advance, Rot!Close, Rot!Die,
       Rot!Reconfigure, Rot!Retire, Rot!vars
  <2> QED BY ZenonT(30), <1>4, <2>1
<1>6. ASSUME NEW f \in Rot!Files, Rot!Rewrap(f) PROVE FilesTyped' /\ WritesActive
  <2>1. Rot!Sealed(active, now[f].gen) \in Rot!Body /\ Rot!Sealed(active, now[f].gen).key = active
    BY ZenonT(30), <1>2, <1>3
  <2>2. \/ UNCHANGED Rot!files
        \/ Rot!Replace(f, Rot!Sealed(active, now[f].gen))
           \/ Rot!ReplaceBreaks(f, Rot!Sealed(active, now[f].gen))
    BY ZenonT(30), <1>6 DEF Rot!Rewrap, Rot!Refuse
  <2> QED BY ZenonT(30), <1>1, <1>4, <2>1, <2>2, ReplaceFiles, ReplaceBreaksFiles
<1>7. CASE Rot!Rotate
  <2>1. Rot!Sealed(active, 0) \in Rot!Body /\ Rot!Sealed(active, 0).key = active
          /\ Rot!Intent \in Rot!Files
    BY <1>1, <1>2, FilesInDirs
  <2>2. Rot!Replace(Rot!Intent, Rot!Sealed(active, 0))
          \/ Rot!ReplaceBreaks(Rot!Intent, Rot!Sealed(active, 0))
    BY ZenonT(30), <1>7 DEF Rot!Rotate
  <2> QED BY ZenonT(30), <1>1, <2>1, <2>2, ReplaceFiles, ReplaceBreaksFiles
<1>8. Rot!gen \in 0 .. MaxGen /\ (Rot!gen < MaxGen => Rot!gen + 1 \in 0 .. MaxGen)
  BY <1>1, <1>3, FilesInDirs DEF Rot!gen
<1>9. CASE Rot!Select
  <2>1. Rot!gen + 1 \in 0 .. MaxGen
    BY ZenonT(30), <1>8, <1>9 DEF Rot!Select, Ready
  <2>2. Rot!Sealed(active, Rot!gen + 1) \in Rot!Body
          /\ Rot!Sealed(active, Rot!gen + 1).key = active /\ Rot!Selector \in Rot!Files
    BY ZenonT(30), <1>2, <2>1, FilesInDirs
  <2>3. Rot!Replace(Rot!Selector, Rot!Sealed(active, Rot!gen + 1))
          \/ Rot!ReplaceBreaks(Rot!Selector, Rot!Sealed(active, Rot!gen + 1))
    BY ZenonT(30), <1>9 DEF Rot!Select
  <2> QED BY ZenonT(30), <1>1, <2>2, <2>3, ReplaceFiles, ReplaceBreaksFiles
<1>10. ASSUME NEW kind \in {"image", "governance"},
              NEW here \in {"write_governance", "write_image"},
              NEW next, Rot!Write(kind, here, next)
       PROVE  FilesTyped' /\ WritesActive
  <2> DEFINE f == <<kind, Rot!gen + 1>>
             b == Rot!Sealed(active, Rot!gen + 1)
  <2>1. Rot!gen + 1 \in 0 .. MaxGen
    BY ZenonT(30), <1>8, <1>10 DEF Rot!Write, Ready
  <2>2. f \in Rot!Files /\ kind \in Rot!Dirs /\ b \in Rot!Body /\ b.key = active
    BY ZenonT(30), <1>2, <2>1, FilesInDirs DEF Rot!Dirs
  <2>3. Rot!Torn \in Rot!Body /\ Rot!Torn.key = "torn"
    BY ZenonT(30), <1>1, SealedBodies
  <2> HIDE DEF f, b
  <2>4. CASE UNCHANGED Rot!files
    BY ZenonT(30), <1>4, <2>4
  <2>5. CASE UNCHANGED <<now, temps>> /\ Rot!Sync(kind)
    <3>1. now' \in [Rot!Files -> Rot!Body] /\ temps' \subseteq Rot!Dirs \X Keys
      BY ZenonT(30), <1>1, <2>5 DEF FilesTyped
    <3>2. /\ FilesTyped'
             /\ \A g \in Rot!Files : disk'[g] = IF g[1] = kind THEN {now'[g]} ELSE disk[g]
          /\ \A x \in ghosts' : x \in ghosts \/ x \in temps'
      BY ZenonT(30), <1>1, <2>2, <2>5, <3>1, SyncFiles
    <3> QED BY ZenonT(30), <2>5, <3>2 DEF WritesActive
  <2>6. CASE Rot!Replace(f, b)
    BY ZenonT(30), <1>1, <2>2, <2>6, ReplaceFiles
  <2>7. CASE /\ now' \in {[now EXCEPT ![f] = Rot!Torn], [now EXCEPT ![f] = b]}
             /\ disk' = [disk EXCEPT ![f] = @ \cup {Rot!Torn, b}] /\ UNCHANGED <<temps, ghosts>>
    <3>1. /\ now' \in [Rot!Files -> Rot!Body] /\ now'[f] \in {Rot!Torn, b}
          /\ \A g \in Rot!Files \ {f} : now'[g] = now[g]
      BY ZenonT(30), <1>1, <2>2, <2>3, <2>7 DEF FilesTyped
    <3>2. /\ disk' \in [Rot!Files -> SUBSET Rot!Body] /\ disk'[f] = disk[f] \cup {Rot!Torn, b}
          /\ \A g \in Rot!Files \ {f} : disk'[g] = disk[g]
      BY ZenonT(30), <1>1, <2>2, <2>3, <2>7 DEF FilesTyped
    <3>3. WritesActive
      BY ZenonT(30), <2>2, <2>3, <2>7, <3>1, <3>2 DEF WritesActive
    <3> QED BY ZenonT(30), <1>1, <2>7, <3>1, <3>2, <3>3 DEF FilesTyped
  <2> QED BY ZenonT(30), <1>10, <2>4, <2>5, <2>6, <2>7 DEF Rot!Write, Rot!Refuse, f, b
<1>11. ASSUME NEW d \in Rot!Dirs, NEW next, Rot!Clean(d, next) PROVE FilesTyped' /\ WritesActive
  <2>1. /\ now' = now /\ temps' = {x \in temps : x[1] # d}
        /\ Rot!Sync(d) \/ UNCHANGED <<disk, ghosts>>
    BY ZenonT(30), <1>11 DEF Rot!Clean
  <2>2. now' \in [Rot!Files -> Rot!Body] /\ temps' \subseteq Rot!Dirs \X Keys
    BY ZenonT(30), <1>1, <2>1 DEF FilesTyped
  <2>3. CASE Rot!Sync(d)
    <3>1. /\ FilesTyped' /\ \A g \in Rot!Files : disk'[g] = IF g[1] = d THEN {now'[g]} ELSE disk[g]
          /\ \A x \in ghosts' : x \in ghosts \/ x \in temps'
      BY ZenonT(30), <1>1, <2>2, <2>3, SyncFiles
    <3> QED BY ZenonT(30), <2>1, <3>1 DEF WritesActive
  <2>4. CASE UNCHANGED <<disk, ghosts>>
    BY ZenonT(30), <1>1, <2>1, <2>2, <2>4 DEF FilesTyped, WritesActive
  <2> QED BY ZenonT(30), <2>1, <2>3, <2>4
<1>12. CASE Rot!DropIntent
  <2>1. Rot!Missing \in Rot!Body /\ Rot!Missing.key = "missing" /\ Rot!Intent \in Rot!Files
          /\ "root" \in Rot!Dirs
    BY ZenonT(30), <1>1, SealedBodies, FilesInDirs DEF Rot!Dirs
  <2>2. /\ now' = [now EXCEPT ![Rot!Intent] = Rot!Missing] /\ temps' = temps
        /\ \/ Rot!Sync("root")
           \/ disk' = [disk EXCEPT ![Rot!Intent] = @ \cup {Rot!Missing}] /\ UNCHANGED ghosts
    BY ZenonT(30), <1>12 DEF Rot!DropIntent
  <2>3. /\ now' \in [Rot!Files -> Rot!Body] /\ now'[Rot!Intent] = Rot!Missing
        /\ \A g \in Rot!Files \ {Rot!Intent} : now'[g] = now[g]
    BY ZenonT(30), <1>1, <2>1, <2>2 DEF FilesTyped
  <2>4. CASE Rot!Sync("root")
    <3>1. /\ FilesTyped'
             /\ \A g \in Rot!Files : disk'[g] = IF g[1] = "root" THEN {now'[g]} ELSE disk[g]
          /\ \A x \in ghosts' : x \in ghosts \/ x \in temps'
      BY ZenonT(30), <1>1, <2>1, <2>2, <2>3, <2>4, SyncFiles DEF FilesTyped
    <3> QED BY ZenonT(30), <2>1, <2>2, <2>3, <3>1 DEF WritesActive
  <2>5. CASE disk' = [disk EXCEPT ![Rot!Intent] = @ \cup {Rot!Missing}] /\ UNCHANGED ghosts
    <3>1. /\ disk' \in [Rot!Files -> SUBSET Rot!Body]
             /\ disk'[Rot!Intent] = disk[Rot!Intent] \cup {Rot!Missing}
          /\ \A g \in Rot!Files \ {Rot!Intent} : disk'[g] = disk[g]
      BY ZenonT(30), <1>1, <2>1, <2>5 DEF FilesTyped
    <3>2. WritesActive
      BY ZenonT(30), <2>1, <2>2, <2>3, <2>5, <3>1 DEF WritesActive
    <3> QED BY ZenonT(30), <1>1, <2>2, <2>3, <2>5, <3>1, <3>2 DEF FilesTyped
  <2> QED BY ZenonT(30), <2>2, <2>4, <2>5
<1>13. CASE Rot!Settle
  <2>1. now' = now /\ temps' = temps /\ (Rot!Sync("root") \/ UNCHANGED <<disk, ghosts>>)
          /\ "root" \in Rot!Dirs
    BY ZenonT(30), <1>13 DEF Rot!Settle, Rot!Dirs
  <2>2. CASE Rot!Sync("root")
    <3>1. /\ FilesTyped'
             /\ \A g \in Rot!Files : disk'[g] = IF g[1] = "root" THEN {now'[g]} ELSE disk[g]
          /\ \A x \in ghosts' : x \in ghosts \/ x \in temps'
      BY ZenonT(30), <1>1, <2>1, <2>2, SyncFiles DEF FilesTyped
    <3> QED BY ZenonT(30), <2>1, <3>1 DEF WritesActive
  <2>3. CASE UNCHANGED <<disk, ghosts>>
    BY ZenonT(30), <1>4, <2>1, <2>3 DEF Rot!files
  <2> QED BY ZenonT(30), <2>1, <2>2, <2>3
<1>14. CASE Rot!PowerLoss
  <2>1. /\ \A f \in Rot!Files : now'[f] \in disk[f] \cup {now[f]} /\ disk'[f] = {now'[f]}
        /\ DOMAIN now' = Rot!Files /\ now' = [f \in Rot!Files |-> now'[f]]
        /\ disk' = [f \in Rot!Files |-> {now'[f]}] /\ temps' \subseteq ghosts /\ ghosts' = temps'
    BY ZenonT(30), <1>14 DEF Rot!PowerLoss
  <2>2. \A f \in Rot!Files : now'[f] \in Rot!Body
    BY ZenonT(30), <1>1, <2>1 DEF FilesTyped
  <2>3. FilesTyped'
    BY <1>1, <2>1, <2>2 DEF FilesTyped
  <2> QED BY <2>1, <2>3 DEF WritesActive
<1>15. "root" \in Rot!Dirs /\ "image" \in Rot!Dirs /\ "governance" \in Rot!Dirs
  BY ZenonT(30) DEF Rot!Dirs
<1>16. CASE Rot!Clean("root", "image") \/ Rot!Clean("image", "governance")
              \/ Rot!Clean("governance", "drop")
  BY ZenonT(30), <1>11, <1>15, <1>16
<1>17. CASE \/ Rot!Write("governance", "write_governance", "write_image")
            \/ Rot!Write("image", "write_image", "select")
  BY ZenonT(30), <1>10, <1>17
<1> QED
  BY ZenonT(30), <1>5, <1>6, <1>7, <1>9, <1>12, <1>13, <1>14, <1>16, <1>17 DEF Rot!Next, Rot!Steps

-----------------------------------------------------------------------------
(* Phases *)

Phases == {"down", "resume", "rewrap", "root", "image", "governance", "drop", "settle",
           "open", "write_governance", "write_image", "select"}

\* The process, the operator's configuration and the bounds.
ControlTyped ==
    /\ pc \in Phases /\ job \in {"open", "rotate"}
    /\ active \in Keys /\ retired \subseteq Keys /\ receipt \in Keys \cup {"none"}
    /\ todo \subseteq Rot!Files /\ breaks \in 0 .. MaxBreaks

\* Every step keeps the process, the configuration and the bounds in range.
LEMMA ControlStep ==
    ASSUME KeysSane, Rot!TypeOK, [Rot!Next]_(Rot!vars)
    PROVE  ControlTyped'
<1>1. ControlTyped /\ MaxBreaks \in Nat
  BY ZenonT(30) DEF Rot!TypeOK, ControlTyped, Phases, KeysSane
<1>2. ASSUME UNCHANGED <<active, retired, receipt>>, pc' \in Phases, job' \in {"open", "rotate"},
             todo' \subseteq Rot!Files, breaks' \in 0 .. MaxBreaks
      PROVE  ControlTyped'
  BY ZenonT(30), <1>1, <1>2 DEF ControlTyped
<1>3. ASSUME Rot!Down
      PROVE  pc' \in Phases /\ job' \in {"open", "rotate"} /\ todo' \subseteq Rot!Files
  BY ZenonT(30), <1>3 DEF Rot!Down, Phases
<1>4. ASSUME Rot!Break
      PROVE  /\ pc' \in Phases /\ job' \in {"open", "rotate"} /\ todo' \subseteq Rot!Files
                         /\ breaks' \in 0 .. MaxBreaks
  BY <1>1, <1>3, <1>4 DEF Rot!Break, ControlTyped
<1>5. ASSUME Rot!Refuse
      PROVE  /\ pc' \in Phases /\ job' \in {"open", "rotate"} /\ todo' \subseteq Rot!Files
                          /\ breaks' \in 0 .. MaxBreaks
  BY ZenonT(30), <1>1, <1>3, <1>5 DEF Rot!Refuse, ControlTyped
<1>6. ASSUME NEW next \in Phases, Rot!Goto(next) PROVE pc' \in Phases /\ breaks' \in 0 .. MaxBreaks
  BY ZenonT(30), <1>1, <1>6 DEF Rot!Goto, ControlTyped
<1>7. CASE Rot!Open \/ Rot!Rewrapped \/ Rot!Advance
  BY ZenonT(30), <1>1, <1>2, <1>7 DEF Rot!Open, Rot!Rewrapped, Rot!Advance, Rot!Goto, Phases, Rot!config,
     ControlTyped
<1>8. CASE Rot!Resume
  <2>1. Rot!Managed \subseteq Rot!Files
    BY ZenonT(30) DEF Rot!Managed
  <2> QED
    BY ZenonT(30), <1>1, <1>2, <1>5, <1>8, <2>1
       DEF Rot!Resume, Rot!Goto, Phases, Rot!config, ControlTyped
<1>9. CASE Rot!DropIntent
  BY ZenonT(30), <1>1, <1>2, <1>4, <1>9 DEF Rot!DropIntent, Rot!Goto, Phases, Rot!config, ControlTyped
<1>10. CASE Rot!Settle
  BY ZenonT(30), <1>1, <1>3, <1>10 DEF Rot!Settle, Phases, ControlTyped
<1>11. CASE Rot!Select
  BY ZenonT(30), <1>1, <1>2, <1>4, <1>11 DEF Rot!Select, Rot!ReplaceBreaks, Rot!Goto, Phases, Rot!config,
     ControlTyped
<1>12. ASSUME NEW f \in Rot!Files, Rot!Rewrap(f) PROVE ControlTyped'
  BY ZenonT(30), <1>1, <1>2, <1>4, <1>5, <1>12
     DEF Rot!Rewrap, Rot!ReplaceBreaks, Rot!config, ControlTyped
<1>13. ASSUME NEW d, NEW next \in Phases, Rot!Clean(d, next) PROVE ControlTyped'
  BY ZenonT(30), <1>1, <1>2, <1>4, <1>6, <1>13 DEF Rot!Clean, Rot!config, ControlTyped
<1>14. ASSUME NEW kind, NEW here, NEW next \in Phases, Rot!Write(kind, here, next)
       PROVE  ControlTyped'
  BY ZenonT(30), <1>1, <1>2, <1>4, <1>5, <1>6, <1>14 DEF Rot!Write, Rot!config, ControlTyped
<1>15. CASE Rot!Rotate
  BY ZenonT(30), <1>1, <1>2, <1>4, <1>15 DEF Rot!Rotate, Rot!ReplaceBreaks, Rot!Goto, Phases, Rot!config,
     ControlTyped
<1>16. CASE Rot!Close \/ Rot!Die \/ Rot!PowerLoss
  BY ZenonT(30), <1>1, <1>2, <1>4, <1>5, <1>16 DEF Rot!Close, Rot!Die, Rot!PowerLoss, Rot!config
<1>17. ASSUME NEW k \in Keys, Rot!Reconfigure(k) \/ Rot!Retire(k) PROVE ControlTyped'
  BY ZenonT(30), <1>1, <1>17 DEF Rot!Reconfigure, Rot!Retire, ControlTyped
<1>18. CASE UNCHANGED Rot!vars
  BY ZenonT(30), <1>1, <1>2, <1>18 DEF Rot!vars, Rot!config, ControlTyped
<1>19. CASE \/ Rot!Clean("root", "image") \/ Rot!Clean("image", "governance")
               \/ Rot!Clean("governance", "drop")
            \/ Rot!Write("governance", "write_governance", "write_image")
            \/ Rot!Write("image", "write_image", "select")
  <2>1. {"image", "governance", "drop", "write_image", "select"} \subseteq Phases
    BY ZenonT(30) DEF Phases
  <2> QED BY ZenonT(30), <1>13, <1>14, <1>19, <2>1
<1> QED BY ZenonT(30), <1>7, <1>8, <1>9, <1>10, <1>11, <1>12, <1>15, <1>16, <1>17, <1>18, <1>19
     DEF Rot!Next, Rot!Steps

\* A phase after the loop keeps what was achieved when the files stay.
LEMMA SamePhase ==
    ASSUME Rot!PhasesInv, UNCHANGED <<now, disk, temps, ghosts, pc, job, active, todo>>
    PROVE  Rot!PhasesInv'
BY DEF Rot!PhasesInv, Rot!Cleaned, Rot!Present, Rot!gen

\* A process that is gone owes nothing.
LEMMA DownPhase ==
    ASSUME Rot!Down
    PROVE  Rot!PhasesInv'
BY ZenonT(30) DEF Rot!Down, Rot!PhasesInv

\* Every step of a rotation, an open or an advance establishes its phase.
LEMMA PhasesStep ==
    ASSUME KeysSane, Rot!TypeOK, Rot!PhasesInv, [Rot!Next]_(Rot!vars)
    PROVE  Rot!PhasesInv'
<1>1. FilesTyped /\ active \in Keys /\ MaxGen \in Nat /\ "missing" \notin Keys
  BY ZenonT(30) DEF Rot!TypeOK, FilesTyped, KeysSane
<1>2. ASSUME Rot!Break \/ Rot!Refuse PROVE Rot!PhasesInv'
  BY ZenonT(30), <1>2, DownPhase DEF Rot!Break, Rot!Refuse
<1>3. ASSUME pc' \in {"resume", "settle", "open"}, job' = "open" PROVE Rot!PhasesInv'
  BY ZenonT(30), <1>3 DEF Rot!PhasesInv
<1>4. \A g \in 0 .. MaxGen : Rot!Sealed(active, g) \in Rot!Body
        /\ Rot!Sealed(active, g).key = active
                           /\ Rot!Sealed(active, g).gen = g
  BY ZenonT(30), <1>1, SealedBodies
<1>5. \A f \in Rot!Files : now[f] \in Rot!Body /\ now[f].gen \in 0 .. MaxGen
  BY ZenonT(30), <1>1 DEF FilesTyped, Rot!Body
<1>6. CASE Rot!Open
  BY ZenonT(30), <1>3, <1>6 DEF Rot!Open, Rot!Goto, Rot!PhasesInv
<1>7. CASE Rot!Resume
  <2>1. CASE ~Rot!Present(Rot!Intent) /\ Rot!Goto("settle") /\ job' = job
    <3>1. job = "open"
      BY ZenonT(30), <1>7, <2>1 DEF Rot!Resume, Rot!PhasesInv, Rot!TypeOK
    <3> QED BY ZenonT(30), <1>3, <2>1, <3>1 DEF Rot!Goto
  <2>2. CASE Rot!Resumable /\ todo' = Rot!Managed /\ Rot!Goto("rewrap") /\ UNCHANGED Rot!files
    <3>1. now' = now /\ now[Rot!Intent].key = active /\ pc' = "rewrap"
      BY ZenonT(30), <2>2 DEF Rot!Resumable, Rot!files, Rot!Goto
    <3>2. active' = active
      BY ZenonT(30), <1>7 DEF Rot!Resume, Rot!config
    <3>3. \A f \in Rot!Files \ todo' : now'[f].key \in {active, "missing"}
      BY ZenonT(30), <2>2, <3>1 DEF Rot!Managed, Rot!Present
    <3> QED BY ZenonT(30), <3>1, <3>2, <3>3 DEF Rot!PhasesInv
  <2> QED BY ZenonT(30), <1>2, <1>7, <2>1, <2>2 DEF Rot!Resume
<1>8. ASSUME NEW f \in Rot!Files, Rot!Rewrap(f) PROVE Rot!PhasesInv'
  <2>1. active' = active /\ pc = "rewrap"
    BY ZenonT(30), <1>8 DEF Rot!Rewrap, Rot!config
  <2>2. \A g \in Rot!Files \ todo : now[g].key \in {active, "missing"}
    BY ZenonT(30), <2>1 DEF Rot!PhasesInv
  <2>3. CASE now[f].key = active /\ todo' = todo \ {f} /\ UNCHANGED <<Rot!files, pc, job, breaks>>
    <3>1. now' = now /\ pc' = "rewrap"
            /\ \A g \in Rot!Files \ todo' : now'[g].key \in {active, "missing"}
      BY ZenonT(30), <2>1, <2>2, <2>3 DEF Rot!files
    <3> QED BY ZenonT(30), <2>1, <3>1 DEF Rot!PhasesInv
  <2>4. CASE Rot!Replace(f, Rot!Sealed(active, now[f].gen)) /\ todo' = todo \ {f}
               /\ UNCHANGED <<pc, job, breaks>>
    <3>1. now'[f].key = active /\ \A g \in Rot!Files \ {f} : now'[g] = now[g]
      BY <1>1, <1>4, <1>5, <2>4, ReplaceFiles
    <3>2. pc' = "rewrap" /\ \A g \in Rot!Files \ todo' : now'[g].key \in {active, "missing"}
      BY ZenonT(30), <2>1, <2>2, <2>4, <3>1
    <3> QED BY ZenonT(30), <2>1, <3>2 DEF Rot!PhasesInv
  <2>5. CASE Rot!Refuse \/ Rot!ReplaceBreaks(f, Rot!Sealed(active, now[f].gen))
    BY ZenonT(30), <1>2, <2>5 DEF Rot!ReplaceBreaks
  <2> QED BY ZenonT(30), <1>8, <2>3, <2>4, <2>5 DEF Rot!Rewrap
<1>9. CASE Rot!Rewrapped
  <2>1. now' = now /\ pc' = "root" /\ active' = active
    BY ZenonT(30), <1>9 DEF Rot!Rewrapped, Rot!Goto, Rot!files, Rot!config
  <2>2. \A f \in Rot!Files : now[f].key \in {active, "missing"}
    BY ZenonT(30), <1>9 DEF Rot!Rewrapped, Rot!PhasesInv
  <2> QED BY ZenonT(30), <2>1, <2>2 DEF Rot!PhasesInv
<1>10. ASSUME NEW d \in Rot!Dirs, NEW next \in {"image", "governance", "drop"}, Rot!Clean(d, next),
              pc \in {"root", "image", "governance"}, ~Rot!Break
       PROVE  /\ pc = d /\ pc' = next /\ \A f \in Rot!Files : now'[f].key \in {active', "missing"}
              /\ Rot!Cleaned(d)' /\ \A e \in Rot!Dirs : Rot!Cleaned(e) => Rot!Cleaned(e)'
  <2>1. /\ now' = now /\ temps' = {x \in temps : x[1] # d} /\ Rot!Sync(d) /\ pc = d /\ pc' = next
        /\ active' = active
    BY ZenonT(30), <1>10 DEF Rot!Clean, Rot!Goto, Rot!config
  <2>2. now' \in [Rot!Files -> Rot!Body] /\ temps' \subseteq Rot!Dirs \X Keys
    BY ZenonT(30), <1>1, <2>1 DEF FilesTyped
  <2>3. /\ \A f \in Rot!Files : disk'[f] = IF f[1] = d THEN {now'[f]} ELSE disk[f]
        /\ \A x \in ghosts' : x \in ghosts \/ x \in temps'
        /\ \A x \in ghosts' : x[1] = d => x \in temps'
    BY ZenonT(30), <1>1, <2>1, <2>2, SyncFiles
  <2>4. Rot!Cleaned(d)'
    BY ZenonT(30), <2>1, <2>3 DEF Rot!Cleaned
  <2>5. ASSUME NEW e \in Rot!Dirs, Rot!Cleaned(e) PROVE Rot!Cleaned(e)'
    BY ZenonT(30), <2>1, <2>3, <2>5 DEF Rot!Cleaned
  <2>6. \A f \in Rot!Files : now[f].key \in {active, "missing"}
    BY ZenonT(30), <1>10 DEF Rot!PhasesInv
  <2> QED BY ZenonT(30), <2>1, <2>4, <2>5, <2>6
<1>11. "root" \in Rot!Dirs /\ "image" \in Rot!Dirs /\ "governance" \in Rot!Dirs
  BY ZenonT(30) DEF Rot!Dirs
<1>12. CASE Rot!Clean("root", "image") /\ ~Rot!Break
  <2>1. pc = "root"
    BY ZenonT(30), <1>12 DEF Rot!Clean
  <2>2. pc' = "image" /\ Rot!Cleaned("root")'
          /\ \A f \in Rot!Files : now'[f].key \in {active', "missing"}
    BY ZenonT(30), <1>10, <1>11, <1>12, <2>1
  <2> QED BY ZenonT(30), <2>2 DEF Rot!PhasesInv
<1>13. CASE Rot!Clean("image", "governance") /\ ~Rot!Break
  <2>1. pc = "image" /\ Rot!Cleaned("root")
    BY ZenonT(30), <1>13 DEF Rot!Clean, Rot!PhasesInv
  <2>2. /\ pc' = "governance" /\ Rot!Cleaned("root")' /\ Rot!Cleaned("image")'
        /\ \A f \in Rot!Files : now'[f].key \in {active', "missing"}
    BY ZenonT(30), <1>10, <1>11, <1>13, <2>1
  <2> QED BY ZenonT(30), <2>2 DEF Rot!PhasesInv
<1>14. CASE Rot!Clean("governance", "drop") /\ ~Rot!Break
  <2>1. pc = "governance" /\ Rot!Cleaned("root") /\ Rot!Cleaned("image")
    BY ZenonT(30), <1>14 DEF Rot!Clean, Rot!PhasesInv
  <2>2. /\ pc' = "drop" /\ Rot!Cleaned("root")' /\ Rot!Cleaned("image")'
           /\ Rot!Cleaned("governance")'
        /\ \A f \in Rot!Files : now'[f].key \in {active', "missing"}
    BY ZenonT(30), <1>10, <1>11, <1>14, <2>1
  <2> QED BY ZenonT(30), <2>2 DEF Rot!PhasesInv
<1>15. CASE Rot!DropIntent
  <2>1. CASE Rot!Break
    BY ZenonT(30), <1>2, <2>1
  <2>2. CASE Rot!Sync("root") /\ Rot!Goto("settle")
    <3>1. now' = [now EXCEPT ![Rot!Intent] = Rot!Missing] /\ temps' = temps /\ active' = active
            /\ pc = "drop"
      BY ZenonT(30), <1>15 DEF Rot!DropIntent, Rot!config
    <3>2. Rot!Missing \in Rot!Body /\ Rot!Missing.key = "missing" /\ Rot!Intent \in Rot!Files
            /\ Rot!Intent[1] = "root"
      BY ZenonT(30), <1>1, SealedBodies, FilesInDirs
    <3>3. /\ now' \in [Rot!Files -> Rot!Body] /\ now'[Rot!Intent] = Rot!Missing
          /\ \A f \in Rot!Files \ {Rot!Intent} : now'[f] = now[f]
      BY ZenonT(30), <1>1, <3>1, <3>2 DEF FilesTyped
    <3>4. /\ \A f \in Rot!Files : disk'[f] = IF f[1] = "root" THEN {now'[f]} ELSE disk[f]
          /\ \A x \in ghosts' : x \in ghosts \/ x \in temps'
      BY ZenonT(30), <1>1, <1>11, <2>2, <3>1, <3>3, SyncFiles DEF FilesTyped
    <3>5. /\ Rot!Cleaned("root") /\ Rot!Cleaned("image") /\ Rot!Cleaned("governance")
          /\ \A f \in Rot!Files : now[f].key \in {active, "missing"}
      BY ZenonT(30), <3>1 DEF Rot!PhasesInv
    <3>6. \A f \in Rot!Files : now'[f].key \in {active', "missing"}
      BY ZenonT(30), <3>1, <3>2, <3>3, <3>5
    <3>7. Rot!Cleaned("root")'
      BY ZenonT(30), <3>1, <3>4, <3>5 DEF Rot!Cleaned
    <3>8. ASSUME NEW d \in {"image", "governance"}, Rot!Cleaned(d) PROVE Rot!Cleaned(d)'
      BY ZenonT(30), <3>1, <3>2, <3>3, <3>4, <3>8 DEF Rot!Cleaned
    <3>9. pc' = "settle"
      BY ZenonT(30), <2>2 DEF Rot!Goto
    <3> QED BY ZenonT(30), <3>5, <3>6, <3>7, <3>8, <3>9 DEF Rot!PhasesInv
  <2> QED BY ZenonT(30), <1>15, <2>1, <2>2 DEF Rot!DropIntent
<1>16. CASE Rot!Settle
  <2>1. (pc' = "open" /\ job' = "open") \/ Rot!Down
    BY ZenonT(30), <1>16 DEF Rot!Settle
  <2> QED BY ZenonT(30), <1>3, <2>1, DownPhase
<1>17. CASE Rot!Rotate
  <2>1. CASE Rot!Replace(Rot!Intent, Rot!Sealed(active, 0)) /\ Rot!Goto("resume") /\ job' = "rotate"
    <3>1. Rot!Intent \in Rot!Files /\ Rot!Sealed(active, 0) \in Rot!Body
            /\ Rot!Sealed(active, 0).key = active
      BY <1>1, <1>4, FilesInDirs
    <3>2. now'[Rot!Intent].key = active
      BY ZenonT(30), <1>1, <2>1, <3>1, ReplaceFiles
    <3>3. Rot!Present(Rot!Intent)' /\ pc' = "resume"
      BY ZenonT(30), <1>1, <2>1, <3>2 DEF Rot!Present, Rot!Goto
    <3> QED BY ZenonT(30), <3>3 DEF Rot!PhasesInv
  <2> QED BY ZenonT(30), <1>2, <1>17, <2>1 DEF Rot!Rotate, Rot!ReplaceBreaks
<1>18. CASE Rot!Advance
  BY ZenonT(30), <1>18 DEF Rot!Advance, Rot!Goto, Rot!files, Rot!PhasesInv, Rot!gen
<1>19. ASSUME NEW kind \in {"image", "governance"},
              NEW here \in {"write_governance", "write_image"},
              NEW next \in {"write_image", "select"}, Rot!Write(kind, here, next)
       PROVE  Rot!PhasesInv'
  <2>1. Rot!gen < MaxGen /\ job = "open" /\ Rot!gen \in 0 .. MaxGen
    BY ZenonT(30), <1>5, <1>19, FilesInDirs DEF Rot!Write, Rot!PhasesInv, Rot!gen
  <2> DEFINE f == <<kind, Rot!gen + 1>>
             b == Rot!Sealed(active, Rot!gen + 1)
  <2>2. Rot!gen + 1 \in 0 .. MaxGen
    BY <1>1, <2>1
  <2>3. f \in Rot!Files /\ f # Rot!Selector /\ b \in Rot!Body /\ b.key = active
          /\ Rot!Selector \in Rot!Files
    BY ZenonT(30), <1>4, <2>2, FilesInDirs
  <2> HIDE DEF f, b
  <2>4. ASSUME Rot!Goto(next), job' = job, now'[Rot!Selector] = now[Rot!Selector]
        PROVE  Rot!PhasesInv'
    BY ZenonT(30), <2>1, <2>4 DEF Rot!Goto, Rot!PhasesInv, Rot!gen
  <2>5. CASE UNCHANGED <<now, temps, job, todo>> /\ Rot!Goto(next)
    BY ZenonT(30), <2>4, <2>5
  <2>6. CASE Rot!Replace(f, b) /\ Rot!Goto(next) /\ UNCHANGED <<job, todo>>
    <3>1. now'[Rot!Selector] = now[Rot!Selector]
      BY ZenonT(30), <1>1, <2>3, <2>6, ReplaceFiles
    <3> QED BY ZenonT(30), <2>4, <2>6, <3>1
  <2> QED BY ZenonT(30), <1>2, <1>19, <2>5, <2>6 DEF Rot!Write, f, b
<1>20. CASE Rot!Select
  <2>1. job = "open"
    BY ZenonT(30), <1>20 DEF Rot!Select, Rot!PhasesInv
  <2>2. Rot!Break \/ (Rot!Goto("resume") /\ job' = job)
    BY ZenonT(30), <1>20 DEF Rot!Select, Rot!ReplaceBreaks
  <2> QED BY ZenonT(30), <1>2, <1>3, <2>1, <2>2 DEF Rot!Goto
<1>21. CASE Rot!Close \/ Rot!Die \/ Rot!PowerLoss
  BY ZenonT(30), <1>2, <1>21 DEF Rot!Close, Rot!Die, Rot!PowerLoss
<1>22. ASSUME NEW k \in Keys, Rot!Reconfigure(k) PROVE Rot!PhasesInv'
  <2>1. pc' = "down" /\ job' = job /\ pc = "down"
    BY ZenonT(30), <1>22 DEF Rot!Reconfigure
  <2> QED BY ZenonT(30), <2>1 DEF Rot!PhasesInv
<1>23. ASSUME NEW k \in Keys, Rot!Retire(k) PROVE Rot!PhasesInv'
  BY ZenonT(30), <1>23, SamePhase DEF Rot!Retire, Rot!files
<1>24. CASE UNCHANGED Rot!vars
  BY ZenonT(30), <1>24, SamePhase DEF Rot!vars, Rot!files, Rot!config
<1>25. CASE \/ Rot!Write("governance", "write_governance", "write_image")
            \/ Rot!Write("image", "write_image", "select")
  BY ZenonT(30), <1>19, <1>25
<1> QED
  BY ZenonT(30), <1>2, <1>6, <1>7, <1>8, <1>9, <1>12, <1>13, <1>14, <1>15, <1>16, <1>17, <1>18,
           <1>20, <1>21, <1>22, <1>23, <1>24, <1>25 DEF Rot!Next, Rot!Steps

-----------------------------------------------------------------------------
(* Keys *)

\* A settled rotation left nothing under another key.
LEMMA RotationConverges ==
    ASSUME KeysSane, Rot!TypeOK, Rot!PhasesInv, pc = "settle", job = "rotate"
    PROVE  Rot!Converged
<1>1. /\ \A f \in Rot!Files : now[f].key \in {active, "missing"}
      /\ \A d \in Rot!Dirs : Rot!Cleaned(d)
  BY ZenonT(30) DEF Rot!PhasesInv, Rot!Dirs
<1>2. \A f \in Rot!Files : f[1] \in Rot!Dirs
  BY ZenonT(30), FilesInDirs
<1>3. \A f \in Rot!Files : disk[f] = {now[f]}
  BY ZenonT(30), <1>1, <1>2 DEF Rot!Cleaned
<1>4. \A x \in temps \cup ghosts : x[1] \in Rot!Dirs
  BY ZenonT(30) DEF Rot!TypeOK
<1>5. temps \cup ghosts = {}
  BY ZenonT(30), <1>1, <1>4 DEF Rot!Cleaned
<1> QED BY ZenonT(30), <1>1, <1>3, <1>5 DEF Rot!Converged

\* While the operator changes nothing, a write under the active key keeps both a
\* retired key unneeded and a converged tenant converged.
LEMMA WritesKeep ==
    ASSUME KeysSane, Rot!TypeOK, Rot!KeysInv, WritesActive, UNCHANGED <<active, retired>>
    PROVE  Rot!RetiredKeyUnneeded' /\ (Rot!Converged => Rot!Converged')
<1>1. active \notin retired /\ "missing" \notin retired /\ "torn" \notin retired
  BY ZenonT(30) DEF Rot!KeysInv, KeysSane, Rot!TypeOK
<1>2. ASSUME NEW f \in Rot!Files, NEW b \in disk'[f] \cup {now'[f]}
      PROVE  b.key \notin retired /\ (Rot!Converged => b.key \in {active, "missing", "torn"})
  BY ZenonT(30), <1>1, <1>2 DEF Rot!KeysInv, Rot!RetiredKeyUnneeded, Rot!Converged, WritesActive
<1>3. ASSUME NEW x \in temps' \cup ghosts'
      PROVE  x[2] \notin retired /\ (Rot!Converged => x[2] = active)
  BY ZenonT(30), <1>1, <1>3 DEF Rot!KeysInv, Rot!RetiredKeyUnneeded, Rot!Converged, WritesActive
<1>4. Rot!RetiredKeyUnneeded'
  BY ZenonT(30), <1>2, <1>3 DEF Rot!RetiredKeyUnneeded
<1>5. Rot!Converged => Rot!Converged'
  BY ZenonT(30), <1>2, <1>3 DEF Rot!Converged
<1> QED BY ZenonT(30), <1>4, <1>5

\* Only a settled rotation is answered, and only the operator, on a converged
\* tenant, retires a key.
LEMMA KeysStep ==
    ASSUME KeysSane, Rot!TypeOK, Rot!KeysInv, Rot!PhasesInv, [Rot!Next]_(Rot!vars)
    PROVE  Rot!KeysInv'
<1>1. WritesActive
  BY ZenonT(30), FileStep DEF Ready, Rot!PhasesInv
<1>2. ASSUME UNCHANGED <<active, retired>>, receipt' = receipt PROVE Rot!KeysInv'
  BY ZenonT(30), <1>1, <1>2, WritesKeep DEF Rot!KeysInv
<1>3. CASE Rot!Settle
  <2>1. UNCHANGED <<active, retired>> /\ pc = "settle"
    BY ZenonT(30), <1>3 DEF Rot!Settle
  <2>2. receipt' = receipt \/ (job = "rotate" /\ receipt' = active)
    BY ZenonT(30), <1>3 DEF Rot!Settle
  <2>3. CASE job = "rotate" /\ receipt' = active
    <3>1. Rot!RetiredKeyUnneeded' /\ Rot!Converged'
      BY ZenonT(30), <1>1, <2>1, <2>3, WritesKeep, RotationConverges
    <3> QED BY ZenonT(30), <2>1, <2>3, <3>1 DEF Rot!KeysInv
  <2> QED BY ZenonT(30), <1>2, <2>1, <2>2, <2>3
<1>4. ASSUME NEW k \in Keys, Rot!Reconfigure(k) PROVE Rot!KeysInv'
  <2>1. /\ active' = k /\ k \notin retired /\ receipt' = "none"
        /\ UNCHANGED <<now, disk, temps, ghosts, retired>>
    BY ZenonT(30), <1>4 DEF Rot!Reconfigure, Rot!files
  <2>2. Rot!RetiredKeyUnneeded'
    BY ZenonT(30), <2>1 DEF Rot!KeysInv, Rot!RetiredKeyUnneeded
  <2>3. receipt' # active'
    BY ZenonT(30), <2>1 DEF KeysSane
  <2> QED BY ZenonT(30), <2>1, <2>2, <2>3 DEF Rot!KeysInv
<1>5. ASSUME NEW k \in Keys, Rot!Retire(k) PROVE Rot!KeysInv'
  <2>1. /\ receipt = active /\ k # active /\ retired' = retired \cup {k}
        /\ UNCHANGED <<now, disk, temps, ghosts, active, receipt>>
    BY ZenonT(30), <1>5 DEF Rot!Retire, Rot!files
  <2>2. Rot!Converged /\ Rot!Converged' /\ k # "missing" /\ k # "torn"
    BY ZenonT(30), <2>1 DEF Rot!KeysInv, KeysSane, Rot!Converged
  <2>3. Rot!RetiredKeyUnneeded'
    BY ZenonT(30), <2>1, <2>2 DEF Rot!KeysInv, Rot!RetiredKeyUnneeded, Rot!Converged
  <2> QED BY ZenonT(30), <2>1, <2>2, <2>3 DEF Rot!KeysInv
<1>6. CASE Rot!Open \/ Rot!Resume \/ Rot!Rewrapped \/ Rot!DropIntent \/ Rot!Select
  BY ZenonT(30), <1>2, <1>6
     DEF Rot!Open, Rot!Resume, Rot!Rewrapped, Rot!DropIntent, Rot!Select, Rot!config
<1>7. ASSUME NEW f \in Rot!Files, Rot!Rewrap(f) PROVE Rot!KeysInv'
  BY ZenonT(30), <1>2, <1>7 DEF Rot!Rewrap, Rot!config
<1>8. ASSUME NEW d, NEW next, Rot!Clean(d, next) PROVE Rot!KeysInv'
  BY ZenonT(30), <1>2, <1>8 DEF Rot!Clean, Rot!config
<1>9. ASSUME NEW kind, NEW here, NEW next, Rot!Write(kind, here, next) PROVE Rot!KeysInv'
  BY ZenonT(30), <1>2, <1>9 DEF Rot!Write, Rot!config
<1>10. CASE Rot!Rotate \/ Rot!Advance \/ Rot!Close \/ Rot!Die \/ Rot!PowerLoss
  BY ZenonT(30), <1>2, <1>10 DEF Rot!Rotate, Rot!Advance, Rot!Close, Rot!Die, Rot!PowerLoss, Rot!config
<1>11. CASE UNCHANGED Rot!vars
  BY ZenonT(30), <1>2, <1>11 DEF Rot!vars, Rot!config
<1> QED
  BY ZenonT(30), <1>3, <1>4, <1>5, <1>6, <1>7, <1>8, <1>9, <1>10, <1>11 DEF Rot!Next, Rot!Steps

-----------------------------------------------------------------------------
(* Theorems *)

\* Types, keys and phases together are inductive.
RotationInv == Rot!TypeOK /\ Rot!KeysInv /\ Rot!PhasesInv

\* A freshly initialised tenant is under its first key, and no phase is entered.
LEMMA RotationInit ==
    ASSUME KeysSane, Rot!Init
    PROVE  RotationInv
<1>1. FirstKey \in Keys /\ "missing" \notin Keys /\ active = FirstKey
  BY ZenonT(30) DEF KeysSane, Rot!Init
<1>2. \A g \in 0 .. MaxGen : Rot!Sealed(active, g) \in Rot!Body
        /\ Rot!Sealed(active, g).key = active
  BY ZenonT(30), <1>1, SealedBodies
<1>3. Rot!Missing \in Rot!Body /\ Rot!Missing.key = "missing" /\ 0 \in 0 .. MaxGen
  BY <1>1, SealedBodies DEF KeysSane
<1>4. now \in [Rot!Files -> Rot!Body] /\ \A f \in Rot!Files : now[f].key \in {active, "missing"}
  <2>1. PICK floor \in {"missing", FirstKey} :
          now = [f \in Rot!Files |->
                   IF f = Rot!Floor THEN Rot!Sealed(floor, 0)
                   ELSE IF f = Rot!Intent \/ (f # Rot!Selector /\ f[2] > 0) THEN Rot!Missing
                   ELSE Rot!Sealed(FirstKey, 0)]
    BY ZenonT(30) DEF Rot!Init
  <2>2. /\ Rot!Sealed(FirstKey, 0) \in Rot!Body /\ Rot!Sealed(FirstKey, 0).key = FirstKey
        /\ Rot!Sealed(floor, 0) \in Rot!Body /\ Rot!Sealed(floor, 0).key = floor
    BY ZenonT(30), <1>1, <1>2, <1>3 DEF Rot!Sealed, Rot!Body
  <2> QED BY ZenonT(30), <1>1, <1>3, <2>1, <2>2
<1>5. disk \in [Rot!Files -> SUBSET Rot!Body] /\ \A f \in Rot!Files : disk[f] = {now[f]}
  BY <1>4 DEF Rot!Init
<1>6. Rot!TypeOK
  BY <1>1, <1>4, <1>5 DEF Rot!Init, Rot!TypeOK, KeysSane
<1>7. Rot!KeysInv
  <2>1. Rot!RetiredKeyUnneeded /\ active \notin retired
    BY ZenonT(30) DEF Rot!Init, Rot!RetiredKeyUnneeded
  <2>2. Rot!Converged
    BY ZenonT(30), <1>4, <1>5 DEF Rot!Init, Rot!Converged
  <2> QED BY ZenonT(30), <2>1, <2>2 DEF Rot!KeysInv, Rot!Init
<1>8. Rot!PhasesInv
  BY ZenonT(30) DEF Rot!Init, Rot!PhasesInv
<1> QED BY ZenonT(30), <1>6, <1>7, <1>8 DEF RotationInv

\* The conjunction is inductive.
LEMMA RotationStep ==
    ASSUME KeysSane, RotationInv, [Rot!Next]_(Rot!vars)
    PROVE  RotationInv'
<1>1. FilesTyped'
  BY ZenonT(30), FileStep DEF Ready, RotationInv, Rot!PhasesInv
<1>2. ControlTyped'
  BY ZenonT(30), ControlStep DEF RotationInv
<1>3. Rot!TypeOK'
  BY ZenonT(30), <1>1, <1>2 DEF Rot!TypeOK, FilesTyped, ControlTyped, Phases
<1>4. Rot!KeysInv' /\ Rot!PhasesInv'
  BY ZenonT(30), KeysStep, PhasesStep DEF RotationInv
<1> QED BY ZenonT(30), <1>3, <1>4 DEF RotationInv

\* However rotations, advances, crashes, power losses and the operator's changes
\* of the configuration interleave, a key the key service has forgotten seals
\* nothing in the tenant's directories: rotate_encryption answered for it.
THEOREM RetiredKeysUnneeded ==
    ASSUME KeysSane
    PROVE  Rot!Spec => []Rot!RetiredKeyUnneeded
<1>1. Rot!Init => RotationInv
  BY ZenonT(30), RotationInit
<1>2. RotationInv /\ [Rot!Next]_(Rot!vars) => RotationInv'
  BY ZenonT(30), RotationStep
<1>3. RotationInv => Rot!RetiredKeyUnneeded
  BY ZenonT(30) DEF RotationInv, Rot!KeysInv
<1> QED BY <1>1, <1>2, <1>3, PTL DEF Rot!Spec
=============================================================================
