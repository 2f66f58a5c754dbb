-------------------------- MODULE GenerationStore ---------------------------
(***************************************************************************)
(* The provider generations of one tenant (crate ccos-enterprise-octasoma):*)
(* a selector file names one generation, a pair of immutable artifacts     *)
(* (governance and image); ordinary writes publish the next generation, a  *)
(* purge does so under a durable intent, deletes every other generation and*)
(* leaves a floor behind.                                                  *)
(*                                                                         *)
(* Each step is one durable write.  A step that is interrupted, by an I/O  *)
(* error or by the death of the process, gives up the owner either way: the*)
(* next thing that can happen is an open.  rootDisk and artDisk are the    *)
(* contents of the directories that a power loss may leave.                *)
(***************************************************************************)
EXTENDS Integers, FiniteSets

CONSTANTS
    Assets,    \* governed memory assets
    Below,     \* the lineage: for each asset, all that is derived from it
    MaxGen,    \* bound: the largest generation (u64::MAX in the code)
    MaxBreaks  \* bound: interrupted steps, process deaths, power losses

ASSUME GenerationAssumption ==
    /\ Below \in [Assets -> SUBSET Assets]
    /\ \A a \in Assets : a \notin Below[a] /\ \A b \in Below[a] : Below[b] \subseteq Below[a]
    /\ Assets # {} /\ MaxGen \in Nat /\ MaxBreaks \in Nat

VARIABLES
    pc,        \* where the process is; "owner": open, "closed": nobody is
    own,       \* generation and population of the owner, or of the one in work
    job,       \* the population being published
    dirs,      \* the generation directories: "absent" or "made"
    root,      \* the tenant directory: selector, purge intent, purge floor
    rootDisk,
    art,       \* the artifacts: for each directory and generation a file
    artDisk,
    acked,     \* the last generation that was returned to a caller
    promised,  \* assets a durable purge intent names
    breaks

history == <<acked, promised>>
files == <<dirs, root, rootDisk, art, artDisk>>
vars == <<pc, own, job, files, history, breaks>>

Gens == 0 .. MaxGen
Dirs == {"gov", "img"}

-----------------------------------------------------------------------------
(* Populations: the record set of a generation with its governance *)

\* What lineage registration and restore accept: everything an asset is derived
\* from is registered, and active if the asset is.
WellFormed(p) ==
    \A a \in Assets : \A b \in Below[a] :
        /\ p[b] # "absent" => p[a] # "absent"
        /\ p[b] = "active" => p[a] = "active"

States == {"absent", "active", "inactive", "purged"}
Populations == {p \in [Assets -> States] : WellFormed(p)}

Blank == [a \in Assets |-> "absent"]

\* Physical tombstones; the governance bytes know them only as inactive.
Purged(p) == {a \in Assets : p[a] = "purged"}
Governance(p) == [a \in Assets |-> IF p[a] = "purged" THEN "inactive" ELSE p[a]]

\* MemoryLineageGraph::invalidate: the asset and all registered descendants.
Targets(p, a) == {a} \cup {b \in Below[a] : p[b] # "absent"}

\* prepare_purge: the next population, without any effect.
prepare_purge(p, a) == [b \in Assets |-> IF b \in Targets(p, a) THEN "purged" ELSE p[b]]

-----------------------------------------------------------------------------
(* Files *)

\* An artifact: missing, cut short, or whole.
Body(s, p) == [state |-> s, pop |-> p]
Missing == Body("none", Blank)
Bodies == [state : {"none", "torn", "whole"}, pop : [Assets -> States]]
Artifacts == [Dirs -> [Gens -> Bodies]]
Content(d, p) == IF d = "gov" THEN Governance(p) ELSE p

NoSelector == [gen |-> -1, pop |-> Blank]
NoIntent == [base |-> -1, from |-> Blank, to |-> Blank, asset |-> CHOOSE a \in Assets : TRUE]
NoFloor == [gen |-> -1, purged |-> {}]
Selectors == [gen : Gens \cup {-1}, pop : Populations]
Intents == [base : Gens \cup {-1}, from : Populations, to : Populations, asset : Assets]
Floors == [gen : Gens \cup {-1}, purged : SUBSET Assets]
Roots == [sel : Selectors, intent : Intents, floor : Floors]

\* The directories with one file set.
SetSelector(r, v) == [sel |-> v, intent |-> r.intent, floor |-> r.floor]
SetIntent(r, v) == [sel |-> r.sel, intent |-> v, floor |-> r.floor]
SetFloor(r, v) == [sel |-> r.sel, intent |-> r.intent, floor |-> v]
Put(f, d, g, b) ==
    [e \in Dirs |-> [h \in Gens |-> IF e = d /\ h = g THEN b ELSE f[e][h]]]

\* open_v2 and open_provider_image: both artifacts have the selector's digests.
Readable(sel, f) ==
    \A d \in Dirs : f[d][sel.gen] = Body("whole", Content(d, sel.pop))

Init ==
    /\ pc = "closed" /\ own = NoSelector /\ job = Blank /\ dirs = "absent"
    /\ root = [sel |-> NoSelector, intent |-> NoIntent, floor |-> NoFloor]
    /\ rootDisk = {root}
    /\ art = [d \in Dirs |-> [g \in Gens |-> Missing]] /\ artDisk = {art}
    /\ acked = NoSelector /\ promised = {} /\ breaks = 0

Break == breaks < MaxBreaks /\ breaks' = breaks + 1

\* The owner is gone; the lock file is free.
Closed == pc' = "closed" /\ own' = NoSelector /\ job' = Blank

\* write_selector, write_metadata, removal of the intent: a rename or an unlink
\* in the tenant directory, then the sync of the directory.
RootDone(next) ==
    /\ root' = next /\ rootDisk' = {next}
    /\ UNCHANGED <<dirs, art, artDisk, breaks>>

\* Without that sync the directories in `late` may be found after a power loss.
RootInterrupted(next, late) ==
    /\ Break /\ Closed
    /\ \/ UNCHANGED <<root, rootDisk>>
       \/ root' = next /\ rootDisk' = rootDisk \cup late
    /\ UNCHANGED <<dirs, art, artDisk, history>>

-----------------------------------------------------------------------------
(* Callers *)

\* initialize_with_cipher: the directories must not exist.  The lock is held
\* until the selector is published.  (Directories that a power loss takes away
\* leave a tenant that was never initialized.)
initialize(p) ==
    /\ pc = "closed" /\ dirs = "absent" /\ root.sel = NoSelector
    /\ Purged(p) = {}
    /\ dirs' = "made"
    /\ \/ pc' = "gov" /\ job' = p /\ UNCHANGED <<own, breaks>>
       \/ Break /\ Closed
    /\ UNCHANGED <<root, rootDisk, art, artDisk, history>>

\* checked_add of the generation.
HasNext == own.gen < MaxGen

\* validate_purge_transition.
SamePurges(p) == Purged(p) = Purged(own.pop)

\* advance: an ordinary next generation, accepted evidence being one kind.
advance(p) ==
    /\ pc = "owner" /\ HasNext /\ SamePurges(p)
    /\ pc' = "gov" /\ job' = p
    /\ UNCHANGED <<own, files, history, breaks>>

\* commit_prepared_purge: no intent may be there, then it is written.
commit_prepared_purge(a) ==
    LET to == prepare_purge(own.pop, a)
        i == [base |-> own.gen, from |-> own.pop, to |-> to, asset |-> a]
    IN  /\ pc = "owner" /\ HasNext /\ own.pop[a] # "absent"
        /\ root.intent = NoIntent
        /\ \/ /\ RootDone(SetIntent(root, i)) /\ pc' = "gov" /\ job' = to
              /\ promised' = promised \cup Targets(own.pop, a)
              /\ UNCHANGED <<own, acked>>
           \/ RootInterrupted(SetIntent(root, i), {SetIntent(r, i) : r \in rootDisk})

-----------------------------------------------------------------------------
(* Publication: governance, image, selector *)

\* write_new_or_verify_exact: a file with exactly these bytes is as good.
FoundExact(d, g, b) == art[d][g] = b

WriteArtifact(d, next) ==
    LET g == own.gen + 1
        b == Body("whole", Content(d, job))
        torn == Body("torn", Content(d, job))
    IN  \/ /\ art[d][g] = Missing
           /\ art' = Put(art, d, g, b) /\ artDisk' = {Put(f, d, g, b) : f \in artDisk}
           /\ pc' = next /\ UNCHANGED <<own, job, breaks>>
        \/ /\ FoundExact(d, g, b)
           /\ artDisk' = {Put(f, d, g, art[d][g]) : f \in artDisk}
           /\ pc' = next /\ UNCHANGED <<own, job, art, breaks>>
        \/ /\ art[d][g] # Missing /\ ~FoundExact(d, g, b)
           /\ Closed /\ UNCHANGED <<art, artDisk, breaks>>
        \/ /\ art[d][g] = Missing /\ Break /\ Closed
           /\ \E c \in {b, torn} : art' = Put(art, d, g, c)
           /\ artDisk' = artDisk \cup {Put(f, d, g, c) : f \in artDisk, c \in {b, torn}}

publish_governance ==
    pc = "gov" /\ WriteArtifact("gov", "img") /\ UNCHANGED <<dirs, root, rootDisk, history>>

publish_image ==
    pc = "img" /\ WriteArtifact("img", "select") /\ UNCHANGED <<dirs, root, rootDisk, history>>

publish_selector ==
    LET s == [gen |-> own.gen + 1, pop |-> job]
    IN  /\ pc = "select"
        /\ \/ /\ RootDone(SetSelector(root, s)) /\ pc' = "open"
              /\ UNCHANGED <<own, job, history>>
           \/ RootInterrupted(SetSelector(root, s), {SetSelector(r, s) : r \in rootDisk})

-----------------------------------------------------------------------------
(* Opening *)

\* sync_visible_selector, and a variant that only reads.
Unsynced == rootDisk' = rootDisk
sync_visible_selector == rootDisk' = {root}

\* open_with_cipher up to the recovery of a purge.
open ==
    /\ pc \in {"closed", "open"} /\ root.sel # NoSelector
    /\ sync_visible_selector
    /\ Readable(root.sel, art)
    /\ pc' = "recover" /\ own' = root.sel /\ job' = Blank
    /\ promised' = promised \cup Purged(root.intent.to)
    /\ UNCHANGED <<dirs, root, art, artDisk, acked, breaks>>

\* validate_floor.
FloorOk(pending) ==
    IF root.floor = NoFloor THEN pending \/ Purged(own.pop) = {}
    ELSE /\ root.floor.gen <= own.gen /\ root.floor.purged # {}
         /\ IF pending THEN root.floor.purged \subseteq Purged(own.pop)
            ELSE root.floor.purged = Purged(own.pop)

\* recover_pending_purge: nothing pending, the base is selected, or the target is.
\* Anything else it refuses (RecoveryAccepts: there is nothing else).
NothingPending == root.intent = NoIntent /\ FloorOk(FALSE)
BaseSelected ==
    /\ root.intent # NoIntent /\ own.gen = root.intent.base
    /\ FloorOk(FALSE) /\ own.pop = root.intent.from
    /\ prepare_purge(own.pop, root.intent.asset) = root.intent.to
TargetSelected ==
    /\ root.intent # NoIntent /\ own.gen = root.intent.base + 1
    /\ own.pop = root.intent.to /\ FloorOk(TRUE)

\* The owner goes to the caller.
Return == pc' = "owner" /\ acked' = own

recover_pending_purge ==
    /\ pc = "recover"
    /\ \/ NothingPending /\ Return /\ UNCHANGED <<own, job>>
       \/ BaseSelected /\ pc' = "erase_img" /\ job' = root.intent.to /\ UNCHANGED <<own, acked>>
       \/ TargetSelected /\ pc' = "sweep_img" /\ UNCHANGED <<own, job, acked>>
    /\ UNCHANGED <<files, promised, breaks>>

\* The base is selected: what is there of the next generation is removed, to be
\* published anew.  A variant leaves it where it is.
EraseNothing(d, g) == UNCHANGED <<art, artDisk>>
EraseNext(d, g) ==
    art' = Put(art, d, g, Missing) /\ artDisk' = {Put(f, d, g, Missing) : f \in artDisk}

erase(d, next) ==
    LET g == own.gen + 1
    IN  \/ EraseNext(d, g) /\ pc' = next /\ UNCHANGED <<own, job, breaks>>
        \/ /\ Break /\ Closed
           /\ art' = Put(art, d, g, Missing)
           /\ artDisk' = artDisk \cup {Put(f, d, g, Missing) : f \in artDisk}

erase_next ==
    /\ \/ pc = "erase_img" /\ erase("img", "erase_gov")
       \/ pc = "erase_gov" /\ erase("gov", "gov")
    /\ UNCHANGED <<dirs, root, rootDisk, history>>

\* The target is selected: every other file of a directory is unlinked, one by
\* one, and the directory synced.
Swept(d) == \A g \in Gens \ {own.gen} : art[d][g] = Missing

sweep_file(d) ==
    /\ \E g \in Gens \ {own.gen} :
           /\ art[d][g] # Missing
           /\ art' = Put(art, d, g, Missing)
           /\ artDisk' = artDisk \cup {Put(f, d, g, Missing) : f \in artDisk}
    /\ UNCHANGED pc

\* The sync after the last unlink, and a variant without it.
SweptUnsynced(d) == UNCHANGED artDisk
OnlyOwn(f, d) ==
    [e \in Dirs |-> [g \in Gens |-> IF e = d /\ g # own.gen THEN Missing ELSE f[e][g]]]
SweptSynced(d) == artDisk' = {OnlyOwn(f, d) : f \in artDisk}

sweep_done(d, next) == Swept(d) /\ SweptSynced(d) /\ pc' = next /\ UNCHANGED art

sweep ==
    /\ \/ pc = "sweep_img" /\ (sweep_file("img") \/ sweep_done("img", "sweep_gov"))
       \/ pc = "sweep_gov" /\ (sweep_file("gov") \/ sweep_done("gov", "floor"))
    /\ UNCHANGED <<own, job, dirs, root, rootDisk, history, breaks>>

write_floor ==
    LET fl == [gen |-> own.gen, purged |-> Purged(root.intent.to)]
    IN  /\ pc = "floor"
        /\ \/ RootDone(SetFloor(root, fl)) /\ pc' = "retire" /\ UNCHANGED <<own, job, history>>
           \/ RootInterrupted(SetFloor(root, fl), {SetFloor(r, fl) : r \in rootDisk})

retire_intent ==
    /\ pc = "retire"
    /\ \/ RootDone(SetIntent(root, NoIntent)) /\ Return /\ UNCHANGED <<own, job, promised>>
       \/ RootInterrupted(SetIntent(root, NoIntent), {SetIntent(r, NoIntent) : r \in rootDisk})

-----------------------------------------------------------------------------
(* Failures *)

\* The process dies between two steps, or a check it makes before the next one
\* fails (a stale preparation, say).
Crash ==
    /\ pc # "closed" /\ Break /\ Closed
    /\ UNCHANGED <<files, history>>

PowerLoss ==
    /\ Break /\ Closed
    /\ root' \in rootDisk /\ rootDisk' = {root'}
    /\ art' \in artDisk /\ artDisk' = {art'}
    /\ UNCHANGED <<dirs, history>>

Steps ==
    \/ publish_governance \/ publish_image \/ publish_selector
    \/ open \/ recover_pending_purge \/ erase_next
    \/ sweep \/ write_floor \/ retire_intent

Next ==
    \/ \E p \in Populations : initialize(p) \/ advance(p)
    \/ \E a \in Assets : commit_prepared_purge(a)
    \/ Steps \/ Crash \/ PowerLoss

\* A store that is closed is opened again, and what an open or a publication has
\* begun goes on.
Spec == Init /\ [][Next]_vars /\ WF_vars(Steps)

-----------------------------------------------------------------------------
(* Properties *)

TypeOK ==
    /\ pc \in {"closed", "gov", "img", "select", "open", "recover", "erase_img", "erase_gov",
               "sweep_img", "sweep_gov", "floor", "retire", "owner"}
    /\ own \in Selectors /\ job \in Populations
    /\ dirs \in {"absent", "made"}
    /\ root \in rootDisk /\ rootDisk \subseteq Roots
    /\ art \in artDisk /\ artDisk \subseteq Artifacts
    /\ acked \in Selectors
    /\ promised \subseteq Assets /\ breaks \in 0 .. MaxBreaks

\* Whatever was interrupted and whatever a power loss takes away, the selector
\* names a generation both of whose artifacts are whole and match it.
SelectedReadable ==
    \A r \in rootDisk, f \in artDisk : r.sel # NoSelector => Readable(r.sel, f)

\* The checks of recover_pending_purge never refuse what an interruption leaves.
RecoveryAccepts == pc = "recover" => NothingPending \/ BaseSelected \/ TargetSelected

\* A generation that was returned to a caller stays selected until a later one is.
AckedGenerationKept ==
    \A r \in rootDisk : r.sel.gen > acked.gen \/ r.sel = acked

\* An owner is returned only after every purge whose intent was durable went
\* through: the assets are tombstones, and no file that is left, nor one a power
\* loss could bring back, holds anything of their payload.
PurgedPayloadGone ==
    pc = "owner" => \A a \in promised :
        /\ own.pop[a] = "purged"
        /\ \A f \in artDisk : \A g \in Gens : f["img"][g].pop[a] \in {"absent", "purged"}

\* A purge whose intent is durable is completed, if not by its caller then by
\* the opens that follow.
PurgeCompletes ==
    \A a \in Assets : a \in promised ~> (pc = "owner" /\ own.pop[a] = "purged")
=============================================================================
