----------------------------- MODULE KeyRotation ----------------------------
(***************************************************************************)
(* The envelopes of one tenant's provider store and their rotation to      *)
(* another key: rotate_encryption and resume_rotation, the open that       *)
(* resumes one, and the advances in between (GenerationStore has what the  *)
(* generations say; here a file is the key that seals it).  One process at *)
(* a time holds the lock.  The operator configures the active key, and may *)
(* retire the others once a rotation to it has been answered.              *)
(***************************************************************************)
EXTENDS Naturals

CONSTANTS
    Keys,           \* key ids of the key service
    FirstKey,       \* the active key when the store was provisioned
    MaxGen,         \* bound: generations
    MaxBreaks       \* bound: errors, deaths and power losses

VARIABLES
    now,            \* what each file holds
    disk,           \* what a power loss may leave of it: a set
    temps,          \* temporary envelopes left behind, by directory and key
    ghosts,         \* those a power loss may leave
    pc,             \* "down", or where the process is
    job,            \* "rotate" while it is in rotate_encryption, else "open"
    active,         \* the configured key
    retired,        \* keys the key service no longer has
    receipt,        \* the key of the last answered rotation since `active` was set
    todo,           \* managed artifacts still to be rewrapped
    breaks

files == <<now, disk, temps, ghosts>>
config == <<active, retired, receipt>>
vars == <<files, pc, job, config, todo, breaks>>

-----------------------------------------------------------------------------

Dirs == {"root", "image", "governance"}
Selector == <<"root", 0>>
Floor == <<"root", 1>>
Intent == <<"root", 2>>
Files == {Selector, Floor, Intent} \cup ({"image", "governance"} \X (0 .. MaxGen))

\* A file is an envelope under a key, cut short, or not there; a selector also
\* names a generation.
Body == [key : Keys \cup {"missing", "torn"}, gen : 0 .. MaxGen]
Sealed(k, g) == [key |-> k, gen |-> g]
Missing == Sealed("missing", 0)
Torn == Sealed("torn", 0)

Present(f) == now[f].key # "missing"
\* EnvelopeCipher::open: whole, and under a key that can still be had.
Opens(f) == now[f].key \in Keys \ retired
\* The generation of the owner: it holds the lock, so the selector stands.
gen == now[Selector].gen
\* What an open reads: open_v2, and validate_floor.
Named == {Selector, <<"governance", gen>>, <<"image", gen>>} \cup {f \in {Floor} : Present(f)}

TypeOK ==
    /\ now \in [Files -> Body] /\ disk \in [Files -> SUBSET Body]
    /\ temps \subseteq Dirs \X Keys /\ ghosts \subseteq Dirs \X Keys
    /\ pc \in {"down", "resume", "rewrap", "root", "image", "governance", "drop", "settle",
               "open", "write_governance", "write_image", "select"}
    /\ job \in {"open", "rotate"}
    /\ active \in Keys /\ retired \subseteq Keys /\ receipt \in Keys \cup {"none"}
    /\ todo \subseteq Files /\ breaks \in 0 .. MaxBreaks

\* initialize_encrypted, with or without a purge behind it.
Init ==
    /\ \E floor \in {"missing", FirstKey} :
          now = [f \in Files |->
                   IF f = Floor THEN Sealed(floor, 0)
                   ELSE IF f = Intent \/ (f # Selector /\ f[2] > 0) THEN Missing
                   ELSE Sealed(FirstKey, 0)]
    /\ disk = [f \in Files |-> {now[f]}]
    /\ temps = {} /\ ghosts = {}
    /\ pc = "down" /\ job = "open"
    /\ active = FirstKey /\ retired = {} /\ receipt = "none"
    /\ todo = {} /\ breaks = 0

-----------------------------------------------------------------------------
(* Files *)

\* sync_directory, and what it makes of the two sets.
Synced(n, d) == [f \in Files |-> IF f[1] = d THEN {n[f]} ELSE disk[f]]
SyncedTemps(t, d) == {x \in ghosts : x[1] # d} \cup {x \in t : x[1] = d}
Sync(d) ==
    /\ disk' = Synced(now', d)
    /\ ghosts' = SyncedTemps(temps', d)

\* The process is gone, or its owner dropped; an error, a death.
Down == pc' = "down" /\ job' = "open" /\ todo' = {}
Break == breaks < MaxBreaks /\ breaks' = breaks + 1 /\ Down
Refuse == Down /\ UNCHANGED <<files, breaks>>
Goto(next) == pc' = next /\ UNCHANGED breaks

\* atomic_raw and write_selector: a synced temporary file, a rename, a sync.
Replace(f, b) ==
    /\ now' = [now EXCEPT ![f] = b]
    /\ temps' = temps
    /\ Sync(f[1])
ReplaceBreaks(f, b) ==
    /\ Break
    /\ \/ temps' \in {temps, temps \cup {<<f[1], active>>}} /\ UNCHANGED <<now, disk>>
       \/ /\ now' = [now EXCEPT ![f] = b]
          /\ disk' = [disk EXCEPT ![f] = @ \cup {b}]
          /\ temps' = temps
    /\ ghosts' = ghosts \cup {<<f[1], active>>}

-----------------------------------------------------------------------------
(* Opening, and resuming a rotation *)

\* open_with_cipher takes the lock.
Open ==
    /\ pc = "down"
    /\ Goto("resume")
    /\ UNCHANGED <<files, job, config, todo>>

\* managed_artifacts; temporary names are passed over.
Managed == {f \in Files \ {Intent} : Present(f)}

\* Mutant: what an interrupted rewrap left behind is taken for tampering.
ResumableTidy ==
    Opens(Intent) /\ now[Intent].key = active /\ Selector \in Managed /\ temps = {}

\* resume_rotation: the intent is for the configured key, or nothing is opened.
Resumable == Opens(Intent) /\ now[Intent].key = active /\ Selector \in Managed
Resume ==
    /\ pc = "resume"
    /\ UNCHANGED config
    /\ \/ ~Present(Intent) /\ Goto("settle") /\ UNCHANGED <<files, job, todo>>
       \/ /\ Present(Intent) /\ Resumable
          /\ todo' = Managed /\ Goto("rewrap") /\ UNCHANGED <<files, job>>
       \/ Present(Intent) /\ ~Resumable /\ Refuse

\* The order of the paths: governance, selector, images, floor.
Before(f, g) ==
    \/ f[1] = g[1] /\ f[2] < g[2]
    \/ f[1] = "governance" /\ g[1] # "governance"
    \/ f = Selector /\ g[1] = "image"
    \/ f[1] = "image" /\ g = Floor

\* One round of the loop: EnvelopeCipher::rewrap authenticates, and returns what
\* is already under the active key as it is.
Rewrap(f) ==
    /\ pc = "rewrap" /\ f \in todo /\ \A g \in todo : ~Before(g, f)
    /\ UNCHANGED config
    /\ \/ ~Opens(f) /\ Refuse
       \/ /\ Opens(f) /\ now[f].key = active
          /\ todo' = todo \ {f} /\ UNCHANGED <<files, pc, job, breaks>>
       \/ /\ Opens(f) /\ now[f].key # active
          /\ LET b == Sealed(active, now[f].gen)
             IN  \/ Replace(f, b) /\ todo' = todo \ {f} /\ UNCHANGED <<pc, job, breaks>>
                 \/ ReplaceBreaks(f, b)
Rewrapped ==
    /\ pc = "rewrap" /\ todo = {}
    /\ Goto("root")
    /\ UNCHANGED <<files, job, config, todo>>

\* Mutant: the directory is not synced.
CleanUnsynced(d, next) ==
    /\ pc = d
    /\ temps' = {x \in temps : x[1] # d}
    /\ UNCHANGED <<now, disk, ghosts, job, config, todo>>
    /\ Goto(next)

\* The temporary files of one directory are removed and it is synced.
Clean(d, next) ==
    /\ pc = d
    /\ temps' = {x \in temps : x[1] # d}
    /\ UNCHANGED <<now, config>>
    /\ \/ Sync(d) /\ Goto(next) /\ UNCHANGED <<job, todo>>
       \/ Break /\ UNCHANGED <<disk, ghosts>>

\* The intent is removed last.
DropIntent ==
    /\ pc = "drop"
    /\ now' = [now EXCEPT ![Intent] = Missing]
    /\ UNCHANGED <<temps, config>>
    /\ \/ Sync("root") /\ Goto("settle") /\ UNCHANGED <<job, todo>>
       \/ Break /\ disk' = [disk EXCEPT ![Intent] = @ \cup {Missing}] /\ UNCHANGED ghosts

\* sync_visible_selector, and the generation it names is read.  A rotation has
\* dropped its owner and opens anew, without an intent.
Settle ==
    /\ pc = "settle"
    /\ UNCHANGED <<now, temps, active, retired, breaks>>
    /\ \/ /\ Present(Selector) /\ Sync("root")
          /\ \A f \in Named : Opens(f)
          /\ pc' = "open" /\ job' = "open" /\ UNCHANGED todo
          /\ receipt' = IF job = "rotate" THEN active ELSE receipt
       \/ /\ Present(Selector) /\ Sync("root")
          /\ \E f \in Named : ~Opens(f)
          /\ Down /\ UNCHANGED receipt
       \/ ~Present(Selector) /\ Down /\ UNCHANGED <<disk, ghosts, receipt>>

-----------------------------------------------------------------------------
(* What an owner does *)

\* rotate_encryption publishes its intent.
Rotate ==
    /\ pc = "open" /\ ~Present(Intent)
    /\ UNCHANGED config
    /\ LET b == Sealed(active, 0)
       IN  \/ Replace(Intent, b) /\ Goto("resume") /\ job' = "rotate" /\ UNCHANGED todo
           \/ ReplaceBreaks(Intent, b)

\* advance: publish_generation, and an open.
Advance ==
    /\ pc = "open" /\ gen < MaxGen
    /\ Goto("write_governance")
    /\ UNCHANGED <<files, job, config, todo>>

\* new_or_exact_artifact: a file found there must open (and say the same).
Write(kind, here, next) ==
    /\ pc = here
    /\ UNCHANGED config
    /\ LET f == <<kind, gen + 1>>
           b == Sealed(active, gen + 1)
       IN  \/ Present(f) /\ ~Opens(f) /\ Refuse
           \/ /\ Present(f) /\ Opens(f)
              /\ UNCHANGED <<now, temps, job, todo>> /\ Sync(kind) /\ Goto(next)
           \/ ~Present(f) /\ Replace(f, b) /\ Goto(next) /\ UNCHANGED <<job, todo>>
           \/ /\ ~Present(f) /\ Break
              /\ now' \in {[now EXCEPT ![f] = Torn], [now EXCEPT ![f] = b]}
              /\ disk' = [disk EXCEPT ![f] = @ \cup {Torn, b}]
              /\ UNCHANGED <<temps, ghosts>>

\* replace_selector
Select ==
    /\ pc = "select"
    /\ UNCHANGED config
    /\ LET b == Sealed(active, gen + 1)
       IN  \/ Replace(Selector, b) /\ Goto("resume") /\ UNCHANGED <<job, todo>>
           \/ ReplaceBreaks(Selector, b)

Close == pc = "open" /\ Refuse /\ UNCHANGED config

-----------------------------------------------------------------------------
(* The operator, and the end of the process *)

\* Another key is made the active one; the others stay readable.
Reconfigure(k) ==
    /\ pc = "down" /\ k \in Keys \ (retired \cup {active})
    /\ active' = k /\ receipt' = "none"
    /\ UNCHANGED <<files, pc, job, retired, todo, breaks>>

\* After a complete rotation the key service may forget a key.
Retire(k) ==
    /\ receipt = active /\ k \in Keys \ (retired \cup {active})
    /\ retired' = retired \cup {k}
    /\ UNCHANGED <<files, pc, job, active, receipt, todo, breaks>>

Die ==
    /\ pc # "down" /\ Break
    /\ UNCHANGED <<files, config>>

PowerLoss ==
    /\ Break
    /\ LET loose == {f \in Files : disk[f] # {now[f]}}
       IN  \E m \in [loose -> UNION {disk[f] : f \in loose}] :
              /\ \A f \in loose : m[f] \in disk[f]
              /\ now' = [f \in Files |-> IF f \in loose THEN m[f] ELSE now[f]]
    /\ temps' \in SUBSET ghosts
    /\ disk' = [f \in Files |-> {now'[f]}]
    /\ ghosts' = temps'
    /\ UNCHANGED config

-----------------------------------------------------------------------------

Steps ==
    \/ Open \/ Resume \/ Rewrapped \/ DropIntent \/ Settle \/ Select
    \/ \E f \in Files : Rewrap(f)
    \/ Clean("root", "image") \/ Clean("image", "governance") \/ Clean("governance", "drop")
    \/ Write("governance", "write_governance", "write_image")
    \/ Write("image", "write_image", "select")

Next ==
    \/ Steps
    \/ Rotate \/ Advance \/ Close \/ Die \/ PowerLoss
    \/ \E k \in Keys : Reconfigure(k) \/ Retire(k)

Spec == Init /\ [][Next]_vars /\ WF_vars(Steps)

-----------------------------------------------------------------------------

\* A retired key is not needed: nothing that is in the tenant's directories, or
\* that a power loss can bring back there, is sealed under it (rotate_encryption
\* answers only when all artifacts are rewrapped and that is durable).
RetiredKeyUnneeded ==
    /\ \A f \in Files : \A b \in disk[f] \cup {now[f]} : b.key \notin retired
    /\ \A x \in temps \cup ghosts : x[2] \notin retired

\* What the documentation leaves to the operator: an intent for another key than
\* the configured one, or an artifact that an interrupted advance cut short.
NeedsRepair ==
    Present(Intent) /\ (now[Intent].key # active \/ \E f \in Files : now[f] = Torn)

\* A store that is down is open again some time, whatever interrupted a rotation
\* (resume_rotation), unless it needs repair.
RotationResumes == pc = "down" ~> (pc = "open" \/ NeedsRepair)

-----------------------------------------------------------------------------
(* An inductive invariant for RetiredKeyUnneeded *)

\* What rotate_encryption answers for: everything in the tenant's directories is
\* under the active key, now and after a power loss.
Converged ==
    /\ \A f \in Files : \A b \in disk[f] \cup {now[f]} : b.key \in {active, "missing", "torn"}
    /\ \A x \in temps \cup ghosts : x[2] = active

\* A directory whose temporary files are gone and which is synced.
Cleaned(d) ==
    /\ \A f \in Files : f[1] = d => disk[f] = {now[f]}
    /\ \A x \in temps \cup ghosts : x[1] # d

\* The keys of the files against the operator's: an answered rotation converged.
KeysInv ==
    /\ RetiredKeyUnneeded /\ active \notin retired
    /\ receipt \in {"none", active} /\ (receipt = active => Converged)

\* What each phase of a rotation has achieved: the loop rewraps file by file, the
\* clean-up settles directory by directory, and only then the intent goes.
PhasesInv ==
    LET rotated == pc = "settle" /\ job = "rotate" IN
    /\ pc \in {"down", "open", "write_governance", "write_image", "select"} => job = "open"
    /\ pc = "resume" /\ job = "rotate" => Present(Intent)
    /\ pc \in {"write_governance", "write_image", "select"} => gen < MaxGen
    /\ pc = "rewrap" => \A f \in Files \ todo : now[f].key \in {active, "missing"}
    /\ pc \in {"root", "image", "governance", "drop"} \/ rotated =>
          \A f \in Files : now[f].key \in {active, "missing"}
    /\ pc \in {"image", "governance", "drop"} \/ rotated => Cleaned("root")
    /\ pc \in {"governance", "drop"} \/ rotated => Cleaned("image")
    /\ pc = "drop" \/ rotated => Cleaned("governance")
=============================================================================
