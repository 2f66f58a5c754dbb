----------------------------- MODULE ClaimCounter ---------------------------
(***************************************************************************)
(* The vendor's claim counter: one-time codes become signed tokens, each   *)
(* bound to one machine.  The ledger is a file, vault.json.  The daemon    *)
(* keeps a copy in memory, compares the file's fingerprint before a claim, *)
(* and writes the whole copy back after one; the PHP endpoint reads and    *)
(* writes the file under a lock.  A vendor runs one of the two.  The admin *)
(* tool loads the file, edits one entry and saves it, with no lock.        *)
(*                                                                         *)
(* Claims take turns (the daemon's mutex, the endpoint's flock); every     *)
(* read and write of the file is a step, so the admin tool's saves land    *)
(* between any two of them.  A fingerprint is the content it is taken of.  *)
(* Malformed requests and the rate limit refuse and change nothing here.   *)
(***************************************************************************)
EXTENDS Integers

CONSTANTS
    Codes, Machines,
    MaxNow,     \* bound: the clock
    MaxEdits,   \* bound: what the operator does to the file
    MaxFaults,  \* bound: writes that fail
    MaxCrashes  \* bound: ends of the daemon, and power losses

VARIABLES
    endpoint,  \* "daemon" or "php"
    proc,      \* the daemon: "up", "down"
    mem,       \* its vault
    seen,      \* its vault_seen
    pc, req,   \* the claim that is handled
    file,      \* vault.json as it is visible
    onDisk,    \* the contents one of which a power loss leaves
    copy,      \* the vault the admin tool has loaded
    now,
    tokens,    \* tokens that were disclosed
    arms,      \* history: how often each code was re-armed
    revoked,   \* history: codes whose revocation was saved
    born,      \* history: codes that were handed out
    raced,     \* history: an edit met a claim, or a file that had changed
    late,      \* history: a save failed after its rename
    undone,    \* history: a power loss took back a write that was not synced
    removed,   \* history: the file was deleted
    edits, faults, crashes

daemon == <<proc, mem, seen>>
ledger == <<file, onDisk>>
history == <<arms, revoked, born, raced, late, undone, removed>>
vars == <<endpoint, daemon, pc, req, ledger, copy, now, tokens, history, edits, faults, crashes>>

Nobody == 0
Entry(status) == [status |-> status, machine |-> Nobody, claimed |-> 0]
All(status) == [c \in Codes |-> Entry(status)]
Empty == All("absent")
Gone == All("gone")      \* no file
Torn == All("torn")      \* a file whose content never reached the disk
Unread == All("unread")  \* no fingerprint, nothing loaded
Loads(f) == f \notin {Gone, Torn}
fingerprint(f) == IF f = Gone THEN Unread ELSE f
NoRequest == [code |-> 0, machine |-> Nobody, at |-> 0, barred |-> FALSE]

Init ==
    LET c == CHOOSE k \in Codes : TRUE IN
        /\ endpoint \in {"daemon", "php"}
        /\ file = [Empty EXCEPT ![c] = Entry("unclaimed")] /\ onDisk = {file} /\ born = {c}
        /\ proc = IF endpoint = "daemon" THEN "up" ELSE "down"
        /\ mem = IF proc = "up" THEN file ELSE Empty
        /\ seen = Unread /\ pc = "idle" /\ req = NoRequest /\ copy = Unread
        /\ now = 0 /\ tokens = {} /\ arms = [k \in Codes |-> 0] /\ revoked = {}
        /\ raced = FALSE /\ late = FALSE /\ undone = FALSE /\ removed = FALSE
        /\ edits = 0 /\ faults = 0 /\ crashes = 0

-----------------------------------------------------------------------------
(* The vault: Vault::claim, vault_claim, Vault::save *)

\* A code that was sold is served again to its own machine only.
Serves(v, c, m) ==
    \/ v[c].status = "unclaimed"
    \/ v[c].status = "claimed" /\ v[c].machine = m

Claimed(v, c, m, t) ==
    IF v[c].status = "unclaimed"
    THEN [v EXCEPT ![c] = [status |-> "claimed", machine |-> m, claimed |-> t]]
    ELSE v

\* write_durable: the rename follows the sync of the content; an error after
\* it leaves the new file visible.
Saved(v) == file' = v /\ onDisk' = {v} /\ UNCHANGED <<faults, late>>
SaveFails(v) ==
    /\ faults < MaxFaults /\ faults' = faults + 1
    /\ \/ UNCHANGED <<file, onDisk, late>>
       \/ file' = v /\ onDisk' = onDisk \cup {v} /\ late' = TRUE

-----------------------------------------------------------------------------
(* The daemon *)

Ends == pc' = "idle" /\ req' = NoRequest
Request(c, m) ==
    req' = [code |-> c, machine |-> m, at |-> now, barred |-> c \in revoked]
Result == Claimed(mem, req.code, req.machine, req.at)

\* Mutant: the vault in memory is trusted whatever the file holds.
handle_claim_stale(c, m) ==
    /\ proc = "up" /\ pc = "idle" /\ Request(c, m)
    /\ pc' = "claim"
    /\ UNCHANGED <<endpoint, daemon, ledger, copy, now, tokens, history, edits, faults, crashes>>

\* handle_claim up to the first fingerprint of refresh_vault.
handle_claim(c, m) ==
    /\ proc = "up" /\ pc = "idle" /\ Request(c, m)
    /\ pc' = IF fingerprint(file) \in {Unread, seen} THEN "claim" ELSE "load"
    /\ UNCHANGED <<endpoint, daemon, ledger, copy, now, tokens, history, edits, faults, crashes>>

\* refresh_vault reads the file again to load it; a file it cannot load refuses.
refresh_vault ==
    /\ pc = "load"
    /\ IF Loads(file) THEN mem' = file /\ pc' = "stamp" /\ UNCHANGED req
       ELSE Ends /\ UNCHANGED mem
    /\ UNCHANGED <<endpoint, proc, seen, ledger, copy, now, tokens, history, edits, faults, crashes>>

\* The fingerprint that is remembered is taken of the file by a third read,
\* after a load and after a save.
Stamp ==
    /\ pc \in {"stamp", "stamp_saved"}
    /\ seen' = fingerprint(file)
    /\ pc' = IF pc = "stamp" THEN "claim" ELSE "sign"
    /\ UNCHANGED <<endpoint, proc, mem, req, ledger, copy, now, tokens, history, edits, faults,
                   crashes>>

ClaimRefused ==
    /\ pc = "claim" /\ ~Serves(mem, req.code, req.machine) /\ Ends
    /\ UNCHANGED <<endpoint, daemon, ledger, copy, now, tokens, history, edits, faults, crashes>>

\* Nothing changed and there is a file: nothing is written.
ClaimReissued ==
    /\ pc = "claim" /\ Serves(mem, req.code, req.machine)
    /\ Result = mem /\ file # Gone
    /\ pc' = "sign"
    /\ UNCHANGED <<endpoint, daemon, req, ledger, copy, now, tokens, history, edits, faults,
                   crashes>>

\* Mutant: the vault in memory keeps a claim that could not be saved.
ClaimSavesKept ==
    /\ pc = "claim" /\ Serves(mem, req.code, req.machine)
    /\ Result # mem \/ file = Gone
    /\ mem' = Result
    /\ \/ Saved(Result) /\ pc' = "stamp_saved" /\ UNCHANGED req
       \/ SaveFails(Result) /\ Ends
    /\ UNCHANGED <<endpoint, proc, seen, copy, now, tokens, arms, revoked, born, raced, undone,
                   removed, edits, crashes>>

\* A save that fails leaves the vault in memory as it was before the claim.
ClaimSaves ==
    /\ pc = "claim" /\ Serves(mem, req.code, req.machine)
    /\ Result # mem \/ file = Gone
    /\ \/ Saved(Result) /\ mem' = Result /\ pc' = "stamp_saved" /\ UNCHANGED req
       \/ SaveFails(Result) /\ Ends /\ UNCHANGED mem
    /\ UNCHANGED <<endpoint, proc, seen, copy, now, tokens, arms, revoked, born, raced, undone,
                   removed, edits, crashes>>

\* The token is signed for the machine that asked and the stored expiry.
Disclosed(v) ==
    tokens' = tokens \cup {[code |-> req.code, machine |-> req.machine,
                            claimed |-> v[req.code].claimed, arm |-> arms[req.code],
                            barred |-> req.barred]}
Sign ==
    /\ pc = "sign" /\ Disclosed(mem) /\ Ends
    /\ UNCHANGED <<endpoint, daemon, ledger, copy, now, history, edits, faults, crashes>>

\* main: a vault that does not load keeps the daemon down.
Start ==
    /\ endpoint = "daemon" /\ proc = "down" /\ Loads(file)
    /\ proc' = "up" /\ mem' = file /\ seen' = Unread
    /\ UNCHANGED <<endpoint, pc, req, ledger, copy, now, tokens, history, edits, faults, crashes>>

Down == proc' = "down" /\ mem' = Empty /\ seen' = Unread /\ Ends
Die ==
    /\ crashes < MaxCrashes /\ crashes' = crashes + 1
    /\ proc = "up" \/ pc # "idle"
    /\ Down
    /\ UNCHANGED <<endpoint, ledger, copy, now, tokens, history, edits, faults>>

\* The admin tool that runs dies with the machine.
PowerLoss ==
    /\ crashes < MaxCrashes /\ crashes' = crashes + 1
    /\ Down /\ copy' = Unread
    /\ \E f \in onDisk :
          /\ file' = f /\ onDisk' = {f}
          /\ undone' = (undone \/ (f # file /\ (late \/ endpoint = "php" \/ removed)))
    /\ UNCHANGED <<endpoint, now, tokens, arms, revoked, born, raced, late, removed, edits, faults>>

-----------------------------------------------------------------------------
(* The PHP endpoint: handle_claim, under the lock *)

php_read(c, m) ==
    /\ endpoint = "php" /\ pc = "idle" /\ Loads(file) /\ Serves(file, c, m)
    /\ Request(c, m) /\ mem' = Claimed(file, c, m, now) /\ pc' = "php_write"
    /\ UNCHANGED <<endpoint, proc, seen, ledger, copy, now, tokens, history, edits, faults, crashes>>

\* A sibling is written and renamed, neither it nor the directory is synced.
php_write ==
    /\ pc = "php_write" /\ mem' = Empty /\ Ends
    /\ \/ /\ file' = mem /\ onDisk' = onDisk \cup {mem, Torn}
          /\ Disclosed(mem) /\ UNCHANGED faults
       \/ faults < MaxFaults /\ faults' = faults + 1 /\ UNCHANGED <<ledger, tokens>>
    /\ UNCHANGED <<endpoint, proc, seen, copy, now, history, edits, crashes>>

-----------------------------------------------------------------------------
(* The operator *)

\* load_or_new: `new` starts an empty vault when there is no file.
AdminLoads ==
    /\ copy = Unread /\ edits < MaxEdits /\ file # Torn
    /\ copy' = IF file = Gone THEN Empty ELSE file
    /\ UNCHANGED <<endpoint, daemon, pc, req, ledger, now, tokens, history, edits, faults, crashes>>

\* The edit did not meet a claim and lost no other write.
Alone == pc = "idle" /\ (file = copy \/ (file = Gone /\ copy = Empty))

AdminSaves(c, v) ==
    /\ copy # Unread /\ edits' = edits + 1 /\ copy' = Unread
    /\ raced' = (raced \/ ~Alone)
    /\ \/ Saved(v) \/ SaveFails(v)
    /\ UNCHANGED <<endpoint, daemon, pc, req, now, tokens, undone, removed, crashes>>

cmd_new(c) ==
    /\ copy # Unread /\ c \notin born /\ born' = born \cup {c}
    /\ AdminSaves(c, [copy EXCEPT ![c] = Entry("unclaimed")])
    /\ UNCHANGED <<arms, revoked>>

rearm(c) ==
    /\ copy # Unread /\ copy[c].status # "absent"
    /\ AdminSaves(c, [copy EXCEPT ![c] = Entry("unclaimed")])
    /\ arms' = [arms EXCEPT ![c] = @ + 1] /\ revoked' = revoked \ {c}
    /\ UNCHANGED born

\* The owner stays in the entry; a save that fails promises nothing.
revoke(c) ==
    /\ copy # Unread /\ copy[c].status # "absent"
    /\ AdminSaves(c, [copy EXCEPT ![c].status = "revoked"])
    /\ revoked' = IF faults' = faults THEN revoked \cup {c} ELSE revoked
    /\ UNCHANGED <<arms, born>>

\* What the daemon has not read of a file is lost with it.
RemoveFile ==
    /\ edits < MaxEdits /\ edits' = edits + 1 /\ file # Gone
    /\ file' = Gone /\ onDisk' = onDisk \cup {Gone} /\ removed' = TRUE
    /\ raced' = (raced \/ pc # "idle" \/ (proc = "up" /\ file # mem))
    /\ UNCHANGED <<endpoint, daemon, pc, req, copy, now, tokens, arms, revoked, born, late, undone,
                   faults, crashes>>

Tick ==
    /\ now < MaxNow /\ now' = now + 1
    /\ UNCHANGED <<endpoint, daemon, pc, req, ledger, copy, tokens, history, edits, faults, crashes>>

Next ==
    \/ \E c \in Codes, m \in Machines : handle_claim(c, m) \/ php_read(c, m)
    \/ refresh_vault \/ Stamp \/ ClaimRefused \/ ClaimReissued \/ ClaimSaves \/ Sign
    \/ php_write \/ Start \/ Die \/ PowerLoss
    \/ AdminLoads \/ \E c \in Codes : cmd_new(c) \/ rearm(c) \/ revoke(c)
    \/ RemoveFile \/ Tick

Spec == Init /\ [][Next]_vars

-----------------------------------------------------------------------------

\* What the properties excuse stays excused: such states need no successors.
Excused == raced \/ undone
Open == ~Excused

\* Single seat (Vault::claim, Counter::handle_claim, claim.php): until the
\* vendor re-arms a code, all its tokens are for one machine and one expiry,
\* through failed saves, restarts and deletions of the file.  An edit that meets
\* a claim, or saves over a write it never read, is excused as refresh_vault's
\* comment does, and so is a power loss that takes back an unsynced write.
SeatSoldOnce ==
    Excused \/
    \A t, u \in tokens :
        t.code = u.code /\ t.arm = u.arm => t.machine = u.machine /\ t.claimed = u.claimed

\* A claim that comes in after the admin tool has saved the code's revocation
\* gets no token: refresh_vault adopts the edit, no later claim's save erases
\* it.  The same two cases are excused.
RevokedNotSold == Excused \/ \A t \in tokens : ~t.barred

\* "The flip must survive a crash before the token is disclosed" (Vault::save):
\* of a daemon's tokens, each is recorded in every file a power loss may leave.
TokenSurvives ==
    endpoint = "daemon" /\ ~raced /\ ~removed =>
        \A t \in tokens : t.arm = arms[t.code] =>
            \A f \in onDisk : f[t.code].machine = t.machine
=============================================================================
