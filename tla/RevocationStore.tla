--------------------------- MODULE RevocationStore --------------------------
(***************************************************************************)
(* Revoked credentials (ccos-enterprise-auth) and their durable form in    *)
(* the store: a journal of mutations, appended and synced before the       *)
(* deny-list in memory changes, and a snapshot of the list with the number *)
(* of journal lines it contains.  A leader holds the store; a replica only *)
(* reads the two files, one after the other, to refresh a list of its own. *)
(*                                                                         *)
(* The journal is what a reader sees of it: complete lines, a piece of a   *)
(* line after them, and how many of the lines a power loss must leave.     *)
(* One actor holds all tokens.                                             *)
(***************************************************************************)
EXTENDS Integers, Sequences, FiniteSets

CONSTANTS
    Tokens,     \* token identifiers
    Issued,     \* when each was issued
    Expires,    \* when each expires
    MaxTokens,  \* revoked tokens the list holds
    MaxNow,     \* bound: the clock
    MaxLines,   \* bound: mutations
    MaxFaults,  \* bound: I/O errors
    MaxCrashes  \* bound: ends of the leader's process

VARIABLES
    proc,     \* the leader: "up", "down"
    list,     \* its Revocations: tokens, and through which instant the actor's
    next,     \* the store's next_revocation_sequence
    poison,   \* its poisoned flag
    buffer,   \* what the BufWriter still holds of a failed line, and that line
    lines, tail, synced,   \* revocations.jsonl
    snap,     \* the snapshot file as it is visible
    disk,     \* the snapshots one of which a power loss leaves
    replica,  \* the replica's list
    read,     \* the snapshot its refresh has read, or NotReading
    now,
    must,     \* history: denials that were acknowledged, <<"token" or "actor", token>>
    due,      \* history: those of them the refresh that runs has to find
    owed,     \* history: those the last finished refresh had to find
    strained, \* history: an append failed or a power loss cut the journal
    faults, crashes

journal == <<lines, tail, synced>>
leader == <<proc, list, next, poison, buffer>>
snapshots == <<snap, disk>>
reader == <<replica, read, due, owed>>
vars == <<leader, journal, snapshots, reader, now, must, strained, faults, crashes>>

None == -1
Empty == [tokens |-> {}, through |-> None]
NoSnap == [mark |-> 0, state |-> Empty]
NotReading == [mark |-> -1, state |-> Empty]
Junk == [kind |-> "junk", of |-> 0]
Clean == [left |-> "none", line |-> Junk]

Events ==
    [kind : {"token"}, of : Tokens] \cup
    [kind : {"actor"}, of : {Issued[t] : t \in Tokens}] \cup
    [kind : {"restore"}, of : {0}]

Init ==
    /\ proc = "up" /\ list = Empty /\ next = 0 /\ poison = FALSE /\ buffer = Clean
    /\ lines = <<>> /\ tail = "whole" /\ synced = 0 /\ snap = NoSnap /\ disk = {NoSnap}
    /\ replica = Empty /\ read = NotReading /\ now = 0
    /\ must = {} /\ due = {} /\ owed = {} /\ strained = FALSE
    /\ faults = 0 /\ crashes = 0

-----------------------------------------------------------------------------
(* Revocations *)

is_revoked(l, t) == t \in l.tokens \/ Issued[t] <= l.through

prune(l) == [l EXCEPT !.tokens = {t \in @ : Expires[t] >= now}]

\* Nothing would change: the list is full, or there is nothing to restore.
Refused(l, e) ==
    \/ /\ e.kind = "token" /\ Expires[e.of] >= now /\ e.of \notin prune(l).tokens
       /\ Cardinality(prune(l).tokens) >= MaxTokens
    \/ e.kind = "restore" /\ l.through = None

\* A stale call cannot narrow a revocation in force.
Widened(old, new) == IF old < new THEN new ELSE old

apply_event(l, e) ==
    CASE e.kind = "token" /\ Expires[e.of] < now -> prune(l)
      [] e.kind = "token" /\ Expires[e.of] >= now -> [prune(l) EXCEPT !.tokens = @ \cup {e.of}]
      [] e.kind = "actor" -> [l EXCEPT !.through = Widened(@, e.of)]
      [] e.kind = "restore" -> [l EXCEPT !.through = None]

-----------------------------------------------------------------------------
(* The store: reading *)

\* A variant that replays the last line before the watermark again.
SkippedLess(s) == IF s.mark > 0 THEN s.mark - 1 ELSE 0

\* Lines whose sequence number is below the watermark are in the snapshot.
Skipped(s) == s.mark

\* The other lines, applied to the snapshot's list.
Replay(s) ==
    LET after[n \in Skipped(s) .. Len(lines)] ==
            IF n = Skipped(s) THEN prune(s.state) ELSE apply_event(after[n - 1], lines[n])
    IN  after

Readable == tail = "whole" /\ \A i \in DOMAIN lines : lines[i] # Junk

\* load_revocations_from_root refuses a torn or corrupt journal, a watermark past
\* its end, and a mutation that would not have changed the list it finds.
Loadable(s) ==
    /\ Readable /\ s.mark <= Len(lines)
    /\ \A n \in Skipped(s) + 1 .. Len(lines) : ~Refused(Replay(s)[n - 1], lines[n])

Loaded(s) == prune(Replay(s)[Len(lines)])

-----------------------------------------------------------------------------
(* The store: the leader *)

Fault == faults < MaxFaults /\ faults' = faults + 1 /\ UNCHANGED crashes
NoFault == UNCHANGED <<faults, crashes>>
Crash == crashes < MaxCrashes /\ crashes' = crashes + 1

\* A restore that is asked for ends the denials of the actor, ...
Kept(e, m) == IF e.kind = "restore" THEN {x \in m : x[1] = "token"} ELSE m
\* ... and a mutation the caller was told has succeeded is owed to it.
Denied(e) ==
    CASE e.kind = "token" -> {<<"token", e.of>>}
      [] e.kind = "actor" -> {<<"actor", t>> : t \in {u \in Tokens : Issued[u] <= e.of}}
      [] e.kind = "restore" -> {}
Asked(e) == must' = Kept(e, must) /\ due' = Kept(e, due) /\ owed' = Kept(e, owed)
Acknowledge(e) ==
    must' = Kept(e, must) \cup Denied(e) /\ due' = Kept(e, due) /\ owed' = Kept(e, owed)

Attempt(e) == proc = "up" /\ ~poison /\ Len(lines) < MaxLines /\ ~Refused(list, e)

\* A variant that writes the line and does not wait for the disk.
MutateUnsynced(e) ==
    /\ Attempt(e)
    /\ lines' = Append(lines, e) /\ next' = next + 1
    /\ list' = apply_event(list, e) /\ Acknowledge(e)
    /\ UNCHANGED <<proc, poison, buffer, tail, synced, snapshots, replica, read, now, strained>>
    /\ NoFault

\* apply_revocation_event: the line is in the file and synced, then the list changes.
Mutate(e) ==
    /\ Attempt(e)
    /\ lines' = Append(lines, e) /\ synced' = Len(lines') /\ next' = next + 1
    /\ list' = apply_event(list, e) /\ Acknowledge(e)
    /\ UNCHANGED <<proc, poison, buffer, tail, snapshots, replica, read, now, strained>>
    /\ NoFault

\* The append fails: nothing, a part or the whole of the line was written, and
\* cutting the file back works or does not; what was not written stays in the
\* BufWriter.  The list is as before.  A restore may still take effect later.
MutateFails(e) ==
    /\ Attempt(e) /\ Fault /\ poison' = TRUE /\ strained' = TRUE
    /\ \/ UNCHANGED journal /\ \E left \in {"line", "rest", "none"} :
                                  buffer' = [left |-> left, line |-> e]
       \/ tail' = "torn" /\ buffer' = [left |-> "rest", line |-> e] /\ UNCHANGED <<lines, synced>>
       \/ lines' = Append(lines, e) /\ UNCHANGED <<tail, synced, buffer>>
    /\ Asked(e)
    /\ UNCHANGED <<proc, list, next, snapshots, replica, read, now>>

\* save_revocation_snapshot: the list, and how many lines the store counted.
Snapshot(l, mark) == [mark |-> mark, state |-> l]

\* write_durable replaces the file, or fails before or after doing so.
Save(s) ==
    \/ snap' = s /\ disk' = {s} /\ NoFault
    \/ Fault /\ UNCHANGED snapshots
    \/ Fault /\ snap' = s /\ disk' = disk \cup {s}

Checkpoint ==
    /\ proc = "up" /\ snap # Snapshot(list, next) /\ Save(Snapshot(list, next))
    /\ UNCHANGED <<leader, journal, reader, now, must, strained>>

\* Store::open, load_revocations and the checkpoint of a start.  A start that
\* cannot write the checkpoint ends.
Boot ==
    /\ proc = "down" /\ Loadable(snap)
    /\ list' = Loaded(snap) /\ Save(Snapshot(Loaded(snap), Len(lines)))
    /\ proc' = IF faults' = faults THEN "up" ELSE "down"
    /\ next' = Len(lines) /\ poison' = FALSE /\ buffer' = Clean
    /\ UNCHANGED <<journal, reader, now, must, strained>>

\* An orderly end drops the store: the BufWriter writes what it still holds.
Exit ==
    /\ proc = "up" /\ proc' = "down" /\ Crash
    /\ CASE buffer.left = "none" -> UNCHANGED journal
         [] buffer.left = "line" -> lines' = Append(lines, buffer.line) /\ UNCHANGED <<tail, synced>>
         [] buffer.left = "rest" /\ tail = "torn" ->
                lines' = Append(lines, buffer.line) /\ tail' = "whole" /\ UNCHANGED synced
         [] buffer.left = "rest" /\ tail = "whole" ->
                lines' = Append(lines, Junk) /\ UNCHANGED <<tail, synced>>
    /\ buffer' = Clean
    /\ UNCHANGED <<list, next, poison, snapshots, reader, now, must, strained, faults>>

\* The process dies; inside an append it leaves a part of a line, or all of it.
Die ==
    /\ proc = "up" /\ proc' = "down" /\ Crash /\ buffer' = Clean
    /\ \/ UNCHANGED <<journal, strained, must, due, owed>>
       \/ \E e \in Events :
             /\ Attempt(e) /\ strained' = TRUE /\ Asked(e)
             /\ \/ tail' = "torn" /\ UNCHANGED lines
                \/ lines' = Append(lines, e) /\ UNCHANGED tail
             /\ UNCHANGED synced
    /\ UNCHANGED <<list, next, poison, snapshots, replica, read, now, faults>>

\* The leader's machine loses power: lines that were not synced may be gone.
PowerLoss ==
    /\ Crash /\ proc' = "down" /\ buffer' = Clean
    /\ \E n \in synced .. Len(lines) :
          /\ lines' = SubSeq(lines, 1, n) /\ synced' = n
          /\ tail' \in IF n < Len(lines) \/ tail = "torn" THEN {"whole", "torn"} ELSE {"whole"}
          /\ strained' = (strained \/ n < Len(lines))
    /\ snap' \in disk /\ disk' = {snap'}
    /\ UNCHANGED <<list, next, poison, reader, now, must, faults>>

-----------------------------------------------------------------------------
(* refresh_shared_revocations: the replica *)

ReadSnapshot ==
    /\ read = NotReading /\ read' = snap
    /\ due' = must
    /\ UNCHANGED <<leader, journal, snapshots, replica, owed, now, must, strained>> /\ NoFault

\* On any error the replica keeps the list it has.
Refresh ==
    /\ read # NotReading /\ read' = NotReading
    /\ IF Loadable(read) THEN replica' = Loaded(read) /\ owed' = due
       ELSE UNCHANGED <<replica, owed>>
    /\ UNCHANGED <<leader, journal, snapshots, due, now, must, strained>> /\ NoFault

Tick ==
    /\ now < MaxNow /\ now' = now + 1
    /\ UNCHANGED <<leader, journal, snapshots, reader, must, strained>> /\ NoFault

Next ==
    \/ \E e \in Events : Mutate(e) \/ MutateFails(e)
    \/ Checkpoint \/ Boot \/ Exit \/ Die \/ PowerLoss
    \/ ReadSnapshot \/ Refresh \/ Tick

Spec == Init /\ [][Next]_vars

-----------------------------------------------------------------------------
(* Properties *)

InForce(l, m) == is_revoked(l, m[2]) \/ (m[1] = "token" /\ Expires[m[2]] < now)

\* A denial that was acknowledged is in force on the leader until the token
\* expires or a restore of its actor is asked for, and on the replica from the
\* first refresh that began after it: through failed appends, lines a dropped
\* writer adds, any pairing of an old or new snapshot with the journal, and
\* power losses (apply_revocation_event, load_revocations_from_root).
DenialsHold ==
    /\ proc = "up" => \A m \in must : InForce(list, m)
    /\ \A m \in owed : InForce(replica, m)

\* A start refuses the two files only after an append failed or was cut short,
\* or a power loss took lines that were never synced: expiry, capacity, restores
\* and checkpoints alone never make a replay differ from what the leader did.
RevocationsLoad == ~Loadable(snap) => strained
=============================================================================
