--------------------------- MODULE CaptureOutbox ----------------------------
(***************************************************************************)
(* The DeepSeek Harness adapter: turns of a session are captured, kept in  *)
(* a directory of files (outbox.js), and delivered by a drain loop         *)
(* (bridge.js) through a child process that serves MCP calls over pipes    *)
(* (mcp-stdio.js).                                                         *)
(*                                                                         *)
(* The adapter is one event loop; a step here is what runs between two     *)
(* awaits.  Two promise chains interleave on it: captures, one after the   *)
(* other, and drain passes, one after the other.  The server is its        *)
(* contract (EffectContract), which ServedCall is shown to implement.      *)
(*                                                                         *)
(* A file is named by a digest of tenant, session and turn, a number here: *)
(* the listing is sorted by it, which says nothing about the turns' order. *)
(***************************************************************************)
EXTENDS Integers, Sequences, FiniteSets, SequencesExt

CONSTANTS
    Turns,      \* numbers, ordered as the digests that name their files
    Damaged,    \* numbers of files that are no entries (corrupt, oversized)
    Batch,      \* MAX_DRAIN_BATCH
    MaxFaults,  \* bound: errors, timeouts and deaths of the child
    MaxDeaths   \* bound: deaths of the host and power losses

VARIABLES
    life,     \* "down", "up", "closing" (dispose runs), "off" (it returned)
    turn,     \* the session's view: "new", "open", "ended"
    mem,      \* bridge.turns: "absent", "fresh", "text" (userText), "queued"
    chain,    \* capturePromise: turns whose capture has not finished
    renamed,  \* the first of them has its file in place
    files,    \* names in the outbox directory
    item,     \* request id inside a file, drawn by #capture; 0: none
    loose,    \* names whose last change no power loss has yet to respect
    passes,   \* drainPromise: passes scheduled and not begun
    dpc,      \* the drain pass: "idle", "list", "next", "await", "remove"
    todo,     \* entries of its batch
    last,     \* how the last pass of this life ended: "none", "done", "failed"
    child,    \* client.child: "none", "set", "stuck" (spawning it failed)
    srv,      \* the server process: "none", "child", "orphan"
    pipe,     \* calls written to it and not answered
    answers,  \* its answers not read yet
    done, billed, acked,   \* what the server did, see EffectContract
    stored,   \* history: turns whose put returned
    taken,    \* history: entries a power loss took before they were delivered
    faults, deaths

session == <<turn, mem>>
captures == <<chain, renamed, stored>>
disk == <<files, item, loose, taken>>
drain == <<passes, dpc, todo, last>>
client == <<child, srv, pipe, answers>>
server == <<done, billed, acked>>
bounds == <<faults, deaths>>
vars == <<life, session, captures, disk, drain, client, server, bounds>>

Draws == {1, 2}
Identities == Turns \X Draws
C == INSTANCE EffectContract WITH Requests <- Identities, Runs <- {1}

Running == life \in {"up", "closing"}
Fault == faults < MaxFaults /\ faults' = faults + 1 /\ UNCHANGED deaths

Init ==
    /\ life = "down" /\ turn = [t \in Turns |-> "new"] /\ mem = [t \in Turns |-> "absent"]
    /\ chain = <<>> /\ renamed = FALSE /\ stored = {}
    /\ files = Damaged /\ item = [t \in Turns |-> 0] /\ loose = {} /\ taken = {}
    /\ passes = 0 /\ dpc = "idle" /\ todo = <<>> /\ last = "none"
    /\ child = "none" /\ srv = "none" /\ pipe = <<>> /\ answers = <<>>
    /\ C!Init /\ faults = 0 /\ deaths = 0

-----------------------------------------------------------------------------
(* The life of the adapter (index.js) and of the child (mcp-stdio.js) *)

\* StdioMcpClient.start: the child serves; or it exits at once, as it does
\* while an earlier server still holds the store.
Spawns ==
    /\ srv = "none" /\ srv' = "child" /\ child' = "set"
    /\ UNCHANGED <<pipe, answers, bounds>>
SpawnExits == srv = "orphan" /\ child' = "none" /\ UNCHANGED <<srv, pipe, answers, bounds>>
\* It cannot be spawned at all: `error` is handled without clearing this.child.
SpawnFails == Fault /\ child' = "stuck" /\ UNCHANGED <<srv, pipe, answers>>
\* `initialize` is not answered in time; the child stays and may serve later.
SpawnSlow ==
    /\ srv = "none" /\ srv' = "child" /\ child' = "set" /\ Fault
    /\ UNCHANGED <<pipe, answers>>

\* apply: bridge.init starts the child and schedules the first pass; when the
\* start fails the adapter goes on without that pass.
Apply ==
    /\ life \in {"down", "off"} /\ life' = "up"
    /\ \/ Spawns /\ passes' = 1
       \/ (SpawnExits \/ SpawnFails \/ SpawnSlow) /\ passes' = 0
    /\ last' = "none"
    /\ UNCHANGED <<session, captures, disk, dpc, todo, server>>

\* The function apply returned: the listeners are gone, then bridge.dispose.
Dispose ==
    /\ life = "up" /\ life' = "closing"
    /\ UNCHANGED <<session, captures, disk, drain, client, server, bounds>>

\* A variant that awaits drainPromise first: not the passes captures schedule.
FlushedSwapped == chain = <<>> /\ dpc = "idle"

\* flush: first the captures, then the passes they scheduled.
Flushed == chain = <<>> /\ passes = 0 /\ dpc = "idle"

\* dispose returns: a pass that has not begun finds `disposed`; client.close ends
\* the child's input, and the child finishes what it has read or is killed.
Disposed ==
    /\ life = "closing" /\ Flushed
    /\ life' = "off" /\ child' = "none"
    /\ srv' = IF srv = "child" THEN "orphan" ELSE srv
    /\ answers' = <<>> /\ mem' = [t \in Turns |-> "absent"]
    /\ passes' = 0
    /\ turn' = [t \in Turns |-> IF turn[t] = "open" THEN "ended" ELSE turn[t]]
    /\ UNCHANGED <<captures, disk, dpc, todo, last, pipe, server, bounds>>

\* What is left of the adapter when its process is gone.
HostGone ==
    /\ life' = "down" /\ chain' = <<>> /\ renamed' = FALSE
    /\ mem' = [t \in Turns |-> "absent"]
    /\ turn' = [t \in Turns |-> IF turn[t] = "open" THEN "ended" ELSE turn[t]]
    /\ passes' = 0 /\ dpc' = "idle" /\ todo' = <<>> /\ last' = "none"
    /\ child' = "none" /\ answers' = <<>>
    /\ deaths < MaxDeaths /\ deaths' = deaths + 1

\* The host dies; the server still handles the calls that are in its pipe.
HostDies ==
    /\ Running /\ HostGone
    /\ srv' = IF srv = "child" THEN "orphan" ELSE srv
    /\ UNCHANGED <<stored, disk, pipe, server, faults>>

\* put and remove do not sync the directory: a power loss may undo either.
PowerLoss ==
    /\ HostGone /\ srv' = "none" /\ pipe' = <<>>
    /\ \E kept \in SUBSET (files \cup loose) :
          /\ files \ loose \subseteq kept
          /\ files' = kept
          /\ taken' = taken \cup (files \ kept)
    /\ loose' = {}
    /\ UNCHANGED <<stored, item, server, faults>>

-----------------------------------------------------------------------------
(* onSessionEvent and beforeStep: the turns of the sessions *)

Event == life = "up" /\ UNCHANGED <<life, disk, drain, client, server, bounds>>

TurnStart(t) ==
    /\ Event /\ turn[t] = "new"
    /\ turn' = [turn EXCEPT ![t] = "open"] /\ mem' = [mem EXCEPT ![t] = "fresh"]
    /\ UNCHANGED captures

\* user/message while the turn is active, or beforeStep after its `next()` (which,
\* when the turn is over by then, only leaves an entry in the map).
UserText(t) ==
    /\ Event /\ turn[t] = "open" /\ mem[t] \in {"absent", "fresh"}
    /\ mem' = [mem EXCEPT ![t] = "text"]
    /\ UNCHANGED <<turn, captures>>

\* turn/end: a turn with a user's text is queued for capture, once.
TurnEnd(t) ==
    /\ Event /\ turn[t] = "open"
    /\ turn' = [turn EXCEPT ![t] = "ended"]
    /\ IF mem[t] = "text"
       THEN mem' = [mem EXCEPT ![t] = "queued"] /\ chain' = Append(chain, t)
       ELSE mem' = [mem EXCEPT ![t] = "absent"] /\ UNCHANGED chain
    /\ UNCHANGED <<renamed, stored>>

\* session/disposed forgets the turns; a queued capture holds its own state.
SessionDisposed ==
    /\ life = "up" /\ \E t \in Turns : mem[t] # "absent"
    /\ mem' = [t \in Turns |-> "absent"]
    /\ turn' = [t \in Turns |-> IF turn[t] = "open" THEN "ended" ELSE turn[t]]
    /\ UNCHANGED <<life, captures, disk, drain, client, server, bounds>>

-----------------------------------------------------------------------------
(* #capture and DurableOutbox.put *)

\* The file is written under a temporary name, synced and renamed.
CapturePut ==
    /\ Running /\ chain # <<>> /\ ~renamed /\ renamed' = TRUE
    /\ files' = files \cup {Head(chain)} /\ loose' = loose \cup {Head(chain)}
    /\ item' = [item EXCEPT ![Head(chain)] = 1]
    /\ UNCHANGED <<life, session, chain, stored, taken, drain, client, server, bounds>>

CaptureFails ==
    /\ Running /\ chain # <<>> /\ ~renamed /\ Fault
    /\ chain' = Tail(chain)
    /\ UNCHANGED <<life, session, renamed, stored, disk, drain, client, server>>

\* put returned: the turn is forgotten and a pass scheduled.
CaptureDone ==
    /\ Running /\ renamed
    /\ chain' = Tail(chain) /\ renamed' = FALSE
    /\ stored' = stored \cup {Head(chain)}
    /\ mem' = [mem EXCEPT ![Head(chain)] = "absent"]
    /\ passes' = passes + 1
    /\ UNCHANGED <<life, turn, disk, dpc, todo, last, client, server, bounds>>

-----------------------------------------------------------------------------
(* #scheduleDrain: one pass *)

\* A variant whose limit also counts what it cannot deliver.
ListedAll ==
    LET names == SetToSortSeq(files, <)
    IN  SelectSeq(SubSeq(names, 1, IF Len(names) < Batch THEN Len(names) ELSE Batch),
                  LAMBDA n : n \in Turns)

\* DurableOutbox.list: the first entries in the order of their names.
Listed ==
    LET names == SetToSortSeq(files \ Damaged, <)
    IN  SubSeq(names, 1, IF Len(names) < Batch THEN Len(names) ELSE Batch)

PassBegins ==
    /\ Running /\ dpc = "idle" /\ passes > 0
    /\ passes' = passes - 1 /\ dpc' = "list"
    /\ UNCHANGED <<life, session, captures, disk, todo, last, client, server, bounds>>

PassEnds(how) == dpc' = "idle" /\ todo' = <<>> /\ last' = how /\ UNCHANGED passes

List ==
    /\ Running /\ dpc = "list"
    /\ IF Listed = <<>> THEN PassEnds("done")
       ELSE dpc' = "next" /\ todo' = Listed /\ UNCHANGED <<passes, last>>
    /\ UNCHANGED <<life, session, captures, disk, client, server, bounds>>

BatchDone ==
    /\ Running /\ dpc = "next" /\ todo = <<>> /\ dpc' = "list"
    /\ UNCHANGED <<life, session, captures, disk, passes, todo, last, client, server, bounds>>

\* A variant that draws the identity when the entry is sent.
SendRedrawn ==
    /\ Running /\ dpc = "next" /\ todo # <<>> /\ child = "set"
    /\ \E n \in Draws : pipe' = Append(pipe, [req |-> <<Head(todo), n>>, live |-> TRUE])
    /\ dpc' = "await"
    /\ UNCHANGED <<life, session, captures, disk, passes, todo, last, child, srv,
                   answers, server, bounds>>

\* callTool writes the call; its id is fresh, so no earlier answer is for it.
Send ==
    /\ Running /\ dpc = "next" /\ todo # <<>> /\ child = "set"
    /\ pipe' = Append(pipe, [req |-> <<Head(todo), item[Head(todo)]>>, live |-> TRUE])
    /\ dpc' = "await"
    /\ UNCHANGED <<life, session, captures, disk, passes, todo, last, child, srv,
                   answers, server, bounds>>

\* callTool finds no child and starts one; if that fails the pass is over.
SendStarts ==
    /\ Running /\ dpc = "next" /\ todo # <<>> /\ child = "none"
    /\ \/ Spawns /\ UNCHANGED drain
       \/ (SpawnExits \/ SpawnFails \/ SpawnSlow) /\ PassEnds("failed")
    /\ UNCHANGED <<life, session, captures, disk, server>>

SendStuck ==
    /\ Running /\ dpc = "next" /\ todo # <<>> /\ child = "stuck"
    /\ PassEnds("failed")
    /\ UNCHANGED <<life, session, captures, disk, client, server, bounds>>

\* A call nobody waits for any more.
Expired(calls) == [i \in DOMAIN calls |-> [calls[i] EXCEPT !.live = FALSE]]

\* The timer of the request: it leaves `pending` and the pass ends.
TimesOut ==
    /\ Running /\ dpc = "await" /\ Fault
    /\ pipe' = Expired(pipe) /\ answers' = Expired(answers)
    /\ PassEnds("failed")
    /\ UNCHANGED <<life, session, captures, disk, child, srv, server>>

\* A variant that takes any answer for the one it waits for.
AnswerReadAny ==
    /\ Running /\ answers # <<>> /\ answers' = Tail(answers)
    /\ IF dpc # "await" THEN UNCHANGED drain
       ELSE IF Head(answers).ok
       THEN dpc' = "remove" /\ UNCHANGED <<passes, todo, last>>
       ELSE PassEnds("failed")
    /\ UNCHANGED <<life, session, captures, disk, child, srv, pipe, server, bounds>>

\* #onLine: an answer to a request that is no longer pending is dropped;
\* `isError` and an error answer reject the call.
AnswerRead ==
    /\ Running /\ answers # <<>> /\ answers' = Tail(answers)
    /\ IF ~Head(answers).live THEN UNCHANGED drain
       ELSE IF Head(answers).ok
       THEN dpc' = "remove" /\ UNCHANGED <<passes, todo, last>>
       ELSE PassEnds("failed")
    /\ UNCHANGED <<life, session, captures, disk, child, srv, pipe, server, bounds>>

RemoveEntry ==
    /\ Running /\ dpc = "remove" /\ dpc' = "next" /\ todo' = Tail(todo)
    /\ files' = files \ {Head(todo)} /\ loose' = loose \cup {Head(todo)}
    /\ UNCHANGED <<life, session, captures, item, taken, passes, last, client, server, bounds>>

RemoveFails ==
    /\ Running /\ dpc = "remove" /\ Fault /\ PassEnds("failed")
    /\ UNCHANGED <<life, session, captures, disk, client, server>>

-----------------------------------------------------------------------------
(* The server behind the pipe *)

Here == pipe # <<>>
Rest == <<life, session, captures, disk, drain, child, bounds>>

ServerWorks ==
    /\ Here /\ srv # "none"
    /\ C!Perform(Head(pipe).req, 1) \/ C!Bill(Head(pipe).req)
    /\ UNCHANGED <<Rest, srv, pipe, answers>>

\* Settlement of what an earlier call left behind, when a server starts.
ServerSettles ==
    /\ srv = "child" /\ \E r \in Identities : C!Bill(r)
    /\ UNCHANGED <<Rest, srv, pipe, answers>>

\* An acknowledgement, or "replay suppressed": both are success.
ServerAnswers ==
    /\ Here /\ srv # "none" /\ C!Acknowledge(Head(pipe).req)
    /\ pipe' = Tail(pipe)
    /\ answers' = IF srv = "orphan" THEN <<>>
                  ELSE Append(answers, [ok |-> TRUE, live |-> Head(pipe).live])
    /\ UNCHANGED <<Rest, srv>>

\* A refusal or an error, before or after the effect.
ServerRefuses ==
    /\ Here /\ srv # "none" /\ Fault /\ pipe' = Tail(pipe)
    /\ answers' = IF srv = "orphan" THEN <<>>
                  ELSE Append(answers, [ok |-> FALSE, live |-> Head(pipe).live])
    /\ UNCHANGED <<life, session, captures, disk, drain, child, srv, server>>

\* The child exits: every pending request is rejected.
ServerDies ==
    /\ srv = "child" /\ Fault
    /\ srv' = "none" /\ pipe' = <<>> /\ answers' = <<>>
    /\ child' = "none"
    /\ IF dpc = "await" THEN PassEnds("failed") ELSE UNCHANGED drain
    /\ UNCHANGED <<life, session, captures, disk, server>>

\* A server without a host ends when its input does, or is killed before.
OrphanEnds ==
    /\ srv = "orphan" /\ (pipe = <<>> \/ life = "off")
    /\ srv' = "none" /\ pipe' = <<>>
    /\ UNCHANGED <<Rest, answers, server>>

-----------------------------------------------------------------------------

\* The event loop and the server go on as long as they can.
Loop ==
    \/ CapturePut \/ CaptureDone \/ PassBegins \/ List \/ BatchDone \/ Send
    \/ SendStarts \/ SendStuck \/ AnswerRead \/ RemoveEntry \/ Disposed
Serving == ServerWorks \/ ServerAnswers \/ OrphanEnds

Next ==
    \/ Apply \/ Dispose \/ HostDies \/ PowerLoss
    \/ \E t \in Turns : TurnStart(t) \/ UserText(t) \/ TurnEnd(t)
    \/ SessionDisposed
    \/ Loop \/ CaptureFails \/ TimesOut \/ RemoveFails
    \/ Serving \/ ServerSettles \/ ServerRefuses \/ ServerDies

\* Retained captures are retried by the next pass only.  It comes with the next
\* captured turn or the next start, so the harness is assumed to be stopped and
\* started again some time.
Fairness ==
    /\ WF_vars(Loop) /\ WF_vars(Serving)
    /\ WF_vars(Dispose) /\ WF_vars(Apply)

Spec == Init /\ [][Next]_vars /\ Fairness

-----------------------------------------------------------------------------
(* Properties *)

\* A captured turn is ingested at most once, whatever is retried: a retry after
\* a lost answer, a timeout, a death of either process or a power loss that
\* brings a removed entry back carries the identity of the first attempt
\* (#capture draws it, put keeps it, callTool only adds an attempt id).
DeliveredOnce ==
    \A t \in Turns : Cardinality({e \in done : e[1][1] = t}) <= 1

\* An entry leaves the outbox only when the server has performed and billed
\* its capture, unless a power loss took it: no late answer, error, timeout or
\* death makes the drain remove an entry that was not delivered.
NothingLost ==
    \A t \in stored \ (files \cup taken) : <<t, item[t]>> \in acked

\* When dispose has returned, every entry was delivered or the last pass of
\* this life failed or never came: captures that end while a pass runs, files
\* that are no entries and the batch limit leave nothing behind (flush,
\* #scheduleDrain, list).
FlushDelivers ==
    life = "off" /\ last = "done" => files \subseteq Damaged

\* Every capture that reached the outbox is ingested in the end, or a power
\* loss took it (#scheduleDrain, init).
CaptureDelivered ==
    \A t \in Turns : t \in stored ~> (C!HasRun(<<t, item[t]>>) \/ t \in taken)
=============================================================================
