---------------------------- MODULE MCServedTight ---------------------------
(***************************************************************************)
(* Two instances of ServedCall side by side.   The one the configuration    *)
(* describes; and, in variables of its own, a tight one: a budget for one  *)
(* of two requests, both ingests, and checkpoints of Core that fail        *)
(* between its two files.  And the adapter on the other side of the pipe,  *)
(* which delivers the turns it captured to a server with ServedCall's      *)
(* contract.  `part` says which one moves, the others rest.                *)
(***************************************************************************)
EXTENDS MCServedCall

VARIABLES
    part,
    core2, exec2, marker2, billed2, receipt2, resolved2, pc2, cur2, att2, result2,
    charged2, handle2, pending2, reply2, crashes2, faults2,
    life, turn, mem, chain, renamed, files, item, loose, passes, dpc, todo, last,
    child, srv, pipe, answers, done, billed3, acked, stored, taken, faults3, deaths

vars2 == <<core2, exec2, marker2, billed2, receipt2, resolved2, pc2, cur2, att2, result2,
           charged2, handle2, pending2, reply2, crashes2, faults2>>
vars3 == <<life, turn, mem, chain, renamed, files, item, loose, passes, dpc, todo, last,
           child, srv, pipe, answers, done, billed3, acked, stored, taken, faults3, deaths>>

Two == {r1, r2}
T == INSTANCE ServedCall WITH
        Requests <- Two, Ingests <- Two, Direct <- {}, Audits <- {}, Limit <- 1, MaxAttempts <- 3,
        MaxCrashes <- 1, MaxFaults <- 1, SplitCheckpoint <- TRUE,
        core <- core2, exec <- exec2, marker <- marker2, billed <- billed2,
        receipt <- receipt2, resolved <- resolved2, pc <- pc2, cur <- cur2, att <- att2,
        result <- result2, charged <- charged2, handle <- handle2, pending <- pending2,
        reply <- reply2, crashes <- crashes2, faults <- faults2

\* Two turns, a file that is no entry, and batches of one.
A == INSTANCE CaptureOutbox WITH
        Turns <- {1, 2}, Damaged <- {0}, Batch <- 1, MaxFaults <- 2, MaxDeaths <- 1,
        billed <- billed3, faults <- faults3

PartsInit == part \in {"wide", "tight", "adapter"} /\ Init /\ T!Init /\ A!Init

PartsNext ==
    /\ \/ part = "wide" /\ Next /\ UNCHANGED <<vars2, vars3>>
       \/ part = "tight" /\ T!Next /\ UNCHANGED <<vars, vars3>>
       \/ part = "adapter" /\ A!Next /\ UNCHANGED <<vars, vars2>>
    /\ UNCHANGED part

PartsSpec ==
    /\ PartsInit /\ [][PartsNext]_<<part, vars, vars2, vars3>>
    /\ WF_vars(part = "wide" /\ (Dispatch \/ DispatchFault \/ AfterError \/ AfterCall \/ Recover))
    /\ WF_vars2(part = "tight" /\ (T!Dispatch \/ T!DispatchFault \/ T!AfterError
                                   \/ T!AfterCall \/ T!Recover))
    /\ WF_vars3(part = "adapter" /\ A!Loop) /\ WF_vars3(part = "adapter" /\ A!Serving)
    /\ WF_vars3(part = "adapter" /\ A!Dispose) /\ WF_vars3(part = "adapter" /\ A!Apply)

\* With a budget for one request, and whatever a checkpoint that fails half way
\* does to its effect: a request is billed once, within the budget, and only
\* for an effect; and no billed ingest loses its skill projection.
TightSafe == T!BilledOnce /\ T!ProjectionNotLost

-----------------------------------------------------------------------------
(* The adapter's properties, by their names *)

\* A captured turn is ingested at most once (#capture, put, callTool), and its
\* entry leaves the outbox only when it was (#scheduleDrain, #onLine).
CapturedExactly == A!DeliveredOnce /\ A!NothingLost
\* dispose leaves no entry behind that a pass could have delivered (flush, list).
FlushDelivers == A!FlushDelivers
\* Every capture that reached the outbox is ingested in the end (#scheduleDrain).
CaptureDelivered == A!CaptureDelivered
=============================================================================
