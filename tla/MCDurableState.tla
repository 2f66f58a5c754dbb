--------------------------- MODULE MCDurableState ---------------------------
(***************************************************************************)
(* The stores a deployment recovers from, each on a small instance: the    *)
(* provider generations of a tenant; the envelopes around them; and the    *)
(* decision journal with its checkpoint under the MCP server, which will   *)
(* not start on a torn tail.  `part` says which one moves, the others      *)
(* rest.                                                                   *)
(***************************************************************************)
EXTENDS MCGenerationStore, Sequences

VARIABLES
    part,
    live, segments, governance, snapshot, at, trail, ledger, changes,
    nextSeq, nextOrd, unflushed, unflushedGov, answered, refusal, crashes, faults,
    sealed, surviving, temps, ghosts, stage, task, active, retired, receipt, left, breaks2

deployment ==
    <<live, segments, governance, snapshot, at, trail, ledger, changes,
      nextSeq, nextOrd, unflushed, unflushedGov, answered, refusal, crashes, faults>>
rotation ==
    <<sealed, surviving, temps, ghosts, stage, task, active, retired, receipt, left, breaks2>>

D == INSTANCE DurableDeployment WITH
        Tenants <- {"t1", "t2"}, FirstTenants <- {"t1"}, Limit <- 1, Threshold <- 4,
        MaxDecisions <- 4, MaxCrashes <- 2, MaxFaults <- 1, RefuseTornTail <- TRUE,
        pc <- at, acked <- answered

\* Two keys, generations 0 and 1, two interruptions.
E == INSTANCE KeyRotation WITH
        Keys <- {"k1", "k2"}, FirstKey <- "k1", MaxGen <- 1, MaxBreaks <- 2,
        now <- sealed, disk <- surviving, pc <- stage, job <- task, todo <- left, breaks <- breaks2

PartsInit ==
    /\ part \in {"generations", "rotation", "deployment"}
    /\ Init /\ D!Init
    /\ E!Init /\ (part # "rotation" => ~E!Present(E!Floor))

PartsNext ==
    /\ \/ part = "generations" /\ Next /\ UNCHANGED <<deployment, rotation>>
       \/ part = "deployment" /\ D!Next /\ UNCHANGED <<vars, rotation>>
       \/ part = "rotation" /\ E!Next /\ UNCHANGED <<vars, deployment>>
    /\ UNCHANGED part

\* Of the fairness of the three specifications what the properties need.
PartsSpec ==
    /\ PartsInit /\ [][PartsNext]_<<part, vars, deployment, rotation>>
    /\ WF_vars(part = "generations" /\ Steps)
    /\ WF_rotation(part = "rotation" /\ E!Steps)

-----------------------------------------------------------------------------
(* The properties of the deployment, by their names *)

\* An answered decision stays readable in the journal files (Store::append).
AckedStaysReadable == D!AckedStaysReadable
\* The ledgers in memory are what the trail charged, through every restart
\* (Deployment::restore).
LedgerMatchesTrail == D!LedgerMatchesTrail
\* A refused start has one of three causes (Store::open, Store::load).
RefusalExplained == D!RefusalExplained
\* The trail an auditor reads implements AuditLedger.
RefinesAuditLedger == D!RefinesAuditLedger

-----------------------------------------------------------------------------
(* The properties of the rotation, by their names *)

\* Nothing in the tenant's directories, or that a power loss can bring back, is
\* sealed under a retired key (rotate_encryption, resume_rotation).
RetiredKeyUnneeded == E!RetiredKeyUnneeded
\* A store that is down is open again some time, whatever interrupted a
\* rotation, unless the operator must repair it (resume_rotation).
RotationResumes == part = "rotation" => E!RotationResumes
=============================================================================
