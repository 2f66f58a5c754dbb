--------------------------- MODULE MCGovernedState --------------------------
(***************************************************************************)
(* What is decided and kept under the deployment's rules, each part on a   *)
(* small instance: the approval store; the deployment, once for its cells  *)
(* and model switches, once for its roles and tools, once for its variants;*)
(* the decision service, once for what the knowledge plane derives, once   *)
(* for its faults; the decision queries; the revoked credentials; and the  *)
(* vendor's claim counter.  `part` says which one moves, the others rest.  *)
(***************************************************************************)
EXTENDS MCApprovalStore, Sequences

VARIABLES
    part,
    d, clock, changes, restarts, inside, undone, base,
    kn, dn, lost,
    leader, list, next, poison, buffer, rlines, rtail, rsynced, snap, rdisk, replica, read,
    rnow, must, due, owed, strained, rfaults, rcrashes,
    endpoint, daemon, mem, seen, pc, req, file, onDisk, vcopy, vnow, tokens, arms, revoked,
    born, raced, late, reverted, removed, edits, vfaults, vcrashes

deployment == <<d, clock, changes, restarts, inside, undone, base>>
decisions == <<kn, dn, lost>>
revocations ==
    <<leader, list, next, poison, buffer, rlines, rtail, rsynced, snap, rdisk, replica, read,
      rnow, must, due, owed, strained, rfaults, rcrashes>>
counter ==
    <<endpoint, daemon, mem, seen, pc, req, file, onDisk, vcopy, vnow, tokens, arms, revoked,
      born, raced, late, reverted, removed, edits, vfaults, vcrashes>>

-----------------------------------------------------------------------------
(* The deployment: one tenant with one actor, another tenant may be added *)

Bridge == "ExperimentalBridge"
One(k, v) == [i \in {k} |-> v]
Tenant(limit) ==
    [owner |-> "org", spent |-> 0, limit |-> limit, models |-> {"m1"}, model |-> "m1",
     permitted |-> {}, active |-> {}, by |-> [v \in {"CausalChain", Bridge} |-> "none"]]
Ann == <<"org", "ann">>
Start ==
    [tenants |-> One("t", Tenant(3)),
     book |-> [roles |-> One("user", {"p"}), grants |-> {<<Ann, "user">>}],
     tools |-> One("use", "p"), acts |-> {}, strength |-> 1, store |-> <<>>, bytes |-> 0,
     audit |-> <<>>, governance |-> <<>>, serving |-> FALSE, decided |-> {}, approvals |-> {}]
Later == One("u", Tenant(2))
Grants == [i \in {"a1", "a2", "a3"} |->
             [tenant |-> "t", act |-> IF i = "a3" THEN "m2" ELSE Bridge,
              expires |-> IF i = "a2" THEN 2 ELSE 1]]

Call(id, model) ==
    [tenant |-> "t", id |-> id, who |-> Ann, tool |-> "use", model |-> model,
     variant |-> "none", cost |-> 1, strength |-> 1, flaw |-> "none", reason |-> FALSE,
     op |-> "none", key |-> "", value |-> 0]
Cell(id, op, k, v) == [Call(id, "m1") EXCEPT !.op = op, !.key = k, !.value = v]
Rule(kind, of, to) == [kind |-> kind, of |-> of, to |-> to, by |-> "none"]
By(r, id) == [r EXCEPT !.by = id]

\* Room for one cell, values up to 2; calls and changes inside a switch.
Overwrite == [Cell("3", "put", "k", 2) EXCEPT !.model = "m2"]
ModelSwitch(does, with, returns) ==
    [tenant |-> "t", model |-> "m2", approval |-> "a3", does |-> does, with |-> with,
     returns |-> returns]
CellCalls ==
    {Call("1", "m1"), Call("2", "m2")}
CellCellCalls ==
    {Cell("2", "put", "k", 1), Cell("3", "put", "k", 2),
     Cell("3", "put", "l", 1), Cell("4", "put", "k", 3), Cell("5", "remove", "k", 0),
     Cell("5", "get", "k", 0), [Cell("2", "put", "k", 2) EXCEPT !.tenant = "u"],
     [Cell("2", "put", "k", 2) EXCEPT !.flaw = "malformed"],
     [Cell("2", "put", "k", 2) EXCEPT !.tenant = "?"]}
CellRules ==
    {Rule("record_approval", "a3", ""), Rule("add_tenant", "u", ""),
     Rule("allow_model", "t", "m3")}
CellSwitches ==
    {ModelSwitch("nothing", "", "ok"), ModelSwitch("nothing", "", "fails"),
     ModelSwitch("admit", Call("2", "m2"), "ok"),
     ModelSwitch("admit", Call("2", "m2"), "fails"),
     ModelSwitch("model", "m3", "ok"), ModelSwitch("permit", "CausalChain", "ok"),
     ModelSwitch("cell", [Overwrite EXCEPT !.cost = 0], "ok"),
     ModelSwitch("cell", Overwrite, "fails"),
     [ModelSwitch("nothing", "", "ok") EXCEPT !.model = "m1"]}
C == INSTANCE Admission WITH
        Provisioned <- Start, NewTenants <- Later, Approvals <- Grants,
        Calls <- CellCalls,
        CellCalls <- CellCellCalls,
        Rules <- CellRules,
        Switches <- CellSwitches,
        MaxCells <- 1, MaxBytes <- 5, MaxValue <- 2,
        MaxDecisions <- 3, MaxChanges <- 2, MaxRestarts <- 1, MaxClock <- 0

\* Every change of the role book, of a tool and of the required strength.
RoleCalls ==
    {Call("1", "m1"),
     [Call("1", "m1") EXCEPT !.tool = "act", !.strength = 2],
     [Call("1", "m1") EXCEPT !.flaw = "mismatch", !.tenant = "u"],
     [Call("1", "m1") EXCEPT !.tenant = "?"]}
RoleRules ==
    {Rule("require_strength", "", 2), Rule("require_justification", "use", ""),
     Rule("govern_tool", "act", "q"), Rule("add_role", "admin", {"q"}),
     Rule("add_role", "user", {"p", "q"}), Rule("redefine_role", "user", {"q"}),
     Rule("redefine_role", "admin", {"p"}), Rule("remove_role", "user", ""),
     Rule("assign", "user", Ann), Rule("assign", "admin", Ann),
     Rule("unassign", "user", Ann), Rule("remove_actor", Ann, "")}
R == INSTANCE Admission WITH
        Provisioned <- Start, NewTenants <- Later, Approvals <- Grants,
        Calls <- RoleCalls,
        CellCalls <- {}, Switches <- {},
        Rules <- RoleRules,
        MaxCells <- 1, MaxBytes <- 5, MaxValue <- 2,
        MaxDecisions <- 2, MaxChanges <- 3, MaxRestarts <- 1, MaxClock <- 0

\* The variants, and the two approvals of the bridge.
VariantCalls ==
    {[Call("1", "m1") EXCEPT !.variant = Bridge, !.cost = 0],
     [Call("1", "m1") EXCEPT !.variant = "CausalChain", !.cost = 0],
     [Call("1", "m2") EXCEPT !.variant = "CausalChain", !.cost = 0]}
VariantRules ==
    {Rule("allow_model", "t", "m2"), Rule("permit", "t", "CausalChain"),
     Rule("permit", "t", Bridge), Rule("revoke", "t", Bridge),
     Rule("revoke", "t", "CausalChain"), Rule("activate", "t", "CausalChain"),
     By(Rule("activate", "t", Bridge), "a1"), By(Rule("activate", "t", Bridge), "a2"),
     Rule("deactivate", "t", "CausalChain"), Rule("record_approval", "a1", ""),
     Rule("record_approval", "a2", "")}
V == INSTANCE Admission WITH
        Provisioned <- Start, NewTenants <- Later, Approvals <- Grants,
        Calls <- VariantCalls,
        CellCalls <- {}, Switches <- {},
        Rules <- VariantRules,
        MaxCells <- 1, MaxBytes <- 5, MaxValue <- 2,
        MaxDecisions <- 2, MaxChanges <- 4, MaxRestarts <- 1, MaxClock <- 1

-----------------------------------------------------------------------------
(* The decision service *)

Op(kind, id) ==
    [kind |-> kind, id |-> id, evidence |-> {"e"}, entities |-> {"n"}, source |-> "s",
     subject |-> "n", predicate |-> "p", object |-> "x", from |-> 0, until |-> 1000000,
     conflict |-> <<"n", "p">>, prefer |-> {}]
Base == <<Op("source", "s"), Op("evidence", "e")>>
Seed == Append(Base, Op("entity", "n"))
Fact(id, object, from, until) ==
    [Op("fact", id) EXCEPT !.object = object, !.from = from, !.until = until]

\* Facts that compete (f and g, g and h) and that do not (f and h), withdrawn,
\* resolved with and without a preference, and a relation.
Claims == {Seed, <<Fact("f", "x", 0, 2)>>, <<Fact("g", "y", 1, 1000000)>>,
           <<Fact("h", "x", 2, 3)>>, <<Op("invalidate_fact", "f")>>,
           <<Op("invalidate_fact", "g")>>, <<Op("resolve", "")>>,
           <<[Op("resolve", "") EXCEPT !.prefer = {"g"}]>>,
           <<Op("relation", "r")>>, <<Op("invalidate_relation", "r")>>}
K == INSTANCE DecisionService WITH
        Batches <- Claims, Drafts <- {}, MaxLines <- 8, MaxFaults <- 0, faults <- lost

\* A batch of two facts, the withdrawal of one, and two decisions, the second
\* with the first as its precedent.
Draft(id, facts, evidence, precedents, outcome) ==
    [id |-> id, facts |-> facts, relations |-> {}, evidence |-> evidence,
     precedents |-> precedents, outcome |-> outcome]
FaultBatches ==
    {Seed, <<Fact("f", "x", 0, 2), Fact("g", "y", 1, 1000000)>>,
     <<Op("invalidate_fact", "f")>>}
FaultDrafts ==
    {Draft("d", {"f"}, {}, {}, {"e"}), Draft("c", {}, {}, {"d"}, {"e"})}
F == INSTANCE DecisionService WITH
        Batches <- FaultBatches,
        Drafts <- FaultDrafts,
        MaxLines <- 6, MaxFaults <- 3, faults <- lost

\* Every order and every precedent graph of four decisions.
QueryBatches ==
    {Base}
QueryDrafts ==
    {Draft(i, {}, {"e"}, p, {}) : i \in 1 .. 4, p \in SUBSET (1 .. 4)}
Q == INSTANCE DecisionQueries WITH
        Batches <- QueryBatches, MaxLines <- 2, MaxFaults <- 0, faults <- lost,
        Drafts <- QueryDrafts,
        Depths <- 1 .. 3, Results <- 1 .. 3

\* In the two parts without faults nothing depends on when the kernel writes a
\* directory back: it does not.
NoWriteBack == kn'.entry # "kept" /\ dn'.entry # "kept"

-----------------------------------------------------------------------------
(* The revoked credentials: room for one of two tokens, issued one after the *)
(* other; and the counter: a code on sale and one still to be handed out.    *)

L == INSTANCE RevocationStore WITH
        Tokens <- {1, 2}, Issued <- <<0, 1>>, Expires <- <<0, 1>>, MaxTokens <- 1,
        MaxNow <- 1, MaxLines <- 2, MaxFaults <- 1, MaxCrashes <- 2,
        proc <- leader, lines <- rlines, tail <- rtail, synced <- rsynced, disk <- rdisk,
        now <- rnow, faults <- rfaults, crashes <- rcrashes

S == INSTANCE ClaimCounter WITH
        Codes <- {1, 2}, Machines <- {1, 2},
        MaxNow <- 1, MaxEdits <- 1, MaxFaults <- 1, MaxCrashes <- 1,
        proc <- daemon, copy <- vcopy, now <- vnow, undone <- reverted,
        faults <- vfaults, crashes <- vcrashes

-----------------------------------------------------------------------------

deploys == part \in {"cells", "roles", "variants"}
decides == part \in {"knowledge", "decisions", "queries"}

PartsInit ==
    /\ part \in {"approvals", "cells", "roles", "variants", "knowledge", "decisions", "queries",
                "revocations", "counter"}
    /\ Init
    /\ part # "approvals" => what = CHOOSE w \in [Ids -> MCRequests] : w[1] # w[2]
    /\ IF deploys THEN C!Init
       ELSE /\ d = 0 /\ clock = 0 /\ changes = 0 /\ restarts = 0
            /\ inside = 0 /\ undone = 0 /\ base = 0
    /\ IF decides THEN K!Init ELSE kn = 0 /\ dn = 0 /\ lost = 0
    /\ L!Init
    /\ S!Init /\ (part # "counter" => endpoint = "php")

PartsNext ==
    /\ \/ part = "approvals" /\ Next /\ UNCHANGED <<deployment, decisions, revocations, counter>>
       \/ part = "cells" /\ C!Next /\ UNCHANGED <<vars, decisions, revocations, counter>>
       \/ part = "roles" /\ R!Next /\ UNCHANGED <<vars, decisions, revocations, counter>>
       \/ part = "variants" /\ V!Next /\ UNCHANGED <<vars, decisions, revocations, counter>>
       \/ part = "knowledge" /\ K!Next /\ NoWriteBack
          /\ UNCHANGED <<vars, deployment, revocations, counter>>
       \/ part = "decisions" /\ F!Next /\ UNCHANGED <<vars, deployment, revocations, counter>>
       \/ part = "queries" /\ Q!Next /\ NoWriteBack
          /\ UNCHANGED <<vars, deployment, revocations, counter>>
       \/ part = "revocations" /\ L!Next /\ UNCHANGED <<vars, deployment, decisions, counter>>
       \/ part = "counter" /\ S!Next /\ UNCHANGED <<vars, deployment, decisions, revocations>>
    /\ UNCHANGED part

PartsSpec ==
    PartsInit /\ [][PartsNext]_<<part, vars, deployment, decisions, revocations, counter>>

\* The counter's properties excuse for good what this leaves unexplored.
Explored == part = "counter" => S!Open

-----------------------------------------------------------------------------
(* The properties of the components that are not extended, by their names *)

\* The meters and the byte counter are what the journal and the cells add up to.
BooksBalance == deploys => C!BooksBalance
\* restore accepts every snapshot, unless a refused call named no possible tenant,
\* and remembers the same request ids.
RestoreFaithful == deploys => C!RestoreFaithful
\* A request id is forwarded at most once, and a Replayed answer has its reason
\* in the journal (decide, cell_call, restore).
ReplayExact == deploys => C!ReplayExact
\* A changed answer has a governance record before it, and the records tell who
\* holds which role (record_governance).
TrailExplains == deploys => C!TrailExplains
\* A model switch commits or changes nothing (switch_tenant_model).
SwitchTransacts ==
    [][part = "cells" => C!SwitchStep]_deployment

\* Competing assertions are never silently merged (assert_fact).
NoSilentContradiction == decides => K!NoSilentContradiction
\* What was known at a transaction is what the journal up to it says (facts_at).
HistoryMatchesReplay == decides => K!HistoryMatchesReplay
\* A decision's anchor can be rebuilt and what it cites was in force there.
AnchorSound == decides => K!AnchorSound
\* What an append answered Ok for is in place and synced as long as the file is
\* there, and no failure makes the decision service refuse to open (append, open).
JournalsKept == decides => K!JournalsKept
\* The bounded queries find what the precedent graph says they should, and a
\* regulatory trail is in the order in which the decisions were made.
QueriesExact == part = "queries" => Q!QueriesExact

\* An acknowledged denial is in force on the leader, and on the replica after
\* its next refresh (apply_revocation_event, load_revocations_from_root).
DenialsHold == part = "revocations" => L!DenialsHold
\* Only a failed append or a power loss makes the two files refuse to load.
RevocationsLoad == part = "revocations" => L!RevocationsLoad

\* A code is sold to one machine until it is re-armed (Vault::claim, handle_claim).
SeatSoldOnce == part = "counter" => S!SeatSoldOnce
\* A claim after the saved revocation of its code gets no token (refresh_vault).
RevokedNotSold == part = "counter" => S!RevokedNotSold
=============================================================================
