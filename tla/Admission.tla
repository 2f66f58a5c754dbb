----------------------------- MODULE Admission ------------------------------
(***************************************************************************)
(* The Deployment of ccos-enterprise-runtime: one call through every gate, *)
(* the governed cells, the rules that change while it serves, the model    *)
(* switch that runs a callback in the middle of its transaction, and a     *)
(* restart from a snapshot and the two journals.                           *)
(*                                                                         *)
(* Every method takes the deployment mutably, so methods do not interleave *)
(* with one another: an operator maps a deployment to the deployment the   *)
(* method leaves.  What composes them in unforeseen ways is the order of   *)
(* the calls and the switch's callback, which may itself use the           *)
(* deployment.                                                             *)
(*                                                                         *)
(* Left out: the bound on the audit buffers (the journals here are the     *)
(* whole ones, as the store keeps them) and the eviction of remembered     *)
(* request ids, which ReplayMemory models.                                 *)
(***************************************************************************)
EXTENDS Integers, Sequences, FiniteSets, SequencesExt, FiniteSetsExt, RoleBook

CONSTANTS
    Provisioned,       \* the deployment as it was provisioned
    NewTenants,        \* tenant -> the state it may be provisioned with later
    Calls, CellCalls,  \* the calls presented, to admit and to the cells
    Rules,             \* the rule changes an administrator may make
    Switches,          \* the model switches, each with what its callback does
    Approvals,         \* approval id -> what it approves and when it expires
    MaxCells, MaxBytes, MaxValue,
    MaxDecisions, MaxChanges, MaxRestarts, MaxClock     \* bounds

VARIABLES
    d,                 \* the deployment
    clock,
    changes, restarts,
    inside,            \* history: the decisions made by a switch's callback
    undone,            \* history: tokens a reverted switch gave back
    base               \* history: the role book when serving began

vars == <<d, clock, changes, restarts, inside, undone, base>>

Bridge == "ExperimentalBridge"
NoVariant == "none"
NoModel == "none"

-----------------------------------------------------------------------------
(* The governance journal *)

\* Mutant: anchored behind the next decision.
AnchoredBehind(x, change) ==
    [x EXCEPT !.governance = Append(@, [at |-> Len(x.audit) + 1, change |-> change])]

\* record_governance: anchored before the next decision.
record_governance(x, change) ==
    [x EXCEPT !.governance = Append(@, [at |-> Len(x.audit), change |-> change])]

\* record: nothing is journaled before the first decision.
record(x, change) == IF x.serving THEN record_governance(x, change) ELSE x

Row(kind, of, to) == [kind |-> kind, of |-> of, to |-> to]

-----------------------------------------------------------------------------
(* The gates *)

\* TenantId::validated.  "?" stands for the names it refuses, as the journal has
\* them: clamp may cut a name that is only too long to an identifier.
IsTenantId(name) == name # "?"

\* VariantPolicy::evaluate, with the bridge permitted when opted in.
evaluate(t, variant) ==
    IF variant \notin t.permitted THEN "Denied"
    ELSE IF variant = Bridge THEN "RequiresApproval" ELSE "Allowed"

\* evaluate_id: the approval is recorded, bound to this and not expired.
Approved(x, id, tenant, act, now) ==
    /\ id \in x.approvals
    /\ Approvals[id].tenant = tenant /\ Approvals[id].act = act
    /\ now < Approvals[id].expires

\* The gates of decide, in its order: the refusal, and whether it applies.
Gates(x, c, now) ==
    LET known == c.tenant \in DOMAIN x.tenants
        t == x.tenants[c.tenant]
        advanced == known /\ c.variant # NoVariant IN
    << <<"Unauthenticated", c.strength < x.strength>>,
       <<"MalformedRequest", c.flaw = "malformed">>,
       <<"ActorMismatch", c.flaw = "mismatch">>,
       <<"MalformedRequest", ~ IsTenantId(c.tenant)>>,
       <<"UnknownTenant", ~known>>,
       <<"TenantNotOwnedByOrg", known /\ t.owner # c.who[1]>>,
       <<"OutsideBoundary", c.flaw = "outside">>,
       <<"ToolNotGoverned", c.tool \notin DOMAIN x.tools>>,
       <<"PermissionDenied",
         c.tool \in DOMAIN x.tools /\ ~ allows(x.book, c.who, x.tools[c.tool])>>,
       <<"JustificationRequired", c.tool \in x.acts /\ ~ c.reason>>,
       <<"ModelNotAllowed",
         known /\ (t.model # c.model \/ c.model \notin t.models)>>,
       <<"VariantNotActivated",
         advanced /\ (c.variant \notin t.active \/ evaluate(t, c.variant) = "Denied")>>,
       <<"RequiresApproval",
         /\ advanced /\ evaluate(t, c.variant) = "RequiresApproval"
         /\ ~ Approved(x, t.by[c.variant], c.tenant, c.variant, now)>> >>

Key(c) == <<c.tenant, c.id>>

\* The first gate that refuses, then replay suppression, then the budget.
decide(x, c, now) ==
    LET refusals == SelectSeq(Gates(x, c, now), LAMBDA g : g[2])
        t == x.tenants[c.tenant] IN
    IF refusals # <<>> THEN Head(refusals)[1]
    ELSE IF Key(c) \in x.decided THEN "Replayed"
    ELSE IF t.spent + c.cost > t.limit THEN "BudgetExhausted"
    ELSE "Forwarded"

\* One call: decided, charged and remembered if forwarded, journaled.
admit(x, c, now) ==
    LET outcome == decide(x, c, now)
        forwarded == outcome = "Forwarded"
        cost == IF forwarded THEN c.cost ELSE 0 IN
    [x EXCEPT
        !.serving = TRUE,
        !.tenants = IF forwarded THEN [@ EXCEPT ![c.tenant].spent = @ + cost] ELSE @,
        !.decided = IF forwarded THEN @ \cup {Key(c)} ELSE @,
        !.audit = Append(@, [call |-> c, outcome |-> outcome, cost |-> cost])]

-----------------------------------------------------------------------------
(* The governed cells *)

CellsOf(x, tenant) == {p \in DOMAIN x.store : p[1] = tenant}

\* A cell's key counts one byte here and its value as many as it says.
BytesOf(store) == MapThenSumSet(LAMBDA p : store[p] + 1, DOMAIN store)

\* write_cell's refusal, or none.
CellRefusal(x, p, value) ==
    LET new == value + 1
        old == IF p \in DOMAIN x.store THEN x.store[p] + 1 ELSE 0 IN
    IF value > MaxValue THEN "MalformedCell"
    ELSE IF \/ p \notin DOMAIN x.store /\ Cardinality(CellsOf(x, p[1])) >= MaxCells
            \/ new >= old /\ x.bytes + (new - old) > MaxBytes
            \/ new < old /\ x.bytes < old - new
         THEN "StorageExhausted"
    ELSE "none"

write_cell(x, p, value) ==
    LET old == IF p \in DOMAIN x.store THEN x.store[p] + 1 ELSE 0 IN
    [x EXCEPT !.store = (p :> value) @@ @, !.bytes = @ + value + 1 - old]

delete_cell(x, p) ==
    IF p \notin DOMAIN x.store THEN x
    ELSE [x EXCEPT !.store = Restrict(@, DOMAIN @ \ {p}), !.bytes = @ - (x.store[p] + 1)]

\* Mutant: the refused write keeps its charge.
WithdrawnUnrefunded(x, c, refusal) ==
    [x EXCEPT !.audit = Front(@) \o <<[Last(@) EXCEPT !.cost = 0, !.outcome = refusal]>>]

\* A forwarded call the store refused: the charge is given back and the last
\* record rewritten.  The request id stays remembered.
Withdrawn(x, c, refusal) ==
    [x EXCEPT
        !.tenants[c.tenant].spent = IF @ > c.cost THEN @ - c.cost ELSE 0,
        !.audit = Front(@) \o <<[Last(@) EXCEPT !.cost = 0, !.outcome = refusal]>>]

\* put_cell, get_cell and remove_cell: admission, then the effect if forwarded.
\* A tenant name that is no identifier is answered without a record.
cell_call(x, c, now) ==
    LET y == admit(x, c, now)
        p == <<c.tenant, c.key>>
        refusal == IF c.op = "put" THEN CellRefusal(y, p, c.value) ELSE "none" IN
    IF ~ IsTenantId(c.tenant) THEN x
    ELSE IF Last(y.audit).outcome # "Forwarded" THEN y
    ELSE IF refusal # "none" THEN Withdrawn(y, c, refusal)
    ELSE IF c.op = "put" THEN write_cell(y, p, c.value)
    ELSE IF c.op = "remove" THEN delete_cell(y, p)
    ELSE y

-----------------------------------------------------------------------------
(* Rule changes *)

\* Dropping TenantRules journals what differs in the tenant's models, active
\* variants and variant policy.
Dropped(x, y, tenant) ==
    LET was == x.tenants[tenant]
        new == y.tenants[tenant]
        z   == IF was.models # new.models \/ was.active # new.active
             THEN record(y, Row("TenantRulesChanged", tenant, <<new.models, new.active>>))
             ELSE y IN
    IF was.permitted # new.permitted
    THEN record(z, Row("QPagePolicyChanged", tenant, new.permitted)) ELSE z

allow_model(x, tenant, model) ==
    Dropped(x, [x EXCEPT
        !.tenants[tenant].models = @ \cup {model},
        !.tenants[tenant].model = IF @ = NoModel THEN model ELSE @], tenant)

\* permit_variant, and opt_in_experimental_bridge for the bridge.
permit_variant(x, tenant, variant) ==
    Dropped(x, [x EXCEPT !.tenants[tenant].permitted = @ \cup {variant}], tenant)

deactivate_raw(x, tenant, variant) ==
    [x EXCEPT !.tenants[tenant].active = @ \ {variant},
              !.tenants[tenant].by[variant] = "none"]

\* Mutant: the withdrawn permission leaves the variant active.
RevokedOnly(x, tenant, variant) ==
    Dropped(x, [x EXCEPT !.tenants[tenant].permitted = @ \ {variant}], tenant)

revoke_variant(x, tenant, variant) ==
    IF variant \notin x.tenants[tenant].permitted THEN x
    ELSE Dropped(x, deactivate_raw(
            [x EXCEPT !.tenants[tenant].permitted = @ \ {variant}], tenant, variant),
            tenant)

\* activate_variant_governed, with the approval a caller supplies.
activate_variant_governed(x, tenant, variant, id, now) ==
    LET verdict == evaluate(x.tenants[tenant], variant) IN
    IF \/ verdict = "Denied"
       \/ verdict = "RequiresApproval" /\ ~ Approved(x, id, tenant, variant, now)
    THEN x
    ELSE Dropped(x, [x EXCEPT
            !.tenants[tenant].active = @ \cup {variant},
            !.tenants[tenant].by[variant] =
                IF verdict = "RequiresApproval" THEN id ELSE "none"], tenant)

deactivate_variant_governed(x, tenant, variant) ==
    Dropped(x, deactivate_raw(x, tenant, variant), tenant)

add_tenant(x, tenant) ==
    IF tenant \in DOMAIN x.tenants THEN x
    ELSE record([x EXCEPT !.tenants = (tenant :> NewTenants[tenant]) @@ @],
                Row("TenantAdded", tenant, NewTenants[tenant].owner))

record_approval(x, id) ==
    IF id \in x.approvals THEN x
    ELSE record([x EXCEPT !.approvals = @ \cup {id}], Row("ApprovalRecorded", id, ""))

\* A field that is set, journaled if that changes it.
require_strength(x, strength) ==
    IF x.strength = strength THEN x
    ELSE record([x EXCEPT !.strength = strength], Row("StrengthRequired", x.strength, strength))

require_justification(x, tool) ==
    IF tool \in x.acts THEN x
    ELSE record([x EXCEPT !.acts = @ \cup {tool}], Row("ToolMadeAdministrative", tool, ""))

govern_tool(x, tool, permission) ==
    LET y == [x EXCEPT !.tools = (tool :> permission) @@ @] IN
    IF y.tools = x.tools THEN y ELSE record(y, Row("ToolGoverned", tool, permission))

\* The role book's methods; what the book refuses is not journaled.  A name
\* that redefine_role does not find is defined all the same.
DefineRole(x, name, permissions) ==
    IF has_role(x.book, name) THEN x
    ELSE record([x EXCEPT !.book = redefine_role(@, name, permissions)],
                Row("RoleDefined", name, permissions))

RedefineRole(x, name, permissions) ==
    LET y == [x EXCEPT !.book = redefine_role(@, name, permissions)] IN
    IF has_role(x.book, name)
    THEN record(y, Row("RoleRedefined", name, permissions)) ELSE y

RemoveRole(x, name) ==
    LET y == [x EXCEPT !.book = remove_role(@, name)] IN
    IF has_role(x.book, name) THEN record(y, Row("RoleRemoved", name, "")) ELSE y

Assign(x, who, name) ==
    IF has_role(x.book, name)
    THEN record([x EXCEPT !.book = assign(@, who, name)], Row("RoleAssigned", name, who))
    ELSE x

Unassign(x, who, name) ==
    IF <<who, name>> \in x.book.grants
    THEN record([x EXCEPT !.book = unassign(@, who, name)], Row("RoleUnassigned", name, who))
    ELSE x

RemoveActor(x, who) ==
    IF roles_of(x.book, who) # {}
    THEN record([x EXCEPT !.book = remove_actor(@, who)], Row("ActorRemoved", who, ""))
    ELSE x

-----------------------------------------------------------------------------
(* The model switch *)

\* What a transition must leave as it was; an approved addition is excluded.
InvariantState(x, tenant, excluded) ==
    LET t == x.tenants[tenant] IN
    [spent |-> t.spent, limit |-> t.limit, models |-> t.models \ excluded,
     variants |-> t.active, cells |-> Restrict(x.store, CellsOf(x, tenant))]

\* restore_model_switch_checkpoint: the tenant's state and cells as they were.
Reverted(x, y, tenant) ==
    LET store == Restrict(x.store, CellsOf(x, tenant))
                 @@ Restrict(y.store, DOMAIN y.store \ CellsOf(y, tenant)) IN
    [y EXCEPT !.tenants[tenant] = x.tenants[tenant],
              !.store = store, !.bytes = BytesOf(store)]

MaySwitch(x, s, now) ==
    /\ s.tenant \in DOMAIN x.tenants
    /\ x.tenants[s.tenant].model \notin {NoModel, s.model}
    /\ \/ s.model \in x.tenants[s.tenant].models
       \/ Approved(x, s.approval, s.tenant, s.model, now)

\* The callback's own use of the deployment: nothing, one call or one change.
Transition(x, s, now) ==
    CASE s.does = "admit"  -> admit(x, s.with, now)
      [] s.does = "cell"   -> cell_call(x, s.with, now)
      [] s.does = "model"  -> allow_model(x, s.tenant, s.with)
      [] s.does = "permit" -> permit_variant(x, s.tenant, s.with)
      [] OTHER             -> x

Excluded(x, s) == IF s.model \in x.tenants[s.tenant].models THEN {} ELSE {s.model}

\* The deployment when the callback returns: the target is selected first.
Transitioned(x, s, now) ==
    Transition([x EXCEPT !.tenants[s.tenant].models = @ \cup {s.model},
                         !.tenants[s.tenant].model = s.model], s, now)

\* Mutant: the tenant's cells are not compared.
EquivalentMeter(x, y, s) ==
    s.returns = "ok" /\ x.tenants[s.tenant].spent = y.tenants[s.tenant].spent

Equivalent(x, y, s) ==
    /\ s.returns = "ok"
    /\ InvariantState(x, s.tenant, Excluded(x, s)) = InvariantState(y, s.tenant, Excluded(x, s))

switch_tenant_model(x, s, now) ==
    LET y == Transitioned(x, s, now)
        kept == Equivalent(x, y, s) IN
    record_governance(IF kept THEN y ELSE Reverted(x, y, s.tenant),
        Row("ModelSwitch", s.tenant, <<s.model, kept>>))

-----------------------------------------------------------------------------
(* Snapshot and restore *)

\* What restore refuses in a tenant's snapshot.
TenantRestorable(x, tenant) ==
    LET t == x.tenants[tenant] IN
    /\ t.spent <= t.limit
    /\ t.model \in t.models \/ (t.model = NoModel /\ Cardinality(t.models) <= 1)
    /\ \A v \in t.active :
          /\ evaluate(t, v) # "Denied"
          /\ evaluate(t, v) = "RequiresApproval" =>
                /\ t.by[v] \in x.approvals
                /\ Approvals[t.by[v]].tenant = tenant /\ Approvals[t.by[v]].act = v

\* restore accepts a snapshot of this deployment with its journals: the cells
\* go through write_cell one by one, every record names a tenant that could
\* exist, whatever was answered, and the anchors ascend.
Restorable(x) ==
    /\ \A r \in Range(x.audit) : IsTenantId(r.call.tenant)
    /\ \A tenant \in DOMAIN x.tenants : TenantRestorable(x, tenant)
    /\ \A p \in DOMAIN x.store : p[1] \in DOMAIN x.tenants /\ x.store[p] <= MaxValue
    /\ \A tenant \in DOMAIN x.tenants : Cardinality(CellsOf(x, tenant)) <= MaxCells
    /\ BytesOf(x.store) <= MaxBytes
    /\ \A i, j \in DOMAIN x.governance : i < j => x.governance[i].at <= x.governance[j].at

\* Mutant: the remembered ids are not rebuilt.
RestoredForgetful(x) ==
    [x EXCEPT !.bytes = BytesOf(x.store), !.decided = {},
              !.serving = x.audit # <<>> \/ x.governance # <<>>]

\* The rules, the meters and the cells come from the snapshot, where one model
\* is the active one; the remembered ids from the forwarded records of the
\* whole journal.
restore(x) ==
    [x EXCEPT
        !.tenants = [t \in DOMAIN @ |-> [@[t] EXCEPT !.model =
            IF @ = NoModel /\ x.tenants[t].models # {}
            THEN CHOOSE m \in x.tenants[t].models : TRUE ELSE @]],
        !.bytes = BytesOf(x.store),
        !.decided = {Key(r.call) : r \in {a \in Range(x.audit) : a.outcome = "Forwarded"}},
        !.serving = x.audit # <<>> \/ x.governance # <<>>]

-----------------------------------------------------------------------------

Init ==
    /\ d = Provisioned /\ clock = 0 /\ changes = 0 /\ restarts = 0
    /\ inside = {} /\ base = Provisioned.book
    /\ undone = [t \in DOMAIN Provisioned.tenants \cup DOMAIN NewTenants |-> 0]

Decides(y) ==
    /\ Len(d.audit) < MaxDecisions
    /\ d' = y
    /\ UNCHANGED <<clock, changes, restarts, inside, undone, base>>

Admit(c) == Decides(admit(d, c, clock))

CellCall(c) == Decides(cell_call(d, c, clock))

\* One administrative operation, if it changes anything.
Change(y) ==
    /\ changes < MaxChanges /\ changes' = changes + 1
    /\ y # d /\ d' = y
    /\ base' = IF d.serving THEN base ELSE y.book
    /\ UNCHANGED <<clock, restarts, inside, undone>>

Administer(r) ==
    \/ r.kind = "require_strength" /\ Change(require_strength(d, r.to))
    \/ r.kind = "require_justification" /\ Change(require_justification(d, r.of))
    \/ r.kind = "govern_tool" /\ Change(govern_tool(d, r.of, r.to))
    \/ r.kind = "add_role" /\ Change(DefineRole(d, r.of, r.to))
    \/ r.kind = "redefine_role" /\ Change(RedefineRole(d, r.of, r.to))
    \/ r.kind = "remove_role" /\ Change(RemoveRole(d, r.of))
    \/ r.kind = "assign" /\ Change(Assign(d, r.to, r.of))
    \/ r.kind = "unassign" /\ Change(Unassign(d, r.to, r.of))
    \/ r.kind = "remove_actor" /\ Change(RemoveActor(d, r.of))
    \/ r.kind = "add_tenant" /\ Change(add_tenant(d, r.of))
    \/ r.kind = "record_approval" /\ Change(record_approval(d, r.of))
    \/ r.kind = "allow_model" /\ Change(allow_model(d, r.of, r.to))
    \/ r.kind = "permit" /\ Change(permit_variant(d, r.of, r.to))
    \/ r.kind = "revoke" /\ Change(revoke_variant(d, r.of, r.to))
    \/ r.kind = "activate" /\ Change(activate_variant_governed(d, r.of, r.to, r.by, clock))
    \/ r.kind = "deactivate" /\ Change(deactivate_variant_governed(d, r.of, r.to))

Switch(s) ==
    /\ changes < MaxChanges /\ changes' = changes + 1
    /\ s.does \in {"admit", "cell"} => Len(d.audit) < MaxDecisions
    /\ MaySwitch(d, s, clock)
    /\ d' = switch_tenant_model(d, s, clock)
    /\ inside' = inside \cup (Len(d.audit) + 1 .. Len(d'.audit))
    /\ undone' = [undone EXCEPT ![s.tenant] =
                    @ + (Transitioned(d, s, clock).tenants[s.tenant].spent
                         - d'.tenants[s.tenant].spent)]
    /\ UNCHANGED <<clock, restarts, base>>

Restart ==
    /\ restarts < MaxRestarts /\ restarts' = restarts + 1
    /\ Restorable(d)
    /\ d' = restore(d)
    /\ UNCHANGED <<clock, changes, inside, undone, base>>

Tick ==
    /\ clock < MaxClock /\ clock' = clock + 1
    /\ UNCHANGED <<d, changes, restarts, inside, undone, base>>

Next ==
    \/ \E c \in Calls : Admit(c)
    \/ \E c \in CellCalls : CellCall(c)
    \/ \E r \in Rules : Administer(r)
    \/ \E s \in Switches : Switch(s)
    \/ Restart
    \/ Tick

Spec == Init /\ [][Next]_vars

-----------------------------------------------------------------------------
(* Properties *)

Spent(tenant) ==
    LET Cost(n, r) == IF r.call.tenant = tenant THEN n + r.cost ELSE n
    IN  FoldLeft(Cost, 0, d.audit)

\* A tenant's meter is the sum of what the journal says its calls cost, through
\* refused cell writes, refunds and restarts.  Only a reverted model switch
\* takes the two apart, by what its callback had spent: the checkpoint returns
\* the meter, the records stay.
MeterMatchesJournal ==
    \A t \in DOMAIN d.tenants : d.tenants[t].spent + undone[t] = Spent(t)

\* The byte counter write_cell and delete_cell keep, and a rollback and a
\* restart rebuild, is what the cells hold, and within the ceiling.
BytesExact == d.bytes = BytesOf(d.store) /\ d.bytes <= MaxBytes

\* The books balance: what the meters and the byte counter keep running is what
\* the journal and the cells add up to.
BooksBalance == MeterMatchesJournal /\ BytesExact

Refusals == {"MalformedCell", "StorageExhausted"}

\* Whatever rules were changed, restore accepts a snapshot of the deployment,
\* unless a call that admit refused, and journaled, named a tenant that is no
\* identifier: from then on it does not.  It remembers the request ids the
\* deployment remembered, except those of cell calls the store refused after
\* they had been admitted.
RestoreFaithful ==
    /\ \/ Restorable(d)
       \/ \E r \in Range(d.audit) : r.outcome # "Forwarded" /\ ~ IsTenantId(r.call.tenant)
    /\ restore(d).bytes = d.bytes
    /\ restore(d).decided \subseteq d.decided
    /\ \A k \in d.decided \ restore(d).decided :
          \E r \in Range(d.audit) : Key(r.call) = k /\ r.outcome \in Refusals

\* A request id is forwarded at most once, whatever the retries, the switches
\* and the restarts: decide suppresses it, and restore rebuilds its memory.
ForwardedOnce ==
    \A i, j \in DOMAIN d.audit :
        /\ d.audit[i].outcome = "Forwarded" /\ d.audit[j].outcome = "Forwarded"
        /\ Key(d.audit[i].call) = Key(d.audit[j].call)
        => i = j

\* What decide's rules say of a call; expiry of an approval is not a rule
\* change, nor are the budget, the replay memory and the store.
Verdict(r) ==
    IF r.outcome \in Refusals \cup {"Forwarded", "Replayed", "BudgetExhausted", "RequiresApproval"}
    THEN "passed" ELSE r.outcome

\* When the rules answer the same call differently, a governance record stands
\* between the two decisions.  (A decision a switch's callback makes comes
\* before the record of its switch.)
AnswersExplained ==
    \A i, j \in DOMAIN d.audit :
        /\ i < j /\ j \notin inside
        /\ d.audit[i].call = d.audit[j].call
        /\ Verdict(d.audit[i]) # Verdict(d.audit[j])
        => \E g \in DOMAIN d.governance : d.governance[g].at \in i .. j - 1

\* What an auditor makes of the role book from one governance record.
Audited(book, g) ==
    CASE g.change.kind \in {"RoleDefined", "RoleRedefined"} ->
            redefine_role(book, g.change.of, g.change.to)
      [] g.change.kind = "RoleRemoved"    ->
            [roles |-> Restrict(book.roles, DOMAIN book.roles \ {g.change.of}),
             grants |-> {p \in book.grants : p[2] # g.change.of}]
      [] g.change.kind = "RoleAssigned"   -> assign(book, g.change.to, g.change.of)
      [] g.change.kind = "RoleUnassigned" -> unassign(book, g.change.to, g.change.of)
      [] g.change.kind = "ActorRemoved"   -> remove_actor(book, g.change.of)
      [] OTHER                            -> book

AuditedBook == FoldLeft(Audited, base, d.governance)

\* Who holds which role, and what the roles grant whose definition was ever
\* recorded, can be told from the journal: a removed role takes its grants
\* with it, and a later role of the same name revives none.  (A role that
\* redefine_role defines under a new name is not recorded; its grants are.)
GrantsTold ==
    /\ AuditedBook.grants = d.book.grants
    /\ \A name \in DOMAIN AuditedBook.roles :
          has_role(d.book, name) /\ d.book.roles[name] = AuditedBook.roles[name]

\* A call is answered Replayed only if the journal tells why: the same request
\* id was forwarded earlier, or it was a cell call that the store refused after
\* cell_call had admitted it: the refund and the rewritten record take back the
\* admission, the remembered id stays.
ReplayedExplained ==
    \A j \in DOMAIN d.audit : d.audit[j].outcome = "Replayed" =>
        \E i \in 1 .. j - 1 :
            /\ Key(d.audit[i].call) = Key(d.audit[j].call)
            /\ d.audit[i].outcome \in Refusals \cup {"Forwarded"}

\* A request takes effect at most once, and a request that is told it already
\* has can find out when.
ReplayExact == ForwardedOnce /\ ReplayedExplained

\* The trail explains the answers: why they changed, and who holds which role.
TrailExplains == AnswersExplained /\ GrantsTold

SwitchStep ==
    /\ Len(d'.governance) > Len(d.governance)
    /\ Last(d'.governance).change.kind = "ModelSwitch"
    => LET change == Last(d'.governance).change
           t == change.of
           model == change.to[1]
           committed == change.to[2] IN
       /\ InvariantState(d', t, {model}) = InvariantState(d, t, {model})
       /\ ~ committed => d'.tenants[t] = d.tenants[t]
       /\ committed => d'.tenants[t].model = model /\ model \in d'.tenants[t].models

\* A model switch changes the tenant's model and nothing else that it compares,
\* or nothing at all, whatever its callback did in between.
SwitchTransacts == [][SwitchStep]_vars
=============================================================================
