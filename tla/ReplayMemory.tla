---------------------------- MODULE ReplayMemory ----------------------------
(***************************************************************************)
(* The idempotency keys a deployment remembers (`Deployment::remember`):   *)
(* a set for the check of step 7 of `decide`, a queue per tenant that      *)
(* bounds each tenant by its share, and one queue over all tenants that    *)
(* bounds the whole.  A key that a tenant's own bound evicted stays in the *)
(* common queue until it surfaces there.                                   *)
(*                                                                         *)
(* A call that a replay, a refusal or an earlier gate answers leaves all   *)
(* of this alone and is left out; a cell access that is admitted and then  *)
(* turned away by the cell store (`cell_call`) is not: its key stays.      *)
(***************************************************************************)
EXTENDS Integers, Sequences, FiniteSets

CONSTANTS
    Tenants,       \* tenants that can be provisioned
    FirstTenants,  \* those provisioned before the first call
    Ids,           \* request ids
    Capacity,      \* what with_replay_memory is asked for
    MaxDecisions,  \* bound: decisions that reach the memory
    MaxRefusals    \* bound: those among them the cell store turns away

ASSUME MemoryAssumption ==
    /\ IsFiniteSet(Tenants) /\ FirstTenants \subseteq Tenants
    /\ Capacity \in Nat /\ MaxDecisions \in Nat /\ MaxRefusals \in Nat

MIN_REPLAY_MEMORY_PER_TENANT == 4

Larger(m, n) == IF m >= n THEN m ELSE n

\* with_replay_memory, called once the first tenants are provisioned; later
\* tenants do not raise it.
Memory ==
    Larger(Capacity, MIN_REPLAY_MEMORY_PER_TENANT * Larger(Cardinality(FirstTenants), 1))

VARIABLES
    tenants,  \* tenants of the deployment
    decided,  \* keys <<tenant, id>> that are suppressed
    queue,    \* decided_per_tenant, oldest first
    order,    \* decided_order, oldest first
    journal,  \* decisions that reached the memory: the key, and its outcome
    gone      \* keys the last decision made the memory forget

vars == <<tenants, decided, queue, order, journal, gone>>

Keys == Tenants \X Ids

\* The share of one tenant, computed live.
Share == Larger(Memory \div Larger(Cardinality(tenants), 1), 1)

Init ==
    /\ tenants = FirstTenants
    /\ decided = {} /\ queue = [t \in Tenants |-> <<>>] /\ order = <<>>
    /\ journal = <<>> /\ gone = {}

Holds(q, x) == \E i \in DOMAIN q : q[i] = x

\* A queue as Rust's `position` and `remove` leave it.
WithoutId(q, id) ==
    IF Holds(q, id)
    THEN LET p == CHOOSE i \in DOMAIN q : q[i] = id /\ \A j \in 1 .. i - 1 : q[j] # id
         IN  SubSeq(q, 1, p - 1) \o SubSeq(q, p + 1, Len(q))
    ELSE q

\* The tenant's own queue after its new id, and what its bound let go of.
Pushed(k) == Append(queue[k[1]], k[2])

\* A variant with one eviction where a loop is needed.
KeptPopOnce(k) == IF Len(Pushed(k)) > Share THEN Len(Pushed(k)) - 1 ELSE Len(Pushed(k))

Kept(k) == IF Len(Pushed(k)) > Share THEN Share ELSE Len(Pushed(k))
Own(k) == SubSeq(Pushed(k), Len(Pushed(k)) - Kept(k) + 1, Len(Pushed(k)))

\* A variant that lets go of the newest keys.
AgedNewest(k) == {<<k[1], Pushed(k)[i]>> : i \in Kept(k) + 1 .. Len(Pushed(k))}

Aged(k) == {<<k[1], Pushed(k)[i]>> : i \in 1 .. Len(Pushed(k)) - Kept(k)}

\* The key the common bound lets go of, if any; `order` never holds more than
\* Memory keys, so that the loop of the code runs at most once.
Full == Len(order) >= Memory
Oldest(k) ==
    IF Full /\ Head(order) \in (decided \cup {k}) \ Aged(k) THEN {Head(order)} ELSE {}

remember(k) ==
    /\ decided' = ((decided \cup {k}) \ Aged(k)) \ Oldest(k)
    /\ queue' = [t \in Tenants |->
                    LET q == IF t = k[1] THEN Own(k) ELSE queue[t]
                    IN  IF Oldest(k) # {} /\ Head(order)[1] = t
                        THEN WithoutId(q, Head(order)[2])
                        ELSE q]
    /\ order' = Append(IF Full THEN Tail(order) ELSE order, k)
    /\ gone' = Aged(k) \cup Oldest(k)

\* Steps 7 and 8 of `decide` for a key not suppressed and a budget that pays.
Decided(k, outcome) ==
    /\ Len(journal) < MaxDecisions
    /\ k[1] \in tenants /\ k \notin decided
    /\ remember(k)
    /\ journal' = Append(journal, [key |-> k, outcome |-> outcome])
    /\ UNCHANGED tenants

Forward(k) == Decided(k, "forwarded")

\* cell_call: the cell store refuses after admission; the charge is given back
\* and the record rewritten, the key stays.
CellRefused(k) ==
    /\ Cardinality({i \in DOMAIN journal : journal[i].outcome = "refused"}) < MaxRefusals
    /\ Decided(k, "refused")

add_tenant(t) ==
    /\ t \notin tenants /\ tenants' = tenants \cup {t} /\ gone' = {}
    /\ UNCHANGED <<decided, queue, order, journal>>

Next ==
    \/ \E k \in Keys : Forward(k) \/ CellRefused(k)
    \/ \E t \in Tenants : add_tenant(t)

Spec == Init /\ [][Next]_vars

-----------------------------------------------------------------------------
(* Properties *)

TypeOK ==
    /\ tenants \subseteq Tenants /\ decided \subseteq Keys /\ gone \subseteq Keys
    /\ queue \in [Tenants -> Seq(Ids)]
    /\ order \in Seq(Keys)
    /\ journal \in Seq([key : Keys, outcome : {"forwarded", "refused"}])

\* The three structures tell the same story: what is suppressed is what the
\* tenants' queues hold, each once, and all of it is still due to leave by the
\* common queue, so that no key can be remembered for ever.
StructuresAgree ==
    /\ \A t \in Tenants : \A i, j \in DOMAIN queue[t] : queue[t][i] = queue[t][j] => i = j
    /\ decided = {k \in Keys : Holds(queue[k[1]], k[2])}
    /\ \A k \in decided : Holds(order, k)

\* At most replay_memory keys are remembered, however tenants come and go.
MemoryBounded == Len(order) <= Memory /\ Cardinality(decided) <= Memory

\* A tenant that adds a key holds no more than its share from then on.
ShareKept ==
    [][\A k \in Keys :
          Len(order') > 0 /\ order'[Len(order')] = k /\ journal' # journal
              => Len(queue'[k[1]]) <= Share]_vars

\* With one tenant, as the MCP server runs, the memory is a plain window: the
\* last replay_memory decided keys, all of them, are suppressed.
SingleTenantWindow ==
    Cardinality(tenants) = 1 =>
        /\ \A i \in DOMAIN order : order[i] \in decided
        /\ Len(order) = IF Len(journal) < Memory THEN Len(journal) ELSE Memory

Occurrences(k) == {i \in DOMAIN journal : journal[i].key = k}
Later(t, i) == {j \in i + 1 .. Len(journal) : journal[j].key[1] = t}

\* A key decided once is suppressed until its tenant has used up its share with
\* later keys, or replay_memory later keys were decided: what clients with fresh
\* request ids can count on.
FreshKeyKept ==
    \A k \in Keys : \A i \in Occurrences(k) :
        /\ Cardinality(Occurrences(k)) = 1
        /\ Len(journal) - i < Memory
        /\ Cardinality(Later(k[1], i)) < Share
        => k \in decided

\* Why: the common queue holds the newest decisions, and a key has no more keys
\* behind it in its tenant's queue than that tenant was decided afterwards.
QueuesFollowJournal ==
    /\ \A x \in DOMAIN order : order[x] = journal[Len(journal) - Len(order) + x].key
    /\ \A t \in Tenants : \A x \in DOMAIN queue[t] :
          \A i \in Occurrences(<<t, queue[t][x]>>) :
              Len(queue[t]) - x <= Cardinality(Later(t, i))

-----------------------------------------------------------------------------
(* What the comments say and the code does not keep *)

\* remember: "one tenant flooding forwarded calls evicts only its own history".
\* (Keys its own bound evicted still count in the common queue and push other
\* tenants' keys out.)
FloodEvictsOnlyOwn ==
    \A k \in gone :
        Cardinality(Occurrences(k)) = 1 => k[1] = journal[Len(journal)].key[1]
=============================================================================
