--------------------------- MODULE KnowledgePlane ---------------------------
(***************************************************************************)
(* The canonical knowledge of one tenant, rebuilt from its journal         *)
(* (crates ccos-enterprise-knowledge and -knowledge-model).  An operation  *)
(* is a record, with the entities and the evidence it refers to; `Admits`  *)
(* is what KnowledgeState::apply checks of it, `After` what it does, and   *)
(* `Replay` the state of a journal.  A line's sequence number is its       *)
(* place, counted from 0.                                                  *)
(***************************************************************************)
EXTENDS Integers, Sequences

Unset == 1000000    \* invalidated_at, valid_until and resolved_at: None

\* A partial function with one more, or one other, value.
Set1(f, k, v) == [x \in DOMAIN f \cup {k} |-> IF x = k THEN v ELSE f[x]]
Nothing == [x \in {} |-> 0]

Empty == [next |-> 0, sources |-> {}, evidence |-> {}, entities |-> {},
          facts |-> Nothing, relations |-> Nothing, conflicts |-> Nothing]

\* A conflict set is named by the subject and the predicate.
Conflict(op) == <<op.subject, op.predicate>>

\* ValidityInterval::overlaps of half-open intervals.
Overlaps(a, b) == a.from < b.until /\ b.from < a.until

Current(r) == r.out = Unset

\* Mutant: what is invalidated now is still shown.
VisibleThrough(r, s) == r.at <= s /\ s <= r.out

\* visible_at_transaction.
VisibleAt(r, s) == r.at <= s /\ s < r.out

\* Facts in force that say something else of the same subject and predicate.
Competing(st, op) ==
    {f \in DOMAIN st.facts :
        LET r == st.facts[f] IN
        /\ Current(r) /\ Conflict(r) = Conflict(op) /\ r.object # op.object
        /\ Overlaps(r, op)}

HasEvidence(st, op) == op.evidence # {} /\ op.evidence \subseteq st.evidence

\* The checks of each operation.
Admits(st, op) ==
    \/ op.kind = "source" /\ op.id \notin st.sources
    \/ op.kind = "evidence" /\ op.source \in st.sources /\ op.id \notin st.evidence
    \/ op.kind = "entity" /\ HasEvidence(st, op) /\ op.id \notin st.entities
    \/ /\ op.kind = "fact" /\ HasEvidence(st, op) /\ op.from < op.until
       /\ op.entities \subseteq st.entities /\ op.id \notin DOMAIN st.facts
    \/ /\ op.kind = "invalidate_fact" /\ op.id \in DOMAIN st.facts
       /\ Current(st.facts[op.id])
    \/ /\ op.kind = "relation" /\ HasEvidence(st, op) /\ op.from < op.until
       /\ op.entities \subseteq st.entities /\ op.id \notin DOMAIN st.relations
    \/ /\ op.kind = "invalidate_relation" /\ op.id \in DOMAIN st.relations
       /\ Current(st.relations[op.id])
    \/ /\ op.kind = "resolve" /\ op.conflict \in DOMAIN st.conflicts
       /\ op.prefer = {} \/ /\ op.prefer \subseteq st.conflicts[op.conflict].facts
                            /\ \A f \in op.prefer : Current(st.facts[f])

\* Mutant: the resolution of a set the assertion joins is kept.
KeptResolved(st, op) ==
    LET rivals == Competing(st, op)
        c == Conflict(op)
        old == IF c \in DOMAIN st.conflicts THEN st.conflicts[c]
               ELSE [facts |-> {}, detected |-> st.next, prefer |-> {}, resolved |-> Unset]
    IN  IF rivals = {} THEN st.conflicts
        ELSE Set1(st.conflicts, c, [old EXCEPT !.facts = @ \cup rivals \cup {op.id}])

\* A new competing assertion joins the conflict set and re-opens it.
Reopened(st, op) ==
    LET rivals == Competing(st, op)
        c == Conflict(op)
        known == IF c \in DOMAIN st.conflicts THEN st.conflicts[c].facts ELSE {}
        found == IF c \in DOMAIN st.conflicts THEN st.conflicts[c].detected ELSE st.next
    IN  IF rivals = {} THEN st.conflicts
        ELSE Set1(st.conflicts, c, [facts |-> known \cup rivals \cup {op.id},
                                    detected |-> found, prefer |-> {}, resolved |-> Unset])

\* assert_fact.
Asserted(st, op) ==
    [st EXCEPT
        !.facts = Set1(@, op.id, [subject |-> op.subject, predicate |-> op.predicate,
                                  object |-> op.object, from |-> op.from,
                                  until |-> op.until, at |-> st.next, out |-> Unset]),
        !.conflicts = Reopened(st, op)]

Changed(st, op) ==
    CASE op.kind = "source" -> [st EXCEPT !.sources = @ \cup {op.id}]
      [] op.kind = "evidence" -> [st EXCEPT !.evidence = @ \cup {op.id}]
      [] op.kind = "entity" -> [st EXCEPT !.entities = @ \cup {op.id}]
      [] op.kind = "fact" -> Asserted(st, op)
      [] op.kind = "invalidate_fact" -> [st EXCEPT !.facts[op.id].out = st.next]
      [] op.kind = "relation" ->
            [st EXCEPT !.relations = Set1(@, op.id, [at |-> st.next, out |-> Unset])]
      [] op.kind = "invalidate_relation" -> [st EXCEPT !.relations[op.id].out = st.next]
      [] op.kind = "resolve" -> [st EXCEPT !.conflicts[op.conflict].prefer = op.prefer,
                                           !.conflicts[op.conflict].resolved = st.next]

After(st, op) == [Changed(st, op) EXCEPT !.next = st.next + 1]

\* The state after each number of lines of a batch.
States(st, batch) ==
    LET after[n \in 0 .. Len(batch)] == IF n = 0 THEN st ELSE After(after[n - 1], batch[n])
    IN  after

\* KnowledgeState::replay of a journal that apply accepted line by line.
Replay(journal) == States(Empty, journal)[Len(journal)]

\* replay_at: the journal up to a transaction.
ReplayAt(journal, s) == Replay(SubSeq(journal, 1, s + 1))

\* Every line of a batch is accepted after the lines before it.
AdmitsAll(st, batch) ==
    \A i \in 1 .. Len(batch) : Admits(States(st, batch)[i - 1], batch[i])

CurrentFacts(st) == {f \in DOMAIN st.facts : Current(st.facts[f])}
FactsVisibleAt(st, s) == {f \in DOMAIN st.facts : VisibleAt(st.facts[f], s)}
=============================================================================
