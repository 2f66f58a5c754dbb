-------------------------- MODULE DecisionQueries ---------------------------
(***************************************************************************)
(* The bounded traversals of DecisionState (crate ccos-enterprise-decision)*)
(* over the decisions in memory: loops with a queue, a visited set and a   *)
(* limit on depth and on results, checked against paths in the graph of    *)
(* precedents.                                                             *)
(***************************************************************************)
EXTENDS DecisionService, FiniteSets, SequencesExt

CONSTANTS Depths, Results    \* limits asked for, none of them 0

Precedents(lines, d) ==
    UNION {lines[i].precedents : i \in {j \in Records(lines) : lines[j].id = d}}

\* Decisions are kept in the order of their ids, numbers here.
InOrder(ids) == SetToSortSeq(ids, <)

TooMany == <<-1>>    \* TraversalLimitExceeded; no id is negative

RECURSIVE Ancestors(_, _, _, _, _, _)
RECURSIVE Dependents(_, _, _, _, _, _)

\* The loop of causal_ancestry: a decision counts when it leaves the queue.
Ancestors(lines, queue, visited, out, depth, results) ==
    IF queue = <<>> THEN out
    ELSE LET d == Head(queue).id
             k == Head(queue).depth
             next == [i \in 1 .. Cardinality(Precedents(lines, d)) |->
                         [id |-> InOrder(Precedents(lines, d))[i], depth |-> k + 1]]
         IN  IF k > depth \/ d \in visited
             THEN Ancestors(lines, Tail(queue), visited, out, depth, results)
             ELSE IF Len(out) + 1 > results THEN TooMany
             ELSE Ancestors(lines, Tail(queue) \o (IF k = depth THEN <<>> ELSE next),
                            visited \cup {d}, Append(out, d), depth, results)

\* Mutant: the depth is counted from 0.
AncestryFromZero(lines, d, depth, results) ==
    LET first == InOrder(Precedents(lines, d)) IN
    Ancestors(lines, [i \in 1 .. Len(first) |-> [id |-> first[i], depth |-> 0]],
              {}, <<>>, depth, results)

causal_ancestry(lines, d, depth, results) ==
    LET first == InOrder(Precedents(lines, d)) IN
    Ancestors(lines, [i \in 1 .. Len(first) |-> [id |-> first[i], depth |-> 1]],
              {}, <<>>, depth, results)

\* The loop of causal_dependents: a decision counts when it is found.
Dependents(lines, queue, visited, out, depth, results) ==
    IF queue = <<>> THEN out
    ELSE IF Head(queue).depth >= depth
    THEN Dependents(lines, Tail(queue), visited, out, depth, results)
    ELSE LET found == InOrder({d \in Decided(lines) \ visited :
                                   Head(queue).id \in Precedents(lines, d)})
         IN  IF Len(out) + Len(found) > results THEN TooMany
             ELSE Dependents(lines,
                      Tail(queue) \o [i \in 1 .. Len(found) |->
                          [id |-> found[i], depth |-> Head(queue).depth + 1]],
                      visited \cup ToSet(found), out \o found, depth, results)

causal_dependents(lines, d, depth, results) ==
    Dependents(lines, <<[id |-> d, depth |-> 0]>>, {d}, <<>>, depth, results)

\* regulatory_trail: the decision and its ancestors by decided_at, then by id.
DecidedAt(lines, d) == CHOOSE i \in Records(lines) : lines[i].id = d
regulatory_trail(lines, d, depth, results) ==
    LET up == causal_ancestry(lines, d, depth, results) IN
    IF up = TooMany THEN TooMany
    ELSE SortSeq(Append(up, d), LAMBDA x, y : DecidedAt(lines, x) < DecidedAt(lines, y))

-----------------------------------------------------------------------------
(* Reference definitions and properties *)

\* There is a path of at most n precedent edges from d up to a.
Above(lines, d, a, n) ==
    \E p \in UNION {[1 .. m -> Decided(lines)] : m \in 2 .. n + 1} :
        /\ p[1] = d /\ p[Len(p)] = a
        /\ \A i \in 1 .. Len(p) - 1 : p[i + 1] \in Precedents(lines, p[i])

Exactly(answer, set, results) ==
    IF Cardinality(set) > results THEN answer = TooMany
    ELSE Len(answer) = Cardinality(set) /\ ToSet(answer) = set

\* Both traversals return each decision within the depth once and no other, and
\* fail exactly when there are more of them than was asked for: a decision that
\* is reached on a long path first is not lost to the visited set.
TraversalsExact ==
    \A d \in Decided(dn.mem), n \in Depths, m \in Results :
        /\ Exactly(causal_ancestry(dn.mem, d, n, m),
                   {a \in Decided(dn.mem) : Above(dn.mem, d, a, n)}, m)
        /\ Exactly(causal_dependents(dn.mem, d, n, m),
                   {a \in Decided(dn.mem) : Above(dn.mem, a, d, n)}, m)

\* An audit bundle reads in order: whatever the limits, a decision comes after
\* those of its precedents that are in the bundle, and the one asked for is last.
TrailChronological ==
    \A d \in Decided(dn.mem), n \in Depths, m \in Results :
        LET t == regulatory_trail(dn.mem, d, n, m) IN
        t # TooMany =>
            /\ t[Len(t)] = d
            /\ \A i, j \in 1 .. Len(t) : t[i] \in Precedents(dn.mem, t[j]) => i < j

\* The bounded queries answer what the precedent graph says, in order.
QueriesExact == TraversalsExact /\ TrailChronological
=============================================================================
