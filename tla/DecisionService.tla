-------------------------- MODULE DecisionService ---------------------------
(***************************************************************************)
(* The decision service of one tenant: the knowledge journal, the decision *)
(* journal whose entries are anchored to a state of the first, and the     *)
(* process that owns both (crates ccos-enterprise-knowledge-store,         *)
(* -decision, -decision-store and -decision-service).                      *)
(*                                                                         *)
(* An append that fails leaves any part of its lines in the file and the   *)
(* writer refuses further appends until the service is opened again.  A    *)
(* power loss takes away what no sync has followed, and a journal file as  *)
(* a whole while its directory entry is not on disk: an append syncs the   *)
(* file, no code syncs the directory in which an open created it.          *)
(***************************************************************************)
EXTENDS KnowledgePlane

CONSTANTS
    Batches,     \* batches of knowledge operations callers may append
    Drafts,      \* decisions clients may record
    MaxLines,    \* bound: lines of the knowledge journal
    MaxFaults    \* bound: failed appends and opens, crashes, power losses

VARIABLES kn, dn, faults
vars == <<kn, dn, faults>>

\* A store: the handle ("closed", "open" or "poisoned"), the directory entry of
\* the file ("none", "loose" until it is on disk, then "kept"), the complete lines
\* and whether a torn one follows, how many lines are synced, the lines its state
\* in memory stands for, and (history) what was acknowledged of this file.
NewStore == [handle |-> "closed", entry |-> "none", lines |-> <<>>, torn |-> FALSE, safe |-> 0,
             mem |-> <<>>, told |-> <<>>]

Init == kn = NewStore /\ dn = NewStore /\ faults = 0

Fault == faults < MaxFaults /\ faults' = faults + 1

-----------------------------------------------------------------------------
(* The two stores have the same shape *)

\* A line that was written behind a torn one: neither can be read.
Glued == [kind |-> "glued", id |-> "glued", firm |-> FALSE]

\* The file and the state in memory after an append.
Written(s, batch) ==
    [s EXCEPT !.lines = @ \o (IF s.torn THEN <<Glued>> \o Tail(batch) ELSE batch),
              !.mem = @ \o batch, !.told = s.mem \o batch]

\* Mutant: acknowledged before it is synced.
AppendedUnsynced(s, batch) == Written(s, batch)

\* append: written, flushed and synced.
Appended(s, batch) == [Written(s, batch) EXCEPT !.safe = Len(s.lines) + Len(batch)]

\* Where a write may stop: after n whole lines, with a piece of the next or not.
Cuts(least, most, torn) ==
    {c \in (least .. most) \X BOOLEAN : c[2] => c[1] < most \/ torn}

\* An error on the way: any part of the batch is in the file.  What is left in
\* the buffer is written when the handle is dropped, before anybody reads.
Broken(s, batch) ==
    {[s EXCEPT !.handle = "poisoned", !.lines = @ \o SubSeq(batch, 1, c[1]), !.torn = c[2]] :
        c \in Cuts(0, Len(batch), FALSE)}

\* open: the file is created if there is none; the complete lines are replayed, a
\* torn one is cut off and the file synced.  A file without one is not synced.
Loaded(s) ==
    [s EXCEPT !.handle = "open", !.mem = s.lines, !.torn = FALSE,
              !.entry = IF @ = "none" THEN "loose" ELSE @,
              !.safe = IF s.torn THEN Len(s.lines) ELSE @]

Closed(s) == [s EXCEPT !.handle = "closed", !.mem = <<>>]

\* What a power loss may leave of a file: the synced lines and any part of the
\* others, or no file where its entry was not on disk.
Survivors(s) ==
    {[Closed(s) EXCEPT !.lines = SubSeq(@, 1, c[1]), !.torn = c[2], !.safe = c[1],
                       !.entry = IF @ = "none" THEN @ ELSE "kept"] :
        c \in Cuts(s.safe, Len(s.lines), s.torn)}
    \cup {n \in {NewStore} : s.entry = "loose"}

-----------------------------------------------------------------------------
(* Decisions *)

Records(lines) == {i \in 1 .. Len(lines) : lines[i].kind = "record"}
Decided(lines) == {lines[i].id : i \in Records(lines)}
Settled(lines) == {lines[i].id : i \in 1 .. Len(lines) \ Records(lines)}

\* apply_admitted: what record and record_outcome check on a replay as well.
AdmitsDecision(lines, op) ==
    \/ /\ op.kind = "record" /\ op.id \notin Decided(lines)
       /\ op.precedents \subseteq Decided(lines)
    \/ op.kind = "outcome" /\ op.id \in Decided(lines) \ Settled(lines)

ReplaysDecisions(lines) ==
    \A i \in 1 .. Len(lines) : AdmitsDecision(SubSeq(lines, 1, i - 1), lines[i])

\* KnowledgeAnchor::capture: the last sequence number and the hash of the state.
Anchor == [seq |-> Len(kn.mem) - 1, hash |-> Replay(kn.mem)]

\* History: the anchored lines were durable when the decision was made.
Firm == kn.entry = "kept" /\ Len(kn.mem) <= kn.safe

\* Mutant: anything ever asserted may be cited.
CitesAny(st, d) ==
    d.facts \subseteq DOMAIN st.facts /\ d.relations \subseteq DOMAIN st.relations
    /\ d.evidence \subseteq st.evidence

\* validate_draft: cited facts and relations are current, evidence exists.
Cites(st, d) ==
    /\ d.facts \subseteq CurrentFacts(st)
    /\ d.relations \subseteq {r \in DOMAIN st.relations : Current(st.relations[r])}
    /\ d.evidence \subseteq st.evidence

\* MissingDecisionBasis.
HasBasis(d) == d.facts # {} \/ d.relations # {} \/ d.evidence # {} \/ d.precedents # {}

RecordOp(d) ==
    [kind |-> "record", id |-> d.id, precedents |-> d.precedents, facts |-> d.facts,
     relations |-> d.relations, evidence |-> d.evidence, anchor |-> Anchor, firm |-> Firm]
OutcomeOp(d, e) ==
    [kind |-> "outcome", id |-> d, precedents |-> {}, facts |-> {}, relations |-> {},
     evidence |-> {e}, anchor |-> Anchor, firm |-> Firm]

-----------------------------------------------------------------------------
(* The service *)

Serving == kn.handle # "closed"

\* DecisionService::open: the knowledge store, then the decision store.
Open ==
    /\ kn.handle = "closed"
    /\ AdmitsAll(Empty, kn.lines) /\ ReplaysDecisions(dn.lines)
    /\ kn' = Loaded(kn) /\ dn' = Loaded(dn)
    /\ UNCHANGED faults

\* An error on the way: the stores that were opened are dropped again.
OpenFails ==
    /\ kn.handle = "closed" /\ Fault
    /\ AdmitsAll(Empty, kn.lines)
    /\ kn' = Closed(Loaded(kn)) /\ UNCHANGED dn

\* append_knowledge of a batch that the state accepts as a whole.
AppendKnowledge(batch) ==
    /\ kn.handle = "open" /\ Len(kn.mem) + Len(batch) <= MaxLines
    /\ AdmitsAll(Replay(kn.mem), batch)
    /\ \/ kn' = Appended(kn, batch) /\ UNCHANGED faults
       \/ Fault /\ kn' \in Broken(kn, batch)
    /\ UNCHANGED dn

\* DecisionStore::append of one entry made against the knowledge in memory,
\* whether or not the knowledge store still takes appends.
AppendDecision(op) ==
    /\ dn.handle = "open" /\ kn.mem # <<>> /\ AdmitsDecision(dn.mem, op)
    /\ \/ dn' = Appended(dn, <<op>>) /\ UNCHANGED faults
       \/ Fault /\ dn' \in Broken(dn, <<op>>)
    /\ UNCHANGED kn

Record(d) ==
    /\ Serving /\ HasBasis(d)
    /\ Cites(Replay(kn.mem), d)
    /\ AppendDecision(RecordOp(d))

RecordOutcome(d, e) ==
    /\ Serving /\ e \in Replay(kn.mem).evidence
    /\ AppendDecision(OutcomeOp(d, e))

\* The process ends, for whatever reason, and is started again later.
Close ==
    /\ Serving /\ Fault /\ kn' = Closed(kn) /\ dn' = Closed(dn)

PowerLoss ==
    /\ Fault /\ kn' \in Survivors(kn) /\ dn' \in Survivors(dn)

\* The kernel writes the directory of a new file back, in its own time.
WriteBack ==
    /\ \/ kn.entry = "loose" /\ kn' = [kn EXCEPT !.entry = "kept"] /\ UNCHANGED dn
       \/ dn.entry = "loose" /\ dn' = [dn EXCEPT !.entry = "kept"] /\ UNCHANGED kn
    /\ UNCHANGED faults

Next ==
    \/ Open \/ OpenFails \/ Close \/ PowerLoss \/ WriteBack
    \/ \E b \in Batches : AppendKnowledge(b)
    \/ \E d \in Drafts : Record(d) \/ \E e \in d.outcome : RecordOutcome(d.id, e)

Spec == Init /\ [][Next]_vars

-----------------------------------------------------------------------------
(* Properties *)

KnowledgeNow == Replay(kn.mem)

\* Competing assertions are never silently merged: two facts in force that say
\* different things of one subject at one time are both in the conflict set, and
\* a resolution of it is younger than both (assert_fact, resolve_conflict).
NoSilentContradiction ==
    LET st == KnowledgeNow IN
    \A f, g \in CurrentFacts(st) :
        g \in Competing(st, st.facts[f]) =>
            LET c == Conflict(st.facts[f]) IN
            /\ c \in DOMAIN st.conflicts /\ {f, g} \subseteq st.conflicts[c].facts
            /\ st.conflicts[c].resolved > st.facts[f].at
            /\ st.conflicts[c].resolved > st.facts[g].at

\* Asking the state of now what was known at a transaction gives what the
\* journal up to that transaction says was in force (facts_at, replay_at).
HistoryMatchesReplay ==
    \A s \in 0 .. Len(kn.mem) - 1 :
        FactsVisibleAt(KnowledgeNow, s) = CurrentFacts(ReplayAt(kn.mem, s))

\* A decision stays accountable: the state it was anchored to can be rebuilt from
\* the knowledge journal whatever is lost later, and the knowledge of now shows
\* what it cites as in force at its anchor.  Two decisions are excepted: one made
\* on lines of a failed append that an open took over without a sync, and one made
\* before the entry of the new knowledge journal was on disk (KnowledgeStore::open).
AnchorSound ==
    \A i \in 1 .. Len(dn.lines) :
        LET d == dn.lines[i] IN
        d.firm => /\ kn.entry = "kept" /\ d.anchor.seq < kn.safe
                  /\ ReplayAt(kn.lines, d.anchor.seq) = d.anchor.hash
                  /\ d.facts \subseteq FactsVisibleAt(Replay(kn.lines), d.anchor.seq)
                  /\ d.evidence \subseteq ReplayAt(kn.lines, d.anchor.seq).evidence

\* What appends answered Ok for is in the file, in place and synced, as long as
\* the file is there: it is lost all together or not at all.
AckedLinesKept ==
    \A s \in {kn, dn} : s.told = SubSeq(s.lines, 1, Len(s.told)) /\ Len(s.told) <= s.safe

\* Nothing that failed appends, crashes and power losses leave makes the service
\* refuse to open: both journals replay.
AlwaysOpens == AdmitsAll(Empty, kn.lines) /\ ReplaysDecisions(dn.lines)

\* A journal keeps what it acknowledged as long as its file is there, and both
\* stay readable (append, open).
JournalsKept == AckedLinesKept /\ AlwaysOpens
=============================================================================
