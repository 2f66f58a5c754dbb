----------------------- MODULE DecisionServiceProofs ------------------------
(***************************************************************************)
(* What holds of the decision service for every set of batches and drafts  *)
(* and every number of faults.                                             *)
(*                                                                         *)
(* The first half is about the knowledge plane alone.  The states of a     *)
(* replay are those of a recursive function; by induction over the lines,  *)
(* every state of a journal that replays is `Sound`: its facts are dated   *)
(* by the lines that asserted and withdrew them, and every contradiction   *)
(* is in a conflict set whose resolution is younger than both facts.       *)
(*                                                                         *)
(* The second half is about the two journals on disk.  `ServiceInv` is     *)
(* inductive: memory stands for a prefix of each file, both files replay,  *)
(* and a decision made on durable knowledge names a durable prefix of the  *)
(* knowledge journal, which no step can take back (`Kept`).                *)
(***************************************************************************)
EXTENDS DecisionService, WellFoundedInduction, TLAPS

\* Induction over the naturals, for a set of numbers: the least number that is
\* not in it would follow one that is.
LEMMA Counting ==
    ASSUME NEW S, 0 \in S, \A k \in Nat : k \in S => k + 1 \in S
    PROVE  Nat \subseteq S
<1> DEFINE R == {p \in Nat \X Nat : p[1] < p[2]}
           T == {k \in Nat : k \notin S}
<1> SUFFICES ASSUME T # {} PROVE FALSE OBVIOUS
<1>1. IsWellFoundedOn(R, Nat) BY ZenonT(30), NatLessThanWellFounded DEF OpToRel
<1>2. PICK n \in T : \A m \in T : n <= m
  <2>1. T \subseteq Nat OBVIOUS
  <2> HIDE DEF R, T
  <2>2. PICK n \in T : \A m \in T : ~(<<m, n>> \in R) BY ZenonT(30), <1>1, <2>1, WFMin
  <2>3. \A m \in T : ~(m < n) BY ZenonT(30), <2>1, <2>2 DEF R
  <2>4. \A m \in T : n <= m BY <2>1, <2>3
  <2> QED BY ZenonT(30), <2>4
<1>3. n \in Nat /\ n # 0 BY ZenonT(30), <1>2
<1>4. n - 1 \in Nat /\ n - 1 \notin T BY <1>2, <1>3
<1>5. n - 1 \in S BY ZenonT(30), <1>4
<1>6. (n - 1) + 1 \in S BY ZenonT(30), <1>4, <1>5
<1> QED BY <1>2, <1>3, <1>6

-----------------------------------------------------------------------------
(* Replays *)

\* The recursive function States is defined by, for the first n lines of a batch.
Steps(st, b, n, f) ==
    f = [i \in 0 .. n |-> IF i = 0 THEN st ELSE After(f[i - 1], b[i])]

\* A batch has a state after each number of its lines: the recursive function
\* inside States exists.
LEMMA StepsExist ==
    ASSUME NEW st, NEW b, NEW n \in Nat
    PROVE  \E f : Steps(st, b, n, f)
<1> DEFINE S == {k \in Nat : \E f : Steps(st, b, k, f)}
<1>1. 0 \in S
  <2> DEFINE f == [i \in 0 .. 0 |-> st]
  <2>1. f = [i \in 0 .. 0 |-> IF i = 0 THEN st ELSE After(f[i - 1], b[i])] OBVIOUS
  <2>2. Steps(st, b, 0, f) BY ZenonT(30), <2>1 DEF Steps
  <2> QED BY ZenonT(30), <2>2
<1>2. ASSUME NEW k \in Nat, k \in S PROVE k + 1 \in S
  <2>1. PICK f : Steps(st, b, k, f) BY ZenonT(30), <1>2
  <2> DEFINE x == After(f[k], b[k + 1])
             h == [i \in 0 .. k + 1 |-> IF i = k + 1 THEN x ELSE f[i]]
  <2>2. \A i \in 0 .. k : f[i] = IF i = 0 THEN st ELSE After(f[i - 1], b[i])
    BY ZenonT(30), <2>1 DEF Steps
  <2>3. h[k + 1] = x /\ \A i \in 0 .. k : h[i] = f[i]
    <3> HIDE DEF x
    <3> QED OBVIOUS
  <2>4. ASSUME NEW i \in 0 .. k + 1
        PROVE  h[i] = IF i = 0 THEN st ELSE After(h[i - 1], b[i])
    <3> HIDE DEF h
    <3>1. CASE i = k + 1
      <4>1. i # 0 /\ i - 1 = k /\ k \in 0 .. k BY <3>1
      <4>2. h[i - 1] = f[k] /\ h[i] = x BY ZenonT(30), <2>3, <3>1, <4>1
      <4> QED BY ZenonT(30), <3>1, <4>1, <4>2
    <3>2. CASE i = 0
      <4>1. 0 \in 0 .. k OBVIOUS
      <4> QED BY ZenonT(30), <2>2, <2>3, <3>2, <4>1
    <3>3. CASE i # k + 1 /\ i # 0
      <4>1. i \in 0 .. k /\ i - 1 \in 0 .. k BY <3>3
      <4>2. h[i - 1] = f[i - 1] /\ h[i] = f[i] BY ZenonT(30), <2>3, <4>1
      <4> QED BY ZenonT(30), <2>2, <3>3, <4>1, <4>2
    <3> QED BY ZenonT(30), <3>1, <3>2, <3>3
  <2>5. h = [i \in 0 .. k + 1 |-> h[i]] BY ZenonT(30)
  <2> HIDE DEF h
  <2>6. h = [i \in 0 .. k + 1 |-> IF i = 0 THEN st ELSE After(h[i - 1], b[i])]
    BY ZenonT(30), <2>4, <2>5
  <2>7. Steps(st, b, k + 1, h) BY ZenonT(30), <2>6 DEF Steps
  <2> QED BY <2>7
<1>3. Nat \subseteq S
  <2> HIDE DEF S
  <2> QED BY ZenonT(30), <1>1, <1>2, Counting
<1> QED BY ZenonT(30), <1>3

\* The first state of a replay is the one it starts from, and every line is
\* applied to the state before it.
LEMMA StatesUnfold ==
    ASSUME NEW st, NEW T, NEW b \in Seq(T)
    PROVE  /\ States(st, b)[0] = st
           /\ \A i \in 1 .. Len(b) : States(st, b)[i] = After(States(st, b)[i - 1], b[i])
<1> DEFINE n == Len(b)
           u == CHOOSE u : Steps(st, b, n, u)
<1>1. n \in Nat OBVIOUS
<1>2. \E f : Steps(st, b, n, f)
  <2> HIDE DEF n
  <2> QED BY ZenonT(30), <1>1, StepsExist
<1>3. Steps(st, b, n, u) BY ZenonT(30), <1>2
<1>4. States(st, b) = u BY ZenonT(30) DEF States, Steps, n
<1> HIDE DEF u
<1>5. \A i \in 0 .. n : u[i] = IF i = 0 THEN st ELSE After(u[i - 1], b[i])
  BY ZenonT(30), <1>3 DEF Steps
<1>6. 0 \in 0 .. n /\ \A i \in 1 .. n : i \in 0 .. n /\ i # 0 BY <1>1
<1> QED BY ZenonT(30), <1>4, <1>5, <1>6 DEF n

\* Two batches that agree on their first lines, from the same state, go through
\* the same states.
LEMMA StatesAgree ==
    ASSUME NEW st, NEW T, NEW a \in Seq(T), NEW b \in Seq(T), NEW m \in Nat,
           m <= Len(a), m <= Len(b), \A i \in 1 .. m : a[i] = b[i]
    PROVE  \A k \in 0 .. m : States(st, a)[k] = States(st, b)[k]
<1> DEFINE S == {k \in Nat : k <= m => States(st, a)[k] = States(st, b)[k]}
<1>a. /\ States(st, a)[0] = st
      /\ \A i \in 1 .. Len(a) : States(st, a)[i] = After(States(st, a)[i - 1], a[i])
  BY StatesUnfold
<1>b. /\ States(st, b)[0] = st
      /\ \A i \in 1 .. Len(b) : States(st, b)[i] = After(States(st, b)[i - 1], b[i])
  BY StatesUnfold
<1>1. 0 \in S
  <2>1. States(st, a)[0] = States(st, b)[0] BY ZenonT(30), <1>a, <1>b
  <2> QED BY ZenonT(30), <2>1
<1>2. ASSUME NEW k \in Nat, k \in S PROVE k + 1 \in S
  <2>1. CASE k + 1 <= m
    <3>1. /\ k + 1 \in 1 .. Len(a) /\ k + 1 \in 1 .. Len(b) /\ (k + 1) - 1 = k
          /\ k + 1 \in 1 .. m /\ States(st, a)[k] = States(st, b)[k]
      BY <1>2, <2>1
    <3>2. a[k + 1] = b[k + 1] BY ZenonT(30), <3>1
    <3>3. /\ States(st, a)[k + 1] = After(States(st, a)[k], a[k + 1])
          /\ States(st, b)[k + 1] = After(States(st, b)[k], b[k + 1])
      BY ZenonT(30), <1>a, <1>b, <3>1
    <3>4. States(st, a)[k + 1] = States(st, b)[k + 1] BY ZenonT(30), <3>1, <3>2, <3>3
    <3> QED BY <3>4
  <2> QED BY <2>1
<1>3. Nat \subseteq S
  <2> HIDE DEF S
  <2> QED BY ZenonT(30), <1>1, <1>2, Counting
<1> QED BY <1>3

\* A batch behind another one starts from the state the first one leads to.
LEMMA StatesJoin ==
    ASSUME NEW st, NEW T, NEW a \in Seq(T), NEW b \in Seq(T)
    PROVE  LET mid == States(st, a)[Len(a)] IN
           /\ \A k \in 0 .. Len(a) : States(st, a \o b)[k] = States(st, a)[k]
           /\ \A k \in 0 .. Len(b) : States(st, a \o b)[Len(a) + k] = States(mid, b)[k]
<1> DEFINE n == Len(a)
           mid == States(st, a)[n]
           ab == a \o b
           S == {k \in Nat : k <= Len(b) => States(st, ab)[n + k] = States(mid, b)[k]}
<1>1. /\ ab \in Seq(T) /\ n \in Nat /\ Len(b) \in Nat /\ Len(ab) = n + Len(b)
      /\ \A i \in 1 .. n : ab[i] = a[i]
      /\ \A i \in 1 .. Len(b) : ab[n + i] = b[i]
  OBVIOUS
<1> HIDE DEF ab, n
<1>2. \A k \in 0 .. n : States(st, ab)[k] = States(st, a)[k]
  <2>1. n <= Len(ab) /\ n <= Len(a) BY <1>1 DEF n
  <2>2. ab \in Seq(T) BY ZenonT(30), <1>1
  <2>3. n \in Nat /\ \A i \in 1 .. n : ab[i] = a[i] BY ZenonT(30), <1>1
  <2> HIDE DEF S
  <2>4. \A m \in Nat : /\ m <= Len(ab) /\ m <= Len(a)
                       /\ \A i \in 1 .. m : ab[i] = a[i]
                       => \A k \in 0 .. m : States(st, ab)[k] = States(st, a)[k]
    BY <2>2, StatesAgree
  <2> QED BY ZenonT(30), <2>1, <2>3, <2>4
<1> HIDE DEF mid
<1>a. /\ States(st, ab)[0] = st
      /\ \A i \in 1 .. Len(ab) : States(st, ab)[i] = After(States(st, ab)[i - 1], ab[i])
  <2>1. ab \in Seq(T) BY ZenonT(30), <1>1
  <2> QED BY <2>1, StatesUnfold
<1>b. /\ States(mid, b)[0] = mid
      /\ \A i \in 1 .. Len(b) : States(mid, b)[i] = After(States(mid, b)[i - 1], b[i])
  BY StatesUnfold
<1>3. 0 \in S
  <2>1. n + 0 = n /\ n \in 0 .. n BY <1>1
  <2>2. States(st, ab)[n + 0] = mid BY ZenonT(30), <1>2, <2>1 DEF mid
  <2>3. States(mid, b)[0] = mid BY ZenonT(30), <1>b
  <2> QED BY ZenonT(30), <2>2, <2>3
<1>4. ASSUME NEW k \in Nat, k \in S PROVE k + 1 \in S
  <2>1. CASE k + 1 <= Len(b)
    <3>1. /\ k + 1 \in 1 .. Len(b) /\ n + (k + 1) \in 1 .. Len(ab) /\ (k + 1) - 1 = k
          /\ (n + (k + 1)) - 1 = n + k /\ States(st, ab)[n + k] = States(mid, b)[k]
      BY <1>1, <1>4, <2>1
    <3>2. ab[n + (k + 1)] = b[k + 1] BY ZenonT(30), <1>1, <3>1
    <3>3. States(st, ab)[n + (k + 1)] = After(States(st, ab)[n + k], ab[n + (k + 1)])
      BY ZenonT(30), <1>a, <1>1, <3>1
    <3>4. States(mid, b)[k + 1] = After(States(mid, b)[k], b[k + 1])
      BY ZenonT(30), <1>b, <3>1
    <3>5. States(st, ab)[n + (k + 1)] = States(mid, b)[k + 1]
      BY ZenonT(30), <3>1, <3>2, <3>3, <3>4
    <3> QED BY <3>5
  <2> QED BY <2>1
<1>5. Nat \subseteq S
  <2> HIDE DEF S
  <2> QED BY ZenonT(30), <1>3, <1>4, Counting
<1>6. \A k \in 0 .. Len(b) : States(st, ab)[n + k] = States(mid, b)[k] BY <1>1, <1>5
<1> QED BY ZenonT(30), <1>2, <1>6 DEF ab, n, mid

-----------------------------------------------------------------------------
(* The knowledge of a journal *)

StateFields == {"next", "sources", "evidence", "entities", "facts", "relations", "conflicts"}
FactFields == {"subject", "predicate", "object", "from", "until", "at", "out"}
ConflictFields == {"facts", "detected", "prefer", "resolved"}

\* Facts after n lines: each was asserted by one of them and, if it is no longer
\* in force, invalidated by a later one.
FactsDated(F, n) ==
    \A f \in DOMAIN F :
        /\ DOMAIN F[f] = FactFields
        /\ F[f].at \in 0 .. n - 1
        /\ F[f].out = Unset \/ F[f].out \in F[f].at + 1 .. n - 1

\* Two facts that contradict each other.
Contradict(r, s) ==
    Current(r) /\ Current(s) /\ Conflict(r) = Conflict(s) /\ r.object # s.object /\ Overlaps(r, s)

\* What the conflict sets C say of the facts F.
Exposed(F, C) ==
    \A f, g \in DOMAIN F :
        Contradict(F[f], F[g]) =>
            LET c == Conflict(F[f]) IN
            /\ c \in DOMAIN C /\ f \in C[c].facts /\ g \in C[c].facts
            /\ C[c].resolved > F[f].at /\ C[c].resolved > F[g].at

\* What holds of the state after n lines.
Sound(st, n) ==
    /\ DOMAIN st = StateFields /\ st.next = n
    /\ FactsDated(st.facts, n)
    /\ \A c \in DOMAIN st.conflicts : DOMAIN st.conflicts[c] = ConflictFields
    /\ Exposed(st.facts, st.conflicts)

\* What an operation makes of the facts and of the conflict sets.
NewFact(st, op) ==
    [subject |-> op.subject, predicate |-> op.predicate, object |-> op.object,
     from |-> op.from, until |-> op.until, at |-> st.next, out |-> Unset]
Ended(r, n) == [r EXCEPT !.out = n]
Resolved(r, p, n) == [r EXCEPT !.prefer = p, !.resolved = n]

\* The state an operation leaves, part by part.
LEMMA AfterIs ==
    ASSUME NEW st, NEW op, DOMAIN st = StateFields, Admits(st, op)
    PROVE  LET a == After(st, op) IN
           /\ DOMAIN a = StateFields /\ a.next = st.next + 1
           /\ \/ /\ op.kind = "fact" /\ op.id \notin DOMAIN st.facts
                 /\ a.facts = Set1(st.facts, op.id, NewFact(st, op))
                 /\ a.conflicts = Reopened(st, op)
              \/ /\ op.kind = "invalidate_fact" /\ op.id \in DOMAIN st.facts
                 /\ Current(st.facts[op.id])
                 /\ a.facts = [st.facts EXCEPT ![op.id] = Ended(@, st.next)]
                 /\ a.conflicts = st.conflicts
              \/ /\ op.kind = "resolve" /\ op.conflict \in DOMAIN st.conflicts
                 /\ a.facts = st.facts
                 /\ a.conflicts = [st.conflicts EXCEPT ![op.conflict] =
                                                           Resolved(@, op.prefer, st.next)]
              \/ a.facts = st.facts /\ a.conflicts = st.conflicts
<1> DEFINE a == After(st, op)
           ch == Changed(st, op)
<1>1. ASSUME DOMAIN ch = StateFields
      PROVE  /\ DOMAIN a = StateFields /\ a.next = st.next + 1
             /\ a.facts = ch.facts /\ a.conflicts = ch.conflicts
  <2> HIDE DEF ch
  <2>1. a = [ch EXCEPT !.next = st.next + 1] BY ZenonT(30) DEF After, ch
  <2> HIDE DEF a
  <2> QED BY ZenonT(30), <1>1, <2>1 DEF StateFields
<1>2. CASE op.kind = "fact" /\ op.id \notin DOMAIN st.facts
  <2>1. ch = Asserted(st, op) BY ZenonT(30), <1>2 DEF Changed
  <2>2. ch = [st EXCEPT !.facts = Set1(st.facts, op.id, NewFact(st, op)),
                        !.conflicts = Reopened(st, op)]
    BY ZenonT(30), <2>1 DEF Asserted, NewFact
  <2> HIDE DEF ch, a
  <2>3. /\ DOMAIN ch = StateFields
        /\ ch.facts = Set1(st.facts, op.id, NewFact(st, op))
        /\ ch.conflicts = Reopened(st, op)
    BY ZenonT(30), <2>2 DEF StateFields
  <2> QED BY ZenonT(30), <1>1, <1>2, <2>3 DEF a
<1>3. CASE op.kind = "invalidate_fact" /\ op.id \in DOMAIN st.facts /\ Current(st.facts[op.id])
  <2>1. ch = [st EXCEPT !.facts[op.id].out = st.next] BY ZenonT(30), <1>3 DEF Changed
  <2> HIDE DEF ch, a
  <2>2. /\ DOMAIN ch = StateFields /\ ch.conflicts = st.conflicts
        /\ ch.facts = [st.facts EXCEPT ![op.id] = Ended(@, st.next)]
    BY ZenonT(30), <2>1 DEF StateFields, Ended
  <2> QED BY ZenonT(30), <1>1, <1>3, <2>2 DEF a
<1>4. CASE op.kind = "resolve" /\ op.conflict \in DOMAIN st.conflicts
  <2>1. ch = [st EXCEPT !.conflicts[op.conflict].prefer = op.prefer,
                        !.conflicts[op.conflict].resolved = st.next]
    BY ZenonT(30), <1>4 DEF Changed
  <2> HIDE DEF ch, a
  <2>2. /\ DOMAIN ch = StateFields /\ ch.facts = st.facts
        /\ ch.conflicts = [st.conflicts EXCEPT ![op.conflict] = Resolved(@, op.prefer, st.next)]
    BY ZenonT(30), <2>1 DEF StateFields, Resolved
  <2> QED BY ZenonT(30), <1>1, <1>4, <2>2 DEF a
<1>5. CASE op.kind \in {"source", "evidence", "entity", "relation", "invalidate_relation"}
  <2>1. DOMAIN ch = StateFields /\ ch.facts = st.facts /\ ch.conflicts = st.conflicts
    <3>1. CASE op.kind = "source" BY ZenonT(30), <3>1 DEF Changed, StateFields
    <3>2. CASE op.kind = "evidence" BY ZenonT(30), <3>2 DEF Changed, StateFields
    <3>3. CASE op.kind = "entity" BY ZenonT(30), <3>3 DEF Changed, StateFields
    <3>4. CASE op.kind = "relation" BY ZenonT(30), <3>4 DEF Changed, StateFields
    <3>5. CASE op.kind = "invalidate_relation" BY ZenonT(30), <3>5 DEF Changed, StateFields
    <3> QED BY ZenonT(30), <1>5, <3>1, <3>2, <3>3, <3>4, <3>5
  <2> HIDE DEF ch, a
  <2> QED BY ZenonT(30), <1>1, <2>1 DEF a
<1> QED BY ZenonT(30), <1>2, <1>3, <1>4, <1>5 DEF Admits

\* An assertion keeps the state sound: whoever it contradicts is in the conflict
\* set it joins, and the set is open again.
LEMMA AssertedSound ==
    ASSUME NEW st, NEW op, NEW n \in Nat, n < Unset, Sound(st, n), op.id \notin DOMAIN st.facts
    PROVE  LET F == Set1(st.facts, op.id, NewFact(st, op))
               C == Reopened(st, op) IN
           /\ FactsDated(F, n + 1) /\ Exposed(F, C)
           /\ \A c \in DOMAIN C : DOMAIN C[c] = ConflictFields
<1> DEFINE F == Set1(st.facts, op.id, NewFact(st, op))
           C == Reopened(st, op)
           new == NewFact(st, op)
           rivals == Competing(st, op)
           d == Conflict(op)
<1>1. /\ DOMAIN F = DOMAIN st.facts \cup {op.id} /\ F[op.id] = new
      /\ \A f \in DOMAIN st.facts : F[f] = st.facts[f]
  <2> HIDE DEF new
  <2> QED BY ZenonT(30) DEF Set1, new
<1>2. /\ DOMAIN new = FactFields /\ new.at = n /\ new.out = Unset
      /\ new.subject = op.subject /\ new.predicate = op.predicate /\ new.object = op.object
      /\ new.from = op.from /\ new.until = op.until
  BY ZenonT(30) DEF NewFact, Sound, FactFields
<1> HIDE DEF F, new
<1>3. FactsDated(F, n + 1)
  <2> SUFFICES ASSUME NEW f \in DOMAIN F
               PROVE  /\ DOMAIN F[f] = FactFields /\ F[f].at \in 0 .. n
                      /\ F[f].out = Unset \/ F[f].out \in F[f].at + 1 .. n
    BY DEF FactsDated
  <2>1. CASE f = op.id BY <1>1, <1>2, <2>1
  <2>2. CASE f \in DOMAIN st.facts BY <1>1, <2>2 DEF Sound, FactsDated
  <2> QED BY ZenonT(30), <1>1, <2>1, <2>2
<1>4. /\ rivals = {} => C = st.conflicts
      /\ rivals # {} =>
            /\ DOMAIN C = DOMAIN st.conflicts \cup {d}
            /\ DOMAIN C[d] = ConflictFields /\ C[d].resolved = Unset
            /\ rivals \subseteq C[d].facts /\ op.id \in C[d].facts
            /\ d \in DOMAIN st.conflicts => st.conflicts[d].facts \subseteq C[d].facts
            /\ \A c \in DOMAIN st.conflicts : c # d => C[c] = st.conflicts[c]
  <2> HIDE DEF rivals, d
  <2>1. CASE rivals = {} BY ZenonT(30), <2>1 DEF Reopened, rivals, d
  <2>2. CASE rivals # {}
    <3> DEFINE known == IF d \in DOMAIN st.conflicts THEN st.conflicts[d].facts ELSE {}
               found == IF d \in DOMAIN st.conflicts THEN st.conflicts[d].detected ELSE st.next
               r == [facts |-> known \cup rivals \cup {op.id}, detected |-> found,
                     prefer |-> {}, resolved |-> Unset]
    <3>1. C = Set1(st.conflicts, d, r) BY ZenonT(30), <2>2 DEF Reopened, rivals, d
    <3>2. /\ DOMAIN r = ConflictFields /\ r.resolved = Unset
          /\ r.facts = known \cup rivals \cup {op.id}
      <4> HIDE DEF known, found
      <4> QED BY ZenonT(30) DEF ConflictFields
    <3> HIDE DEF r, C
    <3>3. /\ DOMAIN C = DOMAIN st.conflicts \cup {d} /\ C[d] = r
          /\ \A c \in DOMAIN st.conflicts : c # d => C[c] = st.conflicts[c]
      BY ZenonT(30), <3>1 DEF Set1
    <3> QED BY ZenonT(30), <2>2, <3>2, <3>3
  <2> QED BY ZenonT(30), <2>1, <2>2
<1> HIDE DEF C, rivals, d
<1>5. \A c \in DOMAIN C : DOMAIN C[c] = ConflictFields BY ZenonT(30), <1>4 DEF Sound
<1>6. Exposed(F, C)
  <2> SUFFICES ASSUME NEW f \in DOMAIN F, NEW g \in DOMAIN F, Contradict(F[f], F[g])
               PROVE  LET c == Conflict(F[f]) IN
                      /\ c \in DOMAIN C /\ f \in C[c].facts /\ g \in C[c].facts
                      /\ C[c].resolved > F[f].at /\ C[c].resolved > F[g].at
    BY ZenonT(30) DEF Exposed
  <2> DEFINE c == Conflict(F[f])
  <2>1. F[f].at \in 0 .. n /\ F[g].at \in 0 .. n BY <1>3 DEF FactsDated
  <2>2. Unset > F[f].at /\ Unset > F[g].at BY <2>1 DEF Unset
  <2>3. Conflict(new) = d BY <1>2 DEF Conflict, d
  <2>4. CASE f = op.id /\ g # op.id
    <3>1. g \in DOMAIN st.facts /\ F[g] = st.facts[g] /\ F[f] = new BY <1>1, <2>4
    <3>2. Contradict(new, st.facts[g]) BY <3>1
    <3>3. g \in rivals BY <1>2, <3>1, <3>2 DEF Contradict, rivals, Competing, Overlaps, Conflict
    <3>4. c = d BY <2>3, <3>1
    <3> QED BY <1>4, <2>2, <2>4, <3>3, <3>4
  <2>5. CASE f # op.id /\ g = op.id
    <3>1. f \in DOMAIN st.facts /\ F[f] = st.facts[f] /\ F[g] = new BY <1>1, <2>5
    <3>2. Contradict(st.facts[f], new) BY <3>1
    <3>3. f \in rivals BY <1>2, <3>1, <3>2 DEF Contradict, rivals, Competing, Overlaps, Conflict
    <3>4. c = d BY <2>3, <3>1, <3>2 DEF Contradict
    <3> QED BY <1>4, <2>2, <2>5, <3>3, <3>4
  <2>6. CASE f = op.id /\ g = op.id BY <2>6 DEF Contradict
  <2>7. CASE f # op.id /\ g # op.id
    <3>1. /\ f \in DOMAIN st.facts /\ F[f] = st.facts[f]
          /\ g \in DOMAIN st.facts /\ F[g] = st.facts[g]
      BY <1>1, <2>7
    <3>2. /\ c \in DOMAIN st.conflicts
          /\ f \in st.conflicts[c].facts /\ g \in st.conflicts[c].facts
          /\ st.conflicts[c].resolved > F[f].at /\ st.conflicts[c].resolved > F[g].at
      <4>1. Exposed(st.facts, st.conflicts) BY DEF Sound
      <4> QED BY ZenonT(30), <3>1, <4>1 DEF Exposed
    <3> HIDE DEF c
    <3>3. ASSUME rivals = {} \/ c # d PROVE c \in DOMAIN C /\ C[c] = st.conflicts[c]
      BY <1>4, <3>2, <3>3
    <3>4. ASSUME rivals # {}, c = d
          PROVE  /\ c \in DOMAIN C /\ C[c].resolved = Unset
                 /\ st.conflicts[c].facts \subseteq C[c].facts
      BY <1>4, <3>2, <3>4
    <3>5. /\ c \in DOMAIN C /\ f \in C[c].facts /\ g \in C[c].facts
          /\ C[c].resolved > F[f].at /\ C[c].resolved > F[g].at
      BY <2>2, <3>2, <3>3, <3>4
    <3> QED BY <3>5 DEF c
  <2> QED BY ZenonT(30), <2>4, <2>5, <2>6, <2>7
<1> QED BY ZenonT(30), <1>3, <1>5, <1>6 DEF F, C

\* Every operation that apply accepts keeps the state sound, and what was in force
\* at an earlier transaction stays what it was.
LEMMA StepSound ==
    ASSUME NEW st, NEW op, NEW n \in Nat, n < Unset, Sound(st, n), Admits(st, op)
    PROVE  /\ Sound(After(st, op), n + 1)
           /\ \A s \in 0 .. n - 1 : FactsVisibleAt(After(st, op), s) = FactsVisibleAt(st, s)
<1> DEFINE a == After(st, op)
           F == st.facts
           C == st.conflicts
<1>1. /\ DOMAIN st = StateFields /\ st.next = n /\ FactsDated(F, n) /\ Exposed(F, C)
      /\ \A c \in DOMAIN C : DOMAIN C[c] = ConflictFields
  BY DEF Sound
<1>2. ASSUME FactsDated(a.facts, n + 1), Exposed(a.facts, a.conflicts), DOMAIN a = StateFields,
             a.next = st.next + 1, \A c \in DOMAIN a.conflicts : DOMAIN a.conflicts[c] = ConflictFields
      PROVE  Sound(a, n + 1)
  BY ZenonT(30), <1>1, <1>2 DEF Sound
<1>3. ASSUME a.facts = F PROVE \A s \in 0 .. n - 1 : FactsVisibleAt(a, s) = FactsVisibleAt(st, s)
  BY ZenonT(30), <1>3 DEF FactsVisibleAt
<1>4. FactsDated(F, n + 1) BY <1>1 DEF FactsDated
<1>5. /\ DOMAIN a = StateFields /\ a.next = st.next + 1
      /\ \/ /\ op.kind = "fact" /\ op.id \notin DOMAIN F
            /\ a.facts = Set1(F, op.id, NewFact(st, op)) /\ a.conflicts = Reopened(st, op)
         \/ /\ op.kind = "invalidate_fact" /\ op.id \in DOMAIN F /\ Current(F[op.id])
            /\ a.facts = [F EXCEPT ![op.id] = Ended(@, n)] /\ a.conflicts = C
         \/ /\ op.kind = "resolve" /\ op.conflict \in DOMAIN C /\ a.facts = F
            /\ a.conflicts = [C EXCEPT ![op.conflict] = Resolved(@, op.prefer, n)]
         \/ a.facts = F /\ a.conflicts = C
  BY <1>1, AfterIs
<1> HIDE DEF a, F, C
<1>6. CASE /\ op.kind = "fact" /\ op.id \notin DOMAIN F
           /\ a.facts = Set1(F, op.id, NewFact(st, op)) /\ a.conflicts = Reopened(st, op)
  <2>1. /\ FactsDated(a.facts, n + 1) /\ Exposed(a.facts, a.conflicts)
        /\ \A c \in DOMAIN a.conflicts : DOMAIN a.conflicts[c] = ConflictFields
    BY ZenonT(30), <1>6, AssertedSound DEF F
  <2>2. NewFact(st, op).at = n BY <1>1 DEF NewFact
  <2>3. /\ DOMAIN a.facts = DOMAIN F \cup {op.id} /\ a.facts[op.id].at = n
        /\ \A f \in DOMAIN F : a.facts[f] = F[f]
    BY <1>6, <2>2 DEF Set1
  <2>4. ASSUME NEW s \in 0 .. n - 1 PROVE FactsVisibleAt(a, s) = FactsVisibleAt(st, s)
    <3>1. ~(n <= s) BY <2>4
    <3>2. ~VisibleAt(a.facts[op.id], s) BY <2>3, <3>1 DEF VisibleAt
    <3> QED BY ZenonT(30), <2>3, <3>2 DEF FactsVisibleAt, F
  <2> QED BY ZenonT(30), <1>2, <1>5, <2>1, <2>4 DEF a
<1>7. CASE /\ op.kind = "invalidate_fact" /\ op.id \in DOMAIN F /\ Current(F[op.id])
           /\ a.facts = [F EXCEPT ![op.id] = Ended(@, n)] /\ a.conflicts = C
  <2> DEFINE r == F[op.id]
             e == Ended(r, n)
  <2>1. DOMAIN r = FactFields /\ r.at \in 0 .. n - 1 /\ r.out = Unset
    BY <1>1, <1>7 DEF FactsDated, Current
  <2>2. DOMAIN e = FactFields /\ e.at = r.at /\ e.out = n
    <3> HIDE DEF r
    <3> QED BY <2>1 DEF Ended, FactFields
  <2>3. /\ DOMAIN a.facts = DOMAIN F /\ a.facts[op.id] = e
        /\ \A f \in DOMAIN F : f # op.id => a.facts[f] = F[f]
    <3> HIDE DEF e
    <3> QED BY <1>7 DEF e
  <2> HIDE DEF e, r
  <2>4. FactsDated(a.facts, n + 1)
    <3> SUFFICES ASSUME NEW f \in DOMAIN F
                 PROVE  LET x == a.facts[f] IN
                        /\ DOMAIN x = FactFields /\ x.at \in 0 .. n
                        /\ x.out = Unset \/ x.out \in x.at + 1 .. n
      BY <2>3 DEF FactsDated
    <3>1. CASE f = op.id BY <2>1, <2>2, <2>3, <3>1
    <3>2. CASE f # op.id BY <1>4, <2>3, <3>2 DEF FactsDated
    <3> QED BY <3>1, <3>2
  <2>5. ~Current(e) BY <2>2 DEF Current
  <2>6. Exposed(a.facts, a.conflicts)
    <3>1. ASSUME NEW f \in DOMAIN F, NEW g \in DOMAIN F, Contradict(a.facts[f], a.facts[g])
          PROVE  a.facts[f] = F[f] /\ a.facts[g] = F[g]
      BY ZenonT(30), <2>3, <2>5, <3>1 DEF Contradict
    <3>2. Exposed(F, C) /\ DOMAIN a.facts = DOMAIN F /\ a.conflicts = C BY <1>1, <1>7, <2>3
    <3> DEFINE A == a.facts
    <3>3. DOMAIN A = DOMAIN F
          /\ \A f, g \in DOMAIN F : Contradict(A[f], A[g]) => A[f] = F[f] /\ A[g] = F[g]
      BY ZenonT(30), <3>1, <3>2
    <3> HIDE DEF A
    <3>4. Exposed(A, C) BY ZenonT(30), <3>2, <3>3 DEF Exposed
    <3> QED BY ZenonT(30), <3>2, <3>4 DEF A
  <2>7. ASSUME NEW s \in 0 .. n - 1 PROVE FactsVisibleAt(a, s) = FactsVisibleAt(st, s)
    <3>1. s < n /\ s < Unset BY <2>7 DEF Unset
    <3>2. VisibleAt(e, s) <=> VisibleAt(r, s) BY <2>1, <2>2, <3>1 DEF VisibleAt
    <3>3. \A f \in DOMAIN F : VisibleAt(a.facts[f], s) <=> VisibleAt(F[f], s)
      BY ZenonT(30), <2>3, <3>2 DEF r
    <3> QED BY ZenonT(30), <2>3, <3>3 DEF FactsVisibleAt, F
  <2> QED BY ZenonT(30), <1>1, <1>2, <1>5, <1>7, <2>4, <2>6, <2>7 DEF a
<1>8. CASE /\ op.kind = "resolve" /\ op.conflict \in DOMAIN C /\ a.facts = F
           /\ a.conflicts = [C EXCEPT ![op.conflict] = Resolved(@, op.prefer, n)]
  <2> DEFINE d == op.conflict
             e == Resolved(C[d], op.prefer, n)
  <2>1. DOMAIN C[d] = ConflictFields BY <1>1, <1>8
  <2>2. DOMAIN e = ConflictFields /\ e.facts = C[d].facts /\ e.resolved = n
    BY <2>1 DEF Resolved, ConflictFields
  <2>3. /\ DOMAIN a.conflicts = DOMAIN C /\ a.conflicts[d] = e
        /\ \A c \in DOMAIN C : c # d => a.conflicts[c] = C[c]
    <3> HIDE DEF e
    <3> QED BY <1>8 DEF e
  <2> HIDE DEF e, d
  <2>4. \A c \in DOMAIN a.conflicts : DOMAIN a.conflicts[c] = ConflictFields
    BY ZenonT(30), <1>1, <2>2, <2>3
  <2>5. Exposed(a.facts, a.conflicts)
    <3> SUFFICES ASSUME NEW f \in DOMAIN F, NEW g \in DOMAIN F, Contradict(F[f], F[g])
                 PROVE  LET c == Conflict(F[f])
                            x == a.conflicts[c] IN
                        /\ c \in DOMAIN a.conflicts /\ f \in x.facts /\ g \in x.facts
                        /\ x.resolved > F[f].at /\ x.resolved > F[g].at
      BY ZenonT(30), <1>8 DEF Exposed
    <3> DEFINE c == Conflict(F[f])
    <3>1. /\ c \in DOMAIN C /\ f \in C[c].facts /\ g \in C[c].facts
          /\ C[c].resolved > F[f].at /\ C[c].resolved > F[g].at
      BY ZenonT(30), <1>1 DEF Exposed
    <3> HIDE DEF c
    <3>2. F[f].at \in 0 .. n - 1 /\ F[g].at \in 0 .. n - 1 BY <1>1 DEF FactsDated
    <3>3. n > F[f].at /\ n > F[g].at BY <3>2
    <3>4. /\ c \in DOMAIN a.conflicts /\ f \in a.conflicts[c].facts /\ g \in a.conflicts[c].facts
          /\ a.conflicts[c].resolved > F[f].at /\ a.conflicts[c].resolved > F[g].at
      <4>1. CASE c = d BY ZenonT(30), <2>2, <2>3, <3>1, <3>3, <4>1
      <4>2. CASE c # d BY ZenonT(30), <2>3, <3>1, <4>2
      <4> QED BY ZenonT(30), <4>1, <4>2
    <3> QED BY ZenonT(30), <3>4 DEF c
  <2>6. FactsDated(a.facts, n + 1) BY <1>4, <1>8
  <2> QED BY ZenonT(30), <1>2, <1>3, <1>5, <1>8, <2>4, <2>5, <2>6 DEF a, F
<1>9. CASE a.facts = F /\ a.conflicts = C
  <2>1. /\ FactsDated(a.facts, n + 1) /\ Exposed(a.facts, a.conflicts)
        /\ \A c \in DOMAIN a.conflicts : DOMAIN a.conflicts[c] = ConflictFields
    BY ZenonT(30), <1>1, <1>4, <1>9
  <2> QED BY ZenonT(30), <1>2, <1>3, <1>5, <1>9, <2>1 DEF a, F
<1> QED BY ZenonT(30), <1>5, <1>6, <1>7, <1>8, <1>9

\* What is visible at the last transaction is what is in force.
LEMMA VisibleNow ==
    ASSUME NEW st, NEW n \in Nat, n < Unset, Sound(st, n + 1)
    PROVE  FactsVisibleAt(st, n) = CurrentFacts(st)
<1> SUFFICES ASSUME NEW f \in DOMAIN st.facts
             PROVE  VisibleAt(st.facts[f], n) <=> Current(st.facts[f])
  BY ZenonT(30) DEF FactsVisibleAt, CurrentFacts
<1>1. /\ st.facts[f].at \in 0 .. n
      /\ st.facts[f].out = Unset \/ st.facts[f].out \in st.facts[f].at + 1 .. n
  BY DEF Sound, FactsDated
<1> QED BY <1>1 DEF VisibleAt, Current, Unset

\* The state a prefix of a journal leads to.
LEMMA PrefixStates ==
    ASSUME NEW st, NEW T, NEW J \in Seq(T), NEW m \in 0 .. Len(J)
    PROVE  /\ SubSeq(J, 1, m) \in Seq(T) /\ Len(SubSeq(J, 1, m)) = m
           /\ \A k \in 0 .. m : States(st, SubSeq(J, 1, m))[k] = States(st, J)[k]
<1> DEFINE P == SubSeq(J, 1, m)
<1>1. P \in Seq(T) /\ Len(P) = m /\ m \in Nat /\ m <= Len(J) /\ \A i \in 1 .. m : P[i] = J[i]
  OBVIOUS
<1> HIDE DEF P
<1>2. P \in Seq(T) /\ m <= Len(P) BY <1>1
<1>3. \A x \in Nat : /\ x <= Len(P) /\ x <= Len(J)
                     /\ \A i \in 1 .. x : P[i] = J[i]
                     => \A k \in 0 .. x : States(st, P)[k] = States(st, J)[k]
  BY <1>2, StatesAgree
<1>4. \A k \in 0 .. m : States(st, P)[k] = States(st, J)[k] BY ZenonT(30), <1>1, <1>2, <1>3
<1> QED BY ZenonT(30), <1>1, <1>4 DEF P

\* replay_at gives the state the journal was in.
LEMMA ReplayAtIs ==
    ASSUME NEW T, NEW J \in Seq(T), NEW s \in 0 .. Len(J) - 1
    PROVE  ReplayAt(J, s) = States(Empty, J)[s + 1]
<1>1. s + 1 \in 0 .. Len(J) /\ s + 1 \in 0 .. s + 1 OBVIOUS
<1>2. /\ Len(SubSeq(J, 1, s + 1)) = s + 1
      /\ \A k \in 0 .. s + 1 : States(Empty, SubSeq(J, 1, s + 1))[k] = States(Empty, J)[k]
  BY <1>1, PrefixStates
<1> QED BY ZenonT(30), <1>1, <1>2 DEF ReplayAt, Replay

\* A prefix of a batch that is accepted is accepted.
LEMMA AdmitsPrefix ==
    ASSUME NEW st, NEW T, NEW J \in Seq(T), NEW m \in 0 .. Len(J), AdmitsAll(st, J)
    PROVE  AdmitsAll(st, SubSeq(J, 1, m))
<1> DEFINE P == SubSeq(J, 1, m)
<1>1. P \in Seq(T) /\ Len(P) = m /\ \A k \in 0 .. m : States(st, P)[k] = States(st, J)[k]
  BY PrefixStates
<1>2. \A i \in 1 .. m : i \in 1 .. Len(J) /\ i - 1 \in 0 .. m /\ P[i] = J[i] OBVIOUS
<1> HIDE DEF P
<1>3. \A i \in 1 .. Len(P) : Admits(States(st, P)[i - 1], P[i])
  BY ZenonT(30), <1>1, <1>2 DEF AdmitsAll
<1> QED BY ZenonT(30), <1>3 DEF AdmitsAll, P

\* A batch that the state of a journal accepts may follow it.
LEMMA AdmitsJoin ==
    ASSUME NEW st, NEW T, NEW a \in Seq(T), NEW b \in Seq(T),
           AdmitsAll(st, a), AdmitsAll(States(st, a)[Len(a)], b)
    PROVE  AdmitsAll(st, a \o b)
<1> DEFINE n == Len(a)
           mid == States(st, a)[n]
           ab == a \o b
<1>1. /\ n \in Nat /\ Len(b) \in Nat /\ Len(ab) = n + Len(b)
      /\ \A i \in 1 .. n : ab[i] = a[i]
      /\ \A i \in 1 .. Len(b) : ab[n + i] = b[i]
  OBVIOUS
<1>2. /\ \A k \in 0 .. n : States(st, ab)[k] = States(st, a)[k]
      /\ \A k \in 0 .. Len(b) : States(st, ab)[n + k] = States(mid, b)[k]
  BY StatesJoin
<1>3. AdmitsAll(mid, b) OBVIOUS
<1> HIDE DEF ab, n, mid
<1>4. ASSUME NEW i \in 1 .. Len(ab) PROVE Admits(States(st, ab)[i - 1], ab[i])
  <2>1. CASE i <= n
    <3>1. i \in 1 .. n /\ i - 1 \in 0 .. n BY <1>1, <2>1
    <3>2. Admits(States(st, a)[i - 1], a[i]) BY ZenonT(30), <3>1 DEF AdmitsAll, n
    <3> QED BY ZenonT(30), <1>1, <1>2, <3>1, <3>2
  <2>2. CASE i > n
    <3> DEFINE j == i - n
    <3>1. j \in 1 .. Len(b) /\ j - 1 \in 0 .. Len(b) /\ i = n + j /\ i - 1 = n + (j - 1)
      BY <1>1, <2>2
    <3> HIDE DEF j
    <3>2. Admits(States(mid, b)[j - 1], b[j]) BY ZenonT(30), <1>3, <3>1 DEF AdmitsAll
    <3>3. ab[i] = b[j] /\ States(st, ab)[i - 1] = States(mid, b)[j - 1]
      BY ZenonT(30), <1>1, <1>2, <3>1
    <3> QED BY ZenonT(30), <3>2, <3>3
  <2> QED BY <1>1, <2>1, <2>2
<1> QED BY ZenonT(30), <1>4 DEF AdmitsAll, ab

\* Every state of a journal that replays is sound, and shows at each earlier
\* transaction what was in force there.
LEMMA JournalSound ==
    ASSUME NEW T, NEW J \in Seq(T), Len(J) <= Unset, AdmitsAll(Empty, J)
    PROVE  \A k \in 0 .. Len(J) :
               /\ Sound(States(Empty, J)[k], k)
               /\ \A s \in 0 .. k - 1 :
                      FactsVisibleAt(States(Empty, J)[k], s) = CurrentFacts(States(Empty, J)[s + 1])
<1> DEFINE St == States(Empty, J)
           Good(k) == /\ Sound(St[k], k)
                      /\ \A s \in 0 .. k - 1 : FactsVisibleAt(St[k], s) = CurrentFacts(St[s + 1])
           S == {k \in Nat : k <= Len(J) => Good(k)}
<1>1. /\ St[0] = Empty
      /\ \A i \in 1 .. Len(J) : St[i] = After(St[i - 1], J[i])
  BY StatesUnfold
<1>2. \A i \in 1 .. Len(J) : Admits(St[i - 1], J[i]) BY ZenonT(30) DEF AdmitsAll
<1>3. Len(J) \in Nat OBVIOUS
<1> HIDE DEF St
<1>4. Good(0)
  <2>1. DOMAIN Empty = StateFields /\ Empty.next = 0 /\ Empty.facts = Nothing
          /\ Empty.conflicts = Nothing
    BY DEF Empty, StateFields
  <2>2. DOMAIN Nothing = {} BY DEF Nothing
  <2>3. Sound(Empty, 0) BY ZenonT(30), <2>1, <2>2 DEF Sound, FactsDated, Exposed
  <2>4. 0 .. 0 - 1 = {} OBVIOUS
  <2> QED BY ZenonT(30), <1>1, <2>3, <2>4
<1>5. ASSUME NEW k \in Nat, k + 1 <= Len(J), Good(k) PROVE Good(k + 1)
  <2> DEFINE st == St[k]
             op == J[k + 1]
             a == St[k + 1]
  <2>1. k + 1 \in 1 .. Len(J) /\ (k + 1) - 1 = k /\ k < Unset BY <1>3, <1>5 DEF Unset
  <2>2. a = After(st, op) /\ Admits(st, op) BY ZenonT(30), <1>1, <1>2, <2>1
  <2>3. Sound(st, k) /\ \A s \in 0 .. k - 1 : FactsVisibleAt(st, s) = CurrentFacts(St[s + 1])
    BY <1>5
  <2> HIDE DEF st, op, a, Good
  <2>4. Sound(a, k + 1) /\ \A s \in 0 .. k - 1 : FactsVisibleAt(a, s) = FactsVisibleAt(st, s)
    BY ZenonT(30), <2>1, <2>2, <2>3, StepSound
  <2>5. FactsVisibleAt(a, k) = CurrentFacts(a) BY ZenonT(30), <2>1, <2>4, VisibleNow
  <2>6. ASSUME NEW s \in 0 .. k PROVE FactsVisibleAt(a, s) = CurrentFacts(St[s + 1])
    <3>1. s \in 0 .. k - 1 \/ s = k OBVIOUS
    <3> QED BY ZenonT(30), <2>3, <2>4, <2>5, <3>1 DEF a
  <2>7. (k + 1) - 1 = k OBVIOUS
  <2> QED BY ZenonT(30), <2>4, <2>6, <2>7 DEF Good, a
<1> HIDE DEF Good
<1>6. 0 \in S BY <1>4
<1>7. ASSUME NEW k \in Nat, k \in S PROVE k + 1 \in S
  <2>1. CASE k + 1 <= Len(J)
    <3>1. k <= Len(J) BY <1>3, <2>1
    <3>2. Good(k + 1) BY ZenonT(30), <1>5, <1>7, <2>1, <3>1
    <3> QED BY <3>2
  <2> QED BY <2>1
<1>8. Nat \subseteq S
  <2> HIDE DEF S
  <2> QED BY <1>6, <1>7, Counting
<1>9. \A k \in 0 .. Len(J) : Good(k) BY <1>3, <1>8
<1> QED BY ZenonT(30), <1>9 DEF Good, St

\* The state of a whole journal: no contradiction is hidden, and asking it about a
\* transaction gives what the journal up to there says.
LEMMA ReplaySound ==
    ASSUME NEW T, NEW J \in Seq(T), Len(J) <= Unset, AdmitsAll(Empty, J)
    PROVE  /\ Sound(Replay(J), Len(J))
           /\ \A s \in 0 .. Len(J) - 1 : FactsVisibleAt(Replay(J), s) = CurrentFacts(ReplayAt(J, s))
<1>1. Len(J) \in 0 .. Len(J) OBVIOUS
<1>2. /\ Sound(Replay(J), Len(J))
      /\ \A s \in 0 .. Len(J) - 1 : FactsVisibleAt(Replay(J), s) = CurrentFacts(States(Empty, J)[s + 1])
  BY ZenonT(30), <1>1, JournalSound DEF Replay
<1>3. \A s \in 0 .. Len(J) - 1 : ReplayAt(J, s) = States(Empty, J)[s + 1] BY ReplayAtIs
<1> QED BY ZenonT(30), <1>2, <1>3

-----------------------------------------------------------------------------
(* Decision journals *)

\* A prefix of a decision journal that replays does so.
LEMMA DecisionsPrefix ==
    ASSUME NEW T, NEW J \in Seq(T), NEW m \in 0 .. Len(J), ReplaysDecisions(J)
    PROVE  ReplaysDecisions(SubSeq(J, 1, m))
<1> DEFINE P == SubSeq(J, 1, m)
<1>1. Len(P) = m /\ \A i \in 1 .. m : i \in 1 .. Len(J) /\ P[i] = J[i] OBVIOUS
<1>2. \A i \in 1 .. m : SubSeq(P, 1, i - 1) = SubSeq(J, 1, i - 1) OBVIOUS
<1> HIDE DEF P
<1>3. \A i \in 1 .. Len(P) : AdmitsDecision(SubSeq(P, 1, i - 1), P[i])
  BY ZenonT(30), <1>1, <1>2 DEF ReplaysDecisions
<1> QED BY ZenonT(30), <1>3 DEF ReplaysDecisions, P

\* So does one with an entry behind it that was admitted.
LEMMA DecisionsAppend ==
    ASSUME NEW T, NEW J \in Seq(T), NEW op \in T, ReplaysDecisions(J), AdmitsDecision(J, op)
    PROVE  ReplaysDecisions(J \o <<op>>)
<1> DEFINE K == J \o <<op>>
           n == Len(J)
<1>1. n \in Nat /\ Len(K) = n + 1 /\ K[n + 1] = op /\ \A i \in 1 .. n : K[i] = J[i] OBVIOUS
<1>2. SubSeq(K, 1, n) = J OBVIOUS
<1>3. \A i \in 1 .. n : SubSeq(K, 1, i - 1) = SubSeq(J, 1, i - 1) OBVIOUS
<1> HIDE DEF K
<1>4. ASSUME NEW i \in 1 .. Len(K) PROVE AdmitsDecision(SubSeq(K, 1, i - 1), K[i])
  <2>1. CASE i = n + 1
    <3>1. i - 1 = n BY <1>1, <2>1
    <3> QED BY ZenonT(30), <1>1, <1>2, <2>1, <3>1
  <2>2. CASE i # n + 1
    <3>1. i \in 1 .. n BY <1>1, <2>2
    <3> QED BY ZenonT(30), <1>1, <1>3, <3>1 DEF ReplaysDecisions, n
  <2> QED BY ZenonT(30), <2>1, <2>2
<1> QED BY ZenonT(30), <1>4 DEF ReplaysDecisions, K

-----------------------------------------------------------------------------
(* The inductive invariant of the service *)

\* The operations of the batches.
Ops == UNION {{b[i] : i \in 1 .. Len(b)} : b \in Batches}

\* The journal stays shorter than the number that stands for "none", and batches
\* are sequences.
ServiceSane == MaxLines \in Nat /\ MaxLines <= Unset /\ \A b \in Batches : b \in Seq(Ops)

\* What a decision journal is made of.
Anchors == {[seq |-> Len(J) - 1, hash |-> Replay(J)] : J \in Seq(Ops)}
Recorded ==
    {[kind |-> "record", id |-> d.id, precedents |-> d.precedents, facts |-> d.facts,
      relations |-> d.relations, evidence |-> d.evidence, anchor |-> a, firm |-> f] :
        d \in Drafts, a \in Anchors, f \in BOOLEAN}
DraftIds == {d.id : d \in Drafts}
Reports == {{e} : e \in UNION {d.outcome : d \in Drafts}}
Outcomes ==
    [kind : {"outcome"}, id : DraftIds, precedents : {{}}, facts : {{}}, relations : {{}},
     evidence : Reports, anchor : Anchors, firm : BOOLEAN]
Entries == Recorded \cup Outcomes

Store(Q) ==
    [handle : {"closed", "open", "poisoned"}, entry : {"none", "loose", "kept"}, lines : Seq(Q),
     torn : BOOLEAN, safe : Nat, mem : Seq(Q), told : Seq(Q)]

ServiceTypes == kn \in Store(Ops) /\ dn \in Store(Entries) /\ faults \in Nat

\* A store: its memory stands for a prefix of the file, for all of it as long as no
\* append failed, and what it acknowledged is a durable prefix.
StoreKept(s) ==
    /\ s.safe <= Len(s.lines)
    /\ s.handle = "closed" => s.mem = <<>>
    /\ s.handle = "open" => s.mem = s.lines /\ ~s.torn
    /\ Len(s.mem) <= Len(s.lines) /\ s.mem = SubSeq(s.lines, 1, Len(s.mem))
    /\ Len(s.told) <= s.safe /\ s.told = SubSeq(s.lines, 1, Len(s.told))

\* What a decision that was made on durable knowledge says of the knowledge store.
Accountable(d, k) ==
    d.firm => /\ k.entry = "kept" /\ d.anchor.seq \in 0 .. k.safe - 1
              /\ d.anchor.hash = States(Empty, k.lines)[d.anchor.seq + 1]
              /\ d.facts \subseteq CurrentFacts(d.anchor.hash)
              /\ d.evidence \subseteq d.anchor.hash.evidence

ServiceInv ==
    /\ ServiceTypes /\ StoreKept(kn) /\ StoreKept(dn)
    /\ kn.handle = "closed" <=> dn.handle = "closed"
    /\ Len(kn.lines) <= MaxLines /\ AdmitsAll(Empty, kn.lines)
    /\ ReplaysDecisions(dn.lines)
    /\ \A i \in 1 .. Len(dn.lines) : Accountable(dn.lines[i], kn)

\* No synced line is taken away or is less synced than before.
Grown(s, t) == s.safe <= t.safe /\ \A i \in 1 .. s.safe : t.lines[i] = s.lines[i]

\* What a step of a store may do: it takes away no synced line and no entry that is
\* on disk; or, before the entry is on disk, it takes away the file.
Kept(s, t) ==
    \/ Grown(s, t) /\ (s.entry = "kept" => t.entry = "kept")
    \/ s.entry = "loose" /\ t = NewStore

-----------------------------------------------------------------------------
(* The operations of a store *)

\* The file after a piece of a batch was written, and after a part was lost.
LEMMA FileGrows ==
    ASSUME NEW Q, NEW a \in Seq(Q), NEW b \in Seq(Q), NEW n \in 0 .. Len(b)
    PROVE  /\ a \o SubSeq(b, 1, n) \in Seq(Q) /\ Len(a \o SubSeq(b, 1, n)) = Len(a) + n
           /\ \A i \in 1 .. Len(a) : (a \o SubSeq(b, 1, n))[i] = a[i]
           /\ \A k \in 0 .. Len(a) : SubSeq(a \o SubSeq(b, 1, n), 1, k) = SubSeq(a, 1, k)
<1> DEFINE c == SubSeq(b, 1, n)
<1>1. c \in Seq(Q) /\ Len(c) = n OBVIOUS
<1> HIDE DEF c
<1>2. a \o c \in Seq(Q) /\ Len(a \o c) = Len(a) + n /\ \A i \in 1 .. Len(a) : (a \o c)[i] = a[i]
  BY <1>1
<1>3. \A k \in 0 .. Len(a) : SubSeq(a \o c, 1, k) = SubSeq(a, 1, k) BY <1>1
<1> QED BY <1>2, <1>3 DEF c

\* An append keeps a store in order, whether it is acknowledged or breaks off.
LEMMA StoreAppends ==
    ASSUME NEW Q, NEW s \in Store(Q), StoreKept(s), s.handle = "open", NEW b \in Seq(Q),
           NEW t, t = Appended(s, b) \/ t \in Broken(s, b)
    PROVE  /\ t \in Store(Q) /\ StoreKept(t) /\ Kept(s, t) /\ t.handle # "closed"
           /\ \E n \in 0 .. Len(b) : t.lines = s.lines \o SubSeq(b, 1, n)
<1>1. /\ s.lines \in Seq(Q) /\ s.safe \in Nat /\ s.mem = s.lines /\ s.told \in Seq(Q)
      /\ s.torn = FALSE /\ s.safe <= Len(s.lines) /\ Len(s.told) <= s.safe
      /\ s.told = SubSeq(s.lines, 1, Len(s.told))
  BY DEF Store, StoreKept
<1>2. CASE t = Appended(s, b)
  <2> DEFINE f == s.lines \o b
  <2>1. t = [s EXCEPT !.lines = f, !.mem = f, !.told = f, !.safe = Len(s.lines) + Len(b)]
    BY <1>1, <1>2 DEF Appended, Written, Store
  <2>2. f \in Seq(Q) /\ Len(f) = Len(s.lines) + Len(b) /\ Len(f) \in Nat BY <1>1
  <2>3. SubSeq(f, 1, Len(f)) = f /\ SubSeq(b, 1, Len(b)) = b BY <1>1
  <2>4. \A i \in 1 .. s.safe : f[i] = s.lines[i] BY <1>1
  <2>a. Len(b) \in 0 .. Len(b) /\ s.safe <= Len(f) BY <1>1, <2>2
  <2>5. f = s.lines \o SubSeq(b, 1, Len(b)) BY ZenonT(30), <2>3
  <2> HIDE DEF f
  <2>6. /\ t.handle = "open" /\ t.lines = f /\ t.torn = FALSE /\ t.safe = Len(f) /\ t.mem = f
        /\ t.told = f /\ t.entry = s.entry /\ t \in Store(Q)
    BY ZenonT(30), <1>1, <2>1, <2>2 DEF Store
  <2>7. StoreKept(t) BY <2>2, <2>3, <2>6 DEF StoreKept
  <2>8. Kept(s, t) BY <2>4, <2>6, <2>a DEF Grown, Kept
  <2> QED BY ZenonT(30), <2>5, <2>6, <2>7, <2>8, <2>a
<1>3. CASE t \in Broken(s, b)
  <2>1. PICK c \in Cuts(0, Len(b), FALSE) :
          t = [s EXCEPT !.handle = "poisoned", !.lines = @ \o SubSeq(b, 1, c[1]), !.torn = c[2]]
    BY ZenonT(30), <1>3 DEF Broken
  <2> DEFINE n == c[1]
             f == s.lines \o SubSeq(b, 1, n)
  <2>2. n \in 0 .. Len(b) /\ c[2] \in BOOLEAN BY DEF Cuts
  <2>3. /\ f \in Seq(Q) /\ Len(f) = Len(s.lines) + n
        /\ \A i \in 1 .. Len(s.lines) : f[i] = s.lines[i]
        /\ \A k \in 0 .. Len(s.lines) : SubSeq(f, 1, k) = SubSeq(s.lines, 1, k)
    <3>1. s.lines \in Seq(Q) BY <1>1
    <3>2. n \in 0 .. Len(b) BY <2>2
    <3> HIDE DEF n
    <3>3. \A m \in 0 .. Len(b) : LET g == s.lines \o SubSeq(b, 1, m) IN
            /\ g \in Seq(Q) /\ Len(g) = Len(s.lines) + m
            /\ \A i \in 1 .. Len(s.lines) : g[i] = s.lines[i]
            /\ \A k \in 0 .. Len(s.lines) : SubSeq(g, 1, k) = SubSeq(s.lines, 1, k)
      BY ZenonT(30), <3>1, FileGrows
    <3> QED BY ZenonT(30), <3>2, <3>3
  <2> HIDE DEF n, f
  <2>4. /\ t.handle = "poisoned" /\ t.lines = f /\ t.safe = s.safe /\ t.mem = s.mem
        /\ t.told = s.told /\ t.entry = s.entry /\ t \in Store(Q)
    BY ZenonT(30), <1>1, <2>1, <2>2, <2>3 DEF Store, n, f
  <2>5. Len(s.lines) \in 0 .. Len(s.lines) /\ SubSeq(s.lines, 1, Len(s.lines)) = s.lines BY <1>1
  <2>6. s.mem = SubSeq(f, 1, Len(s.mem)) BY ZenonT(30), <1>1, <2>3, <2>5
  <2>7. Len(s.told) \in 0 .. Len(s.lines) BY <1>1
  <2>8. s.told = SubSeq(f, 1, Len(s.told)) BY ZenonT(30), <1>1, <2>3, <2>7
  <2>9. s.safe <= Len(f) /\ Len(s.mem) <= Len(f) BY <1>1, <2>2, <2>3
  <2>10. StoreKept(t) BY <1>1, <2>4, <2>6, <2>8, <2>9 DEF StoreKept
  <2>11. Kept(s, t) BY <1>1, <2>3, <2>4 DEF Grown, Kept
  <2> QED BY ZenonT(30), <2>2, <2>4, <2>10, <2>11 DEF f
<1> QED BY ZenonT(30), <1>2, <1>3

\* The handle is dropped: the file stays as it is.
LEMMA ClosedIs ==
    ASSUME NEW Q, NEW s \in Store(Q)
    PROVE  /\ Closed(s).handle = "closed" /\ Closed(s).lines = s.lines
           /\ Closed(s).torn = s.torn /\ Closed(s).safe = s.safe /\ Closed(s).mem = <<>>
           /\ Closed(s).told = s.told /\ Closed(s).entry = s.entry /\ Closed(s) \in Store(Q)
<1>1. <<>> \in Seq(Q) OBVIOUS
<1> DEFINE e == <<>>
<1>2. e \in Seq(Q) BY <1>1
<1> HIDE DEF e
<1>3. Closed(s) = [s EXCEPT !.handle = "closed", !.mem = e] BY DEF Closed, e
<1>4. /\ Closed(s).handle = "closed" /\ Closed(s).lines = s.lines
      /\ Closed(s).torn = s.torn /\ Closed(s).safe = s.safe /\ Closed(s).mem = e
      /\ Closed(s).told = s.told /\ Closed(s).entry = s.entry /\ Closed(s) \in Store(Q)
  BY ZenonT(30), <1>2, <1>3 DEF Store
<1> QED BY <1>4 DEF e

\* An open keeps it in order, also one that is undone.
LEMMA StoreLoads ==
    ASSUME NEW Q, NEW s \in Store(Q), StoreKept(s), NEW t, t = Loaded(s) \/ t = Closed(Loaded(s))
    PROVE  /\ t \in Store(Q) /\ StoreKept(t) /\ Kept(s, t) /\ t.lines = s.lines
           /\ t = Loaded(s) => t.handle = "open"
           /\ t = Closed(Loaded(s)) => t.handle = "closed"
<1> DEFINE n == IF s.torn THEN Len(s.lines) ELSE s.safe
           l == Loaded(s)
           c == Closed(l)
<1>1. /\ s.lines \in Seq(Q) /\ s.safe \in Nat /\ s.told \in Seq(Q)
      /\ s.safe <= Len(s.lines) /\ Len(s.told) <= s.safe /\ Len(s.lines) \in Nat
      /\ s.told = SubSeq(s.lines, 1, Len(s.told)) /\ SubSeq(s.lines, 1, Len(s.lines)) = s.lines
  BY DEF Store, StoreKept
<1>2. n \in Nat /\ s.safe <= n /\ n <= Len(s.lines) BY <1>1
<1> DEFINE e == IF s.entry = "none" THEN "loose" ELSE s.entry
<1>3. l = [s EXCEPT !.handle = "open", !.mem = s.lines, !.torn = FALSE, !.entry = e, !.safe = n]
  BY DEF Loaded, Store
<1>a. e \in {"none", "loose", "kept"} /\ (s.entry = "kept" => e = "kept") BY DEF Store
<1> HIDE DEF n, l, e
<1>4. /\ l.handle = "open" /\ l.lines = s.lines /\ l.torn = FALSE /\ l.safe = n /\ l.mem = s.lines
      /\ l.told = s.told /\ l.entry = e /\ l \in Store(Q)
  BY ZenonT(30), <1>1, <1>2, <1>3, <1>a DEF Store
<1>5. /\ c.handle = "closed" /\ c.lines = s.lines /\ c.torn = FALSE /\ c.safe = n /\ c.mem = <<>>
      /\ c.told = s.told /\ c.entry = e /\ c \in Store(Q)
  BY ZenonT(30), <1>4, ClosedIs
<1> HIDE DEF c
<1>6. Len(s.told) \in Nat /\ Len(s.told) <= n /\ SubSeq(s.lines, 1, 0) = <<>> /\ Len(<<>>) = 0
  BY <1>1, <1>2
<1>7. StoreKept(l) BY <1>1, <1>2, <1>4, <1>6 DEF StoreKept
<1>8. StoreKept(c) BY <1>1, <1>2, <1>5, <1>6 DEF StoreKept
<1>9. Kept(s, l) /\ Kept(s, c) BY <1>2, <1>4, <1>5, <1>a DEF Grown, Kept
<1> QED BY <1>4, <1>5, <1>7, <1>8, <1>9 DEF l, c

\* So does the end of the process.
LEMMA StoreCloses ==
    ASSUME NEW Q, NEW s \in Store(Q), StoreKept(s)
    PROVE  /\ Closed(s) \in Store(Q) /\ StoreKept(Closed(s)) /\ Kept(s, Closed(s))
           /\ Closed(s).lines = s.lines /\ Closed(s).handle = "closed"
<1> DEFINE c == Closed(s)
<1>1. /\ c.handle = "closed" /\ c.lines = s.lines /\ c.torn = s.torn /\ c.safe = s.safe
      /\ c.mem = <<>> /\ c.told = s.told /\ c.entry = s.entry /\ c \in Store(Q)
  BY ZenonT(30), ClosedIs
<1>2. s.lines \in Seq(Q) /\ Len(s.lines) \in Nat /\ s.safe \in Nat BY DEF Store
<1>3. SubSeq(s.lines, 1, 0) = <<>> /\ Len(<<>>) = 0 BY <1>2
<1> HIDE DEF c
<1>4. StoreKept(c) BY <1>1, <1>2, <1>3 DEF StoreKept
<1>5. Kept(s, c) BY <1>1, <1>2 DEF Grown, Kept
<1> QED BY <1>1, <1>4, <1>5 DEF c

\* And the kernel, when it writes the directory back.
LEMMA StorePinned ==
    ASSUME NEW Q, NEW s \in Store(Q), StoreKept(s), NEW t, t = [s EXCEPT !.entry = "kept"]
    PROVE  /\ t \in Store(Q) /\ StoreKept(t) /\ Kept(s, t) /\ t.lines = s.lines
           /\ t.handle = s.handle
<1>1. /\ t.handle = s.handle /\ t.lines = s.lines /\ t.torn = s.torn /\ t.safe = s.safe
      /\ t.mem = s.mem /\ t.told = s.told /\ t.entry = "kept" /\ t \in Store(Q)
  BY ZenonT(30) DEF Store
<1>2. StoreKept(t) BY ZenonT(30), <1>1 DEF StoreKept
<1>3. s.safe \in Nat BY DEF Store
<1>4. Kept(s, t) BY <1>1, <1>3 DEF Grown, Kept
<1> QED BY <1>1, <1>2, <1>4

\* A journal that is not there is in order.
LEMMA NoFile ==
    /\ \A Q : NewStore \in Store(Q)
    /\ StoreKept(NewStore) /\ NewStore.handle = "closed" /\ NewStore.lines = <<>>
<1>1. /\ NewStore.handle = "closed" /\ NewStore.lines = <<>> /\ NewStore.safe = 0
      /\ NewStore.mem = <<>> /\ NewStore.told = <<>>
  BY DEF NewStore
<1>2. \A Q : NewStore \in Store(Q)
  <2> TAKE Q
  <2> DEFINE e == <<>>
  <2>1. e \in Seq(Q) OBVIOUS
  <2> HIDE DEF e
  <2>2. NewStore = [handle |-> "closed", entry |-> "none", lines |-> e, torn |-> FALSE,
                    safe |-> 0, mem |-> e, told |-> e]
    BY DEF NewStore, e
  <2> QED BY <2>1, <2>2 DEF Store
<1>3. Len(<<>>) = 0 /\ SubSeq(<<>>, 1, 0) = <<>> OBVIOUS
<1>4. StoreKept(NewStore) BY <1>1, <1>3 DEF StoreKept
<1> QED BY ZenonT(30), <1>1, <1>2, <1>4

\* And a power loss: it takes none of the synced lines, or a file whose entry was
\* not on disk.
LEMMA StoreSurvives ==
    ASSUME NEW Q, NEW s \in Store(Q), StoreKept(s), NEW t \in Survivors(s)
    PROVE  /\ t \in Store(Q) /\ StoreKept(t) /\ Kept(s, t) /\ t.handle = "closed"
           /\ \E n \in 0 .. Len(s.lines) : t.lines = SubSeq(s.lines, 1, n)
<1> DEFINE e == IF s.entry = "none" THEN "none" ELSE "kept"
<1>a. s.lines \in Seq(Q) /\ Len(s.lines) \in Nat /\ s.safe \in Nat BY DEF Store
<1>1. CASE s.entry = "loose" /\ t = NewStore
  <2>1. 0 \in 0 .. Len(s.lines) /\ SubSeq(s.lines, 1, 0) = <<>> BY <1>a
  <2>2. Kept(s, t) BY ZenonT(30), <1>1 DEF Kept
  <2> QED BY ZenonT(30), <1>1, <2>1, <2>2, NoFile
<1>2. ASSUME NEW c \in Cuts(s.safe, Len(s.lines), s.torn),
             t = [Closed(s) EXCEPT !.lines = SubSeq(@, 1, c[1]), !.torn = c[2], !.safe = c[1],
                                   !.entry = e]
      PROVE  /\ t \in Store(Q) /\ StoreKept(t) /\ Kept(s, t) /\ t.handle = "closed"
             /\ \E n \in 0 .. Len(s.lines) : t.lines = SubSeq(s.lines, 1, n)
  <2> DEFINE n == c[1]
             f == SubSeq(s.lines, 1, n)
  <2>2. n \in s.safe .. Len(s.lines) /\ c[2] \in BOOLEAN BY DEF Cuts
  <2>3. /\ s.lines \in Seq(Q) /\ s.safe \in Nat /\ s.told \in Seq(Q) /\ Len(s.told) <= s.safe
        /\ Len(s.lines) \in Nat /\ s.told = SubSeq(s.lines, 1, Len(s.told))
    BY DEF Store, StoreKept
  <2>4. /\ Closed(s) \in Store(Q) /\ Closed(s).lines = s.lines /\ Closed(s).handle = "closed"
        /\ Closed(s).told = s.told /\ Closed(s).mem = <<>>
    BY ZenonT(30), ClosedIs
  <2>5. n \in Nat /\ s.safe <= n /\ n <= Len(s.lines) /\ n \in 0 .. Len(s.lines) BY <2>2, <2>3
  <2>a. e \in {"none", "loose", "kept"} /\ (s.entry = "kept" => e = "kept") OBVIOUS
  <2> HIDE DEF n, e
  <2>6. f \in Seq(Q) /\ Len(f) = n /\ \A i \in 1 .. n : f[i] = s.lines[i] BY <2>3, <2>5
  <2>7. SubSeq(f, 1, Len(s.told)) = SubSeq(s.lines, 1, Len(s.told)) BY <2>3, <2>5
  <2>8. SubSeq(f, 1, 0) = <<>> /\ Len(<<>>) = 0 BY <2>6
  <2> HIDE DEF f
  <2>9. /\ t.handle = "closed" /\ t.lines = f /\ t.safe = n /\ t.mem = <<>> /\ t.told = s.told
        /\ t.entry = e /\ t \in Store(Q)
    BY ZenonT(30), <1>2, <2>2, <2>4, <2>5, <2>6, <2>a DEF Store, n, f
  <2>10. StoreKept(t) BY <2>3, <2>5, <2>6, <2>7, <2>8, <2>9 DEF StoreKept
  <2>11. Kept(s, t) BY <2>3, <2>5, <2>6, <2>9, <2>a DEF Grown, Kept
  <2> QED BY ZenonT(30), <2>5, <2>9, <2>10, <2>11 DEF f
<1>3. \/ s.entry = "loose" /\ t = NewStore
      \/ \E c \in Cuts(s.safe, Len(s.lines), s.torn) :
             t = [Closed(s) EXCEPT !.lines = SubSeq(@, 1, c[1]), !.torn = c[2], !.safe = c[1],
                                   !.entry = IF Closed(s).entry = "none" THEN Closed(s).entry ELSE "kept"]
  BY ZenonT(30) DEF Survivors
<1>4. (IF Closed(s).entry = "none" THEN Closed(s).entry ELSE "kept") = e BY ZenonT(30), ClosedIs
<1> QED BY ZenonT(30), <1>1, <1>2, <1>3, <1>4

-----------------------------------------------------------------------------
(* Every step of the service keeps the invariant *)

\* A decision stays accountable: the lines it rests on cannot go, nor their file.
LEMMA AccountableStays ==
    ASSUME NEW Q, NEW k \in Store(Q), NEW m \in Store(Q), StoreKept(k), StoreKept(m), Kept(k, m),
           NEW d, Accountable(d, k)
    PROVE  Accountable(d, m)
<1> SUFFICES ASSUME d.firm
             PROVE  /\ m.entry = "kept" /\ d.anchor.seq \in 0 .. m.safe - 1
                    /\ d.anchor.hash = States(Empty, m.lines)[d.anchor.seq + 1]
                    /\ d.facts \subseteq CurrentFacts(d.anchor.hash)
                    /\ d.evidence \subseteq d.anchor.hash.evidence
  BY ZenonT(30) DEF Accountable
<1> DEFINE a == k.lines
           b == m.lines
           n == k.safe
<1>1. a \in Seq(Q) /\ b \in Seq(Q) /\ n \in Nat /\ m.safe \in Nat BY DEF Store
<1>0. k.entry = "kept" /\ m.entry = "kept" /\ Grown(k, m) BY ZenonT(30) DEF Accountable, Kept
<1>2. n <= Len(a) /\ n <= m.safe /\ m.safe <= Len(b) /\ \A i \in 1 .. n : a[i] = b[i]
  BY <1>0 DEF StoreKept, Grown
<1>3. /\ d.anchor.seq \in 0 .. n - 1 /\ d.anchor.hash = States(Empty, a)[d.anchor.seq + 1]
      /\ d.facts \subseteq CurrentFacts(d.anchor.hash)
         /\ d.evidence \subseteq d.anchor.hash.evidence
  BY ZenonT(30) DEF Accountable
<1> HIDE DEF a, b, n
<1>4. n <= Len(a) /\ n <= Len(b)
  <2>1. Len(a) \in Nat /\ Len(b) \in Nat BY <1>1
  <2> QED BY <1>1, <1>2, <2>1
<1>5. \A x \in Nat : /\ x <= Len(a) /\ x <= Len(b)
                     /\ \A i \in 1 .. x : a[i] = b[i]
                     => \A j \in 0 .. x : States(Empty, a)[j] = States(Empty, b)[j]
  BY <1>1, StatesAgree
<1>6. \A j \in 0 .. n : States(Empty, a)[j] = States(Empty, b)[j]
  BY ZenonT(30), <1>1, <1>2, <1>4, <1>5
<1>7. d.anchor.seq + 1 \in 0 .. n /\ d.anchor.seq \in 0 .. m.safe - 1 BY <1>1, <1>2, <1>3
<1> QED BY ZenonT(30), <1>0, <1>3, <1>6, <1>7 DEF b

\* What a step has to show, once both stores are in order: the knowledge journal
\* still replays within its bound, and the decision journal lost lines at its end
\* or gained one that is admitted and accountable.
LEMMA ServiceKept ==
    ASSUME ServiceInv, ServiceTypes', StoreKept(kn'), StoreKept(dn'), Kept(kn, kn'),
           kn'.handle = "closed" <=> dn'.handle = "closed",
           Len(kn'.lines) <= MaxLines, AdmitsAll(Empty, kn'.lines),
           \/ \E n \in 0 .. Len(dn.lines) : dn'.lines = SubSeq(dn.lines, 1, n)
           \/ \E op \in Entries : /\ dn'.lines = dn.lines \o <<op>>
                                  /\ AdmitsDecision(dn.lines, op) /\ Accountable(op, kn')
    PROVE  ServiceInv'
<1> DEFINE J == dn.lines
           K == dn'.lines
<1>1. J \in Seq(Entries) /\ ReplaysDecisions(J) BY DEF ServiceInv, ServiceTypes, Store
<1>2. \A i \in 1 .. Len(J) : Accountable(J[i], kn')
  <2>1. \A i \in 1 .. Len(J) : Accountable(J[i], kn) BY DEF ServiceInv
  <2>2. kn \in Store(Ops) /\ kn' \in Store(Ops) /\ StoreKept(kn) BY DEF ServiceInv, ServiceTypes
  <2>3. \A d : Accountable(d, kn) => Accountable(d, kn') BY ZenonT(30), <2>2, AccountableStays
  <2> QED BY ZenonT(30), <2>1, <2>3
<1>3. ReplaysDecisions(K) /\ \A i \in 1 .. Len(K) : Accountable(K[i], kn')
  <2> HIDE DEF J, K
  <2>1. CASE \E n \in 0 .. Len(J) : K = SubSeq(J, 1, n)
    <3>1. PICK n \in 0 .. Len(J) : K = SubSeq(J, 1, n) BY <2>1
    <3>2. ReplaysDecisions(K) BY ZenonT(30), <1>1, <3>1, DecisionsPrefix
    <3>3. \A i \in 1 .. Len(K) : i \in 1 .. Len(J) /\ K[i] = J[i] BY <1>1, <3>1
    <3> QED BY ZenonT(30), <1>2, <3>2, <3>3
  <2>2. CASE \E op \in Entries : /\ K = J \o <<op>> /\ AdmitsDecision(J, op)
                                 /\ Accountable(op, kn')
    <3>1. PICK op \in Entries : K = J \o <<op>> /\ AdmitsDecision(J, op) /\ Accountable(op, kn')
      BY <2>2
    <3> HIDE DEF Entries
    <3>2. ReplaysDecisions(K) BY ZenonT(30), <1>1, <3>1, DecisionsAppend
    <3>3. \A i \in 1 .. Len(K) : (i \in 1 .. Len(J) /\ K[i] = J[i]) \/ K[i] = op BY <1>1, <3>1
    <3> QED BY ZenonT(30), <1>2, <3>1, <3>2, <3>3
  <2> QED BY ZenonT(30), <2>1, <2>2 DEF J, K
<1> QED BY ZenonT(30), <1>3 DEF ServiceInv

\* The entry of a decision made now is accountable: the state in memory is that of
\* a prefix of the file, which is durable when the entry says so.
LEMMA MadeNow ==
    ASSUME ServiceInv, kn.mem # <<>>, NEW op, op.anchor = Anchor, op.firm = Firm,
           op.facts \subseteq CurrentFacts(Replay(kn.mem)),
           op.evidence \subseteq Replay(kn.mem).evidence
    PROVE  Accountable(op, kn)
<1> DEFINE m == kn.mem
           n == Len(kn.mem)
<1>1. m \in Seq(Ops) /\ kn.lines \in Seq(Ops) /\ kn.safe \in Nat
  BY DEF ServiceInv, ServiceTypes, Store
<1>2. n <= Len(kn.lines) /\ m = SubSeq(kn.lines, 1, n) BY DEF ServiceInv, StoreKept
<1>3. n \in Nat /\ n >= 1 /\ n \in 0 .. Len(kn.lines) /\ (n - 1) + 1 = n /\ n \in 0 .. n
  <2>1. n \in Nat /\ n # 0 /\ Len(kn.lines) \in Nat BY <1>1
  <2> HIDE DEF n
  <2> QED BY <1>2, <2>1
<1>4. op.anchor.seq = n - 1 /\ op.anchor.hash = Replay(m) BY DEF Anchor
<1>5. op.firm <=> kn.entry = "kept" /\ n <= kn.safe BY ZenonT(30) DEF Firm
<1>6. Replay(m) = States(Empty, kn.lines)[n]
  <2>1. \A k \in 0 .. n : States(Empty, SubSeq(kn.lines, 1, n))[k] = States(Empty, kn.lines)[k]
    <3> HIDE DEF n
    <3>1. \A x \in 0 .. Len(kn.lines) : \A k \in 0 .. x :
            States(Empty, SubSeq(kn.lines, 1, x))[k] = States(Empty, kn.lines)[k]
      BY <1>1, PrefixStates
    <3> QED BY ZenonT(30), <1>3, <3>1
  <2>2. Replay(m) = States(Empty, m)[n] BY DEF Replay
  <2> HIDE DEF m, n
  <2> QED BY ZenonT(30), <1>2, <1>3, <2>1, <2>2
<1> HIDE DEF n
<1>7. op.firm => op.anchor.seq \in 0 .. kn.safe - 1 BY <1>1, <1>3, <1>4, <1>5
<1> QED BY ZenonT(30), <1>3, <1>4, <1>5, <1>6, <1>7 DEF Accountable, m

\* Nothing was acknowledged yet.
LEMMA ServiceStarts ==
    ASSUME ServiceSane, Init
    PROVE  ServiceInv
<1>1. kn = NewStore /\ dn = NewStore /\ faults = 0 BY DEF Init
<1>2. ServiceTypes BY ZenonT(30), <1>1, NoFile DEF ServiceTypes
<1>5. Len(<<>>) = 0 /\ 1 .. 0 = {} OBVIOUS
<1>7. AdmitsAll(Empty, <<>>) /\ ReplaysDecisions(<<>>)
  BY ZenonT(30), <1>5 DEF AdmitsAll, ReplaysDecisions
<1>8. Len(kn.lines) <= MaxLines BY <1>1, <1>5, NoFile DEF ServiceSane
<1>9. \A i \in 1 .. Len(dn.lines) : Accountable(dn.lines[i], kn) BY ZenonT(30), <1>1, <1>5, NoFile
<1> QED BY ZenonT(30), <1>1, <1>2, <1>7, <1>8, <1>9, NoFile DEF ServiceInv

\* A step that leaves the lines of a journal alone keeps a prefix of them: all.
LEMMA AllOfIt ==
    ASSUME ServiceInv, dn'.lines = dn.lines
    PROVE  \E n \in 0 .. Len(dn.lines) : dn'.lines = SubSeq(dn.lines, 1, n)
<1> DEFINE J == dn.lines
<1>1. J \in Seq(Entries) BY DEF ServiceInv, ServiceTypes, Store
<1> HIDE DEF J, Entries
<1>2. Len(J) \in 0 .. Len(J) /\ J = SubSeq(J, 1, Len(J)) BY <1>1
<1> QED BY ZenonT(30), <1>2 DEF J

\* append_knowledge: the batch, or the part of it that was written, replays behind
\* the journal.
LEMMA KnowledgeStep ==
    ASSUME ServiceSane, ServiceInv, NEW b \in Batches, AppendKnowledge(b)
    PROVE  ServiceInv' /\ Kept(kn, kn') /\ dn' = dn
<1> DEFINE J == kn.lines
<1>1. /\ kn \in Store(Ops) /\ StoreKept(kn) /\ StoreKept(dn) /\ dn \in Store(Entries)
      /\ faults \in Nat /\ AdmitsAll(Empty, J)
      /\ kn.handle = "closed" <=> dn.handle = "closed"
  BY DEF ServiceInv, ServiceTypes
<1>2. b \in Seq(Ops) /\ MaxLines \in Nat BY DEF ServiceSane
<1>3. /\ kn.handle = "open" /\ Len(kn.mem) + Len(b) <= MaxLines /\ AdmitsAll(Replay(kn.mem), b)
      /\ kn' = Appended(kn, b) \/ kn' \in Broken(kn, b)
      /\ faults' \in {faults, faults + 1} /\ dn' = dn
  BY DEF AppendKnowledge, Fault
<1>4. J \in Seq(Ops) /\ kn.mem = J BY <1>1, <1>3 DEF Store, StoreKept
<1> HIDE DEF Ops
<1>5. /\ kn' \in Store(Ops) /\ StoreKept(kn') /\ Kept(kn, kn') /\ kn'.handle # "closed"
      /\ \E n \in 0 .. Len(b) : kn'.lines = J \o SubSeq(b, 1, n)
  <2>1. kn \in Store(Ops) /\ StoreKept(kn) /\ kn.handle = "open" BY <1>1, <1>3
  <2>2. \A t : t = Appended(kn, b) \/ t \in Broken(kn, b) =>
          /\ t \in Store(Ops) /\ StoreKept(t) /\ Kept(kn, t) /\ t.handle # "closed"
          /\ \E n \in 0 .. Len(b) : t.lines = kn.lines \o SubSeq(b, 1, n)
    BY ZenonT(30), <1>2, <2>1, StoreAppends
  <2> QED BY ZenonT(30), <1>3, <2>2
<1>6. PICK n \in 0 .. Len(b) : kn'.lines = J \o SubSeq(b, 1, n) BY ZenonT(30), <1>5
<1> DEFINE c == SubSeq(b, 1, n)
<1> HIDE DEF J
<1>7. c \in Seq(Ops) /\ Len(c) = n BY <1>2
<1>8. Len(kn'.lines) <= MaxLines
  <2>1. Len(b) \in Nat /\ Len(J) \in Nat BY <1>2, <1>4
  <2> HIDE DEF c
  <2>2. Len(J \o c) = Len(J) + n BY <1>4, <1>7
  <2> QED BY <1>2, <1>3, <1>4, <1>6, <2>1, <2>2 DEF c
<1>9. AdmitsAll(Empty, kn'.lines)
  <2>1. Replay(kn.mem) = States(Empty, J)[Len(J)] BY ZenonT(30), <1>4 DEF Replay
  <2>2. AdmitsAll(States(Empty, J)[Len(J)], b) BY ZenonT(30), <1>3, <2>1
  <2>3. AdmitsAll(States(Empty, J)[Len(J)], c)
    <3> DEFINE mid == States(Empty, J)[Len(J)]
    <3>1. AdmitsAll(mid, b) BY <2>2
    <3> HIDE DEF mid
    <3>2. \A m \in 0 .. Len(b) : AdmitsAll(mid, SubSeq(b, 1, m)) BY <1>2, <3>1, AdmitsPrefix
    <3> QED BY ZenonT(30), <3>2 DEF mid
  <2> HIDE DEF c
  <2>4. AdmitsAll(Empty, J \o c)
    <3>1. AdmitsAll(Empty, J) /\ c \in Seq(Ops) /\ J \in Seq(Ops) BY <1>1, <1>4, <1>7 DEF J
    <3> QED BY <2>3, <3>1, AdmitsJoin
  <2> QED BY <1>6, <2>4 DEF c
<1>10. faults' \in Nat BY <1>1, <1>3
<1>11. ServiceTypes' BY ZenonT(30), <1>1, <1>3, <1>5, <1>10 DEF ServiceTypes
<1>12. kn'.handle = "closed" <=> dn'.handle = "closed" BY <1>1, <1>3, <1>5
<1>13. StoreKept(dn') /\ dn'.lines = dn.lines BY ZenonT(30), <1>1, <1>3
<1> QED BY ZenonT(30), <1>3, <1>5, <1>8, <1>9, <1>11, <1>12, <1>13, AllOfIt, ServiceKept

\* The decision store appends an entry that is admitted and accountable.
LEMMA DecisionStep ==
    ASSUME ServiceInv, NEW op \in Entries, AppendDecision(op), Accountable(op, kn)
    PROVE  ServiceInv' /\ kn' = kn /\ Kept(dn, dn')
<1> DEFINE J == dn.lines
<1>1. /\ kn \in Store(Ops) /\ StoreKept(kn) /\ StoreKept(dn) /\ dn \in Store(Entries)
      /\ faults \in Nat /\ AdmitsAll(Empty, kn.lines) /\ Len(kn.lines) <= MaxLines
      /\ kn.handle = "closed" <=> dn.handle = "closed"
  BY DEF ServiceInv, ServiceTypes
<1>2. /\ dn.handle = "open" /\ AdmitsDecision(dn.mem, op)
      /\ dn' = Appended(dn, <<op>>) \/ dn' \in Broken(dn, <<op>>)
      /\ faults' \in {faults, faults + 1} /\ kn' = kn
  BY DEF AppendDecision, Fault
<1> HIDE DEF Entries, Ops
<1>3. J \in Seq(Entries) /\ dn.mem = J BY <1>1, <1>2 DEF Store, StoreKept
<1>4. <<op>> \in Seq(Entries) /\ Len(<<op>>) = 1 OBVIOUS
<1>5. /\ dn' \in Store(Entries) /\ StoreKept(dn') /\ Kept(dn, dn') /\ dn'.handle # "closed"
      /\ \E n \in 0 .. Len(<<op>>) : dn'.lines = J \o SubSeq(<<op>>, 1, n)
  <2> DEFINE b == <<op>>
  <2>1. dn \in Store(Entries) /\ StoreKept(dn) /\ dn.handle = "open" /\ b \in Seq(Entries)
    BY <1>1, <1>2, <1>4
  <2>2. dn' = Appended(dn, b) \/ dn' \in Broken(dn, b) BY <1>2
  <2> HIDE DEF b
  <2>3. \A t : t = Appended(dn, b) \/ t \in Broken(dn, b) =>
          /\ t \in Store(Entries) /\ StoreKept(t) /\ Kept(dn, t) /\ t.handle # "closed"
          /\ \E n \in 0 .. Len(b) : t.lines = dn.lines \o SubSeq(b, 1, n)
    BY ZenonT(30), <2>1, StoreAppends
  <2> QED BY ZenonT(30), <2>2, <2>3 DEF b
<1>6. PICK n \in 0 .. 1 : dn'.lines = J \o SubSeq(<<op>>, 1, n) BY ZenonT(30), <1>4, <1>5
<1> HIDE DEF J
<1>7. dn'.lines = J \/ dn'.lines = J \o <<op>>
  <2>1. CASE n = 0
    <3>1. J \o SubSeq(<<op>>, 1, 0) = J BY <1>3
    <3> QED BY ZenonT(30), <1>6, <2>1, <3>1
  <2>2. CASE n = 1
    <3>1. SubSeq(<<op>>, 1, 1) = <<op>>
      <4> DEFINE b == <<op>>
      <4>1. b \in Seq(Entries) /\ Len(b) = 1 BY <1>4
      <4> HIDE DEF b
      <4>2. SubSeq(b, 1, 1) = b BY <4>1
      <4> QED BY <4>2 DEF b
    <3> QED BY ZenonT(30), <1>6, <2>2, <3>1
  <2> QED BY <2>1, <2>2
<1>8. \/ \E m \in 0 .. Len(dn.lines) : dn'.lines = SubSeq(dn.lines, 1, m)
      \/ \E o \in Entries : /\ dn'.lines = dn.lines \o <<o>>
                            /\ AdmitsDecision(dn.lines, o) /\ Accountable(o, kn')
  <2>1. CASE dn'.lines = J BY ZenonT(30), <2>1, AllOfIt DEF J
  <2>2. CASE dn'.lines = J \o <<op>>
    <3>1. AdmitsDecision(dn.lines, op) /\ Accountable(op, kn') BY ZenonT(30), <1>2, <1>3 DEF J
    <3> QED BY ZenonT(30), <2>2, <3>1 DEF J
  <2> QED BY ZenonT(30), <1>7, <2>1, <2>2
<1>9. faults' \in Nat BY <1>1, <1>2
<1>10. ServiceTypes' BY ZenonT(30), <1>1, <1>2, <1>5, <1>9 DEF ServiceTypes
<1>11. kn'.handle = "closed" <=> dn'.handle = "closed" BY <1>1, <1>2, <1>5
<1>12. Kept(kn, kn') BY <1>1, <1>2 DEF Grown, Kept, Store
<1>13. StoreKept(kn') /\ Len(kn'.lines) <= MaxLines /\ AdmitsAll(Empty, kn'.lines)
  BY ZenonT(30), <1>1, <1>2
<1> QED BY ZenonT(30), <1>2, <1>5, <1>8, <1>10, <1>11, <1>12, <1>13, ServiceKept

\* The journals are opened, closed or cut: no line is added.
LEMMA LifeStep ==
    ASSUME ServiceInv, ServiceTypes', StoreKept(kn'), StoreKept(dn'), Kept(kn, kn'),
           kn'.handle = "closed" <=> dn'.handle = "closed",
           \E n \in 0 .. Len(kn.lines) : kn'.lines = SubSeq(kn.lines, 1, n),
           \E n \in 0 .. Len(dn.lines) : dn'.lines = SubSeq(dn.lines, 1, n), ServiceSane
    PROVE  ServiceInv'
<1> DEFINE J == kn.lines
<1>1. PICK n \in 0 .. Len(J) : kn'.lines = SubSeq(J, 1, n) OBVIOUS
<1>2. J \in Seq(Ops) /\ AdmitsAll(Empty, J) /\ Len(J) <= MaxLines
  BY DEF ServiceInv, ServiceTypes, Store
<1> HIDE DEF J, Ops
<1>3. AdmitsAll(Empty, kn'.lines) BY ZenonT(30), <1>1, <1>2, AdmitsPrefix
<1>4. Len(kn'.lines) <= MaxLines
  <2>1. Len(SubSeq(J, 1, n)) = n /\ Len(J) \in Nat BY <1>2
  <2> QED BY <1>1, <1>2, <2>1 DEF ServiceSane
<1> QED BY ZenonT(30), <1>3, <1>4, ServiceKept

\* Every step keeps the invariant, and the durable lines of both journals.
LEMMA ServiceStep ==
    ASSUME ServiceSane, ServiceInv, [Next]_vars
    PROVE  ServiceInv' /\ Kept(kn, kn') /\ Kept(dn, dn')
<1>1. /\ kn \in Store(Ops) /\ dn \in Store(Entries) /\ faults \in Nat
      /\ StoreKept(kn) /\ StoreKept(dn)
      /\ kn.handle = "closed" <=> dn.handle = "closed"
  BY DEF ServiceInv, ServiceTypes
<1>2. Kept(kn, kn) /\ Kept(dn, dn) BY <1>1 DEF Grown, Kept, Store
<1>3. /\ \E n \in 0 .. Len(kn.lines) : kn.lines = SubSeq(kn.lines, 1, n)
      /\ \E n \in 0 .. Len(dn.lines) : dn.lines = SubSeq(dn.lines, 1, n)
  <2>1. \A Q : \A J \in Seq(Q) : \E n \in 0 .. Len(J) : J = SubSeq(J, 1, n)
    <3> TAKE Q
    <3> TAKE J \in Seq(Q)
    <3>1. Len(J) \in 0 .. Len(J) /\ J = SubSeq(J, 1, Len(J)) OBVIOUS
    <3> QED BY ZenonT(30), <3>1
  <2>2. kn.lines \in Seq(Ops) /\ dn.lines \in Seq(Entries) BY <1>1 DEF Store
  <2> QED BY ZenonT(30), <2>1, <2>2
<1> HIDE DEF Ops, Entries
<1>4. CASE Open
  <2>1. kn' = Loaded(kn) /\ dn' = Loaded(dn) /\ faults' = faults BY <1>4 DEF Open
  <2>2. /\ kn' \in Store(Ops) /\ StoreKept(kn') /\ Kept(kn, kn') /\ kn'.lines = kn.lines
        /\ kn'.handle = "open"
    BY ZenonT(30), <1>1, <2>1, StoreLoads
  <2>3. /\ dn' \in Store(Entries) /\ StoreKept(dn') /\ Kept(dn, dn') /\ dn'.lines = dn.lines
        /\ dn'.handle = "open"
    BY ZenonT(30), <1>1, <2>1, StoreLoads
  <2>4. ServiceTypes' BY ZenonT(30), <1>1, <2>1, <2>2, <2>3 DEF ServiceTypes
  <2>5. kn'.handle = "closed" <=> dn'.handle = "closed" BY <2>2, <2>3
  <2>6. ServiceInv' BY ZenonT(30), <1>3, <2>2, <2>3, <2>4, <2>5, LifeStep
  <2> QED BY ZenonT(30), <2>2, <2>3, <2>6
<1>5. CASE OpenFails
  <2>1. /\ kn' = Closed(Loaded(kn)) /\ dn' = dn /\ faults' = faults + 1 /\ kn.handle = "closed"
    BY <1>5 DEF OpenFails, Fault
  <2>2. /\ kn' \in Store(Ops) /\ StoreKept(kn') /\ Kept(kn, kn') /\ kn'.lines = kn.lines
        /\ kn'.handle = "closed"
    BY ZenonT(30), <1>1, <2>1, StoreLoads
  <2>3. faults' \in Nat BY <1>1, <2>1
  <2>4. ServiceTypes' BY ZenonT(30), <1>1, <2>1, <2>2, <2>3 DEF ServiceTypes
  <2>5. kn'.handle = "closed" <=> dn'.handle = "closed" BY ZenonT(30), <1>1, <2>1, <2>2
  <2>6. StoreKept(dn') /\ Kept(dn, dn') /\ dn'.lines = dn.lines BY ZenonT(30), <1>1, <1>2, <2>1
  <2>7. ServiceInv' BY ZenonT(30), <1>3, <2>2, <2>4, <2>5, <2>6, LifeStep
  <2> QED BY ZenonT(30), <2>2, <2>6, <2>7
<1>6. CASE Close
  <2>1. kn' = Closed(kn) /\ dn' = Closed(dn) /\ faults' = faults + 1 BY <1>6 DEF Close, Fault
  <2>2. /\ kn' \in Store(Ops) /\ StoreKept(kn') /\ Kept(kn, kn') /\ kn'.lines = kn.lines
        /\ kn'.handle = "closed"
    BY ZenonT(30), <1>1, <2>1, StoreCloses
  <2>3. /\ dn' \in Store(Entries) /\ StoreKept(dn') /\ Kept(dn, dn') /\ dn'.lines = dn.lines
        /\ dn'.handle = "closed"
    BY ZenonT(30), <1>1, <2>1, StoreCloses
  <2>4. faults' \in Nat BY <1>1, <2>1
  <2>5. ServiceTypes' BY ZenonT(30), <2>2, <2>3, <2>4 DEF ServiceTypes
  <2>6. ServiceInv' BY ZenonT(30), <1>3, <2>2, <2>3, <2>5, LifeStep
  <2> QED BY ZenonT(30), <2>2, <2>3, <2>6
<1>7. CASE PowerLoss
  <2>1. kn' \in Survivors(kn) /\ dn' \in Survivors(dn) /\ faults' = faults + 1
    BY <1>7 DEF PowerLoss, Fault
  <2>2. /\ kn' \in Store(Ops) /\ StoreKept(kn') /\ Kept(kn, kn') /\ kn'.handle = "closed"
        /\ \E n \in 0 .. Len(kn.lines) : kn'.lines = SubSeq(kn.lines, 1, n)
    BY ZenonT(30), <1>1, <2>1, StoreSurvives
  <2>3. /\ dn' \in Store(Entries) /\ StoreKept(dn') /\ Kept(dn, dn') /\ dn'.handle = "closed"
        /\ \E n \in 0 .. Len(dn.lines) : dn'.lines = SubSeq(dn.lines, 1, n)
    BY ZenonT(30), <1>1, <2>1, StoreSurvives
  <2>4. faults' \in Nat BY <1>1, <2>1
  <2>5. ServiceTypes' BY ZenonT(30), <2>2, <2>3, <2>4 DEF ServiceTypes
  <2>6. ServiceInv' BY ZenonT(30), <2>2, <2>3, <2>5, LifeStep
  <2> QED BY ZenonT(30), <2>2, <2>3, <2>6
<1>a. CASE WriteBack
  <2>1. /\ kn' = kn \/ kn' = [kn EXCEPT !.entry = "kept"]
        /\ dn' = dn \/ dn' = [dn EXCEPT !.entry = "kept"]
        /\ faults' = faults
    BY ZenonT(30), <1>a DEF WriteBack
  <2>2. /\ kn' \in Store(Ops) /\ StoreKept(kn') /\ Kept(kn, kn') /\ kn'.lines = kn.lines
        /\ kn'.handle = kn.handle
    BY ZenonT(30), <1>1, <1>2, <2>1, StorePinned
  <2>3. /\ dn' \in Store(Entries) /\ StoreKept(dn') /\ Kept(dn, dn') /\ dn'.lines = dn.lines
        /\ dn'.handle = dn.handle
    BY ZenonT(30), <1>1, <1>2, <2>1, StorePinned
  <2>4. ServiceTypes' BY ZenonT(30), <1>1, <2>1, <2>2, <2>3 DEF ServiceTypes
  <2>5. kn'.handle = "closed" <=> dn'.handle = "closed" BY ZenonT(30), <1>1, <2>2, <2>3
  <2>6. ServiceInv' BY ZenonT(30), <1>3, <2>2, <2>3, <2>4, <2>5, LifeStep
  <2> QED BY ZenonT(30), <2>2, <2>3, <2>6
<1>8. ASSUME NEW b \in Batches, AppendKnowledge(b)
      PROVE  ServiceInv' /\ Kept(kn, kn') /\ Kept(dn, dn')
  BY ZenonT(30), <1>2, <1>8, KnowledgeStep
<1>9. Anchor \in Anchors /\ Firm \in BOOLEAN
  <2>1. kn.mem \in Seq(Ops) BY <1>1 DEF Store
  <2>2. Anchor \in Anchors BY ZenonT(30), <2>1 DEF Anchor, Anchors
  <2>3. Firm \in BOOLEAN BY DEF Firm
  <2> QED BY <2>2, <2>3
<1>10. ASSUME NEW d \in Drafts, Record(d)
       PROVE  ServiceInv' /\ Kept(kn, kn') /\ Kept(dn, dn')
  <2> DEFINE op == RecordOp(d)
  <2>1. /\ kn.mem # <<>> /\ AppendDecision(op) /\ d.facts \subseteq CurrentFacts(Replay(kn.mem))
        /\ d.evidence \subseteq Replay(kn.mem).evidence
    BY <1>10 DEF Record, AppendDecision, Cites
  <2> DEFINE a == Anchor
             f == Firm
  <2>2. op = [kind |-> "record", id |-> d.id, precedents |-> d.precedents, facts |-> d.facts,
              relations |-> d.relations, evidence |-> d.evidence, anchor |-> a, firm |-> f]
    BY ZenonT(30) DEF RecordOp
  <2>3. op \in Entries /\ op.anchor = Anchor /\ op.firm = Firm /\ op.facts = d.facts
        /\ op.evidence = d.evidence
    <3>1. a \in Anchors /\ f \in BOOLEAN BY <1>9
    <3> HIDE DEF a, f, op, Anchors
    <3>2. op \in Recorded BY <2>2, <3>1 DEF Recorded
    <3>3. op.anchor = a /\ op.firm = f /\ op.facts = d.facts /\ op.evidence = d.evidence BY <2>2
    <3> QED BY ZenonT(30), <3>2, <3>3 DEF a, f, Entries
  <2> HIDE DEF op
  <2>4. Accountable(op, kn) BY ZenonT(30), <2>1, <2>3, MadeNow
  <2>5. ServiceInv' /\ kn' = kn /\ Kept(dn, dn') BY ZenonT(30), <2>1, <2>3, <2>4, DecisionStep
  <2> QED BY ZenonT(30), <1>2, <2>5
<1>11. ASSUME NEW d \in Drafts, NEW e \in d.outcome, RecordOutcome(d.id, e)
       PROVE  ServiceInv' /\ Kept(kn, kn') /\ Kept(dn, dn')
  <2> DEFINE op == OutcomeOp(d.id, e)
  <2>1. kn.mem # <<>> /\ AppendDecision(op) /\ e \in Replay(kn.mem).evidence
    BY <1>11 DEF RecordOutcome, AppendDecision
  <2> DEFINE a == Anchor
             f == Firm
  <2>2. op = [kind |-> "outcome", id |-> d.id, precedents |-> {}, facts |-> {},
              relations |-> {}, evidence |-> {e}, anchor |-> a, firm |-> f]
    BY ZenonT(30) DEF OutcomeOp
  <2>3. op \in Entries /\ op.anchor = Anchor /\ op.firm = Firm /\ op.facts = {}
        /\ op.evidence = {e}
    <3>1. a \in Anchors /\ f \in BOOLEAN /\ d.id \in DraftIds /\ {e} \in Reports
      BY ZenonT(30), <1>9 DEF DraftIds, Reports
    <3> HIDE DEF a, f, op
    <3>2. op \in Outcomes BY <2>2, <3>1 DEF Outcomes
    <3>3. op.anchor = a /\ op.firm = f /\ op.facts = {} /\ op.evidence = {e} BY <2>2
    <3> QED BY ZenonT(30), <3>2, <3>3 DEF a, f, Entries
  <2> HIDE DEF op
  <2>4. op.facts \subseteq CurrentFacts(Replay(kn.mem))
          /\ op.evidence \subseteq Replay(kn.mem).evidence
    BY ZenonT(30), <2>1, <2>3
  <2>5. Accountable(op, kn) BY ZenonT(30), <2>1, <2>3, <2>4, MadeNow
  <2>6. ServiceInv' /\ kn' = kn /\ Kept(dn, dn') BY ZenonT(30), <2>1, <2>3, <2>5, DecisionStep
  <2> QED BY ZenonT(30), <1>2, <2>6
<1>12. CASE UNCHANGED vars
  <2>1. kn' = kn /\ dn' = dn /\ faults' = faults BY <1>12 DEF vars
  <2>2. ServiceTypes' BY ZenonT(30), <1>1, <2>1 DEF ServiceTypes
  <2>3. /\ StoreKept(kn') /\ StoreKept(dn') /\ Kept(kn, kn') /\ Kept(dn, dn')
        /\ kn'.lines = kn.lines /\ dn'.lines = dn.lines
        /\ kn'.handle = "closed" <=> dn'.handle = "closed"
    BY ZenonT(30), <1>1, <1>2, <2>1
  <2>4. ServiceInv' BY ZenonT(30), <1>3, <2>2, <2>3, LifeStep
  <2> QED BY ZenonT(30), <2>3, <2>4
<1>13. CASE Next
  BY ZenonT(30), <1>4, <1>5, <1>6, <1>7, <1>8, <1>a, <1>10, <1>11, <1>13 DEF Next
<1> QED BY ZenonT(30), <1>12, <1>13

\* The invariant of the service: both journals replay, memory stands for a prefix
\* of each file, acknowledged lines are synced in the file that is there, and a
\* decision made on knowledge that no power loss can take stays accountable to it.
THEOREM ServiceSafe ==
    ASSUME ServiceSane
    PROVE  Spec => []ServiceInv
<1>1. Init => ServiceInv BY ServiceStarts
<1>2. ServiceInv /\ [Next]_vars => ServiceInv' BY ServiceStep
<1> QED BY <1>1, <1>2, PTL DEF Spec

\* No step, a crash and a power loss included, takes a synced line out of either
\* journal or changes one, with one exception: a power loss before the directory
\* entry of a journal that open created is on disk takes the whole file.
DurableLinesStay == [][Kept(kn, kn') /\ Kept(dn, dn')]_vars
THEOREM DurableLinesKept ==
    ASSUME ServiceSane
    PROVE  Spec => DurableLinesStay
<1>1. ServiceInv /\ [Next]_vars => [Kept(kn, kn') /\ Kept(dn, dn')]_vars BY ServiceStep
<1> QED BY <1>1, ServiceSafe, PTL DEF Spec, DurableLinesStay

\* The knowledge in memory is that of a journal that replays.
LEMMA MemorySound ==
    ASSUME ServiceSane, ServiceInv
    PROVE  /\ Sound(Replay(kn.mem), Len(kn.mem))
           /\ \A s \in 0 .. Len(kn.mem) - 1 :
                  FactsVisibleAt(Replay(kn.mem), s) = CurrentFacts(ReplayAt(kn.mem, s))
<1> DEFINE J == kn.lines
           m == kn.mem
           n == Len(kn.mem)
<1>1. /\ J \in Seq(Ops) /\ m \in Seq(Ops) /\ AdmitsAll(Empty, J) /\ Len(J) <= MaxLines
      /\ n <= Len(J) /\ m = SubSeq(J, 1, n)
  BY DEF ServiceInv, ServiceTypes, Store, StoreKept
<1>2. n \in 0 .. Len(J) /\ Len(m) <= Unset
  <2>1. Len(J) \in Nat /\ n \in Nat /\ Len(m) = n BY <1>1
  <2> HIDE DEF J, m, n
  <2> QED BY <1>1, <2>1 DEF ServiceSane, Unset
<1> HIDE DEF J, m, n, Ops
<1>3. AdmitsAll(Empty, m) BY ZenonT(30), <1>1, <1>2, AdmitsPrefix
<1>4. m \in Seq(Ops) /\ Len(m) <= Unset BY <1>1, <1>2
<1> QED BY ZenonT(30), <1>3, <1>4, ReplaySound DEF m

\* Competing assertions are never silently merged, whatever the operations are.
THEOREM ContradictionsShown ==
    ASSUME ServiceSane
    PROVE  Spec => []NoSilentContradiction
<1>1. ASSUME ServiceInv PROVE NoSilentContradiction
  <2> DEFINE st == Replay(kn.mem)
             F == st.facts
             C == st.conflicts
  <2>1. Exposed(F, C) BY <1>1, MemorySound DEF Sound
  <2> HIDE DEF st
  <2>2. ASSUME NEW f \in CurrentFacts(st), NEW g \in CurrentFacts(st), g \in Competing(st, F[f])
        PROVE  LET c == Conflict(F[f]) IN
               /\ c \in DOMAIN C /\ {f, g} \subseteq C[c].facts
               /\ C[c].resolved > F[f].at /\ C[c].resolved > F[g].at
    <3>1. f \in DOMAIN F /\ g \in DOMAIN F /\ Contradict(F[f], F[g])
      BY ZenonT(30), <2>2 DEF CurrentFacts, Competing, Contradict, Overlaps
    <3> QED BY ZenonT(30), <2>1, <3>1 DEF Exposed
  <2> QED BY ZenonT(30), <2>2 DEF NoSilentContradiction, KnowledgeNow, st
<1> QED BY <1>1, ServiceSafe, PTL

\* Asking the state of now about a transaction gives what the journal up to it says.
THEOREM HistoryReplays ==
    ASSUME ServiceSane
    PROVE  Spec => []HistoryMatchesReplay
<1>1. ServiceInv => HistoryMatchesReplay
  BY ZenonT(30), MemorySound DEF HistoryMatchesReplay, KnowledgeNow
<1> QED BY <1>1, ServiceSafe, PTL

\* A decision made on durable knowledge stays accountable to it.
THEOREM AnchorsStaySound ==
    ASSUME ServiceSane
    PROVE  Spec => []AnchorSound
<1>1. ASSUME ServiceInv PROVE AnchorSound
  <2> DEFINE J == kn.lines
  <2>1. /\ J \in Seq(Ops) /\ AdmitsAll(Empty, J) /\ Len(J) <= MaxLines
        /\ kn.safe \in Nat /\ kn.safe <= Len(J)
    BY <1>1 DEF ServiceInv, ServiceTypes, Store, StoreKept
  <2>2. Len(J) \in Nat /\ Len(J) <= Unset
    <3>1. Len(J) \in Nat BY <2>1
    <3> QED BY <2>1, <3>1 DEF ServiceSane, Unset
  <2> HIDE DEF J, Ops
  <2>3. \A s \in 0 .. Len(J) - 1 : FactsVisibleAt(Replay(J), s) = CurrentFacts(ReplayAt(J, s))
    BY <2>1, <2>2, ReplaySound
  <2>4. \A s \in 0 .. Len(J) - 1 : ReplayAt(J, s) = States(Empty, J)[s + 1] BY <2>1, ReplayAtIs
  <2>5. ASSUME NEW i \in 1 .. Len(dn.lines), dn.lines[i].firm
        PROVE  LET d == dn.lines[i] IN
               /\ kn.entry = "kept" /\ d.anchor.seq < kn.safe
               /\ ReplayAt(J, d.anchor.seq) = d.anchor.hash
               /\ d.facts \subseteq FactsVisibleAt(Replay(J), d.anchor.seq)
               /\ d.evidence \subseteq ReplayAt(J, d.anchor.seq).evidence
    <3> DEFINE d == dn.lines[i]
               s == d.anchor.seq
    <3>1. /\ kn.entry = "kept" /\ s \in 0 .. kn.safe - 1 /\ d.anchor.hash = States(Empty, J)[s + 1]
          /\ d.facts \subseteq CurrentFacts(d.anchor.hash)
          /\ d.evidence \subseteq d.anchor.hash.evidence
      BY ZenonT(30), <1>1, <2>5 DEF ServiceInv, Accountable, J
    <3> HIDE DEF d, s
    <3>2. s \in 0 .. Len(J) - 1 /\ s < kn.safe BY <2>1, <2>2, <3>1
    <3>3. /\ ReplayAt(J, s) = d.anchor.hash
          /\ FactsVisibleAt(Replay(J), s) = CurrentFacts(d.anchor.hash)
      BY ZenonT(30), <2>3, <2>4, <3>1, <3>2
    <3>4. /\ kn.entry = "kept" /\ s < kn.safe /\ ReplayAt(J, s) = d.anchor.hash
          /\ d.facts \subseteq FactsVisibleAt(Replay(J), s)
             /\ d.evidence \subseteq ReplayAt(J, s).evidence
      BY ZenonT(30), <3>1, <3>2, <3>3
    <3> QED BY ZenonT(30), <3>4 DEF d, s
  <2> QED BY ZenonT(30), <2>5 DEF AnchorSound, J
<1> QED BY <1>1, ServiceSafe, PTL

\* Both journals keep what they acknowledged as long as their files are there, and
\* the service can always be opened (append, open).
THEOREM JournalsStayKept ==
    ASSUME ServiceSane
    PROVE  Spec => []JournalsKept
<1>1. ServiceInv => JournalsKept
  BY ZenonT(30) DEF ServiceInv, StoreKept, JournalsKept, AckedLinesKept, AlwaysOpens
<1> QED BY <1>1, ServiceSafe, PTL
=============================================================================
