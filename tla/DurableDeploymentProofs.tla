---------------------- MODULE DurableDeploymentProofs ----------------------
(***************************************************************************)
(* The durable deployment keeps its promises for every set of tenants,     *)
(* every budget and every number of decisions, crashes and failed writes.  *)
(*                                                                         *)
(* The argument: the bytes of the journal are whole lines and at most one  *)
(* fragment more (FilesInv), the records they hold are a dense trail that  *)
(* has every answered decision and stays within the budgets (BookInv), and *)
(* a running deployment has exactly that trail in memory, or one decision  *)
(* more that is in flight (MemoryInv).  No step loses a record, and the    *)
(* only record a step adds is the decision in flight.                      *)
(***************************************************************************)
EXTENDS DurableDeployment, WellFoundedInduction, TLAPS

-----------------------------------------------------------------------------
(* The inductive invariant *)

\* The fragments of lines that hold records of Q.
Frags(Q) == [rec : Q, half : {"head", "tail"}]

\* The file is the lines of these records, exactly or with one fragment more: a
\* torn tail, or the rest of a line whose head was rolled back.
Framed(file, records) ==
    /\ Len(file) \in {2 * Len(records), 2 * Len(records) + 1}
    /\ \A j \in 1 .. Len(records) :
          file[2 * j - 1] = Head1(records[j]) /\ file[2 * j] = Tail2(records[j])
Exact(file, records) == Framed(file, records) /\ Len(file) = 2 * Len(records)
Stray(file) == TornTail(file) = 0 /\ Len(file) % 2 = 1

Decision == [seq : Nat, tenant : Tenants, cost : {0, 1}]
Change == [seq : Nat, tenant : Tenants]
IsLedger(l) == DOMAIN l \subseteq Tenants /\ l \in [DOMAIN l -> Nat]

TypeOK ==
    /\ live \in Seq(Frags(Decision)) /\ segments \in Seq(Seq(Frags(Decision)))
    /\ governance \in Seq(Frags(Change))
    /\ snapshot = NoSnapshot \/ (snapshot.watermark \in Nat /\ IsLedger(snapshot.ledger))
    /\ pc \in {"down", "refused", "idle", "append", "governance", "snapshot", "rotate",
               "fresh", "poisoned"}
    /\ trail \in Seq(Decision) /\ changes \in Seq(Change) /\ (Up => IsLedger(ledger))
    /\ nextSeq \in Nat /\ nextOrd \in Nat
    /\ unflushed \in Seq(Frags(Decision)) /\ unflushedGov \in Seq(Frags(Change))
    /\ acked \in Seq(Decision) /\ crashes \in Nat /\ faults \in Nat

Sealed == [i \in DOMAIN segments |-> Records(segments[i])]

\* Segments are whole lines; a line of the live file that does not parse is the
\* rest of one a failed write rolled back; nothing is written before the first
\* checkpoint.
FilesInv ==
    /\ \A i \in DOMAIN segments : Exact(segments[i], Records(segments[i]))
    /\ Exact(FlattenSeq(segments), FlattenSeq(Sealed))
    /\ Framed(live, Records(live)) /\ (Stray(live) => faults > 0)
    /\ snapshot = NoSnapshot =>
          segments = <<>> /\ live = <<>> /\ governance = <<>> /\ ~Up

\* What the files hold is a trail: dense, with every answered decision, within
\* the budgets; and the checkpoint is what a part of it charged.
BookInv ==
    /\ DenseFrom(AuditHistory, 0) /\ IsPrefix(acked, AuditHistory)
    /\ \A t \in Tenants : Cost(AuditHistory, t) <= Limit
    /\ snapshot # NoSnapshot =>
          /\ snapshot.watermark <= Len(AuditHistory)
          /\ \A t \in Tenants :
                CostAt(AuditHistory, 1 .. snapshot.watermark, t) =
                    IF t \in DOMAIN snapshot.ledger THEN snapshot.ledger[t] ELSE 0

\* The decision in flight is not on file, or half of it is, and what the writer
\* still holds is the rest of it or all of it.
InFlight ==
    LET r == trail[Len(trail)] IN
    /\ trail # <<>> /\ AuditHistory = Front(trail)
    /\ \/ /\ Exact(live, Records(live))
          /\ unflushed \in {<<>>, <<Tail2(r)>>, <<Head1(r), Tail2(r)>>}
       \/ /\ Len(live) = 2 * Len(Records(live)) + 1 /\ live[Len(live)] = Head1(r)
          /\ unflushed \in {<<>>, <<Tail2(r)>>}

\* Memory is the file and at most the decision in flight, and the ledgers are
\* what the trail charged.
MemoryInv ==
    Up =>
    /\ DenseFrom(trail, 0)
    /\ \A t \in Tenants :
          /\ Cost(trail, t) = IF t \in DOMAIN ledger THEN ledger[t] ELSE 0
          /\ Cost(trail, t) <= Limit
    /\ pc \notin {"append", "poisoned"} => trail = AuditHistory
    /\ pc = "append" => trail # <<>> /\ AuditHistory = Front(trail)
    /\ pc # "poisoned" =>
          Exact(live, Records(live)) /\ unflushed = <<>> /\ nextSeq = Len(AuditHistory)
    /\ pc = "poisoned" =>
          \/ Exact(live, Records(live)) /\ unflushed = <<>> /\ trail = AuditHistory
          \/ InFlight /\ faults > 0
    /\ pc = "fresh" => live = <<>> /\ segments # <<>>

\* What is assumed of a deployment: its first tenants are tenants, and it is the
\* MCP server, which does not start on a torn tail.
DeploymentSane ==
    FirstTenants \subseteq Tenants /\ Limit \in Nat /\ RefuseTornTail = TRUE

DeploymentInv == TypeOK /\ FilesInv /\ BookInv /\ MemoryInv

-----------------------------------------------------------------------------
(* Sequences: what the SMT backend knows of them, where a proof must name it. *)

\* A sequence is a function on the numbers up to its length.
LEMMA Lengths ==
    ASSUME NEW X, NEW s \in Seq(X)
    PROVE  Len(s) \in Nat /\ s \in [1 .. Len(s) -> X] /\ DOMAIN s = 1 .. Len(s)
OBVIOUS

\* The sequence of length 0.
LEMMA Empties ==
    ASSUME NEW X
    PROVE  <<>> \in Seq(X) /\ Len(<<>>) = 0 /\ \A s \in Seq(X) : s = <<>> <=> Len(s) = 0
OBVIOUS

-----------------------------------------------------------------------------
(* Induction over the naturals, and what FlattenSeq computes *)

\* Every set of numbers has a least one: the induction the lemmas below need.
LEMMA Least ==
    ASSUME NEW T, T \subseteq Nat, T # {}
    PROVE  \E n \in T : \A m \in T : n <= m
\* The numbers below another one.
<1>Below. IsWellFoundedOn({p \in Nat \X Nat : p[1] < p[2]}, Nat)
  BY ZenonT(30), NatLessThanWellFounded DEF OpToRel
<1> DEFINE R == {p \in Nat \X Nat : p[1] < p[2]}
<1>1. IsWellFoundedOn(R, Nat) BY ZenonT(30), <1>Below
<1> HIDE DEF R
<1>2. PICK n \in T : \A m \in T : ~(<<m, n>> \in R) BY ZenonT(30), <1>1, WFMin
<1>3. \A m \in T : ~(m < n) BY ZenonT(30), <1>2 DEF R
<1> QED BY <1>3

\* Induction over the naturals, for a set of numbers.
LEMMA Counting ==
    ASSUME NEW S, 0 \in S, \A k \in Nat : k \in S => k + 1 \in S
    PROVE  Nat \subseteq S
<1> DEFINE T == {k \in Nat : k \notin S}
<1> SUFFICES ASSUME T # {} PROVE FALSE OBVIOUS
<1>1. PICK n \in T : \A m \in T : n <= m BY ZenonT(30), Least
<1>2. n \in Nat /\ n # 0 BY ZenonT(30), <1>1
<1>3. n - 1 \in Nat /\ n - 1 \notin T BY <1>1, <1>2
<1>4. n - 1 \in S BY ZenonT(30), <1>3
<1>5. (n - 1) + 1 \in S BY ZenonT(30), <1>3, <1>4
<1> QED BY <1>1, <1>2, <1>5

\* The running concatenations that FlattenSeq is defined by.
Running(s, n, g) ==
    /\ n > 0 => g[1] = s[1]
    /\ \A i \in 1 .. n - 1 : g[i + 1] = g[i] \o s[i + 1]

\* FlattenSeq takes its last sequence last.
LEMMA FlattenAppend ==
    ASSUME NEW X, NEW s \in Seq(Seq(X)), NEW x \in Seq(X)
    PROVE  /\ FlattenSeq(Append(s, x)) = FlattenSeq(s) \o x
           /\ FlattenSeq(s) \in Seq(X) /\ FlattenSeq(<<>>) = <<>>
\* Two runs over the same sequence agree.
<1>RunningSame. ASSUME NEW s1, NEW n \in Nat, NEW g, NEW h, Running(s1, n, g), Running(s1, n, h)
    PROVE  \A i \in 1 .. n : g[i] = h[i]
  <2> USE <1>RunningSame
  <2> DEFINE S == {k \in Nat : k \in 1 .. n => g[k] = h[k]}
  <2>1. 0 \in S OBVIOUS
  <2>2. ASSUME NEW k \in Nat, k \in S PROVE k + 1 \in S
    <3>1. CASE k + 1 \in 1 .. n
      <4>1. CASE k = 0 BY <3>1, <4>1 DEF Running
      <4>2. CASE k # 0
        <5>1. k \in 1 .. n - 1 /\ k \in 1 .. n BY <3>1, <4>2
        <5>2. g[k + 1] = g[k] \o s1[k + 1] /\ h[k + 1] = h[k] \o s1[k + 1]
          BY ZenonT(30), <3>1, <5>1 DEF Running
        <5>3. g[k] = h[k] BY ZenonT(30), <2>2, <5>1
        <5>4. g[k + 1] = h[k + 1] BY ZenonT(30), <5>2, <5>3
        <5> QED BY <5>4
      <4> QED BY ZenonT(30), <4>1, <4>2
    <3> QED BY <3>1
  <2>3. Nat \subseteq S
    <3> HIDE DEF S
    <3> QED BY ZenonT(30), <2>1, <2>2, Counting
  <2> QED BY <2>3
\* FlattenSeq is its own running total at the last place: the recursive
\* function inside it unfolds.
<1>FlattenRuns. ASSUME NEW X2, NEW s2 \in Seq(Seq(X2)), s2 # <<>>
    PROVE  \E g \in [1 .. Len(s2) -> Seq(X2)] : Running(s2, Len(s2), g) /\ FlattenSeq(s2) = g[Len(s2)]
  <2> USE <1>FlattenRuns
  \* Running totals of any sequence of sequences exist, by induction on their number.
  <2>RunningExists. ASSUME NEW X1, NEW s1 \in Seq(Seq(X1)), NEW n \in 0 .. Len(s1)
      PROVE  \E g \in [1 .. n -> Seq(X1)] : Running(s1, n, g)
    <3> USE <2>RunningExists
    <3> DEFINE Q(k) == \E g \in [1 .. k -> Seq(X1)] : Running(s1, k, g)
    <3>1. Q(0)
      <4>1. [i \in 1 .. 0 |-> s1[i]] \in [1 .. 0 -> Seq(X1)] OBVIOUS
      <4>2. Running(s1, 0, [i \in 1 .. 0 |-> s1[i]]) BY DEF Running
      <4> QED BY ZenonT(30), <4>1, <4>2
    <3>2. ASSUME NEW k \in 0 .. Len(s1) - 1, Q(k) PROVE Q(k + 1)
      <4>1. PICK g \in [1 .. k -> Seq(X1)] : Running(s1, k, g) BY ZenonT(30), <3>2
      <4>2. k \in Nat /\ k + 1 \in 1 .. Len(s1) /\ s1[k + 1] \in Seq(X1) OBVIOUS
      <4> DEFINE x1 == IF k = 0 THEN s1[1] ELSE g[k] \o s1[k + 1]
                 h == [i \in 1 .. k + 1 |-> IF i = k + 1 THEN x1 ELSE g[i]]
      <4>3. x1 \in Seq(X1)
        <5>1. CASE k = 0 BY <4>2, <5>1
        <5>2. CASE k # 0
          <6>1. g[k] \in Seq(X1) BY <4>1, <4>2, <5>2
          <6> QED BY <4>2, <5>2, <6>1
        <5> QED BY ZenonT(30), <5>1, <5>2
      <4>4. x1 = IF k = 0 THEN s1[1] ELSE g[k] \o s1[k + 1] OBVIOUS
      <4> HIDE DEF x1
      <4>5. h \in [1 .. k + 1 -> Seq(X1)] BY <4>2, <4>3
      <4>6. \A i \in 1 .. k : h[i] = g[i] BY <4>2
      <4>7. h[k + 1] = x1 BY <4>2
      <4> HIDE DEF h
      <4>8. h[1] = s1[1]
        <5>1. CASE k = 0 BY <4>4, <4>7, <5>1
        <5>2. CASE k # 0
          <6>1. 1 \in 1 .. k /\ k > 0 BY <4>2, <5>2
          <6> QED BY ZenonT(30), <4>1, <4>6, <6>1 DEF Running
        <5> QED BY ZenonT(30), <5>1, <5>2
      <4>10. ASSUME NEW i \in 1 .. k PROVE h[i + 1] = h[i] \o s1[i + 1]
        <5>1. k # 0 /\ h[i] = g[i] BY <4>2, <4>6
        <5>2. CASE i = k
          <6>1. h[i + 1] = g[k] \o s1[k + 1] BY ZenonT(30), <4>4, <4>7, <5>1, <5>2
          <6> QED BY ZenonT(30), <5>1, <5>2, <6>1
        <5>3. CASE i # k
          <6>1. i \in 1 .. k - 1 /\ i + 1 \in 1 .. k BY <4>2, <5>3
          <6>2. h[i + 1] = g[i + 1] BY ZenonT(30), <4>6, <6>1
          <6>3. g[i + 1] = g[i] \o s1[i + 1] BY ZenonT(30), <4>1, <6>1 DEF Running
          <6> QED BY ZenonT(30), <5>1, <6>2, <6>3
        <5> QED BY ZenonT(30), <5>2, <5>3
      <4>9. (k + 1) - 1 = k BY <4>2
      <4>11. Running(s1, k + 1, h) BY ZenonT(30), <4>8, <4>9, <4>10 DEF Running
      <4> QED BY ZenonT(30), <4>5, <4>11
    <3> DEFINE S == {k \in Nat : k <= Len(s1) => Q(k)}
    <3>3. 0 \in S BY ZenonT(30), <3>1
    <3>4. ASSUME NEW k \in Nat, k \in S PROVE k + 1 \in S
      <4>1. CASE k + 1 <= Len(s1)
        <5>1. k \in 0 .. Len(s1) - 1 /\ Q(k) BY <3>4, <4>1
        <5>2. Q(k + 1) BY ZenonT(30), <3>2, <5>1
        <5> HIDE DEF Q
        <5> QED BY <5>2
      <4> HIDE DEF Q
      <4> QED BY <4>1
    <3>5. Nat \subseteq S
      <4> HIDE DEF S
      <4> QED BY ZenonT(30), <3>3, <3>4, Counting
    <3>6. n \in S /\ n <= Len(s1) BY <3>5
    <3> QED BY ZenonT(30), <3>6
  <2> DEFINE Is(f) == f = [i \in 1 .. Len(s2) |-> IF i = 1 THEN s2[i] ELSE f[i - 1] \o s2[i]]
  <2>1. Len(s2) \in 0 .. Len(s2) OBVIOUS
  <2>2. PICK g \in [1 .. Len(s2) -> Seq(X2)] : Running(s2, Len(s2), g)
    BY ZenonT(30), <2>1, <2>RunningExists
  <2>3. Is(g)
    <3>1. ASSUME NEW i \in 1 .. Len(s2) PROVE g[i] = IF i = 1 THEN s2[i] ELSE g[i - 1] \o s2[i]
      <4>1. CASE i = 1 BY <2>2, <4>1 DEF Running
      <4>2. CASE i # 1
        <5>1. i - 1 \in 1 .. Len(s2) - 1 /\ (i - 1) + 1 = i BY <4>2
        <5>2. g[(i - 1) + 1] = g[i - 1] \o s2[(i - 1) + 1] BY ZenonT(30), <2>2, <5>1 DEF Running
        <5> QED BY ZenonT(30), <4>2, <5>1, <5>2
      <4> QED BY ZenonT(30), <4>1, <4>2
    <3> QED BY ZenonT(30), <3>1
  <2> DEFINE f == CHOOSE f : Is(f)
  <2>4. Is(f) BY ZenonT(30), <2>3
  <2>5. Len(s2) # 0 OBVIOUS
  <2>6. FlattenSeq(s2) = f[Len(s2)] BY ZenonT(30), <2>5 DEF FlattenSeq
  <2> HIDE DEF f
  <2>7. Running(s2, Len(s2), f)
    <3>1. \A i \in 1 .. Len(s2) : f[i] = IF i = 1 THEN s2[i] ELSE f[i - 1] \o s2[i]
      BY ZenonT(30), <2>4
    <3>2. f[1] = s2[1] BY <2>5, <3>1
    <3>3. ASSUME NEW i \in 1 .. Len(s2) - 1 PROVE f[i + 1] = f[i] \o s2[i + 1]
      <4>1. i + 1 \in 1 .. Len(s2) /\ i + 1 # 1 /\ (i + 1) - 1 = i OBVIOUS
      <4>2. f[i + 1] = f[(i + 1) - 1] \o s2[i + 1] BY ZenonT(30), <3>1, <4>1
      <4> QED BY ZenonT(30), <4>1, <4>2
    <3> QED BY ZenonT(30), <3>2, <3>3 DEF Running
  <2>8. f \in [1 .. Len(s2) -> Seq(X2)]
    <3> DEFINE S == {k \in Nat : k \in 1 .. Len(s2) => f[k] \in Seq(X2)}
    <3>1. 0 \in S OBVIOUS
    <3>2. ASSUME NEW k \in Nat, k \in S PROVE k + 1 \in S
      <4>1. CASE k + 1 \in 1 .. Len(s2)
        <5>1. s2[k + 1] \in Seq(X2) BY <4>1
        <5>2. CASE k = 0 BY <2>5, <2>7, <5>1, <5>2 DEF Running
        <5>3. CASE k # 0
          <6>1. k \in 1 .. Len(s2) - 1 /\ k \in 1 .. Len(s2) BY <4>1, <5>3
          <6>2. f[k] \in Seq(X2) BY ZenonT(30), <3>2, <6>1
          <6>3. f[k + 1] = f[k] \o s2[k + 1] BY ZenonT(30), <2>7, <6>1 DEF Running
          <6>4. f[k] \o s2[k + 1] \in Seq(X2) BY <5>1, <6>2
          <6>5. f[k + 1] \in Seq(X2) BY ZenonT(30), <6>3, <6>4
          <6> QED BY <6>5
        <5> QED BY ZenonT(30), <5>2, <5>3
      <4> QED BY <4>1
    <3>3. Nat \subseteq S
      <4> HIDE DEF S
      <4> QED BY ZenonT(30), <3>1, <3>2, Counting
    <3>4. \A k \in 1 .. Len(s2) : f[k] \in Seq(X2) BY <3>3
    <3>5. f = [i \in 1 .. Len(s2) |-> f[i]] BY ZenonT(30), <2>4
    <3> QED BY ZenonT(30), <3>4, <3>5
  <2> QED BY ZenonT(30), <2>6, <2>7, <2>8
<1> DEFINE t == Append(s, x)
<1>0. PICK n \in Nat : n = Len(s) OBVIOUS
<1>1. /\ t = Append(s, x) /\ t \in Seq(Seq(X)) /\ n = Len(s) /\ Len(t) = n + 1
      /\ t[n + 1] = x /\ t # <<>> /\ \A i \in 1 .. n : t[i] = s[i]
  BY <1>0
<1> HIDE DEF t
<1>2. FlattenSeq(<<>>) = <<>> BY ZenonT(30) DEF FlattenSeq
<1>3. PICK h \in [1 .. n + 1 -> Seq(X)] : Running(t, n + 1, h) /\ FlattenSeq(t) = h[n + 1]
  <2>1. t \in Seq(Seq(X)) /\ t # <<>> /\ Len(t) = n + 1 BY ZenonT(30), <1>1
  <2> QED BY ZenonT(30), <2>1, <1>FlattenRuns
<1>4. CASE n = 0
  <2>1. s = <<>> BY <1>1, <1>4
  <2>2. h[1] = t[1] BY <1>3, <1>4 DEF Running
  <2>3. FlattenSeq(t) = x BY <1>1, <1>3, <1>4, <2>2
  <2>4. <<>> \o x = x /\ <<>> \in Seq(X) OBVIOUS
  <2> QED BY ZenonT(30), <1>1, <1>2, <2>1, <2>3, <2>4
<1>5. CASE n # 0
  <2>1. PICK g \in [1 .. n -> Seq(X)] : Running(s, n, g) /\ FlattenSeq(s) = g[n]
    <3>1. s # <<>> /\ n = Len(s) BY <1>1, <1>5
    <3> QED BY ZenonT(30), <3>1, <1>FlattenRuns
  <2>2. n \in 1 .. n /\ n \in 1 .. (n + 1) - 1 BY <1>5
  <2>3. Running(s, n, h)
    <3>1. n + 1 > 0 /\ 1 \in 1 .. n BY <1>5
    <3>2. h[1] = s[1] BY ZenonT(30), <1>1, <1>3, <3>1 DEF Running
    <3>3. ASSUME NEW i \in 1 .. n - 1 PROVE h[i + 1] = h[i] \o s[i + 1]
      <4>1. i \in 1 .. (n + 1) - 1 /\ i + 1 \in 1 .. n OBVIOUS
      <4>2. h[i + 1] = h[i] \o t[i + 1] BY ZenonT(30), <1>3, <4>1 DEF Running
      <4>3. t[i + 1] = s[i + 1] BY ZenonT(30), <1>1, <4>1
      <4> QED BY ZenonT(30), <4>2, <4>3
    <3> QED BY ZenonT(30), <3>2, <3>3 DEF Running
  <2>4. h[n] = g[n]
    <3>1. Running(s, n, g) BY ZenonT(30), <2>1
    <3>2. \A i \in 1 .. n : g[i] = h[i] BY SMTT(60), <2>3, <3>1, <1>RunningSame
    <3> QED BY ZenonT(30), <2>2, <3>2
  <2>5. h[n + 1] = h[n] \o x
    <3>1. h[n + 1] = h[n] \o t[n + 1] BY ZenonT(30), <1>3, <2>2 DEF Running
    <3> QED BY ZenonT(30), <1>1, <3>1
  <2>6. FlattenSeq(t) = FlattenSeq(s) \o x BY ZenonT(30), <1>3, <2>1, <2>4, <2>5
  <2>7. FlattenSeq(s) \in Seq(X) BY ZenonT(30), <2>1, <2>2
  <2> QED BY ZenonT(30), <1>1, <1>2, <2>6, <2>7
<1> QED BY ZenonT(30), <1>4, <1>5

-----------------------------------------------------------------------------
(* Lines, files and what is read back *)

\* Halves and lines.
LEMMA Halves ==
    ASSUME NEW Q, NEW r \in Q
    PROVE  /\ Head1(r) \in Frags(Q) /\ Head1(r).half = "head" /\ Head1(r).rec = r
           /\ Tail2(r) \in Frags(Q) /\ Tail2(r).half = "tail" /\ Tail2(r).rec = r
BY ZenonT(30) DEF Head1, Tail2, Frags

\* An even number of fragments is that many lines, and one more is no line.
LEMMA Evens ==
    ASSUME NEW n \in Nat
    PROVE  /\ (2 * n) \div 2 = n /\ (2 * n + 1) \div 2 = n
           /\ (2 * n) % 2 = 0 /\ (2 * n + 1) % 2 = 1
OBVIOUS

\* The bytes of a batch are its lines.
LEMMA Encoded ==
    ASSUME NEW Q, NEW s \in Seq(Q)
    PROVE  Encode(s) \in Seq(Frags(Q)) /\ Exact(Encode(s), s)
<1> DEFINE n == Len(s)
           e == Encode(s)
           At(i) == IF i % 2 = 1 THEN Head1(s[(i + 1) \div 2]) ELSE Tail2(s[(i + 1) \div 2])
<1>1. n \in Nat /\ 2 * n \in Nat OBVIOUS
<1>2. e = [i \in 1 .. 2 * n |-> At(i)] BY ZenonT(30) DEF Encode
<1>3. \A j \in 1 .. n : s[j] \in Q OBVIOUS
<1>4. ASSUME NEW i \in 1 .. 2 * n PROVE At(i) \in Frags(Q)
  <2>1. (i + 1) \div 2 \in 1 .. n BY <1>1
  <2>2. s[(i + 1) \div 2] \in Q BY ZenonT(30), <1>3, <2>1
  <2> QED BY ZenonT(30), <2>2, Halves
<1>5. ASSUME NEW j \in 1 .. n PROVE At(2 * j - 1) = Head1(s[j]) /\ At(2 * j) = Tail2(s[j])
  <2>1. (2 * j - 1) % 2 = 1 /\ ((2 * j - 1) + 1) \div 2 = j BY <1>1
  <2>2. (2 * j) % 2 = 0 /\ (2 * j + 1) \div 2 = j BY <1>1
  <2> QED BY <2>1, <2>2
<1> HIDE DEF e, At
<1>6. e \in Seq(Frags(Q)) /\ Len(e) = 2 * n
  <2>1. e \in [1 .. 2 * n -> Frags(Q)] BY ZenonT(30), <1>2, <1>4
  <2> QED BY <1>1, <2>1
<1>7. ASSUME NEW j \in 1 .. n PROVE e[2 * j - 1] = Head1(s[j]) /\ e[2 * j] = Tail2(s[j])
  <2>1. 2 * j - 1 \in 1 .. 2 * n /\ 2 * j \in 1 .. 2 * n BY <1>1
  <2> QED BY ZenonT(30), <1>2, <1>5, <2>1
<1>8. Exact(e, s) BY ZenonT(30), <1>6, <1>7 DEF Exact, Framed
<1> QED BY ZenonT(30), <1>6, <1>8 DEF e

\* What a reader makes of a framed file: its records, and, when a fragment
\* follows them, a torn tail or a line that does not parse.
LEMMA Committed ==
    ASSUME NEW Q, NEW file \in Seq(Frags(Q)), NEW s \in Seq(Q), Framed(file, s)
    PROVE  /\ Records(file) = s
           /\ CommittedLen(file) = IF Len(file) # 2 * Len(s) /\ file[Len(file)].half = "tail"
                                   THEN 2 * Len(s) + 1 ELSE 2 * Len(s)
           /\ WellFramed(file) <=> CommittedLen(file) = 2 * Len(s)
<1> DEFINE n == Len(s)
           m == Len(file)
           ends == {i \in 1 .. m : file[i].half = "tail"}
           stray == m # 2 * n /\ file[m].half = "tail"
           c == IF stray THEN 2 * n + 1 ELSE 2 * n
<1>1. n \in Nat /\ m \in Nat /\ m \in {2 * n, 2 * n + 1} BY DEF Framed
<1>2. \A j \in 1 .. n : s[j] \in Q OBVIOUS
<1>3. ASSUME NEW j \in 1 .. n
      PROVE  /\ file[2 * j - 1].half = "head" /\ file[2 * j - 1].rec = s[j]
             /\ file[2 * j].half = "tail" /\ file[2 * j].rec = s[j]
  BY <1>2, Halves DEF Framed
<1>4. c \in Nat /\ (c # 0 => c \in ends)
  <2>1. CASE stray BY <1>1, <2>1
  <2>2. CASE ~stray /\ n # 0
    <3>1. n \in 1 .. n /\ 2 * n \in 1 .. m BY <1>1, <2>2
    <3> QED BY <1>1, <1>3, <2>2, <3>1
  <2>3. CASE ~stray /\ n = 0 BY <2>3
  <2> QED BY ZenonT(30), <2>1, <2>2, <2>3
<1>5. \A i \in ends : i <= c BY <1>1
<1>6. CommittedLen(file) = c
  <2> HIDE DEF c
  <2>1. CASE c = 0
    <3>1. ends = {} BY <1>1, <1>5, <2>1
    <3> QED BY ZenonT(30), <2>1, <3>1 DEF CommittedLen
  <2>2. CASE c # 0
    <3>1. c \in ends /\ ends # {} BY ZenonT(30), <1>4, <2>2
    <3>2. \A i \in ends : (\A j \in ends : j <= i) => i = c BY <1>1, <1>4, <1>5, <3>1
    <3>3. (CHOOSE i \in ends : \A j \in ends : j <= i) = c
      <4> HIDE DEF ends
      <4> QED BY ZenonT(30), <1>5, <3>1, <3>2
    <3> QED BY ZenonT(30), <3>1, <3>3 DEF CommittedLen
  <2> QED BY ZenonT(30), <2>1, <2>2
<1>7. c \div 2 = n /\ (c = 2 * n => c % 2 = 0) /\ (c # 2 * n => c % 2 = 1)
  BY ZenonT(30), <1>1, Evens
<1>8. Records(file) = s
  <2>1. Records(file) = [j \in 1 .. n |-> file[2 * j].rec] BY ZenonT(30), <1>6, <1>7 DEF Records
  <2>2. Records(file) = [j \in 1 .. n |-> s[j]] BY ZenonT(30), <1>3, <2>1
  <2> QED BY <1>1, <2>2
<1>9. WellFramed(file) <=> c = 2 * n
  <2> HIDE DEF c
  <2>1. ASSUME c = 2 * n PROVE WellFramed(file)
    <3>1. c % 2 = 0 BY ZenonT(30), <1>7, <2>1
    <3>2. \A j \in 1 .. c \div 2 : /\ file[2 * j - 1].half = "head" /\ file[2 * j].half = "tail"
                                  /\ file[2 * j].rec = file[2 * j - 1].rec
      BY <1>3, <1>7
    <3> QED BY ZenonT(30), <1>6, <3>1, <3>2 DEF WellFramed
  <2>2. ASSUME c # 2 * n PROVE ~WellFramed(file)
    <3>1. c % 2 = 1 BY ZenonT(30), <1>7, <2>2
    <3> QED BY <1>6, <3>1 DEF WellFramed
  <2> QED BY ZenonT(30), <2>1, <2>2
<1> QED BY ZenonT(30), <1>6, <1>8, <1>9

\* A file is committed up to one of its ends, or not at all.
LEMMA CommittedBound ==
    ASSUME NEW Q, NEW file \in Seq(Frags(Q))
    PROVE  CommittedLen(file) \in 0 .. Len(file)
<1> DEFINE m == Len(file)
           ends == {i \in 1 .. m : file[i].half = "tail"}
<1>0. m \in Nat OBVIOUS
<1>1. CASE ends = {} BY <1>0, <1>1 DEF CommittedLen
<1>2. CASE ends # {}
  <2>1. CommittedLen(file) = CHOOSE i \in ends : \A j \in ends : j <= i
    BY ZenonT(30), <1>2 DEF CommittedLen
  <2>2. \E i \in ends : \A j \in ends : j <= i
    <3> DEFINE T == {m - i : i \in ends}
    <3>1. T \subseteq Nat /\ T # {} BY <1>0, <1>2
    <3> HIDE DEF T
    <3>2. PICK k \in T : \A l \in T : k <= l BY ZenonT(30), <3>1, Least
    <3>3. PICK i \in ends : k = m - i BY ZenonT(30), <3>2 DEF T
    <3>4. \A j \in ends : m - j \in T BY ZenonT(30) DEF T
    <3>5. \A j \in ends : j <= i BY <1>0, <3>2, <3>3, <3>4
    <3> QED BY ZenonT(30), <3>3, <3>5
  <2>3. CommittedLen(file) \in ends
    <3> HIDE DEF ends
    <3> QED BY ZenonT(30), <2>1, <2>2
  <2> QED BY <1>0, <2>3
<1> QED BY ZenonT(30), <1>1, <1>2

\* So its records are records.
LEMMA RecordsTyped ==
    ASSUME NEW Q, NEW file \in Seq(Frags(Q))
    PROVE  Records(file) \in Seq(Q)
<1> DEFINE n == CommittedLen(file) \div 2
<1>1. Len(file) \in Nat /\ CommittedLen(file) \in 0 .. Len(file) BY CommittedBound
<1>2. n \in Nat /\ \A j \in 1 .. n : 2 * j \in 1 .. Len(file) BY <1>1
<1> HIDE DEF n
<1>3. \A j \in 1 .. n : file[2 * j].rec \in Q
  <2>1. \A i \in 1 .. Len(file) : file[i] \in Frags(Q) OBVIOUS
  <2> QED BY ZenonT(30), <1>2, <2>1 DEF Frags
<1>4. [j \in 1 .. n |-> file[2 * j].rec] \in [1 .. n -> Q] BY ZenonT(30), <1>3
<1>5. Records(file) = [j \in 1 .. n |-> file[2 * j].rec] BY ZenonT(30) DEF Records, n
<1> QED BY <1>2, <1>4, <1>5

\* Where the elements of a concatenation come from.
LEMMA Joined ==
    ASSUME NEW X, NEW a \in Seq(X), NEW b \in Seq(X)
    PROVE  /\ a \o b \in Seq(X) /\ Len(a \o b) = Len(a) + Len(b)
           /\ \A i \in 1 .. Len(a) : (a \o b)[i] = a[i]
           /\ \A i \in 1 .. Len(b) : (a \o b)[Len(a) + i] = b[i]
OBVIOUS

\* Lines after lines.
LEMMA Glue ==
    ASSUME NEW Q, NEW a \in Seq(Frags(Q)), NEW s \in Seq(Q), Exact(a, s),
           NEW b \in Seq(Frags(Q)), NEW t \in Seq(Q), Framed(b, t)
    PROVE  /\ a \o b \in Seq(Frags(Q)) /\ s \o t \in Seq(Q) /\ Framed(a \o b, s \o t)
           /\ Exact(b, t) => Exact(a \o b, s \o t)
\* Fragments after an even number of them.
<1>Doubles. ASSUME NEW x \in Nat, NEW y \in Nat, NEW z \in {2 * y, 2 * y + 1}
    PROVE  /\ 2 * x + z \in {2 * (x + y), 2 * (x + y) + 1}
           /\ z = 2 * y => 2 * x + z = 2 * (x + y)
  BY <1>Doubles
<1> DEFINE f == a \o b
           u == s \o t
<1>1. /\ Len(s) \in Nat /\ Len(t) \in Nat /\ Len(a) = 2 * Len(s) /\ Len(b) \in {2 * Len(t), 2 * Len(t) + 1}
  BY DEF Exact, Framed
<1>2. /\ f \in Seq(Frags(Q)) /\ Len(f) = Len(a) + Len(b)
      /\ \A i \in 1 .. Len(a) : f[i] = a[i]
      /\ \A i \in 1 .. Len(b) : f[Len(a) + i] = b[i]
  BY Joined
<1>3. /\ u \in Seq(Q) /\ Len(u) = Len(s) + Len(t)
      /\ \A i \in 1 .. Len(s) : u[i] = s[i]
      /\ \A i \in 1 .. Len(t) : u[Len(s) + i] = t[i]
  BY Joined
<1> HIDE DEF f, u
<1>4. ASSUME NEW j \in 1 .. Len(u) PROVE f[2 * j - 1] = Head1(u[j]) /\ f[2 * j] = Tail2(u[j])
  <2>1. CASE j \in 1 .. Len(s)
    <3>1. 2 * j - 1 \in 1 .. Len(a) /\ 2 * j \in 1 .. Len(a) BY <1>1, <2>1
    <3>2. a[2 * j - 1] = Head1(s[j]) /\ a[2 * j] = Tail2(s[j]) BY ZenonT(30), <2>1 DEF Exact, Framed
    <3> QED BY ZenonT(30), <1>2, <1>3, <2>1, <3>1, <3>2
  <2>2. CASE j \notin 1 .. Len(s)
    <3>1. PICK k \in 1 .. Len(t) : j = Len(s) + k
      <4>1. j - Len(s) \in 1 .. Len(t) /\ j = Len(s) + (j - Len(s)) BY <1>1, <1>3, <2>2
      <4> QED BY ZenonT(30), <4>1
    <3>2. /\ 2 * k - 1 \in 1 .. Len(b) /\ 2 * k \in 1 .. Len(b)
          /\ 2 * j - 1 = Len(a) + (2 * k - 1) /\ 2 * j = Len(a) + 2 * k
      BY <1>1, <3>1
    <3>3. b[2 * k - 1] = Head1(t[k]) /\ b[2 * k] = Tail2(t[k]) BY ZenonT(30) DEF Framed
    <3>4. u[j] = t[k] BY ZenonT(30), <1>3, <3>1
    <3>5. f[2 * j - 1] = b[2 * k - 1] /\ f[2 * j] = b[2 * k] BY ZenonT(30), <1>2, <3>2
    <3> QED BY ZenonT(30), <3>3, <3>4, <3>5
  <2> QED BY ZenonT(30), <2>1, <2>2
<1>5. Len(f) \in {2 * Len(u), 2 * Len(u) + 1} /\ (Len(b) = 2 * Len(t) => Len(f) = 2 * Len(u))
  BY ZenonT(30), <1>1, <1>2, <1>3, <1>Doubles
<1>6. Framed(f, u) BY ZenonT(30), <1>4, <1>5 DEF Framed
<1>7. Exact(b, t) => Exact(f, u) BY ZenonT(30), <1>5, <1>6 DEF Exact
<1> QED BY ZenonT(30), <1>2, <1>3, <1>6, <1>7 DEF f, u

\* A sequence is its front and its last element.
LEMMA Fronts ==
    ASSUME NEW X, NEW s \in Seq(X), s # <<>>
    PROVE  /\ Len(s) - 1 \in Nat /\ Front(s) \in Seq(X) /\ Len(Front(s)) = Len(s) - 1
           /\ \A i \in 1 .. Len(s) - 1 : Front(s)[i] = s[i]
           /\ s[Len(s)] \in X /\ s = Append(Front(s), s[Len(s)])
<1> DEFINE n == Len(s) - 1
           f == Front(s)
<1>1. n \in Nat /\ n + 1 = Len(s) /\ s \in [1 .. n + 1 -> X] OBVIOUS
<1>2. f = SubSeq(s, 1, n) BY ZenonT(30) DEF Front
<1>3. f \in Seq(X) /\ Len(f) = n /\ \A i \in 1 .. n : f[i] = s[i]
  BY <1>1, <1>2
<1>4. s[n + 1] \in X BY <1>1
<1> HIDE DEF n, f
<1> DEFINE a == Append(f, s[n + 1])
<1>5. a \in [1 .. n + 1 -> X] /\ a[n + 1] = s[n + 1] /\ \A i \in 1 .. n : a[i] = f[i]
  <2>1. /\ a \in Seq(X) /\ Len(a) = n + 1 /\ a[n + 1] = s[n + 1]
        /\ \A i \in 1 .. n : a[i] = f[i]
    BY <1>3, <1>4
  <2> HIDE DEF a
  <2> QED BY <2>1
<1> HIDE DEF a
<1>6. ASSUME NEW i \in 1 .. n + 1 PROVE a[i] = s[i]
  <2>1. i \in 1 .. n \/ i = n + 1 BY <1>1
  <2> QED BY ZenonT(30), <1>3, <1>5, <2>1
<1>7. a = s BY <1>1, <1>5, <1>6
<1> QED BY ZenonT(30), <1>1, <1>3, <1>4, <1>7 DEF a, f, n

-----------------------------------------------------------------------------
(* Segments and the history *)

\* The records of each file, and of all of them.
SealedOf(segs) == [i \in DOMAIN segs |-> Records(segs[i])]

HistoryOf(segs, file) == FlattenSeq(SealedOf(Append(segs, file)))

\* Segments of whole lines.
Whole(segs) ==
    /\ \A i \in DOMAIN segs : Exact(segs[i], Records(segs[i]))
    /\ Exact(FlattenSeq(segs), FlattenSeq(SealedOf(segs)))

\* What read_audit_history returns is a function of the segments and the live file.
LEMMA HistoryIs == AuditHistory = HistoryOf(segments, live) /\ Sealed = SealedOf(segments)
BY ZenonT(30) DEF AuditHistory, AuditFiles, HistoryOf, SealedOf, Sealed

\* The history is the sealed records and then those of the live file.
LEMMA HistoryJoins ==
    ASSUME NEW Q, NEW segs \in Seq(Seq(Frags(Q))), NEW file \in Seq(Frags(Q))
    PROVE  /\ SealedOf(segs) \in Seq(Seq(Q)) /\ FlattenSeq(SealedOf(segs)) \in Seq(Q)
           /\ Records(file) \in Seq(Q)
           /\ SealedOf(Append(segs, file)) = Append(SealedOf(segs), Records(file))
           /\ HistoryOf(segs, file) = FlattenSeq(SealedOf(segs)) \o Records(file)
           /\ HistoryOf(segs, file) \in Seq(Q)
           /\ FlattenSeq(Append(segs, file)) = FlattenSeq(segs) \o file
           /\ FlattenSeq(segs) \in Seq(Frags(Q))
\* A function on the first n numbers is a sequence.
<1>Listing. ASSUME NEW X, NEW n \in Nat, NEW f \in [1 .. n -> X]
    PROVE  f \in Seq(X) /\ Len(f) = n
  BY <1>Listing
<1> DEFINE n == Len(segs)
           both == Append(segs, file)
<1>1. n \in Nat /\ DOMAIN segs = 1 .. n /\ \A i \in 1 .. n : segs[i] \in Seq(Frags(Q))
  OBVIOUS
<1>2. /\ both \in Seq(Seq(Frags(Q))) /\ Len(both) = n + 1 /\ DOMAIN both = 1 .. n + 1
      /\ both[n + 1] = file /\ \A i \in 1 .. n : both[i] = segs[i]
  OBVIOUS
<1>3. Records(file) \in Seq(Q) /\ \A i \in 1 .. n : Records(segs[i]) \in Seq(Q)
  BY ZenonT(30), <1>1, RecordsTyped
<1>4. SealedOf(segs) \in Seq(Seq(Q)) /\ Len(SealedOf(segs)) = n
  <2>1. SealedOf(segs) = [i \in 1 .. n |-> Records(segs[i])] BY ZenonT(30), <1>1 DEF SealedOf
  <2>2. SealedOf(segs) \in [1 .. n -> Seq(Q)] BY ZenonT(30), <1>3, <2>1
  <2> HIDE DEF n
  <2> QED BY ZenonT(30), <1>1, <2>2, <1>Listing
<1> HIDE DEF both
<1>5. SealedOf(both) = Append(SealedOf(segs), Records(file))
  <2> DEFINE a == SealedOf(both)
             b == Append(SealedOf(segs), Records(file))
  <2>1. a = [i \in 1 .. n + 1 |-> Records(both[i])] BY ZenonT(30), <1>2 DEF SealedOf
  <2>2. /\ b \in Seq(Seq(Q)) /\ Len(b) = n + 1 /\ b[n + 1] = Records(file)
        /\ \A i \in 1 .. n : b[i] = SealedOf(segs)[i]
    BY <1>3, <1>4
  <2>3. \A i \in 1 .. n : SealedOf(segs)[i] = Records(segs[i]) BY ZenonT(30), <1>1 DEF SealedOf
  <2>4. b = [i \in 1 .. n + 1 |-> b[i]] BY ZenonT(30), <2>2, Lengths
  <2> HIDE DEF a, b
  <2>5. ASSUME NEW i \in 1 .. n + 1 PROVE Records(both[i]) = b[i]
    <3>1. CASE i = n + 1 BY ZenonT(30), <1>2, <2>2, <3>1
    <3>2. CASE i # n + 1
      <4>1. i \in 1 .. n BY <1>1, <3>2
      <4> QED BY ZenonT(30), <1>2, <2>2, <2>3, <4>1
    <3> QED BY ZenonT(30), <3>1, <3>2
  <2>6. a = b BY ZenonT(30), <2>1, <2>4, <2>5
  <2> QED BY ZenonT(30), <2>6 DEF a, b
<1>6. /\ FlattenSeq(SealedOf(segs)) \in Seq(Q)
      /\ FlattenSeq(SealedOf(both)) = FlattenSeq(SealedOf(segs)) \o Records(file)
  BY ZenonT(30), <1>3, <1>4, <1>5, FlattenAppend
<1>7. FlattenSeq(both) = FlattenSeq(segs) \o file /\ FlattenSeq(segs) \in Seq(Frags(Q))
  BY ZenonT(30), FlattenAppend DEF both
<1>8. HistoryOf(segs, file) = FlattenSeq(SealedOf(segs)) \o Records(file)
  BY ZenonT(30), <1>6 DEF HistoryOf, both
<1>9. HistoryOf(segs, file) \in Seq(Q) BY <1>3, <1>6, <1>8
<1> QED BY ZenonT(30), <1>3, <1>4, <1>5, <1>6, <1>7, <1>8, <1>9 DEF both

\* An empty file, and no files.
LEMMA NoLines ==
    /\ Records(<<>>) = <<>> /\ Exact(<<>>, <<>>) /\ CommittedLen(<<>>) = 0
    /\ SealedOf(<<>>) = <<>> /\ FlattenSeq(<<>>) = <<>> /\ Whole(<<>>)
<1>1. CommittedLen(<<>>) = 0 BY DEF CommittedLen
<1>2. Records(<<>>) = <<>> BY <1>1 DEF Records
<1>3. Exact(<<>>, <<>>) BY DEF Exact, Framed
<1>4. SealedOf(<<>>) = <<>> BY DEF SealedOf
<1>5. FlattenSeq(<<>>) = <<>> BY ZenonT(30) DEF FlattenSeq
<1>6. Whole(<<>>) BY <1>3, <1>4, <1>5 DEF Whole
<1> QED BY ZenonT(30), <1>1, <1>2, <1>3, <1>4, <1>5, <1>6

-----------------------------------------------------------------------------
(* Costs *)

\* What one decision charges the tenant, and the running totals CostAt is
\* defined by.
Charge(R, P, t, i) == IF i \in P /\ R[i].tenant = t THEN R[i].cost ELSE 0
Totals(R, P, t, n, f) == f[0] = 0 /\ \A i \in 1 .. n : f[i] = f[i - 1] + Charge(R, P, t, i)

\* CostAt is the last of its running totals, which exist and are the only ones:
\* the recursive function inside it unfolds.
LEMMA CostTotals ==
    ASSUME NEW R \in Seq(Decision), NEW P, NEW t
    PROVE  /\ \E f \in [0 .. Len(R) -> Nat] :
                 Totals(R, P, t, Len(R), f) /\ CostAt(R, P, t) = f[Len(R)]
           /\ \A f : Totals(R, P, t, Len(R), f) => CostAt(R, P, t) = f[Len(R)]
<1> DEFINE n == Len(R)
           c(i) == Charge(R, P, t, i)
<1>1. n \in Nat /\ \A i \in 1 .. n : c(i) \in Nat
  <2>1. n \in Nat OBVIOUS
  <2>2. ASSUME NEW i \in 1 .. n PROVE c(i) \in Nat
    <3>1. R[i] \in Decision OBVIOUS
    <3>2. R[i].cost \in Nat BY <3>1 DEF Decision
    <3> QED BY ZenonT(30), <3>2 DEF Charge
  <2> QED BY ZenonT(30), <2>1, <2>2
<1> HIDE DEF n, c
<1>2. ASSUME NEW f, NEW g, Totals(R, P, t, n, f), Totals(R, P, t, n, g) PROVE f[n] = g[n]
  <2> DEFINE S == {k \in Nat : k <= n => f[k] = g[k]}
  <2>1. /\ f[0] = 0 /\ g[0] = 0
        /\ \A i \in 1 .. n : f[i] = f[i - 1] + c(i) /\ g[i] = g[i - 1] + c(i)
    BY ZenonT(30), <1>2 DEF Totals, c
  <2>2. 0 \in S BY ZenonT(30), <2>1
  <2>3. ASSUME NEW k \in Nat, k \in S PROVE k + 1 \in S
    <3>1. CASE k + 1 <= n
      <4>1. k + 1 \in 1 .. n /\ (k + 1) - 1 = k /\ f[k] = g[k] BY SMTT(30), <1>1, <2>3, <3>1
      <4>2. f[k + 1] = f[k] + c(k + 1) /\ g[k + 1] = g[k] + c(k + 1) BY ZenonT(30), <2>1, <4>1
      <4>3. f[k + 1] = g[k + 1] BY ZenonT(30), <4>1, <4>2
      <4> QED BY <4>3
    <3> QED BY <3>1
  <2>4. Nat \subseteq S
    <3> HIDE DEF S
    <3> QED BY ZenonT(30), <2>2, <2>3, Counting
  <2> QED BY <1>1, <2>4
<1>3. \E f \in [0 .. n -> Nat] : Totals(R, P, t, n, f)
  <2> DEFINE Q(k) == \E f \in [0 .. k -> Nat] : Totals(R, P, t, k, f)
             S == {k \in Nat : k <= n => Q(k)}
  <2>1. Q(0)
    <3>1. [i \in 0 .. 0 |-> 0] \in [0 .. 0 -> Nat] /\ [i \in 0 .. 0 |-> 0][0] = 0 OBVIOUS
    <3>2. 1 .. 0 = {} OBVIOUS
    <3> QED BY ZenonT(30), <3>1, <3>2 DEF Totals
  <2>2. ASSUME NEW k \in Nat, k + 1 <= n, Q(k) PROVE Q(k + 1)
    <3>1. PICK f \in [0 .. k -> Nat] : Totals(R, P, t, k, f) BY ZenonT(30), <2>2
    <3> DEFINE x == f[k] + c(k + 1)
               h == [i \in 0 .. k + 1 |-> IF i = k + 1 THEN x ELSE f[i]]
    <3>2. x \in Nat
      <4>1. k + 1 \in 1 .. n /\ f[k] \in Nat BY <1>1, <2>2, <3>1
      <4>2. c(k + 1) \in Nat BY ZenonT(30), <1>1, <4>1
      <4> QED BY <4>1, <4>2
    <3>3. h \in [0 .. k + 1 -> Nat]
      <4> HIDE DEF x
      <4> QED BY <3>1, <3>2
    <3>4. h[k + 1] = x /\ \A i \in 0 .. k : h[i] = f[i]
      <4> HIDE DEF x
      <4> QED OBVIOUS
    <3> HIDE DEF h
    <3>5. h[0] = 0 BY <3>1, <3>4 DEF Totals
    <3>6. ASSUME NEW i \in 1 .. k + 1 PROVE h[i] = h[i - 1] + c(i)
      <4>1. CASE i = k + 1
        <5>1. i - 1 \in 0 .. k /\ i - 1 = k BY <4>1
        <5> QED BY ZenonT(30), <3>4, <4>1, <5>1
      <4>2. CASE i # k + 1
        <5>1. i \in 1 .. k /\ i \in 0 .. k /\ i - 1 \in 0 .. k BY <4>2
        <5>2. f[i] = f[i - 1] + c(i) BY ZenonT(30), <3>1, <5>1 DEF Totals, c
        <5> QED BY ZenonT(30), <3>4, <5>1, <5>2
      <4> QED BY ZenonT(30), <4>1, <4>2
    <3>7. Totals(R, P, t, k + 1, h) BY ZenonT(30), <3>5, <3>6 DEF Totals, c
    <3> QED BY ZenonT(30), <3>3, <3>7
  <2> HIDE DEF Q
  <2>3. 0 \in S BY ZenonT(30), <2>1
  <2>4. ASSUME NEW k \in Nat, k \in S PROVE k + 1 \in S
    <3>1. CASE k + 1 <= n
      <4>1. k <= n BY <1>1, <3>1
      <4>2. Q(k + 1) BY ZenonT(30), <2>2, <2>4, <3>1, <4>1
      <4> QED BY <4>2
    <3> QED BY <3>1
  <2>5. Nat \subseteq S
    <3> HIDE DEF S
    <3> QED BY ZenonT(30), <2>3, <2>4, Counting
  <2>6. Q(n) BY <1>1, <2>5
  <2> QED BY ZenonT(30), <2>6 DEF Q
<1>4. PICK f \in [0 .. n -> Nat] : Totals(R, P, t, n, f) BY ZenonT(30), <1>3
<1> DEFINE Is(u) == u = [k \in 0 .. n |->
                            IF k = 0 THEN 0
                            ELSE u[k - 1] + (IF k \in P /\ R[k].tenant = t THEN R[k].cost ELSE 0)]
           u == CHOOSE u : Is(u)
<1>5. Is(f)
  <2>1. ASSUME NEW k \in 0 .. n PROVE f[k] = IF k = 0 THEN 0 ELSE f[k - 1] + c(k)
    <3>1. CASE k = 0 BY ZenonT(30), <1>4, <3>1 DEF Totals
    <3>2. CASE k # 0
      <4>1. k \in 1 .. n BY <1>1, <3>2
      <4> QED BY ZenonT(30), <1>4, <3>2, <4>1 DEF Totals, c
    <3> QED BY ZenonT(30), <3>1, <3>2
  <2> QED BY ZenonT(30), <1>4, <2>1 DEF c, Charge
<1>6. Is(u) BY ZenonT(30), <1>5
<1>7. CostAt(R, P, t) = u[n] BY ZenonT(30) DEF CostAt, n
<1> HIDE DEF u
<1>8. Totals(R, P, t, n, u)
  <2>1. \A k \in 0 .. n : u[k] = IF k = 0 THEN 0 ELSE u[k - 1] + c(k)
    BY ZenonT(30), <1>6 DEF c, Charge
  <2>2. 0 \in 0 .. n /\ \A k \in 1 .. n : k \in 0 .. n /\ k # 0 BY <1>1
  <2> QED BY ZenonT(30), <2>1, <2>2 DEF Totals, c
<1>9. \A g : Totals(R, P, t, n, g) => u[n] = g[n] BY ZenonT(30), <1>2, <1>8
<1> QED BY ZenonT(30), <1>4, <1>7, <1>9 DEF n

\* Costs are natural numbers, and those of apart places add up.
LEMMA CostSplits ==
    ASSUME NEW R \in Seq(Decision), NEW A, NEW B, NEW t, A \cap B = {}
    PROVE  /\ CostAt(R, A, t) \in Nat
           /\ CostAt(R, A \cup B, t) = CostAt(R, A, t) + CostAt(R, B, t)
<1> DEFINE n == Len(R)
<1>1. n \in Nat OBVIOUS
<1>2. PICK f \in [0 .. n -> Nat] : Totals(R, A, t, n, f) /\ CostAt(R, A, t) = f[n]
  BY ZenonT(30), CostTotals
<1>3. PICK g \in [0 .. n -> Nat] : Totals(R, B, t, n, g) /\ CostAt(R, B, t) = g[n]
  BY ZenonT(30), CostTotals
<1> DEFINE h == [i \in 0 .. n |-> f[i] + g[i]]
<1>4. ASSUME NEW i \in 1 .. n PROVE h[i] = h[i - 1] + Charge(R, A \cup B, t, i)
  <2>1. i \in 0 .. n /\ i - 1 \in 0 .. n BY <1>1
  <2>2. f[i] = f[i - 1] + Charge(R, A, t, i) /\ g[i] = g[i - 1] + Charge(R, B, t, i)
    BY ZenonT(30), <1>2, <1>3 DEF Totals
  <2>3. f[i - 1] \in Nat /\ g[i - 1] \in Nat /\ R[i].cost \in Nat
    <3>1. R[i] \in Decision OBVIOUS
    <3>2. R[i].cost \in Nat BY <3>1 DEF Decision
    <3> QED BY ZenonT(30), <1>2, <1>3, <2>1, <3>2
  <2>4. /\ Charge(R, A, t, i) \in Nat /\ Charge(R, B, t, i) \in Nat
        /\ Charge(R, A \cup B, t, i) = Charge(R, A, t, i) + Charge(R, B, t, i)
    BY <2>3 DEF Charge
  <2>5. h[i] = f[i] + g[i] /\ h[i - 1] = f[i - 1] + g[i - 1] BY ZenonT(30), <2>1
  <2> HIDE DEF h
  <2> QED BY <2>2, <2>3, <2>4, <2>5
<1>5. h[0] = 0
  <2>1. 0 \in 0 .. n /\ f[0] = 0 /\ g[0] = 0 BY <1>1, <1>2, <1>3 DEF Totals
  <2> QED BY <2>1
<1>6. h[n] = f[n] + g[n] /\ f[n] \in Nat BY <1>1, <1>2
<1> HIDE DEF h
<1>7. Totals(R, A \cup B, t, n, h) BY ZenonT(30), <1>4, <1>5 DEF Totals
<1>8. CostAt(R, A \cup B, t) = h[n] BY ZenonT(30), <1>7, CostTotals
<1> QED BY ZenonT(30), <1>2, <1>3, <1>6, <1>8

\* Places where the tenant is not charged cost it nothing.
LEMMA CostNone ==
    ASSUME NEW R \in Seq(Decision), NEW P, NEW t,
           \A i \in 1 .. Len(R) : i \in P /\ R[i].tenant = t => R[i].cost = 0
    PROVE  CostAt(R, P, t) = 0
<1> DEFINE n == Len(R)
           h == [i \in 0 .. n |-> 0]
<1>1. n \in Nat /\ h[0] = 0 /\ h[n] = 0 /\ \A i \in 1 .. n : h[i] = 0 /\ h[i - 1] = 0 OBVIOUS
<1>2. \A i \in 1 .. n : Charge(R, P, t, i) = 0 BY ZenonT(30) DEF Charge
<1> HIDE DEF h
<1>3. \A i \in 1 .. n : h[i] = h[i - 1] + Charge(R, P, t, i) BY <1>1, <1>2
<1>4. Totals(R, P, t, n, h) BY ZenonT(30), <1>1, <1>3 DEF Totals
<1> QED BY ZenonT(30), <1>1, <1>4, CostTotals

\* No decisions cost nothing.
LEMMA NoCost == \A P, t : CostAt(<<>>, P, t) = 0 /\ Cost(<<>>, t) = 0
<1>1. <<>> \in Seq(Decision) /\ 1 .. Len(<<>>) = {} OBVIOUS
<1>2. \A P, t : CostAt(<<>>, P, t) = 0 BY ZenonT(30), <1>1, CostNone
<1> QED BY ZenonT(30), <1>2 DEF Cost

\* One decision more.
LEMMA CostGrows ==
    ASSUME NEW R \in Seq(Decision), NEW r \in Decision, NEW t
    PROVE  /\ Cost(R, t) \in Nat /\ Cost(<<>>, t) = 0
           /\ Cost(Append(R, r), t) =
                 Cost(R, t) + (IF r.tenant = t /\ r.cost = 1 THEN 1 ELSE 0)
           /\ \A w \in 0 .. Len(R) : CostAt(Append(R, r), 1 .. w, t) = CostAt(R, 1 .. w, t)
<1> DEFINE a == Append(R, r)
           n == Len(R)
<1>1. n \in Nat /\ n + 1 \in Nat /\ DOMAIN R = 1 .. n OBVIOUS
<1>2. /\ a \in Seq(Decision) /\ Len(a) = n + 1 /\ DOMAIN a = 1 .. n + 1
      /\ a[n + 1] = r /\ \A i \in 1 .. n : a[i] = R[i]
  OBVIOUS
<1>4. Cost(<<>>, t) = 0 BY ZenonT(30), NoCost
<1> HIDE DEF a, n
<1>5. ASSUME NEW P, NEW Q, \A i \in 1 .. n : i \in P <=> i \in Q
      PROVE  /\ CostAt(R, Q, t) \in Nat
             /\ CostAt(a, P, t) = CostAt(R, Q, t) + Charge(a, P, t, n + 1)
  <2>1. PICK f \in [0 .. n -> Nat] : Totals(R, Q, t, n, f) /\ CostAt(R, Q, t) = f[n]
    BY ZenonT(30), CostTotals DEF n
  <2> DEFINE x == f[n] + Charge(a, P, t, n + 1)
             h == [i \in 0 .. n + 1 |-> IF i = n + 1 THEN x ELSE f[i]]
  <2>2. h[n + 1] = x /\ \A i \in 0 .. n : h[i] = f[i]
    <3> HIDE DEF x
    <3> QED BY <1>1
  <2> HIDE DEF h
  <2>3. ASSUME NEW i \in 1 .. n + 1 PROVE h[i] = h[i - 1] + Charge(a, P, t, i)
    <3>1. CASE i = n + 1
      <4>1. i - 1 = n /\ n \in 0 .. n BY <1>1, <3>1
      <4> QED BY ZenonT(30), <2>2, <3>1, <4>1
    <3>2. CASE i # n + 1
      <4>1. i \in 1 .. n /\ i \in 0 .. n /\ i - 1 \in 0 .. n BY <1>1, <3>2
      <4>2. f[i] = f[i - 1] + Charge(R, Q, t, i) BY ZenonT(30), <2>1, <4>1 DEF Totals
      <4>3. Charge(R, Q, t, i) = Charge(a, P, t, i) BY ZenonT(30), <1>2, <1>5, <4>1 DEF Charge
      <4> QED BY ZenonT(30), <2>2, <4>1, <4>2, <4>3
    <3> QED BY ZenonT(30), <3>1, <3>2
  <2>4. h[0] = 0
    <3>1. 0 \in 0 .. n /\ f[0] = 0 BY <1>1, <2>1 DEF Totals
    <3> QED BY ZenonT(30), <2>2, <3>1
  <2>5. Totals(a, P, t, n + 1, h) BY ZenonT(30), <2>3, <2>4 DEF Totals
  <2>6. CostAt(a, P, t) = x
    <3>1. Totals(a, P, t, Len(a), h) BY ZenonT(30), <1>2, <2>5
    <3>2. CostAt(a, P, t) = h[Len(a)] BY ZenonT(30), <1>2, <3>1, CostTotals
    <3> QED BY ZenonT(30), <1>2, <2>2, <3>2
  <2>7. f[n] \in Nat BY <1>1, <2>1
  <2> QED BY ZenonT(30), <2>1, <2>6, <2>7
<1>6. Cost(R, t) \in Nat /\ Cost(a, t) = Cost(R, t) + Charge(a, DOMAIN a, t, n + 1)
  <2>1. \A i \in 1 .. n : i \in DOMAIN a <=> i \in DOMAIN R BY <1>1, <1>2
  <2> QED BY ZenonT(30), <1>5, <2>1 DEF Cost
<1>7. Charge(a, DOMAIN a, t, n + 1) = IF r.tenant = t /\ r.cost = 1 THEN 1 ELSE 0
  BY <1>1, <1>2 DEF Charge, Decision
<1>8. ASSUME NEW w \in 0 .. n PROVE CostAt(a, 1 .. w, t) = CostAt(R, 1 .. w, t)
  <2>1. /\ CostAt(R, 1 .. w, t) \in Nat
        /\ CostAt(a, 1 .. w, t) = CostAt(R, 1 .. w, t) + Charge(a, 1 .. w, t, n + 1)
    BY ZenonT(30), <1>5
  <2>2. n + 1 \notin 1 .. w BY <1>1
  <2>3. Charge(a, 1 .. w, t, n + 1) = 0 BY ZenonT(30), <2>2 DEF Charge
  <2> QED BY <2>1, <2>3
<1> QED BY ZenonT(30), <1>4, <1>6, <1>7, <1>8 DEF a, n

\* What a checkpoint charged, and what the decisions at or past its watermark
\* charged, is what all of them did.
LEMMA RestoredCost ==
    ASSUME NEW R \in Seq(Decision), DenseFrom(R, 0), NEW s, NEW w \in 0 .. Len(R), s.watermark = w,
           NEW t
    PROVE  /\ PastWatermark(R, s) = w + 1 .. Len(R)
           /\ CostAt(R, 1 .. w, t) \in Nat /\ CostAt(R, PastWatermark(R, s), t) \in Nat
           /\ Cost(R, t) = CostAt(R, 1 .. w, t) + CostAt(R, PastWatermark(R, s), t)
           /\ CostAt(R, 1 .. Len(R), t) = Cost(R, t)
<1> DEFINE n == Len(R)
           P == PastWatermark(R, s)
<1>1. n \in Nat /\ DOMAIN R = 1 .. n /\ w \in Nat /\ w <= n OBVIOUS
<1> HIDE DEF n
<1>2. P = w + 1 .. n
  <2>1. P = {j \in 1 .. n : R[j].seq >= w} BY ZenonT(30), <1>1 DEF PastWatermark
  <2>2. \A j \in 1 .. n : R[j].seq = j - 1 BY <1>1 DEF DenseFrom
  <2> HIDE DEF P
  <2>3. \A j \in 1 .. n : R[j].seq >= w <=> j \in w + 1 .. n BY <1>1, <2>2
  <2>4. \A j \in w + 1 .. n : j \in 1 .. n BY <1>1
  <2> QED BY ZenonT(30), <2>1, <2>3, <2>4
<1> HIDE DEF P
<1>3. 1 .. w \cap P = {} /\ P \cap 1 .. w = {} /\ 1 .. w \cup P = 1 .. n BY <1>1, <1>2
<1>4. /\ CostAt(R, 1 .. w, t) \in Nat /\ CostAt(R, P, t) \in Nat
      /\ CostAt(R, 1 .. w \cup P, t) = CostAt(R, 1 .. w, t) + CostAt(R, P, t)
  <2> DEFINE A == 1 .. w
  <2>1. A \cap P = {} /\ P \cap A = {} BY ZenonT(30), <1>3
  <2> HIDE DEF A
  <2>2. CostAt(R, A, t) \in Nat /\ CostAt(R, A \cup P, t) = CostAt(R, A, t) + CostAt(R, P, t)
    BY ONLY R \in Seq(Decision), <2>1, CostSplits
  <2>3. CostAt(R, P, t) \in Nat BY ONLY ZenonT(30), R \in Seq(Decision), <2>1, CostSplits
  <2> QED BY ZenonT(30), <2>2, <2>3 DEF A
<1>5. Cost(R, t) = CostAt(R, 1 .. n, t) BY ZenonT(30), <1>1 DEF Cost
<1> QED BY ZenonT(30), <1>2, <1>3, <1>4, <1>5 DEF n, P

-----------------------------------------------------------------------------
(* Writing one line *)

\* A whole file with one fragment more holds the same records; a head is a torn
\* tail.
LEMMA AddFragment ==
    ASSUME NEW Q, NEW file \in Seq(Frags(Q)), NEW R \in Seq(Q), Exact(file, R), NEW x \in Frags(Q)
    PROVE  LET f == file \o <<x>>
           IN  /\ f \in Seq(Frags(Q)) /\ Framed(f, R) /\ Records(f) = R
               /\ Len(f) = 2 * Len(R) + 1 /\ f[Len(f)] = x
               /\ x.half = "head" => ~Stray(f)
<1> DEFINE f == file \o <<x>>
           n == Len(R)
<1>1. n \in Nat /\ Len(file) = 2 * n BY DEF Exact
<1>2. <<x>> \in Seq(Frags(Q)) /\ Len(<<x>>) = 1 /\ <<x>>[1] = x OBVIOUS
<1>3. <<>> \in Seq(Q) /\ Len(<<>>) = 0 OBVIOUS
<1>4. Framed(<<x>>, <<>>) BY <1>2, <1>3 DEF Framed
<1>5. f \in Seq(Frags(Q)) /\ Framed(f, R \o <<>>) BY ZenonT(30), <1>2, <1>3, <1>4, Glue
<1>6. R \o <<>> = R OBVIOUS
<1>7. Framed(f, R) BY ZenonT(30), <1>5, <1>6
<1>8. Len(f) = Len(file) + 1 /\ f[Len(file) + 1] = x
  <2>1. /\ Len(f) = Len(file) + Len(<<x>>)
        /\ \A i \in 1 .. Len(<<x>>) : f[Len(file) + i] = <<x>>[i]
    BY <1>2, Joined
  <2>2. 1 \in 1 .. Len(<<x>>) BY <1>2
  <2> QED BY ZenonT(30), <1>2, <2>1, <2>2
<1>9. Len(f) = 2 * n + 1 /\ f[Len(f)] = x BY ZenonT(30), <1>1, <1>8
<1> HIDE DEF f
<1>10. Records(f) = R BY ZenonT(30), <1>5, <1>7, Committed
<1>11. ASSUME x.half = "head" PROVE ~Stray(f)
  <2>1. f[Len(f)].half # "tail" BY ZenonT(30), <1>9, <1>11
  <2>2. CommittedLen(f) = 2 * Len(R) BY ZenonT(30), <1>5, <1>7, <2>1, Committed
  <2> QED BY <1>1, <1>9, <2>2 DEF Stray, TornTail
<1> QED BY ZenonT(30), <1>5, <1>7, <1>9, <1>10, <1>11 DEF f

\* A whole file is read as it was written, with no torn tail.
LEMMA WholeFile ==
    ASSUME NEW Q, NEW file \in Seq(Frags(Q)), NEW R \in Seq(Q), Exact(file, R)
    PROVE  Records(file) = R /\ ~Stray(file) /\ WellFramed(file) /\ TornTail(file) = 0
<1>1. Len(R) \in Nat /\ Framed(file, R) /\ Len(file) = 2 * Len(R) BY DEF Exact
<1>2. Records(file) = R /\ CommittedLen(file) = 2 * Len(R) /\ WellFramed(file)
  BY ZenonT(30), <1>1, Committed
<1>3. Len(file) % 2 = 0 BY ZenonT(30), <1>1, Evens
<1> QED BY <1>1, <1>2, <1>3 DEF Stray, TornTail

\* A file that is the lines of these records, and one that ends in half a line.
Line(r) == <<Head1(r), Tail2(r)>>

JournalOf(Q, file, R) == file \in Seq(Frags(Q)) /\ R \in Seq(Q) /\ Exact(file, R)

HalfLine(Q, file, R, r) ==
    /\ file \in Seq(Frags(Q)) /\ R \in Seq(Q) /\ Framed(file, R)
    /\ Len(file) = 2 * Len(R) + 1 /\ file[Len(file)] = Head1(r)

\* The history follows the records of the live file.
LEMMA HistoryFollows ==
    ASSUME NEW Q, NEW segs \in Seq(Seq(Frags(Q))), NEW file \in Seq(Frags(Q)), NEW f \in Seq(Frags(Q))
    PROVE  /\ Records(f) = Records(file) => HistoryOf(segs, f) = HistoryOf(segs, file)
           /\ \A r \in Q : Records(f) = Append(Records(file), r) =>
                 HistoryOf(segs, f) = Append(HistoryOf(segs, file), r)
<1> DEFINE a == FlattenSeq(SealedOf(segs))
           b == Records(file)
<1>1. a \in Seq(Q) /\ b \in Seq(Q) /\ HistoryOf(segs, f) = a \o Records(f) /\ HistoryOf(segs, file) = a \o b
  BY ZenonT(30), HistoryJoins
<1> HIDE DEF a, b
<1>2. ASSUME NEW r \in Q, Records(f) = Append(b, r)
      PROVE  HistoryOf(segs, f) = Append(HistoryOf(segs, file), r)
  <2>1. <<r>> \in Seq(Q) OBVIOUS
  <2>2. Append(b, r) = b \o <<r>> BY <1>1
  <2>3. a \o b \in Seq(Q) BY <1>1
  <2>4. Append(a \o b, r) = (a \o b) \o <<r>> BY <2>3
  <2>5. (a \o b) \o <<r>> = a \o (b \o <<r>>) BY SMTT(30), <1>1, <2>1
  <2> QED BY ZenonT(30), <1>1, <1>2, <2>2, <2>4, <2>5
<1>3. ASSUME Records(f) = b PROVE HistoryOf(segs, f) = HistoryOf(segs, file) BY ZenonT(30), <1>1, <1>3
<1> QED BY ZenonT(30), <1>2, <1>3 DEF b

-----------------------------------------------------------------------------
(* The invariant, and the decision in flight *)

\* What persist_deployment writes are fragments of lines.
LEMMA Batches ==
    ASSUME TypeOK
    PROVE  AuditBatch \in Seq(Frags(Decision)) /\ GovernanceBatch \in Seq(Frags(Change))
\* What a sequence has past a place holds what the sequence held.
<1>Rest. ASSUME NEW X, NEW s \in Seq(X), NEW n \in Nat
    PROVE  SubSeq(s, n + 1, Len(s)) \in Seq(X)
  <2> USE <1>Rest
  <2>1. Len(s) \in Nat /\ \A i \in 1 .. Len(s) : s[i] \in X OBVIOUS
  <2>2. \A i \in n + 1 .. Len(s) : s[i] \in X BY <2>1
  <2> QED BY <2>1, <2>2
<1>1. SubSeq(trail, nextSeq + 1, Len(trail)) \in Seq(Decision) BY ZenonT(30), <1>Rest DEF TypeOK
<1>2. SubSeq(changes, nextOrd + 1, Len(changes)) \in Seq(Change) BY ZenonT(30), <1>Rest DEF TypeOK
<1> QED BY ZenonT(30), <1>1, <1>2, Encoded DEF AuditBatch, GovernanceBatch

\* What read_audit_history and the governance journal give back are records.
LEMMA HistoryTyped ==
    ASSUME TypeOK
    PROVE  /\ AuditHistory \in Seq(Decision) /\ Records(governance) \in Seq(Change)
           /\ Records(live) \in Seq(Decision) /\ AuditHistory = HistoryOf(segments, live)
BY ZenonT(30), HistoryIs, HistoryJoins, RecordsTyped DEF TypeOK

\* One place of a sequence.
LEMMA Singles ==
    ASSUME NEW X, NEW s \in Seq(X), NEW i \in 1 .. Len(s)
    PROVE  SubSeq(s, i, i) = <<s[i]>>
<1> DEFINE p == SubSeq(s, i, i)
<1>1. Len(s) \in Nat /\ i \in Int /\ s[i] \in X OBVIOUS
<1>2. \A j \in i .. i : s[j] \in X BY <1>1
<1>3. p \in Seq(X) /\ Len(p) = 1 /\ p[1] = s[i]
  <2>1. /\ p \in Seq(X) /\ Len(p) = IF i <= i THEN i - i + 1 ELSE 0
        /\ \A j \in 1 .. i - i + 1 : p[j] = s[i + j - 1]
    BY <1>1, <1>2
  <2> HIDE DEF p
  <2>2. i <= i /\ i - i + 1 = 1 /\ 1 \in 1 .. i - i + 1 /\ i + 1 - 1 = i BY <1>1
  <2> QED BY ZenonT(30), <2>1, <2>2
<1> HIDE DEF p
<1>4. p = <<s[i]>>
  <2>1. p = [j \in 1 .. 1 |-> s[i]] BY <1>3
  <2>2. <<s[i]>> = [j \in 1 .. 1 |-> s[i]] OBVIOUS
  <2> QED BY ZenonT(30), <2>1, <2>2
<1> QED BY ZenonT(30), <1>4 DEF p

\* A line cut anywhere, and what is left of it.
LEMMA LineCut ==
    ASSUME NEW h, NEW t, NEW k \in 0 .. Len(<<h, t>>)
    PROVE  \/ k = 0 /\ Partial(<<h, t>>, k) = <<>> /\ Remainder(<<h, t>>, k) = <<h, t>>
           \/ k = 1 /\ Partial(<<h, t>>, k) = <<h>> /\ Remainder(<<h, t>>, k) = <<t>>
           \/ k = 2 /\ Partial(<<h, t>>, k) = <<h, t>> /\ Remainder(<<h, t>>, k) = <<>>
<1> DEFINE b == <<h, t>>
           X == {h, t}
<1>1. k \in {0, 1, 2} /\ Len(b) = 2 /\ b \in Seq(X) /\ b[1] = h /\ b[2] = t OBVIOUS
<1> HIDE DEF b
<1>2. SubSeq(b, 1, 0) = <<>> /\ SubSeq(b, 3, 2) = <<>> OBVIOUS
<1>3. SubSeq(b, 1, 2) = b BY <1>1
<1>4. SubSeq(b, 1, 1) = <<h>> /\ SubSeq(b, 2, 2) = <<t>>
  <2>1. 1 \in 1 .. Len(b) /\ 2 \in 1 .. Len(b) BY <1>1
  <2> QED BY ZenonT(30), <1>1, <2>1, Singles
<1>5. 0 + 1 = 1 /\ 1 + 1 = 2 /\ 2 + 1 = 3 OBVIOUS
<1>6. Partial(b, k) = SubSeq(b, 1, k) /\ Remainder(b, k) = SubSeq(b, k + 1, 2)
  BY ZenonT(30), <1>1 DEF Partial, Remainder
<1>7. \/ k = 0 /\ Partial(b, k) = <<>> /\ Remainder(b, k) = b
      \/ k = 1 /\ Partial(b, k) = <<h>> /\ Remainder(b, k) = <<t>>
      \/ k = 2 /\ Partial(b, k) = b /\ Remainder(b, k) = <<>>
  BY ZenonT(30), <1>1, <1>2, <1>3, <1>4, <1>5, <1>6
<1> QED BY ZenonT(30), <1>7 DEF b

\* The rest of a line, or nothing, cut anywhere.
LEMMA RestCut ==
    ASSUME NEW t, NEW b \in {<<>>, <<t>>}, NEW k \in 0 .. Len(b)
    PROVE  Partial(b, k) = <<>> \/ (b # <<>> /\ Partial(b, k) = <<t>>)
\* All of a sequence.
<1>SubSeqAll. ASSUME NEW X, NEW s \in Seq(X) PROVE SubSeq(s, 1, Len(s)) = s
  BY <1>SubSeqAll
<1>1. CASE b = <<>> BY <1>1 DEF Partial
<1>2. CASE b = <<t>>
  <2>1. k \in {0, 1} /\ Len(b) = 1 /\ b \in Seq({t}) /\ b # <<>> BY <1>2
  <2>2. CASE k = 0 BY <2>2 DEF Partial
  <2>3. CASE k = 1 BY ZenonT(30), <1>2, <2>1, <2>3, <1>SubSeqAll DEF Partial
  <2> QED BY ZenonT(30), <2>1, <2>2, <2>3
<1> QED BY ZenonT(30), <1>1, <1>2

\* The file a write of these bytes leaves when it stops after k of them.
Writes(file, bytes, k, f) == k \in 0 .. Len(bytes) /\ f = file \o Partial(bytes, k)

\* What a whole file becomes when a line is written to it and the write stops.
LEMMA LineWritten ==
    ASSUME NEW Q, NEW file, JournalOf(Q, file, Records(file)),
           NEW r \in Q, NEW k, NEW f, Writes(file, Line(r), k, f)
    PROVE  \/ k = 0 /\ f = file
           \/ /\ k = 1 /\ HalfLine(Q, f, Records(f), r) /\ ~Stray(f)
              /\ Records(f) = Records(file)
           \/ /\ k = 2 /\ JournalOf(Q, f, Records(f))
              /\ Records(f) = Append(Records(file), r)
\* A line more.
<1>AddLine. ASSUME NEW Q1, NEW file1, NEW R, JournalOf(Q1, file1, R), NEW r1 \in Q1
    PROVE  JournalOf(Q1, file1 \o Line(r1), Append(R, r1))
  <2> USE <1>AddLine
  <2> DEFINE b == Line(r1)
             f1 == file1 \o b
  <2>0. file1 \in Seq(Frags(Q1)) /\ R \in Seq(Q1) /\ Exact(file1, R) /\ b = <<Head1(r1), Tail2(r1)>>
    BY ZenonT(30) DEF JournalOf, Line
  <2> HIDE DEF b
  <2>1. <<r1>> \in Seq(Q1) /\ Len(<<r1>>) = 1 /\ <<r1>>[1] = r1 OBVIOUS
  <2>2. b \in Seq(Frags(Q1)) /\ Len(b) = 2 /\ b[1] = Head1(r1) /\ b[2] = Tail2(r1) BY <2>0, Halves
  <2>3. Exact(b, <<r1>>) /\ Framed(b, <<r1>>) BY <2>1, <2>2 DEF Exact, Framed
  <2>4. f1 \in Seq(Frags(Q1)) /\ Exact(f1, R \o <<r1>>) BY ZenonT(30), <2>0, <2>1, <2>2, <2>3, Glue
  <2>5. Append(R, r1) = R \o <<r1>> /\ Append(R, r1) \in Seq(Q1) BY <2>0
  <2>6. Exact(f1, Append(R, r1)) BY ZenonT(30), <2>4, <2>5
  <2> QED BY ZenonT(30), <2>4, <2>5, <2>6 DEF JournalOf, f1, b
<1> DEFINE b == Line(r)
           R == Records(file)
<1>0. k \in 0 .. Len(b) /\ f = file \o Partial(b, k) BY ZenonT(30) DEF Writes
<1>1. file \in Seq(Frags(Q)) /\ R \in Seq(Q) /\ Exact(file, R) BY ZenonT(30) DEF JournalOf
<1>2. \/ k = 0 /\ Partial(b, k) = <<>>
      \/ k = 1 /\ Partial(b, k) = <<Head1(r)>>
      \/ k = 2 /\ Partial(b, k) = b
  BY ZenonT(30), <1>0, LineCut DEF Line
<1> HIDE DEF R
<1>3. CASE k = 0 /\ Partial(b, k) = <<>>
  <2>1. f = file BY <1>0, <1>1, <1>3
  <2> QED BY ZenonT(30), <1>3, <2>1
<1>4. CASE k = 1 /\ Partial(b, k) = <<Head1(r)>>
  <2>1. f = file \o <<Head1(r)>> BY ZenonT(30), <1>0, <1>4
  <2>2. Head1(r) \in Frags(Q) /\ Head1(r).half = "head" BY ZenonT(30), Halves
  <2>3. /\ f \in Seq(Frags(Q)) /\ Framed(f, R) /\ Records(f) = R
        /\ Len(f) = 2 * Len(R) + 1 /\ f[Len(f)] = Head1(r) /\ ~Stray(f)
    BY <1>1, <2>1, <2>2, AddFragment
  <2>4. HalfLine(Q, f, Records(f), r) BY ZenonT(30), <1>1, <2>3 DEF HalfLine
  <2> QED BY ZenonT(30), <1>4, <2>3, <2>4 DEF R
<1>5. CASE k = 2 /\ Partial(b, k) = b
  <2>1. f = file \o Line(r) BY ZenonT(30), <1>0, <1>5
  <2>2. JournalOf(Q, f, Append(R, r)) BY ZenonT(30), <2>1, <1>AddLine DEF R
  <2>3. f \in Seq(Frags(Q)) /\ Append(R, r) \in Seq(Q) /\ Exact(f, Append(R, r))
    BY ZenonT(30), <2>2 DEF JournalOf
  <2>4. Records(f) = Append(R, r) BY ZenonT(30), <2>3, WholeFile
  <2>5. JournalOf(Q, f, Records(f)) BY ZenonT(30), <2>2, <2>4
  <2> QED BY ZenonT(30), <1>5, <2>4, <2>5 DEF R
<1> QED BY ZenonT(30), <1>2, <1>3, <1>4, <1>5

\* What a writer can still hold of a line whose head it wrote.
RestOf(r) == {<<>>, <<Tail2(r)>>}

\* A file of lines, with at most one fragment more.
LinesOf(Q, file) == file \in Seq(Frags(Q)) /\ Framed(file, Records(file))

\* A file that has none or half of the line of r.
Before(Q, file, r) == JournalOf(Q, file, Records(file)) \/ HalfLine(Q, file, Records(file), r)

\* The same two facts of the next state.
LEMMA HistoryNext == AuditHistory' = HistoryOf(segments', live') /\ Sealed' = SealedOf(segments')
BY ZenonT(30) DEF AuditHistory, AuditFiles, HistoryOf, SealedOf, Sealed

\* FilesInv says that the sealed segments are whole, now and after a step.
LEMMA FilesWhole ==
    /\ FilesInv => Whole(segments)
    /\ FilesInv' <=> /\ Whole(segments') /\ Framed(live', Records(live')) /\ (Stray(live') => faults' > 0)
                     /\ snapshot' = NoSnapshot =>
                           segments' = <<>> /\ live' = <<>> /\ governance' = <<>> /\ ~Up'
BY ZenonT(30) DEF FilesInv, Whole, Sealed, SealedOf

\* The decision in flight, before its write.
LEMMA FlightAppend ==
    ASSUME TypeOK, MemoryInv, pc = "append"
    PROVE  LET r == trail[Len(trail)]
           IN  /\ r \in Decision /\ trail = Append(AuditHistory, r) /\ trail # <<>>
               /\ AuditHistory = Front(trail) /\ AuditBatch = Line(r)
               /\ JournalOf(Decision, live, Records(live)) /\ unflushed = <<>>
<1> DEFINE n == Len(trail)
           r == trail[n]
<1>1. trail \in Seq(Decision) /\ live \in Seq(Frags(Decision)) BY ZenonT(30) DEF TypeOK
<1>2. /\ trail # <<>> /\ AuditHistory = Front(trail) /\ Exact(live, Records(live))
      /\ unflushed = <<>> /\ nextSeq = Len(AuditHistory)
  BY ZenonT(30) DEF MemoryInv, Up
<1>3. /\ n - 1 \in Nat /\ Len(AuditHistory) = n - 1 /\ r \in Decision
      /\ trail = Append(AuditHistory, r)
  BY ZenonT(30), <1>1, <1>2, Fronts
<1>4. AuditBatch = Line(r)
  <2>1. nextSeq + 1 = n /\ n \in 1 .. Len(trail) BY <1>2, <1>3
  <2>2. SubSeq(trail, n, n) = <<r>> BY ZenonT(30), <1>1, <2>1, Singles
  <2>3. AuditBatch = Encode(<<r>>) BY ZenonT(30), <2>1, <2>2 DEF AuditBatch
  <2> HIDE DEF n, r
  <2>4. Encode(<<r>>) = [i \in 1 .. 2 |-> IF i % 2 = 1 THEN Head1(r) ELSE Tail2(r)]
    <3>1. Len(<<r>>) = 1 /\ <<r>>[1] = r OBVIOUS
    <3>2. \A i \in 1 .. 2 : (i + 1) \div 2 = 1 OBVIOUS
    <3> QED BY <3>1, <3>2 DEF Encode
  <2>5. 1 % 2 = 1 /\ 2 % 2 = 0 OBVIOUS
  <2>6. [i \in 1 .. 2 |-> IF i % 2 = 1 THEN Head1(r) ELSE Tail2(r)] = <<Head1(r), Tail2(r)>>
    BY <2>5
  <2> QED BY ZenonT(30), <2>3, <2>4, <2>6 DEF Line
<1>5. JournalOf(Decision, live, Records(live)) BY ZenonT(30), <1>1, <1>2, RecordsTyped DEF JournalOf
<1> QED BY ZenonT(30), <1>2, <1>3, <1>4, <1>5

\* What one step does to the decision journal: its segments stay whole, the live
\* file stays framed, and the trail on file is kept or takes the decision in
\* flight.
JournalGood ==
    /\ live' \in Seq(Frags(Decision)) /\ segments' \in Seq(Seq(Frags(Decision)))
    /\ Whole(segments') /\ Framed(live', Records(live')) /\ (Stray(live') => faults' > 0)

TrailKept == AuditHistory' = AuditHistory

TrailGrows ==
    /\ trail # <<>> /\ AuditHistory = Front(trail) /\ AuditHistory' = trail
    /\ UNCHANGED acked

\* A step that leaves the audit files alone keeps them in order.
LEMMA JournalUntouched ==
    ASSUME TypeOK, FilesInv, UNCHANGED <<live, segments>>, faults' \in {faults, faults + 1}
    PROVE  JournalGood /\ TrailKept
<1>1. faults \in Nat /\ live \in Seq(Frags(Decision)) /\ segments \in Seq(Seq(Frags(Decision)))
  BY ZenonT(30) DEF TypeOK
<1>2. Whole(segments) /\ Framed(live, Records(live)) BY ZenonT(30), FilesWhole DEF FilesInv
<1>3. AuditHistory' = AuditHistory BY ZenonT(30), HistoryNext, HistoryIs
<1>4. Stray(live) => faults > 0 BY ZenonT(30) DEF FilesInv
<1>5. faults > 0 => faults' > 0 BY <1>1
<1> QED BY ZenonT(30), <1>1, <1>2, <1>3, <1>4, <1>5 DEF JournalGood, TrailKept

\* Store::append, stopped after any number of fragments: none of the line is on
\* file, half of it, or all of it.
LEMMA JournalAppended ==
    ASSUME DeploymentInv, pc = "append", UNCHANGED <<segments, acked>>, faults' \in {faults, faults + 1},
           NEW k \in 0 .. Len(AuditBatch), live' = live \o Partial(AuditBatch, k)
    PROVE  LET r == trail[Len(trail)]
           IN  /\ JournalGood /\ (TrailKept \/ TrailGrows)
               /\ \/ k = 0 /\ live' = live /\ TrailKept
                  \/ /\ k = 1 /\ TrailKept
                     /\ Len(live') = 2 * Len(Records(live')) + 1 /\ live'[Len(live')] = Head1(r)
                  \/ k = 2 /\ TrailGrows /\ Exact(live', Records(live'))
<1> DEFINE r == trail[Len(trail)]
<1>1. TypeOK /\ FilesInv /\ MemoryInv BY ZenonT(30) DEF DeploymentInv
<1>2. /\ r \in Decision /\ trail = Append(AuditHistory, r) /\ trail # <<>>
      /\ AuditHistory = Front(trail) /\ AuditBatch = Line(r)
      /\ JournalOf(Decision, live, Records(live))
  BY ZenonT(30), <1>1, FlightAppend
<1> HIDE DEF r
<1>3. segments \in Seq(Seq(Frags(Decision))) /\ segments' = segments BY ZenonT(30), <1>1 DEF TypeOK
<1>4. /\ AuditHistory = HistoryOf(segments, live) /\ AuditHistory' = HistoryOf(segments, live')
      /\ Whole(segments') /\ Framed(live, Records(live))
  BY ZenonT(30), <1>1, <1>3, HistoryNext, HistoryIs, FilesWhole DEF FilesInv
<1>5. \/ k = 0 /\ live' = live
      \/ /\ k = 1 /\ HalfLine(Decision, live', Records(live'), r) /\ ~Stray(live')
         /\ Records(live') = Records(live)
      \/ /\ k = 2 /\ JournalOf(Decision, live', Records(live'))
         /\ Records(live') = Append(Records(live), r)
  <2>1. Writes(live, Line(r), k, live') BY ZenonT(30), <1>2 DEF Writes
  <2>2. /\ JournalOf(Decision, live, Records(live)) /\ r \in Decision BY ZenonT(30), <1>2
  <2> DEFINE f == live'
             D == Decision
  <2>3. JournalOf(D, live, Records(live)) /\ r \in D /\ Writes(live, Line(r), k, f)
    BY ZenonT(30), <2>1, <2>2
  <2> HIDE DEF f, D
  <2>4. \/ k = 0 /\ f = live
        \/ /\ k = 1 /\ HalfLine(D, f, Records(f), r) /\ ~Stray(f)
           /\ Records(f) = Records(live)
        \/ /\ k = 2 /\ JournalOf(D, f, Records(f))
           /\ Records(f) = Append(Records(live), r)
    BY ONLY <2>3, LineWritten
  <2> QED BY ZenonT(30), <2>4 DEF f, D
<1>6. CASE k = 0 /\ live' = live
  <2>1. JournalGood /\ TrailKept BY ZenonT(30), <1>1, <1>3, <1>6, JournalUntouched
  <2> QED BY ZenonT(30), <1>6, <2>1
<1>7. CASE /\ k = 1 /\ HalfLine(Decision, live', Records(live'), r) /\ ~Stray(live')
           /\ Records(live') = Records(live)
  <2>0. live' \in Seq(Frags(Decision)) /\ live \in Seq(Frags(Decision))
    BY ZenonT(30), <1>1, <1>7 DEF HalfLine, TypeOK
  <2>1. TrailKept BY ZenonT(30), <1>3, <1>4, <1>7, <2>0, HistoryFollows DEF TrailKept
  <2>2. JournalGood BY ZenonT(30), <1>3, <1>4, <1>7 DEF JournalGood, HalfLine
  <2> QED BY ZenonT(30), <1>7, <2>1, <2>2 DEF HalfLine, r
<1>8. CASE /\ k = 2 /\ JournalOf(Decision, live', Records(live'))
           /\ Records(live') = Append(Records(live), r)
  <2>0. live' \in Seq(Frags(Decision)) /\ live \in Seq(Frags(Decision))
    BY ZenonT(30), <1>1, <1>8 DEF JournalOf, TypeOK
  <2>1. AuditHistory' = trail BY ZenonT(30), <1>2, <1>3, <1>4, <1>8, <2>0, HistoryFollows
  <2>2. live' \in Seq(Frags(Decision)) /\ Records(live') \in Seq(Decision) /\ Exact(live',
  Records(live'))
    BY ZenonT(30), <1>8 DEF JournalOf
  <2>3. ~Stray(live') BY ZenonT(30), <2>2, WholeFile
  <2>4. JournalGood BY ZenonT(30), <1>3, <1>4, <2>2, <2>3 DEF JournalGood, Exact
  <2> QED BY ZenonT(30), <1>2, <1>8, <2>1, <2>2, <2>4 DEF TrailGrows
<1> QED BY ZenonT(30), <1>5, <1>6, <1>7, <1>8 DEF r

-----------------------------------------------------------------------------
(* Every step keeps the journal in order *)

\* Dropping the store writes out what a failed append left in its buffer.
LEMMA JournalClosed ==
    ASSUME DeploymentInv, pc \in {"idle", "poisoned"}, UNCHANGED <<segments, acked, faults>>,
           NEW k \in 0 .. Len(unflushed), live' = live \o Partial(unflushed, k)
    PROVE  JournalGood /\ (TrailKept \/ TrailGrows)
\* The same decision after a failed write.
<1>FlightFailed. ASSUME TypeOK, FilesInv, InFlight
    PROVE  LET r == trail[Len(trail)]
           IN  /\ r \in Decision /\ trail = Append(AuditHistory, r) /\ trail # <<>>
               /\ AuditHistory = Front(trail)
               /\ \/ JournalOf(Decision, live, Records(live)) /\ unflushed = Line(r)
                  \/ Before(Decision, live, r) /\ unflushed \in RestOf(r)
  <2> USE <1>FlightFailed
  <2> DEFINE n == Len(trail)
             r == trail[n]
  <2>1. trail \in Seq(Decision) /\ live \in Seq(Frags(Decision)) BY ZenonT(30) DEF TypeOK
  <2>2. trail # <<>> /\ AuditHistory = Front(trail) BY ZenonT(30) DEF InFlight
  <2>3. r \in Decision /\ trail = Append(AuditHistory, r) BY ZenonT(30), <2>1, <2>2, Fronts
  <2>4. Records(live) \in Seq(Decision) /\ Framed(live, Records(live))
    BY ZenonT(30), <2>1, RecordsTyped DEF FilesInv
  <2>5. CASE /\ Exact(live, Records(live))
             /\ unflushed \in {<<>>, <<Tail2(r)>>, <<Head1(r), Tail2(r)>>}
    <3>1. JournalOf(Decision, live, Records(live)) BY ZenonT(30), <2>1, <2>4, <2>5 DEF JournalOf
    <3> QED BY ZenonT(30), <2>2, <2>3, <2>5, <3>1 DEF Line, RestOf, Before
  <2>6. CASE /\ Len(live) = 2 * Len(Records(live)) + 1 /\ live[Len(live)] = Head1(r)
             /\ unflushed \in {<<>>, <<Tail2(r)>>}
    <3>1. HalfLine(Decision, live, Records(live), r) BY ZenonT(30), <2>1, <2>4, <2>6 DEF HalfLine
    <3> QED BY ZenonT(30), <2>2, <2>3, <2>6, <3>1 DEF RestOf, Before
  <2> QED BY ZenonT(30), <2>5, <2>6 DEF InFlight
\* What the rest of a line makes of a file that has none or half of it.
<1>RestWritten. ASSUME NEW Q, NEW file, NEW r \in Q,
           Before(Q, file, r), NEW b \in RestOf(r), NEW k1, NEW f, Writes(file, b, k1, f)
    PROVE  \/ f = file
           \/ /\ LinesOf(Q, f)
              /\ Records(f) = Records(file) \/ Records(f) = Append(Records(file), r)
  <2> USE <1>RestWritten
  \* The rest of a line whose head is there.
  <2>EndLine. ASSUME NEW Q1, NEW file1, NEW R, NEW r1 \in Q1, HalfLine(Q1, file1, R, r1)
      PROVE  JournalOf(Q1, file1 \o <<Tail2(r1)>>, Append(R, r1))
    <3> USE <2>EndLine
    <3>0. /\ file1 \in Seq(Frags(Q1)) /\ R \in Seq(Q1) /\ Framed(file1, R)
          /\ Len(file1) = 2 * Len(R) + 1 /\ file1[Len(file1)] = Head1(r1)
      BY ZenonT(30) DEF HalfLine
    <3> DEFINE b1 == <<Tail2(r1)>>
               f1 == file1 \o b1
               a == Append(R, r1)
               n == Len(R)
    <3>1. n \in Nat BY <3>0
    <3>2. b1 \in Seq(Frags(Q1)) /\ Len(b1) = 1 /\ b1[1] = Tail2(r1) BY Halves
    <3>3. a \in Seq(Q1) /\ Len(a) = n + 1 /\ a[n + 1] = r1 /\ \A i \in 1 .. n : a[i] = R[i]
      BY <3>0
    <3> DEFINE X == Frags(Q1)
    <3> HIDE DEF a, b1, X
    <3>4. /\ f1 \in Seq(Frags(Q1)) /\ Len(f1) = Len(file1) + Len(b1)
          /\ \A i \in 1 .. Len(file1) : f1[i] = file1[i]
          /\ \A i \in 1 .. Len(b1) : f1[Len(file1) + i] = b1[i]
      <4>1. file1 \in Seq(X) /\ b1 \in Seq(X) BY ZenonT(30), <3>0, <3>2 DEF X
      <4>2. /\ file1 \o b1 \in Seq(X) /\ Len(file1 \o b1) = Len(file1) + Len(b1)
            /\ \A i \in 1 .. Len(file1) : (file1 \o b1)[i] = file1[i]
            /\ \A i \in 1 .. Len(b1) : (file1 \o b1)[Len(file1) + i] = b1[i]
        BY ONLY SMTT(30), <4>1, Joined
      <4> QED BY ZenonT(30), <4>2 DEF X
    <3> HIDE DEF f1, n
    <3>5. Len(f1) = 2 * (n + 1) BY SMTT(30), <3>0, <3>1, <3>2, <3>4 DEF n
    <3>6. f1[2 * n + 1] = Head1(r1) /\ f1[2 * n + 2] = Tail2(r1)
      <4>1. Len(file1) = 2 * n + 1 /\ 2 * n + 1 \in 1 .. 2 * n + 1 /\ 1 \in 1 .. Len(b1)
        BY <3>0, <3>1, <3>2 DEF n
      <4>2. f1[2 * n + 1] = file1[2 * n + 1] BY ZenonT(30), <3>4, <4>1
      <4>3. f1[2 * n + 1 + 1] = b1[1] BY ZenonT(30), <3>4, <4>1
      <4>4. 2 * n + 1 + 1 = 2 * n + 2 BY <3>1
      <4> QED BY ZenonT(30), <3>0, <3>2, <4>1, <4>2, <4>3, <4>4
    <3>7. ASSUME NEW j \in 1 .. n + 1
          PROVE  f1[2 * j - 1] = Head1(a[j]) /\ f1[2 * j] = Tail2(a[j])
      <4>1. CASE j = n + 1
        <5>1. 2 * j - 1 = 2 * n + 1 /\ 2 * j = 2 * n + 2 BY <3>1, <4>1
        <5> QED BY ZenonT(30), <3>3, <3>6, <4>1, <5>1
      <4>2. CASE j # n + 1
        <5>1. j \in 1 .. n /\ 2 * j - 1 \in 1 .. 2 * n + 1 /\ 2 * j \in 1 .. 2 * n + 1 BY <3>1, <4>2
        <5>2. file1[2 * j - 1] = Head1(R[j]) /\ file1[2 * j] = Tail2(R[j])
          BY ZenonT(30), <3>0, <5>1 DEF Framed, n
        <5>3. Len(file1) = 2 * n + 1 BY ZenonT(30), <3>0 DEF n
        <5>4. f1[2 * j - 1] = file1[2 * j - 1] /\ f1[2 * j] = file1[2 * j]
          BY ZenonT(30), <3>4, <5>1, <5>3
        <5> QED BY ZenonT(30), <3>3, <5>1, <5>2, <5>4
      <4> QED BY ZenonT(30), <4>1, <4>2
    <3>8. Exact(f1, a) BY ZenonT(30), <3>3, <3>5, <3>7 DEF Exact, Framed
    <3> QED BY ZenonT(30), <3>3, <3>4, <3>8 DEF JournalOf, f1, a, b1
  <2> DEFINE R == Records(file)
  <2>0. k1 \in 0 .. Len(b) /\ f = file \o Partial(b, k1) BY ZenonT(30) DEF Writes
  <2>1. file \in Seq(Frags(Q)) /\ R \in Seq(Q) BY ZenonT(30) DEF Before, JournalOf, HalfLine
  <2>2. Partial(b, k1) = <<>> \/ (b # <<>> /\ Partial(b, k1) = <<Tail2(r)>>)
    BY ZenonT(30), <2>0, RestCut DEF RestOf
  <2> HIDE DEF R
  <2>3. CASE Partial(b, k1) = <<>> BY <2>0, <2>1, <2>3
  <2>4. CASE b # <<>> /\ Partial(b, k1) = <<Tail2(r)>>
    <3>1. f = file \o <<Tail2(r)>> BY ZenonT(30), <2>0, <2>4
    <3>2. f \in Seq(Frags(Q)) /\ Framed(f, Records(f)) /\ (Records(f) = R \/ Records(f) = Append(R, r))
      <4>1. CASE JournalOf(Q, file, R)
        <5>1. Tail2(r) \in Frags(Q) BY ZenonT(30), Halves
        <5>2. Exact(file, R) BY ZenonT(30), <4>1 DEF JournalOf
        <5>3. f \in Seq(Frags(Q)) /\ Framed(f, R) /\ Records(f) = R
          BY SMTT(30), <2>1, <3>1, <5>1, <5>2, AddFragment
        <5> QED BY ZenonT(30), <5>3
      <4>2. CASE HalfLine(Q, file, R, r)
        <5>1. JournalOf(Q, f, Append(R, r)) BY ZenonT(30), <3>1, <4>2, <2>EndLine
        <5>2. f \in Seq(Frags(Q)) /\ Append(R, r) \in Seq(Q) /\ Exact(f, Append(R, r))
          BY ZenonT(30), <5>1 DEF JournalOf
        <5>3. Records(f) = Append(R, r) BY ZenonT(30), <5>2, WholeFile
        <5> QED BY ZenonT(30), <5>2, <5>3 DEF Exact
      <4> QED BY ZenonT(30), <4>1, <4>2 DEF R, Before
    <3> QED BY ZenonT(30), <2>4, <3>2 DEF R, LinesOf
  <2> QED BY ZenonT(30), <2>2, <2>3, <2>4
<1> DEFINE r == trail[Len(trail)]
           f == live'
           D == Decision
<1>1. TypeOK /\ FilesInv /\ MemoryInv BY ZenonT(30) DEF DeploymentInv
<1>2. live \in Seq(Frags(Decision)) BY ZenonT(30), <1>1 DEF TypeOK
<1>3. CASE unflushed = <<>>
  <2>1. Partial(unflushed, k) = <<>>
    <3>1. unflushed \in {<<>>, <<0>>} BY ZenonT(30), <1>3
    <3> QED BY ZenonT(30), <1>3, <3>1, RestCut
  <2>2. live' = live BY <1>2, <2>1
  <2> QED BY ZenonT(30), <1>1, <2>2, JournalUntouched
<1>4. CASE unflushed # <<>>
  <2>1. InFlight /\ faults > 0 BY ZenonT(30), <1>1, <1>4 DEF MemoryInv, Up
  <2>2. /\ r \in D /\ trail = Append(AuditHistory, r) /\ trail # <<>>
        /\ AuditHistory = Front(trail)
        /\ \/ JournalOf(D, live, Records(live)) /\ unflushed = Line(r)
           \/ Before(D, live, r) /\ unflushed \in RestOf(r)
    BY ZenonT(30), <1>1, <2>1, <1>FlightFailed
  <2>3. Writes(live, unflushed, k, f) BY ZenonT(30) DEF Writes
  <2>4. Framed(live, Records(live)) BY ZenonT(30), <1>1 DEF FilesInv
  <2>5. live \in Seq(Frags(D)) BY ZenonT(30), <1>2
  <2> HIDE DEF r, f, D
  <2>6. \/ f = live
        \/ /\ f \in Seq(Frags(D)) /\ Framed(f, Records(f))
           /\ Records(f) = Records(live) \/ Records(f) = Append(Records(live), r)
    <3>1. CASE JournalOf(D, live, Records(live)) /\ unflushed = Line(r)
      <4>1. Writes(live, Line(r), k, f) BY ZenonT(30), <2>3, <3>1
      <4>2. \/ k = 0 /\ f = live
            \/ /\ k = 1 /\ HalfLine(D, f, Records(f), r) /\ ~Stray(f)
               /\ Records(f) = Records(live)
            \/ /\ k = 2 /\ JournalOf(D, f, Records(f))
               /\ Records(f) = Append(Records(live), r)
        BY ONLY <2>2, <3>1, <4>1, LineWritten
      <4> QED BY ZenonT(30), <4>2 DEF HalfLine, JournalOf, Exact
    <3>2. CASE Before(D, live, r) /\ unflushed \in RestOf(r)
      <4>1. r \in D BY ZenonT(30), <2>2
      <4>2. f = live \/ (/\ LinesOf(D, f)
                         /\ (Records(f) = Records(live) \/ Records(f) = Append(Records(live), r)))
        BY ONLY <2>3, <3>2, <4>1, <1>RestWritten
      <4> QED BY ZenonT(30), <4>2 DEF LinesOf
    <3> QED BY ZenonT(30), <2>2, <3>1, <3>2
  <2>7. f \in Seq(Frags(D)) /\ Framed(f, Records(f)) BY ZenonT(30), <2>4, <2>5, <2>6
  <2>8. segments \in Seq(Seq(Frags(D))) /\ Whole(segments) /\ segments' = segments
    BY ZenonT(30), <1>1, FilesWhole DEF TypeOK, D
  <2>9. JournalGood BY ZenonT(30), <2>1, <2>7, <2>8 DEF JournalGood, f, D
  <2>10. AuditHistory = HistoryOf(segments, live) /\ AuditHistory' = HistoryOf(segments, f)
    BY ZenonT(30), <2>8, HistoryNext, HistoryIs DEF f
  <2>11. CASE f = live \/ Records(f) = Records(live)
    <3>1. HistoryOf(segments, f) = HistoryOf(segments, live)
      BY ZenonT(30), <2>5, <2>7, <2>8, <2>11, HistoryFollows
    <3> QED BY ZenonT(30), <2>9, <2>10, <3>1 DEF TrailKept
  <2>12. CASE Records(f) = Append(Records(live), r)
    <3>1. HistoryOf(segments, f) = Append(HistoryOf(segments, live), r)
      BY ZenonT(30), <2>2, <2>5, <2>7, <2>8, <2>12, HistoryFollows
    <3>2. TrailGrows BY ZenonT(30), <2>2, <2>10, <3>1 DEF TrailGrows
    <3> QED BY ZenonT(30), <2>9, <3>2
  <2> QED BY ZenonT(30), <2>6, <2>11, <2>12
<1> QED BY ZenonT(30), <1>3, <1>4

\* A rotation.
LEMMA JournalSealed ==
    ASSUME DeploymentInv, SealSegment
    PROVE  JournalGood /\ TrailKept /\ live' = <<>> /\ segments' # <<>>
\* Sealing a whole live file moves it and loses nothing.
<1>SealWhole. ASSUME NEW Q, NEW segs \in Seq(Seq(Frags(Q))), NEW file \in Seq(Frags(Q)), Whole(segs),
           Exact(file, Records(file))
    PROVE  /\ Whole(Append(segs, file))
           /\ HistoryOf(Append(segs, file), <<>>) = HistoryOf(segs, file)
  <2> USE <1>SealWhole
  \* One sequence after another.
  <2>Concats. ASSUME NEW X, NEW s \in Seq(X), NEW t \in Seq(X)
      PROVE  /\ s \o t \in Seq(X) /\ Len(s \o t) = Len(s) + Len(t)
             /\ \A i \in 1 .. Len(s) + Len(t) :
                   (s \o t)[i] = IF i <= Len(s) THEN s[i] ELSE t[i - Len(s)]
    BY <2>Concats
  <2> DEFINE n == Len(segs)
             both == Append(segs, file)
  <2>1. /\ both \in Seq(Seq(Frags(Q))) /\ Len(both) = n + 1 /\ DOMAIN both = 1 .. n + 1 /\ n \in Nat
        /\ both[n + 1] = file /\ (\A i \in 1 .. n : both[i] = segs[i]) /\ DOMAIN segs = 1 .. n
    OBVIOUS
  <2>2. /\ FlattenSeq(SealedOf(segs)) \in Seq(Q) /\ Records(file) \in Seq(Q)
        /\ FlattenSeq(SealedOf(both)) = FlattenSeq(SealedOf(segs)) \o Records(file)
        /\ FlattenSeq(both) = FlattenSeq(segs) \o file /\ FlattenSeq(segs) \in Seq(Frags(Q))
    BY ZenonT(30), HistoryJoins DEF HistoryOf
  <2>3. Exact(FlattenSeq(segs), FlattenSeq(SealedOf(segs))) BY ZenonT(30) DEF Whole
  <2>4. Exact(FlattenSeq(both), FlattenSeq(SealedOf(both)))
    <3>1. Framed(file, Records(file)) BY ZenonT(30) DEF Exact
    <3>2. Exact(FlattenSeq(segs) \o file, FlattenSeq(SealedOf(segs)) \o Records(file))
      BY ZenonT(30), <2>2, <2>3, <3>1, Glue
    <3> QED BY ZenonT(30), <2>2, <3>2
  <2> HIDE DEF both
  <2>5. \A i \in DOMAIN both : Exact(both[i], Records(both[i]))
    <3>1. \A i \in 1 .. n : Exact(segs[i], Records(segs[i])) BY ZenonT(30), <2>1 DEF Whole
    <3>2. ASSUME NEW i \in 1 .. n + 1 PROVE Exact(both[i], Records(both[i]))
      <4>1. i \in 1 .. n \/ i = n + 1 BY <2>1
      <4> QED BY ZenonT(30), <2>1, <3>1, <4>1
    <3> QED BY ZenonT(30), <2>1, <3>2
  <2>6. HistoryOf(both, <<>>) = FlattenSeq(SealedOf(both))
    <3>1. <<>> \in Seq(Frags(Q)) OBVIOUS
    <3>2. HistoryOf(both, <<>>) = FlattenSeq(SealedOf(both)) \o Records(<<>>)
      BY ZenonT(30), <2>1, <3>1, HistoryJoins
    <3>3. FlattenSeq(SealedOf(both)) \in Seq(Q) BY ZenonT(30), <2>2, <2>Concats
    <3> QED BY <3>2, <3>3, NoLines
  <2> QED BY ZenonT(30), <2>4, <2>5, <2>6 DEF Whole, HistoryOf, both
<1> DEFINE D == Decision
<1>1. TypeOK /\ FilesInv /\ MemoryInv BY ZenonT(30) DEF DeploymentInv
<1>2. pc = "rotate" /\ segments' = Append(segments, live) /\ live' = <<>> BY ZenonT(30) DEF SealSegment
<1>3. segments \in Seq(Seq(Frags(D))) /\ live \in Seq(Frags(D)) BY ZenonT(30), <1>1 DEF TypeOK
<1>4. Whole(segments) /\ Exact(live, Records(live))
  BY ZenonT(30), <1>1, <1>2, FilesWhole DEF MemoryInv, Up
<1> HIDE DEF D
<1>5. /\ Whole(Append(segments, live))
      /\ HistoryOf(Append(segments, live), <<>>) = HistoryOf(segments, live)
  BY ZenonT(30), <1>3, <1>4, <1>SealWhole
<1>6. TrailKept BY ZenonT(30), <1>2, <1>5, HistoryNext, HistoryIs DEF TrailKept
<1>7. segments' \in Seq(Seq(Frags(D))) /\ segments' # <<>> BY SMTT(30), <1>2, <1>3
<1>8. Framed(<<>>, Records(<<>>)) /\ ~Stray(<<>>)
  <2>1. Exact(<<>>, Records(<<>>)) /\ <<>> \in Seq(Frags(D)) /\ Records(<<>>) \in Seq(D)
    BY ZenonT(30), NoLines, Empties
  <2> QED BY ZenonT(30), <2>1, WholeFile DEF Exact
<1>9. JournalGood BY <1>2, <1>5, <1>7, <1>8 DEF JournalGood, D
<1> QED BY ZenonT(30), <1>2, <1>6, <1>7, <1>9

\* A rotation whose rename did not survive a crash.
LEMMA JournalUnsealed ==
    ASSUME DeploymentInv, pc = "fresh", live' = segments[Len(segments)], segments' = Front(segments),
           faults' = faults
    PROVE  JournalGood /\ TrailKept
\* Taking the newest segment for the live file again loses nothing either.
<1>UnsealWhole. ASSUME NEW Q, NEW segs \in Seq(Seq(Frags(Q))), segs # <<>>, Whole(segs)
    PROVE  LET front == Front(segs)
               file == segs[Len(segs)]
           IN  /\ front \in Seq(Seq(Frags(Q))) /\ file \in Seq(Frags(Q)) /\ segs = Append(front, file)
               /\ Whole(front) /\ Exact(file, Records(file))
               /\ HistoryOf(front, file) = HistoryOf(segs, <<>>)
  <2> USE <1>UnsealWhole
  <2> DEFINE front == Front(segs)
             file == segs[Len(segs)]
             n == Len(segs) - 1
  <2>1. n \in Nat /\ n + 1 = Len(segs) /\ DOMAIN segs = 1 .. n + 1
    OBVIOUS
  <2>2. front \in Seq(Seq(Frags(Q))) /\ file \in Seq(Frags(Q)) /\ segs = Append(front, file)
    BY ZenonT(30), <2>1, Fronts
  <2>3. Len(front) = n /\ DOMAIN front = 1 .. n /\ \A i \in 1 .. n : front[i] = segs[i]
    BY ZenonT(30), <2>1, <2>2, Fronts, Lengths
  <2> HIDE DEF front, file
  <2>4. Exact(file, Records(file)) BY <2>1 DEF Whole, file
  <2>5. \A i \in DOMAIN front : Exact(front[i], Records(front[i]))
    <3>1. \A i \in 1 .. n : i \in DOMAIN segs BY <2>1
    <3>2. \A i \in 1 .. n : Exact(segs[i], Records(segs[i])) BY ZenonT(30), <3>1 DEF Whole
    <3> QED BY ZenonT(30), <2>3, <3>2
  <2> DEFINE f == FlattenSeq(front)
             r == FlattenSeq(SealedOf(front))
             s == Records(file)
  <2>6. /\ r \in Seq(Q) /\ s \in Seq(Q) /\ f \in Seq(Frags(Q))
        /\ HistoryOf(front, file) = r \o s /\ FlattenSeq(SealedOf(segs)) = r \o s
        /\ FlattenSeq(segs) = f \o file
    <3>1. FlattenSeq(SealedOf(segs)) = HistoryOf(front, file) BY ZenonT(30), <2>2 DEF HistoryOf
    <3> QED BY ZenonT(30), <2>2, <3>1, HistoryJoins
  <2> HIDE DEF f, r, s
  <2>7. Exact(f, r)
    <3>1. Exact(f \o file, r \o s) BY ZenonT(30), <2>6 DEF Whole
    <3>2. Len(file) = 2 * Len(s) BY ZenonT(30), <2>4 DEF Exact, s
    <3>3. Len(f \o file) = 2 * Len(r \o s) BY ZenonT(30), <3>1 DEF Exact
    <3>4. Len(f \o file) = Len(f) + Len(file) /\ \A i \in 1 .. Len(f) : (f \o file)[i] = f[i]
      BY SMTT(30), <2>2, <2>6, Joined
    <3>5. Len(r \o s) = Len(r) + Len(s) /\ \A i \in 1 .. Len(r) : (r \o s)[i] = r[i]
      BY <2>6, Joined
    <3>6. Len(f) \in Nat /\ Len(r) \in Nat /\ Len(s) \in Nat BY <2>6
    <3>7. Len(f) = 2 * Len(r) BY <3>2, <3>3, <3>4, <3>5, <3>6
    <3>8. ASSUME NEW j \in 1 .. Len(r)
          PROVE  f[2 * j - 1] = Head1(r[j]) /\ f[2 * j] = Tail2(r[j])
      <4>1. j \in 1 .. Len(r \o s) BY <3>5, <3>6
      <4>2. (f \o file)[2 * j - 1] = Head1((r \o s)[j]) /\ (f \o file)[2 * j] = Tail2((r \o s)[j])
        BY ZenonT(30), <3>1, <4>1 DEF Exact, Framed
      <4>3. 2 * j - 1 \in 1 .. Len(f) /\ 2 * j \in 1 .. Len(f) BY <3>6, <3>7
      <4> QED BY ZenonT(30), <3>4, <3>5, <4>2, <4>3
    <3> QED BY ZenonT(30), <3>7, <3>8 DEF Exact, Framed
  <2>8. Whole(front) BY ZenonT(30), <2>5, <2>7 DEF Whole, f, r
  <2>9. HistoryOf(segs, <<>>) = FlattenSeq(SealedOf(segs)) \o <<>>
    <3>1. <<>> \in Seq(Frags(Q)) OBVIOUS
    <3>2. HistoryOf(segs, <<>>) = FlattenSeq(SealedOf(segs)) \o Records(<<>>)
      BY ZenonT(30), <3>1, HistoryJoins
    <3> QED BY ZenonT(30), <3>2, NoLines
  <2>10. r \o s \in Seq(Q) BY <2>6
  <2>11. HistoryOf(segs, <<>>) = HistoryOf(front, file) BY <2>6, <2>9, <2>10
  <2> QED BY ZenonT(30), <2>2, <2>4, <2>8, <2>11 DEF front, file
<1> DEFINE D == Decision
<1>1. TypeOK /\ FilesInv /\ MemoryInv BY ZenonT(30) DEF DeploymentInv
<1>2. segments # <<>> /\ live = <<>> BY ZenonT(30), <1>1 DEF MemoryInv, Up
<1>3. segments \in Seq(Seq(Frags(D))) /\ Whole(segments) BY ZenonT(30), <1>1, FilesWhole DEF TypeOK
<1> HIDE DEF D
<1>4. /\ segments' \in Seq(Seq(Frags(D))) /\ live' \in Seq(Frags(D)) /\ Whole(segments')
      /\ Exact(live', Records(live')) /\ HistoryOf(segments', live') = HistoryOf(segments, <<>>)
  BY ZenonT(30), <1>2, <1>3, <1>UnsealWhole
<1>5. TrailKept BY ZenonT(30), <1>2, <1>4, HistoryNext, HistoryIs DEF TrailKept
<1>6. Records(live') \in Seq(D) BY ZenonT(30), <1>4, RecordsTyped
<1>7. ~Stray(live') BY ZenonT(30), <1>4, <1>6, WholeFile
<1>8. JournalGood BY ZenonT(30), <1>4, <1>7 DEF JournalGood, Exact, D
<1> QED BY ZenonT(30), <1>5, <1>8

\* Every step keeps the journal in order.
LEMMA JournalStep ==
    ASSUME DeploymentInv, Next
    PROVE  JournalGood /\ (TrailKept \/ TrailGrows) /\ faults' \in {faults, faults + 1}
<1> DEFINE goal == JournalGood /\ (TrailKept \/ TrailGrows) /\ faults' \in {faults, faults + 1}
<1>1. TypeOK /\ FilesInv /\ MemoryInv BY ZenonT(30) DEF DeploymentInv
<1>2. ASSUME UNCHANGED <<live, segments>>, faults' \in {faults, faults + 1} PROVE goal
  BY ZenonT(30), <1>1, <1>2, JournalUntouched
<1>3. CASE Start BY ZenonT(30), <1>2, <1>3 DEF Start
<1>4. CASE StartRefused BY ZenonT(30), <1>2, <1>4 DEF StartRefused, files
<1>5. ASSUME NEW t \in Tenants, Decide(t) \/ AddTenant(t) PROVE goal
  BY ZenonT(30), <1>2, <1>5 DEF Decide, AddTenant, files, history
<1>6. CASE PersistRules BY ZenonT(30), <1>2, <1>6 DEF PersistRules, files, history
<1>7. CASE Persist
  <2>1. CASE AppendAudit
    <3> DEFINE k == Len(AuditBatch)
    <3>1. pc = "append" /\ live' = live \o AuditBatch /\ UNCHANGED <<segments, acked, faults>>
      BY ZenonT(30), <2>1 DEF AppendAudit, history
    <3>2. k \in 0 .. Len(AuditBatch) /\ Partial(AuditBatch, k) = AuditBatch
      <4>1. AuditBatch \in Seq(Frags(Decision)) BY ZenonT(30), <1>1, Batches
      <4>2. Len(AuditBatch) \in Nat BY <4>1
      <4> QED BY <4>1, <4>2 DEF Partial
    <3> HIDE DEF k
    <3>3. JournalGood /\ (TrailKept \/ TrailGrows)
      <4>1. live' = live \o Partial(AuditBatch, k) BY ZenonT(30), <3>1, <3>2
      <4> QED BY ZenonT(30), <3>1, <3>2, <4>1, JournalAppended
    <3> QED BY ZenonT(30), <3>1, <3>3
  <2>2. CASE AppendGovernance BY ZenonT(30), <1>2, <2>2 DEF AppendGovernance, history
  <2>3. CASE SaveSnapshot BY ZenonT(30), <1>2, <2>3 DEF SaveSnapshot
  <2>4. CASE SealSegment
    <3>1. JournalGood /\ TrailKept BY ZenonT(30), <2>4, JournalSealed
    <3> QED BY ZenonT(30), <2>4, <3>1 DEF SealSegment, history
  <2>5. CASE OpenFresh BY ZenonT(30), <1>2, <2>5 DEF OpenFresh, files
  <2>6. CASE SealRefused BY ZenonT(30), <1>2, <2>6 DEF SealRefused, files
  <2> QED BY ZenonT(30), <1>7, <2>1, <2>2, <2>3, <2>4, <2>5, <2>6 DEF Persist
<1>8. CASE Fault
  <2>1. CASE AppendAuditFails
    <3>1. /\ pc = "append" /\ UNCHANGED <<segments, acked>> /\ faults' = faults + 1
      BY ZenonT(30), <2>1 DEF AppendAuditFails
    <3>2. PICK k \in 0 .. Len(AuditBatch), rolledBack \in BOOLEAN :
             live' = IF rolledBack THEN live ELSE live \o Partial(AuditBatch, k)
      BY ZenonT(30), <2>1 DEF AppendAuditFails, FailedWrite
    <3>3. CASE rolledBack BY ZenonT(30), <1>2, <3>1, <3>2, <3>3
    <3>4. CASE ~rolledBack
      <4>1. live' = live \o Partial(AuditBatch, k) BY ZenonT(30), <3>2, <3>4
      <4>2. JournalGood /\ (TrailKept \/ TrailGrows) BY ZenonT(30), <3>1, <4>1, JournalAppended
      <4> QED BY ZenonT(30), <3>1, <4>2
    <3> QED BY ZenonT(30), <3>3, <3>4
  <2>2. CASE AppendGovernanceFails BY ZenonT(30), <1>2, <2>2 DEF AppendGovernanceFails
  <2>3. CASE SaveSnapshotFails BY ZenonT(30), <1>2, <2>3 DEF SaveSnapshotFails
  <2>4. CASE OpenFreshFails BY ZenonT(30), <1>2, <2>4 DEF OpenFreshFails, files
  <2> QED BY ZenonT(30), <1>8, <2>1, <2>2, <2>3, <2>4 DEF Fault
<1>9. CASE Close
  <2>1. pc \in {"idle", "poisoned"} /\ UNCHANGED <<segments, acked, faults>>
    BY ZenonT(30), <1>9 DEF Close
  <2>2. PICK k \in 0 .. Len(unflushed) : live' = live \o Partial(unflushed, k)
    BY ZenonT(30), <1>9 DEF Close
  <2>3. JournalGood /\ (TrailKept \/ TrailGrows) BY ZenonT(30), <2>1, <2>2, JournalClosed
  <2> QED BY ZenonT(30), <2>1, <2>3
<1>10. CASE Crash
  <2>1. UNCHANGED <<acked, faults>> BY ZenonT(30), <1>10 DEF Crash
  <2>2. CASE pc = "append"
    <3>1. PICK k \in 0 .. Len(AuditBatch) : live' = live \o Partial(AuditBatch, k)
      BY ZenonT(30), <1>10, <2>2 DEF Crash
    <3>2. segments' = segments BY ZenonT(30), <1>10, <2>2 DEF Crash
    <3>3. JournalGood /\ (TrailKept \/ TrailGrows) BY ZenonT(30), <2>1, <2>2, <3>1, <3>2, JournalAppended
    <3> QED BY ZenonT(30), <2>1, <3>3
  <2>3. CASE pc = "fresh"
    <3>1. CASE live' = live
      <4>1. segments' = segments BY ZenonT(30), <1>10, <3>1 DEF Crash
      <4> QED BY ZenonT(30), <1>2, <2>1, <3>1, <4>1
    <3>2. CASE live' # live
      <4>1. live' = segments[Len(segments)] /\ segments' = Front(segments)
        BY ZenonT(30), <1>10, <2>3, <3>2 DEF Crash
      <4>2. JournalGood /\ TrailKept BY ZenonT(30), <2>1, <2>3, <4>1, JournalUnsealed
      <4> QED BY ZenonT(30), <2>1, <4>2
    <3> QED BY ZenonT(30), <3>1, <3>2
  <2>4. CASE pc \notin {"append", "fresh"}
    <3>1. live' = live /\ segments' = segments BY ZenonT(30), <1>10, <2>4 DEF Crash
    <3> QED BY ZenonT(30), <1>2, <2>1, <3>1
  <2> QED BY ZenonT(30), <2>2, <2>3, <2>4
<1> QED BY ZenonT(30), <1>3, <1>4, <1>5, <1>6, <1>7, <1>8, <1>9, <1>10 DEF Next

\* The parts of the type invariant that are not about the decision journal.
OtherTypes ==
    /\ governance \in Seq(Frags(Change))
    /\ snapshot = NoSnapshot \/ (snapshot.watermark \in Nat /\ IsLedger(snapshot.ledger))
    /\ pc \in {"down", "refused", "idle", "append", "governance", "snapshot", "rotate",
               "fresh", "poisoned"}
    /\ trail \in Seq(Decision) /\ changes \in Seq(Change) /\ (Up => IsLedger(ledger))
    /\ nextSeq \in Nat /\ nextOrd \in Nat
    /\ unflushed \in Seq(Frags(Decision)) /\ unflushedGov \in Seq(Frags(Change))
    /\ acked \in Seq(Decision) /\ crashes \in Nat /\ faults \in Nat

\* A checkpoint of a running deployment.
LEMMA SnapshotTyped ==
    ASSUME TypeOK, Up
    PROVE  /\ Snapshot.watermark = Len(trail) /\ Snapshot.ledger = ledger /\ Snapshot # NoSnapshot
           /\ Len(trail) \in Nat /\ IsLedger(ledger)
<1>1. Len(trail) \in Nat /\ IsLedger(ledger) BY DEF TypeOK
<1>2. Snapshot.watermark = Len(trail) /\ Snapshot.ledger = ledger BY ZenonT(30) DEF Snapshot
<1>3. Snapshot # NoSnapshot
  <2>1. NoSnapshot.watermark = -1 BY ZenonT(30) DEF NoSnapshot
  <2>2. Len(trail) # -1 BY <1>1
  <2> QED BY ZenonT(30), <1>2, <2>1, <2>2
<1> QED BY ZenonT(30), <1>1, <1>2, <1>3

\* Every step keeps the types.
LEMMA TypeStep ==
    ASSUME DeploymentSane, DeploymentInv, Next PROVE TypeOK'
\* Both parts of a write cut short hold what the write held.
<1>Pieces. ASSUME NEW X, NEW b \in Seq(X), NEW k \in 0 .. Len(b)
    PROVE  Partial(b, k) \in Seq(X) /\ Remainder(b, k) \in Seq(X)
  <2> USE <1>Pieces
  <2>1. Len(b) \in Nat /\ k \in Int /\ \A i \in 1 .. Len(b) : b[i] \in X OBVIOUS
  <2>2. \A i \in 1 .. k : b[i] \in X BY <2>1
  <2>3. \A i \in k + 1 .. Len(b) : b[i] \in X BY <2>1
  <2>4. SubSeq(b, 1, k) \in Seq(X) BY <2>1, <2>2
  <2>5. SubSeq(b, k + 1, Len(b)) \in Seq(X) BY <2>1, <2>3
  <2> QED BY ZenonT(30), <2>4, <2>5 DEF Partial, Remainder
\* Types after the process ends.
<1>EndTypes. ASSUME TypeOK, Close \/ Crash PROVE OtherTypes'
  <2> USE <1>EndTypes
  <2>1. OtherTypes BY ZenonT(30) DEF TypeOK, OtherTypes
  <2>2. /\ <<>> \in Seq(Decision) /\ <<>> \in Seq(Change) /\ <<>> \in Seq(Frags(Decision))
        /\ <<>> \in Seq(Frags(Change))
    OBVIOUS
  <2>3. /\ pc' = "down" /\ trail' = <<>> /\ changes' = <<>> /\ nextSeq' = 0 /\ nextOrd' = 0
        /\ unflushed' = <<>> /\ unflushedGov' = <<>> /\ acked' = acked /\ faults' = faults
        /\ crashes' = crashes + 1
    BY ZenonT(30) DEF Close, Crash, Forget
  <2>4. governance' \in Seq(Frags(Change))
    <3>1. governance \in Seq(Frags(Change)) /\ unflushedGov \in Seq(Frags(Change))
          /\ GovernanceBatch \in Seq(Frags(Change))
      BY ZenonT(30), <2>1, Batches DEF OtherTypes
    <3>2. ASSUME NEW b \in Seq(Frags(Change)), NEW k \in 0 .. Len(b)
          PROVE  governance \o Partial(b, k) \in Seq(Frags(Change))
      <4>1. Partial(b, k) \in Seq(Frags(Change)) BY ZenonT(30), <1>Pieces
      <4> QED BY <3>1, <4>1
    <3>3. CASE Close
      <4>1. PICK k \in 0 .. Len(unflushedGov) : governance' = governance \o Partial(unflushedGov, k)
        BY ZenonT(30), <3>3 DEF Close
      <4> QED BY ZenonT(30), <3>1, <3>2, <4>1
    <3>4. CASE Crash
      <4>1. CASE pc = "governance"

        <5>1. PICK k \in 0 .. Len(GovernanceBatch) : governance' = governance \o Partial(GovernanceBatch, k)
          BY ZenonT(30), <3>4, <4>1 DEF Crash
        <5> QED BY ZenonT(30), <3>1, <3>2, <5>1
      <4>2. CASE pc # "governance" BY ZenonT(30), <3>1, <3>4, <4>2 DEF Crash
      <4> QED BY ZenonT(30), <4>1, <4>2
    <3> QED BY ZenonT(30), <3>3, <3>4
  <2>5. snapshot' = NoSnapshot \/ (snapshot'.watermark \in Nat /\ IsLedger(snapshot'.ledger))
    <3>1. CASE snapshot' = snapshot BY ZenonT(30), <2>1, <3>1 DEF OtherTypes
    <3>2. CASE snapshot' # snapshot
      <4>1. Crash /\ pc = "snapshot" /\ snapshot' = Snapshot BY ZenonT(30), <3>2 DEF Close, Crash
      <4> QED BY ZenonT(30), <4>1, SnapshotTyped DEF Up
    <3> QED BY ZenonT(30), <3>1, <3>2
  <2> QED BY <2>1, <2>2, <2>3, <2>4, <2>5 DEF OtherTypes, Up
\* Types after a write that failed.
<1>FaultTypes. ASSUME TypeOK, Fault PROVE OtherTypes'
  <2> USE <1>FaultTypes
  <2>1. OtherTypes BY ZenonT(30) DEF TypeOK, OtherTypes
  <2>2. AuditBatch \in Seq(Frags(Decision)) /\ GovernanceBatch \in Seq(Frags(Change))
    BY ZenonT(30), Batches
  <2>3. faults \in Nat /\ faults + 1 \in Nat BY <2>1 DEF OtherTypes
  <2>4. CASE AppendAuditFails
    <3>1. unflushed' \in Seq(Frags(Decision))
      <4>1. PICK k \in 0 .. Len(AuditBatch), buffered \in BOOLEAN :
               unflushed' = IF buffered THEN Remainder(AuditBatch, k) ELSE <<>>
        BY ZenonT(30), <2>4 DEF AppendAuditFails, FailedWrite
      <4>2. Remainder(AuditBatch, k) \in Seq(Frags(Decision)) BY ZenonT(30), <2>2, <1>Pieces
      <4>3. <<>> \in Seq(Frags(Decision)) OBVIOUS
      <4> QED BY ZenonT(30), <4>1, <4>2, <4>3
    <3> QED BY ZenonT(30), <2>1, <2>3, <2>4, <3>1 DEF AppendAuditFails, memory, OtherTypes, Up
  <2>5. CASE AppendGovernanceFails
    <3>1. PICK k \in 0 .. Len(GovernanceBatch), rolledBack, buffered \in BOOLEAN :
             /\ governance' = IF rolledBack THEN governance ELSE governance \o Partial(GovernanceBatch, k)
             /\ unflushedGov' = IF buffered THEN Remainder(GovernanceBatch, k) ELSE <<>>
      BY ZenonT(30), <2>5 DEF AppendGovernanceFails, FailedWrite
    <3>2. /\ Partial(GovernanceBatch, k) \in Seq(Frags(Change))
          /\ Remainder(GovernanceBatch, k) \in Seq(Frags(Change)) /\ <<>> \in Seq(Frags(Change))
      BY <2>2, <1>Pieces
    <3>3. governance \in Seq(Frags(Change)) BY ZenonT(30), <2>1 DEF OtherTypes
    <3>4. governance \o Partial(GovernanceBatch, k) \in Seq(Frags(Change))
      BY <3>2, <3>3
    <3>5. governance' \in Seq(Frags(Change)) /\ unflushedGov' \in Seq(Frags(Change))
      BY ZenonT(30), <3>1, <3>2, <3>3, <3>4
    <3> QED BY ZenonT(30), <2>1, <2>3, <2>5, <3>5 DEF AppendGovernanceFails, memory, OtherTypes, Up
  <2>6. CASE SaveSnapshotFails
    <3>1. Snapshot.watermark \in Nat /\ IsLedger(Snapshot.ledger)
      BY ZenonT(30), <2>6, SnapshotTyped DEF SaveSnapshotFails, Up
    <3> QED BY ZenonT(30), <2>1, <2>3, <2>6, <3>1 DEF SaveSnapshotFails, memory, handle, OtherTypes, Up
  <2>7. CASE OpenFreshFails
    BY ZenonT(30), <2>1, <2>3, <2>7 DEF OpenFreshFails, files, memory, handle, OtherTypes, Up
  <2> QED BY ZenonT(30), <2>4, <2>5, <2>6, <2>7 DEF Fault
\* Types after each durable write of persist_deployment.
<1>PersistTypes. ASSUME TypeOK, Persist PROVE OtherTypes'
  <2> USE <1>PersistTypes
  <2>1. OtherTypes BY ZenonT(30) DEF TypeOK, OtherTypes
  <2>2. AuditBatch \in Seq(Frags(Decision)) /\ GovernanceBatch \in Seq(Frags(Change))
    BY ZenonT(30), Batches
  <2>3. Len(trail) \in Nat /\ Len(changes) \in Nat BY <2>1 DEF OtherTypes
  <2>4. CASE AppendAudit BY ZenonT(30), <2>1, <2>3, <2>4 DEF AppendAudit, memory, history, OtherTypes, Up
  <2>5. CASE AppendGovernance
    <3>1. governance \o GovernanceBatch \in Seq(Frags(Change))
      BY SMTT(30), <2>1, <2>2 DEF OtherTypes
    <3> QED BY ZenonT(30), <2>1, <2>3, <2>5, <3>1 DEF AppendGovernance, memory, history, OtherTypes, Up
  <2>6. CASE SaveSnapshot
    <3>1. Snapshot.watermark \in Nat /\ IsLedger(Snapshot.ledger)
      BY ZenonT(30), <2>6, SnapshotTyped DEF SaveSnapshot, Up
    <3> QED BY ZenonT(30), <2>1, <2>6, <3>1 DEF SaveSnapshot, memory, handle, OtherTypes, Up
  <2>7. CASE SealSegment
    BY ZenonT(30), <2>1, <2>7 DEF SealSegment, memory, handle, history, OtherTypes, Up
  <2>8. CASE OpenFresh BY ZenonT(30), <2>1, <2>8 DEF OpenFresh, files, memory, handle, OtherTypes, Up
  <2>9. CASE SealRefused BY <2>1, <2>9 DEF SealRefused, files, memory, handle, OtherTypes, Up
  <2> QED BY ZenonT(30), <2>4, <2>5, <2>6, <2>7, <2>8, <2>9 DEF Persist
\* Ledgers stay ledgers.
<1>Ledgers. ASSUME DeploymentSane
    PROVE  /\ IsLedger([t \in FirstTenants |-> 0])
           /\ \A s : TypeOK /\ snapshot = s /\ s # NoSnapshot => IsLedger(RestoredLedger(AuditHistory, s))
           /\ \A l, t : IsLedger(l) /\ t \in DOMAIN l => IsLedger([l EXCEPT ![t] = @ + 1])
           /\ \A l : \A t \in Tenants : IsLedger(l) =>
                 IsLedger([u \in DOMAIN l \cup {t} |-> IF u = t THEN 0 ELSE l[u]])
  <2> USE <1>Ledgers
  <2>1. IsLedger([t \in FirstTenants |-> 0]) BY ZenonT(30) DEF IsLedger, DeploymentSane
  <2>2. ASSUME NEW s, TypeOK, snapshot = s, s # NoSnapshot
        PROVE  IsLedger(RestoredLedger(AuditHistory, s))
    <3> DEFINE H == AuditHistory
               P == PastWatermark(H, s)
    <3>1. IsLedger(s.ledger) BY ZenonT(30), <2>2 DEF TypeOK
    <3>2. H \in Seq(Decision) BY ZenonT(30), <2>2, HistoryTyped
    <3>3. P \cap {} = {} OBVIOUS
    <3> HIDE DEF H, P
    <3>4. \A t : CostAt(H, P, t) \in Nat BY ZenonT(30), <3>2, <3>3, CostSplits
    <3>5. RestoredLedger(H, s) = [t \in DOMAIN s.ledger |-> s.ledger[t] + CostAt(H, P, t)]
      BY ZenonT(30) DEF RestoredLedger, P
    <3>6. \A t \in DOMAIN s.ledger : s.ledger[t] + CostAt(H, P, t) \in Nat
      BY <3>1, <3>4 DEF IsLedger
    <3>7. IsLedger(RestoredLedger(H, s)) BY ZenonT(30), <3>1, <3>5, <3>6 DEF IsLedger
    <3> QED BY ZenonT(30), <3>7 DEF H
  <2>3. ASSUME NEW l, NEW t, IsLedger(l), t \in DOMAIN l PROVE IsLedger([l EXCEPT ![t] = @ + 1])
    BY <2>3 DEF IsLedger
  <2>4. ASSUME NEW l, NEW t \in Tenants, IsLedger(l)
        PROVE  IsLedger([u \in DOMAIN l \cup {t} |-> IF u = t THEN 0 ELSE l[u]])
    BY ZenonT(30), <2>4 DEF IsLedger
  <2> QED BY ZenonT(30), <2>1, <2>2, <2>3, <2>4
\* Types after a tenant is provisioned.
<1>AddTypes. ASSUME DeploymentSane, TypeOK, NEW t \in Tenants, AddTenant(t) PROVE OtherTypes'
  <2> USE <1>AddTypes
  <2> USE DEF OtherTypes, Up
  <2>1. OtherTypes BY ZenonT(30) DEF TypeOK
  <2>2. pc = "idle" /\ IsLedger(ledger) BY ZenonT(30), <2>1 DEF AddTenant
  <2>3. UNCHANGED <<governance, snapshot, pc, trail, nextSeq, nextOrd, unflushed, unflushedGov, acked,
                    crashes, faults>>
    BY ZenonT(30) DEF AddTenant, files, handle, history
  <2>4. IsLedger(ledger')
    <3>1. ledger' = [u \in DOMAIN ledger \cup {t} |-> IF u = t THEN 0 ELSE ledger[u]]
      BY ZenonT(30) DEF AddTenant
    <3> QED BY ZenonT(30), <2>2, <3>1, <1>Ledgers
  <2>5. changes' \in Seq(Change)
    <3> DEFINE c == [seq |-> Len(changes), tenant |-> t]
    <3>1. Len(changes) \in Nat BY <2>1
    <3>2. c \in Change BY ZenonT(30), <3>1 DEF Change
    <3>3. changes' = changes \/ changes' = Append(changes, c) BY ZenonT(30) DEF AddTenant
    <3> HIDE DEF c
    <3>4. changes \in Seq(Change) BY ZenonT(30), <2>1
    <3>5. Append(changes, c) \in Seq(Change) BY <3>2, <3>4
    <3> QED BY ZenonT(30), <3>3, <3>4, <3>5
  <2> QED BY ZenonT(30), <2>1, <2>3, <2>4, <2>5
\* Types after a decision.
<1>DecideTypes. ASSUME DeploymentSane, TypeOK, NEW t \in Tenants, Decide(t) PROVE OtherTypes'
  <2> USE <1>DecideTypes
  <2> USE DEF OtherTypes, Up
  <2>1. OtherTypes BY ZenonT(30) DEF TypeOK
  <2>2. pc = "idle" /\ IsLedger(ledger) BY ZenonT(30), <2>1 DEF Decide
  <2>3. UNCHANGED <<governance, snapshot, changes, nextSeq, nextOrd, unflushed, unflushedGov, acked,
                    crashes, faults>> /\ pc' = "append"
    BY ZenonT(30) DEF Decide, files, handle, history
  <2> DEFINE charged == t \in DOMAIN ledger /\ ledger[t] + 1 <= Limit
             r == [seq |-> Len(trail), tenant |-> t, cost |-> IF charged THEN 1 ELSE 0]
  <2>4. trail' = Append(trail, r) /\ ledger' = IF charged THEN [ledger EXCEPT ![t] = @ + 1] ELSE ledger
    BY ZenonT(30) DEF Decide
  <2>5. Len(trail) \in Nat BY SMTT(30), <2>1
  <2> HIDE DEF charged
  <2>6. r \in Decision BY ZenonT(30), <2>5 DEF Decision
  <2> HIDE DEF r
  <2>7. trail' \in Seq(Decision) BY <2>1, <2>4, <2>6
  <2>8. IsLedger(ledger')
    <3>1. CASE charged
      <4>1. t \in DOMAIN ledger BY ZenonT(30), <3>1 DEF charged
      <4>2. IsLedger([ledger EXCEPT ![t] = @ + 1]) BY ZenonT(30), <2>2, <4>1, <1>Ledgers
      <4> QED BY ZenonT(30), <2>4, <3>1, <4>2
    <3> QED BY ZenonT(30), <2>2, <2>4, <3>1
  <2> QED BY ZenonT(30), <2>1, <2>3, <2>7, <2>8
\* Types after a start.
<1>StartTypes. ASSUME DeploymentSane, TypeOK, Start PROVE OtherTypes'
  <2> USE <1>StartTypes
  <2> USE DEF OtherTypes, Up
  <2>1. OtherTypes BY ZenonT(30) DEF TypeOK
  <2>2. AuditHistory \in Seq(Decision) /\ Records(governance) \in Seq(Change) BY ZenonT(30), HistoryTyped
  <2>3. Len(AuditHistory) \in Nat /\ Len(Records(governance)) \in Nat BY <2>2
  <2>4. pc' = "idle" /\ nextSeq' \in Nat /\ nextOrd' \in Nat /\ unflushed' = <<>> /\ unflushedGov' = <<>>
    BY ZenonT(30), <2>3 DEF Start
  <2>5. UNCHANGED <<governance, acked, crashes, faults>> BY ZenonT(30) DEF Start
  <2>6. unflushed' \in Seq(Frags(Decision)) /\ unflushedGov' \in Seq(Frags(Change)) BY <2>4
  <2>7. CASE snapshot = NoSnapshot
    <3>1. trail' = <<>> /\ changes' = <<>> /\ ledger' = [t \in FirstTenants |-> 0]
      BY ZenonT(30), <2>7 DEF Start
    <3>2. snapshot' = [watermark |-> 0, ledger |-> ledger'] BY ZenonT(30), <2>7 DEF Start
    <3>3. IsLedger(ledger') BY ZenonT(30), <3>1, <1>Ledgers
    <3>4. snapshot'.watermark \in Nat /\ snapshot'.ledger = ledger' BY ZenonT(30), <3>2
    <3>5. trail' \in Seq(Decision) /\ changes' \in Seq(Change) BY <3>1
    <3> QED BY ZenonT(30), <2>1, <2>4, <2>5, <2>6, <3>3, <3>4, <3>5
  <2>8. CASE snapshot # NoSnapshot
    <3>1. /\ trail' = AuditHistory /\ changes' = Records(governance) /\ snapshot' = snapshot
          /\ ledger' = RestoredLedger(AuditHistory, snapshot)
      BY ZenonT(30), <2>8 DEF Start
    <3>2. IsLedger(ledger') BY ZenonT(30), <2>8, <3>1, <1>Ledgers
    <3> QED BY ZenonT(30), <2>1, <2>2, <2>4, <2>5, <2>6, <3>1, <3>2
  <2> QED BY ZenonT(30), <2>7, <2>8
<1>1. TypeOK BY ZenonT(30) DEF DeploymentInv
<1>2. OtherTypes'
  <2>1. OtherTypes BY ZenonT(30), <1>1 DEF TypeOK, OtherTypes
  <2>2. CASE StartRefused
    BY ZenonT(30), <2>1, <2>2 DEF StartRefused, files, memory, handle, OtherTypes, Up
  <2>3. CASE PersistRules
    BY ZenonT(30), <2>1, <2>3 DEF PersistRules, files, memory, handle, history, OtherTypes, Up
  <2> QED
    BY ZenonT(30), <1>1, <2>2, <2>3, <1>StartTypes, <1>DecideTypes, <1>AddTypes, <1>PersistTypes,
       <1>FaultTypes, <1>EndTypes
          DEF Next
<1>3. live' \in Seq(Frags(Decision)) /\ segments' \in Seq(Seq(Frags(Decision)))
  BY ZenonT(30), JournalStep DEF JournalGood
<1> QED BY ZenonT(30), <1>2, <1>3 DEF TypeOK, OtherTypes

\* The first checkpoint is written before anything else.
LEMMA FilesStep == ASSUME DeploymentInv, Next PROVE FilesInv'
<1>1. TypeOK /\ FilesInv BY ZenonT(30) DEF DeploymentInv
<1>2. Whole(segments') /\ Framed(live', Records(live')) /\ (Stray(live') => faults' > 0)
  BY ZenonT(30), JournalStep DEF JournalGood
<1>3. ASSUME snapshot' = NoSnapshot
      PROVE  segments' = <<>> /\ live' = <<>> /\ governance' = <<>> /\ ~Up'
  <2>1. CASE snapshot = NoSnapshot
    <3>1. segments = <<>> /\ live = <<>> /\ governance = <<>> /\ ~Up
      BY ZenonT(30), <1>1, <2>1 DEF FilesInv
    <3>2. pc \in {"down", "refused"} BY ZenonT(30), <3>1 DEF Up
    <3>3. Start \/ StartRefused
      BY ZenonT(30), <3>2 DEF Next, Decide, AddTenant, PersistRules, Persist, AppendAudit,
         AppendGovernance,
                  SaveSnapshot, SealSegment, OpenFresh, SealRefused, Fault, AppendAuditFails,
                  AppendGovernanceFails, SaveSnapshotFails, OpenFreshFails, Close, Crash
    <3>4. ~Start
      <4>1. NoSnapshot.watermark = -1 BY ZenonT(30) DEF NoSnapshot
      <4>2. ASSUME Start PROVE snapshot'.watermark = 0
        <5>1. snapshot' = [watermark |-> 0, ledger |-> ledger'] BY ZenonT(30), <2>1, <4>2 DEF Start
        <5> QED BY ZenonT(30), <5>1
      <4> QED BY <1>3, <4>1, <4>2
    <3> QED BY ZenonT(30), <3>1, <3>3, <3>4 DEF StartRefused, files, Up
  <2>2. CASE snapshot # NoSnapshot
    <3>1. ASSUME Up, snapshot' = Snapshot PROVE FALSE BY ZenonT(30), <1>1, <1>3, <3>1, SnapshotTyped
    <3>2. snapshot' = snapshot \/ (Up /\ snapshot' = Snapshot)
      BY ZenonT(30), <2>2 DEF Next, Start, StartRefused, Decide, AddTenant, PersistRules, Persist,
         AppendAudit,
                  AppendGovernance, SaveSnapshot, SealSegment, OpenFresh, SealRefused, Fault,
                  AppendAuditFails, AppendGovernanceFails, SaveSnapshotFails, OpenFreshFails,
                  Close, Crash, files, Up
    <3> QED BY ZenonT(30), <1>3, <2>2, <3>1, <3>2
  <2> QED BY ZenonT(30), <2>1, <2>2
<1> QED BY ZenonT(30), <1>2, <1>3, FilesWhole

-----------------------------------------------------------------------------
(* Every step keeps the book *)

\* Prefixes.
LEMMA PrefixFacts ==
    ASSUME NEW X, NEW s \in Seq(X)
    PROVE  /\ IsPrefix(s, s) /\ IsPrefix(<<>>, s)
           /\ \A a \in Seq(X) : \A r \in X : IsPrefix(a, s) => IsPrefix(a, Append(s, r))
<1>1. Len(s) \in Nat OBVIOUS
<1>2. IsPrefix(s, s) BY <1>1 DEF IsPrefix
<1>3. IsPrefix(<<>>, s)
  <2>1. Len(<<>>) = 0 /\ SubSeq(<<>>, 1, 0) = <<>> /\ SubSeq(s, 1, 0) = <<>> OBVIOUS
  <2> QED BY <1>1, <2>1 DEF IsPrefix
<1>4. ASSUME NEW a \in Seq(X), NEW r \in X, IsPrefix(a, s) PROVE IsPrefix(a, Append(s, r))
  <2> DEFINE u == Append(s, r)
             n == Len(a)
  <2>1. /\ u \in Seq(X) /\ Len(u) = Len(s) + 1 /\ \A i \in 1 .. Len(s) : u[i] = s[i]
    OBVIOUS
  <2>2. n \in Nat /\ n <= Len(s) /\ SubSeq(a, 1, n) = SubSeq(s, 1, n) BY <1>4 DEF IsPrefix
  <2> HIDE DEF u, n
  <2>3. SubSeq(u, 1, n) = SubSeq(s, 1, n)
    <3>1. \A i \in 1 .. n : u[i] \in X /\ s[i] \in X /\ u[i] = s[i]
      BY <1>1, <2>1, <2>2
    <3>2. /\ SubSeq(u, 1, n) \in Seq(X) /\ SubSeq(s, 1, n) \in Seq(X)
          /\ Len(SubSeq(u, 1, n)) = n /\ Len(SubSeq(s, 1, n)) = n
          /\ \A i \in 1 .. n : SubSeq(u, 1, n)[i] = u[i] /\ SubSeq(s, 1, n)[i] = s[i]
      BY <2>2, <3>1
    <3> QED BY <3>1, <3>2
  <2>4. n <= Len(u) BY SMTT(30), <1>1, <2>1, <2>2
  <2> QED BY ZenonT(30), <2>2, <2>3, <2>4 DEF IsPrefix, u, n
<1> QED BY ZenonT(30), <1>2, <1>3, <1>4

\* Who writes the checkpoint and who answers.
LEMMA SnapshotStep ==
    ASSUME Next
    PROVE  \/ snapshot' = snapshot
           \/ pc = "snapshot" /\ snapshot' = Snapshot
           \/ snapshot = NoSnapshot /\ Start
BY ZenonT(30) DEF Next, Start, StartRefused, Decide, AddTenant, PersistRules, Persist, AppendAudit,
       AppendGovernance, SaveSnapshot, SealSegment, OpenFresh, SealRefused, Fault,
       AppendAuditFails, AppendGovernanceFails, SaveSnapshotFails, OpenFreshFails,
       Close, Crash, files

\* A client is answered when the last write of persist_deployment is done.
LEMMA AckedStep ==
    ASSUME Next
    PROVE  acked' = acked \/ (pc \in {"snapshot", "fresh"} /\ acked' = trail)
BY ZenonT(30) DEF Next, Start, StartRefused, Decide, AddTenant, PersistRules, Persist, AppendAudit,
       AppendGovernance, SaveSnapshot, SealSegment, OpenFresh, SealRefused, Fault,
       AppendAuditFails, AppendGovernanceFails, SaveSnapshotFails, OpenFreshFails,
       Close, Crash, history

\* A trail that grows grows in a running deployment, by the decision in flight.
LEMMA Grows ==
    ASSUME DeploymentInv, Next, ~TrailKept
    PROVE  /\ TrailGrows /\ Up /\ trail \in Seq(Decision) /\ trail[Len(trail)] \in Decision
           /\ trail = Append(AuditHistory, trail[Len(trail)]) /\ snapshot' = snapshot
           /\ Len(trail) = Len(AuditHistory) + 1 /\ pc \in {"append", "poisoned", "idle"}
\* While the process is down the only steps are starts.
<1>DownNext. ASSUME ~Up, Next PROVE Start \/ StartRefused
  BY ZenonT(30), <1>DownNext, ZenonT(30) DEF Up, Next, Decide, AddTenant, PersistRules, Persist,
     AppendAudit, AppendGovernance,
         SaveSnapshot, SealSegment, OpenFresh, SealRefused, Fault, AppendAuditFails,
         AppendGovernanceFails, SaveSnapshotFails, OpenFreshFails, Close, Crash
<1>1. TypeOK /\ FilesInv /\ MemoryInv BY ZenonT(30) DEF DeploymentInv
<1>2. TrailGrows BY ZenonT(30), JournalStep
<1>3. Up
  <2>1. ASSUME ~Up PROVE FALSE
    <3>1. UNCHANGED <<live, segments>> BY ZenonT(30), <2>1, <1>DownNext DEF Start, StartRefused, files
    <3>2. AuditHistory' = AuditHistory BY ZenonT(30), <3>1, HistoryNext, HistoryIs
    <3> QED BY ZenonT(30), <3>2 DEF TrailKept
  <2> QED BY ZenonT(30), <2>1
<1>4. /\ trail \in Seq(Decision) /\ trail # <<>> /\ AuditHistory = Front(trail)
  BY ZenonT(30), <1>1, <1>2 DEF TypeOK, TrailGrows
<1>5. /\ trail[Len(trail)] \in Decision /\ trail = Append(AuditHistory, trail[Len(trail)])
      /\ Len(AuditHistory) = Len(trail) - 1 /\ Len(trail) - 1 \in Nat
  BY ZenonT(30), <1>4, Fronts
<1>6. Len(trail) = Len(AuditHistory) + 1 BY <1>4, <1>5
<1>7. trail # AuditHistory BY <1>5, <1>6
<1>8. pc \in {"append", "poisoned"} BY ZenonT(30), <1>1, <1>3, <1>7 DEF MemoryInv
<1>9. snapshot' = snapshot BY ZenonT(30), <1>3, <1>8, SnapshotStep DEF Start, Up
<1> QED BY ZenonT(30), <1>2, <1>3, <1>4, <1>5, <1>6, <1>8, <1>9

\* BookInv of given values.
CheckpointOf(H, s) ==
    /\ s.watermark \in Nat /\ s.watermark <= Len(H)
    /\ \A t \in Tenants :
          CostAt(H, 1 .. s.watermark, t) = IF t \in DOMAIN s.ledger THEN s.ledger[t] ELSE 0

BookOf(H, a, s) ==
    /\ DenseFrom(H, 0) /\ IsPrefix(a, H) /\ \A t \in Tenants : Cost(H, t) <= Limit
    /\ s # NoSnapshot => CheckpointOf(H, s)

\* BookInv by the values it speaks about, now and after a step.
LEMMA BookIs ==
    /\ TypeOK => (BookInv <=> BookOf(AuditHistory, acked, snapshot))
    /\ BookOf(AuditHistory', acked', snapshot') => BookInv'
<1>1. TypeOK => (BookInv <=> BookOf(AuditHistory, acked, snapshot))
  BY ZenonT(30) DEF TypeOK, BookInv, BookOf, CheckpointOf
<1>2. BookOf(AuditHistory', acked', snapshot') => BookInv'
  BY ZenonT(30) DEF BookInv, BookOf, CheckpointOf
<1> QED BY ZenonT(30), <1>1, <1>2

\* What is on file stays a trail within the budgets, with every answered decision
\* and a checkpoint of a part of it.
LEMMA BookStep ==
    ASSUME DeploymentInv, Next
    PROVE  BookInv'
\* The first checkpoint, of a deployment that has decided nothing.
<1>CheckpointFirst. ASSUME NEW s, s = [watermark |-> 0, ledger |-> [t \in FirstTenants |-> 0]]
    PROVE  CheckpointOf(<<>>, s)
  <2> USE <1>CheckpointFirst
  <2>1. s.watermark = 0 /\ s.ledger = [t \in FirstTenants |-> 0] BY ZenonT(30), SMT
  <2>2. Len(<<>>) = 0 OBVIOUS
  <2>3. \A t : CostAt(<<>>, 1 .. 0, t) = 0 BY ZenonT(30), NoCost
  <2> QED BY <2>1, <2>2, <2>3 DEF CheckpointOf
\* Deployment::snapshot is a checkpoint of the whole trail.
<1>CheckpointTaken. ASSUME TypeOK, MemoryInv, Up
    PROVE  CheckpointOf(trail, Snapshot) /\ Snapshot # NoSnapshot
  <2> USE <1>CheckpointTaken
  <2> DEFINE T == trail
             s == Snapshot
  <2>1. T \in Seq(Decision) /\ DenseFrom(T, 0) /\ Len(T) \in Nat
    BY DEF TypeOK, MemoryInv
  <2>2. s.watermark = Len(T) /\ s.ledger = ledger BY ZenonT(30) DEF Snapshot
  <2>3. \A t \in Tenants : Cost(T, t) = IF t \in DOMAIN ledger THEN ledger[t] ELSE 0
    BY ZenonT(30) DEF MemoryInv
  <2> HIDE DEF T, s
  <2>4. \A t \in Tenants : CostAt(T, 1 .. Len(T), t) = Cost(T, t)
    <3> TAKE t \in Tenants
    <3>1. Len(T) \in 0 .. Len(T) BY SMTT(30), <2>1
    <3> QED BY ZenonT(30), <2>1, <2>2, <3>1, RestoredCost
  <2>5. CheckpointOf(T, s) BY SMTT(30), <2>1, <2>2, <2>3, <2>4 DEF CheckpointOf
  <2>6. s # NoSnapshot BY SMTT(30), <2>1, <2>2 DEF NoSnapshot
  <2> QED BY ZenonT(30), <2>5, <2>6 DEF T, s
\* A checkpoint of what is on file stays one when a decision follows, and the
\* checkpoint of a whole trail is one.
<1>CheckpointKept. ASSUME NEW H \in Seq(Decision), NEW r \in Decision, NEW s, CheckpointOf(H, s)
    PROVE  CheckpointOf(Append(H, r), s)
  <2> USE <1>CheckpointKept
  <2>1. Len(Append(H, r)) = Len(H) + 1 /\ Len(H) \in Nat OBVIOUS
  <2>2. s.watermark \in 0 .. Len(H) /\ s.watermark <= Len(H) + 1
    BY <2>1 DEF CheckpointOf
  <2>3. \A t \in Tenants : CostAt(Append(H, r), 1 .. s.watermark, t) = CostAt(H, 1 .. s.watermark, t)
    BY ZenonT(30), <2>2, CostGrows
  <2> QED BY ZenonT(30), <2>1, <2>2, <2>3 DEF CheckpointOf
<1>1. TypeOK /\ FilesInv /\ BookInv /\ MemoryInv BY ZenonT(30) DEF DeploymentInv
<1> DEFINE H == AuditHistory
           a == acked
           s == snapshot
           G == AuditHistory'
           b == acked'
           z == snapshot'
<1>2. H \in Seq(Decision) /\ a \in Seq(Decision) BY ZenonT(30), <1>1, HistoryTyped DEF TypeOK
<1>3. BookOf(H, a, s) BY ZenonT(30), <1>1, BookIs
<1>4. BookOf(G, b, z) => BookInv' BY ZenonT(30), BookIs
<1>5. CASE TrailKept
  <2>1. G = H BY ZenonT(30), <1>5 DEF TrailKept
  <2>2. b = a \/ b = H
    BY ZenonT(30), <1>1, AckedStep DEF MemoryInv, Up
  <2>3. IsPrefix(b, H) BY ZenonT(30), <1>2, <1>3, <2>2, PrefixFacts DEF BookOf
  <2>4. \/ z = s
        \/ pc = "snapshot" /\ z = Snapshot
        \/ s = NoSnapshot /\ Start
    BY ZenonT(30), SnapshotStep
  <2>5. z # NoSnapshot => CheckpointOf(H, z)
    <3>1. CASE z = s BY ZenonT(30), <1>3, <3>1 DEF BookOf
    <3>2. CASE pc = "snapshot" /\ z = Snapshot
      <4>1. Up /\ trail = H BY ZenonT(30), <1>1, <3>2 DEF MemoryInv, Up
      <4> QED BY ZenonT(30), <1>1, <3>2, <4>1, <1>CheckpointTaken
    <3>3. CASE s = NoSnapshot /\ Start
      <4>1. segments = <<>> /\ live = <<>> BY ZenonT(30), <1>1, <3>3 DEF FilesInv
      <4>2. H = <<>>
        <5>1. H = FlattenSeq(SealedOf(<<>>)) \o Records(<<>>)
          BY ZenonT(30), <1>1, <4>1, HistoryIs, HistoryJoins DEF TypeOK
        <5> QED BY <5>1, NoLines
      <4>3. z = [watermark |-> 0, ledger |-> [t \in FirstTenants |-> 0]] BY ZenonT(30), <3>3 DEF Start
      <4> QED BY ZenonT(30), <4>2, <4>3, <1>CheckpointFirst
    <3> QED BY ZenonT(30), <2>4, <3>1, <3>2, <3>3
  <2> QED BY ZenonT(30), <1>3, <1>4, <2>1, <2>3, <2>5 DEF BookOf
<1>6. CASE ~TrailKept
  <2> DEFINE r == trail[Len(trail)]
  <2>1. /\ TrailGrows /\ Up /\ r \in Decision /\ trail = Append(H, r) /\ z = s
    BY ZenonT(30), <1>6, Grows
  <2>2. G = trail /\ b = a BY ZenonT(30), <2>1 DEF TrailGrows
  <2>3. DenseFrom(G, 0) /\ \A t \in Tenants : Cost(G, t) <= Limit
    BY ZenonT(30), <1>1, <2>1, <2>2 DEF MemoryInv
  <2> HIDE DEF r, H, a, s, G, b, z
  <2>4. IsPrefix(b, G) BY ZenonT(30), <1>2, <1>3, <2>1, <2>2, PrefixFacts DEF BookOf
  <2>5. z # NoSnapshot => CheckpointOf(G, z)
    BY ZenonT(30), <1>2, <1>3, <2>1, <2>2, <1>CheckpointKept DEF BookOf
  <2> QED BY ZenonT(30), <1>4, <2>3, <2>4, <2>5 DEF BookOf
<1> QED BY ZenonT(30), <1>5, <1>6

-----------------------------------------------------------------------------
(* Every step keeps memory and ledgers *)

\* The trail and the ledgers in memory agree and are within the budget.
Books(T, l) ==
    /\ DenseFrom(T, 0)
    /\ \A t \in Tenants : Cost(T, t) = (IF t \in DOMAIN l THEN l[t] ELSE 0) /\ Cost(T, t) <= Limit

\* A restored deployment knows what its trail charged: the checkpoint's ledgers
\* and the costs past its watermark, which a known tenant paid.
LEMMA BooksRestored ==
    ASSUME NEW H \in Seq(Decision), NEW a, NEW s, s # NoSnapshot, BookOf(H, a, s), IsLedger(s.ledger),
           \A j \in PastWatermark(H, s) : H[j].cost = 1 => H[j].tenant \in DOMAIN s.ledger
    PROVE  Books(H, RestoredLedger(H, s))
<1> DEFINE w == s.watermark
           P == PastWatermark(H, s)
           l == RestoredLedger(H, s)
<1>1. DenseFrom(H, 0) /\ \A t \in Tenants : Cost(H, t) <= Limit BY ZenonT(30) DEF BookOf
<1>2. /\ w \in Nat /\ w <= Len(H)
      /\ \A t \in Tenants :
            CostAt(H, 1 .. w, t) = IF t \in DOMAIN s.ledger THEN s.ledger[t] ELSE 0
  BY ZenonT(30) DEF BookOf, CheckpointOf
<1>3. Len(H) \in Nat /\ w \in 0 .. Len(H) BY SMTT(30), <1>2
<1>4. DOMAIN l = DOMAIN s.ledger /\ \A t \in DOMAIN s.ledger : l[t] = s.ledger[t] + CostAt(H, P, t)
  BY ZenonT(30) DEF RestoredLedger
<1>5. ASSUME NEW t, t \notin DOMAIN s.ledger PROVE CostAt(H, P, t) = 0
  <2>1. ASSUME NEW j \in 1 .. Len(H), j \in P, H[j].tenant = t PROVE H[j].cost = 0
    <3>1. H[j] \in Decision /\ H[j].cost # 1 BY <1>5, <2>1
    <3> QED BY ZenonT(30), <3>1 DEF Decision
  <2> HIDE DEF P
  <2> QED BY ZenonT(30), <2>1, CostNone
<1>6. ASSUME NEW t \in Tenants
      PROVE  /\ Cost(H, t) = CostAt(H, 1 .. w, t) + CostAt(H, P, t)
             /\ CostAt(H, 1 .. w, t) \in Nat /\ CostAt(H, P, t) \in Nat
  <2>1. s.watermark = w BY ZenonT(30)
  <2> HIDE DEF w
  <2> QED BY ZenonT(30), <1>1, <1>3, <2>1, RestoredCost
<1> HIDE DEF w, P, l
<1>7. ASSUME NEW t \in Tenants PROVE Cost(H, t) = IF t \in DOMAIN l THEN l[t] ELSE 0
  <2> DEFINE x == CostAt(H, 1 .. w, t)
             y == CostAt(H, P, t)
             c == Cost(H, t)
  <2>3. c = x + y /\ x \in Nat /\ y \in Nat BY ZenonT(30), <1>6
  <2>4. x = IF t \in DOMAIN s.ledger THEN s.ledger[t] ELSE 0 BY ZenonT(30), <1>2
  <2>1. CASE t \in DOMAIN s.ledger
    <3>1. l[t] = s.ledger[t] + y /\ t \in DOMAIN l BY ZenonT(30), <1>4, <2>1
    <3> HIDE DEF x, y, c
    <3>2. x = s.ledger[t] BY ZenonT(30), <2>1, <2>4
    <3>3. c = l[t] BY ZenonT(30), <2>3, <3>1, <3>2
    <3> QED BY ZenonT(30), <3>1, <3>3 DEF c
  <2>2. CASE t \notin DOMAIN s.ledger
    <3>1. y = 0 /\ t \notin DOMAIN l BY ZenonT(30), <1>4, <1>5, <2>2
    <3> HIDE DEF x, y, c
    <3>2. c = 0 BY SMTT(30), <2>2, <2>3, <2>4, <3>1
    <3> QED BY ZenonT(30), <3>1, <3>2 DEF c
  <2> QED BY ZenonT(30), <2>1, <2>2
<1> QED BY ZenonT(30), <1>1, <1>7 DEF Books, l

\* Nothing is in flight: memory is the file.
Settled == Exact(live, Records(live)) /\ unflushed = <<>> /\ trail = AuditHistory

\* MemoryInv by its parts.
LEMMA MemoryParts ==
    /\ MemoryInv /\ Up => Books(trail, ledger)
    /\ MemoryInv /\ Up /\ pc \notin {"append", "poisoned"} => Settled /\ nextSeq = Len(AuditHistory)
    /\ MemoryInv /\ pc = "poisoned" => Settled \/ (InFlight /\ faults > 0)
    /\ ~Up' => MemoryInv'
    /\ /\ Books(trail', ledger') /\ Settled' /\ nextSeq' = Len(AuditHistory')
       /\ pc' \notin {"append", "poisoned"} /\ (pc' = "fresh" => live' = <<>> /\ segments' # <<>>)
       => MemoryInv'
    /\ /\ Books(trail', ledger') /\ pc' = "poisoned" /\ (Settled' \/ (InFlight' /\ faults' > 0))
       => MemoryInv'
    /\ /\ Books(trail', ledger') /\ pc' = "append" /\ trail' # <<>> /\ AuditHistory' = Front(trail')
       /\ Exact(live', Records(live')) /\ unflushed' = <<>> /\ nextSeq' = Len(AuditHistory')
       => MemoryInv'
<1>1. MemoryInv /\ Up => Books(trail, ledger) BY ZenonT(30) DEF MemoryInv, Books
<1>2. MemoryInv /\ Up /\ pc \notin {"append", "poisoned"} => Settled /\ nextSeq = Len(AuditHistory)
  BY ZenonT(30) DEF MemoryInv, Settled
<1>3. MemoryInv /\ pc = "poisoned" => Settled \/ (InFlight /\ faults > 0)
  BY ZenonT(30) DEF MemoryInv, Settled, Up
<1>4. ~Up' => MemoryInv' BY ZenonT(30) DEF MemoryInv
<1>5. /\ Books(trail', ledger') /\ Settled' /\ nextSeq' = Len(AuditHistory')
      /\ pc' \notin {"append", "poisoned"} /\ (pc' = "fresh" => live' = <<>> /\ segments' # <<>>)
      => MemoryInv'
  BY ZenonT(30) DEF MemoryInv, Books, Settled
<1>6. /\ Books(trail', ledger') /\ pc' = "poisoned" /\ (Settled' \/ (InFlight' /\ faults' > 0))
      => MemoryInv'
  BY ZenonT(30) DEF MemoryInv, Books, Settled
<1>7. /\ Books(trail', ledger') /\ pc' = "append" /\ trail' # <<>> /\ AuditHistory' = Front(trail')
      /\ Exact(live', Records(live')) /\ unflushed' = <<>> /\ nextSeq' = Len(AuditHistory')
      => MemoryInv'
  BY ZenonT(30) DEF MemoryInv, Books
<1> QED BY ZenonT(30), <1>1, <1>2, <1>3, <1>4, <1>5, <1>6, <1>7

\* The history follows the two kinds of audit file only.
LEMMA HistoryStays ==
    ASSUME UNCHANGED <<live, segments>>
    PROVE  AuditHistory' = AuditHistory /\ Records(live') = Records(live)
BY ZenonT(30), HistoryNext, HistoryIs

\* The steps that leave the journal, the trail and the ledgers alone.
LEMMA MemoryCarried ==
    ASSUME MemoryInv, Up, pc \notin {"append", "poisoned"}, pc' \notin {"append", "fresh"},
           UNCHANGED <<live, segments, trail, ledger, nextSeq, unflushed>>
    PROVE  MemoryInv'
<1>1. Books(trail, ledger) /\ Settled /\ nextSeq = Len(AuditHistory) BY ZenonT(30), MemoryParts
<1>2. AuditHistory' = AuditHistory BY ZenonT(30), HistoryStays
<1>3. Books(trail', ledger') BY ZenonT(30), <1>1
<1>4. Settled' /\ nextSeq' = Len(AuditHistory') BY ZenonT(30), <1>1, <1>2 DEF Settled
<1> QED BY ZenonT(30), <1>3, <1>4, MemoryParts

\* Deciding puts one decision in flight; provisioning none.
LEMMA MemoryDecided ==
    ASSUME DeploymentSane, TypeOK, MemoryInv, NEW u \in Tenants, Decide(u)
    PROVE  MemoryInv'
\* One decision keeps the books: it is charged when the tenant is known and its
\* budget allows it.
<1>BooksDecided. ASSUME DeploymentSane, NEW T \in Seq(Decision), NEW l, IsLedger(l), Books(T, l), NEW u1 \in Tenants,
           NEW paid \in BOOLEAN, paid <=> (u1 \in DOMAIN l /\ l[u1] + 1 <= Limit)
    PROVE  LET r == [seq |-> Len(T), tenant |-> u1, cost |-> IF paid THEN 1 ELSE 0]
           IN  /\ r \in Decision /\ Append(T, r) \in Seq(Decision)
               /\ Books(Append(T, r), IF paid THEN [l EXCEPT ![u1] = @ + 1] ELSE l)
  <2> USE <1>BooksDecided
  \* A dense trail with the next decision is dense.
  <2>DenseGrows. ASSUME NEW R \in Seq(Decision), DenseFrom(R, 0), NEW r \in Decision, r.seq = Len(R)
      PROVE  Append(R, r) \in Seq(Decision) /\ DenseFrom(Append(R, r), 0)
    <3> USE <2>DenseGrows
    <3> DEFINE a == Append(R, r)
               n == Len(R)
    <3>1. n \in Nat /\ DOMAIN R = 1 .. n OBVIOUS
    <3>2. /\ a \in Seq(Decision) /\ Len(a) = n + 1 /\ DOMAIN a = 1 .. n + 1
          /\ a[n + 1] = r /\ \A i \in 1 .. n : a[i] = R[i]
      OBVIOUS
    <3> HIDE DEF a
    <3>3. ASSUME NEW j \in 1 .. n + 1 PROVE a[j].seq = 0 + j - 1
      <4>1. CASE j = n + 1 BY SMTT(30), <3>1, <3>2, <4>1
      <4>2. CASE j # n + 1
        <5>1. j \in 1 .. n BY SMTT(30), <3>1, <4>2
        <5>2. R[j].seq = 0 + j - 1 BY ZenonT(30), <3>1, <5>1 DEF DenseFrom
        <5> QED BY ZenonT(30), <3>2, <5>1, <5>2
      <4> QED BY ZenonT(30), <4>1, <4>2
    <3>4. DenseFrom(a, 0) BY ZenonT(30), <3>2, <3>3 DEF DenseFrom
    <3> QED BY ZenonT(30), <3>2, <3>4 DEF a
  <2> DEFINE r == [seq |-> Len(T), tenant |-> u1, cost |-> IF paid THEN 1 ELSE 0]
             m == IF paid THEN [l EXCEPT ![u1] = @ + 1] ELSE l
  <2>1. Len(T) \in Nat BY SMTT(30)
  <2>2. r \in Decision /\ r.seq = Len(T) /\ r.tenant = u1 /\ r.cost = IF paid THEN 1 ELSE 0
    BY ZenonT(30), <2>1 DEF Decision
  <2>3. /\ DOMAIN m = DOMAIN l /\ \A t \in DOMAIN l : l[t] \in Nat
        /\ \A t \in DOMAIN l : m[t] = l[t] + (IF t = u1 /\ paid THEN 1 ELSE 0)
    BY DEF IsLedger
  <2> HIDE DEF r, m
  <2>4. DenseFrom(T, 0) BY ZenonT(30) DEF Books
  <2>5. Append(T, r) \in Seq(Decision) /\ DenseFrom(Append(T, r), 0)
    BY ZenonT(30), <2>2, <2>4, <2>DenseGrows
  <2>6. ASSUME NEW t \in Tenants
        PROVE  /\ Cost(Append(T, r), t) = IF t \in DOMAIN m THEN m[t] ELSE 0
               /\ Cost(Append(T, r), t) <= Limit
    <3>1. Cost(Append(T, r), t) = Cost(T, t) + (IF t = u1 /\ paid THEN 1 ELSE 0)
      BY ZenonT(30), <2>2, CostGrows
    <3>2. Cost(T, t) = (IF t \in DOMAIN l THEN l[t] ELSE 0) /\ Cost(T, t) <= Limit
      BY ZenonT(30) DEF Books
    <3>3. Limit \in Nat BY ZenonT(30) DEF DeploymentSane
    <3> QED BY SMTT(30), <2>3, <3>1, <3>2, <3>3
  <2>7. Books(Append(T, r), m) BY ZenonT(30), <2>5, <2>6 DEF Books
  <2> QED BY ZenonT(30), <2>2, <2>5, <2>7 DEF r, m
<1> DEFINE paid == u \in DOMAIN ledger /\ ledger[u] + 1 <= Limit
           r == [seq |-> Len(trail), tenant |-> u, cost |-> IF paid THEN 1 ELSE 0]
           T == trail
           l == ledger
<1>1. /\ pc = "idle" /\ pc' = "append" /\ trail' = Append(T, r)
      /\ ledger' = IF paid THEN [l EXCEPT ![u] = @ + 1] ELSE l
      /\ UNCHANGED <<live, segments, nextSeq, unflushed>>
  BY ZenonT(30) DEF Decide, files, handle
<1>2. Up /\ T \in Seq(Decision) /\ IsLedger(l) BY ZenonT(30), <1>1 DEF Up, TypeOK
<1>3. Books(T, l) /\ Settled /\ nextSeq = Len(AuditHistory) BY ZenonT(30), <1>1, <1>2, MemoryParts
<1>4. r \in Decision /\ Books(trail', ledger')
  <2>1. paid \in BOOLEAN /\ (paid <=> (u \in DOMAIN l /\ l[u] + 1 <= Limit)) OBVIOUS
  <2> HIDE DEF paid, T, l
  <2> QED BY ZenonT(30), <1>1, <1>2, <1>3, <2>1, <1>BooksDecided DEF T
<1> HIDE DEF r
<1>5. trail' # <<>> /\ Front(trail') = T
  <2>1. trail' \in Seq(Decision) /\ trail' # <<>> BY SMTT(30), <1>1, <1>2, <1>4
  <2>2. /\ Len(trail') = Len(T) + 1 /\ Len(T) \in Nat /\ \A i \in 1 .. Len(T) : trail'[i] = T[i]
    BY <1>1, <1>2, <1>4
  <2> DEFINE z == trail'
  <2>3. z \in Seq(Decision) /\ z # <<>> BY ZenonT(30), <2>1
  <2>4. Len(z) = Len(T) + 1 /\ Len(T) \in Nat /\ \A i \in 1 .. Len(T) : z[i] = T[i] BY ZenonT(30), <2>2
  <2> HIDE DEF z
  <2>5. /\ Front(z) \in Seq(Decision) /\ Len(Front(z)) = Len(z) - 1
        /\ \A i \in 1 .. Len(z) - 1 : Front(z)[i] = z[i]
    BY ZenonT(30), <2>3, Fronts
  <2>6. Len(Front(z)) = Len(T) /\ \A i \in 1 .. Len(T) : Front(z)[i] = T[i] BY SMTT(30), <2>4, <2>5
  <2>7. Front(z) = T BY <1>2, <2>5, <2>6
  <2> QED BY ZenonT(30), <2>3, <2>7 DEF z
<1>6. AuditHistory' = AuditHistory BY ZenonT(30), <1>1, HistoryStays
<1>7. /\ AuditHistory' = Front(trail') /\ Exact(live', Records(live')) /\ unflushed' = <<>>
      /\ nextSeq' = Len(AuditHistory')
  BY ZenonT(30), <1>1, <1>3, <1>5, <1>6 DEF Settled
<1> QED BY ZenonT(30), <1>1, <1>4, <1>5, <1>7, MemoryParts

\* Deployment::add_tenant leaves the journal alone.
LEMMA MemoryProvisioned ==
    ASSUME MemoryInv, NEW u \in Tenants, AddTenant(u)
    PROVE  MemoryInv'
\* Provisioning a tenant keeps the books: its decisions so far were all refused.
<1>BooksAdded. ASSUME NEW T, NEW l, Books(T, l), NEW u1, u1 \notin DOMAIN l
    PROVE  Books(T, [t \in DOMAIN l \cup {u1} |-> IF t = u1 THEN 0 ELSE l[t]])
  BY ZenonT(30), <1>BooksAdded, SMTT(30) DEF Books
<1>1. /\ pc = "idle" /\ pc' = pc /\ trail' = trail /\ u \notin DOMAIN ledger
      /\ ledger' = [t \in DOMAIN ledger \cup {u} |-> IF t = u THEN 0 ELSE ledger[t]]
      /\ UNCHANGED <<live, segments, nextSeq, unflushed>>
  BY ZenonT(30) DEF AddTenant, files, handle
<1>2. Books(trail, ledger) /\ Settled /\ nextSeq = Len(AuditHistory)
  BY ZenonT(30), <1>1, MemoryParts DEF Up
<1>3. Books(trail', ledger') BY <1>1, <1>2, <1>BooksAdded
<1>4. AuditHistory' = AuditHistory BY ZenonT(30), <1>1, HistoryStays
<1>5. Settled' /\ nextSeq' = Len(AuditHistory') BY ZenonT(30), <1>1, <1>2, <1>4 DEF Settled
<1> QED BY ZenonT(30), <1>1, <1>3, <1>5, MemoryParts

\* A start on a checkpoint found both audit files and the governance journal
\* whole: the server accepts no torn tail.
LEMMA StartWhole ==
    ASSUME DeploymentSane, TypeOK, Start, snapshot # NoSnapshot
    PROVE  Exact(live, Records(live))
\* The other way round: what a reader accepts whole is the lines of its records.
<1>Readable. ASSUME NEW Q, NEW file \in Seq(Frags(Q)), WellFramed(file), TornTail(file) = 0
    PROVE  Records(file) \in Seq(Q) /\ Exact(file, Records(file))
  <2> USE <1>Readable
  <2> DEFINE m == Len(file)
             n == m \div 2
  <2>1. m \in Nat OBVIOUS
  <2>2. CommittedLen(file) \in 0 .. m BY ZenonT(30), CommittedBound
  <2>3. CommittedLen(file) = m BY SMTT(30), <2>1, <2>2 DEF TornTail
  <2>4. m % 2 = 0 BY ZenonT(30), <2>3 DEF WellFramed
  <2>5. m = 2 * n /\ n \in Nat BY SMTT(30), <2>1, <2>4
  <2> HIDE DEF n
  <2>6. ASSUME NEW j \in 1 .. n
        PROVE  /\ file[2 * j] \in Frags(Q) /\ file[2 * j - 1] \in Frags(Q)
               /\ file[2 * j - 1].half = "head" /\ file[2 * j].half = "tail"
               /\ file[2 * j].rec = file[2 * j - 1].rec
    <3>1. 2 * j \in 1 .. m /\ 2 * j - 1 \in 1 .. m BY <2>5
    <3>2. j \in 1 .. CommittedLen(file) \div 2 BY ZenonT(30), <2>3 DEF n
    <3> QED BY <3>1, <3>2 DEF WellFramed
  <2>7. Records(file) = [j \in 1 .. n |-> file[2 * j].rec] BY ZenonT(30), <2>3 DEF Records, n
  <2>8. Records(file) \in Seq(Q) /\ Len(Records(file)) = n
    <3>1. [j \in 1 .. n |-> file[2 * j].rec] \in [1 .. n -> Q] BY ZenonT(30), <2>6 DEF Frags
    <3> QED BY SMTT(30), <2>5, <2>7, <3>1
  <2>9. ASSUME NEW j \in 1 .. n
        PROVE  /\ file[2 * j - 1] = Head1(Records(file)[j]) /\ file[2 * j] = Tail2(Records(file)[j])
    <3>1. Records(file)[j] = file[2 * j].rec BY ZenonT(30), <2>7
    <3> QED BY ZenonT(30), <2>6, <3>1 DEF Head1, Tail2, Frags
  <2> QED BY ZenonT(30), <2>5, <2>8, <2>9 DEF Exact, Framed
<1>1. /\ HistoryReadable /\ TornTail(live) + TornTail(governance) = 0
  BY ZenonT(30) DEF Start, StartRefusal, DeploymentSane
<1>2. live \in Seq(Frags(Decision)) /\ governance \in Seq(Frags(Change))
      /\ segments \in Seq(Seq(Frags(Decision)))
  BY ZenonT(30) DEF TypeOK
<1>3. /\ Len(live) \in Nat /\ CommittedLen(live) \in 0 .. Len(live)
      /\ Len(governance) \in Nat /\ CommittedLen(governance) \in 0 .. Len(governance)
  BY <1>2, CommittedBound
<1>4. TornTail(live) = 0 BY SMTT(30), <1>1, <1>3 DEF TornTail
<1>5. WellFramed(live)
  <2>1. Len(segments) + 1 \in DOMAIN AuditFiles /\ AuditFiles[Len(segments) + 1] = live
    BY <1>2 DEF AuditFiles
  <2> QED BY ZenonT(30), <1>1, <2>1 DEF HistoryReadable
<1> QED BY ZenonT(30), <1>2, <1>4, <1>5, <1>Readable

\* A deployment that starts has exact books, new or restored.
LEMMA MemoryStarted ==
    ASSUME DeploymentSane, DeploymentInv, Start
    PROVE  MemoryInv'
<1>1. TypeOK /\ FilesInv /\ BookInv BY ZenonT(30) DEF DeploymentInv
<1>2. /\ pc' = "idle" /\ unflushed' = <<>> /\ nextSeq' = Len(AuditHistory)
      /\ UNCHANGED <<live, segments>>
  BY ZenonT(30) DEF Start
<1>3. AuditHistory' = AuditHistory BY ZenonT(30), <1>2, HistoryStays
<1>4. AuditHistory \in Seq(Decision) BY ZenonT(30), <1>1, HistoryTyped
<1>5. CASE snapshot = NoSnapshot
  <2>1. segments = <<>> /\ live = <<>> BY ZenonT(30), <1>1, <1>5 DEF FilesInv
  <2>2. AuditHistory = <<>>
    <3>1. AuditHistory = FlattenSeq(SealedOf(<<>>)) \o Records(<<>>)
      BY ZenonT(30), <1>1, <2>1, HistoryIs, HistoryJoins DEF TypeOK
    <3> QED BY <3>1, NoLines
  <2>3. trail' = <<>> /\ ledger' = [t \in FirstTenants |-> 0] BY ZenonT(30), <1>5 DEF Start
  <2>4. Books(trail', ledger')
    <3>1. \A t : Cost(<<>>, t) = 0 BY ZenonT(30), NoCost
    <3>2. DenseFrom(<<>>, 0) BY DEF DenseFrom
    <3> QED BY <2>3, <3>1, <3>2 DEF Books, DeploymentSane
  <2>5. Exact(<<>>, Records(<<>>)) BY ZenonT(30), NoLines
  <2>6. Settled' /\ nextSeq' = Len(AuditHistory')
    BY SMTT(30), <1>2, <1>3, <2>1, <2>2, <2>3, <2>5 DEF Settled
  <2> QED BY ZenonT(30), <1>2, <2>4, <2>6, MemoryParts
<1>6. CASE snapshot # NoSnapshot
  <2> DEFINE H == AuditHistory
             s == snapshot
  <2>1. trail' = H /\ ledger' = RestoredLedger(H, s) BY ZenonT(30), <1>6 DEF Start
  <2>2. \A j \in PastWatermark(H, s) : H[j].cost = 1 => H[j].tenant \in DOMAIN s.ledger
    BY ZenonT(30), <1>6 DEF Start, StartRefusal
  <2>3. H \in Seq(Decision) /\ s # NoSnapshot /\ IsLedger(s.ledger)
    BY ZenonT(30), <1>1, <1>4, <1>6 DEF TypeOK
  <2>4. BookOf(H, acked, s) BY ZenonT(30), <1>1, BookIs
  <2>5. Exact(live, Records(live)) BY ZenonT(30), <1>1, <1>6, StartWhole
  <2> HIDE DEF s
  <2>6. Books(H, RestoredLedger(H, s))
    <3> HIDE DEF H
    <3> QED BY ZenonT(30), <2>2, <2>3, <2>4, BooksRestored
  <2>7. Books(trail', ledger') BY ZenonT(30), <2>1, <2>6
  <2>8. Settled' /\ nextSeq' = Len(AuditHistory') BY ZenonT(30), <1>2, <1>3, <2>1, <2>5 DEF Settled
  <2> QED BY ZenonT(30), <1>2, <2>7, <2>8, MemoryParts
<1> QED BY ZenonT(30), <1>5, <1>6

\* Writing the decision in flight makes the file the trail again.
LEMMA MemoryAppended ==
    ASSUME DeploymentInv, AppendAudit
    PROVE  MemoryInv'
<1> DEFINE k == Len(AuditBatch)
<1>1. TypeOK /\ MemoryInv BY ZenonT(30) DEF DeploymentInv
<1>2. /\ pc = "append" /\ pc' = "governance" /\ live' = live \o AuditBatch
      /\ UNCHANGED <<segments, acked, faults, trail, ledger, unflushed>> /\ nextSeq' = Len(trail)
  BY ZenonT(30) DEF AppendAudit, history, memory
<1>3. k = 2 /\ k \in 0 .. Len(AuditBatch) /\ Partial(AuditBatch, k) = AuditBatch
  <2>1. AuditBatch = Line(trail[Len(trail)]) BY ZenonT(30), <1>1, <1>2, FlightAppend
  <2>2. k = 2 BY ZenonT(30), <2>1 DEF Line
  <2>3. AuditBatch \in Seq(Frags(Decision)) BY ZenonT(30), <1>1, Batches
  <2> QED BY SMTT(30), <2>2, <2>3 DEF Partial
<1>4. unflushed = <<>> BY ZenonT(30), <1>1, <1>2, FlightAppend
<1>5. Books(trail, ledger) BY ZenonT(30), <1>1, <1>2, MemoryParts DEF Up
<1> HIDE DEF k
<1>6. TrailGrows /\ Exact(live', Records(live'))
  <2>1. live' = live \o Partial(AuditBatch, k) BY ZenonT(30), <1>2, <1>3
  <2>2. faults' \in {faults, faults + 1} BY ZenonT(30), <1>2
  <2>3. \/ k = 0
        \/ k = 1
        \/ k = 2 /\ TrailGrows /\ Exact(live', Records(live'))
    <3>1. k \in 0 .. Len(AuditBatch) BY ZenonT(30), <1>3
    <3> QED BY ZenonT(30), <1>2, <2>1, <2>2, <3>1, JournalAppended
  <2> QED BY <1>3, <2>3
<1>7. Settled' /\ nextSeq' = Len(AuditHistory') BY ZenonT(30), <1>2, <1>4, <1>6 DEF Settled, TrailGrows
<1>8. Books(trail', ledger') BY ZenonT(30), <1>2, <1>5
<1> QED BY ZenonT(30), <1>2, <1>7, <1>8, MemoryParts

\* A rotation leaves an empty live file.
LEMMA MemorySealed ==
    ASSUME DeploymentInv, SealSegment
    PROVE  MemoryInv'
<1>1. MemoryInv BY ZenonT(30) DEF DeploymentInv
<1>2. /\ pc = "rotate" /\ pc' = "fresh" /\ UNCHANGED <<trail, ledger, nextSeq, unflushed>>
  BY ZenonT(30) DEF SealSegment, memory, handle
<1>3. Books(trail, ledger) /\ Settled /\ nextSeq = Len(AuditHistory)
  BY ZenonT(30), <1>1, <1>2, MemoryParts DEF Up
<1>4. TrailKept /\ live' = <<>> /\ segments' # <<>> BY ZenonT(30), JournalSealed
<1>5. Exact(<<>>, Records(<<>>)) BY ZenonT(30), NoLines
<1>6. Settled' /\ nextSeq' = Len(AuditHistory')
  BY ZenonT(30), <1>2, <1>3, <1>4, <1>5 DEF Settled, TrailKept
<1>7. Books(trail', ledger') BY ZenonT(30), <1>2, <1>3
<1> QED BY ZenonT(30), <1>2, <1>4, <1>6, <1>7, MemoryParts

\* A failed append leaves the decision in flight, or on file with nothing held
\* back: whatever the write got out, whether or not it was rolled back.
LEMMA MemoryFailed ==
    ASSUME DeploymentInv, AppendAuditFails
    PROVE  MemoryInv'
<1> DEFINE r == trail[Len(trail)]
<1>1. TypeOK /\ MemoryInv BY ZenonT(30) DEF DeploymentInv
<1>2. /\ pc = "append" /\ pc' = "poisoned" /\ faults' = faults + 1
      /\ UNCHANGED <<segments, acked, trail, ledger>>
  BY ZenonT(30) DEF AppendAuditFails, memory
<1>3. PICK k \in 0 .. Len(AuditBatch), rolledBack \in BOOLEAN, buffered \in BOOLEAN :
         /\ live' = IF rolledBack THEN live ELSE live \o Partial(AuditBatch, k)
         /\ unflushed' = IF buffered THEN Remainder(AuditBatch, k) ELSE <<>>
  BY ZenonT(30) DEF AppendAuditFails, FailedWrite
<1>4. /\ AuditBatch = Line(r) /\ trail # <<>> /\ AuditHistory = Front(trail)
      /\ JournalOf(Decision, live, Records(live))
  BY ZenonT(30), <1>1, <1>2, FlightAppend
<1>5. Books(trail', ledger') BY ZenonT(30), <1>1, <1>2, MemoryParts DEF Up
<1>6. faults' > 0 /\ faults' \in {faults, faults + 1} BY SMTT(30), <1>1, <1>2 DEF TypeOK
<1>7. \/ k = 0 /\ Remainder(AuditBatch, k) = <<Head1(r), Tail2(r)>>
      \/ k = 1 /\ Remainder(AuditBatch, k) = <<Tail2(r)>>
      \/ k = 2 /\ Remainder(AuditBatch, k) = <<>>
  <2>1. AuditBatch = <<Head1(r), Tail2(r)>> BY ZenonT(30), <1>4 DEF Line
  <2> QED BY <2>1, LineCut
<1>8. trail'[Len(trail')] = r BY ZenonT(30), <1>2
<1> HIDE DEF r
\* The decision in flight of the next state.
<1>9. ASSUME AuditHistory' = AuditHistory,
             \/ /\ Exact(live', Records(live'))
                /\ unflushed' \in {<<>>, <<Tail2(r)>>, <<Head1(r), Tail2(r)>>}
             \/ /\ Len(live') = 2 * Len(Records(live')) + 1 /\ live'[Len(live')] = Head1(r)
                /\ unflushed' \in {<<>>, <<Tail2(r)>>}
      PROVE  InFlight'
  <2>1. trail' # <<>> /\ AuditHistory' = Front(trail') BY ZenonT(30), <1>2, <1>4, <1>9
  <2> QED BY ZenonT(30), <1>8, <1>9, <2>1 DEF InFlight
<1>10. CASE live' = live
  <2>1. AuditHistory' = AuditHistory BY ZenonT(30), <1>2, <1>10, HistoryStays
  <2>2. Exact(live', Records(live')) BY ZenonT(30), <1>4, <1>10 DEF JournalOf
  <2>3. unflushed' \in {<<>>, <<Tail2(r)>>, <<Head1(r), Tail2(r)>>} BY ZenonT(30), <1>3, <1>7
  <2>4. InFlight' BY ZenonT(30), <1>9, <2>1, <2>2, <2>3
  <2> QED BY ZenonT(30), <1>2, <1>5, <1>6, <2>4, MemoryParts
<1>11. CASE live' # live
  <2>1. live' = live \o Partial(AuditBatch, k) BY ZenonT(30), <1>3, <1>11
  <2>2. \/ k = 0 /\ live' = live
        \/ /\ k = 1 /\ TrailKept
           /\ Len(live') = 2 * Len(Records(live')) + 1 /\ live'[Len(live')] = Head1(r)
        \/ k = 2 /\ TrailGrows /\ Exact(live', Records(live'))
    BY SMTT(30), <1>2, <1>6, <2>1, JournalAppended DEF r
  <2>3. CASE /\ k = 1 /\ TrailKept
             /\ Len(live') = 2 * Len(Records(live')) + 1 /\ live'[Len(live')] = Head1(r)
    <3>1. unflushed' \in {<<>>, <<Tail2(r)>>} BY SMTT(30), <1>3, <1>7, <2>3
    <3>2. InFlight' BY ZenonT(30), <1>9, <2>3, <3>1 DEF TrailKept
    <3> QED BY ZenonT(30), <1>2, <1>5, <1>6, <3>2, MemoryParts
  <2>4. CASE k = 2 /\ TrailGrows /\ Exact(live', Records(live'))
    <3>1. unflushed' = <<>> BY SMTT(30), <1>3, <1>7, <2>4
    <3>2. Settled' BY ZenonT(30), <1>2, <2>4, <3>1 DEF Settled, TrailGrows
    <3> QED BY ZenonT(30), <1>2, <1>5, <3>2, MemoryParts
  <2> QED BY ZenonT(30), <1>11, <2>2, <2>3, <2>4
<1> QED BY ZenonT(30), <1>10, <1>11

\* Every step keeps memory, the file and the ledgers together.
LEMMA MemoryStep ==
    ASSUME DeploymentSane, DeploymentInv, Next
    PROVE  MemoryInv'
<1>1. TypeOK /\ MemoryInv BY ZenonT(30) DEF DeploymentInv
<1>2. CASE Start BY ZenonT(30), <1>2, MemoryStarted
<1>3. CASE StartRefused \/ Close \/ Crash
  <2>1. ~Up' BY ZenonT(30), <1>3 DEF StartRefused, Close, Crash, Forget, Up
  <2> QED BY ZenonT(30), <2>1, MemoryParts
<1>4. ASSUME NEW t \in Tenants, Decide(t) \/ AddTenant(t) PROVE MemoryInv'
  BY ZenonT(30), <1>1, <1>4, MemoryDecided, MemoryProvisioned
<1>5. CASE AppendAudit BY ZenonT(30), <1>5, MemoryAppended
<1>6. CASE SealSegment BY ZenonT(30), <1>6, MemorySealed
<1>7. CASE AppendAuditFails BY ZenonT(30), <1>7, MemoryFailed
<1>8. CASE \/ PersistRules \/ AppendGovernance \/ SaveSnapshot \/ OpenFresh \/ SealRefused
           \/ AppendGovernanceFails \/ SaveSnapshotFails \/ OpenFreshFails
  <2>1. /\ pc \in {"idle", "governance", "snapshot", "rotate", "fresh"}
        /\ pc' \in {"idle", "governance", "snapshot", "rotate", "poisoned"}
        /\ UNCHANGED <<live, segments, trail, ledger, nextSeq, unflushed>>
    BY ZenonT(30), <1>8 DEF PersistRules, AppendGovernance, SaveSnapshot, OpenFresh, SealRefused,
                AppendGovernanceFails, SaveSnapshotFails, OpenFreshFails, files, memory, handle
  <2>2. Up /\ pc \notin {"append", "poisoned"} /\ pc' \notin {"append", "fresh"}
    BY ZenonT(30), <2>1 DEF Up
  <2> QED BY ZenonT(30), <1>1, <2>1, <2>2, MemoryCarried
<1> QED BY ZenonT(30), <1>2, <1>3, <1>4, <1>5, <1>6, <1>7, <1>8 DEF Next, Persist, Fault

-----------------------------------------------------------------------------
(* The theorems *)

\* The invariant holds of an empty root.
LEMMA DeploymentInit == ASSUME DeploymentSane, Init PROVE DeploymentInv
<1>1. /\ live = <<>> /\ segments = <<>> /\ snapshot = NoSnapshot /\ ~Up /\ acked = <<>>
  BY ZenonT(30) DEF Init, Up
<1>2. AuditHistory = <<>>
  <2>1. <<>> \in Seq(Seq(Frags(Decision))) /\ <<>> \in Seq(Frags(Decision)) OBVIOUS
  <2>2. AuditHistory = FlattenSeq(SealedOf(<<>>)) \o Records(<<>>)
    BY ZenonT(30), <1>1, <2>1, HistoryIs, HistoryJoins
  <2> QED BY <2>2, NoLines
<1>3. TypeOK BY SMTT(30) DEF Init, TypeOK, Up
<1>4. FilesInv
  <2>1. Sealed = <<>> /\ FlattenSeq(<<>>) = <<>> BY ZenonT(30), <1>1, NoLines, HistoryIs
  <2>2. Records(<<>>) = <<>> /\ Exact(<<>>, <<>>) BY ZenonT(30), NoLines
  <2>3. <<>> \in Seq(Frags(Decision)) /\ <<>> \in Seq(Decision) OBVIOUS
  <2>4. ~Stray(<<>>) BY ZenonT(30), <2>2, <2>3, WholeFile
  <2> QED BY SMTT(30), <1>1, <2>1, <2>2, <2>4 DEF FilesInv, Exact, Init
<1>5. BookInv
  <2>1. \A t : Cost(<<>>, t) = 0 BY ZenonT(30), NoCost
  <2>2. IsPrefix(<<>>, <<>>) BY ZenonT(30), Empties, PrefixFacts
  <2> QED BY SMTT(30), <1>1, <1>2, <2>1, <2>2 DEF BookInv, DenseFrom, DeploymentSane
<1>6. MemoryInv BY ZenonT(30), <1>1 DEF MemoryInv
<1> QED BY ZenonT(30), <1>3, <1>4, <1>5, <1>6 DEF DeploymentInv

\* The invariant is inductive.
LEMMA DeploymentStep ==
    ASSUME DeploymentSane, DeploymentInv, [Next]_vars
    PROVE  DeploymentInv'
<1>1. CASE Next BY ZenonT(30), <1>1, TypeStep, FilesStep, BookStep, MemoryStep DEF DeploymentInv
<1>2. CASE UNCHANGED vars
  <2>1. /\ UNCHANGED <<live, segments, governance, snapshot, pc, trail, ledger, changes>>
        /\ UNCHANGED <<nextSeq, nextOrd, unflushed, unflushedGov, acked, refusal, crashes, faults>>
    BY ZenonT(30), <1>2 DEF vars, files, memory, handle, history
  <2>2. AuditHistory' = AuditHistory /\ Sealed' = Sealed /\ Up' = Up
    BY ZenonT(30), <2>1 DEF AuditHistory, AuditFiles, Sealed, Up
  <2>3. TypeOK' BY ZenonT(30), <2>1, <2>2 DEF DeploymentInv, TypeOK
  <2>4. FilesInv' BY ZenonT(30), <2>1, <2>2 DEF DeploymentInv, FilesInv
  <2>5. BookInv' BY ZenonT(30), <2>1, <2>2 DEF DeploymentInv, BookInv
  <2>6. MemoryInv' BY ZenonT(30), <2>1, <2>2 DEF DeploymentInv, MemoryInv, InFlight
  <2> QED BY ZenonT(30), <2>3, <2>4, <2>5, <2>6 DEF DeploymentInv
<1> QED BY ZenonT(30), <1>1, <1>2

\* What an auditor reads off the bytes is what the store reads back.
LEMMA AuditorReads ==
    ASSUME DeploymentInv
    PROVE  ReadableTrail = AuditHistory
\* What an auditor reads off framed bytes is their records.
<1>ReadBack. ASSUME NEW segs \in Seq(Seq(Frags(Decision))), NEW file \in Seq(Frags(Decision)), Whole(segs),
           Framed(file, Records(file)), segments = segs, live = file, DenseFrom(AuditHistory, 0)
    PROVE  ReadableTrail = AuditHistory /\ AuditHistory \in Seq(Decision)
  <2> USE <1>ReadBack
  <2> DEFINE bytes == AuditBytes
             H == AuditHistory
             most == Len(bytes) \div 2
             OneLine(j) == /\ bytes[2 * j - 1] = Head1(bytes[2 * j].rec)
                           /\ bytes[2 * j] = Tail2(bytes[2 * j].rec)
                           /\ bytes[2 * j].rec.seq = j - 1
             Good(n) == (n < most => ~OneLine(n + 1)) /\ \A j \in 1 .. n : OneLine(j)
             n == CHOOSE n \in 0 .. most : Good(n)
  <2>1. /\ H = FlattenSeq(SealedOf(segs)) \o Records(file) /\ H \in Seq(Decision)
        /\ bytes = FlattenSeq(segs) \o file /\ FlattenSeq(segs) \in Seq(Frags(Decision))
        /\ FlattenSeq(SealedOf(segs)) \in Seq(Decision) /\ Records(file) \in Seq(Decision)
    <3>1. H = HistoryOf(segs, file) BY ZenonT(30), HistoryIs
    <3>2. bytes = FlattenSeq(Append(segs, file)) BY ZenonT(30) DEF AuditBytes, AuditFiles
    <3> QED BY ZenonT(30), <3>1, <3>2, HistoryJoins
  <2>2. bytes \in Seq(Frags(Decision)) /\ Framed(bytes, H)
    <3>1. Exact(FlattenSeq(segs), FlattenSeq(SealedOf(segs))) BY ZenonT(30) DEF Whole
    <3> QED BY ZenonT(30), <2>1, <3>1, Glue
  <2>3. ReadableTrail = [j \in 1 .. n |-> bytes[2 * j].rec] BY ZenonT(30) DEF ReadableTrail
  <2>4. Len(H) \in Nat /\ most = Len(H)
    <3>1. Len(H) \in Nat BY SMTT(30), <2>1
    <3>2. Len(bytes) \in {2 * Len(H), 2 * Len(H) + 1} BY ZenonT(30), <2>2 DEF Framed
    <3> HIDE DEF bytes, H
    <3> QED BY ZenonT(30), <3>1, <3>2, Evens
  <2> HIDE DEF bytes, H, most
  <2>5. ASSUME NEW j \in 1 .. most PROVE OneLine(j) /\ bytes[2 * j].rec = H[j]
    <3>1. /\ j \in 1 .. Len(H) /\ j \in DOMAIN H /\ H[j] \in Decision
      BY SMTT(30), <2>1, <2>4
    <3>2. bytes[2 * j - 1] = Head1(H[j]) /\ bytes[2 * j] = Tail2(H[j])
      BY ZenonT(30), <2>2, <3>1 DEF Framed
    <3>3. bytes[2 * j].rec = H[j]
      <4>1. Tail2(H[j]).rec = H[j] BY ZenonT(30) DEF Tail2
      <4> QED BY ZenonT(30), <3>2, <4>1
    <3>4. H[j].seq = j - 1 BY SMTT(30), <3>1 DEF DenseFrom, H
    <3> QED BY ZenonT(30), <3>2, <3>3, <3>4
  <2>6. Good(most) /\ most \in 0 .. most
    <3>1. ~(most < most) /\ most \in 0 .. most BY <2>4
    <3>2. \A j \in 1 .. most : OneLine(j) BY ZenonT(30), <2>5
    <3> QED BY ZenonT(30), <3>1, <3>2
  <2>7. ASSUME NEW m \in 0 .. most, Good(m) PROVE m = most
    <3>1. CASE m < most
      <4>1. m + 1 \in 1 .. most BY <2>4, <3>1
      <4> QED BY ZenonT(30), <2>5, <2>7, <3>1, <4>1
    <3> QED BY SMTT(30), <2>4, <3>1
  <2> HIDE DEF Good
  <2>8. n = most BY ZenonT(30), <2>6, <2>7
  <2>9. [j \in 1 .. n |-> bytes[2 * j].rec] = [j \in 1 .. Len(H) |-> H[j]]
    BY ZenonT(30), <2>4, <2>5, <2>8
  <2>10. H = [j \in 1 .. Len(H) |-> H[j]] BY ZenonT(30), <2>1, Lengths
  <2> QED BY ZenonT(30), <2>1, <2>3, <2>9, <2>10 DEF H
<1>1. segments \in Seq(Seq(Frags(Decision))) /\ live \in Seq(Frags(Decision))
  BY ZenonT(30) DEF DeploymentInv, TypeOK
<1>2. Whole(segments) /\ Framed(live, Records(live)) /\ DenseFrom(AuditHistory, 0)
  BY ZenonT(30), FilesWhole DEF DeploymentInv, FilesInv, BookInv
<1> QED BY ZenonT(30), <1>1, <1>2, <1>ReadBack

\* The reasons a start can have.
LEMMA StartCauses ==
    ASSUME DeploymentSane, DeploymentInv
    PROVE  StartRefusal \in {"none", "torn_tail", "tenant_unknown", "corrupt"}
<1> DEFINE H == AuditHistory
           s == snapshot
<1>1. TypeOK /\ FilesInv /\ BookInv BY ZenonT(30) DEF DeploymentInv
<1>2. s = NoSnapshot => H = <<>>
  <2> SUFFICES ASSUME s = NoSnapshot PROVE H = <<>> OBVIOUS
  <2>1. segments = <<>> /\ live = <<>> BY ZenonT(30), <1>1 DEF FilesInv
  <2>2. H = FlattenSeq(SealedOf(<<>>)) \o Records(<<>>)
    BY ZenonT(30), <1>1, <2>1, HistoryIs, HistoryJoins DEF TypeOK
  <2> QED BY <2>2, NoLines
<1>3. ASSUME s # NoSnapshot PROVE ~(Len(H) < s.watermark)
  <2>1. H \in Seq(Decision) /\ s.watermark \in Nat /\ s.watermark <= Len(H)
    BY ZenonT(30), <1>1, <1>3, HistoryTyped DEF BookInv, TypeOK
  <2> QED BY <2>1
<1>4. ASSUME s # NoSnapshot,
             \A j \in PastWatermark(H, s) : H[j].cost = 1 => H[j].tenant \in DOMAIN s.ledger
      PROVE  ~(\E t \in DOMAIN s.ledger : RestoredLedger(H, s)[t] > Limit)
  <2>1. H \in Seq(Decision) /\ IsLedger(s.ledger) /\ BookOf(H, acked, s)
    BY ZenonT(30), <1>1, <1>4, HistoryTyped, BookIs DEF TypeOK
  <2>2. Books(H, RestoredLedger(H, s))
    <3> HIDE DEF H, s
    <3> QED BY ZenonT(30), <1>4, <2>1, BooksRestored
  <2>3. DOMAIN RestoredLedger(H, s) = DOMAIN s.ledger /\ DOMAIN s.ledger \subseteq Tenants
    BY ZenonT(30), <2>1 DEF RestoredLedger, IsLedger
  <2>4. ASSUME NEW t \in DOMAIN s.ledger PROVE ~(RestoredLedger(H, s)[t] > Limit)
    <3>1. RestoredLedger(H, s)[t] = Cost(H, t) /\ Cost(H, t) <= Limit
      BY ZenonT(30), <2>2, <2>3, <2>4 DEF Books
    <3>2. Cost(H, t) \in Nat /\ t \in Tenants
      <4>1. [seq |-> 0, tenant |-> t, cost |-> 0] \in Decision BY ZenonT(30), <2>3 DEF Decision
      <4> QED BY ZenonT(30), <2>1, <2>3, <4>1, CostGrows
    <3> QED BY SMTT(30), <3>1, <3>2 DEF DeploymentSane
  <2> QED BY ZenonT(30), <2>4
<1> QED BY ZenonT(30), <1>2, <1>3, <1>4 DEF StartRefusal

\* The invariant holds of every reachable state.
THEOREM DeploymentSafe ==
    ASSUME DeploymentSane
    PROVE  Spec => []DeploymentInv
<1>1. Init => DeploymentInv BY ZenonT(30), DeploymentInit
<1>2. DeploymentInv /\ [Next]_vars => DeploymentInv' BY ZenonT(30), DeploymentStep
<1> QED BY <1>1, <1>2, PTL DEF Spec

\* Every decision a client was told about stays readable in the journal files.
THEOREM AckedReadable ==
    ASSUME DeploymentSane
    PROVE  Spec => []AckedStaysReadable
<1>1. DeploymentInv => AckedStaysReadable
  BY ZenonT(30), AuditorReads DEF DeploymentInv, BookInv, AckedStaysReadable
<1> QED BY <1>1, DeploymentSafe, PTL

\* The ledgers of a running deployment are what its trail charged.
THEOREM LedgersMatch ==
    ASSUME DeploymentSane
    PROVE  Spec => []LedgerMatchesTrail
<1>1. ASSUME DeploymentInv, Up PROVE IsPrefix(acked, trail)
  <2>1. TypeOK /\ BookInv /\ MemoryInv BY ZenonT(30), <1>1 DEF DeploymentInv
  <2>2. /\ trail \in Seq(Decision) /\ acked \in Seq(Decision) /\ AuditHistory \in Seq(Decision)
        /\ IsPrefix(acked, AuditHistory)
    BY ZenonT(30), <2>1, HistoryTyped DEF TypeOK, BookInv
  <2>3. trail = AuditHistory \/ (trail # <<>> /\ AuditHistory = Front(trail))
    BY ZenonT(30), <1>1, <2>1 DEF MemoryInv, InFlight
  <2>4. CASE trail = AuditHistory BY ZenonT(30), <2>2, <2>4
  <2>5. CASE trail # <<>> /\ AuditHistory = Front(trail)
    <3>1. trail[Len(trail)] \in Decision /\ trail = Append(AuditHistory, trail[Len(trail)])
      BY ZenonT(30), <2>2, <2>5, Fronts
    <3>2. IsPrefix(acked, Append(AuditHistory, trail[Len(trail)]))
      BY ZenonT(30), <2>2, <3>1, PrefixFacts
    <3> QED BY ZenonT(30), <3>1, <3>2
  <2> QED BY ZenonT(30), <2>3, <2>4, <2>5
<1>2. ASSUME DeploymentInv, Up, NEW t \in Tenants
      PROVE  IF t \in DOMAIN ledger
             THEN ledger[t] = Cost(trail, t) /\ ledger[t] <= Limit
             ELSE Cost(trail, t) = 0
  BY ZenonT(30), <1>2 DEF DeploymentInv, MemoryInv
<1>3. DeploymentInv => LedgerMatchesTrail BY ZenonT(30), <1>1, <1>2 DEF LedgerMatchesTrail
<1> QED BY <1>3, DeploymentSafe, PTL

\* A start is never refused for a lost checkpoint, a journal shorter than its
\* checkpoint or an overcharged tenant.
THEOREM RefusalsKnown ==
    ASSUME DeploymentSane
    PROVE  Spec => []RefusalKnown
<1>1. Init => RefusalKnown BY ZenonT(30) DEF Init, RefusalKnown
<1>2. ASSUME DeploymentInv, RefusalKnown, [Next]_vars PROVE RefusalKnown'
  <2>1. \/ refusal' = refusal \/ refusal' = "none" \/ refusal' = StartRefusal
    BY ZenonT(30), <1>2 DEF Next, Start, StartRefused, Decide, AddTenant, PersistRules, Persist,
       AppendAudit, AppendGovernance, SaveSnapshot, SealSegment, OpenFresh, SealRefused,
       Fault, AppendAuditFails, AppendGovernanceFails, SaveSnapshotFails, OpenFreshFails,
       Close, Crash, history, vars
  <2>2. StartRefusal \in {"none", "torn_tail", "tenant_unknown", "corrupt"}
    BY ZenonT(30), <1>2, StartCauses
  <2> QED BY ZenonT(30), <1>2, <2>1, <2>2 DEF RefusalKnown
<1> QED BY <1>1, <1>2, DeploymentSafe, PTL DEF Spec

\* The abstract ledger sums the same charges.
LEMMA SpentIs ==
    ASSUME NEW R \in Seq(Decision), NEW t
    PROVE  Abstract!Spent(R, t) = Cost(R, t)
<1> DEFINE n == Len(R)
           Is(u) == u = [k \in 0 .. n |->
                            IF k = 0 THEN 0
                            ELSE u[k - 1] + (IF R[k].tenant = t THEN R[k].cost ELSE 0)]
           u == CHOOSE u : Is(u)
<1>1. n \in Nat /\ DOMAIN R = 1 .. n OBVIOUS
<1>2. PICK f \in [0 .. n -> Nat] : Totals(R, DOMAIN R, t, n, f) BY ZenonT(30), CostTotals
<1>3. \A k \in 1 .. n : Charge(R, DOMAIN R, t, k) = IF R[k].tenant = t THEN R[k].cost ELSE 0
  BY ZenonT(30), <1>1 DEF Charge
<1>4. Is(f)
  <2>1. ASSUME NEW k \in 0 .. n
        PROVE  f[k] = IF k = 0 THEN 0 ELSE f[k - 1] + (IF R[k].tenant = t THEN R[k].cost ELSE 0)
    <3>1. CASE k = 0 BY ZenonT(30), <1>2, <3>1 DEF Totals
    <3>2. CASE k # 0
      <4>1. k \in 1 .. n BY <1>1, <3>2
      <4> QED BY ZenonT(30), <1>2, <1>3, <3>2, <4>1 DEF Totals
    <3> QED BY ZenonT(30), <3>1, <3>2
  <2> QED BY ZenonT(30), <1>2, <2>1
<1>5. Is(u) BY ZenonT(30), <1>4
<1>6. Abstract!Spent(R, t) = u[n] BY ZenonT(30) DEF Abstract!Spent
<1> HIDE DEF u
<1>7. Totals(R, DOMAIN R, t, n, u)

  <2>1. \A k \in 0 .. n : u[k] = IF k = 0 THEN 0 ELSE u[k - 1] + (IF R[k].tenant = t THEN R[k].cost ELSE 0)
    BY ZenonT(30), <1>5
  <2>2. 0 \in 0 .. n /\ \A k \in 1 .. n : k \in 0 .. n /\ k # 0 BY <1>1
  <2> QED BY ZenonT(30), <1>3, <2>1, <2>2 DEF Totals
<1> QED BY ZenonT(30), <1>6, <1>7, CostTotals DEF Cost

\* A step of the deployment is a step of the abstract ledger or leaves it alone.
LEMMA LedgerStep ==
    ASSUME DeploymentSane, DeploymentInv, [Next]_vars, ReadableTrail = AuditHistory, ReadableTrail' = AuditHistory'
    PROVE  [Abstract!Next]_<<ReadableTrail, acked>>
<1> DEFINE H == AuditHistory
           G == AuditHistory'
<1>0. \A R \in Seq(Decision), t \in Tenants : Abstract!Spent(R, t) = Cost(R, t) BY ZenonT(30), SpentIs
<1>1. TypeOK /\ MemoryInv BY ZenonT(30) DEF DeploymentInv
<1>2. CASE UNCHANGED vars
  <2>1. UNCHANGED <<live, segments, acked>> BY ZenonT(30), <1>2 DEF vars, files, history
  <2> QED BY ZenonT(30), <2>1, HistoryStays
<1>3. CASE Next /\ TrailKept
  <2>1. G = H BY ZenonT(30), <1>3 DEF TrailKept
  <2>2. acked' = acked \/ acked' = H BY ZenonT(30), <1>1, <1>3, AckedStep DEF MemoryInv, Up
  <2> QED BY ZenonT(30), <2>1, <2>2 DEF Abstract!Next, Abstract!Answer
<1>4. CASE Next /\ ~TrailKept
  <2> DEFINE r == trail[Len(trail)]
  <2>1. /\ TrailGrows /\ Up /\ r \in Decision /\ trail = Append(H, r)
        /\ Len(trail) = Len(H) + 1 /\ trail \in Seq(Decision)
    BY ZenonT(30), <1>4, Grows
  <2>2. G = trail /\ UNCHANGED acked BY ZenonT(30), <2>1 DEF TrailGrows
  <2>3. H \in Seq(Decision) /\ Len(H) \in Nat BY SMTT(30), <1>1, HistoryTyped
  <2>4. r.seq = Len(H)
    <3>1. DenseFrom(trail, 0) BY ZenonT(30), <1>1, <2>1 DEF MemoryInv
    <3>2. Len(trail) \in DOMAIN trail BY SMTT(30), <2>1, <2>3
    <3> QED BY SMTT(30), <2>1, <2>3, <3>1, <3>2 DEF DenseFrom
  <2>5. r.tenant \in Tenants /\ r.cost \in {0, 1} BY ZenonT(30), <2>1 DEF Decision
  <2>6. r = [seq |-> Len(H), tenant |-> r.tenant, cost |-> r.cost]
    BY ZenonT(30), <2>1, <2>4 DEF Decision
  <2>7. Cost(trail, r.tenant) <= Limit BY ZenonT(30), <1>1, <2>1, <2>5 DEF MemoryInv
  <2> HIDE DEF r
  <2>8. Cost(H, r.tenant) \in Nat BY ZenonT(30), <2>1, <2>3, CostGrows
  <2>9. r.cost = 1 => Abstract!Spent(H, r.tenant) < Limit
    <3>1. r.cost = 1 => Cost(trail, r.tenant) = Cost(H, r.tenant) + 1
      BY ZenonT(30), <2>1, <2>3, CostGrows
    <3>2. r.cost = 1 => Cost(H, r.tenant) < Limit BY SMTT(30), <2>7, <2>8, <3>1 DEF DeploymentSane
    <3>3. Abstract!Spent(H, r.tenant) = Cost(H, r.tenant) BY ZenonT(30), <1>0, <2>3, <2>5
    <3> QED BY ZenonT(30), <3>2, <3>3
  <2>10. G = Append(H, [seq |-> Len(H), tenant |-> r.tenant, cost |-> r.cost])
    BY ZenonT(30), <2>1, <2>2, <2>6
  <2> HIDE DEF H, G
  <2>11. Abstract!Record BY ZenonT(30), <2>2, <2>5, <2>9, <2>10 DEF Abstract!Record, H, G
  <2> QED BY ZenonT(30), <2>11 DEF Abstract!Next
<1> QED BY ZenonT(30), <1>2, <1>3, <1>4

\* The deployment implements the abstract ledger.
THEOREM ImplementsAuditLedger ==
    ASSUME DeploymentSane
    PROVE  Spec => RefinesAuditLedger
<1>1. Init => Abstract!Init
  <2> SUFFICES ASSUME Init PROVE Abstract!Init OBVIOUS
  <2>1. DeploymentInv BY ZenonT(30), DeploymentInit
  <2>2. ReadableTrail = AuditHistory BY ZenonT(30), <2>1, AuditorReads
  <2>3. segments = <<>> /\ live = <<>> /\ acked = <<>> BY ZenonT(30) DEF Init
  <2>4. AuditHistory = FlattenSeq(SealedOf(<<>>)) \o Records(<<>>)
    BY ZenonT(30), <2>1, <2>3, HistoryIs, HistoryJoins DEF DeploymentInv, TypeOK
  <2> QED BY <2>2, <2>3, <2>4, NoLines DEF Abstract!Init
<1>2. DeploymentInv => ReadableTrail = AuditHistory BY ZenonT(30), AuditorReads
<1>3. ASSUME DeploymentInv, [Next]_vars, ReadableTrail = AuditHistory, (ReadableTrail = AuditHistory)'
      PROVE  [Abstract!Next]_<<ReadableTrail, acked>>
  BY ZenonT(30), <1>3, LedgerStep
<1> QED BY <1>1, <1>2, <1>3, DeploymentSafe, PTL DEF Spec, RefinesAuditLedger, Abstract!Spec
=============================================================================

