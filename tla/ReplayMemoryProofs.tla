------------------------- MODULE ReplayMemoryProofs -------------------------
(***************************************************************************)
(* Proofs about ReplayMemory for any tenants, ids and capacity.            *)
(***************************************************************************)
EXTENDS ReplayMemory, FiniteSetTheorems, SequenceTheorems, TLAPS

NoRepeats(q) == \A i, j \in DOMAIN q : q[i] = q[j] => i = j

\* The size of an initial segment of the numbers.
LEMMA IntervalSize ==
  ASSUME NEW n \in Nat
  PROVE  IsFiniteSet(1 .. n) /\ Cardinality(1 .. n) = n
<1>1. n \in Int /\ 1 \in Int
  OBVIOUS
<1>2. IsFiniteSet(1 .. n) /\ Cardinality(1 .. n) = IF 1 > n THEN 0 ELSE n - 1 + 1
  BY ZenonT(30), <1>1, FS_Interval, Zenon
<1> QED
  BY <1>2

\* The bound of the memory is a positive number.
LEMMA MemoryPositive == Memory \in Nat /\ Memory >= 1
<1>1. IsFiniteSet(FirstTenants)
  BY ZenonT(30), MemoryAssumption, FS_Subset
<1>2. Cardinality(FirstTenants) \in Nat
  BY ZenonT(30), <1>1, FS_CardinalityType
<1> QED
  BY <1>2, MemoryAssumption DEF Memory, Larger, MIN_REPLAY_MEMORY_PER_TENANT

\* So is the share of a tenant, and with one tenant it is the whole memory.
LEMMA SharePositive ==
  ASSUME tenants \subseteq Tenants
  PROVE  /\ Share \in Nat /\ Share >= 1
         /\ Cardinality(tenants) = 1 => Share = Memory
<1>1. Cardinality(tenants) \in Nat
  BY ZenonT(30), MemoryAssumption, FS_Subset, FS_CardinalityType
<1>2. Larger(Cardinality(tenants), 1) \in Nat \ {0}
  BY <1>1 DEF Larger
<1>3. Memory \div Larger(Cardinality(tenants), 1) \in Nat
  BY <1>2, MemoryPositive, SMT
<1>4. Share \in Nat /\ Share >= 1
  BY <1>3 DEF Share, Larger
<1>5. ASSUME Cardinality(tenants) = 1
      PROVE  Share = Memory
  <2>1. Larger(Cardinality(tenants), 1) = 1
    BY ZenonT(30), <1>5 DEF Larger
  <2>2. Memory \div 1 = Memory
    BY MemoryPositive
  <2> QED
    BY ZenonT(30), <2>1, <2>2, MemoryPositive DEF Share, Larger
<1> QED
  BY ZenonT(30), <1>4, <1>5

\* Removing the first entry equal to an id from a queue without repeats
\* removes that id and nothing else, and puts nothing further from the end.
LEMMA WithoutIdLemma ==
  ASSUME NEW q \in Seq(Ids), NoRepeats(q), NEW id
  PROVE  /\ WithoutId(q, id) \in Seq(Ids)
         /\ NoRepeats(WithoutId(q, id))
         /\ \A x : Holds(WithoutId(q, id), x)
                      <=> x # id /\ Holds(q, x)
         /\ Len(WithoutId(q, id)) <= Len(q)
         /\ \A y \in DOMAIN WithoutId(q, id) : \E x \in DOMAIN q :
               WithoutId(q, id)[y] = q[x] /\ Len(WithoutId(q, id)) - y <= Len(q) - x
<1>1. CASE Holds(q, id)
  <2> DEFINE p == CHOOSE i \in DOMAIN q : q[i] = id /\ \A j \in 1 .. i - 1 : q[j] # id
             w == SubSeq(q, 1, p - 1) \o SubSeq(q, p + 1, Len(q))
  <2>1. \E i \in DOMAIN q : q[i] = id /\ \A j \in 1 .. i - 1 : q[j] # id
    <3>1. PICK i \in DOMAIN q : q[i] = id
      BY ZenonT(30), <1>1 DEF Holds
    <3>2. \A j \in 1 .. i - 1 : q[j] # id
      BY <3>1 DEF NoRepeats
    <3> QED
      BY ZenonT(30), <3>1, <3>2
  <2>2. p \in DOMAIN q /\ q[p] = id
    BY ZenonT(30), <2>1
  <2>3. WithoutId(q, id) = w
    BY ZenonT(30), <1>1 DEF WithoutId
  <2> HIDE DEF p
  <2>4. /\ w \in Seq(Ids) /\ Len(w) = Len(q) - 1
        /\ \A i \in 1 .. Len(w) : w[i] = IF i < p THEN q[i] ELSE q[i + 1]
    <3> DEFINE l == SubSeq(q, 1, p - 1)
               r == SubSeq(q, p + 1, Len(q))
    <3>0. p \in Nat /\ Len(q) \in Nat /\ 1 <= p /\ p <= Len(q)
      BY <2>2
    <3>1. l \in Seq(Ids) /\ Len(l) = p - 1 /\ \A i \in 1 .. p - 1 : l[i] = q[i]
      BY <2>2
    <3>2. /\ r \in Seq(Ids) /\ Len(r) = Len(q) - p
          /\ \A i \in 1 .. Len(q) - p : r[i] = q[p + i]
      BY <2>2
    <3>3. w = l \o r
      OBVIOUS
    <3> HIDE DEF l, r, w
    <3>4. /\ w \in Seq(Ids) /\ Len(w) = Len(l) + Len(r)
          /\ \A i \in 1 .. Len(l) + Len(r) :
                w[i] = IF i <= Len(l) THEN l[i] ELSE r[i - Len(l)]
      BY ZenonT(30), <3>1, <3>2, <3>3, ConcatProperties
    <3>5. ASSUME NEW i \in 1 .. Len(w)
          PROVE  w[i] = IF i < p THEN q[i] ELSE q[i + 1]
      <4>1. CASE i < p
        <5>1. /\ i \in 1 .. p - 1 /\ i <= Len(l)
              /\ i \in 1 .. Len(l) + Len(r)
          BY SMTT(30), <4>1, <3>0, <3>1, <3>2, <3>4
        <5>2. w[i] = l[i]
          BY ZenonT(30), <5>1, <3>4
        <5>3. l[i] = q[i]
          BY ZenonT(30), <5>1, <3>1
        <5> QED
          BY ZenonT(30), <4>1, <5>2, <5>3
      <4>2. CASE ~ (i < p)
        <5>1. /\ i - (p - 1) \in 1 .. Len(q) - p
              /\ p + (i - (p - 1)) = i + 1
              /\ ~ (i <= p - 1)
          BY <4>2, <3>0, <3>1, <3>2, <3>4
        <5> QED
          BY ZenonT(30), <4>2, <5>1, <3>0, <3>1, <3>2, <3>4
      <4> QED
        BY ZenonT(30), <4>1, <4>2
    <3> QED
      BY <3>0, <3>1, <3>2, <3>4, <3>5
  <2> HIDE DEF w
  <2>5. NoRepeats(w)
    <3> SUFFICES ASSUME NEW i \in 1 .. Len(w), NEW j \in 1 .. Len(w), w[i] = w[j], i < j
                 PROVE  FALSE
      BY SMTT(30), <2>4 DEF NoRepeats
    <3> DEFINE from(n) == IF n < p THEN n ELSE n + 1
    <3>1. /\ from(i) \in DOMAIN q /\ from(j) \in DOMAIN q /\ from(i) # from(j)
          /\ q[from(i)] = q[from(j)]
      BY <2>2, <2>4
    <3> QED
      BY ZenonT(30), <3>1 DEF NoRepeats
  <2>6. ASSUME NEW x, NEW i \in DOMAIN w, w[i] = x
        PROVE  x # id /\ Holds(q, x)
    BY <2>2, <2>4, <2>6 DEF NoRepeats, Holds
  <2>7. ASSUME NEW x, x # id, NEW i \in DOMAIN q, q[i] = x
        PROVE  Holds(w, x)
    <3>1. i # p
      BY ZenonT(30), <2>2, <2>7
    <3>2. CASE i < p
      BY <3>2, <2>2, <2>4, <2>7 DEF Holds
    <3>3. CASE i > p
      <4>1. i - 1 \in 1 .. Len(w) /\ w[i - 1] = q[i]
        BY <3>3, <2>2, <2>4
      <4> QED
        BY <4>1, <2>4, <2>7 DEF Holds
    <3> QED
      BY <3>1, <3>2, <3>3, <2>2
  <2>8. \A x : Holds(w, x) <=> x # id /\ Holds(q, x)
    BY ZenonT(30), <2>6, <2>7 DEF Holds
  <2>9. ASSUME NEW y \in DOMAIN w
        PROVE  \E x \in DOMAIN q : w[y] = q[x] /\ Len(w) - y <= Len(q) - x
    <3> DEFINE x == IF y < p THEN y ELSE y + 1
    <3>1. x \in DOMAIN q /\ w[y] = q[x] /\ Len(w) - y <= Len(q) - x
      BY <2>2, <2>4
    <3> QED
      BY ZenonT(30), <3>1
  <2> QED
    BY <2>3, <2>4, <2>5, <2>8, <2>9
<1>2. CASE ~ Holds(q, id)
  BY <1>2 DEF WithoutId
<1> QED
  BY ZenonT(30), <1>1, <1>2

Shorter(m, n) == IF m < n THEN m ELSE n

\* The inductive invariant: beside the agreement of the structures, where the
\* keys of the common queue come from, how many there are, and that with one
\* tenant the two queues run in lockstep.
Lockstep ==
    \A t \in Tenants : tenants = {t} =>
        /\ Len(queue[t]) = Len(order)
        /\ \A i \in DOMAIN order : order[i] = <<t, queue[t][i]>>

IInv ==
    /\ TypeOK
    /\ StructuresAgree
    /\ Len(order) = Shorter(Len(journal), Memory)
    /\ \A i \in DOMAIN order : order[i][1] \in tenants
    /\ Lockstep

\* What the tenant's own bound keeps and lets go of: a suffix and a prefix.
LEMMA OwnLemma ==
  ASSUME TypeOK, StructuresAgree, NEW k \in Keys, k \notin decided
  PROVE  /\ Own(k) \in Seq(Ids) /\ NoRepeats(Own(k))
         /\ \A x : Holds(Own(k), x)
                <=> /\ <<k[1], x>> \notin Aged(k)
                    /\ x = k[2] \/ Holds(queue[k[1]], x)
         /\ Len(Own(k)) <= Share
         /\ Len(queue[k[1]]) < Share =>
               Own(k) = Append(queue[k[1]], k[2]) /\ Aged(k) = {}
         /\ Len(queue[k[1]]) = Share =>
               /\ Aged(k) = {<<k[1], Append(queue[k[1]], k[2])[1]>>}
               /\ Len(Own(k)) = Share
               /\ \A i \in 1 .. Share : Own(k)[i] = Append(queue[k[1]], k[2])[i + 1]
<1> DEFINE q == queue[k[1]]
           P == Append(q, k[2])
           n == Len(q)
           K == Kept(k)
           D == Len(P) - K
<1>0. k[1] \in Tenants /\ k[2] \in Ids /\ k = <<k[1], k[2]>>
  BY DEF Keys
<1>1. q \in Seq(Ids) /\ n \in Nat /\ NoRepeats(q)
  BY <1>0 DEF TypeOK, StructuresAgree, NoRepeats
<1>2. \A i \in DOMAIN q : q[i] # k[2]
  BY ZenonT(30), <1>0 DEF StructuresAgree, Holds
<1>3. /\ P \in Seq(Ids) /\ Len(P) = n + 1 /\ P[n + 1] = k[2]
      /\ \A i \in 1 .. n : P[i] = q[i]
  BY <1>0, <1>1
<1>4. P = Pushed(k)
  BY ZenonT(30) DEF Pushed
<1>5. Share \in Nat /\ Share >= 1
  BY ZenonT(30), SharePositive DEF TypeOK
<1>6. K \in 1 .. n + 1 /\ K <= Share /\ (n < Share => K = n + 1) /\ (n = Share => K = n)
  <2>1. K = IF n + 1 > Share THEN Share ELSE n + 1
    BY ZenonT(30), <1>3, <1>4 DEF Kept
  <2> HIDE DEF K, n
  <2> QED
    BY <2>1, <1>1, <1>5
<1>7. D \in 0 .. n /\ D = n + 1 - K
  BY SMTT(30), <1>1, <1>3, <1>6
<1>8. Own(k) = SubSeq(P, D + 1, n + 1)
  BY ZenonT(30), <1>3, <1>4 DEF Own
<1>9. Aged(k) = {<<k[1], P[i]>> : i \in 1 .. D}
  BY ZenonT(30), <1>4 DEF Aged
<1> HIDE DEF K, P, q, D, n
<1>10. NoRepeats(P)
  <2> SUFFICES ASSUME NEW i \in 1 .. n + 1, NEW j \in 1 .. n + 1, P[i] = P[j], i < j
               PROVE  FALSE
    BY <1>1, <1>3 DEF NoRepeats
  <2>1. CASE j = n + 1
    BY <2>1, <1>1, <1>2, <1>3 DEF n
  <2>2. CASE j < n + 1
    <3>1. i \in DOMAIN q /\ j \in DOMAIN q /\ q[i] = q[j]
      BY <2>2, <1>1, <1>3 DEF n
    <3> QED
      BY <3>1, <1>1 DEF NoRepeats
  <2> QED
    BY <2>1, <2>2, <1>1
<1>11. /\ Own(k) \in Seq(Ids) /\ Len(Own(k)) = K
       /\ \A i \in 1 .. K : Own(k)[i] = P[D + i]
  BY <1>1, <1>3, <1>6, <1>7, <1>8
<1>12. NoRepeats(Own(k))
  <2> SUFFICES ASSUME NEW i \in 1 .. K, NEW j \in 1 .. K, Own(k)[i] = Own(k)[j]
               PROVE  i = j
    BY <1>11 DEF NoRepeats
  <2>1. D + i \in 1 .. n + 1 /\ D + j \in 1 .. n + 1
    BY <1>1, <1>6, <1>7
  <2>2. D + i = D + j
    BY <2>1, <1>3, <1>10, <1>11 DEF NoRepeats
  <2> QED
    BY <2>2, <1>7, <1>6
<1>13. ASSUME NEW x, NEW i \in DOMAIN Own(k), Own(k)[i] = x
       PROVE  /\ <<k[1], x>> \notin Aged(k)
              /\ x = k[2] \/ Holds(q, x)
  <2>1. D + i \in D + 1 .. n + 1 /\ P[D + i] = x
    BY <1>1, <1>6, <1>7, <1>11, <1>13
  <2>2. \A j \in 1 .. D : P[j] # x
    <3> SUFFICES ASSUME NEW j \in 1 .. D, P[j] = x
                 PROVE  FALSE
      OBVIOUS
    <3>1. j \in DOMAIN P /\ D + i \in DOMAIN P /\ j # D + i
      BY <2>1, <1>1, <1>3, <1>7
    <3> QED
      BY ZenonT(30), <3>1, <2>1, <1>10 DEF NoRepeats
  <2>3. x = k[2] \/ Holds(q, x)
    BY <2>1, <1>1, <1>3, <1>7 DEF n, Holds
  <2> QED
    BY ZenonT(30), <2>2, <2>3, <1>9
<1>14. ASSUME NEW x, <<k[1], x>> \notin Aged(k), x = k[2] \/ Holds(q, x)
       PROVE  Holds(Own(k), x)
  <2>1. PICK i \in 1 .. n + 1 : P[i] = x
    BY <1>1, <1>3, <1>14 DEF n, Holds
  <2>2. i > D
    BY <2>1, <1>7, <1>9, <1>14
  <2>3. i - D \in 1 .. K /\ D + (i - D) = i
    BY <2>1, <2>2, <1>1, <1>6, <1>7
  <2>4. Own(k)[i - D] = x
    BY ZenonT(30), <2>1, <2>3, <1>11
  <2> QED
    BY <2>3, <2>4, <1>11 DEF Holds
<1>15. ASSUME n < Share
       PROVE  Own(k) = P /\ Aged(k) = {}
  <2>1. K = n + 1 /\ D = 0
    BY <1>1, <1>6, <1>7, <1>15
  <2>2. Own(k) = P
    BY <2>1, <1>1, <1>3, <1>8
  <2> QED
    BY <2>1, <2>2, <1>9
<1>16. ASSUME n = Share
       PROVE  /\ Aged(k) = {<<k[1], P[1]>>} /\ Len(Own(k)) = Share
              /\ \A i \in 1 .. Share : Own(k)[i] = P[i + 1]
  <2>1. K = Share /\ D = 1
    BY <1>5, <1>6, <1>7, <1>16
  <2> QED
    BY <2>1, <1>5, <1>9, <1>11
<1>17. \A x : Holds(Own(k), x)
          <=> <<k[1], x>> \notin Aged(k) /\ (x = k[2] \/ Holds(q, x))
  BY ZenonT(30), <1>13, <1>14 DEF Holds
<1>18. Len(Own(k)) <= Share
  BY ZenonT(30), <1>6, <1>11
<1> QED
  BY ZenonT(30), <1>11, <1>12, <1>15, <1>16, <1>17, <1>18 DEF q, P, n

\* One key remembered: the structures still agree.
LEMMA RememberAgrees ==
  ASSUME TypeOK, StructuresAgree, Len(order) <= Memory,
         NEW k \in Keys, k \notin decided, remember(k)
  PROVE  /\ decided' \subseteq Keys /\ queue' \in [Tenants -> Seq(Ids)]
         /\ order' \in Seq(Keys) /\ gone' \subseteq Keys
         /\ StructuresAgree'
<1> DEFINE q(t) == IF t = k[1] THEN Own(k) ELSE queue[t]
           d == (decided \cup {k}) \ Aged(k)
           out == Oldest(k) # {}
           h == Head(order)
<1>0. k[1] \in Tenants /\ k[2] \in Ids /\ k = <<k[1], k[2]>>
  BY DEF Keys
<1>1. \A t \in Tenants : q(t) \in Seq(Ids) /\ NoRepeats(q(t))
  BY ZenonT(30), OwnLemma DEF TypeOK, StructuresAgree, NoRepeats
<1>2. \A g \in Keys : g \in d <=> Holds(q(g[1]), g[2])
  <2> SUFFICES ASSUME NEW g \in Keys
               PROVE  g \in d <=> Holds(q(g[1]), g[2])
    OBVIOUS
  <2>1. g = <<g[1], g[2]>> /\ g[1] \in Tenants
    BY DEF Keys
  <2>2. g \in decided <=> Holds(queue[g[1]], g[2])
    BY ZenonT(30) DEF StructuresAgree
  <2>3. CASE g[1] = k[1]
    <3>1. \A x : Holds(Own(k), x)
             <=> /\ <<k[1], x>> \notin Aged(k)
                 /\ x = k[2] \/ Holds(queue[k[1]], x)
      BY ZenonT(30), OwnLemma
    <3>2. q(g[1]) = Own(k)
      BY ZenonT(30), <2>3
    <3>3. <<k[1], g[2]>> = g /\ (g = k <=> g[2] = k[2])
      BY ZenonT(30), <2>1, <2>3, <1>0
    <3>4. Holds(Own(k), g[2])
             <=> /\ <<k[1], g[2]>> \notin Aged(k)
                 /\ g[2] = k[2] \/ Holds(queue[k[1]], g[2])
      BY ZenonT(30), <3>1
    <3>5. g \in d <=> g \notin Aged(k) /\ (g = k \/ g \in decided)
      OBVIOUS
    <3> HIDE DEF q, d
    <3> QED
      BY ZenonT(30), <3>2, <3>3, <3>4, <3>5, <2>2, <2>3
  <2>4. CASE g[1] # k[1]
    <3>1. g # k /\ g \notin Aged(k)
      BY <2>1, <2>4 DEF Aged
    <3> QED
      BY ZenonT(30), <3>1, <2>2, <2>4
  <2> QED
    BY ZenonT(30), <2>3, <2>4
<1>3. Memory \in Nat /\ Memory >= 1
  BY ZenonT(30), MemoryPositive
<1>4. out => /\ Full /\ Oldest(k) = {h} /\ h \in d /\ h \in Keys /\ h = order[1]
  <2>1. out => Full /\ Oldest(k) = {h} /\ h \in d
    BY ZenonT(30) DEF Oldest
  <2>2. Full => order # <<>> /\ h = order[1] /\ h \in Keys
    BY <1>3 DEF Full, TypeOK
  <2> QED
    BY ZenonT(30), <2>1, <2>2
<1>5. ~ out => Oldest(k) = {} /\ (Full => h \notin d)
  BY ZenonT(30) DEF Oldest
<1>6. \A t \in Tenants : queue'[t] = IF out /\ h[1] = t THEN WithoutId(q(t), h[2]) ELSE q(t)
  BY ZenonT(30) DEF remember
<1>7. decided' = d \ Oldest(k)
  BY ZenonT(30) DEF remember
<1>8. d \subseteq Keys
  BY ZenonT(30) DEF TypeOK
<1> HIDE DEF q, d, out, h
<1>9. \A t \in Tenants : queue'[t] \in Seq(Ids) /\ NoRepeats(queue'[t])
  BY <1>1, <1>6, WithoutIdLemma
<1>10. queue' \in [Tenants -> Seq(Ids)]
  BY ZenonT(30), <1>9 DEF remember
<1>11. \A g \in Keys : g \in decided' <=> Holds(queue'[g[1]], g[2])
  <2> SUFFICES ASSUME NEW g \in Keys
               PROVE  g \in decided' <=> Holds(queue'[g[1]], g[2])
    OBVIOUS
  <2>1. g = <<g[1], g[2]>> /\ g[1] \in Tenants
    BY DEF Keys
  <2>2. CASE out /\ h[1] = g[1]
    <3>1. queue'[g[1]] = WithoutId(q(g[1]), h[2])
      BY ZenonT(30), <2>1, <2>2, <1>6
    <3>2. Holds(queue'[g[1]], g[2])
             <=> g[2] # h[2] /\ Holds(q(g[1]), g[2])
      <4> DEFINE s == q(g[1])
      <4>1. s \in Seq(Ids) /\ NoRepeats(s)
        BY ZenonT(30), <2>1, <1>1
      <4> HIDE DEF s
      <4>2. \A x : Holds(WithoutId(s, h[2]), x)
               <=> x # h[2] /\ Holds(s, x)
        BY ZenonT(30), <4>1, WithoutIdLemma
      <4>3. queue'[g[1]] = WithoutId(s, h[2])
        BY ZenonT(30), <3>1 DEF s
      <4> QED
        BY ZenonT(30), <4>2, <4>3 DEF s
    <3>3. h = <<h[1], h[2]>>
      BY <2>2, <1>4 DEF Keys
    <3>4. g \in decided' <=> g \in d /\ g # h
      BY ZenonT(30), <2>2, <1>4, <1>7
    <3> QED
      BY ZenonT(30), <3>2, <3>3, <3>4, <2>1, <2>2, <1>2
  <2>3. CASE ~ (out /\ h[1] = g[1])
    <3>1. queue'[g[1]] = q(g[1])
      BY ZenonT(30), <2>1, <2>3, <1>6
    <3>2. g \notin Oldest(k)
      BY ZenonT(30), <2>3, <1>4, <1>5
    <3> QED
      BY ZenonT(30), <3>1, <3>2, <1>2, <1>7
  <2> QED
    BY ZenonT(30), <2>2, <2>3
<1>12. decided' \subseteq Keys /\ gone' \subseteq Keys
  <2>1. Aged(k) \subseteq Keys
    <3> SUFFICES ASSUME NEW i \in 1 .. Len(Pushed(k)) - Kept(k)
                 PROVE  <<k[1], Pushed(k)[i]>> \in Keys
      BY ZenonT(30) DEF Aged
    <3>1. Pushed(k) \in Seq(Ids)
      BY <1>0 DEF Pushed, TypeOK
    <3>2. Share \in Nat /\ Share >= 1
      BY ZenonT(30), SharePositive DEF TypeOK
    <3>3. i \in 1 .. Len(Pushed(k))
      BY <3>1, <3>2 DEF Kept
    <3>4. Pushed(k)[i] \in Ids
      BY <3>1, <3>3
    <3> QED
      BY ZenonT(30), <3>4, <1>0 DEF Keys
  <2>2. Oldest(k) \subseteq Keys
    BY ZenonT(30), <1>4, <1>5
  <2> QED
    BY ZenonT(30), <2>1, <2>2, <1>7, <1>8 DEF remember
<1>13. /\ order' \in Seq(Keys) /\ order'[Len(order')] = k /\ Len(order') \in DOMAIN order'
       /\ \A i \in DOMAIN order : (Full => i # 1) => Holds(order', order[i])
  <2>1. CASE Full
    <3>1. /\ order \in Seq(Keys) /\ Len(order) \in Nat /\ Len(order) >= 1
      BY <2>1, <1>3 DEF Full, TypeOK
    <3>2. order' = Append(Tail(order), k)
      BY ZenonT(30), <2>1 DEF remember
    <3>3. /\ order' \in Seq(Keys) /\ Len(order') = Len(order)
          /\ order'[Len(order)] = k
          /\ \A j \in 1 .. Len(order) - 1 : order'[j] = order[j + 1]
      BY <3>1, <3>2
    <3>4. ASSUME NEW i \in DOMAIN order, i # 1
          PROVE  Holds(order', order[i])
      <4>1. i - 1 \in 1 .. Len(order) - 1 /\ (i - 1) + 1 = i
        BY <3>1, <3>4
      <4> QED
        BY <4>1, <3>1, <3>3 DEF Holds
    <3> QED
      BY <2>1, <3>1, <3>3, <3>4
  <2>2. CASE ~ Full
    <3>1. order' = Append(order, k) /\ order \in Seq(Keys)
      BY ZenonT(30), <2>2 DEF remember, TypeOK
    <3> QED
      BY <2>2, <3>1 DEF Holds
  <2> QED
    BY ZenonT(30), <2>1, <2>2
<1>14. \A g \in decided' : Holds(order', g)
  <2> SUFFICES ASSUME NEW g \in decided'
               PROVE  Holds(order', g)
    OBVIOUS
  <2>1. CASE g = k
    BY ZenonT(30), <2>1, <1>13 DEF Holds
  <2>2. CASE g # k
    <3>1. g \in decided /\ g \in d /\ g \notin Oldest(k)
      BY ZenonT(30), <2>2, <1>7 DEF d
    <3>2. PICK i \in DOMAIN order : order[i] = g
      BY ZenonT(30), <3>1 DEF StructuresAgree, Holds
    <3>3. Full => i # 1
      BY <3>1, <3>2, <1>3, <1>4, <1>5 DEF h, Full, TypeOK
    <3> QED
      BY ZenonT(30), <3>2, <3>3, <1>13
  <2> QED
    BY ZenonT(30), <2>1, <2>2
<1>15. decided' = {g \in Keys : Holds(queue'[g[1]], g[2])}
  BY ZenonT(30), <1>11, <1>12
<1> QED
  BY ZenonT(30), <1>9, <1>10, <1>12, <1>13, <1>14, <1>15 DEF StructuresAgree, NoRepeats

\* The common queue is filled up to the bound and then slides.
LEMMA RememberCounts ==
  ASSUME IInv, NEW k \in Keys, NEW r, k[1] \in tenants, remember(k),
         journal' = Append(journal, r), tenants' = tenants
  PROVE  /\ Len(order') = Shorter(Len(journal'), Memory)
         /\ \A i \in DOMAIN order' : order'[i][1] \in tenants'
<1>1. Memory \in Nat /\ Memory >= 1
  BY ZenonT(30), MemoryPositive
<1>2. /\ order \in Seq(Keys) /\ Len(order) \in Nat /\ Len(journal) \in Nat
      /\ Len(journal') = Len(journal) + 1
  BY DEF IInv, TypeOK
<1>3. Len(order) = Shorter(Len(journal), Memory) /\ \A i \in DOMAIN order : order[i][1] \in tenants
  BY ZenonT(30) DEF IInv
<1>4. CASE Full
  <2>1. order' = Append(Tail(order), k) /\ Len(order) >= 1 /\ Len(order) >= Memory
    BY <1>4, <1>1, <1>2 DEF remember, Full
  <2>2. /\ Len(order') = Len(order) /\ DOMAIN order' = 1 .. Len(order)
        /\ \A i \in 1 .. Len(order) : order'[i] = IF i = Len(order) THEN k ELSE order[i + 1]
    BY <2>1, <1>2
  <2>3. \A i \in 1 .. Len(order) : order'[i][1] \in tenants
    BY SMTT(30), <2>2, <1>2, <1>3
  <2> QED
    BY <2>1, <2>2, <2>3, <1>1, <1>2, <1>3 DEF Shorter
<1>5. CASE ~ Full
  <2>1. order' = Append(order, k) /\ Len(order) < Memory
    BY <1>5, <1>1, <1>2 DEF remember, Full
  <2>2. /\ Len(order') = Len(order) + 1 /\ DOMAIN order' = 1 .. Len(order) + 1
        /\ \A i \in 1 .. Len(order) + 1 : order'[i] = IF i = Len(order) + 1 THEN k ELSE order[i]
    BY <2>1, <1>2
  <2>3. \A i \in 1 .. Len(order) + 1 : order'[i][1] \in tenants
    BY <2>2, <1>2, <1>3
  <2> QED
    BY <2>1, <2>2, <2>3, <1>1, <1>2, <1>3 DEF Shorter
<1> QED
  BY ZenonT(30), <1>4, <1>5

\* With one tenant both queues let go of the same key, the oldest.
LEMMA RememberLockstep ==
  ASSUME IInv, NEW k \in Keys, k \notin decided, k[1] \in tenants, remember(k),
         tenants' = tenants
  PROVE  Lockstep'
<1> SUFFICES ASSUME NEW t \in Tenants, tenants = {t}
             PROVE  /\ Len(queue'[t]) = Len(order')
                    /\ \A i \in DOMAIN order' : order'[i] = <<t, queue'[t][i]>>
  BY ZenonT(30) DEF Lockstep
<1> DEFINE q == queue[t]
           n == Len(q)
<1>1. k[1] = t /\ k[2] \in Ids /\ k = <<t, k[2]>>
  BY DEF Keys
<1>2. Memory \in Nat /\ Memory >= 1
  BY ZenonT(30), MemoryPositive
<1>3. Cardinality(tenants) = 1
  BY ZenonT(30), FS_Singleton
<1>4. Share = Memory
  BY ZenonT(30), <1>3, SharePositive DEF IInv, TypeOK
<1>5. /\ q \in Seq(Ids) /\ n \in Nat /\ order \in Seq(Keys) /\ Len(order) = n
      /\ \A i \in 1 .. n : order[i] = <<t, q[i]>>
  BY SMTT(30) DEF IInv, TypeOK, Lockstep
<1>6. n <= Memory
  BY <1>2, <1>5 DEF IInv, Shorter, TypeOK
<1> HIDE DEF q, n
<1>7. CASE n < Memory
  <2>1. ~ Full
    BY <1>2, <1>5, <1>7 DEF Full
  <2>2. Own(k) = Append(q, k[2])
    BY ZenonT(30), <1>1, <1>4, <1>7, OwnLemma DEF IInv, q, n
  <2>3. queue'[t] = Append(q, k[2]) /\ order' = Append(order, k)
    BY ZenonT(30), <2>1, <2>2, <1>1 DEF remember, Oldest
  <2> QED
    BY <2>3, <1>1, <1>5 DEF n
<1>8. CASE n = Memory
  <2>1. Full
    BY SMTT(30), <1>2, <1>5, <1>8 DEF Full
  <2>2. /\ Aged(k) = {<<t, Append(q, k[2])[1]>>} /\ Len(Own(k)) = n
        /\ \A i \in 1 .. n : Own(k)[i] = Append(q, k[2])[i + 1]
    BY ZenonT(30), <1>1, <1>4, <1>8, OwnLemma DEF IInv, q, n
  <2>3. Head(order) \in Aged(k)
    <3>1. Head(order) = order[1] /\ order[1] = <<t, q[1]>> /\ Append(q, k[2])[1] = q[1]
      BY <1>1, <1>2, <1>5, <1>8 DEF n
    <3> QED
      BY ZenonT(30), <3>1, <2>2
  <2>4. Oldest(k) = {}
    BY ZenonT(30), <2>3 DEF Oldest
  <2>5. queue'[t] = Own(k) /\ order' = Append(Tail(order), k)
    BY ZenonT(30), <2>1, <2>4, <1>1 DEF remember
  <2>6. /\ Len(order') = n
        /\ \A i \in 1 .. n : order'[i] = IF i = n THEN k ELSE order[i + 1]
    BY <2>5, <1>2, <1>5, <1>8
  <2>7. \A i \in 1 .. n : Append(q, k[2])[i + 1] = IF i = n THEN k[2] ELSE q[i + 1]
    BY <1>1, <1>5 DEF n
  <2>8. DOMAIN order' = 1 .. n
    BY <2>5, <2>6, <1>2, <1>5, <1>8
  <2>9. ASSUME NEW i \in 1 .. n
        PROVE  order'[i] = <<t, queue'[t][i]>>
    <3>1. CASE i = n
      BY ZenonT(30), <3>1, <2>2, <2>5, <2>6, <2>7, <1>1
    <3>2. CASE i # n
      <4>1. i + 1 \in 1 .. n
        BY <3>2, <1>5
      <4>2. order'[i] = order[i + 1] /\ order[i + 1] = <<t, q[i + 1]>>
        BY ZenonT(30), <3>2, <4>1, <2>6, <1>5
      <4>3. queue'[t][i] = Append(q, k[2])[i + 1] /\ Append(q, k[2])[i + 1] = q[i + 1]
        BY ZenonT(30), <3>2, <2>2, <2>5, <2>7
      <4> QED
        BY ZenonT(30), <4>2, <4>3
    <3> QED
      BY ZenonT(30), <3>1, <3>2
  <2> QED
    BY ZenonT(30), <2>2, <2>5, <2>6, <2>8, <2>9
<1> QED
  BY <1>2, <1>5, <1>6, <1>7, <1>8

\* Initial states satisfy the inductive invariant.
LEMMA InitIInv == Init => IInv
<1> SUFFICES ASSUME Init
             PROVE  IInv
  OBVIOUS
<1> USE DEF Init
<1>1. TypeOK
  BY MemoryAssumption DEF TypeOK
<1>2. StructuresAgree
  BY DEF StructuresAgree, Holds, Keys
<1>3. Len(order) = Shorter(Len(journal), Memory)
  BY MemoryPositive DEF Shorter
<1>4. Lockstep
  BY DEF Lockstep
<1> QED
  BY <1>1, <1>2, <1>3, <1>4 DEF IInv

\* Every step keeps the inductive invariant.
LEMMA NextIInv == IInv /\ [Next]_vars => IInv'
<1> SUFFICES ASSUME IInv, [Next]_vars
             PROVE  IInv'
  OBVIOUS
<1>0. Memory \in Nat /\ Memory >= 1
  BY ZenonT(30), MemoryPositive
<1>1. ASSUME NEW k \in Keys, NEW o \in {"forwarded", "refused"}, Decided(k, o)
      PROVE  IInv'
  <2> DEFINE r == [key |-> k, outcome |-> o]
  <2>1. /\ k[1] \in tenants /\ k \notin decided /\ remember(k)
        /\ journal' = Append(journal, r) /\ tenants' = tenants
    BY ZenonT(30), <1>1 DEF Decided
  <2>2. Len(order) <= Memory
    BY <1>0 DEF IInv, Shorter, TypeOK
  <2>3. /\ decided' \subseteq Keys /\ queue' \in [Tenants -> Seq(Ids)]
        /\ order' \in Seq(Keys) /\ gone' \subseteq Keys /\ StructuresAgree'
    BY ZenonT(30), <2>1, <2>2, RememberAgrees DEF IInv
  <2>4. journal' \in Seq([key : Keys, outcome : {"forwarded", "refused"}])
    BY <2>1 DEF IInv, TypeOK
  <2> HIDE DEF r
  <2>5. /\ Len(order') = Shorter(Len(journal'), Memory)
        /\ \A i \in DOMAIN order' : order'[i][1] \in tenants'
    BY ZenonT(30), <2>1, RememberCounts
  <2>6. Lockstep'
    BY ZenonT(30), <2>1, RememberLockstep
  <2> QED
    BY ZenonT(30), <2>1, <2>3, <2>4, <2>5, <2>6 DEF IInv, TypeOK
<1>2. ASSUME NEW t \in Tenants, add_tenant(t)
      PROVE  IInv'
  <2> USE <1>2 DEF add_tenant
  <2>1. TypeOK' /\ StructuresAgree'
    BY ZenonT(30) DEF IInv, TypeOK, StructuresAgree
  <2>2. Len(order') = Shorter(Len(journal'), Memory)
    BY ZenonT(30) DEF IInv
  <2>3. \A i \in DOMAIN order' : order'[i][1] \in tenants'
    BY ZenonT(30) DEF IInv
  <2>4. Lockstep'
    <3> SUFFICES ASSUME NEW u \in Tenants, tenants' = {u}
                 PROVE  order = <<>> /\ queue[u] = <<>>
      BY DEF Lockstep
    <3>1. tenants = {}
      OBVIOUS
    <3>2. order = <<>>
      BY <3>1 DEF IInv, TypeOK
    <3>3. decided = {}
      BY <3>2 DEF IInv, StructuresAgree, Holds
    <3>4. ASSUME queue[u] # <<>>
          PROVE  FALSE
      <4>1. queue[u] \in Seq(Ids) /\ 1 \in DOMAIN queue[u] /\ queue[u][1] \in Ids
        BY <3>4 DEF IInv, TypeOK
      <4>2. <<u, queue[u][1]>> \in Keys /\ Holds(queue[u], queue[u][1])
        BY ZenonT(30), <4>1 DEF Keys, Holds
      <4>3. <<u, queue[u][1]>> \in decided
        BY ZenonT(30), <4>2 DEF IInv, StructuresAgree
      <4> QED
        BY ZenonT(30), <4>3, <3>3
    <3> QED
      BY ZenonT(30), <3>2, <3>4
  <2> QED
    BY ZenonT(30), <2>1, <2>2, <2>3, <2>4 DEF IInv
<1>3. CASE UNCHANGED vars
  BY ZenonT(30), <1>3 DEF vars, IInv, TypeOK, StructuresAgree, Lockstep
<1> QED
  BY ZenonT(30), <1>1, <1>2, <1>3 DEF Next, Forward, CellRefused

\* What the theorems below start from.
LEMMA AlwaysIInv == Spec => []IInv
  BY InitIInv, NextIInv, PTL DEF Spec

\* Types are kept for every number of tenants, ids and decisions.
THEOREM TypesKept == Spec => []TypeOK
<1>1. IInv => TypeOK
  BY ZenonT(30) DEF IInv
<1> QED
  BY <1>1, AlwaysIInv, PTL

\* The set the replay check reads, the tenants' queues and the common queue
\* agree after any sequence of decisions and provisioning.
THEOREM StructuresAlwaysAgree == Spec => []StructuresAgree
<1>1. IInv => StructuresAgree
  BY ZenonT(30) DEF IInv
<1> QED
  BY <1>1, AlwaysIInv, PTL

\* No more than replay_memory keys are ever remembered.
THEOREM MemoryStaysBounded == Spec => []MemoryBounded
<1>1. IInv => MemoryBounded
  <2> SUFFICES ASSUME IInv
               PROVE  MemoryBounded
    OBVIOUS
  <2>1. /\ Memory \in Nat /\ order \in Seq(Keys) /\ Len(order) \in Nat
        /\ Len(order) <= Memory
    BY MemoryPositive DEF IInv, TypeOK, Shorter
  <2> DEFINE range == {order[i] : i \in 1 .. Len(order)}
  <2>2. IsFiniteSet(1 .. Len(order)) /\ Cardinality(1 .. Len(order)) = Len(order)
    BY ZenonT(30), <2>1, IntervalSize
  <2>3. IsFiniteSet(range) /\ Cardinality(range) <= Cardinality(1 .. Len(order))
    <3> DEFINE f == [i \in 1 .. Len(order) |-> order[i]]
    <3>1. f \in Surjection(1 .. Len(order), range)
      BY ZenonT(30) DEF Surjection
    <3> QED
      BY <3>1, <2>2, FS_Surjection
  <2>4. decided \subseteq range
    BY <2>1 DEF IInv, StructuresAgree, Holds
  <2>5. IsFiniteSet(decided) /\ Cardinality(decided) <= Cardinality(range)
    BY ZenonT(30), <2>3, <2>4, FS_Subset
  <2>6. Cardinality(decided) \in Nat /\ Cardinality(range) \in Nat
    BY ZenonT(30), <2>3, <2>5, FS_CardinalityType
  <2> HIDE DEF range
  <2> QED
    BY <2>1, <2>2, <2>3, <2>5, <2>6 DEF MemoryBounded
<1> QED
  BY <1>1, AlwaysIInv, PTL

\* As the MCP server runs it, with one tenant, every one of the last
\* replay_memory decided keys is suppressed, whatever keys were retried after
\* being forgotten.
THEOREM SingleTenantIsWindow == Spec => []SingleTenantWindow
<1>1. IInv => SingleTenantWindow
  <2> SUFFICES ASSUME IInv, Cardinality(tenants) = 1
               PROVE  /\ \A i \in DOMAIN order : order[i] \in decided
                      /\ Len(order) = Shorter(Len(journal), Memory)
    BY ZenonT(30) DEF SingleTenantWindow, Shorter
  <2>1. IsFiniteSet(tenants)
    BY ZenonT(30), MemoryAssumption, FS_Subset DEF IInv, TypeOK
  <2>2. PICK t : tenants = {t}
    BY ZenonT(30), <2>1, FS_Singleton
  <2>3. t \in Tenants
    BY ZenonT(30), <2>2 DEF IInv, TypeOK
  <2>4. ASSUME NEW i \in DOMAIN order
        PROVE  order[i] \in decided
    <3>1. order[i] = <<t, queue[t][i]>> /\ i \in DOMAIN queue[t]
      BY <2>2, <2>3 DEF IInv, Lockstep, TypeOK
    <3>2. queue[t][i] \in Ids
      BY <2>3, <3>1 DEF IInv, TypeOK
    <3>3. order[i] \in Keys /\ order[i][1] = t /\ Holds(queue[t], order[i][2])
      BY <2>3, <3>1, <3>2 DEF Keys, Holds
    <3> QED
      BY ZenonT(30), <3>3 DEF IInv, StructuresAgree
  <2> QED
    BY ZenonT(30), <2>4 DEF IInv
<1> QED
  BY <1>1, AlwaysIInv, PTL

\* A tenant that adds a key holds no more than its share of the memory, also
\* when a tenant provisioned since has made that share smaller.
THEOREM ShareAlwaysKept == Spec => ShareKept
<1> DEFINE step ==
      \A k \in Keys : Len(order') > 0 /\ order'[Len(order')] = k /\ journal' # journal
                        => Len(queue'[k[1]]) <= Share
<1>1. IInv /\ [Next]_vars => [step]_vars
  <2> SUFFICES ASSUME IInv, Next
               PROVE  step
    OBVIOUS
  <2>1. ASSUME NEW g \in Keys, NEW o, Decided(g, o), NEW k \in Keys, order'[Len(order')] = k
        PROVE  Len(queue'[k[1]]) <= Share
    <3>1. g \notin decided /\ remember(g)
      BY ZenonT(30), <2>1 DEF Decided
    <3>2. order \in Seq(Keys) /\ Memory \in Nat /\ Memory >= 1
      BY ZenonT(30), MemoryPositive DEF IInv, TypeOK
    <3>3. k = g
      BY SMTT(30), <2>1, <3>1, <3>2 DEF remember, Full
    <3>4. Own(g) \in Seq(Ids) /\ NoRepeats(Own(g)) /\ Len(Own(g)) <= Share
      BY ZenonT(30), <3>1, OwnLemma DEF IInv
    <3>5. \A x : Len(WithoutId(Own(g), x)) <= Len(Own(g)) /\ WithoutId(Own(g), x) \in Seq(Ids)
      BY ZenonT(30), <3>4, WithoutIdLemma
    <3>6. Share \in Nat
      BY ZenonT(30), SharePositive DEF IInv, TypeOK
    <3>7. \/ queue'[g[1]] = Own(g)
          \/ queue'[g[1]] = WithoutId(Own(g), Head(order)[2])
      BY ZenonT(30), <3>1 DEF remember, Keys
    <3> QED
      BY <3>3, <3>4, <3>5, <3>6, <3>7
  <2>2. ASSUME NEW t \in Tenants, add_tenant(t)
        PROVE  journal' = journal
    BY ZenonT(30), <2>2 DEF add_tenant
  <2> QED
    BY ZenonT(30), <2>1, <2>2 DEF Next, Forward, CellRefused
<1>2. Spec => [][Next]_vars
  BY PTL DEF Spec
<1> QED
  BY <1>1, <1>2, AlwaysIInv, PTL DEF ShareKept

-----------------------------------------------------------------------------
(* How long a fresh key is kept *)

\* Later, over a given journal.
LaterIn(j, t, i) == {x \in i + 1 .. Len(j) : j[x].key[1] = t}

\* A decision adds one to the later decisions of its tenant, and to no other's.
LEMMA LaterAppend ==
  ASSUME NEW R, NEW j \in Seq(R), NEW r \in R, NEW t, NEW i \in 0 .. Len(j)
  PROVE  /\ IsFiniteSet(LaterIn(j, t, i)) /\ Cardinality(LaterIn(j, t, i)) \in Nat
         /\ r.key[1] = t =>
               Cardinality(LaterIn(Append(j, r), t, i)) = Cardinality(LaterIn(j, t, i)) + 1
         /\ r.key[1] # t => LaterIn(Append(j, r), t, i) = LaterIn(j, t, i)
<1> DEFINE n == Len(j)
           a == Append(j, r)
           L == LaterIn(j, t, i)
<1>1. n \in Nat /\ Len(a) = n + 1 /\ a[n + 1] = r /\ \A x \in 1 .. n : a[x] = j[x]
  OBVIOUS
<1>2. L \subseteq 1 .. n
  BY <1>1 DEF LaterIn
<1>3. IsFiniteSet(L) /\ Cardinality(L) \in Nat
  BY ZenonT(30), <1>1, <1>2, IntervalSize, FS_Subset, FS_CardinalityType
<1>4. n + 1 \notin L
  BY <1>1, <1>2
<1>5. ASSUME r.key[1] = t PROVE LaterIn(a, t, i) = L \cup {n + 1}
  BY <1>1, <1>5 DEF LaterIn
<1>6. ASSUME r.key[1] # t PROVE LaterIn(a, t, i) = L
  BY <1>1, <1>6 DEF LaterIn
<1>7. Cardinality(L \cup {n + 1}) = Cardinality(L) + 1
  BY ZenonT(30), <1>3, <1>4, FS_AddElement
<1> QED
  BY ZenonT(30), <1>3, <1>5, <1>6, <1>7

\* Where the ids of a tenant's queue were before a decision for k: none comes to
\* stand further from the end of its queue, but for the one id k adds.
LEMMA QueuePlaces ==
  ASSUME IInv, NEW k \in Keys, k \notin decided, remember(k),
         NEW t \in Tenants, NEW y \in DOMAIN queue'[t]
  PROVE  \/ /\ t = k[1] /\ queue'[t][y] = k[2] /\ Len(queue'[t]) - y <= 0
         \/ \E x \in DOMAIN queue[t] :
               /\ queue'[t][y] = queue[t][x]
               /\ Len(queue'[t]) - y <= Len(queue[t]) - x + (IF t = k[1] THEN 1 ELSE 0)
<1> DEFINE q == IF t = k[1] THEN Own(k) ELSE queue[t]
<1>1. /\ queue[t] \in Seq(Ids) /\ NoRepeats(queue[t]) /\ k[1] \in Tenants /\ k[2] \in Ids
      /\ tenants \subseteq Tenants
  BY ZenonT(30) DEF IInv, TypeOK, StructuresAgree, NoRepeats, Keys
<1>2. Own(k) \in Seq(Ids) /\ NoRepeats(Own(k))
  BY ZenonT(30), OwnLemma DEF IInv
<1>3. q \in Seq(Ids) /\ NoRepeats(q)
  BY ZenonT(30), <1>1, <1>2
<1>4. queue'[t] = q \/ queue'[t] = WithoutId(q, Head(order)[2])
  BY ZenonT(30) DEF remember
<1> HIDE DEF q
<1>5. PICK z \in DOMAIN q : queue'[t][y] = q[z] /\ Len(queue'[t]) - y <= Len(q) - z
  <2>1. CASE queue'[t] = q
    BY <2>1, <1>3
  <2>2. CASE queue'[t] = WithoutId(q, Head(order)[2])
    <3> DEFINE w == WithoutId(q, Head(order)[2])
    <3>1. \A v \in DOMAIN w : \E x \in DOMAIN q : w[v] = q[x] /\ Len(w) - v <= Len(q) - x
      <4>1. ASSUME NEW s \in Seq(Ids), NoRepeats(s), NEW id, NEW v \in DOMAIN WithoutId(s, id)
            PROVE  \E x \in DOMAIN s :
                      WithoutId(s, id)[v] = s[x] /\ Len(WithoutId(s, id)) - v <= Len(s) - x
        BY SMTT(30), <4>1, WithoutIdLemma
      <4> QED
        BY ZenonT(30), <1>3, <4>1
    <3>2. queue'[t] = w
      BY ZenonT(30), <2>2
    <3> HIDE DEF w
    <3> QED
      BY ZenonT(30), <3>1, <3>2
  <2> QED
    BY ZenonT(30), <1>4, <2>1, <2>2
<1>6. Len(queue'[t]) \in Int /\ y \in Int
  <2>1. queue'[t] \in Seq(Ids)
    BY <1>3, <1>4, WithoutIdLemma
  <2> QED
    BY <2>1
<1>7. CASE t # k[1]
  <2>1. q = queue[t]
    BY ZenonT(30), <1>7 DEF q
  <2> QED
    BY <1>1, <1>5, <1>6, <1>7, <2>1
<1>8. CASE t = k[1]
  <2> DEFINE u == Pushed(k)
             n == Len(queue[t])
             d == Len(u) - Kept(k)

  <2>1. u \in Seq(Ids) /\ Len(u) = n + 1 /\ n \in Nat /\ u[n + 1] = k[2] /\ \A x \in 1 .. n : u[x] = queue[t][x]
    BY <1>1, <1>8 DEF Pushed
  <2>2. Kept(k) \in 1 .. n + 1
    BY <1>1, <2>1, SharePositive DEF Kept
  <2>3. q = SubSeq(u, d + 1, Len(u))
    BY ZenonT(30), <1>8 DEF Own, q
  <2>7. d \in 0 .. n
    BY <2>1, <2>2
  <2> HIDE DEF u, d, n
  <2>4. Len(q) = n + 1 - d /\ z \in 1 .. n + 1 - d /\ q[z] = u[z + d]
    <3>1. d + 1 \in 1 .. n + 1 /\ n + 1 - (d + 1) + 1 = n + 1 - d
      BY <2>1, <2>7
    <3>2. Len(q) = n + 1 - d /\ \A w \in 1 .. n + 1 - d : q[w] = u[d + w]
      BY <2>1, <2>3, <2>7, <3>1
    <3>3. z \in 1 .. n + 1 - d /\ d + z = z + d
      BY <1>3, <2>7, <3>2
    <3> QED
      BY ZenonT(30), <3>2, <3>3
  <2>5. CASE z + d = n + 1
    BY SMTT(30), <1>5, <1>6, <1>8, <2>1, <2>4, <2>5, <2>7
  <2>6. CASE z + d # n + 1
    <3>1. z + d \in DOMAIN queue[t] /\ q[z] = queue[t][z + d] /\ Len(q) - z = n - (z + d) + 1
      <4>1. z + d \in 1 .. n /\ Len(q) - z = n - (z + d) + 1
        BY <2>1, <2>4, <2>6, <2>7
      <4> QED
        BY <1>1, <2>1, <2>4, <4>1 DEF n
    <3> QED
      BY ZenonT(30), <1>5, <1>8, <3>1 DEF n
  <2> QED
    BY ZenonT(30), <2>5, <2>6
<1> QED
  BY ZenonT(30), <1>7, <1>8

\* The place of an entry of the common queue in the journal, as the queue slides.
LEMMA Slide ==
  ASSUME NEW n \in Nat, NEW m \in Nat, m <= n, NEW x \in 1 .. m - 1
  PROVE  n - m + (x + 1) \in 1 .. n /\ (n + 1) - m + x = n - m + (x + 1)
OBVIOUS

\* The queues follow the journal over a decision.
LEMMA RememberFollows ==
  ASSUME IInv, QueuesFollowJournal, NEW k \in Keys, k \notin decided, remember(k),
         NEW r \in [key : Keys, outcome : {"forwarded", "refused"}], r.key = k,
         journal' = Append(journal, r)
  PROVE  QueuesFollowJournal'
<1> DEFINE R == [key : Keys, outcome : {"forwarded", "refused"}]
           n == Len(journal)
<1>1. /\ journal \in Seq(R) /\ order \in Seq(Keys) /\ n \in Nat /\ Len(order) \in Nat
      /\ Memory \in Nat /\ Memory >= 1 /\ Len(order) = Shorter(n, Memory)
  BY MemoryPositive DEF IInv, TypeOK
<1>2. /\ Len(journal') = n + 1 /\ journal'[n + 1] = r /\ \A x \in 1 .. n : journal'[x] = journal[x]
      /\ DOMAIN journal' = 1 .. n + 1 /\ DOMAIN journal = 1 .. n
  BY <1>1
<1>3. ASSUME NEW x \in DOMAIN order'
      PROVE  order'[x] = journal'[Len(journal') - Len(order') + x].key
  <2> DEFINE m == Len(order)
  <2>1. \A w \in 1 .. m : order[w] = journal[n - m + w].key
    BY <1>1 DEF QueuesFollowJournal
  <2>2. m <= n
    BY <1>1 DEF Shorter
  <2>3. CASE Full
    <3>0. order' = Append(Tail(order), k) /\ m >= 1 /\ order # <<>>
      BY <1>1, <2>3 DEF remember, Full
    <3>1. /\ m >= 1 /\ Len(Tail(order)) = m - 1
          /\ Tail(order) \in Seq(Keys) /\ \A w \in 1 .. m - 1 : Tail(order)[w] = order[w + 1]
      BY <1>1, <3>0
    <3>2. Len(order') = m /\ order'[m] = k /\ \A w \in 1 .. m - 1 : order'[w] = order[w + 1]
      BY <1>1, <3>0, <3>1
    <3>5. x \in 1 .. m
      BY <1>1, <3>0, <3>1, <3>2
    <3> HIDE DEF m, n
    <3>3. CASE x = m
      BY <1>1, <1>2, <3>2, <3>3 DEF m, n
    <3>4. CASE x # m
      <4>1. x \in 1 .. m - 1 /\ x + 1 \in 1 .. m
        BY <1>1, <3>1, <3>4, <3>5 DEF m
      <4>2. n - m + (x + 1) \in 1 .. n /\ Len(journal') - Len(order') + x = n - m + (x + 1)
        <5>1. n \in Nat /\ m \in Nat
          BY ZenonT(30), <1>1 DEF m, n
        <5>2. n - m + (x + 1) \in 1 .. n /\ (n + 1) - m + x = n - m + (x + 1)
          BY SMTT(30), <2>2, <4>1, <5>1, Slide
        <5> QED
          BY ZenonT(30), <1>2, <3>2, <5>2
      <4>3. order'[x] = order[x + 1] /\ order[x + 1] = journal[n - m + (x + 1)].key
        BY ZenonT(30), <2>1, <3>2, <4>1
      <4>4. journal'[n - m + (x + 1)] = journal[n - m + (x + 1)]
        BY ZenonT(30), <1>2, <4>2
      <4> QED
        BY ZenonT(30), <4>2, <4>3, <4>4
    <3> QED
      BY ZenonT(30), <3>3, <3>4
  <2>4. CASE ~Full
    <3>1. order' = Append(order, k)
      BY ZenonT(30), <2>4 DEF remember
    <3>2. Len(order') = m + 1 /\ order'[m + 1] = k /\ \A w \in 1 .. m : order'[w] = order[w]
      BY <1>1, <3>1
    <3>5. x \in 1 .. m + 1
      BY <1>1, <3>1
    <3> HIDE DEF m, n
    <3>3. CASE x = m + 1
      BY <1>1, <1>2, <3>2, <3>3 DEF m, n
    <3>4. CASE x # m + 1
      <4>1. x \in 1 .. m
        BY <1>1, <3>4, <3>5 DEF m
      <4>2. n - m + x \in 1 .. n /\ Len(journal') - Len(order') + x = n - m + x
        <5>1. n \in Nat /\ m \in Nat
          BY ZenonT(30), <1>1 DEF m, n
        <5>2. n - m + x \in 1 .. n /\ (n + 1) - (m + 1) + x = n - m + x
          BY <2>2, <4>1, <5>1
        <5> QED
          BY ZenonT(30), <1>2, <3>2, <5>2
      <4>3. order'[x] = order[x] /\ order[x] = journal[n - m + x].key
        BY ZenonT(30), <2>1, <3>2, <4>1
      <4>4. journal'[n - m + x] = journal[n - m + x]
        BY ZenonT(30), <1>2, <4>2
      <4> QED
        BY ZenonT(30), <4>2, <4>3, <4>4
    <3> QED
      BY ZenonT(30), <3>3, <3>4
  <2> QED
    BY ZenonT(30), <2>3, <2>4
<1>4. ASSUME NEW t \in Tenants, NEW y \in DOMAIN queue'[t], NEW i \in DOMAIN journal',
             journal'[i].key = <<t, queue'[t][y]>>
      PROVE  Len(queue'[t]) - y <= Cardinality(LaterIn(journal', t, i))
  <2>1. Cardinality(LaterIn(journal', t, i)) \in Nat
    <3>1. LaterIn(journal', t, i) \subseteq 1 .. n + 1
      BY <1>1, <1>2 DEF LaterIn
    <3> QED
      BY <1>1, <3>1, IntervalSize, FS_Subset, FS_CardinalityType
  <2>2. Len(queue'[t]) \in Nat /\ y \in Nat
    <3>1. Len(order) <= Memory
      BY <1>1 DEF Shorter
    <3>2. queue' \in [Tenants -> Seq(Ids)]
      BY ZenonT(30), <3>1, RememberAgrees DEF IInv
    <3> QED
      BY <3>2
  <2>3. CASE Len(queue'[t]) - y <= 0
    BY <2>1, <2>2, <2>3
  <2>4. ASSUME NEW x \in DOMAIN queue[t], queue'[t][y] = queue[t][x],
               Len(queue'[t]) - y <= Len(queue[t]) - x + (IF t = k[1] THEN 1 ELSE 0),
               ~(Len(queue'[t]) - y <= 0)
        PROVE  Len(queue'[t]) - y <= Cardinality(LaterIn(journal', t, i))
    <3>0. queue[t] \in Seq(Ids) /\ Len(queue[t]) \in Nat /\ x \in Nat /\ queue[t][x] \in Ids
      BY DEF IInv, TypeOK
    <3>1. i \in 1 .. n
      <4>1. CASE i = n + 1
        <5>1. k = <<t, queue[t][x]>>
          BY ZenonT(30), <1>2, <1>4, <2>4, <4>1
        <5>2. Holds(queue[k[1]], k[2])
          BY <5>1 DEF Holds
        <5>3. k \in decided
          BY ZenonT(30), <5>2 DEF IInv, StructuresAgree
        <5> QED
          BY ZenonT(30), <5>3
      <4> QED
        BY <1>2, <4>1
    <3>2. i \in Occurrences(<<t, queue[t][x]>>)
      BY ZenonT(30), <1>2, <1>4, <2>4, <3>1 DEF Occurrences
    <3>3. Len(queue[t]) - x <= Cardinality(LaterIn(journal, t, i))
      BY ZenonT(30), <3>2 DEF QueuesFollowJournal, Later, LaterIn
    <3>4. /\ Cardinality(LaterIn(journal, t, i)) \in Nat
          /\ t = k[1] => Cardinality(LaterIn(journal', t, i)) = Cardinality(LaterIn(journal, t, i)) + 1
          /\ t # k[1] => LaterIn(journal', t, i) = LaterIn(journal, t, i)
      <4>1. i \in 0 .. Len(journal)
        BY <1>1, <3>1
      <4> QED
        BY <1>1, <4>1, LaterAppend
    <3> DEFINE c == Cardinality(LaterIn(journal, t, i))
               e == Cardinality(LaterIn(journal', t, i))
    <3>5. CASE t = k[1]

      <4>1. e = c + 1 /\ c \in Nat /\ Len(queue[t]) - x <= c /\ Len(queue'[t]) - y <= Len(queue[t]) - x + 1
        BY ZenonT(30), <2>4, <3>3, <3>4, <3>5
      <4> HIDE DEF c, e
      <4> QED
        BY SMTT(30), <2>2, <3>0, <4>1 DEF e
    <3>6. CASE t # k[1]
      <4>1. e = c /\ c \in Nat /\ Len(queue[t]) - x <= c /\ Len(queue'[t]) - y <= Len(queue[t]) - x + 0
        BY ZenonT(30), <2>4, <3>3, <3>4, <3>6
      <4> HIDE DEF c, e
      <4> QED
        BY <2>2, <3>0, <4>1 DEF e
    <3> QED
      BY ZenonT(30), <3>5, <3>6
  <2> QED
    BY <2>3, <2>4, QueuePlaces
<1> QED
  BY ZenonT(30), <1>3, <1>4 DEF QueuesFollowJournal, Occurrences, Later, LaterIn

\* More tenants never make the share of each larger.
LEMMA ShareShrinks ==
  ASSUME tenants \subseteq Tenants, tenants' \subseteq Tenants, tenants \subseteq tenants'
  PROVE  Share' <= Share /\ Share' \in Nat
<1> DEFINE a == Larger(Cardinality(tenants), 1)
           b == Larger(Cardinality(tenants'), 1)
<1>1. /\ IsFiniteSet(tenants') /\ Cardinality(tenants) \in Nat /\ Cardinality(tenants') \in Nat
      /\ Cardinality(tenants) <= Cardinality(tenants')
  BY ZenonT(30), MemoryAssumption, FS_Subset, FS_CardinalityType
<1>2. a \in Nat /\ b \in Nat /\ 1 <= a /\ a <= b
  BY <1>1 DEF Larger
<1> HIDE DEF a, b
<1>3. ASSUME NEW m \in Nat PROVE m \div b <= m \div a /\ m \div b \in Nat /\ m \div a \in Nat
  <2> DEFINE q == m \div b
             d == m \div a
  <2>1. q \in Nat /\ d \in Nat /\ b * q <= m /\ m < a * d + a
    BY <1>2
  <2> HIDE DEF q, d
  <2>2. ASSUME q >= d + 1 PROVE FALSE
    <3>1. a * q <= b * q
      BY <1>2, <2>1
    <3>2. a * (d + 1) <= a * q
      BY <1>2, <2>1, <2>2
    <3>3. a * (d + 1) = a * d + a
      BY <1>2, <2>1
    <3>4. a * q \in Nat /\ b * q \in Nat /\ a * (d + 1) \in Nat /\ a * d + a \in Nat
      BY <1>2, <2>1
    <3> QED
      BY <2>1, <3>1, <3>2, <3>3, <3>4
  <2>3. q <= d
    BY <2>1, <2>2
  <2> QED
    BY ZenonT(30), <2>1, <2>3 DEF q, d
<1>4. /\ Share = Larger(Memory \div a, 1) /\ Share' = Larger(Memory \div b, 1)
  BY ZenonT(30) DEF Share, a, b
<1>5. Memory \div b <= Memory \div a /\ Memory \div b \in Nat /\ Memory \div a \in Nat
  BY ZenonT(30), <1>3, MemoryPositive
<1> QED
  BY <1>4, <1>5 DEF Larger

\* A decision lets go of no key that is still within both bounds, and keeps its
\* own: a key the tenant's bound evicts has a whole share behind it, one that the
\* common bound evicts is Memory decisions old.
LEMMA RememberKeeps ==
  ASSUME IInv, QueuesFollowJournal, FreshKeyKept,
         NEW g \in Keys, g \notin decided, remember(g), tenants' = tenants,
         NEW r \in [key : Keys, outcome : {"forwarded", "refused"}], r.key = g,
         journal' = Append(journal, r),
         NEW k \in Keys, NEW i \in Occurrences(k)',
         Cardinality(Occurrences(k)') = 1, Len(journal') - i < Memory,
         Cardinality(LaterIn(journal', k[1], i)) < Share
  PROVE  k \in decided'
<1> DEFINE R == [key : Keys, outcome : {"forwarded", "refused"}]
           n == Len(journal)
<1>1. /\ journal \in Seq(R) /\ order \in Seq(Keys) /\ n \in Nat /\ Len(order) \in Nat
      /\ Memory \in Nat /\ Memory >= 1 /\ Len(order) = Shorter(n, Memory)
      /\ Share \in Nat /\ Share >= 1
  BY MemoryPositive, SharePositive DEF IInv, TypeOK
<1>2. /\ Len(journal') = n + 1 /\ journal'[n + 1] = r /\ \A x \in 1 .. n : journal'[x] = journal[x]
      /\ DOMAIN journal' = 1 .. n + 1 /\ DOMAIN journal = 1 .. n
  BY <1>1
<1>3. \A x \in Occurrences(k)' : x = i
  <2>1. Occurrences(k)' \subseteq 1 .. n + 1
    BY ZenonT(30), <1>2 DEF Occurrences
  <2>2. IsFiniteSet(Occurrences(k)')
    BY <1>1, <2>1, IntervalSize, FS_Subset
  <2>3. PICK e : Occurrences(k)' = {e}
    BY ZenonT(30), <2>2, FS_Singleton
  <2> QED
    BY ZenonT(30), <2>3
<1>4. i \in 1 .. n + 1 /\ journal'[i].key = k
  BY ZenonT(30), <1>2 DEF Occurrences
<1>5. decided' = ((decided \cup {g}) \ Aged(g)) \ Oldest(g)
  BY ZenonT(30) DEF remember
<1>6. k \notin Oldest(g)
  <2> SUFFICES ASSUME Full, k = Head(order) PROVE FALSE
    BY ZenonT(30) DEF Oldest
  <2>1. Len(order) = Memory /\ order[1] = k /\ 1 \in DOMAIN order /\ Memory <= n
    BY <1>1 DEF Full, Shorter
  <2>2. k = journal[n - Memory + 1].key
    BY ZenonT(30), <2>1 DEF QueuesFollowJournal
  <2>3. n - Memory + 1 \in 1 .. n
    BY <1>1, <2>1
  <2>4. n - Memory + 1 \in Occurrences(k)'
    BY <1>2, <2>2, <2>3 DEF Occurrences
  <2>5. i = n - Memory + 1
    BY ZenonT(30), <1>3, <2>4
  <2> QED
    BY <1>1, <1>2, <2>1, <2>5
<1>7. k \in decided \cup {g} /\ k \notin Aged(g)
  <2>1. CASE k = g
    <3>1. \A x : Holds(Own(g), x) <=> <<g[1], x>> \notin Aged(g) /\ (x = g[2] \/ Holds(queue[g[1]], x))
      BY ZenonT(30), OwnLemma DEF IInv
    <3>2. ASSUME k \in Aged(g) PROVE FALSE
      <4>1. PICK x \in 1 .. Len(Pushed(g)) - Kept(g) : k = <<g[1], Pushed(g)[x]>>
        BY ZenonT(30), <3>2 DEF Aged
      <4> DEFINE m == Len(queue[g[1]])
      <4>2. /\ queue[g[1]] \in Seq(Ids) /\ m \in Nat /\ Len(Pushed(g)) = m + 1
            /\ \A w \in 1 .. m : Pushed(g)[w] = queue[g[1]][w]
        BY DEF IInv, TypeOK, Keys, Pushed
      <4>3. Kept(g) \in 1 .. m + 1
        BY <1>1, <4>2 DEF Kept
      <4>4. x \in 1 .. m
        BY <4>1, <4>2, <4>3
      <4>5. k[2] = queue[g[1]][x] /\ x \in DOMAIN queue[g[1]]
        BY <4>1, <4>2, <4>4
      <4>6. Holds(queue[g[1]], g[2])
        BY ZenonT(30), <2>1, <4>5 DEF Holds
      <4>7. g \in decided
        BY ZenonT(30), <4>6 DEF IInv, StructuresAgree
      <4> QED
        BY ZenonT(30), <4>7
    <3> QED
      BY ZenonT(30), <2>1, <3>2
  <2>2. CASE k # g
    <3>1. i \in 1 .. n /\ journal[i].key = k
      BY <1>1, <1>2, <1>4, <2>2
    <3>2. i \in Occurrences(k) /\ Occurrences(k) = {i}
      BY <1>2, <1>3, <3>1 DEF Occurrences
    <3>3. Cardinality(Occurrences(k)) = 1
      BY ZenonT(30), <3>2, FS_Singleton
    <3> DEFINE c == Cardinality(LaterIn(journal, k[1], i))
               e == Cardinality(LaterIn(journal', k[1], i))
    <3>4. c \in Nat /\ (g[1] = k[1] => e = c + 1) /\ (g[1] # k[1] => e = c)
      <4>1. i \in 0 .. Len(journal)
        BY <1>1, <3>1
      <4>2. ASSUME NEW t
            PROVE  /\ Cardinality(LaterIn(journal, t, i)) \in Nat
                   /\ g[1] = t => Cardinality(LaterIn(journal', t, i)) = Cardinality(LaterIn(journal, t, i)) + 1
                   /\ g[1] # t => LaterIn(journal', t, i) = LaterIn(journal, t, i)
        <5>1. journal' = Append(journal, r) /\ r \in R /\ r.key = g /\ journal \in Seq(R)
          BY ZenonT(30), <1>1
        <5> HIDE DEF R
        <5> DEFINE a == Append(journal, r)
        <5>2. /\ Cardinality(LaterIn(journal, t, i)) \in Nat
              /\ r.key[1] = t => Cardinality(LaterIn(a, t, i)) = Cardinality(LaterIn(journal, t, i)) + 1
              /\ r.key[1] # t => LaterIn(a, t, i) = LaterIn(journal, t, i)
          BY <4>1, <5>1, LaterAppend
        <5>3. journal' = a /\ r.key[1] = g[1]
          BY ZenonT(30), <5>1
        <5> HIDE DEF a
        <5> QED
          BY ZenonT(30), <5>2, <5>3
      <4> QED
        BY ZenonT(30), <4>2
    <3>5. e < Share
      OBVIOUS
    <3>6. Cardinality(Later(k[1], i)) = c
      BY ZenonT(30) DEF Later, LaterIn
    <3> HIDE DEF c, e
    <3>7. c < Share /\ n - i < Memory
      BY <1>1, <1>2, <3>1, <3>4, <3>5
    <3>8. k \in decided
      BY ZenonT(30), <3>2, <3>3, <3>6, <3>7 DEF FreshKeyKept
    <3>9. ASSUME k \in Aged(g) PROVE FALSE
      <4>1. PICK x \in 1 .. Len(Pushed(g)) - Kept(g) : k = <<g[1], Pushed(g)[x]>>
        BY ZenonT(30), <3>9 DEF Aged
      <4> DEFINE m == Len(queue[g[1]])
      <4>2. /\ queue[g[1]] \in Seq(Ids) /\ m \in Nat /\ Len(Pushed(g)) = m + 1 /\ g[1] \in Tenants
            /\ \A w \in 1 .. m : Pushed(g)[w] = queue[g[1]][w]
        BY DEF IInv, TypeOK, Keys, Pushed
      <4>3. Kept(g) \in 1 .. m + 1
        BY <1>1, <4>2 DEF Kept
      <4>4. x \in 1 .. m /\ Kept(g) = Share
        BY <1>1, <4>1, <4>2, <4>3 DEF Kept
      <4>5. k[1] = g[1] /\ k = <<g[1], queue[g[1]][x]>> /\ x \in DOMAIN queue[g[1]]
        BY <4>1, <4>2, <4>4
      <4>6. m - x <= c
        BY ZenonT(30), <3>2, <3>6, <4>2, <4>5 DEF QueuesFollowJournal
      <4>7. e = c + 1
        BY ZenonT(30), <3>4, <4>5
      <4>8. x <= m + 1 - Share
        BY <1>1, <4>1, <4>2, <4>4
      <4> HIDE DEF m
      <4> QED
        BY <1>1, <3>4, <3>5, <4>2, <4>4, <4>6, <4>7, <4>8
    <3> QED
      BY ZenonT(30), <3>8, <3>9
  <2> QED
    BY ZenonT(30), <2>1, <2>2
<1> QED
  BY ZenonT(30), <1>5, <1>6, <1>7

\* Every step keeps the promise to fresh keys.
LEMMA FreshStep ==
  ASSUME IInv, QueuesFollowJournal, FreshKeyKept, [Next]_vars
  PROVE  QueuesFollowJournal' /\ FreshKeyKept'
<1>1. ASSUME NEW g \in Keys, NEW o \in {"forwarded", "refused"}, Decided(g, o)
      PROVE  QueuesFollowJournal' /\ FreshKeyKept'
  <2> DEFINE r == [key |-> g, outcome |-> o]
  <2>1. /\ g \notin decided /\ remember(g) /\ tenants' = tenants /\ journal' = Append(journal, r)
    BY ZenonT(30), <1>1 DEF Decided
  <2>2. r \in [key : Keys, outcome : {"forwarded", "refused"}] /\ r.key = g
    OBVIOUS
  <2> HIDE DEF r
  <2>3. QueuesFollowJournal'
    BY ZenonT(30), <2>1, <2>2, RememberFollows
  <2>4. Share' = Share
    BY ZenonT(30), <2>1 DEF Share
  <2>5. ASSUME NEW k \in Keys, NEW i \in Occurrences(k)', Cardinality(Occurrences(k)') = 1,
               Len(journal') - i < Memory, Cardinality(Later(k[1], i)') < Share'
        PROVE  k \in decided'
    <3>1. Later(k[1], i)' = LaterIn(journal', k[1], i)
      BY ZenonT(30) DEF Later, LaterIn
    <3> QED
      BY ZenonT(30), <2>1, <2>2, <2>4, <2>5, <3>1, RememberKeeps
  <2>6. FreshKeyKept'
    BY ZenonT(30), <2>5 DEF FreshKeyKept, Later, Occurrences
  <2> QED
    BY ZenonT(30), <2>3, <2>6
<1>2. ASSUME NEW t \in Tenants, add_tenant(t)
      PROVE  QueuesFollowJournal' /\ FreshKeyKept'
  <2>1. /\ tenants \subseteq tenants' /\ tenants' \subseteq Tenants /\ tenants \subseteq Tenants
        /\ UNCHANGED <<decided, queue, order, journal>>
    BY ZenonT(30), <1>2 DEF add_tenant, IInv, TypeOK
  <2>2. QueuesFollowJournal'
    BY <2>1 DEF QueuesFollowJournal, Occurrences, Later
  <2>3. Share' <= Share /\ Share \in Nat /\ Share' \in Nat
    BY ZenonT(30), <2>1, ShareShrinks, SharePositive
  <2>4. ASSUME NEW k \in Keys, NEW i \in Occurrences(k), Cardinality(Occurrences(k)) = 1,
               Len(journal) - i < Memory, Cardinality(Later(k[1], i)) < Share'
        PROVE  k \in decided
    <3>1. Cardinality(Later(k[1], i)) \in Nat
      <4>1. journal \in Seq([key : Keys, outcome : {"forwarded", "refused"}]) /\ i \in 1 .. Len(journal)
        BY DEF IInv, TypeOK, Occurrences
      <4>2. Later(k[1], i) \subseteq 1 .. Len(journal)
        BY <4>1 DEF Later
      <4> QED
        BY <4>1, <4>2, IntervalSize, FS_Subset, FS_CardinalityType
    <3>2. Cardinality(Later(k[1], i)) < Share
      BY <2>3, <2>4, <3>1
    <3> QED
      BY ZenonT(30), <2>4, <3>2 DEF FreshKeyKept
  <2>5. FreshKeyKept'
    BY ZenonT(30), <2>1, <2>4 DEF FreshKeyKept, Later, Occurrences
  <2> QED
    BY ZenonT(30), <2>2, <2>5
<1>3. CASE UNCHANGED vars
  <2>1. UNCHANGED <<tenants, decided, queue, order, journal>>
    BY ZenonT(30), <1>3 DEF vars
  <2>2. /\ \A k : Occurrences(k)' = Occurrences(k)
        /\ \A t, i : Later(t, i)' = Later(t, i)
        /\ Share' = Share
    BY ZenonT(30), <2>1 DEF Occurrences, Later, Share
  <2>3. QueuesFollowJournal'
    BY <2>1 DEF QueuesFollowJournal, Occurrences, Later
  <2>4. FreshKeyKept'
    BY ZenonT(30), <2>1, <2>2 DEF FreshKeyKept
  <2> QED
    BY ZenonT(30), <2>3, <2>4
<1> QED
  BY ZenonT(30), <1>1, <1>2, <1>3 DEF Next, Forward, CellRefused

\* A request id a client uses once is suppressed until its tenant has used up its
\* share with later ones or replay_memory later ones were decided, for any number
\* of tenants, also when tenants are added meanwhile (remember, add_tenant).
THEOREM FreshKeysAreKept == Spec => []FreshKeyKept
<1>1. Init => QueuesFollowJournal /\ FreshKeyKept
  BY DEF Init, QueuesFollowJournal, FreshKeyKept, Occurrences
<1>2. IInv /\ QueuesFollowJournal /\ FreshKeyKept /\ [Next]_vars
        => QueuesFollowJournal' /\ FreshKeyKept'
  BY ZenonT(30), FreshStep
<1> QED
  BY <1>1, <1>2, AlwaysIInv, PTL DEF Spec
=============================================================================
