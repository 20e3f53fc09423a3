----------------------- MODULE ConversationBusProofs ------------------------
(***************************************************************************)
(* Proofs about ConversationBus, for any participants, topics, number of   *)
(* convenes, cap on turns and drawn gains.                                 *)
(***************************************************************************)
EXTENDS ConversationBus, FiniteSetTheorems, SequenceTheorems, WellFoundedInduction, TLAPS

-----------------------------------------------------------------------------
(* Natural numbers, sets and lists                                         *)

\* A set of natural numbers that has a member has a least one.  Counting up to
\* a counterexample with it stands in for induction below.
LEMMA LeastNat ==
    ASSUME NEW I \in SUBSET Nat, I # {}
    PROVE  Least(I) \in I /\ \A j \in I : Least(I) <= j
<1> DEFINE LT == {ss \in Nat \X Nat : ss[1] < ss[2]}
<1>1. IsWellFoundedOn(LT, Nat)
  BY NatLessThanWellFounded DEF OpToRel
<1>2. PICK x \in I : \A y \in I : <<y, x>> \notin LT
  <2> HIDE DEF LT
  <2> QED BY <1>1, WFMin
<1>3. ASSUME NEW y \in I PROVE x <= y
  <2>1. <<y, x>> \notin LT
    <3> HIDE DEF LT
    <3> QED BY <1>2
  <2>2. y \in Nat /\ x \in Nat
    OBVIOUS
  <2> QED BY <2>1, <2>2
<1> HIDE DEF LT
<1>4. \A y \in I : x <= y
  BY <1>3
<1> QED BY <1>4 DEF Least

LEMMA ElementsOf ==
    ASSUME NEW S, NEW q \in Seq(S)
    PROVE  /\ Elements(q) = {q[i] : i \in 1..Len(q)}
           /\ Elements(q) \subseteq S
BY LenProperties DEF Elements

\* A list without repetition has as many elements as places.
LEMMA DistinctCount ==
    ASSUME NEW S, NEW q \in Seq(S), Distinct(q)
    PROVE  IsFiniteSet(Elements(q)) /\ Cardinality(Elements(q)) = Len(q)
<1>1. Len(q) \in Nat /\ DOMAIN q = 1..Len(q) /\ q \in [1..Len(q) -> Elements(q)]
  BY LenProperties, ElementsOf
<1>2. q \in Bijection(1..Len(q), Elements(q))
  BY <1>1, ElementsOf DEF Distinct, Bijection, Injection, Surjection, IsInjective
<1>3. ExistsBijection(1..Len(q), Elements(q))
  BY <1>2 DEF ExistsBijection
<1> QED BY <1>1, <1>3, FS_CountingElements, FS_NatBijection

LEMMA RestOf ==
    ASSUME NEW S, NEW q \in Seq(S), NEW i \in 1..Len(q) + 1
    PROVE  LET rest == SubSeq(q, i + 1, Len(q))
           IN  /\ rest \in Seq(S)
               /\ Elements(rest) = {q[j] : j \in i + 1..Len(q)}
               /\ Distinct(q) => Distinct(rest)
<1> DEFINE rest == SubSeq(q, i + 1, Len(q))
<1>1. rest \in Seq(S)
  OBVIOUS
<1>2. \A k \in 1..Len(rest) : i + k \in i + 1..Len(q) /\ rest[k] = q[i + k]
  OBVIOUS
<1>3. \A j \in i + 1..Len(q) : j - i \in 1..Len(rest) /\ rest[j - i] = q[j]
  OBVIOUS
<1>4. \A k \in 1..Len(rest) : i + k \in 1..Len(q)
  OBVIOUS
<1> HIDE DEF rest
<1>d. DOMAIN rest = 1..Len(rest) /\ DOMAIN q = 1..Len(q) /\ Len(rest) \in Nat
  BY <1>1, LenProperties
<1>5. Elements(rest) = {q[j] : j \in i + 1..Len(q)}
  <2>1. ASSUME NEW j \in i + 1..Len(q) PROVE q[j] \in Elements(rest)
    BY <1>3, <1>d DEF Elements
  <2>2. ASSUME NEW a \in Elements(rest) PROVE a \in {q[j] : j \in i + 1..Len(q)}
    BY <1>2, <1>d DEF Elements
  <2> QED BY <2>1, <2>2
<1>6. ASSUME Distinct(q) PROVE Distinct(rest)
  <2> SUFFICES ASSUME NEW k \in 1..Len(rest), NEW l \in 1..Len(rest), rest[k] = rest[l]
               PROVE  k = l
    BY <1>d DEF Distinct
  <2>1. i + k \in DOMAIN q /\ i + l \in DOMAIN q /\ q[i + k] = q[i + l]
    BY <1>2, <1>4, <1>d
  <2>2. i + k = i + l
    BY <1>6, <2>1 DEF Distinct
  <2> QED BY <2>2, <1>d
<1> QED BY <1>1, <1>5, <1>6 DEF rest

LEMMA AppendOf ==
    ASSUME NEW S, NEW q \in Seq(S), NEW a \in S
    PROVE  /\ Append(q, a) \in Seq(S)
           /\ Elements(Append(q, a)) = Elements(q) \cup {a}
           /\ Distinct(q) /\ a \notin Elements(q) => Distinct(Append(q, a))
<1> DEFINE w == Append(q, a)
<1>1. w \in Seq(S) /\ Len(w) = Len(q) + 1 /\ Len(q) \in Nat
  OBVIOUS
<1>2. (\A k \in 1..Len(q) : w[k] = q[k]) /\ w[Len(q) + 1] = a
  OBVIOUS
<1> HIDE DEF w
<1>3. DOMAIN w = 1..Len(q) + 1 /\ DOMAIN q = 1..Len(q)
  BY <1>1, LenProperties
<1>4. Elements(w) = Elements(q) \cup {a}
  BY <1>1, <1>2, <1>3 DEF Elements
<1>5. ASSUME Distinct(q), a \notin Elements(q) PROVE Distinct(w)
  BY <1>1, <1>2, <1>3, <1>5 DEF Distinct, Elements
<1> QED BY <1>1, <1>4, <1>5 DEF w

LEMMA ConcatOf ==
    ASSUME NEW S, NEW p \in Seq(S), NEW q \in Seq(S)
    PROVE  /\ p \o q \in Seq(S)
           /\ Elements(p \o q) = Elements(p) \cup Elements(q)
           /\ Distinct(p) /\ Distinct(q) /\ Elements(p) \cap Elements(q) = {} => Distinct(p \o q)
<1> DEFINE w == p \o q
<1>1. w \in Seq(S) /\ Len(w) = Len(p) + Len(q) /\ Len(p) \in Nat /\ Len(q) \in Nat
  BY ConcatProperties, LenProperties
<1>2. \A k \in 1..Len(p) : k \in 1..Len(w) /\ w[k] = p[k]
  OBVIOUS
<1>3. \A k \in 1..Len(q) : Len(p) + k \in 1..Len(w) /\ w[Len(p) + k] = q[k]
  OBVIOUS
<1>4. \A k \in 1..Len(w) : k \in 1..Len(p) \/ (k - Len(p) \in 1..Len(q) /\ w[k] = q[k - Len(p)])
  OBVIOUS
<1> HIDE DEF w
<1>5. DOMAIN w = 1..Len(w) /\ DOMAIN p = 1..Len(p) /\ DOMAIN q = 1..Len(q)
  BY <1>1, LenProperties
<1>6. Elements(w) = Elements(p) \cup Elements(q)
  <2>1. Elements(w) \subseteq Elements(p) \cup Elements(q)
    BY <1>2, <1>4, <1>5 DEF Elements
  <2>2. Elements(p) \subseteq Elements(w)
    BY <1>2, <1>5 DEF Elements
  <2>3. Elements(q) \subseteq Elements(w)
    BY <1>3, <1>5 DEF Elements
  <2> QED BY <2>1, <2>2, <2>3
<1>7. ASSUME Distinct(p), Distinct(q), Elements(p) \cap Elements(q) = {} PROVE Distinct(w)
  <2> SUFFICES ASSUME NEW k \in 1..Len(w), NEW l \in 1..Len(w), w[k] = w[l] PROVE k = l
    BY <1>5 DEF Distinct
  <2>1. \A i \in 1..Len(p), j \in 1..Len(q) : p[i] # q[j]
    BY <1>5, <1>7 DEF Elements
  <2>2. CASE k \in 1..Len(p) /\ l \in 1..Len(p)
    BY <1>2, <1>5, <1>7, <2>2 DEF Distinct
  <2>3. CASE k \in 1..Len(p) /\ l \notin 1..Len(p)
    BY <1>2, <1>4, <2>1, <2>3
  <2>4. CASE k \notin 1..Len(p) /\ l \in 1..Len(p)
    BY <1>2, <1>4, <2>1, <2>4
  <2>5. CASE k \notin 1..Len(p) /\ l \notin 1..Len(p)
    <3>1. k - Len(p) = l - Len(p)
      BY <1>4, <1>5, <1>7, <2>5 DEF Distinct
    <3> QED BY <1>1, <3>1
  <2> QED BY <2>2, <2>3, <2>4, <2>5
<1> QED BY <1>1, <1>6, <1>7 DEF w

\* What a mention leaves of the queue: the others, each as often as before.
LEMMA WithoutOf ==
    ASSUME NEW T, NEW q \in Seq(T), NEW S
    PROVE  /\ Without(q, S) \in Seq(T)
           /\ Elements(Without(q, S)) = Elements(q) \ S
           /\ Distinct(q) => Distinct(Without(q, S))
<1> DEFINE L == Len(q)
           Step(w, m) == IF q[m] \in S THEN w ELSE Append(w, q[m])
           Kept(f, n) == f = [m \in 0..n |-> IF m = 0 THEN <<>> ELSE Step(f[m - 1], m)]
           Good(w, n) == /\ w \in Seq(T)
                         /\ Elements(w) = {q[j] : j \in 1..n} \ S
                         /\ Distinct(q) => Distinct(w)
           all == CHOOSE f : Kept(f, L)
<1>0. L \in Nat /\ DOMAIN q = 1..L /\ \A j \in 1..L : q[j] \in T
  BY LenProperties
<1>1. \A n \in 0..L : \E f : Kept(f, n)
  <2> DEFINE Bad == {n \in 0..L : ~\E f : Kept(f, n)}
  <2> SUFFICES ASSUME Bad # {} PROVE FALSE
    OBVIOUS
  <2> DEFINE n == Least(Bad)
  <2>1. n \in Bad /\ \A j \in Bad : n <= j
    <3>1. Bad \in SUBSET Nat
      BY <1>0
    <3> HIDE DEF Bad
    <3> QED BY <3>1, LeastNat
  <2>2. n # 0
    <3>1. Kept([m \in 0..0 |-> <<>>], 0)
      OBVIOUS
    <3> QED BY <2>1, <3>1
  <2>3. n - 1 \in 0..L /\ n - 1 \notin Bad /\ n \in 1..L
    <3> HIDE DEF n
    <3>1. n \in 0..L
      BY <2>1
    <3>2. n - 1 \in 0..L /\ n \in 1..L
      BY <1>0, <2>2, <3>1
    <3> HIDE DEF Bad
    <3> QED BY <2>1, <3>2
  <2>4. PICK f : Kept(f, n - 1)
    BY <2>3
  <2> DEFINE g == [m \in 0..n |-> IF m = n THEN Step(f[n - 1], n) ELSE f[m]]
  <2> HIDE DEF n
  <2>5. Kept(g, n)
    <3>1. \A m \in 0..n : g[m] = IF m = 0 THEN <<>> ELSE Step(g[m - 1], m)
      <4> SUFFICES ASSUME NEW m \in 0..n
                   PROVE  g[m] = IF m = 0 THEN <<>> ELSE Step(g[m - 1], m)
        OBVIOUS
      <4>1. CASE m = n
        <5>1. g[n] = Step(f[n - 1], n) /\ g[n - 1] = f[n - 1] /\ n # 0
          <6> HIDE DEF Step
          <6> QED BY <2>2, <2>3
        <5> HIDE DEF g, Step
        <5> QED BY <4>1, <5>1
      <4>2. CASE m # n
        <5>1. m \in 0..n - 1 /\ g[m] = f[m] /\ (m # 0 => g[m - 1] = f[m - 1])
          <6> HIDE DEF Step
          <6> QED BY <2>3, <4>2
        <5>2. f[m] = IF m = 0 THEN <<>> ELSE Step(f[m - 1], m)
          <6> HIDE DEF Step, g
          <6> QED BY <2>4, <5>1
        <5> HIDE DEF g, Step
        <5> QED BY <5>1, <5>2
      <4> QED BY <4>1, <4>2
    <3> HIDE DEF Step
    <3> QED BY <3>1
  <2> QED BY <2>1, <2>5 DEF n
<1>2. Kept(all, L)
  <2> HIDE DEF Kept
  <2> QED BY <1>0, <1>1
<1>3. Without(q, S) = all[L]
  BY DEF Without
<1> HIDE DEF all
<1>4. all[0] = <<>> /\ \A n \in 1..L : all[n] = Step(all[n - 1], n)
  <2> HIDE DEF Step
  <2>1. \A n \in 0..L : all[n] = IF n = 0 THEN <<>> ELSE Step(all[n - 1], n)
    BY <1>2
  <2> QED BY <1>0, <2>1
<1>5. Good(<<>>, 0)
  BY DEF Elements, Distinct
<1>6. ASSUME NEW n \in 1..L, Good(all[n - 1], n - 1) PROVE Good(all[n], n)
  <2> DEFINE w == all[n - 1]
  <2>1. all[n] = Step(w, n) /\ q[n] \in T
    BY <1>0, <1>4
  <2>2. {q[j] : j \in 1..n} = {q[j] : j \in 1..n - 1} \cup {q[n]}
    BY <1>0
  <2>3. w \in Seq(T) /\ Elements(w) = {q[j] : j \in 1..n - 1} \ S /\ (Distinct(q) => Distinct(w))
    BY <1>6
  <2> HIDE DEF w
  <2>4. CASE q[n] \in S
    BY <2>1, <2>2, <2>3, <2>4
  <2>5. CASE q[n] \notin S
    <3>1. all[n] = Append(w, q[n])
      BY <2>1, <2>5
    <3>2. Distinct(q) => q[n] \notin Elements(w)
      BY <1>0, <2>3 DEF Distinct
    <3>3. /\ Append(w, q[n]) \in Seq(T)
          /\ Elements(Append(w, q[n])) = Elements(w) \cup {q[n]}
          /\ Distinct(w) /\ q[n] \notin Elements(w) => Distinct(Append(w, q[n]))
      BY <2>1, <2>3, AppendOf
    <3> QED BY <2>2, <2>3, <2>5, <3>1, <3>2, <3>3
  <2> QED BY <2>4, <2>5
<1>7. \A n \in 0..L : Good(all[n], n)
  <2> HIDE DEF Good
  <2> DEFINE Bad == {n \in 0..L : ~Good(all[n], n)}
  <2> SUFFICES ASSUME Bad # {} PROVE FALSE
    OBVIOUS
  <2> DEFINE n == Least(Bad)
  <2>1. n \in Bad /\ \A j \in Bad : n <= j
    <3>1. Bad \in SUBSET Nat
      BY <1>0
    <3> HIDE DEF Bad
    <3> QED BY <3>1, LeastNat
  <2> HIDE DEF n
  <2>2. n # 0
    BY <1>4, <1>5, <2>1
  <2>3. n \in 1..L /\ n - 1 \in 0..L /\ n - 1 \notin Bad
    BY <1>0, <2>1, <2>2
  <2>4. Good(all[n], n)
    BY <1>6, <2>3
  <2> QED BY <2>1, <2>4
<1>8. Good(all[L], L)
  <2> HIDE DEF Good
  <2> QED BY <1>0, <1>7
<1>9. Elements(q) = {q[j] : j \in 1..L}
  BY ElementsOf
<1> HIDE DEF L
<1> QED BY <1>3, <1>8, <1>9

-----------------------------------------------------------------------------
(* The speaker queue                                                       *)

LEMMA ListOf ==
    ASSUME NEW q \in Lists(Agents)
    PROVE  q \in Seq(Agents) /\ Distinct(q)
<1>1. PICK n \in 0..Cardinality(Agents) : q \in [1..n -> Agents] /\ Distinct(q)
  BY DEF Lists
<1>2. n \in Nat
  BY FS_CardinalityType, BusAssumption
<1> QED BY <1>1, <1>2, SeqDef

LEMMA MentionOf ==
    ASSUME NEW q \in Seq(Agents), Distinct(q), NEW ms \in Seq(Agents), Distinct(ms)
    PROVE  /\ Mention(q, ms) \in Seq(Agents)
           /\ Distinct(Mention(q, ms))
           /\ Elements(Mention(q, ms)) = Elements(ms) \cup Elements(q)
<1> DEFINE w == Without(q, Elements(ms))
<1>1. w \in Seq(Agents) /\ Elements(w) = Elements(q) \ Elements(ms) /\ Distinct(w)
  BY WithoutOf
<1> HIDE DEF w
<1>2. /\ ms \o w \in Seq(Agents)
      /\ Elements(ms \o w) = Elements(ms) \cup Elements(w)
      /\ Distinct(ms \o w)
  BY <1>1, ConcatOf
<1> QED BY <1>1, <1>2 DEF Mention, w

LEMMA RefillOf ==
    ASSUME NEW q \in Seq(Agents), Distinct(q), NEW ps \in Seq(Agents), NEW a, NEW n
    PROVE  /\ Refill(q, ps, a, n) \in Seq(Agents)
           /\ Distinct(Refill(q, ps, a, n))
           /\ Elements(q) \subseteq Elements(Refill(q, ps, a, n))
           /\ Elements(Refill(q, ps, a, n)) \subseteq Elements(q) \cup (Elements(ps) \ {a})
<1> DEFINE others == {i \in DOMAIN ps : ps[i] # a}
<1>1. CASE Refill(q, ps, a, n) = q
  BY <1>1
<1>2. CASE q = <<>> /\ others # {} /\ Refill(q, ps, a, n) = <<ps[Least(others)]>>
  <2>1. others \in SUBSET Nat
    BY LenProperties
  <2>2. Least(others) \in others
    <3> HIDE DEF others
    <3> QED BY <1>2, <2>1, LeastNat
  <2> DEFINE b == ps[Least(others)]
  <2>3. b \in Agents /\ b \in Elements(ps) /\ b # a
    BY <2>2, LenProperties DEF Elements
  <2> HIDE DEF b
  <2>4. <<b>> \in Seq(Agents) /\ Distinct(<<b>>) /\ Elements(<<b>>) = {b} /\ Elements(<<>>) = {}
    BY <2>3 DEF Distinct, Elements
  <2> QED BY <1>2, <2>3, <2>4 DEF b
<1> QED BY <1>1, <1>2 DEF Refill

LEMMA SpokenOf ==
    ASSUME NEW r \in Calls, r.speaker \in Agents, r.turns < MaxTurns, Distinct(r.queue),
           NEW ps \in Seq(Agents), Elements(r.queue) \subseteq Elements(ps),
           NEW ms \in Lists(Agents), Elements(ms) \subseteq Elements(ps)
    PROVE  LET n == Spoken(r, ps, ms)
           IN  /\ n \in Calls
               /\ n.at = r.at /\ n.why = r.why /\ n.topic = r.topic
               /\ n.noticed = r.noticed /\ n.failed = r.failed /\ n.confidence = r.confidence
               /\ n.turns = r.turns + 1 /\ n.answered = r.answered \cup {r.speaker}
               /\ n.speaker = NoAgent
               /\ Distinct(n.queue)
               /\ Elements(r.queue) \subseteq Elements(n.queue)
               /\ Elements(n.queue) \subseteq Elements(ps)
<1> DEFINE m == Mention(r.queue, ms)
           q == Refill(m, ps, r.speaker, r.turns + 1)
<1>1. r.queue \in Seq(Agents) /\ ms \in Seq(Agents) /\ Distinct(ms)
  BY ListOf DEF Calls
<1>2. m \in Seq(Agents) /\ Distinct(m) /\ Elements(m) = Elements(ms) \cup Elements(r.queue)
  BY <1>1, MentionOf
<1> HIDE DEF m
<1>3. /\ q \in Seq(Agents) /\ Distinct(q) /\ Elements(m) \subseteq Elements(q)
      /\ Elements(q) \subseteq Elements(m) \cup (Elements(ps) \ {r.speaker})
  BY <1>2, RefillOf
<1>4. Spoken(r, ps, ms) = [r EXCEPT !.turns = r.turns + 1, !.answered = r.answered \cup {r.speaker},
                                    !.queue = q, !.speaker = NoAgent]
  BY DEF Spoken, Calls, m, q
<1>5. r.turns + 1 \in 0..MaxTurns /\ r.answered \cup {r.speaker} \in SUBSET Agents
  BY BusAssumption DEF Calls
<1> HIDE DEF q
<1>6. Spoken(r, ps, ms) \in Calls
  BY <1>3, <1>4, <1>5 DEF Calls
<1> QED BY <1>2, <1>3, <1>4, <1>6 DEF Calls

-----------------------------------------------------------------------------
(* The loop of convene                                                     *)

LEMMA NoticedOf ==
    ASSUME NEW q \in Seq(Agents), NEW s, NEW i \in 1..Len(q) + 1
    PROVE  /\ Noticed(q, s, i) \subseteq Elements(q) /\ Noticed(q, s, i) \subseteq Agents
           /\ Refused(q, s, i) \subseteq Elements(q) /\ Refused(q, s, i) \subseteq Agents
           /\ Cardinality(Noticed(q, s, i)) \in Nat
           /\ Cardinality(Noticed(q, s, i)) = 0 <=> Noticed(q, s, i) = {}
           /\ i = 1 => Cardinality(Noticed(q, s, i)) = 0
           /\ i > 1 => Cardinality(Noticed(q, s, i)) <= Cardinality(Noticed(q, s, i - 1)) + 1
<1> DEFINE N(k) == Noticed(q, s, k)
<1>1. Elements(q) = {q[j] : j \in 1..Len(q)} /\ Elements(q) \subseteq Agents /\ Len(q) \in Nat
  BY ElementsOf, LenProperties
<1>2. \A k \in 1..Len(q) + 1 : N(k) \subseteq Elements(q) /\ Refused(q, s, k) \subseteq Elements(q)
  BY <1>1 DEF Noticed, Refused
<1>3. \A k \in 1..Len(q) + 1 : IsFiniteSet(N(k)) /\ Cardinality(N(k)) \in Nat
  <2> HIDE DEF N
  <2> QED BY <1>1, <1>2, BusAssumption, FS_Subset, FS_CardinalityType
<1>4. i = 1 => N(i) = {}
  BY DEF Noticed
<1>5. ASSUME i > 1 PROVE Cardinality(N(i)) <= Cardinality(N(i - 1)) + 1
  <2>1. i - 1 \in 1..Len(q) + 1
    BY <1>1, <1>5
  <2>2. N(i) \subseteq N(i - 1) \cup {q[i - 1]}
    BY <1>1, <1>5 DEF Noticed
  <2> DEFINE W == N(i - 1)
             b == q[i - 1]
  <2>3. IsFiniteSet(W) /\ Cardinality(W) \in Nat /\ N(i) \subseteq W \cup {b}
    <3> HIDE DEF N
    <3> QED BY <1>3, <2>1, <2>2
  <2> HIDE DEF N, W, b
  <2>4. /\ IsFiniteSet(W \cup {b})
        /\ Cardinality(W \cup {b}) = Cardinality(W) \/ Cardinality(W \cup {b}) = Cardinality(W) + 1
    BY <2>3, FS_AddElement
  <2>5. Cardinality(N(i)) <= Cardinality(W \cup {b}) /\ Cardinality(N(i)) \in Nat
    BY <2>3, <2>4, FS_Subset, FS_CardinalityType
  <2>6. Cardinality(N(i)) <= Cardinality(W) + 1
    BY <2>3, <2>4, <2>5
  <2> QED BY <2>6 DEF W
<1>6. Cardinality(N(i)) = 0 <=> N(i) = {}
  BY <1>3, FS_EmptySet
<1> QED BY <1>1, <1>2, <1>3, <1>4, <1>5, <1>6

LEMMA HaltOf ==
    ASSUME NEW r \in Calls, NEW s
    PROVE  LET i == Halt(r, s)
           IN  /\ i \in 1..Len(r.queue) + 1
               /\ \/ i = Len(r.queue) + 1
                  \/ r.turns + Cardinality(Noticed(r.queue, s, i)) >= MaxTurns
                  \/ Streams(s, r.queue[i])
               /\ \A j \in 1..i - 1 : ~Streams(s, r.queue[j])
               /\ r.turns + Cardinality(Noticed(r.queue, s, i)) \in 0..MaxTurns
<1> DEFINE q == r.queue
           C(k) == Cardinality(Noticed(q, s, k))
           Stop(k) == k = Len(q) + 1 \/ r.turns + C(k) >= MaxTurns \/ Streams(s, q[k])
           I == {k \in 1..Len(q) + 1 : Stop(k)}
           i == Halt(r, s)
<1>1. q \in Seq(Agents) /\ Len(q) \in Nat /\ r.turns \in 0..MaxTurns /\ MaxTurns \in Nat
  BY BusAssumption, LenProperties DEF Calls
<1>2. i = Least(I)
  BY DEF Halt
<1> HIDE DEF q, i, Stop, C
<1>3. i \in I /\ \A j \in I : i <= j
  <2>1. Len(q) + 1 \in I
    BY <1>1 DEF Stop
  <2>2. I \in SUBSET Nat
    BY <1>1
  <2> HIDE DEF I
  <2> QED BY <1>2, <2>1, <2>2, LeastNat
<1>4. i \in 1..Len(q) + 1 /\ Stop(i)
  BY <1>3
<1>5. \A j \in 1..i - 1 : ~Stop(j)
  BY <1>1, <1>3, <1>4
<1>6. \A k \in 1..Len(q) + 1 : C(k) \in Nat /\ (k = 1 => C(k) = 0) /\ (k > 1 => C(k) <= C(k - 1) + 1)
  BY <1>1, NoticedOf DEF C
<1>7. r.turns + C(i) \in 0..MaxTurns
  <2>1. CASE i = 1
    BY <1>1, <1>4, <1>6, <2>1
  <2>2. CASE i # 1
    <3>1. i > 1 /\ i - 1 \in 1..i - 1 /\ i - 1 \in 1..Len(q) + 1
      BY <1>1, <1>4, <2>2
    <3>2. r.turns + C(i - 1) < MaxTurns
      <4>1. ~(r.turns + C(i - 1) >= MaxTurns) /\ C(i - 1) \in Nat
        BY <1>5, <1>6, <3>1 DEF Stop
      <4> QED BY <1>1, <4>1
    <3>3. C(i - 1) \in Nat /\ C(i) \in Nat /\ C(i) <= C(i - 1) + 1
      BY <1>4, <1>6, <3>1
    <3> QED BY <1>1, <3>2, <3>3
  <2> QED BY <2>1, <2>2
<1> QED BY <1>4, <1>5, <1>7 DEF q, i, Stop, C

\* A debate that ends keeps its topic and who has spoken, been noticed or failed.
LEMMA EndedOf ==
    ASSUME NEW r \in Calls, NEW w \in {"converged", "drained", "cap", "failed", "aborted"}
    PROVE  /\ Ended(r, w) \in Calls /\ Ended(r, w).at = "ended" /\ Ended(r, w).why = w
           /\ Ended(r, w).topic = r.topic /\ Ended(r, w).answered = r.answered
           /\ Ended(r, w).noticed = r.noticed /\ Ended(r, w).failed = r.failed
<1>1. <<>> \in Seq(Agents)
  OBVIOUS
<1>2. Ended(r, w) \in Calls
  BY <1>1 DEF Ended, Idle, Calls
<1>3. /\ Ended(r, w).at = "ended" /\ Ended(r, w).why = w
      /\ Ended(r, w).topic = r.topic /\ Ended(r, w).answered = r.answered
  BY DEF Ended, Idle
<1>4. Ended(r, w).noticed = r.noticed /\ Ended(r, w).failed = r.failed
  BY DEF Ended, Idle
<1> QED BY <1>2, <1>3, <1>4

\* What the speech loop, entered with r, comes to: the next speaker streams, or
\* the debate is at its cap or out of speakers.
Looped(l, r) ==
    /\ l \in Calls /\ l.topic = r.topic /\ l.answered = r.answered
    /\ r.noticed \subseteq l.noticed /\ l.noticed \subseteq r.noticed \cup Elements(r.queue)
    /\ r.failed \subseteq l.failed /\ l.failed \subseteq r.failed \cup Elements(r.queue)
    /\ \/ /\ l.at = "streaming" /\ l.why = "none" /\ l.turns < MaxTurns
          /\ l.confidence = r.confidence
          /\ Distinct(l.queue) /\ Elements(l.queue) \subseteq Elements(r.queue)
          /\ l.speaker \in Elements(r.queue) \ Elements(l.queue)
          /\ Elements(r.queue) \subseteq l.noticed \cup l.failed
                                         \cup Elements(l.queue) \cup {l.speaker}
          /\ l.noticed = {} => l.turns = r.turns
       \/ /\ l.at = "ended" /\ l.why \in {"cap", "drained"}
          /\ l.why = "drained" => Elements(r.queue) \subseteq l.noticed \cup l.failed
          /\ l.why = "cap" /\ l.noticed = {} => r.turns = MaxTurns

\* Up to the next stream or to its end, the loop passes over a part of the
\* queue and finds each of those members unreachable.
LEMMA LoopOf ==
    ASSUME NEW r \in Calls, r.topic \in Topics, r.why = "none", r.speaker = NoAgent,
           Distinct(r.queue), NEW s \in [Agents -> Standings]
    PROVE  Looped(Loop(r, s), r)
<1> DEFINE q == r.queue
           i == Halt(r, s)
           no == Noticed(q, s, i)
           re == Refused(q, s, i)
           rest == SubSeq(q, i + 1, Len(q))
           passed == [r EXCEPT !.turns = r.turns + Cardinality(no),
                               !.noticed = r.noticed \cup no, !.failed = r.failed \cup re,
                               !.queue = rest]
           l == Loop(r, s)
<1>1. l = IF passed.turns >= MaxTurns THEN Ended(passed, "cap")
          ELSE IF i > Len(q) THEN Ended(passed, "drained")
          ELSE [passed EXCEPT !.at = "streaming", !.speaker = q[i], !.live = s[q[i]] = "live"]
  BY DEF Loop, Calls
<1>2. /\ q \in Seq(Agents) /\ Len(q) \in Nat /\ DOMAIN q = 1..Len(q)
      /\ Elements(q) = {q[j] : j \in 1..Len(q)}
      /\ \A j \in 1..Len(q) : q[j] \in Agents
  BY LenProperties, ElementsOf DEF Calls
<1>3. /\ i \in 1..Len(q) + 1 /\ \A j \in 1..i - 1 : ~Streams(s, q[j])
      /\ r.turns + Cardinality(no) \in 0..MaxTurns
      /\ \/ i = Len(q) + 1
         \/ r.turns + Cardinality(no) >= MaxTurns
         \/ Streams(s, q[i])
  BY HaltOf
<1> HIDE DEF i, l
<1>4. /\ no \subseteq Elements(q) /\ no \subseteq Agents
      /\ re \subseteq Elements(q) /\ re \subseteq Agents
      /\ Cardinality(no) \in Nat /\ (Cardinality(no) = 0 <=> no = {})
  BY <1>2, <1>3, NoticedOf
<1>5. rest \in Seq(Agents) /\ Elements(rest) = {q[j] : j \in i + 1..Len(q)} /\ Distinct(rest)
  BY <1>2, <1>3, RestOf
<1>6. \A j \in 1..i - 1 : q[j] \in no \cup re
  BY <1>2, <1>3 DEF Streams, Standings, Noticed, Refused
<1> HIDE DEF no, re, rest
<1>7. /\ passed \in Calls /\ passed.topic = r.topic /\ passed.why = "none"
      /\ passed.speaker = NoAgent /\ passed.answered = r.answered
      /\ passed.confidence = r.confidence /\ passed.turns = r.turns + Cardinality(no)
      /\ passed.noticed = r.noticed \cup no /\ passed.failed = r.failed \cup re
      /\ passed.queue = rest
  BY <1>3, <1>4, <1>5 DEF Calls
<1> HIDE DEF passed, q
<1>8. passed.turns \in 0..MaxTurns /\ r.turns \in 0..MaxTurns /\ MaxTurns \in Nat
  BY <1>7, BusAssumption DEF Calls
<1>9. \A w \in {"cap", "drained"} :
         /\ Ended(passed, w) \in Calls /\ Ended(passed, w).at = "ended" /\ Ended(passed, w).why = w
         /\ Ended(passed, w).topic = r.topic /\ Ended(passed, w).answered = r.answered
         /\ Ended(passed, w).noticed = r.noticed \cup no /\ Ended(passed, w).failed = r.failed \cup re
  BY <1>7, EndedOf
<1>10. CASE passed.turns >= MaxTurns
  <2>1. l = Ended(passed, "cap")
    BY <1>1, <1>10
  <2>2. r.noticed \cup no = {} => r.turns = MaxTurns
    BY <1>4, <1>7, <1>8, <1>10
  <2>3. l.why = "cap" /\ l.at = "ended" /\ l \in Calls /\ l.topic = r.topic /\ l.answered = r.answered
        /\ l.noticed = r.noticed \cup no /\ l.failed = r.failed \cup re
    BY <1>9, <2>1
  <2>4. /\ r.noticed \subseteq l.noticed /\ l.noticed \subseteq r.noticed \cup Elements(q)
        /\ r.failed \subseteq l.failed /\ l.failed \subseteq r.failed \cup Elements(q)
    BY <1>4, <2>3
  <2>5. l.noticed = {} => r.turns = MaxTurns
    BY <2>2, <2>3
  <2> QED BY <2>3, <2>4, <2>5 DEF l, q, Looped
<1>11. CASE passed.turns < MaxTurns /\ i > Len(q)
  <2>1. l = Ended(passed, "drained")
    BY <1>1, <1>8, <1>11
  <2>2. Elements(q) \subseteq no \cup re
    BY <1>2, <1>3, <1>6, <1>11
  <2> QED BY <1>4, <1>9, <2>1, <2>2 DEF l, q, Looped
<1>12. CASE passed.turns < MaxTurns /\ i <= Len(q)
  <2>1. l = [passed EXCEPT !.at = "streaming", !.speaker = q[i], !.live = s[q[i]] = "live"]
    BY <1>1, <1>2, <1>3, <1>8, <1>12
  <2>2. i \in 1..Len(q) /\ q[i] \in Agents /\ q[i] \in Elements(q)
    BY <1>2, <1>3, <1>12
  <2>3. q[i] \notin Elements(rest)
    <3> SUFFICES ASSUME NEW j \in i + 1..Len(q), q[j] = q[i] PROVE FALSE
      BY <1>5
    <3>1. i \in 1..Len(q) /\ j \in 1..Len(q) /\ i # j
      BY <1>2, <2>2
    <3>2. \A a, b \in DOMAIN q : q[a] = q[b] => a = b
      BY DEF Distinct, q
    <3> QED BY <1>2, <3>1, <3>2
  <2>4. \A j \in 1..Len(q) : q[j] \in no \cup re \cup Elements(rest) \cup {q[i]}
    BY <1>2, <1>5, <1>6, <2>2
  <2>5. Elements(rest) \subseteq Elements(q)
    BY <1>2, <1>5, <2>2
  <2>6. /\ l \in Calls /\ l.at = "streaming" /\ l.speaker = q[i] /\ l.why = "none"
        /\ l.topic = r.topic /\ l.answered = r.answered /\ l.confidence = r.confidence
        /\ l.turns = passed.turns /\ l.noticed = r.noticed \cup no
        /\ l.failed = r.failed \cup re /\ l.queue = rest
    BY <1>7, <2>1, <2>2 DEF Calls
  <2>7. Elements(q) \subseteq l.noticed \cup l.failed \cup Elements(l.queue) \cup {l.speaker}
    BY <1>2, <2>4, <2>6
  <2>8. l.noticed = {} => l.turns = r.turns
    BY <1>4, <1>7, <1>8, <2>6
  <2> QED BY <1>4, <1>5, <1>12, <2>2, <2>3, <2>5, <2>6, <2>7, <2>8 DEF l, q, Looped
<1> QED BY <1>2, <1>3, <1>8, <1>10, <1>11, <1>12

-----------------------------------------------------------------------------
(* The invariant                                                           *)

Debating == {"streaming", "pausing"}

Rows == [row : {"absent", "open", "closed"}, listed : BOOLEAN, members : Seq(Agents),
         newest : Convenes \cup {NoConvene}]

\* A debate among ps that goes on.  Once three turns are taken, and no notice
\* among them, the confidence is so high that it converges as soon as everyone
\* has answered.
GoesOn(r, ps) ==
    /\ r.why = "none"
    /\ Distinct(r.queue) /\ Elements(r.queue) \subseteq Elements(ps)
    /\ r.speaker \notin Elements(r.queue)
    /\ Elements(ps) \subseteq r.answered \cup r.noticed \cup r.failed
                                \cup Elements(r.queue) \cup {r.speaker}
    /\ r.answered \cup r.noticed \cup r.failed \subseteq Elements(ps)
    /\ r.noticed = {} /\ r.turns >= 3 => r.confidence \in 890..980
    /\ r.at = "streaming" => r.speaker \in Elements(ps) /\ r.speaker \in Agents /\ r.turns < MaxTurns
    /\ r.at = "pausing" =>
          /\ r.speaker = NoAgent
          /\ r.noticed = {} /\ r.answered = Elements(ps) => r.turns <= 3

\* One that has ended.
CameTo(r, ps) ==
    /\ r.why = "converged" => Elements(ps) = r.answered \cup r.noticed
    /\ r.why = "drained" => Elements(ps) = r.answered \cup r.noticed \cup r.failed
    /\ MaxTurns >= 4 /\ r.why = "cap" => r.noticed # {} \/ r.answered # Elements(ps)

Sound(r, ps) ==
    /\ r.at \in {"idle", "lost"} => r.why = "none"
    /\ r.at \in Debating => GoesOn(r, ps)
    /\ r.at = "ended" => CameTo(r, ps)

TopicsMatch ==
    \A t \in Topics : /\ topic[t].listed <=> topic[t].row = "open"
                      /\ Distinct(topic[t].members)

CallsSound ==
    \A c \in Convenes : /\ Running(c) => topic[call[c].topic].row # "absent"
                        /\ Sound(call[c], topic[call[c].topic].members)

IInv == TypeOK /\ TopicsMatch /\ CallsSound /\ EndedIsClosed /\ ClosingStopsNewest

LEMMA Initial == Init => IInv
<1> SUFFICES ASSUME Init PROVE IInv
  OBVIOUS
<1>1. <<>> \in Seq(Agents) /\ Distinct(<<>>) /\ 0 \in 0..MaxTurns
  BY BusAssumption DEF Distinct
<1> QED BY <1>1, BusAssumption DEF Init, IInv, TypeOK, TopicsMatch, CallsSound, EndedIsClosed,
      ClosingStopsNewest, Running, Absent, Idle, Calls, Sound, Debating

\* What a step has to show: the convene goes on, or ends, soundly.
LEMMA ProceedsOf ==
    ASSUME IInv, NEW c \in Convenes, NEW t \in Topics, NEW tp \in Rows, NEW r \in Calls,
           Proceeds(c, r, tp),
           r.topic = t, r.at \in Debating \cup {"ended"}, Sound(r, tp.members),
           tp.row # "absent", tp.listed <=> tp.row = "open", Distinct(tp.members),
           topic[t].row # "absent" =>
              tp.members = topic[t].members /\ tp.row = topic[t].row /\ tp.listed = topic[t].listed,
           \/ tp.newest = topic[t].newest /\ Running(c) /\ call[c].topic = t
           \/ tp.newest = c /\ tp.listed
    PROVE  IInv'
<1> DEFINE tq == IF r.at = "ended" THEN Closed(tp) ELSE tp
<1>1. /\ call' = [call EXCEPT ![c] = r] /\ topic' = [topic EXCEPT ![t] = tq]
      /\ requireLive' = requireLive
      /\ aborted' = IF r.at = "ended" THEN aborted \cup Aborts(tp) ELSE aborted
  BY DEF Proceeds
<1>2. /\ tq \in Rows /\ tq.members = tp.members /\ tq.newest = tp.newest /\ tq.row # "absent"
      /\ tq.listed <=> tq.row = "open"
      /\ r.at = "ended" => tq.row = "closed" /\ ~tq.listed
      /\ r.at # "ended" => tq.row = tp.row /\ tq.listed = tp.listed
  BY DEF Closed, Rows
<1> HIDE DEF tq
<1>3. /\ \A d \in Convenes : call'[d] = IF d = c THEN r ELSE call[d]
      /\ \A u \in Topics : topic'[u] = IF u = t THEN tq ELSE topic[u]
  BY <1>1 DEF IInv, TypeOK
<1>4. TypeOK'
  <2>1. topic' \in [Topics -> Rows] /\ call' \in [Convenes -> Calls]
    BY <1>1, <1>2 DEF IInv, TypeOK, Rows
  <2>2. aborted' \subseteq Convenes
    BY <1>1 DEF IInv, TypeOK, Aborts, Rows
  <2>3. r.at = "streaming" => r.speaker \in Agents /\ r.turns < MaxTurns
    BY DEF Sound, GoesOn, Debating
  <2> QED BY <1>1, <1>3, <2>1, <2>2, <2>3 DEF IInv, TypeOK, Rows, Debating
<1>5. TopicsMatch'
  BY <1>2, <1>3 DEF IInv, TopicsMatch
<1>6. ASSUME NEW d \in Convenes, d # c, call[d].topic = t, Running(d) \/ call[d].at = "ended"
      PROVE  topic[t].row # "absent"
  BY <1>6 DEF IInv, CallsSound, EndedIsClosed
<1>7. CallsSound'
  <2> SUFFICES ASSUME NEW d \in Convenes
               PROVE  /\ Running(d)' => topic'[call'[d].topic].row # "absent"
                      /\ Sound(call'[d], topic'[call'[d].topic].members)
    BY DEF CallsSound
  <2>1. CASE d = c
    BY <1>2, <1>3, <2>1
  <2>2. CASE d # c /\ call[d].topic # t
    <3>1. call'[d] = call[d]
      BY <1>3, <2>2
    <3>2. CASE call[d].topic \in Topics
      BY <1>3, <2>2, <3>1, <3>2 DEF IInv, CallsSound, Running
    <3>3. CASE call[d].topic \notin Topics
      <4>1. call[d].at \in {"idle", "lost"}
        BY <3>3 DEF IInv, TypeOK, Calls
      <4> QED BY <3>1, <4>1 DEF IInv, CallsSound, Running, Sound, Debating
    <3> QED BY <3>2, <3>3
  <2>3. CASE d # c /\ call[d].topic = t
    <3>1. call'[d] = call[d] /\ topic'[t] = tq
      BY <1>3, <2>3
    <3>2. CASE Running(d) \/ call[d].at = "ended"
      BY <1>2, <1>6, <2>3, <3>1, <3>2 DEF IInv, CallsSound, Running
    <3>3. CASE ~(Running(d) \/ call[d].at = "ended")
      BY <3>1, <3>3 DEF IInv, CallsSound, Running, Sound, Debating
    <3> QED BY <3>2, <3>3
  <2> QED BY <2>1, <2>2, <2>3
<1>8. EndedIsClosed'
  <2> SUFFICES ASSUME NEW d \in Convenes, call'[d].at = "ended"
               PROVE  topic'[call'[d].topic].row = "closed" /\ ~topic'[call'[d].topic].listed
    BY DEF EndedIsClosed
  <2>1. CASE d = c
    BY <1>2, <1>3, <2>1
  <2>2. CASE d # c
    <3>1. call'[d] = call[d] /\ call[d].topic \in Topics /\ call[d].at = "ended"
      BY <1>3, <2>2 DEF IInv, TypeOK
    <3>2. topic[call[d].topic].row = "closed" /\ ~topic[call[d].topic].listed
      BY <3>1 DEF IInv, EndedIsClosed
    <3>3. call[d].topic = t => tq.row = "closed" /\ ~tq.listed
      BY <1>2, <3>2
    <3> QED BY <1>3, <3>1, <3>2, <3>3
  <2> QED BY <2>1, <2>2
<1>9. ClosingStopsNewest'
  <2> SUFFICES ASSUME NEW d \in Convenes, call'[d].at \in Debating,
                      topic'[call'[d].topic].newest = d, ~topic'[call'[d].topic].listed
               PROVE  d \in aborted'
    BY DEF ClosingStopsNewest, Running, Debating
  <2>0. aborted \subseteq aborted' /\ (r.at = "ended" => Aborts(tp) \subseteq aborted')
    BY <1>1
  <2>1. CASE d = c
    <3>1. call'[d] = r /\ topic'[t] = tq /\ r.at # "ended"
      BY <1>3, <2>1 DEF Debating
    <3>2. Running(c) /\ call[c].topic = t /\ topic[t].newest = c /\ ~tp.listed
      BY <1>2, <2>1, <3>1
    <3>3. topic[t].row # "absent"
      BY <3>2 DEF IInv, CallsSound
    <3> QED BY <2>0, <2>1, <3>2, <3>3 DEF IInv, ClosingStopsNewest
  <2>2. CASE d # c
    <3>1. call'[d] = call[d] /\ Running(d) /\ call[d].topic \in Topics
      BY <1>3, <2>2 DEF IInv, TypeOK, Running, Debating
    <3>2. CASE call[d].topic # t
      BY <1>3, <2>0, <3>1, <3>2 DEF IInv, ClosingStopsNewest
    <3>3. CASE call[d].topic = t
      <4>1. topic'[t] = tq /\ tq.newest = d /\ ~tq.listed
        BY <1>3, <3>1, <3>3
      <4>2. topic[t].newest = d /\ topic[t].row # "absent" /\ tp.newest = d
        BY <1>2, <1>6, <2>2, <3>1, <3>3, <4>1
      <4>3. CASE ~topic[t].listed
        BY <2>0, <3>1, <3>3, <4>2, <4>3 DEF IInv, ClosingStopsNewest
      <4>4. CASE topic[t].listed
        <5>1. r.at = "ended" /\ tp.listed
          BY <1>2, <4>1, <4>2, <4>4
        <5>2. d \in Aborts(tp)
          BY <4>2, <5>1, BusAssumption DEF Aborts
        <5> QED BY <2>0, <5>1, <5>2
      <4> QED BY <4>3, <4>4
    <3> QED BY <3>2, <3>3
  <2> QED BY <2>1, <2>2
<1> QED BY <1>4, <1>5, <1>7, <1>8, <1>9 DEF IInv

-----------------------------------------------------------------------------
(* The steps of a convene                                                  *)

LEMMA LoopSound ==
    ASSUME NEW r \in Calls, r.topic \in Topics, NEW ps \in Seq(Agents), GoesOn(r, ps),
           r.speaker = NoAgent, r.noticed = {} /\ r.answered = Elements(ps) => r.turns <= 3,
           NEW s \in [Agents -> Standings]
    PROVE  LET l == Loop(r, s)
           IN  /\ l \in Calls /\ l.topic = r.topic
               /\ l.at \in Debating \cup {"ended"}
               /\ Sound(l, ps)
<1> DEFINE l == Loop(r, s)
           q == r.queue
<1>0. /\ r.why = "none" /\ Distinct(q) /\ Elements(q) \subseteq Elements(ps)
      /\ Elements(ps) \subseteq r.answered \cup r.noticed \cup r.failed \cup Elements(q) \cup {NoAgent}
      /\ r.answered \cup r.noticed \cup r.failed \subseteq Elements(ps)
      /\ r.noticed = {} /\ r.turns >= 3 => r.confidence \in 890..980
  BY DEF GoesOn
<1>1. /\ l \in Calls /\ l.topic = r.topic /\ l.answered = r.answered
      /\ r.noticed \subseteq l.noticed /\ l.noticed \subseteq r.noticed \cup Elements(q)
      /\ r.failed \subseteq l.failed /\ l.failed \subseteq r.failed \cup Elements(q)
      /\ \/ /\ l.at = "streaming" /\ l.why = "none" /\ l.turns < MaxTurns
            /\ l.confidence = r.confidence
            /\ Distinct(l.queue) /\ Elements(l.queue) \subseteq Elements(q)
            /\ l.speaker \in Elements(q) \ Elements(l.queue)
            /\ Elements(q) \subseteq l.noticed \cup l.failed \cup Elements(l.queue) \cup {l.speaker}
            /\ l.noticed = {} => l.turns = r.turns
         \/ /\ l.at = "ended" /\ l.why \in {"cap", "drained"}
            /\ l.why = "drained" => Elements(q) \subseteq l.noticed \cup l.failed
            /\ l.why = "cap" /\ l.noticed = {} => r.turns = MaxTurns
  <2>1. Looped(l, r)
    BY <1>0, LoopOf
  <2> QED BY <2>1 DEF Looped
<1>2. NoAgent \notin Elements(ps) /\ Elements(ps) \subseteq Agents
  BY ElementsOf, BusAssumption
<1>3. l.answered \cup l.noticed \cup l.failed \subseteq Elements(ps)
  BY <1>0, <1>1
<1> HIDE DEF l
<1>4. CASE l.at = "streaming"
  <2>1. Elements(ps) \subseteq l.answered \cup l.noticed \cup l.failed
                               \cup Elements(l.queue) \cup {l.speaker}
    BY <1>0, <1>1, <1>2, <1>4
  <2>2. l.noticed = {} /\ l.turns >= 3 => l.confidence \in 890..980
    <3>1. l.confidence = r.confidence /\ (l.noticed = {} => l.turns = r.turns /\ r.noticed = {})
      BY <1>1, <1>4
    <3> SUFFICES ASSUME l.noticed = {}, l.turns >= 3 PROVE r.confidence \in 890..980
      BY <3>1
    <3>2. r.noticed = {} /\ r.turns >= 3
      BY <3>1
    <3> QED BY <1>0, <3>2
  <2>3. l.speaker \in Elements(ps) /\ l.speaker \in Agents
    BY <1>0, <1>1, <1>2, <1>4
  <2>4. GoesOn(l, ps)
    BY <1>0, <1>1, <1>3, <1>4, <2>1, <2>2, <2>3 DEF GoesOn
  <2> QED BY <1>1, <1>4, <2>4 DEF Sound, Debating, l
<1>5. CASE l.at = "ended"
  <2>1. l.why \in {"cap", "drained"}
    BY <1>1, <1>5
  <2>2. l.why = "drained" => Elements(ps) = l.answered \cup l.noticed \cup l.failed
    BY <1>0, <1>1, <1>2, <1>3, <1>5
  <2>3. MaxTurns >= 4 /\ l.why = "cap" => l.noticed # {} \/ l.answered # Elements(ps)
    <3> SUFFICES ASSUME MaxTurns >= 4, l.why = "cap", l.noticed = {}, l.answered = Elements(ps)
                 PROVE  FALSE
      OBVIOUS
    <3>1. r.turns = MaxTurns /\ r.noticed = {} /\ r.answered = Elements(ps)
      BY <1>1, <1>5
    <3> QED BY <3>1, BusAssumption
  <2> QED BY <1>1, <1>5, <2>1, <2>2, <2>3 DEF Sound, CameTo, Debating, l
<1> QED BY <1>1, <1>4, <1>5

LEMMA CalledSound ==
    ASSUME NEW t \in Topics, NEW ps \in Seq(Agents), Distinct(ps),
           NEW s \in [Agents -> Standings]
    PROVE  LET l == Loop(Called(t, ps), s)
           IN  /\ l \in Calls /\ l.topic = t
               /\ l.at \in Debating \cup {"ended"}
               /\ Sound(l, ps)
<1> DEFINE r == Called(t, ps)
<1>1. /\ r.at = "idle" /\ r.why = "none" /\ r.topic = t /\ r.queue = ps /\ r.speaker = NoAgent
      /\ r.live = FALSE /\ r.turns = 0 /\ r.answered = {} /\ r.noticed = {} /\ r.failed = {}
      /\ r.confidence = 0
  BY DEF Called, Idle
<1>2. r \in Calls
  <2>1. 0 \in 0..MaxTurns /\ 0 \in Nat
    BY BusAssumption
  <2> QED BY <2>1 DEF Called, Idle, Calls
<1>3. NoAgent \notin Elements(ps)
  BY ElementsOf, BusAssumption
<1> HIDE DEF r
<1>4. GoesOn(r, ps)
  BY <1>1, <1>3 DEF GoesOn
<1>5. r.turns <= 3
  BY <1>1
<1> QED BY <1>1, <1>2, <1>4, <1>5, LoopSound DEF r

LEMMA ConveneSound ==
    ASSUME IInv, NEW c \in Convenes, NEW t \in Topics, NEW s \in [Agents -> Standings],
           Convene(c, t, s)
    PROVE  IInv'
<1> DEFINE tp == [topic[t] EXCEPT !.newest = c]
           l == Loop(Called(t, topic[t].members), s)
<1>1. topic[t] \in Rows /\ topic[t].members \in Seq(Agents) /\ Distinct(topic[t].members)
      /\ topic[t].listed /\ topic[t].row = "open"
  BY DEF IInv, TypeOK, Rows, TopicsMatch, Convene
<1>2. /\ tp \in Rows /\ tp.row = "open" /\ tp.listed /\ tp.newest = c
      /\ tp.members = topic[t].members
  BY <1>1 DEF Rows
<1>3. l \in Calls /\ l.topic = t /\ l.at \in Debating \cup {"ended"} /\ Sound(l, topic[t].members)
  BY <1>1, CalledSound
<1>4. Proceeds(c, l, tp)
  BY DEF Convene
<1> HIDE DEF tp, l
<1> QED BY <1>1, <1>2, <1>3, <1>4, ProceedsOf

LEMMA CreateConvenedSound ==
    ASSUME IInv, NEW c \in Convenes, NEW t \in Topics, NEW ps \in Lists(Agents),
           NEW s \in [Agents -> Standings], CreateConvened(c, t, ps, s)
    PROVE  IInv'
<1> DEFINE tp == [Opened(ps) EXCEPT !.newest = c]
           l == Loop(Called(t, ps), s)
<1>1. ps \in Seq(Agents) /\ Distinct(ps)
  BY ListOf
<1>2. /\ tp \in Rows /\ tp.row = "open" /\ tp.listed /\ tp.newest = c /\ tp.members = ps
  BY <1>1 DEF Rows, Opened
<1>3. l \in Calls /\ l.topic = t /\ l.at \in Debating \cup {"ended"} /\ Sound(l, ps)
  BY <1>1, CalledSound
<1>4. Proceeds(c, l, tp) /\ topic[t].row = "absent"
  BY DEF CreateConvened
<1> HIDE DEF tp, l
<1> QED BY <1>1, <1>2, <1>3, <1>4, ProceedsOf

\* What is known of a convene that goes on, and of its topic.
LEMMA RunningOf ==
    ASSUME IInv, NEW c \in Convenes, call[c].at \in Debating
    PROVE  LET tp == topic[call[c].topic]
           IN  /\ call[c] \in Calls /\ call[c].topic \in Topics
               /\ tp \in Rows /\ tp.row # "absent" /\ (tp.listed <=> tp.row = "open")
               /\ tp.members \in Seq(Agents) /\ Distinct(tp.members)
               /\ GoesOn(call[c], tp.members)
               /\ Running(c)
<1>1. call[c] \in Calls /\ call[c].topic \in Topics /\ Running(c)
  BY DEF IInv, TypeOK, Debating, Running
<1>2. topic[call[c].topic] \in Rows
  BY <1>1 DEF IInv, TypeOK, Rows
<1> QED BY <1>1, <1>2 DEF IInv, TopicsMatch, CallsSound, Rows, Sound

LEMMA PauseEndsSound ==
    ASSUME IInv, NEW c \in Convenes, NEW s \in [Agents -> Standings], PauseEnds(c, s)
    PROVE  IInv'
<1> DEFINE r == call[c]
           tp == topic[r.topic]
           l == IF c \in aborted THEN Ended(r, "aborted") ELSE Loop(r, s)
<1>1. r.at = "pausing" /\ Proceeds(c, l, tp)
  BY DEF PauseEnds
<1>2. /\ r \in Calls /\ r.topic \in Topics
      /\ tp \in Rows /\ tp.row # "absent" /\ (tp.listed <=> tp.row = "open")
      /\ tp.members \in Seq(Agents) /\ Distinct(tp.members)
      /\ GoesOn(r, tp.members) /\ Running(c)
  BY <1>1, RunningOf DEF Debating
<1>3. l \in Calls /\ l.topic = r.topic /\ l.at \in Debating \cup {"ended"} /\ Sound(l, tp.members)
  <2>1. CASE c \in aborted
    BY <1>2, <2>1, EndedOf DEF Sound, CameTo, Debating
  <2>2. CASE c \notin aborted
    <3>1. r.speaker = NoAgent /\ (r.noticed = {} /\ r.answered = Elements(tp.members) => r.turns <= 3)
      BY <1>1, <1>2 DEF GoesOn
    <3>2. LET m == Loop(r, s)
          IN  /\ m \in Calls /\ m.topic = r.topic /\ m.at \in Debating \cup {"ended"}
              /\ Sound(m, tp.members)
      BY <1>2, <3>1, LoopSound
    <3> QED BY <2>2, <3>2
  <2> QED BY <2>1, <2>2
<1> HIDE DEF l
<1> QED BY <1>1, <1>2, <1>3, ProceedsOf

LEMMA TurnFailsSound ==
    ASSUME IInv, NEW c \in Convenes, TurnFails(c)
    PROVE  IInv'
<1> DEFINE r == call[c]
           tp == topic[r.topic]
           f == [r EXCEPT !.failed = r.failed \cup {r.speaker}]
           l == Ended(f, "failed")
<1>1. r.at = "streaming" /\ Proceeds(c, Ended([r EXCEPT !.failed = @ \cup {r.speaker}], "failed"), tp)
  BY DEF TurnFails
<1>2. /\ r \in Calls /\ r.topic \in Topics
      /\ tp \in Rows /\ tp.row # "absent" /\ (tp.listed <=> tp.row = "open")
      /\ tp.members \in Seq(Agents) /\ Distinct(tp.members)
      /\ GoesOn(r, tp.members) /\ Running(c)
  BY <1>1, RunningOf DEF Debating
<1>3. f \in Calls /\ f.topic = r.topic
  BY <1>1, <1>2 DEF GoesOn, Calls
<1>4. [r EXCEPT !.failed = @ \cup {r.speaker}] = f
  BY <1>2 DEF Calls
<1>5. l \in Calls /\ l.topic = r.topic /\ l.at \in Debating \cup {"ended"} /\ Sound(l, tp.members)
  <2> HIDE DEF f
  <2>1. l \in Calls /\ l.topic = r.topic /\ l.at = "ended" /\ l.why = "failed"
    BY <1>3, EndedOf
  <2> QED BY <2>1 DEF Sound, CameTo, Debating
<1>6. Proceeds(c, l, tp)
  BY <1>1, <1>4
<1> HIDE DEF l
<1> QED BY <1>2, <1>5, <1>6, ProceedsOf

\* The confidence only depends on the draw before the fourth turn.
LEMMA ConfidenceOf ==
    ASSUME NEW turns \in Nat, NEW gain \in Gains
    PROVE  /\ Confidence(turns, gain) \in Nat
           /\ turns >= 3 => Confidence(turns, gain) \in 890..980
           /\ turns >= 4 => Confidence(turns, gain) \in 970..980
<1>1. gain \in 80..129
  BY BusAssumption
<1>2. turns * gain \in Nat
  BY <1>1
<1>3. turns >= 3 => turns * gain >= 240
  BY <1>1
<1>4. turns >= 4 => turns * gain >= 320
  BY <1>1
<1> DEFINE x == turns * gain
<1> HIDE DEF x
<1> QED BY <1>2, <1>3, <1>4 DEF Confidence, x

LEMMA TurnEndsSound ==
    ASSUME IInv, NEW c \in Convenes, NEW ms \in Lists(Agents), NEW gain \in Gains,
           TurnEnds(c, ms, gain)
    PROVE  IInv'
<1> DEFINE r == call[c]
           tp == topic[r.topic]
           ps == tp.members
           new == Confidence(r.turns + 1, gain)
           n == Spoken(r, ps, ms)
           paused == [n EXCEPT !.at = "pausing", !.live = FALSE, !.confidence = new]
           l == IF Converged(n, ps, new) THEN Ended(n, "converged")
                ELSE IF c \in aborted THEN Ended(n, "aborted") ELSE paused
<1>1. /\ r.at = "streaming" /\ Elements(ms) \subseteq Elements(ps)
      /\ Proceeds(c, l, tp)
  BY DEF TurnEnds
<1>2. /\ r \in Calls /\ r.topic \in Topics
      /\ tp \in Rows /\ tp.row # "absent" /\ (tp.listed <=> tp.row = "open")
      /\ ps \in Seq(Agents) /\ Distinct(ps) /\ GoesOn(r, ps) /\ Running(c)
  BY <1>1, RunningOf DEF Debating
<1> HIDE DEF r, tp, ps, n, new, paused, l
<1>3. /\ r.why = "none" /\ Distinct(r.queue) /\ Elements(r.queue) \subseteq Elements(ps)
      /\ Elements(ps) \subseteq r.answered \cup r.noticed \cup r.failed
                                  \cup Elements(r.queue) \cup {r.speaker}
      /\ r.answered \cup r.noticed \cup r.failed \subseteq Elements(ps)
      /\ r.noticed = {} /\ r.turns >= 3 => r.confidence \in 890..980
      /\ r.speaker \in Elements(ps) /\ r.speaker \in Agents /\ r.turns < MaxTurns
  BY <1>1, <1>2 DEF GoesOn
<1>4. /\ n \in Calls /\ n.at = r.at /\ n.why = r.why /\ n.topic = r.topic
      /\ n.noticed = r.noticed /\ n.failed = r.failed /\ n.confidence = r.confidence
      /\ n.turns = r.turns + 1 /\ n.answered = r.answered \cup {r.speaker}
      /\ n.speaker = NoAgent /\ Distinct(n.queue)
      /\ Elements(r.queue) \subseteq Elements(n.queue)
      /\ Elements(n.queue) \subseteq Elements(ps)
  BY <1>1, <1>2, <1>3, SpokenOf DEF n
<1>5. r.turns \in Nat /\ n.turns \in Nat
  BY <1>2, <1>4, BusAssumption DEF Calls
<1>6. new \in Nat /\ (n.turns >= 3 => new \in 890..980)
  BY <1>4, <1>5, ConfidenceOf DEF new
<1>7. n.answered \cup n.noticed \cup n.failed \subseteq Elements(ps)
  BY <1>3, <1>4
<1>8. IsFiniteSet(Elements(ps)) /\ Cardinality(Elements(ps)) = Len(ps) /\ Len(ps) \in Nat
  BY <1>2, DistinctCount, LenProperties
<1>9. ASSUME Converged(n, ps, new) PROVE Elements(ps) = n.answered \cup n.noticed
  <2> DEFINE heard == n.answered \cup n.noticed
  <2>1. heard \subseteq Elements(ps) /\ Cardinality(heard) >= Len(ps)
    BY <1>7, <1>9 DEF Converged
  <2> HIDE DEF heard
  <2>2. /\ IsFiniteSet(heard) /\ Cardinality(heard) <= Cardinality(Elements(ps))
        /\ Cardinality(heard) = Cardinality(Elements(ps)) => heard = Elements(ps)
    BY <1>8, <2>1, FS_Subset
  <2>3. Cardinality(heard) \in Nat
    BY <2>2, FS_CardinalityType
  <2>4. Cardinality(heard) = Cardinality(Elements(ps))
    BY <1>8, <2>1, <2>2, <2>3
  <2> QED BY <2>2, <2>4 DEF heard
<1>10. ASSUME n.noticed = {}, n.answered = Elements(ps), n.turns > 3 PROVE Converged(n, ps, new)
  <2>1. r.turns >= 3 /\ n.turns >= 3
    BY <1>4, <1>5, <1>10
  <2>2. n.confidence \in 890..980 /\ new \in 890..980
    BY <1>3, <1>4, <1>6, <1>10, <2>1
  <2>3. n.confidence # 0
    BY <2>2
  <2> DEFINE x == n.confidence
             heard == n.answered \cup n.noticed
  <2>4. Stable(n.confidence, new)
    <3>1. x \in 890..980 /\ new \in 890..980
      BY <2>2
    <3> HIDE DEF x
    <3>2. Stable(x, new)
      BY <3>1 DEF Stable
    <3> QED BY <3>2 DEF x
  <2>5. n.answered \cup n.noticed = Elements(ps)
    BY <1>10
  <2>6. Cardinality(n.answered \cup n.noticed) >= Len(ps)
    <3>1. heard = Elements(ps)
      BY <2>5
    <3> HIDE DEF heard
    <3>2. Cardinality(heard) >= Len(ps)
      BY <1>8, <3>1
    <3> QED BY <3>2 DEF heard
  <2> QED BY <2>3, <2>4, <2>6 DEF Converged
<1>11. /\ l \in Calls /\ l.topic = r.topic /\ l.at \in Debating \cup {"ended"} /\ Sound(l, ps)
  <2>1. CASE Converged(n, ps, new)
    <3>1. l = Ended(n, "converged")
      BY <2>1 DEF l
    <3>2. /\ Ended(n, "converged") \in Calls /\ Ended(n, "converged").at = "ended"
          /\ Ended(n, "converged").why = "converged" /\ Ended(n, "converged").topic = n.topic
          /\ Ended(n, "converged").answered = n.answered
          /\ Ended(n, "converged").noticed = n.noticed
      BY <1>4, EndedOf
    <3>3. n.topic = r.topic /\ Elements(ps) = n.answered \cup n.noticed
      BY <1>4, <1>9, <2>1
    <3> QED BY <3>1, <3>2, <3>3 DEF Sound, CameTo, Debating
  <2>2. CASE ~Converged(n, ps, new) /\ c \in aborted
    <3>1. l = Ended(n, "aborted")
      BY <2>2 DEF l
    <3>2. /\ Ended(n, "aborted") \in Calls /\ Ended(n, "aborted").at = "ended"
          /\ Ended(n, "aborted").why = "aborted" /\ Ended(n, "aborted").topic = n.topic
      BY <1>4, EndedOf
    <3> QED BY <1>4, <3>1, <3>2 DEF Sound, CameTo, Debating
  <2>3. CASE ~Converged(n, ps, new) /\ c \notin aborted
    <3>1. l = paused
      BY <2>3 DEF l
    <3>2. /\ paused \in Calls /\ paused.at = "pausing" /\ paused.why = "none"
          /\ paused.topic = r.topic /\ paused.noticed = n.noticed /\ paused.failed = n.failed
          /\ paused.confidence = new /\ paused.turns = n.turns /\ paused.answered = n.answered
          /\ paused.speaker = NoAgent /\ paused.queue = n.queue
      <4>1. n \in Calls /\ n.why = "none" /\ n.topic = r.topic /\ n.speaker = NoAgent /\ new \in Nat
        BY <1>3, <1>4, <1>6
      <4> QED BY <4>1 DEF Calls, paused
    <3>3. NoAgent \notin Elements(n.queue)
      BY <1>2, <1>4, ElementsOf, BusAssumption
    <3>4. Elements(ps) \subseteq n.answered \cup n.noticed \cup n.failed
                                   \cup Elements(n.queue) \cup {NoAgent}
      BY <1>3, <1>4
    <3>5. n.noticed = {} /\ n.answered = Elements(ps) => n.turns <= 3
      BY <1>5, <1>10, <2>3
    <3>6. GoesOn(paused, ps)
      BY <1>4, <1>6, <1>7, <3>2, <3>3, <3>4, <3>5 DEF GoesOn
    <3> QED BY <3>1, <3>2, <3>6 DEF Sound, Debating
  <2> QED BY <2>1, <2>2, <2>3
<1> QED BY <1>1, <1>2, <1>11, ProceedsOf DEF r, tp, ps

-----------------------------------------------------------------------------
(* The steps of a topic                                                    *)

\* A step that leaves the convenes alone and changes one topic: those it may
\* concern still find its participants there.
LEMMA CreateTopicSound ==
    ASSUME IInv, NEW t \in Topics, NEW ps \in Lists(Agents), CreateTopic(t, ps)
    PROVE  IInv'
<1>1. /\ topic[t].row = "absent" /\ topic' = [topic EXCEPT ![t] = Opened(ps)]
      /\ requireLive' = requireLive /\ call' = call /\ aborted' = aborted
  BY DEF CreateTopic
<1>2. ps \in Seq(Agents) /\ Distinct(ps)
  BY ListOf
<1>3. /\ Opened(ps) \in Rows /\ Opened(ps).listed /\ Opened(ps).row = "open"
      /\ Opened(ps).members = ps
  BY <1>2 DEF Opened, Rows
<1>4. TypeOK'
  <2>1. topic' \in [Topics -> Rows]
    BY <1>1, <1>3 DEF IInv, TypeOK, Rows
  <2> QED BY <1>1, <2>1 DEF IInv, TypeOK, Rows
<1>5. \A u \in Topics : topic'[u] = IF u = t THEN Opened(ps) ELSE topic[u]
  BY <1>1 DEF IInv, TypeOK
<1>6. TopicsMatch'
  BY <1>2, <1>3, <1>5 DEF IInv, TopicsMatch
<1>7. ASSUME NEW d \in Convenes, Running(d) \/ call[d].at = "ended"
      PROVE  call[d].topic \in Topics /\ call[d].topic # t /\ topic'[call[d].topic] = topic[call[d].topic]
  <2>1. call[d].topic \in Topics /\ topic[call[d].topic].row # "absent"
    BY <1>7 DEF IInv, TypeOK, CallsSound, EndedIsClosed, Running
  <2> QED BY <1>1, <1>5, <2>1
<1>8. CallsSound'
  BY <1>1, <1>7 DEF IInv, CallsSound, Running, Sound, Debating
<1>9. EndedIsClosed' /\ ClosingStopsNewest'
  BY <1>1, <1>7 DEF IInv, EndedIsClosed, ClosingStopsNewest, Running
<1> QED BY <1>4, <1>6, <1>8, <1>9 DEF IInv

LEMMA CloseTopicSound ==
    ASSUME IInv, NEW t \in Topics, CloseTopic(t)
    PROVE  IInv'
<1> DEFINE tq == Closed(topic[t])
<1>1. /\ topic[t].row = "open" /\ topic' = [topic EXCEPT ![t] = tq]
      /\ requireLive' = requireLive /\ call' = call /\ aborted' = aborted \cup Aborts(topic[t])
  BY DEF CloseTopic
<1>2. topic[t] \in Rows /\ topic[t].listed
  BY <1>1 DEF IInv, TypeOK, Rows, TopicsMatch
<1>3. /\ tq \in Rows /\ ~tq.listed /\ tq.row = "closed" /\ tq.members = topic[t].members
      /\ tq.newest = topic[t].newest
  BY <1>2 DEF Closed, Rows
<1> HIDE DEF tq
<1>4. TypeOK'
  <2>1. topic' \in [Topics -> Rows]
    BY <1>1, <1>3 DEF IInv, TypeOK, Rows
  <2>2. aborted' \subseteq Convenes
    BY <1>1, <1>2 DEF IInv, TypeOK, Aborts, Rows
  <2> QED BY <1>1, <2>1, <2>2 DEF IInv, TypeOK, Rows
<1>5. \A u \in Topics : topic'[u] = IF u = t THEN tq ELSE topic[u]
  BY <1>1 DEF IInv, TypeOK
<1>6. TopicsMatch'
  BY <1>3, <1>5 DEF IInv, TopicsMatch
<1>7. \A u \in Topics : topic'[u].members = topic[u].members /\ topic'[u].newest = topic[u].newest
                        /\ (topic[u].row # "absent" => topic'[u].row # "absent")
  BY <1>3, <1>5
<1>8. CallsSound'
  <2> SUFFICES ASSUME NEW d \in Convenes
               PROVE  /\ Running(d)' => topic'[call'[d].topic].row # "absent"
                      /\ Sound(call'[d], topic'[call'[d].topic].members)
    BY DEF CallsSound
  <2>1. CASE call[d].topic \in Topics
    BY <1>1, <1>7, <2>1 DEF IInv, CallsSound, Running
  <2>2. CASE call[d].topic \notin Topics
    BY <1>1, <2>2 DEF IInv, TypeOK, CallsSound, Running, Calls, Sound, Debating
  <2> QED BY <2>1, <2>2
<1>9. EndedIsClosed'
  BY <1>1, <1>3, <1>5 DEF IInv, TypeOK, EndedIsClosed
<1>10. ClosingStopsNewest'
  <2> SUFFICES ASSUME NEW d \in Convenes, call[d].at \in Debating,
                      topic'[call[d].topic].newest = d, ~topic'[call[d].topic].listed
               PROVE  d \in aborted'
    BY <1>1 DEF ClosingStopsNewest, Running, Debating
  <2>1. call[d].topic \in Topics /\ Running(d)
    BY DEF IInv, TypeOK, Running, Debating
  <2>2. CASE call[d].topic = t
    BY <1>1, <1>2, <1>7, <2>2, BusAssumption DEF Aborts
  <2>3. CASE call[d].topic # t
    BY <1>1, <1>5, <2>1, <2>3 DEF IInv, ClosingStopsNewest
  <2> QED BY <2>2, <2>3
<1> QED BY <1>4, <1>6, <1>8, <1>9, <1>10 DEF IInv

LEMMA RestartSound ==
    ASSUME IInv, Restart
    PROVE  IInv'
<1> DEFINE tq(t) == [topic[t] EXCEPT !.listed = topic[t].row = "open", !.newest = NoConvene]
           cq(c) == IF Running(c) THEN [Idle EXCEPT !.at = "lost"] ELSE call[c]
<1>1. /\ topic' = [t \in Topics |-> tq(t)] /\ call' = [c \in Convenes |-> cq(c)]
      /\ aborted' = {} /\ requireLive' \in BOOLEAN
  BY DEF Restart
<1>2. \A t \in Topics : /\ tq(t) \in Rows /\ tq(t).row = topic[t].row
                        /\ tq(t).members = topic[t].members
                        /\ tq(t).listed <=> topic[t].row = "open"
  BY DEF IInv, TypeOK, Rows
<1>3. [Idle EXCEPT !.at = "lost"] \in Calls /\ [Idle EXCEPT !.at = "lost"].at = "lost"
      /\ [Idle EXCEPT !.at = "lost"].why = "none"
  <2>1. <<>> \in Seq(Agents) /\ 0 \in 0..MaxTurns /\ 0 \in Nat
    BY BusAssumption
  <2> QED BY <2>1 DEF Idle, Calls
<1> HIDE DEF tq
<1>4. \A c \in Convenes : /\ cq(c) \in Calls
                          /\ \/ cq(c).at = "lost" /\ cq(c).why = "none"
                             \/ cq(c) = call[c] /\ ~Running(c)
  BY <1>3 DEF IInv, TypeOK
<1> HIDE DEF cq
<1>5. /\ \A t \in Topics : topic'[t] = tq(t)
      /\ \A c \in Convenes : call'[c] = cq(c) /\ ~Running(c)'
  BY <1>1, <1>4 DEF Running
<1>6. TypeOK'
  <2>1. topic' \in [Topics -> Rows] /\ call' \in [Convenes -> Calls]
    BY <1>1, <1>2, <1>4
  <2>2. \A c \in Convenes : call'[c].at \in {"streaming", "pausing", "ended"} =>
                               call'[c].topic \in Topics /\ call'[c].at # "streaming"
    BY <1>4, <1>5 DEF IInv, TypeOK, Running
  <2> QED BY <1>1, <2>1, <2>2 DEF TypeOK, Rows
<1>7. TopicsMatch'
  BY <1>2, <1>5 DEF IInv, TopicsMatch
<1>8. ASSUME NEW c \in Convenes, call'[c].at = "ended"
      PROVE  call'[c] = call[c] /\ call[c].at = "ended" /\ call[c].topic \in Topics
  BY <1>4, <1>5, <1>8 DEF IInv, TypeOK
<1>9. CallsSound'
  <2> SUFFICES ASSUME NEW c \in Convenes
               PROVE  Sound(call'[c], topic'[call'[c].topic].members)
    BY <1>5 DEF CallsSound
  <2>1. CASE call'[c].at = "ended"
    BY <1>2, <1>5, <1>8, <2>1 DEF IInv, CallsSound
  <2>2. CASE call'[c].at # "ended"
    BY <1>4, <1>5, <2>2 DEF IInv, CallsSound, Running, Sound, Debating
  <2> QED BY <2>1, <2>2
<1>10. EndedIsClosed'
  BY <1>2, <1>5, <1>8 DEF IInv, EndedIsClosed
<1>11. ClosingStopsNewest'
  BY <1>5 DEF ClosingStopsNewest
<1> QED BY <1>6, <1>7, <1>9, <1>10, <1>11 DEF IInv

-----------------------------------------------------------------------------
(* Theorems                                                                *)

LEMMA Inductive == IInv /\ [Next]_vars => IInv'
<1> SUFFICES ASSUME IInv, [Next]_vars PROVE IInv'
  OBVIOUS
<1>1. ASSUME NEW c \in Convenes, Turned(c) PROVE IInv'
  <2>1. CASE TurnFails(c)
    BY <2>1, TurnFailsSound
  <2>2. ASSUME NEW ms \in Lists(Agents), NEW gain \in Gains, TurnEnds(c, ms, gain) PROVE IInv'
    BY <2>2, TurnEndsSound
  <2> QED BY <1>1, <2>1, <2>2 DEF Turned
<1>2. ASSUME NEW c \in Convenes, Paused(c) PROVE IInv'
  <2>1. PICK s \in [Agents -> Standings] : PauseEnds(c, s)
    BY <1>2 DEF Paused
  <2> QED BY <2>1, PauseEndsSound
<1>3. ASSUME NEW c \in Convenes, NEW t \in Topics, NEW s \in [Agents -> Standings], Convene(c, t, s)
      PROVE  IInv'
  BY <1>3, ConveneSound
<1>4. ASSUME NEW c \in Convenes, NEW t \in Topics, NEW s \in [Agents -> Standings],
             NEW ps \in Lists(Agents), CreateConvened(c, t, ps, s)
      PROVE  IInv'
  BY <1>4, CreateConvenedSound
<1>5. ASSUME NEW t \in Topics, CloseTopic(t) PROVE IInv'
  BY <1>5, CloseTopicSound
<1>6. ASSUME NEW t \in Topics, NEW ps \in Lists(Agents), CreateTopic(t, ps) PROVE IInv'
  BY <1>6, CreateTopicSound
<1>7. CASE Restart
  BY <1>7, RestartSound
<1>8. CASE UNCHANGED vars
  BY <1>8 DEF vars, IInv, TypeOK, TopicsMatch, CallsSound, EndedIsClosed, ClosingStopsNewest,
       Running, Sound
<1> QED BY <1>1, <1>2, <1>3, <1>4, <1>5, <1>6, <1>7, <1>8 DEF Next, Convened, Managed

\* The invariant above holds in every reachable state.
THEOREM Invariance == Spec => []IInv
BY Initial, Inductive, PTL DEF Spec

\* The types, and the cap: turnCount of convene stays at or below maxTurns.
THEOREM TypeCorrect == Spec => []TypeOK
<1>1. IInv => TypeOK
  BY DEF IInv
<1> QED BY <1>1, Invariance, PTL

\* Mentions and refills keep the speaker queue a list of participants without
\* repetition, and the speaker out of it.
THEOREM QueueSound == Spec => []QueueIsSound
<1>1. IInv => QueueIsSound
  <2> SUFFICES ASSUME IInv, NEW c \in Convenes, Running(c)
               PROVE  GoesOn(call[c], topic[call[c].topic].members)
    BY DEF QueueIsSound, GoesOn
  <2> QED BY DEF IInv, CallsSound, Sound, Running, Debating
<1> QED BY <1>1, Invariance, PTL

\* No participant is lost from a debate, so one that converges or drains has
\* reached them all.
THEOREM NobodyForgotten == Spec => []NobodyIsForgotten
<1>1. IInv => NobodyIsForgotten
  <2> SUFFICES ASSUME IInv, NEW c \in Convenes
               PROVE  /\ Running(c) => GoesOn(call[c], topic[call[c].topic].members)
                      /\ call[c].why \in {"converged", "drained"}
                            => CameTo(call[c], topic[call[c].topic].members)
    BY DEF NobodyIsForgotten, GoesOn, CameTo
  <2>1. Sound(call[c], topic[call[c].topic].members) /\ call[c] \in Calls
    BY DEF IInv, CallsSound, TypeOK
  <2> QED BY <2>1 DEF Sound, GoesOn, Running, Debating, Calls
<1> QED BY <1>1, Invariance, PTL

\* With a cap of four turns or more, a debate is cut by the cap only when
\* somebody was unreachable or did not get to answer.
THEOREM CapExplained ==
    ASSUME MaxTurns >= 4
    PROVE  Spec => []CapMeansAbsentee
<1>1. IInv => CapMeansAbsentee
  <2> SUFFICES ASSUME IInv, NEW c \in Convenes, call[c].why = "cap"
               PROVE  CameTo(call[c], topic[call[c].topic].members)
    BY DEF CapMeansAbsentee, CameTo
  <2>1. Sound(call[c], topic[call[c].topic].members) /\ call[c] \in Calls
    BY DEF IInv, CallsSound, TypeOK
  <2> QED BY <2>1 DEF Sound, GoesOn, Debating, Calls
<1> QED BY <1>1, Invariance, PTL

\* closeTopic at the end of a convene is final, over restarts too.
THEOREM TopicsStayClosed == Spec => []EndedIsClosed
<1>1. IInv => EndedIsClosed
  BY DEF IInv
<1> QED BY <1>1, Invariance, PTL

\* A close reaches the convene started last on the topic.
THEOREM NewestStopped == Spec => []ClosingStopsNewest
<1>1. IInv => ClosingStopsNewest
  BY DEF IInv
<1> QED BY <1>1, Invariance, PTL
=============================================================================
