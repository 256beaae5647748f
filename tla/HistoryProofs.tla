--------------------------- MODULE HistoryProofs ---------------------------
(* What the file and the charts rebuilt from it are worth, for any bound on *)
(* queue and chart, any retention and any number of samples.                *)
EXTENDS History, WellFoundedInduction, SequenceTheorems, FiniteSetTheorems, TLAPS

-----------------------------------------------------------------------------
(* Pruning                                                                 *)

\* Induction over the naturals, as a fact about sets of them.
LEMMA NatSetInduction ==
  ASSUME NEW T, 0 \in T, \A n \in Nat : n \in T => n + 1 \in T
  PROVE  Nat \subseteq T
<1> DEFINE Out == Nat \ T
<1> SUFFICES ASSUME Out # {} PROVE FALSE
  OBVIOUS
<1> DEFINE Less == {p \in Nat \X Nat : p[1] < p[2]}
<1>1. IsWellFoundedOn(Less, Nat)
  <2>1. Less = OpToRel(<, Nat)
    BY DEF OpToRel
  <2> QED BY <2>1, NatLessThanWellFounded
<1>2. PICK x \in Out : \A y \in Out : <<y, x>> \notin Less
  <2> HIDE DEF Less
  <2> QED BY <1>1, WFMin
<1>3. x \in Nat \ {0} /\ x - 1 \in Nat
  OBVIOUS
<1>4. x - 1 \in T
  <2>1. <<x - 1, x>> \in Less
    BY <1>3
  <2> QED BY <1>2, <1>3, <2>1
<1> QED BY <1>3, <1>4

Ordered(seq) == \A i, j \in 1..Len(seq) : i < j => seq[i] < seq[j]

\* rows[1] to rows[n], swept.
Sweep(rows, n, now) ==
  LET kept[i \in 0..n] ==
        IF i = 0 THEN <<>>
        ELSE IF rows[i] + Retention >= now THEN Append(kept[i - 1], rows[i])
        ELSE kept[i - 1]
  IN kept

LEMMA SweepDef ==
  ASSUME NEW rows, NEW now, NEW n \in Nat
  PROVE  Sweep(rows, n, now) =
           [i \in 0..n |->
              IF i = 0 THEN <<>>
              ELSE IF rows[i] + Retention >= now
                   THEN Append(Sweep(rows, n, now)[i - 1], rows[i])
              ELSE Sweep(rows, n, now)[i - 1]]
<1> DEFINE Step(f, i) ==
             IF i = 0 THEN <<>>
             ELSE IF rows[i] + Retention >= now THEN Append(f[i - 1], rows[i])
             ELSE f[i - 1]
           T == {m \in Nat : \E f : f = [i \in 0..m |-> Step(f, i)]}
<1>1. 0 \in T
  <2>1. [i \in 0..0 |-> <<>>] = [i \in 0..0 |-> Step([j \in 0..0 |-> <<>>], i)]
    OBVIOUS
  <2> QED BY <2>1
<1>2. ASSUME NEW m \in Nat, m \in T PROVE m + 1 \in T
  <2>1. PICK f : f = [i \in 0..m |-> Step(f, i)]
    BY <1>2
  <2> DEFINE g == [i \in 0..(m + 1) |-> Step(f, i)]
  <2>2. \A i \in 0..m : g[i] = f[i]
    <3> HIDE DEF Step
    <3>1. \A i \in 0..m : f[i] = Step(f, i)
      BY <2>1
    <3> QED BY <3>1
  <2> HIDE DEF g
  <2>3. ASSUME NEW i \in 0..(m + 1) PROVE Step(g, i) = Step(f, i)
    <3>1. CASE i = 0
      BY <3>1
    <3>2. CASE i # 0
      <4>1. g[i - 1] = f[i - 1]
        BY <2>2, <3>2
      <4> QED BY <3>2, <4>1
    <3> QED BY <3>1, <3>2
  <2>4. g = [i \in 0..(m + 1) |-> Step(g, i)]
    <3> HIDE DEF Step
    <3> QED BY <2>3 DEF g
  <2> HIDE DEF Step
  <2> QED BY <2>4
<1>3. PICK f : f = [i \in 0..n |-> Step(f, i)]
  <2>1. n \in T
    <3> HIDE DEF T
    <3> QED BY <1>1, <1>2, NatSetInduction
  <2> QED BY <2>1
<1> QED BY <1>3 DEF Sweep

Stamps == 1..MaxClock

LEMMA Members ==
  ASSUME NEW seq \in Seq(Stamps)
  PROVE  \A u : u \in ToSet(seq) <=> \E i \in 1..Len(seq) : seq[i] = u
BY DEF ToSet

\* A sample added at the end.
LEMMA AppendFacts ==
  ASSUME NEW seq \in Seq(Stamps), NEW t \in Stamps
  PROVE  /\ Append(seq, t) \in Seq(Stamps)
         /\ ToSet(Append(seq, t)) = ToSet(seq) \union {t}
         /\ Ordered(seq) /\ (\A u \in ToSet(seq) : u < t) => Ordered(Append(seq, t))
<1> DEFINE r == Append(seq, t)
<1>1. /\ r \in Seq(Stamps) /\ Len(r) = Len(seq) + 1 /\ r[Len(seq) + 1] = t
      /\ \A i \in 1..Len(seq) : r[i] = seq[i]
      /\ Len(seq) \in Nat /\ DOMAIN seq = 1..Len(seq) /\ DOMAIN r = 1..Len(r)
  OBVIOUS
<1> HIDE DEF r
<1>2. ToSet(r) = ToSet(seq) \union {t}
  <2>1. ASSUME NEW i \in 1..Len(r) PROVE r[i] \in ToSet(seq) \union {t}
    <3>1. i \in 1..Len(seq) \/ i = Len(seq) + 1
      BY <1>1
    <3> QED BY <1>1, <3>1 DEF ToSet
  <2>2. ASSUME NEW i \in 1..Len(seq) PROVE seq[i] \in ToSet(r)
    <3>1. i \in 1..Len(r) /\ r[i] = seq[i]
      BY <1>1
    <3> QED BY <1>1, <3>1 DEF ToSet
  <2>3. t \in ToSet(r)
    <3>1. Len(seq) + 1 \in 1..Len(r)
      BY <1>1
    <3> QED BY <1>1, <3>1 DEF ToSet
  <2> QED BY <1>1, <2>1, <2>2, <2>3 DEF ToSet
<1>3. ASSUME Ordered(seq), \A u \in ToSet(seq) : u < t PROVE Ordered(r)
  <2>1. \A i \in 1..Len(seq) : r[i] < t
    BY <1>1, <1>3 DEF ToSet
  <2> QED BY <1>1, <1>3, <2>1 DEF Ordered
<1> QED BY <1>1, <1>2, <1>3 DEF r

\* A sweep leaves the rows within the retention, in their order.
LEMMA KeptFacts ==
  ASSUME NEW rows \in Seq(Stamps), clock \in Nat
  PROVE  /\ Kept(rows) \in Seq(Stamps)
         /\ ToSet(Kept(rows)) = {t \in ToSet(rows) : t + Retention >= clock}
         /\ Ordered(rows) => Ordered(Kept(rows))
<1> DEFINE n == Len(rows)
           kept == Sweep(rows, n, clock)
           Good(i) == /\ kept[i] \in Seq(Stamps)
                      /\ \A t : t \in ToSet(kept[i]) <=>
                                  t + Retention >= clock /\ \E j \in 1..i : rows[j] = t
                      /\ Ordered(rows) => Ordered(kept[i])
           T == {i \in Nat : i <= n => Good(i)}
<1>1. n \in Nat /\ DOMAIN rows = 1..n /\ \A j \in 1..n : rows[j] \in Stamps
  OBVIOUS
<1>2. Kept(rows) = kept[n]
  BY DEF Kept, Sweep
<1>3. kept = [i \in 0..n |->
                IF i = 0 THEN <<>>
                ELSE IF rows[i] + Retention >= clock THEN Append(kept[i - 1], rows[i])
                ELSE kept[i - 1]]
  BY <1>1, SweepDef
<1> HIDE DEF kept, n
<1>4. 0 \in T
  <2>1. kept[0] = <<>>
    BY <1>1, <1>3
  <2>2. Good(0)
    BY <2>1 DEF ToSet, Ordered
  <2> QED BY <2>2
<1>5. ASSUME NEW m \in Nat, m \in T PROVE m + 1 \in T
  <2> SUFFICES ASSUME m + 1 <= n PROVE Good(m + 1)
    OBVIOUS
  <2> DEFINE x == rows[m + 1]
  <2>1. Good(m) /\ x \in Stamps /\ m + 1 \in 1..n
    BY <1>1, <1>5
  <2>2. \A j \in 1..(m + 1) : j \in 1..m \/ j = m + 1
    OBVIOUS
  <2> HIDE DEF Good
  <2>9. kept[m + 1] = IF x + Retention >= clock THEN Append(kept[m], x) ELSE kept[m]
    <3>1. m + 1 \in 0..n /\ m + 1 # 0 /\ (m + 1) - 1 = m
      BY <1>1, <2>1
    <3> QED BY <1>3, <3>1
  <2> USE DEF Good
  <2>3. CASE ~(x + Retention >= clock)
    <3>1. kept[m + 1] = kept[m]
      BY <2>3, <2>9
    <3> QED BY <2>1, <2>2, <2>3, <3>1
  <2>4. CASE x + Retention >= clock
    <3>1. kept[m + 1] = Append(kept[m], x)
      BY <2>4, <2>9
    <3>2. ToSet(kept[m + 1]) = ToSet(kept[m]) \union {x} /\ kept[m + 1] \in Seq(Stamps)
      BY <2>1, <3>1, AppendFacts
    <3>3. ASSUME Ordered(rows) PROVE Ordered(kept[m + 1])
      <4>1. \A u \in ToSet(kept[m]) : u < x
        BY <1>1, <2>1, <3>3 DEF Ordered
      <4> QED BY <2>1, <3>1, <3>3, <4>1, AppendFacts
    <3>4. \A t : t \in ToSet(kept[m + 1]) <=>
                   t + Retention >= clock /\ \E j \in 1..(m + 1) : rows[j] = t
      BY <2>1, <2>2, <2>4, <3>2
    <3> QED BY <3>2, <3>3, <3>4
  <2> QED BY <2>3, <2>4
<1>6. Good(n)
  <2>1. n \in T
    <3> HIDE DEF T
    <3> QED BY <1>1, <1>4, <1>5, NatSetInduction
  <2> QED BY <1>1, <2>1
<1>7. ToSet(kept[n]) = {t \in ToSet(rows) : t + Retention >= clock}
  BY <1>1, <1>6 DEF ToSet
<1> QED BY <1>2, <1>6, <1>7

-----------------------------------------------------------------------------
(* Queue and chart                                                         *)

Messages == {Other} \union {Sample(t) : t \in Stamps}

LEMMA MessageFacts ==
  /\ Messages \subseteq [type : {"node_metrics", "other"}, t : 0..MaxClock]
  /\ \A m \in Messages : /\ m.t \in 0..MaxClock
                         /\ m.type = "node_metrics" <=> m.t # 0
BY HistoryAssumption DEF Messages, Other, Sample, Stamps

LEMMA SampleMembers ==
  ASSUME NEW q \in Seq(Messages)
  PROVE  \A x : x \in Samples(q) <=> x # 0 /\ \E i \in 1..Len(q) : q[i].t = x
BY DEF Samples

\* What a Put leaves of a queue: all of it, or all but the oldest message.
LEMMA PutFacts ==
  ASSUME NEW q \in Seq(Messages), Len(q) <= QueueMax, NEW m \in Messages
  PROVE  /\ Put(q, m) \in Seq(Messages) /\ Len(Put(q, m)) <= QueueMax
         /\ Put(q, m) # <<>> /\ Put(q, m)[Len(Put(q, m))] = m
         /\ \E off \in {0, 1} :
              /\ off = 1 <=> Len(q) = QueueMax
              /\ Len(Put(q, m)) = Len(q) + 1 - off
              /\ \A i \in 1..(Len(Put(q, m)) - 1) : Put(q, m)[i] = q[i + off]
<1>1. CASE Len(q) < QueueMax
  <2>1. /\ Append(q, m) \in Seq(Messages) /\ Len(Append(q, m)) = Len(q) + 1
        /\ Append(q, m)[Len(q) + 1] = m
        /\ \A i \in 1..Len(q) : Append(q, m)[i] = q[i]
    OBVIOUS
  <2> QED BY <1>1, <2>1, QueueMaxAssumption DEF Put
<1>2. CASE Len(q) = QueueMax
  <2>1. q # <<>> /\ Len(q) \in Nat \ {0}
    BY <1>2, QueueMaxAssumption
  <2> DEFINE u == Tail(q)
  <2>2. /\ u \in Seq(Messages) /\ Len(u) = Len(q) - 1
        /\ \A i \in 1..Len(u) : u[i] = q[i + 1]
    BY <2>1
  <2> HIDE DEF u
  <2>3. /\ Append(u, m) \in Seq(Messages) /\ Len(Append(u, m)) = Len(u) + 1
        /\ Append(u, m)[Len(u) + 1] = m
        /\ \A i \in 1..Len(u) : Append(u, m)[i] = u[i]
    BY <2>2
  <2>4. Put(q, m) = Append(u, m)
    BY <1>2, QueueMaxAssumption DEF Put, u
  <2>5. Len(Put(q, m)) = Len(q)
    BY <2>1, <2>2, <2>3, <2>4
  <2> QED BY <1>2, <2>1, <2>2, <2>3, <2>4, <2>5
<1> QED BY <1>1, <1>2, QueueMaxAssumption

\* No sample leaves the queue unnoticed, and none but the new one enters.
LEMMA PutSamples ==
  ASSUME NEW q \in Seq(Messages), Len(q) <= QueueMax, NEW m \in Messages
  PROVE  /\ Samples(q) \subseteq
              Samples(Put(q, m)) \union
              (IF Len(q) = QueueMax THEN Samples(<<Head(q)>>) ELSE {})
         /\ Samples(Put(q, m)) \subseteq Samples(q) \union ({m.t} \ {0})
         /\ {m.t} \ {0} \subseteq Samples(Put(q, m))
<1> DEFINE r == Put(q, m)
<1>1. PICK off \in {0, 1} :
        /\ off = 1 <=> Len(q) = QueueMax
        /\ Len(r) = Len(q) + 1 - off
        /\ \A i \in 1..(Len(r) - 1) : r[i] = q[i + off]
  BY PutFacts
<1>2. r \in Seq(Messages) /\ r # <<>> /\ r[Len(r)] = m
  BY PutFacts
<1> HIDE DEF r
<1>3. /\ Len(q) \in Nat /\ Len(r) \in Nat \ {0}
      /\ DOMAIN q = 1..Len(q) /\ DOMAIN r = 1..Len(r)
  BY <1>2
<1>4. ASSUME NEW i \in 1..Len(q), ~(i = 1 /\ Len(q) = QueueMax)
      PROVE  \E j \in 1..Len(r) : r[j] = q[i]
  <2>1. i - off \in 1..(Len(r) - 1) /\ i - off \in 1..Len(r)
    BY <1>1, <1>3, <1>4
  <2>2. r[i - off] = q[i]
    BY <1>1, <2>1
  <2> QED BY <2>1, <2>2
<1>5. ASSUME NEW i \in 1..Len(q), i = 1, Len(q) = QueueMax
      PROVE  {q[i].t} \ {0} = Samples(<<Head(q)>>)
  BY <1>5 DEF Samples
<1>6. Samples(q) \subseteq Samples(r) \union
              (IF Len(q) = QueueMax THEN Samples(<<Head(q)>>) ELSE {})
  <2> SUFFICES ASSUME NEW i \in 1..Len(q), q[i].t # 0
               PROVE  q[i].t \in Samples(r) \union
                        (IF Len(q) = QueueMax THEN Samples(<<Head(q)>>) ELSE {})
    BY <1>3 DEF Samples
  <2>1. CASE i = 1 /\ Len(q) = QueueMax
    BY <1>5, <2>1
  <2>2. CASE ~(i = 1 /\ Len(q) = QueueMax)
    BY <1>3, <1>4, <2>2 DEF Samples
  <2> QED BY <2>1, <2>2
<1>7. Samples(r) \subseteq Samples(q) \union ({m.t} \ {0})
  <2> SUFFICES ASSUME NEW i \in 1..Len(r), r[i].t # 0
               PROVE  r[i].t \in Samples(q) \union ({m.t} \ {0})
    BY <1>3 DEF Samples
  <2>1. CASE i = Len(r)
    BY <1>2, <2>1
  <2>2. CASE i # Len(r)
    <3>1. i \in 1..(Len(r) - 1) /\ i + off \in 1..Len(q)
      BY <1>1, <1>3, <2>2
    <3> QED BY <1>1, <1>3, <3>1 DEF Samples
  <2> QED BY <2>1, <2>2
<1>8. {m.t} \ {0} \subseteq Samples(r)
  BY <1>2, <1>3 DEF Samples
<1> QED BY <1>6, <1>7, <1>8 DEF r

\* What is taken from the front, and what is left.
LEMMA GetFacts ==
  ASSUME NEW q \in Seq(Messages), q # <<>>
  PROVE  /\ Head(q) \in Messages /\ Head(q) = q[1] /\ Tail(q) \in Seq(Messages)
         /\ Len(q) \in Nat \ {0} /\ Len(Tail(q)) = Len(q) - 1
         /\ \A i \in 1..Len(Tail(q)) : Tail(q)[i] = q[i + 1]
         /\ Samples(q) = ({Head(q).t} \ {0}) \union Samples(Tail(q))
<1> DEFINE u == Tail(q)
<1>1. /\ Head(q) \in Messages /\ Head(q) = q[1] /\ u \in Seq(Messages)
      /\ Len(q) \in Nat \ {0} /\ Len(u) = Len(q) - 1
      /\ \A i \in 1..Len(u) : u[i] = q[i + 1]
      /\ DOMAIN q = 1..Len(q) /\ DOMAIN u = 1..Len(u)
  OBVIOUS
<1> HIDE DEF u
<1>2. \A i \in 1..Len(q) : i = 1 \/ (i - 1 \in 1..Len(u) /\ q[i] = u[i - 1])
  BY <1>1
<1>3. Samples(q) \subseteq ({q[1].t} \ {0}) \union Samples(u)
  <2> SUFFICES ASSUME NEW i \in 1..Len(q), q[i].t # 0
               PROVE  q[i].t \in ({q[1].t} \ {0}) \union Samples(u)
    BY SampleMembers
  <2> QED BY <1>1, <1>2, SampleMembers
<1>4. ({q[1].t} \ {0}) \union Samples(u) \subseteq Samples(q)
  <2>1. \A i \in 1..Len(u) : i + 1 \in 1..Len(q)
    BY <1>1
  <2>2. Samples(u) \subseteq Samples(q)
    BY <1>1, <2>1, SampleMembers
  <2>3. {q[1].t} \ {0} \subseteq Samples(q)
    BY <1>1, SampleMembers
  <2> QED BY <2>2, <2>3
<1> QED BY <1>1, <1>3, <1>4 DEF u

\* A chart keeps the newest, and loses its oldest when it is full.
LEMMA RingFacts ==
  ASSUME NEW seq \in Seq(Stamps), Len(seq) <= HistoryLen, Ordered(seq),
         NEW t \in Stamps, \A u \in ToSet(seq) : u < t
  PROVE  /\ Ring(seq, t) \in Seq(Stamps) /\ Len(Ring(seq, t)) <= HistoryLen
         /\ Ordered(Ring(seq, t))
         /\ ToSet(Ring(seq, t)) \subseteq ToSet(seq) \union {t}
         /\ t \in ToSet(Ring(seq, t))
         /\ \A u \in ToSet(seq) \ ToSet(Ring(seq, t)), v \in ToSet(Ring(seq, t)) : u < v
<1>1. CASE Len(seq) < HistoryLen
  BY <1>1, AppendFacts, HistoryAssumption DEF Ring
<1>2. CASE Len(seq) = HistoryLen
  <2> DEFINE rest == Tail(seq)
  <2>1. /\ seq # <<>> /\ rest \in Seq(Stamps) /\ Len(rest) = Len(seq) - 1
        /\ Len(seq) \in Nat \ {0} /\ DOMAIN seq = 1..Len(seq) /\ DOMAIN rest = 1..Len(rest)
        /\ \A i \in 1..Len(rest) : rest[i] = seq[i + 1]
    BY <1>2, HistoryAssumption
  <2> HIDE DEF rest
  <2>2. Ordered(rest)
    BY <2>1 DEF Ordered
  <2>3. /\ ToSet(rest) \subseteq ToSet(seq) /\ ToSet(seq) \subseteq ToSet(rest) \union {seq[1]}
        /\ \A v \in ToSet(rest) : seq[1] < v
    <3>1. \A i \in 1..Len(rest) : i + 1 \in 1..Len(seq) /\ rest[i] = seq[i + 1] /\ seq[1] < rest[i]
      BY <2>1 DEF Ordered
    <3>2. \A i \in 1..Len(seq) : i = 1 \/ (i - 1 \in 1..Len(rest) /\ seq[i] = rest[i - 1])
      BY <2>1
    <3> HIDE DEF Ordered
    <3>3. ToSet(rest) \subseteq ToSet(seq) /\ \A v \in ToSet(rest) : seq[1] < v
      BY <2>1, <3>1, Members
    <3>4. ToSet(seq) \subseteq ToSet(rest) \union {seq[1]}
      BY <2>1, <3>2, Members
    <3> QED BY <3>3, <3>4
  <2>4. Ring(seq, t) = Append(rest, t)
    BY <1>2, HistoryAssumption DEF Ring, rest
  <2>5. /\ Append(rest, t) \in Seq(Stamps) /\ Ordered(Append(rest, t))
        /\ ToSet(Append(rest, t)) = ToSet(rest) \union {t}
    BY <2>1, <2>2, <2>3, AppendFacts
  <2>6. Len(Append(rest, t)) = Len(seq)
    BY <2>1
  <2>7. seq[1] < t
    BY <2>1 DEF ToSet
  <2> QED BY <1>2, <2>3, <2>4, <2>5, <2>6, <2>7
<1> QED BY <1>1, <1>2, HistoryAssumption

LEMMA RingTypes ==
  ASSUME NEW seq \in Seq(Stamps), Len(seq) <= HistoryLen, NEW t \in Stamps
  PROVE  Ring(seq, t) \in Seq(Stamps) /\ Len(Ring(seq, t)) <= HistoryLen
<1>1. CASE Len(seq) < HistoryLen
  BY <1>1, HistoryAssumption DEF Ring
<1>2. CASE Len(seq) = HistoryLen
  <2>1. Tail(seq) \in Seq(Stamps) /\ Len(Tail(seq)) = Len(seq) - 1
    BY <1>2, HistoryAssumption
  <2>2. Append(Tail(seq), t) \in Seq(Stamps) /\ Len(Append(Tail(seq), t)) = Len(seq)
    BY <2>1
  <2> QED BY <1>2, <2>2, HistoryAssumption DEF Ring
<1> QED BY <1>1, <1>2, HistoryAssumption

LEMMA LoadedTypes ==
  ASSUME NEW rows \in Seq(Stamps)
  PROVE  Loaded(rows) \in Seq(Stamps) /\ Len(Loaded(rows)) <= HistoryLen
<1> DEFINE from == IF Len(rows) < HistoryLen THEN 1 ELSE Len(rows) - HistoryLen + 1
<1>1. Loaded(rows) = SubSeq(rows, from, Len(rows))
  BY DEF Loaded
<1>2. /\ Len(rows) \in Nat /\ HistoryLen \in Nat /\ from \in 1..(Len(rows) + 1)
      /\ Len(rows) - from + 1 <= HistoryLen
  BY HistoryAssumption
<1> HIDE DEF from
<1> QED BY <1>1, <1>2, SubSeqProperties

\* The rows that are loaded are the newest.
LEMMA LoadedFacts ==
  ASSUME NEW rows \in Seq(Stamps), Ordered(rows)
  PROVE  /\ Loaded(rows) \in Seq(Stamps) /\ Len(Loaded(rows)) <= HistoryLen
         /\ Ordered(Loaded(rows))
         /\ \A i \in 1..Len(rows) : i > Len(rows) - HistoryLen => rows[i] \in ToSet(Loaded(rows))
         /\ ToSet(Loaded(rows)) \subseteq ToSet(rows)
         /\ \A u \in ToSet(rows) \ ToSet(Loaded(rows)), v \in ToSet(Loaded(rows)) : u < v
<1> DEFINE n == Len(rows)
           from == IF n < HistoryLen THEN 1 ELSE n - HistoryLen + 1
           l == Loaded(rows)
<1>1. n \in Nat /\ HistoryLen \in Nat \ {0} /\ from \in 1..(n + 1) /\ DOMAIN rows = 1..n
  BY HistoryAssumption
<1>2. /\ l \in Seq(Stamps) /\ Len(l) = n - from + 1
      /\ \A i \in 1..Len(l) : l[i] = rows[from + i - 1]
  <2>1. l = SubSeq(rows, from, n)
    BY DEF Loaded
  <2>2. n \in (from - 1)..n
    BY <1>1
  <2> HIDE DEF from, l
  <2> QED BY <1>1, <2>1, <2>2, SubSeqProperties
<1> HIDE DEF l
<1>3. Len(l) <= HistoryLen /\ DOMAIN l = 1..Len(l)
  <2>1. n - from + 1 <= HistoryLen
    BY <1>1
  <2>2. DOMAIN l = 1..Len(l)
    BY <1>2
  <2> HIDE DEF from, n
  <2> QED BY <1>2, <2>1, <2>2
<1>4. \A i \in from..n : i - from + 1 \in 1..Len(l) /\ l[i - from + 1] = rows[i]
  <2>1. ASSUME NEW i \in from..n PROVE i - from + 1 \in 1..Len(l) /\ from + (i - from + 1) - 1 = i
    BY <1>1, <1>2
  <2> QED BY <1>2, <2>1
<1>5. \A i \in 1..Len(l) : from + i - 1 \in from..n
  BY <1>1, <1>2
<1>6. \A i \in 1..n : i > n - HistoryLen => i \in from..n
  BY <1>1
<1> HIDE DEF from, n
<1>7. Ordered(l)
  BY <1>1, <1>2, <1>5 DEF Ordered, n
<1>8. \A i \in from..n : rows[i] \in ToSet(l)
  BY <1>3, <1>4 DEF ToSet
<1>9. \A v \in ToSet(l) : \E i \in from..n : rows[i] = v
  BY <1>2, <1>3, <1>5 DEF ToSet
<1>10. \A i \in 1..n : i \notin from..n => i < from
  BY <1>1
<1>11. ToSet(l) \subseteq ToSet(rows)
  BY <1>1, <1>9 DEF ToSet
<1>12. ASSUME NEW u \in ToSet(rows), u \notin ToSet(l), NEW v \in ToSet(l) PROVE u < v
  <2>1. PICK i \in 1..n : rows[i] = u /\ i < from
    BY <1>1, <1>8, <1>10, <1>12 DEF ToSet
  <2>2. PICK j \in from..n : rows[j] = v
    BY <1>9
  <2> QED BY <1>1, <2>1, <2>2 DEF Ordered, n
<1> QED BY <1>2, <1>3, <1>6, <1>7, <1>8, <1>11, <1>12 DEF l, n

-----------------------------------------------------------------------------
(* Types                                                                   *)

Idle ==
  /\ phase \in {"reading", "dead"} => worker = "idle"
  /\ phase = "awaiting" => worker # "idle"
  /\ phase \in {"off", "dead"} => queue[Writer] = <<>>

Queues ==
  /\ subscribers \subseteq Sessions
  /\ queue \in [Sessions -> Seq(Messages)]
  /\ \A s \in Sessions : Len(queue[s]) <= QueueMax

Rest ==
  /\ clock \in 0..MaxClock
  /\ hist \in Seq(Stamps) /\ Len(hist) <= HistoryLen
  /\ db \in Seq(Stamps)
  /\ phase \in {"off", "reading", "awaiting", "dead"}
  /\ worker \in {"idle", "insert", "prune"}
  /\ row \in 0..MaxClock /\ (row # 0 <=> worker = "insert")
  /\ lastPrune \in 0..clock
  /\ lost \subseteq Stamps
  /\ Writer \in subscribers <=> phase \in {"reading", "awaiting"}

TInv == Queues /\ Rest /\ Idle

LEMMA TInvTypes == TInv => TypeOK
<1> SUFFICES ASSUME TInv PROVE TypeOK
  OBVIOUS
<1>1. \A s \in Sessions :
        queue[s] \in Seq([type : {"node_metrics", "other"}, t : 0..MaxClock])
  <2> DEFINE M == [type : {"node_metrics", "other"}, t : 0..MaxClock]
  <2>1. Messages \subseteq M
    BY MessageFacts
  <2> HIDE DEF M, Messages
  <2>2. Seq(Messages) \subseteq Seq(M)
    BY <2>1
  <2>3. \A s \in Sessions : queue[s] \in Seq(Messages)
    BY DEF TInv, Queues
  <2> QED BY <2>2, <2>3 DEF M
<1> QED BY <1>1 DEF TInv, Queues, Rest, TypeOK, PubSubTypeOK, Stamps

LEMMA TInvInit == Init => TInv
<1> SUFFICES ASSUME Init PROVE TInv
  OBVIOUS
<1> USE HistoryAssumption, QueueMaxAssumption
<1>1. Queues
  BY DEF Init, PubSubInit, Queues
<1>2. Rest
  BY DEF Init, PubSubInit, Rest
<1>3. Idle
  BY DEF Init, PubSubInit, Idle
<1> QED BY <1>1, <1>2, <1>3 DEF TInv

LEMMA PublishTypes ==
  ASSUME Queues, NEW m \in Messages, Publish(m)
  PROVE  /\ Queues' /\ subscribers' = subscribers
         /\ queue'[Writer] = IF Writer \in subscribers THEN Put(queue[Writer], m)
                             ELSE queue[Writer]
BY PutFacts, HistoryAssumption DEF Queues, Publish

LEMMA SubscribeTypes ==
  ASSUME Queues, Subscribe(Writer)
  PROVE  Queues' /\ Writer \in subscribers' /\ queue'[Writer] = <<>>
BY HistoryAssumption, QueueMaxAssumption DEF Queues, Subscribe

LEMMA UnsubscribeTypes ==
  ASSUME Queues, Unsubscribe(Writer)
  PROVE  Queues' /\ Writer \notin subscribers' /\ queue'[Writer] = <<>>
BY HistoryAssumption, QueueMaxAssumption DEF Queues, Unsubscribe

LEMMA GetTypes ==
  ASSUME Queues, Get(Writer)
  PROVE  /\ Queues' /\ subscribers' = subscribers
         /\ queue[Writer] # <<>> /\ queue[Writer] \in Seq(Messages)
         /\ queue'[Writer] = Tail(queue[Writer])
<1> USE HistoryAssumption, QueueMaxAssumption
<1>1. queue[Writer] # <<>> /\ queue[Writer] \in Seq(Messages)
  BY DEF Queues, Get
<1>2. /\ queue' = [queue EXCEPT ![Writer] = Tail(queue[Writer])]
      /\ subscribers' = subscribers
  BY DEF Get
<1>3. /\ Tail(queue[Writer]) \in Seq(Messages)
      /\ Len(Tail(queue[Writer])) <= QueueMax
  BY <1>1, GetFacts DEF Queues
<1> QED BY <1>1, <1>2, <1>3 DEF Queues

LEMMA QueueSamples == Queues => Samples(queue[Writer]) \subseteq Stamps
<1> SUFFICES ASSUME Queues PROVE Samples(queue[Writer]) \subseteq Stamps
  OBVIOUS
<1>1. queue[Writer] \in Seq(Messages)
  BY HistoryAssumption DEF Queues
<1>2. \A i \in 1..Len(queue[Writer]) : queue[Writer][i].t \in 0..MaxClock
  BY <1>1, MessageFacts
<1> QED BY <1>1, <1>2, SampleMembers DEF Stamps

LEMMA OverflowTypes == Queues => Overflowed \subseteq Samples(queue[Writer])
<1> SUFFICES ASSUME Queues, Len(queue[Writer]) = QueueMax
             PROVE  Samples(<<Head(queue[Writer])>>) \subseteq Samples(queue[Writer])
  BY DEF Overflowed
<1> DEFINE q == queue[Writer]
<1>1. q \in Seq(Messages) /\ q # <<>>
  BY HistoryAssumption, QueueMaxAssumption DEF Queues
<1>2. Samples(<<Head(q)>>) = {Head(q).t} \ {0}
  BY DEF Samples
<1> HIDE DEF q
<1>3. Samples(<<Head(q)>>) \subseteq Samples(q)
  BY <1>1, <1>2, GetFacts
<1> QED BY <1>3 DEF q

LEMMA AfterMessageTypes ==
  ASSUME AfterMessage
  PROVE  /\ phase' \in {"reading", "awaiting"} /\ row' = 0
         /\ worker' = IF phase' = "reading" THEN "idle" ELSE "prune"
BY DEF AfterMessage

LEMMA TInvInductive == TInv /\ [Next]_vars => TInv'
<1> SUFFICES ASSUME TInv, [Next]_vars PROVE TInv'
  OBVIOUS
<1> USE HistoryAssumption DEF TInv
<1>1. ASSUME NEW readable \in BOOLEAN, NEW opens \in BOOLEAN, Boot(readable, opens)
      PROVE  TInv'
  <2>1. hist' \in Seq(Stamps) /\ Len(hist') <= HistoryLen
    <3>1. hist' = <<>> \/ hist' = Loaded(db)
      BY <1>1 DEF Boot
    <3>2. <<>> \in Seq(Stamps) /\ Len(<<>>) <= HistoryLen
      OBVIOUS
    <3>3. Loaded(db) \in Seq(Stamps) /\ Len(Loaded(db)) <= HistoryLen
      BY LoadedTypes DEF Rest
    <3> QED BY <3>1, <3>2, <3>3
  <2>2. CASE opens
    <3>1. Kept(db) \in Seq(Stamps) /\ ToSet(db) \subseteq Stamps
      <4>1. db \in Seq(Stamps) /\ clock \in Nat
        BY DEF Rest
      <4>2. ToSet(db) \subseteq Stamps
        BY <4>1, Members
      <4> QED BY <4>1, <4>2, KeptFacts
    <3>2. Queues' /\ Writer \in subscribers' /\ queue'[Writer] = <<>>
      BY <1>1, <2>2, SubscribeTypes DEF Boot
    <3>3. Rest'
      BY <1>1, <2>1, <2>2, <3>1, <3>2 DEF Boot, Rest
    <3> QED BY <1>1, <2>2, <3>2, <3>3 DEF Boot, Idle
  <2>3. CASE ~opens
    BY <1>1, <2>1, <2>3 DEF Boot, Queues, Rest, Idle, pubsubVars
  <2> QED BY <2>2, <2>3
<1>2. ASSUME Record PROVE TInv'
  <2>1. Sample(clock + 1) \in Messages /\ clock + 1 \in Stamps
    <3>1. clock + 1 \in Stamps
      BY <1>2 DEF Record, Rest, Stamps
    <3> QED BY <3>1 DEF Messages
  <2>2. Queues' /\ subscribers' = subscribers
    BY <1>2, <2>1, PublishTypes DEF Record
  <2>3. phase' \in {"off", "dead"} => queue'[Writer] = <<>>
    BY <1>2, <2>1, PublishTypes DEF Record, procVars, Idle, Rest
  <2>4. hist' \in Seq(Stamps) /\ Len(hist') <= HistoryLen
    BY <1>2, <2>1, RingTypes DEF Record, Rest
  <2>5. Overflowed \subseteq Stamps
    BY OverflowTypes, QueueSamples
  <2>6. lost' \subseteq Stamps
    BY <1>2, <2>1, <2>5 DEF Record, Rest
  <2>7. Rest'
    BY <1>2, <2>2, <2>4, <2>6 DEF Record, procVars, Rest
  <2>8. Idle'
    BY <1>2, <2>3 DEF Record, procVars, Idle
  <2> QED BY <2>2, <2>7, <2>8
<1>3. ASSUME PublishOther PROVE TInv'
  <2>1. Other \in Messages
    BY DEF Messages
  <2>2. Queues' /\ subscribers' = subscribers
    BY <1>3, <2>1, PublishTypes DEF PublishOther
  <2>3. phase' \in {"off", "dead"} => queue'[Writer] = <<>>
    BY <1>3, <2>1, PublishTypes DEF PublishOther, procVars, Idle, Rest
  <2>4. Overflowed \subseteq Stamps
    BY OverflowTypes, QueueSamples
  <2>5. Rest'
    BY <1>3, <2>2, <2>4 DEF PublishOther, procVars, Rest
  <2>6. Idle'
    BY <1>3, <2>3 DEF PublishOther, procVars, Idle
  <2> QED BY <2>2, <2>5, <2>6
<1>4. ASSUME Take PROVE TInv'
  <2>1. /\ Queues' /\ subscribers' = subscribers
        /\ queue[Writer] # <<>> /\ queue[Writer] \in Seq(Messages)
    BY <1>4, GetTypes DEF Take
  <2>2. Head(queue[Writer]) \in Messages
    BY <2>1, GetFacts
  <2>3. CASE Head(queue[Writer]).type = "node_metrics"
    <3>1. phase' = "awaiting" /\ worker' = "insert" /\ row' \in 1..MaxClock
      BY <1>4, <2>2, <2>3, MessageFacts DEF Take
    <3>2. UNCHANGED <<clock, hist, db, lastPrune, lost>> /\ phase = "reading"
      BY <1>4 DEF Take
    <3>3. Rest'
      BY <2>1, <3>1, <3>2 DEF Rest
    <3> QED BY <2>1, <3>1, <3>3 DEF Idle
  <2>4. CASE Head(queue[Writer]).type # "node_metrics"
    <3>1. AfterMessage /\ UNCHANGED <<clock, hist, db, lastPrune, lost>> /\ phase = "reading"
      BY <1>4, <2>4 DEF Take
    <3>2. Rest'
      BY <2>1, <3>1, AfterMessageTypes DEF Rest
    <3> QED BY <2>1, <3>1, <3>2, AfterMessageTypes DEF Idle
  <2> QED BY <2>3, <2>4
<1>5. ASSUME InsertDone \/ InsertFails PROVE TInv'
  <2>1. /\ AfterMessage /\ phase = "awaiting" /\ worker = "insert" /\ row \in Stamps
        /\ UNCHANGED <<subscribers, queue, clock, hist, lastPrune>>
    BY <1>5 DEF InsertDone, InsertFails, pubsubVars, Rest, Stamps
  <2>2. db' \in Seq(Stamps) /\ lost' \subseteq Stamps
    <3>1. Append(db, row) \in Seq(Stamps)
      BY <2>1, AppendFacts DEF Rest
    <3> QED BY <1>5, <2>1, <3>1 DEF InsertDone, InsertFails, Rest
  <2>3. Rest'
    BY <2>1, <2>2, AfterMessageTypes DEF Rest
  <2> QED BY <2>1, <2>3, AfterMessageTypes DEF Queues, Idle
<1>6. ASSUME PruneDone PROVE TInv'
  <2>1. Kept(db) \in Seq(Stamps) /\ ToSet(db) \subseteq Stamps
    BY KeptFacts, Members DEF Rest, Stamps
  <2>2. UNCHANGED <<subscribers, queue>>
    BY <1>6 DEF PruneDone, pubsubVars
  <2>3. Rest'
    BY <1>6, <2>1, <2>2 DEF PruneDone, Rest
  <2> QED BY <1>6, <2>2, <2>3 DEF PruneDone, Queues, Idle
<1>7. ASSUME PruneFails \/ Shutdown PROVE TInv'
  <2>1. Queues' /\ Writer \notin subscribers' /\ queue'[Writer] = <<>>
    BY <1>7, UnsubscribeTypes DEF PruneFails, Shutdown
  <2>2. lost' \subseteq Stamps
    BY <1>7, QueueSamples DEF PruneFails, Shutdown, Rest
  <2>3. Rest'
    BY <1>7, <2>1, <2>2 DEF PruneFails, Shutdown, Rest
  <2> QED BY <1>7, <2>1, <2>3 DEF PruneFails, Shutdown, Idle
<1>8. ASSUME ThreadEnds PROVE TInv'
  <2>1. UNCHANGED <<subscribers, queue>>
    BY <1>8 DEF ThreadEnds, pubsubVars
  <2>2. db' \in Seq(Stamps) /\ lost' \subseteq Stamps
    <3>1. Kept(db) \in Seq(Stamps)
      BY KeptFacts DEF Rest
    <3>4. ToSet(db) \subseteq Stamps
      BY Members DEF Rest, Stamps
    <3>5. row \in Stamps => Append(db, row) \in Seq(Stamps)
      BY AppendFacts DEF Rest
    <3>2. worker = "insert" => row \in Stamps
      BY DEF Rest, Stamps
    <3>3. {row} \ {0} \subseteq Stamps
      BY DEF Rest, Stamps
    <3> QED BY <1>8, <3>1, <3>2, <3>3, <3>4, <3>5 DEF ThreadEnds, Rest
  <2>3. Rest'
    BY <1>8, <2>1, <2>2 DEF ThreadEnds, Rest
  <2> QED BY <1>8, <2>1, <2>3 DEF ThreadEnds, Queues, Idle
<1>9. ASSUME Crash PROVE TInv'
  <2>1. Queues' /\ Writer \notin subscribers' /\ queue'[Writer] = <<>>
    BY <1>9, UnsubscribeTypes DEF Crash
  <2>2. lost' \subseteq Stamps
    <3>1. {row} \ {0} \subseteq Stamps /\ lost \subseteq Stamps
      BY DEF Rest, Stamps
    <3>2. lost' = lost \union Samples(queue[Writer]) \union ({row} \ {0})
      BY <1>9 DEF Crash
    <3> QED BY <3>1, <3>2, QueueSamples
  <2>3. Rest'
    BY <1>9, <2>1, <2>2 DEF Crash, Rest
  <2> QED BY <1>9, <2>1, <2>3 DEF Crash, Idle
<1>10. CASE UNCHANGED vars
  BY <1>10 DEF vars, Queues, Rest, Idle
<1> QED BY <1>1, <1>2, <1>3, <1>4, <1>5, <1>6, <1>7, <1>8, <1>9, <1>10 DEF Next

\* The history store keeps to its types.
THEOREM HistoryTypeCorrect == Spec => []TypeOK
<1>1. TInv /\ [Next]_vars => TInv'
  BY TInvInductive
<1> QED BY TInvInit, <1>1, TInvTypes, PTL DEF Spec

-----------------------------------------------------------------------------
(* The order of time                                                       *)

\* The samples that can still reach the file, or are in it.
Sources == ToSet(db) \union Samples(queue[Writer]) \union ({row} \ {0})

\* The queued samples are the newest there are, in the order they were taken:
\* each is at most as old as there are messages behind it.
InLine(q, now) ==
  /\ \A i, j \in 1..Len(q) : i < j /\ q[i].t # 0 /\ q[j].t # 0 => q[i].t < q[j].t
  /\ \A i \in 1..Len(q) : q[i].t # 0 => q[i].t + (Len(q) - i) >= now

OrderInv ==
  /\ Ordered(db) /\ Ordered(hist)
  /\ \A t \in ToSet(hist) \union Sources : t <= clock
  /\ row # 0 => \A t \in ToSet(db) : t < row
  /\ \A t \in Samples(queue[Writer]) : row < t /\ \A u \in ToSet(db) : u < t
  /\ InLine(queue[Writer], clock)

LEMMA InLinePut ==
  ASSUME NEW q \in Seq(Messages), Len(q) <= QueueMax, NEW m \in Messages,
         NEW now \in Nat, NEW then \in Nat,
         \/ m.t = 0 /\ then = now
         \/ m.t = now + 1 /\ then = now + 1,
         InLine(q, now), \A x \in Samples(q) : x <= now
  PROVE  InLine(Put(q, m), then)
<1> DEFINE r == Put(q, m)
<1>1. PICK off \in {0, 1} :
        /\ Len(r) = Len(q) + 1 - off
        /\ \A i \in 1..(Len(r) - 1) : r[i] = q[i + off]
  BY PutFacts
<1>2. r \in Seq(Messages) /\ r # <<>> /\ r[Len(r)] = m
  BY PutFacts
<1> HIDE DEF r
<1>3. /\ Len(q) \in Nat /\ Len(r) \in Nat \ {0} /\ m.t \in Nat
      /\ \A i \in 1..Len(q) : q[i].t \in Nat /\ q[i].t <= now
  <2>1. \A i \in 1..Len(q) : q[i] \in Messages /\ q[i].t \in Nat
    BY MessageFacts
  <2>2. \A i \in 1..Len(q) : q[i].t # 0 => q[i].t \in Samples(q)
    BY SampleMembers
  <2> QED BY <1>2, <2>1, <2>2, MessageFacts
<1>4. \A i \in 1..Len(r) : \/ i = Len(r) /\ r[i].t = m.t
                           \/ i < Len(r) /\ i + off \in 1..Len(q) /\ r[i].t = q[i + off].t
  <2> SUFFICES ASSUME NEW i \in 1..Len(r), i # Len(r)
               PROVE  i < Len(r) /\ i + off \in 1..Len(q) /\ r[i].t = q[i + off].t
    BY <1>2
  <2>1. i \in 1..(Len(r) - 1) /\ i + off \in 1..Len(q)
    BY <1>1, <1>3
  <2> QED BY <1>1, <1>3, <2>1
<1>5. ASSUME NEW i \in 1..Len(r), NEW j \in 1..Len(r), i < j, r[i].t # 0, r[j].t # 0
      PROVE  r[i].t < r[j].t
  <2>1. i < Len(r) /\ i + off \in 1..Len(q) /\ r[i].t = q[i + off].t
    BY <1>3, <1>4, <1>5
  <2>2. CASE j = Len(r)
    BY <1>2, <1>3, <1>5, <2>1, <2>2
  <2>3. CASE j # Len(r)
    <3>1. j + off \in 1..Len(q) /\ r[j].t = q[j + off].t
      BY <1>4, <2>3
    <3>2. i + off < j + off
      BY <1>5
    <3> QED BY <1>5, <2>1, <3>1, <3>2 DEF InLine
  <2> QED BY <2>2, <2>3
<1>6. ASSUME NEW i \in 1..Len(r), r[i].t # 0
      PROVE  r[i].t + (Len(r) - i) >= then
  <2>1. CASE i = Len(r)
    BY <1>2, <1>3, <1>6, <2>1
  <2>2. CASE i # Len(r)
    <3>1. i + off \in 1..Len(q) /\ r[i].t = q[i + off].t
      BY <1>4, <2>2
    <3>2. q[i + off].t + (Len(q) - (i + off)) >= now
      BY <1>6, <3>1 DEF InLine
    <3> DEFINE x == r[i].t
               k == Len(q)
    <3>3. x \in Nat /\ k \in Nat /\ x + (k - (i + off)) >= now
      BY <1>3, <3>1, <3>2
    <3>4. Len(r) - i = (k - (i + off)) + 1
      BY <1>1, <1>3
    <3> HIDE DEF x, k
    <3>5. x + (Len(r) - i) >= now + 1
      BY <3>3, <3>4
    <3> QED BY <1>3, <3>3, <3>5 DEF x
  <2> QED BY <2>1, <2>2
<1> QED BY <1>5, <1>6 DEF InLine, r

LEMMA InLineGet ==
  ASSUME NEW q \in Seq(Messages), q # <<>>, NEW now \in Nat, InLine(q, now)
  PROVE  /\ InLine(Tail(q), now)
         /\ Head(q).t # 0 => \A x \in Samples(Tail(q)) : Head(q).t < x
<1> DEFINE u == Tail(q)
<1>1. /\ Head(q) = q[1] /\ u \in Seq(Messages)
      /\ Len(q) \in Nat \ {0} /\ Len(u) = Len(q) - 1
      /\ \A i \in 1..Len(u) : u[i] = q[i + 1]
  BY GetFacts
<1>2. \A i \in 1..Len(q) : q[i].t \in Nat
  <2>1. \A i \in 1..Len(q) : q[i] \in Messages
    OBVIOUS
  <2> QED BY <2>1, MessageFacts
<1> HIDE DEF u
<1>3. \A i \in 1..Len(u) : i + 1 \in 1..Len(q) /\ u[i].t = q[i + 1].t
  BY <1>1
<1>4. InLine(u, now)
  <2>1. ASSUME NEW i \in 1..Len(u), u[i].t # 0 PROVE u[i].t + (Len(u) - i) >= now
    <3>1. q[i + 1].t + (Len(q) - (i + 1)) >= now
      BY <1>3, <2>1 DEF InLine
    <3> QED BY <1>1, <1>2, <1>3, <3>1
  <2>2. ASSUME NEW i \in 1..Len(u), NEW j \in 1..Len(u), i < j, u[i].t # 0, u[j].t # 0
        PROVE  u[i].t < u[j].t
    BY <1>1, <1>3, <2>2 DEF InLine
  <2> QED BY <2>1, <2>2 DEF InLine
<1>5. ASSUME Head(q).t # 0, NEW x \in Samples(u) PROVE Head(q).t < x
  <2>1. PICK i \in 1..Len(u) : u[i].t = x /\ x # 0
    BY <1>1, SampleMembers
  <2>2. 1 \in 1..Len(q) /\ i + 1 \in 1..Len(q) /\ 1 < i + 1
    BY <1>1, <1>3
  <2> QED BY <1>1, <1>3, <1>5, <2>1, <2>2 DEF InLine
<1> QED BY <1>4, <1>5 DEF u

\* Steps that take no sample and load no chart.
Moves ==
  \/ PublishOther \/ Take \/ InsertDone \/ InsertFails \/ PruneDone
  \/ PruneFails \/ Shutdown \/ ThreadEnds \/ Crash
  \/ UNCHANGED vars

\* Such a step only moves samples on, or loses them.
LEMMA MoveFlow ==
  ASSUME TInv, Moves
  PROVE  /\ clock' = clock /\ hist' = hist
         /\ lost \subseteq lost'
         /\ Sources' \subseteq Sources
         /\ Sources \subseteq Sources' \union lost'
<1> USE DEF TInv
<1> DEFINE q == queue[Writer]
<1>1. q \in Seq(Messages) /\ Len(q) <= QueueMax /\ db \in Seq(Stamps)
  BY HistoryAssumption DEF Queues, Rest
<1>2. row \in 0..MaxClock /\ (row # 0 <=> worker = "insert") /\ clock \in Nat
  BY DEF Rest
<1>3. ToSet(Kept(db)) \subseteq ToSet(db)
  BY <1>1, <1>2, KeptFacts
<1>4. row # 0 => ToSet(Append(db, row)) = ToSet(db) \union {row}
  BY <1>1, <1>2, AppendFacts DEF Stamps
<1>5. Samples(<<>>) = {}
  BY DEF Samples
<1> HIDE DEF TInv
<1>6. CASE PublishOther
  <2>1. Other \in Messages /\ Other.t = 0
    BY DEF Messages, Other
  <2>2. q' = IF Writer \in subscribers THEN Put(q, Other) ELSE q
    BY <1>6, <2>1, PublishTypes DEF PublishOther, TInv
  <2>3. /\ Samples(q) \subseteq Samples(Put(q, Other)) \union
              (IF Len(q) = QueueMax THEN Samples(<<Head(q)>>) ELSE {})
        /\ Samples(Put(q, Other)) \subseteq Samples(q)
    BY <1>1, <2>1, PutSamples
  <2>4. /\ UNCHANGED <<clock, hist, db, row>> /\ lost' = lost \union Overflowed
    BY <1>6 DEF PublishOther, procVars
  <2>5. Samples(q') \subseteq Samples(q) /\ Samples(q) \subseteq Samples(q') \union lost'
    BY <2>2, <2>3, <2>4 DEF Overflowed
  <2> QED BY <2>4, <2>5 DEF Sources
<1>7. CASE Take
  <2>1. q # <<>> /\ q' = Tail(q)
    BY <1>7, GetTypes DEF Take, TInv
  <2>2. Head(q) \in Messages /\ Samples(q) = ({Head(q).t} \ {0}) \union Samples(Tail(q))
    BY <1>1, <2>1, GetFacts
  <2>3. row = 0
    BY <1>2, <1>7 DEF Take, TInv, Idle
  <2>4. UNCHANGED <<clock, hist, db, lost>> /\ row' = Head(q).t
    <3>1. CASE Head(q).type = "node_metrics"
      BY <1>7, <3>1 DEF Take
    <3>2. CASE Head(q).type # "node_metrics"
      BY <1>7, <2>2, <3>2, AfterMessageTypes, MessageFacts DEF Take
    <3> QED BY <3>1, <3>2
  <2> QED BY <2>1, <2>2, <2>3, <2>4 DEF Sources
<1>8. CASE InsertDone \/ InsertFails
  <2>1. q' = q /\ UNCHANGED <<clock, hist>> /\ row' = 0 /\ row # 0
    BY <1>2, <1>8, AfterMessageTypes DEF InsertDone, InsertFails, pubsubVars
  <2>2. \/ ToSet(db)' = ToSet(db) \union {row} /\ lost' = lost
        \/ db' = db /\ lost' = lost \union {row}
    BY <1>4, <1>8, <2>1 DEF InsertDone, InsertFails
  <2> QED BY <2>1, <2>2 DEF Sources
<1>9. CASE PruneDone
  <2>1. q' = q /\ UNCHANGED <<clock, hist, row>>
    BY <1>9 DEF PruneDone, pubsubVars
  <2>2. ToSet(db)' = ToSet(Kept(db)) /\ lost' = lost \union (ToSet(db) \ ToSet(Kept(db)))
    BY <1>9 DEF PruneDone
  <2> QED BY <1>3, <2>1, <2>2 DEF Sources
<1>10. CASE PruneFails \/ Shutdown
  <2>1. q' = <<>>
    BY <1>10, UnsubscribeTypes DEF PruneFails, Shutdown, TInv
  <2>2. UNCHANGED <<clock, hist, db, row>> /\ lost' = lost \union Samples(q)
    BY <1>10 DEF PruneFails, Shutdown
  <2> QED BY <1>5, <2>1, <2>2 DEF Sources
<1>11. CASE ThreadEnds
  <2>1. q' = q /\ UNCHANGED <<clock, hist>> /\ row' = 0
    BY <1>11 DEF ThreadEnds, pubsubVars
  <2>2. CASE db' = db /\ lost' = lost \union ({row} \ {0})
    BY <2>1, <2>2 DEF Sources
  <2>3. CASE /\ db' = IF worker = "insert" THEN Append(db, row) ELSE Kept(db)
             /\ lost' = lost \union (ToSet(db) \ ToSet(db'))
    <3>1. CASE worker = "insert"
      <4>1. ToSet(db)' = ToSet(db) \union {row}
        BY <1>2, <1>4, <2>3, <3>1
      <4> QED BY <1>2, <2>1, <2>3, <3>1, <4>1 DEF Sources
    <3>2. CASE worker # "insert"
      <4>1. ToSet(db)' = ToSet(Kept(db)) /\ row = 0
        BY <1>2, <2>3, <3>2
      <4> QED BY <1>3, <2>1, <2>3, <4>1 DEF Sources
    <3> QED BY <3>1, <3>2
  <2> QED BY <1>11, <2>2, <2>3 DEF ThreadEnds
<1>12. CASE Crash
  <2>1. q' = <<>>
    BY <1>12, UnsubscribeTypes DEF Crash, TInv
  <2>2. /\ UNCHANGED <<clock, hist, db>> /\ row' = 0
        /\ lost' = lost \union Samples(q) \union ({row} \ {0})
    BY <1>12 DEF Crash
  <2> QED BY <1>5, <2>1, <2>2 DEF Sources
<1>13. CASE UNCHANGED vars
  BY <1>13 DEF vars, Sources
<1> QED BY <1>6, <1>7, <1>8, <1>9, <1>10, <1>11, <1>12, <1>13 DEF Moves

\* A start finds nothing in flight; the charts come from the file, if at all.
LEMMA BootFlow ==
  ASSUME TInv, Ordered(db),
         NEW readable \in BOOLEAN, NEW opens \in BOOLEAN, Boot(readable, opens)
  PROVE  /\ clock' = clock /\ row = 0 /\ row' = 0 /\ queue[Writer] = <<>>
         /\ queue'[Writer] = <<>> /\ lost \subseteq lost'
         /\ Sources = ToSet(db) /\ Sources' = ToSet(db)'
         /\ Ordered(db)' /\ ToSet(db)' \subseteq ToSet(db)
         /\ ToSet(db) \subseteq ToSet(db)' \union lost'
         /\ Ordered(hist)' /\ hist' \in {<<>>, Loaded(db)}
         /\ ToSet(hist)' \subseteq ToSet(db)
<1> USE DEF TInv
<1>1. db \in Seq(Stamps) /\ clock \in Nat /\ Samples(<<>>) = {}
  BY DEF Rest, Samples
<1>2. row = 0 /\ queue[Writer] = <<>> /\ clock' = clock /\ row' = row
  BY DEF Boot, Rest, Idle
<1>3. queue'[Writer] = <<>> /\ lost \subseteq lost'
  <2>1. CASE opens
    BY <2>1, SubscribeTypes DEF Boot
  <2>2. CASE ~opens
    BY <1>2, <2>2 DEF Boot, pubsubVars
  <2> QED BY <2>1, <2>2
<1>4. Sources = ToSet(db) /\ Sources' = ToSet(db)'
  BY <1>1, <1>2, <1>3 DEF Sources
<1>5. hist' \in {<<>>, Loaded(db)}
  BY DEF Boot
<1>6. /\ Ordered(db)' /\ ToSet(db)' \subseteq ToSet(db)
      /\ ToSet(db) \subseteq ToSet(db)' \union lost'
  <2>1. Ordered(Kept(db)) /\ ToSet(Kept(db)) \subseteq ToSet(db)
    BY <1>1, KeptFacts
  <2>2. \/ db' = db
        \/ db' = Kept(db) /\ lost' = lost \union (ToSet(db) \ ToSet(Kept(db)))
    BY DEF Boot
  <2>3. Ordered(db)'
    BY <2>1, <2>2
  <2> QED BY <2>1, <2>2, <2>3
<1>7. Ordered(hist)' /\ ToSet(hist)' \subseteq ToSet(db)
  <2>1. Ordered(Loaded(db)) /\ ToSet(Loaded(db)) \subseteq ToSet(db)
    BY <1>1, LoadedFacts
  <2>2. Ordered(<<>>) /\ ToSet(<<>>) = {}
    BY DEF Ordered, ToSet
  <2> QED BY <1>5, <2>1, <2>2
<1> QED BY <1>2, <1>3, <1>4, <1>5, <1>6, <1>7

\* A new sample is the newest of the chart, and in the queue unless it is lost.
LEMMA RecordFlow ==
  ASSUME TInv, OrderInv, Record
  PROVE  /\ clock' = clock + 1 /\ db' = db /\ row' = row
         /\ lost \subseteq lost' /\ InLine(queue[Writer], clock)'
         /\ Samples(queue[Writer])' \subseteq Samples(queue[Writer]) \union {clock + 1}
         /\ Sources \union {clock + 1} \subseteq Sources' \union lost'
         /\ Ordered(hist)' /\ ToSet(hist)' \subseteq ToSet(hist) \union {clock + 1}
         /\ clock + 1 \in ToSet(hist)'
         /\ \A u \in ToSet(hist) \ ToSet(hist)', v \in ToSet(hist)' : u < v
<1> DEFINE t == clock + 1
           q == queue[Writer]
<1>1. /\ q \in Seq(Messages) /\ Len(q) <= QueueMax
      /\ hist \in Seq(Stamps) /\ Len(hist) <= HistoryLen /\ Ordered(hist)
  BY HistoryAssumption DEF TInv, Queues, Rest, OrderInv
<1>2. clock \in Nat /\ t \in Nat /\ t \in Stamps
  <2>1. clock \in Nat /\ clock < MaxClock /\ MaxClock \in Nat
    BY HistoryAssumption DEF TInv, Rest, Record
  <2> QED BY <2>1 DEF Stamps
<1>3. Sample(t) \in Messages /\ Sample(t).t = t
  BY <1>2 DEF Messages, Sample
<1>4. q' = IF Writer \in subscribers THEN Put(q, Sample(t)) ELSE q
  BY <1>3, PublishTypes DEF Record, TInv
<1>5. /\ clock' = t /\ db' = db /\ row' = row /\ hist' = Ring(hist, t)
      /\ lost' = lost \union Overflowed
                     \union (IF Writer \in subscribers THEN {} ELSE {t})
  BY DEF Record, procVars
<1>6. /\ Samples(q) \subseteq Samples(Put(q, Sample(t))) \union
              (IF Len(q) = QueueMax THEN Samples(<<Head(q)>>) ELSE {})
      /\ Samples(Put(q, Sample(t))) \subseteq Samples(q) \union {t}
      /\ t \in Samples(Put(q, Sample(t)))
  BY <1>1, <1>2, <1>3, PutSamples
<1>7. /\ Samples(q') \subseteq Samples(q) \union {t}
      /\ Samples(q) \union {t} \subseteq Samples(q') \union lost'
  BY <1>4, <1>5, <1>6 DEF Overflowed
<1>8. InLine(q, clock)'
  <2>1. CASE Writer \in subscribers
    <3>1. InLine(q, clock) /\ \A x \in Samples(q) : x <= clock
      BY DEF OrderInv, Sources
    <3>2. InLine(Put(q, Sample(t)), t)
      BY <1>1, <1>2, <1>3, <3>1, InLinePut
    <3> QED BY <1>4, <1>5, <2>1, <3>2
  <2>2. CASE Writer \notin subscribers
    <3>1. q = <<>>
      BY <2>2 DEF TInv, Rest, Idle
    <3>2. InLine(<<>>, t)
      BY DEF InLine
    <3> QED BY <1>4, <1>5, <2>2, <3>1, <3>2
  <2> QED BY <2>1, <2>2
<1>9. \A u \in ToSet(hist) : u < t
  <2>1. \A u \in ToSet(hist) : u \in Stamps /\ u <= clock
    BY <1>1, Members DEF OrderInv
  <2> QED BY <1>2, <2>1 DEF Stamps
<1>10. /\ Ordered(hist)' /\ ToSet(hist)' \subseteq ToSet(hist) \union {t}
       /\ t \in ToSet(hist)'
       /\ \A u \in ToSet(hist) \ ToSet(hist)', v \in ToSet(hist)' : u < v
  BY <1>1, <1>2, <1>5, <1>9, RingFacts
<1> QED BY <1>5, <1>7, <1>8, <1>10 DEF Sources

LEMMA OrderInvInit == Init => OrderInv
BY HistoryAssumption DEF Init, PubSubInit, OrderInv, Sources, Samples, Ordered, InLine, ToSet

LEMMA OrderInvInductive == TInv /\ OrderInv /\ [Next]_vars => OrderInv'
<1> SUFFICES ASSUME TInv, OrderInv, [Next]_vars PROVE OrderInv'
  OBVIOUS
<1> DEFINE q == queue[Writer]
<1>1. /\ q \in Seq(Messages) /\ Len(q) <= QueueMax
      /\ db \in Seq(Stamps) /\ clock \in Nat
      /\ row \in 0..MaxClock /\ (row # 0 <=> worker = "insert")
  BY HistoryAssumption DEF TInv, Queues, Rest
<1>2. \A x \in Sources \union ToSet(hist) : x \in Stamps
  <2>1. hist \in Seq(Stamps)
    BY DEF TInv, Rest
  <2>2. ToSet(db) \subseteq Stamps /\ ToSet(hist) \subseteq Stamps
    BY <1>1, <2>1, Members
  <2>3. {row} \ {0} \subseteq Stamps
    BY <1>1 DEF Stamps
  <2>4. Samples(q) \subseteq Stamps
    BY QueueSamples DEF TInv
  <2> QED BY <2>2, <2>3, <2>4 DEF Sources
<1>3. Ordered(<<>>) /\ InLine(<<>>, clock) /\ Samples(<<>>) = {} /\ ToSet(<<>>) = {}
  BY DEF Ordered, InLine, Samples, ToSet
<1>4. ASSUME NEW readable \in BOOLEAN, NEW opens \in BOOLEAN, Boot(readable, opens)
      PROVE  OrderInv'
  <2>1. Ordered(db)
    BY DEF OrderInv
  <2>2. /\ clock' = clock /\ row' = 0 /\ q' = <<>>
        /\ Sources = ToSet(db) /\ Sources' = ToSet(db)'
        /\ Ordered(db)' /\ ToSet(db)' \subseteq ToSet(db)
        /\ Ordered(hist)' /\ ToSet(hist)' \subseteq ToSet(db)
    BY <1>4, <2>1, BootFlow
  <2> QED BY <1>3, <2>2 DEF OrderInv
<1>5. CASE Record
  <2>1. /\ clock' = clock + 1 /\ db' = db /\ row' = row
        /\ InLine(q, clock)'
        /\ Samples(q)' \subseteq Samples(q) \union {clock + 1}
        /\ Ordered(hist)' /\ ToSet(hist)' \subseteq ToSet(hist) \union {clock + 1}
    BY <1>5, RecordFlow
  <2>2. Sources' \subseteq Sources \union {clock + 1}
    BY <2>1 DEF Sources
  <2>3. \A x \in Sources \union ToSet(hist) : x <= clock /\ x \in Nat
    BY <1>2 DEF OrderInv, Stamps
  <2>4. \A x \in ToSet(hist)' \union Sources' : x <= clock'
    BY <1>1, <2>1, <2>2, <2>3
  <2>5. row < clock + 1 /\ \A u \in ToSet(db) : u < clock + 1
    BY <1>1, <2>3 DEF Sources
  <2>6. \A x \in Samples(q)' : row' < x /\ \A u \in ToSet(db)' : u < x
    BY <2>1, <2>5 DEF OrderInv
  <2> QED BY <2>1, <2>4, <2>6 DEF OrderInv
<1>6. ASSUME Moves PROVE OrderInv'
  <2>1. /\ clock' = clock /\ hist' = hist /\ Sources' \subseteq Sources
    BY <1>6, MoveFlow
  <2>2. \A x \in ToSet(hist)' \union Sources' : x <= clock'
    BY <2>1 DEF OrderInv
  <2>3. Ordered(hist)'
    BY <2>1 DEF OrderInv
  <2> DEFINE Rows == /\ Ordered(db)
                     /\ row # 0 => \A t \in ToSet(db) : t < row
             Line == /\ \A t \in Samples(q) : row < t /\ \A u \in ToSet(db) : u < t
                     /\ InLine(q, clock)
  <2>4. Rows /\ Line
    BY DEF OrderInv
  <2> SUFFICES Rows' /\ Line'
    BY <2>2, <2>3 DEF OrderInv
  <2>5. Ordered(Kept(db)) /\ ToSet(Kept(db)) \subseteq ToSet(db)
    BY <1>1, <2>4, KeptFacts
  <2>6. row # 0 => /\ Ordered(Append(db, row))
                   /\ ToSet(Append(db, row)) = ToSet(db) \union {row}
    BY <1>1, <2>4, AppendFacts DEF Stamps
  <2>7. CASE PublishOther
    <3>1. Other \in Messages /\ Other.t = 0
      BY DEF Messages, Other
    <3>2. q' = IF Writer \in subscribers THEN Put(q, Other) ELSE q
      BY <2>7, <3>1, PublishTypes DEF PublishOther, TInv
    <3>3. Samples(Put(q, Other)) \subseteq Samples(q)
      BY <1>1, <3>1, PutSamples
    <3>4. InLine(Put(q, Other), clock)
      <4>1. \A x \in Samples(q) : x <= clock
        BY DEF OrderInv, Sources
      <4> QED BY <1>1, <2>4, <3>1, <4>1, InLinePut
    <3>5. db' = db /\ row' = row
      BY <2>7 DEF PublishOther, procVars
    <3>6. Samples(q') \subseteq Samples(q) /\ InLine(q', clock)
      BY <2>4, <3>2, <3>3, <3>4
    <3> QED BY <2>1, <2>4, <3>5, <3>6
  <2>8. CASE Take
    <3>1. q # <<>> /\ q' = Tail(q)
      BY <2>8, GetTypes DEF Take, TInv
    <3>2. Head(q) \in Messages /\ Samples(q) = ({Head(q).t} \ {0}) \union Samples(Tail(q))
      BY <1>1, <3>1, GetFacts
    <3>3. InLine(Tail(q), clock) /\ Head(q).t # 0 => \A x \in Samples(Tail(q)) : Head(q).t < x
      BY <1>1, <2>4, <3>1, InLineGet
    <3>4. db' = db /\ row' = Head(q).t
      <4>1. CASE Head(q).type = "node_metrics"
        BY <2>8, <4>1 DEF Take
      <4>2. CASE Head(q).type # "node_metrics"
        BY <2>8, <3>2, <4>2, AfterMessageTypes, MessageFacts DEF Take
      <4> QED BY <4>1, <4>2
    <3>5. InLine(Tail(q), clock)
      BY <1>1, <2>4, <3>1, InLineGet
    <3>6. \A x \in Samples(Tail(q)) : Head(q).t < x
      <4>1. CASE Head(q).t = 0
        BY <1>2, <3>2, <4>1 DEF Sources, Stamps
      <4> QED BY <3>3, <3>5, <4>1
    <3> QED BY <2>1, <2>4, <3>1, <3>2, <3>4, <3>5, <3>6
  <2>9. CASE InsertDone \/ InsertFails
    <3>1. q' = q /\ row' = 0 /\ row # 0
      BY <1>1, <2>9, AfterMessageTypes DEF InsertDone, InsertFails, pubsubVars
    <3>2. db' = Append(db, row) \/ db' = db
      BY <2>9 DEF InsertDone, InsertFails
    <3>3. Ordered(db)' /\ ToSet(db)' \subseteq ToSet(db) \union {row}
      BY <2>4, <2>6, <3>1, <3>2
    <3>4. \A x \in Samples(q)' : row' < x
      BY <1>2, <3>1 DEF Sources, Stamps
    <3> QED BY <2>1, <2>4, <3>1, <3>3, <3>4
  <2>10. CASE PruneDone
    <3>1. q' = q /\ row' = row /\ db' = Kept(db)
      BY <2>10 DEF PruneDone, pubsubVars
    <3> QED BY <2>1, <2>4, <2>5, <3>1
  <2>11. CASE PruneFails \/ Shutdown
    <3>1. q' = <<>> /\ db' = db /\ row' = row
      BY <2>11, UnsubscribeTypes DEF PruneFails, Shutdown, TInv
    <3> QED BY <1>3, <2>1, <2>4, <3>1
  <2>12. CASE ThreadEnds
    <3>1. q' = q /\ row' = 0 /\ q = <<>>
      BY <2>12 DEF ThreadEnds, pubsubVars, TInv, Idle
    <3>2. db' = db \/ (row # 0 /\ db' = Append(db, row)) \/ db' = Kept(db)
      BY <1>1, <2>12 DEF ThreadEnds
    <3>3. Ordered(db)'
      BY <2>4, <2>5, <2>6, <3>2
    <3> QED BY <1>3, <2>1, <3>1, <3>3
  <2>13. CASE Crash
    <3>1. q' = <<>> /\ db' = db /\ row' = 0
      BY <2>13, UnsubscribeTypes DEF Crash, TInv
    <3> QED BY <1>3, <2>1, <2>4, <3>1
  <2>14. CASE UNCHANGED vars
    <3>1. q' = q /\ db' = db /\ row' = row
      BY <2>14 DEF vars
    <3> QED BY <2>1, <2>4, <3>1
  <2> QED BY <1>6, <2>7, <2>8, <2>9, <2>10, <2>11, <2>12, <2>13, <2>14 DEF Moves
<1> QED BY <1>4, <1>5, <1>6 DEF Next, Moves

\* The file and every chart are in the order of time.
THEOREM RowsAreOrdered == Spec => []RowsOrdered
<1>1. TInv /\ [Next]_vars => TInv'
  BY TInvInductive
<1>2. TInv /\ OrderInv /\ [Next]_vars => OrderInv'
  BY OrderInvInductive
<1>3. TInv /\ OrderInv => RowsOrdered
  <2> SUFFICES ASSUME TInv, OrderInv PROVE RowsOrdered
    OBVIOUS
  <2>1. /\ Len(db) \in Nat /\ Len(hist) \in Nat /\ Ordered(db) /\ Ordered(hist)
    BY DEF TInv, Rest, OrderInv
  <2> QED BY <2>1 DEF RowsOrdered, Increasing, Ordered
<1> QED BY TInvInit, OrderInvInit, <1>1, <1>2, <1>3, PTL DEF Spec

-----------------------------------------------------------------------------
(* No sample unaccounted for                                               *)

AccountInv == ToSet(hist) \subseteq Sources \union lost

\* On the chart is whatever is newer than a sample of the chart.
NewestShown == \A u \in Sources, t \in ToSet(hist) : t < u => u \in ToSet(hist)

ChartInv == AccountInv /\ NewestShown

LEMMA ChartInvInductive == TInv /\ OrderInv /\ ChartInv /\ [Next]_vars => ChartInv'
<1> SUFFICES ASSUME TInv, OrderInv, ChartInv, [Next]_vars PROVE ChartInv'
  OBVIOUS
<1>1. db \in Seq(Stamps) /\ Ordered(db) /\ clock \in Nat /\ ToSet(<<>>) = {}
  BY DEF TInv, Rest, OrderInv, ToSet
<1>2. ASSUME NEW readable \in BOOLEAN, NEW opens \in BOOLEAN, Boot(readable, opens)
      PROVE  ChartInv'
  <2>1. /\ Sources = ToSet(db) /\ Sources' = ToSet(db)'
        /\ ToSet(db)' \subseteq ToSet(db)
        /\ ToSet(db) \subseteq ToSet(db)' \union lost'
        /\ hist' \in {<<>>, Loaded(db)} /\ ToSet(hist)' \subseteq ToSet(db)
    BY <1>1, <1>2, BootFlow
  <2>2. NewestShown'
    <3> SUFFICES ASSUME NEW u \in Sources', NEW t \in ToSet(hist)', t < u
                 PROVE  u \in ToSet(hist)'
      BY DEF NewestShown
    <3>1. hist' = Loaded(db) /\ u \in ToSet(db)
      BY <1>1, <2>1
    <3>2. u \notin ToSet(Loaded(db)) => u < t
      BY <1>1, <3>1, LoadedFacts
    <3>3. u \in Nat /\ t \in Nat
      <4>1. ToSet(db) \subseteq Stamps
        BY <1>1, Members
      <4> QED BY <2>1, <3>1, <4>1 DEF Stamps
    <3> QED BY <3>1, <3>2, <3>3
  <2> QED BY <2>1, <2>2 DEF ChartInv, AccountInv
<1>3. CASE Record
  <2>1. /\ lost \subseteq lost' /\ db' = db /\ row' = row
        /\ Samples(queue[Writer])' \subseteq Samples(queue[Writer]) \union {clock + 1}
        /\ Sources \union {clock + 1} \subseteq Sources' \union lost'
        /\ ToSet(hist)' \subseteq ToSet(hist) \union {clock + 1}
        /\ clock + 1 \in ToSet(hist)'
        /\ \A u \in ToSet(hist) \ ToSet(hist)', v \in ToSet(hist)' : u < v
    BY <1>3, RecordFlow
  <2>2. AccountInv'
    BY <2>1 DEF ChartInv, AccountInv
  <2>3. NewestShown'
    <3> SUFFICES ASSUME NEW u \in Sources', NEW t \in ToSet(hist)', t < u,
                        u \notin ToSet(hist)'
                 PROVE  FALSE
      BY DEF NewestShown
    <3>1. u \in Sources
      BY <2>1 DEF Sources
    <3>2. u \in Nat /\ u <= clock
      <4>1. ToSet(db) \subseteq Stamps
        BY <1>1, Members
      <4>2. Sources \subseteq Nat
        BY <4>1, QueueSamples DEF Sources, TInv, Rest, Stamps
      <4> QED BY <3>1, <4>2 DEF OrderInv
    <3>3. t \in ToSet(hist) /\ t \in Nat
      <4>1. hist \in Seq(Stamps)
        BY DEF TInv, Rest
      <4>4. ToSet(hist) \subseteq Stamps
        BY <4>1, Members
      <4>2. ToSet(hist) \subseteq Nat
        BY <4>4 DEF Stamps
      <4>3. t # clock + 1
        BY <1>1, <3>2
      <4> QED BY <2>1, <4>2, <4>3
    <3>4. u \in ToSet(hist)
      BY <3>1, <3>3 DEF ChartInv, NewestShown
    <3>5. u < t
      BY <2>1, <3>4
    <3> QED BY <3>2, <3>3, <3>5
  <2> QED BY <2>2, <2>3 DEF ChartInv
<1>4. CASE Moves
  BY <1>4, MoveFlow DEF ChartInv, AccountInv, NewestShown
<1> QED BY <1>2, <1>3, <1>4 DEF Next, Moves

LEMMA HistoryInvs == Spec => [](TInv /\ OrderInv /\ ChartInv)
<1>1. TInv /\ [Next]_vars => TInv'
  BY TInvInductive
<1>2. TInv /\ OrderInv /\ [Next]_vars => OrderInv'
  BY OrderInvInductive
<1>3. TInv /\ OrderInv /\ ChartInv /\ [Next]_vars => ChartInv'
  BY ChartInvInductive
<1>4. Init => ChartInv
  BY DEF Init, ChartInv, AccountInv, NewestShown, ToSet
<1> QED BY TInvInit, OrderInvInit, <1>1, <1>2, <1>3, <1>4, PTL DEF Spec

\* Every sample on the chart is in the file, on its way there, or was lost to an
\* overflow, a failed write, a prune, or the end of a process or of run().
THEOREM NothingUnaccounted == Spec => []Accounted
<1>1. AccountInv => Accounted
  BY DEF AccountInv, Accounted, Sources
<1> QED BY HistoryInvs, <1>1, PTL DEF ChartInv

\* Whatever of the file is not older than a sample of the chart fits in a chart.
LEMMA ShownAreNewest ==
  ASSUME TInv, OrderInv, ChartInv, Sources = ToSet(db),
         NEW t \in ToSet(hist), t \in ToSet(db)
  PROVE  t \in ToSet(Loaded(db))
<1> DEFINE n == Len(db)
<1>1. /\ db \in Seq(Stamps) /\ Ordered(db) /\ n \in Nat
      /\ hist \in Seq(Stamps) /\ Len(hist) <= HistoryLen /\ Len(hist) \in Nat
      /\ HistoryLen \in Nat
  BY HistoryAssumption DEF TInv, Rest, OrderInv
<1>2. PICK i \in 1..n : db[i] = t
  BY <1>1, Members
<1>3. \A j \in i..n : \E k \in 1..Len(hist) : hist[k] = db[j]
  <2> SUFFICES ASSUME NEW j \in i..n PROVE db[j] \in ToSet(hist)
    BY <1>1, Members
  <2>1. j \in 1..n /\ db[j] \in ToSet(db)
    BY <1>1, Members
  <2>2. CASE j = i
    BY <1>2, <2>2
  <2>3. CASE j # i
    <3>1. t < db[j]
      BY <1>1, <1>2, <2>1, <2>3 DEF Ordered
    <3> QED BY <2>1, <3>1 DEF ChartInv, NewestShown
  <2> QED BY <2>2, <2>3
<1> DEFINE place == [j \in i..n |-> CHOOSE k \in 1..Len(hist) : hist[k] = db[j]]
<1>4. \A j \in i..n : place[j] \in 1..Len(hist) /\ hist[place[j]] = db[j]
  BY <1>3
<1>5. \A j, k \in i..n : db[j] = db[k] => j = k
  <2> SUFFICES ASSUME NEW j \in i..n, NEW k \in i..n, j < k, db[j] = db[k] PROVE FALSE
    BY <1>1
  <2>1. j \in 1..n /\ k \in 1..n
    BY <1>1
  <2>2. db[j] < db[k] /\ db[j] \in Stamps
    BY <1>1, <2>1 DEF Ordered
  <2> QED BY <2>2 DEF Stamps
<1> HIDE DEF n
<1>6. place \in Injection(i..n, 1..Len(hist))
  <2>1. place \in [i..n -> 1..Len(hist)]
    BY <1>4
  <2> HIDE DEF place
  <2> QED BY <1>4, <1>5, <2>1 DEF Injection, IsInjective
<1> HIDE DEF place
<1>7. Cardinality(i..n) <= Cardinality(1..Len(hist))
  BY <1>1, <1>6, FS_Injection, FS_Interval
<1>8. Cardinality(i..n) = n - i + 1 /\ Cardinality(1..Len(hist)) = Len(hist)
  <2>1. i \in Int /\ n \in Int /\ i <= n
    BY <1>1, <1>2
  <2>2. Cardinality(i..n) = n - i + 1
    BY <2>1, FS_Interval
  <2>3. Cardinality(1..Len(hist)) = Len(hist)
    <3> DEFINE k == Len(hist)
    <3>1. k \in Nat
      BY <1>1
    <3> HIDE DEF k
    <3>2. Cardinality(1..k) = IF 1 > k THEN 0 ELSE k - 1 + 1
      BY <3>1, FS_Interval
    <3> QED BY <3>1, <3>2 DEF k
  <2> QED BY <2>2, <2>3
<1>9. i > n - HistoryLen
  BY <1>1, <1>7, <1>8
<1> QED BY <1>1, <1>2, <1>9, LoadedFacts DEF n

\* A restart that can read the file shows again every sample of the last chart
\* that was not lost on the way.
THEOREM ChartsSurvive == Spec => ChartSurvives
<1> DEFINE Survives == phase = "off" /\ Running' /\ hist' # <<>>
                      => \A t \in ToSet(hist) \ lost : t \in ToSet(hist')
<1>1. ASSUME TInv, OrderInv, ChartInv, [Next]_vars PROVE [Survives]_vars
  <2> SUFFICES ASSUME phase = "off", Running', hist' # <<>>,
                      NEW t \in ToSet(hist), t \notin lost
               PROVE  t \in ToSet(hist')
    OBVIOUS
  <2>1. ~Record /\ ~Moves
    BY AfterMessageTypes DEF Running, Record, Moves, PublishOther, Take, InsertDone, InsertFails,
           PruneDone, PruneFails, Shutdown, ThreadEnds, Crash, vars, procVars
  <2>2. PICK readable, opens \in BOOLEAN : Boot(readable, opens)
    BY <1>1, <2>1 DEF Next, Moves
  <2>3. Sources = ToSet(db) /\ hist' \in {<<>>, Loaded(db)}
    BY <1>1, <2>2, BootFlow DEF OrderInv
  <2>4. t \in ToSet(db)
    BY <1>1, <2>3 DEF ChartInv, AccountInv
  <2>5. t \in ToSet(Loaded(db))
    BY <1>1, <2>3, <2>4, ShownAreNewest
  <2> QED BY <2>3, <2>5
<1> QED BY HistoryInvs, <1>1, PTL DEF Spec, ChartSurvives

-----------------------------------------------------------------------------
(* The size of the file                                                    *)

\* While run() lives, what is in the file or about to be was within the
\* retention at the last prune, and a prune is due before run() waits again.
PruneInv ==
  phase \in {"reading", "awaiting"} =>
    /\ \A t \in Sources : t + Retention >= lastPrune
    /\ phase = "reading" /\ queue[Writer] = <<>> => clock - lastPrune <= PruneInterval

LEMMA PruneInvInductive ==
  ASSUME QueueMax <= Retention + 1
  PROVE  TInv /\ OrderInv /\ PruneInv /\ [Next]_vars => PruneInv'
<1> SUFFICES ASSUME TInv, OrderInv, PruneInv, [Next]_vars,
                    phase' \in {"reading", "awaiting"}
             PROVE  /\ \A t \in Sources' : t + Retention >= lastPrune'
                    /\ phase' = "reading" /\ queue'[Writer] = <<>> =>
                         clock' - lastPrune' <= PruneInterval
  BY DEF PruneInv
<1> DEFINE q == queue[Writer]
<1>1. /\ q \in Seq(Messages) /\ Len(q) <= QueueMax /\ Len(q) \in Nat
      /\ db \in Seq(Stamps) /\ Ordered(db)
      /\ clock \in Nat /\ lastPrune \in Nat /\ lastPrune <= clock
      /\ Retention \in Nat /\ PruneInterval \in Nat
  BY HistoryAssumption DEF TInv, Queues, Rest, OrderInv
<1>2. ASSUME NEW readable \in BOOLEAN, NEW opens \in BOOLEAN, Boot(readable, opens)
      PROVE  /\ \A t \in Sources' : t + Retention >= lastPrune'
             /\ clock' - lastPrune' <= PruneInterval
  <2>1. db' = Kept(db) /\ lastPrune' = clock /\ clock' = clock
    BY <1>2 DEF Boot
  <2>2. Sources' = ToSet(db')
    BY <1>1, <1>2, BootFlow
  <2>3. \A t \in ToSet(Kept(db)) : t + Retention >= clock
    BY <1>1, KeptFacts
  <2> QED BY <1>1, <2>1, <2>2, <2>3
<1>3. CASE Record \/ PublishOther
  <2>1. /\ lastPrune' = lastPrune /\ phase' = phase
        /\ Sources' \subseteq Sources \union {clock + 1}
    <3>1. CASE Record
      BY <3>1, RecordFlow DEF Sources, Record, procVars
    <3>2. CASE PublishOther
      BY <3>2, MoveFlow DEF Moves, PublishOther, procVars
    <3> QED BY <1>3, <3>1, <3>2
  <2>2. \A t \in Sources : t + Retention >= lastPrune
    BY <2>1 DEF PruneInv
  <2>3. q' # <<>>
    <3>1. PICK m \in Messages : Publish(m)
      <4>1. clock < MaxClock /\ MaxClock \in Nat => Sample(clock + 1) \in Messages
        BY <1>1 DEF Messages, Stamps
      <4> QED BY <1>3, <4>1, HistoryAssumption DEF Record, PublishOther, Messages
    <3>2. Writer \in subscribers
      BY <2>1 DEF TInv, Rest
    <3>3. q' = Put(q, m)
      BY <3>1, <3>2, PublishTypes DEF TInv
    <3>4. Put(q, m) # <<>>
      BY <1>1, PutFacts
    <3> QED BY <3>3, <3>4
  <2> QED BY <1>1, <2>1, <2>2, <2>3
<1>4. CASE PruneDone
  <2>1. /\ q' = q /\ row' = row /\ row = 0 /\ db' = Kept(db)
        /\ lastPrune' = clock /\ clock' = clock
    BY <1>4 DEF PruneDone, pubsubVars, TInv, Rest
  <2>2. \A t \in ToSet(Kept(db)) : t + Retention >= clock
    BY <1>1, KeptFacts
  <2>3. ASSUME NEW t \in Samples(q) PROVE t + Retention >= clock
    <3>1. PICK i \in 1..Len(q) : q[i].t = t /\ t # 0
      BY <1>1, SampleMembers
    <3>2. t + (Len(q) - i) >= clock
      BY <3>1 DEF OrderInv, InLine
    <3>3. t \in Nat
      BY QueueSamples DEF TInv, Stamps
    <3>4. QueueMax \in Nat
      BY QueueMaxAssumption
    <3> HIDE DEF q
    <3> QED BY <1>1, <3>1, <3>2, <3>3, <3>4
  <2> QED BY <1>1, <2>1, <2>2, <2>3 DEF Sources
<1>5. CASE Take \/ InsertDone \/ InsertFails
  <2>1. /\ lastPrune' = lastPrune /\ clock' = clock /\ phase \in {"reading", "awaiting"}
        /\ phase' = "reading" => AfterMessage
    BY <1>5 DEF Take, InsertDone, InsertFails
  <2>2. \A t \in Sources' : t + Retention >= lastPrune
    BY <1>5, <2>1, MoveFlow DEF PruneInv, Moves
  <2>3. phase' = "reading" => clock - lastPrune <= PruneInterval
    BY <1>1, <2>1 DEF AfterMessage
  <2> QED BY <2>1, <2>2, <2>3
<1>6. CASE UNCHANGED vars
  BY <1>6 DEF vars, PruneInv, Sources
<1>7. ~(PruneFails \/ Shutdown \/ ThreadEnds \/ Crash)
  BY DEF PruneFails, Shutdown, ThreadEnds, Crash
<1> QED BY <1>2, <1>3, <1>4, <1>5, <1>6, <1>7 DEF Next

\* Whenever run() has caught up, no row is older than the retention plus one
\* prune interval, if the retention is as long as a full queue of samples: a
\* sample that waited longer is written although it is due for deletion.
THEOREM FileIsBounded ==
  ASSUME QueueMax <= Retention + 1
  PROVE  Spec => []FileBounded
<1>1. Init => PruneInv
  BY DEF Init, PruneInv
<1>2. TInv /\ OrderInv /\ PruneInv /\ [Next]_vars => PruneInv'
  BY PruneInvInductive
<1>3. TInv /\ PruneInv => FileBounded
  <2> SUFFICES ASSUME TInv, PruneInv, phase = "reading", queue[Writer] = <<>>,
                      NEW t \in ToSet(db)
               PROVE  t + Retention + PruneInterval >= clock
    BY DEF FileBounded
  <2>1. t + Retention >= lastPrune /\ clock - lastPrune <= PruneInterval
    BY DEF PruneInv, Sources
  <2>2. db \in Seq(Stamps) /\ clock \in Nat /\ lastPrune \in Nat
    BY DEF TInv, Rest
  <2>3. t \in Nat /\ Retention \in Nat /\ PruneInterval \in Nat
    BY <2>2, Members, HistoryAssumption DEF Stamps
  <2> QED BY <2>1, <2>2, <2>3
<1> QED BY HistoryInvs, <1>1, <1>2, <1>3, PTL DEF Spec
=============================================================================
