-------------------------- MODULE SeriesFeedProofs --------------------------
(* What a browser that only sees deltas can rebuild, for any rings, nodes,  *)
(* checks and fields, any queue and any number of browsers.                 *)
EXTENDS SeriesFeed, WellFoundedInduction, FiniteSetTheorems, TLAPS

-----------------------------------------------------------------------------
(* Replaying a queue                                                       *)

\* Induction over the naturals, as a fact about sets of them.
LEMMA NatSetInduction ==
  ASSUME NEW T, 0 \in T, \A n \in Nat : n \in T => n + 1 \in T
  PROVE  Nat \subseteq T
<1> DEFINE Out == Nat \ T
<1> SUFFICES ASSUME Out # {} PROVE FALSE
  OBVIOUS
<1> DEFINE Less == {p \in Nat \X Nat : p[1] < p[2]}
<1>1. IsWellFoundedOn(Less, Nat)
  <2>1. Less = OpToRel(<, Nat)
    BY DEF OpToRel
  <2> QED BY <2>1, NatLessThanWellFounded
<1>2. PICK x \in Out : \A y \in Out : <<y, x>> \notin Less
  <2> HIDE DEF Less
  <2> QED BY <1>1, WFMin
<1>3. x \in Nat \ {0} /\ x - 1 \in Nat
  OBVIOUS
<1>4. x - 1 \in T
  <2>1. <<x - 1, x>> \in Less
    BY <1>3
  <2> QED BY <1>2, <1>3, <2>1
<1> QED BY <1>3, <1>4

\* What is shown after each of the first n messages of q.
Shown(base, q, n) ==
  LET shown[i \in 0..n] == IF i = 0 THEN base ELSE ApplyDelta(shown[i - 1], q[i])
  IN shown

LEMMA ShownDef ==
  ASSUME NEW base, NEW q, NEW n \in Nat
  PROVE  /\ Shown(base, q, n)[0] = base
         /\ \A i \in 1..n : Shown(base, q, n)[i] = ApplyDelta(Shown(base, q, n)[i - 1], q[i])
<1> DEFINE Step(f, i) == IF i = 0 THEN base ELSE ApplyDelta(f[i - 1], q[i])
           T == {m \in Nat : \E f : f = [i \in 0..m |-> Step(f, i)]}
<1>1. 0 \in T
  <2>1. [i \in 0..0 |-> base] = [i \in 0..0 |-> Step([j \in 0..0 |-> base], i)]
    OBVIOUS
  <2> QED BY <2>1
<1>2. ASSUME NEW m \in Nat, m \in T PROVE m + 1 \in T
  <2>1. PICK f : f = [i \in 0..m |-> Step(f, i)]
    BY <1>2
  <2> DEFINE g == [i \in 0..(m + 1) |-> Step(f, i)]
  <2>2. \A i \in 0..m : g[i] = f[i]
    <3> HIDE DEF Step
    <3>1. \A i \in 0..m : f[i] = Step(f, i)
      BY <2>1
    <3> QED BY <3>1
  <2> HIDE DEF g
  <2>3. ASSUME NEW i \in 0..(m + 1) PROVE Step(g, i) = Step(f, i)
    <3>1. CASE i = 0
      BY <3>1
    <3>2. CASE i # 0
      <4>1. g[i - 1] = f[i - 1]
        BY <2>2, <3>2
      <4> QED BY <3>2, <4>1
    <3> QED BY <3>1, <3>2
  <2>4. g = [i \in 0..(m + 1) |-> Step(g, i)]
    <3> HIDE DEF Step
    <3> QED BY <2>3 DEF g
  <2> HIDE DEF Step
  <2> QED BY <2>4
<1>3. PICK f : f = [i \in 0..n |-> Step(f, i)]
  <2>1. n \in T
    <3> HIDE DEF T
    <3> QED BY <1>1, <1>2, NatSetInduction
  <2> QED BY <2>1
<1>4. Shown(base, q, n) = [i \in 0..n |-> Step(Shown(base, q, n), i)]
  BY <1>3 DEF Shown
<1> DEFINE s == Shown(base, q, n)
<1> HIDE DEF s
<1>5. \A i \in 0..n : s[i] = Step(s, i)
  <2> HIDE DEF Step
  <2> QED BY <1>4 DEF s
<1> QED BY <1>5 DEF s

LEMMA SettledIsShown ==
  ASSUME NEW s \in Sessions
  PROVE  Settled(s) = Shown(view[s], queue[s], Len(queue[s]))[Len(queue[s])]
BY DEF Settled, Shown

\* Only the messages matter, not where the queue begins.
LEMMA ShownShift ==
  ASSUME NEW base, NEW q, NEW n \in Nat, NEW other, NEW r, NEW m \in Nat, NEW off \in Nat,
         off + m <= n, \A i \in 1..m : r[i] = q[off + i],
         other = Shown(base, q, n)[off]
  PROVE  Shown(other, r, m)[m] = Shown(base, q, n)[off + m]
<1> DEFINE a == Shown(base, q, n)
           b == Shown(other, r, m)
           T == {i \in Nat : i <= m => b[i] = a[off + i]}
<1>1. \A i \in 1..n : a[i] = ApplyDelta(a[i - 1], q[i])
  BY ShownDef
<1>2. b[0] = a[off] /\ \A i \in 1..m : b[i] = ApplyDelta(b[i - 1], r[i])
  BY ShownDef
<1> HIDE DEF a, b
<1>3. 0 \in T
  BY <1>2
<1>4. ASSUME NEW i \in Nat, i \in T PROVE i + 1 \in T
  <2> SUFFICES ASSUME i + 1 <= m PROVE b[i + 1] = a[off + (i + 1)]
    OBVIOUS
  <2>1. b[i] = a[off + i] /\ i + 1 \in 1..m /\ (i + 1) - 1 = i
    BY <1>4
  <2>2. b[i + 1] = ApplyDelta(b[i], r[i + 1])
    BY <1>2, <2>1
  <2>3. off + (i + 1) \in 1..n /\ (off + (i + 1)) - 1 = off + i
    OBVIOUS
  <2>4. a[off + (i + 1)] = ApplyDelta(a[off + i], q[off + (i + 1)])
    BY <1>1, <2>3
  <2> QED BY <2>1, <2>2, <2>4
<1>5. Nat \subseteq T
  <2> HIDE DEF T
  <2> QED BY <1>3, <1>4, NatSetInduction
<1> QED BY <1>5 DEF a, b

\* An induction over the messages of a queue.
LEMMA QueueInduction ==
  ASSUME NEW T, NEW n \in Nat, NEW k \in 0..n, k \in T,
         \A i \in 1..n : k < i /\ i - 1 \in T => i \in T
  PROVE  \A i \in k..n : i \in T
<1> DEFINE S == {j \in Nat : k + j <= n => k + j \in T}
<1>1. 0 \in S
  OBVIOUS
<1>2. ASSUME NEW j \in Nat, j \in S PROVE j + 1 \in S
  <2> SUFFICES ASSUME k + (j + 1) <= n PROVE k + (j + 1) \in T
    OBVIOUS
  <2>1. k + (j + 1) \in 1..n /\ k < k + (j + 1) /\ (k + (j + 1)) - 1 = k + j /\ k + j \in T
    BY <1>2
  <2> QED BY <2>1
<1>3. Nat \subseteq S
  <2> HIDE DEF S
  <2> QED BY <1>1, <1>2, NatSetInduction
<1>4. \A i \in k..n : i - k \in Nat /\ k + (i - k) = i
  OBVIOUS
<1> QED BY <1>3, <1>4

LEMMA QueueInductionFromZero ==
  ASSUME NEW T, NEW n \in Nat, 0 \in T, \A i \in 1..n : i - 1 \in T => i \in T
  PROVE  \A i \in 0..n : i \in T
<1> DEFINE k == 0
<1>1. k \in 0..n /\ k \in T /\ \A i \in 1..n : k < i /\ i - 1 \in T => i \in T
  OBVIOUS
<1> HIDE DEF k
<1>2. \A i \in k..n : i \in T
  BY <1>1, QueueInduction
<1> QED BY <1>2 DEF k

-----------------------------------------------------------------------------
(* Rings                                                                   *)

LEMMA AppendFacts ==
  ASSUME NEW S, NEW seq \in Seq(S), NEW x \in S
  PROVE  /\ Append(seq, x) \in Seq(S) /\ Len(Append(seq, x)) = Len(seq) + 1
         /\ Append(seq, x)[Len(seq) + 1] = x /\ Append(seq, x) # <<>>
         /\ \A i \in 1..Len(seq) : Append(seq, x)[i] = seq[i]
OBVIOUS

\* The browser's slice keeps what the replica's deque keeps.
LEMMA RingFacts ==
  ASSUME NEW S, NEW seq \in Seq(S), NEW x \in S, NEW len \in Nat \ {0, 1}, Len(seq) <= len
  PROVE  /\ Ring(seq, len, x) \in Seq(S) /\ Len(Ring(seq, len, x)) <= len
         /\ Slide(seq, len, x) = Ring(seq, len, x)
         /\ Ring(seq, len, x) # <<>> /\ Last(Ring(seq, len, x)) = x
<1>1. CASE Len(seq) < len
  <2>1. /\ Append(seq, x) \in Seq(S) /\ Len(Append(seq, x)) = Len(seq) + 1
        /\ Append(seq, x)[Len(seq) + 1] = x /\ SubSeq(seq, 1, Len(seq)) = seq
        /\ Append(seq, x) # <<>>
    OBVIOUS
  <2> QED BY <1>1, <2>1 DEF Ring, Slide, Last
<1>2. CASE Len(seq) = len
  <2> DEFINE u == Tail(seq)
  <2>1. /\ u \in Seq(S) /\ Len(u) = Len(seq) - 1 /\ seq # <<>> /\ Len(seq) \in Nat \ {0}
        /\ u = SubSeq(seq, 2, Len(seq))
    BY <1>2
  <2> HIDE DEF u
  <2>2. /\ Append(u, x) \in Seq(S) /\ Len(Append(u, x)) = Len(u) + 1
        /\ Append(u, x)[Len(u) + 1] = x /\ Append(u, x) # <<>>
    BY <2>1, AppendFacts
  <2>3. Ring(seq, len, x) = Append(u, x) /\ Slide(seq, len, x) = Append(u, x)
    BY <1>2, <2>1 DEF Ring, Slide, u
  <2> DEFINE r == Append(u, x)
  <2> HIDE DEF r
  <2>4. r \in Seq(S) /\ Len(r) = len /\ Len(r) = Len(u) + 1 /\ r[Len(r)] = x /\ r # <<>>
    BY <1>2, <2>1, <2>2 DEF r
  <2> QED BY <2>3, <2>4 DEF Last, r
<1> QED BY <1>1, <1>2

-----------------------------------------------------------------------------
(* Snapshots and deltas                                                    *)

Times   == Nat
Values  == [Fields -> Nat]
Points  == {Point(t, d) : t \in Nat, d \in Values}
Results == [t : Nat, ok : BOOLEAN]
Entries == [config : Configs, last : Results, uptime : Nat \X Nat, history : Seq(Results)]

Snap == [events : Seq(Times),
         node_metrics : [Nodes -> Values],
         hardware     : [Nodes -> Values],
         node_history : [Nodes -> Seq(Points)],
         healthchecks : [Checks -> Entries \union {NoCheck}]]

EventMsg   == [type : {"event"}, data : Times]
MetricsMsg == [type : {"node_metrics"}, node : Nodes, t : Nat, data : Values]
CheckMsg   == [type : {"healthcheck"}, name : Checks, config : Configs,
               result : Results, uptime : Nat \X Nat]
DeletedMsg == [type : {"healthcheck_deleted"}, name : Checks]

Msg == EventMsg \union MetricsMsg \union CheckMsg \union DeletedMsg

Keys == {EventsKey} \union {NodeKey(n) : n \in Nodes} \union {CheckKey(c) : c \in Checks}

Fit(snap) == snap \in Snap /\ RingsBounded(snap)

LEMMA KeyFacts ==
  /\ \A n \in Nodes : EventsKey # NodeKey(n)
  /\ \A c \in Checks : EventsKey # CheckKey(c)
  /\ \A n \in Nodes, c \in Checks : NodeKey(n) # CheckKey(c)
  /\ \A n, m \in Nodes : NodeKey(n) = NodeKey(m) => n = m
  /\ \A c, d \in Checks : CheckKey(c) = CheckKey(d) => c = d
BY DEF EventsKey, NodeKey, CheckKey

LEMMA LenFacts == {EventsLen, HistoryLen, CheckLen} \subseteq Nat \ {0, 1}
BY RingAssumption

LEMMA MsgCases ==
  ASSUME NEW msg \in Msg
  PROVE  \/ msg \in EventMsg /\ msg.type = "event" /\ msg.data \in Times
            /\ KeyOf(msg) = EventsKey
         \/ /\ msg \in MetricsMsg /\ msg.type = "node_metrics" /\ msg.node \in Nodes
            /\ msg.t \in Nat /\ msg.data \in Values /\ KeyOf(msg) = NodeKey(msg.node)
         \/ /\ msg \in CheckMsg /\ msg.type = "healthcheck" /\ msg.name \in Checks
            /\ msg.config \in Configs /\ msg.result \in Results
            /\ msg.uptime \in Nat \X Nat /\ KeyOf(msg) = CheckKey(msg.name)
         \/ /\ msg \in DeletedMsg /\ msg.type = "healthcheck_deleted" /\ msg.name \in Checks
            /\ KeyOf(msg) = CheckKey(msg.name)
<1>1. CASE msg \in EventMsg
  BY <1>1 DEF EventMsg, KeyOf
<1>2. CASE msg \in MetricsMsg
  BY <1>2 DEF MetricsMsg, KeyOf
<1>3. CASE msg \in CheckMsg
  BY <1>3 DEF CheckMsg, KeyOf
<1>4. CASE msg \in DeletedMsg
  BY <1>4 DEF DeletedMsg, KeyOf
<1> QED BY <1>1, <1>2, <1>3, <1>4 DEF Msg

LEMMA MergeTypes ==
  ASSUME NEW a \in Values, NEW d \in Values
  PROVE  /\ Merge(a, d) \in Values
         /\ \A f \in Fields : Merge(a, d)[f] = IF d[f] # 0 THEN d[f] ELSE a[f]
BY DEF Values, Merge

\* The tables of a snapshot are those of a record.
LEMMA SnapParts ==
  ASSUME NEW snap, Fit(snap)
  PROVE  /\ snap.events \in Seq(Times) /\ Len(snap.events) <= EventsLen
         /\ snap.node_metrics \in [Nodes -> Values]
         /\ snap.hardware \in [Nodes -> Values]
         /\ snap.node_history \in [Nodes -> Seq(Points)]
         /\ snap.healthchecks \in [Checks -> Entries \union {NoCheck}]
         /\ \A n \in Nodes : Len(snap.node_history[n]) <= HistoryLen
         /\ \A c \in Checks : snap.healthchecks[c] # NoCheck =>
              /\ snap.healthchecks[c] \in Entries
              /\ Len(snap.healthchecks[c].history) <= CheckLen
BY DEF Fit, Snap, RingsBounded

LEMMA ApplyEvent ==
  ASSUME NEW snap, Fit(snap), NEW msg \in Msg, msg.type = "event"
  PROVE  LET a == ApplyDelta(snap, msg)
         IN  /\ Fit(a)
             /\ a.events = Ring(snap.events, EventsLen, msg.data)
             /\ a.node_metrics = snap.node_metrics /\ a.hardware = snap.hardware
             /\ a.node_history = snap.node_history /\ a.healthchecks = snap.healthchecks
<1> DEFINE r == Ring(snap.events, EventsLen, msg.data)
<1>1. msg.data \in Times
  BY MsgCases
<1>2. /\ r \in Seq(Times) /\ Len(r) <= EventsLen
      /\ Slide(snap.events, EventsLen, msg.data) = r
  <2> DEFINE old == snap.events
             x == msg.data
  <2>1. old \in Seq(Times) /\ Len(old) <= EventsLen /\ EventsLen \in Nat \ {0, 1} /\ x \in Times
    BY <1>1, SnapParts, LenFacts
  <2> HIDE DEF old, x
  <2> SUFFICES /\ Ring(old, EventsLen, x) \in Seq(Times)
               /\ Len(Ring(old, EventsLen, x)) <= EventsLen
               /\ Slide(old, EventsLen, x) = Ring(old, EventsLen, x)
    BY DEF old, x
  <2> QED BY <2>1, RingFacts
<1>3. ApplyDelta(snap, msg) = [snap EXCEPT !.events = r]
  BY <1>2 DEF ApplyDelta
<1> HIDE DEF r
<1> DEFINE a == [snap EXCEPT !.events = r]
<1>4. /\ Fit(a) /\ a.events = r
      /\ a.node_metrics = snap.node_metrics /\ a.hardware = snap.hardware
      /\ a.node_history = snap.node_history /\ a.healthchecks = snap.healthchecks
  BY <1>2 DEF Fit, Snap, RingsBounded
<1> QED BY <1>3, <1>4 DEF r

LEMMA ApplyMetrics ==
  ASSUME NEW snap, Fit(snap), NEW msg \in Msg, msg.type = "node_metrics"
  PROVE  LET a == ApplyDelta(snap, msg)
             n == msg.node
         IN  /\ Fit(a)
             /\ a.events = snap.events /\ a.healthchecks = snap.healthchecks
             /\ a.node_metrics[n] = Merge(snap.node_metrics[n], msg.data)
             /\ a.hardware[n] = Merge(snap.hardware[n], msg.data)
             /\ a.node_history[n] =
                  Ring(snap.node_history[n], HistoryLen, Point(msg.t, msg.data))
             /\ \A m \in Nodes \ {n} :
                  /\ a.node_metrics[m] = snap.node_metrics[m]
                  /\ a.hardware[m] = snap.hardware[m]
                  /\ a.node_history[m] = snap.node_history[m]
<1> DEFINE n == msg.node
           x == Merge(snap.node_metrics[n], msg.data)
           h == Merge(snap.hardware[n], msg.data)
           r == Ring(snap.node_history[n], HistoryLen, Point(msg.t, msg.data))
<1>1. n \in Nodes /\ msg.t \in Nat /\ msg.data \in Values
  BY MsgCases
<1>2. Point(msg.t, msg.data) \in Points
  BY <1>1 DEF Points
<1>3. /\ r \in Seq(Points) /\ Len(r) <= HistoryLen
      /\ Slide(snap.node_history[n], HistoryLen, Point(msg.t, msg.data)) = r
  <2>1. /\ snap.node_history[n] \in Seq(Points) /\ Len(snap.node_history[n]) <= HistoryLen
        /\ HistoryLen \in Nat \ {0, 1}
    BY <1>1, SnapParts, LenFacts
  <2> QED BY <1>2, <2>1, RingFacts
<1>4. x \in Values /\ h \in Values
  BY <1>1, SnapParts, MergeTypes
<1>5. ApplyDelta(snap, msg) = [snap EXCEPT !.node_metrics[n] = x, !.hardware[n] = h,
                                           !.node_history[n] = r]
  BY <1>1, <1>3 DEF ApplyDelta
<1> HIDE DEF x, h, r, n
<1> DEFINE a == [snap EXCEPT !.node_metrics[n] = x, !.hardware[n] = h, !.node_history[n] = r]
<1>6. /\ a.events = snap.events /\ a.healthchecks = snap.healthchecks
      /\ a.node_metrics = [snap.node_metrics EXCEPT ![n] = x]
      /\ a.hardware = [snap.hardware EXCEPT ![n] = h]
      /\ a.node_history = [snap.node_history EXCEPT ![n] = r]
      /\ a \in Snap
  BY <1>1, <1>3, <1>4 DEF Fit, Snap
<1> HIDE DEF a
<1>7. /\ a.node_metrics[n] = x /\ a.hardware[n] = h /\ a.node_history[n] = r
      /\ \A m \in Nodes \ {n} : /\ a.node_metrics[m] = snap.node_metrics[m]
                               /\ a.hardware[m] = snap.hardware[m]
                               /\ a.node_history[m] = snap.node_history[m]
  BY <1>1, <1>6, SnapParts
<1>8. Fit(a)
  BY <1>3, <1>6, <1>7 DEF Fit, RingsBounded
<1> QED BY <1>5, <1>6, <1>7, <1>8 DEF a, n, x, h, r

\* The history a check's next result is added to.
Past(entry) == IF entry = NoCheck THEN <<>> ELSE entry.history

LEMMA ApplyCheck ==
  ASSUME NEW snap, Fit(snap), NEW msg \in Msg, msg.type = "healthcheck"
  PROVE  LET a == ApplyDelta(snap, msg)
             c == msg.name
         IN  /\ Fit(a)
             /\ a.events = snap.events /\ a.node_metrics = snap.node_metrics
             /\ a.hardware = snap.hardware /\ a.node_history = snap.node_history
             /\ a.healthchecks[c] =
                  [config |-> msg.config, last |-> msg.result, uptime |-> msg.uptime,
                   history |-> Ring(Past(snap.healthchecks[c]), CheckLen, msg.result)]
             /\ a.healthchecks[c] # NoCheck
             /\ \A d \in Checks \ {c} : a.healthchecks[d] = snap.healthchecks[d]
<1> DEFINE c == msg.name
           old == Past(snap.healthchecks[c])
           r == Ring(old, CheckLen, msg.result)
           e == [config |-> msg.config, last |-> msg.result, uptime |-> msg.uptime,
                 history |-> r]
<1>1. /\ c \in Checks /\ msg.config \in Configs /\ msg.result \in Results
      /\ msg.uptime \in Nat \X Nat
  BY MsgCases
<1>2. /\ r \in Seq(Results) /\ Len(r) <= CheckLen /\ Slide(old, CheckLen, msg.result) = r
  <2>1. old \in Seq(Results) /\ Len(old) <= CheckLen /\ CheckLen \in Nat \ {0, 1}
    <3>1. CheckLen \in Nat \ {0, 1}
      BY LenFacts
    <3>2. CASE snap.healthchecks[c] = NoCheck
      BY <3>1, <3>2 DEF Past
    <3>3. CASE snap.healthchecks[c] # NoCheck
      BY <1>1, <3>1, <3>3, SnapParts DEF Past, Entries
    <3> QED BY <3>2, <3>3
  <2> QED BY <1>1, <2>1, RingFacts
<1>3. ApplyDelta(snap, msg) = [snap EXCEPT !.healthchecks[c] = e]
  BY <1>2 DEF ApplyDelta, Past
<1> HIDE DEF r
<1>4. e \in Entries /\ e.history = r
  BY <1>1, <1>2 DEF Entries
<1>5. e # NoCheck
  BY <1>4, NoCheckAssumption DEF Entries, Results
<1> HIDE DEF e, c
<1> DEFINE a == [snap EXCEPT !.healthchecks[c] = e]
<1>6. /\ a.events = snap.events /\ a.node_metrics = snap.node_metrics
      /\ a.hardware = snap.hardware /\ a.node_history = snap.node_history
      /\ a.healthchecks = [snap.healthchecks EXCEPT ![c] = e]
      /\ a \in Snap
  BY <1>1, <1>4 DEF Fit, Snap
<1> HIDE DEF a
<1>7. a.healthchecks[c] = e /\ \A d \in Checks \ {c} : a.healthchecks[d] = snap.healthchecks[d]
  BY <1>1, <1>6, SnapParts
<1>8. Fit(a)
  <2>1. e.config \in Configs
    BY <1>4 DEF Entries
  <2> QED BY <1>2, <1>4, <1>6, <1>7, <2>1 DEF Fit, RingsBounded
<1> QED BY <1>3, <1>5, <1>6, <1>7, <1>8 DEF a, c, e, r

LEMMA ApplyDeleted ==
  ASSUME NEW snap, Fit(snap), NEW msg \in Msg, msg.type = "healthcheck_deleted"
  PROVE  LET a == ApplyDelta(snap, msg)
             c == msg.name
         IN  /\ Fit(a)
             /\ a.events = snap.events /\ a.node_metrics = snap.node_metrics
             /\ a.hardware = snap.hardware /\ a.node_history = snap.node_history
             /\ a.healthchecks[c] = NoCheck
             /\ \A d \in Checks \ {c} : a.healthchecks[d] = snap.healthchecks[d]
<1> DEFINE c == msg.name
<1>1. c \in Checks
  BY MsgCases
<1>2. ApplyDelta(snap, msg) = [snap EXCEPT !.healthchecks[c] = NoCheck]
  BY DEF ApplyDelta
<1> HIDE DEF c
<1> DEFINE a == [snap EXCEPT !.healthchecks[c] = NoCheck]
<1>3. /\ a.events = snap.events /\ a.node_metrics = snap.node_metrics
      /\ a.hardware = snap.hardware /\ a.node_history = snap.node_history
      /\ a.healthchecks = [snap.healthchecks EXCEPT ![c] = NoCheck]
      /\ a \in Snap
  BY <1>1 DEF Fit, Snap
<1> HIDE DEF a
<1>4. a.healthchecks[c] = NoCheck /\ \A d \in Checks \ {c} : a.healthchecks[d] = snap.healthchecks[d]
  BY <1>1, <1>3, SnapParts
<1>5. Fit(a)
  BY <1>3, <1>4 DEF Fit, RingsBounded
<1> QED BY <1>2, <1>3, <1>4, <1>5 DEF a, c

-----------------------------------------------------------------------------
(* One key of a snapshot                                                   *)

SameRings(a, b, k) ==
  /\ k = EventsKey => a.events = b.events
  /\ \A n \in Nodes : k = NodeKey(n) => a.node_history[n] = b.node_history[n]
  /\ \A c \in Checks : k = CheckKey(c) => a.healthchecks[c] = b.healthchecks[c]

Same(a, b, k) ==
  /\ SameRings(a, b, k)
  /\ \A n \in Nodes : k = NodeKey(n) => /\ a.node_metrics[n] = b.node_metrics[n]
                                       /\ a.hardware[n] = b.hardware[n]

LEMMA ApplyFit ==
  ASSUME NEW snap, Fit(snap), NEW msg \in Msg
  PROVE  Fit(ApplyDelta(snap, msg))
BY MsgCases, ApplyEvent, ApplyMetrics, ApplyCheck, ApplyDeleted

\* A delta concerns its own key only.
LEMMA Untouched ==
  ASSUME NEW snap, Fit(snap), NEW msg \in Msg, NEW k, KeyOf(msg) # k
  PROVE  Same(ApplyDelta(snap, msg), snap, k)
<1> DEFINE a == ApplyDelta(snap, msg)
<1> SUFFICES Same(a, snap, k)
  OBVIOUS
<1>1. CASE msg.type = "event"
  <2>1. /\ KeyOf(msg) = EventsKey
        /\ a.node_metrics = snap.node_metrics /\ a.hardware = snap.hardware
        /\ a.node_history = snap.node_history /\ a.healthchecks = snap.healthchecks
    BY <1>1, MsgCases, ApplyEvent
  <2> HIDE DEF a
  <2> QED BY <2>1 DEF Same, SameRings
<1>2. CASE msg.type = "node_metrics"
  <2>1. /\ KeyOf(msg) = NodeKey(msg.node)
        /\ a.events = snap.events /\ a.healthchecks = snap.healthchecks
        /\ \A m \in Nodes \ {msg.node} :
             /\ a.node_metrics[m] = snap.node_metrics[m]
             /\ a.hardware[m] = snap.hardware[m]
             /\ a.node_history[m] = snap.node_history[m]
    BY <1>2, MsgCases, ApplyMetrics
  <2> HIDE DEF a
  <2> QED BY <2>1 DEF Same, SameRings
<1>3. CASE msg.type \in {"healthcheck", "healthcheck_deleted"}
  <2>1. /\ KeyOf(msg) = CheckKey(msg.name)
        /\ a.events = snap.events /\ a.node_metrics = snap.node_metrics
        /\ a.hardware = snap.hardware /\ a.node_history = snap.node_history
        /\ \A d \in Checks \ {msg.name} : a.healthchecks[d] = snap.healthchecks[d]
    <3>1. CASE msg.type = "healthcheck"
      BY <3>1, MsgCases, ApplyCheck
    <3>2. CASE msg.type = "healthcheck_deleted"
      BY <3>2, MsgCases, ApplyDeleted
    <3> QED BY <1>3, <3>1, <3>2
  <2> HIDE DEF a
  <2> QED BY <2>1 DEF Same, SameRings
<1> QED BY <1>1, <1>2, <1>3, MsgCases

\* What a delta makes of a key depends on that key only.
LEMMA RingsApplied ==
  ASSUME NEW a, Fit(a), NEW b, Fit(b), NEW msg \in Msg, NEW k, SameRings(a, b, k)
  PROVE  SameRings(ApplyDelta(a, msg), ApplyDelta(b, msg), k)
<1> DEFINE x == ApplyDelta(a, msg)
           y == ApplyDelta(b, msg)
<1> SUFFICES SameRings(x, y, k)
  OBVIOUS
<1>1. CASE KeyOf(msg) # k
  <2>1. Same(x, a, k) /\ Same(y, b, k)
    BY <1>1, Untouched
  <2> HIDE DEF x, y
  <2> QED BY <2>1 DEF Same, SameRings
<1>2. CASE KeyOf(msg) = k /\ msg.type = "event"
  <2>1. /\ k = EventsKey
        /\ x.events = Ring(a.events, EventsLen, msg.data)
        /\ y.events = Ring(b.events, EventsLen, msg.data)
    BY <1>2, MsgCases, ApplyEvent
  <2> HIDE DEF x, y
  <2> QED BY <2>1, KeyFacts DEF SameRings
<1>3. CASE KeyOf(msg) = k /\ msg.type = "node_metrics"
  <2> DEFINE n == msg.node
             p == Point(msg.t, msg.data)
  <2>1. /\ k = NodeKey(n) /\ n \in Nodes
        /\ x.node_history[n] = Ring(a.node_history[n], HistoryLen, p)
        /\ y.node_history[n] = Ring(b.node_history[n], HistoryLen, p)
    BY <1>3, MsgCases, ApplyMetrics
  <2> HIDE DEF x, y, n, p
  <2>2. x.node_history[n] = y.node_history[n]
    BY <2>1 DEF SameRings
  <2> QED BY <2>1, <2>2, KeyFacts DEF SameRings
<1>4. CASE KeyOf(msg) = k /\ msg.type \in {"healthcheck", "healthcheck_deleted"}
  <2> DEFINE c == msg.name
  <2>1. k = CheckKey(c) /\ c \in Checks
    BY <1>4, MsgCases
  <2>2. a.healthchecks[c] = b.healthchecks[c]
    BY <2>1 DEF SameRings
  <2>3. x.healthchecks[c] = y.healthchecks[c]
    <3>1. CASE msg.type = "healthcheck"
      <4> DEFINE v == [config |-> msg.config, last |-> msg.result, uptime |-> msg.uptime,
                       history |-> Ring(Past(a.healthchecks[c]), CheckLen, msg.result)]
      <4>1. x.healthchecks[c] = v
        BY <3>1, ApplyCheck
      <4>2. y.healthchecks[c] =
              [config |-> msg.config, last |-> msg.result, uptime |-> msg.uptime,
               history |-> Ring(Past(b.healthchecks[c]), CheckLen, msg.result)]
        BY <3>1, ApplyCheck
      <4> QED BY <2>2, <4>1, <4>2
    <3>2. CASE msg.type = "healthcheck_deleted"
      BY <3>2, ApplyDeleted
    <3> QED BY <1>4, <3>1, <3>2
  <2> HIDE DEF x, y, c
  <2> QED BY <2>1, <2>3, KeyFacts DEF SameRings
<1> QED BY <1>1, <1>2, <1>3, <1>4, MsgCases

LEMMA SameApplied ==
  ASSUME NEW a, Fit(a), NEW b, Fit(b), NEW msg \in Msg, NEW k, Same(a, b, k)
  PROVE  Same(ApplyDelta(a, msg), ApplyDelta(b, msg), k)
<1> DEFINE x == ApplyDelta(a, msg)
           y == ApplyDelta(b, msg)
<1>1. SameRings(x, y, k)
  BY RingsApplied DEF Same
<1>2. ASSUME NEW n \in Nodes, k = NodeKey(n)
      PROVE  x.node_metrics[n] = y.node_metrics[n] /\ x.hardware[n] = y.hardware[n]
  <2>1. a.node_metrics[n] = b.node_metrics[n] /\ a.hardware[n] = b.hardware[n]
    BY <1>2 DEF Same
  <2>2. CASE KeyOf(msg) # k
    <3>1. Same(x, a, k) /\ Same(y, b, k)
      BY <2>2, Untouched
    <3> HIDE DEF x, y
    <3> QED BY <1>2, <2>1, <3>1 DEF Same
  <2>3. CASE KeyOf(msg) = k
    <3>1. msg.type = "node_metrics" /\ msg.node = n
      BY <1>2, <2>3, MsgCases, KeyFacts
    <3> QED BY <2>1, <3>1, ApplyMetrics
  <2> QED BY <2>2, <2>3
<1> HIDE DEF x, y
<1>3. Same(x, y, k)
  BY <1>1, <1>2 DEF Same
<1> QED BY <1>3 DEF x, y

-----------------------------------------------------------------------------
(* The browser after a queue                                               *)

\* base after all of q.
Replay(base, q) == Shown(base, q, Len(q))[Len(q)]

LEMMA ShownFit ==
  ASSUME NEW base, Fit(base), NEW q \in Seq(Msg), NEW n \in 0..Len(q)
  PROVE  \A i \in 0..n : Fit(Shown(base, q, n)[i])
<1> DEFINE a == Shown(base, q, n)
           T == {i \in Nat : Fit(a[i])}
<1>1. a[0] = base /\ \A i \in 1..n : a[i] = ApplyDelta(a[i - 1], q[i])
  BY ShownDef
<1> HIDE DEF a
<1>2. 0 \in T
  BY <1>1
<1>3. ASSUME NEW i \in 1..n, i - 1 \in T PROVE i \in T
  <2>1. q[i] \in Msg
    OBVIOUS
  <2> QED BY <1>1, <1>3, <2>1, ApplyFit
<1>4. \A i \in 0..n : i \in T
  <2>1. n \in Nat
    OBVIOUS
  <2> HIDE DEF T
  <2> QED BY <1>2, <1>3, <2>1, QueueInductionFromZero
<1> QED BY <1>4 DEF a

\* Where no later message concerns a key, it stays as it was.
LEMMA ShownUntouched ==
  ASSUME NEW base, Fit(base), NEW q \in Seq(Msg), NEW k, NEW i \in 0..Len(q),
         \A j \in (i + 1)..Len(q) : KeyOf(q[j]) # k
  PROVE  Same(Replay(base, q), Shown(base, q, Len(q))[i], k)
<1> DEFINE n == Len(q)
           a == Shown(base, q, n)
           T == {j \in Nat : Same(a[j], a[i], k)}
<1>1. n \in Nat /\ \A j \in 1..n : a[j] = ApplyDelta(a[j - 1], q[j])
  BY ShownDef
<1>2. \A j \in 0..n : Fit(a[j])
  BY <1>1, ShownFit
<1> HIDE DEF a
<1>3. i \in T
  BY DEF Same, SameRings
<1>4. ASSUME NEW j \in 1..n, i < j, j - 1 \in T PROVE j \in T
  <2>1. q[j] \in Msg /\ KeyOf(q[j]) # k /\ Fit(a[j - 1])
    BY <1>2, <1>4
  <2>2. Same(a[j], a[j - 1], k)
    BY <1>1, <2>1, Untouched
  <2> QED BY <1>4, <2>2 DEF Same, SameRings
<1>5. \A j \in i..n : j \in T
  <2>1. i \in 0..n
    OBVIOUS
  <2> HIDE DEF T, n
  <2> QED BY <1>1, <1>3, <1>4, <2>1, QueueInduction
<1>6. n \in T
  BY <1>1, <1>5
<1> QED BY <1>6 DEF a, Replay

LEMMA ReplaySame ==
  ASSUME NEW base, Fit(base), NEW other, Fit(other), NEW q \in Seq(Msg), NEW k,
         Same(base, other, k)
  PROVE  Same(Replay(base, q), Replay(other, q), k)
<1> DEFINE n == Len(q)
           a == Shown(base, q, n)
           b == Shown(other, q, n)
           T == {j \in Nat : Same(a[j], b[j], k)}
<1>1. /\ n \in Nat /\ a[0] = base /\ b[0] = other
      /\ \A j \in 1..n : a[j] = ApplyDelta(a[j - 1], q[j]) /\ b[j] = ApplyDelta(b[j - 1], q[j])
  BY ShownDef
<1>2. \A j \in 0..n : Fit(a[j]) /\ Fit(b[j])
  BY <1>1, ShownFit
<1> HIDE DEF a, b
<1>3. 0 \in T
  BY <1>1
<1>4. ASSUME NEW j \in 1..n, j - 1 \in T PROVE j \in T
  <2>1. q[j] \in Msg /\ Fit(a[j - 1]) /\ Fit(b[j - 1])
    BY <1>2
  <2> QED BY <1>1, <1>4, <2>1, SameApplied
<1>5. \A j \in 0..n : j \in T
  <2> HIDE DEF T, n
  <2> QED BY <1>1, <1>3, <1>4, QueueInductionFromZero
<1>6. n \in T
  BY <1>1, <1>5
<1> QED BY <1>6 DEF a, b, Replay

LEMMA ReplayEnds ==
  ASSUME NEW base, NEW q \in Seq(Msg)
  PROVE  /\ q = <<>> => Replay(base, q) = base
         /\ \A m \in Msg : Replay(base, Append(q, m)) = ApplyDelta(Replay(base, q), m)
         /\ q # <<>> => Replay(base, q) = Replay(ApplyDelta(base, Head(q)), Tail(q))
<1> DEFINE n == Len(q)
           a == Shown(base, q, n)
<1>1. n \in Nat /\ a[0] = base /\ \A j \in 1..n : a[j] = ApplyDelta(a[j - 1], q[j])
  BY ShownDef
<1>2. q = <<>> => Replay(base, q) = base
  BY <1>1 DEF Replay
<1>3. ASSUME NEW m \in Msg PROVE Replay(base, Append(q, m)) = ApplyDelta(Replay(base, q), m)
  <2> DEFINE r == Append(q, m)
             b == Shown(base, r, n + 1)
  <2>1. /\ Len(r) = n + 1 /\ r[n + 1] = m /\ \A i \in 1..n : r[i] = q[i]
    BY AppendFacts
  <2> HIDE DEF r
  <2>2. b[0] = base /\ \A j \in 1..(n + 1) : b[j] = ApplyDelta(b[j - 1], r[j])
    BY <1>1, ShownDef
  <2>3. a[n] = b[n]
    <3> DEFINE off == 0
               N == n + 1
    <3>1. /\ n \in Nat /\ N \in Nat /\ off \in Nat /\ off + n <= N
          /\ \A i \in 1..n : q[i] = r[off + i]
          /\ base = Shown(base, r, N)[off]
      BY <1>1, <2>1, <2>2
    <3> HIDE DEF n, N, off
    <3>2. Shown(base, q, n)[n] = Shown(base, r, N)[off + n]
      BY <3>1, ShownShift
    <3> QED BY <3>1, <3>2 DEF N, off
  <2>5. b[n + 1] = ApplyDelta(a[n], m)
    BY <1>1, <2>1, <2>2, <2>3
  <2> QED BY <2>1, <2>5 DEF Replay, r
<1>4. ASSUME q # <<>> PROVE Replay(base, q) = Replay(ApplyDelta(base, Head(q)), Tail(q))
  <2> DEFINE u == Tail(q)
             b == Shown(ApplyDelta(base, Head(q)), u, n - 1)
  <2>1. n \in Nat \ {0} /\ Len(u) = n - 1 /\ Head(q) = q[1] /\ \A i \in 1..(n - 1) : u[i] = q[1 + i]
    BY <1>4
  <2> HIDE DEF u
  <2>2. a[1] = ApplyDelta(base, Head(q))
    BY <1>1, <2>1
  <2>4. b[n - 1] = a[n]
    <3> DEFINE off == 1
               N == n - 1
               other == ApplyDelta(base, Head(q))
    <3>1. /\ n \in Nat /\ N \in Nat /\ off \in Nat /\ off + N = n
          /\ \A i \in 1..N : u[i] = q[off + i]
          /\ other = Shown(base, q, n)[off]
      BY <2>1, <2>2
    <3> HIDE DEF n, N, off, other
    <3>2. Shown(other, u, N)[N] = Shown(base, q, n)[off + N]
      BY <3>1, ShownShift
    <3> QED BY <3>1, <3>2 DEF N, other
  <2> QED BY <2>1, <2>4 DEF Replay, u
<1> QED BY <1>2, <1>3, <1>4

-----------------------------------------------------------------------------
(* What a delta says of its key                                            *)

\* The latest values of the message's key are the message's.
Carries(m, st) ==
  /\ m.type = "node_metrics" =>
       /\ st.node_metrics[m.node] = m.data
       /\ st.node_history[m.node] # <<>>
       /\ Last(st.node_history[m.node]) = Point(m.t, m.data)
  /\ m.type = "healthcheck" =>
       /\ st.healthchecks[m.name] # NoCheck
       /\ st.healthchecks[m.name].config = m.config
       /\ st.healthchecks[m.name].last = m.result
       /\ st.healthchecks[m.name].uptime = m.uptime
  /\ m.type = "healthcheck_deleted" => st.healthchecks[m.name] = NoCheck

LatestNode(a, st, n) ==
  /\ a.node_metrics[n] = st.node_metrics[n]
  /\ st.node_history[n] # <<>> =>
       a.node_history[n] # <<>> /\ Last(a.node_history[n]) = Last(st.node_history[n])
  /\ \A f \in Fields \ MetricFields :
       st.hardware[n][f] # 0 => a.hardware[n][f] = st.hardware[n][f]

LatestCheck(a, st, c) ==
  IF st.healthchecks[c] = NoCheck THEN a.healthchecks[c] = NoCheck
  ELSE /\ a.healthchecks[c] # NoCheck
       /\ a.healthchecks[c].config = st.healthchecks[c].config
       /\ a.healthchecks[c].last = st.healthchecks[c].last
       /\ a.healthchecks[c].uptime = st.healthchecks[c].uptime

\* a shows the latest values of a key of st.
Latest(a, st, k) ==
  /\ \A n \in Nodes : k = NodeKey(n) => LatestNode(a, st, n)
  /\ \A c \in Checks : k = CheckKey(c) => LatestCheck(a, st, c)

\* A field the replica never had is nowhere.
Known(a, st) ==
  \A n \in Nodes, f \in Fields : st.node_metrics[n][f] = 0 => a.node_metrics[n][f] = 0

KnownMsg(m, st) ==
  m.type = "node_metrics" =>
    \A f \in Fields : st.node_metrics[m.node][f] = 0 => m.data[f] = 0

\* What an agent reports, and metrics.py does not measure, is in the merged record.
Forwarded(st) ==
  \A n \in Nodes, f \in Fields \ MetricFields :
    st.hardware[n][f] # 0 => st.node_metrics[n][f] = st.hardware[n][f]

LEMMA KnownApplied ==
  ASSUME NEW a, Fit(a), NEW st, Fit(st), NEW msg \in Msg, Known(a, st), KnownMsg(msg, st)
  PROVE  Known(ApplyDelta(a, msg), st)
<1> DEFINE x == ApplyDelta(a, msg)
<1> SUFFICES ASSUME NEW n \in Nodes, NEW f \in Fields, st.node_metrics[n][f] = 0
             PROVE  x.node_metrics[n][f] = 0
  BY DEF Known
<1>1. a.node_metrics[n][f] = 0 /\ a.node_metrics[n] \in Values
  BY SnapParts DEF Known
<1>2. CASE msg.type = "node_metrics" /\ msg.node = n
  <2>1. msg.data[f] = 0 /\ msg.data \in Values
    BY <1>2, MsgCases DEF KnownMsg
  <2>2. x.node_metrics[n] = Merge(a.node_metrics[n], msg.data)
    BY <1>2, ApplyMetrics
  <2> QED BY <1>1, <2>1, <2>2, MergeTypes
<1>3. CASE ~(msg.type = "node_metrics" /\ msg.node = n)
  <2>1. KeyOf(msg) # NodeKey(n)
    BY <1>3, MsgCases, KeyFacts
  <2>2. Same(x, a, NodeKey(n))
    BY <2>1, Untouched
  <2> HIDE DEF x
  <2> QED BY <1>1, <2>2 DEF Same
<1> QED BY <1>2, <1>3

\* A delta that carries its key's latest values restores them, whatever was
\* shown before.
LEMMA CarriedApplied ==
  ASSUME NEW a, Fit(a), NEW st, Fit(st), NEW msg \in Msg,
         Known(a, st), Forwarded(st), Carries(msg, st)
  PROVE  Latest(ApplyDelta(a, msg), st, KeyOf(msg))
<1> DEFINE x == ApplyDelta(a, msg)
<1>1. CASE msg.type = "event"
  <2>1. KeyOf(msg) = EventsKey
    BY <1>1, MsgCases
  <2> QED BY <2>1, KeyFacts DEF Latest
<1>2. CASE msg.type = "node_metrics"
  <2> DEFINE n == msg.node
             d == msg.data
             p == Point(msg.t, msg.data)
  <2>1. /\ n \in Nodes /\ d \in Values /\ p \in Points /\ KeyOf(msg) = NodeKey(n)
        /\ a.node_metrics[n] \in Values /\ a.hardware[n] \in Values
        /\ a.node_history[n] \in Seq(Points) /\ Len(a.node_history[n]) <= HistoryLen
    <3>1. n \in Nodes /\ d \in Values /\ KeyOf(msg) = NodeKey(n) /\ msg.t \in Nat
      BY <1>2, MsgCases
    <3>2. p \in Points
      BY <3>1 DEF Points
    <3>3. /\ a.node_metrics[n] \in Values /\ a.hardware[n] \in Values
          /\ a.node_history[n] \in Seq(Points) /\ Len(a.node_history[n]) <= HistoryLen
      BY <3>1, SnapParts
    <3> QED BY <3>1, <3>2, <3>3
  <2>2. /\ st.node_metrics[n] = d /\ st.node_history[n] # <<>> /\ Last(st.node_history[n]) = p
    BY <1>2 DEF Carries
  <2>3. /\ x.node_metrics[n] = Merge(a.node_metrics[n], d)
        /\ x.hardware[n] = Merge(a.hardware[n], d)
        /\ x.node_history[n] = Ring(a.node_history[n], HistoryLen, p)
    BY <1>2, ApplyMetrics
  <2> HIDE DEF x, n, d, p
  <2>4. x.node_metrics[n] = d
    <3>1. \A f \in Fields : d[f] = 0 => a.node_metrics[n][f] = 0
      BY <2>1, <2>2 DEF Known
    <3>2. Merge(a.node_metrics[n], d) \in Values
      BY <2>1, MergeTypes
    <3>3. \A f \in Fields : Merge(a.node_metrics[n], d)[f] = d[f]
      BY <2>1, <3>1, MergeTypes
    <3> QED BY <2>1, <2>3, <3>2, <3>3 DEF Values
  <2>5. x.node_history[n] # <<>> /\ Last(x.node_history[n]) = p
    <3>1. HistoryLen \in Nat \ {0, 1}
      BY LenFacts
    <3> QED BY <2>1, <2>3, <3>1, RingFacts
  <2>6. ASSUME NEW f \in Fields \ MetricFields, st.hardware[n][f] # 0
        PROVE  x.hardware[n][f] = st.hardware[n][f]
    <3>1. d[f] = st.hardware[n][f]
      BY <2>1, <2>2, <2>6 DEF Forwarded
    <3> QED BY <2>1, <2>3, <2>6, <3>1, MergeTypes
  <2>7. LatestNode(x, st, n)
    BY <2>2, <2>4, <2>5, <2>6 DEF LatestNode
  <2>8. Latest(x, st, NodeKey(n))
    BY <2>1, <2>7, KeyFacts DEF Latest
  <2> QED BY <2>1, <2>8 DEF x
<1>3. CASE msg.type \in {"healthcheck", "healthcheck_deleted"}
  <2> DEFINE c == msg.name
  <2>1. c \in Checks /\ KeyOf(msg) = CheckKey(c)
    BY <1>3, MsgCases
  <2>2. LatestCheck(x, st, c)
    <3>1. CASE msg.type = "healthcheck"
      <4> DEFINE e == x.healthchecks[c]
      <4>1. /\ e # NoCheck
            /\ e = [config |-> msg.config, last |-> msg.result, uptime |-> msg.uptime,
                    history |-> Ring(Past(a.healthchecks[c]), CheckLen, msg.result)]
        BY <3>1, ApplyCheck
      <4> HIDE DEF e
      <4>2. e.config = msg.config /\ e.last = msg.result /\ e.uptime = msg.uptime
        BY <4>1
      <4> QED BY <3>1, <4>1, <4>2 DEF e, Carries, LatestCheck
    <3>2. CASE msg.type = "healthcheck_deleted"
      BY <3>2, ApplyDeleted DEF Carries, LatestCheck
    <3> QED BY <1>3, <3>1, <3>2
  <2> HIDE DEF x, c
  <2>3. Latest(x, st, CheckKey(c))
    BY <2>1, <2>2, KeyFacts DEF Latest
  <2> QED BY <2>1, <2>3 DEF x
<1> QED BY <1>1, <1>2, <1>3, MsgCases

-----------------------------------------------------------------------------
(* Mutations of the replica                                                *)

\* What publishing m owes to the tables: new is st with the key of m changed,
\* to what every browser makes of m.
Grows(m, st, new) ==
  /\ m \in Msg /\ Fit(new)
  /\ \A k : k # KeyOf(m) => Same(new, st, k)
  /\ SameRings(ApplyDelta(st, m), new, KeyOf(m))
  /\ Carries(m, new) /\ KnownMsg(m, new) /\ Known(st, new)
  /\ Forwarded(st) => Forwarded(new)

\* One shape of all mutations: a new value for the key of the message.
LEMMA RingGrows ==
  ASSUME NEW st, Fit(st), NEW m \in Msg, m.type # "node_metrics", NEW new,
         /\ new.events = ApplyDelta(st, m).events
         /\ new.node_metrics = st.node_metrics /\ new.hardware = st.hardware
         /\ new.node_history = st.node_history
         /\ new.healthchecks = ApplyDelta(st, m).healthchecks,
         new \in Snap, Carries(m, new)
  PROVE  Grows(m, st, new)
<1> DEFINE x == ApplyDelta(st, m)
<1>1. Fit(x)
  BY ApplyFit
<1>2. \A k : k # KeyOf(m) => Same(x, st, k)
  BY Untouched
<1>3. x.node_history = st.node_history /\ x.node_metrics = st.node_metrics /\ x.hardware = st.hardware
  BY MsgCases, ApplyEvent, ApplyCheck, ApplyDeleted
<1> HIDE DEF x
<1>4. Fit(new)
  BY <1>1, <1>3 DEF Fit, RingsBounded, x
<1>5. \A k : k # KeyOf(m) => Same(new, st, k)
  BY <1>2, <1>3 DEF Same, SameRings, x
<1>6. SameRings(x, new, KeyOf(m))
  BY <1>3 DEF SameRings, x
<1>7. KnownMsg(m, new) /\ Known(st, new) /\ (Forwarded(st) => Forwarded(new))
  BY DEF KnownMsg, Known, Forwarded
<1> QED BY <1>4, <1>5, <1>6, <1>7 DEF Grows, x

LEMMA EventGrows ==
  ASSUME Fit(state), clock \in Nat, AddEvent
  PROVE  \E m \in Msg : PublishDelta(m) /\ Grows(m, state, state')
<1> DEFINE m == [type |-> "event", data |-> Now]
           r == Ring(state.events, EventsLen, Now)
<1>1. m \in Msg /\ m.type = "event" /\ m.data = Now
  BY DEF Msg, EventMsg, Now, Times
<1>2. PublishDelta(m) /\ state' = [state EXCEPT !.events = r]
  BY DEF AddEvent
<1> HIDE DEF m
<1>3. /\ Fit(ApplyDelta(state, m)) /\ ApplyDelta(state, m).events = r
      /\ ApplyDelta(state, m).healthchecks = state.healthchecks
  BY <1>1, ApplyEvent
<1>4. r \in Seq(Times)
  BY <1>3, SnapParts
<1> HIDE DEF r
<1>5. /\ state' \in Snap /\ state'.events = r
      /\ state'.node_metrics = state.node_metrics /\ state'.hardware = state.hardware
      /\ state'.node_history = state.node_history /\ state'.healthchecks = state.healthchecks
  BY <1>2, <1>4 DEF Fit, Snap
<1>6. Carries(m, state')
  BY <1>1 DEF Carries
<1>7. Grows(m, state, state')
  BY <1>1, <1>3, <1>5, <1>6, RingGrows
<1> QED BY <1>1, <1>2, <1>7

LEMMA DeletedGrows ==
  ASSUME Fit(state), clock \in Nat, NEW c \in Checks, RemoveCheck(c)
  PROVE  \E m \in Msg : PublishDelta(m) /\ Grows(m, state, state')
<1> DEFINE m == [type |-> "healthcheck_deleted", name |-> c]
<1>1. m \in Msg /\ m.type = "healthcheck_deleted" /\ m.name = c
  BY DEF Msg, DeletedMsg
<1>2. PublishDelta(m) /\ state' = [state EXCEPT !.healthchecks[c] = NoCheck]
  BY DEF RemoveCheck
<1> HIDE DEF m
<1>3. /\ Fit(ApplyDelta(state, m)) /\ ApplyDelta(state, m).events = state.events
      /\ ApplyDelta(state, m).healthchecks[c] = NoCheck
      /\ \A d \in Checks \ {c} : ApplyDelta(state, m).healthchecks[d] = state.healthchecks[d]
  BY <1>1, ApplyDeleted
<1>4. ApplyDelta(state, m).healthchecks = [state.healthchecks EXCEPT ![c] = NoCheck]
  <2> DEFINE h == ApplyDelta(state, m).healthchecks
             g == state.healthchecks
  <2>1. /\ h \in [Checks -> Entries \union {NoCheck}] /\ g \in [Checks -> Entries \union {NoCheck}]
        /\ h[c] = NoCheck /\ \A d \in Checks \ {c} : h[d] = g[d]
    BY <1>3, SnapParts
  <2> HIDE DEF h, g
  <2>2. h = [g EXCEPT ![c] = NoCheck]
    BY <2>1
  <2> QED BY <2>2 DEF h, g
<1>5. /\ state' \in Snap /\ state'.events = state.events
      /\ state'.node_metrics = state.node_metrics /\ state'.hardware = state.hardware
      /\ state'.node_history = state.node_history
      /\ state'.healthchecks = [state.healthchecks EXCEPT ![c] = NoCheck]
  BY <1>2 DEF Fit, Snap
<1>6. Carries(m, state')
  <2>1. state'.healthchecks[c] = NoCheck
    BY <1>5, SnapParts
  <2> QED BY <1>1, <2>1 DEF Carries
<1>7. Grows(m, state, state')
  BY <1>1, <1>3, <1>4, <1>5, <1>6, RingGrows
<1> QED BY <1>1, <1>2, <1>7

LEMMA UpFacts ==
  ASSUME NEW history \in Seq(Results)
  PROVE  <<Up(history), Len(history)>> \in Nat \X Nat
<1> DEFINE good == {i \in DOMAIN history : history[i].ok}
<1>1. good \subseteq 1..Len(history) /\ Len(history) \in Nat
  OBVIOUS
<1> HIDE DEF good
<1>2. IsFiniteSet(good)
  <2>1. IsFiniteSet(1..Len(history))
    <3> DEFINE k == Len(history)
    <3>1. 1 \in Int /\ k \in Int
      BY <1>1
    <3> HIDE DEF k
    <3>2. IsFiniteSet(1..k)
      BY <3>1, FS_Interval
    <3> QED BY <3>2 DEF k
  <2> QED BY <1>1, <2>1, FS_Subset
<1>3. Cardinality(good) \in Nat
  BY <1>2, FS_CardinalityType
<1> QED BY <1>1, <1>3 DEF Up, good

LEMMA CheckGrows ==
  ASSUME Fit(state), clock \in Nat, NEW c \in Checks, NEW config \in Configs,
         NEW ok \in BOOLEAN, RecordCheck(c, config, ok)
  PROVE  \E m \in Msg : PublishDelta(m) /\ Grows(m, state, state')
<1> DEFINE result == [t |-> Now, ok |-> ok]
           old == state.healthchecks[c]
           r == Ring(Past(old), CheckLen, result)
           up == <<Up(r), Len(r)>>
           e == [config |-> config, last |-> result, history |-> r, uptime |-> up]
           m == [type |-> "healthcheck", name |-> c, config |-> config,
                 result |-> result, uptime |-> up]
<1>1. result \in Results
  BY DEF Results, Now
<1>2. PublishDelta(m) /\ state' = [state EXCEPT !.healthchecks[c] = e]
  BY DEF RecordCheck, Checked, Past
<1>3. r \in Seq(Results)
  <2>1. CheckLen \in Nat \ {0, 1}
    BY LenFacts
  <2>2. Past(old) \in Seq(Results) /\ Len(Past(old)) <= CheckLen
    <3>1. CASE old = NoCheck
      BY <2>1, <3>1 DEF Past
    <3>2. CASE old # NoCheck
      BY <3>2, SnapParts DEF Past, Entries
    <3> QED BY <3>1, <3>2
  <2> QED BY <1>1, <2>1, <2>2, RingFacts
<1>4. up \in Nat \X Nat
  BY <1>3, UpFacts
<1> HIDE DEF r, up, result
<1>5. e \in Entries /\ e # NoCheck
  <2>1. e \in Entries
    BY <1>1, <1>3, <1>4 DEF Entries
  <2> HIDE DEF e
  <2> QED BY <2>1, NoCheckAssumption DEF Entries, Results
<1>6. /\ m \in Msg /\ m.type = "healthcheck" /\ m.name = c
      /\ m.config = config /\ m.result = result /\ m.uptime = up
  BY <1>1, <1>4 DEF Msg, CheckMsg
<1> HIDE DEF m
<1>7. /\ Fit(ApplyDelta(state, m)) /\ ApplyDelta(state, m).events = state.events
      /\ ApplyDelta(state, m).healthchecks[c] = e
      /\ \A d \in Checks \ {c} : ApplyDelta(state, m).healthchecks[d] = state.healthchecks[d]
  BY <1>6, ApplyCheck DEF r, e
<1>8. e.config = config /\ e.last = result /\ e.uptime = up
  OBVIOUS
<1> HIDE DEF e
<1>9. ApplyDelta(state, m).healthchecks = [state.healthchecks EXCEPT ![c] = e]
  <2> DEFINE h == ApplyDelta(state, m).healthchecks
             g == state.healthchecks
  <2>1. /\ h \in [Checks -> Entries \union {NoCheck}] /\ g \in [Checks -> Entries \union {NoCheck}]
        /\ h[c] = e /\ \A d \in Checks \ {c} : h[d] = g[d]
    BY <1>7, SnapParts
  <2> HIDE DEF h, g
  <2>2. h = [g EXCEPT ![c] = e]
    BY <2>1
  <2> QED BY <2>2 DEF h, g
<1>10. /\ state' \in Snap /\ state'.events = state.events
       /\ state'.node_metrics = state.node_metrics /\ state'.hardware = state.hardware
       /\ state'.node_history = state.node_history
       /\ state'.healthchecks = [state.healthchecks EXCEPT ![c] = e]
  BY <1>2, <1>5 DEF Fit, Snap
<1>11. Carries(m, state')
  <2>1. state'.healthchecks[c] = e
    BY <1>10, SnapParts
  <2> QED BY <1>5, <1>6, <1>8, <2>1 DEF Carries
<1>12. Grows(m, state, state')
  BY <1>6, <1>7, <1>9, <1>10, <1>11, RingGrows
<1> QED BY <1>2, <1>6, <1>12

LEMMA SampleGrows ==
  ASSUME NEW st, Fit(st), NEW n \in Nodes, NEW sample \in Values, NEW hw \in Values,
         NEW t \in Nat, NEW data, data = Merge(st.node_metrics[n], sample),
         NEW r, r = Ring(st.node_history[n], HistoryLen, Point(t, data)),
         \/ hw = sample
         \/ hw = st.hardware[n] /\ \A f \in Fields \ MetricFields : sample[f] = 0,
         NEW new,
         /\ new \in Snap /\ new.events = st.events /\ new.healthchecks = st.healthchecks
         /\ new.node_metrics = [st.node_metrics EXCEPT ![n] = data]
         /\ new.hardware = [st.hardware EXCEPT ![n] = hw]
         /\ new.node_history = [st.node_history EXCEPT ![n] = r],
         NEW m, m = [type |-> "node_metrics", node |-> n, t |-> t, data |-> data]
  PROVE  Grows(m, st, new)
<1> DEFINE x == ApplyDelta(st, m)
<1>1. st.node_metrics[n] \in Values
  BY SnapParts
<1>2. data \in Values /\ \A f \in Fields :
        data[f] = IF sample[f] # 0 THEN sample[f] ELSE st.node_metrics[n][f]
  BY <1>1, MergeTypes
<1>3. /\ m \in Msg /\ m.type = "node_metrics" /\ m.node = n /\ m.t = t /\ m.data = data
      /\ KeyOf(m) = NodeKey(n)
  BY <1>2 DEF Msg, MetricsMsg, KeyOf
<1>4. /\ new.node_metrics[n] = data /\ new.hardware[n] = hw /\ new.node_history[n] = r
      /\ \A l \in Nodes \ {n} : /\ new.node_metrics[l] = st.node_metrics[l]
                               /\ new.hardware[l] = st.hardware[l]
                               /\ new.node_history[l] = st.node_history[l]
  BY SnapParts
<1>5. Fit(x) /\ x.node_history[n] = r
  BY <1>3, ApplyMetrics
<1>6. /\ r # <<>> /\ Last(r) = Point(t, data) /\ Len(r) <= HistoryLen
  <2>1. Point(t, data) \in Points
    BY <1>2 DEF Points
  <2>2. HistoryLen \in Nat \ {0, 1}
    BY LenFacts
  <2>3. st.node_history[n] \in Seq(Points) /\ Len(st.node_history[n]) <= HistoryLen
    BY SnapParts
  <2> QED BY <2>1, <2>2, <2>3, RingFacts
<1> HIDE DEF x
<1>7. Fit(new)
  BY <1>4, <1>6 DEF Fit, RingsBounded
<1>8. \A k : k # KeyOf(m) => Same(new, st, k)
  BY <1>3, <1>4 DEF Same, SameRings
<1>9. SameRings(x, new, KeyOf(m))
  BY <1>3, <1>4, <1>5, KeyFacts DEF SameRings
<1>10. Carries(m, new)
  BY <1>3, <1>4, <1>6 DEF Carries
<1>11. KnownMsg(m, new)
  BY <1>3, <1>4 DEF KnownMsg
<1>12. Known(st, new)
  <2> SUFFICES ASSUME NEW l \in Nodes, NEW f \in Fields, new.node_metrics[l][f] = 0
               PROVE  st.node_metrics[l][f] = 0
    BY DEF Known
  <2> QED BY <1>2, <1>4
<1>13. ASSUME Forwarded(st) PROVE Forwarded(new)
  <2> SUFFICES ASSUME NEW l \in Nodes, NEW f \in Fields \ MetricFields,
                      new.hardware[l][f] # 0
               PROVE  new.node_metrics[l][f] = new.hardware[l][f]
    BY DEF Forwarded
  <2>1. CASE l # n
    BY <1>4, <1>13, <2>1 DEF Forwarded
  <2>2. CASE l = n /\ hw = sample
    BY <1>2, <1>4, <2>2
  <2>3. CASE l = n /\ hw = st.hardware[n] /\ sample[f] = 0
    BY <1>2, <1>4, <1>13, <2>3 DEF Forwarded
  <2> QED BY <2>1, <2>2, <2>3
<1> QED BY <1>3, <1>7, <1>8, <1>9, <1>10, <1>11, <1>12, <1>13 DEF Grows, x

LEMMA SampledFacts ==
  ASSUME clock \in Nat, NEW fields
  PROVE  /\ Sampled(fields) \in Values /\ Now \in Nat
         /\ \A f \in Fields \ fields : Sampled(fields)[f] = 0
BY DEF Sampled, Values, Now

LEMMA NodeGrows ==
  ASSUME Fit(state), clock \in Nat, NEW n \in Nodes,
         \/ RecordNodeSample(n)
         \/ \E fields : RecordHardware(n, fields)
  PROVE  \E m \in Msg : PublishDelta(m) /\ Grows(m, state, state')
<1>1. PICK fields : \/ RecordNodeSample(n) /\ fields = MetricFields
                   \/ RecordHardware(n, fields)
  OBVIOUS
<1> DEFINE sample == Sampled(fields)
           hw == IF RecordHardware(n, fields) THEN sample ELSE state.hardware[n]
           data == Merge(state.node_metrics[n], sample)
           r == Ring(state.node_history[n], HistoryLen, Point(Now, data))
           m == [type |-> "node_metrics", node |-> n, t |-> Now, data |-> data]
<1>2. sample \in Values /\ Now \in Nat /\ \A f \in Fields \ fields : sample[f] = 0
  BY SampledFacts
<1>3. state.node_metrics[n] \in Values /\ state.hardware[n] \in Values
  BY SnapParts
<1>4. data \in Values /\ hw \in Values
  BY <1>2, <1>3, MergeTypes
<1>5. r \in Seq(Points)
  <2>1. Point(Now, data) \in Points
    BY <1>2, <1>4 DEF Points
  <2>2. HistoryLen \in Nat \ {0, 1}
    BY LenFacts
  <2>3. state.node_history[n] \in Seq(Points) /\ Len(state.node_history[n]) <= HistoryLen
    BY SnapParts
  <2> QED BY <2>1, <2>2, <2>3, RingFacts
<1>6. PublishDelta(m)
  BY <1>1 DEF RecordNodeSample, RecordHardware, NodeMetrics
<1>7. \/ hw = sample
      \/ hw = state.hardware[n] /\ \A f \in Fields \ MetricFields : sample[f] = 0
  BY <1>1, <1>2
<1>8. /\ state' \in Snap /\ state'.events = state.events
      /\ state'.healthchecks = state.healthchecks
      /\ state'.node_metrics = [state.node_metrics EXCEPT ![n] = data]
      /\ state'.hardware = [state.hardware EXCEPT ![n] = hw]
      /\ state'.node_history = [state.node_history EXCEPT ![n] = r]
  <2>1. CASE RecordHardware(n, fields)
    <3> DEFINE mid == [state EXCEPT !.hardware[n] = sample]
    <3>1. /\ mid \in Snap /\ mid.events = state.events /\ mid.healthchecks = state.healthchecks
          /\ mid.node_metrics = state.node_metrics /\ mid.node_history = state.node_history
          /\ mid.hardware = [state.hardware EXCEPT ![n] = hw]
      <4> HIDE DEF sample
      <4> QED BY <1>2, <2>1 DEF Fit, Snap
    <3>2. state' = NodeSample(mid, n, fields)
      BY <2>1 DEF RecordHardware
    <3> HIDE DEF mid, hw
    <3>3. state' = [mid EXCEPT !.node_metrics[n] = data, !.node_history[n] = r]
      BY <3>1, <3>2 DEF NodeSample, Snap
    <3> HIDE DEF data, r
    <3> QED BY <1>4, <1>5, <3>1, <3>3 DEF Snap
  <2>2. CASE ~RecordHardware(n, fields)
    <3>1. hw = state.hardware[n]
      BY <2>2
    <3>2. state.hardware = [state.hardware EXCEPT ![n] = hw]
      BY <3>1, SnapParts
    <3>3. state' = [state EXCEPT !.node_metrics[n] = data, !.node_history[n] = r]
      BY <1>1, <2>2 DEF RecordNodeSample, NodeSample, Fit, Snap
    <3> HIDE DEF data, r, hw
    <3> QED BY <1>4, <1>5, <3>2, <3>3 DEF Fit, Snap
  <2> QED BY <2>1, <2>2
<1> HIDE DEF sample, hw
<1>9. Grows(m, state, state')
  BY <1>2, <1>4, <1>7, <1>8, SampleGrows
<1> QED BY <1>6, <1>9 DEF Grows

\* Every mutation publishes the delta that repeats it.
LEMMA MutationGrows ==
  ASSUME Fit(state), clock \in Nat, Mutation
  PROVE  \E m \in Msg : PublishDelta(m) /\ Grows(m, state, state')
BY EventGrows, NodeGrows, DeletedGrows, CheckGrows DEF Mutation

-----------------------------------------------------------------------------
(* Types                                                                   *)

Queues ==
  /\ subscribers \subseteq Sessions
  /\ queue \in [Sessions -> Seq(Msg)]
  /\ \A s \in Sessions : Len(queue[s]) <= QueueMax
  /\ \A s \in Sessions \ subscribers : queue[s] = <<>>

Copies ==
  /\ Fit(state) /\ clock \in Nat
  /\ view \in [Sessions -> Snap \union {NoView}]
  /\ \A s \in subscribers : Fit(view[s])

Marks ==
  /\ stale \in [Sessions -> SUBSET Keys] /\ missed \in [Sessions -> SUBSET Keys]
  /\ \A s \in Sessions : stale[s] \subseteq missed[s]

TInv == Queues /\ Copies /\ Marks

LEMMA TInvTypes == TInv => TypeOK
BY DEF TInv, Queues, Copies, Marks, TypeOK, Fit

LEMMA TInvInit == Init => TInv
<1> SUFFICES ASSUME Init PROVE TInv
  OBVIOUS
<1>1. Queues
  BY QueueMaxAssumption DEF Init, PubSubInit, Queues
<1>2. Marks
  BY DEF Init, Marks
<1>3. Fit(state)
  <2>1. Unreported \in Values
    BY DEF Unreported, Values
  <2>2. state \in Snap
    BY <2>1 DEF Init, Snap
  <2>3. RingsBounded(state)
    BY LenFacts DEF Init, RingsBounded
  <2> QED BY <2>2, <2>3 DEF Fit
<1>4. Copies
  BY <1>3 DEF Init, PubSubInit, Copies
<1> QED BY <1>1, <1>2, <1>4 DEF TInv

LEMMA KeyTypes ==
  ASSUME NEW m \in Msg
  PROVE  KeyOf(m) \in Keys
BY MsgCases DEF Keys

\* What publishing does to one queue: the message is put last, and when the
\* queue is full the oldest one goes.
LEMMA PublishFacts ==
  ASSUME Queues, NEW m \in Msg, PublishDelta(m), NEW s \in subscribers
  PROVE  /\ s \in Sessions /\ queue[s] \in Seq(Msg)
         /\ \/ Dropped(s) = {} /\ queue'[s] = Append(queue[s], m)
            \/ /\ queue[s] # <<>> /\ Dropped(s) = {KeyOf(Head(queue[s]))}
               /\ queue'[s] = Append(Tail(queue[s]), m)
         /\ missed'[s] = missed[s] \union Dropped(s)
         /\ stale'[s] = (stale[s] \union (Dropped(s) \ StillQueued(s))) \ {KeyOf(m)}
<1> DEFINE q == queue[s]
<1>1. s \in Sessions /\ q \in Seq(Msg) /\ Len(q) <= QueueMax /\ Len(q) \in Nat
  BY DEF Queues
<1>2. queue'[s] = Put(q, m)
  BY <1>1 DEF PublishDelta, Publish
<1>3. /\ missed'[s] = missed[s] \union Dropped(s)
      /\ stale'[s] = (stale[s] \union (Dropped(s) \ StillQueued(s))) \ {KeyOf(m)}
  BY <1>1 DEF PublishDelta
<1>4. CASE Len(q) < QueueMax
  BY <1>1, <1>2, <1>3, <1>4 DEF Put, Dropped
<1>5. CASE Len(q) = QueueMax
  <2>1. q # <<>>
    BY <1>5, QueueMaxAssumption
  <2> QED BY <1>1, <1>2, <1>3, <1>5, <2>1, QueueMaxAssumption DEF Put, Dropped
<1> QED BY <1>1, <1>4, <1>5, QueueMaxAssumption

LEMMA PublishTypes ==
  ASSUME Queues, Marks, NEW m \in Msg, PublishDelta(m)
  PROVE  Queues' /\ Marks' /\ subscribers' = subscribers /\ view' = view
<1>1. subscribers' = subscribers /\ view' = view
  BY DEF PublishDelta, Publish
<1>2. ASSUME NEW s \in Sessions
      PROVE  /\ (IF s \in subscribers THEN Put(queue[s], m) ELSE queue[s]) \in Seq(Msg)
             /\ Len(IF s \in subscribers THEN Put(queue[s], m) ELSE queue[s]) <= QueueMax
  <2> DEFINE q == queue[s]
  <2>1. q \in Seq(Msg) /\ Len(q) <= QueueMax
    BY DEF Queues
  <2> HIDE DEF q
  <2>2. Put(q, m) \in Seq(Msg) /\ Len(Put(q, m)) <= QueueMax
    <3>1. CASE Len(q) < QueueMax
      BY <2>1, <3>1, QueueMaxAssumption DEF Put
    <3>2. CASE Len(q) = QueueMax
      <4>1. q # <<>> /\ Tail(q) \in Seq(Msg) /\ Len(Tail(q)) = Len(q) - 1
        BY <2>1, <3>2, QueueMaxAssumption
      <4>2. Append(Tail(q), m) \in Seq(Msg) /\ Len(Append(Tail(q), m)) = Len(q)
        BY <2>1, <4>1
      <4> QED BY <3>2, <4>2, QueueMaxAssumption DEF Put
    <3> QED BY <2>1, <3>1, <3>2, QueueMaxAssumption
  <2> QED BY <2>1, <2>2 DEF q
<1>3. Queues'
  BY <1>1, <1>2 DEF PublishDelta, Publish, Queues
<1>4. ASSUME NEW s \in Sessions PROVE Dropped(s) \subseteq Keys
  <2>1. CASE s \in subscribers
    <3>1. queue[s] # <<>> => Head(queue[s]) \in Msg
      BY DEF Queues
    <3> QED BY <2>1, <3>1, PublishFacts, KeyTypes
  <2>2. CASE s \notin subscribers
    BY <2>2 DEF Dropped
  <2> QED BY <2>1, <2>2
<1>5. Marks'
  BY <1>4 DEF PublishDelta, Marks
<1> QED BY <1>1, <1>3, <1>5

LEMMA GetFacts ==
  ASSUME NEW q \in Seq(Msg), q # <<>>
  PROVE  /\ Head(q) \in Msg /\ Head(q) = q[1] /\ Tail(q) \in Seq(Msg)
         /\ Len(q) \in Nat \ {0} /\ Len(Tail(q)) = Len(q) - 1
         /\ \A i \in 1..Len(Tail(q)) : Tail(q)[i] = q[i + 1]
OBVIOUS

LEMMA TInvInductive == TInv /\ [Next]_vars => TInv'
<1> SUFFICES ASSUME TInv, [Next]_vars PROVE TInv'
  OBVIOUS
<1> USE DEF TInv
<1>1. CASE Mutation
  <2>1. PICK m \in Msg : PublishDelta(m) /\ Grows(m, state, state')
    BY <1>1, MutationGrows DEF Copies
  <2>2. Queues' /\ Marks' /\ subscribers' = subscribers /\ view' = view
    BY <2>1, PublishTypes
  <2>3. Fit(state') /\ clock' \in Nat
    BY <2>1 DEF Grows, PublishDelta, Copies
  <2> QED BY <2>2, <2>3 DEF Copies
<1>2. ASSUME NEW s \in Sessions, Connect(s) PROVE TInv'
  <2>1. Queues'
    BY <1>2, QueueMaxAssumption DEF Connect, Subscribe, Queues
  <2>2. Marks'
    BY <1>2 DEF Connect, Marks
  <2>3. view' = [view EXCEPT ![s] = state] /\ UNCHANGED <<state, clock>>
        /\ subscribers' = subscribers \union {s} /\ state \in Snap
    BY <1>2 DEF Connect, Subscribe, Copies, Fit
  <2>4. \A r \in subscribers' : Fit(view'[r])
    BY <2>3 DEF Copies, Queues
  <2> QED BY <2>1, <2>2, <2>3, <2>4 DEF Copies
<1>3. ASSUME NEW s \in Sessions, Deliver(s) PROVE TInv'
  <2> DEFINE q == queue[s]
  <2>1. q \in Seq(Msg) /\ q # <<>> /\ Len(q) <= QueueMax /\ s \in subscribers
    BY <1>3 DEF Deliver, Get, Queues
  <2>2. Head(q) \in Msg /\ Tail(q) \in Seq(Msg) /\ Len(Tail(q)) = Len(q) - 1 /\ Len(q) \in Nat
    BY <2>1, GetFacts
  <2>3. Len(Tail(q)) <= QueueMax
    BY <2>1, <2>2, QueueMaxAssumption
  <2>4. queue' = [queue EXCEPT ![s] = Tail(q)] /\ subscribers' = subscribers
    BY <1>3 DEF Deliver, Get
  <2>5. /\ view' = [view EXCEPT ![s] = ApplyDelta(view[s], Head(q))]
        /\ UNCHANGED <<state, clock, stale, missed>>
    BY <1>3 DEF Deliver
  <2> DEFINE a == ApplyDelta(view[s], Head(q))
  <2>6. Fit(a) /\ a \in Snap
    BY <2>1, <2>2, ApplyFit DEF Copies, Fit
  <2> HIDE DEF a
  <2>7. Copies'
    BY <2>4, <2>5, <2>6 DEF Copies, Queues, a
  <2> HIDE DEF q
  <2>8. Queues'
    BY <2>1, <2>2, <2>3, <2>4 DEF Queues
  <2> QED BY <2>5, <2>7, <2>8 DEF Marks
<1>4. ASSUME NEW s \in Sessions, Disconnect(s) PROVE TInv'
  <2>1. Queues'
    BY <1>4, QueueMaxAssumption DEF Disconnect, Unsubscribe, Queues
  <2>2. Marks'
    BY <1>4 DEF Disconnect, Marks
  <2>3. Copies'
    BY <1>4 DEF Disconnect, Unsubscribe, Copies, Queues
  <2> QED BY <2>1, <2>2, <2>3
<1>5. CASE UNCHANGED vars
  BY <1>5 DEF vars, Queues, Copies, Marks
<1> QED BY <1>1, <1>2, <1>3, <1>4, <1>5 DEF Next

\* Queues, copies and rings stay within their bounds, at the replica and in
\* every browser.
THEOREM SeriesTypeCorrect == Spec => []TypeOK
<1>1. TInv /\ [Next]_vars => TInv'
  BY TInvInductive
<1> QED BY TInvInit, <1>1, TInvTypes, PTL DEF Spec

-----------------------------------------------------------------------------
(* The rings of a browser that missed nothing                              *)

ReplayInv ==
  \A s \in subscribers : \A k \in Keys \ missed[s] :
    SameRings(Replay(view[s], queue[s]), state, k)

LEMMA ReplayFit ==
  ASSUME NEW base, Fit(base), NEW q \in Seq(Msg)
  PROVE  Fit(Replay(base, q))
<1>1. Len(q) \in 0..Len(q)
  OBVIOUS
<1> QED BY <1>1, ShownFit DEF Replay

LEMMA GrowsReplayed ==
  ASSUME NEW a, Fit(a), NEW st, Fit(st), NEW m \in Msg, NEW new, Grows(m, st, new),
         NEW k, SameRings(a, st, k)
  PROVE  SameRings(ApplyDelta(a, m), new, k)
<1> DEFINE x == ApplyDelta(a, m)
           y == ApplyDelta(st, m)
<1>1. CASE k = KeyOf(m)
  <2>1. SameRings(x, y, k) /\ SameRings(y, new, k)
    BY <1>1, RingsApplied DEF Grows
  <2> HIDE DEF x, y
  <2>2. SameRings(x, new, k)
    BY <2>1 DEF SameRings
  <2> QED BY <2>2 DEF x
<1>2. CASE k # KeyOf(m)
  <2>1. SameRings(x, a, k) /\ SameRings(new, st, k)
    BY <1>2, Untouched DEF Grows, Same
  <2> HIDE DEF x
  <2>2. SameRings(x, new, k)
    BY <2>1 DEF SameRings
  <2> QED BY <2>2 DEF x
<1> QED BY <1>1, <1>2

\* The loss of a message of another key is not noticed.
LEMMA DropUnnoticed ==
  ASSUME NEW base, Fit(base), NEW q \in Seq(Msg), q # <<>>, NEW k, k # KeyOf(Head(q))
  PROVE  Same(Replay(base, Tail(q)), Replay(base, q), k)
<1> DEFINE h == Head(q)
           u == Tail(q)
           x == ApplyDelta(base, h)
<1>1. h \in Msg /\ u \in Seq(Msg)
  BY GetFacts
<1>2. Fit(x) /\ Same(x, base, k)
  BY <1>1, ApplyFit, Untouched
<1>3. Replay(base, q) = Replay(x, u)
  BY ReplayEnds
<1> HIDE DEF x, u, h
<1>4. Same(base, x, k)
  BY <1>2 DEF Same, SameRings
<1>5. Same(Replay(base, u), Replay(x, u), k)
  BY <1>1, <1>2, <1>4, ReplaySame
<1> QED BY <1>3, <1>5 DEF u

LEMMA ReplayInvInductive == TInv /\ ReplayInv /\ [Next]_vars => ReplayInv'
<1> SUFFICES ASSUME TInv, ReplayInv, [Next]_vars,
                    NEW s \in subscribers', NEW k \in Keys \ missed'[s]
             PROVE  SameRings(Replay(view'[s], queue'[s]), state', k)
  BY DEF ReplayInv
<1> USE DEF TInv
<1>1. CASE Mutation
  <2>1. PICK m \in Msg : PublishDelta(m) /\ Grows(m, state, state')
    BY <1>1, MutationGrows DEF Copies
  <2> DEFINE q == queue[s]
             v == view[s]
  <2>2. s \in subscribers /\ view' = view
    BY <2>1, PublishTypes
  <2>3. /\ s \in Sessions /\ q \in Seq(Msg)
        /\ \/ Dropped(s) = {} /\ queue'[s] = Append(q, m)
           \/ /\ q # <<>> /\ Dropped(s) = {KeyOf(Head(q))} /\ queue'[s] = Append(Tail(q), m)
        /\ missed'[s] = missed[s] \union Dropped(s)
    BY <2>1, <2>2, PublishFacts
  <2>4. Fit(v) /\ Fit(state) /\ k \notin missed[s] /\ k \notin Dropped(s)
    BY <2>2, <2>3 DEF Copies
  <2>5. SameRings(Replay(v, q), state, k)
    BY <2>2, <2>4 DEF ReplayInv
  <2>6. PICK u \in Seq(Msg) : queue'[s] = Append(u, m) /\ SameRings(Replay(v, u), state, k)
    <3>1. CASE queue'[s] = Append(q, m)
      BY <2>3, <2>5, <3>1
    <3>2. CASE q # <<>> /\ Dropped(s) = {KeyOf(Head(q))} /\ queue'[s] = Append(Tail(q), m)
      <4>1. Same(Replay(v, Tail(q)), Replay(v, q), k)
        BY <2>3, <2>4, <3>2, DropUnnoticed
      <4>2. SameRings(Replay(v, Tail(q)), state, k)
        BY <2>5, <4>1 DEF Same, SameRings
      <4>3. Tail(q) \in Seq(Msg)
        BY <2>3, <3>2
      <4> QED BY <3>2, <4>2, <4>3
    <3> QED BY <2>3, <3>1, <3>2
  <2> HIDE DEF v
  <2>7. Replay(v, Append(u, m)) = ApplyDelta(Replay(v, u), m)
    BY ReplayEnds
  <2>8. Fit(Replay(v, u))
    BY <2>4, ReplayFit
  <2>9. SameRings(ApplyDelta(Replay(v, u), m), state', k)
    BY <2>1, <2>4, <2>6, <2>8, GrowsReplayed
  <2> QED BY <2>2, <2>6, <2>7, <2>9 DEF v
<1>2. ASSUME NEW r \in Sessions, Connect(r)
      PROVE  SameRings(Replay(view'[s], queue'[s]), state', k)
  <2>1. CASE s = r
    <3>1. view'[s] = state /\ queue'[s] = <<>> /\ state' = state
      BY <1>2, <2>1 DEF Connect, Subscribe, Queues, Copies
    <3> DEFINE q == <<>>
    <3>2. q \in Seq(Msg) /\ q = <<>>
      OBVIOUS
    <3> HIDE DEF q
    <3>3. Replay(state, q) = state
      BY <3>2, ReplayEnds
    <3> QED BY <3>1, <3>2, <3>3 DEF SameRings
  <2>2. CASE s # r
    <3>1. /\ s \in subscribers /\ view'[s] = view[s] /\ queue'[s] = queue[s]
          /\ state' = state /\ missed'[s] = missed[s]
      BY <1>2, <2>2 DEF Connect, Subscribe, Queues, Copies, Marks
    <3> QED BY <3>1 DEF ReplayInv
  <2> QED BY <2>1, <2>2
<1>3. ASSUME NEW r \in Sessions, Deliver(r)
      PROVE  SameRings(Replay(view'[s], queue'[s]), state', k)
  <2>1. /\ s \in subscribers /\ s \in Sessions /\ state' = state /\ missed' = missed
    BY <1>3 DEF Deliver, Get, Queues
  <2>2. CASE s = r
    <3>1. /\ view'[s] = ApplyDelta(view[s], Head(queue[s])) /\ queue'[s] = Tail(queue[s])
          /\ queue[s] # <<>> /\ queue[s] \in Seq(Msg)
      BY <1>3, <2>1, <2>2 DEF Deliver, Get, Queues, Copies
    <3>2. Replay(view[s], queue[s]) = Replay(view'[s], queue'[s])
      BY <3>1, ReplayEnds
    <3> QED BY <2>1, <3>2 DEF ReplayInv
  <2>3. CASE s # r
    <3>1. view'[s] = view[s] /\ queue'[s] = queue[s]
      BY <1>3, <2>1, <2>3 DEF Deliver, Get, Queues, Copies
    <3> QED BY <2>1, <3>1 DEF ReplayInv
  <2> QED BY <2>2, <2>3
<1>4. ASSUME NEW r \in Sessions, Disconnect(r)
      PROVE  SameRings(Replay(view'[s], queue'[s]), state', k)
  <2>1. /\ s \in subscribers /\ view'[s] = view[s] /\ queue'[s] = queue[s]
        /\ state' = state /\ missed'[s] = missed[s]
    BY <1>4 DEF Disconnect, Unsubscribe, Queues, Copies, Marks
  <2> QED BY <2>1 DEF ReplayInv
<1>5. CASE UNCHANGED vars
  BY <1>5 DEF vars, ReplayInv
<1> QED BY <1>1, <1>2, <1>3, <1>4, <1>5 DEF Next

LEMMA SettledIsReplay ==
  ASSUME NEW s
  PROVE  Settled(s) = Replay(view[s], queue[s])
BY DEF Settled, Shown, Replay

\* Whatever the moment of the snapshot, a browser none of whose deltas of a key
\* was dropped ends with the replica's ring.
THEOREM HistoryIsReplayed == Spec => []HistoryReplayed
<1>1. TInv /\ [Next]_vars => TInv'
  BY TInvInductive
<1>2. TInv /\ ReplayInv /\ [Next]_vars => ReplayInv'
  BY ReplayInvInductive
<1>3. Init => ReplayInv
  BY DEF Init, PubSubInit, ReplayInv
<1>4. ReplayInv => HistoryReplayed
  BY SettledIsReplay DEF ReplayInv, HistoryReplayed, SameRings, Keys
<1> QED BY TInvInit, <1>1, <1>2, <1>3, <1>4, PTL DEF Spec

-----------------------------------------------------------------------------
(* The latest values of a browser that may have missed any number of deltas *)

\* The newest message of a key is still to come and restores its values, or
\* none is to come and they are shown.
Heals(v, q, st, k) ==
  \/ \E i \in 1..Len(q) :
       /\ KeyOf(q[i]) = k /\ Carries(q[i], st)
       /\ \A j \in (i + 1)..Len(q) : KeyOf(q[j]) # k
  \/ /\ Latest(v, st, k)
     /\ \A j \in 1..Len(q) : KeyOf(q[j]) # k

\* Nothing is shown or on its way for a field the replica never had.
Sound(v, q, st) ==
  /\ Known(v, st)
  /\ \A i \in 1..Len(q) : KnownMsg(q[i], st)

LEMMA LatestSame ==
  ASSUME NEW a, NEW b, NEW st, NEW new, NEW k,
         Same(b, a, k), Same(new, st, k), Latest(a, st, k)
  PROVE  Latest(b, new, k)
<1>1. ASSUME NEW n \in Nodes, k = NodeKey(n) PROVE LatestNode(b, new, n)
  <2>1. LatestNode(a, st, n)
    BY <1>1 DEF Latest
  <2>2. /\ b.node_metrics[n] = a.node_metrics[n] /\ b.hardware[n] = a.hardware[n]
        /\ b.node_history[n] = a.node_history[n]
        /\ new.node_metrics[n] = st.node_metrics[n] /\ new.hardware[n] = st.hardware[n]
        /\ new.node_history[n] = st.node_history[n]
    BY <1>1 DEF Same, SameRings
  <2> QED BY <2>1, <2>2 DEF LatestNode
<1>2. ASSUME NEW c \in Checks, k = CheckKey(c) PROVE LatestCheck(b, new, c)
  <2>1. LatestCheck(a, st, c)
    BY <1>2 DEF Latest
  <2>2. b.healthchecks[c] = a.healthchecks[c] /\ new.healthchecks[c] = st.healthchecks[c]
    BY <1>2 DEF Same, SameRings
  <2> QED BY <2>1, <2>2 DEF LatestCheck
<1> QED BY <1>1, <1>2 DEF Latest

LEMMA CarriesSame ==
  ASSUME NEW m \in Msg, NEW st, NEW new, Same(new, st, KeyOf(m)), Carries(m, st)
  PROVE  Carries(m, new)
<1>1. CASE m.type = "event"
  BY <1>1 DEF Carries
<1>2. CASE m.type = "node_metrics"
  <2>1. m.node \in Nodes /\ KeyOf(m) = NodeKey(m.node)
    BY <1>2, MsgCases
  <2>2. /\ new.node_metrics[m.node] = st.node_metrics[m.node]
        /\ new.node_history[m.node] = st.node_history[m.node]
    BY <2>1 DEF Same, SameRings
  <2> QED BY <1>2, <2>2 DEF Carries
<1>3. CASE m.type \in {"healthcheck", "healthcheck_deleted"}
  <2>1. m.name \in Checks /\ KeyOf(m) = CheckKey(m.name)
    BY <1>3, MsgCases
  <2>2. new.healthchecks[m.name] = st.healthchecks[m.name]
    BY <2>1 DEF Same, SameRings
  <2> QED BY <1>3, <2>2 DEF Carries
<1> QED BY <1>1, <1>2, <1>3, MsgCases

\* A published delta heals its own key and leaves the others as they were.
LEMMA HealsAppended ==
  ASSUME NEW v, NEW q \in Seq(Msg), NEW st, NEW m, NEW new, Grows(m, st, new),
         NEW k, k = KeyOf(m) \/ Heals(v, q, st, k)
  PROVE  Heals(v, Append(q, m), new, k)
<1> DEFINE r == Append(q, m)
           n == Len(q)
<1>1. m \in Msg
  BY DEF Grows
<1>2. n \in Nat /\ Len(r) = n + 1 /\ r[n + 1] = m /\ \A i \in 1..n : r[i] = q[i]
  BY <1>1, AppendFacts
<1> HIDE DEF r, n
<1>3. CASE k = KeyOf(m)
  <2>1. n + 1 \in 1..Len(r) /\ KeyOf(r[n + 1]) = k /\ Carries(r[n + 1], new)
    BY <1>2, <1>3 DEF Grows
  <2>2. \A j \in ((n + 1) + 1)..Len(r) : KeyOf(r[j]) # k
    BY <1>2
  <2> QED BY <2>1, <2>2 DEF Heals, r
<1>4. CASE k # KeyOf(m)
  <2>1. Same(new, st, k)
    BY <1>4 DEF Grows
  <2>2. CASE \E i \in 1..n : /\ KeyOf(q[i]) = k /\ Carries(q[i], st)
                             /\ \A j \in (i + 1)..n : KeyOf(q[j]) # k
    <3>1. PICK i \in 1..n : /\ KeyOf(q[i]) = k /\ Carries(q[i], st)
                            /\ \A j \in (i + 1)..n : KeyOf(q[j]) # k
      BY <2>2
    <3>2. q[i] \in Msg
      BY DEF n
    <3>3. Carries(q[i], new)
      BY <2>1, <3>1, <3>2, CarriesSame
    <3>4. i \in 1..Len(r) /\ KeyOf(r[i]) = k /\ Carries(r[i], new)
      BY <1>2, <3>1, <3>3
    <3>5. ASSUME NEW j \in (i + 1)..Len(r) PROVE KeyOf(r[j]) # k
      <4>1. CASE j = n + 1
        BY <1>2, <1>4, <4>1
      <4>2. CASE j # n + 1
        <5>1. j \in (i + 1)..n /\ j \in 1..n
          BY <1>2, <4>2
        <5> QED BY <1>2, <3>1, <5>1
      <4> QED BY <4>1, <4>2
    <3> QED BY <3>4, <3>5 DEF Heals, r
  <2>3. CASE Latest(v, st, k) /\ \A j \in 1..n : KeyOf(q[j]) # k
    <3>1. Latest(v, new, k)
      <4>1. Same(v, v, k)
        BY DEF Same, SameRings
      <4> QED BY <2>1, <2>3, <4>1, LatestSame
    <3>2. ASSUME NEW j \in 1..Len(r) PROVE KeyOf(r[j]) # k
      <4>1. CASE j = n + 1
        BY <1>2, <1>4, <4>1
      <4>2. CASE j # n + 1
        <5>1. j \in 1..n
          BY <1>2, <4>2
        <5> QED BY <1>2, <2>3, <5>1
      <4> QED BY <4>1, <4>2
    <3> QED BY <3>1, <3>2 DEF Heals, r
  <2> QED BY <1>4, <2>2, <2>3 DEF Heals, n
<1> QED BY <1>3, <1>4

\* The key of a lost message still heals when a later message of it is queued.
LEMMA HealsDropped ==
  ASSUME NEW v, NEW q \in Seq(Msg), q # <<>>, NEW st, NEW k, Heals(v, q, st, k),
         KeyOf(Head(q)) # k \/ \E i \in 2..Len(q) : KeyOf(q[i]) = k
  PROVE  Heals(v, Tail(q), st, k)
<1> DEFINE u == Tail(q)
           n == Len(q)
<1>1. /\ n \in Nat \ {0} /\ Len(u) = n - 1 /\ Head(q) = q[1]
      /\ \A i \in 1..Len(u) : u[i] = q[i + 1]
  BY GetFacts
<1> HIDE DEF u, n
<1>2. CASE \E i \in 1..n : /\ KeyOf(q[i]) = k /\ Carries(q[i], st)
                           /\ \A j \in (i + 1)..n : KeyOf(q[j]) # k
  <2>1. PICK i \in 1..n : /\ KeyOf(q[i]) = k /\ Carries(q[i], st)
                          /\ \A j \in (i + 1)..n : KeyOf(q[j]) # k
    BY <1>2
  <2>2. i # 1
    <3> SUFFICES ASSUME i = 1 PROVE FALSE
      OBVIOUS
    <3>1. \A j \in 2..n : KeyOf(q[j]) # k
      BY <2>1
    <3> QED BY <1>1, <2>1, <3>1 DEF n
  <2>3. i - 1 \in 1..Len(u) /\ (i - 1) + 1 = i
    BY <1>1, <2>2
  <2>4. KeyOf(u[i - 1]) = k /\ Carries(u[i - 1], st)
    BY <1>1, <2>1, <2>3
  <2>5. ASSUME NEW j \in ((i - 1) + 1)..Len(u) PROVE KeyOf(u[j]) # k
    <3>1. j \in 1..Len(u) /\ j + 1 \in (i + 1)..n
      BY <1>1, <2>3
    <3> QED BY <1>1, <2>1, <3>1
  <2> QED BY <2>3, <2>4, <2>5 DEF Heals, u
<1>3. CASE Latest(v, st, k) /\ \A j \in 1..n : KeyOf(q[j]) # k
  <2>1. ASSUME NEW j \in 1..Len(u) PROVE KeyOf(u[j]) # k
    <3>1. j + 1 \in 1..n
      BY <1>1
    <3> QED BY <1>1, <1>3, <3>1
  <2> QED BY <1>3, <2>1 DEF Heals, u
<1> QED BY <1>2, <1>3 DEF Heals, n

LEMMA HealsDelivered ==
  ASSUME NEW v, Fit(v), NEW q \in Seq(Msg), q # <<>>, NEW st, Fit(st), Forwarded(st),
         Sound(v, q, st), NEW k, Heals(v, q, st, k)
  PROVE  Heals(ApplyDelta(v, Head(q)), Tail(q), st, k)
<1> DEFINE h == Head(q)
           x == ApplyDelta(v, h)
<1>1. h \in Msg /\ h = q[1] /\ Len(q) \in Nat \ {0}
  BY GetFacts
<1>2. CASE KeyOf(h) = k /\ \A j \in 2..Len(q) : KeyOf(q[j]) # k
  <2>1. 1 \in 1..Len(q) /\ KeyOf(q[1]) = k
    BY <1>1, <1>2
  <2>2. PICK i \in 1..Len(q) : KeyOf(q[i]) = k /\ Carries(q[i], st)
    BY <2>1 DEF Heals
  <2>3. i = 1
    BY <1>1, <1>2, <2>2
  <2>4. Carries(h, st)
    BY <1>1, <2>2, <2>3
  <2>5. Latest(x, st, k)
    BY <1>1, <1>2, <2>4, CarriedApplied DEF Sound
  <2> DEFINE u == Tail(q)
  <2>6. ASSUME NEW j \in 1..Len(u) PROVE KeyOf(u[j]) # k
    <3>1. Len(u) = Len(q) - 1 /\ u[j] = q[j + 1]
      BY GetFacts
    <3>2. j + 1 \in 2..Len(q)
      BY <1>1, <3>1
    <3> QED BY <1>2, <3>1, <3>2
  <2> HIDE DEF x, u, h
  <2> QED BY <2>5, <2>6 DEF Heals, x, u, h
<1>3. CASE KeyOf(h) # k \/ \E j \in 2..Len(q) : KeyOf(q[j]) = k
  <2>1. Heals(v, Tail(q), st, k)
    BY <1>3, HealsDropped
  <2> DEFINE u == Tail(q)
  <2>2. CASE KeyOf(h) # k
    <3>1. Same(x, v, k)
      BY <1>1, <2>2, Untouched
    <3>2. Same(st, st, k)
      BY DEF Same, SameRings
    <3> HIDE DEF x, u, h
    <3>3. Latest(v, st, k) => Latest(x, st, k)
      BY <3>1, <3>2, LatestSame
    <3> QED BY <2>1, <3>3 DEF Heals, x, u, h
  <2>3. CASE \E j \in 2..Len(q) : KeyOf(q[j]) = k
    <3>1. PICK j \in 2..Len(q) : KeyOf(q[j]) = k
      BY <2>3
    <3>2. Len(u) = Len(q) - 1 /\ \A i \in 1..Len(u) : u[i] = q[i + 1]
      BY GetFacts
    <3> HIDE DEF u, x, h
    <3>3. j - 1 \in 1..Len(u) /\ (j - 1) + 1 = j
      BY <1>1, <3>2
    <3>4. KeyOf(u[j - 1]) = k
      BY <3>1, <3>2, <3>3
    <3> QED BY <2>1, <3>3, <3>4 DEF Heals, x, u, h
  <2> QED BY <1>3, <2>2, <2>3
<1> QED BY <1>2, <1>3

LEMMA SoundDelivered ==
  ASSUME NEW v, Fit(v), NEW q \in Seq(Msg), q # <<>>, NEW st, Fit(st), Sound(v, q, st)
  PROVE  Sound(ApplyDelta(v, Head(q)), Tail(q), st)
<1> DEFINE h == Head(q)
           u == Tail(q)
           x == ApplyDelta(v, h)
<1>1. /\ h \in Msg /\ h = q[1] /\ Len(q) \in Nat \ {0} /\ Len(u) = Len(q) - 1
      /\ \A i \in 1..Len(u) : u[i] = q[i + 1]
  BY GetFacts
<1>2. Known(x, st)
  <2>1. 1 \in 1..Len(q)
    BY <1>1
  <2>2. Known(v, st) /\ KnownMsg(h, st)
    BY <1>1, <2>1 DEF Sound
  <2> QED BY <1>1, <2>2, KnownApplied
<1> HIDE DEF x, u, h
<1>3. ASSUME NEW i \in 1..Len(u) PROVE KnownMsg(u[i], st)
  <2>1. i + 1 \in 1..Len(q)
    BY <1>1
  <2> QED BY <1>1, <2>1 DEF Sound
<1> QED BY <1>2, <1>3 DEF Sound, x, u, h

\* The fields the replica knows only become more.
LEMMA SoundAppended ==
  ASSUME NEW v, NEW q \in Seq(Msg), NEW st, NEW m, NEW new, Grows(m, st, new), Sound(v, q, st)
  PROVE  Sound(v, Append(q, m), new)
<1> DEFINE r == Append(q, m)
           n == Len(q)
<1>1. m \in Msg /\ KnownMsg(m, new) /\ Known(st, new)
  BY DEF Grows
<1>2. n \in Nat /\ Len(r) = n + 1 /\ r[n + 1] = m /\ \A i \in 1..n : r[i] = q[i]
  BY <1>1, AppendFacts
<1> HIDE DEF r
<1>3. Known(v, new)
  BY <1>1 DEF Sound, Known
<1>4. ASSUME NEW i \in 1..Len(r) PROVE KnownMsg(r[i], new)
  <2>1. CASE i = n + 1
    BY <1>1, <1>2, <2>1
  <2>2. CASE i # n + 1
    <3>1. i \in 1..n /\ r[i] = q[i] /\ q[i] \in Msg
      BY <1>2, <2>2
    <3>2. KnownMsg(q[i], st)
      BY <3>1 DEF Sound
    <3>3. KnownMsg(q[i], new)
      <4> SUFFICES ASSUME q[i].type = "node_metrics", NEW f \in Fields,
                          new.node_metrics[q[i].node][f] = 0
                   PROVE  q[i].data[f] = 0
        BY DEF KnownMsg
      <4> DEFINE nd == q[i].node
      <4>1. nd \in Nodes
        BY <3>1, MsgCases
      <4> HIDE DEF nd
      <4>2. new.node_metrics[nd][f] = 0
        BY DEF nd
      <4>3. st.node_metrics[nd][f] = 0
        BY <1>1, <4>1, <4>2 DEF Known
      <4> QED BY <3>2, <4>3 DEF KnownMsg, nd
    <3> QED BY <3>1, <3>3
  <2> QED BY <2>1, <2>2
<1> QED BY <1>3, <1>4 DEF Sound, r

LEMMA SoundDropped ==
  ASSUME NEW v, NEW q \in Seq(Msg), q # <<>>, NEW st, Sound(v, q, st)
  PROVE  Sound(v, Tail(q), st)
<1> DEFINE u == Tail(q)
<1>1. Len(q) \in Nat \ {0} /\ Len(u) = Len(q) - 1 /\ \A i \in 1..Len(u) : u[i] = q[i + 1]
  BY GetFacts
<1> HIDE DEF u
<1>2. \A i \in 1..Len(u) : i + 1 \in 1..Len(q)
  BY <1>1
<1> QED BY <1>1, <1>2 DEF Sound, u

\* So a browser that has received everything shows the latest values.
LEMMA HealsReplayed ==
  ASSUME NEW v, Fit(v), NEW q \in Seq(Msg), NEW st, Fit(st), Forwarded(st),
         Sound(v, q, st), NEW k, Heals(v, q, st, k)
  PROVE  Latest(Replay(v, q), st, k)
<1> DEFINE n == Len(q)
           a == Shown(v, q, n)
           T == {i \in Nat : Known(a[i], st)}
<1>1. n \in Nat /\ a[0] = v /\ \A i \in 1..n : a[i] = ApplyDelta(a[i - 1], q[i])
  BY ShownDef
<1>2. \A i \in 0..n : Fit(a[i])
  <2>1. n \in 0..n
    BY <1>1
  <2> QED BY <2>1, ShownFit
<1> HIDE DEF a
<1>3. \A i \in 1..n : q[i] \in Msg /\ KnownMsg(q[i], st)
  BY DEF Sound
<1> HIDE DEF n
<1>4. \A i \in 0..n : i \in T
  <2>1. 0 \in T
    BY <1>1 DEF Sound
  <2>2. ASSUME NEW i \in 1..n, i - 1 \in T PROVE i \in T
    <3>1. i - 1 \in 0..n
      BY <1>1
    <3> DEFINE p == a[i - 1]
    <3>2. Fit(p) /\ Known(p, st) /\ a[i] = ApplyDelta(p, q[i])
      BY <1>1, <1>2, <2>2, <3>1
    <3> HIDE DEF p
    <3>3. Known(a[i], st)
      BY <1>3, <3>2, KnownApplied
    <3> QED BY <3>3
  <2> HIDE DEF T
  <2> QED BY <1>1, <2>1, <2>2, QueueInductionFromZero
<1>5. CASE \E i \in 1..n : /\ KeyOf(q[i]) = k /\ Carries(q[i], st)
                           /\ \A j \in (i + 1)..n : KeyOf(q[j]) # k
  <2>1. PICK i \in 1..n : /\ KeyOf(q[i]) = k /\ Carries(q[i], st)
                          /\ \A j \in (i + 1)..n : KeyOf(q[j]) # k
    BY <1>5
  <2>2. i - 1 \in 0..n /\ i \in 0..n
    BY <1>1
  <2> DEFINE p == a[i - 1]
  <2>3. Fit(p) /\ Known(p, st) /\ a[i] = ApplyDelta(p, q[i])
    BY <1>1, <1>2, <1>4, <2>2
  <2> HIDE DEF p
  <2>4. Latest(a[i], st, k)
    BY <1>3, <2>1, <2>3, CarriedApplied
  <2>5. Same(Replay(v, q), a[i], k)
    BY <2>1, <2>2, ShownUntouched DEF n, a
  <2>6. Same(st, st, k)
    BY DEF Same, SameRings
  <2> QED BY <2>4, <2>5, <2>6, LatestSame
<1>6. CASE Latest(v, st, k) /\ \A j \in 1..n : KeyOf(q[j]) # k
  <2> DEFINE z == 0
  <2>1. z \in 0..n /\ a[z] = v /\ \A j \in (z + 1)..n : KeyOf(q[j]) # k
    BY <1>1, <1>6
  <2> HIDE DEF z
  <2>2. Same(Replay(v, q), a[z], k)
    BY <2>1, ShownUntouched DEF n, a
  <2>3. Same(st, st, k)
    BY DEF Same, SameRings
  <2> QED BY <1>6, <2>1, <2>2, <2>3, LatestSame
<1> QED BY <1>5, <1>6 DEF Heals, n

\* Every browser is sound, and whatever is not marked stale heals.
LatestInv ==
  /\ Forwarded(state)
  /\ \A s \in subscribers : Sound(view[s], queue[s], state)
  /\ \A s \in subscribers : \A k \in Keys \ stale[s] : Heals(view[s], queue[s], state, k)

LEMMA LatestInvInit == Init => LatestInv
BY DEF Init, PubSubInit, LatestInv, Forwarded, Unreported

\* A dropped delta marks its key stale unless a later one of the key is queued.
LEMMA LatestInvPublished ==
  ASSUME TInv, LatestInv, NEW m \in Msg, PublishDelta(m), Grows(m, state, state')
  PROVE  LatestInv'
<1> USE DEF TInv
<1>1. subscribers' = subscribers /\ view' = view
  BY PublishTypes
<1>2. Forwarded(state')
  BY DEF LatestInv, Grows
<1>3. ASSUME NEW s \in subscribers
      PROVE  /\ Sound(view[s], queue'[s], state')
             /\ \A k \in Keys \ stale'[s] : Heals(view[s], queue'[s], state', k)
  <2> DEFINE q == queue[s]
             v == view[s]
  <2>1. /\ s \in Sessions /\ q \in Seq(Msg)
        /\ \/ Dropped(s) = {} /\ queue'[s] = Append(q, m)
           \/ /\ q # <<>> /\ Dropped(s) = {KeyOf(Head(q))} /\ queue'[s] = Append(Tail(q), m)
        /\ stale'[s] = (stale[s] \union (Dropped(s) \ StillQueued(s))) \ {KeyOf(m)}
    BY PublishFacts
  <2>2. Sound(v, q, state) /\ \A k \in Keys \ stale[s] : Heals(v, q, state, k)
    BY DEF LatestInv
  <2>3. PICK u \in Seq(Msg) : /\ queue'[s] = Append(u, m) /\ Sound(v, u, state)
                              /\ \A k \in Keys \ stale'[s] : k = KeyOf(m) \/ Heals(v, u, state, k)
    <3>1. CASE Dropped(s) = {} /\ queue'[s] = Append(q, m)
      BY <2>1, <2>2, <3>1
    <3>2. CASE q # <<>> /\ Dropped(s) = {KeyOf(Head(q))} /\ queue'[s] = Append(Tail(q), m)
      <4>1. ASSUME NEW k \in Keys \ stale'[s], k # KeyOf(m) PROVE Heals(v, Tail(q), state, k)
        <5>1. k \notin stale[s] /\ (k # KeyOf(Head(q)) \/ k \in StillQueued(s))
          BY <2>1, <3>2, <4>1
        <5>2. Heals(v, q, state, k)
          BY <2>2, <5>1
        <5>3. KeyOf(Head(q)) # k \/ \E i \in 2..Len(q) : KeyOf(q[i]) = k
          BY <5>1 DEF StillQueued
        <5> HIDE DEF q
        <5> QED BY <2>1, <3>2, <5>2, <5>3, HealsDropped
      <4> HIDE DEF q
      <4>2. Tail(q) \in Seq(Msg)
        BY <2>1, <3>2
      <4>3. Sound(v, Tail(q), state)
        BY <2>1, <2>2, <3>2, SoundDropped
      <4> QED BY <3>2, <4>1, <4>2, <4>3
    <3> QED BY <2>1, <3>1, <3>2
  <2> HIDE DEF q, v
  <2>4. Sound(v, Append(u, m), state')
    BY <2>3, SoundAppended
  <2>5. \A k \in Keys \ stale'[s] : Heals(v, Append(u, m), state', k)
    BY <2>3, HealsAppended
  <2> QED BY <2>3, <2>4, <2>5 DEF v
<1> QED BY <1>1, <1>2, <1>3 DEF LatestInv

LEMMA LatestInvInductive == TInv /\ LatestInv /\ [Next]_vars => LatestInv'
<1> SUFFICES ASSUME TInv, LatestInv, [Next]_vars PROVE LatestInv'
  OBVIOUS
<1> USE DEF TInv
<1>1. CASE Mutation
  <2>1. PICK m \in Msg : PublishDelta(m) /\ Grows(m, state, state')
    BY <1>1, MutationGrows DEF Copies
  <2> QED BY <2>1, LatestInvPublished
\* Nothing else changes the replica; one session moves, the others stay.
<1>2. ASSUME NEW s \in Sessions, state' = state, subscribers' \subseteq subscribers \union {s},
             \A r \in subscribers' \ {s} :
               view'[r] = view[r] /\ queue'[r] = queue[r] /\ stale'[r] = stale[r],
             s \in subscribers' =>
               /\ Sound(view'[s], queue'[s], state)
               /\ \A k \in Keys \ stale'[s] : Heals(view'[s], queue'[s], state, k)
      PROVE  LatestInv'
  BY <1>2 DEF LatestInv
<1>3. ASSUME NEW s \in Sessions, Connect(s) PROVE LatestInv'
  <2>1. /\ state' = state /\ subscribers' = subscribers \union {s}
        /\ view'[s] = state /\ queue'[s] = <<>>
    BY <1>3 DEF Connect, Subscribe, Queues, Copies
  <2>2. \A r \in subscribers' \ {s} :
          view'[r] = view[r] /\ queue'[r] = queue[r] /\ stale'[r] = stale[r]
    BY <1>3 DEF Connect, Subscribe, Queues, Copies, Marks
  <2>3. Sound(state, <<>>, state)
    BY DEF Sound, Known
  <2>4. \A k : Heals(state, <<>>, state, k)
    <3>1. \A k : Latest(state, state, k)
      BY DEF Latest, LatestNode, LatestCheck
    <3> QED BY <3>1 DEF Heals
  <2> QED BY <1>2, <2>1, <2>2, <2>3, <2>4
<1>4. ASSUME NEW s \in Sessions, Deliver(s) PROVE LatestInv'
  <2>1. /\ state' = state /\ subscribers' = subscribers /\ stale' = stale
        /\ s \in subscribers /\ queue[s] # <<>> /\ queue[s] \in Seq(Msg)
        /\ view'[s] = ApplyDelta(view[s], Head(queue[s])) /\ queue'[s] = Tail(queue[s])
    BY <1>4 DEF Deliver, Get, Queues, Copies
  <2>2. \A r \in subscribers' \ {s} :
          view'[r] = view[r] /\ queue'[r] = queue[r] /\ stale'[r] = stale[r]
    BY <1>4 DEF Deliver, Get, Queues, Copies
  <2> DEFINE q == queue[s]
             v == view[s]
  <2>3. /\ Fit(v) /\ Fit(state) /\ Forwarded(state) /\ Sound(v, q, state)
        /\ \A k \in Keys \ stale[s] : Heals(v, q, state, k)
    BY <2>1 DEF Copies, LatestInv
  <2>4. q # <<>> /\ q \in Seq(Msg)
    BY <2>1
  <2> HIDE DEF q, v
  <2>5. Sound(ApplyDelta(v, Head(q)), Tail(q), state)
    BY <2>3, <2>4, SoundDelivered
  <2>6. \A k \in Keys \ stale[s] : Heals(ApplyDelta(v, Head(q)), Tail(q), state, k)
    BY <2>3, <2>4, HealsDelivered
  <2> QED BY <1>2, <2>1, <2>2, <2>5, <2>6 DEF q, v
<1>5. ASSUME NEW s \in Sessions, Disconnect(s) PROVE LatestInv'
  <2>1. /\ state' = state /\ subscribers' = subscribers \ {s}
        /\ \A r \in subscribers' \ {s} :
             view'[r] = view[r] /\ queue'[r] = queue[r] /\ stale'[r] = stale[r]
    BY <1>5 DEF Disconnect, Unsubscribe, Queues, Copies, Marks
  <2> QED BY <1>2, <2>1
<1>6. CASE UNCHANGED vars
  BY <1>6 DEF vars, LatestInv
<1> QED BY <1>1, <1>3, <1>4, <1>5, <1>6 DEF Next

LEMMA LatestShown ==
  ASSUME TInv, LatestInv, NEW s \in subscribers, NEW k \in Keys \ stale[s]
  PROVE  Latest(Settled(s), state, k)
<1>1. /\ Fit(view[s]) /\ Fit(state) /\ queue[s] \in Seq(Msg) /\ Forwarded(state)
      /\ Sound(view[s], queue[s], state) /\ Heals(view[s], queue[s], state, k)
  BY DEF TInv, Queues, Copies, LatestInv
<1> QED BY <1>1, HealsReplayed, SettledIsReplay

LEMMA LatestInvImplies == TInv /\ LatestInv => LatestHeals /\ HardwareFollows
<1> SUFFICES ASSUME TInv, LatestInv PROVE LatestHeals /\ HardwareFollows
  OBVIOUS
<1>1. ASSUME NEW s \in subscribers, NEW n \in Nodes, NodeKey(n) \notin stale[s]
      PROVE  LatestNode(Settled(s), state, n)
  <2>1. NodeKey(n) \in Keys \ stale[s]
    BY <1>1 DEF Keys
  <2>2. Latest(Settled(s), state, NodeKey(n))
    BY <2>1, LatestShown
  <2> QED BY <2>2 DEF Latest
<1>2. ASSUME NEW s \in subscribers, NEW c \in Checks, CheckKey(c) \notin stale[s]
      PROVE  LatestCheck(Settled(s), state, c)
  <2>1. CheckKey(c) \in Keys \ stale[s]
    BY <1>2 DEF Keys
  <2>2. Latest(Settled(s), state, CheckKey(c))
    BY <2>1, LatestShown
  <2> QED BY <2>2 DEF Latest
<1> QED BY <1>1, <1>2 DEF LatestNode, LatestCheck, LatestHeals, HardwareFollows

\* However many deltas of a key were dropped, its newest one restores the merged
\* metrics, the newest history point, and a check's config, result and uptime.
THEOREM LatestValuesHeal == Spec => []LatestHeals
<1>1. TInv /\ [Next]_vars => TInv'
  BY TInvInductive
<1>2. TInv /\ LatestInv /\ [Next]_vars => LatestInv'
  BY LatestInvInductive
<1>3. TInv /\ LatestInv => LatestHeals
  BY LatestInvImplies
<1> QED BY TInvInit, LatestInvInit, <1>1, <1>2, <1>3, PTL DEF Spec

\* A browser's hardware view, which has no delta of its own, keeps up with every
\* field the agents report and metrics.py does not measure.
THEOREM HardwareIsFollowed == Spec => []HardwareFollows
<1>1. TInv /\ [Next]_vars => TInv'
  BY TInvInductive
<1>2. TInv /\ LatestInv /\ [Next]_vars => LatestInv'
  BY LatestInvInductive
<1>3. TInv /\ LatestInv => HardwareFollows
  BY LatestInvImplies
<1> QED BY TInvInit, LatestInvInit, <1>1, <1>2, <1>3, PTL DEF Spec
=============================================================================
