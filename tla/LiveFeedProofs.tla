--------------------------- MODULE LiveFeedProofs ---------------------------
(***************************************************************************)
(* Proofs about LiveFeed for every set of browsers, sessions, tables and   *)
(* names and every queue bound.                                            *)
(***************************************************************************)
EXTENDS LiveFeed, SequenceTheorems, TLAPS

-----------------------------------------------------------------------------
(* Queues as sequences                                                     *)

\* Adding a message at the end of a queue (put_nowait, or the transport
\* taking a frame).
LEMMA AppendFacts ==
  ASSUME NEW S, NEW q \in Seq(S), NEW m \in S
  PROVE  /\ Append(q, m) \in Seq(S)
         /\ Len(Append(q, m)) = Len(q) + 1
         /\ Append(q, m)[Len(q) + 1] = m
         /\ \A i \in 1..Len(q) : Append(q, m)[i] = q[i]
OBVIOUS

\* Taking the oldest message from a queue (get_nowait, or onmessage).
LEMMA TailFacts ==
  ASSUME NEW S, NEW q \in Seq(S), q # <<>>
  PROVE  /\ Head(q) \in S
         /\ Head(q) = q[1]
         /\ Tail(q) \in Seq(S)
         /\ Len(q) \in Nat \ {0}
         /\ Len(Tail(q)) = Len(q) - 1
         /\ \A i \in 1..Len(Tail(q)) : Tail(q)[i] = q[i + 1]
OBVIOUS

\* Put keeps a queue's type and bound and makes the message its last entry.
LEMMA PutFacts ==
  ASSUME NEW S, NEW q \in Seq(S), NEW m \in S, Len(q) <= QueueMax
  PROVE  /\ Put(q, m) \in Seq(S)
         /\ Len(Put(q, m)) <= QueueMax
<1>1. CASE Len(q) < QueueMax
  BY <1>1, AppendFacts, QueueMaxAssumption DEF Put
<1>2. CASE Len(q) = QueueMax
  <2>1. q # <<>>
    BY <1>2, QueueMaxAssumption
  <2>2. Tail(q) \in Seq(S) /\ Len(Tail(q)) = QueueMax - 1
    BY <1>2, <2>1, TailFacts
  <2> QED
    BY <1>2, <2>2, AppendFacts, QueueMaxAssumption DEF Put
<1> QED
  BY <1>1, <1>2, QueueMaxAssumption

-----------------------------------------------------------------------------
(* Which frame speaks for a cell                                           *)

\* A frame that concerns the cell, put last, settles it.
LEMMA SettledByLast ==
  ASSUME NEW S, NEW q \in Seq(S), NEW m \in S, NEW t, NEW n, Touches(m, t, n)
  PROVE  Settles(Append(q, m), t, n, Carried(m, t, n))
<1> DEFINE i == Len(q) + 1
<1>1. i \in 1..Len(Append(q, m)) /\ Append(q, m)[i] = m /\ Len(Append(q, m)) = i
  BY AppendFacts
<1> QED
  BY <1>1 DEF Settles

\* A frame that does not concern the cell, put last, changes nothing for it.
LEMMA AppendOther ==
  ASSUME NEW S, NEW q \in Seq(S), NEW m \in S, NEW t, NEW n, NEW v,
         ~ Touches(m, t, n)
  PROVE  /\ Settles(q, t, n, v) => Settles(Append(q, m), t, n, v)
         /\ Silent(q, t, n) => Silent(Append(q, m), t, n)
<1> DEFINE r == Append(q, m)
<1>1. /\ Len(q) \in Nat /\ Len(r) = Len(q) + 1 /\ r[Len(q) + 1] = m
      /\ \A i \in 1..Len(q) : r[i] = q[i]
  BY AppendFacts
<1> HIDE DEF r
<1>2. ASSUME Settles(q, t, n, v) PROVE Settles(r, t, n, v)
  <2>1. PICK i \in 1..Len(q) : /\ Touches(q[i], t, n)
                               /\ Carried(q[i], t, n) = v
                               /\ \A j \in (i + 1)..Len(q) : ~ Touches(q[j], t, n)
    BY <1>2 DEF Settles
  <2>2. i \in 1..Len(r) /\ r[i] = q[i]
    BY <1>1
  <2>3. ASSUME NEW j \in (i + 1)..Len(r) PROVE ~ Touches(r[j], t, n)
    <3>1. CASE j = Len(q) + 1
      BY <3>1, <1>1
    <3>2. CASE j \in (i + 1)..Len(q)
      BY <3>2, <2>1, <1>1
    <3> QED
      BY <3>1, <3>2, <1>1
  <2> QED
    BY <2>1, <2>2, <2>3 DEF Settles
<1>3. ASSUME Silent(q, t, n) PROVE Silent(r, t, n)
  <2>1. ASSUME NEW j \in 1..Len(r) PROVE ~ Touches(r[j], t, n)
    <3>1. CASE j = Len(q) + 1
      BY <3>1, <1>1
    <3>2. CASE j \in 1..Len(q)
      BY <3>2, <1>3, <1>1 DEF Silent
    <3> QED
      BY <3>1, <3>2, <1>1
  <2> QED
    BY <2>1 DEF Silent
<1> QED
  BY <1>2, <1>3 DEF r

\* What taking the oldest frame leaves of what the queue said of a cell.
LEMMA TailCases ==
  ASSUME NEW S, NEW q \in Seq(S), q # <<>>, NEW t, NEW n, NEW v
  PROVE  /\ Settles(q, t, n, v) =>
              \/ Settles(Tail(q), t, n, v)
              \/ /\ Touches(Head(q), t, n)
                 /\ Carried(Head(q), t, n) = v
                 /\ Silent(Tail(q), t, n)
         /\ Silent(q, t, n) => Silent(Tail(q), t, n) /\ ~ Touches(Head(q), t, n)
<1> DEFINE r == Tail(q)
<1>1. /\ Head(q) = q[1] /\ Len(q) \in Nat \ {0} /\ Len(r) = Len(q) - 1
      /\ \A i \in 1..Len(r) : r[i] = q[i + 1]
  BY TailFacts
<1> HIDE DEF r
<1>2. ASSUME Settles(q, t, n, v)
      PROVE  \/ Settles(r, t, n, v)
             \/ Touches(q[1], t, n) /\ Carried(q[1], t, n) = v /\ Silent(r, t, n)
  <2>1. PICK i \in 1..Len(q) : /\ Touches(q[i], t, n)
                               /\ Carried(q[i], t, n) = v
                               /\ \A j \in (i + 1)..Len(q) : ~ Touches(q[j], t, n)
    BY <1>2 DEF Settles
  <2>2. CASE i = 1
    <3>1. ASSUME NEW j \in 1..Len(r) PROVE ~ Touches(r[j], t, n)
      BY <2>1, <2>2, <1>1
    <3> QED
      BY <3>1, <2>1, <2>2 DEF Silent
  <2>3. CASE i > 1
    <3>1. i - 1 \in 1..Len(r) /\ r[i - 1] = q[i]
      BY <2>3, <1>1
    <3>2. ASSUME NEW j \in ((i - 1) + 1)..Len(r) PROVE ~ Touches(r[j], t, n)
      <4>1. j \in 1..Len(r) /\ j + 1 \in (i + 1)..Len(q) /\ r[j] = q[j + 1]
        BY <2>3, <1>1
      <4> QED
        BY <4>1, <2>1
    <3> QED
      BY <3>1, <3>2, <2>1 DEF Settles
  <2> QED
    BY <2>2, <2>3
<1>3. ASSUME Silent(q, t, n) PROVE Silent(r, t, n) /\ ~ Touches(q[1], t, n)
  <2>1. ASSUME NEW j \in 1..Len(r) PROVE ~ Touches(r[j], t, n)
    BY <1>1, <1>3 DEF Silent
  <2> QED
    BY <2>1, <1>1, <1>3 DEF Silent
<1> QED
  BY <1>1, <1>2, <1>3 DEF r

\* Put with drop-oldest: the new message settles its own cells, every other
\* cell keeps what the queue said of it unless only the dropped message did.
LEMMA PutCases ==
  ASSUME NEW S, NEW q \in Seq(S), NEW m \in S, Len(q) <= QueueMax,
         NEW t \in Tables, NEW n \in Names
  PROVE  /\ Touches(m, t, n) => Settles(Put(q, m), t, n, Carried(m, t, n))
         /\ ~ Touches(m, t, n) /\ Silent(q, t, n) => Silent(Put(q, m), t, n)
         /\ ~ Touches(m, t, n) /\ <<t, n>> \notin Overwritten(q) =>
              \A v : Settles(q, t, n, v) => Settles(Put(q, m), t, n, v)
<1>1. CASE Len(q) < QueueMax
  <2>1. Put(q, m) = Append(q, m)
    BY <1>1 DEF Put
  <2> QED
    BY <2>1, SettledByLast, AppendOther
<1>2. CASE Len(q) = QueueMax
  <2>1. /\ q # <<>>
        /\ Put(q, m) = Append(Tail(q), m)
    BY <1>2, QueueMaxAssumption DEF Put
  <2>2. Tail(q) \in Seq(S)
    BY <2>1, TailFacts
  <2>3. <<t, n>> \notin Overwritten(q) =>
          ~ (Touches(Head(q), t, n) /\ Silent(Tail(q), t, n))
    BY <1>2, QueueMaxAssumption DEF Overwritten, Cells
  <2>4. CASE Touches(m, t, n)
    BY <2>1, <2>2, <2>4, SettledByLast
  <2>5. CASE ~ Touches(m, t, n)
    <3>1. /\ Silent(Tail(q), t, n) => Silent(Append(Tail(q), m), t, n)
          /\ \A v : Settles(Tail(q), t, n, v) =>
                      Settles(Append(Tail(q), m), t, n, v)
      BY <2>2, <2>5, AppendOther
    <3>2. /\ Silent(q, t, n) => Silent(Tail(q), t, n)
          /\ \A v : Settles(q, t, n, v) =>
               \/ Settles(Tail(q), t, n, v)
               \/ Touches(Head(q), t, n) /\ Silent(Tail(q), t, n)
      BY <2>1, TailCases
    <3> QED
      BY <2>1, <2>3, <2>5, <3>1, <3>2
  <2> QED
    BY <2>4, <2>5
<1> QED
  BY <1>1, <1>2, QueueMaxAssumption, LenProperties

-----------------------------------------------------------------------------
(* The two halves of the protocol                                          *)

\* applyDelta (store.ts:48-205) changes exactly the cells its message
\* concerns, to what the message says of them.
LEMMA DeltaApplied ==
  ASSUME NEW snap \in Snapshots, NEW msg \in Deltas
  PROVE  /\ ApplyDelta(snap, msg) \in Snapshots
         /\ \A t \in Tables, n \in Names :
              ApplyDelta(snap, msg)[t][n] =
                IF Touches(msg, t, n) THEN Carried(msg, t, n) ELSE snap[t][n]
<1> USE TablesAssumption DEF Snapshots, Row, Tables
<1>1. CASE msg.type = "upsert"
  <2>1. /\ msg.table \in WatchedTables \union {"pod_metrics"}
        /\ msg.name \in Names /\ msg.data \in Objects
    BY <1>1 DEF Deltas
  <2>2. ApplyDelta(snap, msg) = [snap EXCEPT ![msg.table][msg.name] = msg.data]
    BY <1>1 DEF ApplyDelta
  <2> QED
    BY <1>1, <2>1, <2>2 DEF Touches, Carried
<1>2. CASE msg.type = "deleted"
  <2>1. msg.table \in WatchedTables /\ msg.name \in Names
    BY <1>2 DEF Deltas
  <2>2. CASE msg.table = "pods"
    <3>1. ApplyDelta(snap, msg) =
            [snap EXCEPT !["pods"][msg.name] = None,
                         !["pod_metrics"][msg.name] = None]
      BY <1>2, <2>2 DEF ApplyDelta
    <3> QED
      BY <1>2, <2>1, <2>2, <3>1 DEF Touches, Carried
  <2>3. CASE msg.table # "pods"
    <3>1. ApplyDelta(snap, msg) = [snap EXCEPT ![msg.table][msg.name] = None]
      BY <1>2, <2>3 DEF ApplyDelta
    <3> QED
      BY <1>2, <2>1, <2>3, <3>1 DEF Touches, Carried
  <2> QED
    BY <2>2, <2>3
<1>3. CASE msg.type = "replace"
  <2>1. msg.table \in PolledTables /\ msg.data \in Row
    BY <1>3 DEF Deltas
  <2>2. ApplyDelta(snap, msg) = [snap EXCEPT ![msg.table] = msg.data]
    BY <1>3 DEF ApplyDelta
  <2> QED
    BY <1>3, <2>1, <2>2 DEF Touches, Carried
<1> QED
  BY <1>1, <1>2, <1>3 DEF Deltas

\* Every mutation of ClusterState publishes one delta, and that delta says of
\* every cell exactly what the mutation did to it (state.py:125-275).
LEMMA MutationPublishes ==
  ASSUME tables \in Snapshots, Mutation
  PROVE  \E m \in Deltas :
           /\ PublishDelta(m)
           /\ tables' \in Snapshots
           /\ \A t \in Tables, n \in Names :
                tables'[t][n] = IF Touches(m, t, n) THEN Carried(m, t, n)
                                ELSE tables[t][n]
<1> USE TablesAssumption DEF Snapshots, Row, Tables
<1> DEFINE Says(m) ==
      /\ PublishDelta(m)
      /\ tables' \in Snapshots
      /\ \A t \in Tables, n \in Names :
           tables'[t][n] = IF Touches(m, t, n) THEN Carried(m, t, n)
                           ELSE tables[t][n]
<1>1. ASSUME NEW t \in WatchedTables, NEW n \in Names, NEW o \in Objects,
             Upsert(t, n, o)
      PROVE  \E m \in Deltas : Says(m)
  <2> DEFINE m == Upserted(t, n, o)
  <2>1. m \in Deltas
    BY DEF Upserted, Deltas
  <2>2. Says(m)
    BY <1>1 DEF Upsert, Upserted, Touches, Carried
  <2> QED
    BY <2>1, <2>2
<1>2. ASSUME NEW t \in WatchedTables, NEW n \in Names, Remove(t, n)
      PROVE  \E m \in Deltas : Says(m)
  <2> DEFINE m == Deleted(t, n)
  <2>1. m \in Deltas
    BY DEF Deleted, Deltas
  <2>2. Says(m)
    <3>1. CASE t = "pods"
      BY <1>2, <3>1 DEF Remove, Deleted, Touches, Carried
    <3>2. CASE t # "pods"
      BY <1>2, <3>2 DEF Remove, Deleted, Touches, Carried
    <3> QED
      BY <3>1, <3>2
  <2> QED
    BY <2>1, <2>2
<1>3. ASSUME NEW n \in Names, NEW o \in Objects, RecordPodSample(n, o)
      PROVE  \E m \in Deltas : Says(m)
  <2> DEFINE m == Upserted("pod_metrics", n, o)
  <2>1. m \in Deltas
    BY DEF Upserted, Deltas
  <2>2. Says(m)
    BY <1>3 DEF RecordPodSample, Upserted, Touches, Carried
  <2> QED
    BY <2>1, <2>2
<1>4. ASSUME NEW t \in PolledTables, NEW row \in Row, ReplaceTable(t, row)
      PROVE  \E m \in Deltas : Says(m)
  <2> DEFINE m == Replaced(t, row)
  <2>1. m \in Deltas
    BY DEF Replaced, Deltas
  <2>2. Says(m)
    BY <1>4 DEF ReplaceTable, Replaced, Touches, Carried
  <2> QED
    BY <2>1, <2>2
<1> QED
  BY <1>1, <1>2, <1>3, <1>4 DEF Mutation

-----------------------------------------------------------------------------
(* The outcomes of a send                                                  *)

DeltaDelivered(s) ==
  /\ Get(s) /\ Delivers(s, Head(queue[s]))
  /\ UNCHANGED <<tables, lost, browserVars>>

PingDelivered(s) ==
  /\ s \in subscribers /\ UNCHANGED pubsubVars /\ Delivers(s, Ping)
  /\ UNCHANGED <<tables, lost, browserVars>>

Swallowed(s) ==
  /\ Get(s) \/ UNCHANGED pubsubVars
  /\ Swallows(s)
  /\ UNCHANGED <<tables, lost, browserVars>>

Raised(s) == Raises(s) /\ UNCHANGED <<tables, lost, browserVars>>

LEMMA Sends ==
  ASSUME NEW s \in Sessions, SendDelta(s) \/ Heartbeat(s)
  PROVE  DeltaDelivered(s) \/ PingDelivered(s) \/ Swallowed(s) \/ Raised(s)
BY DEF SendDelta, Heartbeat, DeltaDelivered, PingDelivered, Swallowed, Raised

\* The steps by which a session is lost, or stays lost.
Losing(s) == Swallowed(s) \/ Raised(s) \/ Break(s) \/ GiveUp(s)

-----------------------------------------------------------------------------
(* The inductive invariant, conjunct by conjunct                           *)

\* What publish() does to each queue, and to everything else.
LEMMA PublishTypes ==
  ASSUME TypeOK, NEW m \in Deltas, PublishDelta(m), tables' \in Snapshots
  PROVE  TypeOK'
<1>1. queue' \in [Sessions -> Seq(Deltas)]
      /\ \A s \in Sessions : Len(queue'[s]) <= QueueMax
  <2>1. ASSUME NEW s \in Sessions
        PROVE  queue'[s] \in Seq(Deltas) /\ Len(queue'[s]) <= QueueMax
    <3>1. queue[s] \in Seq(Deltas) /\ Len(queue[s]) <= QueueMax
      BY DEF TypeOK, PubSubTypeOK
    <3>2. queue'[s] = IF s \in subscribers THEN Put(queue[s], m) ELSE queue[s]
      BY DEF PublishDelta, Publish
    <3> QED
      BY <3>1, <3>2, PutFacts
  <2>2. queue' = [s \in Sessions |-> queue'[s]]
    BY DEF PublishDelta, Publish
  <2> QED
    BY <2>1, <2>2
<1>2. lost' \in [Sessions -> SUBSET Cells]
  BY DEF PublishDelta, TypeOK, Overwritten
<1> QED
  BY <1>1, <1>2 DEF PublishDelta, Publish, TypeOK, PubSubTypeOK, browserVars

LEMMA InitTypes == Init => TypeOK
<1> SUFFICES ASSUME Init PROVE TypeOK
  OBVIOUS
<1>1. <<>> \in Seq(Deltas) /\ <<>> \in Seq(Frames) /\ Len(<<>>) = 0
  OBVIOUS
<1> QED
  BY <1>1, QueueMaxAssumption
  DEF Init, PubSubInit, TypeOK, PubSubTypeOK, Snapshots, Row, Links

LEMMA SeverTypes ==
  ASSUME TypeOK, NEW s \in Sessions, Sever(s)
  PROVE  link' \in [Sessions -> Links] /\ wire' \in [Sessions -> Seq(Frames)]
<1>1. PICK how \in {"dead", IF wire[s] = <<>> THEN "gone" ELSE "unacked"} :
        link' = [link EXCEPT ![s] = how]
  BY DEF Sever
<1>2. how \in Links
  BY DEF Links
<1>3. wire' = [wire EXCEPT ![s] = <<>>] /\ <<>> \in Seq(Frames)
  BY DEF Sever
<1> QED
  BY <1>1, <1>2, <1>3 DEF TypeOK

LEMMA NextTypes == TypeOK /\ [Next]_vars => TypeOK'
<1> SUFFICES ASSUME TypeOK, [Next]_vars PROVE TypeOK'
  OBVIOUS
<1> USE DEF TypeOK, PubSubTypeOK
<1>1. CASE Mutation
  BY <1>1, MutationPublishes, PublishTypes
<1>2. ASSUME NEW s \in Sessions, DeltaDelivered(s) PROVE TypeOK'
  <2>1. queue[s] \in Seq(Deltas) /\ queue[s] # <<>> /\ wire[s] \in Seq(Frames)
    BY <1>2 DEF DeltaDelivered, Get
  <2>2. /\ Tail(queue[s]) \in Seq(Deltas) /\ Len(Tail(queue[s])) <= QueueMax
        /\ Head(queue[s]) \in Frames
    BY <2>1, TailFacts, QueueMaxAssumption DEF Frames
  <2>3. Append(wire[s], Head(queue[s])) \in Seq(Frames)
    BY <2>1, <2>2, AppendFacts
  <2> QED
    BY <1>2, <2>2, <2>3 DEF DeltaDelivered, Delivers, Get, browserVars
<1>3. ASSUME NEW s \in Sessions, PingDelivered(s) PROVE TypeOK'
  <2>1. Append(wire[s], Ping) \in Seq(Frames)
    BY AppendFacts DEF Frames
  <2> QED
    BY <1>3, <2>1 DEF PingDelivered, Delivers, browserVars, pubsubVars
<1>4. ASSUME NEW s \in Sessions, Swallowed(s) PROVE TypeOK'
  <2>1. link' \in [Sessions -> Links]
    BY <1>4 DEF Swallowed, Swallows, Links
  <2>2. CASE Get(s)
    <3>1. Tail(queue[s]) \in Seq(Deltas) /\ Len(Tail(queue[s])) <= QueueMax
      BY <2>2, TailFacts, QueueMaxAssumption DEF Get
    <3> QED
      BY <1>4, <2>1, <2>2, <3>1 DEF Swallowed, Swallows, Get, browserVars
  <2>3. CASE UNCHANGED pubsubVars
    BY <1>4, <2>1, <2>3 DEF Swallowed, Swallows, browserVars, pubsubVars
  <2> QED
    BY <1>4, <2>2, <2>3 DEF Swallowed
<1>5. ASSUME NEW s \in Sessions, Raised(s) PROVE TypeOK'
  <2>1. <<>> \in Seq(Deltas) /\ Len(<<>>) <= QueueMax
    BY QueueMaxAssumption
  <2> QED
    BY <1>5, <2>1 DEF Raised, Raises, Unsubscribe, browserVars, Links
<1>6. ASSUME NEW s \in Sessions, Break(s) \/ GiveUp(s) PROVE TypeOK'
  BY <1>6, SeverTypes DEF Break, GiveUp, browserVars, pubsubVars, Links
<1>7. ASSUME NEW b \in Browsers, NEW s \in Sessions, Accept(b, s) PROVE TypeOK'
  <2>1. <<>> \in Seq(Deltas) /\ Len(<<>>) <= QueueMax
    BY QueueMaxAssumption
  <2>2. <<FullState(tables)>> \in Seq(Frames)
    BY DEF Frames, FullState
  <2> QED
    BY <1>7, <2>1, <2>2 DEF Accept, Subscribe, Links
<1>8. ASSUME NEW b \in Browsers, Receive(b) PROVE TypeOK'
  <2> DEFINE s == session[b]
             msg == Head(wire[s])
  <2>1. s \in Sessions /\ wire[s] \in Seq(Frames) /\ wire[s] # <<>>
    BY <1>8 DEF Receive
  <2>2. msg \in Frames /\ Tail(wire[s]) \in Seq(Frames)
    BY <2>1, TailFacts
  <2>3. view' \in [Browsers -> Snapshots \union {NoView}]
    <3>1. CASE msg.type = "ping"
      BY <1>8, <3>1 DEF Receive
    <3>2. CASE msg.type = "full_state"
      <4>1. msg.data \in Snapshots
        BY <2>2, <3>2 DEF Frames, Deltas, Ping
      <4>2. view' = [view EXCEPT ![b] = msg.data]
        BY <1>8, <3>2 DEF Receive
      <4> QED
        BY <4>1, <4>2
    <3>3. CASE msg.type \notin {"ping", "full_state"}
      <4>1. msg \in Deltas
        BY <2>2, <3>3 DEF Frames, Ping
      <4>2. view' = IF view[b] = NoView THEN view
                    ELSE [view EXCEPT ![b] = ApplyDelta(view[b], msg)]
        BY <1>8, <3>3 DEF Receive
      <4>3. view[b] # NoView => ApplyDelta(view[b], msg) \in Snapshots
        BY <4>1, DeltaApplied
      <4> QED
        BY <4>2, <4>3
    <3> QED
      BY <3>1, <3>2, <3>3
  <2> QED
    BY <1>8, <2>1, <2>2, <2>3 DEF Receive, pubsubVars
<1>9. ASSUME NEW b \in Browsers, Logout(b) PROVE TypeOK'
  <2>1. link' \in [Sessions -> Links] /\ wire' \in [Sessions -> Seq(Frames)]
    BY <1>9, SeverTypes DEF Logout
  <2> QED
    BY <1>9, <2>1 DEF Logout, pubsubVars
<1>10. ASSUME NEW b \in Browsers,
              Refuse(b) \/ NoticeClosed(b) \/ ConnectFails(b) \/ Retry(b)
                \/ Login(b) \/ Expire(b)
       PROVE  TypeOK'
  BY <1>10 DEF Refuse, NoticeClosed, ConnectFails, Retry, Login, Expire, serverVars
<1>11. CASE UNCHANGED vars
  BY <1>11 DEF vars
<1> QED
  BY <1>1, <1>2, <1>3, <1>4, <1>5, <1>6, <1>7, <1>8, <1>9, <1>10, <1>11, Sends
  DEF Next

\* Queues never exceed their bound and no step leaves the data types of the
\* tables, frames and snapshots, for any number of browsers and sessions.
THEOREM TypeCorrect == Spec => []TypeOK
  BY InitTypes, NextTypes, PTL DEF Spec

-----------------------------------------------------------------------------
LEMMA InitOwned == Init => SessionsOwned
<1> SUFFICES ASSUME Init PROVE SessionsOwned
  OBVIOUS
<1>1. Len(<<>>) <= WireMax
  BY WireMaxAssumption
<1> QED
  BY <1>1, DistinctAssumption DEF Init, PubSubInit, SessionsOwned

LEMMA NextOwned == TypeOK /\ SessionsOwned /\ [Next]_vars => SessionsOwned'
<1> SUFFICES ASSUME TypeOK, SessionsOwned, [Next]_vars PROVE SessionsOwned'
  OBVIOUS
<1> USE WireMaxAssumption, DistinctAssumption DEF SessionsOwned
<1>0. /\ wire \in [Sessions -> Seq(Frames)]
      /\ queue \in [Sessions -> Seq(Deltas)]
      /\ link \in [Sessions -> Links]
      /\ session \in [Browsers -> Sessions \union {NoSession}]
      /\ subscribers \subseteq Sessions
  BY DEF TypeOK, PubSubTypeOK
<1>1. CASE Mutation
  <2>1. PICK m \in Deltas : PublishDelta(m)
    BY <1>1, MutationPublishes DEF TypeOK
  <2> QED
    BY <2>1 DEF PublishDelta, Publish, browserVars
<1>2. ASSUME NEW s \in Sessions, DeltaDelivered(s) PROVE SessionsOwned'
  <2>1. queue[s] \in Seq(Deltas) /\ queue[s] # <<>> /\ s \in subscribers
    BY <1>0, <1>2 DEF DeltaDelivered, Get
  <2>2. Head(queue[s]) \in Frames
    BY <2>1, TailFacts DEF Frames
  <2>3. Len(Append(wire[s], Head(queue[s]))) <= WireMax
    BY <1>0, <1>2, <2>2, AppendFacts DEF DeltaDelivered, Delivers
  <2> QED
    BY <1>0, <1>2, <2>1, <2>3 DEF DeltaDelivered, Delivers, Get, browserVars
<1>3. ASSUME NEW s \in Sessions, PingDelivered(s) PROVE SessionsOwned'
  <2>1. Len(Append(wire[s], Ping)) <= WireMax
    BY <1>0, <1>3, AppendFacts DEF PingDelivered, Delivers, Frames
  <2> QED
    BY <1>0, <1>3, <2>1 DEF PingDelivered, Delivers, browserVars, pubsubVars
<1>4. ASSUME NEW s \in Sessions, Swallowed(s) PROVE SessionsOwned'
  BY <1>0, <1>4 DEF Swallowed, Swallows, Get, browserVars, pubsubVars
<1>5. ASSUME NEW s \in Sessions, Raised(s) PROVE SessionsOwned'
  BY <1>0, <1>5 DEF Raised, Raises, Unsubscribe, browserVars
<1>6. ASSUME NEW s \in Sessions, Break(s) \/ GiveUp(s) PROVE SessionsOwned'
  <2>1. Len(<<>>) <= WireMax
    OBVIOUS
  <2> QED
    BY <1>0, <1>6, <2>1 DEF Break, Sever, GiveUp, browserVars, pubsubVars
<1>7. ASSUME NEW b \in Browsers, NEW s \in Sessions, Accept(b, s)
      PROVE  SessionsOwned'
  <2>1. Len(<<FullState(tables)>>) <= WireMax
    OBVIOUS
  <2>2. \A c \in Browsers : session[c] # s
    BY <1>7 DEF Accept, Unused
  <2> QED
    BY <1>0, <1>7, <2>1, <2>2 DEF Accept, Subscribe
<1>8. ASSUME NEW b \in Browsers, Receive(b) PROVE SessionsOwned'
  <2> DEFINE s == session[b]
  <2>1. s \in Sessions /\ wire[s] \in Seq(Frames) /\ wire[s] # <<>>
    BY <1>0, <1>8 DEF Receive
  <2>2. Len(Tail(wire[s])) <= WireMax
    BY <2>1, TailFacts
  <2> QED
    BY <1>0, <1>8, <2>1, <2>2 DEF Receive, pubsubVars
<1>9. ASSUME NEW b \in Browsers, Logout(b) PROVE SessionsOwned'
  <2>1. Len(<<>>) <= WireMax
    OBVIOUS
  <2> QED
    BY <1>0, <1>9, <2>1 DEF Logout, Sever, pubsubVars
<1>10. ASSUME NEW b \in Browsers,
              Refuse(b) \/ NoticeClosed(b) \/ ConnectFails(b) \/ Retry(b)
                \/ Login(b) \/ Expire(b)
       PROVE  SessionsOwned'
  BY <1>0, <1>10
  DEF Refuse, NoticeClosed, ConnectFails, Retry, Login, Expire, serverVars
<1>11. CASE UNCHANGED vars
  BY <1>11 DEF vars
<1> QED
  BY <1>1, <1>2, <1>3, <1>4, <1>5, <1>6, <1>7, <1>8, <1>9, <1>10, <1>11, Sends
  DEF Next

-----------------------------------------------------------------------------
\* Deltas are never snapshots.
LEMMA DeltaKinds ==
  /\ \A m \in Deltas : m \in Frames /\ m.type \notin {"full_state", "ping"}
  /\ Ping \in Frames /\ Ping.type = "ping"
  /\ \A t, n : ~ Touches(Ping, t, n)
BY DEF Deltas, Frames, Ping, Touches

LEMMA InitSnapshotFirst == Init => SnapshotFirst
BY DistinctAssumption DEF Init, SnapshotFirst, Connected

\* A new last frame that is no snapshot keeps the snapshot first.
LEMMA FirstAfterAppend ==
  ASSUME NEW q \in Seq(Frames), NEW m \in Frames, m.type # "full_state",
         \A i \in 2..Len(q) : q[i].type # "full_state"
  PROVE  /\ \A i \in 2..Len(Append(q, m)) : Append(q, m)[i].type # "full_state"
         /\ q # <<>> => Append(q, m)[1] = q[1]
         /\ Append(q, m) # <<>>
BY AppendFacts

LEMMA NextSnapshotFirst ==
  TypeOK /\ SessionsOwned /\ SnapshotFirst /\ [Next]_vars => SnapshotFirst'
<1> SUFFICES ASSUME TypeOK, SessionsOwned, SnapshotFirst, [Next]_vars
             PROVE  SnapshotFirst'
  OBVIOUS
<1> USE DistinctAssumption DEF SnapshotFirst, Connected
<1>0. /\ wire \in [Sessions -> Seq(Frames)]
      /\ queue \in [Sessions -> Seq(Deltas)]
      /\ link \in [Sessions -> Links]
      /\ session \in [Browsers -> Sessions \union {NoSession}]
      /\ view \in [Browsers -> Snapshots \union {NoView}]
      /\ tables \in Snapshots
  BY DEF TypeOK, PubSubTypeOK
<1>1. CASE Mutation
  <2>1. PICK m \in Deltas : PublishDelta(m)
    BY <1>0, <1>1, MutationPublishes
  <2> QED
    BY <2>1 DEF PublishDelta, browserVars
<1>2. ASSUME NEW s \in Sessions, NEW m \in Frames, m.type # "full_state",
             wire' = [wire EXCEPT ![s] = Append(@, m)],
             UNCHANGED <<link, session, view>>
      PROVE  SnapshotFirst'
  <2>1. ASSUME NEW b \in Browsers, session[b] = s, link[s] = "up"
        PROVE  /\ \A i \in 2..Len(wire'[s]) : wire'[s][i].type # "full_state"
               /\ view[b] = NoView =>
                    wire'[s] # <<>> /\ wire'[s][1].type = "full_state"
    <3>1. /\ \A i \in 2..Len(wire[s]) : wire[s][i].type # "full_state"
          /\ view[b] = NoView =>
               wire[s] # <<>> /\ wire[s][1].type = "full_state"
      BY <2>1
    <3>2. wire'[s] = Append(wire[s], m) /\ wire[s] \in Seq(Frames)
      BY <1>0, <1>2
    <3> QED
      BY <1>2, <3>1, <3>2, FirstAfterAppend
  <2> QED
    BY <1>0, <1>2, <2>1
<1>3. ASSUME NEW s \in Sessions, DeltaDelivered(s) PROVE SnapshotFirst'
  <2>1. Head(queue[s]) \in Deltas
    BY <1>0, <1>3, TailFacts DEF DeltaDelivered, Get
  <2> QED
    BY <1>2, <1>3, <2>1, DeltaKinds DEF DeltaDelivered, Delivers, browserVars
<1>4. ASSUME NEW s \in Sessions, PingDelivered(s) PROVE SnapshotFirst'
  BY <1>2, <1>4, DeltaKinds DEF PingDelivered, Delivers, browserVars
<1>5. ASSUME NEW s \in Sessions, Losing(s) PROVE SnapshotFirst'
  BY <1>0, <1>5
  DEF Losing, Swallowed, Swallows, Raised, Raises, Break, Sever, GiveUp, browserVars
<1>6. ASSUME NEW b \in Browsers, NEW s \in Sessions, Accept(b, s)
      PROVE  SnapshotFirst'
  <2>1. /\ Len(<<FullState(tables)>>) = 1
        /\ <<FullState(tables)>>[1].type = "full_state"
    BY DEF FullState
  <2>2. \A c \in Browsers : session[c] # s
    BY <1>6 DEF Accept, Unused
  <2> QED
    BY <1>0, <1>6, <2>1, <2>2 DEF Accept, Subscribe
<1>7. ASSUME NEW b \in Browsers, Receive(b) PROVE SnapshotFirst'
  <2> DEFINE s == session[b]
             msg == Head(wire[s])
  <2>1. /\ s \in Sessions /\ link[s] = "up" /\ wire[s] \in Seq(Frames)
        /\ wire[s] # <<>>
    BY <1>0, <1>7 DEF Receive
  <2>2. \A c \in Browsers : c # b => session[c] # s
    BY <1>0, <2>1 DEF SessionsOwned
  <2>3. \A i \in 1..Len(Tail(wire[s])) : Tail(wire[s])[i].type # "full_state"
    BY <2>1, TailFacts
  <2>4. view'[b] # NoView
    <3>1. CASE msg.type = "full_state"
      <4>1. msg \in Frames
        BY <2>1, TailFacts
      <4>2. msg.data \in Snapshots
        BY <3>1, <4>1, DeltaKinds DEF Frames
      <4>3. view'[b] = msg.data
        BY <1>0, <1>7, <3>1 DEF Receive
      <4> QED
        BY <4>2, <4>3 DEF Snapshots, Row
    <3>2. CASE msg.type # "full_state"
      <4>1. view[b] # NoView
        BY <2>1, <3>2, TailFacts
      <4>2. view[b] \in Snapshots
        BY <1>0, <4>1
      <4>3. CASE msg.type = "ping"
        BY <1>7, <4>1, <4>3 DEF Receive
      <4>4. CASE msg.type # "ping"
        <5>1. msg \in Deltas
          BY <2>1, <3>2, <4>4, TailFacts, DeltaKinds DEF Frames
        <5>2. ApplyDelta(view[b], msg) \in Snapshots
          BY <4>2, <5>1, DeltaApplied
        <5>3. view'[b] = ApplyDelta(view[b], msg)
          BY <1>0, <1>7, <3>2, <4>1, <4>4 DEF Receive
        <5> QED
          BY <5>2, <5>3 DEF Snapshots, Row
      <4> QED
        BY <4>3, <4>4
    <3> QED
      BY <3>1, <3>2
  <2>5. \A c \in Browsers : c # b => view'[c] = view[c]
    BY <1>0, <1>7 DEF Receive
  <2>6. /\ wire' = [wire EXCEPT ![s] = Tail(@)]
        /\ UNCHANGED <<link, session>>
    BY <1>7 DEF Receive
  <2>7. ASSUME NEW c \in Browsers, NEW x \in Sessions, session[c] = x, link[x] = "up"
        PROVE  /\ \A i \in 2..Len(wire'[x]) : wire'[x][i].type # "full_state"
               /\ view'[c] = NoView =>
                    wire'[x] # <<>> /\ wire'[x][1].type = "full_state"
    <3>1. CASE c = b
      BY <1>0, <2>3, <2>4, <2>6, <2>7, <3>1
    <3>2. CASE c # b
      BY <1>0, <2>2, <2>5, <2>6, <2>7, <3>2
    <3> QED
      BY <3>1, <3>2
  <2> QED
    BY <2>6, <2>7
<1>8. ASSUME NEW b \in Browsers, Logout(b) PROVE SnapshotFirst'
  BY <1>0, <1>8 DEF Logout, Sever, SessionsOwned
<1>9. ASSUME NEW b \in Browsers,
             Refuse(b) \/ NoticeClosed(b) \/ ConnectFails(b) \/ Retry(b)
               \/ Login(b) \/ Expire(b)
      PROVE  SnapshotFirst'
  <2>1. /\ UNCHANGED <<wire, link, view>>
        /\ \A c \in Browsers : session'[c] \in {session[c], NoSession}
    BY <1>0, <1>9
    DEF Refuse, NoticeClosed, ConnectFails, Retry, Login, Expire, serverVars
  <2> QED
    BY <2>1
<1>10. CASE UNCHANGED vars
  BY <1>10 DEF vars
<1> QED
  BY <1>1, <1>3, <1>4, <1>5, <1>6, <1>7, <1>8, <1>9, <1>10, Sends DEF Next, Losing

-----------------------------------------------------------------------------
\* onmessage shows what the frame says of the cells it concerns and leaves
\* the others as they were.
LEMMA ReceiveShows ==
  ASSUME TypeOK, SnapshotFirst, NEW b \in Browsers, Receive(b),
         NEW t \in Tables, NEW n \in Names
  PROVE  LET msg == Head(wire[session[b]])
         IN view'[b][t][n] = IF Touches(msg, t, n) THEN Carried(msg, t, n)
                             ELSE view[b][t][n]
<1> DEFINE s == session[b]
           msg == Head(wire[s])
<1>1. /\ s \in Sessions /\ link[s] = "up" /\ wire[s] \in Seq(Frames)
      /\ wire[s] # <<>> /\ view \in [Browsers -> Snapshots \union {NoView}]
  BY DistinctAssumption DEF Receive, TypeOK, PubSubTypeOK
<1>2. msg \in Frames /\ msg = wire[s][1]
  BY <1>1, TailFacts
<1>3. CASE msg.type = "ping"
  <2>1. msg = Ping
    BY <1>2, <1>3, DeltaKinds DEF Frames
  <2>2. view' = view
    BY <1>3 DEF Receive
  <2> QED
    BY <2>1, <2>2, DeltaKinds
<1>4. CASE msg.type = "full_state"
  <2>1. view'[b] = msg.data
    BY <1>1, <1>4 DEF Receive
  <2>2. Touches(msg, t, n) /\ Carried(msg, t, n) = msg.data[t][n]
    BY <1>4 DEF Touches, Carried
  <2> QED
    BY <2>1, <2>2
<1>5. CASE msg.type \notin {"ping", "full_state"}
  <2>1. msg \in Deltas
    BY <1>2, <1>5, DeltaKinds DEF Frames
  <2>2. view[b] # NoView
    BY <1>1, <1>2, <1>5 DEF SnapshotFirst, Connected
  <2>3. view'[b] = ApplyDelta(view[b], msg)
    BY <1>1, <1>5, <2>2 DEF Receive
  <2> QED
    BY <1>1, <2>1, <2>2, <2>3, DeltaApplied
<1> QED
  BY <1>3, <1>4, <1>5

\* Agreement about one cell moves on when the cell's surroundings do not.
LEMMA AgreesUnchanged ==
  ASSUME NEW b, NEW s, NEW t, NEW n, Agrees(b, s, t, n),
         queue'[s] = queue[s], wire'[s] = wire[s],
         view'[b] = view[b], tables' = tables
  PROVE  Agrees(b, s, t, n)'
BY DEF Agrees

LEMMA MutationCoherent ==
  ASSUME TypeOK, SessionsOwned, Coherent, Mutation
  PROVE  Coherent'
<1>1. PICK m \in Deltas :
        /\ PublishDelta(m)
        /\ \A t \in Tables, n \in Names :
             tables'[t][n] = IF Touches(m, t, n) THEN Carried(m, t, n)
                             ELSE tables[t][n]
  BY MutationPublishes DEF TypeOK
<1>2. UNCHANGED <<wire, link, session, view>>
  BY <1>1 DEF PublishDelta, browserVars
<1>3. SUFFICES ASSUME NEW b \in Browsers, NEW s \in Sessions, Connected(b, s),
                      NEW t \in Tables, NEW n \in Names, <<t, n>> \notin lost'[s]
               PROVE  Agrees(b, s, t, n)'
  BY <1>2 DEF Coherent, Connected
<1>4. s \in subscribers /\ queue[s] \in Seq(Deltas) /\ Len(queue[s]) <= QueueMax
  BY <1>3 DEF Connected, SessionsOwned, TypeOK, PubSubTypeOK
<1>5. queue'[s] = Put(queue[s], m)
  BY <1>1, <1>4 DEF PublishDelta, Publish
<1>6. CASE Touches(m, t, n)
  <2>1. Settles(Put(queue[s], m), t, n, Carried(m, t, n))
    BY <1>4, <1>6, PutCases
  <2>2. tables'[t][n] = Carried(m, t, n)
    BY <1>1, <1>6
  <2> QED
    BY <1>5, <2>1, <2>2 DEF Agrees
<1>7. CASE ~ Touches(m, t, n)
  <2>1. <<t, n>> \notin lost[s] /\ <<t, n>> \notin Overwritten(queue[s])
    <3>1. lost'[s] = {c \in lost[s] \union Overwritten(queue[s]) :
                        ~ Touches(m, c[1], c[2])}
      BY <1>1, <1>4 DEF PublishDelta
    <3> QED
      BY <3>1, <1>3, <1>7
  <2>2. Agrees(b, s, t, n)
    BY <1>3, <2>1 DEF Coherent
  <2>3. tables'[t][n] = tables[t][n]
    BY <1>1, <1>7
  <2>4. /\ Settles(queue[s], t, n, tables[t][n]) =>
             Settles(queue'[s], t, n, tables[t][n])
        /\ Silent(queue[s], t, n) => Silent(queue'[s], t, n)
    BY <1>4, <1>5, <1>7, <2>1, PutCases
  <2> QED
    BY <1>2, <2>2, <2>3, <2>4 DEF Agrees
<1> QED
  BY <1>6, <1>7

LEMMA SendCoherent ==
  ASSUME TypeOK, Coherent, NEW s \in Sessions, DeltaDelivered(s)
  PROVE  Coherent'
<1>1. /\ queue[s] \in Seq(Deltas) /\ queue[s] # <<>> /\ wire[s] \in Seq(Frames)
      /\ queue' = [queue EXCEPT ![s] = Tail(queue[s])]
      /\ wire' = [wire EXCEPT ![s] = Append(wire[s], Head(queue[s]))]
      /\ UNCHANGED <<tables, link, lost, session, view>>
      /\ queue \in [Sessions -> Seq(Deltas)] /\ wire \in [Sessions -> Seq(Frames)]
  BY DEF DeltaDelivered, Delivers, Get, TypeOK, PubSubTypeOK, browserVars
<1>2. SUFFICES ASSUME NEW b \in Browsers, NEW x \in Sessions, Connected(b, x),
                      NEW t \in Tables, NEW n \in Names, <<t, n>> \notin lost[x]
               PROVE  Agrees(b, x, t, n)'
  BY <1>1 DEF Coherent, Connected
<1>3. Agrees(b, x, t, n)
  BY <1>2 DEF Coherent
<1>4. CASE x # s
  BY <1>1, <1>3, <1>4, AgreesUnchanged
<1>5. CASE x = s
  <2> DEFINE m == Head(queue[s])
             v == tables[t][n]
  <2>1. m \in Frames
    BY <1>1, TailFacts, DeltaKinds
  <2>2. queue'[s] = Tail(queue[s]) /\ wire'[s] = Append(wire[s], m)
    BY <1>1
  <2>3. /\ Settles(queue[s], t, n, v) =>
             \/ Settles(queue'[s], t, n, v)
             \/ Touches(m, t, n) /\ Carried(m, t, n) = v /\ Silent(queue'[s], t, n)
        /\ Silent(queue[s], t, n) => Silent(queue'[s], t, n) /\ ~ Touches(m, t, n)
    BY <1>1, <2>2, TailCases
  <2>4. /\ Touches(m, t, n) => Settles(wire'[s], t, n, Carried(m, t, n))
        /\ ~ Touches(m, t, n) /\ Settles(wire[s], t, n, v) => Settles(wire'[s], t, n, v)
        /\ ~ Touches(m, t, n) /\ Silent(wire[s], t, n) => Silent(wire'[s], t, n)
    BY <1>1, <2>1, <2>2, SettledByLast, AppendOther
  <2>5. tables'[t][n] = v /\ view'[b] = view[b]
    BY <1>1
  <2> HIDE DEF m, v
  <2>6. /\ v = tables[t][n] /\ v = tables'[t][n]
    BY <2>5 DEF v
  <2> QED
    BY <1>3, <1>5, <2>3, <2>4, <2>5, <2>6 DEF Agrees
<1> QED
  BY <1>4, <1>5

LEMMA HeartbeatCoherent ==
  ASSUME TypeOK, Coherent, NEW s \in Sessions, PingDelivered(s)
  PROVE  Coherent'
<1>1. /\ wire[s] \in Seq(Frames) /\ wire \in [Sessions -> Seq(Frames)]
      /\ wire' = [wire EXCEPT ![s] = Append(wire[s], Ping)]
      /\ UNCHANGED <<tables, queue, link, lost, session, view>>
  BY DEF PingDelivered, Delivers, TypeOK, browserVars, pubsubVars
<1>2. SUFFICES ASSUME NEW b \in Browsers, NEW x \in Sessions, Connected(b, x),
                      NEW t \in Tables, NEW n \in Names, <<t, n>> \notin lost[x]
               PROVE  Agrees(b, x, t, n)'
  BY <1>1 DEF Coherent, Connected
<1>3. Agrees(b, x, t, n)
  BY <1>2 DEF Coherent
<1>4. CASE x # s
  BY <1>1, <1>3, <1>4, AgreesUnchanged
<1>5. CASE x = s
  <2>1. /\ Settles(wire[s], t, n, tables[t][n]) => Settles(wire'[s], t, n, tables[t][n])
        /\ Silent(wire[s], t, n) => Silent(wire'[s], t, n)
    BY <1>1, DeltaKinds, AppendOther
  <2> QED
    BY <1>1, <1>3, <1>5, <2>1 DEF Agrees
<1> QED
  BY <1>4, <1>5

LEMMA AcceptCoherent ==
  ASSUME TypeOK, Coherent, NEW b \in Browsers, NEW s \in Sessions, Accept(b, s)
  PROVE  Coherent'
<1>1. /\ queue \in [Sessions -> Seq(Deltas)] /\ wire \in [Sessions -> Seq(Frames)]
      /\ queue' = [queue EXCEPT ![s] = <<>>]
      /\ wire' = [wire EXCEPT ![s] = <<FullState(tables)>>]
      /\ link' = [link EXCEPT ![s] = "up"]
      /\ session' = [session EXCEPT ![b] = s]
      /\ lost' = [lost EXCEPT ![s] = {}]
      /\ UNCHANGED <<tables, view>>
      /\ link \in [Sessions -> Links]
      /\ session \in [Browsers -> Sessions \union {NoSession}]
      /\ \A c \in Browsers : session[c] # s
      /\ lost \in [Sessions -> SUBSET Cells]
  BY DEF Accept, Subscribe, Unused, TypeOK, PubSubTypeOK
<1>2. SUFFICES ASSUME NEW c \in Browsers, NEW x \in Sessions, Connected(c, x)',
                      NEW t \in Tables, NEW n \in Names, <<t, n>> \notin lost'[x]
               PROVE  Agrees(c, x, t, n)'
  BY DEF Coherent
<1>3. CASE x # s
  <2>1. Connected(c, x) /\ <<t, n>> \notin lost[x]
    BY <1>1, <1>2, <1>3 DEF Connected
  <2>2. Agrees(c, x, t, n)
    BY <2>1 DEF Coherent
  <2> QED
    BY <1>1, <1>3, <2>2, AgreesUnchanged
<1>4. CASE x = s
  <2> DEFINE w == <<FullState(tables)>>
  <2>1. Len(<<>>) = 0 /\ Len(w) = 1 /\ w[1] = FullState(tables)
    OBVIOUS
  <2>2. Touches(w[1], t, n) /\ Carried(w[1], t, n) = tables[t][n]
    BY DEF FullState, Touches, Carried
  <2>3. Settles(w, t, n, tables[t][n])
    BY <2>1, <2>2 DEF Settles
  <2>4. Silent(<<>>, t, n)
    BY <2>1 DEF Silent
  <2>5. wire'[s] = w /\ queue'[s] = <<>> /\ tables' = tables
    BY <1>1
  <2> QED
    BY <1>4, <2>3, <2>4, <2>5 DEF Agrees
<1> QED
  BY <1>3, <1>4

LEMMA ReceiveCoherent ==
  ASSUME TypeOK, SessionsOwned, SnapshotFirst, Coherent,
         NEW b \in Browsers, Receive(b)
  PROVE  Coherent'
<1> DEFINE s == session[b]
           msg == Head(wire[s])
<1>1. /\ s \in Sessions /\ wire[s] \in Seq(Frames) /\ wire[s] # <<>>
      /\ wire \in [Sessions -> Seq(Frames)] /\ view \in [Browsers -> Snapshots \union {NoView}]
      /\ wire' = [wire EXCEPT ![s] = Tail(wire[s])]
      /\ UNCHANGED <<tables, queue, link, lost, session>>
      /\ \A c \in Browsers : c # b => view'[c] = view[c]
  BY DistinctAssumption DEF Receive, TypeOK, PubSubTypeOK, pubsubVars
<1>2. SUFFICES ASSUME NEW c \in Browsers, NEW x \in Sessions, Connected(c, x),
                      NEW t \in Tables, NEW n \in Names, <<t, n>> \notin lost[x]
               PROVE  Agrees(c, x, t, n)'
  BY <1>1 DEF Coherent, Connected
<1>3. Agrees(c, x, t, n)
  BY <1>2 DEF Coherent
<1>4. CASE c # b
  <2>1. x # s
    BY <1>1, <1>2, <1>4, DistinctAssumption DEF Connected, SessionsOwned
  <2> QED
    BY <1>1, <1>3, <1>4, <2>1, AgreesUnchanged
<1>5. CASE c = b
  <2> DEFINE v == tables[t][n]
  <2>1. x = s /\ wire'[s] = Tail(wire[s])
    BY <1>1, <1>2, <1>5 DEF Connected
  <2>2. /\ Settles(wire[s], t, n, v) =>
             \/ Settles(Tail(wire[s]), t, n, v)
             \/ /\ Touches(msg, t, n) /\ Carried(msg, t, n) = v
                /\ Silent(Tail(wire[s]), t, n)
        /\ Silent(wire[s], t, n) =>
             Silent(Tail(wire[s]), t, n) /\ ~ Touches(msg, t, n)
    <3> HIDE DEF s, v
    <3> QED
      BY <1>1, TailCases
  <2>3. view'[b][t][n] = IF Touches(msg, t, n) THEN Carried(msg, t, n)
                         ELSE view[b][t][n]
    BY ReceiveShows
  <2>4. queue'[s] = queue[s] /\ tables' = tables
    BY <1>1
  <2> QED
    BY <1>3, <1>5, <2>1, <2>2, <2>3, <2>4 DEF Agrees
<1> QED
  BY <1>4, <1>5

\* Steps after which every connected pair was connected before, its queue,
\* wire, view and the tables untouched.
LEMMA OtherCoherent ==
  ASSUME Coherent, tables' = tables, lost' = lost,
         \A b \in Browsers, s \in Sessions : Connected(b, s)' =>
           /\ Connected(b, s)
           /\ queue'[s] = queue[s] /\ wire'[s] = wire[s] /\ view'[b] = view[b]
  PROVE  Coherent'
<1>1. SUFFICES ASSUME NEW b \in Browsers, NEW s \in Sessions, Connected(b, s)',
                      NEW t \in Tables, NEW n \in Names, <<t, n>> \notin lost[s]
               PROVE  Agrees(b, s, t, n)'
  BY DEF Coherent
<1>2. Agrees(b, s, t, n)
  BY <1>1 DEF Coherent
<1> QED
  BY <1>1, <1>2, AgreesUnchanged

LEMMA InitCoherent == Init => Coherent
BY DEF Init, Coherent, Connected

LEMMA NextCoherent ==
  TypeOK /\ SessionsOwned /\ SnapshotFirst /\ Coherent /\ [Next]_vars => Coherent'
<1> SUFFICES ASSUME TypeOK, SessionsOwned, SnapshotFirst, Coherent, [Next]_vars
             PROVE  Coherent'
  OBVIOUS
<1>0. /\ queue \in [Sessions -> Seq(Deltas)]
      /\ wire \in [Sessions -> Seq(Frames)]
      /\ link \in [Sessions -> Links]
      /\ session \in [Browsers -> Sessions \union {NoSession}]
      /\ view \in [Browsers -> Snapshots \union {NoView}]
  BY DEF TypeOK, PubSubTypeOK
<1>1. CASE Mutation
  BY <1>1, MutationCoherent
<1>2. ASSUME NEW s \in Sessions, DeltaDelivered(s) PROVE Coherent'
  BY <1>2, SendCoherent
<1>3. ASSUME NEW s \in Sessions, PingDelivered(s) PROVE Coherent'
  BY <1>3, HeartbeatCoherent
<1>4. ASSUME NEW s \in Sessions, Losing(s) PROVE Coherent'
  <2>1. /\ UNCHANGED <<tables, lost, session, view>>
        /\ link'[s] # "up"
        /\ \A x \in Sessions : x # s =>
             queue'[x] = queue[x] /\ wire'[x] = wire[x] /\ link'[x] = link[x]
    BY <1>0, <1>4
    DEF Losing, Swallowed, Swallows, Raised, Raises, Break, Sever, GiveUp, Get,
        Unsubscribe, browserVars, pubsubVars
  <2> QED
    BY <2>1, OtherCoherent DEF Connected
<1>5. ASSUME NEW b \in Browsers, NEW s \in Sessions, Accept(b, s) PROVE Coherent'
  BY <1>5, AcceptCoherent
<1>6. ASSUME NEW b \in Browsers, Receive(b) PROVE Coherent'
  BY <1>6, ReceiveCoherent
<1>7. ASSUME NEW b \in Browsers, Logout(b) PROVE Coherent'
  <2>1. /\ UNCHANGED <<tables, lost, queue>>
        /\ session'[b] = NoSession
        /\ \A c \in Browsers : c # b => session'[c] = session[c] /\ view'[c] = view[c]
        /\ \A x \in Sessions : /\ link'[x] = "up" => link[x] = "up"
                               /\ x # session[b] => wire'[x] = wire[x]
    BY <1>0, <1>7 DEF Logout, Sever, pubsubVars
  <2>2. \A c \in Browsers : c # b /\ session[c] \in Sessions => session[c] # session[b]
    BY DistinctAssumption DEF SessionsOwned
  <2> QED
    BY <2>1, <2>2, DistinctAssumption, OtherCoherent DEF Connected
<1>8. ASSUME NEW b \in Browsers,
             Refuse(b) \/ NoticeClosed(b) \/ ConnectFails(b) \/ Retry(b)
               \/ Login(b) \/ Expire(b)
      PROVE  Coherent'
  <2>1. /\ UNCHANGED <<tables, lost, queue, wire, link, view>>
        /\ \A c \in Browsers : session'[c] \in {session[c], NoSession}
    BY <1>0, <1>8
    DEF Refuse, NoticeClosed, ConnectFails, Retry, Login, Expire, serverVars
  <2> QED
    BY <2>1, DistinctAssumption, OtherCoherent DEF Connected
<1>9. CASE UNCHANGED vars
  BY <1>9, OtherCoherent DEF vars, Connected
<1> QED
  BY <1>1, <1>2, <1>3, <1>4, <1>5, <1>6, <1>7, <1>8, <1>9, Sends DEF Next, Losing

-----------------------------------------------------------------------------
\* The inductive invariant holds in every reachable state.
LEMMA Invariance == Spec => []IInv
<1>1. Init => IInv
  BY InitTypes, InitOwned, InitSnapshotFirst, InitCoherent DEF IInv
<1>2. IInv /\ [Next]_vars => IInv'
  BY NextTypes, NextOwned, NextSnapshotFirst, NextCoherent DEF IInv
<1> QED
  BY <1>1, <1>2, PTL DEF Spec

\* No delta reaches a browser before the snapshot it applies to
\* (ws.py:38-46, store.ts:228-233).
THEOREM SnapshotComesFirst == Spec => []SnapshotFirst
<1>1. IInv => SnapshotFirst
  BY DEF IInv
<1> QED
  BY <1>1, Invariance, PTL

\* Whatever the number of browsers, sessions, tables and names, the size of
\* the queues and the interleaving: once the frames under way are applied, a
\* connected browser shows what the replica holds in every cell whose newest
\* delta was not dropped.
THEOREM FeedCoherent == Spec => []Coherent
<1>1. IInv => Coherent
  BY DEF IInv
<1> QED
  BY <1>1, Invariance, PTL
=============================================================================
