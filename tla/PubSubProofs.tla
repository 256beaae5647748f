---------------------------- MODULE PubSubProofs ----------------------------
(***************************************************************************)
(* The bounded drop-oldest queues implement the broadcast log, for every   *)
(* number of sessions, queue bound and set of payloads.                    *)
(***************************************************************************)
EXTENDS PubSubLog, TLAPS

\* Putting a message at the end, and taking one from the front.
LEMMA AppendFacts ==
  ASSUME NEW S, NEW q \in Seq(S), NEW m \in S
  PROVE  /\ Append(q, m) \in Seq(S)
         /\ Len(Append(q, m)) = Len(q) + 1
         /\ Append(q, m)[Len(q) + 1] = m
         /\ \A i \in 1..Len(q) : Append(q, m)[i] = q[i]
OBVIOUS

LEMMA TailFacts ==
  ASSUME NEW S, NEW q \in Seq(S), q # <<>>
  PROVE  /\ Head(q) = q[1]
         /\ Tail(q) \in Seq(S)
         /\ Len(q) \in Nat \ {0}
         /\ Len(Tail(q)) = Len(q) - 1
         /\ \A i \in 1..Len(Tail(q)) : Tail(q)[i] = q[i + 1]
OBVIOUS

\* A queue that is a window of the log is, after publish(), a window of the
\* longer log: longer by one, or moved on by one when it was full.
LEMMA PutWindow ==
  ASSUME NEW q \in Seq(Payload), NEW p \in Payload, log \in Seq(Payload),
         Len(q) <= QueueMax, Len(q) <= Len(log),
         \A i \in 1..Len(q) : q[i] = log[Len(log) - Len(q) + i]
  PROVE  LET r == Put(q, p)
             l == Append(log, p)
         IN /\ r \in Seq(Payload)
            /\ Len(r) = IF Len(q) < QueueMax THEN Len(q) + 1 ELSE Len(q)
            /\ Len(r) <= QueueMax /\ Len(r) <= Len(l)
            /\ \A i \in 1..Len(r) : r[i] = l[Len(l) - Len(r) + i]
<1> DEFINE l == Append(log, p)
<1>1. /\ Len(l) = Len(log) + 1 /\ l[Len(log) + 1] = p
      /\ \A i \in 1..Len(log) : l[i] = log[i]
      /\ Len(q) \in Nat /\ Len(log) \in Nat
  BY AppendFacts
<1> HIDE DEF l
<1>2. CASE Len(q) < QueueMax
  <2> DEFINE r == Append(q, p)
  <2>1. /\ r \in Seq(Payload) /\ Len(r) = Len(q) + 1 /\ r[Len(q) + 1] = p
        /\ \A i \in 1..Len(q) : r[i] = q[i]
    BY AppendFacts
  <2> HIDE DEF r
  <2>2. ASSUME NEW i \in 1..Len(r) PROVE r[i] = l[Len(l) - Len(r) + i]
    <3>1. CASE i = Len(q) + 1
      <4>1. Len(l) - Len(r) + i = Len(log) + 1
        BY <1>1, <2>1, <3>1
      <4> QED
        BY <1>1, <2>1, <3>1, <4>1
    <3>2. CASE i \in 1..Len(q)
      <4>1. Len(l) - Len(r) + i = Len(log) - Len(q) + i
        BY <1>1, <2>1
      <4>2. Len(log) - Len(q) + i \in 1..Len(log)
        BY <1>1, <3>2
      <4> QED
        BY <1>1, <2>1, <3>2, <4>1, <4>2
    <3> QED
      BY <1>1, <2>1, <3>1, <3>2
  <2>3. Put(q, p) = r
    BY <1>2 DEF Put, r
  <2>4. Len(r) <= QueueMax /\ Len(r) <= Len(l)
    BY <1>1, <1>2, <2>1, QueueMaxAssumption
  <2> QED
    BY <1>2, <2>1, <2>2, <2>3, <2>4 DEF l
<1>3. CASE Len(q) = QueueMax
  <2> DEFINE u == Tail(q)
             r == Append(u, p)
  <2>1. q # <<>>
    BY <1>3, QueueMaxAssumption
  <2>2. /\ u \in Seq(Payload) /\ Len(u) = Len(q) - 1 /\ Len(u) \in Nat
        /\ \A i \in 1..Len(u) : u[i] = q[i + 1]
    BY <2>1, TailFacts
  <2> HIDE DEF u
  <2>3. /\ r \in Seq(Payload) /\ Len(r) = Len(u) + 1 /\ r[Len(u) + 1] = p
        /\ \A i \in 1..Len(u) : r[i] = u[i]
    BY <2>2, AppendFacts
  <2> HIDE DEF r
  <2>4. ASSUME NEW i \in 1..Len(r) PROVE r[i] = l[Len(l) - Len(r) + i]
    <3>1. CASE i = Len(u) + 1
      <4>1. Len(l) - Len(r) + i = Len(log) + 1
        BY <1>1, <2>2, <2>3, <3>1
      <4> QED
        BY <1>1, <2>3, <3>1, <4>1
    <3>2. CASE i \in 1..Len(u)
      <4>1. Len(l) - Len(r) + i = Len(log) - Len(q) + (i + 1)
        BY <1>1, <2>2, <2>3
      <4>2. /\ Len(log) - Len(q) + (i + 1) \in 1..Len(log)
            /\ i + 1 \in 1..Len(q)
        BY <1>1, <2>2, <3>2
      <4>3. r[i] = q[i + 1]
        BY <2>2, <2>3, <3>2
      <4> QED
        BY <1>1, <4>1, <4>2, <4>3
    <3> QED
      BY <2>2, <2>3, <3>1, <3>2
  <2>5. Put(q, p) = r
    BY <1>3 DEF Put, r, u
  <2>6. Len(r) = Len(q) /\ Len(r) <= QueueMax /\ Len(r) <= Len(l)
    BY <1>1, <1>3, <2>2, <2>3, QueueMaxAssumption
  <2>7. \A i \in 1..Len(r) : r[i] = l[Len(l) - Len(r) + i]
    BY <2>4
  <2>8. ~ (Len(q) < QueueMax)
    BY <1>3, QueueMaxAssumption
  <2> QED
    BY <2>3, <2>5, <2>6, <2>7, <2>8 DEF l
<1>4. Len(q) < QueueMax \/ Len(q) = QueueMax
  BY <1>1, QueueMaxAssumption
<1> QED
  BY <1>2, <1>3, <1>4

\* Taking the oldest message leaves a window of the same log.
LEMMA TailWindow ==
  ASSUME NEW q \in Seq(Payload), q # <<>>, log \in Seq(Payload),
         Len(q) <= QueueMax, Len(q) <= Len(log),
         \A i \in 1..Len(q) : q[i] = log[Len(log) - Len(q) + i]
  PROVE  LET r == Tail(q)
         IN /\ r \in Seq(Payload)
            /\ Len(r) = Len(q) - 1
            /\ Len(r) <= QueueMax /\ Len(r) <= Len(log)
            /\ \A i \in 1..Len(r) : r[i] = log[Len(log) - Len(r) + i]
            /\ Head(q) = log[Len(log) + 1 - Len(q)]
<1> DEFINE r == Tail(q)
<1>1. /\ r \in Seq(Payload) /\ Len(q) \in Nat \ {0} /\ Len(r) = Len(q) - 1
      /\ Head(q) = q[1]
      /\ \A i \in 1..Len(r) : r[i] = q[i + 1]
  BY TailFacts
<1> HIDE DEF r
<1>2. ASSUME NEW i \in 1..Len(r) PROVE r[i] = log[Len(log) - Len(r) + i]
  BY <1>1
<1>3. Head(q) = log[Len(log) + 1 - Len(q)]
  BY <1>1
<1> QED
  BY <1>1, <1>2, <1>3, QueueMaxAssumption DEF r

-----------------------------------------------------------------------------
LEMMA InitWindows == Init => IInv
<1>1. <<>> \in Seq(Payload) /\ Len(<<>>) = 0
  OBVIOUS
<1> QED
  BY <1>1, QueueMaxAssumption DEF Init, PubSubInit, IInv, PubSubTypeOK, Windows

\* How each action changes the queues, given windows before it.
LEMMA BroadcastStep ==
  ASSUME IInv, NEW p \in Payload, Broadcast(p)
  PROVE  /\ IInv'
         /\ \A s \in Sessions :
              Len(queue'[s]) = IF s \in subscribers /\ Len(queue[s]) < QueueMax
                               THEN Len(queue[s]) + 1 ELSE Len(queue[s])
<1>1. /\ queue' = [s \in Sessions |->
                     IF s \in subscribers THEN Put(queue[s], p) ELSE queue[s]]
      /\ log' = Append(log, p) /\ subscribers' = subscribers
  BY DEF Broadcast, Publish
<1>2. log' \in Seq(Payload) /\ Len(log') = Len(log) + 1 /\ Len(log) \in Nat
  BY <1>1, AppendFacts DEF IInv
<1>3. ASSUME NEW s \in Sessions
      PROVE  /\ queue'[s] \in Seq(Payload)
             /\ Len(queue'[s]) <= QueueMax /\ Len(queue'[s]) <= Len(log')
             /\ \A i \in 1..Len(queue'[s]) :
                  queue'[s][i] = log'[Len(log') - Len(queue'[s]) + i]
             /\ Len(queue'[s]) = IF s \in subscribers /\ Len(queue[s]) < QueueMax
                                 THEN Len(queue[s]) + 1 ELSE Len(queue[s])
             /\ s \notin subscribers => queue'[s] = <<>>
  <2>1. /\ queue[s] \in Seq(Payload) /\ log \in Seq(Payload)
        /\ Len(queue[s]) <= QueueMax /\ Len(queue[s]) <= Len(log)
        /\ \A i \in 1..Len(queue[s]) : queue[s][i] = log[Len(log) - Len(queue[s]) + i]
    BY DEF IInv, PubSubTypeOK, Windows
  <2>2. CASE s \in subscribers
    <3>1. queue'[s] = Put(queue[s], p)
      BY <1>1, <2>2
    <3> QED
      BY <1>1, <2>1, <2>2, <3>1, PutWindow
  <2>3. CASE s \notin subscribers
    <3>1. queue'[s] = <<>> /\ queue[s] = <<>>
      BY <1>1, <2>3 DEF IInv
    <3> QED
      BY <1>2, <2>3, <3>1, QueueMaxAssumption
  <2> QED
    BY <2>2, <2>3
<1>4. queue' \in [Sessions -> Seq(Payload)]
  BY <1>1, <1>3
<1> QED
  BY <1>1, <1>2, <1>3, <1>4 DEF IInv, PubSubTypeOK, Windows

LEMMA TakeStep ==
  ASSUME IInv, NEW s \in Sessions, Take(s)
  PROVE  /\ IInv'
         /\ s \in subscribers
         /\ Len(queue[s]) \in Nat \ {0}
         /\ Head(queue[s]) = log[Len(log) + 1 - Len(queue[s])]
         /\ Len(queue'[s]) = Len(queue[s]) - 1
         /\ \A x \in Sessions : x # s => queue'[x] = queue[x]
<1>1. /\ queue[s] # <<>> /\ s \in subscribers
      /\ queue' = [queue EXCEPT ![s] = Tail(queue[s])]
      /\ UNCHANGED <<subscribers, log>>
  BY DEF Take, Get, IInv
<1>2. /\ queue \in [Sessions -> Seq(Payload)] /\ log \in Seq(Payload)
      /\ Len(queue[s]) <= QueueMax /\ Len(queue[s]) <= Len(log)
      /\ \A i \in 1..Len(queue[s]) : queue[s][i] = log[Len(log) - Len(queue[s]) + i]
  BY DEF IInv, PubSubTypeOK, Windows
<1>3. /\ Tail(queue[s]) \in Seq(Payload)
      /\ Len(Tail(queue[s])) = Len(queue[s]) - 1
      /\ Len(Tail(queue[s])) <= QueueMax /\ Len(Tail(queue[s])) <= Len(log)
      /\ \A i \in 1..Len(Tail(queue[s])) :
           Tail(queue[s])[i] = log[Len(log) - Len(Tail(queue[s])) + i]
      /\ Head(queue[s]) = log[Len(log) + 1 - Len(queue[s])]
  BY <1>1, <1>2, TailWindow
<1>4. Len(queue[s]) \in Nat \ {0}
  BY <1>1, <1>2, TailFacts
<1>5. IInv'
  BY <1>1, <1>2, <1>3 DEF IInv, PubSubTypeOK, Windows
<1> QED
  BY <1>1, <1>2, <1>3, <1>4, <1>5

LEMMA MembershipStep ==
  ASSUME IInv, NEW s \in Sessions, Join(s) \/ Leave(s)
  PROVE  IInv' /\ queue' = [queue EXCEPT ![s] = <<>>]
<1>1. /\ queue' = [queue EXCEPT ![s] = <<>>]
      /\ log' = log
      /\ subscribers' \subseteq Sessions
      /\ \A x \in Sessions \ subscribers' : x = s \/ x \notin subscribers
  BY DEF Join, Leave, Subscribe, Unsubscribe, IInv, PubSubTypeOK
<1>2. /\ queue \in [Sessions -> Seq(Payload)] /\ Len(log) \in Nat
  BY DEF IInv, PubSubTypeOK
<1>3. ASSUME NEW x \in Sessions
      PROVE  /\ queue'[x] \in Seq(Payload)
             /\ Len(queue'[x]) <= QueueMax /\ Len(queue'[x]) <= Len(log)
             /\ \A i \in 1..Len(queue'[x]) :
                  queue'[x][i] = log[Len(log) - Len(queue'[x]) + i]
  <2>1. CASE x = s
    <3>1. queue'[x] = <<>> /\ <<>> \in Seq(Payload) /\ Len(<<>>) = 0
      BY <1>1, <1>2, <2>1
    <3>2. Len(queue'[x]) = 0
      BY <3>1
    <3> QED
      BY <1>2, <3>1, <3>2, QueueMaxAssumption
  <2>2. CASE x # s
    <3>1. queue'[x] = queue[x]
      BY <1>1, <1>2, <2>2
    <3> QED
      BY <1>2, <3>1 DEF IInv, PubSubTypeOK, Windows
  <2> QED
    BY <2>1, <2>2
<1>4. queue' \in [Sessions -> Seq(Payload)]
  BY <1>1, <1>2
<1>5. \A x \in Sessions \ subscribers' : queue'[x] = <<>>
  BY <1>1, <1>2 DEF IInv
<1>6. log' \in Seq(Payload)
  BY <1>1 DEF IInv
<1> QED
  BY <1>1, <1>3, <1>4, <1>5, <1>6 DEF IInv, PubSubTypeOK, Windows

LEMMA NextWindows == IInv /\ [Next]_vars => IInv'
<1> SUFFICES ASSUME IInv, [Next]_vars PROVE IInv'
  OBVIOUS
<1>1. ASSUME NEW p \in Payload, Broadcast(p) PROVE IInv'
  BY <1>1, BroadcastStep
<1>2. ASSUME NEW s \in Sessions, Join(s) \/ Leave(s) PROVE IInv'
  BY <1>2, MembershipStep
<1>3. ASSUME NEW s \in Sessions, Take(s) PROVE IInv'
  BY <1>3, TakeStep
<1>4. CASE UNCHANGED vars
  BY <1>4 DEF IInv, PubSubTypeOK, Windows, vars
<1> QED
  BY <1>1, <1>2, <1>3, <1>4 DEF Next

\* Each queue holds the newest part of the published stream, without gaps
\* (state.py:109-121).
THEOREM QueuesAreWindows == Spec => []IInv
  BY InitWindows, NextWindows, PTL DEF Spec

-----------------------------------------------------------------------------
(* The refinement                                                          *)

LEMMA InitRefines == Init => Stream!Init
<1>1. Len(<<>>) = 0
  OBVIOUS
<1> QED
  BY <1>1 DEF Init, PubSubInit, Stream!Init

LEMMA NextRefines == IInv /\ [Next]_vars => [Stream!Next]_(Stream!vars)
<1> SUFFICES ASSUME IInv, [Next]_vars PROVE [Stream!Next]_(Stream!vars)
  OBVIOUS
<1>0. /\ Len(log) \in Nat /\ \A s \in Sessions : Len(queue[s]) \in Nat
      /\ \A s \in Sessions : Len(queue[s]) <= QueueMax
      /\ log \in Seq(Payload) /\ queue \in [Sessions -> Seq(Payload)]
  BY DEF IInv, PubSubTypeOK
<1>1. ASSUME NEW p \in Payload, Broadcast(p) PROVE Stream!Record(p)
  <2>1. Len(log') = Len(log) + 1 /\ log' = Append(log, p)
    BY <1>0, <1>1, AppendFacts DEF Broadcast
  <2>2. ASSUME NEW s \in Sessions
        PROVE  Len(log') + 1 - Len(queue'[s]) =
                 IF s \in subscribers /\ Stream!Lag(s) < QueueMax
                 THEN Len(log) + 1 - Len(queue[s])
                 ELSE (Len(log) + 1 - Len(queue[s])) + 1
    <3>1. Stream!Lag(s) = Len(queue[s])
      BY <1>0 DEF Stream!Lag
    <3>2. Len(queue'[s]) = IF s \in subscribers /\ Len(queue[s]) < QueueMax
                           THEN Len(queue[s]) + 1 ELSE Len(queue[s])
      BY <1>1, BroadcastStep
    <3>3. Len(log') = Len(log) + 1
      BY <2>1
    <3> QED
      BY <1>0, <3>1, <3>2, <3>3
  <2>3. UNCHANGED <<subscribers, last>>
    BY <1>1 DEF Broadcast, Publish
  <2> QED
    BY <2>1, <2>2, <2>3 DEF Stream!Record
<1>2. ASSUME NEW s \in Sessions, Join(s) PROVE Stream!Join(s)
  <2>1. queue' = [queue EXCEPT ![s] = <<>>] /\ Len(<<>>) = 0
    BY <1>2, MembershipStep
  <2>2. UNCHANGED <<log, last>> /\ s \notin subscribers
        /\ subscribers' = subscribers \union {s}
    BY <1>2 DEF Join, Subscribe
  <2>3. \A x \in Sessions :
          Len(log') + 1 - Len(queue'[x]) =
            IF x = s THEN Len(log) + 1 ELSE Len(log) + 1 - Len(queue[x])
    BY <1>0, <2>1, <2>2
  <2> QED
    BY <2>2, <2>3 DEF Stream!Join
<1>3. ASSUME NEW s \in Sessions, Leave(s) PROVE Stream!Leave(s)
  <2>1. queue' = [queue EXCEPT ![s] = <<>>] /\ Len(<<>>) = 0
    BY <1>3, MembershipStep
  <2>2. UNCHANGED <<log, last>> /\ subscribers' = subscribers \ {s}
    BY <1>3 DEF Leave, Unsubscribe
  <2>3. \A x \in Sessions :
          Len(log') + 1 - Len(queue'[x]) =
            IF x = s THEN Len(log) + 1 ELSE Len(log) + 1 - Len(queue[x])
    BY <1>0, <2>1, <2>2
  <2> QED
    BY <2>2, <2>3 DEF Stream!Leave
<1>4. ASSUME NEW s \in Sessions, Take(s) PROVE Stream!Read(s)
  <2>1. /\ s \in subscribers /\ Len(queue[s]) \in Nat \ {0}
        /\ Head(queue[s]) = log[Len(log) + 1 - Len(queue[s])]
        /\ Len(queue'[s]) = Len(queue[s]) - 1
        /\ \A x \in Sessions : x # s => queue'[x] = queue[x]
    BY <1>4, TakeStep
  <2>2. UNCHANGED <<log, subscribers>> /\ last' = <<s, Head(queue[s])>>
    BY <1>4 DEF Take, Get
  <2>3. Stream!Lag(s) > 0
    BY <1>0, <2>1 DEF Stream!Lag
  <2>4. \A x \in Sessions :
          Len(log') + 1 - Len(queue'[x]) =
            IF x = s THEN (Len(log) + 1 - Len(queue[x])) + 1
            ELSE Len(log) + 1 - Len(queue[x])
    <3>1. ASSUME NEW x \in Sessions
          PROVE  Len(log') + 1 - Len(queue'[x]) =
                   IF x = s THEN (Len(log) + 1 - Len(queue[x])) + 1
                   ELSE Len(log) + 1 - Len(queue[x])
      <4>1. CASE x = s
        <5>1. /\ Len(log) + 1 - (Len(queue[s]) - 1) =
                   (Len(log) + 1 - Len(queue[s])) + 1
              /\ log' = log
          BY <1>0, <2>2
        <5> QED
          BY <2>1, <4>1, <5>1
      <4>2. CASE x # s
        BY <2>1, <2>2, <4>2
      <4> QED
        BY <4>1, <4>2
    <3> QED
      BY <3>1
  <2> QED
    BY <2>1, <2>2, <2>3, <2>4 DEF Stream!Read
<1>5. CASE UNCHANGED vars
  BY <1>5 DEF vars, Stream!vars
<1> QED
  BY <1>1, <1>2, <1>3, <1>4, <1>5 DEF Next, Stream!Next

\* publish() over asyncio queues of any positive size keeps the promise of
\* the broadcast log: in order, no gap but the oldest entries of a reader that
\* is a full queue behind (state.py:101-121).
THEOREM PubSubImplementsLog == Spec => ImplementsBroadcastLog
<1>1. Init => Stream!Init
  BY InitRefines
<1>2. IInv /\ [Next]_vars => [Stream!Next]_(Stream!vars)
  BY NextRefines
<1> QED
  BY <1>1, <1>2, QueuesAreWindows, PTL
  DEF Spec, Stream!Spec, ImplementsBroadcastLog
=============================================================================
