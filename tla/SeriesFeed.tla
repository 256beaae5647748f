----------------------------- MODULE SeriesFeed -----------------------------
(***************************************************************************)
(* The tables of ClusterState (backend/app/state.py) that accumulate: the  *)
(* event ring, the merged node metrics with their time series, and the     *)
(* healthchecks with their result rings; and the store of a browser        *)
(* (frontend/src/store.ts) that rebuilds them from deltas with rings of    *)
(* its own.  A delta replaces nothing here, so a dropped one is missed for *)
(* good in a ring, while the latest values must heal with the next delta.  *)
(*                                                                         *)
(* A measured value is abstracted to the time it was measured, 0 for a     *)
(* field never reported: a sample is the set of fields it carries.         *)
(* LiveFeed models the connection; here a browser has its snapshot when    *)
(* the subscription begins.                                                *)
(***************************************************************************)
EXTENDS PubSub, SequencesExt

CONSTANTS
  Nodes, Checks, Configs,
  MetricFields,    \* what metrics.py measures: cpu_pct, mem_pct, ...
  AgentFields,     \* what every node agent reports: temp_c, mem_pct, ...
  SmartFields,     \* what it reports only while it has SMART dumps
  HistoryFields,   \* NODE_HISTORY_FIELDS
  EventsLen, HistoryLen, CheckLen,   \* the rings' maxlen
  MaxClock,        \* bound: number of mutations
  NoCheck, NoView

ASSUME RingAssumption ==
  /\ {EventsLen, HistoryLen, CheckLen} \subseteq Nat \ {0, 1}
  /\ SmartFields \intersect (AgentFields \union MetricFields) = {}
  /\ MaxClock \in Nat

\* A deleted check is told from every entry.
ASSUME NoCheckAssumption ==
  NoCheck \notin [config : Configs, last : [t : Nat, ok : BOOLEAN], uptime : Nat \X Nat,
                  history : Seq([t : Nat, ok : BOOLEAN])]

VARIABLES
  state,   \* the replica: what snapshot() returns of these tables
  view,    \* each session's browser: its copy, NoView when disconnected
  clock,   \* time.time()
  stale,   \* history: keys whose newest delta was dropped
  missed   \* history: keys any delta of which was dropped

vars == <<subscribers, queue, state, view, clock, stale, missed>>

Fields == MetricFields \union AgentFields \union SmartFields
Unreported == [f \in Fields |-> 0]

NodeKey(n)  == <<"node", n>>
CheckKey(c) == <<"check", c>>
EventsKey   == <<"events">>

\* deque(maxlen=len).append
Ring(seq, len, x) == IF Len(seq) < len THEN Append(seq, x) ELSE Append(Tail(seq), x)

\* Mutant: slice(-len), one element too many before the new one.
SlideLong(seq, len, x) ==
  Append(SubSeq(seq, IF Len(seq) <= len THEN 1 ELSE Len(seq) - len + 1, Len(seq)), x)

\* [...seq.slice(-(len - 1)), x]
Slide(seq, len, x) ==
  Append(SubSeq(seq, IF Len(seq) < len THEN 1 ELSE Len(seq) - len + 2, Len(seq)), x)

Up(history) == Cardinality({i \in DOMAIN history : history[i].ok})

-----------------------------------------------------------------------------
(* applyDelta of store.ts                                                  *)

\* {...old, ...d}: a field the delta carries replaces the old one.
Merge(old, d) == [f \in Fields |-> IF d[f] # 0 THEN d[f] ELSE old[f]]

KeyOf(msg) ==
  CASE msg.type = "event"        -> EventsKey
    [] msg.type = "node_metrics" -> NodeKey(msg.node)
    [] OTHER                     -> CheckKey(msg.name)

Point(t, d) == [t |-> t, at |-> [f \in HistoryFields |-> d[f]]]

ApplyDelta(snap, msg) ==
  CASE msg.type = "event" ->
         [snap EXCEPT !.events = Slide(@, EventsLen, msg.data)]
    [] msg.type = "node_metrics" ->
         [snap EXCEPT
            !.node_metrics[msg.node] = Merge(@, msg.data),
            !.hardware[msg.node] = Merge(@, msg.data),
            !.node_history[msg.node] = Slide(@, HistoryLen, Point(msg.t, msg.data))]
    [] msg.type = "healthcheck" ->
         LET old == snap.healthchecks[msg.name]
             history == IF old = NoCheck THEN <<>> ELSE old.history
         IN [snap EXCEPT !.healthchecks[msg.name] =
               [config |-> msg.config, last |-> msg.result, uptime |-> msg.uptime,
                history |-> Slide(history, CheckLen, msg.result)]]
    [] msg.type = "healthcheck_deleted" ->
         [snap EXCEPT !.healthchecks[msg.name] = NoCheck]

-----------------------------------------------------------------------------
Init ==
  /\ PubSubInit
  /\ state = [events |-> <<>>,
              node_metrics |-> [n \in Nodes |-> Unreported],
              hardware     |-> [n \in Nodes |-> Unreported],
              node_history |-> [n \in Nodes |-> <<>>],
              healthchecks |-> [c \in Checks |-> NoCheck]]
  /\ view = [s \in Sessions |-> NoView]
  /\ clock = 0
  /\ stale = [s \in Sessions |-> {}]
  /\ missed = [s \in Sessions |-> {}]

\* publish(), with what the overflow of each queue costs its browser.
Dropped(s) == IF s \in subscribers /\ Len(queue[s]) = QueueMax
              THEN {KeyOf(Head(queue[s]))} ELSE {}

StillQueued(s) == {KeyOf(queue[s][i]) : i \in 2..Len(queue[s])}

PublishDelta(msg) ==
  /\ clock' = clock + 1
  /\ Publish(msg)
  /\ missed' = [s \in Sessions |-> missed[s] \union Dropped(s)]
  /\ stale' = [s \in Sessions |->
                 IF s \in subscribers
                 THEN (stale[s] \union (Dropped(s) \ StillQueued(s))) \ {KeyOf(msg)}
                 ELSE stale[s]]
  /\ UNCHANGED view

Now == clock + 1

AddEvent ==
  /\ state' = [state EXCEPT !.events = Ring(@, EventsLen, Now)]
  /\ PublishDelta([type |-> "event", data |-> Now])

Sampled(fields) == [f \in Fields |-> IF f \in fields THEN Now ELSE 0]

\* The metrics record and its ring after record_node_sample(n, sample); the
\* whole merged record is published, so one delta heals every field.
NodeSample(st, n, fields) ==
  LET merged == Merge(st.node_metrics[n], Sampled(fields))
  IN [st EXCEPT !.node_metrics[n] = merged,
                !.node_history[n] = Ring(@, HistoryLen, Point(Now, merged))]

\* Mutant: only the sample is published; the client merges anyway.
NodeMetricsOnlySample(n, fields) ==
  [type |-> "node_metrics", node |-> n, t |-> Now, data |-> Sampled(fields)]

NodeMetrics(n, fields) ==
  [type |-> "node_metrics", node |-> n, t |-> Now,
   data |-> Merge(state.node_metrics[n], Sampled(fields))]

RecordNodeSample(n) ==
  /\ state' = NodeSample(state, n, MetricFields)
  /\ PublishDelta(NodeMetrics(n, MetricFields))

\* Mutant: the sample forwarded to the series is cut to the chartable fields.
RecordHardwareWhitelisted(n, fields) ==
  /\ state' = NodeSample([state EXCEPT !.hardware[n] = Sampled(fields)],
                         n, fields \intersect HistoryFields)
  /\ PublishDelta(NodeMetrics(n, fields \intersect HistoryFields))

\* hardware is replaced, then the same sample is merged into the series.
RecordHardware(n, fields) ==
  /\ state' = NodeSample([state EXCEPT !.hardware[n] = Sampled(fields)], n, fields)
  /\ PublishDelta(NodeMetrics(n, fields))

\* Mutant: a ring without maxlen.
CheckedUnbounded(old, config, result) ==
  LET history == Append(IF old = NoCheck THEN <<>> ELSE old.history, result)
  IN [config |-> config, last |-> result, history |-> history,
      uptime |-> <<Up(history), Len(history)>>]

\* The entry record_check leaves: uptime_pct is that of the ring.
Checked(old, config, result) ==
  LET history == Ring(IF old = NoCheck THEN <<>> ELSE old.history, CheckLen, result)
  IN [config |-> config, last |-> result, history |-> history,
      uptime |-> <<Up(history), Len(history)>>]

RecordCheck(c, config, ok) ==
  LET entry == Checked(state.healthchecks[c], config, [t |-> Now, ok |-> ok])
  IN /\ state' = [state EXCEPT !.healthchecks[c] = entry]
     /\ PublishDelta([type |-> "healthcheck", name |-> c, config |-> config,
                      result |-> entry.last, uptime |-> entry.uptime])

RemoveCheck(c) ==
  /\ state.healthchecks[c] # NoCheck
  /\ state' = [state EXCEPT !.healthchecks[c] = NoCheck]
  /\ PublishDelta([type |-> "healthcheck_deleted", name |-> c])

Mutation ==
  /\ clock < MaxClock
  /\ \/ AddEvent
     \/ \E n \in Nodes : \/ RecordNodeSample(n)
                         \/ RecordHardware(n, AgentFields)
                         \/ RecordHardware(n, AgentFields \union SmartFields)
     \/ \E c \in Checks : \/ RemoveCheck(c)
                          \/ \E config \in Configs, ok \in BOOLEAN :
                               RecordCheck(c, config, ok)

-----------------------------------------------------------------------------
Connect(s) ==
  /\ Subscribe(s)
  /\ view' = [view EXCEPT ![s] = state]
  /\ stale' = [stale EXCEPT ![s] = {}]
  /\ missed' = [missed EXCEPT ![s] = {}]
  /\ UNCHANGED <<state, clock>>

Deliver(s) ==
  /\ Get(s)
  /\ view' = [view EXCEPT ![s] = ApplyDelta(@, Head(queue[s]))]
  /\ UNCHANGED <<state, clock, stale, missed>>

Disconnect(s) ==
  /\ s \in subscribers
  /\ Unsubscribe(s)
  /\ view' = [view EXCEPT ![s] = NoView]
  /\ stale' = [stale EXCEPT ![s] = {}]
  /\ missed' = [missed EXCEPT ![s] = {}]
  /\ UNCHANGED <<state, clock>>

Next == Mutation \/ \E s \in Sessions : Connect(s) \/ Deliver(s) \/ Disconnect(s)

Spec == Init /\ [][Next]_vars
-----------------------------------------------------------------------------
\* The rings never exceed their maxlen, at the replica (state.py:61, 127, 279)
\* or in a browser (store.ts:133, 160, 192).
RingsBounded(snap) ==
  /\ Len(snap.events) <= EventsLen
  /\ \A n \in Nodes : Len(snap.node_history[n]) <= HistoryLen
  /\ \A c \in Checks : snap.healthchecks[c] # NoCheck =>
       /\ Len(snap.healthchecks[c].history) <= CheckLen
       /\ snap.healthchecks[c].config \in Configs

TypeOK ==
  /\ subscribers \subseteq Sessions
  /\ \A s \in Sessions : Len(queue[s]) <= QueueMax
  /\ \A s \in Sessions : stale[s] \subseteq missed[s]
  /\ RingsBounded(state)
  /\ \A s \in Sessions : s \in subscribers => RingsBounded(view[s])

\* What browser s shows once it has received everything queued for it.
Settled(s) ==
  LET shown[i \in 0..Len(queue[s])] ==
        IF i = 0 THEN view[s] ELSE ApplyDelta(shown[i - 1], queue[s][i])
  IN shown[Len(queue[s])]

\* Without a drop the browser's rings are the replica's: same points, same
\* order, same truncation, whatever the moment of the snapshot.  The slice
\* lengths of store.ts are kept in step with state.py by hand
\* (store.ts:137-143), and a restarted check begins an empty ring on both
\* sides.
HistoryReplayed ==
  \A s \in subscribers :
    /\ EventsKey \notin missed[s] => Settled(s).events = state.events
    /\ \A n \in Nodes : NodeKey(n) \notin missed[s] =>
         Settled(s).node_history[n] = state.node_history[n]
    /\ \A c \in Checks : CheckKey(c) \notin missed[s] =>
         Settled(s).healthchecks[c] = state.healthchecks[c]

\* However many deltas of a key were dropped, its newest one restores the
\* latest values: every merged metric, the newest history point, and a check's
\* config, last result and uptime (state.py:222-225 publishes the merged record,
\* state.py:288-294 the config and the uptime each time).
LatestHeals ==
  \A s \in subscribers :
    /\ \A n \in Nodes : NodeKey(n) \notin stale[s] =>
         /\ Settled(s).node_metrics[n] = state.node_metrics[n]
         /\ state.node_history[n] # <<>> =>
              Last(Settled(s).node_history[n]) = Last(state.node_history[n])
    /\ \A c \in Checks : CheckKey(c) \notin stale[s] =>
         LET mine == Settled(s).healthchecks[c]
             theirs == state.healthchecks[c]
         IN IF theirs = NoCheck THEN mine = NoCheck
            ELSE /\ mine # NoCheck
                 /\ mine.config = theirs.config
                 /\ mine.last = theirs.last
                 /\ mine.uptime = theirs.uptime

\* A connected browser's hardware view, which has no delta of its own, keeps
\* up with every field the agent reports, chartable or not (state.py:234-238);
\* the fields metrics.py measures too show whichever came last.
HardwareFollows ==
  \A s \in subscribers, n \in Nodes : NodeKey(n) \notin stale[s] =>
    \A f \in Fields \ MetricFields :
      state.hardware[n][f] # 0 =>
        Settled(s).hardware[n][f] = state.hardware[n][f]

\* What the manifest of the node agent promises: without dumps the agent
\* reports no SMART fields, so that stale data cannot outlive a pulled drive
\* (deploy/daemonset-node-agent.yaml:95-97).  The merge in record_node_sample
\* keeps the fields and hands them to every browser's hardware view.
SmartForgotten ==
  \A s \in subscribers, n \in Nodes : queue[s] = <<>> =>
    \A f \in SmartFields :
      state.hardware[n][f] = 0 => view[s].hardware[n][f] = 0
=============================================================================
