------------------------------ MODULE LiveFeed ------------------------------
(***************************************************************************)
(* The live feed of one replica, end to end: the keyed tables of           *)
(* ClusterState (backend/app/state.py), the ws_state handler that sends a  *)
(* snapshot and then the queued deltas (backend/app/ws.py), and the        *)
(* browser's store that applies them (frontend/src/store.ts).              *)
(*                                                                         *)
(* Every mutation of the tables and every step of a ws_state call between  *)
(* two awaits is one action: the backend is a single asyncio event loop.   *)
(*                                                                         *)
(* A table is a function from names to slim objects, None where the Python *)
(* dict has no such key.  Tables appended to or merged (events, samples,   *)
(* healthchecks) are SeriesFeed's.                                         *)
(***************************************************************************)
EXTENDS PubSub

CONSTANTS
  Browsers,        \* open dashboards
  WatchedTables,   \* nodes, pods, deployments, ...: filled by k8s_watch
  PolledTables,    \* pvcs, gateways, flux_*, ...: replaced on every poll
  Names,           \* object names, "ns/name" keys
  Objects,         \* the mapped objects and samples
  WireMax          \* bound: frames between a session and its browser

CONSTANTS None, NoSession, NoView

Tables == WatchedTables \union {"pod_metrics"} \union PolledTables

ASSUME TablesAssumption ==
  /\ "pods" \in WatchedTables
  /\ "pod_metrics" \notin WatchedTables \union PolledTables
  /\ WatchedTables \intersect PolledTables = {}

ASSUME DistinctAssumption ==
  NoSession \notin Sessions /\ NoView \notin [Tables -> [Names -> Objects \union {None}]]

ASSUME WireMaxAssumption == WireMax \in Nat \ {0}

VARIABLES
  tables,   \* the replica's dicts
  wire,     \* frames sent on each session's socket, not yet received
  link,     \* of each session: "none" (no handler), "up", or the browser is gone
            \* and the handler does not know it yet, see Links
  session,  \* the socket a browser holds
  status,   \* ConnStatus of useClusterStore
  view,     \* the browser's snapshot, NoView (null) before the first one
  token,    \* the stored token: "none", or whether it would verify
  lost      \* history: cells whose newest delta was dropped on overflow

\* "gone": nothing has been sent since; "unacked": something has, and nobody
\* acknowledges it; "dead": the socket has been told, the next send raises.
Links == {"none", "up", "gone", "unacked", "dead"}

serverVars  == <<tables, subscribers, queue, wire, link, lost>>
browserVars == <<session, status, view, token>>
vars == <<tables, subscribers, queue, wire, link, session, status, view,
          token, lost>>

Cells == Tables \X Names
Row == [Names -> Objects \union {None}]
Snapshots == [Tables -> Row]

-----------------------------------------------------------------------------
(* Messages                                                                *)

FullState(snap) == [type |-> "full_state", data |-> snap]
Ping == [type |-> "ping"]
Upserted(t, n, o) == [type |-> "upsert", table |-> t, name |-> n, data |-> o]
Deleted(t, n)     == [type |-> "deleted", table |-> t, name |-> n]
Replaced(t, row)  == [type |-> "replace", table |-> t, data |-> row]

Deltas ==
  [type : {"upsert"}, table : WatchedTables \union {"pod_metrics"},
   name : Names, data : Objects]
    \union [type : {"deleted"}, table : WatchedTables, name : Names]
    \union [type : {"replace"}, table : PolledTables, data : Row]

Frames == Deltas \union {Ping} \union [type : {"full_state"}, data : Snapshots]

\* Mutant: pod_deleted keeps the metrics the server dropped with the pod.
ApplyDeltaKeepsMetrics(snap, msg) ==
  CASE msg.type = "upsert"  -> [snap EXCEPT ![msg.table][msg.name] = msg.data]
    [] msg.type = "deleted" -> [snap EXCEPT ![msg.table][msg.name] = None]
    [] msg.type = "replace" -> [snap EXCEPT ![msg.table] = msg.data]

\* applyDelta of store.ts: the browser's half of the protocol.
ApplyDelta(snap, msg) ==
  CASE msg.type = "upsert" -> [snap EXCEPT ![msg.table][msg.name] = msg.data]
    [] msg.type = "deleted" /\ msg.table = "pods" ->
         [snap EXCEPT !["pods"][msg.name] = None,
                      !["pod_metrics"][msg.name] = None]
    [] msg.type = "deleted" /\ msg.table # "pods" ->
         [snap EXCEPT ![msg.table][msg.name] = None]
    [] msg.type = "replace" -> [snap EXCEPT ![msg.table] = msg.data]

\* Whether a frame settles the content of cell <<t, n>>, and what it says.
Touches(msg, t, n) ==
  \/ msg.type = "full_state"
  \/ msg.type = "replace" /\ msg.table = t
  \/ msg.type = "upsert" /\ msg.table = t /\ msg.name = n
  \/ msg.type = "deleted" /\ msg.name = n
       /\ (msg.table = t \/ (msg.table = "pods" /\ t = "pod_metrics"))

Carried(msg, t, n) ==
  CASE msg.type = "full_state" -> msg.data[t][n]
    [] msg.type = "replace"    -> msg.data[n]
    [] msg.type = "upsert"     -> msg.data
    [] OTHER                   -> None

Silent(q, t, n) == \A i \in 1..Len(q) : ~ Touches(q[i], t, n)

\* The last frame of q about the cell says v.
Settles(q, t, n, v) ==
  \E i \in 1..Len(q) :
    /\ Touches(q[i], t, n)
    /\ Carried(q[i], t, n) = v
    /\ \A j \in (i + 1)..Len(q) : ~ Touches(q[j], t, n)

-----------------------------------------------------------------------------
TypeOK ==
  /\ PubSubTypeOK(Deltas)
  /\ tables \in Snapshots
  /\ wire \in [Sessions -> Seq(Frames)]
  /\ link \in [Sessions -> Links]
  /\ session \in [Browsers -> Sessions \union {NoSession}]
  /\ status \in [Browsers -> {"connecting", "open", "closed", "unauthorized"}]
  /\ view \in [Browsers -> Snapshots \union {NoView}]
  /\ token \in [Browsers -> {"none", "valid", "expired"}]
  /\ lost \in [Sessions -> SUBSET Cells]

Init ==
  /\ PubSubInit
  /\ tables = [t \in Tables |-> [n \in Names |-> None]]
  /\ wire = [s \in Sessions |-> <<>>]
  /\ link = [s \in Sessions |-> "none"]
  /\ session = [b \in Browsers |-> NoSession]
  /\ status = [b \in Browsers |-> "connecting"]
  /\ view = [b \in Browsers |-> NoView]
  /\ token \in [Browsers -> {"none", "valid", "expired"}]
  /\ lost = [s \in Sessions |-> {}]

-----------------------------------------------------------------------------
(* ClusterState: each mutation changes a dict and publishes its delta.     *)

\* The cells that only the oldest queued message still speaks for: the ones
\* the browser is not told about when that message is dropped.
Overwritten(q) ==
  IF Len(q) < QueueMax THEN {}
  ELSE {c \in Cells : Touches(Head(q), c[1], c[2]) /\ Silent(Tail(q), c[1], c[2])}

PublishDelta(msg) ==
  /\ Publish(msg)
  /\ lost' = [s \in Sessions |->
                IF s \in subscribers
                THEN {c \in lost[s] \union Overwritten(queue[s]) :
                        ~ Touches(msg, c[1], c[2])}
                ELSE lost[s]]
  /\ UNCHANGED <<wire, link, browserVars>>

\* upsert_node, upsert_pod, upsert_deployment, ...
Upsert(t, n, o) ==
  /\ tables' = [tables EXCEPT ![t][n] = o]
  /\ PublishDelta(Upserted(t, n, o))

\* remove_node, remove_pod, ...: published even when there was no such key.
Remove(t, n) ==
  /\ tables' = IF t = "pods"
               THEN [tables EXCEPT !["pods"][n] = None,
                                   !["pod_metrics"][n] = None]
               ELSE [tables EXCEPT ![t][n] = None]
  /\ PublishDelta(Deleted(t, n))

\* The metrics poller does not ask whether the pod still exists.
RecordPodSample(n, o) ==
  /\ tables' = [tables EXCEPT !["pod_metrics"][n] = o]
  /\ PublishDelta(Upserted("pod_metrics", n, o))

\* set_pvcs, set_gateways, set_flux_*, ...
ReplaceTable(t, row) ==
  /\ tables' = [tables EXCEPT ![t] = row]
  /\ PublishDelta(Replaced(t, row))

Mutation ==
  \/ \E t \in WatchedTables, n \in Names :
       Remove(t, n) \/ \E o \in Objects : Upsert(t, n, o)
  \/ \E n \in Names, o \in Objects : RecordPodSample(n, o)
  \/ \E t \in PolledTables, row \in Row : ReplaceTable(t, row)

-----------------------------------------------------------------------------
(* ws_state                                                                *)

\* A session whose handler has returned and whose socket nobody holds.
Unused(s) == link[s] = "none" /\ \A b \in Browsers : session[b] # s

\* Mutant: a reconnecting browser is expected to go on from what it has.
AcceptWithoutSnapshot(b, s) ==
  /\ status[b] = "connecting"
  /\ Unused(s)
  /\ token[b] = "valid"
  /\ Subscribe(s)
  /\ link' = [link EXCEPT ![s] = "up"]
  /\ session' = [session EXCEPT ![b] = s]
  /\ status' = [status EXCEPT ![b] = "open"]
  /\ lost' = [lost EXCEPT ![s] = {}]
  /\ UNCHANGED <<tables, wire, view, token>>

\* A verified handshake: subscribe, and the snapshot is serialised before the
\* handler first yields, so no delta falls between the two.
Accept(b, s) ==
  /\ status[b] = "connecting"
  /\ Unused(s)
  /\ token[b] = "valid"
  /\ Subscribe(s)
  /\ wire' = [wire EXCEPT ![s] = <<FullState(tables)>>]
  /\ link' = [link EXCEPT ![s] = "up"]
  /\ session' = [session EXCEPT ![b] = s]
  /\ status' = [status EXCEPT ![b] = "open"]
  /\ lost' = [lost EXCEPT ![s] = {}]
  /\ UNCHANGED <<tables, view, token>>

\* A bad token is accepted and closed with 4401: the browser stops retrying,
\* forgets the token and shows the login form.
Refuse(b) ==
  /\ status[b] = "connecting"
  /\ token[b] # "valid"
  /\ status' = [status EXCEPT ![b] = "unauthorized"]
  /\ token' = [token EXCEPT ![b] = "none"]
  /\ UNCHANGED <<serverVars, session, view>>

\* What send_text comes to.  The frame is on its way, once the transport has
\* room for it.
Delivers(s, frame) ==
  /\ link[s] = "up"
  /\ Len(wire[s]) < WireMax
  /\ wire' = [wire EXCEPT ![s] = Append(@, frame)]
  /\ UNCHANGED link

\* The browser is gone: the transport takes the frame, nobody acknowledges it.
Swallows(s) ==
  /\ link[s] \in {"gone", "unacked"}
  /\ link' = [link EXCEPT ![s] = "unacked"]
  /\ UNCHANGED wire

\* The socket is dead: the send raises, the handler's `finally` unsubscribes.
Raises(s) ==
  /\ link[s] = "dead"
  /\ Unsubscribe(s)
  /\ link' = [link EXCEPT ![s] = "none"]
  /\ UNCHANGED wire

\* await q.get(), await send_text(delta)
SendDelta(s) ==
  /\ queue[s] # <<>>
  /\ \/ Get(s) /\ (Delivers(s, Head(queue[s])) \/ Swallows(s))
     \/ Raises(s)
  /\ UNCHANGED <<tables, lost, browserVars>>

\* Mutant: the wait times out and starts again, no ping is sent.
HeartbeatSkipped(s) ==
  /\ s \in subscribers
  /\ queue[s] = <<>>
  /\ UNCHANGED vars

\* q.get() times out, nothing was published for HEARTBEAT_S: send_text(ping)
Heartbeat(s) ==
  /\ s \in subscribers
  /\ queue[s] = <<>>
  /\ \/ UNCHANGED pubsubVars /\ (Delivers(s, Ping) \/ Swallows(s))
     \/ Raises(s)
  /\ UNCHANGED <<tables, lost, browserVars>>

-----------------------------------------------------------------------------
(* The transport                                                           *)

\* The connection of s ends: what was on the wire never arrives.  The socket is
\* told (the browser's close or a reset reaches it), or it is not.
Sever(s) ==
  /\ \E how \in {"dead", IF wire[s] = <<>> THEN "gone" ELSE "unacked"} :
       link' = [link EXCEPT ![s] = how]
  /\ wire' = [wire EXCEPT ![s] = <<>>]

Break(s) ==
  /\ link[s] = "up"
  /\ Sever(s)
  /\ UNCHANGED <<tables, pubsubVars, lost, browserVars>>

\* Retransmission of what nobody acknowledges is given up.
GiveUp(s) ==
  /\ link[s] = "unacked"
  /\ link' = [link EXCEPT ![s] = "dead"]
  /\ UNCHANGED <<tables, pubsubVars, wire, lost, browserVars>>

-----------------------------------------------------------------------------
(* useClusterStore                                                         *)

\* onmessage. A delta that finds no snapshot is ignored.
Receive(b) ==
  LET s == session[b]
      msg == Head(wire[s])
  IN /\ s # NoSession
     /\ link[s] = "up"
     /\ wire[s] # <<>>
     /\ wire' = [wire EXCEPT ![s] = Tail(@)]
     /\ view' = CASE msg.type = "ping" -> view
                  [] msg.type = "full_state" -> [view EXCEPT ![b] = msg.data]
                  [] OTHER -> IF view[b] = NoView THEN view
                              ELSE [view EXCEPT ![b] = ApplyDelta(@, msg)]
     /\ UNCHANGED <<tables, pubsubVars, link, lost, session, status, token>>

\* onclose after the connection broke: the old snapshot stays on screen.
NoticeClosed(b) ==
  /\ session[b] # NoSession
  /\ link[session[b]] # "up"
  /\ session' = [session EXCEPT ![b] = NoSession]
  /\ status' = [status EXCEPT ![b] = "closed"]
  /\ UNCHANGED <<serverVars, view, token>>

\* The handshake fails (no replica reachable): onclose without onopen.
ConnectFails(b) ==
  /\ status[b] = "connecting"
  /\ status' = [status EXCEPT ![b] = "closed"]
  /\ UNCHANGED <<serverVars, session, view, token>>

\* Mutant: no retry once the token no longer verifies.
RetryWhileTokenValid(b) ==
  /\ status[b] = "closed"
  /\ token[b] = "valid"
  /\ status' = [status EXCEPT ![b] = "connecting"]
  /\ UNCHANGED <<serverVars, session, view, token>>

\* The backoff timer fires.
Retry(b) ==
  /\ status[b] = "closed"
  /\ status' = [status EXCEPT ![b] = "connecting"]
  /\ UNCHANGED <<serverVars, session, view, token>>

\* The login form (only shown without a token) stores a fresh token and calls
\* reconnect(): the effect's cleanup clears the timer, a new socket is opened.
Login(b) ==
  /\ token[b] = "none"
  /\ token' = [token EXCEPT ![b] = "valid"]
  /\ status' = [status EXCEPT ![b] = "connecting"]
  /\ UNCHANGED <<serverVars, session, view>>

\* The token's expiry passes; an open socket is not affected.
Expire(b) ==
  /\ token[b] = "valid"
  /\ token' = [token EXCEPT ![b] = "expired"]
  /\ UNCHANGED <<serverVars, session, status, view>>

\* "Log out": forget the token and reload the page, which closes the socket.
Logout(b) ==
  LET s == session[b]
  IN /\ token[b] # "none"
     /\ token' = [token EXCEPT ![b] = "none"]
     /\ status' = [status EXCEPT ![b] = "connecting"]
     /\ session' = [session EXCEPT ![b] = NoSession]
     /\ view' = [view EXCEPT ![b] = NoView]
     /\ IF s # NoSession /\ link[s] = "up" THEN Sever(s) ELSE UNCHANGED <<link, wire>>
     /\ UNCHANGED <<tables, pubsubVars, lost>>

Next ==
  \/ Mutation
  \/ \E s \in Sessions : SendDelta(s) \/ Heartbeat(s) \/ Break(s) \/ GiveUp(s)
  \/ \E b \in Browsers :
       \/ \E s \in Sessions : Accept(b, s)
       \/ Refuse(b) \/ Receive(b) \/ NoticeClosed(b) \/ ConnectFails(b)
       \/ Retry(b) \/ Login(b) \/ Expire(b) \/ Logout(b)

Spec == Init /\ [][Next]_vars
-----------------------------------------------------------------------------
(* Invariants                                                              *)

\* A handler runs exactly while its queue is subscribed; only a live socket
\* carries frames, never more than the transport buffers; a browser shares
\* its socket with no other.
SessionsOwned ==
  /\ \A s \in Sessions :
       /\ s \in subscribers <=> link[s] # "none"
       /\ s \notin subscribers => queue[s] = <<>>
       /\ link[s] # "up" => wire[s] = <<>>
       /\ Len(wire[s]) <= WireMax
  /\ \A b, c \in Browsers :
       session[b] = session[c] /\ session[b] # NoSession => b = c

\* Whether browser b is connected through session s.
Connected(b, s) == session[b] = s /\ link[s] = "up"

\* The snapshot is the first frame of a connection and comes once: no delta
\* reaches a browser that has nothing to apply it to (ws.py:38-46, where the
\* snapshot is sent before the first q.get()).
SnapshotFirst ==
  \A b \in Browsers, s \in Sessions : Connected(b, s) =>
    /\ \A i \in 2..Len(wire[s]) : wire[s][i].type # "full_state"
    /\ view[b] = NoView =>
         wire[s] # <<>> /\ wire[s][1].type = "full_state"

\* What the browser will show of a cell once it has received everything under
\* way on its connection is what the replica holds now.
Agrees(b, s, t, n) ==
  \/ Settles(queue[s], t, n, tables[t][n])
  \/ /\ Silent(queue[s], t, n)
     /\ Settles(wire[s], t, n, tables[t][n])
  \/ /\ Silent(queue[s], t, n)
     /\ Silent(wire[s], t, n)
     /\ view[b][t][n] = tables[t][n]

\* The live feed is coherent cell by cell: for every connected browser and
\* every entry of every table whose newest delta was not dropped, the pending
\* frames applied to the browser's snapshot yield the replica's entry.  It
\* ties together the subscribe-then-snapshot order of ws_state, the delta each
\* ClusterState mutation publishes, drop-oldest, and applyDelta of store.ts.
Coherent ==
  \A b \in Browsers, s \in Sessions : Connected(b, s) =>
    \A t \in Tables, n \in Names :
      <<t, n>> \notin lost[s] => Agrees(b, s, t, n)

\* The inductive invariant.
IInv == TypeOK /\ SessionsOwned /\ SnapshotFirst /\ Coherent

-----------------------------------------------------------------------------
(* Liveness                                                                *)

\* The event loop runs every ready task and timer (the handler sends what is
\* queued, or its heartbeat), the transport delivers on a connection that stays up
\* and does not retransmit for ever, and the browser's timers and handshakes
\* complete.  Nothing makes a send raise before the socket knows that the browser
\* is gone, and the socket learns it, if it is not told, only after a send.
\* Nothing makes a browser notice a dead peer, log in, or the cluster fall silent.
Handshake(b) == Refuse(b) \/ \E s \in Sessions : Accept(b, s)

Fairness ==
  /\ \A s \in Sessions :
       WF_vars(SendDelta(s)) /\ WF_vars(Heartbeat(s)) /\ WF_vars(GiveUp(s))
  /\ \A b \in Browsers :
       /\ WF_vars(Receive(b))
       /\ WF_vars(Retry(b))
       /\ SF_vars(Handshake(b))

LiveSpec == Spec /\ Fairness

\* The replica eventually stops changing.
EventuallyQuiet == <>[][~ Mutation]_vars

CaughtUp(b, s) ==
  \A t \in Tables, n \in Names :
    <<t, n>> \notin lost[s] => view[b] # NoView /\ view[b][t][n] = tables[t][n]

\* Once the replica is quiet, a browser that stays connected ends up showing
\* every entry whose newest delta was not dropped.
CatchesUp ==
  EventuallyQuiet =>
    \A b \in Browsers, s \in Sessions :
      <>[]Connected(b, s) => <>[]CaughtUp(b, s)

\* A handler whose browser is gone ends and releases its queue, also when the
\* socket was not told and nothing is ever published again: then the heartbeat is
\* the only thing that is sent, and what finds out (ws.py:47-53).
DeadSessionReaped ==
  \A s \in Sessions : link[s] \in {"gone", "unacked", "dead"} ~> s \notin subscribers

\* A browser that knows its connection is gone comes back with a fresh
\* snapshot, or is told to log in; it never stays disconnected by itself.
Reconnects ==
  \A b \in Browsers : status[b] = "closed" ~> status[b] \in {"open", "unauthorized"}
=============================================================================
