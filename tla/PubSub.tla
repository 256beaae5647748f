------------------------------- MODULE PubSub -------------------------------
(***************************************************************************)
(* The subscriber set of ClusterState (backend/app/state.py): every        *)
(* running ws_state call owns one asyncio.Queue of QueueMax messages, and  *)
(* publish() puts each delta on all of them without ever blocking.  This   *)
(* module holds the component's state and its operations; LiveFeed and     *)
(* SeriesFeed compose them with the tables, and PubSubLog checks them      *)
(* against the broadcast log they promise to be.                           *)
(***************************************************************************)
EXTENDS Naturals, Sequences

CONSTANTS Sessions,  \* running ws_state calls, each with its own queue
          QueueMax   \* asyncio.Queue(maxsize=512); 0 would mean "unbounded"

ASSUME QueueMaxAssumption == QueueMax \in Nat \ {0}

VARIABLES subscribers,  \* ClusterState._subscribers
          queue         \* the queue of each session; <<>> when not subscribed

pubsubVars == <<subscribers, queue>>

PubSubTypeOK(Msg) ==
  /\ subscribers \subseteq Sessions
  /\ queue \in [Sessions -> Seq(Msg)]
  /\ \A s \in Sessions : Len(queue[s]) <= QueueMax

PubSubInit ==
  /\ subscribers = {}
  /\ queue = [s \in Sessions |-> <<>>]

-----------------------------------------------------------------------------
Subscribe(s) ==
  /\ s \notin subscribers
  /\ subscribers' = subscribers \union {s}
  /\ queue' = [queue EXCEPT ![s] = <<>>]

\* The queue goes with the finished handler's frame.
Unsubscribe(s) ==
  /\ subscribers' = subscribers \ {s}
  /\ queue' = [queue EXCEPT ![s] = <<>>]

\* Mutant: the full queue is not relieved of its oldest message first.
PutUnbounded(q, msg) == Append(q, msg)

\* Mutant: a slow consumer loses the newest message instead of the oldest.
PutDropNewest(q, msg) == IF Len(q) < QueueMax THEN Append(q, msg) ELSE q

\* put_nowait; on QueueFull get_nowait the oldest message and put again.
Put(q, msg) ==
  IF Len(q) < QueueMax THEN Append(q, msg) ELSE Append(Tail(q), msg)

Publish(msg) ==
  /\ queue' = [s \in Sessions |->
                 IF s \in subscribers THEN Put(queue[s], msg) ELSE queue[s]]
  /\ UNCHANGED subscribers

Get(s) ==
  /\ queue[s] # <<>>
  /\ queue' = [queue EXCEPT ![s] = Tail(@)]
  /\ UNCHANGED subscribers
=============================================================================
