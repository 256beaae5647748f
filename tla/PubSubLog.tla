----------------------------- MODULE PubSubLog -----------------------------
(***************************************************************************)
(* PubSub run on its own, with the stream it broadcasts kept as a history  *)
(* variable: the bounded queues of state.py, filled by publish() and       *)
(* drained by the ws_state calls, implement BroadcastLog.                  *)
(***************************************************************************)
EXTENDS PubSub

CONSTANTS Payload,  \* the deltas that may be published
          MaxLog    \* bound: publications in one behaviour

VARIABLES log,      \* history: everything published
          last      \* history: the latest message taken from a queue

vars == <<subscribers, queue, log, last>>

Init ==
  /\ PubSubInit
  /\ log = <<>>
  /\ last = <<>>

Broadcast(p) ==
  /\ Len(log) < MaxLog
  /\ Publish(p)
  /\ log' = Append(log, p)
  /\ UNCHANGED last

Join(s)  == Subscribe(s) /\ UNCHANGED <<log, last>>
Leave(s) == s \in subscribers /\ Unsubscribe(s) /\ UNCHANGED <<log, last>>

Take(s) ==
  /\ Get(s)
  /\ last' = <<s, Head(queue[s])>>
  /\ UNCHANGED log

Next ==
  \/ \E p \in Payload : Broadcast(p)
  \/ \E s \in Sessions : Join(s) \/ Leave(s) \/ Take(s)

Spec == Init /\ [][Next]_vars
-----------------------------------------------------------------------------
\* Every queue holds a window of the stream: in order, without holes or
\* repetitions, ending at the newest publication.
Windows ==
  \A s \in Sessions :
    /\ Len(queue[s]) <= Len(log)
    /\ \A i \in 1..Len(queue[s]) :
         queue[s][i] = log[Len(log) - Len(queue[s]) + i]

\* The inductive invariant behind the refinement: bounded queues, idle queues
\* empty, and each queue a window of what was published.
IInv ==
  /\ PubSubTypeOK(Payload)
  /\ log \in Seq(Payload)
  /\ \A s \in Sessions \ subscribers : queue[s] = <<>>
  /\ Windows

\* Each queue is a cursor into the log that trails its end by the queue's
\* length.
Stream == INSTANCE BroadcastLog WITH
  Readers <- Sessions, MaxLag <- QueueMax, joined <- subscribers,
  next <- [s \in Sessions |-> Len(log) + 1 - Len(queue[s])]

\* publish() (state.py:109-121) loses only the oldest undelivered message of
\* a session whose 512 places are taken; what a session reads is otherwise the
\* published stream, in order, from the moment it subscribed.
ImplementsBroadcastLog == Stream!Spec
=============================================================================
