------------------------------ MODULE History ------------------------------
(***************************************************************************)
(* The persistence of one node's time series                               *)
(* (backend/app/collectors/history.py): a consumer of the pub/sub layer    *)
(* writes every sample to an SQLite file through a worker thread, prunes   *)
(* it, and a restarted replica reloads its charts from it.                 *)
(*                                                                         *)
(* A sample is its time t.  The clock advances with each sample, 10 s      *)
(* apart in the program.  The other deltas share the queue with the        *)
(* samples.  Rows of different nodes never meet in a query.                *)
(***************************************************************************)
EXTENDS PubSub, SequencesExt

CONSTANTS
  Writer,         \* the queue run() subscribes with
  HistoryLen,     \* state.HISTORY_LEN
  Retention,      \* PIWATCH_HISTORY_RETENTION_DAYS
  PruneInterval,  \* PRUNE_INTERVAL
  MaxClock        \* bound: samples taken

ASSUME HistoryAssumption ==
  /\ Writer \in Sessions
  /\ HistoryLen \in Nat \ {0}
  /\ {Retention, PruneInterval, MaxClock} \subseteq Nat

VARIABLES
  clock,
  hist,       \* state.node_history[node]; once the process is gone, its last content
  db,         \* the rows of node_samples, in the order they were written
  phase,      \* run(): "off" (no process), "reading" (await q.get()),
              \* "awaiting" (await to_thread), "dead" (the task has ended)
  worker,     \* the thread: "idle", "insert" or "prune"
  row,        \* the sample it inserts, 0 when none
  lastPrune,
  lost        \* history: samples that are not, or no longer, to be persisted

procVars == <<phase, worker, row, lastPrune>>
vars == <<subscribers, queue, clock, hist, db, phase, worker, row, lastPrune, lost>>

Sample(t) == [type |-> "node_metrics", t |-> t]
Other == [type |-> "other", t |-> 0]

Samples(q) == {q[i].t : i \in DOMAIN q} \ {0}

Running == phase # "off"

TypeOK ==
  /\ PubSubTypeOK([type : {"node_metrics", "other"}, t : 0..MaxClock])
  /\ clock \in 0..MaxClock
  /\ hist \in Seq(1..MaxClock) /\ Len(hist) <= HistoryLen
  /\ db \in Seq(1..MaxClock)
  /\ phase \in {"off", "reading", "awaiting", "dead"}
  /\ worker \in {"idle", "insert", "prune"}
  /\ row \in 0..MaxClock /\ (row # 0 <=> worker = "insert")
  /\ lastPrune \in 0..clock
  /\ lost \subseteq 1..MaxClock
  /\ Writer \in subscribers <=> phase \in {"reading", "awaiting"}

Init ==
  /\ PubSubInit
  /\ clock = 0
  /\ hist = <<>>
  /\ db = <<>>
  /\ phase = "off"
  /\ worker = "idle"
  /\ row = 0
  /\ lastPrune = 0
  /\ lost = {}

-----------------------------------------------------------------------------
\* DELETE ... WHERE t < now - retention: the other rows stay as they are.
Kept(rows) ==
  LET kept[i \in 0..Len(rows)] ==
        IF i = 0 THEN <<>>
        ELSE IF rows[i] + Retention >= clock THEN Append(kept[i - 1], rows[i])
        ELSE kept[i - 1]
  IN kept[Len(rows)]

\* Mutant: LIMIT without ORDER BY t DESC, the oldest rows are loaded.
LoadedOldest(rows) == SubSeq(rows, 1, IF Len(rows) < HistoryLen THEN Len(rows) ELSE HistoryLen)

\* The newest HISTORY_LEN rows, oldest first.
Loaded(rows) ==
  SubSeq(rows, IF Len(rows) < HistoryLen THEN 1 ELSE Len(rows) - HistoryLen + 1, Len(rows))

\* The process starts: load_startup_history, best-effort, then run() opens the
\* file, subscribes and prunes, before any collector has a sample.  The file may
\* be unreadable for either; then charts start empty, or nothing is persisted.
Boot(readable, opens) ==
  /\ phase = "off"
  /\ worker = "idle"
  /\ hist' = IF readable THEN Loaded(db) ELSE <<>>
  /\ IF opens
     THEN /\ Subscribe(Writer)
          /\ phase' = "reading"
          /\ db' = Kept(db)
          /\ lost' = lost \union (ToSet(db) \ ToSet(Kept(db)))
          /\ lastPrune' = clock
     ELSE /\ phase' = "dead"
          /\ UNCHANGED <<pubsubVars, db, lost, lastPrune>>
  /\ UNCHANGED <<clock, worker, row>>

\* A full queue drops its oldest message, maybe a sample.
Overflowed ==
  IF Writer \in subscribers /\ Len(queue[Writer]) = QueueMax
  THEN Samples(<<Head(queue[Writer])>>) ELSE {}

Ring(seq, t) == IF Len(seq) < HistoryLen THEN Append(seq, t) ELSE Append(Tail(seq), t)

\* record_node_sample; nobody persists it when run() has ended.
Record ==
  LET t == clock + 1
  IN /\ Running
     /\ clock < MaxClock
     /\ clock' = t
     /\ hist' = Ring(hist, t)
     /\ Publish(Sample(t))
     /\ lost' = lost \union Overflowed
                     \union (IF Writer \in subscribers THEN {} ELSE {t})
     /\ UNCHANGED <<db, procVars>>

\* Any other mutation of the state.
PublishOther ==
  /\ Running
  /\ Publish(Other)
  /\ lost' = lost \union Overflowed
  /\ UNCHANGED <<clock, hist, db, procVars>>

-----------------------------------------------------------------------------
(* run()                                                                   *)

\* Mutant: pruning is never due.
AfterMessageNoPrune == phase' = "reading" /\ worker' = "idle" /\ row' = 0

\* After a message: prune in the thread when it is due, else read on.
AfterMessage ==
  IF clock - lastPrune > PruneInterval
  THEN phase' = "awaiting" /\ worker' = "prune" /\ row' = 0
  ELSE phase' = "reading" /\ worker' = "idle" /\ row' = 0

\* Mutant: a message found while pruning is due is not written.
TakeSkipsWhenDue ==
  LET msg == Head(queue[Writer])
  IN /\ phase = "reading"
     /\ Get(Writer)
     /\ IF msg.type = "node_metrics" /\ clock - lastPrune <= PruneInterval
        THEN phase' = "awaiting" /\ worker' = "insert" /\ row' = msg.t
        ELSE AfterMessage
     /\ UNCHANGED <<clock, hist, db, lastPrune, lost>>

Take ==
  LET msg == Head(queue[Writer])
  IN /\ phase = "reading"
     /\ Get(Writer)
     /\ IF msg.type = "node_metrics"
        THEN phase' = "awaiting" /\ worker' = "insert" /\ row' = msg.t
        ELSE AfterMessage
     /\ UNCHANGED <<clock, hist, db, lastPrune, lost>>

\* Mutant: a failed write is tried again after the next message.
InsertFailsRequeued ==
  /\ phase = "awaiting"
  /\ worker = "insert"
  /\ queue' = [queue EXCEPT ![Writer] =
                 IF Len(@) < QueueMax THEN Append(@, Sample(row)) ELSE @]
  /\ lost' = IF Len(queue[Writer]) < QueueMax THEN lost ELSE lost \union {row}
  /\ AfterMessage
  /\ UNCHANGED <<subscribers, clock, hist, db, lastPrune>>

\* The insert raised: the sample is dropped, run() goes on.
InsertFails ==
  /\ phase = "awaiting"
  /\ worker = "insert"
  /\ lost' = lost \union {row}
  /\ AfterMessage
  /\ UNCHANGED <<pubsubVars, clock, hist, db, lastPrune>>

InsertDone ==
  /\ phase = "awaiting"
  /\ worker = "insert"
  /\ db' = Append(db, row)
  /\ AfterMessage
  /\ UNCHANGED <<pubsubVars, clock, hist, lastPrune, lost>>

PruneDone ==
  /\ phase = "awaiting"
  /\ worker = "prune"
  /\ db' = Kept(db)
  /\ lost' = lost \union (ToSet(db) \ ToSet(Kept(db)))
  /\ lastPrune' = clock
  /\ phase' = "reading"
  /\ worker' = "idle"
  /\ UNCHANGED <<pubsubVars, clock, hist, row>>

\* prune() raised: nothing catches it, the task ends and persistence with it.
PruneFails ==
  /\ phase = "awaiting"
  /\ worker = "prune"
  /\ lost' = lost \union Samples(queue[Writer])
  /\ Unsubscribe(Writer)
  /\ phase' = "dead"
  /\ worker' = "idle"
  /\ UNCHANGED <<clock, hist, db, row, lastPrune>>

-----------------------------------------------------------------------------
\* The lifespan cancels run(): its `finally` unsubscribes and closes the
\* connection, whatever the worker thread is doing with it.
Shutdown ==
  /\ Running
  /\ lost' = lost \union Samples(queue[Writer])
  /\ Unsubscribe(Writer)
  /\ phase' = "off"
  /\ UNCHANGED <<clock, hist, db, worker, row, lastPrune>>

\* The exiting process joins the thread: its statement came through, or hit the
\* closed connection.
ThreadEnds ==
  /\ phase = "off"
  /\ worker # "idle"
  /\ \/ /\ db' = IF worker = "insert" THEN Append(db, row) ELSE Kept(db)
        /\ lost' = lost \union (ToSet(db) \ ToSet(db'))
     \/ db' = db /\ lost' = lost \union ({row} \ {0})
  /\ worker' = "idle"
  /\ row' = 0
  /\ UNCHANGED <<pubsubVars, clock, hist, phase, lastPrune>>

\* The process is killed; a statement under way is rolled back.
Crash ==
  /\ Running
  /\ lost' = lost \union Samples(queue[Writer]) \union ({row} \ {0})
  /\ Unsubscribe(Writer)
  /\ phase' = "off"
  /\ worker' = "idle"
  /\ row' = 0
  /\ UNCHANGED <<clock, hist, db, lastPrune>>

Next ==
  \/ \E readable, opens \in BOOLEAN : Boot(readable, opens)
  \/ Record \/ PublishOther
  \/ Take \/ InsertDone \/ InsertFails \/ PruneDone \/ PruneFails
  \/ Shutdown \/ ThreadEnds \/ Crash

Spec == Init /\ [][Next]_vars
-----------------------------------------------------------------------------
Increasing(seq) == \A i \in 1..(Len(seq) - 1) : seq[i] < seq[i + 1]

\* Every sample is written at most once and in the order it was taken, across
\* failures, shutdowns and restarts; so load_startup_history, which orders by t
\* only, rebuilds a ring in which time never goes back (history.py:99-105).
RowsOrdered == Increasing(db) /\ Increasing(hist)

\* No sample disappears unaccounted for: one on the chart is in the file, in
\* the queue, in the worker's hands, or was lost to an overflow, a failed write,
\* a prune, or the end of a process or of run() (history.py:128-139).
Accounted ==
  \A t \in ToSet(hist) : t \in ToSet(db) \union Samples(queue[Writer]) \union {row} \union lost

\* "survives a pod restart instead of starting empty" (history.py:1-3): a
\* restart that can read the file brings back every sample of the last chart
\* that was not lost on the way.
ChartSurvives ==
  [][phase = "off" /\ Running' /\ hist' # <<>>
       => \A t \in ToSet(hist) \ lost : t \in ToSet(hist')]_vars

\* "the file doesn't grow forever" (history.py:5-7): whenever run() has caught
\* up, no row is older than the retention plus one prune interval.
FileBounded ==
  phase = "reading" /\ queue[Writer] = <<>> =>
    \A t \in ToSet(db) : t + Retention + PruneInterval >= clock

\* The thread finishes what it was given and run() takes what is queued.
Fairness ==
  /\ WF_vars(Take)
  /\ WF_vars(InsertDone \/ InsertFails)
  /\ WF_vars(PruneDone \/ PruneFails)
  /\ WF_vars(ThreadEnds)

LiveSpec == Spec /\ Fairness

\* Every sample ends in the file unless it is lost for one of those reasons:
\* none stays queued or in the thread for ever, also when writes fail.
EachSamplePersists ==
  \A t \in 1..MaxClock : clock = t ~> t \in ToSet(db) \union lost
=============================================================================
