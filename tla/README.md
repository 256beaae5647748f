# PiWatch in TLA+

PiWatch shows a Kubernetes cluster of Raspberry Pis in a browser.  Each backend
replica (FastAPI, one asyncio event loop) keeps the whole cluster state in
memory, fed by watchers and pollers, and streams it to browsers: a snapshot when
they connect, a delta per change afterwards.  This directory specifies the parts
of that path where order, loss, restarts and concurrency decide whether what the
browser shows is true.

## The system

| Component | State | Operations | Talks to |
|---|---|---|---|
| `ClusterState` (`backend/app/state.py`) | keyed tables, replaced tables, rings, subscriber queues | upsert/remove per kind, `set_*`, `record_*`, `add_event`, `publish`, `subscribe`, `snapshot` | called by every collector, read by `ws_state` and REST |
| live feed (`backend/app/ws.py`) | one queue per running handler | `ws_state`: verify, subscribe, snapshot, deltas, heartbeat | `ClusterState`, browsers |
| browser store (`frontend/src/store.ts`, `App.tsx`) | snapshot, status, token, backoff | connect, apply deltas, retry, login, log out | `ws_state` |
| Kubernetes watch (`collectors/k8s_watch.py`) | one loop per kind: resource version, backoff | list, watch, `_apply` | Kubernetes API, `ClusterState` |
| auto-checks, YAML checks, DNS check (`collectors/autochecks.py`, `healthcheck.py`, `dns_check.py`) | check dict, tasks, one loop per check | reconcile, probe, record, remove | tables, `state.healthchecks` |
| pollers (`metrics`, `hardware`, `flux`, `gateway`, `pvc`) | none but "already warned" flags | poll and record or replace | metrics-server, node agents, CRDs, Prometheus |
| history (`collectors/history.py`) | SQLite rows, last prune | insert, prune, load at start | a subscriber queue, a worker thread |
| node agent (`backend/app/node_agent.py`) | previous counters of three rates | `/metrics` | `/proc`, `/sys`, SMART dumps of a sidecar |
| auth (`backend/app/auth.py`) | none (signed tokens) | create, verify | login, handshake, REST |
| lifespan and REST (`backend/app/main.py`) | collector tasks | start, stop, readiness, REST snapshot | everything |

What is hard here: the event loop interleaves dozens of tasks at every `await`;
a slow browser's queue drops its oldest message; the snapshot and the delta
stream must join without hole or repetition; a watch has gaps in which the
cluster changes unseen; probe results arrive after the check they belong to is
gone; connections die unnoticed; tokens expire; replicas come and go.
`PROJECT.json` lists every such hazard at its line with the properties that cover
it; those without one say why.

What makes each part correct: the pub/sub layer loses nothing but the oldest
unread message of a full queue; a browser's view equals the replica's once its
pending frames are applied; rings replay exactly and latest values heal after a
loss; a watched table mirrors the API at a known revision and converges; check
loops match the wanted checks, the checks follow routes, gateways and Services, and
a verdict is about its own probe; pollers refresh each table whatever another source
does, and join no answers of different rounds or owners; a row tells what its pod
has been through; an agent reports no negative rate and, while requests do not meet
and its counters can be read, no byte twice; the history file holds every sample once, in order,
until it is pruned, and a restart starts from it; sessions of dead peers end and browsers return.

## Modules

| Module | Models | State and actions against the code |
|---|---|---|
| `PubSub` | subscriber set of `ClusterState` | `subscribers` is `_subscribers`, `queue[s]` the `asyncio.Queue` of one handler; `Subscribe`, `Unsubscribe`, `Publish` (with `Put`, the `QueueFull` branch), `Get` |
| `BroadcastLog` | abstract specification: one log, one bounded cursor per reader | none (it is what `publish` promises) |
| `PubSubLog` | `PubSub` run alone with its history | refines `BroadcastLog`: cursor = end of log minus queue length |
| `LiveFeed` | keyed and replaced tables, `ws_state`, `useClusterStore`, tokens | composes `PubSub`; one action per mutation (dict change and its publication are one step: no `await` between), per handler step between two awaits, per browser callback; a send has the outcomes of the transport: `Delivers`, `Swallows` (the peer is gone, the socket does not know), `Raises` (the socket is dead: the `finally`); `Sever` and `GiveUp` are the transport |
| `SeriesFeed` | events, merged node metrics, hardware, history rings, healthchecks, and the client's rings | composes `PubSub`; `Ring` is `deque(maxlen)`, `Slide` is the client's `slice`, `Merge` the `{**old, **sample}` and `{...old, ...d}` of both sides |
| `WatchLoop` | one `_watch_loop`, `_apply`, its table, the API's revisions | `Seed` is a whole list answer (the loop over its items has no `await`), `SeedAborts` one whose mapper raises part-way, `WatchEvent`, `StreamEnds` (timeout: relist at once), `Fail`/`Wake` (backoff), `Change` (the cluster, external) |
| `AutoChecks` | `autochecks.run`, its probe loops, the YAML loops | `Reconcile` is one round of `run()` without `await`; `StartProbe`/`Record` are separate because the probe is awaited; `probed` is the local `check` |
| `History` | `history.run`, `load_startup_history`, `prune`, its worker thread, one node's ring, the SQLite file | composes `PubSub`; `Take` starts an insert in the thread, `InsertDone`/`InsertFails`/`PruneDone`/`PruneFails` end it and go on to what `run()` does next; `Shutdown` is the lifespan's cancellation with `run()`'s `finally`, after which `ThreadEnds` |
| `NodeAgent` | the agent's three rates and their process-wide previous samples, requests in threads of their own; the SMART sidecar (a shell loop in the DaemonSet) | a request takes three steps: a counter is read (`read_nvme_smart`, `read_sd_bytes`, `read_net_bytes`, which skips interfaces it cannot read), then `_nvme_io_rate` and its twins `Load` the previous sample and `Store` the new one; the sidecar's dumps and `rm -f`s are a step each |
| `Collectors` | the pollers, probes and rows below, side by side | a behaviour follows one of them, `active`: their tables are disjoint, and none reads what another one writes |
| `CrdPoller` | the loops of `flux.py` and `gateway.py` | `Open` (the client), `Ask` (a request is answered with the content of that moment), `Answer` (mapped and stored without `await`), `Failure` (the `except` of one kind, with `WarnOnce`); `reply` is the answer under way; `SeeServices` is the watch of Services, which reaches the table through `_apply` and is told nothing of what is deleted in a gap |
| `Discovery` | rows of Gateway API objects and Services, `route_checks`, `service_checks` (pure operators; `CrdPoller` extends it) | each operator has its function's name |
| `PvcPoller` | `pvc.py`: list, two Prometheus queries, their merge | one action per request; `items` is the round's local list; `Mappable` says whether `parse_mem` reads every claim's quantities |
| `MetricsPoller` | `metrics.py`: node shares and pod usage | `RequestMetrics`, then one step per answer (no `await` between its items) |
| `HardwarePoller` | `hardware.py`: DNS, then one agent after the other | `_resolve_agents`, `AskAgent`, `RecordAnswer` or `SkipAgent`; `ips` is the rest of the round's addresses |
| `Probes` | one check loop's probe, of each of the five kinds (`autochecks.py`, `healthcheck.py`, `dns_check.py`) | a step between two awaits: connect or resolve, status line, close |
| `PodRow` | `map_pod` and its helpers | `map_pod` over the statuses a modelled kubelet gives the pod's containers |
| `PubSubProofs`, `LiveFeedProofs`, `SeriesFeedProofs`, `WatchLoopProofs`, `AutoChecksProofs`, `HistoryProofs`, `NodeAgentProofs`, `CollectorsProofs` | theorems about the module of that name (`PubSubProofs`: of `PubSubLog`) | |
| `MC_*` | instances for TLC | |

Definitions named "Mutant" in a comment are not part of the model: each is the
form a plausible bug would give the definition after it, kept to show that the
property it is paired with in `PROJECT.json` notices.

### Abstractions

* An object is a model value or the revision/time that wrote it; what a mapper
  selects from it is left out.  A measured value in `SeriesFeed` is the time of
  its measurement, 0 where a field was never reported.
* `LiveFeed` has one generic keyed table per watched kind with the same
  upsert/remove shape; `pods` is special because `remove_pod` and the client's
  `pod_deleted` also drop `pod_metrics`.
* The TCP connection is a FIFO of at most `WireMax` frames; a broken one loses
  them.  Its end is told to the handler's socket at once, or is not: then the socket
  is told after something was sent and not acknowledged (`GiveUp`).  A handler ends
  by a send that raises and in no other way, since nothing else touches the socket.
* In `SeriesFeed` the snapshot arrives when the subscription begins: the frames
  between are `LiveFeed`'s subject.
* In `History` a row is the time of its sample, the clock is the sample count, and
  the rows of one node stand for all (no statement but `prune`, which looks at
  times only, touches the rows of two).  One process has the file to itself, as
  `history.py` assumes, and the wall clock never steps back.  The worker's `prune` and
  the assignment of `last_prune` after it are one step: the thread's latency is left out.
* In `NodeAgent` a pair of counters is one number, a behaviour follows one of the
  three sources, and a rate is the bytes it stands for; that no time elapsed between
  two samples is possible at every sample.  Of the two dumps the SMART log is compared
  with the drive; an id-ctrl dump that outlives a failing `nvme id-ctrl` is not.
* In `Collectors` an object is a record of the fields its mapper's row depends on and
  the properties tell apart; names, messages and images are model values or small
  numbers.  A request is answered with the content of one moment.  `PodRow` derives
  a row from the pod as it is; that the row reaches the table is `WatchLoop`'s
  subject, and what record functions make of samples is `SeriesFeed`'s.  Sidecar
  (restartable) init containers, a sandbox that is made anew under a running pod,
  wildcard listener hostnames and UDP ports are left out.  Of a redirect that a probe
  follows (`healthcheck.py:96`) the final status is what the target answers.  An
  agent's answer always names its node (the default of `hardware.py:51` is left out).
* `SeeServices` brings the table from one version of the cluster's Services to the
  current one in a step, by events or after a gap; contents between the two are
  collapsed.  That a relist comes at all is `WatchLoop`'s subject.
* In `PvcPoller` a volume with a quota is a file system of up to one and a half times
  what the claim declares, the slack of `pvc.py:89`.
* `LiveFeed.lost`, `History.lost`, `SeriesFeed.stale/missed`, `WatchLoop.seen/skipped`,
  `NodeAgent.settled/unread/account` (and `of`, `by`, `unread`, `lapped` of its locals),
  `CrdPoller.ghosts/told/recent`, `PvcPoller.had`, `PodRow.deaths`, `Probes.seen_targets`
  and `PubSubLog.log/last` are history variables: no action of the code reads them.

## Runs

| Run | Question | Instance and why it suffices |
|---|---|---|
| `pubsub` | does `publish` implement the broadcast log? | 2 sessions, 2 payloads, queues of 2, 5 publications: overflow, late joining and leaving while others lag |
| `livefeed` | does the snapshot come first, and do pending frames lead a browser to the replica's state, with everything at once? | 1 browser, 2 sessions (it reconnects while its old handler lingers), pods with metrics, one polled table, queue of 2, one frame on the wire |
| `livefeed_live` | do browsers catch up, do the heartbeat and the deltas end dead sessions, do disconnected browsers return? | as above without the polled table, under fairness |
| `series` | do rings replay and latest values heal? | queue, rings of 2 and 5 mutations: every ring wraps and the queue overflows around a snapshot; one field measured by both pollers, one by the agent alone, one intermittent |
| `series_smart` | do SMART fields vanish with the drive? (no, see Findings) | same |
| `watch` | does a table mirror the API, never go back, converge? | 2 objects, any initial content, 3 changes: create, hide, delete, re-create inside and outside gaps, lists that abort after either object; pauses 1, 2, 3, 3 |
| `watch_ghost` | does every deleted object disappear? (no) | 1 object, 2 changes |
| `autochecks` | do loops match checks, do late results stay out, do checks follow their targets? | an auto-discovered name and one shared with a YAML check, two definitions each; the YAML file can be read or not |
| `autochecks_shared` | are YAML checks never removed? (they are) | same |
| `history` | does the file hold each sample once and in order, does the chart survive a restart, where can a sample get lost? | 5 samples, a queue and a chart of 2, retention 2: the queue overflows, the ring wraps, rows are pruned, and processes end and start at every point between |
| `node_agent` | is no rate negative, do lone requests report each byte at most once, are the dumps those of the drive? | 2 requests at once (each replica polls one after the other), 2 drives and none, counters to 2, restarts of either container anywhere: a third sample adds nothing, since only one is remembered; any part of the network's bytes may be unreadable for any sample |
| `collectors` | do pollers follow their sources through partial failures, do derived checks follow the cluster, do rows and verdicts have their cause? | for each poller 2-3 changes or outages, placed between any two of its steps, starting from an empty or a full cluster: one change during a round, one outage and one recovery; 2 names per table, so that one may fail alone; pods with 2 init and 2 main containers and 4 exits (a crash and a second end of two of them); statuses of three classes; claims with and without a quota, bound and not, one without a quota that declares two thirds of its disk, one whose quantities cannot be parsed; Services deleted with and without a gap |

Bounds: `QueueMax` stands for 512, `HistoryLen`, `EventsLen`, `CheckLen` for
1080, 200 and 500, `BackoffMax` for 30, `Retention` and `PruneInterval` (in samples) for the retention
days and an hour: the code only compares with them.
`MaxLog`, `MaxClock`, `MaxRevision`, `WireMax`, `MaxMoved`, `MaxChanges`,
`MaxClaimChanges`, `MaxMetricChanges`, `MaxAgentChanges` and `MaxExits` bound the
exploration; `Menu`, `Starts`, `Volumes`, `Usages`, `Capacities`, `Memories` and
`Codes` are the inputs.  Deadlock is checked in every run but `collectors`, where a
pod's life ends.

### Fairness

* `LiveFeed`: weak fairness of `SendDelta` and `Heartbeat` (the event loop runs ready
  tasks and timers), `GiveUp` (TCP does not retransmit for ever), `Receive` (an open
  connection delivers) and `Retry` (a browser's timer fires).  Strong fairness of the
  handshake, since `ConnectFails` may interrupt it again and again.  Nothing makes a
  send raise but a socket that knows of its peer's end: a handler whose browser
  vanished silently ends only because its heartbeat goes on sending, which is what
  `DeadSessionReaped` is about.  No fairness for a browser noticing a dead peer, for
  logging in, for the cluster's changes or for their end: `CatchesUp` assumes a
  cluster that falls silent.
* `WatchLoop`: weak fairness of waking and of delivering stream events, strong
  fairness of list answers (failures may come between, but not for ever).
  Failures and stream ends themselves are unconstrained.
* `AutoChecks`: weak fairness of the rounds of `run()` and of each loop's steps:
  every probe has a timeout and every sleep ends.
* `History`: weak fairness of taking a queued message and of the worker thread's
  end, successful or not.  A process need not start again, and writes may fail for
  ever: `EachSamplePersists` then counts the sample as lost.

* `Collectors`: weak fairness of a poller's next step (requests have timeouts,
  pauses end) and of what it reads besides: the watch of Services delivers
  (`WatchLoop`), DNS follows the endpoints.  None for changes, outages or
  recoveries; the liveness properties speak of sources as they are in the end.

## Proofs

`tlapm` checks the eight proof modules for every value of the constants under
their named assumptions (a queue has room for one message, `pods` is a watched
table, `pod_metrics` is not, model values are not data, rings hold two elements or
more, status codes lie within 100..599).  Every safety invariant and action property of the passing
runs is a theorem.

* `PubSubProofs`: the queue of each session is a window of the log ending at its
  end (`QueuesAreWindows`).  That is the inductive invariant: it says what a
  `Put` on a full queue removes in terms of the log.  With it every step is a step
  or a stutter of `BroadcastLog` (`PubSubImplementsLog`).
* `LiveFeedProofs`: `IInv` adds to `TypeOK` the ownership of sessions (a browser
  shares its socket with none, a dead link carries nothing) and `Coherent`.
  `SnapshotFirst` needs the ownership, or a frame could reach a browser from a
  session not its own; `Coherent` needs `SnapshotFirst`, or a delta could be
  consumed before there is anything to apply it to.  `Coherent` is inductive cell
  by cell because `Agrees` looks for the last pending frame about the cell: a
  mutation appends one that settles it, a delivery moves one from queue to wire
  or from wire to view, and a drop either takes a frame that is not the last about
  its cells or puts them into `lost` (lemma `PutCases`).  Results: `TypeCorrect`,
  `SnapshotComesFirst`, `FeedCoherent`.
* `SeriesFeedProofs`: what a browser shows after a queue of deltas is a recursive
  function of the queue; `Replay` names it, and `ReplayEnds` gives its two ends: a
  published delta is applied last, a delivered one first.  All reasoning is key by
  key (`Same`, `SameRings`): a delta touches its own key only (`Untouched`) and what
  it makes of the key depends on that key only (`RingsApplied`), so a drop is not
  noticed by other keys (`DropUnnoticed`).  `Grows` is the contract of a mutation
  with the delta it publishes (`MutationGrows`): the delta makes of the old tables
  what the mutation makes of their rings, and carries the new latest values.  For
  rings the replay itself is the invariant (`ReplayInv`).  For the latest values
  it is not inductive, since a drop changes what is shown: `LatestInv` says that
  for every key that is not stale the newest queued delta carries the replica's
  values or none is queued and they are shown (`Heals`); that no field is shown or
  queued that the replica never had (`Sound`), or merging would keep it; and that
  what agents report is in the merged record (`Forwarded`).  Results:
  `SeriesTypeCorrect`, `HistoryIsReplayed`, `LatestValuesHeal`, `HardwareIsFollowed`.
* `WatchLoopProofs`: `TInv` adds to `TypeOK` what is known of the API's past (later
  content has later versions, one revision changes one object, between two changes
  an object stays as it is: `Chronicle`, `Dated`, `Steady`) and where the loop is in
  it (`Position`: a list is of a revision not before anything applied, and the watch
  goes on from there).  `Mirror` is inductive with `FromPast`: every entry is one
  the API held.  `Position` is what rules out an older version after a list that
  was aborted half-way (`VersionsGrow`).  Results: `LoopTypeCorrect`,
  `TableMirrors`, `VersionsGrow`.
* `AutoChecksProofs`: `LoopPerCheck` with the type invariant is inductive, and
  `NoZombieEntry` relative to it: `Record` only happens in a loop that runs, hence
  for a name `run()` still holds.  Results: `LoopsMatchChecks`, `NoLateResult`.
* `HistoryProofs`: `OrderInv` orders all the places a sample can be in: file, then
  thread, then queue, then the future.  Its part `InLine` says more of the queue
  than order, that a sample is at most as old as there are messages behind it,
  which bounds the age of what is written late.  `ChartInv` follows every sample
  of the chart (`AccountInv`) and adds that the chart holds whatever is newer than
  its oldest sample (`NewestShown`): a restart loads the newest rows, and by
  counting them none of the last chart is left out (`ShownAreNewest`).  `PruneInv`
  says that a prune is due before `run()` waits again.  `FileBounded` is proved
  for retentions as long as a full queue (`QueueMax <= Retention + 1`) and is false
  without that: with a queue of 3 and no retention TLC finds a row, queued while
  the thread was busy, that is written after the prune that should have removed
  it.  512 samples of all nodes are minutes and the retention is counted in days,
  so every sensible deployment meets the hypothesis.  Results:
  `HistoryTypeCorrect`, `RowsAreOrdered`, `NothingUnaccounted`, `ChartsSurvive`,
  `FileIsBounded`.
* `NodeAgentProofs`: `TInv` adds to `TypeOK` which device each source reads and
  that a dump never exceeds what its drive has moved; the bytes a request is about to
  report are natural whatever it raced with (`AgentTypeCorrect`).
  `RoundInv` follows the sidecar through a round without an exchange
  (`DumpsOfDrive`).  `NothingTwice` needs `AccountInv`: what a request has read
  stays below the counter, off by no more than the resets have taken and the
  interfaces it could not read (`Held`); a request that none overlaps still holds
  the sample that is stored (`Alone`), and has read beyond all that was reported
  (`Ahead`); and the total lies behind the last sample, what that sample went
  without, and the last dump (`Covered`).  Without the part about the dump, a
  request could start from a dump older than what has been reported
  (`NoByteTwice`).
* `CollectorsProofs`: one invariant per poller, each kept by the others' steps
  because they leave its variables alone.  `PvcInv` says of the round's list what
  `UsageIsOwn` says of a new table: each row is of a volume the claim has had since
  the list (`had`), so are the used bytes, and a usage that has passed the check
  against the capacity of a third such volume is one's own or the claim is `Blurred`
  (`ClaimsShowTheirOwn`); `ProbeInv` adds what a probe between two
  awaits has already seen (`VerdictsHaveCause`); `CrdInv` is inductive as it
  stands (`OutagesLoggedOnce`).  `RoundInv` holds from the answer with the image
  repositories to the end of the round: what policies are joined with was held
  since the request; the emptied `scan_by_repo` of a failed request is what keeps
  it (`ScansAreOfTheirRound`).  `PodInv` says where a container's status keeps its
  last two exits, and that init containers succeed in order before any main one
  moves; it is an invariant of the kubelet, and of such statuses `map_pod` tells
  the truth (`KillsAreTold`, `NewestExitShown`, `StuckPodsTell`).

Replays and loops over a file are recursive functions.  The library's induction
theorems take an operator as a parameter, which the provers cannot instantiate, so
the proofs argue with sets: a set of naturals with 0 in it and closed under
successor holds them all (`NatSetInduction`, from the well-foundedness of `<`).

Only model-checked: every liveness property (out of the prover's reach), which
includes what the polled tables and the derived checks follow (`EachKindFollows`,
`ChecksFollowCluster`, `ClaimsFollow`, `SamplesFollow`, `AgentsFollow`).

## Findings

Each is a behaviour of the model that contradicts a statement of the repository; `PROJECT.json` quotes the lines.

1. SMART fields of a pulled drive outlive it in every browser (`series_smart`).
2. An object deleted in a watch gap stays until a restart (`watch_ghost`).
3. A YAML check's entry and history are deleted with the auto-discovered check
   that shares its name (`autochecks_shared`).

Contradictions that no run is spent on, since they are settled by reading:

* `history.py:54-57` says the connection is used by one thread at a time, but a
  cancelled `run()` closes it (142) while its worker thread may still insert
  (`History.Shutdown`, then `ThreadEnds`).
* An init container that runs on as a sidecar keeps `init_progress` on a running pod,
  against `k8s_watch.py:91-92`.
* "Bytes/s in+out since the previous /metrics call" (`node_agent.py:354`): an
  interface that cannot be read is skipped (342-343), so the sample after it reports
  that interface's whole counter as moved since the previous call.  `NothingTwice`
  exempts exactly this case; without the exemption TLC finds it.
* "one process-wide sample is enough" (`node_agent.py:441-443`) is said of devices; of
  the two replicas that poll it is not true when they meet: two requests that
  overlap read the same previous sample, and both tell the bytes since.
* "Bytes/s read+write since the previous /metrics call" (`node_agent.py:448`): the
  SMART counters change once a minute, and the whole minute's bytes are divided by
  the seconds since the last call.
* `pvc.py:81-88` wants no claim shown with "how full is the node": one without a quota
  that declares two thirds of its node's disk or more passes the check of line 89 and
  is, and so may be one made again between the list and the queries.  `UsageIsOwn`
  exempts exactly these (`Blurred`); without either exemption TLC finds them.
* `pvc.py:9-10` says an outage of Prometheus "never hides the PVC list itself"; one
  claim whose quantity `parse_mem` does not read (`metrics.py:47-59` knows neither
  "1Pi" nor "100k") keeps the whole list from being refreshed.

## Not modelled, and plan

* Lifespan and REST (`main.py`): starting the tasks, `readyz` (it promises one node
  and no more), `/api/state` (its worker thread against the event loop: what a
  concurrent copy of a dict can see depends on the interpreter, and the browser does
  not use the endpoint).  `History.Shutdown` models the cancellation.
* Two replicas on one node with one history file: `history.py:9-10` excludes it.
* `load_config` failing ends the watch task for good; nothing happens afterwards.
* The ring of events after a relist holds duplicates; nothing promises otherwise.
* Mappers that only select fields (workloads, HPAs, policies, Secrets, ConfigMaps,
  nodes), `/metrics` readers of single files, the CSV report, the pod-log stream
  (stateless), token cryptography.
* Rendering (`frontend/src/pages.tsx`), the demo simulator (random calls of operations
  the models already order freely), the offline experiments under `ml/`, manifests
  and build files.

Next: lemmas about `Discovery` (`route_checks` and `service_checks` against
`Targets`) and about one whole round of each poller, the safety half of what
`ChecksFollowCluster` and its like promise; a module of two replicas behind one
Service.
