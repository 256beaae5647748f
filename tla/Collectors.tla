----------------------------- MODULE Collectors -----------------------------
(***************************************************************************)
(* The collectors that fill ClusterState from polled sources, side by      *)
(* side: the loops of Flux and Gateway API resources (CrdPoller), claims   *)
(* (PvcPoller), usage (MetricsPoller) and hardware agents                  *)
(* (HardwarePoller), the probes of healthchecks (Probes), and the rows     *)
(* made of pods (PodRow).  They are asyncio tasks (main.py) whose tables   *)
(* are disjoint and which read nothing another one of them writes, so that *)
(* a behaviour follows one, `active`, and the others stand still.          *)
(***************************************************************************)
EXTENDS Naturals, Sequences

CONSTANTS
  None, Failed, Garbled,
  Menu, Starts, MaxChanges,
  Claims, Volumes, Disk, MaxClaimChanges,
  Nodes, Pods, Usages, Capacities, DefaultCapacity, MaxMetricChanges,
  NumInits, NumMains, MaxExits,
  Ips, AgentNodes, Memories, MaxAgentChanges,
  Codes

VARIABLES
  active,
  poller, content, down, changes, step, reply, scans, tables, warned, listed, ghosts, told, recent,
  url, claims, lost, claimChanges, at, items, used, pvcs, prom_warned, had,
  nodes, pods, usage, silent, metricChanges, doing, taken, node_metrics, pod_metrics,
  policy, init, main, exits, deaths,
  agents, vitals, mute, resolved, agentChanges, ips, answer, hardware,
  kind, expected, target, stage, ok, seen_targets

Crd == INSTANCE CrdPoller
Pvc == INSTANCE PvcPoller
Metrics == INSTANCE MetricsPoller
Pod == INSTANCE PodRow
Hardware == INSTANCE HardwarePoller
Probe == INSTANCE Probes

ASSUME CollectorsAssumption ==
  /\ Crd!CrdAssumption
  /\ Pvc!PvcAssumption
  /\ Metrics!MetricsAssumption
  /\ Pod!PodAssumption
  /\ Hardware!HardwareAssumption
  /\ Probe!ProbesAssumption

crdVars == <<poller, content, down, changes, step, reply, scans, tables, warned, listed, ghosts, told, recent>>
pvcVars == <<url, claims, lost, claimChanges, at, items, used, pvcs, prom_warned, had>>
metricVars == <<nodes, pods, usage, silent, metricChanges, doing, taken, node_metrics, pod_metrics>>
podVars == <<policy, init, main, exits, deaths>>
hardwareVars == <<agents, vitals, mute, resolved, agentChanges, ips, answer, hardware>>
probeVars == <<kind, expected, target, stage, ok, seen_targets>>
vars == <<active, crdVars, pvcVars, metricVars, podVars, hardwareVars, probeVars>>

\* What stands still has one state to stand in.
Init ==
  /\ active \in {"crd", "pvc", "metrics", "pod", "hardware", "probe"}
  /\ Crd!CrdInit /\ (active # "crd" => poller = "flux" /\ down = {} /\ content = CHOOSE c \in Starts : TRUE)
  /\ Pvc!PvcInit /\ (active # "pvc" => ~url)
  /\ Metrics!MetricsInit
  /\ Pod!PodInit /\ (active # "pod" => policy = "Never")
  /\ Hardware!HardwareInit /\ (active # "hardware" => agents = [ip \in Ips |-> None])
  /\ Probe!ProbesInit /\ (active # "probe" => kind = "dns" /\ target = None)

\* What the others keep while one takes a step.
CrdAlone == active = "crd" /\ UNCHANGED <<active, pvcVars, metricVars, podVars, hardwareVars, probeVars>>
PvcAlone == active = "pvc" /\ UNCHANGED <<active, crdVars, metricVars, podVars, hardwareVars, probeVars>>
MetricsAlone == active = "metrics" /\ UNCHANGED <<active, crdVars, pvcVars, podVars, hardwareVars, probeVars>>
PodAlone == active = "pod" /\ UNCHANGED <<active, crdVars, pvcVars, metricVars, hardwareVars, probeVars>>
HardwareAlone == active = "hardware" /\ UNCHANGED <<active, crdVars, pvcVars, metricVars, podVars, probeVars>>
ProbeAlone == active = "probe" /\ UNCHANGED <<active, crdVars, pvcVars, metricVars, podVars, hardwareVars>>

Next ==
  \/ CrdAlone /\ Crd!CrdNext
  \/ PvcAlone /\ Pvc!PvcNext
  \/ MetricsAlone /\ Metrics!MetricsNext
  \/ PodAlone /\ Pod!PodNext
  \/ HardwareAlone /\ Hardware!HardwareNext
  \/ ProbeAlone /\ Probe!ProbesNext

Poll ==
  \/ CrdAlone /\ Crd!CrdPoll
  \/ PvcAlone /\ Pvc!PvcPoll
  \/ MetricsAlone /\ Metrics!MetricsPoll
  \/ HardwareAlone /\ Hardware!HardwarePoll

\* What a poller reads besides: the watch's table of Services, and DNS.
Feed ==
  \/ CrdAlone /\ Crd!SeeServices
  \/ HardwareAlone /\ Hardware!Endpoints

\* A request ends (httpx and the API client give up after their timeouts), a
\* pause ends, the watch delivers, and DNS follows the endpoints.
Fairness == WF_vars(Poll) /\ WF_vars(Feed)

Spec == Init /\ [][Next]_vars /\ Fairness
-----------------------------------------------------------------------------
\* CrdPoller: the log of a poller tells of each outage once.
LoggedOncePerOutage == active = "crd" => Crd!LoggedOncePerOutage

\* CrdPoller: image policies are never joined with the scans of another round.
ScansOfOneRound == [][active = "crd" => Crd!ScansOfOneRound]_vars

\* CrdPoller: each kind is refreshed whatever the others do.
EachKindFollows == active = "crd" => Crd!EachKindFollows

\* CrdPoller, Discovery: health checks follow routes, gateways and Services, but
\* for Services deleted between two watches.
ChecksFollowCluster == active = "crd" => Crd!ChecksFollowCluster

\* PvcPoller: a claim is not shown with the usage of the node's disk.
UsageIsOwn == [][active = "pvc" => Pvc!UsageIsOwn]_vars

\* PvcPoller: claims are shown whatever Prometheus does.
ClaimsFollow == active = "pvc" => Pvc!ClaimsFollow

\* MetricsPoller: one bad item or request costs nothing but its own samples.
SamplesFollow == active = "metrics" => Metrics!SamplesFollow

\* PodRow: a kill for memory survives the restart of its container.
OomNotForgotten == active = "pod" => Pod!OomNotForgotten

\* PodRow: the exit shown is one termination, and the newest.
LastExitIsNewest == active = "pod" => Pod!LastExitIsNewest

\* PodRow: a pod that is stuck in its init containers says where and why.
InitTellsWhatBlocks == active = "pod" => Pod!InitTellsWhatBlocks

\* HardwarePoller: nodes are shown with their vitals whatever other agents do.
AgentsFollow == active = "hardware" => Hardware!AgentsFollow

\* Probes: the result of a probe is one the target gave cause for.
VerdictOfItsProbe == active = "probe" => Probe!VerdictOfItsProbe
=============================================================================
