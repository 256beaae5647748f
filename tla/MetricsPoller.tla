--------------------------- MODULE MetricsPoller ----------------------------
(***************************************************************************)
(* The metrics-server poller (backend/app/collectors/metrics.py): node     *)
(* usage recorded as a share of the node's capacity, then pod usage, from  *)
(* two requests per round.  What the samples become in node_metrics and    *)
(* its ring is SeriesFeed's.                                               *)
(*                                                                         *)
(* The tables of nodes and pods are k8s_watch's, and change while a        *)
(* request is under way.  A usage is a number of units, or Garbled: a      *)
(* quantity that cannot be parsed, or a missing key.                       *)
(***************************************************************************)
EXTENDS Naturals

CONSTANTS
  Nodes, Pods,
  None, Failed, Garbled,
  Usages,            \* bound: what a node or a pod may use
  Capacities,        \* bound: what a node may have
  DefaultCapacity,   \* 4 cores and 8Gi
  MaxMetricChanges   \* bound: changes of the cluster and outages

\* Of the constants; Collectors assumes it.
MetricsAssumption ==
  /\ Usages \subseteq Nat
  /\ Capacities \union {DefaultCapacity} \subseteq Nat \ {0}
  /\ MaxMetricChanges \in Nat

VARIABLES
  nodes,         \* state.nodes: the capacity of each listed node, or None
  pods,          \* state.pods: the listed ones
  usage,         \* what the metrics-server reports of each node and pod, or None
  silent,        \* the two requests that fail, of "nodes" and "pods"
  metricChanges,
  doing,         \* "nodes", "pods" or "retry"
  taken,         \* the answer under way, or None
  node_metrics,  \* of each node the last sample: usage and the capacity it is a share of
  pod_metrics    \* state.pod_metrics

worldVars == <<nodes, pods, usage, silent, metricChanges>>
metricVars == <<worldVars, doing, taken, node_metrics, pod_metrics>>

Readings == Usages \union {Garbled, None}

MetricsInit ==
  /\ nodes = [n \in Nodes |-> None]
  /\ pods = {}
  /\ usage = [x \in Nodes \union Pods |-> None]
  /\ silent = {}
  /\ metricChanges = 0
  /\ doing = "nodes"
  /\ taken = None
  /\ node_metrics = [n \in Nodes |-> None]
  /\ pod_metrics = [p \in Pods |-> None]

-----------------------------------------------------------------------------
\* remove_pod takes the pod's sample with it.
WorldChange ==
  /\ metricChanges < MaxMetricChanges
  /\ metricChanges' = metricChanges + 1
  /\ \/ /\ \E n \in Nodes, c \in Capacities : nodes' = [nodes EXCEPT ![n] = c]
        /\ UNCHANGED <<pods, usage, silent, pod_metrics>>
     \/ /\ \E p \in Pods :
             IF p \in pods
             THEN pods' = pods \ {p} /\ pod_metrics' = [pod_metrics EXCEPT ![p] = None]
             ELSE pods' = pods \union {p} /\ UNCHANGED pod_metrics
        /\ UNCHANGED <<nodes, usage, silent>>
     \/ /\ \E x \in Nodes \union Pods, u \in Readings : usage' = [usage EXCEPT ![x] = u]
        /\ UNCHANGED <<nodes, pods, silent, pod_metrics>>
     \/ /\ \E s \in {"nodes", "pods"} :
             silent' = IF s \in silent THEN silent \ {s} ELSE silent \union {s}
        /\ UNCHANGED <<nodes, pods, usage, pod_metrics>>
  /\ UNCHANGED <<doing, taken, node_metrics>>

\* The metrics-server answers, or fails.
RequestMetrics ==
  /\ doing \in {"nodes", "pods"}
  /\ taken = None
  /\ taken' = IF doing \in silent THEN Failed
              ELSE [x \in (IF doing = "nodes" THEN Nodes ELSE Pods) |-> usage[x]]
  /\ UNCHANGED <<worldVars, doing, node_metrics, pod_metrics>>

\* parse_cpu and parse_mem raise ValueError for what is not a quantity.
Readable(x) == taken[x] \notin {None, Garbled}

\* Mutant: a garbled item raises out of the loop, and nothing is recorded.
RecordNodesAllOrNothing ==
  /\ doing = "nodes"
  /\ taken \notin {None, Failed}
  /\ node_metrics' = IF \E n \in Nodes : taken[n] = Garbled THEN node_metrics
       ELSE [n \in Nodes |-> IF ~Readable(n) THEN node_metrics[n]
              ELSE [used |-> taken[n],
                    of |-> IF nodes[n] # None THEN nodes[n] ELSE DefaultCapacity]]
  /\ doing' = "pods"
  /\ taken' = None
  /\ UNCHANGED <<worldVars, pod_metrics>>

\* Each readable item is recorded, against the capacity listed by now.
RecordNodes ==
  /\ doing = "nodes"
  /\ taken \notin {None, Failed}
  /\ node_metrics' = [n \in Nodes |->
       IF ~Readable(n) THEN node_metrics[n]
       ELSE [used |-> taken[n],
             of |-> IF nodes[n] # None THEN nodes[n] ELSE DefaultCapacity]]
  /\ doing' = "pods"
  /\ taken' = None
  /\ UNCHANGED <<worldVars, pod_metrics>>

\* record_pod_sample asks for no entry in the table of pods.
RecordPods ==
  /\ doing = "pods"
  /\ taken \notin {None, Failed}
  /\ pod_metrics' = [p \in Pods |-> IF Readable(p) THEN taken[p] ELSE pod_metrics[p]]
  /\ doing' = "nodes"
  /\ taken' = None
  /\ UNCHANGED <<worldVars, node_metrics>>

\* Either request fails: the rest of the round is given up.
MetricsFail ==
  /\ taken = Failed
  /\ doing' = "retry"
  /\ taken' = None
  /\ UNCHANGED <<worldVars, node_metrics, pod_metrics>>

MetricsRetry ==
  /\ doing = "retry"
  /\ doing' = "nodes"
  /\ UNCHANGED <<worldVars, taken, node_metrics, pod_metrics>>

MetricsPoll == RequestMetrics \/ RecordNodes \/ RecordPods \/ MetricsFail \/ MetricsRetry
MetricsNext == WorldChange \/ MetricsPoll
-----------------------------------------------------------------------------
\* In a cluster that falls silent every node with a readable usage is shown with
\* it, as a share of its own capacity once it is listed, whatever the other
\* items say and also while the request for pods fails; and every pod while both
\* are answered (metrics.py:1-4, 90-91).
SamplesFollow ==
  <>[]( "nodes" \notin silent =>
        /\ \A n \in Nodes : usage[n] \in Usages =>
             node_metrics[n] = [used |-> usage[n],
                                of |-> IF nodes[n] # None THEN nodes[n] ELSE DefaultCapacity]
        /\ "pods" \notin silent =>
             \A p \in Pods : usage[p] \in Usages => pod_metrics[p] = usage[p] )
=============================================================================
