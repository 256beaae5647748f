----------------------------- MODULE PvcPoller ------------------------------
(***************************************************************************)
(* The claims table and its poller (backend/app/collectors/pvc.py): the    *)
(* list from the API server, then two Prometheus queries whose answers are *)
(* merged into it, each of the three from a moment of its own.             *)
(*                                                                         *)
(* Prometheus reports the usage of bound claims.  A volume with a quota of *)
(* its own is measured itself; for one without, the kubelet reports the    *)
(* disk of the node instead (pvc.py:81-88).  A claim deleted and made      *)
(* again may be of another class, with a quota or without.  Sizes are      *)
(* whole units, a percentage is its numerator and denominator.             *)
(***************************************************************************)
EXTENDS Naturals

CONSTANTS
  Claims,      \* names
  Volumes,     \* bound: what a claim may be
  Disk,        \* the size of a node's disk
  None, Failed,
  MaxClaimChanges   \* bound: changes of claims and outages

\* declared: its capacity, None until it is bound; fill: what is stored on it;
\* legible: its quantities are among those that parse_mem reads.
Volume == [declared : (Nat \ {0}) \union {None}, fill : Nat, quota : BOOLEAN, legible : BOOLEAN]

\* Of the constants; Collectors assumes it.
PvcAssumption ==
  /\ Volumes \subseteq Volume
  /\ Disk \in Nat \ {0}
  /\ None \notin Volume \union Nat
  /\ MaxClaimChanges \in Nat

VARIABLES
  url,        \* PIWATCH_PROMETHEUS_URL is set
  claims,     \* the cluster's claims, None if there is none of the name
  lost,       \* the sources that do not answer, of "api" and "prometheus"
  claimChanges,
  at,         \* "list", "used", "capacity", "set" or "retry"
  items,      \* the round's rows
  used,       \* the first query's answer
  pvcs,       \* state.pvcs
  prom_warned,
  \* History variable, read by no guard:
  had         \* what each claim has been since the round's list was answered

pvcVars == <<url, claims, lost, claimChanges, at, items, used, pvcs, prom_warned, had>>
envVars == <<url, claims, lost, claimChanges>>

map_pvc(c) == [declared |-> c.declared, usage |-> None]

PvcInit ==
  /\ url \in BOOLEAN
  /\ claims = [c \in Claims |-> None]
  /\ lost = {}
  /\ claimChanges = 0
  /\ at = "list"
  /\ items = [c \in Claims |-> None]
  /\ used = [c \in Claims |-> None]
  /\ pvcs = [c \in Claims |-> None]
  /\ prom_warned = FALSE
  /\ had = [c \in Claims |-> {}]

-----------------------------------------------------------------------------
Merging == at \in {"used", "capacity", "set"}

\* A claim is made, bound, expanded, deleted, or made again as another one; a
\* source fails or recovers.
ClaimsChange ==
  /\ claimChanges < MaxClaimChanges
  /\ claimChanges' = claimChanges + 1
  /\ \/ /\ \E c \in Claims, v \in Volumes \union {None} :
             /\ claims' = [claims EXCEPT ![c] = v]
             /\ had' = IF Merging THEN [had EXCEPT ![c] = @ \union {v}] ELSE had
        /\ UNCHANGED lost
     \/ /\ \E s \in {"api", "prometheus"} :
             lost' = IF s \in lost THEN lost \ {s} ELSE lost \union {s}
        /\ UNCHANGED <<claims, had>>
  /\ UNCHANGED <<url, at, items, used, pvcs, prom_warned>>

Bound(v) == v # None /\ v.declared # None

\* kubelet_volume_stats_used_bytes and _capacity_bytes of a claim.  A file system
\* of its own may be half as large again as was declared.
UsedBytes(v) == IF ~Bound(v) THEN None ELSE IF v.quota THEN v.fill ELSE Disk - 1
CapacityBytes(v) ==
  IF ~Bound(v) THEN None ELSE IF v.quota THEN (3 * v.declared) \div 2 ELSE Disk

\* parse_mem raises on a quantity it has no suffix for.
Mappable == \A c \in Claims : claims[c] # None => claims[c].legible

\* The list of claims; without it, or with a claim that cannot be mapped, the
\* round ends, and is tried again later.
ListClaims ==
  /\ at = "list"
  /\ IF "api" \in lost \/ ~Mappable
     THEN at' = "retry" /\ UNCHANGED <<items, had>>
     ELSE /\ items' = [c \in Claims |-> IF claims[c] = None THEN None ELSE map_pvc(claims[c])]
          /\ had' = [c \in Claims |-> {claims[c]}]
          /\ at' = IF url THEN "used" ELSE "set"
  /\ UNCHANGED <<envVars, used, pvcs, prom_warned>>

Retry ==
  /\ at = "retry"
  /\ at' = "list"
  /\ UNCHANGED <<envVars, items, used, pvcs, prom_warned, had>>

\* Mutant: the failure reaches the outer except, which lists again later.
PrometheusFailsRound ==
  /\ at \in {"used", "capacity"}
  /\ "prometheus" \in lost
  /\ prom_warned' = TRUE
  /\ at' = "retry"
  /\ had' = [c \in Claims |-> {}]
  /\ UNCHANGED <<envVars, items, used, pvcs>>

\* A query fails: the rows stay as they were listed.
PrometheusFails ==
  /\ at \in {"used", "capacity"}
  /\ "prometheus" \in lost
  /\ prom_warned' = TRUE
  /\ at' = "set"
  /\ UNCHANGED <<envVars, items, used, pvcs, had>>

QueryUsed ==
  /\ at = "used"
  /\ "prometheus" \notin lost
  /\ used' = [c \in Claims |-> UsedBytes(claims[c])]
  /\ at' = "capacity"
  /\ UNCHANGED <<envVars, items, pvcs, prom_warned, had>>

\* Mutant: whatever Prometheus reports is shown.
MergedUnchecked(row, u, c) ==
  IF row = None \/ u = None \/ c = None THEN row
  ELSE IF row.declared = None THEN row
  ELSE [row EXCEPT !.usage = [u |-> u, of |-> row.declared]]

\* The usage of one claim: none when the capacity reported for it is more than
\* half again what it declares.
Merged(row, u, c) ==
  IF row = None \/ u = None \/ c = None THEN row
  ELSE IF row.declared = None THEN row
  ELSE IF 2 * c > 3 * row.declared THEN row
  ELSE [row EXCEPT !.usage = [u |-> u, of |-> row.declared]]

QueryCapacity ==
  /\ at = "capacity"
  /\ "prometheus" \notin lost
  /\ items' = [c \in Claims |-> Merged(items[c], used[c], CapacityBytes(claims[c]))]
  /\ prom_warned' = FALSE
  /\ at' = "set"
  /\ UNCHANGED <<envVars, used, pvcs, had>>

\* set_pvcs, and the pause.
SetPvcs ==
  /\ at = "set"
  /\ pvcs' = items
  /\ at' = "list"
  /\ had' = [c \in Claims |-> {}]
  /\ UNCHANGED <<envVars, items, used, prom_warned>>

PvcPoll == ListClaims \/ Retry \/ PrometheusFails \/ QueryUsed \/ QueryCapacity \/ SetPvcs
PvcNext == ClaimsChange \/ PvcPoll
-----------------------------------------------------------------------------
\* Where the check of the capacity (pvc.py:89) tells nothing: a claim without a
\* quota that declares two thirds of its disk or more, and one that was made again
\* with a quota, or without, between the three answers.
Blurred(c) ==
  \E v, w \in had[c] :
    /\ Bound(v) /\ Bound(w)
    /\ v.quota # w.quota \/ (~v.quota /\ 3 * v.declared >= 2 * Disk)

\* But for those, the usage a round shows of a claim is what was stored on a volume
\* the claim has had since the round's list, never the fill of a node's disk
\* (pvc.py:81-88, "Caught live: a 256Mi PVC using 25-38GiB") and never an answer of
\* an earlier round, in whatever order claims change and the answers are taken.
UsageIsOwn ==
  pvcs' # pvcs =>
    \A c \in Claims :
      pvcs'[c] # None /\ pvcs'[c].usage # None /\ ~Blurred(c) =>
        \E v \in had[c] : Bound(v) /\ v.quota /\ pvcs'[c].usage.u = v.fill

PassesCheck(v) == Bound(v) /\ (v.quota \/ 3 * v.declared >= 2 * Disk)

\* "a Prometheus outage only blanks the usage numbers, it never hides the PVC
\* list itself" (pvc.py:9-10): once the API answers for good and every claim can be
\* mapped, the table is the cluster's claims, with the usage that passes the check
\* while Prometheus answers, and without any while it does not.
ClaimsFollow ==
  <>[]( "api" \notin lost /\ Mappable =>
          \A c \in Claims :
            pvcs[c] = IF claims[c] = None THEN None
                      ELSE [declared |-> claims[c].declared,
                            usage |-> IF url /\ "prometheus" \notin lost /\ PassesCheck(claims[c])
                                      THEN [u |-> UsedBytes(claims[c]), of |-> claims[c].declared]
                                      ELSE None] )
=============================================================================
