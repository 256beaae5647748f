-------------------------- MODULE CollectorsProofs --------------------------
(* Safety of the pollers in Collectors, for any number of claims, changes   *)
(* and outages.                                                             *)
EXTENDS Collectors, FiniteSetTheorems, WellFoundedInduction, TLAPS

-----------------------------------------------------------------------------
(* Claims                                                                  *)

\* What the round has been told of a claim: its row from the list, and the first
\* query's answer, each about something the claim has been since the list.
Listed(c) == items[c] = None \/ \E v \in had[c] : v # None /\ items[c] = Pvc!map_pvc(v)
Used(c) == \E v \in had[c] : used[c] = Pvc!UsedBytes(v)

\* The usage of a row is of a volume of its own, unless the check tells nothing.
Shown(c) ==
  items[c] # None /\ items[c].usage # None /\ ~Pvc!Blurred(c) =>
    \E v \in had[c] : Pvc!Bound(v) /\ v.quota /\ items[c].usage.u = v.fill

PvcInv ==
  /\ claims \in [Claims -> Pvc!Volume \union {None}]
  /\ had \in [Claims -> SUBSET (Pvc!Volume \union {None})]
  /\ Pvc!Merging => \A c \in Claims : claims[c] \in had[c]
  /\ at \in {"used", "capacity"} => \A c \in Claims : Listed(c)
  /\ at = "capacity" => \A c \in Claims : Used(c)
  /\ at = "set" => \A c \in Claims : Shown(c)

\* The check of pvc.py:89: of three volumes that agree in having a quota, and none
\* of which declares two thirds of its disk without one, a usage passes it only if
\* they have a quota, and then it is what is stored on the second.
LEMMA CheckPassed ==
  ASSUME NEW first \in Pvc!Volume, NEW second \in Pvc!Volume \union {None},
         NEW third \in Pvc!Volume \union {None},
         \A v \in {first, second, third}, w \in {first, second, third} :
           Pvc!Bound(v) /\ Pvc!Bound(w) =>
             v.quota = w.quota /\ (v.quota \/ 3 * v.declared < 2 * Disk),
         Pvc!Merged(Pvc!map_pvc(first), Pvc!UsedBytes(second), Pvc!CapacityBytes(third)).usage # None
  PROVE  /\ Pvc!Bound(second) /\ second.quota
         /\ Pvc!Merged(Pvc!map_pvc(first), Pvc!UsedBytes(second),
                       Pvc!CapacityBytes(third)).usage.u = second.fill
<1> DEFINE row == Pvc!map_pvc(first)
           u == Pvc!UsedBytes(second)
           k == Pvc!CapacityBytes(third)
<1>1. row = [declared |-> first.declared, usage |-> None]
  BY DEF Pvc!map_pvc
<1> HIDE DEF row, u, k
<1>2. /\ u # None /\ k # None /\ row.declared # None /\ ~(2 * k > 3 * row.declared)
      /\ Pvc!Merged(row, u, k) = [row EXCEPT !.usage = [u |-> u, of |-> row.declared]]
  BY <1>1 DEF Pvc!Merged, row, u, k
<1>3. Pvc!Merged(row, u, k).usage.u = u
  BY <1>1, <1>2
<1>4. Pvc!Bound(first) /\ Pvc!Bound(second) /\ Pvc!Bound(third)
  <2>1. first # None
    BY CollectorsAssumption DEF Pvc!PvcAssumption
  <2> QED BY <1>1, <1>2, <2>1 DEF Pvc!Bound, Pvc!UsedBytes, Pvc!CapacityBytes, u, k
<1>5. second.quota
  <2> SUFFICES ASSUME ~second.quota PROVE FALSE
    OBVIOUS
  <2>1. ~third.quota /\ ~first.quota /\ 3 * first.declared < 2 * Disk
    BY <1>4
  <2>2. k = Disk
    BY <1>4, <2>1 DEF Pvc!CapacityBytes, k
  <2>3. Disk \in Nat /\ first.declared \in Nat
    BY <1>4, CollectorsAssumption DEF Pvc!PvcAssumption, Pvc!Volume, Pvc!Bound
  <2> QED BY <1>1, <1>2, <2>1, <2>2, <2>3
<1>6. u = second.fill
  BY <1>4, <1>5 DEF Pvc!UsedBytes, u
<1> QED BY <1>3, <1>4, <1>5, <1>6 DEF row, u, k

\* What had[c] gains keeps what was said of it.
LEMMA HadGrows ==
  ASSUME NEW c \in Claims, had[c] \subseteq had'[c], items'[c] = items[c], used'[c] = used[c]
  PROVE  /\ Listed(c) => Listed(c)'
         /\ Used(c) => Used(c)'
         /\ Shown(c) => Shown(c)'
<1>1. Listed(c) => Listed(c)'
  BY DEF Listed
<1>2. Used(c) => Used(c)'
  BY DEF Used
<1>3. Pvc!Blurred(c) => Pvc!Blurred(c)'
  BY DEF Pvc!Blurred
<1>4. Shown(c) => Shown(c)'
  BY <1>3 DEF Shown
<1> QED BY <1>1, <1>2, <1>4

\* A row as it was listed has no usage.
LEMMA ListedShown == ASSUME NEW c, Listed(c) PROVE Shown(c)
<1> SUFFICES ASSUME items[c] # None, items[c].usage # None PROVE FALSE
  BY DEF Shown
<1>1. PICK v \in had[c] : items[c] = Pvc!map_pvc(v)
  BY DEF Listed
<1>2. items[c].usage = None
  BY <1>1 DEF Pvc!map_pvc
<1> QED BY <1>2

LEMMA MergedShown ==
  ASSUME PvcInv, Pvc!QueryCapacity, NEW c \in Claims
  PROVE  Shown(c)'
<1>1. /\ Listed(c) /\ Used(c) /\ claims[c] \in had[c] /\ had' = had
      /\ had[c] \subseteq Pvc!Volume \union {None}
      /\ items'[c] = Pvc!Merged(items[c], used[c], Pvc!CapacityBytes(claims[c]))
  BY DEF PvcInv, Pvc!Merging, Pvc!QueryCapacity
<1>2. SUFFICES ASSUME items'[c] # None, items'[c].usage # None, ~Pvc!Blurred(c)
               PROVE  \E v \in had[c] : Pvc!Bound(v) /\ v.quota /\ items'[c].usage.u = v.fill
  BY <1>1 DEF Shown, Pvc!Blurred
<1>3. items[c] # None
  BY <1>1, <1>2 DEF Pvc!Merged
<1>4. PICK first \in had[c] : first # None /\ items[c] = Pvc!map_pvc(first)
  BY <1>1, <1>3 DEF Listed
<1>5. PICK second \in had[c] : used[c] = Pvc!UsedBytes(second)
  BY <1>1 DEF Used
<1> DEFINE third == claims[c]
<1>6. third \in had[c]
  BY <1>1
<1> HIDE DEF third
<1>7. \A v \in had[c], w \in had[c] :
        Pvc!Bound(v) /\ Pvc!Bound(w) =>
          v.quota = w.quota /\ (v.quota \/ 3 * v.declared < 2 * Disk)
  <2> SUFFICES ASSUME NEW v \in had[c], NEW w \in had[c], Pvc!Bound(v), Pvc!Bound(w)
               PROVE  v.quota = w.quota /\ (v.quota \/ 3 * v.declared < 2 * Disk)
    OBVIOUS
  <2>1. v.quota = w.quota /\ (v.quota \/ ~(3 * v.declared >= 2 * Disk))
    BY <1>2 DEF Pvc!Blurred
  <2>2. v.declared \in Nat /\ Disk \in Nat
    BY <1>1, CollectorsAssumption DEF Pvc!PvcAssumption, Pvc!Volume, Pvc!Bound
  <2> QED BY <2>1, <2>2
<1>8. items'[c] = Pvc!Merged(Pvc!map_pvc(first), Pvc!UsedBytes(second), Pvc!CapacityBytes(third))
  BY <1>1, <1>4, <1>5 DEF third
<1>9. Pvc!Bound(second) /\ second.quota /\ items'[c].usage.u = second.fill
  BY <1>1, <1>2, <1>4, <1>5, <1>6, <1>7, <1>8, CheckPassed
<1> QED BY <1>5, <1>9

LEMMA PvcStep == PvcInv /\ [Next]_vars => PvcInv'
<1> SUFFICES ASSUME PvcInv, [Next]_vars PROVE PvcInv'
  OBVIOUS
<1>1. CASE UNCHANGED pvcVars
  BY <1>1 DEF pvcVars, PvcInv, Pvc!Merging, Listed, Used, Shown, Pvc!Blurred
<1>2. CASE Pvc!PvcNext
  <2>1. CASE Pvc!ClaimsChange
    <3>1. /\ claims' \in [Claims -> Pvc!Volume \union {None}]
          /\ had' \in [Claims -> SUBSET (Pvc!Volume \union {None})]
          /\ Pvc!Merging => \A c \in Claims : claims'[c] \in had'[c]
          /\ \A c \in Claims : had[c] \subseteq had'[c]
          /\ UNCHANGED <<at, items, used>>
      <4>1. CASE UNCHANGED <<claims, had>>
        BY <2>1, <4>1 DEF Pvc!ClaimsChange, PvcInv
      <4>2. ASSUME NEW x \in Claims, NEW v \in Volumes \union {None},
                   claims' = [claims EXCEPT ![x] = v],
                   had' = IF Pvc!Merging THEN [had EXCEPT ![x] = @ \union {v}] ELSE had
            PROVE  /\ claims' \in [Claims -> Pvc!Volume \union {None}]
                   /\ had' \in [Claims -> SUBSET (Pvc!Volume \union {None})]
                   /\ Pvc!Merging => \A c \in Claims : claims'[c] \in had'[c]
                   /\ \A c \in Claims : had[c] \subseteq had'[c]
        <5>1. v \in Pvc!Volume \union {None}
          BY CollectorsAssumption DEF Pvc!PvcAssumption
        <5> QED BY <4>2, <5>1 DEF PvcInv
      <4> QED BY <2>1, <4>1, <4>2 DEF Pvc!ClaimsChange
    <3> QED BY <3>1, HadGrows DEF PvcInv, Pvc!Merging
  <2>2. CASE Pvc!ListClaims
    <3>1. CASE at' = "retry"
      BY <2>2, <3>1 DEF Pvc!ListClaims, Pvc!envVars, PvcInv, Pvc!Merging
    <3>2. CASE at' # "retry"
      <4>1. /\ at' \in {"used", "set"} /\ claims' = claims
            /\ had' = [c \in Claims |-> {claims[c]}]
            /\ \A c \in Claims :
                 items'[c] = IF claims[c] = None THEN None ELSE Pvc!map_pvc(claims[c])
        BY <2>2, <3>2 DEF Pvc!ListClaims, Pvc!envVars
      <4>2. \A c \in Claims : Listed(c)'
        BY <4>1 DEF Listed
      <4>3. \A c \in Claims : Shown(c)'
        <5> SUFFICES ASSUME NEW c \in Claims, items'[c] # None, items'[c].usage # None
                     PROVE  FALSE
          BY DEF Shown
        <5>1. items'[c] = Pvc!map_pvc(claims[c])
          BY <4>1
        <5>2. items'[c].usage = None
          BY <5>1 DEF Pvc!map_pvc
        <5> QED BY <5>2
      <4> QED BY <4>1, <4>2, <4>3 DEF PvcInv, Pvc!Merging
    <3> QED BY <3>1, <3>2
  <2>3. CASE Pvc!PrometheusFails
    <3>1. \A c \in Claims : Shown(c)
      BY <2>3, ListedShown DEF Pvc!PrometheusFails, PvcInv
    <3>2. at' = "set" /\ at \in {"used", "capacity"} /\ UNCHANGED <<claims, items, used, had>>
      BY <2>3 DEF Pvc!PrometheusFails, Pvc!envVars
    <3> QED BY <3>1, <3>2, HadGrows DEF PvcInv, Pvc!Merging
  <2>4. CASE Pvc!QueryUsed
    <3>1. /\ at = "used" /\ at' = "capacity" /\ UNCHANGED <<claims, items, had>>
          /\ \A c \in Claims : used'[c] = Pvc!UsedBytes(claims[c])
      BY <2>4 DEF Pvc!QueryUsed, Pvc!envVars
    <3>2. \A c \in Claims : Used(c)'
      BY <3>1 DEF Used, PvcInv, Pvc!Merging
    <3>3. \A c \in Claims : Listed(c)'
      BY <3>1 DEF Listed, PvcInv
    <3> QED BY <3>1, <3>2, <3>3 DEF PvcInv, Pvc!Merging
  <2>5. CASE Pvc!QueryCapacity
    <3>1. at = "capacity" /\ at' = "set" /\ UNCHANGED <<claims, had>>
      BY <2>5 DEF Pvc!QueryCapacity, Pvc!envVars
    <3> QED BY <2>5, <3>1, MergedShown DEF PvcInv, Pvc!Merging
  <2>6. CASE Pvc!Retry
    BY <2>6 DEF Pvc!Retry, Pvc!envVars, PvcInv, Pvc!Merging
  <2>7. CASE Pvc!SetPvcs
    BY <2>7 DEF Pvc!SetPvcs, Pvc!envVars, PvcInv, Pvc!Merging
  <2> QED BY <1>2, <2>1, <2>2, <2>3, <2>4, <2>5, <2>6, <2>7 DEF Pvc!PvcNext, Pvc!PvcPoll
<1> QED BY <1>1, <1>2
        DEF Next, vars, CrdAlone, PvcAlone, MetricsAlone, PodAlone, HardwareAlone, ProbeAlone

\* Only the end of a round replaces the table.
LEMMA TableReplaced == ASSUME [Next]_vars, pvcs' # pvcs PROVE Pvc!SetPvcs
BY DEF Next, vars, pvcVars, CrdAlone, PvcAlone, MetricsAlone, PodAlone, HardwareAlone, ProbeAlone,
       Pvc!PvcNext, Pvc!PvcPoll, Pvc!ClaimsChange, Pvc!ListClaims, Pvc!PrometheusFails,
       Pvc!QueryUsed, Pvc!QueryCapacity, Pvc!Retry

\* For any volumes and any disk, and however claims change between the answers: the
\* usage shown is of a volume of the claim's own that it has had in this round, but
\* where the check of the capacity tells nothing.
THEOREM ClaimsShowTheirOwn == Spec => UsageIsOwn
<1>1. Init => PvcInv
  BY DEF Init, PvcInv, Pvc!PvcInit, Pvc!Merging
<1>2. PvcInv /\ [Next]_vars => (active = "pvc" => Pvc!UsageIsOwn)
  <2> SUFFICES ASSUME PvcInv, [Next]_vars, pvcs' # pvcs PROVE Pvc!UsageIsOwn
    BY DEF Pvc!UsageIsOwn
  <2>1. at = "set" /\ pvcs' = items
    BY TableReplaced DEF Pvc!SetPvcs
  <2> QED BY <2>1 DEF PvcInv, Shown, Pvc!UsageIsOwn
<1> QED BY <1>1, <1>2, PvcStep, PTL DEF Spec, UsageIsOwn

-----------------------------------------------------------------------------
(* Probes                                                                  *)

\* What the target is now, it has been during the probe; a connection that was
\* made, and what is recorded, had a cause in it.
ProbeInv ==
  /\ kind \in {"route", "service", "http", "tcp", "dns"}
  /\ expected \in Codes \union {None}
  /\ target \in Probe!Targets
  /\ stage \in {"asleep", "opening", "asking", "closing"}
  /\ stage # "asleep" => target \in seen_targets
  /\ stage = "closing" => /\ kind \in {"service", "tcp"}
                          /\ \E t \in seen_targets : t # None
  /\ Probe!VerdictOfItsProbe

\* For a status the criterion of the code, below 500, is that of its comment,
\* not a 5xx.
LEMMA BelowFiveHundred ==
  ASSUME NEW c \in Codes PROVE c < 500 <=> c \div 100 # 5
<1>1. c \in 100..599
  BY CollectorsAssumption DEF Probe!ProbesAssumption
<1> QED BY <1>1

LEMMA ProbeStep == ProbeInv /\ [Next]_vars => ProbeInv'
<1> SUFFICES ASSUME ProbeInv, [Next]_vars PROVE ProbeInv'
  OBVIOUS
<1>a. None \notin Codes /\ Garbled \notin Codes
  BY CollectorsAssumption DEF Probe!ProbesAssumption
<1> USE DEF ProbeInv, Probe!VerdictOfItsProbe, Probe!Targets, Probe!Healthy
<1>1. CASE UNCHANGED probeVars
  BY <1>1 DEF probeVars
<1>2. CASE Probe!ProbesNext
  <2>1. CASE Probe!TargetChange
    BY <2>1 DEF Probe!TargetChange
  <2>2. CASE Probe!BeginProbe
    BY <2>2 DEF Probe!BeginProbe
  <2>3. CASE Probe!Opened
    BY <2>3, <1>a DEF Probe!Opened, Probe!Verdict
  <2>4. CASE Probe!_probe_service \/ Probe!_run_tcp
    BY <2>4, <1>a DEF Probe!_probe_service, Probe!_run_tcp, Probe!Verdict
  <2>5. CASE Probe!_probe_route
    <3>1. target \in seen_targets /\ kind = "route" /\ seen_targets' = seen_targets
      BY <2>5 DEF Probe!_probe_route
    <3>2. CASE target \in Codes /\ target < 500
      <4>1. ok' = TRUE /\ target \div 100 # 5
        BY <2>5, <3>2, BelowFiveHundred DEF Probe!_probe_route, Probe!Verdict
      <4> QED BY <2>5, <3>1, <3>2, <4>1 DEF Probe!_probe_route, Probe!Verdict
    <3>3. CASE ~(target \in Codes /\ target < 500)
      <4>1. ok' = FALSE /\ ~(target \in Codes /\ target \div 100 # 5)
        BY <2>5, <3>3, BelowFiveHundred DEF Probe!_probe_route, Probe!Verdict
      <4> QED BY <2>5, <3>1, <4>1 DEF Probe!_probe_route, Probe!Verdict
    <3> QED BY <3>2, <3>3
  <2>6. CASE Probe!_run_http
    <3>1. target \in seen_targets /\ kind = "http" /\ seen_targets' = seen_targets
      BY <2>6 DEF Probe!_run_http
    <3> DEFINE fine == target \in Codes /\ IF expected # None THEN target = expected ELSE target < 400
    <3>2. fine <=> Probe!Healthy(target)
      <4>1. CASE expected # None
        <5>1. Probe!Healthy(target) <=> target = expected
          BY <3>1, <4>1
        <5>2. fine <=> target \in Codes /\ target = expected
          BY <4>1
        <5> HIDE DEF fine
        <5> QED BY <4>1, <5>1, <5>2
      <4>2. CASE expected = None
        <5>1. Probe!Healthy(target) <=> target \in {c \in Codes : c < 400}
          BY <3>1, <4>2
        <5>2. fine <=> target \in {c \in Codes : c < 400}
          BY <4>2
        <5> HIDE DEF fine
        <5> QED BY <5>1, <5>2
      <4> QED BY <4>1, <4>2
    <3>3. CASE fine
      <4>1. ok' = TRUE
        BY <2>6, <3>3 DEF Probe!_run_http, Probe!Verdict
      <4> HIDE DEF fine
      <4> QED BY <2>6, <3>1, <3>2, <3>3, <4>1 DEF Probe!_run_http, Probe!Verdict
    <3>4. CASE ~fine
      <4>1. ok' = FALSE
        BY <2>6, <3>4 DEF Probe!_run_http, Probe!Verdict
      <4> HIDE DEF fine
      <4> QED BY <2>6, <3>1, <3>2, <3>4, <4>1 DEF Probe!_run_http, Probe!Verdict
    <3> QED BY <3>3, <3>4
  <2> QED BY <1>2, <2>1, <2>2, <2>3, <2>4, <2>5, <2>6 DEF Probe!ProbesNext
<1> QED BY <1>1, <1>2
        DEF Next, vars, CrdAlone, PvcAlone, MetricsAlone, PodAlone, HardwareAlone, ProbeAlone

\* Whatever becomes of the target meanwhile, a verdict has its cause in the probe.
THEOREM VerdictsHaveCause == Spec => []VerdictOfItsProbe
<1>1. Init => ProbeInv
  BY DEF Init, Probe!ProbesInit, ProbeInv, Probe!VerdictOfItsProbe
<1>2. ProbeInv => VerdictOfItsProbe
  BY DEF ProbeInv, VerdictOfItsProbe
<1> QED BY <1>1, <1>2, ProbeStep, PTL DEF Spec

-----------------------------------------------------------------------------
(* Outages                                                                 *)

CrdInv ==
  /\ told \in [Crd!Kind \union {"client"} -> Nat]
  /\ Crd!LoggedOncePerOutage

\* A failure is counted once until the flag is cleared, which clears the count.
LEMMA WarnOrHeal ==
  ASSUME CrdInv, NEW k, Crd!WarnOnce(k) \/ Crd!Heal(k)
  PROVE  CrdInv'
<1> USE DEF CrdInv, Crd!LoggedOncePerOutage
<1>1. CASE Crd!WarnOnce(k)
  <2>1. CASE k \in warned
    BY <1>1, <2>1 DEF Crd!WarnOnce
  <2>2. CASE k \notin warned
    <3>1. told' = [told EXCEPT ![k] = @ + 1] /\ warned' = warned \union {k}
      BY <1>1, <2>2 DEF Crd!WarnOnce
    <3>2. \A j \in Crd!Kind \union {"client"} :
             told'[j] = IF j \in warned' THEN 1 ELSE 0
      <4> SUFFICES ASSUME NEW j \in Crd!Kind \union {"client"}
                   PROVE  told'[j] = IF j \in warned' THEN 1 ELSE 0
        OBVIOUS
      <4>1. CASE j = k
        BY <2>2, <3>1, <4>1
      <4>2. CASE j # k
        BY <3>1, <4>2
      <4> QED BY <4>1, <4>2
    <3>3. told' \in [Crd!Kind \union {"client"} -> Nat]
      <4>1. CASE k \in Crd!Kind \union {"client"}
        <5>1. told[k] + 1 \in Nat
          BY <4>1
        <5> QED BY <3>1, <5>1
      <4>2. CASE k \notin Crd!Kind \union {"client"}
        <5>1. [told EXCEPT ![k] = @ + 1] = told
          BY <4>2
        <5> QED BY <3>1, <5>1
      <4> QED BY <4>1, <4>2
    <3> QED BY <3>2, <3>3
  <2> QED BY <2>1, <2>2
<1>2. CASE Crd!Heal(k)
  BY <1>2 DEF Crd!Heal
<1> QED BY <1>1, <1>2

LEMMA CrdStep == CrdInv /\ [Next]_vars => CrdInv'
<1> SUFFICES ASSUME CrdInv, [Next]_vars PROVE CrdInv'
  OBVIOUS
<1>1. CASE UNCHANGED <<warned, told>>
  BY <1>1 DEF CrdInv, Crd!LoggedOncePerOutage
<1>2. CASE Crd!CrdNext
  <2>1. CASE Crd!Change \/ Crd!SeeServices \/ Crd!Ask
    BY <1>1, <2>1 DEF Crd!Change, Crd!SeeServices, Crd!Ask, Crd!loopVars
  <2>2. CASE Crd!Open
    BY <1>1, <2>2, WarnOrHeal DEF Crd!Open
  <2>3. CASE Crd!Failure
    BY <2>3, WarnOrHeal DEF Crd!Failure
  <2>4. CASE Crd!Answer
    BY <2>4, WarnOrHeal DEF Crd!Answer
  <2> QED BY <1>2, <2>1, <2>2, <2>3, <2>4 DEF Crd!CrdNext, Crd!CrdPoll
<1> QED BY <1>1, <1>2
        DEF Next, vars, crdVars, CrdAlone, PvcAlone, MetricsAlone, PodAlone, HardwareAlone, ProbeAlone

\* Whatever kinds fail and recover in whatever order, the log tells of each
\* outage once, and of the next one again.
THEOREM OutagesLoggedOnce == Spec => []LoggedOncePerOutage
<1>1. Init => CrdInv
  BY DEF Init, Crd!CrdInit, CrdInv, Crd!LoggedOncePerOutage
<1>2. CrdInv => LoggedOncePerOutage
  BY DEF CrdInv, LoggedOncePerOutage
<1> QED BY <1>1, <1>2, CrdStep, PTL DEF Spec

-----------------------------------------------------------------------------
(* Pods                                                                    *)

Ends == Pod!Terminations \union {None}

\* A container is in one state at a time.
States ==
  {s \in Pod!Statuses :
     /\ s.ready = s.running
     /\ s.running \/ s.waiting # None => s.terminated = None
     /\ s.waiting # None => ~s.running}

\* The last two exits are in a status, at a place that its state decides.
Remembers(s, d) ==
  IF s.terminated # None
  THEN d # <<>> /\ s.terminated = d[1] /\ s.last = IF Len(d) > 1 THEN d[2] ELSE None
  ELSE s.last = IF d # <<>> THEN d[1] ELSE None

PodTypes ==
  /\ init \in Seq(States) /\ main \in Seq(States)
  /\ main # <<>> => Len(main) = NumMains
  /\ deaths \in [1..NumMains -> Seq(Pod!Terminations)]

Remembered ==
  \A c \in 1..NumMains :
    IF main = <<>> THEN deaths[c] = <<>> ELSE Remembers(main[c], deaths[c])

InitsInOrder ==
  \A i, j \in DOMAIN init : i < j /\ Pod!Succeeded(init[j]) => Pod!Succeeded(init[i])

MainsWait ==
  (\E i \in DOMAIN init : ~Pod!Succeeded(init[i])) =>
    \A c \in DOMAIN main : main[c].waiting # None /\ deaths[c] = <<>>

PodInv == PodTypes /\ Remembered /\ InitsInOrder /\ MainsWait

LEMMA NoneFacts ==
  /\ None \notin Pod!Reasons /\ None \notin Pod!Terminations /\ None # "OOMKilled"
  /\ None \notin Pod!Statuses /\ None \notin Nat \X Nat
BY CollectorsAssumption DEF Pod!PodAssumption

LEMMA StatusTypes ==
  ASSUME NEW l \in Ends, NEW n \in Nat
  PROVE  /\ \A r \in Pod!Reasons : LET w == Pod!Waiting(r, l, n)
                               IN  w \in States /\ w.waiting = r /\ w.last = l /\ w.terminated = None
         /\ LET w == Pod!Running(l, n)
            IN  w \in States /\ w.waiting = None /\ w.last = l /\ w.terminated = None
         /\ \A t \in Pod!Terminations : LET w == Pod!Terminated(t, l, n)
                                        IN  w \in States /\ w.last = l /\ w.terminated = t
BY NoneFacts DEF States, Ends, Pod!Statuses, Pod!Waiting, Pod!Running, Pod!Terminated, Pod!Status

LEMMA StatusParts ==
  ASSUME NEW s \in States
  PROVE  /\ s.waiting \in Pod!Reasons \union {None} /\ s.terminated \in Ends /\ s.last \in Ends
         /\ s.restart_count \in Nat /\ s.restart_count + 1 \in Nat
         /\ s.ready = s.running
         /\ s.running \/ s.waiting # None => s.terminated = None
         /\ s.waiting # None => ~s.running
BY DEF States, Pod!Statuses, Ends

\* A start keeps what the status remembers.
LEMMA StartedFacts ==
  ASSUME NEW s \in States, s.waiting # None
  PROVE  LET x == Pod!Started(s)
         IN  x \in States /\ x.terminated = None /\ s.terminated = None /\ x.last = s.last
<1>1. CASE s.waiting = "CrashLoopBackOff"
  BY <1>1, StatusParts, StatusTypes DEF Pod!Started
<1>2. CASE s.waiting # "CrashLoopBackOff"
  BY <1>2, StatusParts, StatusTypes DEF Pod!Started
<1> QED BY <1>1, <1>2

\* A restart, and the pause before one, make the termination the last one.
LEMMA AgainFacts ==
  ASSUME NEW s \in States, s.terminated # None, NEW x \in Pod!Again(s)
  PROVE  x \in States /\ x.terminated = None /\ x.last = s.terminated
<1>1. s.terminated \in Ends /\ s.restart_count \in Nat /\ s.restart_count + 1 \in Nat
  BY StatusParts
<1>2. CASE x = Pod!Waiting("CrashLoopBackOff", s.terminated, s.restart_count)
  BY <1>1, <1>2, StatusTypes DEF Pod!Reasons
<1>3. CASE x = Pod!Running(s.terminated, s.restart_count + 1)
  BY <1>1, <1>3, StatusTypes
<1> QED BY <1>2, <1>3 DEF Pod!Again

LEMMA TerminatedFacts ==
  ASSUME NEW s \in States, s.running, NEW t \in Pod!Terminations
  PROVE  LET x == Pod!Terminated(t, s.last, s.restart_count)
         IN  x \in States /\ x.terminated = t /\ x.last = s.last /\ s.terminated = None
BY StatusParts, StatusTypes

LEMMA Prepended ==
  ASSUME NEW S, NEW t \in S, NEW d \in Seq(S)
  PROVE  /\ <<t>> \o d \in Seq(S) /\ <<t>> \o d # <<>> /\ Len(<<t>> \o d) = Len(d) + 1
         /\ (<<t>> \o d)[1] = t
         /\ d # <<>> => (<<t>> \o d)[2] = d[1]
OBVIOUS

\* What a container remembers after each thing that can happen to it.
LEMMA StillRemembers ==
  ASSUME NEW s \in States, NEW d \in Seq(Pod!Terminations), Remembers(s, d)
  PROVE  /\ s.waiting # None => Remembers(Pod!Started(s), d)
         /\ s.terminated # None => \A x \in Pod!Again(s) : Remembers(x, d)
         /\ s.running => \A t \in Pod!Terminations :
              Remembers(Pod!Terminated(t, s.last, s.restart_count), <<t>> \o d)
<1>1. s.waiting # None => Remembers(Pod!Started(s), d)
  BY StartedFacts DEF Remembers
<1>2. ASSUME s.terminated # None, NEW x \in Pod!Again(s) PROVE Remembers(x, d)
  BY <1>2, AgainFacts DEF Remembers
<1>3. ASSUME s.running, NEW t \in Pod!Terminations
      PROVE  Remembers(Pod!Terminated(t, s.last, s.restart_count), <<t>> \o d)
  <2> DEFINE x == Pod!Terminated(t, s.last, s.restart_count)
             e == <<t>> \o d
  <2>1. x.terminated = t /\ x.last = s.last /\ s.terminated = None
    BY <1>3, TerminatedFacts
  <2>2. /\ e # <<>> /\ Len(e) = Len(d) + 1 /\ e[1] = t /\ (d # <<>> => e[2] = d[1])
        /\ Len(d) \in Nat /\ (d = <<>> <=> Len(d) = 0)
    BY Prepended
  <2>3. t # None
    BY NoneFacts
  <2> HIDE DEF x, e
  <2> QED BY <2>1, <2>2, <2>3 DEF Remembers, x, e
<1> QED BY <1>1, <1>2, <1>3

LEMMA AdmitStep ==
  ASSUME PodInv, Pod!Admit
  PROVE  PodInv'
<1>1. /\ main = <<>> /\ deaths' = deaths
      /\ \A c \in 1..NumMains : deaths[c] = <<>>
      /\ NumMains \in Nat /\ NumMains > 0
  BY CollectorsAssumption DEF Pod!Admit, PodInv, Remembered, Pod!PodAssumption
<1>2. PICK inits \in 0..NumInits :
        /\ init' = [i \in 1..inits |-> Pod!Waiting("PodInitializing", None, 0)]
        /\ main' = [c \in 1..NumMains |->
                      Pod!Waiting(IF inits > 0 THEN "PodInitializing" ELSE "ContainerCreating", None, 0)]
  BY DEF Pod!Admit
<1>3. inits \in Nat
  BY CollectorsAssumption DEF Pod!PodAssumption
<1> DEFINE w == Pod!Waiting("PodInitializing", None, 0)
           m == Pod!Waiting(IF inits > 0 THEN "PodInitializing" ELSE "ContainerCreating", None, 0)
<1>4. /\ w \in States /\ w.terminated = None
      /\ m \in States /\ m.terminated = None /\ m.last = None /\ m.waiting # None
  <2>1. None \in Ends /\ 0 \in Nat
    BY DEF Ends
  <2>2. (IF inits > 0 THEN "PodInitializing" ELSE "ContainerCreating") \in Pod!Reasons
    BY DEF Pod!Reasons
  <2>3. "PodInitializing" \in Pod!Reasons
    BY DEF Pod!Reasons
  <2> QED BY <2>1, <2>2, <2>3, StatusTypes, NoneFacts
<1>5. init' = [i \in 1..inits |-> w] /\ main' = [c \in 1..NumMains |-> m]
  BY <1>2
<1> HIDE DEF w, m
<1>6. /\ init' \in Seq(States) /\ DOMAIN init' = 1..inits
      /\ main' \in Seq(States) /\ DOMAIN main' = 1..NumMains /\ Len(main') = NumMains
      /\ main' # <<>>
  BY <1>1, <1>3, <1>4, <1>5
<1>7. PodTypes'
  BY <1>1, <1>6 DEF PodInv, PodTypes
<1>8. Remembered'
  BY <1>1, <1>4, <1>5, <1>6 DEF Remembered, Remembers
<1>9. \A i \in DOMAIN init' : ~Pod!Succeeded(init'[i])
  BY <1>4, <1>5, <1>6 DEF Pod!Succeeded
<1>10. InitsInOrder'
  <2>1. ASSUME NEW j \in DOMAIN init' PROVE ~Pod!Succeeded(init[j])'
    BY <1>9, <2>1 DEF Pod!Succeeded
  <2> QED BY <2>1 DEF InitsInOrder
<1>11. MainsWait'
  BY <1>1, <1>4, <1>5, <1>6 DEF MainsWait
<1> QED BY <1>7, <1>8, <1>10, <1>11 DEF PodInv

LEMMA InitStep ==
  ASSUME PodInv, NEW i \in DOMAIN init, Pod!StepInit(i)
  PROVE  PodInv'
<1> DEFINE s == init[i]
<1>1. /\ main' = main /\ deaths' = deaths
      /\ \A before \in 1..(i - 1) : Pod!Succeeded(init[before])
  BY DEF Pod!StepInit
<1>2. s \in States /\ DOMAIN init = 1..Len(init) /\ Len(init) \in Nat /\ i \in 1..Len(init)
  BY DEF PodInv, PodTypes
<1>3. PICK x \in States : init' = [init EXCEPT ![i] = x] /\ ~Pod!Succeeded(s)
  <2>1. CASE s.waiting # None /\ init' = [init EXCEPT ![i] = Pod!Started(@)]
    <3>1. Pod!Started(s) \in States /\ s.terminated = None
      BY <1>2, <2>1, StartedFacts
    <3> QED BY <2>1, <3>1 DEF Pod!Succeeded
  <2>2. CASE s.running /\ \E t \in Pod!Terminations :
               init' = [init EXCEPT ![i] = Pod!Terminated(t, @.last, @.restart_count)]
    <3>1. PICK t \in Pod!Terminations :
            init' = [init EXCEPT ![i] = Pod!Terminated(t, @.last, @.restart_count)]
      BY <2>2
    <3>2. Pod!Terminated(t, s.last, s.restart_count) \in States /\ s.terminated = None
      BY <1>2, <2>2, TerminatedFacts
    <3> QED BY <3>1, <3>2 DEF Pod!Succeeded
  <2>3. CASE /\ Pod!Retried(s) /\ ~Pod!Succeeded(s)
             /\ \E a \in Pod!Again(s) : init' = [init EXCEPT ![i] = a]
    <3>1. PICK a \in Pod!Again(s) : init' = [init EXCEPT ![i] = a]
      BY <2>3
    <3>2. a \in States
      BY <1>2, <2>3, AgainFacts DEF Pod!Retried
    <3> QED BY <2>3, <3>1, <3>2
  <2> QED BY <2>1, <2>2, <2>3 DEF Pod!StepInit
<1>4. /\ init' \in Seq(States) /\ DOMAIN init' = DOMAIN init
      /\ init'[i] = x /\ \A j \in DOMAIN init \ {i} : init'[j] = init[j]
  <2>1. init \in Seq(States)
    BY DEF PodInv, PodTypes
  <2> QED BY <1>3, <2>1
<1> HIDE DEF s
<1>5. PodTypes' /\ Remembered'
  BY <1>1, <1>4 DEF PodInv, PodTypes, Remembered, Remembers
<1>6. ASSUME NEW j \in DOMAIN init, Pod!Succeeded(init[j])
      PROVE  j # i /\ init'[j] = init[j]
  BY <1>3, <1>4, <1>6 DEF s
<1>7. InitsInOrder'
  <2> SUFFICES ASSUME NEW a \in DOMAIN init, NEW b \in DOMAIN init, a < b,
                      Pod!Succeeded(init'[b])
               PROVE  Pod!Succeeded(init'[a])
    BY <1>4 DEF InitsInOrder, Pod!Succeeded
  <2>1. CASE b = i
    <3>1. Pod!Succeeded(init[a])
      BY <1>1, <1>2, <2>1
    <3> QED BY <1>6, <3>1
  <2>2. CASE b # i
    <3>1. Pod!Succeeded(init[b])
      BY <1>4, <2>2
    <3>2. Pod!Succeeded(init[a])
      BY <3>1 DEF PodInv, InitsInOrder
    <3> QED BY <1>6, <3>2
  <2> QED BY <2>1, <2>2
<1>8. MainsWait'
  <2> SUFFICES ASSUME NEW a \in DOMAIN init, ~Pod!Succeeded(init'[a])
               PROVE  \A c \in DOMAIN main : main[c].waiting # None /\ deaths[c] = <<>>
    BY <1>1, <1>4 DEF MainsWait, Pod!Succeeded
  <2>1. ~Pod!Succeeded(init[a])
    BY <1>6
  <2> QED BY <2>1 DEF PodInv, MainsWait
<1> QED BY <1>5, <1>7, <1>8 DEF PodInv

LEMMA MainStep ==
  ASSUME PodInv, NEW c \in DOMAIN main, Pod!StepMain(c)
  PROVE  PodInv'
<1> DEFINE s == main[c]
           d == deaths[c]
<1>1. init' = init /\ \A i \in DOMAIN init : Pod!Succeeded(init[i])
  BY DEF Pod!StepMain
<1>2. main \in Seq(States) /\ main # <<>> /\ Len(main) = NumMains /\ DOMAIN main = 1..NumMains
  BY DEF PodInv, PodTypes
<1>3. s \in States /\ d \in Seq(Pod!Terminations) /\ Remembers(s, d)
  BY <1>2 DEF PodInv, PodTypes, Remembered
<1>4. PICK x \in States, e \in Seq(Pod!Terminations) :
        /\ main' = [main EXCEPT ![c] = x] /\ deaths' = [deaths EXCEPT ![c] = e]
        /\ Remembers(x, e)
  <2>0. deaths = [deaths EXCEPT ![c] = d]
    BY <1>2 DEF PodInv, PodTypes
  <2>1. CASE /\ s.waiting # None /\ deaths' = deaths
             /\ main' = [main EXCEPT ![c] = Pod!Started(@)]
    <3>1. Pod!Started(s) \in States /\ Remembers(Pod!Started(s), d)
      BY <1>3, <2>1, StartedFacts, StillRemembers
    <3> QED BY <1>3, <2>0, <2>1, <3>1
  <2>2. CASE /\ s.running
             /\ \E t \in Pod!Terminations :
                  /\ main' = [main EXCEPT ![c] = Pod!Terminated(t, @.last, @.restart_count)]
                  /\ deaths' = [deaths EXCEPT ![c] = <<t>> \o @]
    <3>1. PICK t \in Pod!Terminations :
            /\ main' = [main EXCEPT ![c] = Pod!Terminated(t, @.last, @.restart_count)]
            /\ deaths' = [deaths EXCEPT ![c] = <<t>> \o @]
      BY <2>2
    <3>2. /\ Pod!Terminated(t, s.last, s.restart_count) \in States
          /\ Remembers(Pod!Terminated(t, s.last, s.restart_count), <<t>> \o d)
          /\ <<t>> \o d \in Seq(Pod!Terminations)
      BY <1>3, <2>2, TerminatedFacts, StillRemembers, Prepended
    <3> QED BY <3>1, <3>2
  <2>3. CASE /\ Pod!Retried(s) /\ deaths' = deaths
             /\ \E a \in Pod!Again(s) : main' = [main EXCEPT ![c] = a]
    <3>1. PICK a \in Pod!Again(s) : main' = [main EXCEPT ![c] = a]
      BY <2>3
    <3>2. a \in States /\ Remembers(a, d)
      BY <1>3, <2>3, AgainFacts, StillRemembers DEF Pod!Retried
    <3> QED BY <1>3, <2>0, <2>3, <3>1, <3>2
  <2> QED BY <2>1, <2>2, <2>3 DEF Pod!StepMain
<1> HIDE DEF s, d
<1>5. /\ main' \in Seq(States) /\ main' # <<>> /\ Len(main') = NumMains
      /\ \A b \in 1..NumMains : main'[b] = IF b = c THEN x ELSE main[b]
  BY <1>2, <1>4
<1>6. /\ deaths' \in [1..NumMains -> Seq(Pod!Terminations)]
      /\ \A b \in 1..NumMains : deaths'[b] = IF b = c THEN e ELSE deaths[b]
  BY <1>2, <1>4 DEF PodInv, PodTypes
<1>7. PodTypes'
  BY <1>1, <1>5, <1>6 DEF PodInv, PodTypes
<1>8. Remembered'
  <2>1. \A b \in 1..NumMains : Remembers(main[b], deaths[b])
    BY <1>2 DEF PodInv, Remembered
  <2>2. ASSUME NEW b \in 1..NumMains PROVE Remembers(main'[b], deaths'[b])
    <3>1. CASE b = c
      BY <1>4, <1>5, <1>6, <3>1
    <3>2. CASE b # c
      BY <1>5, <1>6, <2>1, <3>2
    <3> QED BY <3>1, <3>2
  <2> QED BY <1>5, <2>2 DEF Remembered, Remembers
<1>9. InitsInOrder' /\ MainsWait'
  BY <1>1 DEF PodInv, InitsInOrder, MainsWait, Pod!Succeeded
<1> QED BY <1>7, <1>8, <1>9 DEF PodInv

LEMMA PodStep == PodInv /\ [Next]_vars => PodInv'
<1> SUFFICES ASSUME PodInv, [Next]_vars PROVE PodInv'
  OBVIOUS
<1>1. CASE UNCHANGED podVars
  BY <1>1 DEF podVars, PodInv, PodTypes, Remembered, Remembers, InitsInOrder, MainsWait, Pod!Succeeded
<1>2. CASE Pod!PodNext
  BY <1>2, AdmitStep, InitStep, MainStep DEF Pod!PodNext
<1> QED BY <1>1, <1>2
        DEF Next, vars, CrdAlone, PvcAlone, MetricsAlone, PodAlone, HardwareAlone, ProbeAlone

LEMMA PodStart == Init => PodInv
<1> SUFFICES ASSUME Pod!PodInit PROVE PodInv
  BY DEF Init
<1> QED BY DEF Pod!PodInit, PodInv, PodTypes, Remembered, InitsInOrder, MainsWait

LEMMA OomTold == PodInv => Pod!OomNotForgotten
<1> SUFFICES ASSUME PodInv PROVE Pod!OomNotForgotten
  OBVIOUS
<1>1. \A c \in 1..NumMains : deaths[c] \in Seq(Pod!Terminations)
  BY DEF PodInv, PodTypes
<1>2. ASSUME NEW c \in Pod!Dead
      PROVE  /\ c \in DOMAIN main /\ Remembers(main[c], deaths[c]) /\ main[c] \in States
             /\ Pod!Newest(c) = deaths[c][1] /\ Pod!Newest(c) \in Pod!Terminations
             /\ Pod!Newest(c) \in {main[c].terminated, main[c].last}
  <2>1. c \in 1..NumMains /\ deaths[c] # <<>>
    BY DEF Pod!Dead
  <2>2. main # <<>> /\ Len(main) = NumMains /\ main \in Seq(States)
    BY <2>1 DEF PodInv, PodTypes, Remembered
  <2>3. Remembers(main[c], deaths[c])
    BY <2>1, <2>2 DEF PodInv, Remembered
  <2>4. Pod!Newest(c) = deaths[c][1] /\ Pod!Newest(c) \in Pod!Terminations
    BY <1>1, <2>1 DEF Pod!Newest
  <2>5. c \in DOMAIN main /\ main[c] \in States
    BY <2>1, <2>2
  <2>6. deaths[c][1] \in {main[c].terminated, main[c].last}
    BY <2>1, <2>3 DEF Remembers
  <2> QED BY <2>3, <2>4, <2>5, <2>6
<1>3. ASSUME NEW c \in Pod!Dead, Pod!Newest(c).reason = "OOMKilled" PROVE Pod!OomKilled(main)
  BY <1>2, <1>3, NoneFacts DEF Pod!OomKilled
<1>4. ASSUME Pod!OomKilled(main)
      PROVE  \E c \in Pod!Dead : \E i \in DOMAIN deaths[c] : i <= 2 /\ deaths[c][i].reason = "OOMKilled"
  <2>1. PICK c \in DOMAIN main : \E t \in {main[c].terminated, main[c].last} :
               t # None /\ t.reason = "OOMKilled"
    BY <1>4 DEF Pod!OomKilled
  <2>2. /\ c \in 1..NumMains /\ Remembers(main[c], deaths[c])
        /\ deaths[c] \in Seq(Pod!Terminations)
    BY DEF PodInv, PodTypes, Remembered
  <2>3. \E i \in DOMAIN deaths[c] : i <= 2 /\ deaths[c][i].reason = "OOMKilled"
    <3> DEFINE d == deaths[c]
               s == main[c]
    <3>1. d \in Seq(Pod!Terminations) /\ DOMAIN d = 1..Len(d) /\ Len(d) \in Nat /\ (d = <<>> <=> Len(d) = 0)
      BY <2>2
    <3>2. Remembers(s, d) /\ \E t \in {s.terminated, s.last} : t # None /\ t.reason = "OOMKilled"
      BY <2>1, <2>2
    <3> HIDE DEF d, s
    <3>3. (Len(d) > 0 => 1 \in DOMAIN d) /\ (Len(d) > 1 => 2 \in DOMAIN d)
      BY <3>1
    <3>4. \E i \in DOMAIN d : i <= 2 /\ d[i].reason = "OOMKilled"
      BY <3>1, <3>2, <3>3 DEF Remembers
    <3> QED BY <3>4 DEF d
  <2>4. deaths[c] # <<>>
    BY <2>3
  <2> QED BY <2>2, <2>3, <2>4 DEF Pod!Dead
<1> QED BY <1>3, <1>4 DEF Pod!OomNotForgotten, Pod!row, Pod!map_pod

\* Of a set of indices, the one that no other precedes is the one chosen.
LEMMA FirstIndex ==
  ASSUME NEW H, H \subseteq Nat, NEW i \in H, \A j \in H : i <= j
  PROVE  (CHOOSE x \in H : \A j \in H : x <= j) = i
<1> DEFINE x == CHOOSE x \in H : \A j \in H : x <= j
<1>1. x \in H /\ \A j \in H : x <= j
  OBVIOUS
<1> HIDE DEF x
<1>2. x <= i /\ i <= x /\ x \in Nat /\ i \in Nat
  BY <1>1
<1> QED BY <1>2 DEF x

LEMMA NewestShown == PodInv => Pod!LastExitIsNewest
<1> SUFFICES ASSUME PodInv, NEW c \in Pod!Dead, Pod!Newest(c).reason # None,
                    \A b \in Pod!Dead : b < c => Pod!Newest(b).reason = None
             PROVE  Pod!LastExit(main) = Pod!Newest(c)
  BY DEF Pod!LastExitIsNewest, Pod!row, Pod!map_pod
<1> DEFINE all == [i \in DOMAIN main |-> Pod!_last_termination(main[i])]
           H == {i \in DOMAIN all : all[i].reason # None}
<1>1. /\ main # <<>> /\ DOMAIN main = 1..NumMains /\ DOMAIN all = 1..NumMains /\ NumMains \in Nat
      /\ c \in 1..NumMains
  <2>1. c \in 1..NumMains /\ deaths[c] # <<>>
    BY DEF Pod!Dead
  <2> QED BY <2>1, CollectorsAssumption DEF PodInv, PodTypes, Remembered, Pod!PodAssumption
<1>2. ASSUME NEW b \in 1..NumMains
      PROVE  IF b \in Pod!Dead THEN all[b] = Pod!Newest(b) /\ all[b] \in Pod!Terminations
             ELSE all[b].reason = None
  <2>1. all[b] = Pod!_last_termination(main[b])
    BY <1>1
  <2>2. Remembers(main[b], deaths[b]) /\ deaths[b] \in Seq(Pod!Terminations)
    BY <1>1 DEF PodInv, PodTypes, Remembered
  <2>3. deaths[b] # <<>> => /\ Pod!Newest(b) = deaths[b][1]
                            /\ deaths[b][1] \in Pod!Terminations /\ deaths[b][1] # None
    BY <2>2, NoneFacts DEF Pod!Newest
  <2> HIDE DEF all
  <2>4. b \in Pod!Dead <=> deaths[b] # <<>>
    BY DEF Pod!Dead
  <2> QED BY <2>1, <2>2, <2>3, <2>4 DEF Remembers, Pod!_last_termination
<1> HIDE DEF all
<1>3. c \in H /\ H \subseteq Nat /\ \A j \in H : c <= j
  BY <1>1, <1>2
<1>4. (CHOOSE x \in H : \A j \in H : x <= j) = c
  <2> HIDE DEF H
  <2> QED BY <1>3, FirstIndex
<1>5. Pod!FirstIn(all, LAMBDA t : t.reason # None) = all[c]
  BY <1>3, <1>4 DEF Pod!FirstIn
<1>6. all # <<>> /\ all[c] # None /\ all[c] = Pod!Newest(c)
  BY <1>1, <1>2, NoneFacts
<1> QED BY <1>5, <1>6 DEF Pod!LastExit, all

LEMMA Smallest ==
  ASSUME NEW H, H \subseteq Nat, H # {}
  PROVE  \E m \in H : \A j \in H : m <= j
<1> DEFINE Less == {p \in Nat \X Nat : p[1] < p[2]}
<1>1. IsWellFoundedOn(Less, Nat)
  <2>1. Less = OpToRel(<, Nat)
    BY DEF OpToRel
  <2> QED BY <2>1, NatLessThanWellFounded
<1>2. PICK m \in H : \A j \in H : <<j, m>> \notin Less
  <2> HIDE DEF Less
  <2> QED BY <1>1, WFMin
<1>3. ASSUME NEW j \in H PROVE m <= j
  <2>1. m \in Nat /\ j \in Nat /\ <<j, m>> \notin Less
    BY <1>2
  <2> QED BY <2>1
<1> QED BY <1>3

LEMMA Counted ==
  ASSUME NEW n \in Nat
  PROVE  Pod!Cardinality(1..n) = n
<1>1. 1 \in Int /\ n \in Int
  OBVIOUS
<1>2. Cardinality(1..n) = IF 1 > n THEN 0 ELSE n - 1 + 1
  BY <1>1, FS_Interval
<1>3. Pod!Cardinality(1..n) = Cardinality(1..n)
  BY DEF Pod!Cardinality, Cardinality
<1> QED BY <1>2, <1>3

LEMMA BlockingTold == PodInv => Pod!InitTellsWhatBlocks
<1> SUFFICES ASSUME PodInv PROVE Pod!InitTellsWhatBlocks
  OBVIOUS
<1> DEFINE n == Len(init)
           S == {i \in DOMAIN init : Pod!Succeeded(init[i])}
           told_init == Pod!_init_container_status(init)
<1>1. n \in Nat /\ DOMAIN init = 1..n /\ \A i \in 1..n : init[i] \in States
  BY DEF PodInv, PodTypes
<1>2. CASE \A i \in DOMAIN init : Pod!Succeeded(init[i])
  <2>1. S = 1..n
    BY <1>1, <1>2
  <2>2. Pod!Cardinality(S) = n
    BY <1>1, <2>1, Counted
  <2>3. told_init.progress = None
    BY <2>2 DEF Pod!_init_container_status, Pod!FirstIn
  <2> QED BY <1>2, <2>3 DEF Pod!InitTellsWhatBlocks, Pod!row, Pod!map_pod
<1>3. CASE \E i \in DOMAIN init : ~Pod!Succeeded(init[i])
  <2> DEFINE F == DOMAIN init \ S
  <2>1. PICK m \in F : \A j \in F : m <= j
    <3>1. F \subseteq Nat /\ F # {}
      BY <1>1, <1>3
    <3> HIDE DEF F
    <3> QED BY <3>1, Smallest
  <2>2. m \in 1..n /\ ~Pod!Succeeded(init[m])
    BY <1>1
  <2>3. S = 1..(m - 1)
    <3>1. ASSUME NEW i \in 1..(m - 1) PROVE i \in S
      BY <1>1, <2>1, <2>2
    <3>2. ASSUME NEW i \in S PROVE i \in 1..(m - 1)
      <4>1. i \in 1..n /\ ~(m < i) /\ i # m
        BY <1>1, <2>2 DEF PodInv, InitsInOrder
      <4> QED BY <2>2, <4>1
    <3> QED BY <3>1, <3>2
  <2>4. Pod!Cardinality(S) = m - 1 /\ m - 1 \in Nat /\ m - 1 # n /\ (m - 1) + 1 = m
    <3>1. m - 1 \in Nat /\ 1 \in Nat /\ m - 1 # n
      BY <2>2
    <3> DEFINE k == m - 1
    <3>2. k \in Nat /\ S = 1..k
      BY <2>3, <3>1
    <3> HIDE DEF k, S
    <3>3. Pod!Cardinality(S) = k
      BY <3>2, Counted
    <3> QED BY <2>2, <3>1, <3>3 DEF k
  <2>5. /\ told_init.progress = <<m - 1, n>>
        /\ told_init.progress # None /\ told_init.progress[1] + 1 = m
    <3>1. told_init.progress = <<m - 1, n>>
      BY <2>4 DEF Pod!_init_container_status, Pod!FirstIn
    <3>2. <<m - 1, n>> \in Nat \X Nat
      BY <1>1, <2>4
    <3> QED BY <2>4, <3>1, <3>2, NoneFacts
  <2>6. \A c \in DOMAIN main : main[c].waiting # None /\ deaths[c] = <<>>
    BY <1>3 DEF PodInv, MainsWait
  <2>7. Pod!Dead = {}
    <3>1. ASSUME NEW c \in 1..NumMains PROVE deaths[c] = <<>>
      <4>1. CASE main = <<>>
        BY <4>1 DEF PodInv, Remembered
      <4>2. CASE main # <<>>
        BY <2>6, <4>2 DEF PodInv, PodTypes
      <4> QED BY <4>1, <4>2
    <3> QED BY <3>1 DEF Pod!Dead
  <2>8. Pod!Cardinality({c \in DOMAIN main : main[c].ready}) = 0
    <3>1. \A c \in DOMAIN main : main[c] \in States
      BY DEF PodInv, PodTypes
    <3>2. {c \in DOMAIN main : main[c].ready} = {}
      BY <2>6, <3>1, StatusParts
    <3> QED BY <3>2, FS_EmptySet DEF Pod!Cardinality, Cardinality
  <2> DEFINE H == {i \in DOMAIN init : \/ init[i].waiting # None
                                       \/ init[i].terminated # None /\ ~Pod!Succeeded(init[i])}
  <2>9. ASSUME init[m].waiting # None \/ init[m].terminated # None
        PROVE  Pod!FirstIn(init, LAMBDA s : s.waiting # None
                                     \/ (s.terminated # None /\ ~Pod!Succeeded(s))) = init[m]
    <3>1. m \in H
      BY <1>1, <2>2, <2>9
    <3>2. H \subseteq Nat
      BY <1>1
    <3>3. ASSUME NEW j \in H PROVE m <= j
      <4>1. CASE j \in S
        BY <1>1, <4>1, StatusParts DEF Pod!Succeeded
      <4>2. CASE j \notin S
        BY <2>1, <4>2
      <4> QED BY <4>1, <4>2
    <3>4. (CHOOSE x \in H : \A j \in H : x <= j) = m
      <4> HIDE DEF H
      <4> QED BY <3>1, <3>2, <3>3, FirstIndex
    <3> QED BY <3>1, <3>4 DEF Pod!FirstIn
  <2>10. init[m] \in States /\ init[m] # None
    BY <1>1, <2>2, NoneFacts DEF States
  <2>11. init[m].waiting # None => told_init.reason = init[m].waiting
    BY <2>4, <2>9, <2>10 DEF Pod!_init_container_status
  <2>12. init[m].terminated # None =>
           told_init.reason = IF init[m].terminated.reason # None
                              THEN init[m].terminated.reason ELSE "Error (exit code)"
    <3> SUFFICES ASSUME init[m].terminated # None
                 PROVE  told_init.reason = IF init[m].terminated.reason # None
                                           THEN init[m].terminated.reason ELSE "Error (exit code)"
      OBVIOUS
    <3>1. init[m].waiting = None
      BY <2>10, StatusParts
    <3> QED BY <2>4, <2>9, <2>10, <3>1 DEF Pod!_init_container_status
  <2> HIDE DEF told_init
  <2> QED BY <2>5, <2>7, <2>8, <2>11, <2>12
          DEF Pod!InitTellsWhatBlocks, Pod!row, Pod!map_pod, told_init
<1> QED BY <1>2, <1>3

\* A kill for memory is told until its container has ended and been restarted
\* once more, and of no pod whose last two exits were none.
THEOREM KillsAreTold == Spec => []OomNotForgotten
<1>1. PodInv => OomNotForgotten
  BY OomTold DEF OomNotForgotten
<1> QED BY <1>1, PodStart, PodStep, PTL DEF Spec

\* The exit shown is the newest of the first container with a reason to show.
THEOREM NewestExitShown == Spec => []LastExitIsNewest
<1>1. PodInv => LastExitIsNewest
  BY NewestShown DEF LastExitIsNewest
<1> QED BY <1>1, PodStart, PodStep, PTL DEF Spec

\* A pod that is stuck in its init containers says where and why.
THEOREM StuckPodsTell == Spec => []InitTellsWhatBlocks
<1>1. PodInv => InitTellsWhatBlocks
  BY BlockingTold DEF InitTellsWhatBlocks
<1> QED BY <1>1, PodStart, PodStep, PTL DEF Spec

-----------------------------------------------------------------------------
(* Image scans                                                             *)

\* From the answer to the request for repositories to the end of the round, what
\* policies are joined with was held since that request.
RoundInv ==
  /\ poller \in {"flux", "gateway"}
  /\ step \in 0..5 /\ (poller = "gateway" => step < 4)
  /\ "imagepolicies" \in DOMAIN tables
  /\ poller = "flux" =>
       /\ step = 3 => reply \in {None, Failed} \union recent
       /\ step > 3 => scans \in {None} \union recent

LEMMA CurrentKind ==
  ASSUME poller \in {"flux", "gateway"}, step \in 1..5, poller = "gateway" => step < 4
  PROVE  /\ Crd!Current = "imagerepositories" <=> poller = "flux" /\ step = 3
         /\ Crd!Current = "imagepolicies" <=> poller = "flux" /\ step = 4
         /\ Len(Crd!Kinds[poller]) = IF poller = "flux" THEN 5 ELSE 3
<1>1. CASE poller = "flux"
  <2>1. Crd!Kinds[poller] = <<"kustomizations", "gitrepositories", "imagerepositories",
                             "imagepolicies", "imageupdateautomations">>
    BY <1>1 DEF Crd!Kinds
  <2>2. step \in {1, 2, 3, 4, 5}
    OBVIOUS
  <2> QED BY <1>1, <2>1, <2>2 DEF Crd!Current
<1>2. CASE poller = "gateway"
  <2>1. Crd!Kinds[poller] = <<"gateways", "httproutes", "ratelimitpolicies">>
    BY <1>2 DEF Crd!Kinds
  <2>2. step \in {1, 2, 3}
    BY <1>2
  <2> QED BY <1>2, <2>1, <2>2 DEF Crd!Current
<1> QED BY <1>1, <1>2

LEMMA RoundStart == Init => RoundInv
<1>1. "imagepolicies" \in Crd!Kind
  <2>1. Crd!Kinds.flux = <<"kustomizations", "gitrepositories", "imagerepositories",
                          "imagepolicies", "imageupdateautomations">>
    BY DEF Crd!Kinds
  <2>2. 4 \in DOMAIN Crd!Kinds.flux /\ Crd!Kinds.flux[4] = "imagepolicies"
    BY <2>1
  <2>3. "imagepolicies" \in Crd!ToSet(Crd!Kinds.flux)
    BY <2>2 DEF Crd!ToSet
  <2> QED BY <2>3 DEF Crd!Kind
<1> QED BY <1>1 DEF Init, Crd!CrdInit, RoundInv

LEMMA RoundStep == RoundInv /\ [Next]_vars => RoundInv'
<1> SUFFICES ASSUME RoundInv, [Next]_vars PROVE RoundInv'
  OBVIOUS
<1>1. CASE UNCHANGED crdVars
  BY <1>1 DEF crdVars, RoundInv
<1>2. CASE Crd!CrdNext
  <2>1. CASE Crd!Change
    <3>1. UNCHANGED <<poller, step, reply, scans, tables>> /\ recent \subseteq recent'
      BY <2>1 DEF Crd!Change, Crd!loopVars
    <3> QED BY <3>1 DEF RoundInv
  <2>2. CASE Crd!SeeServices
    BY <2>2 DEF Crd!SeeServices, Crd!loopVars, RoundInv
  <2>3. CASE Crd!Open
    BY <2>3 DEF Crd!Open, RoundInv
  <2>4. CASE Crd!Ask
    <3>1. step \in 1..5 /\ (Crd!Current = "imagerepositories" <=> poller = "flux" /\ step = 3)
      BY <2>4, CurrentKind DEF Crd!Ask, RoundInv
    <3>2. UNCHANGED <<poller, step, scans, tables>>
      BY <2>4 DEF Crd!Ask
    <3>3. CASE poller = "flux" /\ step = 3
      BY <2>4, <3>1, <3>2, <3>3 DEF Crd!Ask, RoundInv
    <3>4. CASE ~(poller = "flux" /\ step = 3)
      BY <2>4, <3>1, <3>2, <3>4 DEF Crd!Ask, RoundInv
    <3> QED BY <3>3, <3>4
  <2>5. CASE Crd!Failure \/ Crd!Answer
    <3>1. /\ step \in 1..5 /\ (Crd!Current = "imagerepositories" <=> poller = "flux" /\ step = 3)
          /\ Len(Crd!Kinds[poller]) = IF poller = "flux" THEN 5 ELSE 3
      BY <2>5, CurrentKind DEF Crd!Failure, Crd!Answer, RoundInv
    <3>2. /\ UNCHANGED <<poller, recent>> /\ reply' = None
          /\ step' = IF step < (IF poller = "flux" THEN 5 ELSE 3) THEN step + 1 ELSE 1
          /\ DOMAIN tables' = DOMAIN tables
      BY <2>5, <3>1 DEF Crd!Failure, Crd!Answer, Crd!Proceed
    <3>3. poller = "flux" /\ step # 3 => scans' = scans
      BY <2>5, <3>1 DEF Crd!Failure, Crd!Answer
    <3>4. poller = "flux" /\ step = 3 => scans' \in {None} \union recent
      BY <2>5, <3>1 DEF Crd!Failure, Crd!Answer, RoundInv
    <3> QED BY <3>1, <3>2, <3>3, <3>4 DEF RoundInv
  <2> QED BY <1>2, <2>1, <2>2, <2>3, <2>4, <2>5 DEF Crd!CrdNext, Crd!CrdPoll
<1> QED BY <1>1, <1>2
        DEF Next, vars, CrdAlone, PvcAlone, MetricsAlone, PodAlone, HardwareAlone, ProbeAlone

\* A scan is one of the policy's own repository.
LEMMA JoinedScan ==
  ASSUME NEW policies, NEW repos, NEW i \in DOMAIN policies,
         Crd!Mapped("imagepolicies", policies, repos)[i].scan # None
  PROVE  LET shown == Crd!Mapped("imagepolicies", policies, repos)[i]
         IN /\ repos # None
            /\ \E r \in Crd!ToSet(repos) :
                 r.key = <<shown.key[1], policies[i].repo>> /\ r.scan = shown.scan
<1> DEFINE o == policies[i]
           shown == Crd!Mapped("imagepolicies", policies, repos)[i]
<1>1. shown = Crd!_map_image_policy(o, repos)
  BY DEF Crd!Mapped
<1>2. shown.key = o.key /\ shown.scan = Crd!ScanOf(repos, o.key[1], o.repo)
  BY <1>1 DEF Crd!_map_image_policy
<1> HIDE DEF o, shown
<1> DEFINE r == Crd!Row(repos, <<o.key[1], o.repo>>)
<1>3. repos # None /\ r # None /\ shown.scan = r.scan
  BY <1>2 DEF Crd!ScanOf, shown
<1>4. r \in Crd!ToSet(repos) /\ r.key = <<o.key[1], o.repo>>
  BY <1>3 DEF Crd!Row, Crd!ToSet
<1> HIDE DEF r
<1> QED BY <1>2, <1>3, <1>4 DEF o, shown

LEMMA PoliciesJoined ==
  ASSUME RoundInv, [Next]_vars PROVE Crd!ScansOfOneRound
<1> SUFFICES ASSUME tables'["imagepolicies"] # tables["imagepolicies"],
                    NEW i \in DOMAIN tables'["imagepolicies"],
                    tables'["imagepolicies"][i].scan # None
             PROVE  \E repos \in recent : \E r \in Crd!ToSet(repos) :
                      /\ r.key = <<tables'["imagepolicies"][i].key[1], reply[i].repo>>
                      /\ r.scan = tables'["imagepolicies"][i].scan
  BY DEF Crd!ScansOfOneRound
<1>1. Crd!SeeServices \/ Crd!Answer
  BY DEF Next, vars, crdVars, CrdAlone, PvcAlone, MetricsAlone, PodAlone, HardwareAlone, ProbeAlone,
         Crd!CrdNext, Crd!CrdPoll, Crd!Change, Crd!Open, Crd!Ask, Crd!Failure
<1>2. ~Crd!SeeServices
  BY DEF Crd!SeeServices, RoundInv
<1>3. /\ step \in 1..5 /\ reply \notin {None, Failed}
      /\ Crd!Current # "imagerepositories"
      /\ tables' = [tables EXCEPT ![Crd!Current] = Crd!Mapped(Crd!Current, reply, scans)]
  BY <1>1, <1>2 DEF Crd!Answer, RoundInv
<1>4. Crd!Current = "imagepolicies"
  BY <1>3 DEF RoundInv
<1>5. poller = "flux" /\ step = 4
  BY <1>3, <1>4, CurrentKind DEF RoundInv
<1>6. tables'["imagepolicies"] = Crd!Mapped("imagepolicies", reply, scans)
  BY <1>3, <1>4 DEF RoundInv
<1>7. i \in DOMAIN reply
  BY <1>6 DEF Crd!Mapped
<1> DEFINE shown == Crd!Mapped("imagepolicies", reply, scans)[i]
<1>8. /\ scans # None
      /\ \E r \in Crd!ToSet(scans) :
           r.key = <<shown.key[1], reply[i].repo>> /\ r.scan = shown.scan
  <2>1. shown.scan # None
    BY <1>6
  <2> QED BY <1>7, <2>1, JoinedScan
<1>9. scans \in recent
  BY <1>5, <1>8 DEF RoundInv
<1> QED BY <1>6, <1>8, <1>9

\* A policy is shown with a scan its own repository has had since this round asked
\* for it, or with none, whatever fails in between.
THEOREM ScansAreOfTheirRound == Spec => ScansOfOneRound
<1>1. RoundInv /\ [Next]_vars => (active = "crd" => Crd!ScansOfOneRound)
  BY PoliciesJoined
<1> QED BY <1>1, RoundStart, RoundStep, PTL DEF Spec, ScansOfOneRound
=============================================================================
