----------------------------- MODULE AutoChecks -----------------------------
(***************************************************************************)
(* The healthchecks of one replica: the auto-discovered ones, reconciled   *)
(* with the live state by backend/app/collectors/autochecks.py, and the    *)
(* YAML ones of backend/app/collectors/healthcheck.py.  Both kinds run one *)
(* probe loop per check and record into the same state.healthchecks.       *)
(*                                                                         *)
(* `wanted` is what route_checks and service_checks compute from the       *)
(* tables; a definition (address, port, TLS) is a member of Defs, and      *)
(* stands for the config recorded with a result.  What a result says       *)
(* (ok, latency, detail) is left out.                                      *)
(***************************************************************************)
EXTENDS Naturals

CONSTANTS
  Names,       \* check names: hostnames, "ns/service:port", names in the YAML
  YamlNames,   \* the checks of the YAML file
  Defs,        \* definitions of auto-discovered checks
  YamlDef,     \* the public_cfg of a YAML check
  None

ASSUME ChecksAssumption ==
  /\ YamlNames \subseteq Names
  /\ YamlDef \notin Defs
  /\ None \notin Defs \union {YamlDef}

VARIABLES
  wanted,    \* the checks the live state calls for now
  checks,    \* the dict run() shares with the loops
  tasks,     \* the names run() holds a task for
  loop,      \* each auto loop: "none", "ready", "probing" or "asleep"
  probed,    \* `check` of a probing loop, read before the await
  yamlLoop,  \* each YAML loop: "none", "probing" or "asleep"
  entries    \* the config in state.healthchecks

vars == <<wanted, checks, tasks, loop, probed, yamlLoop, entries>>

TypeOK ==
  /\ wanted \in [Names -> Defs \union {None}]
  /\ checks \in [Names -> Defs \union {None}]
  /\ tasks \subseteq Names
  /\ loop \in [Names -> {"none", "ready", "probing", "asleep"}]
  /\ probed \in [Names -> Defs \union {None}]
  /\ yamlLoop \in [Names -> {"none", "probing", "asleep"}]
  /\ entries \in [Names -> Defs \union {YamlDef, None}]
  /\ \A n \in Names : probed[n] # None <=> loop[n] = "probing"
  /\ \A n \in Names : yamlLoop[n] # "none" => n \in YamlNames

\* The file is read once; one that is absent or unreadable holds no check.
load_checks == {YamlNames, {}}

\* healthcheck.run: one loop per check of the file, for the process lifetime.
YamlRun(loaded) ==
  yamlLoop = [n \in Names |-> IF n \in loaded THEN "probing" ELSE "none"]

Init ==
  /\ wanted = [n \in Names |-> None]
  /\ checks = [n \in Names |-> None]
  /\ tasks = {}
  /\ loop = [n \in Names |-> "none"]
  /\ probed = [n \in Names |-> None]
  /\ \E loaded \in load_checks : YamlRun(loaded)
  /\ entries = [n \in Names |-> None]

-----------------------------------------------------------------------------
\* A route or a Service appears, changes or disappears.
Discover ==
  /\ \E n \in Names, d \in Defs \union {None} : wanted' = [wanted EXCEPT ![n] = d]
  /\ UNCHANGED <<checks, tasks, loop, probed, yamlLoop, entries>>

Vanished == {n \in tasks : wanted[n] = None}
Fresh    == {n \in Names \ tasks : wanted[n] # None}

\* Mutant: the task of a vanished check is forgotten, not cancelled.
ReconcileNoCancel ==
  /\ checks' = wanted
  /\ tasks' = {n \in Names : wanted[n] # None}
  /\ loop' = [n \in Names |-> IF n \in Fresh THEN "ready" ELSE loop[n]]
  /\ entries' = [n \in Names |-> IF n \in Vanished THEN None ELSE entries[n]]
  /\ UNCHANGED <<wanted, probed, yamlLoop>>

\* Mutant: a vanished check's cancelled task stays in the dict of tasks.
ReconcileNoPop ==
  /\ checks' = wanted
  /\ tasks' = tasks \union Fresh
  /\ loop' = [n \in Names |-> IF n \in Vanished THEN "none"
                              ELSE IF n \in Fresh THEN "ready" ELSE loop[n]]
  /\ probed' = [n \in Names |-> IF n \in Vanished THEN None ELSE probed[n]]
  /\ entries' = [n \in Names |-> IF n \in Vanished THEN None ELSE entries[n]]
  /\ UNCHANGED <<wanted, yamlLoop>>

\* Mutant: a loop keeps the definition it was created with.
ReconcileKeepsOldDefs ==
  /\ checks' = [n \in Names |-> IF wanted[n] = None THEN None
                                ELSE IF checks[n] # None THEN checks[n] ELSE wanted[n]]
  /\ tasks' = {n \in Names : wanted[n] # None}
  /\ loop' = [n \in Names |-> IF n \in Vanished THEN "none"
                              ELSE IF n \in Fresh THEN "ready" ELSE loop[n]]
  /\ probed' = [n \in Names |-> IF n \in Vanished THEN None ELSE probed[n]]
  /\ entries' = [n \in Names |-> IF n \in Vanished THEN None ELSE entries[n]]
  /\ UNCHANGED <<wanted, yamlLoop>>

\* One round of run(), without an await: the dict is refilled in place, the
\* loops of vanished checks are cancelled and their entries removed, new loops
\* are created.  A cancelled loop ends at its await and records nothing more.
Reconcile ==
  /\ checks' = wanted
  /\ tasks' = {n \in Names : wanted[n] # None}
  /\ loop' = [n \in Names |-> IF n \in Vanished THEN "none"
                              ELSE IF n \in Fresh THEN "ready" ELSE loop[n]]
  /\ probed' = [n \in Names |-> IF n \in Vanished THEN None ELSE probed[n]]
  /\ entries' = [n \in Names |-> IF n \in Vanished THEN None ELSE entries[n]]
  /\ UNCHANGED <<wanted, yamlLoop>>

\* The loop reads its definition and awaits the probe; a loop whose check is
\* gone from the dict returns.
StartProbe(n) ==
  /\ loop[n] = "ready"
  /\ IF checks[n] = None
     THEN loop' = [loop EXCEPT ![n] = "none"] /\ UNCHANGED probed
     ELSE /\ loop' = [loop EXCEPT ![n] = "probing"]
          /\ probed' = [probed EXCEPT ![n] = checks[n]]
  /\ UNCHANGED <<wanted, checks, tasks, yamlLoop, entries>>

\* The probe answered, failed or timed out: record_check with the definition
\* that was probed, then sleep CHECK_INTERVAL.
Record(n) ==
  /\ loop[n] = "probing"
  /\ entries' = [entries EXCEPT ![n] = probed[n]]
  /\ loop' = [loop EXCEPT ![n] = "asleep"]
  /\ probed' = [probed EXCEPT ![n] = None]
  /\ UNCHANGED <<wanted, checks, tasks, yamlLoop>>

NextRound(n) ==
  /\ loop[n] = "asleep"
  /\ loop' = [loop EXCEPT ![n] = "ready"]
  /\ UNCHANGED <<wanted, checks, tasks, probed, yamlLoop, entries>>

RecordYaml(n) ==
  /\ yamlLoop[n] = "probing"
  /\ entries' = [entries EXCEPT ![n] = YamlDef]
  /\ yamlLoop' = [yamlLoop EXCEPT ![n] = "asleep"]
  /\ UNCHANGED <<wanted, checks, tasks, loop, probed>>

NextYamlRound(n) ==
  /\ yamlLoop[n] = "asleep"
  /\ yamlLoop' = [yamlLoop EXCEPT ![n] = "probing"]
  /\ UNCHANGED <<wanted, checks, tasks, loop, probed, entries>>

Next ==
  \/ Discover
  \/ Reconcile
  \/ \E n \in Names : \/ StartProbe(n) \/ Record(n) \/ NextRound(n)
                      \/ RecordYaml(n) \/ NextYamlRound(n)

Spec == Init /\ [][Next]_vars
-----------------------------------------------------------------------------
\* run() and its loops agree across every await: each check of the dict has
\* its task and a loop that is still running, and no loop runs besides
\* (autochecks.py:205-215; the early return of 184-186 must stay unreachable,
\* or the check would never be probed again, its name still being in tasks).
LoopPerCheck ==
  /\ tasks = {n \in Names : checks[n] # None}
  /\ \A n \in Names : loop[n] # "none" <=> n \in tasks

\* An auto-discovered check that is shown has a loop that will refresh it or a
\* reconciliation that will remove it: no late result of a cancelled loop puts
\* a removed check back (autochecks.py:193 against 209-212).
NoZombieEntry ==
  \A n \in Names \ YamlNames : entries[n] # None => n \in tasks

\* The inductive invariant.
IInv == TypeOK /\ LoopPerCheck /\ NoZombieEntry

\* Probes answer or time out and timers fire.
Fairness ==
  /\ WF_vars(Reconcile)
  /\ \A n \in Names :
       /\ WF_vars(StartProbe(n)) /\ WF_vars(Record(n)) /\ WF_vars(NextRound(n))
       /\ WF_vars(RecordYaml(n)) /\ WF_vars(NextYamlRound(n))

LiveSpec == Spec /\ Fairness

\* A check shows its current definition once that stays put, though results of
\* the definition it had before may still arrive, and disappears once its
\* target does (autochecks.py:31-34).
FollowsTarget ==
  \A n \in Names \ YamlNames, d \in Defs \union {None} :
    <>[](wanted[n] = d) => <>[](entries[n] = d)

\* "YAML-configured checks (a fixed list for the process lifetime, nothing ever
\* removes those)" (state.py:297-299).  remove_check knows no owner: when the
\* auto-discovered check of the same name vanishes, the YAML check's entry and
\* its history go with it until the next probe.
YamlNeverRemoved ==
  [][\A n \in YamlNames : entries[n] # None => entries'[n] # None]_vars
=============================================================================
