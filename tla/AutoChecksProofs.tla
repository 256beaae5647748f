-------------------------- MODULE AutoChecksProofs --------------------------
(* IInv of AutoChecks is inductive: the reconciliation and the probe loops  *)
(* stay matched whatever the names, and no late result revives a check.     *)
EXTENDS AutoChecks, TLAPS

\* The state starts without tasks, loops and entries.
LEMMA InitEstablishes == Init => IInv
<1> SUFFICES ASSUME Init PROVE IInv
  OBVIOUS
<1>1. PICK loaded \in load_checks : YamlRun(loaded)
  BY DEF Init
<1>2. loaded \subseteq YamlNames
  BY <1>1 DEF load_checks
<1> QED BY <1>1, <1>2, ChecksAssumption
        DEF Init, YamlRun, IInv, TypeOK, LoopPerCheck, NoZombieEntry

\* A round of run(): the dict, the tasks and the loops change together.
LEMMA ReconcilePreserves == IInv /\ Reconcile => IInv'
<1> SUFFICES ASSUME IInv, Reconcile PROVE IInv'
  OBVIOUS
<1> USE DEF IInv, Reconcile, Vanished, Fresh
<1>1. TypeOK'
  BY ChecksAssumption DEF TypeOK, LoopPerCheck
<1>2. LoopPerCheck'
  BY DEF TypeOK, LoopPerCheck
<1>3. NoZombieEntry'
  BY DEF TypeOK, NoZombieEntry
<1> QED BY <1>1, <1>2, <1>3

\* One probe loop takes a step; by LoopPerCheck its check is still wanted by
\* run(), so neither the early return nor a late result can occur.
LEMMA LoopStepPreserves ==
  ASSUME NEW n \in Names, IInv,
         StartProbe(n) \/ Record(n) \/ NextRound(n)
           \/ RecordYaml(n) \/ NextYamlRound(n)
  PROVE  IInv'
<1> USE ChecksAssumption DEF IInv, TypeOK, LoopPerCheck, NoZombieEntry
<1>1. CASE StartProbe(n)
  <2>1. checks[n] # None
    BY <1>1 DEF StartProbe
  <2> QED BY <1>1, <2>1 DEF StartProbe
<1>2. CASE Record(n)
  <2>1. n \in tasks /\ probed[n] \in Defs
    BY <1>2 DEF Record
  <2> QED BY <1>2, <2>1 DEF Record
<1>3. CASE NextRound(n)
  BY <1>3 DEF NextRound
<1>4. CASE RecordYaml(n)
  <2>1. n \in YamlNames
    BY <1>4 DEF RecordYaml
  <2> QED BY <1>4, <2>1 DEF RecordYaml
<1>5. CASE NextYamlRound(n)
  BY <1>5 DEF NextYamlRound
<1> QED BY <1>1, <1>2, <1>3, <1>4, <1>5

LEMMA Invariance == Spec => []IInv
<1>1. IInv /\ [Next]_vars => IInv'
  <2> SUFFICES ASSUME IInv, [Next]_vars PROVE IInv'
    OBVIOUS
  <2>1. CASE Discover
    BY <2>1 DEF Discover, IInv, TypeOK, LoopPerCheck, NoZombieEntry
  <2>2. CASE Reconcile
    BY <2>2, ReconcilePreserves
  <2>3. CASE \E n \in Names : \/ StartProbe(n) \/ Record(n) \/ NextRound(n)
                              \/ RecordYaml(n) \/ NextYamlRound(n)
    BY <2>3, LoopStepPreserves
  <2>4. CASE UNCHANGED vars
    BY <2>4 DEF vars, IInv, TypeOK, LoopPerCheck, NoZombieEntry
  <2> QED BY <2>1, <2>2, <2>3, <2>4 DEF Next
<1> QED BY <1>1, InitEstablishes, PTL DEF Spec

\* Every check of run()'s dict has exactly one live probe loop, and no loop
\* outlives its check: the early return of autochecks.py:184-186 is dead code.
THEOREM LoopsMatchChecks == Spec => []LoopPerCheck
<1>1. IInv => LoopPerCheck
  BY DEF IInv
<1> QED BY <1>1, Invariance, PTL

\* An auto-discovered check that was removed stays removed: no cancelled probe
\* records into the replica's state afterwards.
THEOREM NoLateResult == Spec => []NoZombieEntry
<1>1. IInv => NoZombieEntry
  BY DEF IInv
<1> QED BY <1>1, Invariance, PTL
=============================================================================
