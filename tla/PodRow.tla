------------------------------- MODULE PodRow -------------------------------
(***************************************************************************)
(* What the pods table says of a pod (map_pod and its helpers in           *)
(* backend/app/collectors/k8s_watch.py), over the life the kubelet gives   *)
(* its containers: init containers one after the other, then the main      *)
(* ones side by side, exits, pauses after a crash, restarts.               *)
(*                                                                         *)
(* The kubelet is modelled from the fields map_pod reads.  A row is a      *)
(* function of the pod alone; when it reaches the table is WatchLoop's     *)
(* subject.  Init containers that keep running as sidecars are left out.   *)
(***************************************************************************)
EXTENDS Naturals, Sequences, FiniteSets

CONSTANTS
  NumInits,   \* bound: its init containers
  NumMains,   \* its main containers
  None,
  MaxExits    \* bound: exits in the life of the pod

\* What a container can wait for, and what it can end with.
Reasons == {"PodInitializing", "ContainerCreating", "CrashLoopBackOff"}

Terminations == {[reason |-> "Completed", exit_code |-> 0],
                 [reason |-> "Error", exit_code |-> 1],
                 [reason |-> "OOMKilled", exit_code |-> 137],
                 [reason |-> None, exit_code |-> 2]}

\* What map_pod reads of a V1ContainerStatus.
Statuses == [waiting : Reasons \union {None}, running : BOOLEAN,
             terminated : Terminations \union {None}, last : Terminations \union {None},
             restart_count : Nat, ready : BOOLEAN]

\* Of the constants; Collectors assumes it.  Python's None is like nothing else.
PodAssumption ==
  /\ {NumInits, NumMains, MaxExits} \subseteq Nat
  /\ NumMains > 0
  /\ None \notin Reasons /\ None \notin Terminations /\ None # "OOMKilled"
  /\ None \notin Statuses /\ None \notin Nat \X Nat

VARIABLES
  policy,     \* spec.restartPolicy
  init,       \* status.init_container_statuses
  main,       \* status.container_statuses
  exits,
  deaths      \* history: the terminations of each main container, newest first

podVars == <<policy, init, main, exits, deaths>>

Status(waiting, running, terminated, last, restarts) ==
  [waiting |-> waiting, running |-> running, terminated |-> terminated,
   last |-> last, restart_count |-> restarts, ready |-> running]

Waiting(reason, last, n) == Status(reason, FALSE, None, last, n)
Running(last, n) == Status(None, TRUE, None, last, n)
Terminated(t, last, n) == Status(None, FALSE, t, last, n)

PodInit ==
  /\ policy \in {"Always", "Never"}
  /\ init = <<>>
  /\ main = <<>>
  /\ exits = 0
  /\ deaths = [c \in 1..NumMains |-> <<>>]

-----------------------------------------------------------------------------
(* The kubelet                                                             *)

\* It takes up the pod.
Admit ==
  /\ main = <<>>
  /\ \E inits \in 0..NumInits :
       /\ init' = [i \in 1..inits |-> Waiting("PodInitializing", None, 0)]
       /\ main' = [c \in 1..NumMains |->
                     Waiting(IF inits > 0 THEN "PodInitializing" ELSE "ContainerCreating", None, 0)]
  /\ UNCHANGED <<policy, exits, deaths>>

Succeeded(s) == s.terminated # None /\ s.terminated.exit_code = 0
Retried(s) == s.terminated # None /\ policy = "Always"

\* A container whose turn it is starts, or starts again after a pause.
Started(s) ==
  IF s.waiting = "CrashLoopBackOff" THEN Running(s.last, s.restart_count + 1)
  ELSE Running(s.last, s.restart_count)

\* A terminated container is paused, or restarted at once.
Again(s) == {Waiting("CrashLoopBackOff", s.terminated, s.restart_count),
             Running(s.terminated, s.restart_count + 1)}

StepInit(i) ==
  /\ \A before \in 1..(i - 1) : Succeeded(init[before])
  /\ \/ /\ init[i].waiting # None
        /\ init' = [init EXCEPT ![i] = Started(@)]
        /\ UNCHANGED exits
     \/ /\ init[i].running
        /\ exits < MaxExits
        /\ exits' = exits + 1
        /\ \E t \in Terminations :
             init' = [init EXCEPT ![i] = Terminated(t, @.last, @.restart_count)]
     \/ /\ Retried(init[i]) /\ ~Succeeded(init[i])
        /\ \E s \in Again(init[i]) : init' = [init EXCEPT ![i] = s]
        /\ UNCHANGED exits
  /\ UNCHANGED <<policy, main, deaths>>

StepMain(c) ==
  /\ \A i \in DOMAIN init : Succeeded(init[i])
  /\ \/ /\ main[c].waiting # None
        /\ main' = [main EXCEPT ![c] = Started(@)]
        /\ UNCHANGED <<exits, deaths>>
     \/ /\ main[c].running
        /\ exits < MaxExits
        /\ exits' = exits + 1
        /\ \E t \in Terminations :
             /\ main' = [main EXCEPT ![c] = Terminated(t, @.last, @.restart_count)]
             /\ deaths' = [deaths EXCEPT ![c] = <<t>> \o @]
     \/ /\ Retried(main[c])
        /\ \E s \in Again(main[c]) : main' = [main EXCEPT ![c] = s]
        /\ UNCHANGED <<exits, deaths>>
  /\ UNCHANGED <<policy, init>>

PodNext ==
  \/ Admit
  \/ \E i \in DOMAIN init : StepInit(i)
  \/ \E c \in DOMAIN main : StepMain(c)

-----------------------------------------------------------------------------
(* map_pod                                                                 *)

\* The first element of s that is in S, or None.
FirstIn(s, S(_)) ==
  LET hits == {i \in DOMAIN s : S(s[i])}
  IN IF hits = {} THEN None ELSE s[CHOOSE i \in hits : \A j \in hits : i <= j]

\* Mutant: the termination before the restart comes first.
LastTerminationStale(s) ==
  IF s.last # None THEN s.last
  ELSE IF s.terminated # None THEN s.terminated ELSE [reason |-> None, exit_code |-> None]

\* A termination that is the state right now comes before the last one.
_last_termination(s) ==
  IF s.terminated # None THEN s.terminated
  ELSE IF s.last # None THEN s.last ELSE [reason |-> None, exit_code |-> None]

\* Mutant: the first container that waits for anything gives the reason.
InitStatusWaitingOnly(statuses) ==
  LET completed == Cardinality({i \in DOMAIN statuses : Succeeded(statuses[i])})
      stuck == FirstIn(statuses, LAMBDA s : s.waiting # None)
  IN IF completed = Len(statuses) THEN [progress |-> None, reason |-> None]
     ELSE [progress |-> <<completed, Len(statuses)>>,
           reason |-> IF stuck = None THEN None ELSE stuck.waiting]

\* How many init containers have succeeded, and what the first one that waits or
\* has failed says; nothing once all have.
_init_container_status(statuses) ==
  LET completed == Cardinality({i \in DOMAIN statuses : Succeeded(statuses[i])})
      stuck == FirstIn(statuses, LAMBDA s :
                 s.waiting # None \/ (s.terminated # None /\ ~Succeeded(s)))
  IN IF completed = Len(statuses) THEN [progress |-> None, reason |-> None]
     ELSE [progress |-> <<completed, Len(statuses)>>,
           reason |-> IF stuck = None THEN None
                      ELSE IF stuck.waiting # None THEN stuck.waiting
                      ELSE IF stuck.terminated.reason # None THEN stuck.terminated.reason
                      ELSE "Error (exit code)"]

\* Mutant: only what a container is in right now counts.
OomNow(statuses) ==
  \E i \in DOMAIN statuses :
    /\ statuses[i].terminated # None
    /\ statuses[i].terminated.reason = "OOMKilled"

\* A container was killed for memory: now, or before its last restart.
OomKilled(statuses) ==
  \E i \in DOMAIN statuses : \E t \in {statuses[i].terminated, statuses[i].last} :
    t # None /\ t.reason = "OOMKilled"

\* The last termination with a reason, of the first container that has one;
\* without any, that of the last container.
LastExit(statuses) ==
  LET all == [i \in DOMAIN statuses |-> _last_termination(statuses[i])]
      reasoned == FirstIn(all, LAMBDA t : t.reason # None)
  IN IF all = <<>> THEN [reason |-> None, exit_code |-> None]
     ELSE IF reasoned # None THEN reasoned ELSE all[Len(all)]

\* What the last container that waits is waiting for.
WaitingReason(statuses) ==
  LET waiting == {i \in DOMAIN statuses : statuses[i].waiting # None}
  IN IF waiting = {} THEN None
     ELSE statuses[CHOOSE i \in waiting : \A j \in waiting : j <= i].waiting

map_pod(inits, statuses) ==
  [ready |-> Cardinality({i \in DOMAIN statuses : statuses[i].ready}),
   reason |-> WaitingReason(statuses),
   oom_killed |-> OomKilled(statuses),
   last_exit |-> LastExit(statuses),
   init |-> _init_container_status(inits)]

row == map_pod(init, main)
-----------------------------------------------------------------------------
Newest(c) == Head(deaths[c])
Dead == {c \in 1..NumMains : deaths[c] # <<>>}

\* A kill for memory is told until its container has ended again and been
\* restarted, whichever of the two states still holds it (k8s_watch.py:119-121);
\* and it is not told of a pod none of whose last two exits was one.
OomNotForgotten ==
  /\ (\E c \in Dead : Newest(c).reason = "OOMKilled") => row.oom_killed
  /\ row.oom_killed =>
       \E c \in Dead : \E i \in DOMAIN deaths[c] : i <= 2 /\ deaths[c][i].reason = "OOMKilled"

\* The exit that is shown is the newest one of its container, reason and code
\* together, of the first container with a reason to show (74-82, 130-131).
LastExitIsNewest ==
  \A c \in Dead :
    Newest(c).reason # None /\ (\A b \in Dead : b < c => Newest(b).reason = None)
      => row.last_exit = Newest(c)

\* While init containers are told of, no main container has started, and the
\* reason is the one of the container that blocks the pod whenever that one has
\* failed (85-92); once one has started, nothing is told of them any more.
InitTellsWhatBlocks ==
  IF row.init.progress = None
  THEN \A i \in DOMAIN init : Succeeded(init[i])
  ELSE LET blocking == init[row.init.progress[1] + 1]
       IN /\ Dead = {} /\ row.ready = 0
          /\ blocking.waiting # None => row.init.reason = blocking.waiting
          /\ blocking.terminated # None =>
               row.init.reason = IF blocking.terminated.reason # None
                                 THEN blocking.terminated.reason ELSE "Error (exit code)"
=============================================================================
