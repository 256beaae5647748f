------------------------------- MODULE Probes -------------------------------
(***************************************************************************)
(* The probe behind a healthcheck, from its start to the verdict that is   *)
(* recorded: HTTP routes and Services (collectors/autochecks.py), HTTP and *)
(* TCP targets of the YAML file (collectors/healthcheck.py), and the       *)
(* cluster's DNS (collectors/dns_check.py).  A behaviour follows one loop, *)
(* of one `kind`; how loops come and go is AutoChecks'.                    *)
(*                                                                         *)
(* A target is unreachable (None: refused, timed out, unresolved, no TLS), *)
(* accepts a connection and then closes or resets it, stays silent or      *)
(* talks no HTTP (Garbled), or answers requests with a status.  It may     *)
(* change at every await of a probe.                                       *)
(***************************************************************************)
EXTENDS Naturals

CONSTANTS
  Codes,        \* bound: HTTP statuses
  None, Garbled

Targets == Codes \union {None, Garbled}

\* Of the constants; Collectors assumes it.
ProbesAssumption ==
  /\ Codes \subseteq 100..599
  /\ {None, Garbled} \intersect Codes = {}

VARIABLES
  kind,      \* "route", "service", "http", "tcp" or "dns"
  expected,  \* expected_status of an "http" check, or None
  target,    \* what the target is now
  stage,     \* "asleep", "opening", "asking" or "closing"
  ok,        \* entry["last"]["ok"], None before the first result
  \* History variable, read by no guard:
  seen_targets   \* what the target has been during the probe

probeVars == <<kind, expected, target, stage, ok, seen_targets>>

ProbesInit ==
  /\ kind \in {"route", "service", "http", "tcp", "dns"}
  /\ expected \in Codes \union {None} /\ (kind # "http" => expected = None)
  /\ target \in Targets
  /\ stage = "asleep"
  /\ ok = None
  /\ seen_targets = {}

-----------------------------------------------------------------------------
TargetChange ==
  /\ target' \in Targets
  /\ seen_targets' = IF stage = "asleep" THEN seen_targets ELSE seen_targets \union {target'}
  /\ UNCHANGED <<kind, expected, stage, ok>>

\* The pause is over.
BeginProbe ==
  /\ stage = "asleep"
  /\ stage' = "opening"
  /\ seen_targets' = {target}
  /\ UNCHANGED <<kind, expected, target, ok>>

\* record_check, and the pause.
Verdict(up) == stage' = "asleep" /\ ok' = up

\* The connection, or for "dns" the name: an error or a timeout is a verdict.
Opened ==
  /\ stage = "opening"
  /\ \/ target = None /\ Verdict(FALSE)
     \/ target # None /\ kind = "dns" /\ Verdict(TRUE)
     \/ target # None /\ kind \in {"service", "tcp"} /\ stage' = "closing" /\ UNCHANGED ok
     \/ target # None /\ kind \in {"route", "http"} /\ stage' = "asking" /\ UNCHANGED ok
  /\ UNCHANGED <<kind, expected, target, seen_targets>>

\* wait_closed raises what a reset has left in the transport.
_probe_service ==
  /\ stage = "closing"
  /\ kind = "service"
  /\ \/ Verdict(TRUE)
     \/ target = Garbled /\ Verdict(FALSE)
  /\ UNCHANGED <<kind, expected, target, seen_targets>>

_run_tcp ==
  /\ stage = "closing"
  /\ kind = "tcp"
  /\ \/ Verdict(TRUE)
     \/ target = Garbled /\ Verdict(FALSE)
  /\ UNCHANGED <<kind, expected, target, seen_targets>>

\* Mutant: the criterion of the YAML checks.
_probe_route_below_400 ==
  /\ stage = "asking"
  /\ kind = "route"
  /\ Verdict(target \in Codes /\ target < 400)
  /\ UNCHANGED <<kind, expected, target, seen_targets>>

\* The status line, if there is one; what the close raises is suppressed.
_probe_route ==
  /\ stage = "asking"
  /\ kind = "route"
  /\ Verdict(target \in Codes /\ target < 500)
  /\ UNCHANGED <<kind, expected, target, seen_targets>>

_run_http ==
  /\ stage = "asking"
  /\ kind = "http"
  /\ Verdict(target \in Codes /\ IF expected # None THEN target = expected ELSE target < 400)
  /\ UNCHANGED <<kind, expected, target, seen_targets>>

ProbesNext ==
  TargetChange \/ BeginProbe \/ Opened \/ _probe_service \/ _run_tcp \/ _probe_route \/ _run_http
-----------------------------------------------------------------------------
\* What the code and the docs call up: a route by "a 401/403/404 still proves the
\* backend is up ... only a 5xx or a failed connection means it's actually down"
\* (autochecks.py:152-154), a YAML URL by its expected status, otherwise by less
\* than 400, anything else by a connection or a name that resolves.
Healthy(t) ==
  CASE kind = "route" -> t \in {c \in Codes : c \div 100 # 5}
    [] kind = "http" -> IF expected # None THEN t = expected ELSE t \in {c \in Codes : c < 400}
    [] OTHER -> t # None

\* A result is about its own probe, whenever during it the target changed: up is
\* only recorded if the target was healthy at some moment between its start and
\* its end, down only if it was not, or reset a connection it had accepted.
VerdictOfItsProbe ==
  stage = "asleep" /\ ok # None =>
    /\ ok => \E t \in seen_targets : Healthy(t)
    /\ ~ok => \E t \in seen_targets : ~Healthy(t) \/ t = Garbled
=============================================================================
