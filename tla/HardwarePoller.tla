--------------------------- MODULE HardwarePoller ---------------------------
(***************************************************************************)
(* The poller of the hardware agents (backend/app/collectors/hardware.py): *)
(* each round resolves the headless Service to the addresses of the agent  *)
(* pods and asks one after the other, each failing on its own.             *)
(*                                                                         *)
(* DNS follows the pods with a delay, so that a round may ask an address   *)
(* that is gone, or that another node's agent has been given meanwhile;    *)
(* the payload names its node.  What record_hardware makes of a sample is  *)
(* SeriesFeed's.  Of the vitals the two memory counters are here, which    *)
(* the poller turns into mem_pct; 0 stands for a missing one.              *)
(***************************************************************************)
EXTENDS FiniteSetsExt, Integers

CONSTANTS
  Ips,           \* addresses of agent pods, as numbers: their sorting order
  AgentNodes,    \* nodes with an agent
  Memories,      \* bound: what a node reports, [total, available]
  None, Failed,
  MaxAgentChanges   \* bound: changes of agents and vitals, and outages

\* Of the constants; Collectors assumes it.
HardwareAssumption ==
  /\ Ips \subseteq Nat
  /\ Memories \subseteq [total : Nat, available : Nat]
  /\ None \notin AgentNodes
  /\ MaxAgentChanges \in Nat

VARIABLES
  agents,     \* the node whose agent has the address, or None
  vitals,     \* what each node's /proc/meminfo says
  mute,       \* the addresses that time out or answer no such JSON
  resolved,   \* what the Service's name resolves to; {} also for an error
  agentChanges,
  ips,        \* the rest of the round's addresses, or None between rounds
  answer,     \* the answer of the first of them, Failed, or None
  hardware    \* state.hardware

fleetVars == <<agents, vitals, mute, agentChanges>>
hardwareVars == <<fleetVars, resolved, ips, answer, hardware>>

HardwareInit ==
  /\ agents \in [Ips -> AgentNodes \union {None}]
  /\ vitals = [n \in AgentNodes |-> CHOOSE m \in Memories : TRUE]
  /\ mute = {}
  /\ resolved = {}
  /\ agentChanges = 0
  /\ ips = None
  /\ answer = None
  /\ hardware = [n \in AgentNodes |-> None]

-----------------------------------------------------------------------------
(* The cluster                                                             *)

\* An agent starts, stops or moves; an address stops answering or recovers.
FleetChange ==
  /\ agentChanges < MaxAgentChanges
  /\ agentChanges' = agentChanges + 1
  /\ \/ /\ \E ip \in Ips, n \in AgentNodes \union {None} : agents' = [agents EXCEPT ![ip] = n]
        /\ UNCHANGED <<vitals, mute>>
     \/ /\ \E n \in AgentNodes, m \in Memories : vitals' = [vitals EXCEPT ![n] = m]
        /\ UNCHANGED <<agents, mute>>
     \/ /\ \E ip \in Ips : mute' = IF ip \in mute THEN mute \ {ip} ELSE mute \union {ip}
        /\ UNCHANGED <<agents, vitals>>
  /\ UNCHANGED <<resolved, ips, answer, hardware>>

\* The endpoints, and with them the name, follow the pods.
Endpoints ==
  /\ resolved' = {ip \in Ips : agents[ip] # None}
  /\ UNCHANGED <<fleetVars, ips, answer, hardware>>

-----------------------------------------------------------------------------
(* The poller                                                              *)

\* Without an address the round is over.
_resolve_agents ==
  /\ ips = None
  /\ ips' = IF resolved = {} THEN None ELSE resolved
  /\ UNCHANGED <<fleetVars, resolved, answer, hardware>>

AskAgent ==
  /\ ips # None
  /\ answer = None
  /\ LET ip == Min(ips)
     IN answer' = IF ip \in mute \/ agents[ip] = None THEN Failed
                  ELSE [node |-> agents[ip], mem |-> vitals[agents[ip]]]
  /\ UNCHANGED <<fleetVars, resolved, ips, hardware>>

\* mem_pct in tenths, rounded down.
MemPct(m) == IF m.total = 0 THEN None ELSE (1000 * (m.total - m.available)) \div m.total

\* The rest of the addresses after this one.
Remaining == IF ips = {Min(ips)} THEN None ELSE ips \ {Min(ips)}

RecordAnswer ==
  /\ answer \notin {None, Failed}
  /\ hardware' = [hardware EXCEPT ![answer.node] =
                    [mem |-> answer.mem, mem_pct |-> MemPct(answer.mem)]]
  /\ ips' = Remaining
  /\ answer' = None
  /\ UNCHANGED <<fleetVars, resolved>>

\* Mutant: one handler around the loop, not one around each request.
SkipAgentAndRest ==
  /\ answer = Failed
  /\ ips' = None
  /\ answer' = None
  /\ UNCHANGED <<fleetVars, resolved, hardware>>

\* A failing agent costs the round nothing but its own sample.
SkipAgent ==
  /\ answer = Failed
  /\ ips' = Remaining
  /\ answer' = None
  /\ UNCHANGED <<fleetVars, resolved, hardware>>

HardwarePoll == _resolve_agents \/ AskAgent \/ RecordAnswer \/ SkipAgent
HardwareNext == FleetChange \/ Endpoints \/ HardwarePoll
-----------------------------------------------------------------------------
\* Once agents come and go no more, every node whose agent answers is shown with
\* its own vitals, though other agents never answer, and though addresses were
\* asked that were gone or another node's by then (hardware.py:45-60).
AgentsFollow ==
  <>[]( \A ip \in Ips \ mute : agents[ip] # None =>
          hardware[agents[ip]] = [mem |-> vitals[agents[ip]],
                                  mem_pct |-> MemPct(vitals[agents[ip]])] )
=============================================================================
