----------------------------- MODULE Discovery ------------------------------
(***************************************************************************)
(* The rows piwatch makes of Gateway API objects and Services              *)
(* (backend/app/collectors/gateway.py, k8s_watch.py) and the health checks *)
(* it derives from those rows (collectors/autochecks.py).                  *)
(*                                                                         *)
(* A table is a sequence of rows in the order of the dict's keys.  A key   *)
(* is <<namespace, name>>, a condition its status, and messages, reasons   *)
(* and fields that are only copied for display are left out.               *)
(***************************************************************************)
EXTENDS Naturals, Sequences, SequencesExt, FiniteSetsExt

CONSTANT None

\* Objects are sequences of listeners, parents, ... in the order of their lists.
TrueIn(conditions) == SelectSeq(conditions, LAMBDA status : status = "True")

_map_gateway(o) ==
  [key |-> o.key,
   ready |-> o.programmed = "True",
   addresses |-> ToSet(o.addresses),
   listener_count |-> Len(o.listeners),
   listeners_ready |-> Len(TrueIn([i \in DOMAIN o.listeners |-> o.listeners[i].programmed])),
   attached_routes |-> FoldLeft(LAMBDA n, l : n + l.attached, 0, o.listeners),
   listeners |-> [i \in DOMAIN o.listeners |->
                    [hostname |-> o.listeners[i].hostname, port |-> o.listeners[i].port,
                     protocol |-> o.listeners[i].protocol]]]

\* A parent in the route's own namespace does not name it.  Every parent that
\* reports must accept the route, and one must have reported.
_map_http_route(o) ==
  [key |-> o.key,
   hostnames |-> o.hostnames,
   parents |-> [i \in DOMAIN o.parents |->
                  <<IF o.parents[i].namespace = None THEN o.key[1] ELSE o.parents[i].namespace,
                    o.parents[i].name>>],
   accepted |-> o.status # <<>> /\ \A s \in ToSet(o.status) : s.accepted = "True",
   resolved_refs |-> \A s \in ToSet(o.status) : s.resolved = "True"]

_map_rate_limit_policy(o) ==
  [key |-> o.key,
   targets |-> o.targets,
   accepted |-> o.ancestors # <<>> /\ Len(TrueIn(o.ancestors)) = Len(o.ancestors)]

map_service(o) ==
  [key |-> o.key, type |-> o.type, cluster_ip |-> o.cluster_ip,
   external_ips |-> ToSet(o.ingress) \ {None}, ports |-> o.ports]

-----------------------------------------------------------------------------
FirstOr(s, default) == IF s = <<>> THEN default ELSE Head(s)

\* The listener of this hostname, or the first one without any.
_find_listener(gateway, hostname) ==
  LET Http(name) == SelectSeq(gateway.listeners, LAMBDA l :
                      l.hostname = name /\ l.protocol \in {"HTTP", "HTTPS"})
  IN FirstOr(Http(hostname) \o Http(None), None)

\* The first Service with one of the gateway's addresses.
_gateway_cluster_ip(gateway, services) ==
  LET fronting == SelectSeq(services, LAMBDA s :
                    s.external_ips \intersect gateway.addresses # {})
  IN IF fronting = <<>> THEN None ELSE Head(fronting).cluster_ip

\* The row of a key, of which a table has one at most.
Row(table, key) ==
  LET rows == {r \in ToSet(table) : r.key = key}
  IN IF rows = {} THEN None ELSE CHOOSE r \in rows : TRUE

\* A dict filled by these entries in turn: the last one of a name stays.
Filled(entries) ==
  [name \in {e[1] : e \in ToSet(entries)} |->
     entries[Max({i \in DOMAIN entries : entries[i][1] = name})][2]]

\* The checks of one hostname through one parent of a route.
Offer(gateways, services, parent, hostname) ==
  LET gateway == Row(gateways, parent)
      ip == IF gateway = None THEN None ELSE _gateway_cluster_ip(gateway, services)
      listener == IF ip = None THEN None ELSE _find_listener(gateway, hostname)
  IN IF listener = None THEN <<>>
     ELSE <<<<hostname, [kind |-> "route", cluster_ip |-> ip, port |-> listener.port,
                         tls |-> listener.protocol = "HTTPS"]>>>>

route_checks(http_routes, gateways, services) ==
  LET usable == SelectSeq(http_routes, LAMBDA r : r.accepted /\ r.resolved_refs)
  IN Filled(FlattenSeq([i \in DOMAIN usable |->
       FlattenSeq([j \in DOMAIN usable[i].parents |->
         FlattenSeq([h \in DOMAIN usable[i].hostnames |->
           Offer(gateways, services, usable[i].parents[j], usable[i].hostnames[h])])])]))

\* One per port; a port is named by its Service.
service_checks(services) ==
  Filled(FlattenSeq([i \in DOMAIN services |->
    [p \in DOMAIN services[i].ports |->
       <<<<services[i].key, services[i].ports[p]>>,
         [kind |-> "service", cluster_ip |-> services[i].cluster_ip,
          port |-> services[i].ports[p]]>>]]))
=============================================================================
