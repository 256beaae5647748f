----------------------------- MODULE CrdPoller ------------------------------
(***************************************************************************)
(* The polling loops of backend/app/collectors/flux.py and gateway.py: one *)
(* request per kind of custom resource and round, each answered or failing *)
(* on its own, and the tables of ClusterState they replace.  Both loops    *)
(* are the same; a behaviour is of one of them, `poller`, with the kinds   *)
(* it asks for.                                                            *)
(*                                                                         *)
(* The API server answers a request with the content of one moment; the    *)
(* content changes before, after and between.  A kind is served, or is     *)
(* down (no CRD, no RBAC, an outage); "client" stands for the API client   *)
(* the loop opens first.  The pauses between rounds only take time.        *)
(*                                                                         *)
(* Of autochecks.py the checks derived from the tables are here.  The      *)
(* Services they also need come from the watch of k8s_watch.py, which lags *)
(* behind and is told nothing of deletions between two watches; WatchLoop  *)
(* has its steps one by one, here it catches up in one.                    *)
(***************************************************************************)
EXTENDS Discovery

CONSTANTS
  Failed,      \* the answer to a request that fails
  Menu,        \* bound: for each kind, the contents the cluster may hold
  Starts,      \* bound: the contents it may hold at the start
  MaxChanges   \* bound: changes of the cluster, outages included

Kinds == [flux |-> <<"kustomizations", "gitrepositories", "imagerepositories",
                     "imagepolicies", "imageupdateautomations">>,
          gateway |-> <<"gateways", "httproutes", "ratelimitpolicies">>]
Kind == ToSet(Kinds.flux) \union ToSet(Kinds.gateway)

\* Of the constants; Collectors assumes it.
CrdAssumption ==
  /\ DOMAIN Menu = Kind \union {"services"}
  /\ \A c \in Starts : \A k \in DOMAIN Menu : c[k] \in Menu[k]
  /\ MaxChanges \in Nat

VARIABLES
  poller,     \* "flux" or "gateway"
  content,    \* what the API server holds of each kind
  down,       \* the kinds that are not served
  changes,
  step,       \* 0 without a client, else the index of the kind it is at
  reply,      \* the answer under way, Failed, or None
  scans,      \* scan_by_repo, or None when the round has none
  tables,     \* state.flux_kustomizations, ..., state.http_routes, state.services
  warned,
  listed,     \* the Services at the version the watch has come to
  \* History variables, read by no guard:
  ghosts,     \* the Services deleted between two watches and not made again
  told,       \* log lines of each kind since its last answer
  recent      \* the ImageRepositories held since this round asked for them

clusterVars == <<content, down, changes>>
watchVars == <<listed, ghosts>>
loopVars == <<step, reply, scans, warned, told>>
crdVars == <<poller, clusterVars, loopVars, watchVars, tables, recent>>

Current == Kinds[poller][step]
Watched == ToSet(Kinds[poller])

-----------------------------------------------------------------------------
(* The rows of flux.py                                                     *)

\* history[0].lastReconciled, or the last flip of the Ready condition.
Reconciled(o) == IF o.history # <<>> THEN Head(o.history) ELSE o.flipped

_map_kustomization(o) ==
  [key |-> o.key,
   ready |-> o.ready = "True",
   next_reconcile_t |-> IF None \in {Reconciled(o), o.interval} THEN None
                        ELSE Reconciled(o) + o.interval,
   apply_pending |-> None \notin {o.attempted, o.applied} /\ o.attempted # o.applied]

_map_git_repository(o) ==
  [key |-> o.key, ready |-> o.ready = "True", revision |-> o.revision]

\* repos: the ImageRepositories of this round, None if they could not be listed.
ScanOf(repos, namespace, name) ==
  LET repo == IF repos = None THEN None ELSE Row(repos, <<namespace, name>>)
  IN IF repo = None THEN None ELSE repo.scan

_map_image_policy(o, repos) ==
  [key |-> o.key,
   ready |-> o.ready = "True",
   image |-> IF o.latest # None THEN o.latest ELSE o.repo,
   scan |-> ScanOf(repos, o.key[1], o.repo)]

_map_image_update_automation(o) ==
  [key |-> o.key, ready |-> o.ready = "True", last_push |-> o.last_push]

Mapped(kind, items, repos) ==
  [i \in DOMAIN items |->
     CASE kind = "kustomizations" -> _map_kustomization(items[i])
       [] kind = "gitrepositories" -> _map_git_repository(items[i])
       [] kind = "imagepolicies" -> _map_image_policy(items[i], repos)
       [] kind = "imageupdateautomations" -> _map_image_update_automation(items[i])
       [] kind = "gateways" -> _map_gateway(items[i])
       [] kind = "httproutes" -> _map_http_route(items[i])
       [] kind = "ratelimitpolicies" -> _map_rate_limit_policy(items[i])]

Keys(items) == {items[i].key : i \in DOMAIN items}

\* state.upsert_service: a dict keeps the place of a key it has.
upsert_service(rows, row) ==
  IF row.key \in Keys(rows)
  THEN [i \in DOMAIN rows |-> IF rows[i].key = row.key THEN row ELSE rows[i]]
  ELSE Append(rows, row)

\* Each of these Services is applied to the table; of the ones that are gone the
\* table drops those it is told of.  One that balances no load is not kept.
Applied(rows, services, removed) ==
  LET balanced == SelectSeq(services, LAMBDA s : s.type = "LoadBalancer")
      dropped == removed \union (Keys(services) \ Keys(balanced))
  IN FoldLeft(upsert_service, SelectSeq(rows, LAMBDA r : r.key \notin dropped),
              [i \in DOMAIN balanced |-> map_service(balanced[i])])

-----------------------------------------------------------------------------
CrdInit ==
  /\ poller \in {"flux", "gateway"}
  /\ content \in Starts
  /\ down \in SUBSET {"client"}
  /\ changes = 0
  /\ step = 0
  /\ reply = None
  /\ scans = None
  /\ tables = [k \in (Kind \ {"imagerepositories"}) \union {"services"} |-> <<>>]
  /\ warned = {}
  /\ listed = <<>>
  /\ ghosts = {}
  /\ told = [k \in Kind \union {"client"} |-> 0]
  /\ recent = {}

\* Something is created, edited or deleted; a kind fails or is served again.
Change ==
  /\ changes < MaxChanges
  /\ changes' = changes + 1
  /\ \/ \E k \in Watched \union (IF poller = "gateway" THEN {"services"} ELSE {}) :
          /\ \E c \in Menu[k] \ {content[k]} : content' = [content EXCEPT ![k] = c]
          /\ recent' = IF k = "imagerepositories" THEN recent \union {content'[k]} ELSE recent
          /\ UNCHANGED down
     \/ \E k \in Watched \union {"client"} :
          /\ down' = IF k \in down THEN down \ {k} ELSE down \union {k}
          /\ UNCHANGED <<content, recent>>
  /\ UNCHANGED <<poller, loopVars, watchVars, tables>>

\* Mutant: the watch's DELETED events are not applied.
SeeServicesUpserted ==
  /\ poller = "gateway"
  /\ listed # content.services
  /\ tables' = [tables EXCEPT !.services = Applied(@, content.services, {})]
  /\ listed' = content.services
  /\ \E gap \in BOOLEAN :
       ghosts' = (IF gap THEN ghosts \union Keys(listed) ELSE ghosts) \ Keys(content.services)
  /\ UNCHANGED <<poller, clusterVars, loopVars, recent>>

\* The watch of Services catches up: by its events, or after a gap by a new list,
\* which does not tell of the Services deleted meanwhile.
SeeServices ==
  /\ poller = "gateway"
  /\ listed # content.services
  /\ \E gap \in BOOLEAN :
       LET gone == Keys(listed) \ Keys(content.services)
       IN /\ tables' = [tables EXCEPT !.services =
                          Applied(@, content.services, IF gap THEN {} ELSE gone)]
          /\ ghosts' = (IF gap THEN ghosts \union gone ELSE ghosts) \ Keys(content.services)
  /\ listed' = content.services
  /\ UNCHANGED <<poller, clusterVars, loopVars, recent>>

\* warn_once: quiet until the next success.
WarnOnce(kind) ==
  /\ warned' = warned \union {kind}
  /\ told' = IF kind \in warned THEN told ELSE [told EXCEPT ![kind] = @ + 1]

\* Mutant: once warned, always quiet.
HealForgotten(kind) == UNCHANGED warned /\ told' = [told EXCEPT ![kind] = 0]

\* warned[kind] = False
Heal(kind) ==
  /\ warned' = warned \ {kind}
  /\ told' = [told EXCEPT ![kind] = 0]

\* `async with client.ApiClient()`, or the outer except and its pause.
Open ==
  /\ step = 0
  /\ IF "client" \in down
     THEN WarnOnce("client") /\ UNCHANGED step
     ELSE step' = 1 /\ UNCHANGED <<warned, told>>
  /\ UNCHANGED <<poller, clusterVars, watchVars, reply, scans, tables, recent>>

\* The server answers the request of the current kind, or fails.
Ask ==
  /\ step > 0
  /\ reply = None
  /\ reply' = IF Current \in down THEN Failed ELSE content[Current]
  /\ recent' = IF Current = "imagerepositories" THEN {content[Current]} ELSE recent
  /\ UNCHANGED <<poller, clusterVars, watchVars, step, scans, tables, warned, told>>

\* On to the next kind, or to the next round.
Proceed ==
  /\ reply' = None
  /\ step' = IF step < Len(Kinds[poller]) THEN step + 1 ELSE 1

\* Mutant: one failure ends the round.
FailureAbortsRound ==
  /\ step > 0
  /\ reply = Failed
  /\ WarnOnce(Current)
  /\ scans' = IF Current = "imagerepositories" THEN None ELSE scans
  /\ reply' = None
  /\ step' = 1
  /\ UNCHANGED <<poller, clusterVars, watchVars, tables, recent>>

\* Mutant: without an answer the scans of an earlier round are joined.
FailureKeepsScans ==
  /\ step > 0
  /\ reply = Failed
  /\ WarnOnce(Current)
  /\ Proceed
  /\ UNCHANGED <<poller, clusterVars, watchVars, scans, tables, recent>>

\* The except branch of one kind; scan_by_repo was emptied before the request.
Failure ==
  /\ step > 0
  /\ reply = Failed
  /\ WarnOnce(Current)
  /\ scans' = IF Current = "imagerepositories" THEN None ELSE scans
  /\ Proceed
  /\ UNCHANGED <<poller, clusterVars, watchVars, tables, recent>>

\* The answer arrives: it is mapped and replaces the table without an await, or
\* becomes scan_by_repo.
Answer ==
  /\ step > 0
  /\ reply \notin {None, Failed}
  /\ IF Current = "imagerepositories"
     THEN scans' = reply /\ UNCHANGED tables
     ELSE /\ tables' = [tables EXCEPT ![Current] = Mapped(Current, reply, scans)]
          /\ UNCHANGED scans
  /\ Heal(Current)
  /\ Proceed
  /\ UNCHANGED <<poller, clusterVars, watchVars, recent>>

CrdPoll == Open \/ Ask \/ Failure \/ Answer
CrdNext == Change \/ SeeServices \/ CrdPoll
-----------------------------------------------------------------------------
\* An outage is logged once, when it is met, and a later outage of the same kind
\* again: "Each kind logs its unavailability once, then retries quietly"
\* (flux.py:12-14).
LoggedOncePerOutage ==
  \A k \in Kind \union {"client"} : told[k] = IF k \in warned THEN 1 ELSE 0

\* A policy is shown with a scan its own repository had while this round was under
\* way, or with none: never with the scan of an earlier round, also when the
\* repositories cannot be listed (flux.py:225-238).  The policies are those of the
\* answer that the step maps.
ScansOfOneRound ==
  LET shown == tables'["imagepolicies"]
  IN shown # tables["imagepolicies"] =>
       \A i \in DOMAIN shown : shown[i].scan # None =>
         \E repos \in recent : \E r \in ToSet(repos) :
           r.key = <<shown[i].key[1], reply[i].repo>> /\ r.scan = shown[i].scan

\* Whatever else stays down, each kind that is served in the end is shown as it
\* is in the end, deletions included, with scans if repositories are served
\* (flux.py:9-12, gateway.py:12-15).
EachKindFollows ==
  <>[]( \A k \in (DOMAIN tables \intersect Watched) \ down :
          "client" \notin down =>
            tables[k] = Mapped(k, content[k],
                          IF "imagerepositories" \in down THEN None
                          ELSE content["imagerepositories"]) )

-----------------------------------------------------------------------------
(* What the checks should be, told from the objects of the API             *)

\* The gateways that an accepted route hands a hostname to.
Serving(hostname) ==
  {g \in ToSet(content.gateways) :
     \E r \in ToSet(content.httproutes) :
       /\ hostname \in ToSet(r.hostnames)
       /\ r.status # <<>>
       /\ \A v \in ToSet(r.status) : v.accepted = "True" /\ v.resolved = "True"
       /\ \E p \in ToSet(r.parents) :
            p.name = g.key[2] /\ g.key[1] = IF p.namespace = None THEN r.key[1] ELSE p.namespace}

Fronts(s, g) ==
  s.type = "LoadBalancer" /\ (ToSet(s.ingress) \ {None}) \intersect ToSet(g.addresses) # {}

\* The HTTP listeners named for the hostname, or if there is none those for all.
ListensFor(l, g, hostname) ==
  LET web == {x \in ToSet(g.listeners) : x.protocol \in {"HTTP", "HTTPS"}}
  IN /\ l \in web
     /\ \/ l.hostname = hostname
        \/ l.hostname = None /\ \A x \in web : x.hostname # hostname

\* Where a hostname is to be probed: at a Service that carries an address of a
\* gateway serving it, at the port of a listener for it.
Targets(hostname) ==
  UNION {{[kind |-> "route", cluster_ip |-> s.cluster_ip, port |-> l.port,
           tls |-> l.protocol = "HTTPS"] :
            s \in {x \in ToSet(content.services) : Fronts(x, g)},
            l \in {x \in ToSet(g.listeners) : ListensFor(x, g, hostname)}} :
         g \in Serving(hostname)}

Hostnames == UNION {ToSet(r.hostnames) : r \in ToSet(content.httproutes)}
CheckedRoutes == {h \in Hostnames : Targets(h) # {}}

\* The rows of Services that no event will ever remove.
GhostRows == {r \in ToSet(tables.services) : r.key \in ghosts}

\* "new routes/Services get checked within one poll cycle, removed ones stop"
\* (autochecks.py:31-34): when the cluster falls silent with the two kinds
\* served, the checks derived from three tables, refreshed at different times,
\* are those of the cluster's own objects.  Only a Service deleted between two
\* watches keeps its checks, and may be the target of a route's (k8s_watch.py:
\* 356-360 upserts the new list and removes nothing).
ChecksFollowCluster ==
  <>[]( poller = "gateway" /\ down \intersect {"client", "gateways", "httproutes"} = {} =>
        /\ LET checks == route_checks(tables.httproutes, tables.gateways, tables.services)
           IN /\ CheckedRoutes \subseteq DOMAIN checks
              /\ \A h \in DOMAIN checks :
                   \/ checks[h] \in Targets(h)
                   \/ \E r \in GhostRows : checks[h].cluster_ip = r.cluster_ip
        /\ LET checks == service_checks(tables.services)
           IN DOMAIN checks = UNION {{<<s.key, p>> : p \in ToSet(s.ports)} :
                s \in {x \in ToSet(content.services) : x.type = "LoadBalancer"} \union GhostRows} )
=============================================================================
