--------------------------- MODULE MC_Collectors ----------------------------
EXTENDS Collectors

\* Contents of each kind, in the order of the keys.
Kustomization(attempted, applied, history) ==
  [key |-> <<"flux", "apps">>, ready |-> IF applied = attempted THEN "True" ELSE "False",
   history |-> history, flipped |-> 1, interval |-> 5,
   attempted |-> attempted, applied |-> applied]
Repository(n, scan) == [key |-> <<"flux", n>>, scan |-> scan]
Policy(repo) == [key |-> <<"flux", "p">>, ready |-> "True", repo |-> repo, latest |-> None]

Listener(hostname, port, protocol) ==
  [hostname |-> hostname, port |-> port, protocol |-> protocol,
   programmed |-> "True", attached |-> 1]
Gateway(ns, addresses, listeners) ==
  [key |-> <<ns, "gw">>, programmed |-> "True", addresses |-> addresses, listeners |-> listeners]
Parent(ns) == [namespace |-> ns, name |-> "gw"]
Verdict(accepted) == [accepted |-> accepted, resolved |-> "True"]
Route(n, hostnames, parents, status) ==
  [key |-> <<"apps", n>>, hostnames |-> hostnames, parents |-> parents, status |-> status]
Service(n, type, ingress, ports) ==
  [key |-> <<"apps", n>>, type |-> type, cluster_ip |-> n, ingress |-> ingress, ports |-> ports]

SharedListeners == <<Listener(None, 80, "HTTP"), Listener("h1", 443, "HTTPS")>>

MCMenu ==
  [kustomizations |-> {<<>>, <<Kustomization(2, 1, <<7>>)>>, <<Kustomization(2, 2, <<9, 7>>)>>},
   gitrepositories |-> {<<>>, <<[key |-> <<"flux", "g">>, ready |-> "True", revision |-> 1]>>},
   imagerepositories |-> {<<>>, <<Repository("r", 1)>>, <<Repository("q", 3), Repository("r", 2)>>},
   imagepolicies |-> {<<>>, <<Policy("r")>>, <<Policy("q")>>},
   imageupdateautomations |->
     {<<>>, <<[key |-> <<"flux", "a">>, ready |-> "False", last_push |-> 1]>>},
   gateways |-> {<<>>,
     <<Gateway("apps", <<"ip1">>, SharedListeners), Gateway("infra", <<"ip2">>, SharedListeners)>>,
     <<Gateway("apps", <<"ip2">>, <<Listener("h2", 81, "HTTP"), Listener(None, 82, "TCP")>>)>>},
   httproutes |-> {<<>>,
     <<Route("a", <<"h1", "h2">>, <<Parent(None)>>, <<Verdict("True")>>),
       Route("b", <<"h2">>, <<Parent("infra")>>, <<Verdict("True"), Verdict("False")>>)>>,
     <<Route("a", <<"h1">>, <<Parent("infra"), Parent(None)>>, <<Verdict("True")>>),
       Route("b", <<"h2">>, <<Parent("apps")>>, <<>>)>>},
   ratelimitpolicies |-> {<<>>,
     <<[key |-> <<"apps", "l">>, targets |-> <<"a">>, ancestors |-> <<"True", "False">>]>>},
   services |-> {<<>>,
     <<Service("s1", "LoadBalancer", <<"ip1">>, <<80, 443>>),
       Service("s2", "LoadBalancer", <<None, "ip2">>, <<80>>)>>,
     <<Service("s1", "ClusterIP", <<"ip1">>, <<80>>),
       Service("s2", "LoadBalancer", <<"ip1", "ip2">>, <<81>>)>>}]

\* A new cluster, and one of the fullest.
MCStarts ==
  {[k \in DOMAIN MCMenu |-> <<>>],
   [k \in DOMAIN MCMenu |-> CHOOSE c \in MCMenu[k] : \A d \in MCMenu[k] : Len(d) <= Len(c)]}

\* Of a disk of 6: claims with and without a quota, of which the one of 4 declares
\* two thirds of the disk; one that is not bound, and one that cannot be mapped.
MCVolume(declared, fill, quota) ==
  [declared |-> declared, fill |-> fill, quota |-> quota, legible |-> TRUE]
MCVolumes ==
  {MCVolume(2, 1, TRUE), MCVolume(4, 2, TRUE), MCVolume(2, 1, FALSE), MCVolume(4, 1, FALSE),
   MCVolume(None, 1, TRUE), [MCVolume(2, 1, TRUE) EXCEPT !.legible = FALSE]}

MCMemories == {[total |-> 8, available |-> 2], [total |-> 8, available |-> 0],
               [total |-> 0, available |-> 0]}
=============================================================================
