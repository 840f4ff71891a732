--------------------------- MODULE DeploymentViews ---------------------------
(***************************************************************************)
(* What the Kubernetes client computes from the objects of a namespace     *)
(* (kubernetes/deployments_kubeclient.go, deployments_access.go and        *)
(* deployments_metrics.go).  Objects are records with the fields the code  *)
(* looks at; malformed answers of the API server, which every reader turns *)
(* into an error, are left out.                                            *)
(***************************************************************************)
EXTENDS Integers, Sequences, SequencesExt, FiniteSets, FiniteSetsExt

CONSTANTS
    None,
    BucketDuration      \* bucketDuration, in units of time

ASSUME BucketAssumption == BucketDuration \in Nat \ {0}

-------------------------------------------------------------------------------
(* The current deployment *)

\* isReplicationControllerVisible
IsVisible(rc) == rc.replicas > 0 \/ rc.phase \in {"New", "Pending", "Running"}

\* getReplicationControllers: those the deployment config controls.
ReplicationControllers(rcs, uid) == {rc \in rcs : rc.owner = uid}

\* Mutant of Active: the first one that is found is kept.
ActiveFirst(rcs) == {rc \in rcs : rc.phase = "Complete"
                                  /\ \A o \in rcs : o.phase = "Complete" => o.created >= rc.created}

\* The completed roll-out that was created last.
Active(rcs) == {rc \in rcs : rc.phase = "Complete"
                             /\ \A o \in rcs : o.phase = "Complete" => o.created <= rc.created}

\* The candidates for the current controller.
Candidates(rcs) == {rc \in rcs : IsVisible(rc)} \cup Active(rcs)

\* One turn of the loop of getMostRecentByDeploymentVersion.
Newer(result, rc) ==
    CASE result = None -> rc
      [] result # None /\ result.version = None ->
            IF rc.version # None \/ rc.rank > result.rank THEN rc ELSE result
      [] OTHER -> IF rc.version # None /\ rc.version > result.version THEN rc ELSE result

\* getCurrentDeployment; the candidates are in a Go map and come in any order.
CurrentDeployments(rcs, uid) ==
    {FoldLeft(Newer, None, order) : order \in SetToSeqs(Candidates(ReplicationControllers(rcs, uid)))}

\* getNameFromEnvServices: one key of the annotation's map, whichever comes first.
NamesFromEnvServices(annotation) == annotation

\* getDeploymentConfigNameForApp: the latest build that has an annotation for the namespace.
DeploymentConfigNames(builds, app) ==
    LET annotated == {i \in DOMAIN builds : builds[i] # {}}
    IN  IF annotated = {} THEN {app} ELSE NamesFromEnvServices(builds[Max(annotated)])

-------------------------------------------------------------------------------
(* Pods.  A container's status is "ready", "starting", "stuck" (running for    *)
(* more than containerTimeout and not ready), "exit0", "exit1", "crashloop",   *)
(* "creating" or "waiting"; a container may not have a status yet.             *)

\* getPods
PodsOf(pods, rc) == {p \in pods : p.owner = rc}

\* isPodWarning: none, a warning or a severe one; containers are looked at in order.
PodWarning(p) ==
    LET failing == {i \in DOMAIN p.statuses : p.statuses[i] \in {"exit1", "crashloop", "stuck"}}
    IN  CASE p.phase = "Unknown" -> "warning"
          [] p.phase = "Pending" /\ p.old -> "warning"
          [] p.phase = "Running" /\ failing # {} ->
                LET first == p.statuses[Min(failing)]
                IN  IF first = "crashloop" \/ (first = "exit1" /\ p.deleting) THEN "severe" ELSE "warning"
          [] OTHER -> "none"

\* isPullingImage
IsPullingImage(p) == p.phase = "Pending" /\ \E i \in DOMAIN p.statuses : p.statuses[i] = "creating"

ReadyOnes(p) == Cardinality({i \in DOMAIN p.statuses : p.statuses[i] = "ready"})

\* isPodReady
IsPodReady(p) == ReadyOnes(p) = p.containers

\* The key getPodStatus counts a pod under; failed pods are not counted.
StatusKey(p) ==
    CASE p.phase = "Failed" -> None
      [] p.phase # "Failed" /\ p.deleting -> "Terminating"
      [] p.phase # "Failed" /\ ~p.deleting /\ PodWarning(p) # "none" ->
            IF PodWarning(p) = "severe" THEN "Error" ELSE "Warning"
      [] OTHER -> IF IsPullingImage(p) THEN "Pulling"
                  ELSE IF p.phase = "Running" /\ ~IsPodReady(p) THEN "Not Ready"
                  ELSE p.phase

\* getPodStatus: counts per key, and the total.
PodStatus(pods) ==
    LET keys == {StatusKey(p) : p \in pods} \ {None}
    IN  [count |-> [k \in keys |-> Cardinality({p \in pods : StatusKey(p) = k})],
         total |-> Cardinality({p \in pods : StatusKey(p) # None})]

-------------------------------------------------------------------------------
(* Routes *)

\* getMatchingServices: a service without a selector matches nothing.
MatchingServices(services, labels) ==
    {s \in DOMAIN services : services[s] # {} /\ services[s] \subseteq labels}

\* findOldestAdmittedIngress
OldestAdmittedIngress(r) ==
    LET admitted == {i \in r.ingress : i.admitted}
    IN  IF admitted = {} THEN None
        ELSE CHOOSE i \in admitted : \A o \in admitted : i.time <= o.time

\* getRoutesByService: the routes that lead to one of the services.
RoutesByService(routes, services) == {r \in routes : ({r.to} \cup r.alternates) \cap services # {}}

HasAdmitted(r) == OldestAdmittedIngress(r) # None

\* The host a route is reached at.
RouteHost(r) == IF HasAdmitted(r) THEN OldestAdmittedIngress(r).host ELSE r.host

\* scoreRoute
ScoreRoute(r) ==
    (IF HasAdmitted(r) THEN 11 ELSE 0) + (IF r.alternates # {} THEN 5 ELSE 0)
    + (IF r.custom THEN 3 ELSE 0) + (IF r.tls THEN 1 ELSE 0)

\* getBestRoute: the first of the best, in the order of a Go map.
BestRoutes(routes, services) ==
    LET all == RoutesByService(routes, services)
    IN  {r \in all : \A o \in all : ScoreRoute(o) <= ScoreRoute(r)}

-------------------------------------------------------------------------------
(* Quotas.  A container states some of its limits, by the keys of its spec *)

Limit(container, key) == IF key \in DOMAIN container THEN container[key] ELSE 0
Total(containers, key) == FoldLeft(LAMBDA sum, c : sum + Limit(c, key), 0, containers)
Missing(containers, key) == Len(SelectSeq(containers, LAMBDA c : key \notin DOMAIN c))

\* getPodsQuota: what is not stated counts as zero.
PodsQuota(pods, resource) == FoldSet(LAMBDA p, sum : sum + Total(p.limits, resource), 0, pods)

\* The keys GetDeploymentPodQuota looks up in the containers of a deployment config.
PodQuotaKeys == [cpu |-> "cpucores", memory |-> "memory"]

\* GetDeploymentPodQuota: the default of the limit range for each container without a
\* limit; the request fails if a default is needed and one of the two is missing.
DeploymentPodQuota(containers, default, resource) ==
    IF /\ \E r \in DOMAIN PodQuotaKeys : Missing(containers, PodQuotaKeys[r]) > 0
       /\ DOMAIN default # {"cpu", "memory"}
    THEN None
    ELSE LET missing == Missing(containers, PodQuotaKeys[resource])
         IN  Total(containers, PodQuotaKeys[resource]) + (IF missing > 0 THEN missing * default[resource] ELSE 0)

\* calculateEnvMap: the deployments of one environment, over the applications of a space.
SpaceUsage(deployments, resource) == FoldLeft(LAMBDA sum, d : sum + PodsQuota(d, resource), 0, deployments)

\* getResourceQuota, getEnvStatQuota: both must be there for a resource to be reported.
EnvironmentQuota(hard, used) == IF None \in {hard, used} THEN None ELSE [quota |-> hard, used |-> used]

\* GetSpaceAndOtherEnvironmentUsage
OtherUsage(quota, deployments, resource) == quota.used - SpaceUsage(deployments, resource)

-------------------------------------------------------------------------------
(* The tenant.  A namespace has a name, a type and a cluster, whose URL may or  *)
(* may not begin with "api", and perhaps a URL of its own for the metrics.      *)

\* newTenantURLProviderFromTenant: the last namespace of type user decides where the
\* API is, unless there is a proxy.
TenantURLProvider(namespaces, proxy) ==
    LET user == {i \in DOMAIN namespaces : namespaces[i].type = "user"}
        default == namespaces[IF user = {} THEN 1 ELSE Max(user)].cluster
        named(n) == namespaces[Max({i \in DOMAIN namespaces : namespaces[i].name = n})]
    IN  IF namespaces = <<>> THEN None
        ELSE [api |-> IF proxy = None THEN default ELSE proxy,
              namespaces |-> [n \in {namespaces[i].name : i \in DOMAIN namespaces} |-> named(n)]]

\* GetEnvironmentMapping: of the namespaces of one type, the last in the order of a Go map.
EnvironmentMappings(p) ==
    LET types == {p.namespaces[n].type : n \in DOMAIN p.namespaces} \ {None}
    IN  {f \in [types -> DOMAIN p.namespaces] : \A t \in types : p.namespaces[f[t]].type = t}

\* CanDeploy
CanDeploy(type) == type \notin {"user", "che", "jenkins"}

\* modifyURL; GetConsoleURL and GetLoggingURL derive theirs in the same way.
ModifyURL(cluster, prefix) == IF cluster.api THEN <<prefix, cluster.name>> ELSE None

\* GetMetricsURL
MetricsURL(p, ns) ==
    IF p.namespaces[ns].metrics # None THEN p.namespaces[ns].metrics
    ELSE ModifyURL(p.namespaces[ns].cluster, "metrics")

\* GetMetricsToken: TokenForService is asked for the cluster of the namespace.
MetricsToken(p, ns) == <<"token", p.namespaces[ns].cluster.name>>

\* GetMetricsClient, for an environment one can deploy to.
MetricsClient(p, mapping, env) ==
    IF env \notin DOMAIN mapping \/ ~CanDeploy(env) \/ MetricsURL(p, mapping[env]) = None THEN None
    ELSE [url |-> MetricsURL(p, mapping[env]), token |-> MetricsToken(p, mapping[env])]

-------------------------------------------------------------------------------
(* Metrics *)

\* readBuckets: Hawkular answers with the buckets that begin in the range; without
\* pods it is not asked.
ReadBuckets(pods, start, end) ==
    IF pods = 0 THEN <<>>
    ELSE [k \in 1..((end - start + BucketDuration - 1) \div BucketDuration) |-> start + (k - 1) * BucketDuration]

\* getBucketsInRange: a last bucket that is not over is dropped, then the newest are kept.
BucketsInRange(pods, start, end, limit) ==
    LET all == ReadBuckets(pods, start, end)
        n == Len(all)
        kept == IF n > 0 /\ all[n] + BucketDuration > end THEN SubSeq(all, 1, n - 1) ELSE all
    IN  IF limit >= 0 /\ Len(kept) > limit THEN SubSeq(kept, Len(kept) - limit + 1, Len(kept)) ELSE kept

\* getTimestampEndpoints, of the series that are not empty.
TimestampEndpoints(series) ==
    LET some == {s \in ToSet(series) : s # <<>>}
    IN  IF some = {} THEN None
        ELSE <<Min({Head(s) : s \in some}), Max({Last(s) : s \in some})>>

-------------------------------------------------------------------------------
(* Access.  A rule of the review grants verbs on resources of API groups; it   *)
(* may be limited to named objects or to URLs.                                 *)

\* processRule: the verbs of a later rule replace those of an earlier one.
ProcessRule(rules, rule) ==
    IF rule.names \/ rule.urls THEN rules
    ELSE LET keys == (IF rule.groups = {} THEN {""} ELSE rule.groups) \X rule.resources
         IN  [k \in DOMAIN rules \cup keys |-> IF k \in keys THEN rule.verbs ELSE rules[k]]

\* lookupAllRules
LookupAllRules(review) == FoldLeft(ProcessRule, <<>>, review)

\* containsVerb
ContainsVerb(rules, key, verb) == key \in DOMAIN rules /\ verb \in rules[key]

\* isAuthorized; all requests are about the group "".
IsAuthorized(rules, requests) ==
    \A r \in requests : \E key \in {"", "*"} \X {r[1], "*"} : ContainsVerb(rules, key, r[2])

\* getDeploymentRules
GetDeploymentRules ==
    {<<"deploymentconfigs", "get">>, <<"replicationcontrollers", "list">>, <<"pods", "list">>,
     <<"services", "list">>, <<"routes", "list">>}

\* scaleDeploymentRules
ScaleDeploymentRules ==
    {<<"deploymentconfigs", "get">>, <<"deploymentconfigs/scale", "get">>, <<"deploymentconfigs/scale", "update">>}

\* getBuildsRules, checked in the namespace of type user.
GetBuildsRules == {<<"builds", "list">>}

\* checkAuthorizedWithBuilds
CheckAuthorizedWithBuilds(user, env, requests) ==
    IsAuthorized(LookupAllRules(user), GetBuildsRules) /\ IsAuthorized(LookupAllRules(env), requests)
===============================================================================
