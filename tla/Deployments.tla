----------------------------- MODULE Deployments -----------------------------
(***************************************************************************)
(* Requests about a deployment and the cluster that changes under them     *)
(* (controller/deployments.go, kubernetes/deployments_kubeclient.go).  A   *)
(* request is a chain of calls of the API server with nothing to hold the  *)
(* objects still in between: roll-outs, scaling and deletions go on while  *)
(* it runs.                                                                *)
(*                                                                         *)
(* What is computed from a single answer of the server is in               *)
(* DeploymentViews and is asked about once, from the initial state.        *)
(* Deleting a deployment is modelled in Spaces.                            *)
(***************************************************************************)
EXTENDS DeploymentViews

CONSTANTS
    App, Other,         \* names of deployment configs; App is the application's name too
    Clients,
    Questions,          \* what the views are asked about
    Annotations,        \* the sets of names the annotation of a build may carry
    MaxRollOuts, MaxReplicas, MaxBuilds, MaxRequests

ASSUME DeploymentsAssumption ==
    /\ App # Other
    /\ Annotations \subseteq SUBSET {App, Other}
    /\ {MaxRollOuts, MaxReplicas} \subseteq Nat \ {0} /\ {MaxBuilds, MaxRequests} \subseteq Nat
    /\ None \notin {App, Other} \cup Nat
    \* nothing is no deployment config and no replication controller
    /\ None \notin [uid : Nat, replicas : Nat] \cup [created : Nat, owner : Nat]
    /\ None \notin [rank : Nat, created : Nat, owner : Nat, version : Nat,
                    phase : {"New", "Pending", "Running", "Complete", "Failed"}, replicas : Nat]

VARIABLES
    dcs,            \* deployment configs by name: uid and replicas
    builds,         \* annotations of the builds, oldest first
    rcs,            \* replication controllers
    req,            \* req[c]: where a request is and what it has read
    shown,          \* the controller that was shown last
    scaled,         \* outcome of the last successful scaling
    asked,          \* the question the views were asked
    requests

deploymentVars == <<dcs, builds, rcs, req, shown, scaled, asked, requests>>
cluster == <<dcs, builds, rcs>>

Names == {App, Other}
Idle == [pc |-> "idle", op |-> None, name |-> None, uid |-> None, current |-> None,
         floor |-> None, want |-> 0, scale |-> None, fresh |-> FALSE, calls |-> {}]
Existing == {n \in Names : dcs[n] # None}
InProgress(uid) == {rc \in rcs : rc.owner = uid /\ rc.phase \in {"New", "Pending", "Running"}}

\* A deployment that was rolled out once and may be scaled to zero.
DeploymentsInit ==
    /\ \E replicas \in 0..1 : dcs = [n \in Names |-> IF n = App THEN [uid |-> 1, replicas |-> replicas] ELSE None]
    /\ builds = <<>>
    /\ rcs = {[rank |-> 1, created |-> 1, owner |-> 1, version |-> 1, phase |-> "Complete", replicas |-> dcs[App].replicas]}
    /\ req = [c \in Clients |-> Idle]
    /\ shown = None /\ scaled = None /\ asked = None
    /\ requests = 0

-------------------------------------------------------------------------------
(* External: builds, roll-outs and clean-up in the cluster *)

\* A deployment config gets a new resource version: what was read of it is out of date.
Outdated(n) == [c \in Clients |-> IF req[c].name = n THEN [req[c] EXCEPT !.fresh = FALSE] ELSE req[c]]

Build ==
    /\ Len(builds) < MaxBuilds
    /\ \E names \in Annotations : builds' = Append(builds, names)
    /\ UNCHANGED <<dcs, rcs, req>>

CreateConfig(n) ==
    /\ dcs[n] = None
    /\ Cardinality(rcs) < MaxRollOuts
    /\ dcs' = [dcs EXCEPT ![n] = [uid |-> IF n = App THEN 3 ELSE 2, replicas |-> 1]]
    /\ UNCHANGED <<builds, rcs, req>>

\* A deployment config is deleted with what it controls; its name may be used again.
DeleteConfig(n) ==
    /\ dcs[n] # None /\ dcs[n].uid = 1
    /\ rcs' = {rc \in rcs : rc.owner # dcs[n].uid}
    /\ dcs' = [dcs EXCEPT ![n] = None]
    /\ req' = Outdated(n)
    /\ UNCHANGED builds

RollOut(n) ==
    LET mine == {rc \in rcs : rc.owner = dcs[n].uid}
        last == IF rcs = {} THEN 0 ELSE Max({rc.created : rc \in rcs})
    IN  /\ dcs[n] # None
        /\ last < MaxRollOuts
        /\ InProgress(dcs[n].uid) = {}
        /\ rcs' = rcs \cup {[rank |-> last + 1, created |-> last + 1, owner |-> dcs[n].uid,
                             version |-> Cardinality(mine) + 1, phase |-> "New", replicas |-> 0]}
        /\ req' = Outdated(n)
        /\ UNCHANGED <<dcs, builds>>

\* A roll-out goes on: the pods of the new controller come up next to those of the old
\* one, which are removed when it completes; a failed one is scaled down.
Progress(n, rc) ==
    /\ dcs[n] # None /\ rc \in InProgress(dcs[n].uid)
    /\ LET old == {o \in rcs : o.owner = rc.owner /\ o # rc}
           step(phase, replicas) == [rc EXCEPT !.phase = phase, !.replicas = replicas]
       IN  \/ rc.phase = "New" /\ rcs' = (rcs \ {rc}) \cup {step("Pending", 0)}
           \/ rc.phase = "Pending" /\ rcs' = (rcs \ {rc}) \cup {step("Running", dcs[n].replicas)}
           \/ rc.phase = "Running"
              /\ rcs' = (rcs \ (old \cup {rc})) \cup {[o EXCEPT !.replicas = 0] : o \in old}
                        \cup {step("Complete", dcs[n].replicas)}
           \/ rcs' = (rcs \ {rc}) \cup {step("Failed", 0)}
    /\ req' = Outdated(n)
    /\ UNCHANGED <<dcs, builds>>

\* The active controller follows the number of replicas that was asked for.
Follow(n) ==
    /\ dcs[n] # None /\ InProgress(dcs[n].uid) = {}
    /\ \E rc \in {o \in rcs : o.owner = dcs[n].uid /\ o.phase = "Complete"} :
        /\ \A o \in rcs : o.owner = rc.owner /\ o.phase = "Complete" => o.version <= rc.version
        /\ rc.replicas # dcs[n].replicas
        /\ rcs' = (rcs \ {rc}) \cup {[rc EXCEPT !.replicas = dcs[n].replicas]}
    /\ UNCHANGED <<dcs, builds, req>>

-------------------------------------------------------------------------------
(* Requests *)

Go(c, pc, r, call) == req' = [req EXCEPT ![c] = [r EXCEPT !.pc = pc, !.calls = @ \cup {call}]]
Done(c) == req' = [req EXCEPT ![c] = Idle]

\* ShowSpace or SetDeployment: the space's name and the namespace of the environment.
StartRequest(c, op, want) ==
    /\ req[c].pc = "idle" /\ requests < MaxRequests
    /\ req' = [req EXCEPT ![c] = [Idle EXCEPT !.pc = "builds", !.op = op, !.want = want, !.floor = shown]]
    /\ requests' = requests + 1
    /\ UNCHANGED <<cluster, shown, scaled, asked>>

\* getDeploymentConfigNameForApp
FindName(c) ==
    /\ req[c].pc = "builds"
    /\ \E name \in DeploymentConfigNames(builds, App) :
        Go(c, IF req[c].op = "scale" THEN "getscale" ELSE "config", [req[c] EXCEPT !.name = name], <<"builds", "list">>)
    /\ UNCHANGED <<cluster, shown, scaled, asked, requests>>

\* getAndParseDeploymentConfig: a missing config is no deployment.
GetConfig(c) ==
    /\ req[c].pc = "config"
    /\ IF req[c].name \in Existing
       THEN Go(c, "rcs", [req[c] EXCEPT !.uid = dcs[req[c].name].uid], <<"deploymentconfigs", "get">>)
       ELSE Done(c)
    /\ UNCHANGED <<cluster, shown, scaled, asked, requests>>

\* getCurrentDeployment, from the list of replication controllers on.
ListControllers(c) ==
    /\ req[c].pc = "rcs"
    /\ \E current \in CurrentDeployments(rcs, req[c].uid) :
        IF current = None THEN Done(c)
        ELSE Go(c, "pods", [req[c] EXCEPT !.current = [created |-> current.created, owner |-> current.owner]], <<"replicationcontrollers", "list">>)
    /\ UNCHANGED <<cluster, shown, scaled, asked, requests>>

\* GetDeployment goes on to list pods, services and routes, the views of which are in
\* DeploymentViews; the controller may be gone by now.
ListPodsAndRoutes(c) ==
    /\ req[c].pc = "pods"
    /\ req' = [req EXCEPT ![c].pc = "answer",
                          ![c].calls = @ \cup {<<"pods", "list">>, <<"services", "list">>, <<"routes", "list">>}]
    /\ UNCHANGED <<cluster, shown, scaled, asked, requests>>

GetDeployment(c) ==
    /\ req[c].pc = "answer"
    /\ shown' = req[c].current
    /\ Done(c)
    /\ UNCHANGED <<cluster, scaled, asked, requests>>

\* ScaleDeployment reads the scale; replicas is missing from it when it is zero.
GetScale(c) ==
    /\ req[c].pc = "getscale"
    /\ IF req[c].name \in Existing
       THEN Go(c, "setscale", [req[c] EXCEPT !.scale = dcs[req[c].name].replicas, !.fresh = TRUE], <<"deploymentconfigs/scale", "get">>)
       ELSE Done(c)
    /\ UNCHANGED <<cluster, shown, scaled, asked, requests>>

\* External: the API server refuses an object that was changed since it was read.
Accepts(c) == req[c].name \in Existing /\ req[c].fresh

\* Mutant of SetScale: a new object is sent, which carries no resource version.
SetScaleFresh(c) ==
    LET n == req[c].name
    IN  /\ req[c].pc = "setscale" /\ n \in Existing
        /\ dcs' = [dcs EXCEPT ![n].replicas = req[c].want]
        /\ scaled' = [reported |-> req[c].scale, replaced |-> dcs[n].replicas]
        /\ Done(c)
        /\ UNCHANGED <<builds, rcs, shown, asked, requests>>

\* ScaleDeployment sends the object it has read, with another number of replicas; a
\* conflict is an error.
SetScale(c) ==
    LET n == req[c].name
    IN  /\ req[c].pc = "setscale"
        /\ IF Accepts(c)
           THEN /\ dcs' = [dcs EXCEPT ![n].replicas = req[c].want]
                /\ scaled' = [reported |-> req[c].scale, replaced |-> dcs[n].replicas]
           ELSE UNCHANGED <<dcs, scaled>>
        /\ req' = [Outdated(n) EXCEPT ![c] = Idle]
        /\ UNCHANGED <<builds, rcs, shown, asked, requests>>

\* A request that is answered from one read.
Ask(q) ==
    /\ asked = None
    /\ asked' = q
    /\ UNCHANGED <<cluster, req, shown, scaled, requests>>

DeploymentsNext ==
    \/ /\ asked = None
       /\ \/ Build
          \/ \E n \in Names : CreateConfig(n) \/ DeleteConfig(n) \/ RollOut(n) \/ Follow(n)
                              \/ \E rc \in rcs : Progress(n, rc)
       /\ UNCHANGED <<shown, scaled, asked, requests>>
    \/ /\ asked = None
       /\ \E c \in Clients :
            \/ StartRequest(c, "get", 0)
            \/ \E n \in 0..MaxReplicas : StartRequest(c, "scale", n)
            \/ FindName(c) \/ GetConfig(c) \/ ListControllers(c) \/ ListPodsAndRoutes(c)
            \/ GetDeployment(c) \/ GetScale(c) \/ SetScale(c)
    \/ asked = None /\ DeploymentsInit /\ dcs[App].replicas = 0 /\ \E q \in Questions : Ask(q)

DeploymentsSpec == DeploymentsInit /\ [][DeploymentsNext]_deploymentVars

-------------------------------------------------------------------------------
(* Properties *)

\* Type invariant.
DeploymentsTypeOK ==
    /\ \A n \in Names : dcs[n] = None \/ dcs[n].replicas \in 0..MaxReplicas
    /\ builds \in Seq(Annotations) /\ Len(builds) <= MaxBuilds
    /\ \A rc \in rcs : /\ rc.created \in 1..MaxRollOuts /\ rc.replicas \in 0..MaxReplicas
                       /\ rc.phase \in {"New", "Pending", "Running", "Complete", "Failed"}
    /\ \A rc, o \in rcs : rc.created = o.created => rc = o
    /\ \A c \in Clients : req[c].current = None \/ req[c].current.created \in 1..MaxRollOuts
    /\ \A c \in Clients : req[c].pc \notin {"idle", "builds"} => req[c].name \in Names
    /\ requests \in 0..MaxRequests

\* A later request shows an earlier roll-out only if the one that was shown before
\* has failed or is gone with its deployment config: the choice of the current
\* replication controller (getCurrentDeployment) never slips back on its own, at
\* whatever points the roll-outs go on between the calls of a request.
ShownMovesForward ==
    [][\A c \in Clients :
            /\ req[c].pc = "answer" /\ req'[c].pc = "idle"
            /\ req[c].floor # None /\ req[c].floor.owner = shown'.owner
            /\ shown'.created < req[c].floor.created
            => \A rc \in rcs : rc.owner = shown'.owner /\ rc.created = req[c].floor.created => rc.phase = "Failed"]_deploymentVars

\* ScaleDeployment reports the number of replicas that its request replaced, although
\* it reads and writes the scale in two calls and others scale in between.
ScaleReportsWhatItReplaced == scaled # None => scaled.reported = scaled.replaced

\* CanGetDeployment and CanScaleDeployment ask for every permission the calls of the
\* request need, so a client that passed the check is not refused half-way.
CallsAreChecked ==
    \A c \in Clients : req[c].calls \subseteq
        GetBuildsRules \cup (IF req[c].op = "scale" THEN ScaleDeploymentRules ELSE GetDeploymentRules)

\* In whatever order the map of candidates is walked, getMostRecentByDeploymentVersion
\* finds the controller with the largest version, and a deployment that has completed
\* once or is being rolled out is never without a current controller.
CurrentIsNewest ==
    asked # None /\ asked.kind = "rcs" =>
        LET relevant == {rc \in asked.rcs : rc.owner = 1 /\ (IsVisible(rc) \/ rc.phase = "Complete")}
            newest(rc) == \A o \in relevant :
                IF IsVisible(o) \/ \A p \in asked.rcs : p.owner = 1 /\ p.phase = "Complete" => p.created <= o.created
                THEN o.version # None => rc.version # None /\ o.version <= rc.version
                ELSE TRUE
        IN  \A current \in CurrentDeployments(asked.rcs, 1) :
                IF relevant = {} THEN current = None ELSE current \in relevant /\ newest(current)

\* A pod that getPodStatus counts as Running has all its containers ready, also while
\* some of them have no status yet, and every pod that has not failed is counted once.
RunningMeansReady ==
    asked # None /\ asked.kind = "pods" =>
        LET status == PodStatus(asked.pods)
        IN  /\ \A p \in asked.pods : StatusKey(p) = "Running" =>
                    /\ Len(p.statuses) = p.containers
                    /\ \A i \in DOMAIN p.statuses : p.statuses[i] = "ready"
            /\ status.total = Cardinality({p \in asked.pods : p.phase # "Failed"})
            /\ FoldSet(LAMBDA k, n : n + status.count[k], 0, DOMAIN status.count) = status.total

\* The weights of scoreRoute order routes by admission, then alternate backends, then
\* a host of its own, then TLS: no number of lesser merits outweighs a greater one.
BestRouteIsLexicographic ==
    asked # None /\ asked.kind = "routes" =>
        LET merits(r) == <<HasAdmitted(r), r.alternates # {}, r.custom, r.tls>>
            beats(a, b) == \E i \in 1..4 : /\ merits(a)[i] /\ ~merits(b)[i]
                                           /\ \A j \in 1..(i - 1) : merits(a)[j] = merits(b)[j]
            services == MatchingServices(asked.services, asked.labels)
        IN  \A best \in BestRoutes(asked.routes, services) :
                ~\E r \in RoutesByService(asked.routes, services) : beats(r, best)

\* GetDeploymentStatSeries returns the newest buckets that lie within the range that
\* was asked for, as many as the limit allows and there are.
SeriesIsNewest ==
    asked # None /\ asked.kind = "range" =>
        LET got == BucketsInRange(1, asked.start, asked.end, asked.limit)
            whole == {asked.start + k * BucketDuration : k \in
                        {k \in 0..(asked.end - asked.start) : asked.start + (k + 1) * BucketDuration <= asked.end}}
            size == IF asked.limit < 0 \/ asked.limit > Cardinality(whole) THEN Cardinality(whole) ELSE asked.limit
        IN  /\ Len(got) = size
            /\ \A i \in DOMAIN got : got[i] \in whole
            /\ \A b \in whole \ ToSet(got) : \A i \in DOMAIN got : b < got[i]
            /\ got # <<>> => TimestampEndpoints(<<got, <<>>>>) = <<got[1], got[size]>>

\* isAuthorized says yes only when rules of the review that hold for all objects
\* grant every verb on every resource that was asked for.
AuthorizedIsGranted ==
    asked # None /\ asked.kind = "review" =>
        (CheckAuthorizedWithBuilds(asked.user, asked.env, asked.requests) =>
            \A r \in asked.requests : \E i \in DOMAIN asked.env :
                LET rule == asked.env[i]
                IN  /\ ~rule.names /\ ~rule.urls
                    /\ r[1] \in rule.resources \/ "*" \in rule.resources
                    /\ rule.groups = {} \/ {"", "*"} \cap rule.groups # {}
                    /\ r[2] \in rule.verbs)

\* The comment in processRule, "Add verbs for each group/resource in rule": what some
\* rule of the review grants is granted.  Refuted: a later rule for the same resource
\* replaces the verbs of an earlier one.
GrantedIsAuthorized ==
    asked # None /\ asked.kind = "review" =>
        ((\A r \in asked.requests : \E i \in DOMAIN asked.env :
                /\ ~asked.env[i].names /\ ~asked.env[i].urls
                /\ r[1] \in asked.env[i].resources /\ asked.env[i].groups = {}
                /\ r[2] \in asked.env[i].verbs)
            => IsAuthorized(LookupAllRules(asked.env), asked.requests))

\* The usage that GetSpaceAndOtherEnvironmentUsage reports for the other spaces is that
\* of the pods that no application of the space runs, when pods have not failed.
OtherUsageIsTheRest ==
    asked # None /\ asked.kind = "usage" =>
        LET all == asked.others \cup UNION ToSet(asked.deployments)
            quota == EnvironmentQuota(MaxReplicas, PodsQuota(all, "memory"))
        IN  OtherUsage(quota, asked.deployments, "memory") = PodsQuota(asked.others, "memory")

\* The metrics of an environment are asked for at the cluster of its namespace and with
\* a token for that cluster, whichever cluster the rest of the tenant is on and whether
\* or not the API is behind a proxy.
MetricsAreOfTheirCluster ==
    asked # None /\ asked.kind = "tenant" =>
        LET p == TenantURLProvider(asked.namespaces, asked.proxy)
        IN  p # None => \A mapping \in EnvironmentMappings(p) : \A env \in DOMAIN mapping :
                LET client == MetricsClient(p, mapping, env)
                    ns == p.namespaces[mapping[env]]
                IN  client # None =>
                        /\ ns.type = env
                        /\ client.url[2] = ns.cluster.name
                        /\ client.token = <<"token", ns.cluster.name>>

\* External: the cluster fills in the default limits when a pod is created.
Admitted(containers, default) ==
    [i \in DOMAIN containers |-> [r \in DOMAIN default |->
        IF r \in DOMAIN containers[i] THEN containers[i][r] ELSE default[r]]]

\* What GetDeploymentPodQuota promises for a resource of a pod is what getPodsQuota
\* reports once the pod runs.
LimitsAgree(resource) ==
    asked # None /\ asked.kind = "limits" =>
        LET promised == DeploymentPodQuota(asked.containers, asked.default, resource)
        IN  promised # None =>
                promised = PodsQuota({[limits |-> Admitted(asked.containers, asked.default)]}, resource)

\* The memory limit of a pod is predicted right, whatever its containers state.
MemoryLimitsAgree == LimitsAgree("memory")

\* What a client is shown is so in the cluster: it is the newest deployment, its pods,
\* usage, limits, routes and metrics belong to it, and access is reported where it is
\* granted.
ViewsAreRight ==
    /\ DeploymentsTypeOK
    /\ ScaleReportsWhatItReplaced /\ CurrentIsNewest /\ RunningMeansReady
    /\ CallsAreChecked /\ AuthorizedIsGranted
    /\ OtherUsageIsTheRest /\ MemoryLimitsAgree
    /\ BestRouteIsLexicographic /\ SeriesIsNewest /\ MetricsAreOfTheirCluster

\* The comment "Apply default limit for each container that didn't specify CPU/memory
\* limits" says so of the CPU too.  Refuted: the limit is looked up as "cpucores", which
\* no container has, and the default is applied to those that state "cpu".
CpuLimitsAgree == LimitsAgree("cpu")
===============================================================================
