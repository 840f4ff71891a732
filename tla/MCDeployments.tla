---------------------------- MODULE MCDeployments ----------------------------
(* One run for three components that share nothing: the instances of          *)
(* Deployments, EventWatch and CommentCount move only while the other two are  *)
(* in their initial states.                                                    *)
EXTENDS Deployments, EventWatch, CommentCount, TLC

Phases == {"New", "Running", "Complete", "Failed"}
Controller(i) == [rank : {i}, created : {i}, owner : {1}, version : {None, i, 4 - i}, phase : Phases, replicas : {0, 1}]
RcSets == UNION {{{a}, {a, b}, {a, b, c}} : a \in Controller(1), b \in Controller(2),
                 c \in {r \in Controller(3) : r.version # None /\ r.phase # "Failed" /\ r.replicas = 0}}

Pod(i) == [id : {i}, phase : {"Pending", "Running", "Succeeded", "Failed", "Unknown"}, deleting : BOOLEAN,
           old : BOOLEAN, containers : {2},
           statuses : {<<>>, <<"ready">>, <<"ready", "ready">>, <<"ready", "starting">>, <<"stuck", "crashloop">>,
                       <<"exit1", "ready">>, <<"exit0", "ready">>, <<"creating", "waiting">>}]
PodSets == {{p} : p \in Pod(1)} \cup {{p, q} : p \in {x \in Pod(1) : ~x.old}, q \in {x \in Pod(2) : x.phase = "Running"}}

Routes == [to : {"a", "b"}, alternates : {{}, {"a"}}, host : {"spec"}, custom : BOOLEAN, tls : BOOLEAN,
           ingress : {{}, {[admitted |-> TRUE, time |-> 2, host |-> "x"], [admitted |-> FALSE, time |-> 1, host |-> "y"]}}]

Rules == [names : BOOLEAN, urls : {FALSE}, groups : {{}, {"*"}, {"batch"}}, resources : {{"pods"}, {"*"}, {"pods", "services"}},
          verbs : {{"list"}, {"get", "list"}, {"get"}}]
BuildRule == [names |-> FALSE, urls |-> FALSE, groups |-> {}, resources |-> {"builds"}, verbs |-> {"list"}]

Containers == {<<>>, [cpu |-> 2], [memory |-> 3], [cpu |-> 2, memory |-> 3]}
UsagePod(i, l) == [id |-> i, limits |-> <<[memory |-> l], [memory |-> i]>>]

\* A build that did not get as far as to deploy, and one that has deployed both.
MCAnnotations == {{}, {App, Other}}

Clusters == [name : {1, 2}, api : BOOLEAN]
Namespaces(n) == UNION {[name : {n}, type : {"user", "run", None}, cluster : {c}, metrics : {None, <<"own", c.name>>}] : c \in Clusters}
Proxy == [name |-> 0, api |-> TRUE]

MCQuestions ==
    {[kind |-> "rcs", rcs |-> s] : s \in RcSets}
    \cup {[kind |-> "pods", pods |-> s] : s \in PodSets}
    \cup {[kind |-> "routes", routes |-> {r, s}, labels |-> {"app", "v1"},
           services |-> [a |-> {"app"}, b |-> {}, c |-> {"app", "v2"}]] : r \in Routes, s \in Routes}
    \cup {[kind |-> "range", start |-> s, end |-> e, limit |-> l] : s \in 0..2, e \in 2..9, l \in -1..5}
    \cup {[kind |-> "review", user |-> u, env |-> <<a, b>>, requests |-> q] :
            u \in {<<BuildRule>>, <<>>}, a \in Rules, b \in Rules,
            q \in {{<<"pods", "list">>}, {<<"pods", "list">>, <<"services", "get">>}}}
    \cup {[kind |-> "usage", deployments |-> <<{UsagePod(1, l)}, {UsagePod(2, l), UsagePod(3, k)}>>,
           others |-> {UsagePod(4, k)}] : l \in 0..2, k \in 0..2}
    \cup {[kind |-> "limits", containers |-> <<a, b>>, default |-> d] : a \in Containers, b \in Containers,
            d \in {[cpu |-> 1, memory |-> 1], [cpu |-> 1], [memory |-> 1]}}
    \cup {[kind |-> "tenant", namespaces |-> t, proxy |-> x] : x \in {None, Proxy},
            t \in {<<>>} \cup {<<a, b>> : a \in Namespaces(1), b \in Namespaces(2)}}

Init == DeploymentsInit /\ WatchInit /\ CountInit

WatchAlone == CountInit /\ DeploymentsInit
CountAlone == DeploymentsInit /\ WatchInit /\ CountNext /\ UNCHANGED <<deploymentVars, watchVars>>

Next ==
    \/ WatchInit /\ CountInit /\ DeploymentsNext /\ UNCHANGED <<watchVars, countVars>>
    \/ WatchAlone /\ WatchNext /\ UNCHANGED <<deploymentVars, countVars>>
    \/ CountAlone

\* The fairness of WatchSpec and CountSpec, each while the other two have not moved.
Spec ==
    /\ Init /\ [][Next]_<<deploymentVars, watchVars, countVars>>
    /\ WF_watchVars(WatchAlone /\ Relist) /\ WF_watchVars(WatchAlone /\ Deliver)
    /\ WF_watchVars(WatchAlone /\ Receive) /\ WF_watchVars(WatchAlone /\ Pop) /\ WF_watchVars(WatchAlone /\ Send)
    /\ WF_countVars(CountAlone)
===============================================================================
