-------------------------------- MODULE Spaces --------------------------------
(***************************************************************************)
(* Spaces, the codebases in them and what they own outside the database:   *)
(* the resource at the authorization service, Che workspaces and OpenShift *)
(* objects (space/space.go, codebase/codebase.go, codebase/che/client.go,  *)
(* auth/resource.go, controller/space.go, controller/codebase.go,          *)
(* controller/space_codebases.go, kubernetes/deployments_kubeclient.go).   *)
(*                                                                         *)
(* Creating a space commits a row and then calls the authorization         *)
(* service.  Deleting one sends requests to the service's own endpoints,   *)
(* codebase by codebase and deployment by deployment, and deletes the row  *)
(* last; no transaction spans the steps.  Every remote call may fail, with *)
(* or without having taken effect, and the process may stop between two    *)
(* steps.  Authorization is enabled.                                       *)
(***************************************************************************)
EXTENDS Naturals, FiniteSets, FiniteSetsExt, TLC

CONSTANTS
    Users, SpaceIDs, SpaceNames, URLs, Clients,
    CodebaseIDs,    \* uuids, so finitely many
    PageLimit,      \* pageSizeDefault: codebases listed by one request
    MaxRequests,    \* bound on the number of requests
    MaxFaults,      \* bound on the number of failures
    None

ASSUME SpacesAssumption ==
    /\ PageLimit \in Nat \ {0}
    /\ MaxRequests \in Nat /\ MaxFaults \in Nat
    /\ None \notin Users \cup URLs
    /\ IsFiniteSet(CodebaseIDs)

VARIABLES
    spaces,         \* rows of spaces, soft-deleted ones included
    codebases,      \* rows of codebases, soft-deleted ones included
    resources,      \* spaces that are known to the authorization service
    workspaces,     \* <<user, repository>>: Che workspaces
    cluster,        \* cluster[<<u, s>>]: OpenShift objects of the space's application in u's namespaces
    pc, loc,        \* where a request is, what it has read and was asked to do
    concurrent,        \* two requests have been under way at the same time
    unrolled,       \* a roll back was lost: it failed or the process stopped
    requests, faults

stored == <<spaces, codebases, resources, workspaces, cluster>>
vars == <<spaces, codebases, resources, workspaces, cluster, pc, loc, concurrent, unrolled, requests, faults>>

Objects == {"route", "service", "dc"}
NewSpace(u, n) == [owner |-> u, name |-> n, version |-> 0, live |-> TRUE]
NewCodebase(s, url) == [space |-> s, url |-> url, stack |-> 0, last |-> None, live |-> TRUE]
Live(rows) == {i \in DOMAIN rows : rows[i].live}
Idle == [user |-> None, space |-> None, skip |-> FALSE, direct |-> FALSE, todo |-> {},
         failed |-> FALSE, codebase |-> None, copy |-> None]

\* Some spaces exist, with their resources, a codebase or two and a deployment.
Init ==
    \E s \in SpaceIDs, u \in Users, n \in SpaceNames, urls \in SUBSET URLs, objects \in {{}, Objects} :
    \E id \in [urls -> CodebaseIDs] :
        /\ \A x, y \in urls : id[x] = id[y] => x = y
        /\ spaces = [x \in {s} |-> NewSpace(u, n)]
        /\ codebases = [i \in {id[x] : x \in urls} |-> NewCodebase(s, CHOOSE x \in urls : id[x] = i)]
        /\ resources = {s}
        /\ workspaces = {<<u, x>> : x \in urls}
        /\ cluster = [k \in Users \X SpaceIDs |-> IF k = <<u, s>> THEN objects ELSE {}]
        /\ pc = [c \in Clients |-> "idle"]
        /\ loc = [c \in Clients |-> Idle]
        /\ concurrent = FALSE /\ unrolled = FALSE
        /\ requests = 0 /\ faults = 0

-------------------------------------------------------------------------------
(* Steps of requests *)

Count == requests < MaxRequests /\ requests' = requests + 1

Arrive(c, label, local) ==
    /\ pc[c] = "idle" /\ Count
    /\ pc' = [pc EXCEPT ![c] = label]
    /\ loc' = [loc EXCEPT ![c] = local]
    /\ concurrent' = (concurrent \/ \E o \in Clients \ {c} : pc[o] # "idle")
    /\ UNCHANGED <<unrolled, faults>>

Go(c, label, local) ==
    /\ pc' = [pc EXCEPT ![c] = label]
    /\ loc' = [loc EXCEPT ![c] = local]
    /\ UNCHANGED <<concurrent, requests>>

EndRequest(c) == Go(c, "idle", Idle)

\* A request that is a single transaction; another one may be under way.
Single ==
    /\ Count
    /\ concurrent' = (concurrent \/ \E o \in Clients : pc[o] # "idle")
    /\ UNCHANGED <<pc, loc, unrolled, faults>>

\* The error returns of a remote call or of a transaction: no connection, a status
\* other than success, an answer that cannot be decoded.
Fault == faults < MaxFaults /\ faults' = faults + 1
NoFault == UNCHANGED faults

\* Spaces().Load finds the row unless it is soft-deleted.
SpaceLive(s) == s \in Live(spaces)
Owns(u, s) == SpaceLive(s) /\ spaces[s].owner = u

\* Spaces().Delete: RowsAffected == 0 is an error, so only a live row can be deleted.
DeleteSpaceRow(s) == SpaceLive(s) /\ spaces' = [spaces EXCEPT ![s].live = FALSE]

\* Spaces().Save: the row must be found with the version that was sent.
SaveSpace(s, v, n) ==
    /\ SpaceLive(s) /\ spaces[s].version = v
    /\ spaces' = [spaces EXCEPT ![s].version = v + 1, ![s].name = n]

\* spaces_name_idx, checked by Spaces().Create and Save: live spaces of one owner have different names.
NameFree(s, u, n) == ~\E t \in Live(spaces) \ {s} : spaces[t].owner = u /\ spaces[t].name = n

-------------------------------------------------------------------------------
(* Creating and updating spaces *)

\* Create: row, root area and root iteration in one transaction.  The id may be the
\* client's choice; the primary key refuses one that was used before.
CreateSpace(c, u, s, n) ==
    /\ s \notin DOMAIN spaces
    /\ NameFree(s, u, n)
    /\ spaces' = [x \in DOMAIN spaces \cup {s} |-> IF x = s THEN NewSpace(u, n) ELSE spaces[x]]
    /\ Arrive(c, "created", [Idle EXCEPT !.user = u, !.space = s])
    /\ UNCHANGED <<codebases, resources, workspaces, cluster>>

\* Mutant of CreateResource: the error is returned without rolling back.
CreateResourceNoRollBack(c) ==
    /\ pc[c] = "created"
    /\ \/ NoFault /\ resources' = resources \cup {loc[c].space}
       \/ Fault /\ resources' \in {resources, resources \cup {loc[c].space}}
    /\ EndRequest(c)
    /\ UNCHANGED <<spaces, codebases, workspaces, cluster, unrolled>>

\* ResourceManager.CreateSpace after the commit; an error leads to the roll back.
CreateResource(c) ==
    /\ pc[c] = "created"
    /\ \/ /\ NoFault /\ EndRequest(c)
          /\ resources' = resources \cup {loc[c].space}
       \/ /\ Fault /\ Go(c, "rollback", loc[c])
          /\ resources' \in {resources, resources \cup {loc[c].space}}
    /\ UNCHANGED <<spaces, codebases, workspaces, cluster, unrolled>>

\* rollBackSpaceCreation: the row is deleted; an error is only logged.
RollBack(c) ==
    /\ pc[c] = "rollback"
    /\ \/ NoFault /\ UNCHANGED unrolled /\ DeleteSpaceRow(loc[c].space)
       \/ NoFault /\ UNCHANGED <<unrolled, spaces>> /\ ~SpaceLive(loc[c].space)
       \/ Fault /\ unrolled' = TRUE /\ UNCHANGED spaces
    /\ EndRequest(c)
    /\ UNCHANGED <<codebases, resources, workspaces, cluster>>

\* Update: owner, version and name are checked in one transaction.
UpdateSpace(u, s, v, n) ==
    /\ Owns(u, s)
    /\ NameFree(s, u, n)
    /\ SaveSpace(s, v, n)
    /\ Single
    /\ UNCHANGED <<codebases, resources, workspaces, cluster>>

-------------------------------------------------------------------------------
(* Deleting a space *)

\* Delete: the request arrives; SkipCluster leaves the OpenShift objects alone.
DeleteSpace(c, u, s, skip) ==
    /\ Arrive(c, "list", [Idle EXCEPT !.user = u, !.space = s, !.skip = skip])
    /\ UNCHANGED stored

\* GET /spaces/:id/codebases without page parameters: one page, in no order.
ListPage(s) ==
    LET all == {b \in Live(codebases) : codebases[b].space = s}
    IN  kSubset(Min({PageLimit, Cardinality(all)}), all)

\* deleteCodebases, the listing: a missing space or a failing call ends the request.
ListCodebases(c) ==
    /\ pc[c] = "list"
    /\ \/ /\ NoFault /\ SpaceLive(loc[c].space)
          /\ \E page \in ListPage(loc[c].space) : Go(c, "codebases", [loc[c] EXCEPT !.todo = page])
       \/ NoFault /\ ~SpaceLive(loc[c].space) /\ EndRequest(c)
       \/ Fault /\ EndRequest(c)
    /\ UNCHANGED <<stored, unrolled>>

\* Mutant of VerifyCodebaseOwner: whoever sends the request.
VerifyAnyone(u, b) == b \in Live(codebases) /\ SpaceLive(codebases[b].space)

\* verifyCodebaseOwner, one transaction: the codebase, its space and the space's owner.
VerifyCodebaseOwner(u, b) == b \in Live(codebases) /\ Owns(u, codebases[b].space)

\* An error of one codebase is collected and the loop goes on.
Skip(c, b) == Go(c, "codebases", [loc[c] EXCEPT !.todo = @ \ {b}, !.failed = TRUE])

\* The workspaces of a repository in the user's Che namespace.
ListWorkspaces(u, url) == workspaces \cap {<<u, url>>}

\* DELETE /codebases/:id, up to the Che workspaces: those of the requesting user for
\* the same repository are deleted; one that cannot be deleted is only logged, while a
\* namespace or a list of workspaces that cannot be read is an error.
DeleteWorkspaces(c, b) ==
    /\ pc[c] = "codebases" /\ b \in loc[c].todo
    /\ IF VerifyCodebaseOwner(loc[c].user, b)
       THEN \/ /\ NoFault
               /\ workspaces' = workspaces \ ListWorkspaces(loc[c].user, codebases[b].url)
               /\ Go(c, "codebase", [loc[c] EXCEPT !.codebase = b])
            \/ Fault /\ UNCHANGED workspaces /\ Go(c, "codebase", [loc[c] EXCEPT !.codebase = b])
            \/ Fault /\ UNCHANGED workspaces /\ Skip(c, b)
       ELSE NoFault /\ UNCHANGED workspaces /\ Skip(c, b)
    /\ UNCHANGED <<spaces, codebases, resources, cluster, unrolled>>

\* Codebases().Delete in a second transaction; no row affected is an error.
DeleteCodebaseRow(c) ==
    LET b == loc[c].codebase
        next == [loc[c] EXCEPT !.todo = @ \ {b}, !.codebase = None]
    IN  /\ pc[c] = "codebase"
        /\ \/ /\ NoFault /\ b \in Live(codebases)
              /\ codebases' = [codebases EXCEPT ![b].live = FALSE]
              /\ Go(c, "codebases", next)
           \/ /\ (NoFault /\ b \notin Live(codebases)) \/ Fault
              /\ UNCHANGED codebases
              /\ Go(c, "codebases", [next EXCEPT !.failed = TRUE])
        /\ UNCHANGED <<spaces, resources, workspaces, cluster, unrolled>>

\* All pages' codebases are done: errors were collected and end the request.
CodebasesDeleted(c) ==
    /\ pc[c] = "codebases" /\ loc[c].todo = {}
    /\ IF loc[c].direct \/ loc[c].failed THEN EndRequest(c)
       ELSE Go(c, IF loc[c].skip THEN "row" ELSE "cluster", loc[c])
    /\ UNCHANGED <<stored, unrolled, faults>>

\* deleteRoutes and deleteServices go through the objects with the application's label
\* one by one and stop at the first error, which is only logged.
LeftBehind(k) == SUBSET (cluster[k] \ {"dc"})

\* DeleteDeployment succeeds.
Undeploy(k) ==
    \/ NoFault /\ "dc" \in cluster[k] /\ cluster' = [cluster EXCEPT ![k] = {}]
    \/ Fault /\ \E left \in LeftBehind(k) : cluster' = [cluster EXCEPT ![k] = left]

\* DeleteDeployment fails: the deployment config is left, or was missing.
UndeployFails(k) ==
    \/ /\ NoFault /\ "dc" \notin cluster[k]
       /\ cluster' = [cluster EXCEPT ![k] = {}]
    \/ Fault /\ \E left \in LeftBehind(k) :
            cluster' = [cluster EXCEPT ![k] = left \cup (cluster[k] \cap {"dc"})]

\* GetSpace lists the deployments that have a deployment config.
Listed(k) == "dc" \in cluster[k]

\* DELETE .../deployments/:app/:env by a client: the space must exist.
DeleteDeployment(u, s) ==
    /\ SpaceLive(s)
    /\ Undeploy(<<u, s>>) \/ UndeployFails(<<u, s>>)
    /\ Count
    /\ concurrent' = (concurrent \/ \E o \in Clients : pc[o] # "idle")
    /\ UNCHANGED <<spaces, codebases, resources, workspaces, pc, loc, unrolled>>

\* deleteOpenShiftResource: what is listed has a deployment config (GetDeployment);
\* without one there is nothing to delete.  The space must still exist.
DeleteDeployments(c) ==
    LET k == <<loc[c].user, loc[c].space>>
    IN  /\ pc[c] = "cluster"
        /\ \/ /\ NoFault /\ UNCHANGED cluster
              /\ IF SpaceLive(loc[c].space)
                 THEN ~Listed(k) /\ Go(c, "row", loc[c])
                 ELSE EndRequest(c)
           \/ Fault /\ UNCHANGED cluster /\ EndRequest(c)
           \/ SpaceLive(loc[c].space) /\ Listed(k) /\ Undeploy(k) /\ Go(c, "row", loc[c])
           \/ SpaceLive(loc[c].space) /\ Listed(k) /\ UndeployFails(k) /\ EndRequest(c)
        /\ UNCHANGED <<spaces, codebases, resources, workspaces, unrolled>>

\* The transaction that checks the owner and deletes the row.
DeleteRow(c) ==
    /\ pc[c] = "row"
    /\ \/ /\ NoFault /\ Owns(loc[c].user, loc[c].space)
          /\ DeleteSpaceRow(loc[c].space)
          /\ Go(c, "resource", loc[c])
       \/ /\ (NoFault /\ ~Owns(loc[c].user, loc[c].space)) \/ Fault
          /\ UNCHANGED spaces /\ EndRequest(c)
    /\ UNCHANGED <<codebases, resources, workspaces, cluster, unrolled>>

\* ResourceManager.DeleteSpace: an error is returned, the row stays deleted.
DeleteResource(c) ==
    /\ pc[c] = "resource"
    /\ \/ NoFault /\ resources' = resources \ {loc[c].space}
       \/ Fault /\ resources' \in {resources, resources \ {loc[c].space}}
    /\ EndRequest(c)
    /\ UNCHANGED <<spaces, codebases, workspaces, cluster, unrolled>>

-------------------------------------------------------------------------------
(* Codebases and their workspaces *)

\* codebases_spaceid_url_idx, checked by Codebases().Create.
URLFree(s, url) == ~\E o \in Live(codebases) : codebases[o].space = s /\ codebases[o].url = url

\* SpaceCodebases.Create: owner and repository are checked in one transaction.
CreateCodebase(u, s, url, b) ==
    /\ Owns(u, s)
    /\ b \notin DOMAIN codebases
    /\ URLFree(s, url)
    /\ codebases' = [x \in DOMAIN codebases \cup {b} |->
                      IF x = b THEN NewCodebase(s, url) ELSE codebases[x]]
    /\ Single
    /\ UNCHANGED <<spaces, resources, workspaces, cluster>>

\* Codebase.Delete sent by a client.
DeleteCodebase(c, u, b) ==
    /\ Arrive(c, "codebases", [Idle EXCEPT !.user = u, !.todo = {b}, !.direct = TRUE])
    /\ UNCHANGED stored

\* Codebase.Update, first transaction: the owner's copy, with the new stack.
UpdateCodebase(c, u, b) ==
    /\ VerifyCodebaseOwner(u, b)
    /\ Arrive(c, "save", [Idle EXCEPT !.user = u, !.codebase = b,
                                      !.copy = [codebases[b] EXCEPT !.stack = 1]])
    /\ UNCHANGED stored

\* Codebase.Create and Open, first transaction: anybody loads the codebase.
LoadCodebase(c, u, b, label) ==
    /\ b \in Live(codebases)
    /\ Arrive(c, label, [Idle EXCEPT !.user = u, !.codebase = b, !.copy = codebases[b]])
    /\ UNCHANGED stored

\* Codebase.Create: a failed call may have created the workspace all the same.
CreateWorkspace(c) ==
    LET w == <<loc[c].user, loc[c].copy.url>>
    IN  /\ pc[c] = "create"
        /\ \/ /\ NoFault /\ workspaces' = workspaces \cup {w}
              /\ Go(c, "save", [loc[c] EXCEPT !.copy.last = w])
           \/ Fault /\ workspaces' \in {workspaces, workspaces \cup {w}} /\ EndRequest(c)
        /\ UNCHANGED <<spaces, codebases, resources, cluster, unrolled>>

\* Codebase.Open: the workspace is named by the client and must exist.
StartExistingWorkspace(c) ==
    /\ pc[c] = "open"
    /\ \/ /\ NoFault
          /\ \E w \in workspaces : w[1] = loc[c].user /\ Go(c, "save", [loc[c] EXCEPT !.copy.last = w])
       \/ NoFault /\ EndRequest(c)
       \/ Fault /\ EndRequest(c)
    /\ UNCHANGED <<stored, unrolled>>

\* Codebases().Save: the row must be found; all columns of the copy are written.
SaveCodebase(c) ==
    LET b == loc[c].codebase
    IN  /\ pc[c] = "save"
        /\ \/ /\ NoFault
              /\ codebases' = IF b \in Live(codebases) THEN [codebases EXCEPT ![b] = loc[c].copy]
                              ELSE codebases
           \/ Fault /\ UNCHANGED codebases
        /\ EndRequest(c)
        /\ UNCHANGED <<spaces, resources, workspaces, cluster, unrolled>>

\* External: a pipeline deploys the space's application.
Deploy(u, s) ==
    /\ Owns(u, s)
    /\ cluster' = [cluster EXCEPT ![<<u, s>>] = Objects]
    /\ Single
    /\ UNCHANGED <<spaces, codebases, resources, workspaces>>

\* The process stops: every request is cut off.
Crash ==
    /\ Fault
    /\ \E c \in Clients : pc[c] # "idle"
    /\ unrolled' = (unrolled \/ \E c \in Clients : pc[c] \in {"created", "rollback"})
    /\ pc' = [c \in Clients |-> "idle"]
    /\ loc' = [c \in Clients |-> Idle]
    /\ UNCHANGED <<stored, concurrent, requests>>

Next ==
    \/ \E c \in Clients, u \in Users, s \in SpaceIDs :
        \/ \E n \in SpaceNames : CreateSpace(c, u, s, n)
        \/ \E skip \in BOOLEAN : DeleteSpace(c, u, s, skip)
    \/ \E u \in Users, s \in SpaceIDs :
        \/ \E n \in SpaceNames, v \in 0..MaxRequests : UpdateSpace(u, s, v, n)
        \/ \E url \in URLs, b \in CodebaseIDs : CreateCodebase(u, s, url, b)
        \/ DeleteDeployment(u, s)
        \/ Deploy(u, s)
    \/ \E c \in Clients, u \in Users, b \in CodebaseIDs :
        \/ DeleteCodebase(c, u, b)
        \/ UpdateCodebase(c, u, b)
        \/ \E label \in {"create", "open"} : LoadCodebase(c, u, b, label)
    \/ \E c \in Clients, b \in CodebaseIDs : DeleteWorkspaces(c, b)
    \/ \E c \in Clients :
        \/ CreateResource(c) \/ RollBack(c)
        \/ ListCodebases(c) \/ DeleteCodebaseRow(c) \/ CodebasesDeleted(c)
        \/ DeleteDeployments(c) \/ DeleteRow(c) \/ DeleteResource(c)
        \/ CreateWorkspace(c) \/ StartExistingWorkspace(c) \/ SaveCodebase(c)
    \/ Crash

Spec == Init /\ [][Next]_vars

-------------------------------------------------------------------------------
(* Properties *)

\* Rows keep their shape, and what is outside belongs to users, spaces and repositories.
TypeOK ==
    /\ DOMAIN spaces \subseteq SpaceIDs
    /\ \A s \in DOMAIN spaces : spaces[s] \in
            [owner : Users, name : SpaceNames, version : 0..MaxRequests, live : BOOLEAN]
    /\ DOMAIN codebases \subseteq CodebaseIDs
    /\ \A b \in DOMAIN codebases : codebases[b] \in
            [space : DOMAIN spaces, url : URLs, stack : 0..1,
             last : {None} \cup Users \X URLs, live : BOOLEAN]
    /\ resources \subseteq DOMAIN spaces
    /\ workspaces \subseteq Users \X URLs
    /\ cluster \in [Users \X SpaceIDs -> SUBSET Objects]
    /\ pc \in [Clients -> {"idle", "created", "rollback", "list", "codebases", "codebase",
                           "cluster", "row", "resource", "create", "open", "save"}]

\* A live space is known to the authorization service: only the request that is creating
\* it may not have told the service yet, unless a roll back was lost.  Delete removes the
\* row first and Create's failure removes the row, whoever else works on the space.
LiveSpacesHaveResources ==
    ~unrolled =>
        \A s \in Live(spaces) :
            s \in resources \/ \E c \in Clients : pc[c] \in {"created", "rollback"} /\ loc[c].space = s

\* Deleting a space deletes all of its codebases, when they fit on one page and no other
\* request is under way: a codebase that could not be deleted keeps the space.
SerialCodebasesGone ==
    ~concurrent =>
        \A b \in Live(codebases) : LET s == codebases[b].space IN
            SpaceLive(s) \/ Cardinality({x \in DOMAIN codebases : codebases[x].space = s}) > PageLimit

\* controller/space.go: "delete all the codebases associated with this space".
CodebasesGone == \A b \in Live(codebases) : SpaceLive(codebases[b].space)

\* When a deleting request has come to the row, the space's deployment configs are gone
\* from the owner's namespaces: only a new deployment during the request can be there.
SerialUndeployed ==
    \A c \in Clients :
        ~concurrent /\ pc[c] = "resource" /\ ~loc[c].skip => "dc" \notin cluster[<<loc[c].user, loc[c].space>>]

\* The database agrees with the authorization service and the cluster, although the three
\* change one after the other and each of them may fail: a live space has its resource,
\* and deleting a space takes its codebases and deployments along.
SpacesAreSound == TypeOK /\ LiveSpacesHaveResources /\ SerialCodebasesGone /\ SerialUndeployed

\* Only a request of the space's owner ends the life of the space or of one of its
\* codebases, although Delete checks the owner of the space last.
OwnersOnly ==
    [][/\ \A s \in Live(spaces) \ Live(spaces)' :
            \E c \in Clients : pc[c] # "idle" /\ loc[c].user = spaces[s].owner
       /\ \A b \in Live(codebases) \ Live(codebases)' :
            \E c \in Clients : /\ pc[c] = "codebase"
                               /\ loc[c].user = spaces[codebases[b].space].owner]_vars

\* A deleted row never comes back to life, whatever copies other requests still hold.
DeletedStaysDeleted ==
    [][/\ \A s \in DOMAIN spaces \ Live(spaces) : s \notin Live(spaces)'
       /\ \A b \in DOMAIN codebases \ Live(codebases) : b \notin Live(codebases)']_vars

\* The life of a row ends by its owner's request, and once: nobody else deletes it and no
\* stale copy brings it back.
OwnersEndLives == OwnersOnly /\ DeletedStaysDeleted
===============================================================================
