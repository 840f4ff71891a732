# Verification of fabric8-wit

fabric8-wit (almighty-core) is a work item tracker: a Go server with a REST API (goa), its data in
PostgreSQL (gorm). This directory holds TLA+ modules that model its core, TLC configurations that
model-check them on small instances, and theorems about them that TLAPS checks. `PROJECT.json` lists
the components, the runs, the source lines of every definition, the hazards and the theorems.

## The system

Every request is served by a goroutine of its own; several instances of the server may share one
database. Almost all state is in PostgreSQL, in READ COMMITTED isolation, so what goes wrong goes wrong
*between statements of different transactions*: a value is read, the transaction of somebody else
commits, the value is used. Soft deletion (`deleted_at`) is the second theme: gorm hides deleted rows
from its own queries, hand-written SQL has to do so itself, and gorm's `Save` of a row that is gone inserts it
again. Kept in memory are the cache of work item types, the cron schedule of the tracker queries and the
table of known URLs. Go adds a third theme: maps are visited in a random order, and a result must not depend on it.

| component | state | operations | interacts with | correct when |
|---|---|---|---|---|
| schema migration (`migration/`) | table `version`, the schema | `Migrate` at start-up | every instance, through an advisory lock | schema and versions agree, whoever crashes when |
| transactions (`application/transaction.go`, `gormapplication/`) | a transaction, a goroutine and a channel per call; the pool | `Transactional` | all controllers | all or nothing; an error means nothing; every call is answered |
| work items (`workitem/`, `controller/workitem*.go`) | `work_items`, `work_item_revisions`, `work_item_number_sequences` | create, update, reorder, delete | links (deleted along), types (fields), transactions | no lost update, dense numbers, a truthful history |
| order of work items (same files) | `execution_order` | create on top; move to top, bottom, above, below | the above | distinct orders; a move ends where it was asked to |
| links (`workitem/link/`) | `work_item_links` and its revisions, an advisory lock per space | create with topology validation, delete, delete all of a work item; ancestors, parentless list | work items | trees have single parents, no cycles, links stay in a space |
| iterations (`iteration/`) | a tree of paths, a state each | create, update (state, parent), delete a subtree | work items are moved when an iteration is deleted | one running iteration per space, a tree stays a tree |
| areas, labels, queries, comments (`area/`, `label/`, `query/`, `comment/`) | rows, some with a version, revisions of comments, number sequences | create, save, delete | work items, spaces | no lost update, unique names, dense numbers, revisions tell the truth |
| users and identities (`account/`, `login/`, `controller/users.go`) | two tables | create, update, obfuscate, delete by a service; login | the auth service; spaces go with their owner | an identity's user exists; what is forgotten stays so, whatever identities a user has |
| spaces and codebases (`space/`, `codebase/`, `controller/space.go`) | rows; a resource at the auth service; workspaces; objects in a cluster | create, update, delete | auth service, Che, OpenShift | no half-created or half-deleted space |
| field types (`workitem/*_type.go`) | the fields of a work item as JSON | convert, change of type, events, export | types | what was stored stays readable, what a change of type drops is told |
| work item types and space templates (`workitem/workitemtype*`, `spacetemplate/`) | tables, a cache per process | import at start-up, load | everything that converts fields | the tables are of one release, items fit their type |
| remote trackers (`remoteworkitem/`) | queries, imported items, cron entries | schedule, import | work items (upsert) | one work item per remote item, imported as a whole |
| search (`search/`, `criteria/`, `workitem/expression_compiler.go`) | known URLs | parse, compile to SQL, complete to trees, export in windows | work items | the SQL means what the expression says |
| lists, pages, CSV (`controller/`) | none | filter, page, export | work items | all and only what was asked for |
| deployments (`kubernetes/`, `controller/deployments.go`) | none; the cluster has it | show, scale, delete, watch events | OpenShift, tenant service | what is shown is the newest that is ready, sums agree |
| notifications | none | fire and forget | after create and update | - |
| actions (`actions/`) | none | rules for a change | called by nobody | - |

What is hard to test here: interleavings of two transactions around an unlocked read, the timeout of
`Transactional` that races a goroutine which it cannot stop, row locks taken in opposite orders,
several processes that migrate one database and crash, chains of remote calls of which one fails, rows that are
written back whole long after they were read, and queries over soft-deleted rows. The list, with
lines, is "hazards" in `PROJECT.json`.

## The modules

| module | what it models |
|---|---|
| `Migration` | `Migrate`, `MigrateToNextVersion` and `getCurrentVersion` run by several processes, with faults and restarts |
| `MigrationHistory` | the abstract specification: the schema goes up one version at a time |
| `LinkTopology` | links as a graph: parents, ancestors (the recursive query of `GetAncestors`), cycles |
| `LinkGraph` | the abstract specification of the link repository: a link appears in one step, if the topology allows it then |
| `WorkItemLinks` | the requests that create and delete links and delete work items, cut at every read and lock |
| `ItemHistory` | the abstract specification of the work item repository: each change builds on the version before it |
| `WorkItems` | the requests that create, update, reorder and delete work items, with row locks, revisions and numbers |
| `RankedList` | the abstract specification of the order: a list in which requests move work items |
| `WorkItemOrder` | how `Create` and `Reorder` compute `execution_order`, query by query |
| `Transactional` | `application.Transactional`: caller, goroutine, channel, timeout and the pool |
| `Iterations` | the tree of iterations, the work items in it and the counts that are shown |
| `TrackerImport` | the schedule of tracker queries, its closures, and the import of remote items |
| `Spaces` | spaces and codebases across the database, the auth service, Che and the cluster |
| `Search` | parsing, compiling and evaluating a filter; trees, exports, known URLs |
| `DeploymentViews`, `Deployments` | what the Kubernetes client computes from one answer of the cluster; requests that are chains of calls to a cluster that changes |
| `EventWatch` | the web socket that forwards events: a reflector that lists and watches, a FIFO that coalesces, the handler and the goroutine that waits for the client to leave |
| `Comments`, `CommentCount` | comments and their revisions; the goroutine that counts them for a work item |
| `LabelsAndQueries`, `Areas`, `Users` | rows with versions and unique names; areas and their numbers; users, identities and logins |
| `FieldTypes` | field values and their conversions, the change of a work item's type, events |
| `TemplateImport` | the import of templates by several replicas, and their caches of types |
| `ItemPatch`, `ItemList`, `Paging`, `CsvExport` | what a request does to the fields of a work item; the filtered list; links between pages; the CSV export |
| `*Proofs` | the theorems about the module of that name; `WorkItemLinksProofs` also about `LinkGraph`, `IterationsProofs` also about `Areas`, `OperationsProofs` about `Migration`, `Deployments` and `EventWatch`, `ResourcesProofs` about `Comments`, `LabelsAndQueries`, `Users`, `Spaces` and `Paging`, `RequestProofs` about `Transactional`, `ItemPatch`, `ItemList`, `CsvExport` and `CommentCount` |
| `MC*` | instances for TLC |

`WorkItemLinks`, `WorkItems` and `WorkItemOrder` model requests in the same way. `pc[c]` is where
request `c` is, `req[c]` what it was asked to do, and further variables hold what it has read. An action is
what happens between two points where another transaction can get in: a read whose result is used later,
a lock that may have to be waited for, a commit. In `WorkItems` and `WorkItemOrder` a transaction collects its
writes in `pending` and publishes them when it commits; in `WorkItemLinks` nothing after the first write depends
on others, so writes and commit are one action. `Fault` (`Timeout` in `WorkItemLinks`) stands for a
failing statement, a failing conversion and the timeout of `Transactional` alike: the transaction is rolled
back. Who may do what is left open: authorization can only reject, which `Fault` covers.

### Migration

One iteration of the loop in `Migrate` is a transaction: `Begin`, `AcquireLock` (`pg_advisory_xact_lock`),
`ReadVersion`, `RunStep` for each function of the version, `InsertVersion`, `Commit`. What a step's SQL
does is abstracted to a count of the steps that have been executed, which tells a missing, a partial and a
repeated version apart. `Fault` is an error or a crash at any point, `Restart` the platform starting the
process again after the panic in `main.go`. The column `version` is unique.

### Links

`Create` reads both ends and compares their spaces (`CreateLoad`), takes the lock of the space
(`AcquireLock`), validates the topology (`ValidateTopology`) and inserts (`InsertLink`: the foreign keys, which do
find soft-deleted work items, and the unique index, which skips deleted links). `Delete` finds the link,
locks and deletes it; deleting a work item reads its links, locks and deletes them with the work item. A
link that was deleted in the meantime is skipped without a revision. What the topology checks read is a property of
the whole graph, and only the advisory lock keeps it true until the insertion; that is what
`ImplementsLinkGraph` says.

### Work items

The fields of a work item are abstracted to the set of changes they contain, each named by the version it
produced: a lost update is then a version whose set has a hole. `Save` and `Reorder` decide by the `WHERE
version = ?` of their update; `Reorder` handles several work items in one transaction and may meet the
same one twice. `NextVal` is the upsert that locks the row of the space until the end of the transaction.
`DeadlockVictim` is PostgreSQL's deadlock detection (external).

### Order

Each lookup is modelled as its SQL is written: the subquery looks at all rows of the space, the query
around it at live rows of all spaces. `RankedList` keeps the open requests beside the list, so that
`ImplementsRankedList` compares every accepted request with what exactly that request asked for. Orders are integers, `OrderValue` apart, instead of doubles 1000 apart.

### Transactional

The goroutine executes statements, may ask the pool for a second connection (`Reorder` in
`controller/workitems.go` queries `c.db` while its transaction is open), and reports through a channel
with room for one. The timeout can come at any time after the transaction has begun. After it, a statement of the goroutine
fails, or panics since the transaction's `db` is nil; `recover` turns it into a report nobody receives.

### Iterations

An iteration is a row with a path. `CreateChild`, `Update` and `Delete` are cut between the transaction that loads and the one
that writes, and between the checks (`CanStart`, `ParentAllowed`) and the writes of the latter. `UpdateSave` moves a
subtree as the code does, by making every descendant a child of the moved iteration; `DeleteApply` moves the work
items of the subtree to the parent and deletes the rows. `Home` is the space of a work item; an assignment does not compare it with that of the
iteration, so a work item may be in an iteration of the other space, which no list counts, since `getAllIterationWithCounts` asks for the space's own work
items (`Assigned`, `workitem_repository.go:966`). `overlap` records that two requests have been under way at
once: what the code does not protect is claimed for requests one after another only (`Serial...`).

### Remote trackers

A cron entry remembers the schedule it was made for, and its closure the variable that all closures of a call share:
`ScheduleAllQueries` adds entries to those that are there. A job fetches items (`NextItem`: an item, an error or the end
of the channel), and imports each in one transaction: `Upload`, the identity of the creator, `Existing`, `Write`.

### Spaces and codebases

A request is a chain of transactions and remote calls. A remote call may fail with or without having taken effect, and the
process may stop between two steps; `MaxFaults` bounds how often. `unrolled` records that the compensation in `Create`
itself has failed. Deleting a space lists its codebases and deployments over HTTP, deletes them one by one, and
compares the owner in the transaction that deletes the row.

### Search

`Parsed` is the set of queries that the orders of Go's maps can give for a document. `Expression` and `VisitDepthFirst` translate it to
conditions and joins, which `Rows` evaluates with three-valued logic and one row per joined partner. The joins do not ask for `deleted_at`: `linkRows`
keeps every parent link an item ever had, and an item whose link was deleted and made again is found once for each of them under `parent.number`, also under the
parent it no longer has. `label: null` asks whether the key is missing: `None` is a missing key, which a list that `Save` empties leaves, and `{}` a
stored empty list, which `Create` and `Reorder` leave; `FoundOnce` and `MatchesMeanTheFilter` name both. A request is cut between
filter and completion of the tree, an export between its windows, while work items are created and deleted and links deleted and made.

### Deployments

What is computed from one answer (`DeploymentViews`) is asked about from a set of objects, `Questions`; the requests of
`Deployments` read the deployment config, its controllers and the scale in separate calls while the cluster rolls out,
scales and cleans up.

`EventWatch` is the handler of the web socket. Its events come from client-go: a `Reflector` lists and watches, and puts what it learns into
a `cache.NewFIFO` keyed by `MetaNamespaceKeyFunc` (`deployments_kubeclient.go:2350-2367`). An event that is still queued is replaced by its update (`Deliver`)
and dropped by its deletion, and a list after a broken watch replaces what is queued, in the order of a Go map (`Relist`; a test of the repository,
`deployments_kubeclient_blackbox_test.go:2103-2107`, says so too). So neither an order between events nor every state of an event is promised; the newest state of each
is. Assumed of client-go are that a list is not older than what the watch before it told, and that a `Pop` that waits notices `Close`.

### The smaller resources

`MCResources` puts ten components into one run. They share nothing, so that one of them moves in a behaviour (`moving`)
and the others keep their initial state: the states add up instead of multiplying.

- `Comments`: load and check in one transaction, write and revise in another; gorm's `Save` of a row that is deleted inserts and
  fails. `CommentCount`, three goroutines and an unbuffered channel, is in the run `deployments`, since its liveness needs a small graph.
- `LabelsAndQueries`: load, compare the client's version, save the whole row; the partial unique indexes.
- `Areas`: parent, number (which locks the row of the sequence until the end), insertion.
- `Users`: the services and logins that write whole rows of users and identities; deletion by name. A user may have several identities (`Associate`),
  and `Lookup`, which the import of trackers calls, makes identities that have none; a login refuses those, an update skips their user. `Obfuscate`
  loops over all identities, gives each the same profile, and is rolled back by the unique index if there are two.
- `FieldTypes`: a value is a record of its Go type and of what it says. `ConvertToModel`, `ConvertFromModel`, conversion to a string and the
  change of type are defined per kind as in the code; JSON changes types on the way to the table and back. What a change of type drops is collected
  by label (`FieldNameValues`), which fields may share; the meta-state is left alone.
- `TemplateImport`: releases of two templates, imported by two replicas in any order, with failures; caches.
- `Paging`, `ItemPatch`: clients that follow links and patch, while rows change.
- `CsvExport`: windows of a list from which items are deleted meanwhile. Links to children are read only for items that have a child in the same
  window (`LinksOf`, `search_repository.go:858-874`), but then all of them.
- `ItemList`: the children of the iteration are read in a transaction of their own, whose error is ignored (`MakeExpression`), the tree changes
  (`ChangeTree`), and the list is read (`ListItemsFromDB`).

## The runs

| run | instance | states | what it shows |
|---|---|---|---|
| `migration` | 3 processes, 3 versions, 2 faults | 64,996 | versions and schema agree, no gaps, no duplicates, everybody gets through, an atomic history is implemented |
| `links` | 3 work items in 2 spaces, 2 links, tree, 2 requests that create and delete links and delete a work item | 131,498 | single parents, no cycles but self-links, links stay inside a space, revisions tell the life of a link, `LinkGraph` is implemented, every request is answered |
| `work_items` | 2 work items, an update each besides reordering, 2 requests | 224,686 | no lost update, dense numbers, truthful revisions, `ItemHistory` is implemented, every request is answered, deadlocks included |
| `order` | 3 work items, 2 spaces, 3 moves, 1 client | 515,143 | until something is deleted the orders are distinct and implement `RankedList`; then a move still ends on the right side |
| `transactional` | 2 calls that both nest, pool of 2, 2 statements | 2,868 | all or nothing, errors mean nothing stored, every call is answered, every goroutine ends |
| `iterations` | 5 iterations, 2 spaces, 1 work item, 2 clients, 4 requests | 541,912 | paths stay in their space, nothing deleted comes back; without overlap a tree stays a tree, one iteration runs, work items keep an iteration, and a space's list counts its own work items |
| `trackers` | 2 queries, 2 trackers, 2 remote items, 2 jobs, 2 calls | 440,675 | imports are whole, attributed to the right query, without duplicates when they do not overlap, and end |
| `spaces` | 2 users, 2 spaces, 3 codebases, 2 clients, 3 requests, 1 fault | 403,010 | spaces have their resource, deleting takes codebases and deployments along, owners only, nothing comes back |
| `search` | 5 work items, 4 links, filters of every operator, 2 changes per request, 2 clients of the URL table | 1,458,991 | parsing does not depend on map order, joins are in order, matches mean the filter, each once but for named reasons; trees and exports are complete |
| `deployments` | 2 roll outs, 2 clients, 1 build; 2 events, 3 changes of them, 2 lists; 2 comments; some 100 questions | 480,543 | the newest ready deployment is shown and never an older one again, limits, usage, routes, series and permissions are right, a watch delivers the newest state of each event and ends, the comment count is right and ends |
| `resources` | one component at a time, 2 replicas or sessions each | @@RES@@ | the properties of the smaller resources |

What a run checks is a few properties, most of them conjunctions of parts that the modules state and explain one by one:

| run | properties and their parts |
|---|---|
| `migration` | `MigrationSafe` (`SchemaMatchesVersions`, `NoGaps`, `DoneMeansCurrent`, `NoDuplicateVersion`), `EventuallyDone`, `ImplementsHistory` |
| `links` | `LinksSafe` (`TreeHasSingleParents`, `NoCyclesButSelfLinks`), `LinksTruthful` (`NoCrossSpaceLinks`, `RevisionsTellTheStory`), `ImplementsLinkGraph`, `RequestsAnswered` |
| `work_items` | `WorkItemsSafe` (`NoLostUpdate`), `NumbersAreDense`, `RevisionsFollowVersions`, `ImplementsHistory`, `RequestsAnswered` |
| `order` | `OrdersAreRight` (`DistinctOrders`, `EndsUpWhereAsked`), `ImplementsRankedList` |
| `transactional` | `TransactionsSafe` (`AllOrNothing`, `ErrorMeansNothingStored`), `CallsAnswered`, `WorkersEnd` |
| `iterations` | `PathsAreSound` (`PathsStayInSpace`), `SerialConsistency` (`SerialTree`, `SerialOneRunning`, `SerialAssignments`, `SerialCounts`), `DeletedStaysDeleted` |
| `trackers` | `ImportsAreSound` (`ImportedAsAWhole`, `AttributedToItsQuery`, `SerialNoDuplicates`), `ImportsEnd` |
| `spaces` | `SpacesAreSound` (`LiveSpacesHaveResources`, `SerialCodebasesGone`, `SerialUndeployed`), `OwnersEndLives` (`OwnersOnly`, `DeletedStaysDeleted`) |
| `search` | `FiltersMeanWhatTheySay` (`ParsedAlike`, `JoinsInOrder`, `MatchesMeanTheFilter`, `FoundOnce`), `AnswersAreComplete` (`TreeIsConnected`, `ExportIsComplete`, `OwnUrlsAreKnown`, `ExportAdvances`) |
| `deployments` | `ViewsAreRight` (`ScaleReportsWhatItReplaced`, `CurrentIsNewest`, `RunningMeansReady`, `CallsAreChecked`, `AuthorizedIsGranted`, `OtherUsageIsTheRest`, `MemoryLimitsAgree`, `BestRouteIsLexicographic`, `SeriesIsNewest`, `MetricsAreOfTheirCluster`), `ShownMovesForward`, `WatchIsReliable` (`NewestIsNotLost`, `SentMovesForward`, `NewestIsSent`, `WatchEnds`), `CountIsReliable` (`TotalIsShown`, `CountEnds`) |
| `resources` | `CommentsAreAccountable` (`RevisionsTellTheBody`, `OnlyCollaboratorsModerate`), `UpdatesAreExact` (`NamesAreUnique`, `NothingElseChanges`), `AreasAreSound` (`AreaNumbersAreDense`, `AreasAreATree`), `UsersAreConsistent` (`UsersAreSound`: `IdentitiesFitUsers`, `SerialForgotten`, `SerialGone`, `SerialSpacesHaveOwners`; `IdentitiesStay`), `FieldsSurvive` (`ItemsStayReadable`, `ShownCanBeExported`, `EventsReplay`, `LostIsDescribed`, `AlikeFieldsAreKept`), `TemplatesAreConsistent` (`TablesAreOfOneRelease`, `ItemsFitTheirType`, `LastImporterIsUpToDate`, `FieldsStay`), `PagesAreConnected` (`LinksLeadToTheirRows`, `WalksSeeAll`, `NextGetsFurther`), `LinesAreRight` (`CellsFitTheHeader`, `NumbersAreRight`), `PatchesAreExact` (`OrdersAgree`, `AlwaysPlaced`, `OnlyNamedChange`), `ListsAreRight` (`ListedAreWanted`, `TotalIsComplete`) |

Why these bounds: two requests are enough for every pairwise race, and the interesting ones here (check
then act, stale read, circular wait) are pairwise; three processes in `Migration` let one overtake a
crashed one while a third waits. Two links among three work items allow for a second parent and for a cycle of two, and
longer cycles are the proof's. In `work_items` every work item can be created, updated, reordered and
deleted while the other request does the same; longer histories are the proof's. Three moves with
an order distance of 8 is as many as midpoints stay exact. Two nesting calls on a pool of two can exhaust
it, and one call that nests keeps the other from beginning. Five iterations are two roots and a chain of three, so that a subtree with a
grandchild is moved and deleted. A page of two and three codebases let the page be too small. The
releases of `resources` add, rewrite, narrow and remove fields and values, once each. Two users and two identities give a user two
identities, an identity without a user, and two logins with one name; there is one spelling of the name, and after requests have overlapped and somebody was deleted they come one at
a time (`UsersBound`). Two events that change three times can be coalesced, dropped and made again, and the second list meets a queue that is not empty. Four links,
three of them from the start, let one item be linked to its parent again. A type of `resources` has two fields with one label.

One run shows that the code does not do what a comment says: in `deployments_cpu` the limit on CPU of a container is
looked up under a key that no container has, and the default replaces it.

More of the same kind is stated beside the properties of the modules and refuted by TLC when it is added to the configuration (with two clients
where it takes two): a work item can be linked to itself in a tree (`NoCycles`, `link_repository.go:113`); a link created while
one end is being deleted outlives it (`NoLinksOfDeletedItems`, `:364`); a work item whose parent link was deleted is not
listed as parentless (`ParentlessAreListed`, `workitem_repository.go:800`); two work items created at once get the
same order (`DistinctOrders`, `:711`); a move next to a target whose neighbour was deleted goes past live work items (`PlacedNextToTarget`,
`:403`); two iterations started at once both run (`OneRunning`, `iteration.go:290`); the count of one iteration includes deleted
work items (`DeletedNotCounted`); the cron entry of a query imports another one
(`EntriesRunTheirQuery`, `scheduler.go:57`); codebases beyond the first page survive their space (`CodebasesGone`, `space.go:283`);
a work item with two of the labels asked for is counted twice (`CountsMatches`, `search_repository.go:723`); a
permission granted by two rules is not found (`GrantedIsAuthorized`, `deployments_access.go:336`).

Some properties hold with exceptions that they name, each of them something the code does against its documents or what one expects: a list with an assignee and an
iteration has what others have in the child iterations (`Stray` in `ItemList`, `controller/workitems.go:202`, against `design/workitems.go:197`), and leaves the
children out when reading them has failed (`Missed`, `:196-199`); of two dropped fields with one label only the last is described (`LostIsDescribed`,
`workitem_repository.go:1273, 1301`); an item found under an old parent or twice (`FoundOnce` in `Search`, `expression_compiler.go:229-235`); children that
an export leaves out (`NumbersAreRight` in `CsvExport`).

Seen while modelling and not stated: a link to a *soft-deleted* work item of
another space is accepted (`link_repository.go:221`); `is_root` of an ancestor counts deleted links
(`link_repository.go:617`); the first work item created after the topmost one was deleted gets order 1000
(`workitem_repository.go:345`); the revision of a deletion may show an older version than the
row (`workitem_repository.go:366`); a user with two identities cannot be obfuscated, since both get the same profile, which
is unique (`controller/users.go:134-138`); the deletion by name "collects all identities" of one identity, as the filter has a `LIMIT 1`
(`account/identity.go:254`); the first link of a page that begins at a multiple of its limit has limit 0
(`paging.go:89`).

### Fairness

`Migration`: processes run and are restarted; PostgreSQL queues the waiters of an advisory lock, so a
process that waits again and again gets it (strong fairness). `WorkItemLinks`, `WorkItems`: a request that
is being served goes on, locks are granted in turn; nothing makes requests arrive. `Transactional`: the
timer fires, goroutines are scheduled, a function that has executed its statements returns, and
`database/sql` hands connections to waiters in order. `TrackerImport`: a job that cron has started goes on; its
tracker answers, or fails, in the end. `EventWatch`: the handler, its goroutine and the reflector's are scheduled, and a watch delivers; nothing makes events
come, a watch break or the client leave. `CommentCount`: the request, its goroutine and the transaction's go on, and
the timer of the transaction fires. Faults are never fair. Deadlock checking is off only
where the bounded supply of rows, requests or events can simply be used up (`links`, `iterations`, `trackers`,
`spaces`, `deployments`, `resources`).

## The proofs

| theorem | for every | by |
|---|---|---|
| `MigrationTypeCorrect`, `MigrationSchemaMatches`, `MigrationNoGaps`, `MigrationDoneMeansCurrent`, `MigrationNoDuplicateVersion`, together `MigrationIsSafe`; `MigrationFollowsHistory` | number of processes, versions, steps, faults | `IInv` of `OperationsProofs` |
| `LinkGraphSafe` | set of work items, spaces, types | induction on the steps of `LinkGraph`, in `WorkItemLinksProofs` |
| `LinksTypeCorrect`, `LinksRefineGraph`, `LinksTreeSafe`, `LinksCycleSafe`, together `LinksAreSafe`; `LinksAreTruthful` | number of requests, links, spaces, types | `IInv` and `TruthInv` of `WorkItemLinksProofs` and the refinement |
| `WorkItemsTypeCorrect`, `WorkItemsNoLostUpdate`, together `WorkItemsAreSafe` | number of requests, work items, spaces | `IInv` of `WorkItemsProofs` |
| `WorkItemNumbersAreDense`, `WorkItemRevisionsFollowVersions`, `WorkItemsImplementHistory` | number of requests, work items, spaces | `HInv` of `WorkItemsProofs` |
| `OrdersOfOneClient` | number of work items, spaces, moves, work items in a request | `OrderInv` of `WorkItemOrderProofs` |
| `TransactionalTypeCorrect`, `TransactionalAllOrNothing`, `TransactionalErrorSafe`, together `TransactionalIsSafe` | number of calls, statements, connections | `TransactionInv` of `RequestProofs` |
| `PatchesAreExactAlways` | number of clients, requests, users, labels, iterations, areas, repositories | `PatchInv` of `RequestProofs` |
| `ListsAreRightAlways` | items, filters, trees of iterations, also those that change meanwhile | `ListInv` of `RequestProofs` |
| `ExportedLinesAreRight` | types, items, links, windows | `CsvInv` and `CompleteInv` of `RequestProofs` |
| `ShownTotalIsRight` | number of comments | `CountInv` of `RequestProofs` |
| `IterationPathsAreSound`, `DeletedIterationsStayDeleted`, `IterationsSerialConsistency` | number of iterations, work items, requests, spaces | `IInv` and `SInv` of `IterationsProofs` |
| `CommentHistoriesAreAccountable` | number of comments, authors, requests | `CInv` of `ResourcesProofs` |
| `LabelAndQueryUpdatesAreExact` | number of labels, queries, requests | `RInv` of `ResourcesProofs` |
| `SpacesStaySound`, `OnlyOwnersEndLives` | number of users, spaces, codebases, requests, faults | `SpacesInv` of `ResourcesProofs` |
| `PagesStayConnected` | rows, offsets, limits, page sizes | `PagingInv` of `ResourcesProofs` |
| `ImportsStaySound` | number of trackers, queries, remote items, imports | `IInv` of `TrackerImportProofs` |
| `UsersStayConsistent` | number of users, identities, names, requests | `UInv` of `ResourcesProofs` |
| `AreasStaySound` | number of areas, names, requests | `AreasInv` of `IterationsProofs` |
| `ShownNeverStepsBack`, `DeploymentRequestsAreRight` | number of clients, roll-outs, replicas, builds, requests | `DInv` of `OperationsProofs` |
| `WatchForgetsNothing` | number of events, changes, lists | `WatchInv` of `OperationsProofs` |

They assume what the modules assume of their constants (the named `ASSUME`s, evaluated by every run), nothing else: mostly
that bounds are numbers and that the values that stand for "nothing" are no values of the kind they stand in for (a
missing row is no row, in `Users`; `None` is no object of the cluster, in `Deployments`), in `ItemPatch` that `Null` is no
description, in `Deployments` that there may be a roll-out and a replica, in `Iterations` that there is a name to give, and in `Spaces` that the identifiers
of codebases, which are uuids, are finitely many, so that they can be counted. `ItemList` and
`CsvExport` have finitely many items and fields, whose numbers and labels can be compared. `OrdersOfOneClient` has two hypotheses
of its own: `Alone`, since what it says is false for two clients (an order is computed from rows that no lock protects), and `CanBeHalved`, that
`OrderValue` has a factor of two for each move, which is how long the midpoints of doubles are exact as well.

- **Migration.** None of the invariants is inductive. `IInv` adds that the rows are a prefix of the versions,
  that whoever is past `AcquireLock` holds the lock, that what the holder read is still current, and
  what its open transaction contains: no commit of another process can come in between. Hence every commit
  adds the version after the last one, which is the step of `MigrationHistory`; that it does so until the newest is liveness and left to TLC.
- **Links.** A cycle is a property of the whole graph, so safety is proved on the abstract `LinkGraph`: a set
  closed under parents separates what is above the new link from what is below it
  (`AncestorClosed`), and adding an allowed link closes no cycle. `WorkItemLinks` is then shown to implement
  `LinkGraph`; the heart of its invariant is `StillAllowed`: between validation and insertion the holder of
  the lock stays entitled to insert, since other requests can only remove links of the space. `TruthInv` adds what
  the revisions need: an identifier that was not used has none, and the ends that a creation has
  checked stay in one space.
- **Work items.** `IInv` says of every copy in memory that it contains all changes up to the version it was read
  with, of every pending write that its transaction holds the lock of the row and started from the committed
  one (`PendingOK`), and of the revisions that their versions grow from the committed ones to the pending ones
  (`HistoryOK`). So when `Save` or `Reorder` finds the client's version to be the current one, the copy is not
  stale, and at the commit the revisions join up: `NoLostUpdate`.
- **History of work items.** `NoLostUpdate` leaves open how a commit changes a work item. `HInv` adds what a transaction can
  look like (`TransactionsOK`): one creation with the number that its lock on the space's counter reserves, or one update or
  deletion of a live row, or the updates of a reorder request, each the successor of the one before. Of each
  shape the commit is then one step of `ItemHistory`, or several of them for different work items; numbers stay
  dense because only the holder of the counter's lock has a number that is not committed.
- **Execution order.** That orders are distinct is not inductive: a move between two neighbours needs a number between them. `OrderInv` says how fine the
  orders have become: after m moves each is a positive multiple of `OrderValue` halved m times, so the midpoint of two of them is exact and
  lies strictly between. Of a request it says that what its queries have found is still so in its view of the table, that the order it has computed
  belongs to no other work item as long as nothing is deleted, and that it is on the side of the target, or at the end, that the request names (`AsAsked`).
  The commit makes the view the table. That a set of orders has a largest and a smallest element comes from the well-foundedness of the naturals.
- **Transactional.** `TransactionInv` ties the report in the channel, the outcome of the transaction and what is
  stored together: nil is reported only when all statements have been executed, and a transaction that has ended stays so.
- **Attributes of a request.** Go visits the attributes of a request in any order. Each of them writes a field of its own, except that the
  description and its markup write two parts of one field; `AllAttributes` says what the loop has made of the item, the fields that were met being
  those in the order so far, and hence the same for every order (`ConvertedInAnyOrder`). `PatchInv` says of the stored item, and of every copy that
  a request has loaded, what an item looks like, and that a copy with the version of the stored item is the stored item. So a request that finds its
  version current changes the stored item, and by what it names (`SavedAsNamed`).
- **Lists.** What is evaluated for each row is the expression that was made of the filter and the children (`ListInv`). It says what the filter means, but that
  children of an iteration are alternatives to an assignee; and the children are those of the iteration unless reading them failed or the tree has changed since
  (`ChildrenKnown`), which are the exceptions that `Stray` and `Missed` name. Rows are found once each, so they are as many as are wanted, and a page is a part of them (`PageOfFound`).
- **CSV export.** A field whose label no other field has keeps its column, however the columns are made: the labels are sorted, so all orders put it behind the
  same labels. `CsvInv` says it of each line, and that the links of a window join items with their parents and that the cache gives an item its own number. `CompleteInv` adds what the
  links leave out: nothing of the parents, and of the children all or none, none only if the window has none of them; lines of earlier windows stay as they are.
- **Number of comments.** `CountInv`: as long as nothing has failed, the goroutine closes the channel only after its number went through.
- **Iterations.** A save writes whole rows, so the table is only as sound as what requests have read: `IInv` says of the table and
  of every row that a request carries that its path starts at the root and stays in the space, whatever overlaps. (A deleted
  iteration stays deleted because a save must find its rows live.) `SInv` adds, as long as nothing has overlapped, that at most
  one request is under way and that what it has read is what the table has; then each save and each deletion of a subtree
  takes a tree to a tree. The counts follow from the tree: what is below an iteration is what has it in its path, and lies in its space.
- **Comments.** `CInv` follows a request from its load to its commit. One that has written holds the lock of the row and found it live, so
  nobody has changed it since; one that goes on without the lock deletes a comment that is deleted already. The last
  revision therefore has the body of the row.
- **Labels and queries.** `RInv`: versions only grow, and a request holds a copy of the row as it was with the version it carries. A save that
  finds this version therefore overwrites nothing that its client has not seen, and the unique index is checked in the same step.
- **Users.** `UserBindings` says that the users of the identities in the table, and of those that requests have loaded, have been created: identifiers of users are
  given once, so a new user has no identity yet. `NobodyGone` says that, as long as nobody was deleted, every user has an identity, and an identity that a request
  carries has the same user in the table; so a row that is written back takes no identity away. `UserSerial` adds, without overlaps, that what a
  request has loaded is what the tables have; then obfuscation and deletion reach all identities that the user has.
- **Spaces.** Rows are never removed, a space keeps its owner and a codebase its space, and what is deleted stays deleted (`Persist`). What a request knows of
  rows is of this kind (`RequestOK`): who is to delete a codebase is the owner of its space, who is to delete a resource has seen its space
  deleted, a copy of a codebase is live and in the codebase's space. So it stays true whatever the others do, which gives the resources of live spaces and
  `OnlyOwnersEndLives`. What a deletion has cleaned up (`CleanedUp`: the live codebases are on the page that was read, or do not fit on one; the deployment
  config is gone) stays so only while it is alone.
- **Pages.** A page that is shown has room for a row, whatever was asked for, and a walk has seen an interval of rows that ends with the page (`PagingInv`).
  The links that jump are computed by division; its quotient and remainder (`Division`) place the last row on the page they lead to, also after it
  was cut at the first row.
- **Trackers.** An import looks up the staging row, the identity and the work item in separate steps and writes in a later one. `IInv` says that what it
  has found is still so when it writes, since staging rows and identities are never removed and a work item keeps its space and its
  remote item, and that, as long as it is the only import, what it has not found is still missing (`Serial`).
- **Areas.** `AreasInv` says that the path of each area is that of its parent and its own number, and that whoever is about to insert holds the lock of
  the sequence, so that its number is still the next one. That the loop which resolves a path finds all names is about a recursive function: the
  names above an area satisfy the equation of the function, and there is no first place where the two differ.
- **Deployments.** A request that has chosen its controller may be overtaken by any number of roll-outs, so what it is compared with, the controller that
  was shown when it started, is part of the invariant: it is in the cluster or went with its config (`KnownIn`), and if the request has
  found an earlier one it has failed (`NoStepBack`), which is final. That the choice has this property rests on two facts: the versions of a
  config's controllers are 1, 2, ... in the order of their creation (`VersionsAreCounted`), and the loop of
  `getMostRecentByDeploymentVersion` keeps the largest version in whatever order it meets the controllers (`NewestIsKept`). What is read of the scale stays true
  until the config gets a new resource version (`ScaleIsCurrent`), and then the API server refuses the write.
- **Event watch.** `WatchInv` follows each event on its own. What was sent of it, was popped, is held by the FIFO and is on the wire grows from one to the next
  (`VersionsGrow`, `WireIsNewer`), so nothing that is sent steps back; the last change on the wire is the event as it is (`WireIsFresh`), and if there is none the FIFO
  has it, or has been emptied of it by a `Pop` (`StoreIsFresh`). An item of the FIFO always has its key in the queue (`ItemsAreQueued`), wherever a list put it.

Each inductive invariant was first checked by TLC on the instance of the component's run.

Only model-checked:

- liveness (`EventuallyDone`, `RequestsAnswered`, `CallsAnswered`, `WorkersEnd`, `ImportsEnd`, and what `WatchIsReliable`, `CountIsReliable` and the
  `ImplementsHistory` of `Migration` say of fairness), which is out of the prover's reach;
- that `WorkItemOrder` implements `RankedList`, whose list is a sequence that is sorted and rebuilt by recursive definitions; `Search`, whose expressions
  are walked by recursive operators; `TemplatesAreConsistent`, where types are folded over in some order; `FieldsSurvive`, whose values are lists that are converted element by element. The library's induction theorems take an
  operator as a parameter, which no installed prover can instantiate. Where one function or fold is in question, the least argument at which it goes wrong does instead
  (`SmallestElement`, as for `Areas`, `NewestIsKept` and `AllAttributes`); here there are many, one inside the other;
- the parts of `ViewsAreRight` about a single answer of the cluster (sums, sorted sequences and scores of pods, routes, rules, buckets and quotas):
  they hold or fail in the initial state and no step is involved, so TLC's enumeration of answers is the natural check.

## What is not modelled

- The HTTP layer, rendering of markup, logging, metrics, configuration and the generated code: no state of the system.
- Authorization, where it can only refuse a request; where a check decides what may be changed (owners, collaborators, permissions
  in a cluster) it is modelled.
- The clients of GitHub, Jira, Che, the auth and the tenant service beyond what their answers do to our state.
- In `Search`: the joins of areas, codebases, creators, boards and tracker queries, which are like those that are modelled; ranking
  of full text; a CSV export with an explicit page limit.
- Notifications, which are sent and forgotten, and `actions/`, which nothing calls (and whose
  `ExecuteActionsByOldNew` passes the new context as the old one).
- Malformed answers of the cluster, which every reader turns into an error.

The components and the reason for each are in `PROJECT.json`.

## Plan

1. Abstract specifications: a tree of iterations that `Iterations` implements while requests do not overlap; a table of
   versioned rows for labels, queries and work items.
2. A proof that `WorkItemOrder` implements `RankedList`, from `OrderInv` and lemmas about sorted sequences, and proofs about `Search` rewritten with recursive functions.
