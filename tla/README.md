# A verification of the kafka2mqtt-manager

The manager runs *instances*: for each one it keeps a container that forwards
filtered messages of a Kafka topic to an MQTT broker. Clients create, update and
delete instances over HTTP. This directory holds TLA+ modules of the manager's
control, the TLC configurations that check them on small instances, and theorems
that TLAPS checks for every value of the constants.

## 1. Inventory

### 1.1 Components

| Component (source) | State | Operations |
|---|---|---|
| Request handlers, `pkg/controller/instances.go` | none between requests; locals of the goroutine of a request | `CreateInstance`, `SetInstance`, `DeleteInstances`, `ReadInstance`, `ListInstances`; `getEnv`, `refreshConsumerGroupId` |
| Startup, `controller.migrate`, `EnsureAllInstancesDeployed`, `pkg/init.go` | locals | register unknown instances and remove unknown resources in permissions-v2; redeploy missing containers |
| Instance collection, `pkg/database/mongo` | the documents | `ListInstances`, `GetInstance(s)`, `SetInstance` (an upsert), `RemoveInstances` |
| DeploymentClients, `pkg/deploy/{dockerClient,rancher-api,rancher2-api}` | the containers, in the platform | `CreateContainer`, `UpdateContainer` (remove, then create), `RemoveContainer`, `ContainerExists` |
| permissions-v2 (external client) | resource id -> permissions | `CheckPermission`, `CheckMultiplePermissions`, `SetPermission`, `RemoveResource`, `GetResource`, `AdminListResourceIds` |
| HTTP API, `pkg/api` | none | decode, route, call the controller, encode; forwards the generated permission endpoints |
| Verification, `pkg/verification` | none | asks device, pipeline and import services whether the filtered thing exists |
| Process, `main.go`, `pkg/init.go` | WaitGroup, context | start, end by a signal, by `log.Fatal` or by a crash |
| Model, configuration, helpers, logger, CORS | none | - |

### 1.2 How they interact

`main` calls `lib.Start`, which connects MongoDB and the platform, builds the
controller (its constructor runs `migrate`), runs `EnsureAllInstancesDeployed` if
configured, and only then starts the HTTP server. From then on `net/http` runs a
goroutine per request. The controller has **no lock and no state of its own**: two
handlers meet only in the database, on the platform and in permissions-v2, and a
handler is a sequence of calls on these three, any of which can fail, with or
without having had its effect:

| Request | Calls, in their order |
|---|---|
| POST | (verify) create and start container; upsert document; set permission (error ignored) |
| PUT | check permission; read document; (verify) remove container by the id read; create container; upsert document |
| DELETE | check permissions; read documents; for each: remove container by the id read; remove document; remove permission (error ignored) |

What makes this hard:

* **Concurrency without locks.** PUT and DELETE act on a copy of the document read
  several slow calls earlier. What keeps two of them apart is an accident of the
  platform: docker's container ids are unique, so only one of them gets through
  removing the container. Rancher2 addresses a workload by its name, and there
  nothing keeps them apart.
* **Partial failure.** Nothing is rolled back. A container without a document, a
  document without a container, a taken name or a forgotten permission stays.
* **Restart.** A signal does not wait for running handlers (`main` waits for MongoDB
  and docker only), and startup is what repairs, or fails to repair, what is left.
* **Two names for an instance.** The id with its prefix, and the bare one that
  `CreateInstance` hands to `SetPermission`.

### 1.3 What makes each component correct

* Handlers: requests look atomic to a client (`Implements`); a deleted instance stays
  deleted (`NoResurrection`); what runs is what is stored (`DeployedMatchesRecord`,
  `FaultFreeConsistency`, `UpdatesAgree`); no container is left without its document
  (`ContainersOwned`); only one request at a time replaces a
  container (`SoleHolder`); every request ends (`RequestsEnd`).
* Startup: permissions-v2 is reconciled with the collection (`MigrateReconciles`),
  nobody loses access (`GrantsLast`), the API is served in the end
  (`ServesUnlessNameTaken`), every missing container is restored (`AllRestored`: refuted; `OwnNameServed`).
* Permissions: the creator has access (`CreatorHasAccess`: refuted).
* `getEnv`: what was accepted once is accepted at every startup (`StoredAccepted`), a redeployment
  forwards what the last PUT did (`RedeployEquivalent`), below the owner's topic (`OwnersTopic`).
* Consumer groups: in the group a PUT has chosen no message that the filters pass is skipped (`CoveredAtHome`;
  in others one may be, section 5.2), a new offset counts (`OffsetTakesEffect`).
* Deployment clients: concurrent calls have the effects of the atomic operations the
  controller relies on (`ImplementsDeployment`, `DockerServes`), one removal is reported once
  (`OneRemoval`, `RemovedOnce`), nothing that runs is denied (`NeverMissed`); on rancher1, where
  neither names nor generations protect an instance, documents and services agree all the same (`Rancher1Agrees`).
* HTTP API: a status code means what it says, a repeated POST is bounded in its damage
  (`AnswersHold`); pages are complete (`PagesServed`; they may hold too much, section 5.2).
* Process: it ends after a signal (`EndsAfterSignal`) and cuts requests in two only then
  or when its server fails (`CutOnlyAtEnd`); the environment overrides the configuration file (`EnvironmentWins`).

The list of hazards, each at its line and with the properties that would catch it,
is in `PROJECT.json`.

## 2. Modules

| Module | Content |
|---|---|
| `Registry` | the abstract specification: an atomic collection with add, replace, remove |
| `Platform` | the three external services: their state, the calls the manager makes, the ways these fail |
| `Manager` | handlers, startup, process end; the properties; the refinement mapping to `Registry` |
| `Paging` | the loop by which both startup passes read the collection in batches sorted by name |
| `Deployment` | the abstract specification of a DeploymentClient: the container operations of `Platform`, by anybody at any time |
| `DockerClient` | `pkg/deploy/dockerClient`, one action per call on the daemon; the mapping to `Deployment` |
| `Rancher2` | `pkg/deploy/rancher2-api`, one action per HTTP request; the mapping to `Deployment` |
| `Rancher1` | `pkg/deploy/rancher-api` with the controller's calls on it, startup and crashes |
| `Env` | `getEnv` and `refreshConsumerGroupId` as functions of an instance |
| `Forwarding` | `Env` composed with the container it configures and its Kafka consumer group |
| `Api` | status codes and effects of the requests one after the other, batch deletes, a repeated POST |
| `Listing` | `GET /instances` page by page while the collection changes |
| `Lifecycle` | `main`, `lib.Start`, the WaitGroup, signals, the server's shutdown |
| `Config` | the loading of the configuration, with the names of its environment variables |
| `MCManager`, `MCPaging`, `MCForwarding`, `MCClients`, `MCProcess` | the instances for TLC |
| `ManagerInv` | the inductive invariants: `Shape` and `Common` for both modes, `IInv`, `FInv`, `GInv` for docker, `AInv` for requests that take turns |
| `ManagerProofs` | proofs: types and shape for both deployment modes, then for docker `IInv`, `FInv` and what follows from them |
| `ManagerGrants` | proofs: `Common` and what follows from it in both modes; `GInv`, permissions and the refinement for docker; these again for both modes where requests take turns |
| `ForwardingProofs` | the theorems about `Forwarding` |
| `PagingProofs` | the theorems about `Paging` and `Listing` (`MCPaging`) |
| `DockerProofs`, `Rancher1Proofs` | the theorems about `DockerClient` and `Rancher1` by themselves |
| `ClientsProofs` | the theorems about `Rancher2`, and those of the other two for the program with either client (`MCClients`) |
| `ProcessProofs` | the theorems about `Lifecycle`, `Api` and `Config` (`MCProcess`) |

How they are put together:

    Registry  <--- Manager ---> Platform <--- Deployment <--- DockerClient
    (implements)   |   (extends)      (extends)  (implement)  Rancher2
                   Paging (its loops)                         Rancher1 stands alone
    Env <--- Forwarding

`Manager` uses a client through the atomic operations of `Platform`, and the clients are
shown to be no worse than these operations. `MCPaging`, `MCClients` and `MCProcess` each hold
modules that share no state: an initial state chooses the one that acts, the others rest. In
`MCClients` this is the program's own choice by `conf.DeployMode`, in `MCPaging` startup or a
client reads the collection, in `MCProcess` the process loads its configuration, runs or
answers.

### 2.1 State of `Manager`

* `db`, the collection: UUID -> document. A document is its owner, its `ServiceId`
  (0 for the empty string) and one value `cfg` for all fields that determine the
  container's environment. `gone` is a history variable, the ids once removed.
* `ctr`, the platform: UUID -> container. A container's name is `k2m-` plus the UUID
  and names are unique on the platform, so there is at most one per instance. A
  container has the id it was given (`service`), the configuration it was created
  with, and whether it runs. `gen[i]` is the id of the latest container of `i`:
  under docker each new one is different, under rancher2 it is always the same
  (`NewId`). **This is the only thing in which the modes differ**, and all the
  difference between the theorems and the counterexamples below.
* `perms`, permissions-v2: resource -> the user registered for it. Resources are
  instances by their full id (`FullId`) or by the bare one (`RawId`).
* `phase` is the startup step the process is in, `"serving"` or `"down"`; `scan`,
  `stale` and `cur` are the locals of the two startup passes.
* `pc[h]`, `inst[h]`, `instance[h]`, `seen[h]`, `batch[h]`: a handler's next call and
  its locals; `instance` is the request's `model.Instance`, `seen` the documents it has
  read.

### 2.2 Steps of `Manager`

An action is one call on a service together with the Go code up to the next call:
its test of the error, its early returns, its assignments. A call that only reads what
others may change is a step of its own too (`SetRead`, `DeleteRead`). The permission
check is the step that accepts the request (`SetBegin`, `DeleteBegin`), which also
stands for every refusal before it (decoding, ids that do not match).

| Code | Actions |
|---|---|
| `CreateInstance` | `CreateBegin`, `CreateDeploy`, `CreateStore`, `CreatePermit` |
| `SetInstance` | `SetBegin`, `SetRead`, `SetRemove`, `SetDeploy`, `SetStore` |
| `DeleteInstances` | `DeleteBegin`, `DeleteRead`, then per instance `DeleteRemove`, `DeleteStore`, `DeletePermit` |
| `migrate` | `Start`, `MigrateGrant`, `MigrateList`, `MigrateRevoke`, `MigrateDone` |
| `EnsureAllInstancesDeployed` | `EnsureExists`, `EnsureDeploy`, `EnsureStore`, `EnsureDone` |
| the batches of both passes | `Paging`: `ReadBatch`, `Visit`, `MigrateListed`, `MigrateRevoke`, `EnsureDone` |
| a signal, `log.Fatal`, a crash | `Stop`, `Crash` |
| somebody removes a container | `Environment` |

### 2.3 Failures in `Manager`

A failed call (`...Fails` in `Platform`) costs one of `MaxFaults`, except where it fails
because of the state (the name is taken, nothing has that id). It may or may not
have had its effect: a deadline passed after MongoDB wrote, a container was created but
not started, stopped but not removed. A failed call of startup ends the process. One
that had no effect is the same as a crash before it, so only those that leave something
behind have an alternative of their own.

### 2.4 What `Manager` abstracts

* One manager process. The deployment does not say otherwise; two processes would run
  handlers as one does, but could start up while the other serves.
* `getEnv` and the verifier are the choice between refusing the request and going on; a
  configuration is a model value and `getEnv` a function of it. At startup `getEnv` does not
  verify, and what passed it once does not fail then: `StoredAccepted` of `Forwarding`.
* A call of the DeploymentClient is one step. `ImplementsDeployment` and `DockerServes` justify
  this for rancher2 and docker.
* A read of several documents is one step; MongoDB's cursor may interleave with writes of other
  documents.
* A write that MongoDB still applies after the manager has given up on it is applied at the time
  the manager gives up, not later.
* A resource that permissions-v2 does not know is closed to users. For admins the topic's default
  permissions decide, in the service: both answers are possible.
* A batch of ids is a set. An id given twice is always refused by the code, which `DeleteRead` allows.
* UUIDs do not collide.
* Both startup passes visit the stored instances in any order. `Tied` holds the instances whose name is
  not theirs alone: of these a pass may miss any (`PassEnds`), as the batches it reads may, and
  `migrate` then removes the registration of one it has missed. `Paging` has the batches themselves, shows that
  instances with names of their own are always come by (`OwnNameServed`, `DistinctNamesComplete`), and
  what happens to the others. Names do not change hands in `Manager`: a PUT that gives an instance
  another's name is one of an instance that is in `Tied` from the start.

### 2.5 The other modules

| Module | State | Actions and the code |
|---|---|---|
| `DockerClient` | the daemon's containers, its image, whether it hangs; each goroutine's call | `BeginCall` (the four methods), `Pull`, `Create`, `Start`, `Stop`, `Remove`, `Inspect` (a call on the daemon each), `Expire` (`getTimeoutContext`), `PullEnds`, `Hang`, `Recover`, `Lost` |
| `Rancher2` | the workloads; each goroutine's call; counters of makings and reported removals | `BeginCall`, `Post`, `Delete` and `DeleteJob`, `Get` and `GetJob` (an HTTP request each), `Lost` |
| `Rancher1` | documents, services, each handler's request, the startup phase | `Create`, `Remove`, `Replace`, `Store`, `Drop`, `Forget`; `SelfCheck`, `Ensure`, `StillExists`, `Serve`; `Crash`, `Restart`, `Lost` |
| `Forwarding` | document, the container's environment and position, the groups' commits, the topic's messages, what was forwarded | `Post`, `Put`, `PutRefused`, `PutNotStored`, `Redeploy`; `Lost`, `Restart`, `Produce`, `Forward`, `Commit` of the platform, Kafka and the container |
| `Api` | ids with a document, a container, access; the latest answer | one action for each way a request ends |
| `Listing` | the collection, the client's query and pages | `GetPage`; `AddInstance`, `RemoveInstance`, `RenameInstance` by others |
| `Lifecycle` | where `main`, server, handlers and closers are | one action per stage of `lib.Start`; `Listen`, `Shutdown`; `Notify`, `Signal`, `Cancel`, `CloseMongo`, `CloseDocker`, `Complete` |
| `Config` | a field, its variable, the match so far | `Match` (a match of the regular expression), `Override` |

What they abstract:

* `DockerClient`: which version of an image is started; the daemon's own restarts of containers;
  the parameters of a container other than its name and environment.
* `Rancher2`: a workload is its environment; deletion takes effect at once, though Kubernetes
  goes on with it afterwards; `ContainerExists` uses a client of its own for TLS, which
  makes no difference here. The code panics where a response is nil, which ends the goroutine's
  request like an error (`net/http` recovers); at startup it ends the process, as an error does.
* `Rancher1`: service definitions beside the environment. A removed service answers 404 to the
  next request for its id. `UpdateContainer` declares its parameters in another order than the
  interface does, so that the image and the user id change places: the image of a service is
  not modelled (section 5.2).
* `Env`: texts by their structure. A base topic is a path and whether it ends in a slash, a
  filter the parts between its colons. JSON encoding of the mapping keeps what it encodes.
* `Forwarding`: one partition; requests one after the other, as overlapping ones are `Manager`'s
  subject. The container's image is not in the repository: it is the consumer that the
  environment describes, which passes over what its filter does not let through and
  forwards the rest before it commits. A message has the fields a filter may ask for. An
  instance has one topic, as positions and commits are kept per topic. `CoveredAtHome` is about
  the values, not about where they were published.
* `Api`: one request at a time. Permissions are a set of ids; the topic rights of other users
  are the service's affair. `CreatedAt` and `UpdatedAt` are left out, as is the header or token
  a user id comes from.
* `Listing`: one sort by id stands for each unique key, one by name for the others. `access` is
  what permissions-v2 lists, which may lack instances or have ones too many; `EmptyIsNil` says whether
  its client answers nil where there is none. A search is the values that its text fits, the
  whole of it and, after a colon, its second part; with the prefix of a field the latter is
  all there is. Its text is taken literally, where the code makes a regular expression of it.
* `Lifecycle`: a request is its two changes, of the container and of the document. `ListenAndServe` may
  fail at any time before `Shutdown`.
* `Config`: a character is an upper case letter or another one, a word is where it begins and ends.

## 3. Properties

Beside `TypeOK` and the invariants of the proofs:

| Property | Says |
|---|---|
| `SoleHolder` | at most one handler is between removing an instance's container and writing its document |
| `NoResurrection` | a removed document is never written again |
| `DeployedMatchesRecord` | the container a document names runs the document's configuration, whatever failed |
| `FaultFreeConsistency` | before the first fault, what no handler is working on is either stored and running or neither |
| `ContainersOwned` | before the first fault no container is without a document, but for that of a POST under way; holds where deleted documents come back, too |
| `StuckUntilRestart` | an instance whose container is missing stays so, with its document, until a restart: no request, a DELETE included, gets anywhere with it |
| `GrantsLast` | nobody loses access to a stored instance with a name of its own |
| `MigrateReconciles` | when `migrate` returns, permissions-v2 has nothing but stored instances, with their owners, and all with names of their own |
| `RequestsEnd` | every request ends |
| `ServesUnlessNameTaken` | startup gets to serving, unless a container nobody's document names has an instance's name |
| `NamesComplete`, `OwnNameServed`, `OwnNameKeepsGrant` (`Paging`) | an instance is missed by a pass only in exchange for one of the same name visited twice; one with a name of its own is registered, never unregistered and redeployed |
| `PagesServed` (`Listing`) | a client that pages by id misses no instance that it asked for and that was there throughout, unless one was removed or renamed |
| `ReadingEnds` | the loops of startup end, and so do a client's pages |
| `Implements` | every step is one of `Registry` or changes nothing in it |
| `ImplementsDeployment` (`Rancher2`), `DockerServes` | each call of the client, interleaved with any others, is one operation of `Platform`; on docker, creations end by their deadline and removals unless the daemon hangs |
| `OneRemoval` (docker), `RemovedOnce` (rancher2) | a container is reported as removed to one caller; a workload once for each time it was made |
| `NeverMissed` (rancher2) | `ContainerExists`, which asks for a deployment and then for a job, never denies what was there throughout |
| `Rancher1Agrees` | a service too many takes a fault; without faults documents and services agree between requests; startup leaves no document without its service |
| `RedeployEquivalent` | unless a PUT failed halfway, what runs is what a redeployment would run, but for the group |
| `StoredAccepted` | startup's `getEnv` refuses no stored instance |
| `OwnersTopic` | on the default broker messages go below the topic of the instance's owner, whoever updates it |
| `CoveredAtHome` | in the group of the PUT that set offset or values last, all messages before the container's position were forwarded with these values, unless a filter used in this group kept them back |
| `OffsetTakesEffect` | after a PUT with another offset the container reads from there |
| `CutOnlyAtEnd`, `EndsAfterSignal` (`Lifecycle`) | no request is cut in two before a signal or a fatal error; a signalled process ends even if requests hang |
| `AnswersHold` (`Api`) | 4xx: nothing has changed; 204: every entry of the batch is gone; a repeated POST leaves an instance more per fault, and no more |
| `EnvironmentWins` (`Config`) | a set variable overrides the field whose words it spells, abbreviations included, and nothing else does |
| `UpdatesAgree`, `CreatorHasAccess`, `AllRestored` | refuted, section 5 |

`StuckUntilRestart` and the second half of `ServesUnlessNameTaken` describe weaknesses the code
has: after a failed PUT the instance cannot be deleted over the API, and after a container was
created whose id was lost, `EnsureAllInstancesDeployed` fails at every start and the API is never
served again. No document promises otherwise, so they are stated as what the code does. The
same goes for the limits written into `CoveredAtHome` (its group and filters), `AnswersHold` (its
copies), `PagesServed` (its removals), `GrantsLast` and `MigrateReconciles` (names shared).

## 4. Runs that pass

| Run | Bounds | Distinct states | Why these bounds |
|---|---|---|---|
| `docker_race` | 3 handlers, 1 instance, 5 requests, 2 faults | 80,000 | three requests on one instance at once (PUT, PUT, DELETE) after the POST and one more; two faults, so that one can hit the handling of another |
| `docker_restart` | 2 handlers, 2 instances, 4 requests, 2 faults, redeployment at startup | 990,000 | two instances for batch deletes and for a reconciliation where one instance is right and the other is not, or is missed because it shares its name; a crash and one more failure |
| `docker_live` | 2 handlers, 1 instance, 4 requests, 1 fault | 16,000 | no symmetry, as liveness requires; one fault is enough to take a name |
| `rancher2_overlap` | 2 handlers, 2 instances, 5 requests, 1 fault, redeployment at startup | 567,000 | a POST, then a PUT and a DELETE or two PUTs that overlap, and the requests that meet what these leave; both instances have one name, so that `migrate` may miss either; one fault loses a workload or interrupts a request |
| `paging` | startup: 0 to 4 instances, 3 names, batches of 2; a client: 3 ids, 2 names, limits 0 to 2, 1 change, no search or one by name, with a colon or by id | 608,000 | empty, partial, full and two full batches, and three names allow a tie across the border beside names of their own; a client's second page begins after the change, on either side of it |
| `forwarding` | 13 requests, 2 users, 2 PUTs, 2 messages of 2 devices, 1 PUT that fails halfway | 604,000 (users alike) | the requests hold every refusal, every kind of base topic and pairs that differ in one setting; two PUTs refresh a group and leave it again; with two messages a position is before, between or behind them, and a filter passes one of them, both or none |
| `clients` | docker: 3 calls, 1 fault; rancher2: 4 calls, 2 faults; rancher1: 2 instances, 4 requests, 2 faults, 2 suffixes; 2 goroutines | 303,000 | two calls that meet at a container another one made; a fault in one of them and, on rancher, one more for the crash or loss that a restart has to deal with |
| `process` | 2 handlers, 3 requests, 2 signals; names of up to 8 characters; 3 ids, batches of up to 2, 2 faults | 94,000 | a request in either half while main ends or the server fails, a signal before and after `Notify`; a name of eight has room for three words and for an abbreviation in each place; a batch with an id given twice or unknown |

Two configurations are the least with which a PUT changes something; `alice` and `root` are a
user and an admin. `docker_live` has the admin only: its properties are about progress, and who
asks changes none of it. Deadlock is not checked: with all requests of the bound served and all
faults spent the model stops. Symmetry is used in runs without liveness only, and
in `MCManager` not over users, as `Admin` tells them apart there; `forwarding`, where they differ
only in what they created, has it over them.

### Fairness

`WF` of `Continue(h)`: the Go scheduler runs a goroutine that can run, and each of the
services answers each call with a result or an error. For calls with `getTimeoutContext` the
deadline sees to that; `stopContainer` and `removeContainer` use `context.Background()`, so for
these it is an assumption about the docker daemon. `WF` of `Startup`: the same for startup, and a
process that ended is started again by its supervisor. Nothing is assumed of `Begin`,
`Stop`, `Crash` and `Environment`: no client need ever send a request and no fault need happen.
As faults are bounded, liveness is checked for executions in which faults stop at some time.

`DockerClient` assumes `WF` of `Expire(h)`, as a context's deadline passes by itself, and of
`Answer(h)`, that a daemon that does not hang answers; hanging and recovering are free, so that a
removal, which has no deadline, is only shown to end or to meet a hanging daemon. `Lifecycle`
assumes `WF` of `Cancel`, `CloseMongo`, `CloseDocker` and `Complete`, the goroutines between a
signal and the exit, none of which waits for a request (`Disconnect` is given a second). `Paging`
assumes that startup goes on, `Listing` that its client asks for the next page; nothing is assumed
of those who change the collection.

## 5. Disagreements of code and documents

### 5.1 Runs that show a violation

* `creator_access`: `CreateInstance` registers the permission under the bare UUID
  (`instances.go:104`), every check asks for the id with its prefix. The creator is refused
  GET, PUT and DELETE of the new instance until the next start's `migrate` registers it.
* `rancher2_resurrection`: a PUT has removed and created the workload; a DELETE that read the document
  before finds the new workload under the same name, removes it and then the document; the PUT's
  upsert writes the document back. A deleted instance is stored, and no workload runs for it. (In the
  other order nothing comes back: a PUT whose removal comes after the DELETE's gets a 404 and stops.)
* `rancher2_updates`: two overlapping PUTs both get through removing and creating the workload
  and write their documents in the other order; what runs is not what is stored.
* `paging_ties`: three instances of one name in batches of two (100 in the code): the two
  queries sort them differently, one instance is visited twice and another not at all. Its missing
  container is not recreated; in `migrate`, its registration is removed.

`rancher2_resurrection` and `rancher2_updates` need rancher2 and overlapping requests: `docker_race`
and the theorems exclude them on docker. What still holds on rancher2 is in `rancher2_overlap`.

### 5.2 Met while modelling

Facts a maintainer should know of; they need no run to be seen, or nothing written says
that they should be otherwise.

* The group of `refreshConsumerGroupId` (`instances.go:148`) is not stored. The next PUT that
  changes neither offset nor values, and every redeployment, reads in group 0 again, from where
  the former values had got to: later messages are forwarded twice, or earlier ones never with the
  new values. `CoveredAtHome` is stated for the group that was refreshed.
* A PUT that changes the filter only (or the topic) does not refresh the group either: the new
  container goes on where the old one had got to, and messages that only the new filter passes and that
  the old one dropped are never forwarded. `CoveredAtHome` is stated for what every filter of the group passes.
* A search by id is dropped: `ListInstances` puts the regular expression at `filter["id"]`
  (`mongo/instances.go:149-173`), and the accessible ids take its place (`:175`). `search=id:x` lists every
  instance the user may read. A search with a colon behind anything that is no field's name looks for its
  second part only (`:160`), and finds more than was asked for.
* Were the list of accessible ids nil, as an empty JSON list never but a `null` would be, there would be no
  filter (`mongo/instances.go:174`) and the page would hold the instances of everybody, with a total of 0.
* rancher1's `UpdateContainer` (`rancher-api/api.go:116`) takes the fourth argument for the image,
  which in `deploy/interface.go:21` is the user id: an updated service has the user's id for its image.
* rancher1's loop around a name in use (`rancher-api/api.go:128`) never repeats: `createContainer`
  returns an error for a 422, so the update fails after the old service was removed.
* An error of `Accept` while the API serves ends the process by `log.Fatal` (`api.go:60`), requests under
  way included.
* `main` logs "Shutdown complete" without waiting for requests: `server.Shutdown` runs in a
  goroutine that the WaitGroup does not count (`api.go:64`).
* `GetInstance(s)` of the controller looks at `exists` before the error: a database that does not
  answer is a 404 (`instances.go:65`, `135`).
* The API documentation differs from the routes: PUT is documented at `/instances` and served at
  `/instances/:id`, DELETE is documented with 200 and answers 204, the list is documented as an
  array and is an object with a total. The total counts the accessible ids, not the results.

## 6. What is proved

For every set of UUIDs, users, configurations, names, requests and goroutines and every bound,
under the assumptions of the modules, all of which TLC evaluates in its runs:

* `PlatformAssumption`, `ManagerAssumption`: the deployment mode is one of the two, the model
  values for "nothing" are none of the values they stand beside, bounds are numbers;
* `EnvAssumption`, `ForwardingAssumption`: the default broker and its login are a broker and a
  login, requests are settings, "nothing" is none of them;
* `Rancher2Assumption`, `ClientsAssumption` (`Constants` of `DockerClient` and of `Rancher1`): bounds
  are numbers, "no container", "no call", "no document" and "no request" are none;
* `PagingAssumption`, `ClientAssumption` (`Constants` of `Listing`): there are finitely many
  instances, names and ids are ordered as numbers are, limits are numbers, a batch is not empty
  (`batchSize` is 100);
* `LifecycleAssumption`, `ProcessAssumption` (`Constants` of `Config` and of `Api`): finitely many
  goroutines, bounds are numbers, an id in a path is a batch of one, a name has a letter.

Nearly all inductive invariants were checked with TLC, on a small instance of their module, before
they were proved; `docker_race` and `docker_restart` go on checking those of `Manager` on docker.

The theorems about `Manager`:

| Theorem | Modes |
|---|---|
| `ShapeInvariant`, `TypeCorrect` | both |
| `InductiveInvariant` (`IInv`), `SoleHolderHolds`, `NoResurrectionHolds`, `DeployedMatchesRecordHolds` | docker |
| `FaultFreeInvariant` (`FInv`), `FaultFreeConsistencyHolds` | docker |
| `CommonInvariant` (`Common`), `ContainersOwnedHolds`, `MigrateReconcilesHolds`, `StuckUntilRestartHolds` | both |
| `GrantsInvariant` (`GInv`), `GrantsLastHolds`, `ImplementsHolds` | docker |
| `OneAtATimeInvariant` (`BInv`), `OneAtATimeGrantsLast`, `OneAtATimeImplements` | both, where requests take turns |

**The argument.** `NoResurrection` is not inductive: that a PUT about to upsert has not been
overtaken by a DELETE depends on what it read and on what became of the container since.
The key is `StaleIdsDead`: a handler whose copy of a document is out of date has in it the
id of a container that no longer exists. It is kept because a document only changes after the
container it names was removed, and because ids are not given out again (`IdsGiven`: every
known id is at most `gen[i]`; a new one is greater). Hence `RemoveContainer` succeeds only
for a handler with a current copy, and kills the id in all the other copies: it works as a
lock (`SoleHolder`), and the document stays as the holder read it until the holder writes it
(`HolderCurrent`). `ToStore` and `EnsureToStore` carry the configuration of the new
container to the write of the document, `IdsFresh` keeps everybody else away from an instance
that is still being created, as nobody can have heard of its id.

`FInv` adds what holds before the first fault (`HandsAgree`): a handler about to create a
container finds the name free, one about to write a document knows the container that runs with
what it writes, startup has nothing to restore. With it `FaultFreeConsistency` is inductive: what
no handler is working on was finished by the last one that did.

In `ManagerProofs` an action is first sorted by what it does to one instance: nothing
(`QuietStep`), deploying (`DeployingStep`), taking the container (`TakingStep`), writing
(`WritingStep`), with one lemma each, and then each action is shown to be of its sort.

`GInv` adds owners and permissions: all parties name one owner of an instance (`OneOwner`), a
registered full id has its document's owner or its document is gone for good
(`GrantsOwned`), a permission is removed after the document (`RevokeLast`), and how far
`migrate` has come (`MigrateProgress`). In `ManagerGrants` the lemma `Writes` lists all that
a step can do to the documents; the refinement maps these to `Add`, `Replace`, `Remove`
and stuttering.

**Both modes.** What holds on rancher2 with overlapping requests, too, rests on `Common`: ids of new
instances are fresh, and whoever has an instance in hand, or its document in a copy, names one and
the same owner (`OneOwner`), so that even a document that comes back has the owner it had; `migrate` compares
with the documents as they are (`MigrateProgress`), and as long as no call has failed a container has
at most one handler that took it and has not yet put another in its place or written what follows
(`OneTaker`), as an id that was removed answers to nobody until it is made again. Hence
`ContainersOwned`, `MigrateReconciles` and `StuckUntilRestart` need neither ids that are unique nor
requests that take turns.

**Where requests take turns.** `OneAtATime` says that no two handlers have the same instance in hand,
from the begin of a request to its end. **Nothing in the code sees to it**: it is a hypothesis of three
theorems about what clients get who send their requests for an instance one after the other, or what a
lock per instance would give. It says nothing of startup, crashes or failing calls, all of which
are still there. With it ids need not be unique. `CopyCurrent`, that a handler about to write a
document has its present version in hand, is inductive, as only a handler with the instance in
hand writes it; in place of the dead id of docker's argument there is nobody else. What both
arguments come to is `Exclusive`: whoever gets a removal through has the current document and is
alone with the instance. The lemmas about owners, permissions and the refinement rest on `Exclusive`
alone, and so serve both (`GrantsStep`, `PromiseStep`).

**`ForwardingProofs`** (`StoredAcceptedHolds`, `RedeployEquivalentHolds`, `CoveredAtHomeHolds`,
`OwnersTopicHolds`, `OffsetTakesEffectHolds`).
The first two rest on one fact about `getEnv`: completing an instance twice is completing it
once, and changes neither its refusal nor its environment (`CompletedTwice`). A document is always a
completed instance, so startup computes from it what the request computed. For `CoveredAtHome`
the invariant `Covering` adds what outlives a container: the commits of the home group are covered
too (`HomeCommits`), a container in that group has the document's values and its filter is counted
(`HomeContainer`, a PUT that was not stored included), and a group whose UUID was not generated has no commits
(`TypeOK`). So a PUT that refreshes the group starts at the beginning of the topic, and a restart
goes back to a commit that is covered. The last two are action properties: a base topic is
completed with the stored owner on every way to a container, and a PUT with another offset
generates a new group, which has no commits.

**`DockerProofs`** (`OneRemovalHolds`, `DeploymentImplemented`). The daemon's ids only grow, so an id
that was reported as removed never lives again (`History`); that is the lock. For the refinement a
container that is not started yet is invisible to others, and one that a removal has stopped is
seen as running until its removal ends. `Calls` makes these two views well-defined: of a
container that is being started only its starter knows, and every other call is about an id that the
client has returned. `Accounts` bounds faults by calls, as `Deployment` counts a call that
expires as a fault. With this theorem and `DeploymentImplemented` of `ClientsProofs` the calls that
`Manager` takes as atomic are justified in both of its modes.

**`Rancher1Proofs`** (`Rancher1AgreesHolds`). No name is a lock on rancher1, but an instance is
worked on by one handler all the same: to get hold of it one must remove the service its document
names, which only one can, as ids are not given out twice (`Ids`); while it is held the
document's service does not exist, so nobody else gets hold of it (`Held`). `Counted` is the
bound in a form that is kept: whoever may make a service, startup included, finds one less than
the bound allows. `Faultless` says what services and documents have to do with each other while
an instance is held. The proof is per instance: `Good(i)` is shown to be kept by a step about `i`,
and by any step about another instance.

**`ClientsProofs`** (`RemovedOnceHolds`, `NeverMissedHolds`, `DeploymentImplemented`). `Claims`
ties the calls under way to the workloads: as long as `ContainerExists` asks for the deployment,
a claim that it was there throughout is true, and no call reaches the job with it; no name is
asked for or deleted that was never made. From this, each request maps to `CreateContainer`,
`RemoveContainer`, a loss, a failed call or a stutter of `Deployment`. `OneRemovalHolds` and
`Rancher1AgreesHolds` state the results of the two modules above for the program, whichever client
`lib.Start` makes: its steps are steps of the client, or leave the client's variables alone.

**`PagingProofs`** (`NamesCompleteHolds`, `OwnNameServedHolds`, `OwnNameKeepsGrantHolds`,
`DistinctNamesComplete`, `PagesServedHolds`). A sort may
choose among documents of the same name, but not where these are: in every result they fill the
places after all smaller names (`Places`, by counting, without induction over the sequence). So
the batches of different queries, put one after the other, have at each place the name that any
one result has there (`Fits`), an instance with a name of its own is at its place
(`OwnVisited`), and the list of a completed pass has each name as often as the collection.
`DistinctNamesComplete` is why `Manager`'s passes may miss none but `Tied` instances: if no two instances have the same name, `migrate`
leaves exactly the stored instances registered and no container is missing after startup, so equal
names are the only thing that refutes `AllRestored` in `paging_ties`.

For a client's pages by id (`PagesServedHolds`) the place of an instance is the number of matching ids
up to its own, and the result of a query has it there (`AtItsPlace`, by counting again). While
others only add instances its place can only grow (`AddStep`). So an instance that was asked for all the time (`AskedFound`: it
is part of every result)
has been given or is at a place behind the offset (`NotPassed`), a page moves the offset past nothing
that it does not give, and where the client stops there is no place left.

**`ProcessProofs`** (`CutOnlyAtEndHolds`, `AnswersHoldAlways`, `EnvironmentWinsAlways`). A request can be cut in two only when
the process ends. That main ends only after a signal or a fatal error follows from `Connected`
(the wait group is not empty while the database is open) and `Asked` (its closers run only after
a signal). Of the answers, `CopiesBounded` needs the invariant `Copies`: a client that has not
been told 200 has no instance that did not cost a fault; the two promises of a status code
hold for each request by itself.

`EnvironmentWinsAlways` holds for names of any length. The words that a match finds are compared with
those that a person reads off the name, where a word begins with an upper case letter that follows
another character or precedes one. The induction is along the matches, which are steps: the words
found lie side by side up to the position, and begin where words begin that begin up to there
(`Found`); between two positions a match finds exactly the beginnings that are there
(`BeginningsOf`). That a run of letters has an end, so that the `CHOOSE` in `Run` and `EndOfWord`
is a choice, follows from the least number of a set (`Least`, by `WFMin`).

## 7. What is only model-checked

* Liveness, which is out of the prover's reach: `RequestsEnd`, `ServesUnlessNameTaken`, `ReadingEnds`,
  `EndsAfterSignal`, and that docker's calls end (`DockerServes`, whose safety part is proved).
* Of `Manager` in mode rancher2 with overlapping requests nothing is claimed beyond `Shape`, `Common`,
  `ContainersOwned`, `MigrateReconciles` and `StuckUntilRestart`: section 5.1 shows what goes wrong there.

Of every safety property that a passing run checks there is a theorem: for every value of the
constants, in the deployment modes the table names.

None of the mode-dependent invariants of `Manager` is claimed of rancher1, which `Rancher1` models with
its own, weaker properties.

## 8. Not modelled, and the plan

Not modelled, for want of decisions of the manager's own: connecting to MongoDB and its indexes
(a failure is `MongoNew`'s, the rest is the driver's), the permission endpoints, which the
permissions client serves itself (`generated_permissions.go` has their documentation only), the
generated API documentation, logging and CORS.
MongoDB, docker, rancher, Kafka, the container's image and permissions-v2 are external and
modelled from how the manager uses them. Of the modelled components these parts are left out:
`CreatedAt` and `UpdatedAt` (a PUT takes the former from its body), the image and other
parameters of containers, a cursor's error after its last document, the way to a user id from
header or token, response bodies that are not closed.

What is left, in the order of its worth:

1. Which of its promises the manager keeps on rancher2 with overlapping requests: a weaker abstract
   specification, in which a removed instance may come back with the copy a PUT has read.
2. Startup in batches (`Paging`) while somebody else writes: a second process, which `Manager`
   excludes.
3. `CreatedAt` and `UpdatedAt`, and sorting by them.
