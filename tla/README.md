# A TLA+ model of the service broker

The broker offers the Open Service Broker API in front of Kubernetes. A
platform creates, updates, polls, binds to and deletes *service instances*; the
broker renders templates into Kubernetes objects and keeps what it knows about
an instance in a Secret, the *registry entry*. All of its lasting state is in
Kubernetes; every request is a goroutine; provisioning goes on in the background
after the request is answered. What can go wrong is therefore mostly in the
order of API calls by goroutines that know nothing of each other, in calls that
fail halfway, and in crashes between them. That is what these modules are about.

## The system

| Part | State | Operations | Interaction |
|---|---|---|---|
| Registry entries, `pkg/registry/registry.go` | one Secret per instance or binding: service, plan, context, parameters, operation keys, whatever templates add | `New`, `Commit`, `Delete`, `Set`, `Inherit` | cached by handlers and provisioners, written back with optimistic locking |
| Operations, `pkg/operation` | the keys `operation`, `operation-id`, `operation-status` of an entry | `Start`, `Complete`, `End` | started by a handler, completed by a provisioner, ended by a poll (or by the bind itself) |
| Directory, `pkg/registry/directory.go` | one Secret for all instances: instance to namespace | add, remove, look up | read, changed and written back by creates and deletes |
| Instance handlers, `pkg/broker/handlers.go` | none of their own | create, read, update, delete, poll | call all of the above, start provisioners |
| Binding handlers, same file | none | bind, unbind | read the instance's entry, run the Creator themselves |
| Provisioners, `pkg/provisioners` | the objects they make, owned by the entry | `Creator`, `Updater`, `Deleter`, readiness barrier | goroutines; Kubernetes garbage collection does the deleting |
| Configuration, `pkg/config/config.go` | a global pointer and its read-write lock; the status of the resource | informer events, `Lock`, `Unlock` | events replace what requests read |
| Validation, `pkg/config/validation.go` | none | `validate` | decides whether the broker is ready |
| HTTP front end, `pkg/broker/broker.go` | none | header checks, readiness, routing | holds the read lock around each request |
| Start-up, login and purchases, `cmd/broker/main.go`, `handlers.go` | SQL tables, behind a pool of connections | preparing the tables, login, authorization | a create asks whether the plan was bought |
| Template language, `pkg/provisioners/template.go` | none | rendering, snippets, generators | called by the provisioners; reads and writes the registry entry |
| Keys and certificates, `pkg/util/x509.go` | none | generate, decode, sign | called by templates, on texts from registry and parameters |

What is hard: two requests with copies of one entry; the test and the start of an
operation in two calls; a write that takes effect although the caller sees an
error; a crash with a provisioner under way; the directory shared by everybody;
owner references of shared objects; an unbind against a running bind; a
configuration replaced under running requests; templates that refer to each
other, visited in any order; connections of a database that are lost, or hold a
database each. PROJECT.json lists these hazards
with the lines where they bite and the properties that would notice.

## Modules

| Module | Models |
|---|---|
| `Registry` | an entry, and `Commit`, `Start`, `Complete`, `End` as functions on it |
| `OperationLock` | abstract: what the operation keys promise, without Secrets or handlers |
| `ServiceInstance` | the five instance handlers, the directory, the provisioners' last call, failures and crashes |
| `ServiceInstanceProofs` | type correctness of `ServiceInstance`, proved |
| `ServiceInstanceSafety` | what its entries, copies and provisioners promise, proved |
| `ServiceInstanceSteps` | what its steps may never do, that it implements `OperationLock`, and its other invariants, proved |
| `Provisioning` | `Creator`, `Updater`, barrier and garbage collection, call by call |
| `ProvisioningProofs` | all of its safety, proved |
| `ServiceBinding` | bind and unbind against an instance that changes |
| `ServiceBindingProofs` | all of its safety, proved |
| `Configuration` | resource, informer, `pkg/config`, the lock and the requests under it |
| `ConfigurationProofs` | its types, one configuration per request and harmless status writes, proved |
| `Certificates` | keys, PEM documents and certificates: what can be generated, read back and signed |
| `Templates` | the template language on JSON trees, and the access rules of registry keys |
| `Preparation` | `validate`, then `Creator.Prepare` of a create and a bind, with its rendering |
| `RenderedObjects` | what the objects it renders should be, after the documentation |
| `PreparationProofs` | what validation, the access rules of keys, generators and certificates promise, proved |
| `Accounts` | start-up, the header checks, the database and its connections, login and the purchase check |
| `AccountsProofs` | who is let in, what a login costs, and that a broker that serves can be logged in to, proved |
| `MC...` | constants and sets of requests for TLC |

`ServiceInstance` and `ServiceBinding` extend `Registry`. `ServiceInstance`
instantiates `OperationLock` and is checked and proved to implement it. `Provisioning` and
`ServiceBinding` take the lock as given: the first has one step for a started
operation and one for its end, the second an instance that goes through the
phases of `OperationLock`. `Preparation` extends `Templates`, which extends
`Certificates`; it is about one request at a time, because what Prepare reads is
a cached entry and a configuration under the read lock (`OneConfigPerRequest`).
`Accounts` ends where `ServiceInstance` begins: a create answered 200 in
`Accounts` is one that goes on to the directory there, and the constant `Bought`
of `ServiceInstance` is what the purchase check lets pass.

### ServiceInstance

State: `secrets` (entries by namespace and instance) and `directory` are the
Kubernetes side; `handler` holds for each request goroutine its program counter,
request, namespace and cached copies; `workers` are provisioner goroutines with
the entry they were handed. `revision` numbers writes and stands for resource
versions, UIDs and operation IDs. `reply` holds the response of the current
step. `history`, `issued` and `acked` only record what happened.

One action is one Kubernetes API call with all the handler does until the next;
a handler touches nothing shared in between. `Receive` stands for everything before
the first call (asynchrony, parameters, catalog, purchase, schema, in the
order of the code); `GetDirectoryInstance`, `NewDirectory`, `RegisterInstance` and
`DeregisterInstance` for the directory; `OpenCreate`, `OpenRead`, `OpenUpdate`,
`OpenDelete` and `OpenPoll` for `registry.New` and the decisions on what it
finds; `CommitNew`, `PrepareFails`, `StartOperation`, `EndOperation` for the rest
of the handlers; `CompleteOperation` and `DeleteEntry` for the provisioners. A call
may be *lost* (no effect, error) or *noreply* (effect, error). `Crash` removes
all goroutines.

JSON documents are model values; `Compact` says which document `json.Marshal`
makes of one, because the handlers compare stored bytes with those of a
request. A schema is the set of documents it allows. What a provisioner does to the
cluster is left to `Provisioning`; here it ends with an outcome.

### Provisioning

`objects` are Kubernetes objects with version, owners, the annotation that holds the
rendered template (`desired`), a count of changes by other controllers and
readiness. `job` holds the goroutines: which registry, which step, which
templates are left, what was read. `CreateResource`, `GetSingleton` and
`AppendOwner` are the three calls of `createResource`; `EnterBarrier` and
`Barrier` the readiness checks, which a timeout may fail at any time;
`CallFails` is any call, or the REST mapping before it, that is refused;
`PrepareUpdate`, `StartUpdate`, `ApplyUpdate` the update; `Collect` is Kubernetes'
garbage collector, `BecomeReady` and `ForeignWrite` other controllers. Versions are
counted per name and never reused. Rendering is a constant function of template
and parameters. A plan with the deprecated `templates` is a plan of one step, as in
`Creator.Prepare` (`TemplateAssumption`).

### ServiceBinding

As `ServiceInstance`, for one instance and its bindings. A bind looks up the
directory, the instance and the binding, commits an entry that inherits every
key of the instance, starts an operation, runs the Creator, completes and ends the
operation, all in one goroutine. An unbind deletes the entry without taking an
operation. The instance is environment: it is created, operated on, deregistered
and deleted.

### Configuration

`stored` is the resource, `watch` what the informer has yet to see, `queue` the
events it has yet to deliver, `job` the goroutine that delivers them, `config` the global
pointer and `request` the request goroutines. `UpdateStatus` is the write of the
verdict; `LockConfig` and `SetConfig` the write lock. `Relist` is a lost watch.
The lock is Go's: a waiting writer keeps new readers out, and its unlock lets
all of them in.

### Templates and Certificates

A JSON value is a record whose one field names its kind; a string that holds a
dynamic attribute is an expression tree. Go visits the attributes of a map in an
order of its own, and generators draw at random, so an operator returns the set of
possible outcomes, each a value or an error. `RenderMap` keeps the loop as it is
written: it ends at the first value that is nil. `RenderTemplate` carries the
stack of templates being rendered; one that is entered again with the same dot
never ends, which is the outcome `Overflow`. A number of JSON is not an integer
constant of a template (`Num`, `Whole`), because `generatePrivateKey` tells them apart.

The language is recursive, and the prover gives up on modules with recursive operators. So
`Templates` has none: what a definition needs of a smaller piece of the same language, an
argument of a function or a part of a template, it takes from the parameters `Argument` and
`Part`. `preparation.cfg` ties the knot (`MCArgument`, `MCPart`): there they are `Eval` and `Recurse`, so TLC
checks the language as it is; a theorem is about any language with these parts, or says what it
needs of the parameters.

A PEM document is its label, the key it holds, and for a certificate who signed
it for whom and whether it is a CA's; `extra` stands for text after the block. Cryptography, `text/template`
and JSON pointers are external; of the first only the least sizes of RSA keys matter
(`RSAMinimum`, `RSASigning`). Branches and variables of Go templates, lifetimes
and serial numbers are left out; a change of case leaves a string as it is.

### Preparation

Every configuration is an initial state. `Validate` judges it. `Begin` is a create or
a bind up to the lookups of Prepare, with the entry that the handler has committed by
then; the entry of a bind inherits that of the instance. `RenderRegistry` renders one
registry definition and stores its value, `RenderNext` one template, `Finish` is
the commit by `operation.Start`. An error ends Prepare and leaves the entry as it was
committed; an overflow ends the process, which validates its configuration again.
The properties of `RenderedObjects` compare `outcome` with `Renders`, a definition of what a
template stands for that follows the documentation and not the loops of the code; it is
recursive, as `Cyclic` is, and therefore in a module that no proof uses. `RenderedAsDocumented` is the
documentation's word and fails; `RenderedUnlessNil` allows for what the loop does at a nil and no more.

`GeneratorsGenerate` and `CertificatesVerify` speak of one registry definition each, among
whatever others (`Lasting`: one that no later definition of the list overwrites). They are so
worded because earlier forms, which spoke of the whole entry, could not be proved and turned
out to hold only of the configurations at hand: a PEM document in an entry may come from the request's
parameters and be no certificate of the broker's; the CA's certificate may be replaced after it has
signed; a length or size may be no integer. So too with `ReadyMeansComplete`, which now
excepts nothing but steps and a bind by another plan: a snippet that is missing, also in a registry
value, is a configuration error of the rendering and no lookup of the request.

### Accounts

`settings` are the flags and files of the process, which may differ at each
start; `boot` is where `main` is. `data` maps the Postgres server and each
connection to a database: with Postgres all connections use the server's, in memory
each has its own, which is gone when it is closed. `idle` and `used` are the
pool of `database/sql`; `Take` prefers an idle connection, `Release` closes one
beyond `MaxIdle`. `Exec` is one statement of start-up; `Exit` may follow anything.
`Receive` is all that a request does before it queries: paths without checks,
authentication by mode, version, content type, body, and the settings that
`authorize` and `handleLogin` take for granted. (The 503 of a broker without a configuration comes before, and is in
`Configuration`; the refusal of a create that cannot be asynchronous is in `ServiceInstance`.) `Connect`, `RunQuery` and
`LoginRows` or `CheckBoughtServices` are the query and what is done with
its rows. A handler that panics is a reply `Dropped`: net/http recovers and closes the
connection. Others register users (of names not in use) and sell items;
nobody deletes. `logins` and `overlap` only record.

## Runs

| Run | Checks | Bounds |
|---|---|---|
| `instance_operations` | `TypeOK`; `CacheCoherent`: a copy that could still be committed equals what is stored; `WorkerHoldsEntry`: a provisioner's entry is exactly the one it was handed, and no other works on it; `PollTruthful`; `AcceptedOnRecord`: an accepted one is not forgotten; `ProvisionedOnce`; `ImplementsLock`: refinement of `OperationLock`; `OutcomeToldOnce`: a consumed operation does not come back; `FrozenInProgress`: nobody else changes an entry with an operation; `StoredValid`: what is stored was bought or reached by an allowed update, is in the catalog and satisfies a schema | two concurrent requests, one instance, changes requested until 5 registry writes, one failing call, one crash; symmetric handlers |
| `instance_directory` | `DirectoryIsolated`: a registration is changed by a create or delete of that instance only, to what that request asks for; so an instance that clients cannot find any more was cut off by a request of its own | two concurrent requests out of 7, two instances, two namespaces |
| `instance_liveness` | `ConcludesUnlessCutOff`: an operation that starts ends, or its outcome is recorded and the directory does not lead to the entry | two concurrent requests on an instance outside the broker's namespace (scope `InstanceLocal`), no failures and no crash |
| `provisioning` | `BarriersHold`; `ObjectsKept`: nothing a live registry needs loses its owner or is collected; `UpdateApplied`; `ForeignKept`: no lost updates; `EverythingCollected` | two registries, one with steps and one with templates, sharing a singleton; one update, one foreign write; any call may fail |
| `binding_races` | `CreatedIsUsable`: 201 means stored, idle, provisioned, object there; `RunOnce`; `BindingsConclude` | two concurrent requests for one binding, one failing call, one crash |
| `binding_requests` | `UnbindableNotBound`; `IdleOnlyIfInherited`: without failures a binding with an operation that nobody works on has never been written since its creation, so that the operation is the one it was given then, its instance's | one request at a time, all kinds, instances of a bindable and an unbindable plan with operations of their own, two failing calls, one crash |
| `configuration` | `OneConfigPerRequest`; `StatusKeepsSpec`; `Converges`; `StatusSettles`; `WaitersServed` | two requests, two edits, three specs, one lost watch, one failing status write |
| `preparation` | `ReadyMeansComplete`: a configuration that validates has all the lists and templates that requests look up, steps excepted; `RenderedUnlessNil`: an object is its template with every attribute replaced by its value, in any order of visit, except that where an attribute is nil and removed others of its map may be left as written, and the request's context gets into no object or other key; `BrokerKeysKept`: registry definitions change no key that has a policy, in bindings that inherit them neither, and the ID of a binding only if its own list defines it; `GeneratorsGenerate`: with arguments the functions accept, generators yield what the manual says, and no request fails at one; `CertificatesVerify`: a certificate that was generated is that of its key, self-signed or issued by what was given as its CA, and verifies if that was generated as one | some 14,000 configurations: two plans with up to two bindings, with lists, steps and templates there or not; templates of two attributes out of 16 kinds with six snippets; registry definitions in pairs of keys and values, all key types with all encodings, and chains of four that end in a signed certificate, with binds that sign another or replace the CA; three sets of parameters |
| `accounts` | `LostPerLogin`: a login costs a connection, and nothing else does; `RefusedOnlyIfLost`: no login fails for another reason, or because two requests overlapped in memory; `LoginMeansAccount`; `CreateMeansBought`: only a user of the present secret who bought this plan creates an instance; `UpMeansUsable`: a start makes up for one that was cut off | two starts in eleven environments, two concurrent requests out of some 40, three connections, two rows of users, one sale; symmetric connections, requests and plans |

Three runs show a property that the documentation states and the code does not
keep:

| Run | Property | What happens |
|---|---|---|
| `restart_stuck` | `OperationsConclude` | nothing resumes a provisioner after a restart: the operation stays in progress for ever, and updates and deletes are refused |
| `poll_gone_early` | `GoneMeansDeleted` | a delete removes the directory entry first; a poll then looks in the wrong namespace and says 410 Gone while the Deleter runs |
| `nil_attributes` | `RenderedAsDocumented` | with two nil attributes in one map, the first that is visited is removed and ends the loop; the second is handed to Kubernetes as `{{ ... }}` |

**Why the bounds are enough.** The conflicts in this code are between two
holders of one copy, so two handlers, two registries or two requests show them; a
third repeats them. The bounds on writes stop clients, not goroutines: what has begun
runs to its end. Five registry writes let an instance be created, provisioned,
updated and deleted with a second request at every point of it. One failing
call or one crash at every point covers every single failure, and pairs
of them are covered for one binding request at a time. The proofs below need no bounds.
In `accounts` the pool keeps one idle connection instead of two (the default of
`database/sql`): with two requests that is the least at which one is closed, and the
code depends on no other value. Three connections are one more than the requests, so none
fails before a login has cost one, and two logins leave too few. Two starts show
every start-up after one that was cut off anywhere. In `preparation` two
attributes of a map show every order of visit relative to a nil; a third is like
one of them.

**Deadlock** is checked except in `provisioning`, `preparation` and `accounts`, where
the system stops: registries are not created twice, a rejected
configuration is not used, and the starts of the process are bounded.

**Fairness.** Goroutines run on, and API calls return (weak fairness of the
steps of each handler, provisioner and event handler): the Go scheduler and
client-go's timeouts provide for that, and a barrier ends at the latest by its
timeout. Clients poll an operation in progress until they are told its
outcome (strong fairness of that poll, as other requests may occupy the
handlers): the protocol demands it of platforms. Kubernetes collects garbage;
the informer delivers what it has seen and resyncs every minute.
No fairness is assumed of users, of failures, or of objects becoming ready.
`ConcludesUnlessCutOff` is about runs without failures: after a crash or a lost `Complete` an
operation has no outcome and does not end (`restart_stuck`). It has an exception even so. A
delete removes the directory entry (`handlers.go:655`) before it may be refused, for its plan or because
an operation runs; an instance that does not live in the broker's namespace is then found by no
poll, and its operation, though it has an outcome, stays. `CutOff` says that. The instance of the run
lives in the namespace of its context, so that this happens; were it in the broker's own
namespace the exception would not be needed.
`BindingsConclude` holds under the condition, written into it, that no call fails, the
broker does not crash and the instance has no operation: `restart_stuck` and
`IdleOnlyIfInherited` show why. `Converges` excepts a deletion that a new
list reports (see below).

## Proofs

`ServiceInstanceProofs` and `ServiceInstanceSafety` prove, for every number of
handlers, instances, namespaces, plans, documents and requests, and without the
bounds' being small:

- `TypeCorrect`: `Spec => []TypeOK`;
- `ExclusiveOperation`: `Spec => []WorkerHoldsEntry`;
- `CommitsAreFresh`: `Spec => []CacheCoherent`;
- `PollsTellTheTruth`: `Spec => []PollTruthful`;
- `OperationsOnRecord`: `Spec => [](AcceptedOnRecord /\ NeverResurrected)`.

They assume what `Registry` and `ServiceInstance` state as assumptions: the
constants have the right shape, compacting a document twice is compacting it once,
`None` is no value, the broker's namespace is one, and clients name operation
IDs they were given.

The last four rest on `Invariance`: `Inv` is the conjunction of `StoredConsistent`,
`CacheCoherent`, `WorkerHoldsEntry`, `NeverResurrected`, `AcceptedOnRecord` and
`PollTruthful`; of these `StoredConsistent` (the operation keys of an entry fit together and are on record)
and `NeverResurrected` (a consumed operation is stored nowhere) are not of interest for themselves. `WorkerHoldsEntry` alone is not inductive: a handler might commit
a stale copy over the entry of a running provisioner. `CacheCoherent`
excludes it: an update is accepted for the stored version only, so the copy agrees with the
store, and `operation.Start` and `operation.End` looked at that copy's
operation keys. That a version is not used twice, and that an operation ID is not
given twice, is the part of `StoredConsistent` and `CacheCoherent` that
bounds them by `revision`. Steps that write no entry are dealt with
by one lemma (`QuietStep`); the five that do have a lemma each, with one step
per conjunct.

`ServiceInstanceSteps` proves the rest of what is safety in `ServiceInstance`:

- `FrozenWhileInProgress`: `Spec => FrozenInProgress`;
- `RegistryImplementsLock`: `Spec => ImplementsLock`, the refinement of `OperationLock`;
- `OneOutcomePerOperation`: `Spec => OutcomeToldOnce`;
- `ProvisionedAtMostOnce`: `Spec => []ProvisionedOnce`;
- `StoredEntriesValid`: `PlanIDsUnique => (Spec => []StoredValid)`;
- `DirectoryKeepsOthers`: `Spec => DirectoryIsolated`.

The first three are about steps and follow from `Inv` action by action: a `Commit` that
is accepted is made from a copy equal to what is stored, so what `Start`, `Complete` and
`End` read of their copy is true of the store. For the refinement the initial state maps to
an initial state and every action to an action of `OperationLock` or to a stutter.
`ProvisionedOnce` needs more (`ProvisionInv`): the number of a write names one
incarnation (`Incarnations`); an entry whose provisioning has started has been written since its
creation (`ProvisionedSince`); and a create on its way to `Start` holds the entry as it was
created (`FreshCopies`), so that its `Start` is refused if another has started. `StoredValid` is
inductive with the same of the entries that handlers are about to commit (`Carried`). It needs the hypothesis
`PlanIDsUnique`: the parameters of an update are validated for the plan on record but under the
service that the request names. `types.go:161-166` demands that plan IDs be globally unique, and
nothing checks it; if two services had a plan of one ID, an update might store parameters that satisfy
the schema of the other service's plan only. `DirectoryIsolated`
needs of the directory what `CacheCoherent` is to entries: one that was read and still has its
version has its data (`DirectoryRead`).

`ServiceBindingProofs` proves all invariants of both binding runs, for every number of
handlers, bindings, failures and crashes:

- `BindingTypeCorrect`: `Spec => []TypeOK`;
- `CreatorRunsOnce`: `Spec => []RunOnce`;
- `CreatedBindingIsUsable`: `Spec => []CreatedIsUsable`;
- `UnbindablePlansNotBound`: `Spec => []UnbindableNotBound`;
- `StuckOnlyIfInherited`: `Spec => []IdleOnlyIfInherited`.

They rest on `BindingInvariance`. `BindingInv` says that UIDs are numbers of past writes
(`Incarnations`), also those the Creator ran for (`RunsPast`); that no two handlers work on
one incarnation (`Sole`); and of each handler at work that its copy was written (`HoldsEntry`), that
a stored entry with the copy's version is the incarnation it created (`OwnIncarnation`), and that
the Creator has not run for it before its turn, and that what it made is there as long as the
entry is (`RunResult`). `RunOnce` is not inductive alone: what
excludes a second run is that one handler only has the copy of an entry that it created, and
that an incarnation deleted by an unbind never comes back. `IdleOnlyIfInherited` compares the version
of an entry with that of its creation: an operation that `operation.Start` of a bind began would have been
a second write.

`ProvisioningProofs` proves the safety of `Provisioning`, for every plan and every number of
registries, goroutines, templates, singletons, updates and foreign writes:

- `ProvisioningTypeCorrect`: `Spec => []TypeOK`;
- `ProvisionedObjectsAreKept`: `Spec => []ObjectsKept`;
- `ReadinessIsABarrier`: `Spec => []BarriersHold`;
- `SuccessfulUpdatesApply`: `Spec => []UpdateApplied`;
- `ForeignChangesAreKept`: `Spec => ForeignKept`.

They rest on `ProvisioningInvariance`. `ProvisionInv` says who has the lock of a registry (`Sole`,
`Locked`); that a copy with the version of its object agrees with it in all but the
annotation (`Copies`); how far a Creator has come (`Progress`: the earlier
steps, the templates and checks that are not left); and what an Updater knows.
The last is the delicate part (`Merged`): an update compares the objects before it has the lock. As
long as the registry has the version it read and no operation, nobody has rendered its
objects anew, so what was equal still is; `operation.Start` then succeeds at that
version only. An object of a template that is no singleton is rendered by its own
registry alone (`NameFacts`). Writes are classified once (`Harmless`: a new
version, no live owner lost, no foreign change forgotten, readiness recorded), and each kind of step
(`JobChange`, `ObjectChange`, `ClusterChange`, `RegistryChange`) has one lemma on all conjuncts
that are not about the goroutine that takes it.

`ConfigurationProofs` proves, for every number of requests, specs, edits, lost
watches and failed status writes, from the assumptions of `Configuration`:

- `ConfigurationTypeCorrect`: `Spec => []TypeOK`;
- `RequestsSeeOneConfig`: `Spec => [](OneConfigPerRequest /\ ServedValid)`;
- `StatusWritesKeepTheSpec`: `Spec => StatusKeepsSpec`.

Here `OneConfigPerRequest` is inductive once the types are known. The only step that
writes the configuration (`SetConfig`) waits until nobody holds the read lock; the
requests that its `Unlock` lets in have not looked yet. The types say that events
and pending status writes are about resources that exist: without that, the
verdict on the spec of a deleted resource would be undefined. `StatusKeepsSpec` rests on
`CopiesInv`: every copy of the resource, in the watch, the informer's cache, the queue or
the handler, that has the stored version has the stored spec.

Updates of several fields are written as `[f EXCEPT ![x] = [@ EXCEPT !.a = ..., !.b = ...]]`
throughout: version 1.4.5 of the prover translates several paths with the same index
(`![x].a = ..., ![x].b = ...`), and an `@` inside such an inner `[@ EXCEPT ...]`, wrongly for its SMT
backend and proves falsehoods from them. The second is written out (`registry[r].rv + 1`).

`AccountsProofs` proves all five invariants of the run `accounts`, for every number of connections, requests, users, items, starts and sales:

- `LostPerLoginHolds`, `LoginMeansAccountHolds`, `CreateMeansBoughtHolds`, from `IInv`;
- `RefusedOnlyIfLostHolds`, `UpMeansUsableHolds`, from `IInv /\ RInv`.

They assume what `Accounts` states: the constants have the right shape, a request
does not bring a token that the broker never signed, and there are more connections
than requests (which only `RefusedOnlyIfLost` needs). `IInv` adds to the types and to
`LostPerLogin` that no connection is both idle and in use, nor used by two queries
(`Pooled`: else giving one back would take another's away); that a database in memory
holds at most the default user (`Memory`); that a request which queries has passed the checks of
its path under the settings still in force (`Asks`, with `Quiet`: there are no requests while
settings change); and that the rows it has read are still true of the server
(`Truthful`), where rows are only added (`DataStep`). `RInv` adds how far each start has
come (`ServerReady`), and that until the first login or overlap one connection to
memory is used again and again, and is the prepared one (`MemoryReady`).

`PreparationProofs` proves four of the five invariants of the run `preparation`, for all
plans, configurations (any number and order of bindings, definitions, templates and steps) and
parameters:

- `ReadyMeansCompleteHolds`: `Spec => []ReadyMeansComplete`;
- `BrokerKeysKeptHolds`: `Spec => []BrokerKeysKept`;
- `GeneratorsGenerateHolds`: `AtomicArguments` implies `Spec => []GeneratorsGenerate`;
- `CertificatesVerifyHolds`: `AtomicArguments` implies `Spec => []CertificatesVerify`.

They assume `ConfigAssumption`, that a configuration has the shape of its type, and of the cryptography that RSA keys are
found from some size on and can sign from some other (`SizeAssumption`). `GeneratorsGenerate` is stated for the
arguments that the code accepts, which are fewer than the manual's (see below).
`CertificatesVerify` distinguishes what is issued (`IssuedBy`) from what verifies (`Verifies`: the issuer is a CA as well):
the code issues in the name of any certificate, so the second is claimed of those only whose
issuer a definition generated for the usage CA (`Issues`). The first two
follow from `IInv`, which needs nothing of the template language: requests are served
under configurations that were accepted (`Accepted`); the stored entries and the one a call works
on have the broker's keys as the request set them, and the plan of the instance (`Kept`,
`OfInstance`); a call goes by the list that its entry names, whose templates exist (`Running`).
`BrokerKeysKept` alone is not inductive: what is stored in the end is the call's entry.
That lookup and validation find the same binding, the first of the plan, needs that a set
of positions has a least one (`LeastNatural`, from the well-founded order of the naturals).

The other two follow from `PInv`, relative to `IInv`: they hold of the call that runs, so far as it has
come (`SoFar`). A definition adds what it generates and keeps what those of other keys did
(`GeneratedMore`, `VerifiedMore`, `ChainVerifies`); what it generates is computed from the code of the generators
(`PasswordDrawn`, `KeyRendered`, `SignReturns`, `CertificateReturns`). Here an argument has to be
what it is written as. `AtomicArguments` says that of literals and of `registry`, the two kinds of
argument that have no arguments themselves. It is true in the run, where `Argument` is `Eval`, and
nothing is assumed of other arguments. Both invariants
were checked with TLC on the configurations of the run before they were proved.

Only model-checked are:

- liveness (`ConcludesUnlessCutOff`, `EverythingCollected`, `BindingsConclude`,
  `Converges`, `StatusSettles`, `WaitersServed`), as fairness is outside the prover's reach;
- `RenderedUnlessNil`, which is about whole trees of templates and snippets, so that it needs
  recursive definitions and an induction over the tree, neither of which the prover supports.

Every other property of a passing run is a theorem.

## Further disagreements between code and documentation

Met while modelling, visible in the models, but not among the runs:

- `handlers.go:655`: the delete that has removed the directory entry may then be
  rejected (other plan, operation in progress); an instance outside the
  broker's namespace is not found any more, and its operation, if one runs, does not end.
- `util.go:414`: a create with another namespace in its context overwrites the
  directory entry and makes a second registry; lines 164-166 promise a conflict.
- `handlers.go:245`, `:1019`: a repeated create or bind is answered 200 although
  provisioning failed or never began; a bind even while it runs. The comments say "200 if provisioned".
- `handlers.go:240`: a repeated create with white space in its parameters is a
  conflict, as raw bytes are compared with compacted ones.
- `handlers.go:502`: a read during an operation is answered 400; lines 493-494 say 404.
- `update.go:91`: an update of a plan with steps changes no object and succeeds;
  `UpdateApplied` is stated for plans with templates.
- `create.go:155`: an existing singleton is read with a namespace even if its kind has none.
- `config.go:155`: a deletion reported as `DeletedFinalStateUnknown` is ignored.
- `handlers.go:1114`: a bind waits at its barrier under the read lock; with a
  configuration event pending all requests wait for it. `broker.go:351-353` says
  that requests must be non-blocking. (`WaitersServed`: not for ever.)
- `pkg/provisioners/util.go:57`: a provisioner reads the configuration after its
  request released the lock.
- `validation.go:80`, `:91`: validation ignores steps: one with a missing
  template is accepted, a binding with steps only is rejected. It does not look into snippets either.
- `handlers.go:1060`: a binding inherits the operation keys of its instance. A bind during
  an operation of the instance then says it has an operation, which nobody ends;
  `registry.go:61` says the key records "an asynchronous operation in progress for the
  instance or binding".
- `template.go:106`: snippets that refer to each other in a circle pass validation and end
  the process at the first request.
- `template.go:195`: the last character of a dictionary is never drawn, and a
  dictionary of one character fails.
- `template.go:227`: a key size from a request parameter is a JSON number and refused.
- `template.go:83`: `parameter` needs a JSON pointer; without its leading slash it is malformed.
- `registry.go:93`: `binding-id` has no policy, so a registry definition of a binding may overwrite it;
  `registry.adoc:47` and `:56` list it among the read-only keys.
- `x509.go:86-92`: the encodings are called `PKCS#1`, `PKCS#8` and `SEC 1`; the names of
  `template-functions.adoc:191`, `PKCS1`, `PKCS8` and `SEC1`, are refused.
- `x509.go:386-398`: nothing asks whether the certificate given as CA is one; a certificate issued in the name of
  a server's is returned, and verifies with nothing.
- `x509.go:350`: a subject alternative name needs a type (`DNS:localhost`).
- `x509.go:386`: a CA certificate without its key is ignored, and the certificate signs itself.
- `handlers.go:1276`: a successful login keeps its connection. With Postgres they run out;
  in memory the first login takes the only connection that has the tables with it.
- `main.go:264`: two requests at the same time may get two databases in memory, one of them empty.
- `main.go:316`: nothing in `users` conflicts, so each start adds another row for the default user.
- `handlers.go:62`: with basic authentication every create is answered 500, with a static
  token the handler panics; creates succeed in the mode `advancedToken` with Postgres only.
- `broker.go:227`: API versions 2.2 to 2.9 pass, although 2.13 is the least supported.

## Not modelled

- Bodies of responses: dashboard URL, credentials, parameters of a read. They are copies of
  registry keys.
- The catalog request, which converts data types; API types, generated clients, logging.
- TLS and routing inside net/http and httprouter, beyond which paths skip the checks.
- Branches and variables of Go templates: a template of the broker is one expression.
- Rendering of readiness checks, and so the one place where a provisioner reads the
  configuration without the lock (`pkg/provisioners/util.go:57`).
- In `Provisioning`, a write that takes effect although its answer is lost, and a `Complete` that fails:
  `CallFails` is a call without effect. (`ServiceInstance` has both, for registry entries.)
- Deletion of users and sales: the broker has no such operation.

## Plan

Done: registry, operations and their abstract lock, instances, provisioning,
bindings, configuration, validation, templates, certificates, accounts; all their safety
proved, but for what templates render to as a whole.

Left: bindings composed with `ServiceInstance` itself instead of an environment;
a configuration that changes during an instance's life.
