# Verification of the ExtendIngress controller

This directory models the controller of this repository in TLA+: the work queue
its events go through, the configuration it keeps in memory, the whole way
from an object at the API server to the configuration nginx runs, the commands it runs
nginx with, the election of the replica that writes statuses, and the process from its
flags to its end. TLC checks the
models on small instances; TLAPS proves the theorems listed below for every
value of the constants.

The program's own code is small (`src/cmd`, `src/main.go`, `src/flags.go`,
`src/nginx.tmpl`, the API types); `src/pkg/client` and the deep copies are generated and
`src/vendor` is third-party. Of the vendored code, the work queue, the leader elector and one
function of the shared informer are modelled, since the controller's correctness rests on them.

## Inventory

| Component | State | Operations | Interacts by | What is hard |
|---|---|---|---|---|
| Informers and handlers (`cmd/controller.go:155-264`) | one cache per kind | nine handlers, `enqueueExtendIngress`, `handleEndpointObj`, `handleConfigmapObj` | watch events in, keys out; read by the worker and by the endpoints handler | one goroutine per kind, the cache lags behind the API server and runs ahead of the keys |
| Rate limited queue (client-go `util/workqueue`) | `queue`, `dirty`, `processing`, delayed entries | `AddRateLimited`, `Get`, `Done`, `ShutDown` | handlers add, worker gets | delays reorder keys, merged keys, re-adding during processing |
| Worker (`processNextWorkItem`, `syncHandler`) | the key and object it holds | one branch per kind of key, rendering when the queue is empty | reads caches, writes configuration, status, file | every read is stale afterwards; panics recovered in the middle; early returns skip the rendering |
| Configuration (`cmd/extendingress.go`) | servers, locations, upstreams, three config maps | parse, install, delete, endpoints, base configuration | called by the worker only | LastPaths come from a lagging status; hosts shared by rules or ingresses |
| Status (`updateExtendIngressStatus`) | `State`, `LastPaths` at the API server | one `Update` of the whole object, by the leader | conditional on the version the cache had | refused writes; the status of another replica |
| nginx (`cmd/nginx.go`, `nginx.tmpl`) | two files, the running configuration, a pipe | `-t`, start, `-s reload`, `RunCmd` | command lines, stderr | it may refuse or not run; its output is read from a pipe that another goroutine closes |
| Leader election (`controller.go:266-311`, client-go `tools/leaderelection`) | the lease, `observedRecord`, timers, `election` | `tryAcquireOrRenew`, `electionRun`, `OnStoppedLeading` | lease at the API server; flag read by the worker | lost calls and answers, clocks, a ticker that nothing stops |
| Start and shutdown (`main.go`, `flags.go`, `Run`, `pkg/signals`, informer factories) | stop channel, informers requested, started and synced | `SetupSignalHandler`, `InformerFor`, `Start`, `Run` | closes queue and informers | order of requesting and starting informers, signals at any moment, what is waited for |
| Keys as text (`getProxyPass`, the splits in `syncHandler`) | none | join and split | keys of the queue, names of upstreams | separators inside hosts and paths |
| API types and deep copies (`types.go`, `zz_generated.deepcopy.go`) | objects in the cache, and the copy that is sent | `DeepCopy` of each type | lister, worker, client | memory shared between copies, optional fields |

What makes the parts correct: the queue loses nothing and hands no key to two
workers; the memory catches up with the caches (level triggering) whatever order
keys come in; nothing nginx refuses is installed; one ingress does not disturb
another; the file says what the memory says when nothing is left to do; the
status never overwrites users and has nginx's verdict; one replica leads; a signal ends the
process; and in the end nginx serves what users asked for.
The hazards that endanger this are listed in `PROJECT.json` with their lines.

## Modules

    SequencesExt (community)
      IngressConfig        pure functions of the configuration
      WorkQueue            queue.go: the state and its operations
        RateLimitedQueue   + what AddRateLimited promises
        QueueWorkers       + the workers' loop
          QueueProtocol    = RateLimitedQueue + QueueWorkers, the abstract specification
          DelayingQueue    QueueWorkers + channel and waiting loop, implements QueueProtocol
      Controller           IngressConfig + RateLimitedQueue + API server, caches, worker, nginx
    NginxCommand           the commands of the worker, the pipe and the files
    LeaderElection         the replicas and their lease
    Lifecycle              main, signals, factories, Run and its goroutines
      KeyText              pure functions: keys as text
      ApiTypes             pure functions: objects in memory and their deep copies
        ObjectFlow         KeyText + ApiTypes: handlers, keys, worker and API server
    MC...                  instances for TLC, one for each module with runs
    FoldLemmas           what a loop over a sequence computes and keeps
      ConfigProofs       IngressConfig: what each operation does, for any specification
        ControllerProofs theorems of Controller
    TextProofs             what joining and splitting a text does
      ObjectProofs         memory of objects and copies; theorems of ObjectFlow
    QueueProofs, DelayingProofs
                         theorems of the queue's modules
    ProcessProofs          theorems of NginxCommand, LeaderElection and Lifecycle

`WorkQueue` has the four fields of `Type` (queue.go) and one operation per method;
each runs under the queue's lock, so it is one action. `RateLimitedQueue` adds
`delayed`, a count per item: `Ripen` hands one copy to `Add` at some later time,
`Merge` drops a copy when there is another (the waiting loop keeps one entry for
an item). `DelayingQueue` has the channel `waitingForAddCh` (`incoming`) and the
heap (`waiting`); clock readings are choices, and its refinement mapping counts the
copies in both. A caller that passed the shutdown test of `AddAfter` just before
`ShutDown` may still put an entry into the channel; nothing ever reads it, and the
model leaves it out.

`IngressConfig` translates the methods of `ExtendIngressCfg`. A map iteration
whose order matters is a set of outcomes (`DropHosts`); a nil map entry that is
dereferenced is the outcome `panicked`, with everything assigned before it kept.
Maps are written with `With`, `Over` and `Without`, since `:>` and `@@` of TLC's own module have
no meaning for the prover.
Parameters are members of a small set some of which nginx refuses (`BadParams`);
a service name stands for name and port; one namespace. `NginxAccepts` is what
`nginx -t`, start and reload check of the rendered file: known parameters, no empty
upstream, and an upstream in the file for every `proxy_pass`.

`Controller` is one replica:

| Variable | Code |
|---|---|
| `api`, `rv`, `writes` | objects at the API server, the last resource version, steps of the environment (bounded by `MaxWrites`) |
| `watch`, `store`, `listing` | events on the way to an informer, its cache (`store` is what the listers read), objects of the first list not yet in the cache (`HasSynced`) |
| `notes` | events queued for the endpoints handler |
| `queue` ... `delayed` | the work queue |
| `job` | the worker: `pc`, the key, the object from the lister, the addresses it parsed |
| `cfg`, `start`, `election` | `extendIngressCfg`, its `Start`, the leader flag |
| `file`, `live` | `nginx.conf`, and what nginx runs |

A worker's step is one stretch of `syncHandler` between reads and writes of shared
state: `GetItem`; `SyncDelete`, `SyncConfigmap`, or `LookUp` (the lister) followed by
`SyncEndpoints` or by `Parse` (endpoints and `nginx -t`) and `SyncIngress` (install and
status write); `CheckLen`; the sleep; `Render` or `LeaveRender`; `FinishItem` (the
deferred `Done`). `pc = "done"` is reached early by a not-found return or a panic.

Choices worth knowing:

- Watch events of one object keep their order, those of different objects do not.
  For objects of one kind this allows more than a real watch does.
- The handlers of ingresses and config maps only read the notification, and their
  key becomes visible when it ripens: they run with the informer's step. The
  endpoints handler reads the ingress cache and is a step of its own (`HandleEndpoints`).
- `{}` is an endpoints object with `Subsets == nil`; every other state is a set of
  addresses.
- `Parse` reads all endpoints in one step, though the code reads them path by path.
- Install and status write are one step: only the worker reads `cfg`, and the API
  server's answer is not used.
- A write that changes only `LoadBalancer` or the text of the test is left out; it
  would only make the cached object newer.
- `Restart` is the restart of the container: memory, file and nginx are new. The
  file is then the one of the image, taken to be accepted by nginx.
- `"breakTest" \in Events` lets the test of an ingress give no verdict, with or
  without output, and the test of the base configuration too (`BaseVerdicts`): then what nginx refuses may be
  written, or what it accepts left out.
- `election` is read atomically: it is one word, and the race has no other outcome.

`NginxCommand` takes the commands of the worker out of `Controller`, where a test has a
verdict or none, and shows why. `Begin` chooses the next thing the worker runs; `RenderTest`,
`StartCommand`, `Read`, `ReadEnd`, `ReadAgain` are `rebuidNginxConf` and `RunCmd`;
`Wait` is the goroutine of nginx.go:69, which may close the read end before the lines in it
were read; `JudgeIngress`, `JudgeBase` and `JudgeRun` are what the callers make of it. A file
is `good`, refused (`bad`) or `cut` (an error of `Execute` is only logged). The verdict is looked for in the
whole output, which quotes what nginx refuses; the model takes it that no directive or parameter contains
`successful` or `failed` (one that does would be taken for the verdict, `extendingress.go:310`, `controller.go:550-553`).

`LeaderElection` has one lease and any number of replicas. A try is `StartTry`, then
`ReadLock`, then `WriteLock` or `Conflict`, with `Tick`s between them; `LoseCall`,
`LoseAnswer` and `Restart` are the faults. A record's version is not a number: `fresh` says
that what a replica read is still current, `seen` that the record it timed is.
Integer division of the lease into seconds and `OnNewLeader` have no effect here.

`Lifecycle` is one process. `taken` is the informer that `HasSynced`, the lister and the
handlers of a kind got from `InformerFor`; `GoStart` puts both factories into `toStart`,
`StartFactory` starts what was requested by then. An exit ends all goroutines. The worker
is reduced to idle, busy and writing, and an item may end without a rendering.

`ObjectFlow` follows the data that the other modules take for records. A text is a sequence of
tokens, of which the separators are of their own, so that `Split` in `KeyText` cuts where the
code does. An object is a tree with the address of every map, slice and pointer
(`ApiTypes`), and each type has its own walk over the fields that are references; the deep copies
are those of zz_generated.deepcopy.go, field by field, and encoding and decoding an object gives each reference
new memory and leaves out what is empty (`omitempty`). Texts of a specification are any texts: nothing in
the repository makes the API server check them, as it does the names of objects (`NamesAssumption`). Each
queue item carries what the handler meant, to compare with what the worker reads.

The definitions headed "Mutant of" are not part of any specification: each is the
same operation with a plausible mistake, and the property named beside it in
`PROJECT.json` is violated when it takes the operation's place.

## Runs

Queue. Two workers although the program starts one: the properties are those of
the package, and `Run` takes any number.

| Run | Instance | Shows |
|---|---|---|
| `queue` | 3 keys (one in work, one queued, one delayed), 2 workers, 2 delayed copies | types, `QueueWellFormed` (the comment on `queue`), `Stingy`, `NoneStranded`, `EventuallyProcessed`, `ShutdownDrains` |
| `delaying_queue` | 2 keys, 2 workers, channel of 3 | refinement of `QueueProtocol`, liveness included |

Controller, passing. Every run bounds the steps of the environment: one write
changes an object, a second one meets the first in flight, a third repairs.

| Run | Instance | Shows |
|---|---|---|
| `core` | one ingress that gains and loses a path, endpoints, a config map that nginx may refuse, a leader; 2 writes | `ConvergedWhenQuiet`, `EndpointsCatchUp`, `NothingUnwritten`, `NoDanglingProxy`, `StatusKeepsUserWrites` |
| `refused` | the specification is replaced by a refused one with another path and repaired, a config map comes and goes; 3 writes | `ConfigMapsCatchUp`, `LocationsTested`, `NoDanglingProxy` |
| `isolation` | 2 ingresses on hosts of their own, deletion, tests without a verdict; 1 write | types, `OthersUntouched`, `NoLeftovers` |
| `converge` | an ingress and its endpoints, a leader, the container dies at any step; 3 steps, fair | `NginxConverges` |

The other parts, passing:

| Run | Instance | Shows |
|---|---|---|
| `command` | unbounded; every failure, output of up to three lines | types, `VerdictIsNginxs`, `RefusedStaysOut`, `OnlySilencePasses`, `Returns` |
| `election` | 2 replicas, lease 4, deadline 2, calls of 1, 3 faults | types, `OneLeader`, `SomebodyWrites` |
| `lifecycle` | the two factories and three kinds of main.go, up to 3 signals | types, `WorkOnSynced`, `ZeroIsGraceful`, `SignalEnds`, `GetsToWork` |
| `objects` | 2 ingresses with dashes in their names, 3 specifications with every separator, relative paths and fields left out, 3 events | `KeysKeepMeaning`, `HandlersSurvive`, `OwnUpstreams`, `CacheIsRead`, `CopyIsOwn`, `SpecSurvives` |

Three faults let a leader lose the lease, its successor too, and one of them restart. The
durations of `election` are the smallest with the margin the defaults (13 s, 8 s) leave
for calls of up to 2.5 s. Three events in `objects` create an object, change it and delete it,
with the worker's copy on its way at each of these; text and memory of one key or object do
not depend on how many others there are.

`CHECK_DEADLOCK FALSE`: the controller waits for ever once users are done.

Each of these runs finishes in a minute or two, which is what bounds its
instance: a run has those of the environment's steps that its properties are about. In
`election` the replicas may all have lost the lease for good, in `lifecycle` the process ends, and
`objects` stops after its events; `command` never stops, and deadlock is checked.

Violations. A run of this kind checks what a comment or a document of the
repository says, and TLC shows what the code does instead:

| Run | Claim that fails | Why |
|---|---|---|
| `recreated` | `controller.go:602` converge | Del handled after the ADD of the new object |
| `stopped_leader` | `controller.go:293-294` a replica that has "lost master" no longer has the flag | its ticker (`controller.go:270`) sets it again |

### Conditions

Several of the properties hold only under conditions, which the instances state. Outside them
the code does the following; each was seen in a trace of an instance that drops the
condition.

In `Controller`:

- `ConvergedWhenQuiet` and `NothingUnwritten` need that no ingress is deleted (`recreated`), `NothingUnwritten`
  also that no item panics. `README.md:7` says that the configuration is written automatically; but an
  item renders only if the queue is empty after it, and when the item it left the rendering to returns
  early (`controller.go:629`, or a recovered panic), nothing is written until the next event.
- `NoDanglingProxy` needs that no host of an ingress moves between two runs of the process.
  `extendingress.go:88` says "check the servers and upstreams parse by ingress is valid"; after a restart
  `e.Servers[lastSerKey]` (`extendingress.go:213`) is nil for the host that was left, the loop panics, and the
  locations installed before point to upstreams that are not.
- `NoDanglingProxy` needs that a service of an ingress stays in its specifications. When a path moves from
  one service to another and the endpoints of the first one vanish, the key of the endpoints, handled with the new
  specification in the cache, finds no location to change but deletes the upstream all the same
  (`extendingress.go:288`); the location leads nowhere until the update's key is handled.
- `NoDanglingProxy` needs one host in an ingress. The name of an upstream does not contain the host
  (`nginx.go:158`): a location that stayed on one host (see `NoLeftovers` below) shares the upstream with the same
  path of another host, and loses it when that path is removed.
- LastPaths is not what `types.go:194` says, "extend ingress last valid path": `controller.go:545` records the paths
  of a specification before it looks at the outcome of the test.
- A status write that is refused because of a newer version is lost: `controller.go:457-460` says that an item
  with a transient error is put back and attempted again, but the error of `Update` (`controller.go:648`)
  is dropped, and no error of `syncHandler` is ever re-queued.
- `ConvergedWhenQuiet` needs specifications that nginx accepts: `updateEndpointsToCfg` skips an
  ingress whose *cached* state is unReady (`extendingress.go:239`). Endpoints that change just after a
  repaired ingress was installed, before its new status is in the cache, are skipped for good.
- `NginxConverges` needs that too: if the first start of nginx fails, `Start` is false all the same
  (`controller.go:694`), and every later rendering reloads an nginx that does not run.
- `NothingUnwritten` needs base tests that give a verdict: of one that cannot run, or whose verdict is lost, nobody
  looks at the error beyond logging it, and nginx.conf stays behind until the next event (`extendingress.go:308-313`).
- `LocationsTested` needs a test that gives a verdict: when `nginx -t` cannot run (`controller.go:550`),
  the state of the last test stays, Ready included, and the untested specification is installed.
- `LocationsTested` needs one rule for a host: the test's file has the last rule of
  a host (`nginx.go:113`), the configuration gets both.
- `LocationsTested` speaks of locations only: an endpoints update installs the upstream parameter
  of the cached specification (`extendingress.go:276`), tested or not.
- `OthersUntouched` needs hosts that belong to one ingress: a host that one ingress
  leaves is dropped with everybody's locations (`extendingress.go:212`).
- `NoLeftovers` needs paths that change at most once while the cache lags: the LastPaths of the second
  update are those before the first (`controller.go:641`), and the first one's locations stay.
- No property covers one path that leads to different services on two hosts of an ingress: an endpoints
  update of one service (`extendingress.go:268`) matches the path and sends both hosts to it.
- A deletion that only a relist finds is delivered as `DeletedFinalStateUnknown`: `MetaNamespaceKeyFunc`
  fails for it (`controller.go:316`), no key is added, and the ingress stays.

In the other modules, where the property itself says where it ends:

- `RefusedStaysOut` excepts a specification that takes the place of a Ready one: `cmd.Wait` closes the read end
  of the pipe (`nginx.go:69`), which os/exec forbids before all reads are done. A verdict that is lost keeps the
  old state, and what was not tested is installed.
- `OnlySilencePasses` excepts silence: when the output of the base test is lost
  altogether, `RunCmd` returns no error and nginx.conf is overwritten untested (`extendingress.go:307-315`).
  The second loop of `RunCmd` (`nginx.go:87`) reads stderr again, where stdout was meant.
- `StoppedIsSilent` is false (`stopped_leader`): the replica that has stopped leading may write statuses again,
  and so may another one that leads by then.
- `SomebodyWrites` excepts that every replica has lost the lease once: `leaderRun` runs the elector once
  (`controller.go:302`), and a replica that lost the lease never stands again. Replicas whose
  container restarts do.
- `GetsToWork` excepts a nil elector, which crashes the process when its caches have synced: `NewLeaderElector` refuses a lease equal to the renew deadline,
  which `flags.go:54` allows ("less than or equal"); the errors at `controller.go:285` and `:298` are made
  and dropped, and the nil elector panics. `--leader-elect` and `--version` are never looked at.
- The worker is not waited for at shutdown, although `controller.go:405-408` says that Run "will [...] wait for
  workers to finish processing their current work items": nginx.conf may be cut when the process ends with
  exit code 0.
- `KeysKeepMeaning` excepts the keys that `Misreadable` names: a deletion's key with '-' or '/' in a host or
  inside a path (an ingress on `my-host` is never removed, and the nil server panics), an endpoints
  key with '_' or "ExtendIngress" in a path or port, and in both a path without its leading '/', which
  `types.go:160` demands and nothing checks.
- `HandlersSurvive` excepts what it names: a rule without `http` or with an empty path crashes the process
  when it is deleted or when any endpoints of its namespace change (`controller.go:325`, `:363`), though
  `types.go:117` and `:161` make both optional.
- `OwnUpstreams` is about paths with their leading '/' and services and ports without '_': `nginx.go:160` drops the first
  character whatever it is, so `foo` and `/oo` of one service share an upstream.
- `CacheIsRead` excepts LastPaths: `updateServerAndUpstreamToCfg` deletes from the map of the cached object
  (`extendingress.go:184`) and moves elements of its slices, though `controller.go:501` says "NEVER modify
  objects from the store. It's a read-only, local cache."
- `CopyIsOwn` excepts the parameters of paths, which the copy's LastPaths shares with the cached object, and
  maps inside of parameters, which the generated copies copy as they are.
- `isLabelSelectorMatching` (`controller.go:561`) asks whether every label of a pod is in the selector, so a pod
  with a label of its own (as DaemonSets give theirs) never matches and `LoadBalancer` is empty.

## Fairness

Weak fairness of each goroutine's steps and of nothing else: each informer
(`HandleDeltas` per object), the endpoints handler, the waiting loop per key (every
delay ends: the back-off is at most 1000 s and the bucket refills), the election
once it can succeed, and the worker (nginx and the API server answer). Users never
have to write. Weak fairness per key is what the heap gives: an entry that is due
stays due until the loop pops it.

`NginxCommand`: the worker, the process of a command and the goroutine of `Wait` go on;
the daemon need not close its end. `LeaderElection`: time, the loops of each elector and
the tickers; faults need not happen. `Lifecycle`: main, the signal handler, the worker and the start of
each factory; signals need not come, and the API server's answers are the hypothesis of
`GetsToWork` and of nothing else. `ObjectFlow` has no fairness, since its properties are safety.

## Proofs

`QueueProofs` proves the four safety properties of `QueueProtocol` from the inductive
invariant `QueueInv`: their conjunction, and that the items in `processing` are
exactly those the workers hold (`HeldIsProcessing`). The last part is what makes
`Done` and `Add` safe: without it `Done` of one worker could queue an item another
one is still processing.

`DelayingProofs` proves the safety half of `ImplementsProtocol`: `DelayingQueue` starts as
`QueueProtocol` does, and each of its steps is one of the protocol's or invisible there. What
decides is `Copies`: a send adds one (`PlacesAppend`), a receive takes one out of the channel
(`PlacesTail`, by the bijection that moves every place up), and the heap gives it back unless it
holds the item already, which is `Merge`. The bound `MaxCopies` of the protocol is never met, since
a channel with room and the heap hold fewer copies than `ChanCapacity + 1`. `DelayingInherits`
then has `QueueWellFormed`, `Stingy` and `NoneStranded` of the implementation from `QueueProofs`,
instantiated with the same refinement mapping.

`FoldLemmas` makes loops provable. `FoldLeft` of the community modules is, below its definition, a
function on sets of positions that is recursive in the last one. `FoldRuns` shows that this function
exists and that the fold is the end of a run of intermediate results, and `LoopRule` is the
rule for loops: what holds before the first turn and is kept by every turn holds of the
result. The operation and the invariant of the loop are parameters, so each loop of `IngressConfig` is an
instance; the induction over numbers comes from the theorems about well-founded induction, once, as the
hypothesis `OneByOne` that `ConfigProofs` discharges for each instance. So what a
loop of the code computes is proved for rules and paths of every number.

`ConfigProofs` says for each operation of `IngressConfig` what it does, panics included:

- `DeletionShrinks`, `EndpointsRedirect`, `InstallationOutcome`: what may be different afterwards.
- `DeletionWorksOn`, `EndpointsWorkOn`, `InstallationWorksOn`: only hosts of the ingress and upstreams
  named after it are.
- `AcceptedIsTested`, `InstallationKeepsSound`: what the test accepts may be installed.
- `EndpointsServed`, `InstallationComplete`, `GoodIngressIsValid`: the locations serve what they should.
- `DeletionLeavesProxies`, `EndpointsLeaveProxies`, `InstallationLeavesProxies`: no location
  loses its upstream.
- `DeletionUndoes`, `InstallationWhole`, `OthersKeepWhole`: an ingress is in memory with all its locations or with none.

`ControllerProofs` proves `ConfigMapsCatchUp` from `ConfInv`, for any ingresses, services, config maps,
contents and events including deletions and restarts. The invariant adds types: the queue never shuts down (so that a ripe key is
not dropped), the worker's item is a key of the kind it says, and no content in the
caches is the empty one, which rendering would replace. The argument is level triggering: a
change of the cache puts a key into `delayed`, `Ripen` moves it to `dirty`, `Get` to
`job`, and the one step that drops it reads the cache; `Merge` and `Add` only drop a
key another copy of which is still there.

The queue inside the controller is that of `QueueProofs`, by an instance whose only worker holds
`job.item` (`ControllerQueueWorks`, which has `QueueWellFormed` and `NoneStranded`): `Restart` starts it anew, and the deferred `Done` is the step
that the recovered panics take too.

`NothingStaysUnwritten` has `NothingUnwritten` for behaviours in which no item returns early
(`[][~EarlyReturn]_vars`), where base tests give their verdict. With the queue's facts, a worker that finishes an item
with an empty queue has rendered, and a key that is still pending will end in one. The condition is the
one the code needs: `controller.go:629` and a panic leave without rendering what earlier items left to
them (see the conditions above).

`StatusAlwaysKeepsUserWrites` follows from `StatusInv`: every copy of an ingress
in a watch channel, in the cache or in the worker's hands that has the API
server's version has its specification too. The cache's mutated LastPaths do not
harm it. An accepted write therefore carries the user's latest specification, and a
deleted ingress has no version to match.

`TypesAreCorrect` has `TypeOK` from `TypeInv` and the two invariants before it,
which hold the types of the queue, of the config maps and of the versions. What remains is the
program counter, the notifications, the endpoints and the fields of every copy of an ingress;
the LastPaths that installing leaves in the cache are part of the old ones.

The theorems about the configuration in memory each say which specifications they are about; the
instances of the runs are such, and the conditions above say what the code does with others.

- `ConfigAlwaysOwned` and `OthersAlwaysUntouched`, under `HostsAreOwn` (no host is in specifications of two
  ingresses): every host in memory belongs to one ingress, every location leads to an upstream named
  after the ingress that has the host, and so work on one ingress, whatever it does and
  wherever it panics, leaves the others alone. `Restart` empties the whole configuration; it is no
  work on an ingress, and the property excepts it.
- `LocationsAlwaysTested`, under `TestsAll` (every test gives its verdict, one rule for a host): the specification that is
  installed is the one that was tested, because the worker keeps the object it has read.
- `ProxiesNeverDangle`, under `HostsAreOwn` and `ServicesStay` (an ingress has one host, and a
  service stays in its specifications). The inductive part is `ByPath`: a location leads to the upstream that is
  named after its own path. An operation that takes an upstream away has therefore one
  location on the host to look after, which it removes, or leads to 503 or to a new upstream of that name.
  `LastPaths` may be of any age and may name anything.
- `AlwaysConvergedWhenQuiet` and `EndpointsAlwaysCatchUp`, under `Steady`. These are the level-triggering
  claim of `controller.go:602` for any number of ingresses, services, writes and restarts. Beside what was
  proved before (`Known`), the invariant is `ConvInv`:

  | Part | Says |
  |---|---|
  | `NoDel` | no key of a deletion is pending or in work |
  | `CopyInv` | an ingress that exists stays in the caches, copies of one version are one object, none is unReady |
  | `NewestInv` | the last change on the way to a cache, or the cache, has what the API server has |
  | `ServedInv` | an ingress in the cache has a key of its own ahead, or each of its locations is there, and has the addresses of the cache or an event, key or step ahead that reads them again |
  | `LedInv` | an endpoints key at work before the lookup of another one looks at the specification of the cache |

  `Steady` holds of the instances of `core` and `converge` and says: no deletion and no test without
  verdict; `HostsAreOwn`; nginx accepts the parameters; each specification of an ingress has paths on each
  of its hosts, each path once, and a path keeps its service; two rules that name the same service have the same paths, since
  an endpoints update looks for the path of the key on every host that names the service and panics where it is
  not (`extendingress.go:268-277`); no object starts as unReady. Each of these has a behaviour of
  the code behind it that violates the property otherwise, listed under the conditions. The last
  conjunct only says that `NoObject` is no object.
- `NothingStaysBehind` has `NoLeftovers`, under `ComeAndGo`: `HostsAreOwn`; an ingress has one specification, with paths
  in every rule and each path of a host once; the statuses that are there at the start have each path once. Deletions, new
  ingresses of the old name, tests without verdict, restarts and elections are all
  allowed, as in the instance of `isolation`. Beside `Known`, the invariant is `LeftInv`:

  | Part | Says |
  |---|---|
  | `TidyInv` | every copy of an ingress, the worker's included, has a status with each path once |
  | `WholeInv` | memory has all locations of an ingress and no others on its hosts, or none of its hosts |
  | `ExistInv` | the last change on the way to the cache, or the cache, says whether the ingress exists |
  | `GoneInv` | an ingress that is not in the cache, but in memory or in the worker's hands, has the key of its deletion ahead |

  `WholeInv` is what makes the deletion work: it walks the key's hosts and paths and panics at the first one that is
  missing (`extendingress.go:227`), so it removes everything only where everything is there. `TidyInv` is what
  makes the installation whole: a path twice in LastPaths would be taken for one that has gone.

`ProcessProofs` has the theorems of three modules. It proves `OneLeader` for any number of replicas, durations and faults. The
invariant relates the clocks: while a replica believes that it leads, everybody else who has
seen its record has at least as much time left as the leader's deadline and its
running call may take, and whoever has seen none must first time it for the whole lease. `DurationsAssumption`
(a lease longer than the renew deadline by two calls) is what makes the difference positive;
without it the client-go package promises nothing either.

It proves `WorkOnSynced`: `HasSynced` speaks for the lister and the handlers
because `InformerFor` gives every use of a kind the same informer (`Shared`). `ZeroIsGraceful`
follows from where `Run` is: it is entered only with a worker, and left only after `stopCh` was closed.

And it proves `VerdictIsNginxs`, `RefusedStaysOut` and `OnlySilencePasses`: what was read, is in the pipe or
is still to be printed is part of one output that fits the tested file, so no loss can
turn one verdict into the other.

`TextProofs` says what the keys are, for texts of every length. `Split` is a fold, so the loop rule of
`FoldLemmas` applies. `SplitPart` is one step, a text without the separator that is appended behind one becomes
one part, and `SplitJoined` any number of them: splitting gives back what was joined. From these
follow, for each kind of key, that what `syncHandler` takes apart is what the handler put together (`ReadSync`, `ReadDeleted`, `ReadBackEndpoints`, `ReadBackConfigmap`), and that a name of an upstream
determines its parts one after the other (`OneProxyPass`): ids, services and ports have no separator, and so it does not
matter what the path contains.

`ObjectProofs` proves the six properties of `ObjectFlow` for any ids, specifications, services, config maps, lists of
pods and number of events. Only `HandlersSurvive` is inductive. `ObjectInv` is checked on the instance of `objects` too
and has these parts beside it:

| Part | Says |
|---|---|
| `KeysInv` | reading a key of the queue back gives what the handler meant, or the key is one of `Misreadable` |
| `CachedInv` | an object in the cache has in each field addresses that an informer made for that field, and its specification is one of `Specs`, namely the one its user asked for, as it was decoded at some event |
| `UpdateInv` | what the worker sends has the deep copy of the cached specification, new labels, and a status with memory of its own but for the parameters of paths |
| `WrittenInv` | what the worker wrote to is a map it has made, or lies in a cached status |

Two facts about memory carry it. Decoding a copy, or decoding what was decoded, gives the same as decoding at once, since
copies keep what is said and only change addresses (`SpecAgain` and the lemmas before it, one for each type): from this
`SpecSurvives`. And addresses in different fields of a decoded object differ, which a copy, that wraps
each address it remakes, keeps apart from its original: from this `CacheIsRead` and `CopyIsOwn`. The lemmas
are about one level of an object each and are instantiated with the operator of the level below.

Assumptions, all named and evaluated by TLC: names of different kinds differ, the
queue's items are the keys, an empty config map is not among the contents users
write, nginx accepts the built-in base configuration, a specification is a sequence of rules whose
paths lead to services, the initial objects have their types, and the idle worker's item is no key; `Nobody` is no replica, and a lease is longer than the renew deadline by two calls; every
kind of object has a factory; names of objects have no separator but '-' (`NamesAssumption`; the API server
checks it), events are ADD, Update and Del, and a specification is made of slices, texts and references
(`SpecsAssumption`), whatever they contain.

Model-checked only: liveness (`EventuallyProcessed`, `ShutdownDrains`, `NginxConverges`, `SomebodyWrites`,
`SignalEnds`, `GetsToWork`, `Returns`), so also the fairness half of `ImplementsProtocol`: out of the
prover's reach. Every other property of a passing run is a theorem, though `NoLeftovers` only for ingresses
whose paths do not change (it is false otherwise).

## Not modelled

- Reading the command line, logging, and text rendering: no state of interest. Of the template the models
  have what nginx refuses.
- `net/` but for a port in use, the verbs of the generated client other than `Update`, its fake, the
  lister's `List`, the factory's `WaitForCacheSync` and the deep copy of `ExtendIngressList`: nothing of
  the program calls them, or only client-go does.
- The rate limiter's table of back-offs and its token bucket: a delay is any delay.
- The reflector and its DeltaFIFO, and with them a relist after a broken watch.
- Endpoints the handlers ignore (`kubernetes`, and updates in `kube-system`), several namespaces in
  `Controller`, and the windows branches.
- An explicit empty list or map in a specification counts as one left out. The API server keeps it until the
  controller's first status write drops it (`omitempty`); the informer then sees a change of the specification and the
  ingress is handled once more.
- Two complete controllers on one API server: two copies of `Controller` are beyond what TLC finishes.
  `LeaderElection` has the replicas, each reduced to its elector and its flag.

## Plan

Done: the queue, the configuration, one replica of the controller, nginx's commands, the election, the
process, keys as text and objects in memory; theorems about all of them, and of all safety properties that the
runs check.

1. A relist as an action of `Controller`, with the deletions it finds.
2. `ConfigHistory`: the operations of `IngressConfig` in sequence against a reference
   definition (the configuration is the union of the ingresses' parsed ones).
3. `NoLeftovers` for an ingress whose paths change once while the cache has caught up.
