----------------------------- MODULE Controller -----------------------------
(***************************************************************************)
(* One replica of the controller (cmd/controller.go) between the API       *)
(* server and nginx.                                                       *)
(*                                                                         *)
(*   api --watch--> store --notes--> handlers --delayed--> queue --> worker*)
(*    ^                                                       |      |     *)
(*    +------------------- status of an ingress --------------+    nginx   *)
(*                                                                         *)
(* The informers keep store behind api; their handlers turn changes into   *)
(* keys; the only worker (main.go calls Run(1, stopCh)) takes a key, reads *)
(* the store again, changes the configuration in memory, writes the status *)
(* and, when the queue is empty, writes nginx.conf and starts or reloads   *)
(* nginx.                                                                  *)
(*                                                                         *)
(* Hosts and paths contain none of the separators of a key, so that a key  *)
(* is the record it encodes.                                               *)
(***************************************************************************)
EXTENDS IngressConfig, RateLimitedQueue

CONSTANTS Ings, Services,   \* names of ingresses and of services
          Specs,            \* Specs[i]: the specifications users give ingress i
          EpStates,         \* address sets an endpoints object may have
          Contents,         \* contents users give the config maps
          Apis,             \* the states of the API server to start from
          NoObject,         \* an object that does not exist
          Idle,             \* the worker without an item
          MaxWrites,        \* bound: writes of users and restarts in a run
          Events            \* bound: what else happens in a run

\* Users delete ingresses, the lease is acquired, nginx -t may not run or its
\* output may be lost, the controller's container may restart.
ASSUME EventsAssumption == Events \subseteq {"delete", "elect", "breakTest", "restart"}

\* A name is that of one kind of object, as in a key of the informers' caches.
ASSUME NamesAssumption ==
    Ings \cap Services = {} /\ Ings \cap ConfigMaps = {} /\ Services \cap ConfigMaps = {}

\* The bound is a number.
ASSUME MaxWritesAssumption == MaxWrites \in Nat

\* A config map that users write has some data.
ASSUME ContentsAssumption == Empty \notin Contents

Objects == Ings \cup Services \cup ConfigMaps

\* A specification is a sequence of rules, and a rule has a sequence of paths
\* that lead to services.
ASSUME SpecsAssumption ==
    \A i \in Ings : \A spec \in Specs[i] :
        /\ spec \in Seq(ToSet(spec))
        /\ \A r \in ToSet(spec) :
            r.paths \in Seq(ToSet(r.paths)) /\ \A p \in ToSet(r.paths) : p.svc \in Services

\* The hosts and the paths users give an ingress.
HostsOf(i) == UNION {{r.host : r \in ToSet(spec)} : spec \in Specs[i]}
PathsGiven(i) == UNION {ToSet(PathsOf(spec)) : spec \in Specs[i]}

\* The ingress i as the API server has it.
IsIngressObject(i, obj) ==
    /\ DOMAIN obj = {"spec", "state", "last", "rv"}
    /\ obj.spec \in Specs[i]
    /\ obj.state \in {"", "Ready", "unReady"}
    /\ DOMAIN obj.last \subseteq HostsOf(i)

\* What users may have left at the API server before the controller starts.
ASSUME ApisAssumption ==
    \A objects \in Apis :
        /\ DOMAIN objects = Objects
        /\ \A i \in Ings : objects[i] # NoObject => IsIngressObject(i, objects[i]) /\ objects[i].rv = 0
        /\ \A s \in Services : objects[s] \in EpStates \cup {NoObject}
        /\ \A c \in ConfigMaps : objects[c] \in Contents \cup {NoObject}

IngressKey(event, i) == [kind |-> "ExtendIngress", event |-> event, name |-> i]
EndpointKey(event, i, svc, q) ==
    [kind |-> "Endpoint", event |-> event, name |-> i, svc |-> svc, path |-> q]
ConfigmapKey(event, c) == [kind |-> "Configmap", event |-> event, name |-> c]

\* The key of a deletion carries the hosts and paths of the deleted object.
DelKey(i, spec) ==
    [kind |-> "ExtendIngress", event |-> "Del", name |-> i,
     groups |-> [k \in DOMAIN spec |->
        [host |-> spec[k].host, paths |-> [n \in DOMAIN spec[k].paths |-> spec[k].paths[n].path]]]]

Keys ==
    {IngressKey(event, i) : event \in {"ADD", "Update"}, i \in Ings}
    \cup (UNION {{DelKey(i, spec) : spec \in Specs[i]} : i \in Ings})
    \cup (UNION {{EndpointKey(event, i, p.svc, p.path) :
                    event \in {"ADD", "Update", "Del"}, p \in PathsGiven(i)} : i \in Ings})
    \cup {ConfigmapKey(event, c) : event \in {"ADD", "Update", "Del"}, c \in ConfigMaps}

\* The queue's items are these keys.
ASSUME ItemsAssumption == Items = Keys

\* The worker without an item holds none of them.
ASSUME IdleAssumption == Idle \notin Keys

VARIABLES api,              \* the objects at the API server
          rv,               \* the last resource version it gave out
          writes,           \* steps of the environment so far
          watch,            \* per object: changes on the way to the informer
          store,            \* the informers' caches, read through the listers
          listing,          \* objects of the first list not in the cache yet
          notes,            \* per service: events its endpoints handler has to see
          job,              \* the worker: program counter, item and what it read
          cfg,              \* extendIngressCfg
          start,            \* extendIngressCfg.Start
          election,         \* controller.election
          file,             \* what nginx.conf says
          live              \* what nginx runs, or Idle

apiVars == <<api, rv, writes>>
cacheVars == <<watch, store, listing, notes>>
workVars == <<queue, dirty, processing, shuttingDown, delayed>>
cfgVars == <<cfg, start, file, live>>
vars == <<apiVars, cacheVars, workVars, job, cfgVars, election>>
------------------------------------------------------------------------------
NewIngress(spec, version) == [spec |-> spec, state |-> "", last |-> NoServers, rv |-> version]

IdleJob == [pc |-> "idle", item |-> Idle, obj |-> NoObject, addresses |-> NoServers]

\* The first list of the informers, after which they watch.
Listed(objects) == {o \in Objects : objects[o] # NoObject}
FirstList(objects) == [o \in Objects |-> IF objects[o] = NoObject THEN <<>> ELSE <<objects[o]>>]

\* A new process knows nothing; nginx.conf is the one of the image.
Init ==
    /\ api \in Apis
    /\ rv = 0
    /\ writes = 0
    /\ watch = FirstList(api)
    /\ store = [o \in Objects |-> NoObject]
    /\ listing = Listed(api)
    /\ notes = [s \in Services |-> <<>>]
    /\ LimitedInit
    /\ job = IdleJob
    /\ cfg = EmptyCfg
    /\ start = TRUE
    /\ election = FALSE
    /\ file = returnBaseCfg
    /\ live = Idle

\* The container dies at any point and comes back with an empty memory.
Restart ==
    /\ "restart" \in Events
    /\ writes < MaxWrites
    /\ writes' = writes + 1
    /\ watch' = FirstList(api)
    /\ store' = [o \in Objects |-> NoObject]
    /\ listing' = Listed(api)
    /\ notes' = [s \in Services |-> <<>>]
    /\ queue' = <<>>
    /\ dirty' = {}
    /\ processing' = {}
    /\ delayed' = [k \in Keys |-> 0]
    /\ job' = IdleJob
    /\ cfg' = EmptyCfg
    /\ start' = TRUE
    /\ election' = FALSE
    /\ file' = returnBaseCfg
    /\ live' = Idle
    /\ UNCHANGED <<api, rv, shuttingDown>>
------------------------------------------------------------------------------
\* The API server stores an object and sends it to the watching informer.
Put(o, value) ==
    /\ api' = [api EXCEPT ![o] = value]
    /\ watch' = [watch EXCEPT ![o] = Append(@, value)]

UserWrites(o, value) ==
    /\ writes < MaxWrites
    /\ api[o] # value
    /\ Put(o, value)
    /\ writes' = writes + 1
    /\ UNCHANGED <<store, listing, notes, workVars, job, cfgVars, election>>

CreateIngress(i, spec) ==
    /\ api[i] = NoObject
    /\ UserWrites(i, NewIngress(spec, rv + 1))
    /\ rv' = rv + 1

\* A user keeps the status; the same specification again stands for a
\* change of labels or annotations.
UpdateIngress(i, spec) ==
    /\ api[i] # NoObject
    /\ UserWrites(i, [api[i] EXCEPT !.spec = spec, !.rv = rv + 1])
    /\ rv' = rv + 1

DeleteIngress(i) == "delete" \in Events /\ UserWrites(i, NoObject) /\ UNCHANGED rv

WriteEndpoints(s, value) == UserWrites(s, value) /\ UNCHANGED rv

WriteConfigMap(c, value) == UserWrites(c, value) /\ UNCHANGED rv
------------------------------------------------------------------------------
\* HandleDeltas updates the indexer and notifies.  Informers of the three
\* kinds run concurrently; the order of one object's changes is kept.
\*
\* The handlers of ingresses and config maps only read the notification, and
\* their key shows once it ripens: they run along with the informer's step.
\*
\* Mutant of IngressNotified: an ingress that was tested before is no news.
UntestedNotified(i, old, new) ==
    IF new # NoObject /\ new.state # "" THEN {}
    ELSE IF old = NoObject THEN {IngressKey("ADD", i)}
    ELSE IF new = NoObject THEN {DelKey(i, old.spec)}
    ELSE {IngressKey("Update", i)}

IngressNotified(i, old, new) ==
    IF old = NoObject THEN {IngressKey("ADD", i)}
    ELSE IF new = NoObject THEN {DelKey(i, old.spec)}
    ELSE IF old.rv = new.rv \/ old.spec = new.spec THEN {}
    ELSE {IngressKey("Update", i)}

\* Mutant of ConfigMapNotified: the handler of deletions is missing.
ConfigMapWritten(c, old, new) ==
    IF new \in {old, NoObject} THEN {} ELSE {ConfigmapKey("Update", c)}

ConfigMapNotified(c, old, new) ==
    IF old = NoObject THEN {ConfigmapKey("ADD", c)}
    ELSE IF new = NoObject THEN {ConfigmapKey("Del", c)}
    ELSE IF old = new THEN {}
    ELSE {ConfigmapKey("Update", c)}

\* Mutant of EndpointsNotified: losing all addresses is no news.
AddressesNotified(old, new) ==
    IF new \in {old, NoObject, {}} THEN <<>> ELSE <<"Update">>

EndpointsNotified(old, new) ==
    IF old = NoObject THEN IF new = {} THEN <<>> ELSE <<"ADD">>
    ELSE IF new = NoObject THEN <<"Del">>
    ELSE IF old = new THEN <<>>
    ELSE <<"Update">>

Notified(o, old, new) ==
    IF o \in Ings THEN IngressNotified(o, old, new)
    ELSE IF o \in ConfigMaps THEN ConfigMapNotified(o, old, new)
    ELSE {}

\* AddRateLimited for every key of a set.
AddAll(S) == delayed' = [k \in Keys |-> delayed[k] + IF k \in S THEN 1 ELSE 0]

HandleDeltas(o) ==
    /\ watch[o] # <<>>
    /\ watch' = [watch EXCEPT ![o] = Tail(@)]
    /\ store' = [store EXCEPT ![o] = Head(watch[o])]
    /\ listing' = listing \ {o}
    /\ AddAll(Notified(o, store[o], Head(watch[o])))
    /\ notes' = IF o \in Services
                THEN [notes EXCEPT ![o] = @ \o EndpointsNotified(store[o], Head(watch[o]))]
                ELSE notes
    /\ UNCHANGED <<apiVars, queueVars, job, cfgVars, election>>

\* handleEndpointObj and enqueueEndpoint: one key for every path of every
\* ingress in the cache that names the service, as the cache is now.
HandleEndpoints(s) ==
    /\ notes[s] # <<>>
    /\ notes' = [notes EXCEPT ![s] = Tail(@)]
    /\ AddAll(UNION {{EndpointKey(Head(notes[s]), i, s, p.path) :
                    p \in {p \in ToSet(PathsOf(store[i].spec)) : p.svc = s}} :
               i \in {i \in Ings : store[i] # NoObject}})
    /\ UNCHANGED <<apiVars, watch, store, listing, queueVars, job, cfgVars, election>>

\* The waiting loop of the queue.
Enqueue(k) ==
    /\ Ripen(k) \/ Merge(k)
    /\ UNCHANGED <<apiVars, cacheVars, job, cfgVars, election>>

\* The lease is acquired and electionRun sets the flag.
Elect ==
    /\ "elect" \in Events
    /\ listing = {}
    /\ ~election
    /\ election' = TRUE
    /\ UNCHANGED <<apiVars, cacheVars, workVars, job, cfgVars>>
------------------------------------------------------------------------------
\* The worker.  Run starts it once the caches have synced.
Goto(pc) == job' = [job EXCEPT !.pc = pc]

IsIngress == job.item.kind = "ExtendIngress"
IsConfigmap == job.item.kind = "Configmap"
IsEndpoint == job.item.kind = "Endpoint"

GetItem ==
    /\ job.pc = "idle"
    /\ listing = {}
    /\ \E k \in ToSet(queue) : Get(k) /\ job' = [IdleJob EXCEPT !.pc = "got", !.item = k]
    /\ UNCHANGED <<apiVars, cacheVars, delayed, cfgVars, election>>

\* syncHandler, deletion: only the key is read.
SyncDelete ==
    /\ job.pc = "got"
    /\ IsIngress /\ job.item.event = "Del"
    /\ LET out == delServerAndUpstreamFromCfg(cfg, job.item.groups)
       IN  /\ cfg' = out.cfg
           /\ Goto(IF out.panicked THEN "done" ELSE "check")
    /\ UNCHANGED <<apiVars, cacheVars, workVars, start, file, live, election>>

SyncConfigmap ==
    /\ job.pc = "got"
    /\ IsConfigmap
    /\ cfg' = [cfg EXCEPT !.conf[job.item.name] =
                    IF store[job.item.name] = NoObject THEN Empty ELSE store[job.item.name]]
    /\ Goto("check")
    /\ UNCHANGED <<apiVars, cacheVars, workVars, start, file, live, election>>

\* Mutant of LookUp: an ingress that was not found is used.
LookUpAnyway ==
    /\ job.pc = "got"
    /\ IsEndpoint \/ (IsIngress /\ job.item.event # "Del")
    /\ job' = [job EXCEPT !.obj = store[job.item.name], !.pc = "found"]
    /\ UNCHANGED <<apiVars, cacheVars, workVars, cfgVars, election>>

\* The lister finds the ingress, or syncHandler returns without rendering.
LookUp ==
    /\ job.pc = "got"
    /\ IsEndpoint \/ (IsIngress /\ job.item.event # "Del")
    /\ job' = [job EXCEPT !.obj = store[job.item.name],
                          !.pc  = IF store[job.item.name] = NoObject THEN "done" ELSE "found"]
    /\ UNCHANGED <<apiVars, cacheVars, workVars, cfgVars, election>>

Addresses == [s \in Services |-> IF store[s] = NoObject THEN {} ELSE store[s]]

SyncEndpoints ==
    /\ job.pc = "found"
    /\ IsEndpoint
    /\ LET k   == job.item
           out == updateEndpointsToCfg(cfg, k.name, k.svc, k.path, job.obj.spec, Addresses[k.svc])
       IN  IF job.obj.state = "unReady"
           THEN cfg' = cfg /\ Goto("check")
           ELSE cfg' = out.cfg /\ Goto(IF out.panicked THEN "done" ELSE "check")
    /\ UNCHANGED <<apiVars, cacheVars, workVars, start, file, live, election>>

\* parseExtendIngressIntoCfg reads the endpoints and lets nginx test.
Parse ==
    /\ job.pc = "found"
    /\ IsIngress
    /\ job' = [job EXCEPT !.addresses = Addresses, !.pc = "parsed"]
    /\ UNCHANGED <<apiVars, cacheVars, workVars, cfgVars, election>>

\* The status write: the whole object, refused when it is not the version
\* the cache had.  An object equal to the stored one is no write.
\*
\* Mutant of UpdateStatus: whatever version the API server has is replaced.
ForceStatus(i, obj, state) ==
    LET update == [obj EXCEPT !.state = state, !.last = LastPaths(obj.spec), !.rv = rv + 1]
    IN  IF election /\ api[i] # NoObject
        THEN Put(i, update) /\ rv' = rv + 1
        ELSE UNCHANGED <<api, watch, rv>>

UpdateStatus(i, obj, state) ==
    LET update == [obj EXCEPT !.state = state, !.last = LastPaths(obj.spec), !.rv = rv + 1]
    IN  IF /\ election
           /\ api[i] # NoObject /\ api[i].rv = obj.rv
           /\ <<api[i].state, api[i].last>> # <<update.state, update.last>>
        THEN Put(i, update) /\ rv' = rv + 1
        ELSE UNCHANGED <<api, watch, rv>>

\* updateServerAndUpstreamToCfg deletes from the LastPaths of the object it
\* got from the lister: the cache changes if it still holds that object.
CacheAfter(i, obj, last) ==
    IF store[i] # NoObject /\ store[i].rv = obj.rv
    THEN [store EXCEPT ![i].last = last]
    ELSE store

\* The state after the test.  Output with neither "test failed" nor
\* "successful" (the file or the command could not be run) keeps the old one.
\*
\* Mutant of Verdicts: an ingress that passed once stays Ready.
KeptVerdicts(parsed) ==
    {IF checkIngressValid(parsed) \/ job.obj.state = "Ready" THEN "Ready" ELSE "unReady"}

Verdicts(parsed) ==
    {IF checkIngressValid(parsed) THEN "Ready" ELSE "unReady"}
    \cup (IF "breakTest" \in Events THEN {job.obj.state} ELSE {})

\* nginx -t without any output: there is no error to log, and err.Error()
\* panics unless the old state is Ready.
SilentTest(state) == "breakTest" \in Events /\ state = job.obj.state

SyncIngress ==
    /\ job.pc = "parsed"
    /\ LET i      == job.item.name
           parsed == extendingressToServer(i, job.obj.spec, job.addresses)
       IN  \E state \in Verdicts(parsed) :
           IF state = "Ready"
           THEN \E out \in updateServerAndUpstreamToCfg(cfg, parsed, job.obj.last, i) :
                    /\ cfg' = out.cfg
                    /\ store' = CacheAfter(i, job.obj, out.last)
                    /\ IF out.panicked
                       THEN Goto("done") /\ UNCHANGED <<api, watch, rv>>
                       ELSE Goto("check") /\ UpdateStatus(i, job.obj, state)
           ELSE /\ \/ UpdateStatus(i, job.obj, state) /\ Goto("check")
                   \/ SilentTest(state) /\ Goto("done") /\ UNCHANGED <<api, watch, rv>>
                /\ UNCHANGED <<cfg, store>>
    /\ UNCHANGED <<writes, listing, notes, workVars, start, file, live, election>>

\* if c.workqueue.Len() == 0 { time.Sleep(time.Second) ...
\*
\* Mutant of CheckLen: the queue is taken to contain the item in work.
CheckLenOfOne ==
    /\ job.pc = "check"
    /\ Goto(IF Len(queue) = 1 THEN "slept" ELSE "done")
    /\ UNCHANGED <<apiVars, cacheVars, workVars, cfgVars, election>>

CheckLen ==
    /\ job.pc = "check"
    /\ Goto(IF queue = <<>> THEN "slept" ELSE "done")
    /\ UNCHANGED <<apiVars, cacheVars, workVars, cfgVars, election>>

\* What the test of the base configuration lets through: without any output
\* there is no error and contents are written that nobody tested, and with the
\* verdict lost, or no command, accepted ones are not.
BaseVerdicts(c) == IF "breakTest" \in Events THEN BOOLEAN ELSE {ConfAccepted(c)}

\* rebuildNginxConf, startOrReloadNginx and Start = false.  A refused base
\* configuration leaves nginx.conf as it is; nginx is started or reloaded
\* nevertheless.  A reload needs a running nginx and keeps the old
\* configuration when it refuses the new one.
\*
\* Mutant of Render: nginx is started and never reloaded.
RenderAndStart ==
    /\ job.pc = "slept"
    /\ queue = <<>>
    /\ cfg' = WithBaseConf(cfg)
    /\ \E accepted \in BaseVerdicts(cfg') : file' = IF accepted THEN cfg' ELSE file
    /\ live' = IF start /\ NginxAccepts(file') THEN file' ELSE live
    /\ start' = FALSE
    /\ Goto("done")
    /\ UNCHANGED <<apiVars, cacheVars, workVars, election>>

Render ==
    /\ job.pc = "slept"
    /\ queue = <<>>
    /\ cfg' = WithBaseConf(cfg)
    /\ \E accepted \in BaseVerdicts(cfg') : file' = IF accepted THEN cfg' ELSE file
    /\ live' = IF NginxAccepts(file') /\ (start \/ live # Idle) THEN file' ELSE live
    /\ start' = FALSE
    /\ Goto("done")
    /\ UNCHANGED <<apiVars, cacheVars, workVars, election>>

\* ... and another item has come meanwhile: it will render.
LeaveRender ==
    /\ job.pc = "slept"
    /\ queue # <<>>
    /\ Goto("done")
    /\ UNCHANGED <<apiVars, cacheVars, workVars, cfgVars, election>>

FinishItem ==
    /\ job.pc = "done"
    /\ Done(job.item)
    /\ job' = IdleJob
    /\ UNCHANGED <<apiVars, cacheVars, delayed, cfgVars, election>>
------------------------------------------------------------------------------
Environment ==
    \/ \E i \in Ings : \E spec \in Specs[i] : CreateIngress(i, spec) \/ UpdateIngress(i, spec)
    \/ \E i \in Ings : DeleteIngress(i)
    \/ \E s \in Services, value \in EpStates : WriteEndpoints(s, value)
    \/ \E c \in ConfigMaps, value \in Contents : WriteConfigMap(c, value)
    \/ Restart

Worker ==
    \/ GetItem
    \/ SyncDelete
    \/ SyncConfigmap
    \/ LookUp
    \/ SyncEndpoints
    \/ Parse
    \/ SyncIngress
    \/ CheckLen
    \/ Render
    \/ LeaveRender
    \/ FinishItem

Next ==
    \/ Environment
    \/ \E o \in Objects : HandleDeltas(o)
    \/ \E s \in Services : HandleEndpoints(s)
    \/ \E k \in Keys : Enqueue(k)
    \/ Elect
    \/ Worker

\* The goroutines of the informers, of the handlers, of the queue and of the
\* worker are scheduled.  Nobody has to write an object.
Fairness ==
    /\ \A o \in Objects : WF_vars(HandleDeltas(o))
    /\ \A s \in Services : WF_vars(HandleEndpoints(s))
    /\ \A k \in Keys : WF_vars(Enqueue(k))
    /\ WF_vars(Elect)
    /\ WF_vars(Worker)

Spec == Init /\ [][Next]_vars /\ Fairness
------------------------------------------------------------------------------
\* Copies of an ingress have versions the API server gave out.
IngressTypeOK(i, obj) == IsIngressObject(i, obj) /\ obj.rv \in 0..rv

ObjectTypeOK(o, value) ==
    \/ value = NoObject
    \/ o \in Ings /\ IngressTypeOK(o, value)
    \/ o \in Services /\ value \in EpStates
    \/ o \in ConfigMaps /\ value \in Contents

TypeOK ==
    /\ LimitedTypeOK
    /\ \A o \in Objects :
        /\ ObjectTypeOK(o, api[o]) /\ ObjectTypeOK(o, store[o])
        /\ \A k \in DOMAIN watch[o] : ObjectTypeOK(o, watch[o][k])
    /\ writes \in 0..MaxWrites
    /\ listing \subseteq Objects
    /\ \A s \in Services : notes[s] \in Seq({"ADD", "Update", "Del"})
    /\ job.pc \in {"idle", "got", "found", "parsed", "check", "slept", "done"}
    /\ IF job.pc = "idle" THEN job.item = Idle ELSE job.item \in Keys
    /\ job.pc \in {"found", "parsed"} => job.obj # NoObject /\ IngressTypeOK(job.item.name, job.obj)
    /\ DOMAIN cfg.conf = ConfigMaps
    /\ start \in BOOLEAN /\ election \in BOOLEAN

\* Keys whose handling has not read the caches yet.
Pending == {k \in Keys : delayed[k] > 0} \cup dirty \cup (IF job.pc = "got" THEN {job.item} ELSE {})

\* Nothing is on its way to the worker, and the worker waits.
Quiet ==
    /\ \A o \in Objects : watch[o] = <<>>
    /\ \A s \in Services : notes[s] = <<>>
    /\ Pending = {}
    /\ job.pc = "idle"

\* Level triggering of config maps: whenever the content in memory is not
\* that of the cache, a key that will read the cache again is pending.  No
\* sequence of adds, updates and deletes, merged or reordered by the queue,
\* leaves an old content behind.
ConfigMapsCatchUp ==
    \A c \in ConfigMaps :
        \/ cfg.conf[c] = store[c]
        \/ store[c] = NoObject /\ cfg.conf[c] \in {Empty, Base}
        \/ \E k \in Pending : k.kind = "Configmap" /\ k.name = c

\* Level triggering of endpoints: a configured location whose upstream does
\* not have the addresses of the cache has a notification of its service, a key
\* of its ingress or of its own, or a step of the worker before it that will
\* look again.
ServesAddresses(i, h, p) ==
    LET loc == cfg.servers[h][p.path]
        up  == getProxyPass(i, p.svc, p.path)
    IN  IF Addresses[p.svc] = {} THEN loc.proxy = Unavailable
        ELSE loc.proxy = up /\ up \in DOMAIN cfg.ups /\ cfg.ups[up].eps = Addresses[p.svc]

WillLookAgain(i, p) ==
    \/ notes[p.svc] # <<>>
    \/ \E k \in Pending : k.kind = "ExtendIngress" /\ k.event # "Del" /\ k.name = i
    \/ \E k \in Pending : k.kind = "Endpoint" /\ k.name = i /\ k.svc = p.svc /\ k.path = p.path
    \/ job.pc \in {"found", "parsed"} /\ job.item.name = i /\ IsIngress
    \/ job.pc = "found" /\ IsEndpoint
       /\ job.item.name = i /\ job.item.svc = p.svc /\ job.item.path = p.path

EndpointsCatchUp ==
    \A i \in Ings : store[i] # NoObject =>
        \A k \in DOMAIN store[i].spec : \A p \in ToSet(store[i].spec[k].paths) :
            LET h == store[i].spec[k].host
            IN  \/ h \notin DOMAIN cfg.servers \/ p.path \notin DOMAIN cfg.servers[h]
                \/ ServesAddresses(i, h, p)
                \/ WillLookAgain(i, p)

\* README.md:7 promises that the configuration is written to nginx
\* automatically: when nothing is left to do, nginx.conf says what the
\* configuration in memory says, and that of a repaired config map too.  (An
\* item that finds the queue not empty leaves the rendering to the next one.)
Rendered(c) == LET full == WithBaseConf(c) IN IF ConfAccepted(full) THEN full ELSE file

NothingUnwritten ==
    Quiet => file = Rendered(cfg)

\* extendingress.go:88, "check the servers and upstreams parse by ingress is
\* valid": no parameter that the test refuses gets into a location of the
\* configuration in memory, whatever happens between the test and the install.
LocationsTested ==
    \A h \in DOMAIN cfg.servers : \A q \in DOMAIN cfg.servers[h] :
        cfg.servers[h][q].par \notin BadParams

\* extendingress.go:88 as well: what is installed was tested as a whole, so
\* every proxy_pass of the configuration names an upstream it has.
NoDanglingProxy ==
    \A h \in DOMAIN cfg.servers : \A q \in DOMAIN cfg.servers[h] :
        cfg.servers[h][q].proxy \in DOMAIN cfg.ups \cup {Unavailable}

\* Work on one ingress leaves the hosts of all others alone, and the upstreams
\* their locations use, as long as no host has two ingresses and the process
\* does not die over it.
OthersUntouched ==
    [][job.pc \in {"got", "found", "parsed"} /\ job'.pc # "idle" /\ ~IsConfigmap =>
        \A h \in DOMAIN cfg.servers \ HostsOf(job.item.name) :
            /\ h \in DOMAIN cfg'.servers /\ cfg'.servers[h] = cfg.servers[h]
            /\ \A q \in DOMAIN cfg.servers[h] : LET u == cfg.servers[h][q].proxy IN
                    u \in DOMAIN cfg.ups => u \in DOMAIN cfg'.ups /\ cfg'.ups[u] = cfg.ups[u]]_vars

\* No location outlives the specification it comes from.
NoLeftovers ==
    Quiet /\ election => \A h \in DOMAIN cfg.servers : \A q \in DOMAIN cfg.servers[h] :
        \E i \in Ings : api[i] # NoObject /\ h \in DOMAIN LastPaths(api[i].spec)
                        /\ \E p \in ToSet(LastPaths(api[i].spec)[h]) : p.path = q

\* The status write never takes back what a user wrote meanwhile, and never
\* brings a deleted ingress back.
StatusKeepsUserWrites ==
    [][writes' = writes =>
        \A i \in Ings : api'[i] # api[i] =>
            api[i] # NoObject /\ api'[i].spec = api[i].spec]_vars

\* What a user asked for: every location of an ingress that passes the test
\* goes to its service, or says 503 while that has no address.
Wanted == [s \in Services |-> IF api[s] = NoObject THEN {} ELSE api[s]]

Served(i, c) ==
    \A k \in DOMAIN api[i].spec : \A p \in ToSet(api[i].spec[k].paths) :
        LET h == api[i].spec[k].host
        IN  /\ h \in DOMAIN c.servers /\ p.path \in DOMAIN c.servers[h]
            /\ c.servers[h][p.path] = Location(i, p, Wanted)
            /\ Wanted[p.svc] # {} => c.ups[getProxyPass(i, p.svc, p.path)].eps = Wanted[p.svc]

Valid(i) == api[i] # NoObject /\ checkIngressValid(extendingressToServer(i, api[i].spec, Wanted))

\* controller.go:602, syncHandler "compares the actual state with the desired,
\* and attempts to converge the two": when nothing is left to do, the
\* configuration serves every valid ingress there is.
ConvergedWhenQuiet == Quiet => \A i \in Ings : Valid(i) => Served(i, cfg)

\* The whole way: what users left at the API server is, from some point on,
\* what nginx serves.
NginxConverges ==
    <>[](\A i \in Ings : Valid(i) => live # Idle /\ Served(i, live))
==============================================================================
