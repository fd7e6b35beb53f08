-------------------------- MODULE ControllerProofs --------------------------
(***************************************************************************)
(* Level triggering of the config maps, for any set of config maps,        *)
(* contents, ingresses and services, and any number of writes: what the    *)
(* delayed, reordered and merged keys leave in memory is never older than  *)
(* the cache unless a key is pending that will read the cache again.       *)
(*                                                                         *)
(* ConfigMapsCatchUp is not inductive: it needs that the queue never shuts *)
(* down (so that a ripe key is not dropped), that the worker's item is a   *)
(* key of the kind it says, and that no content of a config map in the     *)
(* caches is the empty one, which rendering would replace.                 *)
(***************************************************************************)
EXTENDS Controller, ConfigProofs, TLAPS

\* The queue as its protocol sees it: one worker, who holds the job's item.
QueueFacts == INSTANCE QueueProofs WITH Workers   <- {"worker"},
                                        NoItem    <- Idle,
                                        MaxCopies <- 0,
                                        held      <- [w \in {"worker"} |-> job.item],
                                        exited    <- {}

\* The types the argument needs.
QueueTypes ==
    /\ delayed \in [Keys -> Nat]
    /\ dirty \in SUBSET Keys
    /\ queue \in Seq(Keys)
    /\ shuttingDown = FALSE

JobTypes ==
    /\ {"pc", "item"} \subseteq DOMAIN job
    /\ job.pc # "idle" => job.item \in Keys
    /\ job.pc \in {"found", "parsed"} => job.item.kind # "Configmap"

ConfTypes ==
    /\ "conf" \in DOMAIN cfg
    /\ DOMAIN cfg.conf = ConfigMaps

Written == Contents \cup {NoObject}

CacheTypes ==
    /\ DOMAIN api = Objects /\ DOMAIN store = Objects /\ DOMAIN watch = Objects
    /\ \A c \in ConfigMaps :
        api[c] \in Written /\ store[c] \in Written /\ watch[c] \in Seq(Written)

Types == QueueTypes /\ JobTypes /\ ConfTypes /\ CacheTypes

ConfInv == Types /\ ConfigMapsCatchUp

\* The elements of a channel after a change was sent.
LEMMA ToSetAppend ==
    ASSUME NEW S, NEW s \in Seq(S), NEW x \in S
    PROVE  ToSet(Append(s, x)) = ToSet(s) \cup {x}
BY QueueFacts!ToSetAppend, IdleAssumption, ItemsAssumption DEF ToSet, QueueFacts!ToSet

\* The elements that are left after Tail were there before.
LEMMA ToSetOfTail ==
    ASSUME NEW S, NEW s \in Seq(S), s # <<>>
    PROVE  ToSet(Tail(s)) \subseteq ToSet(s) /\ Head(s) \in ToSet(s)
<1>1. DOMAIN Tail(s) = 1..(Len(s) - 1) /\ DOMAIN s = 1..Len(s) /\ Len(s) \in Nat \ {0}
  OBVIOUS
<1>2. \A k \in 1..(Len(s) - 1) : Tail(s)[k] = s[k + 1] /\ k + 1 \in 1..Len(s)
  OBVIOUS
<1>3. Head(s) = s[1]
  OBVIOUS
<1> QED BY <1>1, <1>2, <1>3 DEF ToSet

\* A key of a config map names one.
LEMMA ConfigmapKeys ==
    /\ \A k \in Keys : k.kind = "Configmap" => k.name \in ConfigMaps
    /\ \A k \in Keys : k.kind # "Configmap" => k.name \in Ings
    /\ \A c \in ConfigMaps, event \in {"ADD", "Update", "Del"} :
            ConfigmapKey(event, c) \in Keys
    /\ \A c, event : ConfigmapKey(event, c).kind = "Configmap" /\ ConfigmapKey(event, c).name = c
<1>1. ASSUME NEW k \in Keys
      PROVE  \/ k.kind = "Configmap" /\ k.name \in ConfigMaps
             \/ k.kind # "Configmap" /\ k.name \in Ings
  <2>1. CASE \E event \in {"ADD", "Update"}, i \in Ings : k = IngressKey(event, i)
    BY <2>1 DEF IngressKey
  <2>2. CASE \E i \in Ings : \E spec \in Specs[i] : k = DelKey(i, spec)
    BY <2>2 DEF DelKey
  <2>3. CASE \E event \in {"ADD", "Update", "Del"}, i \in Ings : \E p \in PathsGiven(i) :
                k = EndpointKey(event, i, p.svc, p.path)
    BY <2>3 DEF EndpointKey
  <2>4. CASE \E event \in {"ADD", "Update", "Del"}, c \in ConfigMaps : k = ConfigmapKey(event, c)
    BY <2>4 DEF ConfigmapKey
  <2>5. CASE k \in UNION {{DelKey(i, spec) : spec \in Specs[i]} : i \in Ings}
    BY <2>2, <2>5
  <2>6. CASE k \in UNION {{EndpointKey(event, i, p.svc, p.path) :
                            event \in {"ADD", "Update", "Del"}, p \in PathsGiven(i)} : i \in Ings}
    BY <2>3, <2>6
  <2> QED BY <2>1, <2>4, <2>5, <2>6 DEF Keys
<1>2. \A c \in ConfigMaps, event \in {"ADD", "Update", "Del"} : ConfigmapKey(event, c) \in Keys
  BY DEF Keys
<1>3. \A c, event : ConfigmapKey(event, c).kind = "Configmap" /\ ConfigmapKey(event, c).name = c
  BY DEF ConfigmapKey
<1> QED BY <1>1, <1>2, <1>3

\* A new servers and ups field leaves the config maps alone ...
LEMMA ConfKept ==
    ASSUME ConfTypes, NEW s, NEW u
    PROVE  /\ DOMAIN [cfg EXCEPT !.servers = s, !.ups = u] = DOMAIN cfg
           /\ [cfg EXCEPT !.servers = s, !.ups = u].conf = cfg.conf
BY DEF ConfTypes

\* ... and so does the deletion of an ingress,
LEMMA DeletionKeepsConf ==
    ASSUME ConfTypes, NEW groups
    PROVE  /\ DOMAIN delServerAndUpstreamFromCfg(cfg, groups).cfg = DOMAIN cfg
           /\ delServerAndUpstreamFromCfg(cfg, groups).cfg.conf = cfg.conf
BY ConfKept DEF delServerAndUpstreamFromCfg

\* ... a change of endpoints,
LEMMA EndpointsKeepConf ==
    ASSUME ConfTypes, NEW ing, NEW svc, NEW q, NEW spec, NEW addresses
    PROVE  /\ DOMAIN updateEndpointsToCfg(cfg, ing, svc, q, spec, addresses).cfg = DOMAIN cfg
           /\ updateEndpointsToCfg(cfg, ing, svc, q, spec, addresses).cfg.conf = cfg.conf
BY ConfKept DEF updateEndpointsToCfg

\* ... and every outcome of installing an ingress.
LEMMA InstallationKeepsConf ==
    ASSUME ConfTypes, NEW parsed, NEW last, NEW ing,
           NEW out \in updateServerAndUpstreamToCfg(cfg, parsed, last, ing)
    PROVE  DOMAIN out.cfg = DOMAIN cfg /\ out.cfg.conf = cfg.conf
<1>1. \E st, H, ups : out.cfg = DropHosts(cfg, st, H, ups)
  BY DEF updateServerAndUpstreamToCfg
<1> QED BY <1>1, ConfKept DEF DropHosts

\* A step that changes neither the cache of config maps nor their contents in
\* memory, and that takes no pending key of a config map away.
LEMMA FrameKeepsConfInv ==
    ASSUME ConfInv, Types',
           \A c \in ConfigMaps : store'[c] = store[c],
           cfg'.conf = cfg.conf,
           \A k \in Pending : k.kind = "Configmap" => k \in Pending'
    PROVE  ConfInv'
BY DEF ConfInv, ConfigMapsCatchUp

\* Users write objects at the API server; the cache does not see it yet.
LEMMA UserKeepsConfInv ==
    ASSUME ConfInv, NEW o \in Objects, NEW value, UserWrites(o, value),
           o \in ConfigMaps => value \in Written
    PROVE  ConfInv'
<1> USE DEF UserWrites, Put, workVars, cfgVars
<1>1. Types'
  <2>1. QueueTypes' /\ JobTypes' /\ ConfTypes'
    BY DEF ConfInv, Types, QueueTypes, JobTypes, ConfTypes
  <2>2. \A c \in ConfigMaps : watch'[c] = watch[c] \/ (c = o /\ watch'[c] = Append(watch[c], value))
    BY DEF ConfInv, Types, CacheTypes, Objects
  <2>3. CacheTypes'
    BY <2>2 DEF ConfInv, Types, CacheTypes, Written
  <2> QED BY <2>1, <2>3 DEF Types
<1>2. Pending' = Pending
  BY DEF Pending
<1> QED BY <1>1, <1>2, FrameKeepsConfInv

\* A new process has read nothing.
LEMMA RestartKeepsConfInv ==
    ASSUME ConfInv, Restart
    PROVE  ConfInv'
<1>1. Types'
  <2>1. QueueTypes'
    BY DEF Restart, ConfInv, Types, QueueTypes
  <2>2. JobTypes' /\ ConfTypes'
    BY DEF Restart, JobTypes, ConfTypes, IdleJob, EmptyCfg
  <2>3. \A c \in ConfigMaps : watch'[c] \in Seq(Written)
    BY DEF Restart, FirstList, Objects, ConfInv, Types, CacheTypes
  <2>4. CacheTypes'
    BY <2>3 DEF Restart, ConfInv, Types, CacheTypes, FirstList, Objects, Written
  <2> QED BY <2>1, <2>2, <2>4 DEF Types
<1>2. \A c \in ConfigMaps : store'[c] = NoObject /\ cfg'.conf[c] = Empty
  BY DEF Restart, EmptyCfg, Objects
<1> QED BY <1>1, <1>2 DEF ConfInv, ConfigMapsCatchUp

\* AddAll takes nothing away.
LEMMA AddAllGrows ==
    ASSUME QueueTypes, NEW S, AddAll(S), UNCHANGED queueVars
    PROVE  /\ QueueTypes'
           /\ \A k \in Keys : delayed[k] > 0 \/ k \in S => delayed'[k] > 0
BY DEF AddAll, QueueTypes, queueVars

\* The informer replaces the content in the cache, and its handler hands in a
\* key that will read it unless nothing has changed.
LEMMA DeltasKeepConfInv ==
    ASSUME ConfInv, NEW o \in Objects, HandleDeltas(o)
    PROVE  ConfInv'
<1> DEFINE S == Notified(o, store[o], Head(watch[o]))
<1>1. QueueTypes' /\ \A k \in Keys : delayed[k] > 0 \/ k \in S => delayed'[k] > 0
  BY AddAllGrows DEF HandleDeltas, ConfInv, Types
<1> HIDE DEF S
<1>2. \A k \in Pending : k \in Pending'
  BY <1>1 DEF Pending, HandleDeltas, queueVars, ConfInv, Types, QueueTypes
<1>3. Types'
  <2>1. JobTypes' /\ ConfTypes'
    BY DEF HandleDeltas, cfgVars, ConfInv, Types, JobTypes, ConfTypes
  <2>2. CacheTypes'
    <3>1. \A c \in ConfigMaps : c = o => Head(watch[c]) \in Written /\ Tail(watch[c]) \in Seq(Written)
      BY DEF HandleDeltas, ConfInv, Types, CacheTypes
    <3> QED BY <3>1 DEF HandleDeltas, apiVars, ConfInv, Types, CacheTypes
  <2> QED BY <1>1, <2>1, <2>2 DEF Types
<1>4. cfg'.conf = cfg.conf
  BY DEF HandleDeltas, cfgVars
<1>5. CASE o \notin ConfigMaps
  <2>1. \A c \in ConfigMaps : store'[c] = store[c]
    BY <1>5 DEF HandleDeltas, ConfInv, Types, CacheTypes, Objects
  <2> QED BY <1>2, <1>3, <1>4, <2>1, FrameKeepsConfInv
<1>6. CASE o \in ConfigMaps
  <2>1. \A c \in ConfigMaps : c # o => store'[c] = store[c]
    BY DEF HandleDeltas, ConfInv, Types, CacheTypes, Objects
  <2>2. store'[o] = store[o] \/ \E event \in {"ADD", "Update", "Del"} : ConfigmapKey(event, o) \in S
    <3>1. o \notin Ings /\ S = ConfigMapNotified(o, store[o], Head(watch[o]))
      BY <1>6, NamesAssumption DEF S, Notified
    <3>2. store'[o] = Head(watch[o])
      BY DEF HandleDeltas, ConfInv, Types, CacheTypes
    <3> QED BY <3>1, <3>2 DEF ConfigMapNotified
  <2>3. store'[o] = store[o] \/ \E k \in Pending' : k.kind = "Configmap" /\ k.name = o
    BY <1>1, <1>6, <2>2, ConfigmapKeys DEF Pending
  <2>4. \A c \in ConfigMaps : \/ cfg'.conf[c] = store'[c]
                              \/ store'[c] = NoObject /\ cfg'.conf[c] \in {Empty, Base}
                              \/ \E k \in Pending' : k.kind = "Configmap" /\ k.name = c
    BY <1>2, <1>4, <2>1, <2>3 DEF ConfInv, ConfigMapsCatchUp
  <2> QED BY <1>3, <2>4 DEF ConfInv, ConfigMapsCatchUp
<1> QED BY <1>5, <1>6

\* The handler of endpoints only adds keys.
LEMMA EndpointHandlerKeepsConfInv ==
    ASSUME ConfInv, NEW s \in Services, HandleEndpoints(s)
    PROVE  ConfInv'
<1>1. QueueTypes' /\ \A k \in Keys : delayed[k] > 0 => delayed'[k] > 0
  BY AddAllGrows DEF HandleEndpoints, ConfInv, Types
<1>2. \A k \in Pending : k \in Pending'
  BY <1>1 DEF Pending, HandleEndpoints, queueVars, ConfInv, Types, QueueTypes
<1>3. Types'
  BY <1>1 DEF HandleEndpoints, cfgVars, apiVars, ConfInv, Types, JobTypes, ConfTypes, CacheTypes
<1> QED BY <1>2, <1>3, FrameKeepsConfInv DEF HandleEndpoints, cfgVars

\* A ripe key becomes dirty, for the queue does not shut down.
LEMMA EnqueueKeepsConfInv ==
    ASSUME ConfInv, NEW k \in Keys, Enqueue(k)
    PROVE  ConfInv'
<1>1. CASE Ripen(k)
  <2>1. /\ dirty' = dirty \cup {k} /\ shuttingDown' = FALSE
        /\ \A j \in Keys : j # k => delayed'[j] = delayed[j]
    BY <1>1 DEF Ripen, Add, ConfInv, Types, QueueTypes
  <2>2. QueueTypes'
    <3>1. delayed' \in [Keys -> Nat]
      BY <1>1 DEF Ripen, ConfInv, Types, QueueTypes
    <3>2. queue' = queue \/ queue' = Append(queue, k)
      BY <1>1 DEF Ripen, Add
    <3>3. queue' \in Seq(Keys)
      BY <3>2 DEF ConfInv, Types, QueueTypes
    <3> QED BY <2>1, <3>1, <3>3 DEF ConfInv, Types, QueueTypes
  <2>3. \A j \in Pending : j \in Pending'
    BY <2>1 DEF Pending, Enqueue
  <2>4. Types'
    BY <2>2 DEF Enqueue, cacheVars, cfgVars, apiVars, ConfInv, Types, JobTypes, ConfTypes, CacheTypes
  <2> QED BY <2>3, <2>4, FrameKeepsConfInv DEF Enqueue, cacheVars, cfgVars
<1>2. CASE Merge(k)
  <2>1. QueueTypes' /\ \A j \in Keys : delayed[j] > 0 => delayed'[j] > 0
    BY <1>2 DEF Merge, queueVars, ConfInv, Types, QueueTypes
  <2>2. \A j \in Pending : j \in Pending'
    BY <1>2, <2>1 DEF Pending, Merge, Enqueue, queueVars
  <2>3. Types'
    BY <2>1 DEF Enqueue, cacheVars, cfgVars, apiVars, ConfInv, Types, JobTypes, ConfTypes, CacheTypes
  <2> QED BY <2>2, <2>3, FrameKeepsConfInv DEF Enqueue, cacheVars, cfgVars
<1> QED BY <1>1, <1>2 DEF Enqueue

\* The worker takes an item: it is pending until its handling has read.
LEMMA GetKeepsConfInv ==
    ASSUME ConfInv, GetItem
    PROVE  ConfInv'
<1>1. PICK k \in ToSet(queue) : Get(k) /\ job' = [IdleJob EXCEPT !.pc = "got", !.item = k]
  BY DEF GetItem
<1>2. k \in Keys
  BY DEF ToSet, ConfInv, Types, QueueTypes
<1>3. /\ dirty' = dirty \ {k} /\ queue' = Tail(queue) /\ queue # <<>>
      /\ UNCHANGED <<delayed, shuttingDown>> /\ job'.pc = "got" /\ job'.item = k
      /\ {"pc", "item"} \subseteq DOMAIN job' /\ job.pc = "idle"
  BY <1>1 DEF GetItem, Get, IdleJob
<1>4. Types'
  <2>1. QueueTypes'
    BY <1>3 DEF ConfInv, Types, QueueTypes
  <2>2. JobTypes'
    BY <1>2, <1>3 DEF JobTypes
  <2>3. ConfTypes' /\ CacheTypes'
    BY DEF GetItem, cacheVars, cfgVars, apiVars, ConfInv, Types, ConfTypes, CacheTypes
  <2> QED BY <2>1, <2>2, <2>3 DEF Types
<1>5. \A j \in Pending : j \in Pending'
  BY <1>3 DEF Pending
<1> QED BY <1>4, <1>5, FrameKeepsConfInv DEF GetItem, cacheVars, cfgVars

\* A step of the worker that leaves the queue and the caches of config maps,
\* and does not handle a config map.
LEMMA WorkerKeepsConfInv ==
    ASSUME ConfInv, UNCHANGED workVars, job.pc # "got" \/ job.item.kind # "Configmap",
           NEW pc, job' = [job EXCEPT !.pc = pc] \/ \E obj : job' = [job EXCEPT !.obj = obj, !.pc = pc]
                   \/ \E addresses : job' = [job EXCEPT !.addresses = addresses, !.pc = pc],
           job.pc # "idle", pc # "got", pc \in {"found", "parsed"} => job.item.kind # "Configmap",
           CacheTypes', \A c \in ConfigMaps : store'[c] = store[c],
           DOMAIN cfg' = DOMAIN cfg, cfg'.conf = cfg.conf
    PROVE  ConfInv'
<1>1. DOMAIN job' = DOMAIN job /\ job'.item = job.item /\ job'.pc = pc
  BY DEF ConfInv, Types, JobTypes
<1>2. Types'
  BY <1>1 DEF workVars, ConfInv, Types, QueueTypes, JobTypes, ConfTypes
<1>3. \A k \in Pending : k.kind = "Configmap" => k \in Pending'
  BY <1>1 DEF workVars, Pending
<1> QED BY <1>2, <1>3, FrameKeepsConfInv

\* The deletion of an ingress.
LEMMA DeletionKeepsConfInv ==
    ASSUME ConfInv, SyncDelete
    PROVE  ConfInv'
<1>1. DOMAIN cfg' = DOMAIN cfg /\ cfg'.conf = cfg.conf
  BY DeletionKeepsConf DEF SyncDelete, ConfInv, Types
<1>2. \E pc \in {"done", "check"} : job' = [job EXCEPT !.pc = pc]
  BY DEF SyncDelete, Goto
<1>3. CacheTypes' /\ UNCHANGED <<workVars, store>> /\ job.pc = "got" /\ job.item.kind # "Configmap"
  BY DEF SyncDelete, cacheVars, apiVars, IsIngress, ConfInv, Types, CacheTypes
<1> QED BY <1>1, <1>2, <1>3, WorkerKeepsConfInv

\* The content of a config map is read from the cache: it is up to date now.
LEMMA ConfigmapKeepsConfInv ==
    ASSUME ConfInv, SyncConfigmap
    PROVE  ConfInv'
<1> DEFINE c == job.item.name
<1>1. /\ c \in ConfigMaps /\ job.pc = "got" /\ UNCHANGED <<workVars, store>>
      /\ job' = [job EXCEPT !.pc = "check"]
  BY ConfigmapKeys DEF SyncConfigmap, IsConfigmap, Goto, cacheVars, ConfInv, Types, JobTypes
<1>2. /\ DOMAIN cfg' = DOMAIN cfg /\ DOMAIN cfg'.conf = DOMAIN cfg.conf
      /\ \A d \in ConfigMaps : d # c => cfg'.conf[d] = cfg.conf[d]
      /\ cfg'.conf[c] = IF store[c] = NoObject THEN Empty ELSE store[c]
  BY <1>1 DEF SyncConfigmap, ConfInv, Types, ConfTypes
<1> HIDE DEF c
<1>3. DOMAIN job' = DOMAIN job /\ job'.item = job.item /\ job'.pc = "check"
  BY <1>1 DEF ConfInv, Types, JobTypes
<1>4. Types'
  <2>1. QueueTypes' /\ JobTypes' /\ ConfTypes'
    BY <1>1, <1>2, <1>3 DEF workVars, ConfInv, Types, QueueTypes, JobTypes, ConfTypes
  <2>2. CacheTypes'
    BY DEF SyncConfigmap, cacheVars, apiVars, ConfInv, Types, CacheTypes
  <2> QED BY <2>1, <2>2 DEF Types
<1>5. \A k \in Pending : k = job.item \/ k \in Pending'
  BY <1>1 DEF workVars, Pending
<1>6. \A d \in ConfigMaps : d # c =>
        \/ cfg'.conf[d] = store'[d]
        \/ store'[d] = NoObject /\ cfg'.conf[d] \in {Empty, Base}
        \/ \E k \in Pending' : k.kind = "Configmap" /\ k.name = d
  BY <1>1, <1>2, <1>5 DEF c, ConfInv, ConfigMapsCatchUp
<1> QED BY <1>1, <1>2, <1>4, <1>6 DEF ConfInv, ConfigMapsCatchUp

\* The steps of the worker that only move on.
LEMMA MovingOnKeepsConfInv ==
    ASSUME ConfInv, LookUp \/ Parse \/ CheckLen \/ LeaveRender
    PROVE  ConfInv'
<1>1. CacheTypes' /\ UNCHANGED <<workVars, store, cfg>>
  BY DEF LookUp, Parse, CheckLen, LeaveRender, cacheVars, apiVars, cfgVars, ConfInv, Types, CacheTypes
<1>2. CASE LookUp
  <2>1. PICK pc \in {"done", "found"} : job' = [job EXCEPT !.obj = store[job.item.name], !.pc = pc]
    BY <1>2 DEF LookUp
  <2>2. job.pc = "got" /\ job.item.kind # "Configmap"
    BY <1>2 DEF LookUp, IsEndpoint, IsIngress
  <2> QED BY <1>1, <2>1, <2>2, WorkerKeepsConfInv
<1>3. CASE Parse
  <2>1. /\ job.pc = "found" /\ job' = [job EXCEPT !.addresses = Addresses, !.pc = "parsed"]
        /\ job.item.kind # "Configmap"
    BY <1>3 DEF Parse, ConfInv, Types, JobTypes
  <2> QED BY <1>1, <2>1, WorkerKeepsConfInv
<1>4. CASE CheckLen \/ LeaveRender
  <2>1. job.pc \in {"check", "slept"} /\ \E pc \in {"slept", "done"} : job' = [job EXCEPT !.pc = pc]
    BY <1>4 DEF CheckLen, LeaveRender, Goto
  <2> QED BY <1>1, <2>1, WorkerKeepsConfInv
<1> QED BY <1>2, <1>3, <1>4

\* A change of endpoints.
LEMMA EndpointsKeepConfInv ==
    ASSUME ConfInv, SyncEndpoints
    PROVE  ConfInv'
<1>1. DOMAIN cfg' = DOMAIN cfg /\ cfg'.conf = cfg.conf
  BY EndpointsKeepConf DEF SyncEndpoints, ConfInv, Types
<1>2. \E pc \in {"done", "check"} : job' = [job EXCEPT !.pc = pc]
  BY DEF SyncEndpoints, Goto
<1>3. CacheTypes' /\ UNCHANGED <<workVars, store>> /\ job.pc = "found"
  BY DEF SyncEndpoints, cacheVars, apiVars, ConfInv, Types, CacheTypes
<1> QED BY <1>1, <1>2, <1>3, WorkerKeepsConfInv

\* The status write and the edit of the cached object touch an ingress only.
LEMMA StatusKeepsCacheTypes ==
    ASSUME CacheTypes, NEW i \in Ings, NEW obj, NEW state, NEW last,
           UpdateStatus(i, obj, state) \/ UNCHANGED <<api, watch>>,
           store' = CacheAfter(i, obj, last) \/ store' = store
    PROVE  CacheTypes' /\ \A c \in ConfigMaps : store'[c] = store[c]
<1>1. \A c \in ConfigMaps : c # i
  BY NamesAssumption
<1>2. DOMAIN store' = Objects /\ \A c \in ConfigMaps : store'[c] = store[c]
  BY <1>1 DEF CacheAfter, CacheTypes, Objects
<1>3. \/ UNCHANGED <<api, watch>>
      \/ \E value : api' = [api EXCEPT ![i] = value] /\ watch' = [watch EXCEPT ![i] = Append(@, value)]
  BY DEF UpdateStatus, Put
<1>4. /\ DOMAIN api' = Objects /\ DOMAIN watch' = Objects
      /\ \A c \in ConfigMaps : api'[c] = api[c] /\ watch'[c] = watch[c]
  BY <1>1, <1>3 DEF CacheTypes, Objects
<1> QED BY <1>2, <1>4 DEF CacheTypes, Objects

\* The sync of an ingress, whatever the test says.
LEMMA IngressKeepsConfInv ==
    ASSUME ConfInv, SyncIngress
    PROVE  ConfInv'
<1> DEFINE i      == job.item.name
           parsed == extendingressToServer(i, job.obj.spec, job.addresses)
<1>0. i \in Ings
  BY ConfigmapKeys DEF SyncIngress, ConfInv, Types, JobTypes
<1>1. PICK state \in Verdicts(parsed) :
           IF state = "Ready"
           THEN \E out \in updateServerAndUpstreamToCfg(cfg, parsed, job.obj.last, i) :
                    /\ cfg' = out.cfg
                    /\ store' = CacheAfter(i, job.obj, out.last)
                    /\ IF out.panicked
                       THEN Goto("done") /\ UNCHANGED <<api, watch, rv>>
                       ELSE Goto("check") /\ UpdateStatus(i, job.obj, state)
           ELSE /\ \/ UpdateStatus(i, job.obj, state) /\ Goto("check")
                   \/ SilentTest(state) /\ Goto("done") /\ UNCHANGED <<api, watch, rv>>
                /\ UNCHANGED <<cfg, store>>
  BY DEF SyncIngress
<1> HIDE DEF i, parsed
<1>2. /\ DOMAIN cfg' = DOMAIN cfg /\ cfg'.conf = cfg.conf
      /\ \E pc \in {"done", "check"} : job' = [job EXCEPT !.pc = pc]
      /\ UpdateStatus(i, job.obj, state) \/ UNCHANGED <<api, watch>>
      /\ store' = store \/ \E last : store' = CacheAfter(i, job.obj, last)
  <2>1. CASE state = "Ready"
    <3>1. PICK out \in updateServerAndUpstreamToCfg(cfg, parsed, job.obj.last, i) :
                    /\ cfg' = out.cfg
                    /\ store' = CacheAfter(i, job.obj, out.last)
                    /\ IF out.panicked
                       THEN Goto("done") /\ UNCHANGED <<api, watch, rv>>
                       ELSE Goto("check") /\ UpdateStatus(i, job.obj, state)
      BY <1>1, <2>1
    <3>2. DOMAIN out.cfg = DOMAIN cfg /\ out.cfg.conf = cfg.conf
      BY InstallationKeepsConf DEF ConfInv, Types
    <3> QED BY <3>1, <3>2 DEF Goto
  <2>2. CASE state # "Ready"
    BY <1>1, <2>2 DEF Goto
  <2> QED BY <2>1, <2>2
<1>3. UNCHANGED workVars /\ job.pc = "parsed"
  BY DEF SyncIngress
<1>4. CacheTypes' /\ \A c \in ConfigMaps : store'[c] = store[c]
  BY <1>0, <1>2, StatusKeepsCacheTypes DEF ConfInv, Types
<1> QED BY <1>2, <1>3, <1>4, WorkerKeepsConfInv

\* Rendering replaces empty contents only, and no content is empty.
LEMMA RenderKeepsConfInv ==
    ASSUME ConfInv, Render
    PROVE  ConfInv'
<1>1. cfg' = WithBaseConf(cfg) /\ UNCHANGED <<workVars, cacheVars, apiVars>>
      /\ job.pc = "slept" /\ job' = [job EXCEPT !.pc = "done"]
  BY DEF Render, Goto
<1>2. /\ DOMAIN cfg' = DOMAIN cfg /\ DOMAIN cfg'.conf = ConfigMaps
      /\ \A c \in ConfigMaps : cfg'.conf[c] = IF cfg.conf[c] = Empty THEN Base ELSE cfg.conf[c]
  BY <1>1 DEF WithBaseConf, ConfInv, Types, ConfTypes
<1>3. DOMAIN job' = DOMAIN job /\ job'.item = job.item /\ job'.pc = "done"
  BY <1>1 DEF ConfInv, Types, JobTypes
<1>4. Types'
  BY <1>1, <1>2, <1>3
     DEF workVars, cacheVars, apiVars, ConfInv, Types, QueueTypes, JobTypes, ConfTypes, CacheTypes
<1>5. Pending' = Pending /\ store' = store
  BY <1>1, <1>3 DEF workVars, cacheVars, Pending
<1>6. \A c \in ConfigMaps :
        \/ cfg'.conf[c] = store'[c]
        \/ store'[c] = NoObject /\ cfg'.conf[c] \in {Empty, Base}
        \/ \E k \in Pending' : k.kind = "Configmap" /\ k.name = c
  BY <1>2, <1>5, ContentsAssumption DEF ConfInv, ConfigMapsCatchUp, Types, CacheTypes, Written
<1> QED BY <1>4, <1>6 DEF ConfInv, ConfigMapsCatchUp

\* Done leaves dirty alone.
LEMMA FinishKeepsConfInv ==
    ASSUME ConfInv, FinishItem
    PROVE  ConfInv'
<1>1. /\ job.pc = "done" /\ job.item \in Keys
      /\ UNCHANGED <<dirty, delayed, shuttingDown, store, cfg>>
      /\ queue' = queue \/ queue' = Append(queue, job.item)
  BY DEF FinishItem, Done, cacheVars, cfgVars, ConfInv, Types, JobTypes
<1>2. job'.pc = "idle" /\ {"pc", "item"} \subseteq DOMAIN job'
  BY DEF FinishItem, IdleJob
<1>3. Types'
  <2>1. QueueTypes'
    BY <1>1 DEF ConfInv, Types, QueueTypes
  <2>2. JobTypes' /\ ConfTypes'
    BY <1>1, <1>2 DEF ConfInv, Types, JobTypes, ConfTypes
  <2>3. CacheTypes'
    BY DEF FinishItem, cacheVars, apiVars, ConfInv, Types, CacheTypes
  <2> QED BY <2>1, <2>2, <2>3 DEF Types
<1>4. Pending' = Pending
  BY <1>1, <1>2 DEF Pending
<1> QED BY <1>1, <1>3, <1>4, FrameKeepsConfInv

\* At the start nothing is read and nothing is known.
LEMMA InitConfInv == Init => ConfInv
<1> SUFFICES ASSUME Init PROVE ConfInv
  OBVIOUS
<1>1. QueueTypes
  <2>1. <<>> \in Seq(Keys)
    OBVIOUS
  <2> QED BY <2>1, ItemsAssumption DEF Init, LimitedInit, QueueInit, QueueTypes
<1>2. JobTypes /\ ConfTypes
  BY DEF Init, IdleJob, EmptyCfg, JobTypes, ConfTypes
<1>3. CacheTypes
  <2>1. DOMAIN api = Objects /\ \A c \in ConfigMaps : api[c] \in Written
    BY ApisAssumption DEF Init, Written
  <2>2. \A c \in ConfigMaps : watch[c] \in Seq(Written)
    BY <2>1 DEF Init, FirstList, Objects
  <2> QED BY <2>1, <2>2 DEF Init, FirstList, CacheTypes, Objects, Written
<1>4. ConfigMapsCatchUp
  BY DEF Init, EmptyCfg, ConfigMapsCatchUp, Objects
<1> QED BY <1>1, <1>2, <1>3, <1>4 DEF ConfInv, Types

\* Every step keeps the invariant.
LEMMA NextConfInv == ConfInv /\ [Next]_vars => ConfInv'
<1> SUFFICES ASSUME ConfInv, [Next]_vars PROVE ConfInv'
  OBVIOUS
<1>1. CASE Environment
  <2>1. ASSUME NEW i \in Ings, NEW spec \in Specs[i], CreateIngress(i, spec) \/ UpdateIngress(i, spec)
        PROVE  ConfInv'
    <3>1. \E value : UserWrites(i, value)
      BY <2>1 DEF CreateIngress, UpdateIngress
    <3> QED BY <3>1, NamesAssumption, UserKeepsConfInv DEF Objects
  <2>2. ASSUME NEW i \in Ings, DeleteIngress(i) PROVE ConfInv'
    BY <2>2, NamesAssumption, UserKeepsConfInv DEF DeleteIngress, Objects
  <2>3. ASSUME NEW s \in Services, NEW value \in EpStates, WriteEndpoints(s, value) PROVE ConfInv'
    BY <2>3, NamesAssumption, UserKeepsConfInv DEF WriteEndpoints, Objects
  <2>4. ASSUME NEW c \in ConfigMaps, NEW value \in Contents, WriteConfigMap(c, value) PROVE ConfInv'
    BY <2>4, UserKeepsConfInv DEF WriteConfigMap, Objects, Written
  <2> QED BY <1>1, <2>1, <2>2, <2>3, <2>4, RestartKeepsConfInv DEF Environment
<1>2. CASE Worker
  BY <1>2, GetKeepsConfInv, DeletionKeepsConfInv, ConfigmapKeepsConfInv, MovingOnKeepsConfInv,
     EndpointsKeepConfInv, IngressKeepsConfInv, RenderKeepsConfInv, FinishKeepsConfInv DEF Worker
<1>3. CASE Elect \/ UNCHANGED vars
  <2>1. UNCHANGED <<apiVars, cacheVars, workVars, job, cfg>>
    BY <1>3 DEF Elect, vars, cfgVars
  <2>2. Types' /\ Pending' = Pending
    BY <2>1 DEF apiVars, cacheVars, workVars, Pending, ConfInv, Types, QueueTypes, JobTypes,
                ConfTypes, CacheTypes
  <2> QED BY <2>1, <2>2, FrameKeepsConfInv DEF cacheVars
<1> QED BY <1>1, <1>2, <1>3, DeltasKeepConfInv, EndpointHandlerKeepsConfInv, EnqueueKeepsConfInv DEF Next

\* The inductive invariant holds in every reachable state.
THEOREM ConfInvariance == Spec => []ConfInv
BY InitConfInv, NextConfInv, PTL DEF Spec

\* A change of a config map is never missed: whenever the content in memory is
\* not that of the cache, a key is pending whose handling reads the cache.
THEOREM ConfigMapsAlwaysCatchUp == Spec => []ConfigMapsCatchUp
<1>1. ConfInv => ConfigMapsCatchUp
  BY DEF ConfInv
<1> QED BY <1>1, ConfInvariance, PTL
------------------------------------------------------------------------------
(***************************************************************************)
(* The controller uses the queue as its protocol asks: its worker holds    *)
(* what is being processed, so that what QueueProofs shows of Add, Get and *)
(* Done holds here.  A restart throws the whole queue away.                *)
(***************************************************************************)
QueueWorks ==
    /\ QueueFacts!QueueInv
    /\ job.pc = "idle" => job.item = Idle

\* A step that leaves the queue and the worker's item alone.
LEMMA FrameKeepsQueueWorks ==
    ASSUME ConfInv, ConfInv', QueueWorks, UNCHANGED <<queue, dirty, processing>>,
           job'.item = job.item, job'.pc = "idle" => job.pc = "idle"
    PROVE  QueueWorks'
<1>1. shuttingDown' \in BOOLEAN /\ delayed' \in [Items -> Nat]
  BY ItemsAssumption DEF ConfInv, Types, QueueTypes
<1>2. QueueFacts!QueueInv'
  BY <1>1, QueueFacts!FrameKeepsQueueInv, IdleAssumption, ItemsAssumption DEF QueueWorks
<1> QED BY <1>2 DEF QueueWorks

\* A new queue works.
LEMMA NewQueueWorks == QueueFacts!Init => QueueFacts!QueueInv
BY QueueFacts!InitQueueInv, IdleAssumption, ItemsAssumption

\* A new process has one.
LEMMA RestartKeepsQueueWorks ==
    ASSUME ConfInv', Restart
    PROVE  QueueWorks'
<1>1. QueueFacts!Init' => QueueFacts!QueueInv'
  BY NewQueueWorks, PTL
<1>2. queue' = <<>> /\ dirty' = {} /\ processing' = {} /\ shuttingDown' = FALSE
      /\ delayed' = [k \in Items |-> 0] /\ job'.item = Idle
  BY ItemsAssumption DEF Restart, IdleJob, ConfInv, Types, QueueTypes
<1>3. QueueFacts!Init'
  BY <1>2 DEF QueueFacts!Init, QueueFacts!LimitedInit, QueueFacts!QueueInit, QueueFacts!WorkerInit
<1> QED BY <1>1, <1>2, <1>3 DEF QueueWorks

\* The waiting loop adds a ripe key.
LEMMA EnqueueKeepsQueueWorks ==
    ASSUME ConfInv, ConfInv', QueueWorks, NEW k \in Keys, Enqueue(k)
    PROVE  QueueWorks'
<1>1. delayed' \in [Items -> Nat] /\ job' = job /\ k \in Items
  BY ItemsAssumption DEF Enqueue, ConfInv, Types, QueueTypes
<1>2. CASE Ripen(k)
  <2>1. QueueFacts!Add(k)
    BY <1>2 DEF Ripen, Add, QueueFacts!Add
  <2>2. UNCHANGED QueueFacts!workerVars
    BY <1>1 DEF QueueFacts!workerVars
  <2> QED BY <1>1, <2>1, <2>2, QueueFacts!AddKeepsQueueInv, IdleAssumption, ItemsAssumption DEF QueueWorks
<1>3. CASE Merge(k)
  BY <1>1, <1>3, FrameKeepsQueueWorks DEF Merge, queueVars
<1> QED BY <1>2, <1>3 DEF Enqueue

\* The worker takes an item.
LEMMA GetKeepsQueueWorks ==
    ASSUME ConfInv, ConfInv', QueueWorks, GetItem
    PROVE  QueueWorks'
<1>1. PICK k \in ToSet(queue) : Get(k) /\ job' = [IdleJob EXCEPT !.pc = "got", !.item = k]
  BY DEF GetItem
<1>2. k \in Items /\ job'.item = k /\ job'.pc = "got" /\ job.item = Idle /\ delayed' = delayed
  <2>1. k \in Items
    BY ItemsAssumption DEF ToSet, ConfInv, Types, QueueTypes
  <2> QED BY <1>1, <2>1 DEF GetItem, IdleJob, QueueWorks
<1>3. QueueFacts!GetItem("worker", k)
  BY <1>1, <1>2 DEF Get, QueueFacts!GetItem, QueueFacts!Get
<1>4. QueueFacts!QueueInv'
  BY <1>2, <1>3, QueueFacts!GetKeepsQueueInv, IdleAssumption, ItemsAssumption DEF QueueWorks
<1> QED BY <1>2, <1>4 DEF QueueWorks

\* The worker is done with its item.
LEMMA FinishKeepsQueueWorks ==
    ASSUME ConfInv, ConfInv', QueueWorks, FinishItem
    PROVE  QueueWorks'
<1>1. job.item \in Keys /\ job.item # Idle /\ job'.item = Idle /\ Done(job.item) /\ delayed' = delayed
  BY IdleAssumption DEF FinishItem, IdleJob, ConfInv, Types, JobTypes
<1>2. QueueFacts!FinishItem("worker")
  BY <1>1 DEF Done, QueueFacts!FinishItem, QueueFacts!Done
<1>3. QueueFacts!QueueInv'
  BY <1>1, <1>2, QueueFacts!FinishKeepsQueueInv, IdleAssumption, ItemsAssumption DEF QueueWorks
<1> QED BY <1>1, <1>3 DEF QueueWorks

LEMMA InitQueueWorks == Init => QueueWorks
<1> SUFFICES ASSUME Init PROVE QueueWorks
  OBVIOUS
<1>1. QueueFacts!Init
  BY DEF Init, LimitedInit, QueueInit, IdleJob, QueueFacts!Init, QueueFacts!LimitedInit,
         QueueFacts!QueueInit, QueueFacts!WorkerInit
<1> QED BY <1>1, NewQueueWorks DEF Init, IdleJob, QueueWorks

\* The steps of the worker between Get and Done keep its item.
LEMMA WorkerKeepsItem ==
    ASSUME ConfInv, SyncDelete \/ SyncConfigmap \/ LookUp \/ SyncEndpoints \/ Parse \/ SyncIngress
                    \/ CheckLen \/ Render \/ LeaveRender
    PROVE  job'.item = job.item /\ job'.pc # "idle" /\ UNCHANGED workVars
<1>1. CASE LookUp \/ Parse
  BY <1>1 DEF LookUp, Parse, ConfInv, Types, JobTypes
<1>2. CASE SyncIngress
  BY <1>2 DEF SyncIngress, Goto, ConfInv, Types, JobTypes
<1>3. CASE SyncDelete \/ SyncConfigmap \/ SyncEndpoints \/ CheckLen \/ Render \/ LeaveRender
  BY <1>3 DEF SyncDelete, SyncConfigmap, SyncEndpoints, CheckLen, Render, LeaveRender, Goto,
              ConfInv, Types, JobTypes
<1> QED BY <1>1, <1>2, <1>3

LEMMA NextQueueWorks == ConfInv /\ ConfInv' /\ QueueWorks /\ [Next]_vars => QueueWorks'
<1> SUFFICES ASSUME ConfInv, ConfInv', QueueWorks, [Next]_vars PROVE QueueWorks'
  OBVIOUS
<1>1. CASE UNCHANGED <<queue, dirty, processing, job>>
  BY <1>1, FrameKeepsQueueWorks
<1>2. CASE Worker
  <2>1. CASE SyncDelete \/ SyncConfigmap \/ LookUp \/ SyncEndpoints \/ Parse \/ SyncIngress
             \/ CheckLen \/ Render \/ LeaveRender
    BY <2>1, WorkerKeepsItem, FrameKeepsQueueWorks DEF workVars
  <2> QED BY <1>2, <2>1, GetKeepsQueueWorks, FinishKeepsQueueWorks DEF Worker
<1>3. Environment => Restart \/ UNCHANGED <<queue, dirty, processing, job>>
  BY DEF Environment, CreateIngress, UpdateIngress, DeleteIngress, WriteEndpoints, WriteConfigMap,
         UserWrites, workVars
<1>4. (\E o \in Objects : HandleDeltas(o)) \/ (\E s \in Services : HandleEndpoints(s)) \/ Elect
      \/ UNCHANGED vars => UNCHANGED <<queue, dirty, processing, job>>
  BY DEF HandleDeltas, HandleEndpoints, Elect, vars, workVars, queueVars
<1> QED BY <1>1, <1>2, <1>3, <1>4, RestartKeepsQueueWorks, EnqueueKeepsQueueWorks DEF Next

\* In the controller, too, a key is queued once and not while it is handled,
\* and a key that is to be handled is in the queue or comes back to it when
\* the worker is done with it.
THEOREM ControllerQueueWorks ==
    Spec => [](QueueFacts!QueueWellFormed /\ QueueFacts!NoneStranded)
<1>1. Spec => []QueueWorks
  BY InitQueueWorks, NextQueueWorks, ConfInvariance, PTL DEF Spec
<1>2. QueueWorks => QueueFacts!QueueWellFormed /\ QueueFacts!NoneStranded
  BY DEF QueueWorks, QueueFacts!QueueInv
<1> QED BY <1>1, <1>2, PTL
------------------------------------------------------------------------------
(***************************************************************************)
(* Rendering is left to the next item only when there is one.  Every item  *)
(* that finds the queue empty writes; one that does not leaves a key in    *)
(* dirty.  What breaks the chain is an item that returns early, because    *)
(* its ingress is gone (controller.go:629) or because it panics.           *)
(***************************************************************************)
EarlyReturn == job.pc \in {"got", "found", "parsed"} /\ job'.pc = "done"

\* A key that the worker will get.
SomethingComes == dirty # {} \/ \E k \in Keys : delayed[k] > 0

\* Between two items the file is up to date, or another item will come.
WrittenInv == job.pc \in {"idle", "done"} => file = Rendered(cfg) \/ SomethingComes

\* Contents are completed once.
LEMMA BaseConfOnce ==
    ASSUME NEW c, "conf" \in DOMAIN c
    PROVE  WithBaseConf(WithBaseConf(c)) = WithBaseConf(c)
<1> DEFINE full == WithBaseConf(c)
           conf == [m \in ConfigMaps |-> IF c.conf[m] = Empty THEN Base ELSE c.conf[m]]
<1>1. full = [c EXCEPT !.conf = conf] /\ full.conf = conf
  BY DEF WithBaseConf
<1>2. [m \in ConfigMaps |-> IF conf[m] = Empty THEN Base ELSE conf[m]] = conf
  OBVIOUS
<1>3. WithBaseConf(full) = [full EXCEPT !.conf = conf]
  BY <1>1, <1>2 DEF WithBaseConf
<1> QED BY <1>1, <1>3

\* What the queue holds is dirty.
LEMMA QueuedIsDirty ==
    ASSUME ConfInv, QueueWorks, queue # <<>>
    PROVE  dirty # {}
<1>1. queue[1] \in ToSet(queue)
  BY DEF ToSet, ConfInv, Types, QueueTypes
<1> QED BY <1>1 DEF QueueWorks, QueueFacts!QueueInv, QueueFacts!QueueWellFormed, ToSet, QueueFacts!ToSet

\* Steps of everybody but the worker take no key away.
LEMMA OthersKeepWrittenInv ==
    ASSUME ConfInv, WrittenInv, UNCHANGED <<job, cfg, file>>,
           \/ UNCHANGED <<dirty, delayed>>
           \/ \E S : AddAll(S) /\ UNCHANGED queueVars
           \/ \E k \in Keys : Enqueue(k)
    PROVE  WrittenInv'
<1>1. ASSUME SomethingComes PROVE SomethingComes'
  <2>1. CASE UNCHANGED <<dirty, delayed>>
    BY <1>1, <2>1 DEF SomethingComes
  <2>2. CASE \E S : AddAll(S) /\ UNCHANGED queueVars
    <3>1. dirty' = dirty /\ \A k \in Keys : delayed[k] > 0 => delayed'[k] > 0
      BY <2>2, AddAllGrows DEF queueVars, ConfInv, Types
    <3> QED BY <1>1, <3>1 DEF SomethingComes
  <2>3. CASE \E k \in Keys : Enqueue(k)
    <3>1. PICK k \in Keys : Ripen(k) \/ Merge(k)
      BY <2>3 DEF Enqueue
    <3>2. CASE Ripen(k)
      BY <3>2 DEF Ripen, Add, SomethingComes, ConfInv, Types, QueueTypes
    <3>3. CASE Merge(k)
      BY <3>3 DEF Merge, SomethingComes, ConfInv, Types, QueueTypes
    <3> QED BY <3>1, <3>2, <3>3
  <2> QED BY <2>1, <2>2, <2>3
<1> QED BY <1>1 DEF WrittenInv, Rendered

\* The file of the image is what an empty memory renders.
LEMMA EmptyIsWritten == WithBaseConf(EmptyCfg) = returnBaseCfg
BY DEF WithBaseConf, EmptyCfg, returnBaseCfg

LEMMA RestartKeepsWrittenInv ==
    ASSUME Restart
    PROVE  WrittenInv'
<1>1. cfg' = EmptyCfg /\ file' = returnBaseCfg
  BY DEF Restart
<1>2. WithBaseConf(cfg') = file'
  BY <1>1, EmptyIsWritten
<1> QED BY <1>2 DEF WrittenInv, Rendered

\* What is rendered is in the file, or was refused.
LEMMA RenderWrites ==
    ASSUME "breakTest" \notin Events, ConfInv, Render
    PROVE  WrittenInv'
<1>1. cfg' = WithBaseConf(cfg) /\ WithBaseConf(cfg') = cfg'
  BY BaseConfOnce DEF Render, ConfInv, Types, ConfTypes
<1>2. file' = IF ConfAccepted(cfg') THEN cfg' ELSE file
  BY DEF Render, BaseVerdicts
<1>3. file' = Rendered(cfg)'
  BY <1>1, <1>2 DEF Rendered
<1> QED BY <1>3 DEF WrittenInv

\* The worker leaves the rendering to somebody, or renders, or returns early.
LEMMA WorkerKeepsWrittenInv ==
    ASSUME "breakTest" \notin Events, ConfInv, QueueWorks, WrittenInv, Worker, ~EarlyReturn
    PROVE  WrittenInv'
<1>1. CASE GetItem
  BY <1>1 DEF GetItem, IdleJob, WrittenInv
<1>2. CASE SyncDelete \/ SyncConfigmap \/ LookUp \/ SyncEndpoints \/ Parse \/ SyncIngress
  <2>1. job.pc \in {"got", "found", "parsed"}
    BY <1>2 DEF SyncDelete, SyncConfigmap, LookUp, SyncEndpoints, Parse, SyncIngress
  <2>2. job'.pc # "done" /\ job'.pc # "idle"
    BY <1>2, <2>1, WorkerKeepsItem DEF EarlyReturn
  <2> QED BY <2>2 DEF WrittenInv
<1>3. CASE CheckLen \/ LeaveRender
  <2>1. (queue # <<>> /\ UNCHANGED dirty) \/ job'.pc = "slept"
    BY <1>3 DEF CheckLen, LeaveRender, Goto, workVars, ConfInv, Types, JobTypes
  <2> QED BY <2>1, QueuedIsDirty DEF WrittenInv, SomethingComes
<1>4. CASE FinishItem
  <2>1. job.pc = "done" /\ UNCHANGED <<dirty, delayed, cfg, file>>
    BY <1>4 DEF FinishItem, Done, cfgVars
  <2> QED BY <2>1 DEF WrittenInv, SomethingComes, Rendered
<1> QED BY <1>1, <1>2, <1>3, <1>4, RenderWrites DEF Worker

LEMMA NextWrittenInv ==
    ASSUME "breakTest" \notin Events
    PROVE  ConfInv /\ QueueWorks /\ WrittenInv /\ [Next]_vars /\ [~EarlyReturn]_vars => WrittenInv'
<1> SUFFICES ASSUME ConfInv, QueueWorks, WrittenInv, [Next]_vars, [~EarlyReturn]_vars PROVE WrittenInv'
  OBVIOUS
<1>1. CASE UNCHANGED vars
  BY <1>1, OthersKeepWrittenInv DEF vars, workVars, cfgVars
<1>2. CASE Worker /\ ~EarlyReturn
  BY <1>2, WorkerKeepsWrittenInv
<1>3. Environment => Restart \/ UNCHANGED <<job, cfg, file, dirty, delayed>>
  BY DEF Environment, CreateIngress, UpdateIngress, DeleteIngress, WriteEndpoints, WriteConfigMap,
         UserWrites, workVars, cfgVars
<1>4. (\E o \in Objects : HandleDeltas(o)) \/ (\E s \in Services : HandleEndpoints(s)) =>
        (\E S : AddAll(S) /\ UNCHANGED queueVars) /\ UNCHANGED <<job, cfg, file>>
  BY DEF HandleDeltas, HandleEndpoints, cfgVars
<1>5. Elect => UNCHANGED <<job, cfg, file, dirty, delayed>>
  BY DEF Elect, workVars, cfgVars
<1>6. (\E k \in Keys : Enqueue(k)) => UNCHANGED <<job, cfg, file>>
  BY DEF Enqueue, cfgVars
<1> QED BY <1>1, <1>2, <1>3, <1>4, <1>5, <1>6, OthersKeepWrittenInv, RestartKeepsWrittenInv DEF Next

\* README.md:7, "the configuration is written automatically": when nothing is
\* left to do, nginx.conf says what the memory says, provided that no item
\* returned early and base tests give their verdict.  Refused base
\* configurations, refused ingresses, restarts and any order of the keys are no
\* exception.
THEOREM NothingStaysUnwritten ==
    ASSUME "breakTest" \notin Events
    PROVE  Spec /\ [][~EarlyReturn]_vars => []NothingUnwritten
<1>1. Init => WrittenInv
  <2> SUFFICES ASSUME Init PROVE file = Rendered(cfg)
    BY DEF WrittenInv
  <2>1. WithBaseConf(cfg) = file
    BY EmptyIsWritten DEF Init
  <2> QED BY <2>1 DEF Rendered
<1>2. Spec => []QueueWorks
  BY InitQueueWorks, NextQueueWorks, ConfInvariance, PTL DEF Spec
<1>3. WrittenInv => NothingUnwritten
  BY DEF WrittenInv, NothingUnwritten, Quiet, Pending, SomethingComes
<1> QED BY <1>1, <1>2, <1>3, NextWrittenInv, ConfInvariance, PTL DEF Spec
------------------------------------------------------------------------------
(***************************************************************************)
(* Optimistic concurrency of the status write, for any number of users,    *)
(* ingresses and writes: the worker writes back an object it read from a   *)
(* cache that lags behind, and yet never takes back what a user wrote.     *)
(*                                                                         *)
(* The property rests on the resource versions: of all the copies of an    *)
(* ingress in flight (the cache, the watch, the object the worker holds),  *)
(* one with the version the API server has, has its specification too.     *)
(***************************************************************************)

\* x is a version of ingress i that the API server has given out.
Version(i, x) ==
    x # NoObject =>
        /\ DOMAIN x = {"spec", "state", "last", "rv"}
        /\ x.rv \in 0..rv
        /\ api[i] # NoObject /\ x.rv = api[i].rv => x.spec = api[i].spec

HoldsObjectOf(i) == job.pc \in {"found", "parsed"} /\ job.item.name = i

MapTypes ==
    /\ rv \in Nat /\ writes \in Nat
    /\ DOMAIN api = Objects /\ DOMAIN store = Objects /\ DOMAIN watch = Objects
    /\ \A i \in Ings : \E S : watch[i] \in Seq(S)
    /\ {"pc", "item", "obj"} \subseteq DOMAIN job
    /\ job.pc \in {"found", "parsed"} => job.obj # NoObject

VersionsAgree ==
    \A i \in Ings :
        /\ Version(i, api[i]) /\ Version(i, store[i])
        /\ \A x \in ToSet(watch[i]) : Version(i, x)
        /\ HoldsObjectOf(i) => Version(i, job.obj)

StatusInv == MapTypes /\ VersionsAgree

\* A step that gives out no version keeps those there are.
LEMMA NothingGivenOut ==
    ASSUME StatusInv, UNCHANGED <<api, rv>>, MapTypes',
           \A i \in Ings : Version(i, store'[i])
                           /\ (\A x \in ToSet(watch'[i]) : Version(i, x))
                           /\ (HoldsObjectOf(i)' => Version(i, job'.obj))
    PROVE  StatusInv'
<1>1. \A i : \A x : Version(i, x) => Version(i, x)'
  BY DEF Version
<1> QED BY <1>1 DEF StatusInv, VersionsAgree

\* The API server gives out a new version: no copy has it yet.
LEMMA NewVersion ==
    ASSUME StatusInv, NEW i \in Ings, NEW value, Put(i, value), rv' = rv + 1,
           DOMAIN value = {"spec", "state", "last", "rv"}, value.rv = rv + 1,
           writes' \in Nat, {"pc", "item", "obj"} \subseteq DOMAIN job', job'.item = job.item, job'.obj = job.obj,
           job'.pc \in {"found", "parsed"} => job'.pc = job.pc,
           DOMAIN store' = Objects,
           \A j \in Ings : Version(j, store'[j])
    PROVE  StatusInv'
<1>1. /\ api'[i] = value /\ \A j \in Ings : j # i => api'[j] = api[j]
      /\ DOMAIN api' = Objects /\ DOMAIN watch' = Objects
      /\ watch'[i] = Append(watch[i], value) /\ \A j \in Ings : j # i => watch'[j] = watch[j]
  BY DEF Put, StatusInv, MapTypes, Objects
<1>2. \A j \in Ings : \A x : Version(j, x) => Version(j, x)'
  <2> SUFFICES ASSUME NEW j \in Ings, NEW x, Version(j, x), x # NoObject PROVE Version(j, x)'
    BY DEF Version
  <2>1. x.rv \in 0..rv' /\ x.rv # rv'
    BY DEF Version, StatusInv, MapTypes
  <2> QED BY <1>1, <2>1 DEF Version
<1>3. Version(i, value)'
  BY <1>1 DEF Version, StatusInv, MapTypes
<1>4. PICK S : watch[i] \in Seq(S)
  BY DEF StatusInv, MapTypes
<1>5. ToSet(watch'[i]) = ToSet(watch[i]) \cup {value}
  <2>1. watch[i] \in Seq(S \cup {value})
    BY <1>4
  <2> QED BY <1>1, <2>1, ToSetAppend
<1>6. MapTypes'
  <2>1. watch'[i] \in Seq(S \cup {value})
    BY <1>1, <1>4
  <2>2. \A j \in Ings : \E T : watch'[j] \in Seq(T)
    BY <1>1, <2>1 DEF StatusInv, MapTypes
  <2>3. rv' \in Nat
    BY DEF StatusInv, MapTypes
  <2> QED BY <1>1, <2>2, <2>3 DEF StatusInv, MapTypes
<1>7. VersionsAgree'
  <2> SUFFICES ASSUME NEW j \in Ings
               PROVE  /\ Version(j, api[j])' /\ Version(j, store[j])'
                      /\ \A x \in ToSet(watch'[j]) : Version(j, x)'
                      /\ HoldsObjectOf(j)' => Version(j, job.obj)'
    BY DEF VersionsAgree
  <2>1. Version(j, api[j])'
    BY <1>1, <1>2, <1>3 DEF StatusInv, VersionsAgree
  <2>2. Version(j, store[j])'
    BY <1>2
  <2>3. \A x \in ToSet(watch'[j]) : Version(j, x)'
    BY <1>1, <1>2, <1>3, <1>5 DEF StatusInv, VersionsAgree
  <2>4. HoldsObjectOf(j)' => Version(j, job.obj)'
    BY <1>2 DEF HoldsObjectOf, StatusInv, VersionsAgree
  <2> QED BY <2>1, <2>2, <2>3, <2>4
<1> QED BY <1>6, <1>7 DEF StatusInv

\* A user creates or changes an ingress.
LEMMA IngressWriteKeepsStatusInv ==
    ASSUME StatusInv, NEW i \in Ings, NEW spec, CreateIngress(i, spec) \/ UpdateIngress(i, spec)
    PROVE  StatusInv'
<1>1. /\ writes' \in Nat /\ UNCHANGED <<job, store>> /\ rv' = rv + 1
      /\ \E value : /\ Put(i, value)
                    /\ DOMAIN value = {"spec", "state", "last", "rv"} /\ value.rv = rv + 1
  <2>1. CASE CreateIngress(i, spec)
    <3> DEFINE value == NewIngress(spec, rv + 1)
    <3>1. DOMAIN value = {"spec", "state", "last", "rv"} /\ value.rv = rv + 1
      BY DEF NewIngress
    <3>2. Put(i, value) /\ writes' = writes + 1 /\ rv' = rv + 1 /\ UNCHANGED <<job, store>>
      BY <2>1 DEF CreateIngress, UserWrites
    <3> QED BY <3>1, <3>2 DEF StatusInv, MapTypes
  <2>2. CASE UpdateIngress(i, spec)
    <3> DEFINE value == [api[i] EXCEPT !.spec = spec, !.rv = rv + 1]
    <3>1. DOMAIN value = {"spec", "state", "last", "rv"} /\ value.rv = rv + 1
      BY <2>2 DEF UpdateIngress, StatusInv, VersionsAgree, Version
    <3>2. Put(i, value) /\ writes' = writes + 1 /\ rv' = rv + 1 /\ UNCHANGED <<job, store>>
      BY <2>2 DEF UpdateIngress, UserWrites
    <3> HIDE DEF value
    <3> QED BY <3>1, <3>2 DEF StatusInv, MapTypes
  <2> QED BY <2>1, <2>2
<1>2. \A j \in Ings : Version(j, store'[j])
  BY <1>1 DEF StatusInv, VersionsAgree
<1>3. /\ {"pc", "item", "obj"} \subseteq DOMAIN job' /\ job'.item = job.item /\ job'.obj = job.obj
      /\ job'.pc = job.pc /\ DOMAIN store' = Objects
  BY <1>1 DEF StatusInv, MapTypes
<1> QED BY <1>1, <1>2, <1>3, NewVersion

\* A user deletes an ingress: no copy is compared with it any more.
LEMMA DeletionKeepsStatusInv ==
    ASSUME StatusInv, NEW i \in Ings, DeleteIngress(i)
    PROVE  StatusInv'
<1>1. /\ api'[i] = NoObject /\ \A j \in Ings : j # i => api'[j] = api[j] /\ watch'[j] = watch[j]
      /\ DOMAIN api' = Objects /\ DOMAIN watch' = Objects
      /\ watch'[i] = Append(watch[i], NoObject) /\ UNCHANGED <<rv, store, job>> /\ writes' \in Nat
  BY DEF DeleteIngress, UserWrites, Put, StatusInv, MapTypes, Objects
<1>2. \A j \in Ings : \A x : Version(j, x) => Version(j, x)'
  BY <1>1 DEF Version
<1>3. PICK S : watch[i] \in Seq(S)
  BY DEF StatusInv, MapTypes
<1>4. ToSet(watch'[i]) = ToSet(watch[i]) \cup {NoObject} /\ watch'[i] \in Seq(S \cup {NoObject})
  <2>1. watch[i] \in Seq(S \cup {NoObject})
    BY <1>3
  <2> QED BY <1>1, <2>1, ToSetAppend
<1>5. \A j \in Ings : \E T : watch'[j] \in Seq(T)
  BY <1>1, <1>4 DEF StatusInv, MapTypes
<1>6. MapTypes'
  BY <1>1, <1>5 DEF StatusInv, MapTypes
<1>7. \A j \in Ings : \A x \in ToSet(watch'[j]) : Version(j, x)'
  BY <1>1, <1>2, <1>4 DEF Version, StatusInv, VersionsAgree
<1>8. VersionsAgree'
  <2> SUFFICES ASSUME NEW j \in Ings
               PROVE  /\ Version(j, api[j])' /\ Version(j, store[j])'
                      /\ \A x \in ToSet(watch'[j]) : Version(j, x)'
                      /\ HoldsObjectOf(j)' => Version(j, job.obj)'
    BY DEF VersionsAgree
  <2>1. Version(j, api[j])'
    BY <1>1, <1>2 DEF Version, StatusInv, VersionsAgree
  <2>2. Version(j, store[j])'
    BY <1>1, <1>2 DEF StatusInv, VersionsAgree
  <2>3. HoldsObjectOf(j)' => Version(j, job.obj)'
    BY <1>1, <1>2 DEF HoldsObjectOf, StatusInv, VersionsAgree
  <2> QED BY <1>7, <2>1, <2>2, <2>3
<1> QED BY <1>6, <1>8 DEF StatusInv

\* Objects of the other kinds have no status.
LEMMA OtherWriteKeepsStatusInv ==
    ASSUME StatusInv, NEW o \in Services \cup ConfigMaps, NEW value, UserWrites(o, value), rv' = rv
    PROVE  StatusInv'
<1>1. o \notin Ings
  BY NamesAssumption
<1>2. /\ \A j \in Ings : api'[j] = api[j] /\ watch'[j] = watch[j]
      /\ DOMAIN api' = Objects /\ DOMAIN watch' = Objects
      /\ UNCHANGED <<rv, store, job>> /\ writes' \in Nat
  BY <1>1 DEF UserWrites, Put, StatusInv, MapTypes, Objects
<1>3. MapTypes'
  BY <1>2 DEF StatusInv, MapTypes
<1>4. \A j \in Ings : \A x : Version(j, x) => Version(j, x)'
  BY <1>2 DEF Version
<1>5. VersionsAgree'
  <2> SUFFICES ASSUME NEW j \in Ings
               PROVE  /\ Version(j, api[j])' /\ Version(j, store[j])'
                      /\ \A x \in ToSet(watch'[j]) : Version(j, x)'
                      /\ HoldsObjectOf(j)' => Version(j, job.obj)'
    BY DEF VersionsAgree
  <2> QED BY <1>2, <1>4 DEF StatusInv, VersionsAgree, HoldsObjectOf
<1> QED BY <1>3, <1>5 DEF StatusInv

\* The first list shows what the API server has.
LEMMA FirstListShowsVersions ==
    ASSUME \A i \in Ings : Version(i, api[i])
    PROVE  \A i \in Ings : /\ \A x \in ToSet(FirstList(api)[i]) : Version(i, x)
                           /\ \E S : FirstList(api)[i] \in Seq(S)
<1> SUFFICES ASSUME NEW i \in Ings
             PROVE  /\ \A x \in ToSet(FirstList(api)[i]) : Version(i, x)
                    /\ \E S : FirstList(api)[i] \in Seq(S)
  OBVIOUS
<1>1. CASE api[i] = NoObject
  <2>1. FirstList(api)[i] = <<>>
    BY <1>1 DEF FirstList, Objects
  <2>2. ToSet(<<>>) = {}
    BY DEF ToSet
  <2>3. <<>> \in Seq({})
    OBVIOUS
  <2> QED BY <2>1, <2>2, <2>3
<1>2. CASE api[i] # NoObject
  <2>1. FirstList(api)[i] = <<api[i]>>
    BY <1>2 DEF FirstList, Objects
  <2>2. ToSet(<<api[i]>>) = {api[i]}
    BY DEF ToSet
  <2>3. <<api[i]>> \in Seq({api[i]})
    OBVIOUS
  <2> QED BY <2>1, <2>2, <2>3
<1> QED BY <1>1, <1>2

\* A new process only knows the first list.
LEMMA RestartKeepsStatusInv ==
    ASSUME StatusInv, Restart
    PROVE  StatusInv'
<1>1. /\ UNCHANGED <<api, rv>> /\ watch' = FirstList(api) /\ DOMAIN watch' = Objects
      /\ store' = [o \in Objects |-> NoObject] /\ writes' \in Nat
      /\ {"pc", "item", "obj"} \subseteq DOMAIN job' /\ job'.pc = "idle"
  BY DEF Restart, FirstList, IdleJob, StatusInv, MapTypes
<1>2. \A i \in Ings : store'[i] = NoObject
  BY <1>1 DEF Objects
<1>3. MapTypes'
  BY <1>1, FirstListShowsVersions DEF StatusInv, MapTypes, VersionsAgree
<1>4. \A i \in Ings : Version(i, store'[i]) /\ ~HoldsObjectOf(i)'
  BY <1>1, <1>2 DEF Version, HoldsObjectOf
<1> QED BY <1>1, <1>3, <1>4, FirstListShowsVersions, NothingGivenOut DEF StatusInv, VersionsAgree

\* The informer puts the next version into the cache.
LEMMA DeltasKeepStatusInv ==
    ASSUME StatusInv, NEW o \in Objects, HandleDeltas(o)
    PROVE  StatusInv'
<1>1. /\ UNCHANGED <<api, rv, writes, job>> /\ DOMAIN watch' = Objects /\ DOMAIN store' = Objects
      /\ watch[o] # <<>> /\ watch'[o] = Tail(watch[o]) /\ store'[o] = Head(watch[o])
      /\ \A p \in Objects : p # o => watch'[p] = watch[p] /\ store'[p] = store[p]
  BY DEF HandleDeltas, apiVars, StatusInv, MapTypes
<1>2. ASSUME o \in Ings
      PROVE  /\ \A x \in ToSet(watch'[o]) : Version(o, x)
             /\ Version(o, store'[o])
             /\ \E S : watch'[o] \in Seq(S)
  <2>1. PICK S : watch[o] \in Seq(S)
    BY <1>2 DEF StatusInv, MapTypes
  <2>2. ToSet(watch'[o]) \subseteq ToSet(watch[o]) /\ store'[o] \in ToSet(watch[o])
    BY <1>1, <2>1, ToSetOfTail
  <2>3. watch'[o] \in Seq(S)
    BY <1>1, <2>1
  <2> QED BY <1>2, <2>2, <2>3 DEF StatusInv, VersionsAgree
<1>3. \A i \in Ings : i \in Objects
  BY DEF Objects
<1>4. MapTypes'
  BY <1>1, <1>2, <1>3 DEF StatusInv, MapTypes
<1>5. \A i \in Ings : Version(i, store'[i]) /\ \A x \in ToSet(watch'[i]) : Version(i, x)
  BY <1>1, <1>2, <1>3 DEF StatusInv, VersionsAgree
<1>6. \A i \in Ings : HoldsObjectOf(i)' => Version(i, job'.obj)
  BY <1>1 DEF StatusInv, VersionsAgree, HoldsObjectOf
<1> QED BY <1>1, <1>4, <1>5, <1>6, NothingGivenOut

\* A step that leaves the objects alone, and in which the worker does not
\* begin to hold one.
LEMMA FrameKeepsStatusInv ==
    ASSUME StatusInv, UNCHANGED <<api, rv, writes, watch, store>>,
           \/ /\ job'.pc \in {"found", "parsed"} => job.pc \in {"found", "parsed"}
              /\ {"pc", "item", "obj"} \subseteq DOMAIN job'
              /\ job'.item = job.item /\ job'.obj = job.obj
           \/ job'.pc \notin {"found", "parsed"} /\ {"pc", "item", "obj"} \subseteq DOMAIN job'
    PROVE  StatusInv'
<1>1. MapTypes'
  BY DEF StatusInv, MapTypes
<1>2. \A i \in Ings : HoldsObjectOf(i)' => Version(i, job'.obj)
  BY DEF StatusInv, VersionsAgree, HoldsObjectOf
<1>3. \A i \in Ings : Version(i, store'[i]) /\ \A x \in ToSet(watch'[i]) : Version(i, x)
  BY DEF StatusInv, VersionsAgree
<1> QED BY <1>1, <1>2, <1>3, NothingGivenOut

\* The worker takes the object the cache has.
LEMMA LookUpKeepsStatusInv ==
    ASSUME StatusInv, LookUp
    PROVE  StatusInv'
<1>1. /\ UNCHANGED <<api, rv, writes, watch, store>> /\ DOMAIN job' = DOMAIN job
      /\ job'.obj = store[job.item.name] /\ job'.item = job.item
      /\ job'.pc = IF store[job.item.name] = NoObject THEN "done" ELSE "found"
  BY DEF LookUp, apiVars, cacheVars, StatusInv, MapTypes
<1>2. MapTypes'
  BY <1>1 DEF StatusInv, MapTypes
<1>3. \A i \in Ings : /\ Version(i, store'[i]) /\ \A x \in ToSet(watch'[i]) : Version(i, x)
                      /\ HoldsObjectOf(i)' => Version(i, job'.obj)
  BY <1>1 DEF HoldsObjectOf, StatusInv, VersionsAgree
<1> QED BY <1>1, <1>2, <1>3, NothingGivenOut

\* The write of the worker: refused, or of the version the API server has.
WriteOfWorker ==
    \/ UNCHANGED <<api, watch, rv>>
    \/ \E i \in Ings : \E value :
        /\ Put(i, value) /\ rv' = rv + 1
        /\ DOMAIN value = {"spec", "state", "last", "rv"} /\ value.rv = rv + 1
        /\ api[i] # NoObject /\ value.spec = api[i].spec

\* The status write of the object the worker holds.
LEMMA UpdateStatusIsWriteOfWorker ==
    ASSUME StatusInv, NEW i \in Ings, HoldsObjectOf(i), NEW state, UpdateStatus(i, job.obj, state)
    PROVE  WriteOfWorker
<1> DEFINE value == [job.obj EXCEPT !.state = state, !.last = LastPaths(job.obj.spec), !.rv = rv + 1]
<1>1. \/ UNCHANGED <<api, watch, rv>>
      \/ /\ Put(i, value) /\ rv' = rv + 1
         /\ api[i] # NoObject /\ api[i].rv = job.obj.rv
  BY DEF UpdateStatus
<1>2. /\ DOMAIN job.obj = {"spec", "state", "last", "rv"}
      /\ api[i] # NoObject /\ job.obj.rv = api[i].rv => job.obj.spec = api[i].spec
  BY DEF HoldsObjectOf, StatusInv, MapTypes, VersionsAgree, Version
<1>3. /\ DOMAIN value = {"spec", "state", "last", "rv"} /\ value.rv = rv + 1
      /\ value.spec = job.obj.spec
  BY <1>2
<1> HIDE DEF value
<1> QED BY <1>1, <1>2, <1>3 DEF WriteOfWorker

\* The object the worker holds is that of an ingress.
LEMMA WorkerHoldsIngress ==
    ASSUME ConfInv, job.pc \in {"found", "parsed"}
    PROVE  job.item.name \in Ings
BY ConfigmapKeys DEF ConfInv, Types, JobTypes

\* The sync of an ingress writes at most the status.
LEMMA SyncWritesStatus ==
    ASSUME ConfInv, StatusInv, SyncIngress
    PROVE  /\ WriteOfWorker
           /\ UNCHANGED writes /\ job'.pc \in {"done", "check"} /\ DOMAIN job' = DOMAIN job
           /\ job'.item = job.item /\ job'.obj = job.obj
           /\ store' = store \/ \E last : store' = CacheAfter(job.item.name, job.obj, last)
<1> DEFINE i      == job.item.name
           parsed == extendingressToServer(i, job.obj.spec, job.addresses)
<1>1. PICK state \in Verdicts(parsed) :
           IF state = "Ready"
           THEN \E out \in updateServerAndUpstreamToCfg(cfg, parsed, job.obj.last, i) :
                    /\ cfg' = out.cfg
                    /\ store' = CacheAfter(i, job.obj, out.last)
                    /\ IF out.panicked
                       THEN Goto("done") /\ UNCHANGED <<api, watch, rv>>
                       ELSE Goto("check") /\ UpdateStatus(i, job.obj, state)
           ELSE /\ \/ UpdateStatus(i, job.obj, state) /\ Goto("check")
                   \/ SilentTest(state) /\ Goto("done") /\ UNCHANGED <<api, watch, rv>>
                /\ UNCHANGED <<cfg, store>>
  BY DEF SyncIngress
<1>2. job.pc = "parsed" /\ UNCHANGED writes /\ i \in Ings /\ HoldsObjectOf(i)
  BY WorkerHoldsIngress DEF SyncIngress, HoldsObjectOf
<1> HIDE DEF parsed, i
<1>3. /\ UpdateStatus(i, job.obj, state) \/ UNCHANGED <<api, watch, rv>>
      /\ \E pc \in {"done", "check"} : job' = [job EXCEPT !.pc = pc]
      /\ store' = store \/ \E last : store' = CacheAfter(i, job.obj, last)
  BY <1>1 DEF Goto
<1>4. /\ job'.pc \in {"done", "check"} /\ DOMAIN job' = DOMAIN job
      /\ job'.item = job.item /\ job'.obj = job.obj
  BY <1>3 DEF StatusInv, MapTypes
<1>5. WriteOfWorker
  BY <1>2, <1>3, UpdateStatusIsWriteOfWorker DEF WriteOfWorker
<1> QED BY <1>2, <1>3, <1>4, <1>5 DEF i

\* ... and keeps the versions.
LEMMA SyncKeepsStatusInv ==
    ASSUME ConfInv, StatusInv, SyncIngress
    PROVE  StatusInv'
<1>1. job.item.name \in Ings
  BY WorkerHoldsIngress DEF SyncIngress
<1>2. DOMAIN store' = Objects /\ \A j \in Ings : Version(j, store'[j])
  <2>1. CASE store' = store
    BY <2>1 DEF StatusInv, MapTypes, VersionsAgree
  <2>2. ASSUME NEW last, store' = CacheAfter(job.item.name, job.obj, last)
        PROVE  DOMAIN store' = Objects /\ \A j \in Ings : Version(j, store'[j])
    <3>1. DOMAIN store' = Objects
      BY <2>2 DEF CacheAfter, StatusInv, MapTypes
    <3>2. \A j \in Ings : \/ store'[j] = store[j]
                          \/ store[j] # NoObject /\ store'[j] = [store[j] EXCEPT !.last = last]
      BY <2>2 DEF CacheAfter, StatusInv, MapTypes, Objects
    <3>3. \A j \in Ings : Version(j, store'[j])
      BY <3>2 DEF StatusInv, VersionsAgree, Version
    <3> QED BY <3>1, <3>3
  <2> QED BY <2>1, <2>2, SyncWritesStatus
<1>3. /\ UNCHANGED writes /\ job'.pc \in {"done", "check"} /\ job'.item = job.item /\ job'.obj = job.obj
      /\ {"pc", "item", "obj"} \subseteq DOMAIN job' /\ writes' \in Nat
  BY SyncWritesStatus DEF StatusInv, MapTypes
<1>4. CASE UNCHANGED <<api, watch, rv>>
  <2>1. MapTypes'
    BY <1>2, <1>3, <1>4 DEF StatusInv, MapTypes
  <2> QED BY <1>2, <1>3, <1>4, <2>1, NothingGivenOut DEF HoldsObjectOf, StatusInv, VersionsAgree
<1>5. ASSUME NEW i \in Ings, NEW value, Put(i, value), rv' = rv + 1,
             DOMAIN value = {"spec", "state", "last", "rv"}, value.rv = rv + 1
      PROVE  StatusInv'
  BY <1>2, <1>3, <1>5, NewVersion
<1> QED BY <1>4, <1>5, SyncWritesStatus DEF WriteOfWorker

\* The steps that write no object.
LEMMA OtherStepsKeepStatusInv ==
    ASSUME StatusInv,
           \/ \E s \in Services : HandleEndpoints(s)
           \/ \E k \in Keys : Enqueue(k)
           \/ Elect \/ GetItem \/ SyncDelete \/ SyncConfigmap \/ SyncEndpoints \/ Parse
           \/ CheckLen \/ Render \/ LeaveRender \/ FinishItem \/ UNCHANGED vars
    PROVE  UNCHANGED <<api, rv, writes, watch, store>> /\ StatusInv'
<1>1. UNCHANGED <<api, rv, writes, watch, store>>
  BY DEF HandleEndpoints, Enqueue, Elect, GetItem, SyncDelete, SyncConfigmap, SyncEndpoints, Parse,
         CheckLen, Render, LeaveRender, FinishItem, vars, apiVars, cacheVars
<1>2. CASE (\E s \in Services : HandleEndpoints(s)) \/ (\E k \in Keys : Enqueue(k)) \/ Elect \/ UNCHANGED vars
  <2>1. job' = job
    BY <1>2 DEF HandleEndpoints, Enqueue, Elect, vars
  <2> QED BY <1>1, <2>1, FrameKeepsStatusInv DEF StatusInv, MapTypes
<1>3. CASE GetItem \/ FinishItem
  <2>1. ASSUME GetItem PROVE job'.pc = "got" /\ {"pc", "item", "obj"} \subseteq DOMAIN job'
    <3>1. PICK k : job' = [IdleJob EXCEPT !.pc = "got", !.item = k]
      BY <2>1 DEF GetItem
    <3> QED BY <3>1 DEF IdleJob
  <2>2. ASSUME FinishItem PROVE job'.pc = "idle" /\ {"pc", "item", "obj"} \subseteq DOMAIN job'
    BY <2>2 DEF FinishItem, IdleJob
  <2>3. job'.pc \notin {"found", "parsed"} /\ {"pc", "item", "obj"} \subseteq DOMAIN job'
    BY <1>3, <2>1, <2>2
  <2> QED BY <1>1, <2>3, FrameKeepsStatusInv
<1>4. CASE SyncDelete \/ SyncConfigmap \/ SyncEndpoints \/ CheckLen \/ Render \/ LeaveRender
  <2>1. PICK pc \in {"done", "check", "slept"} : job' = [job EXCEPT !.pc = pc]
    BY <1>4 DEF SyncDelete, SyncConfigmap, SyncEndpoints, CheckLen, Render, LeaveRender, Goto
  <2>2. DOMAIN job' = DOMAIN job /\ "pc" \in DOMAIN job /\ {"pc", "item", "obj"} \subseteq DOMAIN job
    BY <2>1 DEF StatusInv, MapTypes
  <2>3. job'.pc = pc
    BY <2>1, <2>2
  <2>4. job'.pc \notin {"found", "parsed"} /\ {"pc", "item", "obj"} \subseteq DOMAIN job'
    BY <2>2, <2>3
  <2> QED BY <1>1, <2>4, FrameKeepsStatusInv
<1>5. CASE Parse
  <2>1. /\ job.pc = "found" /\ job'.item = job.item /\ job'.obj = job.obj
        /\ {"pc", "item", "obj"} \subseteq DOMAIN job'
    BY <1>5 DEF Parse, StatusInv, MapTypes
  <2> QED BY <1>1, <2>1, FrameKeepsStatusInv
<1> QED BY <1>1, <1>2, <1>3, <1>4, <1>5

\* At the start every version is the first one.
LEMMA InitStatusInv == Init => StatusInv
<1> SUFFICES ASSUME Init PROVE StatusInv
  OBVIOUS
<1>1. /\ DOMAIN api = Objects /\ rv = 0 /\ writes = 0 /\ watch = FirstList(api)
      /\ \A o \in Objects : store[o] = NoObject
      /\ DOMAIN store = Objects /\ {"pc", "item", "obj"} \subseteq DOMAIN job /\ job.pc = "idle"
  BY ApisAssumption DEF Init, IdleJob
<1>2. \A i \in Ings : Version(i, api[i]) /\ i \in Objects
  <2>1. api \in Apis
    BY DEF Init
  <2>2. \A i \in Ings : api[i] # NoObject =>
            DOMAIN api[i] = {"spec", "state", "last", "rv"} /\ api[i].rv = 0
    BY <2>1, ApisAssumption DEF IsIngressObject
  <2> QED BY <1>1, <2>2 DEF Version, Objects
<1>3. MapTypes
  BY <1>1, <1>2, FirstListShowsVersions DEF MapTypes, FirstList
<1>4. \A i \in Ings : Version(i, store[i]) /\ ~HoldsObjectOf(i)
  BY <1>1, <1>2 DEF Version, HoldsObjectOf
<1> QED BY <1>1, <1>2, <1>3, <1>4, FirstListShowsVersions DEF StatusInv, VersionsAgree

\* Every step keeps the versions.
LEMMA NextStatusInv == ConfInv /\ StatusInv /\ [Next]_vars => StatusInv'
<1> SUFFICES ASSUME ConfInv, StatusInv, [Next]_vars PROVE StatusInv'
  OBVIOUS
<1>1. CASE Environment
  <2>1. ASSUME NEW s \in Services, NEW value, WriteEndpoints(s, value) PROVE StatusInv'
    BY <2>1, OtherWriteKeepsStatusInv DEF WriteEndpoints
  <2>2. ASSUME NEW c \in ConfigMaps, NEW value, WriteConfigMap(c, value) PROVE StatusInv'
    BY <2>2, OtherWriteKeepsStatusInv DEF WriteConfigMap
  <2> QED BY <1>1, <2>1, <2>2, IngressWriteKeepsStatusInv, DeletionKeepsStatusInv,
             RestartKeepsStatusInv DEF Environment
<1>2. CASE Worker
  BY <1>2, LookUpKeepsStatusInv, SyncKeepsStatusInv, OtherStepsKeepStatusInv DEF Worker
<1> QED BY <1>1, <1>2, DeltasKeepStatusInv, OtherStepsKeepStatusInv DEF Next

LEMMA StatusInvariance == Spec => []StatusInv
BY InitStatusInv, NextStatusInv, ConfInvariance, PTL DEF Spec

\* A write of the worker is of the version the API server has.
LEMMA StepKeepsUserWrites ==
    ASSUME ConfInv, StatusInv, [Next]_vars, writes' = writes,
           NEW i \in Ings, api'[i] # api[i]
    PROVE  api[i] # NoObject /\ api'[i].spec = api[i].spec
<1>1. ASSUME Environment PROVE writes' = writes + 1
  BY <1>1 DEF Environment, CreateIngress, UpdateIngress, DeleteIngress, WriteEndpoints, WriteConfigMap,
              UserWrites, Restart
<1>2. ~Environment
  BY <1>1 DEF StatusInv, MapTypes
<1>3. SyncIngress
  <2>1. \A o \in Objects : HandleDeltas(o) => api' = api
    BY DEF HandleDeltas, apiVars
  <2>2. LookUp => api' = api
    BY DEF LookUp, apiVars
  <2> QED BY <1>2, <2>1, <2>2, OtherStepsKeepStatusInv DEF Next, Worker
<1>4. WriteOfWorker
  BY <1>3, SyncWritesStatus
<1>5. PICK j \in Ings : \E value : /\ api' = [api EXCEPT ![j] = value]
                                    /\ api[j] # NoObject /\ value.spec = api[j].spec
  BY <1>4 DEF WriteOfWorker, Put
<1>6. PICK value : api' = [api EXCEPT ![j] = value] /\ api[j] # NoObject /\ value.spec = api[j].spec
  BY <1>5
<1>7. i = j /\ api'[i] = value
  BY <1>6 DEF StatusInv, MapTypes, Objects
<1> QED BY <1>6, <1>7

\* The status write never takes back what a user wrote meanwhile, and never
\* brings a deleted ingress back, however far the cache lags behind.
THEOREM StatusAlwaysKeepsUserWrites == Spec => StatusKeepsUserWrites
<1>1. ConfInv /\ StatusInv /\ [Next]_vars =>
        [writes' = writes =>
            \A i \in Ings : api'[i] # api[i] => api[i] # NoObject /\ api'[i].spec = api[i].spec]_vars
  BY StepKeepsUserWrites
<1> QED BY <1>1, StatusInvariance, ConfInvariance, PTL DEF Spec, StatusKeepsUserWrites
------------------------------------------------------------------------------
(***************************************************************************)
(* Type correctness of the controller, for any objects, keys and bounds.   *)
(* ConfInv and StatusInv already have the types of the queue, of the       *)
(* config maps and of the versions; what is left is the worker's program   *)
(* counter, the notifications, the endpoints, and the fields of every copy *)
(* of an ingress: what installing an ingress leaves of the cached          *)
(* LastPaths, and what the status write stores, are paths by host.         *)
(***************************************************************************)
ControlTypes ==
    /\ processing \subseteq Keys
    /\ job.pc \in {"idle", "got", "found", "parsed", "check", "slept", "done"}
    /\ job.pc = "idle" => job.item = Idle
    /\ writes \in 0..MaxWrites
    /\ listing \subseteq Objects
    /\ start \in BOOLEAN /\ election \in BOOLEAN

NoteTypes == notes \in [Services -> Seq({"ADD", "Update", "Del"})]

Endpoints == EpStates \cup {NoObject}

EndpointTypes ==
    \A s \in Services : api[s] \in Endpoints /\ store[s] \in Endpoints /\ watch[s] \in Seq(Endpoints)

\* x is the ingress i, or says that there is none.
IngressCopy(i, x) == x # NoObject => IsIngressObject(i, x)

HoldsCopy == job.pc \in {"found", "parsed"} => IngressCopy(job.item.name, job.obj)

IngressTypes ==
    /\ \A i \in Ings : /\ IngressCopy(i, api[i]) /\ IngressCopy(i, store[i])
                       /\ \A x \in ToSet(watch[i]) : IngressCopy(i, x)
    /\ HoldsCopy

TypeInv == ControlTypes /\ NoteTypes /\ EndpointTypes /\ IngressTypes

\* The worker's next program counter, whatever it does.
LEMMA WorkerKeepsControlTypes ==
    ASSUME ConfInv, StatusInv, ControlTypes, Worker
    PROVE  ControlTypes'
<1>1. UNCHANGED <<writes, listing, election>> /\ (start' = start \/ start' = FALSE)
  BY DEF Worker, GetItem, SyncDelete, SyncConfigmap, LookUp, SyncEndpoints, Parse, SyncIngress, CheckLen,
         Render, LeaveRender, FinishItem, apiVars, cacheVars, cfgVars
<1>2. CASE GetItem
  <2>1. PICK k \in ToSet(queue) : Get(k) /\ job' = [IdleJob EXCEPT !.pc = "got", !.item = k]
    BY <1>2 DEF GetItem
  <2>2. k \in Keys
    BY DEF ToSet, ConfInv, Types, QueueTypes
  <2>3. processing' \subseteq Keys /\ job'.pc = "got"
    BY <2>1, <2>2 DEF Get, IdleJob, ControlTypes
  <2> QED BY <1>1, <2>3 DEF ControlTypes
<1>3. CASE FinishItem
  <2>1. processing' \subseteq Keys /\ job'.pc = "idle" /\ job'.item = Idle
    BY <1>3 DEF FinishItem, Done, IdleJob, ControlTypes
  <2> QED BY <1>1, <2>1 DEF ControlTypes
<1>4. CASE LookUp \/ Parse
  <2>1. /\ UNCHANGED processing /\ job'.pc \in {"found", "parsed", "done"}
    BY <1>4 DEF LookUp, Parse, workVars, StatusInv, MapTypes
  <2> QED BY <1>1, <2>1 DEF ControlTypes
<1>5. CASE SyncDelete \/ SyncConfigmap \/ SyncEndpoints \/ SyncIngress \/ CheckLen \/ Render \/ LeaveRender
  <2>1. UNCHANGED processing /\ \E pc \in {"done", "check", "slept"} : job' = [job EXCEPT !.pc = pc]
    <3>1. CASE SyncIngress
      BY <3>1 DEF SyncIngress, Goto, workVars
    <3>2. CASE ~SyncIngress
      BY <1>5, <3>2 DEF SyncDelete, SyncConfigmap, SyncEndpoints, CheckLen, Render, LeaveRender, Goto, workVars
    <3> QED BY <3>1, <3>2
  <2>2. job'.pc \in {"done", "check", "slept"}
    BY <2>1 DEF StatusInv, MapTypes
  <2> QED BY <1>1, <2>1, <2>2 DEF ControlTypes
<1> QED BY <1>2, <1>3, <1>4, <1>5 DEF Worker

\* Nobody else changes what the worker does, except that it dies.
LEMMA NextControlTypes ==
    ASSUME ConfInv, StatusInv, ControlTypes, [Next]_vars
    PROVE  ControlTypes'
<1>1. CASE Environment
  <2>1. CASE Restart
    <3>1. job'.pc = "idle" /\ job'.item = Idle /\ processing' = {} /\ start' = TRUE /\ election' = FALSE
      BY <2>1 DEF Restart, IdleJob
    <3>2. writes' \in 0..MaxWrites /\ listing' \subseteq Objects
      BY <2>1, MaxWritesAssumption DEF Restart, Listed, ControlTypes
    <3> QED BY <3>1, <3>2 DEF ControlTypes
  <2>2. ASSUME NEW o, NEW value, UserWrites(o, value) PROVE ControlTypes'
    BY <2>2, MaxWritesAssumption DEF UserWrites, workVars, cfgVars, ControlTypes
  <2>3. Restart \/ \E o, value : UserWrites(o, value)
    BY <1>1 DEF Environment, CreateIngress, UpdateIngress, DeleteIngress, WriteEndpoints, WriteConfigMap
  <2> QED BY <2>1, <2>2, <2>3
<1>2. ASSUME NEW o \in Objects, HandleDeltas(o) PROVE ControlTypes'
  BY <1>2 DEF HandleDeltas, apiVars, queueVars, cfgVars, ControlTypes
<1>3. ASSUME NEW s \in Services, HandleEndpoints(s) PROVE ControlTypes'
  BY <1>3 DEF HandleEndpoints, apiVars, queueVars, cfgVars, ControlTypes
<1>4. ASSUME NEW k \in Keys, Enqueue(k) PROVE ControlTypes'
  BY <1>4 DEF Enqueue, Ripen, Merge, Add, apiVars, cacheVars, queueVars, cfgVars, ControlTypes
<1>5. CASE Elect \/ UNCHANGED vars
  BY <1>5 DEF Elect, vars, apiVars, cacheVars, workVars, cfgVars, ControlTypes
<1> QED BY <1>1, <1>2, <1>3, <1>4, <1>5, WorkerKeepsControlTypes DEF Next

\* The informer appends at most one notification, the handler takes one.
LEMMA NextNoteTypes ==
    ASSUME NoteTypes, [Next]_vars
    PROVE  NoteTypes'
<1>1. ASSUME NEW o \in Objects, HandleDeltas(o) PROVE NoteTypes'
  <2>1. EndpointsNotified(store[o], Head(watch[o])) \in Seq({"ADD", "Update", "Del"})
    <3>1. /\ <<>> \in Seq({"ADD", "Update", "Del"}) /\ <<"ADD">> \in Seq({"ADD", "Update", "Del"})
          /\ <<"Update">> \in Seq({"ADD", "Update", "Del"}) /\ <<"Del">> \in Seq({"ADD", "Update", "Del"})
      OBVIOUS
    <3>2. EndpointsNotified(store[o], Head(watch[o])) \in {<<>>, <<"ADD">>, <<"Update">>, <<"Del">>}
      BY DEF EndpointsNotified
    <3> QED BY <3>1, <3>2
  <2>2. CASE o \in Services
    <3>1. notes[o] \o EndpointsNotified(store[o], Head(watch[o])) \in Seq({"ADD", "Update", "Del"})
      BY <2>1, <2>2 DEF NoteTypes
    <3> QED BY <1>1, <2>2, <3>1 DEF HandleDeltas, NoteTypes
  <2>3. CASE o \notin Services
    BY <1>1, <2>3 DEF HandleDeltas, NoteTypes
  <2> QED BY <2>2, <2>3
<1>2. ASSUME NEW s \in Services, HandleEndpoints(s) PROVE NoteTypes'
  <2>1. Tail(notes[s]) \in Seq({"ADD", "Update", "Del"})
    BY <1>2 DEF HandleEndpoints, NoteTypes
  <2> QED BY <1>2, <2>1 DEF HandleEndpoints, NoteTypes
<1>3. CASE Restart
  BY <1>3 DEF Restart, NoteTypes
<1>4. CASE UNCHANGED notes
  BY <1>4 DEF NoteTypes
<1>5. Environment => Restart \/ UNCHANGED notes
  BY DEF Environment, CreateIngress, UpdateIngress, DeleteIngress, WriteEndpoints, WriteConfigMap, UserWrites
<1>6. Worker => UNCHANGED notes
  BY DEF Worker, GetItem, SyncDelete, SyncConfigmap, LookUp, SyncEndpoints, Parse, SyncIngress, CheckLen,
         Render, LeaveRender, FinishItem, cacheVars
<1> QED BY <1>1, <1>2, <1>3, <1>4, <1>5, <1>6 DEF Next, Enqueue, Elect, vars, cacheVars

\* The first list of an object is a sequence of what it may be.
LEMMA FirstListTyped ==
    ASSUME NEW o \in Objects, NEW S, api[o] \in S
    PROVE  FirstList(api)[o] \in Seq(S)
<1>1. <<>> \in Seq(S) /\ <<api[o]>> \in Seq(S)
  OBVIOUS
<1> QED BY <1>1 DEF FirstList

\* A user writes an endpoints object, or something else.
LEMMA UserKeepsEndpointTypes ==
    ASSUME StatusInv, EndpointTypes, NEW o \in Objects, NEW value, UserWrites(o, value),
           o \in Services => value \in Endpoints
    PROVE  EndpointTypes'
<1>1. /\ \A p \in Objects : p # o => api'[p] = api[p] /\ watch'[p] = watch[p]
      /\ api'[o] = value /\ watch'[o] = Append(watch[o], value) /\ store' = store
  BY DEF UserWrites, Put, StatusInv, MapTypes
<1>2. o \in Services => watch'[o] \in Seq(Endpoints)
  BY <1>1 DEF EndpointTypes
<1>3. \A s \in Services : s \in Objects
  BY DEF Objects
<1> QED BY <1>1, <1>2, <1>3 DEF EndpointTypes

\* Only users write endpoints.
LEMMA NextEndpointTypes ==
    ASSUME ConfInv, StatusInv, EndpointTypes, [Next]_vars
    PROVE  EndpointTypes'
<1>0. \A s \in Services : s \in Objects /\ s \notin Ings /\ s \notin ConfigMaps
  BY NamesAssumption DEF Objects
<1>1. CASE Environment
  <2>1. CASE Restart
    <3>1. \A s \in Services : store'[s] = NoObject /\ api'[s] \in Endpoints /\ watch'[s] = FirstList(api)[s]
      BY <1>0, <2>1 DEF Restart, EndpointTypes
    <3>2. \A s \in Services : watch'[s] \in Seq(Endpoints)
      BY <1>0, <3>1, FirstListTyped DEF EndpointTypes
    <3> QED BY <3>1, <3>2 DEF EndpointTypes, Endpoints
  <2>2. ASSUME NEW s \in Services, NEW value \in EpStates, WriteEndpoints(s, value) PROVE EndpointTypes'
    BY <1>0, <2>2, UserKeepsEndpointTypes DEF WriteEndpoints, Endpoints
  <2>3. ASSUME NEW o \in Ings \cup ConfigMaps, NEW value, UserWrites(o, value) PROVE EndpointTypes'
    BY <1>0, <2>3, UserKeepsEndpointTypes DEF Objects
  <2> QED BY <1>1, <2>1, <2>2, <2>3
          DEF Environment, CreateIngress, UpdateIngress, DeleteIngress, WriteConfigMap
<1>2. ASSUME NEW o \in Objects, HandleDeltas(o) PROVE EndpointTypes'
  <2>1. /\ watch[o] # <<>> /\ api' = api /\ watch'[o] = Tail(watch[o]) /\ store'[o] = Head(watch[o])
        /\ \A p \in Objects : p # o => watch'[p] = watch[p] /\ store'[p] = store[p]
    BY <1>2 DEF HandleDeltas, apiVars, StatusInv, MapTypes
  <2>2. o \in Services => Tail(watch[o]) \in Seq(Endpoints) /\ Head(watch[o]) \in Endpoints
    BY <2>1 DEF EndpointTypes
  <2> QED BY <1>0, <2>1, <2>2 DEF EndpointTypes
<1>3. CASE SyncIngress
  <2>1. job.item.name \in Ings
    BY <1>3, WorkerHoldsIngress DEF SyncIngress
  <2>2. \A s \in Services : api'[s] = api[s] /\ watch'[s] = watch[s] /\ store'[s] = store[s]
    BY <1>0, <1>3, <2>1, SyncWritesStatus DEF WriteOfWorker, Put, CacheAfter, StatusInv, MapTypes
  <2> QED BY <2>2 DEF EndpointTypes
<1>4. ASSUME ~Environment, \A o \in Objects : ~HandleDeltas(o), ~SyncIngress PROVE EndpointTypes'
  <2>1. LookUp => UNCHANGED <<api, store, watch>>
    BY DEF LookUp, apiVars, cacheVars
  <2>2. UNCHANGED <<api, store, watch>>
    BY <1>4, <2>1, OtherStepsKeepStatusInv DEF Next, Worker
  <2> QED BY <2>2 DEF EndpointTypes
<1> QED BY <1>1, <1>2, <1>3, <1>4

\* The status lists hosts of the specification.
LEMMA HostsOfStatus ==
    ASSUME NEW i \in Ings, NEW spec \in Specs[i]
    PROVE  DOMAIN LastPaths(spec) \subseteq HostsOf(i)
<1> DEFINE H == {spec[k].host : k \in {n \in DOMAIN spec : spec[n].paths # <<>>}}
<1>1. \E f : LastPaths(spec) = [h \in H |-> f[h]]
  <2> DEFINE f == LastPaths(spec)
  <2>1. f = [h \in H |-> f[h]]
    BY DEF LastPaths
  <2> QED BY <2>1
<1>2. H \subseteq HostsOf(i)
  BY DEF HostsOf, ToSet
<1> HIDE DEF H
<1> QED BY <1>1, <1>2

\* What users and the worker store is an ingress again.
LEMMA StoredIngresses ==
    ASSUME NEW i \in Ings
    PROVE
    /\ \A spec \in Specs[i] : \A v : IsIngressObject(i, NewIngress(spec, v))
    /\ \A obj : IsIngressObject(i, obj) =>
        /\ \A spec \in Specs[i] : \A v : IsIngressObject(i, [obj EXCEPT !.spec = spec, !.rv = v])
        /\ \A state \in {"", "Ready", "unReady"} : \A v :
                IsIngressObject(i, [obj EXCEPT !.state = state, !.last = LastPaths(obj.spec), !.rv = v])
        /\ \A old, S : IsIngressObject(i, old) =>
                IsIngressObject(i, [old EXCEPT !.last = Without(obj.last, S)])
<1>2. ASSUME NEW spec \in Specs[i], NEW v PROVE IsIngressObject(i, NewIngress(spec, v))
  <2>1. DOMAIN NoServers = {}
    BY DEF NoServers
  <2> QED BY <2>1 DEF IsIngressObject, NewIngress
<1>3. ASSUME NEW obj, IsIngressObject(i, obj)
      PROVE  /\ \A spec \in Specs[i] : \A v : IsIngressObject(i, [obj EXCEPT !.spec = spec, !.rv = v])
             /\ \A state \in {"", "Ready", "unReady"} : \A v :
                    IsIngressObject(i, [obj EXCEPT !.state = state, !.last = LastPaths(obj.spec), !.rv = v])
             /\ \A old, S : IsIngressObject(i, old) =>
                    IsIngressObject(i, [old EXCEPT !.last = Without(obj.last, S)])
  <2>1. \A S : DOMAIN Without(obj.last, S) \subseteq DOMAIN obj.last
    BY DEF Without, Restrict
  <2>2. DOMAIN LastPaths(obj.spec) \subseteq HostsOf(i)
    BY <1>3, HostsOfStatus DEF IsIngressObject
  <2> HIDE DEF LastPaths, Without
  <2>3. ASSUME NEW spec \in Specs[i], NEW v
        PROVE  IsIngressObject(i, [obj EXCEPT !.spec = spec, !.rv = v])
    BY <1>3 DEF IsIngressObject
  <2>4. ASSUME NEW state \in {"", "Ready", "unReady"}, NEW v
        PROVE  IsIngressObject(i, [obj EXCEPT !.state = state, !.last = LastPaths(obj.spec), !.rv = v])
    BY <1>3, <2>2 DEF IsIngressObject
  <2>5. ASSUME NEW old, IsIngressObject(i, old), NEW S
        PROVE  IsIngressObject(i, [old EXCEPT !.last = Without(obj.last, S)])
    BY <1>3, <2>1, <2>5 DEF IsIngressObject
  <2> QED BY <2>3, <2>4, <2>5
<1> QED BY <1>2, <1>3

\* A copy of an ingress is put into the API server and on the way to the cache.
LEMMA PutKeepsIngressTypes ==
    ASSUME StatusInv, IngressTypes, NEW o \in Objects, NEW value, Put(o, value),
           o \in Ings => IngressCopy(o, value), HoldsCopy',
           \A i \in Ings : IngressCopy(i, store'[i])
    PROVE  IngressTypes'
<1>1. /\ \A p \in Objects : p # o => api'[p] = api[p] /\ watch'[p] = watch[p]
      /\ api'[o] = value /\ watch'[o] = Append(watch[o], value)
  BY DEF Put, StatusInv, MapTypes
<1>2. ASSUME o \in Ings PROVE \A x \in ToSet(watch'[o]) : IngressCopy(o, x)
  <2>1. PICK S : watch[o] \in Seq(S)
    BY <1>2 DEF StatusInv, MapTypes
  <2>2. watch[o] \in Seq(S \cup {value})
    BY <2>1
  <2>3. ToSet(watch'[o]) = ToSet(watch[o]) \cup {value}
    BY <1>1, <2>2, ToSetAppend
  <2> QED BY <1>2, <2>3 DEF IngressTypes
<1>3. \A i \in Ings : i \in Objects
  BY DEF Objects
<1> QED BY <1>1, <1>2, <1>3 DEF IngressTypes

\* Steps of users and restarts.
LEMMA EnvironmentKeepsIngressTypes ==
    ASSUME StatusInv, IngressTypes, Environment
    PROVE  IngressTypes'
<1>1. CASE Restart
  <2>1. \A i \in Ings : i \in Objects
    BY DEF Objects
  <2>2. \A i \in Ings : store'[i] = NoObject /\ api'[i] = api[i] /\ watch'[i] = FirstList(api)[i]
    BY <1>1, <2>1 DEF Restart
  <2>3. ASSUME NEW i \in Ings PROVE \A x \in ToSet(watch'[i]) : IngressCopy(i, x)
    <3>1. watch'[i] \in Seq({api[i]})
      BY <2>1, <2>2, FirstListTyped
    <3>2. \A x \in ToSet(watch'[i]) : x = api[i]
      BY <3>1 DEF ToSet
    <3> QED BY <3>2 DEF IngressTypes
  <2>4. HoldsCopy'
    BY <1>1 DEF Restart, IdleJob, HoldsCopy
  <2> QED BY <2>2, <2>3, <2>4 DEF IngressTypes, IngressCopy
<1>2. ASSUME NEW o \in Objects, NEW value, UserWrites(o, value), o \in Ings => IngressCopy(o, value)
      PROVE  IngressTypes'
  <2>1. HoldsCopy' /\ \A i \in Ings : IngressCopy(i, store'[i])
    BY <1>2 DEF UserWrites, HoldsCopy, IngressTypes
  <2> QED BY <1>2, <2>1, PutKeepsIngressTypes DEF UserWrites
<1>3. ASSUME NEW i \in Ings, NEW spec \in Specs[i], CreateIngress(i, spec) PROVE IngressTypes'
  BY <1>2, <1>3, StoredIngresses DEF CreateIngress, IngressCopy, Objects
<1>4. ASSUME NEW i \in Ings, NEW spec \in Specs[i], UpdateIngress(i, spec) PROVE IngressTypes'
  <2>1. IsIngressObject(i, api[i])
    BY <1>4 DEF UpdateIngress, IngressTypes, IngressCopy
  <2> QED BY <1>2, <1>4, <2>1, StoredIngresses DEF UpdateIngress, IngressCopy, Objects
<1>5. ASSUME NEW o \in Services \cup ConfigMaps, NEW value, UserWrites(o, value) PROVE IngressTypes'
  BY <1>2, <1>5, NamesAssumption DEF Objects
<1>6. ASSUME NEW i \in Ings, DeleteIngress(i) PROVE IngressTypes'
  BY <1>2, <1>6 DEF DeleteIngress, IngressCopy, Objects
<1> QED BY <1>1, <1>3, <1>4, <1>5, <1>6 DEF Environment, WriteEndpoints, WriteConfigMap

\* The sync of an ingress: the cached LastPaths lose hosts, and the object
\* that is stored has the paths of its specification.
LEMMA SyncKeepsIngressTypes ==
    ASSUME ConfInv, StatusInv, IngressTypes, SyncIngress
    PROVE  IngressTypes'
<1> DEFINE i      == job.item.name
           parsed == extendingressToServer(i, job.obj.spec, job.addresses)
<1>1. PICK state \in Verdicts(parsed) :
           IF state = "Ready"
           THEN \E out \in updateServerAndUpstreamToCfg(cfg, parsed, job.obj.last, i) :
                    /\ cfg' = out.cfg
                    /\ store' = CacheAfter(i, job.obj, out.last)
                    /\ IF out.panicked
                       THEN Goto("done") /\ UNCHANGED <<api, watch, rv>>
                       ELSE Goto("check") /\ UpdateStatus(i, job.obj, state)
           ELSE /\ \/ UpdateStatus(i, job.obj, state) /\ Goto("check")
                   \/ SilentTest(state) /\ Goto("done") /\ UNCHANGED <<api, watch, rv>>
                /\ UNCHANGED <<cfg, store>>
  BY DEF SyncIngress
<1>2. job.pc = "parsed" /\ i \in Ings /\ i \in Objects /\ IsIngressObject(i, job.obj)
  BY WorkerHoldsIngress DEF SyncIngress, IngressTypes, HoldsCopy, IngressCopy, StatusInv, MapTypes, Objects
<1>3. state \in {"", "Ready", "unReady"}
  BY <1>2 DEF Verdicts, IsIngressObject
<1> HIDE DEF i, parsed
<1>4. \/ store' = store
      \/ \E S : store' = CacheAfter(i, job.obj, Without(job.obj.last, S))
  <2>1. ASSUME NEW out \in updateServerAndUpstreamToCfg(cfg, parsed, job.obj.last, i)
        PROVE  \E S : out.last = Without(job.obj.last, S)
    BY DEF updateServerAndUpstreamToCfg
  <2> QED BY <1>1, <2>1
<1>5. \A j \in Ings : IngressCopy(j, store'[j])
  <2>1. CASE store' = store
    BY <2>1 DEF IngressTypes
  <2>2. ASSUME NEW S, store' = CacheAfter(i, job.obj, Without(job.obj.last, S))
        PROVE  \A j \in Ings : IngressCopy(j, store'[j])
    <3>1. \A j \in Ings : \/ store'[j] = store[j]
                          \/ /\ j = i /\ store[j] # NoObject
                             /\ store'[j] = [store[j] EXCEPT !.last = Without(job.obj.last, S)]
      BY <2>2 DEF CacheAfter, StatusInv, MapTypes, Objects
    <3>2. \A old : IsIngressObject(i, old) => IsIngressObject(i, [old EXCEPT !.last = Without(job.obj.last, S)])
      BY <1>2, StoredIngresses
    <3> HIDE DEF Without
    <3>3. ASSUME NEW j \in Ings PROVE IngressCopy(j, store'[j])
      <4>1. IngressCopy(j, store[j])
        BY DEF IngressTypes
      <4>2. CASE store'[j] = store[j]
        BY <4>1, <4>2
      <4>3. CASE /\ j = i /\ store[j] # NoObject
                 /\ store'[j] = [store[j] EXCEPT !.last = Without(job.obj.last, S)]
        <5>1. IsIngressObject(j, store[j])
          BY <4>1, <4>3 DEF IngressCopy
        <5>2. IsIngressObject(j, store'[j])
          BY <3>2, <4>3, <5>1
        <5> QED BY <5>2 DEF IngressCopy
      <4> QED BY <3>1, <4>2, <4>3
    <3> QED BY <3>3
  <2> QED BY <1>4, <2>1, <2>2
<1>6. HoldsCopy'
  BY SyncWritesStatus DEF HoldsCopy
<1>7. CASE UNCHANGED <<api, watch>>
  BY <1>5, <1>6, <1>7 DEF IngressTypes
<1>8. CASE UpdateStatus(i, job.obj, state) /\ ~UNCHANGED <<api, watch>>
  <2>1. Put(i, [job.obj EXCEPT !.state = state, !.last = LastPaths(job.obj.spec), !.rv = rv + 1])
    BY <1>8 DEF UpdateStatus
  <2>2. IngressCopy(i, [job.obj EXCEPT !.state = state, !.last = LastPaths(job.obj.spec), !.rv = rv + 1])
    BY <1>2, <1>3, StoredIngresses DEF IngressCopy
  <2> QED BY <1>2, <1>5, <1>6, <2>1, <2>2, PutKeepsIngressTypes
<1>9. UpdateStatus(i, job.obj, state) \/ UNCHANGED <<api, watch>>
  BY <1>1
<1> QED BY <1>7, <1>8, <1>9

\* The informer and the lister hand copies on.
LEMMA CopiesStayIngresses ==
    ASSUME ConfInv, StatusInv, IngressTypes,
           LookUp \/ \E o \in Objects : HandleDeltas(o)
    PROVE  IngressTypes'
<1>1. CASE LookUp
  <2>1. /\ UNCHANGED <<api, watch, store>> /\ job'.obj = store[job.item.name] /\ job'.item = job.item
        /\ job'.pc = IF store[job.item.name] = NoObject THEN "done" ELSE "found"
    BY <1>1 DEF LookUp, apiVars, cacheVars, StatusInv, MapTypes
  <2>2. job.item.name \in Ings
    BY <1>1, ConfigmapKeys DEF LookUp, IsEndpoint, IsIngress, ConfInv, Types, JobTypes
  <2> QED BY <2>1, <2>2 DEF IngressTypes, HoldsCopy
<1>2. ASSUME NEW o \in Objects, HandleDeltas(o) PROVE IngressTypes'
  <2>1. /\ UNCHANGED <<api, job>> /\ watch[o] # <<>>
        /\ watch'[o] = Tail(watch[o]) /\ store'[o] = Head(watch[o])
        /\ \A p \in Objects : p # o => watch'[p] = watch[p] /\ store'[p] = store[p]
    BY <1>2 DEF HandleDeltas, apiVars, StatusInv, MapTypes
  <2>2. ASSUME o \in Ings
        PROVE  ToSet(watch'[o]) \subseteq ToSet(watch[o]) /\ store'[o] \in ToSet(watch[o])
    <3>1. PICK S : watch[o] \in Seq(S)
      BY <2>2 DEF StatusInv, MapTypes
    <3> QED BY <2>1, <3>1, ToSetOfTail
  <2>3. \A i \in Ings : i \in Objects
    BY DEF Objects
  <2> QED BY <2>1, <2>2, <2>3 DEF IngressTypes, HoldsCopy
<1> QED BY <1>1, <1>2

\* Every step leaves ingresses where there were ingresses.
LEMMA NextIngressTypes ==
    ASSUME ConfInv, StatusInv, IngressTypes, [Next]_vars
    PROVE  IngressTypes'
<1>1. ASSUME ~Environment, \A o \in Objects : ~HandleDeltas(o), ~SyncIngress, ~LookUp
      PROVE  IngressTypes'
  <2>1. /\ UNCHANGED <<api, store, watch>>
        /\ \/ \E s \in Services : HandleEndpoints(s)
           \/ \E k \in Keys : Enqueue(k)
           \/ Elect \/ GetItem \/ SyncDelete \/ SyncConfigmap \/ SyncEndpoints \/ Parse
           \/ CheckLen \/ Render \/ LeaveRender \/ FinishItem \/ UNCHANGED vars
    BY <1>1, OtherStepsKeepStatusInv DEF Next, Worker
  <2>2. CASE (\E s \in Services : HandleEndpoints(s)) \/ (\E k \in Keys : Enqueue(k)) \/ Elect \/ UNCHANGED vars
    <3>1. job' = job
      BY <2>2 DEF HandleEndpoints, Enqueue, Elect, vars
    <3> QED BY <2>1, <3>1 DEF IngressTypes, HoldsCopy
  <2>3. CASE GetItem
    <3>1. job'.pc = "got"
      BY <2>3 DEF GetItem, IdleJob
    <3> QED BY <2>1, <3>1 DEF IngressTypes, HoldsCopy
  <2>4. CASE FinishItem
    BY <2>1, <2>4 DEF FinishItem, IdleJob, IngressTypes, HoldsCopy
  <2>5. CASE Parse
    <3>1. job.pc = "found" /\ job'.obj = job.obj /\ job'.item = job.item
      BY <2>5 DEF Parse, StatusInv, MapTypes
    <3> QED BY <2>1, <3>1 DEF IngressTypes, HoldsCopy
  <2>6. CASE SyncDelete \/ SyncConfigmap \/ SyncEndpoints \/ CheckLen \/ Render \/ LeaveRender
    <3>1. PICK pc \in {"done", "check", "slept"} : job' = [job EXCEPT !.pc = pc]
      BY <2>6 DEF SyncDelete, SyncConfigmap, SyncEndpoints, CheckLen, Render, LeaveRender, Goto
    <3>2. job'.pc \notin {"found", "parsed"}
      BY <3>1 DEF StatusInv, MapTypes
    <3> QED BY <2>1, <3>2 DEF IngressTypes, HoldsCopy
  <2> QED BY <2>1, <2>2, <2>3, <2>4, <2>5, <2>6
<1> QED BY <1>1, EnvironmentKeepsIngressTypes, CopiesStayIngresses, SyncKeepsIngressTypes

\* At the start there is what users left.
LEMMA InitTypeInv == Init => TypeInv
<1> SUFFICES ASSUME Init PROVE TypeInv
  OBVIOUS
<1>1. ControlTypes
  <2>1. job.pc = "idle" /\ job.item = Idle /\ processing = {}
    BY DEF Init, LimitedInit, QueueInit, IdleJob
  <2>2. writes \in 0..MaxWrites /\ listing \subseteq Objects /\ start = TRUE /\ election = FALSE
    BY MaxWritesAssumption DEF Init, Listed
  <2> QED BY <2>1, <2>2 DEF ControlTypes
<1>2. NoteTypes
  <2>1. <<>> \in Seq({"ADD", "Update", "Del"})
    OBVIOUS
  <2> QED BY <2>1 DEF Init, NoteTypes
<1>3. api \in Apis /\ watch = FirstList(api) /\ \A o \in Objects : store[o] = NoObject
  BY DEF Init
<1>4. EndpointTypes
  <2>1. \A s \in Services : s \in Objects /\ api[s] \in Endpoints
    BY <1>3, ApisAssumption DEF Endpoints, Objects
  <2>2. \A s \in Services : watch[s] \in Seq(Endpoints)
    BY <1>3, <2>1, FirstListTyped
  <2> QED BY <1>3, <2>1, <2>2 DEF EndpointTypes, Endpoints
<1>5. IngressTypes
  <2>1. \A i \in Ings : i \in Objects /\ IngressCopy(i, api[i]) /\ IngressCopy(i, store[i])
    BY <1>3, ApisAssumption DEF IngressCopy, Objects
  <2>2. ASSUME NEW i \in Ings PROVE \A x \in ToSet(watch[i]) : IngressCopy(i, x)
    <3>1. watch[i] \in Seq({api[i]})
      BY <1>3, <2>1, FirstListTyped
    <3>2. \A x \in ToSet(watch[i]) : x = api[i]
      BY <3>1 DEF ToSet
    <3> QED BY <2>1, <3>2
  <2>3. HoldsCopy
    BY DEF Init, IdleJob, HoldsCopy
  <2> QED BY <2>1, <2>2, <2>3 DEF IngressTypes
<1> QED BY <1>1, <1>2, <1>4, <1>5 DEF TypeInv

\* Together with the invariants of the config maps and of the status write
\* these are the types of all variables.
LEMMA TypesComplete == ConfInv /\ StatusInv /\ TypeInv => TypeOK
<1> SUFFICES ASSUME ConfInv, StatusInv, TypeInv PROVE TypeOK
  OBVIOUS
<1>1. LimitedTypeOK
  BY ItemsAssumption DEF LimitedTypeOK, QueueTypeOK, ConfInv, Types, QueueTypes, TypeInv, ControlTypes
<1>2. ASSUME NEW i \in Ings, NEW x, Version(i, x), IngressCopy(i, x) PROVE ObjectTypeOK(i, x)
  BY <1>2 DEF Version, IngressCopy, ObjectTypeOK, IngressTypeOK
<1>3. ASSUME NEW i \in Ings
      PROVE  /\ ObjectTypeOK(i, api[i]) /\ ObjectTypeOK(i, store[i])
             /\ \A k \in DOMAIN watch[i] : ObjectTypeOK(i, watch[i][k])
  <2>1. \A k \in DOMAIN watch[i] : watch[i][k] \in ToSet(watch[i])
    BY DEF ToSet
  <2> QED BY <1>2, <2>1 DEF TypeInv, IngressTypes, StatusInv, VersionsAgree
<1>4. ASSUME NEW s \in Services
      PROVE  /\ ObjectTypeOK(s, api[s]) /\ ObjectTypeOK(s, store[s])
             /\ \A k \in DOMAIN watch[s] : ObjectTypeOK(s, watch[s][k])
  BY DEF ObjectTypeOK, TypeInv, EndpointTypes, Endpoints
<1>5. ASSUME NEW c \in ConfigMaps
      PROVE  /\ ObjectTypeOK(c, api[c]) /\ ObjectTypeOK(c, store[c])
             /\ \A k \in DOMAIN watch[c] : ObjectTypeOK(c, watch[c][k])
  BY DEF ObjectTypeOK, ConfInv, Types, CacheTypes, Written
<1>6. \A o \in Objects : /\ ObjectTypeOK(o, api[o]) /\ ObjectTypeOK(o, store[o])
                         /\ \A k \in DOMAIN watch[o] : ObjectTypeOK(o, watch[o][k])
  BY <1>3, <1>4, <1>5 DEF Objects
<1>7. job.pc \in {"found", "parsed"} => job.obj # NoObject /\ IngressTypeOK(job.item.name, job.obj)
  <2> SUFFICES ASSUME job.pc \in {"found", "parsed"} PROVE job.obj # NoObject /\ IngressTypeOK(job.item.name, job.obj)
    OBVIOUS
  <2>1. job.obj # NoObject /\ IsIngressObject(job.item.name, job.obj)
    BY DEF StatusInv, MapTypes, TypeInv, IngressTypes, HoldsCopy, IngressCopy
  <2>2. job.obj.rv \in 0..rv
    BY <2>1, WorkerHoldsIngress DEF StatusInv, VersionsAgree, HoldsObjectOf, Version
  <2> QED BY <2>1, <2>2 DEF IngressTypeOK
<1>8. /\ IF job.pc = "idle" THEN job.item = Idle ELSE job.item \in Keys
      /\ DOMAIN cfg.conf = ConfigMaps
      /\ \A s \in Services : notes[s] \in Seq({"ADD", "Update", "Del"})
  BY DEF ConfInv, Types, JobTypes, ConfTypes, TypeInv, ControlTypes, NoteTypes
<1> QED BY <1>1, <1>6, <1>7, <1>8 DEF TypeOK, TypeInv, ControlTypes

LEMMA TypeInvariance == Spec => []TypeInv
<1>1. ConfInv /\ StatusInv /\ TypeInv /\ [Next]_vars => TypeInv'
  BY NextControlTypes, NextNoteTypes, NextEndpointTypes, NextIngressTypes DEF TypeInv
<1> QED BY <1>1, StatusInvariance, InitTypeInv, ConfInvariance, PTL DEF Spec

\* The variables of the controller keep their types, whatever users, informers
\* and restarts do: in particular the worker never handles an ingress that
\* was not found, and an item in work is a key.
THEOREM TypesAreCorrect == Spec => []TypeOK
BY StatusInvariance, TypeInvariance, TypesComplete, ConfInvariance, PTL
------------------------------------------------------------------------------
(***************************************************************************)
(* Isolation of the ingresses and the parameters of their locations.       *)
(***************************************************************************)
ConfigShape == DOMAIN cfg = {"servers", "ups", "conf"}

\* Whoever works on an ingress has its hosts.
LEMMA RulesOfSpec ==
    ASSUME NEW i \in Ings, NEW spec \in Specs[i]
    PROVE  RulesAt(HostsOf(i), spec)
<1>1. ToSet(spec) \subseteq UNION {ToSet(sp) : sp \in Specs[i]}
  OBVIOUS
<1>2. \A r \in ToSet(spec) : r.host \in HostsOf(i)
  BY DEF HostsOf
<1> QED BY <1>2, SpecsAssumption DEF RulesAt

\* A function on the positions of a sequence is a sequence.
LEMMA SameLength ==
    ASSUME NEW T, NEW s \in Seq(T), NEW f, f = [k \in DOMAIN s |-> f[k]]
    PROVE  f \in Seq(ToSet(f)) /\ DOMAIN f = DOMAIN s
<1>1. DOMAIN s = 1..Len(s) /\ Len(s) \in Nat
  OBVIOUS
<1>2. \A k \in 1..Len(s) : f[k] \in ToSet(f)
  BY <1>1 DEF ToSet
<1> QED BY <1>1, <1>2

LEMMA GroupsOfKey ==
    ASSUME NEW k \in Keys, k.kind = "ExtendIngress", k.event = "Del"
    PROVE  /\ k.name \in Ings /\ GroupsAt(HostsOf(k.name), k.groups)
           /\ \E spec \in Specs[k.name] : k.groups = GroupsOf(spec)
<1>1. PICK i \in Ings : \E spec \in Specs[i] : k = DelKey(i, spec)
  <2>1. ~(\E event \in {"ADD", "Update"}, i \in Ings : k = IngressKey(event, i))
    BY DEF IngressKey
  <2>2. ~(\E event \in {"ADD", "Update", "Del"}, i \in Ings : \E p \in PathsGiven(i) :
                k = EndpointKey(event, i, p.svc, p.path))
    BY DEF EndpointKey
  <2>3. ~(\E event \in {"ADD", "Update", "Del"}, c \in ConfigMaps : k = ConfigmapKey(event, c))
    BY DEF ConfigmapKey
  <2>4. k \notin UNION {{EndpointKey(event, i, p.svc, p.path) :
                            event \in {"ADD", "Update", "Del"}, p \in PathsGiven(i)} : i \in Ings}
    BY <2>2
  <2> QED BY <2>1, <2>3, <2>4 DEF Keys
<1>2. PICK spec \in Specs[i] : k = DelKey(i, spec)
  BY <1>1
<1> DEFINE pathsOf(n) == [m \in DOMAIN spec[n].paths |-> spec[n].paths[m].path]
           groups == [n \in DOMAIN spec |-> [host |-> spec[n].host, paths |-> pathsOf(n)]]
<1>3. k.name = i /\ k.groups = groups
  BY <1>2 DEF DelKey
<1>4. RulesAt(HostsOf(i), spec)
  BY RulesOfSpec
<1>5. groups \in Seq(ToSet(groups)) /\ DOMAIN groups = DOMAIN spec
  <2>1. groups = [n \in DOMAIN spec |-> groups[n]]
    OBVIOUS
  <2> HIDE DEF groups
  <2>2. spec \in Seq(ToSet(spec))
    BY <1>4 DEF RulesAt
  <2> QED BY <2>1, <2>2, SameLength
<1>6. ASSUME NEW n \in DOMAIN spec
      PROVE  groups[n].host \in HostsOf(i) /\ groups[n].paths \in Seq(ToSet(groups[n].paths))
  <2>1. spec[n] \in ToSet(spec)
    BY DEF ToSet
  <2>2. spec[n].paths \in Seq(ToSet(spec[n].paths)) /\ spec[n].host \in HostsOf(i)
    BY <1>4, <2>1 DEF RulesAt
  <2>3. pathsOf(n) = [m \in DOMAIN spec[n].paths |-> pathsOf(n)[m]]
    OBVIOUS
  <2>4. groups[n].host = spec[n].host /\ groups[n].paths = pathsOf(n)
    OBVIOUS
  <2> HIDE DEF pathsOf, groups
  <2>5. pathsOf(n) \in Seq(ToSet(pathsOf(n)))
    BY <2>2, <2>3, SameLength
  <2> QED BY <2>2, <2>4, <2>5
<1>7. groups = GroupsOf(spec)
  BY DEF GroupsOf
<1> HIDE DEF groups
<1> QED BY <1>3, <1>5, <1>6, <1>7 DEF GroupsAt

\* The steps that change the configuration, and what they have at hand.
Deletes(i) ==
    \E groups : GroupsAt(HostsOf(i), groups) /\ cfg' = delServerAndUpstreamFromCfg(cfg, groups).cfg

Redirects(i) ==
    \E spec \in Specs[i] : \E svc, q, addresses :
        cfg' = updateEndpointsToCfg(cfg, i, svc, q, spec, addresses).cfg

Installs(i) ==
    \E spec \in Specs[i] : \E addresses, last :
        LET parsed == extendingressToServer(i, spec, addresses)
        IN  /\ DOMAIN last \subseteq HostsOf(i)
            /\ "breakTest" \in Events \/ checkIngressValid(parsed)
            /\ \E out \in updateServerAndUpstreamToCfg(cfg, parsed, last, i) : cfg' = out.cfg

LEMMA DeletionStep ==
    ASSUME ConfInv, SyncDelete
    PROVE  job.item.name \in Ings /\ Deletes(job.item.name)
<1>1. job.item \in Keys /\ job.item.kind = "ExtendIngress" /\ job.item.event = "Del"
  BY DEF SyncDelete, IsIngress, ConfInv, Types, JobTypes
<1>2. cfg' = delServerAndUpstreamFromCfg(cfg, job.item.groups).cfg
  BY DEF SyncDelete
<1> QED BY <1>1, <1>2, GroupsOfKey DEF Deletes

\* The object the worker holds is the ingress of its item.
LEMMA ObjectOfItem ==
    ASSUME ConfInv, StatusInv, TypeInv, job.pc \in {"found", "parsed"}
    PROVE  /\ job.item.name \in Ings
           /\ job.obj.spec \in Specs[job.item.name]
           /\ DOMAIN job.obj.last \subseteq HostsOf(job.item.name)
<1>1. job.item.name \in Ings
  BY WorkerHoldsIngress
<1>2. job.obj # NoObject /\ IsIngressObject(job.item.name, job.obj)
  BY DEF StatusInv, MapTypes, TypeInv, IngressTypes, HoldsCopy, IngressCopy
<1> QED BY <1>1, <1>2 DEF IsIngressObject

LEMMA EndpointStep ==
    ASSUME ConfInv, StatusInv, TypeInv, SyncEndpoints, cfg' # cfg
    PROVE  job.item.name \in Ings /\ Redirects(job.item.name)
<1>1. job.item.name \in Ings /\ job.obj.spec \in Specs[job.item.name]
  BY ObjectOfItem DEF SyncEndpoints
<1>2. cfg' = updateEndpointsToCfg(cfg, job.item.name, job.item.svc, job.item.path,
                                  job.obj.spec, Addresses[job.item.svc]).cfg
  BY DEF SyncEndpoints
<1> QED BY <1>1, <1>2 DEF Redirects

LEMMA InstallationStep ==
    ASSUME ConfInv, StatusInv, TypeInv, SyncIngress, cfg' # cfg
    PROVE  job.item.name \in Ings /\ Installs(job.item.name)
<1> DEFINE i      == job.item.name
           parsed == extendingressToServer(i, job.obj.spec, job.addresses)
<1>1. i \in Ings /\ job.obj.spec \in Specs[i] /\ DOMAIN job.obj.last \subseteq HostsOf(i)
  BY ObjectOfItem DEF SyncIngress
<1>2. PICK state \in Verdicts(parsed) :
            state = "Ready" /\ \E out \in updateServerAndUpstreamToCfg(cfg, parsed, job.obj.last, i) : cfg' = out.cfg
  BY DEF SyncIngress
<1> HIDE DEF i, parsed
<1>3. "breakTest" \in Events \/ checkIngressValid(parsed)
  BY <1>2 DEF Verdicts
<1>4. Installs(i)
  BY <1>1, <1>2, <1>3 DEF Installs, parsed
<1> QED BY <1>1, <1>4 DEF i

\* All other steps leave servers and upstreams as they are, or the process dies.
LEMMA OtherStepsKeepConfig ==
    ASSUME ConfInv, ConfigShape, [Next]_vars, ~SyncDelete, ~SyncEndpoints, ~SyncIngress
    PROVE  \/ cfg' = EmptyCfg /\ job'.pc = "idle"
           \/ /\ UNCHANGED <<cfg.servers, cfg.ups>> /\ DOMAIN cfg' = DOMAIN cfg
              /\ cfg' # cfg => job.pc = "slept" \/ IsConfigmap
<1>1. CASE Restart
  BY <1>1 DEF Restart, IdleJob
<1>2. CASE SyncConfigmap
  <2>1. \E conf : cfg' = [cfg EXCEPT !.conf = conf]
    BY <1>2 DEF SyncConfigmap
  <2>2. UNCHANGED <<cfg.servers, cfg.ups>> /\ DOMAIN cfg' = DOMAIN cfg
    BY <2>1 DEF ConfigShape
  <2> QED BY <1>2, <2>2 DEF SyncConfigmap
<1>3. CASE Render
  <2>1. \E conf : cfg' = [cfg EXCEPT !.conf = conf]
    BY <1>3 DEF Render, WithBaseConf
  <2>2. UNCHANGED <<cfg.servers, cfg.ups>> /\ DOMAIN cfg' = DOMAIN cfg
    BY <2>1 DEF ConfigShape
  <2> QED BY <1>3, <2>2 DEF Render
<1>4. CASE Worker /\ ~SyncConfigmap /\ ~Render
  BY <1>4 DEF Worker, GetItem, LookUp, Parse, CheckLen, LeaveRender, FinishItem, cfgVars
<1>5. CASE Environment /\ ~Restart
  BY <1>5 DEF Environment, CreateIngress, UpdateIngress, DeleteIngress, WriteEndpoints, WriteConfigMap,
              UserWrites, cfgVars
<1>6. CASE ~Worker /\ ~Environment
  BY <1>6 DEF Next, HandleDeltas, HandleEndpoints, Enqueue, Elect, vars, cfgVars
<1> QED BY <1>1, <1>2, <1>3, <1>4, <1>5, <1>6 DEF Worker, Environment

\* The fields of the configuration.
LEMMA NextConfigShape ==
    ASSUME ConfInv, StatusInv, TypeInv, ConfigShape, [Next]_vars
    PROVE  ConfigShape'
<1>1. DOMAIN EmptyCfg = {"servers", "ups", "conf"}
  BY DEF EmptyCfg
<1>2. CASE SyncDelete
  BY <1>2, DeletionKeepsConf DEF SyncDelete, ConfigShape, ConfInv, Types
<1>3. CASE SyncEndpoints
  BY <1>3, EndpointsKeepConf DEF SyncEndpoints, ConfigShape, ConfInv, Types
<1>4. CASE SyncIngress
  <2>1. CASE cfg' = cfg
    BY <2>1 DEF ConfigShape
  <2>2. CASE cfg' # cfg
    <3>1. Installs(job.item.name)
      BY <1>4, <2>2, InstallationStep
    <3>2. \E parsed, last, out : /\ out \in updateServerAndUpstreamToCfg(cfg, parsed, last, job.item.name)
                                 /\ cfg' = out.cfg
      BY <3>1 DEF Installs
    <3> QED BY <3>2, InstallationKeepsConf DEF ConfigShape, ConfInv, Types
  <2> QED BY <2>1, <2>2
<1> QED BY <1>1, <1>2, <1>3, <1>4, OtherStepsKeepConfig DEF ConfigShape
------------------------------------------------------------------------------
\* Locations lead to the upstreams of the ingress that has the host.
HostsAreOwn == \A i, j \in Ings : i # j => HostsOf(i) \cap HostsOf(j) = {}

ConfigOwned ==
    /\ ConfigShape
    /\ AreLocations(cfg.servers)
    /\ DOMAIN cfg.servers \subseteq UNION {HostsOf(i) : i \in Ings}
    /\ \A i \in Ings : OwnAt(i, HostsOf(i), cfg.servers)
    /\ \A u \in DOMAIN cfg.ups : \E i \in Ings : OfIngress(i, u)

\* The three operations, for the ingress in work.
LEMMA OperationsWorkOn ==
    ASSUME ConfigOwned, NEW i \in Ings, Deletes(i) \/ Redirects(i) \/ Installs(i)
    PROVE  WorksOn(i, HostsOf(i), cfg, cfg')
<1> DEFINE H == HostsOf(i)
<1>1. {"servers", "ups"} \subseteq DOMAIN cfg /\ OwnAt(i, H, cfg.servers) /\ AreLocations(cfg.servers)
  BY DEF ConfigOwned, ConfigShape
<1>2. CASE Deletes(i)
  <2>1. PICK groups : GroupsAt(H, groups) /\ cfg' = delServerAndUpstreamFromCfg(cfg, groups).cfg
    BY <1>2 DEF Deletes
  <2> HIDE DEF H
  <2>2. WorksOn(i, H, cfg, cfg')
    BY <1>1, <2>1, DeletionWorksOn
  <2> QED BY <2>2 DEF H
<1>3. CASE Redirects(i)
  <2>1. PICK spec, svc, q, addresses :
                spec \in Specs[i] /\ cfg' = updateEndpointsToCfg(cfg, i, svc, q, spec, addresses).cfg
    BY <1>3 DEF Redirects
  <2>2. RulesAt(H, spec)
    BY <2>1, RulesOfSpec
  <2> HIDE DEF H
  <2>3. WorksOn(i, H, cfg, cfg')
    BY <1>1, <2>1, <2>2, EndpointsWorkOn
  <2> QED BY <2>3 DEF H
<1>4. CASE Installs(i)
  <2>1. PICK spec, addresses, last :
            /\ spec \in Specs[i]
            /\ DOMAIN last \subseteq H
            /\ \E out \in updateServerAndUpstreamToCfg(cfg, extendingressToServer(i, spec, addresses), last, i) :
                    cfg' = out.cfg
    BY <1>4 DEF Installs
  <2>2. RulesAt(H, spec)
    BY <2>1, RulesOfSpec
  <2> DEFINE parsed == extendingressToServer(i, spec, addresses)
  <2> HIDE DEF H
  <2>3. ParsedAt(i, H, parsed)
    BY <2>2, IngressParsed
  <2>4. PICK out \in updateServerAndUpstreamToCfg(cfg, parsed, last, i) : cfg' = out.cfg
    BY <2>1
  <2> HIDE DEF parsed
  <2>5. WorksOn(i, H, cfg, out.cfg)
    BY <1>1, <2>1, <2>3, InstallationWorksOn
  <2> QED BY <2>4, <2>5 DEF H
<1> QED BY <1>2, <1>3, <1>4

\* ... which leaves every host to its ingress.
LEMMA WorkKeepsConfigOwned ==
    ASSUME HostsAreOwn, ConfigOwned, ConfigShape', NEW i \in Ings, WorksOn(i, HostsOf(i), cfg, cfg')
    PROVE  ConfigOwned'
<1>1. ASSUME NEW j \in Ings PROVE OwnAt(j, HostsOf(j), cfg'.servers)
  <2>1. CASE j = i
    BY <2>1 DEF WorksOn
  <2>2. CASE j # i
    <3>1. HostsOf(j) \cap HostsOf(i) = {} /\ OwnAt(j, HostsOf(j), cfg.servers)
      BY <2>2 DEF HostsAreOwn, ConfigOwned
    <3>2. \A h \in HostsOf(j) \cap DOMAIN cfg'.servers :
                h \in DOMAIN cfg.servers /\ cfg'.servers[h] = cfg.servers[h]
      BY <3>1 DEF WorksOn
    <3> QED BY <3>1, <3>2 DEF OwnAt
  <2> QED BY <2>1, <2>2
<1>2. DOMAIN cfg'.servers \subseteq UNION {HostsOf(j) : j \in Ings}
  BY DEF WorksOn, ConfigOwned
<1>3. \A u \in DOMAIN cfg'.ups : \E j \in Ings : OfIngress(j, u)
  BY DEF WorksOn, ConfigOwned
<1>4. AreLocations(cfg'.servers)
  BY DEF WorksOn
<1> QED BY <1>1, <1>2, <1>3, <1>4 DEF ConfigOwned

LEMMA InitConfigOwned == Init => ConfigOwned
<1> SUFFICES ASSUME Init PROVE ConfigOwned
  OBVIOUS
<1>1. cfg.servers = NoServers /\ cfg.ups = NoServers /\ DOMAIN cfg = {"servers", "ups", "conf"}
  BY DEF Init, EmptyCfg
<1> QED BY <1>1, NoServersIsEmpty DEF ConfigOwned, ConfigShape, AreLocations, OwnAt

LEMMA NextConfigOwned ==
    ASSUME HostsAreOwn, ConfInv, StatusInv, TypeInv, ConfigOwned, [Next]_vars
    PROVE  ConfigOwned'
<1>1. ConfigShape /\ ConfigShape'
  BY NextConfigShape DEF ConfigOwned
<1>2. CASE cfg' = cfg
  BY <1>2 DEF ConfigOwned, ConfigShape
<1>3. CASE cfg' # cfg /\ (SyncDelete \/ SyncEndpoints \/ SyncIngress)
  <2>1. /\ job.item.name \in Ings
        /\ Deletes(job.item.name) \/ Redirects(job.item.name) \/ Installs(job.item.name)
    BY <1>3, DeletionStep, EndpointStep, InstallationStep
  <2> QED BY <1>1, <2>1, OperationsWorkOn, WorkKeepsConfigOwned
<1>4. CASE ~SyncDelete /\ ~SyncEndpoints /\ ~SyncIngress
  <2>1. CASE cfg' = EmptyCfg
    <3>1. cfg'.servers = NoServers /\ cfg'.ups = NoServers
      BY <2>1 DEF EmptyCfg
    <3> QED BY <1>1, <3>1, NoServersIsEmpty DEF ConfigOwned, AreLocations, OwnAt
  <2>2. CASE UNCHANGED <<cfg.servers, cfg.ups>>
    BY <1>1, <2>2 DEF ConfigOwned
  <2> QED BY <1>1, <1>4, <2>1, <2>2, OtherStepsKeepConfig
<1> QED BY <1>2, <1>3, <1>4

\* As long as no host has two ingresses, every host in memory has one, and
\* every location there leads to an upstream of that ingress or to 503, also
\* after operations that panicked half way.
THEOREM ConfigAlwaysOwned ==
    ASSUME HostsAreOwn
    PROVE  Spec => []ConfigOwned
<1>1. ConfInv /\ StatusInv /\ TypeInv /\ ConfigOwned /\ [Next]_vars => ConfigOwned'
  BY NextConfigOwned
<1> QED BY <1>1, StatusInvariance, TypeInvariance, InitConfigOwned, ConfInvariance, PTL DEF Spec

\* What a step may not touch: hosts of others and the upstreams they use.
OthersStay ==
    \A h \in DOMAIN cfg.servers \ HostsOf(job.item.name) :
        /\ h \in DOMAIN cfg'.servers /\ cfg'.servers[h] = cfg.servers[h]
        /\ \A q \in DOMAIN cfg.servers[h] : LET u == cfg.servers[h][q].proxy IN
                u \in DOMAIN cfg.ups => u \in DOMAIN cfg'.ups /\ cfg'.ups[u] = cfg.ups[u]

LEMMA StepLeavesOthers ==
    ASSUME HostsAreOwn, ConfInv, StatusInv, TypeInv, ConfigOwned, [Next]_vars,
           job.pc \in {"got", "found", "parsed"}, job'.pc # "idle", ~IsConfigmap
    PROVE  OthersStay
<1> DEFINE i == job.item.name
<1>1. CASE cfg' = cfg
  BY <1>1 DEF OthersStay
<1>2. CASE cfg' # cfg
  <2>1. SyncDelete \/ SyncEndpoints \/ SyncIngress
    <3>1. ~(job.pc = "slept")
      OBVIOUS
    <3> QED BY <1>2, <3>1, OtherStepsKeepConfig DEF ConfigOwned
  <2>2. i \in Ings /\ (Deletes(i) \/ Redirects(i) \/ Installs(i))
    BY <1>2, <2>1, DeletionStep, EndpointStep, InstallationStep
  <2>3. WorksOn(i, HostsOf(i), cfg, cfg')
    BY <2>2, OperationsWorkOn
  <2>4. ASSUME NEW h \in DOMAIN cfg.servers \ HostsOf(i), NEW q \in DOMAIN cfg.servers[h],
               cfg.servers[h][q].proxy \in DOMAIN cfg.ups
        PROVE  /\ cfg.servers[h][q].proxy \in DOMAIN cfg'.ups
               /\ cfg'.ups[cfg.servers[h][q].proxy] = cfg.ups[cfg.servers[h][q].proxy]
    <3> DEFINE u == cfg.servers[h][q].proxy
    <3>1. PICK j \in Ings : h \in HostsOf(j)
      BY DEF ConfigOwned
    <3>2. u = Unavailable \/ OfIngress(j, u)
      BY <3>1 DEF ConfigOwned, OwnAt
    <3>3. u # Unavailable
      BY <2>4 DEF ConfigOwned, OfIngress
    <3>4. j # i
      BY <3>1
    <3>5. ~OfIngress(i, u)
      BY <3>2, <3>3, <3>4 DEF OfIngress
    <3> HIDE DEF u
    <3>6. u \in DOMAIN cfg'.ups /\ cfg'.ups[u] = cfg.ups[u]
      BY <2>3, <2>4, <3>3, <3>5 DEF WorksOn, u
    <3> QED BY <3>6 DEF u
  <2>5. \A h \in DOMAIN cfg.servers \ HostsOf(i) :
            h \in DOMAIN cfg'.servers /\ cfg'.servers[h] = cfg.servers[h]
    BY <2>3 DEF WorksOn
  <2> QED BY <2>4, <2>5 DEF OthersStay
<1> QED BY <1>1, <1>2

\* As long as no host has two ingresses, work on one ingress leaves the
\* locations of all others alone and the upstreams they use, also when the
\* work panics half way.
THEOREM OthersAlwaysUntouched ==
    ASSUME HostsAreOwn
    PROVE  Spec => OthersUntouched
<1>1. ConfInv /\ StatusInv /\ TypeInv /\ ConfigOwned /\ [Next]_vars =>
        [job.pc \in {"got", "found", "parsed"} /\ job'.pc # "idle" /\ ~IsConfigmap => OthersStay]_vars
  BY StepLeavesOthers
<1>2. Spec => []ConfigOwned
  BY ConfigAlwaysOwned
<1> QED BY <1>1, <1>2, StatusInvariance, TypeInvariance, ConfInvariance, PTL DEF Spec, OthersUntouched, OthersStay
------------------------------------------------------------------------------
\* extendingress.go:88, "check the servers and upstreams parse by ingress is
\* valid": of a specification with one rule for a host nothing is installed
\* that the test has not seen.
TestsAll == "breakTest" \notin Events /\ \A i \in Ings : \A spec \in Specs[i] : OneRulePerHost(spec)

SoundCfg == ConfigShape /\ Sound(cfg.servers)

LEMMA InitSoundCfg == Init => SoundCfg
<1> SUFFICES ASSUME Init PROVE SoundCfg
  OBVIOUS
<1>1. cfg.servers = NoServers /\ DOMAIN cfg = {"servers", "ups", "conf"}
  BY DEF Init, EmptyCfg
<1> QED BY <1>1, NoServersIsEmpty DEF SoundCfg, ConfigShape, Sound

LEMMA NextSoundCfg ==
    ASSUME TestsAll, ConfInv, StatusInv, TypeInv, SoundCfg, [Next]_vars
    PROVE  SoundCfg'
<1> DEFINE i == job.item.name
<1>1. ConfigShape' /\ {"servers", "ups"} \subseteq DOMAIN cfg
  BY NextConfigShape DEF SoundCfg, ConfigShape
<1>2. CASE cfg' = cfg
  BY <1>2 DEF SoundCfg, ConfigShape
<1>3. CASE cfg' # cfg /\ SyncDelete
  <2>1. PICK groups : GroupsAt(HostsOf(i), groups) /\ cfg' = delServerAndUpstreamFromCfg(cfg, groups).cfg
    BY <1>3, DeletionStep DEF Deletes
  <2>2. Sound(cfg'.servers)
    BY <1>1, <2>1, DeletionKeepsSound DEF SoundCfg
  <2> QED BY <1>1, <2>2 DEF SoundCfg
<1>4. CASE cfg' # cfg /\ SyncEndpoints
  <2>1. PICK spec, svc, q, addresses :
            i \in Ings /\ spec \in Specs[i] /\ cfg' = updateEndpointsToCfg(cfg, i, svc, q, spec, addresses).cfg
    BY <1>4, EndpointStep DEF Redirects
  <2>2. RulesAt(HostsOf(i), spec)
    BY <2>1, RulesOfSpec
  <2>3. Sound(cfg'.servers)
    BY <1>1, <2>1, <2>2, EndpointsKeepSound DEF SoundCfg
  <2> QED BY <1>1, <2>3 DEF SoundCfg
<1>5. CASE cfg' # cfg /\ SyncIngress
  <2>1. i \in Ings /\ Installs(i)
    BY <1>5, InstallationStep
  <2>2. PICK spec, addresses, last :
            /\ spec \in Specs[i]
            /\ "breakTest" \in Events \/ checkIngressValid(extendingressToServer(i, spec, addresses))
            /\ \E out \in updateServerAndUpstreamToCfg(cfg, extendingressToServer(i, spec, addresses), last, i) :
                    cfg' = out.cfg
    BY <2>1 DEF Installs
  <2> DEFINE parsed == extendingressToServer(i, spec, addresses)
  <2>3. PICK out \in updateServerAndUpstreamToCfg(cfg, parsed, last, i) : cfg' = out.cfg
    BY <2>2
  <2>4. RulesAt(HostsOf(i), spec) /\ OneRulePerHost(spec)
    BY <2>1, <2>2, RulesOfSpec DEF TestsAll
  <2>5. ParsedAt(i, HostsOf(i), parsed)
    BY <2>4, IngressParsed
  <2>6. OneServerPerHost(parsed.servers)
    <3>1. AreRules(spec)
      BY <2>4 DEF RulesAt, AreRules
    <3>2. OneServerPerHost(ParsedServers(i, spec, addresses))
      BY <2>4, <3>1, ServersOfRules DEF ServersAdded
    <3> QED BY <3>2 DEF extendingressToServer
  <2>7. checkIngressValid(parsed)
    BY <2>2 DEF TestsAll
  <2> HIDE DEF parsed, i
  <2>8. Sound(out.cfg.servers)
    BY <1>1, <2>3, <2>5, <2>6, <2>7, InstallationKeepsSound DEF SoundCfg
  <2> QED BY <1>1, <2>3, <2>8 DEF SoundCfg
<1>6. CASE ~SyncDelete /\ ~SyncEndpoints /\ ~SyncIngress
  <2>1. CASE cfg' = EmptyCfg
    <3>1. cfg'.servers = NoServers
      BY <2>1 DEF EmptyCfg
    <3> QED BY <1>1, <3>1, NoServersIsEmpty DEF SoundCfg, Sound
  <2>2. CASE UNCHANGED <<cfg.servers, cfg.ups>>
    BY <1>1, <2>2 DEF SoundCfg
  <2> QED BY <1>6, <2>1, <2>2, OtherStepsKeepConfig DEF SoundCfg
<1> QED BY <1>2, <1>3, <1>4, <1>5, <1>6

\* No parameter that nginx refuses gets into a location of the configuration,
\* whatever changes between the test and the installation, if the test runs
\* and sees all rules.
THEOREM LocationsAlwaysTested ==
    ASSUME TestsAll
    PROVE  Spec => []LocationsTested
<1>1. ConfInv /\ StatusInv /\ TypeInv /\ SoundCfg /\ [Next]_vars => SoundCfg'
  BY NextSoundCfg
<1>2. SoundCfg => LocationsTested
  BY DEF SoundCfg, Sound, LocationsTested
<1> QED BY <1>1, <1>2, StatusInvariance, TypeInvariance, InitSoundCfg, ConfInvariance, PTL DEF Spec
------------------------------------------------------------------------------
\* The copy of an ingress was not refused, and its status has each path once.
Fine(x) == x.state # "unReady" /\ \A h \in DOMAIN x.last : OnceEach(x.last[h])

SteadySpec(i, spec) ==
    /\ PathsOnce(spec) /\ GoodParams(spec)
    /\ \A h \in HostsOf(i) : \E r \in ToSet(spec) : r.host = h /\ r.paths # <<>>
    /\ \A r, x \in ToSet(spec) : \A p \in ToSet(r.paths) :
            Names(x, p.svc) => \E y \in ToSet(x.paths) : y.path = p.path

Steady ==
    /\ Events \cap {"delete", "breakTest"} = {}
    /\ HostsAreOwn
    /\ \A i \in Ings : \A spec \in Specs[i] : SteadySpec(i, spec)
    /\ \A i \in Ings : \A p, x \in PathsGiven(i) : p.path = x.path => p.svc = x.svc
    /\ \A objects \in Apis : \A i \in Ings : objects[i] # NoObject => Fine(objects[i])
    /\ \A i \in Ings : ~IsIngressObject(i, NoObject)

\* What was proved of every state.
Known == ConfInv /\ StatusInv /\ TypeInv /\ ConfigOwned /\ QueueWorks

\* The paths of the specifications of an ingress.
LEMMA PathsAreGiven ==
    ASSUME NEW i \in Ings, NEW spec \in Specs[i], NEW r \in ToSet(spec), NEW p \in ToSet(r.paths)
    PROVE  r.host \in HostsOf(i) /\ p \in PathsGiven(i) /\ p.svc \in Services
<1>1. AreRules(spec)
  BY SpecsAssumption DEF AreRules
<1>2. p \in ToSet(PathsOf(spec))
  BY <1>1, PathsOfRules
<1>3. r.host \in HostsOf(i)
  BY DEF HostsOf
<1>4. p.svc \in Services
  BY SpecsAssumption
<1> QED BY <1>2, <1>3, <1>4 DEF PathsGiven
------------------------------------------------------------------------------
(***************************************************************************)
(* The keys that are pending, step by step.                                *)
(***************************************************************************)
LEMMA SameKeysPending ==
    ASSUME UNCHANGED <<delayed, dirty>>, job'.item = job.item, job'.pc = "got" <=> job.pc = "got"
    PROVE  Pending' = Pending
BY DEF Pending

LEMMA EnqueueKeepsPending ==
    ASSUME ConfInv, NEW k \in Keys, Enqueue(k)
    PROVE  Pending' = Pending
<1>1. /\ delayed \in [Keys -> Nat] /\ delayed[k] > 0 /\ delayed' = [delayed EXCEPT ![k] = @ - 1]
      /\ job' = job
      /\ (dirty' = dirty /\ delayed[k] > 1) \/ dirty' = dirty \cup {k}
  BY DEF Enqueue, Ripen, Merge, Add, queueVars, ConfInv, Types, QueueTypes
<1>2. \A x \in Keys : x # k => delayed'[x] = delayed[x]
  BY <1>1
<1>3. dirty' = dirty => delayed'[k] > 0 \/ k \in dirty'
  BY <1>1
<1> QED BY <1>1, <1>2, <1>3 DEF Pending

LEMMA GetKeepsPending ==
    ASSUME ConfInv, QueueWorks, GetItem
    PROVE  Pending' = Pending
<1>1. PICK k \in ToSet(queue) : Get(k) /\ job' = [IdleJob EXCEPT !.pc = "got", !.item = k]
  BY DEF GetItem
<1>2. job.pc = "idle" /\ delayed' = delayed /\ dirty' = dirty \ {k} /\ job'.pc = "got" /\ job'.item = k
  BY <1>1 DEF GetItem, Get, IdleJob
<1>3. k \in dirty
  BY <1>1 DEF QueueWorks, QueueFacts!QueueInv, QueueFacts!QueueWellFormed, ToSet, QueueFacts!ToSet
<1> QED BY <1>2, <1>3 DEF Pending

LEMMA FinishKeepsPending ==
    ASSUME FinishItem
    PROVE  Pending' = Pending
<1>1. job'.pc = "idle" /\ job.pc = "done" /\ UNCHANGED <<delayed, dirty>>
  BY DEF FinishItem, Done, IdleJob
<1> QED BY <1>1 DEF Pending

LEMMA AddedKeysPending ==
    ASSUME ConfInv, NEW S, AddAll(S), UNCHANGED queueVars, job' = job
    PROVE  Pending' = Pending \cup (S \cap Keys)
<1>1. \A k \in Keys : delayed'[k] > 0 <=> delayed[k] > 0 \/ k \in S
  BY DEF AddAll, ConfInv, Types, QueueTypes
<1> QED BY <1>1 DEF Pending, queueVars

LEMMA GoingOnTakesItem ==
    ASSUME UNCHANGED <<delayed, dirty>>, job.pc = "got", job'.pc # "got"
    PROVE  Pending' \subseteq Pending /\ Pending \subseteq Pending' \cup {job.item}
BY DEF Pending

\* The steps that leave the pending keys alone.
Settled ==
    /\ ~Restart /\ ~LookUp /\ ~SyncDelete /\ ~SyncConfigmap
    /\ \A o \in Objects : ~HandleDeltas(o)
    /\ \A s \in Services : ~HandleEndpoints(s)

LEMMA OtherStepsKeepPending ==
    ASSUME Known, [Next]_vars, Settled
    PROVE  /\ Pending' = Pending
           /\ \/ job'.pc = "idle" \/ job'.item \in Pending'
              \/ job'.item = job.item /\ job.pc # "idle"
<1>1. CASE Environment \/ Elect \/ UNCHANGED vars
  <2>1. UNCHANGED <<delayed, dirty, job>>
    BY <1>1 DEF Settled, Environment, CreateIngress, UpdateIngress, DeleteIngress, WriteEndpoints,
                WriteConfigMap, UserWrites, Elect, vars, workVars
  <2> QED BY <2>1 DEF Pending
<1>2. ASSUME NEW k \in Keys, Enqueue(k) PROVE Pending' = Pending /\ job' = job
  BY <1>2, EnqueueKeepsPending DEF Known, Enqueue
<1>3. CASE GetItem
  <2>1. job'.pc = "got"
    BY <1>3 DEF GetItem, IdleJob
  <2>2. job'.item \in Pending'
    BY <2>1 DEF Pending
  <2> QED BY <1>3, <2>2, GetKeepsPending DEF Known
<1>4. CASE FinishItem
  <2>1. job'.pc = "idle"
    BY <1>4 DEF FinishItem, IdleJob
  <2> QED BY <1>4, <2>1, FinishKeepsPending
<1>5. CASE SyncEndpoints \/ Parse \/ SyncIngress \/ CheckLen \/ Render \/ LeaveRender
  <2>1. job'.item = job.item /\ UNCHANGED <<delayed, dirty>>
    BY <1>5, WorkerKeepsItem DEF Known, workVars
  <2>2. job.pc \notin {"idle", "got"} /\ job'.pc # "got"
    <3>1. CASE SyncIngress
      BY <3>1, SyncWritesStatus DEF Known, SyncIngress
    <3>2. CASE ~SyncIngress
      BY <1>5, <3>2 DEF SyncEndpoints, Parse, CheckLen, Render, LeaveRender, Goto, Known, ConfInv, Types, JobTypes
    <3> QED BY <3>1, <3>2
  <2> QED BY <2>1, <2>2, SameKeysPending
<1> QED BY <1>1, <1>2, <1>3, <1>4, <1>5 DEF Next, Worker, Settled

\* Nobody deletes an ingress: no key of a deletion comes.
IsDel(k) == k.kind = "ExtendIngress" /\ k.event = "Del"

NoDel == (\A k \in Pending : ~IsDel(k)) /\ (job.pc # "idle" => ~IsDel(job.item))

NothingDeleted == \A i \in Ings : \A x \in ToSet(watch[i]) : x # NoObject

\* The first change on the way to the informer.
LEMMA HeadIsWatched ==
    ASSUME StatusInv, NEW i \in Ings, watch[i] # <<>>
    PROVE  Head(watch[i]) \in ToSet(watch[i]) /\ ToSet(Tail(watch[i])) \subseteq ToSet(watch[i])
<1>1. PICK S : watch[i] \in Seq(S)
  BY DEF StatusInv, MapTypes
<1> QED BY <1>1, ToSetOfTail

LEMMA DeltasPending ==
    ASSUME Known, NEW o \in Objects, HandleDeltas(o)
    PROVE  Pending' = Pending \cup (Notified(o, store[o], Head(watch[o])) \cap Keys) /\ job' = job
<1>1. AddAll(Notified(o, store[o], Head(watch[o]))) /\ UNCHANGED queueVars /\ job' = job
  BY DEF HandleDeltas
<1> QED BY <1>1, AddedKeysPending DEF Known

\* The keys the handler of endpoints adds.
AddedFor(s) ==
    UNION {{EndpointKey(Head(notes[s]), i, s, p.path) : p \in {p \in ToSet(PathsOf(store[i].spec)) : p.svc = s}} :
           i \in {i \in Ings : store[i] # NoObject}}

LEMMA EndpointHandlerPending ==
    ASSUME Known, NEW s \in Services, HandleEndpoints(s)
    PROVE  Pending' = Pending \cup (AddedFor(s) \cap Keys) /\ job' = job
<1>1. AddAll(AddedFor(s)) /\ UNCHANGED queueVars /\ job' = job
  BY DEF HandleEndpoints, AddedFor
<1> QED BY <1>1, AddedKeysPending DEF Known

LEMMA GoingOnPending ==
    ASSUME Known, LookUp \/ SyncDelete \/ SyncConfigmap
    PROVE  /\ Pending' \subseteq Pending /\ Pending \subseteq Pending' \cup {job.item}
           /\ job'.item = job.item /\ job.pc = "got"
<1>1. job'.item = job.item /\ UNCHANGED <<delayed, dirty>>
  BY WorkerKeepsItem DEF Known, workVars
<1>2. job.pc = "got" /\ job'.pc # "got"
  BY DEF LookUp, SyncDelete, SyncConfigmap, Goto, Known, ConfInv, Types, JobTypes
<1> QED BY <1>1, <1>2, GoingOnTakesItem

LEMMA NextNoDel ==
    ASSUME Known, NothingDeleted, NoDel, [Next]_vars
    PROVE  NoDel'
<1>1. CASE Settled
  BY <1>1, OtherStepsKeepPending DEF NoDel
<1>2. CASE Restart
  <2>1. Pending' = {} /\ job'.pc = "idle"
    BY <1>2 DEF Restart, Pending, IdleJob
  <2> QED BY <2>1 DEF NoDel
<1>3. CASE LookUp \/ SyncDelete \/ SyncConfigmap
  BY <1>3, GoingOnPending DEF NoDel, Pending
<1>4. ASSUME NEW o \in Objects, HandleDeltas(o) PROVE NoDel'
  <2>1. \A k \in Notified(o, store[o], Head(watch[o])) : ~IsDel(k)
    <3>1. CASE o \in Ings
      <4>1. Head(watch[o]) # NoObject
        BY <1>4, <3>1, HeadIsWatched DEF HandleDeltas, NothingDeleted, Known
      <4>2. Notified(o, store[o], Head(watch[o])) \subseteq {IngressKey("ADD", o), IngressKey("Update", o)}
        BY <3>1, <4>1 DEF Notified, IngressNotified
      <4> QED BY <4>2 DEF IngressKey, IsDel
    <3>2. CASE o \notin Ings
      BY <3>2 DEF Notified, ConfigMapNotified, ConfigmapKey, IsDel
    <3> QED BY <3>1, <3>2
  <2> QED BY <1>4, <2>1, DeltasPending DEF NoDel
<1>5. ASSUME NEW s \in Services, HandleEndpoints(s) PROVE NoDel'
  <2>1. \A k \in AddedFor(s) : ~IsDel(k)
    BY DEF AddedFor, EndpointKey, IsDel
  <2> QED BY <1>5, <2>1, EndpointHandlerPending DEF NoDel
<1> QED BY <1>1, <1>2, <1>3, <1>4, <1>5 DEF Settled
------------------------------------------------------------------------------
(***************************************************************************)
(* The copies of an ingress: equal versions have equal specifications, and *)
(* the newest copy is what the API server has.                             *)
(***************************************************************************)
Copies(i) == ({api[i], store[i]} \cup ToSet(watch[i])) \ {NoObject}

CopiesAgree ==
    \A i \in Ings : \A x, y \in Copies(i) : Fine(x) /\ (x.rv = y.rv => x.spec = y.spec)

HoldsFine ==
    /\ "addresses" \in DOMAIN job
    /\ job.pc \in {"found", "parsed"} => Fine(job.obj)
    /\ job.pc = "parsed" => IsIngress

CopyInv == NothingDeleted /\ CopiesAgree /\ HoldsFine

LEMMA CopiesHaveVersions ==
    ASSUME StatusInv, NEW i \in Ings, NEW x \in Copies(i)
    PROVE  x.rv \in 0..rv /\ rv \in Nat
BY DEF StatusInv, MapTypes, VersionsAgree, Version, Copies

\* At most one copy is new.
LEMMA CopiesStay ==
    ASSUME CopiesAgree, NEW i, NEW value,
           \A j \in Ings : \A x \in Copies(j)' :
                /\ Fine(x)
                /\ \/ \E y \in Copies(j) : x.rv = y.rv /\ x.spec = y.spec
                   \/ j = i /\ x = value /\ \A y \in Copies(i) : y.rv # value.rv
    PROVE  CopiesAgree'
<1> SUFFICES ASSUME NEW j \in Ings, NEW x \in Copies(j)', NEW y \in Copies(j)'
             PROVE  Fine(x) /\ (x.rv = y.rv => x.spec = y.spec)
  BY DEF CopiesAgree
<1>1. CASE (\E a \in Copies(j) : x.rv = a.rv /\ x.spec = a.spec) /\ (\E b \in Copies(j) : y.rv = b.rv /\ y.spec = b.spec)
  BY <1>1 DEF CopiesAgree
<1>2. CASE j = i /\ x = value /\ \A z \in Copies(i) : z.rv # value.rv
  BY <1>2
<1>3. CASE j = i /\ y = value /\ \A z \in Copies(i) : z.rv # value.rv
  BY <1>3
<1> QED BY <1>1, <1>2, <1>3

\* The last element of a sequence without its first.
LEMMA LastOfTail ==
    ASSUME NEW S, NEW s \in Seq(S), s # <<>>
    PROVE  IF Tail(s) = <<>> THEN s[Len(s)] = Head(s) ELSE Tail(s)[Len(Tail(s))] = s[Len(s)]
<1> DEFINE t == Tail(s)
<1>1. Len(s) \in Nat \ {0} /\ t \in Seq(S) /\ Len(t) = Len(s) - 1
  OBVIOUS
<1>2. Len(s) # 1 => t[Len(s) - 1] = s[Len(s)]
  BY <1>1
<1>3. Len(s) = 1 => s[Len(s)] = Head(s)
  OBVIOUS
<1> HIDE DEF t
<1>4. t = <<>> <=> Len(t) = 0
  BY <1>1
<1>5. t = <<>> <=> Len(s) = 1
  BY <1>1, <1>4
<1> QED BY <1>1, <1>2, <1>3, <1>5 DEF t

Newest(o) == IF watch[o] = <<>> THEN store[o] ELSE watch[o][Len(watch[o])]

NewestInv ==
    /\ \A i \in Ings : /\ Newest(i) = NoObject <=> api[i] = NoObject
                       /\ api[i] # NoObject => Newest(i).spec = api[i].spec
    /\ \A s \in Services : Newest(s) = api[s]

LEMMA WatchedInOrder ==
    ASSUME Known, NEW o \in Ings \cup Services
    PROVE  \E S : watch[o] \in Seq(S)
BY DEF Known, StatusInv, MapTypes, TypeInv, EndpointTypes

LEMMA NewestAfterPut ==
    ASSUME Known, NEW o \in Objects, NEW value, Put(o, value),
           \A p \in Objects : p # o => store'[p] = store[p] \/ watch[p] # <<>>
    PROVE  /\ api'[o] = value /\ (o \in Ings \cup Services => Newest(o)' = value)
           /\ \A p \in Objects : p # o => api'[p] = api[p] /\ watch'[p] = watch[p] /\ Newest(p)' = Newest(p)
<1>1. /\ api'[o] = value /\ watch'[o] = Append(watch[o], value)
      /\ \A p \in Objects : p # o => api'[p] = api[p] /\ watch'[p] = watch[p]
  BY DEF Put, Known, StatusInv, MapTypes
<1>2. ASSUME o \in Ings \cup Services PROVE Newest(o)' = value
  <2>1. PICK S : watch[o] \in Seq(S)
    BY <1>2, WatchedInOrder
  <2>2. watch'[o] # <<>> /\ watch'[o][Len(watch'[o])] = value
    BY <1>1, <2>1
  <2> QED BY <2>2 DEF Newest
<1>3. \A p \in Objects : p # o => Newest(p)' = Newest(p)
  BY <1>1 DEF Newest
<1> QED BY <1>1, <1>2, <1>3

LEMMA DeltasPassNewest ==
    ASSUME Known, NEW o \in Objects, HandleDeltas(o), NEW p \in Ings \cup Services
    PROVE  Newest(p)' = Newest(p)
<1>1. CASE p # o
  BY <1>1 DEF HandleDeltas, Newest
<1>2. CASE p = o
  <2>1. PICK S : watch[o] \in Seq(S)
    BY <1>2, WatchedInOrder
  <2>2. watch[o] # <<>> /\ watch'[o] = Tail(watch[o]) /\ store'[o] = Head(watch[o])
    BY DEF HandleDeltas, Known, StatusInv, MapTypes
  <2> QED BY <1>2, <2>1, <2>2, LastOfTail DEF Newest
<1> QED BY <1>1, <1>2

LEMMA DeltasKeepNewest ==
    ASSUME Known, NEW o \in Objects, HandleDeltas(o), NewestInv
    PROVE  NewestInv'
<1>1. api' = api
  BY DEF HandleDeltas, apiVars
<1> QED BY <1>1, DeltasPassNewest DEF NewestInv

LEMMA FirstListIsNewest ==
    ASSUME NEW objects, NEW changes, changes = FirstList(objects),
           NEW cache, cache = [o \in Objects |-> NoObject], NEW o \in Objects
    PROVE  (IF changes[o] = <<>> THEN cache[o] ELSE changes[o][Len(changes[o])]) = objects[o]
<1>1. CASE objects[o] = NoObject
  BY <1>1 DEF FirstList
<1>2. CASE objects[o] # NoObject
  <2>1. changes[o] = <<objects[o]>>
    BY <1>2 DEF FirstList
  <2> QED BY <2>1
<1> QED BY <1>1, <1>2

LEMMA RestartKeepsNewest == ASSUME Restart PROVE NewestInv'
<1>1. api' = api /\ watch' = FirstList(api) /\ store' = [o \in Objects |-> NoObject]
  BY DEF Restart
<1>2. ASSUME NEW o \in Ings \cup Services PROVE Newest(o)' = api'[o]
  <2>1. o \in Objects
    BY DEF Objects
  <2>2. (IF watch'[o] = <<>> THEN store'[o] ELSE watch'[o][Len(watch'[o])]) = api[o]
    BY <1>1, <2>1, FirstListIsNewest
  <2> QED BY <1>1, <2>2 DEF Newest
<1> QED BY <1>2 DEF NewestInv

\* What users write: an ingress has a new version, and is as fine as before.
NewCopy(i, value) == value # NoObject /\ Fine(value) /\ value.rv = rv + 1

LEMMA EnvironmentWrites ==
    ASSUME Steady, Known, CopyInv, Environment, ~Restart
    PROVE  /\ UNCHANGED <<store, notes, job, cfg>> /\ UNCHANGED workVars
           /\ \E o \in Objects : \E value : Put(o, value) /\ (o \in Ings => NewCopy(o, value))
<1>1. ASSUME NEW o \in Objects, NEW value, UserWrites(o, value)
      PROVE  UNCHANGED <<store, notes, job, cfg>> /\ UNCHANGED workVars /\ Put(o, value)
  BY <1>1 DEF UserWrites, cfgVars
<1>2. ASSUME NEW i \in Ings, NEW spec \in Specs[i], CreateIngress(i, spec)
      PROVE  UserWrites(i, NewIngress(spec, rv + 1)) /\ NewCopy(i, NewIngress(spec, rv + 1))
  <2>1. NewIngress(spec, rv + 1) # NoObject
    BY StoredIngresses DEF Steady
  <2>2. Fine(NewIngress(spec, rv + 1))
    BY NoServersIsEmpty DEF Fine, NewIngress
  <2> QED BY <1>2, <2>1, <2>2 DEF CreateIngress, NewCopy, NewIngress
<1>3. ASSUME NEW i \in Ings, NEW spec \in Specs[i], UpdateIngress(i, spec)
      PROVE  \E value : UserWrites(i, value) /\ NewCopy(i, value)
  <2> DEFINE value == [api[i] EXCEPT !.spec = spec, !.rv = rv + 1]
  <2>1. UserWrites(i, value) /\ api[i] # NoObject
    BY <1>3 DEF UpdateIngress
  <2>2. IsIngressObject(i, api[i]) /\ Fine(api[i])
    BY <2>1 DEF Known, TypeInv, IngressTypes, IngressCopy, CopyInv, CopiesAgree, Copies
  <2>3. IsIngressObject(i, value)
    BY <2>2, StoredIngresses
  <2>4. value.rv = rv + 1 /\ value.state = api[i].state /\ value.last = api[i].last
    BY <2>2 DEF IsIngressObject
  <2> HIDE DEF value
  <2>5. NewCopy(i, value)
    BY <2>2, <2>3, <2>4 DEF NewCopy, Fine, Steady
  <2> QED BY <2>1, <2>5
<1>4. CASE \E i \in Ings : \E spec \in Specs[i] : CreateIngress(i, spec) \/ UpdateIngress(i, spec)
  <2>1. PICK i \in Ings : \E value : UserWrites(i, value) /\ NewCopy(i, value)
    BY <1>2, <1>3, <1>4
  <2>2. i \in Objects
    BY DEF Objects
  <2> QED BY <1>1, <2>1, <2>2
<1>5. CASE \E s \in Services, value \in EpStates : WriteEndpoints(s, value)
  <2>1. PICK s \in Services, value \in EpStates : UserWrites(s, value)
    BY <1>5 DEF WriteEndpoints
  <2>2. s \in Objects /\ s \notin Ings
    BY NamesAssumption DEF Objects
  <2> QED BY <1>1, <2>1, <2>2
<1>6. CASE \E c \in ConfigMaps, value \in Contents : WriteConfigMap(c, value)
  <2>1. PICK c \in ConfigMaps, value \in Contents : UserWrites(c, value)
    BY <1>6 DEF WriteConfigMap
  <2>2. c \in Objects /\ c \notin Ings
    BY NamesAssumption DEF Objects
  <2> QED BY <1>1, <2>1, <2>2
<1> QED BY <1>4, <1>5, <1>6 DEF Environment, DeleteIngress, Steady

\* The sync of an ingress installs what it parsed: the ingress is valid, and
\* nothing panics.
SyncInstalled(i) ==
    /\ Installed(i, job.obj.spec, job.addresses, cfg')
    /\ \E last : store' = CacheAfter(i, job.obj, last) /\ DOMAIN last = {}
    /\ UNCHANGED <<api, watch, rv>> \/ \E value : Put(i, value) /\ NewCopy(i, value) /\ value.spec = job.obj.spec
                                                /\ api[i] # NoObject /\ api[i].rv = job.obj.rv
    /\ job' = [job EXCEPT !.pc = "check"]

LEMMA SyncInstalls ==
    ASSUME Steady, Known, CopyInv, SyncIngress
    PROVE  job.item.name \in Ings /\ SyncInstalled(job.item.name)
<1> DEFINE i      == job.item.name
           spec   == job.obj.spec
           parsed == extendingressToServer(i, spec, job.addresses)
<1>1. /\ i \in Ings /\ spec \in Specs[i] /\ DOMAIN job.obj.last \subseteq HostsOf(i)
      /\ IsIngressObject(i, job.obj)
  BY ObjectOfItem DEF SyncIngress, Known, StatusInv, MapTypes, TypeInv, IngressTypes, HoldsCopy, IngressCopy
<1>2. AreRules(spec) /\ SteadySpec(i, spec)
  BY <1>1, SpecsAssumption DEF AreRules, Steady
<1>3. Fine(job.obj)
  BY DEF CopyInv, HoldsFine, SyncIngress
<1>4. checkIngressValid(parsed)
  <2> HIDE DEF spec, i
  <2> QED BY <1>2, GoodIngressIsValid DEF SteadySpec
<1>5. PICK state \in Verdicts(parsed) :
           IF state = "Ready"
           THEN \E out \in updateServerAndUpstreamToCfg(cfg, parsed, job.obj.last, i) :
                    /\ cfg' = out.cfg
                    /\ store' = CacheAfter(i, job.obj, out.last)
                    /\ IF out.panicked
                       THEN Goto("done") /\ UNCHANGED <<api, watch, rv>>
                       ELSE Goto("check") /\ UpdateStatus(i, job.obj, state)
           ELSE /\ \/ UpdateStatus(i, job.obj, state) /\ Goto("check")
                   \/ SilentTest(state) /\ Goto("done") /\ UNCHANGED <<api, watch, rv>>
                /\ UNCHANGED <<cfg, store>>
  BY DEF SyncIngress
<1>6. state = "Ready"
  BY <1>4, <1>5 DEF Verdicts, Steady
<1>7. PICK out \in updateServerAndUpstreamToCfg(cfg, parsed, job.obj.last, i) :
                    /\ cfg' = out.cfg
                    /\ store' = CacheAfter(i, job.obj, out.last)
                    /\ IF out.panicked
                       THEN Goto("done") /\ UNCHANGED <<api, watch, rv>>
                       ELSE Goto("check") /\ UpdateStatus(i, job.obj, "Ready")
  BY <1>5, <1>6
<1>8. ~out.panicked /\ Installed(i, spec, job.addresses, out.cfg) /\ DOMAIN out.last = {}
  <2>1. KeepsHosts(job.obj.last, spec)
    BY <1>1, <1>2 DEF KeepsHosts, SteadySpec
  <2>2. \A h \in DOMAIN job.obj.last : OnceEach(job.obj.last[h])
    BY <1>3 DEF Fine
  <2>3. {"servers", "ups"} \subseteq DOMAIN cfg
    BY DEF Known, ConfigOwned, ConfigShape
  <2>4. PathsOnce(spec)
    BY <1>2 DEF SteadySpec
  <2>5. out \in updateServerAndUpstreamToCfg(cfg, extendingressToServer(i, spec, job.addresses), job.obj.last, i)
    OBVIOUS
  <2> HIDE DEF spec, i, parsed
  <2> QED BY <1>2, <2>1, <2>2, <2>3, <2>4, <2>5, InstallationComplete
<1>9. Goto("check") /\ UpdateStatus(i, job.obj, "Ready")
  BY <1>7, <1>8
<1> DEFINE update == [job.obj EXCEPT !.state = "Ready", !.last = LastPaths(spec), !.rv = rv + 1]
<1>10. \/ UNCHANGED <<api, watch, rv>>
       \/ Put(i, update) /\ api[i] # NoObject /\ api[i].rv = job.obj.rv
  BY <1>9 DEF UpdateStatus
<1>11. NewCopy(i, update) /\ update.spec = spec
  <2>1. IsIngressObject(i, update)
    BY <1>1, StoredIngresses
  <2>2. update.state = "Ready" /\ update.last = LastPaths(spec) /\ update.rv = rv + 1 /\ update.spec = spec
    BY <1>1 DEF IsIngressObject
  <2>3. \A h \in DOMAIN LastPaths(spec) : OnceEach(LastPaths(spec)[h])
    <3>1. PathsOnce(spec)
      BY <1>2 DEF SteadySpec
    <3> HIDE DEF spec
    <3> QED BY <1>2, <3>1, StatusHasPathsOnce
  <2>4. update # NoObject
    BY <1>1, <2>1 DEF Steady
  <2> HIDE DEF update
  <2>5. Fine(update)
    BY <2>2, <2>3 DEF Fine
  <2> QED BY <2>2, <2>4, <2>5 DEF NewCopy
<1> HIDE DEF update
<1>12. SyncInstalled(i)
  BY <1>7, <1>8, <1>9, <1>10, <1>11 DEF SyncInstalled, Goto
<1> QED BY <1>1, <1>12 DEF i

\* A cached copy may get another status, never another specification.
StoreKeepsSpecs ==
    \A i \in Ings :
        /\ store'[i] = NoObject <=> store[i] = NoObject
        /\ store'[i] # NoObject =>
            Fine(store'[i]) /\ store'[i].rv = store[i].rv /\ store'[i].spec = store[i].spec

LEMMA SameStoreKeepsSpecs ==
    ASSUME CopiesAgree, UNCHANGED store
    PROVE  StoreKeepsSpecs
BY DEF StoreKeepsSpecs, CopiesAgree, Copies

LEMMA PutKeepsCopies ==
    ASSUME Known, NothingDeleted, CopiesAgree, StoreKeepsSpecs,
           NEW o \in Objects, NEW value, Put(o, value), o \in Ings => NewCopy(o, value)
    PROVE  NothingDeleted' /\ CopiesAgree'
<1>1. /\ api'[o] = value /\ watch'[o] = Append(watch[o], value)
      /\ \A p \in Objects : p # o => api'[p] = api[p] /\ watch'[p] = watch[p]
  BY DEF Put, Known, StatusInv, MapTypes
<1>2. \A i \in Ings : i \in Objects
  BY DEF Objects
<1>3. ASSUME o \in Ings PROVE ToSet(watch'[o]) = ToSet(watch[o]) \cup {value}
  <2>1. PICK S : watch[o] \in Seq(S)
    BY <1>3, WatchedInOrder
  <2>2. watch[o] \in Seq(S \cup {value})
    BY <2>1
  <2> QED BY <1>1, <2>2, ToSetAppend
<1>4. NothingDeleted'
  BY <1>1, <1>2, <1>3 DEF NothingDeleted, NewCopy
<1>5. ASSUME NEW j \in Ings, NEW x \in Copies(j)'
      PROVE  /\ Fine(x)
             /\ \/ \E y \in Copies(j) : x.rv = y.rv /\ x.spec = y.spec
                \/ j = o /\ x = value /\ \A y \in Copies(o) : y.rv # value.rv
  <2>1. CASE x = store'[j]
    <3>1. x # NoObject
      BY DEF Copies
    <3>2. store[j] \in Copies(j) /\ Fine(x) /\ x.rv = store[j].rv /\ x.spec = store[j].spec
      BY <2>1, <3>1 DEF StoreKeepsSpecs, Copies
    <3> QED BY <3>2
  <2>2. CASE x \in Copies(j)
    BY <2>2 DEF CopiesAgree
  <2>3. CASE j = o /\ x = value
    <3>1. Fine(x) /\ value.rv = rv + 1
      BY <2>3 DEF NewCopy
    <3>2. \A y \in Copies(o) : y.rv # value.rv
      BY <2>3, <3>1, CopiesHaveVersions DEF Known
    <3> QED BY <2>3, <3>1, <3>2
  <2>4. x = store'[j] \/ x \in Copies(j) \/ (j = o /\ x = value)
    BY <1>1, <1>2, <1>3 DEF Copies
  <2> QED BY <2>1, <2>2, <2>3, <2>4
<1> HIDE DEF StoreKeepsSpecs
<1> QED BY <1>4, <1>5, CopiesStay

LEMMA NoPutKeepsCopies ==
    ASSUME NothingDeleted, CopiesAgree, StoreKeepsSpecs, UNCHANGED <<api, watch>>
    PROVE  NothingDeleted' /\ CopiesAgree'
<1>1. ASSUME NEW j \in Ings, NEW x \in Copies(j)'
      PROVE  Fine(x) /\ \E y \in Copies(j) : x.rv = y.rv /\ x.spec = y.spec
  <2>1. CASE x = store'[j]
    <3>1. x # NoObject
      BY DEF Copies
    <3>2. store[j] \in Copies(j) /\ Fine(x) /\ x.rv = store[j].rv /\ x.spec = store[j].spec
      BY <2>1, <3>1 DEF StoreKeepsSpecs, Copies
    <3> QED BY <3>2
  <2>2. CASE x # store'[j]
    BY <2>2 DEF CopiesAgree, Copies
  <2> QED BY <2>1, <2>2
<1> QED BY <1>1 DEF NothingDeleted, CopiesAgree

LEMMA FewerCopies ==
    ASSUME NothingDeleted, CopiesAgree,
           \A i \in Ings : Copies(i)' \subseteq Copies(i) /\ NoObject \notin ToSet(watch'[i])
    PROVE  NothingDeleted' /\ CopiesAgree'
BY DEF NothingDeleted, CopiesAgree

\* What a worker's status write leaves of a cached copy.
LEMMA SyncKeepsSpecs ==
    ASSUME Steady, Known, Known', CopyInv, NEW i \in Ings, SyncInstalled(i)
    PROVE  StoreKeepsSpecs /\ \A o \in Objects : o # i => store'[o] = store[o]
<1>1. PICK last : store' = CacheAfter(i, job.obj, last) /\ DOMAIN last = {}
  BY DEF SyncInstalled
<1>2. \A o \in Objects : o # i => store'[o] = store[o]
  BY <1>1 DEF CacheAfter, Known, StatusInv, MapTypes
<1>3. ASSUME NEW j \in Ings, store'[j] # store[j]
      PROVE  /\ store[j] # NoObject /\ store'[j] # NoObject /\ Fine(store'[j])
             /\ store'[j].rv = store[j].rv /\ store'[j].spec = store[j].spec
  <2>1. /\ store[j] # NoObject /\ store'[j] = [store[j] EXCEPT !.last = last]
    BY <1>1, <1>2, <1>3 DEF CacheAfter, Known, StatusInv, MapTypes, Objects
  <2>2. IsIngressObject(j, store[j]) /\ Fine(store[j])
    BY <2>1 DEF Known, TypeInv, IngressTypes, IngressCopy, CopyInv, CopiesAgree, Copies
  <2>3. /\ store'[j].last = last /\ store'[j].state = store[j].state
        /\ store'[j].rv = store[j].rv /\ store'[j].spec = store[j].spec
        /\ DOMAIN store'[j] = DOMAIN store[j]
    BY <2>1, <2>2 DEF IsIngressObject
  <2>4. Fine(store'[j])
    BY <1>1, <2>2, <2>3 DEF Fine
  <2>5. store'[j] # NoObject
    <3>1. IsIngressObject(j, store'[j])
      BY <1>1, <2>2, <2>3 DEF IsIngressObject
    <3> QED BY <3>1 DEF Steady
  <2> QED BY <2>1, <2>3, <2>4, <2>5
<1>4. ASSUME NEW j \in Ings
      PROVE  /\ store'[j] = NoObject <=> store[j] = NoObject
             /\ store'[j] # NoObject =>
                    Fine(store'[j]) /\ store'[j].rv = store[j].rv /\ store'[j].spec = store[j].spec
  <2>1. CASE store'[j] = store[j]
    BY <2>1 DEF CopyInv, CopiesAgree, Copies
  <2>2. CASE store'[j] # store[j]
    BY <1>3, <2>2
  <2> QED BY <2>1, <2>2
<1> QED BY <1>2, <1>4 DEF StoreKeepsSpecs

LEMMA NextCopies ==
    ASSUME Steady, Known, Known', CopyInv, [Next]_vars
    PROVE  NothingDeleted' /\ CopiesAgree'
<1> USE DEF CopyInv
<1>1. CASE Environment /\ ~Restart
  <2>1. StoreKeepsSpecs
    BY <1>1, EnvironmentWrites, SameStoreKeepsSpecs
  <2> QED BY <1>1, <2>1, EnvironmentWrites, PutKeepsCopies
<1>2. CASE Restart
  <2>1. ASSUME NEW i \in Ings PROVE Copies(i)' \subseteq Copies(i) /\ NoObject \notin ToSet(watch'[i])
    <3>1. i \in Objects
      BY DEF Objects
    <3>2. api' = api /\ store'[i] = NoObject /\ watch'[i] = FirstList(api)[i]
      BY <1>2, <3>1 DEF Restart
    <3>3. CASE api[i] = NoObject
      <4>1. ToSet(watch'[i]) = {}
        BY <3>1, <3>2, <3>3 DEF FirstList, ToSet
      <4> QED BY <3>2, <4>1 DEF Copies
    <3>4. CASE api[i] # NoObject
      <4>1. watch'[i] = <<api[i]>>
        BY <3>1, <3>2, <3>4 DEF FirstList
      <4>2. ToSet(watch'[i]) = {api[i]}
        BY <4>1 DEF ToSet
      <4> QED BY <3>2, <3>4, <4>2 DEF Copies
    <3> QED BY <3>3, <3>4
  <2> QED BY <2>1, FewerCopies
<1>3. ASSUME NEW o \in Objects, HandleDeltas(o) PROVE NothingDeleted' /\ CopiesAgree'
  <2>1. ASSUME NEW i \in Ings PROVE Copies(i)' \subseteq Copies(i) /\ NoObject \notin ToSet(watch'[i])
    <3>1. i \in Objects /\ api' = api
      BY <1>3 DEF Objects, HandleDeltas, apiVars
    <3>2. CASE i = o
      <4>1. /\ watch[i] # <<>> /\ watch'[i] = Tail(watch[i]) /\ store'[i] = Head(watch[i])
        BY <1>3, <3>2 DEF HandleDeltas, Known, StatusInv, MapTypes
      <4>2. Head(watch[i]) \in ToSet(watch[i]) /\ ToSet(Tail(watch[i])) \subseteq ToSet(watch[i])
        BY <4>1, HeadIsWatched DEF Known
      <4> QED BY <3>1, <4>1, <4>2 DEF Copies, NothingDeleted
    <3>3. CASE i # o
      <4>1. watch'[i] = watch[i] /\ store'[i] = store[i]
        BY <1>3, <3>1, <3>3 DEF HandleDeltas, Known, StatusInv, MapTypes
      <4> QED BY <3>1, <4>1 DEF Copies, NothingDeleted
    <3> QED BY <3>2, <3>3
  <2> QED BY <2>1, FewerCopies
<1>4. CASE SyncIngress
  <2>1. PICK i \in Ings : SyncInstalled(i)
    BY <1>4, SyncInstalls
  <2>2. StoreKeepsSpecs
    BY <2>1, SyncKeepsSpecs
  <2>3. i \in Objects
    BY DEF Objects
  <2> QED BY <2>1, <2>2, <2>3, PutKeepsCopies, NoPutKeepsCopies DEF SyncInstalled
<1>5. ASSUME ~Environment, ~SyncIngress, \A o \in Objects : ~HandleDeltas(o)
      PROVE  UNCHANGED <<api, watch, store>>
  <2>1. CASE LookUp
    BY <2>1 DEF LookUp, apiVars, cacheVars
  <2> QED BY <1>5, <2>1, OtherStepsKeepStatusInv DEF Next, Worker, Known
<1>6. CASE UNCHANGED <<api, watch, store>>
  BY <1>6, SameStoreKeepsSpecs, NoPutKeepsCopies
<1> QED BY <1>1, <1>2, <1>3, <1>4, <1>5, <1>6

LEMMA NextHoldsFine ==
    ASSUME Steady, Known, CopyInv, [Next]_vars
    PROVE  HoldsFine'
<1>1. CASE LookUp
  <2>1. /\ job' = [job EXCEPT !.obj = store[job.item.name],
                              !.pc  = IF store[job.item.name] = NoObject THEN "done" ELSE "found"]
        /\ job.pc = "got" /\ job.item.kind # "Configmap"
    BY <1>1 DEF LookUp, IsEndpoint, IsIngress
  <2>2. job.item.name \in Ings
    BY <2>1, ConfigmapKeys DEF Known, ConfInv, Types, JobTypes
  <2>3. "addresses" \in DOMAIN job'
    BY <2>1 DEF CopyInv, HoldsFine
  <2>4. ASSUME job'.pc \in {"found", "parsed"} PROVE Fine(job'.obj)
    <3>1. store[job.item.name] # NoObject /\ job'.obj = store[job.item.name]
      BY <2>1, <2>4 DEF Known, StatusInv, MapTypes
    <3> QED BY <2>2, <3>1 DEF CopyInv, CopiesAgree, Copies
  <2>5. job'.pc # "parsed"
    BY <2>1 DEF Known, StatusInv, MapTypes
  <2> QED BY <2>3, <2>4, <2>5 DEF HoldsFine
<1>2. CASE GetItem \/ FinishItem \/ Restart
  <2>1. "addresses" \in DOMAIN job' /\ job'.pc \in {"got", "idle"}
    <3>1. CASE GetItem
      <4>1. PICK k : job' = [IdleJob EXCEPT !.pc = "got", !.item = k]
        BY <3>1 DEF GetItem
      <4> QED BY <4>1 DEF IdleJob
    <3>2. CASE FinishItem \/ Restart
      BY <3>2 DEF FinishItem, Restart, IdleJob
    <3> QED BY <1>2, <3>1, <3>2
  <2> QED BY <2>1 DEF HoldsFine
<1>3. CASE SyncIngress
  <2>1. job' = [job EXCEPT !.pc = "check"]
    BY <1>3, SyncInstalls DEF SyncInstalled
  <2>2. "addresses" \in DOMAIN job' /\ job'.pc = "check"
    BY <2>1 DEF CopyInv, HoldsFine, Known, StatusInv, MapTypes
  <2> QED BY <2>2 DEF HoldsFine
<1>4. CASE Parse
  <2>1. job.pc = "found" /\ IsIngress /\ job' = [job EXCEPT !.addresses = Addresses, !.pc = "parsed"]
    BY <1>4 DEF Parse
  <2>2. "addresses" \in DOMAIN job' /\ job'.obj = job.obj /\ job'.item = job.item
    BY <2>1 DEF CopyInv, HoldsFine, Known, StatusInv, MapTypes
  <2> QED BY <2>1, <2>2 DEF CopyInv, HoldsFine, IsIngress
<1>5. CASE SyncDelete \/ SyncConfigmap \/ SyncEndpoints \/ CheckLen \/ Render \/ LeaveRender
  <2>1. \E pc \in {"check", "done", "slept"} : job' = [job EXCEPT !.pc = pc]
    BY <1>5 DEF SyncDelete, SyncConfigmap, SyncEndpoints, CheckLen, Render, LeaveRender, Goto
  <2>2. "addresses" \in DOMAIN job' /\ job'.pc \in {"check", "done", "slept"}
    BY <2>1 DEF CopyInv, HoldsFine, Known, StatusInv, MapTypes
  <2> QED BY <2>2 DEF HoldsFine
<1>6. CASE ~Worker /\ ~Restart
  <2>1. job' = job
    <3>1. CASE Environment
      BY <1>6, <3>1, EnvironmentWrites
    <3>2. CASE ~Environment
      BY <1>6, <3>2 DEF Next, HandleDeltas, HandleEndpoints, Enqueue, Elect, vars
    <3> QED BY <3>1, <3>2
  <2> QED BY <2>1 DEF CopyInv, HoldsFine, IsIngress
<1> QED BY <1>1, <1>2, <1>3, <1>4, <1>5, <1>6 DEF Worker

\* Whatever is written, the newest copy agrees with the API server.
LEMMA NextNewest ==
    ASSUME Steady, Known, Known', CopyInv, NewestInv, [Next]_vars
    PROVE  NewestInv'
<1>0. \A o \in Ings \cup Services : o \in Objects
  BY DEF Objects
<1>1. CASE Environment /\ ~Restart
  <2>1. PICK o \in Objects : \E value : Put(o, value) /\ (o \in Ings => NewCopy(o, value))
    BY <1>1, EnvironmentWrites
  <2>2. PICK value : Put(o, value) /\ (o \in Ings => NewCopy(o, value))
    BY <2>1
  <2>3. UNCHANGED store
    BY <1>1, EnvironmentWrites
  <2>4. /\ api'[o] = value /\ (o \in Ings \cup Services => Newest(o)' = value)
        /\ \A p \in Objects : p # o => api'[p] = api[p] /\ Newest(p)' = Newest(p)
    BY <2>2, <2>3, NewestAfterPut
  <2>5. ASSUME NEW i \in Ings
        PROVE  /\ Newest(i)' = NoObject <=> api'[i] = NoObject
               /\ api'[i] # NoObject => Newest(i)'.spec = api'[i].spec
    BY <1>0, <2>4, <2>5 DEF NewestInv
  <2>6. \A s \in Services : Newest(s)' = api'[s]
    BY <1>0, <2>4 DEF NewestInv
  <2> QED BY <2>5, <2>6 DEF NewestInv
<1>2. CASE SyncIngress
  <2>1. PICK i \in Ings : SyncInstalled(i)
    BY <1>2, SyncInstalls
  <2>2. StoreKeepsSpecs /\ \A o \in Objects : o # i => store'[o] = store[o]
    BY <2>1, SyncKeepsSpecs
  <2>3. i \in Objects
    BY <1>0
  <2>4. ASSUME NEW value, Put(i, value) PROVE NewestInv'
    <3>1. /\ api'[i] = value /\ Newest(i)' = value
          /\ \A p \in Objects : p # i => api'[p] = api[p] /\ Newest(p)' = Newest(p)
      BY <2>2, <2>3, <2>4, NewestAfterPut
    <3>2. ASSUME NEW j \in Ings
          PROVE  /\ Newest(j)' = NoObject <=> api'[j] = NoObject
                 /\ api'[j] # NoObject => Newest(j)'.spec = api'[j].spec
      BY <1>0, <3>1 DEF NewestInv
    <3>3. \A s \in Services : Newest(s)' = api'[s]
      BY <1>0, <3>1, NamesAssumption DEF NewestInv
    <3> QED BY <3>2, <3>3 DEF NewestInv
  <2>5. CASE UNCHANGED <<api, watch>>
    <3>1. \A o \in Objects : o # i => Newest(o)' = Newest(o)
      BY <2>2, <2>5 DEF Newest
    <3>2. /\ Newest(i)' = NoObject <=> api'[i] = NoObject
          /\ api'[i] # NoObject => Newest(i)'.spec = api'[i].spec
      <4>1. CASE watch[i] # <<>>
        BY <2>5, <4>1 DEF Newest, NewestInv
      <4>2. CASE watch[i] = <<>>
        <5>1. Newest(i) = store[i] /\ Newest(i)' = store'[i]
          BY <2>5, <4>2 DEF Newest
        <5> QED BY <2>2, <2>5, <5>1 DEF NewestInv, StoreKeepsSpecs
      <4> QED BY <4>1, <4>2
    <3> QED BY <1>0, <2>5, <3>1, <3>2, NamesAssumption DEF NewestInv
  <2> QED BY <2>1, <2>4, <2>5 DEF SyncInstalled
<1>3. ASSUME ~Environment, ~SyncIngress, \A o \in Objects : ~HandleDeltas(o)
      PROVE  UNCHANGED <<api, watch, store>>
  <2>1. CASE LookUp
    BY <2>1 DEF LookUp, apiVars, cacheVars
  <2> QED BY <1>3, <2>1, OtherStepsKeepStatusInv DEF Next, Worker, Known
<1>4. CASE UNCHANGED <<api, watch, store>>
  BY <1>4 DEF NewestInv, Newest
<1> QED BY <1>1, <1>2, <1>3, <1>4, DeltasKeepNewest, RestartKeepsNewest
------------------------------------------------------------------------------
(***************************************************************************)
(* An ingress in the cache is served: all its paths are configured, and    *)
(* their locations lead to the addresses in the cache unless something     *)
(* looks at them again; or a key will handle the ingress; or the worker    *)
(* has read it as it is now and is about to install it.                    *)
(***************************************************************************)
IngressKeys(i) == {IngressKey(event, i) : event \in {"ADD", "Update"}}
EndpointKeys(i, p) == {EndpointKey(event, i, p.svc, p.path) : event \in {"ADD", "Update", "Del"}}

Handled(i) == IngressKeys(i) \cap Pending # {}

Parsing(i) == job.pc \in {"found", "parsed"} /\ job.item \in IngressKeys(i)

LooksAgain(i, p) ==
    \/ notes[p.svc] # <<>>
    \/ EndpointKeys(i, p) \cap Pending # {}
    \/ job.pc = "found" /\ job.item \in EndpointKeys(i, p)

PathsNow(i) == UNION {ToSet(r.paths) : r \in ToSet(store[i].spec)}

FreshlyRead(i) ==
    /\ job.obj.spec = store[i].spec
    /\ job.pc = "parsed" =>
        \A p \in PathsNow(i) : job.addresses[p.svc] = Addresses[p.svc] \/ LooksAgain(i, p)

ServesPath(i, h, p) ==
    /\ Configured(h, p.path, cfg.servers)
    /\ cfg.servers[h][p.path] = [proxy |-> cfg.servers[h][p.path].proxy, par |-> p.lpar]
    /\ ServesAddresses(i, h, p) \/ LooksAgain(i, p)

AllServed(i) == \A r \in ToSet(store[i].spec) : \A p \in ToSet(r.paths) : ServesPath(i, r.host, p)

IngressServed(i) ==
    store[i] # NoObject /\ ~Handled(i) => IF Parsing(i) THEN FreshlyRead(i) ELSE AllServed(i)

ServedInv == \A i \in Ings : IngressServed(i)

\* The worker has read the ingress of an endpoint key as it is now.
LedInv ==
    job.pc = "found" /\ IsEndpoint /\ ~Handled(job.item.name) => job.obj.spec = store[job.item.name].spec

\* Nothing changes at the hosts of the ingress.
SameAt(i) ==
    /\ \A h \in HostsOf(i) \cap DOMAIN cfg.servers :
            h \in DOMAIN cfg'.servers /\ cfg'.servers[h] = cfg.servers[h]
    /\ \A u \in DOMAIN cfg.ups : OfIngress(i, u) => u \in DOMAIN cfg'.ups /\ cfg'.ups[u] = cfg.ups[u]

LEMMA WorkOnOther ==
    ASSUME HostsAreOwn, NEW i \in Ings, NEW j \in Ings, i # j, WorksOn(j, HostsOf(j), cfg, cfg')
    PROVE  SameAt(i)
<1>1. \A h \in HostsOf(i) : h \notin HostsOf(j)
  BY DEF HostsAreOwn
<1>2. \A u : OfIngress(i, u) => u # Unavailable /\ ~OfIngress(j, u)
  BY DEF OfIngress
<1> QED BY <1>1, <1>2 DEF WorksOn, SameAt

LEMMA SameConfigSameAt ==
    ASSUME NEW i, cfg'.servers = cfg.servers, cfg'.ups = cfg.ups
    PROVE  SameAt(i)
BY DEF SameAt

LEMMA PathStaysServed ==
    ASSUME NEW i, NEW h \in HostsOf(i), NEW p, ServesPath(i, h, p), SameAt(i),
           LooksAgain(i, p) => LooksAgain(i, p)',
           Addresses'[p.svc] = Addresses[p.svc] \/ LooksAgain(i, p)'
    PROVE  ServesPath(i, h, p)'
<1>1. Configured(h, p.path, cfg'.servers) /\ cfg'.servers[h] = cfg.servers[h]
  BY DEF ServesPath, Configured, SameAt
<1>2. OfIngress(i, getProxyPass(i, p.svc, p.path))
  BY NamesOfUpstreams
<1>3. ServesAddresses(i, h, p) /\ Addresses'[p.svc] = Addresses[p.svc] => ServesAddresses(i, h, p)'
  BY <1>1, <1>2 DEF ServesAddresses, SameAt
<1> QED BY <1>1, <1>3 DEF ServesPath

\* A step that does not work on the ingress.
Aside(i) ==
    /\ store'[i] # NoObject => store[i] # NoObject /\ store'[i].spec = store[i].spec
    /\ Handled(i) => Handled(i)'
    /\ store[i] # NoObject => \A p \in PathsNow(i) :
        /\ LooksAgain(i, p) => LooksAgain(i, p)'
        /\ Addresses'[p.svc] = Addresses[p.svc] \/ LooksAgain(i, p)'
    /\ SameAt(i)
    /\ Parsing(i)' <=> Parsing(i)
    /\ Parsing(i) => job'.obj = job.obj /\ job'.pc = job.pc /\ job'.addresses = job.addresses

LEMMA StoredPaths ==
    ASSUME Known, NEW i \in Ings, store[i] # NoObject
    PROVE  /\ store[i].spec \in Specs[i]
           /\ \A r \in ToSet(store[i].spec) : \A p \in ToSet(r.paths) :
                r.host \in HostsOf(i) /\ p \in PathsNow(i) /\ p \in PathsGiven(i) /\ p.svc \in Services
<1>1. store[i].spec \in Specs[i]
  BY DEF Known, TypeInv, IngressTypes, IngressCopy, IsIngressObject
<1> QED BY <1>1, PathsAreGiven DEF PathsNow

LEMMA AsideKeepsServed ==
    ASSUME Known, NEW i \in Ings, IngressServed(i), Aside(i)
    PROVE  IngressServed(i)'
<1> SUFFICES ASSUME store'[i] # NoObject, ~Handled(i)'
             PROVE  IF Parsing(i)' THEN FreshlyRead(i)' ELSE AllServed(i)'
  BY DEF IngressServed
<1>1. store[i] # NoObject /\ store'[i].spec = store[i].spec /\ ~Handled(i)
  BY DEF Aside
<1>2. PathsNow(i)' = PathsNow(i)
  BY <1>1 DEF PathsNow
<1>3. \A p \in PathsNow(i) : /\ LooksAgain(i, p) => LooksAgain(i, p)'
                             /\ Addresses'[p.svc] = Addresses[p.svc] \/ LooksAgain(i, p)'
  BY <1>1 DEF Aside
<1>4. CASE Parsing(i)
  <2>1. FreshlyRead(i) /\ Parsing(i)'
    BY <1>1, <1>4 DEF IngressServed, Aside
  <2>2. job'.obj = job.obj /\ job'.pc = job.pc /\ job'.addresses = job.addresses
    BY <1>4 DEF Aside
  <2>3. FreshlyRead(i)'
    BY <1>1, <1>2, <1>3, <2>1, <2>2 DEF FreshlyRead
  <2> QED BY <2>1, <2>3
<1>5. CASE ~Parsing(i)
  <2>1. AllServed(i) /\ ~Parsing(i)'
    BY <1>1, <1>5 DEF IngressServed, Aside
  <2>2. ASSUME NEW r \in ToSet(store[i].spec), NEW p \in ToSet(r.paths)
        PROVE  ServesPath(i, r.host, p)'
    <3>1. ServesPath(i, r.host, p)
      BY <2>1 DEF AllServed
    <3>2. r.host \in HostsOf(i) /\ p \in PathsNow(i)
      BY <1>1, StoredPaths
    <3>3. /\ LooksAgain(i, p) => LooksAgain(i, p)'
          /\ Addresses'[p.svc] = Addresses[p.svc] \/ LooksAgain(i, p)'
      BY <1>3, <3>2
    <3>4. SameAt(i)
      BY DEF Aside
    <3> QED BY <3>1, <3>2, <3>3, <3>4, PathStaysServed
  <2>3. AllServed(i)'
    BY <1>1, <2>2 DEF AllServed
  <2> QED BY <2>1, <2>3
<1> QED BY <1>4, <1>5

\* The keys of two ingresses, and of an ingress and its endpoints, differ.
LEMMA KeysOfIngress ==
    ASSUME NEW i, NEW p
    PROVE  /\ \A k \in IngressKeys(i) : k.kind = "ExtendIngress" /\ k.name = i
           /\ \A k \in EndpointKeys(i, p) : k.kind = "Endpoint" /\ k.name = i /\ k.svc = p.svc /\ k.path = p.path
BY DEF IngressKeys, EndpointKeys, IngressKey, EndpointKey

LEMMA LookingStays ==
    ASSUME NEW i, NEW p, notes'[p.svc] = notes[p.svc],
           \A k \in Pending : k.kind # "Configmap" /\ k.name = i => k \in Pending',
           job' = job \/ ~HoldsObjectOf(i)
    PROVE  LooksAgain(i, p) => LooksAgain(i, p)'
BY KeysOfIngress DEF LooksAgain, HoldsObjectOf

\* Steps of others, and of the worker on another ingress.
LEMMA AsideOfOthers ==
    ASSUME NEW i \in Ings, store'[i] = store[i], UNCHANGED notes, Addresses' = Addresses, SameAt(i),
           \A k \in Pending : k.kind # "Configmap" /\ k.name = i => k \in Pending',
           job' = job \/ (~HoldsObjectOf(i) /\ ~HoldsObjectOf(i)')
    PROVE  Aside(i)
<1>1. \A p : LooksAgain(i, p) => LooksAgain(i, p)'
  BY LookingStays
<1>2. Handled(i) => Handled(i)'
  BY KeysOfIngress DEF Handled
<1>3. /\ Parsing(i)' <=> Parsing(i)
      /\ Parsing(i) => job'.obj = job.obj /\ job'.pc = job.pc /\ job'.addresses = job.addresses
  <2>1. (Parsing(i) => HoldsObjectOf(i)) /\ (Parsing(i)' => HoldsObjectOf(i)')
    BY KeysOfIngress DEF Parsing, HoldsObjectOf
  <2>2. CASE job' = job
    BY <2>2 DEF Parsing
  <2> QED BY <2>1, <2>2
<1> QED BY <1>1, <1>2, <1>3 DEF Aside

LEMMA SameStoreSameAddresses ==
    ASSUME \A s \in Services : store'[s] = store[s]
    PROVE  Addresses' = Addresses
BY DEF Addresses

\* The steps that do not touch what the locations say.
LEMMA QuietStepIsAside ==
    ASSUME Known, NEW i \in Ings, [Next]_vars,
           SyncConfigmap \/ (Settled /\ ~SyncEndpoints /\ ~Parse /\ ~SyncIngress)
    PROVE  Aside(i)
<1>1. CASE SyncConfigmap
  <2>1. UNCHANGED <<store, notes>>
    BY <1>1 DEF SyncConfigmap, cacheVars
  <2>2. \A k \in Pending : k.kind # "Configmap" => k \in Pending'
    BY <1>1, GoingOnPending DEF SyncConfigmap, IsConfigmap
  <2>3. ~HoldsObjectOf(i) /\ ~HoldsObjectOf(i)'
    BY <1>1 DEF SyncConfigmap, Goto, HoldsObjectOf, Known, StatusInv, MapTypes
  <2>4. cfg'.servers = cfg.servers /\ cfg'.ups = cfg.ups
    <3>1. \E conf : cfg' = [cfg EXCEPT !.conf = conf]
      BY <1>1 DEF SyncConfigmap
    <3> QED BY <3>1 DEF Known, ConfigOwned, ConfigShape
  <2> QED BY <2>1, <2>2, <2>3, <2>4, SameConfigSameAt, SameStoreSameAddresses, AsideOfOthers
<1>2. CASE Settled /\ ~SyncEndpoints /\ ~Parse /\ ~SyncIngress
  <2>1. UNCHANGED <<store, notes>>
    BY <1>2 DEF Settled, Next, Environment, CreateIngress, UpdateIngress, DeleteIngress, WriteEndpoints,
                WriteConfigMap, UserWrites, Enqueue, Elect, Worker, GetItem, CheckLen, Render, LeaveRender,
                FinishItem, vars, cacheVars
  <2>2. Pending' = Pending
    BY <1>2, OtherStepsKeepPending
  <2>3. cfg'.servers = cfg.servers /\ cfg'.ups = cfg.ups
    <3>1. CASE Render
      <4>1. \E conf : cfg' = [cfg EXCEPT !.conf = conf]
        BY <3>1 DEF Render, WithBaseConf
      <4> QED BY <4>1 DEF Known, ConfigOwned, ConfigShape
    <3>2. CASE ~Render
      BY <1>2, <3>2 DEF Settled, Next, Environment, CreateIngress, UpdateIngress, DeleteIngress, WriteEndpoints,
                WriteConfigMap, UserWrites, Enqueue, Elect, Worker, GetItem, CheckLen, LeaveRender,
                FinishItem, vars, cfgVars
    <3> QED BY <3>1, <3>2
  <2>4. job' = job \/ (~HoldsObjectOf(i) /\ ~HoldsObjectOf(i)')
    <3>1. CASE GetItem
      <4>1. PICK k : job' = [IdleJob EXCEPT !.pc = "got", !.item = k]
        BY <3>1 DEF GetItem
      <4>2. job'.pc = "got" /\ job.pc = "idle"
        BY <3>1, <4>1 DEF IdleJob, GetItem
      <4> QED BY <4>2 DEF HoldsObjectOf
    <3>2. CASE FinishItem
      BY <3>2 DEF FinishItem, IdleJob, HoldsObjectOf
    <3>3. CASE CheckLen \/ Render \/ LeaveRender
      <4>1. job.pc \in {"check", "slept"} /\ \E pc \in {"slept", "done"} : job' = [job EXCEPT !.pc = pc]
        BY <3>3 DEF CheckLen, Render, LeaveRender, Goto
      <4>2. job'.pc \in {"slept", "done"}
        BY <4>1 DEF Known, StatusInv, MapTypes
      <4> QED BY <4>1, <4>2 DEF HoldsObjectOf
    <3>4. CASE ~Worker
      BY <1>2, <3>4 DEF Settled, Next, Environment, CreateIngress, UpdateIngress, DeleteIngress, WriteEndpoints,
                WriteConfigMap, UserWrites, Enqueue, Elect, vars
    <3> QED BY <1>2, <3>1, <3>2, <3>3, <3>4 DEF Worker, Settled
  <2> QED BY <2>1, <2>2, <2>3, <2>4, SameConfigSameAt, SameStoreSameAddresses, AsideOfOthers
<1> QED BY <1>1, <1>2

\* The informers: a change of the addresses leaves a note, a change of the
\* specification a key.
LEMMA AddressesNoted ==
    ASSUME Known, NEW s \in Services, HandleDeltas(s), NEW svc \in Services
    PROVE  /\ notes[svc] # <<>> => notes'[svc] # <<>>
           /\ Addresses'[svc] = Addresses[svc] \/ notes'[svc] # <<>>
<1> DEFINE old  == store[s]
           new  == Head(watch[s])
           note == EndpointsNotified(old, new)
<1>1. /\ s \in Objects /\ svc \in Objects
      /\ store'[s] = new /\ \A o \in Objects : o # s => store'[o] = store[o]
      /\ notes' = [notes EXCEPT ![s] = @ \o note]
  BY DEF HandleDeltas, Objects, Known, StatusInv, MapTypes
<1>2. notes \in [Services -> Seq({"ADD", "Update", "Del"})]
  BY DEF Known, TypeInv, NoteTypes
<1>3. note \in Seq({"ADD", "Update", "Del"})
  <2>1. note \in {<<>>, <<"ADD">>, <<"Update">>, <<"Del">>}
    BY DEF EndpointsNotified
  <2>2. {<<>>, <<"ADD">>, <<"Update">>, <<"Del">>} \subseteq Seq({"ADD", "Update", "Del"})
    OBVIOUS
  <2> QED BY <2>1, <2>2
<1>4. CASE svc # s
  <2>1. notes'[svc] = notes[svc] /\ store'[svc] = store[svc]
    BY <1>1, <1>2, <1>4
  <2> QED BY <2>1 DEF Addresses
<1>5. CASE svc = s
  <2>1. notes'[s] = notes[s] \o note /\ notes[s] \in Seq({"ADD", "Update", "Del"})
    BY <1>1, <1>2
  <2>2. Addresses'[s] = Addresses[s] \/ note # <<>>
    BY <1>1 DEF Addresses, EndpointsNotified
  <2> HIDE DEF note
  <2>3. notes[s] # <<>> \/ note # <<>> => notes'[s] # <<>>
    BY <1>3, <2>1
  <2> QED BY <1>5, <2>2, <2>3
<1> QED BY <1>4, <1>5

\* A new specification in the cache comes with a key.
LEMMA NewSpecsAreHandled ==
    ASSUME Known, CopyInv, NEW i \in Ings, HandleDeltas(i),
           ~(store[i] # NoObject /\ store'[i].spec = store[i].spec)
    PROVE  Handled(i)'
<1>1. /\ i \in Objects /\ watch[i] # <<>> /\ store'[i] = Head(watch[i])
  BY DEF HandleDeltas, Objects, Known, StatusInv, MapTypes
<1>2. Pending' = Pending \cup (Notified(i, store[i], Head(watch[i])) \cap Keys)
  BY <1>1, DeltasPending
<1>3. Head(watch[i]) \in Copies(i)
  BY <1>1, HeadIsWatched DEF Copies, CopyInv, NothingDeleted, Known
<1>4. store[i] # NoObject => store[i].rv # Head(watch[i]).rv /\ store[i].spec # Head(watch[i]).spec
  <2>1. store[i] # NoObject => store[i] \in Copies(i)
    BY DEF Copies
  <2> QED BY <1>1, <1>3, <2>1 DEF CopyInv, CopiesAgree
<1>5. IngressNotified(i, store[i], Head(watch[i])) \cap IngressKeys(i) # {}
  BY <1>3, <1>4 DEF IngressNotified, IngressKeys, Copies
<1>6. IngressKeys(i) \subseteq Keys
  BY DEF IngressKeys, Keys
<1> QED BY <1>2, <1>5, <1>6 DEF Handled, Notified

LEMMA DeltasKeepServed ==
    ASSUME Steady, Known, CopyInv, NEW i \in Ings, IngressServed(i), NEW o \in Objects, HandleDeltas(o)
    PROVE  IngressServed(i)'
<1>1. /\ job' = job /\ UNCHANGED <<cfg>> /\ i \in Objects
      /\ store'[o] = Head(watch[o]) /\ \A p \in Objects : p # o => store'[p] = store[p]
      /\ o \notin Services => notes' = notes
  BY DEF HandleDeltas, cfgVars, Objects, Known, StatusInv, MapTypes
<1>2. Pending' = Pending \cup (Notified(o, store[o], Head(watch[o])) \cap Keys)
  BY DeltasPending
<1>3. SameAt(i)
  BY <1>1, SameConfigSameAt
<1>4. (Parsing(i)' <=> Parsing(i)) /\ (Handled(i) => Handled(i)')
  BY <1>1, <1>2 DEF Parsing, Handled
<1>5. CASE o \in Services
  <2>1. store'[i] = store[i]
    BY <1>1, <1>5, NamesAssumption
  <2>2. ASSUME store[i] # NoObject, NEW p \in PathsNow(i)
        PROVE  /\ LooksAgain(i, p) => LooksAgain(i, p)'
               /\ Addresses'[p.svc] = Addresses[p.svc] \/ LooksAgain(i, p)'
    <3>1. p.svc \in Services
      BY <2>2, StoredPaths DEF PathsNow
    <3>2. /\ notes[p.svc] # <<>> => notes'[p.svc] # <<>>
          /\ Addresses'[p.svc] = Addresses[p.svc] \/ notes'[p.svc] # <<>>
      BY <1>5, <3>1, AddressesNoted
    <3> QED BY <1>1, <1>2, <3>2 DEF LooksAgain
  <2>3. Aside(i)
    BY <1>1, <1>3, <1>4, <2>1, <2>2 DEF Aside
  <2> QED BY <2>3, AsideKeepsServed
<1>6. CASE o \notin Services
  <2>1. Addresses' = Addresses
    <3>1. \A s \in Services : s \in Objects /\ s # o
      BY <1>6 DEF Objects
    <3> QED BY <1>1, <3>1, SameStoreSameAddresses
  <2>2. \A p : LooksAgain(i, p) => LooksAgain(i, p)'
    BY <1>1, <1>2, <1>6 DEF LooksAgain
  <2>3. CASE store'[i] # NoObject => store[i] # NoObject /\ store'[i].spec = store[i].spec
    <3>1. Aside(i)
      BY <1>1, <1>3, <1>4, <2>1, <2>2, <2>3 DEF Aside
    <3> QED BY <3>1, AsideKeepsServed
  <2>4. CASE ~(store'[i] # NoObject => store[i] # NoObject /\ store'[i].spec = store[i].spec)
    <3>1. o = i
      BY <1>1, <2>4
    <3>2. Handled(i)'
      BY <2>4, <3>1, NewSpecsAreHandled
    <3> QED BY <3>2 DEF IngressServed
  <2> QED BY <2>3, <2>4
<1> QED BY <1>5, <1>6

\* The handler of endpoints: its keys look at every path of the service.
LEMMA EndpointHandlerKeepsServed ==
    ASSUME Known, NEW i \in Ings, IngressServed(i), NEW s \in Services, HandleEndpoints(s)
    PROVE  IngressServed(i)'
<1>1. /\ job' = job /\ UNCHANGED <<cfg, store>> /\ notes[s] # <<>> /\ notes' = [notes EXCEPT ![s] = Tail(@)]
  BY DEF HandleEndpoints, cfgVars
<1>2. Pending' = Pending \cup (AddedFor(s) \cap Keys)
  BY EndpointHandlerPending
<1>3. notes \in [Services -> Seq({"ADD", "Update", "Del"})]
  BY DEF Known, TypeInv, NoteTypes
<1>4. ASSUME store[i] # NoObject, NEW p \in PathsNow(i) PROVE LooksAgain(i, p) => LooksAgain(i, p)'
  <2>1. p.svc \in Services /\ p \in PathsGiven(i) /\ p \in ToSet(PathsOf(store[i].spec))
    <3>1. AreRules(store[i].spec)
      BY <1>4, StoredPaths, SpecsAssumption DEF AreRules
    <3>2. p \in ToSet(PathsOf(store[i].spec))
      BY <3>1, PathsOfRules DEF PathsNow
    <3> QED BY <1>4, <3>2, StoredPaths DEF PathsNow
  <2>2. CASE p.svc # s
    <3>1. notes'[p.svc] = notes[p.svc]
      BY <1>1, <1>3, <2>1, <2>2
    <3> QED BY <1>1, <1>2, <3>1 DEF LooksAgain
  <2>3. CASE p.svc = s
    <3> DEFINE event == Head(notes[s])
    <3>1. event \in {"ADD", "Update", "Del"}
      <4>1. notes[s] \in Seq({"ADD", "Update", "Del"})
        BY <1>3
      <4> QED BY <1>1, <4>1
    <3>2. EndpointKey(event, i, s, p.path) \in AddedFor(s)
      BY <1>4, <2>1, <2>3 DEF AddedFor
    <3> HIDE DEF event
    <3>3. EndpointKey(event, i, s, p.path) \in Keys
      BY <2>1, <2>3, <3>1 DEF Keys
    <3>4. EndpointKey(event, i, s, p.path) \in EndpointKeys(i, p)
      BY <2>3, <3>1 DEF EndpointKeys
    <3> QED BY <1>2, <3>2, <3>3, <3>4 DEF LooksAgain
  <2> QED BY <2>2, <2>3
<1>5. (Parsing(i)' <=> Parsing(i)) /\ (Handled(i) => Handled(i)')
  BY <1>1, <1>2 DEF Parsing, Handled
<1>6. Addresses' = Addresses /\ SameAt(i)
  BY <1>1, SameStoreSameAddresses, SameConfigSameAt
<1>7. Aside(i)
  BY <1>1, <1>4, <1>5, <1>6 DEF Aside
<1> QED BY <1>7, AsideKeepsServed

\* The keys of the worker's items.
LEMMA KeysByKind ==
    ASSUME NEW k \in Keys
    PROVE  /\ k.kind = "ExtendIngress" /\ k.event # "Del" => k \in IngressKeys(k.name)
           /\ k.kind = "Endpoint" => \E p \in PathsGiven(k.name) : k \in EndpointKeys(k.name, p)
<1>1. CASE \E event \in {"ADD", "Update"}, i \in Ings : k = IngressKey(event, i)
  BY <1>1 DEF IngressKey, IngressKeys
<1>2. CASE \E i \in Ings : \E spec \in Specs[i] : k = DelKey(i, spec)
  BY <1>2 DEF DelKey
<1>3. CASE \E i \in Ings : \E event \in {"ADD", "Update", "Del"}, p \in PathsGiven(i) :
                k = EndpointKey(event, i, p.svc, p.path)
  <2>1. PICK i \in Ings : \E event \in {"ADD", "Update", "Del"}, p \in PathsGiven(i) :
                k = EndpointKey(event, i, p.svc, p.path)
    BY <1>3
  <2>2. PICK event \in {"ADD", "Update", "Del"}, p \in PathsGiven(i) : k = EndpointKey(event, i, p.svc, p.path)
    BY <2>1
  <2>3. k \in EndpointKeys(i, p) /\ k.kind = "Endpoint" /\ k.name = i
    BY <2>2 DEF EndpointKeys, EndpointKey
  <2> QED BY <2>3
<1>4. CASE \E event \in {"ADD", "Update", "Del"}, c \in ConfigMaps : k = ConfigmapKey(event, c)
  BY <1>4 DEF ConfigmapKey
<1> QED BY <1>1, <1>2, <1>3, <1>4 DEF Keys

LEMMA LookUpKeepsServed ==
    ASSUME Known, NoDel, NEW i \in Ings, IngressServed(i), LookUp
    PROVE  IngressServed(i)'
<1> DEFINE k == job.item
<1>1. /\ Pending \subseteq Pending' \cup {k} /\ job'.item = k /\ job.pc = "got" /\ k \in Keys
      /\ UNCHANGED <<cfg, store, notes>>
      /\ job' = [job EXCEPT !.obj = store[k.name], !.pc = IF store[k.name] = NoObject THEN "done" ELSE "found"]
  BY GoingOnPending DEF LookUp, cfgVars, cacheVars, Known, ConfInv, Types, JobTypes
<1>2. /\ job'.pc = IF store[k.name] = NoObject THEN "done" ELSE "found"
      /\ job'.obj = store[k.name]
  BY <1>1 DEF Known, StatusInv, MapTypes
<1>3. Addresses' = Addresses /\ SameAt(i)
  BY <1>1, SameStoreSameAddresses, SameConfigSameAt
<1>4. CASE k.name # i
  <2>1. ~HoldsObjectOf(i) /\ ~HoldsObjectOf(i)'
    BY <1>1, <1>4 DEF HoldsObjectOf
  <2>2. \A x \in Pending : x.kind # "Configmap" /\ x.name = i => x \in Pending'
    BY <1>1, <1>4
  <2>3. Aside(i)
    BY <1>1, <1>3, <2>1, <2>2, AsideOfOthers
  <2> QED BY <2>3, AsideKeepsServed
<1>5. CASE k.name = i /\ k.kind = "Endpoint"
  <2>1. Handled(i) => Handled(i)'
    BY <1>1, <1>5, KeysOfIngress DEF Handled
  <2>2. ASSUME store[i] # NoObject, NEW p, LooksAgain(i, p) PROVE LooksAgain(i, p)'
    <3>1. job'.pc = "found"
      BY <1>2, <1>5, <2>2
    <3> QED BY <1>1, <2>2, <3>1 DEF LooksAgain
  <2>3. ~Parsing(i) /\ ~Parsing(i)'
    BY <1>1, <1>5, KeysOfIngress DEF Parsing
  <2>4. Aside(i)
    BY <1>1, <1>3, <2>1, <2>2, <2>3 DEF Aside
  <2> QED BY <2>4, AsideKeepsServed
<1>6. CASE k.name = i /\ k.kind # "Endpoint"
  <2>1. k.kind = "ExtendIngress" /\ k.event # "Del"
    BY <1>6 DEF LookUp, IsEndpoint, IsIngress
  <2>2. k \in IngressKeys(i)
    BY <1>1, <1>6, <2>1, KeysByKind
  <2>3. ASSUME store[i] # NoObject PROVE Parsing(i)' /\ FreshlyRead(i)'
    BY <1>1, <1>2, <1>6, <2>2, <2>3 DEF Parsing, FreshlyRead
  <2> QED BY <1>1, <2>3 DEF IngressServed
<1> QED BY <1>4, <1>5, <1>6

\* Between the steps of the worker on its item no key goes.
LEMMA WorkKeepsPending ==
    ASSUME Known, SyncEndpoints \/ Parse \/ SyncIngress
    PROVE  Pending' = Pending /\ job'.item = job.item /\ UNCHANGED notes
<1>1. job'.item = job.item /\ UNCHANGED <<delayed, dirty>>
  BY WorkerKeepsItem DEF Known, workVars
<1>2. UNCHANGED notes
  BY DEF SyncEndpoints, Parse, SyncIngress, cacheVars
<1>3. job.pc # "got" /\ job'.pc # "got"
  <2>1. CASE SyncIngress
    BY <2>1, SyncWritesStatus DEF Known, SyncIngress
  <2>2. CASE ~SyncIngress
    BY <2>2 DEF SyncEndpoints, Parse, Goto, Known, ConfInv, Types, JobTypes
  <2> QED BY <2>1, <2>2
<1> QED BY <1>1, <1>2, <1>3, SameKeysPending

LEMMA ParseKeepsServed ==
    ASSUME Known, NoDel, CopyInv, NEW i \in Ings, IngressServed(i), Parse
    PROVE  IngressServed(i)'
<1> DEFINE k == job.item
<1>1. /\ Pending' = Pending /\ job'.item = k /\ UNCHANGED <<cfg, store, notes>> /\ job.pc = "found" /\ k \in Keys
      /\ job' = [job EXCEPT !.addresses = Addresses, !.pc = "parsed"]
  BY WorkKeepsPending DEF Parse, cfgVars, cacheVars, Known, ConfInv, Types, JobTypes
<1>2. job'.pc = "parsed" /\ job'.obj = job.obj /\ job'.addresses = Addresses
  BY <1>1 DEF Known, StatusInv, MapTypes, CopyInv, HoldsFine
<1>3. Addresses' = Addresses /\ SameAt(i)
  BY <1>1, SameStoreSameAddresses, SameConfigSameAt
<1>4. CASE k.name # i
  <2>1. ~HoldsObjectOf(i) /\ ~HoldsObjectOf(i)'
    BY <1>1, <1>4 DEF HoldsObjectOf
  <2>2. Aside(i)
    BY <1>1, <1>3, <2>1, AsideOfOthers
  <2> QED BY <2>2, AsideKeepsServed
<1>5. CASE k.name = i
  <2>1. k \in IngressKeys(i)
    <3>1. k.kind = "ExtendIngress" /\ k.event # "Del"
      BY <1>1 DEF Parse, IsIngress, NoDel, IsDel
    <3> QED BY <1>1, <1>5, <3>1, KeysByKind
  <2>2. Parsing(i) /\ Parsing(i)' /\ (Handled(i) <=> Handled(i)')
    BY <1>1, <1>2, <2>1 DEF Parsing, Handled
  <2>3. FreshlyRead(i) => FreshlyRead(i)'
    BY <1>1, <1>2, <1>3 DEF FreshlyRead
  <2> QED BY <1>1, <2>2, <2>3 DEF IngressServed
<1> QED BY <1>4, <1>5

\* Work on another ingress is a step aside.
LEMMA WorkOnOtherIngress ==
    ASSUME Steady, Known, NEW i \in Ings, IngressServed(i), SyncEndpoints \/ SyncIngress, job.item.name # i,
           store'[i] # NoObject => store[i] # NoObject /\ store'[i].spec = store[i].spec,
           \A s \in Services : store'[s] = store[s]
    PROVE  IngressServed(i)'
<1> DEFINE j == job.item.name
<1>1. Pending' = Pending /\ job'.item = job.item /\ UNCHANGED notes
  BY WorkKeepsPending
<1>2. job.pc \in {"found", "parsed"}
  BY DEF SyncEndpoints, SyncIngress
<1>3. j \in Ings
  BY <1>2, ObjectOfItem DEF Known
<1>4. SameAt(i)
  <2>1. CASE cfg' = cfg
    BY <2>1, SameConfigSameAt
  <2>2. CASE cfg' # cfg
    <3>1. Redirects(j) \/ Installs(j)
      BY <2>2, EndpointStep, InstallationStep DEF Known
    <3> HIDE DEF j
    <3>2. WorksOn(j, HostsOf(j), cfg, cfg')
      BY <1>3, <3>1, OperationsWorkOn DEF Known
    <3> QED BY <1>3, <3>2, WorkOnOther DEF Steady, j
  <2> QED BY <2>1, <2>2
<1>5. ~HoldsObjectOf(i) /\ ~HoldsObjectOf(i)'
  BY <1>1 DEF HoldsObjectOf
<1>6. Addresses' = Addresses
  BY SameStoreSameAddresses
<1>7. (\A p : LooksAgain(i, p) => LooksAgain(i, p)') /\ (Handled(i) => Handled(i)')
  <2>1. \A p : LooksAgain(i, p) => LooksAgain(i, p)'
    BY <1>1, <1>5, LookingStays
  <2> QED BY <1>1, <2>1 DEF Handled
<1>8. ~Parsing(i) /\ ~Parsing(i)'
  BY <1>5, KeysOfIngress DEF Parsing, HoldsObjectOf
<1>9. Aside(i)
  BY <1>4, <1>6, <1>7, <1>8 DEF Aside
<1> QED BY <1>9, AsideKeepsServed

\* An endpoints update of the ingress itself.
LEMMA EndpointsKeepServed ==
    ASSUME Steady, Known, CopyInv, LedInv, NEW i \in Ings, IngressServed(i), SyncEndpoints
    PROVE  IngressServed(i)'
<1> DEFINE k    == job.item
           q    == k.path
           svc  == k.svc
           up   == getProxyPass(i, svc, q)
           a    == Addresses[svc]
           spec == store[i].spec
<1>1. /\ Pending' = Pending /\ job'.item = k /\ UNCHANGED <<store, notes>> /\ job.pc = "found" /\ k \in Keys
      /\ IsEndpoint
  BY WorkKeepsPending DEF SyncEndpoints, cacheVars, Known, ConfInv, Types, JobTypes
<1>2. CASE k.name # i
  BY <1>1, <1>2, WorkOnOtherIngress
<1>3. CASE k.name = i
  <2> SUFFICES ASSUME store'[i] # NoObject, ~Handled(i)'
               PROVE  IF Parsing(i)' THEN FreshlyRead(i)' ELSE AllServed(i)'
    BY DEF IngressServed
  <2>1. store[i] # NoObject /\ ~Handled(i) /\ Addresses' = Addresses
    BY <1>1, SameStoreSameAddresses DEF Handled
  <2>2. ~Parsing(i) /\ ~Parsing(i)'
    BY <1>1, KeysOfIngress DEF Parsing, IsEndpoint
  <2>3. AllServed(i) /\ job.obj.spec = spec
    BY <1>1, <1>3, <2>1, <2>2 DEF IngressServed, LedInv
  <2>4. cfg' = updateEndpointsToCfg(cfg, i, svc, q, spec, a).cfg
    <3>1. job.obj.state # "unReady"
      BY <1>1 DEF CopyInv, HoldsFine, Fine
    <3> QED BY <1>3, <2>3, <3>1 DEF SyncEndpoints
  <2>5. spec \in Specs[i] /\ AreRules(spec) /\ RulesAt(HostsOf(i), spec) /\ SteadySpec(i, spec)
    BY <2>1, StoredPaths, SpecsAssumption, RulesOfSpec DEF AreRules, Steady
  <2>6. {"servers", "ups"} \subseteq DOMAIN cfg /\ AreLocations(cfg.servers)
    BY DEF Known, ConfigOwned, ConfigShape
  <2>7. PICK p0 \in PathsGiven(i) : k \in EndpointKeys(i, p0)
    BY <1>1, <1>3, KeysByKind DEF IsEndpoint
  <2>8. p0.path = q /\ p0.svc = svc
    BY <2>7, KeysOfIngress
  <2> HIDE DEF q, svc, up, a, spec, k
  <2>9. /\ RedirectedAt(HostsOf(i), up, q, cfg.servers, cfg'.servers)
        /\ \A u \in DOMAIN cfg.ups \ {up} : u \in DOMAIN cfg'.ups /\ cfg'.ups[u] = cfg.ups[u]
    <3> DEFINE H == HostsOf(i)
    <3> HIDE DEF H
    <3>1. RulesAt(H, spec)
      BY <2>5 DEF H
    <3> QED BY <2>4, <2>6, <3>1, EndpointsRedirect DEF up, H
  <2>10. ASSUME NEW r \in ToSet(spec), NEW p \in ToSet(r.paths)
         PROVE  ServesPath(i, r.host, p)'
    <3>1. ServesPath(i, r.host, p) /\ p \in PathsGiven(i) /\ p.svc \in Services
      BY <2>1, <2>3, <2>10, StoredPaths DEF AllServed, spec
    <3>2. CASE p.path # q
      <4>1. Configured(r.host, p.path, cfg'.servers) /\ cfg'.servers[r.host][p.path] = cfg.servers[r.host][p.path]
        BY <2>9, <3>1, <3>2 DEF RedirectedAt, ServesPath, Configured
      <4>2. getProxyPass(i, p.svc, p.path) # up
        BY <3>2 DEF up, getProxyPass
      <4>3. k \notin EndpointKeys(i, p)
        BY <2>7, <2>8, <3>2, KeysOfIngress
      <4>4. ServesAddresses(i, r.host, p) => ServesAddresses(i, r.host, p)'
        BY <2>1, <2>9, <4>1, <4>2 DEF ServesAddresses
      <4>5. LooksAgain(i, p) => LooksAgain(i, p)'
        BY <1>1, <4>3 DEF LooksAgain, k
      <4> QED BY <3>1, <4>1, <4>4, <4>5 DEF ServesPath
    <3>3. CASE p.path = q
      <4>1. p.svc = svc
        BY <2>7, <2>8, <3>1, <3>3 DEF Steady
      <4>2. \A x \in ToSet(spec) : Names(x, svc) => Configured(x.host, q, cfg.servers)
        <5>1. ASSUME NEW x \in ToSet(spec), Names(x, svc) PROVE Configured(x.host, q, cfg.servers)
          <6>1. PICK y \in ToSet(x.paths) : y.path = q
            BY <2>5, <2>10, <3>3, <4>1, <5>1 DEF SteadySpec
          <6>2. ServesPath(i, x.host, y)
            BY <2>3, <5>1, <6>1 DEF AllServed, spec
          <6> QED BY <6>1, <6>2 DEF ServesPath
        <5> QED BY <5>1
      <4>3. Names(r, svc)
        BY <2>10, <4>1 DEF Names
      <4>4. /\ Configured(r.host, q, cfg'.servers)
            /\ cfg'.servers[r.host][q] = [cfg.servers[r.host][q] EXCEPT !.proxy = IF a = {} THEN Unavailable ELSE up]
            /\ a # {} => up \in DOMAIN cfg'.ups /\ cfg'.ups[up].eps = a
        BY <2>4, <2>5, <2>6, <2>10, <4>2, <4>3, EndpointsServed DEF up
      <4>5. /\ cfg'.servers[r.host][q].proxy = IF a = {} THEN Unavailable ELSE up
            /\ cfg'.servers[r.host][q] = [proxy |-> cfg'.servers[r.host][q].proxy, par |-> p.lpar]
        BY <3>1, <3>3, <4>4 DEF ServesPath
      <4>6. ServesAddresses(i, r.host, p)'
        BY <2>1, <3>3, <4>1, <4>4, <4>5 DEF ServesAddresses, up, a
      <4> QED BY <3>3, <4>4, <4>5, <4>6 DEF ServesPath
    <3> QED BY <3>2, <3>3
  <2>11. AllServed(i)'
    BY <1>1, <2>10 DEF AllServed, spec
  <2> QED BY <2>2, <2>11
<1> QED BY <1>2, <1>3

\* The sync of the ingress itself.
LEMMA SyncKeepsServed ==
    ASSUME Steady, Known, Known', NoDel, CopyInv, NEW i \in Ings, IngressServed(i), SyncIngress
    PROVE  IngressServed(i)'
<1> DEFINE k == job.item
<1>1. /\ Pending' = Pending /\ job'.item = k /\ UNCHANGED notes /\ job.pc = "parsed" /\ k \in Keys
      /\ k.kind = "ExtendIngress" /\ k.event # "Del"
  <2>1. job.pc = "parsed" /\ k \in Keys
    BY DEF SyncIngress, Known, ConfInv, Types, JobTypes
  <2>2. k.kind = "ExtendIngress"
    BY <2>1 DEF CopyInv, HoldsFine, IsIngress
  <2> QED BY <2>1, <2>2, WorkKeepsPending DEF NoDel, IsDel
<1>2. k.name \in Ings /\ SyncInstalled(k.name)
  BY SyncInstalls
<1>3. StoreKeepsSpecs /\ \A o \in Objects : o # k.name => store'[o] = store[o]
  BY <1>2, SyncKeepsSpecs
<1>4. \A s \in Services : store'[s] = store[s]
  BY <1>2, <1>3, NamesAssumption DEF Objects
<1>5. Addresses' = Addresses
  BY <1>4, SameStoreSameAddresses
<1>6. store'[i] # NoObject => store[i] # NoObject /\ store'[i].spec = store[i].spec
  BY <1>3 DEF StoreKeepsSpecs
<1>7. CASE k.name # i
  BY <1>4, <1>6, <1>7, WorkOnOtherIngress
<1>8. CASE k.name = i
  <2> SUFFICES ASSUME store'[i] # NoObject, ~Handled(i)'
               PROVE  IF Parsing(i)' THEN FreshlyRead(i)' ELSE AllServed(i)'
    BY DEF IngressServed
  <2>1. store[i] # NoObject /\ store'[i].spec = store[i].spec /\ ~Handled(i)
    BY <1>1, <1>6 DEF Handled
  <2>2. Parsing(i)
    BY <1>1, <1>8, KeysByKind DEF Parsing
  <2>3. ~Parsing(i)'
    <3>1. job'.pc = "check"
      BY <1>2 DEF SyncInstalled, Known, StatusInv, MapTypes
    <3> QED BY <3>1 DEF Parsing
  <2>4. FreshlyRead(i)
    BY <2>1, <2>2 DEF IngressServed
  <2>5. Installed(i, store[i].spec, job.addresses, cfg')
    BY <1>2, <1>8, <2>4 DEF SyncInstalled, FreshlyRead
  <2>6. ASSUME NEW r \in ToSet(store[i].spec), NEW p \in ToSet(r.paths)
        PROVE  ServesPath(i, r.host, p)'
    <3>1. /\ Configured(r.host, p.path, cfg'.servers)
          /\ cfg'.servers[r.host][p.path] = Location(i, p, job.addresses)
          /\ job.addresses[p.svc] # {} =>
                /\ getProxyPass(i, p.svc, p.path) \in DOMAIN cfg'.ups
                /\ cfg'.ups[getProxyPass(i, p.svc, p.path)].eps = job.addresses[p.svc]
      BY <2>5, <2>6 DEF Installed, UpstreamOf
    <3>2. job.addresses[p.svc] = Addresses[p.svc] \/ LooksAgain(i, p)
      BY <1>1, <2>1, <2>4, <2>6, StoredPaths DEF FreshlyRead
    <3>3. LooksAgain(i, p) => LooksAgain(i, p)'
      BY <1>1 DEF LooksAgain
    <3>4. cfg'.servers[r.host][p.path] = [proxy |-> cfg'.servers[r.host][p.path].proxy, par |-> p.lpar]
      BY <3>1 DEF Location
    <3>5. job.addresses[p.svc] = Addresses[p.svc] => ServesAddresses(i, r.host, p)'
      BY <1>5, <3>1 DEF ServesAddresses, Location
    <3> QED BY <3>1, <3>2, <3>3, <3>4, <3>5 DEF ServesPath
  <2>7. AllServed(i)'
    BY <2>1, <2>6 DEF AllServed
  <2> QED BY <2>3, <2>7
<1> QED BY <1>7, <1>8

LEMMA NextServed ==
    ASSUME Steady, Known, Known', NoDel, CopyInv, LedInv, ServedInv, [Next]_vars
    PROVE  ServedInv'
<1> SUFFICES ASSUME NEW i \in Ings PROVE IngressServed(i)'
  BY DEF ServedInv
<1>0. IngressServed(i)
  BY DEF ServedInv
<1>1. CASE Restart
  <2>1. store'[i] = NoObject
    BY <1>1 DEF Restart, Objects
  <2> QED BY <2>1 DEF IngressServed
<1>2. ~SyncDelete
  BY DEF SyncDelete, IsIngress, NoDel, IsDel
<1>3. CASE SyncConfigmap \/ (Settled /\ ~SyncEndpoints /\ ~Parse /\ ~SyncIngress)
  BY <1>0, <1>3, QuietStepIsAside, AsideKeepsServed
<1>4. ASSUME NEW o \in Objects, HandleDeltas(o) PROVE IngressServed(i)'
  BY <1>0, <1>4, DeltasKeepServed
<1>5. ASSUME NEW s \in Services, HandleEndpoints(s) PROVE IngressServed(i)'
  BY <1>0, <1>5, EndpointHandlerKeepsServed
<1>6. CASE LookUp
  BY <1>0, <1>6, LookUpKeepsServed
<1>7. CASE SyncEndpoints
  BY <1>0, <1>7, EndpointsKeepServed
<1>8. CASE Parse
  BY <1>0, <1>8, ParseKeepsServed
<1>9. CASE SyncIngress
  BY <1>0, <1>9, SyncKeepsServed
<1> QED BY <1>1, <1>2, <1>3, <1>4, <1>5, <1>6, <1>7, <1>8, <1>9 DEF Settled

LEMMA NextLed ==
    ASSUME Steady, Known, CopyInv, LedInv, [Next]_vars
    PROVE  LedInv'
<1> DEFINE i == job.item.name
<1> SUFFICES ASSUME job'.pc = "found", IsEndpoint', ~Handled(job.item.name)'
             PROVE  job'.obj.spec = store'[job'.item.name].spec
  BY DEF LedInv
<1>1. CASE LookUp
  BY <1>1 DEF LookUp, cacheVars, Known, StatusInv, MapTypes
<1>2. ~GetItem /\ ~FinishItem /\ ~Restart
  <2>1. ASSUME GetItem PROVE FALSE
    <3>1. PICK k : job' = [IdleJob EXCEPT !.pc = "got", !.item = k]
      BY <2>1 DEF GetItem
    <3> QED BY <3>1 DEF IdleJob
  <2>2. ~FinishItem /\ ~Restart
    BY DEF FinishItem, Restart, IdleJob
  <2> QED BY <2>1, <2>2
<1>3. ~SyncDelete /\ ~SyncConfigmap /\ ~SyncEndpoints /\ ~Parse /\ ~CheckLen /\ ~Render /\ ~LeaveRender
  BY DEF SyncDelete, SyncConfigmap, SyncEndpoints, Parse, CheckLen, Render, LeaveRender, Goto,
         Known, StatusInv, MapTypes
<1>4. ~SyncIngress
  BY SyncWritesStatus DEF Known
<1>5. CASE ~Worker
  <2>1. job' = job
    <3>1. CASE Environment
      BY <1>2, <3>1, EnvironmentWrites
    <3>2. CASE ~Environment
      BY <1>5, <3>2 DEF Next, HandleDeltas, HandleEndpoints, Enqueue, Elect, vars
    <3> QED BY <3>1, <3>2
  <2>2. i \in Ings /\ job.pc = "found" /\ IsEndpoint
    BY <2>1, ObjectOfItem DEF IsEndpoint, Known
  <2>3. ASSUME Pending \subseteq Pending', store'[i] = store[i]
        PROVE  job'.obj.spec = store'[i].spec
    BY <2>1, <2>2, <2>3 DEF LedInv, Handled
  <2>4. ASSUME NEW o \in Objects, HandleDeltas(o) PROVE job'.obj.spec = store'[i].spec
    <3>1. Pending \subseteq Pending'
      BY <2>4, DeltasPending
    <3>2. CASE o # i
      <4>1. store'[i] = store[i]
        BY <2>4, <3>2 DEF HandleDeltas, Known, StatusInv, MapTypes
      <4> QED BY <2>3, <3>1, <4>1
    <3>3. CASE o = i
      <4>1. store'[i].spec = store[i].spec
        BY <2>1, <2>2, <2>4, <3>3, NewSpecsAreHandled
      <4> QED BY <2>1, <2>2, <3>1, <4>1 DEF LedInv, Handled
    <3> QED BY <3>2, <3>3
  <2>5. ASSUME NEW s \in Services, HandleEndpoints(s) PROVE job'.obj.spec = store'[i].spec
    <3>1. Pending \subseteq Pending' /\ store' = store
      BY <2>5, EndpointHandlerPending DEF HandleEndpoints
    <3> QED BY <2>3, <3>1
  <2>6. CASE Settled
    <3>1. store' = store
      <4>1. CASE Environment
        BY <1>2, <4>1, EnvironmentWrites
      <4>2. CASE ~Environment
        BY <1>5, <2>6, <4>2 DEF Settled, Next, Enqueue, Elect, vars, cacheVars
      <4> QED BY <4>1, <4>2
    <3>2. Pending' = Pending
      BY <2>6, OtherStepsKeepPending
    <3> QED BY <2>1, <2>3, <3>1, <3>2
  <2> QED BY <1>2, <1>5, <2>1, <2>4, <2>5, <2>6 DEF Settled, Worker
<1> QED BY <1>1, <1>2, <1>3, <1>4, <1>5 DEF Worker
------------------------------------------------------------------------------
ConvInv == NoDel /\ CopyInv /\ NewestInv /\ ServedInv /\ LedInv

\* The first list shows what the API server has.
LEMMA InitConvInv == ASSUME Steady, Init PROVE ConvInv
<1>1. /\ api \in Apis /\ watch = FirstList(api) /\ store = [o \in Objects |-> NoObject]
      /\ job = IdleJob /\ \A i \in Ings : i \in Objects
  BY DEF Init, Objects
<1>2. job.pc = "idle" /\ "addresses" \in DOMAIN job
  BY <1>1 DEF IdleJob
<1>3. NoDel /\ LedInv /\ HoldsFine
  <2>1. dirty = {} /\ delayed = [k \in Items |-> 0]
    BY DEF Init, LimitedInit, QueueInit
  <2>2. Pending = {}
    BY <1>2, <2>1, ItemsAssumption DEF Pending
  <2> QED BY <1>2, <2>2 DEF NoDel, LedInv, HoldsFine
<1>4. ServedInv
  BY <1>1 DEF ServedInv, IngressServed
<1>5. ASSUME NEW i \in Ings PROVE watch[i] = IF api[i] = NoObject THEN <<>> ELSE <<api[i]>>
  BY <1>1 DEF FirstList
<1>6. ASSUME NEW i \in Ings PROVE Copies(i) \subseteq {api[i]} /\ NoObject \notin ToSet(watch[i])
  <2>1. CASE api[i] = NoObject
    <3>1. watch[i] = <<>>
      BY <1>5, <2>1
    <3>2. ToSet(watch[i]) = {}
      BY <3>1 DEF ToSet
    <3> QED BY <1>1, <2>1, <3>2 DEF Copies
  <2>2. CASE api[i] # NoObject
    <3>1. watch[i] = <<api[i]>>
      BY <1>5, <2>2
    <3>2. ToSet(watch[i]) = {api[i]}
      BY <3>1 DEF ToSet
    <3> QED BY <1>1, <2>2, <3>2 DEF Copies
  <2> QED BY <2>1, <2>2
<1>7. NothingDeleted /\ CopiesAgree
  <2>1. \A i \in Ings : NoObject \notin Copies(i)
    BY DEF Copies
  <2> QED BY <1>1, <1>6, <2>1 DEF NothingDeleted, CopiesAgree, Steady
<1>8. NewestInv
  <2>1. ASSUME NEW o \in Ings \cup Services PROVE Newest(o) = api[o]
    <3>1. o \in Objects
      BY DEF Objects
    <3> QED BY <1>1, <3>1, FirstListIsNewest DEF Newest
  <2> QED BY <2>1 DEF NewestInv
<1> QED BY <1>3, <1>4, <1>7, <1>8 DEF ConvInv, CopyInv

LEMMA NextConvInv == ASSUME Steady, Known, Known', ConvInv, [Next]_vars PROVE ConvInv'
<1>1. NoDel'
  BY NextNoDel DEF ConvInv, CopyInv
<1>2. CopyInv'
  BY NextCopies, NextHoldsFine DEF ConvInv, CopyInv
<1> QED BY <1>1, <1>2, NextNewest, NextServed, NextLed DEF ConvInv

\* Where nothing looks again, the locations are those of the cache.
LEMMA ServedEndpointsCatchUp == ASSUME ConvInv PROVE EndpointsCatchUp
<1> SUFFICES ASSUME NEW i \in Ings, store[i] # NoObject, NEW k \in DOMAIN store[i].spec,
                    NEW p \in ToSet(store[i].spec[k].paths)
             PROVE  LET h == store[i].spec[k].host
                    IN  \/ h \notin DOMAIN cfg.servers \/ p.path \notin DOMAIN cfg.servers[h]
                        \/ ServesAddresses(i, h, p)
                        \/ WillLookAgain(i, p)
  BY DEF EndpointsCatchUp
<1>1. IngressServed(i)
  BY DEF ConvInv, ServedInv
<1>2. CASE Handled(i)
  <2>1. PICK key \in Pending : key \in IngressKeys(i)
    BY <1>2 DEF Handled
  <2>2. key.kind = "ExtendIngress" /\ key.name = i
    BY <2>1, KeysOfIngress
  <2>3. key.event # "Del"
    BY <2>1 DEF IngressKeys, IngressKey
  <2> QED BY <2>1, <2>2, <2>3 DEF WillLookAgain
<1>3. CASE Parsing(i)
  BY <1>3, KeysOfIngress DEF Parsing, WillLookAgain, IsIngress
<1>4. CASE AllServed(i)
  <2>1. store[i].spec[k] \in ToSet(store[i].spec)
    BY DEF ToSet
  <2>2. ServesAddresses(i, store[i].spec[k].host, p) \/ LooksAgain(i, p)
    BY <1>4, <2>1 DEF AllServed, ServesPath
  <2>3. LooksAgain(i, p) => WillLookAgain(i, p)
    BY KeysOfIngress DEF LooksAgain, WillLookAgain, IsEndpoint
  <2> QED BY <2>2, <2>3
<1> QED BY <1>1, <1>2, <1>3, <1>4 DEF IngressServed

LEMMA QuietIsConverged == ASSUME Known, ConvInv PROVE ConvergedWhenQuiet
<1> SUFFICES ASSUME Quiet, NEW i \in Ings, Valid(i) PROVE Served(i, cfg)
  BY DEF ConvergedWhenQuiet
<1>1. /\ \A o \in Objects : watch[o] = <<>>
      /\ \A s \in Services : notes[s] = <<>>
      /\ Pending = {} /\ job.pc = "idle" /\ api[i] # NoObject
  BY DEF Quiet, Valid
<1>2. store[i] # NoObject /\ store[i].spec = api[i].spec
  BY <1>1 DEF ConvInv, NewestInv, Newest, Objects
<1>3. Wanted = Addresses
  <2>1. \A s \in Services : store[s] = api[s]
    BY <1>1 DEF ConvInv, NewestInv, Newest, Objects
  <2> QED BY <2>1 DEF Wanted, Addresses
<1>4. AllServed(i)
  BY <1>1, <1>2 DEF ConvInv, ServedInv, IngressServed, Handled, Parsing
<1>5. ASSUME NEW k \in DOMAIN api[i].spec, NEW p \in ToSet(api[i].spec[k].paths)
      PROVE  LET h == api[i].spec[k].host
             IN  /\ h \in DOMAIN cfg.servers /\ p.path \in DOMAIN cfg.servers[h]
                 /\ cfg.servers[h][p.path] = Location(i, p, Wanted)
                 /\ Wanted[p.svc] # {} => cfg.ups[getProxyPass(i, p.svc, p.path)].eps = Wanted[p.svc]
  <2> DEFINE r == api[i].spec[k]
  <2>1. r \in ToSet(store[i].spec) /\ p \in ToSet(r.paths)
    BY <1>2 DEF ToSet
  <2>2. p.svc \in Services
    BY <1>2, <2>1, StoredPaths
  <2>3. ~LooksAgain(i, p)
    BY <1>1, <2>2 DEF LooksAgain
  <2> HIDE DEF r
  <2>4. ServesPath(i, r.host, p) /\ ServesAddresses(i, r.host, p)
    BY <1>4, <2>1, <2>3 DEF AllServed, ServesPath
  <2>5. cfg.servers[r.host][p.path] = Location(i, p, Wanted)
    BY <1>3, <2>4 DEF ServesPath, ServesAddresses, Location
  <2> QED BY <1>3, <2>4, <2>5 DEF ServesPath, ServesAddresses, Configured, r
<1> QED BY <1>5 DEF Served

LEMMA ConvInvariance == ASSUME Steady PROVE Spec => [](Known /\ ConvInv)
<1>1. Init => Known /\ ConvInv
  <2>1. Init => Known
    BY InitConfInv, InitStatusInv, InitTypeInv, InitConfigOwned, InitQueueWorks DEF Known
  <2> QED BY <2>1, InitConvInv
<1>2. Known /\ ConvInv /\ [Next]_vars => (Known /\ ConvInv)'
  <2>1. Known /\ [Next]_vars => Known'
    <3>1. ConfInv /\ StatusInv /\ TypeInv /\ [Next]_vars => TypeInv'
      BY NextControlTypes, NextNoteTypes, NextEndpointTypes, NextIngressTypes DEF TypeInv
    <3> QED BY <3>1, NextConfInv, NextStatusInv, NextConfigOwned, NextQueueWorks DEF Known, Steady
  <2> QED BY <2>1, NextConvInv
<1> QED BY <1>1, <1>2, PTL DEF Spec

\* syncHandler "compares the actual state with the desired, and attempts to
\* converge the two" (controller.go:602): whenever nothing is left to do, every
\* path of every ingress leads to the addresses its service has at the API
\* server, or to 503 if it has none.  That holds for any number of ingresses
\* and services, whatever users write and whenever the controller restarts,
\* as long as nobody deletes or moves anything and nginx -t gives its verdict.
THEOREM AlwaysConvergedWhenQuiet == ASSUME Steady PROVE Spec => []ConvergedWhenQuiet
<1>1. Known /\ ConvInv => ConvergedWhenQuiet
  BY QuietIsConverged
<1> QED BY <1>1, ConvInvariance, PTL

\* Before that, a location without the addresses of the cache has a note, a key
\* or a step of the worker before it that looks at them again, although keys
\* merge, the cache changes between taking a key and reading it, and the
\* handler of endpoints adds keys only for the paths it finds in the cache.
THEOREM EndpointsAlwaysCatchUp == ASSUME Steady PROVE Spec => []EndpointsCatchUp
<1>1. Known /\ ConvInv => EndpointsCatchUp
  BY ServedEndpointsCatchUp
<1> QED BY <1>1, ConvInvariance, PTL
------------------------------------------------------------------------------
(***************************************************************************)
(* Every location leads somewhere.                                         *)
(***************************************************************************)
\* An ingress has one host, and its specifications name the same services.
ServicesStay ==
    \A i \in Ings :
        /\ OneHost(HostsOf(i))
        /\ \A spec \in Specs[i] : \A p \in PathsGiven(i) : \E r \in ToSet(spec) : Names(r, p.svc)

ProxyInv == ByPath(cfg.servers) /\ NoneDangles(cfg.servers, cfg.ups)

LEMMA HostsOwned ==
    ASSUME HostsAreOwn, ConfigOwned, NEW i \in Ings
    PROVE  OwnHosts(i, HostsOf(i), cfg.servers)
<1>1. ASSUME NEW h \in DOMAIN cfg.servers \ HostsOf(i), NEW q \in DOMAIN cfg.servers[h],
             OfIngress(i, cfg.servers[h][q].proxy)
      PROVE  FALSE
  <2>1. PICK j \in Ings : h \in HostsOf(j)
    BY DEF ConfigOwned
  <2>2. cfg.servers[h][q].proxy = Unavailable \/ OfIngress(j, cfg.servers[h][q].proxy)
    BY <2>1 DEF ConfigOwned, OwnAt
  <2>3. j = i
    BY <1>1, <2>2 DEF OfIngress
  <2> QED BY <2>1, <2>3
<1> QED BY <1>1 DEF OwnHosts, ConfigOwned

LEMMA NextProxyInv ==
    ASSUME HostsAreOwn, ServicesStay, ConfInv, StatusInv, TypeInv, ConfigOwned, ProxyInv, [Next]_vars
    PROVE  ProxyInv'
<1> DEFINE i == job.item.name
           H == HostsOf(i)
<1>1. /\ {"servers", "ups"} \subseteq DOMAIN cfg /\ AreLocations(cfg.servers)
      /\ ByPath(cfg.servers) /\ NoneDangles(cfg.servers, cfg.ups)
  BY DEF ConfigOwned, ConfigShape, ProxyInv
<1>2. ASSUME i \in Ings PROVE OneHost(H) /\ OwnHosts(i, H, cfg.servers)
  BY <1>2, HostsOwned DEF ServicesStay
<1>3. CASE cfg' = cfg
  BY <1>3 DEF ProxyInv
<1>4. CASE cfg' # cfg /\ SyncDelete
  <2>1. i \in Ings /\ Deletes(i)
    BY <1>4, DeletionStep
  <2>2. PICK groups : GroupsAt(H, groups) /\ cfg' = delServerAndUpstreamFromCfg(cfg, groups).cfg
    BY <2>1 DEF Deletes
  <2> HIDE DEF i, H
  <2> QED BY <1>1, <1>2, <2>1, <2>2, DeletionLeavesProxies DEF ProxyInv
<1>5. CASE cfg' # cfg /\ SyncEndpoints
  <2> DEFINE svc  == job.item.svc
             q    == job.item.path
             spec == job.obj.spec
             a    == Addresses[svc]
  <2>1. cfg' = updateEndpointsToCfg(cfg, i, svc, q, spec, a).cfg
    BY <1>5 DEF SyncEndpoints
  <2>2. i \in Ings /\ spec \in Specs[i]
    BY <1>5, ObjectOfItem DEF SyncEndpoints
  <2>3. PICK p \in PathsGiven(i) : job.item \in EndpointKeys(i, p)
    <3>1. job.item \in Keys /\ job.item.kind = "Endpoint"
      BY <1>5 DEF SyncEndpoints, IsEndpoint, ConfInv, Types, JobTypes
    <3> QED BY <3>1, KeysByKind
  <2>4. \E r \in ToSet(spec) : Names(r, svc)
    <3>1. svc = p.svc
      BY <2>3, KeysOfIngress
    <3> QED BY <2>2, <3>1 DEF ServicesStay
  <2>5. RulesAt(H, spec)
    BY <2>2, RulesOfSpec
  <2> HIDE DEF i, H, svc, q, spec, a
  <2> QED BY <1>1, <1>2, <2>1, <2>2, <2>4, <2>5, EndpointsLeaveProxies DEF ProxyInv
<1>6. CASE cfg' # cfg /\ SyncIngress
  <2>1. i \in Ings /\ Installs(i)
    BY <1>6, InstallationStep
  <2>2. PICK spec, addresses, last :
            /\ spec \in Specs[i] /\ DOMAIN last \subseteq H
            /\ \E out \in updateServerAndUpstreamToCfg(cfg, extendingressToServer(i, spec, addresses), last, i) :
                    cfg' = out.cfg
    BY <2>1 DEF Installs
  <2>3. RulesAt(H, spec)
    BY <2>1, <2>2, RulesOfSpec
  <2> HIDE DEF i, H
  <2>4. PICK out \in updateServerAndUpstreamToCfg(cfg, extendingressToServer(i, spec, addresses), last, i) :
                cfg' = out.cfg
    BY <2>2
  <2>5. ByPath(out.cfg.servers) /\ NoneDangles(out.cfg.servers, out.cfg.ups)
    BY <1>1, <1>2, <2>1, <2>2, <2>3, InstallationLeavesProxies
  <2> QED BY <2>4, <2>5 DEF ProxyInv
<1>7. CASE ~SyncDelete /\ ~SyncEndpoints /\ ~SyncIngress
  <2>1. CASE cfg' = EmptyCfg
    <3>1. cfg'.servers = NoServers /\ cfg'.ups = NoServers
      BY <2>1 DEF EmptyCfg
    <3> QED BY <3>1, NoServersIsEmpty DEF ProxyInv, ByPath, NoneDangles
  <2>2. CASE UNCHANGED <<cfg.servers, cfg.ups>>
    BY <2>2 DEF ProxyInv
  <2> QED BY <1>7, <2>1, <2>2, OtherStepsKeepConfig DEF ConfigOwned
<1> QED BY <1>3, <1>4, <1>5, <1>6, <1>7

\* extendingress.go:88: every proxy_pass of the configuration in memory names
\* an upstream that is there, so that nginx can load it, after any deletion,
\* endpoints update or installation, also one that panicked and also with the
\* LastPaths of an old status, as long as hosts stay where they are and every
\* service of an ingress stays in it.
THEOREM ProxiesNeverDangle ==
    ASSUME HostsAreOwn, ServicesStay
    PROVE  Spec => []NoDanglingProxy
<1>1. Init => ProxyInv
  <2> SUFFICES ASSUME Init PROVE ProxyInv
    OBVIOUS
  <2>1. cfg.servers = NoServers
    BY DEF Init, EmptyCfg
  <2> QED BY <2>1, NoServersIsEmpty DEF ProxyInv, ByPath, NoneDangles
<1>2. ConfInv /\ StatusInv /\ TypeInv /\ ConfigOwned /\ ProxyInv /\ [Next]_vars => ProxyInv'
  BY NextProxyInv
<1>3. ProxyInv => NoDanglingProxy
  BY DEF ProxyInv, NoneDangles, NoDanglingProxy
<1>4. Spec => []ConfigOwned
  BY ConfigAlwaysOwned
<1> QED BY <1>1, <1>2, <1>3, <1>4, StatusInvariance, TypeInvariance, ConfInvariance, PTL DEF Spec
------------------------------------------------------------------------------
(***************************************************************************)
(* Nothing stays behind: an ingress that comes and goes takes all of its   *)
(* locations with it.                                                      *)
(***************************************************************************)
\* The status of a copy has each path once.
Tidy(x) == \A h \in DOMAIN x.last : OnceEach(x.last[h])

\* Every ingress has one specification, which names each path of a host once;
\* ingresses are created, deleted and created again.
ComeAndGo ==
    /\ HostsAreOwn
    /\ \A i \in Ings : \A spec \in Specs[i] :
        /\ Specs[i] = {spec} /\ PathsOnce(spec) /\ \A r \in ToSet(spec) : r.paths # <<>>
    /\ \A objects \in Apis : \A i \in Ings : objects[i] # NoObject => Tidy(objects[i])
    /\ \A i \in Ings : ~IsIngressObject(i, NoObject)

Installing(i) == job.pc \in {"found", "parsed"} /\ IsIngress /\ job.item.name = i

TidyInv ==
    /\ \A i \in Ings : \A x \in Copies(i) : Tidy(x)
    /\ job.pc \in {"found", "parsed"} => Tidy(job.obj)
    /\ job.pc = "parsed" => IsIngress

\* An ingress is in the configuration with all its locations or not at all.
WholeInv == \A i \in Ings : \A spec \in Specs[i] : Whole(HostsOf(i), spec, cfg.servers)

\* The newest copy of an ingress says whether there is one.
ExistInv == \A i \in Ings : Newest(i) = NoObject <=> api[i] = NoObject

\* What is or comes into the configuration without an ingress in the cache has
\* the key of the deletion still before it.
GoneInv ==
    \A i \in Ings : store[i] = NoObject /\ (HostsOf(i) \cap DOMAIN cfg.servers # {} \/ Installing(i)) =>
        \E k \in Pending : IsDel(k) /\ k.name = i

LeftInv == TidyInv /\ WholeInv /\ ExistInv /\ GoneInv

LEMMA OneSpecWithPaths ==
    ASSUME ComeAndGo, NEW i \in Ings, NEW spec \in Specs[i]
    PROVE  AllPathsOnce(HostsOf(i), spec)
<1>1. RulesAt(HostsOf(i), spec)
  BY RulesOfSpec
<1>2. \A h \in HostsOf(i) : \E r \in ToSet(spec) : r.host = h
  BY DEF ComeAndGo, HostsOf
<1> QED BY <1>1, <1>2 DEF ComeAndGo, AllPathsOnce

\* The steps that write no object, neither at the API server nor in the caches.
LEMMA ObjectsStay ==
    ASSUME Known, [Next]_vars, ~Environment, ~SyncIngress, \A o \in Objects : ~HandleDeltas(o)
    PROVE  UNCHANGED <<api, watch, store>>
<1>1. CASE LookUp
  BY <1>1 DEF LookUp, apiVars, cacheVars
<1> QED BY <1>1, OtherStepsKeepStatusInv DEF Next, Worker, Known

\* What users write.
LEMMA TidyWrites ==
    ASSUME ComeAndGo, Known, TidyInv, Environment, ~Restart
    PROVE  /\ UNCHANGED <<store, notes, job, cfg>> /\ UNCHANGED workVars
           /\ \E o \in Objects : \E value : Put(o, value) /\ (o \in Ings => value = NoObject \/ Tidy(value))
<1>1. ASSUME NEW o \in Objects, NEW value, UserWrites(o, value)
      PROVE  UNCHANGED <<store, notes, job, cfg>> /\ UNCHANGED workVars /\ Put(o, value)
  BY <1>1 DEF UserWrites, cfgVars
<1>2. ASSUME NEW i \in Ings, NEW spec \in Specs[i], CreateIngress(i, spec)
      PROVE  \E value : UserWrites(i, value) /\ Tidy(value)
  <2>1. Tidy(NewIngress(spec, rv + 1))
    BY NoServersIsEmpty DEF Tidy, NewIngress
  <2> QED BY <1>2, <2>1 DEF CreateIngress
<1>3. ASSUME NEW i \in Ings, NEW spec \in Specs[i], UpdateIngress(i, spec)
      PROVE  \E value : UserWrites(i, value) /\ Tidy(value)
  <2> DEFINE value == [api[i] EXCEPT !.spec = spec, !.rv = rv + 1]
  <2>1. UserWrites(i, value) /\ api[i] # NoObject
    BY <1>3 DEF UpdateIngress
  <2>2. IsIngressObject(i, api[i]) /\ Tidy(api[i])
    BY <2>1 DEF Known, TypeInv, IngressTypes, IngressCopy, TidyInv, Copies
  <2>3. value.last = api[i].last
    BY <2>2 DEF IsIngressObject
  <2> HIDE DEF value
  <2> QED BY <2>1, <2>2, <2>3 DEF Tidy
<1>4. CASE \E i \in Ings : \/ \E spec \in Specs[i] : CreateIngress(i, spec) \/ UpdateIngress(i, spec)
                           \/ DeleteIngress(i)
  <2>1. PICK i \in Ings : \E value : UserWrites(i, value) /\ (value = NoObject \/ Tidy(value))
    BY <1>2, <1>3, <1>4 DEF DeleteIngress
  <2>2. i \in Objects
    BY DEF Objects
  <2> QED BY <1>1, <2>1, <2>2
<1>5. CASE \/ \E s \in Services, value \in EpStates : WriteEndpoints(s, value)
           \/ \E c \in ConfigMaps, value \in Contents : WriteConfigMap(c, value)
  <2>1. PICK o \in Services \cup ConfigMaps : \E value : UserWrites(o, value)
    BY <1>5 DEF WriteEndpoints, WriteConfigMap
  <2>2. o \in Objects /\ o \notin Ings
    BY NamesAssumption DEF Objects
  <2> QED BY <1>1, <2>1, <2>2
<1> QED BY <1>4, <1>5 DEF Environment

\* What the sync of an ingress does: the ingress is installed as a whole, or the
\* configuration stays; the status gets each path once.
TidySync(i) ==
    /\ cfg' = cfg \/ \A spec \in Specs[i] : Whole(HostsOf(i), spec, cfg'.servers)
    /\ store' = store \/ \E last : store' = CacheAfter(i, job.obj, last) /\ DOMAIN last = {}
    /\ \/ UNCHANGED <<api, watch>>
       \/ \E value : Put(i, value) /\ value # NoObject /\ Tidy(value) /\ api[i] # NoObject

LEMMA SyncIsTidy ==
    ASSUME ComeAndGo, Known, TidyInv, WholeInv, SyncIngress
    PROVE  job.item.name \in Ings /\ TidySync(job.item.name)
<1> DEFINE i      == job.item.name
           H      == HostsOf(i)
           spec   == job.obj.spec
           parsed == extendingressToServer(i, spec, job.addresses)
<1>1. /\ i \in Ings /\ spec \in Specs[i] /\ DOMAIN job.obj.last \subseteq H
      /\ IsIngressObject(i, job.obj)
  BY ObjectOfItem DEF SyncIngress, Known, StatusInv, MapTypes, TypeInv, IngressTypes, HoldsCopy, IngressCopy
<1>2. AllPathsOnce(H, spec) /\ \A x \in Specs[i] : x = spec
  BY <1>1, OneSpecWithPaths DEF ComeAndGo
<1>3. Tidy(job.obj) /\ Whole(H, spec, cfg.servers)
  BY <1>1 DEF TidyInv, WholeInv, SyncIngress
<1>4. PICK state \in Verdicts(parsed) :
           IF state = "Ready"
           THEN \E out \in updateServerAndUpstreamToCfg(cfg, parsed, job.obj.last, i) :
                    /\ cfg' = out.cfg
                    /\ store' = CacheAfter(i, job.obj, out.last)
                    /\ IF out.panicked
                       THEN Goto("done") /\ UNCHANGED <<api, watch, rv>>
                       ELSE Goto("check") /\ UpdateStatus(i, job.obj, state)
           ELSE /\ \/ UpdateStatus(i, job.obj, state) /\ Goto("check")
                   \/ SilentTest(state) /\ Goto("done") /\ UNCHANGED <<api, watch, rv>>
                /\ UNCHANGED <<cfg, store>>
  BY DEF SyncIngress
<1>5. ASSUME NEW out \in updateServerAndUpstreamToCfg(cfg, parsed, job.obj.last, i)
      PROVE  DOMAIN out.last = {} /\ Whole(H, spec, out.cfg.servers)
  <2>1. {"servers", "ups"} \subseteq DOMAIN cfg
    BY DEF Known, ConfigOwned, ConfigShape
  <2>2. \A h \in DOMAIN job.obj.last : OnceEach(job.obj.last[h])
    BY <1>3 DEF Tidy
  <2>3. out \in updateServerAndUpstreamToCfg(cfg, extendingressToServer(i, spec, job.addresses), job.obj.last, i)
    BY <1>5
  <2> HIDE DEF spec, i, H, parsed
  <2> QED BY <1>1, <1>2, <1>3, <2>1, <2>2, <2>3, InstallationWhole
<1> DEFINE update == [job.obj EXCEPT !.state = state, !.last = LastPaths(spec), !.rv = rv + 1]
<1>6. update # NoObject /\ Tidy(update)
  <2>1. DOMAIN update = {"spec", "state", "last", "rv"} /\ update.last = LastPaths(spec)
    BY <1>1 DEF IsIngressObject
  <2>2. AreRules(spec) /\ PathsOnce(spec)
    BY <1>2 DEF AllPathsOnce, RulesAt, AreRules
  <2>3. \A h \in DOMAIN LastPaths(spec) : OnceEach(LastPaths(spec)[h])
    <3> HIDE DEF spec
    <3> QED BY <2>2, StatusHasPathsOnce
  <2>4. state \in {"", "Ready", "unReady"}
    BY <1>1, <1>4 DEF Verdicts, IsIngressObject
  <2>5. IsIngressObject(i, update)
    BY <1>1, <2>4, StoredIngresses
  <2> HIDE DEF update
  <2> QED BY <1>1, <2>1, <2>3, <2>5 DEF Tidy, ComeAndGo
<1>7. UpdateStatus(i, job.obj, state) =>
            UNCHANGED <<api, watch>> \/ (Put(i, update) /\ api[i] # NoObject)
  BY DEF UpdateStatus
<1> HIDE DEF update, parsed, spec, H, i
<1>8. \/ UNCHANGED <<api, watch>>
      \/ Put(i, update) /\ api[i] # NoObject
  BY <1>4, <1>7
<1>9. \/ UNCHANGED <<cfg, store>>
      \/ \E out \in updateServerAndUpstreamToCfg(cfg, parsed, job.obj.last, i) :
            cfg' = out.cfg /\ store' = CacheAfter(i, job.obj, out.last)
  BY <1>4
<1>10. /\ cfg' = cfg \/ \A x \in Specs[i] : Whole(HostsOf(i), x, cfg'.servers)
       /\ store' = store \/ \E last : store' = CacheAfter(i, job.obj, last) /\ DOMAIN last = {}
  BY <1>2, <1>5, <1>9 DEF H
<1>11. TidySync(i)
  BY <1>6, <1>8, <1>10 DEF TidySync
<1> QED BY <1>1, <1>11 DEF i

\* What a sync leaves of the cache.
TidyStore ==
    \A i \in Ings : /\ store'[i] = NoObject <=> store[i] = NoObject
                    /\ store'[i] # NoObject => Tidy(store'[i])

LEMMA SameStoreIsTidy ==
    ASSUME TidyInv, UNCHANGED store
    PROVE  TidyStore
BY DEF TidyInv, TidyStore, Copies

LEMMA SyncLeavesTidyStore ==
    ASSUME ComeAndGo, Known, TidyInv, NEW i \in Ings, TidySync(i)
    PROVE  TidyStore /\ \A o \in Objects : o # i => store'[o] = store[o]
<1>1. CASE store' = store
  BY <1>1, SameStoreIsTidy
<1>2. ASSUME NEW last, store' = CacheAfter(i, job.obj, last), DOMAIN last = {}
      PROVE  TidyStore /\ \A o \in Objects : o # i => store'[o] = store[o]
  <2>1. DOMAIN store = Objects /\ i \in Objects
    BY DEF Objects, Known, StatusInv, MapTypes
  <2>2. /\ \A o \in Objects : o # i => store'[o] = store[o]
        /\ \/ store'[i] = store[i]
           \/ store[i] # NoObject /\ store'[i] = [store[i] EXCEPT !.last = last]
    BY <1>2, <2>1 DEF CacheAfter
  <2>3. CASE store'[i] = store[i]
    <3>1. \A j \in Ings : store'[j] = store[j]
      BY <2>2, <2>3 DEF Objects
    <3> QED BY <2>2, <3>1 DEF TidyInv, TidyStore, Copies
  <2>4. CASE store[i] # NoObject /\ store'[i] = [store[i] EXCEPT !.last = last]
    <3>1. IsIngressObject(i, store[i])
      BY <2>4 DEF Known, TypeInv, IngressTypes, IngressCopy
    <3>2. store'[i].last = last /\ IsIngressObject(i, store'[i])
      BY <1>2, <2>4, <3>1 DEF IsIngressObject
    <3>3. store'[i] # NoObject /\ Tidy(store'[i])
      BY <1>2, <3>2 DEF Tidy, ComeAndGo
    <3>4. \A j \in Ings : j # i => store'[j] = store[j]
      BY <2>2 DEF Objects
    <3> QED BY <2>2, <2>4, <3>3, <3>4 DEF TidyInv, TidyStore, Copies
  <2> QED BY <2>2, <2>3, <2>4
<1> QED BY <1>1, <1>2 DEF TidySync

\* The copies after a write, and after a sync without one.
LEMMA PutKeepsTidy ==
    ASSUME Known, TidyInv, TidyStore, NEW o \in Objects, NEW value, Put(o, value),
           o \in Ings => value = NoObject \/ Tidy(value)
    PROVE  \A i \in Ings : \A x \in Copies(i)' : Tidy(x)
<1>1. /\ api'[o] = value /\ watch'[o] = Append(watch[o], value)
      /\ \A p \in Objects : p # o => api'[p] = api[p] /\ watch'[p] = watch[p]
  BY DEF Put, Known, StatusInv, MapTypes
<1>2. ASSUME o \in Ings PROVE ToSet(watch'[o]) = ToSet(watch[o]) \cup {value}
  <2>1. PICK S : watch[o] \in Seq(S)
    BY <1>2, WatchedInOrder
  <2>2. watch[o] \in Seq(S \cup {value})
    BY <2>1
  <2> QED BY <1>1, <2>2, ToSetAppend
<1>3. ASSUME NEW i \in Ings, NEW x \in Copies(i)' PROVE Tidy(x)
  <2>1. i \in Objects /\ x # NoObject
    BY DEF Objects, Copies
  <2>2. x = store'[i] \/ x \in Copies(i) \/ (i = o /\ x = value)
    BY <1>1, <1>2, <2>1 DEF Copies
  <2> QED BY <2>1, <2>2 DEF TidyStore, TidyInv
<1> QED BY <1>3

LEMMA NoPutKeepsTidy ==
    ASSUME TidyInv, TidyStore, UNCHANGED <<api, watch>>
    PROVE  \A i \in Ings : \A x \in Copies(i)' : Tidy(x)
BY DEF TidyInv, TidyStore, Copies

\* The informer's step and the first list bring no copy that was not there.
LEMMA DeltasMoveCopies ==
    ASSUME Known, NEW o \in Objects, HandleDeltas(o), NEW i \in Ings
    PROVE  Copies(i)' \subseteq Copies(i)
<1>1. i \in Objects /\ api' = api
  BY DEF Objects, HandleDeltas, apiVars
<1>2. CASE i = o
  <2>1. watch[i] # <<>> /\ watch'[i] = Tail(watch[i]) /\ store'[i] = Head(watch[i])
    BY <1>2 DEF HandleDeltas, Known, StatusInv, MapTypes
  <2>2. Head(watch[i]) \in ToSet(watch[i]) /\ ToSet(Tail(watch[i])) \subseteq ToSet(watch[i])
    BY <2>1, HeadIsWatched DEF Known
  <2> QED BY <1>1, <2>1, <2>2 DEF Copies
<1>3. CASE i # o
  <2>1. watch'[i] = watch[i] /\ store'[i] = store[i]
    BY <1>1, <1>3 DEF HandleDeltas, Known, StatusInv, MapTypes
  <2> QED BY <1>1, <2>1 DEF Copies
<1> QED BY <1>2, <1>3

LEMMA ListedCopies ==
    ASSUME NEW objects, NEW changes, changes = FirstList(objects), NEW i \in Ings
    PROVE  ToSet(changes[i]) \subseteq {objects[i]} \ {NoObject}
<1>1. i \in Objects
  BY DEF Objects
<1>2. CASE objects[i] = NoObject
  <2>1. changes[i] = <<>>
    BY <1>1, <1>2 DEF FirstList
  <2>2. ToSet(<<>>) = {}
    BY DEF ToSet
  <2> QED BY <2>1, <2>2
<1>3. CASE objects[i] # NoObject
  <2>1. changes[i] = <<objects[i]>>
    BY <1>1, <1>3 DEF FirstList
  <2>2. ToSet(changes[i]) = {objects[i]}
    BY <2>1 DEF ToSet
  <2> QED BY <1>3, <2>2
<1> QED BY <1>2, <1>3

LEMMA NextTidy ==
    ASSUME ComeAndGo, Known, TidyInv, WholeInv, [Next]_vars
    PROVE  TidyInv'
<1>1. \A i \in Ings : \A x \in Copies(i)' : Tidy(x)
  <2>1. CASE Environment /\ ~Restart
    <3>1. TidyStore
      BY <2>1, TidyWrites, SameStoreIsTidy
    <3> QED BY <2>1, <3>1, TidyWrites, PutKeepsTidy
  <2>2. CASE Restart
    <3>1. ASSUME NEW i \in Ings PROVE Copies(i)' \subseteq Copies(i)
      <4>1. i \in Objects /\ api' = api /\ store' = [o \in Objects |-> NoObject] /\ watch' = FirstList(api)
        BY <2>2 DEF Restart, Objects
      <4>2. ToSet(watch'[i]) \subseteq {api[i]} \ {NoObject}
        BY <4>1, ListedCopies
      <4> QED BY <4>1, <4>2 DEF Copies
    <3> QED BY <3>1 DEF TidyInv
  <2>3. ASSUME NEW o \in Objects, HandleDeltas(o) PROVE \A i \in Ings : \A x \in Copies(i)' : Tidy(x)
    BY <2>3, DeltasMoveCopies DEF TidyInv
  <2>4. CASE SyncIngress
    <3>1. PICK i \in Ings : TidySync(i)
      BY <2>4, SyncIsTidy
    <3>2. TidyStore /\ i \in Objects
      BY <3>1, SyncLeavesTidyStore DEF Objects
    <3> QED BY <3>1, <3>2, PutKeepsTidy, NoPutKeepsTidy DEF TidySync
  <2>5. CASE UNCHANGED <<api, watch, store>>
    BY <2>5, SameStoreIsTidy, NoPutKeepsTidy
  <2> QED BY <2>1, <2>2, <2>3, <2>4, <2>5, ObjectsStay
<1>2. (job'.pc \in {"found", "parsed"} => Tidy(job'.obj)) /\ (job'.pc = "parsed" => IsIngress')
  <2>1. CASE LookUp
    <3>1. /\ job.pc = "got" /\ job.item.kind # "Configmap" /\ job.item \in Keys
          /\ job'.obj = store[job.item.name]
          /\ job'.pc = IF store[job.item.name] = NoObject THEN "done" ELSE "found"
      BY <2>1 DEF LookUp, IsEndpoint, IsIngress, Known, StatusInv, MapTypes, ConfInv, Types, JobTypes
    <3>2. job.item.name \in Ings
      BY <3>1, ConfigmapKeys
    <3>3. store[job.item.name] # NoObject => Tidy(store[job.item.name])
      BY <3>2 DEF TidyInv, Copies
    <3> QED BY <3>1, <3>3
  <2>2. CASE GetItem \/ FinishItem \/ Restart
    <3>1. ASSUME GetItem PROVE job'.pc = "got"
      BY <3>1 DEF GetItem, IdleJob
    <3> QED BY <2>2, <3>1 DEF FinishItem, Restart, IdleJob
  <2>3. CASE Parse
    <3>1. job.pc = "found" /\ IsIngress /\ job'.obj = job.obj /\ job'.item = job.item
      BY <2>3 DEF Parse, Known, StatusInv, MapTypes
    <3> QED BY <3>1 DEF TidyInv, IsIngress
  <2>4. CASE SyncIngress
    BY <2>4, SyncWritesStatus DEF Known
  <2>5. CASE SyncDelete \/ SyncConfigmap \/ SyncEndpoints \/ CheckLen \/ Render \/ LeaveRender
    <3>1. PICK pc \in {"check", "done", "slept"} : job' = [job EXCEPT !.pc = pc]
      BY <2>5 DEF SyncDelete, SyncConfigmap, SyncEndpoints, CheckLen, Render, LeaveRender, Goto
    <3>2. job'.pc = pc
      BY <3>1 DEF Known, StatusInv, MapTypes
    <3> QED BY <3>2
  <2>6. CASE job' = job
    BY <2>6 DEF TidyInv, IsIngress
  <2>7. ASSUME ~Worker, ~Restart PROVE job' = job
    <3>1. CASE Environment
      BY <2>7, <3>1, TidyWrites
    <3>2. CASE ~Environment
      BY <2>7, <3>2 DEF Next, HandleDeltas, HandleEndpoints, Enqueue, Elect, vars
    <3> QED BY <3>1, <3>2
  <2> QED BY <2>1, <2>2, <2>3, <2>4, <2>5, <2>6, <2>7 DEF Worker
<1> QED BY <1>1, <1>2 DEF TidyInv

\* A step that works on the hosts of one ingress alone.
LEMMA WorkKeepsOthersWhole ==
    ASSUME ComeAndGo, WholeInv, NEW i \in Ings, WorksOn(i, HostsOf(i), cfg, cfg'),
           \A spec \in Specs[i] : Whole(HostsOf(i), spec, cfg'.servers)
    PROVE  WholeInv'
<1>1. ASSUME NEW j \in Ings, NEW spec \in Specs[j] PROVE Whole(HostsOf(j), spec, cfg'.servers)
  <2>1. CASE j = i
    BY <2>1
  <2>2. CASE j # i
    <3> DEFINE H == HostsOf(j)
    <3>1. H \cap HostsOf(i) = {}
      BY <2>2 DEF ComeAndGo, HostsAreOwn
    <3>2. \A r \in ToSet(spec) : r.host \in H
      BY RulesOfSpec DEF RulesAt
    <3>3. Whole(H, spec, cfg.servers)
      BY DEF WholeInv
    <3> HIDE DEF H
    <3>4. /\ \A h \in H : h \in DOMAIN cfg'.servers <=> h \in DOMAIN cfg.servers
          /\ \A h \in H \cap DOMAIN cfg.servers : cfg'.servers[h] = cfg.servers[h]
      BY <3>1 DEF WorksOn
    <3>5. Whole(H, spec, cfg'.servers)
      BY <3>2, <3>3, <3>4, OthersKeepWhole
    <3> QED BY <3>5 DEF H
  <2> QED BY <2>1, <2>2
<1> QED BY <1>1 DEF WholeInv

\* The deletion of an ingress takes all its hosts.
LEMMA DeletionTakesHosts ==
    ASSUME ComeAndGo, Known, WholeInv, SyncDelete
    PROVE  /\ job.item.name \in Ings /\ WorksOn(job.item.name, HostsOf(job.item.name), cfg, cfg')
           /\ HostsOf(job.item.name) \cap DOMAIN cfg'.servers = {}
<1> DEFINE i == job.item.name
           H == HostsOf(i)
<1>1. i \in Ings /\ Deletes(i)
  BY DeletionStep DEF Known
<1>2. /\ job.item \in Keys /\ job.item.kind = "ExtendIngress" /\ job.item.event = "Del"
      /\ cfg' = delServerAndUpstreamFromCfg(cfg, job.item.groups).cfg
  BY DEF SyncDelete, IsIngress, Known, ConfInv, Types, JobTypes
<1>3. PICK spec \in Specs[i] : job.item.groups = GroupsOf(spec) /\ GroupsAt(H, GroupsOf(spec))
  BY <1>2, GroupsOfKey
<1>4. AllPathsOnce(H, spec) /\ Whole(H, spec, cfg.servers)
  BY <1>1, OneSpecWithPaths DEF WholeInv
<1>5. {"servers", "ups"} \subseteq DOMAIN cfg
  BY DEF Known, ConfigOwned, ConfigShape
<1>6. WorksOn(i, H, cfg, cfg')
  BY <1>1, OperationsWorkOn DEF Known
<1> HIDE DEF i, H
<1>7. H \cap DOMAIN cfg'.servers = {}
  BY <1>2, <1>3, <1>4, <1>5, DeletionUndoes
<1> QED BY <1>1, <1>6, <1>7 DEF i, H

\* An endpoints update leaves every location in its place.
LEMMA EndpointsKeepLocations ==
    ASSUME Known, SyncEndpoints
    PROVE  /\ DOMAIN cfg'.servers = DOMAIN cfg.servers
           /\ \A h \in DOMAIN cfg.servers : DOMAIN cfg'.servers[h] = DOMAIN cfg.servers[h]
<1>1. CASE cfg' = cfg
  BY <1>1
<1>2. CASE cfg' # cfg
  <2>1. job.item.name \in Ings /\ Redirects(job.item.name)
    BY <1>2, EndpointStep DEF Known
  <2>2. PICK spec, svc, q, addresses :
            spec \in Specs[job.item.name]
            /\ cfg' = updateEndpointsToCfg(cfg, job.item.name, svc, q, spec, addresses).cfg
    BY <2>1 DEF Redirects
  <2>3. RulesAt(HostsOf(job.item.name), spec)
    BY <2>1, <2>2, RulesOfSpec
  <2>4. {"servers", "ups"} \subseteq DOMAIN cfg /\ AreLocations(cfg.servers)
    BY DEF Known, ConfigOwned, ConfigShape
  <2>5. PICK up : RedirectedAt(HostsOf(job.item.name), up, q, cfg.servers, cfg'.servers)
    BY <2>2, <2>3, <2>4, EndpointsRedirect
  <2> QED BY <2>5 DEF RedirectedAt
<1> QED BY <1>1, <1>2

LEMMA NextWhole ==
    ASSUME ComeAndGo, Known, TidyInv, WholeInv, [Next]_vars
    PROVE  WholeInv'
<1>1. CASE cfg'.servers = cfg.servers
  BY <1>1 DEF WholeInv
<1>2. CASE SyncDelete
  <2>1. \A spec : Whole(HostsOf(job.item.name), spec, cfg'.servers)
    BY <1>2, DeletionTakesHosts DEF Whole
  <2> QED BY <1>2, <2>1, DeletionTakesHosts, WorkKeepsOthersWhole
<1>3. CASE SyncEndpoints
  <2>1. ASSUME NEW i \in Ings, NEW spec \in Specs[i] PROVE Whole(HostsOf(i), spec, cfg'.servers)
    <3>1. Whole(HostsOf(i), spec, cfg.servers) /\ \A r \in ToSet(spec) : r.host \in HostsOf(i)
      BY RulesOfSpec DEF WholeInv, RulesAt
    <3>2. /\ \A h \in HostsOf(i) : h \in DOMAIN cfg'.servers <=> h \in DOMAIN cfg.servers
          /\ \A h \in HostsOf(i) \cap DOMAIN cfg.servers : DOMAIN cfg'.servers[h] = DOMAIN cfg.servers[h]
      BY <1>3, EndpointsKeepLocations
    <3> QED BY <3>1, <3>2, OthersKeepWhole
  <2> QED BY <2>1 DEF WholeInv
<1>4. CASE SyncIngress /\ cfg' # cfg
  <2>1. job.item.name \in Ings /\ Installs(job.item.name) /\ TidySync(job.item.name)
    BY <1>4, InstallationStep, SyncIsTidy DEF Known
  <2>2. WorksOn(job.item.name, HostsOf(job.item.name), cfg, cfg')
    BY <2>1, OperationsWorkOn DEF Known
  <2> QED BY <1>4, <2>1, <2>2, WorkKeepsOthersWhole DEF TidySync
<1>5. CASE cfg' = EmptyCfg
  <2>1. DOMAIN cfg'.servers = {}
    BY <1>5, NoServersIsEmpty DEF EmptyCfg
  <2> QED BY <2>1 DEF WholeInv, Whole
<1> QED BY <1>1, <1>2, <1>3, <1>4, <1>5, OtherStepsKeepConfig DEF Known, ConfigOwned

LEMMA NextExist ==
    ASSUME ComeAndGo, Known, TidyInv, WholeInv, ExistInv, [Next]_vars
    PROVE  ExistInv'
<1>0. \A i \in Ings : i \in Objects
  BY DEF Objects
<1>1. ASSUME NEW o \in Objects, NEW value, Put(o, value),
             \A p \in Objects : p # o => store'[p] = store[p]
      PROVE  ExistInv'
  <2>1. /\ api'[o] = value /\ (o \in Ings \cup Services => Newest(o)' = value)
        /\ \A p \in Objects : p # o => api'[p] = api[p] /\ Newest(p)' = Newest(p)
    BY <1>1, NewestAfterPut
  <2> QED BY <1>0, <2>1 DEF ExistInv
<1>2. CASE Environment /\ ~Restart
  BY <1>1, <1>2, TidyWrites
<1>3. CASE Restart
  <2>1. api' = api /\ watch' = FirstList(api) /\ store' = [o \in Objects |-> NoObject]
    BY <1>3 DEF Restart
  <2>2. ASSUME NEW i \in Ings PROVE Newest(i)' = api'[i]
    <3>1. (IF watch'[i] = <<>> THEN store'[i] ELSE watch'[i][Len(watch'[i])]) = api[i]
      BY <1>0, <2>1, FirstListIsNewest
    <3> QED BY <2>1, <3>1 DEF Newest
  <2> QED BY <2>2 DEF ExistInv
<1>4. ASSUME NEW o \in Objects, HandleDeltas(o) PROVE ExistInv'
  <2>1. \A i \in Ings : Newest(i)' = Newest(i)
    BY <1>4, DeltasPassNewest
  <2>2. api' = api
    BY <1>4 DEF HandleDeltas, apiVars
  <2> QED BY <2>1, <2>2 DEF ExistInv
<1>5. CASE SyncIngress
  <2>1. PICK i \in Ings : TidySync(i)
    BY <1>5, SyncIsTidy
  <2>2. TidyStore /\ \A o \in Objects : o # i => store'[o] = store[o]
    BY <2>1, SyncLeavesTidyStore
  <2>3. CASE UNCHANGED <<api, watch>>
    BY <2>2, <2>3 DEF ExistInv, Newest, TidyStore
  <2> QED BY <1>0, <1>1, <2>1, <2>2, <2>3 DEF TidySync
<1>6. CASE UNCHANGED <<api, watch, store>>
  BY <1>6 DEF ExistInv, Newest
<1> QED BY <1>2, <1>3, <1>4, <1>5, <1>6, ObjectsStay

\* The informer's step that takes an ingress out of the cache leaves the key of
\* its deletion.
LEMMA DeltasKeepGone ==
    ASSUME ComeAndGo, Known, GoneInv, NEW o \in Objects, HandleDeltas(o)
    PROVE  GoneInv'
<1>1. /\ Pending' = Pending \cup (Notified(o, store[o], Head(watch[o])) \cap Keys)
      /\ job' = job /\ UNCHANGED cfg
  BY DeltasPending DEF HandleDeltas, cfgVars
<1>2. ASSUME NEW i \in Ings, store'[i] = NoObject, HostsOf(i) \cap DOMAIN cfg'.servers # {} \/ Installing(i)'
      PROVE  \E k \in Pending' : IsDel(k) /\ k.name = i
  <2>1. CASE store[i] = NoObject
    <3>1. HostsOf(i) \cap DOMAIN cfg.servers # {} \/ Installing(i)
      BY <1>1, <1>2 DEF Installing, IsIngress
    <3>2. \E k \in Pending : IsDel(k) /\ k.name = i
      BY <2>1, <3>1 DEF GoneInv
    <3> QED BY <1>1, <3>2
  <2>2. CASE store[i] # NoObject
    <3>1. i = o /\ Head(watch[o]) = NoObject
      BY <1>2, <2>2 DEF HandleDeltas, Known, StatusInv, MapTypes, Objects
    <3>2. Notified(o, store[o], Head(watch[o])) = {DelKey(i, store[i].spec)}
      BY <2>2, <3>1 DEF Notified, IngressNotified
    <3>3. store[i].spec \in Specs[i]
      BY <2>2 DEF Known, TypeInv, IngressTypes, IngressCopy, IsIngressObject
    <3>4. DelKey(i, store[i].spec) \in Keys
      BY <3>3 DEF Keys
    <3>5. IsDel(DelKey(i, store[i].spec)) /\ DelKey(i, store[i].spec).name = i
      BY DEF DelKey, IsDel
    <3> QED BY <1>1, <3>2, <3>4, <3>5
  <2> QED BY <2>1, <2>2
<1> QED BY <1>2 DEF GoneInv

LEMMA NextGone ==
    ASSUME ComeAndGo, Known, TidyInv, WholeInv, GoneInv, [Next]_vars
    PROVE  GoneInv'
<1>1. CASE Restart
  <2>1. job'.pc = "idle" /\ DOMAIN cfg'.servers = {}
    BY <1>1, NoServersIsEmpty DEF Restart, IdleJob, EmptyCfg
  <2> QED BY <2>1 DEF GoneInv, Installing
<1>2. CASE SyncIngress
  <2> DEFINE i == job.item.name
  <2>1. i \in Ings /\ TidySync(i)
    BY <1>2, SyncIsTidy
  <2>2. /\ job'.pc \in {"done", "check"} /\ job.pc = "parsed" /\ IsIngress
        /\ Pending' = Pending
    BY <1>2, SyncWritesStatus, WorkKeepsPending DEF Known, SyncIngress, TidyInv
  <2>3. TidyStore
    BY <2>1, SyncLeavesTidyStore
  <2>4. ASSUME NEW j \in Ings, j # i PROVE HostsOf(j) \cap DOMAIN cfg'.servers \subseteq DOMAIN cfg.servers
    <3>1. CASE cfg' = cfg
      BY <3>1
    <3>2. CASE cfg' # cfg
      <4>1. WorksOn(i, HostsOf(i), cfg, cfg')
        BY <1>2, <3>2, InstallationStep, OperationsWorkOn DEF Known
      <4> QED BY <2>1, <2>4, <4>1 DEF WorksOn, ComeAndGo, HostsAreOwn
    <3> QED BY <3>1, <3>2
  <2>5. Installing(i)
    BY <2>2 DEF Installing
  <2>6. \A j : ~Installing(j)'
    BY <2>2 DEF Installing
  <2> HIDE DEF i
  <2> QED BY <2>2, <2>3, <2>4, <2>5, <2>6 DEF GoneInv, TidyStore
<1>3. CASE LookUp
  <2>1. /\ UNCHANGED <<store, cfg>> /\ job'.item = job.item /\ Pending \subseteq Pending' \cup {job.item}
        /\ ~IsDel(job.item)
    BY <1>3, GoingOnPending DEF LookUp, cacheVars, cfgVars, IsDel, IsIngress, IsEndpoint
  <2>2. job'.pc = IF store[job.item.name] = NoObject THEN "done" ELSE "found"
    BY <1>3 DEF LookUp, Known, StatusInv, MapTypes
  <2>3. \A i \in Ings : Installing(i)' => store[i] # NoObject
    BY <2>1, <2>2 DEF Installing
  <2>4. \A k \in Pending : IsDel(k) => k \in Pending'
    BY <2>1
  <2> QED BY <2>1, <2>3, <2>4 DEF GoneInv
<1>4. CASE SyncConfigmap
  <2>1. /\ UNCHANGED store /\ Pending \subseteq Pending' \cup {job.item} /\ ~IsDel(job.item)
    BY <1>4, GoingOnPending DEF SyncConfigmap, cacheVars, IsDel, IsConfigmap
  <2>2. cfg'.servers = cfg.servers /\ job'.pc = "check"
    BY <1>4 DEF SyncConfigmap, Goto, Known, ConfigOwned, ConfigShape, StatusInv, MapTypes
  <2>3. \A k \in Pending : IsDel(k) => k \in Pending'
    BY <2>1
  <2> QED BY <2>1, <2>2, <2>3 DEF GoneInv, Installing
<1>5. CASE SyncDelete
  <2> DEFINE i == job.item.name
  <2>1. /\ i \in Ings /\ WorksOn(i, HostsOf(i), cfg, cfg') /\ HostsOf(i) \cap DOMAIN cfg'.servers = {}
    BY <1>5, DeletionTakesHosts
  <2>2. UNCHANGED store /\ Pending \subseteq Pending' \cup {job.item}
    BY <1>5, GoingOnPending DEF SyncDelete, cacheVars
  <2>3. job'.pc \in {"check", "done"}
    BY <1>5 DEF SyncDelete, Goto, Known, StatusInv, MapTypes
  <2>4. ASSUME NEW j \in Ings, j # i PROVE HostsOf(j) \cap DOMAIN cfg'.servers \subseteq DOMAIN cfg.servers
    BY <2>1, <2>4 DEF WorksOn, ComeAndGo, HostsAreOwn
  <2>5. \A k \in Pending : k.name # i => k \in Pending'
    BY <2>2
  <2>6. \A j : ~Installing(j)'
    BY <2>3 DEF Installing
  <2> HIDE DEF i
  <2> QED BY <2>1, <2>2, <2>4, <2>5, <2>6 DEF GoneInv
<1>6. ASSUME NEW o \in Objects, HandleDeltas(o) PROVE GoneInv'
  BY <1>6, DeltasKeepGone
<1>7. ASSUME NEW s \in Services, HandleEndpoints(s) PROVE GoneInv'
  <2>1. Pending \subseteq Pending' /\ job' = job /\ UNCHANGED <<store, cfg>>
    BY <1>7, EndpointHandlerPending DEF HandleEndpoints, cfgVars
  <2> QED BY <2>1 DEF GoneInv, Installing, IsIngress
<1>8. CASE Settled /\ ~SyncIngress
  <2>1. Pending' = Pending
    BY <1>8, OtherStepsKeepPending
  <2>2. UNCHANGED store
    <3>1. CASE Environment
      BY <1>8, <3>1, TidyWrites DEF Settled
    <3> QED BY <1>8, <3>1, ObjectsStay DEF Settled
  <2>3. DOMAIN cfg'.servers = DOMAIN cfg.servers \/ DOMAIN cfg'.servers = {}
    <3>1. CASE SyncEndpoints
      BY <3>1, EndpointsKeepLocations
    <3>2. CASE cfg' = EmptyCfg
      BY <3>2, NoServersIsEmpty DEF EmptyCfg
    <3> QED BY <1>8, <3>1, <3>2, OtherStepsKeepConfig DEF Settled, Known, ConfigOwned
  <2>4. \A i : Installing(i)' => Installing(i)
    <3>1. CASE GetItem
      <4>1. job'.pc = "got"
        BY <3>1 DEF GetItem, IdleJob
      <4> QED BY <4>1 DEF Installing
    <3>2. CASE FinishItem
      BY <3>2 DEF FinishItem, IdleJob, Installing
    <3>3. CASE SyncEndpoints \/ CheckLen \/ Render \/ LeaveRender
      <4>1. job'.pc \in {"check", "done", "slept"}
        BY <3>3 DEF SyncEndpoints, CheckLen, Render, LeaveRender, Goto, Known, StatusInv, MapTypes
      <4> QED BY <4>1 DEF Installing
    <3>4. CASE Parse
      <4>1. job'.item = job.item /\ job.pc = "found"
        BY <3>4 DEF Parse, Known, StatusInv, MapTypes
      <4> QED BY <4>1 DEF Installing, IsIngress
    <3>5. ASSUME ~Worker PROVE job' = job
      <4>1. CASE Environment
        BY <1>8, <4>1, TidyWrites DEF Settled
      <4>2. CASE ~Environment
        BY <1>8, <3>5, <4>2 DEF Next, Settled, Enqueue, Elect, vars
      <4> QED BY <4>1, <4>2
    <3>6. CASE job' = job
      BY <3>6 DEF Installing, IsIngress
    <3> QED BY <1>8, <3>1, <3>2, <3>3, <3>4, <3>5, <3>6 DEF Worker, Settled
  <2> QED BY <2>1, <2>2, <2>3, <2>4 DEF GoneInv
<1> QED BY <1>1, <1>2, <1>3, <1>4, <1>5, <1>6, <1>7, <1>8 DEF Settled

LEMMA InitLeftInv == ASSUME ComeAndGo, Init PROVE LeftInv
<1>1. /\ api \in Apis /\ watch = FirstList(api) /\ store = [o \in Objects |-> NoObject]
      /\ job.pc = "idle" /\ \A i \in Ings : i \in Objects
  BY DEF Init, Objects, IdleJob
<1>2. DOMAIN cfg.servers = {}
  BY NoServersIsEmpty DEF Init, EmptyCfg
<1>3. TidyInv
  <2>1. ASSUME NEW i \in Ings, NEW x \in Copies(i) PROVE Tidy(x)
    <3>1. ToSet(watch[i]) \subseteq {api[i]}
      BY <1>1, ListedCopies
    <3>2. x = api[i] /\ x # NoObject
      BY <1>1, <3>1 DEF Copies
    <3> QED BY <1>1, <3>2 DEF ComeAndGo
  <2> QED BY <1>1, <2>1 DEF TidyInv
<1>4. ExistInv
  <2>1. ASSUME NEW i \in Ings PROVE Newest(i) = api[i]
    BY <1>1, FirstListIsNewest DEF Newest
  <2> QED BY <2>1 DEF ExistInv
<1>5. WholeInv /\ GoneInv
  BY <1>1, <1>2 DEF WholeInv, Whole, GoneInv, Installing
<1> QED BY <1>3, <1>4, <1>5 DEF LeftInv

\* When nothing is on its way, every host in memory has an ingress.
LEMMA QuietLeavesNothing == ASSUME ComeAndGo, Known, LeftInv PROVE NoLeftovers
<1> SUFFICES ASSUME Quiet, NEW h \in DOMAIN cfg.servers, NEW q \in DOMAIN cfg.servers[h]
             PROVE  \E i \in Ings : /\ api[i] # NoObject /\ h \in DOMAIN LastPaths(api[i].spec)
                                    /\ \E p \in ToSet(LastPaths(api[i].spec)[h]) : p.path = q
  BY DEF NoLeftovers
<1>1. PICK i \in Ings : h \in HostsOf(i)
  BY DEF Known, ConfigOwned
<1>2. watch[i] = <<>> /\ Pending = {}
  BY DEF Quiet, Objects
<1>3. store[i] # NoObject
  BY <1>1, <1>2 DEF LeftInv, GoneInv
<1>4. api[i] # NoObject
  BY <1>2, <1>3 DEF LeftInv, ExistInv, Newest
<1> DEFINE spec == api[i].spec
<1>5. spec \in Specs[i]
  BY <1>4 DEF Known, TypeInv, IngressTypes, IngressCopy, IsIngressObject
<1> HIDE DEF spec
<1>6. PICK r \in ToSet(spec) : r.host = h /\ \E p \in ToSet(r.paths) : p.path = q
  BY <1>1, <1>5 DEF LeftInv, WholeInv, Whole
<1>7. PICK p \in ToSet(r.paths) : p.path = q
  BY <1>6
<1>8. AreRules(spec)
  BY <1>5, SpecsAssumption DEF AreRules
<1>9. h \in DOMAIN LastPaths(spec) /\ p \in ToSet(LastPaths(spec)[h])
  BY <1>6, <1>8, StatusHasPaths
<1> QED BY <1>4, <1>7, <1>9 DEF spec

\* No location outlives its ingress: whenever nothing is left to do, every
\* location in memory is one of an ingress that the API server has, although
\* ingresses go and come again while keys of their first life are pending, the
\* worker installs what it read before the deletion, a test runs without a
\* verdict and the controller restarts.  A deletion undoes its ingress as a
\* whole (extendingress.go:224) because an installation makes it whole, as long
\* as no host has two ingresses and no ingress changes its paths.
THEOREM NothingStaysBehind == ASSUME ComeAndGo PROVE Spec => []NoLeftovers
<1>1. Init => Known /\ LeftInv
  BY InitConfInv, InitStatusInv, InitTypeInv, InitConfigOwned, InitQueueWorks, InitLeftInv DEF Known
<1>2. Known /\ LeftInv /\ [Next]_vars => (Known /\ LeftInv)'
  <2>1. Known /\ [Next]_vars => Known'
    <3>1. ConfInv /\ StatusInv /\ TypeInv /\ [Next]_vars => TypeInv'
      BY NextControlTypes, NextNoteTypes, NextEndpointTypes, NextIngressTypes DEF TypeInv
    <3> QED BY <3>1, NextConfInv, NextStatusInv, NextConfigOwned, NextQueueWorks DEF Known, ComeAndGo
  <2> QED BY <2>1, NextTidy, NextWhole, NextExist, NextGone DEF LeftInv
<1>3. Known /\ LeftInv => NoLeftovers
  BY QuietLeavesNothing
<1> QED BY <1>1, <1>2, <1>3, PTL DEF Spec
=============================================================================
