----------------------------- MODULE ObjectFlow -----------------------------
(***************************************************************************)
(* The way of an object through the process: what a handler makes of it, a *)
(* key as text, what the worker reads from the key, the object the lister  *)
(* gives it, and the copy it sends back to the API server.                 *)
(*                                                                         *)
(*   cached --handler--> keys --worker--> cached[id] --> update            *)
(*     ^                                                   |               *)
(*     +---------------- stored, JSON <--------------------+               *)
(*                                                                         *)
(* Controller has the interleavings of these steps; here an item is worked *)
(* on in one step, and what matters is text and memory.                    *)
(***************************************************************************)
EXTENDS KeyText, ApiTypes, Naturals

CONSTANTS Tokens,           \* what texts are made of
          Ids,              \* ingresses: namespace and name, as texts
          Specs,            \* specifications users give them
          Services,         \* names of services, as texts
          ConfigMap,        \* ConfigMap[c]: the id of the config map for c
          Pods,             \* what it finds as the DaemonSet's pods: a list, or Nil
          Events,           \* what happens to endpoints and config maps
          MaxEvents         \* bound: events of the informers in a run

VARIABLES stored,           \* objects at the API server
          cached,           \* the informer's objects
          asked,            \* the specification its user asked for
          keys,             \* keys in the queue, with what the handler meant
          read,             \* what the worker took a key for, in the step before
          update,           \* the object the worker sends to the API server
          written,          \* addresses the worker wrote to for its last ingress
          crashed,          \* a handler panicked
          events

vars == <<stored, cached, asked, keys, read, update, written, crashed, events>>

Nothing == [id |-> Nil, obj |-> Nil]

Init ==
    /\ stored = [id \in Ids |-> Nil]
    /\ cached = [id \in Ids |-> Nil]
    /\ asked = [id \in Ids |-> Nil]
    /\ keys = {}
    /\ read = Nil
    /\ update = Nothing
    /\ written = {}
    /\ crashed = FALSE
    /\ events = 0
------------------------------------------------------------------------------
\* What handlers and worker look at in a specification.
Rules(spec) == Elements(spec.Rules)
PathsOf(rule) == IF rule.HTTP = Nil THEN <<>> ELSE Elements(rule.HTTP.sub.to.Paths)
PathsIn(spec) == UNION {ToSet(PathsOf(Rules(spec)[k])) : k \in DOMAIN Rules(spec)}

\* rule.HTTP.Paths
HasHTTP(spec) == \A k \in DOMAIN Rules(spec) : Rules(spec)[k].HTTP # Nil

ServersOf(spec) ==
    [k \in DOMAIN Rules(spec) |->
        LET paths == PathsOf(Rules(spec)[k])
        IN  [host |-> Rules(spec)[k].Host, paths |-> [n \in DOMAIN paths |-> paths[n].Path]]]

\* Names of objects are checked by the API server: no separator but "-", and
\* no capital letter.  Fields of a specification are not: any text will do.
Names == {text \in Seq(Tokens) : ToSet(text) \cap {"/", "_", "ExtendIngress", "Endpoint", "Del"} = {}}

ASSUME EventsAssumption == Events \subseteq {"ADD", "Update", "Del"}

ASSUME NamesAssumption ==
    /\ Ids \subseteq [ns : Names, name : Names]
    /\ Services \subseteq Names
    /\ DOMAIN ConfigMap \subseteq {"common", "event", "http"}
    /\ \A c \in DOMAIN ConfigMap : ConfigMap[c] \in [ns : Names, name : Names]

PathAssumption(path) ==
    /\ path.Path \in Seq(Tokens)
    /\ path.Backend.ServiceName \in Seq(Tokens) /\ path.Backend.ServicePort \in Seq(Tokens)

ASSUME SpecsAssumption ==
    \A spec \in Specs :
        /\ Rules(spec) \in Seq(ToSet(Rules(spec)))
        /\ \A k \in DOMAIN Rules(spec) :
                /\ Rules(spec)[k].Host \in Seq(Tokens)
                /\ Rules(spec)[k].HTTP # Nil => DOMAIN Rules(spec)[k].HTTP.sub = {"to"}
                /\ PathsOf(Rules(spec)[k]) \in Seq(PathsIn(spec))
        /\ \A path \in PathsIn(spec) : PathAssumption(path)

NewObject(spec) ==
    [ObjectMeta |-> [Labels |-> Ref(Nil, [app |-> "x"])],
     Spec       |-> spec,
     Status     |-> [LoadBalancer |-> [Ingress |-> Nil], State |-> "", LastPaths |-> Nil]]

Receive ==
    /\ ~crashed
    /\ events < MaxEvents
    /\ events' = events + 1
    /\ read' = Nil

\* A write at the API server beats the one the worker is about to make.
Refuse(id) == update' = IF update.id = id THEN Nothing ELSE update

\* AddFunc and UpdateFunc; an update with the same specification has no key.
Apply(id, spec) ==
    LET event == IF stored[id] = Nil THEN "ADD" ELSE "Update"
        obj == IF stored[id] = Nil THEN NewObject(spec) ELSE [stored[id] EXCEPT !.Spec = spec]
    IN  /\ Receive
        /\ asked[id] # Content(spec)
        /\ stored' = [stored EXCEPT ![id] = obj]
        /\ cached' = [cached EXCEPT ![id] = Decoded(obj, "event", <<events, id>>)]
        /\ asked' = [asked EXCEPT ![id] = Content(spec)]
        /\ keys' = keys \cup {[text |-> enqueueExtendIngress(event, id, ServersOf(spec)),
                               meant |-> [does |-> "sync", id |-> id]]}
        /\ Refuse(id)
        /\ UNCHANGED <<written, crashed>>

\* DeleteFunc; it panics on a rule without HTTP and on an empty path.
Delete(id) ==
    /\ Receive
    /\ cached[id] # Nil
    /\ LET spec == cached[id].Spec
       IN  IF HasHTTP(spec) /\ \A p \in PathsIn(spec) : Sliceable(p.Path)
           THEN /\ keys' = keys \cup {[text |-> enqueueExtendIngress("Del", id, ServersOf(spec)),
                                       meant |-> [does |-> "delete", servers |-> ServersOf(spec)]]}
                /\ stored' = [stored EXCEPT ![id] = Nil]
                /\ cached' = [cached EXCEPT ![id] = Nil]
                /\ asked' = [asked EXCEPT ![id] = Nil]
                /\ UNCHANGED crashed
           ELSE crashed' = TRUE /\ UNCHANGED <<keys, stored, cached, asked>>
    /\ Refuse(id)
    /\ UNCHANGED written

\* handleEndpointObj: it panics on any ingress of the namespace that has a
\* rule without HTTP, and on an empty path to the service.
HandleEndpoints(event, ns, svc) ==
    LET present == {id \in Ids : id.ns = ns /\ cached[id] # Nil}
        Paths(id) == {p \in PathsIn(cached[id].Spec) : p.Backend.ServiceName = svc}
        KeyFor(id, p) ==
            [text |-> enqueueEndpoint(event, ProxyPass(id, svc, p.Backend.ServicePort, p.Path)),
             meant |-> [does |-> "endpoints", id |-> id, svc |-> svc, port |-> p.Backend.ServicePort,
                        path |-> p.Path]]
    IN  /\ Receive
        /\ IF \A id \in present : HasHTTP(cached[id].Spec) /\ \A p \in Paths(id) : Sliceable(p.Path)
           THEN /\ keys' = keys \cup UNION {{KeyFor(id, p) : p \in Paths(id)} : id \in present}
                /\ UNCHANGED crashed
           ELSE crashed' = TRUE /\ UNCHANGED keys
        /\ UNCHANGED <<stored, cached, asked, update, written>>

HandleConfigmap(event, c) ==
    /\ Receive
    /\ keys' = keys \cup {[text |-> handleConfigmapObj(event, c, ConfigMap[c]),
                           meant |-> [does |-> "configmap", conf |-> {c}, id |-> ConfigMap[c]]]}
    /\ UNCHANGED <<stored, cached, asked, update, written, crashed>>
------------------------------------------------------------------------------
\* Mutant of LocationConf: the parameters themselves are used.
ParamsThemselves(param) == param.at

\* extendingressToServer copies LocationParam and takes "cors" out of the copy.
LocationConf(param) == [by |-> "conf", of |-> param.at]

WrittenByParse(spec) ==
    {LocationConf(p.LocationParam) : p \in {p \in PathsIn(spec) : "cors" \in DOMAIN Elements(p.LocationParam)}}

\* updateExtendIngressStatus: LastPaths gets the paths of the cached object,
\* and the pods it found in the load balancer's place.
HostsIn(spec) == {Rules(spec)[k].Host : k \in {k \in DOMAIN Rules(spec) : PathsOf(Rules(spec)[k]) # <<>>}}

PathsOfHost(spec, host) ==
    FlattenSeq([k \in DOMAIN Rules(spec) |->
        IF Rules(spec)[k].Host = host THEN PathsOf(Rules(spec)[k]) ELSE <<>>])

LastPathsFor(spec) ==
    Ref([by |-> "last"], [h \in HostsIn(spec) |-> Ref([by |-> "last", of |-> h], PathsOfHost(spec, h))])

MatchingPods(list) == IF list = <<>> THEN Nil ELSE Ref([by |-> "pods"], list)

updateExtendIngressStatus(ingress, verdict, pods) ==
    LET copy == DeepCopy(ingress)
    IN  [copy EXCEPT !.Status =
            [LoadBalancer |-> IF pods = Nil THEN copy.Status.LoadBalancer ELSE [Ingress |-> MatchingPods(pods.list)],
             State        |-> IF verdict = "test failed" THEN "unReady"
                              ELSE IF verdict = "successful" THEN "Ready"
                              ELSE copy.Status.State,
             LastPaths    |-> LastPathsFor(ingress.Spec)]]

LastPathsOf(ingress) == Elements(ingress.Status.LastPaths)

\* updateServerAndUpstreamToCfg deletes the hosts it installs from LastPaths,
\* and moves elements of their slices.
Taken(ingress) == HostsIn(ingress.Spec) \cap DOMAIN LastPathsOf(ingress)

WrittenByInstall(ingress) ==
    IF Taken(ingress) = {} THEN {}
    ELSE {ref.at : ref \in ({ingress.Status.LastPaths} \cup {LastPathsOf(ingress)[h] : h \in Taken(ingress)}) \ {Nil}}

WithoutTaken(ingress) ==
    IF Taken(ingress) = {} THEN ingress
    ELSE [ingress EXCEPT !.Status.LastPaths =
            Ref(@.at, [h \in DOMAIN @.sub \ Taken(ingress) |-> @.sub[h]])]

SyncIngress(id, verdict, pods) ==
    LET ingress == cached[id]
        copy == updateExtendIngressStatus(ingress, verdict, pods)
        ready == copy.Status.State = "Ready"
    IN  /\ update' = [id |-> id, obj |-> copy]
        /\ written' = WrittenByParse(ingress.Spec) \cup (IF ready THEN WrittenByInstall(ingress) ELSE {})
        /\ cached' = IF ready THEN [cached EXCEPT ![id] = WithoutTaken(ingress)] ELSE cached

\* A panic of the worker is recovered, on a rule without HTTP always and on an
\* empty path with endpoints behind it; a missing object is no work.
Sync(key) ==
    LET task == ReadKey(key.text)
        found == task.does = "sync" /\ task.id \in Ids /\ cached[task.id] # Nil
        spec == cached[task.id].Spec
    IN  /\ ~crashed
        /\ keys' = keys \ {key}
        /\ read' = [meant |-> key.meant, task |-> task]
        /\ \/ /\ found /\ HasHTTP(spec)
              /\ \E verdict \in {"successful", "test failed", "neither"},
                    pods \in Pods : SyncIngress(task.id, verdict, pods)
           \/ /\ found => ~HasHTTP(spec) \/ \E p \in PathsIn(spec) : ~Sliceable(p.Path)
              /\ UNCHANGED <<cached, update, written>>
        /\ UNCHANGED <<stored, asked, crashed, events>>

\* The API server stores the update, and the informer gets it back.
StoreUpdate ==
    /\ ~crashed
    /\ update # Nothing
    /\ stored' = [stored EXCEPT ![update.id] = update.obj]
    /\ cached' = [cached EXCEPT ![update.id] = Decoded(update.obj, "stored", <<events, update.id>>)]
    /\ update' = Nothing
    /\ written' = {}
    /\ read' = Nil
    /\ UNCHANGED <<asked, keys, crashed, events>>

Next ==
    \/ \E id \in Ids : Delete(id) \/ \E spec \in Specs : Apply(id, spec)
    \/ \E event \in Events, id \in Ids, svc \in Services : HandleEndpoints(event, id.ns, svc)
    \/ \E event \in Events, c \in DOMAIN ConfigMap : HandleConfigmap(event, c)
    \/ \E key \in keys : Sync(key)
    \/ StoreUpdate

Spec == Init /\ [][Next]_vars
------------------------------------------------------------------------------
\* Separators in a text a key is made of.
Has(text, separators) == ToSet(text) \cap separators # {}

\* types.go:160, "Paths must begin with a '/'"
Absolute(path) == path # <<>> /\ Head(path) = "/"

\* A path or a port of a service that contains "_", or looks like a key of an
\* ingress; a deletion with a separator in a host or in a path behind its first
\* slash; a path without that slash.
Misreadable(meant) ==
    \/ meant.does = "endpoints" /\ (\/ ~Absolute(meant.path)
                                   \/ Has(meant.path, {"_", "ExtendIngress"})
                                   \/ Has(meant.port, {"_", "ExtendIngress"}))
    \/ meant.does = "delete" /\ \E k \in DOMAIN meant.servers :
            LET server == meant.servers[k]
            IN  Has(server.host, {"-", "/"})
                \/ \E n \in DOMAIN server.paths :
                        ~Absolute(server.paths[n]) \/ Has(Tail(server.paths[n]), {"-", "/"})

\* Comments of enqueueExtendIngress, enqueueEndpoint and syncHandler: the worker
\* takes a key for what the handler meant, whatever names, hosts and paths
\* are made of; only keys of these two kinds can be misread.
KeysKeepMeaning == read # Nil => read.task = read.meant \/ Misreadable(read.meant)

\* types.go:136 and :163 make HTTP and path optional: nothing but leaving
\* them out can crash the process in a handler.
HandlersSurvive ==
    crashed => \E id \in Ids : cached[id] # Nil /\
        (~HasHTTP(cached[id].Spec) \/ \E p \in PathsIn(cached[id].Spec) : p.Path = <<>>)

\* getProxyPass: two locations never share an upstream, whatever ids, services,
\* ports and paths are made of; no name of a service or port contains a "_".
Locations ==
    UNION {{<<id, p.Backend.ServiceName, p.Backend.ServicePort, p.Path>> : p \in PathsIn(cached[id].Spec)} :
            id \in {id \in Ids : cached[id] # Nil}}

OwnUpstreams ==
    \A l, m \in {l \in Locations : Absolute(l[4]) /\ ~Has(l[2], {"_"}) /\ ~Has(l[3], {"_"})} :
        ProxyPass(l[1], l[2], l[3], l[4]) = ProxyPass(m[1], m[2], m[3], m[4]) => l = m

\* controller.go:501, "NEVER modify objects from the store": of the memory of
\* cached objects the worker writes to LastPaths only.
CacheIsRead ==
    \A id \in Ids : cached[id] # Nil =>
        written \cap (SpecMemory(cached[id].Spec) \cup MetaMemory(cached[id].ObjectMeta)) = {}

\* controller.go:502, "make a deep copy": what the worker sends shares memory
\* with the cache in the parameters of paths only: LastPaths has the cached
\* maps, and values inside a map are copied as they are.
ParamMaps(spec) ==
    {ref.at : ref \in (UNION {{p.LocationParam, p.UpstreamParam} : p \in PathsIn(spec)}) \ {Nil}}

ParamMemory(spec) == UNION {PathMemory(p) : p \in PathsIn(spec)}

CopyIsOwn ==
    update # Nothing /\ cached[update.id] # Nil =>
        LET spec == cached[update.id].Spec
            cache == Memory(cached[update.id])
        IN  /\ StatusMemory(update.obj.Status) \cap cache \subseteq ParamMemory(spec)
            /\ SpecMemory(update.obj.Spec) \cap cache \subseteq ParamMemory(spec) \ ParamMaps(spec)
            /\ MetaMemory(update.obj.ObjectMeta) \cap cache = {}

\* The status write is a write of the whole object: however often an object
\* goes round, its specification stays what the user asked for.
SpecSurvives ==
    \A id \in Ids : cached[id] # Nil => Content(cached[id].Spec) = asked[id]
==============================================================================
