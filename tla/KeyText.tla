------------------------------ MODULE KeyText ------------------------------
(***************************************************************************)
(* The keys of the work queue as text.  A text is a sequence of tokens:    *)
(* words, the separators "/", "-" and "_", and the words of an event; the  *)
(* first token of a path is one character.                                 *)
(*                                                                         *)
(*   ExtendIngressADD/<ns>/<name>                                          *)
(*   ExtendIngressDel/<ns>/<name>/<host>-<path>-<path>/<host>-<path>       *)
(*   EndpointADD/<ns>_<name>_<service>_<port>_<path>                       *)
(*   ConfigmapADD-common/<ns>/<name>                                       *)
(***************************************************************************)
EXTENDS SequencesExt

\* strings.Split: the last part grows until the next separator.
SplitTurn(sep, parts, t) ==
    IF t = sep THEN Append(parts, <<>>) ELSE [parts EXCEPT ![Len(parts)] = Append(@, t)]

Split(text, sep) == FoldLeft(LAMBDA parts, t : SplitTurn(sep, parts, t), <<<<>>>>, text)

\* cache.MetaNamespaceKeyFunc
MetaNamespaceKey(id) == id.ns \o <<"/">> \o id.name
------------------------------------------------------------------------------
\* Mutant of Sliceable: a path needs a word behind its slash.
SliceableTwice(path) == Len(path) > 1

\* path.Path[1:] panics on an empty path.
Sliceable(path) == path # <<>>

\* Mutant of enqueueExtendIngress: every event has the key of an addition.
EnqueueForgetful(event, id, servers) ==
    <<"ExtendIngress", event, "/">> \o MetaNamespaceKey(id)

\* serverNameLoc of a rule
ServerNameLoc(server) ==
    server.host \o FlattenSeq([n \in DOMAIN server.paths |-> <<"-">> \o Tail(server.paths[n])])

enqueueExtendIngress(event, id, servers) ==
    <<"ExtendIngress", event, "/">> \o MetaNamespaceKey(id)
    \o (IF event # "Del" THEN <<>>
        ELSE FlattenSeq([k \in DOMAIN servers |-> <<"/">> \o ServerNameLoc(servers[k])]))

\* Mutant of ProxyPass: one upstream for a service and path of all ingresses.
ProxyPassOfService(id, svc, port, location) ==
    id.ns \o <<"_">> \o svc \o <<"_">> \o port \o (IF location = <<"/">> THEN <<>> ELSE <<"_">> \o Tail(location))

\* getProxyPass: the name of an upstream, and the key of an endpoints event.
ProxyPass(id, svc, port, location) ==
    id.ns \o <<"_">> \o id.name \o <<"_">> \o svc \o <<"_">> \o port
    \o (IF location = <<"/">> THEN <<>> ELSE <<"_">> \o Tail(location))

enqueueEndpoint(event, proxyPass) == <<"Endpoint", event, "/">> \o proxyPass

handleConfigmapObj(event, conf, id) ==
    <<"Configmap", event, "-", conf, "/">> \o MetaNamespaceKey(id)
------------------------------------------------------------------------------
\* The branches of syncHandler, and what each takes a key to say; with too few
\* parts a branch of an ingress panics, splitStr[2] and splitStr[3:].
Panic == [does |-> "panic"]

ReadIngress(parts) ==
    IF Len(parts) < 3 THEN Panic ELSE [does |-> "sync", id |-> [ns |-> parts[2], name |-> parts[3]]]

ReadServer(part) ==
    LET words == Split(part, "-")
    IN  [host |-> words[1], paths |-> [n \in 1..(Len(words) - 1) |-> <<"/">> \o words[n + 1]]]

ReadDeletion(parts) ==
    IF Len(parts) < 3 THEN Panic
    ELSE [does |-> "delete", servers |-> [k \in 1..(Len(parts) - 3) |-> ReadServer(parts[k + 3])]]

\* A root path has no part of its own; other paths get their slash back.
ReadProxyPass(parts) ==
    [does |-> "endpoints", id |-> [ns |-> parts[1], name |-> parts[2]], svc |-> parts[3], port |-> parts[4],
     path |-> IF Len(parts) = 4 THEN <<"/">>
              ELSE IF Len(parts) = 5 THEN <<"/">> \o parts[5]
              ELSE parts[5]]

ReadEndpoint(text) ==
    ReadProxyPass(Split(SubSeq(text, 1 + SelectInSeq(text, LAMBDA t : t = "/"), Len(text)), "_"))

ReadConfigmap(parts) ==
    [does |-> "configmap", conf |-> {c \in {"common", "event", "http"} : Contains(parts[1], c)},
     id |-> [ns |-> parts[2], name |-> parts[3]]]

ReadKey(text) ==
    IF Contains(text, "ExtendIngress")
    THEN IF Contains(text, "Del") THEN ReadDeletion(Split(text, "/")) ELSE ReadIngress(Split(text, "/"))
    ELSE IF Contains(text, "Endpoint") THEN ReadEndpoint(text)
    ELSE ReadConfigmap(Split(text, "/"))
==============================================================================
