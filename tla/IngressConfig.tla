---------------------------- MODULE IngressConfig ----------------------------
(***************************************************************************)
(* The configuration the controller keeps in memory (ExtendIngressCfg of   *)
(* cmd/extendingress.go) and the operations that bring an ingress, a       *)
(* deletion or an endpoints change into it.  The operations are functions  *)
(* of the configuration; Controller says when they are called.             *)
(*                                                                         *)
(* A specification is a sequence of rules [host, paths], where paths is a  *)
(* sequence of [path, svc, lpar, upar]: lpar is LocationParam, upar is     *)
(* UpstreamParam, and the service's port goes with its name.  A            *)
(* configuration is a record                                               *)
(*    servers : host -> path -> [proxy, par]                               *)
(*    ups     : name of an upstream -> [eps, par]                          *)
(*    conf    : config map -> its content                                  *)
(* A runtime panic (a nil map entry dereferenced) is part of an            *)
(* operation's outcome: syncHandler recovers it, and what was assigned     *)
(* before it stays.                                                        *)
(***************************************************************************)
EXTENDS Naturals, Sequences, SequencesExt

CONSTANTS ConfigMaps,       \* the common, event and http config maps
          BadParams,        \* parameters and contents nginx refuses
          NoParam,          \* no parameters (a nil map)
          Base,             \* the built-in content of returnBaseCfg
          Empty             \* no content, as after delCmFromCfg

\* nginx accepts the built-in contents.
ASSUME BaseAssumption == Base \notin BadParams

\* The proxy_pass "503": no upstream, the location returns 503.
Unavailable == <<>>

\* Mutant of getProxyPass: the ingress is not part of the name.
ProxyPassOfService(ing, svc, path) == <<svc, path>>

\* Namespace and port are left out of the name.
getProxyPass(ing, svc, path) == <<ing, svc, path>>

NoServers == [h \in {} |-> <<>>]

\* A map without some keys, with one more entry, and with the entries of
\* another one, where f wins (the :> and @@ of TLC are unknown to the prover).
Without(f, S) == Restrict(f, DOMAIN f \ S)
With(f, x, y) == [z \in {x} \cup DOMAIN f |-> IF z = x THEN y ELSE f[z]]
Over(f, g) == [z \in DOMAIN f \cup DOMAIN g |-> IF z \in DOMAIN f THEN f[z] ELSE g[z]]

EmptyCfg == [servers |-> NoServers, ups |-> NoServers, conf |-> [c \in ConfigMaps |-> Empty]]
returnBaseCfg == [EmptyCfg EXCEPT !.conf = [c \in ConfigMaps |-> Base]]

PathsOf(spec) == FoldLeft(LAMBDA ps, r : ps \o r.paths, <<>>, spec)

\* The paths of a specification host by host, as the status keeps them.
LastPaths(spec) ==
    [h \in {spec[k].host : k \in {n \in DOMAIN spec : spec[n].paths # <<>>}} |->
        FoldLeft(LAMBDA ps, r : IF r.host = h THEN ps \o r.paths ELSE ps, <<>>, spec)]
------------------------------------------------------------------------------
\* nginx -t, start and reload: every parameter is known, every upstream has
\* a server, and every proxy_pass names an upstream of the file.
NginxAccepts(cfg) ==
    /\ \A h \in DOMAIN cfg.servers : \A q \in DOMAIN cfg.servers[h] :
        /\ cfg.servers[h][q].par \notin BadParams
        /\ cfg.servers[h][q].proxy \in DOMAIN cfg.ups \cup {Unavailable}
    /\ \A u \in DOMAIN cfg.ups : cfg.ups[u].par \notin BadParams /\ cfg.ups[u].eps # {}
    /\ \A c \in ConfigMaps : cfg.conf[c] \notin BadParams
------------------------------------------------------------------------------
\* extendingressToServer.  addresses[svc] are the ready addresses of a service.
Location(ing, p, addresses) ==
    [proxy |-> IF addresses[p.svc] = {} THEN Unavailable ELSE getProxyPass(ing, p.svc, p.path),
     par   |-> p.lpar]

\* A path given twice keeps its last location.
Locations(ing, paths, addresses) ==
    FoldLeft(LAMBDA locs, p : With(locs, p.path, Location(ing, p, addresses)), NoServers, paths)

\* One server for a rule; a rule without paths gives none.
ParsedServers(ing, spec, addresses) ==
    FoldLeft(LAMBDA servers, r :
                IF r.paths = <<>> THEN servers
                ELSE Append(servers, [host |-> r.host, locs |-> Locations(ing, r.paths, addresses)]),
             <<>>, spec)

\* One upstream for a path whose service has addresses.
ParsedUpstreams(ing, spec, addresses) ==
    FoldLeft(LAMBDA ups, p :
                IF addresses[p.svc] = {} THEN ups
                ELSE With(ups, getProxyPass(ing, p.svc, p.path), [eps |-> addresses[p.svc], par |-> p.upar]),
             NoServers, PathsOf(spec))

extendingressToServer(ing, spec, addresses) ==
    [servers |-> ParsedServers(ing, spec, addresses), ups |-> ParsedUpstreams(ing, spec, addresses)]

\* checkIngressValid: nginx tests the base configuration with this ingress
\* alone; of several rules for one host the map keeps the last.
checkIngressValid(parsed) ==
    NginxAccepts([returnBaseCfg EXCEPT
        !.servers = FoldLeft(LAMBDA m, s : With(m, s.host, s.locs), NoServers, parsed.servers),
        !.ups = parsed.ups])
------------------------------------------------------------------------------
\* updateServerAndUpstreamToCfg, the loop over the parsed servers.  st is
\* [servers, ups, last]; last is the cached object's Status.LastPaths itself,
\* from which the loop deletes.  Of the old paths of the host, the first with
\* the path of a new location is superseded, the others are removed.
InstallServer(st, s, ing) ==
    LET old   == IF s.host \in DOMAIN st.last THEN st.last[s.host] ELSE <<>>
        names == {getProxyPass(ing, p.svc, p.path) : p \in ToSet(old)}
        removed == {old[k].path : k \in {n \in DOMAIN old :
                        \/ old[n].path \notin DOMAIN s.locs
                        \/ \E m \in 1..(n - 1) : old[m].path = old[n].path}}
        last  == Without(st.last, {s.host})
    IN  IF s.host \in DOMAIN st.servers
        THEN [servers |-> [st.servers EXCEPT ![s.host] = Without(Over(s.locs, @), removed)],
              ups     |-> Without(st.ups, names),
              last    |-> last]
        ELSE [servers |-> With(st.servers, s.host, s.locs), ups |-> st.ups, last |-> last]

InstallServers(st, servers, ing) ==
    FoldLeft(LAMBDA acc, s : InstallServer(acc, s, ing), st, servers)

\* The first loop deletes every host it installs from LastPaths.  The second
\* drops what is left, the hosts the ingress had and has no more, in the
\* random order of a map.  A host that is not in the configuration panics:
\* some of the others are dropped by then, and no upstream is installed.
DropHosts(cfg, st, H, ups) ==
    LET proxies == UNION {{st.servers[h][q].proxy : q \in DOMAIN st.servers[h]} : h \in H}
    IN  [cfg EXCEPT !.servers = Without(st.servers, H), !.ups = Over(ups, Without(st.ups, proxies))]

\* Mutant of updateServerAndUpstreamToCfg: new upstreams come before the loops,
\* which delete those of the old paths by name.
UpstreamsFirst(cfg, parsed, last, ing) ==
    LET st   == InstallServers([servers |-> cfg.servers, ups |-> Over(parsed.ups, cfg.ups), last |-> last],
                               parsed.servers, ing)
        left == Without(last, {s.host : s \in ToSet(parsed.servers)})
    IN  {[cfg |-> DropHosts(cfg, st, DOMAIN left \cap DOMAIN st.servers, NoServers),
          last |-> left, panicked |-> FALSE]}

updateServerAndUpstreamToCfg(cfg, parsed, last, ing) ==
    LET st    == InstallServers([servers |-> cfg.servers, ups |-> cfg.ups, last |-> last], parsed.servers, ing)
        left  == Without(last, {s.host : s \in ToSet(parsed.servers)})
        known == DOMAIN left \cap DOMAIN st.servers
    IN  IF known = DOMAIN left
        THEN {[cfg |-> DropHosts(cfg, st, known, parsed.ups), last |-> left, panicked |-> FALSE]}
        ELSE {[cfg |-> DropHosts(cfg, st, H, NoServers), last |-> left, panicked |-> TRUE] : H \in SUBSET known}

\* delServerAndUpstreamFromCfg: hosts and paths come with the key of the
\* deletion.  A host or a path that is not configured panics.
\*
\* Mutant of DeleteLocation: only the upstream goes.
DeleteUpstream(st, h, q) ==
    IF st.panicked \/ h \notin DOMAIN st.servers \/ q \notin DOMAIN st.servers[h]
    THEN [st EXCEPT !.panicked = TRUE]
    ELSE [st EXCEPT !.ups = Without(@, {st.servers[h][q].proxy})]

DeleteLocation(st, h, q) ==
    IF st.panicked \/ h \notin DOMAIN st.servers \/ q \notin DOMAIN st.servers[h]
    THEN [st EXCEPT !.panicked = TRUE]
    ELSE [st EXCEPT !.ups = Without(@, {st.servers[h][q].proxy}),
                    !.servers[h] = Without(@, {q})]

DeleteServer(st, group) ==
    LET h  == group.host
        st1 == FoldLeft(LAMBDA acc, q : DeleteLocation(acc, h, q), st, group.paths)
    IN  IF st1.panicked \/ h \notin DOMAIN st1.servers
        THEN [st1 EXCEPT !.panicked = TRUE]
        ELSE [st1 EXCEPT !.servers = IF DOMAIN @[h] = {} THEN Without(@, {h}) ELSE @]

delServerAndUpstreamFromCfg(cfg, groups) ==
    LET st == FoldLeft(DeleteServer, [servers |-> cfg.servers, ups |-> cfg.ups, panicked |-> FALSE], groups)
    IN  [cfg |-> [cfg EXCEPT !.servers = st.servers, !.ups = st.ups], panicked |-> st.panicked]

\* updateEndpointsToCfg: the rules and paths of the ingress that name the
\* service svc, in their order, point the location of the key's path q to
\* the upstream, or to 503 when there is no address.
\*
\* Mutant of UpdateLocation: without an address the location stays as it is.
UpdateServedLocation(st, h, par, up, q, addresses) ==
    LET present == h \in DOMAIN st.servers /\ q \in DOMAIN st.servers[h]
    IN  IF st.panicked \/ ~present \/ addresses = {} THEN st
        ELSE [st EXCEPT !.servers[h][q].proxy = up, !.par = par]

UpdateLocation(st, h, par, up, q, addresses) ==
    LET present == h \in DOMAIN st.servers /\ q \in DOMAIN st.servers[h]
    IN  IF st.panicked THEN st
        ELSE IF present
        THEN [st EXCEPT !.servers[h][q].proxy = IF addresses = {} THEN Unavailable ELSE up,
                        !.par = IF addresses = {} THEN @ ELSE par]
        ELSE [st EXCEPT !.panicked = (addresses = {})]

UpdateRule(st, r, svc, up, q, addresses) ==
    FoldLeft(LAMBDA acc, p :
                IF p.svc = svc THEN UpdateLocation(acc, r.host, p.upar, up, q, addresses) ELSE acc,
             st, r.paths)

updateEndpointsToCfg(cfg, ing, svc, q, spec, addresses) ==
    LET up    == getProxyPass(ing, svc, q)
        st    == FoldLeft(LAMBDA acc, r : UpdateRule(acc, r, svc, up, q, addresses),
                          [servers |-> cfg.servers, par |-> NoParam, panicked |-> FALSE], spec)
        ups   == IF st.panicked THEN cfg.ups
                 ELSE IF addresses = {} THEN Without(cfg.ups, {up})
                 ELSE With(cfg.ups, up, [eps |-> addresses, par |-> st.par])
    IN  [cfg |-> [cfg EXCEPT !.servers = st.servers, !.ups = ups], panicked |-> st.panicked]
------------------------------------------------------------------------------
\* rebuildNginxConf takes the built-in content for a config map that is empty,
\* and lets nginx test the three contents without any server.
WithBaseConf(cfg) ==
    [cfg EXCEPT !.conf = [c \in ConfigMaps |-> IF @[c] = Empty THEN Base ELSE @[c]]]

\* The verdict of that test, where it gives one.
ConfAccepted(cfg) == NginxAccepts([returnBaseCfg EXCEPT !.conf = cfg.conf])
==============================================================================
